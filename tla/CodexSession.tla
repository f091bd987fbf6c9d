---- MODULE CodexSession ----
(***************************************************************************)
(* A session of the Codex adapter (adapters/codex/session.ts): one thread of *)
(* an app-server that it may share with others.                              *)
(*                                                                         *)
(* A turn is opened and closed by the server's notifications, which are      *)
(* handled one at a time, each with its awaits; an inject waits for the      *)
(* notification that settles it.  The events go through one chain.           *)
(***************************************************************************)
EXTENDS Naturals, Sequences

CONSTANTS
  Callers,      \* concurrent callers of inject and abortTurn
  Interrupting, \* those that interrupt a turn, to inject or to abort it
  Steering,     \* those that steer a turn; the others require an idle session
  MaxTurns,     \* bound: turns the server starts
  MaxNotes,     \* bound: notifications received and not handled
  Hazards,      \* what the server may do at a bad moment
  Faults,       \* what else may go wrong
  MaxFaults,    \* bound on both
  WriteLimit    \* STREAM_WRITE_FAIL_LIMIT

ASSUME BoundsAssumption == MaxTurns \in Nat

Turns == 1..MaxTurns
None  == 0

VARIABLES
  status,     \* #status.state
  cur,        \* #currentTurnId
  tool,       \* #inflightToolIds
  injecting,  \* #injecting
  pend,       \* #pendingInject: the caller that waits for turn/started
  call,       \* each caller
  closer,     \* #closePromise: where doClose is
  closing,    \* #closing
  stuck,      \* #stuck
  fin,        \* #finalized: where finalizeEnded is
  compact,    \* #compactInflight
  notes,      \* #notifyChain: notifications received, the first of which is being handled
  handler,    \* how far the first is
  server,     \* the app-server, and this thread in it
  chain,      \* #emitChain: events submitted and not out
  fails,      \* #streamWriteFails
  log,        \* what is out
  told,       \* history: turns returned as delivered
  faults

turnVars == <<status, cur, tool>>
flags    == <<injecting, closing, stuck>>
inbound  == <<notes, handler, server>>
out      == <<chain, fails, log>>
vars == <<turnVars, flags, pend, call, closer, fin, compact, inbound, out, told, faults>>

Fault(kind) == kind \in Faults \cup Hazards /\ faults < MaxFaults /\ faults' = faults + 1

-----------------------------------------------------------------------------
(* Events                                                                    *)

\* An event and the thread that awaits it; those that nothing depends on are left out.
Event(kind, t, by) == [kind |-> kind, turn |-> t, by |-> by]
Out(thread) == \A i \in DOMAIN chain : chain[i].by # thread

\* What a listener makes of an event; "broken" is a turn that starts or ends twice or out of turn.
Heard(e) ==
  IF log.session = "ended" THEN log
  ELSE CASE e.kind = "turn_started" ->
              [log EXCEPT !.turn[e.turn] = IF @ = "unborn" THEN "open" ELSE "broken"]
         [] e.kind = "turn_ended" ->
              [log EXCEPT !.turn[e.turn] = IF @ = "open" THEN "ended" ELSE "broken"]
         [] e.kind = "tool_invoked"  -> [log EXCEPT !.tool = TRUE]
         [] e.kind = "tool_result"   -> [log EXCEPT !.tool = FALSE]
         [] e.kind = "session_ended" -> [log EXCEPT !.session = "ended"]
         [] OTHER -> log

Entered(force) == [pc |-> "entered", force |-> force, turn |-> None]

\* doEmit.  An event is heard even when it cannot be written; after WriteLimit failures in a row the
\* session closes itself.  compact_ended settles compact().
DoEmit ==
  LET e == Head(chain) IN
  /\ chain # <<>>
  /\ chain' = Tail(chain)
  /\ log' = Heard(e)
  /\ compact' = IF e.kind = "compact_ended" THEN FALSE ELSE compact
  /\ \/ fails' = 0 /\ UNCHANGED <<closer, closing, faults>>
     \/ /\ log.session = "open" /\ Fault("write")
        /\ fails' = IF fails < WriteLimit THEN fails + 1 ELSE fails
        /\ IF fails + 1 >= WriteLimit /\ closer.pc = "none"
           THEN closer' = Entered(TRUE) /\ closing' = TRUE
           ELSE UNCHANGED <<closer, closing>>
  /\ UNCHANGED <<turnVars, injecting, stuck, pend, call, fin, inbound, told>>

Closed == closing \/ status \in {"closing", "closed"}

-----------------------------------------------------------------------------
(* finalizeEnded                                                             *)

\* Mutant of ToolLeft: the tool that runs has no synthetic result.
NoToolLeft == FALSE
ToolLeft == cur # None /\ tool

\* Mutant of TurnLeft: the turn that is left is not ended.
NoTurnLeft == FALSE
TurnLeft == cur # None

\* Mutant of Cancelled: who waits for turn/started is left waiting.
NotCancelled == FALSE
Cancelled == pend # {}

\* Who waits for turn/started is refused; session_ended is submitted.
EndSession(ch) ==
  /\ call' = IF Cancelled THEN [c \in Callers |-> [call[c] EXCEPT !.lost = @ \/ c \in pend]] ELSE call
  /\ pend' = {}
  /\ chain' = Append(ch, Event("session_ended", None, "fin")) /\ fin' = "session"

EndTurn(ch) ==
  /\ cur' = None
  /\ chain' = Append(ch, Event("turn_ended", cur, "fin")) /\ fin' = "turn"
  /\ UNCHANGED <<call, pend>>

\* Its beginning, up to the first await, by whoever comes first.
Finalize ==
  IF fin # "no" THEN UNCHANGED <<call, pend, chain, cur, fin>>
  ELSE IF ToolLeft
       THEN chain' = Append(chain, Event("tool_result", cur, "fin")) /\ fin' = "tool" /\ UNCHANGED <<cur, call, pend>>
  ELSE IF TurnLeft THEN EndTurn(chain)
  ELSE EndSession(chain) /\ UNCHANGED cur

FinalizeTool ==
  /\ fin = "tool" /\ Out("fin")
  /\ tool' = FALSE
  /\ EndTurn(chain)
  /\ UNCHANGED <<status, flags, closer, compact, inbound, fails, log, told, faults>>

FinalizeTurn ==
  /\ fin = "turn" /\ Out("fin")
  /\ EndSession(chain)
  /\ UNCHANGED <<turnVars, flags, closer, compact, inbound, fails, log, told, faults>>

\* The turn that the close waits for is over.
Awaited == cur # closer.turn

FinalizeSession ==
  /\ fin = "session" /\ Out("fin") /\ ~(closer.pc = "wait" /\ Awaited)
  /\ status' = "closed" /\ fin' = "done"
  /\ UNCHANGED <<cur, tool, flags, pend, call, closer, compact, inbound, out, told, faults>>

-----------------------------------------------------------------------------
(* inject and abortTurn                                                      *)

Idle == [pc |-> "free", owner |-> FALSE, turn |-> None, lost |-> FALSE]

Released(c) ==
  /\ call' = [call EXCEPT ![c] = Idle]
  /\ injecting' = IF call[c].owner THEN FALSE ELSE injecting

\* A session that is closed, or stuck, refuses at once.
Inject(c) ==
  /\ call[c].pc = "free" /\ server.count < MaxTurns /\ ~compact
  /\ ~Closed /\ ~stuck
  /\ call' = [call EXCEPT ![c] = [Idle EXCEPT !.owner = ~injecting, !.pc = "asked"]]
  /\ injecting' = TRUE
  /\ UNCHANGED <<turnVars, closing, stuck, pend, closer, fin, compact, inbound, out, told, faults>>

\* host_inject_requested is out.
Asked(c) ==
  LET streaming == status = "streaming"
      to(pc) == call' = [call EXCEPT ![c].pc = pc] /\ UNCHANGED injecting
  IN
  /\ call[c].pc = "asked"
  /\ \/ (~call[c].owner \/ (streaming /\ c \notin Interrupting \cup Steering)) /\ Released(c)
     \/ call[c].owner /\ ~streaming /\ to("accepted")
     \/ call[c].owner /\ streaming /\ c \in Interrupting /\ to("interrupt")
     \/ call[c].owner /\ streaming /\ c \in Steering /\ to("steer")
  /\ UNCHANGED <<turnVars, closing, stuck, pend, closer, fin, compact, inbound, out, told, faults>>

\* The turn that is open takes the message, or refuses it; there may be none by now.
Steered(c) ==
  /\ call[c].pc = "steer"
  /\ Released(c)
  /\ UNCHANGED <<turnVars, closing, stuck, pend, closer, fin, compact, inbound, out, told, faults>>

AbortTurn(c) ==
  /\ c \in Interrupting
  /\ call[c].pc = "free" /\ ~Closed /\ ~stuck /\ status = "streaming"
  /\ call' = [call EXCEPT ![c].pc = "interrupt"]
  /\ UNCHANGED <<turnVars, flags, pend, closer, fin, compact, inbound, out, told, faults>>

\* turn/interrupt has returned, whatever it says: the turn that is open by now is waited for.
InterruptWaits(c) ==
  /\ call[c].pc = "interrupt"
  /\ call' = [call EXCEPT ![c].pc = "wait", ![c].turn = cur]
  /\ UNCHANGED <<turnVars, flags, pend, closer, fin, compact, inbound, out, told, faults>>

\* The deadlines are seconds: what the server has already said is handled sooner.
Patient == \A i \in DOMAIN notes : notes[i].kind \notin {"completed", "compacted"}

\* The turn ends, or takes too long; then the session is stuck.  An inject (the owner of the mutex)
\* goes on, an abort returns.
InterruptEnds(c) ==
  LET over == call[c].turn = None \/ cur # call[c].turn IN
  /\ call[c].pc = "wait" /\ (over \/ Patient)
  /\ stuck' = (stuck \/ ~over)
  /\ IF over /\ call[c].owner
     THEN call' = [call EXCEPT ![c].pc = "accepted", ![c].turn = None] /\ UNCHANGED injecting
     ELSE Released(c)
  /\ UNCHANGED <<turnVars, closing, pend, closer, fin, compact, inbound, out, told, faults>>

\* startTurn: inject_accepted is out and the content built.  It does not look whether the session is
\* being closed.
Accepted(c) ==
  /\ call[c].pc = "accepted"
  /\ \/ Fault("content") /\ Released(c) /\ UNCHANGED pend
     \/ ~server.alive /\ Released(c) /\ UNCHANGED <<pend, faults>>
     \/ /\ server.alive
        /\ pend' = {c}
        /\ call' = [call EXCEPT ![c].pc = "requested"]
        /\ UNCHANGED <<injecting, faults>>
  /\ UNCHANGED <<turnVars, closing, stuck, closer, fin, compact, inbound, out, told>>

\* turn/start fails: the server died, or refuses; or its time is over and it is under way.
RequestFails(c) ==
  /\ \/ call[c].pc = "requested" /\ ~server.alive /\ UNCHANGED faults
     \/ call[c].pc = "requested" /\ server.alive /\ Fault("refuse")
     \/ call[c].pc = "taken" /\ Fault("late_start")
  /\ pend' = {}
  /\ Released(c)
  /\ UNCHANGED <<turnVars, closing, stuck, closer, fin, compact, inbound, out, told>>

\* The caller waits for turn/started: no deadline.
Acknowledged(c) ==
  /\ call[c].pc = "taken" /\ (call[c].turn # None \/ call[c].lost)
  /\ told' = IF call[c].lost THEN told ELSE told \cup {call[c].turn}
  /\ Released(c)
  /\ UNCHANGED <<turnVars, closing, stuck, pend, closer, fin, compact, inbound, out, faults>>

-----------------------------------------------------------------------------
(* The app-server                                                            *)

\* A notification of this thread is routed to the session, while it is registered.
Says(note, s) ==
  /\ Len(notes) < MaxNotes
  /\ server' = s
  /\ notes' = IF server.routed THEN Append(notes, note) ELSE notes
  /\ UNCHANGED <<turnVars, flags, pend, call, closer, fin, compact, handler, out, told, faults>>

ServerTakes(c) ==
  /\ server.alive /\ call[c].pc = "requested"
  /\ call' = [call EXCEPT ![c].pc = "taken"]
  /\ server' = [server EXCEPT !.todo = @ \cup {c}]
  /\ UNCHANGED <<turnVars, flags, pend, closer, fin, compact, notes, handler, out, told, faults>>

ServerStarts ==
  /\ server.alive /\ server.run = None /\ server.count < MaxTurns
  /\ \E c \in server.todo :
       Says([kind |-> "started", turn |-> server.count + 1],
            [server EXCEPT !.todo = @ \ {c}, !.run = server.count + 1, !.count = @ + 1, !.tool = "unused"])

\* Bound: a turn uses a tool once at most.
ServerTool ==
  /\ server.alive /\ server.run # None
  /\ \/ server.tool = "unused"
        /\ Says([kind |-> "item_started", turn |-> server.run], [server EXCEPT !.tool = "runs"])
     \/ server.tool = "runs"
        /\ Says([kind |-> "item_completed", turn |-> server.run], [server EXCEPT !.tool = "used"])

ServerCompletes ==
  /\ server.alive /\ server.run # None /\ server.tool # "runs"
  /\ Says([kind |-> "completed", turn |-> server.run], [server EXCEPT !.run = None])

ServerCompacts ==
  /\ server.alive /\ server.compacts
  /\ Says([kind |-> "compacted", turn |-> None], [server EXCEPT !.compacts = FALSE])

-----------------------------------------------------------------------------
(* handleNotificationAsync                                                   *)

\* A closed session drops them.
Ready(kind) == notes # <<>> /\ Head(notes).kind = kind /\ handler.pc = "idle" /\ status # "closed"
Handled == notes' = Tail(notes) /\ handler' = [pc |-> "idle", ack |-> {}]
Handling(pc) == handler.pc = pc /\ Out("note")

HandleStarted ==
  /\ Ready("started")
  /\ cur' = Head(notes).turn /\ tool' = FALSE
  /\ status' = IF status = "closing" THEN status ELSE "streaming"
  /\ chain' = Append(chain, Event("turn_started", Head(notes).turn, "note"))
  /\ handler' = [handler EXCEPT !.pc = "started"]
  /\ UNCHANGED <<flags, pend, call, closer, fin, compact, notes, server, fails, log, told, faults>>

\* turn_started is out: who waits for it is taken from pendingInject.
HandleSettle ==
  /\ Handling("started")
  /\ pend' = {}
  /\ IF pend = {} THEN Handled
     ELSE handler' = [pc |-> "settle", ack |-> pend] /\ UNCHANGED notes
  /\ UNCHANGED <<turnVars, flags, call, closer, fin, compact, server, out, told, faults>>

\* inject_delivered is out.
HandleSettled ==
  /\ Handling("settle")
  /\ call' = [c \in Callers |-> IF c \in handler.ack /\ call[c].pc \in {"requested", "taken"}
                                THEN [call[c] EXCEPT !.turn = Head(notes).turn] ELSE call[c]]
  /\ Handled
  /\ UNCHANGED <<turnVars, flags, pend, closer, fin, compact, server, out, told, faults>>

HandleTool ==
  /\ Ready("item_started") \/ Ready("item_completed")
  /\ tool' = (Head(notes).kind = "item_started")
  /\ chain' = Append(chain, Event(IF tool' THEN "tool_invoked" ELSE "tool_result", Head(notes).turn, "note"))
  /\ handler' = [handler EXCEPT !.pc = "said"]
  /\ UNCHANGED <<status, cur, flags, pend, call, closer, fin, compact, notes, server, fails, log, told, faults>>

\* The summary is not observable; compact() is settled by the event.
HandleCompacted ==
  /\ Ready("compacted")
  /\ chain' = Append(chain, Event("compact_ended", None, "note"))
  /\ handler' = [handler EXCEPT !.pc = "said"]
  /\ UNCHANGED <<turnVars, flags, pend, call, closer, fin, compact, notes, server, fails, log, told, faults>>

HandleSaid ==
  /\ Handling("said")
  /\ Handled
  /\ UNCHANGED <<turnVars, flags, pend, call, closer, fin, compact, server, out, told, faults>>

HandleCompleted ==
  /\ Ready("completed")
  /\ chain' = Append(chain, Event("turn_ended", Head(notes).turn, "note"))
  /\ handler' = [handler EXCEPT !.pc = "completed"]
  /\ UNCHANGED <<turnVars, flags, pend, call, closer, fin, compact, notes, server, fails, log, told, faults>>

\* Mutant of OnTurnEnded: the turn stays the current one.
TurnStays ==
  /\ tool' = FALSE /\ UNCHANGED cur
  /\ status' = IF status \in {"closing", "closed"} THEN status ELSE "idle"
OnTurnEnded ==
  /\ cur' = None /\ tool' = FALSE
  /\ status' = IF status \in {"closing", "closed"} THEN status ELSE "idle"

\* turn_ended is out.
HandleEnded ==
  /\ Handling("completed")
  /\ OnTurnEnded
  /\ Handled
  /\ UNCHANGED <<flags, pend, call, closer, fin, compact, server, out, told, faults>>

-----------------------------------------------------------------------------
(* compact, closeSession, cascadeClose                                       *)

\* The host's flow compacts an idle session, and injects nothing meanwhile.
CompactBegin ==
  /\ ~Closed /\ ~compact /\ ~server.compacts /\ status = "idle" /\ \A c \in Callers : call[c].pc = "free"
  /\ compact' = TRUE
  /\ server' = [server EXCEPT !.compacts = server.alive]
  /\ UNCHANGED <<turnVars, flags, pend, call, closer, fin, notes, handler, out, told, faults>>

\* thread/compact/start is refused, or its time is over.
CompactFails ==
  /\ compact
  /\ ~server.alive \/ ~server.routed \/ status = "closed" \/ Patient
  /\ compact' = FALSE
  /\ server' = [server EXCEPT !.compacts = FALSE]
  /\ UNCHANGED <<turnVars, flags, pend, call, closer, fin, notes, handler, out, told, faults>>

\* close(): every further call is given the same promise.
Close(force) ==
  /\ closer.pc = "none" /\ fin # "done"
  /\ closing' = TRUE
  /\ closer' = Entered(force)
  /\ UNCHANGED <<turnVars, injecting, stuck, pend, call, fin, compact, inbound, out, told, faults>>

\* A session is ended while no notification waits to be handled or is turn/completed, and no inject
\* is on its way to the server.
NoneUnhandled == \A i \in DOMAIN notes : i = 1 /\ handler.pc \in {"started", "settle", "said"}
Calm ==
  /\ "end_in_handler" \in Hazards \/ NoneUnhandled
  /\ "end_in_delivery" \in Hazards \/ \A c \in Callers : call[c].owner => call[c].pc \in {"requested", "taken"}

\* Force-killed: the app-server is killed, with every session that shares it.
Kill == server' = [server EXCEPT !.alive = FALSE, !.routed = FALSE] /\ Finalize /\ closer' = [closer EXCEPT !.pc = "done"]

\* doClose: a turn may end of itself, or is interrupted, unless the session is stuck.
CloseEnters ==
  /\ closer.pc = "entered"
  /\ \/ /\ ~stuck /\ status = "streaming"
        /\ closer' = [closer EXCEPT !.pc = "wait", !.turn = cur]
        /\ UNCHANGED <<status, server, cur, pend, call, chain, fin>>
     \/ /\ stuck /\ Calm
        /\ status' = "closing" /\ Kill
     \/ /\ ~stuck /\ status # "streaming"
        /\ status' = "closing" /\ closer' = [closer EXCEPT !.pc = "unsubscribe"]
        /\ UNCHANGED <<server, cur, pend, call, chain, fin>>
  /\ UNCHANGED <<tool, flags, compact, notes, handler, fails, log, told, faults>>

\* Mutant of CloseWaits: the wait has no deadline.
CloseWaitsOnTurn ==
  /\ closer.pc = "wait" /\ Awaited
  /\ status' = "closing" /\ closer' = [closer EXCEPT !.pc = "unsubscribe"]
  /\ UNCHANGED <<tool, flags, cur, pend, call, chain, fin, compact, inbound, fails, log, told, faults>>

CloseWaits ==
  /\ closer.pc = "wait"
  /\ status' = "closing"
  /\ \/ /\ Awaited
        /\ closer' = [closer EXCEPT !.pc = "unsubscribe"]
        /\ UNCHANGED <<stuck, server, cur, pend, call, chain, fin>>
     \/ /\ ~Awaited /\ Patient /\ Calm
        /\ stuck' = (stuck \/ closer.force)
        /\ Kill
  /\ UNCHANGED <<tool, injecting, closing, compact, notes, handler, fails, log, told, faults>>

\* thread/unsubscribe returns: the thread is unregistered; when it fails, the app-server is killed.
CloseUnsubscribes ==
  /\ closer.pc = "unsubscribe" /\ Calm
  /\ \/ /\ server.alive
        /\ server' = [server EXCEPT !.routed = FALSE]
        /\ closer' = [closer EXCEPT !.pc = "done"]
        /\ Finalize
        /\ UNCHANGED faults
     \/ (IF server.alive THEN Fault("refuse") ELSE UNCHANGED faults) /\ Kill
  /\ UNCHANGED <<status, tool, flags, compact, notes, handler, fails, log, told>>

\* The app-server dies, or another session has it killed: cascadeClose.
ServerDies ==
  /\ server.alive /\ Fault("crash") /\ Calm
  /\ server' = [server EXCEPT !.alive = FALSE, !.routed = FALSE]
  /\ IF server.routed /\ fin = "no"
     THEN closing' = TRUE /\ status' = "closing" /\ Finalize
     ELSE UNCHANGED <<closing, status, call, pend, chain, cur, fin>>
  /\ UNCHANGED <<tool, injecting, stuck, closer, compact, notes, handler, fails, log, told>>

-----------------------------------------------------------------------------

Init ==
  /\ status = "idle" /\ cur = None /\ tool = FALSE
  /\ injecting = FALSE /\ closing = FALSE /\ stuck = FALSE
  /\ pend = {} /\ call = [c \in Callers |-> Idle]
  /\ closer = [pc |-> "none", force |-> FALSE, turn |-> None]
  /\ fin = "no" /\ compact = FALSE
  /\ notes = <<>> /\ handler = [pc |-> "idle", ack |-> {}]
  /\ server = [alive |-> TRUE, routed |-> TRUE, todo |-> {}, run |-> None, count |-> 0, tool |-> "unused", compacts |-> FALSE]
  /\ chain = <<>> /\ fails = 0
  /\ log = [turn |-> [t \in Turns |-> "unborn"], tool |-> FALSE, session |-> "open"]
  /\ told = {} /\ faults = 0

CallSteps(c) ==
  \/ Asked(c) \/ Steered(c) \/ InterruptWaits(c) \/ InterruptEnds(c)
  \/ Accepted(c) \/ RequestFails(c) \/ Acknowledged(c)
Handler ==
  \/ HandleStarted \/ HandleSettle \/ HandleSettled \/ HandleTool \/ HandleCompacted \/ HandleSaid
  \/ HandleCompleted \/ HandleEnded
Finalizer == FinalizeTool \/ FinalizeTurn \/ FinalizeSession
Closer == CloseEnters \/ CloseWaits \/ CloseUnsubscribes
Server == ServerStarts \/ ServerTool \/ ServerCompletes \/ ServerCompacts \/ ServerDies \/ \E c \in Callers : ServerTakes(c)

Next ==
  \/ DoEmit \/ Handler \/ Server \/ Finalizer \/ Closer
  \/ \E c \in Callers : CallSteps(c) \/ AbortTurn(c) \/ Inject(c)
  \/ CompactBegin \/ CompactFails
  \/ \E force \in BOOLEAN : Close(force)

Spec == Init /\ [][Next]_vars

\* What the adapter itself does is done: its writes, its timers, and what follows an await.  Of the
\* server only that it answers turn/start, and starts the turn it has accepted: for that, and for
\* nothing else, the adapter waits without a deadline.
Fairness ==
  /\ WF_vars(DoEmit) /\ WF_vars(Handler) /\ WF_vars(Finalizer) /\ WF_vars(Closer) /\ WF_vars(CompactFails)
  /\ \A c \in Callers : WF_vars(CallSteps(c)) /\ WF_vars(ServerTakes(c))
  /\ WF_vars(ServerStarts)

FairSpec == Spec /\ Fairness

-----------------------------------------------------------------------------
(* What the session promises                                                 *)

TypeOK ==
  /\ status \in {"idle", "streaming", "closing", "closed"}
  /\ cur \in 0..MaxTurns /\ tool \in BOOLEAN /\ pend \subseteq Callers
  /\ fin \in {"no", "tool", "turn", "session", "done"}
  /\ fails \in 0..WriteLimit /\ told \subseteq 1..server.count
  /\ status = "streaming" => cur # None
  /\ cur # None => status # "idle"

\* The contract of all providers (wrapper/types/runtime.ts): no two turns are open, each is opened once
\* and ended once, an inject is only reported delivered to a turn that was opened, and session_ended
\* comes last and once, when every turn has its end and every tool its result, be it a synthetic one.
Contract == INSTANCE ProviderSession WITH turn <- log.turn, tool <- log.tool, session <- log.session
ImplementsContract == Contract!Spec

\* Every inject, abort and compaction returns, whether the session is closed or the server dies; a
\* close, a dead app-server and repeated write failures all reach session_ended.
Terminates ==
  /\ \A c \in Callers : call[c].pc # "free" ~> call[c].pc = "free"
  /\ compact ~> ~compact
  /\ closing \/ fin # "no" ~> log.session = "ended"

=============================================================================
