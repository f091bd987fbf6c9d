---- MODULE ClaudeSession ----
(***************************************************************************)
(* A session of the Claude adapter (adapters/claude/session.ts).            *)
(*                                                                         *)
(* Injects, an abort, a compaction, a close and the subscriber that consumes *)
(* the SDK's messages run interleaved: each may lose control wherever it    *)
(* awaits.  Events go through one chain, so that their order is the order   *)
(* they were submitted in; who awaits an event goes on when it is out.      *)
(***************************************************************************)
EXTENDS Naturals, Sequences

CONSTANTS
  Callers,      \* concurrent callers of inject
  Interrupting, \* those whose policy is "interrupt"; the others require an idle session
  MaxTurns,     \* bound: turns opened
  Hazards,      \* what the SDK may do at a bad moment
  Faults,       \* what else may go wrong
  MaxFaults,    \* bound on both
  WriteLimit    \* STREAM_WRITE_FAIL_LIMIT

ASSUME BoundsAssumption == MaxTurns \in Nat
\* No caller is called like another thread, or like none.
ASSUME CallersAssumption == Callers \cap {"sub", "fin", "none"} = {}

Turns == 1..MaxTurns
None  == 0
Compact == MaxTurns + 1       \* the /compact message, beside those of the turns

VARIABLES
  status,     \* #status.state
  cur,        \* #currentTurnId
  count,      \* #turnCounter
  tool,       \* #inflightToolIds
  injecting,  \* #injecting
  call,       \* each caller of inject or abortTurn
  closer,     \* #closePromise: where doClose is
  closing,    \* #closing
  stuck,      \* #stuck
  init,       \* #initResolved, #initError and #initTimer
  fin,        \* #finalized: where finalizeEnded is
  queue,      \* the input queue: messages the SDK has not taken, and whether it is open
  sdk,        \* the SDK: the message it works on; the subscriber
  compact,    \* #compactInflight
  chain,      \* #emitChain: events submitted and not out
  fails,      \* #streamWriteFails
  log,        \* what is out
  told,       \* history: turns returned as delivered
  faults

threads == <<call, closer>>
flags   == <<injecting, closing, stuck>>
vars == <<status, cur, count, tool, threads, flags, init, fin, queue, sdk, compact, chain, fails, log, told, faults>>

Fault(kind) == kind \in Faults \cup Hazards /\ faults < MaxFaults /\ faults' = faults + 1

-----------------------------------------------------------------------------
(* Events                                                                    *)

\* An event and the thread that awaits it.  Those that nothing depends on (the inject's own records,
\* session_started, runtime_error) are left out: their wait is a place between two steps.
Event(kind, t, by) == [kind |-> kind, turn |-> t, by |-> by]
Out(thread) == \A i \in DOMAIN chain : chain[i].by # thread

\* What a listener makes of an event; "broken" is a turn that starts or ends twice or out of turn.
Heard(e) ==
  IF log.session = "ended" THEN log
  ELSE CASE e.kind = "turn_started" ->
              [log EXCEPT !.turn[e.turn] = IF @ = "unborn" THEN "open" ELSE "broken"]
         [] e.kind = "turn_ended" /\ e.turn # None ->
              [log EXCEPT !.turn[e.turn] = IF @ = "open" THEN "ended" ELSE "broken"]
         [] e.kind = "turn_ended" /\ e.turn = None -> [log EXCEPT !.orphan = TRUE]
         [] e.kind = "tool_invoked"  -> [log EXCEPT !.tool = TRUE]
         [] e.kind = "tool_result"   -> [log EXCEPT !.tool = FALSE]
         [] e.kind = "session_ended" -> [log EXCEPT !.session = "ended"]
         [] OTHER -> log

Closed == closing \/ status \in {"closing", "closed"}

\* doEmit.  An event is heard even when it cannot be written; after WriteLimit failures in a row the
\* session closes itself.  compact_ended settles compact().
DoEmit ==
  LET e == Head(chain) IN
  /\ chain # <<>>
  /\ chain' = Tail(chain)
  /\ log' = Heard(e)
  /\ compact' = IF e.kind = "compact_ended" THEN FALSE ELSE compact
  /\ \/ fails' = 0 /\ UNCHANGED <<closer, closing, init, faults>>
     \/ /\ log.session = "open" /\ Fault("write")
        /\ fails' = IF fails < WriteLimit THEN fails + 1 ELSE fails
        /\ IF fails + 1 >= WriteLimit /\ closer.pc = "none"
           THEN /\ closer' = [pc |-> "entered", force |-> TRUE, turn |-> None] /\ closing' = TRUE
                /\ init' = IF init = "armed" THEN "unarmed" ELSE init
           ELSE UNCHANGED <<closer, closing, init>>
  /\ UNCHANGED <<status, cur, count, tool, call, injecting, stuck, fin, queue, sdk, told>>

-----------------------------------------------------------------------------
(* finalizeEnded                                                             *)

\* Mutant of TurnLeft: the turn that is left is not ended.
NoTurnLeft == FALSE
TurnLeft == cur # None
\* Mutant of ToolLeft: the tool that runs has no synthetic result.
NoToolLeft == FALSE
ToolLeft == cur # None /\ tool

\* Its beginning, up to the first await, by whoever comes first.
Finalize(ch) ==
  IF fin # "no" THEN chain' = ch /\ UNCHANGED <<cur, fin>>
  ELSE IF ToolLeft THEN chain' = Append(ch, Event("tool_result", cur, "fin")) /\ fin' = "tool" /\ UNCHANGED cur
  ELSE IF TurnLeft THEN chain' = Append(ch, Event("turn_ended", cur, "fin")) /\ fin' = "turn" /\ cur' = None
  ELSE chain' = Append(ch, Event("session_ended", None, "fin")) /\ fin' = "session" /\ UNCHANGED cur

FinalizeTool ==
  /\ fin = "tool" /\ Out("fin")
  /\ tool' = FALSE
  /\ chain' = Append(chain, Event("turn_ended", cur, "fin")) /\ fin' = "turn" /\ cur' = None
  /\ UNCHANGED <<status, count, threads, flags, init, queue, sdk, compact, fails, log, told, faults>>

FinalizeTurn ==
  /\ fin = "turn" /\ Out("fin")
  /\ chain' = Append(chain, Event("session_ended", None, "fin")) /\ fin' = "session"
  /\ UNCHANGED <<status, cur, count, tool, threads, flags, init, queue, sdk, compact, fails, log, told, faults>>

FinalizeSession ==
  /\ fin = "session" /\ Out("fin")
  /\ status' = "closed" /\ fin' = "done"
  /\ UNCHANGED <<cur, count, tool, threads, flags, init, queue, sdk, compact, chain, fails, log, told, faults>>

\* A fatal error: runtime_error, teardown of queue and query, finalizeEnded.
Fatal ==
  /\ queue' = [queue EXCEPT !.open = FALSE]
  /\ Finalize(chain)

-----------------------------------------------------------------------------
(* inject                                                                    *)

Idle == [pc |-> "free", owner |-> FALSE, turn |-> None]

Released(c) ==
  /\ call' = [call EXCEPT ![c] = Idle]
  /\ injecting' = IF call[c].owner THEN FALSE ELSE injecting

\* Refused: the call returns.
Refuse(c) == Released(c)

Inject(c) ==
  /\ call[c].pc = "free" /\ count < MaxTurns /\ ~compact
  /\ LET new == [pc |-> "asked", owner |-> ~injecting, turn |-> None]
         refused == Closed \/ stuck \/ init = "failed"
     IN call' = [call EXCEPT ![c] = IF refused THEN [new EXCEPT !.pc = "refused"] ELSE new]
  /\ injecting' = TRUE
  /\ UNCHANGED <<status, cur, count, tool, closer, closing, stuck, init, fin, queue, sdk, compact, chain, fails, log, told, faults>>

\* Mutant of MayDeliver: a concurrent inject is only looked for in the status.
MayDeliverByStatus(c) == TRUE
\* The mutex: another inject may have passed the check and not set the status yet.
MayDeliver(c) == call[c].owner

Asked(c) ==
  /\ call[c].pc = "asked"
  /\ IF ~MayDeliver(c) \/ (status = "streaming" /\ c \notin Interrupting)
     THEN Refuse(c)
     ELSE /\ call' = [call EXCEPT ![c] = IF status = "streaming" THEN [@ EXCEPT !.pc = "interrupt", !.turn = cur]
                                        ELSE [@ EXCEPT !.pc = "accepted"]]
          /\ UNCHANGED injecting
  /\ UNCHANGED <<status, cur, count, tool, closer, closing, stuck, init, fin, queue, sdk, compact, chain, fails, log, told, faults>>

\* interruptAndWait: the turn ends, or takes too long; then the session is stuck.
Interrupted(c) ==
  /\ call[c].pc = "interrupt"
  /\ \/ cur # call[c].turn
        /\ call' = [call EXCEPT ![c].pc = "accepted", ![c].turn = None]
        /\ UNCHANGED <<stuck, injecting>>
     \/ cur = call[c].turn /\ stuck' = TRUE /\ Refuse(c)
  /\ UNCHANGED <<status, cur, count, tool, closer, closing, init, fin, queue, sdk, compact, chain, fails, log, told, faults>>

\* The turn that the close waits for is over: the close goes on before anything is written.
Awaited == cur # closer.turn

\* deliver: the content is built and the queue open, or the message is refused.
Accepted(c) ==
  /\ call[c].pc = "accepted"
  /\ ~(closer.pc = "wait" /\ Awaited)
  /\ \/ ~queue.open /\ Refuse(c) /\ UNCHANGED <<count, cur, status, tool, faults>>
     \/ Fault("content") /\ Refuse(c) /\ UNCHANGED <<count, cur, status, tool>>
     \/ /\ queue.open /\ count < MaxTurns
        /\ count' = count + 1 /\ cur' = count + 1 /\ tool' = FALSE
        /\ status' = "streaming"
        /\ call' = [call EXCEPT ![c].pc = "delivered", ![c].turn = count + 1]
        /\ UNCHANGED <<faults, injecting>>
  /\ UNCHANGED <<closer, closing, stuck, init, fin, queue, sdk, compact, chain, fails, log, told>>

\* inject_delivered is out: turn_started.
Delivered(c) ==
  /\ call[c].pc = "delivered"
  /\ call' = [call EXCEPT ![c].pc = "started"]
  /\ chain' = Append(chain, Event("turn_started", call[c].turn, c))
  /\ UNCHANGED <<status, cur, count, tool, closer, flags, init, fin, queue, sdk, compact, fails, log, told, faults>>

Push(m) == queue.open /\ queue' = [queue EXCEPT !.waits = Append(@, m)]

\* The message is pushed, or the session ends: the SDK does not have it.
Started(c) ==
  /\ call[c].pc = "started" /\ Out(c)
  /\ init' = IF init = "unarmed" THEN "armed" ELSE init
  /\ \/ /\ Push(call[c].turn)
        /\ told' = told \cup {call[c].turn}
        /\ Released(c)
        /\ UNCHANGED <<chain, cur, fin>>
     \/ /\ ~queue.open
        /\ Fatal
        /\ call' = [call EXCEPT ![c].pc = "lost"]
        /\ UNCHANGED <<told, injecting>>
  /\ UNCHANGED <<status, count, tool, closer, closing, stuck, sdk, compact, fails, log, faults>>

\* The call returns: refused, or when the session is finalized.
Return(c) ==
  /\ \/ call[c].pc = "refused"
     \/ call[c].pc = "lost" /\ (fin = "done" \/ chain = <<>>)
  /\ Released(c)
  /\ UNCHANGED <<status, cur, count, tool, closer, closing, stuck, init, fin, queue, sdk, compact, chain, fails, log, told, faults>>

-----------------------------------------------------------------------------
(* The SDK and the subscriber of its messages                                *)

SubscriberFree == sdk.sub = "free" /\ Out("sub")

\* The SDK takes the next message it was given.
SdkTakes ==
  /\ queue.open /\ queue.waits # <<>> /\ sdk.run = None /\ sdk.sub # "gone"
  /\ sdk' = [sdk EXCEPT !.run = Head(queue.waits)]
  /\ queue' = [queue EXCEPT !.waits = Tail(@)]
  /\ UNCHANGED <<status, cur, count, tool, threads, flags, init, fin, compact, chain, fails, log, told, faults>>

\* The first message brings the SDK's init: the isolation holds, or the session ends.
SubscriberInit ==
  /\ SubscriberFree /\ ~sdk.inited /\ sdk.run # None /\ queue.open
  /\ \/ /\ sdk' = [sdk EXCEPT !.inited = TRUE, !.sub = "init"]
        /\ UNCHANGED <<init, queue, cur, chain, fin, faults>>
     \/ /\ Fault("isolation")
        /\ sdk' = [sdk EXCEPT !.sub = "gone", !.run = None]
        /\ init' = IF init = "ok" THEN init ELSE "failed"
        /\ Fatal
  /\ UNCHANGED <<status, count, tool, threads, flags, compact, fails, log, told>>

\* session_started is out.
SubscriberInited ==
  /\ sdk.sub = "init"
  /\ sdk' = [sdk EXCEPT !.sub = "free"]
  /\ status' = IF status = "initializing" THEN "idle" ELSE status
  /\ init' = IF init \in {"unarmed", "armed"} THEN "ok" ELSE init
  /\ UNCHANGED <<cur, count, tool, threads, flags, fin, queue, compact, chain, fails, log, told, faults>>

\* armInitTimer: the init does not come.
InitTimesOut ==
  /\ init = "armed"
  /\ init' = "failed"
  /\ Fatal
  /\ UNCHANGED <<status, count, tool, threads, flags, sdk, compact, fails, log, told, faults>>

\* The subscriber hears the SDK, which is silent once its query is closed.
Heeded == SubscriberFree /\ sdk.inited /\ queue.open

\* The turn uses a tool; its state changes before the event is out.
SdkTool ==
  /\ Heeded /\ sdk.run \in Turns /\ cur # None
  /\ tool' = ~tool
  /\ chain' = Append(chain, Event(IF tool THEN "tool_result" ELSE "tool_invoked", cur, "sub"))
  /\ UNCHANGED <<status, cur, count, threads, flags, init, fin, queue, sdk, compact, fails, log, told, faults>>

\* Mutant of TurnIsOver: the turn stays the current one.
TurnIsNotOver ==
  /\ tool' = FALSE /\ UNCHANGED cur
  /\ status' = IF status \in {"closing", "closed"} THEN status ELSE "idle"
\* What onTurnEnded clears.
TurnIsOver ==
  /\ cur' = None /\ tool' = FALSE
  /\ status' = IF status \in {"closing", "closed"} THEN status ELSE "idle"

\* Mutant of Suppressed: the result of /compact counts as a turn's.
NeverSuppressed == FALSE
\* The result of /compact is no turn's.
Suppressed == compact /\ cur = None

\* A result ends the turn that is open, whichever message it answers; during a close it only lets
\* the close go on.
SubscriberResult ==
  /\ SubscriberFree /\ sdk.inited /\ sdk.run # None
  /\ tool => status \in {"closing", "closed"}
  /\ \/ /\ Heeded /\ Suppressed
        /\ sdk' = [sdk EXCEPT !.run = None, !.hook = TRUE]
        /\ UNCHANGED <<cur, tool, status, chain, faults>>
     \/ /\ Heeded /\ ~Suppressed
        /\ sdk' = [sdk EXCEPT !.run = None, !.sub = "result"]
        /\ chain' = Append(chain, Event("turn_ended", cur, "sub"))
        /\ UNCHANGED <<cur, tool, status, faults>>
     \/ /\ status = "closing" /\ fin = "no" /\ Fault("late_result")
        /\ sdk' = [sdk EXCEPT !.run = None]
        /\ TurnIsOver
        /\ UNCHANGED chain
  /\ UNCHANGED <<count, threads, flags, init, fin, queue, compact, fails, log, told>>

\* turn_ended is out: onTurnEnded.
SubscriberEndsTurn ==
  /\ sdk.sub = "result" /\ Out("sub")
  /\ sdk' = [sdk EXCEPT !.sub = "free"]
  /\ TurnIsOver
  /\ UNCHANGED <<count, threads, flags, init, fin, queue, compact, chain, fails, log, told, faults>>

\* A session may be ended while a delivery has not said turn_started yet.
EndInDelivery == "end_in_delivery" \in Hazards

\* The SDK throws, or its subprocess dies.
SdkDies ==
  /\ SubscriberFree
  /\ Fault("crash")
  /\ EndInDelivery \/ \A c \in Callers : call[c].pc # "delivered"
  /\ sdk' = [sdk EXCEPT !.sub = "gone", !.run = None]
  /\ IF Closed THEN UNCHANGED <<init, queue, chain, cur, fin>>
     ELSE Fatal /\ init' = IF init = "ok" THEN init ELSE "failed"
  /\ UNCHANGED <<status, count, tool, threads, flags, compact, fails, log, told>>

\* Its queue and query are closed.
SdkEnds ==
  /\ SubscriberFree /\ ~queue.open
  /\ sdk' = [sdk EXCEPT !.sub = "gone", !.run = None]
  /\ UNCHANGED <<status, cur, count, tool, threads, flags, init, fin, queue, compact, chain, fails, log, told, faults>>

-----------------------------------------------------------------------------
(* abortTurn, compact, closeSession                                          *)

\* The deadlines are seconds: a delivery or a result whose events are being written is done sooner.
Patient == sdk.sub # "result" /\ \A c \in Callers : call[c].pc \notin {"delivered", "started"}

\* The mutex is not asked.
AbortTurn(c) ==
  /\ call[c].pc = "free" /\ ~Closed /\ ~stuck /\ status = "streaming"
  /\ call' = [call EXCEPT ![c].pc = "abort"]
  /\ UNCHANGED <<status, cur, count, tool, closer, flags, init, fin, queue, sdk, compact, chain, fails, log, told, faults>>

\* query.interrupt() has returned: the turn that is open by now is waited for.
AbortWaits(c) ==
  /\ call[c].pc = "abort"
  /\ call' = [call EXCEPT ![c] = IF cur = None THEN Idle ELSE [@ EXCEPT !.pc = "aborting", !.turn = cur]]
  /\ UNCHANGED <<status, cur, count, tool, closer, flags, init, fin, queue, sdk, compact, chain, fails, log, told, faults>>

\* Mutant of AbortEnds: the wait has no deadline.
AbortEndsOnTurn(c) ==
  /\ call[c].pc = "aborting" /\ cur # call[c].turn
  /\ call' = [call EXCEPT ![c] = Idle]
  /\ UNCHANGED <<status, cur, count, tool, closer, flags, init, fin, queue, sdk, compact, chain, fails, log, told, faults>>

AbortEnds(c) ==
  /\ call[c].pc = "aborting"
  /\ \/ cur # call[c].turn /\ UNCHANGED stuck
     \/ cur = call[c].turn /\ Patient /\ stuck' = TRUE
  /\ call' = [call EXCEPT ![c] = Idle]
  /\ UNCHANGED <<status, cur, count, tool, closer, injecting, closing, init, fin, queue, sdk, compact, chain, fails, log, told, faults>>

\* compact(): the host's flow calls it on an idle session, and injects nothing meanwhile.
CompactBegin ==
  /\ ~Closed /\ ~compact /\ status = "idle" /\ \A c \in Callers : call[c].pc = "free"
  /\ Push(Compact)
  /\ compact' = TRUE
  /\ UNCHANGED <<status, cur, count, tool, threads, flags, init, fin, sdk, chain, fails, log, told, faults>>

\* The PostCompact hook, after the result of /compact or, at a bad moment, before it.
PostCompact ==
  /\ \/ sdk.hook /\ UNCHANGED faults
     \/ sdk.run = Compact /\ Fault("late_compact")
  /\ sdk' = [sdk EXCEPT !.hook = FALSE]
  /\ chain' = Append(chain, Event("compact_ended", None, "none"))
  /\ UNCHANGED <<status, cur, count, tool, threads, flags, init, fin, queue, compact, fails, log, told>>

\* No summary in time: the SDK is gone, or is late.
CompactTimesOut ==
  /\ compact
  /\ \/ ~queue.open /\ UNCHANGED faults
     \/ Fault("late_compact")
  /\ compact' = FALSE
  /\ UNCHANGED <<status, cur, count, tool, threads, flags, init, fin, queue, sdk, chain, fails, log, told>>

\* close(): every further call is given the same promise.
Close(force) ==
  /\ closer.pc = "none" /\ fin # "done"
  /\ closing' = TRUE
  /\ init' = IF init = "armed" THEN "unarmed" ELSE init
  /\ closer' = [pc |-> "entered", force |-> force, turn |-> None]
  /\ UNCHANGED <<status, cur, count, tool, call, injecting, stuck, fin, queue, sdk, compact, chain, fails, log, told, faults>>

\* The fence: no inject, no event of the SDK; the input queue and the query are closed.
Shut ==
  /\ status' = "closing" /\ queue' = [queue EXCEPT !.open = FALSE]
  /\ closer' = [closer EXCEPT !.pc = "grace"]

\* doClose: a turn may end of itself, or is interrupted, unless the session is stuck.
CloseEnters ==
  /\ closer.pc = "entered"
  /\ IF stuck \/ status # "streaming" THEN Shut
     ELSE closer' = [closer EXCEPT !.pc = "wait", !.turn = cur] /\ UNCHANGED <<status, queue>>
  /\ UNCHANGED <<cur, count, tool, call, flags, init, fin, sdk, compact, chain, fails, log, told, faults>>

\* Mutant of CloseWaits: the wait has no deadline.
CloseWaitsOnTurn ==
  /\ closer.pc = "wait" /\ Awaited /\ Shut
  /\ UNCHANGED <<cur, count, tool, call, flags, init, fin, sdk, compact, chain, fails, log, told, faults>>

CloseWaits ==
  /\ closer.pc = "wait"
  /\ \/ Awaited /\ UNCHANGED stuck
     \/ ~Awaited /\ Patient /\ stuck' = (stuck \/ closer.force)
  /\ Shut
  /\ UNCHANGED <<cur, count, tool, call, injecting, closing, init, fin, sdk, compact, chain, fails, log, told, faults>>

\* The subscriber has ended, or its grace has.
CloseFinalizes ==
  /\ closer.pc = "grace" /\ (EndInDelivery \/ Patient)
  /\ closer' = [closer EXCEPT !.pc = "done"]
  /\ Finalize(chain)
  /\ UNCHANGED <<status, count, tool, call, flags, init, queue, sdk, compact, fails, log, told, faults>>

-----------------------------------------------------------------------------

Init ==
  /\ status = "initializing" /\ cur = None /\ count = 0 /\ tool = FALSE
  /\ call = [c \in Callers |-> Idle]
  /\ closer = [pc |-> "none", force |-> FALSE, turn |-> None]
  /\ injecting = FALSE /\ closing = FALSE /\ stuck = FALSE
  /\ init = "unarmed" /\ fin = "no"
  /\ queue = [open |-> TRUE, waits |-> <<>>]
  /\ sdk = [run |-> None, sub |-> "free", inited |-> FALSE, hook |-> FALSE]
  /\ compact = FALSE /\ chain = <<>> /\ fails = 0
  /\ log = [turn |-> [t \in Turns |-> "unborn"], orphan |-> FALSE, tool |-> FALSE, session |-> "open"]
  /\ told = {} /\ faults = 0

CallSteps(c) ==
  \/ Asked(c) \/ Interrupted(c) \/ Accepted(c) \/ Delivered(c) \/ Started(c) \/ Return(c)
  \/ AbortWaits(c) \/ AbortEnds(c)
Subscriber == SubscriberInit \/ SubscriberInited \/ SdkTool \/ SubscriberResult \/ SubscriberEndsTurn \/ SdkDies \/ SdkEnds
Finalizer == FinalizeTool \/ FinalizeTurn \/ FinalizeSession
Closer == CloseEnters \/ CloseWaits \/ CloseFinalizes

Next ==
  \/ DoEmit \/ SdkTakes \/ Subscriber \/ InitTimesOut \/ Finalizer \/ Closer
  \/ \E c \in Callers : CallSteps(c) \/ AbortTurn(c) \/ Inject(c)
  \/ CompactBegin \/ PostCompact \/ CompactTimesOut
  \/ \E force \in BOOLEAN : Close(force)

Spec == Init /\ [][Next]_vars

\* What the adapter itself does is done: its writes, its timers, and what follows an await.
\* Nothing is asked of the SDK.
Fairness ==
  /\ WF_vars(DoEmit) /\ WF_vars(Finalizer) /\ WF_vars(Closer)
  /\ WF_vars(InitTimesOut) /\ WF_vars(CompactTimesOut) /\ WF_vars(SubscriberInited \/ SubscriberEndsTurn \/ SdkEnds)
  /\ \A c \in Callers : WF_vars(CallSteps(c))

FairSpec == Spec /\ Fairness

-----------------------------------------------------------------------------
(* What the session promises                                                 *)

TypeOK ==
  /\ status \in {"initializing", "idle", "streaming", "closing", "closed"}
  /\ cur \in 0..MaxTurns /\ count \in 0..MaxTurns /\ tool \in BOOLEAN
  /\ init \in {"unarmed", "armed", "ok", "failed"} /\ fin \in {"no", "tool", "turn", "session", "done"}
  /\ fails \in 0..WriteLimit /\ told \subseteq 1..count
  /\ cur # None => cur = count /\ status \in {"streaming", "closing", "closed"}

\* The contract of all providers (wrapper/types/runtime.ts): no two turns are open, each is opened once
\* and ended once, an inject is only reported delivered to a turn that was opened, and session_ended
\* comes last and once, when every turn has its end and every tool its result, be it a synthetic one.
Contract == INSTANCE ProviderSession WITH
  turn <- log.turn, tool <- log.tool, session <- IF log.orphan THEN "broken" ELSE log.session
ImplementsContract == Contract!Spec

\* Every inject and every abort returns, whatever the SDK does not do; a close, a fatal error and
\* repeated write failures all reach session_ended.
Terminates ==
  /\ \A c \in Callers : call[c].pc # "free" ~> call[c].pc = "free"
  /\ closing \/ init = "failed" \/ fin # "no" ~> log.session = "ended"

=============================================================================
