---- MODULE ReviewerTrigger ----
(***************************************************************************)
(* Reviewer sessions (host/agent_control.ts triggerReviewer, tools/agent.ts,  *)
(* tools/reviewer.ts, the teardown in host/daemon.ts): Meta triggers one with *)
(* a tool call that returns when the reviewer is gone; the reviewer submits   *)
(* its verdict with a call of its own; the host may stop at any time.  A      *)
(* session is named by the call that triggered it.                            *)
(***************************************************************************)
EXTENDS ToolCall, Naturals, Sequences, FiniteSets

CONSTANTS
  MaxFaults,   \* bound: writes to the bus or the events log that fail, closes that fail
  Overlap,     \* whether Meta calls the tool again before it was answered
  SlowStart    \* whether startSession may outlast the timeout of the tool and its grace

VARIABLES
  trigger,    \* each triggerReviewer: where it is, and what driveReviewerToEnd told it
  handle,     \* state.reviewerHandle, or None
  reviewer,   \* each session: "none", "starting", "runs", "turn_over", "failed" or "closed"
  submitted,  \* the verdict the reviewer submitted last, or None
  buffer,     \* verdictBuffer, by session
  meta,       \* envelopes in Meta's inbox
  events,     \* STARTED and ENDED of reviewers, in the order of the log
  shutdown,   \* cleanupAndExit: where it is, and the reviewerHandle it captured
  faults

vars == <<call, trigger, handle, reviewer, submitted, buffer, meta, events, shutdown, faults>>

None == "none"
Verdicts == {"pass", "needs_revision"}
Working == {"assembling", "starting", "driving", "closing", "reporting", "committing"}

HostUp == shutdown.pc # "exited"
Alive(c) == reviewer[c] \in {"runs", "turn_over", "failed"}
InProgress(c) == trigger[c].pc \in Working
OnStart(c) == InProgress(c) /\ (trigger[c].pc \in {"assembling", "starting"} \/ trigger[c].drive = "start_failed")

Event(type, c) == [type |-> type, of |-> c]
Occurs(e) == {i \in DOMAIN events : events[i] = e}
Started(c) == Occurs(Event("started", c)) # {}
Ended(c)   == Occurs(Event("ended", c)) # {}

\* Every write may fail, as long as the bound of the faults allows.
Tried(ok) == IF ok THEN faults' = faults ELSE faults < MaxFaults /\ faults' = faults + 1

Goto(c, pc, how) == trigger' = [trigger EXCEPT ![c].pc = pc, ![c].drive = how]

-----------------------------------------------------------------------------
(* The tool and the start                                                    *)

\* Mutant of Busy: a call that is still open tells that a reviewer runs.
BusyWhileCalled == \E c \in Calls : Racing(c)
Busy == handle # None

\* sh_agent__trigger_reviewer.
Trigger(c) ==
  /\ HostUp /\ trigger[c].pc = "idle"
  /\ ~Overlap => \A d \in Calls : ~Racing(d)
  /\ IF Busy
     THEN /\ call[c].race = "none"
          /\ call' = [call EXCEPT ![c].race = "over", ![c].answer = "illegal_state"]
          /\ Goto(c, "returned", "none")
     ELSE Called(c) /\ Goto(c, "assembling", "none")
  /\ UNCHANGED <<handle, reviewer, submitted, buffer, meta, events, shutdown, faults>>

Refused(c) ==
  /\ HostUp /\ trigger[c].pc = "idle"
  /\ Invalid(c) /\ Goto(c, "returned", "none")
  /\ UNCHANGED <<handle, reviewer, submitted, buffer, meta, events, shutdown, faults>>

\* Prompts are assembled and written, STARTED is appended.  What throws here is the handler's error.
Begin(c, ok) ==
  /\ HostUp /\ trigger[c].pc = "assembling" /\ Tried(ok)
  /\ IF ok
     THEN /\ events' = Append(events, Event("started", c))
          /\ reviewer' = [reviewer EXCEPT ![c] = "starting"]
          /\ Goto(c, "starting", "none") /\ UNCHANGED call
     ELSE Throws(c) /\ Goto(c, "returned", "none") /\ UNCHANGED <<events, reviewer>>
  /\ UNCHANGED <<handle, submitted, buffer, meta, shutdown>>

\* startSession, retried when the error is transient.
StartSession(c, ok) ==
  /\ HostUp /\ trigger[c].pc = "starting" /\ Tried(ok)
  /\ IF ok
     THEN /\ handle' = c
          /\ reviewer' = [reviewer EXCEPT ![c] = "runs"]
          /\ Goto(c, "driving", "none")
     ELSE /\ reviewer' = [reviewer EXCEPT ![c] = "closed"]
          /\ Goto(c, "committing", "start_failed") /\ UNCHANGED handle
  /\ UNCHANGED <<call, submitted, buffer, meta, events, shutdown>>

-----------------------------------------------------------------------------
(* The reviewer                                                              *)

\* sh_reviewer__submit_verdict; the session may still run when nobody waits for it any more.
SubmitVerdict(c, v) ==
  /\ HostUp /\ reviewer[c] \in {"runs", "failed"} /\ submitted[c] # v
  /\ submitted' = [submitted EXCEPT ![c] = v]
  /\ buffer' = [buffer EXCEPT ![c] = v]
  /\ UNCHANGED <<call, trigger, handle, reviewer, meta, events, shutdown, faults>>

\* turn_ended, session_ended, or a permanent runtime_error.
TurnEnds(c, how) ==
  /\ HostUp /\ reviewer[c] = "runs"
  /\ reviewer' = [reviewer EXCEPT ![c] = how]
  /\ UNCHANGED <<call, trigger, handle, submitted, buffer, meta, events, shutdown, faults>>

-----------------------------------------------------------------------------
(* driveReviewerToEnd                                                        *)

\* raceWithReviewerTimeout: the turn is over, the injection threw or was rejected, or reviewerSessionMs
\* is over, which the next tick of the watchdog finds.
DriveEnds(c, how) ==
  /\ HostUp /\ trigger[c].pc = "driving"
  /\ how = "natural"  => reviewer[c] \in {"turn_over", "closed"}
  /\ how = "failed"   => reviewer[c] = "failed"
  /\ Goto(c, "closing", how)
  /\ UNCHANGED <<call, handle, reviewer, submitted, buffer, meta, events, shutdown, faults>>

\* Mutant of Closed: a close that failed is a close.
ClosedAnyway(how, ok) == how
Closed(how, ok) == IF ok THEN how ELSE "close_failed"

\* closeSession.  When it fails the reviewer may still be running.
DriveCloses(c, ok) ==
  /\ HostUp /\ trigger[c].pc = "closing" /\ Tried(ok)
  /\ reviewer' = IF ok THEN [reviewer EXCEPT ![c] = "closed"] ELSE reviewer
  /\ Goto(c, "reporting", Closed(trigger[c].drive, ok))
  /\ UNCHANGED <<call, handle, submitted, buffer, meta, events, shutdown>>

-----------------------------------------------------------------------------
(* What Meta is told                                                         *)

Envelope(kind, c, v) == [kind |-> kind, of |-> c, verdict |-> v]

\* Mutant of FellBack: the answer names the envelope that should have been there.
FellBackHopefully(reached) == "host_event"
FellBack(reached) == IF reached THEN "host_event" ELSE None

\* The verdict leaves the buffer; it is enqueued after a natural end only.  When that fails, and in all
\* other cases, a host_event is tried.  `first` and `second` are the outcomes of the two enqueues.
Report(c, first, second) ==
  LET drive == trigger[c].drive
      told  == drive = "natural" /\ first IN
  /\ HostUp /\ trigger[c].pc = "reporting"
  /\ drive # "natural" => ~first
  /\ first => ~second
  /\ faults' = faults + (IF drive = "natural" /\ ~first THEN 1 ELSE 0) + (IF ~told /\ ~second THEN 1 ELSE 0)
  /\ faults' <= MaxFaults
  /\ buffer' = [buffer EXCEPT ![c] = None]
  /\ meta' = meta \cup (IF told THEN {Envelope("reviewer_verdict", c, buffer[c])}
                        ELSE IF second THEN {Envelope("host_event", c, None)} ELSE {})
  /\ LET kind == IF told THEN "reviewer_verdict" ELSE FellBack(second) IN
     /\ trigger' = [trigger EXCEPT ![c].kind = kind, ![c].pc = IF drive = "close_failed" THEN "returned" ELSE "committing"]
     /\ IF drive = "close_failed" THEN Returns(c, "result") ELSE UNCHANGED call
  /\ UNCHANGED <<handle, reviewer, submitted, events, shutdown>>

\* Mutant of EndOnce: ENDED is appended without a look at the log.
EndedBlindly(c) == Append(events, Event("ended", c))
\* appendReviewerEndedIdempotent, when the log can be read.
EndOnce(c) == IF Ended(c) THEN events ELSE Append(events, Event("ended", c))

\* commitReviewerEnded: the handle is cleared when ENDED is in the log, and kept when the log could not
\* be read; then a host_event is tried, and whether it was enqueued is not asked.  Then the tool returns.
Commit(c, readable, reported) ==
  /\ HostUp /\ trigger[c].pc = "committing" /\ Tried(readable)
  /\ readable => ~reported
  /\ IF readable THEN events' = EndOnce(c) /\ handle' = None
                 ELSE UNCHANGED <<events, handle>>
  /\ meta' = meta \cup (IF reported THEN {Envelope("host_event", c, None)} ELSE {})
  /\ Goto(c, "returned", trigger[c].drive)
  /\ Returns(c, IF trigger[c].drive = "start_failed" THEN "start_failed" ELSE "result")
  /\ UNCHANGED <<reviewer, submitted, buffer, shutdown>>

-----------------------------------------------------------------------------
(* The call that waits for all this, and the end of the host                  *)

\* reviewerSessionMs is longer than handlerTimeoutMs: Meta may be told that the tool gave no answer while
\* the reviewer goes on.  The trigger does not look at its signal.
BridgeStep(c) ==
  /\ HostUp /\ \/ TimesOut(c)
               \/ GraceEnds(c) /\ (SlowStart \/ ~OnStart(c))
  /\ UNCHANGED <<trigger, handle, reviewer, submitted, buffer, meta, events, shutdown, faults>>

\* cleanupAndExit: the handle is captured before it waits for the close.
ShutdownCaptures ==
  /\ shutdown.pc = "up"
  /\ shutdown' = [shutdown EXCEPT !.pc = IF handle = None THEN "exited" ELSE "closing", !.of = handle]
  /\ UNCHANGED <<call, trigger, handle, reviewer, submitted, buffer, meta, events, faults>>

ShutdownCloses(ok) ==
  /\ shutdown.pc = "closing" /\ Tried(ok)
  /\ reviewer' = IF ok THEN [reviewer EXCEPT ![shutdown.of] = "closed"] ELSE reviewer
  /\ shutdown' = [shutdown EXCEPT !.pc = "ending"]
  /\ UNCHANGED <<call, trigger, handle, submitted, buffer, meta, events>>

ShutdownEnds(readable) ==
  /\ shutdown.pc = "ending" /\ Tried(readable)
  /\ events' = IF readable THEN EndOnce(shutdown.of) ELSE events
  /\ handle' = None
  /\ shutdown' = [shutdown EXCEPT !.pc = "exited", !.unread = ~readable]
  /\ UNCHANGED <<call, trigger, reviewer, submitted, buffer, meta>>

-----------------------------------------------------------------------------

Init ==
  /\ call = [c \in Calls |-> Unanswered]
  /\ trigger = [c \in Calls |-> [pc |-> "idle", drive |-> "none", kind |-> None]]
  /\ handle = None /\ meta = {} /\ events = <<>> /\ faults = 0
  /\ reviewer = [c \in Calls |-> "none"]
  /\ submitted = [c \in Calls |-> None] /\ buffer = [c \in Calls |-> None]
  /\ shutdown = [pc |-> "up", of |-> None, unread |-> FALSE]

Next ==
  \/ \E c \in Calls :
       \/ Trigger(c) \/ Refused(c) \/ BridgeStep(c)
       \/ \E v \in Verdicts : SubmitVerdict(c, v)
       \/ \E how \in {"turn_over", "failed"} : TurnEnds(c, how)
       \/ \E how \in {"natural", "failed", "rejected", "timed_out"} : DriveEnds(c, how)
       \/ \E ok \in BOOLEAN : Begin(c, ok) \/ StartSession(c, ok) \/ DriveCloses(c, ok)
       \/ \E first, second \in BOOLEAN : Report(c, first, second) \/ Commit(c, first, second)
  \/ ShutdownCaptures
  \/ \E ok \in BOOLEAN : ShutdownCloses(ok) \/ ShutdownEnds(ok)

Spec == Init /\ [][Next]_vars

-----------------------------------------------------------------------------

\* "no concurrency": two reviewers never run at once, though Meta may be told that the first call gave no
\* answer and call again.
OneReviewer == Cardinality({c \in Calls : Alive(c) \/ reviewer[c] = "starting"}) <= 1

\* "STARTED must pair with an ENDED", and physically one: whoever of the trigger and the shutdown comes
\* second finds the other's.  A reviewer that may still run, or has no ENDED yet, has an owner who will
\* see to it: its trigger, or the handle that the shutdown takes; where there is none the log could not
\* be read at the last attempt.
ReviewersAreSettled == \A c \in Calls :
  /\ Cardinality(Occurs(Event("ended", c))) <= 1
  /\ Started(c) /\ (Alive(c) \/ ~Ended(c)) =>
       \/ InProgress(c) \/ handle = c
       \/ trigger[c].drive = "start_failed" /\ ~Alive(c)
       \/ ~HostUp /\ (Ended(c) \/ shutdown.unread \/ shutdown.of # c)

\* What the tool tells Meta to pull is in its inbox, and a verdict there is the one the reviewer had
\* submitted when its session was over.
AnswersAreTrue == \A c \in Calls :
  /\ call[c].answer = "result" /\ trigger[c].kind # None =>
       \E e \in meta : e.kind = trigger[c].kind /\ e.of = c
  /\ \A e \in meta : e.kind = "reviewer_verdict" => e.verdict = submitted[e.of]

=============================================================================
