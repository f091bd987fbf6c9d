---- MODULE WorkerLifecycle ----
(***************************************************************************)
(* The worker sessions of one task across several lives of its host.        *)
(*                                                                         *)
(* Three threads of control meet in the daemon's state object.  The main    *)
(* thread runs startup recovery, then ticks (gate, start, monitor, close    *)
(* out) and at the end the cleanup.  The Meta agent's tool handlers run      *)
(* between any two awaits of the main thread.  The worker signals its exit,  *)
(* reads its inbox and ends its turn on its own.  A step here is the code    *)
(* between two awaits that can let the others act.                          *)
(*                                                                         *)
(* Whatever is in memory is lost when the host dies: what survives is the    *)
(* session counter, the STARTED and ENDED records of events.jsonl, and the  *)
(* envelopes of the message bus.                                            *)
(***************************************************************************)
EXTENDS Naturals, Sequences

CONSTANTS MaxSessions,      \* bound on worker sessions
          MaxInstructions,  \* bound on meta_instruction envelopes
          Tools,            \* the dispatch tools Meta uses
          StageMoves,       \* where the stage may move
          Faults            \* what may go wrong

ASSUME BoundsAssumption == MaxSessions \in Nat /\ MaxInstructions \in Nat
ASSUME ToolsAssumption  == Tools \subseteq {"start", "send", "stop", "restart", "interrupt"}
\* "away": an in-progress stage without a worker; "halted": paused or terminal.
ASSUME StagesAssumption == StageMoves \subseteq {"running", "away", "halted"}
\* "start": a start step fails; "close": closeSession throws; "mail", "repair", "log": an append
\* fails, of the host's envelopes, of recovery's, of the records; "quit": the host is told to stop.
ASSUME FaultsAssumption == Faults \subseteq {"crash", "quit", "start", "close", "mail", "repair", "log"}

None == 0          \* no session
Seqs == 1..MaxSessions

\* The exit reasons by what is done about them: isActiveExit, the *_crash ones, Meta's.
EndReasons == {"active", "crash", "interrupt", "stop"}
\* workerCompletionPending, sessionEndPending, metaStopNoRestart,
\* metaInterruptDefaultContinue, workerStartFailedPending
WaitStates == {"completion", "session_end", "no_restart", "continue", "start_failed"}

VARIABLES
  stage,         \* manifest.stage
  allocated,     \* the last sessionSeq handed out
  started,       \* sessions with a STARTED record
  ended,         \* sessions with an ENDED record
  ends,          \* worker_session_end envelopes, oldest first
  signal,        \* session of the latest active-exit signal
  unread,        \* the newest meta_instruction the worker has not read
  sent,          \* instructions ever sent
  main,          \* the main thread: where it is, and the session it works on
  handle,        \* state.workerHandle
  last,          \* state.workerSessionSeq, kept after the session is closed
  turnEnded, injectFailed,
  live,          \* sessions whose process runs
  want,          \* state.wantWorkerStart
  waiting,       \* the waiting states that are on
  baseline,      \* newest instruction in workerStartFailedBaselineEnvIds
  finalizing,    \* state.workerFinalizing
  epoch,         \* state.workerFinalizeEpoch
  meta,          \* the stop in flight in a tool handler of Meta
  decided        \* history: Meta dispatched a worker since one was closed out or recorded

events  == <<allocated, started, ended>>
mailbox == <<ends, signal, unread, sent>>
worker  == <<handle, last, turnEnded, injectFailed, live>>
plan    == <<want, waiting, baseline>>
guard   == <<finalizing, epoch>>
vars    == <<stage, events, mailbox, worker, plan, guard, main, meta, decided>>

Idle     == [pc |-> "idle", seq |-> None, reason |-> "active"]
NoStop   == [pc |-> "idle", seq |-> None, how |-> "stop", epoch |-> 0]
Goto(pc) == main' = [main EXCEPT !.pc = pc]
Work(pc, seq, reason) == main' = [pc |-> pc, seq |-> seq, reason |-> reason]

Starting == {"allocate", "record", "session", "start_failed", "take_baseline", "inject"}
Closing  == {"close", "end", "flag", "close_baseline", "ended"}
Cleaning == {"wait", "teardown", "shutdown", "exit"}
Booting  == {"down", "synth", "repair", "unrepaired", "crash_ended", "crash_end"}
Steps    == {"idle", "check", "reconcile", "monitor"} \cup Starting \cup Closing
              \cup Cleaning \cup Booting

HostUp == main.pc \notin Booting

\* Mutant of HasActiveWorker: the retained session is taken for the active one.
HasActiveWorkerEver == last # None

HasActiveWorker == handle # None

-----------------------------------------------------------------------------
(* A tick: the stage it loads, then the gate of the waiting states.          *)

TickBegin ==
  /\ main.pc = "idle"
  /\ \/ stage = "running" /\ Goto("check")      \* other ticks leave the worker alone
     \/ stage \in {"away", "halted"} /\ Goto("wait")   \* awaiting_user yields; paused, terminal
     \/ "quit" \in Faults /\ Goto("wait")             \* shouldStop, maxTicks
  /\ UNCHANGED <<stage, events, mailbox, worker, plan, guard, meta, decided>>

\* A wait state ends when Meta's dispatch takes over.
StartWanted == want' = TRUE /\ waiting' = {} /\ baseline' = None

\* An instruction the gate counts: after a failed start only one beyond the baseline.
Instructed == unread > (IF "start_failed" \in waiting THEN baseline ELSE 0)

\* reconcileWorkerCompletionPending; reminders only repeat a message to Meta.
Check ==
  /\ main.pc = "check"
  /\ Goto("reconcile")
  /\ \/ waiting = {} /\ UNCHANGED plan
     \/ waiting # {} /\ Instructed /\ StartWanted
     \/ /\ "continue" \in waiting /\ ~Instructed /\ meta.pc = "idle"
        /\ waiting' = waiting \ {"continue"} /\ want' = TRUE /\ UNCHANGED baseline
     \/ waiting # {} /\ ~Instructed /\ UNCHANGED plan   \* Meta is silent, or busy
  /\ UNCHANGED <<stage, events, mailbox, worker, guard, meta, decided>>

\* The host starts a worker of its own accord only when it knows of none before.
FirstStart == last = None /\ waiting = {}

Reconcile ==
  /\ main.pc = "reconcile"
  /\ IF handle # None THEN Goto("monitor")
     ELSE IF (want \/ FirstStart) /\ allocated < MaxSessions THEN Goto("allocate")
     ELSE main' = Idle
  /\ UNCHANGED <<stage, events, mailbox, worker, plan, guard, meta, decided>>

-----------------------------------------------------------------------------
(* startWorker                                                               *)

Allocate ==
  /\ main.pc = "allocate"
  /\ \/ /\ allocated' = allocated + 1
        /\ Work("record", allocated + 1, main.reason)
        /\ UNCHANGED want
     \/ /\ "start" \in Faults
        /\ want' = FALSE /\ Goto("take_baseline") /\ UNCHANGED allocated
  /\ UNCHANGED <<stage, started, ended, mailbox, worker, waiting, baseline, guard, meta, decided>>

\* appendSessionStarted; it throws out of the tick, which is fatal.
Record ==
  /\ main.pc = "record"
  /\ \/ started' = started \cup {main.seq} /\ decided' = FALSE /\ Goto("session")
     \/ "log" \in Faults /\ Goto("wait") /\ UNCHANGED <<started, decided>>
  /\ UNCHANGED <<stage, allocated, ended, mailbox, worker, plan, guard, meta>>

StartSession ==
  /\ main.pc = "session"
  /\ \/ /\ live' = live \cup {main.seq}
        /\ handle' = main.seq /\ last' = main.seq
        /\ turnEnded' = FALSE /\ injectFailed' = FALSE
        /\ Goto("inject")
     \/ "start" \in Faults /\ Goto("start_failed") /\ UNCHANGED worker
  /\ UNCHANGED <<stage, events, mailbox, plan, guard, meta, decided>>

\* startSession failed: the paired ENDED, whose own failure is swallowed.
StartFailed ==
  /\ main.pc = "start_failed"
  /\ \/ ended' = ended \cup {main.seq}
     \/ "log" \in Faults /\ UNCHANGED ended
  /\ want' = FALSE
  /\ Goto("take_baseline")
  /\ UNCHANGED <<stage, allocated, started, mailbox, worker, waiting, baseline, guard, meta, decided>>

CaptureBaseline == waiting' = waiting \cup {"start_failed"} /\ baseline' = unread /\ UNCHANGED want

TakeBaseline ==
  /\ main.pc = "take_baseline"
  /\ CaptureBaseline
  /\ main' = Idle
  /\ UNCHANGED <<stage, events, mailbox, worker, guard, meta, decided>>

\* The first message is acknowledged or refused; then reconcileWorker forgets what it
\* waited for, whatever Meta did while the first message was on its way.
Inject ==
  /\ main.pc = "inject"
  /\ \/ UNCHANGED worker
     \/ /\ "start" \in Faults
        /\ injectFailed' = TRUE /\ turnEnded' = TRUE /\ UNCHANGED <<handle, last, live>>
  /\ want' = FALSE /\ waiting' = {} /\ baseline' = None
  /\ Goto("monitor")
  /\ UNCHANGED <<stage, events, mailbox, guard, meta, decided>>

-----------------------------------------------------------------------------
(* monitorActiveWorker and finalizeWorker                                    *)

ClearWorker == handle' = None /\ turnEnded' = FALSE /\ injectFailed' = FALSE

\* Mutant of CloseFailed: the handle is given up although the session may still run.
CloseFailedForgets ==
  /\ "close" \in Faults
  /\ ClearWorker /\ finalizing' = FALSE
  /\ UNCHANGED <<epoch, last, live>>

\* closeSession threw: the handle is kept, and whoever looks next tries again.
CloseFailed == "close" \in Faults /\ finalizing' = FALSE /\ UNCHANGED <<epoch, worker>>

AppendEnd(seq, reason) == ends' = Append(ends, [seq |-> seq, reason |-> reason])

\* Mutant of MayFinalize: finalizeWorker does not look at the guard.
MayFinalizeUnguarded == handle # None

\* finalizeWorker is the loser when a stop or the cleanup already closes the worker out.
MayFinalize == handle # None /\ ~finalizing

Monitor ==
  /\ main.pc = "monitor"
  /\ \/ /\ MayFinalize
        /\ finalizing' = TRUE
        /\ Work("close", handle, main.reason)
     \/ /\ turnEnded => ~MayFinalize   \* a turn that goes on is closed when a watchdog trips
        /\ main' = Idle /\ UNCHANGED finalizing
  /\ UNCHANGED <<stage, events, mailbox, worker, plan, epoch, meta, decided>>

\* The exit reason: a declared exit wins over what the session reports.
Reasons(seq) == IF signal = seq THEN {"active"} ELSE {"active", "crash"}

Close ==
  /\ main.pc = "close"
  /\ \/ /\ live' = live \ {main.seq}
        /\ ClearWorker /\ UNCHANGED <<last, guard>>
        /\ decided' = FALSE
        /\ IF injectFailed THEN Goto("close_baseline")
           ELSE \E r \in Reasons(main.seq) : Work("end", main.seq, r)
     \/ CloseFailed /\ main' = Idle /\ UNCHANGED decided
  /\ UNCHANGED <<stage, events, mailbox, plan, meta>>

\* The done_criteria evaluation and then the worker_session_end envelope.
End ==
  /\ main.pc = "end"
  /\ \/ AppendEnd(main.seq, main.reason) /\ Goto("flag")
     \/ "mail" \in Faults /\ Goto("ended") /\ UNCHANGED ends
  /\ UNCHANGED <<stage, events, signal, unread, sent, worker, plan, guard, meta, decided>>

\* Mutant of WaitFor: a crashed worker is continued as an interrupted one is.
WaitForContinuesCrashed(reason) ==
  CASE reason = "active" -> "completion"
    [] reason \in {"crash", "interrupt"} -> "continue"
    [] reason = "stop" -> "no_restart"

WaitFor(reason) == CASE reason = "active"    -> "completion"
                     [] reason = "crash"     -> "session_end"
                     [] reason = "interrupt" -> "continue"
                     [] reason = "stop"      -> "no_restart"

\* Mutant of Flag: only a completed worker is waited for.
FlagActiveOnly ==
  /\ main.pc = "flag"
  /\ waiting' = IF main.reason = "active" THEN waiting \cup {"completion"} ELSE waiting
  /\ Goto("ended")
  /\ UNCHANGED <<stage, events, mailbox, worker, want, baseline, guard, meta, decided>>

Flag ==
  /\ main.pc = "flag"
  /\ waiting' = waiting \cup {WaitFor(main.reason)}
  /\ Goto("ended")
  /\ UNCHANGED <<stage, events, mailbox, worker, want, baseline, guard, meta, decided>>

CloseBaseline ==
  /\ main.pc = "close_baseline"
  /\ CaptureBaseline
  /\ Goto("ended")
  /\ UNCHANGED <<stage, events, mailbox, worker, guard, meta, decided>>

\* Mutant of Ended: a session whose start failed is taken for recorded already.
EndedUnlessInjectFailed ==
  /\ main.pc = "ended"
  /\ ended' = IF "start_failed" \in waiting THEN ended ELSE ended \cup {main.seq}
  /\ main' = Idle /\ finalizing' = FALSE
  /\ UNCHANGED <<stage, allocated, started, mailbox, worker, plan, epoch, meta, decided>>

\* Mutant of Ended: the close-out of a crashed session returns with the guard taken.
EndedKeepsGuard ==
  /\ main.pc = "ended"
  /\ ended' = ended \cup {main.seq} /\ main' = Idle
  /\ finalizing' = (main.reason = "crash")
  /\ UNCHANGED <<stage, allocated, started, mailbox, worker, plan, epoch, meta, decided>>

\* appendWorkerEndedIdempotent, under the events lock; a failed scan is logged, a failed
\* write ends the host.
Ended ==
  /\ main.pc = "ended"
  /\ \/ ended' = ended \cup {main.seq} /\ main' = Idle
     \/ "log" \in Faults /\ UNCHANGED ended /\ (main' = Idle \/ Goto("wait"))
  /\ finalizing' = FALSE
  /\ UNCHANGED <<stage, allocated, started, mailbox, worker, plan, epoch, meta, decided>>

-----------------------------------------------------------------------------
(* cleanupAndExit                                                            *)

\* Wait for a stop in flight; after ten seconds take over, and make its epoch stale.
Wait ==
  /\ main.pc = "wait"
  /\ epoch' = IF finalizing THEN epoch + 1 ELSE epoch
  /\ finalizing' = TRUE
  /\ Goto("teardown")
  /\ UNCHANGED <<stage, events, mailbox, worker, plan, meta, decided>>

\* A failing closeSession is ignored.
Teardown ==
  /\ main.pc = "teardown"
  /\ live' = live \ {handle} \/ ("close" \in Faults /\ UNCHANGED live)
  /\ Goto("shutdown")
  /\ UNCHANGED <<stage, events, mailbox, handle, last, turnEnded, injectFailed, plan, guard,
                 meta, decided>>

\* Mutant of Shutdown: the worker is closed like Meta and watcher handles, unrecorded.
ShutdownUnrecorded ==
  /\ main.pc = "shutdown"
  /\ Goto("exit")
  /\ UNCHANGED <<stage, events, mailbox, worker, plan, guard, meta, decided>>

\* The ENDED of the last worker, if it has none; a failure is swallowed.
Shutdown ==
  /\ main.pc = "shutdown"
  /\ \/ ended' = IF last = None THEN ended ELSE ended \cup {last}
     \/ "log" \in Faults /\ UNCHANGED ended
  /\ Goto("exit")
  /\ UNCHANGED <<stage, allocated, started, mailbox, worker, plan, guard, meta, decided>>

\* The process ends: its memory is gone, and its sessions go with it.
Die ==
  /\ main' = [Idle EXCEPT !.pc = "down"] /\ meta' = NoStop
  /\ handle' = None /\ last' = None /\ turnEnded' = FALSE /\ injectFailed' = FALSE /\ live' = {}
  /\ want' = FALSE /\ waiting' = {} /\ baseline' = None
  /\ finalizing' = FALSE /\ epoch' = 0
  /\ decided' = IF handle = None /\ main.pc \notin Starting THEN decided ELSE FALSE
  /\ UNCHANGED <<stage, events, mailbox>>

Exit  == main.pc = "exit" /\ Die
Crash == "crash" \in Faults /\ main.pc # "down" /\ Die

-----------------------------------------------------------------------------
(* A new host: repairHalfCompletedWorker, and the state runDaemon restores.  *)

LatestEnd    == ends[Len(ends)]
EndOf(seq)   == {e \in {ends[i] : i \in DOMAIN ends} : e.seq = seq}
Unmatched    == started \ ended
Newest       == {s \in Unmatched : \A t \in Unmatched : t <= s}

\* Mutant of SignalUnanswered: any earlier worker_session_end hides the signal.
SignalUnansweredEver == signal # None /\ ends = <<>>

\* The latest exit signal has no worker_session_end yet.
SignalUnanswered == signal # None /\ (ends = <<>> \/ signal > LatestEnd.seq)

\* No worker was started after the latest worker_session_end: Meta has not decided.
EndUndecided == ends # <<>> /\ \A s \in started : s <= LatestEnd.seq

Boot ==
  /\ main.pc = "down" /\ stage # "halted"
  /\ IF stage # "running" THEN main' = Idle
     ELSE IF SignalUnanswered THEN Work("synth", signal, "active")
     ELSE IF EndUndecided THEN Work("repair", LatestEnd.seq, LatestEnd.reason)
     ELSE IF Unmatched = {} THEN main' = Idle
     ELSE \E seq \in Newest :
            IF EndOf(seq) = {} THEN Work("crash_ended", seq, "crash")
            ELSE \E e \in EndOf(seq) : Work("repair", seq, e.reason)
  /\ UNCHANGED <<stage, events, mailbox, worker, plan, guard, meta, decided>>

Synthesize ==
  /\ main.pc = "synth"
  /\ \/ AppendEnd(main.seq, "active") /\ Goto("repair")
     \/ "repair" \in Faults /\ Goto("unrepaired") /\ UNCHANGED ends
  /\ UNCHANGED <<stage, events, signal, unread, sent, worker, plan, guard, meta, decided>>

\* maybeAppendPairedWorkerEnded
PairedEnded ==
  /\ \/ ended' = ended \cup {main.seq}
     \/ "log" \in Faults /\ UNCHANGED ended
  /\ UNCHANGED <<allocated, started>>

Restore(wait) ==
  /\ last' = main.seq /\ waiting' = {wait} /\ main' = Idle
  /\ UNCHANGED <<handle, turnEnded, injectFailed, live, want, baseline>>

RepairEnd ==
  /\ main.pc = "repair"
  /\ PairedEnded
  /\ Restore(WaitFor(main.reason))
  /\ UNCHANGED <<stage, mailbox, guard, meta, decided>>

RepairWithoutEnd ==
  /\ main.pc = "unrepaired"
  /\ PairedEnded
  /\ main' = Idle
  /\ UNCHANGED <<stage, mailbox, worker, plan, guard, meta, decided>>

CrashEnded ==
  /\ main.pc = "crash_ended"
  /\ PairedEnded
  /\ Goto("crash_end")
  /\ UNCHANGED <<stage, mailbox, worker, plan, guard, meta, decided>>

CrashEnd ==
  /\ main.pc = "crash_end"
  /\ AppendEnd(main.seq, "crash") \/ ("repair" \in Faults /\ UNCHANGED ends)
  /\ Restore("session_end")
  /\ UNCHANGED <<stage, events, signal, unread, sent, guard, meta, decided>>

-----------------------------------------------------------------------------
(* Meta's tools                                                              *)

\* Nothing serializes the handlers: a start or a send may overtake a stop that is closing.
MetaFree == HostUp /\ meta.pc = "idle"

\* sh_agent__start_worker, then requestWorkerStart
MetaStart ==
  /\ "start" \in Tools /\ HostUp
  /\ stage = "running" /\ ~HasActiveWorker
  /\ StartWanted
  /\ decided' = TRUE
  /\ UNCHANGED <<stage, events, mailbox, worker, guard, main, meta>>

\* sh_msg__send_to_worker
MetaSend ==
  /\ "send" \in Tools /\ HostUp /\ sent < MaxInstructions
  /\ sent' = sent + 1 /\ unread' = sent + 1
  /\ decided' = TRUE
  /\ UNCHANGED <<stage, events, ends, signal, worker, plan, guard, main, meta>>

\* interrupt_worker looks for a worker, then sends its envelope before it calls stopWorker.
Interrupt ==
  /\ "interrupt" \in Tools /\ MetaFree /\ HasActiveWorker
  /\ meta' = [NoStop EXCEPT !.pc = "posted", !.seq = handle, !.how = "interrupt"]
  /\ UNCHANGED <<stage, events, mailbox, worker, plan, guard, main, decided>>

StopCalled(how) ==
  IF how = "interrupt" THEN HostUp /\ meta.pc = "posted" ELSE how \in Tools /\ MetaFree

\* While somebody else closes the worker out, a stop is a noop.
InterruptDropped ==
  /\ StopCalled("interrupt")
  /\ finalizing \/ "mail" \in Faults
  /\ meta' = NoStop
  /\ UNCHANGED <<stage, events, mailbox, worker, plan, guard, main, decided>>

Dispatch(how) == decided' = IF how = "stop" THEN decided ELSE TRUE

\* stopWorker without a worker: only what comes next is settled.
StopWithoutWorker(how) ==
  /\ StopCalled(how) /\ ~finalizing /\ ~HasActiveWorker
  /\ waiting' = (waiting \cap {"start_failed"}) \cup
                  (CASE how = "stop"      -> {"no_restart"}
                     [] how = "restart"   -> {}
                     [] how = "interrupt" -> {"continue"})
  /\ want' = IF how = "restart" THEN TRUE ELSE want
  /\ meta' = NoStop
  /\ Dispatch(how)
  /\ UNCHANGED <<stage, events, mailbox, worker, baseline, guard, main>>

\* stopWorker with one; whichever runs now, not the one an interrupt was meant for.
StopBegin(how) ==
  /\ StopCalled(how) /\ ~finalizing /\ HasActiveWorker
  /\ finalizing' = TRUE
  /\ meta' = [pc |-> "close", seq |-> handle, how |-> how, epoch |-> epoch]
  /\ Dispatch(how)
  /\ UNCHANGED <<stage, events, mailbox, worker, plan, epoch, main>>

MetaGoto(pc) == meta' = [meta EXCEPT !.pc = pc]

\* Mutant of Released: the guard stays taken.
ReleasedNever == meta' = NoStop /\ UNCHANGED guard

Released == finalizing' = FALSE /\ meta' = NoStop /\ UNCHANGED epoch

Fenced == epoch # meta.epoch

\* The physical close: base.stopWorker settles its flags, then the wrapper looks at the epoch.
StopClose ==
  /\ meta.pc = "close" /\ HostUp
  /\ \/ /\ live' = live \ {meta.seq}
        /\ waiting' = (waiting \ {"completion", "continue", "no_restart"})
                        \cup (IF meta.how = "restart" THEN {} ELSE {"no_restart"})
        /\ IF Fenced THEN Released /\ UNCHANGED <<handle, turnEnded, injectFailed>>
           ELSE ClearWorker /\ MetaGoto("end") /\ UNCHANGED guard
        /\ UNCHANGED last
     \/ CloseFailed /\ meta' = NoStop /\ UNCHANGED waiting
  /\ UNCHANGED <<stage, events, mailbox, want, baseline, main, decided>>

StopEnd ==
  /\ meta.pc = "end"
  /\ AppendEnd(meta.seq, IF meta.how = "interrupt" THEN "interrupt" ELSE "stop")
       \/ ("mail" \in Faults /\ UNCHANGED ends)
  /\ MetaGoto(IF Fenced THEN "flags" ELSE "ended")
  /\ UNCHANGED <<stage, events, signal, unread, sent, worker, plan, guard, main, decided>>

StopEnded ==
  /\ meta.pc = "ended"
  /\ ended' = ended \cup {meta.seq} \/ ("log" \in Faults /\ UNCHANGED ended)
  /\ MetaGoto("flags")
  /\ UNCHANGED <<stage, allocated, started, mailbox, worker, plan, guard, main, decided>>

\* What comes next, settled only now; the guard is released whoever holds it.
StopFlags ==
  /\ meta.pc = "flags"
  /\ waiting' = CASE meta.how = "interrupt" -> (waiting \ {"no_restart"}) \cup {"continue"}
                  [] meta.how = "restart"   -> waiting \ {"session_end"}
                  [] meta.how = "stop"      -> waiting
  /\ want' = IF meta.how = "restart" THEN TRUE ELSE want
  /\ Released
  /\ UNCHANGED <<stage, events, mailbox, worker, baseline, main, decided>>

-----------------------------------------------------------------------------
(* The worker, and the stage as everybody else moves it.                     *)

AtWork == handle \in live /\ ~turnEnded /\ main.pc \notin Starting

\* worker_completion_claim, or worker_escalation with declare_deferred
WorkerSignals ==
  /\ AtWork /\ signal # handle
  /\ signal' = handle
  /\ UNCHANGED <<stage, events, ends, unread, sent, worker, plan, guard, main, meta, decided>>

WorkerReads ==
  /\ AtWork /\ unread # 0
  /\ unread' = 0
  /\ UNCHANGED <<stage, events, ends, signal, sent, worker, plan, guard, main, meta, decided>>

\* turn_ended or session_ended
WorkerTurnEnds ==
  /\ AtWork
  /\ turnEnded' = TRUE
  /\ UNCHANGED <<stage, events, mailbox, handle, last, injectFailed, live, plan, guard, main,
                 meta, decided>>

StageMoved ==
  /\ stage' \in StageMoves \ {stage}
  /\ UNCHANGED <<events, mailbox, worker, plan, guard, main, meta, decided>>

-----------------------------------------------------------------------------
Init ==
  /\ stage = "running"
  /\ allocated = 0 /\ started = {} /\ ended = {}
  /\ ends = <<>> /\ signal = None /\ unread = 0 /\ sent = 0
  /\ handle = None /\ last = None /\ turnEnded = FALSE /\ injectFailed = FALSE /\ live = {}
  /\ want = FALSE /\ waiting = {} /\ baseline = None
  /\ finalizing = FALSE /\ epoch = 0
  /\ main = Idle /\ meta = NoStop /\ decided = FALSE

Tick     == TickBegin \/ Check \/ Reconcile
Start    == Allocate \/ Record \/ StartSession \/ StartFailed \/ TakeBaseline \/ Inject
Finalize == Monitor \/ Close \/ End \/ Flag \/ CloseBaseline \/ Ended
Cleanup  == Wait \/ Teardown \/ Shutdown \/ Exit
Recover  == Synthesize \/ RepairEnd \/ RepairWithoutEnd \/ CrashEnded \/ CrashEnd
Main     == Tick \/ Start \/ Finalize \/ Cleanup \/ Recover
StopStep == \/ InterruptDropped \/ StopWithoutWorker("interrupt") \/ StopBegin("interrupt")
            \/ StopClose \/ StopEnd \/ StopEnded \/ StopFlags
MetaCall == \/ MetaStart \/ MetaSend \/ Interrupt
            \/ \E how \in {"stop", "restart"} : StopWithoutWorker(how) \/ StopBegin(how)
Worker   == WorkerSignals \/ WorkerReads \/ WorkerTurnEnds

Next == Main \/ Boot \/ Crash \/ StopStep \/ MetaCall \/ Worker \/ StageMoved

Spec == Init /\ [][Next]_vars

\* The event loop keeps running what is ready: the main thread and a stop in flight.
FairSpec == Spec /\ WF_vars(Main) /\ WF_vars(StopStep)

-----------------------------------------------------------------------------
(* Properties                                                                *)

EndEnvelopes == [seq : Seqs, reason : EndReasons]
MainStates   == [pc : Steps, seq : {None} \cup Seqs, reason : EndReasons]
StopStates   == [pc : {"idle", "posted", "close", "end", "ended", "flags"}, seq : {None} \cup Seqs,
                 how : {"stop", "restart", "interrupt"}, epoch : Nat]

DurableTypes ==
  /\ stage \in {"running", "away", "halted"}
  /\ allocated \in 0..MaxSessions /\ started \subseteq Seqs /\ ended \subseteq Seqs
  /\ ends \in Seq(EndEnvelopes)
  /\ signal \in {None} \cup Seqs
  /\ sent \in 0..MaxInstructions /\ unread \in 0..MaxInstructions

SessionTypes ==
  /\ handle \in {None} \cup Seqs /\ last \in {None} \cup Seqs /\ live \subseteq Seqs
  /\ turnEnded \in BOOLEAN /\ injectFailed \in BOOLEAN

PlanTypes ==
  /\ want \in BOOLEAN /\ finalizing \in BOOLEAN /\ decided \in BOOLEAN
  /\ waiting \subseteq WaitStates
  /\ baseline \in 0..MaxInstructions /\ epoch \in Nat

ThreadTypes == main \in MainStates /\ meta \in StopStates

\* The types of the variables: what is on disk, what is in memory, where the threads are.
TypeOK == DurableTypes /\ SessionTypes /\ PlanTypes /\ ThreadTypes

\* Two workers never work in the same workspace: a session whose process runs is the one
\* the host holds, through failing closes, stops that race the tick, and restarts.
OneLiveWorker == live \subseteq {handle}

\* A worker that is gone leaves an ENDED record: with nobody closing out, every STARTED
\* has its ENDED unless the host still holds the session (docs/RUNTIME.md: paired records).
ClosedWorkersAreRecorded ==
  (main.pc = "idle" /\ meta.pc = "idle") => started \subseteq ended \cup {handle}

\* Meta is told of the end of a session once (docs/RUNTIME.md:230).
EndOnce == \A i, j \in DOMAIN ends : ends[i].seq = ends[j].seq => i = j

\* Continuation is Meta's: a host that knows of an earlier worker, from its own memory or
\* from recovery, starts another one only if Meta dispatched it since the last one was over,
\* or an instruction waits (docs/RUNTIME.md:61).
StartsAreDecided ==
  [][(started' # started /\ last # None) => (decided \/ unread # 0)]_vars

\* The same of every worker but the first of the task, whichever host starts it
\* (docs/RUNTIME.md:58).
OnlyTheFirstIsAutomatic ==
  [][(started' # started /\ started # {}) => (decided \/ unread # 0)]_vars

\* The guard is never left behind: whoever took it is still closing the worker, or the next
\* end of a turn would be nobody's (daemon.ts:1897, 2637, 2393).
GuardHasOwner ==
  finalizing => \/ main.pc \in Closing \cup Cleaning
                \/ meta.pc \in {"close", "end", "ended", "flags"}

\* A host that is between two ticks and has lost its worker waits for something: a state
\* in which no dispatch of Meta but start_worker would ever be looked at.
NeverStranded ==
  (main.pc = "idle" /\ meta.pc = "idle" /\ handle = None /\ last # None)
     => (want \/ waiting # {})

\* A host that exits in order leaves no STARTED without its ENDED, so that the next host has
\* no crash to report (daemon.ts:2435).
CleanExitRecordsAll == main.pc = "exit" => started \subseteq ended

\* A declared exit reaches Meta: once the host is back in its loop and no longer holds the
\* session, there is a worker_session_end for it or for a later one.
SignalsAreAnswered ==
  (main.pc = "idle" /\ meta.pc = "idle" /\ stage = "running" /\ signal \notin {None, handle})
     => \E i \in DOMAIN ends : ends[i].seq >= signal

\* A turn that is over is closed out and recorded, unless the host goes down first.
EndedTurnsAreRecorded ==
  \A s \in Seqs : (turnEnded /\ handle = s) ~> (s \in ended \/ ~HostUp)

\* An instruction sent while no worker runs brings one up, unless the host goes down first
\* (send_to_worker continues all waiting states, daemon.ts:1543).
InstructionsAreServed ==
  (unread # 0 /\ handle = None)
     ~> (handle # None \/ unread = 0 \/ allocated = MaxSessions \/ ~HostUp)
====
