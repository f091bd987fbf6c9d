---- MODULE MCWorkers_proofs ----
(***************************************************************************)
(* What the scenes of MCWorkers claim, for every bound on sessions and       *)
(* instructions.  A scene is the lifecycle with tools, stage moves and        *)
(* faults of its own: the lemmas of WorkerLifecycle_proofs are read with      *)
(* those, and their hypotheses are what the scene leaves out.                *)
(***************************************************************************)
EXTENDS MCWorkers, TLAPS

\* The theorems of the lifecycle, read with what each scene allows: dispatching, waiting, deciding.
D == INSTANCE WorkerLifecycle_proofs WITH
  Tools <- DispatchTools, StageMoves <- DispatchMoves, Faults <- DispatchFaults
W == INSTANCE WorkerLifecycle_proofs WITH
  Tools <- WaitTools, StageMoves <- WaitMoves, Faults <- WaitFaults
P == INSTANCE WorkerLifecycle_proofs

\* The scenes are instances of the lifecycle.
LEMMA ScenesAreLifecycles ==
  /\ D!BoundsAssumption /\ D!ToolsAssumption /\ D!StagesAssumption /\ D!FaultsAssumption
  /\ W!BoundsAssumption /\ W!ToolsAssumption /\ W!StagesAssumption /\ W!FaultsAssumption
  /\ P!BoundsAssumption /\ P!ToolsAssumption /\ P!StagesAssumption /\ P!FaultsAssumption
BY BoundsAssumption, ToolsAssumption, StagesAssumption, FaultsAssumption
   DEF BoundsAssumption, ToolsAssumption, StagesAssumption, FaultsAssumption, P!BoundsAssumption,
       P!ToolsAssumption, P!StagesAssumption, P!FaultsAssumption, D!BoundsAssumption, D!ToolsAssumption, D!StagesAssumption, D!FaultsAssumption,
       W!BoundsAssumption, W!ToolsAssumption, W!StagesAssumption, W!FaultsAssumption,
       DispatchTools, DispatchMoves, DispatchFaults, WaitTools, WaitMoves, WaitFaults

LEMMA DispatchingIsModelled == (Init => D!Init) /\ (Dispatching!Next => D!Next)
BY DEF Init, D!Init, None, Idle, NoStop, D!None, D!Idle, D!NoStop,
       Dispatching!None, D!None, Dispatching!Seqs, D!Seqs, Dispatching!EndReasons, D!EndReasons,
       Dispatching!WaitStates, D!WaitStates, Dispatching!events, D!events, Dispatching!mailbox, D!mailbox,
       Dispatching!worker, D!worker, Dispatching!plan, D!plan, Dispatching!guard, D!guard, Dispatching!vars,
       D!vars, Dispatching!Idle, D!Idle, Dispatching!NoStop, D!NoStop, Dispatching!Goto, D!Goto,
       Dispatching!Work, D!Work, Dispatching!Starting, D!Starting, Dispatching!Closing, D!Closing,
       Dispatching!Cleaning, D!Cleaning, Dispatching!Booting, D!Booting, Dispatching!Steps, D!Steps,
       Dispatching!HostUp, D!HostUp, Dispatching!HasActiveWorker, D!HasActiveWorker, Dispatching!TickBegin,
       D!TickBegin, Dispatching!StartWanted, D!StartWanted, Dispatching!Instructed, D!Instructed,
       Dispatching!Check, D!Check, Dispatching!FirstStart, D!FirstStart, Dispatching!Reconcile, D!Reconcile,
       Dispatching!Allocate, D!Allocate, Dispatching!Record, D!Record, Dispatching!StartSession, D!StartSession,
       Dispatching!StartFailed, D!StartFailed, Dispatching!CaptureBaseline, D!CaptureBaseline,
       Dispatching!TakeBaseline, D!TakeBaseline, Dispatching!Inject, D!Inject, Dispatching!ClearWorker,
       D!ClearWorker, Dispatching!CloseFailed, D!CloseFailed, Dispatching!AppendEnd, D!AppendEnd,
       Dispatching!MayFinalize, D!MayFinalize, Dispatching!Monitor, D!Monitor, Dispatching!Reasons, D!Reasons,
       Dispatching!Close, D!Close, Dispatching!End, D!End, Dispatching!WaitFor, D!WaitFor, Dispatching!Flag,
       D!Flag, Dispatching!CloseBaseline, D!CloseBaseline, Dispatching!Ended, D!Ended, Dispatching!Wait, D!Wait,
       Dispatching!Teardown, D!Teardown, Dispatching!Shutdown, D!Shutdown, Dispatching!Die, D!Die,
       Dispatching!Exit, D!Exit, Dispatching!Crash, D!Crash, Dispatching!LatestEnd, D!LatestEnd,
       Dispatching!EndOf, D!EndOf, Dispatching!Unmatched, D!Unmatched, Dispatching!Newest, D!Newest,
       Dispatching!SignalUnanswered, D!SignalUnanswered, Dispatching!EndUndecided, D!EndUndecided,
       Dispatching!Boot, D!Boot, Dispatching!Synthesize, D!Synthesize, Dispatching!PairedEnded, D!PairedEnded,
       Dispatching!Restore, D!Restore, Dispatching!RepairEnd, D!RepairEnd, Dispatching!RepairWithoutEnd,
       D!RepairWithoutEnd, Dispatching!CrashEnded, D!CrashEnded, Dispatching!CrashEnd, D!CrashEnd,
       Dispatching!MetaFree, D!MetaFree, Dispatching!MetaStart, D!MetaStart, Dispatching!MetaSend, D!MetaSend,
       Dispatching!Interrupt, D!Interrupt, Dispatching!StopCalled, D!StopCalled, Dispatching!InterruptDropped,
       D!InterruptDropped, Dispatching!Dispatch, D!Dispatch, Dispatching!StopWithoutWorker, D!StopWithoutWorker,
       Dispatching!StopBegin, D!StopBegin, Dispatching!MetaGoto, D!MetaGoto, Dispatching!Released, D!Released,
       Dispatching!Fenced, D!Fenced, Dispatching!StopClose, D!StopClose, Dispatching!StopEnd, D!StopEnd,
       Dispatching!StopEnded, D!StopEnded, Dispatching!StopFlags, D!StopFlags, Dispatching!AtWork, D!AtWork,
       Dispatching!WorkerSignals, D!WorkerSignals, Dispatching!WorkerReads, D!WorkerReads,
       Dispatching!WorkerTurnEnds, D!WorkerTurnEnds, Dispatching!StageMoved, D!StageMoved, Dispatching!Tick,
       D!Tick, Dispatching!Start, D!Start, Dispatching!Finalize, D!Finalize, Dispatching!Cleanup, D!Cleanup,
       Dispatching!Recover, D!Recover, Dispatching!Main, D!Main, Dispatching!StopStep, D!StopStep,
       Dispatching!MetaCall, D!MetaCall, Dispatching!Worker, D!Worker, Dispatching!Next, D!Next

LEMMA WaitingIsModelled == (Init => W!Init) /\ (Waiting!Next => W!Next)
BY DEF Init, W!Init, None, Idle, NoStop, W!None, W!Idle, W!NoStop,
       Waiting!None, W!None, Waiting!Seqs, W!Seqs, Waiting!EndReasons, W!EndReasons, Waiting!WaitStates,
       W!WaitStates, Waiting!events, W!events, Waiting!mailbox, W!mailbox, Waiting!worker, W!worker,
       Waiting!plan, W!plan, Waiting!guard, W!guard, Waiting!vars, W!vars, Waiting!Idle, W!Idle, Waiting!NoStop,
       W!NoStop, Waiting!Goto, W!Goto, Waiting!Work, W!Work, Waiting!Starting, W!Starting, Waiting!Closing,
       W!Closing, Waiting!Cleaning, W!Cleaning, Waiting!Booting, W!Booting, Waiting!Steps, W!Steps,
       Waiting!HostUp, W!HostUp, Waiting!HasActiveWorker, W!HasActiveWorker, Waiting!TickBegin, W!TickBegin,
       Waiting!StartWanted, W!StartWanted, Waiting!Instructed, W!Instructed, Waiting!Check, W!Check,
       Waiting!FirstStart, W!FirstStart, Waiting!Reconcile, W!Reconcile, Waiting!Allocate, W!Allocate,
       Waiting!Record, W!Record, Waiting!StartSession, W!StartSession, Waiting!StartFailed, W!StartFailed,
       Waiting!CaptureBaseline, W!CaptureBaseline, Waiting!TakeBaseline, W!TakeBaseline, Waiting!Inject,
       W!Inject, Waiting!ClearWorker, W!ClearWorker, Waiting!CloseFailed, W!CloseFailed, Waiting!AppendEnd,
       W!AppendEnd, Waiting!MayFinalize, W!MayFinalize, Waiting!Monitor, W!Monitor, Waiting!Reasons, W!Reasons,
       Waiting!Close, W!Close, Waiting!End, W!End, Waiting!WaitFor, W!WaitFor, Waiting!Flag, W!Flag,
       Waiting!CloseBaseline, W!CloseBaseline, Waiting!Ended, W!Ended, Waiting!Wait, W!Wait, Waiting!Teardown,
       W!Teardown, Waiting!Shutdown, W!Shutdown, Waiting!Die, W!Die, Waiting!Exit, W!Exit, Waiting!Crash,
       W!Crash, Waiting!LatestEnd, W!LatestEnd, Waiting!EndOf, W!EndOf, Waiting!Unmatched, W!Unmatched,
       Waiting!Newest, W!Newest, Waiting!SignalUnanswered, W!SignalUnanswered, Waiting!EndUndecided,
       W!EndUndecided, Waiting!Boot, W!Boot, Waiting!Synthesize, W!Synthesize, Waiting!PairedEnded,
       W!PairedEnded, Waiting!Restore, W!Restore, Waiting!RepairEnd, W!RepairEnd, Waiting!RepairWithoutEnd,
       W!RepairWithoutEnd, Waiting!CrashEnded, W!CrashEnded, Waiting!CrashEnd, W!CrashEnd, Waiting!MetaFree,
       W!MetaFree, Waiting!MetaStart, W!MetaStart, Waiting!MetaSend, W!MetaSend, Waiting!Interrupt, W!Interrupt,
       Waiting!StopCalled, W!StopCalled, Waiting!InterruptDropped, W!InterruptDropped, Waiting!Dispatch,
       W!Dispatch, Waiting!StopWithoutWorker, W!StopWithoutWorker, Waiting!StopBegin, W!StopBegin,
       Waiting!MetaGoto, W!MetaGoto, Waiting!Released, W!Released, Waiting!Fenced, W!Fenced, Waiting!StopClose,
       W!StopClose, Waiting!StopEnd, W!StopEnd, Waiting!StopEnded, W!StopEnded, Waiting!StopFlags, W!StopFlags,
       Waiting!AtWork, W!AtWork, Waiting!WorkerSignals, W!WorkerSignals, Waiting!WorkerReads, W!WorkerReads,
       Waiting!WorkerTurnEnds, W!WorkerTurnEnds, Waiting!StageMoved, W!StageMoved, Waiting!Tick, W!Tick,
       Waiting!Start, W!Start, Waiting!Finalize, W!Finalize, Waiting!Cleanup, W!Cleanup, Waiting!Recover,
       W!Recover, Waiting!Main, W!Main, Waiting!StopStep, W!StopStep, Waiting!MetaCall, W!MetaCall,
       Waiting!Worker, W!Worker, Waiting!Next, W!Next

LEMMA DecidingIsModelled == (Init => P!Init) /\ (Next => P!Next)
BY DEF Init, P!Init, None, Idle, NoStop, P!None, P!Idle, P!NoStop, Seqs, P!Seqs, EndReasons, P!EndReasons,
       WaitStates, P!WaitStates, events, P!events, mailbox, P!mailbox, worker, P!worker, plan, P!plan, guard,
       P!guard, vars, P!vars, Goto, P!Goto, Work, P!Work, Starting, P!Starting, Closing, P!Closing, Cleaning,
       P!Cleaning, Booting, P!Booting, Steps, P!Steps, HostUp, P!HostUp, HasActiveWorker, P!HasActiveWorker,
       TickBegin, P!TickBegin, StartWanted, P!StartWanted, Instructed, P!Instructed, Check, P!Check, FirstStart,
       P!FirstStart, Reconcile, P!Reconcile, Allocate, P!Allocate, Record, P!Record, StartSession,
       P!StartSession, StartFailed, P!StartFailed, CaptureBaseline, P!CaptureBaseline, TakeBaseline,
       P!TakeBaseline, Inject, P!Inject, ClearWorker, P!ClearWorker, CloseFailed, P!CloseFailed, AppendEnd,
       P!AppendEnd, MayFinalize, P!MayFinalize, Monitor, P!Monitor, Reasons, P!Reasons, Close, P!Close, End,
       P!End, WaitFor, P!WaitFor, Flag, P!Flag, CloseBaseline, P!CloseBaseline, Ended, P!Ended, Wait, P!Wait,
       Teardown, P!Teardown, Shutdown, P!Shutdown, Die, P!Die, Exit, P!Exit, Crash, P!Crash, LatestEnd,
       P!LatestEnd, EndOf, P!EndOf, Unmatched, P!Unmatched, Newest, P!Newest, SignalUnanswered,
       P!SignalUnanswered, EndUndecided, P!EndUndecided, Boot, P!Boot, Synthesize, P!Synthesize, PairedEnded,
       P!PairedEnded, Restore, P!Restore, RepairEnd, P!RepairEnd, RepairWithoutEnd, P!RepairWithoutEnd,
       CrashEnded, P!CrashEnded, CrashEnd, P!CrashEnd, MetaFree, P!MetaFree, MetaStart, P!MetaStart, MetaSend,
       P!MetaSend, Interrupt, P!Interrupt, StopCalled, P!StopCalled, InterruptDropped, P!InterruptDropped,
       Dispatch, P!Dispatch, StopWithoutWorker, P!StopWithoutWorker, StopBegin, P!StopBegin, MetaGoto,
       P!MetaGoto, Released, P!Released, Fenced, P!Fenced, StopClose, P!StopClose, StopEnd, P!StopEnd, StopEnded,
       P!StopEnded, StopFlags, P!StopFlags, AtWork, P!AtWork, WorkerSignals, P!WorkerSignals, WorkerReads,
       P!WorkerReads, WorkerTurnEnds, P!WorkerTurnEnds, StageMoved, P!StageMoved, Tick, P!Tick, Start, P!Start,
       Finalize, P!Finalize, Cleanup, P!Cleanup, Recover, P!Recover, Main, P!Main, StopStep, P!StopStep,
       MetaCall, P!MetaCall, Worker, P!Worker, Next, P!Next

\* The variables under the names they have in an instance.
LEMMA SameVars == UNCHANGED vars => UNCHANGED D!vars /\ UNCHANGED W!vars /\ UNCHANGED P!vars
BY DEF vars, events, mailbox, worker, plan, guard, D!vars, D!events, D!mailbox, D!worker, D!plan, D!guard,
       W!vars, W!events, W!mailbox, W!worker, W!plan, W!guard,
       P!vars, P!events, P!mailbox, P!worker, P!plan, P!guard

\* A step of the scenes is a step of the one that is played.
LEMMA SceneSteps ==
  ASSUME [ScenesNext]_<<scene, vars>>
  PROVE  /\ scene' = scene
         /\ scene = "dispatching" => [D!Next]_(D!vars)
         /\ scene = "waiting" => [W!Next]_(W!vars)
         /\ scene = "deciding" => [P!Next]_(P!vars)
BY SameVars, DispatchingIsModelled, WaitingIsModelled, DecidingIsModelled DEF ScenesNext, Deciding

-----------------------------------------------------------------------------
(* Every tool of Meta races the ticks of one host                            *)

DispatchHolds == scene = "dispatching" => D!WorkerInv /\ D!RecordInv /\ D!OnceInv

LEMMA DispatchIsKept == ScenesSpec => []DispatchHolds
<1>1. ScenesInit => DispatchHolds
  BY ScenesAreLifecycles, DispatchingIsModelled, D!InitialWorkerInv, D!RecordEnds, D!OnceEnds
     DEF ScenesInit, DispatchHolds
<1>2. DispatchHolds /\ [ScenesNext]_<<scene, vars>> => DispatchHolds'
  <2> SUFFICES ASSUME DispatchHolds, [ScenesNext]_<<scene, vars>>, scene' = "dispatching"
               PROVE  (D!WorkerInv /\ D!RecordInv /\ D!OnceInv)'
    BY DEF DispatchHolds
  <2>1. [D!Next]_(D!vars) /\ D!WorkerInv /\ D!RecordInv /\ D!OnceInv
    BY SceneSteps DEF DispatchHolds
  <2>2. /\ "crash" \notin DispatchFaults /\ "quit" \notin DispatchFaults /\ "log" \notin DispatchFaults
        /\ DispatchMoves \subseteq {"running"}
    BY DEF DispatchFaults, DispatchMoves
  <2>3. D!WorkerInv'
    BY <2>1, ScenesAreLifecycles, D!WorkerStepKeeps
  <2>4. D!RecordInv'
    BY <2>1, <2>2, ScenesAreLifecycles, D!RecordStepKeeps
  <2>5. D!OnceInv'
    BY <2>1, <2>2, ScenesAreLifecycles, D!OnceStepKeeps
  <2> QED BY <2>3, <2>4, <2>5
<1> QED BY <1>1, <1>2, PTL DEF ScenesSpec

\* Whichever of the tick and Meta's stops, restarts and interrupts closes a session out, and however
\* often that fails, its STARTED has its ENDED when nobody is at it any more (finalizeWorker, stopWorker).
THEOREM ScenesRecordSessions == ScenesSpec => []RecordedInScene
<1>1. DispatchHolds => RecordedInScene
  <2> SUFFICES ASSUME scene = "dispatching", D!RecordInv PROVE ClosedWorkersAreRecorded
    BY DEF DispatchHolds, RecordedInScene
  <2>1. D!ClosedWorkersAreRecorded
    BY ScenesAreLifecycles, D!RecordEnds
  <2> QED BY <2>1 DEF D!ClosedWorkersAreRecorded, ClosedWorkersAreRecorded
<1> QED BY <1>1, DispatchIsKept, PTL

\* Meta is told of the end of a session once, though several may be at closing it out
\* (docs/RUNTIME.md:230).
THEOREM ScenesTellOnce == ScenesSpec => []EndOnceInScene
<1>1. DispatchHolds => EndOnceInScene
  <2> SUFFICES ASSUME scene = "dispatching", D!OnceInv PROVE EndOnce
    BY DEF DispatchHolds, EndOnceInScene
  <2>1. D!EndOnce
    BY ScenesAreLifecycles, D!OnceEnds
  <2> QED BY <2>1 DEF D!EndOnce, EndOnce
<1> QED BY <1>1, DispatchIsKept, PTL

-----------------------------------------------------------------------------
(* Hosts that crash and exit, without stops                                  *)

WaitHolds == scene = "waiting" => W!WorkerInv /\ W!StrandInv /\ W!SignalInv /\ W!ExitInv

LEMMA WaitIsKept == ScenesSpec => []WaitHolds
<1>1. ScenesInit => WaitHolds
  BY ScenesAreLifecycles, WaitingIsModelled, W!InitialWorkerInv, W!StrandEnds, W!SignalEnds, W!ExitEnds
     DEF ScenesInit, WaitHolds
<1>2. WaitHolds /\ [ScenesNext]_<<scene, vars>> => WaitHolds'
  <2> SUFFICES ASSUME WaitHolds, [ScenesNext]_<<scene, vars>>, scene' = "waiting"
               PROVE  (W!WorkerInv /\ W!StrandInv /\ W!SignalInv /\ W!ExitInv)'
    BY DEF WaitHolds
  <2>1. [W!Next]_(W!vars) /\ W!WorkerInv /\ W!StrandInv /\ W!SignalInv /\ W!ExitInv
    BY SceneSteps DEF WaitHolds
  <2>2. /\ WaitTools \cap {"stop", "restart", "interrupt"} = {} /\ "away" \notin WaitMoves
        /\ "mail" \notin WaitFaults /\ "repair" \notin WaitFaults /\ "log" \notin WaitFaults
    BY DEF WaitTools, WaitMoves, WaitFaults
  <2>3. W!WorkerInv'
    BY <2>1, ScenesAreLifecycles, W!WorkerStepKeeps
  <2>4. W!StrandInv'
    BY <2>1, <2>2, ScenesAreLifecycles, W!StrandStepKeeps
  <2>5. W!SignalInv'
    BY <2>1, <2>2, ScenesAreLifecycles, W!SignalStepKeeps
  <2>6. W!ExitInv'
    BY <2>1, <2>2, ScenesAreLifecycles, W!ExitStepKeeps
  <2> QED BY <2>3, <2>4, <2>5, <2>6
<1> QED BY <1>1, <1>2, PTL DEF ScenesSpec

\* A host between two ticks that lost its worker waits for Meta's dispatch or wants a worker itself,
\* whatever start or close failed and whatever host came before it (reconcileWorker, recovery.ts).
THEOREM ScenesNeverStrand == ScenesSpec => []NeverStrandedInScene
<1>1. WaitHolds => NeverStrandedInScene
  <2> SUFFICES ASSUME scene = "waiting", W!StrandInv PROVE NeverStranded
    BY DEF WaitHolds, NeverStrandedInScene
  <2>1. W!NeverStranded
    BY ScenesAreLifecycles, W!StrandEnds
  <2> QED BY <2>1 DEF W!NeverStranded, NeverStranded, W!None, None
<1> QED BY <1>1, WaitIsKept, PTL

\* A host that exits in order leaves every STARTED with its ENDED, those of crashed hosts before it
\* included (cleanupAndExit, daemon.ts:2435; repairHalfCompletedWorker).
THEOREM ScenesExitClean == ScenesSpec => []CleanExitInScene
<1>1. WaitHolds => CleanExitInScene
  <2> SUFFICES ASSUME scene = "waiting", W!ExitInv PROVE CleanExitRecordsAll
    BY DEF WaitHolds, CleanExitInScene
  <2>1. W!CleanExitRecordsAll
    BY ScenesAreLifecycles, W!ExitEnds
  <2> QED BY <2>1 DEF W!CleanExitRecordsAll, CleanExitRecordsAll
<1> QED BY <1>1, WaitIsKept, PTL

-----------------------------------------------------------------------------
(* Hosts that come and go through every stage, without restarts and interrupts *)

DecideHolds == scene = "deciding" => P!WorkerInv /\ P!DecidedInv

LEMMA DecideIsKept ==
  ASSUME "restart" \notin Tools, "interrupt" \notin Tools
  PROVE  ScenesSpec => []DecideHolds
<1>1. ScenesInit => DecideHolds
  BY ScenesAreLifecycles, DecidingIsModelled, P!InitialWorkerInv, P!DecidedEnds DEF ScenesInit, DecideHolds
<1>2. DecideHolds /\ [ScenesNext]_<<scene, vars>> => DecideHolds'
  <2> SUFFICES ASSUME DecideHolds, [ScenesNext]_<<scene, vars>>, scene' = "deciding"
               PROVE  (P!WorkerInv /\ P!DecidedInv)'
    BY DEF DecideHolds
  <2>1. [P!Next]_(P!vars) /\ P!WorkerInv /\ P!DecidedInv
    BY SceneSteps DEF DecideHolds
  <2> QED BY <2>1, ScenesAreLifecycles, P!WorkerStepKeeps, P!DecidedStepKeeps
<1> QED BY <1>1, <1>2, PTL DEF ScenesSpec

\* A host that knows of an earlier worker starts another one only on a dispatch of Meta's since the
\* last one was over, or with an instruction waiting, through crashes, exits and every move of the
\* stage (docs/RUNTIME.md:61).
THEOREM ScenesStartDecided ==
  ASSUME "restart" \notin Tools, "interrupt" \notin Tools
  PROVE  ScenesSpec => StartsAreDecidedInScene
<1>1. DecideHolds /\ [ScenesNext]_<<scene, vars>>
        => [(scene = "deciding" /\ started' # started /\ last # None) => (decided \/ unread # 0)]_<<scene, vars>>
  <2> SUFFICES ASSUME DecideHolds, ScenesNext, scene = "deciding", started' # started, last # None
               PROVE  decided \/ unread # 0
    OBVIOUS
  <2>1. [P!Next]_(P!vars) /\ P!DecidedInv
    BY SceneSteps DEF DecideHolds
  <2>2. P!vars' # P!vars
    BY DEF P!vars, P!events
  <2>3. last # P!None
    BY DEF None, P!None
  <2> QED BY <2>1, <2>2, <2>3, ScenesAreLifecycles, P!DecidedEnds
<1> QED BY <1>1, DecideIsKept, PTL DEF ScenesSpec, StartsAreDecidedInScene
====
