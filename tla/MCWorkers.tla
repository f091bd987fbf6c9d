---- MODULE MCWorkers ----
(***************************************************************************)
(* Instances of WorkerLifecycle for TLC.  Each behaviour plays one of three   *)
(* scenes, which the first state chooses: the scene says which tools Meta     *)
(* uses, where the stage moves and what goes wrong.  A property that some     *)
(* scene leaves out of its claim, for a reason the README names, is restricted *)
(* to the others; those that are not restricted hold in all of them.          *)
(***************************************************************************)
EXTENDS WorkerLifecycle

VARIABLE scene

\* Every tool of Meta races the ticks of one host.
DispatchTools == {"start", "send", "stop", "restart", "interrupt"}
DispatchMoves == {"running"}
DispatchFaults == {"start", "close", "mail"}
Dispatching == INSTANCE WorkerLifecycle WITH
  Tools <- DispatchTools, StageMoves <- DispatchMoves, Faults <- DispatchFaults

\* Hosts come and go through every stage: the instance of the constants themselves.
Deciding == Next /\ sent' <= 1

\* A host without stops.
WaitTools == {"start", "send"}
WaitMoves == {"running", "halted"}
WaitFaults == {"crash", "quit", "start", "close"}
Waiting == INSTANCE WorkerLifecycle WITH
  Tools <- WaitTools, StageMoves <- WaitMoves, Faults <- WaitFaults

ScenesInit == Init /\ scene \in {"dispatching", "deciding", "waiting"}

ScenesNext ==
  /\ UNCHANGED scene
  /\ \/ scene = "dispatching" /\ Dispatching!Next
     \/ scene = "deciding" /\ Deciding
     \/ scene = "waiting" /\ Waiting!Next

ScenesSpec == ScenesInit /\ [][ScenesNext]_<<scene, vars>>

-----------------------------------------------------------------------------
\* A worker that is gone leaves an ENDED record, unless the events log or the host fails
\* (docs/RUNTIME.md: paired records).
RecordedInScene == scene = "dispatching" => ClosedWorkersAreRecorded

\* A host tells Meta of the end of a session once (docs/RUNTIME.md:230).
EndOnceInScene == scene = "dispatching" => EndOnce

\* A host that knows of an earlier worker starts another one only if Meta dispatched it or an
\* instruction waits (docs/RUNTIME.md:61).
StartsAreDecidedInScene ==
  [][(scene = "deciding" /\ started' # started /\ last # None) => (decided \/ unread # 0)]_<<scene, vars>>

\* A host between two ticks that has lost its worker waits for something.
NeverStrandedInScene == scene = "waiting" => NeverStranded

\* A host that exits in order leaves no STARTED without its ENDED (daemon.ts:2435).
CleanExitInScene == scene = "waiting" => CleanExitRecordsAll
====
