---- MODULE WorkerLifecycle_proofs ----
(***************************************************************************)
(* Theorems about WorkerLifecycle, for every bound and every set of tools,  *)
(* stage moves and faults; a theorem that needs some tool, move or fault to *)
(* be absent names it, and the README says what happens with it.            *)
(*                                                                         *)
(* Two owners may close a worker out, the main thread and a stop of Meta's, *)
(* and cleanup may take over from the latter.  What keeps a second process  *)
(* from running is that the handle is only ever given up by the owner of    *)
(* the closing, for the session it has just closed, and that a start is     *)
(* only begun, and only ever goes on, without a handle.                     *)
(***************************************************************************)
EXTENDS WorkerLifecycle, TLAPS

\* The session a thread works on is a session.
OwnedSessions ==
  /\ main.pc = "allocate" => allocated < MaxSessions
  /\ main.pc \in {"record", "session", "start_failed", "synth", "repair", "unrepaired",
                  "crash_ended", "crash_end"} \cup Closing => main.seq \in Seqs
  /\ meta.pc # "idle" => meta.seq \in Seqs

\* Who holds the guard, and what the holder may rely on.
Ownership ==
  /\ main.pc \in {"allocate", "record", "session"} => handle = None
  /\ main.pc \in Closing => finalizing /\ meta.pc \in {"idle", "posted"}
  /\ meta.pc \notin {"idle", "posted"} => finalizing
  /\ main.pc = "close" => handle = main.seq
  /\ meta.pc = "close" => handle = meta.seq

WorkerInv == TypeOK /\ OwnedSessions /\ Ownership /\ OneLiveWorker

-----------------------------------------------------------------------------
\* A fresh task: no session, and nobody works on one.
LEMMA InitialWorkerInv == Init => WorkerInv
<1> SUFFICES ASSUME Init PROVE WorkerInv
  OBVIOUS
<1> USE BoundsAssumption DEF Init, None, Idle, NoStop
<1>1. DurableTypes /\ SessionTypes /\ PlanTypes
  <2>1. DurableTypes
    BY DEF DurableTypes
  <2>2. SessionTypes
    BY DEF SessionTypes
  <2>3. PlanTypes
    <3>1. baseline \in 0..MaxInstructions
      OBVIOUS
    <3> QED BY <3>1 DEF PlanTypes
  <2> QED BY <2>1, <2>2, <2>3
<1>2. ThreadTypes
  BY DEF ThreadTypes, MainStates, StopStates, Steps, EndReasons
<1>3. OwnedSessions /\ Ownership /\ OneLiveWorker
  BY DEF OwnedSessions, Ownership, OneLiveWorker, Closing
<1> QED BY <1>1, <1>2, <1>3 DEF WorkerInv, TypeOK

\* The steps of a tick decide where the main thread goes, and never touch a session.
LEMMA TickKeeps == WorkerInv /\ Tick => WorkerInv'
<1> SUFFICES ASSUME WorkerInv, Tick PROVE WorkerInv'
  OBVIOUS
<1> USE BoundsAssumption DEF WorkerInv, TypeOK, events, mailbox, worker, plan, guard, Goto, None
<1>1. CASE TickBegin
  <2>1. DurableTypes'
    BY <1>1 DEF TickBegin, DurableTypes
  <2>2. SessionTypes'
    BY <1>1 DEF TickBegin, SessionTypes
  <2>3. PlanTypes'
    BY <1>1 DEF TickBegin, PlanTypes
  <2>4. ThreadTypes'
    BY <1>1 DEF TickBegin, ThreadTypes, MainStates, Steps, Starting, Closing, Cleaning, Booting
  <2>5. OwnedSessions'
    BY <1>1 DEF TickBegin, OwnedSessions, DurableTypes, ThreadTypes, MainStates, StopStates,
           Closing, Seqs
  <2>6. (Ownership /\ OneLiveWorker)'
    BY <1>1 DEF TickBegin, OwnedSessions, Ownership, OneLiveWorker, SessionTypes, ThreadTypes,
           MainStates, StopStates, Closing, Seqs
  <2> QED BY <2>1, <2>2, <2>3, <2>4, <2>5, <2>6
<1>2. CASE Check
  <2>1. DurableTypes'
    BY <1>2 DEF Check, DurableTypes
  <2>2. SessionTypes'
    BY <1>2 DEF Check, SessionTypes
  <2>3. PlanTypes'
    <3>1. baseline' \in 0..MaxInstructions
      BY <1>2 DEF Check, PlanTypes, StartWanted, WaitStates
    <3> QED
      BY <3>1, <1>2 DEF Check, PlanTypes, StartWanted, WaitStates
  <2>4. ThreadTypes'
    BY <1>2 DEF Check, ThreadTypes, MainStates, Steps, Starting, Closing, Cleaning, Booting
  <2>5. OwnedSessions'
    BY <1>2 DEF Check, OwnedSessions, DurableTypes, ThreadTypes, MainStates, StopStates,
           Closing, Seqs
  <2>6. (Ownership /\ OneLiveWorker)'
    BY <1>2 DEF Check, OwnedSessions, Ownership, OneLiveWorker, SessionTypes, ThreadTypes,
           MainStates, StopStates, Closing, Seqs
  <2> QED BY <2>1, <2>2, <2>3, <2>4, <2>5, <2>6
<1>3. CASE Reconcile
  <2>1. DurableTypes'
    BY <1>3 DEF Reconcile, DurableTypes
  <2>2. SessionTypes'
    BY <1>3 DEF Reconcile, SessionTypes
  <2>3. PlanTypes'
    BY <1>3 DEF Reconcile, PlanTypes
  <2>4. ThreadTypes'
    BY <1>3 DEF Reconcile, ThreadTypes, MainStates, Steps, Starting, Closing, Cleaning, Booting,
           Idle, EndReasons
  <2>5. OwnedSessions'
    BY <1>3 DEF Reconcile, Idle, OwnedSessions, DurableTypes, ThreadTypes, MainStates,
           StopStates, Closing, Seqs
  <2>6. (Ownership /\ OneLiveWorker)'
    BY <1>3 DEF Reconcile, Idle, OwnedSessions, Ownership, OneLiveWorker, SessionTypes,
           ThreadTypes, MainStates, StopStates, Closing, Seqs
  <2> QED BY <2>1, <2>2, <2>3, <2>4, <2>5, <2>6
<1> QED BY <1>1, <1>2, <1>3 DEF Tick

\* A start runs without a handle from its first step to the one that sets it.
LEMMA StartKeeps == WorkerInv /\ Start => WorkerInv'
<1> SUFFICES ASSUME WorkerInv, Start PROVE WorkerInv'
  OBVIOUS
<1> USE BoundsAssumption DEF WorkerInv, TypeOK, events, mailbox, worker, plan, guard, Goto, None
<1>1. CASE Allocate
  <2>1. DurableTypes'
    BY <1>1 DEF Allocate, Work, DurableTypes, OwnedSessions, Seqs
  <2>2. SessionTypes'
    BY <1>1 DEF Allocate, Work, SessionTypes
  <2>3. PlanTypes'
    BY <1>1 DEF Allocate, Work, PlanTypes
  <2>4. ThreadTypes'
    BY <1>1 DEF Allocate, Work, ThreadTypes, MainStates, Steps, Starting, Closing, Cleaning,
           Booting, OwnedSessions, DurableTypes, Seqs
  <2>5. OwnedSessions'
    BY <1>1 DEF Allocate, Work, OwnedSessions, DurableTypes, ThreadTypes, MainStates,
           StopStates, Closing, Seqs
  <2>6. (Ownership /\ OneLiveWorker)'
    BY <1>1 DEF Allocate, Work, OwnedSessions, Ownership, OneLiveWorker, SessionTypes,
           ThreadTypes, MainStates, StopStates, Closing, Seqs
  <2> QED BY <2>1, <2>2, <2>3, <2>4, <2>5, <2>6
<1>2. CASE Record
  <2>1. DurableTypes'
    BY <1>2 DEF Record, DurableTypes, OwnedSessions
  <2>2. SessionTypes'
    BY <1>2 DEF Record, SessionTypes
  <2>3. PlanTypes'
    BY <1>2 DEF Record, PlanTypes
  <2>4. ThreadTypes'
    BY <1>2 DEF Record, ThreadTypes, MainStates, Steps, Starting, Closing, Cleaning, Booting
  <2>5. OwnedSessions'
    BY <1>2 DEF Record, OwnedSessions, DurableTypes, ThreadTypes, MainStates, StopStates,
           Closing, Seqs
  <2>6. (Ownership /\ OneLiveWorker)'
    BY <1>2 DEF Record, OwnedSessions, Ownership, OneLiveWorker, SessionTypes, ThreadTypes,
           MainStates, StopStates, Closing, Seqs
  <2> QED BY <2>1, <2>2, <2>3, <2>4, <2>5, <2>6
<1>3. CASE StartSession
  <2>1. DurableTypes'
    BY <1>3 DEF StartSession, DurableTypes
  <2>2. SessionTypes'
    BY <1>3 DEF StartSession, SessionTypes, OwnedSessions
  <2>3. PlanTypes'
    BY <1>3 DEF StartSession, PlanTypes
  <2>4. ThreadTypes'
    BY <1>3 DEF StartSession, ThreadTypes, MainStates, Steps, Starting, Closing, Cleaning,
           Booting
  <2>5. OwnedSessions'
    BY <1>3 DEF StartSession, OwnedSessions, DurableTypes, ThreadTypes, MainStates, StopStates,
           Closing, Seqs
  <2>6. (Ownership /\ OneLiveWorker)'
    BY <1>3 DEF StartSession, OwnedSessions, Ownership, OneLiveWorker, SessionTypes,
           ThreadTypes, MainStates, StopStates, Closing, Seqs
  <2> QED BY <2>1, <2>2, <2>3, <2>4, <2>5, <2>6
<1>4. CASE StartFailed
  <2>1. DurableTypes'
    BY <1>4 DEF StartFailed, DurableTypes, OwnedSessions
  <2>2. SessionTypes'
    BY <1>4 DEF StartFailed, SessionTypes
  <2>3. PlanTypes'
    BY <1>4 DEF StartFailed, PlanTypes
  <2>4. ThreadTypes'
    BY <1>4 DEF StartFailed, ThreadTypes, MainStates, Steps, Starting, Closing, Cleaning,
           Booting
  <2>5. OwnedSessions'
    BY <1>4 DEF StartFailed, OwnedSessions, DurableTypes, ThreadTypes, MainStates, StopStates,
           Closing, Seqs
  <2>6. (Ownership /\ OneLiveWorker)'
    BY <1>4 DEF StartFailed, OwnedSessions, Ownership, OneLiveWorker, SessionTypes, ThreadTypes,
           MainStates, StopStates, Closing, Seqs
  <2> QED BY <2>1, <2>2, <2>3, <2>4, <2>5, <2>6
<1>5. CASE TakeBaseline
  <2>1. DurableTypes'
    BY <1>5 DEF TakeBaseline, CaptureBaseline, DurableTypes
  <2>2. SessionTypes'
    BY <1>5 DEF TakeBaseline, CaptureBaseline, SessionTypes
  <2>3. PlanTypes'
    BY <1>5 DEF TakeBaseline, CaptureBaseline, PlanTypes, DurableTypes, WaitStates
  <2>4. ThreadTypes'
    BY <1>5 DEF TakeBaseline, CaptureBaseline, ThreadTypes, MainStates, Steps, Starting,
           Closing, Cleaning, Booting, Idle, EndReasons
  <2>5. OwnedSessions'
    BY <1>5 DEF TakeBaseline, CaptureBaseline, Idle, OwnedSessions, DurableTypes, ThreadTypes,
           MainStates, StopStates, Closing, Seqs
  <2>6. (Ownership /\ OneLiveWorker)'
    BY <1>5 DEF TakeBaseline, CaptureBaseline, Idle, OwnedSessions, Ownership, OneLiveWorker,
           SessionTypes, ThreadTypes, MainStates, StopStates, Closing, Seqs
  <2> QED BY <2>1, <2>2, <2>3, <2>4, <2>5, <2>6
<1>6. CASE Inject
  <2>1. DurableTypes'
    BY <1>6 DEF Inject, DurableTypes
  <2>2. SessionTypes'
    BY <1>6 DEF Inject, SessionTypes
  <2>3. PlanTypes'
    <3>1. baseline' \in 0..MaxInstructions
      BY <1>6 DEF Inject, PlanTypes
    <3> QED
      BY <3>1, <1>6 DEF Inject, PlanTypes
  <2>4. ThreadTypes'
    BY <1>6 DEF Inject, ThreadTypes, MainStates, Steps, Starting, Closing, Cleaning, Booting
  <2>5. OwnedSessions'
    BY <1>6 DEF Inject, OwnedSessions, DurableTypes, ThreadTypes, MainStates, StopStates,
           Closing, Seqs
  <2>6. (Ownership /\ OneLiveWorker)'
    BY <1>6 DEF Inject, OwnedSessions, Ownership, OneLiveWorker, SessionTypes, ThreadTypes,
           MainStates, StopStates, Closing, Seqs
  <2> QED BY <2>1, <2>2, <2>3, <2>4, <2>5, <2>6
<1> QED BY <1>1, <1>2, <1>3, <1>4, <1>5, <1>6 DEF Start

\* The main thread closes a worker out only as the holder of the guard, and gives up the
\* handle of the session it closed.
LEMMA FinalizeKeeps == WorkerInv /\ Finalize => WorkerInv'
<1> SUFFICES ASSUME WorkerInv, Finalize PROVE WorkerInv'
  OBVIOUS
<1> USE BoundsAssumption DEF WorkerInv, TypeOK, events, mailbox, worker, plan, guard, Goto, None
<1>1. CASE Monitor
  <2>1. DurableTypes'
    BY <1>1 DEF Monitor, MayFinalize, Work, DurableTypes
  <2>2. SessionTypes'
    BY <1>1 DEF Monitor, MayFinalize, Work, SessionTypes
  <2>3. PlanTypes'
    BY <1>1 DEF Monitor, MayFinalize, Work, PlanTypes
  <2>4. ThreadTypes'
    BY <1>1 DEF Monitor, MayFinalize, Work, ThreadTypes, MainStates, Steps, Starting, Closing,
           Cleaning, Booting, SessionTypes, Idle, EndReasons
  <2>5. OwnedSessions'
    BY <1>1 DEF Monitor, MayFinalize, Work, Idle, OwnedSessions, DurableTypes, SessionTypes,
           ThreadTypes, MainStates, StopStates, Closing, Seqs
  <2>6. (Ownership /\ OneLiveWorker)'
    BY <1>1 DEF Monitor, MayFinalize, Work, Idle, OwnedSessions, Ownership, OneLiveWorker,
           SessionTypes, ThreadTypes, MainStates, StopStates, Closing, Seqs
  <2> QED BY <2>1, <2>2, <2>3, <2>4, <2>5, <2>6
<1>2. CASE Close
  <2>1. DurableTypes'
    BY <1>2 DEF Close, CloseFailed, ClearWorker, Work, DurableTypes
  <2>2. SessionTypes'
    BY <1>2 DEF Close, CloseFailed, ClearWorker, Work, SessionTypes
  <2>3. PlanTypes'
    BY <1>2 DEF Close, CloseFailed, ClearWorker, Work, PlanTypes
  <2>4. ThreadTypes'
    BY <1>2 DEF Close, CloseFailed, ClearWorker, Work, ThreadTypes, MainStates, Steps, Starting,
           Closing, Cleaning, Booting, Reasons, Idle, EndReasons
  <2>5. OwnedSessions'
    BY <1>2 DEF Close, CloseFailed, ClearWorker, Work, Idle, OwnedSessions, DurableTypes,
           ThreadTypes, MainStates, StopStates, Closing, Seqs
  <2>6. (Ownership /\ OneLiveWorker)'
    <3>1. Ownership'
      <4>1. finalizing /\ meta.pc \in {"idle", "posted"} /\ UNCHANGED meta
        BY <1>2 DEF Close, Ownership, Closing
      <4>2. CASE CloseFailed /\ main' = Idle
        BY <4>1, <4>2 DEF CloseFailed, Idle, Ownership, Closing
      <4>3. CASE ClearWorker /\ UNCHANGED guard /\ Goto("close_baseline")
        <5>1. finalizing' /\ meta'.pc \in {"idle", "posted"} /\ main'.pc = "close_baseline"
          BY <4>1, <4>3 DEF ThreadTypes, MainStates
        <5> QED BY <5>1 DEF Ownership, Closing
      <4>4. ASSUME NEW r \in Reasons(main.seq),
                   ClearWorker /\ UNCHANGED guard /\ Work("end", main.seq, r)
            PROVE  Ownership'
        <5>1. finalizing' /\ meta'.pc \in {"idle", "posted"} /\ main'.pc = "end"
          BY <4>1, <4>4 DEF Work
        <5> QED BY <5>1 DEF Ownership, Closing
      <4> QED BY <4>2, <4>3, <4>4, <1>2 DEF Close
    <3>2. OneLiveWorker'
      BY <1>2 DEF Close, CloseFailed, ClearWorker, Work, Idle, Ownership, OneLiveWorker,
             SessionTypes, ThreadTypes, MainStates, StopStates, Closing, Seqs
    <3> QED BY <3>1, <3>2
  <2> QED BY <2>1, <2>2, <2>3, <2>4, <2>5, <2>6
<1>3. CASE End
  <2>1. DurableTypes'
    <3>1. ends' \in Seq(EndEnvelopes)
      <4>1. [seq |-> main.seq, reason |-> main.reason] \in EndEnvelopes
        BY <1>3 DEF End, EndEnvelopes, OwnedSessions, Closing, ThreadTypes, MainStates
      <4> QED
        BY <4>1, <1>3 DEF End, AppendEnd, DurableTypes
    <3> QED
      BY <3>1, <1>3 DEF End, DurableTypes
  <2>2. SessionTypes'
    BY <1>3 DEF End, SessionTypes
  <2>3. PlanTypes'
    BY <1>3 DEF End, PlanTypes
  <2>4. ThreadTypes'
    BY <1>3 DEF End, ThreadTypes, MainStates, Steps, Starting, Closing, Cleaning, Booting
  <2>5. OwnedSessions'
    BY <1>3 DEF End, OwnedSessions, DurableTypes, ThreadTypes, MainStates, StopStates, Closing,
           Seqs
  <2>6. (Ownership /\ OneLiveWorker)'
    BY <1>3 DEF End, OwnedSessions, Ownership, OneLiveWorker, SessionTypes, ThreadTypes,
           MainStates, StopStates, Closing, Seqs
  <2> QED BY <2>1, <2>2, <2>3, <2>4, <2>5, <2>6
<1>4. CASE Flag
  <2>1. DurableTypes'
    BY <1>4 DEF Flag, DurableTypes
  <2>2. SessionTypes'
    BY <1>4 DEF Flag, SessionTypes
  <2>3. PlanTypes'
    BY <1>4 DEF Flag, PlanTypes, WaitFor, WaitStates, ThreadTypes, MainStates, EndReasons
  <2>4. ThreadTypes'
    BY <1>4 DEF Flag, ThreadTypes, MainStates, Steps, Starting, Closing, Cleaning, Booting
  <2>5. OwnedSessions'
    BY <1>4 DEF Flag, OwnedSessions, DurableTypes, ThreadTypes, MainStates, StopStates, Closing,
           Seqs
  <2>6. (Ownership /\ OneLiveWorker)'
    BY <1>4 DEF Flag, OwnedSessions, Ownership, OneLiveWorker, SessionTypes, ThreadTypes,
           MainStates, StopStates, Closing, Seqs
  <2> QED BY <2>1, <2>2, <2>3, <2>4, <2>5, <2>6
<1>5. CASE CloseBaseline
  <2>1. DurableTypes'
    BY <1>5 DEF CloseBaseline, CaptureBaseline, DurableTypes
  <2>2. SessionTypes'
    BY <1>5 DEF CloseBaseline, CaptureBaseline, SessionTypes
  <2>3. PlanTypes'
    BY <1>5 DEF CloseBaseline, CaptureBaseline, PlanTypes, DurableTypes, WaitStates
  <2>4. ThreadTypes'
    BY <1>5 DEF CloseBaseline, CaptureBaseline, ThreadTypes, MainStates, Steps, Starting,
           Closing, Cleaning, Booting
  <2>5. OwnedSessions'
    BY <1>5 DEF CloseBaseline, CaptureBaseline, OwnedSessions, DurableTypes, ThreadTypes,
           MainStates, StopStates, Closing, Seqs
  <2>6. (Ownership /\ OneLiveWorker)'
    BY <1>5 DEF CloseBaseline, CaptureBaseline, OwnedSessions, Ownership, OneLiveWorker,
           SessionTypes, ThreadTypes, MainStates, StopStates, Closing, Seqs
  <2> QED BY <2>1, <2>2, <2>3, <2>4, <2>5, <2>6
<1>6. CASE Ended
  <2>1. DurableTypes'
    BY <1>6 DEF Ended, DurableTypes, OwnedSessions, Closing
  <2>2. SessionTypes'
    BY <1>6 DEF Ended, SessionTypes
  <2>3. PlanTypes'
    BY <1>6 DEF Ended, PlanTypes
  <2>4. ThreadTypes'
    BY <1>6 DEF Ended, ThreadTypes, MainStates, Steps, Starting, Closing, Cleaning, Booting,
           Idle, EndReasons
  <2>5. OwnedSessions'
    BY <1>6 DEF Ended, Idle, OwnedSessions, DurableTypes, ThreadTypes, MainStates, StopStates,
           Closing, Seqs
  <2>6. (Ownership /\ OneLiveWorker)'
    BY <1>6 DEF Ended, Idle, OwnedSessions, Ownership, OneLiveWorker, SessionTypes, ThreadTypes,
           MainStates, StopStates, Closing, Seqs
  <2> QED BY <2>1, <2>2, <2>3, <2>4, <2>5, <2>6
<1> QED BY <1>1, <1>2, <1>3, <1>4, <1>5, <1>6 DEF Finalize

\* The end of the process takes its sessions and its memory with it.
LEMMA DieKeeps == WorkerInv /\ Die => WorkerInv'
<1> SUFFICES ASSUME WorkerInv, Die PROVE WorkerInv'
  OBVIOUS
<1> USE BoundsAssumption DEF WorkerInv, TypeOK, Die, events, mailbox, Idle, NoStop, None
<1>1. DurableTypes'
  BY DEF DurableTypes
<1>2. SessionTypes' /\ PlanTypes'
  <2>1. SessionTypes'
    BY DEF SessionTypes
  <2>2. PlanTypes'
    <3>1. baseline' \in 0..MaxInstructions
      OBVIOUS
    <3> QED BY <3>1 DEF PlanTypes
  <2> QED BY <2>1, <2>2
<1>3. ThreadTypes'
  BY DEF ThreadTypes, MainStates, StopStates, Steps, Booting, EndReasons
<1>4. (OwnedSessions /\ Ownership /\ OneLiveWorker)'
  BY DEF OwnedSessions, Ownership, OneLiveWorker, Closing
<1> QED BY <1>1, <1>2, <1>3, <1>4

\* Cleanup closes the session of the handle and keeps the handle until the process ends.
LEMMA CleanupKeeps == WorkerInv /\ Cleanup => WorkerInv'
<1> SUFFICES ASSUME WorkerInv, Cleanup PROVE WorkerInv'
  OBVIOUS
<1> USE BoundsAssumption DEF WorkerInv, TypeOK, events, mailbox, worker, plan, guard, Goto, None
<1>1. CASE Wait
  <2>1. DurableTypes'
    BY <1>1 DEF Wait, DurableTypes
  <2>2. SessionTypes'
    BY <1>1 DEF Wait, SessionTypes
  <2>3. PlanTypes'
    BY <1>1 DEF Wait, PlanTypes
  <2>4. ThreadTypes'
    BY <1>1 DEF Wait, ThreadTypes, MainStates, Steps, Starting, Closing, Cleaning, Booting
  <2>5. OwnedSessions'
    BY <1>1 DEF Wait, OwnedSessions, DurableTypes, ThreadTypes, MainStates, StopStates, Closing,
           Seqs
  <2>6. (Ownership /\ OneLiveWorker)'
    BY <1>1 DEF Wait, OwnedSessions, Ownership, OneLiveWorker, SessionTypes, ThreadTypes,
           MainStates, StopStates, Closing, Seqs
  <2> QED BY <2>1, <2>2, <2>3, <2>4, <2>5, <2>6
<1>2. CASE Teardown
  <2>1. DurableTypes'
    BY <1>2 DEF Teardown, DurableTypes
  <2>2. SessionTypes'
    BY <1>2 DEF Teardown, SessionTypes
  <2>3. PlanTypes'
    BY <1>2 DEF Teardown, PlanTypes
  <2>4. ThreadTypes'
    BY <1>2 DEF Teardown, ThreadTypes, MainStates, Steps, Starting, Closing, Cleaning, Booting
  <2>5. OwnedSessions'
    BY <1>2 DEF Teardown, OwnedSessions, DurableTypes, ThreadTypes, MainStates, StopStates,
           Closing, Seqs
  <2>6. (Ownership /\ OneLiveWorker)'
    BY <1>2 DEF Teardown, OwnedSessions, Ownership, OneLiveWorker, SessionTypes, ThreadTypes,
           MainStates, StopStates, Closing, Seqs
  <2> QED BY <2>1, <2>2, <2>3, <2>4, <2>5, <2>6
<1>3. CASE Shutdown
  <2>1. DurableTypes'
    BY <1>3 DEF Shutdown, DurableTypes, SessionTypes
  <2>2. SessionTypes'
    BY <1>3 DEF Shutdown, SessionTypes
  <2>3. PlanTypes'
    BY <1>3 DEF Shutdown, PlanTypes
  <2>4. ThreadTypes'
    BY <1>3 DEF Shutdown, ThreadTypes, MainStates, Steps, Starting, Closing, Cleaning, Booting
  <2>5. OwnedSessions'
    BY <1>3 DEF Shutdown, OwnedSessions, DurableTypes, ThreadTypes, MainStates, StopStates,
           Closing, Seqs
  <2>6. (Ownership /\ OneLiveWorker)'
    BY <1>3 DEF Shutdown, OwnedSessions, Ownership, OneLiveWorker, SessionTypes, ThreadTypes,
           MainStates, StopStates, Closing, Seqs
  <2> QED BY <2>1, <2>2, <2>3, <2>4, <2>5, <2>6
<1>4. CASE Exit
  BY <1>4, DieKeeps DEF Exit
<1> QED BY <1>1, <1>2, <1>3, <1>4 DEF Cleanup

\* Startup recovery works on records and envelopes; it has no session and starts none.
LEMMA RecoverKeeps == WorkerInv /\ (Boot \/ Recover) => WorkerInv'
<1> SUFFICES ASSUME WorkerInv, Boot \/ Recover PROVE WorkerInv'
  OBVIOUS
<1> USE BoundsAssumption DEF WorkerInv, TypeOK, events, mailbox, worker, plan, guard, Goto, None
<1>1. CASE Boot
  <2>1. \/ main' = Idle
        \/ \E pc \in {"synth", "repair", "crash_ended"}, seq \in Seqs, r \in EndReasons :
             main' = [pc |-> pc, seq |-> seq, reason |-> r]
    <3>1. CASE stage = "running" /\ SignalUnanswered
      BY <1>1, <3>1 DEF Boot, Work, SignalUnanswered, DurableTypes, EndReasons
    <3>2. CASE stage = "running" /\ ~SignalUnanswered /\ EndUndecided
      <4>1. LatestEnd \in EndEnvelopes
        BY <3>2 DEF EndUndecided, LatestEnd, DurableTypes
      <4> QED BY <1>1, <3>2, <4>1 DEF Boot, Work, EndEnvelopes
    <3>3. CASE stage = "running" /\ ~SignalUnanswered /\ ~EndUndecided /\ Unmatched # {}
      <4>1. PICK seq \in Newest :
              IF EndOf(seq) = {} THEN Work("crash_ended", seq, "crash")
              ELSE \E e \in EndOf(seq) : Work("repair", seq, e.reason)
        BY <1>1, <3>3 DEF Boot
      <4>2. seq \in Seqs
        BY DEF Newest, Unmatched, DurableTypes
      <4>3. \A e \in EndOf(seq) : e \in EndEnvelopes
        BY DEF EndOf, DurableTypes
      <4> QED BY <4>1, <4>2, <4>3 DEF Work, EndEnvelopes, EndReasons
    <3>4. CASE stage # "running"
                 \/ (~SignalUnanswered /\ ~EndUndecided /\ Unmatched = {})
      BY <1>1, <3>4 DEF Boot
    <3> QED BY <3>1, <3>2, <3>3, <3>4
  <2>2. UNCHANGED <<stage, events, mailbox, worker, plan, guard, meta, decided>>
    BY <1>1 DEF Boot
  <2>3. main.pc = "down"
    BY <1>1 DEF Boot
  <2>4. DurableTypes' /\ SessionTypes' /\ PlanTypes'
    BY <2>2 DEF DurableTypes, SessionTypes, PlanTypes
  <2>5. ThreadTypes'
    BY <2>1, <2>2 DEF ThreadTypes, MainStates, Steps, Booting, Idle, EndReasons
  <2>6. (OwnedSessions /\ Ownership /\ OneLiveWorker)'
    BY <2>1, <2>2 DEF OwnedSessions, Ownership, OneLiveWorker, Idle, Closing
  <2> QED BY <2>4, <2>5, <2>6
<1>2. CASE Synthesize
  <2>1. DurableTypes'
    <3>1. ends' \in Seq(EndEnvelopes)
      <4>1. [seq |-> main.seq, reason |-> "active"] \in EndEnvelopes
        BY <1>2 DEF Synthesize, EndEnvelopes, EndReasons, OwnedSessions
      <4> QED
        BY <4>1, <1>2 DEF Synthesize, AppendEnd, DurableTypes
    <3> QED
      BY <3>1, <1>2 DEF Synthesize, DurableTypes
  <2>2. SessionTypes'
    BY <1>2 DEF Synthesize, SessionTypes
  <2>3. PlanTypes'
    BY <1>2 DEF Synthesize, PlanTypes
  <2>4. ThreadTypes'
    BY <1>2 DEF Synthesize, ThreadTypes, MainStates, Steps, Starting, Closing, Cleaning, Booting
  <2>5. OwnedSessions'
    BY <1>2 DEF Synthesize, OwnedSessions, DurableTypes, ThreadTypes, MainStates, StopStates,
           Closing, Seqs
  <2>6. (Ownership /\ OneLiveWorker)'
    BY <1>2 DEF Synthesize, OwnedSessions, Ownership, OneLiveWorker, SessionTypes, ThreadTypes,
           MainStates, StopStates, Closing, Seqs
  <2> QED BY <2>1, <2>2, <2>3, <2>4, <2>5, <2>6
<1>3. CASE RepairEnd
  <2>1. DurableTypes'
    BY <1>3 DEF RepairEnd, PairedEnded, Restore, DurableTypes, OwnedSessions
  <2>2. SessionTypes'
    BY <1>3 DEF RepairEnd, PairedEnded, Restore, SessionTypes, OwnedSessions
  <2>3. PlanTypes'
    BY <1>3 DEF RepairEnd, PairedEnded, Restore, PlanTypes, WaitFor, WaitStates, ThreadTypes,
           MainStates, EndReasons
  <2>4. ThreadTypes'
    BY <1>3 DEF RepairEnd, PairedEnded, Restore, ThreadTypes, MainStates, Steps, Starting,
           Closing, Cleaning, Booting, Idle, EndReasons
  <2>5. OwnedSessions'
    BY <1>3 DEF RepairEnd, PairedEnded, Restore, Idle, OwnedSessions, DurableTypes, ThreadTypes,
           MainStates, StopStates, Closing, Seqs
  <2>6. (Ownership /\ OneLiveWorker)'
    BY <1>3 DEF RepairEnd, PairedEnded, Restore, Idle, OwnedSessions, Ownership, OneLiveWorker,
           SessionTypes, ThreadTypes, MainStates, StopStates, Closing, Seqs
  <2> QED BY <2>1, <2>2, <2>3, <2>4, <2>5, <2>6
<1>4. CASE RepairWithoutEnd
  <2>1. DurableTypes'
    BY <1>4 DEF RepairWithoutEnd, PairedEnded, DurableTypes, OwnedSessions
  <2>2. SessionTypes'
    BY <1>4 DEF RepairWithoutEnd, PairedEnded, SessionTypes
  <2>3. PlanTypes'
    BY <1>4 DEF RepairWithoutEnd, PairedEnded, PlanTypes
  <2>4. ThreadTypes'
    BY <1>4 DEF RepairWithoutEnd, PairedEnded, ThreadTypes, MainStates, Steps, Starting,
           Closing, Cleaning, Booting, Idle, EndReasons
  <2>5. OwnedSessions'
    BY <1>4 DEF RepairWithoutEnd, PairedEnded, Idle, OwnedSessions, DurableTypes, ThreadTypes,
           MainStates, StopStates, Closing, Seqs
  <2>6. (Ownership /\ OneLiveWorker)'
    BY <1>4 DEF RepairWithoutEnd, PairedEnded, Idle, OwnedSessions, Ownership, OneLiveWorker,
           SessionTypes, ThreadTypes, MainStates, StopStates, Closing, Seqs
  <2> QED BY <2>1, <2>2, <2>3, <2>4, <2>5, <2>6
<1>5. CASE CrashEnded
  <2>1. DurableTypes'
    BY <1>5 DEF CrashEnded, PairedEnded, DurableTypes, OwnedSessions
  <2>2. SessionTypes'
    BY <1>5 DEF CrashEnded, PairedEnded, SessionTypes
  <2>3. PlanTypes'
    BY <1>5 DEF CrashEnded, PairedEnded, PlanTypes
  <2>4. ThreadTypes'
    BY <1>5 DEF CrashEnded, PairedEnded, ThreadTypes, MainStates, Steps, Starting, Closing,
           Cleaning, Booting
  <2>5. OwnedSessions'
    BY <1>5 DEF CrashEnded, PairedEnded, OwnedSessions, DurableTypes, ThreadTypes, MainStates,
           StopStates, Closing, Seqs
  <2>6. (Ownership /\ OneLiveWorker)'
    BY <1>5 DEF CrashEnded, PairedEnded, OwnedSessions, Ownership, OneLiveWorker, SessionTypes,
           ThreadTypes, MainStates, StopStates, Closing, Seqs
  <2> QED BY <2>1, <2>2, <2>3, <2>4, <2>5, <2>6
<1>6. CASE CrashEnd
  <2>1. DurableTypes'
    <3>1. ends' \in Seq(EndEnvelopes)
      <4>1. [seq |-> main.seq, reason |-> "crash"] \in EndEnvelopes
        BY <1>6 DEF CrashEnd, EndEnvelopes, EndReasons, OwnedSessions
      <4> QED
        BY <4>1, <1>6 DEF CrashEnd, Restore, AppendEnd, DurableTypes
    <3> QED
      BY <3>1, <1>6 DEF CrashEnd, Restore, DurableTypes
  <2>2. SessionTypes'
    BY <1>6 DEF CrashEnd, Restore, SessionTypes, OwnedSessions
  <2>3. PlanTypes'
    BY <1>6 DEF CrashEnd, Restore, PlanTypes, WaitStates
  <2>4. ThreadTypes'
    BY <1>6 DEF CrashEnd, Restore, ThreadTypes, MainStates, Steps, Starting, Closing, Cleaning,
           Booting, Idle, EndReasons
  <2>5. OwnedSessions'
    BY <1>6 DEF CrashEnd, Restore, Idle, OwnedSessions, DurableTypes, ThreadTypes, MainStates,
           StopStates, Closing, Seqs
  <2>6. (Ownership /\ OneLiveWorker)'
    BY <1>6 DEF CrashEnd, Restore, Idle, OwnedSessions, Ownership, OneLiveWorker, SessionTypes,
           ThreadTypes, MainStates, StopStates, Closing, Seqs
  <2> QED BY <2>1, <2>2, <2>3, <2>4, <2>5, <2>6
<1> QED BY <1>1, <1>2, <1>3, <1>4, <1>5, <1>6 DEF Recover

\* A stop that finds no worker settles flags and leaves every session alone.
LEMMA WithoutWorkerKeeps ==
  ASSUME WorkerInv, NEW how \in {"stop", "restart", "interrupt"}, StopWithoutWorker(how)
  PROVE  WorkerInv'
<1> USE BoundsAssumption DEF WorkerInv, TypeOK, events, mailbox, worker, plan, guard, Goto, None
<1>1. DurableTypes'
  BY DEF StopWithoutWorker, StopCalled, Dispatch, NoStop, DurableTypes
<1>2. SessionTypes'
  BY DEF StopWithoutWorker, StopCalled, Dispatch, NoStop, SessionTypes
<1>3. PlanTypes'
  BY DEF StopWithoutWorker, StopCalled, Dispatch, NoStop, PlanTypes, WaitStates
<1>4. ThreadTypes'
  BY DEF StopWithoutWorker, NoStop, ThreadTypes, StopStates
<1>5. OwnedSessions'
  BY DEF StopWithoutWorker, StopCalled, Dispatch, NoStop, OwnedSessions, DurableTypes, ThreadTypes,
         MainStates, StopStates, Closing, Seqs
<1>6. (Ownership /\ OneLiveWorker)'
  BY DEF StopWithoutWorker, StopCalled, Dispatch, NoStop, OwnedSessions, Ownership, OneLiveWorker,
         SessionTypes, ThreadTypes, MainStates, StopStates, Closing, Seqs
<1> QED BY <1>1, <1>2, <1>3, <1>4, <1>5, <1>6

\* A stop begins with a free guard, and takes it for the session the host holds.
LEMMA BeginKeeps ==
  ASSUME WorkerInv, NEW how \in {"stop", "restart", "interrupt"}, StopBegin(how)
  PROVE  WorkerInv'
<1> USE BoundsAssumption DEF WorkerInv, TypeOK, events, mailbox, worker, plan, guard, Goto, None
<1>1. DurableTypes'
  BY DEF StopBegin, StopCalled, Dispatch, NoStop, HasActiveWorker, MetaFree, DurableTypes
<1>2. SessionTypes'
  BY DEF StopBegin, StopCalled, Dispatch, NoStop, HasActiveWorker, MetaFree, SessionTypes
<1>3. PlanTypes'
  BY DEF StopBegin, StopCalled, Dispatch, NoStop, HasActiveWorker, MetaFree, PlanTypes
<1>4. ThreadTypes'
  BY DEF StopBegin, StopCalled, Dispatch, NoStop, HasActiveWorker, MetaFree, ThreadTypes, SessionTypes,
         PlanTypes, StopStates
<1>5. OwnedSessions'
  BY DEF StopBegin, StopCalled, Dispatch, NoStop, HasActiveWorker, MetaFree, OwnedSessions, DurableTypes,
         SessionTypes, ThreadTypes, MainStates, StopStates, Closing, Seqs
<1>6. (Ownership /\ OneLiveWorker)'
  BY DEF StopBegin, StopCalled, Dispatch, NoStop, HasActiveWorker, MetaFree, OwnedSessions, Ownership,
         OneLiveWorker, SessionTypes, ThreadTypes, MainStates, StopStates, Closing, Seqs
<1> QED BY <1>1, <1>2, <1>3, <1>4, <1>5, <1>6

\* A stop in flight owns the closing until its last step, unless cleanup took over: then it
\* leaves the handle alone.
LEMMA StopKeeps == WorkerInv /\ StopStep => WorkerInv'
<1> SUFFICES ASSUME WorkerInv, StopStep PROVE WorkerInv'
  OBVIOUS
<1> USE BoundsAssumption DEF WorkerInv, TypeOK, events, mailbox, worker, plan, guard, Goto, None
<1>1. CASE StopClose
  <2>1. DurableTypes'
    BY <1>1 DEF StopClose, CloseFailed, ClearWorker, MetaGoto, Released, NoStop, DurableTypes
  <2>2. SessionTypes'
    BY <1>1 DEF StopClose, CloseFailed, ClearWorker, MetaGoto, Released, NoStop, SessionTypes
  <2>3. PlanTypes'
    BY <1>1 DEF StopClose, CloseFailed, ClearWorker, MetaGoto, Released, NoStop, PlanTypes,
           WaitStates
  <2>4. ThreadTypes'
    BY <1>1 DEF StopClose, CloseFailed, ClearWorker, MetaGoto, Released, NoStop, ThreadTypes,
           StopStates
  <2>5. OwnedSessions'
    BY <1>1 DEF StopClose, CloseFailed, ClearWorker, MetaGoto, Released, NoStop, OwnedSessions,
           DurableTypes, ThreadTypes, MainStates, StopStates, Closing, Seqs
  <2>6. (Ownership /\ OneLiveWorker)'
    <3>1. Ownership'
      <4>1. handle = meta.seq /\ finalizing /\ main.pc \notin Closing /\ UNCHANGED main
        BY <1>1 DEF StopClose, Ownership
      <4>2. main.pc # "close"
        BY <4>1 DEF Closing
      <4>3. CASE CloseFailed /\ meta' = NoStop
        BY <4>1, <4>2, <4>3 DEF CloseFailed, NoStop, Ownership
      <4>4. CASE Released /\ UNCHANGED handle
        BY <4>1, <4>2, <4>4 DEF Released, NoStop, Ownership
      <4>5. CASE ClearWorker /\ MetaGoto("end") /\ UNCHANGED guard
        <5>1. handle' = None /\ finalizing' /\ meta'.pc = "end"
          BY <4>1, <4>5 DEF ClearWorker, MetaGoto, ThreadTypes, StopStates
        <5> QED BY <4>1, <4>2, <5>1 DEF Ownership
      <4> QED BY <4>3, <4>4, <4>5, <1>1 DEF StopClose
    <3>2. OneLiveWorker'
      BY <1>1 DEF StopClose, CloseFailed, ClearWorker, MetaGoto, Released, NoStop, Ownership,
             OneLiveWorker, SessionTypes, ThreadTypes, MainStates, StopStates, Closing, Seqs
    <3> QED BY <3>1, <3>2
  <2> QED BY <2>1, <2>2, <2>3, <2>4, <2>5, <2>6
<1>2. CASE StopEnd
  <2>1. DurableTypes'
    <3>1. ends' \in Seq(EndEnvelopes)
      <4>1. [seq |-> meta.seq, reason |-> IF meta.how = "interrupt" THEN "interrupt" ELSE "stop"] \in EndEnvelopes
        BY <1>2 DEF StopEnd, EndEnvelopes, EndReasons, OwnedSessions
      <4> QED
        BY <4>1, <1>2 DEF StopEnd, MetaGoto, AppendEnd, DurableTypes
    <3> QED
      BY <3>1, <1>2 DEF StopEnd, MetaGoto, DurableTypes
  <2>2. SessionTypes'
    BY <1>2 DEF StopEnd, MetaGoto, SessionTypes
  <2>3. PlanTypes'
    BY <1>2 DEF StopEnd, MetaGoto, PlanTypes
  <2>4. ThreadTypes'
    BY <1>2 DEF StopEnd, MetaGoto, ThreadTypes, StopStates
  <2>5. OwnedSessions'
    BY <1>2 DEF StopEnd, MetaGoto, OwnedSessions, DurableTypes, ThreadTypes, MainStates,
           StopStates, Closing, Seqs
  <2>6. (Ownership /\ OneLiveWorker)'
    BY <1>2 DEF StopEnd, MetaGoto, OwnedSessions, Ownership, OneLiveWorker, SessionTypes,
           ThreadTypes, MainStates, StopStates, Closing, Seqs
  <2> QED BY <2>1, <2>2, <2>3, <2>4, <2>5, <2>6
<1>3. CASE StopEnded
  <2>1. DurableTypes'
    BY <1>3 DEF StopEnded, MetaGoto, DurableTypes, OwnedSessions
  <2>2. SessionTypes'
    BY <1>3 DEF StopEnded, MetaGoto, SessionTypes
  <2>3. PlanTypes'
    BY <1>3 DEF StopEnded, MetaGoto, PlanTypes
  <2>4. ThreadTypes'
    BY <1>3 DEF StopEnded, MetaGoto, ThreadTypes, StopStates
  <2>5. OwnedSessions'
    BY <1>3 DEF StopEnded, MetaGoto, OwnedSessions, DurableTypes, ThreadTypes, MainStates,
           StopStates, Closing, Seqs
  <2>6. (Ownership /\ OneLiveWorker)'
    BY <1>3 DEF StopEnded, MetaGoto, OwnedSessions, Ownership, OneLiveWorker, SessionTypes,
           ThreadTypes, MainStates, StopStates, Closing, Seqs
  <2> QED BY <2>1, <2>2, <2>3, <2>4, <2>5, <2>6
<1>4. CASE StopFlags
  <2>1. DurableTypes'
    BY <1>4 DEF StopFlags, Released, NoStop, DurableTypes
  <2>2. SessionTypes'
    BY <1>4 DEF StopFlags, Released, NoStop, SessionTypes
  <2>3. PlanTypes'
    BY <1>4 DEF StopFlags, Released, NoStop, PlanTypes, WaitStates, ThreadTypes, StopStates
  <2>4. ThreadTypes'
    BY <1>4 DEF StopFlags, Released, NoStop, ThreadTypes, StopStates
  <2>5. OwnedSessions'
    BY <1>4 DEF StopFlags, Released, NoStop, OwnedSessions, DurableTypes, ThreadTypes,
           MainStates, StopStates, Closing, Seqs
  <2>6. (Ownership /\ OneLiveWorker)'
    BY <1>4 DEF StopFlags, Released, NoStop, OwnedSessions, Ownership, OneLiveWorker,
           SessionTypes, ThreadTypes, MainStates, StopStates, Closing, Seqs
  <2> QED BY <2>1, <2>2, <2>3, <2>4, <2>5, <2>6
<1>5. CASE InterruptDropped
  <2>1. DurableTypes'
    BY <1>5 DEF InterruptDropped, StopCalled, NoStop, DurableTypes
  <2>2. SessionTypes'
    BY <1>5 DEF InterruptDropped, StopCalled, NoStop, SessionTypes
  <2>3. PlanTypes'
    BY <1>5 DEF InterruptDropped, StopCalled, NoStop, PlanTypes
  <2>4. ThreadTypes'
    BY <1>5 DEF InterruptDropped, StopCalled, NoStop, ThreadTypes, StopStates, SessionTypes
  <2>5. OwnedSessions'
    BY <1>5 DEF InterruptDropped, StopCalled, NoStop, OwnedSessions, DurableTypes, SessionTypes, ThreadTypes,
       MainStates,
           StopStates, Closing, Seqs
  <2>6. (Ownership /\ OneLiveWorker)'
    BY <1>5 DEF InterruptDropped, StopCalled, NoStop, OwnedSessions, Ownership, OneLiveWorker, SessionTypes,
       ThreadTypes,
           MainStates, StopStates, Closing, Seqs
  <2> QED BY <2>1, <2>2, <2>3, <2>4, <2>5, <2>6
<1> QED
  BY <1>1, <1>2, <1>3, <1>4, <1>5, WithoutWorkerKeeps, BeginKeeps DEF StopStep

\* What a tool call of Meta's does at once: it settles flags, or takes a free guard.
LEMMA CallKeeps == WorkerInv /\ MetaCall => WorkerInv'
<1> SUFFICES ASSUME WorkerInv, MetaCall PROVE WorkerInv'
  OBVIOUS
<1> USE BoundsAssumption DEF WorkerInv, TypeOK, events, mailbox, worker, plan, guard, Goto, None
<1>1. CASE MetaStart
  <2>1. DurableTypes'
    BY <1>1 DEF MetaStart, StartWanted, DurableTypes
  <2>2. SessionTypes'
    BY <1>1 DEF MetaStart, StartWanted, SessionTypes
  <2>3. PlanTypes'
    BY <1>1 DEF MetaStart, StartWanted, PlanTypes
  <2>4. ThreadTypes'
    BY <1>1 DEF MetaStart, StartWanted, ThreadTypes
  <2>5. OwnedSessions'
    BY <1>1 DEF MetaStart, StartWanted, OwnedSessions, DurableTypes, ThreadTypes, MainStates,
           StopStates, Closing, Seqs
  <2>6. (Ownership /\ OneLiveWorker)'
    BY <1>1 DEF MetaStart, StartWanted, OwnedSessions, Ownership, OneLiveWorker, SessionTypes,
           ThreadTypes, MainStates, StopStates, Closing, Seqs
  <2> QED BY <2>1, <2>2, <2>3, <2>4, <2>5, <2>6
<1>2. CASE MetaSend
  <2>1. DurableTypes'
    BY <1>2 DEF MetaSend, DurableTypes
  <2>2. SessionTypes'
    BY <1>2 DEF MetaSend, SessionTypes
  <2>3. PlanTypes'
    BY <1>2 DEF MetaSend, PlanTypes
  <2>4. ThreadTypes'
    BY <1>2 DEF MetaSend, ThreadTypes
  <2>5. OwnedSessions'
    BY <1>2 DEF MetaSend, OwnedSessions, DurableTypes, ThreadTypes, MainStates, StopStates,
           Closing, Seqs
  <2>6. (Ownership /\ OneLiveWorker)'
    BY <1>2 DEF MetaSend, OwnedSessions, Ownership, OneLiveWorker, SessionTypes, ThreadTypes,
           MainStates, StopStates, Closing, Seqs
  <2> QED BY <2>1, <2>2, <2>3, <2>4, <2>5, <2>6
<1>3. CASE Interrupt
  <2>1. DurableTypes'
    BY <1>3 DEF Interrupt, MetaFree, HasActiveWorker, NoStop, DurableTypes
  <2>2. SessionTypes'
    BY <1>3 DEF Interrupt, MetaFree, HasActiveWorker, NoStop, SessionTypes
  <2>3. PlanTypes'
    BY <1>3 DEF Interrupt, MetaFree, HasActiveWorker, NoStop, PlanTypes
  <2>4. ThreadTypes'
    BY <1>3 DEF Interrupt, MetaFree, HasActiveWorker, NoStop, ThreadTypes, StopStates, SessionTypes
  <2>5. OwnedSessions'
    BY <1>3 DEF Interrupt, MetaFree, HasActiveWorker, NoStop, OwnedSessions, DurableTypes, SessionTypes, ThreadTypes,
       MainStates,
           StopStates, Closing, Seqs
  <2>6. (Ownership /\ OneLiveWorker)'
    BY <1>3 DEF Interrupt, MetaFree, HasActiveWorker, NoStop, OwnedSessions, Ownership, OneLiveWorker, SessionTypes,
       ThreadTypes,
           MainStates, StopStates, Closing, Seqs
  <2> QED BY <2>1, <2>2, <2>3, <2>4, <2>5, <2>6
<1> QED
  BY <1>1, <1>2, <1>3, WithoutWorkerKeeps, BeginKeeps DEF MetaCall

\* What the worker does on its own, and what moves the stage, leaves every session alone.
LEMMA OthersKeep == WorkerInv /\ (Worker \/ StageMoved) => WorkerInv'
<1> SUFFICES ASSUME WorkerInv, Worker \/ StageMoved PROVE WorkerInv'
  OBVIOUS
<1> USE DEF WorkerInv, TypeOK, events, mailbox, worker, plan, guard
<1>1. DurableTypes'
  <2>1. CASE WorkerSignals
    BY <2>1 DEF WorkerSignals, DurableTypes, SessionTypes
  <2>2. CASE WorkerReads
    BY <2>2, BoundsAssumption DEF WorkerReads, DurableTypes
  <2>3. CASE WorkerTurnEnds
    BY <2>3 DEF WorkerTurnEnds, DurableTypes
  <2>4. CASE StageMoved
    BY <2>4, StagesAssumption DEF StageMoved, DurableTypes
  <2> QED BY <2>1, <2>2, <2>3, <2>4 DEF Worker
<1> USE DEF Worker, WorkerSignals, WorkerReads, WorkerTurnEnds, StageMoved
<1>2. SessionTypes' /\ PlanTypes' /\ ThreadTypes'
  BY DEF SessionTypes, PlanTypes, ThreadTypes
<1>3. (OwnedSessions /\ Ownership /\ OneLiveWorker)'
  BY DEF OwnedSessions, Ownership, OneLiveWorker
<1> QED BY <1>1, <1>2, <1>3

-----------------------------------------------------------------------------
\* No step breaks the invariant.
LEMMA WorkerStepKeeps == WorkerInv /\ [Next]_vars => WorkerInv'
<1> SUFFICES ASSUME WorkerInv, [Next]_vars PROVE WorkerInv'
  OBVIOUS
<1>1. CASE Main
  BY <1>1, TickKeeps, StartKeeps, FinalizeKeeps, CleanupKeeps, RecoverKeeps DEF Main
<1>2. CASE Boot
  BY <1>2, RecoverKeeps
<1>3. CASE Crash
  BY <1>3, DieKeeps DEF Crash
<1>4. CASE StopStep
  BY <1>4, StopKeeps
<1>5. CASE MetaCall
  BY <1>5, CallKeeps
<1>6. CASE Worker \/ StageMoved
  BY <1>6, OthersKeep
<1>7. CASE UNCHANGED vars
  BY <1>7 DEF vars, events, mailbox, worker, plan, guard, WorkerInv, TypeOK,
              DurableTypes, SessionTypes, PlanTypes, ThreadTypes, OwnedSessions, Ownership, OneLiveWorker
<1> QED BY <1>1, <1>2, <1>3, <1>4, <1>5, <1>6, <1>7 DEF Next

\* Every reachable state is well typed, has one owner of the closing at most, and one
\* worker at most, whatever crashes, fails or is taken over.
THEOREM WorkerInvariant == Spec => []WorkerInv
BY InitialWorkerInv, WorkerStepKeeps, PTL DEF Spec

\* TypeOK holds for every value of the constants.
THEOREM WorkerTypeCorrect == Spec => []TypeOK
<1>1. WorkerInv => TypeOK
  BY DEF WorkerInv
<1> QED BY <1>1, WorkerInvariant, PTL

\* Two workers never run at once: the only session whose process runs is the one the host
\* holds (finalizeWorker, stopWorker and cleanupAndExit under workerFinalizing).
THEOREM OneWorker == Spec => []OneLiveWorker
<1>1. WorkerInv => OneLiveWorker
  BY DEF WorkerInv
<1> QED BY <1>1, WorkerInvariant, PTL

-----------------------------------------------------------------------------
\* The guard on its own: each step that takes it is the first of a closing, and each step
\* that leaves a closing gives it back; the cleanup keeps it until the process ends.
LEMMA GuardStepKeeps == WorkerInv /\ GuardHasOwner /\ [Next]_vars => GuardHasOwner'
<1> SUFFICES ASSUME WorkerInv, GuardHasOwner, [Next]_vars PROVE GuardHasOwner'
  OBVIOUS
<1> USE DEF GuardHasOwner, events, mailbox, worker, plan, guard, Goto, Work, Idle, NoStop,
            Starting, Closing, Cleaning, Booting
<1>1. CASE Tick \/ Boot \/ Start \/ Recover
  BY <1>1 DEF Tick, Start, Recover, TickBegin, Check, StartWanted, Reconcile, Boot, Allocate, Record,
              StartSession, StartFailed, TakeBaseline, CaptureBaseline, Inject, Synthesize, RepairEnd,
              RepairWithoutEnd, CrashEnded, CrashEnd, PairedEnded, Restore
<1>2. CASE Finalize
  <2>1. main = [main EXCEPT !.pc = main.pc] /\ main \in MainStates
    BY DEF WorkerInv, TypeOK, ThreadTypes, MainStates
  <2>2. CASE Monitor
    <3>1. CASE main' = [pc |-> "close", seq |-> handle, reason |-> main.reason]
      BY <3>1
    <3>2. CASE main' = Idle /\ finalizing' = finalizing
      <4>1. main.pc = "monitor" /\ meta' = meta
        BY <2>2 DEF Monitor
      <4> QED BY <3>2, <4>1
    <3> QED BY <2>2, <3>1, <3>2 DEF Monitor
  <2>3. CASE Close
    <3>1. CASE main' = Idle
      BY <2>3, <3>1 DEF Close, CloseFailed
    <3>2. CASE main' = [main EXCEPT !.pc = "close_baseline"]
      BY <2>1, <3>2 DEF MainStates
    <3>3. ASSUME NEW r, main' = [pc |-> "end", seq |-> main.seq, reason |-> r]
          PROVE  GuardHasOwner'
      BY <3>3
    <3> QED BY <2>3, <3>1, <3>2, <3>3 DEF Close
  <2>4. CASE End \/ Flag \/ CloseBaseline
    BY <2>1, <2>4 DEF End, Flag, CloseBaseline, CaptureBaseline, MainStates
  <2>5. CASE Ended
    BY <2>5 DEF Ended
  <2> QED BY <1>2, <2>2, <2>3, <2>4, <2>5 DEF Finalize
<1>3. CASE Cleanup \/ Crash
  BY <1>3 DEF Cleanup, Wait, Teardown, Shutdown, Exit, Crash, Die, WorkerInv, TypeOK, ThreadTypes,
              MainStates
<1>4. CASE StopStep
  <2>1. CASE InterruptDropped
    BY <1>4, <2>1 DEF InterruptDropped, StopCalled
  <2>2. CASE StopWithoutWorker("interrupt")
    BY <1>4, <2>2 DEF StopWithoutWorker
  <2>3. CASE StopBegin("interrupt")
    BY <1>4, <2>3 DEF StopBegin
  <2>4. CASE StopClose \/ StopEnd \/ StopEnded \/ StopFlags
    BY <1>4, <2>4 DEF StopClose, CloseFailed, ClearWorker, StopEnd, StopEnded, StopFlags, Released,
                      MetaGoto, Fenced, WorkerInv, TypeOK, ThreadTypes, StopStates
  <2> QED BY <1>4, <2>1, <2>2, <2>3, <2>4 DEF StopStep
<1>5. CASE MetaCall
  <2>1. CASE MetaStart \/ MetaSend
    BY <2>1 DEF MetaStart, MetaSend
  <2>2. CASE Interrupt
    BY <2>2 DEF Interrupt, MetaFree
  <2>3. ASSUME NEW how, StopWithoutWorker(how) PROVE GuardHasOwner'
    BY <2>3 DEF StopWithoutWorker
  <2>4. ASSUME NEW how, StopBegin(how) PROVE GuardHasOwner'
    BY <2>4 DEF StopBegin
  <2> QED BY <1>5, <2>1, <2>2, <2>3, <2>4 DEF MetaCall
<1>6. CASE Worker \/ StageMoved \/ UNCHANGED vars
  BY <1>6 DEF Worker, WorkerSignals, WorkerReads, WorkerTurnEnds, StageMoved, vars
<1> QED BY <1>1, <1>2, <1>3, <1>4, <1>5, <1>6 DEF Next, Main

\* The guard is never left behind: a worker whose turn ends can always be closed out by the
\* next tick, unless somebody is at it already (workerFinalizing, daemon.ts:1897).
THEOREM GuardIsOwned == Spec => []GuardHasOwner
<1>1. Init => GuardHasOwner
  BY DEF Init, GuardHasOwner
<1> QED BY <1>1, WorkerInvariant, GuardStepKeeps, PTL DEF Spec

-----------------------------------------------------------------------------
\* A declared exit that has no worker_session_end yet: who holds its session, or is about to
\* append the envelope, or will look at the signal when the next host comes up.
Answered == \E i \in DOMAIN ends : ends[i].seq >= signal
Ending(thread) == thread.pc = "end" /\ thread.seq = signal
SignalInv ==
  /\ stage # "away" /\ main.pc # "unrepaired"
  /\ injectFailed => turnEnded /\ (handle = None \/ signal # handle)
  /\ signal <= allocated /\ handle <= allocated
  /\ main.pc \in {"record", "session", "inject"} => signal < main.seq /\ main.seq <= allocated
  /\ main.pc = "inject" => handle \in {None, main.seq}
  /\ main.pc \in {"repair", "crash_ended", "crash_end"} => signal = None \/ Answered
  /\ main.pc = "synth" => main.seq = signal
  /\ main.pc \in Booting => handle = None
  /\ HostUp /\ main.pc \notin Cleaning /\ signal # None =>
       Answered \/ signal = handle \/ Ending(main) \/ Ending(meta)

\* Envelopes are only appended.
LEMMA AnswerStays ==
  ASSUME ends \in Seq(EndEnvelopes), NEW e \in EndEnvelopes, signal \in Nat
  PROVE  /\ ends' = Append(ends, e) /\ signal' = signal /\ Answered => Answered'
         /\ ends' = Append(ends, e) /\ signal' = signal /\ e.seq >= signal => Answered'
         /\ ends' = ends /\ signal' = signal => (Answered' <=> Answered)
<1>1. ASSUME ends' = Append(ends, e)
      PROVE  /\ DOMAIN ends' = DOMAIN ends \cup {Len(ends) + 1} /\ ends'[Len(ends) + 1] = e
             /\ \A i \in DOMAIN ends : ends'[i] = ends[i]
  BY <1>1
<1> QED BY <1>1 DEF Answered

LEMMA SignalStepKeeps ==
  ASSUME "mail" \notin Faults, "repair" \notin Faults, "away" \notin StageMoves,
         WorkerInv, SignalInv, [Next]_vars
  PROVE  SignalInv'
<1>0. /\ main \in MainStates /\ meta \in StopStates /\ ends \in Seq(EndEnvelopes) /\ signal \in {None} \cup Seqs
      /\ handle \in {None} \cup Seqs /\ signal \in Nat
  BY DEF WorkerInv, TypeOK, ThreadTypes, DurableTypes, SessionTypes, None, Seqs
<1>1. ASSUME ends' = ends, signal' = signal PROVE Answered' <=> Answered
  BY <1>1 DEF Answered
<1>00. /\ allocated \in Nat /\ main.seq \in Nat /\ handle \in Nat
       /\ main.pc = "allocate" => allocated < MaxSessions
  BY BoundsAssumption DEF WorkerInv, TypeOK, ThreadTypes, DurableTypes, SessionTypes, MainStates, None, Seqs,
     OwnedSessions
<1> USE DEF SignalInv, events, mailbox, worker, plan, guard, Goto, Work, Idle, NoStop, HostUp, Ending,
            Starting, Closing, Cleaning, Booting, None
<1>2. CASE Tick \/ Start
  <2>1. UNCHANGED <<stage, ends, signal, meta>>
    BY <1>2 DEF Tick, Start, TickBegin, Check, Reconcile, Allocate, Record, StartSession, StartFailed, TakeBaseline,
       Inject
  <2>2. CASE Tick
    BY <1>0, <1>00, <1>1, <2>1, <2>2 DEF Tick, TickBegin, Check, Reconcile, MainStates
  <2>3. CASE StartSession
    BY <1>0, <1>00, <1>1, <2>1, <2>3 DEF StartSession, MainStates, WorkerInv, Ownership, OwnedSessions
  <2>4. CASE Inject
    BY <1>0, <1>00, <1>1, <2>1, <2>4 DEF Inject, MainStates
  <2>5. CASE Allocate \/ Record \/ StartFailed \/ TakeBaseline
    BY <1>0, <1>00, <1>1, <2>1, <2>5 DEF Allocate, Record, StartFailed, TakeBaseline, MainStates
  <2> QED BY <1>2, <2>2, <2>3, <2>4, <2>5 DEF Start
<1>3. CASE Finalize
  <2>1. CASE Monitor
    BY <1>0, <1>00, <1>1, <2>1 DEF Monitor, MayFinalize, MainStates
  <2>2. CASE Close
    <3>1. /\ main.pc = "close" /\ handle = main.seq
          /\ UNCHANGED <<stage, ends, signal, allocated, meta>>
      BY <2>2 DEF Close, WorkerInv, Ownership
    <3>2. CASE CloseFailed /\ main' = Idle
      BY <1>0, <1>00, <1>1, <3>1, <3>2 DEF CloseFailed
    <3>3. CASE ClearWorker /\ injectFailed /\ Goto("close_baseline")
      BY <1>0, <1>00, <1>1, <3>1, <3>3 DEF ClearWorker, MainStates
    <3>4. ASSUME NEW r, ClearWorker, Work("end", main.seq, r) PROVE SignalInv'
      BY <1>0, <1>00, <1>1, <3>1, <3>4 DEF ClearWorker
    <3> QED BY <2>2, <3>2, <3>3, <3>4 DEF Close
  <2>3. CASE End
    <3>1. /\ main.pc = "end" /\ Goto("flag") /\ AppendEnd(main.seq, main.reason)
          /\ UNCHANGED <<stage, signal, allocated, handle, turnEnded, injectFailed, meta>>
      BY <2>3 DEF End
    <3>2. [seq |-> main.seq, reason |-> main.reason] \in EndEnvelopes
      BY <1>0, <3>1 DEF EndEnvelopes, MainStates, WorkerInv, OwnedSessions
    <3>3. (Answered \/ signal = main.seq) => Answered'
      BY <1>0, <1>00, <3>1, <3>2, AnswerStays DEF AppendEnd
    <3>4. main'.pc = "flag"
      BY <1>0, <3>1 DEF MainStates
    <3> QED BY <1>00, <3>1, <3>3, <3>4
  <2>4. CASE Flag \/ CloseBaseline \/ Ended
    BY <1>0, <1>00, <1>1, <2>4 DEF Flag, CloseBaseline, Ended, CaptureBaseline, MainStates
  <2> QED BY <1>3, <2>1, <2>2, <2>3, <2>4 DEF Finalize
<1>4. CASE Cleanup \/ Crash
  <2>1. CASE Wait \/ Teardown \/ Shutdown
    BY <1>0, <1>00, <1>1, <2>1 DEF Wait, Teardown, Shutdown, MainStates
  <2>2. CASE Die
    BY <1>00, <2>2 DEF Die
  <2> QED BY <1>4, <2>1, <2>2 DEF Cleanup, Exit, Crash
<1>5. CASE Boot
  <2>1. /\ main.pc = "down" /\ stage = "running"
        /\ UNCHANGED <<stage, ends, signal, allocated, handle, turnEnded, injectFailed, meta>>
    BY <1>0, <1>5 DEF Boot, WorkerInv, TypeOK, DurableTypes
  <2>2. ~SignalUnanswered => signal = None \/ Answered
    <3> SUFFICES ASSUME ends # <<>>, ~(signal > LatestEnd.seq) PROVE Answered
      BY DEF SignalUnanswered
    <3>1. Len(ends) \in DOMAIN ends /\ ends[Len(ends)] \in EndEnvelopes
      BY <1>0
    <3>2. ends[Len(ends)].seq \in Nat /\ ends[Len(ends)].seq >= signal
      BY <1>0, <3>1 DEF LatestEnd, EndEnvelopes, Seqs
    <3> QED BY <3>1, <3>2 DEF Answered
  <2>3. CASE SignalUnanswered /\ Work("synth", signal, "active")
    BY <1>00, <2>1, <2>3
  <2>4. CASE ~SignalUnanswered /\ (main' = Idle \/ \E pc \in {"repair", "crash_ended"} : main'.pc = pc)
    BY <1>00, <1>1, <2>1, <2>2, <2>4
  <2> QED BY <1>5, <2>1, <2>3, <2>4 DEF Boot
<1>6. CASE Recover
  <2>1. CASE Synthesize
    <3>1. /\ main.pc = "synth" /\ Goto("repair") /\ AppendEnd(main.seq, "active")
          /\ UNCHANGED <<stage, signal, allocated, handle, turnEnded, injectFailed, meta>>
      BY <2>1 DEF Synthesize
    <3>2. [seq |-> main.seq, reason |-> "active"] \in EndEnvelopes
      BY <1>0, <3>1 DEF EndEnvelopes, EndReasons, WorkerInv, OwnedSessions
    <3>3. Answered'
      BY <1>0, <1>00, <3>1, <3>2, AnswerStays DEF AppendEnd
    <3>4. main'.pc = "repair"
      BY <1>0, <3>1 DEF MainStates
    <3> QED BY <1>00, <3>1, <3>3, <3>4
  <2>2. CASE RepairEnd
    BY <1>00, <1>1, <2>2 DEF RepairEnd, PairedEnded, Restore
  <2>3. CASE RepairWithoutEnd
    BY <2>3 DEF RepairWithoutEnd
  <2>4. CASE CrashEnded
    BY <1>0, <1>00, <1>1, <2>4 DEF CrashEnded, PairedEnded, MainStates
  <2>5. CASE CrashEnd
    <3>1. /\ main.pc = "crash_end" /\ AppendEnd(main.seq, "crash") /\ main' = Idle
          /\ UNCHANGED <<stage, signal, allocated, handle, turnEnded, injectFailed, meta>>
      BY <2>5 DEF CrashEnd, Restore
    <3>2. [seq |-> main.seq, reason |-> "crash"] \in EndEnvelopes
      BY <1>0, <3>1 DEF EndEnvelopes, EndReasons, WorkerInv, OwnedSessions
    <3>3. Answered => Answered'
      BY <1>0, <1>00, <3>1, <3>2, AnswerStays DEF AppendEnd
    <3> QED BY <1>00, <3>1, <3>3
  <2> QED BY <1>6, <2>1, <2>2, <2>3, <2>4, <2>5 DEF Recover
<1>7. CASE StopStep \/ MetaCall
  <2>1. /\ UNCHANGED <<stage, signal, allocated, main>>
        /\ \/ UNCHANGED <<injectFailed, turnEnded, handle>>
           \/ injectFailed' = FALSE /\ handle' = None
    <3>1. CASE StopClose
      BY <3>1 DEF StopClose, CloseFailed, Released, ClearWorker
    <3>2. ASSUME NEW how, StopWithoutWorker(how) \/ StopBegin(how)
          PROVE  UNCHANGED <<stage, signal, allocated, main, injectFailed, turnEnded, handle>>
      BY <3>2 DEF StopWithoutWorker, StopBegin
    <3>3. CASE InterruptDropped \/ StopEnd \/ StopEnded \/ StopFlags \/ MetaStart \/ MetaSend \/ Interrupt
      BY <3>3 DEF InterruptDropped, StopEnd, StopEnded, StopFlags, MetaStart, MetaSend, Interrupt
    <3> QED BY <1>7, <3>1, <3>2, <3>3 DEF StopStep, MetaCall
  <2>2. ASSUME Answered => Answered',
               HostUp /\ main.pc \notin Cleaning /\ signal # None =>
                 Answered' \/ signal = handle' \/ Ending(main) \/ Ending(meta)'
        PROVE  SignalInv'
    BY <1>00, <2>1, <2>2
  <2>3. CASE StopEnd
    <3>1. meta.pc = "end" /\ \E r \in EndReasons : AppendEnd(meta.seq, r)
      BY <2>3 DEF StopEnd, EndReasons
    <3>2. PICK r \in EndReasons : AppendEnd(meta.seq, r)
      BY <3>1
    <3>3. [seq |-> meta.seq, reason |-> r] \in EndEnvelopes
      BY <1>0, <3>1 DEF EndEnvelopes, StopStates, WorkerInv, OwnedSessions
    <3>4. (Answered \/ signal = meta.seq) => Answered'
      BY <1>0, <1>00, <2>1, <3>2, <3>3, AnswerStays DEF AppendEnd, StopStates
    <3>5. handle' = handle
      BY <2>3 DEF StopEnd
    <3> QED BY <2>1, <2>2, <3>4, <3>5
  <2>4. CASE StopClose
    <3>1. meta.pc = "close" /\ handle = meta.seq /\ ends' = ends
      BY <2>4 DEF StopClose, WorkerInv, Ownership
    <3>2. handle' = handle \/ (meta'.pc = "end" /\ meta'.seq = meta.seq)
      BY <1>0, <2>4 DEF StopClose, CloseFailed, Released, ClearWorker, MetaGoto, StopStates
    <3> QED BY <1>1, <2>1, <2>2, <3>1, <3>2
  <2>5. CASE ends' = ends /\ handle' = handle /\ meta.pc # "end"
    BY <1>1, <2>1, <2>2, <2>5
  <2>6. CASE MetaStart \/ MetaSend
    <3>1. ends' = ends /\ handle' = handle /\ meta' = meta
      BY <2>6 DEF MetaStart, MetaSend
    <3> QED BY <1>1, <2>1, <2>2, <3>1
  <2>7. (ends' = ends /\ handle' = handle /\ meta.pc # "end") \/ StopEnd \/ StopClose \/ MetaStart \/ MetaSend
    BY <1>7 DEF StopStep, MetaCall, InterruptDropped, StopWithoutWorker, StopBegin, StopCalled, MetaFree,
       StopEnded, StopFlags, Interrupt
  <2> QED BY <2>3, <2>4, <2>5, <2>6, <2>7
<1>8. CASE Worker \/ StageMoved \/ UNCHANGED vars
  <2>1. CASE Worker
    <3>1. /\ main.pc \notin Starting /\ ~turnEnded
          /\ UNCHANGED <<stage, ends, main, meta, allocated, handle, injectFailed>>
          /\ signal' = signal \/ signal' = handle
      BY <2>1 DEF Worker, WorkerSignals, WorkerReads, WorkerTurnEnds, AtWork
    <3>2. main.pc \notin {"repair", "crash_ended", "crash_end", "synth"} \/ signal' = signal
      <4>1. live \subseteq Seqs
        BY DEF WorkerInv, TypeOK, SessionTypes
      <4>2. handle \notin live => signal' = signal
        BY <2>1 DEF Worker, WorkerSignals, WorkerReads, WorkerTurnEnds, AtWork
      <4> QED BY <4>1, <4>2 DEF Seqs
    <3> QED BY <1>00, <1>1, <3>1, <3>2
  <2>2. CASE StageMoved
    BY <1>00, <1>1, <2>2 DEF StageMoved
  <2>3. CASE UNCHANGED vars
    BY <1>00, <1>1, <2>3 DEF vars
  <2> QED BY <1>8, <2>1, <2>2, <2>3
<1> QED BY <1>2, <1>3, <1>4, <1>5, <1>6, <1>7, <1>8 DEF Next, Main

\* Before the first signal, and what the invariant says of a host back in its loop.
LEMMA SignalEnds == (Init => SignalInv) /\ (WorkerInv /\ SignalInv => SignalsAreAnswered)
<1>1. Init => SignalInv
  BY DEF Init, SignalInv, Idle, NoStop, None, Starting, Cleaning, Booting
<1>2. WorkerInv /\ SignalInv => SignalsAreAnswered
  BY DEF SignalInv, SignalsAreAnswered, Answered, HostUp, Cleaning, Booting, Ending
<1> QED BY <1>1, <1>2

\* A declared exit reaches Meta, whatever crashes, fails to close or is not recorded, as long as the
\* envelopes of the host can be written and no host comes up to a stage that awaits the user.
THEOREM SignalsReachMeta ==
  ASSUME "mail" \notin Faults, "repair" \notin Faults, "away" \notin StageMoves
  PROVE  Spec => []SignalsAreAnswered
BY WorkerInvariant, SignalEnds, SignalStepKeeps, PTL DEF Spec

-----------------------------------------------------------------------------
\* A host that never goes down, at a stage that runs: whoever closed a session out has recorded it
\* or is on the way to, and is not fenced off.
Underway(s) ==
  \/ main.pc \in {"session", "start_failed", "end", "flag", "close_baseline", "ended"} /\ main.seq = s
  \/ meta.pc \in {"end", "ended"} /\ meta.seq = s
RecordInv ==
  /\ stage = "running" /\ main.pc \notin Cleaning \cup Booting
  /\ epoch = 0 /\ (meta.pc \notin {"idle", "posted"} => meta.epoch = 0)
  /\ \A s \in started : s \in ended \/ s = handle \/ Underway(s)

LEMMA RecordStepKeeps ==
  ASSUME "crash" \notin Faults, "quit" \notin Faults, "log" \notin Faults, StageMoves \subseteq {"running"},
         WorkerInv, RecordInv, [Next]_vars
  PROVE  RecordInv'
<1>0. /\ main \in MainStates /\ meta \in StopStates /\ None \notin started
      /\ main.pc \in {"record", "session"} => handle = None
      /\ main.pc = "close" => handle = main.seq
      /\ meta.pc = "close" => handle = meta.seq
  BY DEF WorkerInv, TypeOK, ThreadTypes, DurableTypes, None, Seqs, Ownership
<1> USE DEF RecordInv, Underway, events, mailbox, worker, plan, guard, Goto, Work, Idle, NoStop,
            Starting, Closing, Cleaning, Booting
<1>1. CASE Tick
  BY <1>0, <1>1 DEF Tick, TickBegin, Check, Reconcile, MainStates
<1>2. CASE Start
  BY <1>0, <1>2 DEF Start, Allocate, Record, StartSession, StartFailed, TakeBaseline, Inject, MainStates
<1>3. CASE Finalize
  <2>1. CASE Monitor
    BY <1>0, <2>1 DEF Monitor, MainStates
  <2>2. CASE Close
    <3>1. CASE CloseFailed /\ main' = Idle
      BY <1>0, <2>2, <3>1 DEF Close, CloseFailed
    <3>2. CASE ClearWorker /\ Goto("close_baseline")
      BY <1>0, <2>2, <3>2 DEF Close, MainStates
    <3>3. ASSUME NEW r, UNCHANGED guard, Work("end", main.seq, r) PROVE RecordInv'
      BY <1>0, <2>2, <3>3 DEF Close
    <3> QED BY <2>2, <3>1, <3>2, <3>3 DEF Close
  <2>3. CASE End \/ Flag \/ CloseBaseline
    BY <1>0, <2>3 DEF End, Flag, CloseBaseline, MainStates
  <2>4. CASE Ended
    BY <1>0, <2>4 DEF Ended
  <2> QED BY <1>3, <2>1, <2>2, <2>3, <2>4 DEF Finalize
<1>4. CASE Cleanup \/ Crash \/ Boot \/ Recover
  BY <1>4 DEF Cleanup, Crash, Boot, Recover, Wait, Teardown, Shutdown, Exit, Synthesize, RepairEnd,
     RepairWithoutEnd, CrashEnded, CrashEnd
<1>5. CASE StopStep \/ MetaCall
  <2>1. UNCHANGED <<stage, started, main>>
    <3>1. ASSUME NEW how, StopWithoutWorker(how) \/ StopBegin(how) PROVE UNCHANGED <<stage, started, main>>
      BY <3>1 DEF StopWithoutWorker, StopBegin
    <3> QED BY <1>5, <3>1 DEF StopStep, MetaCall, InterruptDropped, StopClose, StopEnd, StopEnded, StopFlags,
            MetaStart, MetaSend, Interrupt
  <2>2. CASE StopClose
    <3>1. ~Fenced
      BY <2>2 DEF StopClose, Fenced
    <3> QED BY <1>0, <2>1, <2>2, <3>1 DEF StopClose, CloseFailed, MetaGoto, StopStates
  <2>3. CASE StopEnd
    <3>1. ~Fenced
      BY <2>3 DEF StopEnd, Fenced
    <3> QED BY <1>0, <2>1, <2>3, <3>1 DEF StopEnd, MetaGoto, StopStates
  <2>4. CASE StopEnded
    BY <1>0, <2>1, <2>4 DEF StopEnded, MetaGoto, StopStates
  <2>5. ASSUME NEW how, StopWithoutWorker(how) \/ StopBegin(how) PROVE RecordInv'
    <3>1. meta.pc \in {"idle", "posted"}
      BY <2>5 DEF StopWithoutWorker, StopBegin, StopCalled, MetaFree
    <3>2. /\ meta' = NoStop \/ meta' = [pc |-> "close", seq |-> handle, how |-> how, epoch |-> epoch]
          /\ UNCHANGED <<ended, handle, epoch>>
      <4>1. CASE StopWithoutWorker(how)
        BY <4>1, Zenon DEF StopWithoutWorker
      <4>2. CASE StopBegin(how)
        BY <4>2, Zenon DEF StopBegin
      <4> QED BY <2>5, <4>1, <4>2
    <3> QED BY <2>1, <3>1, <3>2
  <2>6. CASE InterruptDropped \/ StopFlags \/ MetaStart \/ MetaSend \/ Interrupt
    <3>1. CASE MetaStart \/ MetaSend
      BY <2>1, <3>1 DEF MetaStart, MetaSend
    <3>2. CASE InterruptDropped \/ StopFlags \/ Interrupt
      <4>1. meta.pc \in {"idle", "posted", "flags"}
        BY <3>2 DEF InterruptDropped, StopCalled, StopFlags, Interrupt, MetaFree
      <4>2. meta'.pc \in {"idle", "posted"} /\ UNCHANGED <<ended, handle, epoch>>
        <5>1. CASE InterruptDropped
          BY <5>1 DEF InterruptDropped
        <5>3. CASE Interrupt
          BY <5>3 DEF Interrupt
        <5>2. CASE StopFlags
          <6>1. meta' = NoStop /\ UNCHANGED <<ended, handle, epoch>>
            BY <5>2, Zenon DEF StopFlags, Released
          <6> QED BY <6>1
        <5> QED BY <3>2, <5>1, <5>2, <5>3
      <4> QED BY <2>1, <4>1, <4>2
    <3> QED BY <2>6, <3>1, <3>2
  <2> QED BY <1>5, <2>2, <2>3, <2>4, <2>5, <2>6 DEF StopStep, MetaCall
<1>6. CASE Worker \/ StageMoved \/ UNCHANGED vars
  BY <1>6 DEF Worker, WorkerSignals, WorkerReads, WorkerTurnEnds, StageMoved, vars
<1> QED BY <1>1, <1>2, <1>3, <1>4, <1>5, <1>6 DEF Next, Main

\* Where the records begin, and what they say.
LEMMA RecordEnds == (Init => RecordInv) /\ (RecordInv => ClosedWorkersAreRecorded)
<1>1. Init => RecordInv
  BY DEF Init, RecordInv, Idle, NoStop, Cleaning, Booting
<1>2. RecordInv => ClosedWorkersAreRecorded
  BY DEF RecordInv, Underway, ClosedWorkersAreRecorded
<1> QED BY <1>1, <1>2

\* A host that lives on records every session it closes out, whoever closes it (docs/RUNTIME.md:
\* paired records), unless the events log fails.
THEOREM SessionsAreRecorded ==
  ASSUME "crash" \notin Faults, "quit" \notin Faults, "log" \notin Faults, StageMoves \subseteq {"running"}
  PROVE  Spec => []ClosedWorkersAreRecorded
BY WorkerInvariant, RecordEnds, RecordStepKeeps, PTL DEF Spec

-----------------------------------------------------------------------------
\* Every session has its worker_session_end still before it while it can be closed out.
EndSeqs == {ends[i].seq : i \in DOMAIN ends}
OnceInv ==
  /\ EndOnce
  /\ \A s \in EndSeqs : s <= allocated
  /\ handle <= allocated /\ handle \notin EndSeqs
  /\ main.pc \in {"record", "session"} =>
       main.seq <= allocated /\ main.seq \notin EndSeqs /\ (meta.pc = "end" => main.seq # meta.seq)
  /\ main.pc = "end" => main.seq \notin EndSeqs \cup {handle} /\ main.seq <= allocated
  /\ meta.pc = "end" => meta.seq \notin EndSeqs \cup {handle} /\ meta.seq <= allocated

\* An envelope more, and what it does to the sessions Meta was told of.
LEMMA AppendedEnds ==
  ASSUME ends \in Seq(EndEnvelopes), NEW e \in EndEnvelopes, ends' = Append(ends, e)
  PROVE  /\ DOMAIN ends' = DOMAIN ends \cup {Len(ends) + 1} /\ ends'[Len(ends) + 1] = e
         /\ \A i \in DOMAIN ends : ends'[i] = ends[i]
         /\ EndSeqs' = EndSeqs \cup {e.seq}
         /\ LatestEnd' = e
<1>1. /\ DOMAIN ends' = DOMAIN ends \cup {Len(ends) + 1} /\ ends'[Len(ends) + 1] = e
      /\ \A i \in DOMAIN ends : ends'[i] = ends[i]
      /\ Len(ends') = Len(ends) + 1
  OBVIOUS
<1> QED BY <1>1 DEF EndSeqs, LatestEnd

\* An envelope of a session that has none yet.
LEMMA AppendOnce ==
  ASSUME ends \in Seq(EndEnvelopes), NEW e \in EndEnvelopes, ends' = Append(ends, e),
         EndOnce, e.seq \notin EndSeqs
  PROVE  EndOnce' /\ EndSeqs' = EndSeqs \cup {e.seq}
<1>1. \A i \in DOMAIN ends : ends[i].seq # e.seq
  BY DEF EndSeqs
<1> QED BY <1>1, AppendedEnds DEF EndOnce

LEMMA OnceStepKeeps ==
  ASSUME "crash" \notin Faults, WorkerInv, RecordInv, OnceInv, [Next]_vars
  PROVE  OnceInv'
<1>0. /\ main \in MainStates /\ meta \in StopStates /\ allocated \in Nat /\ handle \in Nat
      /\ main.seq \in Nat /\ meta.seq \in Nat /\ ends \in Seq(EndEnvelopes)
  BY BoundsAssumption DEF WorkerInv, TypeOK, ThreadTypes, DurableTypes, SessionTypes, MainStates, StopStates, None,
     Seqs
<1>1. /\ main.pc \in {"record", "session"} => handle = None
      /\ main.pc = "close" => handle = main.seq
      /\ meta.pc = "close" => handle = meta.seq
      /\ main.pc \in Closing => main.seq # None /\ meta.pc \in {"idle", "posted"}
      /\ meta.pc # "idle" => meta.seq # None
  BY DEF WorkerInv, OwnedSessions, Ownership, None, Seqs
<1>2. EndSeqs \subseteq Nat \ {None}
  <2>1. \A i \in DOMAIN ends : ends[i] \in EndEnvelopes
    BY <1>0
  <2>2. \A e \in EndEnvelopes : e.seq \in Nat \ {None}
    BY DEF EndEnvelopes, None, Seqs
  <2> QED BY <2>1, <2>2 DEF EndSeqs
<1>3. ends' = ends => (EndOnce' <=> EndOnce) /\ EndSeqs' = EndSeqs
  BY DEF EndOnce, EndSeqs
<1> USE <1>0, <1>1 DEF OnceInv, events, mailbox, worker, plan, guard, Goto, Work, Idle, NoStop, None, Closing
<1>4. CASE Tick
  BY <1>3, <1>4 DEF Tick, TickBegin, Check, Reconcile, MainStates
<1>5. CASE Start
  <2>1. CASE Allocate
    <3>1. ends' = ends /\ handle' = handle /\ meta' = meta
      BY <2>1 DEF Allocate
    <3>2. CASE allocated' = allocated + 1 /\ Work("record", allocated + 1, main.reason)
      <4>1. allocated' \in Nat /\ \A s \in EndSeqs \cup {handle} : s <= allocated' /\ s # allocated + 1
        BY <1>2, <3>2
      <4> QED BY <1>3, <3>1, <3>2, <4>1
    <3>3. CASE allocated' = allocated /\ Goto("take_baseline")
      BY <1>3, <3>1, <3>3 DEF MainStates
    <3> QED BY <2>1, <3>2, <3>3 DEF Allocate
  <2>2. CASE Record \/ StartFailed \/ TakeBaseline \/ Inject
    BY <1>3, <2>2 DEF Record, StartFailed, TakeBaseline, Inject, MainStates
  <2>3. CASE StartSession
    BY <1>3, <2>3 DEF StartSession, MainStates
  <2> QED BY <1>5, <2>1, <2>2, <2>3 DEF Start
<1>6. CASE Finalize
  <2>1. CASE Monitor
    BY <1>3, <2>1 DEF Monitor, MainStates
  <2>2. CASE Close
    <3>1. /\ main.pc = "close" /\ UNCHANGED <<ends, allocated, meta>>
      BY <2>2 DEF Close
    <3>2. CASE CloseFailed /\ main' = Idle
      BY <1>3, <3>1, <3>2 DEF CloseFailed
    <3>3. CASE ClearWorker /\ Goto("close_baseline")
      BY <1>2, <1>3, <3>1, <3>3 DEF ClearWorker, MainStates
    <3>4. ASSUME NEW r, ClearWorker, Work("end", main.seq, r) PROVE OnceInv'
      <4>1. main.seq \notin EndSeqs \cup {None} /\ main.seq <= allocated /\ meta.pc # "end" /\ None \notin EndSeqs
        BY <1>2, <3>1
      <4>2. main'.pc = "end" /\ main'.seq = main.seq /\ handle' = None
        BY <3>4 DEF ClearWorker
      <4>3. EndOnce' /\ EndSeqs' = EndSeqs /\ handle' <= allocated'
        BY <1>3, <3>1, <4>2
      <4> QED BY <3>1, <4>1, <4>2, <4>3
    <3> QED BY <2>2, <3>2, <3>3, <3>4 DEF Close
  <2>3. CASE End
    <3>1. /\ main.pc = "end" /\ UNCHANGED <<allocated, handle, meta>>
      BY <2>3 DEF End
    <3>2. CASE ends' = ends /\ Goto("ended")
      BY <1>3, <3>1, <3>2 DEF MainStates
    <3>3. CASE AppendEnd(main.seq, main.reason) /\ Goto("flag")
      <4>1. [seq |-> main.seq, reason |-> main.reason] \in EndEnvelopes
        BY <3>1 DEF EndEnvelopes, MainStates, WorkerInv, OwnedSessions
      <4>2. EndOnce' /\ EndSeqs' = EndSeqs \cup {main.seq}
        BY <3>1, <3>3, <4>1, AppendOnce DEF AppendEnd
      <4>3. main'.pc = "flag" /\ main.seq <= allocated
        BY <3>1, <3>3 DEF MainStates
      <4> QED BY <3>1, <3>3, <4>2, <4>3
    <3> QED BY <2>3, <3>2, <3>3 DEF End
  <2>4. CASE Flag \/ CloseBaseline \/ Ended
    BY <1>3, <2>4 DEF Flag, CloseBaseline, Ended, MainStates
  <2> QED BY <1>6, <2>1, <2>2, <2>3, <2>4 DEF Finalize
<1>7. CASE Cleanup \/ Crash \/ Boot \/ Recover
  BY <1>7 DEF RecordInv, Cleaning, Booting, Cleanup, Crash, Boot, Recover, Wait, Teardown, Shutdown, Exit,
     Synthesize, RepairEnd, RepairWithoutEnd, CrashEnded, CrashEnd
<1>8. CASE StopStep \/ MetaCall
  <2>1. UNCHANGED <<allocated, main>>
    <3>1. ASSUME NEW how, StopWithoutWorker(how) \/ StopBegin(how) PROVE UNCHANGED <<allocated, main>>
      BY <3>1 DEF StopWithoutWorker, StopBegin
    <3> QED BY <1>8, <3>1 DEF StopStep, MetaCall, InterruptDropped, StopClose, StopEnd, StopEnded, StopFlags,
            MetaStart, MetaSend, Interrupt
  <2>2. CASE StopClose
    <3>1. ends' = ends /\ meta.pc = "close"
      BY <2>2 DEF StopClose
    <3>2. CASE handle' = handle /\ meta' = NoStop
      BY <1>3, <2>1, <3>1, <3>2
    <3>3. CASE ClearWorker /\ MetaGoto("end")
      <4>1. handle' = None /\ meta'.pc = "end" /\ meta'.seq = meta.seq
        BY <3>3 DEF ClearWorker, MetaGoto, StopStates
      <4>2. main.pc \notin {"record", "session", "end"} /\ meta.seq \notin EndSeqs \cup {0} /\ meta.seq <= allocated
        BY <3>1
      <4>3. EndOnce' /\ EndSeqs' = EndSeqs /\ handle' <= allocated' /\ None \notin EndSeqs
        BY <1>2, <1>3, <2>1, <3>1, <4>1
      <4> QED BY <2>1, <4>1, <4>2, <4>3
    <3> QED BY <2>2, <3>2, <3>3 DEF StopClose, CloseFailed, Released
  <2>3. CASE StopEnd
    <3>1. /\ meta.pc = "end" /\ handle' = handle /\ meta'.pc \in {"flags", "ended"}
          /\ ends' = ends \/ \E r \in EndReasons : AppendEnd(meta.seq, r)
      BY <2>3 DEF StopEnd, EndReasons, MetaGoto, StopStates
    <3>2. CASE ends' = ends
      BY <1>3, <2>1, <3>1, <3>2
    <3>3. ASSUME NEW r \in EndReasons, AppendEnd(meta.seq, r) PROVE OnceInv'
      <4>1. [seq |-> meta.seq, reason |-> r] \in EndEnvelopes
        BY <3>1 DEF EndEnvelopes, StopStates, WorkerInv, OwnedSessions
      <4>2. EndOnce' /\ EndSeqs' = EndSeqs \cup {meta.seq}
        BY <3>1, <3>3, <4>1, AppendOnce DEF AppendEnd
      <4> QED BY <2>1, <3>1, <4>2
    <3> QED BY <3>1, <3>2, <3>3
  <2>4. CASE StopEnded \/ StopFlags
    <3>1. ends' = ends /\ handle' = handle /\ meta.pc \in {"ended", "flags"}
      BY <2>4 DEF StopEnded, StopFlags
    <3>2. meta'.pc \in {"flags", "idle"}
      <4>1. CASE StopEnded
        BY <4>1 DEF StopEnded, MetaGoto, StopStates
      <4>2. CASE StopFlags
        <5>1. meta' = NoStop
          BY <4>2, Zenon DEF StopFlags, Released
        <5> QED BY <5>1
      <4> QED BY <2>4, <4>1, <4>2
    <3> QED BY <1>3, <2>1, <3>1, <3>2
  <2>5. ASSUME NEW how, StopWithoutWorker(how) \/ StopBegin(how) PROVE OnceInv'
    <3>1. meta' = NoStop \/ meta' = [pc |-> "close", seq |-> handle, how |-> how, epoch |-> epoch]
      BY <2>5, Zenon DEF StopWithoutWorker, StopBegin
    <3>2. UNCHANGED <<ends, handle>>
      BY <2>5 DEF StopWithoutWorker, StopBegin
    <3> QED BY <1>3, <2>1, <3>1, <3>2
  <2>6. CASE InterruptDropped \/ MetaStart \/ MetaSend
    BY <1>3, <2>1, <2>6 DEF InterruptDropped, MetaStart, MetaSend
  <2>7. CASE Interrupt
    BY <1>3, <2>1, <2>7 DEF Interrupt
  <2> QED BY <1>8, <2>2, <2>3, <2>4, <2>5, <2>6, <2>7 DEF StopStep, MetaCall
<1>9. CASE Worker \/ StageMoved \/ UNCHANGED vars
  BY <1>3, <1>9 DEF Worker, WorkerSignals, WorkerReads, WorkerTurnEnds, StageMoved, vars
<1> QED BY <1>4, <1>5, <1>6, <1>7, <1>8, <1>9 DEF Next, Main

\* Before the first envelope, and what the invariant is for.
LEMMA OnceEnds == (Init => OnceInv) /\ (OnceInv => EndOnce)
<1>1. Init => OnceInv
  BY DEF Init, OnceInv, EndOnce, EndSeqs, Idle, NoStop, None
<1>2. OnceInv => EndOnce
  BY DEF OnceInv
<1> QED BY <1>1, <1>2

\* A host that lives on never tells Meta twice of the end of a session (docs/RUNTIME.md:230).
THEOREM EndsAreToldOnce ==
  ASSUME "crash" \notin Faults, "quit" \notin Faults, "log" \notin Faults, StageMoves \subseteq {"running"}
  PROVE  Spec => []EndOnce
BY WorkerInvariant, RecordEnds, RecordStepKeeps, OnceEnds, OnceStepKeeps, PTL DEF Spec

-----------------------------------------------------------------------------
\* Without a stop of Meta's, a host that gave its worker up has put itself in a waiting state first,
\* and one that comes up either knows of no worker or restores such a state.
StrandInv ==
  /\ meta.pc = "idle"
  /\ main.pc \in {"inject", "monitor"} => handle # None
  /\ main.pc \in Booting => handle = None /\ last = None
  /\ main.pc \in {"idle", "check", "reconcile", "ended"} /\ handle = None /\ last # None => want \/ waiting # {}

LEMMA StrandStepKeeps ==
  ASSUME Tools \cap {"stop", "restart", "interrupt"} = {}, "mail" \notin Faults,
         WorkerInv, StrandInv, [Next]_vars
  PROVE  StrandInv'
<1>0. /\ main \in MainStates /\ live \subseteq Seqs
      /\ main.pc \in {"session", "start_failed"} \cup Closing => main.seq # None
  BY DEF WorkerInv, TypeOK, ThreadTypes, SessionTypes, None, Seqs, OwnedSessions
<1> USE <1>0 DEF StrandInv, events, mailbox, worker, plan, guard, Goto, Work, Idle, NoStop,
            Starting, Closing, Cleaning, Booting
<1>1. CASE Tick
  BY <1>1 DEF Tick, TickBegin, Check, StartWanted, Reconcile, MainStates
<1>2. CASE Start
  BY <1>2 DEF Start, Allocate, Record, StartSession, StartFailed, TakeBaseline, CaptureBaseline, Inject, MainStates
<1>3. CASE Finalize
  <2>1. CASE Monitor
    BY <2>1 DEF Monitor, MainStates
  <2>2. CASE Close
    <3>1. CASE CloseFailed /\ main' = Idle
      BY <2>2, <3>1 DEF Close, CloseFailed, WorkerInv, Ownership
    <3>2. CASE Goto("close_baseline")
      BY <2>2, <3>2 DEF Close, MainStates
    <3>3. ASSUME NEW r, Work("end", main.seq, r) PROVE StrandInv'
      BY <2>2, <3>3 DEF Close
    <3> QED BY <2>2, <3>1, <3>2, <3>3 DEF Close
  <2>3. CASE End \/ Flag \/ CloseBaseline
    BY <2>3 DEF End, Flag, CloseBaseline, CaptureBaseline, MainStates
  <2>4. CASE Ended
    BY <2>4 DEF Ended, MainStates
  <2> QED BY <1>3, <2>1, <2>2, <2>3, <2>4 DEF Finalize
<1>4. CASE Wait \/ Teardown \/ Shutdown
  BY <1>4 DEF Wait, Teardown, Shutdown, MainStates
<1>5. CASE Exit \/ Crash
  <2>1. meta' = NoStop /\ main' = [Idle EXCEPT !.pc = "down"] /\ handle' = None /\ last' = None
    BY <1>5, Zenon DEF Exit, Crash, Die
  <2> QED BY <2>1
<1>6. CASE Boot
  <2>1. meta.pc = "idle" /\ handle = None /\ last = None
    BY <1>6 DEF Boot
  <2>2. UNCHANGED <<worker, meta>>
    BY <1>6 DEF Boot
  <2>3. main'.pc \notin {"inject", "monitor"}
    BY <1>6 DEF Boot
  <2> QED BY <2>1, <2>2, <2>3
<1>7. CASE Recover
  BY <1>7 DEF Recover, Synthesize, RepairEnd, RepairWithoutEnd, CrashEnded, CrashEnd, Restore, MainStates
<1>8. CASE StopStep \/ MetaCall
  <2>1. CASE MetaStart \/ MetaSend
    BY <2>1 DEF MetaStart, MetaSend, StartWanted
  <2>2. ~StopStep /\ ~Interrupt /\ \A how \in {"stop", "restart"} : ~StopWithoutWorker(how) /\ ~StopBegin(how)
    BY DEF StopStep, Interrupt, InterruptDropped, StopWithoutWorker, StopBegin, StopCalled, StopClose, StopEnd,
       StopEnded, StopFlags
  <2> QED BY <1>8, <2>1, <2>2 DEF MetaCall
<1>9. CASE Worker \/ StageMoved \/ UNCHANGED vars
  BY <1>9 DEF Worker, WorkerSignals, WorkerReads, WorkerTurnEnds, StageMoved, vars
<1> QED BY <1>1, <1>2, <1>3, <1>4, <1>5, <1>6, <1>7, <1>8, <1>9 DEF Next, Main, Cleanup

\* A host that was never up has lost nothing; and what the invariant says between two ticks.
LEMMA StrandEnds == (Init => StrandInv) /\ (StrandInv => NeverStranded)
<1>1. Init => StrandInv
  BY DEF Init, StrandInv, Idle, NoStop, Booting
<1>2. StrandInv => NeverStranded
  BY DEF StrandInv, NeverStranded
<1> QED BY <1>1, <1>2

\* A host that has lost its worker waits for Meta or is about to start another one, through every
\* crash, failing start and failing close, as long as its envelopes can be written and no stop races it.
THEOREM HostsAreNotStranded ==
  ASSUME Tools \cap {"stop", "restart", "interrupt"} = {}, "mail" \notin Faults
  PROVE  Spec => []NeverStranded
BY WorkerInvariant, StrandEnds, StrandStepKeeps, PTL DEF Spec

-----------------------------------------------------------------------------
\* Of all sessions only the newest may lack its ENDED, and whoever is to write it knows that one:
\* the thread that works on it, the host that holds it, or the host that comes up next and finds
\* it in the records, as the subject of the latest exit signal or of the latest worker_session_end.
Highest(s) == \A t \in started : t <= s

\* Meta is told of sessions that were started, in their order.
EndsInv == EndSeqs \subseteq started /\ \A s \in EndSeqs : s <= LatestEnd.seq

\* The sessions the threads and the mailbox name are the newest.
NewestInv ==
  /\ handle \in {None, last} /\ handle \in {None} \cup started /\ (handle # None => Highest(handle))
  /\ Highest(allocated)
  /\ main.pc = "record" => \A t \in started : t < main.seq
  /\ main.pc \in {"session", "start_failed", "inject", "synth", "repair", "crash_ended", "crash_end"} \cup Closing =>
       main.seq \in started /\ Highest(main.seq)
  /\ signal \in {None} \cup started
  /\ Answered \/ signal = None \/ Highest(signal)

\* Who is to write the ENDED of the session that lacks it.
UnmatchedInv ==
  /\ \A s \in Unmatched : Highest(s)
  /\ main.pc \in {"exit", "crash_end"} => Unmatched = {}
  /\ main.pc \in {"idle", "check", "reconcile", "allocate", "record", "take_baseline", "inject", "monitor", "close",
                  "wait", "teardown", "shutdown"} => Unmatched \subseteq {handle}
  /\ main.pc \in {"session", "start_failed", "end", "flag", "close_baseline", "ended", "synth", "repair",
                  "crash_ended"} => Unmatched \subseteq {main.seq}

ExitInv == meta.pc = "idle" /\ EndsInv /\ NewestInv /\ UnmatchedInv

\* An envelope of the newest session answers every signal there is.
LEMMA AppendHighest ==
  ASSUME ends \in Seq(EndEnvelopes), NEW e \in EndEnvelopes, ends' = Append(ends, e),
         started \subseteq Seqs, UNCHANGED <<started, signal>>,
         EndsInv, e.seq \in started, Highest(e.seq), signal \in {None} \cup started
  PROVE  EndsInv' /\ Answered'
<1>1. EndSeqs' = EndSeqs \cup {e.seq} /\ LatestEnd' = e
  BY AppendedEnds
<1>2. EndsInv'
  BY <1>1 DEF EndsInv, Highest, Seqs
<1>3. Len(ends) + 1 \in DOMAIN ends' /\ ends'[Len(ends) + 1] = e
  BY AppendedEnds
<1>4. e.seq >= signal
  <2>1. e.seq \in Nat /\ 0 <= e.seq
    <3>1. \A s \in Seqs : s \in Nat /\ 0 <= s
      BY BoundsAssumption DEF Seqs
    <3> QED BY <3>1
  <2>2. CASE signal = None
    BY <2>1, <2>2 DEF None
  <2>3. CASE signal \in started
    BY <2>3 DEF Highest
  <2> QED BY <2>2, <2>3
<1> QED BY <1>2, <1>3, <1>4 DEF Answered

\* There is one newest session.
LEMMA OneHighest ==
  ASSUME started \subseteq Nat, NEW s \in started, Highest(s), \A t \in Unmatched : Highest(t)
  PROVE  Unmatched \subseteq {s}
<1> SUFFICES ASSUME NEW t \in Unmatched PROVE t = s
  OBVIOUS
<1>1. t \in started /\ t \in Nat /\ s \in Nat
  BY DEF Unmatched
<1>2. s <= t /\ t <= s
  BY <1>1 DEF Highest
<1> QED BY <1>1, <1>2

LEMMA ExitStepKeeps ==
  ASSUME Tools \cap {"stop", "restart", "interrupt"} = {}, "away" \notin StageMoves,
         "mail" \notin Faults, "repair" \notin Faults, "log" \notin Faults,
         WorkerInv, SignalInv, ExitInv, [Next]_vars
  PROVE  ExitInv'
<1>0. /\ main \in MainStates /\ ends \in Seq(EndEnvelopes) /\ started \subseteq Seqs /\ Seqs \subseteq Nat
      /\ allocated \in Nat /\ handle \in Nat /\ signal \in Nat /\ main.seq \in Nat /\ live \subseteq Seqs
      /\ None \notin Seqs /\ None = 0
  BY BoundsAssumption DEF WorkerInv, TypeOK, ThreadTypes, DurableTypes, SessionTypes, MainStates, None, Seqs
<1>1. /\ main.pc \in {"allocate", "record", "session"} => handle = None
      /\ main.pc = "close" => handle = main.seq
      /\ main.pc \in Booting => handle = None
      /\ stage # "away" /\ main.pc # "unrepaired"
  BY DEF WorkerInv, Ownership, SignalInv
<1>2. UNCHANGED <<ends, started>> => (EndsInv' <=> EndsInv)
  BY DEF EndsInv, EndSeqs, LatestEnd
<1>3. UNCHANGED <<ends, signal>> => (Answered' <=> Answered)
  BY DEF Answered
<1> USE <1>0, <1>1 DEF ExitInv, events, mailbox, worker, plan, guard, Goto, Work, Idle, NoStop, HostUp, Ending,
            Closing, Booting
<1>4. CASE Tick
  <2>1. UNCHANGED <<ends, signal, started, ended, allocated, handle, last, meta>>
    BY <1>4 DEF Tick, TickBegin, Check, Reconcile
  <2>2. /\ main.pc \in {"idle", "check", "reconcile"} /\ main'.pc \in {"idle", "check", "reconcile", "monitor", "allocate", "wait"}
    BY <1>4 DEF Tick, TickBegin, Check, Reconcile, MainStates
  <2>3. EndsInv' /\ NewestInv'
    BY <1>2, <1>3, <2>1, <2>2 DEF NewestInv, Highest
  <2>4. UnmatchedInv'
    BY <2>1, <2>2 DEF UnmatchedInv, Unmatched, Highest
  <2> QED BY <2>1, <2>3, <2>4
<1>5. CASE Start
  <2>1. UNCHANGED <<ends, signal, meta>>
    BY <1>5 DEF Start, Allocate, Record, StartSession, StartFailed, TakeBaseline, Inject
  <2>2. CASE Allocate
    <3>1. UNCHANGED <<started, ended, handle, last>>
      BY <2>2 DEF Allocate
    <3>2. CASE allocated' = allocated + 1 /\ Work("record", allocated + 1, main.reason)
      <4>1. \A t \in started : t < allocated + 1 /\ t <= allocated + 1
        BY DEF NewestInv, Highest
      <4>2. NewestInv'
        BY <1>3, <2>1, <3>1, <3>2, <4>1 DEF NewestInv, Highest
      <4>3. UnmatchedInv'
        BY <2>2, <3>1, <3>2 DEF Allocate, UnmatchedInv, Unmatched, Highest
      <4> QED BY <1>2, <2>1, <3>1, <4>2, <4>3
    <3>3. CASE allocated' = allocated /\ Goto("take_baseline")
      <4>1. NewestInv'
        BY <1>3, <2>1, <3>1, <3>3 DEF NewestInv, Highest, MainStates
      <4>2. UnmatchedInv'
        BY <2>2, <3>1, <3>3 DEF Allocate, UnmatchedInv, Unmatched, Highest, MainStates
      <4> QED BY <1>2, <2>1, <3>1, <4>1, <4>2
    <3> QED BY <2>2, <3>2, <3>3 DEF Allocate
  <2>3. CASE Record
    <3>1. /\ main.pc = "record" /\ handle = None /\ Goto("session") /\ started' = started \cup {main.seq}
          /\ UNCHANGED <<ended, allocated, handle, last>> /\ main.seq <= allocated
      BY <2>3 DEF Record, SignalInv
    <3>2. main'.pc = "session" /\ main'.seq = main.seq
      BY <3>1 DEF MainStates
    <3>3. Answered \/ signal = None
      BY <3>1 DEF SignalInv, Cleaning
    <3>4. EndsInv'
      <4>1. EndSeqs' = EndSeqs /\ LatestEnd' = LatestEnd
        BY <2>1 DEF EndSeqs, LatestEnd
      <4> QED BY <3>1, <4>1 DEF EndsInv
    <3>5. \A t \in started : t < main.seq
      BY <3>1 DEF NewestInv
    <3>6. \A t \in started' : t <= main.seq /\ t <= allocated
      BY <3>1, <3>5 DEF NewestInv, Highest
    <3>7. NewestInv'
      BY <1>3, <2>1, <3>1, <3>2, <3>3, <3>6 DEF NewestInv, Highest
    <3>8. Unmatched = {}
      BY <3>1 DEF UnmatchedInv, Unmatched
    <3>9. UnmatchedInv'
      BY <3>1, <3>2, <3>6, <3>8 DEF UnmatchedInv, Unmatched, Highest
    <3> QED BY <2>1, <3>4, <3>7, <3>9
  <2>4. CASE StartSession
    <3>1. UNCHANGED <<started, ended, allocated>> /\ main.pc = "session" /\ main'.seq = main.seq
      BY <2>4 DEF StartSession, MainStates
    <3>2. \/ main'.pc = "inject" /\ handle' = main.seq /\ last' = main.seq
          \/ main'.pc = "start_failed" /\ UNCHANGED <<handle, last>>
      BY <2>4 DEF StartSession, MainStates
    <3>3. NewestInv'
      BY <1>3, <2>1, <3>1, <3>2 DEF NewestInv, Highest
    <3>4. UnmatchedInv'
      BY <3>1, <3>2 DEF UnmatchedInv, Unmatched, Highest
    <3> QED BY <1>2, <2>1, <3>1, <3>3, <3>4
  <2>5. CASE StartFailed
    <3>1. /\ main.pc = "start_failed" /\ main'.pc = "take_baseline" /\ ended' = ended \cup {main.seq}
          /\ UNCHANGED <<started, allocated, handle, last>>
      BY <2>5 DEF StartFailed, MainStates
    <3>2. NewestInv'
      BY <1>3, <2>1, <3>1 DEF NewestInv, Highest
    <3>3. UnmatchedInv'
      BY <3>1 DEF UnmatchedInv, Unmatched, Highest
    <3> QED BY <1>2, <2>1, <3>1, <3>2, <3>3
  <2>6. CASE TakeBaseline \/ Inject
    <3>1. /\ main.pc \in {"take_baseline", "inject"} /\ main'.pc \in {"idle", "monitor"}
          /\ UNCHANGED <<started, ended, allocated, handle, last>>
      BY <2>6 DEF TakeBaseline, Inject, MainStates
    <3>2. NewestInv'
      BY <1>3, <2>1, <3>1 DEF NewestInv, Highest
    <3>3. UnmatchedInv'
      BY <3>1 DEF UnmatchedInv, Unmatched, Highest
    <3> QED BY <1>2, <2>1, <3>1, <3>2, <3>3
  <2> QED BY <1>5, <2>2, <2>3, <2>4, <2>5, <2>6 DEF Start
<1>6. CASE Finalize
  <2>1. UNCHANGED <<signal, started, allocated, last, meta>>
    BY <1>6 DEF Finalize, Monitor, Close, CloseFailed, End, Flag, CloseBaseline, Ended
  <2>2. CASE Monitor
    <3>1. UNCHANGED <<ends, ended, handle>> /\ main.pc = "monitor"
      BY <2>2 DEF Monitor
    <3>2. main'.pc = "idle" \/ (main'.pc = "close" /\ main'.seq = handle /\ handle # None)
      BY <2>2 DEF Monitor, MayFinalize
    <3>3. NewestInv'
      BY <1>3, <2>1, <3>1, <3>2 DEF NewestInv, Highest
    <3>4. UnmatchedInv'
      BY <2>1, <3>1, <3>2 DEF UnmatchedInv, Unmatched, Highest
    <3> QED BY <1>2, <2>1, <3>1, <3>3, <3>4
  <2>3. CASE Close
    <3>1. UNCHANGED <<ends, ended>> /\ main.pc = "close" /\ handle = main.seq
      BY <2>3 DEF Close
    <3>2. \/ main'.pc = "idle" /\ handle' = handle
          \/ main'.pc \in {"close_baseline", "end"} /\ main'.seq = main.seq /\ handle' = None
      <4>1. CASE CloseFailed /\ main' = Idle
        BY <4>1 DEF CloseFailed
      <4>2. CASE ClearWorker /\ Goto("close_baseline")
        BY <4>2 DEF ClearWorker, MainStates
      <4>3. ASSUME NEW r, ClearWorker, Work("end", main.seq, r)
            PROVE  main'.pc = "end" /\ main'.seq = main.seq /\ handle' = None
        BY <4>3 DEF ClearWorker
      <4> QED BY <2>3, <4>1, <4>2, <4>3 DEF Close
    <3>3. NewestInv'
      BY <1>3, <2>1, <3>1, <3>2 DEF NewestInv, Highest
    <3>4. UnmatchedInv'
      BY <2>1, <3>1, <3>2 DEF UnmatchedInv, Unmatched, Highest
    <3> QED BY <1>2, <2>1, <3>1, <3>3, <3>4
  <2>4. CASE End
    <3>1. /\ main.pc = "end" /\ Goto("flag") /\ AppendEnd(main.seq, main.reason)
          /\ UNCHANGED <<ended, handle>>
      BY <2>4 DEF End
    <3>2. [seq |-> main.seq, reason |-> main.reason] \in EndEnvelopes
      BY <3>1 DEF EndEnvelopes, MainStates, WorkerInv, OwnedSessions
    <3>3. EndsInv' /\ Answered'
      BY <2>1, <3>1, <3>2, AppendHighest DEF AppendEnd, NewestInv
    <3>4. main'.pc = "flag" /\ main'.seq = main.seq
      BY <3>1 DEF MainStates
    <3>5. NewestInv'
      BY <2>1, <3>1, <3>3, <3>4 DEF NewestInv, Highest
    <3>6. UnmatchedInv'
      BY <2>1, <3>1, <3>4 DEF UnmatchedInv, Unmatched, Highest
    <3> QED BY <2>1, <3>3, <3>5, <3>6
  <2>5. CASE Flag \/ CloseBaseline
    <3>1. /\ main.pc \in {"flag", "close_baseline"} /\ main'.pc = "ended" /\ main'.seq = main.seq
          /\ UNCHANGED <<ends, ended, handle>>
      BY <2>5 DEF Flag, CloseBaseline, MainStates
    <3>2. NewestInv'
      BY <1>3, <2>1, <3>1 DEF NewestInv, Highest
    <3>3. UnmatchedInv'
      BY <2>1, <3>1 DEF UnmatchedInv, Unmatched, Highest
    <3> QED BY <1>2, <2>1, <3>1, <3>2, <3>3
  <2>6. CASE Ended
    <3>1. /\ main.pc = "ended" /\ main'.pc = "idle" /\ ended' = ended \cup {main.seq}
          /\ UNCHANGED <<ends, handle>>
      BY <2>6 DEF Ended
    <3>2. NewestInv'
      BY <1>3, <2>1, <3>1 DEF NewestInv, Highest
    <3>3. UnmatchedInv'
      BY <2>1, <3>1 DEF UnmatchedInv, Unmatched, Highest
    <3> QED BY <1>2, <2>1, <3>1, <3>2, <3>3
  <2> QED BY <1>6, <2>2, <2>3, <2>4, <2>5, <2>6 DEF Finalize
<1>7. CASE Wait \/ Teardown \/ Shutdown
  <2>1. UNCHANGED <<ends, signal, started, allocated, handle, last, meta>>
    BY <1>7 DEF Wait, Teardown, Shutdown
  <2>2. \/ main.pc \in {"wait", "teardown"} /\ main'.pc \in {"teardown", "shutdown"} /\ ended' = ended
        \/ /\ main.pc = "shutdown" /\ main'.pc = "exit"
           /\ ended' = IF last = None THEN ended ELSE ended \cup {last}
    BY <1>7 DEF Wait, Teardown, Shutdown, MainStates
  <2>3. NewestInv'
    BY <1>3, <2>1, <2>2 DEF NewestInv, Highest
  <2>4. UnmatchedInv'
    BY <2>1, <2>2 DEF UnmatchedInv, NewestInv, Unmatched, Highest
  <2> QED BY <1>2, <2>1, <2>3, <2>4
<1>8. CASE Exit \/ Crash
  <2>1. /\ meta' = NoStop /\ main' = [Idle EXCEPT !.pc = "down"] /\ handle' = None
        /\ UNCHANGED <<ends, signal, started, ended, allocated>>
    BY <1>8, Zenon DEF Exit, Crash, Die
  <2>2. NewestInv'
    BY <1>3, <2>1 DEF NewestInv, Highest
  <2>3. UnmatchedInv'
    BY <2>1 DEF UnmatchedInv, Unmatched, Highest
  <2> QED BY <1>2, <2>1, <2>2, <2>3
<1>9. CASE Boot
  <2>1. /\ main.pc = "down" /\ stage = "running"
        /\ UNCHANGED <<ends, signal, started, ended, allocated, handle, last, meta>>
    BY <1>9 DEF Boot, WorkerInv, TypeOK, DurableTypes
  <2>2. CASE SignalUnanswered
    <3>1. ~Answered /\ signal # None
      <4>1. \A i \in DOMAIN ends : ends[i].seq \in EndSeqs
        BY DEF EndSeqs
      <4>2. \A i \in DOMAIN ends : ends[i].seq <= LatestEnd.seq /\ ends[i].seq \in Nat
        BY <4>1 DEF EndsInv
      <4>4. \A i \in DOMAIN ends : ends # <<>>
        OBVIOUS
      <4>3. ends # <<>> => LatestEnd.seq \in Nat
        <5>1. ends # <<>> => ends[Len(ends)] \in EndEnvelopes
          OBVIOUS
        <5> QED BY <5>1 DEF LatestEnd, EndEnvelopes
      <4> QED BY <2>2, <4>2, <4>3, <4>4 DEF SignalUnanswered, Answered
    <3>2. main'.pc = "synth" /\ main'.seq = signal
      BY <1>9, <2>1, <2>2 DEF Boot
    <3>3. Highest(signal) /\ signal \in started
      BY <3>1 DEF NewestInv
    <3>4. NewestInv'
      BY <1>3, <2>1, <3>2, <3>3 DEF NewestInv, Highest
    <3>5. UnmatchedInv'
      <4>1. Unmatched \subseteq {signal}
        BY <3>3, OneHighest DEF UnmatchedInv
      <4> QED BY <2>1, <3>2, <4>1 DEF UnmatchedInv, Unmatched, Highest
    <3> QED BY <1>2, <2>1, <3>4, <3>5
  <2>3. CASE ~SignalUnanswered /\ EndUndecided
    <3>1. main'.pc = "repair" /\ main'.seq = LatestEnd.seq
      BY <1>9, <2>1, <2>3 DEF Boot
    <3>2. LatestEnd.seq \in started /\ Highest(LatestEnd.seq)
      <4>1. Len(ends) \in DOMAIN ends
        BY <2>3 DEF EndUndecided
      <4> QED BY <2>3, <4>1 DEF EndUndecided, EndsInv, EndSeqs, LatestEnd, Highest
    <3>3. NewestInv'
      BY <1>3, <2>1, <3>1, <3>2 DEF NewestInv, Highest
    <3>4. UnmatchedInv'
      <4>1. Unmatched \subseteq {LatestEnd.seq}
        BY <3>2, OneHighest DEF UnmatchedInv
      <4> QED BY <2>1, <3>1, <4>1 DEF UnmatchedInv, Unmatched, Highest
    <3> QED BY <1>2, <2>1, <3>3, <3>4
  <2>4. CASE main' = Idle /\ Unmatched = {}
    <3>1. NewestInv'
      BY <1>3, <2>1, <2>4 DEF NewestInv, Highest
    <3>2. UnmatchedInv'
      BY <2>1, <2>4 DEF UnmatchedInv, Unmatched, Highest
    <3> QED BY <1>2, <2>1, <3>1, <3>2
  <2>5. ASSUME NEW seq \in Newest, main'.pc \in {"crash_ended", "repair"}, main'.seq = seq PROVE ExitInv'
    <3>1. seq \in started /\ Highest(seq) /\ Unmatched \subseteq {seq}
      <4>1. seq \in started /\ Highest(seq) /\ started \subseteq Nat
        BY DEF UnmatchedInv, Unmatched, Newest
      <4> QED BY <4>1, OneHighest DEF UnmatchedInv
    <3>2. NewestInv'
      BY <1>3, <2>1, <2>5, <3>1 DEF NewestInv, Highest
    <3>3. UnmatchedInv'
      BY <2>1, <2>5, <3>1 DEF UnmatchedInv, Unmatched, Highest
    <3> QED BY <1>2, <2>1, <3>2, <3>3
  <2> QED BY <1>9, <2>1, <2>2, <2>3, <2>4, <2>5 DEF Boot
<1>10. CASE Recover
  <2>1. CASE Synthesize
    <3>1. /\ main.pc = "synth" /\ Goto("repair") /\ AppendEnd(main.seq, "active")
          /\ UNCHANGED <<signal, started, ended, allocated, handle, last, meta>>
      BY <2>1 DEF Synthesize
    <3>2. [seq |-> main.seq, reason |-> "active"] \in EndEnvelopes
      BY <3>1 DEF EndEnvelopes, EndReasons, WorkerInv, OwnedSessions
    <3>3. EndsInv' /\ Answered'
      BY <3>1, <3>2, AppendHighest DEF AppendEnd, NewestInv
    <3>4. main'.pc = "repair" /\ main'.seq = main.seq
      BY <3>1 DEF MainStates
    <3>5. NewestInv'
      BY <3>1, <3>3, <3>4 DEF NewestInv, Highest
    <3>6. UnmatchedInv'
      BY <3>1, <3>4 DEF UnmatchedInv, Unmatched, Highest
    <3> QED BY <3>1, <3>3, <3>5, <3>6
  <2>2. CASE RepairEnd \/ CrashEnded
    <3>1. /\ main.pc \in {"repair", "crash_ended"} /\ ended' = ended \cup {main.seq}
          /\ main'.pc \in {"idle", "crash_end"} /\ (main'.pc = "crash_end" => main'.seq = main.seq)
          /\ UNCHANGED <<ends, signal, started, allocated, handle, meta>>
      BY <2>2 DEF RepairEnd, CrashEnded, PairedEnded, Restore, MainStates
    <3>2. NewestInv'
      BY <1>3, <3>1 DEF NewestInv, Highest
    <3>3. UnmatchedInv'
      BY <3>1 DEF UnmatchedInv, Unmatched, Highest
    <3> QED BY <1>2, <3>1, <3>2, <3>3
  <2>3. CASE RepairWithoutEnd
    BY <2>3 DEF RepairWithoutEnd
  <2>4. CASE CrashEnd
    <3>1. /\ main.pc = "crash_end" /\ AppendEnd(main.seq, "crash") /\ main' = Idle
          /\ UNCHANGED <<signal, started, ended, allocated, handle, meta>>
      BY <2>4 DEF CrashEnd, Restore
    <3>2. [seq |-> main.seq, reason |-> "crash"] \in EndEnvelopes
      BY <3>1 DEF EndEnvelopes, EndReasons, WorkerInv, OwnedSessions
    <3>3. EndsInv' /\ Answered'
      BY <3>1, <3>2, AppendHighest DEF AppendEnd, NewestInv
    <3>4. NewestInv'
      BY <3>1, <3>3 DEF NewestInv, Highest
    <3>5. UnmatchedInv'
      BY <3>1 DEF UnmatchedInv, Unmatched, Highest
    <3> QED BY <3>1, <3>3, <3>4, <3>5
  <2> QED BY <1>10, <2>1, <2>2, <2>3, <2>4 DEF Recover
<1>11. CASE StopStep \/ MetaCall
  <2>1. CASE MetaStart \/ MetaSend
    <3>1. UNCHANGED <<ends, signal, started, ended, allocated, handle, last, main, meta>>
      BY <2>1 DEF MetaStart, MetaSend
    <3> QED BY <1>2, <1>3, <3>1 DEF NewestInv, UnmatchedInv, Unmatched, Highest
  <2>2. ~StopStep /\ ~Interrupt /\ \A how \in {"stop", "restart"} : ~StopWithoutWorker(how) /\ ~StopBegin(how)
    BY DEF StopStep, Interrupt, InterruptDropped, StopWithoutWorker, StopBegin, StopCalled, StopClose, StopEnd,
       StopEnded, StopFlags
  <2> QED BY <1>11, <2>1, <2>2 DEF MetaCall
<1>12. CASE Worker
  <2>1. /\ UNCHANGED <<ends, started, ended, allocated, handle, last, main, meta>> /\ handle \in live
        /\ signal' = signal \/ signal' = handle
    BY <1>12 DEF Worker, WorkerSignals, WorkerReads, WorkerTurnEnds, AtWork
  <2> QED BY <1>2, <1>3, <2>1 DEF NewestInv, UnmatchedInv, Unmatched, Highest
<1>13. CASE StageMoved \/ UNCHANGED vars
  <2>1. UNCHANGED <<ends, signal, started, ended, allocated, handle, last, main, meta>>
    BY <1>13 DEF StageMoved, vars
  <2> QED BY <1>2, <1>3, <2>1 DEF NewestInv, UnmatchedInv, Unmatched, Highest
<1> QED BY <1>4, <1>5, <1>6, <1>7, <1>8, <1>9, <1>10, <1>11, <1>12, <1>13 DEF Next, Main, Cleanup

\* Before the first session, and at the exit.
LEMMA ExitEnds == (Init => ExitInv) /\ (ExitInv => CleanExitRecordsAll)
<1>1. Init => ExitInv
  BY DEF Init, ExitInv, EndsInv, NewestInv, UnmatchedInv, EndSeqs, Unmatched, Highest, Idle, NoStop, None, Closing
<1>2. ExitInv => CleanExitRecordsAll
  BY DEF ExitInv, UnmatchedInv, Unmatched, CleanExitRecordsAll
<1> QED BY <1>1, <1>2

\* A host that exits in order leaves every STARTED with its ENDED, whatever hosts before it crashed
\* (cleanupAndExit, repairHalfCompletedWorker), as long as records and envelopes can be written, no
\* stop races it and no host comes up to a stage that awaits the user.
THEOREM CleanExitsLeaveNoGap ==
  ASSUME Tools \cap {"stop", "restart", "interrupt"} = {}, "away" \notin StageMoves,
         "mail" \notin Faults, "repair" \notin Faults, "log" \notin Faults
  PROVE  Spec => []CleanExitRecordsAll
BY WorkerInvariant, SignalEnds, SignalStepKeeps, ExitEnds, ExitStepKeeps, PTL DEF Spec

-----------------------------------------------------------------------------
\* When Meta neither restarts nor interrupts, nothing but a dispatch or an instruction of its own makes
\* the host want another worker, and what it wants is forgotten once it holds one.
DispatchInv ==
  /\ meta.pc # "posted" /\ meta.how = "stop"
  /\ meta.pc # "idle" /\ main.pc \notin Cleaning => epoch = meta.epoch
  /\ main.pc \in Booting => meta.pc = "idle"
  /\ main.reason # "interrupt" /\ \A i \in DOMAIN ends : ends[i].reason # "interrupt"
  /\ "continue" \notin waiting
StartInv ==
  /\ main.pc \in {"allocate", "record", "session", "start_failed", "take_baseline", "end", "flag", "close_baseline",
                  "ended"} \cup Booting => handle = None
  /\ main.pc \in Booting => ~want
  /\ main.pc \notin {"inject"} \cup Cleaning /\ handle # None => ~want /\ waiting = {}
  /\ main.pc \notin {"session", "start_failed", "inject"} \cup Cleaning /\ want => decided \/ unread # 0
  /\ main.pc \in {"allocate", "record"} /\ last # None => decided \/ unread # 0
DecidedInv == DispatchInv /\ StartInv

\* No envelope of an interrupt.
LEMMA AppendReason ==
  ASSUME ends \in Seq(EndEnvelopes), NEW e \in EndEnvelopes, ends' = Append(ends, e), e.reason # "interrupt",
         \A i \in DOMAIN ends : ends[i].reason # "interrupt"
  PROVE  (\A i \in DOMAIN ends : ends[i].reason # "interrupt")'
BY AppendedEnds

LEMMA DecidedStepKeeps ==
  ASSUME "restart" \notin Tools, "interrupt" \notin Tools, WorkerInv, DecidedInv, [Next]_vars
  PROVE  DecidedInv'
<1>0. /\ main \in MainStates /\ meta \in StopStates /\ ends \in Seq(EndEnvelopes) /\ live \subseteq Seqs
      /\ want \in BOOLEAN /\ decided \in BOOLEAN /\ unread \in Nat /\ baseline \in Nat /\ sent \in Nat /\ None \notin Seqs
  BY BoundsAssumption DEF WorkerInv, TypeOK, ThreadTypes, DurableTypes, SessionTypes, PlanTypes, None, Seqs
<1>1. /\ main.pc \in Closing => meta.pc \in {"idle", "posted"}
      /\ main.pc = "close" => handle = main.seq /\ handle # None
  BY <1>0 DEF WorkerInv, Ownership, OwnedSessions, Closing
<1>2. ends' = ends => ((\A i \in DOMAIN ends : ends[i].reason # "interrupt")' <=> (\A i \in DOMAIN ends : ends[i].reason # "interrupt"))
  OBVIOUS
<1> USE <1>0, <1>1, <1>2 DEF DecidedInv, DispatchInv, StartInv, events, mailbox, worker, plan, guard, Goto, Work,
            Idle, NoStop, HostUp, Starting, Closing, Cleaning, Booting
<1>3. CASE Tick
  <2>1. UNCHANGED <<ends, handle, last, unread, decided, meta, epoch>>
    BY <1>3 DEF Tick, TickBegin, Check, Reconcile
  <2>2. CASE TickBegin
    BY <2>1, <2>2 DEF TickBegin, MainStates
  <2>3. CASE Check
    <3>1. main.pc = "check" /\ main'.pc = "reconcile" /\ main'.reason = main.reason
      BY <2>3 DEF Check, MainStates
    <3>2. CASE UNCHANGED plan
      BY <2>1, <3>1, <3>2
    <3>3. CASE waiting # {} /\ Instructed /\ StartWanted
      <4>1. unread # 0 /\ handle = None /\ waiting' = {}
        BY <3>1, <3>3 DEF Instructed, StartWanted, None
      <4> QED BY <2>1, <3>1, <4>1
    <3> QED BY <2>3, <3>2, <3>3 DEF Check
  <2>4. CASE Reconcile
    BY <2>1, <2>4 DEF Reconcile, FirstStart, MainStates
  <2> QED BY <1>3, <2>2, <2>3, <2>4 DEF Tick
<1>4. CASE Start
  <2>1. UNCHANGED <<ends, unread, meta, epoch>>
    BY <1>4 DEF Start, Allocate, Record, StartSession, StartFailed, TakeBaseline, Inject
  <2>2. CASE Allocate
    BY <2>1, <2>2 DEF Allocate, MainStates
  <2>3. CASE Record
    BY <2>1, <2>3 DEF Record, MainStates
  <2>4. CASE StartSession
    BY <2>1, <2>4 DEF StartSession, MainStates
  <2>5. CASE StartFailed
    BY <2>1, <2>5 DEF StartFailed, MainStates
  <2>6. CASE TakeBaseline
    BY <2>1, <2>6 DEF TakeBaseline, CaptureBaseline, MainStates
  <2>7. CASE Inject
    BY <2>1, <2>7 DEF Inject, MainStates
  <2> QED BY <1>4, <2>2, <2>3, <2>4, <2>5, <2>6, <2>7 DEF Start
<1>5. CASE Finalize
  <2>1. UNCHANGED <<want, unread, last, epoch, meta>>
    BY <1>5 DEF Finalize, Monitor, Close, CloseFailed, End, Flag, CloseBaseline, CaptureBaseline, Ended
  <2>2. CASE Monitor
    BY <2>1, <2>2 DEF Monitor, MayFinalize, MainStates
  <2>3. CASE Close
    <3>1. main.pc = "close" /\ UNCHANGED <<ends, waiting>>
      BY <2>3 DEF Close
    <3>2. CASE CloseFailed /\ main' = Idle /\ UNCHANGED decided
      BY <2>1, <3>1, <3>2 DEF CloseFailed
    <3>3. CASE ClearWorker /\ Goto("close_baseline")
      BY <2>1, <3>1, <3>3 DEF ClearWorker, MainStates
    <3>4. ASSUME NEW r \in Reasons(main.seq), ClearWorker, Work("end", main.seq, r) PROVE DecidedInv'
      BY <2>1, <3>1, <3>4 DEF ClearWorker, Reasons
    <3> QED BY <2>3, <3>2, <3>3, <3>4 DEF Close
  <2>4. CASE End
    <3>1. /\ main.pc = "end" /\ UNCHANGED <<waiting, handle, decided>>
          /\ main'.pc \in {"flag", "ended"} /\ main'.reason = main.reason
          /\ ends' = ends \/ AppendEnd(main.seq, main.reason)
      BY <2>4 DEF End, MainStates
    <3>2. [seq |-> main.seq, reason |-> main.reason] \in EndEnvelopes
      BY <3>1 DEF EndEnvelopes, MainStates, WorkerInv, OwnedSessions
    <3>3. (\A i \in DOMAIN ends : ends[i].reason # "interrupt")'
      BY <3>1, <3>2, AppendReason DEF AppendEnd
    <3> QED BY <2>1, <3>1, <3>3
  <2>5. CASE Flag
    <3>1. WaitFor(main.reason) # "continue"
      BY DEF WaitFor, MainStates, EndReasons
    <3>2. /\ main.pc = "flag" /\ main'.pc = "ended" /\ main'.reason = main.reason
          /\ waiting' = waiting \cup {WaitFor(main.reason)} /\ UNCHANGED <<ends, handle, decided>>
      BY <2>5 DEF Flag, MainStates
    <3> QED BY <2>1, <3>1, <3>2
  <2>6. CASE CloseBaseline
    BY <2>1, <2>6 DEF CloseBaseline, CaptureBaseline, MainStates
  <2>7. CASE Ended
    BY <2>1, <2>7 DEF Ended, MainStates
  <2> QED BY <1>5, <2>2, <2>3, <2>4, <2>5, <2>6, <2>7 DEF Finalize
<1>6. CASE Wait \/ Teardown \/ Shutdown
  BY <1>6 DEF Wait, Teardown, Shutdown, MainStates
<1>7. CASE Exit \/ Crash
  <2>1. /\ meta' = NoStop /\ main' = [Idle EXCEPT !.pc = "down"] /\ handle' = None /\ want' = FALSE /\ waiting' = {}
        /\ ends' = ends
    BY <1>7, Zenon DEF Exit, Crash, Die, mailbox
  <2> QED BY <2>1
<1>8. CASE Boot
  <2>1. /\ main.pc = "down" /\ UNCHANGED <<ends, handle, last, unread, want, waiting, decided, meta, epoch>>
    BY <1>8 DEF Boot
  <2>2. main'.pc \in {"idle", "synth", "repair", "crash_ended"} /\ main'.reason # "interrupt"
    <3>1. CASE ends # <<>> /\ main' = [pc |-> "repair", seq |-> LatestEnd.seq, reason |-> LatestEnd.reason]
      <4>1. Len(ends) \in DOMAIN ends
        BY <3>1
      <4> QED BY <3>1, <4>1 DEF LatestEnd
    <3>2. ASSUME NEW s, NEW e \in EndOf(s), main' = [pc |-> "repair", seq |-> s, reason |-> e.reason]
          PROVE  main'.pc = "repair" /\ main'.reason # "interrupt"
      BY <3>2 DEF EndOf
    <3>3. ASSUME NEW s, main' = [pc |-> "crash_ended", seq |-> s, reason |-> "crash"]
          PROVE  main'.pc = "crash_ended" /\ main'.reason # "interrupt"
      BY <3>3
    <3>4. CASE main' = Idle \/ main' = [pc |-> "synth", seq |-> signal, reason |-> "active"]
      BY <3>4
    <3> QED BY <1>8, <3>1, <3>2, <3>3, <3>4 DEF Boot, EndUndecided
  <2> QED BY <2>1, <2>2
<1>9. CASE Recover
  <2>1. /\ main.pc \in Booting /\ UNCHANGED <<handle, unread, want, decided, meta, epoch>>
    BY <1>9 DEF Recover, Synthesize, RepairEnd, RepairWithoutEnd, CrashEnded, CrashEnd, PairedEnded, Restore
  <2>2. CASE Synthesize
    <3>1. /\ main.pc = "synth" /\ UNCHANGED <<waiting, last>>
          /\ main'.pc \in {"repair", "unrepaired"} /\ main'.reason = main.reason
          /\ ends' = ends \/ AppendEnd(main.seq, "active")
      BY <2>2 DEF Synthesize, MainStates
    <3>2. [seq |-> main.seq, reason |-> "active"] \in EndEnvelopes
      BY <3>1 DEF EndEnvelopes, EndReasons, WorkerInv, OwnedSessions
    <3>3. (\A i \in DOMAIN ends : ends[i].reason # "interrupt")'
      BY <3>1, <3>2, AppendReason DEF AppendEnd
    <3> QED BY <2>1, <3>1, <3>3
  <2>3. CASE RepairEnd
    <3>1. WaitFor(main.reason) # "continue"
      BY DEF WaitFor, MainStates, EndReasons
    <3>2. main' = Idle /\ waiting' = {WaitFor(main.reason)} /\ ends' = ends
      BY <2>3 DEF RepairEnd, Restore
    <3> QED BY <2>1, <3>1, <3>2
  <2>4. CASE RepairWithoutEnd
    BY <2>1, <2>4 DEF RepairWithoutEnd
  <2>5. CASE CrashEnded
    BY <2>1, <2>5 DEF CrashEnded, MainStates
  <2>6. CASE CrashEnd
    <3>1. /\ main.pc = "crash_end" /\ main' = Idle /\ waiting' = {"session_end"}
          /\ ends' = ends \/ AppendEnd(main.seq, "crash")
      BY <2>6 DEF CrashEnd, Restore
    <3>2. [seq |-> main.seq, reason |-> "crash"] \in EndEnvelopes
      BY <3>1 DEF EndEnvelopes, EndReasons, WorkerInv, OwnedSessions
    <3>3. (\A i \in DOMAIN ends : ends[i].reason # "interrupt")'
      BY <3>1, <3>2, AppendReason DEF AppendEnd
    <3> QED BY <2>1, <3>1, <3>3
  <2> QED BY <1>9, <2>2, <2>3, <2>4, <2>5, <2>6 DEF Recover
<1>10. CASE StopStep \/ MetaCall
  <2>1. CASE MetaStart
    <3>1. /\ handle = None /\ want' = TRUE /\ waiting' = {} /\ decided' = TRUE /\ main.pc \notin Booting
          /\ UNCHANGED <<ends, handle, last, unread, main, meta, epoch>>
      BY <2>1 DEF MetaStart, HasActiveWorker, StartWanted
    <3> QED BY <3>1
  <2>2. CASE MetaSend
    <3>1. /\ unread' = sent + 1 /\ decided' = TRUE
          /\ UNCHANGED <<ends, handle, last, want, waiting, main, meta, epoch>>
      BY <2>2 DEF MetaSend
    <3> QED BY <3>1
  <2>3. CASE StopWithoutWorker("stop")
    <3>1. /\ handle = None /\ UNCHANGED <<ends, handle, last, unread, want, decided, main, epoch>> /\ meta' = NoStop
          /\ "continue" \notin waiting'
      BY <2>3 DEF StopWithoutWorker, HasActiveWorker, Dispatch
    <3> QED BY <3>1
  <2>4. CASE StopBegin("stop")
    <3>1. /\ UNCHANGED <<ends, handle, last, unread, want, waiting, decided, main, epoch>> /\ main.pc \notin Booting
          /\ meta' = [pc |-> "close", seq |-> handle, how |-> "stop", epoch |-> epoch]
      BY <2>4 DEF StopBegin, StopCalled, MetaFree, Dispatch
    <3> QED BY <3>1
  <2>5. CASE StopClose
    <3>1. meta.pc = "close" /\ UNCHANGED <<ends, last, unread, want, decided, main>> /\ main.pc \notin Booting
      BY <2>5 DEF StopClose, CloseFailed
    <3>2. CASE CloseFailed /\ meta' = NoStop /\ UNCHANGED waiting
      BY <3>1, <3>2 DEF CloseFailed
    <3>3. CASE Fenced /\ Released /\ UNCHANGED handle /\ waiting' = (waiting \ {"completion", "continue", "no_restart"}) \cup {"no_restart"}
      BY <3>1, <3>3 DEF Fenced, Released
    <3>4. CASE ClearWorker /\ MetaGoto("end") /\ UNCHANGED guard /\ waiting' = (waiting \ {"completion", "continue", "no_restart"}) \cup {"no_restart"}
      BY <3>1, <3>4 DEF ClearWorker, MetaGoto, StopStates
    <3> QED BY <2>5, <3>2, <3>3, <3>4 DEF StopClose
  <2>6. CASE StopEnd
    <3>1. /\ meta.pc = "end" /\ UNCHANGED <<handle, last, unread, want, waiting, decided, main, epoch>>
          /\ meta'.pc \in {"flags", "ended"} /\ meta'.how = meta.how /\ meta'.epoch = meta.epoch
          /\ ends' = ends \/ AppendEnd(meta.seq, "stop")
      BY <2>6 DEF StopEnd, MetaGoto, StopStates
    <3>2. [seq |-> meta.seq, reason |-> "stop"] \in EndEnvelopes
      BY <3>1 DEF EndEnvelopes, EndReasons, StopStates, WorkerInv, OwnedSessions
    <3>3. (\A i \in DOMAIN ends : ends[i].reason # "interrupt")'
      BY <3>1, <3>2, AppendReason DEF AppendEnd
    <3> QED BY <3>1, <3>3
  <2>7. CASE StopEnded
    BY <2>7 DEF StopEnded, MetaGoto, StopStates
  <2>8. CASE StopFlags
    <3>1. /\ waiting' = waiting /\ want' = want /\ meta' = NoStop
      BY <2>8 DEF StopFlags, Released
    <3>2. UNCHANGED <<ends, handle, last, unread, decided, main, epoch>>
      BY <2>8, Zenon DEF StopFlags, Released, mailbox, worker, guard
    <3> QED BY <3>1, <3>2
  <2>9. ~Interrupt /\ ~StopCalled("interrupt") /\ ~StopCalled("restart")
    BY DEF Interrupt, StopCalled
  <2>10. ASSUME NEW how \in {"interrupt", "restart"}
         PROVE  ~InterruptDropped /\ ~StopWithoutWorker(how) /\ ~StopBegin(how)
    BY <2>9, <2>10 DEF InterruptDropped, StopWithoutWorker, StopBegin
  <2> QED BY <1>10, <2>1, <2>2, <2>3, <2>4, <2>5, <2>6, <2>7, <2>8, <2>9, <2>10 DEF StopStep, MetaCall
<1>11. CASE Worker
  <2>1. /\ UNCHANGED <<ends, handle, last, want, waiting, decided, main, meta, epoch>> /\ handle \in live
        /\ main.pc \notin Starting
    BY <1>11 DEF Worker, WorkerSignals, WorkerReads, WorkerTurnEnds, AtWork
  <2> QED BY <2>1
<1>12. CASE StageMoved \/ UNCHANGED vars
  BY <1>12 DEF StageMoved, vars
<1> QED BY <1>3, <1>4, <1>5, <1>6, <1>7, <1>8, <1>9, <1>10, <1>11, <1>12 DEF Next, Main, Cleanup

\* Before the first tick, and what the invariant says of a step that records a start.
LEMMA DecidedEnds ==
  /\ Init => DecidedInv
  /\ DecidedInv /\ [Next]_vars => [(started' # started /\ last # None) => (decided \/ unread # 0)]_vars
<1>1. Init => DecidedInv
  BY DEF Init, DecidedInv, DispatchInv, StartInv, Idle, NoStop, None, Booting
<1>2. DecidedInv /\ [Next]_vars => [(started' # started /\ last # None) => (decided \/ unread # 0)]_vars
  <2> SUFFICES ASSUME DecidedInv, Next, started' # started, last # None PROVE decided \/ unread # 0
    OBVIOUS
  <2>1. main.pc = "record"
    <3>1. ASSUME NEW how, StopWithoutWorker(how) \/ StopBegin(how) PROVE FALSE
      BY <3>1 DEF StopWithoutWorker, StopBegin, events
    <3> QED BY <3>1 DEF Next, Main, Tick, Start, Finalize, Cleanup, Recover, Boot, Crash, Exit, Die, StopStep,
            MetaCall, Worker, TickBegin, Check, Reconcile, Allocate, Record, StartSession, StartFailed, TakeBaseline,
            Inject, Monitor, Close, End, Flag, CloseBaseline, Ended, Wait, Teardown, Shutdown, Synthesize, RepairEnd,
            RepairWithoutEnd, CrashEnded, CrashEnd, PairedEnded, InterruptDropped, StopClose, StopEnd, StopEnded,
            StopFlags, MetaStart, MetaSend, Interrupt, WorkerSignals, WorkerReads, WorkerTurnEnds, StageMoved, events
  <2> QED BY <2>1 DEF DecidedInv, StartInv
<1> QED BY <1>1, <1>2

\* Continuation is Meta's: whatever crashes and fails, a host that knows of an earlier worker starts
\* another one only on a dispatch of Meta's since the last one was over, or with an instruction
\* waiting, if Meta neither restarts nor interrupts (reconcileWorker of daemon.ts, docs/RUNTIME.md:61).
THEOREM StartsAreMetas ==
  ASSUME "restart" \notin Tools, "interrupt" \notin Tools
  PROVE  Spec => StartsAreDecided
BY WorkerInvariant, DecidedEnds, DecidedStepKeeps, PTL DEF Spec, StartsAreDecided
====
