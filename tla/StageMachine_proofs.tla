---- MODULE StageMachine_proofs ----
(***************************************************************************)
(* Theorems about StageMachine, for any set of user processes, any choice   *)
(* of commands and any number of envelopes.                                  *)
(*                                                                           *)
(* The invariants of StageMachine speak of the manifest; what makes them     *)
(* inductive is what every decision in flight guarantees about the write it  *)
(* will attempt: it is an edge of the state machine, it enters `running`     *)
(* only after a review, and a gate that has passed has seen a verdict newer  *)
(* than every claim known when the call began.                               *)
(***************************************************************************)
EXTENDS StageMachine, TLAPS

\* A change waiting for its compare-and-set is an edge of the documented state machine.
PendingEdges ==
  /\ \A c \in Cli : cli[c] # NoChange => <<cli[c].from, cli[c].to>> \in Lifecycle!Edges
  /\ meta.pc \notin {"idle", "called"} => TransitionAllowed(meta.from, meta.to)

\* Whoever is about to write `running` knows that the review has happened.
PendingRunningWasReviewed ==
  /\ \A c \in Cli : cli[c].to = "running" => reviewed
  /\ meta.pc = "cas" /\ meta.to = "running" => reviewed
  /\ meta.pc \in {"final_anchor", "final_seen"} => meta.to # "running"
  /\ Stamps("bootstrap_verdict") # {} => reviewed

LifecycleInv == /\ TypeOK
                /\ PausedRemembersOrigin
                /\ RunningWasReviewed
                /\ PendingEdges
                /\ PendingRunningWasReviewed

\* Time stamps are handed out once: what is still to be appended differs from what is
\* in the stream and from what the call in flight knows.
StampsAreFresh ==
  /\ \A e \in stamped \cup mail : e.at <= clock
  /\ \A at \in known : at <= clock
  /\ \A e \in stamped : e.at \notin known
  /\ \A e \in stamped : \A m \in mail : e.at # m.at
  /\ \A d, e \in stamped : d.at = e.at => d = e

\* How far the final gate has come: the anchor is no older than any claim known at the
\* call, and past the gate each of those claims has its verdict.
GateProgress ==
  /\ meta.pc = "bootstrap_gate" => meta.to = "running"
  /\ meta.pc = "final_seen" => \A at \in known \cap Stamps("claim") : at <= meta.since
  /\ (meta.pc = "cas" /\ meta.from = "running" /\ meta.to \in {"awaiting_user", "done"})
       => Reviewed(known \cap Stamps("claim"))

\* No command ends a running task's work for good without cancelling it.
CommandsLeaveRunning ==
  \A c \in Cli : cli[c].from = "running" => cli[c].to \in {"paused", "cancelled"}

ReviewInv == /\ StampsAreFresh
             /\ GateProgress
             /\ CommandsLeaveRunning

-----------------------------------------------------------------------------
\* The stages of the model are those of the lifecycle, and a writer that goes through
\* the compare-and-set with an edge keeps the manifest's two fields consistent.
LEMMA EdgesOfStages ==
  ASSUME NEW from, NEW to, <<from, to>> \in Lifecycle!Edges
  PROVE  /\ from \in InProgress \cup {"paused"}
         /\ to \in Stages
         /\ to = "paused" => from \in InProgress
BY DEF Lifecycle!Edges, Lifecycle!InProgress, Lifecycle!Resettable, InProgress, Terminal, Stages

\* The table of checkTransitionAllowed allows only documented edges.
LEMMA TableIsDocumented ==
  ASSUME NEW from, NEW to, TransitionAllowed(from, to)
  PROVE  /\ <<from, to>> \in Lifecycle!Edges
         /\ to # "paused"
BY DEF TransitionAllowed, Lifecycle!Edges, Lifecycle!InProgress, Lifecycle!Resettable, InProgress

\* applyStageTransition with an edge: the manifest stays well formed, a stage that is
\* left was left along that edge, and `running` is entered only as the edge says.
LEMMA CasAlongEdge ==
  ASSUME TypeOK, PausedRemembersOrigin, RunningWasReviewed, reviewed' = reviewed,
         NEW from, NEW to, <<from, to>> \in Lifecycle!Edges,
         to = "running" => reviewed,
         ApplyStageTransition(from, to)
  PROVE  /\ stage' \in Stages
         /\ pausedFrom' \in InProgress \cup {None}
         /\ PausedRemembersOrigin'
         /\ RunningWasReviewed'
         /\ stage' = stage \/ (stage = from /\ stage' = to)
<1> /\ to \in Stages
    /\ to = "paused" => from \in InProgress
  BY EdgesOfStages
<1>1. CASE stage = from
  <2>1. stage' = to /\ pausedFrom' = IF to = "paused" THEN from ELSE None
    BY <1>1 DEF ApplyStageTransition, SetStage
  <2>2. None \notin InProgress
    BY DEF None, InProgress
  <2>3. PausedRemembersOrigin'
    BY <2>1, <2>2 DEF PausedRemembersOrigin
  <2>4. RunningWasReviewed'
    BY <1>1, <2>1, <2>2 DEF RunningWasReviewed, None
  <2> QED BY <1>1, <2>1, <2>3, <2>4
<1>2. CASE stage # from
  <2>1. stage' = stage /\ pausedFrom' = pausedFrom
    BY <1>2 DEF ApplyStageTransition
  <2> QED BY <2>1 DEF TypeOK, PausedRemembersOrigin, RunningWasReviewed
<1> QED BY <1>1, <1>2

-----------------------------------------------------------------------------
\* A new task's manifest is well formed and nobody has decided anything yet.
LEMMA InitialLifecycleInv == Init => LifecycleInv
<1> SUFFICES ASSUME Init PROVE LifecycleInv
  OBVIOUS
<1> USE DEF Init, NoChange, NoCall, None
<1>1. TypeOK
  <2>1. meta \in Calls /\ cli \in [Cli -> Changes] /\ clock \in 0..MaxStamps
    BY MaxStampsAssumption DEF Calls, CallPcs, Changes
  <2> QED BY <2>1 DEF TypeOK, Stages, InProgress
<1>2. PausedRemembersOrigin /\ RunningWasReviewed
  BY DEF PausedRemembersOrigin, RunningWasReviewed
<1>3. PendingEdges
  BY DEF PendingEdges
<1>4. PendingRunningWasReviewed
  BY DEF PendingRunningWasReviewed, Stamps
<1> QED BY <1>1, <1>2, <1>3, <1>4 DEF LifecycleInv

\* What the manifest's invariants rest on when a step leaves the manifest alone.
LEMMA ManifestUntouched ==
  ASSUME LifecycleInv, UNCHANGED <<stage, pausedFrom>>, reviewed => reviewed'
  PROVE  /\ stage' \in Stages
         /\ pausedFrom' \in InProgress \cup {None}
         /\ PausedRemembersOrigin'
         /\ RunningWasReviewed'
BY DEF LifecycleInv, TypeOK, PausedRemembersOrigin, RunningWasReviewed

\* The bus adds and loses envelopes, which can only record a review, never undo one.
LEMMA BusStepsKeepLifecycleInv ==
  ASSUME LifecycleInv,
         \/ \E kind \in Kinds : Stamp(kind)
         \/ \E e \in stamped : Append(e)
         \/ Quarantine
  PROVE  LifecycleInv'
<1> USE DEF LifecycleInv
<1>1. CASE \E kind \in Kinds : Stamp(kind)
  <2>1. PICK kind \in Kinds : Stamp(kind)
    BY <1>1
  <2>2. clock + 1 \in 1..MaxStamps
    BY <2>1, MaxStampsAssumption DEF Stamp, TypeOK
  <2>3. TypeOK'
    BY <2>1, <2>2 DEF Stamp, TypeOK, Envelopes
  <2>4. PendingEdges' /\ PendingRunningWasReviewed'
    BY <2>1 DEF Stamp, PendingEdges, PendingRunningWasReviewed, Stamps
  <2> QED BY <2>1, <2>3, <2>4, ManifestUntouched DEF Stamp
<1>2. CASE \E e \in stamped : Append(e)
  <2>1. PICK e \in stamped : Append(e)
    BY <1>2
  <2>2. TypeOK'
    BY <2>1 DEF Append, TypeOK
  <2>3. PendingEdges'
    BY <2>1 DEF Append, PendingEdges
  <2>4. PendingRunningWasReviewed'
    BY <2>1 DEF Append, PendingRunningWasReviewed, Stamps
  <2>5. reviewed => reviewed'
    BY <2>1 DEF Append
  <2> QED BY <2>1, <2>2, <2>3, <2>4, <2>5, ManifestUntouched DEF Append
<1>3. CASE Quarantine
  <2>1. TypeOK'
    BY <1>3 DEF Quarantine, TypeOK
  <2>2. PendingEdges' /\ PendingRunningWasReviewed'
    BY <1>3 DEF Quarantine, PendingEdges, PendingRunningWasReviewed, Stamps
  <2> QED BY <1>3, <2>1, <2>2, ManifestUntouched DEF Quarantine
<1> QED BY <1>1, <1>2, <1>3

\* sh_stage__advance prepares and makes only documented changes, and prepares `running`
\* only behind the bootstrap gate.
LEMMA AdvanceKeepsLifecycleInv ==
  ASSUME LifecycleInv, Advance
  PROVE  LifecycleInv'
<1> USE DEF LifecycleInv
<1>0. ASSUME Return
      PROVE  /\ meta' \in Calls
             /\ known' \subseteq 1..MaxStamps
             /\ meta'.pc = "idle" /\ meta'.to = None
  BY <1>0, MaxStampsAssumption DEF Return, NoCall, Calls, CallPcs, None
<1>1. CASE \E to \in AdvanceTargets : AdvanceCall(to)
  <2>1. PICK to \in AdvanceTargets : AdvanceCall(to)
    BY <1>1
  <2>2. meta' = [pc |-> "called", from |-> None, to |-> to, since |-> 0]
    BY <2>1 DEF AdvanceCall, NoCall
  <2>3. Stamps("claim") \subseteq 1..MaxStamps
    BY DEF TypeOK, Stamps, Envelopes
  <2>4. TypeOK'
    BY <2>1, <2>2, <2>3, MaxStampsAssumption DEF AdvanceCall, bus, TypeOK, Calls, CallPcs
  <2>5. PendingEdges' /\ PendingRunningWasReviewed'
    BY <2>1, <2>2 DEF AdvanceCall, bus, PendingEdges, PendingRunningWasReviewed, Stamps
  <2> QED BY <2>1, <2>4, <2>5, ManifestUntouched DEF AdvanceCall, bus
<1>2. CASE AdvanceLoad
  <2>1. CASE TransitionAllowed(stage, meta.to)
    <3>1. meta' = [meta EXCEPT !.pc = StageGate(stage, meta.to), !.from = stage]
      BY <1>2, <2>1 DEF AdvanceLoad
    <3>2. StageGate(stage, meta.to) \in CallPcs
      BY DEF StageGate, CallPcs
    <3>3. TypeOK'
      BY <1>2, <2>1, <3>1, <3>2 DEF AdvanceLoad, bus, TypeOK, Calls
    <3>4. PendingEdges'
      BY <1>2, <2>1, <3>1 DEF AdvanceLoad, PendingEdges, TypeOK, Calls
    <3>5. PendingRunningWasReviewed'
      BY <1>2, <2>1, <3>1
         DEF AdvanceLoad, bus, PendingRunningWasReviewed, RunningWasReviewed, StageGate,
             TypeOK, Calls, Stamps
    <3> QED BY <1>2, <3>3, <3>4, <3>5, ManifestUntouched DEF AdvanceLoad, bus
  <2>2. CASE ~TransitionAllowed(stage, meta.to)
    <3>1. Return
      BY <1>2, <2>2 DEF AdvanceLoad
    <3>2. TypeOK'
      BY <1>0, <1>2, <3>1 DEF AdvanceLoad, bus, TypeOK
    <3>3. PendingEdges' /\ PendingRunningWasReviewed'
      BY <1>0, <1>2, <3>1 DEF AdvanceLoad, bus, PendingEdges, PendingRunningWasReviewed, Stamps
    <3> QED BY <1>2, <3>2, <3>3, ManifestUntouched DEF AdvanceLoad, bus
  <2> QED BY <2>1, <2>2
<1>3. CASE AdvanceBootstrapGate
  <2>1. CASE Stamps("bootstrap_verdict") # {}
    <3>1. meta' = [meta EXCEPT !.pc = "cas"] /\ UNCHANGED known
      BY <1>3, <2>1 DEF AdvanceBootstrapGate, Goto
    <3>2. TypeOK'
      BY <1>3, <3>1 DEF AdvanceBootstrapGate, bus, TypeOK, Calls, CallPcs
    <3>3. PendingEdges' /\ PendingRunningWasReviewed'
      BY <1>3, <2>1, <3>1
         DEF AdvanceBootstrapGate, bus, PendingEdges, PendingRunningWasReviewed, TypeOK, Calls, Stamps
    <3> QED BY <1>3, <3>2, <3>3, ManifestUntouched DEF AdvanceBootstrapGate, bus
  <2>2. CASE Stamps("bootstrap_verdict") = {}
    <3>1. Return
      BY <1>3, <2>2 DEF AdvanceBootstrapGate
    <3>2. TypeOK'
      BY <1>0, <1>3, <3>1 DEF AdvanceBootstrapGate, bus, TypeOK
    <3>3. PendingEdges' /\ PendingRunningWasReviewed'
      BY <1>0, <1>3, <3>1 DEF AdvanceBootstrapGate, bus, PendingEdges, PendingRunningWasReviewed, Stamps
    <3> QED BY <1>3, <3>2, <3>3, ManifestUntouched DEF AdvanceBootstrapGate, bus
  <2> QED BY <2>1, <2>2
<1>4. CASE AdvanceFinalAnchor \/ AdvanceFinalSeen
  <2>1. \/ Return
        \/ Goto("cas")
        \/ /\ UNCHANGED known
           /\ \E latest \in Stamps("claim") :
                meta' = [meta EXCEPT !.pc = "final_seen", !.since = latest]
    BY <1>4 DEF AdvanceFinalAnchor, AdvanceFinalSeen
  <2>2. Stamps("claim") \subseteq 1..MaxStamps
    BY DEF TypeOK, Stamps, Envelopes
  <2>3. meta' \in Calls /\ known' \subseteq 1..MaxStamps
    <3>1. CASE Return
      BY <1>0, <3>1
    <3>2. CASE Goto("cas")
      BY <3>2 DEF Goto, TypeOK, Calls, CallPcs
    <3>3. ASSUME UNCHANGED known, NEW latest \in Stamps("claim"),
                 meta' = [meta EXCEPT !.pc = "final_seen", !.since = latest]
          PROVE  meta' \in Calls /\ known' \subseteq 1..MaxStamps
      <4>1. latest \in 0..MaxStamps
        BY <2>2, <3>3, MaxStampsAssumption
      <4>2. meta' \in Calls
        BY <3>3, <4>1 DEF TypeOK, Calls, CallPcs
      <4> QED BY <3>3, <4>2 DEF TypeOK
    <3> QED BY <2>1, <3>1, <3>2, <3>3
  <2>4. PendingEdges' /\ PendingRunningWasReviewed'
    BY <1>0, <1>4, <2>1
       DEF AdvanceFinalAnchor, AdvanceFinalSeen, Goto, bus, PendingEdges,
           PendingRunningWasReviewed, TypeOK, Calls, Stamps
  <2>5. UNCHANGED <<stage, pausedFrom, tick, worker, cli, bus>>
    BY <1>4 DEF AdvanceFinalAnchor, AdvanceFinalSeen
  <2>6. TypeOK'
    BY <2>3, <2>5 DEF bus, TypeOK
  <2> QED BY <2>4, <2>5, <2>6, ManifestUntouched DEF bus
<1>5. CASE AdvanceCas
  <2>1. <<meta.from, meta.to>> \in Lifecycle!Edges
    BY <1>5, TableIsDocumented DEF AdvanceCas, PendingEdges
  <2>2. /\ stage' \in Stages /\ pausedFrom' \in InProgress \cup {None}
        /\ PausedRemembersOrigin' /\ RunningWasReviewed'
    BY <1>5, <2>1, CasAlongEdge DEF AdvanceCas, bus, PendingRunningWasReviewed
  <2>3. TypeOK'
    BY <1>0, <1>5, <2>2 DEF AdvanceCas, bus, TypeOK
  <2>4. PendingEdges' /\ PendingRunningWasReviewed'
    BY <1>0, <1>5 DEF AdvanceCas, bus, PendingEdges, PendingRunningWasReviewed, Stamps
  <2> QED BY <2>2, <2>3, <2>4
<1>6. CASE AdvanceFails
  <2>1. TypeOK'
    BY <1>0, <1>6 DEF AdvanceFails, bus, TypeOK
  <2>2. PendingEdges' /\ PendingRunningWasReviewed'
    BY <1>0, <1>6 DEF AdvanceFails, bus, PendingEdges, PendingRunningWasReviewed, Stamps
  <2> QED BY <1>6, <2>1, <2>2, ManifestUntouched DEF AdvanceFails, bus
<1> QED BY <1>1, <1>2, <1>3, <1>4, <1>5, <1>6 DEF Advance

\* The host tick writes two documented changes and a restart forgets what was in flight.
LEMMA HostKeepsLifecycleInv ==
  ASSUME LifecycleInv, Host
  PROVE  LifecycleInv'
<1> USE DEF LifecycleInv
<1>1. CASE TickLoad \/ TickStartWorker \/ TickEnd
  <2>1. TypeOK'
    BY <1>1 DEF TickLoad, TickStartWorker, TickEnd, bus, TypeOK
  <2>2. PendingEdges' /\ PendingRunningWasReviewed'
    BY <1>1 DEF TickLoad, TickStartWorker, TickEnd, bus, PendingEdges, PendingRunningWasReviewed, Stamps
  <2> QED BY <1>1, <2>1, <2>2, ManifestUntouched DEF TickLoad, TickStartWorker, TickEnd, bus
<1>2. CASE TickClarify \/ TickForceFailed
  <2>1. PICK from \in InProgress, to \in {"clarifying", "failed"} :
          /\ <<from, to>> \in Lifecycle!Edges
          /\ ApplyStageTransition(from, to)
    BY <1>2 DEF TickClarify, TickForceFailed, InProgress,
                Lifecycle!Edges, Lifecycle!Resettable, Lifecycle!InProgress
  <2>2. UNCHANGED <<meta, worker, cli, known, bus>> /\ tick' \in InProgress \cup {None}
    BY <1>2 DEF TickClarify, TickForceFailed, InProgress
  <2>3. /\ stage' \in Stages /\ pausedFrom' \in InProgress \cup {None}
        /\ PausedRemembersOrigin' /\ RunningWasReviewed'
    BY <2>1, <2>2, CasAlongEdge DEF bus
  <2>4. TypeOK'
    BY <2>2, <2>3 DEF bus, TypeOK
  <2>5. PendingEdges' /\ PendingRunningWasReviewed'
    BY <2>2 DEF bus, PendingEdges, PendingRunningWasReviewed, Stamps
  <2> QED BY <2>3, <2>4, <2>5
<1>3. CASE HostRestart
  <2>1. meta' \in Calls /\ meta'.pc = "idle" /\ meta'.to = None
    BY <1>3, MaxStampsAssumption DEF HostRestart, NoCall, Calls, CallPcs, None
  <2>2. TypeOK'
    BY <1>3, <2>1 DEF HostRestart, TypeOK
  <2>3. PendingEdges' /\ PendingRunningWasReviewed'
    BY <1>3, <2>1 DEF HostRestart, PendingEdges, PendingRunningWasReviewed, Stamps
  <2> QED BY <1>3, <2>2, <2>3, ManifestUntouched DEF HostRestart
<1> QED BY <1>1, <1>2, <1>3 DEF Host

\* A user command prepares and makes only documented changes; resume prepares the origin
\* the manifest recorded, which was reviewed if it was `running`.
LEMMA UserKeepsLifecycleInv ==
  ASSUME LifecycleInv, NEW c \in Cli, User(c)
  PROVE  LifecycleInv'
<1> USE DEF LifecycleInv
<1>1. ASSUME NEW command, NEW from, NEW to, Decide(c, command, from, to),
             <<from, to>> \in Lifecycle!Edges, to = "running" => reviewed
      PROVE  LifecycleInv'
  <2>1. cli' = [cli EXCEPT ![c] = [from |-> from, to |-> to]]
    BY <1>1 DEF Decide
  <2>2. from \in Stages /\ to \in Stages
    BY <1>1, EdgesOfStages DEF Stages
  <2>3. TypeOK'
    BY <1>1, <2>1, <2>2 DEF Decide, bus, TypeOK, Changes
  <2>4. PendingEdges' /\ PendingRunningWasReviewed'
    BY <1>1, <2>1 DEF Decide, bus, PendingEdges, PendingRunningWasReviewed, TypeOK, Stamps
  <2> QED BY <1>1, <2>3, <2>4, ManifestUntouched DEF Decide, bus
<1> USE DEF Lifecycle!Edges, Lifecycle!Resettable, Lifecycle!InProgress
<1>2. CASE ExecPause(c)
  <2>1. <<stage, "paused">> \in Lifecycle!Edges
    BY <1>2 DEF ExecPause, InProgress
  <2>2. Decide(c, "pause", stage, "paused")
    BY <1>2 DEF ExecPause
  <2> QED BY <1>1, <2>1, <2>2
<1>3. CASE ExecResume(c)
  <2>1. pausedFrom \in InProgress
    BY <1>3 DEF ExecResume, TypeOK
  <2> QED BY <1>1, <1>3, <2>1 DEF ExecResume, InProgress, RunningWasReviewed
<1>4. CASE ExecDone(c)
  BY <1>1, <1>4 DEF ExecDone
<1>5. CASE ExecCancel(c)
  <2>1. <<stage, "cancelled">> \in Lifecycle!Edges
    BY <1>5 DEF ExecCancel, InProgress
  <2>2. Decide(c, "cancel", stage, "cancelled")
    BY <1>5 DEF ExecCancel
  <2> QED BY <1>1, <2>1, <2>2
<1>6. CASE CommandCas(c)
  <2>1. /\ stage' \in Stages /\ pausedFrom' \in InProgress \cup {None}
        /\ PausedRemembersOrigin' /\ RunningWasReviewed'
    BY <1>6, CasAlongEdge DEF CommandCas, bus, PendingEdges, PendingRunningWasReviewed
  <2>2. TypeOK'
    BY <1>6, <2>1 DEF CommandCas, bus, TypeOK, NoChange, Changes
  <2>3. PendingEdges' /\ PendingRunningWasReviewed'
    BY <1>6 DEF CommandCas, bus, PendingEdges, PendingRunningWasReviewed, TypeOK, NoChange, None, Stamps
  <2> QED BY <2>1, <2>2, <2>3
<1>7. CASE CommandFails(c)
  <2>1. TypeOK'
    BY <1>7 DEF CommandFails, bus, TypeOK, NoChange, Changes
  <2>2. PendingEdges' /\ PendingRunningWasReviewed'
    BY <1>7 DEF CommandFails, bus, PendingEdges, PendingRunningWasReviewed, TypeOK, NoChange, None, Stamps
  <2> QED BY <1>7, <2>1, <2>2, ManifestUntouched DEF CommandFails, bus
<1> QED BY <1>2, <1>3, <1>4, <1>5, <1>6, <1>7 DEF User

\* LifecycleInv is an inductive invariant of the whole system.
THEOREM LifecycleInvariant == Spec => []LifecycleInv
<1>1. LifecycleInv /\ [Next]_vars => LifecycleInv'
  <2> SUFFICES ASSUME LifecycleInv, [Next]_vars PROVE LifecycleInv'
    OBVIOUS
  <2>1. CASE UNCHANGED vars
    <3>1. TypeOK' /\ PausedRemembersOrigin' /\ RunningWasReviewed'
      BY <2>1 DEF LifecycleInv, vars, TypeOK, PausedRemembersOrigin, RunningWasReviewed
    <3>2. PendingEdges' /\ PendingRunningWasReviewed'
      BY <2>1 DEF LifecycleInv, vars, PendingEdges, PendingRunningWasReviewed, Stamps
    <3> QED BY <3>1, <3>2 DEF LifecycleInv
  <2> QED BY <2>1, AdvanceKeepsLifecycleInv, HostKeepsLifecycleInv, UserKeepsLifecycleInv,
             BusStepsKeepLifecycleInv DEF Next
<1> QED BY <1>1, InitialLifecycleInv, PTL DEF Spec

\* Every variable keeps its type, for any number of users and envelopes.
THEOREM TypeCorrect == Spec => []TypeOK
<1>1. LifecycleInv => TypeOK
  BY DEF LifecycleInv
<1> QED BY <1>1, LifecycleInvariant, PTL

\* No task runs, or is paused to run again, before a bootstrap self review.
THEOREM RunningIsReviewed == Spec => []RunningWasReviewed
<1>1. LifecycleInv => RunningWasReviewed
  BY DEF LifecycleInv
<1> QED BY <1>1, LifecycleInvariant, PTL

\* A task is paused exactly when the manifest names a stage to resume to.
THEOREM PausedHasOrigin == Spec => []PausedRemembersOrigin
<1>1. LifecycleInv => PausedRemembersOrigin
  BY DEF LifecycleInv
<1> QED BY <1>1, LifecycleInvariant, PTL

-----------------------------------------------------------------------------
(* What a step does to the stage.                                            *)

\* The step is one of the four compare-and-sets, about to change `from` to `to`.
Writes(from, to) == /\ \/ AdvanceCas /\ from = meta.from /\ to = meta.to
                       \/ TickClarify /\ from = "submitted" /\ to = "clarifying"
                       \/ TickForceFailed /\ from = tick /\ to = "failed"
                       \/ \E c \in Cli : CommandCas(c) /\ from = cli[c].from /\ to = cli[c].to
                    /\ ApplyStageTransition(from, to)

\* Every step but a compare-and-set leaves the manifest alone.
LEMMA OnlyWritersChangeTheStage ==
  ASSUME [Next]_vars, reviewed \in BOOLEAN
  PROVE  \/ UNCHANGED <<stage, pausedFrom>> /\ reviewed' \in {reviewed, TRUE}
         \/ (\E from, to : Writes(from, to)) /\ UNCHANGED reviewed
<1> USE DEF bus
<1>1. CASE Advance
  BY <1>1 DEF Advance, AdvanceCall, AdvanceLoad, AdvanceBootstrapGate, AdvanceFinalAnchor,
              AdvanceFinalSeen, AdvanceCas, AdvanceFails, Writes
<1>2. CASE Host
  BY <1>2 DEF Host, TickLoad, TickClarify, TickStartWorker, TickForceFailed, TickEnd,
              HostRestart, Writes
<1>3. CASE \E c \in Cli : User(c)
  BY <1>3 DEF User, ExecPause, ExecResume, ExecDone, ExecCancel, Decide, CommandCas,
              CommandFails, Writes
<1>4. CASE (\E kind \in Kinds : Stamp(kind)) \/ Quarantine \/ UNCHANGED vars
  BY <1>4 DEF Stamp, Quarantine, vars
<1>5. CASE \E e \in stamped : Append(e)
  <2>1. PICK e \in stamped : Append(e)
    BY <1>5
  <2>2. reviewed' = (reviewed \/ e.kind = "bootstrap_verdict")
    BY <2>1 DEF Append
  <2>3. reviewed' \in {reviewed, TRUE}
    BY <2>2
  <2> QED BY <2>1, <2>3 DEF Append
<1> QED BY <1>1, <1>2, <1>3, <1>4, <1>5 DEF Next

\* A compare-and-set is always about a documented change, reviewed if it enters `running`.
LEMMA WritersFollowEdges ==
  ASSUME LifecycleInv, NEW from, NEW to, Writes(from, to)
  PROVE  <<from, to>> \in Lifecycle!Edges /\ (to = "running" => reviewed)
<1> USE DEF LifecycleInv, Writes
<1>1. CASE AdvanceCas /\ from = meta.from /\ to = meta.to
  BY <1>1, TableIsDocumented DEF AdvanceCas, PendingEdges, PendingRunningWasReviewed
<1>2. CASE TickClarify /\ from = "submitted" /\ to = "clarifying"
  BY <1>2 DEF Lifecycle!Edges
<1>3. CASE TickForceFailed /\ from = tick /\ to = "failed"
  BY <1>3 DEF TickForceFailed, InProgress, Lifecycle!Edges, Lifecycle!Resettable, Lifecycle!InProgress
<1>4. CASE \E c \in Cli : CommandCas(c) /\ from = cli[c].from /\ to = cli[c].to
  BY <1>4 DEF CommandCas, PendingEdges, PendingRunningWasReviewed
<1> QED BY <1>1, <1>2, <1>3, <1>4

\* What a step of the system does to the stage: nothing, or a documented change.
LEMMA StepsOfTheStage ==
  ASSUME LifecycleInv, [Next]_vars
  PROVE  \/ stage' = stage /\ reviewed' \in {reviewed, TRUE}
         \/ /\ <<stage, stage'>> \in Lifecycle!Edges
            /\ stage' = "running" => reviewed
            /\ UNCHANGED reviewed
<1>1. CASE UNCHANGED <<stage, pausedFrom>> /\ reviewed' \in {reviewed, TRUE}
  BY <1>1
<1>2. ASSUME NEW from, NEW to, Writes(from, to), UNCHANGED reviewed
      PROVE  \/ stage' = stage
             \/ <<stage, stage'>> \in Lifecycle!Edges /\ (stage' = "running" => reviewed)
  <2>1. <<from, to>> \in Lifecycle!Edges /\ (to = "running" => reviewed)
    BY <1>2, WritersFollowEdges
  <2>2. stage' = stage \/ (stage = from /\ stage' = to)
    BY <1>2 DEF Writes, ApplyStageTransition, SetStage
  <2> QED BY <2>1, <2>2
<1> QED BY <1>1, <1>2, OnlyWritersChangeTheStage DEF LifecycleInv, TypeOK

\* A task that is done, failed or cancelled stays so, whatever was decided before.
THEOREM TerminalStays == Spec => TerminalIsFinal
<1>1. LifecycleInv /\ [Next]_vars => [(stage \in Terminal) => (stage' = stage)]_vars
  <2> SUFFICES ASSUME LifecycleInv, [Next]_vars, stage \in Terminal
               PROVE  stage' = stage
    OBVIOUS
  <2>1. \A to : <<stage, to>> \notin Lifecycle!Edges
    BY EdgesOfStages DEF Terminal, InProgress
  <2> QED BY <2>1, StepsOfTheStage
<1> QED BY <1>1, LifecycleInvariant, PTL DEF Spec, TerminalIsFinal

\* The system implements the documented state machine.
THEOREM Implementation == Spec => ImplementsLifecycle
<1>1. Init => Lifecycle!Init
  BY DEF Init, Lifecycle!Init
<1>2. LifecycleInv /\ [Next]_vars => [Lifecycle!Next]_(Lifecycle!lifecycle)
  <2> SUFFICES ASSUME LifecycleInv, [Next]_vars
               PROVE  [Lifecycle!Next]_(Lifecycle!lifecycle)
    OBVIOUS
  <2> QED BY StepsOfTheStage
          DEF Lifecycle!Next, Lifecycle!Review, Lifecycle!Advance, Lifecycle!lifecycle
<1> QED BY <1>1, <1>2, LifecycleInvariant, PTL DEF Spec, ImplementsLifecycle, Lifecycle!Spec

-----------------------------------------------------------------------------
(* The final review gate.                                                    *)

\* The parts of ReviewInv one step at a time.
LEMMA StampsStayFresh ==
  ASSUME TypeOK, StampsAreFresh, [Next]_vars
  PROVE  StampsAreFresh'
<1> USE DEF bus
<1>1. CASE UNCHANGED <<stamped, mail, clock>> /\ known' \subseteq known
  BY <1>1 DEF StampsAreFresh
<1>2. CASE \E to \in AdvanceTargets : AdvanceCall(to)
  BY <1>2 DEF AdvanceCall, StampsAreFresh, Stamps
<1>3. CASE \E kind \in Kinds : Stamp(kind)
  <2>1. PICK kind \in Kinds : Stamp(kind)
    BY <1>3
  <2>2. /\ clock \in Nat /\ \A e \in stamped \cup mail : e.at \in Nat
        /\ \A at \in known : at \in Nat
    BY DEF TypeOK, Envelopes
  <2>3. clock' = clock + 1 /\ stamped' = stamped \cup {[kind |-> kind, at |-> clock + 1]}
    BY <2>1 DEF Stamp
  <2>4. UNCHANGED <<mail, known>>
    BY <2>1 DEF Stamp
  <2> QED BY <2>2, <2>3, <2>4 DEF StampsAreFresh
<1>4. CASE \E e \in stamped : Append(e)
  BY <1>4 DEF Append, StampsAreFresh
<1>5. CASE Quarantine \/ HostRestart
  BY <1>5 DEF Quarantine, HostRestart, StampsAreFresh
<1>6. CASE Advance \/ Host \/ UNCHANGED vars \/ \E c \in Cli : User(c)
  <2>1. CASE Advance
    BY <1>1, <1>2, <2>1 DEF Advance, AdvanceLoad, AdvanceBootstrapGate, AdvanceFinalAnchor,
       AdvanceFinalSeen, AdvanceCas, AdvanceFails, Return, Goto
  <2>2. CASE Host
    BY <1>1, <1>5, <2>2 DEF Host, TickLoad, TickClarify, TickStartWorker, TickForceFailed, TickEnd
  <2>3. CASE UNCHANGED vars \/ \E c \in Cli : User(c)
    BY <1>1, <2>3 DEF vars, User, ExecPause, ExecResume, ExecDone, ExecCancel, Decide,
                      CommandCas, CommandFails
  <2> QED BY <1>6, <2>1, <2>2, <2>3
<1> QED BY <1>3, <1>4, <1>5, <1>6 DEF Next

\* No command prepares to take a running task anywhere but to paused or cancelled.
LEMMA CommandsStillLeaveRunning ==
  ASSUME TypeOK, CommandsLeaveRunning, [Next]_vars
  PROVE  CommandsLeaveRunning'
<1> USE DEF bus
<1>1. CASE UNCHANGED cli
  BY <1>1 DEF CommandsLeaveRunning
<1>2. ASSUME NEW c \in Cli, User(c)
      PROVE  CommandsLeaveRunning'
  <2>1. CASE ExecPause(c) \/ ExecResume(c) \/ ExecDone(c) \/ ExecCancel(c)
    BY <1>2, <2>1 DEF ExecPause, ExecResume, ExecDone, ExecCancel, Decide, TypeOK, CommandsLeaveRunning
  <2>2. CASE CommandCas(c) \/ CommandFails(c)
    BY <1>2, <2>2 DEF CommandCas, CommandFails, TypeOK, CommandsLeaveRunning, NoChange, None
  <2> QED BY <1>2, <2>1, <2>2 DEF User
<1>3. CASE Advance \/ Host
  BY <1>1, <1>3 DEF Advance, AdvanceCall, AdvanceLoad, AdvanceBootstrapGate, AdvanceFinalAnchor,
     AdvanceFinalSeen, AdvanceCas, AdvanceFails, Host, TickLoad, TickClarify, TickStartWorker,
     TickForceFailed, TickEnd, HostRestart
<1>4. CASE \/ \E kind \in Kinds : Stamp(kind)
           \/ \E e \in stamped : Append(e)
           \/ Quarantine \/ UNCHANGED vars
  BY <1>1, <1>4 DEF Stamp, Append, Quarantine, vars
<1> QED BY <1>2, <1>3, <1>4 DEF Next

\* A gate that has passed stays passed: no verdict is lost while the claims it covers stay.
LEMMA GateStillProgresses ==
  ASSUME TypeOK, StampsAreFresh, GateProgress, [Next]_vars
  PROVE  GateProgress'
<1> USE DEF bus
<1>1. CASE UNCHANGED <<meta, known, mail>>
  BY <1>1 DEF GateProgress, Reviewed, Stamps
<1>2. ASSUME meta'.pc \in {"idle", "called"}
      PROVE  GateProgress'
  BY <1>2 DEF GateProgress
<1>3. CASE Return
  BY <1>2, <1>3 DEF Return, NoCall
<1>4. CASE Advance
  <2>1. CASE \E to \in AdvanceTargets : AdvanceCall(to)
    BY <1>2, <2>1 DEF AdvanceCall, NoCall
  <2>2. CASE AdvanceLoad /\ ~Return
    <3>1. meta' = [meta EXCEPT !.pc = StageGate(stage, meta.to), !.from = stage]
      BY <2>2 DEF AdvanceLoad
    <3> QED BY <3>1 DEF GateProgress, StageGate, TypeOK, Calls
  <2>3. CASE AdvanceBootstrapGate /\ ~Return
    <3>1. meta' = [meta EXCEPT !.pc = "cas"] /\ meta.to = "running"
      BY <2>3 DEF AdvanceBootstrapGate, Goto, GateProgress
    <3> QED BY <3>1 DEF GateProgress, TypeOK, Calls
  <2>4. CASE AdvanceFinalAnchor /\ Stamps("claim") = {}
    <3>1. meta' = [meta EXCEPT !.pc = "cas"] /\ UNCHANGED <<known, mail>>
      BY <2>4 DEF AdvanceFinalAnchor, Goto
    <3>2. Reviewed(known \cap Stamps("claim"))'
      BY <2>4, <3>1 DEF Reviewed, Stamps
    <3> QED BY <3>1, <3>2 DEF GateProgress, TypeOK, Calls
  <2>5. CASE AdvanceFinalAnchor /\ Stamps("claim") # {}
    <3>1. PICK latest \in Stamps("claim") :
            /\ \A at \in Stamps("claim") : at <= latest
            /\ meta' = [meta EXCEPT !.pc = "final_seen", !.since = latest]
            /\ UNCHANGED <<known, mail>>
      BY <2>5 DEF AdvanceFinalAnchor
    <3> QED BY <3>1 DEF GateProgress, TypeOK, Calls, Stamps
  <2>6. CASE AdvanceFinalSeen /\ ~Return
    <3>1. /\ meta' = [meta EXCEPT !.pc = "cas"] /\ UNCHANGED <<known, mail>>
          /\ \E at \in Stamps("final_verdict") : at > meta.since
      BY <2>6 DEF AdvanceFinalSeen, Goto
    <3>2. \A at \in known \cap Stamps("claim") : at <= meta.since
      BY <2>6 DEF AdvanceFinalSeen, GateProgress
    <3>3. /\ meta.since \in Nat /\ known \subseteq Nat
          /\ Stamps("final_verdict") \subseteq Nat
      BY DEF TypeOK, Calls, Stamps, Envelopes
    <3>4. Reviewed(known \cap Stamps("claim"))
      BY <3>1, <3>2, <3>3 DEF Reviewed
    <3>5. Reviewed(known \cap Stamps("claim"))'
      BY <3>1, <3>4 DEF Reviewed, Stamps
    <3> QED BY <3>1, <3>5 DEF GateProgress, TypeOK, Calls
  <2> QED BY <1>3, <1>4, <2>1, <2>2, <2>3, <2>4, <2>5, <2>6
          DEF Advance, AdvanceLoad, AdvanceBootstrapGate, AdvanceFinalAnchor, AdvanceFinalSeen,
              AdvanceCas, AdvanceFails
<1>5. CASE \E e \in stamped : Append(e)
  <2>1. PICK e \in stamped : Append(e)
    BY <1>5
  <2>2. UNCHANGED <<meta, known>> /\ mail' = mail \cup {e} /\ e.at \notin known
    BY <2>1 DEF Append, StampsAreFresh
  <2>3. (known \cap Stamps("claim"))' = known \cap Stamps("claim")
    BY <2>2 DEF Stamps
  <2>4. Stamps("final_verdict") \subseteq Stamps("final_verdict")'
    BY <2>2 DEF Stamps
  <2> QED BY <2>2, <2>3, <2>4 DEF GateProgress, Reviewed
<1>6. CASE Quarantine
  <2>1. UNCHANGED <<meta, known>> /\ Stamps("claim")' = {}
    BY <1>6 DEF Quarantine, Stamps
  <2> QED BY <2>1 DEF GateProgress, Reviewed
<1>7. CASE Host
  BY <1>1, <1>2, <1>7 DEF Host, TickLoad, TickClarify, TickStartWorker, TickForceFailed, TickEnd,
     HostRestart, NoCall
<1>8. CASE (\E kind \in Kinds : Stamp(kind)) \/ (\E c \in Cli : User(c)) \/ UNCHANGED vars
  BY <1>1, <1>8 DEF Stamp, User, ExecPause, ExecResume, ExecDone, ExecCancel, Decide,
     CommandCas, CommandFails, vars
<1> QED BY <1>4, <1>5, <1>6, <1>7, <1>8 DEF Next

\* Whoever leaves `running` for awaiting_user or done went through the final gate.
LEMMA LeavingRunning ==
  ASSUME TypeOK, ReviewInv, [Next]_vars, stage = "running", stage' \in {"awaiting_user", "done"}
  PROVE  Reviewed(known \cap Stamps("claim"))
<1>1. PICK from, to : Writes(from, to)
  BY OnlyWritersChangeTheStage DEF TypeOK
<1>2. stage = from /\ stage' = to
  BY <1>1 DEF Writes, ApplyStageTransition, SetStage
<1>3. CASE AdvanceCas /\ from = meta.from /\ to = meta.to
  BY <1>2, <1>3 DEF AdvanceCas, ReviewInv, GateProgress
<1>4. CASE \E c \in Cli : CommandCas(c) /\ from = cli[c].from /\ to = cli[c].to
  BY <1>2, <1>4 DEF ReviewInv, CommandsLeaveRunning
<1> QED BY <1>1, <1>2, <1>3, <1>4 DEF Writes

\* Every claim the stream held when Meta asked is covered by a later final verdict when
\* the task leaves `running`, for any number of users and envelopes.
THEOREM KnownClaimsReviewed == Spec => KnownClaimsAreReviewed
<1>1. Init => ReviewInv
  BY DEF Init, ReviewInv, StampsAreFresh, GateProgress, CommandsLeaveRunning, NoCall, NoChange, None
<1>2. TypeOK /\ ReviewInv /\ [Next]_vars => ReviewInv'
  BY StampsStayFresh, GateStillProgresses, CommandsStillLeaveRunning DEF ReviewInv
<1>3. TypeOK /\ ReviewInv /\ [Next]_vars
      => [(stage = "running" /\ stage' \in {"awaiting_user", "done"})
          => Reviewed(known \cap Stamps("claim"))]_vars
  BY LeavingRunning
<1> QED BY <1>1, <1>2, <1>3, TypeCorrect, PTL DEF Spec, KnownClaimsAreReviewed
====
