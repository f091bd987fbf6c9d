---- MODULE StageMachine ----
(***************************************************************************)
(* The stage of a task: one manifest file, and everybody who rewrites its   *)
(* `stage` field.  The Meta agent goes through sh_stage__advance, whose      *)
(* handler reads the manifest twice, asks the message bus up to two          *)
(* questions and then applies a compare-and-set; the host tick works on the  *)
(* stage it loaded when the tick began; CLI and web commands are processes   *)
(* of their own that load, decide and compare-and-set.  Every await between  *)
(* a read and the write that relies on it is a step here, so that the others *)
(* can act in between.                                                       *)
(*                                                                           *)
(* Of the message bus only the envelopes the gates look at are kept.  An     *)
(* envelope is ordered by the time stamp taken before the bus lock is asked  *)
(* for, so stamping and appending are two steps.                             *)
(***************************************************************************)
EXTENDS Naturals

CONSTANTS Cli,           \* processes that run user commands (CLI, web bridge)
          Commands,      \* the commands they may issue
          MaxStamps      \* bound on the envelopes ever stamped

ASSUME CommandsAssumption == Commands \subseteq {"pause", "resume", "done", "cancel"}
ASSUME MaxStampsAssumption == MaxStamps \in Nat

InProgress == {"submitted", "clarifying", "bootstrapping", "running", "awaiting_user"}
Terminal   == {"done", "failed", "cancelled"}
Stages     == InProgress \cup Terminal \cup {"paused"}
None       == "none"

\* The kinds the gates tell apart: the worker's claim, and the reviewer's verdict by phase.
Kinds     == {"claim", "bootstrap_verdict", "final_verdict"}
Envelopes == [kind : Kinds, at : 1..MaxStamps]

VARIABLES
  stage,       \* manifest.stage
  pausedFrom,  \* manifest.pausedFrom, None for null
  mail,        \* envelopes in state.jsonl that are not marked failed
  stamped,     \* envelopes whose createdAt is taken and whose line is not yet appended
  clock,       \* the last createdAt handed out
  meta,        \* the sh_stage__advance call in flight
  tick,        \* the stage the running host tick loaded, None between two ticks
  worker,      \* a worker session may be live
  cli,         \* per process: the compare-and-set it is about to make
  reviewed,    \* history: a bootstrap verdict was ever appended
  known        \* history: stamps of the claims appended when the call in flight began

vars == <<stage, pausedFrom, mail, stamped, clock, meta, tick, worker, cli, reviewed, known>>
bus  == <<mail, stamped, clock, reviewed>>

\* A stage change someone has decided on and not yet written.
NoChange == [from |-> None, to |-> None]
NoCall   == [pc |-> "idle", from |-> None, to |-> None, since |-> 0]

-----------------------------------------------------------------------------
(* manifestIO.applyStageTransition: under the manifest lock, compare, then set.  *)

\* Mutants of SetStage: the origin is recorded on every change; it is never cleared.
SetStageRecordsAlways(from, to) == stage' = to /\ pausedFrom' = from
SetStageNeverClears(from, to) ==
  stage' = to /\ pausedFrom' = IF to = "paused" THEN from ELSE pausedFrom

SetStage(from, to) == /\ stage' = to
                      /\ pausedFrom' = IF to = "paused" THEN from ELSE None

\* Mutant: the expected stage is not compared.
ApplyWithoutCompare(from, to) == SetStage(from, to)

ApplyStageTransition(from, to) ==
  IF stage = from THEN SetStage(from, to) ELSE UNCHANGED <<stage, pausedFrom>>

-----------------------------------------------------------------------------
(* The message bus, as the gates see it.                                     *)

Stamps(kind) == {e.at : e \in {m \in mail : m.kind = kind}}

\* Only a worker declares completion; verdicts follow a reviewer session Meta asked for.
Stamp(kind) ==
  /\ kind = "claim" => worker
  /\ clock < MaxStamps
  /\ clock' = clock + 1
  /\ stamped' = stamped \cup {[kind |-> kind, at |-> clock + 1]}
  /\ UNCHANGED <<stage, pausedFrom, mail, meta, tick, worker, cli, reviewed, known>>

Append(e) ==
  /\ stamped' = stamped \ {e}
  /\ mail' = mail \cup {e}
  /\ reviewed' = (reviewed \/ e.kind = "bootstrap_verdict")
  /\ UNCHANGED <<stage, pausedFrom, clock, meta, tick, worker, cli, known>>

\* bus.quarantineState: a stream that no longer folds is set aside, all of it.
Quarantine ==
  /\ mail # {}
  /\ mail' = {}
  /\ UNCHANGED <<stage, pausedFrom, stamped, clock, meta, tick, worker, cli, reviewed, known>>

-----------------------------------------------------------------------------
(* sh_stage__advance, the tool of the Meta agent.                            *)

AdvanceTargets == Stages \ {"submitted", "paused"}

\* Mutant of TransitionAllowed: done is open from every in-progress stage.
TransitionAllowedToDone(from, to) ==
  /\ to \notin {"submitted", "paused"}
  /\ from \in InProgress \ {"submitted"}
  /\ to \in InProgress \cup {"failed", "cancelled", "done"}

\* checkTransitionAllowed(from, to, "meta_tool")
TransitionAllowed(from, to) ==
  /\ to \notin {"submitted", "paused"}
  /\ from \in InProgress \ {"submitted"}
  /\ to \in InProgress \cup {"failed", "cancelled"}
       \/ (from \in {"running", "awaiting_user"} /\ to = "done")

\* Mutant of StageGate: the bootstrap gate guards only the way out of bootstrapping.
StageGateOnlyBootstrapping(from, to) ==
  IF to = "running" /\ from = "bootstrapping" THEN "bootstrap_gate"
  ELSE IF from = "running" /\ to \in {"awaiting_user", "done"} THEN "final_anchor"
  ELSE "cas"

\* checkStageGate: where the handler goes after the table, by the gate that applies.
StageGate(from, to) ==
  IF to = "running" /\ from # "running" THEN "bootstrap_gate"
  ELSE IF from = "running" /\ to \in {"awaiting_user", "done"} THEN "final_anchor"
  ELSE "cas"

Return == meta' = NoCall /\ known' = {}
Goto(pc) == meta' = [meta EXCEPT !.pc = pc] /\ UNCHANGED known

\* The handler's own load: a call for the present stage is a noop and never gets here.
AdvanceCall(to) ==
  /\ meta.pc = "idle"
  /\ stage # to
  /\ meta' = [NoCall EXCEPT !.pc = "called", !.to = to]
  /\ known' = Stamps("claim")
  /\ UNCHANGED <<stage, pausedFrom, tick, worker, cli, bus>>

\* handleStageAdvance loads again and looks the pair up in the table.
AdvanceLoad ==
  /\ meta.pc = "called"
  /\ IF TransitionAllowed(stage, meta.to)
     THEN /\ meta' = [meta EXCEPT !.pc = StageGate(stage, meta.to), !.from = stage]
          /\ UNCHANGED known
     ELSE Return
  /\ UNCHANGED <<stage, pausedFrom, tick, worker, cli, bus>>

\* checkBootstrapGate: one query.
AdvanceBootstrapGate ==
  /\ meta.pc = "bootstrap_gate"
  /\ IF Stamps("bootstrap_verdict") # {} THEN Goto("cas") ELSE Return
  /\ UNCHANGED <<stage, pausedFrom, tick, worker, cli, bus>>

\* checkFinalReviewGate, first query: the latest claim; none leaves the gate inactive.
AdvanceFinalAnchor ==
  /\ meta.pc = "final_anchor"
  /\ IF Stamps("claim") = {} THEN Goto("cas")
     ELSE \E latest \in Stamps("claim") :
            /\ \A at \in Stamps("claim") : at <= latest
            /\ meta' = [meta EXCEPT !.pc = "final_seen", !.since = latest]
            /\ UNCHANGED known
  /\ UNCHANGED <<stage, pausedFrom, tick, worker, cli, bus>>

\* Mutant of AdvanceFinalSeen: any final verdict will do, however old.
AdvanceFinalSeenEver ==
  /\ meta.pc = "final_seen"
  /\ IF Stamps("final_verdict") # {} THEN Goto("cas") ELSE Return
  /\ UNCHANGED <<stage, pausedFrom, tick, worker, cli, bus>>

\* checkFinalReviewGate, second query: a final verdict strictly after that claim.
AdvanceFinalSeen ==
  /\ meta.pc = "final_seen"
  /\ IF \E at \in Stamps("final_verdict") : at > meta.since THEN Goto("cas") ELSE Return
  /\ UNCHANGED <<stage, pausedFrom, tick, worker, cli, bus>>

AdvanceCas ==
  /\ meta.pc = "cas"
  /\ ApplyStageTransition(meta.from, meta.to)
  /\ Return
  /\ UNCHANGED <<tick, worker, cli, bus>>

\* A load, a query or the write throws (IO, corrupt stream, lock timeout): host_internal.
AdvanceFails ==
  /\ meta.pc # "idle"
  /\ Return
  /\ UNCHANGED <<stage, pausedFrom, tick, worker, cli, bus>>

Advance == \/ \E to \in AdvanceTargets : AdvanceCall(to)
           \/ AdvanceLoad \/ AdvanceBootstrapGate
           \/ AdvanceFinalAnchor \/ AdvanceFinalSeen
           \/ AdvanceCas \/ AdvanceFails

-----------------------------------------------------------------------------
(* The host tick.  It acts on the stage it loaded, however long it takes.    *)

TickLoad ==
  /\ tick = None
  /\ stage \in InProgress
  /\ tick' = stage
  /\ UNCHANGED <<stage, pausedFrom, meta, worker, cli, known, bus>>

\* ensureClarifyingTransition; the rest of this tick runs as "clarifying" either way.
TickClarify ==
  /\ tick = "submitted"
  /\ tick' = "clarifying"
  /\ ApplyStageTransition("submitted", "clarifying")
  /\ UNCHANGED <<meta, worker, cli, known, bus>>

\* maybeForceFailedOnMetaFailure with the start failures at the limit; whether it is
\* reached is left open.  A conflict is reported and the tick ends as usual.
TickForceFailed ==
  /\ tick \in InProgress \ {"submitted"}
  /\ ApplyStageTransition(tick, "failed")
  /\ tick' = None
  /\ UNCHANGED <<meta, worker, cli, known, bus>>

\* reconcileWorker: only a running tick starts a worker, which may then outlive the stage.
TickStartWorker ==
  /\ tick = "running"
  /\ ~worker
  /\ worker' = TRUE
  /\ UNCHANGED <<stage, pausedFrom, meta, tick, cli, known, bus>>

TickEnd ==
  /\ tick \in InProgress \ {"submitted"}
  /\ tick' = None
  /\ UNCHANGED <<stage, pausedFrom, meta, worker, cli, known, bus>>

\* The host process ends, by itself or by a crash, and another one recovers the task.
\* In-flight calls die; an envelope being written is in the stream or is not;
\* recovery marks envelopes failed whose payload is gone, or quarantines the stream.
HostRestart ==
  /\ tick' = None
  /\ meta' = NoCall
  /\ known' = {}
  /\ worker' = FALSE
  /\ stamped' = {}
  /\ \E kept \in SUBSET mail : mail' = kept
  /\ UNCHANGED <<stage, pausedFrom, clock, cli, reviewed>>

Host == \/ TickLoad \/ TickClarify \/ TickStartWorker \/ TickForceFailed \/ TickEnd
        \/ HostRestart

-----------------------------------------------------------------------------
(* User commands: load, check, remember what to write; then compare-and-set. *)

Decide(c, command, from, to) ==
  /\ command \in Commands
  /\ cli[c] = NoChange
  /\ stage = from
  /\ cli' = [cli EXCEPT ![c] = [from |-> from, to |-> to]]
  /\ UNCHANGED <<stage, pausedFrom, tick, worker, meta, known, bus>>

ExecPause(c)  == stage \in InProgress /\ Decide(c, "pause", stage, "paused")
ExecResume(c) == pausedFrom # None /\ Decide(c, "resume", "paused", pausedFrom)
ExecDone(c)   == Decide(c, "done", "awaiting_user", "done")
ExecCancel(c) == stage \in InProgress \cup {"paused"} /\ Decide(c, "cancel", stage, "cancelled")

CommandCas(c) ==
  /\ cli[c] # NoChange
  /\ ApplyStageTransition(cli[c].from, cli[c].to)
  /\ cli' = [cli EXCEPT ![c] = NoChange]
  /\ UNCHANGED <<tick, worker, meta, known, bus>>

\* The lock times out, the write fails or the process is killed.
CommandFails(c) ==
  /\ cli[c] # NoChange
  /\ cli' = [cli EXCEPT ![c] = NoChange]
  /\ UNCHANGED <<stage, pausedFrom, tick, worker, meta, known, bus>>

User(c) == \/ ExecPause(c) \/ ExecResume(c) \/ ExecDone(c) \/ ExecCancel(c)
           \/ CommandCas(c) \/ CommandFails(c)

-----------------------------------------------------------------------------
Init ==
  /\ stage = "submitted"
  /\ pausedFrom = None
  /\ mail = {} /\ stamped = {} /\ clock = 0
  /\ meta = NoCall
  /\ tick = None
  /\ worker = FALSE
  /\ cli = [c \in Cli |-> NoChange]
  /\ reviewed = FALSE
  /\ known = {}

Next == \/ Advance
        \/ Host
        \/ \E c \in Cli : User(c)
        \/ \E kind \in Kinds : Stamp(kind)
        \/ \E e \in stamped : Append(e)
        \/ Quarantine

Spec == Init /\ [][Next]_vars

-----------------------------------------------------------------------------
(* Properties *)

CallPcs == {"idle", "called", "bootstrap_gate", "final_anchor", "final_seen", "cas"}
Calls   == [pc : CallPcs, from : Stages \cup {None}, to : AdvanceTargets \cup {None},
            since : 0..MaxStamps]
Changes == [from : Stages \cup {None}, to : Stages \cup {None}]

\* The type of every variable; the manifest's stage is one of the nine of manifest.ts.
TypeOK ==
  /\ stage \in Stages
  /\ pausedFrom \in InProgress \cup {None}
  /\ mail \subseteq Envelopes
  /\ stamped \subseteq Envelopes
  /\ clock \in 0..MaxStamps
  /\ meta \in Calls
  /\ tick \in InProgress \cup {None}
  /\ worker \in BOOLEAN
  /\ cli \in [Cli -> Changes]
  /\ reviewed \in BOOLEAN
  /\ known \subseteq 1..MaxStamps

\* A task that runs, or that will run when it is resumed, has had a bootstrap self
\* review, whatever the path it took: resets from any stage, a pause, a resume that
\* raced another one, a bus that lost its mail (checkStageGate, stage_machine.ts:170).
RunningWasReviewed ==
  /\ stage = "running" => reviewed
  /\ pausedFrom = "running" => reviewed

\* A paused task remembers where it came from and no other task does, so resume has a
\* target exactly when it is allowed (manifest.ts:325, exec.ts:595-599).
PausedRemembersOrigin == stage = "paused" <=> pausedFrom # None

\* done, failed and cancelled are final, even for a change decided before the task
\* ended (the compare-and-set of manifest.ts:316, RUNTIME.md:135).
TerminalIsFinal == [][(stage \in Terminal) => (stage' = stage)]_vars

\* Each of these claims has a final verdict stamped after it.
Reviewed(claims) == \A at \in claims : \E review \in Stamps("final_verdict") : review > at

\* A claim that was in the stream when Meta asked to leave `running` is covered by a
\* later final verdict when the task leaves it, or was marked failed meanwhile
\* (checkFinalReviewGate, stage_machine.ts:141).
KnownClaimsAreReviewed ==
  [][(stage = "running" /\ stage' \in {"awaiting_user", "done"})
        => Reviewed(known \cap Stamps("claim"))]_vars

\* RUNTIME.md:150: leaving `running` for awaiting_user or done requires a final verdict
\* ordered after the latest claim, at the moment of leaving.
LatestClaimIsReviewed ==
  [][(stage = "running" /\ stage' \in {"awaiting_user", "done"})
        => Reviewed(Stamps("claim"))]_vars

\* Every change of the stage is one the documented state machine has, judged on the
\* stage it really replaces (RUNTIME.md:108-136), and no task runs unreviewed.
Lifecycle == INSTANCE TaskLifecycle
ImplementsLifecycle == Lifecycle!Spec

====
