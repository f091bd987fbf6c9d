---- MODULE LongSession ----
(***************************************************************************)
(* A long session of the host: Meta's or the Watcher's.                     *)
(*                                                                         *)
(* Every tick the daemon keeps the session online, pushes it the envelopes  *)
(* it has not read, and marks them read.  For Meta it counts the failures   *)
(* that end the task, and reminds a Meta that has stopped driving; for the  *)
(* Watcher it starts the flow, concurrent with the ticks, that compacts the *)
(* session's context and tells it its role again.                           *)
(***************************************************************************)
EXTENDS Naturals, FiniteSets

CONSTANTS Roles,         \* which of "meta", "watcher" the session may be
          Envelopes,     \* messages to it; the host's own to Meta come from here too
          Sessions,      \* session ids; one whose STARTED and ENDED are written is used again
          StartLimit,    \* META_START_FAILURE_LIMIT
          StreakLimit,   \* META_PUSH_TIMEOUT_STREAK_LIMIT
          MarkLimit,     \* MARK_READ_FAIL_THRESHOLD_K
          RetryMax,      \* WATCHER_COMPACT_RETRY_MAX
          Faults,        \* the faults that no counter of the host counts
          MaxFaults      \* bound on them

ASSUME LimitsAssumption ==
  /\ StartLimit \in Nat \ {0} /\ StreakLimit \in Nat \ {0}
  /\ MarkLimit \in Nat /\ RetryMax \in Nat /\ MaxFaults \in Nat
ASSUME SessionsAssumption == Sessions # {} /\ 0 \notin Sessions /\ Roles \subseteq {"meta", "watcher"}

None == 0

VARIABLES
  role,       \* whose session this is
  pc,         \* where the tick is; "down" when the host has exited
  stage,      \* "driving" (clarifying, bootstrapping), "running" or "failed"
  env,        \* each envelope: "unsent", "unread" or "read"; how often the session has acknowledged it
  handle,     \* state.metaHandle, state.watcherHandle
  born,       \* the session the tick is starting
  open,       \* sessions with a STARTED and no ENDED in the event log
  sess,       \* the session of handle or born, as its provider has it
  batch,      \* the envelopes of the push being made
  cursor,     \* WakeCursor
  failures,   \* metaStartFailures
  timeouts,   \* metaPushTimeoutStreak
  flow,       \* watcherCompactTask and watcherCompactGiveup
  faults      \* faults so far

tallies == <<failures, timeouts>>
vars == <<role, pc, stage, env, handle, born, open, sess, batch, cursor, failures, timeouts, flow, faults>>

Fault(kind) == kind \in Faults /\ faults < MaxFaults /\ faults' = faults + 1

Live      == sess.at \in {"initializing", "idle", "streaming"}
Unread    == {e \in Envelopes : env[e].at = "unread"}
FreshCursor == [unmarked |-> {}, streak |-> 0, notified |-> {}, degraded |-> FALSE]
NoSession   == [at |-> "closed", grown |-> FALSE, roleless |-> FALSE, late |-> FALSE]
NoFlow      == [at |-> "none", attempt |-> 0, giveup |-> FALSE]
Posted      == [at |-> "unread", told |-> 0]

\* The host posts an event to Meta's inbox; it takes an envelope that is read once no new one is
\* left.  With none free the enqueue fails, and the host carries on.
Free == {e \in Envelopes : env[e].at # "unread" /\ e \notin cursor.unmarked \cup cursor.notified \cup batch}
Notify ==
  IF role = "meta" /\ Free # {} THEN \E e \in Free : env' = [env EXCEPT ![e] = Posted]
  ELSE UNCHANGED env

Capped(n) == IF n > StartLimit THEN StartLimit ELSE n

-----------------------------------------------------------------------------
(* The tick: keeping the session online                                      *)

TickBegin ==
  /\ pc = "rest" /\ stage # "failed"
  /\ pc' = "ensure"
  /\ UNCHANGED <<role, stage, env, handle, born, open, sess, batch, cursor, tallies, flow, faults>>

EnsureOnline ==
  /\ pc = "ensure" /\ handle # None /\ Live
  /\ pc' = "wake"
  /\ UNCHANGED <<role, stage, env, handle, born, open, sess, batch, cursor, tallies, flow, faults>>

\* A session that is gone gets its ENDED; when that cannot be written its handle is kept.
EndStale ==
  /\ pc = "ensure" /\ handle # None /\ ~Live
  /\ \/ open' = open \ {handle} /\ handle' = None /\ UNCHANGED <<pc, faults>>
     \/ Fault("event") /\ pc' = "wake" /\ UNCHANGED <<open, handle>>
  /\ UNCHANGED <<role, stage, env, born, sess, batch, cursor, tallies, flow>>

StartSession ==
  /\ pc = "ensure" /\ handle = None
  /\ \E s \in Sessions \ open : open' = open \cup {s} /\ born' = s
  /\ pc' = "start"
  /\ UNCHANGED <<role, stage, env, handle, sess, batch, cursor, tallies, flow, faults>>

\* The provider has the session; the cursor starts anew.  The Watcher has no first message.
Started ==
  /\ pc = "start"
  /\ handle' = born /\ born' = None
  /\ sess' = [NoSession EXCEPT !.at = "initializing"]
  /\ cursor' = FreshCursor /\ env' = [e \in Envelopes |-> [env[e] EXCEPT !.told = 0]]
  /\ flow' = NoFlow
  /\ pc' = IF role = "meta" THEN "first" ELSE "wake"
  /\ UNCHANGED <<role, stage, open, batch, tallies, faults>>

\* What a start that failed leaves: the session closed and one failure more.
Undo(extra) ==
  /\ sess' = NoSession /\ handle' = None /\ born' = None
  /\ flow' = NoFlow
  /\ failures' = IF role = "meta" THEN Capped(failures + 1 + extra) ELSE failures
  /\ UNCHANGED <<role, stage, batch, cursor>>

\* Mutant of EndedWritten: no ENDED for a session that never worked.
EndedForgotten(id) == UNCHANGED open /\ pc' = "wake" /\ Notify
EndedWritten(id) == open' = open \ {id} /\ pc' = "wake" /\ Notify

\* The exception leaves the tick: the host exits.
EndedUnwritten == Fault("event") /\ pc' = "down" /\ UNCHANGED <<open, env>>

StartFails ==
  /\ pc = "start"
  /\ Undo(0)
  /\ \/ role = "meta" /\ EndedWritten(born) /\ UNCHANGED faults
     \/ role = "watcher" /\ EndedWritten(born) /\ Fault("provider")
     \/ EndedUnwritten
  /\ UNCHANGED timeouts

\* The first message reaches Meta: only now the start counts as a success.
FirstMessage ==
  /\ pc = "first" /\ Live
  /\ sess' = [sess EXCEPT !.at = "streaming"]
  /\ failures' = 0 /\ timeouts' = 0
  /\ pc' = "wake"
  /\ UNCHANGED <<role, stage, env, handle, born, open, batch, cursor, flow, faults>>

\* A push that times out: StreakLimit of them in a row are one failure.
CountTimeout == timeouts' = IF timeouts + 1 = StreakLimit THEN 0 ELSE timeouts + 1
\* Mutant of Penalty: timeouts in a row never become a failure.
NoPenalty == 0
Penalty == IF timeouts + 1 = StreakLimit THEN 1 ELSE 0

FirstMessageFails ==
  /\ pc = "first"
  /\ \/ Live /\ CountTimeout /\ Undo(Penalty)
     \/ UNCHANGED timeouts /\ Undo(0)
  /\ \/ EndedWritten(handle) /\ UNCHANGED faults
     \/ EndedUnwritten

-----------------------------------------------------------------------------
(* The tick: waking the session with what it has not read                    *)

Wakeable == Unread \ cursor.unmarked

\* driveWatcherWake leaves a session alone that streams or is being compacted.
\* Mutant of MayWake: the compact flow is not looked at.
MayWakeAnyway == handle # None /\ sess.at \in {"initializing", "idle"}
MayWake == handle # None /\ sess.at \in {"initializing", "idle"} /\ flow.at = "none"

\* foldUnreadForWake.
Fold ==
  /\ pc = "wake"
  /\ MayWake /\ Wakeable # {}
  /\ batch' = Wakeable
  /\ pc' = "push"
  /\ UNCHANGED <<role, stage, env, handle, born, open, sess, cursor, tallies, flow, faults>>

NoWake ==
  /\ pc = "wake"
  /\ ~MayWake \/ Wakeable = {}
  /\ pc' = "remind"
  /\ UNCHANGED <<role, stage, env, handle, born, open, sess, batch, cursor, tallies, flow, faults>>

\* Whether the session refuses a push: it is in a turn, or one that timed out is still in flight.
Occupied == sess.at = "streaming" \/ (Live /\ sess.late)

\* The session takes the push: any delivery clears Meta's tallies.
Pushed ==
  /\ pc = "push" /\ Live /\ ~Occupied
  /\ env' = [e \in Envelopes |-> IF e \in batch /\ env[e].told < 2 THEN [env[e] EXCEPT !.told = @ + 1]
                                 ELSE env[e]]
  /\ sess' = [sess EXCEPT !.at = "streaming", !.grown = TRUE]
  /\ failures' = 0 /\ timeouts' = 0
  /\ pc' = "mark"
  /\ UNCHANGED <<role, stage, handle, born, open, batch, cursor, flow, faults>>

\* rejected_busy, which nothing counts.
Busy ==
  /\ pc = "push" /\ Occupied
  /\ batch' = {} /\ pc' = "remind"
  /\ UNCHANGED <<role, stage, env, handle, born, open, sess, cursor, tallies, flow, faults>>

\* Only Meta's push has a deadline; what timed out is still in flight.
PushTimesOut ==
  /\ pc = "push" /\ role = "meta" /\ Live /\ ~Occupied
  /\ CountTimeout /\ failures' = Capped(failures + Penalty)
  /\ sess' = [sess EXCEPT !.late = TRUE]
  /\ batch' = {} /\ pc' = "remind"
  /\ Notify
  /\ UNCHANGED <<role, stage, handle, born, open, cursor, flow, faults>>

\* Any other error: a transient one is only tried again, another one counts against Meta.
PushFails ==
  /\ pc = "push" /\ ~Occupied
  /\ \/ Fault("provider") /\ UNCHANGED <<failures, env>>
     \/ /\ role = "meta" /\ failures' = Capped(failures + 1)
        /\ Notify
        /\ UNCHANGED faults
     \/ role = "watcher" /\ ~Live /\ UNCHANGED <<failures, env, faults>>
  /\ batch' = {} /\ pc' = "remind"
  /\ UNCHANGED <<role, stage, handle, born, open, sess, cursor, timeouts, flow>>

MarkRead ==
  /\ pc = "mark"
  /\ env' = [e \in Envelopes |-> IF e \in batch THEN [env[e] EXCEPT !.at = "read"] ELSE env[e]]
  /\ cursor' = [FreshCursor EXCEPT !.unmarked = cursor.unmarked \ batch]
  /\ batch' = {} /\ pc' = "remind"
  /\ UNCHANGED <<role, stage, handle, born, open, sess, tallies, flow, faults>>

\* Mutant of Unmarked: what could not be marked is not remembered.
UnmarkedForgotten == cursor.unmarked
Unmarked == cursor.unmarked \cup batch

\* The envelopes stay unread but are not pushed again; past MarkLimit failures Meta is told once.
OnMarkReadFailure ==
  LET streak == IF cursor.streak > MarkLimit THEN cursor.streak ELSE cursor.streak + 1
      over   == streak > MarkLimit
      fresh  == batch \ cursor.notified
  IN
  /\ pc = "mark" /\ Fault("mark")
  /\ cursor' = [unmarked |-> Unmarked,
                streak   |-> streak,
                notified |-> IF over THEN cursor.notified ELSE cursor.notified \cup batch,
                degraded |-> cursor.degraded \/ over]
  /\ IF (over /\ ~cursor.degraded) \/ (~over /\ fresh # {}) THEN Notify ELSE UNCHANGED env
  /\ batch' = {} /\ pc' = "remind"
  /\ UNCHANGED <<role, stage, handle, born, open, sess, tallies, flow>>

-----------------------------------------------------------------------------
(* The tick: Meta's reminder and its last resort                             *)

Idle == handle # None /\ sess.at = "idle"

\* Meta is the only driver of these stages, is idle, and has nothing to read.
RemindMetaProgress ==
  /\ pc = "remind" /\ role = "meta"
  /\ Idle /\ stage = "driving" /\ Unread = {}
  /\ Notify
  /\ pc' = "judge"
  /\ UNCHANGED <<role, stage, handle, born, open, sess, batch, cursor, tallies, flow, faults>>

NoReminder ==
  /\ pc = "remind"
  /\ \/ role = "watcher" \/ ~Idle \/ stage # "driving" \/ Unread # {}
  /\ pc' = "judge"
  /\ UNCHANGED <<role, stage, env, handle, born, open, sess, batch, cursor, tallies, flow, faults>>

\* The inbox cannot be folded, for the wake or for the reminder: the tick goes on without.
Unfoldable ==
  /\ pc \in {"wake", "remind"} /\ Fault("fold")
  /\ pc' = IF pc = "wake" THEN "remind" ELSE "judge"
  /\ UNCHANGED <<role, stage, env, handle, born, open, sess, batch, cursor, tallies, flow>>

ForceFailed ==
  /\ pc = "judge" /\ failures >= StartLimit
  /\ \/ stage' = "failed" /\ pc' = "down" /\ UNCHANGED <<env, faults>>
     \/ Fault("manifest") /\ Notify /\ pc' = "rest" /\ UNCHANGED stage
  /\ UNCHANGED <<role, handle, born, open, sess, batch, cursor, tallies, flow>>

TickEnd ==
  /\ pc = "judge" /\ failures < StartLimit
  /\ pc' = "rest"
  /\ UNCHANGED <<role, stage, env, handle, born, open, sess, batch, cursor, tallies, flow, faults>>

-----------------------------------------------------------------------------
(* The Watcher's compact flow                                                *)

Current == handle # None /\ Live

MaybeStartWatcherCompact ==
  /\ pc = "judge" /\ role = "watcher"
  /\ flow.at = "none" /\ ~flow.giveup /\ Idle /\ sess.grown
  /\ flow' = [flow EXCEPT !.at = "compact", !.attempt = 1]
  /\ pc' = "rest"
  /\ UNCHANGED <<role, stage, env, handle, born, open, sess, batch, cursor, tallies, faults>>

\* An attempt that failed: another one, or none for this session any more.
Attempted ==
  flow' = IF flow.attempt <= RetryMax THEN [flow EXCEPT !.at = "compact", !.attempt = @ + 1]
          ELSE [at |-> "none", attempt |-> 0, giveup |-> Current]

\* The provider compacts the context: the role is no longer in it.  In strict mode a summary the
\* host cannot see is a failure although the context is compacted.
FlowCompact ==
  /\ flow.at = "compact" /\ Current
  /\ \/ sess' = [sess EXCEPT !.grown = FALSE, !.roleless = TRUE]
        /\ (flow' = [flow EXCEPT !.at = "reinject"] \/ Attempted)
     \/ Attempted /\ UNCHANGED sess
  /\ UNCHANGED <<role, pc, stage, env, handle, born, open, batch, cursor, tallies, faults>>

\* The role again, as a turn of its own.
FlowReinject ==
  /\ flow.at = "reinject"
  /\ \/ /\ Idle
        /\ sess' = [sess EXCEPT !.at = "streaming", !.roleless = FALSE]
        /\ flow' = [flow EXCEPT !.at = "await"]
     \/ Attempted /\ UNCHANGED sess
  /\ UNCHANGED <<role, pc, stage, env, handle, born, open, batch, cursor, tallies, faults>>

\* The turn is over, or the session; or it takes too long.
FlowTurnEnds ==
  /\ flow.at = "await"
  /\ \/ sess.at # "streaming" /\ flow' = [flow EXCEPT !.at = "none", !.attempt = 0]
     \/ sess.at = "streaming" /\ Attempted
  /\ UNCHANGED <<role, pc, stage, env, handle, born, open, sess, batch, cursor, tallies, faults>>

\* isCurrent fails: the flow has nothing more to say about a session that is gone.
FlowStale ==
  /\ flow.at = "compact" /\ ~Current
  /\ flow' = [flow EXCEPT !.at = "none", !.attempt = 0]
  /\ UNCHANGED <<role, pc, stage, env, handle, born, open, sess, batch, cursor, tallies, faults>>

-----------------------------------------------------------------------------
(* The session and whoever writes to it                                      *)

Arrive(e) ==
  /\ env[e].at = "unsent" /\ pc # "down"
  /\ env' = [env EXCEPT ![e] = Posted]
  /\ UNCHANGED <<role, pc, stage, handle, born, open, sess, batch, cursor, tallies, flow, faults>>

\* In a turn the agent may read its inbox itself, or, if it is Meta, move the task on.
AgentPulls(e) ==
  /\ handle # None /\ sess.at = "streaming" /\ env[e].at = "unread"
  /\ env' = [env EXCEPT ![e].at = "read"]
  /\ UNCHANGED <<role, pc, stage, handle, born, open, sess, batch, cursor, tallies, flow, faults>>

MetaAdvances ==
  /\ role = "meta" /\ handle # None /\ sess.at = "streaming" /\ stage = "driving"
  /\ stage' = "running"
  /\ UNCHANGED <<role, pc, env, handle, born, open, sess, batch, cursor, tallies, flow, faults>>

TurnEnds ==
  /\ handle # None /\ sess.at = "streaming"
  /\ sess' = [sess EXCEPT !.at = "idle"]
  /\ UNCHANGED <<role, pc, stage, env, handle, born, open, batch, cursor, tallies, flow, faults>>

\* The push that timed out is delivered after all, or fails after all.
LateTurn ==
  /\ handle # None /\ sess.late
  /\ \/ sess.at \in {"initializing", "idle"} /\ sess' = [sess EXCEPT !.at = "streaming", !.late = FALSE]
     \/ sess' = [sess EXCEPT !.late = FALSE]
  /\ UNCHANGED <<role, pc, stage, env, handle, born, open, batch, cursor, tallies, flow, faults>>

SessionDies ==
  /\ handle # None /\ Live /\ Fault("session")
  /\ sess' = [sess EXCEPT !.at = "closed"]
  /\ UNCHANGED <<role, pc, stage, env, handle, born, open, batch, cursor, tallies, flow>>

-----------------------------------------------------------------------------

Init ==
  /\ role \in Roles
  /\ pc = "rest"
  /\ stage = IF role = "meta" THEN "driving" ELSE "running"
  /\ env = [e \in Envelopes |-> [at |-> "unsent", told |-> 0]]
  /\ handle = None /\ born = None /\ open = {}
  /\ sess = NoSession /\ batch = {}
  /\ cursor = FreshCursor /\ failures = 0 /\ timeouts = 0
  /\ flow = NoFlow /\ faults = 0

Tick ==
  \/ TickBegin \/ EnsureOnline \/ EndStale \/ StartSession \/ Started \/ StartFails
  \/ FirstMessage \/ FirstMessageFails
  \/ Fold \/ NoWake \/ Pushed \/ Busy \/ PushTimesOut \/ PushFails \/ MarkRead \/ OnMarkReadFailure
  \/ RemindMetaProgress \/ NoReminder \/ Unfoldable \/ ForceFailed \/ MaybeStartWatcherCompact \/ TickEnd

Flow == FlowCompact \/ FlowReinject \/ FlowTurnEnds \/ FlowStale

Next ==
  \/ Tick \/ Flow
  \/ \E e \in Envelopes : Arrive(e) \/ AgentPulls(e)
  \/ MetaAdvances \/ TurnEnds \/ LateTurn \/ SessionDies

Spec == Init /\ [][Next]_vars

\* The daemon's loop sleeps and ticks again, the flow is awaited by timers, a turn ends or its
\* session does.  That a push in flight comes to an end is the provider's part: the host's deadline
\* does not end it, and rejected_busy is not counted as a failure.
FairSpec == Spec /\ WF_vars(Tick) /\ WF_vars(Flow) /\ WF_vars(TurnEnds) /\ WF_vars(LateTurn)

-----------------------------------------------------------------------------
(* What the long sessions promise                                            *)

TypeOK ==
  /\ role \in Roles /\ stage \in {"driving", "running", "failed"}
  /\ pc \in {"rest", "ensure", "start", "first", "wake", "push", "mark", "remind", "judge", "down"}
  /\ env \in [Envelopes -> [at: {"unsent", "unread", "read"}, told: 0..2]] /\ batch \subseteq Envelopes
  /\ handle \in Sessions \cup {None} /\ born \in Sessions \cup {None} /\ open \subseteq Sessions
  /\ sess \in [at: {"initializing", "idle", "streaming", "closed"},
               grown: BOOLEAN, roleless: BOOLEAN, late: BOOLEAN]
  /\ cursor \in [unmarked: SUBSET Envelopes, streak: 0..MarkLimit + 1,
                 notified: SUBSET Envelopes, degraded: BOOLEAN]
  /\ failures \in 0..StartLimit /\ timeouts \in 0..StreakLimit - 1
  /\ flow \in [at: {"none", "compact", "reinject", "await"}, attempt: 0..RetryMax + 1, giveup: BOOLEAN]
  /\ faults \in 0..MaxFaults

\* A session acknowledges an envelope at most once, even when the host could not mark it read, or
\* marked others in between (a push that timed out is not acknowledged and is made again).
InjectedOnce == \A e \in Envelopes : env[e].told <= 1

\* Between ticks the only session whose STARTED has no ENDED is the one the host holds, whatever
\* failed while sessions were replaced; and the host holds none whose ENDED is written.
SessionsArePaired == pc = "rest" => open = {handle} \ {None}

\* A Watcher whose context was compacted is told its role before it is given work again, unless
\* every attempt to tell it has failed.
RoleBeforeWork == [][pc = "push" /\ pc' = "mark" => ~sess.roleless \/ flow.giveup]_vars

\* Every envelope to the session is told to it or read by it, or the host ends the task or itself:
\* failures that repeat add up, and neither a turn, a compaction nor a failed start withholds it.
EnvelopesAreServed ==
  \A e \in Envelopes :
    env[e] = Posted ~> env[e] # Posted \/ pc = "down"

\* The comment at daemon.ts:2216: in the stages only Meta drives, an idle Meta the host has no
\* envelope to wake with is reminded, else it is a silent deadlock.
StalledMeta == role = "meta" /\ stage = "driving" /\ Idle /\ Wakeable = {}
StalledMetaIsReminded == StalledMeta ~> ~StalledMeta

=============================================================================
