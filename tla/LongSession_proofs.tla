---- MODULE LongSession_proofs ----
(***************************************************************************)
(* Of a long session of the host: no envelope is acknowledged twice, every  *)
(* session's STARTED has its ENDED between ticks, and a Watcher is told its *)
(* role before work, for any number of envelopes, sessions and faults, and  *)
(* any limits.                                                             *)
(***************************************************************************)
EXTENDS LongSession, TLAPS

\* A session that acknowledged an envelope has it marked read, remembers that it could not be
\* marked, or is about to do either; and the envelopes of a push were never acknowledged.
ToldIsRemembered ==
  /\ \A e \in Envelopes : env[e].told <= 1
  /\ \A e \in Envelopes : env[e].told = 1 =>
       env[e].at = "read" \/ e \in cursor.unmarked \/ (pc = "mark" /\ e \in batch)
  /\ pc = "push" => \A e \in batch : env[e].told = 0

\* The STARTEDs without ENDED are the handle's and that of the start under way, as long as the
\* host runs.
OpenAreHeld ==
  /\ pc # "down" => open = {handle, born} \ {None}
  /\ pc = "start" => handle = None /\ born \in Sessions
  /\ pc # "start" => born = None

\* A live session without its role has a flow that is to tell it, or one that has given up.
RoleIsComing ==
  /\ Live /\ sess.roleless => flow.at \in {"compact", "reinject"} \/ flow.giveup
  /\ flow.at = "await" => ~sess.roleless
  /\ handle = None => ~Live
  /\ pc = "push" => flow.at = "none"

SessionInv == TypeOK /\ ToldIsRemembered /\ OpenAreHeld /\ RoleIsComing

-----------------------------------------------------------------------------
LEMMA SessionStarts == Init => SessionInv
BY LimitsAssumption, SessionsAssumption DEF Init, SessionInv, TypeOK, ToldIsRemembered, OpenAreHeld, RoleIsComing,
     NoSession, FreshCursor, NoFlow, Live, None

EnvelopeStates == [Envelopes -> [at : {"unsent", "unread", "read"}, told : 0..2]]
FlowStates == [at : {"none", "compact", "reinject", "await"}, attempt : 0..RetryMax + 1, giveup : BOOLEAN]

SessionStates == [at : {"initializing", "idle", "streaming", "closed"},
                  grown : BOOLEAN, roleless : BOOLEAN, late : BOOLEAN]

LEMMA NotifyKeepsType == ASSUME env \in EnvelopeStates, Notify PROVE env' \in EnvelopeStates
BY DEF Notify, Free, Posted, EnvelopeStates

LEMMA TimeoutsAreBounded ==
  ASSUME timeouts \in 0..StreakLimit - 1, CountTimeout PROVE timeouts' \in 0..StreakLimit - 1
BY LimitsAssumption DEF CountTimeout

LEMMA FailuresAreBounded ==
  ASSUME NEW n \in Nat PROVE Capped(n) \in 0..StartLimit
BY LimitsAssumption DEF Capped

LEMMA AttemptsAreBounded ==
  ASSUME flow \in FlowStates, Attempted, Current \in BOOLEAN PROVE flow' \in FlowStates
<1>1. CASE flow.attempt <= RetryMax
  <2>1. flow' = [flow EXCEPT !.at = "compact", !.attempt = flow.attempt + 1]
    BY <1>1 DEF Attempted
  <2>2. flow.attempt + 1 \in 0..RetryMax + 1
    BY <1>1, LimitsAssumption DEF FlowStates
  <2>3. QED
    BY <2>1, <2>2 DEF FlowStates
<1>2. CASE ~(flow.attempt <= RetryMax)
  <2>1. flow' = [at |-> "none", attempt |-> 0, giveup |-> Current] /\ 0 \in 0..RetryMax + 1
    BY <1>2, LimitsAssumption DEF Attempted
  <2>2. QED
    BY <2>1 DEF FlowStates
<1>3. QED
  BY <1>1, <1>2

LEMMA TypeStep ==
  ASSUME TypeOK, Next PROVE TypeOK'
<1> USE LimitsAssumption, SessionsAssumption DEF TypeOK, tallies, None
<1>1. CASE TickBegin
  BY <1>1 DEF TickBegin
<1>2. CASE EnsureOnline
  BY <1>2 DEF EnsureOnline
<1>3. CASE EndStale
  BY <1>3 DEF EndStale, Fault
<1>4. CASE StartSession
  BY <1>4 DEF StartSession
<1>5. CASE Started
  <2>1. /\ env' \in EnvelopeStates
        /\ cursor' \in [unmarked: SUBSET Envelopes, streak: 0..MarkLimit + 1,
                       notified: SUBSET Envelopes, degraded: BOOLEAN]
        /\ flow' \in FlowStates
    BY <1>5 DEF Started, FreshCursor, NoFlow, EnvelopeStates, FlowStates
  <2>2. sess' \in [at: {"initializing", "idle", "streaming", "closed"},
                 grown: BOOLEAN, roleless: BOOLEAN, late: BOOLEAN]
    BY <1>5 DEF Started, NoSession
  <2>3. QED
    BY <1>5, <2>1, <2>2 DEF Started, EnvelopeStates, FlowStates
<1>6. CASE StartFails
  BY <1>6 DEF StartFails, Undo, NoSession, NoFlow, EndedWritten, EndedUnwritten, Fault, Notify, Free, Posted, Capped
<1>7. CASE FirstMessage
  BY <1>7 DEF FirstMessage
<1>8. CASE FirstMessageFails
  <2>1. timeouts' \in 0..StreakLimit - 1
    BY <1>8, TimeoutsAreBounded DEF FirstMessageFails
  <2>2. failures' \in 0..StartLimit
    <3>1. Penalty \in Nat
      BY DEF Penalty
    <3>2. failures + 1 + Penalty \in Nat /\ failures + 1 + 0 \in Nat
      BY <3>1
    <3>3. QED
      BY <1>8, <3>2, FailuresAreBounded DEF FirstMessageFails, Undo
  <2>3. env' \in EnvelopeStates
    BY <1>8, NotifyKeepsType DEF FirstMessageFails, EndedWritten, EndedUnwritten, EnvelopeStates
  <2>4. sess' \in SessionStates /\ flow' \in FlowStates /\ handle' = None /\ born' = None
        /\ UNCHANGED <<role, stage, batch, cursor>>
    <3>1. 0 \in 0..RetryMax + 1
      OBVIOUS
    <3>2. sess' = NoSession /\ flow' = NoFlow
      BY <1>8 DEF FirstMessageFails, Undo
    <3>3. NoSession \in SessionStates /\ NoFlow \in FlowStates
      BY <3>1 DEF NoSession, NoFlow, SessionStates, FlowStates
    <3>4. handle' = None /\ born' = None /\ UNCHANGED <<role, stage, batch, cursor>>
      BY <1>8 DEF FirstMessageFails, Undo
    <3>5. QED
      BY <3>2, <3>3, <3>4
  <2>5. open' \subseteq Sessions /\ faults' \in 0..MaxFaults /\ pc' \in {"wake", "down"}
    BY <1>8 DEF FirstMessageFails, EndedWritten, EndedUnwritten, Fault
  <2>6. QED
    BY <2>1, <2>2, <2>3, <2>4, <2>5 DEF EnvelopeStates, SessionStates, FlowStates
<1>9. CASE Fold
  BY <1>9 DEF Fold, Wakeable, Unread, MayWake
<1>10. CASE NoWake
  BY <1>10 DEF NoWake
<1>11. CASE Pushed
  <2>1. env' \in EnvelopeStates
    <3>1. ASSUME NEW e \in Envelopes
          PROVE  (IF e \in batch /\ env[e].told < 2 THEN [env[e] EXCEPT !.told = @ + 1] ELSE env[e])
                   \in [at : {"unsent", "unread", "read"}, told : 0..2]
      OBVIOUS
    <3>2. QED
      BY <1>11, <3>1 DEF Pushed, EnvelopeStates
  <2>2. sess' \in SessionStates
    BY <1>11 DEF Pushed, SessionStates
  <2>3. failures' \in 0..StartLimit /\ timeouts' \in 0..StreakLimit - 1
    BY <1>11 DEF Pushed
  <2>4. QED
    BY <1>11, <2>1, <2>2, <2>3 DEF Pushed, EnvelopeStates, SessionStates
<1>12. CASE Busy
  BY <1>12 DEF Busy
<1>13. CASE PushTimesOut
  <2>1. timeouts' \in 0..StreakLimit - 1
    BY <1>13, TimeoutsAreBounded DEF PushTimesOut
  <2>2. failures' \in 0..StartLimit
    <3>1. failures + Penalty \in Nat
      BY DEF Penalty
    <3>2. QED
      BY <1>13, <3>1, FailuresAreBounded DEF PushTimesOut
  <2>3. env' \in EnvelopeStates
    BY <1>13, NotifyKeepsType DEF PushTimesOut, EnvelopeStates
  <2>4. QED
    BY <1>13, <2>1, <2>2, <2>3 DEF PushTimesOut, EnvelopeStates
<1>14. CASE PushFails
  BY <1>14 DEF PushFails, Fault, Capped, Notify, Free, Posted
<1>15. CASE MarkRead
  <2>1. cursor' \in [unmarked: SUBSET Envelopes, streak: 0..MarkLimit + 1,
                   notified: SUBSET Envelopes, degraded: BOOLEAN]
    <3>1. cursor' = [unmarked |-> cursor.unmarked \ batch, streak |-> 0, notified |-> {}, degraded |-> FALSE]
      BY <1>15 DEF MarkRead, FreshCursor
    <3>2. 0 \in 0..MarkLimit + 1
      OBVIOUS
    <3>3. QED
      BY <3>1, <3>2
  <2>2. env' \in EnvelopeStates
    BY <1>15 DEF MarkRead, EnvelopeStates
  <2>3. QED
    BY <1>15, <2>1, <2>2 DEF MarkRead, EnvelopeStates
<1>16. CASE OnMarkReadFailure
  BY <1>16 DEF OnMarkReadFailure, Fault, Unmarked, Notify, Free, Posted
<1>17. CASE RemindMetaProgress
  BY <1>17 DEF RemindMetaProgress, Notify, Free, Posted
<1>18. CASE NoReminder
  BY <1>18 DEF NoReminder
<1>19. CASE Unfoldable
  BY <1>19 DEF Unfoldable, Fault
<1>20. CASE ForceFailed
  BY <1>20 DEF ForceFailed, Fault, Notify, Free, Posted
<1>21. CASE MaybeStartWatcherCompact
  <2>1. 1 \in 0..RetryMax + 1
    OBVIOUS
  <2>2. flow' \in FlowStates
    BY <1>21, <2>1 DEF MaybeStartWatcherCompact, FlowStates
  <2>3. QED
    BY <1>21, <2>2 DEF MaybeStartWatcherCompact, FlowStates
<1>22. CASE TickEnd
  BY <1>22 DEF TickEnd
<1>23. CASE FlowCompact
  <2>1. flow' \in FlowStates
    <3>1. Current \in BOOLEAN
      BY DEF Current, Live
    <3>2. CASE Attempted
      BY <3>1, <3>2, AttemptsAreBounded DEF FlowStates
    <3>3. CASE ~Attempted
      <4>1. 0 \in 0..RetryMax + 1
        OBVIOUS
      <4>2. QED
        BY <1>23, <3>3, <4>1 DEF FlowCompact, FlowStates
    <3>4. QED
      BY <3>2, <3>3
  <2>2. sess' \in SessionStates
    BY <1>23 DEF FlowCompact, SessionStates
  <2>3. QED
    BY <1>23, <2>1, <2>2 DEF FlowCompact, FlowStates, SessionStates
<1>24. CASE FlowReinject
  <2>1. flow' \in FlowStates
    <3>1. Current \in BOOLEAN
      BY DEF Current, Live
    <3>2. CASE Attempted
      BY <3>1, <3>2, AttemptsAreBounded DEF FlowStates
    <3>3. CASE ~Attempted
      <4>1. 0 \in 0..RetryMax + 1
        OBVIOUS
      <4>2. QED
        BY <1>24, <3>3, <4>1 DEF FlowReinject, FlowStates
    <3>4. QED
      BY <3>2, <3>3
  <2>2. sess' \in SessionStates
    BY <1>24 DEF FlowReinject, SessionStates
  <2>3. QED
    BY <1>24, <2>1, <2>2 DEF FlowReinject, FlowStates, SessionStates
<1>25. CASE FlowTurnEnds
  <2>1. flow' \in FlowStates
    <3>1. Current \in BOOLEAN
      BY DEF Current, Live
    <3>2. CASE Attempted
      BY <3>1, <3>2, AttemptsAreBounded DEF FlowStates
    <3>3. CASE ~Attempted
      <4>1. 0 \in 0..RetryMax + 1
        OBVIOUS
      <4>2. QED
        BY <1>25, <3>3, <4>1 DEF FlowTurnEnds, FlowStates
    <3>4. QED
      BY <3>2, <3>3
  <2>2. sess' \in SessionStates
    BY <1>25 DEF FlowTurnEnds, SessionStates
  <2>3. QED
    BY <1>25, <2>1, <2>2 DEF FlowTurnEnds, FlowStates, SessionStates
<1>26. CASE FlowStale
  <2>1. flow' \in FlowStates
    <3>1. 0 \in 0..RetryMax + 1
      OBVIOUS
    <3>2. QED
      BY <1>26, <3>1 DEF FlowStale, FlowStates
  <2>2. QED
    BY <1>26, <2>1 DEF FlowStale, FlowStates
<1>27. CASE MetaAdvances
  BY <1>27 DEF MetaAdvances
<1>28. CASE TurnEnds
  BY <1>28 DEF TurnEnds
<1>29. CASE LateTurn
  BY <1>29 DEF LateTurn
<1>30. CASE SessionDies
  BY <1>30 DEF SessionDies, Fault
<1>31. CASE \E e \in Envelopes : Arrive(e)
  BY <1>31 DEF Arrive, Posted
<1>32. CASE \E e \in Envelopes : AgentPulls(e)
  BY <1>32 DEF AgentPulls
<1>99. QED
  BY <1>1, <1>2, <1>3, <1>4, <1>5, <1>6, <1>7, <1>8, <1>9, <1>10, <1>11, <1>12, <1>13, <1>14, <1>15, <1>16, <1>17, <1>18, <1>19, <1>20, <1>21, <1>22, <1>23, <1>24, <1>25, <1>26, <1>27, <1>28, <1>29, <1>30, <1>31, <1>32 DEF Next, Tick, Flow

LEMMA ToldStep ==
  ASSUME TypeOK, ToldIsRemembered, Next PROVE ToldIsRemembered'
<1> USE DEF TypeOK, ToldIsRemembered, tallies
<1>1. CASE TickBegin
  BY <1>1 DEF TickBegin
<1>2. CASE EnsureOnline
  BY <1>2 DEF EnsureOnline
<1>3. CASE EndStale
  BY <1>3 DEF EndStale, Fault
<1>4. CASE StartSession
  BY <1>4 DEF StartSession
<1>5. CASE Started
  BY <1>5 DEF Started, NoSession, FreshCursor, NoFlow
<1>6. CASE StartFails
  BY <1>6 DEF StartFails, Undo, NoSession, NoFlow, EndedWritten, EndedUnwritten, Fault, Notify, Free, Posted, Capped
<1>7. CASE FirstMessage
  BY <1>7 DEF FirstMessage
<1>8. CASE FirstMessageFails
  BY <1>8 DEF FirstMessageFails, Undo, NoSession, NoFlow, EndedWritten, EndedUnwritten, Fault, Notify, Free, Posted, Capped, CountTimeout, Penalty
<1>9. CASE Fold
  BY <1>9 DEF Fold, Wakeable, Unread, MayWake
<1>10. CASE NoWake
  BY <1>10 DEF NoWake
<1>11. CASE Pushed
  BY <1>11 DEF Pushed
<1>12. CASE Busy
  BY <1>12 DEF Busy
<1>13. CASE PushTimesOut
  BY <1>13 DEF PushTimesOut, CountTimeout, Penalty, Capped, Notify, Free, Posted, Occupied
<1>14. CASE PushFails
  BY <1>14 DEF PushFails, Fault, Capped, Notify, Free, Posted
<1>15. CASE MarkRead
  BY <1>15 DEF MarkRead, FreshCursor
<1>16. CASE OnMarkReadFailure
  BY <1>16 DEF OnMarkReadFailure, Fault, Unmarked, Notify, Free, Posted
<1>17. CASE RemindMetaProgress
  BY <1>17 DEF RemindMetaProgress, Notify, Free, Posted
<1>18. CASE NoReminder
  BY <1>18 DEF NoReminder
<1>19. CASE Unfoldable
  BY <1>19 DEF Unfoldable, Fault
<1>20. CASE ForceFailed
  BY <1>20 DEF ForceFailed, Fault, Notify, Free, Posted
<1>21. CASE MaybeStartWatcherCompact
  BY <1>21 DEF MaybeStartWatcherCompact, Idle
<1>22. CASE TickEnd
  BY <1>22 DEF TickEnd
<1>23. CASE FlowCompact
  BY <1>23 DEF FlowCompact, Current, Attempted
<1>24. CASE FlowReinject
  BY <1>24 DEF FlowReinject, Attempted, Current, Idle
<1>25. CASE FlowTurnEnds
  BY <1>25 DEF FlowTurnEnds, Attempted, Current
<1>26. CASE FlowStale
  BY <1>26 DEF FlowStale, Current
<1>27. CASE MetaAdvances
  BY <1>27 DEF MetaAdvances
<1>28. CASE TurnEnds
  BY <1>28 DEF TurnEnds
<1>29. CASE LateTurn
  BY <1>29 DEF LateTurn
<1>30. CASE SessionDies
  BY <1>30 DEF SessionDies, Fault
<1>31. CASE \E e \in Envelopes : Arrive(e)
  BY <1>31 DEF Arrive, Posted
<1>32. CASE \E e \in Envelopes : AgentPulls(e)
  BY <1>32 DEF AgentPulls
<1>99. QED
  BY <1>1, <1>2, <1>3, <1>4, <1>5, <1>6, <1>7, <1>8, <1>9, <1>10, <1>11, <1>12, <1>13, <1>14, <1>15, <1>16, <1>17, <1>18, <1>19, <1>20, <1>21, <1>22, <1>23, <1>24, <1>25, <1>26, <1>27, <1>28, <1>29, <1>30, <1>31, <1>32 DEF Next, Tick, Flow

LEMMA OpenStep ==
  ASSUME TypeOK, OpenAreHeld, Next PROVE OpenAreHeld'
<1> USE SessionsAssumption DEF TypeOK, OpenAreHeld, tallies, None
<1>1. CASE TickBegin
  BY <1>1 DEF TickBegin
<1>2. CASE EnsureOnline
  BY <1>2 DEF EnsureOnline
<1>3. CASE EndStale
  BY <1>3 DEF EndStale, Fault
<1>4. CASE StartSession
  BY <1>4 DEF StartSession
<1>5. CASE Started
  BY <1>5 DEF Started, NoSession, FreshCursor, NoFlow
<1>6. CASE StartFails
  BY <1>6 DEF StartFails, Undo, NoSession, NoFlow, EndedWritten, EndedUnwritten, Fault, Notify, Free, Posted, Capped
<1>7. CASE FirstMessage
  BY <1>7 DEF FirstMessage
<1>8. CASE FirstMessageFails
  BY <1>8 DEF FirstMessageFails, Undo, NoSession, NoFlow, EndedWritten, EndedUnwritten, Fault, Notify, Free, Posted, Capped, CountTimeout, Penalty
<1>9. CASE Fold
  BY <1>9 DEF Fold, Wakeable, Unread, MayWake
<1>10. CASE NoWake
  BY <1>10 DEF NoWake
<1>11. CASE Pushed
  BY <1>11 DEF Pushed
<1>12. CASE Busy
  BY <1>12 DEF Busy
<1>13. CASE PushTimesOut
  BY <1>13 DEF PushTimesOut, CountTimeout, Penalty, Capped, Notify, Free, Posted, Occupied
<1>14. CASE PushFails
  BY <1>14 DEF PushFails, Fault, Capped, Notify, Free, Posted
<1>15. CASE MarkRead
  BY <1>15 DEF MarkRead, FreshCursor
<1>16. CASE OnMarkReadFailure
  BY <1>16 DEF OnMarkReadFailure, Fault, Unmarked, Notify, Free, Posted
<1>17. CASE RemindMetaProgress
  BY <1>17 DEF RemindMetaProgress, Notify, Free, Posted
<1>18. CASE NoReminder
  BY <1>18 DEF NoReminder
<1>19. CASE Unfoldable
  BY <1>19 DEF Unfoldable, Fault
<1>20. CASE ForceFailed
  BY <1>20 DEF ForceFailed, Fault, Notify, Free, Posted
<1>21. CASE MaybeStartWatcherCompact
  BY <1>21 DEF MaybeStartWatcherCompact, Idle
<1>22. CASE TickEnd
  BY <1>22 DEF TickEnd
<1>23. CASE FlowCompact
  BY <1>23 DEF FlowCompact, Current, Attempted
<1>24. CASE FlowReinject
  BY <1>24 DEF FlowReinject, Attempted, Current, Idle
<1>25. CASE FlowTurnEnds
  BY <1>25 DEF FlowTurnEnds, Attempted, Current
<1>26. CASE FlowStale
  BY <1>26 DEF FlowStale, Current
<1>27. CASE MetaAdvances
  BY <1>27 DEF MetaAdvances
<1>28. CASE TurnEnds
  BY <1>28 DEF TurnEnds
<1>29. CASE LateTurn
  BY <1>29 DEF LateTurn
<1>30. CASE SessionDies
  BY <1>30 DEF SessionDies, Fault
<1>31. CASE \E e \in Envelopes : Arrive(e)
  BY <1>31 DEF Arrive, Posted
<1>32. CASE \E e \in Envelopes : AgentPulls(e)
  BY <1>32 DEF AgentPulls
<1>99. QED
  BY <1>1, <1>2, <1>3, <1>4, <1>5, <1>6, <1>7, <1>8, <1>9, <1>10, <1>11, <1>12, <1>13, <1>14, <1>15, <1>16, <1>17, <1>18, <1>19, <1>20, <1>21, <1>22, <1>23, <1>24, <1>25, <1>26, <1>27, <1>28, <1>29, <1>30, <1>31, <1>32 DEF Next, Tick, Flow

LEMMA RoleStep ==
  ASSUME TypeOK, OpenAreHeld, RoleIsComing, Next PROVE RoleIsComing'
<1> USE DEF TypeOK, RoleIsComing, Live, tallies, None
<1>1. CASE TickBegin
  BY <1>1 DEF TickBegin
<1>2. CASE EnsureOnline
  BY <1>2 DEF EnsureOnline
<1>3. CASE EndStale
  BY <1>3 DEF EndStale, Fault
<1>4. CASE StartSession
  BY <1>4 DEF StartSession
<1>5. CASE Started
  <2>1. sess'.roleless = FALSE /\ born \in Sessions \cup {0} /\ flow'.at = "none"
    BY <1>5 DEF Started, NoSession, NoFlow
  <2>2. handle' # 0
    BY <1>5, SessionsAssumption DEF Started, OpenAreHeld
  <2>3. QED
    BY <1>5, <2>1, <2>2 DEF Started
<1>6. CASE StartFails
  BY <1>6 DEF StartFails, Undo, NoSession, NoFlow, EndedWritten, EndedUnwritten, Fault, Notify, Free, Posted, Capped
<1>7. CASE FirstMessage
  BY <1>7 DEF FirstMessage
<1>8. CASE FirstMessageFails
  BY <1>8 DEF FirstMessageFails, Undo, NoSession, NoFlow, EndedWritten, EndedUnwritten, Fault, Notify, Free, Posted, Capped, CountTimeout, Penalty
<1>9. CASE Fold
  BY <1>9 DEF Fold, Wakeable, Unread, MayWake
<1>10. CASE NoWake
  BY <1>10 DEF NoWake
<1>11. CASE Pushed
  BY <1>11 DEF Pushed
<1>12. CASE Busy
  BY <1>12 DEF Busy
<1>13. CASE PushTimesOut
  BY <1>13 DEF PushTimesOut, CountTimeout, Penalty, Capped, Notify, Free, Posted, Occupied
<1>14. CASE PushFails
  BY <1>14 DEF PushFails, Fault, Capped, Notify, Free, Posted
<1>15. CASE MarkRead
  BY <1>15 DEF MarkRead, FreshCursor
<1>16. CASE OnMarkReadFailure
  BY <1>16 DEF OnMarkReadFailure, Fault, Unmarked, Notify, Free, Posted
<1>17. CASE RemindMetaProgress
  BY <1>17 DEF RemindMetaProgress, Notify, Free, Posted
<1>18. CASE NoReminder
  BY <1>18 DEF NoReminder
<1>19. CASE Unfoldable
  BY <1>19 DEF Unfoldable, Fault
<1>20. CASE ForceFailed
  BY <1>20 DEF ForceFailed, Fault, Notify, Free, Posted
<1>21. CASE MaybeStartWatcherCompact
  BY <1>21 DEF MaybeStartWatcherCompact, Idle
<1>22. CASE TickEnd
  BY <1>22 DEF TickEnd
<1>23. CASE FlowCompact
  <2>1. flow.at = "compact" /\ Current /\ UNCHANGED <<handle, pc>>
    BY <1>23 DEF FlowCompact
  <2>2. Live' /\ handle # 0
    BY <1>23, <2>1 DEF FlowCompact, Current
  <2>3. CASE Attempted
    <3>1. flow'.at = "compact" \/ (flow'.at = "none" /\ flow'.giveup)
      BY <2>1, <2>3 DEF Attempted
    <3>2. QED
      BY <2>1, <2>2, <3>1
  <2>4. CASE flow' = [flow EXCEPT !.at = "reinject"]
    BY <2>1, <2>2, <2>4
  <2>5. QED
    BY <1>23, <2>3, <2>4 DEF FlowCompact
<1>24. CASE FlowReinject
  <2>1. flow.at = "reinject" /\ UNCHANGED <<handle, pc>>
    BY <1>24 DEF FlowReinject
  <2>2. CASE Attempted /\ sess' = sess
    <3>1. flow'.at = "compact" \/ (flow'.at = "none" /\ flow'.giveup = Current)
      BY <2>2 DEF Attempted
    <3>2. QED
      BY <2>1, <2>2, <3>1 DEF Current
  <2>3. CASE Idle /\ sess' = [sess EXCEPT !.at = "streaming", !.roleless = FALSE] /\ flow' = [flow EXCEPT !.at = "await"]
    BY <2>1, <2>3 DEF Idle
  <2>4. QED
    BY <1>24, <2>2, <2>3 DEF FlowReinject
<1>25. CASE FlowTurnEnds
  BY <1>25 DEF FlowTurnEnds, Attempted, Current
<1>26. CASE FlowStale
  BY <1>26 DEF FlowStale, Current
<1>27. CASE MetaAdvances
  BY <1>27 DEF MetaAdvances
<1>28. CASE TurnEnds
  BY <1>28 DEF TurnEnds
<1>29. CASE LateTurn
  BY <1>29 DEF LateTurn
<1>30. CASE SessionDies
  BY <1>30 DEF SessionDies, Fault
<1>31. CASE \E e \in Envelopes : Arrive(e)
  BY <1>31 DEF Arrive, Posted
<1>32. CASE \E e \in Envelopes : AgentPulls(e)
  BY <1>32 DEF AgentPulls
<1>99. QED
  BY <1>1, <1>2, <1>3, <1>4, <1>5, <1>6, <1>7, <1>8, <1>9, <1>10, <1>11, <1>12, <1>13, <1>14, <1>15, <1>16, <1>17, <1>18, <1>19, <1>20, <1>21, <1>22, <1>23, <1>24, <1>25, <1>26, <1>27, <1>28, <1>29, <1>30, <1>31, <1>32 DEF Next, Tick, Flow

LEMMA SessionStep == SessionInv /\ [Next]_vars => SessionInv'
<1> SUFFICES ASSUME SessionInv, [Next]_vars PROVE SessionInv'
  OBVIOUS
<1>1. CASE UNCHANGED vars
  BY <1>1 DEF vars, SessionInv, TypeOK, ToldIsRemembered, OpenAreHeld, RoleIsComing, Live
<1>2. CASE Next
  BY <1>2, TypeStep, ToldStep, OpenStep, RoleStep DEF SessionInv
<1>3. QED
  BY <1>1, <1>2

-----------------------------------------------------------------------------
(* The theorems                                                              *)

\* Tallies, attempts and streaks stay within the limits the code gives them, and the three parts
\* of the invariant hold.
THEOREM SessionInvariant == Spec => []SessionInv
BY SessionStarts, SessionStep, PTL DEF Spec

\* A session acknowledges an envelope at most once, whether or not it could be marked read
\* (main_loop.ts:94-157).
THEOREM EnvelopesAreInjectedOnce == Spec => []InjectedOnce
<1>1. SessionInv => InjectedOnce
  BY DEF SessionInv, ToldIsRemembered, InjectedOnce
<1>2. QED
  BY <1>1, SessionInvariant, PTL

\* Between ticks the STARTED without an ENDED is that of the session the host holds
\* (daemon.ts:875-990).
THEOREM PairsAreKept == Spec => []SessionsArePaired
<1>1. SessionInv => SessionsArePaired
  BY DEF SessionInv, OpenAreHeld, SessionsArePaired, None
<1>2. QED
  BY <1>1, SessionInvariant, PTL

\* A Watcher whose context was compacted is told its role before it is given work, unless every
\* attempt has failed (daemon.ts, the compact flow).
THEOREM RoleComesFirst == Spec => RoleBeforeWork
<1>1. SessionInv /\ [Next]_vars => (pc = "push" /\ pc' = "mark" => ~sess.roleless \/ flow.giveup)
  <2> SUFFICES ASSUME SessionInv, [Next]_vars, pc = "push", pc' = "mark" PROVE ~sess.roleless \/ flow.giveup
    OBVIOUS
  <2>1. Next
    BY DEF vars
  <2>2. Pushed
    BY <2>1 DEF Next, Tick, Flow, TickBegin, EnsureOnline, EndStale, StartSession, Started, StartFails, FirstMessage, FirstMessageFails, Fold, NoWake, Pushed, Busy, PushTimesOut, PushFails, MarkRead, OnMarkReadFailure, RemindMetaProgress, NoReminder, Unfoldable, ForceFailed, MaybeStartWatcherCompact, TickEnd, FlowCompact, FlowReinject, FlowTurnEnds, FlowStale, MetaAdvances, TurnEnds, LateTurn, SessionDies, Arrive, AgentPulls, EndedWritten, EndedUnwritten
  <2>3. QED
    BY <2>2 DEF Pushed, SessionInv, RoleIsComing
<1>2. QED
  BY <1>1, SessionInvariant, PTL DEF Spec, RoleBeforeWork

====
