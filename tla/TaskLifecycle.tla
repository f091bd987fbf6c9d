---- MODULE TaskLifecycle ----
(***************************************************************************)
(* What docs/RUNTIME.md promises of a task's stage, without manifest, lock, *)
(* gate query or process: the edges of the state machine, and that a task   *)
(* is never worked on before its harness was reviewed.  StageMachine is      *)
(* shown to implement it.                                                    *)
(***************************************************************************)
InProgress == {"submitted", "clarifying", "bootstrapping", "running", "awaiting_user"}
Terminal   == {"done", "failed", "cancelled"}
Stages     == InProgress \cup Terminal \cup {"paused"}

\* Stages an agent may be sent back to: every in-progress one but the initial one.
Resettable == InProgress \ {"submitted"}

Edges == ({"submitted"} \X {"clarifying"})
    \cup (Resettable \X Resettable)
    \cup (Resettable \X {"failed"})
    \cup ({"running", "awaiting_user"} \X {"done"})
    \cup ((InProgress \cup {"paused"}) \X {"cancelled"})
    \cup (InProgress \X {"paused"})
    \cup ({"paused"} \X InProgress)

VARIABLES stage,      \* the stage the user sees
          reviewed    \* TRUE once a bootstrap self review was delivered

lifecycle == <<stage, reviewed>>

Init == stage = "submitted" /\ reviewed = FALSE

Review == reviewed' = TRUE /\ UNCHANGED stage

Advance == /\ <<stage, stage'>> \in Edges
           /\ stage' = "running" => reviewed
           /\ UNCHANGED reviewed

Next == Review \/ Advance

Spec == Init /\ [][Next]_lifecycle
====
