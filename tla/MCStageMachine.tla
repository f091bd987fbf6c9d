---- MODULE MCStageMachine ----
(* Instances of StageMachine for TLC: one user process beside Meta and the tick. *)
EXTENDS StageMachine
====
