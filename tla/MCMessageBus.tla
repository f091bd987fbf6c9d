---- MODULE MCMessageBus ----
(* Instances of MessageBus for TLC. *)
EXTENDS MessageBus
====
