---- MODULE MCWorkerLifecycle ----
(* Instances of WorkerLifecycle for TLC: up to three sessions over any number of hosts. *)
EXTENDS WorkerLifecycle
====
