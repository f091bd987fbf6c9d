---- MODULE CodexCapsule ----
(***************************************************************************)
(* The app-servers of the Codex adapter (adapters/codex/runtime.ts): all      *)
(* sessions of one CODEX_HOME share one, which is spawned for the first and   *)
(* shut down after the last, and whose death ends them all.                   *)
(***************************************************************************)
EXTENDS Naturals, FiniteSets

CONSTANTS
  Sessions,     \* sessions of one CODEX_HOME
  MaxServers,   \* bound: app-servers spawned
  SlowExit      \* whether a killed process may be gone later than the next start

Servers == 1..MaxServers
None    == 0

VARIABLES
  capsule,    \* #capsules: the connection, or its promise, that a start is given
  conn,       \* each connection: "init", "up" or "failed"; #exited
  process,    \* its process: "unborn", "runs", "killed" or "gone"
  threads,    \* its #threads
  session,    \* each session: where it is, and on which connection
  spawned

vars == <<capsule, conn, process, threads, session, spawned>>

At(s, pc, k) == session' = [session EXCEPT ![s] = [pc |-> pc, on |-> k]]

-----------------------------------------------------------------------------
(* startSession                                                              *)

\* Mutant of Shared: only a connection that is up is shared.
SharedWhenUp == capsule # None /\ conn[capsule].state = "up"
Shared == capsule # None

\* ensureCapsule: the promise is shared before the handshake is done.
Start(s) ==
  /\ session[s].pc = "none"
  /\ SlowExit \/ \A k \in Servers : conn[k].state = "failed" => process[k] = "gone"
  /\ IF Shared
     THEN At(s, "wait", capsule) /\ UNCHANGED <<capsule, process, conn, spawned>>
     ELSE /\ spawned < MaxServers /\ spawned' = spawned + 1
          /\ capsule' = spawned'
          /\ process' = [process EXCEPT ![spawned'] = "runs"]
          /\ conn' = [conn EXCEPT ![spawned'].state = "init"]
          /\ At(s, "wait", spawned')
  /\ UNCHANGED threads

InitOk(k) ==
  /\ conn[k].state = "init" /\ process[k] = "runs"
  /\ conn' = [conn EXCEPT ![k].state = "up"]
  /\ UNCHANGED <<capsule, process, threads, session, spawned>>

\* The handshake fails: the process is killed, the promise forgotten, whoever waits for it fails.  The
\* connection does not know yet that it is over.
InitFails(k) ==
  /\ conn[k].state = "init"
  /\ conn' = [conn EXCEPT ![k].state = "failed"]
  /\ process' = [process EXCEPT ![k] = IF @ = "runs" THEN "killed" ELSE @]
  /\ capsule' = IF capsule = k THEN None ELSE capsule
  /\ session' = [s \in Sessions |-> IF session[s].on = k THEN [pc |-> "none", on |-> None] ELSE session[s]]
  /\ UNCHANGED <<threads, spawned>>

\* thread/start is answered: the thread is registered, session_started on its way.
ThreadStarts(s) ==
  LET k == session[s].on IN
  /\ session[s].pc = "wait" /\ conn[k].state = "up" /\ process[k] = "runs"
  /\ threads' = [threads EXCEPT ![k] = @ \cup {s}]
  /\ At(s, "registered", k)
  /\ UNCHANGED <<capsule, conn, process, spawned>>

Started(s) ==
  /\ session[s].pc = "registered"
  /\ At(s, "live", session[s].on)
  /\ UNCHANGED <<capsule, conn, process, threads, spawned>>

\* maybeShutdown: no thread is left.
Shutdown(k, left) ==
  IF left = {} /\ ~conn[k].exited
  THEN /\ conn' = [conn EXCEPT ![k].exited = TRUE]
       /\ process' = [process EXCEPT ![k] = "killed"]
       /\ capsule' = None
  ELSE UNCHANGED <<conn, process, capsule>>

\* Mutant of Rollback: what a failed start leaves is not looked at.
RollbackOnly(k) == UNCHANGED <<conn, process, capsule>>
Rollback(k) == Shutdown(k, threads[k])

\* start() fails: thread/start is refused, times out or is rejected by the exit.
StartFails(s) ==
  LET k == session[s].on IN
  /\ session[s].pc = "wait" /\ conn[k].state = "up"
  /\ At(s, "none", None)
  /\ Rollback(k)
  /\ UNCHANGED <<threads, spawned>>

-----------------------------------------------------------------------------
(* closeSession, and the end of a process                                     *)

\* Every session on a connection that is over is finalized by cascadeClose.
Cascade(k, sessions) ==
  /\ threads' = [threads EXCEPT ![k] = {}]
  /\ session' = [s \in Sessions |-> IF s \in sessions THEN [session[s] EXCEPT !.pc = "ending"] ELSE session[s]]

\* The thread is unsubscribed; its session_ended is on its way.
Close(s) ==
  LET k == session[s].on IN
  /\ session[s].pc = "live"
  /\ threads' = [threads EXCEPT ![k] = @ \ {s}]
  /\ At(s, "closing", k)
  /\ UNCHANGED <<capsule, conn, process, spawned>>

\* finalizeEnded is done: onThreadClosed.
Closed(s) ==
  LET k == session[s].on IN
  /\ session[s].pc = "closing"
  /\ At(s, "none", None)
  /\ Shutdown(k, threads[k])
  /\ UNCHANGED <<threads, spawned>>

\* Mutant of Siblings: the other sessions of the server that is killed are left.
SiblingsKept(k, s) == {s}
Siblings(k, s) == threads[k] \cup {s}

\* forceKillCapsule.
ForceClose(s) ==
  LET k == session[s].on IN
  /\ session[s].pc \in {"live", "registered"} /\ ~conn[k].exited
  /\ Cascade(k, Siblings(k, s))
  /\ conn' = [conn EXCEPT ![k].exited = TRUE]
  /\ process' = [process EXCEPT ![k] = "killed"]
  /\ capsule' = None
  /\ UNCHANGED spawned

\* A session ended with others: finalized, retired.
Ended(s) ==
  /\ session[s].pc = "ending"
  /\ At(s, "none", None)
  /\ UNCHANGED <<capsule, conn, process, threads, spawned>>

\* The process is gone.  When the connection did not end it itself, that is a crash.
Exit(k) ==
  /\ process[k] \in {"runs", "killed"}
  /\ process' = [process EXCEPT ![k] = "gone"]
  /\ IF conn[k].exited THEN UNCHANGED <<conn, capsule, threads, session>>
     ELSE /\ conn' = [conn EXCEPT ![k].exited = TRUE]
          /\ capsule' = None
          /\ Cascade(k, threads[k])
  /\ UNCHANGED spawned

-----------------------------------------------------------------------------

Init ==
  /\ capsule = None /\ spawned = 0
  /\ conn = [k \in Servers |-> [state |-> "unborn", exited |-> FALSE]]
  /\ process = [k \in Servers |-> "unborn"]
  /\ threads = [k \in Servers |-> {}]
  /\ session = [s \in Sessions |-> [pc |-> "none", on |-> None]]

Next ==
  \/ \E s \in Sessions :
       \/ Start(s) \/ ThreadStarts(s) \/ Started(s) \/ StartFails(s)
       \/ Close(s) \/ Closed(s) \/ ForceClose(s) \/ Ended(s)
  \/ \E k \in Servers : InitOk(k) \/ InitFails(k) \/ Exit(k)

Spec == Init /\ [][Next]_vars

-----------------------------------------------------------------------------

TypeOK ==
  /\ capsule \in Servers \cup {None} /\ spawned \in 0..MaxServers
  /\ \A k \in Servers : process[k] \in {"unborn", "runs", "killed", "gone"} /\ threads[k] \subseteq Sessions

Serving == {k \in Servers : process[k] = "runs"}

\* "One subprocess per capsule": two never run with one CODEX_HOME, where they would overwrite each
\* other's auth.json and thread store; and one that no session has or asks for is not left running.
OneServer ==
  /\ Cardinality(Serving) <= 1
  /\ \A k \in Serving : \E s \in Sessions : session[s].on = k

\* No session outlives its app-server unnoticed: when the connection is over, nobody on it is live.
LiveAreServed == \A s \in Sessions :
  session[s].pc = "live" => ~conn[session[s].on].exited /\ s \in threads[session[s].on]

=============================================================================
