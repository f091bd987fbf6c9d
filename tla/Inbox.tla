---- MODULE Inbox ----
(***************************************************************************)
(* What the message bus promises of each envelope (docs/RUNTIME.md,        *)
(* "Messaging"): its delivery state only moves forward, responding is for  *)
(* the worker channel, and what is handed to an agent was marked read and  *)
(* is never handed out again.                                              *)
(***************************************************************************)
EXTENDS Naturals, Sequences, SequencesExt

CONSTANTS Envelopes, Channels

VARIABLES
  channel,     \* where an envelope is addressed to, "none" before it exists
  status,      \* its delivery state
  responded,   \* the envelopes marked responded
  handed       \* the envelopes handed to an agent as unread, in order

vars == <<channel, status, responded, handed>>

\* Delivery states and the way they move: an envelope may fail once read, when its payload is
\* found missing, and everything in a stream that is put aside is lost.
Edges == {<<"absent", "unread">>, <<"unread", "read">>, <<"unread", "failed">>, <<"read", "failed">>}
           \cup ({"unread", "read", "failed"} \X {"lost"})

Init ==
  /\ channel = [e \in Envelopes |-> "none"]
  /\ status = [e \in Envelopes |-> "absent"]
  /\ responded = {}
  /\ handed = <<>>

Address ==
  /\ \E e \in Envelopes, c \in Channels :
       channel[e] = "none" /\ channel' = [channel EXCEPT ![e] = c]
  /\ UNCHANGED <<status, responded, handed>>

\* One write to the stream can bring an earlier, unfinished one with it.
Move ==
  /\ status' \in [Envelopes -> {"absent", "unread", "read", "failed", "lost"}]
  /\ \A e \in Envelopes : status'[e] # status[e] => <<status[e], status'[e]>> \in Edges
  /\ \A e \in Envelopes : status'[e] # "absent" => channel[e] # "none"
  /\ \A e \in responded' \ responded : channel[e] = "worker" /\ status[e] # "absent"
  /\ \A e \in responded \ responded' : status'[e] = "lost"
  /\ UNCHANGED <<channel, handed>>

\* A pull returns: what it hands out was marked read first, and nobody got it before.
Hand ==
  /\ IsPrefix(handed, handed') /\ IsInjective(handed')
  /\ \A i \in DOMAIN handed' \ DOMAIN handed :
       handed'[i] \in Envelopes /\ status[handed'[i]] = "read"
  /\ UNCHANGED <<channel, status, responded>>

Next == Address \/ Move \/ Hand

Spec == Init /\ [][Next]_vars
====
