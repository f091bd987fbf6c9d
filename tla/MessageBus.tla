---- MODULE MessageBus ----
(***************************************************************************)
(* The message bus (messaging/bus.ts) and its recovery                     *)
(* (messaging/recovery.ts): delivery state is a fold over the append-only  *)
(* state.jsonl, payloads are directories beside it, and every operation    *)
(* holds the bus lock while it folds and appends.  Between the steps of an *)
(* operation its process may die or a write may fail half-way; the next    *)
(* append then seals what is left into a line of its own (shared/jsonl.ts).*)
(* The host reads, marks and recovers; clients (CLI, web) write and peek.  *)
(***************************************************************************)
EXTENDS Naturals, Sequences, FiniteSets, FiniteSetsExt, Functions

CONSTANTS
  Channels,        \* channels in use
  Clients,         \* processes beside the host
  MaxEnvelopes,    \* bound: envelopes ever created
  MaxTime,         \* bound: time stamps
  MaxBreaks,       \* bound: things that go wrong
  Faults           \* what may go wrong

ASSUME ChannelsAssumption == Channels \subseteq {"meta", "worker", "watcher"} /\ "meta" \in Channels
ASSUME ClientsAssumption == Clients \cap {"host", "nobody"} = {}
ASSUME LimitsAssumption == MaxEnvelopes \in Nat /\ MaxTime \in Nat /\ MaxBreaks \in Nat
ASSUME BusFaultsAssumption == Faults \subseteq {"crash", "io", "timeout", "disk"}

Host == "host"
Writers == {Host} \cup Clients
Envelopes == 1 .. MaxEnvelopes
MaxCondemned == 2     \* bound: quarantines under way at once

VARIABLES
  stream,      \* the lines of state.jsonl that end in a line feed
  tail,        \* what follows the last line feed: Clean, a Torn line or a whole one
  payload,     \* the directory payloads/<envId>
  header,      \* the envelope: channel, sender, createdAt
  last,        \* lastUs of each process (shared/timeUtils.ts)
  waiting,     \* envelopes that are stamped and wait for the lock
  op,          \* the operation that holds the lock
  condemned,   \* quarantines that a failed pull has set off
  host,        \* the host: up, down or in recovery, and what recovery has left to do
  breaks,      \* how much has gone wrong so far
  offered,     \* envelopes the host has peeked at, to be marked read
  accepted,    \* history: envelopes whose enqueue returned
  before,      \* history: the envelopes accepted before each was stamped
  lost,        \* history: envelopes in a stream that was put aside
  handed       \* history: envelopes handed out by pulls as unread, in order

files   == <<stream, tail, payload>>
stamps  == <<header, last, before>>
tracked == <<accepted, lost, handed>>
vars == <<files, stamps, waiting, op, condemned, host, breaks, offered, tracked>>

-----------------------------------------------------------------------------
(* state.jsonl and its fold                                                  *)

Line(type, e, seq) == [type |-> type, env |-> e, seq |-> seq]
Torn  == Line("torn", 0, 0)
Clean == Line("clean", 0, 0)

Entries(type) == {i \in DOMAIN stream : stream[i].type = type}
Of(type) == {stream[i].env : i \in Entries(type)}

\* A line in the interior that does not parse makes the whole stream unreadable.
Corrupt   == Entries("torn") # {}
Enqueued  == Of("enqueued")
Read      == Of("read") \cap Enqueued
Responded == Of("responded") \cap Enqueued
Failed    == Of("failed") \cap Enqueued

\* Mutant of NextSeq: the last one is given out again.
NextSeqLast == Max({0} \cup {stream[i].seq : i \in Entries("enqueued")})

\* The next stateSeq: only enqueued records count.
NextSeq == Max({0} \cup {stream[i].seq : i \in Entries("enqueued")}) + 1

\* The order of delivery: createdAt, then stateSeq, then the place in the stream.
Position(e) == CHOOSE i \in Entries("enqueued") : stream[i].env = e
Before(e, f) ==
  LET i == Position(e)  j == Position(f) IN
  \/ header[e].at < header[f].at
  \/ header[e].at = header[f].at /\ stream[i].seq < stream[j].seq
  \/ header[e].at = header[f].at /\ stream[i].seq = stream[j].seq /\ i <= j

\* Mutant of FirstOf: the comparison is the wrong way round.
LastOf(S) == {e \in S : \A f \in S : Before(f, e)}
FirstOf(S) == {e \in S : \A f \in S : Before(e, f)}

\* An append seals an unfinished tail with a line feed and adds its line.
Sealed == IF tail = Clean THEN stream ELSE Append(stream, tail)

\* Mutant of Add: the line is written straight after the unfinished one.
AddUnsealed(line) == stream' = Append(stream, IF tail = Clean THEN line ELSE Torn) /\ tail' = Clean
Add(line) == stream' = Append(Sealed, line) /\ tail' = Clean

\* An append that fails or whose process dies: nothing, the line feed alone, a part of the
\* line, all of it but its line feed, or all of it is in the file.
Cut(line) ==
  \/ UNCHANGED <<stream, tail>>
  \/ stream' = Sealed /\ tail' \in {Clean, Torn, line}
  \/ Add(line)

-----------------------------------------------------------------------------
(* Enqueue                                                                   *)

Blank == [chan |-> "none", from |-> "nobody", at |-> 0]
NextEnvelope(e) == header[e] = Blank /\ \A f \in 1 .. e - 1 : header[f] # Blank

\* The stamp is taken before the lock, later than all stamps of this process; the clock behind
\* it ticks in milliseconds, so that those of two processes may lie either way.
Stamp(w, e, c) ==
  /\ NextEnvelope(e)
  /\ \E at \in last[w] + 1 .. MaxTime :
       /\ header' = [header EXCEPT ![e] = [chan |-> c, from |-> w, at |-> at]]
       /\ last' = [last EXCEPT ![w] = at]
  /\ before' = [before EXCEPT ![e] = accepted]
  /\ waiting' = waiting \cup {e}

\* The commands of CLI and web write to Meta; the host and its tools to every channel.
Call(w) ==
  /\ w = Host => host.pc = "up"
  /\ \E e \in Envelopes, c \in Channels : (w # Host => c = "meta") /\ Stamp(w, e, c)
  /\ UNCHANGED <<files, op, condemned, host, breaks, offered, tracked>>

Free == [kind |-> "free", by |-> "nobody", todo |-> {}, got |-> <<>>]
Operation(kind, w, S) == [kind |-> kind, by |-> w, todo |-> S, got |-> <<>>]
Idle == op = Free

\* Something goes wrong.
Break(kind) == kind \in Faults /\ breaks < MaxBreaks /\ breaks' = breaks + 1

\* The lock does not come free in time.
GiveUp ==
  /\ Break("timeout") /\ ~Idle
  /\ \E e \in waiting : waiting' = waiting \ {e}
  /\ UNCHANGED <<files, stamps, op, condemned, host, offered, tracked>>

\* Mutant of EnqueueBegin: the line is written first.
EnqueueLineFirst ==
  /\ Idle
  /\ \E e \in waiting :
       /\ waiting' = waiting \ {e}
       /\ IF Corrupt THEN UNCHANGED op ELSE op' = Operation("line", header[e].from, {e})
  /\ UNCHANGED <<files, stamps, condemned, host, breaks, offered, tracked>>

EnqueueBegin ==
  /\ Idle
  /\ \E e \in waiting :
       /\ waiting' = waiting \ {e}
       /\ IF Corrupt THEN UNCHANGED op ELSE op' = Operation("payload", header[e].from, {e})
  /\ UNCHANGED <<files, stamps, condemned, host, breaks, offered, tracked>>

EnqueuePayload ==
  /\ op.kind = "payload"
  /\ payload' = [e \in Envelopes |-> IF e \in op.todo THEN "whole" ELSE payload[e]]
  /\ op' = [op EXCEPT !.kind = "line"]
  /\ UNCHANGED <<stream, tail, stamps, waiting, condemned, host, breaks, offered, tracked>>

EnqueueLine ==
  /\ op.kind = "line"
  /\ \E e \in op.todo :
       Add(Line("enqueued", e, NextSeq)) /\ accepted' = accepted \cup {e}
  /\ op' = Free
  /\ UNCHANGED <<payload, stamps, waiting, condemned, host, breaks, offered, lost, handed>>

-----------------------------------------------------------------------------
(* Pull, peek and marks                                                      *)

HostUp == host.pc = "up"
On(c) == {e \in Enqueued \ Failed : header[e].chan = c}
Readable(e) == payload[e] = "whole"

\* With no candidates a pull or a peek changes nothing and is no step here.
Pull(c, includeRead) ==
  /\ HostUp /\ Idle /\ ~Corrupt
  /\ LET S == IF includeRead THEN On(c) ELSE On(c) \ Read IN
       S # {} /\ op' = Operation("pull", Host, S)
  /\ UNCHANGED <<files, stamps, waiting, condemned, host, breaks, offered, tracked>>

\* The pull tool finds the stream unreadable and sets off a quarantine it does not wait for.
PullCorrupt ==
  /\ HostUp /\ Idle /\ Corrupt /\ condemned < MaxCondemned
  /\ condemned' = condemned + 1
  /\ UNCHANGED <<files, stamps, waiting, op, host, breaks, offered, tracked>>

\* The host peeks for what it injects; so does inspect, a command that only shows.
Peek(w, c) ==
  /\ w = Host => HostUp
  /\ Idle /\ ~Corrupt
  /\ On(c) \ Read # {} /\ op' = Operation("peek", w, On(c) \ Read)
  /\ UNCHANGED <<files, stamps, waiting, condemned, host, breaks, offered, tracked>>

Reading == op.kind \in {"pull", "peek"}

Marks(e) == op.kind = "pull" /\ e \notin Read

\* The next candidate is read and marked; an unreadable one is marked failed on the worker
\* channel, and on any other one it ends the whole operation.
ReadNext ==
  /\ Reading
  /\ \E e \in FirstOf(op.todo) :
       LET rest == [op EXCEPT !.todo = @ \ {e}] IN
       \/ /\ Readable(e) /\ Marks(e)
          /\ Add(Line("read", e, NextSeq)) /\ op' = [rest EXCEPT !.got = Append(@, e)]
       \/ /\ Readable(e) /\ ~Marks(e)
          /\ op' = IF e \in Read THEN rest ELSE [rest EXCEPT !.got = Append(@, e)]
          /\ UNCHANGED <<stream, tail>>
       \/ /\ ~Readable(e) /\ header[e].chan = "worker"
          /\ Add(Line("failed", e, NextSeq)) /\ op' = rest
       \/ /\ ~Readable(e) /\ header[e].chan # "worker"
          /\ op' = Free /\ UNCHANGED <<stream, tail>>
  /\ UNCHANGED <<payload, stamps, waiting, condemned, host, breaks, offered, tracked>>

Return ==
  /\ Reading /\ op.todo = {}
  /\ op' = Free
  /\ IF op.kind = "pull" THEN handed' = handed \o op.got /\ UNCHANGED offered
     ELSE /\ offered' = offered \cup {e \in Range(op.got) : op.by = Host /\ header[e].chan # "worker"}
          /\ UNCHANGED handed
  /\ UNCHANGED <<files, stamps, waiting, condemned, host, breaks, accepted, lost>>

\* markReadBatch of what the host has injected, the envelopes it peeked at but those for the
\* worker; markResponded of an id that an agent names.
MarkReadBatch ==
  /\ HostUp /\ Idle /\ ~Corrupt /\ offered # {}
  /\ op' = Operation("read", Host, offered) /\ offered' = {}
  /\ UNCHANGED <<files, stamps, waiting, condemned, host, breaks, tracked>>

MarkResponded ==
  /\ HostUp /\ Idle /\ ~Corrupt
  /\ \E e \in Enqueued \cup lost : op' = Operation("responded", Host, {e})
  /\ UNCHANGED <<files, stamps, waiting, condemned, host, breaks, offered, tracked>>

Marking == op.kind \in {"read", "responded"}

\* Mutant of Markable: the channel is not looked at.
MarkableAnywhere(e) == e \in Enqueued \ Failed /\ e \notin Of(op.kind)

\* Unknown, failed and already marked envelopes are passed over.
Markable(e) ==
  /\ e \in Enqueued \ Failed /\ e \notin Of(op.kind)
  /\ op.kind = "responded" => header[e].chan = "worker"

MarkNext ==
  /\ Marking
  /\ \E e \in op.todo :
       /\ IF Markable(e) THEN Add(Line(op.kind, e, NextSeq)) ELSE UNCHANGED <<stream, tail>>
       /\ op' = IF op.todo = {e} THEN Free ELSE [op EXCEPT !.todo = @ \ {e}]
  /\ UNCHANGED <<payload, stamps, waiting, condemned, host, breaks, offered, tracked>>

-----------------------------------------------------------------------------
(* Failures                                                                  *)

\* The line the operation may be writing when it is cut off.
Unwritten ==
  CASE op.kind = "line" -> {Line("enqueued", e, NextSeq) : e \in op.todo}
    [] Reading -> {Line("read", e, NextSeq) : e \in {f \in FirstOf(op.todo) : Readable(f) /\ Marks(f)}}
                    \cup {Line("failed", e, NextSeq) :
                             e \in {f \in FirstOf(op.todo) : ~Readable(f) /\ header[f].chan = "worker"}}
    [] Marking -> {Line(op.kind, e, NextSeq) : e \in {f \in op.todo : Markable(f)}}
    [] OTHER -> {}

CutOff(left) ==
  /\ IF op.kind = "payload"
     THEN /\ \E p \in left : payload' = [e \in Envelopes |-> IF e \in op.todo THEN p ELSE payload[e]]
          /\ UNCHANGED <<stream, tail>>
     ELSE /\ \/ UNCHANGED <<stream, tail>>
             \/ \E line \in Unwritten : Cut(line) /\ <<stream', tail'>> # <<stream, tail>>
          /\ UNCHANGED payload
  /\ op' = Free

\* A write fails: the operation throws.  The temporary payload directory is removed, if it can be.
WriteFails ==
  /\ Break("io") /\ ~Idle
  /\ op.kind = "payload" \/ Unwritten # {}
  /\ CutOff({"none", "tmp"})
  /\ UNCHANGED <<stamps, waiting, condemned, host, offered, tracked>>

Down == [pc |-> "down", missing |-> {}, due |-> FALSE]

\* A process dies, with the lock or without; the system releases the lock.  Its successor's
\* clock readings are later than its last stamp.
Dies(w) ==
  /\ Break("crash")
  /\ IF op.by = w THEN CutOff({"none", "tmp", "whole"}) ELSE UNCHANGED <<files, op>>
  /\ waiting' = {e \in waiting : header[e].from # w}
  /\ IF w = Host THEN host' = Down /\ condemned' = 0 /\ offered' = {}
     ELSE UNCHANGED <<host, condemned, offered>>
  /\ UNCHANGED <<stamps, tracked>>

\* A payload is lost or damaged on disk: recovery sees the one, only a reader the other.
Damage ==
  /\ Break("disk")
  /\ \E e \in Envelopes, p \in {"missing", "garbled"} :
       payload[e] = "whole" /\ e \in Enqueued /\ payload' = [payload EXCEPT ![e] = p]
  /\ UNCHANGED <<stream, tail, stamps, waiting, op, condemned, host, offered, tracked>>

-----------------------------------------------------------------------------
(* Quarantine and recovery                                                   *)

\* The file is renamed, whatever it holds by then.
Quarantine ==
  /\ stream' = <<>> /\ tail' = Clean
  /\ lost' = lost \cup Enqueued

QuarantineLate ==
  /\ HostUp /\ Idle /\ condemned > 0
  /\ condemned' = condemned - 1
  /\ Quarantine
  /\ UNCHANGED <<payload, stamps, waiting, op, host, breaks, offered, accepted, handed>>

TruncateTail == tail' = Clean /\ UNCHANGED stream

\* Step 1 of recoverAfterCrash, under the lock: temporary directories go; if the stream folds,
\* its tail is truncated, incomplete payloads are noted and orphans deleted.
Recover ==
  /\ host.pc = "down" /\ Idle
  /\ IF Corrupt
     THEN /\ payload' = [e \in Envelopes |-> IF payload[e] = "tmp" THEN "none" ELSE payload[e]]
          /\ host' = [host EXCEPT !.pc = "quarantine"]
          /\ UNCHANGED <<stream, tail>>
     ELSE /\ TruncateTail
          /\ payload' = [e \in Envelopes |-> IF e \in Enqueued THEN payload[e] ELSE "none"]
          /\ host' = [host EXCEPT !.pc = "report",
                        !.missing = {e \in Enqueued \ Failed : payload[e] \notin {"whole", "garbled"}}]
  /\ UNCHANGED <<stamps, waiting, op, condemned, breaks, offered, tracked>>

RecoverQuarantine ==
  /\ host.pc = "quarantine" /\ Idle
  /\ Quarantine
  /\ host' = [host EXCEPT !.pc = "report", !.due = TRUE]
  /\ UNCHANGED <<payload, stamps, waiting, op, condemned, breaks, offered, accepted, handed>>

\* Recovery's own enqueue has returned, one way or the other.
Quiet == op.by # Host /\ \A e \in waiting : header[e].from # Host

\* Step 2: each incomplete payload is marked failed, which may fail itself, and reported to Meta.
RecoverMissing ==
  /\ host.pc = "report" /\ ~host.due /\ Quiet /\ Idle
  /\ \E e \in host.missing :
       \/ /\ ~Corrupt /\ Add(Line("failed", e, NextSeq)) /\ UNCHANGED breaks
          /\ host' = [host EXCEPT !.missing = @ \ {e}, !.due = TRUE]
       \/ /\ IF Corrupt THEN UNCHANGED <<stream, tail, breaks>>
             ELSE Break("io") /\ Cut(Line("failed", e, NextSeq))
          /\ host' = [host EXCEPT !.missing = @ \ {e}]
  /\ UNCHANGED <<payload, stamps, waiting, op, condemned, offered, tracked>>

\* The host_event of it; beyond the bound there is none.
RecoverReport ==
  /\ host.pc = "report" /\ host.due
  /\ \/ \E e \in Envelopes : Stamp(Host, e, "meta")
     \/ (last[Host] = MaxTime \/ \A e \in Envelopes : header[e] # Blank) /\ UNCHANGED <<stamps, waiting>>
  /\ host' = [host EXCEPT !.due = FALSE]
  /\ UNCHANGED <<files, op, condemned, breaks, offered, tracked>>

Recovered ==
  /\ host.pc = "report" /\ host.missing = {} /\ ~host.due /\ Quiet
  /\ host' = [host EXCEPT !.pc = "up"]
  /\ UNCHANGED <<files, stamps, waiting, op, condemned, breaks, offered, tracked>>

-----------------------------------------------------------------------------
Init ==
  /\ stream = <<>> /\ tail = Clean
  /\ payload = [e \in Envelopes |-> "none"]
  /\ header = [e \in Envelopes |-> Blank]
  /\ last = [w \in Writers |-> 0]
  /\ waiting = {} /\ op = Free /\ condemned = 0 /\ host = Down /\ breaks = 0
  /\ offered = {} /\ accepted = {} /\ lost = {} /\ handed = <<>>
  /\ before = [e \in Envelopes |-> {}]

Enqueue  == (\E w \in Writers : Call(w)) \/ GiveUp \/ EnqueueBegin \/ EnqueuePayload \/ EnqueueLine
Reads    == (\E c \in Channels : (\E w \in Writers : Peek(w, c)) \/ \E all \in BOOLEAN : Pull(c, all))
              \/ PullCorrupt \/ ReadNext \/ Return
Mark     == MarkReadBatch \/ MarkResponded \/ MarkNext
Fault    == WriteFails \/ (\E w \in Writers : Dies(w)) \/ Damage
Recovery == Recover \/ RecoverQuarantine \/ RecoverMissing \/ RecoverReport \/ Recovered

Next == Enqueue \/ Reads \/ Mark \/ Fault \/ QuarantineLate \/ Recovery

Spec == Init /\ [][Next]_vars

-----------------------------------------------------------------------------
(* Properties                                                                *)

Lines == [type : {"enqueued", "read", "responded", "failed"}, env : Envelopes, seq : Nat \ {0}]
Payloads == {"none", "tmp", "whole", "missing", "garbled"}
Headers == [chan : Channels \cup {"none"}, from : Writers \cup {"nobody"}, at : Nat]

FileTypes ==
  /\ stream \in Seq(Lines \cup {Torn}) /\ tail \in Lines \cup {Torn, Clean}
  /\ payload \in [Envelopes -> Payloads]
StampTypes ==
  /\ header \in [Envelopes -> Headers]
  /\ last \in [Writers -> Nat] /\ waiting \subseteq Envelopes
HostTypes ==
  /\ host \in [pc : {"up", "down", "quarantine", "report"}, missing : SUBSET Envelopes, due : BOOLEAN]
  /\ op \in [kind : {"free", "payload", "line", "pull", "peek", "read", "responded"},
             by : Writers \cup {"nobody"}, todo : SUBSET Envelopes, got : Seq(Envelopes)]
  /\ condemned \in 0 .. MaxCondemned /\ breaks \in Nat /\ offered \subseteq Envelopes
HistoryTypes ==
  /\ accepted \subseteq Envelopes /\ lost \subseteq Envelopes
  /\ handed \in Seq(Envelopes) /\ before \in [Envelopes -> SUBSET Envelopes]

\* Every variable keeps its type; in particular every stateSeq is a number and every line of
\* the stream is one of the four records, with a stateSeq from 1 on, or a torn one (bus.ts:635).
TypeOK == FileTypes /\ StampTypes /\ HostTypes /\ HistoryTypes

\* An envelope in the stream had its payload completed before its line was written, whatever
\* died in between, and no clean-up takes it away (bus.ts:190, recovery.ts:136).
PayloadBeforeLine == \A e \in Enqueued : payload[e] \notin {"none", "tmp"}

\* An envelope whose enqueue returned is in the stream, unless that stream was quarantined: no
\* truncation, no failed write of another operation and no restart drops it.
AcceptedIsKept == accepted \subseteq Enqueued \cup lost

\* What a sender enqueued on a channel before it went on to the next is delivered no later
\* than that (bus.ts, "sorted by createdAt,stateSeq").
SameWay(e, f) == header[e].from = header[f].from /\ header[e].chan = header[f].chan
SenderOrder ==
  \A j \in DOMAIN handed : \A e \in before[handed[j]] :
    SameWay(e, handed[j]) => /\ e \in Enqueued => e \in Read \cup Failed
                             /\ \A i \in DOMAIN handed : handed[i] = e => i < j

\* The bus implements the inbox of docs/RUNTIME.md: states only move forward, only the worker
\* channel is responded to, and nothing is handed out unmarked or twice.
StatusOf(e) ==
  IF e \in Failed THEN "failed" ELSE IF e \in Read THEN "read" ELSE IF e \in Enqueued THEN "unread"
  ELSE IF e \in lost THEN "lost" ELSE "absent"
Promise == INSTANCE Inbox WITH
  channel <- [e \in Envelopes |-> header[e].chan],
  status <- [e \in Envelopes |-> StatusOf(e)],
  responded <- Responded
ImplementsInbox == Promise!Spec

\* Payloads of a quarantined stream are preserved for audit (the host_event of recovery.ts:159).
QuarantinedPayloadsAreKept == \A e \in lost : payload[e] # "none"
====
