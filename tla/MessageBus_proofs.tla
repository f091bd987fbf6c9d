---- MODULE MessageBus_proofs ----
(***************************************************************************)
(* Theorems about MessageBus, for every number of envelopes, time stamps   *)
(* and failures and every set of clients, channels and kinds of failure.   *)
(*                                                                         *)
(* The argument follows an envelope from its stamp to its line: until the  *)
(* line is written it is nowhere in the file, not even in an unfinished    *)
(* tail, so that what happens to its payload then concerns nobody else.    *)
(* What a step does to the file is then one of a few effects, from which   *)
(* the order of delivery and the inbox of Inbox.tla follow.                *)
(***************************************************************************)
EXTENDS MessageBus, TLAPS

AnyLine == Lines \cup {Torn}
Operations ==
  [kind : {"free", "payload", "line", "pull", "peek", "read", "responded"},
   by : Writers \cup {"nobody"}, todo : SUBSET Envelopes, got : Seq(Envelopes)]
Hosts == [pc : {"up", "down", "quarantine", "report"}, missing : SUBSET Envelopes, due : BOOLEAN]

\* Of a stream: its sequence numbers, whether they have a greatest, and its envelopes.
SeqsOf(s) == {0} \cup {s[i].seq : i \in {j \in DOMAIN s : s[j].type = "enqueued"}}
Bounded(s) == \E m \in SeqsOf(s) : \A n \in SeqsOf(s) : m >= n
EnvsOf(s) == {s[i].env : i \in {j \in DOMAIN s : s[j].type = "enqueued"}}

\* What a line puts into the stream, and what is in the file, the unfinished tail included.
Brings(line) == IF line.type = "enqueued" THEN {line.env} ELSE {}
Written == Enqueued \cup Brings(tail)

\* Envelopes on their way to the file.
Underway == waiting \cup (IF op.kind \in {"payload", "line"} THEN op.todo ELSE {})

WrittenHasPayload == \A e \in Written : payload[e] \notin {"none", "tmp"}
LineHasPayload == op.kind = "line" => \A e \in op.todo : payload[e] \notin {"none", "tmp"}
UnderwayIsUnwritten ==
  /\ Underway \cap Written = {}
  /\ op.kind \in {"payload", "line"} => op.todo \cap waiting = {}
  /\ \A e \in Underway \cup Written : header[e] # Blank

BusInv ==
  /\ TypeOK /\ Bounded(stream)
  /\ WrittenHasPayload /\ LineHasPayload /\ UnderwayIsUnwritten /\ AcceptedIsKept

-----------------------------------------------------------------------------
(* The file                                                                  *)

\* One more line: the types stay, there is still a greatest number, and the line's envelope is
\* all that is added.
LEMMA AppendOne ==
  ASSUME NEW s \in Seq(AnyLine), NEW x \in AnyLine, Bounded(s)
  PROVE  /\ Append(s, x) \in Seq(AnyLine)
         /\ Bounded(Append(s, x))
         /\ EnvsOf(Append(s, x)) = EnvsOf(s) \cup Brings(x)
<1> DEFINE t == Append(s, x)
<1>1. /\ t \in Seq(AnyLine) /\ DOMAIN t = DOMAIN s \cup {Len(s) + 1} /\ Len(s) + 1 \notin DOMAIN s
      /\ t[Len(s) + 1] = x /\ \A i \in DOMAIN s : t[i] = s[i]
  OBVIOUS
<1> HIDE DEF t
<1>2. EnvsOf(t) = EnvsOf(s) \cup Brings(x)
  BY <1>1 DEF EnvsOf, Brings
<1>3. SeqsOf(t) = SeqsOf(s) \cup (IF x.type = "enqueued" THEN {x.seq} ELSE {})
  BY <1>1 DEF SeqsOf
<1>4. Bounded(t)
  <2>1. PICK m \in SeqsOf(s) : \A n \in SeqsOf(s) : m >= n
    BY DEF Bounded
  <2>2. SeqsOf(s) \subseteq Nat
    <3>1. \A i \in DOMAIN s : s[i] \in AnyLine
      OBVIOUS
    <3> QED BY <3>1 DEF SeqsOf, AnyLine, Lines, Torn, Line
  <2>3. x.type = "enqueued" => x.seq \in Nat
    BY DEF AnyLine, Lines, Torn, Line
  <2>4. CASE x.type = "enqueued" /\ x.seq >= m
    <3>1. \A n \in SeqsOf(t) : x.seq >= n
      BY <1>3, <2>1, <2>2, <2>3, <2>4
    <3> QED BY <1>3, <2>4, <3>1 DEF Bounded
  <2>5. CASE ~(x.type = "enqueued" /\ x.seq >= m)
    <3>1. \A n \in SeqsOf(t) : m >= n
      BY <1>3, <2>1, <2>2, <2>3, <2>5
    <3> QED BY <1>3, <2>1, <3>1 DEF Bounded
  <2> QED BY <2>4, <2>5
<1> QED BY <1>1, <1>2, <1>4 DEF t

\* The next sequence number is a number from 1 on.
LEMMA NextSeqIsPositive ==
  ASSUME FileTypes, Bounded(stream) PROVE NextSeq \in Nat \ {0}
<1>1. SeqsOf(stream) = {0} \cup {stream[i].seq : i \in Entries("enqueued")}
  BY DEF SeqsOf, Entries
<1>2. SeqsOf(stream) \subseteq Nat
  <2>1. \A i \in DOMAIN stream : stream[i] \in Lines \cup {Torn}
    BY DEF FileTypes
  <2> QED BY <2>1 DEF SeqsOf, Lines, Torn, Line
<1>3. Max(SeqsOf(stream)) \in SeqsOf(stream)
  BY DEF Bounded, Max
<1> QED BY <1>1, <1>2, <1>3 DEF NextSeq

\* A write, finished or cut off, keeps the file in order, drops nothing, and brings nothing
\* but its own envelope.
LEMMA WriteKeeps ==
  ASSUME FileTypes, Bounded(stream), NEW line \in Lines, Add(line) \/ Cut(line)
  PROVE  /\ stream' \in Seq(AnyLine) /\ tail' \in AnyLine \cup {Clean} /\ Bounded(stream')
         /\ Enqueued \subseteq Enqueued'
         /\ Written' \subseteq Written \cup Brings(line)
         /\ Add(line) => Brings(line) \subseteq Enqueued'
<1>1. Enqueued = EnvsOf(stream) /\ Enqueued' = EnvsOf(stream')
  BY DEF Enqueued, Of, Entries, EnvsOf
<1>2. stream \in Seq(AnyLine) /\ tail \in AnyLine \cup {Clean} /\ line \in AnyLine
  BY DEF FileTypes, AnyLine
<1>3. /\ Sealed \in Seq(AnyLine) /\ Bounded(Sealed)
      /\ EnvsOf(Sealed) = EnvsOf(stream) \cup Brings(tail)
  <2>1. CASE tail = Clean
    BY <1>2, <2>1 DEF Sealed, Brings, Clean, Line
  <2>2. CASE tail # Clean
    BY <1>2, <2>2, AppendOne DEF Sealed
  <2> QED BY <2>1, <2>2
<1>4. Brings(Clean) = {} /\ Brings(Torn) = {}
  BY DEF Brings, Clean, Torn, Line
<1>5. CASE Add(line)
  <2>1. EnvsOf(stream') = EnvsOf(Sealed) \cup Brings(line) /\ Bounded(stream') /\ stream' \in Seq(AnyLine)
    BY <1>2, <1>3, <1>5, AppendOne DEF Add
  <2> QED BY <1>1, <1>3, <1>4, <1>5, <2>1 DEF Add, Written
<1>6. CASE UNCHANGED <<stream, tail>>
  <2>1. CASE Add(line)
    BY <1>5, <2>1
  <2>2. CASE ~Add(line)
    BY <1>1, <1>2, <1>6, <2>2 DEF Written
  <2> QED BY <2>1, <2>2
<1>7. CASE stream' = Sealed /\ tail' \in {Clean, Torn, line}
  <2>1. CASE Add(line)
    BY <1>5, <2>1
  <2>2. CASE ~Add(line)
    BY <1>1, <1>2, <1>3, <1>4, <1>7, <2>2 DEF Written, AnyLine
  <2> QED BY <2>1, <2>2
<1> QED BY <1>5, <1>6, <1>7 DEF Cut

\* Every line an operation may be writing is a record, and only an enqueue brings an envelope,
\* the one it is about.
LEMMA LinesAreRecords ==
  ASSUME TypeOK, Bounded(stream), NEW e \in Envelopes
  PROVE  /\ \A type \in {"enqueued", "read", "responded", "failed"} : Line(type, e, NextSeq) \in Lines
         /\ \A type \in {"read", "responded", "failed"} : Brings(Line(type, e, NextSeq)) = {}
         /\ Brings(Line("enqueued", e, NextSeq)) = {e}
<1>1. NextSeq \in Nat \ {0}
  BY NextSeqIsPositive DEF TypeOK
<1> QED BY <1>1 DEF Line, Lines, Brings

\* A write by an operation that is over, or not an enqueue: what is in the file keeps its
\* payload, and what is still on its way stays out of it.
LEMMA WriteKeepsBus ==
  ASSUME BusInv, NEW line \in Lines, Add(line) \/ Cut(line),
         Brings(line) = {} \/ (op.kind = "line" /\ Brings(line) \subseteq op.todo),
         UNCHANGED <<payload, header, lost>>, waiting' \subseteq waiting,
         op'.kind \notin {"payload", "line"},
         accepted' \subseteq accepted \cup (IF Add(line) THEN Brings(line) ELSE {})
  PROVE  /\ FileTypes' /\ Bounded(stream')
         /\ WrittenHasPayload' /\ LineHasPayload' /\ UnderwayIsUnwritten' /\ AcceptedIsKept'
<1>1. /\ stream' \in Seq(AnyLine) /\ tail' \in AnyLine \cup {Clean} /\ Bounded(stream')
      /\ Enqueued \subseteq Enqueued'
      /\ Written' \subseteq Written \cup Brings(line)
      /\ Add(line) => Brings(line) \subseteq Enqueued'
  BY WriteKeeps DEF BusInv, TypeOK
<1>2. FileTypes'
  BY <1>1 DEF BusInv, TypeOK, FileTypes, AnyLine
<1>3. WrittenHasPayload'
  BY <1>1 DEF BusInv, WrittenHasPayload, LineHasPayload
<1>4. LineHasPayload'
  BY DEF LineHasPayload
<1>5. Underway' \subseteq waiting
  BY DEF Underway
<1>6. UnderwayIsUnwritten'
  BY <1>1, <1>5 DEF BusInv, UnderwayIsUnwritten, Underway
<1>7. AcceptedIsKept'
  BY <1>1 DEF BusInv, AcceptedIsKept
<1> QED BY <1>1, <1>2, <1>3, <1>4, <1>6, <1>7

\* A step that leaves the files alone and brings nothing on the way that is in them.
LEMMA SameFileKeepsBus ==
  ASSUME BusInv, UNCHANGED <<files, accepted, lost>>,
         Underway' \cap Written = {},
         op'.kind \in {"payload", "line"} => op'.todo \cap waiting' = {},
         \A e \in Underway' \cup Written : header'[e] # Blank,
         op'.kind = "line" => op' = op
  PROVE  /\ FileTypes' /\ Bounded(stream')
         /\ WrittenHasPayload' /\ LineHasPayload' /\ UnderwayIsUnwritten' /\ AcceptedIsKept'
<1>1. Enqueued' = Enqueued /\ Written' = Written
  BY DEF files, Enqueued, Of, Entries, Written
<1> QED BY <1>1 DEF files, BusInv, TypeOK, FileTypes, WrittenHasPayload, LineHasPayload, UnderwayIsUnwritten, AcceptedIsKept

-----------------------------------------------------------------------------
(* The steps                                                                 *)

LEMMA InitialBusInv == Init => BusInv
<1> SUFFICES ASSUME Init PROVE BusInv
  OBVIOUS
<1> USE DEF Init
<1>1. FileTypes
  BY DEF FileTypes, Payloads
<1>2. StampTypes
  BY DEF StampTypes, Headers, Blank, Writers
<1>3. HostTypes
  BY DEF HostTypes, Down, Free, MaxCondemned
<1>4. HistoryTypes
  BY DEF HistoryTypes
<1>5. Enqueued = {} /\ Written = {}
  BY DEF Enqueued, Of, Entries, Written, Brings, Clean, Line
<1>6. Bounded(stream)
  BY DEF Bounded, SeqsOf
<1>7. WrittenHasPayload /\ LineHasPayload /\ UnderwayIsUnwritten /\ AcceptedIsKept
  BY <1>5 DEF WrittenHasPayload, LineHasPayload, UnderwayIsUnwritten, AcceptedIsKept, Underway, Free
<1> QED BY <1>1, <1>2, <1>3, <1>4, <1>6, <1>7 DEF BusInv, TypeOK

\* A stamp makes a new envelope, which is in no file yet.
LEMMA StampKeeps ==
  ASSUME BusInv, NEW w \in Writers, NEW e \in Envelopes, NEW c \in Channels, Stamp(w, e, c)
  PROVE  /\ StampTypes' /\ before' \in [Envelopes -> SUBSET Envelopes]
         /\ waiting' = waiting \cup {e} /\ e \notin Underway \cup Written
         /\ \A f \in Envelopes : header[f] # Blank => header'[f] = header[f]
         /\ header'[e] # Blank
<1> USE DEF BusInv, TypeOK, StampTypes, HistoryTypes
<1>1. header[e] = Blank
  BY DEF Stamp, NextEnvelope
<1>2. PICK at \in last[w] + 1 .. MaxTime :
        /\ header' = [header EXCEPT ![e] = [chan |-> c, from |-> w, at |-> at]]
        /\ last' = [last EXCEPT ![w] = at]
  BY DEF Stamp
<1>3. at \in Nat
  BY LimitsAssumption
<1>4. c # "none"
  BY ChannelsAssumption
<1>5. StampTypes'
  BY <1>2, <1>3 DEF Stamp, Headers
<1>6. header'[e] # Blank
  BY <1>2, <1>4 DEF Blank
<1> QED BY <1>1, <1>2, <1>5, <1>6 DEF Stamp, UnderwayIsUnwritten

\* A stamp that touches neither the files nor the operation at work.
LEMMA StampKeepsBus ==
  ASSUME BusInv, NEW w \in Writers, NEW e \in Envelopes, NEW c \in Channels, Stamp(w, e, c),
         UNCHANGED <<files, op, accepted, lost>>
  PROVE  /\ StampTypes' /\ before' \in [Envelopes -> SUBSET Envelopes]
         /\ FileTypes' /\ Bounded(stream')
         /\ WrittenHasPayload' /\ LineHasPayload' /\ UnderwayIsUnwritten' /\ AcceptedIsKept'
<1>1. /\ StampTypes' /\ before' \in [Envelopes -> SUBSET Envelopes]
      /\ waiting' = waiting \cup {e} /\ e \notin Underway \cup Written
      /\ \A f \in Envelopes : header[f] # Blank => header'[f] = header[f]
      /\ header'[e] # Blank
  BY StampKeeps
<1>2. Underway' = Underway \cup {e} /\ op' = op
  BY <1>1 DEF Underway
<1>3. Underway \cup Written \subseteq Envelopes
  BY DEF BusInv, TypeOK, StampTypes, HostTypes, FileTypes, Underway, Written, Enqueued, Of, Entries,
         Brings, Lines, Torn, Clean, Line
<1>4. Underway' \cap Written = {} /\ \A f \in Underway' \cup Written : header'[f] # Blank
  BY <1>1, <1>2, <1>3 DEF BusInv, UnderwayIsUnwritten
<1>5. op'.kind \in {"payload", "line"} => op'.todo \cap waiting' = {}
  BY <1>1, <1>2 DEF BusInv, UnderwayIsUnwritten, Underway
<1> QED BY <1>1, <1>2, <1>4, <1>5, SameFileKeepsBus

LEMMA EnqueueKeeps == BusInv /\ Enqueue => BusInv'
<1> SUFFICES ASSUME BusInv, Enqueue PROVE BusInv'
  OBVIOUS
<1>1. ASSUME NEW w \in Writers, Call(w) PROVE BusInv'
  <2>1. PICK e \in Envelopes, c \in Channels : Stamp(w, e, c)
    BY <1>1 DEF Call
  <2>2. UNCHANGED <<files, op, condemned, host, breaks, offered, tracked>>
    BY <1>1 DEF Call
  <2>3. /\ StampTypes' /\ before' \in [Envelopes -> SUBSET Envelopes]
        /\ FileTypes' /\ Bounded(stream')
        /\ WrittenHasPayload' /\ LineHasPayload' /\ UnderwayIsUnwritten' /\ AcceptedIsKept'
    BY <2>1, <2>2, StampKeepsBus DEF tracked
  <2>4. HostTypes' /\ HistoryTypes'
    BY <2>2, <2>3 DEF BusInv, TypeOK, HostTypes, HistoryTypes, tracked
  <2> QED BY <2>3, <2>4 DEF BusInv, TypeOK
<1>2. CASE GiveUp
  <2>1. PICK e \in waiting : waiting' = waiting \ {e}
    BY <1>2 DEF GiveUp
  <2>2. op' = op /\ Underway' \subseteq Underway /\ header' = header
    BY <1>2, <2>1 DEF GiveUp, Underway, stamps
  <2>3. /\ FileTypes' /\ Bounded(stream')
        /\ WrittenHasPayload' /\ LineHasPayload' /\ UnderwayIsUnwritten' /\ AcceptedIsKept'
    <3>1. UNCHANGED <<files, accepted, lost>>
      BY <1>2 DEF GiveUp, tracked
    <3>2. Underway' \cap Written = {} /\ \A f \in Underway' \cup Written : header'[f] # Blank
      BY <2>2 DEF BusInv, UnderwayIsUnwritten
    <3>3. op'.kind \in {"payload", "line"} => op'.todo \cap waiting' = {}
      BY <2>1, <2>2 DEF BusInv, UnderwayIsUnwritten
    <3> QED BY <2>2, <3>1, <3>2, <3>3, SameFileKeepsBus
  <2>4. StampTypes' /\ HostTypes' /\ HistoryTypes'
    BY <1>2, <2>1, LimitsAssumption
       DEF GiveUp, Break, BusInv, TypeOK, StampTypes, HostTypes, HistoryTypes, stamps, tracked
  <2> QED BY <2>3, <2>4 DEF BusInv, TypeOK
<1>3. CASE EnqueueBegin
  <2>1. PICK e \in waiting :
          /\ waiting' = waiting \ {e}
          /\ IF Corrupt THEN UNCHANGED op ELSE op' = Operation("payload", header[e].from, {e})
    BY <1>3 DEF EnqueueBegin
  <2>2. e \in Envelopes /\ header[e].from \in Writers \cup {"nobody"}
    BY DEF BusInv, TypeOK, StampTypes, Headers
  <2>3. op = Free
    BY <1>3 DEF EnqueueBegin, Idle
  <2>4. /\ Underway' \subseteq Underway /\ op'.kind # "line"
        /\ op'.kind \in {"payload", "line"} => op'.todo \cap waiting' = {}
    BY <2>1, <2>3 DEF Operation, Free, Underway
  <2>5. /\ FileTypes' /\ Bounded(stream')
        /\ WrittenHasPayload' /\ LineHasPayload' /\ UnderwayIsUnwritten' /\ AcceptedIsKept'
    <3>1. UNCHANGED <<files, accepted, lost, header>>
      BY <1>3 DEF EnqueueBegin, tracked, stamps
    <3>2. Underway' \cap Written = {} /\ \A f \in Underway' \cup Written : header'[f] # Blank
      BY <2>4, <3>1 DEF BusInv, UnderwayIsUnwritten
    <3> QED BY <2>4, <3>1, <3>2, SameFileKeepsBus
  <2>6. StampTypes' /\ HistoryTypes'
    BY <1>3, <2>1 DEF EnqueueBegin, BusInv, TypeOK, StampTypes, HistoryTypes, stamps, tracked
  <2>7. HostTypes'
    <3>1. Operation("payload", header[e].from, {e}) \in Operations
      BY <2>2 DEF Operations, Operation
    <3> QED BY <1>3, <2>1, <3>1 DEF Operations, EnqueueBegin, BusInv, TypeOK, HostTypes
  <2> QED BY <2>5, <2>6, <2>7 DEF BusInv, TypeOK
<1>4. CASE EnqueuePayload
  <2>1. /\ UNCHANGED <<stream, tail, accepted, lost, header, waiting>> /\ op'.kind = "line" /\ op'.todo = op.todo
        /\ op.kind = "payload"
        /\ payload' = [e \in Envelopes |-> IF e \in op.todo THEN "whole" ELSE payload[e]]
    BY <1>4 DEF EnqueuePayload, tracked, stamps, BusInv, TypeOK, HostTypes
  <2>2. Enqueued' = Enqueued /\ Written' = Written /\ Underway' = Underway
    BY <2>1 DEF Enqueued, Of, Entries, Written, Underway
  <2>3. Written \subseteq Envelopes /\ op.todo \subseteq Envelopes
    BY DEF BusInv, TypeOK, HostTypes, FileTypes, Written, Enqueued, Of, Entries, Brings, Lines, Torn, Clean, Line
  <2>4. WrittenHasPayload' /\ LineHasPayload'
    BY <2>1, <2>2, <2>3 DEF BusInv, WrittenHasPayload, LineHasPayload
  <2>5. UnderwayIsUnwritten' /\ AcceptedIsKept'
    BY <2>1, <2>2 DEF BusInv, UnderwayIsUnwritten, AcceptedIsKept
  <2>6. FileTypes' /\ StampTypes' /\ HostTypes' /\ HistoryTypes' /\ Bounded(stream')
    BY <1>4, <2>1 DEF EnqueuePayload, BusInv, TypeOK, FileTypes, StampTypes, HostTypes, HistoryTypes,
                      Payloads, stamps, tracked
  <2> QED BY <2>4, <2>5, <2>6 DEF BusInv, TypeOK
<1>5. CASE EnqueueLine
  <2>1. PICK e \in op.todo : Add(Line("enqueued", e, NextSeq)) /\ accepted' = accepted \cup {e}
    BY <1>5 DEF EnqueueLine
  <2>2. e \in Envelopes
    BY DEF BusInv, TypeOK, HostTypes
  <2>3. Line("enqueued", e, NextSeq) \in Lines /\ Brings(Line("enqueued", e, NextSeq)) = {e}
    BY <2>2, LinesAreRecords DEF BusInv
  <2>4. /\ op.kind = "line" /\ op'.kind \notin {"payload", "line"}
        /\ UNCHANGED <<payload, header, lost, waiting>>
    BY <1>5 DEF EnqueueLine, Free, stamps
  <2>5. /\ FileTypes' /\ Bounded(stream')
        /\ WrittenHasPayload' /\ LineHasPayload' /\ UnderwayIsUnwritten' /\ AcceptedIsKept'
    BY <2>1, <2>3, <2>4, WriteKeepsBus
  <2>6. StampTypes' /\ HostTypes' /\ HistoryTypes'
    BY <1>5, <2>1, <2>2 DEF EnqueueLine, Free, BusInv, TypeOK, StampTypes, HostTypes, HistoryTypes, stamps
  <2> QED BY <2>5, <2>6 DEF BusInv, TypeOK
<1> QED BY <1>1, <1>2, <1>3, <1>4, <1>5 DEF Enqueue

\* A step that neither touches the files nor begins an enqueue.
LEMMA QuietStepKeepsBus ==
  ASSUME BusInv, UNCHANGED <<files, accepted, lost, header, waiting>>,
         op' = op \/ op'.kind \notin {"payload", "line"}
  PROVE  /\ FileTypes' /\ Bounded(stream')
         /\ WrittenHasPayload' /\ LineHasPayload' /\ UnderwayIsUnwritten' /\ AcceptedIsKept'
<1>1. /\ Underway' \subseteq Underway
      /\ op'.kind \in {"payload", "line"} => op' = op
  BY DEF Underway
<1>2. Underway' \cap Written = {} /\ \A f \in Underway' \cup Written : header'[f] # Blank
  BY <1>1 DEF BusInv, UnderwayIsUnwritten
<1>3. op'.kind \in {"payload", "line"} => op'.todo \cap waiting' = {}
  BY <1>1 DEF BusInv, UnderwayIsUnwritten
<1> QED BY <1>1, <1>2, <1>3, SameFileKeepsBus

\* An operation that begins is of the type of operations.
LEMMA OperationIsTyped ==
  ASSUME NEW kind \in {"pull", "peek", "read", "responded"}, NEW w \in Writers, NEW S \in SUBSET Envelopes
  PROVE  /\ Operation(kind, w, S) \in Operations
         /\ Operation(kind, w, S).kind = kind
  BY DEF Operations, Operation, Writers

\* What is in the stream or lost is an envelope.
LEMMA EnvelopesOnly ==
  ASSUME TypeOK
  PROVE  Enqueued \subseteq Envelopes /\ lost \subseteq Envelopes /\ \A c : On(c) \subseteq Envelopes
  BY DEF TypeOK, FileTypes, HistoryTypes, Enqueued, Of, Entries, Lines, Torn, Line, On

LEMMA ReadsKeep == BusInv /\ Reads => BusInv'
<1> SUFFICES ASSUME BusInv, Reads PROVE BusInv'
  OBVIOUS
<1>1. ASSUME NEW c \in Channels, (\E w \in Writers : Peek(w, c)) \/ \E all \in BOOLEAN : Pull(c, all)
      PROVE  BusInv'
  <2>1. PICK S \in SUBSET Envelopes, kind \in {"pull", "peek"}, w \in Writers : op' = Operation(kind, w, S)
    BY <1>1, EnvelopesOnly DEF Peek, Pull, BusInv, Writers
  <2>2. UNCHANGED <<files, stamps, waiting, condemned, host, breaks, offered, tracked>>
    BY <1>1 DEF Peek, Pull
  <2>3. HostTypes' /\ StampTypes' /\ HistoryTypes'
    BY <2>1, <2>2, OperationIsTyped DEF Operations, BusInv, TypeOK, HostTypes, StampTypes, HistoryTypes, stamps, tracked
  <2>4. op'.kind \notin {"payload", "line"}
    BY <2>1, OperationIsTyped
  <2> QED BY <2>2, <2>3, <2>4, QuietStepKeepsBus DEF BusInv, TypeOK, stamps, tracked
<1>2. CASE PullCorrupt
  <2>1. UNCHANGED <<files, stamps, waiting, op, host, breaks, offered, tracked>>
    BY <1>2 DEF PullCorrupt
  <2>2. HostTypes' /\ StampTypes' /\ HistoryTypes'
    BY <1>2, <2>1 DEF PullCorrupt, MaxCondemned, BusInv, TypeOK, HostTypes, StampTypes, HistoryTypes, stamps, tracked
  <2> QED BY <2>1, <2>2, QuietStepKeepsBus DEF BusInv, TypeOK, stamps, tracked
<1>3. CASE ReadNext
  <2>1. PICK e \in FirstOf(op.todo) :
          LET rest == [op EXCEPT !.todo = @ \ {e}] IN
          \/ /\ Add(Line("read", e, NextSeq)) /\ op' = [rest EXCEPT !.got = Append(@, e)]
          \/ /\ op' = IF e \in Read THEN rest ELSE [rest EXCEPT !.got = Append(@, e)]
             /\ UNCHANGED <<stream, tail>>
          \/ /\ Add(Line("failed", e, NextSeq)) /\ op' = rest
          \/ /\ op' = Free /\ UNCHANGED <<stream, tail>>
    BY <1>3 DEF ReadNext
  <2>2. UNCHANGED <<payload, stamps, waiting, condemned, host, breaks, offered, tracked>> /\ Reading
    BY <1>3 DEF ReadNext
  <2>3. e \in Envelopes
    BY DEF FirstOf, BusInv, TypeOK, HostTypes
  <2>4. op' \in Operations /\ op'.kind \notin {"payload", "line"}
    <3> DEFINE rest == [op EXCEPT !.todo = @ \ {e}]
               more == [rest EXCEPT !.got = Append(@, e)]
    <3>1. op \in Operations /\ op.kind \in {"pull", "peek"}
      BY <2>2 DEF Reading, BusInv, TypeOK, HostTypes, Operations
    <3>2. rest \in Operations /\ rest.kind = op.kind
      BY <3>1 DEF Operations
    <3>3. Append(rest.got, e) \in Seq(Envelopes)
      BY <2>3, <3>2 DEF Operations
    <3> HIDE DEF rest
    <3>4. more \in Operations /\ more.kind = op.kind
      BY <3>2, <3>3 DEF Operations
    <3>5. Free \in Operations /\ Free.kind = "free"
      BY DEF Free, Operations
    <3>6. op' \in {rest, more, Free}
      BY <2>1 DEF rest
    <3> HIDE DEF more
    <3> QED BY <3>1, <3>2, <3>4, <3>5, <3>6
  <2>5. HostTypes' /\ StampTypes' /\ HistoryTypes'
    BY <2>2, <2>4 DEF Operations, BusInv, TypeOK, HostTypes, StampTypes, HistoryTypes, stamps, tracked
  <2>6. CASE UNCHANGED <<stream, tail>>
    BY <2>2, <2>4, <2>5, <2>6, QuietStepKeepsBus DEF BusInv, TypeOK, stamps, tracked, files
  <2>7. ASSUME NEW type \in {"read", "failed"}, Add(Line(type, e, NextSeq)) PROVE BusInv'
    <3>1. Line(type, e, NextSeq) \in Lines /\ Brings(Line(type, e, NextSeq)) = {}
      BY <2>3, LinesAreRecords DEF BusInv
    <3>2. /\ FileTypes' /\ Bounded(stream')
          /\ WrittenHasPayload' /\ LineHasPayload' /\ UnderwayIsUnwritten' /\ AcceptedIsKept'
      BY <2>2, <2>4, <2>7, <3>1, WriteKeepsBus DEF stamps, tracked
    <3> QED BY <2>5, <3>2 DEF BusInv, TypeOK
  <2> QED BY <2>1, <2>6, <2>7
<1>4. CASE Return
  <2>1. UNCHANGED <<files, stamps, waiting, condemned, host, breaks, accepted, lost>> /\ op' = Free
    BY <1>4 DEF Return
  <2>2. op.got \in Seq(Envelopes)
    BY DEF BusInv, TypeOK, HostTypes
  <2>3. Range(op.got) \subseteq Envelopes
    BY <2>2 DEF Range
  <2>4. StampTypes'
    BY <2>1 DEF BusInv, TypeOK, StampTypes, stamps
  <2>5. offered' \subseteq Envelopes /\ handed' \in Seq(Envelopes)
    <3>1. offered \subseteq Envelopes /\ handed \in Seq(Envelopes)
      BY DEF BusInv, TypeOK, HostTypes, HistoryTypes
    <3>2. CASE op.kind = "pull"
      <4>1. handed' = handed \o op.got /\ offered' = offered
        BY <1>4, <3>2 DEF Return
      <4> QED BY <2>2, <3>1, <4>1
    <3>3. CASE op.kind # "pull"
      <4>1. /\ offered' = offered \cup {e \in Range(op.got) : op.by = Host /\ header[e].chan # "worker"}
            /\ handed' = handed
        BY <1>4, <3>3 DEF Return
      <4> QED BY <2>3, <3>1, <4>1
    <3> QED BY <3>2, <3>3
  <2>6. HostTypes' /\ HistoryTypes'
    BY <2>1, <2>5 DEF Free, BusInv, TypeOK, HostTypes, HistoryTypes, stamps
  <2>7. op'.kind \notin {"payload", "line"}
    BY <2>1 DEF Free
  <2> QED BY <2>1, <2>4, <2>6, <2>7, QuietStepKeepsBus DEF BusInv, TypeOK, stamps
<1> QED BY <1>1, <1>2, <1>3, <1>4 DEF Reads

LEMMA MarkKeeps == BusInv /\ Mark => BusInv'
<1> SUFFICES ASSUME BusInv, Mark PROVE BusInv'
  OBVIOUS
<1>1. CASE MarkReadBatch \/ MarkResponded
  <2>1. PICK S \in SUBSET Envelopes, kind \in {"read", "responded"}, w \in Writers :
          op' = Operation(kind, w, S)
    BY <1>1, EnvelopesOnly DEF MarkReadBatch, MarkResponded, BusInv, TypeOK, HostTypes, Writers
  <2>2. UNCHANGED <<files, stamps, waiting, condemned, host, breaks, tracked>> /\ offered' \subseteq offered
    BY <1>1 DEF MarkReadBatch, MarkResponded
  <2>3. HostTypes' /\ StampTypes' /\ HistoryTypes'
    BY <2>1, <2>2, OperationIsTyped DEF Operations, BusInv, TypeOK, HostTypes, StampTypes, HistoryTypes, stamps, tracked
  <2>4. op'.kind \notin {"payload", "line"}
    BY <2>1, OperationIsTyped
  <2> QED BY <2>2, <2>3, <2>4, QuietStepKeepsBus DEF BusInv, TypeOK, stamps, tracked
<1>2. CASE MarkNext
  <2>1. PICK e \in op.todo :
          /\ IF Markable(e) THEN Add(Line(op.kind, e, NextSeq)) ELSE UNCHANGED <<stream, tail>>
          /\ op' = IF op.todo = {e} THEN Free ELSE [op EXCEPT !.todo = @ \ {e}]
    BY <1>2 DEF MarkNext
  <2>2. UNCHANGED <<payload, stamps, waiting, condemned, host, breaks, offered, tracked>>
        /\ op.kind \in {"read", "responded"}
    BY <1>2 DEF MarkNext, Marking
  <2>3. e \in Envelopes
    BY DEF BusInv, TypeOK, HostTypes
  <2>4. /\ op' \in Operations
        /\ op'.kind \notin {"payload", "line"}
    BY <2>1, <2>2, <2>3 DEF Operations, Free, BusInv, TypeOK, HostTypes
  <2>5. HostTypes' /\ StampTypes' /\ HistoryTypes'
    BY <2>2, <2>4 DEF Operations, BusInv, TypeOK, HostTypes, StampTypes, HistoryTypes, stamps, tracked
  <2>6. CASE ~Markable(e)
    BY <2>1, <2>2, <2>4, <2>5, <2>6, QuietStepKeepsBus DEF BusInv, TypeOK, stamps, tracked, files
  <2>7. CASE Markable(e)
    <3>1. Line(op.kind, e, NextSeq) \in Lines /\ Brings(Line(op.kind, e, NextSeq)) = {}
      BY <2>2, <2>3, LinesAreRecords DEF BusInv
    <3>2. /\ FileTypes' /\ Bounded(stream')
          /\ WrittenHasPayload' /\ LineHasPayload' /\ UnderwayIsUnwritten' /\ AcceptedIsKept'
      BY <2>1, <2>2, <2>4, <2>7, <3>1, WriteKeepsBus DEF stamps, tracked
    <3> QED BY <2>5, <3>2 DEF BusInv, TypeOK
  <2> QED BY <2>6, <2>7
<1> QED BY <1>1, <1>2 DEF Mark

-----------------------------------------------------------------------------
(* Failures                                                                  *)

\* What an operation may be writing is a record, and brings at most the envelope it enqueues.
LEMMA UnwrittenIsOwn ==
  ASSUME BusInv, NEW line \in Unwritten
  PROVE  line \in Lines /\ (Brings(line) = {} \/ (op.kind = "line" /\ Brings(line) \subseteq op.todo))
<1>1. op.todo \subseteq Envelopes /\ \A e \in FirstOf(op.todo) : e \in op.todo
  BY DEF BusInv, TypeOK, HostTypes, FirstOf
<1>2. TypeOK /\ Bounded(stream)
  BY DEF BusInv
<1>3. CASE op.kind = "line"
  <2>1. Unwritten = {Line("enqueued", e, NextSeq) : e \in op.todo}
    BY <1>3 DEF Unwritten, Reading, Marking
  <2>2. PICK e \in op.todo : line = Line("enqueued", e, NextSeq)
    BY <2>1
  <2> QED BY <1>1, <1>2, <1>3, <2>2, LinesAreRecords
<1>4. CASE Reading
  <2> DEFINE Taken == {f \in FirstOf(op.todo) : Readable(f) /\ Marks(f)}
             Fails == {f \in FirstOf(op.todo) : ~Readable(f) /\ header[f].chan = "worker"}
  <2>1. Unwritten = {Line("read", e, NextSeq) : e \in Taken} \cup {Line("failed", e, NextSeq) : e \in Fails}
    BY <1>4 DEF Unwritten, Reading, Marking
  <2>2. Taken \subseteq Envelopes /\ Fails \subseteq Envelopes
    BY <1>1
  <2> HIDE DEF Taken, Fails
  <2>3. PICK e \in Envelopes, type \in {"read", "failed"} : line = Line(type, e, NextSeq)
    BY <2>1, <2>2
  <2> QED BY <1>1, <1>2, <2>3, LinesAreRecords
<1>5. CASE Marking
  <2>1. PICK e \in op.todo : line = Line(op.kind, e, NextSeq)
    BY <1>5 DEF Unwritten, Reading, Marking
  <2> QED BY <1>1, <1>2, <1>5, <2>1, LinesAreRecords DEF Marking
<1> QED BY <1>3, <1>4, <1>5 DEF Unwritten

\* An operation that is cut off takes nothing along but its own envelope.
LEMMA CutOffKeepsBus ==
  ASSUME BusInv, NEW left \in SUBSET {"none", "tmp", "whole"}, CutOff(left),
         UNCHANGED <<header, accepted, lost>>, waiting' \subseteq waiting
  PROVE  /\ op' = Free
         /\ FileTypes' /\ Bounded(stream')
         /\ WrittenHasPayload' /\ LineHasPayload' /\ UnderwayIsUnwritten' /\ AcceptedIsKept'
<1>1. op' = Free /\ op'.kind = "free"
  BY DEF CutOff, Free
<1>2. CASE op.kind = "payload"
  <2>1. PICK p \in {"none", "tmp", "whole"} :
          payload' = [e \in Envelopes |-> IF e \in op.todo THEN p ELSE payload[e]]
    BY <1>2 DEF CutOff
  <2>2. UNCHANGED <<stream, tail>>
    BY <1>2 DEF CutOff
  <2>3. Enqueued' = Enqueued /\ Written' = Written /\ Underway' \subseteq waiting
    BY <1>1, <2>2 DEF Enqueued, Of, Entries, Written, Underway
  <2>4. Written \subseteq Envelopes /\ Written \cap op.todo = {}
    BY <1>2 DEF BusInv, UnderwayIsUnwritten, Underway, TypeOK, FileTypes, Written, Enqueued, Of, Entries,
           Brings, Lines, Torn, Clean, Line
  <2>5. FileTypes' /\ Bounded(stream')
    BY <2>1, <2>2 DEF BusInv, TypeOK, FileTypes, Payloads
  <2>6. WrittenHasPayload' /\ LineHasPayload'
    BY <1>1, <2>1, <2>3, <2>4 DEF BusInv, WrittenHasPayload, LineHasPayload
  <2>7. UnderwayIsUnwritten' /\ AcceptedIsKept'
    BY <1>1, <2>3 DEF BusInv, UnderwayIsUnwritten, Underway, AcceptedIsKept
  <2> QED BY <1>1, <2>5, <2>6, <2>7
<1>3. CASE op.kind # "payload" /\ UNCHANGED <<stream, tail>>
  <2>1. UNCHANGED <<files, accepted, lost>> /\ Underway' \subseteq Underway
    BY <1>1, <1>3 DEF CutOff, files, Underway
  <2>2. Underway' \cap Written = {} /\ \A e \in Underway' \cup Written : header'[e] # Blank
    BY <2>1 DEF BusInv, UnderwayIsUnwritten
  <2> QED BY <1>1, <2>1, <2>2, SameFileKeepsBus
<1>4. CASE op.kind # "payload" /\ ~UNCHANGED <<stream, tail>>
  <2>1. PICK line \in Unwritten : Cut(line)
    BY <1>4 DEF CutOff
  <2>2. UNCHANGED payload
    BY <1>4 DEF CutOff
  <2> QED BY <1>1, <2>1, <2>2, UnwrittenIsOwn, WriteKeepsBus
<1> QED BY <1>2, <1>3, <1>4

LEMMA FaultKeeps == BusInv /\ Fault => BusInv'
<1> SUFFICES ASSUME BusInv, Fault PROVE BusInv'
  OBVIOUS
<1>1. breaks' \in Nat
  BY DEF Fault, WriteFails, Dies, Damage, Break, BusInv, TypeOK, HostTypes
<1>2. Free \in Operations
  BY DEF Free, Operations
<1>3. CASE WriteFails
  <2>1. UNCHANGED <<stamps, waiting, condemned, host, offered, tracked>>
    BY <1>3 DEF WriteFails
  <2>2. /\ op' = Free
        /\ FileTypes' /\ Bounded(stream')
        /\ WrittenHasPayload' /\ LineHasPayload' /\ UnderwayIsUnwritten' /\ AcceptedIsKept'
    BY <1>3, <2>1, CutOffKeepsBus DEF WriteFails, stamps, tracked
  <2>3. StampTypes' /\ HostTypes' /\ HistoryTypes'
    BY <1>1, <1>2, <2>1, <2>2
       DEF Operations, BusInv, TypeOK, StampTypes, HostTypes, HistoryTypes, stamps, tracked
  <2> QED BY <2>2, <2>3 DEF BusInv, TypeOK
<1>4. ASSUME NEW w \in Writers, Dies(w) PROVE BusInv'
  <2>1. UNCHANGED <<stamps, tracked>> /\ waiting' \subseteq waiting
    BY <1>4 DEF Dies
  <2>2. /\ op' \in {Free, op}
        /\ FileTypes' /\ Bounded(stream')
        /\ WrittenHasPayload' /\ LineHasPayload' /\ UnderwayIsUnwritten' /\ AcceptedIsKept'
    <3>1. CASE op.by = w
      <4>1. CutOff({"none", "tmp", "whole"})
        BY <1>4, <3>1 DEF Dies
      <4> QED BY <2>1, <4>1, CutOffKeepsBus DEF stamps, tracked
    <3>2. CASE op.by # w
      <4>1. UNCHANGED <<files, op, accepted, lost, header>> /\ Underway' \subseteq Underway
        BY <1>4, <2>1, <3>2 DEF Dies, Underway, stamps, tracked
      <4>2. /\ Underway' \cap Written = {} /\ \A e \in Underway' \cup Written : header'[e] # Blank
            /\ op'.kind \in {"payload", "line"} => op'.todo \cap waiting' = {}
        BY <2>1, <4>1 DEF BusInv, UnderwayIsUnwritten
      <4> QED BY <4>1, <4>2, SameFileKeepsBus
    <3> QED BY <3>1, <3>2
  <2>3. /\ host' \in {host, Down} /\ condemned' \in {condemned, 0} /\ offered' \subseteq offered
    BY <1>4 DEF Dies
  <2>4. StampTypes' /\ HistoryTypes'
    BY <2>1 DEF BusInv, TypeOK, StampTypes, HistoryTypes, stamps, tracked
  <2>5. HostTypes'
    <3>1. op' \in Operations /\ condemned' \in 0 .. MaxCondemned /\ offered' \subseteq Envelopes
      BY <1>2, <2>2, <2>3 DEF Operations, MaxCondemned, BusInv, TypeOK, HostTypes
    <3>2. host \in Hosts
      BY DEF Hosts, BusInv, TypeOK, HostTypes
    <3>3. Down \in Hosts
      BY DEF Down, Hosts
    <3>4. host' \in Hosts
      BY <2>3, <3>2, <3>3
    <3> QED BY <1>1, <3>1, <3>4 DEF Operations, Hosts, HostTypes
  <2> QED BY <2>2, <2>4, <2>5 DEF BusInv, TypeOK
<1>5. CASE Damage
  <2>1. PICK e \in Envelopes, p \in {"missing", "garbled"} : payload' = [payload EXCEPT ![e] = p]
    BY <1>5 DEF Damage
  <2>2. UNCHANGED <<stream, tail, stamps, waiting, op, condemned, host, offered, tracked>>
    BY <1>5 DEF Damage
  <2>3. Enqueued' = Enqueued /\ Written' = Written /\ Underway' = Underway
    BY <2>2 DEF Enqueued, Of, Entries, Written, Underway
  <2>4. Written \subseteq Envelopes /\ op.todo \subseteq Envelopes
    BY DEF BusInv, TypeOK, HostTypes, FileTypes, Written, Enqueued, Of, Entries, Brings, Lines, Torn, Clean, Line
  <2>5. FileTypes' /\ Bounded(stream')
    BY <2>1, <2>2 DEF BusInv, TypeOK, FileTypes, Payloads
  <2>6. payload \in [Envelopes -> Payloads]
    BY DEF BusInv, TypeOK, FileTypes
  <2>7. \A f \in Envelopes : payload[f] \notin {"none", "tmp"} => payload'[f] \notin {"none", "tmp"}
    BY <2>1, <2>6
  <2>8. WrittenHasPayload' /\ LineHasPayload' /\ UnderwayIsUnwritten' /\ AcceptedIsKept'
    BY <2>2, <2>3, <2>4, <2>7
       DEF BusInv, WrittenHasPayload, LineHasPayload, UnderwayIsUnwritten, AcceptedIsKept, stamps, tracked
  <2>9. StampTypes' /\ HostTypes' /\ HistoryTypes'
    BY <1>1, <2>2 DEF BusInv, TypeOK, StampTypes, HostTypes, HistoryTypes, stamps, tracked
  <2> QED BY <2>5, <2>8, <2>9 DEF BusInv, TypeOK
<1> QED BY <1>3, <1>4, <1>5 DEF Fault

-----------------------------------------------------------------------------
(* Quarantine and recovery                                                   *)

\* A stream that is put aside leaves an empty file, and its envelopes are lost.
LEMMA QuarantineKeepsBus ==
  ASSUME BusInv, Quarantine, UNCHANGED <<payload, header, waiting, op, accepted>>
  PROVE  /\ FileTypes' /\ Bounded(stream') /\ lost' \subseteq Envelopes
         /\ WrittenHasPayload' /\ LineHasPayload' /\ UnderwayIsUnwritten' /\ AcceptedIsKept'
<1>1. stream' = <<>> /\ tail' = Clean /\ lost' = lost \cup Enqueued
  BY DEF Quarantine
<1>2. Enqueued' = {} /\ Written' = {} /\ Underway' = Underway
  BY <1>1 DEF Enqueued, Of, Entries, Written, Brings, Clean, Line, Underway
<1>3. FileTypes' /\ Bounded(stream')
  BY <1>1 DEF BusInv, TypeOK, FileTypes, Bounded, SeqsOf
<1>4. lost' \subseteq Envelopes
  BY <1>1, EnvelopesOnly DEF BusInv
<1>5. WrittenHasPayload' /\ LineHasPayload' /\ UnderwayIsUnwritten' /\ AcceptedIsKept'
  BY <1>1, <1>2 DEF BusInv, WrittenHasPayload, LineHasPayload, UnderwayIsUnwritten, AcceptedIsKept
<1> QED BY <1>3, <1>4, <1>5

LEMMA QuarantineLateKeeps == BusInv /\ QuarantineLate => BusInv'
<1> SUFFICES ASSUME BusInv, QuarantineLate PROVE BusInv'
  OBVIOUS
<1>1. /\ Quarantine /\ condemned > 0 /\ condemned' = condemned - 1
      /\ UNCHANGED <<payload, stamps, waiting, op, host, breaks, offered, accepted, handed>>
  BY DEF QuarantineLate
<1>2. /\ FileTypes' /\ Bounded(stream') /\ lost' \subseteq Envelopes
      /\ WrittenHasPayload' /\ LineHasPayload' /\ UnderwayIsUnwritten' /\ AcceptedIsKept'
  BY <1>1, QuarantineKeepsBus DEF stamps
<1>3. StampTypes' /\ HostTypes' /\ HistoryTypes'
  BY <1>1, <1>2 DEF MaxCondemned, BusInv, TypeOK, StampTypes, HostTypes, HistoryTypes, stamps
<1> QED BY <1>2, <1>3 DEF BusInv, TypeOK

\* Recovery leaves the bus in order, whatever the crash left behind: no orphan it deletes has a
\* line, and no tail it truncates carries an envelope that was accepted.
LEMMA RecoveryKeeps == BusInv /\ Recovery => BusInv'
<1> SUFFICES ASSUME BusInv, Recovery PROVE BusInv'
  OBVIOUS
<1>1. host \in Hosts
  BY DEF Hosts, BusInv, TypeOK, HostTypes
<1>2. Enqueued \subseteq Envelopes
  BY EnvelopesOnly DEF BusInv
<1>3. ASSUME host' \in Hosts, UNCHANGED <<op, condemned, offered>>, breaks' \in Nat PROVE HostTypes'
  BY <1>3 DEF Hosts, BusInv, TypeOK, HostTypes
<1>4. CASE Recover
  <2>1. UNCHANGED <<stamps, waiting, op, condemned, breaks, offered, tracked, stream>> /\ op = Free
    BY <1>4 DEF Recover, Idle, TruncateTail
  <2>2. host' \in Hosts
    <3>1. PICK pc \in {"quarantine", "report"}, S \in SUBSET Envelopes :
            host' = [host EXCEPT !.pc = pc] \/ host' = [host EXCEPT !.pc = pc, !.missing = S]
      BY <1>2, <1>4 DEF Recover
    <3> QED BY <1>1, <3>1 DEF Hosts
  <2>3. tail' \in {tail, Clean} /\ \A e \in Enqueued \cup Brings(tail') : payload'[e] = payload[e]
    <3>1. CASE Corrupt
      <4>1. tail' = tail /\ payload' = [e \in Envelopes |-> IF payload[e] = "tmp" THEN "none" ELSE payload[e]]
        BY <1>4, <3>1 DEF Recover
      <4>2. Enqueued \cup Brings(tail') \subseteq Written /\ Written \subseteq Envelopes
        BY <4>1 DEF BusInv, TypeOK, FileTypes, Written, Enqueued, Of, Entries, Brings, Lines, Torn, Clean, Line
      <4> QED BY <4>1, <4>2 DEF BusInv, WrittenHasPayload
    <3>2. CASE ~Corrupt
      <4>1. tail' = Clean /\ payload' = [e \in Envelopes |-> IF e \in Enqueued THEN payload[e] ELSE "none"]
        BY <1>4, <3>2 DEF Recover, TruncateTail
      <4> QED BY <1>2, <4>1 DEF Brings, Clean, Line
    <3> QED BY <3>1, <3>2
  <2>4. Enqueued' = Enqueued /\ Written' \subseteq Written /\ Written' = Enqueued \cup Brings(tail')
        /\ Underway' = Underway
    BY <2>1, <2>3 DEF Enqueued, Of, Entries, Written, Underway, Brings, Clean, Line
  <2>5. FileTypes' /\ Bounded(stream')
    <3>1. payload' \in [Envelopes -> Payloads]
      BY <1>4 DEF Recover, BusInv, TypeOK, FileTypes, Payloads
    <3> QED BY <2>1, <2>3, <3>1 DEF BusInv, TypeOK, FileTypes
  <2>6. WrittenHasPayload' /\ LineHasPayload' /\ UnderwayIsUnwritten' /\ AcceptedIsKept'
    BY <2>1, <2>3, <2>4
       DEF BusInv, WrittenHasPayload, LineHasPayload, UnderwayIsUnwritten, AcceptedIsKept, Free, stamps, tracked
  <2>7. HostTypes'
    BY <1>3, <2>1, <2>2 DEF BusInv, TypeOK, HostTypes
  <2>8. StampTypes' /\ HistoryTypes'
    BY <2>1 DEF BusInv, TypeOK, StampTypes, HistoryTypes, stamps, tracked
  <2> QED BY <2>5, <2>6, <2>7, <2>8 DEF BusInv, TypeOK
<1>5. CASE RecoverQuarantine
  <2>1. /\ Quarantine /\ host' = [host EXCEPT !.pc = "report", !.due = TRUE]
        /\ UNCHANGED <<payload, stamps, waiting, op, condemned, breaks, offered, accepted, handed>>
    BY <1>5 DEF RecoverQuarantine
  <2>2. /\ FileTypes' /\ Bounded(stream') /\ lost' \subseteq Envelopes
        /\ WrittenHasPayload' /\ LineHasPayload' /\ UnderwayIsUnwritten' /\ AcceptedIsKept'
    BY <2>1, QuarantineKeepsBus DEF stamps
  <2>3. host' \in Hosts
    BY <1>1, <2>1 DEF Hosts
  <2>4. HostTypes'
    BY <1>3, <2>1, <2>3 DEF BusInv, TypeOK, HostTypes
  <2>5. StampTypes' /\ HistoryTypes'
    BY <2>1, <2>2 DEF BusInv, TypeOK, StampTypes, HistoryTypes, stamps
  <2> QED BY <2>2, <2>4, <2>5 DEF BusInv, TypeOK
<1>6. CASE RecoverMissing
  <2>1. /\ UNCHANGED <<payload, stamps, waiting, op, condemned, offered, tracked>>
        /\ op = Free /\ op.kind = "free"
    BY <1>6 DEF RecoverMissing, Idle, Free
  <2>2. PICK e \in host.missing :
          /\ \/ Add(Line("failed", e, NextSeq)) \/ Cut(Line("failed", e, NextSeq))
             \/ UNCHANGED <<stream, tail>>
          /\ breaks' \in {breaks, breaks + 1}
          /\ \/ host' = [host EXCEPT !.missing = @ \ {e}, !.due = TRUE]
             \/ host' = [host EXCEPT !.missing = @ \ {e}]
    BY <1>6 DEF RecoverMissing, Break
  <2>3. e \in Envelopes /\ host' \in Hosts
    BY <1>1, <2>2 DEF Hosts
  <2>4. HostTypes'
    BY <1>3, <2>1, <2>2, <2>3 DEF BusInv, TypeOK, HostTypes
  <2>5. StampTypes' /\ HistoryTypes'
    BY <2>1 DEF BusInv, TypeOK, StampTypes, HistoryTypes, stamps, tracked
  <2>6. CASE UNCHANGED <<stream, tail>>
    BY <2>1, <2>4, <2>5, <2>6, QuietStepKeepsBus DEF BusInv, TypeOK, stamps, tracked, files
  <2>7. CASE Add(Line("failed", e, NextSeq)) \/ Cut(Line("failed", e, NextSeq))
    <3>1. Line("failed", e, NextSeq) \in Lines /\ Brings(Line("failed", e, NextSeq)) = {}
      BY <2>3, LinesAreRecords DEF BusInv
    <3>2. /\ FileTypes' /\ Bounded(stream')
          /\ WrittenHasPayload' /\ LineHasPayload' /\ UnderwayIsUnwritten' /\ AcceptedIsKept'
      BY <2>1, <2>7, <3>1, WriteKeepsBus DEF stamps, tracked
    <3> QED BY <2>4, <2>5, <3>2 DEF BusInv, TypeOK
  <2> QED BY <2>2, <2>6, <2>7
<1>7. CASE RecoverReport
  <2>1. /\ UNCHANGED <<files, op, condemned, breaks, offered, tracked>>
        /\ host' = [host EXCEPT !.due = FALSE]
    BY <1>7 DEF RecoverReport
  <2>2. host' \in Hosts
    BY <1>1, <2>1 DEF Hosts
  <2>3. HostTypes'
    BY <1>3, <2>1, <2>2 DEF BusInv, TypeOK, HostTypes
  <2>4. CASE UNCHANGED <<stamps, waiting>>
    <3>1. StampTypes' /\ HistoryTypes'
      BY <2>1, <2>4 DEF BusInv, TypeOK, StampTypes, HistoryTypes, stamps, tracked
    <3> QED BY <2>1, <2>3, <2>4, <3>1, QuietStepKeepsBus DEF BusInv, TypeOK, stamps, tracked
  <2>5. ASSUME NEW e \in Envelopes, Stamp(Host, e, "meta") PROVE BusInv'
    <3>1. Host \in Writers /\ "meta" \in Channels
      BY ChannelsAssumption DEF Writers
    <3>2. /\ StampTypes' /\ before' \in [Envelopes -> SUBSET Envelopes]
          /\ FileTypes' /\ Bounded(stream')
          /\ WrittenHasPayload' /\ LineHasPayload' /\ UnderwayIsUnwritten' /\ AcceptedIsKept'
      BY <2>1, <2>5, <3>1, StampKeepsBus DEF tracked
    <3>3. HistoryTypes'
      BY <2>1, <3>2 DEF BusInv, TypeOK, HistoryTypes, tracked
    <3> QED BY <2>3, <3>2, <3>3 DEF BusInv, TypeOK
  <2> QED BY <1>7, <2>4, <2>5 DEF RecoverReport
<1>8. CASE Recovered
  <2>1. /\ UNCHANGED <<files, stamps, waiting, op, condemned, breaks, offered, tracked>>
        /\ host' = [host EXCEPT !.pc = "up"]
    BY <1>8 DEF Recovered
  <2>2. host' \in Hosts
    BY <1>1, <2>1 DEF Hosts
  <2>3. HostTypes'
    BY <1>3, <2>1, <2>2 DEF BusInv, TypeOK, HostTypes
  <2>4. StampTypes' /\ HistoryTypes'
    BY <2>1 DEF BusInv, TypeOK, StampTypes, HistoryTypes, stamps, tracked
  <2> QED BY <2>1, <2>3, <2>4, QuietStepKeepsBus DEF BusInv, TypeOK, stamps, tracked
<1> QED BY <1>4, <1>5, <1>6, <1>7, <1>8 DEF Recovery

LEMMA BusStep == BusInv /\ [Next]_vars => BusInv'
<1> SUFFICES ASSUME BusInv, [Next]_vars PROVE BusInv'
  OBVIOUS
<1>1. CASE UNCHANGED vars
  BY <1>1 DEF vars, files, stamps, tracked, BusInv, TypeOK, FileTypes, StampTypes, HostTypes, HistoryTypes,
       WrittenHasPayload, LineHasPayload, UnderwayIsUnwritten, AcceptedIsKept, Underway, Written, Enqueued, Of, Entries
<1> QED BY <1>1, EnqueueKeeps, ReadsKeep, MarkKeeps, FaultKeeps, QuarantineLateKeeps, RecoveryKeeps DEF Next

-----------------------------------------------------------------------------
(* Marks and the order of delivery                                           *)

\* Envelopes that no pull hands out any more.
Settled == lost \cup Read \cup Failed

\* The envelopes of the lines of a type, the unfinished one included.
Marked(type) == Of(type) \cup (IF tail.type = type THEN {tail.env} ELSE {})
MarkTypes == {"read", "responded", "failed"}

\* A process stamps its envelopes in turn, and what was accepted before lies behind.
StampedInOrder ==
  /\ \A e \in Envelopes : header[e] # Blank =>
        header[e].chan \in Channels /\ header[e].from \in Writers /\ header[e].at <= last[header[e].from]
  /\ \A f \in Envelopes : \A e \in before[f] :
        /\ e \in accepted /\ header[e] # Blank /\ header[f] # Blank
        /\ header[e].from = header[f].from => header[e].at < header[f].at

\* What went with a quarantined stream never comes back.
LostAreGone == lost \cap (Written \cup Underway) = {} /\ \A e \in lost : header[e] # Blank

\* A mark is about an envelope of the same stream; one that failed stays unreadable.
MarksFollow ==
  /\ \A type \in MarkTypes : Marked(type) \subseteq Enqueued
  /\ \A e \in Marked("failed") : payload[e] # "whole"
  /\ \A e \in Marked("responded") : header[e].chan = "worker"

\* Readers and recovery work on envelopes that are in the stream.
WorksOnEnqueued ==
  /\ Reading => op.todo \subseteq Enqueued
  /\ host.missing \subseteq Enqueued /\ \A e \in host.missing : payload[e] # "whole"
  /\ host.pc # "report" => host.missing = {}

SettledBefore(f) == \A e \in before[f] : SameWay(e, f) => e \in Settled
Unfollowed(s) == \A i, j \in DOMAIN s : s[i] \in before[s[j]] /\ SameWay(s[i], s[j]) => i < j

\* What was handed out was handed out once, after all its sender had sent before it.
HandedInOrder ==
  /\ IsInjective(handed) /\ Range(handed) \subseteq lost \cup Read
  /\ \A f \in Range(handed) : SettledBefore(f)
  /\ Unfollowed(handed)

\* So is what a pull is about to hand out; and it has yet to take, or passes over, whatever was
\* accepted on its channel.
TakenInOrder ==
  /\ IsInjective(op.got) /\ Range(op.got) \subseteq Read \ Failed
  /\ Range(op.got) \cap Range(handed) = {} /\ Range(op.got) \cap op.todo = {}
  /\ \A f \in Range(op.got) : SettledBefore(f)
  /\ Unfollowed(op.got)
  /\ \A f \in Range(handed), g \in Range(op.got) : ~(g \in before[f] /\ SameWay(g, f))
  /\ op.got # <<>> => tail = Clean
PullMissesNone ==
  \A f \in op.todo, e \in accepted \cap Enqueued :
     header[e].chan = header[f].chan => e \in op.todo \cup Read \cup Failed
PullInOrder == op.kind = "pull" => TakenInOrder /\ PullMissesNone

OrderInv ==
  /\ StampedInOrder /\ LostAreGone /\ MarksFollow /\ WorksOnEnqueued
  /\ HandedInOrder /\ PullInOrder

-----------------------------------------------------------------------------
(* What a step does to the file                                              *)

\* A line about an envelope that has to be where the line says.
Legit(line) ==
  /\ line.type = "enqueued" => op.kind = "line" /\ line.env \in op.todo
  /\ line.type # "enqueued" => line.env \in Enqueued
  /\ line.type = "failed" => payload[line.env] # "whole"
  /\ line.type = "responded" => header[line.env].chan = "worker"
Writes == \E line \in Lines : Legit(line) /\ (Add(line) \/ Cut(line))

\* The stream is written to, truncated or put aside; the last while no operation is at work.
FileEffect ==
  \/ lost' = lost /\ (UNCHANGED <<stream, tail>> \/ Writes \/ TruncateTail)
  \/ Quarantine /\ Idle /\ op' = op /\ host.missing = {}
PayloadEffect == \A e \in Written : payload'[e] = "whole" => payload[e] = "whole"
StampEffect ==
  \/ UNCHANGED stamps /\ Underway' \subseteq Underway
  \/ /\ \E w \in Writers, e \in Envelopes, c \in Channels : Stamp(w, e, c)
     /\ UNCHANGED <<files, op, tracked>>
Effect ==
  /\ FileEffect /\ PayloadEffect /\ StampEffect
  /\ accepted \subseteq accepted' /\ accepted' \subseteq accepted \cup Enqueued'

\* One more line, and the envelopes of the lines of a type.
LEMMA AppendMark ==
  ASSUME NEW s \in Seq(AnyLine), NEW x \in AnyLine, NEW type
  PROVE  {Append(s, x)[i].env : i \in {j \in DOMAIN Append(s, x) : Append(s, x)[j].type = type}}
           = {s[i].env : i \in {j \in DOMAIN s : s[j].type = type}}
               \cup (IF x.type = type THEN {x.env} ELSE {})
<1> DEFINE t == Append(s, x)
<1>1. /\ DOMAIN t = DOMAIN s \cup {Len(s) + 1} /\ Len(s) + 1 \notin DOMAIN s
      /\ t[Len(s) + 1] = x /\ \A i \in DOMAIN s : t[i] = s[i]
  OBVIOUS
<1> HIDE DEF t
<1>2. {t[i].env : i \in {j \in DOMAIN t : t[j].type = type}}
           = {s[i].env : i \in {j \in DOMAIN s : s[j].type = type}}
               \cup (IF x.type = type THEN {x.env} ELSE {})
  BY <1>1
<1> QED BY <1>2 DEF t

\* A write takes no line away, and brings its own and the unfinished one before it at most.
LEMMA WriteMarks ==
  ASSUME FileTypes, NEW line \in Lines, Add(line) \/ Cut(line),
         NEW type \in MarkTypes \cup {"enqueued"}
  PROVE  /\ Of(type) \subseteq Of(type)'
         /\ Marked(type)' \subseteq Marked(type) \cup (IF line.type = type THEN {line.env} ELSE {})
         /\ Add(line) /\ line.type = type => line.env \in Of(type)'
<1>1. stream \in Seq(AnyLine) /\ tail \in AnyLine \cup {Clean} /\ line \in AnyLine
  BY DEF FileTypes, AnyLine
<1> DEFINE Env(s) == {s[i].env : i \in {j \in DOMAIN s : s[j].type = type}}
           Own(x) == IF x.type = type THEN {x.env} ELSE {}
<1>2. Of(type) = Env(stream) /\ Of(type)' = Env(stream')
  BY DEF Of, Entries
<1>3. \A s \in Seq(AnyLine), x \in AnyLine : Env(Append(s, x)) = Env(s) \cup Own(x)
  BY AppendMark
<1>4. Own(Clean) = {} /\ Own(Torn) = {}
  BY DEF Clean, Torn, Line, MarkTypes
<1>5. Marked(type) = Env(stream) \cup Own(tail) /\ Marked(type)' = Env(stream') \cup Own(tail')
  BY <1>2 DEF Marked
<1> HIDE DEF Env, Own
<1>6. Sealed \in Seq(AnyLine) /\ Env(Sealed) = Env(stream) \cup Own(tail)
  <2>1. CASE tail = Clean
    BY <1>1, <1>4, <2>1 DEF Sealed
  <2>2. CASE tail # Clean
    BY <1>1, <1>3, <2>2 DEF Sealed
  <2> QED BY <2>1, <2>2
<1>7. Add(line) => Env(stream') = Env(stream) \cup Own(tail) \cup Own(line) /\ tail' = Clean
  BY <1>1, <1>3, <1>6 DEF Add
<1>8. \/ Add(line) \/ UNCHANGED <<stream, tail>>
      \/ stream' = Sealed /\ tail' \in {Clean, Torn, line}
  BY DEF Cut
<1>9. Env(stream) \subseteq Env(stream') /\ Env(stream') \cup Own(tail') \subseteq Env(stream) \cup Own(tail) \cup Own(line)
  BY <1>4, <1>6, <1>7, <1>8
<1> QED BY <1>2, <1>5, <1>7, <1>9 DEF Own

\* The file after a step, as far as marks go.
LEMMA FileEffectMarks ==
  ASSUME BusInv, OrderInv, FileEffect
  PROVE  \/ /\ lost' = lost
            /\ \A type \in MarkTypes \cup {"enqueued"} : Of(type) \subseteq Of(type)'
            /\ \A type \in MarkTypes : Marked(type)' \subseteq Enqueued
            /\ Written' \subseteq Written \cup Underway
            /\ \A e \in Marked("failed")' : payload[e] # "whole"
            /\ \A e \in Marked("responded")' : header[e].chan = "worker"
         \/ /\ lost' = lost \cup Enqueued /\ Idle /\ op' = op /\ host.missing = {}
            /\ \A type \in MarkTypes \cup {"enqueued"} : Marked(type)' = {}
<1>1. Written = Marked("enqueued") /\ Written' = Marked("enqueued")' /\ FileTypes
  BY DEF Written, Marked, Enqueued, Brings, BusInv, TypeOK
<1>2. CASE lost' = lost /\ (UNCHANGED <<stream, tail>> \/ TruncateTail)
  <2>1. \A type : Of(type)' = Of(type) /\ Marked(type)' \subseteq Marked(type) \cup {env \in {tail'.env} : tail' = Clean /\ tail'.type = type}
    BY <1>2 DEF TruncateTail, Of, Entries, Marked
  <2>2. \A type \in MarkTypes \cup {"enqueued"} : Clean.type # type
    BY DEF Clean, Line, MarkTypes
  <2>3. \A type \in MarkTypes \cup {"enqueued"} : Marked(type)' \subseteq Marked(type)
    BY <2>1, <2>2
  <2> QED BY <1>1, <1>2, <2>1, <2>3 DEF OrderInv, MarksFollow, MarkTypes
<1>3. CASE lost' = lost /\ Writes
  <2>1. PICK line \in Lines : Legit(line) /\ (Add(line) \/ Cut(line))
    BY <1>3 DEF Writes
  <2>2. \A type \in MarkTypes \cup {"enqueued"} :
           /\ Of(type) \subseteq Of(type)'
           /\ Marked(type)' \subseteq Marked(type) \cup (IF line.type = type THEN {line.env} ELSE {})
    BY <1>1, <2>1, WriteMarks
  <2>3. \A type \in MarkTypes : Marked(type)' \subseteq Enqueued
    BY <2>1, <2>2 DEF Legit, OrderInv, MarksFollow, MarkTypes
  <2>4. Written' \subseteq Written \cup Underway
    BY <1>1, <2>1, <2>2 DEF Legit, Underway
  <2>5. \A e \in Marked("failed")' : payload[e] # "whole"
    BY <2>1, <2>2 DEF Legit, OrderInv, MarksFollow, MarkTypes
  <2>6. \A e \in Marked("responded")' : header[e].chan = "worker"
    BY <2>1, <2>2 DEF Legit, OrderInv, MarksFollow, MarkTypes
  <2> QED BY <1>3, <2>2, <2>3, <2>4, <2>5, <2>6
<1>4. CASE Quarantine /\ Idle /\ op' = op /\ host.missing = {}
  <2>1. \A type \in MarkTypes \cup {"enqueued"} : Marked(type)' = {}
    BY <1>4 DEF Quarantine, Marked, Of, Entries, Clean, Line, MarkTypes
  <2> QED BY <1>4, <2>1 DEF Quarantine
<1> QED BY <1>2, <1>3, <1>4 DEF FileEffect

\* What was stamped keeps its stamp and what came before it.
LEMMA StampsStay ==
  ASSUME BusInv, OrderInv, StampEffect
  PROVE  /\ \A e \in Envelopes : header[e] # Blank => header'[e] = header[e] /\ before'[e] = before[e]
         /\ Underway' \subseteq Underway \cup {e \in Envelopes : header[e] = Blank}
         /\ \A w \in Writers : last[w] <= last'[w]
<1>1. last \in [Writers -> Nat] /\ before \in [Envelopes -> SUBSET Envelopes] /\ header \in [Envelopes -> Headers]
  BY DEF BusInv, TypeOK, StampTypes, HistoryTypes
<1>2. CASE UNCHANGED stamps /\ Underway' \subseteq Underway
  BY <1>1, <1>2 DEF stamps
<1>3. ASSUME NEW w \in Writers, NEW e \in Envelopes, NEW c \in Channels, Stamp(w, e, c), UNCHANGED op
      PROVE  /\ \A f \in Envelopes : header[f] # Blank => header'[f] = header[f] /\ before'[f] = before[f]
             /\ Underway' \subseteq Underway \cup {f \in Envelopes : header[f] = Blank}
             /\ \A v \in Writers : last[v] <= last'[v]
  <2>1. header[e] = Blank /\ before' = [before EXCEPT ![e] = accepted] /\ waiting' = waiting \cup {e}
    BY <1>3 DEF Stamp, NextEnvelope
  <2>2. PICK at \in last[w] + 1 .. MaxTime :
          /\ header' = [header EXCEPT ![e] = [chan |-> c, from |-> w, at |-> at]]
          /\ last' = [last EXCEPT ![w] = at]
    BY <1>3 DEF Stamp
  <2>3. at \in Nat /\ at >= last[w]
    BY <1>1, LimitsAssumption
  <2>4. \A v \in Writers : last[v] <= last'[v]
    BY <1>1, <2>2, <2>3
  <2> QED BY <1>1, <1>3, <2>1, <2>2, <2>4 DEF Underway
<1> QED BY <1>2, <1>3 DEF StampEffect

\* Stamps stay in order.
LEMMA StampedStep ==
  ASSUME BusInv, OrderInv, Effect PROVE StampedInOrder'
<1>1. /\ last \in [Writers -> Nat] /\ before \in [Envelopes -> SUBSET Envelopes]
      /\ header \in [Envelopes -> Headers]
  BY DEF BusInv, TypeOK, StampTypes, HistoryTypes
<1>2. CASE UNCHANGED stamps
  BY <1>2 DEF Effect, OrderInv, StampedInOrder, stamps
<1>3. ASSUME NEW w \in Writers, NEW e \in Envelopes, NEW c \in Channels, Stamp(w, e, c), UNCHANGED tracked
      PROVE  StampedInOrder'
  <2>1. header[e] = Blank /\ before' = [before EXCEPT ![e] = accepted] /\ accepted' = accepted
    BY <1>3 DEF Stamp, NextEnvelope, tracked
  <2>2. PICK at \in last[w] + 1 .. MaxTime :
          /\ header' = [header EXCEPT ![e] = [chan |-> c, from |-> w, at |-> at]]
          /\ last' = [last EXCEPT ![w] = at]
    BY <1>3 DEF Stamp
  <2>3. at \in Nat /\ at > last[w]
    BY <1>1, LimitsAssumption
  <2>4. \A f \in accepted : header[f] # Blank /\ f \in Envelopes
    BY DEF BusInv, AcceptedIsKept, UnderwayIsUnwritten, Written, OrderInv, LostAreGone, TypeOK, HistoryTypes
  <2>5. header'[e] = [chan |-> c, from |-> w, at |-> at] /\ \A f \in Envelopes \ {e} : header'[f] = header[f]
    BY <1>1, <2>2
  <2>6. header'[e] # Blank
    BY <2>5, ChannelsAssumption DEF Blank
  <2>7. \A f \in Envelopes : header[f] # Blank =>
          /\ header[f].chan \in Channels /\ header[f].from \in Writers /\ header[f].at \in Nat
          /\ header[f].at <= last[header[f].from]
    BY <1>1 DEF OrderInv, StampedInOrder, Headers
  <2>8. last'[w] = at /\ \A v \in Writers \ {w} : last'[v] = last[v]
    BY <1>1, <2>2
  <2>9. ASSUME NEW f \in Envelopes, header'[f] # Blank
        PROVE  header'[f].chan \in Channels /\ header'[f].from \in Writers /\ header'[f].at <= last'[header'[f].from]
    <3>1. CASE f = e
      BY <2>3, <2>5, <2>8, <3>1
    <3>2. CASE f # e
      <4>1. header'[f] = header[f] /\ header[f] # Blank
        BY <2>5, <2>9, <3>2
      <4>2. last[header[f].from] <= last'[header[f].from]
        BY <1>1, <2>3, <2>7, <2>8, <4>1
      <4>3. last[header[f].from] \in Nat /\ last'[header[f].from] \in Nat
        BY <1>1, <2>3, <2>7, <2>8, <4>1
      <4> QED BY <2>7, <4>1, <4>2, <4>3
    <3> QED BY <3>1, <3>2
  <2>10. ASSUME NEW f \in Envelopes, NEW g \in before'[f]
         PROVE  /\ g \in accepted' /\ header'[g] # Blank /\ header'[f] # Blank
                /\ header'[g].from = header'[f].from => header'[g].at < header'[f].at
    <3>1. CASE f = e
      <4>1. g \in accepted /\ g # e /\ g \in Envelopes
        BY <1>1, <2>1, <2>4, <3>1
      <4>2. header'[g] = header[g] /\ header[g] # Blank
        BY <2>4, <2>5, <4>1
      <4>3. header[g].from = w => header[g].at < at
        BY <1>1, <2>3, <2>7, <4>1, <4>2
      <4> QED BY <2>1, <2>5, <2>6, <3>1, <4>1, <4>2, <4>3
    <3>2. CASE f # e
      <4>1. g \in before[f] /\ header'[f] = header[f]
        BY <1>1, <2>1, <2>5, <3>2
      <4>2. g \in accepted /\ header[g] # Blank /\ header[f] # Blank
            /\ (header[g].from = header[f].from => header[g].at < header[f].at)
        BY <4>1 DEF OrderInv, StampedInOrder
      <4>3. header'[g] = header[g]
        BY <2>1, <2>4, <2>5, <4>2
      <4> QED BY <2>1, <4>1, <4>2, <4>3
    <3> QED BY <3>1, <3>2
  <2> QED BY <2>9, <2>10 DEF StampedInOrder
<1> QED BY <1>2, <1>3 DEF Effect, StampEffect

\* Every effect keeps what is lost apart, marks about envelopes of the stream, and what is
\* settled settled.
LEMMA EffectKeeps ==
  ASSUME BusInv, OrderInv, Effect
  PROVE  /\ StampedInOrder' /\ LostAreGone' /\ MarksFollow'
         /\ \A e \in Envelopes : header[e] # Blank => header'[e] = header[e] /\ before'[e] = before[e]
         /\ Settled \subseteq Settled' /\ lost \cup Read \subseteq (lost \cup Read)'
         /\ Enqueued \subseteq Enqueued' \/ (Idle /\ op' = op /\ host.missing = {})
         /\ \A e \in Written : payload[e] # "whole" => payload'[e] # "whole"
<1>1. \A e \in Envelopes : header[e] # Blank => header'[e] = header[e] /\ before'[e] = before[e]
  BY StampsStay DEF Effect
<1>2. Underway' \subseteq Underway \cup {e \in Envelopes : header[e] = Blank}
  BY StampsStay DEF Effect
<1>3. \A e \in Written : header[e] # Blank /\ e \in Envelopes
  BY DEF BusInv, UnderwayIsUnwritten, TypeOK, FileTypes, Written, Enqueued, Of, Entries, Brings, Lines, Torn, Clean, Line
<1>4. \A e \in lost : header[e] # Blank /\ e \in Envelopes
  BY DEF OrderInv, LostAreGone, BusInv, TypeOK, HistoryTypes
<1>5. Enqueued \subseteq Written
  BY DEF Written
<1>6. \A e \in Written : payload[e] # "whole" => payload'[e] # "whole"
  BY DEF Effect, PayloadEffect
<1>7. lost \cap (Written \cup Underway) = {} /\ Underway \cap Written = {}
  BY DEF OrderInv, LostAreGone, BusInv, UnderwayIsUnwritten
<1>8. CASE /\ lost' = lost
           /\ \A type \in MarkTypes \cup {"enqueued"} : Of(type) \subseteq Of(type)'
           /\ \A type \in MarkTypes : Marked(type)' \subseteq Enqueued
           /\ Written' \subseteq Written \cup Underway
           /\ \A e \in Marked("failed")' : payload[e] # "whole"
           /\ \A e \in Marked("responded")' : header[e].chan = "worker"
  <2>1. Enqueued \subseteq Enqueued' /\ Read \subseteq Read' /\ Failed \subseteq Failed'
    BY <1>8 DEF Enqueued, Read, Failed, MarkTypes
  <2>2. LostAreGone'
    BY <1>1, <1>2, <1>4, <1>7, <1>8 DEF LostAreGone
  <2>3. MarksFollow'
    <3>1. \A type \in MarkTypes : Marked(type)' \subseteq Enqueued'
      BY <1>8, <2>1
    <3>2. \A e \in Marked("failed")' : payload'[e] # "whole"
      BY <1>5, <1>6, <1>8 DEF MarkTypes
    <3>3. \A e \in Marked("responded")' : header'[e].chan = "worker"
      BY <1>1, <1>3, <1>5, <1>8 DEF MarkTypes
    <3> QED BY <3>1, <3>2, <3>3 DEF MarksFollow
  <2> QED BY <1>1, <1>6, <1>8, <2>1, <2>2, <2>3, StampedStep DEF Settled
<1>9. CASE /\ lost' = lost \cup Enqueued /\ Idle /\ op' = op /\ host.missing = {}
           /\ \A type \in MarkTypes \cup {"enqueued"} : Marked(type)' = {}
  <2>1. \A type \in MarkTypes \cup {"enqueued"} : Of(type)' = {}
    BY <1>9 DEF Marked
  <2>2. Written' = {}
    BY <1>9 DEF Written, Marked, Brings, Enqueued
  <2>3. LostAreGone'
    BY <1>1, <1>2, <1>3, <1>4, <1>5, <1>7, <1>9, <2>2 DEF LostAreGone
  <2>4. MarksFollow'
    BY <1>9 DEF MarksFollow, MarkTypes
  <2>5. Read \subseteq Enqueued /\ Failed \subseteq Enqueued
    BY DEF Read, Failed
  <2> QED BY <1>1, <1>6, <1>9, <2>3, <2>4, <2>5, StampedStep DEF Settled
<1> QED BY <1>8, <1>9, FileEffectMarks DEF Effect

\* What was before a stamped envelope stays before it, on the same way.
LEMMA WayStays ==
  ASSUME BusInv, OrderInv, Effect, NEW f \in Envelopes, header[f] # Blank
  PROVE  /\ before'[f] = before[f]
         /\ \A e \in before[f] : SameWay(e, f)' <=> SameWay(e, f)
         /\ SettledBefore(f) => SettledBefore(f)'
<1>1. \A e \in Envelopes : header[e] # Blank => header'[e] = header[e] /\ before'[e] = before[e]
  BY EffectKeeps
<1>2. \A e \in before[f] : header[e] # Blank /\ e \in Envelopes
  BY DEF OrderInv, StampedInOrder, BusInv, TypeOK, HistoryTypes
<1>3. \A e \in before[f] : SameWay(e, f)' <=> SameWay(e, f)
  BY <1>1, <1>2 DEF SameWay
<1>4. Settled \subseteq Settled'
  BY EffectKeeps
<1>5. SettledBefore(f) => SettledBefore(f)'
  BY <1>1, <1>3, <1>4 DEF SettledBefore
<1> QED BY <1>1, <1>3, <1>5

\* What is lost or in the stream was stamped.
LEMMA KnownIsStamped ==
  ASSUME BusInv, OrderInv
  PROVE  \A e \in lost \cup Written \cup accepted : header[e] # Blank /\ e \in Envelopes
<1>1. \A e \in Written : header[e] # Blank /\ e \in Envelopes
  BY DEF BusInv, UnderwayIsUnwritten, TypeOK, FileTypes, Written, Enqueued, Of, Entries, Brings, Lines, Torn, Clean, Line
<1>2. \A e \in lost : header[e] # Blank /\ e \in Envelopes
  BY DEF OrderInv, LostAreGone, BusInv, TypeOK, HistoryTypes
<1>3. accepted \subseteq Written \cup lost
  BY DEF BusInv, AcceptedIsKept, Written
<1> QED BY <1>1, <1>2, <1>3

LEMMA HandedStays ==
  ASSUME BusInv, OrderInv, Effect, handed' = handed
  PROVE  HandedInOrder'
<1>1. \A f \in Range(handed) : f \in Envelopes /\ header[f] # Blank
  BY KnownIsStamped DEF OrderInv, HandedInOrder, Read, Written
<1>2. \A f \in Range(handed) : SettledBefore(f)'
  BY <1>1, WayStays DEF OrderInv, HandedInOrder
<1>3. Range(handed) \subseteq (lost \cup Read)'
  BY EffectKeeps DEF OrderInv, HandedInOrder
<1>4. Unfollowed(handed)'
  <2>1. \A j \in DOMAIN handed : handed[j] \in Range(handed)
    BY DEF Range
  <2> QED BY <1>1, <2>1, WayStays DEF OrderInv, HandedInOrder, Unfollowed
<1> QED BY <1>2, <1>3, <1>4 DEF OrderInv, HandedInOrder, IsInjective

\* An operation at work, with the files and what was handed out as they were.
LEMMA PullStays ==
  ASSUME BusInv, OrderInv, Effect, op' = op, UNCHANGED <<stream, tail, lost, handed, accepted>>
  PROVE  PullInOrder'
<1> SUFFICES ASSUME op.kind = "pull" PROVE TakenInOrder' /\ PullMissesNone'
  BY DEF PullInOrder
<1>1. TakenInOrder /\ PullMissesNone
  BY DEF OrderInv, PullInOrder
<1>2. Enqueued' = Enqueued /\ Read' = Read /\ Failed' = Failed
  BY DEF Enqueued, Read, Failed, Of, Entries
<1>3. \A f \in Range(handed) \cup Range(op.got) \cup op.todo \cup accepted : f \in Envelopes /\ header[f] # Blank
  <2>1. op.todo \subseteq Written
    BY DEF OrderInv, WorksOnEnqueued, Reading, Written
  <2> QED BY <1>1, <2>1, KnownIsStamped DEF OrderInv, HandedInOrder, TakenInOrder, Read, Written
<1>4. \A f \in Range(op.got) : SettledBefore(f)'
  BY <1>1, <1>3, WayStays DEF TakenInOrder
<1>5. Unfollowed(op.got)'
  <2>1. \A j \in DOMAIN op.got : op.got[j] \in Range(op.got)
    BY DEF Range
  <2> QED BY <1>1, <1>3, <2>1, WayStays DEF TakenInOrder, Unfollowed
<1>6. \A f \in Range(handed), g \in Range(op.got) : ~(g \in before'[f] /\ SameWay(g, f)')
  BY <1>1, <1>3, WayStays DEF TakenInOrder
<1>7. TakenInOrder'
  BY <1>1, <1>2, <1>4, <1>5, <1>6 DEF TakenInOrder
<1>8. PullMissesNone'
  BY <1>1, <1>2, <1>3, EffectKeeps DEF PullMissesNone
<1> QED BY <1>7, <1>8

\* A step in which no reader takes anything: its operation is the one before or none that reads,
\* and recovery has nothing new to do.
LEMMA OthersKeepOrder ==
  ASSUME BusInv, OrderInv, Effect, handed' = handed,
         \/ op' = op /\ UNCHANGED <<stream, tail, lost, accepted>>
         \/ op'.kind \notin {"pull", "peek"},
         \/ UNCHANGED host
         \/ host'.missing \subseteq host.missing /\ host'.pc = "report"
         \/ host'.missing = {}
  PROVE  OrderInv'
<1>1. StampedInOrder' /\ LostAreGone' /\ MarksFollow'
  BY EffectKeeps
<1>2. HandedInOrder'
  BY HandedStays
<1>3. PullInOrder'
  <2>1. CASE op' = op /\ UNCHANGED <<stream, tail, lost, accepted>>
    BY <2>1, PullStays
  <2>2. CASE op'.kind \notin {"pull", "peek"}
    BY <2>2 DEF PullInOrder
  <2> QED BY <2>1, <2>2
<1>4. WorksOnEnqueued'
  <2>1. Reading' => op.todo' \subseteq Enqueued'
    <3>1. CASE op' = op /\ UNCHANGED <<stream, tail, lost, accepted>>
      BY <3>1 DEF OrderInv, WorksOnEnqueued, Reading, Enqueued, Of, Entries
    <3>2. CASE op'.kind \notin {"pull", "peek"}
      BY <3>2 DEF Reading
    <3> QED BY <3>1, <3>2
  <2>2. host.missing \subseteq Enqueued'
    BY EffectKeeps DEF OrderInv, WorksOnEnqueued
  <2>3. \A e \in host.missing : payload'[e] # "whole"
    BY EffectKeeps DEF OrderInv, WorksOnEnqueued, Written
  <2> QED BY <2>1, <2>2, <2>3 DEF OrderInv, WorksOnEnqueued
<1> QED BY <1>1, <1>2, <1>3, <1>4 DEF OrderInv

-----------------------------------------------------------------------------
(* The order, step by step                                                   *)

\* The lines that can be written are about envelopes that are where they say.
LEMMA LinesAreLegit ==
  ASSUME BusInv, OrderInv, NEW e \in Envelopes
  PROVE  /\ \A type \in {"enqueued", "read", "responded", "failed"} :
              LET line == Line(type, e, NextSeq) IN
              line \in Lines /\ line.type = type /\ line.env = e
         /\ op.kind = "line" /\ e \in op.todo => Legit(Line("enqueued", e, NextSeq))
         /\ e \in Enqueued => Legit(Line("read", e, NextSeq))
         /\ e \in Enqueued /\ payload[e] # "whole" => Legit(Line("failed", e, NextSeq))
         /\ e \in Enqueued /\ header[e].chan = "worker" => Legit(Line("responded", e, NextSeq))
<1>1. \A type \in {"enqueued", "read", "responded", "failed"} : Line(type, e, NextSeq) \in Lines
  BY LinesAreRecords DEF BusInv
<1>2. \A type : Line(type, e, NextSeq).type = type /\ Line(type, e, NextSeq).env = e
  BY DEF Line
<1> QED BY <1>1, <1>2 DEF Legit

\* So are those an operation may be writing when it is cut off.
LEMMA UnwrittenIsLegit ==
  ASSUME BusInv, OrderInv, NEW line \in Unwritten
  PROVE  line \in Lines /\ Legit(line)
<1>1. op.todo \subseteq Envelopes
  BY DEF BusInv, TypeOK, HostTypes
<1>2. CASE op.kind = "line"
  <2>1. PICK e \in op.todo : line = Line("enqueued", e, NextSeq)
    BY <1>2 DEF Unwritten, Reading, Marking
  <2> QED BY <1>1, <1>2, <2>1, LinesAreLegit
<1>3. CASE Reading
  <2>1. Unwritten = {Line("read", e, NextSeq) : e \in {f \in FirstOf(op.todo) : Readable(f) /\ Marks(f)}}
                    \cup {Line("failed", e, NextSeq) :
                             e \in {f \in FirstOf(op.todo) : ~Readable(f) /\ header[f].chan = "worker"}}
    BY <1>3 DEF Unwritten, Reading, Marking
  <2>2. PICK e \in FirstOf(op.todo) : \/ line = Line("read", e, NextSeq)
                                      \/ line = Line("failed", e, NextSeq) /\ ~Readable(e)
    BY <2>1
  <2>3. e \in op.todo /\ e \in Enqueued
    BY <1>3 DEF FirstOf, OrderInv, WorksOnEnqueued
  <2> QED BY <1>1, <2>2, <2>3, LinesAreLegit DEF Readable
<1>4. CASE Marking
  <2>1. PICK e \in op.todo : line = Line(op.kind, e, NextSeq) /\ Markable(e)
    BY <1>4 DEF Unwritten, Reading, Marking
  <2> QED BY <1>1, <1>4, <2>1, LinesAreLegit DEF Marking, Markable
<1> QED BY <1>2, <1>3, <1>4 DEF Unwritten

\* A write to the stream with the payloads as they are.
LEMMA WriteHasEffect ==
  ASSUME NEW line \in Lines, Legit(line), Add(line) \/ Cut(line),
         UNCHANGED <<payload, stamps, accepted, lost>>, Underway' \subseteq Underway
  PROVE  Effect
  BY DEF Effect, FileEffect, Writes, PayloadEffect, StampEffect

\* A step that leaves the file alone.
LEMMA QuietEffect ==
  ASSUME UNCHANGED <<stream, tail, stamps, accepted, lost>>, Underway' \subseteq Underway, PayloadEffect
  PROVE  Effect
  BY DEF Effect, FileEffect, StampEffect

\* A stamp beside it all.
LEMMA StampIsEffect ==
  ASSUME NEW w \in Writers, NEW e \in Envelopes, NEW c \in Channels, Stamp(w, e, c),
         UNCHANGED <<files, op, tracked>>
  PROVE  Effect
  BY DEF Effect, FileEffect, PayloadEffect, StampEffect, files, tracked

LEMMA EnqueueInOrder == BusInv /\ OrderInv /\ Enqueue => Effect /\ OrderInv'
<1> SUFFICES ASSUME BusInv, OrderInv, Enqueue PROVE Effect /\ OrderInv'
  OBVIOUS
<1>1. ASSUME NEW w \in Writers, Call(w) PROVE Effect /\ OrderInv'
  <2>1. PICK e \in Envelopes, c \in Channels : Stamp(w, e, c)
    BY <1>1 DEF Call
  <2>2. UNCHANGED <<files, op, condemned, host, breaks, offered, tracked>>
    BY <1>1 DEF Call
  <2>3. Effect
    BY <2>1, <2>2, StampIsEffect
  <2> QED BY <2>2, <2>3, OthersKeepOrder DEF files, tracked
<1>2. CASE GiveUp
  <2>1. UNCHANGED <<files, stamps, op, host, tracked>> /\ waiting' \subseteq waiting
    BY <1>2 DEF GiveUp
  <2>2. Effect
    BY <2>1, QuietEffect DEF Underway, PayloadEffect, files, tracked
  <2> QED BY <2>1, <2>2, OthersKeepOrder DEF files, tracked
<1>3. CASE EnqueueBegin
  <2>1. PICK e \in waiting :
          /\ waiting' = waiting \ {e}
          /\ IF Corrupt THEN UNCHANGED op ELSE op' = Operation("payload", header[e].from, {e})
    BY <1>3 DEF EnqueueBegin
  <2>2. UNCHANGED <<files, stamps, host, tracked>>
    BY <1>3 DEF EnqueueBegin
  <2>3. Underway' \subseteq Underway /\ (op' = op \/ op'.kind = "payload")
    BY <1>3, <2>1 DEF EnqueueBegin, Idle, Free, Operation, Underway
  <2>4. Effect
    BY <2>2, <2>3, QuietEffect DEF PayloadEffect, files, tracked
  <2> QED BY <2>2, <2>3, <2>4, OthersKeepOrder DEF files, tracked
<1>4. CASE EnqueuePayload
  <2>1. /\ op.kind = "payload" /\ op'.kind = "line" /\ op'.todo = op.todo
        /\ payload' = [e \in Envelopes |-> IF e \in op.todo THEN "whole" ELSE payload[e]]
        /\ UNCHANGED <<stream, tail, stamps, waiting, host, tracked>>
    BY <1>4 DEF EnqueuePayload, BusInv, TypeOK, HostTypes
  <2>2. Underway' = Underway
    BY <2>1 DEF Underway
  <2>3. PayloadEffect
    BY <2>1, KnownIsStamped DEF PayloadEffect, BusInv, UnderwayIsUnwritten, Underway
  <2>4. Effect
    BY <2>1, <2>2, <2>3, QuietEffect DEF tracked
  <2> QED BY <2>1, <2>4, OthersKeepOrder DEF tracked
<1>5. CASE EnqueueLine
  <2>1. PICK e \in op.todo : Add(Line("enqueued", e, NextSeq)) /\ accepted' = accepted \cup {e}
    BY <1>5 DEF EnqueueLine
  <2>2. /\ op.kind = "line" /\ op' = Free
        /\ UNCHANGED <<payload, stamps, waiting, host, lost, handed>>
    BY <1>5 DEF EnqueueLine
  <2>3. e \in Envelopes
    BY DEF BusInv, TypeOK, HostTypes
  <2> DEFINE line == Line("enqueued", e, NextSeq)
  <2>4. line \in Lines /\ Legit(line) /\ line.type = "enqueued" /\ line.env = e
    BY <2>2, <2>3, LinesAreLegit
  <2>5. Add(line)
    BY <2>1
  <2> HIDE DEF line
  <2>6. e \in Enqueued'
    BY <2>4, <2>5, WriteMarks DEF Enqueued, BusInv, TypeOK
  <2>7. Underway' \subseteq Underway
    BY <2>2 DEF Underway, Free
  <2>8. Effect
    BY <2>1, <2>2, <2>4, <2>5, <2>6, <2>7 DEF Effect, FileEffect, Writes, PayloadEffect, StampEffect
  <2>9. op'.kind = "free"
    BY <2>2 DEF Free
  <2> QED BY <2>2, <2>8, <2>9, OthersKeepOrder
<1> QED BY <1>1, <1>2, <1>3, <1>4, <1>5 DEF Enqueue

LEMMA MarkInOrder == BusInv /\ OrderInv /\ Mark => Effect /\ OrderInv'
<1> SUFFICES ASSUME BusInv, OrderInv, Mark PROVE Effect /\ OrderInv'
  OBVIOUS
<1>1. CASE MarkReadBatch \/ MarkResponded
  <2>1. /\ UNCHANGED <<files, stamps, waiting, host, tracked>>
        /\ op'.kind \in {"read", "responded"}
    BY <1>1 DEF MarkReadBatch, MarkResponded, Operation
  <2>2. Effect
    BY <2>1, QuietEffect DEF Underway, PayloadEffect, files, tracked
  <2> QED BY <2>1, <2>2, OthersKeepOrder DEF tracked
<1>2. CASE MarkNext
  <2>1. PICK e \in op.todo :
          /\ IF Markable(e) THEN Add(Line(op.kind, e, NextSeq)) ELSE UNCHANGED <<stream, tail>>
          /\ op' = IF op.todo = {e} THEN Free ELSE [op EXCEPT !.todo = @ \ {e}]
    BY <1>2 DEF MarkNext
  <2>2. UNCHANGED <<payload, stamps, waiting, host, tracked>> /\ op.kind \in {"read", "responded"}
    BY <1>2 DEF MarkNext, Marking
  <2>3. e \in Envelopes
    BY DEF BusInv, TypeOK, HostTypes
  <2>4. op'.kind \notin {"payload", "line", "pull", "peek"}
    BY <2>1, <2>2 DEF Free, BusInv, TypeOK, HostTypes
  <2>5. Underway' \subseteq Underway
    BY <2>2, <2>4 DEF Underway
  <2>6. CASE Markable(e)
    <3> DEFINE line == Line(op.kind, e, NextSeq)
    <3>1. line \in Lines /\ Legit(line)
      BY <2>2, <2>3, <2>6, LinesAreLegit DEF Markable
    <3>2. Add(line)
      BY <2>1, <2>6
    <3> HIDE DEF line
    <3>3. Effect
      BY <2>2, <2>5, <3>1, <3>2, WriteHasEffect DEF tracked
    <3> QED BY <2>2, <2>4, <3>3, OthersKeepOrder DEF tracked
  <2>7. CASE ~Markable(e)
    <3>1. Effect
      BY <2>1, <2>2, <2>5, <2>7, QuietEffect DEF PayloadEffect, tracked
    <3> QED BY <2>2, <2>4, <3>1, OthersKeepOrder DEF tracked
  <2> QED BY <2>6, <2>7
<1> QED BY <1>1, <1>2 DEF Mark

\* An operation that is cut off leaves what it wrote, if anything.
LEMMA CutOffHasEffect ==
  ASSUME BusInv, OrderInv, NEW left, CutOff(left), UNCHANGED <<stamps, tracked>>, waiting' \subseteq waiting
  PROVE  Effect /\ op'.kind = "free"
<1>1. op' = Free /\ op'.kind = "free" /\ Underway' \subseteq Underway
  BY DEF CutOff, Free, Underway
<1>2. CASE op.kind = "payload"
  <2>1. PICK p \in left : payload' = [e \in Envelopes |-> IF e \in op.todo THEN p ELSE payload[e]]
    BY <1>2 DEF CutOff
  <2>2. UNCHANGED <<stream, tail>>
    BY <1>2 DEF CutOff
  <2>3. PayloadEffect
    BY <1>2, <2>1, KnownIsStamped DEF PayloadEffect, BusInv, UnderwayIsUnwritten, Underway
  <2> QED BY <1>1, <2>2, <2>3, QuietEffect DEF tracked
<1>3. CASE op.kind # "payload" /\ UNCHANGED <<stream, tail>>
  <2>1. UNCHANGED payload
    BY <1>3 DEF CutOff
  <2> QED BY <1>1, <1>3, <2>1, QuietEffect DEF PayloadEffect, tracked
<1>4. CASE op.kind # "payload" /\ ~UNCHANGED <<stream, tail>>
  <2>1. PICK line \in Unwritten : Cut(line)
    BY <1>4 DEF CutOff
  <2>2. UNCHANGED payload
    BY <1>4 DEF CutOff
  <2> QED BY <1>1, <2>1, <2>2, UnwrittenIsLegit, WriteHasEffect DEF tracked
<1> QED BY <1>2, <1>3, <1>4

LEMMA FaultInOrder == BusInv /\ OrderInv /\ Fault => Effect /\ OrderInv'
<1> SUFFICES ASSUME BusInv, OrderInv, Fault PROVE Effect /\ OrderInv'
  OBVIOUS
<1>1. CASE WriteFails
  <2>1. UNCHANGED <<stamps, waiting, host, tracked>> /\ CutOff({"none", "tmp"})
    BY <1>1 DEF WriteFails
  <2>2. Effect /\ op'.kind = "free"
    BY <2>1, CutOffHasEffect
  <2> QED BY <2>1, <2>2, OthersKeepOrder DEF tracked
<1>2. ASSUME NEW w \in Writers, Dies(w) PROVE Effect /\ OrderInv'
  <2>1. UNCHANGED <<stamps, tracked>> /\ waiting' \subseteq waiting /\ (UNCHANGED host \/ host'.missing = {})
    BY <1>2 DEF Dies, Down
  <2>2. CASE op.by = w
    <3>1. CutOff({"none", "tmp", "whole"})
      BY <1>2, <2>2 DEF Dies
    <3>2. Effect /\ op'.kind = "free"
      BY <2>1, <3>1, CutOffHasEffect
    <3> QED BY <2>1, <3>2, OthersKeepOrder DEF tracked
  <2>3. CASE op.by # w
    <3>1. UNCHANGED <<files, op>>
      BY <1>2, <2>3 DEF Dies
    <3>2. Effect
      BY <2>1, <3>1, QuietEffect DEF Underway, PayloadEffect, files, tracked
    <3> QED BY <2>1, <3>1, <3>2, OthersKeepOrder DEF files, tracked
  <2> QED BY <2>2, <2>3
<1>3. CASE Damage
  <2>1. PICK e \in Envelopes, p \in {"missing", "garbled"} : payload' = [payload EXCEPT ![e] = p]
    BY <1>3 DEF Damage
  <2>2. UNCHANGED <<stream, tail, stamps, waiting, op, host, tracked>>
    BY <1>3 DEF Damage
  <2>3. payload \in [Envelopes -> Payloads]
    BY DEF BusInv, TypeOK, FileTypes
  <2>4. \A f \in Envelopes : payload'[f] = "whole" => payload[f] = "whole"
    BY <2>1, <2>3
  <2>5. Effect
    BY <2>2, <2>4, KnownIsStamped, QuietEffect DEF PayloadEffect, Underway, tracked
  <2> QED BY <2>2, <2>5, OthersKeepOrder DEF tracked
<1> QED BY <1>1, <1>2, <1>3 DEF Fault

LEMMA RecoveryInOrder == BusInv /\ OrderInv /\ (QuarantineLate \/ Recovery) => Effect /\ OrderInv'
<1> SUFFICES ASSUME BusInv, OrderInv, QuarantineLate \/ Recovery PROVE Effect /\ OrderInv'
  OBVIOUS
<1> USE DEF tracked
<1>1. host \in Hosts
  BY DEF Hosts, BusInv, TypeOK, HostTypes
<1>2. Free.kind = "free" /\ \A e \in Enqueued : e \in Envelopes
  BY EnvelopesOnly DEF Free, BusInv
<1>3. CASE QuarantineLate
  <2>1. Quarantine /\ Idle /\ host.missing = {} /\ UNCHANGED <<payload, stamps, waiting, op, host, accepted, handed>>
    BY <1>3 DEF QuarantineLate, HostUp, OrderInv, WorksOnEnqueued
  <2>2. Effect
    BY <2>1 DEF Effect, FileEffect, PayloadEffect, StampEffect, Underway
  <2> QED BY <1>2, <2>1, <2>2, OthersKeepOrder DEF Idle
<1>4. CASE Recover
  <2>1. UNCHANGED <<stamps, waiting, op, tracked, stream>> /\ op = Free
    BY <1>4 DEF Recover, Idle, TruncateTail
  <2>2. PayloadEffect
    BY <1>4, KnownIsStamped DEF Recover, PayloadEffect
  <2>3. Effect
    BY <1>4, <2>1, <2>2 DEF Recover, Effect, FileEffect, StampEffect, Underway
  <2>4. OrderInv' \/ ~Corrupt
    <3>1. CASE Corrupt
      <4>1. host'.missing = host.missing /\ host.missing = {}
        BY <1>1, <1>4, <3>1 DEF Recover, Hosts, OrderInv, WorksOnEnqueued
      <4> QED BY <1>2, <2>1, <2>3, <4>1, OthersKeepOrder
    <3> QED BY <3>1
  <2>5. ASSUME ~Corrupt PROVE OrderInv'
    <3>1. /\ host'.pc = "report"
          /\ host'.missing = {e \in Enqueued \ Failed : payload[e] \notin {"whole", "garbled"}}
          /\ stream' = stream
      BY <1>1, <1>4, <2>1, <2>5 DEF Recover, Hosts
    <3>2. Enqueued' = Enqueued
      BY <3>1 DEF Enqueued, Of, Entries
    <3>3. WorksOnEnqueued'
      BY <1>2, <2>1, <2>2, <3>1, <3>2 DEF WorksOnEnqueued, Reading, PayloadEffect, Written
    <3>4. HandedInOrder' /\ PullInOrder'
      BY <1>2, <2>1, <2>3, HandedStays DEF PullInOrder
    <3> QED BY <2>3, <3>3, <3>4, EffectKeeps DEF OrderInv
  <2> QED BY <2>3, <2>4, <2>5
<1>5. CASE RecoverQuarantine
  <2>1. Quarantine /\ Idle /\ host.missing = {} /\ UNCHANGED <<payload, stamps, waiting, op, accepted, handed>>
    BY <1>5 DEF RecoverQuarantine, OrderInv, WorksOnEnqueued
  <2>2. host'.missing = {}
    BY <1>1, <1>5, <2>1 DEF RecoverQuarantine, Hosts
  <2>3. Effect
    BY <2>1 DEF Effect, FileEffect, PayloadEffect, StampEffect, Underway
  <2> QED BY <1>2, <2>1, <2>2, <2>3, OthersKeepOrder DEF Idle
<1>6. CASE RecoverMissing
  <2>1. UNCHANGED <<payload, stamps, waiting, op, tracked>> /\ op = Free /\ host.pc = "report"
    BY <1>6 DEF RecoverMissing, Idle
  <2>2. PICK e \in host.missing :
          /\ \/ Add(Line("failed", e, NextSeq)) \/ Cut(Line("failed", e, NextSeq))
             \/ UNCHANGED <<stream, tail>>
          /\ \/ host' = [host EXCEPT !.missing = @ \ {e}, !.due = TRUE]
             \/ host' = [host EXCEPT !.missing = @ \ {e}]
    BY <1>6 DEF RecoverMissing
  <2>3. e \in Envelopes /\ e \in Enqueued /\ payload[e] # "whole"
    BY <1>2 DEF OrderInv, WorksOnEnqueued
  <2>4. host'.missing \subseteq host.missing /\ host'.pc = "report"
    BY <1>1, <2>1, <2>2 DEF Hosts
  <2>5. Underway' \subseteq Underway
    BY <2>1 DEF Underway
  <2>6. Effect
    <3>1. CASE UNCHANGED <<stream, tail>>
      BY <2>1, <2>5, <3>1, QuietEffect DEF PayloadEffect
    <3>2. CASE ~UNCHANGED <<stream, tail>>
      <4> DEFINE line == Line("failed", e, NextSeq)
      <4>1. line \in Lines /\ Legit(line)
        BY <2>3, LinesAreLegit
      <4>2. Add(line) \/ Cut(line)
        BY <2>2, <3>2
      <4> HIDE DEF line
      <4> QED BY <2>1, <2>5, <4>1, <4>2, WriteHasEffect
    <3> QED BY <3>1, <3>2
  <2> QED BY <1>2, <2>1, <2>4, <2>6, OthersKeepOrder
<1>7. CASE RecoverReport
  <2>1. UNCHANGED <<files, op, tracked>> /\ host' = [host EXCEPT !.due = FALSE] /\ host.pc = "report"
    BY <1>7 DEF RecoverReport
  <2>2. host'.missing = host.missing /\ host'.pc = "report"
    BY <1>1, <2>1 DEF Hosts
  <2>3. Effect
    <3>1. CASE UNCHANGED <<stamps, waiting>>
      BY <2>1, <3>1, QuietEffect DEF Underway, PayloadEffect, files
    <3>2. ASSUME NEW e \in Envelopes, Stamp(Host, e, "meta") PROVE Effect
      BY <2>1, <3>2, StampIsEffect, ChannelsAssumption DEF Writers
    <3> QED BY <1>7, <3>1, <3>2 DEF RecoverReport
  <2> QED BY <2>1, <2>2, <2>3, OthersKeepOrder DEF files
<1>8. CASE Recovered
  <2>1. UNCHANGED <<files, stamps, waiting, op, tracked>> /\ host.missing = {} /\ host' = [host EXCEPT !.pc = "up"]
    BY <1>8 DEF Recovered
  <2>2. host'.missing = {}
    BY <1>1, <2>1 DEF Hosts
  <2>3. Effect
    BY <2>1, QuietEffect DEF Underway, PayloadEffect, files
  <2> QED BY <2>1, <2>2, <2>3, OthersKeepOrder DEF files
<1> QED BY <1>3, <1>4, <1>5, <1>6, <1>7, <1>8 DEF Recovery

\* One more element, and the range and the injectivity of a sequence.
LEMMA AppendNew ==
  ASSUME NEW s \in Seq(Envelopes), NEW e \in Envelopes
  PROVE  /\ Range(Append(s, e)) = Range(s) \cup {e}
         /\ IsInjective(s) /\ e \notin Range(s) => IsInjective(Append(s, e))
<1> DEFINE t == Append(s, e)
<1>1. /\ DOMAIN t = DOMAIN s \cup {Len(s) + 1} /\ Len(s) + 1 \notin DOMAIN s
      /\ t[Len(s) + 1] = e /\ \A i \in DOMAIN s : t[i] = s[i]
  OBVIOUS
<1> HIDE DEF t
<1>2. Range(t) = Range(s) \cup {e}
  BY <1>1 DEF Range
<1>3. IsInjective(s) /\ e \notin Range(s) => IsInjective(t)
  BY <1>1 DEF IsInjective, Range
<1> QED BY <1>2, <1>3 DEF t

\* A pull begins with everything on its channel that is not passed over.
LEMMA PullBegins ==
  ASSUME BusInv, OrderInv, NEW c \in Channels, NEW all \in BOOLEAN, Pull(c, all)
  PROVE  Effect /\ OrderInv'
<1>1. UNCHANGED <<files, stamps, waiting, host, tracked>> /\ Idle
  BY DEF Pull
<1>2. PICK S \in SUBSET Envelopes : /\ S \subseteq On(c) /\ On(c) \ Read \subseteq S
                                    /\ op' = Operation("pull", Host, S)
  BY EnvelopesOnly DEF Pull, BusInv
<1>3. op'.kind = "pull" /\ op'.todo = S /\ op'.got = <<>>
  BY <1>2 DEF Operation
<1>4. Effect
  BY <1>1, <1>3, QuietEffect DEF Underway, PayloadEffect, files, tracked
<1>5. Enqueued' = Enqueued /\ Read' = Read /\ Failed' = Failed /\ header' = header /\ accepted' = accepted
  BY <1>1 DEF files, stamps, tracked, Enqueued, Read, Failed, Of, Entries
<1>6. TakenInOrder'
  BY <1>3 DEF TakenInOrder, IsInjective, Unfollowed, Range
<1>7. PullMissesNone'
  BY <1>2, <1>3, <1>5 DEF PullMissesNone, On
<1>8. WorksOnEnqueued'
  BY <1>1, <1>2, <1>3, <1>5 DEF OrderInv, WorksOnEnqueued, Reading, On, files
<1> QED BY <1>1, <1>4, <1>6, <1>7, <1>8, HandedStays, EffectKeeps DEF OrderInv, PullInOrder, tracked

LEMMA PeekBegins ==
  ASSUME BusInv, OrderInv, NEW c \in Channels, NEW w \in Writers, Peek(w, c)
  PROVE  Effect /\ OrderInv'
<1>1. UNCHANGED <<files, stamps, waiting, host, tracked>> /\ Idle
  BY DEF Peek
<1>2. op'.kind = "peek" /\ op'.todo \subseteq Enqueued
  BY DEF Peek, Operation, On
<1>3. Effect
  BY <1>1, <1>2, QuietEffect DEF Underway, PayloadEffect, files, tracked
<1>4. Enqueued' = Enqueued
  BY <1>1 DEF files, Enqueued, Of, Entries
<1>5. WorksOnEnqueued'
  BY <1>1, <1>2, <1>4 DEF OrderInv, WorksOnEnqueued, files
<1> QED BY <1>1, <1>2, <1>3, <1>5, HandedStays, EffectKeeps DEF OrderInv, PullInOrder, tracked

\* The next candidate of a pull: what its sender sent on its channel before is settled.
LEMMA FirstIsNext ==
  ASSUME BusInv, OrderInv, op.kind = "pull", NEW e \in FirstOf(op.todo)
  PROVE  SettledBefore(e)
<1>1. e \in op.todo /\ e \in Envelopes /\ \A f \in op.todo : Before(e, f)
  BY DEF FirstOf, BusInv, TypeOK, HostTypes
<1> SUFFICES ASSUME NEW f \in before[e], SameWay(f, e), f \notin Settled
             PROVE  FALSE
  BY DEF SettledBefore
<1>2. f \in accepted /\ header[f].from = header[e].from /\ header[f].chan = header[e].chan
      /\ header[f].at < header[e].at
  BY <1>1 DEF SameWay, OrderInv, StampedInOrder
<1>3. f \in Enqueued
  BY <1>2 DEF BusInv, AcceptedIsKept, Settled
<1>4. f \in op.todo
  BY <1>1, <1>2, <1>3 DEF OrderInv, PullInOrder, PullMissesNone, Settled
<1>5. header[e].at <= header[f].at
  <2>1. Before(e, f)
    BY <1>1, <1>4
  <2>2. header[e].at \in Nat /\ header[f].at \in Nat
    BY <1>1, <1>4 DEF BusInv, TypeOK, StampTypes, HostTypes, Headers
  <2> QED BY <2>1, <2>2 DEF Before
<1>6. header[e].at \in Nat /\ header[f].at \in Nat
  BY <1>1, <1>4 DEF BusInv, TypeOK, StampTypes, HostTypes, Headers
<1> QED BY <1>2, <1>5, <1>6

\* With the tail clean a line adds its own mark to the stream and no other.
LEMMA CleanWrite ==
  ASSUME BusInv, NEW line \in Lines, Add(line), tail = Clean, line.type \in MarkTypes
  PROVE  /\ Failed' \cap Enqueued \subseteq Failed \cup (IF line.type = "failed" THEN {line.env} ELSE {})
         /\ tail' = Clean
<1>1. Marked("failed") = Of("failed")
  BY DEF Marked, Clean, Line
<1>2. Marked("failed")' \subseteq Marked("failed") \cup (IF line.type = "failed" THEN {line.env} ELSE {})
  BY WriteMarks DEF BusInv, TypeOK, MarkTypes
<1> QED BY <1>1, <1>2 DEF Marked, Failed, Add

\* A pull takes its next candidate.
LEMMA PullTakes ==
  ASSUME BusInv, OrderInv, op.kind = "pull", NEW e \in FirstOf(op.todo), Readable(e), e \notin Read,
         Add(Line("read", e, NextSeq)), Effect,
         UNCHANGED <<payload, stamps, tracked>>,
         op'.kind = "pull", op'.todo = op.todo \ {e}, op'.got = Append(op.got, e)
  PROVE  PullInOrder'
<1> DEFINE line == Line("read", e, NextSeq)
<1>1. e \in op.todo /\ e \in Envelopes /\ e \in Enqueued /\ e \in Written
  BY DEF FirstOf, BusInv, TypeOK, HostTypes, OrderInv, WorksOnEnqueued, Reading, Written
<1>2. line \in Lines /\ line.type = "read" /\ line.env = e /\ Add(line)
  BY <1>1, LinesAreLegit
<1> HIDE DEF line
<1>3. TakenInOrder /\ PullMissesNone
  BY DEF OrderInv, PullInOrder
<1>4. op.got \in Seq(Envelopes)
  BY DEF BusInv, TypeOK, HostTypes
<1>5. e \notin Settled
  <2>1. e \notin lost
    BY <1>1 DEF OrderInv, LostAreGone
  <2>2. e \notin Failed
    BY DEF Readable, OrderInv, MarksFollow, Marked, Failed
  <2> QED BY <2>1, <2>2 DEF Settled
<1>6. e \notin Range(op.got) /\ e \notin Range(handed)
  BY <1>1, <1>3, <1>5 DEF TakenInOrder, OrderInv, HandedInOrder, Settled
<1>7. Enqueued \subseteq Enqueued' /\ Of("read") \subseteq Of("read")' /\ e \in Of("read")' /\ Failed \subseteq Failed'
  BY <1>2, WriteMarks DEF Enqueued, Failed, BusInv, TypeOK, MarkTypes
<1>8. e \in Read' /\ Read \subseteq Read'
  BY <1>1, <1>7 DEF Read
<1>9. e \notin Failed'
  BY EffectKeeps DEF MarksFollow, Marked, Failed, Readable
<1>10. /\ Range(op'.got) = Range(op.got) \cup {e} /\ IsInjective(op'.got)
  BY <1>1, <1>3, <1>4, <1>6, AppendNew DEF TakenInOrder
<1>11. Range(op.got) \subseteq Read' \ Failed'
  <2>1. CASE op.got = <<>>
    BY <2>1 DEF Range
  <2>2. CASE op.got # <<>>
    <3>1. Failed' \cap Enqueued \subseteq Failed
      BY <1>2, <1>3, <2>2, CleanWrite DEF TakenInOrder, MarkTypes
    <3> QED BY <1>3, <1>8, <3>1 DEF TakenInOrder, Read
  <2> QED BY <2>1, <2>2
<1>12. header' = header /\ before' = before /\ handed' = handed /\ accepted' = accepted
  BY DEF stamps, tracked
<1>13. \A f \in Range(op.got) \cup {e} : SettledBefore(f)
  BY <1>3, FirstIsNext DEF TakenInOrder
<1>14. \A f \in Range(op.got) \cup {e} : SettledBefore(f)'
  BY <1>12, <1>13, EffectKeeps DEF SettledBefore, SameWay
<1>15. \A f \in Range(op.got) \cup Range(handed) \cup {e} : ~(e \in before[f] /\ SameWay(e, f))
  BY <1>5, <1>13 DEF SettledBefore, OrderInv, HandedInOrder
<1>16. Unfollowed(op.got)'
  <2>0. PICK t : t = op'.got
    OBVIOUS
  <2>1. /\ DOMAIN t = DOMAIN op.got \cup {Len(op.got) + 1} /\ t[Len(op.got) + 1] = e
        /\ \A i \in DOMAIN op.got : t[i] = op.got[i] /\ i \in Nat /\ i < Len(op.got) + 1
    BY <1>4, <2>0
  <2>2. \A i \in DOMAIN op.got : op.got[i] \in Range(op.got)
    BY DEF Range
  <2>3. \A i, j \in DOMAIN t : t[i] \in before[t[j]] /\ SameWay(t[i], t[j]) => i < j
    <3> SUFFICES ASSUME NEW i \in DOMAIN t, NEW j \in DOMAIN t, t[i] \in before[t[j]], SameWay(t[i], t[j])
                 PROVE  i < j
      OBVIOUS
    <3>1. i # Len(op.got) + 1
      BY <1>15, <2>1, <2>2
    <3>2. CASE j = Len(op.got) + 1
      BY <2>1, <3>1, <3>2
    <3>3. CASE j # Len(op.got) + 1
      BY <1>3, <2>1, <3>1, <3>3 DEF TakenInOrder, Unfollowed
    <3> QED BY <3>2, <3>3
  <2>4. \A i, j \in DOMAIN t : t[i] \in before'[t[j]] /\ SameWay(t[i], t[j])' => i < j
    BY <1>12, <2>3 DEF SameWay
  <2> QED BY <2>0, <2>4 DEF Unfollowed
<1>17. TakenInOrder'
  <2>1. Range(op'.got) \subseteq Read' \ Failed'
    BY <1>8, <1>9, <1>10, <1>11
  <2>2. Range(op'.got) \cap Range(handed') = {} /\ Range(op'.got) \cap op'.todo = {}
    BY <1>3, <1>6, <1>10, <1>12 DEF TakenInOrder
  <2>3. \A f \in Range(op'.got) : SettledBefore(f)'
    BY <1>10, <1>14
  <2>4. \A f \in Range(handed'), g \in Range(op'.got) : ~(g \in before'[f] /\ SameWay(g, f)')
    BY <1>3, <1>10, <1>12, <1>15 DEF TakenInOrder, SameWay
  <2>5. tail' = Clean
    BY DEF Add
  <2> QED BY <1>10, <1>16, <2>1, <2>2, <2>3, <2>4, <2>5 DEF TakenInOrder
<1>18. PullMissesNone'
  <2>1. \A f \in accepted \cap Enqueued' : f \in Enqueued
    BY EffectKeeps DEF BusInv, AcceptedIsKept, LostAreGone, tracked, Written
  <2> QED BY <1>3, <1>7, <1>8, <1>12, <2>1 DEF PullMissesNone
<1> QED BY <1>17, <1>18 DEF PullInOrder

\* A pull passes over its next candidate, which was read before or has failed by now.
LEMMA PullPasses ==
  ASSUME BusInv, OrderInv, op.kind = "pull", NEW e \in op.todo, Effect,
         \/ UNCHANGED <<stream, tail>> /\ e \in Read
         \/ Add(Line("failed", e, NextSeq)),
         UNCHANGED <<payload, stamps, tracked>>,
         op'.kind = "pull", op'.todo = op.todo \ {e}, op'.got = op.got
  PROVE  PullInOrder'
<1> DEFINE line == Line("failed", e, NextSeq)
<1>1. e \in Envelopes /\ e \in Enqueued
  BY DEF BusInv, TypeOK, HostTypes, OrderInv, WorksOnEnqueued, Reading
<1>2. line \in Lines /\ line.type = "failed" /\ line.env = e
  BY <1>1, LinesAreLegit
<1>3. (UNCHANGED <<stream, tail>> /\ e \in Read) \/ Add(line)
  OBVIOUS
<1> HIDE DEF line
<1>4. TakenInOrder /\ PullMissesNone
  BY DEF OrderInv, PullInOrder
<1>5. header' = header /\ before' = before /\ handed' = handed /\ accepted' = accepted
  BY DEF stamps, tracked
<1>6. Enqueued \subseteq Enqueued' /\ Read \subseteq Read' /\ Failed \subseteq Failed' /\ e \in Read' \cup Failed'
  <2>1. CASE UNCHANGED <<stream, tail>> /\ e \in Read
    BY <2>1 DEF Enqueued, Read, Failed, Of, Entries
  <2>2. CASE Add(line)
    <3>1. \A type \in MarkTypes \cup {"enqueued"} : Of(type) \subseteq Of(type)'
      BY <1>2, <2>2, WriteMarks DEF BusInv, TypeOK
    <3>2. e \in Of("failed")'
      BY <1>2, <2>2, WriteMarks DEF BusInv, TypeOK, MarkTypes
    <3> QED BY <1>1, <3>1, <3>2 DEF Enqueued, Read, Failed, MarkTypes
  <2> QED BY <1>3, <2>1, <2>2
<1>7. Range(op.got) \subseteq Read' \ Failed' /\ (op.got # <<>> => tail' = Clean)
  <2>1. CASE op.got = <<>>
    BY <2>1 DEF Range
  <2>2. CASE op.got # <<>> /\ UNCHANGED <<stream, tail>>
    BY <1>4, <2>2 DEF TakenInOrder, Enqueued, Read, Failed, Of, Entries
  <2>3. CASE op.got # <<>> /\ Add(line)
    <3>1. Failed' \cap Enqueued \subseteq Failed \cup {e} /\ tail' = Clean
      BY <1>2, <1>4, <2>3, CleanWrite DEF TakenInOrder, MarkTypes
    <3>2. e \notin Range(op.got)
      BY <1>4 DEF TakenInOrder
    <3> QED BY <1>4, <1>6, <3>1, <3>2 DEF TakenInOrder, Read
  <2> QED BY <1>3, <2>1, <2>2, <2>3
<1>8. \A f \in Range(op.got) : SettledBefore(f)'
  BY <1>4, <1>5, EffectKeeps DEF TakenInOrder, SettledBefore, SameWay
<1>9. Unfollowed(op.got)'
  BY <1>4, <1>5 DEF TakenInOrder, Unfollowed, SameWay
<1>10. TakenInOrder'
  BY <1>4, <1>5, <1>7, <1>8, <1>9 DEF TakenInOrder, SameWay
<1>11. PullMissesNone'
  <2>1. \A f \in accepted \cap Enqueued' : f \in Enqueued
    BY EffectKeeps DEF BusInv, AcceptedIsKept, LostAreGone, tracked, Written
  <2> QED BY <1>4, <1>5, <1>6, <2>1 DEF PullMissesNone
<1> QED BY <1>10, <1>11 DEF PullInOrder

LEMMA ReadNextInOrder == BusInv /\ OrderInv /\ ReadNext => Effect /\ OrderInv'
<1> SUFFICES ASSUME BusInv, OrderInv, ReadNext PROVE Effect /\ OrderInv'
  OBVIOUS
<1>1. PICK e \in FirstOf(op.todo) :
        LET rest == [op EXCEPT !.todo = @ \ {e}] IN
        \/ /\ Readable(e) /\ Marks(e)
           /\ Add(Line("read", e, NextSeq)) /\ op' = [rest EXCEPT !.got = Append(@, e)]
        \/ /\ Readable(e) /\ ~Marks(e)
           /\ op' = IF e \in Read THEN rest ELSE [rest EXCEPT !.got = Append(@, e)]
           /\ UNCHANGED <<stream, tail>>
        \/ /\ ~Readable(e) /\ header[e].chan = "worker"
           /\ Add(Line("failed", e, NextSeq)) /\ op' = rest
        \/ /\ ~Readable(e) /\ header[e].chan # "worker"
           /\ op' = Free /\ UNCHANGED <<stream, tail>>
  BY DEF ReadNext
<1>2. UNCHANGED <<payload, stamps, waiting, host, tracked>> /\ Reading
  BY DEF ReadNext
<1>3. e \in op.todo /\ e \in Envelopes /\ e \in Enqueued /\ op.todo \subseteq Enqueued
  BY <1>2 DEF FirstOf, BusInv, TypeOK, HostTypes, OrderInv, WorksOnEnqueued
<1> DEFINE rest == [op EXCEPT !.todo = @ \ {e}]
           more == [rest EXCEPT !.got = Append(@, e)]
<1>4. /\ rest.kind = op.kind /\ rest.todo = op.todo \ {e} /\ rest.got = op.got
      /\ more.kind = op.kind /\ more.todo = op.todo \ {e} /\ more.got = Append(op.got, e)
  BY DEF BusInv, TypeOK, HostTypes
<1>5. op' \in {rest, more, Free}
  BY <1>1
<1> HIDE DEF rest, more
<1>6. Underway' \subseteq Underway
  BY <1>2, <1>4, <1>5 DEF Underway, Reading, Free
<1>7. Effect
  <2>1. CASE UNCHANGED <<stream, tail>>
    BY <1>2, <1>6, <2>1, QuietEffect DEF PayloadEffect, tracked
  <2>2. CASE Add(Line("read", e, NextSeq)) \/ (Add(Line("failed", e, NextSeq)) /\ ~Readable(e))
    <3>1. PICK type \in {"read", "failed"} : /\ Add(Line(type, e, NextSeq))
                                             /\ type = "failed" => ~Readable(e)
      BY <2>2
    <3> DEFINE line == Line(type, e, NextSeq)
    <3>2. line \in Lines /\ Legit(line)
      BY <1>3, <3>1, LinesAreLegit DEF Readable
    <3>3. Add(line)
      BY <3>1
    <3> HIDE DEF line
    <3> QED BY <1>2, <1>6, <3>2, <3>3, WriteHasEffect DEF tracked
  <2> QED BY <1>1, <2>1, <2>2
<1>8. CASE op'.kind \notin {"pull", "peek"}
  BY <1>2, <1>7, <1>8, OthersKeepOrder DEF tracked
<1>9. CASE op'.kind \in {"pull", "peek"}
  <2>1. op' \in {rest, more} /\ op'.kind = op.kind /\ op'.todo = op.todo \ {e}
    BY <1>4, <1>5, <1>9 DEF Free
  <2>2. Enqueued \subseteq Enqueued'
    <3>1. ~Idle
      BY <1>2 DEF Idle, Reading, Free
    <3> QED BY <1>7, <3>1, EffectKeeps
  <2>3. WorksOnEnqueued'
    BY <1>2, <1>3, <2>1, <2>2 DEF OrderInv, WorksOnEnqueued
  <2>4. PullInOrder'
    <3>1. CASE op.kind = "pull"
      <4>1. Free.kind = "free"
        BY DEF Free
      <4>2. CASE Readable(e) /\ Marks(e)
        <5>1. op' = more /\ Add(Line("read", e, NextSeq)) /\ e \notin Read
          BY <1>1, <4>2 DEF more, rest, Marks
        <5> QED BY <1>2, <1>4, <1>7, <2>1, <3>1, <4>2, <5>1, PullTakes
      <4>3. CASE Readable(e) /\ ~Marks(e)
        <5>1. op' = rest /\ UNCHANGED <<stream, tail>> /\ e \in Read
          BY <1>1, <3>1, <4>3 DEF rest, Marks
        <5> QED BY <1>2, <1>3, <1>4, <1>7, <2>1, <3>1, <5>1, PullPasses
      <4>4. CASE ~Readable(e)
        <5>1. op' = rest /\ Add(Line("failed", e, NextSeq))
          BY <1>1, <1>9, <4>1, <4>4 DEF rest
        <5> QED BY <1>2, <1>3, <1>4, <1>7, <2>1, <3>1, <5>1, PullPasses
      <4> QED BY <4>2, <4>3, <4>4
    <3>2. CASE op.kind # "pull"
      BY <2>1, <3>2 DEF PullInOrder
    <3> QED BY <3>1, <3>2
  <2> QED BY <1>2, <1>7, <2>3, <2>4, EffectKeeps, HandedStays DEF OrderInv, tracked
<1> QED BY <1>8, <1>9

\* Two sequences put together.
LEMMA JoinedInOrder ==
  ASSUME NEW s \in Seq(Envelopes), NEW t \in Seq(Envelopes),
         IsInjective(s), IsInjective(t), Range(s) \cap Range(t) = {}
  PROVE  /\ IsInjective(s \o t) /\ Range(s \o t) = Range(s) \cup Range(t)
         /\ \A i \in DOMAIN (s \o t) : \/ i \in DOMAIN s /\ (s \o t)[i] = s[i]
                                       \/ i - Len(s) \in DOMAIN t /\ (s \o t)[i] = t[i - Len(s)]
<1> DEFINE u == s \o t
<1>1. Len(s) \in Nat /\ Len(t) \in Nat /\ DOMAIN s = 1 .. Len(s) /\ DOMAIN t = 1 .. Len(t)
  OBVIOUS
<1>2. DOMAIN u = 1 .. Len(s) + Len(t) /\ \A i \in DOMAIN u : u[i] = IF i <= Len(s) THEN s[i] ELSE t[i - Len(s)]
  OBVIOUS
<1> HIDE DEF u
<1>3. \A i \in DOMAIN u : \/ i \in DOMAIN s /\ u[i] = s[i]
                          \/ i - Len(s) \in DOMAIN t /\ u[i] = t[i - Len(s)]
  BY <1>1, <1>2
<1>4. \A i \in DOMAIN s : i \in DOMAIN u /\ u[i] = s[i]
  BY <1>1, <1>2
<1>5. \A i \in DOMAIN t : i + Len(s) \in DOMAIN u /\ u[i + Len(s)] = t[i]
  <2> SUFFICES ASSUME NEW i \in DOMAIN t PROVE i + Len(s) \in DOMAIN u /\ u[i + Len(s)] = t[i]
    OBVIOUS
  <2>1. i \in Nat /\ i > 0 /\ i <= Len(t)
    BY <1>1
  <2>2. i + Len(s) \in 1 .. Len(s) + Len(t) /\ ~(i + Len(s) <= Len(s)) /\ (i + Len(s)) - Len(s) = i
    BY <1>1, <2>1
  <2> QED BY <1>2, <2>2
<1>6. Range(u) = Range(s) \cup Range(t)
  <2>1. Range(u) \subseteq Range(s) \cup Range(t)
    BY <1>3 DEF Range
  <2>2. Range(s) \subseteq Range(u)
    BY <1>4 DEF Range
  <2>3. Range(t) \subseteq Range(u)
    BY <1>5 DEF Range
  <2> QED BY <2>1, <2>2, <2>3
<1>7. IsInjective(u)
  <2> SUFFICES ASSUME NEW i \in DOMAIN u, NEW j \in DOMAIN u, u[i] = u[j] PROVE i = j
    BY DEF IsInjective
  <2>1. i \in Int /\ j \in Int
    BY <1>1, <1>2
  <2>2. \A k \in DOMAIN s, l \in DOMAIN t : s[k] # t[l]
    BY DEF Range
  <2>3. CASE i \in DOMAIN s /\ u[i] = s[i]
    <3>1. j \in DOMAIN s /\ u[j] = s[j]
      BY <1>3, <2>2, <2>3
    <3> QED BY <2>3, <3>1 DEF IsInjective
  <2>4. CASE i - Len(s) \in DOMAIN t /\ u[i] = t[i - Len(s)]
    <3>1. j - Len(s) \in DOMAIN t /\ u[j] = t[j - Len(s)]
      BY <1>3, <2>2, <2>4
    <3>2. i - Len(s) = j - Len(s)
      BY <2>4, <3>1 DEF IsInjective
    <3> QED BY <1>1, <2>1, <3>2
  <2> QED BY <1>3, <2>3, <2>4
<1> QED BY <1>3, <1>6, <1>7 DEF u

\* A pull hands out what it has taken.
LEMMA ReturnInOrder == BusInv /\ OrderInv /\ Return => Effect /\ OrderInv'
<1> SUFFICES ASSUME BusInv, OrderInv, Return PROVE Effect /\ OrderInv'
  OBVIOUS
<1>1. UNCHANGED <<files, stamps, waiting, host, accepted, lost>> /\ op' = Free
  BY DEF Return
<1>2. op'.kind = "free"
  BY <1>1 DEF Free
<1>3. Effect
  BY <1>1, <1>2, QuietEffect DEF Underway, PayloadEffect, files
<1>4. CASE handed' = handed
  BY <1>1, <1>2, <1>3, <1>4, OthersKeepOrder
<1>5. CASE op.kind = "pull" /\ handed' = handed \o op.got
  <2>1. TakenInOrder
    BY <1>5 DEF OrderInv, PullInOrder
  <2>2. handed \in Seq(Envelopes) /\ op.got \in Seq(Envelopes)
    BY DEF BusInv, TypeOK, HostTypes, HistoryTypes
  <2>0. PICK u : u = handed \o op.got
    OBVIOUS
  <2>3. /\ IsInjective(u) /\ Range(u) = Range(handed) \cup Range(op.got)
        /\ \A i \in DOMAIN u : \/ i \in DOMAIN handed /\ u[i] = handed[i]
                               \/ i - Len(handed) \in DOMAIN op.got /\ u[i] = op.got[i - Len(handed)]
    BY <2>0, <2>1, <2>2, JoinedInOrder DEF TakenInOrder, OrderInv, HandedInOrder
  <2>4. DOMAIN u \subseteq Int /\ Len(handed) \in Nat /\ DOMAIN handed = 1 .. Len(handed) /\ DOMAIN op.got \subseteq Nat \ {0}
    BY <2>0, <2>2
  <2>5. Enqueued' = Enqueued /\ Read' = Read /\ Failed' = Failed /\ header' = header /\ before' = before /\ lost' = lost
    BY <1>1 DEF files, stamps, Enqueued, Read, Failed, Of, Entries
  <2>6. handed' = u
    BY <1>5, <2>0
  <2>7. \A f \in Range(u) : SettledBefore(f)
    BY <2>1, <2>3 DEF TakenInOrder, OrderInv, HandedInOrder
  <2>8. Unfollowed(u)
    <3> SUFFICES ASSUME NEW i \in DOMAIN u, NEW j \in DOMAIN u, u[i] \in before[u[j]], SameWay(u[i], u[j])
                 PROVE  i < j
      BY DEF Unfollowed
    <3>1. /\ \A k \in DOMAIN handed : handed[k] \in Range(handed)
          /\ \A k \in DOMAIN op.got : op.got[k] \in Range(op.got)
      BY DEF Range
    <3>2. CASE i \in DOMAIN handed /\ u[i] = handed[i]
      <4>1. CASE j \in DOMAIN handed /\ u[j] = handed[j]
        BY <3>2, <4>1 DEF OrderInv, HandedInOrder, Unfollowed
      <4>2. CASE j - Len(handed) \in DOMAIN op.got /\ u[j] = op.got[j - Len(handed)]
        BY <2>4, <3>2, <4>2
      <4> QED BY <2>3, <4>1, <4>2
    <3>3. CASE i - Len(handed) \in DOMAIN op.got /\ u[i] = op.got[i - Len(handed)]
      <4>1. CASE j \in DOMAIN handed /\ u[j] = handed[j]
        BY <2>1, <3>1, <3>3, <4>1 DEF TakenInOrder
      <4>2. CASE j - Len(handed) \in DOMAIN op.got /\ u[j] = op.got[j - Len(handed)]
        <5>1. i - Len(handed) < j - Len(handed)
          BY <2>1, <3>3, <4>2 DEF TakenInOrder, Unfollowed
        <5> QED BY <2>4, <5>1
      <4> QED BY <2>3, <4>1, <4>2
    <3> QED BY <2>3, <3>2, <3>3
  <2>9. HandedInOrder'
    <3>1. Range(u) \subseteq lost \cup Read
      BY <2>1, <2>3 DEF TakenInOrder, OrderInv, HandedInOrder
    <3>2. \A f : SettledBefore(f)' <=> SettledBefore(f)
      BY <2>5 DEF SettledBefore, SameWay, Settled
    <3>3. Unfollowed(u)'
      BY <2>5, <2>8 DEF Unfollowed, SameWay
    <3> QED BY <2>3, <2>5, <2>6, <2>7, <3>1, <3>2, <3>3 DEF HandedInOrder, Unfollowed, SameWay
  <2>10. WorksOnEnqueued' /\ PullInOrder'
    BY <1>1, <1>2, <2>5 DEF OrderInv, WorksOnEnqueued, Reading, PullInOrder, files
  <2> QED BY <1>3, <2>9, <2>10, EffectKeeps DEF OrderInv
<1> QED BY <1>4, <1>5 DEF Return

LEMMA InitialOrderInv == Init => OrderInv
<1> SUFFICES ASSUME Init PROVE OrderInv
  OBVIOUS
<1> USE DEF Init
<1>1. \A type \in MarkTypes \cup {"enqueued"} : Marked(type) = {} /\ Of(type) = {}
  BY DEF Marked, Of, Entries, Clean, Line, MarkTypes
<1>2. Enqueued = {} /\ Written = {}
  BY <1>1 DEF Enqueued, Written, Brings, Clean, Line
<1>3. StampedInOrder
  BY DEF StampedInOrder
<1>4. LostAreGone /\ MarksFollow
  BY <1>1, <1>2 DEF LostAreGone, MarksFollow, MarkTypes
<1>5. WorksOnEnqueued /\ PullInOrder
  BY <1>2 DEF WorksOnEnqueued, PullInOrder, Reading, Free, Down
<1>6. HandedInOrder
  BY DEF HandedInOrder, IsInjective, Range, Unfollowed
<1> QED BY <1>3, <1>4, <1>5, <1>6 DEF OrderInv

\* Every step keeps the order, and is one of the effects unless it changes nothing.
LEMMA OrderStep ==
  ASSUME BusInv, OrderInv, [Next]_vars
  PROVE  OrderInv' /\ (Effect \/ UNCHANGED vars)
<1>1. CASE UNCHANGED vars
  <2>1. UNCHANGED <<files, stamps, waiting, op, host, tracked>>
    BY <1>1 DEF vars
  <2>2. Effect
    BY <2>1, QuietEffect DEF Underway, PayloadEffect, files, tracked
  <2> QED BY <2>1, <2>2, OthersKeepOrder DEF files, tracked
<1>2. CASE Reads
  <2>1. CASE \E c \in Channels : (\E w \in Writers : Peek(w, c)) \/ \E all \in BOOLEAN : Pull(c, all)
    BY <2>1, PullBegins, PeekBegins
  <2>2. CASE PullCorrupt
    <3>1. UNCHANGED <<files, stamps, waiting, op, host, tracked>>
      BY <2>2 DEF PullCorrupt
    <3>2. Effect
      BY <3>1, QuietEffect DEF Underway, PayloadEffect, files, tracked
    <3> QED BY <3>1, <3>2, OthersKeepOrder DEF files, tracked
  <2> QED BY <1>2, <2>1, <2>2, ReadNextInOrder, ReturnInOrder DEF Reads
<1> QED BY <1>1, <1>2, EnqueueInOrder, MarkInOrder, FaultInOrder, RecoveryInOrder DEF Next

-----------------------------------------------------------------------------
(* The inbox                                                                 *)

\* A stamp addresses an envelope.
LEMMA StampAddresses ==
  ASSUME BusInv, NEW w \in Writers, NEW e \in Envelopes, NEW c \in Channels, Stamp(w, e, c),
         UNCHANGED <<files, tracked>>
  PROVE  Promise!Address
<1>1. header \in [Envelopes -> Headers]
  BY DEF BusInv, TypeOK, StampTypes
<1>2. header[e] = Blank
  BY DEF Stamp, NextEnvelope
<1>3. PICK at : header' = [header EXCEPT ![e] = [chan |-> c, from |-> w, at |-> at]]
  BY DEF Stamp
<1>4. header[e].chan = "none"
  BY <1>2 DEF Blank
<1>5. [f \in Envelopes |-> header'[f].chan] = [[f \in Envelopes |-> header[f].chan] EXCEPT ![e] = c]
  BY <1>1, <1>3
<1>6. Enqueued' = Enqueued /\ Read' = Read /\ Failed' = Failed /\ Responded' = Responded
      /\ lost' = lost /\ handed' = handed
  BY DEF files, tracked, Enqueued, Read, Failed, Responded, Of, Entries
<1>7. [f \in Envelopes |-> StatusOf(f)]' = [f \in Envelopes |-> StatusOf(f)]
  BY <1>6 DEF StatusOf
<1> QED BY <1>4, <1>5, <1>6, <1>7 DEF Promise!Address

\* What an effect does to the status of an envelope is a documented move.
LEMMA StatusMoves ==
  ASSUME BusInv, OrderInv, FileEffect, NEW e \in Envelopes
  PROVE  /\ StatusOf(e)' # StatusOf(e) => <<StatusOf(e), StatusOf(e)'>> \in Promise!Edges
         /\ e \in Responded' \ Responded => header[e].chan = "worker" /\ StatusOf(e) # "absent"
         /\ e \in Responded \ Responded' => StatusOf(e)' = "lost"
<1>1. Read \subseteq Enqueued /\ Failed \subseteq Enqueued /\ Responded \subseteq Enqueued
  BY DEF Read, Failed, Responded
<1>2. CASE /\ lost' = lost
           /\ \A type \in MarkTypes \cup {"enqueued"} : Of(type) \subseteq Of(type)'
           /\ \A type \in MarkTypes : Marked(type)' \subseteq Enqueued
           /\ Written' \subseteq Written \cup Underway
           /\ \A f \in Marked("failed")' : payload[f] # "whole"
           /\ \A f \in Marked("responded")' : header[f].chan = "worker"
  <2>1. /\ Enqueued \subseteq Enqueued' /\ Read \subseteq Read' /\ Failed \subseteq Failed'
        /\ Responded \subseteq Responded'
    BY <1>2 DEF Enqueued, Read, Failed, Responded, MarkTypes
  <2>2. Read' \subseteq Enqueued /\ Failed' \subseteq Enqueued /\ Responded' \subseteq Enqueued
        /\ \A f \in Responded' : header[f].chan = "worker"
    BY <1>2 DEF Read, Failed, Responded, Marked, MarkTypes
  <2>3. lost \cap Enqueued' = {}
    BY <1>2 DEF OrderInv, LostAreGone, Written
  <2>4. e \in Enqueued => StatusOf(e) # "absent"
    BY DEF StatusOf
  <2>5. StatusOf(e)' # StatusOf(e) =>
           <<StatusOf(e), StatusOf(e)'>> \in {<<"absent", "unread">>, <<"unread", "read">>, <<"unread", "failed">>, <<"read", "failed">>}
    BY <1>1, <1>2, <2>1, <2>2, <2>3 DEF StatusOf
  <2> QED BY <2>1, <2>2, <2>4, <2>5 DEF Promise!Edges
<1>3. CASE /\ lost' = lost \cup Enqueued /\ Idle /\ op' = op /\ host.missing = {}
           /\ \A type \in MarkTypes \cup {"enqueued"} : Marked(type)' = {}
  <2>1. Enqueued' = {} /\ Read' = {} /\ Failed' = {} /\ Responded' = {}
    BY <1>3 DEF Marked, Enqueued, Read, Failed, Responded
  <2>2. StatusOf(e)' = IF e \in lost \cup Enqueued THEN "lost" ELSE "absent"
    BY <1>3, <2>1 DEF StatusOf
  <2>3. e \in Enqueued => StatusOf(e) \in {"unread", "read", "failed"}
    BY DEF StatusOf
  <2>4. e \notin Enqueued => StatusOf(e) = IF e \in lost THEN "lost" ELSE "absent"
    BY <1>1 DEF StatusOf
  <2> QED BY <1>1, <2>1, <2>2, <2>3, <2>4 DEF Promise!Edges
<1> QED BY <1>2, <1>3, FileEffectMarks

LEMMA EffectMoves ==
  ASSUME BusInv, BusInv', OrderInv, OrderInv', FileEffect, UNCHANGED <<header, handed>>
  PROVE  Promise!Move
<1>1. \A e \in Envelopes : StatusOf(e)' \in {"absent", "unread", "read", "failed", "lost"}
  BY DEF StatusOf
<1>2. \A e \in Envelopes : StatusOf(e)' # "absent" => header[e].chan # "none"
  <2> SUFFICES ASSUME NEW e \in Envelopes, StatusOf(e)' # "absent" PROVE header[e].chan # "none"
    OBVIOUS
  <2>1. e \in (lost \cup Enqueued)'
    BY DEF StatusOf, Read, Failed
  <2>2. header'[e] # Blank
    BY <2>1 DEF OrderInv, LostAreGone, BusInv, UnderwayIsUnwritten, Written
  <2> QED BY <2>2, ChannelsAssumption DEF OrderInv, StampedInOrder
<1>3. \A e : e \in Responded \cup Responded' => e \in Envelopes
  BY EnvelopesOnly DEF BusInv, TypeOK, FileTypes, Responded, Enqueued, Of, Entries, Lines, Torn, Line
<1> QED BY <1>1, <1>2, <1>3, StatusMoves DEF Promise!Move

\* A pull that returns hands out what is read, and nothing twice.
LEMMA ReturnHands ==
  ASSUME BusInv, OrderInv, OrderInv', Return
  PROVE  Promise!Hand
<1>1. UNCHANGED <<files, stamps, waiting, host, accepted, lost>>
  BY DEF Return
<1>2. Enqueued' = Enqueued /\ Read' = Read /\ Failed' = Failed /\ Responded' = Responded
      /\ lost' = lost /\ header' = header
  BY <1>1 DEF files, stamps, Enqueued, Read, Failed, Responded, Of, Entries
<1>3. [f \in Envelopes |-> StatusOf(f)]' = [f \in Envelopes |-> StatusOf(f)]
  BY <1>2 DEF StatusOf
<1>4. handed \in Seq(Envelopes) /\ op.got \in Seq(Envelopes)
  BY DEF BusInv, TypeOK, HostTypes, HistoryTypes
<1>5. handed' = handed \/ (op.kind = "pull" /\ handed' = handed \o op.got)
  BY DEF Return
<1>6. Promise!IsPrefix(handed, handed')
  <2>1. CASE handed' = handed
    BY <1>4, <2>1 DEF Promise!IsPrefix
  <2>2. CASE handed' = handed \o op.got
    <3>1. Len(handed) <= Len(handed') /\ SubSeq(handed, 1, Len(handed)) = SubSeq(handed', 1, Len(handed))
      BY <1>4, <2>2
    <3> QED BY <3>1 DEF Promise!IsPrefix
  <2> QED BY <1>5, <2>1, <2>2
<1>7. Promise!IsInjective(handed')
  BY DEF OrderInv, HandedInOrder, IsInjective, Promise!IsInjective
<1>8. \A i \in DOMAIN handed' \ DOMAIN handed : handed'[i] \in Envelopes /\ StatusOf(handed'[i]) = "read"
  <2> SUFFICES ASSUME op.kind = "pull", handed' = handed \o op.got,
                      NEW i \in DOMAIN (handed \o op.got) \ DOMAIN handed
               PROVE  handed'[i] \in Envelopes /\ StatusOf(handed'[i]) = "read"
    BY <1>5
  <2>1. i - Len(handed) \in DOMAIN op.got /\ handed'[i] = op.got[i - Len(handed)]
    BY <1>4
  <2>2. handed'[i] \in Envelopes
    BY <1>4, <2>1
  <2>3. handed'[i] \in Read \ Failed
    BY <2>1 DEF OrderInv, PullInOrder, TakenInOrder, Range
  <2> QED BY <2>2, <2>3 DEF StatusOf
<1> QED BY <1>2, <1>3, <1>6, <1>7, <1>8 DEF Promise!Hand

\* Every step of the bus is a step of the inbox, or none.
LEMMA StepImplementsInbox ==
  ASSUME BusInv, BusInv', OrderInv, OrderInv', [Next]_vars
  PROVE  [Promise!Next]_(Promise!vars)
<1>1. CASE Return
  BY <1>1, ReturnHands DEF Promise!Next
<1>2. CASE UNCHANGED vars
  BY <1>2 DEF vars, files, stamps, tracked, Promise!vars, StatusOf, Enqueued, Read, Failed, Responded, Of, Entries
<1>3. CASE ~Return /\ ~UNCHANGED vars
  <2>1. Effect
    BY <1>3, OrderStep
  <2>2. CASE \E w \in Writers, e \in Envelopes, c \in Channels : Stamp(w, e, c) /\ UNCHANGED <<files, tracked>>
    BY <2>2, StampAddresses DEF Promise!Next
  <2>3. CASE UNCHANGED stamps
    <3>1. handed' = handed
      BY <1>3 DEF Next, Enqueue, Reads, Mark, Fault, Recovery, Call, GiveUp, EnqueueBegin, EnqueuePayload,
                  EnqueueLine, Peek, Pull, PullCorrupt, ReadNext, MarkReadBatch, MarkResponded, MarkNext,
                  WriteFails, Dies, Damage, QuarantineLate, Recover, RecoverQuarantine, RecoverMissing,
                  RecoverReport, Recovered, tracked
    <3> QED BY <2>1, <2>3, <3>1, EffectMoves DEF Effect, stamps, Promise!Next
  <2> QED BY <2>1, <2>2, <2>3 DEF Effect, StampEffect
<1> QED BY <1>1, <1>2, <1>3

-----------------------------------------------------------------------------
(* Theorems                                                                  *)

\* The inductive invariant: the types, a greatest sequence number, and that an envelope reaches
\* the file only once its payload is there.
THEOREM BusInvariant == Spec => []BusInv
  BY InitialBusInv, BusStep, PTL DEF Spec

\* Every state the bus can be in has the types of TypeOK; in particular every stateSeq given
\* out is a positive number, whatever was truncated, quarantined or written half-way.
THEOREM BusTypeCorrect == Spec => []TypeOK
<1>1. BusInv => TypeOK
  BY DEF BusInv
<1> QED BY <1>1, BusInvariant, PTL

\* An envelope in the stream has had its payload completed first, with any number of senders,
\* crashes and failed writes (bus.ts, payload before line; recovery.ts, orphans only).
THEOREM PayloadsComeFirst == Spec => []PayloadBeforeLine
<1>1. BusInv => PayloadBeforeLine
  BY DEF BusInv, WrittenHasPayload, Written, PayloadBeforeLine
<1> QED BY <1>1, BusInvariant, PTL

\* An enqueue that returned is in the stream for good, or in one that was quarantined.
THEOREM AcceptedKept == Spec => []AcceptedIsKept
<1>1. BusInv => AcceptedIsKept
  BY DEF BusInv
<1> QED BY <1>1, BusInvariant, PTL

\* The inductive invariant of the marks: every mark is about an envelope of its stream, what was
\* quarantined never comes back, and a pull misses nothing that was accepted on its channel.
THEOREM OrderInvariant == Spec => [](BusInv /\ OrderInv)
<1>1. Init => BusInv /\ OrderInv
  BY InitialBusInv, InitialOrderInv
<1>2. (BusInv /\ OrderInv) /\ [Next]_vars => (BusInv /\ OrderInv)'
  BY BusStep, OrderStep
<1> QED BY <1>1, <1>2, PTL DEF Spec

\* What a sender enqueued on a channel in turn is delivered in turn, although every sender has a
\* clock of its own, stamps before it has the lock, and any of its lines may be cut off.
THEOREM SendersAreInOrder == Spec => []SenderOrder
<1>1. BusInv /\ OrderInv => SenderOrder
  <2> SUFFICES ASSUME BusInv, OrderInv, NEW j \in DOMAIN handed, NEW e \in before[handed[j]],
                      SameWay(e, handed[j])
               PROVE  /\ e \in Enqueued => e \in Read \cup Failed
                      /\ \A i \in DOMAIN handed : handed[i] = e => i < j
    BY DEF SenderOrder
  <2>1. e \in Settled
    BY DEF OrderInv, HandedInOrder, SettledBefore, Range
  <2>2. e \in Enqueued => e \notin lost
    BY DEF OrderInv, LostAreGone, Written
  <2>3. \A i \in DOMAIN handed : handed[i] = e => i < j
    BY DEF OrderInv, HandedInOrder, Unfollowed
  <2> QED BY <2>1, <2>2, <2>3 DEF Settled
<1> QED BY <1>1, OrderInvariant, PTL

\* The bus implements the inbox the documentation promises.
THEOREM BusImplementsInbox == Spec => ImplementsInbox
<1>1. Init => Promise!Init
  <2> SUFFICES ASSUME Init PROVE Promise!Init
    OBVIOUS
  <2>1. Enqueued = {} /\ Read = {} /\ Failed = {} /\ Responded = {}
    BY DEF Init, Enqueued, Read, Failed, Responded, Of, Entries
  <2>2. [e \in Envelopes |-> StatusOf(e)] = [e \in Envelopes |-> "absent"]
    BY <2>1 DEF Init, StatusOf
  <2>3. [e \in Envelopes |-> header[e].chan] = [e \in Envelopes |-> "none"]
    BY DEF Init, Blank
  <2> QED BY <2>1, <2>2, <2>3 DEF Init, Promise!Init
<1>2. (BusInv /\ OrderInv) /\ (BusInv /\ OrderInv)' /\ [Next]_vars => [Promise!Next]_(Promise!vars)
  BY StepImplementsInbox
<1> QED BY <1>1, <1>2, OrderInvariant, PTL DEF Spec, ImplementsInbox, Promise!Spec
====
