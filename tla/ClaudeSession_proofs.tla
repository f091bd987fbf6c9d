---- MODULE ClaudeSession_proofs ----
(***************************************************************************)
(* The Claude adapter keeps the contract of ProviderSession, for any number  *)
(* of callers, turns and faults, short of three moments (Behaved) at each of *)
(* which TLC shows that it does not.  The argument: one caller at most is past*)
(* the check of #injecting, so that one message at most is on its way and    *)
(* only while no turn is open; each thread awaits the event it submitted, so  *)
(* that the chain holds one of each; and hence what is out is a function of   *)
(* where the threads are (LogInv).                                           *)
(***************************************************************************)
EXTENDS ClaudeSession, TLAPS

-----------------------------------------------------------------------------
(* The invariant                                                             *)

\* Where a call can be.
CallPcs == {"free", "asked", "refused", "interrupt", "accepted", "delivered", "started", "lost", "abort", "aborting"}
\* Who submits an event.
Threads == Callers \cup {"sub", "fin", "none"}
EventKinds == {"turn_started", "turn_ended", "tool_invoked", "tool_result", "session_ended", "compact_ended"}
CallRecords == [pc : CallPcs, owner : BOOLEAN, turn : 0..MaxTurns]
SdkRecords == [run : 0..Compact, sub : {"free", "init", "result", "gone"}, inited : BOOLEAN, hook : BOOLEAN]
EventRecords == [kind : EventKinds, turn : 0..MaxTurns, by : Threads]
LogRecords == [turn : [Turns -> {"unborn", "open", "ended", "broken"}], orphan : BOOLEAN, tool : BOOLEAN,
               session : {"open", "ended"}]

StateTypes ==
  /\ status \in {"initializing", "idle", "streaming", "closing", "closed"}
  /\ count \in 0..MaxTurns /\ cur \in {None, count} /\ tool \in BOOLEAN
  /\ call \in [Callers -> CallRecords] /\ injecting \in BOOLEAN
  /\ closer \in [pc : {"none", "entered", "wait", "grace", "done"}, force : BOOLEAN, turn : 0..MaxTurns]
  /\ init \in {"unarmed", "armed", "ok", "failed"} /\ fin \in {"no", "tool", "turn", "session", "done"}
  /\ queue \in [open : BOOLEAN, waits : Seq(1..Compact)]
  /\ sdk \in SdkRecords /\ compact \in BOOLEAN
  /\ chain \in Seq(EventRecords) /\ log \in LogRecords /\ told \subseteq 1..count

\* One caller at most is past the check of the mutex.
OwnerInv ==
  /\ \A c \in Callers : call[c].pc \in {"interrupt", "accepted", "delivered", "started", "lost"} => call[c].owner
  /\ \A c \in Callers : call[c].pc = "free" => ~call[c].owner
  /\ \A c \in Callers : call[c].owner => injecting
  /\ \A c, d \in Callers : call[c].owner /\ call[d].owner => c = d

\* A session that ends takes no message any more, and its turn is left when its end is submitted.
EndingInv ==
  /\ fin # "no" \/ status \in {"closing", "closed"} \/ closer.pc = "grace" => ~queue.open
  /\ cur # None => status \in {"streaming", "closing", "closed"}
  /\ fin = "tool" => cur # None /\ tool
  /\ fin \in {"turn", "session", "done"} => cur = None
  /\ cur = None => ~tool

\* Who delivers a message is about to open the newest turn, and the SDK has nothing to work on.
DeliveryInv ==
  /\ \A c \in Callers : call[c].pc \in {"delivered", "started"} =>
       /\ call[c].turn = count /\ count # 0 /\ count \notin told
       /\ fin = "no" => cur = count
       /\ queue.waits = <<>> /\ sdk.run = None /\ sdk.sub # "result"
  /\ \A c \in Callers : call[c].pc = "delivered" => fin = "no" /\ Out(c)
  /\ \A c \in Callers : queue.open /\ call[c].pc = "accepted" => cur = None
  /\ \A c \in Callers : queue.open /\ call[c].pc = "interrupt" => cur \in {None, call[c].turn}

\* Who hears the result of a turn ends the one that is open.
ResultInv ==
  /\ sdk.sub = "result" => fin = "no" /\ cur # None /\ ~tool /\ queue.waits = <<>> /\ sdk.run = None /\ sdk.inited
  /\ sdk.inited /\ sdk.sub # "init" => init \in {"ok", "failed"}
  /\ init = "armed" => (queue.open => cur # None) /\ \A c \in Callers : call[c].pc # "delivered"

\* The SDK has one message at most: that of the open turn, or /compact, whose end is heard once.
Has(m) == sdk.run = m \/ \E i \in DOMAIN queue.waits : queue.waits[i] = m
Summaries == {i \in DOMAIN chain : chain[i].kind = "compact_ended"}
MessageInv == queue.open =>
  /\ queue.waits = <<>> \/ (Len(queue.waits) = 1 /\ sdk.run = None)
  /\ \A m \in 1..Compact : Has(m) => IF m = Compact THEN compact ELSE m = cur
  /\ compact => status # "streaming" /\ \A c \in Callers : call[c].pc = "free"
  /\ sdk.hook \/ Summaries # {} => compact /\ ~Has(Compact)
  /\ sdk.hook => Summaries = {}
  /\ \A i, j \in Summaries : i = j

\* Of each thread one event at most is under way; what it says is where the thread is.
Fits(e) ==
  /\ e.by \in Callers => /\ e.kind = "turn_started" /\ call[e.by].pc = "started" /\ e.turn = count
                         /\ fin \notin {"session", "done"}
  /\ e.by = "sub" => IF sdk.sub = "result" THEN e.kind = "turn_ended" /\ e.turn = count
                     ELSE e.kind = (IF tool THEN "tool_invoked" ELSE "tool_result") /\ (fin = "no" => cur # None)
  /\ e.by = "fin" => \/ fin = "tool" /\ e.kind = "tool_result"
                     \/ fin = "turn" /\ e.kind = "turn_ended" /\ e.turn = count /\ count # 0
                     \/ fin = "session" /\ e.kind = "session_ended"
  /\ e.by = "none" <=> e.kind = "compact_ended"
InChain(e) == \E i \in DOMAIN chain : chain[i] = e
ChainInv ==
  /\ \A e \in EventRecords : InChain(e) => Fits(e)
  /\ \A i, j \in DOMAIN chain : chain[i].by = chain[j].by /\ chain[i].by # "none" => i = j
  /\ \A i, j \in DOMAIN chain : i < j /\ chain[i].by = "fin" => chain[j].by = "none"
  /\ fin # "no" /\ Out("fin") => \A i \in DOMAIN chain : chain[i].by = "none"

\* What is out, by where the threads are.
Unsaid == \E c \in Callers : call[c].pc = "delivered" \/ (call[c].pc = "started" /\ ~Out(c))
EndIsOut == IF cur = count THEN sdk.sub = "result" /\ Out("sub") ELSE ~(fin = "turn" /\ ~Out("fin"))
TurnOut(u) ==
  IF u < count THEN "ended"
  ELSE IF u > count \/ Unsaid THEN "unborn"
  ELSE IF EndIsOut THEN "ended" ELSE "open"
ToolOut ==
  IF fin = "tool" /\ Out("fin") THEN FALSE
  ELSE IF ~Out("sub") /\ sdk.sub # "result" THEN ~tool ELSE tool
LogInv ==
  /\ ~log.orphan /\ (log.session = "ended" => fin \in {"session", "done"})
  /\ log.session = "open" => log.tool = ToolOut /\ \A u \in Turns : log.turn[u] = TurnOut(u)

\* The invariant of the contract.
PromiseInv ==
  StateTypes /\ OwnerInv /\ EndingInv /\ DeliveryInv /\ ResultInv /\ MessageInv /\ ChainInv /\ LogInv

\* The session is not ended while a message is being delivered, a result is not suppressed by a close
\* of its turn, and the end of a compaction comes after its result and before its timeout.
Behaved ==
  /\ "end_in_delivery" \notin Hazards
  /\ "late_result" \notin Faults \cup Hazards /\ "late_compact" \notin Faults \cup Hazards

-----------------------------------------------------------------------------
(* The chain, and what is out                                                *)

\* A thread is heard once none of its events is left.
LEMMA OutOfAppend ==
  ASSUME chain \in Seq(EventRecords), NEW e \in EventRecords, chain' = Append(chain, e)
  PROVE  /\ chain' \in Seq(EventRecords)
         /\ Len(chain') = Len(chain) + 1 /\ chain'[Len(chain) + 1] = e
         /\ \A i \in DOMAIN chain : i \in DOMAIN chain' /\ chain'[i] = chain[i]
         /\ \A i \in DOMAIN chain' : i \in DOMAIN chain \/ i = Len(chain) + 1
         /\ \A x : Out(x)' <=> Out(x) /\ x # e.by
<1>1. chain' \in Seq(EventRecords) /\ Len(chain') = Len(chain) + 1 /\ chain'[Len(chain) + 1] = e
  OBVIOUS
<1>2. DOMAIN chain = 1..Len(chain) /\ DOMAIN chain' = 1..Len(chain') /\ Len(chain) \in Nat
  BY <1>1
<1>3. \A i \in DOMAIN chain : i \in DOMAIN chain' /\ chain'[i] = chain[i]
  BY <1>1, <1>2
<1>4. \A i \in DOMAIN chain' : i \in DOMAIN chain \/ i = Len(chain) + 1
  BY <1>1, <1>2
<1>5. Len(chain) + 1 \in DOMAIN chain'
  BY <1>1, <1>2
<1>6. \A x : Out(x)' <=> Out(x) /\ x # e.by
  BY <1>1, <1>3, <1>4, <1>5 DEF Out
<1> QED BY <1>1, <1>3, <1>4, <1>6

\* The first event of the chain leaves it.
LEMMA OutOfTail ==
  ASSUME chain \in Seq(EventRecords), chain # <<>>, chain' = Tail(chain)
  PROVE  /\ chain' \in Seq(EventRecords) /\ 1 \in DOMAIN chain /\ chain[1] = Head(chain)
         /\ Head(chain) \in EventRecords
         /\ \A i \in DOMAIN chain' : i + 1 \in DOMAIN chain /\ i + 1 > 1 /\ chain'[i] = chain[i + 1]
         /\ \A i \in DOMAIN chain : i = 1 \/ (i - 1 \in DOMAIN chain' /\ chain'[i - 1] = chain[i])
         /\ \A i \in DOMAIN chain : i \in Nat
         /\ \A i \in DOMAIN chain' : i \in Nat
<1>1. chain' \in Seq(EventRecords) /\ Len(chain') = Len(chain) - 1 /\ Len(chain) \in Nat /\ Len(chain) > 0
  OBVIOUS
<1>2. DOMAIN chain = 1..Len(chain) /\ DOMAIN chain' = 1..Len(chain')
  BY <1>1
<1>3. chain[1] = Head(chain) /\ Head(chain) \in EventRecords
  OBVIOUS
<1>4. \A i \in DOMAIN chain' : i + 1 \in DOMAIN chain /\ i + 1 > 1 /\ chain'[i] = chain[i + 1]
  BY <1>1, <1>2
<1>5. \A i \in DOMAIN chain : i = 1 \/ (i - 1 \in DOMAIN chain' /\ chain'[i - 1] = chain[i])
  <2> SUFFICES ASSUME NEW i \in DOMAIN chain, i # 1 PROVE i - 1 \in DOMAIN chain' /\ chain'[i - 1] = chain[i]
    OBVIOUS
  <2>1. i \in Nat /\ i - 1 \in 1..Len(chain')
    BY <1>1, <1>2
  <2> QED BY <2>1, <1>4, <1>2
<1> QED BY <1>1, <1>2, <1>3, <1>4, <1>5

\* An event joins the chain.
LEMMA ChainGrows ==
  ASSUME chain \in Seq(EventRecords), ChainInv, NEW e \in EventRecords, chain' = Append(chain, e),
         \A x \in EventRecords : InChain(x) => Fits(x)', Fits(e)',
         e.by # "none" => Out(e.by) /\ Out("fin"),
         IF e.by = "none" THEN fin' = fin ELSE e.by = "fin" \/ fin' = "no"
  PROVE  ChainInv'
<1> DEFINE n == Len(chain) + 1
<1>1. /\ \A i \in DOMAIN chain : chain'[i] = chain[i]
      /\ \A i \in DOMAIN chain' : i \in DOMAIN chain \/ i = n
      /\ chain'[n] = e /\ \A i \in DOMAIN chain : i < n /\ i # n
      /\ \A x : Out(x)' <=> Out(x) /\ x # e.by
  <2>1. DOMAIN chain = 1..Len(chain) /\ Len(chain) \in Nat
    OBVIOUS
  <2> QED BY <2>1, OutOfAppend
<1> HIDE DEF n
<1>2. \A x \in EventRecords : InChain(x)' => Fits(x)'
  BY <1>1 DEF InChain
<1>3. \A i, j \in DOMAIN chain' : chain'[i].by = chain'[j].by /\ chain'[i].by # "none" => i = j
  BY <1>1 DEF ChainInv, Out
<1>4. \A i, j \in DOMAIN chain' : i < j /\ chain'[i].by = "fin" => chain'[j].by = "none"
  <2>1. \A i \in DOMAIN chain' : i \in Nat
    BY OutOfAppend
  <2>2. n \in Nat
    BY DEF n
  <2> QED BY <1>1, <2>1, <2>2 DEF ChainInv, Out
<1>5. fin' # "no" /\ Out("fin")' => \A i \in DOMAIN chain' : chain'[i].by = "none"
  BY <1>1 DEF ChainInv, Out
<1> QED BY <1>2, <1>3, <1>4, <1>5 DEF ChainInv

\* The order of the chain and who is in it do not change with the rest.
LEMMA ChainStays ==
  ASSUME ChainInv, chain' = chain, \A x \in EventRecords : InChain(x) => Fits(x)', fin' = fin
  PROVE  ChainInv'
<1>1. (Out("fin")' <=> Out("fin")) /\ \A x \in EventRecords : InChain(x)' <=> InChain(x)
  BY DEF Out, InChain
<1> QED BY <1>1 DEF ChainInv

\* Nothing is heard of a step that leaves the events, and who submits one, where they are.
LEMMA SameTurns ==
  ASSUME LogInv, UNCHANGED <<cur, count, tool, fin, chain, log>>, sdk'.sub = "result" <=> sdk.sub = "result",
         \A c \in Callers : /\ call'[c].pc = "delivered" <=> call[c].pc = "delivered"
                            /\ call'[c].pc = "started" /\ ~Out(c) <=> call[c].pc = "started" /\ ~Out(c)
  PROVE  LogInv'
<1>1. \A x : Out(x)' <=> Out(x)
  BY DEF Out
<1>2. Unsaid' <=> Unsaid
  BY <1>1 DEF Unsaid
<1>3. EndIsOut' <=> EndIsOut
  BY <1>1 DEF EndIsOut
<1>4. ToolOut' = ToolOut
  BY <1>1 DEF ToolOut
<1>5. \A u \in Turns : TurnOut(u)' = TurnOut(u)
  BY <1>2, <1>3 DEF TurnOut
<1> QED BY <1>4, <1>5 DEF LogInv, Turns

\* The first of a sequence and the rest.
LEMMA HeadAndTail ==
  ASSUME NEW S, NEW s \in Seq(S), s # <<>>
  PROVE  Head(s) \in S /\ Tail(s) \in Seq(S) /\ 1 \in DOMAIN s /\ s[1] = Head(s) /\ (Len(s) = 1 => Tail(s) = <<>>)
<1>1. Head(s) \in S /\ Tail(s) \in Seq(S) /\ 1 \in DOMAIN s /\ s[1] = Head(s)
  OBVIOUS
<1>2. Len(s) = 1 => Len(Tail(s)) = 0
  OBVIOUS
<1>3. \A t \in Seq(S) : Len(t) = 0 => t = <<>>
  OBVIOUS
<1> QED BY <1>1, <1>2, <1>3

\* An event is one.
LEMMA EventIsTyped ==
  ASSUME NEW kind \in EventKinds, NEW t \in 0..MaxTurns, NEW by \in Threads
  PROVE  /\ Event(kind, t, by) \in EventRecords
         /\ Event(kind, t, by).kind = kind /\ Event(kind, t, by).turn = t /\ Event(kind, t, by).by = by
BY DEF Event, EventRecords

\* The numbers of turns and messages.
LEMMA NumbersAreTyped ==
  ASSUME StateTypes
  PROVE  None \in 0..MaxTurns /\ cur \in 0..MaxTurns /\ count \in 0..MaxTurns /\ Compact \in Nat
         /\ None \in 0..Compact /\ 1..Compact \subseteq 0..Compact
BY BoundsAssumption DEF StateTypes, None, Compact

-----------------------------------------------------------------------------
(* The SDK and its subscriber                                                *)

LEMMA SdkTakesKeeps == ASSUME PromiseInv, SdkTakes PROVE PromiseInv'
<1> USE DEF PromiseInv, SdkTakes, threads, flags
<1>1. queue.waits \in Seq(1..Compact) /\ queue.waits # <<>>
  BY DEF StateTypes
<1>2. Head(queue.waits) \in 1..Compact /\ Tail(queue.waits) \in Seq(1..Compact)
      /\ 1 \in DOMAIN queue.waits /\ queue.waits[1] = Head(queue.waits)
  BY <1>1, HeadAndTail
<1>3. queue.open => Tail(queue.waits) = <<>>
  BY <1>1, HeadAndTail DEF MessageInv
<1>4. StateTypes'
  <2>1. queue' \in [open : BOOLEAN, waits : Seq(1..Compact)]
    BY <1>2 DEF StateTypes
  <2>2. sdk' \in SdkRecords
    <3>1. Head(queue.waits) \in 0..Compact
      BY <1>2, NumbersAreTyped
    <3> QED BY <3>1 DEF StateTypes, SdkRecords
  <2> QED BY <2>1, <2>2 DEF StateTypes
<1>5. sdk'.run = Head(queue.waits) /\ sdk'.sub = sdk.sub /\ sdk'.hook = sdk.hook /\ sdk'.inited = sdk.inited
      /\ queue'.waits = Tail(queue.waits) /\ queue'.open = queue.open
  BY DEF StateTypes, SdkRecords
<1>6. OwnerInv' /\ EndingInv'
  BY <1>5 DEF OwnerInv, EndingInv
<1>7. DeliveryInv' /\ ResultInv'
  <2>1. \A c \in Callers : call[c].pc \notin {"delivered", "started"}
    BY <1>1 DEF DeliveryInv
  <2>2. sdk.sub # "result"
    BY <1>1 DEF ResultInv
  <2> QED BY <1>5, <2>1, <2>2 DEF DeliveryInv, ResultInv
<1>8. MessageInv'
  <2>1. \A m : Has(m)' => Has(m)
    BY <1>2, <1>3, <1>5 DEF Has
  <2> QED BY <1>3, <1>5, <2>1 DEF MessageInv, Summaries
<1>9. ChainInv'
  BY <1>5, ChainStays DEF ChainInv, Fits
<1>10. LogInv'
  BY <1>5, SameTurns
<1> QED BY <1>4, <1>6, <1>7, <1>8, <1>9, <1>10

\* The beginning of finalizeEnded, whoever begins it.
LEMMA FinalizeKeeps ==
  ASSUME PromiseInv, Finalize(chain), queue'.open = FALSE, sdk.sub # "result", sdk'.sub # "result",
         \A c \in Callers : call[c].pc # "delivered" /\ call'[c].pc # "delivered",
         \A c \in Callers : call'[c].pc = "started" /\ ~Out(c) <=> call[c].pc = "started" /\ ~Out(c),
         UNCHANGED <<count, tool, log, status>>
  PROVE  /\ chain' \in Seq(EventRecords) /\ cur' \in {None, count} /\ fin' \in {"tool", "turn", "session", "done"}
         /\ EndingInv' /\ ChainInv' /\ LogInv'
<1> USE DEF PromiseInv
<1>1. CASE fin # "no"
  <2>1. UNCHANGED <<chain, cur, fin>>
    BY <1>1 DEF Finalize
  <2>2. \A x \in EventRecords : InChain(x) => Fits(x)'
    BY <2>1 DEF ChainInv, Fits, InChain, Out
  <2>3. ChainInv'
    BY <2>1, <2>2, ChainStays
  <2>4. LogInv'
    BY <2>1, SameTurns
  <2>5. EndingInv'
    BY <2>1 DEF EndingInv
  <2> QED BY <1>1, <2>1, <2>3, <2>4, <2>5 DEF StateTypes
<1>2. CASE fin = "no"
  <2>1. Out("fin") /\ "fin" \notin Callers
    BY <1>2, CallersAssumption DEF ChainInv, Fits, Out, StateTypes, InChain
  <2>2. sdk.sub # "result" /\ sdk'.sub # "result" /\ fin' # "no" /\ log.session = "open"
    BY <1>2 DEF Finalize, LogInv, StateTypes, LogRecords
  \* Whatever end is submitted, the others' events still fit.
  <2>3. ASSUME NEW e \in EventRecords, e.by = "fin", chain' = Append(chain, e), Fits(e)',
               fin' = "session" => \A c \in Callers : call[c].pc = "started" => Out(c),
               cur' \in {cur, None}, cur' = None => fin' # "tool"
        PROVE  ChainInv' /\ (\A x : Out(x)' <=> Out(x) /\ x # "fin") /\ chain' \in Seq(EventRecords)
    <3>1. \A x \in EventRecords : InChain(x) => Fits(x)'
      <4> SUFFICES ASSUME NEW x \in EventRecords, InChain(x), Fits(x) PROVE Fits(x)'
        BY DEF ChainInv
      <4>1. x.by # "fin" /\ ~Out(x.by)
        BY <2>1 DEF InChain, Out
      <4>2. CASE x.by \in Callers
        <5>1. call[x.by].pc = "started" /\ fin' # "session" /\ fin' # "done" /\ call'[x.by].pc = "started"
          BY <4>1, <4>2, <2>3, <1>2 DEF Fits, Finalize
        <5> QED BY <4>1, <4>2, <5>1, CallersAssumption DEF Fits
      <4>3. CASE x.by = "sub"
        BY <4>1, <4>3, <2>2, CallersAssumption DEF Fits
      <4>4. CASE x.by = "none"
        BY <4>1, <4>4, <2>2, CallersAssumption DEF Fits
      <4> QED BY <4>1, <4>2, <4>3, <4>4 DEF EventRecords, Threads
    <3> QED BY <3>1, <2>1, <2>3, ChainGrows, OutOfAppend DEF StateTypes
  <2>4. CASE ToolLeft
    <3>1. PICK e \in EventRecords : e = Event("tool_result", cur, "fin")
      BY EventIsTyped, NumbersAreTyped DEF EventKinds, Threads
    <3>2. chain' = Append(chain, e) /\ fin' = "tool" /\ cur' = cur /\ e.by = "fin" /\ e.kind = "tool_result"
      BY <1>2, <2>4, <3>1 DEF Finalize, Event
    <3>3. Fits(e)' /\ cur' # None
      BY <2>4, <3>2, <2>1 DEF Fits, ToolLeft
    <3>4. ChainInv' /\ (\A x : Out(x)' <=> Out(x) /\ x # "fin") /\ chain' \in Seq(EventRecords)
      BY <2>3, <3>2, <3>3
    <3>5. EndingInv' /\ LogInv'
      BY <1>2, <2>1, <2>2, <2>4, <3>2, <3>4
         DEF EndingInv, LogInv, ToolOut, TurnOut, Unsaid, EndIsOut, ToolLeft, Turns, StateTypes
    <3> QED BY <3>2, <3>4, <3>5 DEF StateTypes
  <2>5. CASE ~ToolLeft /\ TurnLeft
    <3>1. PICK e \in EventRecords : e = Event("turn_ended", cur, "fin")
      BY EventIsTyped, NumbersAreTyped DEF EventKinds, Threads
    <3>2. /\ chain' = Append(chain, e) /\ fin' = "turn" /\ cur' = None
          /\ e.by = "fin" /\ e.kind = "turn_ended" /\ e.turn = cur
      BY <1>2, <2>5, <3>1 DEF Finalize, Event
    <3>3. Fits(e)' /\ cur = count /\ cur # None /\ tool = FALSE
      BY <2>5, <3>2, <2>1 DEF Fits, TurnLeft, ToolLeft, StateTypes, None
    <3>4. ChainInv' /\ (\A x : Out(x)' <=> Out(x) /\ x # "fin") /\ chain' \in Seq(EventRecords)
      BY <2>3, <3>2, <3>3
    <3>5. EndingInv' /\ LogInv'
      BY <1>2, <2>1, <2>2, <3>3, <3>2, <3>4
         DEF EndingInv, LogInv, ToolOut, TurnOut, Unsaid, EndIsOut, Turns, StateTypes
    <3> QED BY <3>2, <3>4, <3>5 DEF StateTypes
  <2>6. CASE ~ToolLeft /\ ~TurnLeft
    <3>1. PICK e \in EventRecords : e = Event("session_ended", None, "fin")
      BY EventIsTyped, NumbersAreTyped DEF EventKinds, Threads
    <3>2. /\ chain' = Append(chain, e) /\ fin' = "session" /\ cur' = None
          /\ cur = None /\ e.by = "fin" /\ e.kind = "session_ended"
      BY <1>2, <2>6, <3>1 DEF Finalize, Event, TurnLeft
    <3>3. Fits(e)' /\ \A c \in Callers : call[c].pc # "started"
      BY <1>2, <3>2, <2>1 DEF Fits, DeliveryInv, None
    <3>4. ChainInv' /\ (\A x : Out(x)' <=> Out(x) /\ x # "fin") /\ chain' \in Seq(EventRecords)
      BY <2>3, <3>2, <3>3
    <3>5. EndingInv' /\ LogInv'
      BY <1>2, <2>1, <2>2, <3>3, <3>2, <3>4
         DEF EndingInv, LogInv, ToolOut, TurnOut, Unsaid, EndIsOut, Turns, StateTypes
    <3> QED BY <3>2, <3>4, <3>5 DEF StateTypes
  <2> QED BY <2>4, <2>5, <2>6
<1> QED BY <1>1, <1>2 DEF StateTypes

LEMMA SubscriberInitKeeps == ASSUME PromiseInv, SubscriberInit PROVE PromiseInv'
<1> USE DEF PromiseInv, threads, flags
<1>1. sdk.sub = "free" /\ ~sdk.inited /\ sdk.run # None /\ queue.open
      /\ \A c \in Callers : call[c].pc \notin {"delivered", "started"}
  BY DEF SubscriberInit, SubscriberFree, DeliveryInv
<1>2. CASE /\ sdk' = [sdk EXCEPT !.inited = TRUE, !.sub = "init"]
           /\ UNCHANGED <<init, queue, cur, chain, fin, faults>>
  <2> USE <1>2 DEF SubscriberInit
  <2>1. sdk' \in SdkRecords /\ sdk'.run = sdk.run /\ sdk'.sub = "init" /\ sdk'.hook = sdk.hook
    BY DEF StateTypes, SdkRecords
  <2>2. StateTypes' /\ OwnerInv' /\ EndingInv'
    BY <2>1 DEF StateTypes, OwnerInv, EndingInv
  <2>3. DeliveryInv' /\ ResultInv' /\ MessageInv'
    BY <1>1, <2>1 DEF DeliveryInv, ResultInv, MessageInv, Has, Summaries
  <2>4. ChainInv'
    BY <1>1, <2>1, ChainStays DEF ChainInv, Fits
  <2>5. LogInv'
    BY <1>1, <2>1, SameTurns
  <2> QED BY <2>2, <2>3, <2>4, <2>5
<1>3. CASE /\ sdk' = [sdk EXCEPT !.sub = "gone", !.run = None] /\ Fatal
           /\ init' = IF init = "ok" THEN init ELSE "failed"
  <2> USE <1>3 DEF SubscriberInit
  <2>1. sdk' \in SdkRecords /\ sdk'.run = None /\ sdk'.sub = "gone" /\ sdk'.hook = sdk.hook
    BY NumbersAreTyped DEF StateTypes, SdkRecords
  <2>2. queue' \in [open : BOOLEAN, waits : Seq(1..Compact)] /\ ~queue'.open
    BY DEF StateTypes, Fatal
  <2>3. /\ chain' \in Seq(EventRecords) /\ cur' \in {None, count} /\ fin' \in {"tool", "turn", "session", "done"}
        /\ EndingInv' /\ ChainInv' /\ LogInv'
    BY <1>1, <2>1, <2>2, FinalizeKeeps DEF Fatal
  <2>4. StateTypes' /\ OwnerInv'
    BY <2>1, <2>2, <2>3 DEF StateTypes, OwnerInv
  <2>5. DeliveryInv' /\ ResultInv' /\ MessageInv'
    BY <1>1, <2>1, <2>2, <2>3 DEF DeliveryInv, ResultInv, MessageInv, StateTypes
  <2> QED BY <2>3, <2>4, <2>5
<1> QED BY <1>2, <1>3 DEF SubscriberInit

LEMMA SubscriberInitedKeeps == ASSUME PromiseInv, SubscriberInited PROVE PromiseInv'
<1> USE DEF PromiseInv, SubscriberInited, threads, flags
<1>1. /\ sdk' \in SdkRecords /\ sdk'.run = sdk.run /\ sdk.sub = "init"
      /\ sdk'.sub = "free" /\ sdk'.hook = sdk.hook
  BY DEF StateTypes, SdkRecords
<1>2. StateTypes' /\ OwnerInv' /\ EndingInv'
  BY <1>1 DEF StateTypes, OwnerInv, EndingInv
<1>3. DeliveryInv' /\ ResultInv' /\ MessageInv'
  BY <1>1 DEF DeliveryInv, ResultInv, MessageInv, Has, Summaries, StateTypes, Out
<1>4. ChainInv'
  BY <1>1, ChainStays DEF ChainInv, Fits
<1>5. LogInv'
  BY <1>1, SameTurns
<1> QED BY <1>2, <1>3, <1>4, <1>5

\* The session dies without its init.
LEMMA InitTimesOutKeeps == ASSUME PromiseInv, InitTimesOut PROVE PromiseInv'
<1> USE DEF PromiseInv, InitTimesOut, threads, flags
<1>1. sdk.sub # "result" /\ \A c \in Callers : call[c].pc # "delivered"
  BY DEF ResultInv
<1>2. queue' \in [open : BOOLEAN, waits : Seq(1..Compact)] /\ ~queue'.open /\ queue'.waits = queue.waits
  BY DEF StateTypes, Fatal
<1>3. /\ chain' \in Seq(EventRecords) /\ cur' \in {None, count} /\ fin' \in {"tool", "turn", "session", "done"}
      /\ EndingInv' /\ ChainInv' /\ LogInv'
  BY <1>1, <1>2, FinalizeKeeps DEF Fatal
<1>4. StateTypes' /\ OwnerInv'
  BY <1>2, <1>3 DEF StateTypes, OwnerInv
<1>5. DeliveryInv' /\ ResultInv' /\ MessageInv'
  BY <1>1, <1>2, <1>3 DEF DeliveryInv, ResultInv, MessageInv
<1> QED BY <1>3, <1>4, <1>5

\* The turn uses a tool, or has its result.
LEMMA SdkToolKeeps == ASSUME PromiseInv, SdkTool PROVE PromiseInv'
<1> USE DEF PromiseInv, SdkTool, threads, flags
<1>1. /\ sdk.sub = "free" /\ Out("sub") /\ sdk.inited /\ queue.open
      /\ fin = "no" /\ cur = count /\ cur # None /\ sdk.run # None
  BY DEF Heeded, SubscriberFree, EndingInv, StateTypes, Turns, None
<1>2. PICK e \in EventRecords : e = Event(IF tool THEN "tool_result" ELSE "tool_invoked", cur, "sub")
  BY EventIsTyped, NumbersAreTyped DEF EventKinds, Threads
<1>3. chain' = Append(chain, e) /\ e.by = "sub" /\ e.kind = (IF tool THEN "tool_result" ELSE "tool_invoked")
  BY <1>2 DEF Event
<1>4. chain' \in Seq(EventRecords) /\ (\A x : Out(x)' <=> Out(x) /\ x # "sub")
  BY <1>3, OutOfAppend DEF StateTypes
<1>5. StateTypes' /\ OwnerInv' /\ EndingInv'
  BY <1>1, <1>4 DEF StateTypes, OwnerInv, EndingInv
<1>6. \A c \in Callers : call[c].pc \notin {"delivered", "started"}
  BY <1>1 DEF DeliveryInv
<1>7. DeliveryInv' /\ ResultInv'
  BY <1>1, <1>6 DEF DeliveryInv, ResultInv
<1>8. MessageInv'
  <2>1. Summaries' = Summaries
    BY <1>3, OutOfAppend DEF Summaries, StateTypes
  <2> QED BY <2>1 DEF MessageInv, Has
<1>9. Out("fin")
  BY <1>1, CallersAssumption DEF ChainInv, Fits, Out, StateTypes, InChain
<1>10. ChainInv'
  <2>1. \A x \in EventRecords : InChain(x) => Fits(x)'
    <3> SUFFICES ASSUME NEW x \in EventRecords, InChain(x), Fits(x) PROVE Fits(x)'
      BY DEF ChainInv
    <3>1. x.by # "sub"
      BY <1>1 DEF Out, InChain
    <3> QED BY <3>1 DEF Fits
  <2>2. Fits(e)'
    BY <1>1, <1>3, CallersAssumption DEF Fits, StateTypes
  <2> QED BY <1>1, <1>3, <1>9, <2>1, <2>2, ChainGrows DEF StateTypes
<1>11. LogInv'
  BY <1>1, <1>4, <1>6 DEF LogInv, ToolOut, TurnOut, Unsaid, EndIsOut, Turns, StateTypes
<1> QED BY <1>5, <1>7, <1>8, <1>10, <1>11

\* A result ends the turn that is open, or answers /compact.
LEMMA SubscriberResultKeeps == ASSUME PromiseInv, SubscriberResult, Behaved PROVE PromiseInv'
<1> USE DEF PromiseInv, threads, flags
<1>1. sdk.sub = "free" /\ Out("sub") /\ sdk.inited /\ queue.open /\ fin = "no" /\ sdk.run # None
      /\ \A c \in Callers : call[c].pc \notin {"delivered", "started"}
  BY DEF SubscriberResult, SubscriberFree, Heeded, Fault, Behaved, EndingInv, DeliveryInv
<1>2. CASE /\ Suppressed /\ sdk' = [sdk EXCEPT !.run = None, !.hook = TRUE]
           /\ UNCHANGED <<cur, tool, status, chain, faults>>
  <2> USE <1>2 DEF SubscriberResult
  <2>1. sdk' \in SdkRecords /\ sdk'.run = None /\ sdk'.sub = "free" /\ sdk'.hook = TRUE /\ sdk'.inited
    BY <1>1, NumbersAreTyped DEF StateTypes, SdkRecords
  <2>2. StateTypes' /\ OwnerInv' /\ EndingInv'
    BY <2>1 DEF StateTypes, OwnerInv, EndingInv
  <2>3. DeliveryInv' /\ ResultInv'
    BY <1>1, <2>1 DEF DeliveryInv, ResultInv
  <2>4. MessageInv'
    <3>1. sdk.run = Compact /\ queue.waits = <<>> /\ compact
      BY <1>1 DEF MessageInv, Has, Suppressed, SdkRecords, StateTypes, Compact, None
    <3>2. ~sdk.hook /\ Summaries = {}
      BY <1>1, <3>1 DEF MessageInv, Has
    <3>3. \A m \in 1..Compact : ~Has(m)'
      BY <2>1, <3>1 DEF Has, None
    <3>4. Summaries' = Summaries
      BY DEF Summaries
    <3> QED BY <2>1, <3>1, <3>2, <3>3, <3>4, <1>1, BoundsAssumption DEF MessageInv, Compact
  <2>5. ChainInv'
    BY <1>1, <2>1, ChainStays DEF ChainInv, Fits
  <2>6. LogInv'
    BY <1>1, <2>1, SameTurns
  <2> QED BY <2>2, <2>3, <2>4, <2>5, <2>6
<1>3. CASE /\ ~Suppressed /\ sdk' = [sdk EXCEPT !.run = None, !.sub = "result"]
           /\ chain' = Append(chain, Event("turn_ended", cur, "sub"))
           /\ UNCHANGED <<cur, tool, status, faults>>
  <2> USE <1>3 DEF SubscriberResult
  <2>1. sdk' \in SdkRecords /\ sdk'.run = None /\ sdk'.sub = "result" /\ sdk'.hook = sdk.hook /\ sdk'.inited
    BY <1>1, NumbersAreTyped DEF StateTypes, SdkRecords
  <2>2. cur # None /\ cur = count /\ sdk.run # Compact /\ queue.waits = <<>> /\ ~tool
    <3>1. sdk.run \in 1..Compact /\ Has(sdk.run)
      BY <1>1 DEF Has, StateTypes, SdkRecords, None, Compact
    <3>2. sdk.run = Compact => compact /\ cur = None
      BY <1>1, <3>1 DEF MessageInv, EndingInv, StateTypes, Has
    <3>3. sdk.run # Compact /\ sdk.run = cur
      BY <1>1, <3>1, <3>2 DEF MessageInv, Suppressed
    <3>4. queue.waits = <<>>
      BY <1>1 DEF MessageInv
    <3> QED BY <1>1, <3>3, <3>4 DEF StateTypes, EndingInv
  <2>3. PICK e \in EventRecords : e = Event("turn_ended", cur, "sub")
    BY EventIsTyped, NumbersAreTyped DEF EventKinds, Threads
  <2>4. chain' = Append(chain, e) /\ e.by = "sub" /\ e.kind = "turn_ended" /\ e.turn = cur
    BY <2>3 DEF Event
  <2>5. chain' \in Seq(EventRecords) /\ (\A x : Out(x)' <=> Out(x) /\ x # "sub")
    BY <2>4, OutOfAppend DEF StateTypes
  <2>6. StateTypes' /\ OwnerInv' /\ EndingInv'
    BY <2>1, <2>5 DEF StateTypes, OwnerInv, EndingInv
  <2>7. DeliveryInv' /\ ResultInv'
    BY <1>1, <2>1, <2>2 DEF DeliveryInv, ResultInv
  <2>8. MessageInv'
    <3>1. Summaries' = Summaries
      BY <2>4, OutOfAppend DEF Summaries, StateTypes
    <3>2. \A m \in 1..Compact : ~Has(m)'
      BY <2>1, <2>2 DEF Has, None
    <3> QED BY <1>1, <2>1, <2>2, <3>1, <3>2, BoundsAssumption DEF MessageInv, Compact
  <2>9. Out("fin")
    BY <1>1, CallersAssumption DEF ChainInv, Fits, Out, StateTypes, InChain
  <2>10. ChainInv'
    <3>1. \A x \in EventRecords : InChain(x) => Fits(x)'
      <4> SUFFICES ASSUME NEW x \in EventRecords, InChain(x), Fits(x) PROVE Fits(x)'
        BY DEF ChainInv
      <4>1. x.by # "sub"
        BY <1>1 DEF Out, InChain
      <4> QED BY <4>1 DEF Fits
    <3>2. Fits(e)'
      BY <1>1, <2>1, <2>2, <2>4, CallersAssumption DEF Fits
    <3> QED BY <1>1, <2>4, <2>9, <3>1, <3>2, ChainGrows DEF StateTypes
  <2>11. LogInv'
    BY <1>1, <2>1, <2>2, <2>5 DEF LogInv, ToolOut, TurnOut, Unsaid, EndIsOut, Turns, StateTypes
  <2> QED BY <2>6, <2>7, <2>8, <2>10, <2>11
<1> QED BY <1>2, <1>3 DEF SubscriberResult, Fault, Behaved

LEMMA SubscriberEndsTurnKeeps == ASSUME PromiseInv, SubscriberEndsTurn PROVE PromiseInv'
<1> USE DEF PromiseInv, SubscriberEndsTurn, threads, flags, TurnIsOver
<1>1. /\ sdk.sub = "result" /\ fin = "no" /\ cur = count /\ cur # None
      /\ queue.waits = <<>> /\ sdk.run = None /\ ~tool
      /\ \A c \in Callers : call[c].pc \notin {"delivered", "started"}
  BY DEF ResultInv, DeliveryInv, StateTypes
<1>2. /\ sdk' \in SdkRecords /\ sdk'.run = sdk.run /\ sdk'.sub = "free"
      /\ sdk'.hook = sdk.hook /\ sdk'.inited = sdk.inited
  BY DEF StateTypes, SdkRecords
<1>3. StateTypes' /\ OwnerInv' /\ EndingInv'
  BY <1>1, <1>2 DEF StateTypes, OwnerInv, EndingInv
<1>4. DeliveryInv' /\ ResultInv'
  BY <1>1, <1>2 DEF DeliveryInv, ResultInv
<1>5. MessageInv'
  BY <1>1, <1>2 DEF MessageInv, Has, Summaries, None
<1>6. ChainInv'
  <2>1. \A x \in EventRecords : InChain(x) => Fits(x)'
    <3> SUFFICES ASSUME NEW x \in EventRecords, InChain(x), Fits(x) PROVE Fits(x)'
      BY DEF ChainInv
    <3>1. x.by # "sub"
      BY DEF Out, InChain
    <3> QED BY <3>1 DEF Fits
  <2> QED BY <2>1, ChainStays
<1>7. LogInv'
  <2>1. \A x : Out(x)' <=> Out(x)
    BY DEF Out
  <2> QED BY <1>1, <1>2, <2>1 DEF LogInv, ToolOut, TurnOut, Unsaid, EndIsOut, Turns, StateTypes
<1> QED BY <1>3, <1>4, <1>5, <1>6, <1>7

LEMMA SdkDiesKeeps == ASSUME PromiseInv, SdkDies, Behaved PROVE PromiseInv'
<1> USE DEF PromiseInv, SdkDies, threads, flags
<1>1. sdk.sub = "free" /\ Out("sub") /\ \A c \in Callers : call[c].pc # "delivered"
  BY DEF SubscriberFree, EndInDelivery, Behaved
<1>2. sdk' \in SdkRecords /\ sdk'.run = None /\ sdk'.sub = "gone" /\ sdk'.hook = sdk.hook
  BY NumbersAreTyped DEF StateTypes, SdkRecords
<1>3. CASE Closed /\ UNCHANGED <<init, queue, chain, cur, fin>>
  <2> USE <1>3
  <2>1. StateTypes' /\ OwnerInv' /\ EndingInv'
    BY <1>2 DEF StateTypes, OwnerInv, EndingInv
  <2>2. DeliveryInv' /\ ResultInv'
    BY <1>1, <1>2 DEF DeliveryInv, ResultInv, Out
  <2>3. MessageInv'
    <3>1. \A m \in 1..Compact : Has(m)' => Has(m)
      BY <1>2 DEF Has, None
    <3>2. Summaries' = Summaries /\ Compact \in 1..Compact
      BY BoundsAssumption DEF Summaries, Compact
    <3> QED BY <1>2, <3>1, <3>2 DEF MessageInv
  <2>4. ChainInv'
    BY <1>1, <1>2, ChainStays DEF ChainInv, Fits
  <2>5. LogInv'
    BY <1>1, <1>2, SameTurns
  <2> QED BY <2>1, <2>2, <2>3, <2>4, <2>5
<1>4. CASE Fatal /\ init' = IF init = "ok" THEN init ELSE "failed"
  <2> USE <1>4
  <2>1. queue' \in [open : BOOLEAN, waits : Seq(1..Compact)] /\ ~queue'.open /\ queue'.waits = queue.waits
    BY DEF StateTypes, Fatal
  <2>2. /\ chain' \in Seq(EventRecords) /\ cur' \in {None, count} /\ fin' \in {"tool", "turn", "session", "done"}
        /\ EndingInv' /\ ChainInv' /\ LogInv'
    BY <1>1, <1>2, <2>1, FinalizeKeeps DEF Fatal
  <2>3. StateTypes' /\ OwnerInv'
    BY <1>2, <2>1, <2>2 DEF StateTypes, OwnerInv
  <2>4. DeliveryInv' /\ ResultInv' /\ MessageInv'
    BY <1>1, <1>2, <2>1, <2>2 DEF DeliveryInv, ResultInv, MessageInv, StateTypes
  <2> QED BY <2>2, <2>3, <2>4
<1> QED BY <1>3, <1>4

LEMMA SdkEndsKeeps == ASSUME PromiseInv, SdkEnds PROVE PromiseInv'
<1> USE DEF PromiseInv, SdkEnds, threads, flags
<1>1. /\ sdk' \in SdkRecords /\ sdk'.run = None /\ sdk.sub = "free"
      /\ sdk'.sub = "gone" /\ sdk'.hook = sdk.hook /\ sdk'.inited = sdk.inited
  BY NumbersAreTyped DEF StateTypes, SdkRecords, SubscriberFree
<1>2. StateTypes' /\ OwnerInv' /\ EndingInv'
  BY <1>1 DEF StateTypes, OwnerInv, EndingInv
<1>3. DeliveryInv' /\ ResultInv' /\ MessageInv'
  BY <1>1 DEF DeliveryInv, ResultInv, MessageInv, Out
<1>4. ChainInv'
  BY <1>1, ChainStays DEF ChainInv, Fits
<1>5. LogInv'
  BY <1>1, SameTurns
<1> QED BY <1>2, <1>3, <1>4, <1>5

-----------------------------------------------------------------------------
(* The end of the session                                                    *)

\* The end waits for its own event: by then the chain holds none of a thread's.
LEMMA FinalizerIsAlone ==
  ASSUME ChainInv, fin # "no", Out("fin"), chain \in Seq(EventRecords)
  PROVE  /\ \A e \in EventRecords : InChain(e) => e.by = "none" /\ e.kind = "compact_ended" /\ Fits(e)
         /\ \A x : x # "none" => Out(x)
<1>1. \A e \in EventRecords : InChain(e) => e.by = "none"
  BY DEF ChainInv, InChain
<1>2. \A e \in EventRecords : InChain(e) => e.kind = "compact_ended" /\ Fits(e)
  BY <1>1 DEF ChainInv, Fits
<1>3. \A i \in DOMAIN chain : chain[i] \in EventRecords /\ InChain(chain[i])
  BY DEF InChain
<1>4. \A x : x # "none" => Out(x)
  BY <1>1, <1>3 DEF Out
<1> QED BY <1>1, <1>2, <1>4

LEMMA FinalizeToolKeeps == ASSUME PromiseInv, FinalizeTool PROVE PromiseInv'
<1> USE DEF PromiseInv, FinalizeTool, threads, flags
<1>1. cur = count /\ cur # None /\ tool /\ sdk.sub # "result" /\ ~queue.open
  BY DEF EndingInv, ResultInv, StateTypes
<1>2. PICK e \in EventRecords : e = Event("turn_ended", cur, "fin")
  BY EventIsTyped, NumbersAreTyped DEF EventKinds, Threads
<1>3. chain' = Append(chain, e) /\ e.by = "fin" /\ e.kind = "turn_ended" /\ e.turn = cur
  BY <1>2 DEF Event
<1>4. chain' \in Seq(EventRecords) /\ (\A x : Out(x)' <=> Out(x) /\ x # "fin")
  BY <1>3, OutOfAppend DEF StateTypes
<1>5. /\ \A x \in EventRecords : InChain(x) => x.by = "none" /\ x.kind = "compact_ended"
      /\ \A x : x # "none" => Out(x)
  BY FinalizerIsAlone DEF StateTypes
<1>6. StateTypes' /\ OwnerInv' /\ EndingInv'
  BY <1>1, <1>4 DEF StateTypes, OwnerInv, EndingInv
<1>7. DeliveryInv' /\ ResultInv' /\ MessageInv'
  BY <1>1, <1>4 DEF DeliveryInv, ResultInv, MessageInv
<1>8. ChainInv'
  <2>1. \A x \in EventRecords : InChain(x) => Fits(x)'
    BY <1>5, CallersAssumption DEF Fits
  <2>2. Fits(e)'
    BY <1>1, <1>3, CallersAssumption DEF Fits, None
  <2> QED BY <1>3, <2>1, <2>2, ChainGrows DEF StateTypes
<1>9. LogInv'
  <2>1. "sub" \notin {"none"} /\ \A c \in Callers : Out(c)
    BY <1>5, CallersAssumption
  <2> QED BY <1>1, <1>4, <1>5, <2>1, CallersAssumption DEF LogInv, ToolOut, TurnOut, Unsaid, EndIsOut, Turns,
  StateTypes, DeliveryInv
<1> QED BY <1>6, <1>7, <1>8, <1>9

LEMMA FinalizeTurnKeeps == ASSUME PromiseInv, FinalizeTurn PROVE PromiseInv'
<1> USE DEF PromiseInv, FinalizeTurn, threads, flags
<1>1. cur = None /\ ~tool /\ sdk.sub # "result" /\ ~queue.open
  BY DEF EndingInv, ResultInv
<1>2. PICK e \in EventRecords : e = Event("session_ended", None, "fin")
  BY EventIsTyped, NumbersAreTyped DEF EventKinds, Threads
<1>3. chain' = Append(chain, e) /\ e.by = "fin" /\ e.kind = "session_ended"
  BY <1>2 DEF Event
<1>4. chain' \in Seq(EventRecords) /\ (\A x : Out(x)' <=> Out(x) /\ x # "fin")
  BY <1>3, OutOfAppend DEF StateTypes
<1>5. /\ \A x \in EventRecords : InChain(x) => x.by = "none" /\ x.kind = "compact_ended"
      /\ \A x : x # "none" => Out(x)
  BY FinalizerIsAlone DEF StateTypes
<1>6. StateTypes' /\ OwnerInv' /\ EndingInv'
  BY <1>1, <1>4 DEF StateTypes, OwnerInv, EndingInv
<1>7. DeliveryInv' /\ ResultInv' /\ MessageInv'
  BY <1>1, <1>4 DEF DeliveryInv, ResultInv, MessageInv
<1>8. ChainInv'
  <2>1. \A x \in EventRecords : InChain(x) => Fits(x)'
    BY <1>5, CallersAssumption DEF Fits
  <2>2. Fits(e)'
    BY <1>1, <1>3, CallersAssumption DEF Fits
  <2> QED BY <1>3, <2>1, <2>2, ChainGrows DEF StateTypes
<1>9. LogInv'
  <2>1. "sub" \notin {"none"} /\ \A c \in Callers : Out(c)
    BY <1>5, CallersAssumption
  <2> QED BY <1>1, <1>4, <1>5, <2>1, CallersAssumption DEF LogInv, ToolOut, TurnOut, Unsaid, EndIsOut, Turns,
  StateTypes, DeliveryInv
<1> QED BY <1>6, <1>7, <1>8, <1>9

LEMMA FinalizeSessionKeeps == ASSUME PromiseInv, FinalizeSession PROVE PromiseInv'
<1> USE DEF PromiseInv, FinalizeSession, threads, flags
<1>1. /\ \A x \in EventRecords : InChain(x) => x.by = "none" /\ x.kind = "compact_ended"
      /\ \A x : x # "none" => Out(x)
  BY FinalizerIsAlone DEF StateTypes
<1>2. (\A x : Out(x)' <=> Out(x)) /\ (\A x \in EventRecords : InChain(x)' <=> InChain(x))
  BY DEF Out, InChain
<1>3. StateTypes' /\ OwnerInv' /\ EndingInv'
  BY DEF StateTypes, OwnerInv, EndingInv
<1>4. DeliveryInv' /\ ResultInv' /\ MessageInv'
  BY DEF DeliveryInv, ResultInv, MessageInv, EndingInv
<1>5. ChainInv'
  BY <1>1, <1>2, CallersAssumption DEF ChainInv, Fits
<1>6. LogInv'
  BY <1>2 DEF LogInv, ToolOut, TurnOut, Unsaid, EndIsOut, Turns, StateTypes
<1> QED BY <1>3, <1>4, <1>5, <1>6

LEMMA CloseKeeps == ASSUME PromiseInv, NEW force \in BOOLEAN, Close(force) PROVE PromiseInv'
<1> USE DEF PromiseInv, Close, threads, flags
<1>1. StateTypes' /\ OwnerInv' /\ EndingInv'
  BY NumbersAreTyped DEF StateTypes, OwnerInv, EndingInv
<1>2. DeliveryInv' /\ ResultInv' /\ MessageInv'
  BY DEF DeliveryInv, ResultInv, MessageInv, Has, Summaries, Out
<1>3. ChainInv'
  BY ChainStays DEF ChainInv, Fits
<1>4. LogInv'
  BY SameTurns
<1> QED BY <1>1, <1>2, <1>3, <1>4

\* The fence falls: what the closer goes through.
LEMMA FenceKeeps ==
  ASSUME PromiseInv, closer' \in [pc : {"none", "entered", "wait", "grace", "done"}, force : BOOLEAN,
         turn : 0..MaxTurns],
         \/ closer'.pc = "wait" /\ UNCHANGED <<status, queue>>
         \/ Shut,
         UNCHANGED <<cur, count, tool, call, injecting, closing, init, fin, sdk, compact, chain, fails, log, told>>
  PROVE  PromiseInv'
<1> USE DEF PromiseInv
<1>1. /\ queue' \in [open : BOOLEAN, waits : Seq(1..Compact)] /\ queue'.waits = queue.waits
      /\ queue'.open => UNCHANGED <<status, queue>>
  BY DEF StateTypes, Shut
<1>2. StateTypes' /\ OwnerInv' /\ EndingInv'
  BY <1>1 DEF StateTypes, OwnerInv, EndingInv, Shut
<1>3. DeliveryInv' /\ ResultInv'
  BY <1>1 DEF DeliveryInv, ResultInv, Out
<1>4. MessageInv'
  BY <1>1 DEF MessageInv, Has, Summaries
<1>5. ChainInv'
  BY ChainStays DEF ChainInv, Fits
<1>6. LogInv'
  BY SameTurns
<1> QED BY <1>2, <1>3, <1>4, <1>5, <1>6

LEMMA CloseEntersKeeps == ASSUME PromiseInv, CloseEnters PROVE PromiseInv'
<1> USE DEF CloseEnters, flags
<1>1. closer' \in [pc : {"none", "entered", "wait", "grace", "done"}, force : BOOLEAN, turn : 0..MaxTurns]
  BY NumbersAreTyped DEF PromiseInv, StateTypes, Shut
<1>2. Shut \/ (closer'.pc = "wait" /\ UNCHANGED <<status, queue>>)
  BY DEF PromiseInv, StateTypes
<1> QED BY <1>1, <1>2, FenceKeeps

LEMMA CloseWaitsKeeps == ASSUME PromiseInv, CloseWaits PROVE PromiseInv'
<1> USE DEF CloseWaits
<1>1. closer' \in [pc : {"none", "entered", "wait", "grace", "done"}, force : BOOLEAN, turn : 0..MaxTurns]
  BY DEF PromiseInv, StateTypes, Shut
<1> QED BY <1>1, FenceKeeps

\* The subscriber has ended, or its grace has.
LEMMA CloseFinalizesKeeps == ASSUME PromiseInv, CloseFinalizes, Behaved PROVE PromiseInv'
<1> USE DEF PromiseInv, CloseFinalizes, flags
<1>1. sdk.sub # "result" /\ (\A c \in Callers : call[c].pc \notin {"delivered", "started"}) /\ ~queue.open
  BY DEF Patient, EndInDelivery, Behaved, EndingInv
<1>2. /\ chain' \in Seq(EventRecords) /\ cur' \in {None, count} /\ fin' \in {"tool", "turn", "session", "done"}
      /\ EndingInv' /\ ChainInv' /\ LogInv'
  BY <1>1, FinalizeKeeps DEF StateTypes
<1>3. StateTypes' /\ OwnerInv'
  BY <1>2 DEF StateTypes, OwnerInv
<1>4. DeliveryInv' /\ ResultInv' /\ MessageInv'
  BY <1>1, <1>2 DEF DeliveryInv, ResultInv, MessageInv
<1> QED BY <1>2, <1>3, <1>4

-----------------------------------------------------------------------------
(* inject, abortTurn, compact                                                *)

\* A call moves on without an event, short of the delivery.
LEMMA CallMoves ==
  ASSUME PromiseInv, call' \in [Callers -> CallRecords], injecting' \in BOOLEAN, OwnerInv',
         \A c \in Callers : call'[c].pc \in {"delivered", "started"} => call'[c] = call[c],
         \A c \in Callers : call[c].pc = "delivered" => call'[c].pc = "delivered",
         \A c \in Callers : call[c].pc = "started" => call'[c].pc = "started" \/ Out(c),
         \A c \in Callers : queue.open /\ call'[c].pc = "accepted" => cur = None,
         \A c \in Callers : queue.open /\ call'[c].pc = "interrupt" => cur \in {None, call'[c].turn},
         queue.open /\ compact => \A c \in Callers : call'[c].pc = "free",
         UNCHANGED <<status, cur, count, tool, closer, closing, init, fin, queue, sdk, compact, chain, fails, log,
         told>>
  PROVE  PromiseInv'
<1> USE DEF PromiseInv
<1>1. StateTypes' /\ EndingInv'
  BY DEF StateTypes, EndingInv
<1>2. \A x : Out(x)' <=> Out(x)
  BY DEF Out
<1>3. DeliveryInv' /\ ResultInv'
  BY <1>2 DEF DeliveryInv, ResultInv
<1>4. MessageInv'
  BY DEF MessageInv, Has, Summaries
<1>5. ChainInv'
  <2>1. \A x \in EventRecords : InChain(x) => Fits(x)'
    <3> SUFFICES ASSUME NEW x \in EventRecords, InChain(x), Fits(x) PROVE Fits(x)'
      BY DEF ChainInv
    <3>1. ~Out(x.by)
      BY DEF Out, InChain
    <3> QED BY <3>1 DEF Fits
  <2> QED BY <2>1, ChainStays
<1>6. LogInv'
  BY SameTurns
<1> QED BY <1>1, <1>3, <1>4, <1>5, <1>6

\* One call changes.
LEMMA OneCallChanges ==
  ASSUME call \in [Callers -> CallRecords], NEW c \in Callers, NEW r \in CallRecords, call' = [call EXCEPT ![c] = r]
  PROVE  call' \in [Callers -> CallRecords] /\ call'[c] = r /\ \A d \in Callers : d # c => call'[d] = call[d]
OBVIOUS

LEMMA InjectKeeps == ASSUME PromiseInv, NEW c \in Callers, Inject(c) PROVE PromiseInv'
<1>1. PICK r \in CallRecords : /\ call' = [call EXCEPT ![c] = r]
                               /\ r.pc \in {"asked", "refused"} /\ r.owner = ~injecting
  <2> DEFINE new == [pc |-> "asked", owner |-> ~injecting, turn |-> None]
  <2>1. new \in CallRecords /\ new.pc = "asked" /\ new.owner = ~injecting
    BY NumbersAreTyped DEF PromiseInv, StateTypes, CallRecords, CallPcs
  <2>2. call' = [call EXCEPT ![c] = new] \/ call' = [call EXCEPT ![c] = [new EXCEPT !.pc = "refused"]]
    BY DEF Inject
  <2> HIDE DEF new
  <2>3. [new EXCEPT !.pc = "refused"] \in CallRecords /\ [new EXCEPT !.pc = "refused"].pc = "refused"
        /\ [new EXCEPT !.pc = "refused"].owner = ~injecting
    BY <2>1 DEF CallRecords, CallPcs
  <2> QED BY <2>1, <2>2, <2>3
<1>2. call \in [Callers -> CallRecords]
  BY DEF PromiseInv, StateTypes
<1>3. call' \in [Callers -> CallRecords] /\ call'[c] = r /\ \A d \in Callers : d # c => call'[d] = call[d]
  BY <1>1, <1>2, OneCallChanges
<1>4. call[c].pc = "free" /\ injecting' = TRUE /\ ~compact
  BY DEF Inject
<1>5. OwnerInv'
  BY <1>1, <1>3, <1>4 DEF PromiseInv, OwnerInv
<1> QED
  BY <1>1, <1>3, <1>4, <1>5, CallMoves DEF Inject, PromiseInv, DeliveryInv

\* A call that returns gives the mutex back, if it is its owner.
LEMMA ReleaseKeeps ==
  ASSUME PromiseInv, NEW c \in Callers, Released(c), call[c].pc # "delivered", call[c].pc = "started" => Out(c)
  PROVE  /\ call' \in [Callers -> CallRecords] /\ injecting' \in BOOLEAN /\ OwnerInv'
         /\ call'[c].pc = "free" /\ \A d \in Callers : d # c => call'[d] = call[d]
<1>1. Idle \in CallRecords /\ Idle.pc = "free" /\ ~Idle.owner
  BY NumbersAreTyped DEF PromiseInv, Idle, CallRecords, CallPcs
<1>2. call' \in [Callers -> CallRecords] /\ call'[c] = Idle /\ \A d \in Callers : d # c => call'[d] = call[d]
  BY <1>1, OneCallChanges DEF PromiseInv, StateTypes, Released
<1>3. injecting' = IF call[c].owner THEN FALSE ELSE injecting
  BY DEF Released
<1>4. OwnerInv'
  BY <1>1, <1>2, <1>3 DEF PromiseInv, OwnerInv
<1>5. injecting' \in BOOLEAN
  BY <1>3 DEF PromiseInv, StateTypes
<1> QED BY <1>1, <1>2, <1>4, <1>5

LEMMA ReturnKeeps == ASSUME PromiseInv, NEW c \in Callers, Return(c) PROVE PromiseInv'
<1>1. Released(c) /\ call[c].pc \in {"refused", "lost"}
  BY DEF Return
<1>2. /\ call' \in [Callers -> CallRecords] /\ injecting' \in BOOLEAN /\ OwnerInv'
      /\ call'[c].pc = "free" /\ \A d \in Callers : d # c => call'[d] = call[d]
  BY <1>1, ReleaseKeeps
<1> QED BY <1>1, <1>2, CallMoves DEF Return, PromiseInv, DeliveryInv, MessageInv

\* The mutex lets one caller through at a time.
LEMMA AskedKeeps == ASSUME PromiseInv, NEW c \in Callers, Asked(c) PROVE PromiseInv'
<1> USE DEF PromiseInv
<1>1. call[c].pc = "asked" /\ (queue.open => ~compact)
  BY DEF Asked, MessageInv
<1>2. CASE Refuse(c)
  <2>1. /\ call' \in [Callers -> CallRecords] /\ injecting' \in BOOLEAN /\ OwnerInv'
        /\ call'[c].pc = "free" /\ \A d \in Callers : d # c => call'[d] = call[d]
    BY <1>1, <1>2, ReleaseKeeps DEF Refuse
  <2> QED BY <1>1, <2>1, CallMoves DEF Asked, DeliveryInv
<1>3. CASE /\ MayDeliver(c) /\ UNCHANGED injecting
           /\ call' = [call EXCEPT ![c] = IF status = "streaming" THEN [@ EXCEPT !.pc = "interrupt", !.turn = cur]
                                          ELSE [@ EXCEPT !.pc = "accepted"]]
  <2>1. PICK r \in CallRecords : /\ call' = [call EXCEPT ![c] = r] /\ r.owner
                                 /\ \/ status = "streaming" /\ r.pc = "interrupt" /\ r.turn = cur
                                    \/ status # "streaming" /\ r.pc = "accepted"
    <3>1. call[c] \in CallRecords /\ call[c].owner
      BY <1>3 DEF StateTypes, MayDeliver
    <3>2. [call[c] EXCEPT !.pc = "interrupt", !.turn = cur] \in CallRecords
      BY <3>1, NumbersAreTyped DEF CallRecords, CallPcs
    <3>3. [call[c] EXCEPT !.pc = "accepted"] \in CallRecords
      BY <3>1 DEF CallRecords, CallPcs
    <3>4. CASE status = "streaming"
      <4>1. call' = [call EXCEPT ![c] = [call[c] EXCEPT !.pc = "interrupt", !.turn = cur]]
        BY <1>3, <3>4 DEF StateTypes
      <4> QED BY <3>1, <3>2, <3>4, <4>1 DEF CallRecords
    <3>5. CASE status # "streaming"
      <4>1. call' = [call EXCEPT ![c] = [call[c] EXCEPT !.pc = "accepted"]]
        BY <1>3, <3>5 DEF StateTypes
      <4> QED BY <3>1, <3>3, <3>5, <4>1 DEF CallRecords
    <3> QED BY <3>4, <3>5
  <2>2. call' \in [Callers -> CallRecords] /\ call'[c] = r /\ \A d \in Callers : d # c => call'[d] = call[d]
    BY <2>1, OneCallChanges DEF StateTypes
  <2>3. OwnerInv'
    BY <1>1, <1>3, <2>1, <2>2 DEF OwnerInv, MayDeliver
  <2>4. queue.open /\ status # "streaming" => cur = None
    BY DEF EndingInv
  <2> QED BY <1>1, <1>3, <2>1, <2>2, <2>3, <2>4, CallMoves DEF Asked, DeliveryInv, StateTypes
<1> QED BY <1>2, <1>3 DEF Asked

\* The turn that was interrupted is over, or the session is stuck.
LEMMA InterruptedKeeps == ASSUME PromiseInv, NEW c \in Callers, Interrupted(c) PROVE PromiseInv'
<1> USE DEF PromiseInv
<1>1. call[c].pc = "interrupt" /\ call[c].owner /\ (queue.open => ~compact)
  BY DEF Interrupted, MessageInv, OwnerInv
<1>2. CASE Refuse(c)
  <2>1. /\ call' \in [Callers -> CallRecords] /\ injecting' \in BOOLEAN /\ OwnerInv'
        /\ call'[c].pc = "free" /\ \A d \in Callers : d # c => call'[d] = call[d]
    BY <1>1, <1>2, ReleaseKeeps DEF Refuse
  <2> QED BY <1>1, <2>1, CallMoves DEF Interrupted, DeliveryInv
<1>3. CASE /\ cur # call[c].turn /\ UNCHANGED <<stuck, injecting>>
           /\ call' = [call EXCEPT ![c].pc = "accepted", ![c].turn = None]
  <2>1. PICK r \in CallRecords : call' = [call EXCEPT ![c] = r] /\ r.owner /\ r.pc = "accepted"
    <3>1. call' = [call EXCEPT ![c] = [call[c] EXCEPT !.pc = "accepted", !.turn = None]]
      BY <1>3 DEF StateTypes
    <3>2. call[c] \in CallRecords
      BY DEF StateTypes
    <3>3. [call[c] EXCEPT !.pc = "accepted", !.turn = None] \in CallRecords
      BY <3>2, NumbersAreTyped DEF CallRecords, CallPcs
    <3> QED BY <1>1, <3>1, <3>2, <3>3 DEF CallRecords
  <2>2. call' \in [Callers -> CallRecords] /\ call'[c] = r /\ \A d \in Callers : d # c => call'[d] = call[d]
    BY <2>1, OneCallChanges DEF StateTypes
  <2>3. OwnerInv'
    BY <1>1, <1>3, <2>1, <2>2 DEF OwnerInv
  <2> QED BY <1>1, <1>3, <2>1, <2>2, <2>3, CallMoves DEF Interrupted, DeliveryInv, StateTypes
<1> QED BY <1>2, <1>3 DEF Interrupted

LEMMA AbortTurnKeeps == ASSUME PromiseInv, NEW c \in Callers, AbortTurn(c) PROVE PromiseInv'
<1> USE DEF PromiseInv, AbortTurn, flags
<1>1. PICK r \in CallRecords : call' = [call EXCEPT ![c] = r] /\ r.owner = call[c].owner /\ r.pc = "abort"
  <2>1. call[c] \in CallRecords /\ call' = [call EXCEPT ![c] = [call[c] EXCEPT !.pc = "abort"]]
    BY DEF StateTypes
  <2>2. [call[c] EXCEPT !.pc = "abort"] \in CallRecords
    BY <2>1 DEF CallRecords, CallPcs
  <2> QED BY <2>1, <2>2 DEF CallRecords
<1>2. call' \in [Callers -> CallRecords] /\ call'[c] = r /\ \A d \in Callers : d # c => call'[d] = call[d]
  BY <1>1, OneCallChanges DEF StateTypes
<1>3. OwnerInv'
  BY <1>1, <1>2 DEF OwnerInv
<1> QED BY <1>1, <1>2, <1>3, CallMoves DEF DeliveryInv, StateTypes, MessageInv

LEMMA AbortWaitsKeeps == ASSUME PromiseInv, NEW c \in Callers, AbortWaits(c) PROVE PromiseInv'
<1> USE DEF PromiseInv, AbortWaits, flags
<1>1. PICK r \in CallRecords : /\ call' = [call EXCEPT ![c] = r]
                               /\ (r.owner => call[c].owner) /\ r.pc \in {"free", "aborting"}
                               /\ (r.pc = "free" => ~r.owner)
  <2>1. call[c] \in CallRecords /\ Idle \in CallRecords /\ Idle.pc = "free" /\ ~Idle.owner
    BY NumbersAreTyped DEF StateTypes, Idle, CallRecords, CallPcs
  <2>2. [call[c] EXCEPT !.pc = "aborting", !.turn = cur] \in CallRecords
    BY <2>1, NumbersAreTyped DEF CallRecords, CallPcs
  <2>3. \/ call' = [call EXCEPT ![c] = Idle]
        \/ call' = [call EXCEPT ![c] = [call[c] EXCEPT !.pc = "aborting", !.turn = cur]]
    BY DEF StateTypes
  <2> QED BY <2>1, <2>2, <2>3 DEF CallRecords
<1>2. call' \in [Callers -> CallRecords] /\ call'[c] = r /\ \A d \in Callers : d # c => call'[d] = call[d]
  BY <1>1, OneCallChanges DEF StateTypes
<1>3. OwnerInv'
  BY <1>1, <1>2 DEF OwnerInv
<1> QED BY <1>1, <1>2, <1>3, CallMoves DEF DeliveryInv, StateTypes, MessageInv

LEMMA AbortEndsKeeps == ASSUME PromiseInv, NEW c \in Callers, AbortEnds(c) PROVE PromiseInv'
<1> USE DEF PromiseInv, AbortEnds
<1>1. Idle \in CallRecords /\ Idle.pc = "free" /\ ~Idle.owner
  BY NumbersAreTyped DEF Idle, CallRecords, CallPcs
<1>2. call' \in [Callers -> CallRecords] /\ call'[c] = Idle /\ \A d \in Callers : d # c => call'[d] = call[d]
  BY <1>1, OneCallChanges DEF StateTypes
<1>3. OwnerInv'
  BY <1>1, <1>2 DEF OwnerInv
<1> QED BY <1>1, <1>2, <1>3, CallMoves DEF DeliveryInv, StateTypes, MessageInv

\* Who delivers does so alone, to an SDK with nothing to work on.
LEMMA DelivererIsAlone ==
  ASSUME PromiseInv, NEW c \in Callers, call[c].pc \in {"interrupt", "accepted", "delivered", "started", "lost"}
  PROVE  /\ call[c].owner
         /\ \A d \in Callers : d # c => call[d].pc \notin {"interrupt", "accepted", "delivered", "started", "lost"}
BY DEF PromiseInv, OwnerInv

LEMMA AcceptedKeeps == ASSUME PromiseInv, NEW c \in Callers, Accepted(c) PROVE PromiseInv'
<1> USE DEF PromiseInv
<1>1. call[c].pc = "accepted" /\ call[c].owner /\ (queue.open => ~compact)
      /\ \A d \in Callers : d # c => call[d].pc \notin {"interrupt", "accepted", "delivered", "started", "lost"}
  BY DelivererIsAlone DEF Accepted, MessageInv
<1>2. CASE Refuse(c) /\ UNCHANGED <<count, cur, status, tool>>
  <2>1. /\ call' \in [Callers -> CallRecords] /\ injecting' \in BOOLEAN /\ OwnerInv'
        /\ call'[c].pc = "free" /\ \A d \in Callers : d # c => call'[d] = call[d]
    BY <1>1, <1>2, ReleaseKeeps DEF Refuse
  <2> QED BY <1>1, <1>2, <2>1, CallMoves DEF Accepted, DeliveryInv
<1>3. CASE /\ queue.open /\ count < MaxTurns
           /\ count' = count + 1 /\ cur' = count + 1 /\ tool' = FALSE /\ status' = "streaming"
           /\ call' = [call EXCEPT ![c].pc = "delivered", ![c].turn = count + 1]
           /\ UNCHANGED <<faults, injecting>>
  <2> USE <1>3 DEF Accepted
  <2>1. /\ count' \in 0..MaxTurns /\ count' # 0 /\ count' \notin told
        /\ count \in Nat /\ told \subseteq 1..count' /\ count' # None
    BY BoundsAssumption DEF StateTypes, None
  <2>2. /\ fin = "no" /\ cur = None /\ sdk.sub # "result"
        /\ ~tool /\ init # "armed" /\ status \notin {"closing", "closed"}
    BY <1>1 DEF EndingInv, DeliveryInv, ResultInv
  <2>3. queue.waits = <<>> /\ sdk.run = None /\ (\A m \in 1..Compact : ~Has(m)) /\ ~sdk.hook /\ Summaries = {}
    <3>1. \A m \in 1..Compact : ~Has(m)
      BY <1>1, <2>2 DEF MessageInv, None
    <3>2. sdk.run = None
      BY <3>1 DEF Has, StateTypes, SdkRecords, None, Compact
    <3>3. queue.waits = <<>>
      <4> SUFFICES ASSUME queue.waits # <<>> PROVE FALSE
        OBVIOUS
      <4>1. queue.waits \in Seq(1..Compact)
        BY DEF StateTypes
      <4> DEFINE messages == 1..Compact
      <4>2. queue.waits \in Seq(messages)
        BY <4>1
      <4> HIDE DEF messages
      <4>3. queue.waits[1] \in messages /\ 1 \in DOMAIN queue.waits
        BY <4>2, HeadAndTail
      <4> QED BY <3>1, <4>3 DEF Has, messages
    <3> QED BY <1>1, <3>1, <3>2, <3>3 DEF MessageInv
  <2>4. PICK r \in CallRecords : /\ call' = [call EXCEPT ![c] = r] /\ r.owner
                                 /\ r.pc = "delivered" /\ r.turn = count'
    <3>1. call' = [call EXCEPT ![c] = [call[c] EXCEPT !.pc = "delivered", !.turn = count + 1]]
      BY DEF StateTypes
    <3>2. call[c] \in CallRecords
      BY DEF StateTypes
    <3>3. [call[c] EXCEPT !.pc = "delivered", !.turn = count + 1] \in CallRecords
      BY <2>1, <3>2 DEF CallRecords, CallPcs
    <3> QED BY <1>1, <3>1, <3>2, <3>3 DEF CallRecords
  <2>5. call' \in [Callers -> CallRecords] /\ call'[c] = r /\ \A d \in Callers : d # c => call'[d] = call[d]
    BY <2>4, OneCallChanges DEF StateTypes
  <2>6. StateTypes' /\ OwnerInv' /\ EndingInv'
    BY <1>1, <2>1, <2>2, <2>4, <2>5 DEF StateTypes, OwnerInv, EndingInv
  <2>7. (\A x \in EventRecords : InChain(x) => x.by = "none") /\ \A x : x # "none" => Out(x)
    <3>1. ASSUME NEW x \in EventRecords, InChain(x) PROVE x.by = "none"
      <4>1. Fits(x)
        BY <3>1 DEF ChainInv
      <4> QED BY <4>1, <1>1, <2>2 DEF Fits, EventRecords, Threads
    <3>2. \A i \in DOMAIN chain : chain[i] \in EventRecords /\ InChain(chain[i])
      BY DEF InChain, StateTypes
    <3> QED BY <3>1, <3>2 DEF Out
  <2>8. c # "none" /\ "sub" # "none" /\ \A x : Out(x)' <=> Out(x)
    BY CallersAssumption DEF Out
  <2>9. DeliveryInv' /\ ResultInv'
    BY <1>1, <2>1, <2>2, <2>3, <2>4, <2>5, <2>7, <2>8 DEF DeliveryInv, ResultInv
  <2>10. MessageInv'
    <3>1. (\A m \in 1..Compact : ~Has(m)') /\ Summaries' = {}
      BY <2>3 DEF Has, Summaries
    <3> QED BY <1>1, <2>3, <3>1 DEF MessageInv
  <2>11. ChainInv'
    <3>1. \A x \in EventRecords : InChain(x) => Fits(x)'
      BY <2>7, CallersAssumption DEF ChainInv, Fits
    <3> QED BY <3>1, ChainStays
  <2>12. LogInv'
    <3>1. Unsaid' /\ ~Unsaid
      BY <1>1, <2>4, <2>5 DEF Unsaid
    <3>2. ToolOut' = ToolOut
      BY <2>2, <2>8 DEF ToolOut, StateTypes
    <3>3. ASSUME NEW u \in Turns PROVE TurnOut(u)' = TurnOut(u)
      BY <2>1, <2>2, <3>1 DEF TurnOut, EndIsOut, Turns, None
    <3> QED BY <3>2, <3>3 DEF LogInv, Turns
  <2> QED BY <2>6, <2>9, <2>10, <2>11, <2>12
<1> QED BY <1>2, <1>3 DEF Accepted

\* turn_started is submitted.
LEMMA DeliveredKeeps == ASSUME PromiseInv, NEW c \in Callers, Delivered(c) PROVE PromiseInv'
<1> USE DEF PromiseInv, Delivered, flags
<1>1. /\ call[c].pc = "delivered" /\ call[c].owner /\ call[c].turn = count /\ fin = "no" /\ Out(c)
      /\ \A d \in Callers : d # c => call[d].pc \notin {"interrupt", "accepted", "delivered", "started", "lost"}
  BY DelivererIsAlone DEF DeliveryInv
<1>2. PICK e \in EventRecords : e = Event("turn_started", count, c)
  BY EventIsTyped, NumbersAreTyped DEF EventKinds, Threads
<1>3. chain' = Append(chain, e) /\ e.by = c /\ e.kind = "turn_started" /\ e.turn = count
  BY <1>1, <1>2 DEF Event
<1>4. chain' \in Seq(EventRecords) /\ (\A x : Out(x)' <=> Out(x) /\ x # c)
  BY <1>3, OutOfAppend DEF StateTypes
<1>5. PICK r \in CallRecords : call' = [call EXCEPT ![c] = r] /\ r.owner /\ r.pc = "started" /\ r.turn = count
  <2>1. call[c] \in CallRecords /\ call' = [call EXCEPT ![c] = [call[c] EXCEPT !.pc = "started"]]
    BY DEF StateTypes
  <2>2. [call[c] EXCEPT !.pc = "started"] \in CallRecords
    BY <2>1 DEF CallRecords, CallPcs
  <2> QED BY <1>1, <2>1, <2>2 DEF CallRecords
<1>6. call' \in [Callers -> CallRecords] /\ call'[c] = r /\ \A d \in Callers : d # c => call'[d] = call[d]
  BY <1>5, OneCallChanges DEF StateTypes
<1>7. StateTypes' /\ OwnerInv' /\ EndingInv'
  BY <1>1, <1>4, <1>5, <1>6 DEF StateTypes, OwnerInv, EndingInv
<1>8. c \notin {"sub", "fin", "none"}
  BY CallersAssumption
<1>9. DeliveryInv' /\ ResultInv'
  BY <1>1, <1>4, <1>5, <1>6 DEF DeliveryInv, ResultInv
<1>10. MessageInv'
  <2>1. Summaries' = Summaries
    BY <1>3, OutOfAppend DEF Summaries, StateTypes
  <2> QED BY <1>1, <2>1 DEF MessageInv, Has
<1>11. Out("fin")
  BY <1>1, CallersAssumption DEF ChainInv, Fits, Out, StateTypes, InChain
<1>12. ChainInv'
  <2>1. \A x \in EventRecords : InChain(x) => Fits(x)'
    <3> SUFFICES ASSUME NEW x \in EventRecords, InChain(x), Fits(x) PROVE Fits(x)'
      BY DEF ChainInv
    <3>1. x.by # c
      BY <1>1 DEF Out, InChain
    <3> QED BY <1>6, <3>1 DEF Fits
  <2>2. Fits(e)'
    BY <1>1, <1>3, <1>5, <1>6, <1>8 DEF Fits
  <2> QED BY <1>1, <1>3, <1>11, <2>1, <2>2, ChainGrows DEF StateTypes
<1>13. LogInv'
  <2>1. Unsaid /\ Unsaid'
    BY <1>1, <1>4, <1>5, <1>6 DEF Unsaid
  <2> QED BY <1>4, <1>8, <2>1 DEF LogInv, ToolOut, TurnOut, EndIsOut, Turns
<1> QED BY <1>7, <1>9, <1>10, <1>12, <1>13

\* The message is pushed, or the session is over.
LEMMA StartedKeeps == ASSUME PromiseInv, NEW c \in Callers, Started(c) PROVE PromiseInv'
<1> USE DEF PromiseInv
<1>1. /\ call[c].pc = "started" /\ Out(c) /\ call[c].owner /\ call[c].turn = count /\ count # 0 /\ count \notin told
      /\ queue.waits = <<>> /\ sdk.run = None /\ sdk.sub # "result"
      /\ \A d \in Callers : d # c => call[d].pc \notin {"interrupt", "accepted", "delivered", "started", "lost"}
  BY DelivererIsAlone DEF DeliveryInv, Started
<1>2. CASE /\ Push(call[c].turn) /\ told' = told \cup {call[c].turn}
           /\ Released(c) /\ UNCHANGED <<chain, cur, fin>>
  <2> USE <1>2 DEF Started
  <2>1. /\ queue.open /\ fin = "no" /\ cur = count /\ ~compact
        /\ count \in 1..MaxTurns /\ count \in 1..Compact /\ count # Compact
    BY <1>1, BoundsAssumption DEF Push, EndingInv, DeliveryInv, MessageInv, StateTypes, Compact
  <2>2. queue' \in [open : BOOLEAN, waits : Seq(1..Compact)] /\ queue'.waits = <<count>> /\ queue'.open
    <3>1. <<count>> \in Seq(1..Compact) /\ queue' = [queue EXCEPT !.waits = <<count>>]
      BY <1>1, <2>1 DEF Push
    <3> QED BY <2>1, <3>1 DEF StateTypes
  <2>3. /\ call' \in [Callers -> CallRecords] /\ injecting' \in BOOLEAN /\ OwnerInv'
        /\ call'[c].pc = "free" /\ \A d \in Callers : d # c => call'[d] = call[d]
    BY <1>1, ReleaseKeeps
  <2>4. StateTypes' /\ EndingInv'
    BY <1>1, <2>1, <2>2, <2>3 DEF StateTypes, EndingInv
  <2>5. DeliveryInv' /\ ResultInv'
    BY <1>1, <2>1, <2>2, <2>3 DEF DeliveryInv, ResultInv, None
  <2>6. MessageInv'
    <3>1. \A m \in 1..Compact : Has(m)' => m = count
      BY <1>1, <2>2 DEF Has, None
    <3>2. ~sdk.hook /\ Summaries = {} /\ Summaries' = Summaries /\ Compact \in 1..Compact
      BY <2>1, BoundsAssumption DEF MessageInv, Summaries, Compact
    <3>3. Len(<<count>>) = 1
      OBVIOUS
    <3> QED BY <1>1, <2>1, <2>2, <3>1, <3>2, <3>3 DEF MessageInv
  <2>7. ChainInv'
    <3>1. \A x \in EventRecords : InChain(x) => Fits(x)'
      <4> SUFFICES ASSUME NEW x \in EventRecords, InChain(x), Fits(x) PROVE Fits(x)'
        BY DEF ChainInv
      <4>1. x.by # c
        BY <1>1 DEF Out, InChain
      <4> QED BY <2>3, <4>1 DEF Fits
    <3> QED BY <3>1, ChainStays
  <2>8. LogInv'
    BY <1>1, <2>3, SameTurns
  <2> QED BY <2>3, <2>4, <2>5, <2>6, <2>7, <2>8
<1>3. CASE Fatal /\ call' = [call EXCEPT ![c].pc = "lost"] /\ UNCHANGED <<told, injecting>>
  <2> USE <1>3 DEF Started
  <2>1. PICK r \in CallRecords : call' = [call EXCEPT ![c] = r] /\ r.owner /\ r.pc = "lost"
    <3>1. call[c] \in CallRecords /\ call' = [call EXCEPT ![c] = [call[c] EXCEPT !.pc = "lost"]]
      BY DEF StateTypes
    <3>2. [call[c] EXCEPT !.pc = "lost"] \in CallRecords
      BY <3>1 DEF CallRecords, CallPcs
    <3> QED BY <1>1, <3>1, <3>2 DEF CallRecords
  <2>2. call' \in [Callers -> CallRecords] /\ call'[c] = r /\ \A d \in Callers : d # c => call'[d] = call[d]
    BY <2>1, OneCallChanges DEF StateTypes
  <2>3. queue' \in [open : BOOLEAN, waits : Seq(1..Compact)] /\ ~queue'.open
    BY DEF StateTypes, Fatal
  <2>4. /\ chain' \in Seq(EventRecords) /\ cur' \in {None, count} /\ fin' \in {"tool", "turn", "session", "done"}
        /\ EndingInv' /\ ChainInv' /\ LogInv'
    BY <1>1, <2>1, <2>2, <2>3, FinalizeKeeps DEF Fatal
  <2>5. StateTypes' /\ OwnerInv'
    BY <1>1, <2>1, <2>2, <2>3, <2>4 DEF StateTypes, OwnerInv
  <2>6. DeliveryInv' /\ ResultInv' /\ MessageInv'
    BY <1>1, <2>1, <2>2, <2>3, <2>4 DEF DeliveryInv, ResultInv, MessageInv
  <2> QED BY <2>4, <2>5, <2>6
<1> QED BY <1>2, <1>3 DEF Started

\* /compact is pushed to a session at rest.
LEMMA CompactBeginKeeps == ASSUME PromiseInv, CompactBegin PROVE PromiseInv'
<1> USE DEF PromiseInv, CompactBegin, threads, flags
<1>1. queue.open /\ cur = None /\ ~compact /\ \A c \in Callers : call[c].pc = "free"
  BY DEF Push, EndingInv
<1>2. fin = "no" /\ sdk.sub # "result" /\ init # "armed"
  BY <1>1 DEF EndingInv, ResultInv
<1>3. queue.waits = <<>> /\ sdk.run = None /\ ~sdk.hook /\ Summaries = {}
  <2>1. \A m \in 1..Compact : ~Has(m)
    BY <1>1 DEF MessageInv, None
  <2>2. sdk.run = None
    BY <2>1 DEF Has, StateTypes, SdkRecords, None, Compact
  <2>3. queue.waits = <<>>
    <3> SUFFICES ASSUME queue.waits # <<>> PROVE FALSE
      OBVIOUS
    <3>1. queue.waits \in Seq(1..Compact)
      BY DEF StateTypes
    <3>2. queue.waits[1] \in 1..Compact /\ 1 \in DOMAIN queue.waits
      BY <3>1, HeadAndTail
    <3> QED BY <2>1, <3>2 DEF Has
  <2> QED BY <1>1, <2>2, <2>3 DEF MessageInv
<1>4. queue' \in [open : BOOLEAN, waits : Seq(1..Compact)] /\ queue'.waits = <<Compact>> /\ queue'.open
  <2>1. Compact \in 1..Compact
    BY BoundsAssumption DEF Compact
  <2>2. <<Compact>> \in Seq(1..Compact) /\ queue' = [queue EXCEPT !.waits = <<Compact>>]
    BY <1>3, <2>1 DEF Push
  <2> QED BY <1>1, <2>2 DEF StateTypes
<1>5. StateTypes' /\ OwnerInv' /\ EndingInv'
  BY <1>1, <1>2, <1>4 DEF StateTypes, OwnerInv, EndingInv
<1>6. DeliveryInv' /\ ResultInv'
  BY <1>1, <1>2, <1>4 DEF DeliveryInv, ResultInv
<1>7. MessageInv'
  <2>1. \A m \in 1..Compact : Has(m)' => m = Compact
    BY <1>3, <1>4 DEF Has, None
  <2>2. Summaries' = Summaries /\ Len(<<Compact>>) = 1
    BY DEF Summaries
  <2> QED BY <1>1, <1>3, <1>4, <2>1, <2>2 DEF MessageInv
<1>8. ChainInv'
  BY ChainStays DEF ChainInv, Fits
<1>9. LogInv'
  BY SameTurns
<1> QED BY <1>5, <1>6, <1>7, <1>8, <1>9

\* compact_ended is submitted, once.
LEMMA PostCompactKeeps == ASSUME PromiseInv, PostCompact, Behaved PROVE PromiseInv'
<1> USE DEF PromiseInv, PostCompact, threads, flags
<1>1. sdk.hook /\ (queue.open => compact /\ ~Has(Compact) /\ Summaries = {})
  BY DEF MessageInv, Fault, Behaved
<1>2. /\ sdk' \in SdkRecords /\ sdk'.run = sdk.run /\ sdk'.sub = sdk.sub
      /\ sdk'.hook = FALSE /\ sdk'.inited = sdk.inited
  BY DEF StateTypes, SdkRecords
<1>3. PICK e \in EventRecords : e = Event("compact_ended", None, "none")
  BY EventIsTyped, NumbersAreTyped DEF EventKinds, Threads
<1>4. chain' = Append(chain, e) /\ e.by = "none" /\ e.kind = "compact_ended"
  BY <1>3 DEF Event
<1>5. chain' \in Seq(EventRecords) /\ (\A x : Out(x)' <=> Out(x) /\ x # "none")
  BY <1>4, OutOfAppend DEF StateTypes
<1>6. StateTypes' /\ OwnerInv' /\ EndingInv'
  BY <1>2, <1>5 DEF StateTypes, OwnerInv, EndingInv
<1>7. \A c \in Callers : c # "none"
  BY CallersAssumption
<1>8. DeliveryInv' /\ ResultInv'
  BY <1>2, <1>5, <1>7 DEF DeliveryInv, ResultInv
<1>9. MessageInv'
  <2>1. queue.open => Summaries' = {Len(chain) + 1}
    BY <1>1, <1>4, OutOfAppend DEF Summaries, StateTypes
  <2>2. \A m : Has(m)' <=> Has(m)
    BY <1>2 DEF Has
  <2> QED BY <1>1, <1>2, <2>1, <2>2 DEF MessageInv
<1>10. ChainInv'
  <2>1. \A x \in EventRecords : InChain(x) => Fits(x)'
    BY <1>2 DEF ChainInv, Fits
  <2>2. Fits(e)'
    BY <1>4, <1>7 DEF Fits
  <2> QED BY <1>4, <2>1, <2>2, ChainGrows DEF StateTypes
<1>11. LogInv'
  BY <1>2, <1>5, <1>7 DEF LogInv, ToolOut, TurnOut, Unsaid, EndIsOut, Turns
<1> QED BY <1>6, <1>8, <1>9, <1>10, <1>11

LEMMA CompactTimesOutKeeps == ASSUME PromiseInv, CompactTimesOut, Behaved PROVE PromiseInv'
<1> USE DEF PromiseInv, CompactTimesOut, threads, flags
<1>1. ~queue.open
  BY DEF Fault, Behaved
<1>2. StateTypes'
  <2>1. compact' \in BOOLEAN
    OBVIOUS
  <2> QED BY <2>1 DEF StateTypes
<1>3. OwnerInv' /\ EndingInv'
  BY DEF OwnerInv, EndingInv
<1>4. DeliveryInv' /\ ResultInv' /\ MessageInv'
  BY <1>1 DEF DeliveryInv, ResultInv, MessageInv, Out
<1>5. ChainInv'
  BY ChainStays DEF ChainInv, Fits
<1>6. LogInv'
  BY SameTurns
<1> QED BY <1>2, <1>3, <1>4, <1>5, <1>6

-----------------------------------------------------------------------------
(* What comes out                                                            *)

\* The event that comes out is the only one of its thread.
LEMMA EmitsOne ==
  ASSUME PromiseInv, DoEmit, NEW e, e = Head(chain)
  PROVE  /\ e \in EventRecords /\ Fits(e) /\ chain' \in Seq(EventRecords) /\ (e.by # "none" => ~Out(e.by))
         /\ \A x : x # "none" => (Out(x)' <=> Out(x) \/ x = e.by)
         /\ \A x \in EventRecords : InChain(x)' => InChain(x) /\ (x.by = "none" \/ x.by # e.by)
         /\ (fin # "no" /\ e.by # "none" => ~Out("fin"))
         /\ (e.by = "fin" => \A x : x \notin {"none", "fin"} => Out(x))
<1>1. chain \in Seq(EventRecords) /\ chain # <<>> /\ chain' = Tail(chain)
  BY DEF PromiseInv, StateTypes, DoEmit
<1>2. /\ chain' \in Seq(EventRecords) /\ 1 \in DOMAIN chain /\ chain[1] = e /\ e \in EventRecords
      /\ \A i \in DOMAIN chain' : i + 1 \in DOMAIN chain /\ i + 1 > 1 /\ chain'[i] = chain[i + 1]
      /\ \A i \in DOMAIN chain : i = 1 \/ (i - 1 \in DOMAIN chain' /\ chain'[i - 1] = chain[i])
      /\ \A i \in DOMAIN chain : i \in Nat
      /\ \A i \in DOMAIN chain' : i \in Nat
  BY <1>1, OutOfTail
<1>3. /\ \A i, j \in DOMAIN chain : chain[i].by = chain[j].by /\ chain[i].by # "none" => i = j
      /\ \A i, j \in DOMAIN chain : i < j /\ chain[i].by = "fin" => chain[j].by = "none"
  BY DEF PromiseInv, ChainInv
<1>4. Fits(e)
  BY <1>2 DEF PromiseInv, ChainInv, InChain
<1>5. e.by # "none" => ~Out(e.by)
  BY <1>2 DEF Out
<1>6. ASSUME NEW x, x # "none" PROVE Out(x)' <=> Out(x) \/ x = e.by
  <2>1. ASSUME Out(x)' PROVE Out(x) \/ x = e.by
    <3> SUFFICES ASSUME NEW i \in DOMAIN chain, chain[i].by = x, i # 1 PROVE FALSE
      BY <1>2 DEF Out
    <3> QED BY <1>2, <2>1 DEF Out
  <2>2. ASSUME Out(x) PROVE Out(x)'
    BY <1>2, <2>2 DEF Out
  <2>3. ASSUME x = e.by PROVE Out(x)'
    <3> SUFFICES ASSUME NEW i \in DOMAIN chain', chain'[i].by = x PROVE FALSE
      BY DEF Out
    <3>1. i + 1 \in DOMAIN chain /\ chain[i + 1].by = chain[1].by /\ i + 1 # 1
      BY <1>2, <2>3
    <3> QED BY <1>2, <1>3, <1>6, <2>3, <3>1
  <2> QED BY <2>1, <2>2, <2>3
<1>7. ASSUME NEW x \in EventRecords, InChain(x)' PROVE InChain(x) /\ (x.by = "none" \/ x.by # e.by)
  <2>1. PICK i \in DOMAIN chain' : chain'[i] = x
    BY <1>7 DEF InChain
  <2>2. i + 1 \in DOMAIN chain /\ chain[i + 1] = x /\ i + 1 # 1
    BY <1>2, <2>1
  <2> QED BY <1>2, <1>3, <2>2 DEF InChain
<1>8. fin # "no" /\ e.by # "none" => ~Out("fin")
  BY <1>2 DEF PromiseInv, ChainInv
<1>9. ASSUME e.by = "fin", NEW x, x \notin {"none", "fin"} PROVE Out(x)
  <2> SUFFICES ASSUME NEW i \in DOMAIN chain, chain[i].by = x PROVE FALSE
    BY DEF Out
  <2>1. i # 1 /\ i > 1
    BY <1>2, <1>9
  <2> QED BY <1>2, <1>3, <1>9, <2>1
<1> QED BY <1>2, <1>4, <1>5, <1>6, <1>7, <1>8, <1>9

\* The turns so far.
LEMMA TurnsSoFar ==
  ASSUME PromiseInv, log.session = "open", NEW u \in Turns
  PROVE  /\ log.turn[u] = TurnOut(u) /\ log.tool = ToolOut
         /\ log.turn[u] \in {"unborn", "open", "ended"}
BY DEF PromiseInv, LogInv, TurnOut

\* An event comes out: each says what there was to say.
EmitsTurnStarted(e) ==
  /\ e.kind = "turn_started" /\ e.turn = count /\ count \in Turns /\ log.session = "open"
  /\ Unsaid /\ ~Unsaid' /\ EndIsOut' = FALSE /\ ToolOut' = ToolOut
EmitsTurnEnded(e) ==
  /\ e.kind = "turn_ended" /\ e.turn = count /\ count \in Turns /\ log.session = "open"
  /\ ~Unsaid /\ ~Unsaid' /\ EndIsOut = FALSE /\ EndIsOut' = TRUE /\ ToolOut' = ToolOut
EmitsTool(e) ==
  /\ e.kind = (IF ToolOut' THEN "tool_invoked" ELSE "tool_result") /\ ToolOut' = ~ToolOut
  /\ (Unsaid' <=> Unsaid) /\ EndIsOut' = EndIsOut
EmitsSessionEnded(e) ==
  /\ e.kind = "session_ended" /\ fin = "session" /\ ~Unsaid /\ (count = 0 \/ EndIsOut = TRUE) /\ ToolOut = FALSE
EmitsSummary(e) ==
  /\ e.kind = "compact_ended" /\ (Unsaid' <=> Unsaid) /\ EndIsOut' = EndIsOut /\ ToolOut' = ToolOut

\* The event that comes out is what its thread has to say, and nothing else is heard of it.
LEMMA EmitsWhatIsDue ==
  ASSUME PromiseInv, DoEmit, NEW e, e = Head(chain)
  PROVE  \/ EmitsTurnStarted(e) \/ EmitsTurnEnded(e) \/ EmitsTool(e) \/ EmitsSessionEnded(e) \/ EmitsSummary(e)
<1> USE DEF PromiseInv
<1>1. /\ e \in EventRecords /\ Fits(e) /\ (e.by # "none" => ~Out(e.by))
      /\ \A x : x # "none" => (Out(x)' <=> Out(x) \/ x = e.by)
      /\ (fin # "no" /\ e.by # "none" => ~Out("fin"))
      /\ (e.by = "fin" => \A x : x \notin {"none", "fin"} => Out(x))
  BY EmitsOne
<1>2. UNCHANGED <<status, cur, count, tool, call, fin, sdk>>
  BY DEF DoEmit
<1>3. \A c \in Callers : c \notin {"sub", "fin", "none"}
  BY CallersAssumption
<1>4. e.by \in Callers \cup {"sub", "fin", "none"} /\ (log.session = "open" \/ fin \in {"session", "done"})
  BY <1>1 DEF EventRecords, Threads, LogInv, StateTypes, LogRecords
<1>5. CASE e.by = "none"
  <2>1. (Out("sub")' <=> Out("sub")) /\ (Out("fin")' <=> Out("fin")) /\ \A c \in Callers : Out(c)' <=> Out(c)
    BY <1>1, <1>3, <1>5
  <2>2. e.kind = "compact_ended"
    BY <1>1, <1>5 DEF Fits
  <2>3. (Unsaid' <=> Unsaid) /\ EndIsOut' = EndIsOut /\ ToolOut' = ToolOut
    BY <1>2, <2>1 DEF Unsaid, EndIsOut, ToolOut
  <2> QED BY <2>2, <2>3 DEF EmitsSummary
<1>6. CASE e.by \in Callers
  <2>1. /\ e.kind = "turn_started" /\ e.turn = count /\ call[e.by].pc = "started" /\ fin \notin {"session", "done"}
        /\ count # 0 /\ sdk.sub # "result" /\ (fin = "no" => cur = count)
        /\ \A d \in Callers : d # e.by => call[d].pc \notin {"interrupt", "accepted", "delivered", "started", "lost"}
    BY <1>1, <1>6, DelivererIsAlone DEF Fits, DeliveryInv
  <2>2. (Out("sub")' <=> Out("sub")) /\ (Out("fin")' <=> Out("fin")) /\ Out(e.by)' /\ ~Out(e.by)
    BY <1>1, <1>3, <1>6
  <2>3. Unsaid /\ ~Unsaid'
    BY <1>2, <1>6, <2>1, <2>2 DEF Unsaid
  <2>4. ToolOut' = ToolOut
    BY <1>2, <2>2 DEF ToolOut
  <2>5. EndIsOut' = FALSE
    BY <1>1, <1>2, <1>3, <1>6, <2>1, <2>2 DEF EndIsOut, EndingInv, StateTypes, None
  <2>6. count \in Turns /\ log.session = "open"
    BY <1>4, <2>1, NumbersAreTyped, BoundsAssumption DEF Turns
  <2> QED BY <2>1, <2>3, <2>4, <2>5, <2>6 DEF EmitsTurnStarted
<1>7. CASE e.by = "sub"
  <2>1. ~Out("sub") /\ Out("sub")' /\ (Out("fin")' <=> Out("fin")) /\ \A c \in Callers : Out(c)' <=> Out(c)
    BY <1>1, <1>3, <1>7
  <2>2. Unsaid' <=> Unsaid
    BY <1>2, <2>1 DEF Unsaid
  <2>3. CASE sdk.sub = "result"
    <3>1. /\ e.kind = "turn_ended" /\ e.turn = count /\ fin = "no" /\ cur = count /\ count # 0
          /\ \A c \in Callers : call[c].pc \notin {"delivered", "started"}
      BY <1>1, <1>3, <1>7, <2>3 DEF Fits, ResultInv, DeliveryInv, StateTypes, None
    <3>2. ~Unsaid /\ EndIsOut = FALSE /\ EndIsOut' = TRUE /\ ToolOut' = ToolOut
      BY <1>2, <2>1, <2>3, <3>1 DEF Unsaid, EndIsOut, ToolOut
    <3>3. count \in Turns /\ log.session = "open"
      BY <1>4, <3>1, NumbersAreTyped, BoundsAssumption DEF Turns
    <3> QED BY <2>2, <3>1, <3>2, <3>3 DEF EmitsTurnEnded
  <2>4. CASE sdk.sub # "result"
    <3>1. /\ e.kind = (IF tool THEN "tool_invoked" ELSE "tool_result") /\ tool \in BOOLEAN
          /\ ~(fin = "tool" /\ Out("fin"))
      BY <1>1, <1>3, <1>7, <2>4 DEF Fits, StateTypes
    <3>2. ToolOut' = tool /\ ToolOut = ~tool /\ EndIsOut' = EndIsOut
      BY <1>2, <2>1, <2>4, <3>1 DEF ToolOut, EndIsOut
    <3> QED BY <2>2, <3>1, <3>2 DEF EmitsTool
  <2> QED BY <2>3, <2>4
<1>8. CASE e.by = "fin"
  <2>1. Out("fin")' /\ ~Out("fin") /\ Out("sub") /\ Out("sub")' /\ \A c \in Callers : Out(c) /\ Out(c)'
    BY <1>1, <1>3, <1>8
  <2>2. fin # "no" /\ sdk.sub # "result"
    BY <1>1, <1>3, <1>8 DEF Fits, ResultInv
  <2>3. ~Unsaid /\ ~Unsaid'
    BY <1>2, <2>1, <2>2 DEF Unsaid, DeliveryInv
  <2>4. CASE fin = "tool"
    <3>1. e.kind = "tool_result" /\ tool
      BY <1>1, <1>3, <1>8, <2>4 DEF Fits, EndingInv
    <3>2. ToolOut = TRUE /\ ToolOut' = FALSE /\ EndIsOut' = EndIsOut
      BY <1>2, <2>1, <2>2, <2>4, <3>1 DEF ToolOut, EndIsOut, StateTypes
    <3> QED BY <2>3, <3>1, <3>2 DEF EmitsTool
  <2>5. CASE fin = "turn"
    <3>1. e.kind = "turn_ended" /\ e.turn = count /\ count # 0 /\ cur = None
      BY <1>1, <1>3, <1>8, <2>5 DEF Fits, EndingInv
    <3>2. EndIsOut = FALSE /\ EndIsOut' = TRUE /\ ToolOut' = ToolOut
      BY <1>2, <2>1, <2>2, <2>5, <3>1 DEF ToolOut, EndIsOut, None
    <3>3. count \in Turns /\ log.session = "open"
      BY <1>4, <2>5, <3>1, NumbersAreTyped, BoundsAssumption DEF Turns
    <3> QED BY <2>3, <3>1, <3>2, <3>3 DEF EmitsTurnEnded
  <2>6. CASE fin = "session"
    <3>1. e.kind = "session_ended" /\ cur = None /\ ~tool
      BY <1>1, <1>3, <1>8, <2>6 DEF Fits, EndingInv
    <3>2. (count = 0 \/ EndIsOut = TRUE) /\ ToolOut = FALSE
      BY <2>1, <2>2, <2>6, <3>1 DEF ToolOut, EndIsOut, None, StateTypes
    <3> QED BY <2>3, <2>6, <3>1, <3>2 DEF EmitsSessionEnded
  <2> QED BY <1>1, <1>3, <1>8, <2>4, <2>5, <2>6 DEF Fits
<1> QED BY <1>4, <1>5, <1>6, <1>7, <1>8

\* The listener's view of the session after the event.
LEMMA HeardIsDue ==
  ASSUME PromiseInv, DoEmit
  PROVE  LogInv' /\ log' \in LogRecords
<1> USE DEF PromiseInv
<1>1. PICK e : e = Head(chain)
  OBVIOUS
<1>2. log' = Heard(e) /\ UNCHANGED <<count, fin>> /\ e \in EventRecords
  BY <1>1, EmitsOne DEF DoEmit
<1>3. log \in LogRecords /\ ~log.orphan /\ log.session \in {"open", "ended"} /\ count \in Nat
      /\ log.turn \in [Turns -> {"unborn", "open", "ended", "broken"}] /\ log.tool \in BOOLEAN
  BY NumbersAreTyped DEF StateTypes, LogRecords, LogInv
<1>4. CASE log.session = "ended"
  BY <1>2, <1>3, <1>4 DEF Heard, LogInv
<1>5. CASE log.session = "open"
  <2>1. \A u \in Turns : log.turn[u] = TurnOut(u) /\ log.tool = ToolOut
    BY <1>5, TurnsSoFar
  <2>2. CASE EmitsTurnStarted(e)
    <3>1. TurnOut(count) = "unborn"
      BY <1>3, <2>2 DEF TurnOut, EmitsTurnStarted
    <3>2. log' = [log EXCEPT !.turn[count] = "open"]
      BY <1>2, <1>5, <2>1, <2>2, <3>1 DEF Heard, EmitsTurnStarted
    <3>3. log' = [log EXCEPT !.turn = [log.turn EXCEPT ![count] = "open"]] /\ count \in Turns
      BY <1>3, <2>2, <3>2 DEF LogRecords, EmitsTurnStarted
    <3>4. [log.turn EXCEPT ![count] = "open"] \in [Turns -> {"unborn", "open", "ended", "broken"}]
      BY <1>3
    <3>5. /\ log' \in LogRecords /\ log'.orphan = log.orphan /\ log'.tool = log.tool /\ log'.session = log.session
          /\ log'.turn = [log.turn EXCEPT ![count] = "open"]
      BY <1>3, <3>3, <3>4 DEF LogRecords
    <3>6. \A u \in Turns : log'.turn[u] = TurnOut(u)'
      <4> SUFFICES ASSUME NEW u \in Turns PROVE log'.turn[u] = TurnOut(u)'
        OBVIOUS
      <4>1. /\ u \in Nat
            /\ log.turn[u] = (IF u < count THEN "ended" ELSE IF u > count THEN "unborn" ELSE "unborn")
        BY <1>3, <2>1, <3>1 DEF TurnOut, Turns
      <4>2. TurnOut(u)' = (IF u < count THEN "ended" ELSE IF u > count THEN "unborn" ELSE "open")
        BY <1>2, <2>2 DEF TurnOut, EmitsTurnStarted
      <4>3. log'.turn[u] = IF u = count THEN "open" ELSE log.turn[u]
        BY <1>3, <3>5
      <4> QED BY <1>3, <4>1, <4>2, <4>3
    <3>7. count \in Turns /\ ToolOut' = ToolOut /\ log.tool = ToolOut
      BY <2>1, <2>2 DEF EmitsTurnStarted
    <3> QED BY <1>3, <1>5, <3>5, <3>6, <3>7 DEF LogInv, Turns
  <2>3. CASE EmitsTurnEnded(e)
    <3>1. TurnOut(count) = "open" /\ count # None
      BY <1>3, <2>3 DEF TurnOut, EmitsTurnEnded, Turns, None
    <3>2. log' = [log EXCEPT !.turn[count] = "ended"]
      BY <1>2, <1>5, <2>1, <2>3, <3>1 DEF Heard, EmitsTurnEnded
    <3>3. log' = [log EXCEPT !.turn = [log.turn EXCEPT ![count] = "ended"]] /\ count \in Turns
      BY <1>3, <2>3, <3>2 DEF LogRecords, EmitsTurnEnded
    <3>4. [log.turn EXCEPT ![count] = "ended"] \in [Turns -> {"unborn", "open", "ended", "broken"}]
      BY <1>3
    <3>5. /\ log' \in LogRecords /\ log'.orphan = log.orphan /\ log'.tool = log.tool /\ log'.session = log.session
          /\ log'.turn = [log.turn EXCEPT ![count] = "ended"]
      BY <1>3, <3>3, <3>4 DEF LogRecords
    <3>6. \A u \in Turns : log'.turn[u] = TurnOut(u)'
      <4> SUFFICES ASSUME NEW u \in Turns PROVE log'.turn[u] = TurnOut(u)'
        OBVIOUS
      <4>1. u \in Nat /\ log.turn[u] = (IF u < count THEN "ended" ELSE IF u > count THEN "unborn" ELSE "open")
        BY <1>3, <2>1, <3>1 DEF TurnOut, Turns
      <4>2. TurnOut(u)' = (IF u < count THEN "ended" ELSE IF u > count THEN "unborn" ELSE "ended")
        BY <1>2, <2>3 DEF TurnOut, EmitsTurnEnded
      <4>3. log'.turn[u] = IF u = count THEN "ended" ELSE log.turn[u]
        BY <1>3, <3>5
      <4> QED BY <1>3, <4>1, <4>2, <4>3
    <3>7. count \in Turns /\ ToolOut' = ToolOut /\ log.tool = ToolOut
      BY <2>1, <2>3 DEF EmitsTurnEnded
    <3> QED BY <1>3, <1>5, <3>5, <3>6, <3>7 DEF LogInv, Turns
  <2>4. CASE EmitsTool(e)
    <3>1. ToolOut' \in BOOLEAN
      BY <2>4 DEF EmitsTool
    <3>2. log' = [log EXCEPT !.tool = ToolOut']
      BY <1>2, <1>5, <2>4, <3>1 DEF Heard, EmitsTool
    <3>3. /\ log' \in LogRecords /\ log'.orphan = log.orphan /\ log'.tool = ToolOut' /\ log'.session = log.session
          /\ log'.turn = log.turn
      BY <1>3, <3>1, <3>2 DEF LogRecords
    <3>4. \A u \in Turns : TurnOut(u)' = TurnOut(u)
      BY <1>2, <2>4 DEF TurnOut, EmitsTool
    <3> QED BY <1>3, <1>5, <2>1, <3>3, <3>4 DEF LogInv, Turns
  <2>5. CASE EmitsSessionEnded(e)
    <3>1. log' = [log EXCEPT !.session = "ended"]
      BY <1>2, <1>5, <2>5 DEF Heard, EmitsSessionEnded
    <3>2. log' \in LogRecords /\ log'.orphan = log.orphan /\ log'.session = "ended"
      BY <1>3, <3>1 DEF LogRecords
    <3> QED BY <1>2, <1>3, <2>5, <3>2 DEF LogInv, EmitsSessionEnded
  <2>6. CASE EmitsSummary(e)
    <3>1. log' = log
      BY <1>2, <1>5, <2>6 DEF Heard, EmitsSummary
    <3>2. \A u \in Turns : TurnOut(u)' = TurnOut(u)
      BY <1>2, <2>6 DEF TurnOut, EmitsSummary
    <3>3. ToolOut' = ToolOut
      BY <2>6 DEF EmitsSummary
    <3> QED BY <1>2, <1>3, <2>1, <3>1, <3>2, <3>3 DEF LogInv, Turns
  <2> QED BY <1>1, <2>2, <2>3, <2>4, <2>5, <2>6, EmitsWhatIsDue
<1> QED BY <1>3, <1>4, <1>5

LEMMA DoEmitKeeps == ASSUME PromiseInv, DoEmit PROVE PromiseInv'
<1> USE DEF PromiseInv
<1>1. LogInv' /\ log' \in LogRecords
  BY HeardIsDue
<1>2. PICK e : e = Head(chain)
  OBVIOUS
<1>3. /\ e \in EventRecords /\ Fits(e) /\ chain' \in Seq(EventRecords) /\ (e.by # "none" => ~Out(e.by))
      /\ \A x : x # "none" => (Out(x)' <=> Out(x) \/ x = e.by)
      /\ \A x \in EventRecords : InChain(x)' => InChain(x) /\ (x.by = "none" \/ x.by # e.by)
      /\ (fin # "no" /\ e.by # "none" => ~Out("fin"))
  BY <1>2, EmitsOne
<1>4. /\ UNCHANGED <<status, cur, count, tool, call, injecting, fin, queue, sdk, told>>
      /\ compact' = (IF e.kind = "compact_ended" THEN FALSE ELSE compact)
      /\ chain # <<>> /\ chain' = Tail(chain)
  BY <1>2 DEF DoEmit
<1>5. \/ UNCHANGED <<closer, init>>
      \/ closer.pc = "none" /\ closer' = [pc |-> "entered", force |-> TRUE, turn |-> None]
         /\ init' = IF init = "armed" THEN "unarmed" ELSE init
  BY DEF DoEmit
<1>6. StateTypes'
  <2>1. closer' \in [pc : {"none", "entered", "wait", "grace", "done"}, force : BOOLEAN, turn : 0..MaxTurns]
    <3>1. [pc |-> "entered", force |-> TRUE, turn |-> None]
             \in [pc : {"none", "entered", "wait", "grace", "done"}, force : BOOLEAN, turn : 0..MaxTurns]
      BY NumbersAreTyped
    <3> QED BY <1>5, <3>1 DEF StateTypes
  <2>2. init' \in {"unarmed", "armed", "ok", "failed"} /\ compact' \in BOOLEAN
    BY <1>4, <1>5 DEF StateTypes
  <2> QED BY <1>1, <1>3, <1>4, <2>1, <2>2 DEF StateTypes
<1>7. OwnerInv' /\ EndingInv'
  BY <1>4, <1>5 DEF OwnerInv, EndingInv
<1>8. \A c \in Callers : c # "none"
  BY CallersAssumption
<1>9. DeliveryInv' /\ ResultInv'
  BY <1>3, <1>4, <1>5, <1>8 DEF DeliveryInv, ResultInv
<1>10. MessageInv'
  <2>1. \A m : Has(m)' <=> Has(m)
    BY <1>4 DEF Has
  <2>2. chain \in Seq(EventRecords)
    BY DEF StateTypes
  <2>3. 1 \in DOMAIN chain /\ chain[1] = e
    BY <1>2, <1>4, <2>2, OutOfTail
  <2>4. \A i \in Summaries' : i + 1 \in Summaries /\ i + 1 # 1 /\ i \in Nat
    BY <1>4, <2>2, OutOfTail DEF Summaries
  <2>5. queue.open /\ e.kind = "compact_ended" => 1 \in Summaries /\ Summaries' = {}
    BY <2>3, <2>4 DEF MessageInv, Summaries
  <2>6. queue.open => \A i, j \in Summaries' : i = j
    BY <2>4 DEF MessageInv
  <2>7. sdk.hook /\ queue.open => Summaries' = {} /\ e.kind # "compact_ended"
    BY <2>3, <2>4 DEF MessageInv, Summaries
  <2>8. queue.open /\ e.kind = "compact_ended" => ~Has(Compact)
    BY <2>5 DEF MessageInv
  <2>9. Summaries' # {} => Summaries # {}
    BY <2>4
  <2> QED BY <1>4, <2>1, <2>5, <2>6, <2>7, <2>8, <2>9 DEF MessageInv
<1>11. ChainInv'
  <2>1. chain \in Seq(EventRecords)
    BY DEF StateTypes
  <2>2. \A i \in DOMAIN chain' : i \in Nat /\ i + 1 \in DOMAIN chain /\ chain'[i] = chain[i + 1]
    BY <1>4, <2>1, OutOfTail
  <2>3. \A i \in DOMAIN chain : i \in Nat
    BY <1>4, <2>1, OutOfTail
  <2>4. \A x \in EventRecords : InChain(x)' => Fits(x)'
    <3> SUFFICES ASSUME NEW x \in EventRecords, InChain(x), Fits(x) PROVE Fits(x)'
      BY <1>3 DEF ChainInv
    <3> QED BY <1>4 DEF Fits
  <2>5. \A i, j \in DOMAIN chain' : chain'[i].by = chain'[j].by /\ chain'[i].by # "none" => i = j
    BY <2>2 DEF ChainInv
  <2>6. \A i, j \in DOMAIN chain' : i < j /\ chain'[i].by = "fin" => chain'[j].by = "none"
    BY <2>2 DEF ChainInv
  <2>7. fin' # "no" /\ Out("fin")' => \A i \in DOMAIN chain' : chain'[i].by = "none"
    <3> SUFFICES ASSUME fin # "no", Out("fin")', NEW i \in DOMAIN chain' PROVE chain'[i].by = "none"
      BY <1>4
    <3>1. CASE Out("fin")
      BY <2>2, <3>1 DEF ChainInv
    <3>2. CASE ~Out("fin")
      <4>1. e.by = "fin"
        BY <1>3, <3>2
      <4>2. chain[1] = e /\ 1 \in DOMAIN chain /\ 1 < i + 1
        BY <1>2, <1>4, <2>1, <2>2, OutOfTail
      <4> QED BY <2>2, <4>1, <4>2 DEF ChainInv
    <3> QED BY <3>1, <3>2
  <2> QED BY <2>4, <2>5, <2>6, <2>7 DEF ChainInv
<1> QED BY <1>1, <1>6, <1>7, <1>9, <1>10, <1>11

-----------------------------------------------------------------------------
(* The first state, and each step                                            *)

\* Nothing is out at first.
LEMMA PromiseStarts == Init => PromiseInv
<1> SUFFICES ASSUME Init PROVE PromiseInv
  OBVIOUS
<1> USE DEF Init
<1>1. StateTypes
  <2>1. Idle \in CallRecords
    BY NumbersAreTyped, BoundsAssumption DEF Idle, CallRecords, CallPcs, None
  <2>2. sdk \in SdkRecords
    BY BoundsAssumption DEF SdkRecords, None, Compact
  <2>3. log \in LogRecords
    BY DEF LogRecords
  <2>4. closer \in [pc : {"none", "entered", "wait", "grace", "done"}, force : BOOLEAN, turn : 0..MaxTurns]
    BY BoundsAssumption DEF None
  <2>5. chain \in Seq(EventRecords) /\ queue \in [open : BOOLEAN, waits : Seq(1..Compact)]
    OBVIOUS
  <2> QED BY <2>1, <2>2, <2>3, <2>4, <2>5, BoundsAssumption DEF StateTypes, None
<1>2. OwnerInv /\ EndingInv /\ DeliveryInv /\ ResultInv
  BY DEF OwnerInv, EndingInv, DeliveryInv, ResultInv, Idle, None
<1>3. DOMAIN chain = {} /\ DOMAIN queue.waits = {}
  OBVIOUS
<1>4. MessageInv
  <2>1. Summaries = {} /\ \A m \in 1..Compact : ~Has(m)
    BY <1>3 DEF Summaries, Has, None
  <2>2. \A c \in Callers : call[c].pc = "free"
    BY DEF Idle
  <2> QED BY <2>1, <2>2 DEF MessageInv
<1>5. ChainInv
  BY <1>3 DEF ChainInv, InChain
<1>6. LogInv
  <2>1. \A x : Out(x)
    BY <1>3 DEF Out
  <2>2. ~Unsaid
    BY <2>1 DEF Unsaid, Idle
  <2>3. ToolOut = FALSE
    BY <2>1 DEF ToolOut
  <2>4. \A u \in Turns : TurnOut(u) = "unborn"
    BY <2>2 DEF TurnOut, Turns
  <2> QED BY <2>3, <2>4 DEF LogInv, Turns
<1> QED BY <1>1, <1>2, <1>4, <1>5, <1>6 DEF PromiseInv

\* Every step keeps the invariant.
LEMMA PromiseStep == ASSUME PromiseInv, [Next]_vars, Behaved PROVE PromiseInv'
<1>1. CASE UNCHANGED vars
  <2> USE <1>1 DEF vars, threads, flags, PromiseInv
  <2>1. StateTypes' /\ OwnerInv' /\ EndingInv'
    BY DEF StateTypes, OwnerInv, EndingInv
  <2>2. DeliveryInv' /\ ResultInv' /\ MessageInv'
    BY DEF DeliveryInv, ResultInv, MessageInv, Has, Summaries, Out
  <2>3. ChainInv'
    BY ChainStays DEF ChainInv, Fits
  <2>4. LogInv'
    BY SameTurns
  <2> QED BY <2>1, <2>2, <2>3, <2>4
<1>2. CASE DoEmit \/ SdkTakes \/ InitTimesOut
  BY <1>2, DoEmitKeeps, SdkTakesKeeps, InitTimesOutKeeps
<1>3. CASE Subscriber
  BY <1>3, SubscriberInitKeeps, SubscriberInitedKeeps, SdkToolKeeps, SubscriberResultKeeps, SubscriberEndsTurnKeeps,
     SdkDiesKeeps, SdkEndsKeeps DEF Subscriber
<1>4. CASE Finalizer \/ Closer
  BY <1>4, FinalizeToolKeeps, FinalizeTurnKeeps, FinalizeSessionKeeps, CloseEntersKeeps, CloseWaitsKeeps,
     CloseFinalizesKeeps DEF Finalizer, Closer
<1>5. ASSUME NEW c \in Callers, CallSteps(c) \/ AbortTurn(c) \/ Inject(c) PROVE PromiseInv'
  BY <1>5, AskedKeeps, InterruptedKeeps, AcceptedKeeps, DeliveredKeeps, StartedKeeps, ReturnKeeps, AbortWaitsKeeps,
     AbortEndsKeeps, AbortTurnKeeps, InjectKeeps DEF CallSteps
<1>6. CASE CompactBegin \/ PostCompact \/ CompactTimesOut
  BY <1>6, CompactBeginKeeps, PostCompactKeeps, CompactTimesOutKeeps
<1>7. ASSUME NEW force \in BOOLEAN, Close(force) PROVE PromiseInv'
  BY <1>7, CloseKeeps
<1> QED BY <1>1, <1>2, <1>3, <1>4, <1>5, <1>6, <1>7 DEF Next

\* The inductive invariant.
THEOREM PromiseInvariant == ASSUME Behaved PROVE Spec => []PromiseInv
<1>1. PromiseInv /\ [Next]_vars => PromiseInv'
  BY PromiseStep
<1> QED BY <1>1, PromiseStarts, PTL DEF Spec

-----------------------------------------------------------------------------
(* The contract                                                              *)

\* The first state is one of the contract.
LEMMA ContractStarts == Init => Contract!Init
BY DEF Init, Contract!Init

\* The turns that are open: none while a turn is unsaid or the last is ended.
LEMMA OpenTurns ==
  ASSUME PromiseInv, log.session = "open"
  PROVE  /\ Unsaid \/ EndIsOut = TRUE \/ count = 0 => Contract!Open = {}
         /\ log.tool = ToolOut
         /\ \A u \in Turns : log.turn[u] = TurnOut(u)
<1>1. \A u \in Turns : log.turn[u] = TurnOut(u) /\ log.tool = ToolOut
  BY TurnsSoFar
<1>2. log.tool = ToolOut
  BY DEF PromiseInv, LogInv
<1>3. Unsaid \/ EndIsOut = TRUE \/ count = 0 => \A u \in Turns : TurnOut(u) # "open"
  BY NumbersAreTyped DEF PromiseInv, TurnOut, Turns
<1> QED BY <1>1, <1>2, <1>3 DEF Contract!Open

\* An event that comes out is a step of the contract.
LEMMA EmitImplements == ASSUME PromiseInv, DoEmit PROVE [Contract!Next]_(Contract!promised)
<1> USE DEF PromiseInv
<1>1. PICK e : e = Head(chain)
  OBVIOUS
<1>2. log' = Heard(e) /\ told' = told /\ e \in EventRecords
  BY <1>1, EmitsOne DEF DoEmit
<1>3. /\ log \in LogRecords /\ ~log.orphan /\ ~log'.orphan /\ log.session \in {"open", "ended"} /\ count \in Nat
      /\ log.turn \in [Turns -> {"unborn", "open", "ended", "broken"}] /\ log.tool \in BOOLEAN
  BY HeardIsDue, NumbersAreTyped DEF StateTypes, LogRecords, LogInv
<1>4. CASE log.session = "ended"
  BY <1>2, <1>3, <1>4 DEF Heard, Contract!promised
<1>5. CASE log.session = "open"
  <2>1. \A u \in Turns : log.turn[u] = TurnOut(u) /\ log.tool = ToolOut
    BY <1>5, TurnsSoFar
  <2>2. CASE EmitsTurnStarted(e)
    <3>1. TurnOut(count) = "unborn" /\ count \in Turns /\ Contract!Open = {}
      BY <1>3, <1>5, <2>2, OpenTurns DEF TurnOut, EmitsTurnStarted
    <3>2. \A u \in Turns : u < count => log.turn[u] # "unborn"
      BY <1>3, <2>1 DEF TurnOut, Turns
    <3>3. log' = [log EXCEPT !.turn[count] = "open"]
      BY <1>2, <1>5, <2>1, <2>2, <3>1 DEF Heard, EmitsTurnStarted
    <3>4. /\ log'.turn = [log.turn EXCEPT ![count] = "open"] /\ log'.tool = log.tool
          /\ log'.session = log.session /\ log'.orphan = log.orphan
      BY <1>3, <3>3 DEF LogRecords
    <3>5. Contract!OpenTurn(count)
      BY <1>2, <1>3, <1>5, <2>1, <3>1, <3>2, <3>4 DEF Contract!OpenTurn
    <3> QED BY <3>1, <3>5 DEF Contract!Next
  <2>3. CASE EmitsTurnEnded(e)
    <3>1. TurnOut(count) = "open" /\ count \in Turns /\ count # None
      BY <1>3, <2>3 DEF TurnOut, EmitsTurnEnded, Turns, None
    <3>2. log' = [log EXCEPT !.turn[count] = "ended"]
      BY <1>2, <1>5, <2>1, <2>3, <3>1 DEF Heard, EmitsTurnEnded
    <3>3. /\ log'.turn = [log.turn EXCEPT ![count] = "ended"] /\ log'.tool = log.tool
          /\ log'.session = log.session /\ log'.orphan = log.orphan
      BY <1>3, <3>2 DEF LogRecords
    <3>4. Contract!EndTurn(count)
      BY <1>2, <1>3, <1>5, <2>1, <3>1, <3>3 DEF Contract!EndTurn
    <3> QED BY <3>1, <3>4 DEF Contract!Next
  <2>4. CASE EmitsTool(e)
    <3>1. log' = [log EXCEPT !.tool = ToolOut'] /\ ToolOut' = ~log.tool
      <4>1. ToolOut' = ~log.tool
        BY <1>5, <2>4, OpenTurns DEF EmitsTool
      <4> QED BY <1>2, <1>3, <1>5, <2>4, <4>1 DEF Heard, EmitsTool
    <3>2. /\ log'.turn = log.turn /\ log'.tool = ~log.tool
          /\ log'.session = log.session /\ log'.orphan = log.orphan
      BY <1>3, <3>1 DEF LogRecords
    <3>3. Contract!Tool
      BY <1>2, <1>3, <1>5, <3>2 DEF Contract!Tool
    <3> QED BY <3>3 DEF Contract!Next
  <2>5. CASE EmitsSessionEnded(e)
    <3>1. log' = [log EXCEPT !.session = "ended"] /\ Contract!Open = {} /\ ~log.tool
      BY <1>2, <1>5, <2>5, OpenTurns DEF Heard, EmitsSessionEnded
    <3>2. log'.turn = log.turn /\ log'.tool = log.tool /\ log'.session = "ended" /\ log'.orphan = log.orphan
      BY <1>3, <3>1 DEF LogRecords
    <3>3. Contract!EndSession
      BY <1>2, <1>3, <1>5, <3>1, <3>2 DEF Contract!EndSession
    <3> QED BY <3>3 DEF Contract!Next
  <2>6. CASE EmitsSummary(e)
    <3>1. log' = log
      BY <1>2, <1>5, <2>6 DEF Heard, EmitsSummary
    <3> QED BY <1>2, <3>1 DEF Contract!promised
  <2> QED BY <1>1, <2>2, <2>3, <2>4, <2>5, <2>6, EmitsWhatIsDue
<1> QED BY <1>3, <1>4, <1>5

\* An inject that has pushed its message tells its turn.
LEMMA PushImplements ==
  ASSUME PromiseInv, NEW c \in Callers, Started(c), told' # told
  PROVE  [Contract!Next]_(Contract!promised)
<1> USE DEF PromiseInv
<1>1. /\ call[c].pc = "started" /\ Out(c) /\ call[c].turn = count /\ count # 0
      /\ count \notin told /\ sdk.sub # "result"
      /\ \A d \in Callers : d # c => call[d].pc \notin {"interrupt", "accepted", "delivered", "started", "lost"}
  BY DelivererIsAlone DEF DeliveryInv, Started
<1>2. queue.open /\ told' = told \cup {count} /\ log' = log
  BY <1>1 DEF Started, Push
<1>3. fin = "no" /\ log.session = "open" /\ ~log.orphan
  BY <1>2 DEF EndingInv, LogInv, StateTypes, LogRecords
<1>4. ~Unsaid /\ count \in Turns
  BY <1>1, NumbersAreTyped DEF Unsaid, Turns
<1>5. log.turn[count] # "unborn"
  BY <1>3, <1>4, OpenTurns DEF TurnOut, Turns
<1>6. Contract!Tell(count)
  BY <1>1, <1>2, <1>5 DEF Contract!Tell
<1> QED BY <1>4, <1>6 DEF Contract!Next

\* The other steps say nothing.
LEMMA OthersAreSilent ==
  ASSUME [Next]_vars, ~DoEmit, ~\E c \in Callers : Started(c)
  PROVE  UNCHANGED <<log, told>>
BY DEF Next, vars, SdkTakes, InitTimesOut, Subscriber, SubscriberInit, SubscriberInited, SdkTool, SubscriberResult,
   SubscriberEndsTurn, SdkDies, SdkEnds, Finalizer, FinalizeTool, FinalizeTurn, FinalizeSession, Closer, CloseEnters,
   CloseWaits, CloseFinalizes, CallSteps, Asked, Interrupted, Accepted, Delivered, Return, AbortWaits, AbortEnds,
   AbortTurn, Inject, CompactBegin, PostCompact, CompactTimesOut, Close

\* Every step is one of the contract, or says nothing.
LEMMA ContractStep == ASSUME PromiseInv, [Next]_vars PROVE [Contract!Next]_(Contract!promised)
<1>1. CASE DoEmit
  BY <1>1, EmitImplements
<1>2. ASSUME NEW c \in Callers, Started(c) PROVE [Contract!Next]_(Contract!promised)
  <2>1. log' = log
    BY <1>2 DEF Started
  <2> QED BY <1>2, <2>1, PushImplements DEF Contract!promised
<1>3. CASE ~DoEmit /\ ~\E c \in Callers : Started(c)
  BY <1>3, OthersAreSilent DEF Contract!promised
<1> QED BY <1>1, <1>2, <1>3

\* Whatever the callers and the SDK do, short of the moments Behaved names, the adapter keeps the
\* contract of all providers (session.ts, #emitChain; wrapper/types/runtime.ts).
THEOREM ClaudeImplementsContract == ASSUME Behaved PROVE Spec => ImplementsContract
BY ContractStarts, ContractStep, PromiseInvariant, PTL DEF Spec, ImplementsContract, Contract!Spec
====
