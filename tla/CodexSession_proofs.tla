---- MODULE CodexSession_proofs ----
(***************************************************************************)
(* The Codex adapter keeps the contract of ProviderSession, for any number   *)
(* of callers, turns and faults, unless a session may end while notifications*)
(* wait or a turn/completed is being handled (Behaved): there TLC shows      *)
(* that it does not.  The argument: what the server has sent is in the order  *)
(* in which it did it, so that between what the adapter has heard and where   *)
(* the server is nothing is missing (OrderInv, FlowInv); the handler of notes *)
(* and the finalizer have one event each under way; and hence what is out is  *)
(* a function of where they are (LogInv).                                     *)
(***************************************************************************)
EXTENDS CodexSession, TLAPS

-----------------------------------------------------------------------------
(* The invariant                                                             *)

\* Where a call can be, and what can be said.
CallPcs == {"free", "asked", "accepted", "interrupt", "steer", "wait", "requested", "taken"}
Threads == {"note", "fin"}
EventKinds == {"turn_started", "turn_ended", "tool_invoked", "tool_result", "session_ended", "compact_ended"}
NoteKinds == {"started", "item_started", "item_completed", "completed", "compacted"}
Begun == {"started", "settle", "said"}
CallRecords == [pc : CallPcs, owner : BOOLEAN, turn : 0..MaxTurns, lost : BOOLEAN]
NoteRecords == [kind : NoteKinds, turn : 0..MaxTurns]
HandlerRecords == [pc : {"idle", "completed"} \cup Begun, ack : SUBSET Callers]
ServerRecords == [alive : BOOLEAN, routed : BOOLEAN, todo : SUBSET Callers, run : 0..MaxTurns, count : 0..MaxTurns,
                  tool : {"unused", "runs", "used"}, compacts : BOOLEAN]
EventRecords == [kind : EventKinds, turn : 0..MaxTurns, by : Threads]
LogRecords == [turn : [Turns -> {"unborn", "open", "ended", "broken"}], tool : BOOLEAN, session : {"open", "ended"}]

\* b is the number of turns that the adapter has begun.
StateTypes(b) ==
  /\ cur \in {None, b} /\ tool \in BOOLEAN /\ pend \subseteq Callers
  /\ call \in [Callers -> CallRecords] /\ injecting \in BOOLEAN
  /\ fin \in {"no", "tool", "turn", "session", "done"}
  /\ notes \in Seq(NoteRecords) /\ handler \in HandlerRecords /\ server \in ServerRecords
  /\ chain \in Seq(EventRecords) /\ log \in LogRecords /\ told \subseteq 1..b

\* One caller at most is past the check of the mutex.
OwnerInv ==
  /\ \A c \in Callers : call[c].pc \in {"accepted", "requested", "taken"} => call[c].owner
  /\ \A c \in Callers : call[c].pc \in {"asked", "accepted"} => call[c].turn = None
  /\ \A c \in Callers : call[c].owner => injecting
  /\ \A c, d \in Callers : call[c].owner /\ call[d].owner => c = d

\* A turn that is told was begun for that call, and its start is out.
ToldInv(b) ==
  /\ \A c \in Callers : call[c].pc \in {"requested", "taken"} /\ call[c].turn # None =>
       /\ call[c].turn \in 1..b /\ call[c].turn \notin told /\ log.turn[call[c].turn] # "unborn"
       /\ handler.pc \in {"started", "settle"} => call[c].turn # b
  /\ handler.pc \in {"started", "settle"} => b \notin told
  /\ handler.pc = "settle" \/ (handler.pc = "started" /\ Out("note")) => log.turn[b] # "unborn"

\* A session that ends has begun to handle the last note it was sent.
EndingInv ==
  /\ server.routed <=> fin = "no"
  /\ fin # "no" => NoneUnhandled
  /\ fin = "tool" => cur # None /\ tool
  /\ fin \in {"turn", "session", "done"} => cur = None
  /\ cur = None => ~tool
  /\ fin = "no" /\ handler.pc \in Begun /\ notes[1].kind # "compacted" => cur # None

\* The note that is handled is the first.
HandlerInv(b) ==
  /\ handler.pc # "idle" => notes # <<>>
  /\ handler.pc \in {"started", "settle"} => notes[1].kind = "started" /\ notes[1].turn = b /\ b # 0
  /\ handler.pc = "said" => notes[1].kind \in {"item_started", "item_completed", "compacted"}
  /\ handler.pc = "completed" => notes[1].kind = "completed" /\ notes[1].turn = b /\ cur = b /\ cur # None /\ ~tool

\* Notes whose effect is still to come: that of turn/completed comes at the end of its handling.
Ahead(kind, t) == \E i \in DOMAIN notes :
  /\ notes[i].kind = kind /\ notes[i].turn = t
  /\ i # 1 \/ handler.pc \notin Begun

\* The server's place in its turns, and that of a note.
Rank(kind, t) == 4 * t + (IF kind = "started" THEN 0 ELSE IF kind = "item_started" THEN 1
                          ELSE IF kind = "item_completed" THEN 2 ELSE 3)
Sent == IF server.run = None THEN 4 * server.count + 3
        ELSE 4 * server.run + (IF server.tool = "unused" THEN 0 ELSE IF server.tool = "runs" THEN 1 ELSE 2)
OrderInv ==
  /\ \A i \in DOMAIN notes : notes[i].kind # "compacted" => Rank(notes[i].kind, notes[i].turn) <= Sent /\ notes[i].turn # None
  /\ \A i, j \in DOMAIN notes : i < j /\ notes[i].kind # "compacted" /\ notes[j].kind # "compacted" =>
       Rank(notes[i].kind, notes[i].turn) < Rank(notes[j].kind, notes[j].turn)

\* Between what the adapter has heard and where the server is, nothing is missing.
FlowInv(b) ==
  /\ b <= server.count
  /\ \A t \in Turns : Ahead("started", t) <=> b < t /\ t <= server.count
  /\ \A t \in Turns : Ahead("completed", t) <=> t <= server.count /\ (b < t \/ t = cur) /\ server.run # t
  /\ server.run = b /\ b # 0 => cur = b
  /\ \A t \in Turns : Ahead("item_started", t) \/ (t = cur /\ tool) <=>
       Ahead("item_completed", t) \/ (server.run = t /\ server.tool = "runs")
  /\ \A t \in Turns : Ahead("item_started", t) => b < t \/ (t = cur /\ ~tool)
NotesInv(b) == fin = "no" => server.run \in {None, server.count} /\ OrderInv /\ FlowInv(b)

\* Of each thread one event at most is under way.
Fits(e, b) ==
  /\ e.by = "note" => /\ fin \in {"session", "done"} => e.kind = "compact_ended"
                      /\ \/ handler.pc = "started" /\ e.kind = "turn_started" /\ e.turn = b
                         \/ handler.pc = "completed" /\ e.kind = "turn_ended" /\ e.turn = b
                         \/ handler.pc = "said" /\ notes[1].kind = "compacted" /\ e.kind = "compact_ended"
                         \/ /\ handler.pc = "said" /\ notes[1].kind # "compacted"
                            /\ e.kind = (IF tool THEN "tool_invoked" ELSE "tool_result")
  /\ e.by = "fin" => \/ fin = "tool" /\ e.kind = "tool_result"
                     \/ fin = "turn" /\ e.kind = "turn_ended" /\ e.turn = b /\ b # 0
                     \/ fin = "session" /\ e.kind = "session_ended"
InChain(e) == \E i \in DOMAIN chain : chain[i] = e
ChainInv(b) ==
  /\ \A e \in EventRecords : InChain(e) => Fits(e, b)
  /\ \A i, j \in DOMAIN chain : chain[i].by = chain[j].by => i = j
  /\ \A i, j \in DOMAIN chain : i < j => chain[j].by = "fin"
  /\ fin # "no" /\ Out("fin") => chain = <<>>

\* What is out, by where the threads are.
Unsaid == handler.pc = "started" /\ ~Out("note")
EndIsOut(b) == IF cur = b THEN handler.pc = "completed" /\ Out("note") ELSE ~(fin = "turn" /\ ~Out("fin"))
TurnOut(u, b) ==
  IF u < b THEN "ended" ELSE IF u > b \/ Unsaid THEN "unborn"
  ELSE IF EndIsOut(b) THEN "ended" ELSE "open"
ToolOut ==
  IF fin = "tool" /\ Out("fin") THEN FALSE
  ELSE IF ~Out("note") /\ handler.pc = "said" /\ notes[1].kind # "compacted" THEN ~tool ELSE tool
LogInv(b) ==
  /\ log.session = "ended" => fin \in {"session", "done"}
  /\ log.session = "open" => log.tool = ToolOut /\ \A u \in Turns : log.turn[u] = TurnOut(u, b)

PromiseAt(b) ==
  StateTypes(b) /\ OwnerInv /\ HandlerInv(b) /\ ToldInv(b) /\ EndingInv /\ NotesInv(b) /\ ChainInv(b) /\ LogInv(b)
PromiseInv == \E b \in 0..MaxTurns : PromiseAt(b)

\* A session does not end while notifications wait or a turn/completed is handled.
Behaved == "end_in_handler" \notin Hazards

-----------------------------------------------------------------------------
(* Sequences                                                                 *)

LEMMA AppendIndex ==
  ASSUME NEW S, NEW s \in Seq(S), NEW e \in S, NEW r, r = Append(s, e)
  PROVE  /\ r \in Seq(S) /\ r # <<>> /\ Len(s) + 1 \in Nat
         /\ Len(s) + 1 \in DOMAIN r /\ r[Len(s) + 1] = e
         /\ \A i \in DOMAIN s : i \in DOMAIN r /\ r[i] = s[i] /\ i \in Nat /\ i < Len(s) + 1 /\ i # Len(s) + 1
         /\ \A i \in DOMAIN r : i \in Nat /\ (i \in DOMAIN s \/ i = Len(s) + 1)
         /\ (s # <<>> => 1 \in DOMAIN s /\ r[1] = s[1])
         /\ (s = <<>> => Len(s) + 1 = 1)
<1>1. r \in Seq(S) /\ Len(r) = Len(s) + 1 /\ r[Len(s) + 1] = e /\ Len(s) \in Nat
  OBVIOUS
<1>2. DOMAIN s = 1..Len(s) /\ DOMAIN r = 1..Len(r)
  BY <1>1
<1>3. \A i \in DOMAIN s : i \in DOMAIN r /\ r[i] = s[i] /\ i \in Nat /\ i < Len(s) + 1 /\ i # Len(s) + 1
  BY <1>1, <1>2
<1>4. \A i \in DOMAIN r : i \in Nat /\ (i \in DOMAIN s \/ i = Len(s) + 1)
  BY <1>1, <1>2
<1>5. s # <<>> => 1 \in DOMAIN s /\ r[1] = s[1]
  BY <1>3
<1>6. s = <<>> => Len(s) + 1 = 1
  OBVIOUS
<1>7. r # <<>> /\ Len(s) + 1 \in DOMAIN r
  BY <1>1, <1>2
<1> QED BY <1>1, <1>3, <1>4, <1>5, <1>6, <1>7

LEMMA TailIndex ==
  ASSUME NEW S, NEW s \in Seq(S), s # <<>>, NEW r, r = Tail(s)
  PROVE  /\ r \in Seq(S) /\ 1 \in DOMAIN s /\ s[1] = Head(s) /\ s[1] \in S
         /\ \A i \in DOMAIN r : i \in Nat /\ i + 1 \in DOMAIN s /\ i + 1 > 1 /\ r[i] = s[i + 1]
         /\ \A i \in DOMAIN s : i \in Nat /\ (i = 1 \/ (i - 1 \in DOMAIN r /\ r[i - 1] = s[i]))
<1>1. r \in Seq(S) /\ Len(r) = Len(s) - 1 /\ Len(s) \in Nat /\ Len(s) > 0
  OBVIOUS
<1>2. DOMAIN s = 1..Len(s) /\ DOMAIN r = 1..Len(r)
  BY <1>1
<1>3. s[1] = Head(s) /\ Head(s) \in S
  OBVIOUS
<1>4. \A i \in DOMAIN r : i \in Nat /\ i + 1 \in DOMAIN s /\ i + 1 > 1 /\ r[i] = s[i + 1]
  BY <1>1, <1>2
<1>5. ASSUME NEW i \in DOMAIN s PROVE i \in Nat /\ (i = 1 \/ (i - 1 \in DOMAIN r /\ r[i - 1] = s[i]))
  <2> SUFFICES ASSUME i # 1 PROVE i \in Nat /\ i - 1 \in DOMAIN r /\ r[i - 1] = s[i]
    BY <1>2
  <2>1. i \in Nat /\ i - 1 \in 1..Len(r)
    BY <1>1, <1>2
  <2> QED BY <2>1, <1>4, <1>2
<1> QED BY <1>1, <1>2, <1>3, <1>4, <1>5

LEMMA HeadIsFirst == ASSUME NEW S, NEW s \in Seq(S), s # <<>> PROVE 1 \in DOMAIN s /\ s[1] = Head(s) /\ s[1] \in S
OBVIOUS

-----------------------------------------------------------------------------
(* The chain, and what is out                                                *)

LEMMA EventIsTyped ==
  ASSUME NEW kind \in EventKinds, NEW t \in 0..MaxTurns, NEW by \in Threads
  PROVE  /\ Event(kind, t, by) \in EventRecords
         /\ Event(kind, t, by).kind = kind /\ Event(kind, t, by).turn = t /\ Event(kind, t, by).by = by
BY DEF Event, EventRecords

\* An event joins the chain: of a note while the session has not begun to end, or of the end itself.
LEMMA ChainGrows ==
  ASSUME NEW b, NEW c, chain \in Seq(EventRecords), ChainInv(b), NEW e \in EventRecords, chain' = Append(chain, e),
         \A x \in EventRecords : InChain(x) => Fits(x, c)', Fits(e, c)', Out(e.by),
         IF e.by = "fin" THEN Out("fin") ELSE fin' = "no" /\ chain = <<>>
  PROVE  /\ ChainInv(c)' /\ chain' \in Seq(EventRecords)
         /\ \A x : Out(x)' <=> Out(x) /\ x # e.by
<1> DEFINE n == Len(chain) + 1
<1>1. /\ chain' \in Seq(EventRecords) /\ n \in DOMAIN chain' /\ chain'[n] = e
      /\ \A i \in DOMAIN chain : i \in DOMAIN chain' /\ chain'[i] = chain[i] /\ i \in Nat /\ i < n /\ i # n
      /\ \A i \in DOMAIN chain' : i \in Nat /\ (i \in DOMAIN chain \/ i = n)
  BY AppendIndex
<1>2. chain = <<>> => DOMAIN chain = {}
  OBVIOUS
<1>3. n \in Nat
  BY <1>1
<1> HIDE DEF n
<1>4. \A x : Out(x)' <=> Out(x) /\ x # e.by
  BY <1>1 DEF Out
<1>5. \A x \in EventRecords : InChain(x)' => Fits(x, c)'
  BY <1>1 DEF InChain
<1>6. \A i, j \in DOMAIN chain' : chain'[i].by = chain'[j].by => i = j
  BY <1>1 DEF ChainInv, Out
<1>7. \A i, j \in DOMAIN chain' : i < j => chain'[j].by = "fin"
  BY <1>1, <1>2, <1>3 DEF ChainInv
<1>8. fin' # "no" /\ Out("fin")' => chain' = <<>>
  BY <1>1 DEF Out
<1> QED BY <1>1, <1>4, <1>5, <1>6, <1>7, <1>8 DEF ChainInv

LEMMA ChainStays ==
  ASSUME NEW b, ChainInv(b), chain' = chain, \A x \in EventRecords : InChain(x) => Fits(x, b)',
         fin' # "no" => fin # "no"
  PROVE  ChainInv(b)'
<1>1. (Out("fin")' <=> Out("fin")) /\ \A x \in EventRecords : InChain(x)' <=> InChain(x)
  BY DEF Out, InChain
<1> QED BY <1>1 DEF ChainInv

\* While no note is handled and the session has not begun to end, nothing waits to come out.
LEMMA ChainIsEmpty ==
  ASSUME NEW b, StateTypes(b), ChainInv(b), fin = "no", handler.pc \in {"idle", "settle"}
  PROVE  chain = <<>> /\ \A x : Out(x)
<1>1. chain # <<>> => InChain(chain[1]) /\ chain[1] \in EventRecords
  BY HeadIsFirst DEF InChain, StateTypes
<1>2. \A x \in EventRecords : ~InChain(x)
  BY DEF ChainInv, Fits, EventRecords, Threads
<1>3. chain = <<>>
  BY <1>1, <1>2
<1>4. DOMAIN chain = {}
  BY <1>3
<1> QED BY <1>3, <1>4 DEF Out

LEMMA NumbersAreTyped ==
  ASSUME NEW b \in 0..MaxTurns, StateTypes(b)
  PROVE  None \in 0..MaxTurns /\ cur \in 0..MaxTurns /\ server.count \in 0..MaxTurns /\ server.run \in 0..MaxTurns
BY BoundsAssumption DEF StateTypes, None, ServerRecords

-----------------------------------------------------------------------------
(* Steps that nothing is heard of                                            *)

\* The notes say the same when the server is where it was.
LEMMA NotesStay ==
  ASSUME NEW b \in 0..MaxTurns, NotesInv(b), UNCHANGED <<cur, tool, notes, handler>>, fin' = "no" => fin = "no",
         fin = "no" => server'.run = server.run /\ server'.count = server.count /\ server'.tool = server.tool
  PROVE  NotesInv(b)'
<1> SUFFICES ASSUME fin' = "no" PROVE (server.run \in {None, server.count} /\ OrderInv /\ FlowInv(b))'
  BY DEF NotesInv
<1>1. fin = "no" /\ server'.run = server.run /\ server'.count = server.count /\ server'.tool = server.tool
  OBVIOUS
<1>2. server.run \in {None, server.count} /\ OrderInv /\ FlowInv(b)
  BY <1>1 DEF NotesInv
<1>3. Sent' = Sent
  BY <1>1 DEF Sent
<1>4. \A k, t : Ahead(k, t)' <=> Ahead(k, t)
  BY DEF Ahead
<1>5. OrderInv'
  BY <1>2, <1>3 DEF OrderInv
<1>6. FlowInv(b)'
  BY <1>1, <1>2, <1>4 DEF FlowInv
<1> QED BY <1>1, <1>2, <1>5, <1>6

LEMMA LogStays ==
  ASSUME NEW b \in 0..MaxTurns, LogInv(b), UNCHANGED <<cur, tool, fin, notes, handler, chain, log>>
  PROVE  LogInv(b)'
<1>1. \A x : Out(x)' <=> Out(x)
  BY DEF Out
<1>2. (Unsaid' <=> Unsaid) /\ (EndIsOut(b)' <=> EndIsOut(b)) /\ ToolOut' = ToolOut
  BY <1>1 DEF Unsaid, EndIsOut, ToolOut
<1>3. \A u \in Turns : TurnOut(u, b)' = TurnOut(u, b)
  BY <1>2 DEF TurnOut
<1> QED BY <1>2, <1>3 DEF LogInv

LEMMA NothingNew ==
  ASSUME NEW b \in 0..MaxTurns, PromiseAt(b), UNCHANGED <<cur, tool, fin, notes, handler, chain, log>>,
         pend' \subseteq Callers, call' \in [Callers -> CallRecords], injecting' \in BOOLEAN, told' \subseteq 1..b,
         OwnerInv', ToldInv(b)', server' \in ServerRecords, server'.routed = server.routed,
         fin = "no" => server'.run = server.run /\ server'.count = server.count /\ server'.tool = server.tool
  PROVE  PromiseAt(b)'
<1> USE DEF PromiseAt
<1>1. StateTypes(b)'
  BY DEF StateTypes
<1>2. HandlerInv(b)' /\ EndingInv'
  BY DEF HandlerInv, EndingInv, NoneUnhandled
<1>3. NotesInv(b)'
  BY NotesStay
<1>4. ChainInv(b)'
  BY ChainStays DEF ChainInv, Fits
<1>5. LogInv(b)'
  BY LogStays
<1> QED BY <1>1, <1>2, <1>3, <1>4, <1>5

\* One call moves on.
LEMMA CallMoves ==
  ASSUME NEW b \in 0..MaxTurns, PromiseAt(b), NEW c \in Callers, NEW r \in CallRecords,
         call' = [call EXCEPT ![c] = r],
         r.pc \in {"accepted", "requested", "taken"} => r.owner,
         r.pc \in {"asked", "accepted"} => r.turn = None,
         r.owner => injecting' /\ (call[c].owner \/ ~injecting),
         call[c].owner \/ (injecting => injecting'),
         r.pc \in {"requested", "taken"} /\ r.turn # None => call[c].pc \in {"requested", "taken"} /\ r.turn = call[c].turn,
         UNCHANGED <<handler, chain, log, told>>
  PROVE  call' \in [Callers -> CallRecords] /\ OwnerInv' /\ ToldInv(b)'
<1> USE DEF PromiseAt
<1>1. call \in [Callers -> CallRecords]
  BY DEF StateTypes
<1>2. call' \in [Callers -> CallRecords] /\ call'[c] = r /\ \A d \in Callers : d # c => call'[d] = call[d]
  BY <1>1
<1>3. OwnerInv'
  BY <1>2 DEF OwnerInv
<1>4. Out("note")' <=> Out("note")
  BY DEF Out
<1>5. \A d \in Callers : call'[d].pc \in {"requested", "taken"} /\ call'[d].turn # None =>
        call[d].pc \in {"requested", "taken"} /\ call'[d].turn = call[d].turn
  BY <1>2
<1>6. ToldInv(b)'
  BY <1>4, <1>5 DEF ToldInv
<1> QED BY <1>2, <1>3, <1>6

\* A call that returns gives the mutex back, if it is its owner.
LEMMA ReleaseKeeps ==
  ASSUME NEW b \in 0..MaxTurns, PromiseAt(b), NEW c \in Callers, Released(c), UNCHANGED <<handler, chain, log, told>>
  PROVE  call' \in [Callers -> CallRecords] /\ OwnerInv' /\ ToldInv(b)' /\ injecting' \in BOOLEAN
<1>1. Idle \in CallRecords /\ Idle.pc = "free" /\ ~Idle.owner
  BY BoundsAssumption DEF Idle, CallRecords, CallPcs, None
<1>2. call' = [call EXCEPT ![c] = Idle] /\ injecting' = (IF call[c].owner THEN FALSE ELSE injecting)
  BY DEF Released
<1>3. call' \in [Callers -> CallRecords] /\ OwnerInv' /\ ToldInv(b)'
  BY <1>1, <1>2, CallMoves
<1>4. injecting' \in BOOLEAN
  BY <1>2 DEF PromiseAt, StateTypes
<1> QED BY <1>3, <1>4

\* Of the steps that change a call alone.
LEMMA OnlyCalls ==
  ASSUME NEW b \in 0..MaxTurns, PromiseAt(b), UNCHANGED <<cur, tool, fin, notes, handler, chain, log, server, told>>,
         pend' \subseteq Callers, call' \in [Callers -> CallRecords], injecting' \in BOOLEAN, OwnerInv', ToldInv(b)'
  PROVE  PromiseAt(b)'
<1>1. server' \in ServerRecords /\ told' \subseteq 1..b
  BY DEF PromiseAt, StateTypes
<1> QED BY <1>1, NothingNew

LEMMA InjectKeeps ==
  ASSUME NEW b \in 0..MaxTurns, PromiseAt(b), NEW c \in Callers, Inject(c)
  PROVE  PromiseAt(b)'
<1> USE DEF Inject, turnVars, flags, inbound, out
<1> DEFINE r == [Idle EXCEPT !.owner = ~injecting, !.pc = "asked"]
<1>1. r \in CallRecords /\ r.pc = "asked" /\ r.turn = None /\ (r.owner <=> ~injecting)
  <2>1. None \in 0..MaxTurns /\ (~injecting) \in BOOLEAN
    BY BoundsAssumption DEF None, PromiseAt, StateTypes
  <2> QED BY <2>1 DEF Idle, CallRecords, CallPcs
<1>2. call' = [call EXCEPT ![c] = r] /\ injecting' = TRUE
  OBVIOUS
<1> HIDE DEF r
<1>3. call' \in [Callers -> CallRecords] /\ OwnerInv' /\ ToldInv(b)'
  BY <1>1, <1>2, CallMoves
<1> QED BY <1>2, <1>3, OnlyCalls DEF PromiseAt, StateTypes

\* A call that goes to another place.
LEMMA GoesTo ==
  ASSUME NEW b \in 0..MaxTurns, PromiseAt(b), NEW c \in Callers, NEW pc \in CallPcs,
         call' = [call EXCEPT ![c].pc = pc], injecting' = injecting,
         pc \in {"accepted", "requested", "taken"} => call[c].owner,
         pc = "accepted" => call[c].turn = None,
         pc # "asked",
         pc \in {"requested", "taken"} => call[c].turn = None \/ call[c].pc \in {"requested", "taken"},
         UNCHANGED <<handler, chain, log, told>>
  PROVE  call' \in [Callers -> CallRecords] /\ OwnerInv' /\ ToldInv(b)'
<1> DEFINE r == [call[c] EXCEPT !.pc = pc]
<1>1. call[c] \in CallRecords
  BY DEF PromiseAt, StateTypes
<1>2. r \in CallRecords /\ r.pc = pc /\ r.turn = call[c].turn /\ (r.owner <=> call[c].owner)
  BY <1>1 DEF CallRecords
<1>3. call' = [call EXCEPT ![c] = r]
  OBVIOUS
<1>4. call[c].owner => injecting
  BY DEF PromiseAt, OwnerInv
<1> HIDE DEF r
<1>5. r.pc \in {"accepted", "requested", "taken"} => r.owner
  BY <1>2
<1>6. r.pc \in {"asked", "accepted"} => r.turn = None
  BY <1>2
<1>7. r.owner => injecting' /\ (call[c].owner \/ ~injecting)
  BY <1>2, <1>4
<1>8. call[c].owner \/ (injecting => injecting')
  OBVIOUS
<1>9. r.pc \in {"requested", "taken"} /\ r.turn # None => call[c].pc \in {"requested", "taken"} /\ r.turn = call[c].turn
  BY <1>2
<1> QED BY <1>2, <1>3, <1>5, <1>6, <1>7, <1>8, <1>9, CallMoves

LEMMA AskedKeeps ==
  ASSUME NEW b \in 0..MaxTurns, PromiseAt(b), NEW c \in Callers, Asked(c)
  PROVE  PromiseAt(b)'
<1> USE DEF Asked, turnVars, flags, inbound, out
<1>1. UNCHANGED <<cur, tool, fin, notes, handler, chain, log, server, told, pend>>
  OBVIOUS
<1>2. pend' \subseteq Callers
  BY <1>1 DEF PromiseAt, StateTypes
<1>3. call[c].turn = None /\ injecting \in BOOLEAN
  BY DEF PromiseAt, OwnerInv, StateTypes
<1>4. CASE Released(c)
  BY <1>1, <1>2, <1>4, ReleaseKeeps, OnlyCalls
<1>5. ASSUME NEW pc \in {"accepted", "interrupt", "steer"}, call' = [call EXCEPT ![c].pc = pc], injecting' = injecting,
             call[c].owner
      PROVE  PromiseAt(b)'
  <2>1. call' \in [Callers -> CallRecords] /\ OwnerInv' /\ ToldInv(b)'
    <3>1. pc \in CallPcs /\ pc # "asked" /\ pc \notin {"requested", "taken"}
      BY DEF CallPcs
    <3> QED BY <1>1, <1>3, <1>5, <3>1, GoesTo
  <2> QED BY <1>1, <1>2, <1>3, <1>5, <2>1, OnlyCalls
<1>6. \/ Released(c)
      \/ \E pc \in {"accepted", "interrupt", "steer"} :
           call' = [call EXCEPT ![c].pc = pc] /\ injecting' = injecting /\ call[c].owner
  OBVIOUS
<1> QED BY <1>4, <1>5, <1>6

LEMMA SteeredKeeps ==
  ASSUME NEW b \in 0..MaxTurns, PromiseAt(b), NEW c \in Callers, Steered(c)
  PROVE  PromiseAt(b)'
<1> USE DEF Steered, turnVars, flags, inbound, out
<1>1. Released(c) /\ UNCHANGED <<cur, tool, fin, notes, handler, chain, log, server, told, pend>>
  OBVIOUS
<1>2. pend' \subseteq Callers
  BY <1>1 DEF PromiseAt, StateTypes
<1> QED BY <1>1, <1>2, ReleaseKeeps, OnlyCalls

LEMMA AbortTurnKeeps ==
  ASSUME NEW b \in 0..MaxTurns, PromiseAt(b), NEW c \in Callers, AbortTurn(c)
  PROVE  PromiseAt(b)'
<1> USE DEF AbortTurn, turnVars, flags, inbound, out
<1>1. UNCHANGED <<cur, tool, fin, notes, handler, chain, log, server, told, pend, injecting>>
  OBVIOUS
<1>2. pend' \subseteq Callers /\ injecting' \in BOOLEAN
  BY <1>1 DEF PromiseAt, StateTypes
<1>3. call' = [call EXCEPT ![c].pc = "interrupt"] /\ "interrupt" \in CallPcs
  BY DEF CallPcs
<1>4. call' \in [Callers -> CallRecords] /\ OwnerInv' /\ ToldInv(b)'
  BY <1>1, <1>3, GoesTo
<1> QED BY <1>1, <1>2, <1>4, OnlyCalls

LEMMA InterruptWaitsKeeps ==
  ASSUME NEW b \in 0..MaxTurns, PromiseAt(b), NEW c \in Callers, InterruptWaits(c)
  PROVE  PromiseAt(b)'
<1> USE DEF InterruptWaits, turnVars, flags, inbound, out
<1> DEFINE r == [call[c] EXCEPT !.pc = "wait", !.turn = cur]
<1>1. UNCHANGED <<cur, tool, fin, notes, handler, chain, log, server, told, pend, injecting>>
  OBVIOUS
<1>2. pend' \subseteq Callers /\ injecting' \in BOOLEAN /\ call[c] \in CallRecords /\ (call[c].owner => injecting)
  BY <1>1 DEF PromiseAt, StateTypes, OwnerInv
<1>3. cur \in 0..MaxTurns
  BY NumbersAreTyped DEF PromiseAt
<1>4. r \in CallRecords /\ r.pc = "wait" /\ (r.owner <=> call[c].owner)
  BY <1>2, <1>3 DEF CallRecords, CallPcs
<1>5. call' = [call EXCEPT ![c] = r]
  OBVIOUS
<1> HIDE DEF r
<1>6. call' \in [Callers -> CallRecords] /\ OwnerInv' /\ ToldInv(b)'
  <2>1. r.owner => injecting' /\ (call[c].owner \/ ~injecting)
    BY <1>1, <1>2, <1>4
  <2>2. call[c].owner \/ (injecting => injecting')
    BY <1>1
  <2>3. r.pc \notin {"asked", "accepted", "requested", "taken"}
    BY <1>4
  <2> HIDE DEF InterruptWaits
  <2> QED BY <1>1, <1>4, <1>5, <2>1, <2>2, <2>3, CallMoves
<1> QED BY <1>1, <1>2, <1>6, OnlyCalls

LEMMA InterruptEndsKeeps ==
  ASSUME NEW b \in 0..MaxTurns, PromiseAt(b), NEW c \in Callers, InterruptEnds(c)
  PROVE  PromiseAt(b)'
<1> USE DEF InterruptEnds, turnVars, flags, inbound, out
<1>1. UNCHANGED <<cur, tool, fin, notes, handler, chain, log, server, told, pend>>
  OBVIOUS
<1>2. pend' \subseteq Callers /\ injecting \in BOOLEAN /\ call[c] \in CallRecords /\ (call[c].owner => injecting)
  BY <1>1 DEF PromiseAt, StateTypes, OwnerInv
<1>3. CASE Released(c)
  BY <1>1, <1>2, <1>3, ReleaseKeeps, OnlyCalls
<1>4. CASE call[c].owner /\ call' = [call EXCEPT ![c].pc = "accepted", ![c].turn = None] /\ injecting' = injecting
  <2> DEFINE r == [call[c] EXCEPT !.pc = "accepted", !.turn = None]
  <2>1. r \in CallRecords /\ r.pc = "accepted" /\ r.turn = None /\ (r.owner <=> call[c].owner)
    <3>1. None \in 0..MaxTurns
      BY BoundsAssumption DEF None
    <3> QED BY <1>2, <3>1 DEF CallRecords, CallPcs
  <2>2. call' = [call EXCEPT ![c] = r]
    BY <1>4
  <2> HIDE DEF r
  <2>3. call' \in [Callers -> CallRecords] /\ OwnerInv' /\ ToldInv(b)'
    <3>1. r.owner => injecting' /\ (call[c].owner \/ ~injecting)
      BY <1>2, <1>4, <2>1
    <3>2. call[c].owner \/ (injecting => injecting')
      BY <1>4
    <3>3. (r.pc \in {"accepted", "requested", "taken"} => r.owner) /\ r.pc \notin {"requested", "taken"}
      BY <1>4, <2>1
    <3>4. r.pc \in {"asked", "accepted"} => r.turn = None
      BY <2>1
    <3> HIDE DEF InterruptEnds
    <3> QED BY <1>1, <2>1, <2>2, <3>1, <3>2, <3>3, <3>4, CallMoves
  <2> QED BY <1>1, <1>2, <1>4, <2>3, OnlyCalls
<1> QED BY <1>3, <1>4

LEMMA AcceptedKeeps ==
  ASSUME NEW b \in 0..MaxTurns, PromiseAt(b), NEW c \in Callers, Accepted(c)
  PROVE  PromiseAt(b)'
<1> USE DEF Accepted, turnVars, flags, inbound, out
<1>1. UNCHANGED <<cur, tool, fin, notes, handler, chain, log, server, told>> /\ call[c].pc = "accepted"
  OBVIOUS
<1>2. injecting \in BOOLEAN /\ call[c].owner /\ call[c].turn = None /\ pend \subseteq Callers
  BY <1>1 DEF PromiseAt, StateTypes, OwnerInv
<1>3. pend' \subseteq Callers
  BY <1>2
<1>4. CASE Released(c)
  BY <1>1, <1>3, <1>4, ReleaseKeeps, OnlyCalls
<1>5. CASE call' = [call EXCEPT ![c].pc = "requested"] /\ injecting' = injecting
  <2>1. "requested" \in CallPcs
    BY DEF CallPcs
  <2>2. call' \in [Callers -> CallRecords] /\ OwnerInv' /\ ToldInv(b)'
    BY <1>1, <1>2, <1>5, <2>1, GoesTo
  <2> QED BY <1>1, <1>2, <1>3, <1>5, <2>2, OnlyCalls
<1> QED BY <1>4, <1>5

LEMMA RequestFailsKeeps ==
  ASSUME NEW b \in 0..MaxTurns, PromiseAt(b), NEW c \in Callers, RequestFails(c)
  PROVE  PromiseAt(b)'
<1>1. UNCHANGED <<cur, tool, fin, notes, handler, chain, log, server, told>> /\ Released(c) /\ pend' \subseteq Callers
  BY DEF RequestFails, turnVars, flags, inbound, out
<1> QED BY <1>1, ReleaseKeeps, OnlyCalls

LEMMA AcknowledgedKeeps ==
  ASSUME NEW b \in 0..MaxTurns, PromiseAt(b), NEW c \in Callers, Acknowledged(c)
  PROVE  PromiseAt(b)'
<1> USE DEF PromiseAt
<1>1. UNCHANGED <<cur, tool, fin, notes, handler, chain, log, server, pend>> /\ Released(c)
  BY DEF Acknowledged, turnVars, flags, inbound, out
<1>2. call[c].pc = "taken" /\ told' = IF call[c].lost THEN told ELSE told \cup {call[c].turn}
  BY DEF Acknowledged
<1>3. CASE call[c].lost
  BY <1>1, <1>2, <1>3, ReleaseKeeps, OnlyCalls DEF StateTypes
<1>4. CASE ~call[c].lost
  <2> DEFINE t == call[c].turn
  <2>1. t # None /\ told' = told \cup {t}
    BY <1>2, <1>4 DEF Acknowledged
  <2>2. t \in 1..b /\ (handler.pc \in {"started", "settle"} => t # b)
    BY <1>2, <2>1 DEF ToldInv
  <2>3. Idle \in CallRecords /\ Idle.pc = "free" /\ ~Idle.owner
    BY BoundsAssumption DEF Idle, CallRecords, CallPcs, None
  <2>4. call' = [call EXCEPT ![c] = Idle] /\ injecting' = (IF call[c].owner THEN FALSE ELSE injecting)
    BY <1>1 DEF Released
  <2>5. call' \in [Callers -> CallRecords] /\ call'[c] = Idle /\ \A d \in Callers : d # c => call'[d] = call[d]
    BY <2>3, <2>4 DEF StateTypes
  <2>6. OwnerInv'
    BY <2>3, <2>4, <2>5 DEF OwnerInv
  <2>7. \A d \in Callers : call'[d].pc \in {"requested", "taken"} => FALSE
    BY <1>2, <2>3, <2>5 DEF OwnerInv
  <2>8. Out("note")' <=> Out("note")
    BY <1>1 DEF Out
  <2>9. ToldInv(b)'
    BY <1>1, <2>1, <2>2, <2>7, <2>8 DEF ToldInv
  <2>10. injecting' \in BOOLEAN /\ told' \subseteq 1..b /\ pend' \subseteq Callers /\ server' \in ServerRecords
    BY <1>1, <2>1, <2>2, <2>4 DEF StateTypes
  <2> QED BY <1>1, <2>5, <2>6, <2>9, <2>10, NothingNew
<1> QED BY <1>3, <1>4

-----------------------------------------------------------------------------
(* Of the app-server and the close, those that nothing is heard of           *)

\* Of the steps that change the server alone.
LEMMA OnlyServer ==
  ASSUME NEW b \in 0..MaxTurns, PromiseAt(b), UNCHANGED <<cur, tool, fin, notes, handler, chain, log, call, pend,
         injecting, told>>,
         server' \in ServerRecords, server'.routed = server.routed,
         fin = "no" => server'.run = server.run /\ server'.count = server.count /\ server'.tool = server.tool
  PROVE  PromiseAt(b)'
<1>1. /\ pend' \subseteq Callers /\ call' \in [Callers -> CallRecords] /\ injecting' \in BOOLEAN /\ told' \subseteq 1..b
      /\ OwnerInv'
  BY DEF PromiseAt, StateTypes, OwnerInv
<1>2. Out("note")' <=> Out("note")
  BY DEF Out
<1>3. ToldInv(b)'
  BY <1>2 DEF PromiseAt, ToldInv
<1> QED BY <1>1, <1>3, NothingNew

LEMMA ServerTakesKeeps ==
  ASSUME NEW b \in 0..MaxTurns, PromiseAt(b), NEW c \in Callers, ServerTakes(c)
  PROVE  PromiseAt(b)'
<1> USE DEF turnVars, flags, inbound, out
<1>1. /\ UNCHANGED <<cur, tool, fin, notes, handler, chain, log, told, pend, injecting>> /\ call[c].pc = "requested"
      /\ call' = [call EXCEPT ![c].pc = "taken"] /\ server' = [server EXCEPT !.todo = @ \cup {c}]
  BY DEF ServerTakes
<1>2. "taken" \in CallPcs /\ call[c].owner
  BY <1>1 DEF CallPcs, PromiseAt, OwnerInv
<1>3. call' \in [Callers -> CallRecords] /\ OwnerInv' /\ ToldInv(b)'
  BY <1>1, <1>2, GoesTo
<1>4. server \in ServerRecords
  BY DEF PromiseAt, StateTypes
<1>5. /\ server' \in ServerRecords /\ server'.routed = server.routed
      /\ server'.run = server.run /\ server'.count = server.count /\ server'.tool = server.tool
  BY <1>1, <1>4 DEF ServerRecords
<1>6. pend' \subseteq Callers /\ injecting' \in BOOLEAN /\ told' \subseteq 1..b
  BY <1>1 DEF PromiseAt, StateTypes
<1> QED BY <1>1, <1>3, <1>5, <1>6, NothingNew

LEMMA CompactBeginKeeps == ASSUME NEW b \in 0..MaxTurns, PromiseAt(b), CompactBegin PROVE PromiseAt(b)'
<1>1. /\ UNCHANGED <<cur, tool, fin, notes, handler, chain, log, call, pend, injecting, told>>
      /\ server' = [server EXCEPT !.compacts = server.alive]
  BY DEF CompactBegin, turnVars, flags, inbound, out
<1>2. server \in ServerRecords
  BY DEF PromiseAt, StateTypes
<1>3. /\ server' \in ServerRecords /\ server'.routed = server.routed
      /\ server'.run = server.run /\ server'.count = server.count /\ server'.tool = server.tool
  BY <1>1, <1>2 DEF ServerRecords
<1> QED BY <1>1, <1>3, OnlyServer

LEMMA CompactFailsKeeps == ASSUME NEW b \in 0..MaxTurns, PromiseAt(b), CompactFails PROVE PromiseAt(b)'
<1>1. /\ UNCHANGED <<cur, tool, fin, notes, handler, chain, log, call, pend, injecting, told>>
      /\ server' = [server EXCEPT !.compacts = FALSE]
  BY DEF CompactFails, turnVars, flags, inbound, out
<1>2. server \in ServerRecords
  BY DEF PromiseAt, StateTypes
<1>3. /\ server' \in ServerRecords /\ server'.routed = server.routed
      /\ server'.run = server.run /\ server'.count = server.count /\ server'.tool = server.tool
  BY <1>1, <1>2 DEF ServerRecords
<1> QED BY <1>1, <1>3, OnlyServer

LEMMA CloseKeeps == ASSUME NEW b \in 0..MaxTurns, PromiseAt(b), NEW force \in BOOLEAN, Close(force) PROVE PromiseAt(b)'
<1>1. UNCHANGED <<cur, tool, fin, notes, handler, chain, log, call, pend, injecting, told, server>>
  BY DEF Close, turnVars, flags, inbound, out
<1>2. server' \in ServerRecords
  BY <1>1 DEF PromiseAt, StateTypes
<1> QED BY <1>1, <1>2, OnlyServer

LEMMA StutterKeeps == ASSUME NEW b \in 0..MaxTurns, PromiseAt(b), UNCHANGED vars PROVE PromiseAt(b)'
<1>1. UNCHANGED <<cur, tool, fin, notes, handler, chain, log, call, pend, injecting, told, server>>
  BY DEF vars, turnVars, flags, inbound, out
<1>2. server' \in ServerRecords
  BY <1>1 DEF PromiseAt, StateTypes
<1> QED BY <1>1, <1>2, OnlyServer

-----------------------------------------------------------------------------
(* The app-server speaks                                                     *)

LEMMA RankIsTyped ==
  ASSUME server \in ServerRecords
  PROVE  Sent \in Nat /\ \A n \in NoteRecords : Rank(n.kind, n.turn) \in Nat
<1>1. server.run \in Nat /\ server.count \in Nat
  BY BoundsAssumption DEF ServerRecords
<1>2. Sent \in Nat
  BY <1>1 DEF Sent
<1>3. ASSUME NEW n \in NoteRecords PROVE Rank(n.kind, n.turn) \in Nat
  <2>1. n.turn \in Nat
    BY BoundsAssumption DEF NoteRecords
  <2> QED BY <2>1 DEF Rank
<1> QED BY <1>2, <1>3

\* A note joins those that are not handled.
LEMMA NotesGrow ==
  ASSUME notes \in Seq(NoteRecords), NEW n \in NoteRecords, notes' = Append(notes, n), handler' = handler,
         handler.pc # "idle" => notes # <<>>, handler \in HandlerRecords
  PROVE  /\ notes' \in Seq(NoteRecords) /\ notes' # <<>>
         /\ \A k, t : Ahead(k, t)' <=> Ahead(k, t) \/ (k = n.kind /\ t = n.turn)
         /\ (notes # <<>> => notes'[1] = notes[1])
<1> DEFINE l == Len(notes) + 1
<1>1. /\ notes' \in Seq(NoteRecords) /\ notes' # <<>> /\ l \in Nat /\ l \in DOMAIN notes' /\ notes'[l] = n
      /\ \A i \in DOMAIN notes : i \in DOMAIN notes' /\ notes'[i] = notes[i] /\ i \in Nat /\ i < l /\ i # l
      /\ \A i \in DOMAIN notes' : i \in Nat /\ (i \in DOMAIN notes \/ i = l)
      /\ (notes # <<>> => 1 \in DOMAIN notes /\ notes'[1] = notes[1])
      /\ (notes = <<>> => l = 1)
  BY AppendIndex
<1> HIDE DEF l
<1>2. l # 1 \/ handler.pc \notin Begun
  BY <1>1 DEF Begun
<1>3. ASSUME NEW k, NEW t, Ahead(k, t)' PROVE Ahead(k, t) \/ (k = n.kind /\ t = n.turn)
  BY <1>1, <1>3 DEF Ahead
<1>4. ASSUME NEW k, NEW t, Ahead(k, t) PROVE Ahead(k, t)'
  BY <1>1, <1>4 DEF Ahead
<1>5. Ahead(n.kind, n.turn)'
  BY <1>1, <1>2 DEF Ahead
<1>6. \A k, t : Ahead(k, t)' <=> Ahead(k, t) \/ (k = n.kind /\ t = n.turn)
  BY <1>3, <1>4, <1>5
<1> QED BY <1>1, <1>6

\* It is later than all the others.
LEMMA OrderGrows ==
  ASSUME notes \in Seq(NoteRecords), server \in ServerRecords, server' \in ServerRecords, OrderInv,
         NEW n \in NoteRecords, notes' = Append(notes, n), Sent <= Sent',
         n.kind # "compacted" => Sent < Rank(n.kind, n.turn) /\ Rank(n.kind, n.turn) <= Sent' /\ n.turn # None
  PROVE  OrderInv'
<1> DEFINE l == Len(notes) + 1
<1>1. /\ notes' \in Seq(NoteRecords) /\ l \in Nat /\ l \in DOMAIN notes' /\ notes'[l] = n
      /\ \A i \in DOMAIN notes : i \in DOMAIN notes' /\ notes'[i] = notes[i] /\ i \in Nat /\ i < l /\ i # l
      /\ \A i \in DOMAIN notes' : i \in Nat /\ (i \in DOMAIN notes \/ i = l)
  BY AppendIndex
<1> HIDE DEF l
<1>2. Sent \in Nat /\ Sent' \in Nat /\ \A i \in DOMAIN notes : Rank(notes[i].kind, notes[i].turn) \in Nat
  <2>1. \A i \in DOMAIN notes : notes[i] \in NoteRecords
    OBVIOUS
  <2>2. Sent' \in Nat
    <3>1. server'.run \in Nat /\ server'.count \in Nat
      BY BoundsAssumption DEF ServerRecords
    <3> QED BY <3>1 DEF Sent
  <2> QED BY <2>1, <2>2, RankIsTyped
<1>3. Rank(n.kind, n.turn) \in Nat
  BY RankIsTyped
<1>4. ASSUME NEW i \in DOMAIN notes', notes'[i].kind # "compacted"
      PROVE  Rank(notes'[i].kind, notes'[i].turn) <= Sent' /\ notes'[i].turn # None
  <2>1. CASE i = l
    BY <1>1, <1>4, <2>1
  <2>2. CASE i \in DOMAIN notes
    <3>1. Rank(notes[i].kind, notes[i].turn) <= Sent /\ notes[i].turn # None /\ notes'[i] = notes[i]
      BY <1>1, <1>4, <2>2 DEF OrderInv
    <3> QED BY <1>2, <2>2, <3>1
  <2> QED BY <1>1, <2>1, <2>2
<1>5. ASSUME NEW i \in DOMAIN notes', NEW j \in DOMAIN notes', i < j, notes'[i].kind # "compacted", notes'[j].kind # "compacted"
      PROVE  Rank(notes'[i].kind, notes'[i].turn) < Rank(notes'[j].kind, notes'[j].turn)
  <2>1. CASE j \in DOMAIN notes
    <3>1. i \in DOMAIN notes /\ notes'[i] = notes[i] /\ notes'[j] = notes[j]
      BY <1>1, <1>5, <2>1
    <3> QED BY <1>5, <2>1, <3>1 DEF OrderInv
  <2>2. CASE j = l
    <3>1. i \in DOMAIN notes /\ notes'[i] = notes[i] /\ notes'[j] = n
      BY <1>1, <1>5, <2>2
    <3>2. Rank(notes[i].kind, notes[i].turn) <= Sent /\ Sent < Rank(n.kind, n.turn)
      BY <1>5, <3>1 DEF OrderInv
    <3> QED BY <1>2, <1>3, <3>1, <3>2
  <2> QED BY <1>1, <2>1, <2>2
<1> QED BY <1>4, <1>5 DEF OrderInv, Rank

\* Nothing is heard of it yet.
LEMMA NoteArrives ==
  ASSUME NEW b \in 0..MaxTurns, PromiseAt(b), fin = "no", NEW n \in NoteRecords, notes' = Append(notes, n),
         server' \in ServerRecords, server'.routed = server.routed, NotesInv(b)',
         UNCHANGED <<cur, tool, fin, handler, chain, log, call, pend, injecting, told>>
  PROVE  PromiseAt(b)'
<1> USE DEF PromiseAt
<1>1. handler.pc # "idle" => notes # <<>>
  BY DEF HandlerInv
<1>2. notes' \in Seq(NoteRecords) /\ notes' # <<>> /\ (notes # <<>> => notes'[1] = notes[1])
  BY <1>1, NotesGrow DEF StateTypes
<1>3. StateTypes(b)'
  BY <1>2 DEF StateTypes
<1>4. OwnerInv' /\ HandlerInv(b)'
  BY <1>2 DEF OwnerInv, HandlerInv
<1>5. \A x : Out(x)' <=> Out(x)
  BY DEF Out
<1>6. ToldInv(b)'
  BY <1>5 DEF ToldInv
<1>7. EndingInv'
  BY <1>1, <1>2 DEF EndingInv, Begun
<1>8. ChainInv(b)'
  <2>1. \A x \in EventRecords : InChain(x) => Fits(x, b)'
    BY <1>1, <1>2 DEF ChainInv, Fits
  <2> QED BY <2>1, ChainStays
<1>9. LogInv(b)'
  <2>1. (Unsaid' <=> Unsaid) /\ (EndIsOut(b)' <=> EndIsOut(b)) /\ ToolOut' = ToolOut
    BY <1>1, <1>2, <1>5 DEF Unsaid, EndIsOut, ToolOut
  <2>2. \A u \in Turns : TurnOut(u, b)' = TurnOut(u, b)
    BY <2>1 DEF TurnOut
  <2> QED BY <2>1, <2>2 DEF LogInv
<1> QED BY <1>3, <1>4, <1>6, <1>7, <1>8, <1>9

LEMMA SaysKeeps ==
  ASSUME NEW b \in 0..MaxTurns, PromiseAt(b), NEW n \in NoteRecords, NEW s \in ServerRecords,
         s.routed = server.routed,
         Says(n, s), fin = "no" /\ notes' = Append(notes, n) /\ server' = s /\ UNCHANGED <<cur, tool,
         handler>> => NotesInv(b)'
  PROVE  PromiseAt(b)'
<1>1. /\ UNCHANGED <<cur, tool, fin, handler, chain, log, call, pend, injecting, told>> /\ server' = s
      /\ notes' = IF server.routed THEN Append(notes, n) ELSE notes
  BY DEF Says, turnVars, flags, out
<1>2. server.routed <=> fin = "no"
  BY DEF PromiseAt, EndingInv
<1>3. CASE fin = "no"
  <2>1. notes' = Append(notes, n) /\ NotesInv(b)'
    BY <1>1, <1>2, <1>3
  <2> QED BY <1>1, <1>3, <2>1, NoteArrives
<1>4. CASE fin # "no"
  <2>1. notes' = notes
    BY <1>1, <1>2, <1>4
  <2> QED BY <1>1, <1>4, <2>1, OnlyServer
<1> QED BY <1>3, <1>4

\* Where the server is, in numbers.
LEMMA ServerPlace ==
  ASSUME NEW b \in 0..MaxTurns, PromiseAt(b), fin = "no"
  PROVE  /\ b \in Nat /\ cur \in {None, b} /\ server.count \in Nat /\ server.run \in Nat /\ server.run \in {None, server.count}
         /\ None = 0 /\ OrderInv /\ FlowInv(b) /\ notes \in Seq(NoteRecords) /\ server \in ServerRecords
         /\ \A t \in Turns : t \in Nat /\ t # 0 /\ t \in 0..MaxTurns
BY BoundsAssumption DEF PromiseAt, StateTypes, NotesInv, ServerRecords, Turns, None

LEMMA AheadGrows ==
  ASSUME NEW b \in 0..MaxTurns, PromiseAt(b), NEW n \in NoteRecords, notes' = Append(notes, n), handler' = handler
  PROVE  \A k, t : Ahead(k, t)' <=> Ahead(k, t) \/ (k = n.kind /\ t = n.turn)
<1>1. handler.pc # "idle" => notes # <<>>
  BY DEF PromiseAt, HandlerInv
<1> QED BY <1>1, NotesGrow DEF PromiseAt, StateTypes

LEMMA ServerStartsKeeps == ASSUME NEW b \in 0..MaxTurns, PromiseAt(b), ServerStarts PROVE PromiseAt(b)'
<1> DEFINE n == [kind |-> "started", turn |-> server.count + 1]
<1>1. PICK c \in server.todo :
        Says(n, [server EXCEPT !.todo = @ \ {c}, !.run = server.count + 1, !.count = @ + 1, !.tool = "unused"])
  BY DEF ServerStarts
<1> DEFINE s == [server EXCEPT !.todo = @ \ {c}, !.run = server.count + 1, !.count = @ + 1, !.tool = "unused"]
<1>2. server \in ServerRecords /\ server.run = None /\ server.count + 1 \in 0..MaxTurns /\ server.count \in Nat
  BY BoundsAssumption DEF ServerStarts, PromiseAt, StateTypes, ServerRecords
<1>3. /\ s \in ServerRecords /\ s.routed = server.routed
      /\ s.run = server.count + 1 /\ s.count = server.count + 1 /\ s.tool = "unused"
  BY <1>2 DEF ServerRecords
<1>4. n \in NoteRecords /\ n.kind = "started" /\ n.turn = server.count + 1
  BY <1>2 DEF NoteRecords, NoteKinds
<1>5. Says(n, s)
  BY <1>1
<1> HIDE DEF n, s
<1>6. ASSUME fin = "no", notes' = Append(notes, n), server' = s, UNCHANGED <<cur, tool, handler>> PROVE NotesInv(b)'
  <2>1. /\ b \in Nat /\ cur \in {None, b} /\ server.count \in Nat /\ None = 0 /\ OrderInv /\ FlowInv(b)
        /\ notes \in Seq(NoteRecords) /\ \A t \in Turns : t \in Nat /\ t # 0
    BY <1>6, ServerPlace
  <2>2. \A k, t : Ahead(k, t)' <=> Ahead(k, t) \/ (k = "started" /\ t = server.count + 1)
    BY <1>4, <1>6, AheadGrows
  <2>3. Sent = 4 * server.count + 3 /\ Sent' = 4 * (server.count + 1)
    BY <1>2, <1>3, <1>6, <2>1 DEF Sent
  <2>4. Rank(n.kind, n.turn) = 4 * (server.count + 1)
    BY <1>4, <2>1 DEF Rank
  <2>5. OrderInv'
    <3>1. n.turn # None /\ server' \in ServerRecords
      BY <1>3, <1>4, <1>6, <2>1
    <3>2. Sent <= Sent' /\ Sent < Rank(n.kind, n.turn) /\ Rank(n.kind, n.turn) <= Sent'
      BY <2>1, <2>3, <2>4
    <3> QED BY <1>2, <1>4, <1>6, <2>1, <3>1, <3>2, OrderGrows
  <2>6. FlowInv(b)'
    <3>1. server'.run = server.count + 1 /\ server'.count = server.count + 1 /\ server'.tool = "unused" /\ server.run = None
      BY <1>2, <1>3, <1>6
    <3>2. (b <= server.count)' /\ \A t \in Turns : Ahead("started", t)' <=> b < t /\ t <= server'.count
      BY <2>1, <2>2, <3>1 DEF FlowInv
    <3>3. \A t \in Turns : Ahead("completed", t)' <=> t <= server'.count /\ (b < t \/ t = cur') /\ server'.run # t
      BY <1>6, <2>1, <2>2, <3>1 DEF FlowInv
    <3>4. server'.run = b => FALSE
      BY <2>1, <3>1 DEF FlowInv
    <3>5. \A t \in Turns : Ahead("item_started", t)' \/ (t = cur' /\ tool') <=>
            Ahead("item_completed", t)' \/ (server'.run = t /\ server'.tool = "runs")
      BY <1>6, <2>1, <2>2, <3>1 DEF FlowInv
    <3>6. \A t \in Turns : Ahead("item_started", t)' => b < t \/ (t = cur' /\ ~tool')
      BY <1>6, <2>1, <2>2 DEF FlowInv
    <3> QED BY <3>2, <3>3, <3>4, <3>5, <3>6 DEF FlowInv
  <2>7. server'.run = server'.count
    BY <1>3, <1>6
  <2> QED BY <2>5, <2>6, <2>7 DEF NotesInv
<1> QED BY <1>3, <1>4, <1>5, <1>6, SaysKeeps

LEMMA ToolStartsKeeps ==
  ASSUME NEW b \in 0..MaxTurns, PromiseAt(b), server.run # None, server.tool = "unused",
         Says([kind |-> "item_started", turn |-> server.run], [server EXCEPT !.tool = "runs"])
  PROVE  PromiseAt(b)'
<1> DEFINE n == [kind |-> "item_started", turn |-> server.run]
           s == [server EXCEPT !.tool = "runs"]
<1>1. server \in ServerRecords
  BY DEF PromiseAt, StateTypes
<1>2. s \in ServerRecords /\ s.routed = server.routed /\ s.run = server.run /\ s.count = server.count /\ s.tool = "runs"
  BY <1>1 DEF ServerRecords
<1>3. n \in NoteRecords /\ n.kind = "item_started" /\ n.turn = server.run
  BY <1>1 DEF NoteRecords, NoteKinds, ServerRecords
<1>4. Says(n, s)
  OBVIOUS
<1> HIDE DEF n, s
<1>5. ASSUME fin = "no", notes' = Append(notes, n), server' = s, UNCHANGED <<cur, tool, handler>> PROVE NotesInv(b)'
  <2>1. /\ b \in Nat /\ cur \in {None, b} /\ server.count \in Nat /\ server.run \in Nat /\ server.run = server.count
        /\ None = 0 /\ OrderInv /\ FlowInv(b) /\ notes \in Seq(NoteRecords) /\ \A t \in Turns : t \in Nat /\ t # 0
    BY <1>5, ServerPlace
  <2>2. \A k, t : Ahead(k, t)' <=> Ahead(k, t) \/ (k = "item_started" /\ t = server.run)
    BY <1>3, <1>5, AheadGrows
  <2>3. Sent = 4 * server.run /\ Sent' = 4 * server.run + 1
    BY <1>2, <1>5, <2>1 DEF Sent
  <2>4. Rank(n.kind, n.turn) = 4 * server.run + 1
    BY <1>3 DEF Rank
  <2>5. OrderInv'
    <3>1. n.turn # None /\ server' \in ServerRecords
      BY <1>2, <1>3, <1>5
    <3>2. Sent <= Sent' /\ Sent < Rank(n.kind, n.turn) /\ Rank(n.kind, n.turn) <= Sent'
      BY <2>1, <2>3, <2>4
    <3> QED BY <1>1, <1>3, <1>5, <2>1, <3>1, <3>2, OrderGrows
  <2>6. ~Ahead("item_completed", server.run)
    <3> SUFFICES ASSUME NEW i \in DOMAIN notes, notes[i].kind = "item_completed", notes[i].turn = server.run PROVE FALSE
      BY DEF Ahead
    <3>1. Rank(notes[i].kind, notes[i].turn) = 4 * server.run + 2
      BY DEF Rank
    <3>2. Rank(notes[i].kind, notes[i].turn) <= Sent
      BY <2>1 DEF OrderInv
    <3> QED BY <2>1, <2>3, <3>1, <3>2
  <2>7. FlowInv(b)'
    <3>1. server'.run = server.run /\ server'.count = server.count /\ server'.tool = "runs"
      BY <1>2, <1>5
    <3>2. (b <= server.count)' /\ \A t \in Turns : Ahead("started", t)' <=> b < t /\ t <= server'.count
      BY <2>1, <2>2, <3>1 DEF FlowInv
    <3>3. \A t \in Turns : Ahead("completed", t)' <=> t <= server'.count /\ (b < t \/ t = cur') /\ server'.run # t
      BY <1>5, <2>1, <2>2, <3>1 DEF FlowInv
    <3>4. server'.run = b /\ b # 0 => cur' = b
      BY <1>5, <2>1, <3>1 DEF FlowInv
    <3>5. \A t \in Turns : Ahead("item_started", t)' \/ (t = cur' /\ tool') <=>
            Ahead("item_completed", t)' \/ (server'.run = t /\ server'.tool = "runs")
      BY <1>5, <2>1, <2>2, <3>1 DEF FlowInv
    <3>6. server.run \in Turns
      BY <1>1, <2>1 DEF ServerRecords, Turns
    <3>7. ~(server.run = cur /\ tool)
      BY <2>1, <2>6, <3>6 DEF FlowInv
    <3>8. \A t \in Turns : Ahead("item_started", t)' => b < t \/ (t = cur' /\ ~tool')
      BY <1>5, <2>1, <2>2, <3>7 DEF FlowInv
    <3> QED BY <3>2, <3>3, <3>4, <3>5, <3>8 DEF FlowInv
  <2>8. server'.run = server'.count
    BY <1>2, <1>5, <2>1
  <2> QED BY <2>5, <2>7, <2>8 DEF NotesInv
<1> QED BY <1>2, <1>3, <1>4, <1>5, SaysKeeps

LEMMA ToolEndsKeeps ==
  ASSUME NEW b \in 0..MaxTurns, PromiseAt(b), server.run # None, server.tool = "runs",
         Says([kind |-> "item_completed", turn |-> server.run], [server EXCEPT !.tool = "used"])
  PROVE  PromiseAt(b)'
<1> DEFINE n == [kind |-> "item_completed", turn |-> server.run]
           s == [server EXCEPT !.tool = "used"]
<1>1. server \in ServerRecords
  BY DEF PromiseAt, StateTypes
<1>2. s \in ServerRecords /\ s.routed = server.routed /\ s.run = server.run /\ s.count = server.count /\ s.tool = "used"
  BY <1>1 DEF ServerRecords
<1>3. n \in NoteRecords /\ n.kind = "item_completed" /\ n.turn = server.run
  BY <1>1 DEF NoteRecords, NoteKinds, ServerRecords
<1>4. Says(n, s)
  OBVIOUS
<1> HIDE DEF n, s
<1>5. ASSUME fin = "no", notes' = Append(notes, n), server' = s, UNCHANGED <<cur, tool, handler>> PROVE NotesInv(b)'
  <2>1. /\ b \in Nat /\ cur \in {None, b} /\ server.count \in Nat /\ server.run \in Nat /\ server.run = server.count
        /\ None = 0 /\ OrderInv /\ FlowInv(b) /\ notes \in Seq(NoteRecords) /\ \A t \in Turns : t \in Nat /\ t # 0
    BY <1>5, ServerPlace
  <2>2. \A k, t : Ahead(k, t)' <=> Ahead(k, t) \/ (k = "item_completed" /\ t = server.run)
    BY <1>3, <1>5, AheadGrows
  <2>3. Sent = 4 * server.run + 1 /\ Sent' = 4 * server.run + 2
    BY <1>2, <1>5, <2>1 DEF Sent
  <2>4. Rank(n.kind, n.turn) = 4 * server.run + 2
    BY <1>3 DEF Rank
  <2>5. OrderInv'
    <3>1. n.turn # None /\ server' \in ServerRecords
      BY <1>2, <1>3, <1>5
    <3>2. Sent <= Sent' /\ Sent < Rank(n.kind, n.turn) /\ Rank(n.kind, n.turn) <= Sent'
      BY <2>1, <2>3, <2>4
    <3> QED BY <1>1, <1>3, <1>5, <2>1, <3>1, <3>2, OrderGrows
  <2>6. FlowInv(b)'
    <3>1. server'.run = server.run /\ server'.count = server.count /\ server'.tool = "used"
      BY <1>2, <1>5
    <3>2. (b <= server.count)' /\ \A t \in Turns : Ahead("started", t)' <=> b < t /\ t <= server'.count
      BY <2>1, <2>2, <3>1 DEF FlowInv
    <3>3. \A t \in Turns : Ahead("completed", t)' <=> t <= server'.count /\ (b < t \/ t = cur') /\ server'.run # t
      BY <1>5, <2>1, <2>2, <3>1 DEF FlowInv
    <3>4. server'.run = b /\ b # 0 => cur' = b
      BY <1>5, <2>1, <3>1 DEF FlowInv
    <3>5. \A t \in Turns : Ahead("item_started", t)' \/ (t = cur' /\ tool') <=>
            Ahead("item_completed", t)' \/ (server'.run = t /\ server'.tool = "runs")
      BY <1>5, <2>1, <2>2, <3>1 DEF FlowInv
    <3>6. \A t \in Turns : Ahead("item_started", t)' => b < t \/ (t = cur' /\ ~tool')
      BY <1>5, <2>1, <2>2 DEF FlowInv
    <3> QED BY <3>2, <3>3, <3>4, <3>5, <3>6 DEF FlowInv
  <2>7. server'.run = server'.count
    BY <1>2, <1>5, <2>1
  <2> QED BY <2>5, <2>6, <2>7 DEF NotesInv
<1> QED BY <1>2, <1>3, <1>4, <1>5, SaysKeeps

LEMMA ServerToolKeeps == ASSUME NEW b \in 0..MaxTurns, PromiseAt(b), ServerTool PROVE PromiseAt(b)'
BY ToolStartsKeeps, ToolEndsKeeps DEF ServerTool

LEMMA ServerCompletesKeeps == ASSUME NEW b \in 0..MaxTurns, PromiseAt(b), ServerCompletes PROVE PromiseAt(b)'
<1> DEFINE n == [kind |-> "completed", turn |-> server.run]
           s == [server EXCEPT !.run = None]
<1>1. server \in ServerRecords /\ server.run # None /\ server.tool # "runs"
  BY DEF ServerCompletes, PromiseAt, StateTypes
<1>2. s \in ServerRecords /\ s.routed = server.routed /\ s.run = None /\ s.count = server.count /\ s.tool = server.tool
  <2>1. None \in 0..MaxTurns
    BY BoundsAssumption DEF None
  <2> QED BY <1>1, <2>1 DEF ServerRecords
<1>3. n \in NoteRecords /\ n.kind = "completed" /\ n.turn = server.run
  BY <1>1 DEF NoteRecords, NoteKinds, ServerRecords
<1>4. Says(n, s)
  BY DEF ServerCompletes
<1> HIDE DEF n, s
<1>5. ASSUME fin = "no", notes' = Append(notes, n), server' = s, UNCHANGED <<cur, tool, handler>> PROVE NotesInv(b)'
  <2>1. /\ b \in Nat /\ cur \in {None, b} /\ server.count \in Nat /\ server.run \in Nat /\ server.run = server.count
        /\ None = 0 /\ OrderInv /\ FlowInv(b) /\ notes \in Seq(NoteRecords) /\ \A t \in Turns : t \in Nat /\ t # 0
    BY <1>1, <1>5, ServerPlace
  <2>2. \A k, t : Ahead(k, t)' <=> Ahead(k, t) \/ (k = "completed" /\ t = server.run)
    BY <1>3, <1>5, AheadGrows
  <2>3. Sent \in {4 * server.run, 4 * server.run + 2} /\ Sent' = 4 * server.run + 3
    BY <1>1, <1>2, <1>5, <2>1 DEF Sent
  <2>4. Rank(n.kind, n.turn) = 4 * server.run + 3
    BY <1>3 DEF Rank
  <2>5. OrderInv'
    <3>1. n.turn # None /\ server' \in ServerRecords
      BY <1>1, <1>2, <1>3, <1>5
    <3>2. Sent <= Sent' /\ Sent < Rank(n.kind, n.turn) /\ Rank(n.kind, n.turn) <= Sent'
      BY <2>1, <2>3, <2>4
    <3> QED BY <1>1, <1>3, <1>5, <2>1, <3>1, <3>2, OrderGrows
  <2>6. FlowInv(b)'
    <3>1. server'.run = None /\ server'.count = server.count /\ server'.tool = server.tool
      BY <1>2, <1>5
    <3>2. (b <= server.count)' /\ \A t \in Turns : Ahead("started", t)' <=> b < t /\ t <= server'.count
      BY <2>1, <2>2, <3>1 DEF FlowInv
    <3>3. b < server.run \/ server.run = cur
      BY <1>1, <2>1 DEF FlowInv
    <3>4. \A t \in Turns : Ahead("completed", t)' <=> t <= server'.count /\ (b < t \/ t = cur') /\ server'.run # t
      BY <1>5, <2>1, <2>2, <3>1, <3>3 DEF FlowInv
    <3>5. server'.run = b /\ b # 0 => FALSE
      BY <2>1, <3>1
    <3>6. \A t \in Turns : Ahead("item_started", t)' \/ (t = cur' /\ tool') <=>
            Ahead("item_completed", t)' \/ (server'.run = t /\ server'.tool = "runs")
      BY <1>1, <1>5, <2>1, <2>2, <3>1 DEF FlowInv
    <3>7. \A t \in Turns : Ahead("item_started", t)' => b < t \/ (t = cur' /\ ~tool')
      BY <1>5, <2>1, <2>2 DEF FlowInv
    <3> QED BY <3>2, <3>4, <3>5, <3>6, <3>7 DEF FlowInv
  <2>7. server'.run = None
    BY <1>2, <1>5
  <2> QED BY <2>5, <2>6, <2>7 DEF NotesInv
<1> QED BY <1>2, <1>3, <1>4, <1>5, SaysKeeps

LEMMA ServerCompactsKeeps == ASSUME NEW b \in 0..MaxTurns, PromiseAt(b), ServerCompacts PROVE PromiseAt(b)'
<1> DEFINE n == [kind |-> "compacted", turn |-> None]
           s == [server EXCEPT !.compacts = FALSE]
<1>1. server \in ServerRecords
  BY DEF PromiseAt, StateTypes
<1>2. s \in ServerRecords /\ s.routed = server.routed /\ s.run = server.run /\ s.count = server.count /\ s.tool = server.tool
  BY <1>1 DEF ServerRecords
<1>3. n \in NoteRecords /\ n.kind = "compacted"
  <2>1. None \in 0..MaxTurns
    BY BoundsAssumption DEF None
  <2> QED BY <2>1 DEF NoteRecords, NoteKinds
<1>4. Says(n, s)
  BY DEF ServerCompacts
<1> HIDE DEF n, s
<1>5. ASSUME fin = "no", notes' = Append(notes, n), server' = s, UNCHANGED <<cur, tool, handler>> PROVE NotesInv(b)'
  <2>1. OrderInv /\ FlowInv(b) /\ notes \in Seq(NoteRecords) /\ server.run \in {None, server.count}
    BY <1>5, ServerPlace
  <2>2. \A k, t : k # "compacted" => (Ahead(k, t)' <=> Ahead(k, t))
    BY <1>3, <1>5, AheadGrows
  <2>3. Sent' = Sent /\ Sent \in Nat
    BY <1>1, <1>2, <1>5, RankIsTyped DEF Sent
  <2>4. OrderInv'
    <3>1. server' \in ServerRecords /\ Sent <= Sent'
      BY <1>2, <1>5, <2>3
    <3> QED BY <1>1, <1>3, <1>5, <2>1, <3>1, OrderGrows
  <2>5. FlowInv(b)'
    BY <1>2, <1>5, <2>1, <2>2 DEF FlowInv
  <2> QED BY <1>2, <1>5, <2>1, <2>4, <2>5 DEF NotesInv
<1> QED BY <1>2, <1>3, <1>4, <1>5, SaysKeeps

-----------------------------------------------------------------------------
(* A note begins to be handled                                               *)

\* A session that has begun to end has begun to handle the last: no other begins.
LEMMA BeginsUnended ==
  ASSUME NEW b \in 0..MaxTurns, PromiseAt(b), notes # <<>>, handler.pc \notin Begun
  PROVE  fin = "no" /\ 1 \in DOMAIN notes /\ notes[1] = Head(notes) /\ notes[1] \in NoteRecords
<1>1. 1 \in DOMAIN notes /\ notes[1] = Head(notes) /\ notes[1] \in NoteRecords
  BY HeadIsFirst DEF PromiseAt, StateTypes
<1>2. fin # "no" => \A i \in DOMAIN notes : handler.pc \in {"started", "settle", "said"}
  BY DEF PromiseAt, EndingInv, NoneUnhandled
<1> QED BY <1>1, <1>2 DEF Begun

\* Of a turn, what comes before the first note is handled, and what comes after it is not.
LEMMA FirstIsNext ==
  ASSUME NEW b \in 0..MaxTurns, PromiseAt(b), fin = "no", notes # <<>>, handler.pc \notin Begun, NEW k \in NoteKinds,
         NEW t \in 0..MaxTurns, k # "compacted", notes[1].kind = k, notes[1].turn = t
  PROVE  /\ t \in Turns /\ t <= server.count /\ Ahead(k, t) /\ (server.run = None => Rank(k, t) <= 4 * server.count + 3)
         /\ Rank(k, t) <= Sent
         /\ \A l \in NoteKinds, u \in Turns : l # "compacted" /\ Ahead(l, u) => (l = k /\ u = t) \/ Rank(k, t) < Rank(l, u)
         /\ \A i \in DOMAIN notes : i # 1 => ~(notes[i].kind = k /\ notes[i].turn = t)
<1>1. /\ b \in Nat /\ server.count \in Nat /\ server.run \in Nat /\ server.run \in {None, server.count} /\ None = 0
      /\ OrderInv /\ notes \in Seq(NoteRecords) /\ server \in ServerRecords
  BY ServerPlace
<1>2. 1 \in DOMAIN notes /\ \A i \in DOMAIN notes : i \in Nat /\ (i = 1 \/ 1 < i) /\ notes[i] \in NoteRecords
  <2>1. DOMAIN notes = 1..Len(notes) /\ Len(notes) \in Nat
    BY <1>1
  <2> QED BY <1>1, <2>1, HeadIsFirst
<1>3. Rank(k, t) <= Sent /\ t # None
  BY <1>1, <1>2 DEF OrderInv
<1>4. t \in Nat /\ t \in Turns
  BY <1>1, <1>3, BoundsAssumption DEF Turns
<1>5. t <= server.count /\ (server.run = None => Rank(k, t) <= 4 * server.count + 3)
  <2>1. Rank(k, t) >= 4 * t /\ Rank(k, t) \in Nat
    BY <1>4 DEF Rank
  <2>2. Sent <= 4 * server.count + 3 /\ Sent \in Nat
    BY <1>1 DEF Sent
  <2> QED BY <1>1, <1>3, <1>4, <2>1, <2>2
<1>6. Ahead(k, t)
  BY <1>2 DEF Ahead
<1>7. \A i \in DOMAIN notes : i # 1 /\ notes[i].kind # "compacted" => Rank(k, t) < Rank(notes[i].kind, notes[i].turn)
  BY <1>1, <1>2 DEF OrderInv
<1>8. ASSUME NEW l \in NoteKinds, NEW u \in Turns, l # "compacted", Ahead(l, u)
      PROVE  (l = k /\ u = t) \/ Rank(k, t) < Rank(l, u)
  BY <1>7, <1>8 DEF Ahead
<1>9. Rank(k, t) \in Nat
  BY <1>4 DEF Rank
<1>10. \A i \in DOMAIN notes : i # 1 => ~(notes[i].kind = k /\ notes[i].turn = t)
  BY <1>7, <1>9
<1> QED BY <1>3, <1>4, <1>5, <1>6, <1>8, <1>10

\* Its effect is no more to come.
LEMMA FirstBegins ==
  ASSUME notes # <<>>, notes \in Seq(NoteRecords), handler.pc \notin Begun, notes' = notes, handler'.pc \in Begun,
         NEW k \in NoteKinds, notes[1].kind = k, NEW t, notes[1].turn = t,
         \A i \in DOMAIN notes : i # 1 => ~(notes[i].kind = k /\ notes[i].turn = t)
  PROVE  \A l, u : Ahead(l, u)' <=> Ahead(l, u) /\ ~(l = k /\ u = t)
BY DEF Ahead

\* The event of a note joins a chain that is empty.
LEMMA NoteIsSaid ==
  ASSUME NEW b \in 0..MaxTurns, PromiseAt(b), fin = "no", handler.pc = "idle", NEW c, NEW e \in EventRecords,
         e.by = "note",
         chain' = Append(chain, e), fin' = fin, Fits(e, c)'
  PROVE  /\ ChainInv(c)' /\ chain' \in Seq(EventRecords) /\ Out("note") /\ ~Out("note")' /\ Out("fin") /\ Out("fin")'
<1>1. chain = <<>> /\ \A x : Out(x)
  BY ChainIsEmpty DEF PromiseAt
<1>2. \A x \in EventRecords : ~InChain(x)
  <2>1. DOMAIN chain = {}
    BY <1>1
  <2> QED BY <2>1 DEF InChain
<1>3. chain \in Seq(EventRecords) /\ ChainInv(b)
  BY DEF PromiseAt, StateTypes
<1>4. ChainInv(c)' /\ chain' \in Seq(EventRecords) /\ \A x : Out(x)' <=> Out(x) /\ x # e.by
  BY <1>1, <1>2, <1>3, ChainGrows
<1> QED BY <1>1, <1>4

LEMMA HandleStartedKeeps ==
  ASSUME NEW b \in 0..MaxTurns, PromiseAt(b), HandleStarted
  PROVE  b + 1 \in 0..MaxTurns /\ PromiseAt(b + 1)'
<1> DEFINE n == Head(notes)
           t == n.turn
<1>1. /\ notes # <<>> /\ n.kind = "started" /\ handler.pc = "idle" /\ cur' = t /\ tool' = FALSE
      /\ chain' = Append(chain, Event("turn_started", t, "note")) /\ handler' = [handler EXCEPT !.pc = "started"]
      /\ UNCHANGED <<injecting, pend, call, fin, notes, server, log, told>>
  BY DEF HandleStarted, Ready, flags
<1>2. fin = "no" /\ 1 \in DOMAIN notes /\ notes[1].kind = "started" /\ notes[1].turn = t /\ t \in 0..MaxTurns
  <2>1. handler.pc \notin Begun
    BY <1>1 DEF Begun
  <2> QED BY <1>1, <2>1, BeginsUnended DEF NoteRecords
<1>3. /\ b \in Nat /\ cur \in {None, b} /\ server.count \in Nat /\ server.run \in {None, server.count}
      /\ None = 0 /\ OrderInv /\ FlowInv(b) /\ notes \in Seq(NoteRecords)
      /\ \A u \in Turns : u \in Nat /\ u # 0 /\ u \in 0..MaxTurns
  BY <1>2, ServerPlace
<1>4. /\ t \in Turns /\ t <= server.count /\ Ahead("started", t)
      /\ \A l \in NoteKinds, u \in Turns : l # "compacted" /\ Ahead(l, u) => (l = "started" /\ u = t) \/ Rank("started", t) < Rank(l, u)
      /\ \A i \in DOMAIN notes : i # 1 => ~(notes[i].kind = "started" /\ notes[i].turn = t)
  <2>1. handler.pc \notin Begun /\ "started" \in NoteKinds /\ "started" # "compacted"
    BY <1>1 DEF Begun, NoteKinds
  <2> HIDE DEF t
  <2> QED BY <1>1, <1>2, <2>1, FirstIsNext
<1> HIDE DEF n, t
<1>5. t = b + 1 /\ b + 1 \in 0..MaxTurns /\ b + 1 \in Turns
  <2>1. b < t /\ b + 1 \in Turns /\ b + 1 <= server.count
    BY <1>3, <1>4, BoundsAssumption DEF FlowInv, Turns
  <2>2. Ahead("started", b + 1)
    BY <1>3, <2>1 DEF FlowInv
  <2>3. b + 1 = t \/ Rank("started", t) < Rank("started", b + 1)
    BY <1>4, <2>1, <2>2 DEF NoteKinds
  <2>4. Rank("started", t) = 4 * t + 0 /\ Rank("started", b + 1) = 4 * (b + 1) + 0
    BY DEF Rank
  <2> QED BY <1>3, <1>4, <2>1, <2>3, <2>4
<1>6. cur = None
  <2> SUFFICES ASSUME cur # None PROVE FALSE
    OBVIOUS
  <2>1. cur = b /\ b \in Turns /\ b <= server.count /\ server.run # b
    BY <1>3, <1>4, <1>5, BoundsAssumption DEF Turns, FlowInv
  <2>2. Ahead("completed", b)
    BY <1>3, <2>1 DEF FlowInv
  <2>3. Rank("started", t) < Rank("completed", b)
    BY <1>4, <2>1, <2>2 DEF NoteKinds
  <2>4. Rank("started", t) = 4 * t + 0 /\ Rank("completed", b) = 4 * b + 3
    BY DEF Rank
  <2> QED BY <1>3, <1>5, <2>3, <2>4
<1>7. ~tool
  BY <1>6 DEF PromiseAt, EndingInv
<1>8. handler \in HandlerRecords /\ handler' \in HandlerRecords /\ handler'.pc = "started"
  BY <1>1 DEF PromiseAt, StateTypes, HandlerRecords, Begun
<1>9. PICK e \in EventRecords : e = Event("turn_started", t, "note") /\ e.kind = "turn_started" /\ e.turn = b + 1 /\ e.by = "note"
  BY <1>2, <1>5, EventIsTyped DEF EventKinds, Threads
<1>10. Fits(e, b + 1)'
  BY <1>1, <1>2, <1>5, <1>8, <1>9 DEF Fits
<1>11. ChainInv(b + 1)' /\ chain' \in Seq(EventRecords) /\ Out("note") /\ ~Out("note")' /\ Out("fin") /\ Out("fin")'
  BY <1>1, <1>2, <1>9, <1>10, NoteIsSaid
<1>12. StateTypes(b + 1)'
  <2>1. told \subseteq 1..(b + 1)
    BY <1>3 DEF PromiseAt, StateTypes
  <2> QED BY <1>1, <1>5, <1>8, <1>11, <2>1 DEF PromiseAt, StateTypes
<1>13. OwnerInv' /\ HandlerInv(b + 1)'
  BY <1>1, <1>2, <1>3, <1>5, <1>8 DEF PromiseAt, OwnerInv, HandlerInv
<1>14. ToldInv(b + 1)'
  <2>1. b + 1 \notin told
    BY <1>3 DEF PromiseAt, StateTypes
  <2>2. \A c \in Callers : call[c].pc \in {"requested", "taken"} /\ call[c].turn # None =>
          /\ call[c].turn \in 1..(b + 1) /\ call[c].turn \notin told /\ log.turn[call[c].turn] # "unborn"
          /\ call[c].turn # b + 1
    BY <1>3 DEF PromiseAt, ToldInv
  <2> QED BY <1>1, <1>8, <1>11, <2>1, <2>2 DEF ToldInv
<1>15. EndingInv'
  BY <1>1, <1>2, <1>3, <1>5, <1>8 DEF PromiseAt, EndingInv
<1>16. NotesInv(b + 1)'
  <2>1. \A l, u : Ahead(l, u)' <=> Ahead(l, u) /\ ~(l = "started" /\ u = t)
    <3>1. handler.pc \notin Begun /\ handler'.pc \in Begun /\ "started" \in NoteKinds
      BY <1>1, <1>8 DEF Begun, NoteKinds
    <3> QED BY <1>1, <1>2, <1>3, <1>4, <3>1, FirstBegins
  <2>2. OrderInv'
    <3>1. Sent' = Sent
      BY <1>1 DEF Sent
    <3> QED BY <1>1, <1>3, <3>1 DEF OrderInv
  <2>3. b + 1 <= server.count
    BY <1>4, <1>5
  <2>4. \A u \in Turns : Ahead("started", u)' <=> b + 1 < u /\ u <= server.count
    BY <1>3, <1>5, <2>1 DEF FlowInv
  <2>5. \A u \in Turns : Ahead("completed", u)' <=> u <= server.count /\ (b + 1 < u \/ u = cur') /\ server.run # u
    BY <1>1, <1>3, <1>5, <1>6, <2>1 DEF FlowInv
  <2>6. \A u \in Turns : Ahead("item_started", u)' <=> Ahead("item_completed", u)' \/ (server.run = u /\ server.tool = "runs")
    BY <1>3, <1>7, <2>1 DEF FlowInv
  <2>7. \A u \in Turns : Ahead("item_started", u)' => b + 1 < u \/ u = cur'
    BY <1>1, <1>3, <1>5, <1>6, <2>1 DEF FlowInv
  <2>8. FlowInv(b + 1)'
    BY <1>1, <1>5, <2>3, <2>4, <2>5, <2>6, <2>7 DEF FlowInv
  <2> QED BY <1>1, <1>3, <2>2, <2>8 DEF NotesInv
<1>17. LogInv(b + 1)'
  <2>1. ToolOut = FALSE /\ ToolOut' = FALSE
    BY <1>1, <1>2, <1>7, <1>8 DEF ToolOut
  <2>2. Unsaid' /\ ~Unsaid
    BY <1>1, <1>8, <1>11 DEF Unsaid
  <2>3. ASSUME NEW u \in Turns PROVE TurnOut(u, b + 1)' = TurnOut(u, b)
    <3>1. u \in Nat /\ u # 0
      BY <1>3
    <3>2. u = b => EndIsOut(b) = TRUE
      BY <1>2, <1>3, <1>6, <3>1 DEF EndIsOut
    <3>3. TurnOut(u, b) = IF u < b THEN "ended" ELSE IF u > b THEN "unborn" ELSE "ended"
      BY <1>3, <2>2, <3>1, <3>2 DEF TurnOut
    <3>4. TurnOut(u, b + 1)' = IF u < b + 1 THEN "ended" ELSE "unborn"
      BY <1>3, <2>2, <3>1 DEF TurnOut
    <3> QED BY <1>3, <3>1, <3>3, <3>4
  <2> QED BY <1>1, <1>2, <2>1, <2>3 DEF PromiseAt, LogInv
<1> QED BY <1>5, <1>11, <1>12, <1>13, <1>14, <1>15, <1>16, <1>17 DEF PromiseAt

\* Its event is on its way, and nothing else is heard of it yet.
LEMMA NoteBegins ==
  ASSUME NEW b \in 0..MaxTurns, PromiseAt(b), fin = "no", notes # <<>>, handler.pc = "idle",
         UNCHANGED <<cur, fin, notes, server, log, told, call, pend, injecting>>, tool' \in BOOLEAN,
         NEW pc \in {"said", "completed"}, handler' = [handler EXCEPT !.pc = pc],
         NEW e \in EventRecords, e.by = "note", chain' = Append(chain, e), Fits(e, b)', HandlerInv(b)', NotesInv(b)',
         cur = None => ~tool', pc = "said" /\ notes[1].kind # "compacted" => cur # None,
         tool = IF pc = "said" /\ notes[1].kind # "compacted" THEN ~tool' ELSE tool'
  PROVE  PromiseAt(b)'
<1>1. ChainInv(b)' /\ chain' \in Seq(EventRecords) /\ Out("note") /\ ~Out("note")' /\ Out("fin") /\ Out("fin")'
  BY NoteIsSaid
<1>2. handler' \in HandlerRecords /\ handler'.pc = pc
  BY DEF PromiseAt, StateTypes, HandlerRecords, Begun
<1>3. StateTypes(b)' /\ OwnerInv'
  BY <1>1, <1>2 DEF PromiseAt, StateTypes, OwnerInv
<1>4. ToldInv(b)'
  BY <1>1, <1>2 DEF PromiseAt, ToldInv
<1>5. EndingInv'
  BY <1>2 DEF PromiseAt, EndingInv, Begun
<1>6. LogInv(b)'
  <2>1. ToolOut' = ToolOut
    BY <1>1, <1>2 DEF ToolOut
  <2>2. ~Unsaid /\ ~Unsaid' /\ (EndIsOut(b)' <=> EndIsOut(b))
    BY <1>1, <1>2 DEF Unsaid, EndIsOut
  <2>3. \A u \in Turns : TurnOut(u, b)' = TurnOut(u, b)
    BY <2>2 DEF TurnOut
  <2> QED BY <2>1, <2>3 DEF PromiseAt, LogInv
<1> QED BY <1>1, <1>3, <1>4, <1>5, <1>6 DEF PromiseAt

LEMMA HandleCompactedKeeps == ASSUME NEW b \in 0..MaxTurns, PromiseAt(b), HandleCompacted PROVE PromiseAt(b)'
<1>1. /\ notes # <<>> /\ Head(notes).kind = "compacted" /\ handler.pc = "idle"
      /\ chain' = Append(chain, Event("compact_ended", None, "note")) /\ handler' = [handler EXCEPT !.pc = "said"]
      /\ UNCHANGED <<cur, tool, fin, notes, server, log, told, call, pend, injecting>>
  BY DEF HandleCompacted, Ready, flags, turnVars
<1>2. fin = "no" /\ 1 \in DOMAIN notes /\ notes[1].kind = "compacted"
  <2>1. handler.pc \notin Begun
    BY <1>1 DEF Begun
  <2> QED BY <1>1, <2>1, BeginsUnended
<1>3. PICK e \in EventRecords :
        e = Event("compact_ended", None, "note") /\ e.kind = "compact_ended" /\ e.turn = None /\ e.by = "note"
  <2>1. None \in 0..MaxTurns
    BY NumbersAreTyped DEF PromiseAt
  <2> QED BY <2>1, EventIsTyped DEF EventKinds, Threads
<1>4. handler'.pc = "said"
  BY <1>1 DEF PromiseAt, StateTypes, HandlerRecords
<1>5. Fits(e, b)' /\ HandlerInv(b)'
  BY <1>1, <1>2, <1>3, <1>4 DEF Fits, HandlerInv
<1>6. NotesInv(b)'
  <2>1. OrderInv /\ FlowInv(b) /\ server.run \in {None, server.count}
    BY <1>2, ServerPlace
  <2>2. \A k, t : k # "compacted" => (Ahead(k, t)' <=> Ahead(k, t))
    BY <1>1, <1>2 DEF Ahead, Begun
  <2>3. OrderInv'
    <3>1. Sent' = Sent
      BY <1>1 DEF Sent
    <3> QED BY <1>1, <2>1, <3>1 DEF OrderInv
  <2>4. FlowInv(b)'
    BY <1>1, <2>1, <2>2 DEF FlowInv
  <2> QED BY <1>1, <2>1, <2>3, <2>4 DEF NotesInv
<1>7. (cur = None => ~tool') /\ tool' \in BOOLEAN
  BY <1>1 DEF PromiseAt, EndingInv, StateTypes
<1> QED BY <1>1, <1>2, <1>3, <1>5, <1>6, <1>7, NoteBegins

\* The item and the end that a turn's notes tell of are those of the current turn.
LEMMA FirstIsCurrent ==
  ASSUME NEW b \in 0..MaxTurns, PromiseAt(b), fin = "no", notes # <<>>, handler.pc = "idle", NEW k \in NoteKinds,
         NEW t \in 0..MaxTurns, k \notin {"started", "compacted"}, notes[1].kind = k, notes[1].turn = t
  PROVE  /\ t \in Turns /\ cur = t /\ b = t /\ cur # None /\ Ahead(k, t) /\ (tool <=> k = "item_completed")
         /\ (k = "item_started" => (server.run = t /\ server.tool = "runs") \/ Ahead("item_completed", t))
         /\ (k = "item_completed" => ~Ahead("item_started", t) /\ ~(server.run = t /\ server.tool = "runs"))
         /\ (k = "completed" => ~Ahead("item_started", t) /\ server.run # t)
         /\ \A i \in DOMAIN notes : i # 1 => ~(notes[i].kind = k /\ notes[i].turn = t)
<1>1. handler.pc \notin Begun
  BY DEF Begun
<1>2. /\ t \in Turns /\ t <= server.count /\ Ahead(k, t) /\ Rank(k, t) <= Sent
      /\ \A l \in NoteKinds, u \in Turns : l # "compacted" /\ Ahead(l, u) => (l = k /\ u = t) \/ Rank(k, t) < Rank(l, u)
      /\ \A i \in DOMAIN notes : i # 1 => ~(notes[i].kind = k /\ notes[i].turn = t)
  BY <1>1, FirstIsNext
<1>3. /\ b \in Nat /\ cur \in {None, b} /\ server.count \in Nat /\ server.run \in Nat
      /\ None = 0 /\ FlowInv(b) /\ t \in Nat /\ t # 0
  BY <1>2, ServerPlace
<1>4. /\ Rank("started", t) = 4 * t /\ Rank("item_started", t) = 4 * t + 1 /\ Rank("item_completed", t) = 4 * t + 2
      /\ Rank("completed", t) = 4 * t + 3
  BY <1>3 DEF Rank
<1>5. k \in {"item_started", "item_completed", "completed"} /\ {"started", "item_started", "item_completed", "completed"} \subseteq NoteKinds
  BY DEF NoteKinds
<1>6. ~Ahead("started", t)
  BY <1>2, <1>3, <1>4, <1>5
<1>7. ~(b < t)
  BY <1>2, <1>3, <1>6 DEF FlowInv
<1>8. k # "item_started" => ~Ahead("item_started", t)
  BY <1>2, <1>3, <1>4, <1>5
<1>9. k = "completed" => ~Ahead("item_completed", t)
  BY <1>2, <1>3, <1>4, <1>5
<1>10. Ahead("item_started", t) \/ (t = cur /\ tool) <=> Ahead("item_completed", t) \/ (server.run = t /\ server.tool = "runs")
  BY <1>2, <1>3 DEF FlowInv
<1>11. /\ (Ahead("item_started", t) => b < t \/ (t = cur /\ ~tool))
       /\ (Ahead("completed", t) => (b < t \/ t = cur) /\ server.run # t)
  BY <1>2, <1>3 DEF FlowInv
<1>12. cur = t /\ (tool <=> k = "item_completed")
  <2>1. CASE k = "item_started"
    BY <1>2, <1>7, <1>11, <2>1
  <2>2. CASE k = "item_completed"
    BY <1>2, <1>8, <1>10, <2>2
  <2>3. CASE k = "completed"
    BY <1>2, <1>7, <1>8, <1>9, <1>10, <1>11, <2>3
  <2> QED BY <1>5, <2>1, <2>2, <2>3
<1>13. k = "item_completed" => ~(server.run = t /\ server.tool = "runs")
  <2> SUFFICES ASSUME k = "item_completed", server.run = t, server.tool = "runs" PROVE FALSE
    OBVIOUS
  <2>1. Sent = 4 * t + 1
    BY <1>3 DEF Sent
  <2> QED BY <1>2, <1>3, <1>4, <2>1
<1>14. b = t /\ cur # None
  BY <1>3, <1>12
<1> QED BY <1>2, <1>8, <1>10, <1>11, <1>12, <1>13, <1>14

LEMMA HandleToolKeeps == ASSUME NEW b \in 0..MaxTurns, PromiseAt(b), HandleTool PROVE PromiseAt(b)'
<1> DEFINE k == Head(notes).kind
           t == Head(notes).turn
<1>1. /\ notes # <<>> /\ k \in {"item_started", "item_completed"} /\ handler.pc = "idle" /\ tool' = (k = "item_started")
      /\ chain' = Append(chain, Event(IF tool' THEN "tool_invoked" ELSE "tool_result", t, "note"))
      /\ handler' = [handler EXCEPT !.pc = "said"]
      /\ UNCHANGED <<cur, fin, notes, server, log, told, call, pend, injecting>>
  BY DEF HandleTool, Ready, flags
<1>2. fin = "no" /\ 1 \in DOMAIN notes /\ notes[1].kind = k /\ notes[1].turn = t /\ t \in 0..MaxTurns /\ k \in NoteKinds
  <2>1. handler.pc \notin Begun
    BY <1>1 DEF Begun
  <2> QED BY <1>1, <2>1, BeginsUnended DEF NoteRecords
<1> HIDE DEF k, t
<1>3. /\ t \in Turns /\ cur = t /\ b = t /\ cur # None /\ Ahead(k, t) /\ (tool <=> k = "item_completed")
      /\ (k = "item_started" => (server.run = t /\ server.tool = "runs") \/ Ahead("item_completed", t))
      /\ (k = "item_completed" => ~Ahead("item_started", t) /\ ~(server.run = t /\ server.tool = "runs"))
      /\ \A i \in DOMAIN notes : i # 1 => ~(notes[i].kind = k /\ notes[i].turn = t)
  BY <1>1, <1>2, FirstIsCurrent
<1>4. PICK kind \in {"tool_invoked", "tool_result"} : kind = IF tool' THEN "tool_invoked" ELSE "tool_result"
  OBVIOUS
<1>5. PICK e \in EventRecords : e = Event(kind, t, "note") /\ e.kind = kind /\ e.turn = t /\ e.by = "note"
  <2>1. kind \in EventKinds /\ "note" \in Threads
    BY DEF EventKinds, Threads
  <2> QED BY <1>2, <2>1, EventIsTyped
<1>6. handler'.pc = "said"
  BY <1>1 DEF PromiseAt, StateTypes, HandlerRecords
<1>7. Fits(e, b)' /\ HandlerInv(b)'
  BY <1>1, <1>2, <1>4, <1>5, <1>6 DEF Fits, HandlerInv
<1>8. NotesInv(b)'
  <2>1. OrderInv /\ FlowInv(b) /\ server.run \in {None, server.count} /\ notes \in Seq(NoteRecords) /\ b \in Nat
    BY <1>2, ServerPlace
  <2>2. \A l, u : Ahead(l, u)' <=> Ahead(l, u) /\ ~(l = k /\ u = t)
    <3>1. handler.pc \notin Begun /\ handler'.pc \in Begun
      BY <1>1, <1>6 DEF Begun
    <3> QED BY <1>1, <1>2, <1>3, <2>1, <3>1, FirstBegins
  <2>3. OrderInv'
    <3>1. Sent' = Sent
      BY <1>1 DEF Sent
    <3> QED BY <1>1, <2>1, <3>1 DEF OrderInv
  <2>4. \A u \in Turns : Ahead("item_started", u)' \/ (u = cur' /\ tool') <=>
          Ahead("item_completed", u)' \/ (server'.run = u /\ server'.tool = "runs")
    BY <1>1, <1>3, <2>1, <2>2 DEF FlowInv
  <2>5. \A u \in Turns : Ahead("item_started", u)' => b < u \/ (u = cur' /\ ~tool')
    BY <1>1, <1>3, <2>1, <2>2 DEF FlowInv
  <2>6. FlowInv(b)'
    BY <1>1, <2>1, <2>2, <2>4, <2>5 DEF FlowInv
  <2> QED BY <1>1, <2>1, <2>3, <2>6 DEF NotesInv
<1>9. (cur = None => ~tool') /\ tool' \in BOOLEAN
  BY <1>1, <1>3
<1>10. tool = ~tool' /\ notes[1].kind # "compacted"
  BY <1>1, <1>2, <1>3 DEF PromiseAt, StateTypes
<1>11. chain' = Append(chain, e)
  BY <1>1, <1>4, <1>5
<1> QED BY <1>1, <1>2, <1>3, <1>5, <1>7, <1>8, <1>9, <1>10, <1>11, NoteBegins

LEMMA HandleCompletedKeeps == ASSUME NEW b \in 0..MaxTurns, PromiseAt(b), HandleCompleted PROVE PromiseAt(b)'
<1> DEFINE t == Head(notes).turn
<1>1. /\ notes # <<>> /\ Head(notes).kind = "completed" /\ handler.pc = "idle"
      /\ chain' = Append(chain, Event("turn_ended", t, "note")) /\ handler' = [handler EXCEPT !.pc = "completed"]
      /\ UNCHANGED <<cur, tool, fin, notes, server, log, told, call, pend, injecting>>
  BY DEF HandleCompleted, Ready, flags, turnVars
<1>2. fin = "no" /\ 1 \in DOMAIN notes /\ notes[1].kind = "completed" /\ notes[1].turn = t /\ t \in 0..MaxTurns
  <2>1. handler.pc \notin Begun
    BY <1>1 DEF Begun
  <2> QED BY <1>1, <2>1, BeginsUnended DEF NoteRecords
<1> HIDE DEF t
<1>3. cur = t /\ b = t /\ cur # None /\ ~tool
  <2>1. "completed" \in NoteKinds
    BY DEF NoteKinds
  <2> QED BY <1>1, <1>2, <2>1, FirstIsCurrent
<1>4. PICK e \in EventRecords : e = Event("turn_ended", t, "note") /\ e.kind = "turn_ended" /\ e.turn = b /\ e.by = "note"
  BY <1>2, <1>3, EventIsTyped DEF EventKinds, Threads
<1>5. handler'.pc = "completed"
  BY <1>1 DEF PromiseAt, StateTypes, HandlerRecords
<1>6. Fits(e, b)' /\ HandlerInv(b)'
  BY <1>1, <1>2, <1>3, <1>4, <1>5 DEF Fits, HandlerInv
<1>7. NotesInv(b)'
  <2>1. OrderInv /\ FlowInv(b) /\ server.run \in {None, server.count}
    BY <1>2, ServerPlace
  <2>2. \A k, u : Ahead(k, u)' <=> Ahead(k, u)
    BY <1>1, <1>5 DEF Ahead, Begun
  <2>3. OrderInv'
    <3>1. Sent' = Sent
      BY <1>1 DEF Sent
    <3> QED BY <1>1, <2>1, <3>1 DEF OrderInv
  <2>4. FlowInv(b)'
    BY <1>1, <2>1, <2>2 DEF FlowInv
  <2> QED BY <1>1, <2>1, <2>3, <2>4 DEF NotesInv
<1>8. tool' = tool /\ tool' \in BOOLEAN
  BY <1>1 DEF PromiseAt, StateTypes
<1> QED BY <1>1, <1>2, <1>3, <1>4, <1>6, <1>7, <1>8, NoteBegins

-----------------------------------------------------------------------------
(* A note has been handled                                                   *)

LEMMA NotesPop ==
  ASSUME notes \in Seq(NoteRecords), notes # <<>>, notes' = Tail(notes), handler'.pc = "idle", server' = server
  PROVE  /\ notes' \in Seq(NoteRecords) /\ (OrderInv => OrderInv')
         /\ \A l, u : Ahead(l, u)' <=> \E i \in DOMAIN notes : i # 1 /\ notes[i].kind = l /\ notes[i].turn = u
<1>1. /\ notes' \in Seq(NoteRecords) /\ 1 \in DOMAIN notes
      /\ \A i \in DOMAIN notes' : i \in Nat /\ i + 1 \in DOMAIN notes /\ i + 1 > 1 /\ notes'[i] = notes[i + 1]
      /\ \A i \in DOMAIN notes : i \in Nat /\ (i = 1 \/ (i - 1 \in DOMAIN notes' /\ notes'[i - 1] = notes[i]))
  BY TailIndex
<1>2. ASSUME OrderInv PROVE OrderInv'
  <2>1. Sent' = Sent
    BY DEF Sent
  <2>2. \A i, j \in DOMAIN notes' : i < j => i + 1 < j + 1
    BY <1>1
  <2> QED BY <1>1, <1>2, <2>1, <2>2 DEF OrderInv
<1>3. ASSUME NEW l, NEW u, Ahead(l, u)' PROVE \E i \in DOMAIN notes : i # 1 /\ notes[i].kind = l /\ notes[i].turn = u
  <2>1. PICK i \in DOMAIN notes' : notes'[i].kind = l /\ notes'[i].turn = u
    BY <1>3 DEF Ahead
  <2>2. i + 1 \in DOMAIN notes /\ i + 1 # 1 /\ notes[i + 1].kind = l /\ notes[i + 1].turn = u
    BY <1>1, <2>1
  <2> QED BY <2>2
<1>4. ASSUME NEW l, NEW u, NEW i \in DOMAIN notes, i # 1, notes[i].kind = l, notes[i].turn = u PROVE Ahead(l, u)'
  <2>1. i - 1 \in DOMAIN notes' /\ notes'[i - 1] = notes[i]
    BY <1>1, <1>4
  <2> QED BY <1>4, <2>1 DEF Ahead, Begun
<1> QED BY <1>1, <1>2, <1>3, <1>4

LEMMA PopKeeps ==
  ASSUME NEW b \in 0..MaxTurns, PromiseAt(b), handler.pc \in Begun, Out("note"), Handled,
         UNCHANGED <<cur, tool, fin, server, chain, log, told, injecting>>, pend' \subseteq Callers,
         call' \in [Callers -> CallRecords], OwnerInv', ToldInv(b)'
  PROVE  PromiseAt(b)'
<1> USE DEF PromiseAt
<1>1. notes' = Tail(notes) /\ handler' = [pc |-> "idle", ack |-> {}] /\ notes # <<>> /\ notes \in Seq(NoteRecords)
  BY DEF Handled, HandlerInv, StateTypes, Begun
<1>2. handler' \in HandlerRecords /\ handler'.pc = "idle"
  BY <1>1 DEF HandlerRecords, Begun
<1>3. /\ notes' \in Seq(NoteRecords) /\ (OrderInv => OrderInv')
      /\ \A l, u : Ahead(l, u)' <=> \E i \in DOMAIN notes : i # 1 /\ notes[i].kind = l /\ notes[i].turn = u
  BY <1>1, <1>2, NotesPop
<1>4. \A l, u : Ahead(l, u)' <=> Ahead(l, u)
  BY <1>3 DEF Ahead
<1>5. StateTypes(b)'
  BY <1>2, <1>3 DEF StateTypes
<1>6. HandlerInv(b)'
  BY <1>2 DEF HandlerInv
<1>7. EndingInv'
  <2>1. fin # "no" => NoneUnhandled'
    <3> SUFFICES ASSUME fin # "no", NEW i \in DOMAIN notes' PROVE FALSE
      BY DEF NoneUnhandled
    <3>1. i \in Nat /\ i + 1 \in DOMAIN notes /\ i + 1 > 1
      BY <1>1, TailIndex
    <3>2. \A j \in DOMAIN notes : j = 1
      BY DEF EndingInv, NoneUnhandled
    <3> QED BY <3>1, <3>2
  <2> QED BY <1>2, <2>1 DEF EndingInv, Begun
<1>8. NotesInv(b)'
  <2> SUFFICES ASSUME fin = "no" PROVE (server.run \in {None, server.count} /\ OrderInv /\ FlowInv(b))'
    BY DEF NotesInv
  <2>1. server.run \in {None, server.count} /\ OrderInv /\ FlowInv(b)
    BY DEF NotesInv
  <2>2. FlowInv(b)'
    BY <1>4, <2>1 DEF FlowInv
  <2> QED BY <1>3, <2>1, <2>2
<1>9. \A x : Out(x)' <=> Out(x)
  BY DEF Out
<1>10. ChainInv(b)'
  <2>1. ASSUME NEW x \in EventRecords, InChain(x) PROVE Fits(x, b)'
    <3>1. x.by # "note" /\ Fits(x, b)
      BY <2>1 DEF InChain, Out, ChainInv
    <3> QED BY <3>1 DEF Fits
  <2> QED BY <2>1, ChainStays
<1>11. LogInv(b)'
  <2>1. ToolOut' = ToolOut
    BY <1>9 DEF ToolOut
  <2>2. ~Unsaid /\ ~Unsaid'
    BY <1>9 DEF Unsaid
  <2>3. EndIsOut(b)' <=> EndIsOut(b)
    BY <1>2, <1>9 DEF EndIsOut, Begun
  <2>4. \A u \in Turns : TurnOut(u, b)' = TurnOut(u, b)
    BY <2>2, <2>3 DEF TurnOut
  <2> QED BY <2>1, <2>4 DEF LogInv
<1> QED BY <1>5, <1>6, <1>7, <1>8, <1>10, <1>11

LEMMA HandleSaidKeeps == ASSUME NEW b \in 0..MaxTurns, PromiseAt(b), HandleSaid PROVE PromiseAt(b)'
<1>1. /\ UNCHANGED <<cur, tool, fin, server, chain, log, told, injecting, pend, call>> /\ Handled
      /\ handler.pc \in Begun /\ Out("note")
  BY DEF HandleSaid, Handling, turnVars, flags, out, Begun
<1>2. OwnerInv' /\ call' \in [Callers -> CallRecords] /\ pend' \subseteq Callers
  BY <1>1 DEF PromiseAt, OwnerInv, StateTypes
<1>3. handler'.pc = "idle"
  BY <1>1 DEF Handled
<1>4. ToldInv(b)'
  BY <1>1, <1>3 DEF PromiseAt, ToldInv
<1> QED BY <1>1, <1>2, <1>4, PopKeeps

LEMMA HandleSettleKeeps == ASSUME NEW b \in 0..MaxTurns, PromiseAt(b), HandleSettle PROVE PromiseAt(b)'
<1>1. /\ UNCHANGED <<cur, tool, fin, server, chain, log, told, injecting, call>> /\ pend' = {}
      /\ handler.pc = "started" /\ Out("note")
  BY DEF HandleSettle, Handling, turnVars, flags, out
<1>2. OwnerInv' /\ call' \in [Callers -> CallRecords] /\ pend' \subseteq Callers
  BY <1>1 DEF PromiseAt, OwnerInv, StateTypes
<1>3. CASE pend = {}
  <2>1. Handled
    BY <1>3 DEF HandleSettle
  <2>2. handler'.pc = "idle"
    BY <2>1 DEF Handled
  <2>3. ToldInv(b)'
    BY <1>1, <2>2 DEF PromiseAt, ToldInv
  <2>4. handler.pc \in Begun
    BY <1>1 DEF Begun
  <2> QED BY <1>1, <1>2, <2>1, <2>3, <2>4, PopKeeps
<1>4. CASE pend # {}
  <2> USE DEF PromiseAt
  <2>1. handler' = [pc |-> "settle", ack |-> pend] /\ notes' = notes
    BY <1>4 DEF HandleSettle
  <2>2. handler' \in HandlerRecords /\ handler'.pc = "settle"
    BY <2>1 DEF StateTypes, HandlerRecords, Begun
  <2>3. StateTypes(b)'
    BY <1>1, <1>2, <2>1, <2>2 DEF StateTypes
  <2>4. \A x : Out(x)' <=> Out(x)
    BY <1>1 DEF Out
  <2>5. HandlerInv(b)' /\ ToldInv(b)'
    BY <1>1, <2>1, <2>2, <2>4 DEF HandlerInv, ToldInv
  <2>6. EndingInv'
    BY <1>1, <2>1, <2>2 DEF EndingInv, NoneUnhandled, Begun
  <2>7. NotesInv(b)'
    <3> SUFFICES ASSUME fin = "no" PROVE (server.run \in {None, server.count} /\ OrderInv /\ FlowInv(b))'
      BY <1>1 DEF NotesInv
    <3>1. server.run \in {None, server.count} /\ OrderInv /\ FlowInv(b)
      BY DEF NotesInv
    <3>2. Sent' = Sent
      BY <1>1 DEF Sent
    <3>3. \A k, t : Ahead(k, t)' <=> Ahead(k, t)
      BY <1>1, <2>1, <2>2 DEF Ahead, Begun
    <3>4. OrderInv'
      BY <2>1, <3>1, <3>2 DEF OrderInv
    <3>5. FlowInv(b)'
      BY <1>1, <3>1, <3>3 DEF FlowInv
    <3> QED BY <1>1, <3>1, <3>4, <3>5
  <2>8. ChainInv(b)'
    <3>1. ASSUME NEW x \in EventRecords, InChain(x) PROVE Fits(x, b)'
      <4>1. x.by # "note" /\ Fits(x, b)
        BY <1>1, <3>1 DEF InChain, Out, ChainInv
      <4> QED BY <1>1, <4>1 DEF Fits
    <3> QED BY <1>1, <3>1, ChainStays
  <2>9. LogInv(b)'
    <3>1. ToolOut' = ToolOut
      BY <1>1, <2>2, <2>4 DEF ToolOut
    <3>2. ~Unsaid /\ ~Unsaid'
      BY <1>1, <2>2, <2>4 DEF Unsaid
    <3>3. EndIsOut(b)' <=> EndIsOut(b)
      BY <1>1, <2>2, <2>4 DEF EndIsOut
    <3>4. \A u \in Turns : TurnOut(u, b)' = TurnOut(u, b)
      BY <3>2, <3>3 DEF TurnOut
    <3> QED BY <1>1, <3>1, <3>4 DEF LogInv
  <2> QED BY <1>2, <2>3, <2>5, <2>6, <2>7, <2>8, <2>9
<1> QED BY <1>3, <1>4

LEMMA HandleSettledKeeps == ASSUME NEW b \in 0..MaxTurns, PromiseAt(b), HandleSettled PROVE PromiseAt(b)'
<1> USE DEF PromiseAt
<1>1. /\ UNCHANGED <<cur, tool, fin, server, chain, log, told, injecting, pend>> /\ Handled
      /\ handler.pc = "settle" /\ Out("note")
      /\ call' = [c \in Callers |-> IF c \in handler.ack /\ call[c].pc \in {"requested", "taken"}
                                    THEN [call[c] EXCEPT !.turn = Head(notes).turn] ELSE call[c]]
  BY DEF HandleSettled, Handling, turnVars, flags, out
<1>2. Head(notes).turn = b /\ b # 0
  <2>1. notes # <<>> /\ notes \in Seq(NoteRecords) /\ notes[1].turn = b /\ b # 0
    BY <1>1 DEF HandlerInv, StateTypes
  <2> QED BY <2>1, HeadIsFirst
<1>3. \A c \in Callers : call[c] \in CallRecords
  BY DEF StateTypes
<1>4. ASSUME NEW c \in Callers
      PROVE  /\ call'[c] \in CallRecords /\ call'[c].pc = call[c].pc /\ (call'[c].owner <=> call[c].owner)
             /\ (call'[c].turn = call[c].turn \/ (call[c].pc \in {"requested", "taken"} /\ call'[c].turn = b))
  <2>1. PICK r \in CallRecords : r = call[c]
    BY <1>3
  <2>2. CASE call'[c] = r
    BY <2>1, <2>2
  <2>3. CASE call'[c] = [r EXCEPT !.turn = b] /\ call[c].pc \in {"requested", "taken"}
    BY <2>1, <2>3 DEF CallRecords
  <2> QED BY <1>1, <1>2, <2>1, <2>2, <2>3
<1>5. call' \in [Callers -> CallRecords]
  BY <1>1, <1>4
<1>6. OwnerInv'
  <2>1. \A c \in Callers : call'[c].pc \in {"asked", "accepted"} => call'[c].turn = None
    BY <1>4 DEF OwnerInv
  <2> QED BY <1>1, <1>4, <2>1 DEF OwnerInv
<1>7. ToldInv(b)'
  <2>1. handler'.pc = "idle"
    BY <1>1 DEF Handled
  <2>2. b \notin told /\ log.turn[b] # "unborn" /\ b \in 1..b
    BY <1>1, <1>2, BoundsAssumption DEF ToldInv
  <2>3. ASSUME NEW c \in Callers, call'[c].pc \in {"requested", "taken"}, call'[c].turn # None
        PROVE  call'[c].turn \in 1..b /\ call'[c].turn \notin told /\ log.turn[call'[c].turn] # "unborn"
    <3>1. CASE call'[c].turn = b
      BY <2>2, <3>1
    <3>2. CASE call'[c].turn = call[c].turn
      BY <1>4, <2>3, <3>2 DEF ToldInv
    <3> QED BY <1>4, <3>1, <3>2
  <2> QED BY <1>1, <2>1, <2>3 DEF ToldInv
<1>8. handler.pc \in Begun /\ pend' \subseteq Callers
  BY <1>1 DEF Begun, StateTypes
<1> QED BY <1>1, <1>5, <1>6, <1>7, <1>8, PopKeeps

LEMMA HandleEndedKeeps == ASSUME NEW b \in 0..MaxTurns, PromiseAt(b), HandleEnded PROVE PromiseAt(b)'
<1>1. /\ UNCHANGED <<fin, server, chain, log, told, injecting, pend, call>> /\ handler.pc = "completed" /\ Out("note")
      /\ notes' = Tail(notes) /\ handler' = [pc |-> "idle", ack |-> {}] /\ cur' = None /\ tool' = FALSE
  BY DEF HandleEnded, Handling, Handled, OnTurnEnded, flags, out
<1>2. handler' \in HandlerRecords /\ handler'.pc = "idle"
  BY <1>1 DEF HandlerRecords, Begun
<1>3. /\ notes # <<>> /\ notes \in Seq(NoteRecords) /\ notes[1].kind = "completed" /\ notes[1].turn = b /\ cur = b
      /\ cur # None /\ ~tool
  BY <1>1 DEF PromiseAt, HandlerInv, StateTypes
<1>4. handler.pc \notin Begun
  BY <1>1 DEF Begun
<1>5. fin = "no"
  BY <1>3, <1>4, BeginsUnended
<1>6. /\ b \in Turns /\ Ahead("completed", b)
      /\ \A l \in NoteKinds, u \in Turns : l # "compacted" /\ Ahead(l, u) =>
           (l = "completed" /\ u = b) \/ Rank("completed", b) < Rank(l, u)
      /\ \A i \in DOMAIN notes : i # 1 => ~(notes[i].kind = "completed" /\ notes[i].turn = b)
  <2>1. "completed" \in NoteKinds /\ "completed" # "compacted"
    BY DEF NoteKinds
  <2> QED BY <1>3, <1>4, <1>5, <2>1, FirstIsNext
<1>7. /\ notes' \in Seq(NoteRecords) /\ (OrderInv => OrderInv')
      /\ \A l, u : Ahead(l, u)' <=> \E i \in DOMAIN notes : i # 1 /\ notes[i].kind = l /\ notes[i].turn = u
  BY <1>1, <1>2, <1>3, NotesPop
<1>8. \A l, u : Ahead(l, u)' <=> Ahead(l, u) /\ ~(l = "completed" /\ u = b)
  <2>1. ASSUME NEW l, NEW u, Ahead(l, u)' PROVE Ahead(l, u) /\ ~(l = "completed" /\ u = b)
    <3>1. PICK i \in DOMAIN notes : i # 1 /\ notes[i].kind = l /\ notes[i].turn = u
      BY <1>7, <2>1
    <3> QED BY <1>6, <3>1 DEF Ahead
  <2>2. ASSUME NEW l, NEW u, Ahead(l, u), ~(l = "completed" /\ u = b) PROVE Ahead(l, u)'
    <3>1. PICK i \in DOMAIN notes : notes[i].kind = l /\ notes[i].turn = u
      BY <2>2 DEF Ahead
    <3>2. i # 1
      BY <1>3, <2>2, <3>1
    <3> QED BY <1>7, <3>1, <3>2
  <2> QED BY <2>1, <2>2
<1>9. StateTypes(b)' /\ OwnerInv' /\ HandlerInv(b)'
  BY <1>1, <1>2, <1>7 DEF PromiseAt, StateTypes, OwnerInv, HandlerInv
<1>10. \A x : Out(x)' <=> Out(x)
  BY <1>1 DEF Out
<1>11. ToldInv(b)' /\ EndingInv'
  BY <1>1, <1>2, <1>5, <1>10 DEF PromiseAt, ToldInv, EndingInv, Begun
<1>12. NotesInv(b)'
  <2>1. /\ OrderInv /\ FlowInv(b) /\ server.run \in {None, server.count} /\ b \in Nat /\ None = 0
        /\ \A t \in Turns : t \in Nat /\ t # 0
    BY <1>5, ServerPlace
  <2>2. server.run # b
    BY <1>6, <2>1 DEF FlowInv
  <2>3. ~Ahead("item_started", b)
    <3>1. Rank("completed", b) = 4 * b + 3 /\ Rank("item_started", b) = 4 * b + 1
      BY DEF Rank
    <3> QED BY <1>6, <2>1, <3>1 DEF NoteKinds
  <2>4. \A u \in Turns : Ahead("started", u)' <=> b < u /\ u <= server.count
    BY <1>8, <2>1 DEF FlowInv
  <2>5. \A u \in Turns : Ahead("completed", u)' <=> u <= server.count /\ (b < u \/ u = cur') /\ server.run # u
    BY <1>1, <1>3, <1>8, <2>1 DEF FlowInv
  <2>6. \A u \in Turns : Ahead("item_started", u)' <=> Ahead("item_completed", u)' \/ (server.run = u /\ server.tool = "runs")
    BY <1>3, <1>8, <2>1 DEF FlowInv
  <2>7. \A u \in Turns : Ahead("item_started", u)' => b < u
    BY <1>3, <1>8, <2>1, <2>3 DEF FlowInv
  <2>8. FlowInv(b)'
    BY <1>1, <2>1, <2>2, <2>4, <2>5, <2>6, <2>7 DEF FlowInv
  <2> QED BY <1>1, <1>7, <2>1, <2>8 DEF NotesInv
<1>13. ChainInv(b)'
  <2>1. ASSUME NEW x \in EventRecords, InChain(x) PROVE FALSE
    <3>1. x.by # "note" /\ Fits(x, b)
      BY <1>1, <2>1 DEF InChain, Out, PromiseAt, ChainInv
    <3> QED BY <1>5, <3>1 DEF Fits, EventRecords, Threads
  <2> QED BY <1>1, <2>1, ChainStays DEF PromiseAt
<1>14. LogInv(b)'
  <2>1. ToolOut' = ToolOut
    BY <1>1, <1>2, <1>3, <1>5, <1>10 DEF ToolOut, PromiseAt, StateTypes
  <2>2. ~Unsaid /\ ~Unsaid'
    BY <1>1, <1>2, <1>10 DEF Unsaid
  <2>3. EndIsOut(b) /\ EndIsOut(b)'
    BY <1>1, <1>3, <1>5, <1>10 DEF EndIsOut
  <2>4. \A u \in Turns : TurnOut(u, b)' = TurnOut(u, b)
    BY <2>2, <2>3 DEF TurnOut
  <2> QED BY <1>1, <2>1, <2>4 DEF PromiseAt, LogInv
<1> QED BY <1>9, <1>11, <1>12, <1>13, <1>14 DEF PromiseAt

-----------------------------------------------------------------------------
(* The end                                                                   *)

\* Who waits for turn/started is refused.
LEMMA CallsLost ==
  ASSUME NEW b \in 0..MaxTurns, PromiseAt(b), UNCHANGED <<injecting, told, log, handler>>,
         Out("note")' <=> Out("note"),
         call' = IF Cancelled THEN [c \in Callers |-> [call[c] EXCEPT !.lost = @ \/ c \in pend]] ELSE call
  PROVE  call' \in [Callers -> CallRecords] /\ OwnerInv' /\ ToldInv(b)'
<1> USE DEF PromiseAt
<1>1. ASSUME NEW c \in Callers
      PROVE  call'[c] \in CallRecords /\ call'[c].pc = call[c].pc /\ (call'[c].owner <=> call[c].owner) /\ call'[c].turn = call[c].turn
  <2>1. PICK r \in CallRecords : r = call[c]
    BY DEF StateTypes
  <2>2. PICK l \in BOOLEAN : l <=> r.lost \/ c \in pend
    OBVIOUS
  <2>3. call'[c] = r \/ call'[c] = [r EXCEPT !.lost = l]
    BY <2>1, <2>2 DEF CallRecords
  <2> QED BY <2>1, <2>3 DEF CallRecords
<1>2. call' \in [Callers -> CallRecords]
  BY <1>1 DEF StateTypes
<1>3. OwnerInv'
  BY <1>1 DEF OwnerInv
<1>4. ToldInv(b)'
  BY <1>1 DEF ToldInv
<1> QED BY <1>2, <1>3, <1>4

\* While nothing is unhandled, of the turn that is left no end is out, and if there is none nothing of a
\* note is under way but a summary.
LEMMA NoteOfTheEnd ==
  ASSUME NEW b \in 0..MaxTurns, PromiseAt(b), NoneUnhandled
  PROVE  /\ handler.pc # "completed"
         /\ fin = "no" /\ cur = None => handler.pc = "idle" \/ (handler.pc \in Begun /\ notes[1].kind = "compacted")
<1>1. handler.pc # "idle" => notes # <<>> /\ 1 \in DOMAIN notes
  BY HeadIsFirst DEF PromiseAt, StateTypes, HandlerInv
<1>2. handler.pc # "idle" => handler.pc \in Begun
  BY <1>1 DEF NoneUnhandled, Begun
<1> QED BY <1>2 DEF PromiseAt, EndingInv, Begun

\* The end begins: with the result of the tool that is left, the end of the turn, or at once its own.
LEMMA EndBegins ==
  ASSUME NEW b \in 0..MaxTurns, PromiseAt(b), fin = "no", NoneUnhandled, Finalize, server' \in ServerRecords,
         ~server'.routed,
         UNCHANGED <<tool, notes, handler, log, told, injecting>>
  PROVE  PromiseAt(b)'
<1> USE DEF PromiseAt
<1>1. /\ handler.pc # "completed"
      /\ cur = None => handler.pc = "idle" \/ (handler.pc \in Begun /\ notes[1].kind = "compacted")
  BY NoteOfTheEnd
<1>2. log.session = "open"
  BY DEF LogInv, StateTypes, LogRecords
<1>3. NoneUnhandled' /\ cur \in {None, b} /\ cur \in 0..MaxTurns
  BY NumbersAreTyped DEF NoneUnhandled, StateTypes
<1>4. Out("fin") /\ \A x \in EventRecords : InChain(x) => Fits(x, b) /\ x.by = "note"
  <2>1. \A x \in EventRecords : InChain(x) => Fits(x, b) /\ x.by = "note"
    BY DEF ChainInv, Fits, EventRecords, Threads
  <2>2. ASSUME NEW i \in DOMAIN chain PROVE chain[i].by # "fin"
    <3>1. InChain(chain[i]) /\ chain[i] \in EventRecords
      BY DEF InChain, StateTypes
    <3> QED BY <2>1, <3>1
  <2> QED BY <2>1, <2>2 DEF Out
\* What the three beginnings have in common.
<1>5. ASSUME NEW e \in EventRecords, e.by = "fin", chain' = Append(chain, e), fin' \in {"tool", "turn", "session"},
             fin' = "tool" => e.kind = "tool_result" /\ cur # None /\ tool /\ cur' = cur,
             fin' = "turn" => e.kind = "turn_ended" /\ e.turn = cur /\ cur # None /\ ~tool /\ cur' = None,
             fin' = "session" => e.kind = "session_ended" /\ cur = None /\ cur' = None,
             pend' \subseteq Callers,
             \/ UNCHANGED call
             \/ call' = IF Cancelled THEN [c \in Callers |-> [call[c] EXCEPT !.lost = @ \/ c \in pend]] ELSE call
      PROVE  PromiseAt(b)'
  <2>1. \A x \in EventRecords : InChain(x) => Fits(x, b)'
    <3> SUFFICES ASSUME NEW x \in EventRecords, Fits(x, b), x.by = "note" PROVE Fits(x, b)'
      BY <1>4
    <3>1. fin' = "session" => x.kind = "compact_ended"
      BY <1>1, <1>5 DEF Fits, HandlerInv, Begun
    <3> QED BY <1>5, <3>1 DEF Fits
  <2>2. Fits(e, b)'
    BY <1>3, <1>5 DEF Fits, None
  <2>3. /\ ChainInv(b)' /\ chain' \in Seq(EventRecords)
        /\ \A x : Out(x)' <=> Out(x) /\ x # e.by
    <3>1. chain \in Seq(EventRecords) /\ Out(e.by)
      BY <1>4, <1>5 DEF StateTypes
    <3> QED BY <1>4, <1>5, <2>1, <2>2, <3>1, ChainGrows
  <2>4. (Out("note")' <=> Out("note")) /\ ~Out("fin")'
    BY <1>5, <2>3
  <2>5. call' \in [Callers -> CallRecords] /\ OwnerInv' /\ ToldInv(b)'
    <3>1. CASE UNCHANGED call
      BY <2>4, <3>1 DEF StateTypes, OwnerInv, ToldInv
    <3>2. CASE call' = IF Cancelled THEN [c \in Callers |-> [call[c] EXCEPT !.lost = @ \/ c \in pend]] ELSE call
      BY <2>4, <3>2, CallsLost
    <3> QED BY <1>5, <3>1, <3>2
  <2>6. StateTypes(b)'
    BY <1>3, <1>5, <2>3, <2>5 DEF StateTypes
  <2>7. HandlerInv(b)'
    BY <1>1 DEF HandlerInv
  <2>8. cur' = None => ~tool
    BY <1>5 DEF EndingInv
  <2>9. EndingInv'
    BY <1>3, <1>5, <2>8 DEF EndingInv
  <2>10. NotesInv(b)'
    BY <1>5 DEF NotesInv
  <2>11. LogInv(b)'
    <3>1. ToolOut' = ToolOut
      BY <1>5, <2>4 DEF ToolOut
    <3>2. Unsaid' <=> Unsaid
      BY <2>4 DEF Unsaid
    <3>3. b # None => (EndIsOut(b)' <=> EndIsOut(b))
      BY <1>1, <1>3, <1>5, <2>4 DEF EndIsOut
    <3>4. \A u \in Turns : TurnOut(u, b)' = TurnOut(u, b)
      BY <3>2, <3>3 DEF TurnOut, Turns, None
    <3> QED BY <1>2, <3>1, <3>4 DEF LogInv
  <2> QED BY <2>3, <2>5, <2>6, <2>7, <2>9, <2>10, <2>11
<1>6. CASE ToolLeft
  <2>1. PICK e \in EventRecords : e = Event("tool_result", cur, "fin") /\ e.kind = "tool_result" /\ e.by = "fin"
    BY <1>3, EventIsTyped DEF EventKinds, Threads
  <2>2. chain' = Append(chain, e) /\ fin' = "tool" /\ UNCHANGED <<cur, call, pend>>
    BY <1>6, <2>1 DEF Finalize
  <2> QED BY <1>5, <1>6, <2>1, <2>2 DEF ToolLeft, StateTypes
<1>7. CASE ~ToolLeft /\ TurnLeft
  <2>1. PICK e \in EventRecords : e = Event("turn_ended", cur, "fin") /\ e.kind = "turn_ended" /\ e.turn = cur /\ e.by = "fin"
    BY <1>3, EventIsTyped DEF EventKinds, Threads
  <2>2. chain' = Append(chain, e) /\ fin' = "turn" /\ cur' = None /\ UNCHANGED <<call, pend>>
    BY <1>7, <2>1 DEF Finalize, EndTurn
  <2> QED BY <1>5, <1>7, <2>1, <2>2 DEF ToolLeft, TurnLeft, StateTypes
<1>8. CASE ~ToolLeft /\ ~TurnLeft
  <2>1. PICK e \in EventRecords : e = Event("session_ended", None, "fin") /\ e.kind = "session_ended" /\ e.by = "fin"
    <3>1. None \in 0..MaxTurns
      BY NumbersAreTyped
    <3> QED BY <3>1, EventIsTyped DEF EventKinds, Threads
  <2>2. /\ chain' = Append(chain, e) /\ fin' = "session" /\ cur' = cur /\ pend' = {}
        /\ call' = IF Cancelled THEN [c \in Callers |-> [call[c] EXCEPT !.lost = @ \/ c \in pend]] ELSE call
    BY <1>8, <2>1 DEF Finalize, EndSession
  <2> QED BY <1>5, <1>8, <2>1, <2>2 DEF TurnLeft
<1> QED BY <1>6, <1>7, <1>8

LEMMA FinalizeKeeps ==
  ASSUME NEW b \in 0..MaxTurns, PromiseAt(b), Behaved, Calm, Finalize, server' \in ServerRecords, ~server'.routed,
         UNCHANGED <<tool, notes, handler, log, told, injecting>>
  PROVE  PromiseAt(b)'
<1>1. CASE fin = "no"
  <2>1. NoneUnhandled
    BY DEF Behaved, Calm
  <2> QED BY <1>1, <2>1, EndBegins
<1>2. CASE fin # "no"
  <2>1. UNCHANGED <<call, pend, chain, cur, fin>>
    BY <1>2 DEF Finalize
  <2>2. server'.routed = server.routed
    BY <1>2 DEF PromiseAt, EndingInv, StateTypes, ServerRecords
  <2> QED BY <1>2, <2>1, <2>2, OnlyServer
<1> QED BY <1>1, <1>2

LEMMA CloseEntersKeeps == ASSUME NEW b \in 0..MaxTurns, PromiseAt(b), Behaved, CloseEnters PROVE PromiseAt(b)'
<1>1. UNCHANGED <<tool, notes, handler, log, told, injecting>> /\ server \in ServerRecords
  BY DEF CloseEnters, flags, PromiseAt, StateTypes
<1>2. CASE Kill /\ Calm
  <2>1. server' \in ServerRecords /\ ~server'.routed /\ Finalize
    BY <1>1, <1>2 DEF Kill, ServerRecords
  <2> QED BY <1>1, <1>2, <2>1, FinalizeKeeps
<1>3. CASE UNCHANGED <<server, cur, pend, call, chain, fin>>
  BY <1>1, <1>3, OnlyServer
<1> QED BY <1>2, <1>3 DEF CloseEnters

LEMMA CloseWaitsKeeps == ASSUME NEW b \in 0..MaxTurns, PromiseAt(b), Behaved, CloseWaits PROVE PromiseAt(b)'
<1>1. UNCHANGED <<tool, notes, handler, log, told, injecting>> /\ server \in ServerRecords
  BY DEF CloseWaits, flags, PromiseAt, StateTypes
<1>2. CASE Kill /\ Calm
  <2>1. server' \in ServerRecords /\ ~server'.routed /\ Finalize
    BY <1>1, <1>2 DEF Kill, ServerRecords
  <2> QED BY <1>1, <1>2, <2>1, FinalizeKeeps
<1>3. CASE UNCHANGED <<server, cur, pend, call, chain, fin>>
  BY <1>1, <1>3, OnlyServer
<1> QED BY <1>2, <1>3 DEF CloseWaits

LEMMA CloseUnsubscribesKeeps == ASSUME NEW b \in 0..MaxTurns, PromiseAt(b), Behaved, CloseUnsubscribes PROVE PromiseAt(b)'
<1>1. UNCHANGED <<tool, notes, handler, log, told, injecting>> /\ server \in ServerRecords /\ Calm /\ Finalize
  BY DEF CloseUnsubscribes, Kill, flags, PromiseAt, StateTypes
<1>2. server' = [server EXCEPT !.routed = FALSE] \/ server' = [server EXCEPT !.alive = FALSE, !.routed = FALSE]
  BY DEF CloseUnsubscribes, Kill
<1>3. server' \in ServerRecords /\ ~server'.routed
  BY <1>1, <1>2 DEF ServerRecords
<1> QED BY <1>1, <1>3, FinalizeKeeps

LEMMA ServerDiesKeeps == ASSUME NEW b \in 0..MaxTurns, PromiseAt(b), Behaved, ServerDies PROVE PromiseAt(b)'
<1>1. /\ UNCHANGED <<tool, notes, handler, log, told, injecting>> /\ server \in ServerRecords /\ Calm
      /\ server' = [server EXCEPT !.alive = FALSE, !.routed = FALSE]
  BY DEF ServerDies, PromiseAt, StateTypes
<1>2. server' \in ServerRecords /\ ~server'.routed
  BY <1>1 DEF ServerRecords
<1>3. CASE server.routed /\ fin = "no"
  <2>1. Finalize
    BY <1>3 DEF ServerDies
  <2> QED BY <1>1, <1>2, <2>1, FinalizeKeeps
<1>4. CASE ~(server.routed /\ fin = "no")
  <2>1. UNCHANGED <<call, pend, chain, cur, fin>>
    BY <1>4 DEF ServerDies
  <2>2. fin # "no" /\ server'.routed = server.routed
    BY <1>1, <1>2, <1>4 DEF PromiseAt, EndingInv, ServerRecords
  <2> QED BY <1>1, <1>2, <2>1, <2>2, OnlyServer
<1> QED BY <1>3, <1>4

\* Its events come out one by one: while none is under way, the chain is empty.
LEMMA EndGoesOn ==
  ASSUME NEW b \in 0..MaxTurns, PromiseAt(b), fin # "no", Out("fin"), UNCHANGED <<notes, handler, log, told,
         injecting, server>>,
         cur' \in {None, b}, tool' \in BOOLEAN, pend' \subseteq Callers, cur' = None, ~tool',
         NEW e \in EventRecords, e.by = "fin", chain' = <<e>> \/ chain' = <<>>,
         \/ fin = "tool" /\ fin' = "turn" /\ e.kind = "turn_ended" /\ e.turn = b /\ chain' = <<e>> /\ cur = b /\ b # None
         \/ fin = "turn" /\ fin' = "session" /\ e.kind = "session_ended" /\ chain' = <<e>> /\ cur = None /\ ~tool
         \/ fin = "session" /\ fin' = "done" /\ chain' = <<>> /\ cur = None /\ ~tool,
         \/ UNCHANGED call
         \/ call' = IF Cancelled THEN [c \in Callers |-> [call[c] EXCEPT !.lost = @ \/ c \in pend]] ELSE call
  PROVE  PromiseAt(b)'
<1> USE DEF PromiseAt
<1>1. chain = <<>> /\ NoneUnhandled /\ handler.pc # "completed"
  BY NoteOfTheEnd DEF ChainInv, EndingInv
<1>2. DOMAIN chain = {} /\ (chain' = <<>> => DOMAIN chain' = {}) /\ (chain' = <<e>> => DOMAIN chain' = {1} /\ chain'[1] = e /\ chain' # <<>>)
  BY <1>1
<1>3. \A x : Out(x)
  BY <1>2 DEF Out
<1>4. \A x : Out(x)' <=> (x = "fin" => chain' = <<>>)
  BY <1>2 DEF Out
<1>5. Out("note") /\ Out("note")'
  BY <1>3, <1>4
<1>6. call' \in [Callers -> CallRecords] /\ OwnerInv' /\ ToldInv(b)'
  <2>1. CASE UNCHANGED call
    BY <1>5, <2>1 DEF StateTypes, OwnerInv, ToldInv
  <2>2. CASE call' = IF Cancelled THEN [c \in Callers |-> [call[c] EXCEPT !.lost = @ \/ c \in pend]] ELSE call
    BY <1>5, <2>2, CallsLost
  <2> QED BY <2>1, <2>2
<1>7. StateTypes(b)'
  <2>1. <<>> \in Seq(EventRecords) /\ <<e>> \in Seq(EventRecords)
    OBVIOUS
  <2>2. chain' \in Seq(EventRecords)
    BY <2>1
  <2> QED BY <1>6, <2>2 DEF StateTypes
<1>8. HandlerInv(b)' /\ EndingInv' /\ NotesInv(b)'
  BY <1>1 DEF HandlerInv, EndingInv, NotesInv, NoneUnhandled
<1>9. ChainInv(b)'
  <2>1. \A x \in EventRecords : InChain(x)' => x = e /\ chain' = <<e>>
    BY <1>2 DEF InChain
  <2>2. chain' = <<e>> => Fits(e, b)'
    BY DEF Fits, None
  <2>3. \A x \in EventRecords : InChain(x)' => Fits(x, b)'
    BY <2>1, <2>2
  <2> QED BY <1>2, <1>4, <2>3 DEF ChainInv
<1>10. LogInv(b)'
  <2>1. ToolOut = FALSE /\ ToolOut' = FALSE
    BY <1>3, <1>5 DEF ToolOut, StateTypes
  <2>2. ~Unsaid /\ ~Unsaid'
    BY <1>5 DEF Unsaid
  <2>3. b # None => (EndIsOut(b)' <=> EndIsOut(b))
    <3>1. (Out("fin")' <=> chain' = <<>>) /\ (chain' = <<e>> => chain' # <<>>) /\ Out("fin")
      BY <1>2, <1>3, <1>4
    <3>2. b # None => (~EndIsOut(b) <=> fin = "tool")
      BY <1>1, <3>1 DEF EndIsOut
    <3>3. b # None => (~EndIsOut(b)' <=> fin = "tool")
      BY <1>1, <3>1 DEF EndIsOut
    <3> QED BY <3>2, <3>3
  <2>4. \A u \in Turns : TurnOut(u, b)' = TurnOut(u, b)
    BY <2>2, <2>3 DEF TurnOut, Turns, None
  <2> QED BY <2>1, <2>4 DEF LogInv
<1> QED BY <1>6, <1>7, <1>8, <1>9, <1>10

LEMMA FinalizeToolKeeps == ASSUME NEW b \in 0..MaxTurns, PromiseAt(b), FinalizeTool PROVE PromiseAt(b)'
<1>1. /\ UNCHANGED <<notes, handler, log, told, injecting, server, call, pend>> /\ fin = "tool" /\ Out("fin") /\ tool' = FALSE
      /\ cur' = None /\ chain' = Append(chain, Event("turn_ended", cur, "fin")) /\ fin' = "turn"
  BY DEF FinalizeTool, EndTurn, flags, inbound
<1>2. cur = b /\ b # None /\ chain = <<>> /\ pend \subseteq Callers
  BY <1>1 DEF PromiseAt, EndingInv, StateTypes, ChainInv
<1>3. PICK e \in EventRecords : e = Event("turn_ended", b, "fin") /\ e.kind = "turn_ended" /\ e.turn = b /\ e.by = "fin"
  BY EventIsTyped DEF EventKinds, Threads
<1>4. chain' = <<e>>
  BY <1>1, <1>2, <1>3
<1> QED BY <1>1, <1>2, <1>3, <1>4, EndGoesOn

LEMMA FinalizeTurnKeeps == ASSUME NEW b \in 0..MaxTurns, PromiseAt(b), FinalizeTurn PROVE PromiseAt(b)'
<1>1. /\ UNCHANGED <<notes, handler, log, told, injecting, server, tool, cur>> /\ fin = "turn" /\ Out("fin")
      /\ pend' = {} /\ chain' = Append(chain, Event("session_ended", None, "fin")) /\ fin' = "session"
      /\ call' = IF Cancelled THEN [c \in Callers |-> [call[c] EXCEPT !.lost = @ \/ c \in pend]] ELSE call
  BY DEF FinalizeTurn, EndSession, flags, inbound, turnVars
<1>2. cur = None /\ ~tool /\ chain = <<>> /\ tool \in BOOLEAN
  BY <1>1 DEF PromiseAt, EndingInv, StateTypes, ChainInv
<1>3. PICK e \in EventRecords : e = Event("session_ended", None, "fin") /\ e.kind = "session_ended" /\ e.by = "fin"
  <2>1. None \in 0..MaxTurns
    BY NumbersAreTyped DEF PromiseAt
  <2> QED BY <2>1, EventIsTyped DEF EventKinds, Threads
<1>4. chain' = <<e>>
  BY <1>1, <1>2, <1>3
<1> QED BY <1>1, <1>2, <1>3, <1>4, EndGoesOn

LEMMA FinalizeSessionKeeps == ASSUME NEW b \in 0..MaxTurns, PromiseAt(b), FinalizeSession PROVE PromiseAt(b)'
<1>1. /\ UNCHANGED <<notes, handler, log, told, injecting, server, tool, cur, call, pend, chain>> /\ fin = "session" /\ Out("fin")
      /\ fin' = "done"
  BY DEF FinalizeSession, flags, inbound, out
<1>2. cur = None /\ ~tool /\ chain = <<>> /\ tool \in BOOLEAN /\ pend \subseteq Callers
  BY <1>1 DEF PromiseAt, EndingInv, StateTypes, ChainInv
<1>3. PICK e \in EventRecords : e = Event("session_ended", None, "fin") /\ e.by = "fin"
  <2>1. None \in 0..MaxTurns
    BY NumbersAreTyped DEF PromiseAt
  <2> QED BY <2>1, EventIsTyped DEF EventKinds, Threads
<1> QED BY <1>1, <1>2, <1>3, EndGoesOn

-----------------------------------------------------------------------------
(* What comes out                                                            *)

\* The event that comes out is the only one of its thread.
LEMMA EmitsOne ==
  ASSUME NEW b \in 0..MaxTurns, PromiseAt(b), chain # <<>>, chain' = Tail(chain), UNCHANGED fin, NEW e,
         e = Head(chain)
  PROVE  /\ e \in EventRecords /\ Fits(e, b) /\ ~Out(e.by) /\ chain' \in Seq(EventRecords)
         /\ \A x : Out(x)' <=> Out(x) \/ x = e.by
         /\ \A x \in EventRecords : InChain(x)' => InChain(x)
         /\ (fin # "no" => ~Out("fin")) /\ (e.by = "fin" => Out("note"))
         /\ \A i, j \in DOMAIN chain' : chain'[i].by = chain'[j].by => i = j
         /\ \A i, j \in DOMAIN chain' : i < j => chain'[j].by = "fin"
         /\ (fin' # "no" /\ Out("fin")' => chain' = <<>>)
<1>1. chain \in Seq(EventRecords)
  BY DEF PromiseAt, StateTypes
<1>2. /\ chain' \in Seq(EventRecords) /\ 1 \in DOMAIN chain /\ chain[1] = e /\ e \in EventRecords
      /\ \A i \in DOMAIN chain' : i \in Nat /\ i + 1 \in DOMAIN chain /\ i + 1 > 1 /\ chain'[i] = chain[i + 1]
      /\ \A i \in DOMAIN chain : i \in Nat /\ (i = 1 \/ (i - 1 \in DOMAIN chain' /\ chain'[i - 1] = chain[i]))
  BY <1>1, TailIndex
<1>3. /\ \A i, j \in DOMAIN chain : chain[i].by = chain[j].by => i = j
      /\ \A i, j \in DOMAIN chain : i < j => chain[j].by = "fin"
      /\ (fin # "no" => ~Out("fin"))
  BY DEF PromiseAt, ChainInv
<1>4. Fits(e, b) /\ ~Out(e.by)
  BY <1>2 DEF PromiseAt, ChainInv, InChain, Out
<1>5. ASSUME NEW x PROVE Out(x)' <=> Out(x) \/ x = e.by
  <2>1. ASSUME Out(x)', x # e.by, NEW i \in DOMAIN chain, chain[i].by = x PROVE FALSE
    BY <1>2, <2>1 DEF Out
  <2>2. ASSUME Out(x) PROVE Out(x)'
    BY <1>2, <2>2 DEF Out
  <2>3. ASSUME x = e.by, NEW i \in DOMAIN chain', chain'[i].by = x PROVE FALSE
    <3>1. i + 1 \in DOMAIN chain /\ chain[i + 1].by = chain[1].by /\ i + 1 # 1
      BY <1>2, <2>3
    <3> QED BY <1>2, <1>3, <3>1
  <2> QED BY <2>1, <2>2, <2>3 DEF Out
<1>6. \A x \in EventRecords : InChain(x)' => InChain(x)
  BY <1>2 DEF InChain
<1>7. e.by = "fin" => Out("note")
  <2> SUFFICES ASSUME e.by = "fin", NEW i \in DOMAIN chain, chain[i].by = "note" PROVE FALSE
    BY DEF Out
  <2>1. 1 < i
    BY <1>2
  <2> QED BY <1>2, <1>3, <2>1
<1>8. \A i, j \in DOMAIN chain' : chain'[i].by = chain'[j].by => i = j
  BY <1>2, <1>3
<1>9. \A i, j \in DOMAIN chain' : i < j => chain'[j].by = "fin"
  BY <1>2, <1>3
<1>10. ASSUME fin # "no", Out("fin")' PROVE chain' = <<>>
  <2>1. ASSUME NEW i \in DOMAIN chain' PROVE FALSE
    <3>1. i + 1 \in DOMAIN chain /\ 1 < i + 1 /\ chain'[i] = chain[i + 1]
      BY <1>2
    <3>2. chain'[i].by = "fin"
      BY <1>2, <1>3, <3>1
    <3> QED BY <1>10, <3>2 DEF Out
  <2>2. chain' # <<>> => 1 \in DOMAIN chain'
    BY <1>2, HeadIsFirst
  <2> QED BY <2>1, <2>2
<1> QED BY <1>2, <1>3, <1>4, <1>5, <1>6, <1>7, <1>8, <1>9, <1>10

\* An event comes out: each says what there was to say.
EmitsTurnStarted(e, b) ==
  /\ e.kind = "turn_started" /\ e.turn = b /\ b \in Turns /\ log.session = "open"
  /\ Unsaid /\ ~Unsaid' /\ ~EndIsOut(b)' /\ ToolOut' = ToolOut
EmitsTurnEnded(e, b) ==
  /\ e.kind = "turn_ended" /\ e.turn = b /\ b \in Turns /\ log.session = "open"
  /\ ~Unsaid /\ ~Unsaid' /\ ~EndIsOut(b) /\ EndIsOut(b)' /\ ToolOut' = ToolOut
EmitsTool(e, b) ==
  /\ e.kind = (IF ToolOut' THEN "tool_invoked" ELSE "tool_result") /\ ToolOut' = ~ToolOut
  /\ (Unsaid' <=> Unsaid) /\ (EndIsOut(b)' <=> EndIsOut(b))
EmitsSessionEnded(e, b) ==
  /\ e.kind = "session_ended" /\ fin = "session" /\ ~Unsaid /\ (b = 0 \/ EndIsOut(b)) /\ ToolOut = FALSE
EmitsSummary(e, b) ==
  /\ e.kind = "compact_ended" /\ (Unsaid' <=> Unsaid) /\ (EndIsOut(b)' <=> EndIsOut(b)) /\ ToolOut' = ToolOut

LEMMA EmitsWhatIsDue ==
  ASSUME NEW b \in 0..MaxTurns, PromiseAt(b), DoEmit, NEW e, e = Head(chain)
  PROVE  EmitsTurnStarted(e, b) \/ EmitsTurnEnded(e, b) \/ EmitsTool(e, b) \/ EmitsSessionEnded(e, b) \/ EmitsSummary(e, b)
<1> USE DEF PromiseAt
<1>1. UNCHANGED <<cur, tool, fin, notes, handler>> /\ chain # <<>> /\ chain' = Tail(chain)
  BY DEF DoEmit, turnVars, inbound
<1>2. /\ e \in EventRecords /\ Fits(e, b) /\ ~Out(e.by) /\ (\A x : Out(x)' <=> Out(x) \/ x = e.by)
      /\ (fin # "no" => ~Out("fin")) /\ (e.by = "fin" => Out("note"))
  BY <1>1, EmitsOne
<1>3. /\ e.by \in Threads /\ (log.session = "open" \/ fin \in {"session", "done"}) /\ tool \in BOOLEAN
      /\ cur \in {None, b} /\ None = 0 /\ b \in Nat /\ fin \in {"no", "tool", "turn", "session", "done"}
      /\ (b # 0 => b \in Turns)
  BY <1>2, BoundsAssumption DEF EventRecords, LogInv, StateTypes, LogRecords, None, Turns
<1>4. CASE e.by = "note"
  <2>1. ~Out("note") /\ Out("note")' /\ (Out("fin")' <=> Out("fin"))
    BY <1>2, <1>4
  <2>2. ~Unsaid'
    BY <2>1 DEF Unsaid
  <2>3. CASE handler.pc = "started"
    <3>1. e.kind = "turn_started" /\ e.turn = b /\ b # 0 /\ fin \notin {"session", "done"}
      BY <1>2, <1>4, <2>3 DEF Fits, HandlerInv
    <3>2. cur = b \/ (fin = "turn" /\ ~Out("fin"))
      BY <1>2, <1>3, <2>3, <3>1 DEF EndingInv, Begun, HandlerInv
    <3>3. Unsaid /\ ~EndIsOut(b)' /\ ToolOut' = ToolOut
      BY <1>1, <2>1, <2>3, <3>2 DEF Unsaid, EndIsOut, ToolOut
    <3> QED BY <1>3, <2>2, <3>1, <3>3 DEF EmitsTurnStarted
  <2>4. CASE handler.pc = "completed"
    <3>1. e.kind = "turn_ended" /\ e.turn = b /\ b # 0 /\ fin \notin {"session", "done"} /\ cur = b
      BY <1>2, <1>3, <1>4, <2>4 DEF Fits, HandlerInv
    <3>2. ~Unsaid /\ ~EndIsOut(b) /\ EndIsOut(b)' /\ ToolOut' = ToolOut
      BY <1>1, <2>1, <2>4, <3>1 DEF Unsaid, EndIsOut, ToolOut
    <3> QED BY <1>3, <2>2, <3>1, <3>2 DEF EmitsTurnEnded
  <2>5. CASE handler.pc = "said"
    <3>1. ~Unsaid /\ (EndIsOut(b)' <=> EndIsOut(b))
      BY <1>1, <2>1, <2>5 DEF Unsaid, EndIsOut
    <3>2. CASE notes[1].kind = "compacted"
      <4>1. e.kind = "compact_ended" /\ ToolOut' = ToolOut
        BY <1>1, <1>2, <1>4, <2>1, <2>5, <3>2 DEF Fits, ToolOut
      <4> QED BY <2>2, <3>1, <4>1 DEF EmitsSummary
    <3>3. CASE notes[1].kind # "compacted"
      <4>1. e.kind = (IF tool THEN "tool_invoked" ELSE "tool_result") /\ ToolOut' = tool /\ ToolOut = ~tool
        BY <1>1, <1>2, <1>4, <2>1, <2>5, <3>3 DEF Fits, ToolOut
      <4> QED BY <1>3, <2>2, <3>1, <4>1 DEF EmitsTool
    <3> QED BY <3>2, <3>3
  <2> QED BY <1>2, <1>4, <2>3, <2>4, <2>5 DEF Fits
<1>5. CASE e.by = "fin"
  <2>1. Out("fin")' /\ ~Out("fin") /\ Out("note") /\ Out("note")'
    BY <1>2, <1>5
  <2>2. ~Unsaid /\ ~Unsaid'
    BY <2>1 DEF Unsaid
  <2>3. CASE fin = "tool"
    <3>1. e.kind = "tool_result" /\ tool
      BY <1>2, <1>5, <2>3 DEF Fits, EndingInv
    <3>2. ToolOut = TRUE /\ ToolOut' = FALSE /\ (EndIsOut(b)' <=> EndIsOut(b))
      BY <1>1, <1>3, <2>1, <2>3, <3>1 DEF ToolOut, EndIsOut
    <3> QED BY <2>2, <3>1, <3>2 DEF EmitsTool
  <2>4. CASE fin = "turn"
    <3>1. e.kind = "turn_ended" /\ e.turn = b /\ b # 0 /\ cur = None
      BY <1>2, <1>5, <2>4 DEF Fits, EndingInv
    <3>2. ~EndIsOut(b) /\ EndIsOut(b)' /\ ToolOut' = ToolOut
      BY <1>1, <1>3, <2>1, <2>4, <3>1 DEF ToolOut, EndIsOut
    <3> QED BY <1>3, <2>2, <2>4, <3>1, <3>2 DEF EmitsTurnEnded
  <2>5. CASE fin = "session"
    <3>1. e.kind = "session_ended" /\ cur = None /\ ~tool
      BY <1>2, <1>5, <2>5 DEF Fits, EndingInv
    <3>2. (b = 0 \/ EndIsOut(b)) /\ ToolOut = FALSE
      BY <1>3, <2>1, <2>5, <3>1 DEF ToolOut, EndIsOut
    <3> QED BY <2>2, <2>5, <3>1, <3>2 DEF EmitsSessionEnded
  <2> QED BY <1>2, <1>5, <2>3, <2>4, <2>5 DEF Fits
<1> QED BY <1>3, <1>4, <1>5 DEF Threads

\* What the listener makes of each, of a session that has not ended.
LEMMA HeardOfTurn ==
  ASSUME log \in LogRecords, NEW t \in Turns, NEW s \in {"open", "ended"}, log' = [log EXCEPT !.turn[t] = s]
  PROVE  /\ log' \in LogRecords /\ log'.turn = [log.turn EXCEPT ![t] = s] /\ log'.tool = log.tool
         /\ log'.session = log.session /\ \A u \in Turns : log'.turn[u] = IF u = t THEN s ELSE log.turn[u]
<1>1. log' = [log EXCEPT !.turn = [log.turn EXCEPT ![t] = s]] /\ log.turn \in [Turns -> {"unborn", "open", "ended", "broken"}]
  BY DEF LogRecords
<1>2. [log.turn EXCEPT ![t] = s] \in [Turns -> {"unborn", "open", "ended", "broken"}]
  BY <1>1
<1> QED BY <1>1, <1>2 DEF LogRecords

LEMMA SaidOf ==
  ASSUME NEW b \in 0..MaxTurns, PromiseAt(b), DoEmit, NEW e, e = Head(chain), log.session = "open"
  PROVE  /\ EmitsTurnStarted(e, b) => log' = [log EXCEPT !.turn[b] = "open"] /\ log.turn[b] = "unborn"
         /\ EmitsTurnEnded(e, b) => log' = [log EXCEPT !.turn[b] = "ended"] /\ log.turn[b] = "open"
         /\ EmitsTool(e, b) => log' = [log EXCEPT !.tool = ToolOut'] /\ ToolOut' = ~log.tool /\ ToolOut' \in BOOLEAN
         /\ EmitsSessionEnded(e, b) => log' = [log EXCEPT !.session = "ended"] /\ ~log.tool
         /\ EmitsSummary(e, b) => log' = log
<1>1. log' = Heard(e) /\ b \in Nat /\ log.tool = ToolOut /\ \A u \in Turns : log.turn[u] = TurnOut(u, b)
  BY BoundsAssumption DEF DoEmit, PromiseAt, LogInv
<1>2. ASSUME EmitsTurnStarted(e, b) PROVE log' = [log EXCEPT !.turn[b] = "open"] /\ log.turn[b] = "unborn"
  <2>1. log.turn[b] = "unborn"
    BY <1>1, <1>2 DEF EmitsTurnStarted, TurnOut
  <2> QED BY <1>1, <1>2, <2>1 DEF EmitsTurnStarted, Heard
<1>3. ASSUME EmitsTurnEnded(e, b) PROVE log' = [log EXCEPT !.turn[b] = "ended"] /\ log.turn[b] = "open"
  <2>1. log.turn[b] = "open"
    BY <1>1, <1>3 DEF EmitsTurnEnded, TurnOut
  <2> QED BY <1>1, <1>3, <2>1 DEF EmitsTurnEnded, Heard
<1>4. ASSUME EmitsTool(e, b) PROVE log' = [log EXCEPT !.tool = ToolOut'] /\ ToolOut' = ~log.tool /\ ToolOut' \in BOOLEAN
  <2>1. ToolOut' = ~log.tool /\ ToolOut' \in BOOLEAN
    BY <1>1, <1>4 DEF EmitsTool
  <2> QED BY <1>1, <1>4, <2>1 DEF EmitsTool, Heard
<1>5. ASSUME EmitsSessionEnded(e, b) PROVE log' = [log EXCEPT !.session = "ended"] /\ ~log.tool
  BY <1>1, <1>5 DEF EmitsSessionEnded, Heard
<1>6. ASSUME EmitsSummary(e, b) PROVE log' = log
  BY <1>1, <1>6 DEF EmitsSummary, Heard
<1> QED BY <1>2, <1>3, <1>4, <1>5, <1>6

\* The listener's view of the session after the event; the start of a turn, once out, stays out.
LEMMA HeardIsDue ==
  ASSUME NEW b \in 0..MaxTurns, PromiseAt(b), DoEmit
  PROVE  /\ LogInv(b)' /\ log' \in LogRecords
         /\ \A u \in Turns : log.turn[u] # "unborn" => log'.turn[u] # "unborn"
         /\ (Unsaid /\ Out("note")' => log'.turn[b] # "unborn")
<1> USE DEF PromiseAt
<1>1. PICK e : e = Head(chain)
  OBVIOUS
<1>2. UNCHANGED <<cur, tool, fin, notes, handler>> /\ chain # <<>> /\ chain' = Tail(chain) /\ log' = Heard(e)
  BY <1>1 DEF DoEmit, turnVars, inbound
<1>3. log \in LogRecords /\ log.session \in {"open", "ended"} /\ b \in Nat /\ \A u \in Turns : u \in Nat /\ u # 0
  BY BoundsAssumption DEF StateTypes, LogRecords, Turns
<1>4. CASE log.session = "ended"
  <2>1. log' = log
    BY <1>2, <1>4 DEF Heard
  <2>2. fin \in {"session", "done"}
    BY <1>4 DEF LogInv
  <2>3. ~(Unsaid /\ Out("note")')
    <3>1. e.by = "note" => ~Unsaid
      BY <1>1, <1>2, <2>2, EmitsOne DEF Fits, Unsaid
    <3>2. Out("note")' <=> Out("note") \/ e.by = "note"
      BY <1>1, <1>2, EmitsOne
    <3> QED BY <3>1, <3>2 DEF Unsaid
  <2> QED BY <1>2, <1>3, <1>4, <2>1, <2>2, <2>3 DEF LogInv
<1>5. CASE log.session = "open"
  <2>1. log.tool = ToolOut /\ \A u \in Turns : log.turn[u] = TurnOut(u, b)
    BY <1>5 DEF LogInv
  <2>2. CASE EmitsTurnStarted(e, b)
    <3>1. b \in Turns /\ Unsaid /\ ~Unsaid' /\ ~EndIsOut(b)' /\ ToolOut' = ToolOut
      BY <2>2 DEF EmitsTurnStarted
    <3>2. /\ log' \in LogRecords /\ log'.tool = log.tool /\ log'.session = log.session
          /\ \A u \in Turns : log'.turn[u] = IF u = b THEN "open" ELSE log.turn[u]
      BY <1>1, <1>3, <1>5, <2>2, <3>1, SaidOf, HeardOfTurn
    <3>3. ASSUME NEW u \in Turns PROVE log'.turn[u] = TurnOut(u, b)'
      <4>1. CASE u = b
        BY <1>3, <3>1, <3>2, <4>1 DEF TurnOut
      <4>2. CASE u # b
        <5>1. TurnOut(u, b)' = TurnOut(u, b)
          BY <1>3, <3>1, <4>2 DEF TurnOut
        <5> QED BY <2>1, <3>2, <4>2, <5>1
      <4> QED BY <4>1, <4>2
    <3> QED BY <1>5, <2>1, <3>1, <3>2, <3>3 DEF LogInv
  <2>3. CASE EmitsTurnEnded(e, b)
    <3>1. b \in Turns /\ ~Unsaid /\ ~Unsaid' /\ EndIsOut(b)' /\ ToolOut' = ToolOut
      BY <2>3 DEF EmitsTurnEnded
    <3>2. /\ log' \in LogRecords /\ log'.tool = log.tool /\ log'.session = log.session
          /\ \A u \in Turns : log'.turn[u] = IF u = b THEN "ended" ELSE log.turn[u]
      BY <1>1, <1>3, <1>5, <2>3, <3>1, SaidOf, HeardOfTurn
    <3>3. ASSUME NEW u \in Turns PROVE log'.turn[u] = TurnOut(u, b)'
      <4>1. CASE u = b
        BY <1>3, <3>1, <3>2, <4>1 DEF TurnOut
      <4>2. CASE u # b
        <5>1. TurnOut(u, b)' = TurnOut(u, b)
          BY <1>3, <3>1, <4>2 DEF TurnOut
        <5> QED BY <2>1, <3>2, <4>2, <5>1
      <4> QED BY <4>1, <4>2
    <3> QED BY <1>5, <2>1, <3>1, <3>2, <3>3 DEF LogInv
  <2>4. CASE EmitsTool(e, b)
    <3>1. (Unsaid' <=> Unsaid) /\ (EndIsOut(b)' <=> EndIsOut(b))
      BY <2>4 DEF EmitsTool
    <3>2. log' \in LogRecords /\ log'.tool = ToolOut' /\ log'.session = log.session /\ log'.turn = log.turn
      BY <1>1, <1>3, <1>5, <2>4, SaidOf DEF LogRecords
    <3>3. \A u \in Turns : TurnOut(u, b)' = TurnOut(u, b)
      BY <3>1 DEF TurnOut
    <3>4. Unsaid /\ Out("note")' => FALSE
      BY <1>2, <3>1 DEF Unsaid
    <3> QED BY <1>5, <2>1, <3>2, <3>3, <3>4 DEF LogInv
  <2>5. CASE EmitsSessionEnded(e, b)
    <3>1. log' \in LogRecords /\ log'.session = "ended" /\ log'.turn = log.turn /\ fin' = "session" /\ ~Unsaid
      BY <1>1, <1>2, <1>3, <1>5, <2>5, SaidOf DEF LogRecords, EmitsSessionEnded
    <3> QED BY <3>1 DEF LogInv
  <2>6. CASE EmitsSummary(e, b)
    <3>1. (Unsaid' <=> Unsaid) /\ (EndIsOut(b)' <=> EndIsOut(b)) /\ ToolOut' = ToolOut /\ log' = log
      BY <1>1, <1>5, <2>6, SaidOf DEF EmitsSummary
    <3>2. \A u \in Turns : TurnOut(u, b)' = TurnOut(u, b)
      BY <3>1 DEF TurnOut
    <3>3. Unsaid /\ Out("note")' => FALSE
      BY <1>2, <3>1 DEF Unsaid
    <3> QED BY <1>3, <1>5, <2>1, <3>1, <3>2, <3>3 DEF LogInv
  <2> QED BY <1>1, <2>2, <2>3, <2>4, <2>5, <2>6, EmitsWhatIsDue
<1> QED BY <1>3, <1>4, <1>5

LEMMA DoEmitKeeps == ASSUME NEW b \in 0..MaxTurns, PromiseAt(b), DoEmit PROVE PromiseAt(b)'
<1> USE DEF PromiseAt
<1>1. /\ LogInv(b)' /\ log' \in LogRecords /\ (\A u \in Turns : log.turn[u] # "unborn" => log'.turn[u] # "unborn")
      /\ (Unsaid /\ Out("note")' => log'.turn[b] # "unborn")
  BY HeardIsDue
<1>2. /\ UNCHANGED <<cur, tool, injecting, pend, call, fin, notes, handler, server, told>> /\ chain # <<>> /\ chain' = Tail(chain)
  BY DEF DoEmit, turnVars, inbound
<1>3. PICK e : e = Head(chain)
  OBVIOUS
<1>4. /\ chain' \in Seq(EventRecords) /\ (\A x : Out(x)' <=> Out(x) \/ x = e.by)
      /\ \A x \in EventRecords : InChain(x)' => InChain(x)
      /\ \A i, j \in DOMAIN chain' : chain'[i].by = chain'[j].by => i = j
      /\ \A i, j \in DOMAIN chain' : i < j => chain'[j].by = "fin"
      /\ (fin' # "no" /\ Out("fin")' => chain' = <<>>)
  BY <1>2, <1>3, EmitsOne
<1>5. StateTypes(b)' /\ OwnerInv' /\ HandlerInv(b)' /\ EndingInv'
  BY <1>1, <1>2, <1>4 DEF StateTypes, OwnerInv, HandlerInv, EndingInv, NoneUnhandled
<1>6. NotesInv(b)'
  BY <1>2, NotesStay
<1>7. ChainInv(b)'
  <2>1. ASSUME NEW x \in EventRecords, InChain(x)' PROVE Fits(x, b)'
    <3>1. Fits(x, b)
      BY <1>4, <2>1 DEF ChainInv
    <3> QED BY <1>2, <3>1 DEF Fits
  <2> QED BY <1>4, <2>1 DEF ChainInv
<1>8. ToldInv(b)'
  <2>1. b # 0 => b \in Turns
    BY BoundsAssumption DEF Turns
  <2>2. 1..b \subseteq Turns
    BY BoundsAssumption DEF Turns
  <2>3. handler.pc = "started" /\ Out("note")' => log'.turn[b] # "unborn"
    BY <1>1, <2>1 DEF Unsaid, ToldInv, HandlerInv
  <2>4. handler.pc = "settle" => log'.turn[b] # "unborn"
    BY <1>1, <2>1 DEF ToldInv, HandlerInv
  <2>5. \A c \in Callers : call[c].pc \in {"requested", "taken"} /\ call[c].turn # None => log'.turn[call[c].turn] # "unborn"
    BY <1>1, <2>2 DEF ToldInv
  <2> QED BY <1>2, <2>3, <2>4, <2>5 DEF ToldInv
<1> QED BY <1>1, <1>5, <1>6, <1>7, <1>8

-----------------------------------------------------------------------------
(* The first state, and each step                                            *)

LEMMA PromiseStarts == Init => PromiseInv
<1> SUFFICES ASSUME Init PROVE PromiseAt(0)
  BY BoundsAssumption DEF PromiseInv
<1> USE DEF Init
<1>1. None \in 0..MaxTurns
  BY BoundsAssumption DEF None
<1>2. StateTypes(0)
  <2>1. Idle \in CallRecords
    BY <1>1 DEF Idle, CallRecords, CallPcs
  <2>2. server \in ServerRecords
    BY <1>1, BoundsAssumption DEF ServerRecords
  <2>3. log \in LogRecords /\ handler \in HandlerRecords
    BY DEF LogRecords, HandlerRecords
  <2>4. chain \in Seq(EventRecords) /\ notes \in Seq(NoteRecords)
    OBVIOUS
  <2>5. call \in [Callers -> CallRecords]
    BY <2>1
  <2> QED BY <2>2, <2>3, <2>4, <2>5 DEF StateTypes
<1>3. DOMAIN chain = {} /\ DOMAIN notes = {}
  OBVIOUS
<1>4. \A x : Out(x)
  BY <1>3 DEF Out
<1>5. OwnerInv /\ HandlerInv(0) /\ ToldInv(0) /\ EndingInv
  BY DEF OwnerInv, HandlerInv, ToldInv, EndingInv, Begun, Idle
<1>6. NotesInv(0)
  <2>1. \A k, t : ~Ahead(k, t)
    BY <1>3 DEF Ahead
  <2>2. OrderInv
    BY <1>3 DEF OrderInv
  <2>3. FlowInv(0)
    BY <2>1, BoundsAssumption DEF FlowInv, Turns, None
  <2> QED BY <2>2, <2>3 DEF NotesInv
<1>7. ChainInv(0)
  BY <1>3 DEF ChainInv, InChain
<1>8. LogInv(0)
  <2>1. ToolOut = FALSE
    BY <1>4 DEF ToolOut
  <2>2. \A u \in Turns : TurnOut(u, 0) = "unborn"
    BY BoundsAssumption DEF TurnOut, Turns
  <2> QED BY <2>1, <2>2 DEF LogInv
<1> QED BY <1>2, <1>5, <1>6, <1>7, <1>8 DEF PromiseAt

LEMMA PromiseStep == ASSUME PromiseInv, [Next]_vars, Behaved PROVE PromiseInv'
<1>1. PICK b \in 0..MaxTurns : PromiseAt(b)
  BY DEF PromiseInv
<1> SUFFICES PromiseAt(b)' \/ (b + 1 \in 0..MaxTurns /\ PromiseAt(b + 1)')
  BY DEF PromiseInv
<1>2. CASE UNCHANGED vars
  BY <1>1, <1>2, StutterKeeps
<1>3. CASE DoEmit
  BY <1>1, <1>3, DoEmitKeeps
<1>4. CASE Handler
  BY <1>1, <1>4, HandleStartedKeeps, HandleSettleKeeps, HandleSettledKeeps, HandleToolKeeps, HandleCompactedKeeps,
     HandleSaidKeeps, HandleCompletedKeeps, HandleEndedKeeps DEF Handler
<1>5. CASE Server
  BY <1>1, <1>5, ServerStartsKeeps, ServerToolKeeps, ServerCompletesKeeps, ServerCompactsKeeps, ServerDiesKeeps,
     ServerTakesKeeps DEF Server
<1>6. CASE Finalizer \/ Closer
  BY <1>1, <1>6, FinalizeToolKeeps, FinalizeTurnKeeps, FinalizeSessionKeeps, CloseEntersKeeps, CloseWaitsKeeps,
     CloseUnsubscribesKeeps DEF Finalizer, Closer
<1>7. ASSUME NEW c \in Callers, CallSteps(c) \/ AbortTurn(c) \/ Inject(c) PROVE PromiseAt(b)'
  BY <1>1, <1>7, AskedKeeps, SteeredKeeps, InterruptWaitsKeeps, InterruptEndsKeeps, AcceptedKeeps, RequestFailsKeeps,
     AcknowledgedKeeps, AbortTurnKeeps, InjectKeeps DEF CallSteps
<1>8. CASE CompactBegin \/ CompactFails
  BY <1>1, <1>8, CompactBeginKeeps, CompactFailsKeeps
<1>9. ASSUME NEW force \in BOOLEAN, Close(force) PROVE PromiseAt(b)'
  BY <1>1, <1>9, CloseKeeps
<1> QED BY <1>2, <1>3, <1>4, <1>5, <1>6, <1>7, <1>8, <1>9 DEF Next

\* The inductive invariant: for some number of turns begun, what is out is what the threads have let out.
THEOREM PromiseInvariant == ASSUME Behaved PROVE Spec => []PromiseInv
<1>1. PromiseInv /\ [Next]_vars => PromiseInv'
  BY PromiseStep
<1> QED BY <1>1, PromiseStarts, PTL DEF Spec

-----------------------------------------------------------------------------
(* The contract                                                              *)

LEMMA ContractStarts == Init => Contract!Init
BY DEF Init, Contract!Init

\* An event that comes out is a step of the contract.
LEMMA EmitImplements ==
  ASSUME NEW b \in 0..MaxTurns, PromiseAt(b), DoEmit
  PROVE  [Contract!Next]_(Contract!promised)
<1>1. PICK e : e = Head(chain)
  OBVIOUS
<1>2. log' = Heard(e) /\ told' = told
  BY <1>1 DEF DoEmit
<1>3. /\ log \in LogRecords /\ log.session \in {"open", "ended"} /\ b \in Nat /\ (\A u \in Turns : u \in Nat /\ u # 0)
      /\ log.turn \in [Turns -> {"unborn", "open", "ended", "broken"}] /\ log.tool \in BOOLEAN
  BY BoundsAssumption DEF PromiseAt, StateTypes, LogRecords, Turns
<1>4. CASE log.session = "ended"
  BY <1>2, <1>4 DEF Heard, Contract!promised
<1>5. CASE log.session = "open"
  <2>1. \A u \in Turns : log.turn[u] = TurnOut(u, b)
    BY <1>5 DEF PromiseAt, LogInv
  <2>2. Unsaid \/ EndIsOut(b) \/ b = 0 => Contract!Open = {}
    <3> SUFFICES ASSUME Unsaid \/ EndIsOut(b) \/ b = 0, NEW u \in Turns PROVE log.turn[u] # "open"
      BY DEF Contract!Open
    <3> QED BY <1>3, <2>1 DEF TurnOut
  <2>3. CASE EmitsTurnStarted(e, b)
    <3>1. b \in Turns /\ Contract!Open = {} /\ log.turn[b] = "unborn" /\ log' = [log EXCEPT !.turn[b] = "open"]
      BY <1>1, <1>5, <2>2, <2>3, SaidOf DEF EmitsTurnStarted
    <3>2. \A u \in Turns : u < b => log.turn[u] # "unborn"
      BY <2>1 DEF TurnOut
    <3>3. log'.turn = [log.turn EXCEPT ![b] = "open"] /\ log'.tool = log.tool /\ log'.session = log.session
      BY <1>3, <3>1, HeardOfTurn
    <3>4. Contract!OpenTurn(b)
      BY <1>2, <1>5, <3>1, <3>2, <3>3 DEF Contract!OpenTurn
    <3> QED BY <3>1, <3>4 DEF Contract!Next
  <2>4. CASE EmitsTurnEnded(e, b)
    <3>1. b \in Turns /\ log.turn[b] = "open" /\ log' = [log EXCEPT !.turn[b] = "ended"]
      BY <1>1, <1>5, <2>4, SaidOf DEF EmitsTurnEnded
    <3>2. log'.turn = [log.turn EXCEPT ![b] = "ended"] /\ log'.tool = log.tool /\ log'.session = log.session
      BY <1>3, <3>1, HeardOfTurn
    <3>3. Contract!EndTurn(b)
      BY <1>2, <3>1, <3>2 DEF Contract!EndTurn
    <3> QED BY <3>1, <3>3 DEF Contract!Next
  <2>5. CASE EmitsTool(e, b)
    <3>1. log' = [log EXCEPT !.tool = ToolOut'] /\ ToolOut' = ~log.tool
      BY <1>1, <1>5, <2>5, SaidOf
    <3>2. log'.turn = log.turn /\ log'.tool = ~log.tool /\ log'.session = log.session
      BY <1>3, <3>1 DEF LogRecords
    <3>3. Contract!Tool
      BY <1>2, <1>5, <3>2 DEF Contract!Tool
    <3> QED BY <3>3 DEF Contract!Next
  <2>6. CASE EmitsSessionEnded(e, b)
    <3>1. log' = [log EXCEPT !.session = "ended"] /\ Contract!Open = {} /\ ~log.tool
      BY <1>1, <1>5, <2>2, <2>6, SaidOf DEF EmitsSessionEnded
    <3>2. log'.turn = log.turn /\ log'.tool = log.tool /\ log'.session = "ended"
      BY <1>3, <3>1 DEF LogRecords
    <3>3. Contract!EndSession
      BY <1>2, <1>5, <3>1, <3>2 DEF Contract!EndSession
    <3> QED BY <3>3 DEF Contract!Next
  <2>7. CASE EmitsSummary(e, b)
    <3>1. log' = log
      BY <1>1, <1>5, <2>7, SaidOf
    <3> QED BY <1>2, <3>1 DEF Contract!promised
  <2> QED BY <1>1, <2>3, <2>4, <2>5, <2>6, <2>7, EmitsWhatIsDue
<1> QED BY <1>3, <1>4, <1>5

\* An inject that returns tells the turn that was begun for it, unless it was refused.
LEMMA AcknowledgedImplements ==
  ASSUME NEW b \in 0..MaxTurns, PromiseAt(b), NEW c \in Callers, Acknowledged(c)
  PROVE  [Contract!Next]_(Contract!promised)
<1>1. /\ log' = log /\ call[c].pc = "taken" /\ (call[c].turn # None \/ call[c].lost)
      /\ told' = IF call[c].lost THEN told ELSE told \cup {call[c].turn}
  BY DEF Acknowledged, out
<1>2. CASE call[c].lost
  BY <1>1, <1>2 DEF Contract!promised
<1>3. CASE ~call[c].lost
  <2>1. call[c].turn \in 1..b /\ call[c].turn \notin told /\ log.turn[call[c].turn] # "unborn"
    BY <1>1, <1>3 DEF PromiseAt, ToldInv
  <2>2. call[c].turn \in Turns
    BY <2>1, BoundsAssumption DEF Turns
  <2>3. Contract!Tell(call[c].turn)
    BY <1>1, <1>3, <2>1 DEF Contract!Tell
  <2> QED BY <2>2, <2>3 DEF Contract!Next
<1> QED BY <1>2, <1>3

\* The other steps say nothing.
LEMMA OthersAreSilent ==
  ASSUME [Next]_vars, ~DoEmit, ~\E c \in Callers : Acknowledged(c)
  PROVE  UNCHANGED <<log, told>>
<1> USE DEF out
<1>1. CASE UNCHANGED vars
  BY <1>1 DEF vars
<1>2. CASE Handler
  BY <1>2 DEF Handler, HandleStarted, HandleSettle, HandleSettled, HandleTool, HandleCompacted, HandleSaid,
     HandleCompleted,
     HandleEnded
<1>3. CASE Server
  BY <1>3 DEF Server, ServerStarts, ServerTool, ServerCompletes, ServerCompacts, ServerDies, ServerTakes, Says
<1>4. CASE Finalizer \/ Closer
  BY <1>4 DEF Finalizer, FinalizeTool, FinalizeTurn, FinalizeSession, Closer, CloseEnters, CloseWaits,
     CloseUnsubscribes
<1>5. ASSUME NEW c \in Callers, CallSteps(c) \/ AbortTurn(c) \/ Inject(c) PROVE UNCHANGED <<log, told>>
  BY <1>5 DEF CallSteps, Asked, Steered, InterruptWaits, InterruptEnds, Accepted, RequestFails, AbortTurn, Inject
<1>6. CASE CompactBegin \/ CompactFails \/ \E force \in BOOLEAN : Close(force)
  BY <1>6 DEF CompactBegin, CompactFails, Close
<1> QED BY <1>1, <1>2, <1>3, <1>4, <1>5, <1>6 DEF Next

LEMMA ContractStep == ASSUME PromiseInv, [Next]_vars PROVE [Contract!Next]_(Contract!promised)
<1>1. PICK b \in 0..MaxTurns : PromiseAt(b)
  BY DEF PromiseInv
<1>2. CASE DoEmit
  BY <1>1, <1>2, EmitImplements
<1>3. ASSUME NEW c \in Callers, Acknowledged(c) PROVE [Contract!Next]_(Contract!promised)
  BY <1>1, <1>3, AcknowledgedImplements
<1>4. CASE ~DoEmit /\ ~\E c \in Callers : Acknowledged(c)
  BY <1>4, OthersAreSilent DEF Contract!promised
<1> QED BY <1>2, <1>3, <1>4

\* Whatever the callers, the app-server and the sessions that share it do, short of the moment Behaved
\* names, the adapter keeps the contract of all providers (codex/session.ts; wrapper/types/runtime.ts).
THEOREM CodexImplementsContract == ASSUME Behaved PROVE Spec => ImplementsContract
BY ContractStarts, ContractStep, PromiseInvariant, PTL DEF Spec, ImplementsContract, Contract!Spec
====
