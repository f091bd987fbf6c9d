---- MODULE DetailStream ----
(***************************************************************************)
(* The server side of a task page (web/sse.ts, web/streamReader.ts): one SSE  *)
(* connection follows files that other processes append to.  It shows nothing *)
(* of what was there before, which the page asks for by itself, and pushes    *)
(* what comes after.  A push is started by a watcher's debounce or by the     *)
(* reconcile timer, and pushes are not serialized: several read one file at   *)
(* once, each from the cursor it found, and end in any order.                 *)
(***************************************************************************)
EXTENDS Naturals, FiniteSets

CONSTANTS
  MaxFiles,   \* bound: stream files of the agent
  MaxLines,   \* bound: lines of a stream file
  MaxRows,    \* bound: rows of conversation.jsonl, and of events.jsonl
  MaxPushes,  \* bound: pushes that are under way at once
  MaxFaults,  \* bound: reads that fail
  TornStart   \* whether the stream file may hold half a line, and no more, when the page is opened

VARIABLES
  size,     \* stream files: their size in halves of a line, as a reader finds a line half-written
  files,    \* how many stream files there are, the newest last
  rows,     \* the rows of each log
  pc,       \* where the hydration is
  path,     \* streamPath: the file followed
  cursor,   \* streamOffset of the stream, convLen of the conversation, the last ts of the events
  known,    \* knownStreamFiles, once streamFilesInit is set
  pushes,   \* pushes and hydration steps under way: the cursor each found, and what it read
  sent,     \* what the browser was sent: lines, rows, and names of new files
  shown,    \* history: what the page's own requests show, as the hydration fixed it
  watchers, \* handles open
  closed, faults,
  followed  \* what changes and is pushed: the logs and the streams have nothing in common

vars == <<size, files, rows, pc, path, cursor, known, pushes, sent, shown, watchers, closed, faults, followed>>

Logs  == {"conversation", "events"}
Kinds == Logs \cup {"stream", "files"}
None  == 0
Unread == 99
Complete(halves) == 2 * (halves \div 2)
Tried(ok) == IF ok THEN faults' = faults ELSE faults < MaxFaults /\ faults' = faults + 1

-----------------------------------------------------------------------------
(* The processes of the task                                                 *)

\* A line is written in two halves, as a reader may find it; a file that is not followed is not read.
WriteHalf(f) ==
  /\ "stream" \in followed /\ path \in {None, f}
  /\ f <= files /\ size[f] < 2 * MaxLines
  /\ size' = [size EXCEPT ![f] = @ + 1]
  /\ UNCHANGED <<files, rows, pc, path, cursor, known, pushes, sent, shown, watchers, closed, faults, followed>>

AppendRow(l) ==
  /\ l \in followed /\ rows[l] < MaxRows
  /\ rows' = [rows EXCEPT ![l] = @ + 1]
  /\ UNCHANGED <<size, files, pc, path, cursor, known, pushes, sent, shown, watchers, closed, faults, followed>>

NewFile ==
  /\ "files" \in followed /\ files < MaxFiles /\ files' = files + 1
  /\ UNCHANGED <<size, rows, pc, path, cursor, known, pushes, sent, shown, watchers, closed, faults, followed>>

-----------------------------------------------------------------------------
(* Pushes                                                                    *)

\* What a kind has been pushed up to; a list of files has no cursor.
Cursor(k) == IF k = "files" THEN 0 ELSE cursor[k]

\* A push begins: the cursor it reads from is the one of now, what it reads is decided later.
Begun(k, initial) == [kind |-> k, from |-> Cursor(k), got |-> Unread, initial |-> initial]

Push(k) ==
  /\ ~closed /\ k \in followed
  /\ k = "stream" => path # None
  /\ Cardinality(pushes) < MaxPushes
  /\ pushes' = pushes \cup {Begun(k, FALSE)}
  /\ UNCHANGED <<size, files, rows, pc, path, cursor, known, sent, shown, watchers, closed, faults, followed>>

Found(k) == CASE k = "stream" -> size[path] [] k = "files" -> files [] OTHER -> rows[k]

\* The file is looked at; the result is used later.
Read(p) ==
  /\ p.got = Unread
  /\ p.initial /\ p.kind = "stream" => TornStart \/ size[path] # 1
  /\ pushes' = (pushes \ {p}) \cup {[p EXCEPT !.got = Found(p.kind)]}
  /\ UNCHANGED <<size, files, rows, pc, path, cursor, known, sent, shown, watchers, closed, faults, followed>>

\* A stream is pushed up to its last complete line.  A read that begins inside a line does not
\* parse the rest of that line, and passes over it.
\* Mutant of ReadStreamFrom: the half-written line is counted into the offset.
ReadStreamFromAll(p) == [upto |-> p.got, lines |-> {n \in 1..MaxLines : p.from <= 2 * n - 2 /\ 2 * n <= p.got}]
ReadStreamFrom(p) ==
  [upto |-> Complete(p.got), lines |-> {n \in 1..MaxLines : p.from <= 2 * n - 2 /\ 2 * n <= p.got}]

Send(k, new) == sent' = IF closed THEN sent ELSE [sent EXCEPT ![k] = @ \cup new]

PushStream(p) ==
  LET res == ReadStreamFrom(p)
  IN /\ cursor' = IF res.lines = {} THEN cursor ELSE [cursor EXCEPT !.stream = res.upto]
     /\ Send("stream", res.lines)

\* The whole conversation was read: what is new is decided by the cursor of now.
PushConversation(p) ==
  /\ cursor' = IF p.got > cursor.conversation THEN [cursor EXCEPT !.conversation = p.got] ELSE cursor
  /\ Send("conversation", (cursor.conversation + 1)..p.got)

\* Events were filtered while they were read, by the timestamp the push began with.
PushEvents(p) ==
  /\ cursor' = IF p.got > p.from THEN [cursor EXCEPT !.events = p.got] ELSE cursor
  /\ Send("events", (p.from + 1)..p.got)

\* checkNewStreamFiles: the first list is what was there before.
Listed(p) ==
  /\ known' = [init |-> TRUE, names |-> known.names \cup 1..p.got]
  /\ Send("files", IF known.init THEN (1..p.got) \ known.names ELSE {})
  /\ UNCHANGED cursor

Ended(p) == pushes' = pushes \ {p}

\* A push that ends; one that fails sends "lag", upon which the page asks for everything again.
EndPush(p) ==
  /\ p.got # Unread /\ ~p.initial
  /\ Ended(p)
  /\ \/ /\ Tried(TRUE)
        /\ \/ p.kind = "stream" /\ PushStream(p) /\ UNCHANGED known
           \/ p.kind = "conversation" /\ PushConversation(p) /\ UNCHANGED known
           \/ p.kind = "events" /\ PushEvents(p) /\ UNCHANGED known
           \/ p.kind = "files" /\ Listed(p)
     \/ p.kind \notin {"events", "files"} /\ Tried(FALSE) /\ UNCHANGED <<cursor, known, sent>>
  /\ UNCHANGED <<size, files, rows, pc, path, shown, watchers, closed, followed>>

-----------------------------------------------------------------------------
(* The hydration                                                             *)

Steps == [conversation |-> "events", events |-> "files", files |-> "resolve", stream |-> "watch"]

\* The hydration awaits one initial push after the other; "stream" is initStreamOffset.
Hydrate ==
  /\ pc \in DOMAIN Steps
  /\ \A p \in pushes : ~p.initial
  /\ pushes' = pushes \cup {Begun(pc, TRUE)}
  /\ UNCHANGED <<size, files, rows, pc, path, cursor, known, sent, shown, watchers, closed, faults, followed>>

\* tailStreamLines: the offset after the last complete line, or after half a line if there is no other.
TailOffset(halves) == IF halves = 1 THEN 1 ELSE Complete(halves)

\* Where an initial push sets its cursor.
Baseline(p) == IF p.kind = "stream" THEN TailOffset(p.got) ELSE p.got

EndHydrate(p) ==
  /\ p.got # Unread /\ p.initial
  /\ Ended(p)
  /\ \/ /\ Tried(TRUE) /\ pc' = Steps[pc]
        /\ IF p.kind = "files" THEN Listed(p) /\ UNCHANGED shown
           ELSE /\ cursor' = [cursor EXCEPT ![p.kind] = Baseline(p)]
                /\ shown' = [shown EXCEPT ![p.kind] = p.got]
                /\ UNCHANGED <<known, sent>>
     \/ /\ p.kind = "conversation" /\ Tried(FALSE) /\ pc' = Steps[pc]
        /\ UNCHANGED <<cursor, known, shown, sent>>
     \/ /\ p.kind = "stream" /\ Tried(FALSE) /\ pc' = "failed"
        /\ UNCHANGED <<cursor, known, shown, sent>>
  /\ UNCHANGED <<size, files, rows, path, watchers, closed, followed>>

\* The newest file is followed, if there is any.
Resolve ==
  /\ pc = "resolve"
  /\ path' = files
  /\ pc' = IF files = 0 THEN "watch" ELSE "stream"
  /\ UNCHANGED <<size, files, rows, cursor, known, pushes, sent, shown, watchers, closed, faults, followed>>

\* Mutant of MayWatch: the watcher is registered though the connection is over.
MayWatchAnyway == path # None
MayWatch == ~closed /\ path # None

Watch ==
  /\ pc = "watch" /\ pc' = "done"
  /\ watchers' = IF MayWatch THEN watchers \cup {"stream"} ELSE watchers
  /\ UNCHANGED <<size, files, rows, path, cursor, known, pushes, sent, shown, closed, faults, followed>>

\* onClose, whenever the browser goes.
CloseConnection ==
  /\ ~closed /\ closed' = TRUE /\ watchers' = {}
  /\ UNCHANGED <<size, files, rows, pc, path, cursor, known, pushes, sent, shown, faults, followed>>

Init ==
  /\ files \in 0..1 /\ size = [f \in 1..MaxFiles |-> 0] /\ rows = [l \in Logs |-> 0]
  /\ pc = "conversation" /\ path = None /\ cursor = [k \in Logs \cup {"stream"} |-> 0]
  /\ known = [init |-> FALSE, names |-> {}]
  /\ pushes = {} /\ sent = [k \in Kinds |-> {}] /\ shown = [k \in Logs \cup {"stream"} |-> 0]
  /\ watchers = Logs \cup {"manifest", "status", "files"} /\ closed = FALSE /\ faults = 0
  /\ followed \in {{"conversation"}, {"events"}, {"stream", "files"}}

Next ==
  \/ \E f \in 1..MaxFiles : WriteHalf(f)
  \/ \E l \in Logs : AppendRow(l)
  \/ NewFile
  \/ \E k \in Kinds : Push(k)
  \/ \E p \in pushes : Read(p) \/ EndPush(p) \/ EndHydrate(p)
  \/ Hydrate \/ Resolve \/ Watch \/ CloseConnection

Spec == Init /\ [][Next]_vars

-----------------------------------------------------------------------------
NoLineIsMissed ==
  \A n \in 1..MaxLines :
    (2 * n > shown.stream /\ 2 * n - 2 < cursor.stream /\ pc \in {"watch", "done"}) => n \in sent.stream

NoRowIsMissed ==
  \A l \in Logs : \A n \in 1..MaxRows :
    (n > shown[l] /\ n <= cursor[l]) => n \in sent[l]

NoFileIsMissed ==
  (pc = "done" /\ known.names = 1..files) => (path = files \/ files \in sent.files)

\* However pushes overlap, a cursor never passes a line, a row or a file that the browser was
\* neither sent nor finds with its own requests (streamReader.ts:5, sse.ts:158-216).
NothingIsMissed == ~closed => NoLineIsMissed /\ NoRowIsMissed /\ NoFileIsMissed

\* A connection that is over holds no file open, wherever its hydration was (sse.ts:128).
ClosedHoldsNothing == closed => watchers = {}
====
