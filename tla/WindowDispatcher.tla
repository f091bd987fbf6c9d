---- MODULE WindowDispatcher ----
(***************************************************************************)
(* The watcher pipeline (host/watcher): the stream of a worker session is cut *)
(* into windows of time, each is read from the offset where the last one      *)
(* ended, condensed, and sent to the watcher.  The adapter goes on writing    *)
(* meanwhile; reads and enqueues may fail; the session may end at any time.   *)
(***************************************************************************)
EXTENDS Integers, Sequences, FiniteSets

CONSTANTS
  Sessions,   \* worker sessions
  MaxLines,   \* bound: lines of a stream
  MaxNow,     \* bound: the clock, in units of windowSeconds
  MaxFaults,  \* bound: reads and enqueues that fail
  Budget      \* lines that fit in the body of an envelope

VARIABLES
  stream,    \* each stream file: the kinds of its complete lines
  tail,      \* whether it ends with a line that is not complete yet
  open,      \* whether its session still writes: "no", "yes" or "over"
  tracker,   \* trackers: the OffsetTracker of a session, and whether it is still in the table
  jobs,      \* chains: what is queued for a session, each with the clock its caller read
  window,    \* the dispatchWindow that is under way for a session
  sent,      \* the windows of a session that were dispatched or skipped, in order
  told,      \* sessions of which Meta was to be told that the final window is lost
  now,
  faults

vars == <<stream, tail, open, tracker, jobs, window, sent, told, now, faults>>

\* What preprocessEvents makes of a line: most kinds are rendered, bookkeeping kinds are left out, and a
\* line that does not parse is passed over.
Kinds == {"rendered", "left_out", "unreadable"}
Unset == -1
Idle == [pc |-> "idle", final |-> FALSE, upto |-> 0]
NoTracker == [listed |-> FALSE, started |-> 0, due |-> 0, offset |-> 0, pending |-> Unset]

Tried(ok) == IF ok THEN faults' = faults ELSE faults < MaxFaults /\ faults' = faults + 1

-----------------------------------------------------------------------------
(* The worker session                                                        *)

\* onWorkerSessionStarted.
Start(s) ==
  /\ open[s] = "no"
  /\ open' = [open EXCEPT ![s] = "yes"]
  /\ tracker' = [tracker EXCEPT ![s] = [listed |-> TRUE, started |-> now, due |-> now + 1, offset |-> 0, pending |-> Unset]]
  /\ UNCHANGED <<stream, tail, jobs, window, sent, told, now, faults>>

\* The adapter appends a line, in two steps as a reader sees it.
BeginLine(s) ==
  /\ open[s] = "yes" /\ ~tail[s] /\ Len(stream[s]) < MaxLines
  /\ tail' = [tail EXCEPT ![s] = TRUE]
  /\ UNCHANGED <<stream, open, tracker, jobs, window, sent, told, now, faults>>

EndLine(s, k) ==
  /\ open[s] = "yes" /\ tail[s]
  /\ tail' = [tail EXCEPT ![s] = FALSE]
  /\ stream' = [stream EXCEPT ![s] = Append(@, k)]
  /\ UNCHANGED <<open, tracker, jobs, window, sent, told, now, faults>>

\* onWorkerSessionEnded, after the session was closed: off the table first, then in line behind the
\* dispatch that is under way.
End(s) ==
  /\ open[s] = "yes"
  /\ open' = [open EXCEPT ![s] = "over"]
  /\ tracker' = [tracker EXCEPT ![s].listed = FALSE]
  /\ jobs' = [jobs EXCEPT ![s] = Append(@, [kind |-> "end", mono |-> now])]
  /\ UNCHANGED <<stream, tail, window, sent, told, now, faults>>

-----------------------------------------------------------------------------
(* The tick and the chain of a session                                       *)

Advance ==
  /\ now < MaxNow /\ now' = now + 1
  /\ UNCHANGED <<stream, tail, open, tracker, jobs, window, sent, told, faults>>

\* tick reads the clock once and takes the sessions one after the other; the host starts the next tick
\* when it is done.
Tick(s) ==
  /\ tracker[s].listed
  /\ \A i \in DOMAIN jobs[s] : jobs[s][i].kind # "tick"
  /\ now >= tracker[s].due
  /\ jobs' = [jobs EXCEPT ![s] = Append(@, [kind |-> "tick", mono |-> now])]
  /\ UNCHANGED <<stream, tail, open, tracker, window, sent, told, now, faults>>

\* A tick looks the tracker up again before every window.
Looked(s) == tracker[s].listed

\* The loops of tick and onWorkerSessionEnded: all windows that were due when the clock was read, and
\* then, at the end of the session, the final one.
BeginWindow(s) ==
  LET job == Head(jobs[s])
      due == job.mono >= tracker[s].due IN
  /\ jobs[s] # <<>> /\ window[s].pc = "idle"
  /\ IF due /\ (job.kind = "tick" => Looked(s))
     THEN window' = [window EXCEPT ![s] = [pc |-> "read", final |-> FALSE, upto |-> 0]] /\ UNCHANGED jobs
     ELSE /\ window' = [window EXCEPT ![s] = IF job.kind = "end" THEN [pc |-> "read", final |-> TRUE, upto |-> 0] ELSE Idle]
          /\ jobs' = [jobs EXCEPT ![s] = Tail(@)]
  /\ UNCHANGED <<stream, tail, open, tracker, sent, told, now, faults>>

-----------------------------------------------------------------------------
(* dispatchWindow                                                            *)

Nominal(s) == tracker[s].due - 1

\* Mutant of ReadTo: the line that is being written is read, too.
ReadToTheEnd(s) == Len(stream[s]) + (IF tail[s] THEN 1 ELSE 0)
\* readStreamIncrement: up to the last line feed.
ReadTo(s) == Len(stream[s])

\* The earliest window that was not delivered, or this one.
WindowStart(s) == IF tracker[s].pending = Unset THEN Nominal(s) ELSE tracker[s].pending

\* Mutant of Pending: a window that failed is not remembered.
PendingForgotten(s) == Unset
Pending(s) == WindowStart(s)

\* Both failures: the next window is due, the offset stays, and what is lost for good is told to Meta.
Fails(s) ==
  /\ tracker' = [tracker EXCEPT ![s].due = @ + 1, ![s].pending = Pending(s)]
  /\ told' = IF window[s].final THEN told \cup {s} ELSE told
  /\ window' = [window EXCEPT ![s] = Idle]
  /\ UNCHANGED sent

Rendered(s, upto) == {i \in tracker[s].offset + 1 .. upto : i \in DOMAIN stream[s] /\ stream[s][i] = "rendered"}

\* renderWindowBody: what does not fit is left out, and the envelope says so.
Shown(lines) == IF Cardinality(lines) <= Budget THEN lines
                ELSE {i \in lines : Cardinality({j \in lines : j < i}) < Budget}

Succeeds(s, upto, shown, truncated) ==
  /\ sent' = [sent EXCEPT ![s] = Append(@, [start |-> WindowStart(s), end |-> tracker[s].due, final |-> window[s].final,
                                            from |-> tracker[s].offset + 1, to |-> upto,
                                            shown |-> shown, truncated |-> truncated])]
  /\ tracker' = [tracker EXCEPT ![s].offset = upto, ![s].due = @ + 1, ![s].pending = Unset]
  /\ window' = [window EXCEPT ![s] = Idle]
  /\ UNCHANGED told

\* The increment is read; a window with nothing to show is skipped.
Read(s, ok) ==
  /\ window[s].pc = "read" /\ Tried(ok)
  /\ IF ~ok THEN Fails(s)
     ELSE IF Rendered(s, ReadTo(s)) = {} THEN Succeeds(s, ReadTo(s), {}, FALSE)
     ELSE window' = [window EXCEPT ![s].pc = "enqueue", ![s].upto = ReadTo(s)] /\ UNCHANGED <<tracker, sent, told>>
  /\ UNCHANGED <<stream, tail, open, jobs, now>>

\* Mutant of Upto: the offset moves to the end of the stream as it is now.
UptoNow(s) == Len(stream[s])
Upto(s) == window[s].upto

\* bus.enqueue of the worker_stream_window.
Enqueue(s, ok) ==
  /\ window[s].pc = "enqueue" /\ Tried(ok)
  /\ LET lines == Rendered(s, window[s].upto) IN
     IF ok THEN Succeeds(s, Upto(s), Shown(lines), Shown(lines) # lines) ELSE Fails(s)
  /\ UNCHANGED <<stream, tail, open, jobs, now>>

-----------------------------------------------------------------------------

Init ==
  /\ stream = [s \in Sessions |-> <<>>] /\ tail = [s \in Sessions |-> FALSE]
  /\ open = [s \in Sessions |-> "no"] /\ tracker = [s \in Sessions |-> NoTracker]
  /\ jobs = [s \in Sessions |-> <<>>] /\ window = [s \in Sessions |-> Idle]
  /\ sent = [s \in Sessions |-> <<>>] /\ told = {} /\ now = 0 /\ faults = 0

Next ==
  \/ \E s \in Sessions :
       \/ Start(s) \/ BeginLine(s) \/ End(s) \/ Tick(s) \/ BeginWindow(s)
       \/ \E k \in Kinds : EndLine(s, k)
       \/ \E ok \in BOOLEAN : Read(s, ok) \/ Enqueue(s, ok)
  \/ Advance

Spec == Init /\ [][Next]_vars

-----------------------------------------------------------------------------

\* The windows of a session follow each other without a gap or an overlap, of lines and of time; each
\* shows, once, every line that is to be shown or says that it does not; and when the session is over
\* every line was in a window or Meta was to be told.  So lines may come late, never twice, and are not
\* lost in silence.
LinesAreWatchedOnce == \A s \in Sessions :
  LET w == sent[s] IN
  /\ \A i \in DOMAIN w :
       /\ w[i].from = (IF i = 1 THEN 1 ELSE w[i - 1].to + 1)
       /\ w[i].start = (IF i = 1 THEN tracker[s].started ELSE w[i - 1].end)
       /\ w[i].truncated \/ w[i].shown = {j \in DOMAIN stream[s] : stream[s][j] = "rendered" /\ j \in w[i].from .. w[i].to}
       /\ w[i].final => i = Len(w)
  /\ open[s] = "over" /\ jobs[s] = <<>> /\ window[s].pc = "idle" =>
       \/ s \in told
       \/ w # <<>> /\ w[Len(w)].final /\ w[Len(w)].to = Len(stream[s])

=============================================================================
