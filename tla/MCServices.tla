---- MODULE MCServices ----
(***************************************************************************)
(* Instances for TLC of the services around the task: the host process and  *)
(* its lock, the app-servers of Codex, the review, the watcher's windows,   *)
(* the page of a task on the server and in the browser, and the done         *)
(* criteria.  They share no state, so each behaviour is of one of them, which *)
(* the first state chooses; the others stay off.                            *)
(***************************************************************************)
EXTENDS HostInstance

CONSTANTS
  CodexSessions, MaxServers,
  Calls, ReviewerFaults,
  WatchedSessions, WatchedLines, MaxNow, WatcherFaults, Budget,
  MaxFiles, MaxLines, MaxRows, MaxPushes, ReadFaults,
  Tasks, Tabs, StreamTabs, Files, MaxEpoch, MaxRequests, NoTask,
  CheckKinds, MaxChecks, MaxRuns

ASSUME ServersAssumption == MaxServers \in Nat
\* No call is called like none of them.
ASSUME CallsAssumption == "none" \notin Calls
\* Nor is a task, or a connection of its page, like none of them.
ASSUME ViewAssumption ==
  /\ "conversation" \in Tabs
  /\ NoTask \notin Tasks /\ NoTask \notin [task : Tasks, agent : Tabs \cup {"meta"}, epoch : Nat]
ASSUME PageAssumption == MaxFiles \in Nat \ {0} /\ MaxLines \in Nat /\ MaxRows \in Nat

VARIABLE part
VARIABLES cx_capsule, cx_conn, cx_process, cx_threads, cx_session, cx_spawned
Capsule == INSTANCE CodexCapsule WITH
  Sessions <- CodexSessions, SlowExit <- FALSE,
  capsule <- cx_capsule, conn <- cx_conn, process <- cx_process, threads <- cx_threads,
  session <- cx_session, spawned <- cx_spawned
capsule_vars == <<cx_capsule, cx_conn, cx_process, cx_threads, cx_session, cx_spawned>>

VARIABLES rv_call, rv_trigger, rv_handle, rv_reviewer, rv_submitted, rv_buffer, rv_meta, rv_events,
          rv_shutdown, rv_faults
Reviewer == INSTANCE ReviewerTrigger WITH
  MaxFaults <- ReviewerFaults, Overlap <- FALSE, SlowStart <- FALSE,
  call <- rv_call, trigger <- rv_trigger, handle <- rv_handle, reviewer <- rv_reviewer,
  submitted <- rv_submitted, buffer <- rv_buffer, meta <- rv_meta, events <- rv_events,
  shutdown <- rv_shutdown, faults <- rv_faults
reviewer_vars == <<rv_call, rv_trigger, rv_handle, rv_reviewer, rv_submitted, rv_buffer, rv_meta, rv_events,
    rv_shutdown, rv_faults>>

VARIABLES wd_stream, wd_tail, wd_open, wd_tracker, wd_jobs, wd_window, wd_sent, wd_told, wd_now,
          wd_faults
Watcher == INSTANCE WindowDispatcher WITH
  Sessions <- WatchedSessions, MaxFaults <- WatcherFaults, MaxLines <- WatchedLines,
  stream <- wd_stream, tail <- wd_tail, open <- wd_open, tracker <- wd_tracker, jobs <- wd_jobs,
  window <- wd_window, sent <- wd_sent, told <- wd_told, now <- wd_now, faults <- wd_faults
watcher_vars == <<wd_stream, wd_tail, wd_open, wd_tracker, wd_jobs, wd_window, wd_sent, wd_told, wd_now,
    wd_faults>>

VARIABLES ds_size, ds_files, ds_rows, ds_pc, ds_path, ds_cursor, ds_known, ds_pushes, ds_sent,
          ds_shown, ds_watchers, ds_closed, ds_faults, ds_followed
Detail == INSTANCE DetailStream WITH
  MaxFaults <- ReadFaults, TornStart <- FALSE,
  size <- ds_size, files <- ds_files, rows <- ds_rows, pc <- ds_pc, path <- ds_path,
  cursor <- ds_cursor, known <- ds_known, pushes <- ds_pushes, sent <- ds_sent, shown <- ds_shown,
  watchers <- ds_watchers, closed <- ds_closed, faults <- ds_faults, followed <- ds_followed
detail_vars == <<ds_size, ds_files, ds_rows, ds_pc, ds_path, ds_cursor, ds_known, ds_pushes, ds_sent, ds_shown,
    ds_watchers, ds_closed, ds_faults, ds_followed>>

VARIABLES wv_visible, wv_task, wv_tab, wv_hydrated, wv_epoch, wv_deleting, wv_panel, wv_title,
          wv_edit, wv_opens, wv_loads, wv_body, wv_tail, wv_es, wv_conns, wv_requests
View == INSTANCE WebView WITH
  None <- NoTask,
  visible <- wv_visible, task <- wv_task, tab <- wv_tab, hydrated <- wv_hydrated,
  epoch <- wv_epoch, deleting <- wv_deleting, panel <- wv_panel, title <- wv_title,
  edit <- wv_edit, opens <- wv_opens, loads <- wv_loads, body <- wv_body, tail <- wv_tail,
  es <- wv_es, conns <- wv_conns, requests <- wv_requests
view_vars == <<wv_visible, wv_task, wv_tab, wv_hydrated, wv_epoch, wv_deleting, wv_panel, wv_title, wv_edit,
    wv_opens, wv_loads, wv_body, wv_tail, wv_es, wv_conns, wv_requests>>

VARIABLES dc_yaml, dc_stage, dc_tool, dc_pc, dc_run, dc_proc, dc_outcome, dc_runs
Criteria == INSTANCE DoneCriteria WITH
  Kinds <- CheckKinds,
  yaml <- dc_yaml, stage <- dc_stage, tool <- dc_tool, pc <- dc_pc, run <- dc_run, proc <- dc_proc,
  outcome <- dc_outcome, runs <- dc_runs
criteria_vars == <<dc_yaml, dc_stage, dc_tool, dc_pc, dc_run, dc_proc, dc_outcome, dc_runs>>

Off == "off"
CapsuleOff ==
  /\ cx_capsule = Off /\ cx_conn = Off /\ cx_process = Off /\ cx_threads = Off /\ cx_session = Off
  /\ cx_spawned = Off
ReviewerOff ==
  /\ rv_call = Off /\ rv_trigger = Off /\ rv_handle = Off /\ rv_reviewer = Off /\ rv_submitted = Off
  /\ rv_buffer = Off /\ rv_meta = Off /\ rv_events = Off /\ rv_shutdown = Off /\ rv_faults = Off
WatcherOff ==
  /\ wd_stream = Off /\ wd_tail = Off /\ wd_open = Off /\ wd_tracker = Off /\ wd_jobs = Off
  /\ wd_window = Off /\ wd_sent = Off /\ wd_told = Off /\ wd_now = Off /\ wd_faults = Off
DetailOff ==
  /\ ds_size = Off /\ ds_files = Off /\ ds_rows = Off /\ ds_pc = Off /\ ds_path = Off
  /\ ds_cursor = Off /\ ds_known = Off /\ ds_pushes = Off /\ ds_sent = Off /\ ds_shown = Off
  /\ ds_watchers = Off /\ ds_closed = Off /\ ds_faults = Off /\ ds_followed = Off
ViewOff ==
  /\ wv_visible = Off /\ wv_task = Off /\ wv_tab = Off /\ wv_hydrated = Off /\ wv_epoch = Off
  /\ wv_deleting = Off /\ wv_panel = Off /\ wv_title = Off /\ wv_edit = Off /\ wv_opens = Off
  /\ wv_loads = Off /\ wv_body = Off /\ wv_tail = Off /\ wv_es = Off /\ wv_conns = Off
  /\ wv_requests = Off
CriteriaOff ==
  /\ dc_yaml = Off /\ dc_stage = Off /\ dc_tool = Off /\ dc_pc = Off /\ dc_run = Off
  /\ dc_proc = Off /\ dc_outcome = Off /\ dc_runs = Off

\* The host part is at rest when it is another's turn: no task, no host.
ServicesInit ==
  /\ part \in {"host", "capsule", "reviewer", "watcher", "detail", "view", "criteria"}
  /\ Init /\ (part # "host" => dir = None)
  /\ \/ part = "capsule" /\ Capsule!Init
     \/ part # "capsule" /\ CapsuleOff
  /\ \/ part = "reviewer" /\ Reviewer!Init
     \/ part # "reviewer" /\ ReviewerOff
  /\ \/ part = "watcher" /\ Watcher!Init
     \/ part # "watcher" /\ WatcherOff
  /\ \/ part = "detail" /\ Detail!Init
     \/ part # "detail" /\ DetailOff
  /\ \/ part = "view" /\ View!Init
     \/ part # "view" /\ ViewOff
  /\ \/ part = "criteria" /\ Criteria!Init
     \/ part # "criteria" /\ CriteriaOff

AllVars == <<part, vars, capsule_vars, reviewer_vars, watcher_vars, detail_vars, view_vars, criteria_vars>>

HostPart ==
  /\ part = "host" /\ Next
  /\ UNCHANGED <<part, capsule_vars, reviewer_vars, watcher_vars, detail_vars, view_vars, criteria_vars>>
CapsulePart ==
  /\ part = "capsule" /\ Capsule!Next
  /\ UNCHANGED <<part, vars, reviewer_vars, watcher_vars, detail_vars, view_vars, criteria_vars>>
ReviewerPart ==
  /\ part = "reviewer" /\ Reviewer!Next
  /\ UNCHANGED <<part, vars, capsule_vars, watcher_vars, detail_vars, view_vars, criteria_vars>>
WatcherPart ==
  /\ part = "watcher" /\ Watcher!Next
  /\ UNCHANGED <<part, vars, capsule_vars, reviewer_vars, detail_vars, view_vars, criteria_vars>>
DetailPart ==
  /\ part = "detail" /\ Detail!Next
  /\ UNCHANGED <<part, vars, capsule_vars, reviewer_vars, watcher_vars, view_vars, criteria_vars>>
ViewPart ==
  /\ part = "view" /\ View!Next
  /\ UNCHANGED <<part, vars, capsule_vars, reviewer_vars, watcher_vars, detail_vars, criteria_vars>>
CriteriaPart ==
  /\ part = "criteria" /\ Criteria!Next
  /\ UNCHANGED <<part, vars, capsule_vars, reviewer_vars, watcher_vars, detail_vars, view_vars>>

ServicesNext == HostPart \/ CapsulePart \/ ReviewerPart \/ WatcherPart \/ DetailPart \/ ViewPart \/ CriteriaPart
ServicesSpec == ServicesInit /\ [][ServicesNext]_AllVars

-----------------------------------------------------------------------------
\* One Codex app-server for a CODEX_HOME, and none that nobody wants (codex/runtime.ts:98-132).
OneServer == part = "capsule" => Capsule!OneServer

\* A session is only live on an app-server that is (codex/runtime.ts:245-281).
LiveAreServed == part = "capsule" => Capsule!LiveAreServed

\* Two reviewers never run at once (host/tools/agent.ts:211).
OneReviewer == part = "reviewer" => Reviewer!OneReviewer

\* A reviewer's STARTED has one ENDED, and who still may run has an owner (agent_control.ts:270-293).
ReviewersAreSettled == part = "reviewer" => Reviewer!ReviewersAreSettled

\* Every line of a worker's stream is in one window, or Meta is told (watcher/dispatcher.ts:129-260).
LinesAreWatchedOnce == part = "watcher" => Watcher!LinesAreWatchedOnce

\* The server's cursors never pass what the browser was not sent (web/sse.ts:108-316).
NothingIsMissed == part = "detail" => Detail!NothingIsMissed

\* The page displays one task and one tab (web/static/app.js:16).
OneViewIsShown == part = "view" => View!OneViewIsShown

\* Meta can go by the verdict on the done criteria (host/done_criteria/evaluate.ts:4-9).
VerdictIsEarned == part = "criteria" => Criteria!VerdictIsEarned
====
