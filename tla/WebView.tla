---- MODULE WebView ----
(***************************************************************************)
(* The task page of the browser (web/static/app.js).  Every view change takes *)
(* effect in steps: the route, the header once the task is fetched, the body  *)
(* once its loader is answered, and from then on what the event stream        *)
(* appends.  Answers come in any order, and the user goes on meanwhile.       *)
(***************************************************************************)
EXTENDS Naturals, FiniteSets

CONSTANTS
  Tasks,
  Tabs,       \* tabs, "conversation" among them
  StreamTabs, \* those that show the stream files of an agent
  Files,      \* stream files of an agent
  MaxEpoch,   \* bound: view changes
  MaxRequests, \* bound: requests that change a task
  None        \* no task, no connection, nothing edited

VARIABLES
  visible,   \* the view: "empty", "new" or "task"
  task,      \* currentTaskId
  tab,       \* currentTab
  hydrated,  \* hydratedTaskId
  epoch,     \* viewEpoch
  deleting,
  panel,     \* the task of the header and of the buttons that are displayed
  title,     \* the task whose title is displayed, and titleTaskId
  edit,      \* the inline editor of the title
  opens,     \* openTask: fetches under way
  loads,     \* loaders under way
  body,      \* the tasks and tabs whose rows are displayed
  tail,      \* liveStreamTail
  es,        \* detailEs
  conns,     \* connections that may still deliver an event
  requests   \* changes under way, with the task the user saw when asking for it

data == <<opens, loads, body, tail, es, conns>>
head == <<panel, title, edit>>
vars == <<visible, task, tab, hydrated, epoch, deleting, head, data, requests>>

NoTitle == [text |-> None, owner |-> None]
Stale(e) == e # epoch
Live(c) == c = es /\ c.task = task

-----------------------------------------------------------------------------
(* Views                                                                     *)

\* A loader asks once, and a stream tab asks again for each file.
Load(t, tb, e) == [task |-> t, tab |-> tb, epoch |-> e, left |-> IF tb \in StreamTabs THEN 1 + Files ELSE 1]
Connection(t, tb, e) == [task |-> t, agent |-> IF tb \in StreamTabs THEN tb ELSE "meta", epoch |-> e]

\* selectTab, and startDetailStream in it.
SelectTab(t, tb) ==
  IF deleting THEN UNCHANGED <<tab, epoch, loads, body, tail, es, conns>>
  ELSE /\ epoch < MaxEpoch /\ epoch' = epoch + 1
       /\ tab' = tb /\ tail' = None /\ body' = {}
       /\ loads' = loads \cup {Load(t, tb, epoch + 1)}
       /\ es' = Connection(t, tb, epoch + 1) /\ conns' = conns \cup {es'}

\* openTask: the current task is another one at once, what is displayed is not.
OpenTask(t, tb) ==
  /\ epoch < MaxEpoch /\ epoch' = epoch + 1
  /\ task' = t /\ hydrated' = None /\ visible' = "task"
  /\ opens' = opens \cup {[task |-> t, tab |-> tb, epoch |-> epoch + 1]}
  /\ UNCHANGED <<tab, head, loads, body, tail, es, conns>>

\* showNewTaskView and showEmptyView.
ShowOther(view) ==
  /\ epoch < MaxEpoch /\ epoch' = epoch + 1
  /\ visible' = view /\ task' = None /\ hydrated' = None /\ es' = None
  /\ UNCHANGED <<tab, head, opens, loads, body, tail, conns>>

\* applyRoute, for the hash of a task.
ApplyRoute(t, tb) ==
  /\ IF t # task \/ hydrated # t THEN OpenTask(t, tb)
     ELSE /\ tb # tab /\ SelectTab(t, tb) /\ UNCHANGED <<visible, task, hydrated, head, opens>>
  /\ UNCHANGED <<deleting, requests>>

Leave(view) == visible # view /\ ShowOther(view) /\ UNCHANGED <<deleting, requests>>

\* onLangChange
ChangeLanguage ==
  /\ task # None /\ ~deleting /\ visible = "task"
  /\ OpenTask(task, tab)
  /\ UNCHANGED <<deleting, requests>>

\* setTitleDisplay: whatever is displayed is taken for the title of the current task.
SetTitle(text, t) == title' = [text |-> text, owner |-> t] /\ edit' = None

Superseded(o) ==
  /\ Stale(o.epoch) /\ opens' = opens \ {o}
  /\ UNCHANGED <<visible, task, tab, hydrated, epoch, deleting, head, loads, body, tail, es, conns, requests>>

\* The task is fetched: header and buttons, then the tab.
Hydrate(o) ==
  /\ ~Stale(o.epoch) /\ opens' = opens \ {o}
  /\ panel' = o.task /\ SetTitle(o.task, task)
  /\ hydrated' = o.task
  /\ SelectTab(task, o.tab)
  /\ UNCHANGED <<visible, task, deleting, requests>>

\* It is gone: the empty view.
Gone(o) ==
  /\ ~Stale(o.epoch) /\ epoch < MaxEpoch /\ epoch' = epoch + 1
  /\ opens' = opens \ {o}
  /\ visible' = "empty" /\ task' = None /\ hydrated' = None /\ es' = None
  /\ UNCHANGED <<tab, deleting, head, loads, body, tail, conns, requests>>

\* renderDetailError
DetailError(o) ==
  /\ ~Stale(o.epoch) /\ opens' = opens \ {o}
  /\ es' = None /\ SetTitle(None, task) /\ panel' = None /\ body' = {}
  /\ UNCHANGED <<visible, task, tab, hydrated, epoch, deleting, loads, tail, conns, requests>>

-----------------------------------------------------------------------------
(* Loaders and the event stream                                              *)

\* Mutant of Current: a loader compares the tab, not the epoch.
CurrentByTab(l) == l.tab = tab
Current(l) == ~Stale(l.epoch)

Source(l) == [task |-> l.task, tab |-> l.tab]

\* The first answer replaces the body; each stream file is added to it, and the last one is
\* where the event stream goes on.
LoadAnswered(l) ==
  /\ LET rest == [l EXCEPT !.left = @ - 1]
     IN IF ~Current(l) THEN loads' = loads \ {l} /\ UNCHANGED <<body, tail>>
        ELSE /\ loads' = IF l.left = 1 THEN loads \ {l} ELSE (loads \ {l}) \cup {rest}
             /\ body' = IF l.tab \notin StreamTabs THEN {Source(l)}
                        ELSE IF l.left = 1 + Files THEN {} ELSE body \cup {Source(l)}
             /\ tail' = IF l.tab \in StreamTabs /\ l.left = 1 THEN Source(l) ELSE tail
  /\ UNCHANGED <<visible, task, tab, hydrated, epoch, deleting, head, opens, es, conns, requests>>

LoadFailed(l) ==
  /\ loads' = loads \ {l}
  /\ body' = IF Current(l) THEN {} ELSE body
  /\ UNCHANGED <<visible, task, tab, hydrated, epoch, deleting, head, opens, tail, es, conns, requests>>

\* Events of a connection that was replaced, or is another task's, are ignored.
StageEvent(c) ==
  /\ Live(c)
  /\ panel' = c.task
  /\ UNCHANGED <<visible, task, tab, hydrated, epoch, deleting, title, edit, data, requests>>

\* conversation_append: the conversation is asked for again, under the same epoch.
RowsEvent(c) ==
  /\ Live(c) /\ tab \notin StreamTabs
  /\ loads' = loads \cup {Load(task, tab, epoch)}
  /\ UNCHANGED <<visible, task, tab, hydrated, epoch, deleting, head, opens, body, tail, es, conns, requests>>

\* Mutant of Appends: whichever connection delivers, the lines are for the tab that is open.
AppendsAnyway(c) == tail # None
Appends(c) == Live(c) /\ c.agent = tab /\ tail # None

StreamEvent(c) ==
  /\ Appends(c)
  /\ body' = body \cup {[task |-> c.task, tab |-> c.agent]}
  /\ UNCHANGED <<visible, task, tab, hydrated, epoch, deleting, head, opens, loads, tail, es, conns, requests>>

\* "lag", and "new_stream_file" on a stream tab.
LagEvent(c) ==
  /\ Live(c) /\ SelectTab(task, tab)
  /\ UNCHANGED <<visible, task, hydrated, deleting, head, opens, requests>>

-----------------------------------------------------------------------------
(* What the user changes                                                     *)

Request(kind, t, seen) ==
  /\ Cardinality(requests) < MaxRequests
  /\ requests' = requests \cup {[kind |-> kind, task |-> t, seen |-> seen]}

\* doWrite and doUpload, from the buttons that are displayed.
Write ==
  /\ visible = "task" /\ panel # None
  /\ Request("write", task, panel)
  /\ UNCHANGED <<visible, task, tab, hydrated, epoch, deleting, head, data>>

WriteAnswered(r) ==
  /\ r.kind = "write" /\ requests' = requests \ {r}
  /\ IF r.task = task THEN OpenTask(task, tab)
     ELSE UNCHANGED <<visible, task, tab, hydrated, epoch, head, data>>
  /\ UNCHANGED deleting

RequestFailed(r) ==
  /\ r.kind = "write" /\ requests' = requests \ {r}
  /\ UNCHANGED <<visible, task, tab, hydrated, epoch, deleting, head, data>>

\* doDelete, after a dialog that names the title that is displayed.
Delete ==
  /\ visible = "task" /\ ~deleting /\ epoch < MaxEpoch
  /\ deleting' = TRUE /\ es' = None /\ epoch' = epoch + 1
  /\ Request("delete", task, title.text)
  /\ UNCHANGED <<visible, task, tab, hydrated, head, opens, loads, body, tail, conns>>

Deleted(r) ==
  /\ r.kind = "delete" /\ requests' = requests \ {r} /\ deleting' = FALSE
  /\ IF r.task = task THEN ShowOther("empty")
     ELSE UNCHANGED <<visible, task, tab, hydrated, epoch, head, data>>

NotDeleted(r) ==
  /\ r.kind = "delete" /\ requests' = requests \ {r} /\ deleting' = FALSE
  /\ IF r.task = task THEN OpenTask(task, tab)
     ELSE UNCHANGED <<visible, task, tab, hydrated, epoch, head, data>>

\* startEditTitle: not while the title is another task's.
EditTitle ==
  /\ visible = "task" /\ edit = None /\ title.text # None /\ title.owner = task
  /\ edit' = task
  /\ UNCHANGED <<visible, task, tab, hydrated, epoch, deleting, panel, title, data, requests>>

\* Escape, or the input loses the focus.
CancelEdit ==
  /\ edit \in Tasks /\ SetTitle(title.text, task)
  /\ UNCHANGED <<visible, task, tab, hydrated, epoch, deleting, panel, data, requests>>

\* saveTitle: the input is disabled until the title is displayed again.
SaveTitle ==
  /\ edit \in Tasks /\ edit' = "saving"
  /\ Request("rename", edit, title.text)
  /\ UNCHANGED <<visible, task, tab, hydrated, epoch, deleting, panel, title, data>>

Renamed(r) ==
  /\ r.kind = "rename" /\ requests' = requests \ {r}
  /\ IF r.task = task THEN \E text \in {r.task, title.text} : SetTitle(text, task) ELSE UNCHANGED <<title, edit>>
  /\ UNCHANGED <<visible, task, tab, hydrated, epoch, deleting, panel, data>>

Init ==
  /\ visible = "empty" /\ task = None /\ tab = "conversation" /\ hydrated = None /\ epoch = 0
  /\ deleting = FALSE /\ panel = None /\ title = NoTitle /\ edit = None
  /\ opens = {} /\ loads = {} /\ body = {} /\ tail = None /\ es = None /\ conns = {} /\ requests = {}

Next ==
  \/ \E t \in Tasks, tb \in Tabs : ApplyRoute(t, tb)
  \/ \E view \in {"new", "empty"} : Leave(view)
  \/ ChangeLanguage
  \/ \E o \in opens : Superseded(o) \/ Hydrate(o) \/ Gone(o) \/ DetailError(o)
  \/ \E l \in loads : LoadAnswered(l) \/ LoadFailed(l)
  \/ \E c \in conns : StageEvent(c) \/ RowsEvent(c) \/ StreamEvent(c) \/ LagEvent(c)
  \/ Write \/ Delete \/ EditTitle \/ CancelEdit \/ SaveTitle
  \/ \E r \in requests : WriteAnswered(r) \/ RequestFailed(r) \/ Deleted(r) \/ NotDeleted(r) \/ Renamed(r)

Spec == Init /\ [][Next]_vars

-----------------------------------------------------------------------------
\* Rows of two views are never displayed together, and on a page that is open and followed the
\* buttons are the task's and the rows are those of its tab, however answers and events are
\* delayed (app.js:16, 313, 564).
OneViewIsShown ==
  /\ Cardinality(body) <= 1 /\ (tail # None => body \subseteq {tail})
  /\ (es # None /\ task # None /\ hydrated = task) =>
       panel = task /\ body \subseteq {[task |-> task, tab |-> tab]}

\* A change is asked for of the task the user sees: no "cancel the wrong task" (app.js:149).
ChangesHitTheTaskSeen == \A r \in requests : r.seen \in {r.task, None}
====
