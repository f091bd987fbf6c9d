---- MODULE HostInstance ----
(***************************************************************************)
(* The processes of one task: at most one host, and the commands of the CLI *)
(* and the web server that look for it, start it, and delete the task.      *)
(*                                                                         *)
(* They share the task's directory.  The host's lock belongs to the file a  *)
(* process has opened, not to its name: a directory that is renamed away    *)
(* takes its locks along, and a later one has locks of its own.  Opening    *)
(* the lock file makes the directory when it is not there.                  *)
(***************************************************************************)
EXTENDS Naturals, FiniteSets

CONSTANTS Hosts,        \* host processes ever started
          Clients,      \* user processes; the web server serializes its writes and is one
          Commands,     \* what users do
          MaxCommands,  \* bound on the commands given
          MaxDirs,      \* bound on the directories made
          Faults        \* what may go wrong

ASSUME ProcessesAssumption ==
  /\ Hosts # {} /\ Hosts \cap Clients = {} /\ 0 \notin Hosts \cup Clients      \* 0 is nobody
  /\ MaxCommands \in Nat /\ MaxDirs \in Nat \ {0}
\* "crash": a process dies; "spawn": the spawn fails; "reuse": a pid is given away again.
ASSUME FaultsAssumption == Faults \subseteq {"crash", "spawn", "reuse"}

Dirs == 1..MaxDirs
None == 0                \* no directory, no process
Stages == {"clarifying", "running", "awaiting_user", "paused", "ended"}
InProgress == {"clarifying", "running", "awaiting_user"}

\* Commands that start a host when there is none: maybeEnsureHost.
Starters == {"submit", "answer", "feedback", "upload", "run", "resume"}

VARIABLES
  dir,       \* the directory at the task's path
  made,      \* directories ever made at it
  filled,    \* those with a manifest
  stage,     \* manifest.stage
  unread,    \* a message of a user waits in Meta's inbox
  lock,      \* for each directory: who holds its host.pid.lock
  pidfile,   \* for each directory: who its host.pid names
  host,      \* where each host is, and the directory whose lock file it has open
  client,    \* where each user process is, its command, its directory
  given,     \* commands given
  blame      \* history: how a command or a host may have been misled

task == <<stage, unread, filled>>
vars == <<dir, made, task, lock, pidfile, host, client, given, blame>>

\* Processes are interchangeable: which of those not started yet is started makes no difference.
Unborn  == {h \in Hosts : host[h].pc = "unborn"}
NewHost == CHOOSE h \in Unborn : TRUE

Running(h)  == host[h].pc \in {"up", "leave"}            \* works on the task
Ending(h)   == host[h].pc \in {"leave", "release"}       \* looks at nothing any more
Starting(h) == host[h].pc \in {"born", "try", "pid", "retry", "claim", "recover"}

GotoHost(h, pc)   == host' = [host EXCEPT ![h].pc = pc]
GotoClient(c, pc) == client' = [client EXCEPT ![c].pc = pc]

\* A command is over: it answers its user.
Return(c) == client' = [client EXCEPT ![c] = [pc |-> "idle", cmd |-> "none", dir |-> None]]

\* mkdir -p and open of the lock file: d is the directory that is then at the path.
Opened(d) ==
  IF dir # None THEN d = dir /\ UNCHANGED <<dir, made>>
  ELSE made < MaxDirs /\ d = made + 1 /\ dir' = d /\ made' = d

\* Whoever finds the lock taken concludes that a host runs, or that its own is superfluous.
\* These are the holders of whom that is wrong.
Misleading(p) ==
  IF p \in Hosts THEN Ending(p)
  ELSE p \in Clients /\ client[p].cmd \in {"look", "delete"}
Misled(d) == IF Misleading(lock[d]) THEN {IF lock[d] \in Hosts THEN "leaving" ELSE "probe"} ELSE {}

-----------------------------------------------------------------------------
(* acquireSingleInstanceLock and runDaemon                                   *)

HostOpen(h) ==
  /\ host[h].pc \in {"born", "retry"}
  /\ \E d \in Dirs :
       /\ Opened(d)
       /\ host' = [host EXCEPT ![h] = [pc |-> IF host[h].pc = "born" THEN "try" ELSE "try_again",
                                       dir |-> d]]
  /\ UNCHANGED <<task, lock, pidfile, client, given, blame>>

\* Mutant of HostTry: after the retry the host goes on whether it has the lock or not.
HostTryInsists(h) ==
  /\ host[h].pc \in {"try", "try_again"}
  /\ LET d == host[h].dir IN
     IF lock[d] = None \/ host[h].pc = "try_again"
     THEN lock' = [lock EXCEPT ![d] = h] /\ GotoHost(h, "claim") /\ UNCHANGED blame
     ELSE GotoHost(h, "pid") /\ blame' = blame \cup Misled(d) /\ UNCHANGED lock
  /\ UNCHANGED <<dir, made, task, pidfile, client, given>>

\* A held lock: look whose it is, or give up when that was done before.
HostTry(h) ==
  /\ host[h].pc \in {"try", "try_again"}
  /\ LET d == host[h].dir IN
     IF lock[d] = None
     THEN lock' = [lock EXCEPT ![d] = h] /\ GotoHost(h, "claim") /\ UNCHANGED blame
     ELSE /\ GotoHost(h, IF host[h].pc = "try" THEN "pid" ELSE "gone")
          /\ blame' = blame \cup Misled(d) /\ UNCHANGED lock
  /\ UNCHANGED <<dir, made, task, pidfile, client, given>>

PidAlive(p) == p \in Hosts /\ host[p].pc \notin {"unborn", "gone"}

\* The old host.pid decides whether to try once more.
HostReadPid(h) ==
  /\ host[h].pc = "pid"
  /\ LET p == IF dir = None THEN None ELSE pidfile[dir] IN
     \/ ~PidAlive(p) /\ GotoHost(h, "retry")
     \/ (PidAlive(p) \/ (p # None /\ "reuse" \in Faults)) /\ GotoHost(h, "gone")
  /\ UNCHANGED <<dir, made, task, lock, pidfile, client, given, blame>>

\* host.pid is written where the path leads; without a directory that throws: fatal.
HostClaim(h) ==
  /\ host[h].pc = "claim"
  /\ IF dir = None THEN GotoHost(h, "release") /\ UNCHANGED pidfile
     ELSE pidfile' = [pidfile EXCEPT ![dir] = h] /\ GotoHost(h, "recover")
  /\ UNCHANGED <<dir, made, task, lock, client, given, blame>>

\* Startup recovery begins with the manifest; without one the host ends at once.
HostRecover(h) ==
  /\ host[h].pc = "recover"
  /\ IF dir \in filled THEN GotoHost(h, "up") /\ blame' = {}
     ELSE GotoHost(h, "release") /\ UNCHANGED blame
  /\ UNCHANGED <<dir, made, task, lock, pidfile, client, given>>

\* Mutant of Over: a user who has answered is not waited for.
OverUnread == dir \notin filled \/ stage \in {"paused", "ended", "awaiting_user"}

\* What ends a host: no manifest, nobody to work for, a task in the user's hands.
Over == \/ dir \notin filled \/ stage \in {"paused", "ended"}
        \/ stage = "awaiting_user" /\ ~unread

\* A tick ends the host, or serves the inbox and lets Meta move the stage.
HostTick(h) ==
  /\ host[h].pc = "up"
  /\ \/ Over /\ GotoHost(h, "leave") /\ UNCHANGED task
     \/ /\ ~Over
        /\ unread' = FALSE
        /\ stage' \in InProgress \cup {"ended"}
        /\ UNCHANGED <<filled, host>>
  /\ UNCHANGED <<dir, made, lock, pidfile, client, given, blame>>

\* cleanupAndExit, to the removal of host.pid.
HostCleanup(h) ==
  /\ host[h].pc = "leave"
  /\ GotoHost(h, "release")
  /\ pidfile' = IF dir = None THEN pidfile ELSE [pidfile EXCEPT ![dir] = None]
  /\ UNCHANGED <<dir, made, task, lock, client, given, blame>>

Unlock(p) == lock' = [d \in Dirs |-> IF lock[d] = p THEN None ELSE lock[d]]

HostRelease(h) ==
  /\ host[h].pc = "release"
  /\ Unlock(h) /\ GotoHost(h, "gone")
  /\ UNCHANGED <<dir, made, task, pidfile, client, given, blame>>

HostDies(h) ==
  /\ "crash" \in Faults /\ host[h].pc \notin {"unborn", "gone"}
  /\ Unlock(h) /\ GotoHost(h, "gone")
  /\ blame' = blame \cup {"crash"}
  /\ UNCHANGED <<dir, made, task, pidfile, client, given>>

-----------------------------------------------------------------------------
(* Commands.  What a command writes comes first, then its search for a host. *)

\* A command reads the manifest, decides, and writes in a later step.
Begin(c, cmd, pc) ==
  /\ client[c].pc = "idle" /\ cmd \in Commands /\ given < MaxCommands
  /\ client' = [client EXCEPT ![c] = [pc |-> pc, cmd |-> cmd, dir |-> None]]
  /\ given' = given + 1
  /\ UNCHANGED <<dir, made, task, lock, pidfile, host, blame>>

Task == dir \in filled

\* Generated ids are new; only a user's own --task-id names a deleted task again.
FreshId     == made = 0 /\ \A c \in Clients : client[c].cmd # "submit"
Submit(c)   == dir = None /\ (FreshId \/ "same_id" \in Commands) /\ Begin(c, "submit", "create")
Answer(c)   == Task /\ stage = "clarifying" /\ Begin(c, "answer", "enqueue")
Feedback(c) == Task /\ stage \in InProgress /\ Begin(c, "feedback", "enqueue")
Upload(c)   == Task /\ stage \in InProgress /\ Begin(c, "upload", "enqueue")
Run(c)      == Task /\ stage \in InProgress /\ Begin(c, "run", "open")
Pause(c)    == Task /\ stage \in InProgress /\ Begin(c, "pause", "stage")
Resume(c)   == Task /\ stage = "paused" /\ Begin(c, "resume", "stage")
Done(c)     == Task /\ stage = "awaiting_user" /\ Begin(c, "done", "stage")
Cancel(c)   == Task /\ stage # "ended" /\ Begin(c, "cancel", "stage")
Delete(c)   == dir # None /\ Begin(c, "delete", "open")
\* The web server's probeHostOnline looks for the lock file before it opens it.
Look(c)     == dir # None /\ Begin(c, "look", "open")

\* createTaskCapsule: the directory first, whose existence is the conflict check.
Create(c) ==
  /\ client[c].pc = "create"
  /\ IF dir = None
     THEN /\ made < MaxDirs /\ made' = made + 1 /\ dir' = made + 1
          /\ GotoClient(c, "manifest")
     ELSE Return(c) /\ UNCHANGED <<dir, made>>
  /\ UNCHANGED <<task, lock, pidfile, host, given, blame>>

\* The web server uploads the attachments of a submit before it looks for a host.
AfterCreate == {"open", "enqueue"}

WriteManifest(c) ==
  /\ client[c].pc = "manifest"
  /\ IF dir # None
     THEN /\ filled' = filled \cup {dir} /\ stage' = "clarifying" /\ unread' = FALSE
          /\ \E pc \in AfterCreate : GotoClient(c, pc)
     ELSE Return(c) /\ UNCHANGED task
  /\ UNCHANGED <<dir, made, lock, pidfile, host, given, blame>>

\* The enqueue.  Its lock makes the directory of a task that is gone, for nobody.
Enqueue(c) ==
  /\ client[c].pc = "enqueue"
  /\ \E d \in Dirs : Opened(d)
  /\ unread' = Task
  /\ GotoClient(c, "open")
  /\ UNCHANGED <<stage, filled, lock, pidfile, host, given, blame>>

\* The compare-and-set of pause, resume, done and cancel.
WriteStage(c) ==
  /\ client[c].pc = "stage"
  /\ LET cmd == client[c].cmd IN
     \/ /\ Task /\ cmd = "pause" /\ stage \in InProgress
        /\ stage' = "paused" /\ Return(c)
     \/ /\ Task /\ <<cmd, stage>> \in {<<"done", "awaiting_user">>} \cup ({"cancel"} \X (Stages \ {"ended"}))
        /\ stage' = "ended" /\ Return(c)
     \/ /\ Task /\ cmd = "resume" /\ stage = "paused"
        /\ stage' \in InProgress /\ GotoClient(c, "open")
     \/ Return(c) /\ UNCHANGED stage         \* the stage has moved since it was read
  /\ \E d \in Dirs : Opened(d)
  /\ UNCHANGED <<unread, filled, lock, pidfile, host, given, blame>>

\* --foreground: the process itself becomes the host, without a probe.
Foreground(c) ==
  /\ client[c].pc = "open" /\ client[c].cmd \in {"submit", "run", "resume"}
  /\ Task /\ stage \in InProgress
  /\ Unborn # {} /\ GotoHost(NewHost, "born")
  /\ Return(c)
  /\ UNCHANGED <<dir, made, task, lock, pidfile, given, blame>>

\* tryAcquireNonblocking: the file is opened, then locked.
ProbeOpen(c) ==
  /\ client[c].pc \in {"open", "open_again"}
  /\ \E d \in Dirs :
       /\ Opened(d)
       /\ client' = [client EXCEPT ![c].dir = d,
                                   ![c].pc = IF @ = "open" THEN "try" ELSE "try_again"]
  /\ UNCHANGED <<task, lock, pidfile, host, given, blame>>

\* A lock that is held counts as a host that runs.
ProbeTry(c) ==
  /\ client[c].pc \in {"try", "try_again"}
  /\ LET d == client[c].dir IN
     IF lock[d] = None
     THEN /\ lock' = [lock EXCEPT ![d] = c] /\ UNCHANGED blame
          /\ GotoClient(c, IF client[c].pc = "try" THEN "held" ELSE "held_again")
     ELSE Return(c) /\ blame' = blame \cup Misled(d) /\ UNCHANGED lock
  /\ UNCHANGED <<dir, made, task, pidfile, host, given>>

\* The probe gives the lock back.  run probes for its own answer, then like the others.
ProbeRelease(c) ==
  /\ client[c].pc \in {"held", "held_again"}
  /\ Unlock(c)
  /\ IF client[c].cmd = "look" THEN Return(c)
     ELSE GotoClient(c, CASE client[c].cmd = "delete" -> "rename"
                          [] client[c].cmd = "run" /\ client[c].pc = "held" -> "open_again"
                          [] OTHER -> "spawn")
  /\ UNCHANGED <<dir, made, task, pidfile, host, given, blame>>

\* spawnDetachedHost makes the directory for its log; a failure is only noted.
Spawn(c) ==
  /\ client[c].pc = "spawn"
  /\ \/ /\ Unborn # {} /\ \E d \in Dirs : Opened(d)
        /\ GotoHost(NewHost, "born") /\ UNCHANGED blame
     \/ /\ "spawn" \in Faults
        /\ blame' = blame \cup {"note"} /\ UNCHANGED <<dir, made, host>>
  /\ Return(c) /\ Unlock(c)
  /\ UNCHANGED <<task, pidfile, given>>

\* The rename to the tombstone; what happens to that is of no concern to the path.
Remove(c) ==
  /\ client[c].pc = "rename"
  /\ dir' = None /\ unread' = FALSE
  /\ Return(c)
  /\ UNCHANGED <<made, filled, stage, lock, pidfile, host, given, blame>>

ClientDies(c) ==
  /\ "crash" \in Faults /\ client[c].pc # "idle"
  /\ Unlock(c) /\ Return(c)
  /\ blame' = blame \cup {"crash"}
  /\ UNCHANGED <<dir, made, task, pidfile, host, given>>

-----------------------------------------------------------------------------
\* No task yet; one whose host left when it was handed to the user; or one at work.
Init ==
  /\ dir \in {None, 1} /\ made = dir /\ filled = {dir} \ {None} /\ unread = FALSE
  /\ \E h \in IF dir = None THEN {None} ELSE {None, CHOOSE g \in Hosts : TRUE} :
       /\ stage \in IF h = None THEN {"awaiting_user"} ELSE InProgress
       /\ lock = [d \in Dirs |-> IF d = 1 THEN h ELSE None]
       /\ pidfile = lock
       /\ host = [g \in Hosts |-> IF g = h THEN [pc |-> "up", dir |-> 1]
                                  ELSE [pc |-> "unborn", dir |-> None]]
  /\ client = [c \in Clients |-> [pc |-> "idle", cmd |-> "none", dir |-> None]]
  /\ given = 0
  /\ blame = {}

HostNext(h) ==
  \/ HostOpen(h) \/ HostTry(h) \/ HostReadPid(h) \/ HostClaim(h) \/ HostRecover(h)
  \/ HostTick(h) \/ HostCleanup(h) \/ HostRelease(h) \/ HostDies(h)
ClientNext(c) ==
  \/ Submit(c) \/ Answer(c) \/ Feedback(c) \/ Upload(c) \/ Run(c) \/ Pause(c) \/ Resume(c)
  \/ Done(c) \/ Cancel(c) \/ Delete(c) \/ Look(c)
  \/ Create(c) \/ WriteManifest(c) \/ Enqueue(c) \/ WriteStage(c) \/ Foreground(c)
  \/ ProbeOpen(c) \/ ProbeTry(c) \/ ProbeRelease(c) \/ Spawn(c) \/ Remove(c) \/ ClientDies(c)

Next == (\E h \in Hosts : HostNext(h)) \/ (\E c \in Clients : ClientNext(c))

Spec == Init /\ [][Next]_vars

-----------------------------------------------------------------------------
(* Properties                                                                *)

\* Two hosts never work on the task at a time, whatever commands and starts meet at the lock
\* and even while the task is deleted under them (main_loop.ts:57-85).
OneHost == \A g, h \in Hosts : Running(g) /\ Running(h) => g = h

\* Work that no process has seen to its end: a task Meta should advance, or a message.
Due == Task /\ stage \in InProgress /\ (unread \/ stage # "awaiting_user")
Attended ==
  \/ \E h \in Hosts : Starting(h) \/ host[h].pc \in {"try_again", "up"}
  \/ \E c \in Clients : client[c].cmd \in Starters /\ client[c].pc # "idle"

\* A task with work due has a host, one on its way, or a command about to start one, unless a
\* process was misled by a host on its way out or by a mere probe, died, or told its user that
\* the start failed (cli/hostSpawn.ts:47-72: a lock that is held counts as a host).
OnlyRacesStrand == Due /\ ~Attended => blame # {}

\* Work that is due has a process that will see to it (exec.ts:611 tells the user of a resume
\* "Task resumed", exec.ts:433 of a feedback that the system will see it).
DueIsAttended == Due => Attended
====
