---- MODULE Services_proofs ----
(***************************************************************************)
(* What the runs check of the services on their instances, for every value   *)
(* of the constants.  The parts share no state, so that each is argued of     *)
(* by itself, with the variables it has here, and holds as long as the part  *)
(* is the one the first state chose.                                         *)
(***************************************************************************)
EXTENDS MCServices, Sequences, FiniteSetTheorems, TLAPS

-----------------------------------------------------------------------------
(* The host and its lock.  A directory's lock has one holder, two hosts never  *)
(* work on the task at a time as long as a deleted task's id is not used again, *)
(* and work that is due has a process on its way to it unless a command or a   *)
(* host was misled, for any number of processes, commands and directories.    *)

HostPcs == {"unborn", "born", "try", "try_again", "pid", "retry", "claim", "recover", "up",
            "leave", "release", "gone"}
ClientPcs == {"idle", "create", "manifest", "enqueue", "stage", "open", "open_again", "try",
              "try_again", "held", "held_again", "spawn", "rename"}
Cmds == Starters \cup {"pause", "done", "cancel", "delete", "look", "none"}
Holding == {"claim", "recover", "up", "leave", "release"}
Probing == {"open", "open_again", "try", "try_again", "held", "held_again", "spawn"}

\* The directory at the path is the one made last.
DirsType ==
  /\ made \in 0..MaxDirs /\ dir \in {None, made}
  /\ filled \subseteq 1..made
ProcessesType ==
  /\ host \in [Hosts -> [pc : HostPcs, dir : Dirs \cup {None}]]
  /\ client \in [Clients -> [pc : ClientPcs, cmd : Cmds, dir : Dirs \cup {None}]]
  /\ lock \in [Dirs -> Hosts \cup Clients \cup {None}]

\* Where a process is says that it has opened a directory.
HasOpened ==
  /\ \A h \in Hosts : host[h].pc \notin {"unborn", "born", "gone"} => host[h].dir # None
  /\ \A c \in Clients : client[c].pc \in {"try", "try_again"} => client[c].dir # None

\* A host past the lock holds the lock of the directory it opened.
PastLockHolds == \A h \in Hosts : host[h].pc \in Holding => lock[host[h].dir] = h

\* A lock is held by a host past it, or by a client between its probe and the release.
HeldByHolder == \A d \in Dirs :
  /\ lock[d] \in Hosts => host[lock[d]].pc \in Holding
  /\ lock[d] \in Clients => client[lock[d]].pc \in {"held", "held_again"}

\* Only commands that start a host, look for one or delete the task come to the lock.
WhoProbes == \A c \in Clients :
  /\ client[c].pc \in Probing => client[c].cmd \in Starters \cup {"look", "delete"}
  /\ client[c].pc = "spawn" => client[c].cmd \in Starters
  /\ client[c].pc = "enqueue" => client[c].cmd \in Starters
  /\ client[c].pc \in {"create", "manifest"} => client[c].cmd = "submit"

LockInv == DirsType /\ ProcessesType /\ HasOpened /\ PastLockHolds /\ HeldByHolder /\ WhoProbes

-----------------------------------------------------------------------------
\* One directory is ever filled: the only submit is of a task that never was.
OneSubmit ==
  /\ \A b, c \in Clients : client[b].cmd = "submit" /\ client[c].cmd = "submit" => b = c
  /\ \A c \in Clients : client[c].pc \in {"create", "manifest"} => filled = {}
  /\ \A d, e \in filled : d = e

\* Before that there is no command but the submit, a look or a delete, and no host.
NothingBeforeFill ==
  /\ filled = {} =>
       /\ \A h \in Hosts : host[h].pc = "unborn"
       /\ \A c \in Clients : client[c].pc \notin {"idle", "create", "manifest"} =>
                                client[c].cmd \in {"look", "delete"}
  /\ made = 0 => \A c \in Clients : client[c].pc \in {"idle", "create"}

\* Afterwards hosts open the filled directory or a later one, and work in the filled one only.
WorksInFilled ==
  /\ \A h \in Hosts : host[h].pc \notin {"unborn", "born", "gone"} =>
                         host[h].dir <= made /\ \A d \in filled : host[h].dir >= d
  /\ \A h \in Hosts : Running(h) => host[h].dir \in filled

FillInv == OneSubmit /\ NothingBeforeFill /\ WorksInFilled

-----------------------------------------------------------------------------
\* Who will see to it that work is done: not a host that has found the lock taken, nor a command
\* that may yet find that the task has moved.
SeesToIt ==
  \/ \E h \in Hosts : host[h].pc \in {"born", "try", "claim", "recover", "up"}
  \/ \E c \in Clients : client[c].cmd \in Starters /\ client[c].pc \in Probing \cup {"enqueue"}

StrandInv == Due => SeesToIt \/ blame # {}

-----------------------------------------------------------------------------
LEMMA Nobody == None \notin Hosts \cup Clients \cup Dirs /\ \A h \in Hosts : h \notin Clients
BY ProcessesAssumption DEF None, Dirs

LEMMA NewHostIsUnborn == Unborn # {} => NewHost \in Unborn
BY DEF NewHost

LEMMA LockStarts == Init => LockInv
<1> SUFFICES ASSUME Init PROVE LockInv
  OBVIOUS
<1>1. QED
  BY ProcessesAssumption DEF Init, LockInv, DirsType, ProcessesType, HasOpened, PastLockHolds,
    HeldByHolder, WhoProbes, Dirs, None, HostPcs, ClientPcs, Cmds, Holding, Probing, Starters

LEMMA HostGoesTo ==
  ASSUME NEW f \in [Hosts -> [pc : HostPcs, dir : Dirs \cup {None}]], NEW h \in Hosts, NEW pc \in HostPcs,
         NEW g, g = [f EXCEPT ![h].pc = pc]
  PROVE  /\ g \in [Hosts -> [pc : HostPcs, dir : Dirs \cup {None}]]
         /\ g[h].pc = pc /\ g[h].dir = f[h].dir
         /\ \A k \in Hosts : k # h => g[k] = f[k]
OBVIOUS

LEMMA ClientGoesTo ==
  ASSUME NEW f \in [Clients -> [pc : ClientPcs, cmd : Cmds, dir : Dirs \cup {None}]], NEW c \in Clients,
         NEW pc \in ClientPcs, NEW g, g = [f EXCEPT ![c].pc = pc]
  PROVE  /\ g \in [Clients -> [pc : ClientPcs, cmd : Cmds, dir : Dirs \cup {None}]]
         /\ g[c].pc = pc /\ g[c].cmd = f[c].cmd /\ g[c].dir = f[c].dir
         /\ \A b \in Clients : b # c => g[b] = f[b]
OBVIOUS

\* A command moves to pc with cmd as its command, and nobody else moves.
ClientTo(c, pc, cmd) ==
  /\ client' \in [Clients -> [pc : ClientPcs, cmd : Cmds, dir : Dirs \cup {None}]]
  /\ client'[c].pc = pc /\ client'[c].cmd = cmd
  /\ \A b \in Clients : b # c => client'[b] = client[b]

LEMMA ClientGoes ==
  ASSUME ProcessesType, NEW c \in Clients, NEW pc \in ClientPcs, GotoClient(c, pc)
  PROVE  ClientTo(c, pc, client[c].cmd)
BY ClientGoesTo DEF ProcessesType, GotoClient, ClientTo

LEMMA ClientComesBack ==
  ASSUME ProcessesType, NEW c \in Clients, Return(c)
  PROVE  ClientTo(c, "idle", "none")
BY DEF ProcessesType, Return, ClientTo, ClientPcs, Cmds

LEMMA HostKeepsLock == ASSUME LockInv, NEW h \in Hosts, HostNext(h) PROVE LockInv'
<1> USE Nobody DEF LockInv, ProcessesType, task
<1>1. CASE HostOpen(h)
  <2> USE <1>1, ProcessesAssumption DEF HostOpen, Opened
  <2>1. DirsType'
    BY DEF DirsType, Dirs, None
  <2>2. ProcessesType'
    BY DEF HostPcs
  <2>3. HasOpened'
    BY DEF HasOpened
  <2>4. PastLockHolds'
    BY DEF PastLockHolds, HeldByHolder, HasOpened, Holding
  <2>5. HeldByHolder'
    BY DEF PastLockHolds, HeldByHolder, HasOpened, Holding
  <2>6. WhoProbes'
    BY DEF WhoProbes
  <2>7. QED
    BY <2>1, <2>2, <2>3, <2>4, <2>5, <2>6
<1>2. CASE HostTick(h)
  <2> USE <1>2, ProcessesAssumption DEF HostTick, Over, GotoHost
  <2>1. DirsType'
    BY DEF DirsType, Dirs, None
  <2>2. ProcessesType'
    BY DEF HostPcs
  <2>3. HasOpened'
    BY DEF HasOpened
  <2>4. PastLockHolds'
    BY DEF PastLockHolds, HeldByHolder, HasOpened, Holding
  <2>5. HeldByHolder'
    BY DEF PastLockHolds, HeldByHolder, HasOpened, Holding
  <2>6. WhoProbes'
    BY DEF WhoProbes
  <2>7. QED
    BY <2>1, <2>2, <2>3, <2>4, <2>5, <2>6
<1>3. CASE HostCleanup(h)
  <2> USE <1>3, ProcessesAssumption DEF HostCleanup, GotoHost
  <2>1. DirsType'
    BY DEF DirsType, Dirs, None
  <2>2. ProcessesType'
    BY DEF HostPcs
  <2>3. HasOpened'
    BY DEF HasOpened
  <2>4. PastLockHolds'
    BY DEF PastLockHolds, HeldByHolder, HasOpened, Holding
  <2>5. HeldByHolder'
    BY DEF PastLockHolds, HeldByHolder, HasOpened, Holding
  <2>6. WhoProbes'
    BY DEF WhoProbes
  <2>7. QED
    BY <2>1, <2>2, <2>3, <2>4, <2>5, <2>6
<1>4. CASE HostRelease(h)
  <2> USE <1>4, ProcessesAssumption DEF HostRelease, Unlock, GotoHost
  <2>1. DirsType'
    BY DEF DirsType, Dirs, None
  <2>2. ProcessesType'
    BY DEF HostPcs
  <2>3. HasOpened'
    BY DEF HasOpened
  <2>4. PastLockHolds'
    BY DEF PastLockHolds, HeldByHolder, HasOpened, Holding
  <2>5. HeldByHolder'
    BY DEF PastLockHolds, HeldByHolder, HasOpened, Holding
  <2>6. WhoProbes'
    BY DEF WhoProbes
  <2>7. QED
    BY <2>1, <2>2, <2>3, <2>4, <2>5, <2>6
<1>5. CASE HostTry(h)
  <2>1. PICK pc \in HostPcs :
           /\ GotoHost(h, pc) /\ UNCHANGED <<dir, made, filled, client>>
           /\ /\ host[h].pc \in {"try", "try_again"}
           /\ \/ /\ lock[host[h].dir] = None /\ lock' = [lock EXCEPT ![host[h].dir] = h] /\ pc = "claim"
              \/ lock' = lock /\ pc \in {"pid", "gone"}
    BY <1>5 DEF HostTry, HostPcs
  <2>2. /\ host' \in [Hosts -> [pc : HostPcs, dir : Dirs \cup {None}]]
        /\ host'[h].pc = pc /\ host'[h].dir = host[h].dir
        /\ \A g \in Hosts : g # h => host'[g] = host[g]
    BY <2>1, HostGoesTo DEF GotoHost
  <2>3. DirsType'
    BY <2>1, <2>2 DEF DirsType, Dirs, None
  <2>4. ProcessesType'
    BY <2>1, <2>2 DEF HostPcs
  <2>5. HasOpened'
    BY <2>1, <2>2 DEF HasOpened
  <2>6. PastLockHolds'
    BY <2>1, <2>2 DEF PastLockHolds, HeldByHolder, HasOpened, Holding
  <2>7. HeldByHolder'
    BY <2>1, <2>2, SMTT(30) DEF PastLockHolds, HeldByHolder, HasOpened, Holding
  <2>8. WhoProbes'
    BY <2>1, <2>2 DEF WhoProbes
  <2>9. QED
    BY <2>3, <2>4, <2>5, <2>6, <2>7, <2>8
<1>6. CASE HostReadPid(h)
  <2>1. PICK pc \in HostPcs :
           /\ GotoHost(h, pc) /\ UNCHANGED <<dir, made, filled, client>>
           /\ host[h].pc = "pid" /\ lock' = lock /\ pc \in {"retry", "gone"}
    BY <1>6 DEF HostReadPid, HostPcs
  <2>2. /\ host' \in [Hosts -> [pc : HostPcs, dir : Dirs \cup {None}]]
        /\ host'[h].pc = pc /\ host'[h].dir = host[h].dir
        /\ \A g \in Hosts : g # h => host'[g] = host[g]
    BY <2>1, HostGoesTo DEF GotoHost
  <2>3. DirsType'
    BY <2>1, <2>2 DEF DirsType, Dirs, None
  <2>4. ProcessesType'
    BY <2>1, <2>2 DEF HostPcs
  <2>5. HasOpened'
    BY <2>1, <2>2 DEF HasOpened
  <2>6. PastLockHolds'
    BY <2>1, <2>2 DEF PastLockHolds, HeldByHolder, HasOpened, Holding
  <2>7. HeldByHolder'
    BY <2>1, <2>2 DEF PastLockHolds, HeldByHolder, HasOpened, Holding
  <2>8. WhoProbes'
    BY <2>1, <2>2 DEF WhoProbes
  <2>9. QED
    BY <2>3, <2>4, <2>5, <2>6, <2>7, <2>8
<1>7. CASE HostClaim(h)
  <2>1. PICK pc \in HostPcs :
           /\ GotoHost(h, pc) /\ UNCHANGED <<dir, made, filled, client>>
           /\ host[h].pc = "claim" /\ lock' = lock /\ pc \in {"release", "recover"}
    BY <1>7 DEF HostClaim, HostPcs
  <2>2. /\ host' \in [Hosts -> [pc : HostPcs, dir : Dirs \cup {None}]]
        /\ host'[h].pc = pc /\ host'[h].dir = host[h].dir
        /\ \A g \in Hosts : g # h => host'[g] = host[g]
    BY <2>1, HostGoesTo DEF GotoHost
  <2>3. DirsType'
    BY <2>1, <2>2 DEF DirsType, Dirs, None
  <2>4. ProcessesType'
    BY <2>1, <2>2 DEF HostPcs
  <2>5. HasOpened'
    BY <2>1, <2>2 DEF HasOpened
  <2>6. PastLockHolds'
    BY <2>1, <2>2 DEF PastLockHolds, HeldByHolder, HasOpened, Holding
  <2>7. HeldByHolder'
    BY <2>1, <2>2 DEF PastLockHolds, HeldByHolder, HasOpened, Holding
  <2>8. WhoProbes'
    BY <2>1, <2>2 DEF WhoProbes
  <2>9. QED
    BY <2>3, <2>4, <2>5, <2>6, <2>7, <2>8
<1>8. CASE HostRecover(h)
  <2>1. PICK pc \in HostPcs :
           /\ GotoHost(h, pc) /\ UNCHANGED <<dir, made, filled, client>>
           /\ host[h].pc = "recover" /\ lock' = lock /\ pc \in {"release", "up"}
    BY <1>8 DEF HostRecover, HostPcs
  <2>2. /\ host' \in [Hosts -> [pc : HostPcs, dir : Dirs \cup {None}]]
        /\ host'[h].pc = pc /\ host'[h].dir = host[h].dir
        /\ \A g \in Hosts : g # h => host'[g] = host[g]
    BY <2>1, HostGoesTo DEF GotoHost
  <2>3. DirsType'
    BY <2>1, <2>2 DEF DirsType, Dirs, None
  <2>4. ProcessesType'
    BY <2>1, <2>2 DEF HostPcs
  <2>5. HasOpened'
    BY <2>1, <2>2 DEF HasOpened
  <2>6. PastLockHolds'
    BY <2>1, <2>2 DEF PastLockHolds, HeldByHolder, HasOpened, Holding
  <2>7. HeldByHolder'
    BY <2>1, <2>2 DEF PastLockHolds, HeldByHolder, HasOpened, Holding
  <2>8. WhoProbes'
    BY <2>1, <2>2 DEF WhoProbes
  <2>9. QED
    BY <2>3, <2>4, <2>5, <2>6, <2>7, <2>8
<1>9. CASE HostDies(h)
  <2>1. PICK pc \in HostPcs :
           /\ GotoHost(h, pc) /\ UNCHANGED <<dir, made, filled, client>>
           /\ lock' = [d \in Dirs |-> IF lock[d] = h THEN None ELSE lock[d]] /\ pc = "gone"
    BY <1>9 DEF HostDies, HostPcs, Unlock
  <2>2. /\ host' \in [Hosts -> [pc : HostPcs, dir : Dirs \cup {None}]]
        /\ host'[h].pc = pc /\ host'[h].dir = host[h].dir
        /\ \A g \in Hosts : g # h => host'[g] = host[g]
    BY <2>1, HostGoesTo DEF GotoHost
  <2>3. DirsType'
    BY <2>1, <2>2 DEF DirsType, Dirs, None
  <2>4. ProcessesType'
    BY <2>1, <2>2 DEF HostPcs
  <2>5. HasOpened'
    BY <2>1, <2>2 DEF HasOpened
  <2>6. PastLockHolds'
    BY <2>1, <2>2 DEF PastLockHolds, HeldByHolder, HasOpened, Holding
  <2>7. HeldByHolder'
    BY <2>1, <2>2 DEF PastLockHolds, HeldByHolder, HasOpened, Holding
  <2>8. WhoProbes'
    BY <2>1, <2>2 DEF WhoProbes
  <2>9. QED
    BY <2>3, <2>4, <2>5, <2>6, <2>7, <2>8
<1>99. QED
  BY <1>1, <1>2, <1>3, <1>4, <1>5, <1>6, <1>7, <1>8, <1>9 DEF HostNext

LEMMA BeginKeepsLock ==
  ASSUME LockInv, NEW c \in Clients,
         \/ Submit(c) \/ Answer(c) \/ Feedback(c) \/ Upload(c) \/ Run(c) \/ Pause(c) \/ Resume(c)
         \/ Done(c) \/ Cancel(c) \/ Delete(c) \/ Look(c)
  PROVE  LockInv'
<1>1. PICK cmd \in Cmds, pc \in {"create", "enqueue", "open", "stage"} :
        /\ client[c].pc = "idle"
        /\ pc = "enqueue" => cmd \in Starters
        /\ pc = "create" => cmd = "submit"
        /\ pc = "open" => cmd \in Starters \cup {"delete", "look"}
        /\ Begin(c, cmd, pc)
  BY DEF Submit, Answer, Feedback, Upload, Run, Pause, Resume, Done, Cancel, Delete, Look, Cmds, Starters, Begin
<1>2. QED
  BY <1>1, ProcessesAssumption DEF Begin, LockInv, DirsType, ProcessesType, HasOpened, PastLockHolds,
    HeldByHolder, WhoProbes, Dirs, None, HostPcs, ClientPcs, Cmds, Holding, Probing, Starters, task

LEMMA ClientKeepsLock == ASSUME LockInv, NEW c \in Clients, ClientNext(c) PROVE LockInv'
<1> USE Nobody DEF LockInv, ProcessesType, task
<1>1. CASE Create(c)
  <2>1. UNCHANGED <<filled, lock, host>> /\ DirsType'
    BY <1>1, ProcessesAssumption DEF Create, DirsType, Dirs, None
  <2>2. \/ \E pc \in ClientPcs : GotoClient(c, pc) /\ pc = "manifest" /\ client[c].pc = "create"
        \/ Return(c) /\ client[c].pc = "create"
    BY <1>1 DEF Create, GotoClient, ClientPcs
  <2>3. CASE \E pc \in ClientPcs : GotoClient(c, pc) /\ pc = "manifest" /\ client[c].pc = "create"
    <3>1. PICK pc \in ClientPcs : GotoClient(c, pc) /\ pc = "manifest" /\ client[c].pc = "create"
      BY <2>3
    <3>2. ClientTo(c, pc, client[c].cmd)
      BY <3>1, ClientGoes
    <3>3. client'[c].dir = client[c].dir
      BY <3>1 DEF GotoClient
    <3>4. DirsType'
      BY <2>1, <3>1, <3>2, <3>3 DEF DirsType
    <3>5. ProcessesType'
      BY <2>1, <3>1, <3>2, <3>3 DEF ClientTo, Unlock
    <3>6. HasOpened'
      BY <2>1, <3>1, <3>2, <3>3 DEF ClientTo, HasOpened
    <3>7. PastLockHolds'
      BY <2>1, <3>1, <3>2, <3>3 DEF ClientTo, PastLockHolds, HeldByHolder, HasOpened, Holding, Unlock
    <3>8. HeldByHolder'
      BY <2>1, <3>1, <3>2, <3>3 DEF ClientTo, PastLockHolds, HeldByHolder, HasOpened, Holding, Unlock
    <3>9. WhoProbes'
      BY <2>1, <3>1, <3>2, <3>3 DEF ClientTo, WhoProbes, Probing, Starters
    <3>10. QED
      BY <3>4, <3>5, <3>6, <3>7, <3>8, <3>9
  <2>4. CASE Return(c) /\ client[c].pc = "create"
    <3>1. ClientTo(c, "idle", "none")
      BY <2>4, ClientComesBack
    <3>2. DirsType'
      BY <2>1, <2>4, <3>1 DEF DirsType
    <3>3. ProcessesType'
      BY <2>1, <2>4, <3>1 DEF ClientTo, Unlock
    <3>4. HasOpened'
      BY <2>1, <2>4, <3>1 DEF ClientTo, HasOpened
    <3>5. PastLockHolds'
      BY <2>1, <2>4, <3>1 DEF ClientTo, PastLockHolds, HeldByHolder, HasOpened, Holding, Unlock
    <3>6. HeldByHolder'
      BY <2>1, <2>4, <3>1 DEF ClientTo, PastLockHolds, HeldByHolder, HasOpened, Holding, Unlock
    <3>7. WhoProbes'
      BY <2>1, <2>4, <3>1 DEF ClientTo, WhoProbes, Probing, Starters
    <3>8. QED
      BY <3>2, <3>3, <3>4, <3>5, <3>6, <3>7
  <2>5. QED
    BY <2>2, <2>3, <2>4
<1>2. CASE WriteManifest(c)
  <2>0. UNCHANGED <<dir, made>> /\ (filled' = filled \/ (dir # None /\ filled' = filled \cup {dir}))
    BY <1>2 DEF WriteManifest
  <2>1. UNCHANGED <<dir, made, lock, host>> /\ DirsType'
    <3>1. DirsType'
      <4>1. made \in Nat /\ filled \subseteq 1..made /\ (dir # None => dir \in 1..made)
        BY ProcessesAssumption DEF DirsType, None
      <4>2. filled' \subseteq 1..made
        BY <2>0, <4>1
      <4>3. QED
        BY <2>0, <4>2 DEF DirsType
    <3>2. QED
      BY <1>2, <3>1 DEF WriteManifest
  <2>2. \/ \E pc \in ClientPcs : GotoClient(c, pc) /\ pc \in {"open", "enqueue"} /\ client[c].pc = "manifest"
        \/ Return(c) /\ client[c].pc = "manifest"
    BY <1>2 DEF WriteManifest, GotoClient, ClientPcs, AfterCreate
  <2>3. CASE \E pc \in ClientPcs : GotoClient(c, pc) /\ pc \in {"open", "enqueue"} /\ client[c].pc = "manifest"
    <3>1. PICK pc \in ClientPcs : GotoClient(c, pc) /\ pc \in {"open", "enqueue"} /\ client[c].pc = "manifest"
      BY <2>3
    <3>2. ClientTo(c, pc, client[c].cmd)
      BY <3>1, ClientGoes
    <3>3. client'[c].dir = client[c].dir
      BY <3>1 DEF GotoClient
    <3>4. DirsType'
      BY <2>1, <3>1, <3>2, <3>3 DEF DirsType
    <3>5. ProcessesType'
      BY <2>1, <3>1, <3>2, <3>3 DEF ClientTo, Unlock
    <3>6. HasOpened'
      BY <2>1, <3>1, <3>2, <3>3 DEF ClientTo, HasOpened
    <3>7. PastLockHolds'
      BY <2>1, <3>1, <3>2, <3>3 DEF ClientTo, PastLockHolds, HeldByHolder, HasOpened, Holding, Unlock
    <3>8. HeldByHolder'
      BY <2>1, <3>1, <3>2, <3>3 DEF ClientTo, PastLockHolds, HeldByHolder, HasOpened, Holding, Unlock
    <3>9. WhoProbes'
      BY <2>1, <3>1, <3>2, <3>3 DEF ClientTo, WhoProbes, Probing, Starters
    <3>10. QED
      BY <3>4, <3>5, <3>6, <3>7, <3>8, <3>9
  <2>4. CASE Return(c) /\ client[c].pc = "manifest"
    <3>1. ClientTo(c, "idle", "none")
      BY <2>4, ClientComesBack
    <3>2. DirsType'
      BY <2>1, <2>4, <3>1 DEF DirsType
    <3>3. ProcessesType'
      BY <2>1, <2>4, <3>1 DEF ClientTo, Unlock
    <3>4. HasOpened'
      BY <2>1, <2>4, <3>1 DEF ClientTo, HasOpened
    <3>5. PastLockHolds'
      BY <2>1, <2>4, <3>1 DEF ClientTo, PastLockHolds, HeldByHolder, HasOpened, Holding, Unlock
    <3>6. HeldByHolder'
      BY <2>1, <2>4, <3>1 DEF ClientTo, PastLockHolds, HeldByHolder, HasOpened, Holding, Unlock
    <3>7. WhoProbes'
      BY <2>1, <2>4, <3>1 DEF ClientTo, WhoProbes, Probing, Starters
    <3>8. QED
      BY <3>2, <3>3, <3>4, <3>5, <3>6, <3>7
  <2>5. QED
    BY <2>2, <2>3, <2>4
<1>3. CASE Enqueue(c)
  <2>1. UNCHANGED <<filled, lock, host>> /\ DirsType'
    BY <1>3, ProcessesAssumption DEF Enqueue, DirsType, Dirs, None, Opened
  <2>2. \E pc \in ClientPcs : GotoClient(c, pc) /\ pc = "open" /\ client[c].pc = "enqueue"
    BY <1>3 DEF Enqueue, GotoClient, ClientPcs, Opened
  <2>3. CASE \E pc \in ClientPcs : GotoClient(c, pc) /\ pc = "open" /\ client[c].pc = "enqueue"
    <3>1. PICK pc \in ClientPcs : GotoClient(c, pc) /\ pc = "open" /\ client[c].pc = "enqueue"
      BY <2>3
    <3>2. ClientTo(c, pc, client[c].cmd)
      BY <3>1, ClientGoes
    <3>3. client'[c].dir = client[c].dir
      BY <3>1 DEF GotoClient
    <3>4. DirsType'
      BY <2>1, <3>1, <3>2, <3>3 DEF DirsType
    <3>5. ProcessesType'
      BY <2>1, <3>1, <3>2, <3>3 DEF ClientTo, Unlock
    <3>6. HasOpened'
      BY <2>1, <3>1, <3>2, <3>3 DEF ClientTo, HasOpened
    <3>7. PastLockHolds'
      BY <2>1, <3>1, <3>2, <3>3 DEF ClientTo, PastLockHolds, HeldByHolder, HasOpened, Holding, Unlock
    <3>8. HeldByHolder'
      BY <2>1, <3>1, <3>2, <3>3 DEF ClientTo, PastLockHolds, HeldByHolder, HasOpened, Holding, Unlock
    <3>9. WhoProbes'
      BY <2>1, <3>1, <3>2, <3>3 DEF ClientTo, WhoProbes, Probing, Starters
    <3>10. QED
      BY <3>4, <3>5, <3>6, <3>7, <3>8, <3>9
  <2>4. QED
    BY <2>2, <2>3
<1>4. CASE WriteStage(c)
  <2>1. UNCHANGED <<filled, lock, host>> /\ DirsType'
    BY <1>4, ProcessesAssumption DEF WriteStage, DirsType, Dirs, None, Opened, Task
  <2>2. \/ \E pc \in ClientPcs : GotoClient(c, pc) /\ pc = "open" /\ client[c].pc = "stage" /\ client[c].cmd = "resume"
        \/ Return(c) /\ client[c].pc = "stage"
    BY <1>4 DEF WriteStage, GotoClient, ClientPcs, Opened, Task
  <2>3. CASE \E pc \in ClientPcs : GotoClient(c, pc) /\ pc = "open" /\ client[c].pc = "stage" /\ client[c].cmd = "resume"
    <3>1. PICK pc \in ClientPcs : GotoClient(c, pc) /\ pc = "open" /\ client[c].pc = "stage" /\ client[c].cmd = "resume"
      BY <2>3
    <3>2. ClientTo(c, pc, client[c].cmd)
      BY <3>1, ClientGoes
    <3>3. client'[c].dir = client[c].dir
      BY <3>1 DEF GotoClient
    <3>4. DirsType'
      BY <2>1, <3>1, <3>2, <3>3 DEF DirsType
    <3>5. ProcessesType'
      BY <2>1, <3>1, <3>2, <3>3 DEF ClientTo, Unlock
    <3>6. HasOpened'
      BY <2>1, <3>1, <3>2, <3>3 DEF ClientTo, HasOpened
    <3>7. PastLockHolds'
      BY <2>1, <3>1, <3>2, <3>3 DEF ClientTo, PastLockHolds, HeldByHolder, HasOpened, Holding, Unlock
    <3>8. HeldByHolder'
      BY <2>1, <3>1, <3>2, <3>3 DEF ClientTo, PastLockHolds, HeldByHolder, HasOpened, Holding, Unlock
    <3>9. WhoProbes'
      BY <2>1, <3>1, <3>2, <3>3 DEF ClientTo, WhoProbes, Probing, Starters
    <3>10. QED
      BY <3>4, <3>5, <3>6, <3>7, <3>8, <3>9
  <2>4. CASE Return(c) /\ client[c].pc = "stage"
    <3>1. ClientTo(c, "idle", "none")
      BY <2>4, ClientComesBack
    <3>2. DirsType'
      BY <2>1, <2>4, <3>1 DEF DirsType
    <3>3. ProcessesType'
      BY <2>1, <2>4, <3>1 DEF ClientTo, Unlock
    <3>4. HasOpened'
      BY <2>1, <2>4, <3>1 DEF ClientTo, HasOpened
    <3>5. PastLockHolds'
      BY <2>1, <2>4, <3>1 DEF ClientTo, PastLockHolds, HeldByHolder, HasOpened, Holding, Unlock
    <3>6. HeldByHolder'
      BY <2>1, <2>4, <3>1 DEF ClientTo, PastLockHolds, HeldByHolder, HasOpened, Holding, Unlock
    <3>7. WhoProbes'
      BY <2>1, <2>4, <3>1 DEF ClientTo, WhoProbes, Probing, Starters
    <3>8. QED
      BY <3>2, <3>3, <3>4, <3>5, <3>6, <3>7
  <2>5. QED
    BY <2>2, <2>3, <2>4
<1>5. CASE ProbeTry(c)
  <2>1. UNCHANGED <<dir, made, filled, host>>
    BY <1>5, ProcessesAssumption DEF ProbeTry, DirsType, Dirs, None
  <2>2. \/ \E pc \in ClientPcs : GotoClient(c, pc) /\ pc \in {"held", "held_again"} /\ client[c].pc \in {"try", "try_again"} /\ lock[client[c].dir] = None /\ lock' = [lock EXCEPT ![client[c].dir] = c]
        \/ Return(c) /\ client[c].pc \in {"try", "try_again"} /\ lock' = lock
    BY <1>5 DEF ProbeTry, GotoClient, ClientPcs
  <2>3. CASE \E pc \in ClientPcs : GotoClient(c, pc) /\ pc \in {"held", "held_again"} /\ client[c].pc \in {"try", "try_again"} /\ lock[client[c].dir] = None /\ lock' = [lock EXCEPT ![client[c].dir] = c]
    <3>1. PICK pc \in ClientPcs : GotoClient(c, pc) /\ pc \in {"held", "held_again"} /\ client[c].pc \in {"try", "try_again"} /\ lock[client[c].dir] = None /\ lock' = [lock EXCEPT ![client[c].dir] = c]
      BY <2>3
    <3>2. ClientTo(c, pc, client[c].cmd)
      BY <3>1, ClientGoes
    <3>3. client'[c].dir = client[c].dir
      BY <3>1 DEF GotoClient
    <3>4. DirsType'
      BY <2>1, <3>1, <3>2, <3>3 DEF DirsType
    <3>5. ProcessesType'
      BY <2>1, <3>1, <3>2, <3>3 DEF ClientTo, Unlock
    <3>6. HasOpened'
      BY <2>1, <3>1, <3>2, <3>3 DEF ClientTo, HasOpened
    <3>7. PastLockHolds'
      BY <2>1, <3>1, <3>2, <3>3 DEF ClientTo, PastLockHolds, HeldByHolder, HasOpened, Holding, Unlock
    <3>8. HeldByHolder'
      BY <2>1, <3>1, <3>2, <3>3 DEF ClientTo, PastLockHolds, HeldByHolder, HasOpened, Holding, Unlock
    <3>9. WhoProbes'
      BY <2>1, <3>1, <3>2, <3>3 DEF ClientTo, WhoProbes, Probing, Starters
    <3>10. QED
      BY <3>4, <3>5, <3>6, <3>7, <3>8, <3>9
  <2>4. CASE Return(c) /\ client[c].pc \in {"try", "try_again"} /\ lock' = lock
    <3>1. ClientTo(c, "idle", "none")
      BY <2>4, ClientComesBack
    <3>2. DirsType'
      BY <2>1, <2>4, <3>1 DEF DirsType
    <3>3. ProcessesType'
      BY <2>1, <2>4, <3>1 DEF ClientTo, Unlock
    <3>4. HasOpened'
      BY <2>1, <2>4, <3>1 DEF ClientTo, HasOpened
    <3>5. PastLockHolds'
      BY <2>1, <2>4, <3>1 DEF ClientTo, PastLockHolds, HeldByHolder, HasOpened, Holding, Unlock
    <3>6. HeldByHolder'
      BY <2>1, <2>4, <3>1 DEF ClientTo, PastLockHolds, HeldByHolder, HasOpened, Holding, Unlock
    <3>7. WhoProbes'
      BY <2>1, <2>4, <3>1 DEF ClientTo, WhoProbes, Probing, Starters
    <3>8. QED
      BY <3>2, <3>3, <3>4, <3>5, <3>6, <3>7
  <2>5. QED
    BY <2>2, <2>3, <2>4
<1>6. CASE ProbeRelease(c)
  <2>1. UNCHANGED <<dir, made, filled, host>> /\ Unlock(c)
    BY <1>6, ProcessesAssumption DEF ProbeRelease, DirsType, Dirs, None, Unlock
  <2>2. \/ \E pc \in ClientPcs : GotoClient(c, pc) /\ pc \in {"open_again", "rename", "spawn"} /\ client[c].pc \in {"held", "held_again"} /\ (pc = "spawn" => client[c].cmd \notin {"look", "delete"})
        \/ Return(c)
    BY <1>6 DEF ProbeRelease, GotoClient, ClientPcs, Unlock
  <2>3. CASE \E pc \in ClientPcs : GotoClient(c, pc) /\ pc \in {"open_again", "rename", "spawn"} /\ client[c].pc \in {"held", "held_again"} /\ (pc = "spawn" => client[c].cmd \notin {"look", "delete"})
    <3>1. PICK pc \in ClientPcs : GotoClient(c, pc) /\ pc \in {"open_again", "rename", "spawn"} /\ client[c].pc \in {"held", "held_again"} /\ (pc = "spawn" => client[c].cmd \notin {"look", "delete"})
      BY <2>3
    <3>2. ClientTo(c, pc, client[c].cmd)
      BY <3>1, ClientGoes
    <3>3. client'[c].dir = client[c].dir
      BY <3>1 DEF GotoClient
    <3>4. DirsType'
      BY <2>1, <3>1, <3>2, <3>3 DEF DirsType
    <3>5. ProcessesType'
      BY <2>1, <3>1, <3>2, <3>3 DEF ClientTo, Unlock
    <3>6. HasOpened'
      BY <2>1, <3>1, <3>2, <3>3 DEF ClientTo, HasOpened
    <3>7. PastLockHolds'
      BY <2>1, <3>1, <3>2, <3>3 DEF ClientTo, PastLockHolds, HeldByHolder, HasOpened, Holding, Unlock
    <3>8. HeldByHolder'
      BY <2>1, <3>1, <3>2, <3>3 DEF ClientTo, PastLockHolds, HeldByHolder, HasOpened, Holding, Unlock
    <3>9. WhoProbes'
      BY <2>1, <3>1, <3>2, <3>3 DEF ClientTo, WhoProbes, Probing, Starters
    <3>10. QED
      BY <3>4, <3>5, <3>6, <3>7, <3>8, <3>9
  <2>4. CASE Return(c)
    <3>1. ClientTo(c, "idle", "none")
      BY <2>4, ClientComesBack
    <3>2. DirsType'
      BY <2>1, <2>4, <3>1 DEF DirsType
    <3>3. ProcessesType'
      BY <2>1, <2>4, <3>1 DEF ClientTo, Unlock
    <3>4. HasOpened'
      BY <2>1, <2>4, <3>1 DEF ClientTo, HasOpened
    <3>5. PastLockHolds'
      BY <2>1, <2>4, <3>1 DEF ClientTo, PastLockHolds, HeldByHolder, HasOpened, Holding, Unlock
    <3>6. HeldByHolder'
      BY <2>1, <2>4, <3>1 DEF ClientTo, PastLockHolds, HeldByHolder, HasOpened, Holding, Unlock
    <3>7. WhoProbes'
      BY <2>1, <2>4, <3>1 DEF ClientTo, WhoProbes, Probing, Starters
    <3>8. QED
      BY <3>2, <3>3, <3>4, <3>5, <3>6, <3>7
  <2>5. QED
    BY <2>2, <2>3, <2>4
<1>7. CASE Remove(c)
  <2>1. Return(c) /\ UNCHANGED <<made, filled, lock, host>> /\ dir' = None /\ client[c].pc = "rename"
    BY <1>7 DEF Remove
  <2>2. ClientTo(c, "idle", "none")
    BY <2>1, ClientComesBack
  <2>3. DirsType'
    BY <2>1, <2>2 DEF DirsType
  <2>4. ProcessesType'
    BY <2>1, <2>2 DEF ClientTo, Unlock
  <2>5. HasOpened'
    BY <2>1, <2>2 DEF HasOpened, ClientTo
  <2>6. PastLockHolds'
    BY <2>1, <2>2 DEF PastLockHolds, HeldByHolder, HasOpened, Holding, ClientTo, Unlock
  <2>7. HeldByHolder'
    BY <2>1, <2>2 DEF PastLockHolds, HeldByHolder, HasOpened, Holding, ClientTo, Unlock
  <2>8. WhoProbes'
    BY <2>1, <2>2 DEF WhoProbes, Probing, Starters, ClientTo
  <2>9. QED
    BY <2>3, <2>4, <2>5, <2>6, <2>7, <2>8
<1>8. CASE ClientDies(c)
  <2>1. Return(c) /\ UNCHANGED <<dir, made, filled, host>> /\ Unlock(c)
    BY <1>8 DEF ClientDies
  <2>2. ClientTo(c, "idle", "none")
    BY <2>1, ClientComesBack
  <2>3. DirsType'
    BY <2>1, <2>2 DEF DirsType
  <2>4. ProcessesType'
    BY <2>1, <2>2 DEF ClientTo, Unlock
  <2>5. HasOpened'
    BY <2>1, <2>2 DEF HasOpened, ClientTo
  <2>6. PastLockHolds'
    BY <2>1, <2>2 DEF PastLockHolds, HeldByHolder, HasOpened, Holding, ClientTo, Unlock
  <2>7. HeldByHolder'
    BY <2>1, <2>2 DEF PastLockHolds, HeldByHolder, HasOpened, Holding, ClientTo, Unlock
  <2>8. WhoProbes'
    BY <2>1, <2>2 DEF WhoProbes, Probing, Starters, ClientTo
  <2>9. QED
    BY <2>3, <2>4, <2>5, <2>6, <2>7, <2>8
<1>9. CASE ProbeOpen(c)
  <2>1. PICK d \in Dirs : client' = [client EXCEPT ![c].dir = d, ![c].pc = IF @ = "open" THEN "try" ELSE "try_again"]
    BY <1>9 DEF ProbeOpen
  <2>2. /\ client[c].pc \in {"open", "open_again"} /\ UNCHANGED <<filled, lock, host>>
        /\ client'[c].dir = d /\ client'[c].pc \in {"try", "try_again"}
        /\ ClientTo(c, client'[c].pc, client[c].cmd)
    BY <1>9, <2>1 DEF ProbeOpen, ClientTo, ClientPcs
  <2>3. DirsType'
    BY <1>9, ProcessesAssumption DEF ProbeOpen, Opened, DirsType, Dirs, None
  <2>5. ProcessesType'
    BY <2>2 DEF ClientTo
  <2>6. HasOpened'
    BY <2>2 DEF HasOpened, ClientTo, Opened
  <2>7. PastLockHolds'
    BY <2>2 DEF PastLockHolds, HeldByHolder, HasOpened, Holding, ClientTo, Unlock
  <2>8. HeldByHolder'
    BY <2>2 DEF PastLockHolds, HeldByHolder, HasOpened, Holding, ClientTo, Unlock
  <2>9. WhoProbes'
    BY <2>2 DEF WhoProbes, Probing, Starters, ClientTo
  <2>10. QED
    BY <2>3, <2>5, <2>6, <2>7, <2>8, <2>9
<1>10. CASE Foreground(c)
  <2>1. Return(c) /\ DirsType' /\ UNCHANGED filled
    BY <1>10, ProcessesAssumption DEF Foreground, DirsType, Dirs, None
  <2>2. ClientTo(c, "idle", "none")
    BY <2>1, ClientComesBack
  <2>3. lock' = lock \/ Unlock(c)
    BY <1>10 DEF Foreground
  <2>4. client[c].pc \in {"open", "spawn"}
    BY <1>10 DEF Foreground
  <2>5. \/ host' = host
        \/ \E h \in Unborn : GotoHost(h, "born")
    BY <1>10, NewHostIsUnborn DEF Foreground
  <2>6. /\ host' \in [Hosts -> [pc : HostPcs, dir : Dirs \cup {None}]]
        /\ \A h \in Hosts : host'[h] = host[h] \/ (host'[h].pc = "born" /\ host[h].pc = "unborn")
    <3>1. CASE host' = host
      BY <3>1
    <3>2. CASE \E h \in Unborn : GotoHost(h, "born")
      <4>1. PICK h \in Hosts : host[h].pc = "unborn" /\ GotoHost(h, "born")
        BY <3>2 DEF Unborn
      <4>2. QED
        BY <4>1, HostGoesTo DEF GotoHost, HostPcs
    <3>3. QED
      BY <2>5, <3>1, <3>2
  <2>7. DirsType'
    BY <2>1, <2>2, <2>3, <2>4, <2>6 DEF DirsType
  <2>8. ProcessesType'
    BY <2>1, <2>2, <2>3, <2>4, <2>6 DEF ClientTo, Unlock
  <2>9. HasOpened'
    BY <2>1, <2>2, <2>3, <2>4, <2>6 DEF HasOpened, ClientTo
  <2>10. PastLockHolds'
    BY <2>1, <2>2, <2>3, <2>4, <2>6 DEF PastLockHolds, HeldByHolder, HasOpened, Holding, ClientTo, Unlock
  <2>11. HeldByHolder'
    BY <2>1, <2>2, <2>3, <2>4, <2>6 DEF PastLockHolds, HeldByHolder, HasOpened, Holding, ClientTo, Unlock
  <2>12. WhoProbes'
    BY <2>1, <2>2, <2>3, <2>4, <2>6 DEF WhoProbes, Probing, Starters, ClientTo
  <2>13. QED
    BY <2>7, <2>8, <2>9, <2>10, <2>11, <2>12
<1>11. CASE Spawn(c)
  <2>1. Return(c) /\ DirsType' /\ UNCHANGED filled
    BY <1>11, ProcessesAssumption DEF Spawn, DirsType, Dirs, None, Opened, Unlock
  <2>2. ClientTo(c, "idle", "none")
    BY <2>1, ClientComesBack
  <2>3. lock' = lock \/ Unlock(c)
    BY <1>11 DEF Spawn
  <2>4. client[c].pc \in {"open", "spawn"}
    BY <1>11 DEF Spawn
  <2>5. \/ host' = host
        \/ \E h \in Unborn : GotoHost(h, "born")
    BY <1>11, NewHostIsUnborn DEF Spawn
  <2>6. /\ host' \in [Hosts -> [pc : HostPcs, dir : Dirs \cup {None}]]
        /\ \A h \in Hosts : host'[h] = host[h] \/ (host'[h].pc = "born" /\ host[h].pc = "unborn")
    <3>1. CASE host' = host
      BY <3>1
    <3>2. CASE \E h \in Unborn : GotoHost(h, "born")
      <4>1. PICK h \in Hosts : host[h].pc = "unborn" /\ GotoHost(h, "born")
        BY <3>2 DEF Unborn
      <4>2. QED
        BY <4>1, HostGoesTo DEF GotoHost, HostPcs
    <3>3. QED
      BY <2>5, <3>1, <3>2
  <2>7. DirsType'
    BY <2>1, <2>2, <2>3, <2>4, <2>6 DEF DirsType
  <2>8. ProcessesType'
    BY <2>1, <2>2, <2>3, <2>4, <2>6 DEF ClientTo, Unlock
  <2>9. HasOpened'
    BY <2>1, <2>2, <2>3, <2>4, <2>6 DEF HasOpened, ClientTo
  <2>10. PastLockHolds'
    BY <2>1, <2>2, <2>3, <2>4, <2>6 DEF PastLockHolds, HeldByHolder, HasOpened, Holding, ClientTo, Unlock
  <2>11. HeldByHolder'
    BY <2>1, <2>2, <2>3, <2>4, <2>6 DEF PastLockHolds, HeldByHolder, HasOpened, Holding, ClientTo, Unlock
  <2>12. WhoProbes'
    BY <2>1, <2>2, <2>3, <2>4, <2>6 DEF WhoProbes, Probing, Starters, ClientTo
  <2>13. QED
    BY <2>7, <2>8, <2>9, <2>10, <2>11, <2>12
<1>99. QED
  BY BeginKeepsLock, <1>1, <1>2, <1>3, <1>4, <1>5, <1>6, <1>7, <1>8, <1>9, <1>10, <1>11 DEF ClientNext

LEMMA LockStep == LockInv /\ [Next]_vars => LockInv'
<1> SUFFICES ASSUME LockInv, [Next]_vars PROVE LockInv'
  OBVIOUS
<1>1. CASE UNCHANGED vars
  BY <1>1 DEF vars, task, LockInv, DirsType, ProcessesType, HasOpened, PastLockHolds, HeldByHolder, WhoProbes
<1>2. CASE Next
  BY <1>2, HostKeepsLock, ClientKeepsLock DEF Next
<1>3. QED
  BY <1>1, <1>2

-----------------------------------------------------------------------------
(* Work that is due                                                          *)

LookingAfter == {"born", "try", "claim", "recover", "up"}
OnItsWay == Probing \cup {"enqueue"}

\* Who sees to it still does when h moves within those places, or was not in one.
LEMMA HostStillSees ==
  ASSUME NEW h \in Hosts, SeesToIt, UNCHANGED client,
         \A g \in Hosts : g # h => host'[g] = host[g],
         host[h].pc \in LookingAfter => host'[h].pc \in LookingAfter
  PROVE  SeesToIt'
BY DEF SeesToIt, LookingAfter

LEMMA ClientStillSees ==
  ASSUME NEW c \in Clients, SeesToIt, UNCHANGED host,
         \A b \in Clients : b # c => client'[b] = client[b],
         client[c].cmd \in Starters /\ client[c].pc \in OnItsWay =>
           client'[c].cmd \in Starters /\ client'[c].pc \in OnItsWay
  PROVE  SeesToIt'
BY DEF SeesToIt, OnItsWay

\* A lock that is held misleads nobody only if its holder sees to the work, and then another one
\* than p, who does not hold it, may leave that to the holder.
LEMMA HolderSees ==
  ASSUME LockInv, NEW d \in Dirs, lock[d] # None, Misled(d) = {}
  PROVE  \/ lock[d] \in Hosts /\ host[lock[d]].pc \in {"claim", "recover", "up"}
         \/ lock[d] \in Clients /\ client[lock[d]].cmd \in Starters
              /\ client[lock[d]].pc \in {"held", "held_again"}
<1>1. ~Misleading(lock[d])
  BY DEF Misled
<1>2. CASE lock[d] \in Hosts
  BY <1>1, <1>2, Nobody DEF Misleading, Ending, LockInv, HeldByHolder, Holding
<1>3. CASE lock[d] \in Clients
  BY <1>1, <1>3, Nobody DEF Misleading, LockInv, HeldByHolder, WhoProbes, Probing
<1>4. QED
  BY <1>2, <1>3 DEF LockInv, ProcessesType

LEMMA StrandStarts == Init => StrandInv
<1> SUFFICES ASSUME Init, Due PROVE SeesToIt
  BY DEF StrandInv
<1>1. dir = 1 /\ (stage # "awaiting_user" \/ unread)
  BY DEF Init, Due, Task, None
<1>2. PICK h \in {None, CHOOSE g \in Hosts : TRUE} :
        /\ stage \in IF h = None THEN {"awaiting_user"} ELSE InProgress
        /\ host = [g \in Hosts |-> IF g = h THEN [pc |-> "up", dir |-> 1] ELSE [pc |-> "unborn", dir |-> None]]
  BY <1>1 DEF Init, None
<1>3. h \in Hosts
  BY <1>1, <1>2, ProcessesAssumption DEF Init
<1>4. QED
  BY <1>2, <1>3 DEF SeesToIt

\* Making a directory makes no work.
LEMMA OpenedIsNotDue ==
  ASSUME LockInv, NEW d, Opened(d), UNCHANGED <<filled, stage, unread>>
  PROVE  Due' => Due /\ dir' = dir
<1>1. CASE dir # None
  BY <1>1 DEF Opened, Due, Task
<1>2. CASE dir = None
  <2>1. dir' = made + 1 /\ filled' = filled
    BY <1>2 DEF Opened
  <2>2. dir' \notin filled'
    BY <2>1, ProcessesAssumption DEF LockInv, DirsType
  <2>3. QED
    BY <2>2 DEF Due, Task
<1>3. QED
  BY <1>1, <1>2

LEMMA HostKeepsStrand ==
  ASSUME LockInv, StrandInv, NEW h \in Hosts, HostNext(h) PROVE StrandInv'
<1> USE DEF StrandInv, LookingAfter, task
<1> SUFFICES ASSUME Due' PROVE SeesToIt' \/ blame' # {}
  OBVIOUS
<1>0. host \in [Hosts -> [pc : HostPcs, dir : Dirs \cup {None}]]
  BY DEF LockInv, ProcessesType
<1>1. CASE HostOpen(h)
  <2>1. PICK d \in Dirs :
           /\ Opened(d)
           /\ host' = [host EXCEPT ![h] = [pc |-> IF host[h].pc = "born" THEN "try" ELSE "try_again", dir |-> d]]
    BY <1>1 DEF HostOpen
  <2>2. Due
    BY <1>1, <2>1, OpenedIsNotDue DEF HostOpen
  <2>3. QED
    BY <1>0, <1>1, <2>1, <2>2, HostStillSees DEF HostOpen
<1>2. CASE HostTry(h)
  <2>1. Due /\ UNCHANGED client
    BY <1>2 DEF HostTry, Due, Task
  <2>2. CASE lock[host[h].dir] = None
    <3>1. GotoHost(h, "claim")
      BY <1>2, <2>2 DEF HostTry
    <3>2. QED
      BY <1>0, <3>1 DEF GotoHost, SeesToIt
  <2>3. CASE lock[host[h].dir] # None
    <3>1. /\ blame' = blame \cup Misled(host[h].dir)
          /\ host[h].pc \in {"try", "try_again"} /\ (GotoHost(h, "pid") \/ GotoHost(h, "gone"))
      BY <1>2, <2>3 DEF HostTry
    <3>2. SUFFICES ASSUME Misled(host[h].dir) = {} PROVE SeesToIt'
      BY <3>1
    <3>3. host[h].dir \in Dirs
      BY <1>0, <3>1 DEF LockInv, HasOpened
    <3>4. \A g \in Hosts : g # h => host'[g] = host[g]
      BY <1>0, <3>1 DEF GotoHost
    <3>5. CASE lock[host[h].dir] \in Hosts /\ host[lock[host[h].dir]].pc \in {"claim", "recover", "up"}
      BY <3>1, <3>4, <3>5 DEF SeesToIt
    <3>6. CASE lock[host[h].dir] \in Clients /\ client[lock[host[h].dir]].cmd \in Starters
                 /\ client[lock[host[h].dir]].pc \in {"held", "held_again"}
      BY <2>1, <3>6 DEF SeesToIt, Probing
    <3>7. QED
      BY <2>3, <3>2, <3>3, <3>5, <3>6, HolderSees
  <2>4. QED
    BY <2>2, <2>3
<1>3. CASE HostReadPid(h)
  <2>1. Due /\ UNCHANGED client /\ host[h].pc = "pid" /\ blame' = blame
    BY <1>3 DEF HostReadPid, Due, Task
  <2>2. \A g \in Hosts : g # h => host'[g] = host[g]
    BY <1>0, <1>3 DEF HostReadPid, GotoHost
  <2>3. QED
    BY <2>1, <2>2, HostStillSees
<1>4. CASE HostClaim(h)
  <2>1. dir # None
    BY <1>4, ProcessesAssumption DEF HostClaim, Due, Task, LockInv, DirsType, None
  <2>2. GotoHost(h, "recover")
    BY <1>4, <2>1 DEF HostClaim
  <2>3. QED
    BY <1>0, <2>2 DEF GotoHost, SeesToIt
<1>5. CASE HostRecover(h)
  <2>1. GotoHost(h, "up")
    BY <1>5 DEF HostRecover, Due, Task
  <2>2. QED
    BY <1>0, <2>1 DEF GotoHost, SeesToIt
<1>6. CASE HostTick(h)
  <2>1. host' = host
    BY <1>6 DEF HostTick, Over, Due, Task, InProgress
  <2>2. QED
    BY <1>6, <2>1 DEF HostTick, SeesToIt
<1>7. CASE HostCleanup(h)
  <2>1. Due /\ UNCHANGED client /\ host[h].pc = "leave" /\ blame' = blame
    BY <1>7 DEF HostCleanup, Due, Task
  <2>2. \A g \in Hosts : g # h => host'[g] = host[g]
    BY <1>0, <1>7 DEF HostCleanup, GotoHost
  <2>3. QED
    BY <2>1, <2>2, HostStillSees
<1>8. CASE HostRelease(h)
  <2>1. Due /\ UNCHANGED client /\ host[h].pc = "release" /\ blame' = blame
    BY <1>8 DEF HostRelease, Due, Task
  <2>2. \A g \in Hosts : g # h => host'[g] = host[g]
    BY <1>0, <1>8 DEF HostRelease, GotoHost
  <2>3. QED
    BY <2>1, <2>2, HostStillSees
<1>9. CASE HostDies(h)
  BY <1>9 DEF HostDies
<1>10. QED
  BY <1>1, <1>2, <1>3, <1>4, <1>5, <1>6, <1>7, <1>8, <1>9 DEF HostNext

LEMMA BeginKeepsStrand ==
  ASSUME LockInv, StrandInv, NEW c \in Clients, NEW cmd, NEW pc, Begin(c, cmd, pc) PROVE StrandInv'
<1>1. Due' => Due
  BY DEF Begin, Due, Task, task
<1>2. \A b \in Clients : b # c => client'[b] = client[b]
  BY DEF Begin, LockInv, ProcessesType
<1>3. client[c].pc = "idle" /\ UNCHANGED host /\ blame' = blame
  BY DEF Begin
<1>4. QED
  BY <1>1, <1>2, <1>3, ClientStillSees DEF StrandInv, OnItsWay, Probing

LEMMA ClientKeepsStrand ==
  ASSUME LockInv, StrandInv, NEW c \in Clients, ClientNext(c) PROVE StrandInv'
<1> USE DEF StrandInv, OnItsWay, task
<1>0. ProcessesType /\ client \in [Clients -> [pc : ClientPcs, cmd : Cmds, dir : Dirs \cup {None}]]
  BY DEF LockInv, ProcessesType
<1>1. CASE \/ Submit(c) \/ Answer(c) \/ Feedback(c) \/ Upload(c) \/ Run(c) \/ Pause(c) \/ Resume(c)
           \/ Done(c) \/ Cancel(c) \/ Delete(c) \/ Look(c)
  BY <1>1, BeginKeepsStrand DEF Submit, Answer, Feedback, Upload, Run, Pause, Resume, Done, Cancel, Delete, Look
<1> SUFFICES ASSUME Due' PROVE SeesToIt' \/ blame' # {}
  OBVIOUS
<1>2. CASE Create(c)
  <2>1. CASE dir = None
    <3>1. dir' = made + 1 /\ filled' = filled
      BY <1>2, <2>1 DEF Create
    <3>2. QED
      BY <3>1, ProcessesAssumption DEF Due, Task, LockInv, DirsType
  <2>2. CASE dir # None
    <3>1. Return(c) /\ Due /\ UNCHANGED host /\ client[c].pc = "create" /\ blame' = blame
      BY <1>2, <2>2 DEF Create, Due, Task
    <3>2. QED
      BY <1>0, <3>1, ClientComesBack, ClientStillSees DEF ClientTo, Probing
  <2>3. QED
    BY <2>1, <2>2
<1>3. CASE WriteManifest(c)
  <2>1. dir # None
    BY <1>3 DEF WriteManifest, Due, Task, LockInv, DirsType, None
  <2>2. client[c].cmd = "submit"
    BY <1>3 DEF WriteManifest, LockInv, WhoProbes
  <2>3. client'[c].cmd = "submit" /\ client'[c].pc \in {"open", "enqueue"}
    BY <1>0, <1>3, <2>1, <2>2 DEF WriteManifest, AfterCreate, GotoClient
  <2>4. QED
    BY <2>3 DEF SeesToIt, Probing, Starters
<1>4. CASE Enqueue(c)
  <2>1. client[c].cmd \in Starters
    BY <1>4 DEF Enqueue, LockInv, WhoProbes
  <2>2. client'[c].cmd \in Starters /\ client'[c].pc = "open"
    BY <1>0, <1>4, <2>1 DEF Enqueue, GotoClient
  <2>3. QED
    BY <2>2 DEF SeesToIt, Probing
<1>5. CASE WriteStage(c)
  <2>1. PICK d \in Dirs : Opened(d)
    BY <1>5 DEF WriteStage
  <2>2. CASE stage' = stage /\ Return(c)
    <3>1. Due
      BY <1>5, <2>1, <2>2, OpenedIsNotDue DEF WriteStage
    <3>2. QED
      BY <1>0, <1>5, <2>2, <3>1, ClientComesBack, ClientStillSees DEF WriteStage, ClientTo, Probing
  <2>3. CASE GotoClient(c, "open") /\ client[c].cmd = "resume"
    <3>1. client'[c].cmd = "resume" /\ client'[c].pc = "open"
      BY <1>0, <2>3 DEF GotoClient
    <3>2. QED
      BY <3>1 DEF SeesToIt, Probing, Starters
  <2>4. CASE stage' \in {"paused", "ended"}
    BY <2>4 DEF Due, InProgress
  <2>5. QED
    BY <1>5, <2>2, <2>3, <2>4 DEF WriteStage
<1>6. CASE Foreground(c)
  <2>1. NewHost \in Hosts /\ GotoHost(NewHost, "born")
    BY <1>6, NewHostIsUnborn DEF Foreground, Unborn
  <2>2. host'[NewHost].pc = "born"
    BY <2>1 DEF GotoHost, LockInv, ProcessesType
  <2>3. QED
    BY <2>1, <2>2 DEF SeesToIt
<1>7. CASE ProbeOpen(c)
  <2>1. PICK d \in Dirs :
          /\ Opened(d)
          /\ client' = [client EXCEPT ![c].dir = d, ![c].pc = IF @ = "open" THEN "try" ELSE "try_again"]
    BY <1>7 DEF ProbeOpen
  <2>2. Due /\ UNCHANGED host /\ blame' = blame
    BY <1>7, <2>1, OpenedIsNotDue DEF ProbeOpen
  <2>3. /\ client'[c].cmd = client[c].cmd /\ client'[c].pc \in {"try", "try_again"}
        /\ \A b \in Clients : b # c => client'[b] = client[b]
    BY <1>0, <2>1
  <2>4. QED
    BY <2>2, <2>3, ClientStillSees DEF Probing
<1>8. CASE ProbeTry(c)
  <2>1. Due /\ UNCHANGED host
    BY <1>8 DEF ProbeTry, Due, Task
  <2>2. CASE lock[client[c].dir] = None
    <3>1. /\ client[c].pc \in {"try", "try_again"} /\ blame' = blame
          /\ GotoClient(c, IF client[c].pc = "try" THEN "held" ELSE "held_again")
      BY <1>8, <2>2 DEF ProbeTry
    <3>2. /\ client'[c].cmd = client[c].cmd /\ client'[c].pc \in {"held", "held_again"}
          /\ \A b \in Clients : b # c => client'[b] = client[b]
      BY <1>0, <3>1 DEF GotoClient
    <3>3. QED
      BY <2>1, <3>1, <3>2, ClientStillSees DEF Probing
  <2>3. CASE lock[client[c].dir] # None
    <3>1. /\ blame' = blame \cup Misled(client[c].dir)
          /\ client[c].pc \in {"try", "try_again"} /\ Return(c)
      BY <1>8, <2>3 DEF ProbeTry
    <3>2. SUFFICES ASSUME Misled(client[c].dir) = {} PROVE SeesToIt'
      BY <3>1
    <3>3. client[c].dir \in Dirs
      BY <1>0, <3>1 DEF LockInv, HasOpened
    <3>4. \A b \in Clients : b # c => client'[b] = client[b]
      BY <1>0, <3>1, ClientComesBack DEF ClientTo
    <3>5. CASE lock[client[c].dir] \in Hosts /\ host[lock[client[c].dir]].pc \in {"claim", "recover", "up"}
      BY <2>1, <3>5 DEF SeesToIt
    <3>6. CASE lock[client[c].dir] \in Clients /\ client[lock[client[c].dir]].cmd \in Starters
                 /\ client[lock[client[c].dir]].pc \in {"held", "held_again"}
      BY <3>1, <3>4, <3>6 DEF SeesToIt, Probing
    <3>7. QED
      BY <2>3, <3>2, <3>3, <3>5, <3>6, HolderSees
  <2>4. QED
    BY <2>2, <2>3
<1>9. CASE ProbeRelease(c)
  <2>1. Due /\ UNCHANGED host /\ blame' = blame /\ client[c].pc \in {"held", "held_again"}
    BY <1>9 DEF ProbeRelease, Due, Task
  <2>2. \A b \in Clients : b # c => client'[b] = client[b]
    BY <1>0, <1>9 DEF ProbeRelease, GotoClient, Return
  <2>3. client[c].cmd \in Starters => client'[c].cmd \in Starters /\ client'[c].pc \in {"open_again", "spawn"}
    BY <1>0, <1>9 DEF ProbeRelease, GotoClient, Starters
  <2>4. QED
    BY <2>1, <2>2, <2>3, ClientStillSees DEF Probing
<1>10. CASE Spawn(c)
  <2>1. CASE Unborn # {} /\ GotoHost(NewHost, "born")
    <3>1. NewHost \in Hosts
      BY <2>1, NewHostIsUnborn DEF Unborn
    <3>2. host'[NewHost].pc = "born"
      BY <2>1, <3>1 DEF GotoHost, LockInv, ProcessesType
    <3>3. QED
      BY <3>1, <3>2 DEF SeesToIt
  <2>2. CASE blame' = blame \cup {"note"}
    BY <2>2
  <2>3. QED
    BY <1>10, <2>1, <2>2 DEF Spawn
<1>11. CASE Remove(c)
  BY <1>11 DEF Remove, Due, Task, LockInv, DirsType, None
<1>12. CASE ClientDies(c)
  BY <1>12 DEF ClientDies
<1>13. QED
  BY <1>1, <1>2, <1>3, <1>4, <1>5, <1>6, <1>7, <1>8, <1>9, <1>10, <1>11, <1>12 DEF ClientNext

LEMMA StrandStep == LockInv /\ StrandInv /\ [Next]_vars => StrandInv'
<1> SUFFICES ASSUME LockInv, StrandInv, [Next]_vars PROVE StrandInv'
  OBVIOUS
<1>1. CASE UNCHANGED vars
  BY <1>1 DEF vars, task, StrandInv, Due, Task, SeesToIt
<1>2. CASE Next
  BY <1>2, HostKeepsStrand, ClientKeepsStrand DEF Next
<1>3. QED
  BY <1>1, <1>2

-----------------------------------------------------------------------------
(* One directory with a task in it                                          *)

LEMMA FillStarts == Init => FillInv
<1> SUFFICES ASSUME Init PROVE FillInv
  OBVIOUS
<1>1. OneSubmit
  BY DEF Init, OneSubmit, None
<1>2. PICK h \in {None, CHOOSE g \in Hosts : TRUE} :
        /\ dir = None => h = None
        /\ host = [g \in Hosts |-> IF g = h THEN [pc |-> "up", dir |-> 1] ELSE [pc |-> "unborn", dir |-> None]]
  BY DEF Init
<1>3. /\ dir = None => \A g \in Hosts : host[g].pc = "unborn"
      /\ \A g \in Hosts : host[g].pc = "unborn" \/ (host[g].pc = "up" /\ host[g].dir = 1 /\ dir = 1)
  BY <1>2, Nobody DEF Init, None
<1>4. NothingBeforeFill
  BY <1>3 DEF Init, NothingBeforeFill, None
<1>5. WorksInFilled
  BY <1>3 DEF Init, WorksInFilled, Running, None
<1>6. QED
  BY <1>1, <1>4, <1>5 DEF FillInv

LEMMA HostKeepsFill ==
  ASSUME LockInv, FillInv, NEW h \in Hosts, HostNext(h) PROVE FillInv'
<1> USE DEF task
<1>1. UNCHANGED <<client, filled>>
  BY DEF HostNext, HostOpen, HostTry, HostReadPid, HostClaim, HostRecover, HostTick, HostCleanup,
         HostRelease, HostDies
<1>2. host[h].pc # "unborn"
  BY DEF HostNext, HostOpen, HostTry, HostReadPid, HostClaim, HostRecover, HostTick, HostCleanup,
         HostRelease, HostDies
<1>3. filled # {} /\ made \in Nat /\ made > 0 /\ \A d \in filled : d \in Nat /\ d <= made
  <2>1. made \in Nat /\ filled \subseteq 1..made
    BY ProcessesAssumption DEF LockInv, DirsType
  <2>2. PICK d \in filled : TRUE
    BY <1>2 DEF FillInv, NothingBeforeFill
  <2>3. \A e \in filled : e \in Nat /\ 1 <= e /\ e <= made
    BY <2>1
  <2>4. made > 0
    BY <2>1, <2>2, <2>3
  <2> QED BY <2>1, <2>2, <2>3, <2>4
<1>4. OneSubmit'
  BY <1>1 DEF FillInv, OneSubmit
<1>5. made' \in Nat /\ made' >= made /\ (dir' # None => dir' = made')
  BY <1>3 DEF HostNext, HostOpen, Opened, HostTry, HostReadPid, HostClaim, HostRecover, HostTick, HostCleanup,
         HostRelease, HostDies, LockInv, DirsType
<1>6. NothingBeforeFill'
  BY <1>1, <1>3, <1>5 DEF NothingBeforeFill
<1>7. host \in [Hosts -> [pc : HostPcs, dir : Dirs \cup {None}]]
  BY DEF LockInv, ProcessesType
<1>8. \A g \in Hosts : g # h => host'[g] = host[g]
  BY <1>7 DEF HostNext, HostOpen, HostTry, HostReadPid, HostClaim, HostRecover, HostTick, HostCleanup,
         HostRelease, HostDies, GotoHost
<1>9. \A g \in Hosts : host[g].dir \in Nat
  BY <1>7, ProcessesAssumption DEF Dirs, None
<1>10. host'[h].pc \notin {"unborn", "born", "gone"} =>
          host'[h].dir <= made' /\ \A d \in filled : host'[h].dir >= d
  <2>1. CASE HostOpen(h)
    <3>1. host'[h].dir = made'
      BY <1>5, <1>7, <2>1, Nobody DEF HostOpen, Opened
    <3>2. QED
      BY <1>3, <1>5, <3>1
  <2>2. CASE ~HostOpen(h)
    <3>1. host'[h].dir = host[h].dir /\ made' = made
      BY <1>7, <2>2 DEF HostNext, HostTry, HostReadPid, HostClaim, HostRecover, HostTick, HostCleanup,
         HostRelease, HostDies, GotoHost
    <3>2. host'[h].pc \notin {"gone"} => host[h].pc \notin {"unborn", "born", "gone"}
      BY <1>2, <1>7, <2>2 DEF HostNext, HostTry, HostReadPid, HostClaim, HostRecover, HostTick, HostCleanup,
         HostRelease, HostDies, GotoHost
    <3>3. QED
      BY <3>1, <3>2 DEF FillInv, WorksInFilled
  <2>3. QED
    BY <2>1, <2>2
<1>11. host'[h].pc \in {"up", "leave"} => host'[h].dir \in filled
  <2>1. CASE HostRecover(h)
    <3>1. CASE dir \in filled
      <4>1. dir = made
        BY <3>1, <1>3, ProcessesAssumption DEF LockInv, DirsType, None
      <4>2. host[h].dir = made
        BY <2>1, <3>1, <4>1, <1>3, <1>9 DEF FillInv, WorksInFilled, HostRecover
      <4>3. QED
        BY <1>7, <2>1, <3>1, <4>1, <4>2 DEF HostRecover, GotoHost
    <3>2. CASE dir \notin filled
      BY <1>7, <2>1, <3>2 DEF HostRecover, GotoHost
    <3>3. QED
      BY <3>1, <3>2
  <2>2. CASE HostTick(h) \/ HostCleanup(h)
    BY <1>7, <2>2 DEF HostTick, HostCleanup, GotoHost, FillInv, WorksInFilled, Running
  <2>3. CASE HostOpen(h) \/ HostTry(h) \/ HostReadPid(h) \/ HostClaim(h) \/ HostRelease(h) \/ HostDies(h)
    <3>1. host'[h].pc \notin {"up", "leave"}
      BY <1>7, <2>3 DEF HostOpen, HostTry, HostReadPid, HostClaim, HostRelease, HostDies, GotoHost
    <3>2. QED
      BY <3>1
  <2>4. QED
    BY <2>1, <2>2, <2>3 DEF HostNext
<1>12. WorksInFilled'
  <2>1. ASSUME NEW g \in Hosts, host'[g].pc \notin {"unborn", "born", "gone"}
        PROVE  host'[g].dir <= made' /\ \A d \in filled' : host'[g].dir >= d
    BY <1>1, <1>3, <1>5, <1>8, <1>9, <1>10, <2>1 DEF FillInv, WorksInFilled
  <2>2. ASSUME NEW g \in Hosts, Running(g)'
        PROVE  host'[g].dir \in filled'
    BY <1>1, <1>8, <1>11, <2>2 DEF FillInv, WorksInFilled, Running
  <2>3. QED
    BY <2>1, <2>2 DEF WorksInFilled
<1>13. QED
  BY <1>4, <1>6, <1>12 DEF FillInv

\* What most steps of a command are to the filled directory: it ends, or goes on as what it is.
LEMMA CommandKeepsFill ==
  ASSUME LockInv, FillInv, NEW c \in Clients, NEW pc, NEW cmd, ClientTo(c, pc, cmd),
         filled' = filled, made' \in Nat, made' >= made,
         \/ pc = "idle" /\ cmd = "none"
         \/ /\ client[c].pc \notin {"idle", "create", "manifest"} /\ pc \notin {"create", "manifest"}
            /\ cmd = client[c].cmd,
         \A h \in Hosts : host'[h] = host[h] \/ (host'[h].pc = "born" /\ filled # {})
  PROVE  FillInv'
<1>1. made \in Nat /\ \A h \in Hosts : host[h].dir \in Nat
  BY ProcessesAssumption DEF LockInv, DirsType, ProcessesType, Dirs, None
<1>2. OneSubmit'
  BY DEF FillInv, OneSubmit, ClientTo
<1>3. NothingBeforeFill'
  BY <1>1 DEF FillInv, NothingBeforeFill, ClientTo
<1>4. WorksInFilled'
  BY <1>1 DEF FillInv, WorksInFilled, Running
<1>5. QED
  BY <1>2, <1>3, <1>4 DEF FillInv

LEMMA OpeningMakes ==
  ASSUME LockInv, NEW d, Opened(d) PROVE made' \in Nat /\ made' >= made
BY ProcessesAssumption DEF Opened, LockInv, DirsType

LEMMA BeginKeepsFill ==
  ASSUME LockInv, FillInv, NEW c \in Clients, NEW cmd, NEW pc, Begin(c, cmd, pc),
         \/ pc \notin {"create", "manifest"} /\ cmd # "submit" /\ made # 0 /\ (filled # {} \/ cmd \in {"look", "delete"})
         \/ pc = "create" /\ cmd = "submit" /\ FreshId
  PROVE  FillInv'
<1> USE DEF task
<1>1. /\ UNCHANGED <<filled, made, host>>
      /\ client'[c].pc = pc /\ client'[c].cmd = cmd
      /\ \A b \in Clients : b # c => client'[b] = client[b]
  BY DEF Begin, LockInv, ProcessesType
<1>2. FreshId => filled = {}
  BY DEF FreshId, LockInv, DirsType
<1>3. OneSubmit'
  BY <1>1, <1>2 DEF FillInv, OneSubmit, FreshId
<1>4. NothingBeforeFill'
  BY <1>1 DEF FillInv, NothingBeforeFill
<1>5. WorksInFilled'
  BY <1>1 DEF FillInv, WorksInFilled, Running
<1>6. QED
  BY <1>3, <1>4, <1>5 DEF FillInv

LEMMA ClientKeepsFill ==
  ASSUME LockInv, FillInv, "same_id" \notin Commands, NEW c \in Clients, ClientNext(c) PROVE FillInv'
<1> USE DEF task
<1>0. /\ ProcessesType /\ client \in [Clients -> [pc : ClientPcs, cmd : Cmds, dir : Dirs \cup {None}]]
      /\ made \in Nat /\ filled \subseteq 1..made /\ dir \in {None, made}
      /\ (dir \in filled => filled # {} /\ made # 0) /\ (dir # None => made # 0)
  BY ProcessesAssumption DEF LockInv, ProcessesType, DirsType, None
<1>1. CASE Submit(c)
  BY <1>1, BeginKeepsFill DEF Submit
<1>2. CASE \/ Answer(c) \/ Feedback(c) \/ Upload(c) \/ Run(c) \/ Pause(c) \/ Resume(c) \/ Done(c)
           \/ Cancel(c) \/ Delete(c) \/ Look(c)
  <2>1. CASE Answer(c)
    BY <1>0, <2>1, BeginKeepsFill DEF Answer, Task
  <2>2. CASE Feedback(c)
    BY <1>0, <2>2, BeginKeepsFill DEF Feedback, Task
  <2>3. CASE Upload(c)
    BY <1>0, <2>3, BeginKeepsFill DEF Upload, Task
  <2>4. CASE Run(c)
    BY <1>0, <2>4, BeginKeepsFill DEF Run, Task
  <2>5. CASE Pause(c)
    BY <1>0, <2>5, BeginKeepsFill DEF Pause, Task
  <2>6. CASE Resume(c)
    BY <1>0, <2>6, BeginKeepsFill DEF Resume, Task
  <2>7. CASE Done(c)
    BY <1>0, <2>7, BeginKeepsFill DEF Done, Task
  <2>8. CASE Cancel(c)
    BY <1>0, <2>8, BeginKeepsFill DEF Cancel, Task
  <2>9. CASE Delete(c)
    BY <1>0, <2>9, BeginKeepsFill DEF Delete
  <2>10. CASE Look(c)
    BY <1>0, <2>10, BeginKeepsFill DEF Look
  <2>11. QED
    BY <1>2, <2>1, <2>2, <2>3, <2>4, <2>5, <2>6, <2>7, <2>8, <2>9, <2>10
<1>3. CASE Create(c)
  <2>1. CASE dir = None
    <3>1. /\ made' = made + 1 /\ UNCHANGED <<filled, host>> /\ client[c].pc = "create"
          /\ GotoClient(c, "manifest")
      BY <1>3, <2>1 DEF Create
    <3>2. ClientTo(c, "manifest", client[c].cmd)
      BY <1>0, <3>1, ClientGoes DEF ClientPcs
    <3>3. OneSubmit'
      BY <3>1, <3>2 DEF FillInv, OneSubmit, ClientTo
    <3>4. NothingBeforeFill'
      BY <1>0, <3>1, <3>2 DEF FillInv, NothingBeforeFill, ClientTo
    <3>5. \A h \in Hosts : host[h].dir \in Nat
      BY ProcessesAssumption DEF LockInv, ProcessesType, Dirs, None
    <3>6. WorksInFilled'
      <4>1. \A n \in Nat : n <= made => n <= made'
        BY <1>0, <3>1
      <4>2. QED
        BY <3>1, <3>5, <4>1 DEF FillInv, WorksInFilled, Running
    <3>7. QED
      BY <3>3, <3>4, <3>6 DEF FillInv
  <2>2. CASE dir # None
    <3>1. Return(c) /\ UNCHANGED <<made, filled, host>>
      BY <1>3, <2>2 DEF Create
    <3>2. QED
      BY <1>0, <3>1, ClientComesBack, CommandKeepsFill
  <2>3. QED
    BY <2>1, <2>2
<1>4. CASE WriteManifest(c)
  <2>1. CASE dir # None
    <3>1. client[c].pc = "manifest" /\ filled' = filled \cup {dir} /\ UNCHANGED <<made, host>>
      BY <1>4, <2>1 DEF WriteManifest
    <3>2. PICK pc \in {"open", "enqueue"} : GotoClient(c, pc)
      BY <1>4, <2>1 DEF WriteManifest, AfterCreate
    <3>3. ClientTo(c, pc, client[c].cmd)
      BY <1>0, <3>2, ClientGoes DEF ClientPcs
    <3>4. filled = {} /\ filled' = {dir} /\ client[c].cmd = "submit"
      BY <3>1 DEF FillInv, OneSubmit, LockInv, WhoProbes
    <3>5. ASSUME NEW b \in Clients, client'[b].pc \in {"create", "manifest"} PROVE FALSE
      BY <3>1, <3>3, <3>4, <3>5 DEF FillInv, OneSubmit, ClientTo, LockInv, WhoProbes
    <3>6. OneSubmit'
      BY <3>3, <3>4, <3>5 DEF FillInv, OneSubmit, ClientTo
    <3>7. NothingBeforeFill'
      BY <1>0, <2>1, <3>1, <3>4 DEF FillInv, NothingBeforeFill
    <3>8. \A h \in Hosts : host[h].pc = "unborn"
      BY <3>4 DEF FillInv, NothingBeforeFill
    <3>9. WorksInFilled'
      BY <3>1, <3>8 DEF WorksInFilled, Running
    <3>10. QED
      BY <3>6, <3>7, <3>9 DEF FillInv
  <2>2. CASE dir = None
    <3>1. Return(c) /\ UNCHANGED <<made, filled, host>>
      BY <1>4, <2>2 DEF WriteManifest
    <3>2. QED
      BY <1>0, <3>1, ClientComesBack, CommandKeepsFill
  <2>3. QED
    BY <2>1, <2>2
<1>5. CASE Enqueue(c)
  <2>1. GotoClient(c, "open") /\ UNCHANGED <<filled, host>> /\ client[c].pc = "enqueue"
    BY <1>5 DEF Enqueue
  <2>2. made' \in Nat /\ made' >= made
    BY <1>5, OpeningMakes DEF Enqueue
  <2>3. ClientTo(c, "open", client[c].cmd)
    BY <1>0, <2>1, ClientGoes DEF ClientPcs
  <2>4. QED
    BY <2>1, <2>2, <2>3, CommandKeepsFill
<1>6. CASE WriteStage(c)
  <2>1. UNCHANGED <<filled, host>> /\ client[c].pc = "stage" /\ (GotoClient(c, "open") \/ Return(c))
    BY <1>6 DEF WriteStage
  <2>2. made' \in Nat /\ made' >= made
    BY <1>6, OpeningMakes DEF WriteStage
  <2>3. ClientTo(c, "open", client[c].cmd) \/ ClientTo(c, "idle", "none")
    BY <1>0, <2>1, ClientGoes, ClientComesBack DEF ClientPcs
  <2>4. QED
    BY <2>1, <2>2, <2>3, CommandKeepsFill
<1>7. CASE Foreground(c)
  <2>1. /\ Return(c) /\ UNCHANGED <<filled, made>> /\ filled # {}
        /\ NewHost \in Hosts /\ GotoHost(NewHost, "born")
    BY <1>0, <1>7, NewHostIsUnborn DEF Foreground, Task, Unborn
  <2>2. \A h \in Hosts : host'[h] = host[h] \/ host'[h].pc = "born"
    BY <1>0, <2>1 DEF GotoHost, ProcessesType
  <2>3. QED
    BY <1>0, <2>1, <2>2, ClientComesBack, CommandKeepsFill
<1>8. CASE ProbeOpen(c)
  <2>1. PICK d \in Dirs :
          /\ Opened(d)
          /\ client' = [client EXCEPT ![c].dir = d, ![c].pc = IF @ = "open" THEN "try" ELSE "try_again"]
    BY <1>8 DEF ProbeOpen
  <2>2. UNCHANGED <<filled, host>> /\ client[c].pc \in {"open", "open_again"}
    BY <1>8 DEF ProbeOpen
  <2>3. ClientTo(c, client'[c].pc, client[c].cmd) /\ client'[c].pc \in {"try", "try_again"}
    BY <1>0, <2>1 DEF ClientTo, ClientPcs
  <2>4. QED
    BY <2>1, <2>2, <2>3, OpeningMakes, CommandKeepsFill
<1>9. CASE ProbeTry(c)
  <2>1. UNCHANGED <<filled, made, host>> /\ client[c].pc \in {"try", "try_again"}
    BY <1>9 DEF ProbeTry
  <2>2. \/ ClientTo(c, "held", client[c].cmd) \/ ClientTo(c, "held_again", client[c].cmd)
        \/ ClientTo(c, "idle", "none")
    <3>1. GotoClient(c, "held") \/ GotoClient(c, "held_again") \/ Return(c)
      BY <1>9 DEF ProbeTry
    <3>2. QED
      BY <1>0, <3>1, ClientGoes, ClientComesBack DEF ClientPcs
  <2>3. QED
    BY <1>0, <2>1, <2>2, CommandKeepsFill
<1>10. CASE ProbeRelease(c)
  <2>1. UNCHANGED <<filled, made, host>> /\ client[c].pc \in {"held", "held_again"}
    BY <1>10 DEF ProbeRelease
  <2>2. \/ ClientTo(c, "rename", client[c].cmd) \/ ClientTo(c, "open_again", client[c].cmd)
        \/ ClientTo(c, "spawn", client[c].cmd) \/ ClientTo(c, "idle", "none")
    <3>1. GotoClient(c, "rename") \/ GotoClient(c, "open_again") \/ GotoClient(c, "spawn") \/ Return(c)
      BY <1>10 DEF ProbeRelease
    <3>2. QED
      BY <1>0, <3>1, ClientGoes, ClientComesBack DEF ClientPcs
  <2>3. QED
    BY <1>0, <2>1, <2>2, CommandKeepsFill
<1>11. CASE Spawn(c)
  <2>1. Return(c) /\ filled' = filled /\ client[c].pc = "spawn"
    BY <1>11 DEF Spawn
  <2>2. filled # {}
    BY <2>1 DEF FillInv, NothingBeforeFill, LockInv, WhoProbes, Starters
  <2>3. made' \in Nat /\ made' >= made
    <3>1. (\E d \in Dirs : Opened(d)) \/ made' = made
      BY <1>11 DEF Spawn
    <3>2. QED
      BY <1>0, <3>1, OpeningMakes
  <2>4. \A h \in Hosts : host'[h] = host[h] \/ host'[h].pc = "born"
    <3>1. host' = host \/ (NewHost \in Hosts /\ GotoHost(NewHost, "born"))
      BY <1>11, NewHostIsUnborn DEF Spawn, Unborn
    <3>2. QED
      BY <1>0, <3>1 DEF GotoHost, ProcessesType
  <2>5. QED
    BY <1>0, <2>1, <2>2, <2>3, <2>4, ClientComesBack, CommandKeepsFill
<1>12. CASE Remove(c)
  <2>1. Return(c) /\ UNCHANGED <<filled, made, host>>
    BY <1>12 DEF Remove
  <2>2. QED
    BY <1>0, <2>1, ClientComesBack, CommandKeepsFill
<1>13. CASE ClientDies(c)
  <2>1. Return(c) /\ UNCHANGED <<filled, made, host>>
    BY <1>13 DEF ClientDies
  <2>2. QED
    BY <1>0, <2>1, ClientComesBack, CommandKeepsFill
<1>14. QED
  BY <1>1, <1>2, <1>3, <1>4, <1>5, <1>6, <1>7, <1>8, <1>9, <1>10, <1>11, <1>12, <1>13 DEF ClientNext

LEMMA FillStep == "same_id" \notin Commands /\ LockInv /\ FillInv /\ [Next]_vars => FillInv'
<1> SUFFICES ASSUME "same_id" \notin Commands, LockInv, FillInv, [Next]_vars PROVE FillInv'
  OBVIOUS
<1>1. CASE UNCHANGED vars
  BY <1>1 DEF vars, task, FillInv, OneSubmit, NothingBeforeFill, WorksInFilled, Running
<1>2. CASE Next
  BY <1>2, HostKeepsFill, ClientKeepsFill DEF Next
<1>3. QED
  BY <1>1, <1>2

\* Whoever is past a directory's lock holds it, and whoever holds it is there.
THEOREM LockInvariant == Spec => []LockInv
BY LockStarts, LockStep, PTL DEF Spec

\* Two hosts never work under the lock of the same directory, deleted tasks' ids used again or not
\* (main_loop.ts:57-85).
OneHostADirectory == \A g, h \in Hosts :
  Running(g) /\ Running(h) /\ host[g].dir = host[h].dir => g = h

THEOREM LockExcludes == Spec => []OneHostADirectory
<1>1. LockInv => OneHostADirectory
  BY DEF LockInv, PastLockHolds, OneHostADirectory, Running, Holding
<1>2. QED
  BY <1>1, LockInvariant, PTL

\* Where an id is used once, a host works in the one directory that ever had a manifest.
THEOREM FillInvariant == ASSUME "same_id" \notin Commands PROVE Spec => []FillInv
<1>1. LockInv /\ FillInv /\ [Next]_vars => FillInv'
  BY FillStep
<1>2. QED
  BY <1>1, FillStarts, LockInvariant, PTL DEF Spec

\* Two hosts never work on the task at a time, as long as the id of a deleted task is not used
\* again (main_loop.ts:57-85, exec.ts:740).
THEOREM HostIsOne == ASSUME "same_id" \notin Commands PROVE Spec => []OneHost
<1>1. LockInv /\ FillInv => OneHost
  <2> SUFFICES ASSUME LockInv, FillInv, NEW g \in Hosts, NEW h \in Hosts, Running(g), Running(h)
               PROVE  g = h
    BY DEF OneHost
  <2>1. host[g].dir = host[h].dir
    BY DEF FillInv, WorksInFilled, OneSubmit
  <2>2. QED
    BY <2>1 DEF LockInv, PastLockHolds, Running, Holding
<1>2. QED
  BY <1>1, LockInvariant, FillInvariant, PTL

\* Work that is due has a host, one on its way to it, or a command about to start one, unless a
\* command or a host was misled, died or told its user (cli/hostSpawn.ts:47-72).
THEOREM WorkIsSeenTo == Spec => []OnlyRacesStrand
<1>1. StrandInv => OnlyRacesStrand
  BY DEF StrandInv, OnlyRacesStrand, SeesToIt, Attended, Starting, Probing
<1>2. QED
  BY <1>1, LockInvariant, StrandStarts, StrandStep, PTL DEF Spec

\* The host is a part like the others: its own module is what MCServices extends.
LEMMA ServicesKeepTheHost == ServicesSpec => Spec
<1>1. ServicesInit => Init
  BY DEF ServicesInit
<1>2. [ServicesNext]_AllVars => [Next]_vars
  BY DEF ServicesNext, HostPart, CapsulePart, ReviewerPart, WatcherPart, DetailPart, ViewPart, CriteriaPart, AllVars
<1> QED BY <1>1, <1>2, PTL DEF ServicesSpec, Spec

\* One host at most works on the task among the services, as long as a deleted id is not made again.
THEOREM ServicesHaveOneHost == ASSUME "same_id" \notin Commands PROVE ServicesSpec => []OneHost
BY ServicesKeepTheHost, HostIsOne

\* Among the services too, whoever waits in vain for a host was misled by a race the history names.
THEOREM ServicesSeeToWork == ServicesSpec => []OnlyRacesStrand
BY ServicesKeepTheHost, WorkIsSeenTo

-----------------------------------------------------------------------------
(* The app-servers of Codex.  Two never run at once, none runs that no session *)
(* has or asks for, and no session outlives its app-server, for any number of  *)
(* sessions and of servers spawned.                                            *)

SessionPcs == {"none", "wait", "registered", "live", "closing", "ending"}
AttachedPcs == {"registered", "live"}

CapsuleTypes ==
  /\ cx_capsule \in Capsule!Servers \cup {Capsule!None} /\ cx_spawned \in 0..MaxServers
  /\ cx_conn \in [Capsule!Servers -> [state : {"unborn", "init", "up", "failed"}, exited : BOOLEAN]]
  /\ cx_process \in [Capsule!Servers -> {"unborn", "runs", "killed", "gone"}]
  /\ cx_threads \in [Capsule!Servers -> SUBSET CodexSessions]
  /\ cx_session \in [CodexSessions -> [pc : SessionPcs, on : Capsule!Servers \cup {Capsule!None}]]

\* A server whose number was not given out is nowhere.
UnbornUnused == \A k \in Capsule!Servers :
  /\ cx_conn[k].state = "unborn" <=> k > cx_spawned
  /\ cx_conn[k].state = "unborn" => cx_process[k] = "unborn" /\ ~cx_conn[k].exited /\ cx_threads[k] = {}

\* The server that runs is the one a start is given, and its connection is not over.
RunningIsShared == \A k \in Capsule!Servers :
  /\ cx_process[k] = "runs" <=> cx_capsule = k
  /\ cx_process[k] = "runs" => cx_conn[k].state \in {"init", "up"} /\ ~cx_conn[k].exited
  /\ cx_conn[k].state = "init" => cx_process[k] \in {"runs", "gone"}
  /\ cx_conn[k].state \in {"init", "up"} /\ ~cx_conn[k].exited => cx_process[k] = "runs"

\* A handshake that failed leaves no process once another server was started.
FailedAreGone ==
  cx_capsule # Capsule!None =>
    \A k \in Capsule!Servers : cx_conn[k].state = "failed" => cx_process[k] = "gone"

\* Who is attached is a thread of a connection that is not over, and the threads are those.
ThreadsAreAttached ==
  /\ \A s \in CodexSessions : cx_session[s].pc \in AttachedPcs =>
       s \in cx_threads[cx_session[s].on] /\ ~cx_conn[cx_session[s].on].exited
  /\ \A k \in Capsule!Servers : \A s \in cx_threads[k] : cx_session[s].on = k /\ cx_session[s].pc \in AttachedPcs

\* What a session's place says of its connection.
SessionsArePlaced == \A s \in CodexSessions :
  /\ cx_session[s].pc = "none" <=> cx_session[s].on = Capsule!None
  /\ cx_session[s].pc \in AttachedPcs \cup {"closing", "ending"} => cx_conn[cx_session[s].on].state = "up"
  /\ cx_session[s].pc = "ending" => cx_conn[cx_session[s].on].exited
  /\ cx_session[s].pc = "wait" => cx_conn[cx_session[s].on].state \in {"init", "up"}

ServersAreWanted == \A k \in Capsule!Servers :
  cx_process[k] = "runs" => \E s \in CodexSessions : cx_session[s].on = k

CapsuleInv ==
  /\ CapsuleTypes /\ UnbornUnused /\ RunningIsShared /\ FailedAreGone
  /\ ThreadsAreAttached /\ SessionsArePlaced /\ ServersAreWanted

-----------------------------------------------------------------------------
(* The first state, and each step                                            *)

LEMMA CapsuleStarts == ASSUME MaxServers \in Nat, Capsule!Init PROVE CapsuleInv
BY DEF Capsule!Init, CapsuleInv, CapsuleTypes, UnbornUnused, RunningIsShared, FailedAreGone, ThreadsAreAttached,
       SessionsArePlaced, ServersAreWanted, Capsule!Servers, Capsule!None, SessionPcs, AttachedPcs

LEMMA ServerStartKeeps ==
  ASSUME MaxServers \in Nat, CapsuleInv, NEW s \in CodexSessions, Capsule!Start(s)
  PROVE  CapsuleInv'
<1>1. cx_session[s].pc = "none" /\ cx_threads' = cx_threads
  BY DEF Capsule!Start
<1>2. CASE Capsule!Shared
  <2>1. cx_session' = [cx_session EXCEPT ![s] = [pc |-> "wait", on |-> cx_capsule]]
    BY <1>2 DEF Capsule!Start, Capsule!At
  <2>2. cx_capsule' = cx_capsule /\ cx_conn' = cx_conn /\ cx_process' = cx_process /\ cx_spawned' = cx_spawned
    BY <1>2 DEF Capsule!Start
  <2>3. cx_capsule \in Capsule!Servers /\ cx_conn[cx_capsule].state \in {"init", "up"}
    BY <1>2 DEF Capsule!Shared, CapsuleInv, CapsuleTypes, UnbornUnused, RunningIsShared, FailedAreGone,
           ThreadsAreAttached, SessionsArePlaced, ServersAreWanted, Capsule!Servers, Capsule!None, SessionPcs,
           AttachedPcs
  <2>4. CapsuleTypes'
    BY <1>1, <2>1, <2>2, <2>3 DEF CapsuleInv, CapsuleTypes, SessionsArePlaced, Capsule!Servers, Capsule!None,
       SessionPcs
  <2>5. UnbornUnused'
    BY <1>1, <2>1, <2>2, <2>3 DEF CapsuleInv, CapsuleTypes, UnbornUnused, Capsule!Servers
  <2>6. RunningIsShared'
    BY <1>1, <2>1, <2>2, <2>3 DEF CapsuleInv, CapsuleTypes, RunningIsShared, Capsule!None
  <2>7. FailedAreGone'
    BY <1>1, <2>1, <2>2, <2>3 DEF CapsuleInv, CapsuleTypes, RunningIsShared, FailedAreGone, Capsule!None
  <2>8. ThreadsAreAttached'
    BY <1>1, <2>1, <2>2, <2>3 DEF CapsuleInv, CapsuleTypes, ThreadsAreAttached, AttachedPcs
  <2>9. SessionsArePlaced'
    BY <1>1, <2>1, <2>2, <2>3 DEF AttachedPcs, CapsuleInv, CapsuleTypes, UnbornUnused, RunningIsShared,
           FailedAreGone, ThreadsAreAttached, SessionsArePlaced, ServersAreWanted, Capsule!Servers, Capsule!None,
           SessionPcs, AttachedPcs
  <2>10. ServersAreWanted'
    BY <1>1, <2>1, <2>2, <2>3 DEF CapsuleInv, CapsuleTypes, RunningIsShared, ServersAreWanted
  <2> QED BY <2>4, <2>5, <2>6, <2>7, <2>8, <2>9, <2>10 DEF CapsuleInv
<1>3. CASE ~Capsule!Shared
  <2> DEFINE n == cx_spawned + 1
  <2>1. cx_capsule = Capsule!None /\ n \in Capsule!Servers /\ cx_spawned \in Nat
    BY <1>3 DEF Capsule!Start, Capsule!Shared, CapsuleInv, CapsuleTypes, UnbornUnused, RunningIsShared, FailedAreGone,
           ThreadsAreAttached, SessionsArePlaced, ServersAreWanted, Capsule!Servers, Capsule!None, SessionPcs,
           AttachedPcs
  <2>2. cx_session' = [cx_session EXCEPT ![s] = [pc |-> "wait", on |-> n]]
    BY <1>3 DEF Capsule!Start, Capsule!At
  <2>3. /\ cx_spawned' = n /\ cx_capsule' = n /\ cx_process' = [cx_process EXCEPT ![n] = "runs"]
        /\ cx_conn' = [cx_conn EXCEPT ![n].state = "init"]
    BY <1>3 DEF Capsule!Start
  <2>4. \A k \in Capsule!Servers : cx_conn[k].state = "failed" => cx_process[k] = "gone"
    BY DEF Capsule!Start
  <2>5. cx_conn[n] \in [state : {"unborn", "init", "up", "failed"}, exited : BOOLEAN]
    BY <2>1 DEF CapsuleInv, CapsuleTypes
  <2>6. /\ cx_conn[n].state = "unborn" /\ cx_process[n] = "unborn" /\ ~cx_conn[n].exited /\ cx_threads[n] = {}
        /\ \A k \in Capsule!Servers : k # n /\ k > cx_spawned <=> k > n
    BY <2>1 DEF CapsuleInv, UnbornUnused, Capsule!Servers
  <2>7. n \in Nat /\ n # Capsule!None
    BY <2>1 DEF Capsule!None
  <2> HIDE DEF n
  <2>8. CapsuleTypes'
    <3>1. /\ cx_spawned' \in 0..MaxServers /\ cx_capsule' \in Capsule!Servers \cup {Capsule!None}
          /\ cx_threads' = cx_threads
      BY <1>1, <2>1, <2>3, <2>7 DEF Capsule!Servers
    <3>2. cx_conn' \in [Capsule!Servers -> [state : {"unborn", "init", "up", "failed"}, exited : BOOLEAN]]
      BY <2>1, <2>3, <2>5 DEF CapsuleInv, CapsuleTypes
    <3>3. cx_process' \in [Capsule!Servers -> {"unborn", "runs", "killed", "gone"}]
      BY <2>1, <2>3 DEF CapsuleInv, CapsuleTypes
    <3>4. cx_session' \in [CodexSessions -> [pc : SessionPcs, on : Capsule!Servers \cup {Capsule!None}]]
      BY <2>1, <2>2 DEF CapsuleInv, CapsuleTypes, SessionPcs
    <3> QED BY <3>1, <3>2, <3>3, <3>4 DEF CapsuleInv, CapsuleTypes
  <2>9. UnbornUnused'
    BY <1>1, <2>1, <2>2, <2>3, <2>4, <2>5, <2>6, <2>7 DEF CapsuleInv, CapsuleTypes, UnbornUnused, Capsule!Servers
  <2>10. RunningIsShared'
    BY <1>1, <2>1, <2>2, <2>3, <2>4, <2>5, <2>6, <2>7 DEF AttachedPcs, CapsuleInv, CapsuleTypes, UnbornUnused,
           RunningIsShared, FailedAreGone, ThreadsAreAttached, SessionsArePlaced, ServersAreWanted, Capsule!Servers,
           Capsule!None, SessionPcs,
           AttachedPcs
  <2>11. FailedAreGone'
    BY <1>1, <2>1, <2>2, <2>3, <2>4, <2>5, <2>6, <2>7 DEF CapsuleInv, CapsuleTypes, RunningIsShared,
           FailedAreGone, Capsule!None
  <2>12. ThreadsAreAttached'
    BY <1>1, <2>1, <2>2, <2>3, <2>4, <2>5, <2>6, <2>7 DEF CapsuleInv, CapsuleTypes, ThreadsAreAttached, AttachedPcs
  <2>13. SessionsArePlaced'
    BY <1>1, <2>1, <2>2, <2>3, <2>4, <2>5, <2>6, <2>7 DEF CapsuleInv, CapsuleTypes, SessionsArePlaced, SessionPcs,
       Capsule!None, AttachedPcs
  <2>14. ServersAreWanted'
    BY <1>1, <2>1, <2>2, <2>3, <2>4, <2>5, <2>6, <2>7 DEF AttachedPcs, CapsuleInv, CapsuleTypes, UnbornUnused,
           RunningIsShared, FailedAreGone, ThreadsAreAttached, SessionsArePlaced, ServersAreWanted, Capsule!Servers,
           Capsule!None, SessionPcs,
           AttachedPcs
  <2> QED BY <2>8, <2>9, <2>10, <2>11, <2>12, <2>13, <2>14 DEF CapsuleInv
<1> QED BY <1>2, <1>3

LEMMA ServerInitOkKeeps ==
  ASSUME MaxServers \in Nat, CapsuleInv, NEW k \in Capsule!Servers, Capsule!InitOk(k)
  PROVE  CapsuleInv'
<1>1. CapsuleTypes'
  BY DEF Capsule!InitOk, CapsuleInv, CapsuleTypes, SessionsArePlaced, Capsule!Servers, Capsule!None, SessionPcs
<1>2. UnbornUnused'
  BY DEF Capsule!InitOk, CapsuleInv, CapsuleTypes, UnbornUnused, Capsule!Servers
<1>3. RunningIsShared'
  BY DEF Capsule!InitOk, CapsuleInv, CapsuleTypes, RunningIsShared, Capsule!None
<1>4. FailedAreGone'
  BY DEF Capsule!InitOk, CapsuleInv, CapsuleTypes, RunningIsShared, FailedAreGone, Capsule!None
<1>5. ThreadsAreAttached'
  BY DEF Capsule!InitOk, CapsuleInv, CapsuleTypes, ThreadsAreAttached, AttachedPcs
<1>6. SessionsArePlaced'
  BY DEF Capsule!InitOk, CapsuleInv, CapsuleTypes, SessionsArePlaced, SessionPcs, Capsule!None, AttachedPcs
<1>7. ServersAreWanted'
  BY DEF Capsule!InitOk, CapsuleInv, CapsuleTypes, RunningIsShared, ServersAreWanted
<1> QED BY <1>1, <1>2, <1>3, <1>4, <1>5, <1>6, <1>7 DEF CapsuleInv

LEMMA ServerInitFailsKeeps ==
  ASSUME MaxServers \in Nat, CapsuleInv, NEW k \in Capsule!Servers, Capsule!InitFails(k)
  PROVE  CapsuleInv'
<1>1. CapsuleTypes'
  BY DEF Capsule!InitFails, CapsuleInv, CapsuleTypes, SessionsArePlaced, Capsule!Servers, Capsule!None, SessionPcs
<1>2. UnbornUnused'
  BY DEF Capsule!InitFails, CapsuleInv, CapsuleTypes, UnbornUnused, Capsule!Servers
<1>3. RunningIsShared'
  BY DEF Capsule!InitFails, CapsuleInv, CapsuleTypes, UnbornUnused, RunningIsShared, FailedAreGone,
         ThreadsAreAttached, SessionsArePlaced, ServersAreWanted, Capsule!Servers, Capsule!None, SessionPcs,
         AttachedPcs
<1>4. FailedAreGone'
  BY DEF Capsule!InitFails, CapsuleInv, CapsuleTypes, RunningIsShared, FailedAreGone, Capsule!None
<1>5. ThreadsAreAttached'
  BY DEF Capsule!InitFails, CapsuleInv, CapsuleTypes, UnbornUnused, RunningIsShared, FailedAreGone,
         ThreadsAreAttached, SessionsArePlaced, ServersAreWanted, Capsule!Servers, Capsule!None, SessionPcs,
         AttachedPcs
<1>6. SessionsArePlaced'
  BY DEF Capsule!InitFails, CapsuleInv, CapsuleTypes, SessionsArePlaced, SessionPcs, Capsule!None, AttachedPcs
<1>7. ServersAreWanted'
  BY DEF Capsule!InitFails, CapsuleInv, CapsuleTypes, RunningIsShared, ServersAreWanted
<1> QED BY <1>1, <1>2, <1>3, <1>4, <1>5, <1>6, <1>7 DEF CapsuleInv

LEMMA ServerThreadStartsKeeps ==
  ASSUME MaxServers \in Nat, CapsuleInv, NEW s \in CodexSessions, Capsule!ThreadStarts(s)
  PROVE  CapsuleInv'
<1>1. CapsuleTypes'
  BY DEF Capsule!ThreadStarts, Capsule!At, CapsuleInv, CapsuleTypes, SessionsArePlaced, Capsule!Servers,
     Capsule!None, SessionPcs
<1>2. UnbornUnused'
  BY DEF Capsule!ThreadStarts, Capsule!At, CapsuleInv, CapsuleTypes, UnbornUnused, Capsule!Servers
<1>3. RunningIsShared'
  BY DEF Capsule!ThreadStarts, Capsule!At, CapsuleInv, CapsuleTypes, RunningIsShared, Capsule!None
<1>4. FailedAreGone'
  BY DEF Capsule!ThreadStarts, Capsule!At, CapsuleInv, CapsuleTypes, RunningIsShared, FailedAreGone, Capsule!None
<1>5. ThreadsAreAttached'
  BY DEF Capsule!ThreadStarts, Capsule!At, CapsuleInv, CapsuleTypes, UnbornUnused, RunningIsShared, FailedAreGone,
         ThreadsAreAttached, SessionsArePlaced, ServersAreWanted, Capsule!Servers, Capsule!None, SessionPcs,
         AttachedPcs
<1>6. SessionsArePlaced'
  BY DEF Capsule!ThreadStarts, Capsule!At, CapsuleInv, CapsuleTypes, SessionsArePlaced, SessionPcs, Capsule!None,
     AttachedPcs
<1>7. ServersAreWanted'
  BY DEF Capsule!ThreadStarts, Capsule!At, CapsuleInv, CapsuleTypes, RunningIsShared, ServersAreWanted
<1> QED BY <1>1, <1>2, <1>3, <1>4, <1>5, <1>6, <1>7 DEF CapsuleInv

LEMMA ServerStartedKeeps ==
  ASSUME MaxServers \in Nat, CapsuleInv, NEW s \in CodexSessions, Capsule!Started(s)
  PROVE  CapsuleInv'
<1>1. CapsuleTypes'
  BY DEF Capsule!Started, Capsule!At, CapsuleInv, CapsuleTypes, SessionsArePlaced, Capsule!Servers, Capsule!None,
     SessionPcs
<1>2. UnbornUnused'
  BY DEF Capsule!Started, Capsule!At, CapsuleInv, CapsuleTypes, UnbornUnused, Capsule!Servers
<1>3. RunningIsShared'
  BY DEF Capsule!Started, Capsule!At, CapsuleInv, CapsuleTypes, RunningIsShared, Capsule!None
<1>4. FailedAreGone'
  BY DEF Capsule!Started, Capsule!At, CapsuleInv, CapsuleTypes, RunningIsShared, FailedAreGone, Capsule!None
<1>5. ThreadsAreAttached'
  BY DEF Capsule!Started, Capsule!At, CapsuleInv, CapsuleTypes, ThreadsAreAttached, AttachedPcs
<1>6. SessionsArePlaced'
  BY DEF Capsule!Started, Capsule!At, CapsuleInv, CapsuleTypes, SessionsArePlaced, SessionPcs, Capsule!None,
     AttachedPcs
<1>7. ServersAreWanted'
  BY DEF Capsule!Started, Capsule!At, CapsuleInv, CapsuleTypes, RunningIsShared, ServersAreWanted
<1> QED BY <1>1, <1>2, <1>3, <1>4, <1>5, <1>6, <1>7 DEF CapsuleInv

LEMMA ServerStartFailsKeeps ==
  ASSUME MaxServers \in Nat, CapsuleInv, NEW s \in CodexSessions, Capsule!StartFails(s)
  PROVE  CapsuleInv'
<1> DEFINE k == cx_session[s].on
<1>1. k \in Capsule!Servers /\ cx_conn[k].state = "up" /\ cx_session[s].pc = "wait"
  BY DEF Capsule!StartFails, CapsuleInv, CapsuleTypes, UnbornUnused, RunningIsShared, FailedAreGone,
         ThreadsAreAttached, SessionsArePlaced, ServersAreWanted, Capsule!Servers, Capsule!None, SessionPcs,
         AttachedPcs
<1>2. /\ cx_session' = [cx_session EXCEPT ![s] = [pc |-> "none", on |-> Capsule!None]] /\ cx_threads' = cx_threads
      /\ cx_spawned' = cx_spawned
  BY DEF Capsule!StartFails, Capsule!At
<1>3. s \notin cx_threads[k]
  BY <1>1 DEF CapsuleInv, ThreadsAreAttached, AttachedPcs
<1>4. CASE cx_threads[k] = {} /\ ~cx_conn[k].exited
  <2>1. /\ cx_process[k] = "runs" /\ cx_capsule = k
        /\ cx_conn[k] \in [state : {"unborn", "init", "up", "failed"}, exited : BOOLEAN]
    BY <1>1, <1>4 DEF CapsuleInv, RunningIsShared, CapsuleTypes
  <2>2. /\ cx_conn' = [cx_conn EXCEPT ![k].exited = TRUE] /\ cx_process' = [cx_process EXCEPT ![k] = "killed"]
        /\ cx_capsule' = Capsule!None
    BY <1>4 DEF Capsule!StartFails, Capsule!Rollback, Capsule!Shutdown
  <2> HIDE DEF k
  <2>3. CapsuleTypes'
    BY <1>1, <1>2, <1>3, <1>4, <2>1, <2>2 DEF CapsuleInv, CapsuleTypes, SessionsArePlaced, Capsule!Servers,
       Capsule!None, SessionPcs
  <2>4. UnbornUnused'
    BY <1>1, <1>2, <1>3, <1>4, <2>1, <2>2 DEF CapsuleInv, CapsuleTypes, UnbornUnused, Capsule!Servers
  <2>5. RunningIsShared'
    BY <1>1, <1>2, <1>3, <1>4, <2>1, <2>2 DEF AttachedPcs, CapsuleInv, CapsuleTypes, UnbornUnused,
           RunningIsShared, FailedAreGone, ThreadsAreAttached, SessionsArePlaced, ServersAreWanted, Capsule!Servers,
           Capsule!None, SessionPcs,
           AttachedPcs
  <2>6. FailedAreGone'
    BY <1>1, <1>2, <1>3, <1>4, <2>1, <2>2 DEF CapsuleInv, CapsuleTypes, RunningIsShared, FailedAreGone, Capsule!None
  <2>7. ThreadsAreAttached'
    BY <1>1, <1>2, <1>3, <1>4, <2>1, <2>2 DEF CapsuleInv, CapsuleTypes, ThreadsAreAttached, AttachedPcs
  <2>8. SessionsArePlaced'
    BY <1>1, <1>2, <1>3, <1>4, <2>1, <2>2 DEF CapsuleInv, CapsuleTypes, SessionsArePlaced, SessionPcs, Capsule!None,
       AttachedPcs
  <2>9. ServersAreWanted'
    BY <1>1, <1>2, <1>3, <1>4, <2>1, <2>2 DEF CapsuleInv, CapsuleTypes, RunningIsShared, ServersAreWanted
  <2> QED BY <2>3, <2>4, <2>5, <2>6, <2>7, <2>8, <2>9 DEF CapsuleInv
<1>5. CASE ~(cx_threads[k] = {} /\ ~cx_conn[k].exited)
  <2>1. cx_conn' = cx_conn /\ cx_process' = cx_process /\ cx_capsule' = cx_capsule
    BY <1>5 DEF Capsule!StartFails, Capsule!Rollback, Capsule!Shutdown
  <2>2. ASSUME cx_conn[k].exited PROVE cx_process[k] # "runs"
    BY <1>1, <2>2 DEF CapsuleInv, RunningIsShared
  <2> HIDE DEF k
  <2>3. CapsuleTypes'
    BY <1>1, <1>2, <1>3, <1>5, <2>1, <2>2 DEF CapsuleInv, CapsuleTypes, SessionsArePlaced, Capsule!Servers,
       Capsule!None, SessionPcs
  <2>4. UnbornUnused'
    BY <1>1, <1>2, <1>3, <1>5, <2>1, <2>2 DEF CapsuleInv, CapsuleTypes, UnbornUnused, Capsule!Servers
  <2>5. RunningIsShared'
    BY <1>1, <1>2, <1>3, <1>5, <2>1, <2>2 DEF CapsuleInv, CapsuleTypes, RunningIsShared, Capsule!None
  <2>6. FailedAreGone'
    BY <1>1, <1>2, <1>3, <1>5, <2>1, <2>2 DEF CapsuleInv, CapsuleTypes, RunningIsShared, FailedAreGone, Capsule!None
  <2>7. ThreadsAreAttached'
    BY <1>1, <1>2, <1>3, <1>5, <2>1, <2>2 DEF CapsuleInv, CapsuleTypes, ThreadsAreAttached, AttachedPcs
  <2>8. SessionsArePlaced'
    BY <1>1, <1>2, <1>3, <1>5, <2>1, <2>2 DEF CapsuleInv, CapsuleTypes, SessionsArePlaced, SessionPcs, Capsule!None,
       AttachedPcs
  <2>9. ServersAreWanted'
    <3> SUFFICES ASSUME NEW j \in Capsule!Servers, cx_process[j] = "runs"
                 PROVE  \E t \in CodexSessions : cx_session'[t].on = j
      BY <2>1 DEF ServersAreWanted
    <3>1. CASE j = k
      <4>1. PICK t \in cx_threads[k] : TRUE
        BY <1>5, <2>2, <3>1
      <4>2. t \in CodexSessions /\ t # s /\ cx_session[t].on = k
        BY <1>1, <1>3, <4>1 DEF CapsuleInv, CapsuleTypes, ThreadsAreAttached
      <4>3. cx_session'[t].on = k
        BY <1>2, <4>2 DEF CapsuleInv, CapsuleTypes
      <4> QED BY <3>1, <4>2, <4>3
    <3>2. CASE j # k
      <4>1. PICK t \in CodexSessions : cx_session[t].on = j
        BY DEF CapsuleInv, ServersAreWanted
      <4>2. t # s
        BY <3>2, <4>1 DEF k
      <4> QED BY <1>2, <4>1, <4>2 DEF CapsuleInv, CapsuleTypes
    <3> QED BY <3>1, <3>2
  <2> QED BY <2>3, <2>4, <2>5, <2>6, <2>7, <2>8, <2>9 DEF CapsuleInv
<1> QED BY <1>4, <1>5

LEMMA ServerCloseKeeps ==
  ASSUME MaxServers \in Nat, CapsuleInv, NEW s \in CodexSessions, Capsule!Close(s)
  PROVE  CapsuleInv'
<1>1. CapsuleTypes'
  BY DEF Capsule!Close, Capsule!At, CapsuleInv, CapsuleTypes, SessionsArePlaced, Capsule!Servers, Capsule!None,
     SessionPcs
<1>2. UnbornUnused'
  BY DEF Capsule!Close, Capsule!At, CapsuleInv, CapsuleTypes, UnbornUnused, Capsule!Servers
<1>3. RunningIsShared'
  BY DEF Capsule!Close, Capsule!At, CapsuleInv, CapsuleTypes, RunningIsShared, Capsule!None
<1>4. FailedAreGone'
  BY DEF Capsule!Close, Capsule!At, CapsuleInv, CapsuleTypes, RunningIsShared, FailedAreGone, Capsule!None
<1>5. ThreadsAreAttached'
  BY DEF Capsule!Close, Capsule!At, CapsuleInv, CapsuleTypes, ThreadsAreAttached, AttachedPcs
<1>6. SessionsArePlaced'
  BY DEF Capsule!Close, Capsule!At, CapsuleInv, CapsuleTypes, SessionsArePlaced, SessionPcs, Capsule!None, AttachedPcs
<1>7. ServersAreWanted'
  BY DEF Capsule!Close, Capsule!At, CapsuleInv, CapsuleTypes, RunningIsShared, ServersAreWanted
<1> QED BY <1>1, <1>2, <1>3, <1>4, <1>5, <1>6, <1>7 DEF CapsuleInv

LEMMA ServerClosedKeeps ==
  ASSUME MaxServers \in Nat, CapsuleInv, NEW s \in CodexSessions, Capsule!Closed(s)
  PROVE  CapsuleInv'
<1> DEFINE k == cx_session[s].on
<1>1. k \in Capsule!Servers /\ cx_conn[k].state = "up" /\ cx_session[s].pc = "closing"
  BY DEF Capsule!Closed, CapsuleInv, CapsuleTypes, UnbornUnused, RunningIsShared, FailedAreGone, ThreadsAreAttached,
         SessionsArePlaced, ServersAreWanted, Capsule!Servers, Capsule!None, SessionPcs, AttachedPcs
<1>2. /\ cx_session' = [cx_session EXCEPT ![s] = [pc |-> "none", on |-> Capsule!None]] /\ cx_threads' = cx_threads
      /\ cx_spawned' = cx_spawned
  BY DEF Capsule!Closed, Capsule!At
<1>3. s \notin cx_threads[k]
  BY <1>1 DEF CapsuleInv, ThreadsAreAttached, AttachedPcs
<1>4. CASE cx_threads[k] = {} /\ ~cx_conn[k].exited
  <2>1. /\ cx_process[k] = "runs" /\ cx_capsule = k
        /\ cx_conn[k] \in [state : {"unborn", "init", "up", "failed"}, exited : BOOLEAN]
    BY <1>1, <1>4 DEF CapsuleInv, RunningIsShared, CapsuleTypes
  <2>2. /\ cx_conn' = [cx_conn EXCEPT ![k].exited = TRUE] /\ cx_process' = [cx_process EXCEPT ![k] = "killed"]
        /\ cx_capsule' = Capsule!None
    BY <1>4 DEF Capsule!Closed, Capsule!Shutdown
  <2> HIDE DEF k
  <2>3. CapsuleTypes'
    BY <1>1, <1>2, <1>3, <1>4, <2>1, <2>2 DEF CapsuleInv, CapsuleTypes, SessionsArePlaced, Capsule!Servers,
       Capsule!None, SessionPcs
  <2>4. UnbornUnused'
    BY <1>1, <1>2, <1>3, <1>4, <2>1, <2>2 DEF CapsuleInv, CapsuleTypes, UnbornUnused, Capsule!Servers
  <2>5. RunningIsShared'
    BY <1>1, <1>2, <1>3, <1>4, <2>1, <2>2 DEF AttachedPcs, CapsuleInv, CapsuleTypes, UnbornUnused,
           RunningIsShared, FailedAreGone, ThreadsAreAttached, SessionsArePlaced, ServersAreWanted, Capsule!Servers,
           Capsule!None, SessionPcs,
           AttachedPcs
  <2>6. FailedAreGone'
    BY <1>1, <1>2, <1>3, <1>4, <2>1, <2>2 DEF CapsuleInv, CapsuleTypes, RunningIsShared, FailedAreGone, Capsule!None
  <2>7. ThreadsAreAttached'
    BY <1>1, <1>2, <1>3, <1>4, <2>1, <2>2 DEF CapsuleInv, CapsuleTypes, ThreadsAreAttached, AttachedPcs
  <2>8. SessionsArePlaced'
    BY <1>1, <1>2, <1>3, <1>4, <2>1, <2>2 DEF CapsuleInv, CapsuleTypes, SessionsArePlaced, SessionPcs, Capsule!None,
       AttachedPcs
  <2>9. ServersAreWanted'
    BY <1>1, <1>2, <1>3, <1>4, <2>1, <2>2 DEF CapsuleInv, CapsuleTypes, RunningIsShared, ServersAreWanted
  <2> QED BY <2>3, <2>4, <2>5, <2>6, <2>7, <2>8, <2>9 DEF CapsuleInv
<1>5. CASE ~(cx_threads[k] = {} /\ ~cx_conn[k].exited)
  <2>1. cx_conn' = cx_conn /\ cx_process' = cx_process /\ cx_capsule' = cx_capsule
    BY <1>5 DEF Capsule!Closed, Capsule!Shutdown
  <2>2. ASSUME cx_conn[k].exited PROVE cx_process[k] # "runs"
    BY <1>1, <2>2 DEF CapsuleInv, RunningIsShared
  <2> HIDE DEF k
  <2>3. CapsuleTypes'
    BY <1>1, <1>2, <1>3, <1>5, <2>1, <2>2 DEF CapsuleInv, CapsuleTypes, SessionsArePlaced, Capsule!Servers,
       Capsule!None, SessionPcs
  <2>4. UnbornUnused'
    BY <1>1, <1>2, <1>3, <1>5, <2>1, <2>2 DEF CapsuleInv, CapsuleTypes, UnbornUnused, Capsule!Servers
  <2>5. RunningIsShared'
    BY <1>1, <1>2, <1>3, <1>5, <2>1, <2>2 DEF CapsuleInv, CapsuleTypes, RunningIsShared, Capsule!None
  <2>6. FailedAreGone'
    BY <1>1, <1>2, <1>3, <1>5, <2>1, <2>2 DEF CapsuleInv, CapsuleTypes, RunningIsShared, FailedAreGone, Capsule!None
  <2>7. ThreadsAreAttached'
    BY <1>1, <1>2, <1>3, <1>5, <2>1, <2>2 DEF CapsuleInv, CapsuleTypes, ThreadsAreAttached, AttachedPcs
  <2>8. SessionsArePlaced'
    BY <1>1, <1>2, <1>3, <1>5, <2>1, <2>2 DEF CapsuleInv, CapsuleTypes, SessionsArePlaced, SessionPcs, Capsule!None,
       AttachedPcs
  <2>9. ServersAreWanted'
    <3> SUFFICES ASSUME NEW j \in Capsule!Servers, cx_process[j] = "runs"
                 PROVE  \E t \in CodexSessions : cx_session'[t].on = j
      BY <2>1 DEF ServersAreWanted
    <3>1. CASE j = k
      <4>1. PICK t \in cx_threads[k] : TRUE
        BY <1>5, <2>2, <3>1
      <4>2. t \in CodexSessions /\ t # s /\ cx_session[t].on = k
        BY <1>1, <1>3, <4>1 DEF CapsuleInv, CapsuleTypes, ThreadsAreAttached
      <4>3. cx_session'[t].on = k
        BY <1>2, <4>2 DEF CapsuleInv, CapsuleTypes
      <4> QED BY <3>1, <4>2, <4>3
    <3>2. CASE j # k
      <4>1. PICK t \in CodexSessions : cx_session[t].on = j
        BY DEF CapsuleInv, ServersAreWanted
      <4>2. t # s
        BY <3>2, <4>1 DEF k
      <4> QED BY <1>2, <4>1, <4>2 DEF CapsuleInv, CapsuleTypes
    <3> QED BY <3>1, <3>2
  <2> QED BY <2>3, <2>4, <2>5, <2>6, <2>7, <2>8, <2>9 DEF CapsuleInv
<1> QED BY <1>4, <1>5

LEMMA ServerForceCloseKeeps ==
  ASSUME MaxServers \in Nat, CapsuleInv, NEW s \in CodexSessions, Capsule!ForceClose(s)
  PROVE  CapsuleInv'
<1>1. CapsuleTypes'
  <2>1. cx_session' \in [CodexSessions -> [pc : SessionPcs, on : Capsule!Servers \cup {Capsule!None}]]
    <3>1. \E gone \in SUBSET CodexSessions : cx_session' =
            [t \in CodexSessions |-> IF t \in gone THEN [cx_session[t] EXCEPT !.pc = "ending"] ELSE cx_session[t]]
      BY DEF Capsule!ForceClose, Capsule!Cascade, Capsule!Siblings, CapsuleInv, CapsuleTypes, SessionsArePlaced,
         AttachedPcs, Capsule!None
    <3>2. \A t \in CodexSessions :
            [cx_session[t] EXCEPT !.pc = "ending"] \in [pc : SessionPcs, on : Capsule!Servers \cup {Capsule!None}]
      BY DEF CapsuleInv, CapsuleTypes, SessionPcs
    <3> QED BY <3>1, <3>2 DEF CapsuleInv, CapsuleTypes
  <2>2. cx_conn' \in [Capsule!Servers -> [state : {"unborn", "init", "up", "failed"}, exited : BOOLEAN]]
    BY DEF Capsule!ForceClose, Capsule!Cascade, Capsule!Siblings, CapsuleInv, CapsuleTypes, SessionsArePlaced,
       AttachedPcs, Capsule!None
  <2>3. /\ cx_process' \in [Capsule!Servers -> {"unborn", "runs", "killed", "gone"}]
        /\ cx_threads' \in [Capsule!Servers -> SUBSET CodexSessions]
    BY DEF Capsule!ForceClose, Capsule!Cascade, Capsule!Siblings, CapsuleInv, CapsuleTypes
  <2>4. cx_capsule' \in Capsule!Servers \cup {Capsule!None} /\ cx_spawned' \in 0..MaxServers
    BY DEF Capsule!ForceClose, Capsule!Cascade, Capsule!Siblings, CapsuleInv, CapsuleTypes
  <2> QED BY <2>1, <2>2, <2>3, <2>4 DEF CapsuleTypes
<1>2. UnbornUnused'
  BY DEF Capsule!ForceClose, Capsule!Cascade, Capsule!Siblings, CapsuleInv, CapsuleTypes, UnbornUnused,
     RunningIsShared,
         FailedAreGone, ThreadsAreAttached, SessionsArePlaced, ServersAreWanted, Capsule!Servers, Capsule!None,
         SessionPcs, AttachedPcs
<1>3. RunningIsShared'
  BY DEF Capsule!ForceClose, Capsule!Cascade, Capsule!Siblings, CapsuleInv, CapsuleTypes, UnbornUnused,
     RunningIsShared,
         FailedAreGone, ThreadsAreAttached, SessionsArePlaced, ServersAreWanted, Capsule!Servers, Capsule!None,
         SessionPcs, AttachedPcs
<1>4. FailedAreGone'
  BY DEF Capsule!ForceClose, Capsule!Cascade, Capsule!Siblings, CapsuleInv, CapsuleTypes, RunningIsShared,
     FailedAreGone, Capsule!None
<1>5. ThreadsAreAttached'
  BY DEF Capsule!ForceClose, Capsule!Cascade, Capsule!Siblings, CapsuleInv, CapsuleTypes, UnbornUnused,
     RunningIsShared,
         FailedAreGone, ThreadsAreAttached, SessionsArePlaced, ServersAreWanted, Capsule!Servers, Capsule!None,
         SessionPcs, AttachedPcs
<1>6. SessionsArePlaced'
  BY DEF Capsule!ForceClose, Capsule!Cascade, Capsule!Siblings, CapsuleInv, CapsuleTypes, UnbornUnused,
     RunningIsShared,
         FailedAreGone, ThreadsAreAttached, SessionsArePlaced, ServersAreWanted, Capsule!Servers, Capsule!None,
         SessionPcs, AttachedPcs
<1>7. ServersAreWanted'
  BY DEF Capsule!ForceClose, Capsule!Cascade, Capsule!Siblings, CapsuleInv, CapsuleTypes, RunningIsShared,
     ServersAreWanted
<1> QED BY <1>1, <1>2, <1>3, <1>4, <1>5, <1>6, <1>7 DEF CapsuleInv

LEMMA ServerEndedKeeps ==
  ASSUME MaxServers \in Nat, CapsuleInv, NEW s \in CodexSessions, Capsule!Ended(s)
  PROVE  CapsuleInv'
<1>1. CapsuleTypes'
  BY DEF Capsule!Ended, Capsule!At, CapsuleInv, CapsuleTypes, SessionsArePlaced, Capsule!Servers, Capsule!None,
     SessionPcs
<1>2. UnbornUnused'
  BY DEF Capsule!Ended, Capsule!At, CapsuleInv, CapsuleTypes, UnbornUnused, Capsule!Servers
<1>3. RunningIsShared'
  BY DEF Capsule!Ended, Capsule!At, CapsuleInv, CapsuleTypes, RunningIsShared, Capsule!None
<1>4. FailedAreGone'
  BY DEF Capsule!Ended, Capsule!At, CapsuleInv, CapsuleTypes, RunningIsShared, FailedAreGone, Capsule!None
<1>5. ThreadsAreAttached'
  BY DEF Capsule!Ended, Capsule!At, CapsuleInv, CapsuleTypes, ThreadsAreAttached, AttachedPcs
<1>6. SessionsArePlaced'
  BY DEF Capsule!Ended, Capsule!At, CapsuleInv, CapsuleTypes, SessionsArePlaced, SessionPcs, Capsule!None, AttachedPcs
<1>7. ServersAreWanted'
  BY DEF Capsule!Ended, Capsule!At, CapsuleInv, CapsuleTypes, UnbornUnused, RunningIsShared, FailedAreGone,
         ThreadsAreAttached, SessionsArePlaced, ServersAreWanted, Capsule!Servers, Capsule!None, SessionPcs,
         AttachedPcs
<1> QED BY <1>1, <1>2, <1>3, <1>4, <1>5, <1>6, <1>7 DEF CapsuleInv

LEMMA ServerExitKeeps ==
  ASSUME MaxServers \in Nat, CapsuleInv, NEW k \in Capsule!Servers, Capsule!Exit(k)
  PROVE  CapsuleInv'
<1>1. CapsuleTypes'
  <2>1. cx_session' \in [CodexSessions -> [pc : SessionPcs, on : Capsule!Servers \cup {Capsule!None}]]
    <3>1. cx_session' = cx_session \/ \E gone \in SUBSET CodexSessions : cx_session' =
            [t \in CodexSessions |-> IF t \in gone THEN [cx_session[t] EXCEPT !.pc = "ending"] ELSE cx_session[t]]
      BY DEF Capsule!Exit, Capsule!Cascade, CapsuleInv, CapsuleTypes, SessionsArePlaced, AttachedPcs, Capsule!None
    <3>2. \A t \in CodexSessions :
            [cx_session[t] EXCEPT !.pc = "ending"] \in [pc : SessionPcs, on : Capsule!Servers \cup {Capsule!None}]
      BY DEF CapsuleInv, CapsuleTypes, SessionPcs
    <3> QED BY <3>1, <3>2 DEF CapsuleInv, CapsuleTypes
  <2>2. cx_conn' \in [Capsule!Servers -> [state : {"unborn", "init", "up", "failed"}, exited : BOOLEAN]]
    <3>1. cx_conn' = cx_conn \/ cx_conn' = [cx_conn EXCEPT ![k].exited = TRUE]
      BY DEF Capsule!Exit
    <3>2. cx_conn[k] \in [state : {"unborn", "init", "up", "failed"}, exited : BOOLEAN]
      BY DEF CapsuleInv, CapsuleTypes
    <3>3. cx_conn \in [Capsule!Servers -> [state : {"unborn", "init", "up", "failed"}, exited : BOOLEAN]]
      BY DEF CapsuleInv, CapsuleTypes
    <3>4. CASE cx_conn' = [cx_conn EXCEPT ![k].exited = TRUE]
      BY <3>2, <3>3, <3>4
    <3> QED BY <3>1, <3>3, <3>4
  <2>3. /\ cx_process' \in [Capsule!Servers -> {"unborn", "runs", "killed", "gone"}]
        /\ cx_threads' \in [Capsule!Servers -> SUBSET CodexSessions]
    BY DEF Capsule!Exit, Capsule!Cascade, CapsuleInv, CapsuleTypes
  <2>4. cx_capsule' \in Capsule!Servers \cup {Capsule!None} /\ cx_spawned' \in 0..MaxServers
    BY DEF Capsule!Exit, Capsule!Cascade, CapsuleInv, CapsuleTypes
  <2> QED BY <2>1, <2>2, <2>3, <2>4 DEF CapsuleTypes
<1>2. UnbornUnused'
  BY DEF Capsule!Exit, Capsule!Cascade, CapsuleInv, CapsuleTypes, UnbornUnused, RunningIsShared, FailedAreGone,
         ThreadsAreAttached, SessionsArePlaced, ServersAreWanted, Capsule!Servers, Capsule!None, SessionPcs,
         AttachedPcs
<1>3. RunningIsShared'
  BY DEF Capsule!Exit, Capsule!Cascade, CapsuleInv, CapsuleTypes, UnbornUnused, RunningIsShared, FailedAreGone,
         ThreadsAreAttached, SessionsArePlaced, ServersAreWanted, Capsule!Servers, Capsule!None, SessionPcs,
         AttachedPcs
<1>4. FailedAreGone'
  BY DEF Capsule!Exit, Capsule!Cascade, CapsuleInv, CapsuleTypes, RunningIsShared, FailedAreGone, Capsule!None
<1>5. ThreadsAreAttached'
  <2>1. CASE cx_conn[k].exited
    <3>1. UNCHANGED <<cx_threads, cx_session, cx_conn>>
      BY <2>1 DEF Capsule!Exit
    <3> QED BY <3>1 DEF CapsuleInv, ThreadsAreAttached
  <2>2. CASE ~cx_conn[k].exited
    <3>1. /\ cx_threads' = [cx_threads EXCEPT ![k] = {}] /\ cx_conn' = [cx_conn EXCEPT ![k].exited = TRUE]
          /\ cx_session' = [t \in CodexSessions |->
               IF t \in cx_threads[k] THEN [cx_session[t] EXCEPT !.pc = "ending"] ELSE cx_session[t]]
      BY <2>2 DEF Capsule!Exit, Capsule!Cascade
    <3>2. ASSUME NEW t \in CodexSessions, cx_session'[t].pc \in AttachedPcs
          PROVE  t \in cx_threads'[cx_session'[t].on] /\ ~cx_conn'[cx_session'[t].on].exited
      <4>1. t \notin cx_threads[k] /\ cx_session'[t] = cx_session[t]
        BY <3>1, <3>2 DEF AttachedPcs, CapsuleInv, CapsuleTypes
      <4>2. /\ t \in cx_threads[cx_session[t].on] /\ ~cx_conn[cx_session[t].on].exited
            /\ cx_session[t].on \in Capsule!Servers
        BY <3>2, <4>1 DEF CapsuleInv, ThreadsAreAttached, SessionsArePlaced, CapsuleTypes, AttachedPcs
      <4>3. cx_session[t].on # k
        BY <4>1, <4>2
      <4> QED BY <3>1, <4>1, <4>2, <4>3 DEF CapsuleInv, CapsuleTypes
    <3>3. ASSUME NEW j \in Capsule!Servers, NEW t \in cx_threads'[j]
          PROVE  cx_session'[t].on = j /\ cx_session'[t].pc \in AttachedPcs
      <4>1. j # k /\ t \in cx_threads[j]
        BY <3>1 DEF CapsuleInv, CapsuleTypes
      <4>2. cx_session[t].on = j /\ cx_session[t].pc \in AttachedPcs /\ t \in CodexSessions
        BY <4>1 DEF CapsuleInv, ThreadsAreAttached, CapsuleTypes
      <4>3. t \notin cx_threads[k]
        BY <4>1, <4>2 DEF CapsuleInv, ThreadsAreAttached
      <4> QED BY <3>1, <4>2, <4>3 DEF CapsuleInv, CapsuleTypes
    <3> QED BY <3>2, <3>3 DEF ThreadsAreAttached
  <2> QED BY <2>1, <2>2
<1>6. SessionsArePlaced'
  BY DEF Capsule!Exit, Capsule!Cascade, CapsuleInv, CapsuleTypes, UnbornUnused, RunningIsShared, FailedAreGone,
         ThreadsAreAttached, SessionsArePlaced, ServersAreWanted, Capsule!Servers, Capsule!None, SessionPcs,
         AttachedPcs
<1>7. ServersAreWanted'
  BY DEF Capsule!Exit, Capsule!Cascade, CapsuleInv, CapsuleTypes, RunningIsShared, ServersAreWanted
<1> QED BY <1>1, <1>2, <1>3, <1>4, <1>5, <1>6, <1>7 DEF CapsuleInv

-----------------------------------------------------------------------------
(* Every step, and what the invariant says                                    *)

LEMMA CapsuleStep ==
  ASSUME MaxServers \in Nat, CapsuleInv, [Capsule!Next]_capsule_vars
  PROVE  CapsuleInv'
<1>1. CASE UNCHANGED capsule_vars
  BY <1>1 DEF capsule_vars, CapsuleInv, CapsuleTypes, UnbornUnused, RunningIsShared, FailedAreGone,
     ThreadsAreAttached,
              SessionsArePlaced, ServersAreWanted
<1>2. ASSUME NEW s \in CodexSessions,
             Capsule!Start(s) \/ Capsule!ThreadStarts(s) \/ Capsule!Started(s) \/ Capsule!StartFails(s)
             \/ Capsule!Close(s) \/ Capsule!Closed(s) \/ Capsule!ForceClose(s) \/ Capsule!Ended(s)
      PROVE  CapsuleInv'
  BY <1>2, ServerStartKeeps, ServerThreadStartsKeeps, ServerStartedKeeps, ServerStartFailsKeeps, ServerCloseKeeps,
     ServerClosedKeeps,
     ServerForceCloseKeeps, ServerEndedKeeps
<1>3. ASSUME NEW k \in Capsule!Servers, Capsule!InitOk(k) \/ Capsule!InitFails(k) \/ Capsule!Exit(k)
      PROVE  CapsuleInv'
  BY <1>3, ServerInitOkKeeps, ServerInitFailsKeeps, ServerExitKeeps
<1> QED BY <1>1, <1>2, <1>3 DEF Capsule!Next

\* What the invariant says of the two properties.
LEMMA CapsuleSaysOne == ASSUME CapsuleInv PROVE Capsule!OneServer
<1>1. Capsule!Serving \subseteq {cx_capsule}
  BY DEF CapsuleInv, RunningIsShared, Capsule!Serving
<1>2. Cardinality(Capsule!Serving) <= 1
  <2>1. IsFiniteSet({cx_capsule}) /\ Cardinality({cx_capsule}) = 1
    BY FS_Singleton
  <2> QED BY <1>1, <2>1, FS_Subset
<1>3. Capsule!Cardinality(Capsule!Serving) = Cardinality(Capsule!Serving)
  BY DEF Capsule!Cardinality, Cardinality
<1> QED BY <1>2, <1>3 DEF Capsule!OneServer, Capsule!Serving, CapsuleInv, ServersAreWanted

LEMMA CapsuleSaysServed == ASSUME CapsuleInv PROVE Capsule!LiveAreServed
BY DEF CapsuleInv, ThreadsAreAttached, AttachedPcs, Capsule!LiveAreServed


CapsuleHolds == part = "capsule" => CapsuleInv

\* The inductive invariant of the app-servers holds of their part.
LEMMA CapsuleIsKept == ServicesSpec => []CapsuleHolds
<1> USE ServersAssumption
<1>1. ServicesInit => CapsuleHolds
  BY CapsuleStarts DEF ServicesInit, CapsuleHolds
<1>2. CapsuleHolds /\ [ServicesNext]_AllVars => CapsuleHolds'
  <2> SUFFICES ASSUME CapsuleHolds, [ServicesNext]_AllVars, part' = "capsule" PROVE CapsuleInv'
    BY DEF CapsuleHolds
  <2>1. part = "capsule" /\ [Capsule!Next]_capsule_vars
    BY DEF ServicesNext, HostPart, CapsulePart, ReviewerPart, WatcherPart, DetailPart, ViewPart, CriteriaPart, AllVars
  <2>2. CapsuleInv
    BY <2>1 DEF CapsuleHolds
  <2> QED BY <2>1, <2>2, CapsuleStep
<1> QED BY <1>1, <1>2, PTL DEF ServicesSpec

\* One app-server at most has a CODEX_HOME to itself, and none runs that no session has or asks for
\* (codex/runtime.ts, ensureCapsule, onThreadClosed).
THEOREM ServicesHaveOneServer == ServicesSpec => []OneServer
<1>1. CapsuleHolds => OneServer
  BY CapsuleSaysOne DEF CapsuleHolds, OneServer
<1> QED BY <1>1, CapsuleIsKept, PTL

\* No session outlives its app-server unnoticed (cascadeClose of codex/runtime.ts).
THEOREM ServicesServeTheLive == ServicesSpec => []LiveAreServed
<1>1. CapsuleHolds => LiveAreServed
  BY CapsuleSaysServed DEF CapsuleHolds, LiveAreServed
<1> QED BY <1>1, CapsuleIsKept, PTL

-----------------------------------------------------------------------------
(* The reviews                                                               *)

\* The argument is about the handle: between its start and its commit a trigger owns it, so that only one
\* is in progress; Meta's calls do not overlap, and a session starts, or fails to, while its call is waited for.

Answers == {"none", "illegal_state", "invalid", "gave_up", "threw", "start_failed", "result"}
Drives == {"none", "start_failed", "natural", "failed", "rejected", "timed_out", "close_failed"}
CallRecords == [race : {"none", "open", "over"}, timedOut : BOOLEAN, answer : Answers]
TriggerRecords == [pc : {"idle", "returned"} \cup Reviewer!Working, drive : Drives,
                   kind : {"reviewer_verdict", "host_event", Reviewer!None}]
EventRecords == [type : {"started", "ended"}, of : Calls]
ReviewerTypes ==
  /\ rv_call \in [Calls -> CallRecords]
  /\ rv_trigger \in [Calls -> TriggerRecords]
  /\ rv_handle \in Calls \cup {Reviewer!None}
  /\ rv_reviewer \in [Calls -> {"none", "starting", "runs", "turn_over", "failed", "closed"}]
  /\ rv_events \in Seq(EventRecords)
  /\ rv_shutdown \in [pc : {"up", "closing", "ending", "exited"}, of : Calls \cup {Reviewer!None}, unread : BOOLEAN]
  /\ rv_shutdown.pc \in {"closing", "ending"} => rv_shutdown.of \in Calls

\* Meta's calls do not overlap, and a trigger that has no session yet is still waited for.
OneCallRaces == \A c, d \in Calls : Reviewer!Racing(c) /\ Reviewer!Racing(d) => c = d
ProgressOwns == Reviewer!HostUp => \A c \in Calls : Reviewer!InProgress(c) =>
  IF Reviewer!OnStart(c) THEN Reviewer!Racing(c) /\ rv_handle = Reviewer!None ELSE rv_handle = c

\* The handle is of the only session that may run.
AliveIsHeld == Reviewer!HostUp => \A c \in Calls : Reviewer!Alive(c) => rv_handle = c
Occupied(c) == Reviewer!Alive(c) \/ rv_reviewer[c] = "starting"
OneOccupied == \A c, d \in Calls : Occupied(c) /\ Occupied(d) => c = d

\* Where a trigger is, and what has become of its session.
PlacesAgree == \A c \in Calls :
  /\ rv_trigger[c].pc \in {"idle", "assembling"} => ~Reviewer!Started(c)
  /\ rv_reviewer[c] = "starting" => rv_trigger[c].pc = "starting"
  /\ rv_trigger[c].pc \in {"reporting", "committing"} /\ rv_trigger[c].drive # "close_failed" => rv_reviewer[c] = "closed"
  /\ rv_trigger[c].pc = "committing" => rv_trigger[c].drive # "close_failed"
  /\ rv_trigger[c].drive = "start_failed" => rv_trigger[c].pc \in {"committing", "returned"} /\ rv_reviewer[c] = "closed"

EndedOnce == \A c \in Calls : \A i, j \in Reviewer!Occurs(Reviewer!Event("ended", c)) : i = j
HasOwner(c) ==
  \/ Reviewer!InProgress(c) \/ rv_handle = c
  \/ rv_trigger[c].drive = "start_failed" /\ ~Reviewer!Alive(c)
  \/ ~Reviewer!HostUp /\ (Reviewer!Ended(c) \/ rv_shutdown.unread \/ rv_shutdown.of # c)
OpenHaveOwners == \A c \in Calls : Reviewer!Started(c) /\ (Reviewer!Alive(c) \/ ~Reviewer!Ended(c)) => HasOwner(c)

ReviewerInv ==
  /\ ReviewerTypes /\ OneCallRaces /\ ProgressOwns /\ AliveIsHeld /\ OneOccupied
  /\ PlacesAgree /\ EndedOnce /\ OpenHaveOwners

-----------------------------------------------------------------------------
(* Calls, events, and who is in progress                                     *)

\* A trigger goes on.
LEMMA TriggerGoes ==
  ASSUME rv_trigger \in [Calls -> TriggerRecords], NEW c \in Calls, NEW pc \in {"idle",
         "returned"} \cup Reviewer!Working,
         NEW how \in Drives, Reviewer!Goto(c, pc, how)
  PROVE  /\ rv_trigger' \in [Calls -> TriggerRecords] /\ rv_trigger'[c].pc = pc /\ rv_trigger'[c].drive = how
         /\ \A d \in Calls \ {c} : rv_trigger'[d] = rv_trigger[d]
<1>1. rv_trigger' = [rv_trigger EXCEPT ![c] = [rv_trigger[c] EXCEPT !.pc = pc, !.drive = how]]
  BY DEF Reviewer!Goto
<1>2. rv_trigger[c] \in TriggerRecords
  OBVIOUS
<1>3. /\ [rv_trigger[c] EXCEPT !.pc = pc, !.drive = how] \in TriggerRecords
      /\ [rv_trigger[c] EXCEPT !.pc = pc, !.drive = how].pc = pc
      /\ [rv_trigger[c] EXCEPT !.pc = pc, !.drive = how].drive = how
  BY <1>2 DEF TriggerRecords
<1> QED BY <1>1, <1>3

\* A call of which a part is replaced.
LEMMA CallGoes ==
  ASSUME rv_call \in [Calls -> CallRecords], NEW c \in Calls, NEW r \in CallRecords,
         rv_call' = [rv_call EXCEPT ![c] = r]
  PROVE  /\ rv_call' \in [Calls -> CallRecords]
         /\ Reviewer!Racing(c)' <=> r.race = "open"
         /\ \A d \in Calls \ {c} : rv_call'[d] = rv_call[d] /\ (Reviewer!Racing(d)' <=> Reviewer!Racing(d))
BY DEF Reviewer!Racing

\* An answer ends the race of its call, and no other.
LEMMA AnswerEnds ==
  ASSUME ReviewerTypes, NEW c \in Calls, NEW a \in Answers, Reviewer!Answer(c, a)
  PROVE  /\ rv_call' \in [Calls -> CallRecords]
         /\ \A d \in Calls : Reviewer!Racing(d)' => Reviewer!Racing(d) /\ d # c
<1>1. CASE Reviewer!Racing(c)
  <2>1. rv_call' = [rv_call EXCEPT ![c] = [rv_call[c] EXCEPT !.race = "over", !.answer = a]]
    BY <1>1 DEF Reviewer!Answer
  <2>2. rv_call \in [Calls -> CallRecords]
    BY DEF ReviewerTypes
  <2>3. /\ [rv_call[c] EXCEPT !.race = "over", !.answer = a] \in CallRecords
        /\ [rv_call[c] EXCEPT !.race = "over", !.answer = a].race = "over"
    BY <2>2 DEF CallRecords
  <2> QED BY <2>1, <2>2, <2>3 DEF Reviewer!Racing
<1>2. CASE ~Reviewer!Racing(c)
  <2>1. rv_call' = rv_call
    BY <1>2 DEF Reviewer!Answer
  <2> QED BY <1>2, <2>1 DEF ReviewerTypes, Reviewer!Racing
<1> QED BY <1>1, <1>2

\* One more event, and the events of a call.
LEMMA EventIsLogged ==
  ASSUME rv_events \in Seq(EventRecords), NEW e \in EventRecords, rv_events' = Append(rv_events, e)
  PROVE  /\ rv_events' \in Seq(EventRecords)
         /\ \A f : Reviewer!Occurs(f) \subseteq Reviewer!Occurs(f)'
         /\ \A f : f # e => Reviewer!Occurs(f)' = Reviewer!Occurs(f)
         /\ Reviewer!Occurs(e)' = Reviewer!Occurs(e) \cup {Len(rv_events) + 1}
<1>1. /\ DOMAIN rv_events' = DOMAIN rv_events \cup {Len(rv_events) + 1} /\ Len(rv_events) + 1 \notin DOMAIN rv_events
      /\ rv_events'[Len(rv_events) + 1] = e /\ \A i \in DOMAIN rv_events : rv_events'[i] = rv_events[i]
  OBVIOUS
<1>2. \A f : Reviewer!Occurs(f)' = Reviewer!Occurs(f) \cup (IF f = e THEN {Len(rv_events) + 1} ELSE {})
  BY <1>1 DEF Reviewer!Occurs
<1>3. /\ \A f : Reviewer!Occurs(f) \subseteq Reviewer!Occurs(f)'
      /\ \A f : f # e => Reviewer!Occurs(f)' = Reviewer!Occurs(f)
      /\ Reviewer!Occurs(e)' = Reviewer!Occurs(e) \cup {Len(rv_events) + 1}
  BY <1>2
<1>4. rv_events' \in Seq(EventRecords)
  OBVIOUS
<1> QED BY <1>3, <1>4

\* STARTED of a call.
LEMMA StartedEvent ==
  ASSUME ReviewerTypes, EndedOnce, NEW c \in Calls, rv_events' = Append(rv_events, Reviewer!Event("started", c))
  PROVE  /\ rv_events' \in Seq(EventRecords) /\ EndedOnce'
         /\ \A d \in Calls : (Reviewer!Started(d)' <=> Reviewer!Started(d) \/ d = c) /\ (Reviewer!Ended(d)' <=> Reviewer!Ended(d))
<1>1. Reviewer!Event("started", c) \in EventRecords
  BY DEF Reviewer!Event, EventRecords
<1>2. /\ \A d : Reviewer!Event("ended", d) # Reviewer!Event("started", c)
      /\ \A d : d # c => Reviewer!Event("started", d) # Reviewer!Event("started", c)
  BY DEF Reviewer!Event
<1>3. rv_events \in Seq(EventRecords)
  BY DEF ReviewerTypes
<1>4. \A d \in Calls : Reviewer!Occurs(Reviewer!Event("ended", d))' = Reviewer!Occurs(Reviewer!Event("ended", d))
  BY <1>1, <1>2, <1>3, EventIsLogged
<1>5. \A d \in Calls : d # c => Reviewer!Occurs(Reviewer!Event("started", d))' = Reviewer!Occurs(Reviewer!Event("started", d))
  BY <1>1, <1>2, <1>3, EventIsLogged
<1>6. Reviewer!Occurs(Reviewer!Event("started", c))' # {}
  BY <1>1, <1>3, EventIsLogged
<1> QED BY <1>1, <1>3, <1>4, <1>5, <1>6, EventIsLogged DEF Reviewer!Started, Reviewer!Ended, EndedOnce

\* ENDED of a call, unless it is there.
LEMMA EndedEvent ==
  ASSUME ReviewerTypes, EndedOnce, NEW c \in Calls, rv_events' = Reviewer!EndOnce(c)
  PROVE  /\ rv_events' \in Seq(EventRecords) /\ EndedOnce'
         /\ \A d \in Calls : (Reviewer!Started(d)' <=> Reviewer!Started(d)) /\ (Reviewer!Ended(d)' <=> Reviewer!Ended(d) \/ d = c)
<1>1. CASE Reviewer!Ended(c)
  <2>1. rv_events' = rv_events
    BY <1>1 DEF Reviewer!EndOnce
  <2> QED BY <1>1, <2>1 DEF ReviewerTypes, EndedOnce, Reviewer!Started, Reviewer!Ended, Reviewer!Occurs
<1>2. CASE ~Reviewer!Ended(c)
  <2>1. rv_events' = Append(rv_events, Reviewer!Event("ended", c)) /\ Reviewer!Event("ended", c) \in EventRecords
    BY <1>2 DEF Reviewer!EndOnce, Reviewer!Event, EventRecords
  <2>2. /\ \A d : Reviewer!Event("started", d) # Reviewer!Event("ended", c)
        /\ \A d : d # c => Reviewer!Event("ended", d) # Reviewer!Event("ended", c)
    BY DEF Reviewer!Event
  <2>3. rv_events \in Seq(EventRecords)
    BY DEF ReviewerTypes
  <2>4. \A d \in Calls : Reviewer!Occurs(Reviewer!Event("started", d))' = Reviewer!Occurs(Reviewer!Event("started", d))
    BY <2>1, <2>2, <2>3, EventIsLogged
  <2>5. \A d \in Calls : d # c => Reviewer!Occurs(Reviewer!Event("ended", d))' = Reviewer!Occurs(Reviewer!Event("ended", d))
    BY <2>1, <2>2, <2>3, EventIsLogged
  <2>6. Reviewer!Occurs(Reviewer!Event("ended", c))' = {Len(rv_events) + 1}
    BY <1>2, <2>1, <2>3, EventIsLogged DEF Reviewer!Ended
  <2> QED BY <2>1, <2>3, <2>4, <2>5, <2>6, EventIsLogged DEF Reviewer!Started, Reviewer!Ended, EndedOnce
<1> QED BY <1>1, <1>2

\* Only one trigger is in progress.
LEMMA OneInProgress ==
  ASSUME Reviewer!None \notin Calls, ReviewerInv, Reviewer!HostUp, NEW c \in Calls, NEW d \in Calls,
         Reviewer!InProgress(c), Reviewer!InProgress(d)
  PROVE  c = d
BY DEF ReviewerInv, ProgressOwns, OneCallRaces

-----------------------------------------------------------------------------
(* The first state, and each step                                            *)

LEMMA ReviewerStarts == Reviewer!Init => ReviewerInv
<1> SUFFICES ASSUME Reviewer!Init PROVE ReviewerInv
  OBVIOUS
<1>1. rv_events = <<>> /\ \A e : Reviewer!Occurs(e) = {}
  BY DEF Reviewer!Init, Reviewer!Occurs
<1>2. ReviewerTypes
  BY DEF Reviewer!Init, ReviewerTypes, CallRecords, TriggerRecords, Reviewer!Unanswered, Answers, Drives,
     Reviewer!Working, Reviewer!None
<1> QED BY <1>1, <1>2 DEF Reviewer!Init, ReviewerInv, OneCallRaces, Reviewer!Racing, Reviewer!Unanswered,
ProgressOwns, Reviewer!InProgress, Reviewer!Working,
            AliveIsHeld, Reviewer!Alive, OneOccupied, Occupied, PlacesAgree, EndedOnce, OpenHaveOwners,
            Reviewer!Started

\* The tool is called: it is refused, or a review begins, the only one.
LEMMA TriggerKeeps ==
  ASSUME Reviewer!None \notin Calls, ReviewerInv, NEW c \in Calls, Reviewer!Trigger(c)
  PROVE  ReviewerInv'
<1>1. Reviewer!HostUp /\ rv_trigger[c].pc = "idle" /\ \A d \in Calls : ~Reviewer!Racing(d)
  BY DEF Reviewer!Trigger
<1>2. UNCHANGED <<rv_handle, rv_reviewer, rv_events, rv_shutdown>>
  BY DEF Reviewer!Trigger
<1>3. PICK r \in CallRecords :
        /\ rv_call' = [rv_call EXCEPT ![c] = r]
        /\ \/ rv_handle = Reviewer!None /\ r.race = "open" /\ Reviewer!Goto(c, "assembling", "none")
           \/ r.race = "over" /\ Reviewer!Goto(c, "returned", "none")
  <2>1. rv_call[c] \in CallRecords
    BY DEF ReviewerInv, ReviewerTypes
  <2>2. /\ [rv_call[c] EXCEPT !.race = "open"] \in CallRecords
        /\ [rv_call[c] EXCEPT !.race = "open"].race = "open"
        /\ [rv_call[c] EXCEPT !.race = "over", !.answer = "illegal_state"] \in CallRecords
        /\ [rv_call[c] EXCEPT !.race = "over", !.answer = "illegal_state"].race = "over"
    BY <2>1 DEF CallRecords, Answers
  <2>3. \/ /\ rv_handle = Reviewer!None /\ rv_call' = [rv_call EXCEPT ![c] = [rv_call[c] EXCEPT !.race = "open"]]
           /\ Reviewer!Goto(c, "assembling", "none")
        \/ /\ rv_call' = [rv_call EXCEPT ![c] = [rv_call[c] EXCEPT !.race = "over", !.answer = "illegal_state"]]
           /\ Reviewer!Goto(c, "returned", "none")
    BY DEF Reviewer!Trigger, Reviewer!Busy, Reviewer!Called
  <2> QED BY <2>2, <2>3
<1>4. \A d \in Calls \ {c} : rv_call'[d] = rv_call[d] /\ rv_trigger'[d] = rv_trigger[d]
  BY <1>3, TriggerGoes DEF ReviewerInv, ReviewerTypes, Reviewer!Working, Drives
<1>5. rv_handle = Reviewer!None => \A d \in Calls : ~Reviewer!InProgress(d)
  BY <1>1 DEF ReviewerInv, ProgressOwns
<1>6. \/ rv_handle = Reviewer!None /\ rv_trigger'[c].pc = "assembling" /\ rv_trigger'[c].drive = "none" /\ Reviewer!Racing(c)'
      \/ rv_trigger'[c].pc = "returned" /\ rv_trigger'[c].drive = "none" /\ ~Reviewer!Racing(c)'
  BY <1>3, TriggerGoes, CallGoes DEF ReviewerInv, ReviewerTypes, Reviewer!Working, Drives
<1>7. ReviewerTypes'
  <2>1. rv_trigger' \in [Calls -> TriggerRecords]
    BY <1>1, <1>2, <1>3, <1>4, <1>5, <1>6, TriggerGoes DEF ReviewerInv, ReviewerTypes, TriggerRecords,
       Reviewer!Working,
       Drives, Reviewer!None
  <2>2. rv_call' \in [Calls -> CallRecords]
    BY <1>1, <1>2, <1>3, <1>4, <1>5, <1>6, CallGoes DEF ReviewerInv, ReviewerTypes, CallRecords, Answers
  <2>3. rv_shutdown' \in [pc : {"up", "closing", "ending", "exited"}, of : Calls \cup {Reviewer!None}, unread : BOOLEAN]
    BY <1>1, <1>2, <1>3, <1>4, <1>5, <1>6 DEF ReviewerInv, ReviewerTypes
  <2>4. rv_reviewer' \in [Calls -> {"none", "starting", "runs", "turn_over", "failed", "closed"}]
    BY <1>1, <1>2, <1>3, <1>4, <1>5, <1>6 DEF ReviewerInv, ReviewerTypes
  <2>5. rv_handle' \in Calls \cup {Reviewer!None} /\ rv_events' \in Seq(EventRecords)
    BY <1>1, <1>2, <1>3, <1>4, <1>5, <1>6 DEF ReviewerInv, ReviewerTypes
  <2> QED BY <1>1, <1>2, <1>3, <1>4, <1>5, <1>6, <2>1, <2>2, <2>3, <2>4, <2>5 DEF ReviewerInv, ReviewerTypes,
  Reviewer!None
<1>8. OneCallRaces'
  BY <1>1, <1>2, <1>3, <1>4, <1>5, <1>6 DEF ReviewerInv, OneCallRaces, Reviewer!Racing
<1>9. ProgressOwns'
  BY <1>1, <1>2, <1>3, <1>4, <1>5, <1>6 DEF ReviewerInv, ReviewerTypes, OneCallRaces, ProgressOwns, Reviewer!HostUp,
     Reviewer!InProgress, Reviewer!OnStart, Reviewer!Racing, Reviewer!Working, Reviewer!None
<1>10. AliveIsHeld'
  BY <1>1, <1>2, <1>3, <1>4, <1>5, <1>6 DEF ReviewerInv, ReviewerTypes, AliveIsHeld, PlacesAgree, ProgressOwns,
     Reviewer!HostUp, Reviewer!Alive, Reviewer!InProgress, Reviewer!OnStart, Reviewer!Working, Reviewer!None
<1>11. OneOccupied'
  BY <1>1, <1>2, <1>3, <1>4, <1>5, <1>6 DEF ReviewerInv, ReviewerTypes, OneOccupied, Occupied, Reviewer!Alive
<1>12. PlacesAgree'
  BY <1>1, <1>2, <1>3, <1>4, <1>5, <1>6 DEF ReviewerInv, ReviewerTypes, PlacesAgree, Reviewer!Started,
     Reviewer!Occurs, Reviewer!Working
<1>13. EndedOnce'
  BY <1>1, <1>2, <1>3, <1>4, <1>5, <1>6 DEF ReviewerInv, EndedOnce, Reviewer!Occurs
<1>14. OpenHaveOwners'
  BY <1>1, <1>2, <1>3, <1>4, <1>5, <1>6 DEF ReviewerInv, ReviewerTypes, ProgressOwns, PlacesAgree, OpenHaveOwners,
     HasOwner, Reviewer!HostUp, Reviewer!InProgress, Reviewer!OnStart, Reviewer!Alive, Reviewer!Started,
     Reviewer!Ended, Reviewer!Occurs, Reviewer!Working, Reviewer!None
<1> QED BY <1>7, <1>8, <1>9, <1>10, <1>11, <1>12, <1>13, <1>14 DEF ReviewerInv

\* An invalid input is answered at once.
LEMMA RefusedKeeps ==
  ASSUME Reviewer!None \notin Calls, ReviewerInv, NEW c \in Calls, Reviewer!Refused(c)
  PROVE  ReviewerInv'
<1>1. Reviewer!HostUp /\ rv_trigger[c].pc = "idle"
  BY DEF Reviewer!Refused
<1>2. UNCHANGED <<rv_handle, rv_reviewer, rv_events, rv_shutdown>>
  BY DEF Reviewer!Refused
<1>3. PICK r \in CallRecords :
        rv_call' = [rv_call EXCEPT ![c] = r] /\ r.race = "over" /\ Reviewer!Goto(c, "returned", "none")
  <2>1. rv_call[c] \in CallRecords
    BY DEF ReviewerInv, ReviewerTypes
  <2>2. /\ [rv_call[c] EXCEPT !.race = "over", !.answer = "invalid"] \in CallRecords
        /\ [rv_call[c] EXCEPT !.race = "over", !.answer = "invalid"].race = "over"
    BY <2>1 DEF CallRecords, Answers
  <2> QED BY <2>2 DEF Reviewer!Refused, Reviewer!Invalid
<1>4. \A d \in Calls \ {c} : rv_call'[d] = rv_call[d] /\ rv_trigger'[d] = rv_trigger[d]
  BY <1>3, TriggerGoes DEF ReviewerInv, ReviewerTypes, Reviewer!Working, Drives
<1>5. rv_trigger'[c].pc = "returned" /\ rv_trigger'[c].drive = "none" /\ ~Reviewer!Racing(c)'
  BY <1>3, TriggerGoes, CallGoes DEF ReviewerInv, ReviewerTypes, Reviewer!Working, Drives
<1>6. ReviewerTypes'
  <2>1. rv_trigger' \in [Calls -> TriggerRecords]
    BY <1>1, <1>2, <1>3, <1>4, <1>5, TriggerGoes DEF ReviewerInv, ReviewerTypes, TriggerRecords, Reviewer!Working,
       Drives, Reviewer!None
  <2>2. rv_call' \in [Calls -> CallRecords]
    BY <1>1, <1>2, <1>3, <1>4, <1>5, CallGoes DEF ReviewerInv, ReviewerTypes, CallRecords, Answers
  <2>3. rv_shutdown' \in [pc : {"up", "closing", "ending", "exited"}, of : Calls \cup {Reviewer!None}, unread : BOOLEAN]
    BY <1>1, <1>2, <1>3, <1>4, <1>5 DEF ReviewerInv, ReviewerTypes
  <2>4. rv_reviewer' \in [Calls -> {"none", "starting", "runs", "turn_over", "failed", "closed"}]
    BY <1>1, <1>2, <1>3, <1>4, <1>5 DEF ReviewerInv, ReviewerTypes
  <2>5. rv_handle' \in Calls \cup {Reviewer!None} /\ rv_events' \in Seq(EventRecords)
    BY <1>1, <1>2, <1>3, <1>4, <1>5 DEF ReviewerInv, ReviewerTypes
  <2> QED BY <1>1, <1>2, <1>3, <1>4, <1>5, <2>1, <2>2, <2>3, <2>4, <2>5 DEF ReviewerInv, ReviewerTypes, Reviewer!None
<1>7. OneCallRaces'
  BY <1>1, <1>2, <1>3, <1>4, <1>5 DEF ReviewerInv, OneCallRaces, Reviewer!Racing
<1>8. ProgressOwns'
  BY <1>1, <1>2, <1>3, <1>4, <1>5 DEF ReviewerInv, ReviewerTypes, OneCallRaces, ProgressOwns, Reviewer!HostUp,
     Reviewer!InProgress,
     Reviewer!OnStart, Reviewer!Racing, Reviewer!Working, Reviewer!None
<1>9. AliveIsHeld'
  BY <1>1, <1>2, <1>3, <1>4, <1>5 DEF ReviewerInv, ReviewerTypes, AliveIsHeld, PlacesAgree, ProgressOwns,
     Reviewer!HostUp,
     Reviewer!Alive, Reviewer!InProgress, Reviewer!OnStart, Reviewer!Working, Reviewer!None
<1>10. OneOccupied'
  BY <1>1, <1>2, <1>3, <1>4, <1>5 DEF ReviewerInv, ReviewerTypes, OneOccupied, Occupied, Reviewer!Alive
<1>11. PlacesAgree'
  BY <1>1, <1>2, <1>3, <1>4, <1>5 DEF ReviewerInv, ReviewerTypes, PlacesAgree, Reviewer!Started, Reviewer!Occurs,
     Reviewer!Working
<1>12. EndedOnce'
  BY <1>1, <1>2, <1>3, <1>4, <1>5 DEF ReviewerInv, EndedOnce, Reviewer!Occurs
<1>13. OpenHaveOwners'
  BY <1>1, <1>2, <1>3, <1>4, <1>5 DEF ReviewerInv, ReviewerTypes, ProgressOwns, PlacesAgree, OpenHaveOwners,
     HasOwner, Reviewer!HostUp, Reviewer!InProgress, Reviewer!OnStart, Reviewer!Alive, Reviewer!Started,
     Reviewer!Ended, Reviewer!Occurs, Reviewer!Working, Reviewer!None
<1> QED BY <1>6, <1>7, <1>8, <1>9, <1>10, <1>11, <1>12, <1>13 DEF ReviewerInv

\* The review's STARTED is written, or the preparation throws.
LEMMA BeginKeeps ==
  ASSUME Reviewer!None \notin Calls, ReviewerInv, NEW c \in Calls, NEW ok \in BOOLEAN, Reviewer!Begin(c, ok)
  PROVE  ReviewerInv'
<1>1. Reviewer!HostUp /\ rv_trigger[c].pc = "assembling"
  BY DEF Reviewer!Begin
<1>2. UNCHANGED <<rv_handle, rv_shutdown>>
  BY DEF Reviewer!Begin
<1>3. \/ /\ rv_events' = Append(rv_events, Reviewer!Event("started", c)) /\ rv_call' = rv_call
         /\ rv_reviewer' = [rv_reviewer EXCEPT ![c] = "starting"]
         /\ Reviewer!Goto(c, "starting", "none")
      \/ /\ Reviewer!Answer(c, "threw") /\ rv_events' = rv_events /\ rv_reviewer' = rv_reviewer
         /\ Reviewer!Goto(c, "returned", "none")
  BY DEF Reviewer!Begin, Reviewer!Throws
<1>4. \A d \in Calls \ {c} : rv_trigger'[d] = rv_trigger[d] /\ rv_reviewer'[d] = rv_reviewer[d]
  BY <1>3, TriggerGoes DEF ReviewerInv, ReviewerTypes, Reviewer!Working, Drives
<1>5. \/ rv_events' = rv_events
      \/ /\ rv_events' \in Seq(EventRecords) /\ EndedOnce'
         /\ \A d \in Calls : (Reviewer!Started(d)' <=> Reviewer!Started(d) \/ d = c) /\ (Reviewer!Ended(d)' <=> Reviewer!Ended(d))
  BY <1>3, StartedEvent DEF ReviewerInv
<1>6. \/ rv_call' = rv_call
      \/ /\ rv_call' \in [Calls -> CallRecords]
         /\ \A d \in Calls : Reviewer!Racing(d)' => Reviewer!Racing(d) /\ d # c
  BY <1>3, AnswerEnds DEF ReviewerInv, Answers
<1>7. rv_handle = Reviewer!None /\ \A d \in Calls : Reviewer!InProgress(d) => d = c
  BY <1>1, OneInProgress DEF ReviewerInv, ProgressOwns, Reviewer!InProgress, Reviewer!OnStart, Reviewer!Working
<1>8. \A d \in Calls : ~Occupied(d)
  BY <1>1, <1>7 DEF ReviewerInv, AliveIsHeld, PlacesAgree, Occupied, Reviewer!InProgress, Reviewer!Working
<1>9. \/ rv_trigger'[c].pc = "starting" /\ rv_trigger'[c].drive = "none" /\ rv_reviewer'[c] = "starting" /\ rv_call' = rv_call
         /\ rv_events' = Append(rv_events, Reviewer!Event("started", c))
      \/ rv_trigger'[c].pc = "returned" /\ rv_trigger'[c].drive = "none" /\ rv_reviewer' = rv_reviewer /\ rv_events' = rv_events
  BY <1>3, TriggerGoes DEF ReviewerInv, ReviewerTypes, Reviewer!Working, Drives
<1>10. ReviewerTypes'
  <2>1. rv_trigger' \in [Calls -> TriggerRecords]
    BY <1>1, <1>2, <1>3, <1>4, <1>5, <1>6, <1>7, <1>8, <1>9, TriggerGoes DEF ReviewerInv, ReviewerTypes,
       TriggerRecords, Reviewer!Working, Drives, Reviewer!None
  <2>2. rv_call' \in [Calls -> CallRecords]
    BY <1>1, <1>2, <1>3, <1>4, <1>5, <1>6, <1>7, <1>8, <1>9, CallGoes DEF ReviewerInv, ReviewerTypes, CallRecords,
       Answers
  <2>3. rv_shutdown' \in [pc : {"up", "closing", "ending", "exited"}, of : Calls \cup {Reviewer!None}, unread : BOOLEAN]
    BY <1>1, <1>2, <1>3, <1>4, <1>5, <1>6, <1>7, <1>8, <1>9 DEF ReviewerInv, ReviewerTypes
  <2>4. rv_reviewer' \in [Calls -> {"none", "starting", "runs", "turn_over", "failed", "closed"}]
    BY <1>1, <1>2, <1>3, <1>4, <1>5, <1>6, <1>7, <1>8, <1>9 DEF ReviewerInv, ReviewerTypes
  <2>5. rv_handle' \in Calls \cup {Reviewer!None} /\ rv_events' \in Seq(EventRecords)
    BY <1>1, <1>2, <1>3, <1>4, <1>5, <1>6, <1>7, <1>8, <1>9 DEF ReviewerInv, ReviewerTypes
  <2> QED BY <1>1, <1>2, <1>3, <1>4, <1>5, <1>6, <1>7, <1>8, <1>9, <2>1, <2>2, <2>3, <2>4, <2>5 DEF ReviewerInv,
  ReviewerTypes, Reviewer!None
<1>11. OneCallRaces'
  BY <1>1, <1>2, <1>3, <1>4, <1>5, <1>6, <1>7, <1>8, <1>9 DEF ReviewerInv, OneCallRaces, Reviewer!Racing
<1>12. ProgressOwns'
  BY <1>1, <1>2, <1>3, <1>4, <1>5, <1>6, <1>7, <1>8, <1>9 DEF ReviewerInv, ReviewerTypes, OneCallRaces, ProgressOwns,
     Reviewer!HostUp, Reviewer!InProgress, Reviewer!OnStart, Reviewer!Racing, Reviewer!Working, Reviewer!None
<1>13. AliveIsHeld'
  BY <1>1, <1>2, <1>3, <1>4, <1>5, <1>6, <1>7, <1>8, <1>9 DEF ReviewerInv, ReviewerTypes, AliveIsHeld, PlacesAgree,
     ProgressOwns, Reviewer!HostUp, Reviewer!Alive, Reviewer!InProgress, Reviewer!OnStart, Reviewer!Working,
     Reviewer!None
<1>14. OneOccupied'
  BY <1>1, <1>2, <1>3, <1>4, <1>5, <1>6, <1>7, <1>8, <1>9 DEF ReviewerInv, ReviewerTypes, OneOccupied, Occupied,
     Reviewer!Alive
<1>15. PlacesAgree'
  BY <1>1, <1>2, <1>3, <1>4, <1>5, <1>6, <1>7, <1>8, <1>9 DEF ReviewerInv, ReviewerTypes, PlacesAgree,
     Reviewer!Started,
     Reviewer!Occurs, Reviewer!Working
<1>16. EndedOnce'
  BY <1>1, <1>2, <1>3, <1>4, <1>5, <1>6, <1>7, <1>8, <1>9 DEF ReviewerInv, EndedOnce, Reviewer!Occurs
<1>17. OpenHaveOwners'
  <2> SUFFICES ASSUME NEW d \in Calls, Reviewer!Started(d)', (Reviewer!Alive(d) \/ ~Reviewer!Ended(d))' PROVE HasOwner(d)'
    BY DEF OpenHaveOwners
  <2>1. /\ Reviewer!HostUp' /\ rv_handle' = rv_handle
        /\ \A f \in Calls : (Reviewer!Ended(f)' <=> Reviewer!Ended(f)) /\ (Reviewer!Alive(f)' <=> Reviewer!Alive(f))
    <3>1. \A f \in Calls : Reviewer!Ended(f)' <=> Reviewer!Ended(f)
      BY <1>5 DEF Reviewer!Ended, Reviewer!Occurs
    <3>2. \A f \in Calls : Reviewer!Alive(f)' <=> Reviewer!Alive(f)
      BY <1>4, <1>8, <1>9 DEF Reviewer!Alive, Occupied, ReviewerInv, ReviewerTypes
    <3> QED BY <1>1, <1>2, <3>1, <3>2 DEF Reviewer!HostUp
  <2>2. CASE d = c
    <3>1. ~Reviewer!Started(c)
      BY <1>1 DEF ReviewerInv, PlacesAgree
    <3>2. rv_trigger'[c].pc = "starting"
      BY <1>9, <2>2, <3>1 DEF Reviewer!Started, Reviewer!Occurs
    <3> QED BY <2>2, <3>2 DEF HasOwner, Reviewer!InProgress, Reviewer!Working
  <2>3. CASE d # c
    <3>1. Reviewer!Started(d)
      BY <1>5, <2>3 DEF Reviewer!Started, Reviewer!Occurs
    <3>2. HasOwner(d)
      BY <2>1, <3>1 DEF ReviewerInv, OpenHaveOwners
    <3> QED BY <1>1, <1>4, <2>1, <2>3, <3>2 DEF HasOwner, Reviewer!InProgress
  <2> QED BY <2>2, <2>3
<1> QED BY <1>10, <1>11, <1>12, <1>13, <1>14, <1>15, <1>16, <1>17 DEF ReviewerInv

\* The session starts, or fails to.
LEMMA StartSessionKeeps ==
  ASSUME Reviewer!None \notin Calls, ReviewerInv, NEW c \in Calls, NEW ok \in BOOLEAN, Reviewer!StartSession(c,
         ok)
  PROVE  ReviewerInv'
<1>1. Reviewer!HostUp /\ rv_trigger[c].pc = "starting"
  BY DEF Reviewer!StartSession
<1>2. UNCHANGED <<rv_call, rv_events, rv_shutdown>>
  BY DEF Reviewer!StartSession
<1>3. \/ /\ rv_handle' = c /\ rv_reviewer' = [rv_reviewer EXCEPT ![c] = "runs"]
         /\ Reviewer!Goto(c, "driving", "none")
      \/ /\ rv_handle' = rv_handle /\ rv_reviewer' = [rv_reviewer EXCEPT ![c] = "closed"]
         /\ Reviewer!Goto(c, "committing", "start_failed")
  BY DEF Reviewer!StartSession
<1>4. \A d \in Calls \ {c} : rv_trigger'[d] = rv_trigger[d] /\ rv_reviewer'[d] = rv_reviewer[d]
  BY <1>3, TriggerGoes DEF ReviewerInv, ReviewerTypes, Reviewer!Working, Drives
<1>5. rv_handle = Reviewer!None /\ Reviewer!Racing(c) /\ \A d \in Calls : Reviewer!InProgress(d) => d = c
  BY <1>1, OneInProgress DEF ReviewerInv, ProgressOwns, Reviewer!InProgress, Reviewer!OnStart, Reviewer!Working
<1>6. \A d \in Calls \ {c} : ~Occupied(d)
  BY <1>1, <1>5 DEF ReviewerInv, AliveIsHeld, PlacesAgree, Occupied, Reviewer!InProgress, Reviewer!Working
<1>7. \/ rv_trigger'[c].pc = "driving" /\ rv_trigger'[c].drive = "none" /\ rv_reviewer'[c] = "runs" /\ rv_handle' = c
      \/ rv_trigger'[c].pc = "committing" /\ rv_trigger'[c].drive = "start_failed" /\ rv_reviewer'[c] = "closed" /\ rv_handle' = rv_handle
  BY <1>3, TriggerGoes DEF ReviewerInv, ReviewerTypes, Reviewer!Working, Drives
<1>8. ReviewerTypes'
  <2>1. rv_trigger' \in [Calls -> TriggerRecords]
    BY <1>1, <1>2, <1>3, <1>4, <1>5, <1>6, <1>7, TriggerGoes DEF ReviewerInv, ReviewerTypes, TriggerRecords,
       Reviewer!Working,
       Drives, Reviewer!None
  <2>2. rv_call' \in [Calls -> CallRecords]
    BY <1>1, <1>2, <1>3, <1>4, <1>5, <1>6, <1>7, CallGoes DEF ReviewerInv, ReviewerTypes, CallRecords, Answers
  <2>3. rv_shutdown' \in [pc : {"up", "closing", "ending", "exited"}, of : Calls \cup {Reviewer!None}, unread : BOOLEAN]
    BY <1>1, <1>2, <1>3, <1>4, <1>5, <1>6, <1>7 DEF ReviewerInv, ReviewerTypes
  <2>4. rv_reviewer' \in [Calls -> {"none", "starting", "runs", "turn_over", "failed", "closed"}]
    BY <1>1, <1>2, <1>3, <1>4, <1>5, <1>6, <1>7 DEF ReviewerInv, ReviewerTypes
  <2>5. rv_handle' \in Calls \cup {Reviewer!None} /\ rv_events' \in Seq(EventRecords)
    BY <1>1, <1>2, <1>3, <1>4, <1>5, <1>6, <1>7 DEF ReviewerInv, ReviewerTypes
  <2> QED BY <1>1, <1>2, <1>3, <1>4, <1>5, <1>6, <1>7, <2>1, <2>2, <2>3, <2>4, <2>5 DEF ReviewerInv, ReviewerTypes,
  Reviewer!None
<1>9. OneCallRaces'
  BY <1>1, <1>2, <1>3, <1>4, <1>5, <1>6, <1>7 DEF ReviewerInv, OneCallRaces, Reviewer!Racing
<1>10. ProgressOwns'
  BY <1>1, <1>2, <1>3, <1>4, <1>5, <1>6, <1>7 DEF ReviewerInv, ReviewerTypes, OneCallRaces, ProgressOwns,
     Reviewer!HostUp,
     Reviewer!InProgress, Reviewer!OnStart, Reviewer!Racing, Reviewer!Working, Reviewer!None
<1>11. AliveIsHeld'
  BY <1>1, <1>2, <1>3, <1>4, <1>5, <1>6, <1>7 DEF ReviewerInv, ReviewerTypes, AliveIsHeld, PlacesAgree, ProgressOwns,
     Reviewer!HostUp, Reviewer!Alive, Reviewer!InProgress, Reviewer!OnStart, Reviewer!Working, Reviewer!None
<1>12. OneOccupied'
  BY <1>1, <1>2, <1>3, <1>4, <1>5, <1>6, <1>7 DEF ReviewerInv, ReviewerTypes, OneOccupied, Occupied, Reviewer!Alive
<1>13. PlacesAgree'
  BY <1>1, <1>2, <1>3, <1>4, <1>5, <1>6, <1>7 DEF ReviewerInv, ReviewerTypes, PlacesAgree, Reviewer!Started,
     Reviewer!Occurs, Reviewer!Working
<1>14. EndedOnce'
  BY <1>1, <1>2, <1>3, <1>4, <1>5, <1>6, <1>7 DEF ReviewerInv, EndedOnce, Reviewer!Occurs
<1>15. OpenHaveOwners'
  BY <1>1, <1>2, <1>3, <1>4, <1>5, <1>6, <1>7 DEF ReviewerInv, ReviewerTypes, ProgressOwns, PlacesAgree,
     OpenHaveOwners, HasOwner, Reviewer!HostUp, Reviewer!InProgress, Reviewer!OnStart, Reviewer!Alive,
     Reviewer!Started, Reviewer!Ended, Reviewer!Occurs, Reviewer!Working, Reviewer!None
<1> QED BY <1>8, <1>9, <1>10, <1>11, <1>12, <1>13, <1>14, <1>15 DEF ReviewerInv

\* The reviewer's turn ends.
LEMMA TurnEndsKeeps ==
  ASSUME Reviewer!None \notin Calls, ReviewerInv, NEW c \in Calls, NEW how \in {"turn_over", "failed"},
         Reviewer!TurnEnds(c, how)
  PROVE  ReviewerInv'
<1>1. UNCHANGED <<rv_call, rv_trigger, rv_handle, rv_events, rv_shutdown>>
  BY DEF Reviewer!TurnEnds
<1>2. rv_reviewer[c] = "runs" /\ rv_reviewer' = [rv_reviewer EXCEPT ![c] = how]
  BY DEF Reviewer!TurnEnds
<1>3. \A d \in Calls : rv_reviewer'[d] = rv_reviewer[d] \/ (d = c /\ rv_reviewer[d] = "runs" /\ rv_reviewer'[d] = how)
  BY <1>2, TriggerGoes DEF ReviewerInv, ReviewerTypes, Reviewer!Working, Drives
<1>4. ReviewerTypes'
  <2>1. rv_trigger' \in [Calls -> TriggerRecords]
    BY <1>1, <1>2, <1>3, TriggerGoes DEF ReviewerInv, ReviewerTypes, TriggerRecords, Reviewer!Working, Drives,
       Reviewer!None
  <2>2. rv_call' \in [Calls -> CallRecords]
    BY <1>1, <1>2, <1>3, CallGoes DEF ReviewerInv, ReviewerTypes, CallRecords, Answers
  <2>3. rv_shutdown' \in [pc : {"up", "closing", "ending", "exited"}, of : Calls \cup {Reviewer!None}, unread : BOOLEAN]
    BY <1>1, <1>2, <1>3 DEF ReviewerInv, ReviewerTypes
  <2>4. rv_reviewer' \in [Calls -> {"none", "starting", "runs", "turn_over", "failed", "closed"}]
    BY <1>1, <1>2, <1>3 DEF ReviewerInv, ReviewerTypes
  <2>5. rv_handle' \in Calls \cup {Reviewer!None} /\ rv_events' \in Seq(EventRecords)
    BY <1>1, <1>2, <1>3 DEF ReviewerInv, ReviewerTypes
  <2> QED BY <1>1, <1>2, <1>3, <2>1, <2>2, <2>3, <2>4, <2>5 DEF ReviewerInv, ReviewerTypes, Reviewer!None
<1>5. OneCallRaces'
  BY <1>1, <1>2, <1>3 DEF ReviewerInv, OneCallRaces, Reviewer!Racing
<1>6. ProgressOwns'
  BY <1>1, <1>2, <1>3 DEF ReviewerInv, ReviewerTypes, OneCallRaces, ProgressOwns, Reviewer!HostUp,
     Reviewer!InProgress, Reviewer!OnStart,
     Reviewer!Racing, Reviewer!Working, Reviewer!None
<1>7. AliveIsHeld'
  BY <1>1, <1>2, <1>3 DEF ReviewerInv, ReviewerTypes, AliveIsHeld, PlacesAgree, ProgressOwns, Reviewer!HostUp,
     Reviewer!Alive,
     Reviewer!InProgress, Reviewer!OnStart, Reviewer!Working, Reviewer!None
<1>8. OneOccupied'
  BY <1>1, <1>2, <1>3 DEF ReviewerInv, ReviewerTypes, OneOccupied, Occupied, Reviewer!Alive
<1>9. PlacesAgree'
  BY <1>1, <1>2, <1>3 DEF ReviewerInv, ReviewerTypes, PlacesAgree, Reviewer!Started, Reviewer!Occurs, Reviewer!Working
<1>10. EndedOnce'
  BY <1>1, <1>2, <1>3 DEF ReviewerInv, EndedOnce, Reviewer!Occurs
<1>11. OpenHaveOwners'
  BY <1>1, <1>2, <1>3 DEF ReviewerInv, ReviewerTypes, ProgressOwns, PlacesAgree, OpenHaveOwners, HasOwner,
     Reviewer!HostUp,
     Reviewer!InProgress, Reviewer!OnStart, Reviewer!Alive, Reviewer!Started, Reviewer!Ended, Reviewer!Occurs,
     Reviewer!Working, Reviewer!None
<1> QED BY <1>4, <1>5, <1>6, <1>7, <1>8, <1>9, <1>10, <1>11 DEF ReviewerInv

\* The review is over, in one of four ways.
LEMMA DriveEndsKeeps ==
  ASSUME Reviewer!None \notin Calls, ReviewerInv, NEW c \in Calls, NEW how \in {"natural", "failed",
         "rejected", "timed_out"}, Reviewer!DriveEnds(c, how)
  PROVE  ReviewerInv'
<1>1. UNCHANGED <<rv_call, rv_handle, rv_reviewer, rv_events, rv_shutdown>>
  BY DEF Reviewer!DriveEnds
<1>2. rv_trigger[c].pc = "driving" /\ Reviewer!Goto(c, "closing", how)
  BY DEF Reviewer!DriveEnds
<1>3. /\ rv_trigger'[c].pc = "closing" /\ rv_trigger'[c].drive = how
      /\ \A d \in Calls \ {c} : rv_trigger'[d] = rv_trigger[d]
  BY <1>2, TriggerGoes DEF ReviewerInv, ReviewerTypes, Reviewer!Working, Drives
<1>4. rv_trigger[c].drive # "start_failed"
  BY <1>2 DEF ReviewerInv, ReviewerTypes, PlacesAgree
<1>5. ReviewerTypes'
  <2>1. rv_trigger' \in [Calls -> TriggerRecords]
    BY <1>1, <1>2, <1>3, <1>4, TriggerGoes DEF ReviewerInv, ReviewerTypes, TriggerRecords, Reviewer!Working, Drives,
       Reviewer!None
  <2>2. rv_call' \in [Calls -> CallRecords]
    BY <1>1, <1>2, <1>3, <1>4, CallGoes DEF ReviewerInv, ReviewerTypes, CallRecords, Answers
  <2>3. rv_shutdown' \in [pc : {"up", "closing", "ending", "exited"}, of : Calls \cup {Reviewer!None}, unread : BOOLEAN]
    BY <1>1, <1>2, <1>3, <1>4 DEF ReviewerInv, ReviewerTypes
  <2>4. rv_reviewer' \in [Calls -> {"none", "starting", "runs", "turn_over", "failed", "closed"}]
    BY <1>1, <1>2, <1>3, <1>4 DEF ReviewerInv, ReviewerTypes
  <2>5. rv_handle' \in Calls \cup {Reviewer!None} /\ rv_events' \in Seq(EventRecords)
    BY <1>1, <1>2, <1>3, <1>4 DEF ReviewerInv, ReviewerTypes
  <2> QED BY <1>1, <1>2, <1>3, <1>4, <2>1, <2>2, <2>3, <2>4, <2>5 DEF ReviewerInv, ReviewerTypes, Reviewer!None
<1>6. OneCallRaces'
  BY <1>1, <1>2, <1>3, <1>4 DEF ReviewerInv, OneCallRaces, Reviewer!Racing
<1>7. ProgressOwns'
  BY <1>1, <1>2, <1>3, <1>4 DEF ReviewerInv, ReviewerTypes, OneCallRaces, ProgressOwns, Reviewer!HostUp,
     Reviewer!InProgress, Reviewer!OnStart,
     Reviewer!Racing, Reviewer!Working, Reviewer!None
<1>8. AliveIsHeld'
  BY <1>1, <1>2, <1>3, <1>4 DEF ReviewerInv, ReviewerTypes, AliveIsHeld, PlacesAgree, ProgressOwns, Reviewer!HostUp,
     Reviewer!Alive,
     Reviewer!InProgress, Reviewer!OnStart, Reviewer!Working, Reviewer!None
<1>9. OneOccupied'
  BY <1>1, <1>2, <1>3, <1>4 DEF ReviewerInv, ReviewerTypes, OneOccupied, Occupied, Reviewer!Alive
<1>10. PlacesAgree'
  BY <1>1, <1>2, <1>3, <1>4 DEF ReviewerInv, ReviewerTypes, PlacesAgree, Reviewer!Started, Reviewer!Occurs,
     Reviewer!Working
<1>11. EndedOnce'
  BY <1>1, <1>2, <1>3, <1>4 DEF ReviewerInv, EndedOnce, Reviewer!Occurs
<1>12. OpenHaveOwners'
  BY <1>1, <1>2, <1>3, <1>4 DEF ReviewerInv, ReviewerTypes, ProgressOwns, PlacesAgree, OpenHaveOwners, HasOwner,
     Reviewer!HostUp, Reviewer!InProgress, Reviewer!OnStart, Reviewer!Alive, Reviewer!Started, Reviewer!Ended,
     Reviewer!Occurs, Reviewer!Working, Reviewer!None
<1> QED BY <1>5, <1>6, <1>7, <1>8, <1>9, <1>10, <1>11, <1>12 DEF ReviewerInv

\* The session is closed, or the close fails.
LEMMA DriveClosesKeeps ==
  ASSUME Reviewer!None \notin Calls, ReviewerInv, NEW c \in Calls, NEW ok \in BOOLEAN, Reviewer!DriveCloses(c, ok)
  PROVE  ReviewerInv'
<1>1. UNCHANGED <<rv_call, rv_handle, rv_events, rv_shutdown>>
  BY DEF Reviewer!DriveCloses
<1>2. rv_trigger[c].pc = "closing" /\ rv_trigger[c].drive # "start_failed"
  BY DEF Reviewer!DriveCloses, ReviewerInv, PlacesAgree
<1>3. /\ Reviewer!Goto(c, "reporting", Reviewer!Closed(rv_trigger[c].drive, ok))
      /\ rv_reviewer' = IF ok THEN [rv_reviewer EXCEPT ![c] = "closed"] ELSE rv_reviewer
  BY DEF Reviewer!DriveCloses
<1>4. PICK how \in Drives \ {"start_failed"} : how = Reviewer!Closed(rv_trigger[c].drive, ok)
  BY <1>2 DEF ReviewerInv, ReviewerTypes, TriggerRecords, Reviewer!Closed, Drives
<1>5. /\ rv_trigger' \in [Calls -> TriggerRecords] /\ rv_trigger'[c].pc = "reporting" /\ rv_trigger'[c].drive = how
      /\ \A d \in Calls \ {c} : rv_trigger'[d] = rv_trigger[d] /\ rv_reviewer'[d] = rv_reviewer[d]
      /\ rv_reviewer'[c] \in {rv_reviewer[c], "closed"}
      /\ rv_trigger'[c].drive # "close_failed" => rv_reviewer'[c] = "closed"
  <2>1. Reviewer!Goto(c, "reporting", how) /\ how \in Drives /\ "reporting" \in Reviewer!Working
    BY <1>3, <1>4 DEF Reviewer!Working
  <2>2. rv_trigger \in [Calls -> TriggerRecords] /\ rv_reviewer \in [Calls -> {"none", "starting", "runs", "turn_over", "failed", "closed"}]
    BY DEF ReviewerInv, ReviewerTypes
  <2>3. /\ rv_trigger' \in [Calls -> TriggerRecords] /\ rv_trigger'[c].pc = "reporting" /\ rv_trigger'[c].drive = how
        /\ \A d \in Calls \ {c} : rv_trigger'[d] = rv_trigger[d]
    BY <2>1, <2>2, TriggerGoes
  <2>4. how # "close_failed" => ok
    BY <1>4 DEF Reviewer!Closed
  <2> QED BY <1>3, <2>2, <2>3, <2>4
<1>6. ReviewerTypes'
  <2>1. rv_trigger' \in [Calls -> TriggerRecords]
    BY <1>1, <1>2, <1>3, <1>4, <1>5, TriggerGoes DEF ReviewerInv, ReviewerTypes, TriggerRecords, Reviewer!Working,
       Drives, Reviewer!None
  <2>2. rv_call' \in [Calls -> CallRecords]
    BY <1>1, <1>2, <1>3, <1>4, <1>5, CallGoes DEF ReviewerInv, ReviewerTypes, CallRecords, Answers
  <2>3. rv_shutdown' \in [pc : {"up", "closing", "ending", "exited"}, of : Calls \cup {Reviewer!None}, unread : BOOLEAN]
    BY <1>1, <1>2, <1>3, <1>4, <1>5 DEF ReviewerInv, ReviewerTypes
  <2>4. rv_reviewer' \in [Calls -> {"none", "starting", "runs", "turn_over", "failed", "closed"}]
    BY <1>1, <1>2, <1>3, <1>4, <1>5 DEF ReviewerInv, ReviewerTypes
  <2>5. rv_handle' \in Calls \cup {Reviewer!None} /\ rv_events' \in Seq(EventRecords)
    BY <1>1, <1>2, <1>3, <1>4, <1>5 DEF ReviewerInv, ReviewerTypes
  <2> QED BY <1>1, <1>2, <1>3, <1>4, <1>5, <2>1, <2>2, <2>3, <2>4, <2>5 DEF ReviewerInv, ReviewerTypes, Reviewer!None
<1>7. OneCallRaces'
  BY <1>1, <1>2, <1>3, <1>4, <1>5 DEF ReviewerInv, OneCallRaces, Reviewer!Racing
<1>8. ProgressOwns'
  BY <1>1, <1>2, <1>3, <1>4, <1>5 DEF ReviewerInv, ReviewerTypes, OneCallRaces, ProgressOwns, Reviewer!HostUp,
     Reviewer!InProgress,
     Reviewer!OnStart, Reviewer!Racing, Reviewer!Working, Reviewer!None
<1>9. AliveIsHeld'
  BY <1>1, <1>2, <1>3, <1>4, <1>5 DEF ReviewerInv, ReviewerTypes, AliveIsHeld, PlacesAgree, ProgressOwns,
     Reviewer!HostUp,
     Reviewer!Alive, Reviewer!InProgress, Reviewer!OnStart, Reviewer!Working, Reviewer!None
<1>10. OneOccupied'
  BY <1>1, <1>2, <1>3, <1>4, <1>5 DEF ReviewerInv, ReviewerTypes, OneOccupied, Occupied, Reviewer!Alive
<1>11. PlacesAgree'
  BY <1>1, <1>2, <1>3, <1>4, <1>5 DEF ReviewerInv, ReviewerTypes, PlacesAgree, Reviewer!Started, Reviewer!Occurs,
     Reviewer!Working
<1>12. EndedOnce'
  BY <1>1, <1>2, <1>3, <1>4, <1>5 DEF ReviewerInv, EndedOnce, Reviewer!Occurs
<1>13. OpenHaveOwners'
  BY <1>1, <1>2, <1>3, <1>4, <1>5 DEF ReviewerInv, ReviewerTypes, ProgressOwns, PlacesAgree, OpenHaveOwners,
     HasOwner, Reviewer!HostUp, Reviewer!InProgress, Reviewer!OnStart, Reviewer!Alive, Reviewer!Started,
     Reviewer!Ended, Reviewer!Occurs, Reviewer!Working, Reviewer!None
<1> QED BY <1>6, <1>7, <1>8, <1>9, <1>10, <1>11, <1>12, <1>13 DEF ReviewerInv

\* Meta is told, and the tool returns when the close had failed.
LEMMA ReportKeeps ==
  ASSUME Reviewer!None \notin Calls, ReviewerInv, NEW c \in Calls, NEW first \in BOOLEAN,
         NEW second \in BOOLEAN, Reviewer!Report(c, first, second)
  PROVE  ReviewerInv'
<1>1. UNCHANGED <<rv_handle, rv_reviewer, rv_events, rv_shutdown>>
  BY DEF Reviewer!Report
<1>2. Reviewer!HostUp /\ rv_trigger[c].pc = "reporting" /\ rv_trigger[c].drive # "start_failed"
  BY DEF Reviewer!Report, ReviewerInv, PlacesAgree
<1>3. PICK r \in TriggerRecords :
        /\ rv_trigger' = [rv_trigger EXCEPT ![c] = r]
        /\ r.pc = IF rv_trigger[c].drive = "close_failed" THEN "returned" ELSE "committing"
        /\ r.drive = rv_trigger[c].drive
  <2>1. PICK kind \in {"reviewer_verdict", "host_event", Reviewer!None}, pc \in {"returned", "committing"} :
          /\ rv_trigger' = [rv_trigger EXCEPT ![c] = [rv_trigger[c] EXCEPT !.kind = kind, !.pc = pc]]
          /\ pc = IF rv_trigger[c].drive = "close_failed" THEN "returned" ELSE "committing"
    BY DEF Reviewer!Report, Reviewer!FellBack
  <2>2. rv_trigger[c] \in TriggerRecords
    BY DEF ReviewerInv, ReviewerTypes
  <2>3. /\ [rv_trigger[c] EXCEPT !.kind = kind, !.pc = pc] \in TriggerRecords
        /\ [rv_trigger[c] EXCEPT !.kind = kind, !.pc = pc].pc = pc
        /\ [rv_trigger[c] EXCEPT !.kind = kind, !.pc = pc].drive = rv_trigger[c].drive
    BY <2>2 DEF TriggerRecords, Reviewer!Working
  <2> QED BY <2>1, <2>3
<1>4. \/ rv_call' = rv_call
      \/ /\ rv_call' \in [Calls -> CallRecords]
         /\ \A d \in Calls : Reviewer!Racing(d)' => Reviewer!Racing(d) /\ d # c
  BY AnswerEnds DEF Reviewer!Report, Reviewer!Returns, ReviewerInv, Answers
<1>5. \A d \in Calls \ {c} : rv_trigger'[d] = rv_trigger[d]
  BY <1>3 DEF ReviewerInv, ReviewerTypes
<1>6. /\ rv_trigger'[c].pc = IF rv_trigger[c].drive = "close_failed" THEN "returned" ELSE "committing"
      /\ rv_trigger'[c].drive = rv_trigger[c].drive
  BY <1>3 DEF ReviewerInv, ReviewerTypes
<1>7. rv_handle = c /\ \A d \in Calls : Reviewer!InProgress(d) => d = c
  BY <1>2, OneInProgress DEF ReviewerInv, ProgressOwns, Reviewer!InProgress, Reviewer!OnStart, Reviewer!Working
<1>8. ReviewerTypes'
  <2>1. rv_trigger' \in [Calls -> TriggerRecords]
    BY <1>1, <1>2, <1>3, <1>4, <1>5, <1>6, <1>7 DEF ReviewerInv, ReviewerTypes
  <2>2. rv_call' \in [Calls -> CallRecords]
    BY <1>1, <1>2, <1>3, <1>4, <1>5, <1>6, <1>7, CallGoes DEF ReviewerInv, ReviewerTypes, CallRecords, Answers
  <2>3. rv_shutdown' \in [pc : {"up", "closing", "ending", "exited"}, of : Calls \cup {Reviewer!None}, unread : BOOLEAN]
    BY <1>1, <1>2, <1>3, <1>4, <1>5, <1>6, <1>7 DEF ReviewerInv, ReviewerTypes
  <2>4. rv_reviewer' \in [Calls -> {"none", "starting", "runs", "turn_over", "failed", "closed"}]
    BY <1>1, <1>2, <1>3, <1>4, <1>5, <1>6, <1>7 DEF ReviewerInv, ReviewerTypes
  <2>5. rv_handle' \in Calls \cup {Reviewer!None} /\ rv_events' \in Seq(EventRecords)
    BY <1>1, <1>2, <1>3, <1>4, <1>5, <1>6, <1>7 DEF ReviewerInv, ReviewerTypes
  <2> QED BY <1>1, <1>2, <1>3, <1>4, <1>5, <1>6, <1>7, <2>1, <2>2, <2>3, <2>4, <2>5 DEF ReviewerInv, ReviewerTypes,
  Reviewer!None
<1>9. OneCallRaces'
  BY <1>1, <1>2, <1>3, <1>4, <1>5, <1>6, <1>7 DEF ReviewerInv, OneCallRaces, Reviewer!Racing
<1>10. ProgressOwns'
  BY <1>1, <1>2, <1>3, <1>4, <1>5, <1>6, <1>7 DEF ReviewerInv, ReviewerTypes, OneCallRaces, ProgressOwns,
     Reviewer!HostUp,
     Reviewer!InProgress, Reviewer!OnStart, Reviewer!Racing, Reviewer!Working, Reviewer!None
<1>11. AliveIsHeld'
  BY <1>1, <1>2, <1>3, <1>4, <1>5, <1>6, <1>7 DEF ReviewerInv, ReviewerTypes, AliveIsHeld, PlacesAgree, ProgressOwns,
     Reviewer!HostUp, Reviewer!Alive, Reviewer!InProgress, Reviewer!OnStart, Reviewer!Working, Reviewer!None
<1>12. OneOccupied'
  BY <1>1, <1>2, <1>3, <1>4, <1>5, <1>6, <1>7 DEF ReviewerInv, ReviewerTypes, OneOccupied, Occupied, Reviewer!Alive
<1>13. PlacesAgree'
  BY <1>1, <1>2, <1>3, <1>4, <1>5, <1>6, <1>7 DEF ReviewerInv, ReviewerTypes, PlacesAgree, Reviewer!Started,
     Reviewer!Occurs, Reviewer!Working
<1>14. EndedOnce'
  BY <1>1, <1>2, <1>3, <1>4, <1>5, <1>6, <1>7 DEF ReviewerInv, EndedOnce, Reviewer!Occurs
<1>15. OpenHaveOwners'
  BY <1>1, <1>2, <1>3, <1>4, <1>5, <1>6, <1>7 DEF ReviewerInv, ReviewerTypes, ProgressOwns, PlacesAgree,
     OpenHaveOwners, HasOwner, Reviewer!HostUp, Reviewer!InProgress, Reviewer!OnStart, Reviewer!Alive,
     Reviewer!Started, Reviewer!Ended, Reviewer!Occurs, Reviewer!Working, Reviewer!None
<1> QED BY <1>8, <1>9, <1>10, <1>11, <1>12, <1>13, <1>14, <1>15 DEF ReviewerInv

\* ENDED is in the log and the handle cleared, or the handle is kept.
LEMMA CommitKeeps ==
  ASSUME Reviewer!None \notin Calls, ReviewerInv, NEW c \in Calls, NEW readable \in BOOLEAN,
         NEW reported \in BOOLEAN, Reviewer!Commit(c, readable, reported)
  PROVE  ReviewerInv'
<1>1. UNCHANGED <<rv_reviewer, rv_shutdown>>
  BY DEF Reviewer!Commit
<1>2. Reviewer!HostUp /\ rv_trigger[c].pc = "committing"
  BY DEF Reviewer!Commit
<1>3. Reviewer!Goto(c, "returned", rv_trigger[c].drive)
  BY DEF Reviewer!Commit
<1>4. rv_call' \in [Calls -> CallRecords] /\ \A d \in Calls : Reviewer!Racing(d)' => Reviewer!Racing(d) /\ d # c
  BY AnswerEnds DEF Reviewer!Commit, Reviewer!Returns, ReviewerInv, Answers
<1>5. /\ rv_trigger' \in [Calls -> TriggerRecords]
      /\ \A d \in Calls \ {c} : rv_trigger'[d] = rv_trigger[d]
      /\ rv_trigger'[c].pc = "returned" /\ rv_trigger'[c].drive = rv_trigger[c].drive
  <2>1. rv_trigger \in [Calls -> TriggerRecords]
    BY DEF ReviewerInv, ReviewerTypes
  <2>2. rv_trigger[c].drive \in Drives
    BY <2>1 DEF TriggerRecords
  <2> QED BY <1>3, <2>1, <2>2, TriggerGoes
<1>6. \A d \in Calls \ {c} : rv_handle # d /\ ~Reviewer!InProgress(d)
  <2>1. IF Reviewer!OnStart(c) THEN rv_handle = Reviewer!None ELSE rv_handle = c
    BY <1>2 DEF ReviewerInv, ProgressOwns, Reviewer!InProgress, Reviewer!Working
  <2> QED BY <1>2, <2>1, OneInProgress DEF Reviewer!InProgress, Reviewer!Working
<1>7. \A d \in Calls : Reviewer!InProgress(d) => d = c
  BY <1>2, OneInProgress DEF Reviewer!InProgress, Reviewer!Working
<1>8. rv_reviewer[c] = "closed" /\ (IF rv_trigger[c].drive = "start_failed" THEN rv_handle = Reviewer!None ELSE rv_handle = c)
  BY <1>2 DEF ReviewerInv, PlacesAgree, ProgressOwns, Reviewer!InProgress, Reviewer!OnStart, Reviewer!Working
<1>9. \A d \in Calls : ~Reviewer!Alive(d)
  BY <1>2, <1>8 DEF ReviewerInv, AliveIsHeld, Reviewer!Alive, Reviewer!None
<1>10. \/ rv_events' = rv_events /\ rv_handle' = rv_handle
      \/ /\ rv_handle' = Reviewer!None /\ rv_events' \in Seq(EventRecords) /\ EndedOnce'
         /\ \A d \in Calls : (Reviewer!Started(d)' <=> Reviewer!Started(d)) /\ (Reviewer!Ended(d)' <=> Reviewer!Ended(d) \/ d = c)
  BY EndedEvent DEF Reviewer!Commit, ReviewerInv
<1>11. ReviewerTypes'
  <2>1. rv_trigger' \in [Calls -> TriggerRecords]
    BY <1>1, <1>2, <1>3, <1>4, <1>5, <1>6, <1>7, <1>8, <1>9, <1>10 DEF ReviewerInv, ReviewerTypes
  <2>2. rv_call' \in [Calls -> CallRecords]
    BY <1>1, <1>2, <1>3, <1>4, <1>5, <1>6, <1>7, <1>8, <1>9, <1>10, CallGoes DEF ReviewerInv, ReviewerTypes,
       CallRecords, Answers
  <2>3. rv_shutdown' \in [pc : {"up", "closing", "ending", "exited"}, of : Calls \cup {Reviewer!None}, unread : BOOLEAN]
    BY <1>1, <1>2, <1>3, <1>4, <1>5, <1>6, <1>7, <1>8, <1>9, <1>10 DEF ReviewerInv, ReviewerTypes
  <2>4. rv_reviewer' \in [Calls -> {"none", "starting", "runs", "turn_over", "failed", "closed"}]
    BY <1>1, <1>2, <1>3, <1>4, <1>5, <1>6, <1>7, <1>8, <1>9, <1>10 DEF ReviewerInv, ReviewerTypes
  <2>5. rv_handle' \in Calls \cup {Reviewer!None} /\ rv_events' \in Seq(EventRecords)
    BY <1>1, <1>2, <1>3, <1>4, <1>5, <1>6, <1>7, <1>8, <1>9, <1>10 DEF ReviewerInv, ReviewerTypes
  <2> QED BY <1>1, <1>2, <1>3, <1>4, <1>5, <1>6, <1>7, <1>8, <1>9, <1>10, <2>1, <2>2, <2>3, <2>4,
  <2>5 DEF ReviewerInv, ReviewerTypes, Reviewer!None
<1>12. OneCallRaces'
  BY <1>1, <1>2, <1>3, <1>4, <1>5, <1>6, <1>7, <1>8, <1>9, <1>10 DEF ReviewerInv, OneCallRaces, Reviewer!Racing
<1>13. ProgressOwns'
  BY <1>1, <1>2, <1>3, <1>4, <1>5, <1>6, <1>7, <1>8, <1>9, <1>10 DEF ReviewerInv, ReviewerTypes, OneCallRaces,
     ProgressOwns, Reviewer!HostUp, Reviewer!InProgress, Reviewer!OnStart, Reviewer!Racing, Reviewer!Working,
     Reviewer!None
<1>14. AliveIsHeld'
  BY <1>1, <1>2, <1>3, <1>4, <1>5, <1>6, <1>7, <1>8, <1>9, <1>10 DEF ReviewerInv, ReviewerTypes, AliveIsHeld,
     PlacesAgree, ProgressOwns, Reviewer!HostUp, Reviewer!Alive, Reviewer!InProgress, Reviewer!OnStart,
     Reviewer!Working, Reviewer!None
<1>15. OneOccupied'
  BY <1>1, <1>2, <1>3, <1>4, <1>5, <1>6, <1>7, <1>8, <1>9, <1>10 DEF ReviewerInv, ReviewerTypes, OneOccupied,
     Occupied, Reviewer!Alive
<1>16. PlacesAgree'
  <2>1. \A d \in Calls : Reviewer!Started(d)' <=> Reviewer!Started(d)
    BY <1>10 DEF Reviewer!Started, Reviewer!Occurs
  <2> QED BY <1>1, <1>2, <1>5, <1>8, <2>1 DEF ReviewerInv, PlacesAgree, Reviewer!Working
<1>17. EndedOnce'
  BY <1>1, <1>2, <1>3, <1>4, <1>5, <1>6, <1>7, <1>8, <1>9, <1>10 DEF ReviewerInv, EndedOnce, Reviewer!Occurs
<1>18. OpenHaveOwners'
  <2> SUFFICES ASSUME NEW d \in Calls, Reviewer!Started(d)', Reviewer!Alive(d)' \/ ~Reviewer!Ended(d)' PROVE HasOwner(d)'
    BY DEF OpenHaveOwners
  <2>1. ~Reviewer!Alive(d)' /\ ~Reviewer!Ended(d)'
    BY <1>1, <1>9 DEF Reviewer!Alive
  <2>2. /\ Reviewer!Started(d) /\ ~Reviewer!Ended(d)
        /\ d = c => rv_events' = rv_events /\ rv_handle' = rv_handle
    BY <1>10, <2>1 DEF Reviewer!Started, Reviewer!Ended, Reviewer!Occurs
  <2>3. CASE d = c
    <3>1. rv_trigger'[c].drive = "start_failed" \/ rv_handle' = c
      BY <1>5, <1>8, <2>2, <2>3
    <3> QED BY <2>1, <2>3, <3>1 DEF HasOwner
  <2>4. CASE d # c
    <3>1. HasOwner(d)
      BY <2>2 DEF ReviewerInv, OpenHaveOwners
    <3>2. rv_trigger'[d] = rv_trigger[d] /\ rv_handle # d /\ ~Reviewer!InProgress(d)
      BY <1>5, <1>6, <2>4
    <3>3. rv_trigger[d].drive = "start_failed"
      BY <1>2, <3>1, <3>2 DEF HasOwner
    <3> QED BY <2>1, <3>2, <3>3 DEF HasOwner
  <2> QED BY <2>3, <2>4
<1> QED BY <1>11, <1>12, <1>13, <1>14, <1>15, <1>16, <1>17, <1>18 DEF ReviewerInv

\* The caller stops waiting, but not while the session starts.
LEMMA BridgeStepKeeps ==
  ASSUME Reviewer!None \notin Calls, ReviewerInv, NEW c \in Calls, Reviewer!BridgeStep(c)
  PROVE  ReviewerInv'
<1>1. UNCHANGED <<rv_trigger, rv_handle, rv_reviewer, rv_events, rv_shutdown>>
  BY DEF Reviewer!BridgeStep
<1>2. Reviewer!HostUp
  BY DEF Reviewer!BridgeStep
<1>3. /\ rv_call' \in [Calls -> CallRecords]
      /\ \A d \in Calls : (Reviewer!Racing(d)' => Reviewer!Racing(d)) /\ (Reviewer!OnStart(d) => (Reviewer!Racing(d)' <=> Reviewer!Racing(d)))
  <2>0. rv_call \in [Calls -> CallRecords]
    BY DEF ReviewerInv, ReviewerTypes
  <2>1. CASE Reviewer!TimesOut(c)
    <3>1. /\ [rv_call[c] EXCEPT !.timedOut = TRUE] \in CallRecords
          /\ [rv_call[c] EXCEPT !.timedOut = TRUE].race = rv_call[c].race
      BY <2>0 DEF CallRecords
    <3>2. rv_call' = [rv_call EXCEPT ![c] = [rv_call[c] EXCEPT !.timedOut = TRUE]]
      BY <2>1 DEF Reviewer!TimesOut
    <3> QED BY <2>0, <3>1, <3>2 DEF Reviewer!Racing
  <2>2. CASE Reviewer!GraceEnds(c) /\ ~Reviewer!OnStart(c)
    <3>1. rv_call' = [rv_call EXCEPT ![c] = [rv_call[c] EXCEPT !.race = "over", !.answer = "gave_up"]]
      BY <2>2 DEF Reviewer!GraceEnds, Reviewer!Answer
    <3>2. [rv_call[c] EXCEPT !.race = "over", !.answer = "gave_up"] \in CallRecords
          /\ [rv_call[c] EXCEPT !.race = "over", !.answer = "gave_up"].race = "over"
      BY <2>0 DEF CallRecords, Answers
    <3> QED BY <2>0, <2>2, <3>1, <3>2 DEF Reviewer!Racing
  <2> QED BY <2>1, <2>2 DEF Reviewer!BridgeStep
<1>4. OneCallRaces /\ ProgressOwns
  BY DEF ReviewerInv
<1>5. ReviewerTypes'
  <2>1. rv_trigger' \in [Calls -> TriggerRecords]
    BY <1>1, <1>2, <1>3, <1>4, TriggerGoes DEF ReviewerInv, ReviewerTypes, TriggerRecords, Reviewer!Working, Drives,
       Reviewer!None
  <2>2. rv_call' \in [Calls -> CallRecords]
    BY <1>1, <1>2, <1>3, <1>4, CallGoes DEF ReviewerInv, ReviewerTypes, CallRecords, Answers
  <2>3. rv_shutdown' \in [pc : {"up", "closing", "ending", "exited"}, of : Calls \cup {Reviewer!None}, unread : BOOLEAN]
    BY <1>1, <1>2, <1>3, <1>4 DEF ReviewerInv, ReviewerTypes
  <2>4. rv_reviewer' \in [Calls -> {"none", "starting", "runs", "turn_over", "failed", "closed"}]
    BY <1>1, <1>2, <1>3, <1>4 DEF ReviewerInv, ReviewerTypes
  <2>5. rv_handle' \in Calls \cup {Reviewer!None} /\ rv_events' \in Seq(EventRecords)
    BY <1>1, <1>2, <1>3, <1>4 DEF ReviewerInv, ReviewerTypes
  <2> QED BY <1>1, <1>2, <1>3, <1>4, <2>1, <2>2, <2>3, <2>4, <2>5 DEF ReviewerInv, ReviewerTypes, Reviewer!None
<1>6. OneCallRaces'
  BY <1>1, <1>2, <1>3, <1>4 DEF ReviewerInv, OneCallRaces, Reviewer!Racing
<1>7. ProgressOwns'
  BY <1>1, <1>2, <1>3, <1>4 DEF ReviewerInv, ReviewerTypes, OneCallRaces, ProgressOwns, Reviewer!HostUp,
     Reviewer!InProgress, Reviewer!OnStart,
     Reviewer!Racing, Reviewer!Working, Reviewer!None
<1>8. AliveIsHeld'
  BY <1>1, <1>2, <1>3, <1>4 DEF ReviewerInv, ReviewerTypes, AliveIsHeld, PlacesAgree, ProgressOwns, Reviewer!HostUp,
     Reviewer!Alive,
     Reviewer!InProgress, Reviewer!OnStart, Reviewer!Working, Reviewer!None
<1>9. OneOccupied'
  BY <1>1, <1>2, <1>3, <1>4 DEF ReviewerInv, ReviewerTypes, OneOccupied, Occupied, Reviewer!Alive
<1>10. PlacesAgree'
  BY <1>1, <1>2, <1>3, <1>4 DEF ReviewerInv, ReviewerTypes, PlacesAgree, Reviewer!Started, Reviewer!Occurs,
     Reviewer!Working
<1>11. EndedOnce'
  BY <1>1, <1>2, <1>3, <1>4 DEF ReviewerInv, EndedOnce, Reviewer!Occurs
<1>12. OpenHaveOwners'
  BY <1>1, <1>2, <1>3, <1>4 DEF ReviewerInv, ReviewerTypes, ProgressOwns, PlacesAgree, OpenHaveOwners, HasOwner,
     Reviewer!HostUp, Reviewer!InProgress, Reviewer!OnStart, Reviewer!Alive, Reviewer!Started, Reviewer!Ended,
     Reviewer!Occurs, Reviewer!Working, Reviewer!None
<1> QED BY <1>5, <1>6, <1>7, <1>8, <1>9, <1>10, <1>11, <1>12 DEF ReviewerInv

\* A verdict changes nothing of this.
LEMMA SubmitVerdictKeeps ==
  ASSUME Reviewer!None \notin Calls, ReviewerInv, NEW c \in Calls, NEW v, Reviewer!SubmitVerdict(c, v)
  PROVE  ReviewerInv'
<1>1. UNCHANGED <<rv_call, rv_trigger, rv_handle, rv_reviewer, rv_events, rv_shutdown>>
  BY DEF Reviewer!SubmitVerdict
<1>2. ReviewerTypes'
  <2>1. rv_trigger' \in [Calls -> TriggerRecords]
    BY <1>1, TriggerGoes DEF ReviewerInv, ReviewerTypes, TriggerRecords, Reviewer!Working, Drives, Reviewer!None
  <2>2. rv_call' \in [Calls -> CallRecords]
    BY <1>1, CallGoes DEF ReviewerInv, ReviewerTypes, CallRecords, Answers
  <2>3. rv_shutdown' \in [pc : {"up", "closing", "ending", "exited"}, of : Calls \cup {Reviewer!None}, unread : BOOLEAN]
    BY <1>1 DEF ReviewerInv, ReviewerTypes
  <2>4. rv_reviewer' \in [Calls -> {"none", "starting", "runs", "turn_over", "failed", "closed"}]
    BY <1>1 DEF ReviewerInv, ReviewerTypes
  <2>5. rv_handle' \in Calls \cup {Reviewer!None} /\ rv_events' \in Seq(EventRecords)
    BY <1>1 DEF ReviewerInv, ReviewerTypes
  <2> QED BY <1>1, <2>1, <2>2, <2>3, <2>4, <2>5 DEF ReviewerInv, ReviewerTypes, Reviewer!None
<1>3. OneCallRaces'
  BY <1>1 DEF ReviewerInv, OneCallRaces, Reviewer!Racing
<1>4. ProgressOwns'
  BY <1>1 DEF ReviewerInv, ReviewerTypes, OneCallRaces, ProgressOwns, Reviewer!HostUp, Reviewer!InProgress,
     Reviewer!OnStart, Reviewer!Racing, Reviewer!Working,
     Reviewer!None
<1>5. AliveIsHeld'
  BY <1>1 DEF ReviewerInv, ReviewerTypes, AliveIsHeld, PlacesAgree, ProgressOwns, Reviewer!HostUp, Reviewer!Alive,
     Reviewer!InProgress, Reviewer!OnStart,
     Reviewer!Working, Reviewer!None
<1>6. OneOccupied'
  BY <1>1 DEF ReviewerInv, ReviewerTypes, OneOccupied, Occupied, Reviewer!Alive
<1>7. PlacesAgree'
  BY <1>1 DEF ReviewerInv, ReviewerTypes, PlacesAgree, Reviewer!Started, Reviewer!Occurs, Reviewer!Working
<1>8. EndedOnce'
  BY <1>1 DEF ReviewerInv, EndedOnce, Reviewer!Occurs
<1>9. OpenHaveOwners'
  BY <1>1 DEF ReviewerInv, ReviewerTypes, ProgressOwns, PlacesAgree, OpenHaveOwners, HasOwner, Reviewer!HostUp,
     Reviewer!InProgress,
     Reviewer!OnStart, Reviewer!Alive, Reviewer!Started, Reviewer!Ended, Reviewer!Occurs, Reviewer!Working,
     Reviewer!None
<1> QED BY <1>2, <1>3, <1>4, <1>5, <1>6, <1>7, <1>8, <1>9 DEF ReviewerInv

\* The shutdown captures the handle.
LEMMA ShutdownCapturesKeeps ==
  ASSUME Reviewer!None \notin Calls, ReviewerInv, Reviewer!ShutdownCaptures
  PROVE  ReviewerInv'
<1>1. UNCHANGED <<rv_call, rv_trigger, rv_handle, rv_reviewer, rv_events>>
  BY DEF Reviewer!ShutdownCaptures
<1>2. /\ rv_shutdown.pc = "up"
      /\ rv_shutdown' = [rv_shutdown EXCEPT !.pc = IF rv_handle = Reviewer!None THEN "exited" ELSE "closing", !.of = rv_handle]
  BY DEF Reviewer!ShutdownCaptures
<1>3. /\ rv_shutdown'.pc = (IF rv_handle = Reviewer!None THEN "exited" ELSE "closing") /\ rv_shutdown'.of = rv_handle
      /\ rv_shutdown'.unread = rv_shutdown.unread
  BY <1>2, TriggerGoes DEF ReviewerInv, ReviewerTypes, Reviewer!Working, Drives
<1>4. ReviewerTypes'
  <2>1. rv_trigger' \in [Calls -> TriggerRecords]
    BY <1>1, <1>2, <1>3, TriggerGoes DEF ReviewerInv, ReviewerTypes, TriggerRecords, Reviewer!Working, Drives,
       Reviewer!None
  <2>2. rv_call' \in [Calls -> CallRecords]
    BY <1>1, <1>2, <1>3, CallGoes DEF ReviewerInv, ReviewerTypes, CallRecords, Answers
  <2>3. rv_shutdown' \in [pc : {"up", "closing", "ending", "exited"}, of : Calls \cup {Reviewer!None}, unread : BOOLEAN]
    BY <1>1, <1>2, <1>3 DEF ReviewerInv, ReviewerTypes
  <2>4. rv_reviewer' \in [Calls -> {"none", "starting", "runs", "turn_over", "failed", "closed"}]
    BY <1>1, <1>2, <1>3 DEF ReviewerInv, ReviewerTypes
  <2>5. rv_handle' \in Calls \cup {Reviewer!None} /\ rv_events' \in Seq(EventRecords)
    BY <1>1, <1>2, <1>3 DEF ReviewerInv, ReviewerTypes
  <2> QED BY <1>1, <1>2, <1>3, <2>1, <2>2, <2>3, <2>4, <2>5 DEF ReviewerInv, ReviewerTypes, Reviewer!None
<1>5. OneCallRaces'
  BY <1>1, <1>2, <1>3 DEF ReviewerInv, OneCallRaces, Reviewer!Racing
<1>6. ProgressOwns'
  BY <1>1, <1>2, <1>3 DEF ReviewerInv, ReviewerTypes, OneCallRaces, ProgressOwns, Reviewer!HostUp,
     Reviewer!InProgress, Reviewer!OnStart,
     Reviewer!Racing, Reviewer!Working, Reviewer!None
<1>7. AliveIsHeld'
  BY <1>1, <1>2, <1>3 DEF ReviewerInv, ReviewerTypes, AliveIsHeld, PlacesAgree, ProgressOwns, Reviewer!HostUp,
     Reviewer!Alive,
     Reviewer!InProgress, Reviewer!OnStart, Reviewer!Working, Reviewer!None
<1>8. OneOccupied'
  BY <1>1, <1>2, <1>3 DEF ReviewerInv, ReviewerTypes, OneOccupied, Occupied, Reviewer!Alive
<1>9. PlacesAgree'
  BY <1>1, <1>2, <1>3 DEF ReviewerInv, ReviewerTypes, PlacesAgree, Reviewer!Started, Reviewer!Occurs, Reviewer!Working
<1>10. EndedOnce'
  BY <1>1, <1>2, <1>3 DEF ReviewerInv, EndedOnce, Reviewer!Occurs
<1>11. OpenHaveOwners'
  BY <1>1, <1>2, <1>3 DEF ReviewerInv, ReviewerTypes, ProgressOwns, PlacesAgree, OpenHaveOwners, HasOwner,
     Reviewer!HostUp,
     Reviewer!InProgress, Reviewer!OnStart, Reviewer!Alive, Reviewer!Started, Reviewer!Ended, Reviewer!Occurs,
     Reviewer!Working, Reviewer!None, AliveIsHeld
<1> QED BY <1>4, <1>5, <1>6, <1>7, <1>8, <1>9, <1>10, <1>11 DEF ReviewerInv

\* It closes the session it captured.
LEMMA ShutdownClosesKeeps ==
  ASSUME Reviewer!None \notin Calls, ReviewerInv, NEW ok \in BOOLEAN, Reviewer!ShutdownCloses(ok)
  PROVE  ReviewerInv'
<1>1. UNCHANGED <<rv_call, rv_trigger, rv_handle, rv_events>>
  BY DEF Reviewer!ShutdownCloses
<1>2. /\ rv_shutdown.pc = "closing" /\ rv_shutdown' = [rv_shutdown EXCEPT !.pc = "ending"] /\ rv_shutdown.of \in Calls
      /\ rv_reviewer' = IF ok THEN [rv_reviewer EXCEPT ![rv_shutdown.of] = "closed"] ELSE rv_reviewer
  BY DEF Reviewer!ShutdownCloses, ReviewerInv, ReviewerTypes
<1>3. \A d \in Calls : rv_reviewer'[d] = rv_reviewer[d] \/ rv_reviewer'[d] = "closed"
  BY <1>2, TriggerGoes DEF ReviewerInv, ReviewerTypes, Reviewer!Working, Drives
<1>4. rv_shutdown'.pc = "ending" /\ rv_shutdown'.of = rv_shutdown.of /\ rv_shutdown'.unread = rv_shutdown.unread
  BY <1>2, TriggerGoes DEF ReviewerInv, ReviewerTypes, Reviewer!Working, Drives
<1>5. ReviewerTypes'
  <2>1. rv_trigger' \in [Calls -> TriggerRecords]
    BY <1>1, <1>2, <1>3, <1>4, TriggerGoes DEF ReviewerInv, ReviewerTypes, TriggerRecords, Reviewer!Working, Drives,
       Reviewer!None
  <2>2. rv_call' \in [Calls -> CallRecords]
    BY <1>1, <1>2, <1>3, <1>4, CallGoes DEF ReviewerInv, ReviewerTypes, CallRecords, Answers
  <2>3. rv_shutdown' \in [pc : {"up", "closing", "ending", "exited"}, of : Calls \cup {Reviewer!None}, unread : BOOLEAN]
    BY <1>1, <1>2, <1>3, <1>4 DEF ReviewerInv, ReviewerTypes
  <2>4. rv_reviewer' \in [Calls -> {"none", "starting", "runs", "turn_over", "failed", "closed"}]
    BY <1>1, <1>2, <1>3, <1>4 DEF ReviewerInv, ReviewerTypes
  <2>5. rv_handle' \in Calls \cup {Reviewer!None} /\ rv_events' \in Seq(EventRecords)
    BY <1>1, <1>2, <1>3, <1>4 DEF ReviewerInv, ReviewerTypes
  <2> QED BY <1>1, <1>2, <1>3, <1>4, <2>1, <2>2, <2>3, <2>4, <2>5 DEF ReviewerInv, ReviewerTypes, Reviewer!None
<1>6. OneCallRaces'
  BY <1>1, <1>2, <1>3, <1>4 DEF ReviewerInv, OneCallRaces, Reviewer!Racing
<1>7. ProgressOwns'
  BY <1>1, <1>2, <1>3, <1>4 DEF ReviewerInv, ReviewerTypes, OneCallRaces, ProgressOwns, Reviewer!HostUp,
     Reviewer!InProgress, Reviewer!OnStart,
     Reviewer!Racing, Reviewer!Working, Reviewer!None
<1>8. AliveIsHeld'
  BY <1>1, <1>2, <1>3, <1>4 DEF ReviewerInv, ReviewerTypes, AliveIsHeld, PlacesAgree, ProgressOwns, Reviewer!HostUp,
     Reviewer!Alive,
     Reviewer!InProgress, Reviewer!OnStart, Reviewer!Working, Reviewer!None
<1>9. OneOccupied'
  BY <1>1, <1>2, <1>3, <1>4 DEF ReviewerInv, ReviewerTypes, OneOccupied, Occupied, Reviewer!Alive
<1>10. PlacesAgree'
  BY <1>1, <1>2, <1>3, <1>4 DEF ReviewerInv, ReviewerTypes, PlacesAgree, Reviewer!Started, Reviewer!Occurs,
     Reviewer!Working
<1>11. EndedOnce'
  BY <1>1, <1>2, <1>3, <1>4 DEF ReviewerInv, EndedOnce, Reviewer!Occurs
<1>12. OpenHaveOwners'
  BY <1>1, <1>2, <1>3, <1>4 DEF ReviewerInv, ReviewerTypes, ProgressOwns, PlacesAgree, OpenHaveOwners, HasOwner,
     Reviewer!HostUp, Reviewer!InProgress, Reviewer!OnStart, Reviewer!Alive, Reviewer!Started, Reviewer!Ended,
     Reviewer!Occurs, Reviewer!Working, Reviewer!None
<1> QED BY <1>5, <1>6, <1>7, <1>8, <1>9, <1>10, <1>11, <1>12 DEF ReviewerInv

\* It writes the ENDED of it, and the host is gone.
LEMMA ShutdownEndsKeeps ==
  ASSUME Reviewer!None \notin Calls, ReviewerInv, NEW readable \in BOOLEAN, Reviewer!ShutdownEnds(readable)
  PROVE  ReviewerInv'
<1>1. UNCHANGED <<rv_call, rv_trigger, rv_reviewer>>
  BY DEF Reviewer!ShutdownEnds
<1>2. /\ rv_shutdown.pc = "ending" /\ rv_shutdown.of \in Calls /\ rv_handle' = Reviewer!None
      /\ rv_shutdown' = [rv_shutdown EXCEPT !.pc = "exited", !.unread = ~readable]
  BY DEF Reviewer!ShutdownEnds, ReviewerInv, ReviewerTypes
<1>3. rv_shutdown'.pc = "exited" /\ rv_shutdown'.of = rv_shutdown.of /\ rv_shutdown'.unread = ~readable
  BY <1>2, TriggerGoes DEF ReviewerInv, ReviewerTypes, Reviewer!Working, Drives
<1>4. \/ rv_events' = rv_events /\ ~readable
      \/ /\ rv_events' \in Seq(EventRecords) /\ EndedOnce'
         /\ \A d \in Calls : (Reviewer!Started(d)' <=> Reviewer!Started(d)) /\ (Reviewer!Ended(d)' <=> Reviewer!Ended(d) \/ d = rv_shutdown.of)
  BY <1>2, EndedEvent DEF Reviewer!ShutdownEnds, ReviewerInv
<1>5. ReviewerTypes'
  <2>1. rv_trigger' \in [Calls -> TriggerRecords]
    BY <1>1, <1>2, <1>3, <1>4, TriggerGoes DEF ReviewerInv, ReviewerTypes, TriggerRecords, Reviewer!Working, Drives,
       Reviewer!None
  <2>2. rv_call' \in [Calls -> CallRecords]
    BY <1>1, <1>2, <1>3, <1>4, CallGoes DEF ReviewerInv, ReviewerTypes, CallRecords, Answers
  <2>3. rv_shutdown' \in [pc : {"up", "closing", "ending", "exited"}, of : Calls \cup {Reviewer!None}, unread : BOOLEAN]
    BY <1>1, <1>2, <1>3, <1>4 DEF ReviewerInv, ReviewerTypes
  <2>4. rv_reviewer' \in [Calls -> {"none", "starting", "runs", "turn_over", "failed", "closed"}]
    BY <1>1, <1>2, <1>3, <1>4 DEF ReviewerInv, ReviewerTypes
  <2>5. rv_handle' \in Calls \cup {Reviewer!None} /\ rv_events' \in Seq(EventRecords)
    BY <1>1, <1>2, <1>3, <1>4 DEF ReviewerInv, ReviewerTypes
  <2> QED BY <1>1, <1>2, <1>3, <1>4, <2>1, <2>2, <2>3, <2>4, <2>5 DEF ReviewerInv, ReviewerTypes, Reviewer!None
<1>6. OneCallRaces'
  BY <1>1, <1>2, <1>3, <1>4 DEF ReviewerInv, OneCallRaces, Reviewer!Racing
<1>7. ProgressOwns'
  BY <1>1, <1>2, <1>3, <1>4 DEF ReviewerInv, ReviewerTypes, OneCallRaces, ProgressOwns, Reviewer!HostUp,
     Reviewer!InProgress, Reviewer!OnStart,
     Reviewer!Racing, Reviewer!Working, Reviewer!None
<1>8. AliveIsHeld'
  BY <1>1, <1>2, <1>3, <1>4 DEF ReviewerInv, ReviewerTypes, AliveIsHeld, PlacesAgree, ProgressOwns, Reviewer!HostUp,
     Reviewer!Alive,
     Reviewer!InProgress, Reviewer!OnStart, Reviewer!Working, Reviewer!None
<1>9. OneOccupied'
  BY <1>1, <1>2, <1>3, <1>4 DEF ReviewerInv, ReviewerTypes, OneOccupied, Occupied, Reviewer!Alive
<1>10. PlacesAgree'
  BY <1>1, <1>2, <1>3, <1>4 DEF ReviewerInv, ReviewerTypes, PlacesAgree, Reviewer!Started, Reviewer!Occurs,
     Reviewer!Working
<1>11. EndedOnce'
  BY <1>1, <1>2, <1>3, <1>4 DEF ReviewerInv, EndedOnce, Reviewer!Occurs
<1>12. OpenHaveOwners'
  BY <1>1, <1>2, <1>3, <1>4 DEF ReviewerInv, ReviewerTypes, ProgressOwns, PlacesAgree, OpenHaveOwners, HasOwner,
     Reviewer!HostUp, Reviewer!InProgress, Reviewer!OnStart, Reviewer!Alive, Reviewer!Started, Reviewer!Ended,
     Reviewer!Occurs, Reviewer!Working, Reviewer!None
<1> QED BY <1>5, <1>6, <1>7, <1>8, <1>9, <1>10, <1>11, <1>12 DEF ReviewerInv

LEMMA ReviewerStep ==
  ASSUME Reviewer!None \notin Calls, ReviewerInv, [Reviewer!Next]_reviewer_vars
  PROVE  ReviewerInv'
<1>1. CASE UNCHANGED reviewer_vars
  BY <1>1 DEF reviewer_vars, ReviewerInv, ReviewerTypes, OneCallRaces, Reviewer!Racing, ProgressOwns,
     Reviewer!HostUp, Reviewer!InProgress, Reviewer!OnStart,
       AliveIsHeld, Reviewer!Alive, OneOccupied, Occupied, PlacesAgree, EndedOnce, OpenHaveOwners, HasOwner,
       Reviewer!Started, Reviewer!Ended,
       Reviewer!Occurs
<1>2. ASSUME NEW c \in Calls, Reviewer!Trigger(c) \/ Reviewer!Refused(c) \/ Reviewer!BridgeStep(c) PROVE ReviewerInv'
  BY <1>2, TriggerKeeps, RefusedKeeps, BridgeStepKeeps
<1>3. ASSUME NEW c \in Calls, NEW v \in Reviewer!Verdicts, Reviewer!SubmitVerdict(c, v) PROVE ReviewerInv'
  BY <1>3, SubmitVerdictKeeps
<1>4. ASSUME NEW c \in Calls, NEW how \in {"turn_over", "failed"}, Reviewer!TurnEnds(c, how) PROVE ReviewerInv'
  BY <1>4, TurnEndsKeeps
<1>5. ASSUME NEW c \in Calls, NEW how \in {"natural", "failed", "rejected", "timed_out"}, Reviewer!DriveEnds(c, how)
      PROVE  ReviewerInv'
  BY <1>5, DriveEndsKeeps
<1>6. ASSUME NEW c \in Calls, NEW ok \in BOOLEAN, Reviewer!Begin(c, ok) \/ Reviewer!StartSession(c, ok) \/ Reviewer!DriveCloses(c, ok)
      PROVE  ReviewerInv'
  BY <1>6, BeginKeeps, StartSessionKeeps, DriveClosesKeeps
<1>7. ASSUME NEW c \in Calls, NEW first \in BOOLEAN, NEW second \in BOOLEAN,
             Reviewer!Report(c, first, second) \/ Reviewer!Commit(c, first, second)
      PROVE  ReviewerInv'
  BY <1>7, ReportKeeps, CommitKeeps
<1>8. ASSUME NEW ok \in BOOLEAN, Reviewer!ShutdownCloses(ok) \/ Reviewer!ShutdownEnds(ok) PROVE ReviewerInv'
  BY <1>8, ShutdownClosesKeeps, ShutdownEndsKeeps
<1> QED BY <1>1, <1>2, <1>3, <1>4, <1>5, <1>6, <1>7, <1>8, ShutdownCapturesKeeps DEF Reviewer!Next

\* What the invariant says of the two properties.
LEMMA ReviewSaysOne == ASSUME ReviewerInv PROVE Reviewer!OneReviewer
<1> DEFINE S == {c \in Calls : Reviewer!Alive(c) \/ rv_reviewer[c] = "starting"}
<1>1. \A c, d \in S : c = d
  BY DEF ReviewerInv, OneOccupied, Occupied
<1> HIDE DEF S
<1>2. Reviewer!Cardinality(S) <= 1
  <2> SUFFICES Cardinality(S) <= 1
    BY DEF Reviewer!Cardinality, Cardinality
  <2>1. CASE S = {}
    BY <2>1, FS_EmptySet
  <2>2. CASE S # {}
    <3>1. PICK c : S = {c}
      BY <1>1, <2>2
    <3> QED BY <3>1, FS_Singleton
  <2> QED BY <2>1, <2>2
<1> QED BY <1>2 DEF Reviewer!OneReviewer, S

LEMMA ReviewSaysSettled == ASSUME ReviewerInv PROVE Reviewer!ReviewersAreSettled
<1> SUFFICES ASSUME NEW c \in Calls PROVE Reviewer!Cardinality(Reviewer!Occurs(Reviewer!Event("ended", c))) <= 1
  BY DEF Reviewer!ReviewersAreSettled, ReviewerInv, OpenHaveOwners, HasOwner
<1> DEFINE S == Reviewer!Occurs(Reviewer!Event("ended", c))
<1>1. \A i, j \in S : i = j
  BY DEF ReviewerInv, EndedOnce
<1> HIDE DEF S
<1>2. Reviewer!Cardinality(S) <= 1
  <2> SUFFICES Cardinality(S) <= 1
    BY DEF Reviewer!Cardinality, Cardinality
  <2>1. CASE S = {}
    BY <2>1, FS_EmptySet
  <2>2. CASE S # {}
    <3>1. PICK i : S = {i}
      BY <1>1, <2>2
    <3> QED BY <3>1, FS_Singleton
  <2> QED BY <2>1, <2>2
<1> QED BY <1>2 DEF S

ReviewerHolds == part = "reviewer" => ReviewerInv

\* The inductive invariant of the reviews holds of their part.
LEMMA ReviewerIsKept == ServicesSpec => []ReviewerHolds
<1>1. Reviewer!None \notin Calls
  BY CallsAssumption DEF Reviewer!None
<1>2. ServicesInit => ReviewerHolds
  BY ReviewerStarts DEF ServicesInit, ReviewerHolds
<1>3. ReviewerHolds /\ [ServicesNext]_AllVars => ReviewerHolds'
  <2> SUFFICES ASSUME ReviewerHolds, [ServicesNext]_AllVars, part' = "reviewer" PROVE ReviewerInv'
    BY DEF ReviewerHolds
  <2>1. part = "reviewer" /\ [Reviewer!Next]_reviewer_vars
    BY DEF ServicesNext, HostPart, CapsulePart, ReviewerPart, WatcherPart, DetailPart, ViewPart, CriteriaPart, AllVars
  <2>2. ReviewerInv
    BY <2>1 DEF ReviewerHolds
  <2> QED BY <1>1, <2>1, <2>2, ReviewerStep
<1> QED BY <1>2, <1>3, PTL DEF ServicesSpec

\* Two reviewers never run at once, though Meta may be told that a call gave no answer while its
\* reviewer goes on (host/tools/agent.ts, agent_control.ts).
THEOREM ServicesHaveOneReviewer == ServicesSpec => []OneReviewer
<1>1. ReviewerHolds => OneReviewer
  BY ReviewSaysOne DEF ReviewerHolds, OneReviewer
<1> QED BY <1>1, ReviewerIsKept, PTL

\* A reviewer has one ENDED at most, and until it has one and is closed there is who sees to it
\* (appendReviewerEndedIdempotent, commitReviewerEnded, cleanupAndExit).
THEOREM ServicesSettleReviewers == ServicesSpec => []ReviewersAreSettled
<1>1. ReviewerHolds => ReviewersAreSettled
  BY ReviewSaysSettled DEF ReviewerHolds, ReviewersAreSettled
<1> QED BY <1>1, ReviewerIsKept, PTL

-----------------------------------------------------------------------------
(* The windows of a worker's stream                                          *)

LineKinds == {"rendered", "left_out", "unreadable"}
WindowRecords == [start : Nat, end : Nat, final : BOOLEAN, from : Nat, to : Nat, shown : SUBSET Nat, truncated : BOOLEAN]
ToShow(lines, from, to) == {j \in DOMAIN lines : lines[j] = "rendered" /\ j \in from..to}

\* The windows w of a session that started at a time and has written some lines: the property, and
\* that no window reaches beyond what was written.
WindowsFollow(w, lines, started) == \A i \in DOMAIN w :
  /\ w[i].from = (IF i = 1 THEN 1 ELSE w[i - 1].to + 1)
  /\ w[i].start = (IF i = 1 THEN started ELSE w[i - 1].end)
  /\ w[i].to <= Len(lines)
  /\ w[i].truncated \/ w[i].shown = ToShow(lines, w[i].from, w[i].to)
  /\ w[i].final => i = Len(w)

HasFinal(w) == w # <<>> /\ w[Len(w)].final
LastTo(w) == IF w = <<>> THEN 0 ELSE w[Len(w)].to
LastEnd(w, started) == IF w = <<>> THEN started ELSE w[Len(w)].end

WatcherTypes ==
  /\ wd_stream \in [WatchedSessions -> Seq(LineKinds)]
  /\ wd_open \in [WatchedSessions -> {"no", "yes", "over"}]
  /\ wd_tracker \in [WatchedSessions -> [listed : BOOLEAN, started : Nat, due : Nat, offset : Nat, pending : Nat \cup {-1}]]
  /\ wd_jobs \in [WatchedSessions -> Seq([kind : {"tick", "end"}, mono : Nat])]
  /\ wd_window \in [WatchedSessions -> [pc : {"idle", "read", "enqueue"}, final : BOOLEAN, upto : Nat]]
  /\ wd_sent \in [WatchedSessions -> Seq(WindowRecords)]
  /\ wd_now \in Nat

\* What the tracker says of the next window is what the last one that was sent asks for.
TrackerInv(s) ==
  /\ wd_tracker[s].listed => wd_open[s] = "yes"
  /\ WindowsFollow(wd_sent[s], wd_stream[s], wd_tracker[s].started)
  /\ wd_tracker[s].offset = LastTo(wd_sent[s])
  /\ wd_open[s] # "no" => Watcher!WindowStart(s) = LastEnd(wd_sent[s], wd_tracker[s].started)
  /\ wd_window[s].pc = "enqueue" => wd_window[s].upto <= Len(wd_stream[s])

\* The end of a session is the last that is queued, and its final window the last that is sent.
FinalInv(s) ==
  /\ wd_open[s] = "no" => wd_jobs[s] = <<>> /\ wd_window[s].pc = "idle" /\ wd_sent[s] = <<>>
  /\ \A i \in DOMAIN wd_jobs[s] : wd_jobs[s][i].kind = "end" => i = Len(wd_jobs[s]) /\ wd_open[s] = "over"
  /\ wd_window[s].pc # "idle" /\ wd_window[s].final =>
       /\ wd_open[s] = "over" /\ wd_jobs[s] = <<>>
       /\ wd_window[s].pc = "enqueue" => wd_window[s].upto = Len(wd_stream[s])
  /\ HasFinal(wd_sent[s]) =>
       /\ wd_open[s] = "over" /\ wd_jobs[s] = <<>> /\ wd_window[s].pc = "idle"
       /\ LastTo(wd_sent[s]) = Len(wd_stream[s])
  /\ wd_open[s] = "over" =>
       \/ s \in wd_told
       \/ HasFinal(wd_sent[s])
       \/ wd_window[s].pc # "idle" /\ wd_window[s].final
       \/ wd_jobs[s] # <<>> /\ wd_jobs[s][Len(wd_jobs[s])].kind = "end"

WatcherInv == WatcherTypes /\ \A s \in WatchedSessions : TrackerInv(s) /\ FinalInv(s)
WatcherHolds == part = "watcher" => WatcherInv

\* A window that begins where the last one ended, and shows what is there, follows the others.
LEMMA NextWindowFollows ==
  ASSUME NEW w \in Seq(WindowRecords), NEW lines \in Seq(LineKinds), NEW started \in Nat, NEW r \in WindowRecords,
         WindowsFollow(w, lines, started), ~HasFinal(w),
         r.from = LastTo(w) + 1, r.start = LastEnd(w, started), r.to <= Len(lines),
         r.truncated \/ r.shown = ToShow(lines, r.from, r.to)
  PROVE  /\ WindowsFollow(Append(w, r), lines, started)
         /\ LastTo(Append(w, r)) = r.to /\ LastEnd(Append(w, r), started) = r.end
         /\ HasFinal(Append(w, r)) <=> r.final
<1> DEFINE v == Append(w, r)
<1>1. /\ Len(v) = Len(w) + 1 /\ v[Len(v)] = r /\ DOMAIN v = 1..Len(v) /\ v # <<>>
      /\ DOMAIN w = 1..Len(w) /\ Len(w) \in Nat /\ \A i \in DOMAIN w : v[i] = w[i]
  <2>1. v \in Seq(WindowRecords) /\ Len(v) = Len(w) + 1 /\ Len(w) \in Nat /\ v[Len(w) + 1] = r
    OBVIOUS
  <2>2. DOMAIN w = 1..Len(w) /\ DOMAIN v = 1..Len(w) + 1
    OBVIOUS
  <2>3. \A i \in 1..Len(w) : v[i] = w[i]
    OBVIOUS
  <2>4. v # <<>>
    OBVIOUS
  <2> HIDE DEF v
  <2> QED BY <2>1, <2>2, <2>3, <2>4
<1>2. w = <<>> <=> Len(w) = 0
  OBVIOUS
<1> HIDE DEF v
<1>3. LastTo(v) = r.to /\ LastEnd(v, started) = r.end /\ (HasFinal(v) <=> r.final)
  BY <1>1 DEF LastTo, LastEnd, HasFinal
<1>4. ASSUME NEW i \in DOMAIN w
      PROVE  /\ v[i].from = (IF i = 1 THEN 1 ELSE v[i - 1].to + 1)
             /\ v[i].start = (IF i = 1 THEN started ELSE v[i - 1].end)
             /\ v[i].to <= Len(lines)
             /\ v[i].truncated \/ v[i].shown = ToShow(lines, v[i].from, v[i].to)
             /\ v[i].final => i = Len(v)
  <2>1. v[i] = w[i] /\ (i # 1 => i - 1 \in DOMAIN w /\ v[i - 1] = w[i - 1])
    BY <1>1
  <2>2. ~w[i].final
    BY <1>1 DEF WindowsFollow, HasFinal
  <2> QED BY <2>1, <2>2 DEF WindowsFollow
<1>5. /\ r.from = (IF Len(v) = 1 THEN 1 ELSE v[Len(v) - 1].to + 1)
      /\ r.start = (IF Len(v) = 1 THEN started ELSE v[Len(v) - 1].end)
  BY <1>1, <1>2 DEF LastTo, LastEnd
<1>6. WindowsFollow(v, lines, started)
  <2> SUFFICES ASSUME NEW i \in DOMAIN v
               PROVE  /\ v[i].from = (IF i = 1 THEN 1 ELSE v[i - 1].to + 1)
                      /\ v[i].start = (IF i = 1 THEN started ELSE v[i - 1].end)
                      /\ v[i].to <= Len(lines)
                      /\ v[i].truncated \/ v[i].shown = ToShow(lines, v[i].from, v[i].to)
                      /\ v[i].final => i = Len(v)
    BY DEF WindowsFollow
  <2>1. CASE i \in DOMAIN w
    BY <1>4, <2>1
  <2>2. CASE i = Len(v)
    BY <1>1, <1>5, <2>2
  <2> QED BY <1>1, <2>1, <2>2
<1> QED BY <1>3, <1>6 DEF v

\* A line that is appended is in none of the windows that were sent.
LEMMA NewLineFollows ==
  ASSUME NEW w \in Seq(WindowRecords), NEW lines \in Seq(LineKinds), NEW started \in Nat, NEW k \in LineKinds,
         WindowsFollow(w, lines, started)
  PROVE  WindowsFollow(w, Append(lines, k), started)
<1> SUFFICES ASSUME NEW i \in DOMAIN w
             PROVE  /\ w[i].to <= Len(Append(lines, k))
                    /\ ToShow(Append(lines, k), w[i].from, w[i].to) = ToShow(lines, w[i].from, w[i].to)
  BY DEF WindowsFollow
<1>1. w[i].from \in Nat /\ w[i].to \in Nat /\ w[i].to <= Len(lines) /\ Len(lines) \in Nat
  <2>1. w[i] \in WindowRecords
    OBVIOUS
  <2> QED BY <2>1 DEF WindowsFollow, WindowRecords
<1>2. /\ Len(Append(lines, k)) = Len(lines) + 1 /\ DOMAIN lines = 1..Len(lines)
      /\ DOMAIN Append(lines, k) = 1..Len(lines) + 1
      /\ \A j \in DOMAIN lines : Append(lines, k)[j] = lines[j]
  OBVIOUS
<1> QED BY <1>1, <1>2 DEF ToShow

LEMMA WatcherStarts == Watcher!Init => WatcherInv
<1> SUFFICES ASSUME Watcher!Init PROVE WatcherInv
  OBVIOUS
<1> USE DEF Watcher!Init
<1>1. <<>> \in Seq(LineKinds) /\ <<>> \in Seq([kind : {"tick", "end"}, mono : Nat]) /\ <<>> \in Seq(WindowRecords)
  OBVIOUS
<1>2. Watcher!NoTracker \in [listed : BOOLEAN, started : Nat, due : Nat, offset : Nat, pending : Nat \cup {-1}]
  BY DEF Watcher!NoTracker, Watcher!Unset
<1>3. Watcher!Idle \in [pc : {"idle", "read", "enqueue"}, final : BOOLEAN, upto : Nat]
  BY DEF Watcher!Idle
<1>4. WatcherTypes
  BY <1>1, <1>2, <1>3 DEF WatcherTypes
<1>5. ASSUME NEW s \in WatchedSessions PROVE TrackerInv(s) /\ FinalInv(s)
  <2>1. /\ wd_sent[s] = <<>> /\ wd_open[s] = "no" /\ wd_jobs[s] = <<>> /\ wd_window[s].pc = "idle"
        /\ wd_tracker[s].listed = FALSE /\ wd_tracker[s].offset = 0
    BY DEF Watcher!NoTracker, Watcher!Idle
  <2> QED BY <2>1 DEF TrackerInv, FinalInv, WindowsFollow, LastTo, HasFinal
<1> QED BY <1>4, <1>5 DEF WatcherInv

LEMMA InvariantSaysWatchedOnce == WatcherInv => Watcher!LinesAreWatchedOnce
<1> SUFFICES ASSUME WatcherInv, NEW s \in WatchedSessions
             PROVE  LET w == wd_sent[s] IN
                    /\ \A i \in DOMAIN w :
                         /\ w[i].from = (IF i = 1 THEN 1 ELSE w[i - 1].to + 1)
                         /\ w[i].start = (IF i = 1 THEN wd_tracker[s].started ELSE w[i - 1].end)
                         /\ \/ w[i].truncated
                            \/ w[i].shown = {j \in DOMAIN wd_stream[s] :
                                               wd_stream[s][j] = "rendered" /\ j \in w[i].from .. w[i].to}
                         /\ w[i].final => i = Len(w)
                    /\ wd_open[s] = "over" /\ wd_jobs[s] = <<>> /\ wd_window[s].pc = "idle" =>
                         \/ s \in wd_told
                         \/ w # <<>> /\ w[Len(w)].final /\ w[Len(w)].to = Len(wd_stream[s])
  BY DEF Watcher!LinesAreWatchedOnce
<1>1. TrackerInv(s) /\ FinalInv(s)
  BY DEF WatcherInv
<1> QED BY <1>1 DEF TrackerInv, FinalInv, WindowsFollow, ToShow, HasFinal, LastTo

\* A session that nobody touches, and one that acts while nobody else does.
LEMMA SessionStays ==
  ASSUME NEW s \in WatchedSessions, TrackerInv(s), FinalInv(s),
         wd_stream'[s] = wd_stream[s], wd_open'[s] = wd_open[s], wd_tracker'[s] = wd_tracker[s],
         wd_jobs'[s] = wd_jobs[s], wd_window'[s] = wd_window[s], wd_sent'[s] = wd_sent[s],
         wd_told \subseteq wd_told'
  PROVE  TrackerInv(s)' /\ FinalInv(s)'
BY DEF TrackerInv, FinalInv, Watcher!WindowStart, Watcher!Nominal

LEMMA SessionActs ==
  ASSUME WatcherInv, WatcherTypes', NEW t \in WatchedSessions, TrackerInv(t)', FinalInv(t)',
         wd_told \subseteq wd_told',
         \A s \in WatchedSessions \ {t} :
           /\ wd_stream'[s] = wd_stream[s] /\ wd_open'[s] = wd_open[s] /\ wd_tracker'[s] = wd_tracker[s]
           /\ wd_jobs'[s] = wd_jobs[s] /\ wd_window'[s] = wd_window[s] /\ wd_sent'[s] = wd_sent[s]
  PROVE  WatcherInv'
BY SessionStays DEF WatcherInv

\* A window was sent, or there was nothing to send of it.
LEMMA SuccessKeeps ==
  ASSUME WatcherInv, NEW s \in WatchedSessions, wd_window[s].pc # "idle",
         NEW upto \in Nat, NEW shown, NEW truncated \in BOOLEAN,
         shown \subseteq Watcher!Rendered(s, upto), truncated \/ shown = Watcher!Rendered(s, upto),
         upto <= Len(wd_stream[s]), wd_window[s].final => upto = Len(wd_stream[s]),
         Watcher!Succeeds(s, upto, shown, truncated),
         UNCHANGED <<wd_stream, wd_open, wd_jobs, wd_now>>
  PROVE  WatcherInv'
<1>0. WatcherTypes /\ TrackerInv(s) /\ FinalInv(s)
  BY DEF WatcherInv
<1> DEFINE r == [start |-> Watcher!WindowStart(s), end |-> wd_tracker[s].due, final |-> wd_window[s].final,
                 from |-> wd_tracker[s].offset + 1, to |-> upto, shown |-> shown, truncated |-> truncated]
<1>1. /\ wd_sent' = [wd_sent EXCEPT ![s] = Append(@, r)]
      /\ wd_tracker' = [wd_tracker EXCEPT ![s].offset = upto, ![s].due = @ + 1, ![s].pending = -1]
      /\ wd_window' = [wd_window EXCEPT ![s] = Watcher!Idle]
      /\ wd_told' = wd_told
  BY DEF Watcher!Succeeds, Watcher!Unset
<1>2. /\ wd_tracker[s] \in [listed : BOOLEAN, started : Nat, due : Nat, offset : Nat, pending : Nat \cup {-1}]
      /\ wd_window[s] \in [pc : {"idle", "read", "enqueue"}, final : BOOLEAN, upto : Nat]
      /\ wd_sent[s] \in Seq(WindowRecords) /\ wd_stream[s] \in Seq(LineKinds) /\ Len(wd_stream[s]) \in Nat
  BY <1>0 DEF WatcherTypes
<1>3. wd_open[s] # "no" /\ ~HasFinal(wd_sent[s])
  BY <1>0 DEF FinalInv
<1>4. /\ LastTo(wd_sent[s]) = wd_tracker[s].offset
      /\ LastEnd(wd_sent[s], wd_tracker[s].started) = Watcher!WindowStart(s)
      /\ WindowsFollow(wd_sent[s], wd_stream[s], wd_tracker[s].started)
  BY <1>0, <1>3 DEF TrackerInv
<1>5. Watcher!WindowStart(s) \in Nat
  <2>1. CASE wd_sent[s] = <<>>
    BY <1>2, <1>4, <2>1 DEF LastEnd
  <2>2. CASE wd_sent[s] # <<>>
    <3>1. wd_sent[s][Len(wd_sent[s])] \in WindowRecords
      BY <1>2, <2>2
    <3> QED BY <1>4, <2>2, <3>1 DEF LastEnd, WindowRecords
  <2> QED BY <2>1, <2>2
<1>6. /\ DOMAIN wd_stream[s] \subseteq Nat
      /\ Watcher!Rendered(s, upto) = ToShow(wd_stream[s], wd_tracker[s].offset + 1, upto)
      /\ Watcher!Rendered(s, upto) \subseteq Nat
  BY <1>2 DEF Watcher!Rendered, ToShow
<1>7. /\ r \in WindowRecords /\ r.start = Watcher!WindowStart(s) /\ r.from = wd_tracker[s].offset + 1 /\ r.to = upto
      /\ r.shown = shown /\ r.truncated = truncated /\ r.end = wd_tracker[s].due /\ r.final = wd_window[s].final
  BY <1>2, <1>5, <1>6 DEF WindowRecords
<1> HIDE DEF r
<1>8. /\ WindowsFollow(Append(wd_sent[s], r), wd_stream[s], wd_tracker[s].started)
      /\ LastTo(Append(wd_sent[s], r)) = upto
      /\ LastEnd(Append(wd_sent[s], r), wd_tracker[s].started) = wd_tracker[s].due
      /\ HasFinal(Append(wd_sent[s], r)) <=> wd_window[s].final
  BY <1>2, <1>3, <1>4, <1>6, <1>7, NextWindowFollows
<1>9. Append(wd_sent[s], r) \in Seq(WindowRecords)
  BY <1>2, <1>7
<1>10. Watcher!Idle \in [pc : {"idle", "read", "enqueue"}, final : BOOLEAN, upto : Nat] /\ Watcher!Idle.pc = "idle"
  BY DEF Watcher!Idle
<1>11. /\ wd_sent'[s] = Append(wd_sent[s], r) /\ wd_window'[s] = Watcher!Idle
       /\ wd_tracker'[s] \in [listed : BOOLEAN, started : Nat, due : Nat, offset : Nat, pending : Nat \cup {-1}]
       /\ wd_tracker'[s].listed = wd_tracker[s].listed /\ wd_tracker'[s].started = wd_tracker[s].started
       /\ wd_tracker'[s].due = wd_tracker[s].due + 1 /\ wd_tracker'[s].offset = upto /\ wd_tracker'[s].pending = -1
  <2>1. wd_sent'[s] = Append(wd_sent[s], r) /\ wd_window'[s] = Watcher!Idle
    BY <1>0, <1>1 DEF WatcherTypes
  <2>2. wd_tracker'[s] = [wd_tracker[s] EXCEPT !.offset = upto, !.due = @ + 1, !.pending = -1]
    BY <1>0, <1>1 DEF WatcherTypes
  <2>3. wd_tracker[s].due + 1 \in Nat
    BY <1>2
  <2>4. wd_tracker'[s] \in [listed : BOOLEAN, started : Nat, due : Nat, offset : Nat, pending : Nat \cup {-1}]
    BY <1>2, <2>2, <2>3
  <2>5. /\ wd_tracker'[s].listed = wd_tracker[s].listed /\ wd_tracker'[s].started = wd_tracker[s].started
        /\ wd_tracker'[s].due = wd_tracker[s].due + 1 /\ wd_tracker'[s].offset = upto /\ wd_tracker'[s].pending = -1
    BY <1>2, <2>2
  <2> QED BY <2>1, <2>4, <2>5
<1>12. WatcherTypes'
  BY <1>0, <1>1, <1>9, <1>10, <1>11 DEF WatcherTypes
<1>13. TrackerInv(s)'
  <2>1. Watcher!WindowStart(s)' = wd_tracker[s].due
    BY <1>2, <1>11 DEF Watcher!WindowStart, Watcher!Nominal, Watcher!Unset
  <2> QED BY <1>0, <1>8, <1>10, <1>11, <2>1 DEF TrackerInv
<1>14. FinalInv(s)'
  BY <1>0, <1>1, <1>3, <1>8, <1>10, <1>11 DEF FinalInv
<1>15. \A t \in WatchedSessions \ {s} :
         /\ wd_stream'[t] = wd_stream[t] /\ wd_open'[t] = wd_open[t] /\ wd_tracker'[t] = wd_tracker[t]
         /\ wd_jobs'[t] = wd_jobs[t] /\ wd_window'[t] = wd_window[t] /\ wd_sent'[t] = wd_sent[t]
  BY <1>0, <1>1 DEF WatcherTypes
<1> QED BY <1>1, <1>12, <1>13, <1>14, <1>15, SessionActs

\* A window that failed is asked for again, with the next; Meta was to be told of the last.
LEMMA FailureKeeps ==
  ASSUME WatcherInv, NEW s \in WatchedSessions, wd_window[s].pc # "idle", Watcher!Fails(s),
         UNCHANGED <<wd_stream, wd_open, wd_jobs, wd_now>>
  PROVE  WatcherInv'
<1>0. WatcherTypes /\ TrackerInv(s) /\ FinalInv(s)
  BY DEF WatcherInv
<1>1. /\ wd_tracker' = [wd_tracker EXCEPT ![s].due = @ + 1, ![s].pending = Watcher!WindowStart(s)]
      /\ wd_told' = IF wd_window[s].final THEN wd_told \cup {s} ELSE wd_told
      /\ wd_window' = [wd_window EXCEPT ![s] = Watcher!Idle]
      /\ wd_sent' = wd_sent
  BY DEF Watcher!Fails, Watcher!Pending
<1>2. /\ wd_tracker[s] \in [listed : BOOLEAN, started : Nat, due : Nat, offset : Nat, pending : Nat \cup {-1}]
      /\ wd_sent[s] \in Seq(WindowRecords) /\ wd_window[s].final \in BOOLEAN
  BY <1>0 DEF WatcherTypes
<1>3. wd_open[s] # "no" /\ ~HasFinal(wd_sent[s])
  BY <1>0 DEF FinalInv
<1>4. LastEnd(wd_sent[s], wd_tracker[s].started) = Watcher!WindowStart(s)
  BY <1>0, <1>3 DEF TrackerInv
<1>5. Watcher!WindowStart(s) \in Nat
  <2>1. CASE wd_sent[s] = <<>>
    BY <1>2, <1>4, <2>1 DEF LastEnd
  <2>2. CASE wd_sent[s] # <<>>
    <3>1. wd_sent[s][Len(wd_sent[s])] \in WindowRecords
      BY <1>2, <2>2
    <3> QED BY <1>4, <2>2, <3>1 DEF LastEnd, WindowRecords
  <2> QED BY <2>1, <2>2
<1>6. Watcher!Idle \in [pc : {"idle", "read", "enqueue"}, final : BOOLEAN, upto : Nat] /\ Watcher!Idle.pc = "idle"
  BY DEF Watcher!Idle
<1>7. /\ wd_window'[s] = Watcher!Idle
      /\ wd_tracker'[s] \in [listed : BOOLEAN, started : Nat, due : Nat, offset : Nat, pending : Nat \cup {-1}]
      /\ wd_tracker'[s].listed = wd_tracker[s].listed /\ wd_tracker'[s].started = wd_tracker[s].started
      /\ wd_tracker'[s].offset = wd_tracker[s].offset /\ wd_tracker'[s].pending = Watcher!WindowStart(s)
  <2>1. wd_window'[s] = Watcher!Idle
    BY <1>0, <1>1 DEF WatcherTypes
  <2>2. wd_tracker'[s] = [wd_tracker[s] EXCEPT !.due = @ + 1, !.pending = Watcher!WindowStart(s)]
    BY <1>0, <1>1 DEF WatcherTypes
  <2>3. wd_tracker[s].due + 1 \in Nat
    BY <1>2
  <2>4. wd_tracker'[s] \in [listed : BOOLEAN, started : Nat, due : Nat, offset : Nat, pending : Nat \cup {-1}]
    BY <1>2, <1>5, <2>2, <2>3
  <2>5. /\ wd_tracker'[s].listed = wd_tracker[s].listed /\ wd_tracker'[s].started = wd_tracker[s].started
        /\ wd_tracker'[s].offset = wd_tracker[s].offset /\ wd_tracker'[s].pending = Watcher!WindowStart(s)
    BY <1>2, <2>2
  <2> QED BY <2>1, <2>4, <2>5
<1>8. WatcherTypes'
  BY <1>0, <1>1, <1>6, <1>7 DEF WatcherTypes
<1>9. TrackerInv(s)'
  <2>1. Watcher!WindowStart(s)' = Watcher!WindowStart(s)
    <3> DEFINE start == Watcher!WindowStart(s)
    <3>1. wd_tracker'[s].pending = start /\ start # -1
      BY <1>5, <1>7
    <3> HIDE DEF start
    <3>2. Watcher!WindowStart(s)' = start
      BY <3>1 DEF Watcher!WindowStart, Watcher!Unset
    <3> QED BY <3>2 DEF start
  <2> QED BY <1>0, <1>1, <1>4, <1>6, <1>7, <2>1 DEF TrackerInv
<1>10. FinalInv(s)'
  BY <1>0, <1>1, <1>3, <1>6, <1>7 DEF FinalInv
<1>11. \A t \in WatchedSessions \ {s} :
         /\ wd_stream'[t] = wd_stream[t] /\ wd_open'[t] = wd_open[t] /\ wd_tracker'[t] = wd_tracker[t]
         /\ wd_jobs'[t] = wd_jobs[t] /\ wd_window'[t] = wd_window[t] /\ wd_sent'[t] = wd_sent[t]
  BY <1>0, <1>1 DEF WatcherTypes
<1> QED BY <1>1, <1>8, <1>9, <1>10, <1>11, SessionActs

LEMMA StartKeeps == ASSUME WatcherInv, NEW s \in WatchedSessions, Watcher!Start(s) PROVE WatcherInv'
<1>0. WatcherTypes /\ TrackerInv(s) /\ FinalInv(s)
  BY DEF WatcherInv
<1> DEFINE new == [listed |-> TRUE, started |-> wd_now, due |-> wd_now + 1, offset |-> 0, pending |-> -1]
<1>1. /\ wd_open[s] = "no" /\ wd_open' = [wd_open EXCEPT ![s] = "yes"] /\ wd_tracker' = [wd_tracker EXCEPT ![s] = new]
      /\ UNCHANGED <<wd_stream, wd_jobs, wd_window, wd_sent, wd_told, wd_now>>
  BY DEF Watcher!Start, Watcher!Unset
<1>2. new \in [listed : BOOLEAN, started : Nat, due : Nat, offset : Nat, pending : Nat \cup {-1}] /\ wd_now \in Nat
  BY <1>0 DEF WatcherTypes
<1>3. /\ wd_open'[s] = "yes" /\ wd_tracker'[s] = new /\ wd_sent'[s] = <<>> /\ wd_jobs'[s] = <<>>
      /\ wd_window'[s].pc = "idle"
  BY <1>0, <1>1 DEF WatcherTypes, FinalInv
<1>4. WatcherTypes'
  BY <1>0, <1>1, <1>2 DEF WatcherTypes
<1>5. Watcher!WindowStart(s)' = wd_now
  BY <1>2, <1>3 DEF Watcher!WindowStart, Watcher!Nominal, Watcher!Unset
<1>6. TrackerInv(s)' /\ FinalInv(s)'
  BY <1>3, <1>5 DEF TrackerInv, FinalInv, WindowsFollow, LastTo, LastEnd, HasFinal
<1>7. \A t \in WatchedSessions \ {s} :
         /\ wd_stream'[t] = wd_stream[t] /\ wd_open'[t] = wd_open[t] /\ wd_tracker'[t] = wd_tracker[t]
         /\ wd_jobs'[t] = wd_jobs[t] /\ wd_window'[t] = wd_window[t] /\ wd_sent'[t] = wd_sent[t]
  BY <1>0, <1>1 DEF WatcherTypes
<1> QED BY <1>1, <1>4, <1>6, <1>7, SessionActs

LEMMA EndLineKeeps ==
  ASSUME WatcherInv, NEW s \in WatchedSessions, NEW k \in Watcher!Kinds, Watcher!EndLine(s, k) PROVE WatcherInv'
<1>0. WatcherTypes /\ TrackerInv(s) /\ FinalInv(s)
  BY DEF WatcherInv
<1>1. /\ wd_open[s] = "yes" /\ wd_stream' = [wd_stream EXCEPT ![s] = Append(@, k)]
      /\ UNCHANGED <<wd_open, wd_tracker, wd_jobs, wd_window, wd_sent, wd_told, wd_now>>
  BY DEF Watcher!EndLine
<1>2. /\ k \in LineKinds /\ wd_stream[s] \in Seq(LineKinds) /\ wd_sent[s] \in Seq(WindowRecords)
      /\ wd_tracker[s].started \in Nat /\ wd_window[s].upto \in Nat
  BY <1>0 DEF WatcherTypes, Watcher!Kinds, LineKinds
<1>3. wd_stream'[s] = Append(wd_stream[s], k) /\ Append(wd_stream[s], k) \in Seq(LineKinds)
      /\ Len(wd_stream[s]) \in Nat /\ Len(wd_stream'[s]) = Len(wd_stream[s]) + 1
  BY <1>0, <1>1, <1>2 DEF WatcherTypes
<1>4. WatcherTypes'
  BY <1>0, <1>1, <1>3 DEF WatcherTypes
<1>5. WindowsFollow(wd_sent[s], Append(wd_stream[s], k), wd_tracker[s].started)
  BY <1>0, <1>2, NewLineFollows DEF TrackerInv
<1>6. TrackerInv(s)'
  BY <1>0, <1>1, <1>2, <1>3, <1>5 DEF TrackerInv, Watcher!WindowStart, Watcher!Nominal
<1>7. FinalInv(s)'
  BY <1>0, <1>1 DEF FinalInv
<1>8. \A t \in WatchedSessions \ {s} :
         /\ wd_stream'[t] = wd_stream[t] /\ wd_open'[t] = wd_open[t] /\ wd_tracker'[t] = wd_tracker[t]
         /\ wd_jobs'[t] = wd_jobs[t] /\ wd_window'[t] = wd_window[t] /\ wd_sent'[t] = wd_sent[t]
  BY <1>0, <1>1 DEF WatcherTypes
<1> QED BY <1>1, <1>4, <1>6, <1>7, <1>8, SessionActs

LEMMA EndKeeps == ASSUME WatcherInv, NEW s \in WatchedSessions, Watcher!End(s) PROVE WatcherInv'
<1>0. WatcherTypes /\ TrackerInv(s) /\ FinalInv(s)
  BY DEF WatcherInv
<1> DEFINE job == [kind |-> "end", mono |-> wd_now]
<1>1. /\ wd_open[s] = "yes" /\ wd_open' = [wd_open EXCEPT ![s] = "over"]
      /\ wd_tracker' = [wd_tracker EXCEPT ![s].listed = FALSE] /\ wd_jobs' = [wd_jobs EXCEPT ![s] = Append(@, job)]
      /\ UNCHANGED <<wd_stream, wd_window, wd_sent, wd_told, wd_now>>
  BY DEF Watcher!End
<1>2. /\ wd_tracker[s] \in [listed : BOOLEAN, started : Nat, due : Nat, offset : Nat, pending : Nat \cup {-1}]
      /\ wd_jobs[s] \in Seq([kind : {"tick", "end"}, mono : Nat]) /\ job \in [kind : {"tick", "end"}, mono : Nat]
  BY <1>0 DEF WatcherTypes
<1>3. /\ wd_tracker'[s] \in [listed : BOOLEAN, started : Nat, due : Nat, offset : Nat, pending : Nat \cup {-1}]
      /\ wd_tracker'[s].listed = FALSE /\ wd_tracker'[s].started = wd_tracker[s].started
      /\ wd_tracker'[s].offset = wd_tracker[s].offset /\ wd_tracker'[s].due = wd_tracker[s].due
      /\ wd_tracker'[s].pending = wd_tracker[s].pending
  <2>1. wd_tracker'[s] = [wd_tracker[s] EXCEPT !.listed = FALSE]
    BY <1>0, <1>1 DEF WatcherTypes
  <2> QED BY <1>2, <2>1
<1>4. wd_jobs'[s] = Append(wd_jobs[s], job) /\ wd_open'[s] = "over"
  BY <1>0, <1>1 DEF WatcherTypes
<1>5. /\ wd_jobs'[s] # <<>> /\ wd_jobs'[s] \in Seq([kind : {"tick", "end"}, mono : Nat])
      /\ wd_jobs'[s][Len(wd_jobs'[s])].kind = "end"
      /\ \A i \in DOMAIN wd_jobs'[s] : wd_jobs'[s][i].kind = "end" => i = Len(wd_jobs'[s])
  <2> DEFINE old == wd_jobs[s]
             new == Append(wd_jobs[s], job)
  <2>1. /\ new \in Seq([kind : {"tick", "end"}, mono : Nat]) /\ Len(new) = Len(old) + 1 /\ Len(old) \in Nat
        /\ new[Len(new)] = job /\ DOMAIN new = 1..Len(old) + 1 /\ DOMAIN old = 1..Len(old)
    BY <1>2
  <2>2. \A i \in 1..Len(old) : new[i] = old[i]
    BY <1>2
  <2>3. \A i \in DOMAIN old : old[i].kind # "end"
    BY <1>0, <1>1 DEF FinalInv
  <2>4. new # <<>>
    BY <1>2
  <2>5. job.kind = "end"
    OBVIOUS
  <2> HIDE DEF old, new, job
  <2>6. \A i \in DOMAIN new : new[i].kind = "end" => i = Len(new)
    BY <2>1, <2>2, <2>3
  <2>7. new[Len(new)].kind = "end"
    BY <2>1, <2>5
  <2> QED BY <1>4, <2>1, <2>4, <2>6, <2>7 DEF new
<1>6. WatcherTypes'
  BY <1>0, <1>1, <1>3, <1>4, <1>5 DEF WatcherTypes
<1>7. TrackerInv(s)'
  BY <1>0, <1>1, <1>3 DEF TrackerInv, Watcher!WindowStart, Watcher!Nominal
<1>8. FinalInv(s)'
  BY <1>0, <1>1, <1>4, <1>5 DEF FinalInv
<1>9. \A t \in WatchedSessions \ {s} :
         /\ wd_stream'[t] = wd_stream[t] /\ wd_open'[t] = wd_open[t] /\ wd_tracker'[t] = wd_tracker[t]
         /\ wd_jobs'[t] = wd_jobs[t] /\ wd_window'[t] = wd_window[t] /\ wd_sent'[t] = wd_sent[t]
  BY <1>0, <1>1 DEF WatcherTypes
<1> QED BY <1>1, <1>6, <1>7, <1>8, <1>9, SessionActs

LEMMA TickKeeps == ASSUME WatcherInv, NEW s \in WatchedSessions, Watcher!Tick(s) PROVE WatcherInv'
<1>0. WatcherTypes /\ TrackerInv(s) /\ FinalInv(s)
  BY DEF WatcherInv
<1> DEFINE job == [kind |-> "tick", mono |-> wd_now]
<1>1. /\ wd_open[s] = "yes" /\ wd_jobs' = [wd_jobs EXCEPT ![s] = Append(@, job)]
      /\ UNCHANGED <<wd_stream, wd_open, wd_tracker, wd_window, wd_sent, wd_told, wd_now>>
  BY <1>0 DEF Watcher!Tick, TrackerInv
<1>2. /\ wd_jobs[s] \in Seq([kind : {"tick", "end"}, mono : Nat]) /\ job \in [kind : {"tick", "end"}, mono : Nat]
  BY <1>0 DEF WatcherTypes
<1>3. wd_jobs'[s] = Append(wd_jobs[s], job)
  BY <1>0, <1>1 DEF WatcherTypes
<1>4. /\ wd_jobs'[s] \in Seq([kind : {"tick", "end"}, mono : Nat])
      /\ \A i \in DOMAIN wd_jobs'[s] : wd_jobs'[s][i].kind # "end"
  <2> DEFINE old == wd_jobs[s]
             new == Append(wd_jobs[s], job)
  <2>1. /\ new \in Seq([kind : {"tick", "end"}, mono : Nat]) /\ Len(new) = Len(old) + 1 /\ Len(old) \in Nat
        /\ new[Len(new)] = job /\ DOMAIN new = 1..Len(old) + 1 /\ DOMAIN old = 1..Len(old)
    BY <1>2
  <2>2. \A i \in 1..Len(old) : new[i] = old[i]
    BY <1>2
  <2>3. \A i \in DOMAIN old : old[i].kind # "end"
    BY <1>0, <1>1 DEF FinalInv
  <2>4. job.kind = "tick"
    OBVIOUS
  <2> HIDE DEF old, new, job
  <2>5. \A i \in DOMAIN new : new[i].kind # "end"
    BY <2>1, <2>2, <2>3, <2>4
  <2> QED BY <1>3, <2>1, <2>5 DEF new
<1>5. WatcherTypes'
  BY <1>0, <1>1, <1>3, <1>4 DEF WatcherTypes
<1>6. TrackerInv(s)' /\ FinalInv(s)'
  BY <1>0, <1>1, <1>4 DEF TrackerInv, FinalInv, Watcher!WindowStart, Watcher!Nominal
<1>7. \A t \in WatchedSessions \ {s} :
         /\ wd_stream'[t] = wd_stream[t] /\ wd_open'[t] = wd_open[t] /\ wd_tracker'[t] = wd_tracker[t]
         /\ wd_jobs'[t] = wd_jobs[t] /\ wd_window'[t] = wd_window[t] /\ wd_sent'[t] = wd_sent[t]
  BY <1>0, <1>1 DEF WatcherTypes
<1> QED BY <1>1, <1>5, <1>6, <1>7, SessionActs

LEMMA BeginWindowKeeps == ASSUME WatcherInv, NEW s \in WatchedSessions, Watcher!BeginWindow(s) PROVE WatcherInv'
<1>0. WatcherTypes /\ TrackerInv(s) /\ FinalInv(s)
  BY DEF WatcherInv
<1> DEFINE old == wd_jobs[s]
           read(final) == [pc |-> "read", final |-> final, upto |-> 0]
<1>1. /\ old # <<>> /\ wd_window[s].pc = "idle"
      /\ UNCHANGED <<wd_stream, wd_open, wd_tracker, wd_sent, wd_told, wd_now>>
      /\ \/ wd_window' = [wd_window EXCEPT ![s] = read(FALSE)] /\ wd_jobs' = wd_jobs
         \/ /\ wd_window' = [wd_window EXCEPT ![s] = IF Head(old).kind = "end" THEN read(TRUE) ELSE Watcher!Idle]
            /\ wd_jobs' = [wd_jobs EXCEPT ![s] = Tail(@)]
  BY DEF Watcher!BeginWindow
<1>2. /\ old \in Seq([kind : {"tick", "end"}, mono : Nat])
      /\ \A b \in BOOLEAN : read(b) \in [pc : {"idle", "read", "enqueue"}, final : BOOLEAN, upto : Nat]
      /\ Watcher!Idle \in [pc : {"idle", "read", "enqueue"}, final : BOOLEAN, upto : Nat] /\ Watcher!Idle.pc = "idle"
  BY <1>0 DEF WatcherTypes, Watcher!Idle
<1>3. /\ wd_open[s] # "no" /\ ~HasFinal(wd_sent[s])
      /\ wd_open[s] = "over" => s \in wd_told \/ old[Len(old)].kind = "end"
      /\ \A i \in DOMAIN old : old[i].kind = "end" => i = Len(old) /\ wd_open[s] = "over"
  BY <1>0, <1>1 DEF FinalInv
<1>4. \A t \in WatchedSessions \ {s} :
         /\ wd_stream'[t] = wd_stream[t] /\ wd_open'[t] = wd_open[t] /\ wd_tracker'[t] = wd_tracker[t]
         /\ wd_jobs'[t] = wd_jobs[t] /\ wd_window'[t] = wd_window[t] /\ wd_sent'[t] = wd_sent[t]
  BY <1>0, <1>1 DEF WatcherTypes
<1>5. CASE wd_window' = [wd_window EXCEPT ![s] = read(FALSE)] /\ wd_jobs' = wd_jobs
  <2>1. wd_window'[s].pc = "read" /\ ~wd_window'[s].final
    BY <1>0, <1>5 DEF WatcherTypes
  <2>2. WatcherTypes'
    BY <1>0, <1>1, <1>2, <1>5 DEF WatcherTypes
  <2>3. TrackerInv(s)' /\ FinalInv(s)'
    BY <1>0, <1>1, <1>3, <1>5, <2>1 DEF TrackerInv, FinalInv, Watcher!WindowStart, Watcher!Nominal
  <2> QED BY <1>1, <1>4, <2>2, <2>3, SessionActs
<1>6. CASE /\ wd_window' = [wd_window EXCEPT ![s] = IF Head(old).kind = "end" THEN read(TRUE) ELSE Watcher!Idle]
           /\ wd_jobs' = [wd_jobs EXCEPT ![s] = Tail(@)]
  <2>1. wd_jobs'[s] = Tail(old)
    BY <1>0, <1>6 DEF WatcherTypes
  <2>2. /\ Tail(old) \in Seq([kind : {"tick", "end"}, mono : Nat])
        /\ Len(old) \in Nat \ {0} /\ Len(Tail(old)) = Len(old) - 1 /\ Head(old) = old[1]
        /\ DOMAIN old = 1..Len(old) /\ DOMAIN Tail(old) = 1..(Len(old) - 1)
        /\ \A i \in 1..(Len(old) - 1) : Tail(old)[i] = old[i + 1]
    <3>1. Tail(old) \in Seq([kind : {"tick", "end"}, mono : Nat]) /\ Len(old) \in Nat \ {0}
      BY <1>1, <1>2
    <3>2. Len(Tail(old)) = Len(old) - 1 /\ Head(old) = old[1]
      BY <1>1, <1>2
    <3>3. DOMAIN old = 1..Len(old) /\ DOMAIN Tail(old) = 1..(Len(old) - 1)
      BY <1>1, <1>2
    <3>4. \A i \in 1..(Len(old) - 1) : Tail(old)[i] = old[i + 1]
      BY <1>1, <1>2
    <3> QED BY <3>1, <3>2, <3>3, <3>4
  <2>3. WatcherTypes'
    BY <1>0, <1>1, <1>2, <1>6, <2>1, <2>2 DEF WatcherTypes
  <2>4. CASE Head(old).kind = "end"
    <3>1. Len(old) = 1 /\ wd_open[s] = "over"
      <4>1. Len(old) \in Nat \ {0} /\ DOMAIN old = 1..Len(old) /\ old[1].kind = "end"
        BY <2>2, <2>4
      <4>2. 1 \in DOMAIN old
        BY <4>1
      <4> QED BY <1>3, <4>1, <4>2
    <3>2. wd_jobs'[s] = <<>> /\ wd_window'[s] = read(TRUE)
      BY <1>0, <1>6, <2>1, <2>2, <2>4, <3>1 DEF WatcherTypes
    <3>3. wd_window'[s].pc = "read" /\ wd_window'[s].final
      BY <3>2
    <3>4. TrackerInv(s)' /\ FinalInv(s)'
      BY <1>0, <1>1, <1>3, <3>1, <3>2, <3>3 DEF TrackerInv, FinalInv, Watcher!WindowStart, Watcher!Nominal
    <3> QED BY <1>1, <1>4, <2>3, <3>4, SessionActs
  <2>5. CASE Head(old).kind # "end"
    <3>1. wd_window'[s].pc = "idle"
      BY <1>0, <1>2, <1>6, <2>5 DEF WatcherTypes
    <3> DEFINE new == Tail(old)
    <3>2. \A i \in DOMAIN new : new[i].kind = "end" => i = Len(new) /\ wd_open[s] = "over"
      <4> SUFFICES ASSUME NEW i \in 1..(Len(old) - 1), new[i].kind = "end" PROVE i = Len(new) /\ wd_open[s] = "over"
        BY <2>2
      <4>1. i + 1 \in DOMAIN old /\ old[i + 1].kind = "end"
        BY <2>2
      <4> QED BY <1>3, <2>2, <4>1
    <3>3. wd_open[s] = "over" => s \in wd_told \/ (new # <<>> /\ new[Len(new)].kind = "end")
      <4> SUFFICES ASSUME wd_open[s] = "over", s \notin wd_told PROVE new # <<>> /\ new[Len(new)].kind = "end"
        OBVIOUS
      <4>1. old[Len(old)].kind = "end" /\ Len(old) # 1
        BY <1>3, <2>2, <2>5
      <4>2. Len(old) - 1 \in 1..(Len(old) - 1) /\ Len(new) = Len(old) - 1
        <5>1. Len(old) \in Nat \ {0} /\ Len(new) = Len(old) - 1
          BY <2>2
        <5> HIDE DEF old, new
        <5> QED BY <4>1, <5>1
      <4>3. new[Len(new)] = old[Len(old)]
        BY <2>2, <4>2
      <4>4. new # <<>>
        BY <2>2, <4>2
      <4> QED BY <4>1, <4>3, <4>4
    <3> HIDE DEF new
    <3>4. wd_jobs'[s] = new
      BY <2>1 DEF new
    <3>5. TrackerInv(s)' /\ FinalInv(s)'
      BY <1>0, <1>1, <1>3, <3>1, <3>2, <3>3, <3>4 DEF TrackerInv, FinalInv, Watcher!WindowStart, Watcher!Nominal
    <3> QED BY <1>1, <1>4, <2>3, <3>5, SessionActs
  <2> QED BY <2>4, <2>5
<1> QED BY <1>1, <1>5, <1>6

\* What is read is all that was written; what is shown of it may be less.
LEMMA WindowKeeps ==
  ASSUME WatcherInv, NEW s \in WatchedSessions, NEW ok \in BOOLEAN, Watcher!Read(s, ok) \/ Watcher!Enqueue(s, ok)
  PROVE  WatcherInv'
<1>0. WatcherTypes /\ TrackerInv(s) /\ FinalInv(s)
  BY DEF WatcherInv
<1>1. /\ wd_window[s].pc # "idle" /\ UNCHANGED <<wd_stream, wd_open, wd_jobs, wd_now>>
      /\ wd_window[s] \in [pc : {"idle", "read", "enqueue"}, final : BOOLEAN, upto : Nat]
      /\ Len(wd_stream[s]) \in Nat
  <2>1. wd_window[s].pc # "idle" /\ UNCHANGED <<wd_stream, wd_open, wd_jobs, wd_now>>
    BY DEF Watcher!Read, Watcher!Enqueue
  <2>2. wd_window[s] \in [pc : {"idle", "read", "enqueue"}, final : BOOLEAN, upto : Nat]
    BY <1>0 DEF WatcherTypes
  <2>3. wd_stream[s] \in Seq(LineKinds)
    BY <1>0 DEF WatcherTypes
  <2> QED BY <2>1, <2>2, <2>3
<1>2. CASE Watcher!Fails(s)
  BY <1>1, <1>2, FailureKeeps
<1>3. CASE Watcher!Rendered(s, Watcher!ReadTo(s)) = {} /\ Watcher!Succeeds(s, Watcher!ReadTo(s), {}, FALSE)
  <2>1. /\ Watcher!Rendered(s, Len(wd_stream[s])) = {} /\ Watcher!Succeeds(s, Len(wd_stream[s]), {}, FALSE)
        /\ FALSE \in BOOLEAN /\ {} \subseteq Watcher!Rendered(s, Len(wd_stream[s]))
    BY <1>3 DEF Watcher!ReadTo
  <2>2. Len(wd_stream[s]) <= Len(wd_stream[s])
    BY <1>1
  <2> QED BY <1>1, <2>1, <2>2, SuccessKeeps
<1>4. CASE /\ wd_window' = [wd_window EXCEPT ![s].pc = "enqueue", ![s].upto = Watcher!ReadTo(s)]
           /\ UNCHANGED <<wd_tracker, wd_sent, wd_told>>
  <2>1. wd_window'[s] = [wd_window[s] EXCEPT !.pc = "enqueue", !.upto = Len(wd_stream[s])]
    BY <1>0, <1>4 DEF WatcherTypes, Watcher!ReadTo
  <2>2. /\ wd_window'[s] \in [pc : {"idle", "read", "enqueue"}, final : BOOLEAN, upto : Nat]
        /\ wd_window'[s].pc = "enqueue" /\ wd_window'[s].upto = Len(wd_stream[s])
        /\ wd_window'[s].final = wd_window[s].final
    BY <1>1, <2>1
  <2>3. WatcherTypes'
    BY <1>0, <1>1, <1>4, <2>2 DEF WatcherTypes
  <2>4. TrackerInv(s)' /\ FinalInv(s)'
    BY <1>0, <1>1, <1>4, <2>2 DEF TrackerInv, FinalInv, Watcher!WindowStart, Watcher!Nominal
  <2>5. \A t \in WatchedSessions \ {s} :
           /\ wd_stream'[t] = wd_stream[t] /\ wd_open'[t] = wd_open[t] /\ wd_tracker'[t] = wd_tracker[t]
           /\ wd_jobs'[t] = wd_jobs[t] /\ wd_window'[t] = wd_window[t] /\ wd_sent'[t] = wd_sent[t]
    BY <1>0, <1>1, <1>4 DEF WatcherTypes
  <2> QED BY <1>4, <2>3, <2>4, <2>5, SessionActs
<1>5. CASE /\ Watcher!Enqueue(s, ok) /\ ok
  <2> DEFINE lines == Watcher!Rendered(s, wd_window[s].upto)
  <2>1. /\ wd_window[s].pc = "enqueue"
        /\ Watcher!Succeeds(s, wd_window[s].upto, Watcher!Shown(lines), Watcher!Shown(lines) # lines)
    BY <1>5 DEF Watcher!Enqueue, Watcher!Upto
  <2>2. /\ wd_window[s].upto \in Nat /\ wd_window[s].upto <= Len(wd_stream[s])
        /\ wd_window[s].final => wd_window[s].upto = Len(wd_stream[s])
    BY <1>0, <1>1, <2>1 DEF TrackerInv, FinalInv
  <2>3. Watcher!Shown(lines) \subseteq lines
    BY DEF Watcher!Shown
  <2>4. (Watcher!Shown(lines) # lines) \in BOOLEAN /\ ((Watcher!Shown(lines) # lines) \/ Watcher!Shown(lines) = lines)
    OBVIOUS
  <2> QED BY <1>1, <2>1, <2>2, <2>3, <2>4, SuccessKeeps
<1> QED BY <1>2, <1>3, <1>4, <1>5 DEF Watcher!Read, Watcher!Enqueue

LEMMA WatcherStep == WatcherInv /\ [Watcher!Next]_watcher_vars => WatcherInv'
<1> SUFFICES ASSUME WatcherInv, [Watcher!Next]_watcher_vars PROVE WatcherInv'
  OBVIOUS
<1>1. ASSUME UNCHANGED <<wd_stream, wd_open, wd_tracker, wd_jobs, wd_window, wd_sent, wd_told>>, wd_now' \in Nat
      PROVE  WatcherInv'
  <2>1. WatcherTypes'
    BY <1>1 DEF WatcherInv, WatcherTypes
  <2> QED BY <1>1, <2>1, SessionStays DEF WatcherInv
<1>2. wd_now \in Nat
  BY DEF WatcherInv, WatcherTypes
<1>3. ASSUME NEW s \in WatchedSessions, Watcher!BeginLine(s) PROVE WatcherInv'
  BY <1>1, <1>2, <1>3 DEF Watcher!BeginLine
<1>4. CASE Watcher!Advance
  BY <1>1, <1>2, <1>4 DEF Watcher!Advance
<1>5. CASE UNCHANGED watcher_vars
  BY <1>1, <1>2, <1>5 DEF watcher_vars
<1> QED
  BY <1>3, <1>4, <1>5, StartKeeps, EndLineKeeps, EndKeeps, TickKeeps, BeginWindowKeeps, WindowKeeps DEF Watcher!Next

LEMMA WatcherIsKept == ServicesSpec => []WatcherHolds
<1>1. ServicesInit => WatcherHolds
  BY WatcherStarts DEF ServicesInit, WatcherHolds
<1>2. WatcherHolds /\ [ServicesNext]_AllVars => WatcherHolds'
  <2> SUFFICES ASSUME WatcherHolds, [ServicesNext]_AllVars, part' = "watcher" PROVE WatcherInv'
    BY DEF WatcherHolds
  <2>1. part = "watcher" /\ [Watcher!Next]_watcher_vars
    BY DEF ServicesNext, HostPart, CapsulePart, ReviewerPart, WatcherPart, DetailPart, ViewPart, CriteriaPart, AllVars
  <2> QED BY <2>1, WatcherStep DEF WatcherHolds
<1> QED BY <1>1, <1>2, PTL DEF ServicesSpec

\* Whenever reads and enqueues fail and however late a tick is, the windows of a session follow each
\* other without a gap, each line is shown once or said not to be, and no line of a session that is
\* over is lost unless Meta was to be told (host/watcher/dispatcher.ts).
THEOREM ServicesWatchLinesOnce == ServicesSpec => []LinesAreWatchedOnce
<1>1. WatcherHolds => LinesAreWatchedOnce
  BY InvariantSaysWatchedOnce DEF WatcherHolds, LinesAreWatchedOnce
<1> QED BY <1>1, WatcherIsKept, PTL

-----------------------------------------------------------------------------
(* The event stream of a task page                                           *)

Even(x) == \E k \in Nat : x = 2 * k

\* What the page does not find by itself was sent, up to some point.
LinesSent(upto) == \A n \in 1..MaxLines : 2 * n > ds_shown.stream /\ 2 * n <= upto => n \in ds_sent.stream
RowsSent(l, upto) == \A n \in 1..MaxRows : n > ds_shown[l] /\ n <= upto => n \in ds_sent[l]

Cursors == {"conversation", "events", "stream"}
PushRecords == [kind : {"conversation", "events", "stream", "files"}, from : Nat, got : Nat, initial : BOOLEAN]
DetailTypes ==
  /\ ds_files \in 0..MaxFiles /\ ds_path \in 0..ds_files
  /\ ds_size \in [1..MaxFiles -> Nat] /\ ds_rows \in [{"conversation", "events"} -> Nat]
  /\ ds_pc \in {"conversation", "events", "files", "resolve", "stream", "watch", "done", "failed"}
  /\ ds_cursor \in [Cursors -> Nat] /\ ds_shown \in [Cursors -> Nat]
  /\ ds_known \in [init : BOOLEAN, names : SUBSET (1..ds_files)]
  /\ ds_sent \in [Cursors \cup {"files"} -> SUBSET Nat]
  /\ ds_pushes \subseteq PushRecords

\* A push found a cursor behind which everything was sent, at the end of a line; one push of the
\* hydration is under way, for the step the hydration is at.
PushesInv ==
  /\ \A p \in ds_pushes : p.kind = "stream" =>
       /\ ds_path # 0 /\ Even(p.from) /\ (~ds_closed => LinesSent(p.from))
       /\ p.initial /\ p.got # Detail!Unread => p.got # 1
  /\ \A p \in ds_pushes : p.kind = "events" /\ ~ds_closed => RowsSent("events", p.from)
  /\ \A p \in ds_pushes : p.kind = "files" /\ p.got # Detail!Unread => p.got <= ds_files
  /\ \A p \in ds_pushes : p.initial => p.kind = ds_pc
  /\ \A p, q \in ds_pushes : p.initial /\ q.initial => p = q

\* Before the hydration has come to a cursor, the page is not thought to show anything.
HydrationInv ==
  /\ ds_pc = "conversation" => ds_shown.conversation = 0
  /\ ds_pc \in {"conversation", "events"} => ds_shown.events = 0
  /\ ds_pc \in {"conversation", "events", "files", "resolve", "stream"} => ds_shown.stream = 0
  /\ ds_pc \in {"conversation", "events", "files", "resolve"} => ds_path = 0
  /\ ds_pc = "stream" => ds_path # 0
  /\ ds_pc \notin {"conversation", "events", "files"} => ds_known.init
  /\ ~ds_known.init => ds_known.names = {}

CursorsInv ==
  /\ Even(ds_cursor.stream)
  /\ ~ds_closed => /\ LinesSent(ds_cursor.stream)
                   /\ RowsSent("conversation", ds_cursor.conversation)
                   /\ RowsSent("events", ds_cursor.events)

\* A file that was not named is the one that is followed, or older.
FilesInv ==
  ~ds_closed /\ ds_pc \in {"stream", "watch", "done", "failed"} =>
    \A f \in ds_known.names : f \in ds_sent.files \/ f <= ds_path

DetailInv == DetailTypes /\ PushesInv /\ HydrationInv /\ CursorsInv /\ FilesInv
DetailHolds == part = "detail" => DetailInv

\* The lines that are complete.
LEMMA CompleteIsEven ==
  ASSUME NEW h \in Nat PROVE Detail!Complete(h) \in Nat /\ Even(Detail!Complete(h)) /\ Detail!Complete(h) <= h
<1>1. h \div 2 \in Nat /\ 2 * (h \div 2) <= h
  OBVIOUS
<1> QED BY <1>1 DEF Detail!Complete, Even

LEMMA DetailStarts == Detail!Init => DetailInv
<1> SUFFICES ASSUME Detail!Init PROVE DetailInv
  OBVIOUS
<1> USE PageAssumption DEF Detail!Init, Detail!None
<1>1. DetailTypes
  BY DEF DetailTypes, Cursors, Detail!Logs, Detail!Kinds
<1>2. /\ ds_cursor.stream = 0 /\ ds_cursor.conversation = 0 /\ ds_cursor.events = 0
      /\ ds_shown.stream = 0 /\ ds_shown.conversation = 0 /\ ds_shown.events = 0
  BY DEF Detail!Logs
<1>3. PushesInv /\ HydrationInv /\ FilesInv
  BY <1>2 DEF PushesInv, HydrationInv, FilesInv
<1>4. Even(0)
  BY DEF Even
<1>5. CursorsInv
  BY <1>2, <1>4 DEF CursorsInv, LinesSent, RowsSent
<1> QED BY <1>1, <1>3, <1>5 DEF DetailInv

LEMMA InvariantSaysNothingMissed == DetailInv => Detail!NothingIsMissed
<1> SUFFICES ASSUME DetailInv, ~ds_closed PROVE Detail!NoLineIsMissed /\ Detail!NoRowIsMissed /\ Detail!NoFileIsMissed
  BY DEF Detail!NothingIsMissed
<1>1. Detail!NoLineIsMissed
  <2> SUFFICES ASSUME NEW n \in 1..MaxLines, 2 * n > ds_shown.stream, 2 * n - 2 < ds_cursor.stream
               PROVE  n \in ds_sent.stream
    BY DEF Detail!NoLineIsMissed
  <2>1. PICK k \in Nat : ds_cursor.stream = 2 * k
    BY DEF DetailInv, CursorsInv, Even
  <2>2. 2 * n <= ds_cursor.stream
    BY <2>1
  <2> QED BY <2>2 DEF DetailInv, CursorsInv, LinesSent
<1>2. Detail!NoRowIsMissed
  BY DEF DetailInv, CursorsInv, RowsSent, Detail!NoRowIsMissed, Detail!Logs
<1>3. Detail!NoFileIsMissed
  <2> SUFFICES ASSUME ds_pc = "done", ds_known.names = 1..ds_files PROVE ds_path = ds_files \/ ds_files \in ds_sent.files
    BY DEF Detail!NoFileIsMissed
  <2>1. ds_files \in Nat /\ ds_path \in 0..ds_files
    BY PageAssumption DEF DetailInv, DetailTypes
  <2>2. ds_files # 0 => ds_files \in ds_known.names
    BY <2>1
  <2> QED BY <2>1, <2>2 DEF DetailInv, FilesInv
<1> QED BY <1>1, <1>2, <1>3

\* Nothing is forgotten when the page shows no less, the browser was sent no less, and the page is
\* thought to show no more than it did.
SentStays ==
  /\ \A k \in Cursors \cup {"files"} : ds_sent[k] \subseteq ds_sent'[k]
  /\ \A k \in Cursors : ds_shown[k] <= ds_shown'[k]

LEMMA LinesStay ==
  ASSUME DetailTypes, SentStays, ds_shown' \in [Cursors -> Nat], NEW x \in Nat, LinesSent(x) PROVE LinesSent(x)'
<1> SUFFICES ASSUME NEW n \in 1..MaxLines, 2 * n > ds_shown'.stream, 2 * n <= x PROVE n \in ds_sent'.stream
  BY DEF LinesSent
<1>1. ds_shown.stream \in Nat /\ ds_shown'.stream \in Nat /\ ds_shown.stream <= ds_shown'.stream
  BY DEF DetailTypes, Cursors, SentStays
<1>2. n \in Nat
  BY PageAssumption
<1>3. n \in ds_sent.stream
  BY <1>1, <1>2 DEF LinesSent
<1> QED BY <1>3 DEF SentStays, Cursors

LEMMA RowsStay ==
  ASSUME DetailTypes, SentStays, ds_shown' \in [Cursors -> Nat], NEW l \in {"conversation", "events"}, NEW x \in Nat,
         RowsSent(l, x)
  PROVE  RowsSent(l, x)'
<1> SUFFICES ASSUME NEW n \in 1..MaxRows, n > ds_shown'[l], n <= x PROVE n \in ds_sent'[l]
  BY DEF RowsSent
<1>1. l \in Cursors /\ ds_shown[l] \in Nat /\ ds_shown'[l] \in Nat /\ ds_shown[l] <= ds_shown'[l]
  BY DEF DetailTypes, Cursors, SentStays
<1>2. n \in Nat
  BY PageAssumption
<1>3. n \in ds_sent[l]
  BY <1>1, <1>2 DEF RowsSent
<1> QED BY <1>1, <1>3 DEF SentStays

\* A push that ends, well or not: what is left of the pushes is what it was.
LEMMA PushesStay ==
  ASSUME DetailTypes, PushesInv, SentStays, ds_shown' \in [Cursors -> Nat], ds_pushes' \subseteq ds_pushes,
         ds_path' = ds_path \/ ds_path = 0, ds_files' >= ds_files, ds_files' \in Nat,
         ds_closed => ds_closed',
         \A p \in ds_pushes' : p.initial => ds_pc' = ds_pc
  PROVE  PushesInv'
<1>1. ASSUME NEW p \in ds_pushes', p.kind = "stream"
      PROVE  /\ ds_path' # 0 /\ Even(p.from) /\ (~ds_closed' => LinesSent(p.from)')
             /\ p.initial /\ p.got # Detail!Unread => p.got # 1
  <2>1. p \in ds_pushes /\ p.from \in Nat
    BY DEF DetailTypes, PushRecords
  <2> QED BY <1>1, <2>1, LinesStay DEF PushesInv
<1>2. ASSUME NEW p \in ds_pushes', p.kind = "events", ~ds_closed' PROVE RowsSent("events", p.from)'
  <2>1. p \in ds_pushes /\ p.from \in Nat
    BY DEF DetailTypes, PushRecords
  <2> QED BY <1>2, <2>1, RowsStay DEF PushesInv
<1>3. ASSUME NEW p \in ds_pushes', p.kind = "files", p.got # Detail!Unread PROVE p.got <= ds_files'
  <2>1. p \in ds_pushes /\ p.got \in Nat /\ ds_files \in Nat
    BY PageAssumption DEF DetailTypes, PushRecords
  <2>2. p.got <= ds_files
    BY <1>3, <2>1 DEF PushesInv
  <2> QED BY <2>1, <2>2
<1>4. /\ \A p \in ds_pushes' : p.initial => p.kind = ds_pc'
      /\ \A p, q \in ds_pushes' : p.initial /\ q.initial => p = q
  BY DEF PushesInv
<1> QED BY <1>1, <1>2, <1>3, <1>4 DEF PushesInv, Detail!Unread

\* What changes outside the server: the files grow, or the browser goes.
LEMMA WorldKeeps ==
  ASSUME DetailInv,
         UNCHANGED <<ds_pc, ds_path, ds_cursor, ds_known, ds_pushes, ds_sent, ds_shown>>,
         ds_files' \in ds_files..MaxFiles, ds_size' \in [1..MaxFiles -> Nat],
         ds_rows' \in [{"conversation", "events"} -> Nat], ds_closed => ds_closed'
  PROVE  DetailInv'
<1>0. DetailTypes /\ PushesInv /\ HydrationInv /\ CursorsInv /\ FilesInv
  BY DEF DetailInv
<1>1. DetailTypes'
  <2>1. ds_files' \in 0..MaxFiles /\ ds_path' \in 0..ds_files' /\ 1..ds_files \subseteq 1..ds_files'
    BY <1>0, PageAssumption DEF DetailTypes
  <2>2. ds_known' \in [init : BOOLEAN, names : SUBSET (1..ds_files')]
    BY <1>0, <2>1 DEF DetailTypes
  <2> QED BY <1>0, <2>1, <2>2 DEF DetailTypes
<1>2. SentStays /\ ds_shown' \in [Cursors -> Nat] /\ ds_files' \in Nat /\ ds_files' >= ds_files
  BY <1>0, PageAssumption DEF SentStays, DetailTypes, Cursors
<1>3. PushesInv'
  BY <1>0, <1>2, PushesStay
<1>4. HydrationInv' /\ FilesInv'
  BY <1>0 DEF HydrationInv, FilesInv
<1>5. CursorsInv'
  <2>1. ds_cursor.stream \in Nat /\ ds_cursor.conversation \in Nat /\ ds_cursor.events \in Nat
    BY <1>0 DEF DetailTypes, Cursors
  <2> QED BY <1>0, <1>2, <2>1, LinesStay, RowsStay DEF CursorsInv
<1> QED BY <1>1, <1>3, <1>4, <1>5 DEF DetailInv

\* A push begins behind what was sent.
LEMMA BeginningKeeps ==
  ASSUME DetailInv, NEW k \in {"conversation", "events", "stream", "files"}, NEW initial \in BOOLEAN,
         k = "stream" => ds_path # 0, initial => k = ds_pc /\ \A p \in ds_pushes : ~p.initial,
         ds_pushes' = ds_pushes \cup {Detail!Begun(k, initial)},
         UNCHANGED <<ds_size, ds_files, ds_rows, ds_pc, ds_path, ds_cursor, ds_known, ds_sent, ds_shown, ds_closed>>
  PROVE  DetailInv'
<1>0. DetailTypes /\ PushesInv /\ HydrationInv /\ CursorsInv /\ FilesInv
  BY DEF DetailInv
<1> DEFINE b == Detail!Begun(k, initial)
<1>1. /\ b = [kind |-> k, from |-> IF k = "files" THEN 0 ELSE ds_cursor[k], got |-> 99, initial |-> initial]
      /\ b.kind = k /\ b.got = 99 /\ b.initial = initial /\ (k # "files" => b.from = ds_cursor[k])
  BY DEF Detail!Begun, Detail!Cursor, Detail!Unread
<1>2. b \in PushRecords
  BY <1>0, <1>1 DEF PushRecords, DetailTypes, Cursors
<1>3. DetailTypes'
  BY <1>0, <1>2 DEF DetailTypes
<1>4. PushesInv'
  <2> HIDE DEF b
  <2>1. ds_pushes' = ds_pushes \cup {b}
    BY DEF b
  <2>2. k = "stream" => b.from = ds_cursor.stream /\ Even(b.from) /\ (~ds_closed => LinesSent(b.from))
    BY <1>0, <1>1 DEF CursorsInv
  <2>3. k = "events" /\ ~ds_closed => RowsSent("events", b.from)
    BY <1>0, <1>1 DEF CursorsInv
  <2>4. \A p \in ds_pushes' : p.kind = "stream" =>
          /\ ds_path' # 0 /\ Even(p.from) /\ (~ds_closed' => LinesSent(p.from)')
          /\ p.initial /\ p.got # Detail!Unread => p.got # 1
    BY <1>0, <1>1, <2>1, <2>2 DEF PushesInv, LinesSent, Detail!Unread
  <2>5. \A p \in ds_pushes' : p.kind = "events" /\ ~ds_closed' => RowsSent("events", p.from)'
    BY <1>0, <1>1, <2>1, <2>3 DEF PushesInv, RowsSent
  <2>6. \A p \in ds_pushes' : p.kind = "files" /\ p.got # Detail!Unread => p.got <= ds_files'
    BY <1>0, <1>1, <2>1 DEF PushesInv, Detail!Unread
  <2>7. \A p \in ds_pushes' : p.initial => p.kind = ds_pc'
    BY <1>0, <1>1, <2>1 DEF PushesInv
  <2>8. \A p, q \in ds_pushes' : p.initial /\ q.initial => p = q
    BY <1>0, <1>1, <2>1 DEF PushesInv
  <2> QED BY <2>4, <2>5, <2>6, <2>7, <2>8 DEF PushesInv, Detail!Unread
<1>5. HydrationInv' /\ FilesInv' /\ CursorsInv'
  BY <1>0 DEF HydrationInv, FilesInv, CursorsInv, LinesSent, RowsSent
<1> QED BY <1>3, <1>4, <1>5 DEF DetailInv

\* The read decides what a push has got, and nothing else of it.
LEMMA ReadingKeeps ==
  ASSUME DetailInv, NEW p \in ds_pushes, Detail!Read(p) PROVE DetailInv'
<1>0. DetailTypes /\ PushesInv /\ HydrationInv /\ CursorsInv /\ FilesInv
  BY DEF DetailInv
<1> DEFINE r == [p EXCEPT !.got = Detail!Found(p.kind)]
<1>1. /\ ds_pushes' = (ds_pushes \ {p}) \cup {r} /\ p.got = Detail!Unread
      /\ (p.initial /\ p.kind = "stream" => ds_size[ds_path] # 1)
      /\ UNCHANGED <<ds_size, ds_files, ds_rows, ds_pc, ds_path, ds_cursor, ds_known, ds_sent, ds_shown, ds_closed>>
  BY DEF Detail!Read
<1>2. p \in PushRecords /\ p.kind \in {"conversation", "events", "stream", "files"}
  BY <1>0 DEF DetailTypes, PushRecords
<1>3. /\ p.kind = "stream" => ds_path \in 1..MaxFiles /\ Detail!Found(p.kind) = ds_size[ds_path]
      /\ p.kind = "files" => Detail!Found(p.kind) = ds_files
      /\ p.kind \in {"conversation", "events"} => Detail!Found(p.kind) = ds_rows[p.kind]
  <2>1. p.kind = "stream" => ds_path \in 1..MaxFiles
    BY <1>0, PageAssumption DEF DetailTypes, PushesInv
  <2>2. CASE p.kind = "stream"
    BY <2>1, <2>2 DEF Detail!Found
  <2>3. CASE p.kind = "files"
    BY <2>3 DEF Detail!Found
  <2>4. CASE p.kind \in {"conversation", "events"}
    BY <2>4 DEF Detail!Found
  <2> QED BY <1>2, <2>2, <2>3, <2>4
<1>4. Detail!Found(p.kind) \in Nat
  BY <1>0, <1>2, <1>3, PageAssumption DEF DetailTypes
<1>5. r \in PushRecords /\ r.kind = p.kind /\ r.from = p.from /\ r.initial = p.initial /\ r.got = Detail!Found(p.kind)
  BY <1>2, <1>4 DEF PushRecords
<1> HIDE DEF r
<1>6. DetailTypes'
  BY <1>0, <1>1, <1>5 DEF DetailTypes
<1>7. PushesInv'
  <2>1. \A q \in ds_pushes' : q.kind = "stream" =>
          /\ ds_path' # 0 /\ Even(q.from) /\ (~ds_closed' => LinesSent(q.from)')
          /\ q.initial /\ q.got # Detail!Unread => q.got # 1
    BY <1>0, <1>1, <1>3, <1>5 DEF PushesInv, LinesSent
  <2>2. \A q \in ds_pushes' : q.kind = "events" /\ ~ds_closed' => RowsSent("events", q.from)'
    BY <1>0, <1>1, <1>5 DEF PushesInv, RowsSent
  <2>3. \A q \in ds_pushes' : q.kind = "files" /\ q.got # Detail!Unread => q.got <= ds_files'
    <3>1. ds_files \in Nat
      BY <1>0, PageAssumption DEF DetailTypes
    <3> QED BY <1>0, <1>1, <1>3, <1>5, <3>1 DEF PushesInv
  <2>4. \A q \in ds_pushes' : q.initial => q.kind = ds_pc'
    BY <1>0, <1>1, <1>5 DEF PushesInv
  <2>5. \A q, o \in ds_pushes' : q.initial /\ o.initial => q = o
    BY <1>0, <1>1, <1>5 DEF PushesInv
  <2> QED BY <2>1, <2>2, <2>3, <2>4, <2>5 DEF PushesInv, Detail!Unread
<1>8. HydrationInv' /\ FilesInv' /\ CursorsInv'
  BY <1>0, <1>1 DEF HydrationInv, FilesInv, CursorsInv, LinesSent, RowsSent
<1> QED BY <1>6, <1>7, <1>8 DEF DetailInv

\* What is sent adds to what was sent; what is new of it is there, unless the connection is over.
LEMMA SendingAdds ==
  ASSUME DetailTypes, NEW k \in Cursors \cup {"files"}, NEW new \in SUBSET Nat, Detail!Send(k, new)
  PROVE  /\ ds_sent' \in [Cursors \cup {"files"} -> SUBSET Nat]
         /\ \A l \in Cursors \cup {"files"} : ds_sent[l] \subseteq ds_sent'[l]
         /\ ~ds_closed => new \subseteq ds_sent'[k]
BY DEF DetailTypes, Detail!Send

\* A push that ends leaves every cursor behind what was sent.
LEMMA PushEndKeeps == 
  ASSUME DetailInv, NEW p \in ds_pushes, Detail!EndPush(p) PROVE DetailInv'
<1>0. DetailTypes /\ PushesInv /\ HydrationInv /\ CursorsInv /\ FilesInv
  BY DEF DetailInv
<1>1. /\ p.got # Detail!Unread /\ ~p.initial /\ ds_pushes' = ds_pushes \ {p}
      /\ UNCHANGED <<ds_size, ds_files, ds_rows, ds_pc, ds_path, ds_shown, ds_closed>>
  BY DEF Detail!EndPush, Detail!Ended
<1>2. p \in PushRecords /\ p.from \in Nat /\ p.got \in Nat
  BY <1>0 DEF DetailTypes, PushRecords
<1>3. ds_cursor.stream \in Nat /\ ds_cursor.conversation \in Nat /\ ds_cursor.events \in Nat
  BY <1>0 DEF DetailTypes, Cursors
<1>4. ASSUME ds_sent' \in [Cursors \cup {"files"} -> SUBSET Nat],
             \A l \in Cursors \cup {"files"} : ds_sent[l] \subseteq ds_sent'[l],
             ds_cursor' \in [Cursors -> Nat],
             ds_known' \in [init : BOOLEAN, names : SUBSET (1..ds_files)],
             ds_known.init => ds_known'.init, ~ds_known'.init => ds_known'.names = {},
             ~ds_closed' => \A f \in ds_known'.names : f \in ds_known.names \/ ~ds_known.init \/ f \in ds_sent'.files,
             CursorsInv'
      PROVE  DetailInv'
  <2>1. DetailTypes'
    BY <1>0, <1>1, <1>4 DEF DetailTypes
  <2>2. SentStays /\ ds_shown' \in [Cursors -> Nat] /\ ds_files' \in Nat /\ ds_files' >= ds_files
    BY <1>0, <1>1, <1>4, PageAssumption DEF SentStays, DetailTypes, Cursors
  <2>3. PushesInv'
    BY <1>0, <1>1, <2>2, PushesStay
  <2>4. HydrationInv'
    BY <1>0, <1>1, <1>4 DEF HydrationInv
  <2>5. FilesInv'
    BY <1>0, <1>1, <1>4 DEF FilesInv, HydrationInv
  <2> QED BY <1>4, <2>1, <2>3, <2>4, <2>5 DEF DetailInv
<1>5. ASSUME ds_sent' \in [Cursors \cup {"files"} -> SUBSET Nat],
             \A l \in Cursors \cup {"files"} : ds_sent[l] \subseteq ds_sent'[l]
      PROVE  /\ SentStays /\ ds_shown' \in [Cursors -> Nat]
             /\ \A x \in Nat : LinesSent(x) => LinesSent(x)'
             /\ \A x \in Nat : RowsSent("conversation", x) => RowsSent("conversation", x)'
             /\ \A x \in Nat : RowsSent("events", x) => RowsSent("events", x)'
  <2>1. SentStays /\ ds_shown' \in [Cursors -> Nat]
    BY <1>0, <1>1, <1>5 DEF SentStays, DetailTypes, Cursors
  <2> QED BY <1>0, <2>1, LinesStay, RowsStay
<1>6. CASE UNCHANGED <<ds_cursor, ds_known, ds_sent>>
  <2>1. /\ ds_sent' \in [Cursors \cup {"files"} -> SUBSET Nat]
        /\ \A l \in Cursors \cup {"files"} : ds_sent[l] \subseteq ds_sent'[l]
    BY <1>0, <1>6 DEF DetailTypes
  <2>2. CursorsInv'
    BY <1>0, <1>1, <1>3, <1>5, <1>6, <2>1 DEF CursorsInv
  <2> QED BY <1>0, <1>4, <1>6, <2>1, <2>2 DEF DetailTypes, HydrationInv
<1>7. CASE p.kind = "stream" /\ Detail!PushStream(p) /\ UNCHANGED ds_known
  <2> DEFINE lines == {n \in 1..MaxLines : p.from <= 2 * n - 2 /\ 2 * n <= p.got}
  <2>1. /\ ds_cursor' = IF lines = {} THEN ds_cursor ELSE [ds_cursor EXCEPT !.stream = Detail!Complete(p.got)]
        /\ Detail!Send("stream", lines)
    BY <1>7 DEF Detail!PushStream, Detail!ReadStreamFrom
  <2>2. lines \in SUBSET Nat /\ "stream" \in Cursors \cup {"files"}
    BY PageAssumption DEF Cursors
  <2>3. /\ ds_sent' \in [Cursors \cup {"files"} -> SUBSET Nat]
        /\ \A l \in Cursors \cup {"files"} : ds_sent[l] \subseteq ds_sent'[l]
        /\ ~ds_closed => lines \subseteq ds_sent'.stream
    BY <1>0, <2>1, <2>2, SendingAdds
  <2>4. Detail!Complete(p.got) \in Nat /\ Even(Detail!Complete(p.got)) /\ Detail!Complete(p.got) <= p.got
    BY <1>2, CompleteIsEven
  <2>5. /\ ds_cursor' \in [Cursors -> Nat]
        /\ ds_cursor'.conversation = ds_cursor.conversation /\ ds_cursor'.events = ds_cursor.events
        /\ ds_cursor'.stream = ds_cursor.stream \/ ds_cursor'.stream = Detail!Complete(p.got)
    BY <1>0, <2>1, <2>4 DEF DetailTypes, Cursors
  <2>6. ~ds_closed => LinesSent(Detail!Complete(p.got))'
    <3> SUFFICES ASSUME ~ds_closed, NEW n \in 1..MaxLines, 2 * n > ds_shown.stream, 2 * n <= Detail!Complete(p.got)
                 PROVE  n \in ds_sent'.stream
      BY <1>1, <2>4 DEF LinesSent, Detail!Complete
    <3>1. Even(p.from) /\ LinesSent(p.from)
      BY <1>0, <1>7 DEF PushesInv
    <3>2. PICK j \in Nat : p.from = 2 * j
      BY <3>1 DEF Even
    <3>3. CASE 2 * n <= p.from
      BY <2>3, <3>1, <3>3 DEF LinesSent, Cursors
    <3>4. CASE ~(2 * n <= p.from)
      <4>1. n \in Nat
        BY PageAssumption
      <4>2. p.from <= 2 * n - 2 /\ 2 * n <= p.got
        BY <1>2, <2>4, <3>2, <3>4, <4>1
      <4> QED BY <2>3, <4>2
    <3> QED BY <3>3, <3>4
  <2>7. CursorsInv'
    <3>1. CASE ds_cursor'.stream = ds_cursor.stream
      BY <1>0, <1>1, <1>3, <1>5, <2>3, <2>5, <3>1 DEF CursorsInv
    <3>2. CASE ds_cursor'.stream = Detail!Complete(p.got)
      <4>1. Even(ds_cursor'.stream) /\ (~ds_closed' => LinesSent(ds_cursor.stream)')
        BY <1>1, <2>4, <2>6, <3>2 DEF LinesSent
      <4> QED BY <1>0, <1>1, <1>3, <1>5, <2>3, <2>5, <4>1 DEF CursorsInv
    <3> QED BY <2>5, <3>1, <3>2
  <2> QED BY <1>0, <1>4, <1>7, <2>3, <2>5, <2>7 DEF DetailTypes, HydrationInv
<1>8. CASE p.kind = "conversation" /\ Detail!PushConversation(p) /\ UNCHANGED ds_known
  <2>1. /\ ds_cursor' = IF p.got > ds_cursor.conversation THEN [ds_cursor EXCEPT !.conversation = p.got] ELSE ds_cursor
        /\ Detail!Send("conversation", (ds_cursor.conversation + 1)..p.got)
    BY <1>8 DEF Detail!PushConversation
  <2>2. /\ ds_sent' \in [Cursors \cup {"files"} -> SUBSET Nat]
        /\ \A l \in Cursors \cup {"files"} : ds_sent[l] \subseteq ds_sent'[l]
        /\ ~ds_closed => (ds_cursor.conversation + 1)..p.got \subseteq ds_sent'.conversation
    <3>1. (ds_cursor.conversation + 1)..p.got \in SUBSET Nat /\ "conversation" \in Cursors \cup {"files"}
      BY <1>2, <1>3 DEF Cursors
    <3> QED BY <1>0, <2>1, <3>1, SendingAdds
  <2>3. /\ ds_cursor' \in [Cursors -> Nat]
        /\ ds_cursor'.stream = ds_cursor.stream /\ ds_cursor'.events = ds_cursor.events
        /\ ds_cursor'.conversation = ds_cursor.conversation \/ ds_cursor'.conversation = p.got
    BY <1>0, <1>2, <2>1 DEF DetailTypes, Cursors
  <2>4. ~ds_closed => RowsSent("conversation", p.got)'
    <3> SUFFICES ASSUME ~ds_closed, NEW n \in 1..MaxRows, n > ds_shown.conversation, n <= p.got
                 PROVE  n \in ds_sent'.conversation
      BY <1>1 DEF RowsSent
    <3>1. RowsSent("conversation", ds_cursor.conversation) /\ n \in Nat
      BY <1>0, PageAssumption DEF CursorsInv
    <3>2. CASE n <= ds_cursor.conversation
      BY <2>2, <3>1, <3>2 DEF RowsSent, Cursors
    <3>3. CASE ~(n <= ds_cursor.conversation)
      BY <1>2, <1>3, <2>2, <3>1, <3>3
    <3> QED BY <3>2, <3>3
  <2>5. CursorsInv'
    <3>1. CASE ds_cursor'.conversation = ds_cursor.conversation
      BY <1>0, <1>1, <1>3, <1>5, <2>2, <2>3, <3>1 DEF CursorsInv
    <3>2. CASE ds_cursor'.conversation = p.got
      <4>1. ~ds_closed' => RowsSent("conversation", ds_cursor.conversation)'
        BY <1>1, <2>4, <3>2 DEF RowsSent
      <4> QED BY <1>0, <1>1, <1>3, <1>5, <2>2, <2>3, <4>1 DEF CursorsInv
    <3> QED BY <2>3, <3>1, <3>2
  <2> QED BY <1>0, <1>4, <1>8, <2>2, <2>3, <2>5 DEF DetailTypes, HydrationInv
<1>9. CASE p.kind = "events" /\ Detail!PushEvents(p) /\ UNCHANGED ds_known
  <2>1. /\ ds_cursor' = IF p.got > p.from THEN [ds_cursor EXCEPT !.events = p.got] ELSE ds_cursor
        /\ Detail!Send("events", (p.from + 1)..p.got)
    BY <1>9 DEF Detail!PushEvents
  <2>2. /\ ds_sent' \in [Cursors \cup {"files"} -> SUBSET Nat]
        /\ \A l \in Cursors \cup {"files"} : ds_sent[l] \subseteq ds_sent'[l]
        /\ ~ds_closed => (p.from + 1)..p.got \subseteq ds_sent'.events
    <3>1. (p.from + 1)..p.got \in SUBSET Nat /\ "events" \in Cursors \cup {"files"}
      BY <1>2 DEF Cursors
    <3> QED BY <1>0, <2>1, <3>1, SendingAdds
  <2>3. /\ ds_cursor' \in [Cursors -> Nat]
        /\ ds_cursor'.stream = ds_cursor.stream /\ ds_cursor'.conversation = ds_cursor.conversation
        /\ ds_cursor'.events = ds_cursor.events \/ ds_cursor'.events = p.got
    BY <1>0, <1>2, <2>1 DEF DetailTypes, Cursors
  <2>4. ~ds_closed => RowsSent("events", p.got)'
    <3> SUFFICES ASSUME ~ds_closed, NEW n \in 1..MaxRows, n > ds_shown.events, n <= p.got PROVE n \in ds_sent'.events
      BY <1>1 DEF RowsSent
    <3>1. RowsSent("events", p.from) /\ n \in Nat
      BY <1>0, <1>9, PageAssumption DEF PushesInv
    <3>2. CASE n <= p.from
      BY <2>2, <3>1, <3>2 DEF RowsSent, Cursors
    <3>3. CASE ~(n <= p.from)
      BY <1>2, <2>2, <3>1, <3>3
    <3> QED BY <3>2, <3>3
  <2>5. CursorsInv'
    <3>1. CASE ds_cursor'.events = ds_cursor.events
      BY <1>0, <1>1, <1>3, <1>5, <2>2, <2>3, <3>1 DEF CursorsInv
    <3>2. CASE ds_cursor'.events = p.got
      <4>1. ~ds_closed' => RowsSent("events", ds_cursor.events)'
        BY <1>1, <2>4, <3>2 DEF RowsSent
      <4> QED BY <1>0, <1>1, <1>3, <1>5, <2>2, <2>3, <4>1 DEF CursorsInv
    <3> QED BY <2>3, <3>1, <3>2
  <2> QED BY <1>0, <1>4, <1>9, <2>2, <2>3, <2>5 DEF DetailTypes, HydrationInv
<1>10. CASE p.kind = "files" /\ Detail!Listed(p)
  <2> DEFINE new == IF ds_known.init THEN (1..p.got) \ ds_known.names ELSE {}
  <2>1. /\ ds_known' = [init |-> TRUE, names |-> ds_known.names \cup 1..p.got]
        /\ Detail!Send("files", new) /\ ds_cursor' = ds_cursor
    BY <1>10 DEF Detail!Listed
  <2>2. p.got <= ds_files /\ ds_files \in Nat
    BY <1>0, <1>1, <1>10, PageAssumption DEF PushesInv, DetailTypes
  <2>3. /\ ds_known' \in [init : BOOLEAN, names : SUBSET (1..ds_files)] /\ ds_known'.init
        /\ ds_known'.names = ds_known.names \cup 1..p.got
    BY <1>0, <1>2, <2>1, <2>2 DEF DetailTypes
  <2>4. /\ ds_sent' \in [Cursors \cup {"files"} -> SUBSET Nat]
        /\ \A l \in Cursors \cup {"files"} : ds_sent[l] \subseteq ds_sent'[l]
        /\ ~ds_closed => new \subseteq ds_sent'.files
    <3>1. new \in SUBSET Nat /\ "files" \in Cursors \cup {"files"}
      BY <1>2 DEF Cursors
    <3> QED BY <1>0, <2>1, <3>1, SendingAdds
  <2>5. CursorsInv'
    BY <1>0, <1>1, <1>3, <1>5, <2>1, <2>4 DEF CursorsInv
  <2>6. ~ds_closed' => \A f \in ds_known'.names : f \in ds_known.names \/ ~ds_known.init \/ f \in ds_sent'.files
    BY <1>1, <2>3, <2>4
  <2> QED BY <1>0, <1>4, <2>1, <2>3, <2>4, <2>5, <2>6 DEF DetailTypes
<1> QED BY <1>6, <1>7, <1>8, <1>9, <1>10 DEF Detail!EndPush

\* A step of the hydration ends: what the page is to show by itself is what there was.
LEMMA HydrationEndKeeps ==
  ASSUME DetailInv, NEW p \in ds_pushes, Detail!EndHydrate(p) PROVE DetailInv'
<1>0. DetailTypes /\ PushesInv /\ HydrationInv /\ CursorsInv /\ FilesInv
  BY DEF DetailInv
<1>1. /\ p.got # Detail!Unread /\ p.initial /\ ds_pushes' = ds_pushes \ {p} /\ p.kind = ds_pc
      /\ UNCHANGED <<ds_size, ds_files, ds_rows, ds_path, ds_closed>>
      /\ \A q \in ds_pushes' : ~q.initial
  BY <1>0 DEF Detail!EndHydrate, Detail!Ended, PushesInv
<1>2. /\ p \in PushRecords /\ p.got \in Nat /\ p.kind \in {"conversation", "events", "stream", "files"}
      /\ ds_cursor.stream \in Nat /\ ds_cursor.conversation \in Nat /\ ds_cursor.events \in Nat
      /\ ds_shown.stream \in Nat /\ ds_shown.conversation \in Nat /\ ds_shown.events \in Nat
  BY <1>0 DEF DetailTypes, PushRecords, Cursors
<1>3. ASSUME ds_sent' \in [Cursors \cup {"files"} -> SUBSET Nat], ds_shown' \in [Cursors -> Nat], SentStays,
             ds_cursor' \in [Cursors -> Nat], ds_known' \in [init : BOOLEAN, names : SUBSET (1..ds_files)],
             ds_pc' \in {"conversation", "events", "files", "resolve", "stream", "watch", "done", "failed"},
             HydrationInv', CursorsInv', FilesInv'
      PROVE  DetailInv'
  <2>1. DetailTypes'
    BY <1>0, <1>1, <1>3 DEF DetailTypes
  <2>2. ds_files' \in Nat /\ ds_files' >= ds_files
    BY <1>0, <1>1, PageAssumption DEF DetailTypes
  <2>3. PushesInv'
    BY <1>0, <1>1, <1>3, <2>2, PushesStay
  <2> QED BY <1>3, <2>1, <2>3 DEF DetailInv
<1>4. /\ Detail!Steps["conversation"] = "events" /\ Detail!Steps["events"] = "files"
      /\ Detail!Steps["files"] = "resolve" /\ Detail!Steps["stream"] = "watch"
  BY DEF Detail!Steps
<1>5. /\ ds_known \in [init : BOOLEAN, names : SUBSET (1..ds_files)] /\ ds_cursor \in [Cursors -> Nat]
      /\ ds_sent \in [Cursors \cup {"files"} -> SUBSET Nat] /\ ds_shown \in [Cursors -> Nat]
  BY <1>0 DEF DetailTypes
\* A step that failed.
<1>6. CASE UNCHANGED <<ds_cursor, ds_known, ds_shown, ds_sent>> /\ p.kind = "conversation" /\ ds_pc' = Detail!Steps[ds_pc]
  <2>1. ds_pc = "conversation" /\ ds_pc' = "events"
    BY <1>1, <1>4, <1>6
  <2>2. SentStays
    BY <1>2, <1>6 DEF SentStays, Cursors
  <2>3. HydrationInv' /\ FilesInv' /\ CursorsInv'
    BY <1>0, <1>1, <1>6, <2>1 DEF HydrationInv, FilesInv, CursorsInv, LinesSent, RowsSent
  <2> QED BY <1>3, <1>5, <1>6, <2>1, <2>2, <2>3
<1>7. CASE UNCHANGED <<ds_cursor, ds_known, ds_shown, ds_sent>> /\ p.kind = "stream" /\ ds_pc' = "failed"
  <2>1. ds_pc = "stream"
    BY <1>1, <1>7
  <2>2. SentStays
    BY <1>2, <1>7 DEF SentStays, Cursors
  <2>3. HydrationInv' /\ FilesInv' /\ CursorsInv'
    BY <1>0, <1>1, <1>7, <2>1 DEF HydrationInv, FilesInv, CursorsInv, LinesSent, RowsSent
  <2> QED BY <1>3, <1>5, <1>7, <2>2, <2>3
\* The list of files.
<1>8. CASE p.kind = "files" /\ Detail!Listed(p) /\ UNCHANGED ds_shown /\ ds_pc' = Detail!Steps[ds_pc]
  <2> DEFINE new == IF ds_known.init THEN (1..p.got) \ ds_known.names ELSE {}
  <2>0. ds_pc = "files" /\ ds_pc' = "resolve"
    BY <1>1, <1>4, <1>8
  <2>1. /\ ds_known' = [init |-> TRUE, names |-> ds_known.names \cup 1..p.got]
        /\ Detail!Send("files", new) /\ ds_cursor' = ds_cursor
    BY <1>8 DEF Detail!Listed
  <2>2. p.got <= ds_files /\ ds_files \in Nat
    BY <1>0, <1>1, <1>8, PageAssumption DEF PushesInv, DetailTypes
  <2>3. ds_known' \in [init : BOOLEAN, names : SUBSET (1..ds_files)] /\ ds_known'.init
    BY <1>0, <1>2, <2>1, <2>2 DEF DetailTypes
  <2>4. /\ ds_sent' \in [Cursors \cup {"files"} -> SUBSET Nat]
        /\ \A l \in Cursors \cup {"files"} : ds_sent[l] \subseteq ds_sent'[l]
    <3>1. new \in SUBSET Nat /\ "files" \in Cursors \cup {"files"}
      BY <1>2 DEF Cursors
    <3> QED BY <1>0, <2>1, <3>1, SendingAdds
  <2>5. SentStays
    BY <1>2, <1>8, <2>4 DEF SentStays, Cursors
  <2>6. CursorsInv'
    BY <1>0, <1>1, <1>2, <1>5, <1>8, <2>1, <2>5, LinesStay, RowsStay DEF CursorsInv
  <2>7. HydrationInv' /\ FilesInv'
    BY <1>0, <1>1, <1>8, <2>0, <2>3 DEF HydrationInv, FilesInv
  <2> QED BY <1>3, <1>5, <1>8, <2>0, <2>1, <2>3, <2>4, <2>5, <2>6, <2>7
\* A baseline.
<1>9. CASE /\ p.kind # "files" /\ ds_cursor' = [ds_cursor EXCEPT ![p.kind] = Detail!Baseline(p)]
           /\ ds_shown' = [ds_shown EXCEPT ![p.kind] = p.got] /\ UNCHANGED <<ds_known, ds_sent>>
           /\ ds_pc' = Detail!Steps[ds_pc]
  <2>1. p.kind \in {"conversation", "events", "stream"} /\ p.kind \in Cursors
    BY <1>2, <1>9 DEF Cursors
  <2>2. /\ Detail!Baseline(p) \in Nat /\ Detail!Baseline(p) <= p.got
        /\ p.kind = "stream" => Even(Detail!Baseline(p))
    <3>1. CASE p.kind = "stream"
      <4>1. p.got # 1
        BY <1>0, <1>1, <3>1 DEF PushesInv
      <4> QED BY <1>2, <3>1, <4>1, CompleteIsEven DEF Detail!Baseline, Detail!TailOffset
    <3>2. CASE p.kind # "stream"
      BY <1>2, <3>2 DEF Detail!Baseline
    <3> QED BY <3>1, <3>2
  <2>3. /\ ds_cursor' \in [Cursors -> Nat] /\ ds_shown' \in [Cursors -> Nat]
        /\ ds_cursor'[p.kind] = Detail!Baseline(p) /\ ds_shown'[p.kind] = p.got
        /\ \A k \in Cursors \ {p.kind} : ds_cursor'[k] = ds_cursor[k] /\ ds_shown'[k] = ds_shown[k]
    BY <1>2, <1>5, <1>9, <2>1, <2>2
  <2>4. ds_shown[p.kind] = 0
    BY <1>0, <1>1, <2>1 DEF HydrationInv
  <2>5. SentStays
    BY <1>2, <1>5, <1>9, <2>3, <2>4 DEF SentStays
  <2>6. ASSUME NEW x \in Nat, x = ds_cursor'.stream PROVE Even(x) /\ (~ds_closed' => LinesSent(x)')
    <3>1. CASE p.kind = "stream"
      <4>1. x <= ds_shown'.stream /\ ds_shown'.stream \in Nat /\ Even(x)
        BY <1>2, <2>2, <2>3, <2>6, <3>1
      <4>2. \A n \in 1..MaxLines : n \in Nat
        BY PageAssumption
      <4> QED BY <4>1, <4>2 DEF LinesSent
    <3>2. CASE p.kind # "stream"
      <4>1. x = ds_cursor.stream
        BY <2>3, <2>6, <3>2 DEF Cursors
      <4>2. Even(x) /\ (~ds_closed => LinesSent(x))
        BY <1>0, <4>1 DEF CursorsInv
      <4> QED BY <1>0, <1>1, <2>3, <2>5, <4>2, LinesStay
    <3> QED BY <3>1, <3>2
  <2>7. ASSUME NEW l \in {"conversation", "events"}, NEW x \in Nat, x = ds_cursor'[l], ~ds_closed' PROVE RowsSent(l, x)'
    <3>1. CASE p.kind = l
      <4>1. x <= ds_shown'[l] /\ ds_shown'[l] \in Nat
        BY <1>2, <2>2, <2>3, <2>7, <3>1
      <4>2. \A n \in 1..MaxRows : n \in Nat
        BY PageAssumption
      <4> QED BY <4>1, <4>2 DEF RowsSent
    <3>2. CASE p.kind # l
      <4>1. x = ds_cursor[l]
        BY <2>3, <2>7, <3>2 DEF Cursors
      <4>2. RowsSent(l, x)
        BY <1>0, <1>1, <2>7, <4>1 DEF CursorsInv
      <4> QED BY <1>0, <2>3, <2>5, <4>2, RowsStay
    <3> QED BY <3>1, <3>2
  <2>8. CursorsInv'
    <3>1. ds_cursor'.stream \in Nat /\ ds_cursor'.conversation \in Nat /\ ds_cursor'.events \in Nat
      BY <2>3 DEF Cursors
    <3> QED BY <2>6, <2>7, <3>1 DEF CursorsInv
  <2>9. ds_pc' \in {"events", "files", "watch"} /\ HydrationInv' /\ FilesInv'
    <3>1. CASE ds_pc = "conversation"
      BY <1>0, <1>1, <1>4, <1>9, <2>3, <3>1 DEF HydrationInv, FilesInv, Cursors
    <3>2. CASE ds_pc = "events"
      BY <1>0, <1>1, <1>4, <1>9, <2>3, <3>2 DEF HydrationInv, FilesInv, Cursors
    <3>3. CASE ds_pc = "stream"
      BY <1>0, <1>1, <1>4, <1>9, <3>3 DEF HydrationInv, FilesInv
    <3> QED BY <1>1, <2>1, <3>1, <3>2, <3>3
  <2> QED BY <1>3, <1>5, <1>9, <2>3, <2>5, <2>8, <2>9
<1> QED BY <1>6, <1>7, <1>8, <1>9 DEF Detail!EndHydrate

LEMMA DetailStep == DetailInv /\ [Detail!Next]_detail_vars => DetailInv'
<1> SUFFICES ASSUME DetailInv, [Detail!Next]_detail_vars PROVE DetailInv'
  OBVIOUS
<1>0. DetailTypes /\ PushesInv /\ HydrationInv /\ CursorsInv /\ FilesInv
  BY DEF DetailInv
<1>1. ds_files \in Nat /\ ds_files <= MaxFiles /\ MaxFiles \in Nat
  BY <1>0, PageAssumption DEF DetailTypes
<1>2. ASSUME NEW f \in 1..MaxFiles, Detail!WriteHalf(f) PROVE DetailInv'
  BY <1>0, <1>1, <1>2, WorldKeeps DEF Detail!WriteHalf, DetailTypes
<1>3. ASSUME NEW l \in Detail!Logs, Detail!AppendRow(l) PROVE DetailInv'
  BY <1>0, <1>1, <1>3, WorldKeeps DEF Detail!AppendRow, Detail!Logs, DetailTypes
<1>4. CASE Detail!NewFile
  BY <1>0, <1>1, <1>4, WorldKeeps DEF Detail!NewFile, DetailTypes
<1>5. ASSUME NEW k \in Detail!Kinds, Detail!Push(k) PROVE DetailInv'
  <2>1. k \in {"conversation", "events", "stream", "files"}
    BY DEF Detail!Kinds, Detail!Logs
  <2>2. /\ k = "stream" => ds_path # 0
        /\ ds_pushes' = ds_pushes \cup {Detail!Begun(k, FALSE)}
        /\ UNCHANGED <<ds_size, ds_files, ds_rows, ds_pc, ds_path, ds_cursor, ds_known, ds_sent, ds_shown, ds_closed>>
    BY <1>5 DEF Detail!Push, Detail!None
  <2> QED BY <2>1, <2>2, BeginningKeeps
<1>6. ASSUME NEW p \in ds_pushes, Detail!Read(p) \/ Detail!EndPush(p) \/ Detail!EndHydrate(p) PROVE DetailInv'
  BY <1>6, ReadingKeeps, PushEndKeeps, HydrationEndKeeps
<1>7. CASE Detail!Hydrate
  <2>1. /\ ds_pc \in {"conversation", "events", "stream", "files"} /\ \A p \in ds_pushes : ~p.initial
        /\ ds_pushes' = ds_pushes \cup {Detail!Begun(ds_pc, TRUE)}
        /\ UNCHANGED <<ds_size, ds_files, ds_rows, ds_pc, ds_path, ds_cursor, ds_known, ds_sent, ds_shown, ds_closed>>
    BY <1>7 DEF Detail!Hydrate, Detail!Steps
  <2>2. ds_pc = "stream" => ds_path # 0
    BY <1>0 DEF HydrationInv
  <2> QED BY <2>1, <2>2, BeginningKeeps
<1>8. CASE Detail!Resolve
  <2>1. /\ ds_pc = "resolve" /\ ds_path = 0 /\ ds_path' = ds_files
        /\ ds_pc' = IF ds_files = 0 THEN "watch" ELSE "stream"
        /\ UNCHANGED <<ds_size, ds_files, ds_rows, ds_cursor, ds_known, ds_pushes, ds_sent, ds_shown, ds_closed>>
    BY <1>0, <1>8 DEF Detail!Resolve, HydrationInv
  <2>2. DetailTypes'
    BY <1>0, <1>1, <2>1 DEF DetailTypes
  <2>3. SentStays /\ ds_shown' \in [Cursors -> Nat]
    BY <1>0, <2>1 DEF SentStays, DetailTypes, Cursors
  <2>4. \A p \in ds_pushes : ~p.initial
    <3>1. \A p \in ds_pushes : p.kind # "resolve"
      BY <1>0 DEF DetailTypes, PushRecords
    <3> QED BY <1>0, <2>1, <3>1 DEF PushesInv, DetailTypes, PushRecords
  <2>5. PushesInv'
    BY <1>0, <1>1, <2>1, <2>3, <2>4, PushesStay
  <2>6. HydrationInv' /\ CursorsInv'
    BY <1>0, <2>1 DEF HydrationInv, CursorsInv, LinesSent, RowsSent
  <2>7. FilesInv'
    <3>1. \A f \in ds_known.names : f <= ds_files
      BY <1>0, <1>1 DEF DetailTypes
    <3> QED BY <2>1, <3>1 DEF FilesInv
  <2> QED BY <2>2, <2>5, <2>6, <2>7 DEF DetailInv
<1>9. CASE Detail!Watch
  <2>1. /\ ds_pc = "watch" /\ ds_pc' = "done"
        /\ UNCHANGED <<ds_size, ds_files, ds_rows, ds_path, ds_cursor, ds_known, ds_pushes, ds_sent, ds_shown, ds_closed>>
    BY <1>9 DEF Detail!Watch
  <2>2. DetailTypes'
    BY <1>0, <2>1 DEF DetailTypes
  <2>3. SentStays /\ ds_shown' \in [Cursors -> Nat]
    BY <1>0, <2>1 DEF SentStays, DetailTypes, Cursors
  <2>4. \A p \in ds_pushes : ~p.initial
    <3>1. \A p \in ds_pushes : p.kind # "watch"
      BY <1>0 DEF DetailTypes, PushRecords
    <3> QED BY <1>0, <2>1, <3>1 DEF PushesInv, DetailTypes, PushRecords
  <2>5. PushesInv'
    BY <1>0, <1>1, <2>1, <2>3, <2>4, PushesStay
  <2>6. HydrationInv' /\ CursorsInv' /\ FilesInv'
    BY <1>0, <2>1 DEF HydrationInv, CursorsInv, FilesInv, LinesSent, RowsSent
  <2> QED BY <2>2, <2>5, <2>6 DEF DetailInv
<1>10. CASE Detail!CloseConnection
  BY <1>0, <1>1, <1>10, WorldKeeps DEF Detail!CloseConnection, DetailTypes
<1>11. CASE UNCHANGED detail_vars
  BY <1>0, <1>1, <1>11, WorldKeeps DEF detail_vars, DetailTypes
<1> QED
  BY <1>2, <1>3, <1>4, <1>5, <1>6, <1>7, <1>8, <1>9, <1>10, <1>11 DEF Detail!Next

LEMMA DetailIsKept == ServicesSpec => []DetailHolds
<1>1. ServicesInit => DetailHolds
  BY DetailStarts DEF ServicesInit, DetailHolds
<1>2. DetailHolds /\ [ServicesNext]_AllVars => DetailHolds'
  <2> SUFFICES ASSUME DetailHolds, [ServicesNext]_AllVars, part' = "detail" PROVE DetailInv'
    BY DEF DetailHolds
  <2>1. part = "detail" /\ [Detail!Next]_detail_vars
    BY DEF ServicesNext, HostPart, CapsulePart, ReviewerPart, WatcherPart, DetailPart, ViewPart, CriteriaPart, AllVars
  <2> QED BY <2>1, DetailStep DEF DetailHolds
<1> QED BY <1>1, <1>2, PTL DEF ServicesSpec

\* However pushes overlap, no cursor of a task page's connection passes a line, a row or a file that
\* the browser was not sent and does not find by itself (web/sse.ts, web/streamReader.ts).
THEOREM ServicesMissNothing == ServicesSpec => []NothingIsMissed
<1>1. DetailHolds => NothingIsMissed
  BY InvariantSaysNothingMissed DEF DetailHolds, NothingIsMissed
<1> QED BY <1>1, DetailIsKept, PTL

-----------------------------------------------------------------------------
(* The task page                                                             *)

Pages == [task : Tasks, agent : Tabs \cup {"meta"}, epoch : Nat]
ViewTypes ==
  /\ wv_epoch \in Nat /\ wv_task \in Tasks \cup {NoTask} /\ wv_tab \in Tabs
  /\ wv_visible = "task" => wv_task \in Tasks
  /\ \A o \in wv_opens : o.task \in Tasks /\ o.tab \in Tabs /\ o.epoch \in Nat /\ o.epoch <= wv_epoch
  /\ \A l \in wv_loads :
       /\ l = [task |-> l.task, tab |-> l.tab, epoch |-> l.epoch, left |-> l.left]
       /\ l.epoch \in Nat /\ l.epoch <= wv_epoch
  /\ wv_conns \subseteq Pages /\ wv_es \in wv_conns \cup {NoTask}
  /\ \A r \in wv_requests : r.task \in Tasks

\* The header and the connection of a task that is hydrated are its own; one openTask at most is not
\* superseded, and its task is not hydrated yet.
HeadInv ==
  /\ wv_deleting => wv_es = NoTask
  /\ \A o \in wv_opens : o.epoch = wv_epoch => o.task = wv_task /\ wv_hydrated = NoTask
  /\ \A o, p \in wv_opens : o.epoch = p.epoch => o = p
  /\ wv_task # NoTask /\ wv_hydrated = wv_task =>
       wv_panel = wv_task /\ (wv_es # NoTask => wv_es.task = wv_task)

\* The loaders of this view are for its task and tab, one at most for a stream tab, which builds the
\* rows up before the event stream goes on with them; a connection belongs to the rows there are.
Shown == [task |-> wv_task, tab |-> wv_tab]
Followed == [task |-> wv_es.task, tab |-> wv_tab]
BodyInv ==
  /\ \A l \in wv_loads : l.epoch = wv_epoch =>
       /\ l.task = wv_task /\ l.tab = wv_tab
       /\ wv_es # NoTask => wv_es.task = wv_task
       /\ wv_tab \in StreamTabs => wv_tail = NoTask /\ (l.left # 1 + Files => wv_body \subseteq {Shown})
  /\ wv_tab \in StreamTabs =>
       \A l, m \in wv_loads : l.epoch = wv_epoch /\ m.epoch = wv_epoch => l = m
  /\ wv_es # NoTask => wv_body \subseteq {Followed} /\ wv_tail \in {NoTask, Followed}
  /\ wv_tail # NoTask => wv_tab \in StreamTabs /\ wv_body \subseteq {wv_tail}
  /\ \A b, c \in wv_body : b = c

ViewInv == ViewTypes /\ HeadInv /\ BodyInv
ViewHolds == part = "view" => ViewInv

LEMMA ViewStarts == View!Init => ViewInv
BY ViewAssumption DEF View!Init, ViewInv, ViewTypes, HeadInv, BodyInv

LEMMA InvariantSaysOneView == ViewInv => View!OneViewIsShown
<1> SUFFICES ASSUME ViewInv PROVE View!OneViewIsShown
  OBVIOUS
<1>1. Cardinality(wv_body) <= 1
  <2>1. wv_body = {} \/ \E b \in wv_body : wv_body = {b}
    BY DEF ViewInv, BodyInv
  <2> QED BY <2>1, FS_EmptySet, FS_Singleton
<1>2. wv_tail # NoTask => wv_body \subseteq {wv_tail}
  BY DEF ViewInv, BodyInv
<1>3. (wv_es # NoTask /\ wv_task # NoTask /\ wv_hydrated = wv_task) =>
         wv_panel = wv_task /\ wv_body \subseteq {[task |-> wv_task, tab |-> wv_tab]}
  BY DEF ViewInv, HeadInv, BodyInv, Followed
<1> QED BY <1>1, <1>2, <1>3 DEF View!OneViewIsShown, View!Cardinality, Cardinality

\* The tab is selected: the rows start anew, with a connection of their own.
LEMMA SelectTabKeeps ==
  ASSUME ViewInv, NEW tb \in Tabs, wv_task \in Tasks, ~wv_deleting, View!SelectTab(wv_task, tb),
         UNCHANGED <<wv_visible, wv_task, wv_deleting, wv_requests>>, wv_opens' \subseteq wv_opens,
         wv_hydrated' = wv_task => wv_panel' = wv_task
  PROVE  ViewInv'
<1>1. /\ wv_epoch \in Nat /\ wv_epoch' = wv_epoch + 1 /\ wv_tab' = tb /\ wv_tail' = NoTask /\ wv_body' = {}
      /\ wv_loads' = wv_loads \cup {View!Load(wv_task, tb, wv_epoch')}
      /\ wv_es' = View!Connection(wv_task, tb, wv_epoch') /\ wv_conns' = wv_conns \cup {wv_es'}
  BY DEF View!SelectTab, ViewInv, ViewTypes
<1>2. wv_es' \in Pages /\ wv_es'.task = wv_task
  BY <1>1 DEF View!Connection, Pages
<1>3. ViewTypes'
  BY <1>1, <1>2 DEF ViewInv, ViewTypes, View!Load
<1>4. HeadInv'
  BY <1>1, <1>2 DEF ViewInv, ViewTypes, HeadInv
<1>5. BodyInv'
  BY <1>1, <1>2 DEF ViewInv, ViewTypes, BodyInv, View!Load
<1> QED BY <1>3, <1>4, <1>5 DEF ViewInv

\* Another task is the current one, or the same again: nothing that is displayed changes yet.
LEMMA OpenTaskKeeps ==
  ASSUME ViewInv, NEW t \in Tasks, NEW tb \in Tabs, View!OpenTask(t, tb), wv_deleting' => wv_deleting,
         wv_requests' \subseteq wv_requests
  PROVE  ViewInv'
<1>1. /\ wv_epoch \in Nat /\ wv_epoch' = wv_epoch + 1 /\ wv_task' = t /\ wv_hydrated' = NoTask /\ wv_visible' = "task"
      /\ wv_opens' = wv_opens \cup {[task |-> t, tab |-> tb, epoch |-> wv_epoch']}
      /\ UNCHANGED <<wv_tab, wv_panel, wv_loads, wv_body, wv_tail, wv_es, wv_conns>>
  BY DEF View!OpenTask, View!head, ViewInv, ViewTypes
<1>2. t # NoTask
  BY ViewAssumption
<1>3. ViewTypes'
  BY <1>1 DEF ViewInv, ViewTypes
<1>4. HeadInv'
  <2>1. wv_deleting' => wv_es' = NoTask
    BY <1>1 DEF ViewInv, HeadInv
  <2>2. \A o \in wv_opens' : o.epoch = wv_epoch' => o.task = wv_task' /\ wv_hydrated' = NoTask
    BY <1>1 DEF ViewInv, ViewTypes
  <2>3. \A o, p \in wv_opens' : o.epoch = p.epoch => o = p
    BY <1>1 DEF ViewInv, ViewTypes, HeadInv
  <2> QED BY <1>1, <1>2, <2>1, <2>2, <2>3 DEF HeadInv
<1>5. BodyInv'
  BY <1>1 DEF ViewInv, ViewTypes, BodyInv, Followed
<1> QED BY <1>3, <1>4, <1>5 DEF ViewInv

\* No task is.
LEMMA NoTaskKeeps ==
  ASSUME ViewInv, wv_epoch' = wv_epoch + 1, wv_visible' # "task", wv_task' = NoTask, wv_hydrated' = NoTask,
         wv_es' = NoTask, wv_opens' \subseteq wv_opens, UNCHANGED <<wv_tab, wv_loads, wv_body, wv_tail, wv_conns>>,
         wv_requests' \subseteq wv_requests
  PROVE  ViewInv'
<1>1. ViewTypes'
  BY DEF ViewInv, ViewTypes
<1>2. HeadInv'
  BY DEF ViewInv, ViewTypes, HeadInv
<1>3. BodyInv'
  BY DEF ViewInv, ViewTypes, BodyInv
<1> QED BY <1>1, <1>2, <1>3 DEF ViewInv

\* The title, its editor and the requests are not what the rows depend on.
LEMMA RestKeeps ==
  ASSUME ViewInv, UNCHANGED <<wv_visible, wv_task, wv_tab, wv_hydrated, wv_epoch, wv_loads, wv_body, wv_tail,
         wv_conns>>,
         wv_opens' \subseteq wv_opens, \A r \in wv_requests' : r.task \in Tasks,
         wv_panel' = wv_panel \/ wv_panel' = wv_task, wv_es' = wv_es, wv_deleting' => wv_deleting
  PROVE  ViewInv'
<1>1. ViewTypes'
  BY DEF ViewInv, ViewTypes
<1>2. HeadInv'
  BY DEF ViewInv, HeadInv
<1>3. BodyInv'
  BY DEF ViewInv, BodyInv, Shown, Followed
<1> QED BY <1>1, <1>2, <1>3 DEF ViewInv

LEMMA ViewStep == ViewInv /\ [View!Next]_view_vars => ViewInv'
<1> SUFFICES ASSUME ViewInv, [View!Next]_view_vars PROVE ViewInv'
  OBVIOUS
<1>0. ViewTypes /\ HeadInv /\ BodyInv
  BY DEF ViewInv
<1>1. ASSUME NEW t \in Tasks, NEW tb \in Tabs, View!ApplyRoute(t, tb) PROVE ViewInv'
  <2>1. CASE t # wv_task \/ wv_hydrated # t
    <3>1. View!OpenTask(t, tb) /\ UNCHANGED <<wv_deleting, wv_requests>>
      BY <1>1, <2>1 DEF View!ApplyRoute
    <3> QED BY <3>1, OpenTaskKeeps
  <2>2. CASE t = wv_task /\ wv_hydrated = t
    <3>1. /\ View!SelectTab(wv_task, tb)
          /\ UNCHANGED <<wv_visible, wv_task, wv_hydrated, wv_panel, wv_opens, wv_deleting, wv_requests>>
      BY <1>1, <2>2 DEF View!ApplyRoute, View!head
    <3>2. wv_panel = wv_task
      BY <1>0, <2>2, ViewAssumption DEF HeadInv
    <3>3. CASE ~wv_deleting
      BY <2>2, <3>1, <3>2, <3>3, SelectTabKeeps
    <3>4. CASE wv_deleting
      <4>1. UNCHANGED <<wv_tab, wv_epoch, wv_loads, wv_body, wv_tail, wv_es, wv_conns>>
        BY <3>1, <3>4 DEF View!SelectTab
      <4> QED BY <1>0, <3>1, <4>1, RestKeeps DEF ViewTypes
    <3> QED BY <3>3, <3>4
  <2> QED BY <2>1, <2>2
<1>2. ASSUME NEW view \in {"new", "empty"}, View!Leave(view) PROVE ViewInv'
  BY <1>2, NoTaskKeeps DEF View!Leave, View!ShowOther
<1>3. CASE View!ChangeLanguage
  <2>1. View!OpenTask(wv_task, wv_tab) /\ wv_task \in Tasks /\ wv_tab \in Tabs /\ UNCHANGED <<wv_deleting, wv_requests>>
    BY <1>0, <1>3 DEF View!ChangeLanguage, ViewTypes
  <2> QED BY <2>1, OpenTaskKeeps
<1>4. ASSUME NEW o \in wv_opens, View!Superseded(o) PROVE ViewInv'
  BY <1>0, <1>4, RestKeeps DEF View!Superseded, View!head, ViewTypes
<1>5. ASSUME NEW o \in wv_opens, View!Hydrate(o) PROVE ViewInv'
  <2>1. /\ wv_opens' = wv_opens \ {o} /\ wv_panel' = o.task /\ wv_hydrated' = o.task /\ View!SelectTab(wv_task, o.tab)
        /\ UNCHANGED <<wv_visible, wv_task, wv_deleting, wv_requests>> /\ o.epoch = wv_epoch
    BY <1>5 DEF View!Hydrate, View!Stale
  <2>2. o.task = wv_task /\ o.task \in Tasks /\ o.tab \in Tabs
    BY <1>0, <2>1 DEF ViewTypes, HeadInv
  <2>3. CASE ~wv_deleting
    BY <2>1, <2>2, <2>3, SelectTabKeeps
  <2>4. CASE wv_deleting
    <3>1. UNCHANGED <<wv_tab, wv_epoch, wv_loads, wv_body, wv_tail, wv_es, wv_conns>>
      BY <2>1, <2>4 DEF View!SelectTab
    <3>2. ViewTypes' /\ BodyInv'
      BY <1>0, <2>1, <3>1 DEF ViewTypes, BodyInv, Shown, Followed
    <3>3. HeadInv'
      BY <1>0, <2>1, <2>2, <2>4, <3>1 DEF HeadInv
    <3> QED BY <3>2, <3>3 DEF ViewInv
  <2> QED BY <2>3, <2>4
<1>6. ASSUME NEW o \in wv_opens, View!Gone(o) PROVE ViewInv'
  BY <1>6, NoTaskKeeps DEF View!Gone
<1>7. ASSUME NEW o \in wv_opens, View!DetailError(o) PROVE ViewInv'
  <2>1. /\ o.epoch = wv_epoch /\ wv_opens' = wv_opens \ {o} /\ wv_es' = NoTask /\ wv_panel' = NoTask /\ wv_body' = {}
        /\ UNCHANGED <<wv_visible, wv_task, wv_tab, wv_hydrated, wv_epoch, wv_deleting, wv_loads, wv_tail, wv_conns, wv_requests>>
    BY <1>7 DEF View!DetailError, View!Stale
  <2>2. wv_hydrated = NoTask
    BY <1>0, <2>1 DEF HeadInv
  <2>3. ViewTypes' /\ BodyInv'
    BY <1>0, <2>1 DEF ViewTypes, BodyInv
  <2>4. HeadInv'
    BY <1>0, <2>1, <2>2 DEF HeadInv
  <2> QED BY <2>3, <2>4 DEF ViewInv
<1>8. ASSUME NEW l \in wv_loads, View!LoadAnswered(l) PROVE ViewInv'
  <2>1. /\ UNCHANGED <<wv_visible, wv_task, wv_tab, wv_hydrated, wv_epoch, wv_deleting, wv_opens, wv_es, wv_conns, wv_requests>>
        /\ wv_panel' = wv_panel
    BY <1>8 DEF View!LoadAnswered, View!head
  <2>2. HeadInv'
    BY <1>0, <2>1 DEF HeadInv
  <2>3. CASE l.epoch # wv_epoch
    <3>1. wv_loads' = wv_loads \ {l} /\ UNCHANGED <<wv_body, wv_tail>>
      BY <1>8, <2>3 DEF View!LoadAnswered, View!Current, View!Stale
    <3>2. ViewTypes' /\ BodyInv'
      BY <1>0, <2>1, <3>1 DEF ViewTypes, BodyInv, Shown, Followed
    <3> QED BY <2>2, <3>2 DEF ViewInv
  <2>4. CASE l.epoch = wv_epoch
    <3> DEFINE rest == [task |-> l.task, tab |-> l.tab, epoch |-> l.epoch, left |-> l.left - 1]
    <3>1. /\ l.task = wv_task /\ l.tab = wv_tab /\ (wv_es # NoTask => wv_es.task = wv_task)
          /\ l = [task |-> l.task, tab |-> l.tab, epoch |-> l.epoch, left |-> l.left]
      BY <1>0, <2>4 DEF BodyInv, ViewTypes
    <3>2. [l EXCEPT !.left = @ - 1] = rest
      BY <3>1
    <3>3. /\ wv_loads' = IF l.left = 1 THEN wv_loads \ {l} ELSE (wv_loads \ {l}) \cup {rest}
          /\ wv_body' = IF l.tab \notin StreamTabs THEN {Shown}
                        ELSE IF l.left = 1 + Files THEN {} ELSE wv_body \cup {Shown}
          /\ wv_tail' = IF l.tab \in StreamTabs /\ l.left = 1 THEN Shown ELSE wv_tail
      BY <1>8, <2>4, <3>1, <3>2 DEF View!LoadAnswered, View!Current, View!Stale, View!Source, Shown
    <3>4. ViewTypes'
      BY <1>0, <2>1, <2>4, <3>3 DEF ViewTypes
    <3>5. CASE wv_tab \notin StreamTabs
      <4>1. wv_tail = NoTask /\ wv_tail' = NoTask /\ wv_body' = {Shown}
        BY <1>0, <3>1, <3>3, <3>5 DEF BodyInv
      <4> QED BY <1>0, <2>1, <2>2, <2>4, <3>1, <3>3, <3>4, <3>5, <4>1 DEF ViewInv, BodyInv, Shown, Followed
    <3>6. CASE wv_tab \in StreamTabs
      <4>1. wv_tail = NoTask /\ (l.left # 1 + Files => wv_body \subseteq {Shown})
        BY <1>0, <2>4, <3>6 DEF BodyInv
      <4>2. wv_body' \subseteq {Shown} /\ wv_tail' \in {NoTask, Shown} /\ (l.left # 1 => wv_tail' = NoTask)
        BY <3>1, <3>3, <3>6, <4>1
      <4>3. \A m \in wv_loads' : m.epoch = wv_epoch => m = rest /\ l.left # 1
        BY <1>0, <2>4, <3>3, <3>6 DEF BodyInv
      <4>4. UNCHANGED <<Shown, Followed>> /\ (wv_es # NoTask => Followed = Shown)
        BY <2>1, <3>1 DEF Shown, Followed
      <4>5. BodyInv'
        BY <2>1, <3>1, <3>6, <4>2, <4>3, <4>4 DEF BodyInv
      <4> QED BY <2>2, <3>4, <4>5 DEF ViewInv
    <3> QED BY <3>5, <3>6
  <2> QED BY <2>3, <2>4
<1>9. ASSUME NEW l \in wv_loads, View!LoadFailed(l) PROVE ViewInv'
  <2>1. /\ UNCHANGED <<wv_visible, wv_task, wv_tab, wv_hydrated, wv_epoch, wv_deleting, wv_opens, wv_tail, wv_es, wv_conns,
                       wv_requests>>
        /\ wv_panel' = wv_panel /\ wv_loads' = wv_loads \ {l} /\ wv_body' \in {{}, wv_body}
    BY <1>9 DEF View!LoadFailed, View!head
  <2>2. ViewTypes' /\ HeadInv' /\ BodyInv'
    BY <1>0, <2>1 DEF ViewTypes, HeadInv, BodyInv, Shown, Followed
  <2> QED BY <2>2 DEF ViewInv
<1>10. ASSUME NEW c \in wv_conns, View!StageEvent(c) PROVE ViewInv'
  <2>1. wv_panel' = wv_task
    BY <1>10 DEF View!StageEvent, View!Live
  <2> QED BY <1>0, <1>10, <2>1, RestKeeps DEF View!StageEvent, View!data, ViewTypes
<1>11. ASSUME NEW c \in wv_conns, View!RowsEvent(c) PROVE ViewInv'
  <2>1. /\ wv_tab \notin StreamTabs /\ wv_es = c /\ c.task = wv_task
        /\ wv_loads' = wv_loads \cup {View!Load(wv_task, wv_tab, wv_epoch)}
        /\ UNCHANGED <<wv_visible, wv_task, wv_tab, wv_hydrated, wv_epoch, wv_deleting, wv_panel, wv_opens, wv_body, wv_tail,
                       wv_es, wv_conns, wv_requests>>
    BY <1>11 DEF View!RowsEvent, View!Live, View!head
  <2>2. ViewTypes' /\ HeadInv'
    BY <1>0, <2>1 DEF ViewTypes, HeadInv, View!Load
  <2>3. BodyInv'
    BY <1>0, <2>1 DEF BodyInv, Shown, Followed, View!Load
  <2> QED BY <2>2, <2>3 DEF ViewInv
<1>12. ASSUME NEW c \in wv_conns, View!StreamEvent(c) PROVE ViewInv'
  <2>1. /\ wv_es = c /\ c.task = wv_task /\ c.agent = wv_tab /\ wv_tail # NoTask
        /\ wv_body' = wv_body \cup {[task |-> c.task, tab |-> c.agent]}
        /\ UNCHANGED <<wv_visible, wv_task, wv_tab, wv_hydrated, wv_epoch, wv_deleting, wv_panel, wv_opens, wv_loads, wv_tail,
                       wv_es, wv_conns, wv_requests>>
    BY <1>12 DEF View!StreamEvent, View!Appends, View!Live, View!head
  <2>2. wv_es # NoTask
    BY <1>0, <2>1, ViewAssumption DEF ViewTypes, Pages
  <2>3. wv_body' \subseteq {Followed} /\ wv_tail = Followed /\ wv_tab \in StreamTabs
    BY <1>0, <2>1, <2>2 DEF BodyInv, Followed
  <2>4. ViewTypes' /\ HeadInv'
    BY <1>0, <2>1 DEF ViewTypes, HeadInv
  <2>5. BodyInv'
    BY <1>0, <2>1, <2>2, <2>3 DEF BodyInv, Shown, Followed
  <2> QED BY <2>4, <2>5 DEF ViewInv
<1>13. ASSUME NEW c \in wv_conns, View!LagEvent(c) PROVE ViewInv'
  <2>1. /\ wv_es = c /\ c.task = wv_task /\ View!SelectTab(wv_task, wv_tab)
        /\ UNCHANGED <<wv_visible, wv_task, wv_hydrated, wv_deleting, wv_panel, wv_opens, wv_requests>>
    BY <1>13 DEF View!LagEvent, View!Live, View!head
  <2>2. wv_es # NoTask /\ wv_task \in Tasks /\ wv_tab \in Tabs
    BY <1>0, <2>1, ViewAssumption DEF ViewTypes, Pages
  <2>3. ~wv_deleting /\ (wv_hydrated = wv_task => wv_panel = wv_task)
    BY <1>0, <2>2, ViewAssumption DEF HeadInv
  <2> QED BY <2>1, <2>2, <2>3, SelectTabKeeps
<1>14. CASE View!Write
  BY <1>0, <1>14, RestKeeps DEF View!Write, View!Request, View!head, View!data, ViewTypes
<1>15. CASE View!Delete
  <2>1. /\ wv_deleting' = TRUE /\ wv_es' = NoTask /\ wv_epoch' = wv_epoch + 1 /\ wv_panel' = wv_panel
        /\ \A r \in wv_requests' : r \in wv_requests \/ r.task = wv_task
        /\ wv_visible = "task"
        /\ UNCHANGED <<wv_visible, wv_task, wv_tab, wv_hydrated, wv_opens, wv_loads, wv_body, wv_tail, wv_conns>>
    BY <1>15 DEF View!Delete, View!Request, View!head
  <2>2. ViewTypes'
    BY <1>0, <2>1 DEF ViewTypes
  <2>3. HeadInv'
    BY <1>0, <2>1 DEF ViewTypes, HeadInv
  <2>4. BodyInv'
    BY <1>0, <2>1 DEF ViewTypes, BodyInv
  <2> QED BY <2>2, <2>3, <2>4 DEF ViewInv
<1>16. CASE View!EditTitle \/ View!CancelEdit
  BY <1>0, <1>16, RestKeeps DEF View!EditTitle, View!CancelEdit, View!data, ViewTypes
<1>17. CASE View!SaveTitle
  <2>1. \A r \in wv_requests' : r \in wv_requests \/ r.task \in Tasks
    BY <1>17 DEF View!SaveTitle, View!Request
  <2> QED BY <1>0, <1>17, <2>1, RestKeeps DEF View!SaveTitle, View!data, ViewTypes
<1>18. ASSUME NEW r \in wv_requests, View!WriteAnswered(r) \/ View!NotDeleted(r) PROVE ViewInv'
  <2>1. wv_requests' = wv_requests \ {r} /\ (wv_deleting' => wv_deleting)
    BY <1>18 DEF View!WriteAnswered, View!NotDeleted
  <2>2. CASE r.task = wv_task
    <3>1. wv_task \in Tasks /\ wv_tab \in Tabs
      BY <1>0, <2>2 DEF ViewTypes
    <3>2. View!OpenTask(wv_task, wv_tab)
      BY <1>18, <2>2 DEF View!WriteAnswered, View!NotDeleted
    <3> QED BY <2>1, <3>1, <3>2, OpenTaskKeeps
  <2>3. CASE r.task # wv_task
    <3>1. UNCHANGED <<wv_visible, wv_task, wv_tab, wv_hydrated, wv_epoch, wv_panel, wv_opens, wv_loads, wv_body, wv_tail,
                      wv_es, wv_conns>>
      BY <1>18, <2>3 DEF View!WriteAnswered, View!NotDeleted, View!head, View!data
    <3> QED BY <1>0, <2>1, <3>1, RestKeeps DEF ViewTypes
  <2> QED BY <2>2, <2>3
<1>19. ASSUME NEW r \in wv_requests, View!Deleted(r) PROVE ViewInv'
  <2>1. wv_requests' = wv_requests \ {r} /\ (wv_deleting' => wv_deleting)
    BY <1>19 DEF View!Deleted
  <2>2. CASE r.task = wv_task
    <3>1. View!ShowOther("empty")
      BY <1>19, <2>2 DEF View!Deleted
    <3> QED BY <2>1, <3>1, NoTaskKeeps DEF View!ShowOther
  <2>3. CASE r.task # wv_task
    <3>1. UNCHANGED <<wv_visible, wv_task, wv_tab, wv_hydrated, wv_epoch, wv_panel, wv_opens, wv_loads, wv_body, wv_tail,
                      wv_es, wv_conns>>
      BY <1>19, <2>3 DEF View!Deleted, View!head, View!data
    <3> QED BY <1>0, <2>1, <3>1, RestKeeps DEF ViewTypes
  <2> QED BY <2>2, <2>3
<1>20. ASSUME NEW r \in wv_requests, View!RequestFailed(r) \/ View!Renamed(r) PROVE ViewInv'
  BY <1>0, <1>20, RestKeeps DEF View!RequestFailed, View!Renamed, View!head, View!data, ViewTypes
<1>21. CASE UNCHANGED view_vars
  BY <1>0, <1>21, RestKeeps DEF view_vars, ViewTypes
<1> QED
  BY <1>1, <1>2, <1>3, <1>4, <1>5, <1>6, <1>7, <1>8, <1>9, <1>10, <1>11, <1>12, <1>13, <1>14, <1>15, <1>16, <1>17,
     <1>18,
     <1>19, <1>20, <1>21 DEF View!Next

LEMMA ViewIsKept == ServicesSpec => []ViewHolds
<1>1. ServicesInit => ViewHolds
  BY ViewStarts DEF ServicesInit, ViewHolds
<1>2. ViewHolds /\ [ServicesNext]_AllVars => ViewHolds'
  <2> SUFFICES ASSUME ViewHolds, [ServicesNext]_AllVars, part' = "view" PROVE ViewInv'
    BY DEF ViewHolds
  <2>1. part = "view" /\ [View!Next]_view_vars
    BY DEF ServicesNext, HostPart, CapsulePart, ReviewerPart, WatcherPart, DetailPart, ViewPart, CriteriaPart, AllVars
  <2> QED BY <2>1, ViewStep DEF ViewHolds
<1> QED BY <1>1, <1>2, PTL DEF ServicesSpec

\* The page displays one task and one tab, whichever answers and events come late and whatever the
\* user does meanwhile (web/static/app.js, viewEpoch).
THEOREM ServicesShowOneView == ServicesSpec => []OneViewIsShown
<1>1. ViewHolds => OneViewIsShown
  BY InvariantSaysOneView DEF ViewHolds, OneViewIsShown
<1> QED BY <1>1, ViewIsKept, PTL

-----------------------------------------------------------------------------
(* The done criteria                                                         *)

\* The file and the call that writes it: what the tool accepts is valid.
Writers == {"none", "tool", "worker"}
FilesAreValid ==
  /\ dc_yaml \in [by : Writers, file : Criteria!Contents]
  /\ dc_tool \in [pc : {"idle", "stat", "write"}, file : Criteria!Contents, create : BOOLEAN]
  /\ dc_yaml.by = "tool" => Criteria!Valid(dc_yaml.file, TRUE)
  /\ dc_tool.pc # "idle" => Criteria!Valid(dc_tool.file, TRUE)

\* The results so far are of the first checks, and none passed that was not met.
Codes == {"none", "zero", "other"}
Sights == {"escape", "os_error", "absent", "met", "unreadable", "below", "no_yaml", "interpreter", "no_file",
           "no_interpreter", "io_error", "timeout"} \cup Codes
CriteriaStages == {"running", "cancelled"}
Scripts == [state : {"none", "running", "exited"}, code : Codes, timedOut : BOOLEAN, born : CriteriaStages \cup {"none"}]
Results == {"pass", "fail", "error"}
Findings == [seen : Sights, result : Results]
Earned(results) == \A i \in DOMAIN results : results[i].result = "pass" => results[i].seen \in {"met", "zero"}
ResultsAreEarned ==
  /\ dc_run \in [by : Writers, checks : Seq(Criteria!Checks), results : Seq(Findings)]
  /\ Len(dc_run.results) <= Len(dc_run.checks)
  /\ Earned(dc_run.results)
  /\ dc_proc \in Scripts /\ dc_stage \in CriteriaStages
  /\ dc_pc = "script" => Criteria!AnyLeft

CriteriaInv == FilesAreValid /\ ResultsAreEarned /\ Criteria!VerdictIsEarned
CriteriaHolds == part = "criteria" => CriteriaInv

\* What the tool accepts a host can read.
LEMMA AcceptedIsReadable ==
  ASSUME NEW file, Criteria!Valid(file, TRUE) PROVE Criteria!Valid(file, FALSE)
BY DEF Criteria!Valid, Criteria!Invalid

LEMMA ContentsHaveChecks ==
  ASSUME NEW file \in Criteria!Contents PROVE file.checks \in Seq(Criteria!Checks)
<1>1. CASE file = Criteria!NoFile
  BY <1>1 DEF Criteria!NoFile
<1>2. CASE \E n \in 0..MaxChecks : file.checks \in [1..n -> Criteria!Checks]
  <2>1. PICK n \in 0..MaxChecks : file.checks \in [1..n -> Criteria!Checks]
    BY <1>2
  <2>2. n \in Nat
    OBVIOUS
  <2> QED BY <2>1, <2>2
<1>3. file \in [parses : {TRUE}, checks : UNION {[1..n -> Criteria!Checks] : n \in 0..MaxChecks}] =>
        \E n \in 0..MaxChecks : file.checks \in [1..n -> Criteria!Checks]
  OBVIOUS
<1> QED BY <1>1, <1>2, <1>3 DEF Criteria!Contents, Criteria!NoFile

LEMMA NoFileIsContents == Criteria!NoFile \in Criteria!Contents
BY DEF Criteria!Contents, Criteria!NoFile

LEMMA CriteriaStart == Criteria!Init => CriteriaInv
<1> SUFFICES ASSUME Criteria!Init PROVE CriteriaInv
  OBVIOUS
<1> USE DEF Criteria!Init, Criteria!NoFile, Criteria!NoCall, Criteria!NoRun, Criteria!NoProc, Criteria!NoOutcome
<1>1. FilesAreValid
  BY NoFileIsContents DEF FilesAreValid, Writers
<1>2. ResultsAreEarned
  BY DEF ResultsAreEarned, Writers, Earned, Scripts, Codes, CriteriaStages
<1>3. Criteria!VerdictIsEarned
  BY DEF Criteria!VerdictIsEarned
<1> QED BY <1>1, <1>2, <1>3 DEF CriteriaInv

\* A check more that was made, in its turn.
LEMMA ReportKeepsEarned ==
  ASSUME ResultsAreEarned, Criteria!AnyLeft, NEW seen \in Sights, NEW result \in Results,
         result = "pass" => seen \in {"met", "zero"}, Criteria!Report(seen, result), dc_proc' \in Scripts, dc_stage' = dc_stage, dc_pc' # "script"
  PROVE  ResultsAreEarned'
<1>1. /\ dc_run' = [dc_run EXCEPT !.results = Append(dc_run.results, [seen |-> seen, result |-> result])]
      /\ dc_run \in [by : Writers, checks : Seq(Criteria!Checks), results : Seq(Findings)]
      /\ Len(dc_run.results) < Len(dc_run.checks) /\ Earned(dc_run.results)
  BY DEF ResultsAreEarned, Criteria!AnyLeft, Criteria!Report
<1>2. [seen |-> seen, result |-> result] \in Findings
  BY DEF Findings
<1>3. /\ dc_run' \in [by : Writers, checks : Seq(Criteria!Checks), results : Seq(Findings)]
      /\ dc_run'.checks = dc_run.checks
      /\ dc_run'.results = Append(dc_run.results, [seen |-> seen, result |-> result])
  <2>1. Append(dc_run.results, [seen |-> seen, result |-> result]) \in Seq(Findings)
    BY <1>1, <1>2
  <2> QED BY <1>1, <2>1
<1>4. Len(dc_run'.results) <= Len(dc_run'.checks)
  BY <1>1, <1>2, <1>3
<1>5. Earned(dc_run'.results)
  BY <1>1, <1>2, <1>3 DEF Earned
<1> QED BY <1>3, <1>4, <1>5 DEF ResultsAreEarned, Earned

LEMMA CriteriaStep == CriteriaInv /\ [Criteria!Next]_criteria_vars => CriteriaInv'
<1> SUFFICES ASSUME CriteriaInv, [Criteria!Next]_criteria_vars PROVE CriteriaInv'
  OBVIOUS
<1>0. FilesAreValid /\ ResultsAreEarned /\ Criteria!VerdictIsEarned
  BY DEF CriteriaInv
<1>1. UNCHANGED <<dc_run, dc_proc>> /\ dc_stage' \in {dc_stage, "cancelled"} /\ dc_pc' \in {dc_pc, "loop", "down"} => ResultsAreEarned'
  BY <1>0 DEF ResultsAreEarned, Earned, CriteriaStages, Criteria!AnyLeft
<1>2. UNCHANGED <<dc_yaml, dc_tool>> => FilesAreValid'
  BY <1>0 DEF FilesAreValid, Criteria!Contents, Criteria!Checks, Criteria!Defects, Criteria!Valid, Criteria!Invalid
<1>3. UNCHANGED dc_outcome => Criteria!VerdictIsEarned'
  BY <1>0 DEF Criteria!VerdictIsEarned
<1>4. ASSUME NEW file \in Criteria!Contents, NEW create \in BOOLEAN, Criteria!WriteBegin(file, create)
      PROVE  CriteriaInv'
  <2>1. FilesAreValid'
    BY <1>0, <1>4 DEF FilesAreValid, Criteria!WriteBegin
  <2> QED BY <1>1, <1>3, <1>4, <2>1 DEF CriteriaInv, Criteria!WriteBegin
<1>5. CASE Criteria!WriteStat
  <2>1. FilesAreValid'
    BY <1>0, <1>5, NoFileIsContents DEF FilesAreValid, Criteria!WriteStat, Criteria!NoCall
  <2> QED BY <1>1, <1>3, <1>5, <2>1 DEF CriteriaInv, Criteria!WriteStat
<1>6. CASE Criteria!WriteFile
  <2>1. FilesAreValid'
    <3>1. dc_yaml' \in {dc_yaml, [by |-> "tool", file |-> dc_tool.file]} /\ dc_tool' = Criteria!NoCall
      BY <1>6 DEF Criteria!WriteFile
    <3>2. Criteria!Valid(dc_tool.file, TRUE) /\ dc_tool.file \in Criteria!Contents
      BY <1>0, <1>6 DEF FilesAreValid, Criteria!WriteFile
    <3>3. dc_yaml' \in [by : Writers, file : Criteria!Contents]
      BY <1>0, <3>1, <3>2 DEF FilesAreValid, Writers
    <3>4. dc_yaml'.by = "tool" => Criteria!Valid(dc_yaml'.file, TRUE)
      <4>1. CASE dc_yaml' = dc_yaml
        BY <1>0, <4>1 DEF FilesAreValid
      <4>2. CASE dc_yaml' = [by |-> "tool", file |-> dc_tool.file]
        <5>1. dc_yaml'.file = dc_tool.file
          BY <4>2
        <5> QED BY <3>2, <5>1
      <4> QED BY <3>1, <4>1, <4>2
    <3> QED BY <3>1, <3>3, <3>4, NoFileIsContents DEF FilesAreValid, Criteria!NoCall
  <2> QED BY <1>1, <1>3, <1>6, <2>1 DEF CriteriaInv, Criteria!WriteFile
<1>7. ASSUME NEW file \in Criteria!Contents, Criteria!WorkerWrites(file) PROVE CriteriaInv'
  <2>1. FilesAreValid'
    BY <1>0, <1>7 DEF FilesAreValid, Writers, Criteria!WorkerWrites
  <2> QED BY <1>1, <1>3, <1>7, <2>1 DEF CriteriaInv, Criteria!WorkerWrites
<1>8. CASE Criteria!Cancel
  BY <1>1, <1>2, <1>3, <1>8 DEF CriteriaInv, Criteria!Cancel
<1>9. CASE Criteria!Finalize
  <2>1. ResultsAreEarned'
    BY <1>0, <1>9 DEF ResultsAreEarned, Earned, Writers, Criteria!Finalize, Criteria!NoRun
  <2> QED BY <1>2, <1>3, <1>9, <2>1 DEF CriteriaInv, Criteria!Finalize
<1>10. CASE Criteria!LoadFails
  <2>0. /\ \/ dc_run' = Criteria!NoRun
           \/ dc_run' = [Criteria!NoRun EXCEPT !.by = dc_yaml.by] /\ ~Criteria!Valid(dc_yaml.file, FALSE)
        /\ dc_pc' = "loop" /\ UNCHANGED <<dc_yaml, dc_stage, dc_tool, dc_proc>>
    BY <1>10 DEF Criteria!LoadFails, Criteria!Concluded
  <2>1. /\ dc_run' = [by |-> dc_run'.by, checks |-> <<>>, results |-> <<>>]
        /\ dc_run'.by = "none" \/ (dc_run'.by = dc_yaml.by /\ ~Criteria!Valid(dc_yaml.file, FALSE))
    <3>1. CASE dc_run' = Criteria!NoRun
      BY <3>1 DEF Criteria!NoRun
    <3>2. CASE dc_run' = [Criteria!NoRun EXCEPT !.by = dc_yaml.by] /\ ~Criteria!Valid(dc_yaml.file, FALSE)
      BY <3>2 DEF Criteria!NoRun
    <3> QED BY <2>0, <3>1, <3>2
  <2>2. ResultsAreEarned'
    <3>1. dc_run'.by \in Writers
      BY <1>0, <2>1 DEF FilesAreValid, Writers
    <3>2. dc_run'.checks = <<>> /\ dc_run'.results = <<>>
      BY <2>1
    <3>3. dc_run' \in [by : Writers, checks : Seq(Criteria!Checks), results : Seq(Findings)]
      <4>1. <<>> \in Seq(Criteria!Checks) /\ <<>> \in Seq(Findings)
        OBVIOUS
      <4>2. [by |-> dc_run'.by, checks |-> <<>>, results |-> <<>>]
              \in [by : Writers, checks : Seq(Criteria!Checks), results : Seq(Findings)]
        BY <3>1, <4>1
      <4> QED BY <2>1, <4>2, Zenon
    <3> QED BY <1>0, <2>0, <3>2, <3>3 DEF ResultsAreEarned, Earned
  <2>3. dc_run'.by # "tool"
    BY <1>0, <2>1, AcceptedIsReadable DEF FilesAreValid
  <2>4. Criteria!VerdictIsEarned'
    BY <1>10, <2>3 DEF Criteria!VerdictIsEarned, Criteria!LoadFails, Criteria!Concluded
  <2> QED BY <1>2, <1>10, <2>2, <2>4 DEF CriteriaInv, Criteria!LoadFails
<1>11. CASE Criteria!Load
  <2>1. ResultsAreEarned'
    BY <1>0, <1>11, ContentsHaveChecks DEF FilesAreValid, ResultsAreEarned, Earned, Criteria!Load
  <2> QED BY <1>2, <1>3, <1>11, <2>1 DEF CriteriaInv, Criteria!Load
<1>12. ASSUME NEW look \in UNION {Criteria!Looks(k) : k \in CheckKinds}, Criteria!CheckFile(look) PROVE CriteriaInv'
  <2>1. /\ Criteria!AnyLeft /\ Criteria!Report(look, Criteria!FileResult(look))
        /\ dc_pc' # "script"
        /\ UNCHANGED <<dc_yaml, dc_stage, dc_tool, dc_proc, dc_outcome>>
    BY <1>12 DEF Criteria!CheckFile
  <2>2. look \in Sights
    BY <1>12 DEF Sights, Criteria!Looks
  <2>3. Criteria!FileResult(look) \in Results /\ (Criteria!FileResult(look) = "pass" => look = "met")
    BY DEF Results, Criteria!FileResult
  <2>4. ResultsAreEarned'
    BY <1>0, <2>1, <2>2, <2>3, ReportKeepsEarned DEF ResultsAreEarned, Sights, Results
  <2> QED BY <1>2, <1>3, <2>1, <2>4 DEF CriteriaInv
<1>13. ASSUME NEW why \in {"interpreter", "escape", "no_file", "no_interpreter", "io_error"},
              Criteria!ScriptRefused(why)
       PROVE  CriteriaInv'
  <2>1. /\ Criteria!AnyLeft /\ Criteria!Report(why, "error") /\ dc_pc' # "script"
        /\ UNCHANGED <<dc_yaml, dc_stage, dc_tool, dc_proc, dc_outcome>>
    BY <1>13 DEF Criteria!ScriptRefused
  <2>2. ResultsAreEarned'
    BY <1>0, <2>1, ReportKeepsEarned DEF ResultsAreEarned, Sights, Results
  <2> QED BY <1>2, <1>3, <2>1, <2>2 DEF CriteriaInv
<1>14. CASE Criteria!SpawnScript
  <2>1. ResultsAreEarned'
    BY <1>0, <1>14 DEF ResultsAreEarned, Earned, Scripts, Codes, CriteriaStages, Criteria!SpawnScript,
       Criteria!NoProc, Criteria!AnyLeft
  <2> QED BY <1>2, <1>3, <1>14, <2>1 DEF CriteriaInv, Criteria!SpawnScript
<1>15. ASSUME NEW code \in {"zero", "other"}, Criteria!ScriptExits(code) PROVE CriteriaInv'
  <2>1. ResultsAreEarned'
    BY <1>0, <1>15 DEF ResultsAreEarned, Earned, Scripts, Codes, Criteria!ScriptExits, Criteria!AnyLeft
  <2> QED BY <1>2, <1>3, <1>15, <2>1 DEF CriteriaInv, Criteria!ScriptExits
<1>16. CASE Criteria!ScriptTimer
  <2>1. ResultsAreEarned'
    BY <1>0, <1>16 DEF ResultsAreEarned, Earned, Scripts, Codes, Criteria!ScriptTimer, Criteria!AnyLeft
  <2> QED BY <1>2, <1>3, <1>16, <2>1 DEF CriteriaInv, Criteria!ScriptTimer
<1>17. CASE Criteria!ScriptCloses
  <2> DEFINE seen == IF dc_proc.timedOut THEN "timeout" ELSE dc_proc.code
             result == Criteria!ScriptResult(dc_proc)
  <2>1. /\ Criteria!AnyLeft /\ Criteria!Report(seen, result) /\ dc_proc' = Criteria!NoProc /\ dc_pc' # "script"
        /\ UNCHANGED <<dc_yaml, dc_stage, dc_tool, dc_outcome>>
    BY <1>0, <1>17 DEF ResultsAreEarned, Criteria!ScriptCloses
  <2>2. seen \in Sights
    BY <1>0 DEF ResultsAreEarned, Scripts, Sights
  <2>3. result \in Results /\ (result = "pass" => seen = "zero")
    BY DEF Results, Criteria!ScriptResult
  <2>4. dc_proc' \in Scripts
    BY <2>1 DEF Scripts, Codes, Criteria!NoProc
  <2> HIDE DEF seen, result
  <2>5. ResultsAreEarned'
    BY <1>0, <2>1, <2>2, <2>3, <2>4, ReportKeepsEarned
  <2> QED BY <1>2, <1>3, <2>1, <2>5 DEF CriteriaInv
<1>18. CASE Criteria!Conclude
  <2>1. /\ dc_run' = dc_run /\ UNCHANGED <<dc_yaml, dc_stage, dc_tool, dc_proc>> /\ dc_pc' = "loop" /\ ~Criteria!AnyLeft
        /\ dc_outcome' = [overall |-> Criteria!Overall(dc_run.results), by |-> dc_run.by, checks |-> dc_run.checks,
                          results |-> dc_run.results]
    BY <1>18 DEF Criteria!Conclude, Criteria!Concluded
  <2>2. Len(dc_run.results) = Len(dc_run.checks) /\ Earned(dc_run.results)
        /\ dc_run.checks \in Seq(Criteria!Checks) /\ dc_run.results \in Seq(Findings)
    BY <1>0, <2>1 DEF ResultsAreEarned, Criteria!AnyLeft
  <2>3. Criteria!VerdictIsEarned'
    BY <2>1, <2>2 DEF Criteria!VerdictIsEarned, Criteria!Overall, Earned
  <2> QED BY <1>1, <1>2, <2>1, <2>3 DEF CriteriaInv
<1>19. CASE Criteria!CleanupAndExit
  <2>1. FilesAreValid'
    BY <1>0, <1>19, NoFileIsContents DEF FilesAreValid, Criteria!CleanupAndExit, Criteria!NoCall
  <2> QED BY <1>1, <1>3, <1>19, <2>1 DEF CriteriaInv, Criteria!CleanupAndExit
<1>20. CASE UNCHANGED criteria_vars
  BY <1>1, <1>2, <1>3, <1>20 DEF CriteriaInv, criteria_vars
<1> QED
  BY <1>4, <1>5, <1>6, <1>7, <1>8, <1>9, <1>10, <1>11, <1>12, <1>13, <1>14, <1>15, <1>16, <1>17, <1>18, <1>19, <1>20
     DEF Criteria!Next

LEMMA CriteriaAreKept == ServicesSpec => []CriteriaHolds
<1>1. ServicesInit => CriteriaHolds
  BY CriteriaStart DEF ServicesInit, CriteriaHolds
<1>2. CriteriaHolds /\ [ServicesNext]_AllVars => CriteriaHolds'
  <2> SUFFICES ASSUME CriteriaHolds, [ServicesNext]_AllVars, part' = "criteria" PROVE CriteriaInv'
    BY DEF CriteriaHolds
  <2>1. part = "criteria" /\ [Criteria!Next]_criteria_vars
    BY DEF ServicesNext, HostPart, CapsulePart, ReviewerPart, WatcherPart, DetailPart, ViewPart, CriteriaPart, AllVars
  <2> QED BY <2>1, CriteriaStep DEF CriteriaHolds
<1> QED BY <1>1, <1>2, PTL DEF ServicesSpec

\* Meta can go by the verdict on the done criteria: a pass was earned check by check, and an error
\* is never the fault of what the tool accepted (evaluate.ts, checks.ts, harness.ts).
THEOREM ServicesEarnVerdicts == ServicesSpec => []VerdictIsEarned
<1>1. CriteriaHolds => VerdictIsEarned
  BY DEF CriteriaHolds, CriteriaInv, VerdictIsEarned
<1> QED BY <1>1, CriteriaAreKept, PTL
====
