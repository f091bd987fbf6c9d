SPECIFICATION ServicesSpec
\* A part may come to rest: its commands are given, its session is over, its page closed.
CHECK_DEADLOCK FALSE
CONSTANTS
  Hosts = {h1, h2, h3}
  Clients = {c1, c2}
  Commands = {"submit", "answer", "feedback", "upload", "run", "pause", "resume", "done", "cancel", "delete", "look"}
  MaxCommands = 3
  MaxDirs = 2
  Faults = {"crash", "spawn", "reuse"}
  CodexSessions = {s1, s2, s3}
  MaxServers = 4
  Calls = {r1, r2}
  ReviewerFaults = 2
  WatchedSessions = {w1}
  WatchedLines = 3
  MaxNow = 3
  WatcherFaults = 2
  Budget = 1
  MaxFiles = 2
  MaxLines = 2
  MaxRows = 2
  MaxPushes = 2
  ReadFaults = 1
  Tasks = {t1, t2}
  Tabs = {"conversation", "meta"}
  StreamTabs = {"meta"}
  Files = 1
  MaxEpoch = 4
  MaxRequests = 1
  NoTask = NoTask
  CheckKinds = {"yaml_field_present", "script"}
  MaxChecks = 2
  MaxRuns = 1
INVARIANTS
  OneHost OnlyRacesStrand
  OneServer LiveAreServed
   
  LinesAreWatchedOnce
  
  OneViewIsShown
  VerdictIsEarned
