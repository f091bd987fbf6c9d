SPECIFICATION FairSpec
CONSTANTS
  Roles = {"meta", "watcher"}
  Envelopes = {e1, e2}
  Sessions = {1, 2}
  StartLimit = 3
  StreakLimit = 2
  MarkLimit = 1
  RetryMax = 1
  Faults = {"event", "provider", "mark", "fold", "manifest", "session"}
  MaxFaults = 4
INVARIANTS InjectedOnce SessionsArePaired
PROPERTIES RoleBeforeWork EnvelopesAreServed
CHECK_DEADLOCK FALSE
