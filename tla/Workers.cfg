SPECIFICATION ScenesSpec
CONSTANTS
  MaxSessions = 3
  MaxInstructions = 2
  Tools = {"start", "send", "stop"}
  StageMoves = {"running", "away", "halted"}
  Faults = {"crash", "quit", "start", "close", "mail", "repair"}
INVARIANTS TypeOK OneLiveWorker GuardHasOwner RecordedInScene EndOnceInScene  CleanExitInScene
PROPERTY StartsAreDecidedInScene
