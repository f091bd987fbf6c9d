SPECIFICATION Spec
CONSTANTS
  MaxSessions = 3
  MaxInstructions = 1
  Tools = {"start", "send", "stop", "restart", "interrupt"}
  StageMoves = {"running", "halted"}
  Faults = {"crash", "quit", "start", "log"}
INVARIANT SignalsAreAnswered
