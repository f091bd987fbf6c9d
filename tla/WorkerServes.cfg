SPECIFICATION FairSpec
CONSTANTS
  MaxSessions = 3
  MaxInstructions = 1
  Tools = {"start", "send"}
  StageMoves = {"running", "away", "halted"}
  Faults = {"crash", "quit", "repair"}
PROPERTIES EndedTurnsAreRecorded 
