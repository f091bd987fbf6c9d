SPECIFICATION FairSpec
CONSTANTS
  Callers = {c1, c2}
  Interrupting = {c2}
  MaxTurns = 2
  Hazards = {}
  Faults = {"write", "content", "isolation", "crash"}
  MaxFaults = 1
  WriteLimit = 1
PROPERTIES ImplementsContract Terminates
CHECK_DEADLOCK FALSE
