SPECIFICATION Spec
CONSTANTS
  Cli = {c1}
  Commands = {"pause", "resume", "done", "cancel"}
  MaxStamps = 3
INVARIANTS
  TypeOK
  RunningWasReviewed
  PausedRemembersOrigin
PROPERTIES
  KnownClaimsAreReviewed
  TerminalIsFinal
  ImplementsLifecycle
