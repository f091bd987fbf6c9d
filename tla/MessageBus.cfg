SPECIFICATION Spec
\* A bus that nobody calls any more rests: the envelopes are bounded and all read.
CHECK_DEADLOCK FALSE
CONSTANTS
  Channels = {"meta", "worker"}
  Clients = {c1}
  MaxEnvelopes = 2
  MaxTime = 2
  MaxBreaks = 2
  Faults = {"crash", "io", "timeout", "disk"}
INVARIANTS TypeOK PayloadBeforeLine AcceptedIsKept SenderOrder
PROPERTY ImplementsInbox
