SPECIFICATION Spec
\* A bus that nobody calls any more rests: the envelopes are bounded and all read.
CHECK_DEADLOCK FALSE
CONSTANTS
  Channels = {"meta", "worker"}
  Clients = {c1}
  MaxEnvelopes = 2
  MaxTime = 2
  MaxBreaks = 3
  Faults = {"crash", "io"}
INVARIANT QuarantinedPayloadsAreKept
