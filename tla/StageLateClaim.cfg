SPECIFICATION Spec
CONSTANTS
  Cli = {c1}
  Commands = {"pause", "resume"}
  MaxStamps = 3
PROPERTY LatestClaimIsReviewed
