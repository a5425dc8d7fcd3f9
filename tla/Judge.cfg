SPECIFICATION JudgeFairSpec
CONSTANTS
  r1 = r1
  r2 = r2
  r3 = r3
  r4 = r4
  k1 = k1
  k2 = k2
  Key <- Keys
  KeyOf <- MCKeyOf
  HasTimeout = TRUE
  OnErrorMode = "deny"
  OnTimeoutMode = "allow"
  None = None
  Req <- FourReqs
  InScope <- SomeInScope
  Threshold = 2
  MaxConcurrent = 2
INVARIANTS
    SharedStateIsSound
PROPERTIES
    FailedProbeReopens
    EveryRequestEnds
CHECK_DEADLOCK FALSE
