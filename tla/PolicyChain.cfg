SPECIFICATION FairSpec
CONSTANTS
  hostDeny = hostDeny
  hostPass = hostPass
  reqDeny = reqDeny
  reqAllow = reqAllow
  MaxLayers = 2
  Layer <- MCLayer
  NeedsRequest <- MCNeedsRequest
  OnError <- MCOnError
  Chains <- MCChains
  NoOutcome = NoOutcome
INVARIANTS
    AllowHasASource
    TrailIsComplete
PROPERTIES
    ImplementsPromise
    EventuallyDecided
CHECK_DEADLOCK FALSE
