SPECIFICATION FairSpec
CONSTANTS
  hosts = hosts
  rules = rules
  enforce = enforce
  warn = warn
  open = open
  api = api
  other = other
  c1 = c1
  None = None
  Layer <- MCLayer
  NeedsRequest <- MCNeedsRequest
  OnError <- MCOnError
  Says <- MCSays
  Host <- MCHost
  Config <- MCConfig
  ChainOf <- MCChainOf
  Passthrough <- MCPassthrough
  DenyUnidentified <- MCDenyUnidentified
  MappedTo <- MCMappedTo
  InitialConfig = enforce
  Conn <- OneConn
  MaxReloads = 1
  MaxRequests = 2
INVARIANTS
    OnlyAllowedIsForwarded
    LogIsTrue
    OneSetOfRules
PROPERTIES
    NeverStalls
CHECK_DEADLOCK FALSE
