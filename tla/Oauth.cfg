SPECIFICATION FairSpec
CONSTANTS
  t1 = t1
  t2 = t2
  t3 = t3
  one = one
  two = two
  tool = tool
  daemon = daemon
  cli = cli
  None = None
  Task <- MCTask
  Source <- MCSource
  Process <- MCProcess
  ProcessOf <- MCProcessOf
  Command <- MCCommand
  Scenes <- MCScenes
INVARIANTS
    HandedOutIsSound
    CredentialSurvives
PROPERTIES
    NoWastedMint
    EveryResolveEnds
CHECK_DEADLOCK FALSE
