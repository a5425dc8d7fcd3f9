SPECIFICATION FairSpec
CONSTANTS
    Revisions <- MCRevisions
    Edited <- MCEdited
    Reloads = {r1, r2}
    Names <- MCNames
    Override = {}
    ProcessEnv = {"TOKEN"}
    EnvFile = {"KEY"}
    Paths0 = {"file"}
    MaxEdits = 1
    MaxStarts = 2
INVARIANTS
    ValidatorKeepsItsPromise
    RuntimeIsAsAsked
PROPERTIES
    RejectedChangesNothing
    RedactorIsTaught
    EveryLoadEnds
CHECK_DEADLOCK FALSE
