SPECIFICATION Spec
CONSTANTS
    Revisions <- MCRevisions
    Edited <- MCEdited
    Reloads = {r1, r2}
    Names <- MCNames
    Override = {}
    ProcessEnv = {"TOKEN"}
    EnvFile = {"KEY"}
    Paths0 = {"file"}
    MaxEdits = 1
    MaxStarts = 1
INVARIANTS
    InjectedIsKnown
CHECK_DEADLOCK FALSE
