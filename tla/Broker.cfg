\* Two tables of two entries, three authorization requests and two redirects:
\* enough for a full table, a repeated state, an expired entry and a redirect
\* that arrives twice or on another broker's connection.
CONSTANTS
    s1 = s1
    s2 = s2
    State <- TwoStates
    NoState = NoState
    MaxPending = 2
    MaxFlows = 3
    MaxRedirects = 2
    MaxBrokers = 2
SPECIFICATION Spec
SYMMETRY StateSymmetry
INVARIANTS
    TableIsSound
    TakenOnce
    RedeemsItsOwn
    TokenOnlyForALostFlow
\* Requests and redirects are bounded: a behaviour ends.
CHECK_DEADLOCK FALSE
