\* Two values per label, two of them taught by every renewal: a token can be
\* forgotten while the request that carries it is on its way.
CONSTANTS
    r1 = r1
    r2 = r2
    Reqs = {r1, r2}
    Ring = 2
    Name <- Names
    Scenes <- SomeScenes
SPECIFICATION Spec
INVARIANTS
    CredentialsGoTogether
    RecordTellsInjection
    SecretsAreHidden
    SignatureCoversWhatIsSent
PROPERTIES
    EveryRequestMovesOn
\* The requests end.
CHECK_DEADLOCK FALSE
