\* An event that is not long fits the stream's cap with room for one wide
\* character; the long ones do not fit.
CONSTANTS
    Servers <- SomeServers
    Setups <- SomeSetups
    Hosts = {"mcp", "free"}
    Bodies <- SomeBodies
    Answers <- SomeAnswers
    Turns <- SomeTurns
    Styles = {"plain", "together", "at once", "long text", "long call", "long args", "wide"}
    FrameSizes = {1, 3, 8}
    SseCap = 8
    MaxRounds = 3
SPECIFICATION Spec
INVARIANTS
    BodyArrivesWhole
    CredentialIsStoppedOrSaid
    CallIsPermitted
    ListingIsFiltered
    CapsHold
    StreamIsFaithful
    ConversationSurvives
PROPERTIES
    EveryBodyEnds
