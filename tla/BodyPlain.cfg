\* The plain path: no server's answer matters.
CONSTANTS
    Servers <- SomeServers
    Setups <- SomeSetups
    Hosts = {"free"}
    Bodies <- SomeBodies
    Answers <- SomeAnswers
    Turns <- SomeTurns
    Styles = {"plain"}
    FrameSizes = {3}
    SseCap = 8
    MaxRounds = 1
SPECIFICATION Spec
INVARIANTS
    PlainBodyMeetsOversizeRule
