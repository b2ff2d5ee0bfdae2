\* Two processes that come and go for ever, and one attempt of the timer at a time.
CONSTANTS
    Connectors = {c1, c2}
    NoConnector = NoConnector
    MissLimit = 2
    TimerAttempts = {"timer"}
SPECIFICATION FairSpec
INVARIANTS TimerIsJustified
PROPERTIES KeepsTrying StartupIsGivenUp OnlySpawnsLose
