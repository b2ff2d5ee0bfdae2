CONSTANTS
    RouteOrder <- TwoRoutes
    NoRoute = "none"
    TransportThreshold = 2
    ConnectorRetries = 1
    Dwell = 1
    SwitchDelay = 1
    Cooldown = 3
    Window = 1
    MaxSwitches = 1
    Failures = {"transport", "auth"}
    MaxQueue = 1
SPECIFICATION FairSpec
INVARIANTS StopHolds ConnectorNeedsRunning LaunchFindsNone RunningHasWork
PROPERTIES CooldownIsKept SwitchBudgetIsKept ComesBack
