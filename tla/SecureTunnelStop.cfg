\* As SecureTunnel.cfg, for what the code does not keep: a stop.
CONSTANTS
    Connectors = {c1, c2}
    NoConnector = NoConnector
    MissLimit = 2
    TimerAttempts = {"timer"}
SPECIFICATION Spec
INVARIANT StopSticks
