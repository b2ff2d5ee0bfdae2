CONSTANTS
    Instances = {a, b}
    First = a
    None = none
    Sessions = {s1}
    MaxGeneration = 12
    MaxFaults = 2
SPECIFICATION FairSpec
PROPERTIES CommitIsPublished StopsOnlyLosers Converges
CHECK_DEADLOCK FALSE
