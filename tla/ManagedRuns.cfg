CONSTANTS
    MaxRuns = 2
    Retention = 1
    MaxRestarts = 2
SPECIFICATION FairSpec
INVARIANTS LedgerIsTruthful LedgerIsFollowed
PROPERTIES OutcomeIsFinal EveryRunEnds
CHECK_DEADLOCK FALSE
