CONSTANTS
    MaxRequests = 3
    MaxQueue = 2
SPECIFICATION ApprovalsFairSpec
INVARIANTS AllowedByHand
CHECK_DEADLOCK FALSE
PROPERTY EveryoneIsAnswered
