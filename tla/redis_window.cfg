SPECIFICATION FairSpec
CONSTANTS
    Process = {p1, p2}
    Counts = {0, 1, 2}
    MaxTokens = {2, 3}
    Duration = 1
    MaxInt = 7
    MaxCounter = 6
    MaxFaults = 2
INVARIANTS GrantedWithinLimit ExpiryInHand
PROPERTIES KeyExpires
CHECK_DEADLOCK FALSE
