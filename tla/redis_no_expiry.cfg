SPECIFICATION FairSpec
CONSTANTS
    Process = {p1}
    Counts = {1, 2}
    MaxTokens = {1}
    Duration = 1
    MaxInt = 3
    MaxCounter = 4
    MaxFaults = 0
PROPERTIES KeyExpires
CHECK_DEADLOCK FALSE
