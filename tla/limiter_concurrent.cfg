SPECIFICATION Spec
CONSTANTS
    Handler = {h1, h2}
    None = None
    Counts = {1, 2}
    MaxTokens = {1, 2}
    Duration = 1
    MaxRequests = 3
    MaxRefills = 1
SYMMETRY Symmetry
INVARIANTS NoTokenSpentTwice OverrunBounded
CHECK_DEADLOCK FALSE
