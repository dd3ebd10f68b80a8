SPECIFICATION FairSpec
CONSTANTS
    Topic = {t1}
    Worker <- FromStart
    MaxLog = 2
    Content <- Batches
    Unparsable = {}
    ChannelCap = 1
    BulkSize = 2
    MaxRetry = 2
    IndexMethods = {"BulkProcessor", "SingleInsert"}
    Redactions = {"market", "static"}
    MaxTroubles = 1
INVARIANTS CommittedAccounted
PROPERTIES QueueDrains EveryMessageHandled
CHECK_DEADLOCK FALSE
