\* A topic with two workers: the one Start spawns and the one an announcement
\* spawns, in either order, before, during or after a halt.  A service that
\* has handled all of the bounded log is idle.
SPECIFICATION Spec
CONSTANTS
    Topic = {t1}
    Worker <- FromBoth
    MaxLog = 1
    Content <- OneBatch
    Unparsable = {}
    ChannelCap = 1
    BulkSize = 1
    MaxRetry = 1
    IndexMethods = {"BulkProcessor", "DataStream", "SingleInsert"}
    Redactions = {"market", "static"}
    MaxTroubles = 1
INVARIANTS TypeOK CommittedAccounted
PROPERTIES LossBounded HaltKeepsOffsets
CHECK_DEADLOCK FALSE
