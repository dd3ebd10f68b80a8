SPECIFICATION FairSpec
CONSTANTS
    Consumer = {c1}
    NoConsumer = NoConsumer
    Bad = {1}
    FlushMaxBytes = 2
    ChannelCap = 1
    Compressor = "zstd"
    MaxLog = 3
    Signalled = {c1}
INVARIANTS TypeOK CommittedUploaded StopLeavesAtMostOne
PROPERTIES EveryMessageUploaded
