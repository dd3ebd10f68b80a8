SPECIFICATION BucketSpec
CONSTANTS
    Consumer = {c1}
    NoConsumer = NoConsumer
    Bad = {}
    FlushMaxBytes = 1
    ChannelCap = 1
    Compressor = "zstd"
    MaxLog = 2
    Signalled = {c1}
INVARIANTS CommittedRetained
