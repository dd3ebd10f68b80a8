SPECIFICATION Spec
CONSTANTS
    Consumer = {c1}
    NoConsumer = NoConsumer
    Bad = {}
    FlushMaxBytes = 2
    ChannelCap = 1
    Compressor = ""
    MaxLog = 2
    Signalled = {}
INVARIANTS CommittedUploaded
