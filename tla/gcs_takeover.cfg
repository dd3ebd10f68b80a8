SPECIFICATION Spec
CONSTANTS
    Consumer = {c1, c2}
    NoConsumer = NoConsumer
    Bad = {1}
    FlushMaxBytes = 1
    ChannelCap = 1
    Compressor = "gzip"
    MaxLog = 2
    Signalled = {}
SYMMETRY Symmetry
INVARIANTS DeliveryInv
PROPERTIES CommitsNeverRegress ImplementsSink
