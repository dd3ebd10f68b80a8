SPECIFICATION FairSpec
CONSTANTS
    Topic = {t1}
    NoTopic = NoTopic
    Process = {p1}
    Call = {h1}
    BatchSizes = {2}
    Service = {s1}
    MaxFailures = 0
PROPERTIES EveryTopicConsumed
