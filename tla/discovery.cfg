SPECIFICATION FairSpec
CONSTANTS
    Topic = {t1}
    NoTopic = NoTopic
    Process = {p1}
    Call = {h1, h2}
    BatchSizes = {1}
    Service = {s1}
    MaxFailures = 1
INVARIANTS SendsToExistingTopics AnnouncedTopicsExist  FetchedAnnouncementsServed OneOrphan
PROPERTIES AnnouncementsServed
