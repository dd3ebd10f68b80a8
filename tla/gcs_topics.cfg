SPECIFICATION FairSpec
CONSTANTS
    Topic = {t1, t2, t3}
    Matching = {t1, t2}
    NoTopic = NoTopic
INVARIANTS ServiceInv CloseStopsOutputs
PROPERTIES EveryTopicHandled
