CONSTANTS
    Streams = {c1}
    Task = t1
    Topics = {t1, t2}
    All = All
    Topic <- ClientTopic
    Retention = 2
    StreamLimit = 1
    MaxEvents = 4
    MaxAppend = 2
SPECIFICATION EventsSpec
INVARIANTS
    EventsTypeOK
    DeliveredIsDurable
    NoLostWakeup
    CompleteUnlessLagged
PROPERTY EventuallyDelivered
