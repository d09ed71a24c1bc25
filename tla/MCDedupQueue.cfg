SPECIFICATION FairSpec
CONSTANTS
    p1 = p1
    p2 = p2
    c1 = c1
    c2 = c2
    NoOne = NoOne
    Unset = Unset
    Producers = {p1, p2}
    Consumers = {c1, c2}
    Quota <- MCQuota
    QueueSize = 2
    InsertLimit = 2
    FetchLimit = 2
INVARIANTS
    ExactlyOnce
    EndOfStreamIsFinal
    NoEnqueueAfterTerminate
    NoStrandedConsumer
    NoStrandedProducer
PROPERTIES
    NoEmptyBatch
    ImplementsChannel
    Termination
