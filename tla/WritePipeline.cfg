\* Two users of one device; more writes than the pipeline holds.
CONSTANTS
    ann = ann
    bob = bob
    User = {ann, bob}
    MaxPendingWrites = 3
    MaxWrites = 4
    MaxFaults = 2
SPECIFICATION FairSpec
INVARIANTS
    PipelineIsFirstOfQueue
    ResultsMatchPipeline
    HandlersMatchQueue
    LastsInOrder
    NothingLost
    ToldTheTruth
PROPERTIES
    ImplementsWriteQueue
    WritesAreAnswered
\* Behaviours end when the bounds are used up.
CHECK_DEADLOCK FALSE
