SPECIFICATION FairSpec
CONSTANTS
    Request = {r1, r2, r3, r4, r5}
    MaxConcurrent = 2
    MaxQueued = 2
INVARIANT SlotsAccounted
INVARIANT WorkConserving
PROPERTY FifoOrder
PROPERTY EveryWaitEnds
PROPERTY ImplementsRenderPool
