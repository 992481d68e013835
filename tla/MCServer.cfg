SPECIFICATION FairSpec
CONSTANTS
    Render = {r1, r2, r3}
    Impatient = {r3}
    MaxConcurrent = 2
    MaxQueued = 1
    Probe = {q1}
    Signal = {s1, s2}
    Interrupt = {s1}
INVARIANT OneBrowserWithoutTrouble
INVARIANT GoodResultWasUp
INVARIANT ShutdownSparesRequests
INVARIANT ExitLeavesNoBrowser
CHECK_DEADLOCK FALSE
PROPERTY ImplementsService
PROPERTY EveryShutdownEnds
