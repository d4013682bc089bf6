CONSTANTS
    f1 = f1
    r1 = r1
    u1 = u1
    u2 = u2
    Flow <- MCFlow
    Replay <- MCReplay
    UI <- MCUI
    EventCap = 1
    Scripted = TRUE
SPECIFICATION FairPauseSpec
CHECK_DEADLOCK FALSE
INVARIANTS
    PauseIsSafe
PROPERTIES
    ClientFlowEndsVisibly
    EveryPauseEnds
