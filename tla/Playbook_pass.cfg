SPECIFICATION PlaybookSpec
CONSTANTS
    Worlds <- TheWorlds
    FirstWorld = "lost"
    Passes = {p1, p2}
    Faults <- TheFaults
    HandRefs <- TheHandRefs
    HandTo = {"in_progress", "dismissed"}
    ManualRefs = {"m"}
    MaxDrift = 2
    MaxTouch = 1
    MaxPasses = 3
SYMMETRY PassSymmetry
PROPERTIES ResolvedForCause ListFollowsData
CHECK_DEADLOCK FALSE
