SPECIFICATION FairSpec
CONSTANTS
    KeepTurns = 1
    MinCompactable = 4
    Calls = {1, 2}
    MaxBodies = 3
    MaxFlights = 2
    MaxSwitches = 1
    HookShared = TRUE
INVARIANTS TypeOK NothingLost RoundsStayWhole OneTerminalUnlessCut
PROPERTIES CompleteMeansCompacted EveryWaitEnds
CHECK_DEADLOCK FALSE
