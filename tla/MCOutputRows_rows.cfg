SPECIFICATION Spec
CONSTANTS
    RunLimit = 4
    Segments = 3
    BatchSize = 2
    Retries = 2
    Budget <- MCBudget
CHECK_DEADLOCK FALSE
INVARIANTS TypeOK MarkedRunIsWhole UndisturbedRerunIsClean
PROPERTIES DeletesOnlyEarlierRuns
