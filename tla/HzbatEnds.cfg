SPECIFICATION FairSpec
CONSTANTS
    Batch <- TheBatches
    MaxFaults = 1
    Directions <- TheDirections
    TasksCount <- TheTasksCount
    InterruptByApp = {"A"}
    Schedules <- TheSchedules
    Pretasks = {"A", "B"}
    Filtered = {"C"}
    MaxRuns = 1
INVARIANTS
    NothingLeftExecuting
PROPERTIES
    RunEndsUnlessStuck
CHECK_DEADLOCK FALSE
