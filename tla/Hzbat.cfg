SPECIFICATION Spec
CONSTANTS
    Batch <- TheBatches
    MaxFaults = 1
    Directions <- TheDirections
    TasksCount <- TheTasksCount
    InterruptByApp = {"A"}
    Schedules <- TheSchedules
    Pretasks = {"A", "B"}
    Filtered = {"C"}
    MaxRuns = 2
INVARIANTS
    TypeOK
    RecordsTellTruth
PROPERTIES
    PredecessorsFirst
    NeverAgain
    SchedulesInOrder
CHECK_DEADLOCK FALSE
