\* An ejection after an interrupt: does the call still return?
CONSTANTS
    TasksCounts <- TwoTasks
    WorkersCounts <- TwoWorkers
    ByApp <- Interrupt
    EmptyTasks <- NoTask
    MaxNodes = 2
    StepByStep = FALSE
    MayReset <- Never
    SelectMayFail = FALSE
    MaxBatches = 1
    MaxEjects = 1
SPECIFICATION FairSpec
PROPERTY BatchReturns
\* The process stops when the user calls no more.
CHECK_DEADLOCK FALSE
