\* Does every call return, with ejections and failing selects?
CONSTANTS
    TasksCounts <- NoneOrTwo
    WorkersCounts <- OneOrAll
    ByApp <- Both
    EmptyTasks <- NoTask
    MaxNodes = 2
    StepByStep = TRUE
    MayReset <- Never
    SelectMayFail = TRUE
    MaxBatches = 2
    MaxEjects = 1
SPECIFICATION FairSpec
INVARIANTS
    ZeroMeansAllAnswered
PROPERTY ReturnsUnlessStuck
\* The process stops when the user calls no more.
CHECK_DEADLOCK FALSE
