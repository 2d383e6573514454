\* Safety of one call of DC4CDoBatchTasks, performed step by step too.
CONSTANTS
    TasksCounts <- TwoBatches
    WorkersCounts <- TwoWorkers
    ByApp <- Both
    EmptyTasks <- SecondOfTwo
    MaxNodes = 1
    StepByStep = TRUE
    MayReset <- TwoInterrupted
    SelectMayFail = FALSE
    MaxBatches = 1
    MaxEjects = 1
SPECIFICATION Spec
INVARIANTS
    TypeOK
    CountersMatch
    WorkersBound
    RequeuedMeansInterrupted
    ZeroMeansAllAnswered
    DrainedOnInterrupt
PROPERTIES
    OutcomeIsFinal
    KeepsPromise
\* The process stops when the user calls no more.
CHECK_DEADLOCK FALSE
