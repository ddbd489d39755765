\* Two workers, a crash, a lease that runs out under a live worker, an operator
\* who intervenes, and a release that drops a step.
SPECIFICATION Spec
CONSTANTS
    Workers = {w1, w2}
    NumSteps = 2
    Resolvable = {1}
    Compensable = {1, 2}
    Removable = {1}
    maxAttempts = 1
    Results = {"ADVANCE", "UNWIND", "TERMINAL"}
    MaxLapses = 1
    MaxPolls = 0
    MaxCrashes = 1
    MaxOperator = 1
SYMMETRY Symmetry
INVARIANTS
    TypeOK
    StepsInOrder
    CompletedMeansDone
    CancelledMeansUndone
PROPERTIES
    ParkedForHuman
    NoRerunInFlight
    RecordSpec
CHECK_DEADLOCK FALSE
