\* A completed step that the unwind leaves alone.
SPECIFICATION Spec
CONSTANTS
    Workers = {w1}
    NumSteps = 1
    Resolvable = {}
    Compensable = {1}
    Removable = {}
    maxAttempts = 2
    Results = {"ADVANCE", "WAIT", "UNWIND", "MANUAL", "RETRY", "TERMINAL", "AMBIGUOUS"}
    MaxLapses = 0
    MaxPolls = 0
    MaxCrashes = 1
    MaxOperator = 0
INVARIANTS
    UnwindCoversCompleted
CHECK_DEADLOCK FALSE
