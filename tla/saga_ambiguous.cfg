\* A crash between the outcome and the parking of an ambiguous step.
SPECIFICATION Spec
CONSTANTS
    Workers = {w1}
    NumSteps = 1
    Resolvable = {}
    Compensable = {}
    Removable = {}
    maxAttempts = 2
    Results = {"ADVANCE", "WAIT", "UNWIND", "MANUAL", "RETRY", "TERMINAL", "AMBIGUOUS"}
    MaxLapses = 0
    MaxPolls = 0
    MaxCrashes = 1
    MaxOperator = 0
PROPERTIES
    NeverRetryAmbiguous
CHECK_DEADLOCK FALSE
