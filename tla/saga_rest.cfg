\* Under fairness the intent comes to rest.
SPECIFICATION FairSpec
CONSTANTS
    Workers = {w1, w2}
    NumSteps = 1
    Resolvable = {1}
    Compensable = {1}
    Removable = {}
    maxAttempts = 1
    Results = {"ADVANCE", "WAIT", "RETRY", "UNWIND", "MANUAL", "AMBIGUOUS"}
    MaxLapses = 1
    MaxPolls = 1
    MaxCrashes = 1
    MaxOperator = 0
PROPERTIES
    ComesToRest
CHECK_DEADLOCK FALSE
