\* A machine is deleted during its bootstrap and the next one takes the host.
SPECIFICATION Spec
CONSTANTS
    Data = {d1, d2}
    Faults = {"earlyRelease"}
    MaxRuns = 3
    None = None
    Torn = Torn
INVARIANT TruthfulOutcome
\* When every script has been used the host stays free.
CHECK_DEADLOCK FALSE
