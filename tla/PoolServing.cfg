\* Two machines compete for one host that does not always answer, reading a
\* cache that lags.
SPECIFICATION Spec
CONSTANTS
    Hosts <- OneHost
    Machines = {m1, m2}
    Selector <- AnySelector
    Faults = {"ssh", "hostLag", "move"}
    None = None
    Cache = Cache
SYMMETRY Permuted
INVARIANTS HeldIsClaimed LabelAgreesWithClaim CopyIsCurrent
PROPERTIES DirtyIsMarked ServingUndisturbed ClaimNeverStolen ImplementsLedger ImplementsHostRun
CHECK_DEADLOCK FALSE
