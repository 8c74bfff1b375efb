\* Dropped sessions and reboots at every step, over three owners; the controller
\* and the runner are fair.
SPECIFICATION FairSpec
CONSTANTS
    Data = {d1, d2, d3}
    Faults = {"cut", "reboot"}
    MaxRuns = 5
    None = None
    Torn = Torn
INVARIANTS TypeOK TruthfulOutcome AtMostOnce NoTornRun
PROPERTIES DetachedRunIsReported ImplementsHostRun
\* When every script has been used the host stays free.
CHECK_DEADLOCK FALSE
