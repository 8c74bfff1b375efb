\* One machine, its cluster created or moved here; patches fail, managers restart, clusters pause.
SPECIFICATION Spec
CONSTANTS
    Machines = {m1}
    Arrivals = {"create", "move"}
    Faults = {"patchFails", "restart", "pause"}
INVARIANTS TypeOK NoLostWakeup
