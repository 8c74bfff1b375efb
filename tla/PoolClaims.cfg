\* One machine and two hosts: every way for the machine to lose track of the
\* host it marked.
SPECIFICATION Spec
CONSTANTS
    Hosts <- TwoHosts
    Machines = {m1}
    Selector <- AnySelector
    Faults = {"machineLag", "patchError", "crash", "move", "unhealthy"}
    None = None
    Cache = Cache
INVARIANTS TypeOK OneHostPerMachine
\* A machine may be provisioned, or the pool empty, for good.
CHECK_DEADLOCK FALSE
