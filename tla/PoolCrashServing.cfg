\* The manager restarts while a HostMachine is released.
SPECIFICATION Spec
CONSTANTS
    Hosts <- OneHost
    Machines = {m1, m2}
    Selector <- AnySelector
    Faults = {"crash"}
    None = None
    Cache = Cache
PROPERTY ServingUndisturbed
CHECK_DEADLOCK FALSE
