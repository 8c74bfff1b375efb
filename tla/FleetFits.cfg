\* Every division of up to three hosts into roles, some of four, and every pair of names.
SPECIFICATION Spec
CONSTANTS
    Configs <- SmallConfigs
    MaxCount = 127
    MaxProbed = 1
INVARIANTS TypeOK DefaultsAreStable ControlPlaneFindsHosts MachinesFindHosts
PROPERTY HostsTakenInOrder
\* A fleet that is placed, or refused, stays so.
CHECK_DEADLOCK FALSE
