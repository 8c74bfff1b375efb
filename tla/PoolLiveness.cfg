\* Fair reconcilers that read a lagging cache; the host does not always answer, may be
\* deleted, and is moved.
SPECIFICATION FairSpec
CONSTANTS
    Hosts <- OneHost
    Machines = {m1}
    Selector <- AnySelector
    Faults = {"ssh", "hostDelete", "hostLag", "move"}
    None = None
    Cache = Cache
PROPERTIES DeletionCompletes UnclaimedHostReturns
CHECK_DEADLOCK FALSE
