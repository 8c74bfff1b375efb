\* Two worlds.  Clusters are built and ejected one command at a time; or commands overlap,
\* are killed between any two writes, and Clusters are paused.  Moves lose objects in both.
SPECIFICATION Spec
CONSTANTS
    Clusters = {c1, c2}
    Namespace <- OwnNamespace
    Modes = {"Released", "SelfManaged"}
    Worlds = {{"strayMove"}, {"stop", "strayMove", "pause", "concurrent"}}
    MaxEra = 2
SYMMETRY Alike
INVARIANTS TypeOK OneManager FileTellsGenesis ReleasedIsPaused CurrentKubeconfig MovedWhole
PROPERTY GenesisKept
\* With every identity built MaxEra times the operator has nothing left to do.
CHECK_DEADLOCK FALSE
