\* Two clusters share a namespace.
SPECIFICATION Spec
CONSTANTS
    Clusters = {c1, c2}
    Namespace <- SharedNamespace
    Modes = {"Released", "SelfManaged"}
    Worlds = {{}}
    MaxEra = 2
SYMMETRY Alike
PROPERTY GenesisKept
\* With every identity built MaxEra times the operator has nothing left to do.
CHECK_DEADLOCK FALSE
