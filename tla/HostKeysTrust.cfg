\* Keys change, the operator trusts what was refused; patches fail, the manager restarts.
SPECIFICATION Spec
CONSTANTS
    Hosts = {h1}
    MaxKey = 3
    Policies = {"Strict", "TOFU", "Insecure"}
    Faults = {"patchFails", "restart", "outage"}
INVARIANTS TypeOK OneKeyPerTrust
PROPERTY CorrectedHostReturns
