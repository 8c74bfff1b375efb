\* Every document the patch can meet, every arrangement of commands, and a second run by hand.
SPECIFICATION Spec
CONSTANTS
    CloudConfigs <- AllConfigs
    Options <- AllOptions
    MaxRuns = 2
INVARIANTS TypeOK ZeroMeansEntriesSucceeded JoinedIsPinned NothingElseChanges
\* A script that has ended stays ended.
CHECK_DEADLOCK FALSE
