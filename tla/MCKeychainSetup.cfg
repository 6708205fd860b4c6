\* One process at a time, of every kind and on every host.
SPECIFICATION FairSpec
CONSTANTS
    p1 = p1
    p2 = p2
    Down = Down
    Processes <- Alone
    Kinds <- MCKinds
    Installations <- MCInstallations
    MaxRuns = 2
    MaxFaults = 2
INVARIANT TypeOK
PROPERTY EveryRunEnds
CHECK_DEADLOCK FALSE
