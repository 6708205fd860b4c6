\* Two commands at once, after an upgrade.
SPECIFICATION Spec
CONSTANTS
    p1 = p1
    p2 = p2
    Down = Down
    Processes <- Both
    Kinds <- CommandOnly
    Installations <- RaceInstallations
    MaxRuns = 2
    MaxFaults = 1
SYMMETRY Symmetric
INVARIANTS   NeverDowngraded
CHECK_DEADLOCK FALSE
