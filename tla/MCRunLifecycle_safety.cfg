SPECIFICATION Spec
CONSTANTS
    r1 = r1
    r2 = r2
    s1 = s1
    Run <- TwoRuns
    Space <- OneSpace
    SpaceOf <- AllSame
    NoRun = NoRun
    NoSpace = NoSpace
    TTL = 3
    Slack = 1
    SweepEvery = 1
    Refuses = TRUE
    Attempts = 2
    MaxFaults = 2
    MaxCrashes = 1
SYMMETRY Symmetry
INVARIANTS
    RunsNeverOverlap
    SucceededMeansDone
    RecordedBeforeRelease
    OrphanSweepSparesRuns
PROPERTIES
    KeepsContract
