SPECIFICATION FairSpec
CONSTANTS
    r1 = r1
    r2 = r2
    s1 = s1
    Run <- OneRun
    Space <- OneSpace
    SpaceOf <- AllSame
    NoRun = NoRun
    NoSpace = NoSpace
    TTL = 3
    Slack = 1
    SweepEvery = 1
    Refuses = FALSE
    Attempts = 2
    MaxFaults = 1
    MaxCrashes = 1
PROPERTIES
    DeadLeaseGoesAway
    RunningRecordsClose
    SpacesComeFree
