SPECIFICATION LoopSpec
CONSTANTS
    N = 1
    Period <- PeriodOne
    Jitter <- JitterOne
    Cycle = 4
    PruneEvery = 2
    HistoryWindow = 2
    MaxConcurrent = 1
    Outcomes <- Either
    LongRuns = TRUE
    MaxUnresolved = 1
    MaxErrors = 1
    MaxSkips = 1
    MaxManual = 1
    MaxEdits = 0
    MaxCrashes = 1
    MaxEvents = 2
    s1 = s1
    Watched <- OneWatched
    MaxTime = 3
    StaleAfter = 1
    RepeatAfter = 2
    StaleLookback = 1
    HistoryLookback = 1
    MaxRuns = 2
    MaxFaults = 1
    MaxSaves = 1
    i1 = i1  i2 = i2
    Instance = {i1, i2}
    Nobody = Nobody
    Pasts = {{}}
    TTL = 2
    RenewEvery = 1
    Overwriting = {TRUE, FALSE}
    MaxGuardFaults = 1
SYMMETRY Symmetry
INVARIANTS
    NoNagging StaleMessageIsTrue
    NoRunOutlivesTheRecord ExitsLeaveNoRecord RunsOfOneProcess
PROPERTIES StaleSpacesAreTold OnSchedule
