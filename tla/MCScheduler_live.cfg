SPECIFICATION FairSpec
CONSTANTS
    N = 2
    Period <- PeriodsTwo
    Jitter <- JittersTwo
    Cycle = 4
    PruneEvery = 4
    HistoryWindow = 5
    MaxConcurrent = 1
    Outcomes <- Always
    LongRuns = FALSE
    MaxUnresolved = 1
    MaxErrors = 1
    MaxSkips = 1
    MaxManual = 1
    MaxEdits = 1
    MaxCrashes = 1
    MaxEvents = 1
PROPERTIES DueBackupsRun DuePrunesRun
