SPECIFICATION StorageSpec
CONSTANTS
    w1 = w1  w2 = w2  w3 = w3  r1 = r1  f1 = f1  f2 = f2
    Writer = {w1, w2, w3}
    Reader = {r1}
    None = None
    Legacy = Legacy
    HasLegacy = TRUE
    Servers = {TRUE, FALSE}
    MaxAt = 2
    MaxStamp = 4
    Attempts = 2
    MaxDeletes = 1
    File = {f1, f2}
    Keep = 2
    KeepLatest = 1
    MaxToday = 4
    MaxEdits = 1
    MaxCopies = 1
    MaxRuns = 3
SYMMETRY Symmetry
INVARIANTS
    AcknowledgedIsStored LoadIsCurrent
    LastCopySurvives NothingInWindowIsLost BackupsAreOfTheirRun OnlyWholeTreesLeave
PROPERTIES
    NoOlderVersionComesBack
CHECK_DEADLOCK FALSE
