SPECIFICATION LiveSpec
CONSTANTS
    i1 = i1  i2 = i2
    Instance = {i1, i2}
    Nobody = Nobody
    Pasts = {{i2}, {i1, i2}}
    TTL = 4
    RenewEvery = 1
    Overwriting = {TRUE, FALSE}
    MaxGuardFaults = 2
    Worker = {"a", "b"}
    TokenTTL = 1
    Margin = 0
    Window = 2
    MaxDelay = 2
    MaxClock = 1
    MaxSecrets = 2
PROPERTIES
    ShutdownEnds ClaimsEnd TransfersEnd RefusalsEnd
CHECK_DEADLOCK FALSE
