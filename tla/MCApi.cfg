SPECIFICATION ApiSpec
CONSTANTS
    t1 = t1  t2 = t2  s1 = s1  u1 = u1  q1 = q1  q2 = q2  c1 = c1
    Target = {t1, t2}
    Space = {s1}
    User = {u1}
    Request = {q1, q2}
    None = None
    Creds = {c1}
    Names = {"n"}
    Audiences <- Lists
    Days = {6, 7}
    MinDays = 7
    Schedules = {"weekly"}
    Seeded = t1
    SeedMaint = "full"
    MaxOps = 3
    MaxFaults = 1
    k1 = k1  k2 = k2  a1 = a1  a2 = a2  p1 = p1  p2 = p2
    Call = {a1, a2}
    SigningKey = {k1, k2}
    Token <- Tokens
    Never <- LongAgo
    TTL = 1
    MinRefresh = 2
    FetchTimeout = 1
    Leeway = 1
    MaxCachedUsers = 1
    MaxTime = 3
    Principal = {p1, p2}
    Caller = p1
    Nobody = Nobody
    Expiry = {0, 2}
    Noon = 2
INVARIANTS
    StrandedOnlyByARace EditsAloneStand AudienceStands RotationMovesEverything
    WithdrawnKeysFade GoodTokensAreNotRefused DecisionIsTheRoles
SYMMETRY ApiSymmetry
CHECK_DEADLOCK FALSE
