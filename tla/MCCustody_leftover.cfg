SPECIFICATION Spec
CONSTANTS
    t1 = t1  t2 = t2  s1 = s1  u1 = u1  q1 = q1  q2 = q2  c1 = c1
    Target = {t1, t2}
    Space = {s1}
    User = {u1}
    Request = {q1, q2}
    None = None
    Creds = {c1}
    Names = {"n"}
    Audiences <- Lists
    Days = {6, 7}
    MinDays = 7
    Schedules = {"weekly"}
    Seeded = t1
    SeedMaint = "full"
    MaxOps = 3
    MaxFaults = 1
INVARIANT NoAudienceNobodyChose
SYMMETRY Symmetry
CHECK_DEADLOCK FALSE
