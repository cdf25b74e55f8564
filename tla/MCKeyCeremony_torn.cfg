SPECIFICATION Spec
CONSTANTS
    p1 = p1
    p2 = p2
    Page <- Two
    MaxCeremonies = 1
    MaxFaults = 0
    Worlds <- TornAnswers
INVARIANT DiscardedKeyIsVoid
