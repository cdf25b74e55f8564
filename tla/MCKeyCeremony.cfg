SPECIFICATION FairSpec
CONSTANTS
    p1 = p1
    p2 = p2
    Page <- Two
    MaxCeremonies = 2
    MaxFaults = 2
    Worlds <- AllWorlds
INVARIANTS OneDataKey NoSilentLoser VoidKeysStayVoid
PROPERTIES DataKeyIsForEver RequestsEnd
