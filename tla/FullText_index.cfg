\* Two processes search, refresh and read while the records change once and
\* one process dies or one commit fails.
SPECIFICATION FairSpec
CONSTANTS
    Procs = {p1, p2}
    p1 = p1
    p2 = p2
    None = None
    Empty = Empty
    Old = Old
    MaxVersion = 1
    MaxFaults = 1
INVARIANTS
    SettledIsExact
PROPERTIES
    AllAgain
