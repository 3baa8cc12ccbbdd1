CONSTANTS
    None = None
    Broken = Broken
    Human = Human
    Personal = Personal
    Work = Work
    RP = RP
    RW = RW
    RC = RC
    Codex = Codex
    Old = Old
    New = New
    OldUrl = OldUrl
    NewUrl = NewUrl
    Repo = Repo
    p1 = p1
    p2 = p2
    Ancestors <- MCAncestors
    Normalize <- MCNormalize
    DerivedId <- MCDerivedId
    PathId <- MCPathId
    FileName <- MCFileName
    Safe = {Old, New}
    CloudRoots = {RC}
    Base <- MCBase
    Layers <- BaseAlone
    Callers <- CodexCallers
    Requests <- Facts
    Changes <- MCChanges
    Renames <- MCRenames
    Moves <- MCMoves
    Roots = {RP, RW, RC}
    Detachable = {RP}
    NameOrder <- MCNameOrder
    InitTree <- MCInitTree
    InitLayer = "none"
    Renamers = {p1, p2}
    Assemblers = {p1}
    MaxRecords = 1
    MaxSnapshots = 1
    MaxTurns = 2
    MaxGenerations = 2
SPECIFICATION Spec
INVARIANTS
    RememberedIsFound
    SnapshotIsCurrent
CHECK_DEADLOCK FALSE
SYMMETRY Symmetry
