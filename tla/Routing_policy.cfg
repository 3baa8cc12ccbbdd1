CONSTANTS
    None = None
    Broken = Broken
    Human = Human
    Personal = Personal
    Work = Work
    RP = RP
    RW = RW
    RC = RC
    Codex = Codex
    Old = Old
    New = New
    OldUrl = OldUrl
    NewUrl = NewUrl
    Repo = Repo
    p1 = p1
    Ancestors <- MCAncestors
    Normalize <- MCNormalize
    DerivedId <- MCDerivedId
    PathId <- MCPathId
    FileName <- MCFileName
    Safe = {Old, New}
    CloudRoots = {RC}
    Base <- MCBase
    Layers <- AllLayers
    Callers <- AllCallers
    Requests <- Delicates
    Changes <- MCChanges
    Renames <- NoneOf
    Moves <- NoneOf
    Roots = {RP, RW, RC}
    Detachable = {RP}
    NameOrder <- MCNameOrder
    InitTree <- MCInitTree
    InitLayer = "none"
    Renamers = {}
    Assemblers = {p1}
    MaxRecords = 1
    MaxSnapshots = 1
    MaxTurns = 2
    MaxGenerations = 2
SPECIFICATION Spec

    
PROPERTIES
    AcceptedWithinPolicy
CHECK_DEADLOCK FALSE
