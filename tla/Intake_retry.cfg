SPECIFICATION MCSpec
CONSTANTS
    None = None
    Commands = {c1, c2}
    Codex = Codex
    Agent = Codex
    Elsewhere = Elsewhere
    Notes = {n1, n2}
    Targets <- MCTargets
    Promoters = {p1, p2}
    Lines = {l1, l2}
    SafeIds = {}
    MaxDepth = 16
    MaxSize = 100
    MaxEvents = 2
    Facts <- MCFacts
    Secrets <- MCSecrets
    Conversations <- MCConversations
    PhraseOf <- Phrase
    WriteScope = "global"
    SearchScopes = {"global", "project"}
    Limit = 5
    InitMemory <- MCMemory
    MaxWritten = 5
    LinkStopWords = {}
    StaleMarkers = {}
    ReplacementMarkers = {}
    TopicWords = {}
    HeuristicWindow = 256
    StopWords = {"now"}
    RequiredWords = {"not"}
    NewestWords = {"now"}
    OldestWords = {}
    Alternatives <- Alone
    Family <- Self
SYMMETRY Symmetry
INVARIANTS
    AtMostOnce
    SuccessIsRecorded
    NothingIsLost
    
    OnlyOwnIsReplaced
    RetryAddsNothing
