\* Sessions on two topics, and any five of ten records without a session.
SPECIFICATION Spec
CONSTANTS
    None = None
    Generic = Generic
    Unusable = Unusable
    LinkStopWords = {}
    StaleMarkers = {"used to"}
    ReplacementMarkers = {"now"}
    TopicWords = {"deploy", "branch", "staging", "main", "rules"}
    HeuristicWindow = 256
    StopWords = {"now"}
    RequiredWords = {}
    NewestWords = {"now"}
    OldestWords = {}
    Alternatives <- NoAlternatives
    Family <- Itself
    Transient = {}
    Operational = {}
    Guidance = {}
    PointerSize = 1
    Corpora <- MCCorpora
    Topics <- MCTopics
    Policy <- RecallPolicy
    Reader <- Startup
    Projects = {"here"}
    Lifetimes = {"persistent", "turn", "none"}
    HostLimit = 7
    Envelope = 5
    RecallCap = 2
    LeastLimit = 1
    MaxEntries <- MCMaxEntries
    MaxExpired <- MCMaxExpired
INVARIANTS
    ShownIsCurrent
    NothingTwice
    RecallAdvances
    NothingHiddenForNothing
    OthersDoNotMatter
    SearchKeepsLexical
\* Without hooks nothing happens once the records are written.
CHECK_DEADLOCK FALSE
