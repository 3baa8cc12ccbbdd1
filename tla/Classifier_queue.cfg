\* One worker, two records; no backend can judge the older one.
SPECIFICATION FairSpec
CONSTANTS
    r1 = r1
    r2 = r2
    b1 = b1
    b2 = b2
    Records = {r1, r2}
    Age <- OlderFirst
    Paired = {r2}
    Kinds = {k1}
    None = None
    Workers = {w1}
    People = {h1}
    Backends <- TwoBackends
    Dead = {}
    Poisoned = {r1}
    Limit = 2
    MayOverlap = FALSE
    MaxRetags = 1
    MaxErrors = 1
    MaxCrashes = 1
PROPERTIES HealthyIsJudged
