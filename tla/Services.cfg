SPECIFICATION ServicesSpec
CONSTANTS
    \* case "select"
    Handlers = {"h1", "h2", "h3", "h4"}
    TagOf <- TagTable
    Tags = {"a", "b"}
    Untagged = ""
    Selectors = {"sab"}
    Match <- Prefixes
    Callers = {c1, c2}
    None = None
    \* case "core": up to three apps that each want up to two of three features
    Types = {"dns", "router", "observatory"}
    Essential = {"dns"}
    MaxDeps = 2
    MaxErrors = 1
    NoOne = NoOne
    \* case "load": all observations of three outbounds, with and without baselines
    Outbounds = {1, 2, 3}
    Costs = {1, 2}
    Delays = {1, 2}
    Lines = {2, 3}
    MaxLines = 2
    Counts = {0, 2}
    MaxRTTs = {0, 2}
    \* case "ping": two rounds that overlap on one outbound, three samples kept
    Pinged = {"t1"}
    Rounds = {"c1", "c2"}
    SamplingCount = 3
    Values = {"ok"}
    rttFailed = "failed"
    \* cases "shared" and "apart"
    Queries = {"q1", "q2"}
    Domain <- OneDomain
    Families <- FourAndBoth
    Answers = {"empty"}
    IdSpace = 8
    MaxReqs = 4
    \* case "pool": caches of every size up to the one that is refused
    LookedUp = {"d1", "d2", "d3", "d4"}
    rooms = 2
    LruSizes = {1, 2, 3, 4}
    \* case "users"
    Service = {"g1", "g2", "g3"}
    Users <- Accounts
    MaxCalls = 5
SYMMETRY CallerSymmetry
INVARIANTS
    OutboundsServe
    CallbacksRun
    SelectsAsDocumented
    
    AnswerWakes
    
    PoolConsistent
    MapsAgree
CHECK_DEADLOCK FALSE
