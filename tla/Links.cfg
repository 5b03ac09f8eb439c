SPECIFICATION LinksSpec
CONSTANTS
    Users = {u1, u2}
    None = None
    IdSpace = 4
    MaxConcurrency = 0
    MaxConnection = 3
    MaxBytes = 1
    MaxFrames = 1
    Events = {}
    MaxConns = 5
    Ends = {"a", "b"}
    Writes <- Three
    Closers = {}
    Late = {}
    Updaters = {"ping", "data"}
    SendBuffer = 1
    RecvWindow = 2
    RemoteNext0 = 1
    InFlight = 1
    Magic = 1
    MaxNet = 2
SYMMETRY Symmetric
INVARIANTS
    
    ClosedWorkerHasNoSession
    AcksTrue
    WrittenHasFlusher
    NoStaleEntry
CHECK_DEADLOCK FALSE
