SPECIFICATION LiveSpec
CONSTANTS
    Users = {"u1"}
    Nil = Nil
    Ends = {"a", "b"}
    Writes <- NoWrites
    Closers = {"a"}
    Late = {"terminating", "peer", "ready"}
    Updaters = {"ping"}
    SendBuffer = 1
    RecvWindow = 2
    RemoteNext0 = 1
    InFlight = 1
    Magic = 1
    MaxNet = 1
PROPERTIES
    
    BothEnds
CHECK_DEADLOCK FALSE
