SPECIFICATION StreamsSpec
CONSTANTS
    Writers = {"w1", "w2"}
    Readers = {"r1", "r2"}
    limit = 1
    discardOverflow = TRUE
    MaxWrites = 3
    MaxSize = 2
    None = None
    Posts <- FourPosts
    MaxSessions = 1
    PayloadLen = 2
    maxPackets = 1
    WorkerQuits = TRUE
    Timers = FALSE
    Msgs = {"m1", "m2"}
    Subs = {"s1", "s2"}
    blocking = TRUE
    bufferSize = 1
    subsLimit = 0
INVARIANTS
    NobodyStranded
    
    ReadInOrder
    
    
PROPERTY ImplementsStream
CHECK_DEADLOCK FALSE
