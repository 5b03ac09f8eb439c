SPECIFICATION LiveSpec
CONSTANTS
    Writers = {"w1", "w2"}
    Readers = {"r1"}
    limit = 0
    discardOverflow = FALSE
    MaxWrites = 3
    MaxSize = 1
    None = None
PROPERTIES
    PipeMoves
    UploadArrives
    
CHECK_DEADLOCK FALSE
