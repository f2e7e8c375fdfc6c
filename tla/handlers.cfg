SPECIFICATION FairSpec
CONSTANTS
    Requests = {"r1", "r2"}
    FileSize = 2
    Buffer = 1
    Loads <- MCLoads
INVARIANTS TypeOK OneService KnownLengthDelivered StatusTells
PROPERTIES DeletedOnlyHandedOver AllAnswered
CHECK_DEADLOCK FALSE
