SPECIFICATION Spec
CONSTANTS
    Ports <- PortsTwo
    Holdings <- HoldingsTwo
    Failings <- FailingsTwo
    MaxOpen = 2
\* The process ends.
CHECK_DEADLOCK FALSE
INVARIANTS TypeOK 
PROPERTIES KeepsPromise ConflictEnds Stops
