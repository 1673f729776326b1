SPECIFICATION StatusSpec
CONSTANTS
    Jobs = {1, 2, 3}
    Kind <- BroadcastKinds
    Edges <- BroadcastEdges
    MaxAttempts = 5
    ReservationKeys = {}
    Peaks = {}
    Queues = {"q"}
    Planned = FALSE
    Request <- UnitRequest
    Capacity = 2
    MaxRounds = 4
    AbortAt <- SafeAborts
    MaxAborts = 2
    WorkerMayFail = TRUE
    LaunchMayFail = TRUE
    MayReject = FALSE
    MayFreeze = FALSE
INVARIANTS
    QueueSafe
    PredecessorsVerified
    ReturnsSettled
    StatusTruthful
PROPERTIES
    DriversUseTheDb
