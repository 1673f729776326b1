SPECIFICATION QueueSpec
CONSTANTS
    Jobs = {1, 2}
    Kind <- PairKinds
    Edges <- PairEdges
    MaxAttempts = 3
    ReservationKeys = {}
    Peaks = {}
    Queues = {q1, q2}
    Planned = TRUE
    Request <- UnitRequest
    Capacity = 2
    MaxRounds = 2
    AbortAt <- SafeAborts
    MaxAborts = 1
    WorkerMayFail = TRUE
    LaunchMayFail = TRUE
    MayReject = TRUE
    MayFreeze = TRUE
INVARIANTS
    QueueSafe
