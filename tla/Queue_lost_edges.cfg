SPECIFICATION QueueSpec
CONSTANTS
    Jobs = {1, 2}
    Kind <- PairKinds
    Edges <- PairEdges
    MaxAttempts = 5
    ReservationKeys = {}
    Peaks = {}
    Queues = {"q"}
    Planned = FALSE
    Request <- UnitRequest
    Capacity = 2
    MaxRounds = 10
    AbortAt = {"edges"}
    MaxAborts = 1
    WorkerMayFail = TRUE
    LaunchMayFail = FALSE
    MayReject = FALSE
    MayFreeze = FALSE
INVARIANTS
    PlanRespected
