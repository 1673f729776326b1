SPECIFICATION FairQueueSpec
CONSTANTS
    Jobs = {1, 2, 3}
    Kind <- ChainKinds
    Edges <- ChainEdges
    MaxAttempts = 5
    ReservationKeys = {}
    Peaks = {}
    Queues = {"q"}
    Planned = FALSE
    Request <- UnitRequest
    Capacity = 1
    MaxRounds = 10
    AbortAt <- SafeAborts
    MaxAborts = 2
    WorkerMayFail = TRUE
    LaunchMayFail = TRUE
    MayReject = FALSE
    MayFreeze = FALSE
PROPERTIES
    EventuallySettled
    FailurePropagates
