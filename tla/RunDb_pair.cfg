SPECIFICATION PairSpec
CONSTANTS
    Jobs = {1, 2, 3, 4}
    Kind <- PairKinds
    Edges <- PairEdges
    MaxAttempts = 4
    ReservationKeys = {"key"}
    Peaks = {1}
INVARIANTS
    TypeOK
    AttemptDiscipline
    VerifiedByLatestAttempt
    BlockedHasCause
    RetryAccounting
PROPERTIES
    DbKeepsPromise
