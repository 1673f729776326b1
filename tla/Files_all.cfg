CONSTANTS
    Publishers = {"p", "q"}
    Objects = {"x", "y"}
    StoreSetups <- MCStoreSetups
    Writers = {w1, w2, w3}
    NoFile = NoFile
    Attempts = {1, 2}
    JobFields <- PlainFields
    Placements <- AnyPlacements
    Peaks <- PeakDigits
    Backend = TRUE
    MayDie = TRUE
    Arguments <- MCArguments
    MaxArgs = 3
    Gib = 4
    MaxU64 = 15
    Defaults <- MCDefaults
SPECIFICATION Spec
INVARIANTS
    StoreSound
    ArtifactsWhole
    MessagesKept
    ConfigAsAsked
PROPERTIES
    StoreKeepsPromise
CHECK_DEADLOCK FALSE
