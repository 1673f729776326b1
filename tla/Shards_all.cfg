CONSTANTS
    Programs <- MCPrograms
    Costs <- MCCosts
    ShardCosts <- MCShardCosts
    HintSets <- MCHintSets
    Target = 4
    MaxK = 3
    Values = {0, 1}
    Unbound = Unbound
    BindSetups <- MCBindSetups
    W = 6
    SCALE = 4
    None = None
    WitnessSetups <- MCWitnessSetups
SPECIFICATION Spec
INVARIANTS
    PlanSound
    LinkedMeansConsistent
    BindingSound
    BoundariesLink
    ArtifactsSound
    RelocationFaithful
PROPERTIES
    PlanningEnds
CHECK_DEADLOCK FALSE
