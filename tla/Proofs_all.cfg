CONSTANTS
    p1 = p1
    p2 = p2
    None = None
    Absent = Absent
    Processes = {p1, p2}
    Configs <- MCConfigs
    Srs = {s1, s2}
    Ceremony = ceremony
    Provers = {p1, p2}
    Paths = {path}
    Backends <- MCBackends
    Witnesses <- MCWitnesses
    result <- MCresult
    Requests <- MCRequests
    VerifierProofs <- MCVerifierProofs
    MinFanIn = 2
    MaxFanIn = 16
    Edges <- MCEdges
    Expected <- MCExpected
    MaxPublic = 3
SPECIFICATION Spec
INVARIANTS
    KeysFit
    
    ReturnedIsGood
    PlanIsATree
    FrontierExact
    ManifestExact
    ManifestBindsProofs
SYMMETRY Symmetry
CHECK_DEADLOCK FALSE
