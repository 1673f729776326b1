CONSTANTS
    Jobs = {1, 2, 3}
    Static <- MCStatic
    Host <- MCHost
    Capacity <- MCCapacity
    Aging = 1
    Scale = 100
    MaxRam = 3
    Peaks = {2}
    Pids = {1, 2}
    Attempts = {1, 2}
    Sizes = {1, 3}
    Admission = 2
    HardLimit = 4
    BreachSamples = 3
    GracePolls = 1
SPECIFICATION Spec
INVARIANTS
    
    SamplesSound

    
    
CHECK_DEADLOCK FALSE
