CONSTANTS
    W = 4
    SCALE = 5
    P = 193
    RemainderBits = 3
    LimbBits = 2
    K = 2
    Table <- MCTable
    InputCells <- MCInputCells
    Chips = {"softmax", "layer_norm", "rms_norm"}
    Width = 2
    Inputs <- MCInputs
    Weights <- MCWeights
    Epsilon = 1
    EpsilonCells = {1, 3}
    Exp <- MCExp
    Rsqrt <- MCRsqrt
SPECIFICATION Spec
INVARIANTS
    Complete
    
    
CHECK_DEADLOCK FALSE
