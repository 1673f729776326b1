SPECIFICATION BindSpec
CONSTANTS
    Unbound = Unbound
    BindSetups <- MCBindSetups
INVARIANTS
    BoundTemplateAccepted
CHECK_DEADLOCK FALSE
