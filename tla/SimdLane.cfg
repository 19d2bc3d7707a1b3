CONSTANTS
    FuncTypes <- MCFuncTypes
    Opcodes <- MCOpcodes
    LaneOps <- MCLaneOps
    PushedTypes <- LanePushedTypes
    SelectTypes <- Untyped
    EventTypes <- MCEventTypes
    ReferenceTypes = FALSE
    MaxDepth = 2
    MaxTypes = 3
    MaxLabels = 3
SPECIFICATION Spec
INVARIANT MessagesAreErrors
CHECK_DEADLOCK FALSE
