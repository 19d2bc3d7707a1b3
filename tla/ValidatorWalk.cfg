CONSTANTS
    FuncTypes <- MCFuncTypes
    Opcodes <- MCOpcodes
    LaneOps <- MCLaneOps
    PushedTypes <- MCPushedTypes
    SelectTypes <- MCSelectTypes
    EventTypes <- MCEventTypes
    ReferenceTypes = TRUE
    MaxDepth = 1
    MaxTypes = 3
    MaxLabels = 3
SPECIFICATION WalkSpec
INVARIANTS ErrorsAreReported LabelsCoverNesting LabelsMirrorNesting
CHECK_DEADLOCK FALSE
