CONSTANTS
    FuncTypes <- MCFuncTypes
    Opcodes <- MCOpcodes
    LaneOps <- NoLaneOps
    PushedTypes <- MCPushedTypes
    SelectTypes <- Untyped
    EventTypes <- MCEventTypes
    ReferenceTypes = FALSE
    MaxDepth = 2
    MaxTypes = 3
    MaxLabels = 3
SPECIFICATION Spec
INVARIANTS TypeOK LabelsNested FuncLabelAtBottom NoUnknownWhenReachable DeadCodeAcceptsMore MessagesAreErrors
PROPERTY FramesPreserved
CHECK_DEADLOCK FALSE
