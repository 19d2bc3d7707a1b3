CONSTANTS
    FuncTypes <- MCFuncTypes
    Opcodes <- MCOpcodes
    PushedTypes <- MCPushed
    SelectTypes <- Typed
    EventTypes <- Nothing
    LaneOps <- Nothing
    ReferenceTypes = FALSE
    MaxDepth = 2
    MaxTypes = 4
    MaxLabels = 3
    Units <- SelectUnits
SPECIFICATION MachineSpec
INVARIANTS OperandsAsExpected
CHECK_DEADLOCK FALSE
