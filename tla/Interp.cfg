CONSTANTS
    FuncTypes <- MCFuncTypes
    Opcodes <- MCOpcodes
    PushedTypes <- MCPushed
    SelectTypes <- Untyped
    EventTypes <- Nothing
    LaneOps <- Nothing
    ReferenceTypes = FALSE
    MaxDepth = 2
    MaxTypes = 4
    MaxLabels = 3
    Units <- MCUnits
SPECIFICATION MachineSpec
INVARIANTS LabelStacksInStep BranchFixupsExact CallFixupsExact
           StackAsTypeChecked LocalsFound OperandsAsExpected
PROPERTIES CallersUndisturbed ReturnsDeclaredResults
CHECK_DEADLOCK FALSE
