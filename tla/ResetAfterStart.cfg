SPECIFICATION ToolsSpec
CONSTANTS
    Names <- MCNames
    Fields <- MCFields
    Sigs <- MCSigs
    NullarySig = "v"
    Spectest = "spectest"
    ScriptNames = {"M"}
    HostField = "f"
    TableField = "t"
    Setups <- TrappingStart
    MaxTableSize = 1
    MaxItems = 1
    MaxRegistered = 2
    MaxLoads = 2
INVARIANT TableEntriesLive
