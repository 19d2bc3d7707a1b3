CONSTANTS
    WatExamples <- MCExamples
    Compiles <- MCCompiles
    Boxes <- MCBoxes
    Checked <- NoBoxes
    Wait = 3
    MaxLate = 1
    WasmExamples <- MCWasmExamples
    Files = {"f", "g"}
    OptionBoxes <- MCOptions
    FEATURES <- MCFeatures
    Default <- MCDefault
    Inputs <- Views
    MaxAddr = 16
    MaxModules = 2
    MaxLost = 1
    Clients = {"any"}
    Pages = {"libwabt"}
SPECIFICATION JavaScriptSpec
INVARIANT BufferHoldsInput
