CONSTANTS
    WatExamples <- MCExamples
    Compiles <- MCCompiles
    Boxes <- MCBoxes
    Checked <- NoBoxes
    Wait = 3
    MaxLate = 1
    WasmExamples <- MCWasmExamples
    Files = {"f", "g"}
    OptionBoxes <- MCOptions
    FEATURES <- MCFeatures
    Default <- MCDefault
    Inputs <- Whole
    MaxAddr = 16
    MaxModules = 2
    MaxLost = 1
    Clients = {"wat2wasm", "wasm2wat", "any"}
    Pages = {"wat2wasm", "wasm2wat", "libwabt"}
SPECIFICATION JavaScriptSpec
INVARIANTS
    TimersRemembered
    DownloadOffersBuild
    EditorFollowsFile
    ObjectsLiveWhenUsed
    NothingLost
    FeaturesAsAsked
    PageHoldsNothing
PROPERTIES
    OutputFollowsText
    LogFollowsScript
    UploadDisplayed
    ModulesUndisturbed
