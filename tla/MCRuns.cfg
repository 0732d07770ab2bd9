\* Generates and Checks of one instance.
SPECIFICATION Spec
CONSTANTS
    r1 = r1  r2 = r2
    Runs = {r1, r2}
    Scenarios <- MCScenarios
    Injected <- MCInjected
    Root <- MCRoot
    Meta <- MCMeta
    Undeclared = "silent"
    DefaultMode = "0644"
    MemMode = "0666"
    EmptyDir = "empty"
    DLogMax = 2
    MaxTemplates = 2
    MaxTokens = 2
    Unsupported <- MCUnsupported
INVARIANTS
    TypeOK
    AnswersAreComputed
    BufferHoldsTheLast
    WarningsAreOwn
    OwnVolumeHoldsItsRun
    CheckForetellsGenerate
PROPERTIES
    CheckChangesNothing
CHECK_DEADLOCK FALSE
