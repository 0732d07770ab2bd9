\* A replace map whose only key is empty.
SPECIFICATION Spec
CONSTANTS
    r1 = r1  r2 = r2
    Runs = {r1, r2}
    Scenarios <- EmptyKeys
    Injected <- MCInjected
    Root <- MCRoot
    Meta <- MCMeta
    Undeclared = "silent"
    DefaultMode = "0644"
    MemMode = "0666"
    EmptyDir = "empty"
    DLogMax = 2
    MaxTemplates = 2
    MaxTokens = 2
    Unsupported <- MCUnsupported
INVARIANTS
    AnswersAreComputed
CHECK_DEADLOCK FALSE
