\* Every mode over one file that File and Inject both save.
SPECIFICATION Spec
CONSTANTS
    A = A  B = B  a1 = a1  a2 = a2  b1 = b1  i1 = i1  u = u  p = p  q = q
    Fence = Fence  Mark = Mark  Protect = Protect  NoFile = NoFile
    Regions <- MCRegions
    GenLines <- MCGenLines
    UserLines <- MCUserLines
    Generates <- MCFenced
    Injections <- OneInjection
    Paths <- OnePath
    OptionSets <- AllModes
    Environment <- EditsOnly
    History = 2
    MaxRuns = 2
    MaxSaves = 2
    MaxEvents = 1
INVARIANTS
    PreservedOnceHoldsBefore
    ReportNamesEveryChange
PROPERTIES
    ProtectedUntouched
CHECK_DEADLOCK FALSE
