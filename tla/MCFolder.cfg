\* Two files in one folder, refused merges, failing and crashing runs.
SPECIFICATION Spec
CONSTANTS
    A = A  B = B  a1 = a1  a2 = a2  b1 = b1  i1 = i1  u = u  p = p  q = q
    Fence = Fence  Mark = Mark  Protect = Protect  NoFile = NoFile
    Regions <- MCRegions
    GenLines <- MCGenLines
    UserLines <- MCUserLines
    Generates <- MCGenerates
    Injections <- NoInjections
    Paths <- TwoPaths
    OptionSets <- FolderModes
    Environment <- AllEvents
    History = 1
    MaxRuns = 2
    MaxSaves = 2
    MaxEvents = 1
INVARIANTS
    TypeOK
    RefusedKeepsFileAndBase
    LandedIsRemembered
PROPERTIES
    KeepsItsPromise
CHECK_DEADLOCK FALSE
