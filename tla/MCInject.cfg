\* File and Inject at one path, under merge, with a user's edit.
SPECIFICATION Spec
CONSTANTS
    A = A  B = B  a1 = a1  a2 = a2  b1 = b1  i1 = i1  u = u  p = p  q = q
    Fence = Fence  Mark = Mark  Protect = Protect  NoFile = NoFile
    Regions <- MCRegions
    GenLines <- MCGenLines
    UserLines <- MCUserLines
    Generates <- MCFenced
    Injections <- OneInjection
    Paths <- OnePath
    OptionSets <- OnlyMerge
    Environment <- EditsOnly
    History = 2
    MaxRuns = 3
    MaxSaves = 2
    MaxEvents = 1
PROPERTIES
    MergeKeepsUserLines
CHECK_DEADLOCK FALSE
