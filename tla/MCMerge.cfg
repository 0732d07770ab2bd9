\* Merge runs over one file, whatever happens in between.
SPECIFICATION Spec
CONSTANTS
    A = A  B = B  a1 = a1  a2 = a2  b1 = b1  i1 = i1  u = u  p = p  q = q
    Fence = Fence  Mark = Mark  Protect = Protect  NoFile = NoFile
    Regions <- MCRegions
    GenLines <- MCGenLines
    UserLines <- MCUserLines
    Generates <- MCGenerates
    Injections <- NoInjections
    Paths <- OnePath
    OptionSets <- MergeModes
    Environment <- AllEvents
    History = 2
    MaxRuns = 3
    MaxSaves = 1
    MaxEvents = 3
INVARIANTS
    MergeInv
    BaseNeverAhead
    UnresolvedLeftAlone
    NoStaleLines
    BaseFollowsReport
PROPERTIES
    MergeKeepsUserLines
CHECK_DEADLOCK FALSE
