SPECIFICATION GSpec
CONSTANTS
    Model <- MCModel
    SlotNames <- MCSlotNames
    MaxCopyDepth <- MCMaxCopyDepth
    Ignored <- MCIgnored
    Programs <- MCPrograms
INVARIANTS
    TypeOK
    VisitedIsTheWay
    PassesLeaveNoTrace
    OneFilePerPath
PROPERTIES
    FollowsPlan
    EveryRunEnds
CHECK_DEADLOCK FALSE
