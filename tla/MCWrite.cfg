\* A provider with WriteFileExcl, and one that can only be asked.
SPECIFICATION FairSpec
CONSTANTS
    w1 = w1  w2 = w2  n1 = n1  n2 = n2  n3 = n3
    Nothing = Nothing  Foreign = Foreign
    Writers <- TwoWriters
    Names <- ThreeNames
    NamesOf <- MCNamesOf
    Exclusive <- OneExclusive
    Attempts = 2
    Faults <- AllFaults
    MaxDeaths = 1
    MaxForeign = 1
INVARIANTS
    TypeOK
    LitterIsWarned
PROPERTIES
    WritesAtomically
    ForeignKept
    EveryWriteEnds
CHECK_DEADLOCK FALSE
