\* One file under merge over two runs, line by line.
CONSTANTS
    Names = {lineA, lineB}
    WholeLines = 3
    OpenLines = 2
    RegenLines = 1
    MaxRuns = 2
    Texts <- MCTexts
    Regens <- MCRegens
SPECIFICATION Spec
CHECK_DEADLOCK FALSE
INVARIANTS
    NoGluedLines
    OneRunOfMarks
    FastPathsAgree
    LongestAnchors
PROPERTIES
    AdditionsKept
    SettledFileStays
    DiffShowsBoth
