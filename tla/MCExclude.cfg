\* Edits, failed runs and the stamp.
SPECIFICATION Spec
CONSTANTS
    f1 = f1  f2 = f2  g1 = g1  g2 = g2
    UserText = UserText  None = None
    Outputs <- TwoOutputs
    Copied <- OneCopied
    Generates <- TwoGenerates
    MaxTime = 4
    MaxRuns = 3
PROPERTIES
    EditsKept
    OwnOutputTaken
