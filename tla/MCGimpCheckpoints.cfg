SPECIFICATION Spec
CONSTANTS
    c1 = c1
    c2 = c2
    Calls = {c1, c2}
    Ids = {1, 2, 3, 4}
    MaxPerImage = 1
    MaxTotal = 2
    MaxImages = 2
    MaxDocs = 2
    MaxTroubles = 2
SYMMETRY Symmetric
INVARIANTS CheckpointInv
PROPERTIES NoStrangerClosed AnswersAreLive
CHECK_DEADLOCK FALSE
