SPECIFICATION Spec
CONSTANTS
    Docs = {"a", "b"}
    Title <- MCTitle
    Names = {"Levels", "Blur"}
    MaxStates = 3
    MaxSteps = 2
    MaxEdits = 4
    MaxOthers = 1
INVARIANTS SequenceInv
PROPERTIES RollbackIsTrue UndoesOnlyItsOwn
CHECK_DEADLOCK FALSE
