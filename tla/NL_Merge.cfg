SPECIFICATION Spec
CONSTANTS
    Base = {"a", "b", "c", "d", "e"}
    LutInputs = 2
    Statements <- MergeFile
    Options <- Default
INVARIANTS MergeKeepsSinks
CHECK_DEADLOCK FALSE
