SPECIFICATION Spec
CONSTANTS
    Base = {"a", "b", "c", "d", "e"}
    LutInputs = 2
    Statements <- PadFile
    Options <- Default
INVARIANTS OutputNamesKept
CHECK_DEADLOCK FALSE
