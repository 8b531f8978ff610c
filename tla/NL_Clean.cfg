SPECIFICATION Spec
CONSTANTS
    Base = {"a", "b", "c", "d"}
    LutInputs = 2
    Statements <- CleanFile
    Options <- Default
INVARIANTS TypeOK RefsAgree CleanIndices SoundCircuitsSurvive NothingDangles ClocksOnlyClock InputNamesKept
PROPERTIES AbsorbKeepsLogic
CHECK_DEADLOCK FALSE
