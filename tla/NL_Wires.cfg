SPECIFICATION Spec
CONSTANTS
    Base = {"a", "b", "c", "d", "e", "unconn"}
    LutInputs = 2
    Statements <- WireFile
    Options <- AllOptions
INVARIANTS RefsAgree SoundCircuitsSurvive
PROPERTIES SweepKeepsDrivers CompressKeepsConnections
CHECK_DEADLOCK FALSE
