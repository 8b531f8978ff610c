SPECIFICATION Spec
CONSTANTS
  Circuits <- MCCircuits
  Undriven = "none"
  UndrivenValue <- Unknown
  InputValues = {0, 1}
  NumVectors = 3
  WaveLength = 4
INVARIANTS
  TypeOK
  ThreadsApart
PROPERTIES
  SimulatesCircuit
