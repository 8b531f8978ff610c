SPECIFICATION Spec
CONSTANTS
  Atom = {"l1", "f1", "l2", "c1", "c2", "o"}
  Molecule <- MCMolecule
  AtomsOf <- MCAtomsOf
  Root <- MCRoot
  Sites <- MCSites
  ChainStarts <- MCChainStarts
  Type = {"clb", "io"}
  Candidates <- MCCandidates
  Pb <- MCPb
  Above <- MCAbove
  ModeOf <- MCModeOf
  Kind <- MCKind
  NumModes <- MCNumModes
  Congested = {"clb", "io"}
  AllowUnrelated = TRUE
INVARIANTS
  PrimitivesTracked
  NothingLeftBehind
PROPERTY
  PacksEveryAtom
