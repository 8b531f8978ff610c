SPECIFICATION FairSpec
CONSTANTS
  UniDirectional = FALSE
  Fs = 6
  FixedWidth <- NoFixedWidth
  StartWidths <- AllStarts
  UsingHint = TRUE
  Verify = TRUE
  WidthLimit = 18
INVARIANTS TypeOK BestIsBound OneOwner VerifiedTwoBelow
PROPERTIES Terminates FinalOnlyShrinks
CHECK_DEADLOCK FALSE
