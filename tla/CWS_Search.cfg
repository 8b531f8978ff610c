SPECIFICATION Spec
CONSTANTS
  UniDirectional = TRUE
  Fs = 3
  FixedWidth <- NoFixedWidth
  StartWidths <- EvenStarts
  UsingHint = TRUE
  Verify = FALSE
  WidthLimit = 60
INVARIANTS Bracketed SearchIsTight ReturnedConsistent
CHECK_DEADLOCK FALSE
