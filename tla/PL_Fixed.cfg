CONSTANTS
  NumBlocks = 4
  BlockType <- PadTypes
  Macros <- PadMacros
  Width = 3
  Height = 4
  TileType <- PadTiles
  Capacity <- PadCapacity
  IOTypes <- PadType
  PadLoc = "random"
SPECIFICATION Spec
INVARIANT FixedNeverMove
CHECK_DEADLOCK FALSE
