CONSTANTS
  NumBlocks = 6
  BlockType <- MidTypes
  Macros <- MidMacros
  Width = 5
  Height = 5
  TileType <- MidTiles
  Capacity <- MidCapacity
  IOTypes <- PadType
  PadLoc = "free"
  Nets <- MidNets
  Pins <- MidPins
  BlockPins <- MidBlockPins
  GlobalNets = {"clk"}
  SMALL_NET = 4
  Criticalities <- MidCriticalities
SPECIFICATION CostSpec
INVARIANT TypeOK
INVARIANT SitesDistinct
INVARIANT OnLegalSites
INVARIANT GridAgrees
INVARIANT CostsExact
PROPERTY EndsWell
PROPERTY ExchangeSpec
CHECK_DEADLOCK FALSE
