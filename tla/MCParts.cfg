SPECIFICATION PartsSpec
CONSTANTS
  Bits = 8
  IntBits = 8
  Ids <- MCIds
  Coordinates <- MCCoordinates
  Indices = {0, 9, 50, 99, 2500}
  Numbers = {0, 99, 255}
  Foreign <- MCForeign
  LineLimit = 4
  MaxSamples = 3
  SampleLimit = 5
  Figures = {0, 2}
  Width = 60
  Height = 60
  PublishLimit = 3
CHECK_DEADLOCK FALSE
INVARIANTS
  TypeOK
  WritersAreUnderstood
  ParserReadsTheLine
  SeriesIsRecent
  LinesFillPlot
  AtMostOnceInOrder
PROPERTIES
  BridgeEnds
