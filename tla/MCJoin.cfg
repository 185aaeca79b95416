CONSTANTS
  Trees <- MCTrees
  MaxLight = 4
  SectionSize = 2
  MinBits = 2
  MaxBits = 2
  DirectBits = 4
  WordBits = 9
  BlocksReports <- MCBlocksReports
  BlockEntityTypes <- MCBlockEntityTypes
  TransparentBlocks <- MCTransparentBlocks
  LightEmittingBlocks <- MCLightEmittingBlocks
  HashMapOrder <- MCHashMapOrder
  SchematicFiles <- MCSchematicFiles
  MalformedTexts <- MCMalformedTexts
  ResourceData <- MCResourceData
  FloatWords <- MCFloatWords
  IntegerWords <- MCIntegerWords
  ConfigurationFiles <- MCConfigurationFiles
  PlayersOf <- MCPlayersOf
SPECIFICATION Spec
INVARIANTS
  LightIsExact
  WorldIsShown
  LightArrives
  ChunksArriveNearestFirst
  EveryPacketIsSent
  IdsAgree
  RulesAreKept
  OfferedIsUnderstood
