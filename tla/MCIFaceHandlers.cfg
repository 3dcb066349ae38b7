CONSTANTS
  AddressBits = 3
  ByteBits = 8
  ProtocolBytes = 3
  TosBytes = 1
  MaxLength = 3
  One = 2
  Names = {Name}
  RawProbs = {1}
  RawInts = {6, 24}
  RawFilters <- MCFilters
  RawPoints <- MCPoints
  RawTables <- MCTables
  Lengths = {2}
  PacketInfos <- MCPackets
  MaxChains = 2
  MaxStates = 2
  MaxEdits = 4
  Unset = Unset
SPECIFICATION Spec
INVARIANTS
  SquareTables
  LastsWithinData
  PointsAreOwned
  PassesWhatWasAsked
PROPERTIES
  WholeOrNothing
  CopyKeepsMeaning
CHECK_DEADLOCK FALSE
