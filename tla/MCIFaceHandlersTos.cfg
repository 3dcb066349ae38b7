CONSTANTS
  AddressBits = 3
  ByteBits = 8
  ProtocolBytes = 3
  TosBytes = 1
  MaxLength = 3
  One = 2
  Names = {Name}
  RawProbs = {1}
  RawInts = {6, 24}
  RawFilters <- MCFilters
  RawPoints <- MCPoints
  RawTables <- MCTables
  Lengths = {2}
  PacketInfos <- MCPackets
  MaxChains = 2
  MaxStates = 2
  MaxEdits = 3
  Unset = Unset
SPECIFICATION Spec
INVARIANT NoTosNoPacket
CHECK_DEADLOCK FALSE
