CONSTANTS
  Byte = {0, 1}
  GEAR <- SmallGear
  Width = 2
  HardBits = {0, 1}
  EasyBits = {1}
  MinSize = 1
  AvgSize = 3
  MaxSize = 5
  ReadSize = 5
  MaxLen = 10
SPECIFICATION FairSpec
INVARIANTS ChunkerTypeOK Lossless ContentDefined
PROPERTY StreamEnds
CHECK_DEADLOCK FALSE
