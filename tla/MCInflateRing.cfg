SPECIFICATION FairSpec
CONSTANTS
  BatchCount = 2
  BatchSize = 3
  PrefetchSize = 32
  ChunkSize = 8
  LiteralBits = {8}
  LengthBits = {8}
  DistanceBits = {16}
  ShortBits = {8}
  HeaderBits = {3}
  StoredBytes = {0}
  InputEnd = 28
  MaxBlocks = 2
VIEW UpToCount
INVARIANTS TypeOK InputInOrder OutputInOrder BlockIsComplete
PROPERTIES BlocksEnd
