\* Pools of three and of two chunks, a byte of three values, two threads,
\* a stack of two pages of two bytes that can grow to eight.
\* Nothing can be done after memory was misused: CHECK_DEADLOCK FALSE.
CONSTANTS
  ByteRange = 3
  UpperBytes = {0, 1}
  PoolId = {0, 1, 2}
  Null = Null
  Alignment = 1
  MaxObjectSize = 2
  PageSize = 4
  MinNumChunks = 2
  MaxNumChunks = 3
  MaxOwned = 4
  Thread = {t1, t2}
  MaxStrong = 2
  VmPageSize = 2
  InitialSize = 4
  DefaultAlignment = 2
  BlockSizes = {0, 1, 2, 3}
  BlockAlignments = {1, 2}
  MaxCapacity = 16
SPECIFICATION MCSpec
INVARIANTS
  MemoryTypeOK
  BlocksExact
  SafeUntilShrink
  StackIsBacked
  OwnedIsAlive
  CountsExactBetweenCalls
CHECK_DEADLOCK FALSE
