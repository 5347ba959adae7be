CONSTANTS
  Entity <- MCEntity
  Data <- MCData
  HashInt32 <- MCHashInt32
  ZeroEntry <- MCZeroEntry
  Capacity = 2
  ThEntitySparseNull = 65535
  NoData = NoData
  Nobody = Nobody
  Versions = {1, 2}
  MaxPages = 2
SPECIFICATION Spec
PROPERTY SetThenGet
