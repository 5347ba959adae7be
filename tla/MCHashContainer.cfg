\* Four keys with colliding hashes, two values, four buckets at first.
CONSTANTS
  k1 = k1
  k2 = k2
  k3 = k3
  k4 = k4
  Key <- MCKey
  Hash <- MCHash
  Value = {v1, v2}
  NoValue = NoValue
  MinBuckets = 4
  Sizes = {1, 3, 4}
SPECIFICATION Spec
INVARIANTS
  TypeOK
  ChainsExact
PROPERTIES
  ReserveSuffices
  ImplementsMap
