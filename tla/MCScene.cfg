CONSTANTS
  ThEntityNull = 2
  GenerationCount = 2
  MaxGeneration = 1
  Data <- MCData
  Capacity = 2
  HashInt32 <- MCHashInt32
  ThEntitySparseNull = 65535
  ZeroEntry <- MCZeroEntry
  ComponentId = {c1, c2}
  NoStorage = NoStorage
  Nobody = Nobody
  MaxPages = 2
SYMMETRY Symmetry
SPECIFICATION Spec
INVARIANTS
  TypeOK
  NoInheritedComponent
PROPERTIES
  FreshEntityIsBare
  RegistrationKeepsComponents
