\* 3 slots, 4 generations: every slot may be destroyed three times.
CONSTANTS
  ThEntityNull = 3
  GenerationCount = 4
  MaxGeneration = 3
SPECIFICATION Spec
INVARIANTS
  TypeOK
  AliveIsExact
  LiveIndicesDistinct
  AliveCountExact
  FreeListExact
PROPERTY ImplementsHandles
