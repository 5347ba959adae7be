\* Three event ids, up to four events; the buffers grow on the second event,
\* the items of the hash map on the third id.
CONSTANTS
  EventId = {e1, e2, e3}
  ItemsGrowth = 2
  ReservedEvents = 2
  MaxEmitted = 4
  MaxSlots = 2
SYMMETRY Symmetry
SPECIFICATION Spec
INVARIANTS
  TypeOK
  BatchInOrder
  NothingLost
PROPERTIES
  BatchIsStable
