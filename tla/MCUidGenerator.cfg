\* Two threads with three calls each; the sequence is used up by the second uid.
CONSTANTS
  Thread = {t1, t2}
  SequenceCount = 2
  TimestampUnit = 2
  MaxCalls = 3
  LastCall = 1
  MaxSetback = 1
SPECIFICATION Spec
INVARIANTS
  TypeOK
  UniqueUntilRace
  LastIsNewestUntilRace
  FailsOnlyAfterSetback
CHECK_DEADLOCK FALSE
