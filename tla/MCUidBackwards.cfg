\* Two threads, and a system time that is never set back.
CONSTANTS
  Thread = {t1, t2}
  SequenceCount = 4
  TimestampUnit = 4
  MaxCalls = 2
  LastCall = 1
  MaxSetback = 0
SPECIFICATION Spec
INVARIANT FailsOnlyBackwards
CHECK_DEADLOCK FALSE
