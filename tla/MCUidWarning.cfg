\* One thread, a sequence of two bits: the warning before the sequence is used up.
CONSTANTS
  Thread = {t1}
  SequenceCount = 4
  TimestampUnit = 4
  MaxCalls = 3
  LastCall = 1
  MaxSetback = 0
SPECIFICATION Spec
PROPERTY WarnsOnlyWhenExhausted
CHECK_DEADLOCK FALSE
