\* Two versions of a key, in whatever memtables and tables.
SPECIFICATION Spec
CONSTANTS
  UserKeys <- TwoKeys
  Base = 8
  SeqDigits = 1
  WriteBufferSize = 2
  BlockEntries = 1
  TableCapacity = 2
  L0Trigger = 1
  MaxWrites = 4
INVARIANTS
  IteratorYieldsKeysOnce
CHECK_DEADLOCK FALSE
