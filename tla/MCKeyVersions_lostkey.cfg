\* One key is written once, the other again and again.
SPECIFICATION Spec
CONSTANTS
  UserKeys <- TwoKeys
  Base = 8
  SeqDigits = 1
  WriteBufferSize = 2
  BlockEntries = 1
  TableCapacity = 2
  L0Trigger = 1
  MaxWrites = 7
INVARIANTS
  UnexposedReadLatest
CHECK_DEADLOCK FALSE
