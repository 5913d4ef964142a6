\* Memtables and tables of two records, compactions into a filled levels_[1]; no
\* sequence number wraps.
SPECIFICATION Spec
CONSTANTS
  UserKeys <- PlainKeys
  Base = 8
  SeqDigits = 1
  WriteBufferSize = 2
  BlockEntries = 1
  TableCapacity = 2
  L0Trigger = 1
  MaxWrites = 6
INVARIANTS
  GetsLatestUnlessExposed
  IteratorMissesNoKey
  SeekSkipsWhatIsBelow
CHECK_DEADLOCK FALSE
