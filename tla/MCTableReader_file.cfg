\* Files of up to three blocks of two or three records, two failing writes, two
\* readers.
SPECIFICATION Spec
CONSTANTS
  Keys = {1, 2, 3, 4, 5}
  BlockRecords = {2, 3}
  RestartInterval = 2
  Handles <- ValuesAsHandles
  MaxFailures = 2
  Readers = {r1, r2}
SYMMETRY ReaderSymmetry
CHECK_DEADLOCK FALSE
INVARIANTS
  OneFailureIsNoticed
  ReadsOwnBlock
  GetNeverLies
  IteratorFollows
