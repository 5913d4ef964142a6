\* CompactRange and ~DB flush beside the background thread; iterators outlive the
\* DB. levels_[0] stays below the compaction trigger.
SPECIFICATION Spec
CONSTANTS
  Keys = {1, 2, 3, 4}
  Writers = {w1, w2}
  Readers = {r1}
  Bg = bg
  Compactors = {c1}
  Closers = {closer}
  WriteBufferSize = 1
  L0Trigger = 9
  TableCapacity = 1
  MaxIOFailures = 1
  MaxFileNumber = 9
SYMMETRY ThreadSymmetry
INVARIANTS
  RefsExact
  NoUseAfterFree
