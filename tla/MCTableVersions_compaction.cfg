\* Compactions into a filled levels_[1], and a failing log append, flush or merge.
SPECIFICATION Spec
CONSTANTS
  Keys = {1, 2, 3, 4}
  Writers = {w1}
  Readers = {r1}
  Bg = bg
  Compactors = {}
  Closers = {}
  WriteBufferSize = 1
  L0Trigger = 1
  TableCapacity = 2
  MaxIOFailures = 1
  MaxFileNumber = 10
INVARIANTS
  TypeOK
  RefsExact
  AckedFound
  SearchedByAge
  Level1Disjoint
  FilesMatchTables
PROPERTIES
  ImplementsStore
