\* Three insertions beside one reader; a value fits into the current block, or
\* gets a block of its own.
SPECIFICATION Spec
CONSTANTS
  BlockSize = 32
  Align = 4
  Keys = {1, 2, 3}
  Nil = 4
  Readers = {r1}
  MaxHeight = 2
  NodeSize = 4
  PointerSize = 4
  KeySize = 3
  ValueSizes = {0, 14}
INVARIANTS
  TypeOK
  MemorySound
  LevelsAreLists
  SearchFindsLeast
  IteratorYieldsAll
PROPERTIES
  ImplementsSet
