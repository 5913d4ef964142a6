\* Two writes cut short or power failures among three whole records.
SPECIFICATION Spec
CONSTANTS
  Records <- SmallRecords
  Radix = 2
  MaxVarintBytes = 3
  MaxRecords = 3
  MaxCuts = 2
INVARIANTS
  RecoversIntactRecords
  ClosedIsDurable
