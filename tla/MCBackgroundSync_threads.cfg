\* Two writers, two CompactRange callers, the background thread and ~DB.
SPECIFICATION FairSpec
CONSTANTS
  Writers = {w1, w2}
  Compactors = {c1, c2}
  Bg = bg
  Closer = closer
  WriteBufferSize = 1
  L0Trigger = 2
  MaxRecovered = 2
  MaxIOFailures = 2
  MaxWalFailures = 1
INVARIANTS
  TypeOK
  FlushIsExclusive
  NoLostWakeup
  ProtocolInv
PROPERTIES
  NotifyOneReachesBg
  ImmDrains
  StalledWriterReturns
  CloseReturns
