\* Two crashes, one clean close, one failing file operation and one log that
\* fails to open.
SPECIFICATION Spec
CONSTANTS
  Keys = {k1, k2, k3, k4, k5}
  Torn = torn
  WriteBufferSize = 1
  L0Trigger = 2
  MaxCrashes = 2
  MaxCloses = 1
  MaxIOFailures = 1
  MaxWalFailures = 1
  MaxNumber = 12
SYMMETRY KeySymmetry
INVARIANTS
  TypeOK
  QuietIsDurable
  AtMostOneMemtableAtRisk
  LevelsMatchFiles
PROPERTIES
  CloseKeepsAll
