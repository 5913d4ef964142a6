\* A crash at any moment, no failing I/O.
SPECIFICATION Spec
CONSTANTS
  Keys = {k1, k2, k3}
  Torn = torn
  WriteBufferSize = 1
  L0Trigger = 2
  MaxCrashes = 1
  MaxCloses = 0
  MaxIOFailures = 0
  MaxWalFailures = 0
  MaxNumber = 6
INVARIANTS
  AckedSurvivesCrash
