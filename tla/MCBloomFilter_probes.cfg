\* Arrays of 64, 96 and 104 bits, 1 or 30 probes; a word is 2^16 instead of 2^32.
SPECIFICATION Spec
CONSTANTS
  Keys <- ThreeKeys
  BitsPerKey = {1, 45}
  LowPart = 512
  HighPart = 128
  FNVHash <- Hashes
  MaxKeys = 2
INVARIANTS
  TypeOK
  NoFalseNegatives
  OnlyOwnBits
