SPECIFICATION MSpec
CONSTANTS
  s1 = s1
  s2 = s2
  s3 = s3
  Slot = {s1, s2, s3}
  MaxInstalls = 2
  MaxInputs = 2
  MaxOpens = 3
  MaxFaults = 1
INVARIANTS MTypeOK MemoryMatchesFile UncutReopens OutputListed
PROPERTIES Recovers
