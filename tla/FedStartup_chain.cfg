SPECIFICATION FairSpec
CONSTANTS
  s1 = s1
  s2 = s2
  s3 = s3
  Sites = {s1, s2, s3}
  Peers <- ChainOf
  MaxVer = 1
  Faults = TRUE
INVARIANTS StartLearns StartRegisters
PROPERTIES NeverBackwards StartupEnds
