SPECIFICATION Spec
CONSTANTS
  Peers = {p1, p2}
  Workers = {w1, w2}
  MaxVer = 3
  TicksPerSecond = 2
  Relinks = TRUE
  Faults = TRUE
  Restarts = TRUE
SYMMETRY Symmetric
INVARIANTS StampHonest DraftsStayHome
PROPERTY BootstrapCatchesUp
