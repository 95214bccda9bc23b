SPECIFICATION FairSpec
CONSTANTS
  Peers = {p1, p2}
  Workers = {w1, w2}
  MaxVer = 4
  TicksPerSecond = 1
  Relinks = TRUE
  Faults = FALSE
  Restarts = FALSE
INVARIANTS SettledIsCurrent DeletedIsWithdrawn
PROPERTY Converges
CHECK_DEADLOCK FALSE
