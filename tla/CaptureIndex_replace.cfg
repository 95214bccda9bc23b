SPECIFICATION CISpec
CONSTANTS
  MaxCaptures = 2
  Place <- OnePlace
  Slipped = {2}
  Requests = {r1, r2}
  MaxRequests = 2
  MaxFailures = 1
  MaxCommands = 2
SYMMETRY Symmetric
INVARIANTS FoundIfLive
PROPERTIES NothingLost
CHECK_DEADLOCK FALSE
