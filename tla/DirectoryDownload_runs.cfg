SPECIFICATION DDSpec
CONSTANTS
  Runs = {r1, r2}
  NumPaths = 3
  MaxVersion = 2
  PageSize = 2
  MaxChanges = 1
  MaxLeft = 1
SYMMETRY Symmetric
INVARIANTS WholeFiles MissedByRemoval
