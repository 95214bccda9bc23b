SPECIFICATION FSSpec
CONSTANTS
  Directories = {d1, d2}
  OwnerOf <- MCOwnerOf
  FileNames = {n1, n2}
  Contents = {c1}
  Stores = {s1, s2}
  Offered <- MCOffered
  None = None
  Requests = {r1, r2}
  MaxRows = 2
  MaxSuffix = 1
  MaxEvents = 2
  MaxOverlaps = 1
SYMMETRY Symmetric
INVARIANTS LiveFilesReadable StrictKeepsWhole FilesOnce
CHECK_DEADLOCK FALSE
