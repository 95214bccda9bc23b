SPECIFICATION Spec
CONSTANTS
  Assets = {a1, a2}
  Handlers = {h1, h2}
  MaxTime = 3
  Overlap = {a2}
  UnackedWrites = {a2}
SYMMETRY Symmetric
INVARIANTS CacheMatchesStore SkippedOnlyIfIndexed
PROPERTY ImplementsRegister
