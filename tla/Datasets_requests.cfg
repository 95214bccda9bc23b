SPECIFICATION Spec
CONSTANTS
  o = o
  c = c
  cap = cap
  file = file
  Users = {o, c}
  CoOwners = {c}
  Captures = {cap}
  Files = {file}
  AssetOwner <- OwnersAssets
  Slots = {d1, d2, d3}
  Requests = {r1, r2}
  MaxRequests = 4
  MaxPicked = 1
SYMMETRY Symmetric
PROPERTIES LiveAssets NeverGoesBack VersionsOnce PublishedKeepsAssets
CHECK_DEADLOCK FALSE
