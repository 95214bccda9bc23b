SPECIFICATION Spec
CONSTANTS
  o = o
  c = c
  g1 = g1
  g2 = g2
  Users = {o, c}
  Owner = o
  Groups = {g1, g2}
  GroupOwner <- OwnersGroups
  Levels = {"viewer", "co-owner"}
  Viewer = "viewer"
  CoOwner = "co-owner"
  Offered = {"viewer"}
  Requests = {r1, r2}
  MaxOverlaps = 1
INVARIANTS DeletedGivesNothing MembersShareAlike
PROPERTIES IndividualSurvives
CHECK_DEADLOCK FALSE
