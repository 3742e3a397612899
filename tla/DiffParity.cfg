SPECIFICATION Spec
CONSTANTS
  PathOrder <- MCPathOrder
  Ignored <- MCIgnored
  Values <- MCValues
  Absent = "absent"
  Text <- MCText
  GixView <- MCGixView
  Checkout <- MCCheckout
  Empty = "empty"
  Similarity <- MCSimilarity
  InitTrees <- MCInitTrees
  RemoteTrees <- MCRemoteTrees
  MaxEdits = 2
  MaxOps = 2
INVARIANT MatchesJjDiff
CHECK_DEADLOCK FALSE
