SPECIFICATION Spec
CONSTANTS
  PathOrder <- MCPathOrder
  Ignored <- MCIgnored
  Values <- MCValues
  Absent = "absent"
  Text <- MCText
  GixView <- MCGixView
  Checkout <- MCCheckout
  Empty = "empty"
  Similarity <- MCSimilarity
  InitTrees <- MCInitTrees
  RemoteTrees <- MCRemoteTrees
  MaxEdits = 3
  MaxOps = 0
INVARIANT EditedRenameMatches
CHECK_DEADLOCK FALSE
