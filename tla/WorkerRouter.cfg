SPECIFICATION Spec
CONSTANTS
  Repos = {r1, r2}
  Jj = {r1}
  Stuck = {r2}
  MaxChanges = 2
  MaxMisses = 1
  MaxFailures = 1
  MaxForgets = 1
  MaxStats = 1
INVARIANT AnswersCoverReports
PROPERTY OthersAreServed
CHECK_DEADLOCK FALSE
