SPECIFICATION Spec
CONSTANTS
  Clients = {c1, c2}
  Threads = 2
  Kinds = {"git", "jj"}
  MaxChanges = 2
  MaxReloads = 1
  Mishaps = {"deletion", "ctrl-c", "exec"}
  MaxMishaps = 1
SYMMETRY Sym
INVARIANTS TypeOK FileShowsCache RefreshingMeansRunning AnswersNeverGoBack QuietMeansCurrent
CHECK_DEADLOCK FALSE
