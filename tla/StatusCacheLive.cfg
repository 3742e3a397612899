SPECIFICATION Spec
CONSTANTS
  Clients = {c1, c2}
  Threads = 1
  Kinds = {"git", "jj"}
  MaxChanges = 2
  MaxReloads = 0
  Mishaps = {"overflow"}
  MaxMishaps = 1
INVARIANTS NoLostWakeup QuietMeansCurrent
PROPERTY HookCatchesUp
CHECK_DEADLOCK FALSE
