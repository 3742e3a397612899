SPECIFICATION Spec
CONSTANTS
  Native = "native"
  Setters = {s1, s2}
  Edits <- MCEdits
  Saves <- MCSaves
  MaxChanges = 1
  MaxStops = 1
SYMMETRY Sym
INVARIANTS TypeOK ShownFollowsFile
CHECK_DEADLOCK FALSE
