SPECIFICATION Spec
CONSTANTS
  root = root
  mid = mid
  leaf = leaf
  side = side
  gitignore = gitignore
  jjignore = jjignore
  Dirs = {root, mid, leaf, side}
  Root = root
  Up <- MCUp
  Names = {gitignore, jjignore}
  IgnoreFiles <- MCIgnoreFiles
  Edits = {{leaf}, {root, leaf}}
  MaxChanges = 4
INVARIANTS TypeOK CheckedUpToRoot MatcherKnowsDisk NothingHidden
PROPERTIES NothingLeaks
CHECK_DEADLOCK FALSE
