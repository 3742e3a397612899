SPECIFICATION Spec
CONSTANTS
  Files = {f, g}
  Contents = {0, 1}
  MaxEdits = 2
  MaxOps = 2
  MaxOverflows = 1
SYMMETRY Sym
INVARIANTS TypeOK DiffIsDiskOrSnapshot OpIsCurrent
PROPERTY KnownStaysKnown
