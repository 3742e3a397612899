SPECIFICATION Spec
CONSTANTS
  Files = {f, g}
  Contents = {0, 1}
  MaxWrites = 3
SYMMETRY Sym
INVARIANTS TotalCurrent IndexCurrent MetadataCurrent
