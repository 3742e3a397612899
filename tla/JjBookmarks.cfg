SPECIFICATION FindSpec
CONSTANTS
  N = 4
  Names = {a, b}
  Depths = {1, 3}
  Letters = {"a", "b"}
  NameLength = 3
  PatternLength = 4
  ListLength = 2
SYMMETRY Sym
INVARIANTS FoundAreTheLine TrackingIsWorst ShownAreMostWanted
CHECK_DEADLOCK FALSE
