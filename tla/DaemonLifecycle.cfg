SPECIFICATION Spec
CONSTANTS
  Daemons = {d1, d2, d3}
  Clients = {c1}
  None = None
  LastVersion = 2
  MaxFaults = 1
INVARIANTS TypeOK HooksAreNotAbandoned
PROPERTIES ServedAgain
