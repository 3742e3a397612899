\* Two repositories, two changes of every shape, one query, one Flush.
SPECIFICATION Spec
CONSTANTS
  r1 = r1
  r2 = r2
  c1 = c1
  c2 = c2
  Repos = {r1, r2}
  Changes = {c1, c2}
  Shapes <- MCShapes
  MaxMisses = 1
  MaxFlushes = 1
INVARIANTS TypeOK AtMostOneRefresh InFlightMeansDoneIsDue FlushOpensNoWindow NothingLost
PROPERTIES FlushAnswersForEverything ImplementsPromise EveryChangeServed FlushCompletes
