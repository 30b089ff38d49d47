SPECIFICATION FairSpec
CONSTANTS
  w1 = w1
  w2 = w2
  m1 = m1
  m2 = m2
  Workers <- MCWorkers
  Masters <- MCMasters
  BatchSize = 2
  MaxRounds = 2
  MaxChecks = 4
  Failing <- MCFailing
  MaxAdd = 4
  None = None
INVARIANTS NothingRunsAfterwards CompleteIsRight CountsAreTrue
PROPERTIES CompleteReturns WorkersJoined
