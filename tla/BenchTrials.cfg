SPECIFICATION FairSpec
CONSTANTS
  kCapacity = 4
  kSpscThreads = 2
  kMpmcThreads = 4
  kBulkBatch = 3
  capacity_sweep = {1, 2, 4}
  OddThreads = {1, 3}
  MaxIterations = 3
  MaxFailures = 1
INVARIANTS
  EndsOnlyIfCovered
  ItemsAreTransfers
  RetriesPerOwnOp
PROPERTIES
  EndsIfCovered
