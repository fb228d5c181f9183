SPECIFICATION FairSpec
CONSTANTS
  Capacity = 1
  Pushes = 3
  Batch = 2
  PushOps = {"push", "try_push", "try_push_n"}
  PopOps = {"pop", "try_pop", "try_pop_n"}
  MainOps = {"close"}
  Throws = 1
  Staleness = 10
  Empty = Empty
  Torn = Torn
INVARIANTS
  SizeExactWhenQuiescent
PROPERTIES
  ImplementsContract
  EveryoneEnds
