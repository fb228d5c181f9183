SPECIFICATION Spec
CONSTANTS
  Capacity = 2
  Pushes = 6
  Batch = 3
  PushOps = {"push", "try_push_n"}
  PopOps = {"pop", "try_pop_n"}
  MainOps = {}
  Throws = 0
  Staleness = 10
  Empty = Empty
  Torn = Torn
INVARIANTS
  TypeOK
  NoDataRace
  CachesNeverAhead
  DrainedWhenPopFails
PROPERTIES
  ImplementsContract
