SPECIFICATION FairSpec
CONSTANTS
  Producers = {p1, p2}
  Consumers = {c1, c2}
  Closers = {k1, k2}
  Capacity = 1
  Calls = 3
  PushOps = {"push", "try_push_for"}
  PopOps = {"pop", "try_pop"}
  EarlyClose = FALSE
  Throws = 0
  Empty = Empty
PROPERTIES
  EveryoneEnds
  BlocksOnlyWhileFull
