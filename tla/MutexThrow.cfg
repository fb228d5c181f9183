SPECIFICATION FairSpec
CONSTANTS
  Producers = {p1, p2}
  Consumers = {c1}
  Closers = {k1}
  Capacity = 1
  Calls = 3
  PushOps = {"push"}
  PopOps = {"pop"}
  EarlyClose = FALSE
  Throws = 1
  Empty = Empty
PROPERTY
  BlocksOnlyWhileFull
