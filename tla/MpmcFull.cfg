\* Staleness 0: the failure is not the fault of a stale load.
SPECIFICATION FullSpec
CONSTANTS
  Producers = {p1}
  Consumers = {c1}
  Main = main
  Capacity = 1
  Calls = 2
  PushOps = {"try_push"}
  PopOps = {"try_pop"}
  MainOps = {}
  Staleness = 0
  Empty = Empty
  Torn = Torn
PROPERTY
  TryPushFailsOnlyWhenFullOrClosed
