SPECIFICATION FairSpec
CONSTANTS
  Producers = {p1, p2}
  Consumers = {c1}
  Main = main
  Capacity = 1
  Calls = 2
  PushOps = {"push"}
  PopOps = {"pop", "try_pop"}
  MainOps = {"close"}
  Staleness = 10
  Empty = Empty
  Torn = Torn
PROPERTIES
  EveryoneEnds
