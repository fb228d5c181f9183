SPECIFICATION Spec
CONSTANTS
  Producers = {p1}
  Consumers = {c1}
  Main = main
  Capacity = 2
  Calls = 3
  PushOps = {"push", "try_push"}
  PopOps = {"pop", "try_pop"}
  MainOps = {"close", "size"}
  Staleness = 10
  Empty = Empty
  Torn = Torn
INVARIANTS
  TypeOK
  SizeExactWhenQuiescent
PROPERTIES
  ImplementsContract
