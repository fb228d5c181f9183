SPECIFICATION Spec
CONSTANTS
  Producers = {p1, p2}
  Consumers = {c1, c2}
  Main = main
  Capacity = 1
  Calls = 3
  PushOps = {"push"}
  PopOps = {"pop"}
  MainOps = {}
  Staleness = 10
  Empty = Empty
  Torn = Torn
SYMMETRY Symmetry
INVARIANTS
  ClaimsInTurn
  NoDataRace
  StoresInOrder
  DrainedWhenPopFails
PROPERTIES
  ReloadOnlyWhenTaken
  ImplementsContract
