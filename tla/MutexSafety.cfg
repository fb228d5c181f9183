SPECIFICATION Spec
CONSTANTS
  Producers = {p1, p2}
  Consumers = {c1}
  Closers = {k1}
  Capacity = 2
  Calls = 4
  PushOps = {"push", "try_push", "try_push_for"}
  PopOps = {"pop", "try_pop", "try_pop_for"}
  EarlyClose = TRUE
  Throws = 1
  Empty = Empty
SYMMETRY Symmetry
INVARIANTS
  TypeOK
  NoLostWakeup
  DrainedWhenPopFails
PROPERTIES
  ImplementsContract
