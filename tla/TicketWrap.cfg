\* Capacity 1 and 3 take the remainder, 2 the mask; 1 and 2 go on for ever, 3 stops.
SPECIFICATION Spec
CONSTANTS
  Producers = {p1, p2}
  Consumers = {c1}
  Capacities = {1, 2, 3}
  Width = 5
  MaxLag = 4
  Empty = Empty
INVARIANTS
  ReadyUnlessBusy
  StopsAtTheJump
  AloneWithItsElement
  SizeAcrossWrap
PROPERTIES
  SignsReadRight
