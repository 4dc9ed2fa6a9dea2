SPECIFICATION Spec
CONSTANTS
  Null = Null
  NoPath = NoPath
  Paths = {A, B}
  A = A
  B = B
  Records = {r1, r2, r3, r4}
  r1 = r1
  r2 = r2
  r3 = r3
  r4 = r4
  Fds = {0, 1, 2, 3}
  Opened <- OnePathEach
  HotSize = 3
SYMMETRY Symmetry
INVARIANTS
  TypeOK
  HotSorted
  RingIsHot
  ListWellFormed
PROPERTIES
  ImplementsMap
