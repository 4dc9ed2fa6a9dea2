CONSTANTS
  Pids = {p1, p2, p3}
  Records = {r1, r2, r3, r4}
  r1 = r1
  r2 = r2
  r3 = r3
  r4 = r4
  p1 = p1
  p2 = p2
  p3 = p3
  Null = Null
  Changing = {p1}
  MaxStarts = 2
  MaxImages = 2
SPECIFICATION Spec
SYMMETRY Symmetry
INVARIANTS TypeOK WalkEnds OnlyOverlappedStay CallerKnown
PROPERTIES FreedTwiceByReuse
