CONSTANTS
  Paths = {p1, p2}
  p1 = p1
  p2 = p2
  Threads = {t1, t2}
  t1 = t1
  t2 = t2
  Leader = t1
  Fds = {f1, f2}
  f1 = f1
  f2 = f2
  Errors = {e1}
  e1 = e1
  NoFd = NoFd
  NoPath = NoPath
  Unhooked = TRUE
  MaxRecords = 2
SPECIFICATION Spec
SYMMETRY Symmetry
INVARIANTS TypeOK 
 
