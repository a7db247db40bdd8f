CONSTANTS
  t1 = t1
  t2 = t2
  w = w
  q = q
  d = d
  m1 = m1
  m2 = m2
  Threads = {t1, t2}
  Callers = {t1, t2}
  Maps = {m1, m2}
  Handles = {w, q, d}
  MapOf <- MapsOf
  Window = w
  Queue = q
  Owner <- WindowApart
  Main = t2
  Nobody = Nobody
  sq_size = 4
  cq_size = 4
  MaxCalls = 5
  NoOne = NoOne
SPECIFICATION Spec
CHECK_DEADLOCK FALSE
INVARIANT FreedOnce
