CONSTANTS
  None = None
  Workers = {w1, w2}
  Markets = {m1, m2, m3}
  Costs <- OneOrTwo
  Budget = 3
  CacheSize = 1
  Ttl = 1
  MaxNow = 3
  MaxBilled = 6
SPECIFICATION Spec
INVARIANTS TypeOK FewLateCalls ServedFresh
SYMMETRY Interchangeable
CHECK_DEADLOCK FALSE
