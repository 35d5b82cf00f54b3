CONSTANTS
  None = None
  Workers = {w1}
  Markets = {m1, m2}
  Costs <- Two
  Budget = 3
  CacheSize = 1
  Ttl = 1
  MaxNow = 1
  MaxBilled = 6
SPECIFICATION Spec
PROPERTY NoCallBeyondCap
CHECK_DEADLOCK FALSE
