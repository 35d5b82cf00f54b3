CONSTANTS
  s1 = s1
  s2 = s2
  Signals = {s1, s2}
  TrapType <- MCTrapType
  None = None
  Limit = 2
  Queries <- MCQueries
  MaxPhase = 4
  MaxFaults = 2
SPECIFICATION Spec
INVARIANTS TypeOK EodRecovers AtMostThreeRecords
PROPERTY RateFollowsOutcome
CHECK_DEADLOCK FALSE
