CONSTANTS
  Threads = {t1}
  Writers = {w1}
  Chain <- MCChain
  Window = 2
  NoKey = NoKey
  FirstPhase = 4
  MaxPhase = 7
  MaxFaults = 2
SPECIFICATION FairSpec
INVARIANTS TypeOK RolloverDropsOldChain TtlUnlessCut TrimmedUnlessCut PivotsOfTheDay
PROPERTY LevelsAppear
