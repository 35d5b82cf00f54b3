CONSTANTS
  Workers = {w1}
  HasCredentials = TRUE
  Faults = {"login", "build", "cache", "env"}
  Day = 3
  Life = 3
  MaxAge = 2
  Ttl = 4
  Never = Never
  MaxNow = 4
  MaxTokens = 2
  MaxCrashes = 2
SPECIFICATION FairSpec
INVARIANTS TypeOK RestartFindsToken HandledOncePerLife
PROPERTY UpdateHandled
