SPECIFICATION Spec
CONSTANTS
  general = general
  strict = strict
  NoEntry = NoEntry
  Keys = {general, strict}
  Ttl <- SmallTtl
  Limit <- SmallLimit
  ClockSteps = {1, 2}
  MaxTime = 9
  MaxCount = 3
  MaxGrants = 6
INVARIANTS
  TypeOK
  SlidingBound
  RefusalsEarned
  WindowsOK
