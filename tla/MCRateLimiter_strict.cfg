SPECIFICATION Spec
CONSTANTS
  general = general
  strict = strict
  NoEntry = NoEntry
  Keys = {strict}
  Ttl <- StrictTtl
  Limit <- StrictLimit
  ClockSteps = {61}
  MaxTime = 300
  MaxCount = 12
  MaxGrants = 25
INVARIANTS
  TenPerMinute
