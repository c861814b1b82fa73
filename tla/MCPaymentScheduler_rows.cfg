SPECIFICATION FairSpec
CONSTANTS
    Subs = {s1}
    BatchSize = 1
    MaxRetries = 2
    MaxSends = 2
    MaxCount = 3
    MaxCancels = 1
    MaxFaults = 1
    MaxCrashes = 1
INVARIANTS
    TypeOK
    CompletedDistinct
    
    ExecutionsBounded
    
PROPERTIES
  DueRowsSettle
