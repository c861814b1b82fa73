SPECIFICATION FairSpec
CONSTANTS
  Absent = Absent
  Deleted = Deleted
  Events = {n1, n2}
  Endpoints = {e1}
  InitEndpoints = {}
  MaxPosts = 3
  MaxEdits = 2
  MaxFaults = 1
  MaxCrashes = 1
INVARIANTS
  TypeOK
  RetriesFollowFailures
  AttemptsOK
  
  
PROPERTIES
  
  DeliveriesSettle
CHECK_DEADLOCK FALSE
