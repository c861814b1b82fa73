SPECIFICATION Spec
CONSTANTS
  Absent = Absent
  Deleted = Deleted
  Events = {n1}
  Endpoints = {e1}
  InitEndpoints = {e1}
  MaxPosts = 3
  MaxEdits = 0
  MaxFaults = 0
  MaxCrashes = 0
INVARIANTS
  BackoffFollowed
CHECK_DEADLOCK FALSE
