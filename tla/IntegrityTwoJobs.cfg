CONSTANTS
  Admins = {a1, a2}
  Items = {i1}
  NoItem = NoItem
  MaxJobs = 2
  MaxFaults = 0
SPECIFICATION Spec
INVARIANT OneJobRuns
CHECK_DEADLOCK FALSE
