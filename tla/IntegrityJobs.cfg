\* Two jobs of two administrators over two items: jobs that overlap, and items
\* damaged or destroyed before, between and after the reads of either.
CONSTANTS
  Admins = {a1, a2}
  Items = {i1, i2}
  NoItem = NoItem
  MaxJobs = 2
  MaxFaults = 2
SPECIFICATION FairSpec
INVARIANTS CountsAddUp NothingSlips WarnedForCause
PROPERTY JobsEnd
\* The jobs are bounded; a server without a request stops.
CHECK_DEADLOCK FALSE
