\* A scheduled and a manual run at once, over an item that is uploaded and
\* destroyed around them, and a third run where only their failures count; two
\* failures in a row are critical, and a third fault leaves room for a crash, a lost
\* object or a failed notification.
CONSTANTS
  Runs = {b1, b2, b3}
  Third = b3
  Items = {i1}
  CriticalAt = 2
  MaxFaults = 3
SPECIFICATION MCSpec
INVARIANTS SnapshotCoversDump CompletedIsWhole VerdictLeft AlarmInTime
PROPERTY RunsEnd
\* The runs are bounded; items that are destroyed stay so.
CHECK_DEADLOCK FALSE
