\* One schedule, one poller, and a user who edits the cadence.
SPECIFICATION Spec
CONSTANTS
  p1 = p1
  p2 = p2
  s1 = s1
  s2 = s2
  Schedule = {s1}
  Poller = {p1}
  Period = {1, 2}
  Grace = 1
  MaxAttempts = 1
  MaxConcurrent = 1
  MaxTime = 4
  MaxSlots = 1
  MaxUpsets = 2
  Env = {"edit"}
PROPERTIES RearmsForTheCadence
\* The clock stops.
CHECK_DEADLOCK FALSE
