\* One schedule, two pollers of which one stays up.
SPECIFICATION FairSpec
CONSTANTS
  p1 = p1
  p2 = p2
  s1 = s1
  s2 = s2
  Schedule = {s1}
  Poller = {p1, p2}
  Period = {2}
  Grace = 1
  MaxAttempts = 2
  MaxConcurrent = 2
  MaxTime = 4
  MaxSlots = 2
  MaxUpsets = 2
  Env = {"edit", "trigger", "drift", "stop", "crash", "dbFault", "cron"}
INVARIANTS OverlapOnlyAfterGrace RecordsAreSettled
PROPERTIES OnlyTheHolderReleases OneClaimPerFiring OnDemandIsNotRearmed DueIsServed
\* The clock stops.
CHECK_DEADLOCK FALSE
