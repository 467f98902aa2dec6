\* Three runs that want one slot; the limit may be taken away and put back.
CONSTANTS
  Run = {r1, r2, r3}
  Limits = {0, 1}
  Env = {"cancel", "interrupt", "checkFault"}
  MaxSemaphores = 1
SPECIFICATION FairSpec
INVARIANTS PermitsConserved WithinLimit LeavesNothingBehind NoWaitInVain
PROPERTIES CancelEndsTheWait SlotComes
CHECK_DEADLOCK FALSE
