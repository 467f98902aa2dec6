\* Two tickets, one slot: wakes, ticks, ends of tasks and stop in any order.
SPECIFICATION FairSpec
CONSTANTS
  w1 = w1
  Self = w1
  Job = {1, 2}
  Worker = {w1}
  Session = {}
  SessionOf <- NoSessions
  Serves <- ServeAll
  NoSession = NoSession
  Nobody = Nobody
  NoJob = NoJob
  MaxAttempts = 2
  MaxDepth = 0
  Stamps = {1}
  MaxBudget = 2
  MaxSeq = 1
  Cap = 1
  Env = {"storeFault"}
INVARIANTS TypeOK HolderIsInFlight StoppedIsQuiet
PROPERTIES PromptClaim QueueTickets
\* Every ticket may be over and the worker stopped.
CHECK_DEADLOCK FALSE
