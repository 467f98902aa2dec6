\* One run, two replicas: leases that lapse over live legs, and store faults.
SPECIFICATION Spec
CONSTANTS
  w1 = w1
  w2 = w2
  s1 = s1
  Job = {1}
  Worker = {w1, w2}
  Session = {s1}
  SessionOf <- NoSessions
  Serves <- ServeAll
  NoSession = NoSession
  Nobody = Nobody
  NoJob = NoJob
  MaxAttempts = 1
  MaxDepth = 0
  Stamps = {1}
  MaxBudget = 2
  MaxSeq = 3
  Env = {"stream", "cancel", "continue", "falseLapse", "saveFault", "ticketFault"}
SYMMETRY Symmetry
PROPERTIES QueueTickets
\* Every ticket may be over and every grant given.
CHECK_DEADLOCK FALSE
