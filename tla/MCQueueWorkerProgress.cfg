\* One run that nobody cancels, two replicas, stores that do not fail forever.
SPECIFICATION FairSpec
CONSTANTS
  w1 = w1
  w2 = w2
  s1 = s1
  Job = {1}
  Worker = {w1, w2}
  Session = {s1}
  SessionOf <- NoSessions
  Serves <- ServeAll
  NoSession = NoSession
  Nobody = Nobody
  NoJob = NoJob
  MaxAttempts = 1
  MaxDepth = 0
  Stamps = {1}
  MaxBudget = 3
  MaxSeq = 3
  Env = {"stream", "continue", "requeue", "crash", "readFault", "gateFault", "ticketFault", "stampFault"}
PROPERTIES NoRunIsStuck
\* Every ticket may be over and every grant given.
CHECK_DEADLOCK FALSE
