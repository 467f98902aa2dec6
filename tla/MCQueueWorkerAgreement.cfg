\* One run, two replicas: cancels, crashes and failing stores around every await.
SPECIFICATION Spec
CONSTANTS
  w1 = w1
  w2 = w2
  s1 = s1
  Job = {1}
  Worker = {w1, w2}
  Session = {s1}
  SessionOf <- NoSessions
  Serves <- ServeAll
  NoSession = NoSession
  Nobody = Nobody
  NoJob = NoJob
  MaxAttempts = 2
  MaxDepth = 0
  Stamps = {1}
  MaxBudget = 3
  MaxSeq = 3
  Env = {"stream", "cancel", "continue", "requeue", "crash", "drop", "readFault", "gateFault", "ticketFault"}
SYMMETRY Symmetry
INVARIANTS TypeOK CompletedIsCompleted FailedIsVisible PausedIsPaused ExecutesLiveRun
PROPERTIES FinishedIsFinal
\* Every ticket may be over and every grant given.
CHECK_DEADLOCK FALSE
