\* One run, two replicas of which one may crash at any point.
SPECIFICATION FairSpec
CONSTANTS
  w1 = w1
  w2 = w2
  Run = 1
  Job = {1}
  Worker = {w1, w2}
  Process = {w1, w2}
  Client = {c1}
  ReadCount = 1
  Session = {}
  SessionOf <- NoSessions
  Serves <- ServeAll
  NoSession = NoSession
  Nobody = Nobody
  MaxAttempts = 2
  MaxDepth = 0
  Stamps = {1}
  MaxBudget = 2
  MaxEvents = 1
  MaxLog = 3
  Endings = {"completed", "paused", "cancelled", "error", "unseen", "aborted", "exception", "permanent", "timeout", "drain"}
  Env = {"cancel", "continue", "requeue", "crash", "expire", "unstored"}
INVARIANTS LiveStreamIsOpen
PROPERTIES TailsEnd
\* The ticket may be over, every grant given and the client gone.
CHECK_DEADLOCK FALSE
