\* One run that completes while a client is about to find its stream idle.
SPECIFICATION Spec
CONSTANTS
  w1 = w1
  w2 = w2
  Run = 1
  Job = {1}
  Worker = {w1, w2}
  Process = {w1, w2}
  Client = {c1}
  ReadCount = 1
  Session = {}
  SessionOf <- NoSessions
  Serves <- ServeAll
  NoSession = NoSession
  Nobody = Nobody
  MaxAttempts = 1
  MaxDepth = 0
  Stamps = {1}
  MaxBudget = 1
  MaxEvents = 1
  MaxLog = 6
  Endings = {"completed"}
  Env = {}
PROPERTIES TailEndsComplete
\* The ticket may be over, every grant given and the client gone.
CHECK_DEADLOCK FALSE
