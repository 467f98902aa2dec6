\* One run, two replicas: retries and continuations of pauses, beside legs given up
\* for dead and a stream that may expire.
SPECIFICATION Spec
CONSTANTS
  w1 = w1
  w2 = w2
  Run = 1
  Job = {1}
  Worker = {w1, w2}
  Process = {w1, w2}
  Client = {c1}
  ReadCount = 1
  Session = {}
  SessionOf <- NoSessions
  Serves <- ServeAll
  NoSession = NoSession
  Nobody = Nobody
  MaxAttempts = 2
  MaxDepth = 0
  Stamps = {1}
  MaxBudget = 2
  MaxEvents = 1
  MaxLog = 5
  Endings = {"paused"}
  Env = {"continue", "falseLapse", "expire", "crash"}
SYMMETRY Symmetry
INVARIANTS TypeOK StreamOrdered LiveStreamIsOpen
PROPERTIES EventsAreNew SentinelEndsComplete
\* The ticket may be over, every grant given and the client gone.
CHECK_DEADLOCK FALSE
