\* Two turns of one session, two replicas and two requests at a time.
SPECIFICATION SqlSpec
CONSTANTS
  w1 = w1
  w2 = w2
  s1 = s1
  r1 = r1
  r2 = r2
  Job = {1, 2}
  Worker = {w1, w2}
  Request = {r1, r2}
  Session = {s1}
  SessionOf <- OneSession
  Serves <- ServeAll
  NoSession = NoSession
  Nobody = Nobody
  NoJob = NoJob
  MaxAttempts = 1
  MaxDepth = 2
  Stamps = {1}
  MaxBudget = 2
  MaxSeq = 2
SYMMETRY Symmetry
INVARIANTS WithinBudget
PROPERTIES AcceptanceOrder
\* Every ticket may be over and every grant given.
CHECK_DEADLOCK FALSE
