\* Two turns of one session, two replicas of which one may crash.  With equal
\* timestamps the oldest ticket is the one with the smaller id, whichever of
\* the two was accepted first.
SPECIFICATION FairSpec
CONSTANTS
  w1 = w1
  w2 = w2
  s1 = s1
  Job = {1, 2}
  Worker = {w1, w2}
  Session = {s1}
  SessionOf <- OneSession
  Serves <- ServeAll
  NoSession = NoSession
  Nobody = Nobody
  NoJob = NoJob
  MaxAttempts = 2
  MaxDepth = 2
  Stamps = {1}
  MaxBudget = 2
  MaxSeq = 2
INVARIANTS OneTurnPerSession WithinBudget LegsAreFenced
PROPERTIES AcceptanceOrder NoTicketIsLost
\* Every ticket may be over and every grant given.
CHECK_DEADLOCK FALSE
