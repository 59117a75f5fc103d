SPECIFICATION Spec
CONSTANTS
  t1 = t1
  t2 = t2
  t3 = t3
  r1 = r1
  r2 = r2
  Tokens = {t1, t2, t3}
  Reqs = {r1}
  Member = member
  Faults = {"lapse", "crash"}
INVARIANTS TypeOK ApprovedConfirmed
PROPERTIES OneDecides MatchesDevApprovals
CHECK_DEADLOCK FALSE
