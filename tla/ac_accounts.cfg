SPECIFICATION EntranceSpec
CONSTANTS
  r1 = r1 r2 = r2 r3 = r3
  Reqs = {r1, r2, r3}
  MaxClock = 3
  MaxSecrets = 2
  MaxSessions = 4
  MaxLinks = 3
  p1 = p1
  Processes = {p1}
  Limit = 2
  Window = 2
  MaxNow = 5
  Settings <- Environments
SYMMETRY Interchangeable
CHECK_DEADLOCK FALSE
INVARIANTS EntranceTypes CodesOpenOneSession RefusalsComeFirst
PROPERTIES ResetsEndTheOld SecondFactorHolds CallsAllowed QuotaHolds
