SPECIFICATION Spec
CONSTANTS
  x1 = x1 x2 = x2 m1 = m1 m2 = m2
  Properties = {"site", "domain"}
  NoProperty = "none"
  Syncs = {x1, x2}
  MaxWeek = 1
  MaxRevisions = 3
  Signals = {"thin"}
  Loss = "loss"
  Chance = "chance"
  Reqs = {x1, x2}
  NoImpact = NoImpact
  MaxAudits = 2
  MaxTasks = 3
  Attempts = 2
  MaxStalls = 1
  Digests = {"d1"}
  Members = {m1, m2}
  Slots = {x1, x2}
  Settings <- Environments
SYMMETRY Interchangeable
CHECK_DEADLOCK FALSE
INVARIANTS TypeOK
PROPERTIES WorkIsKept DigestsDelivered MatchesDevReports
