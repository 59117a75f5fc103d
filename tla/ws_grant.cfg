SPECIFICATION Spec
CONSTANTS
  ann = ann bob = bob cat = cat dan = dan
  r1 = r1 r2 = r2 u1 = u1 u2 = u2 u3 = u3
  w1 = w1 w2 = w2 w3 = w3
  cus1 = cus1 cus2 = cus2 code1 = code1 code2 = code2
  NoPerson = NoPerson NoUrl = NoUrl
  People = {ann, bob, cat, dan}
  Founder = ann
  Reqs = {r1, r2}
  EventKinds <- Kinds
  Codes = {code1, code2}
  GrantPlan = "STARTER"
  Calls = {r1, r2}
  Urls = {u1, u2, u3}
  UrlReqs = {r1, r2}
  MaxActive = 2
  NoSite = NoSite
  SiteUrls = {w1, w2, w3}
  SiteReqs = {r1, r2}
  Seats <- SeatsOf
  MaxSeats = 3
  SiteCaps <- SitesOf
  MaxSites = 2
  Settings <- Environments
SYMMETRY Interchangeable
CHECK_DEADLOCK FALSE
INVARIANT GrantGivesAccess
