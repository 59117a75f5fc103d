SPECIFICATION LiveSpec
CONSTANTS
  r1 = r1 r2 = r2 a1 = a1 a2 = a2 h1 = h1 seo = seo shop = shop
  c1 = c1 c2 = c2 c3 = c3
  Challenges = {c1, c2, c3}
  NoChallenge = NoChallenge
  Calls = {r1, r2}
  Posts = {1, 2, 3}
  Runs = {r1, r2}
  BatchSize = 1
  MaxBatches = 2
  MaxEdits = 6
  Auditors = {a1, a2}
  Admins = {h1}
  WpPlugins = {seo, shop}
  WpCore = WpCore
  Settings <- Resting

CHECK_DEADLOCK FALSE
PROPERTIES CopyCatchesUp

