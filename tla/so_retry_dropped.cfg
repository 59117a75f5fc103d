SPECIFICATION Spec
CONSTANTS
  Attempts = 2
  MaxStalls = 1
  Items = {i1}
  Reqs = {r1}
  Workers = {w1}
  Fields <- TitleField
  Texts <- TitleTexts
  Values <- TitleValues
  ReadAs <- TitleReadAs
  StoredAs <- TitleStoredAs
  Current <- TitleOriginal
  Planned <- TitleDraft
  Null = null
  Evidence = evidence
  Queues = {TRUE}
  Endpoints = {"preview", "dryRun", "confirm", "start", "rollback", "retry"}
  Faults = {"callLost"}
  i1 = i1
  i2 = i2
  r1 = r1
  r2 = r2
  w1 = w1
  w2 = w2
PROPERTIES RetryIsQueued
CHECK_DEADLOCK FALSE
