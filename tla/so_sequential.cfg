SPECIFICATION Spec
CONSTANTS
  Attempts = 3
  MaxStalls = 1
  Items = {i1, i2}
  Reqs = {r1}
  Workers = {w1, w2}
  Fields <- MetaFields
  Texts <- MetaTexts
  Values <- JsonValues
  ReadAs <- MetaReadAs
  StoredAs <- MetaStoredAs
  Current <- MetaOriginal
  Planned <- TitleDraft
  Null = null
  Evidence = evidence
  Queues = {TRUE, FALSE}
  Endpoints = {"preview", "dryRun", "confirm", "start", "finish", "rollback", "retry"}
  Faults = {"enqueueError", "callLost", "itemError", "evict", "disconnect", "lapse"}
  i1 = i1
  i2 = i2
  r1 = r1
  r2 = r2
  w1 = w1
  w2 = w2
INVARIANTS TypeOK StatusesAgree
PROPERTIES RollbackRestores LifeCycleKept
CHECK_DEADLOCK FALSE
