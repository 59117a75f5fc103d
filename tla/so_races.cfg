SPECIFICATION Spec
CONSTANTS
  Attempts = 1
  MaxStalls = 1
  Items = {i1}
  Reqs = {r1, r2}
  Workers = {w1, w2}
  Fields <- TitleField
  Texts <- TitleTexts
  Values <- TitleValues
  ReadAs <- TitleReadAs
  StoredAs <- TitleStoredAs
  Current <- TitleOriginal
  Planned <- TitleDraft
  Null = null
  Evidence = evidence
  Queues = {TRUE}
  Endpoints = {"preview", "dryRun", "confirm", "start", "rollback"}
  Faults = {"callLost", "workerCrash", "stall", "jobError", "saasCrash"}
  i1 = i1
  i2 = i2
  r1 = r1
  r2 = r2
  w1 = w1
  w2 = w2
SYMMETRY Actors
INVARIANTS NoWriteBeforeConfirmation NoPhantomCompletion
CHECK_DEADLOCK FALSE
