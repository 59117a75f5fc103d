SPECIFICATION Spec
CONSTANTS
  s1 = s1
  s2 = s2
  Attempts = 2
  MaxStalls = 1
  HttpStatuses <- MCHttpStatuses
  Canonicals <- MCCanonicals
  Directives <- MCDirectives
  Noindex <- MCNoindex
  Versions <- AllVersions
  Slots = {s1, s2}
  Interval = 2
  MaxClock = 7
  MaxRescans = 2
  Settings <- Environments
SYMMETRY Interchangeable
INVARIANTS TypeOK ChangesAreTold HonestRecords
PROPERTIES RescannedEveryOtherWindow
CHECK_DEADLOCK FALSE
