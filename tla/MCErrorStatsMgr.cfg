SPECIFICATION FairSpec
CONSTANTS
  Key = {k1, k2}
  ERROR_REPORT_MIN_PERIOD_MS = 2
  ERROR_REPORT_COUNT_MAX_LIFETIME_MS = 8
  Second = 2
  MaxLate = 2
  MaxCount = 2
INVARIANTS
  TypeOK
  NothingLost
  ToldInTime
PROPERTIES
  PendingPrinted
