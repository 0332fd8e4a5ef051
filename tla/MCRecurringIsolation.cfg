CONSTANTS
  Rules = {r1, r2}
  Workers = {w1}
  Templates = {t1, t2}
  MaxDay = 3
  Starts = {1}
  Intervals = {1}
  Ends = {0}
  MaxCatchUp = 2
  MaxOccurrences = 3
  UserOps = {"currency"}
  MaxUserOps = 1
  MaxKills = 0
SPECIFICATION PostingSpec
PROPERTIES FailureDoesNotAbortRun
