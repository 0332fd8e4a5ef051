SPECIFICATION NightsSpec
CONSTANTS
  RateDates = {1, 2, 3}
  Entries = {x1, x2, x3}
  Unquoted = {x1}
  Inactive = {x3}
  Dead = {1}
  MaxProviderDates = 2
  MaxEdits = 2
  Rules = {r1, r2}
  Workers = {w1}
  Templates = {t1}
  MaxDay = 3
  Starts = {1}
  Intervals = {1}
  Ends = {0}
  MaxCatchUp = 1
  MaxOccurrences = 3
  UserOps = {"update", "delete_rule", "delete_tx"}
  MaxUserOps = 1
  MaxKills = 1
PROPERTIES FallbackHeals DueIsEventuallyPosted
CHECK_DEADLOCK FALSE
