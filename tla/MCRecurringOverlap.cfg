CONSTANTS
  Rules = {r1}
  Workers = {w1, w2}
  Templates = {t1}
  MaxDay = 3
  Starts = {1}
  Intervals = {1}
  Ends = {0}
  MaxCatchUp = 2
  MaxOccurrences = 3
  UserOps = {"update", "delete_rule", "delete_tx", "link_tx", "move_tx", "currency"}
  MaxUserOps = 2
  MaxKills = 1
  GroupIds = {g1, g2}
  CategoryIds = {k1, k2}
  UseIds = {f1}
  Requests = {q1}
  Absent = Absent
SPECIFICATION OverlapSpec
INVARIANTS OneTransactionPerOccurrence NothingSkipped FilingIsConsistent
SYMMETRY MCSymmetry
