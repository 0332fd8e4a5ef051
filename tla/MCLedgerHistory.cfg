CONSTANTS
  Clients = {c1, c2}
  a1 = a1
  a2 = a2
  p1 = p1
  p2 = p2
  Accounts = {a1, a2}
  Cards = {}
  Txns = {t1, t2, t3}
  Recs = {}
  Keys = {k1}
  Payloads = {p1, p2}
  Items <- MCItems
  Dates = {1}
  Amounts = {1}
  MaxParts = 0
  Texts = {"x", "y"}
  Statements = {}
  OpeningBalance = 0
  Operations = {"create", "import", "update", "categorize", "reapply", "delete", "undo", "cascade"}
  MaxRequests = 4
  None = None
  Unborn = Unborn
  Gone = Gone
SPECIFICATION Spec
INVARIANTS  ImportedOnce UndoIsWhole EveryValueRecorded
SYMMETRY Symmetry
CHECK_DEADLOCK FALSE
