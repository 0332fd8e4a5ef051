CONSTANTS
  Clients = {c1, c2}
  a1 = a1
  a2 = a2
  p1 = p1
  p2 = p2
  Accounts = {a1}
  Cards = {a1}
  Txns = {t1, t2}
  Recs = {r1, r2}
  Keys = {}
  Payloads = {}
  Items <- MCItems
  Dates = {1, 2}
  Amounts = {1}
  MaxParts = 2
  Texts = {"x"}
  Statements = {0}
  OpeningBalance = 0
  Operations = {"create", "installments", "update", "delete", "open", "entries", "complete", "reopen", "discard", "cascade", "archive"}
  MaxRequests = 6
  None = None
  Unborn = Unborn
  Gone = Gone
SPECIFICATION Spec
INVARIANTS ReconciliationsSound
PROPERTIES LegLocked
SYMMETRY Symmetry
CHECK_DEADLOCK FALSE
