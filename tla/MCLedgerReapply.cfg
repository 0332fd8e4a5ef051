CONSTANTS
  Clients = {c1}
  a1 = a1
  a2 = a2
  p1 = p1
  p2 = p2
  Accounts = {a1}
  Cards = {}
  Txns = {t1, t2}
  Recs = {}
  Keys = {}
  Payloads = {}
  Items <- MCItems
  Dates = {1}
  Amounts = {1}
  MaxParts = 0
  Texts = {"x", "y"}
  Statements = {}
  OpeningBalance = 0
  Operations = {"create", "reapply"}
  MaxRequests = 3
  None = None
  Unborn = Unborn
  Gone = Gone
SPECIFICATION Spec
PROPERTIES EveryChangeRecorded
CHECK_DEADLOCK FALSE
