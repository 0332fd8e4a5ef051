CONSTANTS
  Clients = {c1}
  a1 = a1
  a2 = a2
  p1 = p1
  p2 = p2
  Accounts = {a1, a2}
  Cards = {}
  Txns = {t1, t2}
  Recs = {r1, r2}
  Keys = {k1}
  Payloads = {p1}
  Items <- MCItems
  Dates = {1}
  Amounts = {1}
  MaxParts = 0
  Texts = {"x", "y"}
  Statements = {1}
  OpeningBalance = 0
  Operations = {"create", "import", "update", "categorize", "reapply", "delete", "undo", "open", "entries", "complete", "reopen", "discard", "cascade", "archive"}
  MaxRequests = 5
  None = None
  Unborn = Unborn
  Gone = Gone
  MaxFilingRequests = 3
  Rules = {u1, u2}
  Workers = {w1}
  Templates = {m1, m2}
  MaxDay = 3
  Starts = {1}
  Intervals = {1}
  Ends = {0, 2}
  MaxCatchUp = 2
  MaxOccurrences = 3
  UserOps = {"update", "delete_rule", "delete_tx", "link_tx", "move_tx", "currency"}
  MaxUserOps = 1
  MaxKills = 1
  Loans = {l1}
  LoanClients = {d1, d2}
  LoanWorkers = {v1}
  MaxLoanCatchUp = 2
  MaxCount = 2
  MaxMonth = 2
  LoanRequests = {"pay", "advance", "update", "archive", "detach", "cascade", "delete_payment", "account"}
  MaxLoanRequests = 3
SPECIFICATION BooksSpec
INVARIANTS  PostedAtMostOnce NoPaymentConflict PaymentsFitLoan AutoPostOnlyDue
PROPERTIES ReconciledStands SuccessMeansCaughtUp
SYMMETRY BooksSymmetry
CHECK_DEADLOCK FALSE
