CONSTANTS
  Loans = {l1}
  LoanClients = {c1, c2}
  LoanWorkers = {w1}
  MaxCount = 2
  MaxMonth = 2
  MaxLoanCatchUp = 1
  LoanRequests = {"pay", "advance", "update", "archive", "detach", "cascade", "delete_payment", "account"}
  MaxLoanRequests = 2
SPECIFICATION LoanFairSpec
PROPERTIES EveryRequestEnds AutoPostCatchesUp
