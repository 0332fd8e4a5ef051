SPECIFICATION MoneySpec
CONSTANTS
  MonthLengths <- MCMonths
  LastMonth = 40
  CardDays = {6, 9}
  ClosingDays = {2, 3}
  DueDay = 1
  ChargeDates = {4, 6}
  PlannedDates = {6}
  PayDates = {16}
  UserTags = {7}
  Payers = {p1}
  Nightly = Nightly
  AutoPayWindow = 1
  MaxCharges = 1
  MaxPayments = 2
  Assets = {a1, a2}
  TradeDates = {1, 2}
  Quantities = {1}
  MaxTrades = 2
  MaxCommits = 3
  Groups <- MCGroups
  MaxId = 7
  MaxEdits = 1
  Handlers = {h1, h2}
  MaxBackupRequests = 3
SYMMETRY MCSymmetry
INVARIANTS InvoiceNotOverpaid TagsAreCloses InvestmentLedgerSound VerdictsAreSound
PROPERTY RestoreIsExact
CHECK_DEADLOCK FALSE
