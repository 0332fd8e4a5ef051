------------------------- MODULE LoanPaymentsProofs -------------------------
(***************************************************************************)
(* Theorems about LoanPayments, for any number of loans, clients, workers, *)
(* installments and months.                                                *)
(*                                                                         *)
(* The argument is the row lock.  What a process has read about a loan     *)
(* stays true while it holds the row, because every step that changes the  *)
(* loan or adds a payment needs the row; deleting a payment needs no row,  *)
(* but only ever removes a paid number (lemma Undisturbed).                *)
(***************************************************************************)
EXTENDS LoanPayments, TLAPS

(* What the rows and counters are. *)
RowsOK ==
  /\ month \in Months
  /\ loan \in [Loans -> LoanRow]
  /\ paid \in [Loans -> [Numbers -> 0..MaxCount]]
  /\ orphans \in [Loans -> SUBSET Numbers]
  /\ lock \in [Loans -> Procs \cup {NoOne}]
  /\ loanRequests \in 0..MaxLoanRequests

(* PaymentsFitLoan, and no payment of a loan that is not there. *)
PaymentsBelong ==
  \A l \in Loans : \A n \in PaidNumbers(l) :
    LiveLoan(l) /\ n <= loan[l].count /\ paid[l][n] = loan[l].count

(* What a process that holds the row of its loan knows about it. *)
HoldsRow(p) ==
  loanProc[p].pc \in {"commit", "update", "record"} => lock[loanProc[p].loan] = p /\ LiveLoan(loanProc[p].loan)

SelectedUnpaid(p) ==
  loanProc[p].pc = "commit" =>
    /\ loanProc[p].sel \cap PaidNumbers(loanProc[p].loan) = {}
    /\ loanProc[p].row.count = loan[loanProc[p].loan].count
    /\ \A n \in loanProc[p].sel : n <= loan[loanProc[p].loan].count

EditFits(p) ==
  loanProc[p].pc = "update" =>
    /\ loanProc[p].row.state = "live"
    /\ \A n \in PaidNumbers(loanProc[p].loan) : n <= loanProc[p].row.count

SomethingDue(p) ==
  loanProc[p].pc = "record" /\ p \in LoanWorkers =>
    \E n \in Unpaid(loanProc[p].loan) : DueMonth(loanProc[p].loan, n) <= loanProc[p].day

SelectedDue(p) ==
  loanProc[p].pc = "commit" /\ p \in LoanWorkers =>
    \A n \in loanProc[p].sel : DueMonth(loanProc[p].loan, n) <= loanProc[p].day

ProcTyped(p) ==
  /\ loanProc[p] \in Proc
  /\ loanProc[p].pc \notin {"idle", "loans"} => loanProc[p].loan \in Loans
  /\ loanProc[p].pc = "refresh" => loanProc[p].budget # 0

Good(p) ==
  ProcTyped(p) /\ HoldsRow(p) /\ SelectedUnpaid(p) /\ EditFits(p) /\ SomethingDue(p) /\ SelectedDue(p)

(* The inductive invariant. *)
LockInv ==
  /\ RowsOK
  /\ loanProc = [p \in Procs |-> loanProc[p]]
  /\ PaymentsBelong
  /\ \A p \in Procs : Good(p)

(* A row another process may rely on while it holds it. *)
RowKept(l) ==
  /\ loan'[l].state = loan[l].state
  /\ loan'[l].count = loan[l].count
  /\ loan'[l].first = loan[l].first
  /\ PaidNumbers(l)' \subseteq PaidNumbers(l)

(* A process whose rows are kept is not disturbed by the steps of others. *)
LEMMA Undisturbed ==
  ASSUME NEW q \in Procs, Good(q), loanProc'[q] = loanProc[q],
         \A l \in Loans : lock[l] = q /\ LiveLoan(l) => lock'[l] = q /\ RowKept(l)
  PROVE  Good(q)'
<1> DEFINE l == loanProc[q].loan
<1>1. CASE loanProc[q].pc \in {"commit", "update", "record"}
  <2>1. l \in Loans /\ lock[l] = q /\ LiveLoan(l)
    BY <1>1 DEF Good, ProcTyped, HoldsRow
  <2>2. lock'[l] = q /\ RowKept(l)
    BY <2>1
  <2>3. ProcTyped(q)' /\ HoldsRow(q)'
    BY <2>1, <2>2 DEF Good, ProcTyped, HoldsRow, RowKept, LiveLoan
  <2>4. SelectedUnpaid(q)' /\ EditFits(q)'
    BY <2>1, <2>2 DEF Good, SelectedUnpaid, EditFits, RowKept
  <2>5. \A n : DueMonth(l, n)' = DueMonth(l, n)
    BY <2>2 DEF RowKept, DueMonth
  <2>6. Unpaid(l) \subseteq Unpaid(l)'
    BY <2>2 DEF RowKept, Unpaid
  <2>7. SomethingDue(q)' /\ SelectedDue(q)'
    BY <2>1, <2>2, <2>5, <2>6 DEF Good, SomethingDue, SelectedDue, RowKept, DueMonth
  <2> QED BY <2>3, <2>4, <2>7 DEF Good
<1>2. CASE loanProc[q].pc \notin {"commit", "update", "record"}
  BY <1>2 DEF Good, ProcTyped, HoldsRow, SelectedUnpaid, EditFits, SomethingDue, SelectedDue
<1> QED BY <1>1, <1>2

LEMMA NewLoanType == NewLoan \in LoanRow
BY LoanAssumption DEF NewLoan, LoanRow, Numbers, Months

LEMMA IdleProcType == IdleProc \in Proc /\ IdleProc.pc = "idle"
BY NewLoanType, LoanAssumption DEF IdleProc, Proc, Months

(* A process that has become idle, or has returned to the list of loans,   *)
(* relies on no row.                                                       *)
LEMMA RestingIsGood ==
  ASSUME NEW p \in Procs, loanProc'[p] \in Proc, loanProc'[p].pc \in {"idle", "loans"}
  PROVE  Good(p)'
BY DEF Good, ProcTyped, HoldsRow, SelectedUnpaid, EditFits, SomethingDue, SelectedDue

(* One disjunct per action. *)
LEMMA NextCases ==
  ASSUME LoanNext
  PROVE  \/ \E l \in Loans : CreateLoan(l)
         \/ \E l \in Loans : DeleteLoanDetach(l)
         \/ \E l \in Loans : ArchiveAccount(l)
         \/ \E l \in Loans, b \in BOOLEAN : SetLoanArchived(l, b)
         \/ \E l \in Loans, n \in Numbers : DeletePayment(l, n)
         \/ \E c \in LoanClients, l \in Loans : RecordPayment(c, l)
         \/ \E c \in LoanClients, l \in Loans : AdvancePayments(c, l)
         \/ \E c \in LoanClients, l \in Loans : UpdateLoan(c, l)
         \/ \E c \in LoanClients, l \in Loans : DeleteLoanCascade(c, l)
         \/ \E c \in LoanClients : CommitLoanUpdate(c)
         \/ \E c \in LoanClients : CommitCascade(c)
         \/ \E c \in LoanClients : AbortCascade(c)
         \/ \E p \in Procs : CommitPayment(p)
         \/ \E w \in LoanWorkers : StartLoanRun(w)
         \/ \E w \in LoanWorkers, l \in Loans : TakeLoan(w, l)
         \/ \E w \in LoanWorkers : RefreshLoan(w)
         \/ \E w \in LoanWorkers : AutoRecord(w)
         \/ \E w \in LoanWorkers : FailLoan(w)
         \/ \E w \in LoanWorkers : AbortRun(w)
         \/ \E w \in LoanWorkers : FinishLoanRun(w)
         \/ \E p \in Procs : DeadlockVictim(p)
         \/ NextMonth
<1>1. \A c \in LoanClients : c \in Procs
  BY DEF Procs
<1>2. \A w \in LoanWorkers : w \in Procs
  BY DEF Procs
<1> QED BY <1>1, <1>2, Zenon DEF LoanNext, ClientRequest, ClientStep, LoanWorkerStep

(* What a step that replaces the state of one process leaves alone. *)
LEMMA ReplaceProc ==
  ASSUME LockInv, NEW p \in Procs, NEW h, loanProc' = [loanProc EXCEPT ![p] = h]
  PROVE  /\ loanProc' = [q \in Procs |-> loanProc'[q]]
         /\ loanProc'[p] = h
         /\ \A q \in Procs : q # p => loanProc'[q] = loanProc[q]
BY DEF LockInv

(* The rows other processes hold stay theirs when p takes a free row. *)
LEMMA TakingKeeps ==
  ASSUME LockInv, NEW p \in Procs, NEW l \in Loans, GetsLock(p, l),
         UNCHANGED <<loan, paid>>
  PROVE  /\ lock' \in [Loans -> Procs \cup {NoOne}]
         /\ lock'[l] = p /\ LiveLoan(l)
         /\ \A q \in Procs : q # p =>
              \A k \in Loans : lock[k] = q => lock'[k] = q /\ RowKept(k)
<1>1. lock \in [Loans -> Procs \cup {NoOne}] /\ NoOne \notin Procs
  BY LoanAssumption DEF LockInv, RowsOK
<1>2. \A k \in Loans : RowKept(k)
  BY DEF RowKept, PaidNumbers
<1> QED BY <1>1, <1>2 DEF GetsLock

(* The same when p ends its transaction. *)
LEMMA ReleasingKeeps ==
  ASSUME LockInv, NEW p \in Procs, lock' = Released(p)
  PROVE  /\ lock' \in [Loans -> Procs \cup {NoOne}]
         /\ \A q \in Procs : q # p => \A k \in Loans : lock[k] = q => lock'[k] = q
<1>1. lock \in [Loans -> Procs \cup {NoOne}]
  BY DEF LockInv, RowsOK
<1> QED BY <1>1 DEF Released

(* The invariant after a step of p that leaves every other process's rows. *)
LEMMA OneProcStep ==
  ASSUME LockInv, NEW p \in Procs, RowsOK', PaymentsBelong', Good(p)',
         loanProc' = [q \in Procs |-> loanProc'[q]],
         \A q \in Procs : q # p => loanProc'[q] = loanProc[q],
         \A q \in Procs : q # p =>
           \A l \in Loans : lock[l] = q /\ LiveLoan(l) => lock'[l] = q /\ RowKept(l)
  PROVE  LockInv'
<1>1. ASSUME NEW q \in Procs, q # p
      PROVE  Good(q)'
  BY <1>1, Undisturbed DEF LockInv
<1> QED BY <1>1 DEF LockInv

(* The invariant after a step of no process. *)
LEMMA NoProcStep ==
  ASSUME LockInv, RowsOK', PaymentsBelong', loanProc' = loanProc,
         \A q \in Procs, l \in Loans : lock[l] = q /\ LiveLoan(l) => lock'[l] = q /\ RowKept(l)
  PROVE  LockInv'
<1>1. ASSUME NEW q \in Procs
      PROVE  Good(q)'
  BY <1>1, Undisturbed DEF LockInv
<1> QED BY <1>1 DEF LockInv

(* Steps that only read: the payments still fit their loans. *)
LEMMA ReadingKeepsFit ==
  ASSUME PaymentsBelong, UNCHANGED <<loan, paid>>
  PROVE  PaymentsBelong' /\ \A l \in Loans : RowKept(l)
BY DEF PaymentsBelong, PaidNumbers, LiveLoan, RowKept

(* Steps of users that belong to no open request. *)
LEMMA UserSteps ==
  ASSUME LockInv, NEW l \in Loans,
         \/ CreateLoan(l)
         \/ DeleteLoanDetach(l)
         \/ ArchiveAccount(l)
         \/ \E b \in BOOLEAN : SetLoanArchived(l, b)
         \/ \E n \in Numbers : DeletePayment(l, n)
  PROVE  LockInv'
<1> USE LoanAssumption
<1>0. /\ loan \in [Loans -> LoanRow] /\ lock \in [Loans -> Procs \cup {NoOne}]
      /\ paid \in [Loans -> [Numbers -> 0..MaxCount]] /\ loanRequests \in 0..MaxLoanRequests
      /\ PaymentsBelong
  BY DEF LockInv, RowsOK
<1>r. ASSUME NEW kind, LoanRequest(kind)
      PROVE  loanRequests' \in 0..MaxLoanRequests
  BY <1>0, <1>r DEF LoanRequest
<1>1. CASE CreateLoan(l)
  <2> PICK r \in LoanRow : ValidRow(r) /\ loan' = [loan EXCEPT ![l] = r]
    BY <1>1 DEF CreateLoan
  <2>1. RowsOK'
    BY <1>0, <1>1 DEF LockInv, RowsOK, CreateLoan
  <2>2. ~LiveLoan(l)
    BY <1>1 DEF CreateLoan, LiveLoan
  <2>3. \A k \in Loans : k # l => loan'[k] = loan[k]
    BY <1>0
  <2>4. \A k \in Loans : PaidNumbers(k)' = PaidNumbers(k)
    BY <1>1 DEF CreateLoan, PaidNumbers
  <2>5. \A k \in Loans : LiveLoan(k) => RowKept(k)
    BY <2>2, <2>3, <2>4 DEF RowKept
  <2>6. PaidNumbers(l) = {}
    BY <1>0, <2>2 DEF PaymentsBelong
  <2>7. PaymentsBelong'
    BY <1>0, <1>1, <2>3, <2>4, <2>6 DEF PaymentsBelong, CreateLoan, LiveLoan
  <2> QED BY <1>1, <2>1, <2>5, <2>7, NoProcStep DEF CreateLoan
<1>2. CASE DeleteLoanDetach(l)
  <2> DEFINE r == [loan[l] EXCEPT !.state = "deleted"]
  <2>0. loan[l] \in LoanRow
    BY <1>0
  <2>1. r \in LoanRow
    BY <2>0 DEF LoanRow
  <2>2. loan' = [loan EXCEPT ![l] = r]
    BY <1>2 DEF DeleteLoanDetach
  <2> HIDE DEF r
  <2>3. paid' \in [Loans -> [Numbers -> 0..MaxCount]]
    BY <1>0, <1>2 DEF DeleteLoanDetach
  <2>u. UNCHANGED <<month, orphans, lock, loanProc>> /\ loanRequests' \in 0..MaxLoanRequests
    BY <1>2, <1>r DEF DeleteLoanDetach
  <2>4. RowsOK'
    BY <1>0, <2>u, <2>1, <2>2, <2>3 DEF LockInv, RowsOK
  <2>5. \A k \in Loans : k # l => loan'[k] = loan[k] /\ paid'[k] = paid[k]
    BY <1>0, <1>2, <2>2 DEF DeleteLoanDetach
  <2>6. PaidNumbers(l)' = {} /\ \A k \in Loans : k # l => PaidNumbers(k)' = PaidNumbers(k)
    BY <1>0, <1>2, <2>5 DEF DeleteLoanDetach, PaidNumbers
  <2>7. PaymentsBelong'
    BY <1>0, <2>5, <2>6 DEF PaymentsBelong, LiveLoan
  <2>8. \A k \in Loans : k # l => RowKept(k)
    BY <2>5, <2>6 DEF RowKept
  <2>9. \A q \in Procs, k \in Loans : lock[k] = q => k # l
    BY <1>2 DEF DeleteLoanDetach
  <2> QED BY <1>2, <2>4, <2>7, <2>8, <2>9, NoProcStep DEF DeleteLoanDetach
<1>3. CASE ArchiveAccount(l) \/ \E b \in BOOLEAN : SetLoanArchived(l, b)
  <2>0. loan[l] \in LoanRow
    BY <1>0
  <2>1. \E r \in LoanRow :
          /\ loan' = [loan EXCEPT ![l] = r]
          /\ r.state = loan[l].state /\ r.count = loan[l].count /\ r.first = loan[l].first
    <3>1. CASE ArchiveAccount(l)
      <4> DEFINE a == IF loan[l].account = "active" THEN "archived" ELSE "active"
                 r == [loan[l] EXCEPT !.account = a]
      <4>1. a \in {"none", "active", "archived"}
        OBVIOUS
      <4>2. loan' = [loan EXCEPT ![l] = r]
        BY <3>1 DEF ArchiveAccount
      <4> HIDE DEF a
      <4>3. r \in LoanRow /\ r.state = loan[l].state /\ r.count = loan[l].count /\ r.first = loan[l].first
        BY <2>0, <4>1 DEF LoanRow
      <4> QED BY <4>2, <4>3
    <3>2. CASE \E b \in BOOLEAN : SetLoanArchived(l, b)
      <4> PICK b \in BOOLEAN : SetLoanArchived(l, b)
        BY <3>2
      <4> DEFINE r == [loan[l] EXCEPT !.archived = b]
      <4>1. loan' = [loan EXCEPT ![l] = r]
        BY DEF SetLoanArchived
      <4>2. r \in LoanRow /\ r.state = loan[l].state /\ r.count = loan[l].count /\ r.first = loan[l].first
        BY <2>0 DEF LoanRow
      <4> QED BY <4>1, <4>2
    <3> QED BY <1>3, <3>1, <3>2
  <2> PICK r \in LoanRow :
          /\ loan' = [loan EXCEPT ![l] = r]
          /\ r.state = loan[l].state /\ r.count = loan[l].count /\ r.first = loan[l].first
    BY <2>1
  <2>2. UNCHANGED <<month, paid, orphans, lock, loanProc>> /\ loanRequests' \in 0..MaxLoanRequests
    BY <1>3, <1>r DEF ArchiveAccount, SetLoanArchived
  <2>3. RowsOK'
    BY <1>0, <2>2 DEF LockInv, RowsOK
  <2>4. \A k \in Loans : PaidNumbers(k)' = PaidNumbers(k)
    BY <2>2 DEF PaidNumbers
  <2>5. \A k \in Loans : loan'[k] = IF k = l THEN r ELSE loan[k]
    BY <1>0
  <2>6. \A k \in Loans : RowKept(k)
    BY <2>4, <2>5 DEF RowKept
  <2>7. PaymentsBelong'
    BY <1>0, <2>2, <2>4, <2>5 DEF PaymentsBelong, LiveLoan
  <2> QED BY <2>2, <2>3, <2>6, <2>7, NoProcStep
<1>4. CASE \E n \in Numbers : DeletePayment(l, n)
  <2> PICK n \in Numbers : DeletePayment(l, n)
    BY <1>4
  <2>1. UNCHANGED <<month, loan, orphans, lock, loanProc>> /\ loanRequests' \in 0..MaxLoanRequests
    BY <1>r DEF DeletePayment
  <2>2. paid' \in [Loans -> [Numbers -> 0..MaxCount]]
    BY <1>0 DEF DeletePayment
  <2>3. \A k \in Loans, m \in Numbers : paid'[k][m] = paid[k][m] \/ paid'[k][m] = 0
    BY <1>0 DEF DeletePayment
  <2>4. \A k \in Loans : \A m \in PaidNumbers(k)' : m \in PaidNumbers(k) /\ paid'[k][m] = paid[k][m]
    BY <2>3 DEF PaidNumbers
  <2>5. RowsOK'
    BY <1>0, <2>1, <2>2 DEF LockInv, RowsOK
  <2>6. \A k \in Loans : RowKept(k)
    BY <2>1, <2>4 DEF RowKept
  <2>7. PaymentsBelong'
    BY <1>0, <2>1, <2>4 DEF PaymentsBelong, LiveLoan
  <2> QED BY <2>1, <2>5, <2>6, <2>7, NoProcStep
<1> QED BY <1>1, <1>2, <1>3, <1>4

(***************************************************************************)
(* The reading half of a request or of the task: it takes the row of loan  *)
(* l, selects installments or plans an edit, and changes no table.         *)
(***************************************************************************)
LEMMA ReadUnderLock ==
  ASSUME LockInv, NEW p \in Procs, NEW l \in Loans, NEW h \in Proc,
         GetsLock(p, l), UNCHANGED <<month, loan, paid, orphans>>,
         loanRequests' \in 0..MaxLoanRequests, loanProc' = [loanProc EXCEPT ![p] = h],
         h.loan = l, h.pc \in {"commit", "update", "record", "loans"},
         h.pc = "commit" => /\ h.sel \subseteq Unpaid(l) /\ h.row.count = loan[l].count
                            /\ p \in LoanWorkers => \A n \in h.sel : DueMonth(l, n) <= h.day,
         h.pc = "update" => /\ h.row.state = "live"
                            /\ \A n \in PaidNumbers(l) : n <= h.row.count,
         h.pc = "record" => \E n \in Unpaid(l) : DueMonth(l, n) <= h.day
  PROVE  LockInv'
<1>1. /\ lock' \in [Loans -> Procs \cup {NoOne}]
      /\ lock'[l] = p /\ LiveLoan(l)
      /\ \A q \in Procs : q # p =>
           \A k \in Loans : lock[k] = q => lock'[k] = q /\ RowKept(k)
  BY TakingKeeps
<1>2. RowsOK' /\ PaymentsBelong'
  BY <1>1, ReadingKeepsFit DEF LockInv, RowsOK
<1>3. /\ loanProc' = [q \in Procs |-> loanProc'[q]]
      /\ loanProc'[p] = h
      /\ \A q \in Procs : q # p => loanProc'[q] = loanProc[q]
  BY ReplaceProc
<1>4. /\ PaidNumbers(l)' = PaidNumbers(l) /\ Unpaid(l)' = Unpaid(l) /\ LiveLoan(l)' = LiveLoan(l)
      /\ \A n : DueMonth(l, n)' = DueMonth(l, n)
  BY DEF PaidNumbers, Unpaid, LiveLoan, DueMonth
<1>5. Good(p)'
  <2>1. ProcTyped(p)'
    BY <1>3 DEF ProcTyped
  <2>2. HoldsRow(p)'
    BY <1>1, <1>3, <1>4 DEF HoldsRow
  <2>3. SelectedUnpaid(p)' /\ EditFits(p)'
    <3>1. loan[l].count \in Int
      BY DEF LockInv, RowsOK, LoanRow, Numbers
    <3>2. \A n \in Unpaid(l) : n \notin PaidNumbers(l) /\ n <= loan[l].count
      BY <3>1 DEF Unpaid
    <3> QED BY <1>3, <1>4, <3>2 DEF SelectedUnpaid, EditFits
  <2>4. SomethingDue(p)'
    BY <1>3, <1>4 DEF SomethingDue, DueMonth, Unpaid, PaidNumbers
  <2>5. SelectedDue(p)'
    BY <1>3, <1>4 DEF SelectedDue, DueMonth
  <2> QED BY <2>1, <2>2, <2>3, <2>4, <2>5 DEF Good
<1> QED BY <1>1, <1>2, <1>3, <1>5, OneProcStep

(***************************************************************************)
(* A step of p that changes no table and keeps or frees its rows, after    *)
(* which p relies on none.                                                 *)
(***************************************************************************)
LEMMA RestingStep ==
  ASSUME LockInv, NEW p \in Procs, NEW h \in Proc,
         lock' = lock \/ lock' = Released(p), UNCHANGED <<month, loan, paid, orphans>>,
         loanRequests' \in 0..MaxLoanRequests, loanProc' = [loanProc EXCEPT ![p] = h],
         \/ h.pc \in {"idle", "loans"}
         \/ h.pc = "cascade" /\ h.loan \in Loans
         \/ h.pc = "refresh" /\ h.loan \in Loans /\ h.budget # 0
  PROVE  LockInv'
<1>1. /\ loanProc' = [q \in Procs |-> loanProc'[q]]
      /\ loanProc'[p] = h
      /\ \A q \in Procs : q # p => loanProc'[q] = loanProc[q]
  BY ReplaceProc
<1>2. Good(p)'
  BY <1>1 DEF Good, ProcTyped, HoldsRow, SelectedUnpaid, EditFits, SomethingDue, SelectedDue
<1>3. /\ lock' \in [Loans -> Procs \cup {NoOne}]
      /\ \A q \in Procs : q # p => \A k \in Loans : lock[k] = q => lock'[k] = q
  BY ReleasingKeeps DEF LockInv, RowsOK
<1>4. RowsOK' /\ PaymentsBelong' /\ \A k \in Loans : RowKept(k)
  BY <1>3, ReadingKeepsFit DEF LockInv, RowsOK
<1> QED BY <1>1, <1>2, <1>3, <1>4, OneProcStep

(* Facts used by every step. *)
LEMMA Typed ==
  ASSUME LockInv
  PROVE  /\ loan \in [Loans -> LoanRow]
         /\ paid \in [Loans -> [Numbers -> 0..MaxCount]]
         /\ loanRequests \in 0..MaxLoanRequests
         /\ \A p \in Procs : loanProc[p] \in Proc
         /\ \A l \in Loans : /\ loan[l].count \in Numbers
                            /\ Unpaid(l) \subseteq Numbers
                            /\ \A n \in Numbers : DueMonth(l, n) \in Int
<1>1. /\ loan \in [Loans -> LoanRow] /\ paid \in [Loans -> [Numbers -> 0..MaxCount]]
      /\ loanRequests \in 0..MaxLoanRequests /\ \A p \in Procs : loanProc[p] \in Proc
  BY DEF LockInv, RowsOK, Good, ProcTyped
<1>2. \A l \in Loans : loan[l].count \in Numbers /\ loan[l].first \in Months
  BY <1>1 DEF LoanRow
<1>3. \A l \in Loans : Unpaid(l) \subseteq Numbers
  BY <1>2, LoanAssumption DEF Unpaid, Numbers
<1>4. \A l \in Loans, n \in Numbers : DueMonth(l, n) \in Int
  BY <1>2, LoanAssumption DEF DueMonth, Numbers, Months
<1> QED BY <1>1, <1>2, <1>3, <1>4

(* Requests up to their commit. *)
LEMMA RequestSteps ==
  ASSUME LockInv, NEW c \in LoanClients, NEW l \in Loans,
         RecordPayment(c, l) \/ AdvancePayments(c, l) \/ UpdateLoan(c, l) \/ DeleteLoanCascade(c, l)
  PROVE  LockInv'
<1> USE LoanAssumption
<1>0. c \in Procs /\ c \notin LoanWorkers
  BY DEF Procs
<1>t. /\ loanProc[c] \in Proc /\ loan[l] \in LoanRow /\ Unpaid(l) \subseteq Numbers
  BY <1>0, Typed
<1>r. ASSUME NEW kind, LoanRequest(kind)
      PROVE  loanRequests' \in 0..MaxLoanRequests
  BY <1>r, Typed DEF LoanRequest
<1>1. ASSUME NEW S \in SUBSET Unpaid(l),
             GetsLock(c, l), UNCHANGED <<month, loan, paid, orphans>>, loanRequests' \in 0..MaxLoanRequests,
             loanProc' = [loanProc EXCEPT ![c] = [loanProc[c] EXCEPT !.pc = "commit", !.loan = l, !.sel = S,
                                                                     !.row = loan[l]]]
      PROVE  LockInv'
  <2> DEFINE h == [loanProc[c] EXCEPT !.pc = "commit", !.loan = l, !.sel = S, !.row = loan[l]]
  <2>1. S \in SUBSET Numbers
    BY <1>t
  <2>2. h \in Proc /\ h.pc = "commit" /\ h.loan = l /\ h.sel = S /\ h.row = loan[l]
    BY <1>t, <2>1 DEF Proc
  <2>3. loanProc' = [loanProc EXCEPT ![c] = h]
    BY <1>1
  <2> HIDE DEF h
  <2> QED BY <1>0, <1>1, <2>2, <2>3, ReadUnderLock
<1>2. CASE RecordPayment(c, l)
  <2> PICK n \in Numbers :
        /\ NextUnpaid(l, n)
        /\ loanProc' = [loanProc EXCEPT ![c] = [loanProc[c] EXCEPT !.pc = "commit", !.loan = l, !.sel = {n},
                                                                   !.row = loan[l]]]
    BY <1>2 DEF RecordPayment
  <2>1. {n} \in SUBSET Unpaid(l)
    BY DEF NextUnpaid
  <2>2. GetsLock(c, l) /\ UNCHANGED <<month, loan, paid, orphans>> /\ loanRequests' \in 0..MaxLoanRequests
    BY <1>2, <1>r DEF RecordPayment
  <2> QED BY <1>1, <2>1, <2>2
<1>3. CASE AdvancePayments(c, l)
  <2> PICK k \in Numbers :
        /\ k <= Cardinality(Unpaid(l))
        /\ loanProc' = [loanProc EXCEPT ![c] = [loanProc[c] EXCEPT !.pc = "commit", !.loan = l,
                                                                   !.sel = LastUnpaid(l, k), !.row = loan[l]]]
    BY <1>3 DEF AdvancePayments
  <2>1. LastUnpaid(l, k) \in SUBSET Unpaid(l)
    BY DEF LastUnpaid
  <2>2. GetsLock(c, l) /\ UNCHANGED <<month, loan, paid, orphans>> /\ loanRequests' \in 0..MaxLoanRequests
    BY <1>3, <1>r DEF AdvancePayments
  <2> QED BY <1>1, <2>1, <2>2
<1>4. CASE UpdateLoan(c, l)
  <2> PICK r \in LoanRow :
        /\ ValidRow(r)
        /\ \A n \in PaidNumbers(l) : n <= r.count
        /\ loanProc' = [loanProc EXCEPT ![c] = [loanProc[c] EXCEPT !.pc = "update", !.loan = l, !.row = r]]
    BY <1>4 DEF UpdateLoan
  <2> DEFINE h == [loanProc[c] EXCEPT !.pc = "update", !.loan = l, !.row = r]
  <2>1. h \in Proc /\ h.pc = "update" /\ h.loan = l /\ h.row = r
    BY <1>t DEF Proc
  <2>2. loanProc' = [loanProc EXCEPT ![c] = h] /\ r.state = "live"
    BY DEF ValidRow
  <2>3. GetsLock(c, l) /\ UNCHANGED <<month, loan, paid, orphans>> /\ loanRequests' \in 0..MaxLoanRequests
    BY <1>4, <1>r DEF UpdateLoan
  <2> HIDE DEF h
  <2> QED BY <1>0, <2>1, <2>2, <2>3, ReadUnderLock
<1>5. CASE DeleteLoanCascade(c, l)
  <2> DEFINE h == [loanProc[c] EXCEPT !.pc = "cascade", !.loan = l, !.sel = PaidNumbers(l)]
  <2>1. PaidNumbers(l) \in SUBSET Numbers
    BY DEF PaidNumbers
  <2>2. h \in Proc /\ h.pc = "cascade" /\ h.loan = l
    BY <1>t, <2>1 DEF Proc
  <2>3. loanProc' = [loanProc EXCEPT ![c] = h]
    BY <1>5 DEF DeleteLoanCascade
  <2>4. lock' = lock /\ UNCHANGED <<month, loan, paid, orphans>> /\ loanRequests' \in 0..MaxLoanRequests
    BY <1>5, <1>r DEF DeleteLoanCascade
  <2> HIDE DEF h
  <2> QED BY <1>0, <2>2, <2>3, <2>4, RestingStep
<1> QED BY <1>2, <1>3, <1>4, <1>5

(* The commit of an edit. *)
LEMMA CommitUpdateStep ==
  ASSUME LockInv, NEW c \in LoanClients, CommitLoanUpdate(c)
  PROVE  LockInv'
<1> USE LoanAssumption
<1>0. c \in Procs /\ loanProc[c].pc = "update" /\ Good(c)
  BY DEF Procs, CommitLoanUpdate, LockInv
<1>l. PICK l \in Loans : l = loanProc[c].loan
  BY <1>0 DEF Good, ProcTyped
<1>1. /\ l \in Loans /\ lock[l] = c /\ loanProc[c] \in Proc
      /\ loanProc[c].row.state = "live"
      /\ \A n \in PaidNumbers(l) : n <= loanProc[c].row.count
  BY <1>0, <1>l DEF Good, ProcTyped, HoldsRow, EditFits
<1>2. /\ loan \in [Loans -> LoanRow] /\ paid \in [Loans -> [Numbers -> 0..MaxCount]]
      /\ loanProc[c].row \in LoanRow
  BY <1>1, Typed DEF Proc
<1>3. PICK a \in SavedAccount(c) :
        loan' = [loan EXCEPT ![l] = [loanProc[c].row EXCEPT !.account = a]]
  BY <1>l DEF CommitLoanUpdate
<1> DEFINE r == [loanProc[c].row EXCEPT !.account = a]
<1>4. a \in {"none", "active", "archived"}
  BY <1>1, <1>2, <1>l DEF SavedAccount, LoanRow
<1>5. r \in LoanRow /\ r.state = "live" /\ r.count = loanProc[c].row.count /\ r.count \in Numbers
  BY <1>1, <1>2, <1>4 DEF LoanRow
<1>6. loan' = [loan EXCEPT ![l] = r]
  BY <1>3
<1> HIDE DEF r
<1>7. /\ paid' = [paid EXCEPT ![l] = [n \in Numbers |-> IF paid[l][n] = 0 THEN 0 ELSE r.count]]
      /\ lock' = Released(c) /\ loanProc' = [loanProc EXCEPT ![c] = IdleProc]
      /\ UNCHANGED <<month, orphans, loanRequests>>
  BY <1>5, <1>l DEF CommitLoanUpdate
<1>8. paid' \in [Loans -> [Numbers -> 0..MaxCount]]
  <2>1. [n \in Numbers |-> IF paid[l][n] = 0 THEN 0 ELSE r.count] \in [Numbers -> 0..MaxCount]
    BY <1>5 DEF Numbers
  <2> QED BY <1>2, <1>7, <2>1
<1>9. /\ lock' \in [Loans -> Procs \cup {NoOne}]
      /\ \A q \in Procs : q # c => \A k \in Loans : lock[k] = q => lock'[k] = q
  BY <1>0, <1>7, ReleasingKeeps
<1>10. RowsOK'
  BY <1>2, <1>5, <1>6, <1>7, <1>8, <1>9 DEF LockInv, RowsOK
<1>11. /\ loan'[l] = r
       /\ \A k \in Loans : k # l => loan'[k] = loan[k] /\ paid'[k] = paid[k]
       /\ \A n \in Numbers : paid'[l][n] = IF paid[l][n] = 0 THEN 0 ELSE r.count
  BY <1>1, <1>2, <1>6, <1>7
<1>12. /\ \A k \in Loans : PaidNumbers(k)' \subseteq PaidNumbers(k)
       /\ \A n \in PaidNumbers(l)' : paid'[l][n] = r.count
  <2>1. \A k \in Loans : PaidNumbers(k)' = {n \in Numbers : paid'[k][n] # 0}
    BY DEF PaidNumbers
  <2>2. ASSUME NEW n \in PaidNumbers(l)'
        PROVE  n \in PaidNumbers(l) /\ paid'[l][n] = r.count
    BY <1>1, <1>11, <2>1 DEF PaidNumbers
  <2>3. ASSUME NEW k \in Loans, k # l
        PROVE  PaidNumbers(k)' = PaidNumbers(k)
    BY <1>11, <2>1, <2>3 DEF PaidNumbers
  <2> QED BY <2>2, <2>3
<1>13. PaymentsBelong'
  <2>1. \A n \in PaidNumbers(l)' : LiveLoan(l)' /\ n <= loan'[l].count /\ paid'[l][n] = loan'[l].count
    BY <1>1, <1>5, <1>11, <1>12 DEF LiveLoan
  <2>2. ASSUME NEW k \in Loans, k # l
        PROVE  \A n \in PaidNumbers(k)' : LiveLoan(k)' /\ n <= loan'[k].count /\ paid'[k][n] = loan'[k].count
    BY <1>11, <1>12, <2>2 DEF LockInv, PaymentsBelong, LiveLoan
  <2> QED BY <2>1, <2>2 DEF PaymentsBelong
<1>14. \A k \in Loans : k # l => RowKept(k)
  BY <1>11, <1>12 DEF RowKept
<1>15. /\ loanProc' = [q \in Procs |-> loanProc'[q]] /\ loanProc'[c] = IdleProc
       /\ \A q \in Procs : q # c => loanProc'[q] = loanProc[q]
  BY <1>0, <1>7, ReplaceProc
<1>16. Good(c)'
  BY <1>0, <1>15, IdleProcType, RestingIsGood
<1> QED BY <1>0, <1>1, <1>9, <1>10, <1>13, <1>14, <1>15, <1>16, OneProcStep

(* The commit of a cascading deletion. *)
LEMMA CommitCascadeStep ==
  ASSUME LockInv, NEW c \in LoanClients, CommitCascade(c)
  PROVE  LockInv'
<1> USE LoanAssumption
<1>0. c \in Procs /\ loanProc[c].pc = "cascade" /\ Good(c)
  BY DEF Procs, CommitCascade, LockInv
<1>l. PICK l \in Loans : l = loanProc[c].loan
  BY <1>0 DEF Good, ProcTyped
<1>1. loan \in [Loans -> LoanRow] /\ paid \in [Loans -> [Numbers -> 0..MaxCount]]
  BY Typed
<1> DEFINE r == [loan[l] EXCEPT !.state = "deleted"]
           z == [n \in Numbers |-> 0]
           o == PaidNumbers(l) \ loanProc[c].sel
<1>2. r \in LoanRow /\ z \in [Numbers -> 0..MaxCount] /\ o \in SUBSET Numbers
  <2>1. loan[l] \in LoanRow
    BY <1>1
  <2> QED BY <2>1 DEF LoanRow, PaidNumbers
<1>3. /\ lock[l] = NoOne
      /\ loan' = [loan EXCEPT ![l] = r]
      /\ paid' = [paid EXCEPT ![l] = z]
      /\ orphans' = [orphans EXCEPT ![l] = o]
      /\ loanProc' = [loanProc EXCEPT ![c] = IdleProc]
      /\ UNCHANGED <<month, lock, loanRequests>>
  BY <1>l DEF CommitCascade
<1>4. \A n \in Numbers : z[n] = 0
  OBVIOUS
<1> HIDE DEF r, z, o
<1>5. RowsOK'
  BY <1>1, <1>2, <1>3 DEF LockInv, RowsOK
<1>6. /\ paid'[l] = z
      /\ \A k \in Loans : k # l => loan'[k] = loan[k] /\ paid'[k] = paid[k]
  BY <1>1, <1>3
<1>7. PaidNumbers(l)' = {} /\ \A k \in Loans : k # l => PaidNumbers(k)' = PaidNumbers(k)
  BY <1>4, <1>6 DEF PaidNumbers
<1>8. PaymentsBelong'
  BY <1>6, <1>7 DEF LockInv, PaymentsBelong, LiveLoan
<1>9. \A k \in Loans : k # l => RowKept(k)
  BY <1>6, <1>7 DEF RowKept
<1>10. /\ loanProc' = [q \in Procs |-> loanProc'[q]] /\ loanProc'[c] = IdleProc
       /\ \A q \in Procs : q # c => loanProc'[q] = loanProc[q]
  BY <1>0, <1>3, ReplaceProc
<1>11. Good(c)'
  BY <1>0, <1>10, IdleProcType, RestingIsGood
<1>12. \A q \in Procs, k \in Loans : lock[k] = q => k # l
  BY <1>3
<1> QED BY <1>0, <1>3, <1>5, <1>8, <1>9, <1>10, <1>11, <1>12, OneProcStep

(* The commit of payments, by a request or by the task. *)
LEMMA CommitPaymentStep ==
  ASSUME LockInv, NEW p \in Procs, CommitPayment(p)
  PROVE  LockInv'
<1> USE LoanAssumption
<1>0. loanProc[p].pc = "commit" /\ Good(p)
  BY DEF CommitPayment, LockInv
<1>l. PICK l \in Loans : l = loanProc[p].loan
  BY <1>0 DEF Good, ProcTyped
<1>1. /\ lock[l] = p /\ LiveLoan(l) /\ loanProc[p] \in Proc
      /\ loanProc[p].row.count = loan[l].count
      /\ \A n \in loanProc[p].sel : n <= loan[l].count
  BY <1>0, <1>l DEF Good, ProcTyped, HoldsRow, SelectedUnpaid
<1>2. /\ loan \in [Loans -> LoanRow] /\ paid \in [Loans -> [Numbers -> 0..MaxCount]]
      /\ loan[l].count \in Numbers
  BY Typed
<1> DEFINE z == [n \in Numbers |-> IF n \in loanProc[p].sel THEN loan[l].count ELSE paid[l][n]]
           pc == IF loanProc[p].budget = 0 THEN "loans" ELSE "refresh"
           h == IF p \in LoanWorkers THEN [loanProc[p] EXCEPT !.pc = pc, !.sel = {}] ELSE IdleProc
<1>3. z \in [Numbers -> 0..MaxCount]
  BY <1>2 DEF Numbers
<1>4. /\ paid' = [paid EXCEPT ![l] = z]
      /\ lock' = Released(p) /\ loanProc' = [loanProc EXCEPT ![p] = h]
      /\ UNCHANGED <<month, loan, orphans, loanRequests>>
  BY <1>1, <1>l DEF CommitPayment
<1>5. /\ h \in Proc
      /\ \/ h.pc \in {"idle", "loans"}
         \/ h.pc = "refresh" /\ h.loan \in Loans /\ h.budget # 0
  <2>1. CASE p \in LoanWorkers
    BY <1>1, <1>l, <2>1 DEF Proc
  <2>2. CASE p \notin LoanWorkers
    BY <2>2, IdleProcType
  <2> QED BY <2>1, <2>2
<1>6. \A n \in Numbers : z[n] = IF n \in loanProc[p].sel THEN loan[l].count ELSE paid[l][n]
  OBVIOUS
<1> HIDE DEF z, h, pc
<1>7. /\ loanProc' = [q \in Procs |-> loanProc'[q]] /\ loanProc'[p] = h
      /\ \A q \in Procs : q # p => loanProc'[q] = loanProc[q]
  BY <1>4, ReplaceProc
<1>8. Good(p)'
  BY <1>5, <1>7 DEF Good, ProcTyped, HoldsRow, SelectedUnpaid, EditFits, SomethingDue, SelectedDue
<1>9. /\ lock' \in [Loans -> Procs \cup {NoOne}]
      /\ \A q \in Procs : q # p => \A k \in Loans : lock[k] = q => lock'[k] = q
  BY <1>4, ReleasingKeeps
<1>10. RowsOK'
  BY <1>2, <1>3, <1>4, <1>9 DEF LockInv, RowsOK
<1>11. paid'[l] = z /\ \A k \in Loans : k # l => paid'[k] = paid[k]
  BY <1>2, <1>4
<1>12. PaymentsBelong'
  <2>1. ASSUME NEW n \in PaidNumbers(l)'
        PROVE  LiveLoan(l)' /\ n <= loan'[l].count /\ paid'[l][n] = loan'[l].count
    <3>1. n \in Numbers /\ z[n] # 0
      BY <1>11 DEF PaidNumbers
    <3>2. CASE n \in loanProc[p].sel
      BY <1>1, <1>4, <1>6, <1>11, <3>1, <3>2 DEF LiveLoan
    <3>3. CASE n \notin loanProc[p].sel
      <4>1. n \in PaidNumbers(l) /\ paid'[l][n] = paid[l][n]
        BY <1>6, <1>11, <3>1, <3>3 DEF PaidNumbers
      <4> QED BY <1>4, <4>1 DEF LockInv, PaymentsBelong, LiveLoan
    <3> QED BY <3>2, <3>3
  <2>2. ASSUME NEW k \in Loans, k # l, NEW n \in PaidNumbers(k)'
        PROVE  LiveLoan(k)' /\ n <= loan'[k].count /\ paid'[k][n] = loan'[k].count
    <3>1. n \in PaidNumbers(k) /\ paid'[k] = paid[k]
      BY <1>11, <2>2 DEF PaidNumbers
    <3> QED BY <1>4, <3>1 DEF LockInv, PaymentsBelong, LiveLoan
  <2> QED BY <2>1, <2>2 DEF PaymentsBelong
<1>13. \A k \in Loans : k # l => RowKept(k)
  BY <1>4, <1>11 DEF RowKept, PaidNumbers
<1>14. \A q \in Procs, k \in Loans : q # p /\ lock[k] = q => k # l
  BY <1>1
<1> QED BY <1>7, <1>8, <1>9, <1>10, <1>12, <1>13, <1>14, OneProcStep

(* The task between its commits. *)
LEMMA RunSteps ==
  ASSUME LockInv, NEW w \in LoanWorkers,
         \/ StartLoanRun(w)
         \/ \E l \in Loans : TakeLoan(w, l)
         \/ RefreshLoan(w)
         \/ AutoRecord(w)
         \/ FailLoan(w)
  PROVE  LockInv'
<1> USE LoanAssumption
<1>0. w \in Procs /\ loanProc[w] \in Proc /\ Good(w) /\ month \in Months
  BY Typed DEF Procs, LockInv, RowsOK
<1>t. loanRequests \in 0..MaxLoanRequests
  BY Typed
<1>1. CASE StartLoanRun(w)
  <2> DEFINE todo == {l \in Loans : LiveLoan(l) /\ loan[l].auto /\ ~loan[l].archived}
             h == [loanProc[w] EXCEPT !.pc = "loans", !.day = month, !.pending = todo]
  <2>1. loanProc' = [loanProc EXCEPT ![w] = h] /\ UNCHANGED <<month, loan, paid, orphans, lock, loanRequests>>
    BY <1>1 DEF StartLoanRun
  <2>2. todo \in SUBSET Loans
    OBVIOUS
  <2> HIDE DEF todo
  <2>3. h \in Proc /\ h.pc = "loans"
    BY <1>0, <2>2 DEF Proc
  <2> HIDE DEF h
  <2> QED BY <1>0, <1>t, <2>1, <2>3, RestingStep
<1>2. CASE \E l \in Loans : TakeLoan(w, l)
  <2> PICK l \in Loans : TakeLoan(w, l)
    BY <1>2
  <2> DEFINE rest == loanProc[w].pending \ {l}
             h == [loanProc[w] EXCEPT !.pc = "refresh", !.loan = l, !.pending = rest,
                                      !.budget = MaxLoanCatchUp]
  <2>0. rest \in SUBSET Loans /\ MaxLoanCatchUp \in 0..MaxLoanCatchUp /\ MaxLoanCatchUp # 0
    BY <1>0 DEF Proc
  <2>1. loanProc' = [loanProc EXCEPT ![w] = h] /\ UNCHANGED <<month, loan, paid, orphans, lock, loanRequests>>
    BY DEF TakeLoan
  <2> HIDE DEF rest
  <2>2. h \in Proc /\ h.pc = "refresh" /\ h.loan = l /\ h.budget # 0
    BY <1>0, <2>0 DEF Proc
  <2> HIDE DEF h
  <2> QED BY <1>0, <1>t, <2>1, <2>2, RestingStep
<1>3. CASE RefreshLoan(w)
  <2>l. PICK l \in Loans : l = loanProc[w].loan
    BY <1>0, <1>3 DEF Good, ProcTyped, RefreshLoan
  <2>0. loanProc[w].budget \in 1..MaxLoanCatchUp
    BY <1>0, <1>3 DEF Good, ProcTyped, RefreshLoan, Proc
  <2>1. GetsLock(w, l) /\ UNCHANGED <<month, loan, paid, orphans, loanRequests>>
    BY <1>3, <2>l DEF RefreshLoan
  <2>2. CASE NothingDue(w, l)
    <3> DEFINE h == [loanProc[w] EXCEPT !.pc = "loans"]
    <3>1. loanProc' = [loanProc EXCEPT ![w] = h]
      BY <1>3, <2>l, <2>2 DEF RefreshLoan
    <3>2. h \in Proc /\ h.pc = "loans" /\ h.loan = l
      BY <1>0, <2>l DEF Proc
    <3> HIDE DEF h
    <3> QED BY <1>0, <1>t, <2>1, <3>1, <3>2, ReadUnderLock
  <2>3. CASE ~NothingDue(w, l)
    <3> DEFINE left == loanProc[w].budget - 1
               h == [loanProc[w] EXCEPT !.pc = "record", !.budget = left]
    <3>0. left \in 0..MaxLoanCatchUp
      BY <2>0
    <3>1. loanProc' = [loanProc EXCEPT ![w] = h]
      BY <1>3, <2>l, <2>3 DEF RefreshLoan
    <3> HIDE DEF left
    <3>2. h \in Proc /\ h.pc = "record" /\ h.loan = l /\ h.day = loanProc[w].day
      BY <1>0, <2>l, <3>0 DEF Proc
    <3>3. \E n \in Unpaid(l) : DueMonth(l, n) <= loanProc[w].day
      <4>1. PICK n \in Numbers : NextUnpaid(l, n) /\ ~(DueMonth(l, n) > loanProc[w].day)
        BY <2>3 DEF NothingDue
      <4>2. DueMonth(l, n) \in Int /\ loanProc[w].day \in Int
        BY <1>0, Typed DEF Proc, Months
      <4> QED BY <4>1, <4>2 DEF NextUnpaid
    <3> HIDE DEF h
    <3> QED BY <1>0, <1>t, <2>1, <3>1, <3>2, <3>3, ReadUnderLock
  <2> QED BY <2>2, <2>3
<1>4. CASE AutoRecord(w)
  <2>l. PICK l \in Loans : l = loanProc[w].loan
    BY <1>0, <1>4 DEF Good, ProcTyped, AutoRecord
  <2>0. /\ lock[l] = w /\ LiveLoan(l)
        /\ \E m \in Unpaid(l) : DueMonth(l, m) <= loanProc[w].day
    BY <1>0, <1>4, <2>l DEF Good, HoldsRow, SomethingDue, AutoRecord
  <2>1. UNCHANGED <<month, loan, paid, orphans, lock, loanRequests>>
    BY <1>4 DEF AutoRecord
  <2>2. GetsLock(w, l)
    BY <2>0, <2>1 DEF GetsLock, LockInv, RowsOK
  <2>3. PICK n \in Numbers :
          /\ NextUnpaid(l, n)
          /\ loanProc' = [loanProc EXCEPT ![w] = [loanProc[w] EXCEPT !.pc = "commit", !.sel = {n}, !.row = loan[l]]]
    BY <1>4, <2>l DEF AutoRecord
  <2> DEFINE h == [loanProc[w] EXCEPT !.pc = "commit", !.sel = {n}, !.row = loan[l]]
  <2>4. loanProc' = [loanProc EXCEPT ![w] = h]
    BY <2>3
  <2>5. loan[l] \in LoanRow
    BY Typed
  <2>6. /\ h \in Proc /\ h.pc = "commit" /\ h.loan = l /\ h.sel = {n} /\ h.row = loan[l]
        /\ h.day = loanProc[w].day
    BY <1>0, <2>l, <2>5 DEF Proc
  <2>7. {n} \subseteq Unpaid(l) /\ DueMonth(l, n) <= loanProc[w].day
    <3>1. PICK m \in Unpaid(l) : DueMonth(l, m) <= loanProc[w].day
      BY <2>0
    <3>2. n \in Unpaid(l) /\ n <= m
      BY <2>3 DEF NextUnpaid
    <3>3. /\ n \in Int /\ m \in Int /\ loan[l].first \in Int /\ loanProc[w].day \in Int
      BY <1>0, <2>5, Typed DEF LoanRow, Months, Numbers, Proc
    <3> QED BY <3>1, <3>2, <3>3 DEF DueMonth
  <2> HIDE DEF h
  <2> QED BY <1>0, <1>t, <2>1, <2>2, <2>4, <2>6, <2>7, ReadUnderLock
<1>5. CASE FailLoan(w)
  <2> DEFINE h == [loanProc[w] EXCEPT !.pc = "loans", !.expired = TRUE]
  <2>1. /\ loanProc' = [loanProc EXCEPT ![w] = h] /\ lock' = Released(w)
        /\ UNCHANGED <<month, loan, paid, orphans, loanRequests>>
    BY <1>5 DEF FailLoan
  <2>2. h \in Proc /\ h.pc = "loans"
    BY <1>0 DEF Proc
  <2> HIDE DEF h
  <2> QED BY <1>0, <1>t, <2>1, <2>2, RestingStep
<1> QED BY <1>1, <1>2, <1>3, <1>4, <1>5

(* A request or a run ends without a commit. *)
LEMMA EndSteps ==
  ASSUME LockInv, NEW p \in Procs,
         AbortCascade(p) \/ AbortRun(p) \/ FinishLoanRun(p) \/ DeadlockVictim(p)
  PROVE  LockInv'
<1>1. /\ loanProc' = [loanProc EXCEPT ![p] = IdleProc]
      /\ lock' = lock \/ lock' = Released(p)
      /\ UNCHANGED <<month, loan, paid, orphans, loanRequests>>
  BY DEF AbortCascade, AbortRun, FinishLoanRun, DeadlockVictim
<1> QED BY <1>1, IdleProcType, Typed, RestingStep

LEMMA LockInvStep == LockInv /\ [LoanNext]_loanVars => LockInv'
<1> SUFFICES ASSUME LockInv, [LoanNext]_loanVars PROVE LockInv'
  OBVIOUS
<1>p. (\A c \in LoanClients : c \in Procs) /\ (\A w \in LoanWorkers : w \in Procs)
  BY DEF Procs
<1>1. CASE LoanNext
  <2>1. CASE \E l \in Loans : CreateLoan(l) \/ DeleteLoanDetach(l) \/ ArchiveAccount(l)
    BY <2>1, UserSteps
  <2>2. CASE \E l \in Loans, b \in BOOLEAN : SetLoanArchived(l, b)
    BY <2>2, UserSteps
  <2>3. CASE \E l \in Loans, n \in Numbers : DeletePayment(l, n)
    BY <2>3, UserSteps
  <2>4. CASE \E c \in LoanClients, l \in Loans :
               RecordPayment(c, l) \/ AdvancePayments(c, l) \/ UpdateLoan(c, l) \/ DeleteLoanCascade(c, l)
    BY <2>4, RequestSteps
  <2>5. CASE \E c \in LoanClients : CommitLoanUpdate(c)
    BY <2>5, CommitUpdateStep
  <2>6. CASE \E c \in LoanClients : CommitCascade(c)
    BY <2>6, CommitCascadeStep
  <2>7. CASE \E p \in Procs : CommitPayment(p)
    BY <2>7, CommitPaymentStep
  <2>8. CASE \E w \in LoanWorkers : \/ StartLoanRun(w) \/ RefreshLoan(w) \/ AutoRecord(w) \/ FailLoan(w)
                               \/ \E l \in Loans : TakeLoan(w, l)
    BY <2>8, RunSteps
  <2>9. CASE \/ \E c \in LoanClients : AbortCascade(c)
             \/ \E w \in LoanWorkers : AbortRun(w) \/ FinishLoanRun(w)
             \/ \E p \in Procs : DeadlockVictim(p)
    BY <1>p, <2>9, EndSteps
  <2>10. CASE NextMonth
    <3>0. month' \in Months
      BY <2>10, LoanAssumption DEF NextMonth, LockInv, RowsOK, Months
    <3>1. RowsOK' /\ UNCHANGED <<loan, paid, lock, loanProc>>
      BY <2>10, <3>0 DEF NextMonth, LockInv, RowsOK
    <3> QED BY <3>1, ReadingKeepsFit, NoProcStep DEF LockInv
  <2> QED BY <1>1, <2>1, <2>2, <2>3, <2>4, <2>5, <2>6, <2>7, <2>8, <2>9, <2>10, NextCases, Zenon
<1>2. CASE UNCHANGED loanVars
  <2>1. RowsOK' /\ UNCHANGED <<loan, paid, lock, loanProc>>
    BY <1>2 DEF loanVars, LockInv, RowsOK
  <2> QED BY <2>1, ReadingKeepsFit, NoProcStep DEF LockInv
<1> QED BY <1>1, <1>2

LEMMA LockInvInit == LoanInit => LockInv
<1> SUFFICES ASSUME LoanInit PROVE LockInv
  OBVIOUS
<1> USE LoanAssumption
<1>1. RowsOK
  BY NewLoanType DEF LoanInit, RowsOK, Months, Numbers
<1>2. PaymentsBelong
  BY DEF LoanInit, PaymentsBelong, PaidNumbers
<1>3. loanProc = [p \in Procs |-> loanProc[p]] /\ \A p \in Procs : loanProc[p] = IdleProc
  BY DEF LoanInit
<1>4. ASSUME NEW p \in Procs
      PROVE  Good(p)
  BY <1>3, IdleProcType
     DEF Good, ProcTyped, HoldsRow, SelectedUnpaid, EditFits, SomethingDue, SelectedDue
<1> QED BY <1>1, <1>2, <1>3, <1>4 DEF LockInv

(* The invariant of the row lock holds in every reachable state. *)
THEOREM RowLock == LoanSpec => []LockInv
BY LockInvInit, LockInvStep, PTL DEF LoanSpec

(***************************************************************************)
(* Type correctness; in particular the catch-up budget never goes below    *)
(* zero and every request past its first statement has a loan.             *)
(***************************************************************************)
THEOREM TypeCorrect == LoanSpec => []LoanTypeOK
<1>1. LockInv => LoanTypeOK
  <2> SUFFICES ASSUME LockInv PROVE LoanTypeOK
    OBVIOUS
  <2>1. \A p \in Procs : loanProc[p] \in Proc
    BY Typed
  <2>2. loanProc \in [Procs -> Proc]
    BY <2>1 DEF LockInv
  <2> QED BY <2>2 DEF LockInv, RowsOK, Good, ProcTyped, LoanTypeOK
<1> QED BY <1>1, RowLock, PTL

(***************************************************************************)
(* The unique index on (loan_id, installment_number) never refuses a       *)
(* payment: what a request or run selected under the row lock is still     *)
(* unpaid when it commits (record_payment, advance_payments).              *)
(***************************************************************************)
THEOREM PaymentsNeverCollide == LoanSpec => []NoPaymentConflict
<1>1. LockInv => NoPaymentConflict
  BY DEF LockInv, Good, HoldsRow, SelectedUnpaid, NoPaymentConflict
<1> QED BY <1>1, RowLock, PTL

(***************************************************************************)
(* No edit of a loan (update_loan) strands a payment beyond the new        *)
(* installment count or with another count stamped on it.                  *)
(***************************************************************************)
THEOREM PaymentsAlwaysFit == LoanSpec => []PaymentsFitLoan
<1>1. LockInv => PaymentsFitLoan
  BY DEF LockInv, PaymentsBelong, PaymentsFitLoan
<1> QED BY <1>1, RowLock, PTL

(***************************************************************************)
(* The task (post_due_installments) never posts an installment before it   *)
(* is due, whatever users pay, advance, delete or edit meanwhile.          *)
(***************************************************************************)
THEOREM NeverPostsEarly == LoanSpec => []AutoPostOnlyDue
<1>1. LockInv => AutoPostOnlyDue
  <2> SUFFICES ASSUME LockInv, NEW w \in LoanWorkers, loanProc[w].pc = "commit"
               PROVE  \A n \in loanProc[w].sel : DueMonth(loanProc[w].loan, n) <= loanProc[w].day
    BY DEF AutoPostOnlyDue
  <2>1. SelectedDue(w)
    BY DEF LockInv, Good, Procs
  <2> QED BY <2>1 DEF SelectedDue
<1> QED BY <1>1, RowLock, PTL
=============================================================================
