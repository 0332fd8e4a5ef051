---------------------------- MODULE LoanPayments ----------------------------
(***************************************************************************)
(* Loans and the installments recorded against them: manual payments,      *)
(* advances, edits and deletion of loans (services/loans.py), deletion of  *)
(* a payment (services/transactions.py), and the nightly auto-posting task *)
(* (services/loan_posting.py).                                             *)
(*                                                                         *)
(* Every payment path locks the loan row (SELECT ... FOR UPDATE), reads    *)
(* the paid installment numbers and inserts; the lock is held until the    *)
(* database transaction ends.  Deleting or archiving a loan takes no       *)
(* explicit lock, its UPDATE or DELETE waits for the row.  Months are      *)
(* numbers: installment n of a loan is due in month first + n - 1.         *)
(***************************************************************************)
EXTENDS Integers, FiniteSets

CONSTANTS
  Loans,
  LoanClients,     \* concurrent API requests
  LoanWorkers,     \* Celery processes that may run the task
  MaxCount,        \* largest installment_count users choose
  MaxMonth,        \* the model's calendar is 1..MaxMonth
  MaxLoanCatchUp,  \* MAX_CATCH_UP_INSTALLMENTS
  LoanRequests,    \* kinds of request the clients make in this instance
  MaxLoanRequests  \* bound: requests in one behaviour

Numbers == 1..MaxCount
Months == 1..MaxMonth
Procs == LoanClients \cup LoanWorkers
NoOne == "no one"
NoLoan == "no loan"
LoanKinds == {"pay", "advance", "update", "archive", "detach", "cascade", "delete_payment", "account"}

ASSUME LoanAssumption ==
  /\ MaxCount \in Nat \ {0}
  /\ MaxMonth \in Nat \ {0}
  /\ MaxLoanCatchUp \in Nat \ {0}
  /\ MaxLoanRequests \in Nat
  /\ LoanRequests \subseteq LoanKinds
  /\ LoanClients \cap LoanWorkers = {}
  /\ NoOne \notin Procs
  /\ NoLoan \notin Loans

VARIABLES
  month,        \* the workers' clock
  loan,         \* table loans
  paid,         \* paid[l][n]: installment_count stamped on the payment of
                \* installment n, 0 when there is no such transaction
  orphans,      \* payments that lost their loan although a cascade deleted it
  lock,         \* which database transaction holds the row of a loan
  loanProc,     \* what each request or worker process is doing
  loanRequests  \* requests so far

loanVars == <<month, loan, paid, orphans, lock, loanProc, loanRequests>>

LoanRow == [state : {"new", "live", "deleted"}, count : Numbers, first : Months,
            auto : BOOLEAN, archived : BOOLEAN,
            account : {"none", "active", "archived"}]

NewLoan == [state |-> "new", count |-> 1, first |-> 1, auto |-> FALSE,
            archived |-> FALSE, account |-> "none"]

Proc == [pc : {"idle", "commit", "update", "cascade", "loans", "refresh", "record"},
         loan : Loans \cup {NoLoan}, sel : SUBSET Numbers, row : LoanRow,
         day : Months, pending : SUBSET Loans, budget : 0..MaxLoanCatchUp, expired : BOOLEAN]

IdleProc == [pc |-> "idle", loan |-> NoLoan, sel |-> {}, row |-> NewLoan,
             day |-> 1, pending |-> {}, budget |-> 0, expired |-> FALSE]

LoanTypeOK ==
  /\ month \in Months
  /\ loan \in [Loans -> LoanRow]
  /\ paid \in [Loans -> [Numbers -> 0..MaxCount]]
  /\ orphans \in [Loans -> SUBSET Numbers]
  /\ lock \in [Loans -> Procs \cup {NoOne}]
  /\ loanProc \in [Procs -> Proc]
  /\ \A p \in Procs : loanProc[p].pc \notin {"idle", "loans"} => loanProc[p].loan \in Loans
  /\ loanRequests \in 0..MaxLoanRequests

LoanInit ==
  /\ month = 1
  /\ loan = [l \in Loans |-> NewLoan]
  /\ paid = [l \in Loans |-> [n \in Numbers |-> 0]]
  /\ orphans = [l \in Loans |-> {}]
  /\ lock = [l \in Loans |-> NoOne]
  /\ loanProc = [p \in Procs |-> IdleProc]
  /\ loanRequests = 0

----------------------------------------------------------------------------

LiveLoan(l) == loan[l].state = "live"

PaidNumbers(l) == {n \in Numbers : paid[l][n] # 0}       \* paid_installment_numbers

Unpaid(l) == (1..loan[l].count) \ PaidNumbers(l)

(* next_unpaid_installment_number *)
NextUnpaid(l, n) == n \in Unpaid(l) /\ \A m \in Unpaid(l) : n <= m

(* The last k unpaid installments. *)
LastUnpaid(l, k) == {n \in Unpaid(l) : Cardinality({m \in Unpaid(l) : m > n}) < k}

DueMonth(l, n) == loan[l].first + n - 1                  \* installment_due_date

(* Mutant: a plain SELECT instead of FOR UPDATE. *)
GetsLockWithoutWaiting(p, l) ==
  /\ LiveLoan(l)
  /\ lock' = lock

(* _get_owned_for_update: the row exists and no other transaction holds it. *)
GetsLock(p, l) ==
  /\ LiveLoan(l)
  /\ lock[l] \in {NoOne, p}
  /\ lock' = [lock EXCEPT ![l] = p]

(* The end of a database transaction frees every row it held. *)
Released(p) == [l \in Loans |-> IF lock[l] = p THEN NoOne ELSE lock[l]]

LoanRequest(kind) ==
  /\ kind \in LoanRequests
  /\ loanRequests < MaxLoanRequests
  /\ loanRequests' = loanRequests + 1

----------------------------------------------------------------------------
(* API requests.                                                           *)

(* What create_loan and update_loan let a user save (_validate_shape). *)
ValidRow(r) ==
  /\ r.state = "live"
  /\ r.account # "archived"
  /\ r.auto => r.account = "active"

CreateLoan(l) ==
  /\ loan[l].state = "new"
  /\ \E r \in LoanRow :
       /\ ValidRow(r)
       /\ loan' = [loan EXCEPT ![l] = r]
  /\ UNCHANGED <<month, paid, orphans, lock, loanProc, loanRequests>>

(* record_payment up to the commit. *)
RecordPayment(c, l) ==
  /\ loanProc[c].pc = "idle"
  /\ LoanRequest("pay")
  /\ GetsLock(c, l)
  /\ \E n \in Numbers :
       /\ NextUnpaid(l, n)
       /\ loanProc' = [loanProc EXCEPT ![c] = [@ EXCEPT !.pc = "commit", !.loan = l, !.sel = {n},
                                                        !.row = loan[l]]]
  /\ UNCHANGED <<month, loan, paid, orphans>>

(* advance_payments up to the commit: the last k unpaid installments, or   *)
(* all of them, in one transaction.                                        *)
AdvancePayments(c, l) ==
  /\ loanProc[c].pc = "idle"
  /\ LoanRequest("advance")
  /\ GetsLock(c, l)
  /\ \E k \in Numbers :
       /\ k <= Cardinality(Unpaid(l))
       /\ loanProc' = [loanProc EXCEPT ![c] = [@ EXCEPT !.pc = "commit", !.loan = l,
                                                        !.sel = LastUnpaid(l, k),
                                                        !.row = loan[l]]]
  /\ UNCHANGED <<month, loan, paid, orphans>>

(* Mutant: the paid numbers are read before the row is locked. *)
UpdateLoanUnlocked(c, l) ==
  /\ loanProc[c].pc = "idle"
  /\ LoanRequest("update")
  /\ LiveLoan(l)
  /\ \E r \in LoanRow :
       /\ ValidRow(r)
       /\ \A n \in PaidNumbers(l) : n <= r.count
       /\ loanProc' = [loanProc EXCEPT ![c] = [@ EXCEPT !.pc = "update", !.loan = l, !.row = r]]
  /\ UNCHANGED <<month, loan, paid, orphans, lock>>

(* update_loan up to the commit: under the lock the new count must not     *)
(* fall below a paid number.                                               *)
UpdateLoan(c, l) ==
  /\ loanProc[c].pc = "idle"
  /\ LoanRequest("update")
  /\ GetsLock(c, l)
  /\ \E r \in LoanRow :
       /\ ValidRow(r)
       /\ \A n \in PaidNumbers(l) : n <= r.count
       /\ loanProc' = [loanProc EXCEPT ![c] = [@ EXCEPT !.pc = "update", !.loan = l, !.row = r]]
  /\ UNCHANGED <<month, loan, paid, orphans>>

(* Payments a cascade has deleted but not committed are locked rows. *)
DoomedElsewhere(c, l) ==
  \E p \in Procs \ {c} : loanProc[p].pc = "cascade" /\ loanProc[p].loan = l /\ loanProc[p].sel # {}

(* The loan is saved and, when its count changes, so is the count on every *)
(* payment: an UPDATE of those rows.                                       *)
RestampsDoomed(c) ==
  /\ loanProc[c].row.count # loan[loanProc[c].loan].count
  /\ DoomedElsewhere(c, loanProc[c].loan)

(* The account that was validated, archived since then or not. *)
SavedAccount(c) ==
  {loanProc[c].row.account} \cup
    (IF loanProc[c].row.account = "active" THEN {loan[loanProc[c].loan].account} \ {"none"} ELSE {})

CommitLoanUpdate(c) ==
  LET l == loanProc[c].loan IN
  /\ loanProc[c].pc = "update"
  /\ ~RestampsDoomed(c)
  /\ \E a \in SavedAccount(c) : loan' = [loan EXCEPT ![l] = [loanProc[c].row EXCEPT !.account = a]]
  /\ paid' = [paid EXCEPT ![l] = [n \in Numbers |-> IF paid[l][n] = 0 THEN 0 ELSE loanProc[c].row.count]]
  /\ lock' = Released(c)
  /\ loanProc' = [loanProc EXCEPT ![c] = IdleProc]
  /\ UNCHANGED <<month, orphans, loanRequests>>

SetLoanArchived(l, b) ==
  /\ LoanRequest("archive")
  /\ LiveLoan(l)
  /\ lock[l] = NoOne
  /\ loan' = [loan EXCEPT ![l].archived = b]
  /\ UNCHANGED <<month, paid, orphans, lock, loanProc>>

(* delete_loan, detach: the foreign key of the payments becomes NULL, they *)
(* stay as plain expenses.                                                 *)
DeleteLoanDetach(l) ==
  /\ LoanRequest("detach")
  /\ LiveLoan(l)
  /\ lock[l] = NoOne
  /\ loan' = [loan EXCEPT ![l].state = "deleted"]
  /\ paid' = [paid EXCEPT ![l] = [n \in Numbers |-> 0]]
  /\ UNCHANGED <<month, orphans, lock, loanProc>>

(* delete_loan, cascade: first one DELETE of the payments this statement   *)
(* can see, then the DELETE of the loan, which waits for the row.          *)
DeleteLoanCascade(c, l) ==
  /\ loanProc[c].pc = "idle"
  /\ LoanRequest("cascade")
  /\ LiveLoan(l)
  /\ ~DoomedElsewhere(c, l)
  /\ loanProc' = [loanProc EXCEPT ![c] = [@ EXCEPT !.pc = "cascade", !.loan = l, !.sel = PaidNumbers(l)]]
  /\ UNCHANGED <<month, loan, paid, orphans, lock>>

CommitCascade(c) ==
  LET l == loanProc[c].loan IN
  /\ loanProc[c].pc = "cascade"
  /\ LiveLoan(l)
  /\ lock[l] = NoOne
  /\ loan' = [loan EXCEPT ![l].state = "deleted"]
  /\ paid' = [paid EXCEPT ![l] = [n \in Numbers |-> 0]]
  /\ orphans' = [orphans EXCEPT ![l] = PaidNumbers(l) \ loanProc[c].sel]
  /\ loanProc' = [loanProc EXCEPT ![c] = IdleProc]
  /\ UNCHANGED <<month, lock, loanRequests>>

(* Someone else deleted the loan first: either there was no payment and    *)
(* nothing is left to delete, or the two deletions deadlocked over the     *)
(* payments and this one is rolled back.                                   *)
AbortCascade(c) ==
  /\ loanProc[c].pc = "cascade"
  /\ ~LiveLoan(loanProc[c].loan)
  /\ loanProc' = [loanProc EXCEPT ![c] = IdleProc]
  /\ UNCHANGED <<month, loan, paid, orphans, lock, loanRequests>>

(* delete_transaction of a payment; it does not touch the loan row. *)
DeletePayment(l, n) ==
  /\ LoanRequest("delete_payment")
  /\ paid[l][n] # 0
  /\ ~\E p \in Procs : loanProc[p].pc = "cascade" /\ loanProc[p].loan = l /\ n \in loanProc[p].sel
  /\ paid' = [paid EXCEPT ![l][n] = 0]
  /\ UNCHANGED <<month, loan, orphans, lock, loanProc>>

(* The user archives or restores the payment account of a loan. *)
ArchiveAccount(l) ==
  /\ LoanRequest("account")
  /\ LiveLoan(l)
  /\ loan[l].account # "none"
  /\ loan' = [loan EXCEPT ![l].account = IF @ = "active" THEN "archived" ELSE "active"]
  /\ UNCHANGED <<month, paid, orphans, lock, loanProc>>

(***************************************************************************)
(* The commit of a payment or an advance, by a request or by the task: one *)
(* row per selected installment, all or nothing, stamped with the count    *)
(* read under the lock.  A taken (loan_id, installment_number) would make  *)
(* the whole insert fail.                                                  *)
(***************************************************************************)
CommitPayment(p) ==
  LET l == loanProc[p].loan IN
  /\ loanProc[p].pc = "commit"
  /\ LiveLoan(l)
  /\ loanProc[p].sel \cap PaidNumbers(l) = {}
  /\ paid' = [paid EXCEPT ![l] = [n \in Numbers |-> IF n \in loanProc[p].sel THEN loanProc[p].row.count
                                                    ELSE paid[l][n]]]
  /\ lock' = Released(p)
  /\ loanProc' = [loanProc EXCEPT ![p] =
                    IF p \in LoanWorkers
                    THEN [@ EXCEPT !.pc = IF loanProc[p].budget = 0 THEN "loans" ELSE "refresh", !.sel = {}]
                    ELSE IdleProc]
  /\ UNCHANGED <<month, loan, orphans, loanRequests>>

----------------------------------------------------------------------------
(* The auto-posting task.                                                  *)

(* One SELECT loads the loans to post; whether a loan is switched on is    *)
(* decided here and not looked at again.                                   *)
StartLoanRun(w) ==
  /\ loanProc[w].pc = "idle"
  /\ loanProc' = [loanProc EXCEPT ![w] =
                    [@ EXCEPT !.pc = "loans", !.day = month,
                              !.pending = {l \in Loans : LiveLoan(l) /\ loan[l].auto /\ ~loan[l].archived}]]
  /\ UNCHANGED <<month, loan, paid, orphans, lock, loanRequests>>

TakeLoan(w, l) ==
  /\ loanProc[w].pc = "loans"
  /\ l \in loanProc[w].pending
  /\ ~loanProc[w].expired
  /\ loanProc' = [loanProc EXCEPT ![w] = [@ EXCEPT !.pc = "refresh", !.loan = l,
                                                   !.pending = loanProc[w].pending \ {l},
                                                   !.budget = MaxLoanCatchUp]]
  /\ UNCHANGED <<month, loan, paid, orphans, lock, loanRequests>>

(* Mutant: the loop only stops when the loan is fully paid. *)
NothingDueWhenPaid(w, l) == Unpaid(l) = {}

(* Mutant: an installment is due only after its date. *)
NothingDueExclusive(w, l) == \A n \in Numbers : NextUnpaid(l, n) => DueMonth(l, n) >= loanProc[w].day

(* The row is re-read and locked; nothing due ends the loan's turn.  The   *)
(* lock stays: no transaction ended.                                       *)
NothingDue(w, l) == \A n \in Numbers : NextUnpaid(l, n) => DueMonth(l, n) > loanProc[w].day

RefreshLoan(w) ==
  LET l == loanProc[w].loan IN
  /\ loanProc[w].pc = "refresh"
  /\ GetsLock(w, l)
  /\ loanProc' = [loanProc EXCEPT ![w] =
                    IF NothingDue(w, l) THEN [@ EXCEPT !.pc = "loans"]
                    ELSE [@ EXCEPT !.pc = "record", !.budget = loanProc[w].budget - 1]]
  /\ UNCHANGED <<month, loan, paid, orphans, loanRequests>>

(* record_payment on behalf of the task, under the same lock. *)
AutoRecord(w) ==
  LET l == loanProc[w].loan IN
  /\ loanProc[w].pc = "record"
  /\ loan[l].account = "active"
  /\ \E n \in Numbers :
       /\ NextUnpaid(l, n)
       /\ loanProc' = [loanProc EXCEPT ![w] = [@ EXCEPT !.pc = "commit", !.sel = {n},
                                                        !.row = loan[l]]]
  /\ UNCHANGED <<month, loan, paid, orphans, lock, loanRequests>>

(* The payment account is archived: the handler rolls back, which frees    *)
(* the locks and expires every loaded loan.                                *)
FailLoan(w) ==
  /\ loanProc[w].pc = "record"
  /\ loan[loanProc[w].loan].account # "active"
  /\ lock' = Released(w)
  /\ loanProc' = [loanProc EXCEPT ![w] = [@ EXCEPT !.pc = "loans", !.expired = TRUE]]
  /\ UNCHANGED <<month, loan, paid, orphans, loanRequests>>

(* The exception leaves the loop: the next loan is expired, or the row to  *)
(* refresh is gone.  The session closes.                                   *)
AbortRun(w) ==
  /\ \/ loanProc[w].pc = "loans" /\ loanProc[w].pending # {} /\ loanProc[w].expired
     \/ loanProc[w].pc = "refresh" /\ ~LiveLoan(loanProc[w].loan)
  /\ lock' = Released(w)
  /\ loanProc' = [loanProc EXCEPT ![w] = IdleProc]
  /\ UNCHANGED <<month, loan, paid, orphans, loanRequests>>

(* Mutant: the session is returned to the pool with its transaction open. *)
FinishLoanRunKeepsLocks(w) ==
  /\ loanProc[w].pc = "loans"
  /\ loanProc[w].pending = {}
  /\ loanProc' = [loanProc EXCEPT ![w] = IdleProc]
  /\ UNCHANGED <<month, loan, paid, orphans, lock, loanRequests>>

FinishLoanRun(w) ==
  /\ loanProc[w].pc = "loans"
  /\ loanProc[w].pending = {}
  /\ lock' = Released(w)
  /\ loanProc' = [loanProc EXCEPT ![w] = IdleProc]
  /\ UNCHANGED <<month, loan, paid, orphans, loanRequests>>

----------------------------------------------------------------------------
(***************************************************************************)
(* PostgreSQL aborts one transaction of a cycle of waits.  A cascade holds *)
(* payment rows and waits for the loan; an edit holds the loan and waits   *)
(* for the payment rows; two runs hold loans the other wants.              *)
(***************************************************************************)
WaitsFor(p, q) ==
  \/ loanProc[p].pc = "cascade" /\ lock[loanProc[p].loan] = q
  \/ /\ loanProc[p].pc = "update"
     /\ RestampsDoomed(p)
     /\ loanProc[q].pc = "cascade" /\ loanProc[q].loan = loanProc[p].loan /\ loanProc[q].sel # {}
  \/ loanProc[p].pc = "refresh" /\ LiveLoan(loanProc[p].loan) /\ lock[loanProc[p].loan] = q

DeadlockVictim(p) ==
  /\ \E D \in SUBSET Procs :
       /\ p \in D
       /\ \A q \in D : (\E r \in D \ {q} : WaitsFor(q, r)) /\ (\E r \in D \ {q} : WaitsFor(r, q))
  /\ lock' = Released(p)
  /\ loanProc' = [loanProc EXCEPT ![p] = IdleProc]
  /\ UNCHANGED <<month, loan, paid, orphans, loanRequests>>

NextMonth ==
  /\ month < MaxMonth
  /\ month' = month + 1
  /\ UNCHANGED <<loan, paid, orphans, lock, loanProc, loanRequests>>

ClientStep(c) == CommitLoanUpdate(c) \/ CommitCascade(c) \/ AbortCascade(c) \/ CommitPayment(c)

LoanWorkerStep(w) ==
  \/ \E l \in Loans : TakeLoan(w, l)
  \/ RefreshLoan(w) \/ AutoRecord(w) \/ CommitPayment(w)
  \/ FailLoan(w) \/ AbortRun(w) \/ FinishLoanRun(w)

ClientRequest ==
  \/ \E l \in Loans : CreateLoan(l) \/ DeleteLoanDetach(l) \/ ArchiveAccount(l)
  \/ \E l \in Loans, b \in BOOLEAN : SetLoanArchived(l, b)
  \/ \E l \in Loans, n \in Numbers : DeletePayment(l, n)
  \/ \E c \in LoanClients, l \in Loans :
       RecordPayment(c, l) \/ AdvancePayments(c, l) \/ UpdateLoan(c, l) \/ DeleteLoanCascade(c, l)

LoanNext ==
  \/ ClientRequest
  \/ \E c \in LoanClients : ClientStep(c)
  \/ \E w \in LoanWorkers : StartLoanRun(w) \/ LoanWorkerStep(w)
  \/ \E p \in Procs : DeadlockVictim(p)
  \/ NextMonth

LoanSpec == LoanInit /\ [][LoanNext]_loanVars

(***************************************************************************)
(* The server drives every request it accepted; PostgreSQL grants a row to *)
(* its waiters in turn (strong fairness of the steps that wait for one)    *)
(* and resolves every deadlock; beat starts a run every day.               *)
(***************************************************************************)
LoanFairness ==
  /\ \A c \in LoanClients : SF_loanVars(ClientStep(c))
  /\ \A w \in LoanWorkers : WF_loanVars(StartLoanRun(w)) /\ SF_loanVars(LoanWorkerStep(w))
  /\ \A p \in Procs : WF_loanVars(DeadlockVictim(p))
  /\ WF_loanVars(NextMonth)

LoanFairSpec == LoanSpec /\ LoanFairness

----------------------------------------------------------------------------
(* Properties.                                                             *)

(***************************************************************************)
(* The row lock does its job: a payment about to commit never collides     *)
(* with a payment another request or run committed meanwhile, so the       *)
(* unique index on (loan_id, installment_number) never has to refuse one.  *)
(***************************************************************************)
NoPaymentConflict ==
  \A p \in Procs : loanProc[p].pc = "commit" =>
    LiveLoan(loanProc[p].loan) /\ loanProc[p].sel \cap PaidNumbers(loanProc[p].loan) = {}

(***************************************************************************)
(* "Locked so a concurrent payment can't slip in between the paid-numbers  *)
(* read and this update's commit" (update_loan): a loan never has a paid   *)
(* installment beyond its count, and every payment carries the loan's      *)
(* current count ("3/10").                                                 *)
(***************************************************************************)
PaymentsFitLoan ==
  \A l \in Loans : LiveLoan(l) => \A n \in PaidNumbers(l) : n <= loan[l].count /\ paid[l][n] = loan[l].count

(***************************************************************************)
(* "auto-post, manual payments and pay now all share one notion of         *)
(* progress and can't double up": the task only ever pays an installment   *)
(* that is due on the run's day, whatever the users pay meanwhile.         *)
(***************************************************************************)
AutoPostOnlyDue ==
  \A w \in LoanWorkers : loanProc[w].pc = "commit" =>
    \A n \in loanProc[w].sel : DueMonth(loanProc[w].loan, n) <= loanProc[w].day

(***************************************************************************)
(* Every accepted request ends, although requests and runs wait for each   *)
(* other's rows and a run keeps the rows it has looked at.                 *)
(***************************************************************************)
EveryRequestEnds ==
  \A c \in LoanClients : (loanProc[c].pc # "idle") ~> (loanProc[c].pc = "idle")

\* Installment n is due, and the loan is switched on and can be paid from its account.
AutoPosts(l, n) ==
  /\ LiveLoan(l) /\ loan[l].auto /\ ~loan[l].archived /\ loan[l].account = "active"
  /\ n <= loan[l].count /\ DueMonth(l, n) <= month

(***************************************************************************)
(* "The remainder posts next run": an installment that stays due, of a     *)
(* loan that stays switched on with an account in use, is eventually paid. *)
(***************************************************************************)
AutoPostCatchesUp ==
  \A l \in Loans, n \in Numbers : AutoPosts(l, n) ~> (paid[l][n] # 0 \/ ~AutoPosts(l, n))
=============================================================================
