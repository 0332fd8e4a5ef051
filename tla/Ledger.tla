------------------------------- MODULE Ledger -------------------------------
(***************************************************************************)
(* The transactions of one user: manual edits, idempotent imports and      *)
(* their undo (services/transactions.py, services/transaction_history.py), *)
(* categorization rules applied to the ledger                              *)
(* (services/categorization_rules.py), bank reconciliation                 *)
(* (services/reconciliations.py) and the deletion of accounts              *)
(* (services/accounts.py).                                                 *)
(*                                                                         *)
(* PostgreSQL runs every request at READ COMMITTED and no request here     *)
(* locks the rows it reads.  A request whose commit depends on what it     *)
(* read is therefore two steps: the reads and checks, which leave a        *)
(* pending request, and the commit, which meets whatever the table holds   *)
(* by then and is only stopped by constraints.  Between its reads a        *)
(* request may also be overtaken; reading everything at once only makes    *)
(* the window between check and commit start earlier.  A request whose     *)
(* check is repeated by a constraint or by its own statement is one step.  *)
(***************************************************************************)
EXTENDS Integers, Sequences, FiniteSetsExt, Functions

CONSTANTS
  Clients,          \* concurrent API requests
  Accounts,
  Cards,            \* the accounts that are credit cards
  Txns,             \* ids transactions may get
  Recs,             \* ids reconciliations may get
  Keys,             \* idempotency keys of imports
  Payloads,         \* bodies of import requests
  Items,            \* Items[p]: the rows of payload p
  Dates,            \* months: add_months_clamped adds 1
  Amounts,
  MaxParts,         \* bound: installments of one purchase
  Texts,            \* category, description and notes of a transaction
  Statements,       \* statement balances users enter
  OpeningBalance,   \* opening_balance of every account
  Operations,       \* kinds of request the clients make in this instance
  MaxRequests,      \* bound: requests in one behaviour
  None,             \* NULL
  Unborn,           \* an id no row has had yet
  Gone              \* the id of a deleted row

Kinds == {"create", "installments", "import", "update", "categorize", "reapply", "delete", "undo",
          "open", "entries", "complete", "reopen", "discard", "archive", "cascade"}

TxnShape == [type : {"income", "expense", "transfer"}, account : Accounts,
             to : Accounts \cup {None}, date : Dates, amount : Amounts, text : Texts,
             part : 0..MaxParts]

\* The CHECK constraints on a transaction's shape.
ValidShape(row) ==
  /\ (row.type = "transfer") <=> (row.to # None)
  /\ row.to # row.account

Row == {row \in TxnShape : ValidShape(row)}

\* Rows a user can spell out: installment_number is set by the service.
PlainRow == {row \in Row : row.part = 0}

ASSUME ConstantsAssumption ==
  /\ Dates \subseteq Int
  /\ Amounts \subseteq Nat \ {0}
  /\ Statements \subseteq Int
  /\ OpeningBalance \in Int
  /\ MaxRequests \in Nat
  /\ Operations \subseteq Kinds
  /\ Cards \subseteq Accounts
  /\ MaxParts \in Nat
  /\ None \notin Accounts \cup Payloads \cup Keys
  /\ Unborn # Gone
  /\ Items \in [Payloads -> Seq(PlainRow)]

VARIABLES
  accounts,   \* table accounts: "active", "archived" or deleted
  txns,       \* table transactions
  history,    \* table transaction_history, in order of commit
  imports,    \* table import_idempotency: the payload behind a key
  recs,       \* table reconciliations
  entries,    \* table reconciliation_entries
  proc,       \* what each client's request is about to commit
  requests    \* requests so far

vars == <<accounts, txns, history, imports, recs, entries, proc, requests>>

RecRow == [account : Accounts, date : Dates, balance : Statements,
           status : {"open", "completed"}]

ASSUME MarkersAssumption ==
  /\ Unborn \notin Row \cup RecRow
  /\ Gone \notin Row \cup RecRow

Entry == [txn : Txns, account : Accounts, rec : Recs]

\* "undo" is a delete whose source is import_undo; after is the snapshot of
\* a create or update.
HistoryRow ==
       [op : {"create"}, after : Row, batch : Keys \cup {None}]
  \cup [op : {"update"}, after : Row]
  \cup [op : {"delete", "undo"}]

Idle == [op |-> "idle"]

\* What a request carries from its reads to its commit: the ORM objects it
\* loaded (old), what it set on them (new), the rows it adds and deletes.
Request ==
       {Idle}
  \cup [op : {"import"}, key : Keys, payload : Payloads]
  \cup [op : {"update"}, ids : SUBSET Txns, old : [Txns -> Row \cup {None}],
        new : [Txns -> Row \cup {None}]]
  \cup [op : {"reapply"}, texts : UNION {[ids -> Texts] : ids \in SUBSET Txns}]
  \cup [op : {"delete", "undo"}, ids : SUBSET Txns]
  \cup [op : {"entries"}, rec : Recs, adds : SUBSET Entry, dels : SUBSET Entry]
  \cup [op : {"complete"}, rec : Recs]

TypeOK ==
  /\ accounts \in [Accounts -> {"active", "archived", "deleted"}]
  /\ txns \in [Txns -> Row \cup {Unborn, Gone}]
  /\ history \in [Txns -> Seq(HistoryRow)]
  /\ imports \in [Keys -> Payloads \cup {None}]
  /\ recs \in [Recs -> RecRow \cup {Unborn, Gone}]
  /\ entries \subseteq Entry
  /\ proc \in [Clients -> Request]
  /\ \A c \in Clients : proc[c].op = "update" =>
       \A t \in proc[c].ids : proc[c].old[t] \in Row /\ proc[c].new[t] \in Row
  /\ requests \in 0..MaxRequests

Init ==
  /\ accounts = [a \in Accounts |-> "active"]
  /\ txns = [t \in Txns |-> Unborn]
  /\ history = [t \in Txns |-> <<>>]
  /\ imports = [k \in Keys |-> None]
  /\ recs = [r \in Recs |-> Unborn]
  /\ entries = {}
  /\ proc = [c \in Clients |-> Idle]
  /\ requests = 0

-----------------------------------------------------------------------------
(* Reading the tables.                                                     *)

Live == {t \in Txns : txns[t] \notin {Unborn, Gone}}
LiveRecs == {r \in Recs : recs[r] \notin {Unborn, Gone}}

AccountsOf(row) == {row.account, row.to} \ {None}

\* Foreign keys of a transaction.
AccountsExist(row) == \A a \in AccountsOf(row) : accounts[a] # "deleted"

\* Effect of a transaction on the balance of one account; interest counts as
\* income.
LegDelta(row, a) ==
  (IF a # row.account THEN 0 ELSE IF row.type = "income" THEN row.amount ELSE -row.amount)
  + (IF a = row.to THEN row.amount ELSE 0)

\* The legs a cleared balance counts: entries of the account whose
\* transaction is dated up to the statement, whichever reconciliation
\* cleared them.
ClearedLegs(rec) ==
  {e \in entries : /\ e.account = rec.account
                   /\ txns[e.txn] \notin {Unborn, Gone}
                   /\ txns[e.txn].date <= rec.date}

SumLegs(rows, legs) == MapThenSumSet(LAMBDA e : LegDelta(rows[e.txn], e.account), legs)

Difference(rec) == rec.balance - (OpeningBalance + SumLegs(txns, ClearedLegs(rec)))

Balanced(rec) == Difference(rec) = 0

IsOpen(r) == r \in LiveRecs /\ recs[r].status = "open"

HasEntry(t) == \E e \in entries : e.txn = t

OpenRecs(a) == {r \in LiveRecs : recs[r].account = a /\ recs[r].status = "open"}

Ops(t) == {history[t][i].op : i \in DOMAIN history[t]}

\* Transactions a key's import created (batch_id of the create rows).
Batch(k) == {t \in Txns : history[t] # <<>> /\ history[t][1].batch = k}

Submit(c, kind) ==
  /\ kind \in Operations
  /\ proc[c] = Idle
  /\ requests < MaxRequests
  /\ requests' = requests + 1

Pend(c, request) == proc' = [proc EXCEPT ![c] = request]

\* Variation: no history row is staged.
RecordedNothing(ids, new) == history

Recorded(ids, new) == [t \in Txns |-> IF t \in ids THEN Append(history[t], new[t]) ELSE history[t]]

Removed(ids) == [t \in Txns |-> IF t \in ids /\ t \in Live THEN Gone ELSE txns[t]]

-----------------------------------------------------------------------------
(* Transactions.                                                           *)

CreateTransaction(c, t, row) ==
  /\ Submit(c, "create")
  /\ txns[t] = Unborn
  /\ AccountsExist(row)
  /\ txns' = [txns EXCEPT ![t] = row]
  /\ history' = [history EXCEPT ![t] = <<[op |-> "create", after |-> row, batch |-> None]>>]
  /\ UNCHANGED <<accounts, imports, recs, entries, proc>>

\* A purchase on a card split into monthly parts, in one commit; row is one
\* part, how the amount is divided is left out.  The history rows are
\* staged before the parts get their numbers.
CreateInstallments(c, ids, row) ==
  /\ Submit(c, "installments")
  /\ row.type = "expense" /\ row.account \in Cards
  /\ AccountsExist(row)
  /\ \A t \in ids : txns[t] = Unborn
  /\ Cardinality(ids) \in 2..MaxParts
  /\ \E number \in Bijection(ids, 1..Cardinality(ids)) :
       LET dated == [t \in ids |-> [row EXCEPT !.date = row.date + number[t] - 1]]
       IN /\ \A t \in ids : dated[t].date \in Dates
          /\ txns' = [t \in Txns |->
               IF t \in ids THEN [dated[t] EXCEPT !.part = number[t]] ELSE txns[t]]
          /\ history' = [t \in Txns |->
               IF t \in ids
                 THEN <<[op |-> "create", after |-> dated[t], batch |-> None]>>
                 ELSE history[t]]
  /\ UNCHANGED <<accounts, imports, recs, entries, proc>>

\* Variation: a key that is not committed yet holds nobody up.
KeyUncontendedAnyway(k) == k \in Keys

\* Nobody has inserted the key without having committed yet.
KeyUncontended(k) == \A c \in Clients : proc[c].op = "import" => proc[c].key # k

\* The key is inserted first: a request that finds the same key uncommitted
\* waits for it at the unique index, one that finds it committed answers
\* with the stored count or a conflict and changes nothing.
ImportTransactions(c, k, p) ==
  /\ Submit(c, "import")
  /\ KeyUncontended(k)
  /\ IF imports[k] = None
       THEN Pend(c, [op |-> "import", key |-> k, payload |-> p])
       ELSE UNCHANGED proc
  /\ UNCHANGED <<accounts, txns, history, imports, recs, entries>>

CommitImport(c) ==
  /\ proc[c].op = "import"
  /\ LET k == proc[c].key
         items == Items[proc[c].payload]
     IN \E ids \in SUBSET {t \in Txns : txns[t] = Unborn} :
        \E item \in Bijection(ids, DOMAIN items) :
          /\ \A t \in ids : AccountsExist(items[item[t]])
          /\ txns' = [t \in Txns |-> IF t \in ids THEN items[item[t]] ELSE txns[t]]
          /\ history' = [t \in Txns |->
               IF t \in ids
                 THEN <<[op |-> "create", after |-> items[item[t]], batch |-> k]>>
                 ELSE history[t]]
          /\ imports' = [imports EXCEPT ![k] = proc[c].payload]
  /\ Pend(c, Idle)
  /\ UNCHANGED <<accounts, recs, entries, requests>>

OnlyText(old, new) == new = [old EXCEPT !.text = new.text]

\* Variation: only a change of the amount is guarded.
GuardedAmount(t, old, new) == old.amount # new.amount => ~HasEntry(t)

Guarded(t, old, new) == ~OnlyText(old, new) => ~HasEntry(t)

\* old and new rows of a pending update, for the ids it loaded.
Loaded(ids) == [t \in Txns |-> IF t \in ids THEN txns[t] ELSE None]

UpdateTransaction(c, t, new) ==
  /\ Submit(c, "update")
  /\ t \in Live
  /\ new.part = txns[t].part
  /\ Guarded(t, txns[t], new)
  /\ AccountsExist(new)
  /\ Pend(c, [op |-> "update", ids |-> {t}, old |-> Loaded({t}),
              new |-> [Loaded({t}) EXCEPT ![t] = new]])
  /\ UNCHANGED <<accounts, txns, history, imports, recs, entries>>

BulkCategorize(c, ids, text) ==
  /\ Submit(c, "categorize")
  /\ ids # {} /\ ids \subseteq Live
  /\ \A t \in ids : txns[t].type # "transfer"
  /\ Pend(c, [op |-> "update", ids |-> ids, old |-> Loaded(ids),
              new |-> [t \in Txns |->
                         IF t \in ids THEN [txns[t] EXCEPT !.text = text] ELSE None]])
  /\ UNCHANGED <<accounts, txns, history, imports, recs, entries>>

\* The ORM writes the columns that differ from what it loaded.
Merged(row, old, new) ==
  [f \in DOMAIN row |-> IF new[f] # old[f] THEN new[f] ELSE row[f]]

\* What the CHECK constraints and foreign keys let into the table.
Storable(row) == ValidShape(row) /\ AccountsExist(row)

\* Variation: the history row keeps the state before the change.
StaleUpdateRow(q, t) == [op |-> "update", after |-> q.old[t]]

\* The snapshot is of the object in the session, not of the stored row.
UpdateRow(q, t) == [op |-> "update", after |-> q.new[t]]

\* An UPDATE that finds its row gone, breaks a CHECK or names a deleted
\* account fails the whole request.
CommitUpdate(c) ==
  /\ proc[c].op = "update"
  /\ LET q == proc[c]
         written == {t \in q.ids : q.new[t] # q.old[t]}
         row == [t \in Txns |->
                   IF t \in written /\ t \in Live
                     THEN Merged(txns[t], q.old[t], q.new[t]) ELSE txns[t]]
     IN /\ written \subseteq Live
        /\ \A t \in written : Storable(row[t])
        /\ txns' = row
        /\ history' = Recorded(q.ids, [t \in q.ids |-> UpdateRow(q, t)])
  /\ Pend(c, Idle)
  /\ UNCHANGED <<accounts, imports, recs, entries, requests>>

\* reapply_rules: texts gives the rows a rule matches their new category;
\* which rule matches what is left out.
ReapplyRules(c, texts) ==
  /\ Submit(c, "reapply")
  /\ DOMAIN texts # {} /\ DOMAIN texts \subseteq Live
  /\ \A t \in DOMAIN texts : txns[t].type # "transfer" /\ texts[t] # txns[t].text
  /\ Pend(c, [op |-> "reapply", texts |-> texts])
  /\ UNCHANGED <<accounts, txns, history, imports, recs, entries>>

\* The one edit that stages no history row.
CommitReapply(c) ==
  /\ proc[c].op = "reapply"
  /\ LET texts == proc[c].texts
     IN /\ DOMAIN texts \subseteq Live
        /\ txns' = [t \in Txns |-> IF t \in DOMAIN texts
                                   THEN [txns[t] EXCEPT !.text = texts[t]] ELSE txns[t]]
  /\ Pend(c, Idle)
  /\ UNCHANGED <<accounts, history, imports, recs, entries, requests>>

\* delete_transaction and bulk_delete_transactions
DeleteTransactions(c, ids) ==
  /\ Submit(c, "delete")
  /\ ids # {} /\ ids \subseteq Live
  /\ \A t \in ids : ~HasEntry(t)
  /\ Pend(c, [op |-> "delete", ids |-> ids])
  /\ UNCHANGED <<accounts, txns, history, imports, recs, entries>>

\* Variation: rows edited since the import are skipped.
RemainingUnedited(k) == {t \in Batch(k) \cap Live : "update" \notin Ops(t)}

Remaining(k) == Batch(k) \cap Live

Unedited(t) == "update" \notin Ops(t)

UndoBatch(c, k) ==
  /\ Submit(c, "undo")
  /\ imports[k] # None
  /\ \A t \in Remaining(k) : Unedited(t)
  /\ IF Remaining(k) = {}
       THEN UNCHANGED proc
       ELSE Pend(c, [op |-> "undo", ids |-> Remaining(k)])
  /\ UNCHANGED <<accounts, txns, history, imports, recs, entries>>

\* A row that is already gone is no error, its history row is written all
\* the same; entries go with their transaction (ON DELETE CASCADE).
CommitDelete(c) ==
  /\ proc[c].op \in {"delete", "undo"}
  /\ LET ids == proc[c].ids
     IN /\ txns' = Removed(ids)
        /\ entries' = {e \in entries : e.txn \notin ids}
        /\ history' = Recorded(ids, [t \in ids |-> [op |-> proc[c].op]])
  /\ Pend(c, Idle)
  /\ UNCHANGED <<accounts, imports, recs, requests>>

-----------------------------------------------------------------------------
(* Reconciliations.                                                        *)

\* The check for another open one is repeated by the partial unique index.
CreateReconciliation(c, r, a, date, balance) ==
  /\ Submit(c, "open")
  /\ recs[r] = Unborn
  /\ accounts[a] = "active"
  /\ OpenRecs(a) = {}
  /\ recs' = [recs EXCEPT ![r] =
                [account |-> a, date |-> date, balance |-> balance, status |-> "open"]]
  /\ UNCHANGED <<accounts, txns, history, imports, entries, proc>>

Eligible(t, rec) ==
  /\ t \in Live
  /\ rec.account \in AccountsOf(txns[t])
  /\ txns[t].date <= rec.date

EntriesFor(ids, a) == {e \in entries : e.txn \in ids /\ e.account = a}

\* Variation: any mark may be taken away.
MayUncheckAny(existing, r) == r \in LiveRecs

MayUncheck(existing, r) == \A e \in existing : e.rec = r

SetEntries(c, r, ids, cleared) ==
  /\ Submit(c, "entries")
  /\ IsOpen(r)
  /\ ids # {} /\ \A t \in ids : Eligible(t, recs[r])
  /\ LET a == recs[r].account
         existing == EntriesFor(ids, a)
         unmarked == {t \in ids : \A e \in existing : e.txn # t}
         marks == {[txn |-> t, account |-> a, rec |-> r] : t \in unmarked}
     IN /\ ~cleared => MayUncheck(existing, r)
        /\ Pend(c, [op |-> "entries", rec |-> r,
                    adds |-> IF cleared THEN marks ELSE {},
                    dels |-> IF cleared THEN {} ELSE existing])
  /\ UNCHANGED <<accounts, txns, history, imports, recs, entries>>

\* Variation: no unique constraint.
InsertableTwice(e) == e.txn \in Live /\ e.rec \in LiveRecs

\* The unique constraint and the foreign keys of reconciliation_entries.
Insertable(e) ==
  /\ e.txn \in Live
  /\ e.rec \in LiveRecs
  /\ \A f \in entries : f.txn # e.txn \/ f.account # e.account

\* Entries are deleted by id: another request that loaded the same entries
\* deletes nothing, even when the legs are marked again meanwhile.
CommitEntries(c) ==
  /\ proc[c].op = "entries"
  /\ \A e \in proc[c].adds : Insertable(e)
  /\ entries' = (entries \cup proc[c].adds) \ proc[c].dels
  /\ proc' = [d \in Clients |->
                IF d = c THEN Idle
                ELSE IF proc[d].op = "entries"
                  THEN [proc[d] EXCEPT !.dels = proc[d].dels \ proc[c].dels]
                  ELSE proc[d]]
  /\ UNCHANGED <<accounts, txns, history, imports, recs, requests>>

CompleteReconciliation(c, r) ==
  /\ Submit(c, "complete")
  /\ IsOpen(r)
  /\ Balanced(recs[r])
  /\ Pend(c, [op |-> "complete", rec |-> r])
  /\ UNCHANGED <<accounts, txns, history, imports, recs, entries>>

CommitComplete(c) ==
  /\ proc[c].op = "complete"
  /\ proc[c].rec \in LiveRecs
  /\ recs' = [recs EXCEPT ![proc[c].rec].status = "completed"]
  /\ Pend(c, Idle)
  /\ UNCHANGED <<accounts, txns, history, imports, entries, requests>>

ReopenReconciliation(c, r) ==
  /\ Submit(c, "reopen")
  /\ r \in LiveRecs
  /\ OpenRecs(recs[r].account) \subseteq {r}
  /\ recs' = [recs EXCEPT ![r].status = "open"]
  /\ UNCHANGED <<accounts, txns, history, imports, entries, proc>>

DeleteReconciliation(c, r) ==
  /\ Submit(c, "discard")
  /\ r \in LiveRecs
  /\ recs' = [recs EXCEPT ![r] = Gone]
  /\ entries' = {e \in entries : e.rec # r}
  /\ UNCHANGED <<accounts, txns, history, imports, proc>>

-----------------------------------------------------------------------------
(* Accounts.                                                               *)

SetAccountArchived(c, a) ==
  /\ Submit(c, "archive")
  /\ accounts[a] # "deleted"
  /\ accounts' = [accounts EXCEPT ![a] = IF accounts[a] = "active" THEN "archived" ELSE "active"]
  /\ UNCHANGED <<txns, history, imports, recs, entries, proc>>

\* cascade_delete_accounts: one database transaction, no history rows.
DeleteAccount(c, a) ==
  /\ Submit(c, "cascade")
  /\ accounts[a] # "deleted"
  /\ LET doomed == {t \in Live : a \in AccountsOf(txns[t])}
         doomedRecs == {r \in LiveRecs : recs[r].account = a}
     IN /\ txns' = Removed(doomed)
        /\ recs' = [r \in Recs |-> IF r \in doomedRecs THEN Gone ELSE recs[r]]
        /\ entries' = {e \in entries : e.account # a /\ e.txn \notin doomed}
  /\ accounts' = [accounts EXCEPT ![a] = "deleted"]
  /\ UNCHANGED <<history, imports, proc>>

-----------------------------------------------------------------------------
\* A pending request whose commit fails, whose validation fails halfway or
\* whose process dies: the database transaction rolls back.
RollBack(c) ==
  /\ proc[c] # Idle
  /\ Pend(c, Idle)
  /\ UNCHANGED <<accounts, txns, history, imports, recs, entries, requests>>

Submits(c) ==
  \/ \E t \in Txns, row \in PlainRow : CreateTransaction(c, t, row)
  \/ \E t \in Txns, row \in Row : UpdateTransaction(c, t, row)
  \/ \E k \in Keys : (\E p \in Payloads : ImportTransactions(c, k, p)) \/ UndoBatch(c, k)
  \/ \E ids \in SUBSET Txns :
       \/ DeleteTransactions(c, ids)
       \/ \E row \in PlainRow : CreateInstallments(c, ids, row)
       \/ \E text \in Texts : BulkCategorize(c, ids, text)
       \/ \E texts \in [ids -> Texts] : ReapplyRules(c, texts)
       \/ \E r \in Recs, cleared \in BOOLEAN : SetEntries(c, r, ids, cleared)
  \/ \E r \in Recs :
       \/ \E a \in Accounts, date \in Dates, balance \in Statements :
            CreateReconciliation(c, r, a, date, balance)
       \/ CompleteReconciliation(c, r) \/ ReopenReconciliation(c, r) \/ DeleteReconciliation(c, r)
  \/ \E a \in Accounts : SetAccountArchived(c, a) \/ DeleteAccount(c, a)

Commits(c) ==
  \/ CommitImport(c) \/ CommitUpdate(c) \/ CommitReapply(c) \/ CommitDelete(c)
  \/ CommitEntries(c) \/ CommitComplete(c) \/ RollBack(c)

Next == \E c \in Clients : Submits(c) \/ Commits(c)

Spec == Init /\ [][Next]_vars

-----------------------------------------------------------------------------
(* Properties.                                                             *)

\* What the constraints leave standing after any race of set_entries,
\* deletions, create and reopen: an account has at most one open
\* reconciliation; an entry points at a transaction and a reconciliation
\* that exist, clears a leg of the reconciliation's own account, and is the
\* only one to clear that leg.
ReconciliationsSound ==
  /\ \A r, s \in LiveRecs :
       recs[r].status = "open" /\ recs[s].status = "open" /\ r # s
         => recs[r].account # recs[s].account
  /\ \A e \in entries :
       /\ e.txn \in Live /\ e.rec \in LiveRecs
       /\ e.account = recs[e.rec].account
  /\ \A e, f \in entries : e.txn = f.txn /\ e.account = f.account => e = f

\* set_entries of one reconciliation never unmarks a leg that another one
\* cleared, however the request is overtaken: a leg that loses its mark
\* while its transaction and reconciliation stay was unmarked by a request
\* on that reconciliation (reconciliation.leg_locked).
LegLocked ==
  [][\A e \in entries \ entries' :
       e.txn \in Live' /\ e.rec \in LiveRecs'
         => \E c \in Clients : /\ proc[c] # Idle /\ proc'[c] = Idle
                              /\ proc[c].op = "entries" /\ proc[c].rec = e.rec]_vars

\* The audit trail tells the fate of every transaction, whatever requests
\* raced: it starts with the one create, a recorded deletion is final, and
\* a row that vanished without one belonged to a deleted account.
HistoryTellsFate ==
  \A t \in Txns :
    /\ history[t] = <<>> <=> txns[t] = Unborn
    /\ history[t] # <<>> =>
         /\ history[t][1].op = "create"
         /\ \A i \in 2..Len(history[t]) : history[t][i].op # "create"
    /\ Ops(t) \cap {"delete", "undo"} # {} => txns[t] = Gone
    /\ txns[t] = Gone /\ Ops(t) \cap {"delete", "undo"} = {} =>
         \E i \in DOMAIN history[t] : \E a \in AccountsOf(history[t][i].after) :
           accounts[a] = "deleted"

\* A key imports its payload once: the transactions created under it are as
\* many as the payload that committed, however often and however
\* concurrently the request is repeated, and none when no import committed.
ImportedOnce ==
  \A k \in Keys :
    Cardinality(Batch(k)) = IF imports[k] = None THEN 0 ELSE Len(Items[imports[k]])

\* undo_batch is all or nothing and final: once a row of a batch was undone,
\* no row of that batch is left, and no replay brings one back.
UndoIsWhole ==
  \A k \in Keys :
    (\E t \in Batch(k) : "undo" \in Ops(t)) => Batch(k) \cap Live = {}

\* The marks of a completed reconciliation stand until it is reopened or
\* deleted; only the deletion of a transaction takes one away
\* (reconciliation.completed).
CompletedEntriesStand ==
  \A r \in LiveRecs \cap LiveRecs' :
    recs[r].status = "completed" /\ recs'[r].status = "completed" =>
      /\ \A e \in entries' \ entries : e.rec # r
      /\ \A e \in entries \ entries' : e.rec = r => e.txn \notin Live'

\* update_transaction and delete_transaction leave a reconciled transaction
\* alone: while a leg is cleared no step moves its money, its date or its
\* accounts and none deletes it (transaction.reconciled), except an undone
\* import and the deletion of an account.
ClearedLegsFrozen ==
  \A t \in Live : HasEntry(t) =>
    \/ t \in Live' /\ OnlyText(txns[t], txns'[t])
    \/ t \notin Live' /\ history'[t] # Append(history[t], [op |-> "delete"])

\* What was reconciled stands, on either side: the marks of a completed
\* reconciliation and the transactions under the marks.
ReconciledStands == [][CompletedEntriesStand /\ ClearedLegsFrozen]_vars

\* The snapshot of a transaction's last history row is the transaction,
\* except for the category: rules that are applied again change it and
\* leave no history row.
HistoryMatchesLedger ==
  \A t \in Live : OnlyText(history[t][Len(history[t])].after, txns[t])

Snapshots(t) ==
  {history[t][i].after : i \in {j \in DOMAIN history[t] : history[t][j].op \in {"create", "update"}}}

\* Edits of one row that race are merged column by column in the table while
\* each snapshot shows one request's own view.  Still every amount, date,
\* type and account a transaction has is the one some snapshot of it shows:
\* no value gets into the ledger past the audit trail.
EveryValueRecorded ==
  \A t \in Live : \A f \in {"type", "account", "to", "date", "amount"} :
    \E s \in Snapshots(t) : s[f] = txns[t][f]

\* Every change of a transaction stages a history row in the same database
\* transaction (docs/backend-api.md).
EveryChangeRecorded ==
  [][\A t \in Txns : txns'[t] # txns[t] => history'[t] # history[t]]_vars
=============================================================================
