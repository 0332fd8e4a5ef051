---------------------------- MODULE LedgerProofs ----------------------------
(***************************************************************************)
(* Theorems about the ledger, for any number of clients, accounts,         *)
(* transactions, keys and reconciliations: what the constraints of the     *)
(* reconciliation tables guarantee, that the audit trail, imports and      *)
(* their undo are right whatever requests race, and what holds besides     *)
(* when requests do not overlap.                                           *)
(***************************************************************************)
EXTENDS Ledger, FiniteSetTheorems, FunctionTheorems, TLAPS

\* The next-state relation, one disjunct per action.
LEMMA NextCases ==
  ASSUME Next
  PROVE \E c \in Clients :
    \/ \E t \in Txns, row \in PlainRow : CreateTransaction(c, t, row)
    \/ \E t \in Txns, row \in Row : UpdateTransaction(c, t, row)
    \/ \E k \in Keys, p \in Payloads : ImportTransactions(c, k, p)
    \/ \E k \in Keys : UndoBatch(c, k)
    \/ \E ids \in SUBSET Txns : DeleteTransactions(c, ids)
    \/ \E ids \in SUBSET Txns, row \in PlainRow : CreateInstallments(c, ids, row)
    \/ \E ids \in SUBSET Txns, text \in Texts : BulkCategorize(c, ids, text)
    \/ \E ids \in SUBSET Txns : \E texts \in [ids -> Texts] : ReapplyRules(c, texts)
    \/ \E r \in Recs, ids \in SUBSET Txns, cleared \in BOOLEAN : SetEntries(c, r, ids, cleared)
    \/ \E r \in Recs, a \in Accounts, date \in Dates, balance \in Statements :
         CreateReconciliation(c, r, a, date, balance)
    \/ \E r \in Recs : CompleteReconciliation(c, r)
    \/ \E r \in Recs : ReopenReconciliation(c, r)
    \/ \E r \in Recs : DeleteReconciliation(c, r)
    \/ \E a \in Accounts : SetAccountArchived(c, a)
    \/ \E a \in Accounts : DeleteAccount(c, a)
    \/ CommitImport(c)
    \/ CommitUpdate(c)
    \/ CommitReapply(c)
    \/ CommitDelete(c)
    \/ CommitEntries(c)
    \/ CommitComplete(c)
    \/ RollBack(c)
BY Zenon DEF Next, Submits, Commits

\* The steps that write reconciliations or marks.
LEMMA MarkWriters ==
  ASSUME Next, ~UNCHANGED <<recs, entries>>
  PROVE \E c \in Clients :
    \/ CommitDelete(c)
    \/ CommitEntries(c)
    \/ CommitComplete(c)
    \/ \E r \in Recs, a \in Accounts, date \in Dates, balance \in Statements :
         CreateReconciliation(c, r, a, date, balance)
    \/ \E r \in Recs : ReopenReconciliation(c, r)
    \/ \E r \in Recs : DeleteReconciliation(c, r)
    \/ \E a \in Accounts : DeleteAccount(c, a)
<1>1. PICK c \in Clients :
        \/ \E t \in Txns, row \in PlainRow : CreateTransaction(c, t, row)
        \/ \E t \in Txns, row \in Row : UpdateTransaction(c, t, row)
        \/ \E k \in Keys, p \in Payloads : ImportTransactions(c, k, p)
        \/ \E k \in Keys : UndoBatch(c, k)
        \/ \E ids \in SUBSET Txns : DeleteTransactions(c, ids)
        \/ \E ids \in SUBSET Txns, row \in PlainRow : CreateInstallments(c, ids, row)
        \/ \E ids \in SUBSET Txns, text \in Texts : BulkCategorize(c, ids, text)
        \/ \E ids \in SUBSET Txns : \E texts \in [ids -> Texts] : ReapplyRules(c, texts)
        \/ \E r \in Recs, ids \in SUBSET Txns, cleared \in BOOLEAN : SetEntries(c, r, ids, cleared)
        \/ \E r \in Recs, a \in Accounts, date \in Dates, balance \in Statements :
             CreateReconciliation(c, r, a, date, balance)
        \/ \E r \in Recs : CompleteReconciliation(c, r)
        \/ \E r \in Recs : ReopenReconciliation(c, r)
        \/ \E r \in Recs : DeleteReconciliation(c, r)
        \/ \E a \in Accounts : SetAccountArchived(c, a)
        \/ \E a \in Accounts : DeleteAccount(c, a)
        \/ CommitImport(c)
        \/ CommitUpdate(c)
        \/ CommitReapply(c)
        \/ CommitDelete(c)
        \/ CommitEntries(c)
        \/ CommitComplete(c)
        \/ RollBack(c)
  BY NextCases, Zenon
<1>2. ~UNCHANGED <<recs, entries>>
  OBVIOUS
<1>3. /\ \A t \in Txns, row \in PlainRow :
           CreateTransaction(c, t, row) => UNCHANGED <<recs, entries>>
      /\ \A t \in Txns, row \in Row : UpdateTransaction(c, t, row) => UNCHANGED <<recs, entries>>
      /\ \A ids \in SUBSET Txns, row \in PlainRow :
           CreateInstallments(c, ids, row) => UNCHANGED <<recs, entries>>
  BY DEF CreateTransaction, UpdateTransaction, CreateInstallments
<1>4. /\ \A ids \in SUBSET Txns, text \in Texts :
           BulkCategorize(c, ids, text) => UNCHANGED <<recs, entries>>
      /\ \A texts : ReapplyRules(c, texts) => UNCHANGED <<recs, entries>>
      /\ \A k \in Keys, p \in Payloads : ImportTransactions(c, k, p) => UNCHANGED <<recs, entries>>
      /\ \A k \in Keys : UndoBatch(c, k) => UNCHANGED <<recs, entries>>
      /\ \A ids \in SUBSET Txns : DeleteTransactions(c, ids) => UNCHANGED <<recs, entries>>
  BY DEF BulkCategorize, ReapplyRules, ImportTransactions, UndoBatch, DeleteTransactions
<1>5. /\ \A r \in Recs, ids \in SUBSET Txns, cleared \in BOOLEAN :
           SetEntries(c, r, ids, cleared) => UNCHANGED <<recs, entries>>
      /\ \A r \in Recs : CompleteReconciliation(c, r) => UNCHANGED <<recs, entries>>
      /\ \A a \in Accounts : SetAccountArchived(c, a) => UNCHANGED <<recs, entries>>
  BY DEF SetEntries, CompleteReconciliation, SetAccountArchived
<1>6. /\ CommitImport(c) \/ CommitUpdate(c) => UNCHANGED <<recs, entries>>
      /\ CommitReapply(c) \/ RollBack(c) => UNCHANGED <<recs, entries>>
  BY DEF CommitImport, CommitUpdate, CommitReapply, RollBack
<1> QED BY <1>1, <1>2, <1>3, <1>4, <1>5, <1>6, Zenon

-----------------------------------------------------------------------------
(* Records.                                                                *)

\* What a pending request carries, by kind.
LEMMA RequestFields ==
  ASSUME NEW q \in Request
  PROVE /\ q.op = "entries" => q.rec \in Recs /\ q.adds \subseteq Entry /\ q.dels \subseteq Entry
        /\ q.op = "complete" => q.rec \in Recs
        /\ q.op \in {"delete", "undo"} => q.ids \subseteq Txns
        /\ q.op = "update" => /\ q.ids \subseteq Txns
                              /\ q.old \in [Txns -> Row \cup {None}]
                              /\ q.new \in [Txns -> Row \cup {None}]
        /\ q.op = "reapply" => \E ids \in SUBSET Txns : q.texts \in [ids -> Texts]
        /\ q.op = "import" => q.key \in Keys /\ q.payload \in Payloads
BY DEF Request, Idle

LEMMA EntriesRequest ==
  ASSUME NEW q \in Request, q.op = "entries"
  PROVE q \in [op : {"entries"}, rec : Recs, adds : SUBSET Entry, dels : SUBSET Entry]
BY DEF Request, Idle

LEMMA IdleIsRequest == Idle \in Request /\ Idle.op = "idle"
BY DEF Request, Idle

\* The columns an UPDATE leaves and writes make a row again, when the CHECK
\* constraints accept it.
LEMMA MergedIsRow ==
  ASSUME NEW row \in Row, NEW old \in Row, NEW new \in Row,
         ValidShape(Merged(row, old, new))
  PROVE Merged(row, old, new) \in Row
<1> DEFINE m == Merged(row, old, new)
<1>1. DOMAIN row = {"type", "account", "to", "date", "amount", "text", "part"}
  BY DEF Row, TxnShape
<1>2. m = [type |-> m.type, account |-> m.account, to |-> m.to, date |-> m.date,
           amount |-> m.amount, text |-> m.text, part |-> m.part]
  BY <1>1 DEF Merged
<1>3. /\ m.type \in {"income", "expense", "transfer"}
      /\ m.account \in Accounts /\ m.to \in Accounts \cup {None} /\ m.date \in Dates
      /\ m.amount \in Amounts /\ m.text \in Texts /\ m.part \in 0..MaxParts
  BY <1>1 DEF Merged, Row, TxnShape
<1>4. m \in TxnShape
  <2> HIDE DEF m
  <2> QED BY <1>2, <1>3 DEF TxnShape
<1> QED BY <1>4 DEF Row

\* Changing the text of a row, or the date and the number of a part, keeps
\* it a row.
LEMMA EditedRow ==
  ASSUME NEW row \in Row
  PROVE /\ \A text \in Texts : [row EXCEPT !.text = text] \in Row
        /\ \A d \in Dates : [row EXCEPT !.date = d] \in Row
        /\ \A n \in 0..MaxParts : [row EXCEPT !.part = n] \in Row
BY DEF Row, TxnShape, ValidShape

LEMMA LiveRow ==
  ASSUME TypeOK
  PROVE /\ \A t \in Live : txns[t] \in Row /\ t \in Txns
        /\ \A r \in LiveRecs : recs[r] \in RecRow /\ r \in Recs
BY DEF TypeOK, Live, LiveRecs

-----------------------------------------------------------------------------
(* Types.                                                                  *)

\* Appending well-formed rows to the history of some transactions keeps it
\* well formed.
LEMMA RecordedType ==
  ASSUME TypeOK, NEW ids \in SUBSET Txns, NEW new \in [ids -> HistoryRow]
  PROVE Recorded(ids, new) \in [Txns -> Seq(HistoryRow)]
<1>1. ASSUME NEW t \in Txns
      PROVE (IF t \in ids THEN Append(history[t], new[t]) ELSE history[t]) \in Seq(HistoryRow)
  <2>1. history[t] \in Seq(HistoryRow)
    BY DEF TypeOK
  <2> QED BY <2>1
<1> QED BY <1>1 DEF Recorded

LEMMA RemovedType ==
  ASSUME TypeOK, NEW ids
  PROVE Removed(ids) \in [Txns -> Row \cup {Unborn, Gone}]
BY DEF TypeOK, Removed

\* A request that only reads ends in a pending request.
LEMMA PendType ==
  ASSUME TypeOK, NEW c \in Clients, NEW q \in Request, Pend(c, q),
         q.op = "update" => \A t \in q.ids : q.old[t] \in Row /\ q.new[t] \in Row
  PROVE /\ proc' \in [Clients -> Request]
        /\ \A d \in Clients : proc'[d].op = "update" =>
             \A t \in proc'[d].ids : proc'[d].old[t] \in Row /\ proc'[d].new[t] \in Row
BY DEF TypeOK, Pend

LEMMA SubmitType ==
  ASSUME TypeOK, NEW c, NEW kind, Submit(c, kind)
  PROVE requests' \in 0..MaxRequests
BY ConstantsAssumption DEF TypeOK, Submit

LEMMA CreateType ==
  ASSUME TypeOK, NEW c \in Clients, NEW t \in Txns, NEW row \in PlainRow,
         CreateTransaction(c, t, row)
  PROVE TypeOK'
<1>1. requests' \in 0..MaxRequests
  BY SubmitType DEF CreateTransaction
<1>2. row \in Row
  BY DEF PlainRow
<1>3. txns' \in [Txns -> Row \cup {Unborn, Gone}]
  BY <1>2 DEF TypeOK, CreateTransaction
<1>4. [op |-> "create", after |-> row, batch |-> None] \in HistoryRow
  BY <1>2 DEF HistoryRow
<1>5. history' \in [Txns -> Seq(HistoryRow)]
  BY <1>4 DEF TypeOK, CreateTransaction
<1> QED BY <1>1, <1>3, <1>5 DEF TypeOK, CreateTransaction

LEMMA InstallmentsType ==
  ASSUME TypeOK, NEW c \in Clients, NEW ids \in SUBSET Txns, NEW row \in PlainRow,
         CreateInstallments(c, ids, row)
  PROVE TypeOK'
<1>1. requests' \in 0..MaxRequests
  BY SubmitType DEF CreateInstallments
<1>2. row \in Row
  BY DEF PlainRow
<1> DEFINE n == Cardinality(ids)
           dated(f, t) == [row EXCEPT !.date = row.date + f[t] - 1]
<1>3. PICK number \in Bijection(ids, 1..n) :
        /\ \A t \in ids : dated(number, t).date \in Dates
        /\ txns' = [t \in Txns |->
             IF t \in ids THEN [dated(number, t) EXCEPT !.part = number[t]] ELSE txns[t]]
        /\ history' = [t \in Txns |->
             IF t \in ids
               THEN <<[op |-> "create", after |-> dated(number, t), batch |-> None]>>
               ELSE history[t]]
  BY Zenon DEF CreateInstallments
<1>4. n \in 2..MaxParts
  BY DEF CreateInstallments
<1>5. ASSUME NEW t \in ids
      PROVE dated(number, t) \in Row /\ [dated(number, t) EXCEPT !.part = number[t]] \in Row
  <2>1. number[t] \in 0..MaxParts
    BY <1>4, ConstantsAssumption DEF Bijection, Injection, Surjection
  <2>2. dated(number, t).date = row.date + number[t] - 1
    BY <1>2 DEF Row, TxnShape
  <2>3. dated(number, t) \in Row
    BY <1>2, <1>3, <2>2, EditedRow
  <2> HIDE DEF dated
  <2> QED BY <2>1, <2>3, EditedRow
<1> HIDE DEF dated, n
<1>6. txns' \in [Txns -> Row \cup {Unborn, Gone}]
  BY <1>3, <1>5 DEF TypeOK
<1>7. ASSUME NEW t \in ids
      PROVE <<[op |-> "create", after |-> dated(number, t), batch |-> None]>> \in Seq(HistoryRow)
  <2>1. [op |-> "create", after |-> dated(number, t), batch |-> None] \in HistoryRow
    BY <1>5 DEF HistoryRow
  <2> QED BY <2>1
<1>8. history' \in [Txns -> Seq(HistoryRow)]
  BY <1>3, <1>7 DEF TypeOK
<1> QED BY <1>1, <1>6, <1>8 DEF TypeOK, CreateInstallments

LEMMA CommitImportType ==
  ASSUME TypeOK, NEW c \in Clients, CommitImport(c)
  PROVE TypeOK'
<1> DEFINE k == proc[c].key
           p == proc[c].payload
           items == Items[p]
<1>1. k \in Keys /\ p \in Payloads
  BY RequestFields DEF TypeOK, CommitImport
<1>2. items \in Seq(PlainRow)
  BY <1>1, ConstantsAssumption
<1> DEFINE Stored(ids, item) ==
             /\ txns' = [t \in Txns |-> IF t \in ids THEN items[item[t]] ELSE txns[t]]
             /\ history' = [t \in Txns |->
                  IF t \in ids
                    THEN <<[op |-> "create", after |-> items[item[t]], batch |-> k]>>
                    ELSE history[t]]
             /\ imports' = [imports EXCEPT ![k] = p]
<1>a. PICK ids \in SUBSET {t \in Txns : txns[t] = Unborn} :
        \E item \in Bijection(ids, DOMAIN items) : Stored(ids, item)
  BY Zenon DEF CommitImport
<1>3. PICK item \in Bijection(ids, DOMAIN items) : Stored(ids, item)
  BY <1>a
<1>4. ASSUME NEW t \in ids PROVE items[item[t]] \in Row
  <2>1. item[t] \in DOMAIN items
    BY DEF Bijection, Injection, Surjection
  <2> HIDE DEF items
  <2> QED BY <1>2, <2>1 DEF PlainRow
<1> HIDE DEF items
<1>5. txns' \in [Txns -> Row \cup {Unborn, Gone}]
  BY <1>3, <1>4 DEF TypeOK
<1>6. ASSUME NEW t \in ids
      PROVE <<[op |-> "create", after |-> items[item[t]], batch |-> k]>> \in Seq(HistoryRow)
  <2>1. [op |-> "create", after |-> items[item[t]], batch |-> k] \in HistoryRow
    BY <1>1, <1>4 DEF HistoryRow
  <2> HIDE DEF k
  <2> QED BY <2>1
<1>7. history' \in [Txns -> Seq(HistoryRow)]
  BY <1>3, <1>6 DEF TypeOK
<1>8. imports' \in [Keys -> Payloads \cup {None}]
  BY <1>1, <1>3 DEF TypeOK
<1>9. /\ proc' \in [Clients -> Request]
      /\ \A d \in Clients : proc'[d].op = "update" =>
           \A t \in proc'[d].ids : proc'[d].old[t] \in Row /\ proc'[d].new[t] \in Row
  BY IdleIsRequest, PendType DEF CommitImport
<1> QED BY <1>5, <1>7, <1>8, <1>9 DEF TypeOK, CommitImport

LEMMA CommitUpdateType ==
  ASSUME TypeOK, NEW c \in Clients, CommitUpdate(c)
  PROVE TypeOK'
<1> DEFINE q == proc[c]
           written == {t \in q.ids : q.new[t] # q.old[t]}
           row == [t \in Txns |->
                     IF t \in written /\ t \in Live
                       THEN Merged(txns[t], q.old[t], q.new[t]) ELSE txns[t]]
<1>1. /\ written \subseteq Live
      /\ \A t \in written : Storable(row[t])
      /\ txns' = row
      /\ history' = Recorded(q.ids, [t \in q.ids |-> UpdateRow(q, t)])
  BY Zenon DEF CommitUpdate
<1>2. /\ q.ids \subseteq Txns
      /\ \A t \in q.ids : q.old[t] \in Row /\ q.new[t] \in Row
  BY RequestFields DEF TypeOK, CommitUpdate
<1>3. ASSUME NEW t \in Txns PROVE row[t] \in Row \cup {Unborn, Gone}
  <2>1. CASE t \in written
    <3>1. row[t] = Merged(txns[t], q.old[t], q.new[t])
      BY <1>1, <2>1
    <3>2. ValidShape(Merged(txns[t], q.old[t], q.new[t]))
      BY <1>1, <2>1, <3>1 DEF Storable
    <3>3. txns[t] \in Row /\ q.old[t] \in Row /\ q.new[t] \in Row
      BY <1>1, <1>2, <2>1, LiveRow
    <3> HIDE DEF q, row
    <3> QED BY <3>1, <3>2, <3>3, MergedIsRow
  <2>2. CASE t \notin written
    BY <2>2 DEF TypeOK
  <2> QED BY <2>1, <2>2
<1>4. txns' \in [Txns -> Row \cup {Unborn, Gone}]
  BY <1>1, <1>3
<1>5. [t \in q.ids |-> UpdateRow(q, t)] \in [q.ids -> HistoryRow]
  BY <1>2 DEF UpdateRow, HistoryRow
<1>6. history' \in [Txns -> Seq(HistoryRow)]
  <2> HIDE DEF q
  <2> QED BY <1>1, <1>2, <1>5, RecordedType
<1>7. /\ proc' \in [Clients -> Request]
      /\ \A d \in Clients : proc'[d].op = "update" =>
           \A t \in proc'[d].ids : proc'[d].old[t] \in Row /\ proc'[d].new[t] \in Row
  BY IdleIsRequest, PendType DEF CommitUpdate
<1> HIDE DEF row
<1> QED BY <1>4, <1>6, <1>7 DEF TypeOK, CommitUpdate

\* Rules that are applied to the ledger give rows another category.
LEMMA ReappliedRow ==
  ASSUME TypeOK, NEW c \in Clients, CommitReapply(c), NEW t \in Txns
  PROVE \/ txns'[t] = txns[t]
        \/ /\ t \in Live /\ txns[t] \in Row /\ txns'[t] \in Row
           /\ \E text \in Texts : txns'[t] = [txns[t] EXCEPT !.text = text]
<1> DEFINE texts == proc[c].texts
<1>1. /\ proc[c].op = "reapply" /\ DOMAIN texts \subseteq Live
      /\ txns' = [u \in Txns |-> IF u \in DOMAIN texts
                                THEN [txns[u] EXCEPT !.text = texts[u]] ELSE txns[u]]
  BY DEF CommitReapply
<1>2. PICK ids \in SUBSET Txns : texts \in [ids -> Texts]
  BY <1>1, RequestFields DEF TypeOK
<1> HIDE DEF texts
<1>3. CASE t \in DOMAIN texts
  <2>1. txns[t] \in Row /\ t \in Live
    BY <1>1, <1>3, LiveRow
  <2>2. texts[t] \in Texts /\ txns'[t] = [txns[t] EXCEPT !.text = texts[t]]
    BY <1>1, <1>2, <1>3
  <2> QED BY <2>1, <2>2, EditedRow
<1>4. CASE t \notin DOMAIN texts
  BY <1>1, <1>4
<1> QED BY <1>3, <1>4

LEMMA CommitReapplyType ==
  ASSUME TypeOK, NEW c \in Clients, CommitReapply(c)
  PROVE TypeOK'
<1>1. txns' \in [Txns -> Row \cup {Unborn, Gone}]
  <2>1. \A t \in Txns : txns'[t] \in Row \cup {Unborn, Gone}
    BY ReappliedRow DEF TypeOK
  <2>2. txns' = [t \in Txns |-> txns'[t]]
    BY DEF CommitReapply
  <2> QED BY <2>1, <2>2
<1>2. /\ proc' \in [Clients -> Request]
      /\ \A d \in Clients : proc'[d].op = "update" =>
           \A t \in proc'[d].ids : proc'[d].old[t] \in Row /\ proc'[d].new[t] \in Row
  BY IdleIsRequest, PendType DEF CommitReapply
<1> QED BY <1>1, <1>2 DEF TypeOK, CommitReapply

\* The reads of a request leave a well-formed pending request.
LEMMA ReadersType ==
  ASSUME TypeOK, NEW c \in Clients,
         \/ \E t \in Txns, row \in Row : UpdateTransaction(c, t, row)
         \/ \E k \in Keys, p \in Payloads : ImportTransactions(c, k, p)
         \/ \E k \in Keys : UndoBatch(c, k)
         \/ \E ids \in SUBSET Txns : DeleteTransactions(c, ids)
         \/ \E ids \in SUBSET Txns, text \in Texts : BulkCategorize(c, ids, text)
         \/ \E ids \in SUBSET Txns : \E texts \in [ids -> Texts] : ReapplyRules(c, texts)
         \/ \E r \in Recs, ids \in SUBSET Txns, cleared \in BOOLEAN : SetEntries(c, r, ids, cleared)
         \/ \E r \in Recs : CompleteReconciliation(c, r)
  PROVE TypeOK'
<1> DEFINE Fits(q) == /\ q \in Request
                      /\ q.op = "update" => \A t \in q.ids : q.old[t] \in Row /\ q.new[t] \in Row
<1>1. /\ requests' \in 0..MaxRequests
      /\ UNCHANGED <<accounts, txns, history, imports, recs, entries>>
  BY SubmitType DEF UpdateTransaction, ImportTransactions, UndoBatch, DeleteTransactions,
       BulkCategorize, ReapplyRules, SetEntries, CompleteReconciliation
<1>2. ASSUME NEW q, Fits(q), Pend(c, q) PROVE TypeOK'
  <2>1. /\ proc' \in [Clients -> Request]
        /\ \A d \in Clients : proc'[d].op = "update" =>
             \A t \in proc'[d].ids : proc'[d].old[t] \in Row /\ proc'[d].new[t] \in Row
    BY <1>2, PendType
  <2> QED BY <1>1, <2>1 DEF TypeOK
<1>3. ASSUME UNCHANGED proc PROVE TypeOK'
  BY <1>1, <1>3 DEF TypeOK
<1>4. ASSUME NEW t \in Txns, NEW row \in Row, UpdateTransaction(c, t, row) PROVE TypeOK'
  <2> DEFINE q == [op |-> "update", ids |-> {t}, old |-> Loaded({t}),
                   new |-> [Loaded({t}) EXCEPT ![t] = row]]
  <2>1. txns[t] \in Row
    BY <1>4, LiveRow DEF UpdateTransaction
  <2>2. Loaded({t}) \in [Txns -> Row \cup {None}] /\ Loaded({t})[t] \in Row
    BY <2>1 DEF Loaded
  <2>3. Fits(q)
    <3>1. [Loaded({t}) EXCEPT ![t] = row] \in [Txns -> Row \cup {None}]
      BY <2>2
    <3>2. q \in Request
      BY <2>2, <3>1 DEF Request
    <3> QED BY <2>2, <3>2
  <2>4. Pend(c, q)
    BY <1>4 DEF UpdateTransaction
  <2> QED BY <1>2, <2>3, <2>4
<1>5. ASSUME NEW ids \in SUBSET Txns, NEW text \in Texts, BulkCategorize(c, ids, text) PROVE TypeOK'
  <2> DEFINE new == [t \in Txns |-> IF t \in ids THEN [txns[t] EXCEPT !.text = text] ELSE None]
             q == [op |-> "update", ids |-> ids, old |-> Loaded(ids), new |-> new]
  <2>1. \A t \in ids : txns[t] \in Row
    BY <1>5, LiveRow DEF BulkCategorize
  <2>2. \A t \in ids : [txns[t] EXCEPT !.text = text] \in Row
    BY <2>1, EditedRow
  <2>3. /\ Loaded(ids) \in [Txns -> Row \cup {None}] /\ new \in [Txns -> Row \cup {None}]
        /\ \A t \in ids : Loaded(ids)[t] \in Row /\ new[t] \in Row
    BY <2>1, <2>2 DEF Loaded
  <2>4. Fits(q)
    <3> HIDE DEF new
    <3>1. q \in Request
      BY <2>3 DEF Request
    <3> QED BY <2>3, <3>1
  <2>5. Pend(c, q)
    BY <1>5 DEF BulkCategorize
  <2> QED BY <1>2, <2>4, <2>5
<1>6. ASSUME NEW k \in Keys, NEW p \in Payloads, ImportTransactions(c, k, p) PROVE TypeOK'
  <2>1. Fits([op |-> "import", key |-> k, payload |-> p])
    BY DEF Request
  <2> HIDE DEF Fits
  <2> QED BY <1>2, <1>3, <1>6, <2>1 DEF ImportTransactions
<1>7. ASSUME NEW k \in Keys, UndoBatch(c, k) PROVE TypeOK'
  <2>1. Fits([op |-> "undo", ids |-> Remaining(k)])
    BY DEF Request, Remaining, Batch
  <2> HIDE DEF Fits
  <2> QED BY <1>2, <1>3, <1>7, <2>1 DEF UndoBatch
<1>8. ASSUME NEW ids \in SUBSET Txns, DeleteTransactions(c, ids) PROVE TypeOK'
  <2>1. Fits([op |-> "delete", ids |-> ids])
    BY DEF Request
  <2> HIDE DEF Fits
  <2> QED BY <1>2, <1>8, <2>1 DEF DeleteTransactions
<1>9. ASSUME NEW r \in Recs, NEW ids \in SUBSET Txns, NEW cleared \in BOOLEAN,
             SetEntries(c, r, ids, cleared)
      PROVE TypeOK'
  <2> DEFINE a == recs[r].account
             existing == EntriesFor(ids, a)
             marks == {[txn |-> t, account |-> a, rec |-> r] :
                         t \in {u \in ids : \A e \in existing : e.txn # u}}
             q == [op |-> "entries", rec |-> r, adds |-> IF cleared THEN marks ELSE {},
                   dels |-> IF cleared THEN {} ELSE existing]
  <2>1. a \in Accounts
    BY <1>9, LiveRow DEF SetEntries, IsOpen, RecRow
  <2>2. existing \subseteq Entry
    BY DEF EntriesFor, TypeOK
  <2>3. marks \subseteq Entry
    <3> HIDE DEF a
    <3> QED BY <2>1 DEF Entry
  <2>4. Fits(q)
    <3> HIDE DEF marks, existing
    <3> QED BY <2>2, <2>3 DEF Request
  <2>5. Pend(c, q)
    BY <1>9 DEF SetEntries
  <2> QED BY <1>2, <2>4, <2>5
<1>10. ASSUME NEW r \in Recs, CompleteReconciliation(c, r) PROVE TypeOK'
  <2>1. Fits([op |-> "complete", rec |-> r])
    BY DEF Request
  <2> HIDE DEF Fits
  <2> QED BY <1>2, <1>10, <2>1 DEF CompleteReconciliation
<1>11. ASSUME NEW ids \in SUBSET Txns, NEW texts \in [ids -> Texts], ReapplyRules(c, texts)
       PROVE TypeOK'
  <2>1. Fits([op |-> "reapply", texts |-> texts])
    BY DEF Request
  <2> HIDE DEF Fits
  <2> QED BY <1>2, <1>11, <2>1 DEF ReapplyRules
<1> HIDE DEF Fits
<1> QED BY <1>4, <1>5, <1>6, <1>7, <1>8, <1>9, <1>10, <1>11

LEMMA CommitDeleteType ==
  ASSUME TypeOK, NEW c \in Clients, CommitDelete(c)
  PROVE TypeOK'
<1> DEFINE ids == proc[c].ids
           new == [t \in ids |-> [op |-> proc[c].op]]
<1>1. ids \subseteq Txns
  BY RequestFields DEF TypeOK, CommitDelete
<1>2. new \in [ids -> HistoryRow]
  BY DEF CommitDelete, HistoryRow
<1>3. txns' \in [Txns -> Row \cup {Unborn, Gone}]
  BY RemovedType DEF CommitDelete
<1>4. history' \in [Txns -> Seq(HistoryRow)]
  <2>1. history' = Recorded(ids, new)
    BY DEF CommitDelete
  <2> HIDE DEF ids, new
  <2> QED BY <1>1, <1>2, <2>1, RecordedType
<1>5. /\ proc' \in [Clients -> Request]
      /\ \A d \in Clients : proc'[d].op = "update" =>
           \A t \in proc'[d].ids : proc'[d].old[t] \in Row /\ proc'[d].new[t] \in Row
  BY IdleIsRequest, PendType DEF CommitDelete
<1> QED BY <1>3, <1>4, <1>5 DEF TypeOK, CommitDelete

LEMMA CommitEntriesType ==
  ASSUME TypeOK, NEW c \in Clients, CommitEntries(c)
  PROVE TypeOK'
<1>1. proc[c].adds \subseteq Entry
  BY RequestFields DEF TypeOK, CommitEntries
<1>2. entries' \subseteq Entry
  BY <1>1 DEF TypeOK, CommitEntries
<1>3. ASSUME NEW d \in Clients
      PROVE /\ proc'[d] \in Request
            /\ proc'[d].op = "update" =>
                 \A t \in proc'[d].ids : proc'[d].old[t] \in Row /\ proc'[d].new[t] \in Row
  <2>1. CASE d = c
    BY <2>1, IdleIsRequest DEF CommitEntries
  <2>2. CASE d # c /\ proc[d].op = "entries"
    <3> DEFINE q == [proc[d] EXCEPT !.dels = proc[d].dels \ proc[c].dels]
    <3>1. proc'[d] = q
      BY <2>2 DEF CommitEntries
    <3>2. proc[d] \in [op : {"entries"}, rec : Recs, adds : SUBSET Entry, dels : SUBSET Entry]
      BY <2>2 DEF TypeOK, Request, Idle
    <3>3. q \in [op : {"entries"}, rec : Recs, adds : SUBSET Entry, dels : SUBSET Entry]
      BY <3>2
    <3> HIDE DEF q
    <3>4. q \in Request /\ q.op = "entries"
      BY <3>3 DEF Request
    <3> QED BY <3>1, <3>4
  <2>3. CASE d # c /\ proc[d].op # "entries"
    BY <2>3 DEF TypeOK, CommitEntries
  <2> QED BY <2>1, <2>2, <2>3
<1>4. proc' \in [Clients -> Request]
  <2>1. proc' = [d \in Clients |-> proc'[d]]
    BY DEF CommitEntries
  <2> QED BY <1>3, <2>1
<1> QED BY <1>2, <1>3, <1>4 DEF TypeOK, CommitEntries

\* The steps on reconciliations and accounts, and a rollback.
LEMMA OthersType ==
  ASSUME TypeOK, NEW c \in Clients,
         \/ \E r \in Recs, a \in Accounts, date \in Dates, balance \in Statements :
              CreateReconciliation(c, r, a, date, balance)
         \/ \E r \in Recs : ReopenReconciliation(c, r)
         \/ \E r \in Recs : DeleteReconciliation(c, r)
         \/ \E a \in Accounts : SetAccountArchived(c, a)
         \/ \E a \in Accounts : DeleteAccount(c, a)
         \/ CommitComplete(c)
         \/ RollBack(c)
  PROVE TypeOK'
<1>1. ASSUME NEW r \in Recs, NEW a \in Accounts, NEW date \in Dates, NEW balance \in Statements,
             CreateReconciliation(c, r, a, date, balance)
      PROVE TypeOK'
  <2>1. [account |-> a, date |-> date, balance |-> balance, status |-> "open"] \in RecRow
    BY DEF RecRow
  <2>2. recs' \in [Recs -> RecRow \cup {Unborn, Gone}]
    BY <1>1, <2>1 DEF TypeOK, CreateReconciliation
  <2>3. requests' \in 0..MaxRequests
    BY <1>1, SubmitType DEF CreateReconciliation
  <2> QED BY <1>1, <2>2, <2>3 DEF TypeOK, CreateReconciliation
<1>2. ASSUME NEW r \in Recs, ReopenReconciliation(c, r) PROVE TypeOK'
  <2>1. recs[r] \in RecRow
    BY <1>2, LiveRow DEF ReopenReconciliation
  <2>2. [recs[r] EXCEPT !.status = "open"] \in RecRow
    BY <2>1 DEF RecRow
  <2>3. recs' \in [Recs -> RecRow \cup {Unborn, Gone}]
    BY <1>2, <2>2 DEF TypeOK, ReopenReconciliation
  <2>4. requests' \in 0..MaxRequests
    BY <1>2, SubmitType DEF ReopenReconciliation
  <2> QED BY <1>2, <2>3, <2>4 DEF TypeOK, ReopenReconciliation
<1>3. ASSUME NEW r \in Recs, DeleteReconciliation(c, r) PROVE TypeOK'
  <2>1. requests' \in 0..MaxRequests
    BY <1>3, SubmitType DEF DeleteReconciliation
  <2> QED BY <1>3, <2>1 DEF TypeOK, DeleteReconciliation
<1>4. ASSUME NEW a \in Accounts, SetAccountArchived(c, a) PROVE TypeOK'
  <2>1. requests' \in 0..MaxRequests
    BY <1>4, SubmitType DEF SetAccountArchived
  <2> QED BY <1>4, <2>1 DEF TypeOK, SetAccountArchived
<1>5. ASSUME NEW a \in Accounts, DeleteAccount(c, a) PROVE TypeOK'
  <2>1. requests' \in 0..MaxRequests
    BY <1>5, SubmitType DEF DeleteAccount
  <2>2. txns' \in [Txns -> Row \cup {Unborn, Gone}]
    BY <1>5, RemovedType DEF DeleteAccount
  <2>3. recs' \in [Recs -> RecRow \cup {Unborn, Gone}]
    BY <1>5 DEF TypeOK, DeleteAccount
  <2>4. entries' \subseteq Entry /\ accounts' \in [Accounts -> {"active", "archived", "deleted"}]
    BY <1>5 DEF TypeOK, DeleteAccount
  <2> QED BY <1>5, <2>1, <2>2, <2>3, <2>4 DEF TypeOK, DeleteAccount
<1>6. ASSUME CommitComplete(c) PROVE TypeOK'
  <2>1. proc[c].rec \in Recs /\ recs[proc[c].rec] \in RecRow
    BY <1>6, LiveRow DEF CommitComplete
  <2>2. [recs[proc[c].rec] EXCEPT !.status = "completed"] \in RecRow
    BY <2>1 DEF RecRow
  <2>3. recs' \in [Recs -> RecRow \cup {Unborn, Gone}]
    BY <1>6, <2>1, <2>2 DEF TypeOK, CommitComplete
  <2>4. /\ proc' \in [Clients -> Request]
        /\ \A d \in Clients : proc'[d].op = "update" =>
             \A t \in proc'[d].ids : proc'[d].old[t] \in Row /\ proc'[d].new[t] \in Row
    BY <1>6, IdleIsRequest, PendType DEF CommitComplete
  <2> QED BY <1>6, <2>3, <2>4 DEF TypeOK, CommitComplete
<1>7. ASSUME RollBack(c) PROVE TypeOK'
  <2>1. /\ proc' \in [Clients -> Request]
        /\ \A d \in Clients : proc'[d].op = "update" =>
             \A t \in proc'[d].ids : proc'[d].old[t] \in Row /\ proc'[d].new[t] \in Row
    BY <1>7, IdleIsRequest, PendType DEF RollBack
  <2> QED BY <1>7, <2>1 DEF TypeOK, RollBack
<1> QED BY <1>1, <1>2, <1>3, <1>4, <1>5, <1>6, <1>7

LEMMA TypeStep ==
  ASSUME TypeOK, [Next]_vars
  PROVE TypeOK'
<1>1. CASE UNCHANGED vars
  BY <1>1 DEF TypeOK, vars
<1>2. CASE Next
  BY Zenon, <1>2, NextCases, CreateType, InstallmentsType, CommitImportType, CommitUpdateType,
     CommitReapplyType, ReadersType, CommitDeleteType, CommitEntriesType, OthersType
<1> QED BY <1>1, <1>2

LEMMA TypeInit ==
  ASSUME Init
  PROVE TypeOK
<1>1. \A t \in Txns : history[t] \in Seq(HistoryRow)
  BY DEF Init
<1> QED BY <1>1, IdleIsRequest, ConstantsAssumption DEF Init, TypeOK

\* Every reachable state of the ledger is well typed; in particular no
\* merge of concurrent edits leaves a transaction that is not a valid row
\* (a transfer without destination, or to its own account), however many
\* clients edit however many transactions.
THEOREM TypeCorrect == Spec => []TypeOK
<1>1. Init => TypeOK
  BY TypeInit
<1>2. TypeOK /\ [Next]_vars => TypeOK'
  BY TypeStep
<1> QED BY <1>1, <1>2, PTL DEF Spec

-----------------------------------------------------------------------------
(* Marks.  What a pending set_entries request is going to write: marks of  *)
(* its own reconciliation's account, one per transaction, and deletions of *)
(* its own reconciliation's marks only.                                    *)

PendingMarks(c) ==
  proc[c].op = "entries" =>
    /\ recs[proc[c].rec] # Unborn
    /\ \A e \in proc[c].adds :
         e.rec = proc[c].rec /\ (e.rec \in LiveRecs => e.account = recs[e.rec].account)
    /\ \A e, f \in proc[c].adds : e.txn = f.txn => e = f
    /\ \A e \in proc[c].dels : e.rec = proc[c].rec

OneOpen ==
  \A r, s \in LiveRecs :
    recs[r].status = "open" /\ recs[s].status = "open" /\ r # s
      => recs[r].account # recs[s].account

MarksRefer ==
  \A e \in entries : e.txn \in Live /\ e.rec \in LiveRecs /\ e.account = recs[e.rec].account

MarksUnique ==
  \A e, f \in entries : e.txn = f.txn /\ e.account = f.account => e = f

\* The inductive invariant.
MarksInv ==
  /\ TypeOK
  /\ OneOpen
  /\ MarksRefer
  /\ MarksUnique
  /\ \A c \in Clients : PendingMarks(c)

\* A step on a reconciliation leaves it the account it was opened for, and
\* an id never comes back.
RecsKept ==
  \A r \in Recs : recs[r] # Unborn =>
    /\ recs'[r] # Unborn
    /\ r \in LiveRecs' => r \in LiveRecs /\ recs'[r].account = recs[r].account

LEMMA UpdateKeepsLive ==
  ASSUME TypeOK, NEW c \in Clients, CommitUpdate(c)
  PROVE Live \subseteq Live'
<1> DEFINE q == proc[c]
           written == {t \in q.ids : q.new[t] # q.old[t]}
           row == [t \in Txns |->
                     IF t \in written /\ t \in Live
                       THEN Merged(txns[t], q.old[t], q.new[t]) ELSE txns[t]]
<1>1. /\ \A t \in written : Storable(row[t])
      /\ txns' = row
  BY Zenon DEF CommitUpdate
<1>2. \A t \in q.ids : q.old[t] \in Row /\ q.new[t] \in Row
  BY DEF TypeOK, CommitUpdate
<1>3. ASSUME NEW t \in Live PROVE t \in Live'
  <2>1. txns[t] \in Row /\ t \in Txns
    BY LiveRow
  <2>2. CASE t \in written
    <3>1. row[t] = Merged(txns[t], q.old[t], q.new[t])
      BY <2>1, <2>2
    <3>2. ValidShape(Merged(txns[t], q.old[t], q.new[t]))
      BY <1>1, <2>2, <3>1 DEF Storable
    <3>3. q.old[t] \in Row /\ q.new[t] \in Row
      BY <1>2, <2>2
    <3>4. row[t] \in Row
      <4> HIDE DEF q, row
      <4> QED BY <2>1, <3>1, <3>2, <3>3, MergedIsRow
    <3> HIDE DEF row
    <3> QED BY <1>1, <2>1, <3>4, MarkersAssumption DEF Live
  <2>3. CASE t \notin written
    BY <1>1, <2>1, <2>3 DEF Live
  <2> QED BY <2>2, <2>3
<1> QED BY <1>3

LEMMA ReapplyKeepsLive ==
  ASSUME TypeOK, NEW c \in Clients, CommitReapply(c)
  PROVE Live \subseteq Live'
BY ReappliedRow, MarkersAssumption DEF Live

LEMMA CreatesKeepLive ==
  ASSUME TypeOK, NEW c \in Clients,
         \/ \E t \in Txns, row \in PlainRow : CreateTransaction(c, t, row)
         \/ \E ids \in SUBSET Txns, row \in PlainRow : CreateInstallments(c, ids, row)
         \/ CommitImport(c)
  PROVE Live \subseteq Live'
<1>1. ASSUME NEW t \in Live PROVE txns'[t] = txns[t] /\ t \in Txns
  <2>1. t \in Txns /\ txns[t] # Unborn
    BY DEF Live
  <2>2. CASE \E u \in Txns, row \in PlainRow : CreateTransaction(c, u, row)
    BY <2>1, <2>2 DEF CreateTransaction, TypeOK
  <2>3. CASE \E ids \in SUBSET Txns, row \in PlainRow : CreateInstallments(c, ids, row)
    <3>1. PICK ids \in SUBSET Txns, row \in PlainRow : CreateInstallments(c, ids, row)
      BY <2>3
    <3>2. t \notin ids
      BY <2>1, <3>1 DEF CreateInstallments
    <3>3. \E new : txns' = [u \in Txns |-> IF u \in ids THEN new[u] ELSE txns[u]]
      <4>1. PICK number \in Bijection(ids, 1..Cardinality(ids)) :
              txns' = [u \in Txns |->
                IF u \in ids
                  THEN [[row EXCEPT !.date = row.date + number[u] - 1] EXCEPT !.part = number[u]]
                  ELSE txns[u]]
        BY <3>1 DEF CreateInstallments
      <4> DEFINE new == [u \in ids |->
              [[row EXCEPT !.date = row.date + number[u] - 1] EXCEPT !.part = number[u]]]
      <4>2. txns' = [u \in Txns |-> IF u \in ids THEN new[u] ELSE txns[u]]
        BY <4>1
      <4> HIDE DEF new
      <4> QED BY <4>2
    <3> QED BY <2>1, <3>2, <3>3
  <2>4. CASE CommitImport(c)
    <3> DEFINE items == Items[proc[c].payload]
    <3>1. PICK ids \in SUBSET {u \in Txns : txns[u] = Unborn} :
            \E item \in Bijection(ids, DOMAIN items) :
              txns' = [u \in Txns |-> IF u \in ids THEN items[item[u]] ELSE txns[u]]
      BY <2>4, Zenon DEF CommitImport
    <3> HIDE DEF items
    <3> QED BY <2>1, <3>1
  <2> QED BY <2>2, <2>3, <2>4
<1> QED BY <1>1 DEF Live

\* Requests of other clients are not touched by a change of the tables that
\* keeps reconciliations.
LEMMA PendingStays ==
  ASSUME MarksInv, RecsKept, NEW d \in Clients, proc'[d] = proc[d] \/ proc'[d].op # "entries"
  PROVE PendingMarks(d)'
<1> SUFFICES ASSUME proc'[d] = proc[d], proc[d].op = "entries"
             PROVE PendingMarks(d)'
  BY DEF PendingMarks
<1>1. PendingMarks(d) /\ proc[d].rec \in Recs
  BY RequestFields DEF MarksInv, TypeOK
<1> QED BY <1>1 DEF PendingMarks, RecsKept, LiveRecs

\* A step that keeps the reconciliations and the marks, and loses no
\* transaction.
LEMMA MarksUntouched ==
  ASSUME MarksInv, TypeOK', UNCHANGED <<recs, entries>>, Live \subseteq Live',
         \A d \in Clients : proc'[d] = proc[d] \/ PendingMarks(d)'
  PROVE MarksInv'
<1>1. RecsKept
  BY DEF RecsKept, LiveRecs
<1>2. \A d \in Clients : PendingMarks(d)'
  BY <1>1, PendingStays
<1>3. LiveRecs' = LiveRecs
  BY DEF LiveRecs
<1>4. OneOpen' /\ MarksUnique'
  BY <1>3 DEF MarksInv, OneOpen, MarksUnique
<1>5. MarksRefer'
  BY <1>3 DEF MarksInv, MarksRefer
<1> QED BY <1>2, <1>4, <1>5 DEF MarksInv

LEMMA IdlePending ==
  ASSUME NEW d \in Clients, proc'[d].op # "entries"
  PROVE PendingMarks(d)'
BY DEF PendingMarks

LEMMA PendOthers ==
  ASSUME TypeOK, NEW c \in Clients, NEW q, Pend(c, q)
  PROVE proc'[c] = q /\ \A d \in Clients : d # c => proc'[d] = proc[d]
BY DEF TypeOK, Pend

LEMMA CreatesKeepMarks ==
  ASSUME MarksInv, TypeOK', NEW c \in Clients,
         \/ \E t \in Txns, row \in PlainRow : CreateTransaction(c, t, row)
         \/ \E ids \in SUBSET Txns, row \in PlainRow : CreateInstallments(c, ids, row)
         \/ CommitImport(c)
         \/ CommitUpdate(c)
         \/ CommitReapply(c)
  PROVE MarksInv'
<1>1. Live \subseteq Live'
  BY CreatesKeepLive, UpdateKeepsLive, ReapplyKeepsLive DEF MarksInv
<1>2. UNCHANGED <<recs, entries>>
  BY DEF CreateTransaction, CreateInstallments, CommitImport, CommitUpdate, CommitReapply
<1>3. \/ UNCHANGED proc
      \/ Pend(c, Idle)
  BY DEF CreateTransaction, CreateInstallments, CommitImport, CommitUpdate, CommitReapply
<1>4. \A d \in Clients : proc'[d] = proc[d] \/ PendingMarks(d)'
  BY <1>3, PendOthers, IdleIsRequest, IdlePending DEF MarksInv
<1> QED BY <1>1, <1>2, <1>4, MarksUntouched

\* The reads of the requests that are not about marks, and a rollback.
LEMMA ReadersKeepMarks ==
  ASSUME MarksInv, TypeOK', NEW c \in Clients,
         \/ \E t \in Txns, row \in Row : UpdateTransaction(c, t, row)
         \/ \E k \in Keys, p \in Payloads : ImportTransactions(c, k, p)
         \/ \E k \in Keys : UndoBatch(c, k)
         \/ \E ids \in SUBSET Txns : DeleteTransactions(c, ids)
         \/ \E ids \in SUBSET Txns, text \in Texts : BulkCategorize(c, ids, text)
         \/ \E ids \in SUBSET Txns : \E texts \in [ids -> Texts] : ReapplyRules(c, texts)
         \/ \E r \in Recs : CompleteReconciliation(c, r)
         \/ \E a \in Accounts : SetAccountArchived(c, a)
         \/ RollBack(c)
  PROVE MarksInv'
<1>1. UNCHANGED <<txns, recs, entries>>
  BY DEF UpdateTransaction, ImportTransactions, UndoBatch, DeleteTransactions, BulkCategorize,
         ReapplyRules, CompleteReconciliation, SetAccountArchived, RollBack
<1>2. Live \subseteq Live'
  BY <1>1 DEF Live
<1>3. proc' = proc \/ \E q : Pend(c, q) /\ q.op # "entries"
  <2>1. CASE \E t \in Txns, row \in Row : UpdateTransaction(c, t, row)
    <3>1. PICK old, new, t : Pend(c, [op |-> "update", ids |-> {t}, old |-> old, new |-> new])
      BY <2>1, Zenon DEF UpdateTransaction
    <3> QED BY <3>1
  <2>2. CASE \E ids \in SUBSET Txns, text \in Texts : BulkCategorize(c, ids, text)
    <3>1. PICK old, new, ids : Pend(c, [op |-> "update", ids |-> ids, old |-> old, new |-> new])
      BY <2>2, Zenon DEF BulkCategorize
    <3> QED BY <3>1
  <2>3. CASE \E k \in Keys, p \in Payloads : ImportTransactions(c, k, p)
    BY <2>3 DEF ImportTransactions
  <2>4. CASE \E k \in Keys : UndoBatch(c, k)
    <3>1. PICK k \in Keys : UndoBatch(c, k)
      BY <2>4
    <3>2. proc' = proc \/ Pend(c, [op |-> "undo", ids |-> Remaining(k)])
      BY <3>1 DEF UndoBatch
    <3> QED BY <3>2
  <2>5. CASE \E ids \in SUBSET Txns : DeleteTransactions(c, ids)
    <3>1. PICK ids : Pend(c, [op |-> "delete", ids |-> ids])
      BY <2>5, Zenon DEF DeleteTransactions
    <3> QED BY <3>1
  <2>6. CASE \E r \in Recs : CompleteReconciliation(c, r)
    <3>1. PICK r : Pend(c, [op |-> "complete", rec |-> r])
      BY <2>6, Zenon DEF CompleteReconciliation
    <3> QED BY <3>1
  <2>7. CASE \E a \in Accounts : SetAccountArchived(c, a)
    BY <2>7 DEF SetAccountArchived
  <2>8. CASE RollBack(c)
    BY <2>8, IdleIsRequest DEF RollBack
  <2>9. CASE \E ids \in SUBSET Txns : \E texts \in [ids -> Texts] : ReapplyRules(c, texts)
    <3>1. PICK texts : Pend(c, [op |-> "reapply", texts |-> texts])
      BY <2>9, Zenon DEF ReapplyRules
    <3> QED BY <3>1
  <2> QED BY <2>1, <2>2, <2>3, <2>4, <2>5, <2>6, <2>7, <2>8, <2>9
<1>4. \A d \in Clients : proc'[d] = proc[d] \/ PendingMarks(d)'
  BY <1>3, PendOthers, IdlePending DEF MarksInv
<1> QED BY <1>1, <1>2, <1>4, MarksUntouched

LEMMA SetEntriesKeepsMarks ==
  ASSUME MarksInv, TypeOK', NEW c \in Clients, NEW r \in Recs, NEW ids \in SUBSET Txns,
         NEW cleared \in BOOLEAN, SetEntries(c, r, ids, cleared)
  PROVE MarksInv'
<1> DEFINE a == recs[r].account
           existing == EntriesFor(ids, a)
           marks == {[txn |-> t, account |-> a, rec |-> r] :
                       t \in {u \in ids : \A e \in existing : e.txn # u}}
           q == [op |-> "entries", rec |-> r, adds |-> IF cleared THEN marks ELSE {},
                 dels |-> IF cleared THEN {} ELSE existing]
<1>1. /\ Pend(c, q)
      /\ ~cleared => \A e \in existing : e.rec = r
      /\ r \in LiveRecs
      /\ UNCHANGED <<accounts, txns, history, imports, recs, entries>>
  BY DEF SetEntries, MayUncheck, IsOpen
<1>2. proc'[c] = q /\ \A d \in Clients : d # c => proc'[d] = proc[d]
  BY <1>1, PendOthers DEF MarksInv
<1>3. \A e \in marks : e.rec = r /\ e.account = a
  OBVIOUS
<1>4. \A e, f \in marks : e.txn = f.txn => e = f
  OBVIOUS
<1>5. q.adds \subseteq marks /\ q.rec = r /\ q.op = "entries" /\ \A e \in q.dels : e.rec = r
  BY <1>1
<1>6. recs[r] # Unborn
  BY <1>1 DEF LiveRecs
<1>7. PendingMarks(c)'
  <2> HIDE DEF q, marks
  <2> QED BY <1>1, <1>2, <1>3, <1>4, <1>5, <1>6 DEF PendingMarks
<1>8. Live \subseteq Live'
  BY <1>1 DEF Live
<1> QED BY <1>1, <1>2, <1>7, <1>8, MarksUntouched

LEMMA CommitDeleteKeepsMarks ==
  ASSUME MarksInv, TypeOK', NEW c \in Clients, CommitDelete(c)
  PROVE MarksInv'
<1>1. RecsKept /\ LiveRecs' = LiveRecs
  BY DEF CommitDelete, RecsKept, LiveRecs
<1>2. \A d \in Clients : proc'[d] = proc[d] \/ proc'[d].op # "entries"
  BY PendOthers, IdleIsRequest DEF CommitDelete, MarksInv
<1>3. \A d \in Clients : PendingMarks(d)'
  BY <1>1, <1>2, PendingStays
<1>4. OneOpen' /\ MarksUnique'
  BY <1>1 DEF MarksInv, OneOpen, MarksUnique, CommitDelete
<1>5. MarksRefer'
  <2> SUFFICES ASSUME NEW e \in entries'
               PROVE e.txn \in Live' /\ e.rec \in LiveRecs' /\ e.account = recs'[e.rec].account
    BY DEF MarksRefer
  <2>1. e \in entries /\ e.txn \notin proc[c].ids
    BY DEF CommitDelete
  <2>2. e.txn \in Live /\ e.rec \in LiveRecs /\ e.account = recs[e.rec].account
    BY <2>1 DEF MarksInv, MarksRefer
  <2>3. txns'[e.txn] = txns[e.txn]
    BY <2>1, <2>2 DEF CommitDelete, Removed, Live
  <2> QED BY <1>1, <2>2, <2>3 DEF CommitDelete, Live
<1> QED BY <1>3, <1>4, <1>5 DEF MarksInv

LEMMA CommitEntriesKeepsMarks ==
  ASSUME MarksInv, TypeOK', NEW c \in Clients, CommitEntries(c)
  PROVE MarksInv'
<1>1. UNCHANGED <<txns, recs>> /\ Live' = Live /\ LiveRecs' = LiveRecs
  BY DEF CommitEntries, Live, LiveRecs
<1>2. PendingMarks(c) /\ proc[c].op = "entries"
  BY DEF MarksInv, CommitEntries
<1>3. \A e \in proc[c].adds : Insertable(e)
  BY DEF CommitEntries
<1>4. OneOpen'
  BY <1>1 DEF MarksInv, OneOpen
<1>5. MarksRefer'
  <2> SUFFICES ASSUME NEW e \in entries'
               PROVE e.txn \in Live /\ e.rec \in LiveRecs /\ e.account = recs[e.rec].account
    BY <1>1 DEF MarksRefer
  <2>1. e \in entries \/ e \in proc[c].adds
    BY DEF CommitEntries
  <2> QED BY <1>2, <1>3, <2>1 DEF MarksInv, MarksRefer, PendingMarks, Insertable
<1>6. MarksUnique'
  <2> SUFFICES ASSUME NEW e \in entries', NEW f \in entries', e.txn = f.txn, e.account = f.account
               PROVE e = f
    BY DEF MarksUnique
  <2>1. /\ e \in entries \/ e \in proc[c].adds
        /\ f \in entries \/ f \in proc[c].adds
    BY DEF CommitEntries
  <2>2. CASE e \in entries /\ f \in entries
    BY <2>2 DEF MarksInv, MarksUnique
  <2>3. CASE e \in proc[c].adds /\ f \in proc[c].adds
    BY <1>2, <2>3 DEF PendingMarks
  <2>4. CASE (e \in entries /\ f \in proc[c].adds) \/ (f \in entries /\ e \in proc[c].adds)
    BY <1>3, <2>4 DEF Insertable
  <2> QED BY <2>1, <2>2, <2>3, <2>4
<1>7. RecsKept
  BY <1>1 DEF RecsKept
<1>8. ASSUME NEW d \in Clients PROVE PendingMarks(d)'
  <2>1. CASE d = c
    BY <2>1, IdleIsRequest, IdlePending DEF CommitEntries
  <2>2. CASE d # c /\ proc[d].op = "entries"
    <3> DEFINE h == [proc[d] EXCEPT !.dels = proc[d].dels \ proc[c].dels]
    <3>1. proc[d] \in [op : {"entries"}, rec : Recs, adds : SUBSET Entry, dels : SUBSET Entry]
      BY <2>2, EntriesRequest DEF MarksInv, TypeOK
    <3>2. proc'[d] = h
      BY <2>2 DEF CommitEntries
    <3>3. h.op = "entries" /\ h.rec = proc[d].rec /\ h.adds = proc[d].adds /\ h.dels \subseteq proc[d].dels
      BY <3>1
    <3>4. PendingMarks(d)
      BY DEF MarksInv
    <3> HIDE DEF h
    <3> QED BY <1>1, <2>2, <3>2, <3>3, <3>4 DEF PendingMarks
  <2>3. CASE d # c /\ proc[d].op # "entries"
    BY <1>7, <2>3, PendingStays DEF CommitEntries
  <2> QED BY <2>1, <2>2, <2>3
<1> QED BY <1>4, <1>5, <1>6, <1>8 DEF MarksInv

LEMMA CreateReconciliationKeepsMarks ==
  ASSUME MarksInv, TypeOK', NEW c \in Clients, NEW r \in Recs, NEW a \in Accounts,
         NEW date \in Dates, NEW balance \in Statements,
         CreateReconciliation(c, r, a, date, balance)
  PROVE MarksInv'
<1> DEFINE rec == [account |-> a, date |-> date, balance |-> balance, status |-> "open"]
<1>1. /\ recs' = [recs EXCEPT ![r] = rec]
      /\ recs[r] = Unborn
      /\ UNCHANGED <<txns, entries, proc>>
  BY DEF CreateReconciliation
<1>2. rec \in RecRow /\ rec.account = a
  BY DEF RecRow
<1>3. recs \in [Recs -> RecRow \cup {Unborn, Gone}]
  BY DEF MarksInv, TypeOK
<1> HIDE DEF rec
<1>4. \A s \in Recs : s # r => recs'[s] = recs[s]
  BY <1>1, <1>3
<1>5. recs'[r] = rec /\ r \notin LiveRecs
  BY <1>1, <1>3 DEF LiveRecs
<1>6. LiveRecs' = LiveRecs \cup {r}
  BY <1>2, <1>4, <1>5, MarkersAssumption DEF LiveRecs
<1>7. RecsKept
  BY <1>1, <1>4, <1>6 DEF RecsKept
<1>8. \A d \in Clients : PendingMarks(d)'
  BY <1>1, <1>7, PendingStays
<1>9. OneOpen'
  <2>1. \A s \in LiveRecs : recs[s].status = "open" => recs[s].account # a
    BY DEF CreateReconciliation, OpenRecs
  <2> QED BY <1>2, <1>4, <1>5, <1>6, <2>1 DEF MarksInv, OneOpen, LiveRecs
<1>10. Live' = Live
  BY <1>1 DEF Live
<1>11. MarksRefer'
  BY <1>1, <1>4, <1>5, <1>6, <1>10 DEF MarksInv, MarksRefer, LiveRecs
<1>12. MarksUnique'
  BY <1>1 DEF MarksInv, MarksUnique
<1> QED BY <1>8, <1>9, <1>11, <1>12 DEF MarksInv

\* A new status leaves the account of a reconciliation alone.
LEMMA StatusKeepsMarks ==
  ASSUME MarksInv, TypeOK', NEW r \in LiveRecs, NEW status \in {"open", "completed"},
         recs' = [recs EXCEPT ![r].status = status],
         status = "open" => OpenRecs(recs[r].account) \subseteq {r},
         UNCHANGED <<txns, entries>>,
         \A d \in Clients : proc'[d] = proc[d] \/ proc'[d].op # "entries"
  PROVE MarksInv'
<1> DEFINE rec == [recs[r] EXCEPT !.status = status]
<1>1. recs[r] \in RecRow /\ r \in Recs
  BY LiveRow DEF MarksInv
<1>2. rec \in RecRow /\ rec.account = recs[r].account /\ rec.status = status
  BY <1>1 DEF RecRow
<1>3. recs \in [Recs -> RecRow \cup {Unborn, Gone}]
  BY DEF MarksInv, TypeOK
<1>4. recs' = [recs EXCEPT ![r] = rec]
  BY <1>1, <1>3
<1> HIDE DEF rec
<1>5. recs'[r] = rec /\ \A s \in Recs : s # r => recs'[s] = recs[s]
  BY <1>1, <1>3, <1>4
<1>6. LiveRecs' = LiveRecs
  BY <1>1, <1>2, <1>5, MarkersAssumption DEF LiveRecs
<1>7. \A s \in LiveRecs : recs'[s].account = recs[s].account
  BY <1>2, <1>5 DEF LiveRecs
<1>8. RecsKept
  BY <1>2, <1>5, <1>6, <1>7, MarkersAssumption DEF RecsKept
<1>9. \A d \in Clients : PendingMarks(d)'
  BY <1>8, PendingStays
<1>10. OneOpen'
  <2> SUFFICES ASSUME NEW s \in LiveRecs, NEW u \in LiveRecs, recs'[s].status = "open",
                      recs'[u].status = "open", s # u
               PROVE recs[s].account # recs[u].account
    BY <1>6, <1>7 DEF OneOpen
  <2>1. CASE s # r /\ u # r
    BY <1>5, <2>1 DEF MarksInv, OneOpen, LiveRecs
  <2>2. CASE s = r
    BY <1>2, <1>5, <2>2 DEF OpenRecs, LiveRecs
  <2>3. CASE u = r
    BY <1>2, <1>5, <2>3 DEF OpenRecs, LiveRecs
  <2> QED BY <2>1, <2>2, <2>3
<1>11. Live' = Live
  BY DEF Live
<1>12. MarksRefer'
  BY <1>6, <1>7, <1>11 DEF MarksInv, MarksRefer
<1>13. MarksUnique'
  BY DEF MarksInv, MarksUnique
<1> QED BY <1>9, <1>10, <1>12, <1>13 DEF MarksInv

\* Deleting reconciliations, with or without transactions, takes the marks
\* that refer to them along.
LEMMA DeletionKeepsMarks ==
  ASSUME MarksInv, TypeOK', NEW doomed \in SUBSET Recs, NEW ids \in SUBSET Txns,
         recs' = [r \in Recs |-> IF r \in doomed THEN Gone ELSE recs[r]],
         \A t \in Txns \ ids : txns'[t] = txns[t],
         entries' \subseteq {e \in entries : e.rec \notin doomed /\ e.txn \notin ids},
         doomed \subseteq LiveRecs,
         UNCHANGED proc
  PROVE MarksInv'
<1>1. LiveRecs' = LiveRecs \ doomed
  BY DEF LiveRecs
<1>2. \A r \in LiveRecs' : recs'[r] = recs[r]
  BY <1>1 DEF LiveRecs
<1>3. RecsKept
  BY <1>1, <1>2, ConstantsAssumption DEF RecsKept
<1>4. \A d \in Clients : PendingMarks(d)'
  BY <1>3, PendingStays
<1>5. OneOpen'
  BY <1>1, <1>2 DEF MarksInv, OneOpen
<1>6. MarksRefer'
  <2> SUFFICES ASSUME NEW e \in entries'
               PROVE e.txn \in Live' /\ e.rec \in LiveRecs' /\ e.account = recs'[e.rec].account
    BY DEF MarksRefer
  <2>1. e \in entries /\ e.rec \notin doomed /\ e.txn \notin ids
    OBVIOUS
  <2>2. e.txn \in Live /\ e.rec \in LiveRecs /\ e.account = recs[e.rec].account
    BY <2>1 DEF MarksInv, MarksRefer
  <2> QED BY <1>1, <1>2, <2>1, <2>2 DEF Live
<1>7. MarksUnique'
  BY DEF MarksInv, MarksUnique
<1> QED BY <1>4, <1>5, <1>6, <1>7 DEF MarksInv

LEMMA MarksStep ==
  ASSUME MarksInv, [Next]_vars
  PROVE MarksInv'
<1>1. TypeOK'
  BY TypeStep DEF MarksInv
<1>2. CASE UNCHANGED vars
  BY <1>1, <1>2, MarksUntouched DEF vars, Live
<1>3. CASE Next
  <2>1. PICK c \in Clients : 
          \/ \/ \E t \in Txns, row \in PlainRow : CreateTransaction(c, t, row)
             \/ \E ids \in SUBSET Txns, row \in PlainRow : CreateInstallments(c, ids, row)
             \/ CommitImport(c)
             \/ CommitUpdate(c)
             \/ CommitReapply(c)
          \/ \/ \E t \in Txns, row \in Row : UpdateTransaction(c, t, row)
             \/ \E k \in Keys, p \in Payloads : ImportTransactions(c, k, p)
             \/ \E k \in Keys : UndoBatch(c, k)
             \/ \E ids \in SUBSET Txns : DeleteTransactions(c, ids)
             \/ \E ids \in SUBSET Txns, text \in Texts : BulkCategorize(c, ids, text)
             \/ \E ids \in SUBSET Txns : \E texts \in [ids -> Texts] : ReapplyRules(c, texts)
             \/ \E r \in Recs : CompleteReconciliation(c, r)
             \/ \E a \in Accounts : SetAccountArchived(c, a)
             \/ RollBack(c)
          \/ \E r \in Recs, ids \in SUBSET Txns, cleared \in BOOLEAN : SetEntries(c, r, ids, cleared)
          \/ \E r \in Recs, a \in Accounts, date \in Dates, balance \in Statements :
               CreateReconciliation(c, r, a, date, balance)
          \/ \E r \in Recs : ReopenReconciliation(c, r)
          \/ \E r \in Recs : DeleteReconciliation(c, r)
          \/ \E a \in Accounts : DeleteAccount(c, a)
          \/ CommitDelete(c)
          \/ CommitEntries(c)
          \/ CommitComplete(c)
    BY <1>3, NextCases, Zenon
  <2>2. ASSUME NEW r \in Recs, ReopenReconciliation(c, r) PROVE MarksInv'
    <3>1. /\ r \in LiveRecs /\ recs' = [recs EXCEPT ![r].status = "open"]
          /\ OpenRecs(recs[r].account) \subseteq {r} /\ UNCHANGED <<txns, entries, proc>>
      BY <2>2 DEF ReopenReconciliation
    <3> QED BY <1>1, <3>1, StatusKeepsMarks
  <2>3. ASSUME CommitComplete(c) PROVE MarksInv'
    <3>1. /\ proc[c].rec \in LiveRecs /\ recs' = [recs EXCEPT ![proc[c].rec].status = "completed"]
          /\ UNCHANGED <<txns, entries>>
      BY <2>3 DEF CommitComplete
    <3>2. \A d \in Clients : proc'[d] = proc[d] \/ proc'[d].op # "entries"
      BY <2>3, PendOthers, IdleIsRequest DEF CommitComplete, MarksInv
    <3>3. PICK r \in LiveRecs : r = proc[c].rec
      BY <3>1
    <3> QED BY <1>1, <3>1, <3>2, <3>3, StatusKeepsMarks
  <2>4. ASSUME NEW r \in Recs, DeleteReconciliation(c, r) PROVE MarksInv'
    <3> DEFINE doomed == {r}
               ids == {}
    <3>1. /\ recs' = [s \in Recs |-> IF s \in doomed THEN Gone ELSE recs[s]]
          /\ entries' \subseteq {e \in entries : e.rec \notin doomed /\ e.txn \notin ids}
          /\ \A t \in Txns \ ids : txns'[t] = txns[t]
          /\ doomed \subseteq LiveRecs /\ UNCHANGED proc
      BY <2>4 DEF DeleteReconciliation, MarksInv, TypeOK
    <3>2. doomed \subseteq Recs /\ ids \subseteq Txns
      OBVIOUS
    <3> HIDE DEF doomed, ids
    <3> QED BY <1>1, <3>1, <3>2, DeletionKeepsMarks
  <2>5. ASSUME NEW a \in Accounts, DeleteAccount(c, a) PROVE MarksInv'
    <3> DEFINE doomed == {t \in Live : a \in AccountsOf(txns[t])}
               doomedRecs == {r \in LiveRecs : recs[r].account = a}
    <3>1. /\ recs' = [r \in Recs |-> IF r \in doomedRecs THEN Gone ELSE recs[r]]
          /\ entries' = {e \in entries : e.account # a /\ e.txn \notin doomed}
          /\ txns' = Removed(doomed)
          /\ UNCHANGED proc
      BY <2>5, Zenon DEF DeleteAccount
    <3>2. doomed \subseteq Txns /\ doomedRecs \subseteq LiveRecs /\ doomedRecs \subseteq Recs
      BY DEF Live, LiveRecs
    <3>3. \A e \in entries : e.account # a => e.rec \notin doomedRecs
      BY DEF MarksInv, MarksRefer
    <3>4. \A t \in Txns \ doomed : txns'[t] = txns[t]
      BY <3>1 DEF Removed
    <3> HIDE DEF doomed, doomedRecs
    <3> QED BY <1>1, <3>1, <3>2, <3>3, <3>4, DeletionKeepsMarks
  <2> QED BY <1>1, <2>1, <2>2, <2>3, <2>4, <2>5, CreatesKeepMarks, ReadersKeepMarks,
             SetEntriesKeepsMarks, CreateReconciliationKeepsMarks, CommitDeleteKeepsMarks,
             CommitEntriesKeepsMarks, Zenon
<1> QED BY <1>2, <1>3

\* The inductive invariant behind the two theorems below: what the database
\* constraints keep true of the tables, together with what every pending
\* set_entries request is about to write.
THEOREM MarksHold == Spec => []MarksInv
<1>1. Init => MarksInv
  <2> SUFFICES ASSUME Init PROVE MarksInv
    OBVIOUS
  <2>1. TypeOK
    BY TypeInit
  <2>2. \A c \in Clients : PendingMarks(c)
    BY IdleIsRequest DEF Init, PendingMarks
  <2>3. LiveRecs = {} /\ entries = {}
    BY DEF Init, LiveRecs
  <2> QED BY <2>1, <2>2, <2>3 DEF MarksInv, OneOpen, MarksRefer, MarksUnique
<1>2. MarksInv /\ [Next]_vars => MarksInv'
  BY MarksStep
<1> QED BY <1>1, <1>2, PTL DEF Spec

\* Whatever races between set_entries, complete, reopen, deletions and edits,
\* an account has at most one open reconciliation and every mark refers to
\* rows that exist, belongs to its reconciliation's account and is the only
\* one on its leg.
THEOREM ReconciliationsStaySound == Spec => []ReconciliationsSound
<1>1. MarksInv => ReconciliationsSound
  BY DEF MarksInv, OneOpen, MarksRefer, MarksUnique, ReconciliationsSound
<1> QED BY <1>1, MarksHold, PTL

\* No set_entries request unmarks a leg that another reconciliation cleared,
\* however late it commits: a mark that goes while its transaction and its
\* reconciliation stay was deleted by a request on that reconciliation.
THEOREM LegsStayLocked == Spec => LegLocked
<1> DEFINE Allowed ==
      \A e \in entries \ entries' :
        e.txn \in Live' /\ e.rec \in LiveRecs'
          => \E c \in Clients : /\ proc[c] # Idle /\ proc'[c] = Idle
                               /\ proc[c].op = "entries" /\ proc[c].rec = e.rec
<1>1. ASSUME MarksInv, Next PROVE Allowed
  <2> SUFFICES ASSUME NEW e \in entries, e \notin entries', e.txn \in Live', e.rec \in LiveRecs'
               PROVE \E c \in Clients : /\ proc[c] # Idle /\ proc'[c] = Idle
                                       /\ proc[c].op = "entries" /\ proc[c].rec = e.rec
    OBVIOUS
  <2>1. e.txn \in Live /\ e.rec \in LiveRecs /\ e.account = recs[e.rec].account
    BY <1>1 DEF MarksInv, MarksRefer
  <2>2. PICK c \in Clients :
           \/ CommitDelete(c)
           \/ CommitEntries(c)
           \/ \E r \in Recs : DeleteReconciliation(c, r)
           \/ \E a \in Accounts : DeleteAccount(c, a)
    <3>1. ~UNCHANGED <<recs, entries>> /\ entries' # entries
      OBVIOUS
    <3>2. PICK c \in Clients :
            \/ CommitDelete(c)
            \/ CommitEntries(c)
            \/ CommitComplete(c)
            \/ \E r \in Recs, a \in Accounts, date \in Dates, balance \in Statements :
                 CreateReconciliation(c, r, a, date, balance)
            \/ \E r \in Recs : ReopenReconciliation(c, r)
            \/ \E r \in Recs : DeleteReconciliation(c, r)
            \/ \E a \in Accounts : DeleteAccount(c, a)
      BY <1>1, <3>1, MarkWriters, Zenon
    <3>3. /\ CommitComplete(c) => entries' = entries
          /\ \A r \in Recs, a \in Accounts, date \in Dates, balance \in Statements :
               CreateReconciliation(c, r, a, date, balance) => entries' = entries
          /\ \A r \in Recs : ReopenReconciliation(c, r) => entries' = entries
      BY DEF CommitComplete, CreateReconciliation, ReopenReconciliation
    <3> QED BY <3>1, <3>2, <3>3, Zenon
  <2>3. CASE CommitDelete(c)
    <3>1. e.txn \in proc[c].ids
      BY <2>3 DEF CommitDelete
    <3>2. txns'[e.txn] = Gone
      BY <2>1, <2>3, <3>1 DEF CommitDelete, Removed, Live
    <3> QED BY <3>2 DEF Live
  <2>4. CASE CommitEntries(c)
    <3>1. e \in proc[c].dels /\ proc'[c] = Idle /\ proc[c].op = "entries"
      BY <2>4 DEF CommitEntries
    <3>2. PendingMarks(c)
      BY <1>1 DEF MarksInv
    <3>3. e.rec = proc[c].rec /\ proc[c] # Idle
      BY <3>1, <3>2, IdleIsRequest DEF PendingMarks
    <3> QED BY <3>1, <3>3
  <2>5. CASE \E r \in Recs : DeleteReconciliation(c, r)
    <3>1. PICK r \in Recs : DeleteReconciliation(c, r)
      BY <2>5
    <3>2. e.rec = r /\ recs'[r] = Gone
      BY <1>1, <3>1 DEF DeleteReconciliation, MarksInv, TypeOK
    <3> QED BY <3>2 DEF LiveRecs
  <2>6. CASE \E a \in Accounts : DeleteAccount(c, a)
    <3>1. PICK a \in Accounts : DeleteAccount(c, a)
      BY <2>6
    <3> DEFINE doomed == {t \in Live : a \in AccountsOf(txns[t])}
               doomedRecs == {r \in LiveRecs : recs[r].account = a}
    <3>2. /\ recs' = [r \in Recs |-> IF r \in doomedRecs THEN Gone ELSE recs[r]]
          /\ entries' = {f \in entries : f.account # a /\ f.txn \notin doomed}
          /\ txns' = Removed(doomed)
      BY <3>1, Zenon DEF DeleteAccount
    <3>3. CASE e.txn \in doomed
      <4>1. txns'[e.txn] = Gone
        BY <2>1, <3>2, <3>3 DEF Removed, Live
      <4> QED BY <4>1 DEF Live
    <3>4. CASE e.txn \notin doomed
      <4>1. e.rec \in doomedRecs /\ e.rec \in Recs
        BY <2>1, <3>2, <3>4 DEF LiveRecs
      <4>2. recs'[e.rec] = Gone
        BY <3>2, <4>1
      <4> QED BY <4>2 DEF LiveRecs
    <3> QED BY <3>3, <3>4
  <2> QED BY <2>2, <2>3, <2>4, <2>5, <2>6
<1>2. MarksInv /\ [Next]_vars => [Allowed]_vars
  BY <1>1
<1>3. Spec => [][Allowed]_vars
  BY <1>2, MarksHold, PTL DEF Spec
<1> QED BY <1>3 DEF LegLocked

-----------------------------------------------------------------------------
(* The audit trail.  A step does one of six things to a transaction and   *)
(* its trail.                                                              *)

Kept(t) == txns'[t] = txns[t] /\ history'[t] = history[t]

Values == {"type", "account", "to", "date", "amount"}

BornAs(t, h) ==
  /\ h \in HistoryRow /\ h.op = "create"
  /\ history'[t] = <<h>>
  /\ txns'[t] \in Row /\ AccountsOf(txns'[t]) = AccountsOf(h.after)
  /\ \A f \in Values : txns'[t][f] = h.after[f]
  /\ "installments" \notin Operations => txns'[t] = h.after

Born(t, batch) ==
  /\ txns[t] = Unborn
  /\ \E h : BornAs(t, h) /\ h.batch = batch

EditedAs(t, h) ==
  /\ h \in HistoryRow /\ h.op = "update"
  /\ history'[t] = Append(history[t], h)
  /\ \/ txns'[t] = txns[t]
     \/ /\ txns[t] \in Row /\ txns'[t] \in Row
        /\ AccountsOf(txns'[t]) \subseteq AccountsOf(txns[t]) \cup AccountsOf(h.after)
  /\ \E c \in Clients :
       /\ proc[c].op = "update" /\ t \in proc[c].ids /\ h.after = proc[c].new[t]
       /\ txns'[t] = IF proc[c].new[t] # proc[c].old[t]
                       THEN Merged(txns[t], proc[c].old[t], proc[c].new[t]) ELSE txns[t]

Edited(t) == txns[t] # Unborn /\ \E h : EditedAs(t, h)

\* A deletion drops all rows of the pending request.
DroppedAs(t, h) ==
  /\ h \in HistoryRow /\ h.op \in {"delete", "undo"}
  /\ history'[t] = Append(history[t], h)
  /\ \E c \in Clients : /\ proc[c].op = h.op /\ t \in proc[c].ids
                        /\ txns' = Removed(proc[c].ids)

Dropped(t) == txns[t] # Unborn /\ txns'[t] = Gone /\ \E h : DroppedAs(t, h)

Cascaded(t) ==
  /\ t \in Live /\ txns'[t] = Gone /\ history'[t] = history[t]
  /\ \E a \in Accounts : a \in AccountsOf(txns[t]) /\ accounts'[a] = "deleted"

Refiled(t) ==
  /\ t \in Live /\ txns[t] \in Row /\ txns'[t] \in Row /\ history'[t] = history[t]
  /\ \E text \in Texts : txns'[t] = [txns[t] EXCEPT !.text = text]

Stays(t) == Kept(t) \/ Edited(t) \/ Refiled(t) \/ Dropped(t) \/ Cascaded(t)

\* A row of the trail that shows the transaction on an account.
Shows(h, a) == h.op \in {"create", "update"} /\ a \in AccountsOf(h.after)

Named(t, a) == \E i \in DOMAIN history[t] : Shows(history[t][i], a)

Deleted(t) == \E i \in DOMAIN history[t] : history[t][i].op \in {"delete", "undo"}

\* Every account a row has ever been on is in its trail.
Trail(t) ==
  /\ history[t] = <<>> <=> txns[t] = Unborn
  /\ history[t] # <<>> => history[t][1].op = "create"
  /\ \A i \in 2..Len(history[t]) : history[t][i].op # "create"
  /\ Deleted(t) => txns[t] = Gone
  /\ txns[t] \in Row => \A a \in AccountsOf(txns[t]) : Named(t, a)
  /\ txns[t] = Gone => Deleted(t) \/ \E a \in Accounts : Named(t, a) /\ accounts[a] = "deleted"

DeletedForGood == \A a \in Accounts : accounts[a] = "deleted" => accounts'[a] = "deleted"

\* A new category leaves everything else of a row alone.
LEMMA RefiledRow ==
  ASSUME NEW t, Refiled(t)
  PROVE /\ AccountsOf(txns'[t]) = AccountsOf(txns[t])
        /\ OnlyText(txns[t], txns'[t])
        /\ \A f \in Values : txns'[t][f] = txns[t][f]
BY DEF Refiled, AccountsOf, OnlyText, Row, TxnShape, Values

\* What a longer trail still holds, and what it adds.
LEMMA LongerTrail ==
  ASSUME TypeOK, NEW t \in Txns, NEW h \in HistoryRow, history'[t] = Append(history[t], h)
  PROVE /\ history'[t] # <<>> /\ Len(history'[t]) = Len(history[t]) + 1
        /\ \A i \in 1..Len(history[t]) : history'[t][i] = history[t][i]
        /\ history'[t][Len(history[t]) + 1] = h
        /\ DOMAIN history'[t] = 1..(Len(history[t]) + 1)
        /\ DOMAIN history[t] = 1..Len(history[t]) /\ Len(history[t]) \in Nat
        /\ history[t] # <<>> => Len(history[t]) > 0
<1>1. history[t] \in Seq(HistoryRow)
  BY DEF TypeOK
<1>2. /\ Len(history'[t]) = Len(history[t]) + 1 /\ Len(history[t]) \in Nat
      /\ \A i \in 1..Len(history[t]) : history'[t][i] = history[t][i]
      /\ history'[t][Len(history[t]) + 1] = h
  BY <1>1
<1>3. history'[t] \in Seq(HistoryRow)
  BY <1>1
<1>4. /\ DOMAIN history'[t] = 1..(Len(history[t]) + 1)
      /\ DOMAIN history[t] = 1..Len(history[t])
  BY <1>1, <1>2, <1>3
<1>5. history'[t] # <<>>
  BY <1>2
<1>6. history[t] # <<>> => Len(history[t]) > 0
  BY <1>1, <1>2
<1> QED BY <1>2, <1>4, <1>5, <1>6

LEMMA LongerFacts ==
  ASSUME TypeOK, NEW t \in Txns, NEW h \in HistoryRow, history'[t] = Append(history[t], h)
  PROVE /\ \A a : Named(t, a) => Named(t, a)'
        /\ \A a : Shows(h, a) => Named(t, a)'
        /\ Deleted(t)' <=> Deleted(t) \/ h.op \in {"delete", "undo"}
        /\ Ops(t)' = Ops(t) \cup {h.op}
<1>1. /\ DOMAIN history'[t] = 1..(Len(history[t]) + 1)
      /\ DOMAIN history[t] = 1..Len(history[t]) /\ Len(history[t]) \in Nat
      /\ \A i \in 1..Len(history[t]) : history'[t][i] = history[t][i]
      /\ history'[t][Len(history[t]) + 1] = h
  BY LongerTrail
<1>2. /\ \A i \in DOMAIN history[t] : i \in DOMAIN history'[t] /\ history'[t][i] = history[t][i]
      /\ \A i \in DOMAIN history'[t] : i \in DOMAIN history[t] \/ history'[t][i] = h
      /\ \E i \in DOMAIN history'[t] : history'[t][i] = h
  BY <1>1
<1>3. Ops(t)' = Ops(t) \cup {h.op}
  BY <1>2 DEF Ops
<1> QED BY <1>2, <1>3, Zenon DEF Named, Deleted

LEMMA TrailStays ==
  ASSUME TypeOK, NEW t \in Txns, Trail(t), DeletedForGood, Stays(t)
  PROVE Trail(t)'
<1>0. Unborn \notin Row /\ Gone \notin Row /\ Unborn # Gone
  BY ConstantsAssumption, MarkersAssumption
<1>1. CASE Kept(t)
  BY <1>1 DEF Kept, Trail, Named, Deleted, DeletedForGood
<1>2. CASE Edited(t)
  <2>1. PICK h : EditedAs(t, h)
    BY <1>2 DEF Edited
  <2>2. h \in HistoryRow /\ h.op = "update" /\ history'[t] = Append(history[t], h)
    BY <2>1 DEF EditedAs
  <2>3. /\ history[t] # <<>> /\ txns[t] # Unborn /\ txns'[t] # Unborn
        /\ txns[t] = Gone <=> txns'[t] = Gone
    BY <1>0, <1>2, <2>1 DEF Trail, Edited, EditedAs
  <2>4. /\ history'[t] # <<>> /\ history'[t][1].op = "create"
        /\ \A i \in 2..Len(history'[t]) : history'[t][i].op # "create"
    BY <2>2, <2>3, LongerTrail DEF Trail
  <2>5. /\ \A a : Named(t, a) => Named(t, a)'
        /\ \A a : Shows(h, a) => Named(t, a)'
        /\ Deleted(t)' <=> Deleted(t)
    BY <2>2, LongerFacts
  <2>6. ASSUME txns'[t] \in Row PROVE \A a \in AccountsOf(txns'[t]) : Named(t, a)'
    BY <2>1, <2>2, <2>5, <2>6 DEF EditedAs, Trail, Shows
  <2> QED BY <2>3, <2>4, <2>5, <2>6 DEF Trail, DeletedForGood
<1>3. CASE Dropped(t)
  <2>1. PICK h : DroppedAs(t, h)
    BY <1>3 DEF Dropped
  <2>2. h \in HistoryRow /\ h.op \in {"delete", "undo"} /\ history'[t] = Append(history[t], h)
    BY <2>1 DEF DroppedAs
  <2>3. /\ history[t] # <<>> /\ txns'[t] = Gone /\ txns'[t] # Unborn /\ txns'[t] \notin Row
    BY <1>0, <1>3 DEF Trail, Dropped
  <2>4. /\ history'[t] # <<>> /\ history'[t][1].op = "create"
        /\ \A i \in 2..Len(history'[t]) : history'[t][i].op # "create"
    BY <2>2, <2>3, LongerTrail DEF Trail
  <2>5. Deleted(t)'
    BY <2>2, LongerFacts
  <2> QED BY <2>3, <2>4, <2>5 DEF Trail
<1>4. CASE Cascaded(t)
  <2>1. history'[t] = history[t] /\ txns'[t] = Gone /\ txns[t] \in Row
    BY <1>4, LiveRow DEF Cascaded
  <2>2. PICK a \in Accounts : a \in AccountsOf(txns[t]) /\ accounts'[a] = "deleted"
    BY <1>4 DEF Cascaded
  <2>3. Named(t, a)' /\ accounts'[a] = "deleted"
    BY <2>1, <2>2 DEF Trail, Named
  <2>4. /\ Deleted(t)' <=> Deleted(t)
    BY <2>1 DEF Deleted
  <2> QED BY <1>0, <2>1, <2>3, <2>4 DEF Trail
<1>5. CASE Refiled(t)
  <2>1. /\ history'[t] = history[t] /\ txns[t] \in Row /\ txns'[t] \in Row
        /\ AccountsOf(txns'[t]) = AccountsOf(txns[t])
    BY <1>5, RefiledRow DEF Refiled
  <2>2. (Deleted(t)' <=> Deleted(t)) /\ \A a : Named(t, a)' <=> Named(t, a)
    BY <2>1 DEF Deleted, Named
  <2> QED BY <1>0, <2>1, <2>2 DEF Trail
<1> QED BY <1>1, <1>2, <1>3, <1>4, <1>5 DEF Stays

LEMMA TrailBegins ==
  ASSUME NEW t \in Txns, NEW batch, Born(t, batch)
  PROVE Trail(t)'
<1>0. Unborn \notin Row /\ Gone \notin Row /\ Unborn # Gone
  BY ConstantsAssumption, MarkersAssumption
<1>1. PICK h : BornAs(t, h)
  BY DEF Born
<1>2. /\ h \in HistoryRow /\ h.op = "create" /\ history'[t] = <<h>>
      /\ txns'[t] \in Row /\ AccountsOf(txns'[t]) = AccountsOf(h.after)
  BY <1>1 DEF BornAs
<1>3. /\ history'[t] # <<>> /\ Len(history'[t]) = 1 /\ DOMAIN history'[t] = {1}
      /\ history'[t][1] = h
  BY <1>2
<1>4. ~Deleted(t)'
  BY <1>2, <1>3 DEF Deleted
<1>5. \A a \in AccountsOf(txns'[t]) : Named(t, a)'
  BY <1>2, <1>3 DEF Named, Shows
<1> QED BY <1>0, <1>2, <1>3, <1>4, <1>5 DEF Trail

\* The trail says what the property says.
LEMMA TrailTells ==
  ASSUME TypeOK, \A t \in Txns : Trail(t)
  PROVE HistoryTellsFate
<1> SUFFICES ASSUME NEW t \in Txns
             PROVE /\ history[t] = <<>> <=> txns[t] = Unborn
                   /\ history[t] # <<>> =>
                        /\ history[t][1].op = "create"
                        /\ \A i \in 2..Len(history[t]) : history[t][i].op # "create"
                   /\ Ops(t) \cap {"delete", "undo"} # {} => txns[t] = Gone
                   /\ txns[t] = Gone /\ Ops(t) \cap {"delete", "undo"} = {} =>
                        \E i \in DOMAIN history[t] : \E a \in AccountsOf(history[t][i].after) :
                          accounts[a] = "deleted"
  BY DEF HistoryTellsFate
<1>1. Trail(t)
  OBVIOUS
<1>2. Deleted(t) <=> Ops(t) \cap {"delete", "undo"} # {}
  BY DEF Deleted, Ops
<1>3. \A a : Named(t, a) => \E i \in DOMAIN history[t] : a \in AccountsOf(history[t][i].after)
  BY DEF Named, Shows
<1> QED BY <1>1, <1>2, <1>3 DEF Trail

\* The requests that edit or delete found their rows.
PendingKnown(c) ==
  proc[c].op \in {"update", "delete", "undo"} => \A t \in proc[c].ids : txns[t] # Unborn

LEMMA UpdateFates ==
  ASSUME TypeOK, NEW c \in Clients, PendingKnown(c), CommitUpdate(c)
  PROVE \A t \in Txns : Stays(t)
<1> DEFINE q == proc[c]
           written == {t \in q.ids : q.new[t] # q.old[t]}
           row == [t \in Txns |->
                     IF t \in written /\ t \in Live
                       THEN Merged(txns[t], q.old[t], q.new[t]) ELSE txns[t]]
<1>1. /\ written \subseteq Live
      /\ \A t \in written : Storable(row[t])
      /\ txns' = row
      /\ history' = Recorded(q.ids, [t \in q.ids |-> UpdateRow(q, t)])
  BY Zenon DEF CommitUpdate
<1>2. \A t \in q.ids : q.old[t] \in Row /\ q.new[t] \in Row /\ txns[t] # Unborn
  BY DEF TypeOK, CommitUpdate, PendingKnown
<1>a. q.op = "update"
  BY DEF CommitUpdate
<1>3. SUFFICES ASSUME NEW t \in Txns PROVE Stays(t)
  OBVIOUS
<1>4. CASE t \notin q.ids
  <2>1. row[t] = txns[t] /\ Recorded(q.ids, [u \in q.ids |-> UpdateRow(q, u)])[t] = history[t]
    BY <1>4 DEF Recorded
  <2>2. Kept(t)
    BY <1>1, <2>1, Zenon DEF Kept
  <2> QED BY <2>2 DEF Stays
<1>5. CASE t \in q.ids
  <2> DEFINE h == UpdateRow(q, t)
  <2>1. h \in HistoryRow /\ h.op = "update" /\ h.after = q.new[t]
    BY <1>2, <1>5 DEF UpdateRow, HistoryRow
  <2>2. history'[t] = Append(history[t], h)
    BY <1>1, <1>5 DEF Recorded
  <2>3. CASE t \in written
    <3>1. txns'[t] = Merged(txns[t], q.old[t], q.new[t])
      BY <1>1, <2>3
    <3>2. ValidShape(Merged(txns[t], q.old[t], q.new[t]))
      <4>1. Storable(row[t]) /\ row[t] = txns'[t]
        BY <1>1, <2>3
      <4> QED BY <3>1, <4>1 DEF Storable
    <3>3. txns[t] \in Row /\ q.old[t] \in Row /\ q.new[t] \in Row
      BY <1>1, <1>2, <2>3, LiveRow
    <3> HIDE DEF q, row
    <3>4. txns'[t] \in Row
      BY <3>1, <3>2, <3>3, MergedIsRow
    <3>5. /\ txns'[t].account \in {txns[t].account, q.new[t].account}
          /\ txns'[t].to \in {txns[t].to, q.new[t].to}
      BY <3>1, <3>3 DEF Merged, Row, TxnShape
    <3>6. AccountsOf(txns'[t]) \subseteq AccountsOf(txns[t]) \cup AccountsOf(q.new[t])
      BY <3>5 DEF AccountsOf
    <3>7. EditedAs(t, h)
      BY <1>a, <1>5, <2>1, <2>2, <2>3, <3>1, <3>3, <3>4, <3>6 DEF EditedAs, q
    <3> QED BY <1>2, <1>5, <3>7 DEF Edited, Stays
  <2>4. CASE t \notin written
    <3>1. txns'[t] = txns[t]
      BY <1>1, <2>4
    <3>2. EditedAs(t, h)
      BY <1>a, <1>5, <2>1, <2>2, <2>4, <3>1 DEF EditedAs
    <3> QED BY <1>2, <1>5, <3>2 DEF Edited, Stays
  <2> QED BY <2>3, <2>4
<1> QED BY <1>4, <1>5

LEMMA ReapplyFates ==
  ASSUME TypeOK, NEW c \in Clients, CommitReapply(c)
  PROVE \A t \in Txns : Stays(t)
<1> SUFFICES ASSUME NEW t \in Txns PROVE Stays(t)
  OBVIOUS
<1>1. history'[t] = history[t]
  BY DEF CommitReapply
<1> QED BY <1>1, ReappliedRow DEF Stays, Kept, Refiled

LEMMA DeleteFates ==
  ASSUME TypeOK, NEW c \in Clients, PendingKnown(c), CommitDelete(c)
  PROVE \A t \in Txns : Stays(t)
<1> DEFINE ids == proc[c].ids
           h == [op |-> proc[c].op]
<1>1. /\ proc[c].op \in {"delete", "undo"}
      /\ txns' = Removed(ids)
      /\ history' = Recorded(ids, [t \in ids |-> h])
  BY Zenon DEF CommitDelete
<1>2. h \in HistoryRow /\ h.op = proc[c].op
  BY <1>1 DEF HistoryRow
<1>3. SUFFICES ASSUME NEW t \in Txns PROVE Stays(t)
  OBVIOUS
<1>4. CASE t \notin ids
  <2>1. Kept(t)
    BY <1>1, <1>4 DEF Kept, Removed, Recorded
  <2> QED BY <2>1 DEF Stays
<1>5. CASE t \in ids
  <2>1. txns[t] # Unborn
    BY <1>1, <1>5 DEF PendingKnown
  <2>2. txns'[t] = Gone
    BY <1>1, <1>5, <2>1 DEF Removed, Live
  <2>3. history'[t] = Append(history[t], h)
    BY <1>1, <1>5 DEF Recorded
  <2>4. DroppedAs(t, h)
    BY <1>1, <1>2, <1>5, <2>3 DEF DroppedAs
  <2> QED BY <2>1, <2>2, <2>4 DEF Dropped, Stays
<1> QED BY <1>4, <1>5

LEMMA CascadeFates ==
  ASSUME TypeOK, NEW c \in Clients, NEW a \in Accounts, DeleteAccount(c, a)
  PROVE \A t \in Txns : Stays(t)
<1> DEFINE doomed == {t \in Live : a \in AccountsOf(txns[t])}
<1>1. /\ txns' = Removed(doomed) /\ history' = history
      /\ accounts' = [accounts EXCEPT ![a] = "deleted"]
  BY Zenon DEF DeleteAccount
<1>2. accounts'[a] = "deleted"
  BY <1>1 DEF TypeOK
<1>3. SUFFICES ASSUME NEW t \in Txns PROVE Stays(t)
  OBVIOUS
<1>4. CASE t \in doomed
  BY <1>1, <1>2, <1>4 DEF Removed, Cascaded, Stays
<1>5. CASE t \notin doomed
  <2>1. Kept(t)
    BY <1>1, <1>5 DEF Removed, Kept
  <2> QED BY <2>1 DEF Stays
<1> QED BY <1>4, <1>5

LEMMA CreateFates ==
  ASSUME TypeOK, NEW c \in Clients,
         \/ \E t \in Txns, row \in PlainRow : CreateTransaction(c, t, row)
         \/ \E ids \in SUBSET Txns, row \in PlainRow : CreateInstallments(c, ids, row)
  PROVE \A t \in Txns : Kept(t) \/ Born(t, None)
<1>1. CASE \E t \in Txns, row \in PlainRow : CreateTransaction(c, t, row)
  <2>1. PICK u \in Txns, row \in PlainRow : CreateTransaction(c, u, row)
    BY <1>1
  <2> DEFINE h == [op |-> "create", after |-> row, batch |-> None]
  <2>2. /\ row \in Row /\ txns[u] = Unborn
        /\ txns' = [txns EXCEPT ![u] = row]
        /\ history' = [history EXCEPT ![u] = <<h>>]
    BY <2>1 DEF CreateTransaction, PlainRow
  <2>3. h \in HistoryRow /\ h.op = "create" /\ h.after = row /\ h.batch = None
    BY <2>2 DEF HistoryRow
  <2>4. txns'[u] = row /\ history'[u] = <<h>>
    BY <2>2 DEF TypeOK
  <2> HIDE DEF h
  <2>5. Born(u, None)
    BY <2>2, <2>3, <2>4 DEF Born, BornAs
  <2>6. \A t \in Txns : t # u => Kept(t)
    BY <2>2 DEF TypeOK, Kept
  <2> QED BY <2>5, <2>6
<1>2. CASE \E ids \in SUBSET Txns, row \in PlainRow : CreateInstallments(c, ids, row)
  <2>1. PICK ids \in SUBSET Txns, row \in PlainRow : CreateInstallments(c, ids, row)
    BY <1>2
  <2>2. row \in Row /\ (\A t \in ids : txns[t] = Unborn) /\ "installments" \in Operations
    BY <2>1 DEF PlainRow, CreateInstallments, Submit
  <2> DEFINE n == Cardinality(ids)
             dated(f, t) == [row EXCEPT !.date = row.date + f[t] - 1]
  <2>3. PICK number \in Bijection(ids, 1..n) :
          /\ \A t \in ids : dated(number, t).date \in Dates
          /\ txns' = [t \in Txns |->
               IF t \in ids THEN [dated(number, t) EXCEPT !.part = number[t]] ELSE txns[t]]
          /\ history' = [t \in Txns |->
               IF t \in ids
                 THEN <<[op |-> "create", after |-> dated(number, t), batch |-> None]>>
                 ELSE history[t]]
    BY <2>1, Zenon DEF CreateInstallments
  <2>4. n \in 2..MaxParts
    BY <2>1 DEF CreateInstallments
  <2>5. ASSUME NEW t \in ids PROVE Born(t, None)
    <3> DEFINE h == [op |-> "create", after |-> dated(number, t), batch |-> None]
    <3>1. number[t] \in 0..MaxParts
      BY <2>4, ConstantsAssumption DEF Bijection, Injection, Surjection
    <3>2. dated(number, t).date = row.date + number[t] - 1
      BY <2>2 DEF Row, TxnShape
    <3>3. dated(number, t) \in Row
      BY <2>2, <2>3, <3>2, EditedRow
    <3>4. /\ dated(number, t).account = row.account /\ dated(number, t).to = row.to
      BY <2>2 DEF Row, TxnShape
    <3>5. txns'[t] = [dated(number, t) EXCEPT !.part = number[t]] /\ history'[t] = <<h>>
      BY <2>3
    <3> HIDE DEF dated
    <3>6. txns'[t] \in Row
      BY <3>1, <3>3, <3>5, EditedRow
    <3>7. /\ txns'[t].account = dated(number, t).account /\ txns'[t].to = dated(number, t).to
          /\ \A f \in Values : txns'[t][f] = dated(number, t)[f]
      BY <3>3, <3>5 DEF Row, TxnShape, Values
    <3>8. h \in HistoryRow /\ h.op = "create" /\ h.after = dated(number, t) /\ h.batch = None
      BY <3>3 DEF HistoryRow
    <3> HIDE DEF h
    <3>9. BornAs(t, h)
      BY <2>2, <3>5, <3>6, <3>7, <3>8 DEF BornAs, AccountsOf
    <3> QED BY <2>2, <3>8, <3>9 DEF Born
  <2>6. ASSUME NEW t \in Txns, t \notin ids PROVE Kept(t)
    <3> HIDE DEF dated
    <3> QED BY <2>3, <2>6 DEF Kept
  <2> QED BY <2>5, <2>6
<1> QED BY <1>1, <1>2

\* The rows of a committed import are as many as its payload has.
LEMMA ImportFates ==
  ASSUME TypeOK, NEW c \in Clients, CommitImport(c)
  PROVE LET k == proc[c].key
            p == proc[c].payload
        IN /\ k \in Keys /\ p \in Payloads
           /\ imports' = [imports EXCEPT ![k] = p]
           /\ \E ids \in SUBSET Txns :
                /\ Cardinality(ids) = Len(Items[p])
                /\ \A t \in ids : Born(t, k)
                /\ \A t \in Txns \ ids : Kept(t)
<1> DEFINE k == proc[c].key
           p == proc[c].payload
           items == Items[p]
<1>1. k \in Keys /\ p \in Payloads
  BY RequestFields DEF TypeOK, CommitImport
<1>2. items \in Seq(PlainRow)
  BY <1>1, ConstantsAssumption
<1> DEFINE Stored(ids, item) ==
             /\ txns' = [t \in Txns |-> IF t \in ids THEN items[item[t]] ELSE txns[t]]
             /\ history' = [t \in Txns |->
                  IF t \in ids
                    THEN <<[op |-> "create", after |-> items[item[t]], batch |-> k]>>
                    ELSE history[t]]
             /\ imports' = [imports EXCEPT ![k] = p]
<1>3. PICK ids \in SUBSET {t \in Txns : txns[t] = Unborn} :
        \E item \in Bijection(ids, DOMAIN items) : Stored(ids, item)
  BY Zenon DEF CommitImport
<1>4. PICK item \in Bijection(ids, DOMAIN items) : Stored(ids, item)
  BY <1>3
<1>5. imports' = [imports EXCEPT ![k] = p]
  BY <1>4
<1>6. Cardinality(ids) = Len(items)
  <2> HIDE DEF items
  <2>1. DOMAIN items = 1..Len(items) /\ Len(items) \in Nat
    BY <1>2
  <2>2. ExistsBijection(1..Len(items), ids)
    <3>1. ExistsBijection(ids, 1..Len(items))
      BY <1>4, <2>1 DEF ExistsBijection
    <3> QED BY <3>1, Fun_ExistsBijSymmetric
  <2> QED BY <2>1, <2>2, FS_CountingElements
<1>7. ASSUME NEW t \in ids PROVE Born(t, k)
  <2> DEFINE h == [op |-> "create", after |-> items[item[t]], batch |-> k]
  <2>1. item[t] \in DOMAIN items
    BY DEF Bijection, Injection, Surjection
  <2> HIDE DEF items
  <2>2. items[item[t]] \in Row
    BY <1>2, <2>1 DEF PlainRow
  <2>3. txns'[t] = items[item[t]] /\ history'[t] = <<h>>
    BY <1>4
  <2>4. h \in HistoryRow /\ h.op = "create" /\ h.after = items[item[t]] /\ h.batch = k
    BY <1>1, <2>2 DEF HistoryRow
  <2> HIDE DEF h, k
  <2>5. BornAs(t, h)
    BY <2>2, <2>3, <2>4 DEF BornAs
  <2> QED BY <2>4, <2>5 DEF Born
<1>8. ASSUME NEW t \in Txns \ ids PROVE Kept(t)
  <2> HIDE DEF items, k
  <2> QED BY <1>4, <1>8 DEF Kept
<1> QED BY <1>1, <1>5, <1>6, <1>7, <1>8

-----------------------------------------------------------------------------
(* The steps, by what they do to transactions, trails and keys: a request  *)
(* reads, a request writes, an import commits.                             *)

NewRequest(q) ==
  \/ q.op = "idle"
  \/ q.op = "update" /\ q.ids \subseteq Live
       /\ \A t \in q.ids : q.old[t] = txns[t] /\ Guarded(t, txns[t], q.new[t])
  \/ q.op = "reapply"
  \/ q.op = "delete" /\ q.ids \subseteq Live /\ \A t \in q.ids : ~HasEntry(t)
  \/ q.op = "undo" /\ \E k \in Keys : imports[k] # None /\ q.ids = Remaining(k)
  \/ q.op = "import" /\ imports[q.key] = None /\ KeyUncontended(q.key)
  \/ q.op = "entries" /\ IsOpen(q.rec)
  \/ q.op = "complete" /\ Balanced(recs[q.rec])

ReadStep ==
  /\ UNCHANGED <<accounts, txns, history, imports, recs, entries>>
  /\ \E c \in Clients : /\ NewRequest(proc'[c]) \/ proc'[c] = proc[c]
                        /\ \A d \in Clients : d # c => proc'[d] = proc[d]

WriteStep ==
  /\ UNCHANGED imports
  /\ DeletedForGood
  /\ \A t \in Txns : Stays(t) \/ Born(t, None)
  /\ \A d \in Clients : proc'[d] = proc[d] \/ proc'[d].op \in {"idle", "entries"}
  /\ \E c \in Clients : proc'[c] = Idle

ImportStep(c, ids) ==
  LET k == proc[c].key
      p == proc[c].payload
  IN /\ proc[c].op = "import" /\ k \in Keys /\ p \in Payloads
     /\ UNCHANGED accounts /\ imports' = [imports EXCEPT ![k] = p]
     /\ Cardinality(ids) = Len(Items[p])
     /\ \A t \in ids : Born(t, k)
     /\ \A t \in Txns \ ids : Kept(t)
     /\ \A d \in Clients : proc'[d] = IF d = c THEN Idle ELSE proc[d]

LEMMA ReadSteps ==
  ASSUME TypeOK, NEW c \in Clients,
         \/ \E t \in Txns, row \in Row : UpdateTransaction(c, t, row)
         \/ \E k \in Keys, p \in Payloads : ImportTransactions(c, k, p)
         \/ \E k \in Keys : UndoBatch(c, k)
         \/ \E ids \in SUBSET Txns : DeleteTransactions(c, ids)
         \/ \E ids \in SUBSET Txns, text \in Texts : BulkCategorize(c, ids, text)
         \/ \E ids \in SUBSET Txns : \E texts \in [ids -> Texts] : ReapplyRules(c, texts)
         \/ \E r \in Recs, ids \in SUBSET Txns, cleared \in BOOLEAN : SetEntries(c, r, ids, cleared)
         \/ \E r \in Recs : CompleteReconciliation(c, r)
         \/ RollBack(c)
  PROVE ReadStep
<1>1. UNCHANGED <<accounts, txns, history, imports, recs, entries>>
  BY DEF UpdateTransaction, ImportTransactions, UndoBatch, DeleteTransactions,
         BulkCategorize, ReapplyRules, SetEntries, CompleteReconciliation, RollBack
<1>2. ASSUME NEW q, Pend(c, q), NewRequest(q) PROVE ReadStep
  <2>1. proc'[c] = q /\ \A d \in Clients : d # c => proc'[d] = proc[d]
    BY <1>2 DEF Pend, TypeOK
  <2> QED BY <1>1, <1>2, <2>1 DEF ReadStep
<1>3. ASSUME UNCHANGED proc PROVE ReadStep
  BY <1>1, <1>3 DEF ReadStep
<1>4. CASE \E t \in Txns, row \in Row : UpdateTransaction(c, t, row)
  <2>1. PICK t \in Txns, row \in Row : UpdateTransaction(c, t, row)
    BY <1>4
  <2>2. PICK q : q = [op |-> "update", ids |-> {t}, old |-> Loaded({t}),
                      new |-> [Loaded({t}) EXCEPT ![t] = row]]
    OBVIOUS
  <2>3. Pend(c, q) /\ t \in Live /\ Guarded(t, txns[t], row)
    BY <2>1, <2>2, Zenon DEF UpdateTransaction
  <2>4. q.op = "update" /\ q.ids = {t} /\ q.old[t] = txns[t] /\ q.new[t] = row
    BY <2>2 DEF Loaded
  <2>5. NewRequest(q)
    BY <2>3, <2>4 DEF NewRequest
  <2> QED BY <1>2, <2>3, <2>5
<1>5. CASE \E k \in Keys, p \in Payloads : ImportTransactions(c, k, p)
  <2>1. PICK k \in Keys, p \in Payloads : ImportTransactions(c, k, p)
    BY <1>5
  <2>2. PICK q : q = [op |-> "import", key |-> k, payload |-> p]
    OBVIOUS
  <2>3. CASE imports[k] = None
    <3>1. Pend(c, q) /\ KeyUncontended(k)
      BY <2>1, <2>2, <2>3 DEF ImportTransactions
    <3>2. NewRequest(q)
      BY <2>2, <2>3, <3>1 DEF NewRequest
    <3> QED BY <1>2, <3>1, <3>2
  <2>4. CASE imports[k] # None
    BY <1>3, <2>1, <2>4 DEF ImportTransactions
  <2> QED BY <2>3, <2>4
<1>6. CASE \E k \in Keys : UndoBatch(c, k)
  <2>1. PICK k \in Keys : UndoBatch(c, k)
    BY <1>6
  <2>2. PICK q : q = [op |-> "undo", ids |-> Remaining(k)]
    OBVIOUS
  <2>3. CASE Remaining(k) # {}
    <3>1. Pend(c, q) /\ imports[k] # None
      BY <2>1, <2>2, <2>3, Zenon DEF UndoBatch
    <3>2. NewRequest(q)
      BY <2>2, <3>1 DEF NewRequest
    <3> QED BY <1>2, <3>1, <3>2
  <2>4. CASE Remaining(k) = {}
    BY <1>3, <2>1, <2>4 DEF UndoBatch
  <2> QED BY <2>3, <2>4
<1>7. CASE \E ids \in SUBSET Txns : DeleteTransactions(c, ids)
  <2>1. PICK ids \in SUBSET Txns : DeleteTransactions(c, ids)
    BY <1>7
  <2>2. PICK q : q = [op |-> "delete", ids |-> ids]
    OBVIOUS
  <2>3. Pend(c, q) /\ ids \subseteq Live /\ \A t \in ids : ~HasEntry(t)
    BY <2>1, <2>2 DEF DeleteTransactions
  <2>4. NewRequest(q)
    BY <2>2, <2>3 DEF NewRequest
  <2> QED BY <1>2, <2>3, <2>4
<1>8. CASE \E ids \in SUBSET Txns, text \in Texts : BulkCategorize(c, ids, text)
  <2>1. PICK ids \in SUBSET Txns, text \in Texts : BulkCategorize(c, ids, text)
    BY <1>8
  <2>2. PICK q : q = [op |-> "update", ids |-> ids, old |-> Loaded(ids),
                      new |-> [t \in Txns |->
                                 IF t \in ids THEN [txns[t] EXCEPT !.text = text] ELSE None]]
    OBVIOUS
  <2>3. Pend(c, q) /\ ids \subseteq Live
    BY <2>1, <2>2, Zenon DEF BulkCategorize
  <2>4. ASSUME NEW t \in ids PROVE q.old[t] = txns[t] /\ Guarded(t, txns[t], q.new[t])
    <3>1. t \in Txns /\ txns[t] \in Row
      BY <2>3, LiveRow
    <3>2. q.old[t] = txns[t] /\ q.new[t] = [txns[t] EXCEPT !.text = text]
      BY <2>2, <3>1 DEF Loaded
    <3>3. OnlyText(txns[t], q.new[t])
      BY <3>1, <3>2 DEF OnlyText, Row, TxnShape
    <3> QED BY <3>2, <3>3 DEF Guarded
  <2>5. q.op = "update" /\ q.ids = ids
    BY <2>2
  <2>6. NewRequest(q)
    BY <2>3, <2>4, <2>5 DEF NewRequest
  <2> QED BY <1>2, <2>3, <2>6
<1>9. CASE \E r \in Recs, ids \in SUBSET Txns, cleared \in BOOLEAN : SetEntries(c, r, ids, cleared)
  <2>1. PICK r \in Recs, ids \in SUBSET Txns, cleared \in BOOLEAN : SetEntries(c, r, ids, cleared)
    BY <1>9
  <2>2. \E adds, dels : Pend(c, [op |-> "entries", rec |-> r, adds |-> adds, dels |-> dels])
    BY <2>1, Zenon DEF SetEntries
  <2>3. \E q : Pend(c, q) /\ q.op = "entries" /\ q.rec = r
    BY <2>2
  <2>4. IsOpen(r)
    BY <2>1 DEF SetEntries
  <2> QED BY <1>2, <2>3, <2>4 DEF NewRequest
<1>10. CASE \E r \in Recs : CompleteReconciliation(c, r)
  <2>1. \E q : Pend(c, q) /\ q.op = "complete" /\ Balanced(recs[q.rec])
    BY <1>10 DEF CompleteReconciliation
  <2> QED BY <1>2, <2>1 DEF NewRequest
<1>11. CASE RollBack(c)
  BY <1>2, <1>11, IdleIsRequest DEF RollBack, NewRequest
<1>12. CASE \E ids \in SUBSET Txns : \E texts \in [ids -> Texts] : ReapplyRules(c, texts)
  <2>1. PICK texts : Pend(c, [op |-> "reapply", texts |-> texts])
    BY <1>12, Zenon DEF ReapplyRules
  <2>2. NewRequest([op |-> "reapply", texts |-> texts])
    BY DEF NewRequest
  <2> QED BY <1>2, <2>1, <2>2
<1> QED BY <1>4, <1>5, <1>6, <1>7, <1>8, <1>9, <1>10, <1>11, <1>12

LEMMA WriteSteps ==
  ASSUME TypeOK, NEW c \in Clients, PendingKnown(c),
         \/ \E t \in Txns, row \in PlainRow : CreateTransaction(c, t, row)
         \/ \E ids \in SUBSET Txns, row \in PlainRow : CreateInstallments(c, ids, row)
         \/ \E r \in Recs, a \in Accounts, date \in Dates, balance \in Statements :
              CreateReconciliation(c, r, a, date, balance)
         \/ \E r \in Recs : ReopenReconciliation(c, r)
         \/ \E r \in Recs : DeleteReconciliation(c, r)
         \/ \E a \in Accounts : SetAccountArchived(c, a)
         \/ \E a \in Accounts : DeleteAccount(c, a)
         \/ CommitUpdate(c)
         \/ CommitReapply(c)
         \/ CommitDelete(c)
         \/ CommitEntries(c)
         \/ CommitComplete(c)
  PROVE WriteStep
<1>0. Idle.op = "idle"
  BY IdleIsRequest
<1>1. CASE \/ \E t \in Txns, row \in PlainRow : CreateTransaction(c, t, row)
           \/ \E ids \in SUBSET Txns, row \in PlainRow : CreateInstallments(c, ids, row)
  <2>1. \A t \in Txns : Stays(t) \/ Born(t, None)
    BY <1>1, CreateFates DEF Stays
  <2>2. UNCHANGED <<accounts, imports, proc>> /\ proc[c] = Idle
    BY <1>1 DEF CreateTransaction, CreateInstallments, Submit
  <2> QED BY <2>1, <2>2 DEF WriteStep, DeletedForGood
<1>2. CASE \/ \E r \in Recs, a \in Accounts, date \in Dates, balance \in Statements :
                CreateReconciliation(c, r, a, date, balance)
           \/ \E r \in Recs : ReopenReconciliation(c, r)
           \/ \E r \in Recs : DeleteReconciliation(c, r)
  <2>1. UNCHANGED <<accounts, imports, txns, history, proc>> /\ proc[c] = Idle
    BY <1>2 DEF CreateReconciliation, ReopenReconciliation, DeleteReconciliation, Submit
  <2> QED BY <2>1 DEF WriteStep, DeletedForGood, Stays, Kept
<1>3. CASE \E a \in Accounts : SetAccountArchived(c, a)
  <2>1. UNCHANGED <<imports, txns, history, proc>> /\ proc[c] = Idle
    BY <1>3 DEF SetAccountArchived, Submit
  <2>2. DeletedForGood
    BY <1>3 DEF SetAccountArchived, DeletedForGood, TypeOK
  <2> QED BY <2>1, <2>2 DEF WriteStep, Stays, Kept
<1>4. CASE \E a \in Accounts : DeleteAccount(c, a)
  <2>1. PICK a \in Accounts : DeleteAccount(c, a)
    BY <1>4
  <2>2. /\ UNCHANGED <<imports, proc>> /\ proc[c] = Idle
        /\ accounts' = [accounts EXCEPT ![a] = "deleted"]
    BY <2>1 DEF DeleteAccount, Submit
  <2>3. DeletedForGood
    BY <2>2 DEF DeletedForGood, TypeOK
  <2>4. \A t \in Txns : Stays(t)
    BY <2>1, CascadeFates
  <2> QED BY <2>2, <2>3, <2>4 DEF WriteStep
<1>5. CASE CommitUpdate(c) \/ CommitReapply(c) \/ CommitDelete(c)
  <2>1. \A t \in Txns : Stays(t)
    BY <1>5, UpdateFates, ReapplyFates, DeleteFates
  <2>2. UNCHANGED <<accounts, imports>> /\ Pend(c, Idle)
    BY <1>5 DEF CommitUpdate, CommitReapply, CommitDelete
  <2>3. /\ \A d \in Clients : proc'[d] = proc[d] \/ proc'[d].op \in {"idle", "entries"}
        /\ proc'[c] = Idle
    BY <1>0, <2>2 DEF Pend, TypeOK
  <2> QED BY <2>1, <2>2, <2>3 DEF WriteStep, DeletedForGood
<1>6. CASE CommitComplete(c)
  <2>1. UNCHANGED <<accounts, imports, txns, history>> /\ Pend(c, Idle)
    BY <1>6 DEF CommitComplete
  <2>2. /\ \A d \in Clients : proc'[d] = proc[d] \/ proc'[d].op \in {"idle", "entries"}
        /\ proc'[c] = Idle
    BY <1>0, <2>1 DEF Pend, TypeOK
  <2> QED BY <2>1, <2>2 DEF WriteStep, DeletedForGood, Stays, Kept
<1>7. CASE CommitEntries(c)
  <2>1. UNCHANGED <<accounts, imports, txns, history>> /\ proc'[c] = Idle
    BY <1>7 DEF CommitEntries
  <2>2. ASSUME NEW d \in Clients
        PROVE proc'[d] = proc[d] \/ proc'[d].op \in {"idle", "entries"}
    <3>1. CASE d = c
      BY <1>0, <1>7, <3>1 DEF CommitEntries
    <3>2. CASE d # c /\ proc[d].op = "entries"
      <4>1. proc'[d] = [proc[d] EXCEPT !.dels = proc[d].dels \ proc[c].dels]
        BY <1>7, <3>2 DEF CommitEntries
      <4>2. proc[d] \in [op : {"entries"}, rec : Recs, adds : SUBSET Entry, dels : SUBSET Entry]
        BY <3>2, EntriesRequest DEF TypeOK
      <4>3. proc'[d].op = "entries"
        BY <3>2, <4>1, <4>2
      <4> QED BY <4>3
    <3>3. CASE d # c /\ proc[d].op # "entries"
      BY <1>7, <3>3 DEF CommitEntries
    <3> QED BY <3>1, <3>2, <3>3
  <2> QED BY <2>1, <2>2 DEF WriteStep, DeletedForGood, Stays, Kept
<1> QED BY <1>1, <1>2, <1>3, <1>4, <1>5, <1>6, <1>7

LEMMA ImportSteps ==
  ASSUME TypeOK, NEW c \in Clients, CommitImport(c)
  PROVE \E ids \in SUBSET Txns : ImportStep(c, ids)
<1>1. /\ proc[c].op = "import" /\ UNCHANGED accounts /\ Pend(c, Idle)
  BY DEF CommitImport
<1>2. \A d \in Clients : proc'[d] = IF d = c THEN Idle ELSE proc[d]
  BY <1>1 DEF Pend, TypeOK
<1>3. /\ proc[c].key \in Keys /\ proc[c].payload \in Payloads
      /\ imports' = [imports EXCEPT ![proc[c].key] = proc[c].payload]
      /\ \E ids \in SUBSET Txns :
           /\ Cardinality(ids) = Len(Items[proc[c].payload])
           /\ \A t \in ids : Born(t, proc[c].key)
           /\ \A t \in Txns \ ids : Kept(t)
  BY ImportFates, Zenon
<1> QED BY <1>1, <1>2, <1>3, Zenon DEF ImportStep

LEMMA StepKinds ==
  ASSUME TypeOK, \A c \in Clients : PendingKnown(c), Next
  PROVE ReadStep \/ WriteStep \/ \E c \in Clients, ids \in SUBSET Txns : ImportStep(c, ids)
<1>1. PICK c \in Clients :
        \/ \E t \in Txns, row \in PlainRow : CreateTransaction(c, t, row)
        \/ \E t \in Txns, row \in Row : UpdateTransaction(c, t, row)
        \/ \E k \in Keys, p \in Payloads : ImportTransactions(c, k, p)
        \/ \E k \in Keys : UndoBatch(c, k)
        \/ \E ids \in SUBSET Txns : DeleteTransactions(c, ids)
        \/ \E ids \in SUBSET Txns, row \in PlainRow : CreateInstallments(c, ids, row)
        \/ \E ids \in SUBSET Txns, text \in Texts : BulkCategorize(c, ids, text)
        \/ \E ids \in SUBSET Txns : \E texts \in [ids -> Texts] : ReapplyRules(c, texts)
        \/ \E r \in Recs, ids \in SUBSET Txns, cleared \in BOOLEAN : SetEntries(c, r, ids, cleared)
        \/ \E r \in Recs, a \in Accounts, date \in Dates, balance \in Statements :
             CreateReconciliation(c, r, a, date, balance)
        \/ \E r \in Recs : CompleteReconciliation(c, r)
        \/ \E r \in Recs : ReopenReconciliation(c, r)
        \/ \E r \in Recs : DeleteReconciliation(c, r)
        \/ \E a \in Accounts : SetAccountArchived(c, a)
        \/ \E a \in Accounts : DeleteAccount(c, a)
        \/ CommitImport(c)
        \/ CommitUpdate(c)
        \/ CommitReapply(c)
        \/ CommitDelete(c)
        \/ CommitEntries(c)
        \/ CommitComplete(c)
        \/ RollBack(c)
  BY NextCases, Zenon
<1>2. PendingKnown(c)
  OBVIOUS
<1> QED BY <1>1, <1>2, ReadSteps, WriteSteps, ImportSteps, Zenon

-----------------------------------------------------------------------------
(* The audit trail is right.                                               *)

TrailInv ==
  /\ TypeOK
  /\ \A t \in Txns : Trail(t)
  /\ \A c \in Clients : PendingKnown(c)

\* Nothing becomes unborn again.
LEMMA KnownStays ==
  ASSUME TypeOK, NEW t \in Txns, txns[t] # Unborn, Stays(t)
  PROVE txns'[t] # Unborn
BY ConstantsAssumption, MarkersAssumption
   DEF Stays, Kept, Edited, EditedAs, Refiled, Dropped, Cascaded

LEMMA IdsAreTxns ==
  ASSUME TypeOK, NEW c \in Clients, proc[c].op \in {"update", "delete", "undo"}
  PROVE proc[c].ids \subseteq Txns
BY RequestFields DEF TypeOK

LEMMA TrailRead ==
  ASSUME TrailInv, TypeOK', ReadStep
  PROVE TrailInv'
<1>1. UNCHANGED <<accounts, txns, history>>
  BY DEF ReadStep
<1>2. \A t \in Txns : Trail(t)'
  BY <1>1 DEF TrailInv, Trail, Named, Deleted
<1>3. ASSUME NEW d \in Clients PROVE PendingKnown(d)'
  <2>1. PendingKnown(d)
    BY DEF TrailInv
  <2>2. CASE proc'[d] = proc[d]
    BY <1>1, <2>1, <2>2 DEF PendingKnown
  <2>3. CASE NewRequest(proc'[d])
    <3> SUFFICES ASSUME proc'[d].op \in {"update", "delete", "undo"}
                 PROVE \A t \in proc'[d].ids : txns'[t] # Unborn
      BY DEF PendingKnown
    <3>1. proc'[d].ids \subseteq Live
      BY <2>3 DEF NewRequest, Remaining
    <3> QED BY <1>1, <3>1 DEF Live
  <2> QED BY <2>2, <2>3 DEF ReadStep
<1> QED BY <1>2, <1>3 DEF TrailInv

LEMMA TrailWrite ==
  ASSUME TrailInv, TypeOK', WriteStep
  PROVE TrailInv'
<1>1. ASSUME NEW t \in Txns PROVE Trail(t)' /\ (txns[t] # Unborn => txns'[t] # Unborn)
  <2>1. CASE Stays(t)
    BY <2>1, TrailStays, KnownStays DEF TrailInv, WriteStep
  <2>2. CASE Born(t, None)
    BY <2>2, TrailBegins DEF Born
  <2> QED BY <2>1, <2>2 DEF WriteStep
<1>2. ASSUME NEW d \in Clients PROVE PendingKnown(d)'
  <2> SUFFICES ASSUME proc'[d].op \in {"update", "delete", "undo"}
               PROVE \A t \in proc'[d].ids : txns'[t] # Unborn
    BY DEF PendingKnown
  <2>1. proc'[d] = proc[d]
    BY DEF WriteStep
  <2>2. PendingKnown(d) /\ proc[d].ids \subseteq Txns
    BY <2>1, IdsAreTxns DEF TrailInv
  <2> QED BY <1>1, <2>1, <2>2 DEF PendingKnown
<1> QED BY <1>1, <1>2 DEF TrailInv

LEMMA TrailImport ==
  ASSUME TrailInv, TypeOK', NEW c \in Clients, NEW ids \in SUBSET Txns, ImportStep(c, ids)
  PROVE TrailInv'
<1>0. DeletedForGood
  BY DEF ImportStep, DeletedForGood
<1>1. ASSUME NEW t \in Txns PROVE Trail(t)' /\ (txns[t] # Unborn => txns'[t] # Unborn)
  <2>1. CASE t \in ids
    <3>1. Born(t, proc[c].key)
      BY <2>1 DEF ImportStep
    <3> QED BY <3>1, TrailBegins DEF Born
  <2>2. CASE t \notin ids
    <3>1. Kept(t)
      BY <2>2 DEF ImportStep
    <3>2. Stays(t)
      BY <3>1 DEF Stays
    <3> QED BY <1>0, <3>2, TrailStays, KnownStays DEF TrailInv
  <2> QED BY <2>1, <2>2
<1>2. ASSUME NEW d \in Clients PROVE PendingKnown(d)'
  <2> SUFFICES ASSUME proc'[d].op \in {"update", "delete", "undo"}
               PROVE \A t \in proc'[d].ids : txns'[t] # Unborn
    BY DEF PendingKnown
  <2>1. proc'[d] = proc[d]
    BY IdleIsRequest DEF ImportStep
  <2>2. PendingKnown(d) /\ proc[d].ids \subseteq Txns
    BY <2>1, IdsAreTxns DEF TrailInv
  <2> QED BY <1>1, <2>1, <2>2 DEF PendingKnown
<1> QED BY <1>1, <1>2 DEF TrailInv

LEMMA TrailInit == Init => TrailInv
<1> SUFFICES ASSUME Init PROVE TrailInv
  OBVIOUS
<1>1. TypeOK
  BY TypeInit
<1>2. \A c \in Clients : PendingKnown(c)
  BY IdleIsRequest DEF Init, PendingKnown
<1>3. ASSUME NEW t \in Txns PROVE Trail(t)
  <2>1. history[t] = <<>> /\ txns[t] = Unborn /\ DOMAIN history[t] = {} /\ Len(history[t]) = 0
    BY DEF Init
  <2> QED BY <2>1, ConstantsAssumption, MarkersAssumption DEF Trail, Deleted
<1> QED BY <1>1, <1>2, <1>3 DEF TrailInv

LEMMA TrailStep == TrailInv /\ [Next]_vars => TrailInv'
<1> SUFFICES ASSUME TrailInv, [Next]_vars PROVE TrailInv'
  OBVIOUS
<1>1. TypeOK /\ TypeOK'
  BY TypeStep DEF TrailInv
<1>2. CASE UNCHANGED vars
  <2>1. UNCHANGED <<accounts, txns, history, proc>>
    BY <1>2 DEF vars
  <2>2. \A t \in Txns : Trail(t)'
    BY <2>1 DEF TrailInv, Trail, Named, Deleted
  <2>3. \A c \in Clients : PendingKnown(c)'
    BY <2>1 DEF TrailInv, PendingKnown
  <2> QED BY <1>1, <2>2, <2>3 DEF TrailInv
<1>3. CASE Next
  <2>1. ReadStep \/ WriteStep \/ \E c \in Clients, ids \in SUBSET Txns : ImportStep(c, ids)
    BY <1>1, <1>3, StepKinds DEF TrailInv
  <2> QED BY <1>1, <2>1, TrailRead, TrailWrite, TrailImport
<1> QED BY <1>2, <1>3

\* The audit trail tells the fate of every transaction for any number of
\* clients, accounts, keys and rows, whatever requests race: it begins with
\* its one create, a recorded deletion is final, and a row that vanished
\* without one was on an account that was deleted
\* (services/transaction_history.py, cascade_delete_accounts).
THEOREM HistoryStaysTrue == Spec => []HistoryTellsFate
<1>1. TrailInv => HistoryTellsFate
  BY TrailTells DEF TrailInv
<1> QED BY <1>1, TrailInit, TrailStep, PTL DEF Spec

\* Some snapshot of the trail shows v in column f.
ShownIn(t, f, v) ==
  \E i \in DOMAIN history[t] : history[t][i].op \in {"create", "update"} /\ history[t][i].after[f] = v

Shown(t) == txns[t] \in Row => \A f \in Values : ShownIn(t, f, txns[t][f])

LEMMA LongerShows ==
  ASSUME TypeOK, NEW t \in Txns, NEW h \in HistoryRow, history'[t] = Append(history[t], h)
  PROVE /\ \A f, v : ShownIn(t, f, v) => ShownIn(t, f, v)'
        /\ h.op = "update" => \A f : ShownIn(t, f, h.after[f])'
<1>1. /\ DOMAIN history'[t] = 1..(Len(history[t]) + 1)
      /\ DOMAIN history[t] = 1..Len(history[t]) /\ Len(history[t]) \in Nat
      /\ \A i \in 1..Len(history[t]) : history'[t][i] = history[t][i]
      /\ history'[t][Len(history[t]) + 1] = h
  BY LongerTrail
<1>2. /\ \A i \in DOMAIN history[t] : i \in DOMAIN history'[t] /\ history'[t][i] = history[t][i]
      /\ \E i \in DOMAIN history'[t] : history'[t][i] = h
  BY <1>1
<1> QED BY <1>2, Zenon DEF ShownIn

\* A column of a merged edit is the one that was there or the one the
\* request's snapshot shows.
LEMMA ShownStep ==
  ASSUME TypeOK, NEW t \in Txns, Shown(t), Stays(t) \/ \E b : Born(t, b)
  PROVE Shown(t)'
<1> SUFFICES ASSUME txns'[t] \in Row, NEW f \in Values, NEW v, v = txns'[t][f]
             PROVE ShownIn(t, f, v)'
  BY DEF Shown, ShownIn
<1>1. CASE Kept(t)
  BY <1>1 DEF Kept, Shown, ShownIn
<1>2. CASE Edited(t)
  <2>1. PICK h : EditedAs(t, h)
    BY <1>2 DEF Edited
  <2>2. h \in HistoryRow /\ h.op = "update" /\ history'[t] = Append(history[t], h)
    BY <2>1 DEF EditedAs
  <2>3. PICK c \in Clients :
          /\ h.after = proc[c].new[t]
          /\ txns'[t] = IF proc[c].new[t] # proc[c].old[t]
                         THEN Merged(txns[t], proc[c].old[t], proc[c].new[t]) ELSE txns[t]
    BY <2>1 DEF EditedAs
  <2>4. txns[t] \in Row
    BY <2>1 DEF EditedAs
  <2>5. f \in DOMAIN txns[t]
    BY <2>4 DEF Row, TxnShape, Values
  <2>6. txns'[t][f] = txns[t][f] \/ txns'[t][f] = h.after[f]
    BY <2>3, <2>5 DEF Merged
  <2>7. ShownIn(t, f, txns[t][f])
    BY <2>4 DEF Shown
  <2>8. v = txns[t][f] => ShownIn(t, f, v)'
    <3>1. v = txns[t][f] => ShownIn(t, f, v)
      BY <2>7 DEF ShownIn
    <3> QED BY <2>2, <3>1, LongerShows
  <2>9. ShownIn(t, f, h.after[f])'
    BY <2>2, LongerShows
  <2> QED BY <2>6, <2>8, <2>9
<1>3. CASE Refiled(t)
  BY <1>3, RefiledRow DEF Refiled, Shown, ShownIn
<1>4. CASE Dropped(t) \/ Cascaded(t)
  BY <1>4, MarkersAssumption DEF Dropped, Cascaded
<1>5. CASE \E b : Born(t, b)
  <2>1. PICK h : BornAs(t, h)
    BY <1>5 DEF Born
  <2>2. /\ h.op = "create" /\ history'[t] = <<h>> /\ txns'[t][f] = h.after[f]
        /\ h \in HistoryRow
    BY <2>1 DEF BornAs
  <2>3. 1 \in DOMAIN history'[t] /\ history'[t][1] = h
    BY <2>2
  <2> QED BY <2>2, <2>3 DEF ShownIn
<1> QED BY <1>1, <1>2, <1>3, <1>4, <1>5 DEF Stays

\* However edits of one row race and merge, every amount, date, type and
\* account in the ledger is shown by a snapshot of the audit trail, for any
\* number of clients and rows (services/transaction_history.py).
THEOREM ValuesAreRecorded == Spec => []EveryValueRecorded
<1> DEFINE All == \A t \in Txns : Shown(t)
<1>1. Init => All
  BY MarkersAssumption DEF Init, Shown
<1>2. TrailInv /\ All /\ [Next]_vars => All'
  <2> SUFFICES ASSUME TrailInv, All, [Next]_vars, NEW t \in Txns PROVE Shown(t)'
    OBVIOUS
  <2>1. CASE UNCHANGED vars
    BY <2>1 DEF vars, Shown, ShownIn
  <2>2. CASE Next
    <3>1. ReadStep \/ WriteStep \/ \E c \in Clients, ids \in SUBSET Txns : ImportStep(c, ids)
      BY <2>2, StepKinds DEF TrailInv
    <3>2. ReadStep => Stays(t)
      BY DEF ReadStep, Stays, Kept
    <3>3. WriteStep => Stays(t) \/ \E b : Born(t, b)
      BY DEF WriteStep
    <3>4. ASSUME NEW c \in Clients, NEW ids \in SUBSET Txns, ImportStep(c, ids)
          PROVE Stays(t) \/ \E b : Born(t, b)
      BY <3>4 DEF ImportStep, Stays
    <3>5. Stays(t) \/ \E b : Born(t, b)
      BY <3>1, <3>2, <3>3, <3>4
    <3> QED BY <3>5, ShownStep DEF TrailInv
  <2> QED BY <2>1, <2>2
<1>3. TrailInv /\ All => EveryValueRecorded
  <2> SUFFICES ASSUME TrailInv, All, NEW t \in Live, NEW f \in Values
               PROVE \E s \in Snapshots(t) : s[f] = txns[t][f]
    BY DEF EveryValueRecorded, Values
  <2>1. txns[t] \in Row /\ t \in Txns
    BY LiveRow DEF TrailInv
  <2>2. ShownIn(t, f, txns[t][f])
    BY <2>1 DEF Shown
  <2> QED BY <2>2 DEF ShownIn, Snapshots
<1> HIDE DEF All
<1> QED BY <1>1, <1>2, <1>3, TrailInit, TrailStep, PTL DEF Spec

-----------------------------------------------------------------------------
(* Imports and their undo.                                                 *)

\* A key that is being imported is free, and one request holds it.
PendingImport(c) ==
  proc[c].op = "import" =>
    /\ imports[proc[c].key] = None
    /\ \A d \in Clients : proc[d].op = "import" /\ proc[d].key = proc[c].key => d = c

BatchSize(k) ==
  /\ imports[k] = None => Batch(k) = {}
  /\ imports[k] # None => Cardinality(Batch(k)) = Len(Items[imports[k]])

\* What an undo is going to delete is still the rest of its batch.
PendingUndo(c) ==
  proc[c].op = "undo" =>
    \E k \in Keys : /\ imports[k] # None
                    /\ proc[c].ids \subseteq Batch(k)
                    /\ Batch(k) \cap Live \subseteq proc[c].ids

ImportInv ==
  /\ \A c \in Clients : PendingImport(c) /\ PendingUndo(c)
  /\ \A k \in Keys : BatchSize(k)
  /\ UndoIsWhole

\* The key of a row is in its first history row, which stays.
LEMMA BatchStays ==
  ASSUME TypeOK, NEW t \in Txns, Trail(t), Stays(t), NEW k
  PROVE /\ t \in Batch(k)' <=> t \in Batch(k)
        /\ t \in Batch(k) => (t \in Live' => t \in Live)
<1>1. (history'[t] # <<>> /\ history'[t][1].batch = k)
        <=> (history[t] # <<>> /\ history[t][1].batch = k)
  <2>1. CASE history'[t] = history[t]
    BY <2>1
  <2>2. CASE history'[t] # history[t]
    <3>1. txns[t] # Unborn /\ \E h \in HistoryRow : history'[t] = Append(history[t], h)
      BY <2>2 DEF Stays, Kept, Edited, EditedAs, Refiled, Dropped, DroppedAs, Cascaded
    <3>2. history[t] # <<>>
      BY <3>1 DEF Trail
    <3>3. history'[t] # <<>> /\ history'[t][1] = history[t][1]
      BY <3>1, <3>2, LongerTrail
    <3> QED BY <3>2, <3>3
  <2> QED BY <2>1, <2>2
<1>2. t \in Batch(k) => txns[t] # Unborn
  BY DEF Batch, Trail
<1>3. txns[t] # Unborn /\ t \in Live' => t \in Live
  BY ConstantsAssumption, MarkersAssumption
     DEF Stays, Kept, Edited, EditedAs, Refiled, Dropped, Cascaded, Live
<1> QED BY <1>1, <1>2, <1>3 DEF Batch

LEMMA BatchBegins ==
  ASSUME NEW t \in Txns, Trail(t), NEW b, Born(t, b), NEW k
  PROVE /\ t \notin Batch(k)
        /\ t \in Batch(k)' <=> k = b
        /\ "undo" \notin Ops(t)'
<1>1. PICK h : BornAs(t, h) /\ h.batch = b
  BY DEF Born
<1>2. history'[t] = <<h>> /\ h.op = "create"
  BY <1>1 DEF BornAs
<1>3. history[t] = <<>>
  BY DEF Born, Trail
<1>4. /\ history'[t] # <<>> /\ history'[t][1] = h /\ DOMAIN history'[t] = {1}
  BY <1>2
<1>5. "undo" \notin Ops(t)'
  BY <1>2, <1>4 DEF Ops
<1> QED BY <1>1, <1>3, <1>4, <1>5 DEF Batch

\* An undo that appears in a trail is the commit of a pending undo.
LEMMA UndoAppears ==
  ASSUME TypeOK, NEW t \in Txns, Stays(t), "undo" \in Ops(t)', "undo" \notin Ops(t)
  PROVE \E c \in Clients : /\ proc[c].op = "undo" /\ t \in proc[c].ids
                           /\ txns' = Removed(proc[c].ids)
<1>1. history'[t] # history[t]
  BY DEF Ops
<1>2. PICK h \in HistoryRow : /\ history'[t] = Append(history[t], h)
                              /\ EditedAs(t, h) \/ DroppedAs(t, h)
  BY <1>1 DEF Stays, Kept, Edited, EditedAs, Refiled, Dropped, DroppedAs, Cascaded
<1>3. h.op = "undo"
  <2>1. history'[t] = Append(history[t], h)
    BY <1>2
  <2>2. Ops(t)' = Ops(t) \cup {h.op}
    BY <2>1, LongerFacts
  <2> QED BY <2>2
<1> QED BY <1>2, <1>3 DEF EditedAs, DroppedAs

LEMMA ImportRead ==
  ASSUME TrailInv, ImportInv, ReadStep
  PROVE ImportInv'
<1>1. UNCHANGED <<txns, history, imports>>
  BY DEF ReadStep
<1>2. (\A k \in Keys : BatchSize(k)') /\ UndoIsWhole'
  <2>1. (\A k : Batch(k)' = Batch(k)) /\ Live' = Live /\ \A t : Ops(t)' = Ops(t)
    BY <1>1 DEF Batch, Live, Ops
  <2> QED BY <1>1, <2>1 DEF ImportInv, BatchSize, UndoIsWhole
<1>3. PICK c \in Clients : /\ NewRequest(proc'[c]) \/ proc'[c] = proc[c]
                           /\ \A d \in Clients : d # c => proc'[d] = proc[d]
  BY DEF ReadStep
<1>4. ASSUME NEW d \in Clients, proc'[d] = proc[d] PROVE PendingUndo(d)'
  BY <1>1, <1>4 DEF ImportInv, PendingUndo, Batch, Live
<1>5. PendingUndo(c)'
  <2>1. CASE proc'[c] = proc[c]
    BY <1>4, <2>1
  <2>2. CASE NewRequest(proc'[c])
    <3> SUFFICES ASSUME proc'[c].op = "undo"
                 PROVE \E k \in Keys : /\ imports'[k] # None
                                       /\ proc'[c].ids \subseteq Batch(k)'
                                       /\ Batch(k)' \cap Live' \subseteq proc'[c].ids
      BY DEF PendingUndo
    <3>1. PICK k \in Keys : imports[k] # None /\ proc'[c].ids = Remaining(k)
      BY <2>2 DEF NewRequest
    <3>2. Batch(k)' = Batch(k) /\ Live' = Live
      BY <1>1 DEF Batch, Live
    <3> QED BY <1>1, <3>1, <3>2 DEF Remaining
  <2> QED BY <1>3, <2>1, <2>2
<1>6. ASSUME NEW d \in Clients PROVE PendingImport(d)'
  <2>1. CASE proc'[c] = proc[c]
    <3>1. \A e \in Clients : proc'[e] = proc[e]
      BY <1>3, <2>1
    <3> QED BY <1>1, <3>1 DEF ImportInv, PendingImport
  <2>2. CASE proc'[c].op # "import"
    <3>1. \A e \in Clients : e # c => proc'[e] = proc[e]
      BY <1>3
    <3> QED BY <1>1, <2>2, <3>1 DEF ImportInv, PendingImport
  <2>3. CASE NewRequest(proc'[c]) /\ proc'[c].op = "import"
    <3>1. imports[proc'[c].key] = None /\ KeyUncontended(proc'[c].key)
      BY <2>3 DEF NewRequest
    <3>2. \A e \in Clients : e # c /\ proc'[e].op = "import" => proc'[e].key # proc'[c].key
      BY <1>3, <3>1 DEF KeyUncontended
    <3>3. \A e \in Clients : e # c => proc'[e] = proc[e]
      BY <1>3
    <3> QED BY <1>1, <3>1, <3>2, <3>3 DEF ImportInv, PendingImport
  <2> QED BY <1>3, <2>1, <2>2, <2>3
<1> QED BY <1>2, <1>3, <1>4, <1>5, <1>6 DEF ImportInv

LEMMA ImportWrite ==
  ASSUME TrailInv, ImportInv, WriteStep
  PROVE ImportInv'
<1>1. imports' = imports /\ \A t \in Txns : Stays(t) \/ Born(t, None)
  BY DEF WriteStep
<1>2. TypeOK /\ \A t \in Txns : Trail(t)
  BY DEF TrailInv
<1>3. ASSUME NEW k \in Keys, NEW t \in Txns
      PROVE /\ t \in Batch(k)' <=> t \in Batch(k)
            /\ t \in Batch(k) => (t \in Live' => t \in Live) /\ Stays(t)
  <2>1. CASE Stays(t)
    BY <1>2, <2>1, BatchStays
  <2>2. CASE Born(t, None)
    <3>1. k # None
      BY ConstantsAssumption
    <3> QED BY <1>2, <2>2, <3>1, BatchBegins
  <2> QED BY <1>1, <2>1, <2>2
<1>4. \A k \in Keys : Batch(k)' = Batch(k) /\ Batch(k) \subseteq Txns
  <2>1. \A k \in Keys : Batch(k) \subseteq Txns /\ Batch(k)' \subseteq Txns
    BY DEF Batch
  <2> QED BY <1>3, <2>1
<1>5. \A k \in Keys : BatchSize(k)'
  BY <1>1, <1>4 DEF ImportInv, BatchSize
<1>6. ASSUME NEW d \in Clients PROVE PendingImport(d)' /\ PendingUndo(d)'
  <2>1. \A e \in Clients : proc'[e] = proc[e] \/ proc'[e].op \in {"idle", "entries"}
    BY DEF WriteStep
  <2>2. PendingImport(d)'
    BY <1>1, <2>1 DEF ImportInv, PendingImport
  <2>3. PendingUndo(d)'
    <3> SUFFICES ASSUME proc'[d].op = "undo"
                 PROVE \E k \in Keys : /\ imports'[k] # None
                                       /\ proc'[d].ids \subseteq Batch(k)'
                                       /\ Batch(k)' \cap Live' \subseteq proc'[d].ids
      BY DEF PendingUndo
    <3>1. proc'[d] = proc[d]
      BY <2>1
    <3>2. PICK k \in Keys : /\ imports[k] # None
                            /\ proc[d].ids \subseteq Batch(k)
                            /\ Batch(k) \cap Live \subseteq proc[d].ids
      BY <3>1 DEF ImportInv, PendingUndo
    <3>3. Batch(k)' \cap Live' \subseteq Batch(k) \cap Live
      BY <1>3, <1>4
    <3> QED BY <1>1, <1>4, <3>1, <3>2, <3>3
  <2> QED BY <2>2, <2>3
<1>7. UndoIsWhole'
  <2> SUFFICES ASSUME NEW k \in Keys, NEW t \in Batch(k)', "undo" \in Ops(t)',
                      NEW u \in Batch(k)', u \in Live'
               PROVE FALSE
    BY DEF UndoIsWhole
  <2>1. /\ t \in Batch(k) /\ u \in Batch(k) /\ u \in Live
        /\ t \in Txns /\ u \in Txns /\ Stays(t)
    BY <1>3, <1>4
  <2>2. CASE "undo" \in Ops(t)
    BY <2>1, <2>2 DEF ImportInv, UndoIsWhole
  <2>3. CASE "undo" \notin Ops(t)
    <3>1. PICK c \in Clients : /\ proc[c].op = "undo" /\ t \in proc[c].ids
                               /\ txns' = Removed(proc[c].ids)
      BY <1>2, <2>1, <2>3, UndoAppears
    <3>2. PICK j \in Keys : /\ proc[c].ids \subseteq Batch(j)
                            /\ Batch(j) \cap Live \subseteq proc[c].ids
      BY <3>1 DEF ImportInv, PendingUndo
    <3>3. j = k
      BY <2>1, <3>1, <3>2 DEF Batch
    <3>4. txns'[u] = Gone
      BY <2>1, <3>1, <3>2, <3>3 DEF Removed
    <3> QED BY <3>4 DEF Live
  <2> QED BY <2>2, <2>3
<1> QED BY <1>5, <1>6, <1>7 DEF ImportInv

LEMMA ImportCommits ==
  ASSUME TrailInv, ImportInv, NEW c \in Clients, NEW ids \in SUBSET Txns, ImportStep(c, ids)
  PROVE ImportInv'
<1>0. PICK key, p : key = proc[c].key /\ p = proc[c].payload
  OBVIOUS
<1>1. /\ proc[c].op = "import" /\ key \in Keys /\ p \in Payloads
      /\ imports' = [imports EXCEPT ![key] = p]
      /\ Cardinality(ids) = Len(Items[p])
      /\ \A t \in ids : Born(t, key)
      /\ \A t \in Txns \ ids : Kept(t)
      /\ \A d \in Clients : proc'[d] = IF d = c THEN Idle ELSE proc[d]
  BY <1>0 DEF ImportStep
<1>2. TypeOK /\ \A t \in Txns : Trail(t)
  BY DEF TrailInv
<1>3. imports[key] = None /\ Batch(key) = {}
  BY <1>0, <1>1 DEF ImportInv, PendingImport, BatchSize
<1>4. /\ imports'[key] = p /\ p # None
      /\ \A k \in Keys : k # key => imports'[k] = imports[k]
  BY <1>1, <1>2, ConstantsAssumption DEF TypeOK
<1>5. ASSUME NEW k \in Keys, NEW t \in Txns
      PROVE /\ t \in Batch(k)' <=> IF t \in ids THEN k = key ELSE t \in Batch(k)
            /\ t \in Batch(k) => t \notin ids
  <2>1. CASE t \in ids
    BY <1>1, <1>2, <2>1, BatchBegins
  <2>2. CASE t \notin ids
    <3>1. Stays(t)
      BY <1>1, <2>2 DEF Stays
    <3> QED BY <1>2, <2>2, <3>1, BatchStays
  <2> QED BY <2>1, <2>2
<1>6. Batch(key)' = ids
  <2>1. Batch(key)' \subseteq Txns
    BY DEF Batch
  <2> QED BY <1>1, <1>3, <1>5, <2>1
<1>7. \A k \in Keys : k # key => Batch(k)' = Batch(k)
  <2>1. \A k \in Keys : Batch(k) \subseteq Txns /\ Batch(k)' \subseteq Txns
    BY DEF Batch
  <2> QED BY <1>5, <2>1
<1>8. ASSUME NEW k \in Keys PROVE BatchSize(k)'
  <2>1. CASE k = key
    BY <1>1, <1>4, <1>6, <2>1 DEF BatchSize
  <2>2. CASE k # key
    BY <1>4, <1>7, <2>2 DEF BatchSize, ImportInv
  <2> QED BY <2>1, <2>2
<1>9. ASSUME NEW d \in Clients PROVE PendingImport(d)'
  <2> SUFFICES ASSUME proc'[d].op = "import"
               PROVE /\ imports'[proc'[d].key] = None
                     /\ \A e \in Clients :
                          proc'[e].op = "import" /\ proc'[e].key = proc'[d].key => e = d
    BY DEF PendingImport
  <2>1. d # c /\ proc'[d] = proc[d] /\ proc[d].key \in Keys
    BY <1>1, <1>2, IdleIsRequest, RequestFields DEF TypeOK
  <2>2. proc[d].key # key /\ imports[proc[d].key] = None
    BY <1>0, <1>1, <2>1 DEF ImportInv, PendingImport
  <2>3. \A e \in Clients : proc'[e].op = "import" => proc'[e] = proc[e]
    BY <1>1, IdleIsRequest
  <2> QED BY <1>4, <2>1, <2>2, <2>3 DEF ImportInv, PendingImport
<1>10. ASSUME NEW d \in Clients PROVE PendingUndo(d)'
  <2> SUFFICES ASSUME proc'[d].op = "undo"
               PROVE \E k \in Keys : /\ imports'[k] # None
                                     /\ proc'[d].ids \subseteq Batch(k)'
                                     /\ Batch(k)' \cap Live' \subseteq proc'[d].ids
    BY DEF PendingUndo
  <2>1. proc'[d] = proc[d]
    BY <1>1, IdleIsRequest
  <2>2. PICK k \in Keys : /\ imports[k] # None
                          /\ proc[d].ids \subseteq Batch(k)
                          /\ Batch(k) \cap Live \subseteq proc[d].ids
    BY <2>1 DEF ImportInv, PendingUndo
  <2>3. k # key /\ Batch(k)' = Batch(k)
    BY <1>3, <1>7, <2>2
  <2>4. \A t \in Batch(k) : t \in Txns /\ t \notin ids
    BY <1>5 DEF Batch
  <2>5. \A t \in Batch(k) : txns'[t] = txns[t] /\ t \in Txns
    BY <1>1, <2>4 DEF Kept
  <2>6. Batch(k)' \cap Live' \subseteq Batch(k) \cap Live
    BY <2>3, <2>5 DEF Live
  <2> QED BY <1>4, <2>1, <2>2, <2>3, <2>6
<1>11. UndoIsWhole'
  <2> SUFFICES ASSUME NEW k \in Keys, NEW t \in Batch(k)', "undo" \in Ops(t)',
                      NEW u \in Batch(k)', u \in Live'
               PROVE FALSE
    BY DEF UndoIsWhole
  <2>0. t \in Txns /\ u \in Txns
    BY DEF Batch
  <2>1. CASE k = key
    BY <1>1, <1>2, <1>6, <2>0, <2>1, BatchBegins
  <2>2. CASE k # key
    <3>1. t \in Batch(k) /\ u \in Batch(k) /\ t \notin ids /\ u \notin ids
      BY <1>5, <1>7, <2>0, <2>2
    <3>2. Kept(t) /\ Kept(u)
      BY <1>1, <2>0, <3>1
    <3>3. "undo" \in Ops(t) /\ u \in Live
      BY <2>0, <3>2 DEF Kept, Ops, Live
    <3> QED BY <3>1, <3>3 DEF ImportInv, UndoIsWhole
  <2> QED BY <2>1, <2>2
<1> QED BY <1>8, <1>9, <1>10, <1>11 DEF ImportInv

LEMMA ImportInit == Init => ImportInv
<1> SUFFICES ASSUME Init PROVE ImportInv
  OBVIOUS
<1>1. \A c \in Clients : PendingImport(c) /\ PendingUndo(c)
  BY IdleIsRequest DEF Init, PendingImport, PendingUndo
<1>2. \A k \in Keys : imports[k] = None /\ Batch(k) = {}
  BY DEF Init, Batch
<1> QED BY <1>1, <1>2 DEF ImportInv, BatchSize, UndoIsWhole

\* The inductive invariant behind the two theorems below: a key that is
\* being imported is free and held by one request, a committed key has as
\* many transactions as its payload, and a pending undo still covers what is
\* left of its batch.
LEMMA ImportsHold == Spec => []ImportInv
<1>1. TrailInv /\ ImportInv /\ [Next]_vars => ImportInv'
  <2> SUFFICES ASSUME TrailInv, ImportInv, [Next]_vars PROVE ImportInv'
    OBVIOUS
  <2>1. CASE UNCHANGED vars
    <3>1. UNCHANGED <<txns, history, imports, proc>>
      BY <2>1 DEF vars
    <3>2. \A c \in Clients : PendingImport(c)' /\ PendingUndo(c)'
      BY <3>1 DEF ImportInv, PendingImport, PendingUndo, Batch, Live
    <3>3. (\A k \in Keys : BatchSize(k)') /\ UndoIsWhole'
      <4>1. (\A k : Batch(k)' = Batch(k)) /\ Live' = Live /\ \A t : Ops(t)' = Ops(t)
        BY <3>1 DEF Batch, Live, Ops
      <4> QED BY <3>1, <4>1 DEF ImportInv, BatchSize, UndoIsWhole
    <3> QED BY <3>2, <3>3 DEF ImportInv
  <2>2. CASE Next
    <3>1. ReadStep \/ WriteStep \/ \E c \in Clients, ids \in SUBSET Txns : ImportStep(c, ids)
      BY <2>2, StepKinds DEF TrailInv
    <3> QED BY <3>1, ImportRead, ImportWrite, ImportCommits
  <2> QED BY <2>1, <2>2
<1> QED BY <1>1, TrailInit, TrailStep, ImportInit, PTL DEF Spec

\* An idempotency key imports its payload once, however often and however
\* concurrently the request is repeated: the transactions created under it
\* are as many as the rows of the payload that committed, and none when no
\* import committed (import_idempotency and its unique key,
\* services/transactions.py).
THEOREM KeysImportOnce == Spec => []ImportedOnce
<1>1. ImportInv => ImportedOnce
  BY FS_EmptySet DEF ImportInv, BatchSize, ImportedOnce
<1> QED BY <1>1, ImportsHold, PTL

\* undo_batch is all or nothing, and final, whatever edits, deletions and
\* replays it races with: once one row of a batch is undone none is left.
THEOREM UndoLeavesNothing == Spec => []UndoIsWhole
<1>1. ImportInv => UndoIsWhole
  BY DEF ImportInv
<1> QED BY <1>1, ImportsHold, PTL

-----------------------------------------------------------------------------
(* Requests that end before the next begins.  Then what a request checked  *)
(* still holds when it commits.                                            *)

Checked(q) ==
  /\ q.op = "update" =>
       \A t \in q.ids : t \in Live /\ q.old[t] = txns[t] /\ Guarded(t, txns[t], q.new[t])
  /\ q.op = "delete" => \A t \in q.ids : ~HasEntry(t)
  /\ q.op = "entries" => IsOpen(q.rec)
  /\ q.op = "complete" => Balanced(recs[q.rec])

SoloInv == TrailInv /\ \A c \in Clients : Checked(proc[c])

LEMMA CheckedStays ==
  ASSUME UNCHANGED <<txns, recs, entries>>, NEW q, Checked(q)
  PROVE Checked(q)'
<1>1. (\A t : (t \in Live)' <=> t \in Live) /\ (\A t : HasEntry(t)' <=> HasEntry(t))
  BY DEF Live, HasEntry
<1>2. \A r : IsOpen(r)' <=> IsOpen(r)
  BY DEF IsOpen, LiveRecs
<1>3. \A rec : ClearedLegs(rec)' = ClearedLegs(rec)
  BY DEF ClearedLegs
<1>4. \A rec : Balanced(rec)' <=> Balanced(rec)
  BY <1>3 DEF Balanced, Difference
<1>5. recs'[q.rec] = recs[q.rec]
  OBVIOUS
<1>6. \A t, old, new : Guarded(t, old, new)' <=> Guarded(t, old, new)
  BY <1>1 DEF Guarded, OnlyText
<1> QED BY <1>1, <1>2, <1>4, <1>5, <1>6 DEF Checked

LEMMA IdleChecked ==
  ASSUME NEW q, q.op = "idle"
  PROVE Checked(q)'
BY DEF Checked

LEMMA SoloStep ==
  ASSUME \A c, d \in Clients : c = d, SoloInv, [Next]_vars
  PROVE SoloInv'
<1>1. TrailInv /\ TrailInv'
  BY TrailStep DEF SoloInv
<1>2. ASSUME NEW c \in Clients PROVE Checked(proc[c])'
  <2>1. PICK q : q = proc'[c]
    OBVIOUS
  <2>2. ASSUME Checked(q)' PROVE Checked(proc[c])'
    BY <2>1, <2>2 DEF Checked
  <2>3. ASSUME q.op = "idle" PROVE Checked(proc[c])'
    BY <2>2, <2>3, IdleChecked
  <2>4. CASE UNCHANGED vars
    <3>1. Checked(q) /\ UNCHANGED <<txns, recs, entries>>
      BY <2>1, <2>4 DEF vars, SoloInv
    <3> QED BY <2>2, <3>1, CheckedStays
  <2>5. CASE ReadStep
    <3>1. NewRequest(q) \/ q = proc[c]
      BY <2>1, <2>5 DEF ReadStep
    <3>2. Checked(q)
      BY <3>1 DEF NewRequest, Checked, SoloInv
    <3>3. UNCHANGED <<txns, recs, entries>>
      BY <2>5 DEF ReadStep
    <3> QED BY <2>2, <3>2, <3>3, CheckedStays
  <2>6. CASE WriteStep
    <3>1. q = Idle
      BY <2>1, <2>6 DEF WriteStep
    <3> QED BY <2>3, <3>1, IdleIsRequest
  <2>7. CASE \E d \in Clients, ids \in SUBSET Txns : ImportStep(d, ids)
    <3>1. q = Idle
      BY <2>1, <2>7 DEF ImportStep
    <3> QED BY <2>3, <3>1, IdleIsRequest
  <2>8. Next => ReadStep \/ WriteStep \/ \E d \in Clients, ids \in SUBSET Txns : ImportStep(d, ids)
    BY <1>1, StepKinds DEF TrailInv
  <2> QED BY <2>4, <2>5, <2>6, <2>7, <2>8
<1> QED BY <1>1, <1>2 DEF SoloInv

LEMMA SoloInit == Init => SoloInv
<1> SUFFICES ASSUME Init PROVE SoloInv
  OBVIOUS
<1>1. \A c \in Clients : proc[c].op = "idle"
  BY IdleIsRequest DEF Init
<1> QED BY <1>1, TrailInit DEF SoloInv, Checked

LEMMA SoloHolds ==
  ASSUME \A c, d \in Clients : c = d
  PROVE Spec => []SoloInv
<1>1. SoloInv /\ [Next]_vars => SoloInv'
  BY SoloStep
<1> QED BY <1>1, SoloInit, PTL DEF Spec

\* Nothing came between: the row becomes what the request made of it.
LEMMA MergedIsNew ==
  ASSUME NEW row \in Row, NEW new \in Row
  PROVE Merged(row, row, new) = new
<1>1. DOMAIN row = DOMAIN new
  BY DEF Row, TxnShape
<1>2. \A f \in DOMAIN row : (IF new[f] # row[f] THEN new[f] ELSE row[f]) = new[f]
  OBVIOUS
<1>3. new = [f \in DOMAIN new |-> new[f]]
  BY DEF Row, TxnShape
<1> QED BY <1>1, <1>2, <1>3 DEF Merged

LEMMA EditIsNew ==
  ASSUME SoloInv, NEW t \in Txns, NEW h, EditedAs(t, h)
  PROVE txns'[t] = h.after
<1>1. PICK c \in Clients :
        /\ proc[c].op = "update" /\ t \in proc[c].ids /\ h.after = proc[c].new[t]
        /\ txns'[t] = IF proc[c].new[t] # proc[c].old[t]
                        THEN Merged(txns[t], proc[c].old[t], proc[c].new[t]) ELSE txns[t]
  BY DEF EditedAs
<1>2. t \in Live /\ proc[c].old[t] = txns[t]
  BY <1>1 DEF SoloInv, Checked
<1>3. proc[c].new[t] \in Row /\ txns[t] \in Row
  BY <1>1, <1>2, LiveRow DEF SoloInv, TrailInv, TypeOK
<1> QED BY <1>1, <1>2, <1>3, MergedIsNew

Matches(t) == t \in Live => OnlyText(history[t][Len(history[t])].after, txns[t])

LEMMA OnlyTextItself ==
  ASSUME NEW row \in Row
  PROVE OnlyText(row, row)
BY DEF OnlyText, Row, TxnShape

LEMMA OnlyTextAgain ==
  ASSUME NEW shown, NEW row \in Row, NEW text \in Texts, OnlyText(shown, row)
  PROVE OnlyText(shown, [row EXCEPT !.text = text])
BY DEF OnlyText, Row, TxnShape

LEMMA MatchStep ==
  ASSUME SoloInv, TypeOK', "installments" \notin Operations, NEW t \in Txns, Matches(t),
         Stays(t) \/ \E b : Born(t, b)
  PROVE Matches(t)'
<1>0. TypeOK
  BY DEF SoloInv, TrailInv
<1>1. CASE Kept(t)
  BY <1>1 DEF Kept, Matches, Live
<1>2. CASE Edited(t)
  <2>1. PICK h : EditedAs(t, h)
    BY <1>2 DEF Edited
  <2>2. txns'[t] = h.after
    BY <2>1, EditIsNew
  <2>3. h \in HistoryRow /\ history'[t] = Append(history[t], h)
    BY <2>1 DEF EditedAs
  <2>4. Len(history'[t]) = Len(history[t]) + 1 /\ history'[t][Len(history[t]) + 1] = h
    BY <1>0, <2>3, LongerTrail
  <2>5. t \in Live' => txns'[t] \in Row
    BY DEF TypeOK, Live
  <2>6. t \in Live' => OnlyText(txns'[t], txns'[t])
    BY <2>5, OnlyTextItself
  <2> QED BY <2>2, <2>4, <2>6 DEF Matches
<1>3. CASE Dropped(t) \/ Cascaded(t)
  BY <1>3 DEF Dropped, Cascaded, Matches, Live
<1>4. CASE \E b : Born(t, b)
  <2>1. PICK h : BornAs(t, h)
    BY <1>4 DEF Born
  <2>2. history'[t] = <<h>> /\ txns'[t] = h.after /\ txns'[t] \in Row
    BY <2>1 DEF BornAs
  <2>3. Len(history'[t]) = 1 /\ history'[t][1] = h
    BY <2>2
  <2>4. OnlyText(h.after, txns'[t])
    BY <2>2, OnlyTextItself
  <2> QED BY <2>3, <2>4 DEF Matches
<1>5. CASE Refiled(t)
  <2>1. PICK text \in Texts : txns'[t] = [txns[t] EXCEPT !.text = text]
    BY <1>5 DEF Refiled
  <2>2. /\ txns[t] \in Row /\ history'[t] = history[t]
        /\ OnlyText(history[t][Len(history[t])].after, txns[t])
    BY <1>5 DEF Refiled, Matches
  <2>3. OnlyText(history[t][Len(history[t])].after, txns'[t])
    BY <2>1, <2>2, OnlyTextAgain
  <2> QED BY <2>2, <2>3 DEF Matches
<1> QED BY <1>1, <1>2, <1>3, <1>4, <1>5 DEF Stays

\* When requests do not overlap, and apart from purchases in installments
\* (whose history rows are staged before the parts get their numbers), the
\* snapshot of a transaction's last history row is the transaction but for
\* its category, for any number of rows and any sequence of edits, imports,
\* deletions and rules applied to the ledger (which leave no history row).
THEOREM SnapshotsMatch ==
  ASSUME \A c, d \in Clients : c = d, "installments" \notin Operations
  PROVE Spec => []HistoryMatchesLedger
<1> DEFINE All == \A t \in Txns : Matches(t)
<1>1. Init => All
  BY DEF Init, Matches, Live
<1>2. SoloInv /\ All /\ [Next]_vars => All'
  <2> SUFFICES ASSUME SoloInv, All, [Next]_vars, NEW t \in Txns PROVE Matches(t)'
    OBVIOUS
  <2>1. TypeOK' /\ TypeOK
    BY TypeStep DEF SoloInv, TrailInv
  <2>2. CASE UNCHANGED vars
    <3>1. Stays(t)
      BY <2>2 DEF vars, Stays, Kept
    <3> QED BY <2>1, <3>1, MatchStep
  <2>3. CASE Next
    <3>1. ReadStep \/ WriteStep \/ \E c \in Clients, ids \in SUBSET Txns : ImportStep(c, ids)
      BY <2>3, StepKinds DEF SoloInv, TrailInv
    <3>2. ReadStep => Stays(t)
      BY DEF ReadStep, Stays, Kept
    <3>3. WriteStep => Stays(t) \/ \E b : Born(t, b)
      BY DEF WriteStep
    <3>4. ASSUME NEW c \in Clients, NEW ids \in SUBSET Txns, ImportStep(c, ids)
          PROVE Stays(t) \/ \E b : Born(t, b)
      BY <3>4 DEF ImportStep, Stays
    <3>5. Stays(t) \/ \E b : Born(t, b)
      BY <3>1, <3>2, <3>3, <3>4
    <3> QED BY <2>1, <3>5, MatchStep
  <2> QED BY <2>2, <2>3
<1>3. All => HistoryMatchesLedger
  BY DEF Matches, HistoryMatchesLedger, Live
<1> HIDE DEF All
<1> QED BY <1>1, <1>2, <1>3, SoloHolds, PTL DEF Spec

LEMMA MarksStand ==
  ASSUME SoloInv, MarksInv, Next
  PROVE CompletedEntriesStand
<1> SUFFICES ASSUME NEW r \in LiveRecs, r \in LiveRecs',
                    recs[r].status = "completed", recs'[r].status = "completed"
             PROVE /\ \A e \in entries' \ entries : e.rec # r
                   /\ \A e \in entries \ entries' : e.rec = r => e.txn \notin Live'
  BY DEF CompletedEntriesStand
<1>0. TypeOK /\ \A e \in entries : e.txn \in Live /\ e.rec \in LiveRecs /\ e.account = recs[e.rec].account
  BY DEF MarksInv, MarksRefer
<1>1. CASE entries' = entries
  BY <1>1
<1>2. CASE entries' # entries
  <2>1. PICK c \in Clients :
          \/ CommitDelete(c)
          \/ CommitEntries(c)
          \/ CommitComplete(c)
          \/ \E s \in Recs, a \in Accounts, date \in Dates, balance \in Statements :
               CreateReconciliation(c, s, a, date, balance)
          \/ \E s \in Recs : ReopenReconciliation(c, s)
          \/ \E s \in Recs : DeleteReconciliation(c, s)
          \/ \E a \in Accounts : DeleteAccount(c, a)
    BY <1>2, MarkWriters
  <2>2. CASE CommitDelete(c)
    <3>1. /\ entries' = {e \in entries : e.txn \notin proc[c].ids}
          /\ txns' = Removed(proc[c].ids)
      BY <2>2, Zenon DEF CommitDelete
    <3>2. \A e \in entries : e.txn \in proc[c].ids => txns'[e.txn] = Gone
      BY <1>0, <3>1 DEF Removed, Live
    <3> QED BY <3>1, <3>2 DEF Live
  <2>3. CASE CommitEntries(c)
    <3>1. /\ proc[c].op = "entries"
          /\ entries' = (entries \cup proc[c].adds) \ proc[c].dels
      BY <2>3 DEF CommitEntries
    <3>2. recs[proc[c].rec].status = "open"
      BY <3>1 DEF SoloInv, Checked, IsOpen
    <3>3. \A e \in proc[c].adds \cup proc[c].dels : e.rec = proc[c].rec
      BY <3>1 DEF MarksInv, PendingMarks
    <3> QED BY <3>1, <3>2, <3>3
  <2>4. CASE \/ CommitComplete(c)
             \/ \E s \in Recs, a \in Accounts, date \in Dates, balance \in Statements :
                  CreateReconciliation(c, s, a, date, balance)
             \/ \E s \in Recs : ReopenReconciliation(c, s)
    BY <1>2, <2>4 DEF CommitComplete, CreateReconciliation, ReopenReconciliation
  <2>5. CASE \E s \in Recs : DeleteReconciliation(c, s)
    <3>1. PICK s \in Recs : /\ recs' = [recs EXCEPT ![s] = Gone]
                            /\ entries' = {e \in entries : e.rec # s}
      BY <2>5 DEF DeleteReconciliation
    <3>2. s # r
      BY <1>0, <3>1 DEF LiveRecs, TypeOK
    <3> QED BY <3>1, <3>2
  <2>6. CASE \E a \in Accounts : DeleteAccount(c, a)
    <3>1. PICK a \in Accounts : DeleteAccount(c, a)
      BY <2>6
    <3> DEFINE doomed == {t \in Live : a \in AccountsOf(txns[t])}
               doomedRecs == {s \in LiveRecs : recs[s].account = a}
    <3>2. /\ recs' = [s \in Recs |-> IF s \in doomedRecs THEN Gone ELSE recs[s]]
          /\ entries' = {e \in entries : e.account # a /\ e.txn \notin doomed}
          /\ txns' = Removed(doomed)
      BY <3>1, Zenon DEF DeleteAccount
    <3>3. r \notin doomedRecs
      <4>1. r \in Recs
        BY DEF LiveRecs
      <4> HIDE DEF doomedRecs
      <4> QED BY <3>2, <4>1 DEF LiveRecs
    <3>4. \A e \in entries : e.rec = r => e.account # a
      BY <1>0, <3>3
    <3>5. \A e \in entries : e.txn \in doomed => txns'[e.txn] = Gone
      BY <1>0, <3>2 DEF Removed, Live
    <3> HIDE DEF doomed, doomedRecs
    <3> QED BY <3>2, <3>4, <3>5 DEF Live
  <2> QED BY <2>1, <2>2, <2>3, <2>4, <2>5, <2>6
<1> QED BY <1>1, <1>2

LEMMA FrozenLegs ==
  ASSUME SoloInv, NEW t \in Live, HasEntry(t), Stays(t)
  PROVE \/ t \in Live' /\ OnlyText(txns[t], txns'[t])
        \/ t \notin Live' /\ history'[t] # Append(history[t], [op |-> "delete"])
<1>0. TypeOK /\ t \in Txns /\ txns[t] \in Row /\ history[t] \in Seq(HistoryRow)
  BY LiveRow DEF SoloInv, TrailInv, TypeOK
<1>1. CASE Kept(t)
  <2>1. OnlyText(txns[t], txns[t])
    BY <1>0 DEF OnlyText, Row, TxnShape
  <2> QED BY <1>1, <2>1 DEF Kept, Live
<1>2. CASE Edited(t)
  <2>1. PICK h : EditedAs(t, h)
    BY <1>2 DEF Edited
  <2>2. PICK c \in Clients : proc[c].op = "update" /\ t \in proc[c].ids /\ h.after = proc[c].new[t]
    BY <2>1 DEF EditedAs
  <2>3. OnlyText(txns[t], proc[c].new[t])
    BY <2>2 DEF SoloInv, Checked, Guarded
  <2>4. txns'[t] = proc[c].new[t]
    BY <1>0, <2>1, <2>2, EditIsNew
  <2>5. proc[c].new[t] \in Row
    BY <1>0, <2>2 DEF TypeOK
  <2> QED BY <1>0, <2>3, <2>4, <2>5, MarkersAssumption DEF Live
<1>3. CASE Dropped(t)
  <2>1. PICK h : DroppedAs(t, h)
    BY <1>3 DEF Dropped
  <2>2. PICK c \in Clients : proc[c].op = h.op /\ t \in proc[c].ids
    BY <2>1 DEF DroppedAs
  <2>3. h.op = "undo"
    BY <2>1, <2>2 DEF DroppedAs, SoloInv, Checked
  <2>4. h \in HistoryRow /\ history'[t] = Append(history[t], h)
    BY <2>1 DEF DroppedAs
  <2>5. [op |-> "delete"] \in HistoryRow
    BY DEF HistoryRow
  <2>6. history'[t][Len(history[t]) + 1] = h
    BY <1>0, <2>4
  <2>7. Append(history[t], [op |-> "delete"])[Len(history[t]) + 1] = [op |-> "delete"]
    BY <1>0, <2>5
  <2>8. h # [op |-> "delete"]
    BY <2>3
  <2>9. t \notin Live'
    BY <1>3 DEF Dropped, Live
  <2> QED BY <2>6, <2>7, <2>8, <2>9
<1>4. CASE Cascaded(t)
  <2>1. history'[t] = history[t] /\ t \notin Live'
    BY <1>4 DEF Cascaded, Live
  <2>2. [op |-> "delete"] \in HistoryRow
    BY DEF HistoryRow
  <2>3. Len(Append(history[t], [op |-> "delete"])) = Len(history[t]) + 1 /\ Len(history[t]) \in Nat
    BY <1>0, <2>2
  <2> QED BY <2>1, <2>3
<1>5. CASE Refiled(t)
  <2>1. OnlyText(txns[t], txns'[t]) /\ txns'[t] \in Row
    BY <1>5, RefiledRow DEF Refiled
  <2> QED BY <1>0, <2>1, MarkersAssumption DEF Live
<1> QED BY <1>1, <1>2, <1>3, <1>4, <1>5 DEF Stays

\* When requests do not overlap, what was reconciled stands, for any number
\* of rows: the marks of a completed reconciliation stay until it is
\* reopened or deleted or a transaction under them is deleted, and while a
\* leg is marked no step moves its money, its date or its accounts or
\* deletes it, except an undone import and the deletion of an account
\* (reconciliation.completed, transaction.reconciled).
THEOREM ReconciledIsFrozen ==
  ASSUME \A c, d \in Clients : c = d
  PROVE Spec => ReconciledStands
<1>1. ASSUME SoloInv, MarksInv, Next PROVE CompletedEntriesStand /\ ClearedLegsFrozen
  <2>1. CompletedEntriesStand
    BY <1>1, MarksStand
  <2>2. ASSUME NEW t \in Live PROVE Stays(t)
    <3>1. t \in Txns /\ txns[t] # Unborn
      BY DEF Live
    <3>2. ReadStep \/ WriteStep \/ \E c \in Clients, ids \in SUBSET Txns : ImportStep(c, ids)
      BY <1>1, StepKinds DEF SoloInv, TrailInv
    <3>3. ReadStep => Stays(t)
      BY DEF ReadStep, Stays, Kept
    <3>4. WriteStep => Stays(t)
      BY <3>1 DEF WriteStep, Born
    <3>5. ASSUME NEW c \in Clients, NEW ids \in SUBSET Txns, ImportStep(c, ids) PROVE Stays(t)
      BY <3>1, <3>5 DEF ImportStep, Stays, Born
    <3> QED BY <3>2, <3>3, <3>4, <3>5
  <2>3. ClearedLegsFrozen
    BY <1>1, <2>2, FrozenLegs DEF ClearedLegsFrozen
  <2> QED BY <2>1, <2>3
<1>2. SoloInv /\ MarksInv /\ [Next]_vars => [CompletedEntriesStand /\ ClearedLegsFrozen]_vars
  BY <1>1
<1>3. Spec => [][CompletedEntriesStand /\ ClearedLegsFrozen]_vars
  BY <1>2, SoloHolds, MarksHold, PTL DEF Spec
<1> QED BY <1>3 DEF ReconciledStands
=============================================================================
