-------------------------------- MODULE Backups --------------------------------
(***************************************************************************)
(* Export, preview and restore of one user's data (services/backups.py).   *)
(*                                                                         *)
(* An export reads one table after another, each as it is committed at     *)
(* that moment.  A restore locks the row of its user, deletes the tables   *)
(* in the reverse of the registry's order and inserts the rows of the      *)
(* archive under new ids, all in one transaction; a preview does the same  *)
(* and rolls back.  Meanwhile the user goes on writing: an insert of any   *)
(* row the user owns shares the lock of the user's row until it commits.   *)
(*                                                                         *)
(* A row is its table and the row it refers to; its other contents travel  *)
(* through the archive unread.                                             *)
(***************************************************************************)
EXTENDS Naturals, Sequences, FiniteSets, SequencesExt

CONSTANTS
  Groups,          \* sets of tables, one of which a behaviour is about
  MaxId,           \* bound: ids, which are random and hence in no order
  MaxEdits,        \* bound: transactions of the user
  Handlers,        \* requests in progress at one time
  MaxBackupRequests   \* bound: requests in all

(* Mutant: the transactions come last, after what settles them. *)
TransactionsLast ==
  << "institutions", "accounts", "category_groups", "categories",
     "categorization_rules", "budgets", "budget_allocations",
     "expected_income", "recurring_rules", "loans", "goals", "manual_rates",
     "reconciliations", "reconciliation_entries", "investment_wallets",
     "investment_assets", "investment_transactions", "transactions" >>

BACKUP_TABLES ==
  << "institutions", "accounts", "category_groups", "categories",
     "categorization_rules", "budgets", "budget_allocations",
     "expected_income", "recurring_rules", "loans", "goals", "manual_rates",
     "transactions", "reconciliations", "reconciliation_entries",
     "investment_wallets", "investment_assets", "investment_transactions" >>

(* The tables of the registry that the foreign keys of a table lead to. *)
References(t) ==
  CASE t = "accounts" -> {"institutions", "accounts"}
    [] t \in {"categories", "budgets", "budget_allocations"} -> {"category_groups"}
    [] t = "categorization_rules" -> {"categories"}
    [] t \in {"recurring_rules", "loans"} -> {"accounts", "categories"}
    [] t \in {"goals", "reconciliations"} -> {"accounts"}
    [] t = "transactions" -> {"accounts", "categories", "recurring_rules", "loans"}
    [] t = "reconciliation_entries" -> {"reconciliations", "transactions", "accounts"}
    [] t = "investment_wallets" -> {"accounts", "institutions"}
    [] t = "investment_transactions" ->
         {"investment_wallets", "investment_assets", "transactions"}
    [] OTHER -> {}

ASSUME BackupAssumption ==
  /\ Groups # {} /\ \A g \in Groups : g # {} /\ g \subseteq ToSet(BACKUP_TABLES)
  /\ {MaxId, MaxEdits, MaxBackupRequests} \subseteq Nat

Ids == 1 .. MaxId
NoId == 0                \* a foreign key that is NULL
Themes == {"light", "dark"}   \* stands for the supported preferences

VARIABLES
  group,           \* the tables this behaviour is about
  rows,            \* the user's rows, as committed
  theme,           \* the user's preference, as committed
  entered,         \* rows a transaction of the user has inserted so far
  files,           \* archives the user has downloaded
  request,         \* what each handler is doing
  verdicts,        \* history: archives with the answer to a preview or restore
  edits, served    \* transactions and requests so far

dataVars == <<rows, theme, entered, edits>>
backupVars == <<group, rows, theme, entered, files, request, verdicts, edits,
                served>>

RowOf(i, t, ref) == [id |-> i, table |-> t, ref |-> ref]
IdsOf(R) == {r.id : r \in R}
Named(R, t) == {r \in R : r.table = t}

(* The positions in the registry of the tables that this behaviour has     *)
(* rows of, the first of them from n on, upwards and downwards, and        *)
(* whether i is the last of them on the way.                               *)
Positions == {i \in 1 .. Len(BACKUP_TABLES) : BACKUP_TABLES[i] \in group}
From(n) == {i \in Positions : i >= n /\ \A j \in Positions : j >= n => i <= j}
Back(n) == {i \in Positions : i <= n /\ \A j \in Positions : j <= n => j <= i}
IsLast(i) == \A j \in Positions : j <= i
IsFirst(i) == \A j \in Positions : i <= j

Archive == [rows : SUBSET [id : Ids, table : ToSet(BACKUP_TABLES), ref : Ids \cup {NoId}],
            theme : Themes, quiet : BOOLEAN]

EmptyArchive == [rows |-> {}, theme |-> "light", quiet |-> TRUE]

NoWork ==
  [at |-> "idle", next |-> 0, archive |-> EmptyArchive, keep |-> FALSE,
   loaded |-> "light", gone |-> {}, ids |-> <<>>, made |-> {}]

Begun(h, r) == request' = [request EXCEPT ![h] = r]

(* A foreign key holds among the rows R. *)
Holds(r, R) ==
  \/ r.ref = NoId
  \/ \E p \in R : /\ p.id = r.ref /\ p.id # r.id
                  /\ p.table \in References(r.table)

(* At most two rows with distinct ids, as the services leave them. *)
PossibleRows(g) ==
  LET Some == {RowOf(i, t, ref) : i \in 1 .. 2, t \in g, ref \in {1, 2, NoId}}
  IN  {R \in {{}} \cup {{r, s} : r, s \in Some} :
         /\ \A r, s \in R : r.id = s.id => r = s
         /\ \A r \in R : Holds(r, R)}

BackupInit ==
  /\ group \in Groups
  /\ rows \in PossibleRows(group)
  /\ theme = "light"
  /\ entered = {}
  /\ files = {}
  /\ request = [h \in Handlers |-> NoWork]
  /\ verdicts = {}
  /\ edits = 0 /\ served = 0

(***************************************************************************)
(* Locks.  Whoever replaces the data holds the row of the user from the    *)
(* SELECT ... FOR UPDATE to the end of its transaction or savepoint; the   *)
(* foreign key user_id makes every insert share that row.                  *)
(***************************************************************************)
Replaces(h) == request[h].at \in {"delete", "insert", "done"}

UserLocked == \E h \in Handlers : Replaces(h)
Gone == UNION {request[h].gone : h \in Handlers}

(* Ids nobody has used: uuid4. *)
Mentioned(R) == IdsOf(R) \cup {r.ref : r \in R}
Reserved(h) == {request[h].ids[i] : i \in DOMAIN request[h].ids}

FreshIds ==
  {i \in Ids :
     /\ i \notin IdsOf(rows \cup entered)
     /\ \A f \in files : i \notin Mentioned(f.rows)
     /\ \A h \in Handlers : i \notin Mentioned(request[h].archive.rows) \cup Reserved(h)}

(* What is committed changes under the exports in progress. *)
Disturbed ==
  [h \in Handlers |->
     IF request[h].at = "export" THEN [request[h] EXCEPT !.archive.quiet = FALSE]
                                 ELSE request[h]]

(***************************************************************************)
(* The user's other requests.                                              *)
(***************************************************************************)
Insert ==
  /\ edits < MaxEdits \/ entered # {}
  /\ Cardinality(entered) < 2
  /\ ~UserLocked
  /\ \E t \in group : \E ref \in {NoId} \cup IdsOf(rows \cup entered) :
       LET r == RowOf(CHOOSE i \in FreshIds : TRUE, t, ref) IN
       /\ FreshIds # {}
       /\ Holds(r, rows \cup entered)
       /\ entered' = entered \cup {r}
  /\ edits' = IF entered = {} THEN edits + 1 ELSE edits
  /\ UNCHANGED <<group, rows, theme, files, request, verdicts, served>>

RollBackInserts ==
  /\ entered # {}
  /\ entered' = {}
  /\ UNCHANGED <<group, rows, theme, files, request, verdicts, edits, served>>

CommitInserts ==
  /\ entered # {}
  /\ rows' = rows \cup entered
  /\ entered' = {}
  /\ request' = Disturbed
  /\ UNCHANGED <<group, theme, files, verdicts, edits, served>>

(* A row that a restore has deleted keeps its writers waiting. *)
DeleteRow(r) ==
  /\ edits < MaxEdits
  /\ r \notin Gone
  /\ \A s \in rows \cup entered : s.ref # r.id
  /\ rows' = rows \ {r}
  /\ edits' = edits + 1
  /\ request' = Disturbed
  /\ UNCHANGED <<group, theme, entered, files, verdicts, served>>

Repoint(r) ==
  /\ edits < MaxEdits
  /\ r \notin Gone
  /\ \E ref \in {NoId} \cup IdsOf(rows \ Gone) :
       LET s == [r EXCEPT !.ref = ref] IN
       /\ ref # r.ref
       /\ Holds(s, rows)
       /\ rows' = (rows \ {r}) \cup {s}
  /\ edits' = edits + 1
  /\ request' = Disturbed
  /\ UNCHANGED <<group, theme, entered, files, verdicts, served>>

ChangeTheme ==
  /\ edits < MaxEdits
  /\ ~UserLocked
  /\ theme' \in Themes \ {theme}
  /\ edits' = edits + 1
  /\ request' = Disturbed
  /\ UNCHANGED <<group, rows, entered, files, verdicts, served>>

(***************************************************************************)
(* export_backup: one SELECT per table, then the preferences of the user   *)
(* as the request loaded it.                                               *)
(***************************************************************************)
StartExport(h) ==
  /\ request[h].at = "idle" /\ served < MaxBackupRequests
  /\ served' = served + 1
  /\ Begun(h, [NoWork EXCEPT !.at = "export", !.next = 1, !.archive.theme = theme])
  /\ UNCHANGED <<group, dataVars, files, verdicts>>

ReadTable(h) ==
  LET q == request[h] IN
  /\ q.at = "export"
  /\ \E i \in From(q.next) :
       Begun(h, [q EXCEPT !.next = i + 1,
                          !.archive.rows = @ \cup Named(rows, BACKUP_TABLES[i])])
  /\ UNCHANGED <<group, dataVars, files, verdicts, served>>

Download(h) ==
  /\ request[h].at = "export" /\ IsLast(request[h].next - 1)
  /\ files' = files \cup {request[h].archive}
  /\ Begun(h, NoWork)
  /\ UNCHANGED <<group, dataVars, verdicts, served>>

(***************************************************************************)
(* preview_backup and restore_backup.  The dependency that authenticates   *)
(* the request has loaded the user before the lock is taken.               *)
(***************************************************************************)
(* _id_maps, in any order relative to each other. *)
NewIds(R) ==
  LET new == {i \in FreshIds : Cardinality({j \in FreshIds : j < i}) < Cardinality(R)}
  IN  {m \in [IdsOf(R) -> new] : \A i, j \in IdsOf(R) : m[i] = m[j] => i = j}

StartReplace(h, keep) ==
  /\ request[h].at = "idle" /\ served < MaxBackupRequests
  /\ served' = served + 1
  /\ \E f \in files : \E m \in NewIds(f.rows) :
       Begun(h, [NoWork EXCEPT !.at = "lock", !.keep = keep, !.archive = f,
                             !.loaded = theme, !.ids = m])
  /\ UNCHANGED <<group, dataVars, files, verdicts>>

LockUser(h) ==
  /\ request[h].at = "lock"
  /\ ~UserLocked /\ entered = {}
  /\ Begun(h, [request[h] EXCEPT !.at = "delete", !.next = Len(BACKUP_TABLES)])
  /\ UNCHANGED <<group, dataVars, files, verdicts, served>>

(* The rollback and the answer data_incompatible. *)
Refuse(h) ==
  /\ verdicts' = verdicts \cup {<<request[h].archive, "refused">>}
  /\ Begun(h, NoWork)

(* ON DELETE RESTRICT: nobody may refer to a row that goes. *)
DeleteTable(h) ==
  LET q == request[h]
      out(i) == q.gone \cup Named(rows, BACKUP_TABLES[i])
  IN
  /\ q.at = "delete"
  /\ \E i \in Back(q.next) :
       IF \A r \in rows \ out(i) : r.ref \notin IdsOf(out(i))
       THEN /\ Begun(h, IF IsFirst(i)
                        THEN [q EXCEPT !.at = "insert", !.next = 1, !.gone = out(i)]
                        ELSE [q EXCEPT !.next = i - 1, !.gone = out(i)])
            /\ UNCHANGED verdicts
       ELSE Refuse(h)
  /\ UNCHANGED <<group, dataVars, files, served>>

NewRef(q, ref) == IF ref = NoId THEN NoId ELSE q.ids[ref]
Renamed(q, r) == RowOf(q.ids[r.id], r.table, NewRef(q, r.ref))

(* _replace finds the new id of what a row refers to. *)
Mapped(q, r) == r.ref \in {NoId} \cup DOMAIN q.ids

(***************************************************************************)
(* A flush inserts the rows of a table one by one in the order they were   *)
(* added, the order of their old ids, and a foreign key is checked at each *)
(* of them: what a row refers to is inserted already.                      *)
(***************************************************************************)
InsertedBefore(q, r) ==
  \/ r.ref = NoId
  \/ NewRef(q, r.ref) \in IdsOf(q.made)
  \/ \E p \in q.archive.rows : p.table = r.table /\ p.id = r.ref /\ p.id < r.id

InsertTable(h) ==
  LET q == request[h]
      new(i) == Named(q.archive.rows, BACKUP_TABLES[i])
  IN
  /\ q.at = "insert"
  /\ \E i \in From(q.next) :
       IF \A r \in new(i) : Mapped(q, r) /\ InsertedBefore(q, r)
       THEN /\ Begun(h, [q EXCEPT !.next = i + 1,
                                  !.made = @ \cup {Renamed(q, r) : r \in new(i)},
                                  !.at = IF IsLast(i) THEN "done" ELSE "insert"])
            /\ UNCHANGED verdicts
       ELSE Refuse(h)
  /\ UNCHANGED <<group, dataVars, files, served>>

Accept(h) ==
  /\ verdicts' = verdicts \cup {<<request[h].archive, "accepted">>}
  /\ Begun(h, NoWork)

(* Mutant: the savepoint is released. *)
EndPreviewKept(h) ==
  LET q == request[h] IN
  /\ q.at = "done" /\ ~q.keep
  /\ rows' = (rows \ q.gone) \cup q.made
  /\ verdicts' = verdicts \cup {<<q.archive, "accepted">>}
  /\ request' = [Disturbed EXCEPT ![h] = NoWork]
  /\ UNCHANGED <<group, theme, entered, files, edits, served>>

(* The savepoint is rolled back. *)
EndPreview(h) ==
  /\ request[h].at = "done" /\ ~request[h].keep
  /\ Accept(h)
  /\ UNCHANGED <<group, dataVars, files, served>>

(* The session writes a preference only if it differs from the loaded one. *)
CommitRestore(h) ==
  LET q == request[h] IN
  /\ q.at = "done" /\ q.keep
  /\ rows' = (rows \ q.gone) \cup q.made
  /\ theme' = IF q.archive.theme # q.loaded THEN q.archive.theme ELSE theme
  /\ verdicts' = verdicts \cup {<<q.archive, "accepted">>}
  /\ request' = [Disturbed EXCEPT ![h] = NoWork]
  /\ UNCHANGED <<group, entered, files, edits, served>>

(* The process is killed or the connection lost: PostgreSQL rolls back. *)
Lost(h) ==
  /\ request[h].at # "idle"
  /\ Begun(h, NoWork)
  /\ UNCHANGED <<group, dataVars, files, verdicts, served>>

BackupStep(h) ==
  \/ StartExport(h)
  \/ ReadTable(h)
  \/ Download(h)
  \/ \E keep \in BOOLEAN : StartReplace(h, keep)
  \/ LockUser(h)
  \/ DeleteTable(h)
  \/ InsertTable(h)
  \/ EndPreview(h)
  \/ CommitRestore(h)
  \/ Lost(h)

BackupNext ==
  \/ Insert
  \/ CommitInserts
  \/ RollBackInserts
  \/ \E r \in rows : DeleteRow(r) \/ Repoint(r)
  \/ ChangeTheme
  \/ \E h \in Handlers : BackupStep(h)

BackupSpec == BackupInit /\ [][BackupNext]_backupVars

(***************************************************************************)
(* Properties                                                              *)
(***************************************************************************)
(* A row that sorts before the row of its own table it refers to. *)
RefersAhead(f) ==
  \E r, p \in f.rows : r.table = p.table /\ r.ref = p.id /\ r.id < p.id

(* When a restore commits, the user has the rows of the archive under new  *)
(* ids with the same references among them, and no other: what was entered *)
(* while it ran is neither mixed in nor half deleted.  The preferences are *)
(* the archive's, unless they were changed after the request had loaded    *)
(* the user.  A preview leaves no trace (restore_backup, _replace,         *)
(* preview_backup).                                                        *)
RestoreIsExact ==
  [][ \A h \in Handlers :
        LET q == request[h] IN
        (q.at = "done" /\ request'[h].at = "idle" /\ <<rows, theme>>' # <<rows, theme>>) =>
          /\ q.keep
          /\ rows' = {Renamed(q, r) : r \in q.archive.rows}
          /\ q.loaded = theme => theme' = q.archive.theme ]_backupVars

(* What a preview or a restore answers about an archive does not depend on *)
(* when it is asked or on the data it would replace: an archive that was   *)
(* previewed without an error is not refused when it is restored.          *)
OneVerdict ==
  \A f \in files : ~ {<<f, "accepted">>, <<f, "refused">>} \subseteq verdicts

(* An archive read while nothing was written is accepted, whatever tables  *)
(* it has rows of, as long as no card sorts before the account that pays   *)
(* it (BACKUP_TABLES, "Dependency order for inserts").                     *)
QuietIsAccepted ==
  \A f \in files : <<f, "refused">> \in verdicts => ~f.quiet \/ RefersAhead(f)

(* The answer is a fact about the archive, and a good one for an archive   *)
(* that nothing disturbed (preview_backup, restore_backup).                *)
VerdictsAreSound == OneVerdict /\ QuietIsAccepted
================================================================================
