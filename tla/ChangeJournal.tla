----------------------------- MODULE ChangeJournal -----------------------------
(***************************************************************************)
(* The journal of the assistant's writes and their undo                    *)
(* (services/change_journal.py, the trigger of models/change_journal.py).  *)
(*                                                                         *)
(* A write of a tool call is journaled in the transaction that makes it.   *)
(* undo replays the entries of one call backwards in one transaction; it   *)
(* reads a row, compares it with what the call left, and writes it in a    *)
(* second statement.  Once it has written a row it holds it, and another   *)
(* writer waits.                                                           *)
(***************************************************************************)
EXTENDS Naturals, Sequences, FiniteSets, SequencesExt

CONSTANTS
  Records,         \* ids of rows of the journaled tables
  Parent,          \* the row whose deletion cascades to a row, or NoRecord
  NoRecord,
  ToolCalls,       \* agent_call_id
  MaxValue,        \* bound: contents of a row
  Compared,        \* contents -> what _matches compares of them
  InitialTables,   \* the rows there may be at the beginning
  MaxWrites        \* bound: writes of the assistant and of the user

ASSUME JournalAssumption ==
  /\ NoRecord \notin Records
  /\ Parent \in [Records -> Records \cup {NoRecord}]
  /\ \A r \in Records : Parent[r] \in Records => Parent[Parent[r]] = NoRecord
  /\ IsFiniteSet(Records)
  /\ MaxValue \in Nat \ {0} /\ MaxWrites \in Nat
  /\ \A v \in 1 .. MaxValue : Compared[v] # Compared[0]
  /\ InitialTables \subseteq [Records -> 0 .. MaxValue]
  /\ \A t \in InitialTables, r \in Records :
       Parent[r] \in Records /\ t[r] # 0 => t[Parent[r]] # 0

VARIABLES
  initial,         \* history: the rows at the beginning
  table,           \* row id -> contents, 0 when there is no row
  born,            \* ids that have been given out
  journal,         \* change_journal by seq
  undo,            \* the undo in progress
  writes,          \* writes so far
  edited,          \* history: has a user written?
  raced            \* history: was a row written between undo's read and write?

journalVars == <<initial, table, born, journal, undo, writes, edited, raced>>

(* ChangeJournal *)
Entry ==
  [call : ToolCalls, row : Records, op : {"insert", "update", "delete"},
   before : 0 .. MaxValue, after : 0 .. MaxValue, undone : BOOLEAN]

Undo ==
  [at : {"none", "read", "write"}, of : SUBSET Nat, todo : SUBSET Nat,
   deferred : SUBSET Nat, pass : Nat, blocked : SUBSET Records,
   effects : SUBSET (Records \X {"insert", "update", "delete"}),
   held : SUBSET Records, saved : [Records -> 0 .. MaxValue]]

NoUndo ==
  [at |-> "none", of |-> {}, todo |-> {},
   deferred |-> {}, pass |-> 0, blocked |-> {}, effects |-> {}, held |-> {},
   saved |-> [r \in Records |-> 0]]

JournalInit ==
  /\ initial \in InitialTables
  /\ table = initial
  /\ born = {r \in Records : initial[r] # 0}
  /\ journal = <<>>
  /\ undo = NoUndo
  /\ writes = 0
  /\ edited = FALSE
  /\ raced = FALSE

Children(r) == {k \in Records : Parent[k] = r /\ table[k] # 0}
HasParent(r) == Parent[r] \in {NoRecord} \cup {p \in Records : table[p] # 0}

(* The row and those a foreign key ties to it, none of which the undo holds. *)
Free(r) ==
  \A x \in {r, Parent[r]} \cup {k \in Records : Parent[k] = r} :
    x \notin undo.held

(* The entry an undo is at: they are replayed newest first. *)
NextEntry == journal[Max(undo.todo)]

--------------------------------------------------------------------------------
(* Writes. *)

(* One row of a statement, as the trigger sees it. *)
Change(c, r, op, value) ==
  [call |-> c, row |-> r, op |-> op, before |-> table[r], after |-> value,
   undone |-> FALSE]

(* What the foreign keys add to a statement. *)
Cascade(c, r, op) ==
  IF op = "delete" THEN {Change(c, k, "delete", 0) : k \in Children(r)} ELSE {}

(* A cascade is journaled before or after the row it starts from. *)
Journaled(own, cascade) ==
  UNION {{<<own>> \o s, s \o <<own>>} : s \in SetToSeqs(cascade)}

Applied(t, changes) ==
  [r \in Records |->
     IF \E e \in changes : e.row = r
     THEN (CHOOSE e \in changes : e.row = r).after ELSE t[r]]

Writes(c, r, op, value, agent) ==
  LET own == Change(c, r, op, value)
      cascade == Cascade(c, r, op) IN
  /\ writes < MaxWrites
  /\ writes' = writes + 1
  /\ Free(r)
  /\ CASE op = "insert" -> r \notin born /\ HasParent(r) /\ value # 0
       [] op = "update" -> table[r] # 0 /\ value \notin {0, table[r]}
       [] op = "delete" -> table[r] # 0 /\ value = 0
  /\ born' = born \cup {r}
  /\ table' = Applied(table, {own} \cup cascade)
  /\ IF agent THEN \E es \in Journaled(own, cascade) : journal' = journal \o es
              ELSE journal' = journal
  /\ raced' = (raced \/ /\ undo.at = "write"
                        /\ \E e \in {own} \cup cascade : e.row = NextEntry.row)
  /\ edited' = (edited \/ ~agent)
  /\ UNCHANGED <<initial, undo>>

(* A write inside journaling(): the tag is set for every transaction the    *)
(* session opens.                                                           *)
AgentWrites(c, r, op, value) == Writes(c, r, op, value, TRUE)

(* A write without a tag. *)
UserWrites(r, op, value) ==
  Writes(CHOOSE c \in ToolCalls : TRUE, r, op, value, FALSE)

--------------------------------------------------------------------------------
(* Undo. *)

OfCall(c) == {i \in DOMAIN journal : journal[i].call = c /\ ~journal[i].undone}

(* The entries that are not undone. *)
BeginUndo(c) ==
  /\ undo.at = "none"
  /\ OfCall(c) # {}
  /\ undo' = [NoUndo EXCEPT !.at = "read", !.of = OfCall(c), !.todo = OfCall(c),
                            !.pass = Cardinality(OfCall(c))]
  /\ UNCHANGED <<initial, table, born, journal, writes, edited, raced>>

(* The refusal rolls everything back. *)
RollBack ==
  /\ table' = [r \in Records |->
                 IF r \in undo.held THEN undo.saved[r] ELSE table[r]]
  /\ undo' = NoUndo
  /\ UNCHANGED <<initial, born, journal, writes, edited, raced>>

(* mutant: a row that is gone counts as reverted *)
UntouchedOrGone(e) ==
  Compared[table[e.row]] \in {Compared[0], Compared[e.after]}

(* _revert reads the row; it must be as the call left it, in the columns    *)
(* that _matches compares: those of the conversion rate and updated_at move *)
(* without anybody's edit.                                                  *)
Untouched(e) == Compared[table[e.row]] = Compared[e.after]

ReadRow ==
  /\ undo.at = "read"
  /\ undo.todo # {}
  /\ NextEntry.row \notin undo.blocked
  /\ Untouched(NextEntry)
  /\ undo' = [undo EXCEPT !.at = "write"]
  /\ UNCHANGED <<initial, table, born, journal, writes, edited, raced>>

(* _modified *)
RefuseModified ==
  /\ undo.at = "read"
  /\ undo.todo # {}
  /\ NextEntry.row \notin undo.blocked
  /\ ~Untouched(NextEntry)
  /\ RollBack

(* assert_not_reconciled refuses to change a reconciled transaction back. *)
RefuseReconciled ==
  /\ undo.at = "write"
  /\ NextEntry.op = "update"
  /\ RollBack

(* _replay: a row whose earlier entry waits for a parent waits too. *)
DeferBlocked ==
  /\ undo.at = "read"
  /\ undo.todo # {}
  /\ NextEntry.row \in undo.blocked
  /\ undo' = [undo EXCEPT !.todo = undo.todo \ {Max(undo.todo)},
                          !.deferred = undo.deferred \cup {Max(undo.todo)}]
  /\ UNCHANGED <<initial, table, born, journal, writes, edited, raced>>

(* The foreign key refuses the insertion under a missing parent. *)
DeferOrphan ==
  /\ undo.at = "write"
  /\ NextEntry.op = "delete"
  /\ ~HasParent(NextEntry.row)
  /\ undo' = [undo EXCEPT !.at = "read", !.todo = undo.todo \ {Max(undo.todo)},
                !.deferred = undo.deferred \cup {Max(undo.todo)},
                !.blocked = undo.blocked \cup {NextEntry.row}]
  /\ UNCHANGED <<initial, table, born, journal, writes, edited, raced>>

InverseOperation == [insert |-> "delete", update |-> "update", delete |-> "insert"]

(* The rows the inverse of an entry changes: deleting takes the children    *)
(* along, and a row that is gone by now is not found.                       *)
InverseChanges ==
  LET e == NextEntry
      cascade == IF e.op = "insert" THEN Children(e.row) ELSE {} IN
  IF table[e.row] = 0 /\ e.op # "delete" THEN {}
  ELSE {[row |-> e.row, op |-> InverseOperation[e.op], after |-> e.before]}
         \cup {[row |-> k, op |-> "delete", after |-> 0] : k \in cascade}

WriteRow ==
  LET changes == InverseChanges
      rows == {e.row : e \in changes} IN
  /\ undo.at = "write"
  /\ NextEntry.op = "delete" => HasParent(NextEntry.row) /\ table[NextEntry.row] = 0
  /\ table' = Applied(table, changes)
  /\ undo' = [undo EXCEPT
       !.at = "read", !.todo = undo.todo \ {Max(undo.todo)},
       !.held = undo.held \cup rows,
       !.saved = [r \in Records |-> IF r \in rows \ undo.held
                                    THEN table[r] ELSE undo.saved[r]],
       !.effects = undo.effects \cup {<<e.row, e.op>> : e \in changes}]
  /\ UNCHANGED <<initial, born, journal, writes, edited, raced>>

(* The deferred entries get another pass, unless the last made no progress. *)
PassAgain ==
  /\ undo.at = "read"
  /\ undo.todo = {}
  /\ undo.deferred # {}
  /\ Cardinality(undo.deferred) < undo.pass
  /\ undo' = [undo EXCEPT !.todo = undo.deferred, !.deferred = {},
                          !.pass = Cardinality(undo.deferred), !.blocked = {}]
  /\ UNCHANGED <<initial, table, born, journal, writes, edited, raced>>

RefuseOrphans ==
  /\ undo.at = "read"
  /\ undo.todo = {}
  /\ undo.deferred # {}
  /\ Cardinality(undo.deferred) = undo.pass
  /\ RollBack

(* mutant: side effects are not looked for *)
OnlyExpectedAlways(effects) == TRUE

(* What the database did on its own while reversing must be what the call   *)
(* had done.                                                                *)
OnlyExpected(effects) ==
  effects \subseteq {<<journal[i].row, InverseOperation[journal[i].op]>> : i \in undo.of}

RefuseSideEffects ==
  /\ undo.at = "read"
  /\ undo.todo = {} /\ undo.deferred = {}
  /\ ~OnlyExpected(undo.effects)
  /\ RollBack

CommitUndo ==
  /\ undo.at = "read"
  /\ undo.todo = {} /\ undo.deferred = {}
  /\ OnlyExpected(undo.effects)
  /\ journal' = [i \in DOMAIN journal |->
                   IF i \in undo.of THEN [journal[i] EXCEPT !.undone = TRUE]
                   ELSE journal[i]]
  /\ undo' = NoUndo
  /\ UNCHANGED <<initial, table, born, writes, edited, raced>>

UndoStep ==
  \/ ReadRow
  \/ RefuseModified
  \/ RefuseReconciled
  \/ DeferBlocked
  \/ DeferOrphan
  \/ WriteRow
  \/ PassAgain
  \/ RefuseOrphans
  \/ RefuseSideEffects
  \/ CommitUndo

JournalNext ==
  \/ \E c \in ToolCalls, r \in Records, op \in {"insert", "update", "delete"},
        v \in 0 .. MaxValue : AgentWrites(c, r, op, v)
  \/ \E r \in Records, op \in {"insert", "update", "delete"},
        v \in 0 .. MaxValue : UserWrites(r, op, v)
  \/ \E c \in ToolCalls : BeginUndo(c)
  \/ UndoStep

JournalSpec == JournalInit /\ [][JournalNext]_journalVars

--------------------------------------------------------------------------------
Commits == undo.at = "read" /\ undo'.at = "none" /\ journal' # journal

First(r) == {i \in undo.of : /\ journal[i].row = r
                             /\ \A j \in undo.of : journal[j].row = r => i <= j}

(* undo is all-or-nothing: when it succeeds, every row its call wrote is    *)
(* what it was before the call's first write of it, also when the user, or  *)
(* another call, wrote some of these rows in between and when the call      *)
(* deleted rows with their children; and it has touched nothing else: a row *)
(* that somebody put under a row of the call is not swept away by a         *)
(* cascade.  (A write that falls between undo's reading and its writing of  *)
(* the same row is not seen.)                                               *)
UndoIsExact ==
  [][Commits =>
       /\ \A r \in Records : \A i \in First(r) :
            raced \/ table'[r] = journal[i].before
       /\ \A r \in undo.held : First(r) # {}]_journalVars

(* Undo in any order: when every write of the assistant is undone, and      *)
(* nobody else wrote, the same rows are there as at the beginning, alike in *)
(* every column that is compared.  In the others an undo brings back what   *)
(* its own call found: when two calls moved a rate in turn and the first is *)
(* undone first, the rate is left at the value in between.                  *)
AllUndoneIsInitial ==
  /\ undo.at = "none"
  /\ ~edited /\ ~raced
  /\ \A i \in DOMAIN journal : journal[i].undone
  => \A r \in Records : Compared[table[r]] = Compared[initial[r]]
================================================================================
