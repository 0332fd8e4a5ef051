---------------------------- MODULE InstanceProofs ----------------------------
(***************************************************************************)
(* Theorems about what an instance does besides keeping books: JobRuns,    *)
(* for any number of runs of a job and any interval, and ChangeJournal,    *)
(* for any rows, calls and writes.                                         *)
(***************************************************************************)
EXTENDS JobRuns, ChangeJournal, FiniteSetTheorems, NaturalsInduction, TLAPS

--------------------------------------------------------------------------------
(* JobRuns. *)

(* The time list_job_health measures from. *)
LastSign == IF jobRow.finished >= 0 THEN jobRow.finished ELSE jobRow.started

JobTypes ==
  /\ jobRow \in [exists : BOOLEAN, status : {"running"} \cup Outcomes,
                 started : Nat, finished : Nat \cup {-1}]
  /\ clock \in Nat
  /\ ended \in {"none"} \cup Outcomes
  /\ event \in Nat \cup {-1}
  /\ killed \in BOOLEAN

(* The row is that of the last event.  A run that goes on needs a row, and  *)
(* a job at rest of which no run was killed has the outcome of the last.    *)
JobInv ==
  /\ JobTypes
  /\ jobRow.exists => event = LastSign
  /\ running # {} => jobRow.exists
  /\ ~killed /\ running = {} /\ ended # "none" => jobRow.exists /\ jobRow.status = ended

LEMMA JobInitHolds == JobInit => JobInv
<1> SUFFICES ASSUME JobInit PROVE JobInv
  OBVIOUS
<1>1. ~jobRow.exists /\ running = {} /\ ended = "none"
  BY DEF JobInit, NoRow
<1>2. JobTypes
  BY DEF JobInit, JobTypes, NoRow, Outcomes
<1> QED
  BY <1>1, <1>2 DEF JobInv

LEMMA JobStepHolds == JobInv /\ [JobNext]_jobVars => JobInv'
<1> SUFFICES ASSUME JobInv, [JobNext]_jobVars PROVE JobInv'
  OBVIOUS
<1>1. ASSUME NEW r \in Workers, RecordStart(r) PROVE JobInv'
  BY <1>1 DEF RecordStart, JobInv, JobTypes, LastSign
<1>2. ASSUME NEW r \in Workers, NEW o \in Outcomes, RecordFinish(r, o) PROVE JobInv'
  <2>1. /\ jobRow' = [jobRow EXCEPT !.status = o, !.finished = clock]
        /\ ended' = o /\ event' = clock /\ UNCHANGED <<clock, killed>>
        /\ jobRow.exists
    BY <1>2 DEF RecordFinish, JobInv
  <2>2. JobTypes'
    BY <2>1 DEF JobInv, JobTypes
  <2>3. jobRow'.exists /\ jobRow'.status = o /\ jobRow'.finished = clock /\ clock \in Nat
    BY <2>1 DEF JobInv, JobTypes
  <2> QED
    BY <2>1, <2>2, <2>3 DEF JobInv, LastSign
<1>3. ASSUME NEW r \in Workers, KillRun(r) PROVE JobInv'
  BY <1>3 DEF KillRun, JobInv, JobTypes, LastSign
<1>4. CASE ClockTicks
  BY <1>4 DEF ClockTicks, JobInv, JobTypes, LastSign
<1>5. CASE UNCHANGED jobVars
  BY <1>5 DEF jobVars, JobInv, JobTypes, LastSign
<1> QED
  BY <1>1, <1>2, <1>3, <1>4, <1>5 DEF JobNext

(* list_job_health: a job that has stopped running is not shown as healthy  *)
(* or busy, and a job at rest none of whose runs was killed shows how the   *)
(* last one ended, however its runs overlapped.                             *)
THEOREM HealthIsTrue == JobSpec => []HealthTellsTruth
<1>1. ASSUME JobInv PROVE HealthTellsTruth
  <2>1. /\ clock \in Int /\ event \in Int /\ Interval \in Nat /\ Grace \in Nat
        /\ jobRow.status \in {"running"} \cup Outcomes
        /\ jobRow.exists => event = LastSign
    BY <1>1, JobAssumption DEF JobInv, JobTypes
  <2>2. ASSUME clock - event > Interval + Grace
        PROVE  Health \in {"never_run", "stuck", "stale"}
    <3>1. CASE ~jobRow.exists
      BY <3>1 DEF Health
    <3>2. CASE jobRow.exists /\ jobRow.status = "running" /\ clock - jobRow.started > 2 * Interval
      BY <3>2 DEF Health
    <3>3. CASE /\ jobRow.exists
               /\ ~(jobRow.status = "running" /\ clock - jobRow.started > 2 * Interval)
      <4>1. clock - LastSign > Interval + Grace
        BY <2>1, <2>2, <3>3
      <4> QED
        BY <3>3, <4>1 DEF Health, LastSign
    <3> QED
      BY <3>1, <3>2, <3>3
  <2>3. ASSUME ~killed, running = {}, ended # "none", clock - event <= Interval + Grace
        PROVE  Health = ended
    <3>1. jobRow.exists /\ jobRow.status = ended /\ ended # "running"
      BY <1>1, <2>3 DEF JobInv, JobTypes, Outcomes
    <3>2. ~(clock - LastSign > Interval + Grace)
      BY <2>1, <2>3, <3>1
    <3> QED
      BY <3>1, <3>2 DEF Health, LastSign
  <2> QED
    BY <2>2, <2>3 DEF HealthTellsTruth
<1> QED
  BY <1>1, JobInitHolds, JobStepHolds, PTL DEF JobSpec

--------------------------------------------------------------------------------
(* ChangeJournal. *)

(* The entries the undo in progress still has to revert, and has reverted. *)
Rest == undo.todo \cup undo.deferred
Reverted == undo.of \ Rest

Undone == {i \in DOMAIN journal : journal[i].undone}

(* The rows as a rollback of the undo would leave them. *)
Stored == [r \in Records |-> IF r \in undo.held THEN undo.saved[r] ELSE table[r]]

Entries(r) == {i \in DOMAIN journal : journal[i].row = r}

JournalTypes ==
  /\ initial \in InitialTables
  /\ table \in [Records -> 0 .. MaxValue]
  /\ born \subseteq Records
  /\ journal \in Seq(Entry)
  /\ undo \in Undo
  /\ edited \in BOOLEAN
  /\ raced \in BOOLEAN

(* What an entry says of its row before and after. *)
EntriesTell ==
  \A i \in DOMAIN journal :
    /\ journal[i].before = 0 <=> journal[i].op = "insert"
    /\ journal[i].after = 0 <=> journal[i].op = "delete"

(* An id is given out once: its insertion comes before all other entries. *)
BornOnce ==
  /\ \A r \in Records \ born : table[r] = 0 /\ Entries(r) = {}
  /\ \A i, j \in DOMAIN journal :
       journal[i].op = "insert" /\ journal[j].row = journal[i].row => i <= j
  /\ undo.held \subseteq born

(* The rows t and the entries of journal j that are not closed agree: a     *)
(* deletion that is not reverted is the only one of its row, which is gone; *)
(* and a row whose insertion is reverted is gone for good, if undo never    *)
(* wrote a row that somebody had changed after undo read it.                *)
Agree(j, t, closed, exact) ==
  LET deletions == {i \in DOMAIN j \ closed : j[i].op = "delete"} IN
  /\ \A i \in deletions : t[j[i].row] = 0
  /\ \A i, k \in deletions : j[i].row = j[k].row => i = k
  /\ exact => \A i \in closed : j[i].op = "insert" =>
                /\ t[j[i].row] = 0
                /\ \A k \in deletions : j[k].row # j[i].row

(* Where the replay is: per row from the newest entry to the oldest. *)
ReplayOrder ==
  /\ undo.at = "none" => undo = NoUndo
  /\ undo.of \subseteq DOMAIN journal \ Undone
  /\ Rest \subseteq undo.of
  /\ undo.at = "write" => undo.todo # {} /\ NextEntry.row \notin undo.blocked
  /\ \A i \in undo.deferred : journal[i].row \in undo.blocked /\ \A j \in undo.todo : j < i
  /\ \A i \in Reverted, j \in Rest : journal[i].row = journal[j].row => j < i

(* The row is as it was before the oldest entry of it that is reverted. *)
Back(r) ==
  \E i \in Reverted \cap Entries(r) :
    /\ table[r] = journal[i].before
    /\ \A j \in Reverted \cap Entries(r) : i <= j

(* A cascade has taken the row along, though its insertion is not reverted. *)
Swept(r) ==
  /\ <<r, "delete">> \in undo.effects
  /\ table[r] = 0
  /\ \A i \in Entries(r) : /\ journal[i].op = "insert" => i \notin Reverted
                           /\ journal[i].op = "delete" => i \in Undone \cup Reverted

HeldRows ==
  /\ ~raced => /\ undo.at = "write" => Untouched(NextEntry)
               /\ \A i \in Reverted : journal[i].row \in undo.held
               /\ \A r \in undo.held : Back(r) \/ Swept(r)
  /\ \A r \in undo.held : undo.of \cap Entries(r) # {} \/ <<r, "delete">> \in undo.effects

JournalInv ==
  /\ JournalTypes
  /\ EntriesTell
  /\ BornOnce
  /\ ReplayOrder
  /\ HeldRows
  /\ Agree(journal, Stored, Undone, ~raced)
  /\ Agree(journal, table, Undone \cup Reverted, ~raced)

(* A set of naturals has a least element, and a bounded one a greatest. *)
LEMMA LeastExists ==
  ASSUME NEW S \in SUBSET Nat, S # {}
  PROVE  \E i \in S : \A j \in S : i <= j
<1> DEFINE Less == {p \in Nat \X Nat : p[1] < p[2]}
<1>1. IsWellFoundedOn(Less, Nat)
  BY NatLessThanWellFounded, Zenon DEF OpToRel
<1>2. \A x, y \in Nat : y < x => <<y, x>> \in Less
  OBVIOUS
<1> HIDE DEF Less
<1>3. PICK x \in S : \A y \in S : ~ (<<y, x>> \in Less)
  BY <1>1, WFMin, Zenon
<1>4. \A y \in S : ~(y < x)
  BY <1>2, <1>3, Zenon
<1>5. x \in Nat /\ \A y \in S : y \in Nat
  OBVIOUS
<1> QED
  BY <1>4, <1>5

LEMMA MaxIsGreatest ==
  ASSUME NEW S \in SUBSET Nat, S # {}, NEW n \in Nat, \A i \in S : i <= n
  PROVE  Max(S) \in S /\ \A j \in S : j <= Max(S)
<1> DEFINE T == {n - i : i \in S}
<1>1. T \in SUBSET Nat /\ T # {}
  <2>1. \A i \in S : i \in Nat /\ n - i \in Nat
    OBVIOUS
  <2>2. PICK i \in S : TRUE
    OBVIOUS
  <2>3. n - i \in T
    OBVIOUS
  <2> QED
    BY <2>1, <2>3
<1>2. PICK t \in T : \A u \in T : t <= u
  BY <1>1, LeastExists
<1>3. PICK m \in S : t = n - m
  OBVIOUS
<1>4. \A j \in S : m >= j
  <2> TAKE j \in S
  <2>1. t <= n - j
    BY <1>2
  <2> QED
    BY <1>3, <2>1
<1>5. \E x \in S : \A y \in S : x >= y
  BY <1>4
<1>6. Max(S) \in S /\ \A y \in S : Max(S) >= y
  BY <1>5, Zenon DEF Max
<1> QED
  BY <1>6

(* Where at most one change is about a row, it decides the row. *)
LEMMA AppliedIs ==
  ASSUME NEW t, NEW changes, \A e, f \in changes : e.row = f.row => e = f,
         NEW r \in Records
  PROVE  /\ \A e \in changes : e.row = r => Applied(t, changes)[r] = e.after
         /\ (\A e \in changes : e.row # r) => Applied(t, changes)[r] = t[r]
<1>1. ASSUME NEW e \in changes, e.row = r
      PROVE  Applied(t, changes)[r] = e.after
  <2>1. (CHOOSE f \in changes : f.row = r) = e
    BY <1>1
  <2> QED
    BY <1>1, <2>1 DEF Applied
<1> QED
  BY <1>1 DEF Applied

(* An order of a statement's entries has each of them once. *)
LEMMA JournaledIs ==
  ASSUME NEW own \in Entry, NEW cascade \in SUBSET Entry, IsFiniteSet(cascade),
         own \notin cascade, NEW es \in Journaled(own, cascade)
  PROVE  /\ es \in Seq(Entry)
         /\ \A i \in DOMAIN es : es[i] \in {own} \cup cascade
         /\ \A i, j \in DOMAIN es : es[i] = es[j] => i = j
         /\ \A e \in {own} \cup cascade : \E i \in DOMAIN es : es[i] = e
<1>1. PICK s \in SetToSeqs(cascade) : es \in {<<own>> \o s, s \o <<own>>}
  BY DEF Journaled
<1> DEFINE n == Cardinality(cascade)
<1>2. n \in Nat
  BY FS_CardinalityType
<1>3. /\ s \in [1 .. n -> cascade]
      /\ \A i, j \in 1 .. n : i # j => s[i] # s[j]
  BY DEF SetToSeqs
<1>30. \A e \in cascade : \E i \in 1 .. n : s[i] = e
  <2>1. s \in Injection(1 .. n, cascade)
    BY <1>3 DEF Injection, IsInjective
  <2>2. Cardinality(1 .. n) = n
    BY <1>2, FS_Interval
  <2>3. s \in Surjection(1 .. n, cascade)
    BY <2>1, <2>2, FS_Injection
  <2> QED
    BY <2>3 DEF Surjection
<1> HIDE DEF n
<1>4. s \in Seq(Entry) /\ Len(s) = n /\ <<own>> \in Seq(Entry) /\ Len(<<own>>) = 1
  BY <1>2, <1>3
<1>5. CASE es = <<own>> \o s
  <2>1. /\ es \in Seq(Entry) /\ Len(es) = n + 1
        /\ es[1] = own
        /\ \A i \in 2 .. n + 1 : es[i] = s[i - 1]
    BY <1>2, <1>4, <1>5
  <2>2. \A i \in DOMAIN es : i = 1 \/ (i \in 2 .. n + 1 /\ i - 1 \in 1 .. n)
    BY <1>2, <2>1
  <2>3. \A i \in 2 .. n + 1 : es[i] \in cascade
    BY <1>2, <1>3, <2>1
  <2>4. \A i, j \in 2 .. n + 1 : es[i] = es[j] => i = j
    <3> TAKE i, j \in 2 .. n + 1
    <3>1. i - 1 \in 1 .. n /\ j - 1 \in 1 .. n
      BY <1>2
    <3> QED
      BY <1>3, <2>1, <3>1, <1>2
  <2>5. 1 \in DOMAIN es
    BY <1>2, <2>1
  <2>6. ASSUME NEW e \in cascade PROVE \E i \in DOMAIN es : es[i] = e
    <3>1. PICK i \in 1 .. n : s[i] = e
      BY <1>30
    <3>2. i + 1 \in 2 .. n + 1 /\ i + 1 \in DOMAIN es /\ (i + 1) - 1 = i
      BY <1>2, <2>1
    <3> QED
      BY <2>1, <3>1, <3>2
  <2> QED
    BY <2>1, <2>2, <2>3, <2>4, <2>5, <2>6
<1>6. CASE es = s \o <<own>>
  <2>1. /\ es \in Seq(Entry) /\ Len(es) = n + 1
        /\ es[n + 1] = own
        /\ \A i \in 1 .. n : es[i] = s[i]
    BY <1>2, <1>4, <1>6
  <2>2. \A i \in DOMAIN es : i = n + 1 \/ i \in 1 .. n
    BY <1>2, <2>1
  <2>3. \A i \in 1 .. n : es[i] \in cascade
    BY <1>3, <2>1
  <2>4. \A i, j \in 1 .. n : es[i] = es[j] => i = j
    BY <1>3, <2>1
  <2>5. n + 1 \in DOMAIN es /\ \A i \in 1 .. n : i \in DOMAIN es
    BY <1>2, <2>1
  <2>6. \A e \in cascade : \E i \in DOMAIN es : es[i] = e
    BY <1>30, <2>1, <2>5
  <2> QED
    BY <2>1, <2>2, <2>3, <2>4, <2>5, <2>6
<1> QED
  BY <1>1, <1>5, <1>6

(* What a write does, W being the rows it changes. *)
Wrote(W, r, op, agent) ==
  /\ r \in W /\ W \in SUBSET (Records \ undo.held)
  /\ table' \in [Records -> 0 .. MaxValue]
  /\ \A x \in Records \ W : table'[x] = table[x]
  /\ op = "insert" => W = {r} /\ r \notin born
  /\ op # "insert" => \A x \in W : table[x] # 0
  /\ raced' \in BOOLEAN /\ edited' \in BOOLEAN
  /\ ~raced' => ~raced /\ (undo.at = "write" => NextEntry.row \notin W)
  /\ ~edited' => ~edited /\ agent
  /\ born' = born \cup {r}
  /\ UNCHANGED <<initial, undo>>
  /\ journal' \in Seq(Entry) /\ Len(journal) <= Len(journal')
  /\ \A i \in DOMAIN journal : i \in DOMAIN journal' /\ journal'[i] = journal[i]
  /\ \A i \in DOMAIN journal' \ DOMAIN journal :
       /\ i > Len(journal)
       /\ journal'[i].row \in W
       /\ journal'[i].before = table[journal'[i].row]
       /\ journal'[i].after = table'[journal'[i].row]
       /\ ~journal'[i].undone
       /\ journal'[i].op = "insert" <=> op = "insert"
       /\ journal'[i].op = "delete" <=> journal'[i].after = 0
  /\ \A i, j \in DOMAIN journal' \ DOMAIN journal :
       journal'[i].row = journal'[j].row => i = j
  /\ agent => \A x \in W : \E i \in DOMAIN journal' \ DOMAIN journal : journal'[i].row = x

LEMMA WriteEffect ==
  ASSUME JournalInv, NEW c, NEW r \in Records, NEW op \in {"insert", "update", "delete"},
         NEW v \in 0 .. MaxValue, NEW agent \in BOOLEAN, agent => c \in ToolCalls,
         Writes(c, r, op, v, agent)
  PROVE  \E W : Wrote(W, r, op, agent)
<1> DEFINE own == Change(c, r, op, v)
           cascade == Cascade(c, r, op)
           changes == {own} \cup cascade
           kids == IF op = "delete" THEN Children(r) ELSE {}
           W == {r} \cup kids
<1>1. JournalTypes /\ BornOnce
  BY DEF JournalInv
<1>2. /\ Free(r)
      /\ op = "insert" => r \notin born /\ v # 0
      /\ op = "update" => table[r] # 0 /\ v # 0
      /\ op = "delete" => table[r] # 0 /\ v = 0
      /\ born' = born \cup {r}
      /\ table' = Applied(table, changes)
      /\ agent => \E es \in Journaled(own, cascade) : journal' = journal \o es
      /\ ~agent => journal' = journal
      /\ raced' = (raced \/ /\ undo.at = "write"
                            /\ \E e \in changes : e.row = NextEntry.row)
      /\ edited' = (edited \/ ~agent)
      /\ undo' = undo /\ initial' = initial
  BY DEF Writes
<1>3. /\ kids \in SUBSET Records
      /\ \A k \in kids : k # r /\ table[k] # 0 /\ Parent[k] = r
  BY JournalAssumption DEF Children
<1>4. W \in SUBSET (Records \ undo.held)
  BY <1>2, <1>3 DEF Free
<1> DEFINE Kid(k) == [call |-> c, row |-> k, op |-> "delete", before |-> table[k],
                      after |-> 0, undone |-> FALSE]
<1>5. /\ own = [call |-> c, row |-> r, op |-> op, before |-> table[r], after |-> v,
                undone |-> FALSE]
      /\ cascade = {Kid(k) : k \in kids}
      /\ op # "delete" => cascade = {}
  <2>1. CASE op = "delete"
    BY <2>1 DEF Change, Cascade
  <2>2. CASE op # "delete"
    BY <2>2 DEF Change, Cascade
  <2> QED
    BY <2>1, <2>2
<1> HIDE DEF own, cascade, kids
<1>6. /\ \A e \in changes : e.row \in W
      /\ \A x \in W : \E e \in changes : e.row = x
      /\ \A e, f \in changes : e.row = f.row => e = f
  <2>1. own.row = r /\ \A k \in kids : Kid(k).row = k
    BY <1>5
  <2>2. \A e \in cascade : \E k \in kids : e = Kid(k)
    BY <1>5
  <2>3. \A k \in kids : Kid(k) \in cascade
    BY <1>5
  <2> HIDE DEF Kid
  <2> QED
    BY <1>3, <2>1, <2>2, <2>3
<1>60. \A e \in cascade : \E k \in kids : e = Kid(k)
  BY <1>5
<1>7. \A e \in changes : table'[e.row] = e.after
  BY <1>2, <1>4, <1>6, AppliedIs
<1>8. \A x \in Records \ W : table'[x] = table[x]
  BY <1>2, <1>6, AppliedIs
<1>9. table' \in [Records -> 0 .. MaxValue]
  <2>1. \A x \in Records : table'[x] \in 0 .. MaxValue
    <3>1. 0 \in 0 .. MaxValue
      BY JournalAssumption
    <3>2. \A e \in changes : e.after \in 0 .. MaxValue
      BY <1>5, <1>60, <3>1
    <3>3. \A x \in W : table'[x] \in 0 .. MaxValue
      BY <1>6, <1>7, <3>2
    <3> QED
      BY <1>1, <1>8, <3>3 DEF JournalTypes
  <2>2. table' = [x \in Records |-> table'[x]]
    BY <1>2 DEF Applied
  <2> QED
    BY <2>1, <2>2
<1>10. \A e \in changes :
         /\ e.row \in W /\ e.before = table[e.row] /\ e.after = table'[e.row] /\ ~e.undone
         /\ e.op = "insert" <=> op = "insert"
         /\ e.op = "delete" <=> e.after = 0
  <2>1. ASSUME NEW e \in changes
        PROVE  /\ e.before = table[e.row] /\ ~e.undone
               /\ e.op = "insert" <=> op = "insert"
               /\ e.op = "delete" <=> e.after = 0
    <3>1. CASE e = own
      BY <1>2, <1>5, <3>1
    <3>2. CASE e \in cascade
      <4>1. PICK k \in kids : e = Kid(k)
        BY <1>60, <3>2
      <4>2. op = "delete"
        BY <1>5, <3>2
      <4> QED
        BY <4>1, <4>2
    <3> QED
      BY <3>1, <3>2
  <2> QED
    BY <1>6, <1>7, <2>1
<1>11. CASE agent
  <2>1. PICK es \in Journaled(own, cascade) : journal' = journal \o es
    BY <1>2, <1>11
  <2>2. own \in Entry /\ cascade \in SUBSET Entry /\ own \notin cascade
    <3>1. c \in ToolCalls /\ 0 \in 0 .. MaxValue
      BY <1>11, JournalAssumption
    <3>2. \A x \in W : table[x] \in 0 .. MaxValue
      BY <1>1, <1>4 DEF JournalTypes
    <3>3. own \in Entry
      BY <1>5, <3>1, <3>2 DEF Entry
    <3>4. cascade \in SUBSET Entry
      <4>1. \A k \in kids : Kid(k) \in Entry
        BY <1>3, <3>1, <3>2 DEF Entry
      <4> QED
        BY <1>60, <4>1
    <3>5. own \notin cascade
      <4>1. own.row = r /\ \A k \in kids : Kid(k).row # r
        BY <1>3, <1>5
      <4> QED
        BY <1>60, <4>1
    <3> QED
      BY <3>3, <3>4, <3>5
  <2>3. IsFiniteSet(cascade)
    <3>1. IsFiniteSet(kids)
      BY <1>3, FS_Subset, JournalAssumption
    <3> DEFINE f == [k \in kids |-> Kid(k)]
    <3>2. f \in Surjection(kids, cascade)
      BY <1>5 DEF Surjection
    <3> QED
      BY <3>1, <3>2, FS_Surjection
  <2>4. /\ es \in Seq(Entry)
        /\ \A i \in DOMAIN es : es[i] \in changes
        /\ \A i, j \in DOMAIN es : es[i] = es[j] => i = j
        /\ \A e \in changes : \E i \in DOMAIN es : es[i] = e
    BY <2>2, <2>3, JournaledIs
  <2>5. /\ journal \in Seq(Entry) /\ Len(journal) \in Nat /\ Len(es) \in Nat
        /\ journal' \in Seq(Entry) /\ Len(journal') = Len(journal) + Len(es)
        /\ \A i \in DOMAIN journal : i \in DOMAIN journal' /\ journal'[i] = journal[i]
        /\ \A i \in DOMAIN es : /\ Len(journal) + i \in DOMAIN journal'
                                /\ journal'[Len(journal) + i] = es[i]
    BY <1>1, <2>1, <2>4 DEF JournalTypes
  <2>6. \A i \in DOMAIN journal' \ DOMAIN journal :
          /\ i > Len(journal) /\ i - Len(journal) \in DOMAIN es
          /\ journal'[i] = es[i - Len(journal)]
    BY <2>1, <2>4, <2>5
  <2>7. \A i \in DOMAIN journal' \ DOMAIN journal : journal'[i] \in changes
    BY <2>4, <2>6
  <2>8. \A i, j \in DOMAIN journal' \ DOMAIN journal : journal'[i].row = journal'[j].row => i = j
    <3> TAKE i, j \in DOMAIN journal' \ DOMAIN journal
    <3> HAVE journal'[i].row = journal'[j].row
    <3>1. journal'[i] = journal'[j]
      BY <1>6, <2>7
    <3>2. i - Len(journal) = j - Len(journal)
      BY <2>4, <2>6, <3>1
    <3>3. i \in Int /\ j \in Int
      BY <2>5
    <3> QED
      BY <2>5, <3>2, <3>3
  <2>9. ASSUME NEW x \in W
        PROVE  \E i \in DOMAIN journal' \ DOMAIN journal : journal'[i].row = x
    <3>1. PICK e \in changes : e.row = x
      BY <1>6
    <3>2. PICK i \in DOMAIN es : es[i] = e
      BY <2>4
    <3>3. Len(journal) + i \in DOMAIN journal' \ DOMAIN journal
      BY <2>4, <2>5
    <3> QED
      BY <2>5, <3>1, <3>2, <3>3
  <2>10. Len(journal) <= Len(journal')
    BY <2>5
  <2>11. \A i \in DOMAIN journal' \ DOMAIN journal :
           /\ i > Len(journal)
           /\ journal'[i].row \in W
           /\ journal'[i].before = table[journal'[i].row]
           /\ journal'[i].after = table'[journal'[i].row]
           /\ ~journal'[i].undone
           /\ journal'[i].op = "insert" <=> op = "insert"
           /\ journal'[i].op = "delete" <=> journal'[i].after = 0
    BY <1>10, <2>6, <2>7
  <2>12. op = "insert" => W = {r} /\ r \notin born
    BY <1>2 DEF kids
  <2>13. op # "insert" => \A x \in W : table[x] # 0
    BY <1>2, <1>3
  <2>14. ~raced' => ~raced /\ (undo.at = "write" => NextEntry.row \notin W)
    BY <1>2, <1>6
  <2>15. raced' \in BOOLEAN /\ edited' \in BOOLEAN
    BY <1>2
  <2> HIDE DEF W
  <2>16. r \in W
    BY DEF W
  <2>17. Wrote(W, r, op, agent)
    BY <1>2, <1>4, <1>8, <1>9, <1>11, <2>5, <2>8, <2>9, <2>10, <2>11, <2>12, <2>13, <2>14,
       <2>15, <2>16
       DEF Wrote
  <2> QED
    BY <2>17
<1>12. CASE ~agent
  <2>1. journal' = journal /\ journal \in Seq(Entry)
    BY <1>1, <1>2, <1>12 DEF JournalTypes
  <2>2. Len(journal) <= Len(journal') /\ DOMAIN journal' \ DOMAIN journal = {}
    BY <2>1
  <2>12. op = "insert" => W = {r} /\ r \notin born
    BY <1>2 DEF kids
  <2>13. op # "insert" => \A x \in W : table[x] # 0
    BY <1>2, <1>3
  <2>14. ~raced' => ~raced /\ (undo.at = "write" => NextEntry.row \notin W)
    BY <1>2, <1>6
  <2>15. raced' \in BOOLEAN /\ edited' \in BOOLEAN /\ (~edited' => ~edited /\ agent)
    BY <1>2, <1>12
  <2> HIDE DEF W
  <2>16. r \in W
    BY DEF W
  <2>17. Wrote(W, r, op, agent)
    BY <1>2, <1>4, <1>8, <1>9, <1>12, <2>1, <2>2, <2>12, <2>13, <2>14, <2>15, <2>16
       DEF Wrote
  <2> QED
    BY <2>17
<1> QED
  BY <1>11, <1>12

LEMMA EntryTypes ==
  ASSUME JournalTypes, NEW i \in DOMAIN journal
  PROVE  /\ journal[i] \in Entry
         /\ journal[i].row \in Records
         /\ journal[i].op \in {"insert", "update", "delete"}
         /\ journal[i].before \in 0 .. MaxValue
         /\ i \in Nat
<1>1. journal[i] \in Entry /\ i \in Nat
  BY DEF JournalTypes
<1> QED
  BY <1>1 DEF Entry

(* The entry an undo is at is the newest of those in front of it. *)
LEMMA NextInJournal ==
  ASSUME JournalTypes, ReplayOrder, undo.todo # {}
  PROVE  /\ Max(undo.todo) \in undo.todo /\ \A i \in undo.todo : i <= Max(undo.todo)
         /\ Max(undo.todo) \in DOMAIN journal /\ NextEntry = journal[Max(undo.todo)]
         /\ Max(undo.todo) \in undo.of \ Undone
<1>1. undo.todo \subseteq DOMAIN journal /\ DOMAIN journal = 1 .. Len(journal) /\ Len(journal) \in Nat
  BY DEF JournalTypes, ReplayOrder, Rest
<1>2. undo.todo \in SUBSET Nat /\ \A i \in undo.todo : i <= Len(journal)
  BY <1>1
<1>3. Max(undo.todo) \in undo.todo /\ \A i \in undo.todo : i <= Max(undo.todo)
  BY <1>1, <1>2, MaxIsGreatest
<1> QED
  BY <1>1, <1>3 DEF NextEntry, ReplayOrder, Rest

(* A write keeps the rows and the journal in agreement. *)
LEMMA WriteAgrees ==
  ASSUME JournalTypes, BornOnce, NEW W, NEW r, NEW op, NEW agent, Wrote(W, r, op, agent),
         NEW t, NEW u, \A x \in W : t[x] = table[x] /\ u[x] = table'[x],
         \A x \in Records \ W : u[x] = t[x],
         NEW closed \in SUBSET DOMAIN journal, Agree(journal, t, closed, ~raced)
  PROVE  Agree(journal', u, closed, ~raced')
<1> DEFINE old == {i \in DOMAIN journal \ closed : journal[i].op = "delete"}
           deletions == {i \in DOMAIN journal' \ closed : journal'[i].op = "delete"}
           new == DOMAIN journal' \ DOMAIN journal
<1>1. /\ \A i \in old : t[journal[i].row] = 0
      /\ \A i, k \in old : journal[i].row = journal[k].row => i = k
      /\ ~raced => \A i \in closed : journal[i].op = "insert" =>
                     /\ t[journal[i].row] = 0
                     /\ \A k \in old : journal[k].row # journal[i].row
  BY DEF Agree
<1>2. \A i \in DOMAIN journal : journal[i].row \in Records /\ journal'[i] = journal[i]
  BY EntryTypes DEF Wrote
<1>3. \A i \in deletions : i \in old \/ i \in new
  BY <1>2
<1>4. \A i \in new : journal'[i].op = "delete" => u[journal'[i].row] = 0 /\ op # "insert"
  BY DEF Wrote
<1>5. \A i \in DOMAIN journal : journal[i].row \in W => op # "insert" /\ t[journal[i].row] # 0
  BY <1>2 DEF BornOnce, Entries, Wrote
<1>6. \A i \in old : journal[i].row \notin W
  BY <1>1, <1>5
<1>7. \A i \in deletions : u[journal'[i].row] = 0
  BY <1>1, <1>2, <1>3, <1>4, <1>6
<1>8. \A i \in new : journal'[i].row \in W
  BY DEF Wrote
<1>9. \A i, k \in deletions : journal'[i].row = journal'[k].row => i = k
  BY <1>1, <1>2, <1>3, <1>6, <1>8 DEF Wrote
<1>10. ASSUME ~raced', NEW i \in closed, journal'[i].op = "insert"
       PROVE  /\ u[journal'[i].row] = 0
              /\ \A k \in deletions : journal'[k].row # journal'[i].row
  <2>1. ~raced /\ i \in DOMAIN journal /\ journal'[i] = journal[i]
    BY <1>2, <1>10 DEF Wrote
  <2>2. t[journal[i].row] = 0 /\ \A k \in old : journal[k].row # journal[i].row
    BY <1>1, <1>10, <2>1
  <2>3. journal[i].row \notin W
    BY <1>5, <2>1, <2>2
  <2> QED
    BY <1>2, <1>3, <1>8, <2>1, <2>2, <2>3
<1> QED
  BY <1>7, <1>9, <1>10 DEF Agree

LEMMA WriteKeeps ==
  ASSUME JournalInv, NEW W, NEW r, NEW op, NEW agent, Wrote(W, r, op, agent)
  PROVE  JournalInv'
<1>1. JournalTypes /\ EntriesTell /\ BornOnce /\ ReplayOrder /\ HeldRows
  BY DEF JournalInv
<1>2. /\ undo' = undo /\ undo \in Undo
      /\ \A i \in DOMAIN journal : i \in DOMAIN journal' /\ journal'[i] = journal[i]
      /\ W \in SUBSET (Records \ undo.held) /\ r \in W
      /\ \A x \in Records \ W : table'[x] = table[x]
      /\ undo.held \in SUBSET Records
  BY <1>1 DEF Wrote, JournalTypes, Undo
<1>3. \A i \in DOMAIN journal : journal[i] \in Entry /\ journal[i].row \in Records
  BY <1>1, EntryTypes
<1>4. Rest' = Rest /\ Reverted' = Reverted
  BY <1>2 DEF Rest, Reverted
<1>5. Undone' = Undone /\ Undone \in SUBSET DOMAIN journal
  BY <1>2 DEF Undone, Wrote
<1>6. \A x \in Records : /\ Entries(x) = {i \in DOMAIN journal : journal[i].row = x}
                         /\ Entries(x)' = {i \in DOMAIN journal' : journal'[i].row = x}
  BY DEF Entries
<1>7. undo.of \subseteq DOMAIN journal /\ Rest \subseteq undo.of /\ Reverted \subseteq undo.of
  BY <1>1 DEF ReplayOrder, Reverted
<1>8. undo.at = "write" => NextEntry' = NextEntry /\ NextEntry \in Entry
  <2>1. ASSUME undo.at = "write" PROVE NextEntry' = NextEntry /\ NextEntry \in Entry
    <3>1. undo.todo # {}
      BY <1>1, <2>1 DEF ReplayOrder
    <3>2. Max(undo.todo) \in DOMAIN journal
      BY <1>1, <3>1, NextInJournal
    <3> QED
      BY <1>2, <1>3, <3>2 DEF NextEntry
  <2> QED
    BY <2>1
<1>9. JournalTypes'
  <2>1. born' \subseteq Records
    BY <1>1, <1>2 DEF JournalTypes, Wrote
  <2> QED
    BY <1>1, <1>2, <2>1 DEF JournalTypes, Wrote
<1>10. EntriesTell'
  <2> SUFFICES ASSUME NEW i \in DOMAIN journal'
               PROVE  /\ journal'[i].before = 0 <=> journal'[i].op = "insert"
                      /\ journal'[i].after = 0 <=> journal'[i].op = "delete"
    BY DEF EntriesTell
  <2>1. CASE i \in DOMAIN journal
    BY <1>1, <1>2, <2>1 DEF EntriesTell
  <2>2. CASE i \notin DOMAIN journal
    <3>1. /\ journal'[i].row \in W
          /\ journal'[i].before = table[journal'[i].row]
          /\ journal'[i].op = "insert" <=> op = "insert"
          /\ journal'[i].op = "delete" <=> journal'[i].after = 0
      BY <2>2 DEF Wrote
    <3>2. op = "insert" => journal'[i].row = r /\ r \in Records \ born
      BY <1>2, <3>1 DEF Wrote
    <3>3. op # "insert" => table[journal'[i].row] # 0
      BY <3>1 DEF Wrote
    <3> QED
      BY <1>1, <3>1, <3>2, <3>3 DEF BornOnce
  <2> QED
    BY <2>1, <2>2
<1>11. BornOnce'
  <2>1. ASSUME NEW x \in Records \ born' PROVE table'[x] = 0 /\ Entries(x)' = {}
    <3>1. x \in Records \ born /\ x # r
      BY <2>1 DEF Wrote
    <3>2. x \notin W
      BY <1>1, <3>1 DEF BornOnce, Wrote
    <3>3. \A i \in DOMAIN journal' : journal'[i].row # x
      BY <1>1, <1>2, <3>1, <3>2 DEF BornOnce, Entries, Wrote
    <3> QED
      BY <1>1, <1>2, <1>6, <3>1, <3>2, <3>3 DEF BornOnce
  <2>2. ASSUME NEW i \in DOMAIN journal', NEW k \in DOMAIN journal',
               journal'[i].op = "insert", journal'[k].row = journal'[i].row
        PROVE  i <= k
    <3>0. i \in Nat /\ k \in Nat /\ Len(journal) \in Nat /\ DOMAIN journal = 1 .. Len(journal)
      BY <1>1, <1>9 DEF JournalTypes
    <3>1. CASE i \in DOMAIN journal /\ k \in DOMAIN journal
      BY <1>1, <1>2, <2>2, <3>1 DEF BornOnce
    <3>2. CASE i \in DOMAIN journal /\ k \notin DOMAIN journal
      BY <3>0, <3>2
    <3>3. CASE i \notin DOMAIN journal
      <4>1. op = "insert" /\ journal'[i].row = r /\ r \in Records \ born
        BY <1>2, <2>2, <3>3 DEF Wrote
      <4>2. k \notin DOMAIN journal
        BY <1>1, <1>2, <2>2, <4>1 DEF BornOnce, Entries
      <4>3. i = k
        BY <2>2, <3>3, <4>2 DEF Wrote
      <4> QED
        BY <3>0, <4>3
    <3> QED
      BY <3>1, <3>2, <3>3
  <2>3. undo'.held \subseteq born'
    BY <1>1, <1>2 DEF BornOnce, Wrote
  <2> QED
    BY <2>1, <2>2, <2>3 DEF BornOnce, Entries
<1>12. ReplayOrder'
  <2>1. undo'.of \subseteq DOMAIN journal' \ Undone'
    BY <1>1, <1>2, <1>5 DEF ReplayOrder
  <2>2. \A i \in undo.of : journal'[i] = journal[i]
    BY <1>2, <1>7
  <2>3. undo.deferred \subseteq Rest
    BY DEF Rest
  <2> QED
    BY <1>1, <1>2, <1>4, <1>7, <1>8, <2>1, <2>2, <2>3 DEF ReplayOrder
<1>13. HeldRows'
  <2>1. \A x \in undo.held : x \in Records /\ table'[x] = table[x]
    BY <1>2
  <2>2. \A x \in undo.held, i \in undo.of : i \in Entries(x)' <=> i \in Entries(x)
    BY <1>2, <1>6, <1>7, <2>1
  <2>3. \A x \in undo.held : Entries(x)' = Entries(x)
    <3> TAKE x \in undo.held
    <3>1. x \notin W /\ x \in Records
      BY <1>2
    <3>2. \A i \in DOMAIN journal' \ DOMAIN journal : journal'[i].row # x
      BY <3>1 DEF Wrote
    <3>3. \A i : i \in Entries(x)' <=> i \in Entries(x)
      BY <1>2, <1>6, <3>1, <3>2
    <3> QED
      BY <3>3, Zenon
  <2>4. ASSUME ~raced'
        PROVE  /\ undo.at = "write" => Untouched(NextEntry)'
               /\ \A i \in Reverted' : journal'[i].row \in undo'.held
               /\ \A x \in undo'.held : Back(x)' \/ Swept(x)'
    <3>1. ~raced
      BY <2>4 DEF Wrote
    <3>2. ASSUME undo.at = "write" PROVE Untouched(NextEntry)'
      <4>1. NextEntry.row \in Records \ W
        BY <1>8, <2>4, <3>2 DEF Wrote, Entry
      <4>2. Untouched(NextEntry)
        BY <1>1, <3>1, <3>2 DEF HeldRows
      <4> QED
        BY <1>2, <1>8, <3>2, <4>1, <4>2 DEF Untouched
    <3>3. \A i \in Reverted' : journal'[i].row \in undo'.held
      BY <1>1, <1>2, <1>4, <1>7, <3>1 DEF HeldRows
    <3>4. ASSUME NEW x \in undo.held PROVE Back(x)' \/ Swept(x)'
      <4>1. /\ Back(x) \/ Swept(x)
            /\ Entries(x)' = Entries(x)
            /\ table'[x] = table[x]
            /\ \A i \in Entries(x) : journal'[i] = journal[i]
        BY <1>1, <1>2, <2>1, <2>3, <3>1, <3>4 DEF HeldRows, Entries
      <4> QED
        BY <1>2, <1>4, <1>5, <4>1 DEF Back, Swept
    <3> QED
      BY <1>2, <3>2, <3>3, <3>4
  <2>5. \A x \in undo.held : undo.of \cap Entries(x) # {} \/ <<x, "delete">> \in undo.effects
    BY <1>1 DEF HeldRows
  <2> QED
    BY <1>2, <2>3, <2>4, <2>5 DEF HeldRows
<1>14. Agree(journal', Stored', Undone', ~raced')
  <2>1. \A x \in W : Stored[x] = table[x] /\ Stored'[x] = table'[x]
    BY <1>2 DEF Stored
  <2>2. \A x \in Records \ W : Stored'[x] = Stored[x]
    BY <1>2 DEF Stored
  <2>3. Agree(journal, Stored, Undone, ~raced)
    BY DEF JournalInv
  <2> QED
    BY <1>1, <1>5, <2>1, <2>2, <2>3, WriteAgrees
<1>15. Agree(journal', table', Undone' \cup Reverted', ~raced')
  <2>1. Undone \cup Reverted \in SUBSET DOMAIN journal
    BY <1>5, <1>7
  <2>2. Agree(journal, table, Undone \cup Reverted, ~raced)
    BY DEF JournalInv
  <2> QED
    BY <1>1, <1>2, <1>4, <1>5, <2>1, <2>2, WriteAgrees
<1> QED
  BY <1>9, <1>10, <1>11, <1>12, <1>13, <1>14, <1>15 DEF JournalInv

LEMMA EntriesAreFinite ==
  ASSUME JournalTypes, NEW S \in SUBSET DOMAIN journal
  PROVE  Cardinality(S) \in Nat /\ S \in SUBSET Nat
<1>1. DOMAIN journal = 1 .. Len(journal) /\ Len(journal) \in Nat
  BY DEF JournalTypes
<1>2. IsFiniteSet(1 .. Len(journal))
  BY <1>1, FS_Interval
<1>3. IsFiniteSet(S)
  BY <1>1, <1>2, FS_Subset
<1> QED
  BY <1>1, <1>3, FS_CardinalityType

LEMMA NoUndoIs ==
  /\ NoUndo \in Undo
  /\ NoUndo.at = "none" /\ NoUndo.of = {} /\ NoUndo.todo = {} /\ NoUndo.deferred = {}
  /\ NoUndo.held = {}
BY JournalAssumption DEF NoUndo, Undo

(* Nothing is in progress and nothing is held: what is stored is all there is. *)
LEMMA AtRest ==
  ASSUME JournalTypes', EntriesTell', undo' = NoUndo,
         \A r \in Records \ born' : table'[r] = 0 /\ Entries(r)' = {},
         \A i, k \in DOMAIN journal' :
           journal'[i].op = "insert" /\ journal'[k].row = journal'[i].row => i <= k,
         Agree(journal', table', Undone', ~raced')
  PROVE  JournalInv'
<1>1. Rest' = {} /\ Reverted' = {} /\ undo'.held = {} /\ undo'.at = "none" /\ undo'.of = {}
  BY NoUndoIs DEF Rest, Reverted
<1>2. BornOnce'
  BY <1>1 DEF BornOnce
<1>3. ReplayOrder'
  BY <1>1, NoUndoIs DEF ReplayOrder
<1>4. HeldRows'
  BY <1>1 DEF HeldRows
<1>5. Stored' = table'
  <2>1. \A r \in Records : Stored'[r] = table'[r]
    BY <1>1 DEF Stored
  <2>2. Stored' = [r \in Records |-> Stored'[r]] /\ table' = [r \in Records |-> table'[r]]
    BY DEF Stored, JournalTypes
  <2> QED
    BY <2>1, <2>2
<1>6. Undone' \cup Reverted' = Undone'
  BY <1>1
<1> QED
  BY <1>2, <1>3, <1>4, <1>5, <1>6 DEF JournalInv

LEMMA RollBackKeeps ==
  ASSUME JournalInv, RollBack
  PROVE  JournalInv'
<1>1. JournalTypes /\ EntriesTell /\ BornOnce /\ Agree(journal, Stored, Undone, ~raced)
  BY DEF JournalInv
<1>2. /\ table' = Stored /\ undo' = NoUndo
      /\ UNCHANGED <<initial, born, journal, edited, raced>>
  BY DEF RollBack, Stored
<1>3. Undone' = Undone /\ \A r : Entries(r)' = Entries(r)
  BY <1>2 DEF Undone, Entries
<1>4. JournalTypes'
  <2>1. undo.saved \in [Records -> 0 .. MaxValue]
    BY <1>1 DEF JournalTypes, Undo
  <2>2. Stored \in [Records -> 0 .. MaxValue]
    BY <1>1, <2>1 DEF Stored, JournalTypes
  <2> QED
    BY <1>1, <1>2, <2>2, NoUndoIs DEF JournalTypes
<1>5. EntriesTell'
  BY <1>1, <1>2 DEF EntriesTell
<1>6. \A r \in Records \ born' : table'[r] = 0 /\ Entries(r)' = {}
  BY <1>1, <1>2, <1>3 DEF BornOnce, Stored
<1>8. \A i, k \in DOMAIN journal' :
        journal'[i].op = "insert" /\ journal'[k].row = journal'[i].row => i <= k
  BY <1>1, <1>2 DEF BornOnce
<1> QED
  BY <1>1, <1>2, <1>3, <1>4, <1>5, <1>6, <1>8, AtRest

LEMMA CommitKeeps ==
  ASSUME JournalInv, CommitUndo
  PROVE  JournalInv'
<1>1. /\ JournalTypes /\ EntriesTell /\ BornOnce /\ ReplayOrder
      /\ Agree(journal, table, Undone \cup Reverted, ~raced)
  BY DEF JournalInv
<1>2. /\ undo' = NoUndo
      /\ UNCHANGED <<initial, table, born, edited, raced>>
      /\ undo.todo = {} /\ undo.deferred = {}
      /\ journal' = [i \in DOMAIN journal |->
                       IF i \in undo.of THEN [journal[i] EXCEPT !.undone = TRUE]
                       ELSE journal[i]]
  BY DEF CommitUndo
<1>3. DOMAIN journal' = DOMAIN journal /\ DOMAIN journal = 1 .. Len(journal) /\ Len(journal) \in Nat
  BY <1>1, <1>2 DEF JournalTypes
<1>4. \A i \in DOMAIN journal :
        /\ journal'[i] \in Entry
        /\ journal'[i].row = journal[i].row /\ journal'[i].op = journal[i].op
        /\ journal'[i].before = journal[i].before /\ journal'[i].after = journal[i].after
        /\ journal'[i].undone <=> i \in Undone \/ i \in undo.of
  <2> TAKE i \in DOMAIN journal
  <2>1. journal[i] \in Entry
    BY <1>1, EntryTypes
  <2>2. i \in Undone <=> journal[i].undone
    BY DEF Undone
  <2> QED
    BY <1>2, <2>1, <2>2 DEF Entry
<1>5. Reverted = undo.of /\ undo.of \subseteq DOMAIN journal
  BY <1>1, <1>2 DEF Reverted, Rest, ReplayOrder
<1>6. Undone' = Undone \cup Reverted
  BY <1>3, <1>4, <1>5 DEF Undone
<1>7. \A r : Entries(r)' = Entries(r)
  BY <1>3, <1>4 DEF Entries
<1>8. JournalTypes'
  <2>1. journal' \in Seq(Entry)
    BY <1>2, <1>3, <1>4
  <2> QED
    BY <1>1, <1>2, <2>1, NoUndoIs DEF JournalTypes
<1>9. EntriesTell'
  BY <1>1, <1>3, <1>4 DEF EntriesTell
<1>10. \A r \in Records \ born' : table'[r] = 0 /\ Entries(r)' = {}
  BY <1>1, <1>2, <1>7 DEF BornOnce
<1>12. \A i, k \in DOMAIN journal' :
         journal'[i].op = "insert" /\ journal'[k].row = journal'[i].row => i <= k
  BY <1>1, <1>3, <1>4 DEF BornOnce
<1>13. Agree(journal', table', Undone', ~raced')
  <2>1. Undone' \subseteq DOMAIN journal
    BY <1>3 DEF Undone
  <2> QED
    BY <1>1, <1>2, <1>3, <1>4, <1>6, <2>1 DEF Agree
<1> QED
  BY <1>2, <1>8, <1>9, <1>10, <1>12, <1>13, AtRest

LEMMA BeginKeeps ==
  ASSUME JournalInv, NEW c \in ToolCalls, BeginUndo(c)
  PROVE  JournalInv'
<1>1. JournalTypes /\ EntriesTell /\ BornOnce /\ ReplayOrder /\ Agree(journal, Stored, Undone, ~raced)
  BY DEF JournalInv
<1>2. /\ UNCHANGED <<initial, table, born, journal, edited, raced>>
      /\ undo' = [NoUndo EXCEPT !.at = "read", !.of = OfCall(c), !.todo = OfCall(c),
                                !.pass = Cardinality(OfCall(c))]
      /\ undo = NoUndo
  BY <1>1 DEF BeginUndo, ReplayOrder
<1>3. OfCall(c) \in SUBSET DOMAIN journal /\ OfCall(c) \cap Undone = {}
  BY DEF OfCall, Undone
<1>4. Cardinality(OfCall(c)) \in Nat /\ OfCall(c) \in SUBSET Nat
  BY <1>1, <1>3, EntriesAreFinite
<1>5. undo' \in Undo
  BY <1>2, <1>4, NoUndoIs DEF Undo
<1>6. /\ undo'.at = "read" /\ undo'.of = OfCall(c) /\ undo'.todo = OfCall(c)
      /\ undo'.deferred = {} /\ undo'.held = {}
  BY <1>2 DEF NoUndo
<1>7. Rest' = OfCall(c) /\ Reverted' = {}
  BY <1>6 DEF Rest, Reverted
<1>8. Undone' = Undone /\ \A r : Entries(r)' = Entries(r)
  BY <1>2 DEF Undone, Entries
<1>9. JournalTypes' /\ EntriesTell'
  BY <1>1, <1>2, <1>5 DEF JournalTypes, EntriesTell
<1>10. BornOnce'
  BY <1>1, <1>2, <1>6, <1>8 DEF BornOnce
<1>11. ReplayOrder'
  BY <1>2, <1>3, <1>6, <1>7, <1>8 DEF ReplayOrder
<1>12. HeldRows'
  BY <1>6, <1>7 DEF HeldRows
<1>13. Stored' = table' /\ Stored = table
  <2>1. \A r \in Records : Stored'[r] = table'[r] /\ Stored[r] = table[r]
    BY <1>2, <1>6, NoUndoIs DEF Stored
  <2>2. /\ Stored' = [r \in Records |-> Stored'[r]] /\ table' = [r \in Records |-> table'[r]]
        /\ Stored = [r \in Records |-> Stored[r]] /\ table = [r \in Records |-> table[r]]
    BY <1>1, <1>9 DEF Stored, JournalTypes
  <2> QED
    BY <2>1, <2>2
<1>14. Undone' \cup Reverted' = Undone
  BY <1>7, <1>8
<1> QED
  BY <1>1, <1>2, <1>8, <1>9, <1>10, <1>11, <1>12, <1>13, <1>14 DEF JournalInv

(* A step that only moves the replay along. *)
Moves ==
  /\ UNCHANGED <<initial, table, born, journal, edited, raced>>
  /\ undo' \in Undo
  /\ undo'.of = undo.of /\ undo'.held = undo.held /\ undo'.saved = undo.saved
  /\ undo'.effects = undo.effects
  /\ undo'.todo \cup undo'.deferred = undo.todo \cup undo.deferred
  /\ undo'.at # "none"
  /\ undo'.at = "write" =>
       undo'.todo = undo.todo /\ undo'.blocked = undo.blocked /\ undo.todo # {}
         /\ NextEntry.row \notin undo.blocked /\ Untouched(NextEntry)
  /\ \A i \in undo'.deferred : journal[i].row \in undo'.blocked /\ \A k \in undo'.todo : k < i

LEMMA MoveKeeps ==
  ASSUME JournalInv, Moves
  PROVE  JournalInv'
<1>1. /\ JournalTypes /\ EntriesTell /\ BornOnce /\ ReplayOrder /\ HeldRows
      /\ Agree(journal, Stored, Undone, ~raced)
      /\ Agree(journal, table, Undone \cup Reverted, ~raced)
  BY DEF JournalInv
<1>2. Rest' = Rest /\ Reverted' = Reverted
  BY DEF Moves, Rest, Reverted
<1>3. Undone' = Undone /\ Stored' = Stored /\ \A r : Entries(r)' = Entries(r)
  BY DEF Moves, Undone, Stored, Entries
<1>4. JournalTypes' /\ EntriesTell' /\ BornOnce'
  BY <1>1, <1>3 DEF Moves, JournalTypes, EntriesTell, BornOnce
<1>5. undo'.at = "write" => NextEntry' = NextEntry
  BY DEF Moves, NextEntry
<1>6. ReplayOrder'
  BY <1>1, <1>2, <1>3, <1>5 DEF Moves, ReplayOrder
<1>7. \A r : Back(r)' = Back(r) /\ Swept(r)' = Swept(r)
  BY <1>2, <1>3 DEF Moves, Back, Swept
<1>8. undo'.at = "write" => Untouched(NextEntry)'
  BY <1>5 DEF Moves, Untouched
<1>9. HeldRows'
  BY <1>1, <1>2, <1>3, <1>7, <1>8 DEF Moves, HeldRows
<1> QED
  BY <1>1, <1>2, <1>3, <1>4, <1>6, <1>9 DEF JournalInv, Moves

LEMMA ReplayMoves ==
  ASSUME JournalInv, ReadRow \/ DeferBlocked \/ DeferOrphan \/ PassAgain
  PROVE  Moves
<1>1. JournalTypes /\ ReplayOrder /\ undo \in Undo
  BY DEF JournalInv, JournalTypes
<1>2. /\ undo.todo \in SUBSET Nat /\ undo.deferred \in SUBSET Nat
      /\ undo.todo \subseteq undo.of /\ undo.deferred \subseteq undo.of
      /\ undo.of \subseteq DOMAIN journal
  BY <1>1 DEF Undo, ReplayOrder, Rest
<1>3. \A i \in undo.deferred : journal[i].row \in undo.blocked /\ \A k \in undo.todo : k < i
  BY <1>1 DEF ReplayOrder
<1>4. CASE ReadRow
  <2>1. /\ undo' = [undo EXCEPT !.at = "write"]
        /\ undo.todo # {} /\ NextEntry.row \notin undo.blocked /\ Untouched(NextEntry)
        /\ UNCHANGED <<initial, table, born, journal, edited, raced>>
    BY <1>4 DEF ReadRow
  <2>2. /\ undo' \in Undo
        /\ undo'.at = "write" /\ undo'.of = undo.of /\ undo'.todo = undo.todo
        /\ undo'.deferred = undo.deferred /\ undo'.blocked = undo.blocked
        /\ undo'.effects = undo.effects /\ undo'.held = undo.held /\ undo'.saved = undo.saved
    BY <1>1, <2>1 DEF Undo
  <2> QED
    BY <1>3, <2>1, <2>2 DEF Moves
<1>5. ASSUME DeferBlocked \/ DeferOrphan PROVE Moves
  <2> DEFINE m == Max(undo.todo)
  <2>1. undo.todo # {}
    BY <1>1, <1>5 DEF DeferBlocked, DeferOrphan, ReplayOrder
  <2>2. /\ m \in undo.todo /\ \A i \in undo.todo : i <= m
        /\ m \in DOMAIN journal /\ NextEntry = journal[m]
    BY <1>1, <2>1, NextInJournal
  <2>3. m \in Nat /\ NextEntry.row \in Records
    BY <1>1, <1>2, <2>2, EntryTypes
  <2>4. /\ UNCHANGED <<initial, table, born, journal, edited, raced>>
        /\ undo' \in Undo
        /\ undo'.at = "read" /\ undo'.of = undo.of /\ undo'.todo = undo.todo \ {m}
        /\ undo'.deferred = undo.deferred \cup {m}
        /\ undo'.effects = undo.effects /\ undo'.held = undo.held /\ undo'.saved = undo.saved
        /\ undo.blocked \subseteq undo'.blocked /\ NextEntry.row \in undo'.blocked
    <3> HIDE DEF m
    <3>1. CASE DeferBlocked
      <4>1. /\ undo' = [undo EXCEPT !.todo = undo.todo \ {m}, !.deferred = undo.deferred \cup {m}]
            /\ UNCHANGED <<initial, table, born, journal, edited, raced>>
            /\ undo.at = "read" /\ NextEntry.row \in undo.blocked
        BY <3>1 DEF DeferBlocked, m
      <4> QED
        BY <1>1, <1>2, <2>3, <4>1 DEF Undo
    <3>2. CASE DeferOrphan
      <4>1. /\ undo' = [undo EXCEPT !.at = "read", !.todo = undo.todo \ {m},
                                    !.deferred = undo.deferred \cup {m},
                                    !.blocked = undo.blocked \cup {NextEntry.row}]
            /\ UNCHANGED <<initial, table, born, journal, edited, raced>>
        BY <3>2 DEF DeferOrphan, m
      <4> QED
        BY <1>1, <1>2, <2>3, <4>1 DEF Undo
    <3> QED
      BY <1>5, <3>1, <3>2
  <2> HIDE DEF m
  <2>5. \A i \in undo'.deferred : journal[i].row \in undo'.blocked /\ \A k \in undo'.todo : k < i
    BY <1>2, <1>3, <2>2, <2>3, <2>4
  <2>6. undo'.todo \cup undo'.deferred = undo.todo \cup undo.deferred
    BY <2>2, <2>4
  <2> QED
    BY <2>4, <2>5, <2>6 DEF Moves
<1>6. CASE PassAgain
  <2>1. Cardinality(undo.deferred) \in Nat
    BY <1>1, <1>2, EntriesAreFinite
  <2>2. /\ undo' = [undo EXCEPT !.todo = undo.deferred, !.deferred = {},
                                !.pass = Cardinality(undo.deferred), !.blocked = {}]
        /\ UNCHANGED <<initial, table, born, journal, edited, raced>>
        /\ undo.at = "read" /\ undo.todo = {}
    BY <1>6 DEF PassAgain
  <2>3. /\ undo' \in Undo
        /\ undo'.at = "read" /\ undo'.of = undo.of /\ undo'.todo = undo.deferred
        /\ undo'.deferred = {}
        /\ undo'.effects = undo.effects /\ undo'.held = undo.held /\ undo'.saved = undo.saved
    BY <1>1, <1>2, <2>1, <2>2 DEF Undo
  <2> QED
    BY <2>2, <2>3 DEF Moves
<1> QED
  BY <1>4, <1>5, <1>6

(* What the inverse of entry m of row x changes, kids being the rows that   *)
(* its cascade takes along.                                                 *)
Reverts(m, x, kids) ==
  /\ m \in undo.todo /\ m \in undo.of \ Undone /\ m \in DOMAIN journal
  /\ \A i \in undo.todo : i <= m
  /\ NextEntry = journal[m] /\ journal[m].row = x /\ x \in Records
  /\ kids \in SUBSET (Records \ {x})
  /\ \A k \in kids : table[k] # 0 /\ journal[m].op = "insert" /\ table[x] # 0
  /\ UNCHANGED <<initial, born, journal, edited, raced>>
  /\ table' \in [Records -> 0 .. MaxValue]
  /\ \A q \in Records \ ({x} \cup kids) : table'[q] = table[q]
  /\ \A k \in kids : table'[k] = 0
  /\ table[x] = 0 /\ journal[m].op # "delete" => table'[x] = 0
  /\ table[x] # 0 \/ journal[m].op = "delete" => table'[x] = journal[m].before /\ x \in undo'.held
  /\ undo' \in Undo
  /\ undo'.at = "read" /\ undo'.of = undo.of /\ undo'.todo = undo.todo \ {m}
  /\ undo'.deferred = undo.deferred /\ undo'.blocked = undo.blocked
  /\ undo.held \subseteq undo'.held /\ undo'.held \subseteq undo.held \cup {x} \cup kids
  /\ kids \subseteq undo'.held
  /\ undo.effects \subseteq undo'.effects
  /\ \A k \in kids : <<k, "delete">> \in undo'.effects
  /\ \A q \in Records : (IF q \in undo'.held THEN undo'.saved[q] ELSE table'[q])
                          = (IF q \in undo.held THEN undo.saved[q] ELSE table[q])

LEMMA WriteRowEffect ==
  ASSUME JournalInv, WriteRow
  PROVE  \E m, x, kids : Reverts(m, x, kids)
<1> DEFINE m == Max(undo.todo)
           x == NextEntry.row
           gone == table[x] = 0 /\ NextEntry.op # "delete"
           kids == IF NextEntry.op = "insert" /\ ~gone THEN Children(x) ELSE {}
           changes == InverseChanges
           rows == {e.row : e \in changes}
           own == [row |-> x, op |-> InverseOperation[NextEntry.op], after |-> NextEntry.before]
           Kid(k) == [row |-> k, op |-> "delete", after |-> 0]
<1>1. JournalTypes /\ ReplayOrder /\ undo \in Undo
  BY DEF JournalInv, JournalTypes
<1>2. undo.todo # {} /\ undo.at = "write"
  BY <1>1 DEF WriteRow, ReplayOrder
<1>3. /\ m \in undo.todo /\ m \in undo.of \ Undone /\ m \in DOMAIN journal
      /\ \A i \in undo.todo : i <= m
      /\ NextEntry = journal[m]
  BY <1>1, <1>2, NextInJournal
<1>4. /\ journal[m] \in Entry /\ x \in Records /\ journal[m].before \in 0 .. MaxValue
      /\ journal[m].op \in {"insert", "update", "delete"}
  BY <1>1, <1>3, EntryTypes
<1>5. /\ kids \in SUBSET (Records \ {x})
      /\ \A k \in kids : table[k] # 0 /\ journal[m].op = "insert" /\ table[x] # 0
  BY <1>3, <1>4, JournalAssumption DEF Children
<1>6. /\ table' = Applied(table, changes)
      /\ undo' = [undo EXCEPT
           !.at = "read", !.todo = undo.todo \ {m},
           !.held = undo.held \cup rows,
           !.saved = [r \in Records |-> IF r \in rows \ undo.held
                                        THEN table[r] ELSE undo.saved[r]],
           !.effects = undo.effects \cup {<<e.row, e.op>> : e \in changes}]
      /\ UNCHANGED <<initial, born, journal, edited, raced>>
  BY DEF WriteRow
<1>7. changes = IF gone THEN {} ELSE {own} \cup {Kid(k) : k \in kids}
  BY DEF InverseChanges
<1>8. InverseOperation[NextEntry.op] \in {"insert", "update", "delete"}
  BY <1>3, <1>4 DEF InverseOperation
<1>9. gone => kids = {}
  OBVIOUS
<1>10. own.row = x /\ own.after = journal[m].before /\ own.op \in {"insert", "update", "delete"}
  BY <1>3, <1>8
<1>11. \A k : Kid(k).row = k /\ Kid(k).after = 0 /\ Kid(k).op = "delete"
  OBVIOUS
<1> HIDE DEF kids, changes, own, Kid
<1>12. \A e \in changes : e = own \/ \E k \in kids : e = Kid(k)
  BY <1>7
<1>13. /\ ~gone => own \in changes /\ \A k \in kids : Kid(k) \in changes
       /\ gone => changes = {} /\ kids = {}
  BY <1>7, <1>9
<1> HIDE DEF gone, x, m
<1>14. \A e, f \in changes : e.row = f.row => e = f
  BY <1>5, <1>10, <1>11, <1>12
<1>15. \A e \in changes : e.row \in {x} \cup kids
  BY <1>10, <1>11, <1>12
<1>16. \A q \in Records \ ({x} \cup kids) : table'[q] = table[q]
  BY <1>6, <1>14, <1>15, AppliedIs
<1>17. \A k \in kids : table'[k] = 0
  <2> TAKE k \in kids
  <2>1. Kid(k) \in changes /\ k \in Records
    BY <1>5, <1>13
  <2> QED
    BY <1>6, <1>11, <1>14, <2>1, AppliedIs
<1>18. ~gone => table'[x] = journal[m].before
  BY <1>4, <1>6, <1>10, <1>13, <1>14, AppliedIs
<1>19. gone => table'[x] = table[x]
  BY <1>4, <1>6, <1>13, <1>14, AppliedIs
<1>20. table' \in [Records -> 0 .. MaxValue]
  <2>1. 0 \in 0 .. MaxValue
    BY JournalAssumption
  <2>2. \A q \in Records : table[q] \in 0 .. MaxValue
    BY <1>1 DEF JournalTypes
  <2>3. \A q \in Records : table'[q] \in 0 .. MaxValue
    BY <1>4, <1>16, <1>17, <1>18, <1>19, <2>1, <2>2
  <2>4. table' = [q \in Records |-> table'[q]]
    BY <1>6 DEF Applied
  <2> QED
    BY <2>3, <2>4
<1>21. /\ rows \subseteq {x} \cup kids
       /\ ~gone => x \in rows
       /\ kids \subseteq rows
  BY <1>10, <1>11, <1>13, <1>15
<1>22. /\ {<<e.row, e.op>> : e \in changes} \subseteq Records \X {"insert", "update", "delete"}
       /\ \A k \in kids : <<k, "delete">> \in {<<e.row, e.op>> : e \in changes}
  <2>1. \A e \in changes : e.row \in Records /\ e.op \in {"insert", "update", "delete"}
    BY <1>4, <1>5, <1>10, <1>11, <1>12
  <2>2. \A k \in kids : Kid(k) \in changes /\ <<Kid(k).row, Kid(k).op>> = <<k, "delete">>
    BY <1>11, <1>13
  <2> QED
    BY <2>1, <2>2
<1> DEFINE moreEffects == {<<e.row, e.op>> : e \in changes}
           newSaved == [r \in Records |-> IF r \in rows \ undo.held
                                          THEN table[r] ELSE undo.saved[r]]
<1>23. rows \subseteq Records /\ newSaved \in [Records -> 0 .. MaxValue]
  <2>1. undo.saved \in [Records -> 0 .. MaxValue]
    BY <1>1 DEF Undo
  <2> QED
    BY <1>1, <1>4, <1>5, <1>21, <2>1 DEF JournalTypes
<1>24. /\ undo'.saved = newSaved
       /\ undo' \in Undo
       /\ undo'.at = "read" /\ undo'.of = undo.of /\ undo'.todo = undo.todo \ {m}
       /\ undo'.deferred = undo.deferred /\ undo'.blocked = undo.blocked
       /\ undo'.held = undo.held \cup rows
       /\ undo'.effects = undo.effects \cup moreEffects
  <2> HIDE DEF rows, moreEffects, newSaved
  <2>1. undo' = [undo EXCEPT !.at = "read", !.todo = undo.todo \ {m},
                             !.held = undo.held \cup rows, !.saved = newSaved,
                             !.effects = undo.effects \cup moreEffects]
    BY <1>6 DEF moreEffects, newSaved
  <2>2. moreEffects \subseteq Records \X {"insert", "update", "delete"}
    BY <1>22 DEF moreEffects
  <2> QED
    BY <1>1, <1>23, <2>1, <2>2 DEF Undo
<1>25. \A q \in Records : (IF q \in undo'.held THEN undo'.saved[q] ELSE table'[q])
                            = (IF q \in undo.held THEN undo.saved[q] ELSE table[q])
  <2> TAKE q \in Records
  <2>1. CASE q \in undo.held
    BY <1>24, <2>1
  <2>2. CASE q \notin undo.held /\ q \in rows
    BY <1>24, <2>2
  <2>3. CASE q \notin undo.held /\ q \notin rows
    <3>1. table'[q] = table[q]
      BY <1>16, <1>19, <1>21, <2>3
    <3> QED
      BY <1>24, <2>3, <3>1
  <2> QED
    BY <2>1, <2>2, <2>3
<1>26. table[x] = 0 /\ journal[m].op # "delete" <=> gone
  BY <1>3 DEF gone
<1>27. journal[m].row = x
  BY <1>3 DEF x
<1> HIDE DEF rows, moreEffects, newSaved
<1>28. \A k \in kids : <<k, "delete">> \in undo'.effects
  BY <1>22, <1>24 DEF moreEffects
<1>29. Reverts(m, x, kids)
  BY <1>3, <1>4, <1>5, <1>6, <1>16, <1>17, <1>18, <1>19, <1>20, <1>21, <1>24, <1>25, <1>26,
     <1>27, <1>28
     DEF Reverts
<1> QED
  BY <1>29

LEMMA RevertKeeps ==
  ASSUME JournalInv, NEW m, NEW x, NEW kids, Reverts(m, x, kids), undo.at = "write"
  PROVE  JournalInv'
<1>1. /\ JournalTypes /\ EntriesTell /\ BornOnce /\ ReplayOrder /\ HeldRows
      /\ Agree(journal, Stored, Undone, ~raced)
      /\ Agree(journal, table, Undone \cup Reverted, ~raced)
  BY DEF JournalInv
<1>2. /\ m \in undo.todo /\ m \in undo.of \ Undone /\ m \in DOMAIN journal
      /\ \A i \in undo.todo : i <= m
      /\ NextEntry = journal[m] /\ journal[m].row = x /\ x \in Records
      /\ kids \in SUBSET (Records \ {x})
      /\ UNCHANGED <<initial, born, journal, edited, raced>>
  BY DEF Reverts
<1>3. undo.of \subseteq DOMAIN journal \ Undone /\ Rest \subseteq undo.of
  BY <1>1 DEF ReplayOrder
<1>4. \A i \in DOMAIN journal : i \in Nat /\ journal[i].row \in Records
  BY <1>1, EntryTypes
<1>5. m \notin undo.deferred
  BY <1>1, <1>2, <1>4 DEF ReplayOrder
<1>6. /\ Rest' = Rest \ {m} /\ Reverted' = Reverted \cup {m}
      /\ m \in Rest /\ m \notin Reverted
  BY <1>2, <1>5 DEF Rest, Reverted, Reverts
<1>7. Undone' = Undone /\ \A r : Entries(r)' = Entries(r)
  BY <1>2 DEF Undone, Entries
<1>8. \A r, i : i \in Entries(r) <=> i \in DOMAIN journal /\ journal[i].row = r
  BY DEF Entries
<1>9. JournalTypes'
  BY <1>1, <1>2 DEF JournalTypes, Reverts
<1>10. EntriesTell'
  BY <1>1, <1>2 DEF EntriesTell
<1>11. x \in born /\ kids \subseteq born
  BY <1>1, <1>2, <1>8 DEF BornOnce, Reverts
<1>12. BornOnce'
  <2>1. \A r \in Records \ born : table'[r] = 0
    BY <1>1, <1>11 DEF BornOnce, Reverts
  <2>2. undo'.held \subseteq born
    BY <1>1, <1>11 DEF BornOnce, Reverts
  <2> QED
    BY <1>1, <1>2, <1>7, <2>1, <2>2 DEF BornOnce
<1>13. ReplayOrder'
  <2>1. ASSUME NEW i \in Reverted', NEW k \in Rest', journal[i].row = journal[k].row
        PROVE  k < i
    <3>1. CASE i \in Reverted
      BY <1>1, <1>6, <2>1, <3>1 DEF ReplayOrder
    <3>2. CASE i = m /\ k \in undo.todo
      BY <1>2, <1>3, <1>4, <1>6, <2>1, <3>2 DEF Rest
    <3>3. CASE i = m /\ k \in undo.deferred
      <4>1. journal[k].row \in undo.blocked /\ x \notin undo.blocked
        BY <1>1, <1>2, <3>3 DEF ReplayOrder
      <4> QED
        BY <1>2, <2>1, <3>3, <4>1
    <3> QED
      BY <1>6, <2>1, <3>1, <3>2, <3>3 DEF Rest
  <2>2. undo'.at = "read" /\ undo'.of = undo.of /\ undo'.deferred = undo.deferred
          /\ undo'.blocked = undo.blocked /\ undo'.todo \subseteq undo.todo
    BY DEF Reverts
  <2> QED
    BY <1>1, <1>2, <1>3, <1>6, <1>7, <2>1, <2>2 DEF ReplayOrder
<1>14. /\ journal[m].before = 0 <=> journal[m].op = "insert"
       /\ journal[m].after = 0 <=> journal[m].op = "delete"
  BY <1>1, <1>2 DEF EntriesTell
<1>15. ~raced => /\ journal[m].op = "delete" => table[x] = 0
                 /\ journal[m].op # "delete" => table[x] # 0
  <2>1. ~raced => Compared[table[x]] = Compared[journal[m].after]
    BY <1>1, <1>2 DEF HeldRows, Untouched
  <2>2. table[x] \in 0 .. MaxValue /\ journal[m].after \in 0 .. MaxValue
    BY <1>1, <1>2, EntryTypes DEF JournalTypes, Entry
  <2> QED
    BY <1>14, <2>1, <2>2, JournalAssumption
<1> DEFINE closed == Undone \cup Reverted
           open == {i \in DOMAIN journal \ closed : journal[i].op = "delete"}
<1>16. /\ \A i \in open : table[journal[i].row] = 0
       /\ \A i, k \in open : journal[i].row = journal[k].row => i = k
       /\ ~raced => \A i \in closed : journal[i].op = "insert" =>
                      /\ table[journal[i].row] = 0
                      /\ \A k \in open : journal[k].row # journal[i].row
  BY <1>1 DEF Agree
<1>17. m \notin closed
  BY <1>2, <1>6
<1>18. HeldRows'
  <2>1. ASSUME ~raced'
        PROVE  /\ \A i \in Reverted' : journal'[i].row \in undo'.held
               /\ \A r \in undo'.held : Back(r)' \/ Swept(r)'
    <3>1. ~raced /\ x \in undo'.held /\ table'[x] = journal[m].before
      BY <1>2, <1>15, <2>1 DEF Reverts
    <3>2. \A i \in Reverted' : journal'[i].row \in undo'.held
      BY <1>1, <1>2, <1>6, <3>1 DEF HeldRows, Reverts
    <3>3. Back(x)'
      <4>1. \A i \in Reverted \cap Entries(x) : m <= i
        BY <1>1, <1>2, <1>3, <1>4, <1>6, <1>8 DEF ReplayOrder, Reverted
      <4>2. \A i \in Reverted' \cap Entries(x) : m <= i
        BY <1>2, <1>4, <1>6, <4>1
      <4>3. m \in Reverted' \cap Entries(x)
        BY <1>2, <1>6, <1>8
      <4> QED
        BY <1>2, <1>7, <3>1, <4>2, <4>3 DEF Back
    <3>4. ASSUME NEW k \in kids PROVE Swept(k)'
      <4>1. table[k] # 0 /\ k # x /\ <<k, "delete">> \in undo'.effects /\ table'[k] = 0
        BY <1>2 DEF Reverts
      <4>2. ASSUME NEW i \in Entries(k)
            PROVE  /\ journal[i].op = "insert" => i \notin Reverted'
                   /\ journal[i].op = "delete" => i \in Undone \cup Reverted'
        <5>1. i \in DOMAIN journal /\ journal[i].row = k /\ i # m
          BY <1>2, <1>8, <4>1
        <5>2. journal[i].op = "insert" => i \notin Reverted
          BY <1>16, <3>1, <4>1, <5>1
        <5>3. journal[i].op = "delete" => i \in closed
          BY <1>16, <4>1, <5>1
        <5> QED
          BY <1>6, <5>1, <5>2, <5>3
      <4> QED
        BY <1>2, <1>7, <4>1, <4>2 DEF Swept
    <3>5. ASSUME NEW r \in undo.held, r # x, r \notin kids PROVE Back(r)' \/ Swept(r)'
      <4>1. r \in Records /\ table'[r] = table[r]
        <5>1. undo.held \subseteq Records
          BY <1>1 DEF JournalTypes, Undo
        <5> QED
          BY <3>5, <5>1 DEF Reverts
      <4>2. Reverted' \cap Entries(r) = Reverted \cap Entries(r)
        BY <1>2, <1>6, <1>8, <3>5
      <4>3. Back(r) \/ Swept(r)
        BY <1>1, <3>1 DEF HeldRows
      <4>4. Back(r) => Back(r)'
        BY <1>2, <1>7, <4>1, <4>2 DEF Back
      <4>5. Swept(r) => Swept(r)'
        <5>1. <<r, "delete">> \in undo.effects => <<r, "delete">> \in undo'.effects
          BY DEF Reverts
        <5> QED
          BY <1>2, <1>6, <1>7, <1>8, <3>5, <4>1, <5>1 DEF Swept
      <4> QED
        BY <4>3, <4>4, <4>5
    <3>6. undo'.held \subseteq undo.held \cup {x} \cup kids
      BY DEF Reverts
    <3> QED
      BY <3>2, <3>3, <3>4, <3>5, <3>6
  <2>2. ASSUME NEW r \in undo'.held
        PROVE  undo'.of \cap Entries(r)' # {} \/ <<r, "delete">> \in undo'.effects
    <3>1. CASE r = x
      <4>1. m \in undo'.of \cap Entries(r)'
        BY <1>2, <1>7, <1>8, <3>1 DEF Reverts
      <4> QED
        BY <4>1
    <3>2. CASE r \in kids
      BY <3>2 DEF Reverts
    <3>3. CASE r \in undo.held
      BY <1>1, <1>7, <3>3 DEF HeldRows, Reverts
    <3> QED
      BY <2>2, <3>1, <3>2, <3>3 DEF Reverts
  <2>3. undo'.at = "read"
    BY DEF Reverts
  <2> QED
    BY <2>1, <2>2, <2>3 DEF HeldRows
<1>19. Stored' = Stored
  BY DEF Stored, Reverts
<1>20. Agree(journal', Stored', Undone', ~raced')
  BY <1>1, <1>2, <1>7, <1>19
<1>21. Agree(journal, table', closed \cup {m}, ~raced)
  <2> DEFINE left == {i \in DOMAIN journal \ (closed \cup {m}) : journal[i].op = "delete"}
  <2>1. \A i \in left : i \in open /\ i # m
    OBVIOUS
  <2>2. \A i \in left : journal[i].row = x => table[x] = 0 /\ journal[m].op # "delete"
    BY <1>2, <1>16, <1>17, <2>1
  <2>3. \A i \in left : table'[journal[i].row] = 0
    <3> TAKE i \in left
    <3>1. journal[i].row \in Records /\ table[journal[i].row] = 0
      BY <1>4, <1>16, <2>1
    <3>2. CASE journal[i].row = x
      BY <2>2, <3>2 DEF Reverts
    <3>3. CASE journal[i].row # x
      BY <3>1, <3>3 DEF Reverts
    <3> QED
      BY <3>2, <3>3
  <2>4. \A i, k \in left : journal[i].row = journal[k].row => i = k
    BY <1>16, <2>1
  <2>5. ASSUME ~raced, NEW i \in closed \cup {m}, journal[i].op = "insert"
        PROVE  /\ table'[journal[i].row] = 0
               /\ \A k \in left : journal[k].row # journal[i].row
    <3>1. CASE i = m
      <4>1. table[x] # 0 /\ journal[m].before = 0
        BY <1>14, <1>15, <2>5, <3>1
      <4>2. table'[x] = 0
        BY <4>1 DEF Reverts
      <4> QED
        BY <1>2, <2>2, <3>1, <4>1, <4>2
    <3>2. CASE i \in closed
      <4>1. /\ table[journal[i].row] = 0
            /\ \A k \in open : journal[k].row # journal[i].row
        BY <1>16, <2>5, <3>2
      <4>2. journal[i].row # x
        BY <1>2, <1>15, <1>17, <2>5, <4>1
      <4>3. journal[i].row \in Records
        BY <1>3, <1>4, <3>2 DEF Undone, Reverted
      <4>4. table'[journal[i].row] = 0
        BY <4>1, <4>2, <4>3 DEF Reverts
      <4> QED
        BY <2>1, <4>1, <4>4
    <3> QED
      BY <2>5, <3>1, <3>2
  <2> QED
    BY <2>3, <2>4, <2>5 DEF Agree
<1>22. Undone' \cup Reverted' = closed \cup {m}
  BY <1>6, <1>7
<1>23. Agree(journal', table', Undone' \cup Reverted', ~raced')
  BY <1>2, <1>21, <1>22
<1> QED
  BY <1>9, <1>10, <1>12, <1>13, <1>18, <1>20, <1>23 DEF JournalInv

LEMMA JournalInitHolds == JournalInit => JournalInv
<1> SUFFICES ASSUME JournalInit PROVE JournalInv
  OBVIOUS
<1>1. /\ journal = <<>> /\ DOMAIN journal = {} /\ undo = NoUndo /\ ~raced
      /\ initial \in InitialTables /\ table = initial
      /\ born = {r \in Records : initial[r] # 0} /\ edited = FALSE /\ raced = FALSE
  BY DEF JournalInit
<1>2. Rest = {} /\ Reverted = {} /\ undo.held = {} /\ undo.at = "none" /\ undo.of = {}
  BY <1>1, NoUndoIs DEF Rest, Reverted
<1>3. Undone = {} /\ \A r : Entries(r) = {}
  BY <1>1 DEF Undone, Entries
<1>4. JournalTypes
  <2>1. table \in [Records -> 0 .. MaxValue]
    BY <1>1, JournalAssumption
  <2>2. journal \in Seq(Entry)
    BY <1>1
  <2>3. undo \in Undo
    BY <1>1, NoUndoIs
  <2>4. born \subseteq Records /\ edited \in BOOLEAN /\ raced \in BOOLEAN
    BY <1>1
  <2> QED
    BY <1>1, <2>1, <2>2, <2>3, <2>4 DEF JournalTypes
<1>5. EntriesTell /\ BornOnce
  BY <1>1, <1>2, <1>3 DEF EntriesTell, BornOnce
<1>6. ReplayOrder /\ HeldRows
  BY <1>1, <1>2, <1>3, NoUndoIs DEF ReplayOrder, HeldRows
<1>7. /\ Agree(journal, Stored, Undone, ~raced)
      /\ Agree(journal, table, Undone \cup Reverted, ~raced)
  BY <1>1, <1>2, <1>3 DEF Agree
<1> QED
  BY <1>4, <1>5, <1>6, <1>7 DEF JournalInv

LEMMA JournalStepHolds == JournalInv /\ [JournalNext]_journalVars => JournalInv'
<1> SUFFICES ASSUME JournalInv, [JournalNext]_journalVars PROVE JournalInv'
  OBVIOUS
<1>1. ASSUME NEW c \in ToolCalls, NEW r \in Records, NEW op \in {"insert", "update", "delete"},
             NEW v \in 0 .. MaxValue, AgentWrites(c, r, op, v)
      PROVE  JournalInv'
  <2>1. Writes(c, r, op, v, TRUE)
    BY <1>1 DEF AgentWrites
  <2>2. \E W : Wrote(W, r, op, TRUE)
    BY <2>1, WriteEffect
  <2> QED
    BY <2>2, WriteKeeps
<1>2. ASSUME NEW r \in Records, NEW op \in {"insert", "update", "delete"},
             NEW v \in 0 .. MaxValue, UserWrites(r, op, v)
      PROVE  JournalInv'
  <2>1. Writes(CHOOSE c \in ToolCalls : TRUE, r, op, v, FALSE)
    BY <1>2 DEF UserWrites
  <2>2. \E W : Wrote(W, r, op, FALSE)
    BY <2>1, WriteEffect
  <2> QED
    BY <2>2, WriteKeeps
<1>3. ASSUME NEW c \in ToolCalls, BeginUndo(c) PROVE JournalInv'
  BY <1>3, BeginKeeps
<1>4. CASE ReadRow \/ DeferBlocked \/ DeferOrphan \/ PassAgain
  BY <1>4, ReplayMoves, MoveKeeps
<1>5. CASE RefuseModified \/ RefuseReconciled \/ RefuseOrphans \/ RefuseSideEffects
  <2>1. RollBack
    BY <1>5 DEF RefuseModified, RefuseReconciled, RefuseOrphans, RefuseSideEffects
  <2> QED
    BY <2>1, RollBackKeeps
<1>6. CASE WriteRow
  <2>1. undo.at = "write"
    BY <1>6 DEF WriteRow
  <2> QED
    BY <1>6, <2>1, WriteRowEffect, RevertKeeps
<1>7. CASE CommitUndo
  BY <1>7, CommitKeeps
<1>8. CASE UNCHANGED journalVars
  <2>1. /\ UNCHANGED <<initial, table, born, journal, undo, edited, raced>>
    BY <1>8 DEF journalVars
  <2>2. Rest' = Rest /\ Reverted' = Reverted /\ Undone' = Undone /\ Stored' = Stored
          /\ \A r : Entries(r)' = Entries(r)
    BY <2>1 DEF Rest, Reverted, Undone, Stored, Entries
  <2>3. \A r : Back(r)' = Back(r) /\ Swept(r)' = Swept(r)
    BY <2>1, <2>2 DEF Back, Swept
  <2>4. NextEntry' = NextEntry /\ Untouched(NextEntry)' = Untouched(NextEntry)
    BY <2>1 DEF NextEntry, Untouched
  <2>5. JournalTypes' /\ EntriesTell' /\ BornOnce'
    BY <2>1, <2>2 DEF JournalInv, JournalTypes, EntriesTell, BornOnce
  <2>6. ReplayOrder' /\ HeldRows'
    BY <2>1, <2>2, <2>3, <2>4 DEF JournalInv, ReplayOrder, HeldRows
  <2> QED
    BY <2>1, <2>2, <2>5, <2>6 DEF JournalInv
<1> QED
  BY <1>1, <1>2, <1>3, <1>4, <1>5, <1>6, <1>7, <1>8, Zenon DEF JournalNext, UndoStep

--------------------------------------------------------------------------------
(* What the entries that are not closed have done to a row, as a balance:   *)
(* how often they brought it to a value, less how often they took it away   *)
(* from it, values that are compared as equal being one.                    *)

Into(j, closed, r, c) ==
  {i \in DOMAIN j \ closed : j[i].row = r /\ Compared[j[i].after] = c}

OutOf(j, closed, r, c) ==
  {i \in DOMAIN j \ closed : j[i].row = r /\ Compared[j[i].before] = c}

Balance(j, closed, r, c) ==
  Cardinality(Into(j, closed, r, c)) - Cardinality(OutOf(j, closed, r, c))

Is(v, c) == IF Compared[v] = c THEN 1 ELSE 0

(* The row is where these entries led it from where b had it. *)
Balanced(b, j, t, closed, r) ==
  \A c : Balance(j, closed, r, c) = Is(t[r], c) - Is(b[r], c)

Even ==
  ~edited /\ ~raced =>
    \A r \in Records :
      /\ Balanced(initial, journal, Stored, Undone, r)
      /\ (r \in undo.held /\ Swept(r)) \/ Balanced(initial, journal, table, Undone \cup Reverted, r)

LEMMA IntoOutOfFinite ==
  ASSUME NEW j \in Seq(Entry), NEW closed, NEW r, NEW c
  PROVE  /\ IsFiniteSet(Into(j, closed, r, c)) /\ IsFiniteSet(OutOf(j, closed, r, c))
         /\ Cardinality(Into(j, closed, r, c)) \in Nat
         /\ Cardinality(OutOf(j, closed, r, c)) \in Nat
<1>1. DOMAIN j = 1 .. Len(j) /\ Len(j) \in Nat
  OBVIOUS
<1>2. IsFiniteSet(DOMAIN j)
  BY <1>1, FS_Interval
<1>3. /\ Into(j, closed, r, c) \in SUBSET DOMAIN j
      /\ OutOf(j, closed, r, c) \in SUBSET DOMAIN j
  BY DEF Into, OutOf
<1> QED
  BY <1>2, <1>3, FS_Subset, FS_CardinalityType

(* The balance of a row depends on its open entries only. *)
LEMMA BalanceSame ==
  ASSUME NEW j, NEW k, NEW closed, NEW shut, NEW r, NEW c,
         \A i : i \in DOMAIN j \ closed /\ j[i].row = r
                  <=> i \in DOMAIN k \ shut /\ k[i].row = r,
         \A i \in DOMAIN j \ closed :
           j[i].row = r => k[i].before = j[i].before /\ k[i].after = j[i].after
  PROVE  Balance(k, shut, r, c) = Balance(j, closed, r, c)
<1>1. /\ Into(k, shut, r, c) = Into(j, closed, r, c)
      /\ OutOf(k, shut, r, c) = OutOf(j, closed, r, c)
  BY DEF Into, OutOf
<1> QED
  BY <1>1 DEF Balance

(* k is j with the entry n of its row, and perhaps others of other rows. *)
Grown(j, k, n) ==
  /\ \A i \in DOMAIN j : i \in DOMAIN k /\ k[i] = j[i]
  /\ n \in DOMAIN k \ DOMAIN j
  /\ \A i \in DOMAIN k \ DOMAIN j : k[i].row = k[n].row => i = n

MovesBalance(j, k, closed, n) ==
  \A c : Balance(k, closed, k[n].row, c)
          = Balance(j, closed, k[n].row, c) + Is(k[n].after, c) - Is(k[n].before, c)

(* An entry more. *)
LEMMA BalanceMore ==
  ASSUME NEW j \in Seq(Entry), NEW k \in Seq(Entry), NEW closed, closed \subseteq DOMAIN j,
         NEW n, Grown(j, k, n)
  PROVE  MovesBalance(j, k, closed, n)
<1> SUFFICES ASSUME NEW c
             PROVE  Balance(k, closed, k[n].row, c)
                      = Balance(j, closed, k[n].row, c) + Is(k[n].after, c) - Is(k[n].before, c)
  BY DEF MovesBalance
<1> DEFINE r == k[n].row
<1> HIDE DEF r
<1>1. n \notin Into(j, closed, r, c) /\ n \notin OutOf(j, closed, r, c)
  BY DEF Grown, Into, OutOf, r
<1>2. Into(k, closed, r, c) =
        IF Compared[k[n].after] = c THEN Into(j, closed, r, c) \cup {n}
        ELSE Into(j, closed, r, c)
  BY DEF Grown, Into, r
<1>3. OutOf(k, closed, r, c) =
        IF Compared[k[n].before] = c THEN OutOf(j, closed, r, c) \cup {n}
        ELSE OutOf(j, closed, r, c)
  BY DEF Grown, OutOf, r
<1>4. /\ Cardinality(Into(j, closed, r, c)) \in Nat
      /\ Cardinality(OutOf(j, closed, r, c)) \in Nat
      /\ Cardinality(Into(j, closed, r, c) \cup {n}) = Cardinality(Into(j, closed, r, c)) + 1
      /\ Cardinality(OutOf(j, closed, r, c) \cup {n}) = Cardinality(OutOf(j, closed, r, c)) + 1
  BY <1>1, IntoOutOfFinite, FS_AddElement
<1>5. Cardinality(Into(k, closed, r, c))
        = Cardinality(Into(j, closed, r, c)) + Is(k[n].after, c)
  BY <1>2, <1>4 DEF Is
<1>6. Cardinality(OutOf(k, closed, r, c))
        = Cardinality(OutOf(j, closed, r, c)) + Is(k[n].before, c)
  BY <1>3, <1>4 DEF Is
<1>7. Is(k[n].after, c) \in Int /\ Is(k[n].before, c) \in Int
  BY DEF Is
<1> QED
  BY <1>4, <1>5, <1>6, <1>7 DEF Balance, r

(* An entry closed. *)
LEMMA BalanceLess ==
  ASSUME NEW j \in Seq(Entry), NEW closed, NEW m \in DOMAIN j \ closed, NEW c
  PROVE  Balance(j, closed \cup {m}, j[m].row, c)
           = Balance(j, closed, j[m].row, c) - Is(j[m].after, c) + Is(j[m].before, c)
<1> DEFINE r == j[m].row
<1> HIDE DEF r
<1>1. Into(j, closed \cup {m}, r, c) = Into(j, closed, r, c) \ {m}
  BY DEF Into, r
<1>2. OutOf(j, closed \cup {m}, r, c) = OutOf(j, closed, r, c) \ {m}
  BY DEF OutOf, r
<1>3. /\ m \in Into(j, closed, r, c) <=> Compared[j[m].after] = c
      /\ m \in OutOf(j, closed, r, c) <=> Compared[j[m].before] = c
  BY DEF Into, OutOf, r
<1>4. /\ Cardinality(Into(j, closed, r, c)) \in Nat
      /\ Cardinality(OutOf(j, closed, r, c)) \in Nat
      /\ Cardinality(Into(j, closed, r, c) \ {m})
           = IF m \in Into(j, closed, r, c) THEN Cardinality(Into(j, closed, r, c)) - 1
             ELSE Cardinality(Into(j, closed, r, c))
      /\ Cardinality(OutOf(j, closed, r, c) \ {m})
           = IF m \in OutOf(j, closed, r, c) THEN Cardinality(OutOf(j, closed, r, c)) - 1
             ELSE Cardinality(OutOf(j, closed, r, c))
  BY IntoOutOfFinite, FS_RemoveElement
<1>5. Cardinality(Into(j, closed \cup {m}, r, c))
        = Cardinality(Into(j, closed, r, c)) - Is(j[m].after, c)
  <2>1. CASE Compared[j[m].after] = c
    BY <1>1, <1>3, <1>4, <2>1 DEF Is
  <2>2. CASE Compared[j[m].after] # c
    <3>1. Is(j[m].after, c) = 0
      BY <2>2 DEF Is
    <3>2. Cardinality(Into(j, closed \cup {m}, r, c)) = Cardinality(Into(j, closed, r, c))
      BY <1>1, <1>3, <1>4, <2>2
    <3> QED
      BY <1>4, <3>1, <3>2
  <2> QED
    BY <2>1, <2>2
<1>6. Cardinality(OutOf(j, closed \cup {m}, r, c))
        = Cardinality(OutOf(j, closed, r, c)) - Is(j[m].before, c)
  <2>1. CASE Compared[j[m].before] = c
    BY <1>2, <1>3, <1>4, <2>1 DEF Is
  <2>2. CASE Compared[j[m].before] # c
    <3>1. Is(j[m].before, c) = 0
      BY <2>2 DEF Is
    <3>2. Cardinality(OutOf(j, closed \cup {m}, r, c)) = Cardinality(OutOf(j, closed, r, c))
      BY <1>2, <1>3, <1>4, <2>2
    <3> QED
      BY <1>4, <3>1, <3>2
  <2> QED
    BY <2>1, <2>2
<1>7. Is(j[m].after, c) \in Int /\ Is(j[m].before, c) \in Int
  BY DEF Is
<1> QED
  BY <1>4, <1>5, <1>6, <1>7 DEF Balance, r

LEMMA BalanceType ==
  ASSUME NEW j \in Seq(Entry), NEW closed, NEW r, NEW c
  PROVE  Balance(j, closed, r, c) \in Int
BY IntoOutOfFinite DEF Balance

LEMMA IsType == \A v, c : Is(v, c) \in Int
BY DEF Is

LEMMA EvenInit == JournalInit => Even
<1> SUFFICES ASSUME JournalInit, NEW r \in Records
             PROVE  /\ Balanced(initial, journal, Stored, Undone, r)
                    /\ Balanced(initial, journal, table, Undone \cup Reverted, r)
  BY DEF Even
<1>1. DOMAIN journal = {} /\ table = initial /\ undo.held = {}
  BY NoUndoIs DEF JournalInit
<1>2. Stored[r] = table[r]
  BY <1>1 DEF Stored
<1>3. ASSUME NEW closed, NEW c
      PROVE  Balance(journal, closed, r, c) = 0
  <2>1. Into(journal, closed, r, c) = {} /\ OutOf(journal, closed, r, c) = {}
    BY <1>1 DEF Into, OutOf
  <2> QED
    BY <2>1, FS_EmptySet DEF Balance
<1> QED
  BY <1>1, <1>2, <1>3, IsType DEF Balanced

(* A write of the assistant moves the row and adds the entry that says so. *)
LEMMA WriteBalances ==
  ASSUME JournalTypes, NEW W, NEW r, NEW op, Wrote(W, r, op, TRUE),
         NEW t, NEW u, \A x \in W : t[x] = table[x] /\ u[x] = table'[x],
         \A x \in Records \ W : u[x] = t[x],
         NEW closed \in SUBSET DOMAIN journal,
         NEW x \in Records, Balanced(initial, journal, t, closed, x)
  PROVE  Balanced(initial', journal', u, closed, x)
<1>1. /\ journal \in Seq(Entry) /\ journal' \in Seq(Entry) /\ initial' = initial
      /\ \A i \in DOMAIN journal : i \in DOMAIN journal' /\ journal'[i] = journal[i]
  BY DEF JournalTypes, Wrote
<1> SUFFICES ASSUME NEW c
             PROVE  Balance(journal', closed, x, c) = Is(u[x], c) - Is(initial[x], c)
  BY <1>1 DEF Balanced
<1>2. Balance(journal, closed, x, c) = Is(t[x], c) - Is(initial[x], c)
  BY DEF Balanced
<1>3. CASE x \in W
  <2>1. PICK n \in DOMAIN journal' \ DOMAIN journal : journal'[n].row = x
    BY <1>3 DEF Wrote
  <2>2. /\ \A i \in DOMAIN journal' \ DOMAIN journal : journal'[i].row = x => i = n
        /\ journal'[n].before = t[x] /\ journal'[n].after = u[x]
    BY <1>3, <2>1 DEF Wrote
  <2>3. Balance(journal', closed, x, c)
          = Balance(journal, closed, x, c) + Is(u[x], c) - Is(t[x], c)
    <3>1. Grown(journal, journal', n) /\ closed \subseteq DOMAIN journal
      BY <1>1, <2>1, <2>2 DEF Grown
    <3>2. Balance(journal', closed, journal'[n].row, c) = Balance(journal, closed, journal'[n].row, c)
            + Is(journal'[n].after, c) - Is(journal'[n].before, c)
      <4>1. MovesBalance(journal, journal', closed, n)
        BY <1>1, <3>1, BalanceMore
      <4> QED
        BY <4>1 DEF MovesBalance
    <3> QED
      BY <2>1, <2>2, <3>2
  <2> QED
    BY <1>2, <2>3, IsType
<1>4. CASE x \notin W
  <2>1. \A i \in DOMAIN journal' \ DOMAIN journal : journal'[i].row # x
    BY <1>4 DEF Wrote
  <2>2. Balance(journal', closed, x, c) = Balance(journal, closed, x, c)
    BY <1>1, <2>1, BalanceSame
  <2> QED
    BY <1>2, <1>4, <2>2
<1> QED
  BY <1>3, <1>4

LEMMA WriteEven ==
  ASSUME JournalInv, Even, NEW W, NEW r, NEW op, NEW agent \in BOOLEAN, Wrote(W, r, op, agent)
  PROVE  Even'
<1> SUFFICES ASSUME ~edited', ~raced', NEW x \in Records
             PROVE  /\ Balanced(initial, journal, Stored, Undone, x)'
                    /\ (x \in undo'.held /\ Swept(x)') \/ Balanced(initial, journal, table, Undone \cup Reverted, x)'
  BY DEF Even
<1>1. /\ ~edited /\ ~raced /\ Wrote(W, r, op, TRUE) /\ undo' = undo
      /\ W \in SUBSET (Records \ undo.held) /\ JournalTypes /\ ReplayOrder
      /\ \A y \in Records \ W : table'[y] = table[y]
      /\ \A i \in DOMAIN journal : i \in DOMAIN journal' /\ journal'[i] = journal[i]
  BY DEF Wrote, JournalInv
<1>2. Balanced(initial, journal, Stored, Undone, x)
        /\ ((x \in undo.held /\ Swept(x)) \/ Balanced(initial, journal, table, Undone \cup Reverted, x))
  BY <1>1 DEF Even
<1>3. Rest' = Rest /\ Reverted' = Reverted /\ Undone' = Undone /\ Undone \in SUBSET DOMAIN journal
        /\ Undone \cup Reverted \in SUBSET DOMAIN journal
  <2>1. \A i \in DOMAIN journal' \ DOMAIN journal : ~journal'[i].undone
    BY DEF Wrote
  <2> QED
    BY <1>1, <2>1 DEF Rest, Reverted, Undone, ReplayOrder
<1>4. /\ \A y \in W : Stored[y] = table[y] /\ Stored'[y] = table'[y]
      /\ \A y \in Records \ W : Stored'[y] = Stored[y]
  BY <1>1 DEF Stored
<1>5. Balanced(initial', journal', Stored', Undone, x)
  BY <1>1, <1>2, <1>3, <1>4, WriteBalances
<1>6. ASSUME Balanced(initial, journal, table, Undone \cup Reverted, x)
      PROVE  Balanced(initial', journal', table', Undone \cup Reverted, x)
  BY <1>1, <1>3, <1>6, WriteBalances
<1>7. ASSUME x \in undo.held, Swept(x) PROVE Swept(x)'
  <2>1. /\ <<x, "delete">> \in undo.effects /\ table[x] = 0
        /\ \A i \in Entries(x) : /\ journal[i].op = "insert" => i \notin Reverted
                                 /\ journal[i].op = "delete" => i \in Undone \cup Reverted
    BY <1>7 DEF Swept
  <2>2. x \notin W
    BY <1>1, <1>7
  <2>3. \A i \in DOMAIN journal' \ DOMAIN journal : journal'[i].row # x
    BY <2>2 DEF Wrote
  <2>4. \A i \in Entries(x)' : i \in Entries(x) /\ journal'[i] = journal[i]
    BY <1>1, <2>3 DEF Entries
  <2> QED
    BY <1>1, <1>3, <2>1, <2>2, <2>4 DEF Swept
<1> QED
  BY <1>1, <1>2, <1>3, <1>5, <1>6, <1>7

(* Nothing is in progress, so that what is stored is all there is. *)
LEMMA AtRestEven ==
  ASSUME undo' = NoUndo, initial' = initial,
         ~edited' /\ ~raced' =>
           \A r \in Records : Balanced(initial, journal', table', Undone', r)
  PROVE  Even'
<1>1. undo'.held = {} /\ Reverted' = {}
  BY NoUndoIs DEF Reverted
<1> SUFFICES ASSUME ~edited', ~raced', NEW r \in Records
             PROVE  /\ Balanced(initial', journal', Stored', Undone', r)
                    /\ Balanced(initial', journal', table', Undone' \cup Reverted', r)
  BY DEF Even
<1>2. Stored'[r] = table'[r]
  BY <1>1 DEF Stored
<1>3. Undone' \cup Reverted' = Undone'
  BY <1>1
<1>4. Balanced(initial', journal', table', Undone', r)
  OBVIOUS
<1> QED
  BY <1>2, <1>3, <1>4 DEF Balanced

LEMMA RollBackEven ==
  ASSUME JournalInv, Even, RollBack
  PROVE  Even'
<1>1. /\ table' = Stored /\ undo' = NoUndo
      /\ UNCHANGED <<initial, born, journal, edited, raced>>
  BY DEF RollBack, Stored
<1>2. Undone' = Undone
  BY <1>1 DEF Undone
<1>3. ~edited' /\ ~raced' =>
        \A r \in Records : Balanced(initial, journal', table', Undone', r)
  BY <1>1, <1>2 DEF Even
<1> QED
  BY <1>1, <1>3, AtRestEven

LEMMA BeginEven ==
  ASSUME JournalInv, Even, NEW c \in ToolCalls, BeginUndo(c)
  PROVE  Even'
<1>1. JournalTypes /\ ReplayOrder
  BY DEF JournalInv
<1>2. /\ UNCHANGED <<initial, table, born, journal, edited, raced>>
      /\ undo' = [NoUndo EXCEPT !.at = "read", !.of = OfCall(c), !.todo = OfCall(c),
                                !.pass = Cardinality(OfCall(c))]
      /\ undo = NoUndo
  BY <1>1 DEF BeginUndo, ReplayOrder
<1>3. undo'.of = OfCall(c) /\ undo'.todo = OfCall(c) /\ undo'.held = {} /\ undo.held = {}
  BY <1>2, NoUndoIs DEF NoUndo
<1>4. Reverted' = {} /\ Undone' = Undone
  BY <1>2, <1>3 DEF Reverted, Rest, Undone
<1> SUFFICES ASSUME ~edited', ~raced', NEW r \in Records
             PROVE  /\ Balanced(initial', journal', Stored', Undone', r)
                    /\ Balanced(initial', journal', table', Undone' \cup Reverted', r)
  BY DEF Even
<1>5. Stored[r] = table[r] /\ Stored'[r] = table[r]
  BY <1>2, <1>3 DEF Stored
<1>6. Balanced(initial, journal, Stored, Undone, r)
  BY <1>2 DEF Even
<1>7. Undone' \cup Reverted' = Undone
  BY <1>4
<1> QED
  BY <1>2, <1>4, <1>5, <1>6, <1>7 DEF Balanced

LEMMA MoveEven ==
  ASSUME JournalInv, Even, Moves
  PROVE  Even'
<1>1. Reverted' = Reverted /\ Undone' = Undone /\ Stored' = Stored
  BY DEF Moves, Reverted, Rest, Undone, Stored
<1>2. \A r : Swept(r)' = Swept(r)
  BY <1>1 DEF Moves, Swept, Entries
<1> QED
  BY <1>1, <1>2 DEF Even, Moves

(* A row that was swept away keeps an undo from being committed. *)
LEMMA CommitEven ==
  ASSUME JournalInv, Even, CommitUndo
  PROVE  Even'
<1>1. JournalTypes /\ ReplayOrder
  BY DEF JournalInv
<1>2. /\ undo' = NoUndo
      /\ UNCHANGED <<initial, table, born, edited, raced>>
      /\ undo.todo = {} /\ undo.deferred = {} /\ OnlyExpected(undo.effects)
      /\ journal' = [i \in DOMAIN journal |->
                       IF i \in undo.of THEN [journal[i] EXCEPT !.undone = TRUE]
                       ELSE journal[i]]
  BY DEF CommitUndo
<1>3. Reverted = undo.of /\ undo.of \subseteq DOMAIN journal
  BY <1>1, <1>2 DEF Reverted, Rest, ReplayOrder
<1>4. DOMAIN journal' = DOMAIN journal
  BY <1>2
<1>5. \A i \in DOMAIN journal :
        /\ journal'[i].row = journal[i].row
        /\ journal'[i].before = journal[i].before /\ journal'[i].after = journal[i].after
        /\ journal'[i].undone <=> i \in Undone \/ i \in undo.of
  <2> TAKE i \in DOMAIN journal
  <2>1. journal[i] \in Entry
    BY <1>1, EntryTypes
  <2>2. i \in Undone <=> journal[i].undone
    BY DEF Undone
  <2> QED
    BY <1>2, <2>1, <2>2 DEF Entry
<1>6. Undone' = Undone \cup Reverted
  BY <1>3, <1>4, <1>5 DEF Undone
<1>7. ASSUME NEW r, Swept(r) PROVE FALSE
  <2>1. PICK i \in undo.of : <<r, "delete">> = <<journal[i].row, InverseOperation[journal[i].op]>>
    BY <1>2, <1>7 DEF OnlyExpected, Swept
  <2>2. i \in DOMAIN journal /\ journal[i].op \in {"insert", "update", "delete"}
    BY <1>1, <1>3, EntryTypes
  <2>3. journal[i].row = r /\ journal[i].op = "insert"
    BY <2>1, <2>2 DEF InverseOperation
  <2> QED
    BY <1>3, <1>7, <2>2, <2>3 DEF Swept, Entries
<1>8. ASSUME ~edited', ~raced', NEW r \in Records
      PROVE  Balanced(initial, journal', table', Undone', r)
  <2>1. Balanced(initial, journal, table, Undone \cup Reverted, r)
    BY <1>2, <1>7, <1>8 DEF Even
  <2> SUFFICES ASSUME NEW c
               PROVE  Balance(journal', Undone \cup Reverted, r, c)
                        = Is(table[r], c) - Is(initial[r], c)
    BY <1>2, <1>6 DEF Balanced
  <2>2. Balance(journal', Undone \cup Reverted, r, c)
          = Balance(journal, Undone \cup Reverted, r, c)
    BY <1>4, <1>5, BalanceSame
  <2> QED
    BY <2>1, <2>2 DEF Balanced
<1> QED
  BY <1>2, <1>8, AtRestEven

(* The inverse of an entry takes its row back to what the entry found, and  *)
(* closes the entry; the rows its cascade takes along are swept away.       *)
LEMMA RevertEven ==
  ASSUME JournalInv, JournalInv', Even, NEW m, NEW x, NEW kids, Reverts(m, x, kids),
         undo.at = "write"
  PROVE  Even'
<1>1. /\ JournalTypes /\ EntriesTell /\ ReplayOrder /\ HeldRows /\ HeldRows'
      /\ EntriesTell' /\ Agree(journal, table, Undone \cup Reverted, ~raced)
  BY DEF JournalInv
<1>2. /\ m \in undo.todo /\ m \in undo.of \ Undone /\ m \in DOMAIN journal
      /\ NextEntry = journal[m] /\ journal[m].row = x /\ x \in Records
      /\ kids \in SUBSET (Records \ {x})
      /\ UNCHANGED <<initial, born, journal, edited, raced>>
  BY DEF Reverts
<1>3. \A i \in DOMAIN journal : i \in Nat
  BY <1>1, EntryTypes
<1>4. m \notin undo.deferred
  BY <1>1, <1>2, <1>3 DEF ReplayOrder
<1>5. Reverted' = Reverted \cup {m} /\ m \notin Reverted
  BY <1>2, <1>4 DEF Rest, Reverted, Reverts
<1>6. Undone' = Undone /\ Stored' = Stored /\ \A r : Entries(r)' = Entries(r)
  BY <1>2 DEF Undone, Entries, Stored, Reverts
<1>7. \A r, i : i \in Entries(r) <=> i \in DOMAIN journal /\ journal[i].row = r
  BY DEF Entries
<1> DEFINE closed == Undone \cup Reverted
<1>8. Undone' \cup Reverted' = closed \cup {m} /\ m \notin closed
  BY <1>2, <1>5, <1>6
<1> SUFFICES ASSUME ~edited', ~raced', NEW q \in Records
             PROVE  /\ Balanced(initial', journal', Stored', Undone', q)
                    /\ \/ q \in undo'.held /\ Swept(q)'
                       \/ Balanced(initial', journal', table', Undone' \cup Reverted', q)
  BY DEF Even
<1>9. /\ Balanced(initial, journal, Stored, Undone, q)
      /\ (q \in undo.held /\ Swept(q)) \/ Balanced(initial, journal, table, closed, q)
  BY <1>2 DEF Even
<1>10. Balanced(initial', journal', Stored', Undone', q)
  BY <1>2, <1>6, <1>9
<1>11. CASE q = x
  <2>1. Compared[table[x]] = Compared[journal[m].after]
    BY <1>1, <1>2 DEF HeldRows, Untouched
  <2>2. /\ journal[m].before = 0 <=> journal[m].op = "insert"
        /\ journal[m].after = 0 <=> journal[m].op = "delete"
    BY <1>1, <1>2 DEF EntriesTell
  <2>3. table[x] \in 0 .. MaxValue /\ journal[m].after \in 0 .. MaxValue
    BY <1>1, <1>2, EntryTypes DEF JournalTypes, Entry
  <2>4. table[x] = 0 <=> journal[m].op = "delete"
    BY <2>1, <2>2, <2>3, JournalAssumption
  <2>5. table'[x] = journal[m].before
    BY <2>4 DEF Reverts
  <2>6. ~Swept(x)
    BY <1>2, <1>7, <1>8, <2>4 DEF Swept
  <2>7. ASSUME NEW c
        PROVE  Balance(journal, closed \cup {m}, x, c) = Is(table'[x], c) - Is(initial[x], c)
    <3>1. Balance(journal, closed, x, c) = Is(table[x], c) - Is(initial[x], c)
      BY <1>9, <1>11, <2>6 DEF Balanced
    <3>2. journal \in Seq(Entry) /\ m \in DOMAIN journal \ closed
      BY <1>1, <1>2, <1>8 DEF JournalTypes
    <3>3. Balance(journal, closed \cup {m}, x, c)
            = Balance(journal, closed, x, c) - Is(journal[m].after, c) + Is(journal[m].before, c)
      <4> HIDE DEF closed
      <4>1. Balance(journal, closed \cup {m}, journal[m].row, c)
              = Balance(journal, closed, journal[m].row, c)
                - Is(journal[m].after, c) + Is(journal[m].before, c)
        BY <3>2, BalanceLess
      <4> QED
        BY <1>2, <4>1
    <3>4. Is(journal[m].after, c) = Is(table[x], c)
      BY <2>1 DEF Is
    <3>5. /\ Is(table[x], c) \in Int /\ Is(initial[x], c) \in Int
          /\ Is(journal[m].before, c) \in Int
      BY IsType
    <3> QED
      BY <2>5, <3>1, <3>3, <3>4, <3>5
  <2> QED
    BY <1>2, <1>8, <1>10, <1>11, <2>7 DEF Balanced
<1>12. CASE q \in kids
  <2>1. q \in undo'.held /\ table[q] # 0 /\ table'[q] = 0 /\ q # x
    BY <1>2, <1>12 DEF Reverts
  <2>2. ~Back(q)'
    <3> SUFFICES ASSUME Back(q)' PROVE FALSE
      OBVIOUS
    <3>1. PICK i \in Reverted' \cap Entries(q)' : table'[q] = journal'[i].before
      BY DEF Back
    <3>2. i \in Reverted /\ i \in DOMAIN journal /\ journal[i].row = q
      BY <1>2, <1>5, <1>6, <1>7, <2>1, <3>1
    <3>3. journal[i].op = "insert"
      BY <1>1, <1>2, <2>1, <3>1, <3>2 DEF EntriesTell
    <3> QED
      BY <1>1, <1>2, <2>1, <3>2, <3>3 DEF Agree
  <2>3. Swept(q)'
    BY <1>1, <2>1, <2>2 DEF HeldRows
  <2> QED
    BY <1>10, <2>1, <2>3
<1>13. CASE q # x /\ q \notin kids
  <2>1. table'[q] = table[q] /\ undo.held \subseteq undo'.held
    BY <1>13 DEF Reverts
  <2>2. CASE q \in undo.held /\ Swept(q)
    <3>1. <<q, "delete">> \in undo.effects => <<q, "delete">> \in undo'.effects
      BY DEF Reverts
    <3>2. Swept(q)'
      BY <1>2, <1>5, <1>6, <1>7, <1>13, <2>1, <2>2, <3>1 DEF Swept
    <3> QED
      BY <1>10, <2>1, <2>2, <3>2
  <2>3. CASE Balanced(initial, journal, table, closed, q)
    <3>1. ASSUME NEW c
          PROVE  Balance(journal, closed \cup {m}, q, c) = Balance(journal, closed, q, c)
      <4>1. \A i : i \in DOMAIN journal \ closed /\ journal[i].row = q
                   <=> i \in DOMAIN journal \ (closed \cup {m}) /\ journal[i].row = q
        BY <1>2, <1>13
      <4> HIDE DEF closed
      <4> QED
        BY <4>1, BalanceSame
    <3> QED
      BY <1>2, <1>8, <1>10, <2>1, <2>3, <3>1 DEF Balanced
  <2> QED
    BY <1>9, <2>2, <2>3
<1> QED
  BY <1>11, <1>12, <1>13

LEMMA EvenStep ==
  ASSUME JournalInv, JournalInv', Even, [JournalNext]_journalVars
  PROVE  Even'
<1>2. ASSUME NEW c \in ToolCalls, NEW r \in Records, NEW op \in {"insert", "update", "delete"},
             NEW v \in 0 .. MaxValue, AgentWrites(c, r, op, v)
      PROVE  Even'
  <2>1. Writes(c, r, op, v, TRUE)
    BY <1>2 DEF AgentWrites
  <2>2. \E W : Wrote(W, r, op, TRUE)
    BY <2>1, WriteEffect
  <2> QED
    BY <2>2, WriteEven
<1>3. CASE \E r \in Records, op \in {"insert", "update", "delete"},
             v \in 0 .. MaxValue : UserWrites(r, op, v)
  <2>1. PICK r \in Records, op \in {"insert", "update", "delete"}, v \in 0 .. MaxValue :
          UserWrites(r, op, v)
    BY <1>3
  <2>2. edited'
    BY <2>1 DEF UserWrites, Writes
  <2> QED
    BY <2>2 DEF Even
<1>4. CASE \E c \in ToolCalls : BeginUndo(c)
  BY <1>4, BeginEven
<1>5. CASE ReadRow \/ DeferBlocked \/ DeferOrphan \/ PassAgain
  BY <1>5, ReplayMoves, MoveEven
<1>6. CASE WriteRow
  BY <1>6, WriteRowEffect, RevertEven DEF WriteRow
<1>7. CASE RefuseModified \/ RefuseReconciled \/ RefuseOrphans \/ RefuseSideEffects
  BY <1>7, RollBackEven DEF RefuseModified, RefuseReconciled, RefuseOrphans, RefuseSideEffects
<1>8. CASE CommitUndo
  BY <1>8, CommitEven
<1>9. CASE UNCHANGED journalVars
  <2>1. /\ Reverted' = Reverted /\ Undone' = Undone /\ Stored' = Stored
        /\ \A r : Entries(r)' = Entries(r)
    BY <1>9 DEF journalVars, Reverted, Rest, Undone, Stored, Entries
  <2>2. \A r : Swept(r)' = Swept(r)
    BY <1>9, <2>1 DEF journalVars, Swept
  <2> QED
    BY <1>9, <2>1, <2>2 DEF journalVars, Even
<1> QED
  BY <1>2, <1>3, <1>4, <1>5, <1>6, <1>7, <1>8, <1>9, Zenon DEF JournalNext, UndoStep

(***************************************************************************)
(* Whatever the calls, the rows and their parents, and in whatever order   *)
(* the calls are undone: when every write of the assistant is undone and   *)
(* nobody else wrote, the same rows are there as at the beginning, alike   *)
(* in every column that an undo compares.                                  *)
(***************************************************************************)
THEOREM UndoingAllRestores == JournalSpec => []AllUndoneIsInitial
<1>1. JournalInv /\ Even => AllUndoneIsInitial
  <2> SUFFICES ASSUME JournalInv, Even, undo.at = "none", ~edited, ~raced,
                      \A i \in DOMAIN journal : journal[i].undone, NEW r \in Records
               PROVE  Compared[table[r]] = Compared[initial[r]]
    BY DEF AllUndoneIsInitial
  <2>1. undo.held = {}
    BY NoUndoIs DEF JournalInv, ReplayOrder
  <2>2. Stored[r] = table[r]
    BY <2>1 DEF Stored
  <2> DEFINE c == Compared[initial[r]]
  <2>3. Balance(journal, Undone, r, c) = Is(table[r], c) - Is(initial[r], c)
    BY <2>2 DEF Even, Balanced
  <2>4. Into(journal, Undone, r, c) = {} /\ OutOf(journal, Undone, r, c) = {}
    BY DEF Into, OutOf, Undone
  <2>5. Balance(journal, Undone, r, c) = 0
    BY <2>4, FS_EmptySet DEF Balance
  <2>6. Is(initial[r], c) = 1 /\ Is(table[r], c) \in Int
    BY IsType DEF Is
  <2>7. Is(table[r], c) = 1
    BY <2>3, <2>5, <2>6
  <2> QED
    BY <2>7 DEF Is
<1>2. JournalInv /\ Even /\ [JournalNext]_journalVars => JournalInv' /\ Even'
  BY JournalStepHolds, EvenStep
<1> QED
  BY <1>1, <1>2, JournalInitHolds, EvenInit, PTL DEF JournalSpec

(* Only the commit of an undo changes the journal and ends the undo. *)
LEMMA CommitsIsCommit ==
  ASSUME JournalInv, [JournalNext]_journalVars, Commits
  PROVE  CommitUndo
<1>1. undo.at = "read" /\ undo'.at = "none" /\ journal' # journal
  BY DEF Commits
<1>2. undo' # undo
  BY <1>1
<1>3. JournalNext
  BY <1>1 DEF journalVars
<1>4. /\ ~\E c \in ToolCalls, r \in Records, op \in {"insert", "update", "delete"},
             v \in 0 .. MaxValue : AgentWrites(c, r, op, v)
      /\ ~\E r \in Records, op \in {"insert", "update", "delete"},
             v \in 0 .. MaxValue : UserWrites(r, op, v)
  <2>1. ASSUME NEW c, NEW r, NEW op, NEW v, NEW agent, Writes(c, r, op, v, agent)
        PROVE  FALSE
    <3>1. UNCHANGED undo
      BY <2>1, Zenon DEF Writes
    <3> QED
      BY <1>2, <3>1
  <2> QED
    BY <2>1 DEF AgentWrites, UserWrites
<1>5. ~\E c \in ToolCalls : BeginUndo(c)
  BY <1>1 DEF BeginUndo
<1>6. ~(ReadRow \/ DeferBlocked \/ DeferOrphan \/ PassAgain \/ WriteRow)
  BY <1>1 DEF ReadRow, DeferBlocked, DeferOrphan, PassAgain, WriteRow
<1>7. ~(RefuseModified \/ RefuseReconciled \/ RefuseOrphans \/ RefuseSideEffects)
  BY <1>1 DEF RefuseModified, RefuseReconciled, RefuseOrphans, RefuseSideEffects, RollBack
<1> QED
  BY <1>3, <1>4, <1>5, <1>6, <1>7, Zenon DEF JournalNext, UndoStep

(***************************************************************************)
(* Whatever users and other calls write meanwhile: an undo that commits    *)
(* has brought every row its call wrote back to what it was before the     *)
(* call's first write of it, and has touched no other row.                 *)
(***************************************************************************)
THEOREM UndoRestoresExactly == JournalSpec => UndoIsExact
<1> DEFINE Exact == /\ \A r \in Records : \A i \in First(r) :
                         raced \/ table'[r] = journal[i].before
                    /\ \A r \in undo.held : First(r) # {}
<1>1. JournalInv /\ [JournalNext]_journalVars => [Commits => Exact]_journalVars
  <2> SUFFICES ASSUME JournalInv, [JournalNext]_journalVars, Commits PROVE Exact
    BY Zenon
  <2>1. JournalTypes /\ BornOnce /\ ReplayOrder /\ HeldRows
    BY DEF JournalInv
  <2>2. /\ undo.todo = {} /\ undo.deferred = {} /\ OnlyExpected(undo.effects)
        /\ table' = table
    BY CommitsIsCommit DEF CommitUndo
  <2>3. Reverted = undo.of /\ undo.of \subseteq DOMAIN journal
    BY <2>1, <2>2 DEF Reverted, Rest, ReplayOrder
  <2>4. \A i \in DOMAIN journal : /\ i \in Nat /\ journal[i].row \in Records
                                  /\ journal[i].op \in {"insert", "update", "delete"}
    BY <2>1, EntryTypes
  <2>5. \A r : <<r, "delete">> \in undo.effects =>
          \E i \in undo.of : journal[i].row = r /\ journal[i].op = "insert"
    <3> SUFFICES ASSUME NEW r, <<r, "delete">> \in undo.effects
                 PROVE  \E i \in undo.of : journal[i].row = r /\ journal[i].op = "insert"
      OBVIOUS
    <3>1. PICK i \in undo.of : <<r, "delete">> = <<journal[i].row, InverseOperation[journal[i].op]>>
      BY <2>2 DEF OnlyExpected
    <3>2. journal[i].row = r /\ InverseOperation[journal[i].op] = "delete"
      BY <3>1
    <3>3. journal[i].op = "insert"
      BY <2>3, <2>4, <3>2 DEF InverseOperation
    <3> QED
      BY <3>2, <3>3
  <2>6. ASSUME NEW r \in undo.held PROVE First(r) # {}
    <3>1. PICK k \in undo.of : journal[k].row = r
      <4>1. CASE <<r, "delete">> \in undo.effects
        BY <2>5, <4>1
      <4>2. CASE undo.of \cap Entries(r) # {}
        BY <4>2 DEF Entries
      <4> QED
        BY <2>1, <4>1, <4>2 DEF HeldRows
    <3> DEFINE S == {i \in undo.of : journal[i].row = r}
    <3>2. S \in SUBSET Nat /\ S # {}
      BY <2>3, <2>4, <3>1
    <3>3. PICK i \in S : \A k1 \in S : i <= k1
      BY <3>2, LeastExists
    <3>4. i \in First(r)
      BY <3>3 DEF First
    <3> QED
      BY <3>4
  <2>7. ASSUME NEW r \in Records, NEW i \in First(r), ~raced
        PROVE  table'[r] = journal[i].before
    <3>1. /\ i \in undo.of /\ journal[i].row = r
          /\ \A k \in undo.of : journal[k].row = r => i <= k
      BY DEF First
    <3>2. r \in undo.held
      BY <2>1, <2>3, <2>7, <3>1 DEF HeldRows
    <3>3. ~Swept(r)
      <4>1. SUFFICES ASSUME Swept(r) PROVE FALSE
        OBVIOUS
      <4>2. PICK k \in undo.of : journal[k].row = r /\ journal[k].op = "insert"
        BY <2>5, <4>1 DEF Swept
      <4> QED
        BY <2>3, <4>1, <4>2 DEF Swept, Entries
    <3>4. Back(r)
      BY <2>1, <2>7, <3>2, <3>3 DEF HeldRows
    <3>5. PICK k \in Reverted \cap Entries(r) :
            /\ table[r] = journal[k].before
            /\ \A j \in Reverted \cap Entries(r) : k <= j
      BY <3>4 DEF Back
    <3>6. i = k
      <4>1. k \in undo.of /\ journal[k].row = r /\ i \in Reverted \cap Entries(r)
        BY <2>3, <3>1, <3>5 DEF Entries
      <4>2. i <= k /\ k <= i /\ i \in Nat /\ k \in Nat
        BY <2>3, <2>4, <3>1, <3>5, <4>1
      <4> QED
        BY <4>2
    <3> QED
      BY <2>2, <3>5, <3>6
  <2> QED
    BY <2>6, <2>7
<1> QED
  BY <1>1, JournalInitHolds, JournalStepHolds, PTL DEF JournalSpec, UndoIsExact

================================================================================
