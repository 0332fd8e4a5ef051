----------------------- MODULE RecurringPostingProofs -----------------------
(***************************************************************************)
(* Theorems about RecurringPosting, for any number of rules, workers,      *)
(* templates and days.                                                     *)
(***************************************************************************)
EXTENDS RecurringPosting, FiniteSetTheorems, TLAPS

(* Every step a worker takes, and every step of a user, one disjunct each. *)
LEMMA NextCases ==
  ASSUME PostingNext
  PROVE  \/ \E w \in Workers : StartRun(w)
         \/ \E w \in Workers, r \in Rules : PostDueOccurrences(w, r)
         \/ \E w \in Workers : AbortOnExpiredRule(w)
         \/ \E w \in Workers : ValidateOccurrence(w)
         \/ \E w \in Workers : FailOccurrence(w)
         \/ \E w \in Workers, d \in Days : CommitOccurrence(w, d)
         \/ \E w \in Workers, d \in Days : AbortOnFlushError(w, d)
         \/ \E w \in Workers : FinishRun(w)
         \/ \E w \in Workers : Kill(w)
         \/ \E r \in Rules : CreateRecurringRule(r)
         \/ \E r \in Rules : UpdateRecurringRule(r)
         \/ \E r \in Rules : DeleteRecurringRule(r)
         \/ \E r \in Rules, d \in Days : DeleteTransaction(r, d)
         \/ \E r \in Rules, d \in Days : LinkTransaction(r, d)
         \/ \E r \in Rules, d, e \in Days : MoveTransaction(r, d, e)
         \/ \E t \in Templates : ToggleCurrency(t)
         \/ NextDay
BY Zenon DEF PostingNext, WorkerStep, UserStep

LEMMA NewRowType == NewRow \in RuleRow
BY PostingAssumption DEF NewRow, RuleRow, Days, NoDate

LEMMA IdleRunType == IdleRun \in Run /\ IdleRun.pc = "idle"
BY NewRowType, PostingAssumption DEF IdleRun, Run, Days

(***************************************************************************)
(* A step that replaces what worker w holds by a well-typed value keeps    *)
(* the type of run and leaves the other workers alone.                     *)
(***************************************************************************)
LoopHasDate(h) == h.pc \in {"validate", "commit"} => h.cur \in Rules /\ h.todo # {}

LEMMA ReplaceRun ==
  ASSUME PostingTypeOK, NEW w \in Workers, NEW h \in Run, LoopHasDate(h),
         run' = [run EXCEPT ![w] = h]
  PROVE  /\ run' \in [Workers -> Run]
         /\ \A v \in Workers : run'[v].pc \in {"validate", "commit"}
                                => run'[v].cur \in Rules /\ run'[v].todo # {}
<1>1. run' \in [Workers -> Run]
  BY DEF PostingTypeOK
<1>2. \A v \in Workers : run'[v] = IF v = w THEN h ELSE run[v]
  BY DEF PostingTypeOK
<1> QED BY <1>1, <1>2 DEF PostingTypeOK, LoopHasDate

LEMMA IdleType ==
  ASSUME PostingTypeOK, NEW w \in Workers, GoIdle(w)
  PROVE  /\ run' \in [Workers -> Run]
         /\ \A v \in Workers : run'[v].pc \in {"validate", "commit"}
                                => run'[v].cur \in Rules /\ run'[v].todo # {}
BY IdleRunType, ReplaceRun DEF GoIdle, LoopHasDate

(***************************************************************************)
(* Type correctness: every reachable state has its type; in particular a   *)
(* worker inside the catch-up loop always has a rule and a date left.      *)
(***************************************************************************)
THEOREM TypeCorrect == PostingSpec => []PostingTypeOK
<1>1. PostingInit => PostingTypeOK
  BY NewRowType, IdleRunType, PostingAssumption DEF PostingInit, PostingTypeOK, Days
<1>2. PostingTypeOK /\ [PostingNext]_postingVars => PostingTypeOK'
  <2> SUFFICES ASSUME PostingTypeOK, [PostingNext]_postingVars PROVE PostingTypeOK'
    OBVIOUS
  <2> USE PostingAssumption
  <2>0. ASSUME NEW w \in Workers
        PROVE  run[w] \in Run
    BY DEF PostingTypeOK
  <2>1. CASE \E w \in Workers : StartRun(w)
    <3> PICK w \in Workers : StartRun(w)
      BY <2>1
    <3> DEFINE h == [run[w] EXCEPT !.pc = "rules", !.day = today,
                                   !.pending = {r \in Rules : LiveRule(r)}, !.snap = rule]
    <3>1. h \in Run /\ LoopHasDate(h)
      BY <2>0 DEF PostingTypeOK, Run, LoopHasDate
    <3>2. run' = [run EXCEPT ![w] = h]
      BY DEF StartRun
    <3> HIDE DEF h
    <3> QED BY <3>1, <3>2, ReplaceRun DEF PostingTypeOK, StartRun
  <2>2. CASE \E w \in Workers, r \in Rules : PostDueOccurrences(w, r)
    <3> PICK w \in Workers, r \in Rules : PostDueOccurrences(w, r)
      BY <2>2
    <3> DEFINE dates == OccurrenceDates(run[w].snap[r], run[w].day)
               h == [run[w] EXCEPT !.pc = IF dates = {} THEN "rules" ELSE "validate",
                                   !.pending = run[w].pending \ {r}, !.cur = r, !.todo = dates]
    <3>1. dates \subseteq Days
      BY DEF OccurrenceDates, Earliest, DueDates, Occurrences
    <3>2. run' = [run EXCEPT ![w] = h]
      BY DEF PostDueOccurrences
    <3> HIDE DEF dates
    <3>3. h \in Run /\ LoopHasDate(h)
      BY <2>0, <3>1 DEF Run, LoopHasDate
    <3> HIDE DEF h
    <3> QED BY <3>2, <3>3, ReplaceRun DEF PostingTypeOK, PostDueOccurrences
  <2>3. CASE \E w \in Workers : AbortOnExpiredRule(w)
    BY <2>3, IdleType DEF PostingTypeOK, AbortOnExpiredRule
  <2>4. CASE \E w \in Workers : ValidateOccurrence(w)
    <3> PICK w \in Workers : ValidateOccurrence(w)
      BY <2>4
    <3> DEFINE h == [run[w] EXCEPT !.pc = "commit"]
    <3>1. run[w].cur \in Rules /\ run[w].todo # {}
      BY DEF PostingTypeOK, ValidateOccurrence
    <3>2. h \in Run /\ LoopHasDate(h)
      BY <2>0, <3>1 DEF Run, LoopHasDate
    <3>3. run' = [run EXCEPT ![w] = h]
      BY DEF ValidateOccurrence, Goto
    <3> HIDE DEF h
    <3> QED BY <3>2, <3>3, ReplaceRun DEF PostingTypeOK, ValidateOccurrence
  <2>5. CASE \E w \in Workers : FailOccurrence(w)
    <3> PICK w \in Workers : FailOccurrence(w)
      BY <2>5
    <3> DEFINE h == [run[w] EXCEPT !.pc = "rules", !.todo = {}, !.cur = NoRule,
                                   !.expired = TRUE, !.failed = TRUE]
    <3>1. h \in Run /\ LoopHasDate(h)
      BY <2>0 DEF Run, LoopHasDate
    <3>2. run' = [run EXCEPT ![w] = h]
      BY DEF FailOccurrence
    <3> HIDE DEF h
    <3> QED BY <3>1, <3>2, ReplaceRun DEF PostingTypeOK, FailOccurrence
  <2>6. CASE \E w \in Workers, d \in Days : CommitOccurrence(w, d)
    <3> PICK w \in Workers, d \in Days : CommitOccurrence(w, d)
      BY <2>6
    <3> DEFINE r == run[w].cur
               h == [run[w] EXCEPT !.pc = IF run[w].todo = {d} THEN "rules" ELSE "validate",
                                   !.todo = run[w].todo \ {d}]
    <3>1. r \in Rules /\ d \in run[w].todo
      BY DEF PostingTypeOK, CommitOccurrence, NextDate
    <3>2. h \in Run /\ LoopHasDate(h)
      <4> DEFINE pc == IF run[w].todo = {d} THEN "rules" ELSE "validate"
                 rest == run[w].todo \ {d}
      <4>1. rest \in SUBSET Days
        BY <2>0 DEF Run
      <4>2. pc = "rules" \/ (pc = "validate" /\ rest # {})
        BY <3>1
      <4>3. run[w] \in Run
        BY <2>0
      <4>4. h = [run[w] EXCEPT !.pc = pc, !.todo = rest]
        OBVIOUS
      <4> HIDE DEF pc, rest, h
      <4> QED BY <3>1, <4>1, <4>2, <4>3, <4>4 DEF Run, LoopHasDate
    <3>3. run' = [run EXCEPT ![w] = h]
      BY DEF CommitOccurrence
    <3>4. tx' \in [Rules -> [Days -> Nat]] /\ posted' \in [Rules -> [Days -> Nat]]
      BY <3>1 DEF PostingTypeOK, CommitOccurrence
    <3>5. [rule[r] EXCEPT !.cursor = d] \in RuleRow
      <4>1. rule[r] \in RuleRow
        BY <3>1 DEF PostingTypeOK
      <4> QED BY <4>1 DEF RuleRow
    <3>6. rule' \in [Rules -> RuleRow]
      BY <3>1, <3>5 DEF PostingTypeOK, CommitOccurrence
    <3> HIDE DEF h
    <3> QED BY <3>2, <3>3, <3>4, <3>6, ReplaceRun DEF PostingTypeOK, CommitOccurrence
  <2>7. CASE \E w \in Workers, d \in Days : AbortOnFlushError(w, d)
    BY <2>7, IdleType DEF PostingTypeOK, AbortOnFlushError
  <2>8. CASE \E w \in Workers : FinishRun(w)
    BY <2>8, IdleType DEF PostingTypeOK, FinishRun
  <2>9. CASE \E w \in Workers : Kill(w)
    <3> PICK w \in Workers : Kill(w)
      BY <2>9
    <3>1. kills' \in 0..MaxKills
      BY DEF PostingTypeOK, Kill
    <3> QED BY <3>1, IdleType DEF PostingTypeOK, Kill
  <2>10. CASE \E r \in Rules : CreateRecurringRule(r)
    <3> PICK r \in Rules : CreateRecurringRule(r)
      BY <2>10
    <3>1. PICK st \in Starts, i \in Intervals, e \in Ends, t \in postable :
            rule' = [rule EXCEPT ![r] = [state |-> "live", start |-> st, interval |-> i,
                                         end |-> e, cursor |-> NoDate, template |-> t]]
      BY DEF CreateRecurringRule
    <3>2. [state |-> "live", start |-> st, interval |-> i,
           end |-> e, cursor |-> NoDate, template |-> t] \in RuleRow
      BY DEF PostingTypeOK, RuleRow
    <3>3. rule' \in [Rules -> RuleRow]
      BY <3>1, <3>2 DEF PostingTypeOK
    <3> QED BY <3>3 DEF PostingTypeOK, CreateRecurringRule
  <2>11. CASE \E r \in Rules : UpdateRecurringRule(r)
    <3> PICK r \in Rules : UpdateRecurringRule(r)
      BY <2>11
    <3>0. rule[r] \in RuleRow
      BY DEF PostingTypeOK
    <3>1. PICK st \in Starts \cup {rule[r].start}, i \in Intervals \cup {rule[r].interval},
               e \in Ends \cup {rule[r].end}, t \in postable \cup {rule[r].template} :
            rule' = [rule EXCEPT ![r] = [@ EXCEPT !.start = st, !.interval = i,
                                                  !.end = e, !.template = t]]
      BY DEF UpdateRecurringRule
    <3>2. [rule[r] EXCEPT !.start = st, !.interval = i, !.end = e, !.template = t] \in RuleRow
      <4>1. st \in Days /\ i \in Nat \ {0} /\ e \in Days \cup {NoDate} /\ t \in Templates
        BY <3>0 DEF RuleRow, PostingTypeOK
      <4> QED BY <4>1, <3>0 DEF RuleRow
    <3>3. rule' \in [Rules -> RuleRow]
      BY <3>1, <3>2 DEF PostingTypeOK
    <3>4. edited' \subseteq Rules
      BY DEF PostingTypeOK, UpdateRecurringRule
    <3> QED BY <3>3, <3>4 DEF PostingTypeOK, UpdateRecurringRule, UserOp
  <2>12. CASE \E r \in Rules : DeleteRecurringRule(r)
    <3> PICK r \in Rules : DeleteRecurringRule(r)
      BY <2>12
    <3>1. [rule[r] EXCEPT !.state = "deleted"] \in RuleRow
      <4>1. rule[r] \in RuleRow
        BY DEF PostingTypeOK
      <4> QED BY <4>1 DEF RuleRow
    <3>2. rule' \in [Rules -> RuleRow]
      BY <3>1 DEF PostingTypeOK, DeleteRecurringRule
    <3>3. tx' \in [Rules -> [Days -> Nat]]
      BY DEF PostingTypeOK, DeleteRecurringRule
    <3> QED BY <3>2, <3>3 DEF PostingTypeOK, DeleteRecurringRule, UserOp
  <2>13. CASE \E r \in Rules, d \in Days : DeleteTransaction(r, d)
    <3> PICK r \in Rules, d \in Days : DeleteTransaction(r, d)
      BY <2>13
    <3>1. tx' \in [Rules -> [Days -> Nat]]
      BY DEF PostingTypeOK, DeleteTransaction
    <3> QED BY <3>1 DEF PostingTypeOK, DeleteTransaction, UserOp
  <2>14. CASE \E r \in Rules, d \in Days : LinkTransaction(r, d)
    <3> PICK r \in Rules, d \in Days : LinkTransaction(r, d)
      BY <2>14
    <3>1. tx' \in [Rules -> [Days -> Nat]]
      BY DEF PostingTypeOK, LinkTransaction
    <3> QED BY <3>1 DEF PostingTypeOK, LinkTransaction, UserOp
  <2>15. CASE \E r \in Rules, d, e \in Days : MoveTransaction(r, d, e)
    <3> PICK r \in Rules, d \in Days, e \in Days : MoveTransaction(r, d, e)
      BY <2>15
    <3> DEFINE row == [tx[r] EXCEPT ![d] = tx[r][d] - 1, ![e] = tx[r][e] + 1]
    <3>1. tx[r][d] \in Nat \ {0} /\ tx[r][e] = 0 /\ tx[r] \in [Days -> Nat]
      BY DEF PostingTypeOK, MoveTransaction
    <3>2. row \in [Days -> Nat]
      BY <3>1
    <3>3. tx' = [tx EXCEPT ![r] = row]
      BY DEF MoveTransaction
    <3> HIDE DEF row
    <3>4. tx' \in [Rules -> [Days -> Nat]]
      BY <3>2, <3>3 DEF PostingTypeOK
    <3>5. userOps' \in 0..MaxUserOps
      BY DEF PostingTypeOK, MoveTransaction, UserOp
    <3> QED BY <3>4, <3>5 DEF PostingTypeOK, MoveTransaction
  <2>16. CASE \E t \in Templates : ToggleCurrency(t)
    BY <2>16 DEF PostingTypeOK, ToggleCurrency, UserOp
  <2>17. CASE NextDay
    BY <2>17 DEF PostingTypeOK, NextDay, Days
  <2>18. CASE UNCHANGED postingVars
    BY <2>18 DEF PostingTypeOK, postingVars
  <2>19. CASE PostingNext
    BY <2>19, NextCases, <2>1, <2>2, <2>3, <2>4, <2>5, <2>6, <2>7, <2>8, <2>9, <2>10, <2>11,
       <2>12, <2>13, <2>14, <2>15, <2>16, <2>17
  <2> QED BY <2>18, <2>19
<1> QED BY <1>1, <1>2, PTL DEF PostingSpec

----------------------------------------------------------------------------
(* The unique index.                                                       *)

(***************************************************************************)
(* Whatever runs overlap and whatever users link, move or delete, no rule  *)
(* ever has two transactions on one date.                                  *)
(***************************************************************************)
THEOREM NoDuplicate == PostingSpec => []OneTransactionPerOccurrence
<1>1. PostingInit => OneTransactionPerOccurrence
  BY DEF PostingInit, OneTransactionPerOccurrence
<1>2. PostingTypeOK /\ OneTransactionPerOccurrence /\ [PostingNext]_postingVars => OneTransactionPerOccurrence'
  <2> SUFFICES ASSUME PostingTypeOK, OneTransactionPerOccurrence, [PostingNext]_postingVars,
                      NEW q \in Rules, NEW x \in Days
               PROVE  tx'[q][x] <= 1
    BY DEF OneTransactionPerOccurrence
  <2>1. tx[q][x] \in Nat /\ tx[q][x] <= 1
    BY DEF PostingTypeOK, OneTransactionPerOccurrence
  <2>2. CASE UNCHANGED tx
    BY <2>1, <2>2
  <2>3. CASE \E w \in Workers, d \in Days : CommitOccurrence(w, d)
    <3> PICK w \in Workers, d \in Days : CommitOccurrence(w, d)
      BY <2>3
    <3>1. run[w].cur \in Rules
      BY DEF PostingTypeOK, CommitOccurrence
    <3>2. tx[run[w].cur][d] = 0 /\ tx' = [tx EXCEPT ![run[w].cur][d] = @ + 1]
      BY DEF CommitOccurrence, FlushSucceeds
    <3> QED BY <2>1, <3>1, <3>2 DEF PostingTypeOK
  <2>4. CASE \E r \in Rules : DeleteRecurringRule(r)
    BY <2>1, <2>4 DEF PostingTypeOK, DeleteRecurringRule
  <2>5. CASE \E r \in Rules, d \in Days : DeleteTransaction(r, d)
    BY <2>1, <2>5 DEF PostingTypeOK, DeleteTransaction
  <2>6. CASE \E r \in Rules, d \in Days : LinkTransaction(r, d)
    BY <2>1, <2>6 DEF PostingTypeOK, LinkTransaction
  <2>7. CASE \E r \in Rules, d, e \in Days : MoveTransaction(r, d, e)
    <3> PICK r \in Rules, d \in Days, e \in Days : MoveTransaction(r, d, e)
      BY <2>7
    <3>1. tx[r][d] > 0 /\ tx[r][e] = 0 /\ tx[r][d] \in Nat /\ d # e
      BY DEF PostingTypeOK, MoveTransaction
    <3>2. tx'[q][x] = IF q = r /\ x = d THEN tx[q][x] - 1
                      ELSE IF q = r /\ x = e THEN tx[r][e] + 1 ELSE tx[q][x]
      BY <3>1 DEF PostingTypeOK, MoveTransaction
    <3> QED BY <2>1, <3>1, <3>2
  <2>8. CASE PostingNext /\ ~(UNCHANGED tx)
    BY <2>8, NextCases, <2>3, <2>4, <2>5, <2>6, <2>7
       DEF StartRun, PostDueOccurrences, AbortOnExpiredRule, ValidateOccurrence, FailOccurrence,
           AbortOnFlushError, FinishRun, Kill, CreateRecurringRule, UpdateRecurringRule,
           ToggleCurrency, NextDay
  <2> QED BY <2>2, <2>8 DEF postingVars
<1> QED BY <1>1, <1>2, TypeCorrect, PTL DEF PostingSpec

----------------------------------------------------------------------------
(* No occurrence is skipped.                                               *)

(***************************************************************************)
(* What a run has in memory about rules nobody rescheduled: the loaded     *)
(* schedule is still the rule's, and what the loaded cursor has passed is  *)
(* posted.                                                                 *)
(***************************************************************************)
LoadedRows ==
  \A w \in Workers : run[w].pc # "idle" =>
    \A r \in Rules : run[w].snap[r].state = "live" =>
      /\ rule[r].state # "new"
      /\ r \notin edited =>
           /\ Occurrences(run[w].snap[r]) = Occurrences(rule[r])
           /\ \A d \in Occurrences(rule[r]) : d <= run[w].snap[r].cursor => posted[r][d] > 0

PendingLoaded ==
  \A w \in Workers : run[w].pc # "idle" =>
    \A r \in run[w].pending : run[w].snap[r].state = "live"

(***************************************************************************)
(* Inside the catch-up loop: an occurrence before a date still to post is  *)
(* itself still to post, or posted.                                        *)
(***************************************************************************)
LoopDates ==
  \A w \in Workers : run[w].pc \in {"validate", "commit"} =>
    /\ run[w].snap[run[w].cur].state = "live"
    /\ run[w].cur \notin edited =>
         \A e \in run[w].todo : \A d \in Occurrences(rule[run[w].cur]) :
           d < e => d \in run[w].todo \/ posted[run[w].cur][d] > 0

SkipInv == NothingSkipped /\ LoadedRows /\ PendingLoaded /\ LoopDates

(* The first n dates of a set are closed under taking an earlier member.   *)
LEMMA EarliestIsPrefix ==
  ASSUME NEW S \in SUBSET Days, NEW n \in Nat, NEW e \in Earliest(S, n), NEW d \in S, d < e
  PROVE  d \in Earliest(S, n)
<1> DEFINE A == {x \in S : x < d}
           B == {x \in S : x < e}
<1>1. IsFiniteSet(S)
  <2>1. IsFiniteSet(1..MaxDay)
    BY FS_Interval, PostingAssumption
  <2> QED BY <2>1, FS_Subset DEF Days
<1>2. A \subseteq B /\ B \subseteq S
  <2>1. d \in Int /\ e \in Int /\ S \subseteq Int
    BY PostingAssumption DEF Days, Earliest
  <2>2. ASSUME NEW x \in S, x < d PROVE x < e
    BY <2>1, <2>2
  <2> QED BY <2>2
<1>3. IsFiniteSet(B) /\ IsFiniteSet(A)
  BY <1>1, <1>2, FS_Subset
<1>4. Cardinality(A) <= Cardinality(B)
  BY <1>2, <1>3, FS_Subset
<1>5. Cardinality(A) \in Nat /\ Cardinality(B) \in Nat
  BY <1>3, FS_CardinalityType
<1>6. Cardinality(B) < n
  BY DEF Earliest
<1>7. Cardinality(A) < n
  BY <1>4, <1>5, <1>6
<1> QED BY <1>7 DEF Earliest

(* Steps that touch neither rules, runs nor postings.                      *)
LEMMA SkipUnchanged ==
  ASSUME SkipInv, UNCHANGED <<rule, run, posted, edited>>
  PROVE  SkipInv'
BY DEF SkipInv, NothingSkipped, LoadedRows, PendingLoaded, LoopDates, Occurrences

LEMMA SkipIdle ==
  ASSUME PostingTypeOK, SkipInv, NEW w \in Workers, GoIdle(w), UNCHANGED <<rule, posted, edited>>
  PROVE  SkipInv'
<1>1. \A v \in Workers : run'[v] = IF v = w THEN IdleRun ELSE run[v]
  BY DEF PostingTypeOK, GoIdle
<1>2. IdleRun.pc = "idle"
  BY IdleRunType
<1>3. NothingSkipped'
  BY DEF SkipInv, NothingSkipped, Occurrences
<1>4. \A v \in Workers : run'[v].pc # "idle" => run'[v] = run[v]
  BY <1>1, <1>2
<1>5. LoadedRows'
  BY <1>4 DEF SkipInv, LoadedRows, Occurrences
<1>6. PendingLoaded'
  BY <1>4 DEF SkipInv, PendingLoaded
<1>7. LoopDates'
  BY <1>4 DEF SkipInv, LoopDates, Occurrences
<1> QED BY <1>3, <1>5, <1>6, <1>7 DEF SkipInv

(***************************************************************************)
(* "A failure partway through a catch-up run leaves the cursor at the last *)
(* real success rather than silently skipping ahead", for any number of    *)
(* overlapping runs and whatever users do.  The invariant adds what a      *)
(* run's memory says about the past: LoadedRows, PendingLoaded, LoopDates. *)
(***************************************************************************)
THEOREM NeverSkips == PostingSpec => []NothingSkipped
<1>1. PostingInit => SkipInv
  <2> SUFFICES ASSUME PostingInit PROVE SkipInv
    OBVIOUS
  <2>1. \A w \in Workers : run[w].pc = "idle"
    BY DEF PostingInit, IdleRun
  <2>2. \A r \in Rules : rule[r].cursor = 0
    BY DEF PostingInit, NewRow, NoDate
  <2>3. NothingSkipped
    BY <2>2, PostingAssumption DEF NothingSkipped, Occurrences, Days
  <2> QED BY <2>1, <2>3 DEF SkipInv, LoadedRows, PendingLoaded, LoopDates
<1>2. PostingTypeOK /\ SkipInv /\ [PostingNext]_postingVars => SkipInv'
  <2> SUFFICES ASSUME PostingTypeOK, SkipInv, [PostingNext]_postingVars PROVE SkipInv'
    OBVIOUS
  <2>0. ASSUME NEW w \in Workers
        PROVE  run[w] \in Run
    BY DEF PostingTypeOK
  <2>1. CASE \E w \in Workers : StartRun(w)
    <3> PICK w \in Workers : StartRun(w)
      BY <2>1
    <3>1. \A v \in Workers : v # w => run'[v] = run[v]
      BY DEF PostingTypeOK, StartRun
    <3>2. /\ run'[w].pc = "rules"
          /\ run'[w].pending = {r \in Rules : LiveRule(r)}
          /\ run'[w].snap = rule
      BY <2>0 DEF PostingTypeOK, StartRun, Run
    <3>3. UNCHANGED <<rule, posted, edited>>
      BY DEF StartRun
    <3>4. NothingSkipped'
      BY <3>3 DEF SkipInv, NothingSkipped, Occurrences
    <3>5. LoadedRows'
      <4> SUFFICES ASSUME NEW v \in Workers, run'[v].pc # "idle", NEW r \in Rules,
                          run'[v].snap[r].state = "live"
                   PROVE  /\ rule[r].state # "new"
                          /\ r \notin edited =>
                               /\ Occurrences(run'[v].snap[r]) = Occurrences(rule[r])
                               /\ \A d \in Occurrences(rule[r]) :
                                    d <= run'[v].snap[r].cursor => posted[r][d] > 0
        BY <3>3 DEF LoadedRows, Occurrences
      <4>1. CASE v = w
        BY <3>2, <4>1 DEF SkipInv, NothingSkipped
      <4>2. CASE v # w
        BY <3>1, <4>2 DEF SkipInv, LoadedRows
      <4> QED BY <4>1, <4>2
    <3>6. PendingLoaded'
      BY <3>1, <3>2 DEF SkipInv, PendingLoaded, LiveRule
    <3>7. LoopDates'
      BY <3>1, <3>2, <3>3 DEF SkipInv, LoopDates, Occurrences
    <3> QED BY <3>4, <3>5, <3>6, <3>7 DEF SkipInv
  <2>2. CASE \E w \in Workers, r \in Rules : PostDueOccurrences(w, r)
    <3> PICK w \in Workers, r \in Rules : PostDueOccurrences(w, r)
      BY <2>2
    <3> DEFINE row == run[w].snap[r]
               dates == OccurrenceDates(row, run[w].day)
    <3>1. \A v \in Workers : v # w => run'[v] = run[v]
      BY DEF PostingTypeOK, PostDueOccurrences
    <3>2. /\ run'[w].pending = run[w].pending \ {r}
          /\ run'[w].snap = run[w].snap
          /\ run'[w].cur = r
          /\ run'[w].todo = dates
          /\ run[w].pc = "rules"
          /\ r \in run[w].pending
      BY <2>0 DEF PostingTypeOK, PostDueOccurrences, Run
    <3>3. UNCHANGED <<rule, posted, edited>>
      BY DEF PostDueOccurrences
    <3>4. row.state = "live"
      BY <3>2 DEF SkipInv, PendingLoaded
    <3>5. NothingSkipped'
      BY <3>3 DEF SkipInv, NothingSkipped, Occurrences
    <3>6. LoadedRows'
      <4>1. \A v \in Workers : run'[v].pc # "idle" => run[v].pc # "idle" /\ run'[v].snap = run[v].snap
        BY <3>1, <3>2
      <4> QED BY <3>3, <4>1 DEF SkipInv, LoadedRows, Occurrences
    <3>7. PendingLoaded'
      BY <3>1, <3>2 DEF SkipInv, PendingLoaded
    <3>8. ASSUME r \notin edited, NEW e \in dates, NEW d \in Occurrences(rule[r]), d < e
          PROVE  d \in dates \/ posted[r][d] > 0
      <4>1. /\ Occurrences(row) = Occurrences(rule[r])
            /\ \A x \in Occurrences(rule[r]) : x <= row.cursor => posted[r][x] > 0
        BY <3>2, <3>4, <3>8 DEF SkipInv, LoadedRows
      <4>2. /\ d \in Int /\ e \in Int
            /\ row.cursor \in Int /\ run[w].day \in Int
            /\ DueDates(row, run[w].day) \in SUBSET Days
        <5>1. row \in RuleRow /\ run[w].day \in Days
          BY <2>0 DEF Run
        <5>2. row.cursor \in Int /\ run[w].day \in Int
          BY <5>1, PostingAssumption DEF RuleRow, Days, NoDate
        <5>3. d \in Int /\ e \in Int
          BY PostingAssumption DEF Days, Occurrences, OccurrenceDates, Earliest, DueDates
        <5> QED BY <5>2, <5>3 DEF DueDates, Occurrences
      <4>3. e \in Earliest(DueDates(row, run[w].day), MaxCatchUp)
        BY DEF OccurrenceDates
      <4>4. e <= run[w].day
        BY <4>3 DEF Earliest, DueDates
      <4>5. CASE d <= row.cursor
        BY <4>1, <4>5
      <4>6. CASE row.cursor < d
        <5>1. d \in DueDates(row, run[w].day)
          BY <3>8, <4>1, <4>2, <4>4, <4>6 DEF DueDates
        <5>2. d \in Earliest(DueDates(row, run[w].day), MaxCatchUp)
          BY <3>8, <4>2, <4>3, <5>1, EarliestIsPrefix, PostingAssumption
        <5> QED BY <5>2 DEF OccurrenceDates
      <4> QED BY <4>2, <4>5, <4>6
    <3> HIDE DEF dates, row
    <3>9. LoopDates'
      <4> SUFFICES ASSUME NEW v \in Workers, run'[v].pc \in {"validate", "commit"}
                   PROVE  /\ run'[v].snap[run'[v].cur].state = "live"
                          /\ run'[v].cur \notin edited =>
                               \A e \in run'[v].todo : \A d \in Occurrences(rule[run'[v].cur]) :
                                 d < e => d \in run'[v].todo \/ posted[run'[v].cur][d] > 0
        BY <3>3 DEF LoopDates, Occurrences
      <4>1. CASE v = w
        BY <3>2, <3>4, <3>8, <4>1 DEF row
      <4>2. CASE v # w
        BY <3>1, <4>2 DEF SkipInv, LoopDates
      <4> QED BY <4>1, <4>2
    <3> QED BY <3>5, <3>6, <3>7, <3>9 DEF SkipInv
  <2>3. CASE \E w \in Workers : AbortOnExpiredRule(w)
    BY <2>3, SkipIdle DEF AbortOnExpiredRule
  <2>4. CASE \E w \in Workers : ValidateOccurrence(w)
    <3> PICK w \in Workers : ValidateOccurrence(w)
      BY <2>4
    <3>1. \A v \in Workers : /\ run'[v].snap = run[v].snap
                             /\ run'[v].pending = run[v].pending
                             /\ run'[v].cur = run[v].cur
                             /\ run'[v].todo = run[v].todo
                             /\ run'[v].pc = IF v = w THEN "commit" ELSE run[v].pc
      BY <2>0 DEF PostingTypeOK, ValidateOccurrence, Goto, Run
    <3>2. UNCHANGED <<rule, posted, edited>> /\ run[w].pc = "validate"
      BY DEF ValidateOccurrence
    <3>3. NothingSkipped'
      BY <3>2 DEF SkipInv, NothingSkipped, Occurrences
    <3>4. LoadedRows'
      BY <3>1, <3>2 DEF SkipInv, LoadedRows, Occurrences
    <3>5. PendingLoaded'
      BY <3>1, <3>2 DEF SkipInv, PendingLoaded
    <3>6. LoopDates'
      BY <3>1, <3>2 DEF SkipInv, LoopDates, Occurrences
    <3> QED BY <3>3, <3>4, <3>5, <3>6 DEF SkipInv
  <2>5. CASE \E w \in Workers : FailOccurrence(w)
    <3> PICK w \in Workers : FailOccurrence(w)
      BY <2>5
    <3>1. \A v \in Workers : v # w => run'[v] = run[v]
      BY DEF PostingTypeOK, FailOccurrence
    <3>2. /\ run'[w].snap = run[w].snap /\ run'[w].pending = run[w].pending
          /\ run'[w].pc = "rules" /\ run[w].pc = "validate"
      BY <2>0 DEF PostingTypeOK, FailOccurrence, Run
    <3>3. UNCHANGED <<rule, posted, edited>>
      BY DEF FailOccurrence
    <3>4. NothingSkipped'
      BY <3>3 DEF SkipInv, NothingSkipped, Occurrences
    <3>5. LoadedRows'
      <4>1. \A v \in Workers : run'[v].pc # "idle" => run[v].pc # "idle" /\ run'[v].snap = run[v].snap
        BY <3>1, <3>2
      <4> QED BY <3>3, <4>1 DEF SkipInv, LoadedRows, Occurrences
    <3>6. PendingLoaded'
      BY <3>1, <3>2 DEF SkipInv, PendingLoaded
    <3>7. LoopDates'
      BY <3>1, <3>2, <3>3 DEF SkipInv, LoopDates, Occurrences
    <3> QED BY <3>4, <3>5, <3>6, <3>7 DEF SkipInv
  <2>6. CASE \E w \in Workers, d \in Days : CommitOccurrence(w, d)
    <3> PICK w \in Workers, d \in Days : CommitOccurrence(w, d)
      BY <2>6
    <3> DEFINE r == run[w].cur
    <3>1. /\ r \in Rules
          /\ run[w].pc = "commit"
          /\ d \in run[w].todo
          /\ \A e \in run[w].todo : d <= e
      BY DEF PostingTypeOK, CommitOccurrence, NextDate
    <3>2. \A v \in Workers : v # w => run'[v] = run[v]
      BY DEF PostingTypeOK, CommitOccurrence
    <3>3. /\ run'[w].snap = run[w].snap /\ run'[w].pending = run[w].pending
          /\ run'[w].cur = r
          /\ run'[w].todo = run[w].todo \ {d}
          /\ run'[w].pc \in {"rules", "validate"}
      BY <2>0 DEF PostingTypeOK, CommitOccurrence, Run
    <3>4. /\ rule' = [rule EXCEPT ![r].cursor = d]
          /\ posted' = [posted EXCEPT ![r][d] = @ + 1]
          /\ edited' = edited
      BY DEF CommitOccurrence
    <3> HIDE DEF r
    <3>5. \A q \in Rules : /\ rule'[q].state = rule[q].state
                           /\ Occurrences(rule'[q]) = Occurrences(rule[q])
                           /\ q # r => rule'[q].cursor = rule[q].cursor
      BY <3>1, <3>4 DEF PostingTypeOK, RuleRow, Occurrences
    <3>6. rule'[r].cursor = d
      BY <3>1, <3>4 DEF PostingTypeOK, RuleRow
    <3>7. \A q \in Rules, x \in Days : posted[q][x] > 0 => posted'[q][x] > 0
      BY <3>1, <3>4 DEF PostingTypeOK
    <3>8. posted'[r][d] > 0
      BY <3>1, <3>4 DEF PostingTypeOK
    <3>9. \A q \in Rules : Occurrences(rule[q]) \subseteq Days
      BY DEF Occurrences
    <3>10. NothingSkipped'
      <4> SUFFICES ASSUME NEW q \in Rules \ edited, NEW x \in Occurrences(rule[q]),
                          x <= rule'[q].cursor
                   PROVE  posted'[q][x] > 0
        BY <3>4, <3>5 DEF NothingSkipped
      <4>1. CASE q # r
        BY <3>5, <3>7, <3>9, <4>1 DEF SkipInv, NothingSkipped
      <4>2. CASE q = r /\ x = d
        BY <3>8, <4>2
      <4>3. CASE q = r /\ x < d
        <5>1. x \in run[w].todo \/ posted[r][x] > 0
          BY <3>1, <4>3 DEF SkipInv, LoopDates, r
        <5>2. x \notin run[w].todo
          BY <3>1, <3>9, <4>3, PostingAssumption DEF Days
        <5> QED BY <3>7, <3>9, <4>3, <5>1, <5>2
      <4> QED BY <3>6, <3>9, <4>1, <4>2, <4>3, PostingAssumption DEF Days
    <3>11. LoadedRows'
      <4>1. \A v \in Workers : run'[v].pc # "idle" => run[v].pc # "idle" /\ run'[v].snap = run[v].snap
        BY <3>1, <3>2, <3>3
      <4> QED BY <3>4, <3>5, <3>7, <3>9, <4>1 DEF SkipInv, LoadedRows
    <3>12. PendingLoaded'
      BY <3>1, <3>2, <3>3 DEF SkipInv, PendingLoaded
    <3>13. LoopDates'
      <4> SUFFICES ASSUME NEW v \in Workers, run'[v].pc \in {"validate", "commit"}
                   PROVE  /\ run'[v].snap[run'[v].cur].state = "live"
                          /\ run'[v].cur \notin edited =>
                               \A e \in run'[v].todo : \A x \in Occurrences(rule'[run'[v].cur]) :
                                 x < e => x \in run'[v].todo \/ posted'[run'[v].cur][x] > 0
        BY <3>4 DEF LoopDates
      <4>1. CASE v = w
        <5>1. /\ run[w].snap[r].state = "live"
              /\ r \notin edited =>
                   \A e \in run[w].todo : \A x \in Occurrences(rule[r]) :
                     x < e => x \in run[w].todo \/ posted[r][x] > 0
          BY <3>1 DEF SkipInv, LoopDates, r
        <5> QED BY <3>1, <3>3, <3>5, <3>7, <3>8, <3>9, <4>1, <5>1
      <4>2. CASE v # w
        <5>1. run'[v] = run[v] /\ run[v].cur \in Rules
          BY <3>2, <4>2 DEF PostingTypeOK
        <5> QED BY <3>5, <3>7, <3>9, <5>1 DEF SkipInv, LoopDates
      <4> QED BY <4>1, <4>2
    <3> QED BY <3>10, <3>11, <3>12, <3>13 DEF SkipInv
  <2>7. CASE \E w \in Workers, d \in Days : AbortOnFlushError(w, d)
    BY <2>7, SkipIdle DEF AbortOnFlushError
  <2>8. CASE \E w \in Workers : FinishRun(w)
    BY <2>8, SkipIdle DEF FinishRun
  <2>9. CASE \E w \in Workers : Kill(w)
    BY <2>9, SkipIdle DEF Kill
  <2>10. CASE \E r \in Rules : CreateRecurringRule(r)
    <3> PICK r \in Rules : CreateRecurringRule(r)
      BY <2>10
    <3>1. rule[r].state = "new" /\ UNCHANGED <<run, posted, edited>>
      BY DEF CreateRecurringRule
    <3>2. \A q \in Rules : q # r => rule'[q] = rule[q]
      BY DEF PostingTypeOK, CreateRecurringRule
    <3>3. rule'[r].cursor = 0 /\ rule'[r].state = "live"
      BY DEF PostingTypeOK, CreateRecurringRule, NoDate
    <3>4. NothingSkipped'
      <4>1. \A d \in Days : ~(d <= 0)
        BY PostingAssumption DEF Days
      <4>2. \A q \in Rules : Occurrences(rule'[q]) \subseteq Days
        BY DEF Occurrences
      <4> QED BY <3>1, <3>2, <3>3, <4>1, <4>2 DEF SkipInv, NothingSkipped
    <3>5. \A v \in Workers, q \in Rules :
             run[v].pc # "idle" /\ run[v].snap[q].state = "live" => q # r
      BY <3>1 DEF SkipInv, LoadedRows
    <3>6. LoadedRows'
      BY <3>1, <3>2, <3>5 DEF SkipInv, LoadedRows
    <3>7. PendingLoaded'
      BY <3>1 DEF SkipInv, PendingLoaded
    <3>8. \A v \in Workers : run[v].pc \in {"validate", "commit"} =>
             run[v].cur \in Rules /\ run[v].cur # r
      BY <3>5 DEF PostingTypeOK, SkipInv, LoopDates
    <3>9. LoopDates'
      BY <3>1, <3>2, <3>8 DEF SkipInv, LoopDates
    <3> QED BY <3>4, <3>6, <3>7, <3>9 DEF SkipInv
  <2>11. CASE \E r \in Rules : UpdateRecurringRule(r)
    <3> PICK r \in Rules : UpdateRecurringRule(r)
      BY <2>11
    <3>0. rule[r] \in RuleRow
      BY DEF PostingTypeOK
    <3>1. UNCHANGED <<run, posted>> /\ edited \subseteq edited'
      BY DEF UpdateRecurringRule
    <3>2. \A q \in Rules : /\ q # r => rule'[q] = rule[q]
                           /\ rule'[q].state = rule[q].state
                           /\ rule'[q].cursor = rule[q].cursor
      BY <3>0 DEF PostingTypeOK, UpdateRecurringRule, RuleRow
    <3>3. r \notin edited' => Occurrences(rule'[r]) = Occurrences(rule[r])
      <4> SUFFICES ASSUME r \notin edited' PROVE Occurrences(rule'[r]) = Occurrences(rule[r])
        OBVIOUS
      <4>1. /\ rule'[r].start = rule[r].start
            /\ rule'[r].interval = rule[r].interval
            /\ rule'[r].end = rule[r].end
        BY <3>0 DEF PostingTypeOK, UpdateRecurringRule, RuleRow
      <4> QED BY <4>1 DEF Occurrences
    <3>4. \A q \in Rules : q \notin edited' =>
             q \notin edited /\ Occurrences(rule'[q]) = Occurrences(rule[q])
      BY <3>1, <3>2, <3>3
    <3>5. NothingSkipped'
      BY <3>1, <3>2, <3>4 DEF SkipInv, NothingSkipped
    <3>6. LoadedRows'
      BY <3>1, <3>2, <3>4 DEF SkipInv, LoadedRows
    <3>7. PendingLoaded'
      BY <3>1 DEF SkipInv, PendingLoaded
    <3>8. LoopDates'
      <4>1. \A v \in Workers : run[v].pc \in {"validate", "commit"} => run[v].cur \in Rules
        BY DEF PostingTypeOK
      <4> QED BY <3>1, <3>4, <4>1 DEF SkipInv, LoopDates
    <3> QED BY <3>5, <3>6, <3>7, <3>8 DEF SkipInv
  <2>12. CASE \E r \in Rules : DeleteRecurringRule(r)
    <3> PICK r \in Rules : DeleteRecurringRule(r)
      BY <2>12
    <3>1. UNCHANGED <<run, posted, edited>>
      BY DEF DeleteRecurringRule
    <3>2. \A q \in Rules : /\ Occurrences(rule'[q]) = Occurrences(rule[q])
                           /\ rule'[q].cursor = rule[q].cursor
                           /\ rule[q].state # "new" => rule'[q].state # "new"
      BY DEF PostingTypeOK, DeleteRecurringRule, RuleRow, Occurrences
    <3>3. NothingSkipped'
      BY <3>1, <3>2 DEF SkipInv, NothingSkipped
    <3>4. LoadedRows'
      BY <3>1, <3>2 DEF SkipInv, LoadedRows
    <3>5. PendingLoaded'
      BY <3>1 DEF SkipInv, PendingLoaded
    <3>6. LoopDates'
      <4>1. \A v \in Workers : run[v].pc \in {"validate", "commit"} => run[v].cur \in Rules
        BY DEF PostingTypeOK
      <4> QED BY <3>1, <3>2, <4>1 DEF SkipInv, LoopDates
    <3> QED BY <3>3, <3>4, <3>5, <3>6 DEF SkipInv
  <2>13. CASE \/ \E r \in Rules, d \in Days : DeleteTransaction(r, d)
              \/ \E r \in Rules, d \in Days : LinkTransaction(r, d)
              \/ \E r \in Rules, d, e \in Days : MoveTransaction(r, d, e)
              \/ \E t \in Templates : ToggleCurrency(t)
              \/ NextDay
              \/ UNCHANGED postingVars
    BY <2>13, SkipUnchanged
       DEF DeleteTransaction, LinkTransaction, MoveTransaction, ToggleCurrency, NextDay, postingVars
  <2>14. CASE PostingNext
    BY <2>14, NextCases, <2>1, <2>2, <2>3, <2>4, <2>5, <2>6, <2>7, <2>8, <2>9, <2>10, <2>11,
       <2>12, <2>13
  <2> QED BY <2>13, <2>14
<1>3. SkipInv => NothingSkipped
  BY DEF SkipInv
<1> QED BY <1>1, <1>2, <1>3, TypeCorrect, PTL DEF PostingSpec

----------------------------------------------------------------------------
(* Runs that do not overlap.                                               *)

(***************************************************************************)
(* With one worker the loaded cursors are the stored ones, the dates of    *)
(* the catch-up loop lie behind the cursor of its rule, and everything     *)
(* posted lies at or before it.                                            *)
(***************************************************************************)
PostedBehindCursor ==
  \A r \in Rules, d \in Days :
    posted[r][d] > 0 => d <= rule[r].cursor /\ rule[r].state # "new"

NewHasNoCursor == \A r \in Rules : rule[r].state = "new" => rule[r].cursor = NoDate

PendingCurrent ==
  \A w \in Workers : run[w].pc # "idle" =>
    \A r \in run[w].pending : /\ rule[r].state # "new"
                              /\ run[w].snap[r].cursor = rule[r].cursor

LoopAhead ==
  \A w \in Workers : run[w].pc \in {"validate", "commit"} =>
    /\ run[w].cur \notin run[w].pending
    /\ rule[run[w].cur].state # "new"
    /\ \A d \in run[w].todo : rule[run[w].cur].cursor < d

OnceInv == PostedAtMostOnce /\ PostedBehindCursor /\ NewHasNoCursor /\ PendingCurrent /\ LoopAhead

LEMMA OnceUnchanged ==
  ASSUME OnceInv, UNCHANGED <<rule, run, posted>>
  PROVE  OnceInv'
BY DEF OnceInv, PostedAtMostOnce, PostedBehindCursor, NewHasNoCursor, PendingCurrent, LoopAhead

LEMMA OnceIdle ==
  ASSUME PostingTypeOK, OnceInv, NEW w \in Workers, GoIdle(w), UNCHANGED <<rule, posted>>
  PROVE  OnceInv'
<1>1. \A v \in Workers : run'[v] = IF v = w THEN IdleRun ELSE run[v]
  BY DEF PostingTypeOK, GoIdle
<1>2. \A v \in Workers : run'[v].pc # "idle" => run'[v] = run[v]
  BY <1>1, IdleRunType
<1>3. PendingCurrent' /\ LoopAhead'
  BY <1>2 DEF OnceInv, PendingCurrent, LoopAhead
<1> QED BY <1>3 DEF OnceInv, PostedAtMostOnce, PostedBehindCursor, NewHasNoCursor

(* A user operation that leaves cursors alone and creates nothing.         *)
LEMMA OnceUserEdit ==
  ASSUME PostingTypeOK, OnceInv, UNCHANGED <<run, posted>>,
         \A q \in Rules : /\ rule'[q].cursor = rule[q].cursor
                          /\ rule'[q].state = "new" <=> rule[q].state = "new"
  PROVE  OnceInv'
<1>1. \A w \in Workers : /\ run[w].pending \subseteq Rules
                         /\ run[w].pc \in {"validate", "commit"} => run[w].cur \in Rules
  BY DEF PostingTypeOK, Run
<1> QED BY <1>1 DEF OnceInv, PostedAtMostOnce, PostedBehindCursor, NewHasNoCursor,
                    PendingCurrent, LoopAhead

(* The inductive step, and the cursor in that step.                        *)
LEMMA OnceStep ==
  ASSUME \A v, w \in Workers : v = w, PostingTypeOK, OnceInv, [PostingNext]_postingVars
  PROVE  OnceInv' /\ \A q \in Rules : rule[q].cursor <= rule'[q].cursor
<1>0. ASSUME NEW w \in Workers
      PROVE  run[w] \in Run
  BY DEF PostingTypeOK
<1>00. \A q \in Rules : rule[q].cursor \in Int /\ rule[q].cursor >= 0
  BY PostingAssumption DEF PostingTypeOK, RuleRow, Days, NoDate
<1>1. CASE \E w \in Workers : StartRun(w)
  <2> PICK w \in Workers : StartRun(w)
    BY <1>1
  <2>1. /\ run'[w].pc = "rules"
        /\ run'[w].pending = {r \in Rules : LiveRule(r)}
        /\ run'[w].snap = rule
    BY <1>0 DEF PostingTypeOK, StartRun, Run
  <2>2. UNCHANGED <<rule, posted>>
    BY DEF StartRun
  <2>3. PendingCurrent' /\ LoopAhead'
    BY <2>1, <2>2 DEF PendingCurrent, LoopAhead, LiveRule
  <2> QED BY <1>00, <2>2, <2>3 DEF OnceInv, PostedAtMostOnce, PostedBehindCursor, NewHasNoCursor
<1>2. CASE \E w \in Workers, r \in Rules : PostDueOccurrences(w, r)
  <2> PICK w \in Workers, r \in Rules : PostDueOccurrences(w, r)
    BY <1>2
  <2> DEFINE dates == OccurrenceDates(run[w].snap[r], run[w].day)
  <2>1. /\ run'[w].pending = run[w].pending \ {r}
        /\ run'[w].snap = run[w].snap
        /\ run'[w].cur = r
        /\ run'[w].todo = dates
        /\ run[w].pc = "rules"
        /\ r \in run[w].pending
    BY <1>0 DEF PostingTypeOK, PostDueOccurrences, Run
  <2>2. UNCHANGED <<rule, posted>>
    BY DEF PostDueOccurrences
  <2>3. \A d \in dates : run[w].snap[r].cursor < d
    BY DEF OccurrenceDates, Earliest, DueDates
  <2> HIDE DEF dates
  <2>4. run[w].snap[r].cursor = rule[r].cursor /\ rule[r].state # "new"
    BY <2>1 DEF OnceInv, PendingCurrent
  <2>5. PendingCurrent'
    BY <2>1, <2>2 DEF OnceInv, PendingCurrent
  <2>6. LoopAhead'
    BY <2>1, <2>2, <2>3, <2>4 DEF LoopAhead
  <2> QED BY <1>00, <2>2, <2>5, <2>6 DEF OnceInv, PostedAtMostOnce, PostedBehindCursor, NewHasNoCursor
<1>3. CASE \E w \in Workers : ValidateOccurrence(w)
  <2> PICK w \in Workers : ValidateOccurrence(w)
    BY <1>3
  <2>1. /\ run'[w].pending = run[w].pending
        /\ run'[w].snap = run[w].snap
        /\ run'[w].cur = run[w].cur
        /\ run'[w].todo = run[w].todo
        /\ run[w].pc = "validate"
    BY <1>0 DEF PostingTypeOK, ValidateOccurrence, Goto, Run
  <2>2. UNCHANGED <<rule, posted>>
    BY DEF ValidateOccurrence
  <2>3. PendingCurrent' /\ LoopAhead'
    BY <2>1, <2>2 DEF OnceInv, PendingCurrent, LoopAhead
  <2> QED BY <1>00, <2>2, <2>3 DEF OnceInv, PostedAtMostOnce, PostedBehindCursor, NewHasNoCursor
<1>4. CASE \E w \in Workers : FailOccurrence(w)
  <2> PICK w \in Workers : FailOccurrence(w)
    BY <1>4
  <2>1. /\ run'[w].pending = run[w].pending
        /\ run'[w].snap = run[w].snap
        /\ run'[w].pc = "rules"
        /\ run[w].pc = "validate"
    BY <1>0 DEF PostingTypeOK, FailOccurrence, Run
  <2>2. UNCHANGED <<rule, posted>>
    BY DEF FailOccurrence
  <2>3. PendingCurrent' /\ LoopAhead'
    BY <2>1, <2>2 DEF OnceInv, PendingCurrent, LoopAhead
  <2> QED BY <1>00, <2>2, <2>3 DEF OnceInv, PostedAtMostOnce, PostedBehindCursor, NewHasNoCursor
<1>5. CASE \E w \in Workers, d \in Days : CommitOccurrence(w, d)
  <2> PICK w \in Workers, d \in Days : CommitOccurrence(w, d)
    BY <1>5
  <2> DEFINE r == run[w].cur
  <2>1. /\ r \in Rules
        /\ run[w].pc = "commit"
        /\ d \in run[w].todo
        /\ \A e \in run[w].todo : d <= e
    BY DEF PostingTypeOK, CommitOccurrence, NextDate
  <2>2. /\ run'[w].snap = run[w].snap /\ run'[w].pending = run[w].pending
        /\ run'[w].cur = r
        /\ run'[w].todo = run[w].todo \ {d}
    BY <1>0 DEF PostingTypeOK, CommitOccurrence, Run
  <2>3. /\ rule' = [rule EXCEPT ![r].cursor = d]
        /\ posted' = [posted EXCEPT ![r][d] = @ + 1]
    BY DEF CommitOccurrence
  <2>4. /\ r \notin run[w].pending /\ rule[r].state # "new"
        /\ rule[r].cursor < d
    BY <2>1 DEF OnceInv, LoopAhead
  <2> HIDE DEF r
  <2>5. \A q \in Rules : /\ rule'[q].state = rule[q].state
                         /\ rule'[q].cursor = IF q = r THEN d ELSE rule[q].cursor
    BY <2>1, <2>3 DEF PostingTypeOK, RuleRow
  <2>6. /\ \A q \in Rules, x \in Days :
             posted'[q][x] = IF q = r /\ x = d THEN posted[q][x] + 1 ELSE posted[q][x]
        /\ \A q \in Rules, x \in Days : posted[q][x] \in Nat
    BY <2>1, <2>3 DEF PostingTypeOK
  <2>7. \A x \in Days : x \in Int
    BY PostingAssumption DEF Days
  <2>8. posted[r][d] = 0
    BY <1>00, <2>1, <2>4, <2>6, <2>7 DEF OnceInv, PostedBehindCursor
  <2>9. PostedAtMostOnce'
    BY <2>1, <2>6, <2>8 DEF OnceInv, PostedAtMostOnce
  <2>10. PostedBehindCursor'
    BY <1>00, <2>1, <2>4, <2>5, <2>6, <2>7 DEF OnceInv, PostedBehindCursor
  <2>11. NewHasNoCursor'
    BY <2>4, <2>5 DEF OnceInv, NewHasNoCursor
  <2>12. PendingCurrent'
    <3>1. run[w].pending \subseteq Rules
      BY <1>0 DEF Run
    <3> QED BY <2>1, <2>2, <2>4, <2>5, <3>1 DEF OnceInv, PendingCurrent
  <2>13. LoopAhead'
    <3>1. \A e \in run[w].todo \ {d} : d < e
      <4>1. run[w].todo \subseteq Days
        BY <1>0 DEF Run
      <4> QED BY <2>1, <2>7, <4>1
    <3> QED BY <2>1, <2>2, <2>4, <2>5, <3>1 DEF LoopAhead
  <2> QED BY <1>00, <2>4, <2>5, <2>7, <2>9, <2>10, <2>11, <2>12, <2>13 DEF OnceInv
<1>6. CASE \/ \E w \in Workers : AbortOnExpiredRule(w)
           \/ \E w \in Workers, d \in Days : AbortOnFlushError(w, d)
           \/ \E w \in Workers : FinishRun(w)
           \/ \E w \in Workers : Kill(w)
  <2>1. \E w \in Workers : GoIdle(w) /\ UNCHANGED <<rule, posted>>
    BY <1>6 DEF AbortOnExpiredRule, AbortOnFlushError, FinishRun, Kill
  <2> QED BY <1>00, <2>1, OnceIdle
<1>7. CASE \E r \in Rules : CreateRecurringRule(r)
  <2> PICK r \in Rules : CreateRecurringRule(r)
    BY <1>7
  <2>1. rule[r].state = "new" /\ UNCHANGED <<run, posted>>
    BY DEF CreateRecurringRule
  <2>2. /\ \A q \in Rules : q # r => rule'[q] = rule[q]
        /\ rule'[r].cursor = NoDate
        /\ rule'[r].state = "live"
    BY DEF PostingTypeOK, CreateRecurringRule
  <2>3. rule[r].cursor = NoDate
    BY <2>1 DEF OnceInv, NewHasNoCursor
  <2>4. \A w \in Workers : /\ run[w].pending \subseteq Rules
                           /\ run[w].pc \in {"validate", "commit"} => run[w].cur \in Rules
    BY DEF PostingTypeOK, Run
  <2>5. PostedBehindCursor' /\ PostedAtMostOnce' /\ NewHasNoCursor'
    BY <2>1, <2>2 DEF OnceInv, PostedBehindCursor, PostedAtMostOnce, NewHasNoCursor
  <2>6. PendingCurrent' /\ LoopAhead'
    BY <2>1, <2>2, <2>4 DEF OnceInv, PendingCurrent, LoopAhead
  <2> QED BY <1>00, <2>2, <2>3, <2>5, <2>6 DEF OnceInv
<1>8. CASE \E r \in Rules : UpdateRecurringRule(r)
  <2> PICK r \in Rules : UpdateRecurringRule(r)
    BY <1>8
  <2>1. rule[r] \in RuleRow /\ UNCHANGED <<run, posted>>
    BY DEF PostingTypeOK, UpdateRecurringRule
  <2>2. \A q \in Rules : /\ rule'[q].state = rule[q].state
                         /\ rule'[q].cursor = rule[q].cursor
    BY <2>1 DEF PostingTypeOK, UpdateRecurringRule, RuleRow
  <2> QED BY <1>00, <2>1, <2>2, OnceUserEdit
<1>9. CASE \E r \in Rules : DeleteRecurringRule(r)
  <2> PICK r \in Rules : DeleteRecurringRule(r)
    BY <1>9
  <2>1. rule[r].state = "live" /\ UNCHANGED <<run, posted>>
    BY DEF DeleteRecurringRule, LiveRule
  <2>2. \A q \in Rules : /\ rule'[q].cursor = rule[q].cursor
                         /\ rule'[q].state = IF q = r THEN "deleted" ELSE rule[q].state
    BY DEF PostingTypeOK, DeleteRecurringRule, RuleRow
  <2> QED BY <1>00, <2>1, <2>2, OnceUserEdit
<1>10. CASE \/ \E r \in Rules, d \in Days : DeleteTransaction(r, d)
            \/ \E r \in Rules, d \in Days : LinkTransaction(r, d)
            \/ \E r \in Rules, d, e \in Days : MoveTransaction(r, d, e)
            \/ \E t \in Templates : ToggleCurrency(t)
            \/ NextDay
            \/ UNCHANGED postingVars
  <2>1. UNCHANGED <<rule, run, posted>>
    BY <1>10 DEF DeleteTransaction, LinkTransaction, MoveTransaction, ToggleCurrency, NextDay, postingVars
  <2> QED BY <1>00, <2>1, OnceUnchanged
<1>11. CASE PostingNext
  BY <1>11, NextCases, <1>1, <1>2, <1>3, <1>4, <1>5, <1>6, <1>7, <1>8, <1>9, <1>10
<1> QED BY <1>10, <1>11

LEMMA OnceInit ==
  ASSUME PostingInit PROVE OnceInv
<1>1. \A w \in Workers : run[w].pc = "idle"
  BY DEF PostingInit, IdleRun
<1>2. \A r \in Rules : rule[r].cursor = NoDate
  BY DEF PostingInit, NewRow
<1>3. \A r \in Rules, d \in Days : posted[r][d] = 0
  BY DEF PostingInit
<1> QED BY <1>1, <1>2, <1>3 DEF OnceInv, PostedAtMostOnce, PostedBehindCursor, NewHasNoCursor,
                                PendingCurrent, LoopAhead

(***************************************************************************)
(* "A rerun never posts the same occurrence twice" as long as runs do not  *)
(* overlap, even when users delete posted transactions, reschedule rules   *)
(* or link transactions of their own.                                      *)
(***************************************************************************)
THEOREM PostsOnceWithoutOverlap ==
  ASSUME \A v, w \in Workers : v = w
  PROVE  PostingSpec => []PostedAtMostOnce
<1>1. PostingInit => OnceInv
  BY OnceInit
<1>2. PostingTypeOK /\ OnceInv /\ [PostingNext]_postingVars => OnceInv'
  BY OnceStep
<1>3. OnceInv => PostedAtMostOnce
  BY DEF OnceInv
<1> QED BY <1>1, <1>2, <1>3, TypeCorrect, PTL DEF PostingSpec

(***************************************************************************)
(* Without overlapping runs no step of anyone moves a posting cursor back. *)
(***************************************************************************)
THEOREM CursorMonotoneWithoutOverlap ==
  ASSUME \A v, w \in Workers : v = w
  PROVE  PostingSpec => CursorNeverMovesBack
<1>1. PostingInit => OnceInv
  BY OnceInit
<1>2. PostingTypeOK /\ OnceInv /\ [PostingNext]_postingVars => OnceInv'
  BY OnceStep
<1>3. PostingTypeOK /\ OnceInv /\ [PostingNext]_postingVars =>
        [\A r \in Rules : rule[r].cursor <= rule'[r].cursor]_postingVars
  BY OnceStep
<1> QED BY <1>1, <1>2, <1>3, TypeCorrect, PTL DEF PostingSpec, CursorNeverMovesBack

----------------------------------------------------------------------------
(* What a finished run has done.                                           *)

(***************************************************************************)
(* Of the dates a run found due when it loaded the rules, each one is      *)
(* posted, or its rule still waits for its turn, or it is in front of the  *)
(* catch-up loop.  h is what a worker holds, p the history of postings.    *)
(***************************************************************************)
Handled(h, p, r, d) ==
  \/ r \in h.pending
  \/ p[r][d] > 0
  \/ h.pc \in {"validate", "commit"} /\ h.cur = r /\ d \in h.todo

Accounted(h, p) ==
  \A r \in Rules : h.snap[r].state = "live" =>
    \A d \in OccurrenceDates(h.snap[r], h.day) : Handled(h, p, r, d)

CatchUpInv == \A w \in Workers : run[w].pc # "idle" /\ ~run[w].failed => Accounted(run[w], posted)

(* With one worker the job row says running for as long as the run lasts.  *)
JobSaysRunning == \A w \in Workers : run[w].pc # "idle" => job = "running"

LEMMA OccurrenceDatesAreDays ==
  ASSUME NEW row, NEW day PROVE OccurrenceDates(row, day) \subseteq Days
BY DEF OccurrenceDates, Earliest, DueDates, Occurrences

(* Postings are never taken back, so what is accounted for stays so.       *)
LEMMA AccountedStays ==
  ASSUME NEW h, NEW p, NEW q, Accounted(h, p),
         \A r \in Rules, d \in Days : p[r][d] > 0 => q[r][d] > 0
  PROVE  Accounted(h, q)
BY OccurrenceDatesAreDays DEF Accounted, Handled

LEMMA CatchUpOthers ==
  ASSUME CatchUpInv, NEW w \in Workers,
         \A v \in Workers : v # w => run'[v] = run[v],
         \A r \in Rules, d \in Days : posted[r][d] > 0 => posted'[r][d] > 0,
         run'[w].pc # "idle" /\ ~run'[w].failed => Accounted(run'[w], posted')
  PROVE  CatchUpInv'
<1> SUFFICES ASSUME NEW v \in Workers, run'[v].pc # "idle", ~run'[v].failed
             PROVE  Accounted(run'[v], posted')
  BY DEF CatchUpInv
<1>1. CASE v = w
  BY <1>1
<1>2. CASE v # w
  <2>1. run'[v] = run[v] /\ Accounted(run[v], posted)
    BY <1>2 DEF CatchUpInv
  <2> QED BY <2>1, AccountedStays
<1> QED BY <1>1, <1>2

LEMMA CatchUpStep ==
  ASSUME PostingTypeOK, CatchUpInv, [PostingNext]_postingVars
  PROVE  CatchUpInv'
<1>0. ASSUME NEW w \in Workers
      PROVE  run[w] \in Run
  BY DEF PostingTypeOK
<1>1. CASE \E w \in Workers : StartRun(w)
  <2> PICK w \in Workers : StartRun(w)
    BY <1>1
  <2>1. /\ run'[w].pending = {r \in Rules : LiveRule(r)}
        /\ run'[w].snap = rule
        /\ \A v \in Workers : v # w => run'[v] = run[v]
    BY <1>0 DEF PostingTypeOK, StartRun, Run
  <2>2. UNCHANGED posted
    BY DEF StartRun
  <2>3. Accounted(run'[w], posted')
    BY <2>1 DEF Accounted, Handled, LiveRule
  <2> QED BY <2>1, <2>2, <2>3, CatchUpOthers
<1>2. CASE \E w \in Workers, r \in Rules : PostDueOccurrences(w, r)
  <2> PICK w \in Workers, r \in Rules : PostDueOccurrences(w, r)
    BY <1>2
  <2> DEFINE dates == OccurrenceDates(run[w].snap[r], run[w].day)
  <2>1. /\ run'[w].pending = run[w].pending \ {r}
        /\ run'[w].snap = run[w].snap
        /\ run'[w].day = run[w].day
        /\ run'[w].failed = run[w].failed
        /\ run'[w].cur = r
        /\ run'[w].todo = dates
        /\ run'[w].pc = IF dates = {} THEN "rules" ELSE "validate"
        /\ run[w].pc = "rules"
        /\ \A v \in Workers : v # w => run'[v] = run[v]
    BY <1>0 DEF PostingTypeOK, PostDueOccurrences, Run
  <2>2. UNCHANGED posted
    BY DEF PostDueOccurrences
  <2>3. ASSUME ~run'[w].failed PROVE Accounted(run'[w], posted')
    <3> SUFFICES ASSUME NEW q \in Rules, run[w].snap[q].state = "live",
                        NEW d \in OccurrenceDates(run[w].snap[q], run[w].day)
                 PROVE  Handled(run'[w], posted', q, d)
      BY <2>1 DEF Accounted
    <3>1. Handled(run[w], posted, q, d)
      BY <2>1, <2>3 DEF CatchUpInv, Accounted
    <3>2. CASE q = r
      <4>1. d \in dates
        BY <3>2
      <4> HIDE DEF dates
      <4> QED BY <2>1, <3>2, <4>1 DEF Handled
    <3>3. CASE q # r
      <4> HIDE DEF dates
      <4> QED BY <2>1, <2>2, <3>1, <3>3 DEF Handled
    <3> QED BY <3>2, <3>3
  <2> HIDE DEF dates
  <2> QED BY <2>1, <2>2, <2>3, CatchUpOthers
<1>3. CASE \E w \in Workers : ValidateOccurrence(w)
  <2> PICK w \in Workers : ValidateOccurrence(w)
    BY <1>3
  <2>1. /\ run'[w].pending = run[w].pending
        /\ run'[w].snap = run[w].snap
        /\ run'[w].day = run[w].day
        /\ run'[w].failed = run[w].failed
        /\ run'[w].cur = run[w].cur
        /\ run'[w].todo = run[w].todo
        /\ run'[w].pc = "commit" /\ run[w].pc = "validate"
        /\ \A v \in Workers : v # w => run'[v] = run[v]
    BY <1>0 DEF PostingTypeOK, ValidateOccurrence, Goto, Run
  <2>2. UNCHANGED posted
    BY DEF ValidateOccurrence
  <2>3. ~run'[w].failed => Accounted(run'[w], posted')
    BY <2>1, <2>2 DEF CatchUpInv, Accounted, Handled
  <2> QED BY <2>1, <2>2, <2>3, CatchUpOthers
<1>4. CASE \E w \in Workers : FailOccurrence(w)
  <2> PICK w \in Workers : FailOccurrence(w)
    BY <1>4
  <2>1. run'[w].failed /\ \A v \in Workers : v # w => run'[v] = run[v]
    BY <1>0 DEF PostingTypeOK, FailOccurrence, Run
  <2>2. UNCHANGED posted
    BY DEF FailOccurrence
  <2> QED BY <2>1, <2>2, CatchUpOthers
<1>5. CASE \E w \in Workers, d \in Days : CommitOccurrence(w, d)
  <2> PICK w \in Workers, d \in Days : CommitOccurrence(w, d)
    BY <1>5
  <2> DEFINE r == run[w].cur
  <2>1. r \in Rules /\ run[w].pc = "commit"
    BY DEF PostingTypeOK, CommitOccurrence
  <2>2. /\ run'[w].pending = run[w].pending
        /\ run'[w].snap = run[w].snap
        /\ run'[w].day = run[w].day
        /\ run'[w].failed = run[w].failed
        /\ run'[w].cur = r
        /\ run'[w].todo = run[w].todo \ {d}
        /\ run'[w].pc = IF run[w].todo = {d} THEN "rules" ELSE "validate"
        /\ \A v \in Workers : v # w => run'[v] = run[v]
    BY <1>0 DEF PostingTypeOK, CommitOccurrence, Run
  <2>3. posted' = [posted EXCEPT ![r][d] = @ + 1]
    BY DEF CommitOccurrence
  <2> HIDE DEF r
  <2>4. \A q \in Rules, x \in Days :
          /\ posted[q][x] \in Nat
          /\ posted'[q][x] = IF q = r /\ x = d THEN posted[q][x] + 1 ELSE posted[q][x]
    BY <2>1, <2>3 DEF PostingTypeOK
  <2>5. \A q \in Rules, x \in Days : posted[q][x] > 0 => posted'[q][x] > 0
    BY <2>4
  <2>6. posted'[r][d] > 0
    BY <2>1, <2>4
  <2>7. ASSUME ~run'[w].failed PROVE Accounted(run'[w], posted')
    <3> SUFFICES ASSUME NEW q \in Rules, run[w].snap[q].state = "live",
                        NEW x \in OccurrenceDates(run[w].snap[q], run[w].day)
                 PROVE  Handled(run'[w], posted', q, x)
      BY <2>2 DEF Accounted
    <3>1. Handled(run[w], posted, q, x)
      BY <2>1, <2>2, <2>7 DEF CatchUpInv, Accounted
    <3>2. x \in Days
      BY OccurrenceDatesAreDays
    <3>3. run[w].cur = r
      BY DEF r
    <3>4. CASE q \in run[w].pending \/ posted[q][x] > 0
      BY <2>2, <2>5, <3>2, <3>4 DEF Handled
    <3>5. CASE r = q /\ x \in run[w].todo
      <4>1. CASE x = d
        BY <2>6, <3>5, <4>1 DEF Handled
      <4>2. CASE x # d
        BY <2>2, <3>5, <4>2 DEF Handled
      <4> QED BY <4>1, <4>2
    <3> QED BY <3>1, <3>3, <3>4, <3>5 DEF Handled
  <2> QED BY <2>2, <2>5, <2>7, CatchUpOthers
<1>6. CASE \/ \E w \in Workers : AbortOnExpiredRule(w)
           \/ \E w \in Workers, d \in Days : AbortOnFlushError(w, d)
           \/ \E w \in Workers : FinishRun(w)
           \/ \E w \in Workers : Kill(w)
  <2> PICK w \in Workers : GoIdle(w) /\ UNCHANGED posted
    BY <1>6 DEF AbortOnExpiredRule, AbortOnFlushError, FinishRun, Kill
  <2>1. run'[w] = IdleRun /\ \A v \in Workers : v # w => run'[v] = run[v]
    BY DEF PostingTypeOK, GoIdle
  <2> QED BY <2>1, IdleRunType, CatchUpOthers
<1>7. CASE \/ \E r \in Rules : CreateRecurringRule(r)
           \/ \E r \in Rules : UpdateRecurringRule(r)
           \/ \E r \in Rules : DeleteRecurringRule(r)
           \/ \E r \in Rules, d \in Days : DeleteTransaction(r, d)
           \/ \E r \in Rules, d \in Days : LinkTransaction(r, d)
           \/ \E r \in Rules, d, e \in Days : MoveTransaction(r, d, e)
           \/ \E t \in Templates : ToggleCurrency(t)
           \/ NextDay
           \/ UNCHANGED postingVars
  <2>1. UNCHANGED <<run, posted>>
    BY <1>7 DEF CreateRecurringRule, UpdateRecurringRule, DeleteRecurringRule, DeleteTransaction,
                LinkTransaction, MoveTransaction, ToggleCurrency, NextDay, postingVars
  <2> QED BY <2>1 DEF CatchUpInv
<1>8. CASE PostingNext
  BY <1>8, NextCases, <1>1, <1>2, <1>3, <1>4, <1>5, <1>6, <1>7
<1> QED BY <1>7, <1>8

LEMMA CatchUpInit ==
  ASSUME PostingInit PROVE CatchUpInv /\ JobSaysRunning
BY IdleRunType DEF PostingInit, CatchUpInv, JobSaysRunning

(* A run that ends with nothing pending has posted what it found due.      *)
LEMMA NothingPending ==
  ASSUME PostingTypeOK, CatchUpInv, NEW w \in Workers, FinishRun(w), ~run[w].failed,
         NEW r \in Rules, run[w].snap[r].state = "live",
         NEW d \in OccurrenceDates(run[w].snap[r], run[w].day)
  PROVE  posted[r][d] > 0
<1>1. run[w].pc = "rules" /\ run[w].pending = {}
  BY DEF FinishRun
<1>2. Handled(run[w], posted, r, d)
  BY <1>1 DEF CatchUpInv, Accounted
<1> QED BY <1>1, <1>2 DEF Handled

(***************************************************************************)
(* However many runs overlap: a run that ends without a failure has posted *)
(* every date it found due when it loaded the rules, rescheduled and       *)
(* deleted rules included.                                                 *)
(***************************************************************************)
THEOREM CleanRunsCatchUp ==
  PostingSpec => [][\A w \in Workers : FinishRun(w) /\ ~run[w].failed =>
                      \A r \in Rules : run[w].snap[r].state = "live" =>
                        \A d \in OccurrenceDates(run[w].snap[r], run[w].day) : posted[r][d] > 0]_postingVars
<1>1. PostingInit => CatchUpInv
  BY CatchUpInit
<1>2. PostingTypeOK /\ CatchUpInv /\ [PostingNext]_postingVars => CatchUpInv'
  BY CatchUpStep
<1>3. PostingTypeOK /\ CatchUpInv /\ [PostingNext]_postingVars =>
        [\A w \in Workers : FinishRun(w) /\ ~run[w].failed =>
           \A r \in Rules : run[w].snap[r].state = "live" =>
             \A d \in OccurrenceDates(run[w].snap[r], run[w].day) : posted[r][d] > 0]_postingVars
  BY NothingPending
<1> QED BY <1>1, <1>2, <1>3, TypeCorrect, PTL DEF PostingSpec

(* The steps of one worker that end its run, and the others.               *)
LEMMA JobStep ==
  ASSUME \A v, w \in Workers : v = w, PostingTypeOK, JobSaysRunning, [PostingNext]_postingVars
  PROVE  JobSaysRunning'
<1>1. CASE \E w \in Workers : StartRun(w)
  BY <1>1 DEF StartRun, JobSaysRunning
<1>2. CASE \/ \E w \in Workers, r \in Rules : PostDueOccurrences(w, r)
           \/ \E w \in Workers : ValidateOccurrence(w)
           \/ \E w \in Workers : FailOccurrence(w)
           \/ \E w \in Workers, d \in Days : CommitOccurrence(w, d)
  <2>1. (\E w \in Workers : run[w].pc # "idle") /\ UNCHANGED job
    BY <1>2 DEF PostDueOccurrences, ValidateOccurrence, FailOccurrence, CommitOccurrence
  <2> QED BY <2>1 DEF JobSaysRunning
<1>3. CASE \/ \E w \in Workers : AbortOnExpiredRule(w)
           \/ \E w \in Workers, d \in Days : AbortOnFlushError(w, d)
           \/ \E w \in Workers : FinishRun(w)
           \/ \E w \in Workers : Kill(w)
  <2> PICK w \in Workers : GoIdle(w)
    BY <1>3 DEF AbortOnExpiredRule, AbortOnFlushError, FinishRun, Kill
  <2>1. run'[w].pc = "idle"
    BY IdleRunType DEF PostingTypeOK, GoIdle
  <2> QED BY <2>1 DEF JobSaysRunning
<1>4. CASE \/ \E r \in Rules : CreateRecurringRule(r)
           \/ \E r \in Rules : UpdateRecurringRule(r)
           \/ \E r \in Rules : DeleteRecurringRule(r)
           \/ \E r \in Rules, d \in Days : DeleteTransaction(r, d)
           \/ \E r \in Rules, d \in Days : LinkTransaction(r, d)
           \/ \E r \in Rules, d, e \in Days : MoveTransaction(r, d, e)
           \/ \E t \in Templates : ToggleCurrency(t)
           \/ NextDay
           \/ UNCHANGED postingVars
  <2>1. UNCHANGED <<run, job>>
    BY <1>4 DEF CreateRecurringRule, UpdateRecurringRule, DeleteRecurringRule, DeleteTransaction,
                LinkTransaction, MoveTransaction, ToggleCurrency, NextDay, postingVars
  <2> QED BY <2>1 DEF JobSaysRunning
<1>5. CASE PostingNext
  BY <1>5, NextCases, <1>1, <1>2, <1>3, <1>4
<1> QED BY <1>4, <1>5

(* With one worker, only FinishRun leaves the job row at success.          *)
LEMMA SuccessIsFinish ==
  ASSUME \A v, w \in Workers : v = w, PostingTypeOK, JobSaysRunning, [PostingNext]_postingVars,
         NEW w \in Workers, run[w].pc = "rules", run'[w].pc = "idle", job' = "success"
  PROVE  FinishRun(w) /\ ~run[w].failed
<1>1. job = "running"
  BY DEF JobSaysRunning
<1>2. job' # job
  BY <1>1
<1>3. PostingNext
  BY <1>2 DEF postingVars
<1>4. ~\E v \in Workers : StartRun(v)
  BY DEF StartRun
<1>5. /\ ~\E v \in Workers, r \in Rules : PostDueOccurrences(v, r)
      /\ ~\E v \in Workers : ValidateOccurrence(v)
      /\ ~\E v \in Workers : FailOccurrence(v)
      /\ ~\E v \in Workers, d \in Days : CommitOccurrence(v, d)
      /\ ~\E v \in Workers : Kill(v)
  BY <1>2 DEF PostDueOccurrences, ValidateOccurrence, FailOccurrence, CommitOccurrence, Kill
<1>6. /\ ~\E v \in Workers : AbortOnExpiredRule(v)
      /\ ~\E v \in Workers, d \in Days : AbortOnFlushError(v, d)
  BY DEF AbortOnExpiredRule, AbortOnFlushError
<1>7. /\ ~\E r \in Rules : CreateRecurringRule(r)
      /\ ~\E r \in Rules : UpdateRecurringRule(r)
      /\ ~\E r \in Rules : DeleteRecurringRule(r)
      /\ ~\E r \in Rules, d \in Days : DeleteTransaction(r, d)
      /\ ~\E r \in Rules, d \in Days : LinkTransaction(r, d)
      /\ ~\E r \in Rules, d, e \in Days : MoveTransaction(r, d, e)
      /\ ~\E t \in Templates : ToggleCurrency(t)
      /\ ~NextDay
  BY <1>2 DEF CreateRecurringRule, UpdateRecurringRule, DeleteRecurringRule, DeleteTransaction,
              LinkTransaction, MoveTransaction, ToggleCurrency, NextDay
<1>8. PICK v \in Workers : FinishRun(v)
  BY <1>3, <1>4, <1>5, <1>6, <1>7, NextCases, Zenon
<1>9. FinishRun(w)
  BY <1>8
<1> QED BY <1>9 DEF FinishRun

(***************************************************************************)
(* Without overlapping runs a job row that says success means that the run *)
(* left no rule behind.  With overlap it does not: a killed run leaves the *)
(* row at the success another one recorded.                                *)
(***************************************************************************)
THEOREM SuccessIsCaughtUp ==
  ASSUME \A v, w \in Workers : v = w
  PROVE  PostingSpec => SuccessMeansCaughtUp
<1>1. PostingInit => CatchUpInv /\ JobSaysRunning
  BY CatchUpInit
<1>2. PostingTypeOK /\ CatchUpInv /\ JobSaysRunning /\ [PostingNext]_postingVars => CatchUpInv' /\ JobSaysRunning'
  BY CatchUpStep, JobStep
<1>3. PostingTypeOK /\ CatchUpInv /\ JobSaysRunning /\ [PostingNext]_postingVars =>
        [\A w \in Workers :
           run[w].pc = "rules" /\ run'[w].pc = "idle" /\ job' = "success" =>
             \A r \in Rules \ edited : LiveRule(r) /\ run[w].snap[r].state = "live" =>
               \A d \in OccurrenceDates(run[w].snap[r], run[w].day) : posted[r][d] > 0]_postingVars
  BY SuccessIsFinish, NothingPending
<1> QED BY <1>1, <1>2, <1>3, TypeCorrect, PTL DEF PostingSpec, SuccessMeansCaughtUp
=============================================================================
