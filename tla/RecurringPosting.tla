-------------------------- MODULE RecurringPosting --------------------------
(***************************************************************************)
(* The posting half of recurring rules: the Celery task that turns due     *)
(* occurrences of every user's RecurringRule into transactions             *)
(* (services/recurring_posting.py), the rule CRUD it races with            *)
(* (services/recurring_rules.py), the transaction edits that touch a       *)
(* rule's occurrences (services/transactions.py), and the job row the task *)
(* keeps (workers/runner.py).                                              *)
(*                                                                         *)
(* A day is a number.  A step of a worker is one database transaction or   *)
(* one validation read; what a worker holds between two steps is what its  *)
(* SQLAlchemy session loaded earlier, which is never re-read.              *)
(***************************************************************************)
EXTENDS Integers, FiniteSets

CONSTANTS
  Rules,           \* rule ids
  Workers,         \* Celery processes that may run the task
  Templates,       \* transaction templates a rule can carry
  MaxDay,          \* the model's calendar is 1..MaxDay
  Starts,          \* start dates the users choose
  Intervals,       \* distances between occurrences the users choose
  Ends,            \* end dates the users choose, NoDate included
  MaxCatchUp,      \* MAX_CATCH_UP_OCCURRENCES
  MaxOccurrences,  \* MAX_OCCURRENCES
  UserOps,         \* kinds of operation users perform in this instance
  MaxUserOps,      \* bound: user operations in one behaviour
  MaxKills         \* bound: runs killed by the task time limit

Days == 1..MaxDay

NoDate == 0                     \* SQL NULL of a date
NoRule == "no rule"

UserOpKinds == {"update", "delete_rule", "delete_tx", "link_tx", "move_tx", "currency"}

ASSUME PostingAssumption ==
  /\ MaxDay \in Nat \ {0}
  /\ Starts \subseteq Days
  /\ Intervals \subseteq Nat \ {0}
  /\ Ends \subseteq Days \cup {NoDate}
  /\ Templates # {}
  /\ MaxCatchUp \in Nat \ {0}
  /\ MaxOccurrences \in Nat \ {0}
  /\ UserOps \subseteq UserOpKinds
  /\ MaxUserOps \in Nat
  /\ MaxKills \in Nat

VARIABLES
  today,     \* the workers' clock
  rule,      \* table recurring_rules
  tx,        \* tx[r][d]: transactions with recurring_rule_id = r and date = d
  postable,  \* templates whose accounts and currency pass validation now
  job,       \* status column of the task's row in job_runs
  run,       \* what each worker process holds in memory
  posted,    \* history: how often a worker posted occurrence d of rule r
  edited,    \* history: rules whose schedule a user changed
  userOps,   \* user operations so far
  kills      \* killed runs so far

postingVars == <<today, rule, tx, postable, job, run, posted, edited, userOps, kills>>

(***************************************************************************)
(* One row of recurring_rules.  An id is used once: "new" before the       *)
(* insert, "deleted" afterwards.                                           *)
(***************************************************************************)
RuleRow == [state : {"new", "live", "deleted"}, start : Days, interval : Nat \ {0},
            end : Days \cup {NoDate}, cursor : Days \cup {NoDate}, template : Templates]

NewRow == [state |-> "new", start |-> 1, interval |-> 1, end |-> NoDate, cursor |-> NoDate,
           template |-> CHOOSE t \in Templates : TRUE]

LiveRule(r) == rule[r].state = "live"

(***************************************************************************)
(* project_occurrence_dates: occurrence number i is computed from the      *)
(* start date, the loop looks at MAX_OCCURRENCES indexes and stops behind  *)
(* the rule's end date.                                                    *)
(***************************************************************************)
Occurrences(row) ==
  {d \in Days : /\ \E i \in 0..(MaxOccurrences - 1) : d = row.start + i * row.interval
                /\ row.end # NoDate => d <= row.end}

(* Mutants: range_start without the extra day; only the run's own day.     *)
DueDatesFromCursor(row, day) ==
  {d \in Occurrences(row) : row.cursor <= d /\ d <= day}

DueDatesTodayOnly(row, day) ==
  {d \in Occurrences(row) : row.cursor < d /\ d = day}

(***************************************************************************)
(* The dates post_due_occurrences walks through: the occurrences after the *)
(* cursor and not after the run's day, the first MAX_CATCH_UP of them.     *)
(***************************************************************************)
DueDates(row, day) ==
  {d \in Occurrences(row) : row.cursor < d /\ d <= day}

Earliest(S, n) == {d \in S : Cardinality({e \in S : e < d}) < n}

OccurrenceDates(row, day) == Earliest(DueDates(row, day), MaxCatchUp)

----------------------------------------------------------------------------

Run == [pc : {"idle", "rules", "validate", "commit"}, day : Days,
        pending : SUBSET Rules, cur : Rules \cup {NoRule}, todo : SUBSET Days,
        snap : [Rules -> RuleRow], expired : BOOLEAN, failed : BOOLEAN]

(* A process holds nothing between two runs.                               *)
IdleRun == [pc |-> "idle", day |-> 1, pending |-> {}, cur |-> NoRule, todo |-> {},
            snap |-> [r \in Rules |-> NewRow], expired |-> FALSE, failed |-> FALSE]

PostingTypeOK ==
  /\ today \in Days
  /\ rule \in [Rules -> RuleRow]
  /\ tx \in [Rules -> [Days -> Nat]]
  /\ postable \subseteq Templates
  /\ job \in {"never_run", "running", "success", "partial", "failed"}
  /\ run \in [Workers -> Run]
  /\ \A w \in Workers : run[w].pc \in {"validate", "commit"} => run[w].cur \in Rules /\ run[w].todo # {}
  /\ posted \in [Rules -> [Days -> Nat]]
  /\ edited \subseteq Rules
  /\ userOps \in 0..MaxUserOps
  /\ kills \in 0..MaxKills

PostingInit ==
  /\ today = 1
  /\ rule = [r \in Rules |-> NewRow]
  /\ tx = [r \in Rules |-> [d \in Days |-> 0]]
  /\ postable = Templates
  /\ job = "never_run"
  /\ run = [w \in Workers |-> IdleRun]
  /\ posted = [r \in Rules |-> [d \in Days |-> 0]]
  /\ edited = {}
  /\ userOps = 0
  /\ kills = 0

----------------------------------------------------------------------------
(* The posting task.                                                       *)

Goto(w, pc) == run' = [run EXCEPT ![w].pc = pc]

GoIdle(w) == run' = [run EXCEPT ![w] = IdleRun]

(***************************************************************************)
(* Beat or POST /meta/jobs/{name}/run queued the task and a process takes  *)
(* it: the job row says running, then one SELECT loads every rule.  What   *)
(* it loads is what the whole run works with.                              *)
(***************************************************************************)
StartRun(w) ==
  /\ run[w].pc = "idle"
  /\ job' = "running"
  /\ run' = [run EXCEPT ![w] = [@ EXCEPT !.pc = "rules",
                                         !.day = today,
                                         !.pending = {r \in Rules : LiveRule(r)},
                                         !.snap = rule]]
  /\ UNCHANGED <<today, rule, tx, postable, posted, edited, userOps, kills>>

(***************************************************************************)
(* The loop takes the next rule, in whatever order the SELECT returned     *)
(* them, and computes the dates to post from the loaded row.               *)
(***************************************************************************)
PostDueOccurrences(w, r) ==
  LET dates == OccurrenceDates(run[w].snap[r], run[w].day) IN
  /\ run[w].pc = "rules"
  /\ r \in run[w].pending
  /\ ~run[w].expired
  /\ run' = [run EXCEPT ![w] = [@ EXCEPT !.pc = IF dates = {} THEN "rules" ELSE "validate",
                                         !.pending = run[w].pending \ {r},
                                         !.cur = r,
                                         !.todo = dates]]
  /\ UNCHANGED <<today, rule, tx, postable, job, posted, edited, userOps, kills>>

(***************************************************************************)
(* A rollback expired every loaded rule.  Reading last_posted_date of the  *)
(* next one raises, the handler's own read of rule.id raises again, and    *)
(* the exception leaves the loop: the run is recorded as failed.           *)
(***************************************************************************)
AbortOnExpiredRule(w) ==
  /\ run[w].pc = "rules"
  /\ run[w].pending # {}
  /\ run[w].expired
  /\ job' = "failed"
  /\ GoIdle(w)
  /\ UNCHANGED <<today, rule, tx, postable, posted, edited, userOps, kills>>

(* The date the loop of post_due_occurrences is at.                        *)
NextDate(w, d) == d \in run[w].todo /\ \A e \in run[w].todo : d <= e

(***************************************************************************)
(* _post_one up to the commit: the loaded template is validated against    *)
(* the accounts and currencies of now, and the rule must still exist.      *)
(***************************************************************************)
TemplatePasses(w) ==
  /\ run[w].snap[run[w].cur].template \in postable
  /\ LiveRule(run[w].cur)

ValidateOccurrence(w) ==
  /\ run[w].pc = "validate"
  /\ TemplatePasses(w)
  /\ Goto(w, "commit")
  /\ UNCHANGED <<today, rule, tx, postable, job, posted, edited, userOps, kills>>

(* Mutants: the cursor move survives the rollback; the failure is not      *)
(* counted.                                                                *)
FailOccurrenceKeepsCursor(w) ==
  /\ run[w].pc = "validate"
  /\ ~TemplatePasses(w)
  /\ \E d \in Days : /\ NextDate(w, d)
                     /\ rule' = [rule EXCEPT ![run[w].cur].cursor = d]
  /\ run' = [run EXCEPT ![w] = [@ EXCEPT !.pc = "rules", !.todo = {}, !.cur = NoRule,
                                         !.expired = TRUE, !.failed = TRUE]]
  /\ UNCHANGED <<today, tx, postable, job, posted, edited, userOps, kills>>

FailOccurrenceUncounted(w) ==
  /\ run[w].pc = "validate"
  /\ ~TemplatePasses(w)
  /\ run' = [run EXCEPT ![w] = [@ EXCEPT !.pc = "rules", !.todo = {}, !.cur = NoRule,
                                         !.expired = TRUE]]
  /\ UNCHANGED <<today, rule, tx, postable, job, posted, edited, userOps, kills>>

(***************************************************************************)
(* Validation raises: the handler counts the failure and rolls back, which *)
(* throws the cursor move away and expires every loaded rule.              *)
(***************************************************************************)
FailOccurrence(w) ==
  /\ run[w].pc = "validate"
  /\ ~TemplatePasses(w)
  /\ run' = [run EXCEPT ![w] = [@ EXCEPT !.pc = "rules", !.todo = {}, !.cur = NoRule,
                                         !.expired = TRUE, !.failed = TRUE]]
  /\ UNCHANGED <<today, rule, tx, postable, job, posted, edited, userOps, kills>>

(* Mutant: no partial unique index.                                        *)
FlushSucceedsWithoutIndex(r, d) == LiveRule(r)

(***************************************************************************)
(* The commit of create_transaction: the transaction row and the cursor    *)
(* move are flushed together.  The UPDATE of the rule sets the cursor      *)
(* whatever it is now; the row must exist, and the partial unique index on *)
(* (recurring_rule_id, date) must have room.                               *)
(***************************************************************************)
FlushSucceeds(r, d) ==
  /\ LiveRule(r)
  /\ tx[r][d] = 0

CommitOccurrence(w, d) ==
  LET r == run[w].cur IN
  /\ run[w].pc = "commit"
  /\ NextDate(w, d)
  /\ FlushSucceeds(r, d)
  /\ tx' = [tx EXCEPT ![r][d] = @ + 1]
  /\ rule' = [rule EXCEPT ![r].cursor = d]
  /\ posted' = [posted EXCEPT ![r][d] = @ + 1]
  /\ run' = [run EXCEPT ![w] = [@ EXCEPT !.pc = IF run[w].todo = {d} THEN "rules" ELSE "validate",
                                         !.todo = run[w].todo \ {d}]]
  /\ UNCHANGED <<today, postable, job, edited, userOps, kills>>

(***************************************************************************)
(* The flush fails: the session rolls back by itself and expires every     *)
(* rule before the handler reads rule.id, so the handler raises.           *)
(***************************************************************************)
AbortOnFlushError(w, d) ==
  /\ run[w].pc = "commit"
  /\ NextDate(w, d)
  /\ ~FlushSucceeds(run[w].cur, d)
  /\ job' = "failed"
  /\ GoIdle(w)
  /\ UNCHANGED <<today, rule, tx, postable, posted, edited, userOps, kills>>

FinishRun(w) ==
  /\ run[w].pc = "rules"
  /\ run[w].pending = {}
  /\ job' = IF run[w].failed THEN "partial" ELSE "success"
  /\ GoIdle(w)
  /\ UNCHANGED <<today, rule, tx, postable, posted, edited, userOps, kills>>

(* task_time_limit: the open transaction dies with the process, the job    *)
(* row keeps saying running.                                               *)
Kill(w) ==
  /\ kills < MaxKills
  /\ run[w].pc # "idle"
  /\ GoIdle(w)
  /\ kills' = kills + 1
  /\ UNCHANGED <<today, rule, tx, postable, job, posted, edited, userOps>>

----------------------------------------------------------------------------
(* What users and administrators do meanwhile.                             *)

UserOp(kind) ==
  /\ kind \in UserOps
  /\ userOps < MaxUserOps
  /\ userOps' = userOps + 1

EndNotBeforeStart(start, end) == end = NoDate \/ start <= end

CreateRecurringRule(r) ==
  /\ rule[r].state = "new"
  /\ \E s \in Starts, i \in Intervals, e \in Ends, t \in postable :
       /\ EndNotBeforeStart(s, e)
       /\ rule' = [rule EXCEPT ![r] = [state |-> "live", start |-> s, interval |-> i,
                                       end |-> e, cursor |-> NoDate, template |-> t]]
  /\ UNCHANGED <<today, tx, postable, job, run, posted, edited, userOps, kills>>

(* PATCH: any subset of the schedule and the template; the cursor stays.   *)
UpdateRecurringRule(r) ==
  /\ UserOp("update")
  /\ LiveRule(r)
  /\ \E s \in Starts \cup {rule[r].start}, i \in Intervals \cup {rule[r].interval},
        e \in Ends \cup {rule[r].end}, t \in postable \cup {rule[r].template} :
       /\ EndNotBeforeStart(s, e)
       /\ rule' = [rule EXCEPT ![r] = [@ EXCEPT !.start = s, !.interval = i,
                                                !.end = e, !.template = t]]
       /\ edited' = IF <<s, i, e>> = <<rule[r].start, rule[r].interval, rule[r].end>>
                    THEN edited ELSE edited \cup {r}
  /\ UNCHANGED <<today, tx, postable, job, run, posted, kills>>

(* The foreign key of the posted transactions is set to NULL.              *)
DeleteRecurringRule(r) ==
  /\ UserOp("delete_rule")
  /\ LiveRule(r)
  /\ rule' = [rule EXCEPT ![r].state = "deleted"]
  /\ tx' = [tx EXCEPT ![r] = [d \in Days |-> 0]]
  /\ UNCHANGED <<today, postable, job, run, posted, edited, kills>>

DeleteTransaction(r, d) ==
  /\ UserOp("delete_tx")
  /\ tx[r][d] > 0
  /\ tx' = [tx EXCEPT ![r][d] = @ - 1]
  /\ UNCHANGED <<today, rule, postable, job, run, posted, edited, kills>>

(* POST or PATCH of a transaction that names the rule; the index decides.  *)
LinkTransaction(r, d) ==
  /\ UserOp("link_tx")
  /\ LiveRule(r)
  /\ tx[r][d] = 0
  /\ tx' = [tx EXCEPT ![r][d] = @ + 1]
  /\ UNCHANGED <<today, rule, postable, job, run, posted, edited, kills>>

MoveTransaction(r, d, e) ==
  /\ UserOp("move_tx")
  /\ tx[r][d] > 0
  /\ tx[r][e] = 0
  /\ tx' = [tx EXCEPT ![r] = [@ EXCEPT ![d] = tx[r][d] - 1, ![e] = tx[r][e] + 1]]
  /\ UNCHANGED <<today, rule, postable, job, run, posted, edited, kills>>

(* A template stops passing validation, or passes again: an administrator  *)
(* deactivates or reactivates its currency.                                *)
ToggleCurrency(t) ==
  /\ UserOp("currency")
  /\ postable' = IF t \in postable THEN postable \ {t} ELSE postable \cup {t}
  /\ UNCHANGED <<today, rule, tx, job, run, posted, edited, kills>>

NextDay ==
  /\ today < MaxDay
  /\ today' = today + 1
  /\ UNCHANGED <<rule, tx, postable, job, run, posted, edited, userOps, kills>>

----------------------------------------------------------------------------

WorkerStep(w) ==
  \/ \E r \in Rules : PostDueOccurrences(w, r)
  \/ AbortOnExpiredRule(w)
  \/ ValidateOccurrence(w)
  \/ FailOccurrence(w)
  \/ \E d \in Days : CommitOccurrence(w, d) \/ AbortOnFlushError(w, d)
  \/ FinishRun(w)

UserStep ==
  \/ \E r \in Rules : CreateRecurringRule(r) \/ UpdateRecurringRule(r) \/ DeleteRecurringRule(r)
  \/ \E r \in Rules, d \in Days : DeleteTransaction(r, d) \/ LinkTransaction(r, d)
  \/ \E r \in Rules, d, e \in Days : MoveTransaction(r, d, e)
  \/ \E t \in Templates : ToggleCurrency(t)

PostingNext ==
  \/ \E w \in Workers : StartRun(w) \/ WorkerStep(w) \/ Kill(w)
  \/ UserStep
  \/ NextDay

PostingSpec == PostingInit /\ [][PostingNext]_postingVars

(***************************************************************************)
(* Beat queues the task every day and the worker service restarts, so runs *)
(* keep starting and a run that is not killed proceeds; days pass.  Nobody *)
(* has to create or change a rule.                                         *)
(***************************************************************************)
PostingFairness ==
  /\ \A w \in Workers : WF_postingVars(StartRun(w)) /\ WF_postingVars(WorkerStep(w))
  /\ WF_postingVars(NextDay)

PostingFairSpec == PostingSpec /\ PostingFairness

----------------------------------------------------------------------------
(* Properties.                                                             *)

(***************************************************************************)
(* A rule never has two transactions on one occurrence date, however many  *)
(* runs overlap and whatever users link or move: the module docstring's    *)
(* "a duplicate impossible even if a run is retried or two workers race".  *)
(***************************************************************************)
OneTransactionPerOccurrence ==
  \A r \in Rules, d \in Days : tx[r][d] <= 1

(***************************************************************************)
(* "A failure partway through a catch-up run leaves the cursor at the last *)
(* real success rather than silently skipping ahead": as long as nobody    *)
(* changed the schedule of a rule, every occurrence up to its cursor has   *)
(* been posted, through failures, kills and overlapping runs.              *)
(***************************************************************************)
NothingSkipped ==
  \A r \in Rules \ edited : \A d \in Occurrences(rule[r]) :
    d <= rule[r].cursor => posted[r][d] > 0

(***************************************************************************)
(* "A rerun never posts the same occurrence twice" (models/recurring.py),  *)
(* not even one whose transaction the user deleted.                        *)
(***************************************************************************)
PostedAtMostOnce ==
  \A r \in Rules, d \in Days : posted[r][d] <= 1

(***************************************************************************)
(* The posting cursor of a rule never moves back.                          *)
(***************************************************************************)
CursorNeverMovesBack ==
  [][\A r \in Rules : rule[r].cursor <= rule'[r].cursor]_postingVars

(***************************************************************************)
(* A run recorded as success left no rule behind: every rule it loaded and *)
(* that still has its schedule has moved past each date the run found due, *)
(* up to the catch-up cap.                                                 *)
(***************************************************************************)
SuccessMeansCaughtUp ==
  [][\A w \in Workers :
       run[w].pc = "rules" /\ run'[w].pc = "idle" /\ job' = "success" =>
         \A r \in Rules \ edited : LiveRule(r) /\ run[w].snap[r].state = "live" =>
           \A d \in OccurrenceDates(run[w].snap[r], run[w].day) : posted[r][d] > 0]_postingVars

(***************************************************************************)
(* "A single rule's failure ... is logged and rolled back without aborting *)
(* the rest of the run": no run ends while rules wait for their turn.      *)
(***************************************************************************)
FailureDoesNotAbortRun ==
  [][\A w \in Workers : run[w].pc # "idle" /\ run'[w].pc = "idle" => run[w].pending = {}]_postingVars

(***************************************************************************)
(* "Any remainder posts on the next run instead": an occurrence that is    *)
(* due is eventually posted or already in the ledger, or its rule is       *)
(* deleted or rescheduled.                                                 *)
(***************************************************************************)
DueIsEventuallyPosted ==
  \A r \in Rules, d \in Days :
    (LiveRule(r) /\ d \in Occurrences(rule[r]) /\ rule[r].cursor < d /\ d <= today)
      ~> (posted[r][d] > 0 \/ tx[r][d] > 0 \/ ~LiveRule(r) \/ r \in edited)
=============================================================================
