-------------------------------- MODULE JobRuns --------------------------------
(***************************************************************************)
(* What the administrator is told about a scheduled job (workers/runner.py, *)
(* services/jobs.py).  A job keeps one row, which every run of it upserts   *)
(* when it starts and when it ends; beat and the administrator may start    *)
(* runs that overlap, and a run may be killed by the hard time limit.       *)
(***************************************************************************)
EXTENDS Integers, FiniteSets

CONSTANTS
  Workers,         \* runs that may be in progress at a time
  Interval,        \* JOB_INTERVALS[name]
  Grace,           \* max(interval * 0.5, 30 minutes)
  MaxTime          \* bound: the clock

ASSUME JobAssumption ==
  /\ Interval \in Nat \ {0} /\ Grace \in Nat /\ MaxTime \in Nat

VARIABLES
  jobRow,          \* the job_runs row
  running,         \* runs in progress
  clock,
  ended,           \* history: the outcome of the run that ended last
  event,           \* history: when a run last started or ended, -1 for never
  killed           \* history: has a run been killed?

jobVars == <<jobRow, running, clock, ended, event, killed>>

Outcomes == {"success", "partial", "failed"}

NoRow == [exists |-> FALSE, status |-> "running", started |-> 0, finished |-> -1]

JobInit ==
  /\ jobRow = NoRow
  /\ running = {}
  /\ clock = 0
  /\ ended = "none"
  /\ event = -1
  /\ killed = FALSE

(* _record_start: the upsert of a run that begins, on schedule or because   *)
(* trigger_job sent the task.                                               *)
RecordStart(r) ==
  /\ r \notin running
  /\ jobRow' = [exists |-> TRUE, status |-> "running", started |-> clock,
                finished |-> -1]
  /\ running' = running \cup {r}
  /\ event' = clock
  /\ UNCHANGED <<clock, ended, killed>>

(* _record_finish: partial when some of the work failed, failed when the    *)
(* work raised.  The start stays that of the run that started last.         *)
RecordFinish(r, outcome) ==
  /\ r \in running
  /\ jobRow' = [jobRow EXCEPT !.status = outcome, !.finished = clock]
  /\ running' = running \ {r}
  /\ ended' = outcome
  /\ event' = clock
  /\ UNCHANGED <<clock, killed>>

(* task_time_limit: nothing is recorded. *)
KillRun(r) ==
  /\ r \in running
  /\ running' = running \ {r}
  /\ killed' = TRUE
  /\ UNCHANGED <<jobRow, clock, ended, event>>

ClockTicks ==
  /\ clock < MaxTime
  /\ clock' = clock + 1
  /\ UNCHANGED <<jobRow, running, ended, event, killed>>

JobNext ==
  \/ \E r \in Workers : RecordStart(r) \/ KillRun(r)
  \/ \E r \in Workers, o \in Outcomes : RecordFinish(r, o)
  \/ ClockTicks

JobSpec == JobInit /\ [][JobNext]_jobVars

--------------------------------------------------------------------------------
(* mutant: only a finished run grows stale *)
HealthOfFinished ==
  CASE ~jobRow.exists -> "never_run"
    [] jobRow.exists /\ jobRow.finished >= 0
       /\ clock - jobRow.finished > Interval + Grace -> "stale"
    [] OTHER -> jobRow.status

(* list_job_health *)
Health ==
  LET last == IF jobRow.finished >= 0 THEN jobRow.finished ELSE jobRow.started IN
  CASE ~jobRow.exists -> "never_run"
    [] jobRow.exists /\ jobRow.status = "running"
       /\ clock - jobRow.started > 2 * Interval -> "stuck"
    [] jobRow.exists
       /\ ~(jobRow.status = "running" /\ clock - jobRow.started > 2 * Interval)
       /\ clock - last > Interval + Grace -> "stale"
    [] OTHER -> jobRow.status

(* The health of a job shows that it stopped running: when no run has begun *)
(* or ended for longer than the interval and its grace, a killed one        *)
(* included, the job is not shown as healthy or busy.  And as long as no    *)
(* run was killed, a job at rest that is not overdue shows the outcome of   *)
(* the run that ended last, however its runs overlapped.                    *)
HealthTellsTruth ==
  /\ clock - event > Interval + Grace => Health \in {"never_run", "stuck", "stale"}
  /\ ~killed /\ running = {} /\ ended # "none" /\ clock - event <= Interval + Grace
       => Health = ended
================================================================================
