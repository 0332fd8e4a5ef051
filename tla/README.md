# LealFinance: a TLA+ model of the ledger, its background tasks and its accounts

LealFinance is a self-hosted personal-finance application: a FastAPI service over
PostgreSQL (`backend/app`), Celery workers that post scheduled transactions and refresh
rates (`backend/app/workers`), an AI agent that reads and writes the ledger through tools
(`backend/app/agents`), and an Angular client (`frontend`). What can go wrong in it without
a test noticing is what happens between database transactions: two requests, a request and
a nightly task, or two runs of one task, each working from rows it read earlier.

This directory models that part. `PROJECT.json` maps every definition to the source lines
it translates and lists the runs, the mutants, the hazards and the theorems.

## 1. Inventory

### Execution model

Every request has one `AsyncSession` (`core/db.py`: `expire_on_commit=False`,
`autoflush=False`), every task run one of its own. PostgreSQL runs at its default,
READ COMMITTED: a statement sees what was committed when it started, nothing is
re-validated at commit, and only constraints, unique indexes and the few explicit locks
stop a conflicting write. ORM objects keep the values they were loaded with; an UPDATE
writes the attributes that changed; a `rollback()` expires every object of the session.

Explicit locks: the loan row (`loans.py:112`, `loan_posting.py:50`), the card's account row
(`card_invoices.py:280`), the conversation row (`agents/loop.py:148`, `agent_chat.py:100`),
the user row (`auth.py:731`, `backups.py:423`) and two advisory locks for the first and the
last administrator (`auth.py:661`, `auth.py:729`). Everything else relies on constraints.

Tasks are started by Celery beat and by an administrator (`POST /meta/jobs/{name}/run`), and
nothing keeps two runs of one task apart. A run is killed after 300 s (`celery_app.py:37`).

### Components

| component | state | operations | what makes it correct | status |
|---|---|---|---|---|
| recurring rules and posting | `recurring_rules` (schedule, template, cursor), `transactions.recurring_rule_id`, `job_runs` | rule CRUD, the daily task | one transaction per occurrence, none skipped, none posted again, each due one eventually posted | `RecurringPosting` |
| loans and loan posting | `loans`, payments as transactions with an installment number | loan CRUD, pay, advance, the nightly task | no installment paid twice, payments fit the loan, nothing posted early, no wait for ever | `LoanPayments` |
| ledger transactions | `transactions` | create, installments, import, edit, categorize, delete | reconciled rows stay, concurrent edits leave valid rows | `Ledger` |
| history and import batches | `transaction_history`, `import_idempotency` | record, undo a batch, replay a key | the trail tells each row's fate and has shown its values, a key imports once, an undo is whole | `Ledger` |
| bank reconciliation | `reconciliations`, `reconciliation_entries` | open, mark, complete, reopen, delete | one open per account, a leg cleared once, what is completed stands | `Ledger` |
| accounts | `accounts` | create, edit, archive, delete with everything in it | cascades leave nothing dangling, a closing day does not move under payments | `Ledger`, `CardInvoices`, partly |
| card invoices | none: derived from transactions and the card's closing and due day | list, pay, the nightly auto-pay | an invoice is not paid beyond what remains, a payment counts for its cycle | `CardInvoices` |
| job health | `job_runs`, one row per task | record start and finish, list, trigger | a job that stopped is not shown as healthy; otherwise the outcome of the last run is shown | `JobRuns` |
| exchange rates | `exchange_rates`, `manual_rates`, the conversion columns | resolve, refresh, manual rates, backfill of fallback conversions | precedence of sources, a fallback heals once a rate can be had | `Rates` |
| identity | `users`, sessions, attempt counters, TOTP, backup codes, invitations, trusted devices | set up, register, log in, second factor, recover, administer users | a code counts once, guesses are bounded under concurrency, there is always an administrator | `Membership`, `SignIn` |
| MCP access | `mcp_tokens` | create, revoke, authenticate | a token ends with the password, the account or its revocation | `SignIn`, partly |
| agent conversations | `agent_conversations`, `agent_messages`, pending confirmations | turn loop, propose, claim, approve, reject, release | a proposed write is decided once and waits for its user | `Conversations`, `Decisions` |
| agent change journal | `change_journal`, filled by a trigger | tag, list, undo | an undo restores exactly the rows of its call or refuses | `ChangeJournal` |
| investments | wallets, assets, investment transactions with optional cash legs | trade CRUD, position fold, quotes | a ledger folds, the cash leg follows its trade | `Investments`, partly |
| database schema | the tables themselves, `alembic_version` | 40 revisions, up and down, at every start of the container | a revision and its schema agree, an upgrade is not refused on stored rows, no rows are lost but those a revision merges | `Migrations`, `SchemaModels` |
| backups | none: an archive of the user's tables | export, preview, restore | a restore leaves exactly the archive, a preview nothing; what was exported can be restored | `Backups`, partly |
| categories, groups, budgets, categorization rules | `categories`, `category_groups`, `budgets`, `budget_allocations`, `categorization_rules` | CRUD, reapply rules | a category has its group's kind and color, what is filed under it has its kind | `Categories`, partly; reapplied rules also in `Ledger` |
| goals, expected income, institutions, agent credentials and memories | their tables | CRUD | guards of deletions | not modelled (section 7) |
| CSV parsing, analytics, mail, updates, configuration, frontend views, installer, containers | - | - | - | not modelled (section 7) |

### How they interact

The posting tasks and the card, loan and investment services write transactions through
`transactions.build_transaction`, which stages the history row. Reconciliation freezes
transactions (`assert_not_reconciled`), deletes of accounts and loans cascade over them, and
an import batch remembers the rows it created so that `undo_batch` can remove them. The
tables are the only shared state: components meet in the database, not in memory.

### What is hard

* a check and the write it guards are separate statements, with no lock between them
  (reconciled rows, completion at zero, undo of a batch);
* tasks work from the rows of their first SELECT for as long as the run takes;
* a task shares one session among all rules or loans, so one failure reaches the others;
* locks taken in different orders (an edit of a loan locks the loan, then its payments; a
  cascade the payments, then the loan) and locks kept over the loop of a run;
* repeated requests (idempotency keys) while the first is still running;
* catch-up caps and provider budgets: what a run leaves must be found by the next, and what can
  never be done must not use the budget up;
* counters and one-time codes that several requests spend at the same moment, from copies of the
  row that a commit in the middle of the request did not refresh;
* a stream that is cut off between a claim and its release;
* a schema that is built in two ways (revisions and ORM classes), and revisions that run on data
  no test has.

`PROJECT.json` "hazards" lists them one by one with their lines.

## 2. Modules

| module | contents |
|---|---|
| `RecurringPosting` | the posting task of recurring rules with its rivals |
| `RecurringPostingProofs` | theorems about it |
| `LoanPayments` | loans, payments, row locks, the auto-posting task |
| `LoanPaymentsProofs` | theorems about it |
| `Ledger` | transactions, history, imports, reapplied categorization rules, reconciliations, deletion of accounts |
| `LedgerProofs` | theorems about it, for racing requests and for requests one after the other |
| `CardInvoices` | cycles and invoices of a card, payments by users and by the nightly run, moves of the closing day |
| `Rates` | the rate cache, manual rates, and the nightly healing of conversions recorded without a rate |
| `Investments` | trades of a wallet, the fold of positions, cash legs |
| `Membership` | the set of accounts: set-up, invitations, registration, roles, addresses |
| `MembershipProofs` | theorems about it |
| `SignIn` | one account: password, second factor, codes, sessions, devices, tokens |
| `SignInProofs` | theorems about it |
| `Conversations` | one agent conversation: turns, proposals, confirmations |
| `Decisions` | what a confirmation promises; `Conversations` implements it |
| `ConversationsProofs` | theorems about `Conversations`, the refinement included |
| `ChangeJournal` | the journal of the agent's writes and its undo |
| `JobRuns` | the row a job keeps about its runs, and the health derived from it |
| `InstanceProofs` | theorems about `JobRuns` and `ChangeJournal` |
| `Migrations` | the revisions and how they are run |
| `SchemaModels` | the schema that the ORM classes declare |
| `Backups` | export, preview and restore of one user's tables, beside a user who goes on writing |
| `Categories` | groups, categories, budgets, allocations, categorization rules and what is filed under categories |
| `MoneyProofs` | theorems about `CardInvoices`, `Investments`, `Categories` and `Backups`, and lemmas about sums over finite sets |
| `MCRecurringPosting`, `MCRecurringOverlap`, `MCLoanPayments`, `MCLedger`, `MCBooks`, `MCMoney`, `MCNights`, `MCIdentity`, `MCInstance`, `MCConversations` | instances for TLC; the `.cfg` files choose the sets and bounds |

`MCBooks` (the ledger one request at a time, posting, loans), `MCMoney` (cards, investments, backups), `MCNights` (rates, recurring rules), `MCRecurringOverlap`
(recurring rules, categories), `MCIdentity` (membership, sign-in) and `MCInstance` (schema, jobs, conversation,
journal) put components side by side that share no state: a variable
`part` chooses one of them at the start and the others stand still. The components that do meet in
one commit are composed inside `Ledger`; `Conversations` meets the journal only through the call id
under which a tool writes, so the calls of one are atoms to the other.

A definition whose comment says "Mutant" or "Variation" is a faulty version of the definition below it. It
is used by no action; it states which fault of the code a property would notice.

### RecurringPosting

`rule` is the table, `tx[r][d]` counts the transactions linked to rule r on day d, `job` is
the status in `job_runs`, `run[w]` what worker w holds: the rows its SELECT loaded (`snap`),
the rules it still has to visit, the dates it still has to post. `posted` and `edited` are
history variables. A worker step is one database transaction or one validation read:
`StartRun`, `PostDueOccurrences` (choose the due dates from the loaded cursor, capped),
`ValidateOccurrence`, `CommitOccurrence` (transaction, history row and cursor in one commit),
`FailOccurrence` (log and roll back), `AbortOnExpiredRule` (the next attribute of a rule that
the rollback expired raises, outside and then inside the handler), `AbortOnFlushError`,
`FinishRun`, `Kill`. Users create, edit and delete rules, delete, link and move transactions,
and a currency may become inactive (`ToggleCurrency`), which makes templates fail.

Days are numbers and the occurrences of a rule are equally spaced: what the properties tell
apart is the order of dates, the cursor and the end date, not the length of a month.

### LoanPayments

`paid[l][n]` is the installment count stamped on the payment of installment n (0: none),
`lock[l]` the database transaction that holds the loan row, `loanProc` what each request and
worker has read. A payment is `RecordPayment` or `AdvancePayments` (lock, read, choose), then
`CommitPayment`; an edit is `UpdateLoan` (lock, validate) and `CommitLoanUpdate` (restamp the
payments, save); a cascading deletion is `DeleteLoanCascade` (delete the payments it sees) and
`CommitCascade` (wait for the loan row, delete it). A run takes the loans of its SELECT in any
order (`TakeLoan`), refreshes and locks each (`RefreshLoan`), pays (`AutoRecord`,
`CommitPayment`), and keeps the row of a loan with nothing due until its next commit.
`WaitsFor` and `DeadlockVictim` are PostgreSQL's lock waits and deadlock detection, modelled
from how the code uses the database.

Amounts are left out. Installment n is due in month `first + n - 1`.

### Ledger

One user's data. A request whose commit depends on earlier reads is two steps: the operation
itself (`UpdateTransaction`, `SetEntries`, `CompleteReconciliation`, ...) does the reads and
checks and leaves a pending request in `proc`, then `CommitUpdate`, `CommitEntries`, ...
applies it to the tables as they are by then, if the constraints accept it, or `RollBack`
ends it. A request whose check is repeated by its own statement or a constraint is one step.
All reads of a request happen at one moment; reading them one after the other would only
shorten the window between a check and the commit, which the model leaves as long as any.
An UPDATE writes the columns that differ between what the request loaded and what it set
(`Merged`).

`ReapplyRules` loads the rows that rules match and `CommitReapply` writes their categories; it is the
one edit that stages no history row.

A transaction is a type, one or two accounts, a date, an amount, a text that stands for
category, description and notes, and an installment number. There is one currency:
conversions have no part in these properties. `history` is the audit trail, `imports` the
idempotency keys. The difference of a reconciliation is computed as the code does it, over
the cleared legs of the account up to the statement date (`ClearedLegs`, `LegDelta`,
`Difference`).

### CardInvoices

A date is a number; the calendar has months of the lengths in `MonthLengths`, so that a closing day
is clamped in a short one (`ClampDay`, `CycleCloseFor`, `DueDateFor`). Nothing is stored per invoice:
`Owed`, `Projected`, `Paid` and `Remaining` derive it from charges, planned occurrences and tagged
transfers as `list_invoices` does, with its window of listed cycles. `PayInvoice` locks the card and
derives, `PostPayment` commits; `StartAutoPay` lists on a copy of the card, `AutoPay` locks and
derives again on that copy. `ChangeClosingDay` compares the tags, `CommitClosingDay` writes.
A payment is a transaction like others: `EditPayment` changes its tag, date or amount and
`DeletePayment` takes it away (or to another account) without any lock, and `Transfer` makes one by hand, with any
close date as its tag, since the endpoints for transactions accept `card_invoice_close_date` as it is. `kept` says
of a payment that its tag is the one `pay_invoice` gave it.
`StaysListed` says of a payment whether every later derivation of its invoice reads it: the window
of `pay_invoice` reaches |month of the close - month of today| + 2 months back and ahead.
Amounts are small numbers; there is one currency.

### Rates

`cached` and `manual` are the dates with rates for one pair of currencies, `entries` the transactions
with the source of their conversion. `ConversionSource` is the order of `get_exchange_rate`. A night
is `StartBackfill` (load the fallback rows), `Heal` for each of them by date (free, over the budget,
or a request that may fail), `EndBackfill` (commit over whatever the rows are by then);
`KillBackfill` ends it anywhere. `Unquoted` entries and `Dead` dates never get a rate; the conversions of
`Inactive` entries are refused, and their rows skipped (`rate_backfill.py:104-106`).

### Investments

`trades` are the rows of a wallet by creation, `legs` the transfers that settle them. `Folds` is
`_fold`: no sale before what it sells, no yield without a holding. A request is validated
(`Creations`, `Updates`, `Deletions`) and written (`Create`, `Update`, `Delete`), at once (`AtOnce`)
or with others in between (`Begin`, `Finish`).

### Membership and SignIn

`Membership` has the rows of users and invitations, the two advisory locks and the row locks, and
what each request has read. Requests wait for the lock, then for the row of their target, then
commit; an administrator who edits himself sees his row as authentication loaded it (`Seen`).

`SignIn` is the life of one account. A request reserves an attempt and commits
(`ReservePassword`, `ReserveCode`), then checks against the copy it loaded, then claims a code by a
conditional UPDATE (`Claims`). `guesses` and `uses` are history variables. A code is a secret and a
time step, or a set of backup codes; what people type are the codes there are (`Typed`).

### Conversations, Decisions and ChangeJournal

`streams[s]` is what a request holds: the row it loaded, the call it proposes or confirms. Every
commit is a step. `Merged` writes the columns that differ from what was loaded, `Saves` respects the
CHECK constraint on status and pending call. `CutOff` may end a stream between any two steps, as the
cancellation of the producer does. A tool that rolls the session back ends its stream at the next read of the
expired row (`ToolFails`, `TurnFails`), before anything is stored. `Fate` maps what was run and rejected to the variable of
`Decisions`.

`ChangeJournal` has rows with at most one parent, whose deletion cascades. `AgentWrites` journals
what the trigger journals, a cascade before or after the row it starts from; `undo` walks the entries of a
call from the newest to the oldest (`NextEntry`), a read (`ReadRow`) and a
write (`WriteRow`) at a time, defers entries whose parent is not there yet, and refuses
(`RefuseModified`, `RefuseOrphans`, `RefuseSideEffects`), which puts back what it wrote. Contents of a row are
compared up to the columns an undo ignores (`Compared`). No cascade goes on
from a row it removes (`JournalAssumption`): the foreign keys with ON DELETE CASCADE between journaled tables are those of
`reconciliation_entries` to transactions and reconciliations and of `categorization_rules` to categories,
and nothing refers to these two with a cascade.

### JobRuns

One row, upserted by `RecordStart` and `RecordFinish`; `KillRun` records nothing. `Health` is
`list_job_health`. As long as no run was killed, a job at rest shows the outcome of the run that ended last,
however its runs overlapped (`HealthTellsTruth`).

### Migrations and SchemaModels

A revision is its two lists of statements, `Runs` what PostgreSQL demands of one, `After` what it
leaves. An upgrade is one transaction over all pending revisions (`StartUpgrade`, `UpgradeStep`,
`CommitUpgrade`, `KilledWhileMigrating`), a downgrade takes one revision back. `AppWrites` stores
rows of the kinds on which a revision could trip, at the newest revision or, for the plan of budgets, at the one
before the groups. The statements that rewrite data are `Data` with what a row becomes (`RowsAfter`): the revision of the
category groups makes a group of every top-level category, merges the budgets and allocations of its children,
and deletes those that are double and the top-level categories nothing is filed under; its downgrade makes a
top-level category for a group that lacks one of its name and puts the others under a surviving one. `SchemaModels` lists tables, columns and foreign
keys of the ORM classes.

### Backups

A row is its table and the row it refers to; `rows` are the committed ones, `entered` those of an open
transaction of the user. An export is `StartExport`, a `ReadTable` for each table of `BACKUP_TABLES`,
`Download`. A restore and a preview are `StartReplace` (new ids for all rows of the archive), `LockUser`,
`DeleteTable` in reverse order (`Back`), `InsertTable` in the order of the registry (`From`) and row by row in the
order of the old ids, and `CommitRestore`
or `EndPreview`; `Refuse` and `Lost` take everything back. Every insert of the user shares the lock of
the user's row, through the foreign key `user_id` (`UserLocked`). The preferences written are those that
differ from the copy loaded before the lock. What a row contains besides its reference travels through
the archive unread; one preference stands for all.

That rows are inserted one by one, each checked by PostgreSQL before the next, is modelled from how the
code uses SQLAlchemy: the objects have their primary keys and no relationship, so the unit of work adds
them in the order of `db.add`, and psycopg sends one statement per row.

### Categories

Every request is two steps: `ReadFor...` loads and checks, the operation commits on the tables as they are by
then, refused as a whole if a foreign key fails. `req[r]` is what it keeps in between; with one request the
steps are a sequence of requests. `filed` are the transactions, recurring templates and loans, with their kind
and category; `patterns` the categories that active rules assign. An UPDATE writes the fields that differ
from what was loaded, except the color that `update_group` copies with a statement of its own.

## 3. Runs

| run | instance | checks |
|---|---|---|
| `recurring_overlap` | one rule, two workers, every user operation, one kill; two groups, two categories and a row filed under one, one request at a time | `OneTransactionPerOccurrence`, `NothingSkipped`, `FilingIsConsistent` |
| `recurring_isolation` | two rules, a currency that goes inactive | `FailureDoesNotAbortRun` is violated |
| `loan_liveness` | two clients and a worker, every operation, two requests (edit, payment and cascade can deadlock), a cap of one | `EveryRequestEnds`, `AutoPostCatchesUp` |
| `ledger_reconcile` | two clients, two reconciliations, accounts archived | `ReconciliationsSound`, `LegLocked` |
| `ledger_history` | two clients, one idempotency key, two payloads, rules applied again | `HistoryTellsFate`, `ImportedOnce`, `UndoIsWhole`, `EveryValueRecorded` |
| `ledger_reapply` | one client, two rows, rules applied again | `EveryChangeRecorded` is violated |
| `books` | one client, every operation on the ledger but installments; two rules, two templates, one worker, one kill; one loan, two clients and a worker, every operation | `HistoryMatchesLedger`, `ReconciledStands`, `PostedAtMostOnce`, `SuccessMeansCaughtUp`, `NoPaymentConflict`, `PaymentsFitLoan`, `AutoPostOnlyDue` |
| `identity` | two requests on three users, one invitation; two browsers on one account, two attempts allowed | `AlwaysAnAdmin`, `OneFounder`, `OneAccountPerInvitation`, `NoRequestStuck`, `GuessesBounded`, `CodesWorkOnce` |
| `instance` | all revisions over rows stored at the newest, and over a plan of budgets from before the groups; two runs of a job; two streams and two calls; two rows, one under the other, and two calls | `RefusedOnlyForNewValues`, `SchemaIsRight`, `NoRowsLost`, `HealthTellsTruth`, `CallWaitsForItsUser`, `DecidesOnce`, `ClaimIsGivenBack`, `UndoIsExact`, `AllUndoneIsInitial` |
| `conversation_failure` | one stream, one call whose tool raises | `UnfinishedCallIsGivenBack` is violated |
| `money` | a card with one payer and the nightly run, payments edited, deleted and made by hand; two assets and two trades; two handlers and three requests on two accounts or transactions, and on the two tables of every foreign key | `InvoiceNotOverpaid`, `TagsAreCloses`, `InvestmentLedgerSound`, `VerdictsAreSound`, `RestoreIsExact` |
| `nights` | three conversions and a budget of two dates; two rules, a cap of one occurrence per run, one kill | `FallbackHeals`, `DueIsEventuallyPosted` |

What they show. With overlapping runs the unique index on (rule, date) and the commit of
transaction and cursor together are enough for "no duplicate" and "nothing skipped"; they are
not enough for "never posted again" (section 4), which holds when runs do not overlap. The
loan row lock alone makes the unique index on installments unnecessary, and no order of locks
blocks a request for good. The constraints of the reconciliation tables keep marks sound under
any interleaving, while what the service checks before it writes (frozen rows, unedited batches) is
guaranteed only when requests do not overlap. Edits that race are merged by column in the table and not in the
snapshots; still every amount, date, type and account of a row is one that a snapshot showed.

The two advisory locks, with the peer rule that keeps administrators from demoting each other, leave
an administrator in every interleaving; the conditional UPDATEs make codes work once although every
request works on a copy of the row; the reservation before the check bounds the guesses. A claim is
what makes a decision final; a preview that changed gives it back, a stream that is cut off or a tool
that rolls its session back keeps it (section 4). Undo is exact as long as nobody writes a row between its two statements on it. The
lock on the card makes auto-pay and users take turns, and the tags of payments stay closes of cycles as long as no payment
is under way while the closing day changes and the user sets no tags. The forty revisions build the schema of the ORM classes,
every downgrade undoes its upgrade, and no upgrade is refused on the rows of the instance: those the
newest version stores before it is taken down, and a plan of budgets that a release before the groups left. What other
older releases may have stored is not covered. A row is lost only where the category groups merge or drop it (section 4).
A conversion that waits for a rate is healed although rows that are never healed are walked before it every night.

The lock of the user's row keeps every writer of new rows out of a restore, so it leaves exactly the rows of
the archive although each table is deleted and filled by its own statement; a preview refuses what a restore
refuses. With tables in the order of the registry, the only archive of an undisturbed export that is refused
is one with a reference inside one table. Kinds and colors are stored twice, in categories and groups, and
every sequence of requests keeps the copies equal; overlapping requests do not (section 4).

### Bounds

Two actors of each kind are enough for a race between a check and a commit, and the two-step
requests make every such race a choice of one interleaving. The deadlock of two posting runs needs two
loans and two workers, which no run has (`WaitsFor` is there for it). Three days and a catch-up cap of one or two make a run leave a remainder. Two
accounts give a transfer two legs that reconcile apart (`books`); `ledger_reconcile`
has one, a card, so that purchases in installments take part and the six requests it takes to pass
a leg from one reconciliation to the next fit. Two transactions are a batch of two rows, a third
lets a second import or a manual entry come between; two reconciliations let one follow or rival
the other. In `books` rows differ in their category only in behaviours of three requests (`MaxFilingRequests`: create, reapply,
and an edit of the same row); in those of five all are filed alike, so that a reconciliation is opened, marked and completed and
its rows and marks attacked. A loan of two installments has a first and a last one. `MaxUserOps`,
`MaxRequests` and `MaxKills` bound the length of a behaviour, `MaxDay` and `MaxMonth` the
calendar. `Operations`, `LoanRequests` and `UserOps` choose the kinds of request an instance makes:
that of `nights` leaves out the operations after which the code really does not
progress (section 4); `loan_liveness` makes every request, and asks nothing of a loan while its account is archived. Symmetry is used for clients, workers, transactions and reconciliations
and of the categories of `recurring_overlap` and the requests and browsers of `identity`,
in runs that check safety only.

`identity`: three users are two administrators who demote each other or themselves and a member, one
invitation is enough for two registrations to race for it; `MaxCalls = 5` covers set-up, invitation,
registration and two updates. Two attempts, two secrets, two time steps and two sets of backup codes let a
lockout, a re-enrolment and a replaced set happen. `instance`: `MaxTime` is beyond the time at which a job is
stuck; five rounds are a message, a confirmation, its repetition and a rival of each; four writes are an
insertion under a row, an edit and a deletion. `MaxSchemaWrites = 1` because one of the sets of rows holds all
the others of its revision. `money`: months of 3, 2 and 3 days have a month shorter than the closing day; one charge and one
planned occurrence are an amount of two that two payments share; the tag 7 of the user is the close of a cycle of one
of the two closing days; a behaviour is not continued once both properties of the card except what follows (`Telling`).
In `nights` one conversion is not quoted, one has an inactive destination
and the third is what must heal; the budget of two exceeds the one `Dead` date
by one, the least for which healing is promised; three commits are a purchase, its sale and a change of either.

Backups: two rows at first and one transaction of up to two more are a reference from an old row, to an old row
and between two new ones; an id is never used twice (uuid4), and `MaxId` leaves fresh ids for both and for a restore; three requests are an export and
two rivals that replace. Two handlers are needed for the lock to matter. Categories: two groups of different
kind or color are what a category moves between, a second category is what reapplied rules need, and each
row is filed by itself. The number of requests is not bounded.

The `Ledger` runs, `books` and those from `identity` on do not check for deadlock: clients need not make requests, and an
instance that has used up its bound has nothing left to do. In `identity` that no request waits for ever is
stated by `NoRequestStuck` instead. The others check it, since workers always have a run to start
and a user a request on categories.

### Fairness

`RecurringPosting`: beat starts a run every day and a worker drives the run it started, so
`StartRun`, the worker's steps and `NextDay` are weakly fair; a kill is not required to happen.
`LoanPayments`: the server drives every accepted request, PostgreSQL grants a released row and
aborts a member of a deadlock (`deadlock_timeout`), and beat starts runs; a request waiting for
a row that is taken again and again is granted it in the end, since PostgreSQL queues waiters.
`Conversations`: a stream that is not cut off goes on, since provider calls time out and no step waits for
another stream. `Rates`: the job runs every night and ends, and a date the provider can answer for is answered
in the end when it is asked for again and again (strong fairness; the request of one night may fail).
No fairness is assumed of users, of kills or of cut-off streams.
`MCNights` states the fairness of `Rates` and of `RecurringPosting`, each for the behaviours that are about it.

## 4. Where code and documents differ

Three runs end in a violation, listed under "findings" with the line it contradicts.

* `recurring_isolation`: after one rule fails, the rollback expires the rules that follow it and
  the run ends with an exception. The docstring promises that the rest of the run continues.
  `loan_posting.py:87` has the same fault (`FailLoan`, `AbortRun`); `card_invoice_posting.py`
  works from ids and avoids it.
* `conversation_failure`: when an approved tool raises, `agent_chat.py:421` rolls the session back, which
  expires `conversation`, and line 422 reads `conversation.id` outside of the greenlet, so that the claim is never
  released (`ToolFails`), where the comment at line 420 promises that the user can approve the call again. A
  service that rolls back before it refuses (`investments.py:631-633`) leaves `loop.py:187` the same way
  (`TurnFails`).

* `ledger_reapply`: `reapply_rules` assigns categories and stages no history row (`CommitReapply`), where
  `docs/backend-api.md:505` says that every update of a transaction stages one. `HistoryMatchesLedger` and
  `EveryValueRecorded` therefore leave the category out. (The backfill writes the conversion columns, which `Ledger` does
  not have, without a history row as well.)

Other differences met while modelling, visible in the modules by the same means:

* A payment that holds the loan row commits after a cascade deleted the payments it saw and before it deletes
  the loan; it survives as a plain expense (`orphans` in `LoanPayments`), although `delete_loan` says a
  cascade deletes the payments too.
* `complete` sums the cleared legs in one statement and commits the status in another
  (`CompleteReconciliation`, `CommitComplete`). A mark, an edit or a deletion that commits in between leaves a completed
  reconciliation with a difference, so no property says that one is completed at zero: with one request at a time it
  would only repeat the check.
* `PostedAtMostOnce` does not hold with two workers: the second run posts an occurrence again
  that the first posted and the user deleted, and moves the cursor back (`models/recurring.py:4-7`
  says a rerun never posts an occurrence twice).
* `DueIsEventuallyPosted` does not hold when a user links a transaction to a coming occurrence date
  (`LinkTransaction`): the unique index refuses that occurrence in every run and the rule stays there.
* A loan switched off or archived during a run is still paid by it: `TakeLoan` looks at the flags of
  the run's first SELECT, and the refresh under the lock is not followed by another look.
* `ClearedLegsFrozen` does not hold with two clients, nor that an undo spares edited rows: a leg marked, or a row
  edited, between the check and the deletion is deleted all the same.
* The last snapshot of a row is not the row (`HistoryMatchesLedger`) when two clients edit different fields of it (the
  table merges the columns, each snapshot has only its own edit), nor for installments, even with one
  client: `_create_installments` sets the installment columns after the history row was staged.
  `EveryValueRecorded` is what is left of it with any number of clients.
* `cascade_delete_accounts` and the cascade of a loan delete transactions without history rows;
  `docs/backend-api.md:505` says every deletion stages one. `HistoryTellsFate` excepts them.
* `_cleared_balance` counts every cleared leg up to the statement date, also those that a later, still
  open reconciliation marked; `docs/backend-api.md:536` speaks of earlier completed ones.
* `undo_batch` deletes rows that a completed reconciliation cleared. No document says it refuses, and
  `ClearedLegsFrozen` excepts it.
* `TagsAreCloses` excepts payments under way while the closing day changes (`slipped`): the check of the tags
  precedes the commit of the payment, and the nightly run works on the card it loaded, which FOR UPDATE does
  not read again. `InvoiceNotOverpaid` excepts payments dated outside of the cycles that are read: they are
  not counted, so the same invoice can be paid again (`adjusted`). It is not enough that the date is read
  when the payment is made: `pay_invoice` derives the invoice with a window that shrinks as its close comes
  nearer (`_months_between`), so a payment made far ahead of the close, or dated late, is counted that day and
  may no longer be when the close is near. The exception is about every later derivation (`StaysListed`).
* `POST` and `PATCH /transactions` take any `card_invoice_close_date` (`schemas/transaction.py:89`, `:125`;
  `transactions.py:339-342` looks at the type of the account only, an update at nothing), and a tagged payment can be moved to another
  card. A tag that is no close counts for no invoice, and blocks every change of the closing day afterwards, since
  `_validate_closing_day_change` reads all tags. `TagsAreCloses` is about the tags `pay_invoice` gave and no user changed (`kept`), and
  `InvoiceNotOverpaid` excepts money transferred by hand and payments that were raised or re-tagged (`adjusted`).
* `InvestmentLedgerSound` excepts overlapping requests (two sales of one holding are both validated before
  either commits, and a creation does not fold the ledger again) and a sale entered behind later trades, which
  is compared with the total holding and not folded at its date.
* A conversion whose destination is not active any more is refused by the backfill every night, with a warning in the log
  only, and stays at the fallback: `FallbackHeals` excepts it (`Inactive`), like pairs that are not quoted.
* The backfill of conversions writes over what a user changed while it ran (`EndBackfill`); as many dates
  without an answer as the budget (25) stop the healing of all later ones.
* Undo of a tool call overwrites an edit that commits between its reading and its writing of a row (`raced`).
* Undo does not compare the conversion columns and `updated_at` (`change_journal.py:37-41`, `Compared`), so that
  the nightly backfill does not block it. When two calls moved a rate from 5 to 6 and from 6 to 7, the first can
  be undone first, and undoing both leaves the rate at 6: `AllUndoneIsInitial` speaks of the columns that are compared.
* A stream that is cut off while it holds a claim leaves the conversation in a state that takes neither
  messages nor confirmations until it is deleted: `ClaimIsGivenBack` excepts `cut`, and the calls in `failed`.
* One invitation can admit two accounts when the first has already changed its address as the second commits:
  only the unique address, not the invitation, is checked again (`OneAccountPerInvitation`).
* An export reads its tables one after the other at READ COMMITTED. A transaction committed in between is in the
  archive without the account it belongs to, and such an archive is refused: `VerdictsAreSound` speaks of `quiet`
  archives.
* Accounts refer to accounts (a card to the account that pays it), and a restore inserts them in the order of
  their old, random ids. A card that comes before its account breaks the foreign key, and the user's own archive
  is refused (`RefersAhead`); the order of `BACKUP_TABLES` is an order of tables, not of rows.
* A preference changed between the loading of the user and the lock may survive a restore (`q.loaded = theme` in
  `RestoreIsExact`).
* `FilingIsConsistent` does not hold with two requests: a category created while its group is recolored keeps the
  old color, where `docs/backend-api.md:232` says that it always takes its group's.
* `_category_in_use` does not look for loans, so the category of a loan without payments may become an income
  category, and the loan can then not be paid; `UsesFitCategories` excepts loans.
* `delete_group` deletes budgets and allocations with the group (`DeleteGroup`); `docs/backend-api.md:236` says
  that the deletion is blocked.
* A group that has an unused category of its own name, and no other of that name, loses it when the revision of the
  category groups is taken down and up again: the downgrade takes it for the top-level category of the group, and the
  upgrade drops top-level categories that nothing is filed under (`b2c3d4e5f6a1:226-243`). `NoRowsLost` excepts those, and the budgets and
  allocations that a group would have twice (`Dispensable`).
* Downgrades are refused at four revisions when the data uses what the newer one allowed: the two currency
  seeds, whose docstrings say so, and the checks on yields (`e9a1b2c3d4e5`) and on the installment numbers of
  deleted loans (`f3a4b5c6d7e8`), where nothing does.

## 5. Proofs

The theorems hold for every value of the constants that satisfies the named assumptions: bounds are naturals
(`PostingAssumption`, `LoanAssumption`, `ConstantsAssumption` in `Ledger`, `SignInAssumption`), marker values are not rows (`MarkersAssumption` in `Ledger`,
`CategoryAssumption`), there is room for a user (`MembershipAssumption`), a behaviour of `Backups` is about some
tables of the registry (`BackupAssumption`), there are finitely many rows and cascades are one level deep (`JournalAssumption`),
months have days, dates of charges are finitely many and the calendar goes on long enough behind every date
(`CardAssumption`), and quantities of trades are naturals above zero (`InvestmentAssumption`). What holds only for requests that do not overlap has that as a
hypothesis of the theorem: there is one client, or one request. They are checked by TLAPS with SMT, Zenon and,
for the last step of each, PTL. The inductive invariants were checked by TLC on the instances of the runs first.

`RecurringPostingProofs`
* `TypeCorrect`: `Spec => []TypeOK`. The conjunct about a worker inside the loop (it holds a rule and
  a date) is what the other proofs need.
* `NoDuplicate`: `OneTransactionPerOccurrence`, inductive together with the types: every action that
  adds a link tests the index in the same step.
* `NeverSkips`: `NothingSkipped`. Not inductive by itself: a commit moves the cursor from the value the
  run *loaded*. The strengthening says of every run (`LoadedRows`, `PendingLoaded`, `LoopDates`) that all
  occurrences behind the cursor it loaded, and those before its next date, were posted, unless the rule
  was rescheduled.
* `PostsOnceWithoutOverlap`, `CursorMonotoneWithoutOverlap`: under the assumption that there is one worker
  (runs do not overlap) what the worker holds is the table's cursor, and every date ahead of it is unposted.
* `CleanRunsCatchUp`, for any number of overlapping runs: a run that ends without a failure has posted
  every date it found due. The invariant (`CatchUpInv`) accounts for each such date of a run that has not
  failed: posted, its rule pending, or in front of the loop.
* `SuccessIsCaughtUp`: `SuccessMeansCaughtUp`, with one worker, whose run keeps the job row at `running`
  (`JobSaysRunning`). With overlapping runs the job row cannot promise this: a run that is killed leaves the
  row at the success another one recorded.

`LoanPaymentsProofs`
* `RowLock`: the inductive invariant. Who is at a step that writes holds the row, and what it read (the
  installments it chose are unpaid and within the count) is still true.
* `TypeCorrect`, `PaymentsNeverCollide` (`NoPaymentConflict`), `PaymentsAlwaysFit` (`PaymentsFitLoan`) and
  `NeverPostsEarly` (`AutoPostOnlyDue`) follow from it.

`LedgerProofs`, for any interleaving of requests
* `TypeCorrect`: in particular a row that merges two concurrent edits satisfies the CHECK constraints.
* `MarksHold`: the inductive invariant behind the next two: one open reconciliation per account, marks refer
  to rows that exist and to their reconciliation's account, no leg is marked twice, and what a pending
  `set_entries` request will add or delete carries its own reconciliation and account.
* `ReconciliationsStaySound` (`ReconciliationsSound`) and `LegsStayLocked` (`LegLocked`).
* `ValuesAreRecorded` (`EveryValueRecorded`): snapshots are never taken back, and an edit either writes a column, and its
  snapshot has what it wrote, or leaves the column, whose value a snapshot shows already; in which order two edits of one
  row commit makes no difference.
* `HistoryStaysTrue` (`HistoryTellsFate`). Every step does one of five things to a transaction: it leaves it, or
  creates, edits, deletes it with a history row, or a cascade takes it. The invariant `TrailInv` adds that the
  trail names every account a row was on, and that pending edits and deletions found their rows.
* `KeysImportOnce` (`ImportedOnce`) and `UndoLeavesNothing` (`UndoIsWhole`). The invariant `ImportInv`: a key
  that is being imported is free and one request has it; the rows of a batch are as many as its payload (by a
  bijection); what a pending undo is going to delete covers what is left of the batch. The last is why an undo
  is whole although rows of the batch are deleted between its check and its commit.

`LedgerProofs`, for requests that do not overlap (`\A c, d \in Clients : c = d`)
* `SnapshotsMatch` (`HistoryMatchesLedger`, without installments) and `ReconciledIsFrozen` (`ReconciledStands`). The
  invariant `SoloInv` says that what a request read and checked (row, difference, that no leg is reconciled) still
  holds when it commits. Rules that are applied again change categories without a snapshot, which is why the
  category is left out of the comparison.

`MembershipProofs`
* `RequestsStaySound`: the inductive invariant `MemberInv`. `AlwaysAnAdmin` alone is not inductive: an update
  commits on what it saw. The strengthening says of a request at its commit that it holds the row of its
  target; that, if it may take an administrator away, it holds the last-admin lock and, when the target is the
  requester himself, another administrator is there; and that the peer rule still allows it. For the other
  properties it says that a set-up at its commit holds the bootstrap lock over an empty table, that an
  invitation exists only once there is a user, and that addresses are unique and those of the invitations.
* `MembershipTypeCorrect`, `AnAdminRemains` (`AlwaysAnAdmin`), `FoundedOnce` (`OneFounder`) and
  `InvitationsAdmitOne` (`OneAccountPerInvitation`) follow from it.
* `LocksAreGivenBack` (`LocksComeBack`), the part of `NoRequestStuck` that needs no ENABLED: every lock is held by
  a request in progress, and while there are any, one of them waits for no lock. The invariant `LocksHeld` says at
  which step a holder is; who waits for the last-admin lock waits for a request that has its target's row to
  wait for at most, and who holds a row is about to commit.

`SignInProofs`
* `SignInTypeCorrect`, `GuessesStayBounded` (`GuessesBounded`) and `CodesAreAcceptedOnce` (`CodesWorkOnce`), from
  `SignInInv`: a factor that is not locked has checked no more guesses than its counter says, and a request that
  has reserved an attempt is counted already; a used time step is at or below the stored floor, a used backup code is
  no longer stored. The copies of the row that requests loaded have no part in it, since the claims compare with the row.

`ConversationsProofs`
* `ConversationTypeCorrect`, `CallsAnsweredOnce` (`AnsweredOnce`), `CallsWaitForTheUser` (`CallWaitsForItsUser`) and the
  refinement `ConversationImplementsDecisions` (`DecidesOnce`). The invariant: a call is in one pair of hands, that of the row
  in which it is pending or that of the stream that proposes, claimed or runs it, and is undecided until then; as
  long as streams do not overlap, what the only stream loaded is the row. Each step of `Conversations` is then
  a step of `Decisions` on the one call it is about, or leaves `Fate` alone.

`InstanceProofs`
* `HealthIsTrue` (`HealthTellsTruth`): the row's times are those of the last sign of life, and without a kill
  the status of a row at rest is the outcome recorded last.
* `UndoRestoresExactly` (`UndoIsExact`, an action property) and `UndoingAllRestores` (`AllUndoneIsInitial`), for any finite set of rows, any
  number of calls and writes, users and other calls writing between any two steps of an undo. Neither is inductive:
  what an undo leaves depends on what the rest of the journal says of the same rows. `JournalInv` says
  that a deletion that is not reverted is the only such entry of its row, and the row is gone, while a reverted
  insertion means that its row is gone for good (`Agree`); that an insertion is the first entry of its row, since ids are not
  given out twice (`BornOnce`); that per row the replay goes from the newest entry to the oldest, through
  deferrals and further passes (`ReplayOrder`); and that a row the undo holds is what it was before the oldest reverted entry of
  it (`Back`), or was taken along by a cascade though its insertion is not reverted (`Swept`). A
  swept row has left an effect that the call does not explain, which is why `OnlyExpected` makes the commit
  impossible. `Agree` is kept for two tables, what the undo sees and what is stored if it rolls back.
  `UndoingAllRestores` needs one thing more, since calls are undone in any order: a balance (`Even`). Per row and
  value, the open entries that led to the value, less those that led away from it, are the difference between now
  and the beginning, values that are compared as equal being one; when no entry is open, nothing is different.

`MoneyProofs`
* `InvoicesNotOverpaid` (`InvoiceNotOverpaid`) and `TagsStayCloses` (`TagsAreCloses`), for any calendar, closing days,
  charges and number of payers. The invariant `CardInv`: who is at the commit of a payment holds the card
  (`LockHeld`); the nightly run works on cycles that were over on its day (`NightlyRun`); the closing day and a pending
  change of it fit the tags that payments kept (`TagsFit`, `KeptFit`); and per cycle, what was paid and what is on its way is within what was
  charged or is planned (`Covered`). The last is inductive because every payment towards a cycle is among those
  that any later derivation reads (`StaysListed`), a fact about windows of months. Edits and deletions need no lock for it: they only lower what was paid
  towards a cycle (`LessIsPaid`), unless they count as adjustments. The attempt to prove it with
  the window of the day of the payment failed, and TLC gave the counterexample of section 4.
* `InvestmentLedgersStaySound` (`InvestmentLedgerSound`), for any assets, quantities and number of trades. The
  invariant `WalletInv`: what a validated request relies on is still true as long as no other overtakes it
  (`StillTrue`), legs and trades belong together (`LegsMatch`), and every asset folds. An edit or a deletion folds
  the assets it touches; the sums of the others are the same (`OthersFold`). A creation does not fold: a purchase
  only adds (`BuyFolds`), and a sale behind no other trade is compared with the whole position (`SellFolds`).
* The lemmas on sums (`SumSplit`, `SumAdd`, `SumMonotone`, `SumSubset`, ...) are about `SumFunctionOnSet` of the
  community modules. The library's induction theorems take an operator as parameter, so these lemmas are proved by
  contradiction, from a smallest set for which they fail (`LeastExists`).
* `FilingStaysConsistent` (`FilingIsConsistent`, for one request at a time). The invariant `CatInv` adds the foreign keys and
  that what the request read (group, category, that nothing is filed under it) still holds (`RequestFits`).
* `VerdictsStaySound` (`VerdictsAreSound`) and `RestoresAreExact` (`RestoreIsExact`), for any number of handlers,
  tables and rows. `BackInv` says that a handler that holds the lock has deleted exactly the rows of the tables
  behind it and inserted exactly the archive's rows of the tables it has passed, that ids drawn for a restore
  are nowhere else, and that an id belongs to one table for ever: an export that reads table after table can
  therefore lack a row that another refers to, and nothing worse. Whether an archive is accepted is then a function
  of the archive (`Fits`), and the deletions are never refused, because the registry lists every table after those
  it refers to (`RegistryOrder`).

Only model-checked: the liveness properties (`DueIsEventuallyPosted`, `EveryRequestEnds`,
`AutoPostCatchesUp`, `ClaimIsGivenBack`, `FallbackHeals`), which need fairness; `NoRequestStuck`, which
uses ENABLED (its argument about locks is `LocksAreGivenBack`); and the properties of `Migrations`, which
are evaluations over the forty revisions.

## 6. Plan

The components that carry state of their own and rules about it are modelled, and the safety properties
within the reach of the provers are proved. What would come next is a model of CSV import parsing, whose
rules are about text, and of the quotes of assets.

`Ledger` composes transactions, history, reconciliation and accounts because they share tables in one
commit. `RecurringPosting` and `LoanPayments` keep their own view of the transactions they create; the
freezing of reconciled rows does not reach them, since posting only inserts.

## 7. Not modelled

* Reads that change nothing: analytics, lists, previews, health of the service.
* Text formats: CSV parsing, suggestions, prompts, provider streams, mail.
* Money: rounding, conversion and amortization; the properties tell apart whether amounts fit, not how they
  are divided.
* Passkeys, whose ceremonies are those of a library; preferences; scopes of MCP tokens.
* What the tools of the agent do, which is what the services they call do, and the adapters to the providers.
* Opening balances of cards (an opening debt belongs to the cycle of the earliest transaction, so one entered
  further back moves it), changes of the due day.
* References that a deletion sets to NULL (transactions to loans and recurring rules): the trigger journals the
  change as an update of the row, and `ChangeJournal` has cascades that delete only.
* Quotes of assets and their credentials; dividends and fees, which neither settle nor fold.
* Goals, expected income, institutions, the default categories: single statements guarded by constraints.
  Positions of categories and groups, which order lists. Which texts a categorization rule matches, and in
  which order rules are tried.
* Of backups: encryption, the migration of archives of format 1, the checks of envelope, size and columns, and the dumps of the whole instance that
  the scripts make. The contents of rows, which pass through unread.
* Ownership: every query is restricted to its user, and the modules describe one user's data (the tasks, all).
* Client errors that change no state: a request refused by validation is an action that is not enabled.
* Crashes of PostgreSQL, which keeps committed transactions; a request cut off before its commit is `RollBack`.
* Frontend, installer and containers, apart from the entry point that migrates.
