------------------------------ MODULE MCInstance ------------------------------
(* What an instance does besides keeping books: the schema of its database, *)
(* the record of its jobs, a conversation with an agent, whose calls are    *)
(* atoms, and the journal of what the calls write.  They share no state: a  *)
(* behaviour is one of any of them.                                         *)
EXTENDS Migrations, JobRuns, Conversations, ChangeJournal

CONSTANTS transaction, entry

MCRecords == {transaction, entry}
MCCompared == <<1, 1, 3>> @@ (0 :> 0)
MCInitialTables == {[r \in MCRecords |-> 0],
                    [r \in MCRecords |-> IF r = transaction THEN 1 ELSE 0]}
MCParent == [r \in MCRecords |-> IF r = entry THEN transaction ELSE NoRecord]

Id(n) == <<"id", n>>
WrittenRow(t, f) == [t |-> t, f |-> f \cup (IF \E x \in f : x[1] = "id" THEN {} ELSE {Id("1")})]

GroupRow(g, name) == WrittenRow("category_groups", {Id(g), <<"name", name>>})
CategoryRow(c, g, name) ==
  WrittenRow("categories", {Id(c), <<"name", name>>, <<"group_id", g>>, <<"color", "own">>})
BudgetRow(b, column, of, month) ==
  WrittenRow("budgets", {Id(b), <<column, of>>, <<"month", month>>, <<"currency", "BRL">>})
AllocationRow(b, column, of) == WrittenRow("budget_allocations", {Id(b), <<column, of>>})
Filed(n, c) == WrittenRow("transactions", {Id(n), <<"category_id", c>>})
Ruled(n, c) == WrittenRow("recurring_rules", {Id(n), <<"template_category_id", c>>})

(* A group with an unused category of its own name and one in use; one with *)
(* two categories of its name, in use; one without categories.              *)
Plan ==
  { GroupRow("g1", "food"), CategoryRow("c1", "g1", "food"), CategoryRow("c2", "g1", "lunch"),
    GroupRow("g2", "home"), CategoryRow("c3", "g2", "home"), CategoryRow("c4", "g2", "home"),
    GroupRow("g3", "fun"),
    BudgetRow("b1", "group_id", "g1", "may"), BudgetRow("b2", "group_id", "g1", "june"),
    BudgetRow("b3", "group_id", "g3", "may"), AllocationRow("l1", "group_id", "g2"),
    Filed("2", "c2"), Filed("3", "c3"), Ruled("2", "c4") }

(* The same before there were groups: budgets of parents and children. *)
OldPlan ==
  { WrittenRow("categories", {Id("c1"), <<"name", "food">>}),
    WrittenRow("categories", {Id("c2"), <<"name", "lunch">>, <<"parent_id", "c1">>}),
    WrittenRow("categories", {Id("c3"), <<"name", "home">>}),
    BudgetRow("b1", "category_id", "c1", "may"), BudgetRow("b2", "category_id", "c2", "may"),
    BudgetRow("b3", "category_id", "c2", "june"), AllocationRow("l1", "category_id", "c1"),
    AllocationRow("l2", "category_id", "c2"), AllocationRow("l3", "category_id", "c3"),
    Filed("2", "c2"), Ruled("2", "c3") }

(* One kind of data at a time, and a database that holds all of them. *)
MCWrites ==
  { { WrittenRow("users", {<<"display_currency", "BRL">>, <<"base_currency", "BRL">>}) },
    Plan,
    { WrittenRow("users", {Id("2"), <<"display_currency", "EUR">>, <<"base_currency", "USD">>}) },
    { WrittenRow("manual_rates", {<<"base_code", "JPY">>, <<"quote_code", "BRL">>}) },
    { WrittenRow("accounts", {<<"currency", "BRL">>, <<"type", "card">>, PaidFrom}),
      WrittenRow("transactions", {Id("4"), Grouped, Numbered}) },
    { WrittenRow("recurring_rules", {<<"template_currency", "BRL">>}),
      WrittenRow("transactions", {Id("5"), Loan, Numbered}) },
    { WrittenRow("transactions", {Id("6"), Numbered}) },
    { WrittenRow("investment_transactions", {Yield}) },
    { WrittenRow("investment_assets", {Coingecko}),
      WrittenRow("market_data_credentials", {CoingeckoKey}),
      WrittenRow("asset_quotes", {PerCurrency}), WrittenRow("asset_quotes", {PerSource}) } }

BeforeGroups == CHOOSE n \in 1 .. Newest : Up(n + 1) = UpCategoryGroups

MCWrittenRows ==
  {[rev |-> Newest, rows |-> rs] : rs \in MCWrites \cup {UNION MCWrites}}
    \cup {[rev |-> BeforeGroups, rows |-> OldPlan]}

VARIABLE part

InstanceInit ==
  /\ MigrationInit
  /\ JobInit
  /\ ConversationInit
  /\ JournalInit
  /\ part \in {"schema", "jobs", "conversation", "journal"}
  /\ part # "journal" => initial = [r \in MCRecords |-> 0]

InstanceNext ==
  \/ /\ part = "schema" /\ MigrationNext
     /\ UNCHANGED <<jobVars, convVars, journalVars, part>>
  \/ /\ part = "jobs" /\ JobNext
     /\ UNCHANGED <<migrationVars, convVars, journalVars, part>>
  \/ /\ part = "conversation" /\ ConversationNext
     /\ UNCHANGED <<migrationVars, jobVars, journalVars, part>>
  \/ /\ part = "journal" /\ JournalNext
     /\ UNCHANGED <<migrationVars, jobVars, convVars, part>>

InstanceSpec ==
  /\ InstanceInit
  /\ [][InstanceNext]_<<migrationVars, jobVars, convVars, journalVars, part>>
  /\ ConversationFairness
================================================================================
