------------------------------ MODULE Migrations ------------------------------
(***************************************************************************)
(* The Alembic revisions of backend/alembic/versions and the way env.py    *)
(* and the container entry point run them.                                 *)
(*                                                                         *)
(* A revision is a pair of statement lists, one per function of its file.  *)
(* A statement is a record; Runs(s, db) says whether PostgreSQL accepts it *)
(* on the database db and After(s, db) what it leaves.  A database is      *)
(*   tabs    the tables,                                                   *)
(*   cols    <<table, column>>,                                            *)
(*   refs    <<table, column, parent>>, the foreign keys,                  *)
(*   guards  <<table, name, bad>>: the named checks, unique constraints,   *)
(*           indexes and triggers that some revision adds to or takes from *)
(*           an existing table; bad is the set of fact combinations that   *)
(*           the check forbids,                                            *)
(*   rows    [t |-> table, f |-> facts]: what the stored rows hold in the  *)
(*           columns a migration looks at, as <<column, value>>.           *)
(* Column types, server defaults and the indexes that live and die with    *)
(* their table are left out.                                               *)
(***************************************************************************)
EXTENDS Naturals, Sequences, FiniteSets, SequencesExt, SchemaModels

CONSTANTS
  WrittenRows,  \* [rev |-> revision, rows |-> rows its application writes]
  MaxSchemaWrites  \* bound: how many of them a database holds

--------------------------------------------------------------------------------
(* Facts of a row that a migration can trip over. *)

Loan         == <<"loan_id", "set">>
Numbered     == <<"installment_number", "set">>
Grouped      == <<"installment_group_id", "set">>
NoCard       == <<"type", "cash">>
PaidFrom     == <<"payment_account_id", "set">>
Yield        == <<"type", "yield">>
Coingecko    == <<"quote_provider", "coingecko">>
CoingeckoKey == <<"provider", "coingecko">>
PerCurrency  == <<"key", "repeated per currency">>
PerSource    == <<"key", "repeated per source">>

(* A combination a check forbids: facts a row has and facts it lacks. *)
Like(has)          == [has |-> has, lacks |-> {}]
Unlike(has, lacks) == [has |-> has, lacks |-> lacks]

(* Statements. *)

Create(t, cs, fks) == [do |-> "create", t |-> t, cs |-> cs, fks |-> fks]
Plain(t, cs, fks) ==
  Create(t, cs \cup {"id", "created_at", "updated_at"}, fks)
Owned(t, cs, fks) ==
  Plain(t, cs \cup {"user_id"}, fks \cup {<<"user_id", "users">>})
Drop(t)             == [do |-> "drop", t |-> t]
Optional(t, cs)     == [do |-> "add", t |-> t, cs |-> cs, empty |-> FALSE]
Defaulted(t, cs)    == [do |-> "add", t |-> t, cs |-> cs, empty |-> FALSE]
Mandatory(t, cs)    == [do |-> "add", t |-> t, cs |-> cs, empty |-> TRUE]
Cut(t, cs)          == [do |-> "cut", t |-> t, cs |-> cs]
Require(t, c)       == [do |-> "require", t |-> t, c |-> c]
Link(t, c, p)       == [do |-> "link", t |-> t, c |-> c, p |-> p]
Unlink(t, c)        == [do |-> "unlink", t |-> t, c |-> c]
Guard(t, n, bad)    == [do |-> "guard", ts |-> {t}, n |-> n, bad |-> bad]
GuardAll(ts, n)     == [do |-> "guard", ts |-> ts, n |-> n, bad |-> {}]
Unguard(ts, n)      == [do |-> "unguard", ts |-> ts, n |-> n]
Fill(t, w, fact)    == [do |-> "fill", t |-> t, w |-> w, fact |-> fact]
Clear(t, w, cs)     == [do |-> "clear", t |-> t, w |-> w, cs |-> cs]
Erase(t, w)         == [do |-> "erase", t |-> t, w |-> w]
Seed(codes)         == [do |-> "seed", codes |-> codes]
Unseed(codes)       == [do |-> "unseed", codes |-> codes]
Data(t, query)      == [do |-> "data", t |-> t, query |-> query]

Currency(code) == [t |-> "currencies", f |-> {<<"code", code>>}]
Of(t, w, db) == {r \in db.rows : r.t = t /\ w \subseteq r.f}
Matches(b, f) == b.has \subseteq f /\ b.lacks \cap f = {}
Without(f, cs) == {x \in f : x[1] \notin cs}

(* A column without a fact is NULL. *)
Null(r, c)   == \A x \in r.f : x[1] # c
Get(r, c)    == (CHOOSE x \in r.f : x[1] = c)[2]
Put(r, c, v) == [r EXCEPT !.f = Without(@, {c}) \cup {<<c, v>>}]
Shares(r, q, c) == ~Null(r, c) /\ ~Null(q, c) /\ Get(r, c) = Get(q, c)

(* Tables whose rows other rows name by a key. *)
Keyed == {"currencies", "categories", "category_groups"}
Key(t) == IF t = "currencies" THEN "code" ELSE "id"
Named(p, v, db) == \E q \in Of(p, {}, db) : <<Key(p), v>> \in q.f

--------------------------------------------------------------------------------
(* What the revision of the category groups does to rows.  A new id is that *)
(* of the row it is made for.                                               *)

Tops(db) == {r \in Of("categories", {}, db) : Null(r, "parent_id")}

(* A category that stands for its group after the downgrade: one with the  *)
(* group's name, made with the group or the oldest.                        *)
Representative(g, db) ==
  CHOOSE r \in Of("categories", {}, db) : Shares(r, g, "name") /\ Get(r, "group_id") = Get(g, "id")
Represents(r, db) ==
  \E g \in Of("category_groups", {}, db) :
    /\ \E q \in Of("categories", {}, db) : Shares(q, g, "name") /\ Get(q, "group_id") = Get(g, "id")
    /\ r = Representative(g, db)

Used(c, db) ==
  \/ Of("transactions", {<<"category_id", Get(c, "id")>>}, db) # {}
  \/ Of("recurring_rules", {<<"template_category_id", Get(c, "id")>>}, db) # {}

(* Mutant: the month is left out of PARTITION BY. *)
RivalsAnyMonth(r, q) == r.t = q.t /\ Shares(r, q, "group_id")

(* Budgets of one group and month, and allocations of one group: the one of *)
(* the top-level category is kept, or one of the others, the oldest.        *)
Rivals(r, q) ==
  /\ r.t = q.t /\ Shares(r, q, "group_id")
  /\ r.t = "budgets" => Shares(r, q, "month")
OfTop(r, db) == \E c \in Tops(db) : Get(c, "id") = Get(r, "category_id")
Kept(r, db) ==
  LET all == {q \in db.rows : Rivals(q, r)}
      tops == {q \in all : OfTop(q, db)}
  IN  r = CHOOSE q \in all : tops = {} \/ q \in tops

NewGroups(db) ==
  {[t |-> "category_groups",
    f |-> {<<"id", Get(r, "temp_group_id")>>, <<"name", Get(r, "name")>>}] : r \in Tops(db)}

NewTops(db) ==
  {[t |-> "categories",
    f |-> {<<"id", Get(g, "id")>>, <<"name", Get(g, "name")>>, <<"group_id", Get(g, "id")>>}] :
     g \in {g \in Of("category_groups", {}, db) :
               \A r \in Of("categories", {}, db) :
                 ~(Shares(r, g, "name") /\ Get(r, "group_id") = Get(g, "id"))}}

Each(t, Op(_), db) == {IF r.t = t THEN Op(r) ELSE r : r \in db.rows}
One(R, c, r) == Get(CHOOSE q \in R : Shares(q, r, c), "id")

(* The rows after one of its statements on table t. *)
RowsAfter(query, t, db) ==
  CASE query = "name the groups" ->
         Each(t, LAMBDA r : IF r \in Tops(db) THEN Put(r, "temp_group_id", Get(r, "id")) ELSE r, db)
    [] query = "insert the groups" -> db.rows \cup NewGroups(db)
    [] query = "file the tops" ->
         Each(t, LAMBDA r : IF r \in Tops(db) THEN Put(r, "group_id", Get(r, "temp_group_id"))
                            ELSE r, db)
    [] query = "file under the parent's" ->
         Each(t, LAMBDA r : LET ps == {p \in Tops(db) : <<"parent_id", Get(p, "id")>> \in r.f}
                            IN  IF ps = {} THEN r
                                ELSE Put(r, "group_id", Get(CHOOSE p \in ps : TRUE, "temp_group_id")), db)
    [] query = "roll up" ->
         Each(t, LAMBDA r : LET cs == {c \in Of("categories", {}, db) :
                                         <<"category_id", Get(c, "id")>> \in r.f}
                            IN  IF cs = {} THEN r
                                ELSE Put(r, "group_id", Get(CHOOSE c \in cs : TRUE, "group_id")), db)
    [] query = "merge" -> {r \in db.rows : r.t = t => Kept(r, db)}
    [] query = "delete unused tops" -> db.rows \ {r \in Tops(db) : ~Used(r, db)}
    [] query = "insert missing tops" -> db.rows \cup NewTops(db)
    [] query = "nest under the representative" ->
         Each(t, LAMBDA r : IF Represents(r, db) THEN r
                            ELSE Put(r, "parent_id",
                                     One({q \in Of(t, {}, db) : Represents(q, db)}, "group_id", r)), db)
    [] query = "point at the tops" ->
         Each(t, LAMBDA r : Put(r, "category_id", One(Tops(db), "group_id", r)), db)

(* A deleted row that another one still names. *)
Referred(r, rows, db) ==
  \E k \in db.refs : k[3] = r.t /\ r.t \in Keyed /\
    LET name == Get(r, Key(r.t)) IN
    /\ \A q \in rows : q.t = r.t => Get(q, Key(r.t)) # name
    /\ \E q \in rows : q.t = k[1] /\ <<k[2], name>> \in q.f

(* What PostgreSQL demands of a statement: the objects it names exist, or do *)
(* not exist yet; a table that another one refers to is not dropped; a new   *)
(* NOT NULL column has a default or an empty table; a column made NOT NULL   *)
(* is filled; a new check holds of every row; a currency in use stays.       *)
Runs(s, db) ==
  CASE s.do = "create"  -> /\ s.t \notin db.tabs
                           /\ \A k \in s.fks : k[2] \in db.tabs \cup {s.t}
    [] s.do = "drop"    -> /\ s.t \in db.tabs
                           /\ \A k \in db.refs : k[3] = s.t => k[1] = s.t
    [] s.do = "add"     -> /\ s.t \in db.tabs
                           /\ \A c \in s.cs : <<s.t, c>> \notin db.cols
                           /\ s.empty => Of(s.t, {}, db) = {}
    [] s.do = "cut"     -> \A c \in s.cs : <<s.t, c>> \in db.cols
    [] s.do = "require" -> \A r \in Of(s.t, {}, db) : \E x \in r.f : x[1] = s.c
    [] s.do = "link"    -> /\ <<s.t, s.c>> \in db.cols
                           /\ s.p \in db.tabs
                           /\ s.p \in Keyed =>
                                \A r \in Of(s.t, {}, db) : \A x \in r.f :
                                  x[1] = s.c => Named(s.p, x[2], db)
    [] s.do = "unlink"  -> \E k \in db.refs : k[1] = s.t /\ k[2] = s.c
    [] s.do = "guard"   -> /\ s.ts \subseteq db.tabs
                           /\ \A g \in db.guards : g[1] \in s.ts => g[2] # s.n
                           /\ \A t \in s.ts, b \in s.bad, r \in db.rows :
                                ~(r.t = t /\ Matches(b, r.f))
    [] s.do = "unguard" -> \A t \in s.ts :
                             \E g \in db.guards : g[1] = t /\ g[2] = s.n
    [] s.do = "seed"    -> \A c \in s.codes : Currency(c) \notin db.rows
    [] s.do = "unseed"  -> \A k \in db.refs : k[3] = "currencies" =>
                             \A r \in Of(k[1], {}, db) :
                               \A c \in s.codes : <<k[2], c>> \notin r.f
    [] s.do = "data"    -> /\ s.t \in db.tabs
                           /\ \A r \in db.rows \ RowsAfter(s.query, s.t, db) :
                                ~Referred(r, RowsAfter(s.query, s.t, db), db)
    [] OTHER            -> s.t \in db.tabs

(* What the statement leaves. *)
After(s, db) ==
  CASE s.do = "create" ->
         [db EXCEPT !.tabs = @ \cup {s.t},
                    !.cols = @ \cup {<<s.t, c>> : c \in s.cs},
                    !.refs = @ \cup {<<s.t, k[1], k[2]>> : k \in s.fks}]
    [] s.do = "drop" ->
         [db EXCEPT !.tabs = @ \ {s.t},
                    !.cols = {k \in @ : k[1] # s.t},
                    !.refs = {k \in @ : k[1] # s.t},
                    !.guards = {k \in @ : k[1] # s.t},
                    !.rows = {r \in @ : r.t # s.t}]
    [] s.do = "add" -> [db EXCEPT !.cols = @ \cup {<<s.t, c>> : c \in s.cs}]
    [] s.do = "cut" ->
         [db EXCEPT !.cols = @ \ {<<s.t, c>> : c \in s.cs},
                    !.refs = {k \in @ : k[1] = s.t => k[2] \notin s.cs},
                    !.rows = {IF r.t = s.t
                              THEN [r EXCEPT !.f = Without(@, s.cs)]
                              ELSE r : r \in @}]
    [] s.do = "require" -> db
    [] s.do = "link"    -> [db EXCEPT !.refs = @ \cup {<<s.t, s.c, s.p>>}]
    [] s.do = "unlink"  ->
         [db EXCEPT !.refs = {k \in @ : k[1] = s.t => k[2] # s.c}]
    [] s.do = "guard"   ->
         [db EXCEPT !.guards = @ \cup {<<t, s.n, s.bad>> : t \in s.ts}]
    [] s.do = "unguard" ->
         [db EXCEPT !.guards = {g \in @ : g[1] \in s.ts => g[2] # s.n}]
    [] s.do = "fill"    ->
         [db EXCEPT !.rows =
            {IF r \in Of(s.t, s.w, db)
             THEN [r EXCEPT !.f = Without(@, {s.fact[1]}) \cup {s.fact}]
             ELSE r : r \in @}]
    [] s.do = "clear"   ->
         [db EXCEPT !.rows = {IF r \in Of(s.t, s.w, db)
                              THEN [r EXCEPT !.f = Without(@, s.cs)]
                              ELSE r : r \in @}]
    [] s.do = "erase"   -> [db EXCEPT !.rows = @ \ Of(s.t, s.w, db)]
    [] s.do = "data"    -> [db EXCEPT !.rows = RowsAfter(s.query, s.t, db)]
    [] s.do = "seed"    ->
         [db EXCEPT !.rows = @ \cup {Currency(c) : c \in s.codes}]
    [] s.do = "unseed"  ->
         [db EXCEPT !.rows = @ \ {Currency(c) : c \in s.codes}]

(* A list runs until a statement is refused; ok then stays FALSE. *)
Perform(statements, db) ==
  FoldLeft(LAMBDA d, s : IF d.ok /\ Runs(s, d) THEN After(s, d)
                         ELSE [d EXCEPT !.ok = FALSE],
           db, statements)

--------------------------------------------------------------------------------
(* The revisions, oldest first. *)

WesternCodes == {"USD", "EUR", "GBP"}
LocaleCodes == {"PLN", "RUB", "UAH", "TRY", "AED", "ILS", "INR", "CNY", "TWD",
  "JPY", "KRW", "IDR", "VND", "THB", "SEK", "DKK", "NOK", "CZK", "RON"}
JournaledTables == {"accounts", "budget_allocations", "budgets", "categories",
  "categorization_rules", "category_groups", "expected_income", "goals",
  "institutions", "investment_assets", "investment_transactions",
  "investment_wallets", "loans", "manual_rates", "reconciliation_entries",
  "reconciliations", "recurring_rules", "transactions"}

UpBaseline ==
  <<Create("currencies", {"code", "name", "symbol", "decimal_digits",
          "is_active", "created_at", "updated_at"}, {}),
    Plain("exchange_rates", {"base_code", "quote_code", "rate", "as_of",
          "source"}, {<<"base_code", "currencies">>,
          <<"quote_code", "currencies">>}),
    Seed({"BRL"})>>

DownBaseline ==
  <<Drop("exchange_rates"),
    Drop("currencies")>>

UpIdentity ==
  <<Plain("users", {"email", "normalized_email", "password_hash",
          "display_name", "role", "is_active", "locale", "theme",
          "display_currency", "balances_hidden"},
          {<<"display_currency", "currencies">>}),
    Owned("sessions", {"token_hash", "csrf_token_hash", "expires_at",
          "revoked_at", "last_seen_at"}, {}),
    Plain("invitations", {"email", "normalized_email", "role", "token_hash",
          "expires_at", "invited_by", "accepted_at", "revoked_at"},
          {<<"invited_by", "users">>})>>

DownIdentity ==
  <<Drop("invitations"),
    Drop("sessions"),
    Drop("users")>>

UpWesternCurrencies ==
  <<Seed(WesternCodes)>>

DownWesternCurrencies ==
  <<Unseed(WesternCodes)>>

UpInstitutionsAndAccounts ==
  <<Owned("institutions", {"name", "icon", "color", "archived", "position"},
          {}),
    Owned("accounts", {"name", "type", "currency", "opening_balance",
          "institution_id", "archived", "credit_limit", "closing_day",
          "due_day"}, {<<"currency", "currencies">>,
          <<"institution_id", "institutions">>}),
    Guard("accounts", "ck_accounts_credit_card_fields_only", {})>>

DownInstitutionsAndAccounts ==
  <<Drop("accounts"),
    Drop("institutions")>>

UpCategoriesAndBudgets ==
  <<Owned("categories", {"name", "kind", "parent_id", "color", "icon",
          "archived", "position"}, {<<"parent_id", "categories">>}),
    Owned("budgets", {"category_id", "month", "amount", "currency"},
          {<<"category_id", "categories">>, <<"currency", "currencies">>}),
    Guard("budgets", "uq_budgets_user_category_month", {}),
    Owned("budget_allocations", {"category_id", "percentage"},
          {<<"category_id", "categories">>}),
    Guard("budget_allocations", "uq_budget_allocations_user_category", {}),
    Owned("expected_income", {"month", "amount", "currency"},
          {<<"currency", "currencies">>})>>

DownCategoriesAndBudgets ==
  <<Drop("expected_income"),
    Drop("budget_allocations"),
    Drop("budgets"),
    Drop("categories")>>

UpTransactions ==
  <<Owned("recurring_rules", {"frequency", "interval", "start_date",
          "end_date", "template_type", "template_amount", "template_currency",
          "template_account_id", "template_to_account_id",
          "template_category_id", "template_description", "template_notes"}
          \cup TemplateConversion, {<<"template_currency", "currencies">>,
          <<"template_account_id", "accounts">>,
          <<"template_to_account_id", "accounts">>,
          <<"template_category_id", "categories">>,
          <<"template_conversion_currency", "currencies">>}),
    Owned("transactions", {"type", "date", "amount", "currency", "account_id",
          "to_account_id", "category_id", "description", "notes",
          "recurring_rule_id"} \cup ConversionColumns,
          {<<"currency", "currencies">>, <<"account_id", "accounts">>,
          <<"to_account_id", "accounts">>, <<"category_id", "categories">>,
          <<"recurring_rule_id", "recurring_rules">>,
          <<"conversion_currency", "currencies">>})>>

DownTransactions ==
  <<Drop("transactions"),
    Drop("recurring_rules")>>

UpManualRatesAndGoals ==
  <<Owned("manual_rates", {"base_code", "quote_code", "rate", "as_of"},
          {<<"base_code", "currencies">>, <<"quote_code", "currencies">>}),
    Owned("goals", {"account_id", "name", "target_amount", "currency",
          "target_date", "frequency", "interval", "archived"},
          {<<"account_id", "accounts">>, <<"currency", "currencies">>})>>

DownManualRatesAndGoals ==
  <<Drop("goals"),
    Drop("manual_rates")>>

UpLocaleCurrencies ==
  <<Seed(LocaleCodes)>>

DownLocaleCurrencies ==
  <<Unseed(LocaleCodes)>>

(* mutant: base_currency becomes NOT NULL without the backfill *)
UpBaseCurrencyUnfilled ==
  <<Mandatory("users", {"base_currency"}),
    Link("users", "base_currency", "currencies")>>

UpBaseCurrency ==
  <<Optional("users", {"base_currency"}),
    Fill("users", {}, <<"base_currency", "USD">>),
    Require("users", "base_currency"),
    Link("users", "base_currency", "currencies")>>

DownBaseCurrency ==
  <<Unlink("users", "base_currency"),
    Cut("users", {"base_currency"})>>

UpRecurringRulePosting ==
  <<Optional("recurring_rules", {"last_posted_date"}),
    Fill("recurring_rules", {}, <<"last_posted_date", "today">>),
    Guard("transactions", "ux_transactions_recurring_rule_id_date", {})>>

DownRecurringRulePosting ==
  <<Unguard({"transactions"}, "ux_transactions_recurring_rule_id_date"),
    Cut("recurring_rules", {"last_posted_date"})>>

UpAgentCredentials ==
  <<Owned("agent_credentials", {"provider", "auth_mode", "secret_ciphertext",
          "refresh_ciphertext", "expires_at", "account_id", "account_label",
          "base_url", "model"}, {})>>

DownAgentCredentials ==
  <<Drop("agent_credentials")>>

UpReasoningEffort ==
  <<Optional("agent_credentials", {"reasoning_effort"}),
    Guard("agent_credentials", "ck_agent_credentials_reasoning_effort", {})>>

DownReasoningEffort ==
  <<Unguard({"agent_credentials"}, "ck_agent_credentials_reasoning_effort"),
    Cut("agent_credentials", {"reasoning_effort"})>>

UpInvestmentsEnabled ==
  <<Defaulted("users", {"investments_enabled"})>>

DownInvestmentsEnabled ==
  <<Cut("users", {"investments_enabled"})>>

UpInvestmentDomain ==
  <<Owned("investment_assets", {"symbol", "name", "asset_class", "currency",
          "quote_provider", "manual_price", "archived"},
          {<<"currency", "currencies">>}),
    Guard("investment_assets", "ck_investment_assets_quote_provider",
          {Like({Coingecko})}),
    Plain("asset_quotes", {"symbol", "currency", "price", "as_of", "source"},
          {<<"currency", "currencies">>}),
    Guard("asset_quotes", "uq_asset_quotes_symbol_as_of", {Like({PerCurrency}), Like({PerSource})}),
    Owned("investment_wallets", {"account_id", "name", "currency",
          "cash_account_id", "institution_id", "archived"},
          {<<"account_id", "accounts">>, <<"currency", "currencies">>,
          <<"cash_account_id", "accounts">>,
          <<"institution_id", "institutions">>}),
    Owned("investment_transactions", {"wallet_id", "asset_id", "type", "date",
          "quantity", "price", "amount", "fee", "currency", "transaction_id",
          "notes"}, {<<"wallet_id", "investment_wallets">>,
          <<"asset_id", "investment_assets">>, <<"currency", "currencies">>,
          <<"transaction_id", "transactions">>}),
    Guard("investment_transactions", "ck_investment_transactions_type",
          {Like({Yield})})>>

DownInvestmentDomain ==
  <<Drop("investment_transactions"),
    Drop("investment_wallets"),
    Drop("investment_assets"),
    Drop("asset_quotes")>>

UpMarketDataCredentials ==
  <<Owned("market_data_credentials", {"provider", "secret_ciphertext"}, {}),
    Guard("market_data_credentials", "ck_market_data_credentials_provider",
          {Like({CoingeckoKey})})>>

DownMarketDataCredentials ==
  <<Drop("market_data_credentials")>>

UpCategoryGroups ==
  <<Owned("category_groups", {"name", "kind", "color", "icon", "position"},
          {}),
    Optional("categories", {"temp_group_id"}),
    Data("categories", "name the groups"),
    Data("category_groups", "insert the groups"),
    Optional("categories", {"group_id"}),
    Data("categories", "file the tops"),
    Data("categories", "file under the parent's"),
    Require("categories", "group_id"),
    Link("categories", "group_id", "category_groups"),
    Guard("categories", "ix_categories_group_id", {}),
    Cut("categories", {"temp_group_id"}),
    Optional("budgets", {"group_id"}),
    Data("budgets", "roll up"),
    Data("budgets", "merge"),
    Unguard({"budgets"}, "uq_budgets_user_category_month"),
    Unlink("budgets", "category_id"),
    Cut("budgets", {"category_id"}),
    Require("budgets", "group_id"),
    Link("budgets", "group_id", "category_groups"),
    Guard("budgets", "uq_budgets_user_group_month", {}),
    Optional("budget_allocations", {"group_id"}),
    Data("budget_allocations", "roll up"),
    Data("budget_allocations", "merge"),
    Unguard({"budget_allocations"}, "uq_budget_allocations_user_category"),
    Unlink("budget_allocations", "category_id"),
    Cut("budget_allocations", {"category_id"}),
    Require("budget_allocations", "group_id"),
    Link("budget_allocations", "group_id", "category_groups"),
    Guard("budget_allocations", "uq_budget_allocations_user_group", {}),
    Unlink("categories", "parent_id"),
    Data("categories", "delete unused tops"),
    Cut("categories", {"parent_id", "archived"})>>

DownCategoryGroups ==
  <<Optional("categories", {"parent_id"}),
    Defaulted("categories", {"archived"}),
    Data("categories", "insert missing tops"),
    Data("categories", "nest under the representative"),
    Optional("budgets", {"category_id"}),
    Data("budgets", "point at the tops"),
    Unguard({"budgets"}, "uq_budgets_user_group_month"),
    Unlink("budgets", "group_id"),
    Cut("budgets", {"group_id"}),
    Require("budgets", "category_id"),
    Link("budgets", "category_id", "categories"),
    Guard("budgets", "uq_budgets_user_category_month", {}),
    Optional("budget_allocations", {"category_id"}),
    Data("budget_allocations", "point at the tops"),
    Unguard({"budget_allocations"}, "uq_budget_allocations_user_group"),
    Unlink("budget_allocations", "group_id"),
    Cut("budget_allocations", {"group_id"}),
    Require("budget_allocations", "category_id"),
    Link("budget_allocations", "category_id", "categories"),
    Guard("budget_allocations", "uq_budget_allocations_user_category", {}),
    Unlink("categories", "group_id"),
    Unguard({"categories"}, "ix_categories_group_id"),
    Cut("categories", {"group_id"}),
    Link("categories", "parent_id", "categories"),
    Drop("category_groups")>>

UpCategorizationRules ==
  <<Owned("categorization_rules", {"name", "priority", "is_active",
          "match_op", "conditions", "category_id"},
          {<<"category_id", "categories">>})>>

DownCategorizationRules ==
  <<Drop("categorization_rules")>>

UpLoans ==
  <<Owned("loans", {"name", "category_id", "currency", "amount_borrowed",
          "fees", "interest_rate", "rate_period", "installment_count",
          "installment_amount", "first_payment_date", "auto_post",
          "payment_account_id", "notes", "archived"},
          {<<"category_id", "categories">>, <<"currency", "currencies">>,
          <<"payment_account_id", "accounts">>}),
    Optional("transactions", {"loan_id"}),
    Link("transactions", "loan_id", "loans"),
    Guard("transactions", "ix_transactions_loan_id", {})>>

(* mutant: the index on loan_id is forgotten *)
DownLoansKeepsIndex ==
  <<Unlink("transactions", "loan_id"),
    Cut("transactions", {"loan_id"}),
    Drop("loans")>>

DownLoans ==
  <<Unguard({"transactions"}, "ix_transactions_loan_id"),
    Unlink("transactions", "loan_id"),
    Cut("transactions", {"loan_id"}),
    Drop("loans")>>

UpTwoFactor ==
  <<Optional("users", {"totp_secret_ciphertext", "totp_confirmed_at",
          "totp_last_step"}),
    Defaulted("users", {"totp_failed_attempts"}),
    Optional("users", {"totp_locked_until"}),
    Owned("totp_backup_codes", {"code_hash", "used_at"}, {}),
    Owned("trusted_devices", {"token_hash", "expires_at", "revoked_at"}, {})>>

DownTwoFactor ==
  <<Drop("trusted_devices"),
    Drop("totp_backup_codes"),
    Cut("users", {"totp_locked_until", "totp_failed_attempts",
          "totp_last_step", "totp_confirmed_at", "totp_secret_ciphertext"})>>

UpAgentConversations ==
  <<Defaulted("users", {"ai_chat_enabled"}),
    Owned("agent_conversations", {"title", "provider", "model", "status",
          "pending_call_id"}, {}),
    Owned("agent_messages", {"conversation_id", "role", "content",
          "tool_calls", "tool_call_id", "tool_name", "is_error", "position"},
          {<<"conversation_id", "agent_conversations">>})>>

DownAgentConversations ==
  <<Drop("agent_messages"),
    Drop("agent_conversations"),
    Cut("users", {"ai_chat_enabled"})>>

UpCreditCardInvoices ==
  <<Optional("accounts", {"payment_account_id"}),
    Defaulted("accounts", {"auto_pay"}),
    Link("accounts", "payment_account_id", "accounts"),
    Unguard({"accounts"}, "ck_accounts_credit_card_fields_only"),
    Guard("accounts", "ck_accounts_credit_card_fields_only", {Like({NoCard, PaidFrom})}),
    Guard("accounts", "ck_accounts_auto_pay_requires_account", {}),
    Guard("accounts", "ck_accounts_payment_account_distinct", {}),
    Optional("transactions", {"card_invoice_close_date"}),
    Guard("transactions", "ix_transactions_card_invoice_close_date", {})>>

DownCreditCardInvoices ==
  <<Unguard({"transactions"}, "ix_transactions_card_invoice_close_date"),
    Cut("transactions", {"card_invoice_close_date"}),
    Unguard({"accounts"}, "ck_accounts_payment_account_distinct"),
    Unguard({"accounts"}, "ck_accounts_auto_pay_requires_account"),
    Unguard({"accounts"}, "ck_accounts_credit_card_fields_only"),
    Guard("accounts", "ck_accounts_credit_card_fields_only", {}),
    Unlink("accounts", "payment_account_id"),
    Cut("accounts", {"auto_pay", "payment_account_id"})>>

UpTransactionInstallments ==
  <<Optional("transactions", {"installment_group_id", "installment_number",
          "installment_count"}),
    Guard("transactions", "ix_transactions_installment_group_id", {}),
    Guard("transactions", "ck_transactions_installment_shape", {Unlike({Numbered}, {Grouped})})>>

DownTransactionInstallments ==
  <<Unguard({"transactions"}, "ck_transactions_installment_shape"),
    Unguard({"transactions"}, "ix_transactions_installment_group_id"),
    Cut("transactions", {"installment_count", "installment_number",
          "installment_group_id"})>>

UpCustomInstructions ==
  <<Optional("users", {"ai_custom_instructions"})>>

DownCustomInstructions ==
  <<Cut("users", {"ai_custom_instructions"})>>

UpWebauthnCredentials ==
  <<Owned("webauthn_credentials", {"credential_id", "public_key",
          "sign_count", "rp_id", "transports", "name", "last_used_at"}, {}),
    Owned("webauthn_challenges", {"challenge", "purpose", "rp_id", "origin",
          "expires_at", "consumed_at"}, {})>>

DownWebauthnCredentials ==
  <<Drop("webauthn_challenges"),
    Drop("webauthn_credentials")>>

UpLoanImprovements ==
  <<Optional("loans", {"contracted_installment_amount"}),
    Guard("loans", "ck_loans_contracted_installment_amount_positive", {}),
    Unguard({"transactions"}, "ck_transactions_installment_shape"),
    Clear("transactions", {Loan}, {"installment_group_id"}),
    Fill("transactions", {Loan}, Numbered),
    Guard("transactions", "ck_transactions_installment_shape", {Like({Loan, Grouped})}),
    Guard("transactions", "ux_transactions_loan_installment_number", {})>>

DownLoanImprovements ==
  <<Unguard({"transactions"}, "ux_transactions_loan_installment_number"),
    Unguard({"transactions"}, "ck_transactions_installment_shape"),
    Clear("transactions", {Loan}, {"installment_group_id",
          "installment_number"}),
    Guard("transactions", "ck_transactions_installment_shape", {Unlike({Numbered}, {Grouped})}),
    Unguard({"loans"}, "ck_loans_contracted_installment_amount_positive"),
    Cut("loans", {"contracted_installment_amount"})>>

UpPasswordLockout ==
  <<Defaulted("users", {"password_failed_attempts"}),
    Optional("users", {"password_locked_until"})>>

DownPasswordLockout ==
  <<Cut("users", {"password_locked_until", "password_failed_attempts"})>>

UpTransactionIndexes ==
  <<Guard("transactions", "ix_transactions_user_id_account_id", {}),
    Guard("transactions", "ix_transactions_user_id_category_id", {}),
    Guard("transactions", "ix_transactions_user_id_to_account_id", {})>>

DownTransactionIndexes ==
  <<Unguard({"transactions"}, "ix_transactions_user_id_to_account_id"),
    Unguard({"transactions"}, "ix_transactions_user_id_category_id"),
    Unguard({"transactions"}, "ix_transactions_user_id_account_id")>>

UpImportIdempotency ==
  <<Owned("import_idempotency", {"key", "request_hash", "created_count"}, {})>>

DownImportIdempotency ==
  <<Drop("import_idempotency")>>

UpJobRuns ==
  <<Plain("job_runs", {"name", "started_at", "finished_at", "status",
          "processed", "failed", "error_type"}, {})>>

DownJobRuns ==
  <<Drop("job_runs")>>

UpTransactionHistory ==
  <<Owned("transaction_history", {"transaction_id", "operation", "source",
          "batch_id", "before", "after"},
          {<<"batch_id", "import_idempotency">>})>>

DownTransactionHistory ==
  <<Drop("transaction_history")>>

UpReconciliation ==
  <<Owned("reconciliations", {"account_id", "statement_date",
          "statement_balance", "currency", "status", "completed_at"},
          {<<"account_id", "accounts">>, <<"currency", "currencies">>}),
    Owned("reconciliation_entries", {"reconciliation_id", "transaction_id",
          "account_id"}, {<<"reconciliation_id", "reconciliations">>,
          <<"transaction_id", "transactions">>, <<"account_id", "accounts">>})>>

DownReconciliation ==
  <<Drop("reconciliation_entries"),
    Drop("reconciliations")>>

UpChangeJournal ==
  <<Owned("change_journal", {"seq", "agent_call_id", "conversation_id",
          "table_name", "row_id", "operation", "before", "after",
          "undone_at"}, {<<"conversation_id", "agent_conversations">>}),
    GuardAll(JournaledTables, "lf_journal")>>

DownChangeJournal ==
  <<Unguard(JournaledTables, "lf_journal"),
    Drop("change_journal")>>

UpAgentMemories ==
  <<Owned("agent_memories", {"content"}, {})>>

DownAgentMemories ==
  <<Drop("agent_memories")>>

UpCoingeckoQuotes ==
  <<Unguard({"investment_assets"}, "ck_investment_assets_quote_provider"),
    Guard("investment_assets", "ck_investment_assets_quote_provider", {}),
    Unguard({"market_data_credentials"},
          "ck_market_data_credentials_provider"),
    Guard("market_data_credentials", "ck_market_data_credentials_provider",
          {}),
    Unguard({"asset_quotes"}, "uq_asset_quotes_symbol_as_of"),
    Guard("asset_quotes", "uq_asset_quotes_symbol_currency_as_of",
          {Like({PerSource})})>>

DownCoingeckoQuotes ==
  <<Erase("asset_quotes", {}),
    Unguard({"asset_quotes"}, "uq_asset_quotes_symbol_currency_as_of"),
    Guard("asset_quotes", "uq_asset_quotes_symbol_as_of", {Like({PerCurrency}), Like({PerSource})}),
    Fill("investment_assets", {Coingecko}, <<"quote_provider", "manual">>),
    Unguard({"investment_assets"}, "ck_investment_assets_quote_provider"),
    Guard("investment_assets", "ck_investment_assets_quote_provider",
          {Like({Coingecko})}),
    Erase("market_data_credentials", {CoingeckoKey}),
    Unguard({"market_data_credentials"},
          "ck_market_data_credentials_provider"),
    Guard("market_data_credentials", "ck_market_data_credentials_provider",
          {Like({CoingeckoKey})})>>

UpQuoteCacheProvider ==
  <<Unguard({"asset_quotes"}, "uq_asset_quotes_symbol_currency_as_of"),
    Guard("asset_quotes", "uq_asset_quotes_symbol_currency_source_as_of", {})>>

DownQuoteCacheProvider ==
  <<Erase("asset_quotes", {}),
    Unguard({"asset_quotes"}, "uq_asset_quotes_symbol_currency_source_as_of"),
    Guard("asset_quotes", "uq_asset_quotes_symbol_currency_as_of",
          {Like({PerSource})})>>

UpCategoryColorFollowsGroup ==
  <<Fill("categories", {}, <<"color", "of group">>)>>

DownCategoryColorFollowsGroup ==
  <<>>

UpInvestmentYield ==
  <<Unguard({"investment_transactions"}, "ck_investment_transactions_type"),
    Guard("investment_transactions", "ck_investment_transactions_type", {}),
    Guard("investment_transactions",
          "ck_investment_transactions_yield_amount_fee", {})>>

DownInvestmentYield ==
  <<Unguard({"investment_transactions"},
          "ck_investment_transactions_yield_amount_fee"),
    Unguard({"investment_transactions"}, "ck_investment_transactions_type"),
    Guard("investment_transactions", "ck_investment_transactions_type",
          {Like({Yield})})>>

UpAgentAttachments ==
  <<Owned("agent_attachments", {"message_id", "name", "media_type", "size",
          "data"}, {<<"message_id", "agent_messages">>})>>

DownAgentAttachments ==
  <<Drop("agent_attachments")>>

UpInvestmentExistingPosition ==
  <<Defaulted("investment_transactions", {"existing_position"}),
    Guard("investment_transactions",
          "ck_investment_transactions_existing_position_buy", {})>>

DownInvestmentExistingPosition ==
  <<Unguard({"investment_transactions"},
          "ck_investment_transactions_existing_position_buy"),
    Cut("investment_transactions", {"existing_position"})>>

UpMcpTokens ==
  <<Owned("mcp_tokens", {"token_hash", "scope", "name", "expires_at",
          "last_used_at", "revoked_at"}, {})>>

DownMcpTokens ==
  <<Drop("mcp_tokens")>>

(* down_revision links the files into one line; entry n is revision n. *)
Chain ==
  <<<<UpBaseline, DownBaseline>>,
    <<UpIdentity, DownIdentity>>,
    <<UpWesternCurrencies, DownWesternCurrencies>>,
    <<UpInstitutionsAndAccounts, DownInstitutionsAndAccounts>>,
    <<UpCategoriesAndBudgets, DownCategoriesAndBudgets>>,
    <<UpTransactions, DownTransactions>>,
    <<UpManualRatesAndGoals, DownManualRatesAndGoals>>,
    <<UpLocaleCurrencies, DownLocaleCurrencies>>,
    <<UpBaseCurrency, DownBaseCurrency>>,
    <<UpRecurringRulePosting, DownRecurringRulePosting>>,
    <<UpAgentCredentials, DownAgentCredentials>>,
    <<UpReasoningEffort, DownReasoningEffort>>,
    <<UpInvestmentsEnabled, DownInvestmentsEnabled>>,
    <<UpInvestmentDomain, DownInvestmentDomain>>,
    <<UpMarketDataCredentials, DownMarketDataCredentials>>,
    <<UpCategoryGroups, DownCategoryGroups>>,
    <<UpCategorizationRules, DownCategorizationRules>>,
    <<UpLoans, DownLoans>>,
    <<UpTwoFactor, DownTwoFactor>>,
    <<UpAgentConversations, DownAgentConversations>>,
    <<UpCreditCardInvoices, DownCreditCardInvoices>>,
    <<UpTransactionInstallments, DownTransactionInstallments>>,
    <<UpCustomInstructions, DownCustomInstructions>>,
    <<UpWebauthnCredentials, DownWebauthnCredentials>>,
    <<UpLoanImprovements, DownLoanImprovements>>,
    <<UpPasswordLockout, DownPasswordLockout>>,
    <<UpTransactionIndexes, DownTransactionIndexes>>,
    <<UpImportIdempotency, DownImportIdempotency>>,
    <<UpJobRuns, DownJobRuns>>,
    <<UpTransactionHistory, DownTransactionHistory>>,
    <<UpReconciliation, DownReconciliation>>,
    <<UpChangeJournal, DownChangeJournal>>,
    <<UpAgentMemories, DownAgentMemories>>,
    <<UpCoingeckoQuotes, DownCoingeckoQuotes>>,
    <<UpQuoteCacheProvider, DownQuoteCacheProvider>>,
    <<UpCategoryColorFollowsGroup, DownCategoryColorFollowsGroup>>,
    <<UpInvestmentYield, DownInvestmentYield>>,
    <<UpAgentAttachments, DownAgentAttachments>>,
    <<UpInvestmentExistingPosition, DownInvestmentExistingPosition>>,
    <<UpMcpTokens, DownMcpTokens>>>>

Up(n) == Chain[n][1]
Down(n) == Chain[n][2]
Newest == Len(Chain)

--------------------------------------------------------------------------------
VARIABLES
  db,        \* the committed database, with its revision
  tx,        \* the open transaction of `alembic upgrade head`, or None
  written,   \* the sets of rows the application has written
  refused    \* <<"up" or "down", revision>>: the migrations that failed

migrationVars == <<db, tx, written, refused>>

None == [ok |-> FALSE, rev |-> 0]

EmptyDb == [ok |-> TRUE, rev |-> 0, tabs |-> {}, cols |-> {}, refs |-> {},
            guards |-> {}, rows |-> {}]

MigrationInit ==
  /\ db = EmptyDb
  /\ tx = None
  /\ written = {}
  /\ refused = {}

(* docker-entrypoint.sh: only the api container migrates, before it serves. *)
StartUpgrade ==
  /\ tx = None
  /\ db.rev < Newest
  /\ tx' = db
  /\ UNCHANGED <<db, written, refused>>

(* One upgrade() inside the single transaction env.py opens around all of   *)
(* them.                                                                    *)
UpgradeStep ==
  /\ tx # None
  /\ tx.rev < Newest
  /\ LET next == Perform(Up(tx.rev + 1), tx) IN
       IF next.ok
       THEN /\ tx' = [next EXCEPT !.rev = tx.rev + 1]
            /\ UNCHANGED refused
       ELSE /\ tx' = None
            /\ refused' = refused \cup {<<"up", tx.rev + 1>>}
  /\ UNCHANGED <<db, written>>

CommitUpgrade ==
  /\ tx # None
  /\ tx.rev = Newest
  /\ db' = tx
  /\ tx' = None
  /\ UNCHANGED <<written, refused>>

(* The container is killed while it migrates: the transaction is gone. *)
KilledWhileMigrating ==
  /\ tx # None
  /\ tx' = None
  /\ UNCHANGED <<db, written, refused>>

(* The operator runs `alembic downgrade -1`. *)
Downgrade ==
  /\ tx = None
  /\ db.rev > 0
  /\ LET next == Perform(Down(db.rev), db) IN
       IF next.ok
       THEN /\ db' = [next EXCEPT !.rev = db.rev - 1]
            /\ UNCHANGED refused
       ELSE /\ refused' = refused \cup {<<"down", db.rev>>}
            /\ UNCHANGED db
  /\ UNCHANGED <<tx, written>>

(* The application stores rows.  This repository has it at the newest       *)
(* revision only; what an older release stored at its own is taken from the *)
(* schema of that revision.                                                 *)
AppWrites(w) ==
  /\ tx = None
  /\ db.rev = w.rev
  /\ w \notin written
  /\ Cardinality(written) < MaxSchemaWrites
  /\ db' = [db EXCEPT !.rows = @ \cup w.rows]
  /\ written' = written \cup {w}
  /\ UNCHANGED <<tx, refused>>

MigrationNext ==
  \/ StartUpgrade
  \/ UpgradeStep
  \/ CommitUpgrade
  \/ KilledWhileMigrating
  \/ Downgrade
  \/ \E w \in WrittenRows : AppWrites(w)

MigrationSpec == MigrationInit /\ [][MigrationNext]_migrationVars

--------------------------------------------------------------------------------
(* The database that the upgrades alone build. *)
Schema(d) == [tabs |-> d.tabs, cols |-> d.cols, refs |-> d.refs,
              guards |-> d.guards]
Built ==
  LET at[n \in 0 .. Newest] ==
        IF n = 0 THEN EmptyDb
        ELSE LET before == at[n - 1] IN
             IF before.ok THEN Perform(Up(n), before) ELSE before
  IN  [n \in 0 .. Newest |-> at[n]]

(* No upgrade is refused on the rows in WrittenRows, most of them stored at *)
(* the newest revision before the database was taken down: new NOT NULL     *)
(* columns are defaulted or filled first, new checks and keys hold of the   *)
(* rows that are there, and nothing is deleted that another row names.  A   *)
(* downgrade is refused in two places only: where stored rows use a         *)
(* currency that the revision seeded, as the seed's docstring announces     *)
(* (47379d62fa35, 6f3d1c2e4a7b), and where a check of the older revision    *)
(* knows no name for what the newer one allowed: yields (e9a1b2c3d4e5) and  *)
(* the numbers a deleted loan leaves on its payments (f3a4b5c6d7e8).        *)
RefusedOnlyForNewValues == refused \subseteq {"down"} \X {3, 8, 25, 37}

(* Whatever the walk of upgrades, downgrades, kills and refusals, a         *)
(* committed database has exactly the schema of its revision number: every  *)
(* downgrade() undoes its upgrade() to the last column, key and check.      *)
SchemaFollowsRevision == Schema(db) = Schema(Built[db.rev])

(* The revisions arrive at the schema the ORM classes declare, which is the *)
(* one the tests run on.                                                    *)
NewestIsTheModels ==
  db.rev = Newest => /\ db.tabs = ModelTables
                   /\ db.cols = ModelColumns
                   /\ db.refs = ModelKeys

(* The schema is the one its revision stands for, and the newest is the     *)
(* one the application was written for.                                     *)
SchemaIsRight == SchemaFollowsRevision /\ NewestIsTheModels

(* A top-level category that nothing is filed under goes when the groups     *)
(* come: its group has its place.  So does a budget that the group has       *)
(* twice in one month, or an allocation, that is not the top-level's.        *)
TopOf(r, d) ==
  CHOOSE c \in Tops(d) : \/ Get(c, "id") = Get(r, "category_id")
                        \/ \E q \in Of("categories", {<<"id", Get(r, "category_id")>>}, d) :
                             <<"parent_id", Get(c, "id")>> \in q.f
Doubled(r, d) ==
  \E q \in Of(r.t, {}, d) \ {r} :
    /\ TopOf(q, d) = TopOf(r, d)
    /\ r.t = "budgets" => Shares(q, r, "month")
    /\ OfTop(q, d) \/ ~OfTop(r, d)
Dispensable(r, d) ==
  /\ <<"categories", "parent_id">> \in d.cols
  /\ \/ r \in Tops(d) /\ ~Used(r, d)
     \/ r.t \in {"budgets", "budget_allocations"} /\ Doubled(r, d)

(* The group a category, budget or allocation belongs to, by its name: the  *)
(* row in category_groups, or the top-level category.                       *)
GroupName(r, d) ==
  CASE r.t \notin {"categories", "budgets", "budget_allocations"} -> ""
    [] "category_groups" \in d.tabs ->
         Get(CHOOSE g \in Of("category_groups", {}, d) : Get(g, "id") = Get(r, "group_id"), "name")
    [] r \in Tops(d) -> Get(r, "name")
    [] r.t = "categories" -> Get(CHOOSE c \in Tops(d) : Get(c, "id") = Get(r, "parent_id"), "name")
    [] OTHER -> Get(TopOf(r, d), "name")

(* No committed migration loses a row of a table that stays, nor moves a    *)
(* category, a budget or an allocation to another group, with the           *)
(* exceptions that the revision of the category groups makes                *)
(* (b2c3d4e5f6a1:128-150, 180-202, 226-243): unused top-level categories    *)
(* and budgets and allocations that a group would have twice.  The quotes   *)
(* that are cached, keys of a provider the older revision does not know and *)
(* seeded currencies may go.                                                *)
Disposable == {"asset_quotes", "market_data_credentials", "currencies"}
NoRowsLost ==
  [][\A r \in db.rows :
       \/ r.t \notin db'.tabs \ Disposable
       \/ Dispensable(r, db)
       \/ \E q \in db'.rows : /\ q.t = r.t /\ Shares(q, r, "id")
                              /\ GroupName(q, db') = GroupName(r, db)]_db
================================================================================
