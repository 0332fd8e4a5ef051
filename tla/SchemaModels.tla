----------------------------- MODULE SchemaModels -----------------------------
(***************************************************************************)
(* The ORM classes of backend/app/models: for each table its columns and   *)
(* its foreign keys.  The test suite builds its database from these        *)
(* (Base.metadata.create_all), a deployment from the Alembic revisions.    *)
(***************************************************************************)
EXTENDS Naturals

ConversionColumns == {"conversion_amount", "conversion_currency",
  "conversion_fee", "conversion_rate", "conversion_source"}

TemplateConversion == {"template_conversion_amount",
  "template_conversion_currency", "template_conversion_fee",
  "template_conversion_rate", "template_conversion_source"}

(* Base classes: TimestampMixin, UUIDPrimaryKeyMixin and UserOwnedModel. *)
StampedModel(t, cs, fks) ==
  [t |-> t, cs |-> cs \cup {"created_at", "updated_at"}, fks |-> fks]
PlainModel(t, cs, fks) == StampedModel(t, cs \cup {"id"}, fks)
OwnedModel(t, cs, fks) ==
  PlainModel(t, cs \cup {"user_id"}, fks \cup {<<"user_id", "users">>})

AccountModel ==
  OwnedModel("accounts", {"name", "type", "currency", "opening_balance",
    "institution_id", "archived", "credit_limit", "closing_day", "due_day",
    "payment_account_id", "auto_pay"}, {<<"currency", "currencies">>,
    <<"institution_id", "institutions">>,
    <<"payment_account_id", "accounts">>})

AgentAttachmentModel ==
  OwnedModel("agent_attachments", {"message_id", "name", "media_type", "size",
    "data"}, {<<"message_id", "agent_messages">>})

AgentConversationModel ==
  OwnedModel("agent_conversations", {"title", "provider", "model", "status",
    "pending_call_id"}, {})

AgentCredentialModel ==
  OwnedModel("agent_credentials", {"provider", "auth_mode",
    "secret_ciphertext", "refresh_ciphertext", "expires_at", "account_id",
    "account_label", "base_url", "model", "reasoning_effort"}, {})

AgentMemoryModel ==
  OwnedModel("agent_memories", {"content"}, {})

AgentMessageModel ==
  OwnedModel("agent_messages", {"conversation_id", "role", "content",
    "tool_calls", "tool_call_id", "tool_name", "is_error", "position"},
    {<<"conversation_id", "agent_conversations">>})

BudgetModel ==
  OwnedModel("budgets", {"group_id", "month", "amount", "currency"},
    {<<"group_id", "category_groups">>, <<"currency", "currencies">>})

BudgetAllocationModel ==
  OwnedModel("budget_allocations", {"group_id", "percentage"},
    {<<"group_id", "category_groups">>})

ExpectedIncomeModel ==
  OwnedModel("expected_income", {"month", "amount", "currency"},
    {<<"currency", "currencies">>})

CategorizationRuleModel ==
  OwnedModel("categorization_rules", {"name", "priority", "is_active",
    "match_op", "conditions", "category_id"},
    {<<"category_id", "categories">>})

CategoryModel ==
  OwnedModel("categories", {"name", "kind", "group_id", "color", "icon",
    "position"}, {<<"group_id", "category_groups">>})

CategoryGroupModel ==
  OwnedModel("category_groups", {"name", "kind", "color", "icon", "position"},
    {})

ChangeJournalModel ==
  OwnedModel("change_journal", {"seq", "agent_call_id", "conversation_id",
    "table_name", "row_id", "operation", "before", "after", "undone_at"},
    {<<"conversation_id", "agent_conversations">>})

CurrencyModel ==
  StampedModel("currencies", {"code", "name", "symbol", "decimal_digits",
    "is_active"}, {})

ExchangeRateModel ==
  PlainModel("exchange_rates", {"base_code", "quote_code", "rate", "as_of", "source"},
    {<<"base_code", "currencies">>, <<"quote_code", "currencies">>})

GoalModel ==
  OwnedModel("goals", {"account_id", "name", "target_amount", "currency",
    "target_date", "frequency", "interval", "archived"},
    {<<"account_id", "accounts">>, <<"currency", "currencies">>})

ImportIdempotencyModel ==
  OwnedModel("import_idempotency", {"key", "request_hash", "created_count"},
    {})

InstitutionModel ==
  OwnedModel("institutions", {"name", "icon", "color", "archived",
    "position"}, {})

InvestmentWalletModel ==
  OwnedModel("investment_wallets", {"account_id", "name", "currency",
    "cash_account_id", "institution_id", "archived"},
    {<<"account_id", "accounts">>, <<"currency", "currencies">>,
    <<"cash_account_id", "accounts">>, <<"institution_id", "institutions">>})

InvestmentAssetModel ==
  OwnedModel("investment_assets", {"symbol", "name", "asset_class",
    "currency", "quote_provider", "manual_price", "archived"},
    {<<"currency", "currencies">>})

InvestmentTransactionModel ==
  OwnedModel("investment_transactions", {"wallet_id", "asset_id", "type",
    "date", "quantity", "price", "amount", "fee", "currency",
    "transaction_id", "existing_position", "notes"},
    {<<"wallet_id", "investment_wallets">>,
    <<"asset_id", "investment_assets">>, <<"currency", "currencies">>,
    <<"transaction_id", "transactions">>})

AssetQuoteModel ==
  PlainModel("asset_quotes", {"symbol", "currency", "price", "as_of",
    "source"}, {<<"currency", "currencies">>})

MarketDataCredentialModel ==
  OwnedModel("market_data_credentials", {"provider", "secret_ciphertext"}, {})

JobRunModel ==
  PlainModel("job_runs", {"name", "started_at", "finished_at", "status",
    "processed", "failed", "error_type"}, {})

LoanModel ==
  OwnedModel("loans", {"name", "category_id", "currency", "amount_borrowed",
    "fees", "interest_rate", "rate_period", "installment_count",
    "installment_amount", "contracted_installment_amount",
    "first_payment_date", "auto_post", "payment_account_id", "notes",
    "archived"}, {<<"category_id", "categories">>,
    <<"currency", "currencies">>, <<"payment_account_id", "accounts">>})

ManualRateModel ==
  OwnedModel("manual_rates", {"base_code", "quote_code", "rate", "as_of"},
    {<<"base_code", "currencies">>, <<"quote_code", "currencies">>})

McpTokenModel ==
  PlainModel("mcp_tokens", {"user_id", "token_hash", "scope", "name",
    "expires_at", "last_used_at", "revoked_at"}, {<<"user_id", "users">>})

ReconciliationModel ==
  OwnedModel("reconciliations", {"account_id", "statement_date",
    "statement_balance", "currency", "status", "completed_at"},
    {<<"account_id", "accounts">>, <<"currency", "currencies">>})

ReconciliationEntryModel ==
  OwnedModel("reconciliation_entries", {"reconciliation_id", "transaction_id",
    "account_id"}, {<<"reconciliation_id", "reconciliations">>,
    <<"transaction_id", "transactions">>, <<"account_id", "accounts">>})

RecurringRuleModel ==
  OwnedModel("recurring_rules", {"frequency", "interval", "start_date",
    "end_date", "last_posted_date", "template_type", "template_amount",
    "template_currency", "template_account_id", "template_to_account_id",
    "template_category_id", "template_description", "template_notes"} \cup
    TemplateConversion, {<<"template_currency", "currencies">>,
    <<"template_account_id", "accounts">>,
    <<"template_to_account_id", "accounts">>,
    <<"template_category_id", "categories">>,
    <<"template_conversion_currency", "currencies">>})

TotpBackupCodeModel ==
  PlainModel("totp_backup_codes", {"user_id", "code_hash", "used_at"},
    {<<"user_id", "users">>})

TrustedDeviceModel ==
  PlainModel("trusted_devices", {"user_id", "token_hash", "expires_at",
    "revoked_at"}, {<<"user_id", "users">>})

TransactionModel ==
  OwnedModel("transactions", {"type", "date", "amount", "currency",
    "account_id", "to_account_id", "category_id", "description", "notes",
    "recurring_rule_id", "loan_id", "card_invoice_close_date",
    "installment_group_id", "installment_number", "installment_count"} \cup
    ConversionColumns, {<<"currency", "currencies">>,
    <<"account_id", "accounts">>, <<"to_account_id", "accounts">>,
    <<"category_id", "categories">>,
    <<"recurring_rule_id", "recurring_rules">>, <<"loan_id", "loans">>,
    <<"conversion_currency", "currencies">>})

TransactionHistoryModel ==
  OwnedModel("transaction_history", {"transaction_id", "operation", "source",
    "batch_id", "before", "after"}, {<<"batch_id", "import_idempotency">>})

UserModel ==
  PlainModel("users", {"email", "normalized_email", "password_hash",
    "display_name", "role", "is_active", "password_failed_attempts",
    "password_locked_until", "totp_secret_ciphertext", "totp_confirmed_at",
    "totp_last_step", "totp_failed_attempts", "totp_locked_until", "locale",
    "theme", "base_currency", "display_currency", "investments_enabled",
    "ai_chat_enabled", "balances_hidden", "ai_custom_instructions"},
    {<<"base_currency", "currencies">>, <<"display_currency", "currencies">>})

SessionModel ==
  PlainModel("sessions", {"user_id", "token_hash", "csrf_token_hash",
    "expires_at", "revoked_at", "last_seen_at"}, {<<"user_id", "users">>})

InvitationModel ==
  PlainModel("invitations", {"email", "normalized_email", "role",
    "token_hash", "expires_at", "invited_by", "accepted_at", "revoked_at"},
    {<<"invited_by", "users">>})

WebAuthnCredentialModel ==
  PlainModel("webauthn_credentials", {"user_id", "credential_id",
    "public_key", "sign_count", "rp_id", "transports", "name",
    "last_used_at"}, {<<"user_id", "users">>})

WebAuthnChallengeModel ==
  PlainModel("webauthn_challenges", {"challenge", "user_id", "purpose",
    "rp_id", "origin", "expires_at", "consumed_at"}, {<<"user_id", "users">>})

(* Base.metadata. *)
Models ==
  {AccountModel, AgentAttachmentModel, AgentConversationModel,
   AgentCredentialModel, AgentMemoryModel, AgentMessageModel, BudgetModel,
   BudgetAllocationModel, ExpectedIncomeModel, CategorizationRuleModel,
   CategoryModel, CategoryGroupModel, ChangeJournalModel, CurrencyModel,
   ExchangeRateModel, GoalModel, ImportIdempotencyModel, InstitutionModel,
   InvestmentWalletModel, InvestmentAssetModel, InvestmentTransactionModel,
   AssetQuoteModel, MarketDataCredentialModel, JobRunModel, LoanModel,
   ManualRateModel, McpTokenModel, ReconciliationModel,
   ReconciliationEntryModel, RecurringRuleModel, TotpBackupCodeModel,
   TrustedDeviceModel, TransactionModel, TransactionHistoryModel, UserModel,
   SessionModel, InvitationModel, WebAuthnCredentialModel,
   WebAuthnChallengeModel}

ModelTables == {m.t : m \in Models}
ModelColumns == UNION {{<<m.t, c>> : c \in m.cs} : m \in Models}
ModelKeys == UNION {{<<m.t, k[1], k[2]>> : k \in m.fks} : m \in Models}
================================================================================
