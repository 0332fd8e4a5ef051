-------------------------------- MODULE MCMoney --------------------------------
(* What a user keeps around the ledger: the invoices of a card, the trades  *)
(* of an investment wallet, and backups of it all.  They share no state     *)
(* here: a behaviour is one of any of them.  "tables" is a backup of any    *)
(* two tables with a foreign key between them, while nobody writes, one     *)
(* request after the other.                                                 *)
EXTENDS CardInvoices, Investments, Backups, TLC

MCMonths == <<3, 2, 3>>

MCGroups ==
  UNION { { {t, u} : u \in References(t) } : t \in ToSet(BACKUP_TABLES) }

LedgerTables == {"accounts", "transactions"}

MCSymmetry == Permutations(Handlers)

VARIABLE part

MoneyInit ==
  /\ CardInit
  /\ InvestInit
  /\ BackupInit
  /\ part \in {"card", "wallet", "backups", "tables"}
  /\ part # "card" => closingDay = Min(ClosingDays) /\ planned = {}
  /\ part # "wallet" => cash
  /\ part # "tables" => group = LedgerTables
  /\ part \notin {"backups", "tables"} => rows = {}

(* Bound: a card is followed as long as one of its properties says          *)
(* something about it; what makes them silent never goes away.              *)
Telling == ~(slipped /\ (adjusted \/ redrawn))

MoneyNext ==
  \/ part = "card" /\ Telling /\ CardNext /\ UNCHANGED <<investVars, backupVars, part>>
  \/ part = "wallet" /\ InvestNext /\ UNCHANGED <<cardVars, backupVars, part>>
  \/ part = "backups" /\ BackupNext /\ UNCHANGED <<cardVars, investVars, part>>
  \/ /\ part = "tables"
     /\ \E h \in Handlers : /\ \A i \in Handlers \ {h} : request[i].at = "idle"
                            /\ BackupStep(h)
     /\ UNCHANGED <<cardVars, investVars, part>>

MoneySpec ==
  MoneyInit /\ [][MoneyNext]_<<cardVars, investVars, backupVars, part>>
================================================================================
