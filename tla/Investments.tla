------------------------------ MODULE Investments ------------------------------
(***************************************************************************)
(* The trades of one investment wallet (services/investments.py,           *)
(* services/investment_positions.py).  Holdings are not stored: they are   *)
(* the fold of an asset's trades by date, which fails when a sale comes    *)
(* before what it sells.  A purchase or sale settles through the wallet's  *)
(* cash account with a transfer, the leg the trade refers to.              *)
(*                                                                         *)
(* A request loads the trade, validates, and reads the old leg; later it   *)
(* writes legs and trade, folds the ledger again where the code does, and  *)
(* commits.  Nothing locks the ledger of an asset between the two, so      *)
(* other requests may run meanwhile: one request at a time is between its  *)
(* two halves (pending), the others are done at once.                      *)
(***************************************************************************)
EXTENDS Integers, FiniteSets, FiniteSetsExt

CONSTANTS
  Assets,          \* investment_assets
  TradeDates,      \* dates of trades
  Quantities,      \* quantities traded
  MaxTrades,       \* bound: trades
  MaxCommits       \* bound: requests that write

ASSUME InvestmentAssumption ==
  /\ TradeDates \subseteq Nat /\ Quantities \subseteq Nat \ {0}
  /\ MaxTrades \in Nat /\ MaxCommits \in Nat

VARIABLES
  trades,          \* place in the order of creation -> row
  legs,            \* transfers of source investment
  cash,            \* does the wallet have a cash account?
  pending,         \* the request that has validated and not yet written
  commits,         \* requests that wrote so far
  overlapped,      \* history: did a request commit what it checked too early?
  backdated        \* history: was a sale entered behind later trades?

investVars == <<trades, legs, cash, pending, commits, overlapped, backdated>>

Places == 1 .. MaxTrades
Settled == {"buy", "sell"}

(* _validate_shape: quantities are for purchases and sales.  Dividends and  *)
(* fees, which are neither folded nor settled, are left out.                *)
Terms ==
  [type : Settled, asset : Assets, date : TradeDates, qty : Quantities]
    \cup [type : {"yield"}, asset : Assets, date : TradeDates, qty : {0}]

NoTerms == [type |-> "none", asset |-> "none", date |-> 0, qty |-> 0]
NoTrade == [terms |-> NoTerms, existing |-> FALSE, leg |-> 0]
NoRequest == [op |-> "none", place |-> 0, copy |-> NoTrade, terms |-> NoTerms,
              existing |-> FALSE, settles |-> FALSE, stale |-> FALSE]

--------------------------------------------------------------------------------
(* Positions. *)

Of(ts, a) == {i \in DOMAIN ts : ts[i].terms.type # "none" /\ ts[i].terms.asset = a}

Signed(t) == CASE t.terms.type = "buy" -> t.terms.qty
               [] t.terms.type = "sell" -> 0 - t.terms.qty
               [] OTHER -> 0

Net(ts, is) == SumFunctionOnSet([i \in DOMAIN ts |-> Signed(ts[i])], is)

(* What is held when a row's turn comes: rows go by date, then creation. *)
HeldBefore(ts, i) ==
  Net(ts, {j \in Of(ts, ts[i].terms.asset) :
             \/ ts[j].terms.date < ts[i].terms.date
             \/ ts[j].terms.date = ts[i].terms.date /\ j < i})

(* _fold *)
Folds(ts, a) ==
  \A i \in Of(ts, a) :
    /\ ts[i].terms.type = "sell" => HeldBefore(ts, i) >= ts[i].terms.qty
    /\ ts[i].terms.type = "yield" => HeldBefore(ts, i) > 0

(* get_position *)
Position(ts, a) == Net(ts, Of(ts, a))

(* _validate_transaction, with the row itself left out. *)
Valid(ts, terms) ==
  /\ terms.type \in {"sell", "yield"} => Folds(ts, terms.asset)
  /\ terms.type = "sell" => terms.qty <= Position(ts, terms.asset)
  /\ terms.type = "yield" => Position(ts, terms.asset) > 0

--------------------------------------------------------------------------------
InvestInit ==
  /\ trades = [i \in Places |-> NoTrade]
  /\ legs = {}
  /\ cash \in BOOLEAN
  /\ pending = NoRequest
  /\ commits = 0
  /\ overlapped = FALSE
  /\ backdated = FALSE

LivePlaces == {i \in Places : trades[i].terms.type # "none"}
Without(i) == [trades EXCEPT ![i] = NoTrade]
NewPlace == 1 + Max({0} \cup LivePlaces)
NewLeg == 1 + Max({0, pending.copy.leg} \cup {l.id : l \in legs})
Leg(id, terms) == [id |-> id, type |-> terms.type, date |-> terms.date,
                   qty |-> terms.qty, own |-> FALSE]
LegOf(r) == IF r.settles THEN {Leg(NewLeg, r.terms)} ELSE {}

--------------------------------------------------------------------------------
(* Requests that pass the validation: _prepare_investment_transaction.      *)

(* A purchase of an existing position moves no cash. *)
Creations ==
  {[NoRequest EXCEPT !.op = "create", !.terms = terms,
      !.settles = cash /\ terms.type \in Settled] :
     terms \in {t \in Terms : Valid(trades, t)}}
  \cup
  {[NoRequest EXCEPT !.op = "create", !.terms = terms, !.existing = TRUE] :
     terms \in {t \in Terms : t.type = "buy"}}

(* _prepare_investment_update; existing_position is not patchable. *)
Updates ==
  UNION {{[NoRequest EXCEPT !.op = "update", !.place = i, !.copy = trades[i],
             !.terms = terms, !.settles = cash /\ terms.type \in Settled] :
            terms \in {t \in Terms \ {trades[i].terms} :
                         /\ trades[i].existing => t.type = "buy"
                         /\ Valid(Without(i), t)}} : i \in LivePlaces}

Deletions ==
  {[NoRequest EXCEPT !.op = "delete", !.place = i, !.copy = trades[i]] : i \in LivePlaces}

--------------------------------------------------------------------------------
(* What a request writes; it is refused when what it would leave is not     *)
(* in order.                                                                *)

(* create_investment_transaction *)
Created(r) ==
  [trades EXCEPT ![NewPlace] = [terms |-> r.terms, existing |-> r.existing,
                                leg |-> IF r.settles THEN NewLeg ELSE 0]]

Create(r) ==
  /\ r.op = "create"
  /\ NewPlace \in Places
  /\ r.terms.type = "yield" => Folds(Created(r), r.terms.asset)
  /\ trades' = Created(r)
  /\ legs' = legs \cup LegOf(r)
  /\ backdated' = (backdated \/
       (r.terms.type = "sell" /\ \E i \in Of(trades, r.terms.asset) :
                                   trades[i].terms.date > r.terms.date))

(* The leg is replaced when what it settles changed, and only if there was  *)
(* one; only the columns that changed are written.                          *)
Resettled(r) ==
  /\ r.copy.leg # 0
  /\ \E f \in {"type", "date", "qty"} : r.terms[f] # r.copy.terms[f]

Updated(r) ==
  LET now == trades[r.place] IN
  [trades EXCEPT ![r.place] =
     [terms |-> [f \in DOMAIN NoTerms |-> IF r.terms[f] # r.copy.terms[f] THEN r.terms[f]
                                          ELSE now.terms[f]],
      existing |-> now.existing,
      leg |-> IF ~Resettled(r) THEN now.leg ELSE IF r.settles THEN NewLeg ELSE 0]]

(* mutant: only the ledger the row is in now is folded *)
UpdateFoldsNew(r) ==
  /\ r.op = "update"
  /\ r.place \in LivePlaces
  /\ Folds(Updated(r), Updated(r)[r.place].terms.asset)
  /\ trades' = Updated(r)
  /\ legs' = IF Resettled(r) THEN {l \in legs : l.id # r.copy.leg} \cup LegOf(r)
             ELSE legs
  /\ UNCHANGED backdated

(* update_investment_transaction: the ledger the row was in and the one it  *)
(* is in now must fold.                                                     *)
Update(r) ==
  /\ r.op = "update"
  /\ r.place \in LivePlaces
  /\ \A a \in {r.copy.terms.asset, Updated(r)[r.place].terms.asset} :
       Folds(Updated(r), a)
  /\ trades' = Updated(r)
  /\ legs' = IF Resettled(r) THEN {l \in legs : l.id # r.copy.leg} \cup LegOf(r)
             ELSE legs
  /\ UNCHANGED backdated

(* delete_investment_transaction *)
Delete(r) ==
  /\ r.op = "delete"
  /\ Folds(Without(r.place), r.copy.terms.asset)
  /\ trades' = Without(r.place)
  /\ legs' = {l \in legs : l.id # r.copy.leg}
  /\ UNCHANGED backdated

Commit(r) ==
  /\ commits < MaxCommits
  /\ commits' = commits + 1
  /\ Create(r) \/ Update(r) \/ Delete(r)

--------------------------------------------------------------------------------
(* A request that takes its time: validated now, ... *)
Begin(r) ==
  /\ pending = NoRequest
  /\ commits < MaxCommits
  /\ pending' = r
  /\ UNCHANGED <<trades, legs, cash, commits, overlapped, backdated>>

(* ... committed later, ... *)
Finish ==
  /\ Commit(pending)
  /\ pending' = NoRequest
  /\ overlapped' = (overlapped \/ pending.stale)
  /\ UNCHANGED cash

(* ... or refused, and rolled back. *)
GiveUp ==
  /\ pending # NoRequest
  /\ pending' = NoRequest
  /\ UNCHANGED <<trades, legs, cash, commits, overlapped, backdated>>

(* A request that is done at once, between the halves of the other. *)
AtOnce(r) ==
  /\ Commit(r)
  /\ pending' = [pending EXCEPT !.stale = pending # NoRequest]
  /\ UNCHANGED <<cash, overlapped>>

(* update_wallet: the cash account is set or cleared. *)
ChangeCashAccount ==
  /\ commits < MaxCommits
  /\ commits' = commits + 1
  /\ cash' = ~cash
  /\ UNCHANGED <<trades, legs, pending, overlapped, backdated>>

(* A leg is a transaction like any other, and its user may edit it. *)
EditLeg(l) ==
  /\ ~l.own
  /\ legs' = (legs \ {l}) \cup {[l EXCEPT !.own = TRUE]}
  /\ UNCHANGED <<trades, cash, pending, commits, overlapped, backdated>>

InvestNext ==
  \/ \E r \in Creations : Begin(r) \/ AtOnce(r)
  \/ \E r \in Updates : Begin(r) \/ AtOnce(r)
  \/ \E r \in Deletions : Begin(r) \/ AtOnce(r)
  \/ Finish
  \/ GiveUp
  \/ ChangeCashAccount
  \/ \E l \in legs : EditLeg(l)

InvestSpec == InvestInit /\ [][InvestNext]_investVars

--------------------------------------------------------------------------------
(* However trades are entered, moved between assets and dates, turned into  *)
(* others and deleted: every leg belongs to one trade and says what it      *)
(* settles, unless its user edited it, and the ledger of every asset folds, *)
(* so that no sale comes before what it sells, unless a sale was entered    *)
(* behind later trades.  Neither is promised to requests that overlap.      *)
InvestmentLedgerSound ==
  ~overlapped =>
    /\ \A l \in legs :
         \E i \in Places :
           /\ {j \in Places : trades[j].leg = l.id} = {i}
           /\ l.own \/ Leg(l.id, trades[i].terms) = l
    /\ ~backdated => \A a \in Assets : Folds(trades, a)
================================================================================
