--------------------------------- MODULE Rates ---------------------------------
(***************************************************************************)
(* Exchange rates and the conversions that were recorded without one       *)
(* (services/exchange_rates.py, manual_rates.py, rate_backfill.py).        *)
(*                                                                         *)
(* The cache holds the provider's rates of whole dates.  A transaction     *)
(* saved when no rate was known carries the source fallback; the nightly   *)
(* run loads those, walks them by date, asks the provider for the dates it *)
(* lacks, within a budget, and writes what it found over the rows: each    *)
(* write holds its row from then on, and all of them commit at the end.    *)
(* One pair of currencies and one user, whose rates for the pair, direct   *)
(* or inverse, are in manual.                                              *)
(***************************************************************************)
EXTENDS Integers, FiniteSets, FiniteSetsExt

CONSTANTS
  RateDates,           \* dates of transactions and rates, the last is today
  Entries,             \* transactions between two currencies
  Unquoted,            \* those with a currency the provider does not quote
  Inactive,            \* those to a currency that is not active any more
  Dead,                \* dates the provider never answers for
  MaxProviderDates,    \* MAX_PROVIDER_DATES
  MaxEdits             \* bound: what users and faults do

ASSUME RateAssumption ==
  /\ RateDates \subseteq Nat /\ IsFiniteSet(RateDates) /\ RateDates # {}
  /\ Unquoted \subseteq Entries /\ Inactive \subseteq Entries /\ Dead \subseteq RateDates
  /\ MaxProviderDates \in Nat \ {0} /\ MaxEdits \in Nat

VARIABLES
  key,                 \* is a provider key configured?
  cached,              \* dates with rows in exchange_rates
  manual,              \* dates from which a manual rate applies
  entries,             \* entry -> its row
  night,               \* the backfill in progress
  edits                \* edits so far

rateVars == <<key, cached, manual, entries, night, edits>>

Today == Max(RateDates)
Sources == {"fallback", "manual", "quote"}
Row == [live : BOOLEAN, date : RateDates, source : Sources]

(* rows: entry -> the date of the row as loaded (0: not loaded, or done);   *)
(* found: dates fetched; held: entry -> the source written.                 *)
NoNight == [on |-> FALSE, rows |-> [e \in Entries |-> 0], done |-> {}, spent |-> 0,
            found |-> {}, held |-> [e \in Entries |-> "none"]]

(* get_exchange_rate, to_conversion_source: the newest manual rate by the   *)
(* date, else the newest cached one, else 1:1.                              *)
ConversionSource(e, date, known) ==
  IF \E d \in manual : d <= date THEN "manual"
  ELSE IF e \notin Unquoted /\ \E d \in known : d <= date THEN "quote"
  ELSE "fallback"

(* An instance without a key so far: what was recorded is at the fallback. *)
RateInit ==
  /\ key = FALSE
  /\ cached = {}
  /\ manual = {}
  /\ entries \in [Entries -> [live : {TRUE}, date : RateDates, source : {"fallback"}]]
  /\ night = NoNight
  /\ edits = 0

--------------------------------------------------------------------------------
(* What users and the other jobs do. *)

Edit ==
  /\ edits < MaxEdits
  /\ edits' = edits + 1

Free(e) == night.held[e] = "none"

(* A transaction is recorded with the rate of its date; a conversion to a   *)
(* currency that is not active is refused.                                  *)
Record(e, d) ==
  /\ Edit
  /\ e \notin Inactive
  /\ ~entries[e].live
  /\ entries' = [entries EXCEPT ![e] =
       [live |-> TRUE, date |-> d, source |-> ConversionSource(e, d, cached)]]
  /\ UNCHANGED <<key, cached, manual, night>>

(* An edit: the conversion is the user's own, found anew if it was the      *)
(* fallback, and else kept.                                                 *)
EditEntry(e, d, s) ==
  /\ Edit
  /\ e \notin Inactive
  /\ entries[e].live
  /\ Free(e)
  /\ entries' = [entries EXCEPT ![e] = [live |-> TRUE, date |-> d, source |-> s]]
  /\ UNCHANGED <<key, cached, manual, night>>

DeleteEntry(e) ==
  /\ Edit
  /\ entries[e].live
  /\ Free(e)
  /\ entries' = [entries EXCEPT ![e].live = FALSE]
  /\ UNCHANGED <<key, cached, manual, night>>

UpsertManualRate(d) ==
  /\ Edit
  /\ manual' = manual \cup {d}
  /\ UNCHANGED <<key, cached, entries, night>>

DeleteManualRate(d) ==
  /\ Edit
  /\ d \in manual
  /\ manual' = manual \ {d}
  /\ UNCHANGED <<key, cached, entries, night>>

ConfigureKey ==
  /\ ~key
  /\ key' = TRUE
  /\ UNCHANGED <<cached, manual, entries, night, edits>>

(* refresh_rates of today: by the job, by ensure_rates_cached when today is *)
(* not cached, or by the administrator, whose cooldown may be over at any   *)
(* time.  A request that fails changes nothing.                             *)
RefreshRates(by) ==
  /\ key
  /\ Today \notin Dead
  /\ by = "ensure" => Today \notin cached
  /\ cached' = cached \cup {Today}
  /\ UNCHANGED <<key, manual, entries, night, edits>>

--------------------------------------------------------------------------------
(* backfill_fallback_conversions. *)

Waiting == {e \in Entries : entries[e].live /\ entries[e].source = "fallback"}

StartBackfill ==
  /\ ~night.on
  /\ Waiting # {}
  /\ night' = [NoNight EXCEPT !.on = TRUE,
       !.rows = [e \in Entries |-> IF e \in Waiting THEN entries[e].date ELSE 0]]
  /\ UNCHANGED <<key, cached, manual, entries, edits>>

Turn(e) ==
  /\ night.on
  /\ night.rows[e] # 0
  /\ \A f \in Entries : night.rows[f] # 0 => night.rows[e] <= night.rows[f]

(* mutant: a date that is cached counts against the budget as well *)
CostsAll(d) == d \notin night.done

(* has_cached_rates: exactly this date, and this run's own rows as well. *)
Costs(d) == d \notin night.done \cup cached \cup night.found

(* The next row.  Its date is free, over the budget (then the row is left   *)
(* for another night), or worth a request, which may fail; then the rate is *)
(* looked up and the row, if there is a rate and the conversion is not      *)
(* refused, written.  A row that was deleted meanwhile fails the run, which *)
(* takes back what it wrote.                                                *)
Heal(e, answers) ==
  LET d == night.rows[e]
      asks == Costs(d)
      over == asks /\ night.spent >= MaxProviderDates
      found == IF asks /\ answers THEN night.found \cup {d} ELSE night.found
      source == ConversionSource(e, d, cached \cup found)
      left == [night EXCEPT !.rows = [night.rows EXCEPT ![e] = 0]]
      walked == [left EXCEPT !.done = night.done \cup {d}, !.found = found,
                             !.spent = night.spent + IF asks THEN 1 ELSE 0]
  IN
  /\ Turn(e)
  /\ answers => asks /\ ~over /\ key /\ d \notin Dead
  /\ night' =
       IF over THEN left
       ELSE IF source = "fallback" \/ e \in Inactive THEN walked
       ELSE IF ~entries[e].live THEN NoNight
       ELSE [walked EXCEPT !.held = [night.held EXCEPT ![e] = source]]
  /\ UNCHANGED <<key, cached, manual, entries, edits>>

(* The commit, the cache included.  The date of a row stays what the user   *)
(* made it meanwhile, its conversion does not.                              *)
EndBackfill ==
  /\ night.on
  /\ \A e \in Entries : night.rows[e] = 0
  /\ cached' = cached \cup night.found
  /\ entries' = [e \in Entries |->
       IF Free(e) THEN entries[e] ELSE [entries[e] EXCEPT !.source = night.held[e]]]
  /\ night' = NoNight
  /\ UNCHANGED <<key, manual, edits>>

(* The worker's time limit, or a crash. *)
KillBackfill ==
  /\ Edit
  /\ night.on
  /\ night' = NoNight
  /\ UNCHANGED <<key, cached, manual, entries>>

RateNext ==
  \/ \E e \in Entries, d \in RateDates : Record(e, d)
  \/ \E e \in Entries, d \in RateDates :
       \E s \in {"manual", IF e \in Waiting THEN ConversionSource(e, d, cached)
                           ELSE entries[e].source} : EditEntry(e, d, s)
  \/ \E e \in Entries : DeleteEntry(e)
  \/ \E d \in RateDates : UpsertManualRate(d) \/ DeleteManualRate(d)
  \/ ConfigureKey
  \/ \E by \in {"job", "ensure", "manual"} : RefreshRates(by)
  \/ StartBackfill
  \/ \E e \in Entries, answers \in BOOLEAN : Heal(e, answers)
  \/ EndBackfill
  \/ KillBackfill

(* The job runs every night and ends; a date the provider can answer for is *)
(* answered sooner or later when it is asked for night after night.         *)
RateFairness ==
  /\ WF_rateVars(StartBackfill)
  /\ WF_rateVars(\E e \in Entries, answers \in BOOLEAN : Heal(e, answers))
  /\ WF_rateVars(EndBackfill)
  /\ \A d \in RateDates \ Dead :
       SF_rateVars(\E e \in Entries : night.rows[e] = d /\ Heal(e, TRUE))

RateSpec == RateInit /\ [][RateNext]_rateVars /\ RateFairness

--------------------------------------------------------------------------------
(* Once a key is configured, every conversion recorded at the 1:1 fallback  *)
(* heals, a few dates a night, unless the provider does not quote it or its *)
(* destination is not active any more; and such rows, which are walked      *)
(* every night, dates that are never answered for (fewer than the budget),  *)
(* killed runs and edits do not keep it from it: dates that cost nothing    *)
(* must not use the budget up.                                              *)
FallbackHeals ==
  \A e \in Entries \ (Unquoted \cup Inactive) :
    (key /\ e \in Waiting) ~> (e \notin Waiting \/ entries[e].date \in Dead)
================================================================================
