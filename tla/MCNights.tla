------------------------------- MODULE MCNights -------------------------------
(* What the nightly tasks have to get done in the end: the conversions that *)
(* were recorded without a rate, and the due occurrences of recurring       *)
(* rules.  They share no state: a behaviour is one of either.               *)
EXTENDS Rates, RecurringPosting

VARIABLE part

(* Conversions of different dates wait, to begin with. *)
NightsInit ==
  /\ RateInit
  /\ PostingInit
  /\ part \in {"rates", "recurring"}
  /\ IF part = "rates"
     THEN \A e, f \in Entries : e # f => entries[e].date # entries[f].date
     ELSE \A e \in Entries : entries[e].date = Today

NightsNext ==
  \/ part = "rates" /\ RateNext /\ UNCHANGED <<postingVars, part>>
  \/ part = "recurring" /\ PostingNext /\ UNCHANGED <<rateVars, part>>

(* RateFairness and PostingFairness, each in its own behaviours. *)
NightsFairness ==
  /\ WF_rateVars(part = "rates" /\ StartBackfill)
  /\ WF_rateVars(part = "rates" /\ \E e \in Entries, answers \in BOOLEAN : Heal(e, answers))
  /\ WF_rateVars(part = "rates" /\ EndBackfill)
  /\ \A d \in RateDates \ Dead :
       SF_rateVars(part = "rates" /\ \E e \in Entries : night.rows[e] = d /\ Heal(e, TRUE))
  /\ \A w \in Workers : /\ WF_postingVars(part = "recurring" /\ StartRun(w))
                         /\ WF_postingVars(part = "recurring" /\ WorkerStep(w))
  /\ WF_postingVars(part = "recurring" /\ NextDay)

NightsSpec ==
  NightsInit /\ [][NightsNext]_<<rateVars, postingVars, part>> /\ NightsFairness
================================================================================
