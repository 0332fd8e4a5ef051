-------------------------- MODULE MCRecurringOverlap --------------------------
(* Runs of the posting task that overlap, and the categories under which    *)
(* recurring templates, among others, are filed.  They share no state here: *)
(* a behaviour is one of either.                                            *)
EXTENDS RecurringPosting, Categories, TLC

MCSymmetry == Permutations(Workers) \cup Permutations(CategoryIds)

VARIABLE part

OverlapInit ==
  /\ PostingInit
  /\ CategoriesInit
  /\ part \in {"recurring", "categories"}

OverlapNext ==
  \/ part = "recurring" /\ PostingNext /\ UNCHANGED <<categoryVars, part>>
  \/ part = "categories" /\ CategoriesNext /\ UNCHANGED <<postingVars, part>>

OverlapSpec == OverlapInit /\ [][OverlapNext]_<<postingVars, categoryVars, part>>
================================================================================
