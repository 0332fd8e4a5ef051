------------------------ MODULE MCRecurringPosting --------------------------
(* Instances of RecurringPosting for TLC; the .cfg files choose the sets.  *)
EXTENDS RecurringPosting
=============================================================================
