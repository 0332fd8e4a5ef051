-------------------------------- MODULE MCBooks --------------------------------
(* Runs and requests that do not overlap: the task that posts recurring     *)
(* rules, and the ledger with one client.  Beside them the payments of a    *)
(* loan, where two clients and the task do overlap.  They share no state    *)
(* here: a behaviour is one of any of them.  "filing" is the ledger where   *)
(* rows differ in their category too, and fewer requests are made.          *)
EXTENDS MCLedger, RecurringPosting, LoanPayments

CONSTANT MaxFilingRequests   \* bound: requests in a behaviour of "filing"

VARIABLE part

\* All rows, stored or about to be, are filed alike.
FiledAlike ==
  \A t \in Txns :
    /\ t \in Live => txns[t].text = "x"
    /\ \A c \in Clients :
         proc[c].op = "update" /\ t \in proc[c].ids => proc[c].new[t].text = "x"

BooksInit ==
  /\ Init /\ PostingInit /\ LoanInit
  /\ part \in {"ledger", "filing", "posting", "loans"}

BooksNext ==
  \/ part = "ledger" /\ Next /\ FiledAlike'
     /\ UNCHANGED <<postingVars, loanVars, part>>
  \/ part = "filing" /\ Next /\ requests' <= MaxFilingRequests
     /\ UNCHANGED <<postingVars, loanVars, part>>
  \/ part = "posting" /\ PostingNext /\ UNCHANGED <<vars, loanVars, part>>
  \/ part = "loans" /\ LoanNext /\ UNCHANGED <<vars, postingVars, part>>

BooksSpec == BooksInit /\ [][BooksNext]_<<vars, postingVars, loanVars, part>>

BooksSymmetry == Symmetry \cup Permutations(LoanClients)
================================================================================
