--------------------------- MODULE MCLoanPayments ---------------------------
(* The instance of LoanPayments whose liveness TLC checks.                 *)
EXTENDS LoanPayments
=============================================================================
