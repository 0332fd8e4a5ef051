------------------------------ MODULE MCLedger ------------------------------
(* Instances of Ledger for TLC; the .cfg files choose the sets.            *)
EXTENDS Ledger, TLC

CONSTANTS a1, a2, p1, p2

Item(type, to) ==
  [type |-> type, account |-> a1, to |-> to, date |-> 1, amount |-> 1, text |-> "x", part |-> 0]

\* The first payload holds a purchase and a salary, the second a transfer.
MCItems ==
  [p \in Payloads |->
     IF p = p1 THEN <<Item("expense", None), Item("income", None)>>
               ELSE <<Item("transfer", a2)>>]

Symmetry == Permutations(Clients) \cup Permutations(Txns) \cup Permutations(Recs)
=============================================================================
