------------------------------- MODULE Decisions -------------------------------
(***************************************************************************)
(* What the confirmation of tool calls promises: a call that the assistant *)
(* proposes is run at most once, or turned down, and whichever comes first *)
(* is final.                                                               *)
(***************************************************************************)
CONSTANT Calls

VARIABLE fate

Init == fate = [c \in Calls |-> "open"]

Run(c) ==
  /\ fate[c] = "open"
  /\ fate' = [fate EXCEPT ![c] = "ran"]

TurnDown(c) ==
  /\ fate[c] = "open"
  /\ fate' = [fate EXCEPT ![c] = "turned down"]

Next == \E c \in Calls : Run(c) \/ TurnDown(c)

Spec == Init /\ [][Next]_fate
================================================================================
