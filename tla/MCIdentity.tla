------------------------------ MODULE MCIdentity ------------------------------
(* Membership and SignIn share no state here (one concerns the set of      *)
(* accounts, the other the life of one): a behaviour is one of either.     *)
EXTENDS Membership, SignIn, TLC

MCSymmetry == Permutations(Servers) \cup Permutations(Clients)

VARIABLE part

IdentityInit ==
  /\ MembershipInit
  /\ SignInInit
  /\ part \in {"membership", "sign-in"}
  /\ part = "membership" => acct.confirmed

IdentityNext ==
  \/ part = "membership" /\ MembershipNext /\ UNCHANGED <<signInVars, part>>
  \/ part = "sign-in" /\ SignInNext /\ UNCHANGED <<memberVars, part>>

IdentitySpec == IdentityInit /\ [][IdentityNext]_<<memberVars, signInVars, part>>
================================================================================
