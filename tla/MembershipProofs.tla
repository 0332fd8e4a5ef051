--------------------------- MODULE MembershipProofs ---------------------------
(***************************************************************************)
(* Theorems about Membership, for any number of users, addresses,          *)
(* invitations and requests in progress.                                   *)
(*                                                                         *)
(* The argument is what a request may still rely on when it commits.  One  *)
(* that may take an administrator away holds the last-admin lock from      *)
(* before it counts the others to its commit, so nobody else takes one     *)
(* away meanwhile; and it holds the row of its target, so the peer rule is *)
(* still satisfied.  A set-up holds the bootstrap lock, and the address of *)
(* a registration is the one of its invitation.  Locks are held at a few   *)
(* steps only, which leaves one request that does not wait.                *)
(***************************************************************************)
EXTENDS Membership, TLAPS

Founded == \E u \in Users : users[u].exists

(* A role change or an activation, from the lock to the commit. *)
UpdateSound(s, c) ==
  /\ c.target \in Users
  /\ c.actor \in Users
  /\ users[c.target].exists
  /\ Takes(c) /\ c.at \in {"row", "commit"} => adminLock = s
  /\ c.at = "commit" =>
       /\ rowLock[c.target] = s
       /\ Takes(c) /\ c.target = c.actor => \E u \in Users \ {c.target} : Admin(u)
       /\ c.target # c.actor /\ users[c.target].role = "admin"
            => /\ c.role # "member"
               /\ c.active = "off" => ~users[c.target].active

InviteSound(c) ==
  /\ c.email \in Emails
  /\ c.invitation \in Invitations
  /\ c.role \in Roles
  /\ Founded

RegisterSound(c) ==
  /\ c.invitation \in Invitations
  /\ invitations[c.invitation].state = "sent"
  /\ c.email = invitations[c.invitation].email
  /\ c.role \in Roles

SetupSound(s, c) ==
  /\ c.role = "admin"
  /\ c.invitation = Nobody
  /\ c.at = "commit" => setupLock = s /\ ~Founded

CallSound(s, c) ==
  /\ c.op = "invite" => InviteSound(c)
  /\ c.op = "revoke" => c.invitation \in Invitations
  /\ c.op = "register" => RegisterSound(c)
  /\ c.op = "setup" => SetupSound(s, c)
  /\ c.op = "update" => UpdateSound(s, c)
  /\ c.op = "profile" => c.target \in Users

InvitationSound(i) == invitations[i].state = "sent" => Founded

(* Where an account came from, and under which address. *)
AccountSound(u) ==
  users[u].exists /\ users[u].via # Nobody
    => /\ invitations[users[u].via].state = "sent"
       /\ users[u].moved \/ users[u].email = invitations[users[u].via].email

UniqueEmails ==
  \A u, v \in Users :
    users[u].exists /\ users[v].exists /\ users[u].email = users[v].email => u = v

(* The inductive invariant. *)
MemberInv ==
  /\ MembershipTypeOK
  /\ \A s \in Servers : CallSound(s, calls[s])
  /\ \A i \in Invitations : InvitationSound(i)
  /\ \A u \in Users : AccountSound(u)
  /\ UniqueEmails
  /\ OneFounder
  /\ AlwaysAnAdmin

LEMMA IdleIsACall == Idle \in Call
BY DEF Idle, Call

LEMMA IdleIsSound == ASSUME NEW s PROVE CallSound(s, Idle)
BY DEF Idle, CallSound

LEMMA InitHolds == MembershipInit => MemberInv
<1> SUFFICES ASSUME MembershipInit PROVE MemberInv
  OBVIOUS
<1>1. NoUser \in UserRow /\ NoInvitation \in InvitationRow
  BY DEF NoUser, UserRow, NoInvitation, InvitationRow, Roles
<1>2. MembershipTypeOK
  BY <1>1, IdleIsACall, MembershipAssumption DEF MembershipInit, MembershipTypeOK
<1>3. \A u \in Users : ~users[u].exists
  BY DEF MembershipInit, NoUser
<1>4. \A i \in Invitations : invitations[i].state # "sent"
  BY DEF MembershipInit, NoInvitation
<1>5. \A s \in Servers : CallSound(s, calls[s])
  BY IdleIsSound DEF MembershipInit
<1> QED
  BY <1>2, <1>3, <1>4, <1>5
  DEF MemberInv, InvitationSound, AccountSound, UniqueEmails, OneFounder,
      AlwaysAnAdmin

--------------------------------------------------------------------------------
(* A request that starts, and a step that changes a call and nothing else   *)
(* the invariant speaks of.                                                 *)

Tables == <<users, invitations, setupLock, adminLock, rowLock>>

LEMMA CallChanges ==
  ASSUME MemberInv, NEW s \in Servers, NEW c \in Call, CallSound(s, c),
         calls' = [calls EXCEPT ![s] = c], called' \in 0 .. MaxCalls,
         UNCHANGED Tables
  PROVE  MemberInv'
<1>1. MembershipTypeOK'
  BY DEF MemberInv, MembershipTypeOK, Tables
<1>2. ASSUME NEW t \in Servers PROVE CallSound(t, calls[t])'
  <2>1. CallSound(t, calls'[t])
    BY DEF MemberInv, MembershipTypeOK
  <2> QED
    BY <2>1
    DEF CallSound, InviteSound, RegisterSound, SetupSound, UpdateSound, Founded,
        Admin, Takes, Tables
<1>3. (\A i \in Invitations : InvitationSound(i))' /\ (\A u \in Users : AccountSound(u))'
  BY DEF MemberInv, InvitationSound, AccountSound, Founded, Tables
<1>4. UniqueEmails' /\ OneFounder' /\ AlwaysAnAdmin'
  BY DEF MemberInv, UniqueEmails, OneFounder, AlwaysAnAdmin, Admin, Tables
<1> QED
  BY <1>1, <1>2, <1>3, <1>4 DEF MemberInv

LEMMA Started ==
  ASSUME MemberInv, NEW s \in Servers, NEW c \in Call, CallSound(s, c),
         Starts(s, c), UNCHANGED Tables
  PROVE  MemberInv'
<1>1. called' \in 0 .. MaxCalls
  BY MembershipAssumption DEF Starts, MemberInv, MembershipTypeOK
<1>2. calls' = [calls EXCEPT ![s] = c]
  BY DEF Starts
<1> QED
  BY <1>1, <1>2, CallChanges

LEMMA StartSteps ==
  ASSUME MemberInv, NEW s \in Servers, MemberStart(s)
  PROVE  MemberInv'
<1>1. ASSUME NEW u \in Users, NEW e \in Emails, NEW i \in Invitations, NEW r \in Roles,
             CreateInvitation(s, u, e, i, r)
      PROVE  MemberInv'
  <2> DEFINE c == [Idle EXCEPT !.op = "invite", !.at = "commit", !.actor = u,
                               !.email = e, !.invitation = i, !.role = r]
  <2>1. c \in Call /\ c.op = "invite" /\ c.email = e /\ c.invitation = i /\ c.role = r
    BY DEF Idle, Call
  <2>2. Starts(s, c) /\ UNCHANGED Tables /\ Founded
    BY <1>1 DEF CreateInvitation, Tables, Admin, Founded
  <2> HIDE DEF c
  <2>3. CallSound(s, c)
    BY <2>1, <2>2 DEF CallSound, InviteSound
  <2> QED
    BY <2>1, <2>2, <2>3, Started
<1>2. ASSUME NEW u \in Users, NEW i \in Invitations, RevokeInvitation(s, u, i)
      PROVE  MemberInv'
  <2> DEFINE c == [Idle EXCEPT !.op = "revoke", !.at = "commit", !.actor = u,
                               !.invitation = i]
  <2>1. c \in Call /\ c.op = "revoke" /\ c.invitation = i
    BY DEF Idle, Call
  <2>2. Starts(s, c) /\ UNCHANGED Tables
    BY <1>2 DEF RevokeInvitation, Tables
  <2> HIDE DEF c
  <2>3. CallSound(s, c)
    BY <2>1 DEF CallSound
  <2> QED
    BY <2>1, <2>2, <2>3, Started
<1>3. ASSUME NEW i \in Invitations, ResolveInvitation(s, i)
      PROVE  MemberInv'
  <2> DEFINE row == invitations[i]
             c == [Idle EXCEPT !.op = "register", !.at = "commit", !.email = row.email,
                               !.invitation = i, !.role = row.role]
  <2>1. row.email \in Emails \cup {Nobody} /\ row.role \in Roles /\ row.state = "sent"
    BY <1>3 DEF ResolveInvitation, MemberInv, MembershipTypeOK, InvitationRow
  <2>2. Starts(s, c) /\ UNCHANGED Tables
    BY <1>3 DEF ResolveInvitation, Tables
  <2>3. c \in Call /\ c.op = "register" /\ c.invitation = i /\ c.email = row.email
          /\ c.role = row.role
    BY <2>1 DEF Idle, Call
  <2> HIDE DEF c
  <2>4. CallSound(s, c)
    BY <2>1, <2>3 DEF CallSound, RegisterSound
  <2> QED
    BY <2>2, <2>3, <2>4, Started
<1>4. ASSUME NEW e \in Emails, StartSetup(s, e)
      PROVE  MemberInv'
  <2> DEFINE c == [Idle EXCEPT !.op = "setup", !.at = "waiting", !.email = e,
                               !.role = "admin"]
  <2>1. c \in Call /\ c.op = "setup" /\ c.at = "waiting" /\ c.role = "admin"
          /\ c.invitation = Nobody
    BY DEF Idle, Call, Roles
  <2>2. Starts(s, c) /\ UNCHANGED Tables
    BY <1>4 DEF StartSetup, Tables
  <2> HIDE DEF c
  <2>3. CallSound(s, c)
    BY <2>1 DEF CallSound, SetupSound
  <2> QED
    BY <2>1, <2>2, <2>3, Started
<1>5. ASSUME NEW a \in Users, NEW t \in Users, NEW r \in Roles \cup {"keep"},
             NEW b \in {"keep", "on", "off"}, StartUpdate(s, a, t, r, b)
      PROVE  MemberInv'
  <2> DEFINE d == [Idle EXCEPT !.op = "update", !.actor = a, !.target = t,
                               !.role = r, !.active = b]
             c == [d EXCEPT !.at = IF Takes(d) THEN "waiting" ELSE "row"]
  <2>1. c \in Call /\ c.op = "update" /\ c.actor = a /\ c.target = t /\ c.role = r
          /\ c.active = b /\ c.at = IF Takes(d) THEN "waiting" ELSE "row"
    BY DEF Idle, Call
  <2>2. Takes(d) <=> Takes(c)
    BY DEF Takes, Idle
  <2>3. Starts(s, c) /\ UNCHANGED Tables /\ users[t].exists
    BY <1>5 DEF StartUpdate, Tables
  <2> HIDE DEF c, d
  <2>4. CallSound(s, c)
    BY <2>1, <2>2, <2>3 DEF CallSound, UpdateSound
  <2> QED
    BY <2>1, <2>3, <2>4, Started
<1>6. ASSUME NEW u \in Users, NEW e \in Emails, StartProfile(s, u, e)
      PROVE  MemberInv'
  <2> DEFINE c == [Idle EXCEPT !.op = "profile", !.at = "commit", !.target = u,
                               !.email = e]
  <2>1. c \in Call /\ c.op = "profile" /\ c.target = u
    BY DEF Idle, Call
  <2>2. Starts(s, c) /\ UNCHANGED Tables
    BY <1>6 DEF StartProfile, Tables
  <2> HIDE DEF c
  <2>3. CallSound(s, c)
    BY <2>1 DEF CallSound
  <2> QED
    BY <2>1, <2>2, <2>3, Started
<1> QED
  BY <1>1, <1>2, <1>3, <1>4, <1>5, <1>6, Zenon DEF MemberStart

--------------------------------------------------------------------------------
(* Steps that write invitations. *)

LEMMA InsertInvitationStep ==
  ASSUME MemberInv, NEW s \in Servers, InsertInvitation(s)
  PROVE  MemberInv'
<1> DEFINE c == calls[s]
           row == [NoInvitation EXCEPT !.state = "sent", !.email = c.email,
                                       !.role = c.role]
<1>1. InviteSound(c)
  BY DEF InsertInvitation, MemberInv, CallSound
<1>2. row \in InvitationRow
  BY <1>1 DEF InviteSound, NoInvitation, InvitationRow
<1>3. /\ UNCHANGED <<users, setupLock, adminLock, rowLock, called>>
      /\ calls' = [calls EXCEPT ![s] = Idle]
      /\ invitations' \in [Invitations -> InvitationRow]
      /\ \A i \in Invitations : invitations[i].state = "sent" => invitations'[i] = invitations[i]
  <2> HIDE DEF row
  <2> QED
    BY <1>1, <1>2 DEF InsertInvitation, Ends, MemberInv, MembershipTypeOK, InviteSound, row
<1>4. MembershipTypeOK'
  BY <1>3, IdleIsACall DEF MemberInv, MembershipTypeOK
<1>5. ASSUME NEW t \in Servers PROVE CallSound(t, calls[t])'
  <2>1. CASE t = s
    BY <1>3, <2>1, IdleIsSound DEF MemberInv, MembershipTypeOK, CallSound, Idle
  <2>2. CASE t # s
    <3>1. CallSound(t, calls[t]) /\ calls'[t] = calls[t]
      BY <1>3, <2>2 DEF MemberInv, MembershipTypeOK
    <3> QED
      BY <1>3, <3>1
      DEF CallSound, InviteSound, RegisterSound, SetupSound, UpdateSound, Founded,
          Admin, Takes
  <2> QED
    BY <2>1, <2>2
<1>6. (\A i \in Invitations : InvitationSound(i))'
  BY <1>1, <1>3 DEF InviteSound, InvitationSound, Founded
<1>7. (\A u \in Users : AccountSound(u))'
  BY <1>3 DEF MemberInv, MembershipTypeOK, UserRow, AccountSound
<1>8. UniqueEmails' /\ OneFounder' /\ AlwaysAnAdmin'
  BY <1>3 DEF MemberInv, UniqueEmails, OneFounder, AlwaysAnAdmin, Admin
<1> QED
  BY <1>4, <1>5, <1>6, <1>7, <1>8 DEF MemberInv

(* A step that sets a flag of an invitation and ends at most one call. *)
LEMMA FlagStep ==
  ASSUME MemberInv, NEW i \in Invitations, NEW row \in InvitationRow,
         row.state = invitations[i].state, row.email = invitations[i].email,
         row.role = invitations[i].role,
         invitations' = [invitations EXCEPT ![i] = row],
         calls' = calls \/ \E s \in Servers : calls' = [calls EXCEPT ![s] = Idle],
         UNCHANGED <<users, setupLock, adminLock, rowLock, called>>
  PROVE  MemberInv'
<1>1. /\ invitations' \in [Invitations -> InvitationRow]
      /\ \A j \in Invitations : /\ invitations'[j].state = invitations[j].state
                                /\ invitations'[j].email = invitations[j].email
  BY DEF MemberInv, MembershipTypeOK
<1>2. /\ calls' \in [Servers -> Call]
      /\ \A t \in Servers : calls'[t] = Idle \/ calls'[t] = calls[t]
  BY IdleIsACall DEF MemberInv, MembershipTypeOK
<1>3. MembershipTypeOK'
  BY <1>1, <1>2 DEF MemberInv, MembershipTypeOK
<1>4. ASSUME NEW t \in Servers PROVE CallSound(t, calls[t])'
  <2>1. CASE calls'[t] = Idle
    BY <2>1 DEF CallSound, Idle
  <2>2. CASE calls'[t] = calls[t]
    <3>1. CallSound(t, calls[t])
      BY DEF MemberInv
    <3> QED
      BY <1>1, <2>2, <3>1
      DEF CallSound, InviteSound, RegisterSound, SetupSound, UpdateSound, Founded,
          Admin, Takes
  <2> QED
    BY <1>2, <2>1, <2>2
<1>5. (\A j \in Invitations : InvitationSound(j))'
  BY <1>1 DEF MemberInv, InvitationSound, Founded
<1>6. (\A u \in Users : AccountSound(u))'
  BY <1>1 DEF MemberInv, MembershipTypeOK, UserRow, AccountSound
<1>7. UniqueEmails' /\ OneFounder' /\ AlwaysAnAdmin'
  BY DEF MemberInv, UniqueEmails, OneFounder, AlwaysAnAdmin, Admin
<1> QED
  BY <1>3, <1>4, <1>5, <1>6, <1>7 DEF MemberInv

LEMMA CommitRevocationStep ==
  ASSUME MemberInv, NEW s \in Servers, CommitRevocation(s)
  PROVE  MemberInv'
<1>1. PICK i \in Invitations : i = calls[s].invitation
  BY DEF CommitRevocation, MemberInv, CallSound
<1>2. PICK row : row = [invitations[i] EXCEPT !.revoked = TRUE]
  OBVIOUS
<1>3. row \in InvitationRow /\ row.state = invitations[i].state
        /\ row.email = invitations[i].email /\ row.role = invitations[i].role
  BY <1>2 DEF MemberInv, MembershipTypeOK, InvitationRow
<1>4. /\ invitations' = [invitations EXCEPT ![i] = row]
      /\ calls' = [calls EXCEPT ![s] = Idle]
      /\ UNCHANGED <<users, setupLock, adminLock, rowLock, called>>
  BY <1>1, <1>2 DEF CommitRevocation, Ends
<1> QED
  BY <1>3, <1>4, FlagStep

LEMMA InvitationExpiresStep ==
  ASSUME MemberInv, NEW i \in Invitations, InvitationExpires(i)
  PROVE  MemberInv'
<1>1. PICK row : row = [invitations[i] EXCEPT !.expired = TRUE]
  OBVIOUS
<1>2. row \in InvitationRow /\ row.state = invitations[i].state
        /\ row.email = invitations[i].email /\ row.role = invitations[i].role
  BY <1>1 DEF MemberInv, MembershipTypeOK, InvitationRow
<1>3. /\ invitations' = [invitations EXCEPT ![i] = row]
      /\ UNCHANGED <<users, calls, setupLock, adminLock, rowLock, called>>
  BY <1>1 DEF InvitationExpires
<1> QED
  BY <1>2, <1>3, FlagStep

--------------------------------------------------------------------------------
(* Steps that take locks. *)

LEMMA TakeSetupLockStep ==
  ASSUME MemberInv, NEW s \in Servers, TakeSetupLock(s)
  PROVE  MemberInv'
<1>1. CASE Ends(s) /\ UNCHANGED setupLock
  <2>1. calls' = [calls EXCEPT ![s] = Idle] /\ UNCHANGED Tables /\ called' \in 0 .. MaxCalls
    BY <1>1 DEF TakeSetupLock, Ends, Tables, MemberInv, MembershipTypeOK
  <2> QED
    BY <2>1, IdleIsACall, IdleIsSound, CallChanges
<1>2. CASE /\ ~Founded
           /\ setupLock' = s
           /\ calls' = [calls EXCEPT ![s].at = "commit"]
  <2>1. PICK c : c = [calls[s] EXCEPT !.at = "commit"]
    OBVIOUS
  <2>2. c \in Call /\ c.op = calls[s].op /\ c.role = calls[s].role
          /\ c.invitation = calls[s].invitation /\ c.at = "commit"
    BY <2>1 DEF MemberInv, MembershipTypeOK, Call
  <2>3. /\ calls' = [calls EXCEPT ![s] = c]
        /\ calls[s].op = "setup"
        /\ UNCHANGED <<users, invitations, adminLock, rowLock, called>>
        /\ setupLock = Nobody
    BY <1>2, <2>1 DEF TakeSetupLock
  <2>4. MembershipTypeOK'
    BY <1>2, <2>2, <2>3 DEF MemberInv, MembershipTypeOK
  <2>5. ASSUME NEW t \in Servers PROVE CallSound(t, calls[t])'
    <3>1. CASE t = s
      <4>1. calls'[t] = c
        BY <2>3, <3>1 DEF MemberInv, MembershipTypeOK
      <4>2. SetupSound(s, calls[s])
        BY <2>3 DEF MemberInv, CallSound
      <4> QED
        BY <1>2, <2>2, <2>3, <3>1, <4>1, <4>2 DEF CallSound, SetupSound, Founded
    <3>2. CASE t # s
      <4>1. CallSound(t, calls[t]) /\ calls'[t] = calls[t]
        BY <2>3, <3>2 DEF MemberInv, MembershipTypeOK
      <4>2. t # Nobody
        BY MembershipAssumption
      <4> QED
        BY <2>3, <4>1, <4>2
        DEF CallSound, InviteSound, RegisterSound, SetupSound, UpdateSound, Founded,
            Admin, Takes
    <3> QED
      BY <3>1, <3>2
  <2>6. (\A i \in Invitations : InvitationSound(i))' /\ (\A u \in Users : AccountSound(u))'
    BY <2>3 DEF MemberInv, InvitationSound, AccountSound, Founded
  <2>7. UniqueEmails' /\ OneFounder' /\ AlwaysAnAdmin'
    BY <2>3 DEF MemberInv, UniqueEmails, OneFounder, AlwaysAnAdmin, Admin
  <2> QED
    BY <2>4, <2>5, <2>6, <2>7 DEF MemberInv
<1> QED
  BY <1>1, <1>2 DEF TakeSetupLock, Founded

(* The locks of update_user: only calls, adminLock and rowLock change. *)
LEMMA LockStep ==
  ASSUME MemberInv, NEW s \in Servers, NEW c \in Call,
         calls' = [calls EXCEPT ![s] = c],
         UNCHANGED <<users, invitations, setupLock, called>>,
         adminLock' \in Servers \cup {Nobody},
         rowLock' \in [Users -> Servers \cup {Nobody}],
         adminLock' # adminLock => adminLock \in {Nobody, s},
         \A u \in Users : rowLock'[u] # rowLock[u] => rowLock[u] \in {Nobody, s},
         CallSound(s, calls[s])'
  PROVE  MemberInv'
<1>1. MembershipTypeOK'
  BY DEF MemberInv, MembershipTypeOK
<1>2. ASSUME NEW t \in Servers PROVE CallSound(t, calls[t])'
  <2>1. CASE t = s
    BY <2>1
  <2>2. CASE t # s
    <3>1. CallSound(t, calls[t]) /\ calls'[t] = calls[t]
      BY <2>2 DEF MemberInv, MembershipTypeOK
    <3>2. t \notin {Nobody, s}
      BY <2>2, MembershipAssumption
    <3> QED
      BY <3>1, <3>2
      DEF CallSound, InviteSound, RegisterSound, SetupSound, UpdateSound, Founded,
          Admin, Takes
  <2> QED
    BY <2>1, <2>2
<1>3. (\A i \in Invitations : InvitationSound(i))' /\ (\A u \in Users : AccountSound(u))'
  BY DEF MemberInv, InvitationSound, AccountSound, Founded
<1>4. UniqueEmails' /\ OneFounder' /\ AlwaysAnAdmin'
  BY DEF MemberInv, UniqueEmails, OneFounder, AlwaysAnAdmin, Admin
<1> QED
  BY <1>1, <1>2, <1>3, <1>4 DEF MemberInv

LEMMA TakeAdminLockStep ==
  ASSUME MemberInv, NEW s \in Servers, TakeAdminLock(s)
  PROVE  MemberInv'
<1>1. PICK c : c = [calls[s] EXCEPT !.at = "row"]
  OBVIOUS
<1>2. c \in Call /\ c.op = "update" /\ c.target = calls[s].target /\ c.actor = calls[s].actor
        /\ c.role = calls[s].role /\ c.active = calls[s].active /\ c.at = "row"
  BY <1>1 DEF TakeAdminLock, MemberInv, MembershipTypeOK, Call
<1>3. /\ calls' = [calls EXCEPT ![s] = c]
      /\ UNCHANGED <<users, invitations, setupLock, rowLock, called>>
      /\ adminLock = Nobody /\ adminLock' = s
      /\ UpdateSound(s, calls[s])
  BY <1>1 DEF TakeAdminLock, MemberInv, CallSound
<1>4. calls'[s] = c
  BY <1>3 DEF MemberInv, MembershipTypeOK
<1>5. CallSound(s, calls[s])'
  BY <1>2, <1>3, <1>4 DEF CallSound, UpdateSound
<1> QED
  BY <1>2, <1>3, <1>5, LockStep DEF MemberInv, MembershipTypeOK

LEMMA LockTargetStep ==
  ASSUME MemberInv, NEW s \in Servers, LockTarget(s)
  PROVE  MemberInv'
<1> DEFINE c == calls[s]
<1>1. /\ c \in Call /\ c.op = "update" /\ c.at = "row"
      /\ UpdateSound(s, c)
      /\ rowLock[c.target] = Nobody
      /\ UNCHANGED <<users, invitations, setupLock, called>>
  BY DEF LockTarget, MemberInv, MembershipTypeOK, CallSound
<1>2. CASE RefusesUpdate(c)
  <2>1. /\ calls' = [calls EXCEPT ![s] = Idle]
        /\ adminLock' = IF adminLock = s THEN Nobody ELSE adminLock
        /\ UNCHANGED rowLock
    BY <1>2 DEF LockTarget, Ends
  <2>2. calls'[s] = Idle
    BY <2>1 DEF MemberInv, MembershipTypeOK
  <2>3. CallSound(s, calls[s])'
    BY <2>2 DEF CallSound, Idle
  <2> QED
    BY <1>1, <2>1, <2>3, IdleIsACall, LockStep DEF MemberInv, MembershipTypeOK
<1>3. CASE ~RefusesUpdate(c)
  <2>1. PICK d : d = [c EXCEPT !.at = "commit"]
    OBVIOUS
  <2>2. d \in Call /\ d.op = "update" /\ d.target = c.target /\ d.actor = c.actor
          /\ d.role = c.role /\ d.active = c.active /\ d.at = "commit"
    BY <1>1, <2>1 DEF Call
  <2>3. /\ calls' = [calls EXCEPT ![s] = d]
        /\ rowLock' = [rowLock EXCEPT ![c.target] = s]
        /\ UNCHANGED adminLock
    BY <1>3, <2>1 DEF LockTarget
  <2>4. calls'[s] = d
    BY <2>3 DEF MemberInv, MembershipTypeOK
  <2>5. Takes(c) /\ c.target = c.actor => \E u \in Users \ {c.target} : Admin(u)
    BY <1>3 DEF RefusesUpdate, Seen, Demoting, Deactivating, Takes
  <2>6. c.target # c.actor /\ users[c.target].role = "admin"
            => /\ c.role # "member"
               /\ c.active = "off" => ~users[c.target].active
    BY <1>3 DEF RefusesUpdate, Seen, Regrading, Deactivating
  <2>7. CallSound(s, calls[s])'
    BY <1>1, <2>2, <2>3, <2>4, <2>5, <2>6
    DEF CallSound, UpdateSound, Takes, Admin, MemberInv, MembershipTypeOK
  <2> QED
    BY <1>1, <2>2, <2>3, <2>7, LockStep DEF MemberInv, MembershipTypeOK, UpdateSound
<1> QED
  BY <1>2, <1>3

--------------------------------------------------------------------------------
(* Steps that write users. *)

(* Nobody who is an administrator, and no target of a request, is touched   *)
(* by the insertion of a user; the locks and the rivals of a set-up are as  *)
(* they were.                                                               *)
LEMMA CommitRegistrationStep ==
  ASSUME MemberInv, NEW s \in Servers, CommitRegistration(s)
  PROVE  MemberInv'
<1> DEFINE c == calls[s]
<1>1. /\ c \in Call /\ c.op \in {"register", "setup"} /\ c.at = "commit"
      /\ setupLock' = IF setupLock = s THEN Nobody ELSE setupLock
      /\ calls' = [calls EXCEPT ![s] = Idle]
      /\ UNCHANGED <<adminLock, rowLock, called>>
  BY DEF CommitRegistration, Ends, MemberInv, MembershipTypeOK
<1>2. /\ calls' \in [Servers -> Call]
      /\ \A t \in Servers : calls'[t] = IF t = s THEN Idle ELSE calls[t]
  BY <1>1, IdleIsACall DEF MemberInv, MembershipTypeOK
<1>3. CASE Taken(c.email)
  <2>1. UNCHANGED <<users, invitations>>
    BY <1>3 DEF CommitRegistration
  <2>2. MembershipTypeOK'
    BY <1>1, <1>2, <2>1 DEF MemberInv, MembershipTypeOK
  <2>3. ASSUME NEW t \in Servers PROVE CallSound(t, calls[t])'
    <3>1. CASE t = s
      BY <1>2, <3>1 DEF CallSound, Idle
    <3>2. CASE t # s
      <4>1. CallSound(t, calls[t]) /\ calls'[t] = calls[t]
        BY <1>2, <3>2 DEF MemberInv
      <4> QED
        BY <1>1, <2>1, <3>2, <4>1
        DEF CallSound, InviteSound, RegisterSound, SetupSound, UpdateSound, Founded,
            Admin, Takes
    <3> QED
      BY <3>1, <3>2
  <2>4. (\A i \in Invitations : InvitationSound(i))' /\ (\A u \in Users : AccountSound(u))'
    BY <2>1 DEF MemberInv, InvitationSound, AccountSound, Founded
  <2>5. UniqueEmails' /\ OneFounder' /\ AlwaysAnAdmin'
    BY <2>1 DEF MemberInv, UniqueEmails, OneFounder, AlwaysAnAdmin, Admin
  <2> QED
    BY <2>2, <2>3, <2>4, <2>5 DEF MemberInv
<1>4. CASE ~Taken(c.email)
  <2>1. PICK n : n = NewUser
    OBVIOUS
  <2>2. n \in Users
    <3>1. \E u \in Users : (\E v \in Users : ~users[v].exists) => ~users[u].exists
      BY MembershipAssumption
    <3> QED
      BY <2>1, <3>1 DEF NewUser
  <2>3. PICK row : row = [exists |-> TRUE, email |-> c.email, role |-> c.role,
                          active |-> TRUE, via |-> c.invitation, moved |-> FALSE]
    OBVIOUS
  <2>4. c.role \in Roles
    BY <1>1 DEF MemberInv, CallSound, RegisterSound, SetupSound, Roles
  <2>5. /\ row \in UserRow /\ row.exists /\ row.email = c.email /\ row.role = c.role
        /\ row.active /\ row.via = c.invitation /\ row.moved = FALSE
    BY <1>1, <2>3, <2>4 DEF UserRow, Call
  <2>6. /\ ~users[n].exists
        /\ users' = [users EXCEPT ![n] = row]
        /\ invitations' = IF c.op = "setup" THEN invitations
                          ELSE [invitations EXCEPT ![c.invitation].accepted = TRUE]
    BY <1>4, <2>1, <2>3 DEF CommitRegistration
  <2>7. /\ users' \in [Users -> UserRow]
        /\ \A u \in Users : users'[u] = IF u = n THEN row ELSE users[u]
    BY <2>2, <2>5, <2>6 DEF MemberInv, MembershipTypeOK
  <2>8. c.op = "register" => RegisterSound(c)
    BY DEF MemberInv, CallSound
  <2>9. /\ invitations' \in [Invitations -> InvitationRow]
        /\ \A i \in Invitations : /\ invitations'[i].state = invitations[i].state
                                  /\ invitations'[i].email = invitations[i].email
    <3>1. CASE c.op = "setup"
      BY <2>6, <3>1 DEF MemberInv, MembershipTypeOK
    <3>2. CASE c.op = "register"
      <4>1. PICK new : new = [invitations[c.invitation] EXCEPT !.accepted = TRUE]
        OBVIOUS
      <4>2. new \in InvitationRow /\ new.state = invitations[c.invitation].state
              /\ new.email = invitations[c.invitation].email
        BY <2>8, <3>2, <4>1 DEF RegisterSound, MemberInv, MembershipTypeOK, InvitationRow
      <4>3. invitations' = [invitations EXCEPT ![c.invitation] = new]
        BY <2>6, <3>2, <4>1
      <4> QED
        BY <2>8, <3>2, <4>2, <4>3 DEF RegisterSound, MemberInv, MembershipTypeOK
    <3> QED
      BY <1>1, <3>1, <3>2
  <2>10. Founded' /\ (Founded \/ c.op = "setup")
    <3>1. c.op = "register" => Founded
      BY <2>8 DEF RegisterSound, MemberInv, InvitationSound
    <3> QED
      BY <1>1, <2>2, <2>5, <2>7, <3>1 DEF Founded
  <2>11. c.op = "setup" => setupLock = s /\ ~Founded /\ c.role = "admin" /\ c.invitation = Nobody
    BY <1>1 DEF MemberInv, CallSound, SetupSound
  <2>12. MembershipTypeOK'
    BY <1>1, <1>2, <2>7, <2>9 DEF MemberInv, MembershipTypeOK
  <2>13. \A u \in Users : Admin(u) => Admin(u)'
    BY <2>6, <2>7 DEF Admin
  <2>14. ASSUME NEW t \in Servers PROVE CallSound(t, calls[t])'
    <3>1. CASE t = s
      BY <1>2, <3>1 DEF CallSound, Idle
    <3>2. CASE t # s
      <4>1. CallSound(t, calls[t]) /\ calls'[t] = calls[t]
        BY <1>2, <3>2 DEF MemberInv
      <4>2. calls[t].op = "update" => UpdateSound(t, calls[t])'
        <5> SUFFICES ASSUME calls[t].op = "update" PROVE UpdateSound(t, calls[t])'
          OBVIOUS
        <5>1. UpdateSound(t, calls[t])
          BY <4>1 DEF CallSound
        <5>2. users'[calls[t].target] = users[calls[t].target]
          BY <2>6, <2>7, <5>1 DEF UpdateSound
        <5> QED
          BY <1>1, <2>13, <4>1, <5>1, <5>2 DEF UpdateSound, Takes
      <4>3. calls[t].op = "setup" => SetupSound(t, calls[t])'
        BY <1>1, <2>10, <2>11, <3>2, <4>1 DEF CallSound, SetupSound
      <4> QED
        BY <2>9, <2>10, <4>1, <4>2, <4>3 DEF CallSound, InviteSound, RegisterSound
    <3> QED
      BY <3>1, <3>2
  <2>15. (\A i \in Invitations : InvitationSound(i))'
    BY <2>10 DEF InvitationSound
  <2>16. (\A u \in Users : AccountSound(u))'
    <3> SUFFICES ASSUME NEW u \in Users PROVE AccountSound(u)'
      OBVIOUS
    <3>1. CASE u = n
      BY <1>1, <2>5, <2>7, <2>8, <2>9, <2>11, <3>1 DEF AccountSound, RegisterSound
    <3>2. CASE u # n
      BY <2>7, <2>9, <3>2 DEF AccountSound, MemberInv, MembershipTypeOK, UserRow
    <3> QED
      BY <3>1, <3>2
  <2>17. UniqueEmails'
    BY <1>4, <2>5, <2>7 DEF UniqueEmails, MemberInv, Taken
  <2>18. OneFounder'
    <3>1. c.op = "register" => row.via # Nobody
      BY <2>5, <2>8, MembershipAssumption DEF RegisterSound
    <3>2. c.op = "setup" => \A u \in Users : ~users[u].exists
      BY <2>11 DEF Founded
    <3> QED
      BY <1>1, <2>7, <3>1, <3>2 DEF OneFounder, MemberInv
  <2>19. AlwaysAnAdmin'
    <3>1. CASE c.op = "setup"
      BY <2>2, <2>5, <2>7, <2>11, <3>1 DEF AlwaysAnAdmin, Admin
    <3>2. CASE c.op = "register"
      <4>1. PICK u \in Users : Admin(u)
        BY <2>10, <3>2 DEF MemberInv, AlwaysAnAdmin, Founded
      <4> QED
        BY <2>13, <4>1 DEF AlwaysAnAdmin
    <3> QED
      BY <1>1, <3>1, <3>2
  <2> QED
    BY <2>12, <2>14, <2>15, <2>16, <2>17, <2>18, <2>19 DEF MemberInv
<1> QED
  BY <1>3, <1>4

(* A step that writes one row, of a user who stays, and ends its call: it   *)
(* holds the row if it changes rights, and the last-admin lock if it may    *)
(* take an administrator away.                                              *)
Rewrites(s, n, row) ==
  /\ row.exists = users[n].exists
  /\ row.via = users[n].via
  /\ row.moved \/ (row.moved = users[n].moved /\ row.email = users[n].email)
  /\ row.email # users[n].email => ~Taken(row.email)
  /\ users' = [users EXCEPT ![n] = row]
  /\ calls' = [calls EXCEPT ![s] = Idle]
  /\ UNCHANGED <<invitations, setupLock, called>>
  /\ adminLock' = adminLock \/ (adminLock = s /\ adminLock' = Nobody)
  /\ rowLock' = rowLock \/ (rowLock[n] = s /\ rowLock' = [rowLock EXCEPT ![n] = Nobody])
  /\ (row.role = users[n].role /\ row.active = users[n].active) \/ rowLock[n] = s
  /\ \/ Admin(n) => row.role = "admin" /\ row.active
     \/ adminLock = s /\ \E u \in Users \ {n} : Admin(u)

LEMMA UserWritten ==
  ASSUME MemberInv, NEW s \in Servers, NEW n \in Users, NEW row \in UserRow,
         Rewrites(s, n, row)
  PROVE  MemberInv'
<1> USE DEF Rewrites
<1>1. /\ users' \in [Users -> UserRow]
      /\ \A u \in Users : users'[u] = IF u = n THEN row ELSE users[u]
  BY DEF MemberInv, MembershipTypeOK
<1>2. /\ calls' \in [Servers -> Call]
      /\ \A t \in Servers : calls'[t] = IF t = s THEN Idle ELSE calls[t]
  BY IdleIsACall DEF MemberInv, MembershipTypeOK
<1>3. MembershipTypeOK'
  BY <1>1, <1>2 DEF MemberInv, MembershipTypeOK
<1>4. \A u \in Users : users'[u].exists = users[u].exists /\ users'[u].via = users[u].via
  BY <1>1
<1>5. Founded' <=> Founded
  BY <1>4 DEF Founded
<1>6. \/ \A u \in Users : Admin(u) => Admin(u)'
      \/ adminLock = s /\ \E u \in Users \ {n} : Admin(u) /\ Admin(u)'
  BY <1>1, <1>4 DEF Admin
<1>7. ASSUME NEW t \in Servers PROVE CallSound(t, calls[t])'
  <2>1. CASE t = s
    BY <1>2, <2>1 DEF CallSound, Idle
  <2>2. CASE t # s
    <3>1. CallSound(t, calls[t]) /\ calls'[t] = calls[t]
      BY <1>2, <2>2 DEF MemberInv
    <3>2. calls[t].op = "update" => UpdateSound(t, calls[t])'
      <4> SUFFICES ASSUME calls[t].op = "update" PROVE UpdateSound(t, calls[t])'
        OBVIOUS
      <4> DEFINE c == calls[t]
      <4>1. UpdateSound(t, c) /\ c.target \in Users /\ c.actor \in Users
        BY <3>1 DEF CallSound, UpdateSound
      <4>2. users'[c.target].exists
        BY <1>4, <4>1 DEF UpdateSound
      <4>3. Takes(c) /\ c.at \in {"row", "commit"} => adminLock' = t
        BY <2>2, <4>1 DEF UpdateSound
      <4>4. ASSUME c.at = "commit" PROVE rowLock'[c.target] = t
        BY <2>2, <4>1, <4>4 DEF UpdateSound, MemberInv, MembershipTypeOK
      <4>5. ASSUME c.at = "commit" PROVE /\ users'[c.target].role = users[c.target].role
                                         /\ users'[c.target].active = users[c.target].active
        BY <1>1, <2>2, <4>1, <4>5 DEF UpdateSound
      <4>6. ASSUME c.at = "commit", Takes(c), c.target = c.actor
            PROVE  \E u \in Users \ {c.target} : Admin(u)'
        <5>1. adminLock # s
          BY <2>2, <4>1, <4>6 DEF UpdateSound
        <5> QED
          BY <1>6, <4>1, <4>6, <5>1 DEF UpdateSound
      <4> QED
        BY <3>1, <4>1, <4>2, <4>3, <4>4, <4>5, <4>6 DEF UpdateSound, Takes
    <3> QED
      BY <1>5, <3>1, <3>2 DEF CallSound, InviteSound, RegisterSound, SetupSound
  <2> QED
    BY <2>1, <2>2
<1>8. (\A i \in Invitations : InvitationSound(i))'
  BY <1>5 DEF MemberInv, InvitationSound
<1>9. (\A u \in Users : AccountSound(u))'
  BY <1>1 DEF MemberInv, AccountSound
<1>10. UniqueEmails'
  BY <1>1 DEF MemberInv, UniqueEmails, Taken
<1>11. OneFounder'
  BY <1>4 DEF MemberInv, OneFounder
<1>12. AlwaysAnAdmin'
  BY <1>4, <1>6 DEF MemberInv, AlwaysAnAdmin
<1> QED
  BY <1>3, <1>7, <1>8, <1>9, <1>10, <1>11, <1>12 DEF MemberInv

LEMMA CommitUpdateStep ==
  ASSUME MemberInv, NEW s \in Servers, CommitUpdate(s)
  PROVE  MemberInv'
<1> DEFINE c == calls[s]
<1>0. PICK n \in Users : n = c.target
  BY DEF CommitUpdate, MemberInv, CallSound, UpdateSound
<1> DEFINE u == users[n]
<1>1. /\ c \in Call /\ c.op = "update" /\ c.at = "commit"
      /\ UpdateSound(s, c) /\ u \in UserRow
  BY DEF CommitUpdate, MemberInv, MembershipTypeOK, CallSound
<1>2. PICK row : row = [exists |-> u.exists, email |-> u.email,
        role |-> IF Regrading(c) THEN c.role ELSE u.role,
        active |-> IF Deactivating(c) \/ Activating(c)
                   THEN c.active = "on" ELSE u.active,
        via |-> u.via, moved |-> u.moved]
  OBVIOUS
<1>3. /\ row.exists = u.exists /\ row.via = u.via /\ row.moved = u.moved
      /\ row.email = u.email
      /\ row.role = IF Regrading(c) THEN c.role ELSE u.role
      /\ row.active = IF Deactivating(c) \/ Activating(c) THEN c.active = "on" ELSE u.active
  BY <1>2
<1>4. row \in UserRow
  BY <1>1, <1>2 DEF UserRow, Call, Regrading
<1>5. /\ users' = [users EXCEPT ![n] = row]
      /\ rowLock' = [rowLock EXCEPT ![n] = Nobody]
      /\ adminLock' = IF adminLock = s THEN Nobody ELSE adminLock
      /\ calls' = [calls EXCEPT ![s] = Idle]
      /\ UNCHANGED <<invitations, setupLock, called>>
  BY <1>0, <1>2 DEF CommitUpdate, Ends
<1>6. rowLock[n] = s
  BY <1>0, <1>1 DEF UpdateSound
<1>7. \/ Admin(n) => row.role = "admin" /\ row.active
      \/ adminLock = s /\ \E v \in Users \ {n} : Admin(v)
  <2>1. CASE Takes(c) /\ n = c.actor
    BY <1>0, <1>1, <2>1 DEF UpdateSound
  <2>2. CASE ~Takes(c)
    BY <1>0, <1>1, <1>3, <2>2 DEF Takes, Admin, Call, Roles, Regrading, Deactivating, Activating
  <2>3. CASE n # c.actor
    BY <1>0, <1>1, <1>3, <2>3
    DEF UpdateSound, Admin, Call, Roles, Regrading, Deactivating, Activating
  <2> QED
    BY <2>1, <2>2, <2>3
<1>8. /\ adminLock' = adminLock \/ (adminLock = s /\ adminLock' = Nobody)
      /\ rowLock' = rowLock \/ (rowLock[n] = s /\ rowLock' = [rowLock EXCEPT ![n] = Nobody])
      /\ (row.role = users[n].role /\ row.active = users[n].active) \/ rowLock[n] = s
  BY <1>5, <1>6
<1>9. /\ row.exists = users[n].exists /\ row.via = users[n].via
      /\ row.moved \/ (row.moved = users[n].moved /\ row.email = users[n].email)
      /\ row.email # users[n].email => ~Taken(row.email)
  BY <1>3
<1>10. Rewrites(s, n, row)
  BY <1>5, <1>7, <1>8, <1>9 DEF Rewrites
<1> QED
  BY <1>4, <1>10, UserWritten

LEMMA CommitProfileStep ==
  ASSUME MemberInv, NEW s \in Servers, CommitProfile(s)
  PROVE  MemberInv'
<1> DEFINE c == calls[s]
<1>0. PICK n \in Users : n = c.target
  BY DEF CommitProfile, MemberInv, CallSound
<1>1. users[n] \in UserRow /\ c \in Call
  BY DEF MemberInv, MembershipTypeOK
<1>2. /\ calls' = [calls EXCEPT ![s] = Idle]
      /\ UNCHANGED <<invitations, setupLock, adminLock, rowLock, called>>
  BY DEF CommitProfile, Ends
<1>3. CASE Taken(c.email)
  <2>1. UNCHANGED Tables /\ called' \in 0 .. MaxCalls
    BY <1>2, <1>3 DEF CommitProfile, Tables, MemberInv, MembershipTypeOK
  <2> QED
    BY <1>2, <2>1, IdleIsACall, IdleIsSound, CallChanges
<1>4. CASE ~Taken(c.email)
  <2>1. PICK row : row = [users[n] EXCEPT !.email = c.email, !.moved = TRUE]
    OBVIOUS
  <2>2. /\ row \in UserRow /\ row.exists = users[n].exists /\ row.via = users[n].via
        /\ row.moved /\ row.email = c.email /\ row.role = users[n].role
        /\ row.active = users[n].active
    BY <1>1, <2>1 DEF UserRow, Call
  <2>3. users' = [users EXCEPT ![n] = row]
    BY <1>0, <1>1, <1>4, <2>1 DEF CommitProfile, MemberInv, MembershipTypeOK
  <2>4. Admin(n) => row.role = "admin" /\ row.active
    BY <2>2 DEF Admin
  <2>5. /\ row.moved \/ (row.moved = users[n].moved /\ row.email = users[n].email)
        /\ row.email # users[n].email => ~Taken(row.email)
        /\ (row.role = users[n].role /\ row.active = users[n].active) \/ rowLock[n] = s
        /\ adminLock' = adminLock \/ (adminLock = s /\ adminLock' = Nobody)
        /\ rowLock' = rowLock \/ (rowLock[n] = s /\ rowLock' = [rowLock EXCEPT ![n] = Nobody])
    BY <1>2, <1>4, <2>2
  <2>6. Rewrites(s, n, row)
    BY <1>2, <2>2, <2>3, <2>4, <2>5 DEF Rewrites
  <2> QED
    BY <2>2, <2>6, UserWritten
<1> QED
  BY <1>3, <1>4

--------------------------------------------------------------------------------
LEMMA StepHolds == MemberInv /\ [MembershipNext]_memberVars => MemberInv'
<1> SUFFICES ASSUME MemberInv, [MembershipNext]_memberVars PROVE MemberInv'
  OBVIOUS
<1>1. ASSUME NEW s \in Servers, MemberStart(s) PROVE MemberInv'
  BY <1>1, StartSteps
<1>2. ASSUME NEW s \in Servers, MemberStep(s) PROVE MemberInv'
  <2>1. CASE InsertInvitation(s)
    BY <2>1, InsertInvitationStep
  <2>2. CASE CommitRevocation(s)
    BY <2>2, CommitRevocationStep
  <2>3. CASE TakeSetupLock(s)
    BY <2>3, TakeSetupLockStep
  <2>4. CASE CommitRegistration(s)
    BY <2>4, CommitRegistrationStep
  <2>5. CASE TakeAdminLock(s)
    BY <2>5, TakeAdminLockStep
  <2>6. CASE LockTarget(s)
    BY <2>6, LockTargetStep
  <2>7. CASE CommitUpdate(s)
    BY <2>7, CommitUpdateStep
  <2>8. CASE CommitProfile(s)
    BY <2>8, CommitProfileStep
  <2> QED
    BY <1>2, <2>1, <2>2, <2>3, <2>4, <2>5, <2>6, <2>7, <2>8, Zenon DEF MemberStep
<1>3. ASSUME NEW i \in Invitations, InvitationExpires(i) PROVE MemberInv'
  BY <1>3, InvitationExpiresStep
<1>4. CASE UNCHANGED memberVars
  BY <1>4
  DEF memberVars, MemberInv, MembershipTypeOK, CallSound, InviteSound, RegisterSound,
      SetupSound, UpdateSound, Founded, Admin, Takes, InvitationSound, AccountSound,
      UniqueEmails, OneFounder, AlwaysAnAdmin
<1> QED
  BY <1>1, <1>2, <1>3, <1>4, Zenon DEF MembershipNext

(* The rows of users and invitations, the locks and the requests of auth.py *)
(* keep their shapes, and every request still has what it relies on.        *)
THEOREM RequestsStaySound == MembershipSpec => []MemberInv
<1> QED
  BY InitHolds, StepHolds, PTL DEF MembershipSpec

(* Every row, lock and request of the model of auth.py has its type. *)
THEOREM MembershipTypeCorrect == MembershipSpec => []MembershipTypeOK
<1>1. MemberInv => MembershipTypeOK
  BY DEF MemberInv
<1> QED
  BY <1>1, RequestsStaySound, PTL

(* update_user under the last-admin lock: an instance that is set up has an *)
(* active administrator, whatever role changes and deactivations overlap.   *)
THEOREM AnAdminRemains == MembershipSpec => []AlwaysAnAdmin
<1>1. MemberInv => AlwaysAnAdmin
  BY DEF MemberInv
<1> QED
  BY <1>1, RequestsStaySound, PTL

(* register under the bootstrap lock: one account at most is created without *)
(* an invitation, whatever number of set-up requests race.                   *)
THEOREM FoundedOnce == MembershipSpec => []OneFounder
<1>1. MemberInv => OneFounder
  BY DEF MemberInv
<1> QED
  BY <1>1, RequestsStaySound, PTL

(* register with a token: the unique address makes an invitation good for   *)
(* one account, unless the first has moved to another address.              *)
THEOREM InvitationsAdmitOne == MembershipSpec => []OneAccountPerInvitation
<1>1. MemberInv => OneAccountPerInvitation
  BY DEF MemberInv, OneAccountPerInvitation, AccountSound, UniqueEmails
<1> QED
  BY <1>1, RequestsStaySound, PTL
--------------------------------------------------------------------------------
(* Locks.  Whoever holds a lock is at a step that gives it back.            *)

LocksHeld ==
  \A s \in Servers :
    /\ setupLock = s => calls[s].op = "setup" /\ calls[s].at = "commit"
    /\ adminLock = s => calls[s].op = "update" /\ calls[s].at \in {"row", "commit"}
    /\ \A u \in Users :
         rowLock[u] = s => /\ calls[s].op = "update"
                           /\ calls[s].at = "commit"
                           /\ calls[s].target = u

(* A request that waits for a lock that somebody holds. *)
Waits(s) ==
  LET c == calls[s] IN
  \/ c.op = "setup" /\ c.at = "waiting" /\ setupLock # Nobody
  \/ c.op = "update" /\ c.at = "waiting" /\ adminLock # Nobody
  \/ c.op = "update" /\ c.at = "row" /\ rowLock[c.target] # Nobody
  \/ c.op = "profile" /\ c.at = "commit" /\ rowLock[c.target] # Nobody

Holds(s) == setupLock = s \/ adminLock = s \/ \E u \in Users : rowLock[u] = s

(* auth.py gives every lock back with its request, and never has all of its *)
(* requests wait for each other.                                            *)
LocksComeBack ==
  /\ \A s \in Servers : Holds(s) => calls[s].at # "idle"
  /\ (\E s \in Servers : calls[s].at # "idle")
       => \E s \in Servers : calls[s].at # "idle" /\ ~Waits(s)

LEMMA StartsHoldingNothing ==
  ASSUME LocksHeld, NEW s \in Servers, MemberStart(s), calls \in [Servers -> Call]
  PROVE  LocksHeld'
<1>1. calls[s].at = "idle"
  BY DEF MemberStart, CreateInvitation, RevokeInvitation, ResolveInvitation, StartSetup,
         StartUpdate, StartProfile, Starts
<1>2. \E c : calls' = [calls EXCEPT ![s] = c]
  BY DEF MemberStart, CreateInvitation, RevokeInvitation, ResolveInvitation, StartSetup,
         StartUpdate, StartProfile, Starts
<1>3. UNCHANGED <<setupLock, adminLock, rowLock>>
  BY DEF MemberStart, CreateInvitation, RevokeInvitation, ResolveInvitation, StartSetup,
         StartUpdate, StartProfile
<1>4. setupLock # s /\ adminLock # s /\ \A u \in Users : rowLock[u] # s
  BY <1>1 DEF LocksHeld
<1> QED
  BY <1>2, <1>3, <1>4 DEF LocksHeld

(* A request whose call changes, while the others keep theirs. *)
LEMMA OthersKeepLocks ==
  ASSUME LocksHeld, NEW s \in Servers, calls \in [Servers -> Call],
         NEW c, calls' = [calls EXCEPT ![s] = c],
         setupLock' \in {setupLock, s, Nobody},
         adminLock' \in {adminLock, s, Nobody},
         \A u \in Users : rowLock'[u] \in {rowLock[u], s, Nobody},
         setupLock' = s => c.op = "setup" /\ c.at = "commit",
         adminLock' = s => c.op = "update" /\ c.at \in {"row", "commit"},
         \A u \in Users : rowLock'[u] = s =>
           c.op = "update" /\ c.at = "commit" /\ c.target = u
  PROVE  LocksHeld'
<1>1. Nobody \notin Servers
  BY MembershipAssumption
<1>2. ASSUME NEW t \in Servers, t # s PROVE calls'[t] = calls[t]
  BY <1>2
<1>3. calls'[s] = c
  OBVIOUS
<1>4. ASSUME NEW t \in Servers, t # s
      PROVE  /\ setupLock' = t => setupLock = t
             /\ adminLock' = t => adminLock = t
             /\ \A u \in Users : rowLock'[u] = t => rowLock[u] = t
  BY <1>1, <1>4
<1> QED
  BY <1>2, <1>3, <1>4 DEF LocksHeld

LEMMA StepsKeepLocks ==
  ASSUME LocksHeld, NEW s \in Servers, MemberStep(s), calls \in [Servers -> Call],
         rowLock \in [Users -> Servers \cup {Nobody}]
  PROVE  LocksHeld'
<1> DEFINE c == calls[s]
<1>1. Idle.op = "none" /\ Nobody \notin Servers
  BY MembershipAssumption DEF Idle
<1>2. /\ setupLock = s => c.op = "setup" /\ c.at = "commit"
      /\ adminLock = s => c.op = "update" /\ c.at \in {"row", "commit"}
      /\ \A u \in Users : rowLock[u] = s => c.op = "update" /\ c.at = "commit" /\ c.target = u
  BY DEF LocksHeld
<1> HIDE DEF c
<1>3. CASE InsertInvitation(s) \/ CommitRevocation(s) \/ CommitProfile(s)
  <2>1. calls' = [calls EXCEPT ![s] = Idle] /\ UNCHANGED <<setupLock, adminLock, rowLock>>
    BY <1>3 DEF InsertInvitation, CommitRevocation, CommitProfile, Ends
  <2>2. c.op \notin {"setup", "update"}
    BY <1>3 DEF InsertInvitation, CommitRevocation, CommitProfile, c
  <2>3. setupLock # s /\ adminLock # s /\ \A u \in Users : rowLock[u] # s
    BY <1>2, <2>2
  <2> QED
    BY <2>1, <2>3, OthersKeepLocks
<1>4. CASE TakeSetupLock(s)
  <2>1. c.op = "setup" /\ setupLock = Nobody /\ UNCHANGED <<adminLock, rowLock>>
    BY <1>4 DEF TakeSetupLock, c
  <2>2. adminLock # s /\ \A u \in Users : rowLock[u] # s
    BY <1>2, <2>1
  <2>3. CASE Ends(s) /\ UNCHANGED setupLock
    BY <1>1, <2>1, <2>2, <2>3, OthersKeepLocks DEF Ends
  <2>4. CASE setupLock' = s /\ calls' = [calls EXCEPT ![s].at = "commit"]
    <3> DEFINE d == [c EXCEPT !.at = "commit"]
    <3>1. calls' = [calls EXCEPT ![s] = d]
      BY <2>4 DEF c
    <3>2. d.op = "setup" /\ d.at = "commit"
      BY <2>1 DEF c, Call
    <3> QED
      BY <2>1, <2>2, <2>4, <3>1, <3>2, OthersKeepLocks
  <2> QED
    BY <1>4, <2>3, <2>4 DEF TakeSetupLock
<1>5. CASE CommitRegistration(s)
  <2>1. c.op # "update" /\ calls' = [calls EXCEPT ![s] = Idle]
    BY <1>5 DEF CommitRegistration, Ends, c
  <2>2. setupLock' = (IF setupLock = s THEN Nobody ELSE setupLock)
        /\ UNCHANGED <<adminLock, rowLock>>
    BY <1>5 DEF CommitRegistration
  <2>3. adminLock # s /\ \A u \in Users : rowLock[u] # s
    BY <1>2, <2>1
  <2>4. setupLock' # s
    BY <1>1, <2>2
  <2> QED
    BY <2>1, <2>2, <2>3, <2>4, OthersKeepLocks
<1>6. CASE TakeAdminLock(s)
  <2> DEFINE d == [c EXCEPT !.at = "row"]
  <2>1. /\ c.op = "update" /\ c.at = "waiting"
        /\ adminLock' = s /\ UNCHANGED <<setupLock, rowLock>>
        /\ calls' = [calls EXCEPT ![s] = d]
    BY <1>6 DEF TakeAdminLock, c
  <2>2. d.op = "update" /\ d.at = "row"
    BY <2>1 DEF c, Call
  <2>3. setupLock # s /\ \A u \in Users : rowLock[u] # s
    BY <1>2, <2>1
  <2> QED
    BY <2>1, <2>2, <2>3, OthersKeepLocks
<1>7. CASE LockTarget(s)
  <2>1. c.op = "update" /\ c.at = "row" /\ UNCHANGED setupLock
    BY <1>7 DEF LockTarget, c
  <2>2. setupLock # s /\ \A u \in Users : rowLock[u] # s
    BY <1>2, <2>1
  <2>3. CASE RefusesUpdate(c)
    <3>1. /\ calls' = [calls EXCEPT ![s] = Idle] /\ UNCHANGED rowLock
          /\ adminLock' = IF adminLock = s THEN Nobody ELSE adminLock
      BY <1>7, <2>3 DEF LockTarget, Ends, c
    <3>2. adminLock' # s /\ adminLock' \in {adminLock, Nobody}
      BY <1>1, <3>1
    <3> QED
      BY <2>1, <2>2, <3>1, <3>2, OthersKeepLocks
  <2>4. CASE ~RefusesUpdate(c)
    <3> DEFINE d == [c EXCEPT !.at = "commit"]
    <3>1. /\ calls' = [calls EXCEPT ![s] = d] /\ UNCHANGED adminLock
          /\ rowLock' = [rowLock EXCEPT ![c.target] = s]
      BY <1>7, <2>4 DEF LockTarget, c
    <3>2. d.op = "update" /\ d.at = "commit" /\ d.target = c.target
      BY <2>1 DEF c, Call
    <3>3. \A u \in Users : /\ rowLock'[u] \in {rowLock[u], s}
                           /\ rowLock'[u] = s => u = c.target
      BY <2>2, <3>1
    <3> HIDE DEF d
    <3> QED
      BY <2>1, <2>2, <3>1, <3>2, <3>3, OthersKeepLocks
  <2> QED
    BY <2>3, <2>4
<1>8. CASE CommitUpdate(s)
  <2>1. /\ c.op = "update" /\ UNCHANGED setupLock
        /\ calls' = [calls EXCEPT ![s] = Idle]
        /\ rowLock' = [rowLock EXCEPT ![c.target] = Nobody]
        /\ adminLock' = IF adminLock = s THEN Nobody ELSE adminLock
    BY <1>8 DEF CommitUpdate, Ends, c
  <2>2. setupLock # s /\ adminLock' # s /\ adminLock' \in {adminLock, Nobody}
    BY <1>1, <1>2, <2>1
  <2>3. \A u \in Users : rowLock'[u] \in {rowLock[u], Nobody} /\ rowLock'[u] # s
    BY <1>1, <1>2, <2>1
  <2> QED
    BY <2>1, <2>2, <2>3, OthersKeepLocks
<1> QED
  BY <1>3, <1>4, <1>5, <1>6, <1>7, <1>8 DEF MemberStep

LEMMA LocksStayHeld == MembershipSpec => []LocksHeld
<1>1. MembershipInit => LocksHeld
  BY MembershipAssumption DEF MembershipInit, LocksHeld
<1>2. MemberInv /\ LocksHeld /\ [MembershipNext]_memberVars => LocksHeld'
  <2> SUFFICES ASSUME MemberInv, LocksHeld, [MembershipNext]_memberVars
               PROVE  LocksHeld'
    OBVIOUS
  <2>1. calls \in [Servers -> Call] /\ rowLock \in [Users -> Servers \cup {Nobody}]
    BY DEF MemberInv, MembershipTypeOK
  <2>2. ASSUME NEW s \in Servers, MemberStart(s) \/ MemberStep(s) PROVE LocksHeld'
    BY <2>1, <2>2, StartsHoldingNothing, StepsKeepLocks
  <2>3. CASE UNCHANGED memberVars \/ \E i \in Invitations : InvitationExpires(i)
    BY <2>3 DEF InvitationExpires, memberVars, LocksHeld
  <2> QED
    BY <2>2, <2>3, Zenon DEF MembershipNext
<1> QED
  BY <1>1, <1>2, RequestsStaySound, PTL DEF MembershipSpec

(* The two advisory locks and the row locks of auth.py are held only by     *)
(* requests in progress, and no circle of requests waits for them, however  *)
(* many there are: who waits for the last-admin lock waits for a request    *)
(* that has it or for one that has the row which that one wants.            *)
THEOREM LocksAreGivenBack == MembershipSpec => []LocksComeBack
<1>1. MemberInv /\ LocksHeld => LocksComeBack
  <2> SUFFICES ASSUME MemberInv, LocksHeld PROVE LocksComeBack
    OBVIOUS
  <2>1. ASSUME NEW s \in Servers, Holds(s) PROVE calls[s].at # "idle"
    BY <2>1 DEF Holds, LocksHeld
  <2>2. ASSUME NEW s \in Servers, calls[s].at # "idle",
               \A t \in Servers : calls[t].at # "idle" => Waits(t)
        PROVE  FALSE
    <3>1. ASSUME NEW t \in Servers PROVE ~(calls[t].op \in {"setup", "update"} /\ calls[t].at = "commit")
      BY <2>2, <3>1 DEF Waits
    <3>2. \A u \in Users : rowLock[u] = Nobody
      BY <3>1 DEF LocksHeld, MemberInv, MembershipTypeOK
    <3>3. setupLock = Nobody
      BY <3>1 DEF LocksHeld, MemberInv, MembershipTypeOK
    <3>4. ASSUME NEW t \in Servers, Waits(t)
          PROVE  calls[t].op = "update" /\ calls[t].at = "waiting" /\ adminLock # Nobody
      <4>1. calls[t].op \in {"update", "profile"} => calls[t].target \in Users
        BY DEF MemberInv, CallSound, UpdateSound
      <4> QED
        BY <3>2, <3>3, <3>4, <4>1 DEF Waits
    <3>5. adminLock \in Servers
      BY <2>2, <3>4 DEF MemberInv, MembershipTypeOK
    <3>6. calls[adminLock].at \in {"row", "commit"}
      BY <3>5 DEF LocksHeld
    <3> QED
      BY <2>2, <3>4, <3>5, <3>6
  <2> QED
    BY <2>1, <2>2 DEF LocksComeBack
<1> QED
  BY <1>1, LocksStayHeld, RequestsStaySound, PTL
================================================================================
