------------------------------ MODULE Membership ------------------------------
(***************************************************************************)
(* Users, roles and invitations (services/auth.py): the first user sets    *)
(* the instance up, everybody else registers with an invitation, and       *)
(* administrators change roles and switch accounts off.                    *)
(*                                                                         *)
(* A request runs in one database transaction.  It reads, it may wait for  *)
(* an advisory lock or for the row of its target, and it commits; every    *)
(* such point is a step, so that other requests come in between.  Only the *)
(* conditions that the code checks again at the write (the unique index on *)
(* the address, the row locked FOR UPDATE) see the state at the commit.    *)
(***************************************************************************)
EXTENDS Naturals, FiniteSets

CONSTANTS
  Servers,        \* requests in progress at a time
  Users,          \* user ids
  Emails,         \* normalized addresses
  Invitations,    \* invitation ids
  MaxCalls,       \* bound: requests in a behaviour
  Nobody          \* no user, no server, no invitation

ASSUME MembershipAssumption ==
  /\ Nobody \notin Users \cup Servers \cup Invitations \cup Emails
  /\ Users # {}
  /\ MaxCalls \in Nat

VARIABLES
  users,          \* user id -> row
  invitations,    \* invitation id -> row
  calls,          \* server -> the request it runs
  setupLock,      \* holder of the advisory lock _BOOTSTRAP_LOCK_KEY
  adminLock,      \* holder of the advisory lock _LAST_ADMIN_LOCK_KEY
  rowLock,        \* user id -> the request that holds the row FOR UPDATE
  called          \* requests so far

memberVars ==
  <<users, invitations, calls, setupLock, adminLock, rowLock, called>>

Roles == {"admin", "member"}

(* User: what the rules about membership look at.  via is the invitation    *)
(* the account came from (Nobody for the first one), moved whether the      *)
(* address was changed since.                                               *)
UserRow ==
  [exists : BOOLEAN, email : Emails \cup {Nobody}, role : Roles,
   active : BOOLEAN, via : Invitations \cup {Nobody}, moved : BOOLEAN]

NoUser == [exists |-> FALSE, email |-> Nobody, role |-> "member",
           active |-> FALSE, via |-> Nobody, moved |-> FALSE]

InvitationRow ==
  [state : {"none", "sent"}, email : Emails \cup {Nobody}, role : Roles,
   accepted : BOOLEAN, revoked : BOOLEAN, expired : BOOLEAN]

NoInvitation == [state |-> "none", email |-> Nobody, role |-> "member",
                 accepted |-> FALSE, revoked |-> FALSE, expired |-> FALSE]

Call ==
  [op : {"none", "invite", "revoke", "register", "setup", "update", "profile"},
   at : {"idle", "waiting", "row", "commit"},
   actor : Users \cup {Nobody}, target : Users \cup {Nobody},
   email : Emails \cup {Nobody}, invitation : Invitations \cup {Nobody},
   role : Roles \cup {"keep"}, active : {"keep", "on", "off"}]

Idle == [op |-> "none", at |-> "idle", actor |-> Nobody, target |-> Nobody,
         email |-> Nobody, invitation |-> Nobody, role |-> "keep",
         active |-> "keep"]

MembershipInit ==
  /\ users = [u \in Users |-> NoUser]
  /\ invitations = [i \in Invitations |-> NoInvitation]
  /\ calls = [s \in Servers |-> Idle]
  /\ setupLock = Nobody
  /\ adminLock = Nobody
  /\ rowLock = [u \in Users |-> Nobody]
  /\ called = 0

Admin(u) == users[u].exists /\ users[u].active /\ users[u].role = "admin"
NewUser == CHOOSE u \in Users : (\E v \in Users : ~users[v].exists) => ~users[u].exists
Taken(e) == \E u \in Users : users[u].exists /\ users[u].email = e

--------------------------------------------------------------------------------
(* Requests. *)

Starts(s, call) ==
  /\ calls[s].at = "idle"
  /\ called < MaxCalls
  /\ called' = called + 1
  /\ calls' = [calls EXCEPT ![s] = call]

Ends(s) == calls' = [calls EXCEPT ![s] = Idle]

(* create_invitation, for an administrator: the address has no user and no  *)
(* pending invitation ...                                                   *)
CreateInvitation(s, u, e, i, r) ==
  /\ Admin(u)
  /\ ~Taken(e)
  /\ \A j \in Invitations :
       ~( /\ invitations[j].state = "sent"
          /\ invitations[j].email = e
          /\ ~invitations[j].accepted
          /\ ~invitations[j].revoked )
  /\ Starts(s, [Idle EXCEPT !.op = "invite", !.at = "commit", !.actor = u,
                            !.email = e, !.invitation = i, !.role = r])
  /\ UNCHANGED <<users, invitations, setupLock, adminLock, rowLock>>

(* ... and it is inserted; nothing makes the address unique among the       *)
(* invitations.                                                             *)
InsertInvitation(s) ==
  LET c == calls[s] IN
  /\ c.op = "invite"
  /\ IF invitations[c.invitation].state = "none"
     THEN invitations' =
            [invitations EXCEPT ![c.invitation] =
               [NoInvitation EXCEPT !.state = "sent", !.email = c.email,
                                    !.role = c.role]]
     ELSE UNCHANGED invitations
  /\ Ends(s)
  /\ UNCHANGED <<users, setupLock, adminLock, rowLock, called>>

(* revoke_invitation: refused for an accepted one, by the row that was read. *)
RevokeInvitation(s, u, i) ==
  /\ Admin(u)
  /\ invitations[i].state = "sent"
  /\ ~invitations[i].accepted
  /\ Starts(s, [Idle EXCEPT !.op = "revoke", !.at = "commit", !.actor = u,
                            !.invitation = i])
  /\ UNCHANGED <<users, invitations, setupLock, adminLock, rowLock>>

CommitRevocation(s) ==
  /\ calls[s].op = "revoke"
  /\ invitations' = [invitations EXCEPT ![calls[s].invitation].revoked = TRUE]
  /\ Ends(s)
  /\ UNCHANGED <<users, setupLock, adminLock, rowLock, called>>

(* The invitation's time runs out. *)
InvitationExpires(i) ==
  /\ invitations[i].state = "sent"
  /\ ~invitations[i].expired
  /\ ~invitations[i].accepted
  /\ invitations' = [invitations EXCEPT ![i].expired = TRUE]
  /\ UNCHANGED <<users, calls, setupLock, adminLock, rowLock, called>>

(* register with a token: _resolve_invitation, by the row that is read. *)
ResolveInvitation(s, i) ==
  /\ invitations[i].state = "sent"
  /\ ~invitations[i].revoked
  /\ ~invitations[i].accepted
  /\ ~invitations[i].expired
  /\ Starts(s, [Idle EXCEPT !.op = "register", !.at = "commit",
                            !.email = invitations[i].email, !.invitation = i,
                            !.role = invitations[i].role])
  /\ UNCHANGED <<users, invitations, setupLock, adminLock, rowLock>>

(* register without a token waits for the bootstrap lock ... *)
StartSetup(s, e) ==
  /\ Starts(s, [Idle EXCEPT !.op = "setup", !.at = "waiting", !.email = e,
                            !.role = "admin"])
  /\ UNCHANGED <<users, invitations, setupLock, adminLock, rowLock>>

(* mutant: needs_setup is asked before the lock is held *)
TakeSetupLockLate(s) ==
  /\ calls[s].op = "setup"
  /\ calls[s].at = "waiting"
  /\ \/ /\ setupLock = Nobody
        /\ setupLock' = s
        /\ calls' = [calls EXCEPT ![s].at = "commit"]
     \/ /\ setupLock # Nobody
        /\ calls' = [calls EXCEPT ![s].at = "commit"]
        /\ UNCHANGED setupLock
  /\ UNCHANGED <<users, invitations, adminLock, rowLock, called>>

(* ... and looks for users (needs_setup) only once it holds it.  A wrong    *)
(* set-up token is refused too.                                             *)
TakeSetupLock(s) ==
  /\ calls[s].op = "setup"
  /\ calls[s].at = "waiting"
  /\ setupLock = Nobody
  /\ \/ Ends(s) /\ UNCHANGED setupLock
     \/ /\ \A u \in Users : ~users[u].exists
        /\ setupLock' = s
        /\ calls' = [calls EXCEPT ![s].at = "commit"]
  /\ UNCHANGED <<users, invitations, adminLock, rowLock, called>>

(* mutant: the acceptance and the unique address are forgotten *)
CommitRegistrationUnguarded(s) ==
  LET c == calls[s]
      u == NewUser IN
  /\ c.op \in {"register", "setup"}
  /\ c.at = "commit"
  /\ ~users[u].exists
  /\ users' = [users EXCEPT ![u] =
       [exists |-> TRUE, email |-> c.email, role |-> c.role,
        active |-> TRUE, via |-> c.invitation, moved |-> FALSE]]
  /\ setupLock' = IF setupLock = s THEN Nobody ELSE setupLock
  /\ Ends(s)
  /\ UNCHANGED <<invitations, adminLock, rowLock, called>>

(* The insert: user, acceptance, default categories and session are one     *)
(* transaction, refused when the address is taken (the check and the unique *)
(* index).                                                                  *)
CommitRegistration(s) ==
  LET c == calls[s]
      u == NewUser IN
  /\ c.op \in {"register", "setup"}
  /\ c.at = "commit"
  /\ IF Taken(c.email)
     THEN UNCHANGED <<users, invitations>>
     ELSE /\ ~users[u].exists
          /\ users' = [users EXCEPT ![u] =
               [exists |-> TRUE, email |-> c.email, role |-> c.role,
                active |-> TRUE, via |-> c.invitation, moved |-> FALSE]]
          /\ invitations' =
               IF c.op = "setup" THEN invitations
               ELSE [invitations EXCEPT ![c.invitation].accepted = TRUE]
  /\ setupLock' = IF setupLock = s THEN Nobody ELSE setupLock
  /\ Ends(s)
  /\ UNCHANGED <<adminLock, rowLock, called>>

(* update_user: a request that may take an administrator away waits for the *)
(* last-admin lock first.                                                   *)
Takes(c) == c.role = "member" \/ c.active = "off"

StartUpdate(s, a, t, r, b) ==
  /\ Admin(a)
  /\ users[t].exists
  /\ r # "keep" \/ b # "keep"
  /\ LET c == [Idle EXCEPT !.op = "update", !.actor = a, !.target = t,
                           !.role = r, !.active = b]
     IN  Starts(s, [c EXCEPT !.at = IF Takes(c) THEN "waiting" ELSE "row"])
  /\ UNCHANGED <<users, invitations, setupLock, adminLock, rowLock>>

(* mutant: the lock is not taken *)
TakeAdminLockNever(s) ==
  /\ calls[s].op = "update"
  /\ calls[s].at = "waiting"
  /\ calls' = [calls EXCEPT ![s].at = "row"]
  /\ UNCHANGED <<users, invitations, setupLock, adminLock, rowLock, called>>

TakeAdminLock(s) ==
  /\ calls[s].op = "update"
  /\ calls[s].at = "waiting"
  /\ adminLock = Nobody
  /\ adminLock' = s
  /\ calls' = [calls EXCEPT ![s].at = "row"]
  /\ UNCHANGED <<users, invitations, setupLock, rowLock, called>>

(* The target as the request sees it.  An administrator who changes his own *)
(* row already has it in the session, from the authentication; FOR UPDATE   *)
(* locks that row and does not read it again.                               *)
Seen(c) == IF c.target = c.actor
           THEN [role |-> "admin", active |-> TRUE]
           ELSE [role |-> users[c.target].role,
                 active |-> users[c.target].active]

Demoting(c) == c.role = "member" /\ Seen(c).role = "admin"
Deactivating(c) == c.active = "off" /\ Seen(c).active
Activating(c) == c.active = "on" /\ ~Seen(c).active
Regrading(c) == c.role # "keep" /\ c.role # Seen(c).role

(* The peer rule and the last-administrator rule, which counts the others   *)
(* in the database.                                                         *)
RefusesUpdate(c) ==
  \/ /\ c.target # c.actor
     /\ Seen(c).role = "admin"
     /\ Regrading(c) \/ Deactivating(c) \/ Activating(c)
  \/ /\ Seen(c).role = "admin"
     /\ Seen(c).active
     /\ Demoting(c) \/ Deactivating(c)
     /\ \A u \in Users \ {c.target} : ~Admin(u)

(* mutant: a refused request leaves the session open *)
LockTargetKeepsLock(s) ==
  LET c == calls[s] IN
  /\ c.op = "update"
  /\ c.at = "row"
  /\ rowLock[c.target] = Nobody
  /\ IF RefusesUpdate(c)
     THEN /\ Ends(s)
          /\ UNCHANGED <<adminLock, rowLock>>
     ELSE /\ rowLock' = [rowLock EXCEPT ![c.target] = s]
          /\ calls' = [calls EXCEPT ![s].at = "commit"]
          /\ UNCHANGED adminLock
  /\ UNCHANGED <<users, invitations, setupLock, called>>

LockTarget(s) ==
  LET c == calls[s] IN
  /\ c.op = "update"
  /\ c.at = "row"
  /\ rowLock[c.target] = Nobody
  /\ IF RefusesUpdate(c)
     THEN /\ Ends(s)
          /\ adminLock' = IF adminLock = s THEN Nobody ELSE adminLock
          /\ UNCHANGED rowLock
     ELSE /\ rowLock' = [rowLock EXCEPT ![c.target] = s]
          /\ calls' = [calls EXCEPT ![s].at = "commit"]
          /\ UNCHANGED adminLock
  /\ UNCHANGED <<users, invitations, setupLock, called>>

(* The fields that change are set and committed; the locks are released. *)
CommitUpdate(s) ==
  LET c == calls[s]
      u == users[c.target] IN
  /\ c.op = "update"
  /\ c.at = "commit"
  /\ users' = [users EXCEPT ![c.target] =
       [exists |-> u.exists, email |-> u.email,
        role |-> IF Regrading(c) THEN c.role ELSE u.role,
        active |-> IF Deactivating(c) \/ Activating(c)
                   THEN c.active = "on" ELSE u.active,
        via |-> u.via, moved |-> u.moved]]
  /\ rowLock' = [rowLock EXCEPT ![c.target] = Nobody]
  /\ adminLock' = IF adminLock = s THEN Nobody ELSE adminLock
  /\ Ends(s)
  /\ UNCHANGED <<invitations, setupLock, called>>

(* update_profile with a new address, after the password was confirmed. *)
StartProfile(s, u, e) ==
  /\ users[u].exists
  /\ users[u].active
  /\ users[u].email # e
  /\ ~Taken(e)
  /\ Starts(s, [Idle EXCEPT !.op = "profile", !.at = "commit", !.target = u,
                            !.email = e])
  /\ UNCHANGED <<users, invitations, setupLock, adminLock, rowLock>>

CommitProfile(s) ==
  LET c == calls[s] IN
  /\ c.op = "profile"
  /\ rowLock[c.target] = Nobody
  /\ IF Taken(c.email)
     THEN UNCHANGED users
     ELSE users' = [users EXCEPT ![c.target].email = c.email,
                                 ![c.target].moved = TRUE]
  /\ Ends(s)
  /\ UNCHANGED <<invitations, setupLock, adminLock, rowLock, called>>

MemberStep(s) ==
  \/ InsertInvitation(s)
  \/ CommitRevocation(s)
  \/ TakeSetupLock(s)
  \/ CommitRegistration(s)
  \/ TakeAdminLock(s)
  \/ LockTarget(s)
  \/ CommitUpdate(s)
  \/ CommitProfile(s)

MemberStart(s) ==
  \/ \E u \in Users, e \in Emails, i \in Invitations, r \in Roles :
       CreateInvitation(s, u, e, i, r)
  \/ \E u \in Users, i \in Invitations : RevokeInvitation(s, u, i)
  \/ \E i \in Invitations : ResolveInvitation(s, i)
  \/ \E e \in Emails : StartSetup(s, e)
  \/ \E a, t \in Users, r \in Roles \cup {"keep"},
        b \in {"keep", "on", "off"} : StartUpdate(s, a, t, r, b)
  \/ \E u \in Users, e \in Emails : StartProfile(s, u, e)

MembershipNext ==
  \/ \E s \in Servers : MemberStart(s) \/ MemberStep(s)
  \/ \E i \in Invitations : InvitationExpires(i)

MembershipSpec == MembershipInit /\ [][MembershipNext]_memberVars

--------------------------------------------------------------------------------
MembershipTypeOK ==
  /\ users \in [Users -> UserRow]
  /\ invitations \in [Invitations -> InvitationRow]
  /\ calls \in [Servers -> Call]
  /\ setupLock \in Servers \cup {Nobody}
  /\ adminLock \in Servers \cup {Nobody}
  /\ rowLock \in [Users -> Servers \cup {Nobody}]
  /\ called \in 0 .. MaxCalls

(* update_user's last-admin rule: from the moment the instance is set up it *)
(* has an active administrator, however the demotions and deactivations of  *)
(* several administrators overlap.                                          *)
AlwaysAnAdmin ==
  (\E u \in Users : users[u].exists) => \E u \in Users : Admin(u)

(* register's bootstrap lock: at most one account was ever created without  *)
(* an invitation, whatever number of set-up requests race on an empty       *)
(* instance.                                                                *)
OneFounder ==
  \A u, v \in Users :
    (users[u].exists /\ users[u].via = Nobody /\
     users[v].exists /\ users[v].via = Nobody) => u = v

(* One invitation admits one person: two registrations that race with the   *)
(* same token cannot both create an account, unless the first account had   *)
(* already moved to another address when the second was inserted.           *)
OneAccountPerInvitation ==
  \A u, v \in Users :
    (/\ u # v
     /\ users[u].exists /\ users[v].exists
     /\ users[u].via # Nobody /\ users[u].via = users[v].via)
      => users[u].moved \/ users[v].moved

(* The two advisory locks and the row locks are given back, and no circle   *)
(* of requests waits for them: while a request is in progress, one of the   *)
(* requests can go on.                                                      *)
NoRequestStuck ==
  (\E s \in Servers : calls[s].at # "idle")
    => ENABLED (\E s \in Servers : MemberStep(s))
================================================================================
