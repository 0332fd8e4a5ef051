-------------------------------- MODULE SignIn --------------------------------
(***************************************************************************)
(* Signing in to one account (services/auth.py, services/mcp_tokens.py):   *)
(* password and second factor with their attempt limits, one-time codes,   *)
(* backup codes, sessions, trusted devices and MCP tokens.                 *)
(*                                                                         *)
(* A request loads the account row once.  _reserve_attempt commits before  *)
(* the slow password check, and the session keeps what it has loaded over  *)
(* a commit, so what follows works on a copy (seen) other requests may     *)
(* have overtaken; only the conditional UPDATEs look at the row again.     *)
(* From the first UPDATE after a reservation to its commit a request holds *)
(* the row, and that stretch is one step.                                  *)
(***************************************************************************)
EXTENDS Naturals

CONSTANTS
  Clients,        \* browsers, each with its cookies and one request at a time
  MaxAttempts,    \* _PASSWORD_MAX_ATTEMPTS, _TOTP_MAX_ATTEMPTS
  Passwords,      \* passwords the account may have
  MaxSecret,      \* bound: enrolments
  MaxStep,        \* bound: the time steps of the codes
  MaxSet,         \* bound: sets of backup codes
  MaxRequests     \* bound: requests in a behaviour

ASSUME SignInAssumption ==
  /\ MaxAttempts \in Nat \ {0}
  /\ MaxSecret \in Nat \ {0} /\ MaxStep \in Nat \ {0} /\ MaxSet \in Nat \ {0}
  /\ Passwords # {} /\ MaxRequests \in Nat

VARIABLES
  acct,           \* the user row: password, activity, second factor
  count,          \* factor -> *_failed_attempts
  locked,         \* factor -> is *_locked_until in the future?
  codes,          \* set of backup codes -> the state of one code of it
  sessions,       \* client -> is the session of its cookie valid?
  devices,        \* client -> is its trusted-device cookie valid?
  mcp,            \* is some MCP token not revoked?
  requests,       \* client -> the request it waits for
  now,            \* time step of the clock
  secrets,        \* secrets generated so far
  sets,           \* sets of backup codes generated so far
  asked,          \* requests so far
  guesses,        \* history: factor -> guesses checked since it was last free
  uses            \* history: code -> times it was accepted

signInVars == <<acct, count, locked, codes, sessions, devices, mcp, requests,
                now, secrets, sets, asked, guesses, uses>>

Factors == {"password", "code"}
Secrets == 0 .. MaxSecret
Steps == 0 .. MaxStep

(* What a user types: the code an authenticator with a secret shows in a    *)
(* time step, the backup code of a set (secret 0), or digits that match     *)
(* nothing (0, 0).                                                          *)
Code == [secret : Secrets, step : Nat]
NoCode == [secret |-> 0, step |-> 0]

(* User: floor is totp_last_step (0: NULL), secret 0 is no ciphertext. *)
Account ==
  [pw : Passwords, active : BOOLEAN, secret : Secrets, confirmed : BOOLEAN,
   floor : Steps]

Request ==
  [op : {"none", "login", "recover", "password", "setup", "confirm",
         "regenerate", "disable"},
   at : {"idle", "reserve", "check", "reserve2", "check2", "commit"},
   pw : Passwords, new : Passwords, code : Code, trust : BOOLEAN,
   tries : Nat, seen : Account, old : Nat]

NoRequest ==
  LET p == CHOOSE p \in Passwords : TRUE IN
  [op |-> "none", at |-> "idle", pw |-> p, new |-> p, code |-> NoCode,
   trust |-> FALSE, tries |-> 0,
   seen |-> [pw |-> p, active |-> FALSE, secret |-> 0, confirmed |-> FALSE,
             floor |-> 0],
   old |-> 0]

(* An account with its browsers signed in, enrolled or not. *)
SignInInit ==
  /\ acct \in {[pw |-> CHOOSE p \in Passwords : TRUE, active |-> TRUE,
                secret |-> IF on THEN 1 ELSE 0, confirmed |-> on,
                floor |-> IF on THEN 1 ELSE 0] : on \in BOOLEAN}
  /\ count = [f \in Factors |-> 0]
  /\ locked = [f \in Factors |-> FALSE]
  /\ codes = [k \in 1 .. MaxSet |->
                IF k = 1 /\ acct.confirmed THEN "fresh" ELSE "none"]
  /\ sessions = [c \in Clients |-> TRUE]
  /\ devices = [c \in Clients |-> FALSE]
  /\ mcp = FALSE
  /\ requests = [c \in Clients |-> NoRequest]
  /\ now = 1
  /\ secrets = acct.secret
  /\ sets = acct.secret
  /\ asked = 0
  /\ guesses = [f \in Factors |-> 0]
  /\ uses = [x \in Secrets \X (0 .. MaxStep + MaxSet) |-> 0]

--------------------------------------------------------------------------------
(* The attempt limits. *)

(* _reserve_attempt: the number k of the guess, 0 while the factor is       *)
(* locked.  The guess beyond the allowance locks.                           *)
Reserves(f, k) ==
  IF locked[f]
  THEN k = 0 /\ UNCHANGED <<count, locked, guesses>>
  ELSE IF count[f] + 1 > MaxAttempts
  THEN /\ k = 0
       /\ count' = [count EXCEPT ![f] = 0]
       /\ locked' = [locked EXCEPT ![f] = TRUE]
       /\ UNCHANGED guesses
  ELSE /\ k = count[f] + 1
       /\ count' = [count EXCEPT ![f] = k]
       /\ guesses' = [guesses EXCEPT ![f] = guesses[f] + 1]
       /\ UNCHANGED locked

(* mutant: the counter starts again and no lock is set *)
FailsWithoutLock(f, k) ==
  /\ count' = [count EXCEPT ![f] = IF k >= MaxAttempts THEN 0 ELSE count[f]]
  /\ UNCHANGED <<locked, guesses>>

(* A wrong guess: the last allowed one engages the lock (_engage_lock). *)
Fails(f, k) ==
  /\ IF k >= MaxAttempts
     THEN /\ count' = [count EXCEPT ![f] = 0]
          /\ locked' = [locked EXCEPT ![f] = TRUE]
     ELSE UNCHANGED <<count, locked>>
  /\ UNCHANGED guesses

(* _clear_attempts: a right one starts afresh, even while locked. *)
Clears(f) ==
  /\ count' = [count EXCEPT ![f] = 0]
  /\ locked' = [locked EXCEPT ![f] = FALSE]
  /\ guesses' = [guesses EXCEPT ![f] = 0]

(* The lockout runs out. *)
LockExpires(f) ==
  /\ locked[f]
  /\ locked' = [locked EXCEPT ![f] = FALSE]
  /\ guesses' = [guesses EXCEPT ![f] = 0]
  /\ UNCHANGED <<acct, count, codes, sessions, devices, mcp, requests, now,
                 secrets, sets, asked, uses>>

--------------------------------------------------------------------------------
(* Requests. *)

RequestEnds(c) == requests' = [requests EXCEPT ![c] = NoRequest]

Moves(c, at, k) ==
  requests' = [requests EXCEPT ![c].at = at, ![c].tries = k]

(* get_current_session: a valid session of an active account. *)
SignedIn(c) == sessions[c] /\ acct.active

(* verify_code: one step of skew either way, nothing at or below the floor. *)
Matches(seen, code, floor) ==
  /\ seen.secret # 0
  /\ code.secret = seen.secret
  /\ code.step \in (IF now > 0 THEN now - 1 ELSE 0) .. now + 1
  /\ code.step > floor

(* The request arrives, and what it can refuse at once by the row it loads. *)
Begins(c, op, pw, new, code, trust) ==
  /\ requests[c].at = "idle"
  /\ asked < MaxRequests
  /\ CASE op = "login" -> TRUE
       [] op = "recover" -> acct.active /\ acct.confirmed
       [] op \in {"password", "setup"} -> SignedIn(c)
       [] op = "confirm" -> /\ SignedIn(c)
                            /\ ~acct.confirmed
                            /\ Matches(acct, code, 0)
       [] OTHER -> SignedIn(c) /\ acct.confirmed
  /\ asked' = asked + 1
  /\ requests' = [requests EXCEPT ![c] =
       [op |-> op,
        at |-> CASE op \in {"login", "password", "setup"} -> "reserve"
                 [] op = "confirm" -> "commit"
                 [] OTHER -> "reserve2",
        pw |-> pw, new |-> new, code |-> code, trust |-> trust, tries |-> 0,
        seen |-> acct, old |-> sets]]
  /\ UNCHANGED <<acct, count, locked, codes, sessions, devices, mcp, now,
                 secrets, sets, guesses, uses>>

(* _verify_password_with_lockout: count the guess, commit ... *)
ReservePassword(c) ==
  /\ requests[c].at = "reserve"
  /\ \E k \in 0 .. MaxAttempts :
       /\ Reserves("password", k)
       /\ IF k = 0 THEN RequestEnds(c) ELSE Moves(c, "check", k)
  /\ UNCHANGED <<acct, codes, sessions, devices, mcp, now, secrets, sets,
                 asked, uses>>

(* ... and check it against the row that was loaded. *)
PasswordRight(r) == r.at = "check" /\ r.pw = r.seen.pw

PasswordWrong(c) ==
  /\ requests[c].at = "check"
  /\ ~PasswordRight(requests[c])
  /\ Fails("password", requests[c].tries)
  /\ RequestEnds(c)
  /\ UNCHANGED <<acct, codes, sessions, devices, mcp, now, secrets, sets,
                 asked, uses>>

(* login: the challenge, unless the browser is trusted. *)
Challenged(c) == requests[c].seen.confirmed /\ ~devices[c]

(* An inactive account, or an enrolment that is already confirmed: the      *)
(* refusal rolls the cleared counter back.                                  *)
RefusedAfterPassword(c) ==
  LET r == requests[c] IN
  /\ PasswordRight(r)
  /\ \/ r.op = "login" /\ ~r.seen.active
     \/ r.op = "setup" /\ r.seen.confirmed
  /\ RequestEnds(c)
  /\ UNCHANGED <<acct, count, locked, codes, sessions, devices, mcp, now,
                 secrets, sets, asked, guesses, uses>>

(* auth.totp_required: the client comes back with a code. *)
LoginAsksForCode(c) ==
  LET r == requests[c] IN
  /\ PasswordRight(r)
  /\ r.op = "login"
  /\ r.seen.active
  /\ Challenged(c)
  /\ Clears("password")
  /\ IF r.code = NoCode THEN RequestEnds(c) ELSE Moves(c, "reserve2", 0)
  /\ UNCHANGED <<acct, codes, sessions, devices, mcp, now, secrets, sets,
                 asked, uses>>

(* _mint_session without a challenge. *)
LoginByPassword(c) ==
  LET r == requests[c] IN
  /\ PasswordRight(r)
  /\ r.op = "login"
  /\ r.seen.active
  /\ ~Challenged(c)
  /\ Clears("password")
  /\ sessions' = [sessions EXCEPT ![c] = TRUE]
  /\ RequestEnds(c)
  /\ UNCHANGED <<acct, codes, devices, mcp, now, secrets, sets, asked, uses>>

(* change_password: every other session, the devices and the tokens go. *)
ChangePassword(c) ==
  LET r == requests[c] IN
  /\ PasswordRight(r)
  /\ r.op = "password"
  /\ Clears("password")
  /\ acct' = [acct EXCEPT !.pw = r.new]
  /\ sessions' = [d \in Clients |-> d = c /\ sessions[d]]
  /\ devices' = [d \in Clients |-> FALSE]
  /\ mcp' = FALSE
  /\ RequestEnds(c)
  /\ UNCHANGED <<codes, now, secrets, sets, asked, uses>>

(* setup_totp: confirm_password, then start_totp_enrollment.  The floor is  *)
(* written when the loaded row had one.                                     *)
StartEnrollment(c) ==
  LET r == requests[c] IN
  /\ PasswordRight(r)
  /\ r.op = "setup"
  /\ ~r.seen.confirmed
  /\ secrets < MaxSecret
  /\ Clears("password")
  /\ secrets' = secrets + 1
  /\ acct' = [acct EXCEPT !.secret = secrets + 1,
                          !.floor = IF r.seen.floor # 0 THEN 0 ELSE acct.floor]
  /\ uses' = [x \in DOMAIN uses |-> IF x[1] = 0 THEN uses[x] ELSE 0]
  /\ RequestEnds(c)
  /\ UNCHANGED <<codes, sessions, devices, mcp, now, sets, asked>>

(* _replace_backup_codes: the sets up to old are deleted, one is added. *)
ReplacesCodes(old) ==
  /\ sets < MaxSet
  /\ sets' = sets + 1
  /\ codes' = [k \in 1 .. MaxSet |->
                 CASE k = sets + 1 -> "fresh"
                   [] k <= old -> "none"
                   [] OTHER -> codes[k]]

(* confirm_totp: the code was right for the loaded secret.  The codes are   *)
(* deleted before the row is held, so a set that another confirmation added *)
(* meanwhile stays.                                                         *)
ConfirmTotp(c) ==
  LET r == requests[c] IN
  /\ r.at = "commit"
  /\ acct' = [acct EXCEPT !.confirmed = TRUE,
                          !.floor = IF r.code.step = r.seen.floor
                                    THEN acct.floor ELSE r.code.step]
  /\ uses' = [x \in DOMAIN uses |-> IF x[1] = 0 THEN uses[x] ELSE 0]
  /\ ReplacesCodes(r.old)
  /\ RequestEnds(c)
  /\ UNCHANGED <<count, locked, sessions, devices, mcp, now, secrets, asked,
                 guesses>>

(* _consume_second_factor: count the guess, commit ... *)
ReserveCode(c) ==
  /\ requests[c].at = "reserve2"
  /\ \E k \in 0 .. MaxAttempts :
       /\ Reserves("code", k)
       /\ IF k = 0 THEN RequestEnds(c) ELSE Moves(c, "check2", k)
  /\ UNCHANGED <<acct, codes, sessions, devices, mcp, now, secrets, sets,
                 asked, uses>>

(* ... find the step or the backup code by the loaded row ... *)
StepFound(r) == r.seen.confirmed /\ Matches(r.seen, r.code, r.seen.floor)

BackupFound(r) ==
  /\ ~StepFound(r)
  /\ r.code.secret = 0
  /\ r.code.step \in 1 .. MaxSet
  /\ codes[r.code.step] = "fresh"

(* mutant: the step is recorded without looking at the row again *)
ClaimsStale(r) == StepFound(r) \/ BackupFound(r)

(* ... and claim it by a conditional UPDATE: _claim_totp_step,              *)
(* _claim_backup_code.                                                      *)
Claims(r) ==
  \/ StepFound(r) /\ acct.floor < r.code.step
  \/ BackupFound(r)

Uses(code) == <<code.secret, code.step>>

CodeWrong(c) ==
  LET r == requests[c] IN
  /\ r.at = "check2"
  /\ ~Claims(r)
  /\ Fails("code", r.tries)
  /\ RequestEnds(c)
  /\ UNCHANGED <<acct, codes, sessions, devices, mcp, now, secrets, sets,
                 asked, uses>>

Claimed(r, old) ==
  IF StepFound(r) THEN old ELSE [old EXCEPT ![r.code.step] = "used"]

(* What every accepted code does; the floor is that of the claim. *)
Accepts(c, op) ==
  LET r == requests[c] IN
  /\ r.at = "check2"
  /\ r.op = op
  /\ Claims(r)
  /\ Clears("code")
  /\ RequestEnds(c)
  /\ UNCHANGED <<now, secrets, asked>>

Floor(r) == IF StepFound(r) THEN r.code.step ELSE acct.floor

Counted(r) == [uses EXCEPT ![Uses(r.code)] = uses[Uses(r.code)] + 1]

LoginByCode(c) ==
  LET r == requests[c] IN
  /\ Accepts(c, "login")
  /\ acct' = [acct EXCEPT !.floor = Floor(r)]
  /\ codes' = Claimed(r, codes)
  /\ uses' = Counted(r)
  /\ sessions' = [sessions EXCEPT ![c] = TRUE]
  /\ devices' = [devices EXCEPT ![c] = devices[c] \/ r.trust]
  /\ UNCHANGED <<mcp, sets>>

(* recover_password: every session, device and token goes. *)
RecoverPassword(c) ==
  LET r == requests[c] IN
  /\ Accepts(c, "recover")
  /\ acct' = [acct EXCEPT !.floor = Floor(r), !.pw = r.new]
  /\ codes' = Claimed(r, codes)
  /\ uses' = Counted(r)
  /\ sessions' = [d \in Clients |-> FALSE]
  /\ devices' = [d \in Clients |-> FALSE]
  /\ mcp' = FALSE
  /\ UNCHANGED sets

RegenerateBackupCodes(c) ==
  LET r == requests[c] IN
  /\ Accepts(c, "regenerate")
  /\ acct' = [acct EXCEPT !.floor = Floor(r)]
  /\ ReplacesCodes(sets)
  /\ uses' = Counted(r)
  /\ UNCHANGED <<sessions, devices, mcp>>

(* disable_totp: the floor is cleared when the session knows one. *)
DisableTotp(c) ==
  LET r == requests[c] IN
  /\ Accepts(c, "disable")
  /\ acct' = [acct EXCEPT !.secret = 0, !.confirmed = FALSE,
       !.floor = IF StepFound(r) \/ r.seen.floor # 0 THEN 0 ELSE acct.floor]
  /\ codes' = [k \in 1 .. MaxSet |-> "none"]
  /\ uses' = [x \in DOMAIN uses |->
                IF x[1] # 0 THEN 0 ELSE Counted(r)[x]]
  /\ devices' = [d \in Clients |-> FALSE]
  /\ UNCHANGED <<sessions, mcp, sets>>

--------------------------------------------------------------------------------
(* The rest of the account's life. *)

(* revoke_session *)
Logout(c) ==
  /\ SignedIn(c)
  /\ asked < MaxRequests
  /\ asked' = asked + 1
  /\ sessions' = [sessions EXCEPT ![c] = FALSE]
  /\ UNCHANGED <<acct, count, locked, codes, devices, mcp, requests, now,
                 secrets, sets, guesses, uses>>

(* A trusted device runs out of its time.  (_prune_expired_auth deletes such *)
(* rows, which no request can tell.)                                         *)
DeviceExpires(c) ==
  /\ devices[c]
  /\ devices' = [devices EXCEPT ![c] = FALSE]
  /\ UNCHANGED <<acct, count, locked, codes, sessions, mcp, requests, now,
                 secrets, sets, asked, guesses, uses>>

(* update_user's effects on the account of a deactivated user *)
SetActive(b) ==
  /\ acct.active # b
  /\ asked < MaxRequests
  /\ asked' = asked + 1
  /\ acct' = [acct EXCEPT !.active = b]
  /\ IF b THEN UNCHANGED <<sessions, devices, mcp>>
     ELSE /\ sessions' = [c \in Clients |-> FALSE]
          /\ devices' = [c \in Clients |-> FALSE]
          /\ mcp' = FALSE
  /\ UNCHANGED <<count, locked, codes, requests, now, secrets, sets, guesses,
                 uses>>

(* mcp_tokens.create and revoke *)
ChangeToken(c) ==
  /\ SignedIn(c)
  /\ asked < MaxRequests
  /\ asked' = asked + 1
  /\ mcp' = ~mcp
  /\ UNCHANGED <<acct, count, locked, codes, sessions, devices, requests, now,
                 secrets, sets, guesses, uses>>

Tick ==
  /\ now < MaxStep
  /\ now' = now + 1
  /\ UNCHANGED <<acct, count, locked, codes, sessions, devices, mcp, requests,
                 secrets, sets, asked, guesses, uses>>

--------------------------------------------------------------------------------
SignInStep(c) ==
  \/ ReservePassword(c)
  \/ PasswordWrong(c)
  \/ RefusedAfterPassword(c)
  \/ LoginAsksForCode(c)
  \/ LoginByPassword(c)
  \/ ChangePassword(c)
  \/ StartEnrollment(c)
  \/ ConfirmTotp(c)
  \/ ReserveCode(c)
  \/ CodeWrong(c)
  \/ LoginByCode(c)
  \/ RecoverPassword(c)
  \/ RegenerateBackupCodes(c)
  \/ DisableTotp(c)

(* The codes people type: those of the secrets there are, around now, and   *)
(* the backup codes of the sets there are.                                  *)
Typed ==
  {NoCode}
    \cup {[secret |-> s, step |-> t] :
            s \in 1 .. secrets, t \in {u \in 1 .. MaxStep : u <= now + 1}}
    \cup {[secret |-> 0, step |-> k] : k \in 1 .. sets}

SignInNext ==
  \/ \E c \in Clients : SignInStep(c)
  \/ \E c \in Clients, pw \in Passwords, code \in Typed, trust \in BOOLEAN :
       /\ code = NoCode => ~trust
       /\ Begins(c, "login", pw, pw, code, trust)
  \/ \E c \in Clients, new \in Passwords, code \in Typed :
       Begins(c, "recover", acct.pw, new, code, FALSE)
  \/ \E c \in Clients, pw, new \in Passwords :
       Begins(c, "password", pw, new, NoCode, FALSE)
  \/ \E c \in Clients, pw \in Passwords :
       Begins(c, "setup", pw, pw, NoCode, FALSE)
  \/ \E c \in Clients, op \in {"confirm", "regenerate", "disable"},
        code \in Typed : Begins(c, op, acct.pw, acct.pw, code, FALSE)
  \/ \E c \in Clients : Logout(c) \/ DeviceExpires(c) \/ ChangeToken(c)
  \/ \E f \in Factors : LockExpires(f)
  \/ \E b \in BOOLEAN : SetActive(b)
  \/ Tick

SignInSpec == SignInInit /\ [][SignInNext]_signInVars

--------------------------------------------------------------------------------
SignInTypeOK ==
  /\ acct \in Account
  /\ count \in [Factors -> 0 .. MaxAttempts]
  /\ locked \in [Factors -> BOOLEAN]
  /\ codes \in [1 .. MaxSet -> {"none", "fresh", "used"}]
  /\ sessions \in [Clients -> BOOLEAN]
  /\ devices \in [Clients -> BOOLEAN]
  /\ mcp \in BOOLEAN
  /\ requests \in [Clients -> Request]
  /\ now \in 1 .. MaxStep
  /\ secrets \in Secrets
  /\ sets \in 0 .. MaxSet
  /\ asked \in 0 .. MaxRequests
  /\ guesses \in [Factors -> Nat]
  /\ uses \in [Secrets \X (0 .. MaxStep + MaxSet) -> Nat]

(* _reserve_attempt counts a guess before it is checked: however many       *)
(* requests guess at the same time, at most MaxAttempts of them are checked *)
(* between two moments at which the factor was free (a right guess, or the  *)
(* end of a lockout).                                                       *)
GuessesBounded == \A f \in Factors : guesses[f] <= MaxAttempts

(* _claim_totp_step, _claim_backup_code: requests that race with the same   *)
(* code, on copies of the row taken before either of them claimed it: a     *)
(* step of the clock is accepted once in the life of an enrolment, and a    *)
(* backup code once, whoever uses it and for whatever purpose, whether or   *)
(* not its set is replaced meanwhile.                                       *)
CodesWorkOnce ==
  /\ \A x \in DOMAIN uses : x[1] # 0 => uses[x] <= 1
  /\ \A k \in 1 .. MaxSet : uses[<<0, k>>] <= 1
================================================================================
