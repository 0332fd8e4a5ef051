----------------------------- MODULE SignInProofs -----------------------------
(***************************************************************************)
(* Theorems about SignIn, for any number of browsers, attempts, secrets,   *)
(* time steps and sets of backup codes.                                    *)
(*                                                                         *)
(* Requests work on copies of the account that may be arbitrarily old, so  *)
(* nothing is assumed of a copy but its type.  What holds up is what the   *)
(* writes themselves look at: a guess is counted in the step that allows   *)
(* it, a time step is accepted only above the floor, which the same UPDATE *)
(* raises to it, and a backup code only while it is fresh.                 *)
(***************************************************************************)
EXTENDS SignIn, TLAPS

(* The attempt limits: a factor that is not locked has checked no more      *)
(* guesses than its counter says.                                           *)
LimitsOK ==
  /\ count \in [Factors -> 0 .. MaxAttempts]
  /\ locked \in [Factors -> BOOLEAN]
  /\ guesses \in [Factors -> Nat]
  /\ \A f \in Factors : /\ guesses[f] <= MaxAttempts
                        /\ ~locked[f] => guesses[f] <= count[f]

Uppermost == MaxStep + MaxSet

(* Codes of an authenticator: the used ones are not above the floor. *)
StepsOnce ==
  \A s \in Secrets, t \in 0 .. Uppermost :
    s # 0 => /\ uses[<<s, t>>] <= 1
             /\ uses[<<s, t>>] # 0 => t <= acct.floor

(* Backup codes: the used ones are not fresh, the sets to come are unused. *)
BackupsFit(u, cs, n) ==
  \A k \in 1 .. MaxSet :
    /\ u[<<0, k>>] <= 1
    /\ u[<<0, k>>] # 0 => cs[k] # "fresh" /\ k <= n
    /\ cs[k] = "fresh" => k <= n

BackupsOnce == BackupsFit(uses, codes, sets)

AccountOK ==
  /\ acct \in Account
  /\ codes \in [1 .. MaxSet -> {"none", "fresh", "used"}]
  /\ uses \in [Secrets \X (0 .. Uppermost) -> Nat]
  /\ sets \in 0 .. MaxSet
  /\ secrets \in Secrets
  /\ StepsOnce
  /\ BackupsOnce

(* A code of an authenticator names a time step, and an enrolment is        *)
(* confirmed by such a code.                                                *)
RequestOK(r) ==
  /\ r \in Request
  /\ r.code.secret # 0 => r.code.step \in Steps
  /\ r.at = "commit" => r.code.secret # 0

RequestsOK ==
  /\ requests \in [Clients -> Request]
  /\ \A c \in Clients : RequestOK(requests[c])

RestOK ==
  /\ sessions \in [Clients -> BOOLEAN]
  /\ devices \in [Clients -> BOOLEAN]
  /\ mcp \in BOOLEAN
  /\ now \in 1 .. MaxStep
  /\ asked \in 0 .. MaxRequests

(* The inductive invariant. *)
SignInInv == LimitsOK /\ AccountOK /\ RequestsOK /\ RestOK

LEMMA PasswordChosen == (CHOOSE p \in Passwords : TRUE) \in Passwords
BY SignInAssumption

LEMMA NoRequestOK == RequestOK(NoRequest) /\ NoRequest.at = "idle"
<1>1. PICK p \in Passwords : p = CHOOSE q \in Passwords : TRUE
  BY PasswordChosen
<1>2. NoCode \in Code /\ NoCode.secret = 0
  BY SignInAssumption DEF NoCode, Code, Secrets
<1>3. [pw |-> p, active |-> FALSE, secret |-> 0, confirmed |-> FALSE, floor |-> 0] \in Account
  BY SignInAssumption DEF Account, Secrets, Steps
<1>4. NoRequest = [op |-> "none", at |-> "idle", pw |-> p, new |-> p, code |-> NoCode,
        trust |-> FALSE, tries |-> 0,
        seen |-> [pw |-> p, active |-> FALSE, secret |-> 0, confirmed |-> FALSE,
                  floor |-> 0],
        old |-> 0]
  BY <1>1 DEF NoRequest
<1> QED
  BY <1>2, <1>3, <1>4 DEF RequestOK, Request

LEMMA InitHolds == SignInInit => SignInInv
<1> SUFFICES ASSUME SignInInit PROVE SignInInv
  OBVIOUS
<1>1. LimitsOK
  BY SignInAssumption DEF SignInInit, LimitsOK, Factors
<1>2. PICK on \in BOOLEAN :
        acct = [pw |-> CHOOSE p \in Passwords : TRUE, active |-> TRUE,
                secret |-> IF on THEN 1 ELSE 0, confirmed |-> on,
                floor |-> IF on THEN 1 ELSE 0]
  BY DEF SignInInit
<1>3. /\ acct \in Account
      /\ acct.secret = (IF on THEN 1 ELSE 0) /\ acct.confirmed = on
  BY <1>2, PasswordChosen, SignInAssumption DEF Account, Secrets, Steps
<1>4. /\ uses = [x \in Secrets \X (0 .. Uppermost) |-> 0]
      /\ codes = [k \in 1 .. MaxSet |-> IF k = 1 /\ acct.confirmed THEN "fresh" ELSE "none"]
      /\ sets = acct.secret /\ secrets = acct.secret
  BY DEF SignInInit, Uppermost
<1>5. \A s \in Secrets, t \in 0 .. Uppermost : uses[<<s, t>>] = 0
  BY <1>4
<1>6. StepsOnce
  BY <1>5 DEF StepsOnce
<1>7. BackupsOnce
  <2>1. \A k \in 1 .. MaxSet : k \in 0 .. Uppermost /\ 0 \in Secrets
    BY SignInAssumption DEF Uppermost, Secrets
  <2> QED
    BY <1>3, <1>4, <1>5, <2>1 DEF BackupsOnce, BackupsFit
<1>8. AccountOK
  BY <1>3, <1>4, <1>6, <1>7, SignInAssumption DEF AccountOK, Secrets
<1>9. RequestsOK
  <2>1. NoRequest \in Request
    BY NoRequestOK DEF RequestOK
  <2>2. requests = [c \in Clients |-> NoRequest]
    BY DEF SignInInit
  <2>3. \A c \in Clients : requests[c] = NoRequest
    BY <2>2
  <2> QED
    BY <2>1, <2>2, <2>3, NoRequestOK DEF RequestsOK
<1>10. RestOK
  <2>1. sessions \in [Clients -> BOOLEAN] /\ devices \in [Clients -> BOOLEAN] /\ mcp \in BOOLEAN
    BY Zenon DEF SignInInit
  <2>2. now \in 1 .. MaxStep /\ asked \in 0 .. MaxRequests
    BY SignInAssumption DEF SignInInit
  <2> QED
    BY <2>1, <2>2 DEF RestOK
<1> QED
  BY <1>1, <1>8, <1>9, <1>10 DEF SignInInv

--------------------------------------------------------------------------------
(* The attempt limits. *)

LEMMA ReservesKeeps ==
  ASSUME LimitsOK, NEW f \in Factors, NEW k, Reserves(f, k)
  PROVE  LimitsOK'
<1>1. CASE locked[f]
  BY <1>1 DEF Reserves, LimitsOK
<1>2. CASE ~locked[f] /\ count[f] + 1 > MaxAttempts
  <2>1. /\ count' = [count EXCEPT ![f] = 0]
        /\ locked' = [locked EXCEPT ![f] = TRUE]
        /\ guesses' = guesses
    BY <1>2 DEF Reserves
  <2> QED
    BY <2>1, SignInAssumption DEF LimitsOK
<1>3. CASE ~locked[f] /\ ~(count[f] + 1 > MaxAttempts)
  <2>1. /\ count' = [count EXCEPT ![f] = count[f] + 1]
        /\ guesses' = [guesses EXCEPT ![f] = guesses[f] + 1]
        /\ locked' = locked
    BY <1>3 DEF Reserves
  <2>2. count[f] + 1 \in 0 .. MaxAttempts /\ guesses[f] + 1 <= count[f] + 1
          /\ guesses[f] + 1 \in Nat
    BY <1>3, SignInAssumption DEF LimitsOK
  <2> QED
    BY <2>1, <2>2, SignInAssumption DEF LimitsOK
<1> QED
  BY <1>1, <1>2, <1>3

LEMMA FailsKeeps ==
  ASSUME LimitsOK, NEW f \in Factors, NEW k, Fails(f, k)
  PROVE  LimitsOK'
<1>1. CASE k >= MaxAttempts
  <2>1. /\ count' = [count EXCEPT ![f] = 0]
        /\ locked' = [locked EXCEPT ![f] = TRUE]
        /\ guesses' = guesses
    BY <1>1 DEF Fails
  <2> QED
    BY <2>1, SignInAssumption DEF LimitsOK
<1>2. CASE ~(k >= MaxAttempts)
  BY <1>2 DEF Fails, LimitsOK
<1> QED
  BY <1>1, <1>2

LEMMA ClearsKeeps ==
  ASSUME LimitsOK, NEW f \in Factors, Clears(f)
  PROVE  LimitsOK'
BY SignInAssumption DEF Clears, LimitsOK

LEMMA LimitsUnchanged ==
  ASSUME LimitsOK, UNCHANGED <<count, locked, guesses>>
  PROVE  LimitsOK'
BY DEF LimitsOK

LEMMA AccountUnchanged ==
  ASSUME AccountOK, UNCHANGED <<acct, codes, uses, sets, secrets>>
  PROVE  AccountOK'
BY DEF AccountOK, StepsOnce, BackupsOnce, BackupsFit

--------------------------------------------------------------------------------
(* The requests. *)

LEMMA RequestSet ==
  ASSUME RequestsOK, NEW c \in Clients, NEW r, RequestOK(r),
         requests' = [requests EXCEPT ![c] = r]
  PROVE  RequestsOK'
BY DEF RequestsOK, RequestOK

LEMMA EndsKeeps ==
  ASSUME RequestsOK, NEW c \in Clients, RequestEnds(c)
  PROVE  RequestsOK'
BY NoRequestOK, RequestSet DEF RequestEnds

LEMMA MovesKeeps ==
  ASSUME RequestsOK, NEW c \in Clients, NEW k \in Nat,
         NEW at \in {"check", "reserve2", "check2"}, Moves(c, at, k)
  PROVE  RequestsOK'
<1>1. PICK r : r = [requests[c] EXCEPT !.at = at, !.tries = k]
  OBVIOUS
<1>2. requests[c] \in Request /\ RequestOK(requests[c])
  BY DEF RequestsOK
<1>3. RequestOK(r)
  BY <1>1, <1>2 DEF RequestOK, Request
<1>4. requests' = [requests EXCEPT ![c] = r]
  BY <1>1, <1>2 DEF Moves, RequestsOK
<1> QED
  BY <1>3, <1>4, RequestSet

LEMMA RequestsUnchanged ==
  ASSUME RequestsOK, UNCHANGED requests
  PROVE  RequestsOK'
BY DEF RequestsOK, RequestOK

LEMMA Began ==
  ASSUME SignInInv, NEW c \in Clients,
         NEW op \in {"login", "recover", "password", "setup", "confirm", "regenerate",
                     "disable"},
         NEW pw \in Passwords, NEW new \in Passwords, NEW code \in Code,
         code.secret # 0 => code.step \in Steps,
         NEW trust \in BOOLEAN, Begins(c, op, pw, new, code, trust)
  PROVE  SignInInv'
<1>1. PICK at \in {"reserve", "commit", "reserve2"} :
        at = CASE op \in {"login", "password", "setup"} -> "reserve"
               [] op = "confirm" -> "commit"
               [] OTHER -> "reserve2"
  OBVIOUS
<1>2. PICK r : r = [op |-> op, at |-> at, pw |-> pw, new |-> new, code |-> code,
                    trust |-> trust, tries |-> 0, seen |-> acct, old |-> sets]
  OBVIOUS
<1>3. acct \in Account /\ sets \in Nat
  BY DEF SignInInv, AccountOK
<1>4. r \in Request
  BY <1>1, <1>2, <1>3 DEF Request
<1>5. RequestOK(r)
  <2>1. op = "confirm" => code.secret # 0
    BY DEF Begins, Matches
  <2> QED
    BY <1>1, <1>2, <1>4, <2>1 DEF RequestOK
<1>6. requests' = [requests EXCEPT ![c] = r]
  BY <1>1, <1>2 DEF Begins
<1>7. RequestsOK'
  BY <1>5, <1>6, RequestSet DEF SignInInv
<1>8. /\ UNCHANGED <<acct, count, locked, codes, sessions, devices, mcp, now, secrets, sets,
                      guesses, uses>>
      /\ asked < MaxRequests /\ asked' = asked + 1
  BY DEF Begins
<1>9. RestOK'
  BY <1>8, SignInAssumption DEF SignInInv, RestOK
<1> QED
  BY <1>7, <1>8, <1>9, LimitsUnchanged, AccountUnchanged DEF SignInInv

--------------------------------------------------------------------------------
(* What a claimed code leaves. *)

LEMMA ClaimFacts ==
  ASSUME AccountOK, NEW r, RequestOK(r), Claims(r)
  PROVE  /\ Floor(r) \in Steps /\ acct.floor <= Floor(r)
         /\ Counted(r) \in [Secrets \X (0 .. Uppermost) -> Nat]
         /\ Claimed(r, codes) \in [1 .. MaxSet -> {"none", "fresh", "used"}]
         /\ \A s \in Secrets, t \in 0 .. Uppermost :
              s # 0 => /\ Counted(r)[<<s, t>>] <= 1
                       /\ Counted(r)[<<s, t>>] # 0 => t <= Floor(r)
         /\ BackupsFit(Counted(r), Claimed(r, codes), sets)
<1> DEFINE D == Secrets \X (0 .. Uppermost)
<1>1. /\ acct.floor \in Steps /\ uses \in [D -> Nat]
      /\ codes \in [1 .. MaxSet -> {"none", "fresh", "used"}]
      /\ r.code.secret \in Secrets /\ r.code.step \in Nat
  BY DEF AccountOK, Account, RequestOK, Request, Code
<1>2. PICK x : x = <<r.code.secret, r.code.step>>
  OBVIOUS
<1>3. Counted(r) = [uses EXCEPT ![x] = uses[x] + 1]
  BY <1>2 DEF Counted, Uses
<1>4. Counted(r) \in [D -> Nat]
  <2>1. x \in D => uses[x] + 1 \in Nat
    BY <1>1
  <2> HIDE DEF D
  <2> QED
    BY <1>1, <1>3, <2>1
<1>5. \A s \in Secrets, t \in 0 .. Uppermost :
        Counted(r)[<<s, t>>] = IF r.code.secret = s /\ r.code.step = t
                               THEN uses[<<s, t>>] + 1 ELSE uses[<<s, t>>]
  BY <1>1, <1>2, <1>3
<1>6. \A k \in 1 .. MaxSet : k \in 0 .. Uppermost /\ 0 \in Secrets
  BY SignInAssumption DEF Uppermost, Secrets
<1>7. CASE StepFound(r) /\ acct.floor < r.code.step
  <2>1. r.code.secret # 0 /\ r.code.step \in Steps
    BY <1>7 DEF StepFound, Matches, RequestOK
  <2>2. Floor(r) = r.code.step /\ Claimed(r, codes) = codes
    BY <1>7 DEF Floor, Claimed
  <2>3. Floor(r) \in Steps /\ acct.floor <= Floor(r)
    BY <1>1, <1>7, <2>1, <2>2, SignInAssumption DEF Steps
  <2>4. ASSUME NEW s \in Secrets, NEW t \in 0 .. Uppermost, s # 0
        PROVE  /\ Counted(r)[<<s, t>>] <= 1
               /\ Counted(r)[<<s, t>>] # 0 => t <= Floor(r)
    <3>1. /\ uses[<<s, t>>] \in Nat /\ uses[<<s, t>>] <= 1
          /\ uses[<<s, t>>] # 0 => t <= acct.floor
      BY <1>1, <2>4 DEF AccountOK, StepsOnce
    <3>2. t = r.code.step => uses[<<s, t>>] = 0
      BY <1>1, <1>7, <3>1, SignInAssumption DEF Steps
    <3> QED
      BY <1>1, <1>5, <1>7, <2>2, <3>1, <3>2, SignInAssumption DEF Steps
  <2>5. \A k \in 1 .. MaxSet : Counted(r)[<<0, k>>] = uses[<<0, k>>]
    BY <1>5, <1>6, <2>1
  <2> QED
    BY <1>1, <1>4, <2>2, <2>3, <2>4, <2>5 DEF AccountOK, BackupsOnce, BackupsFit
<1>8. CASE BackupFound(r)
  <2>1. ~StepFound(r) /\ r.code.secret = 0 /\ r.code.step \in 1 .. MaxSet
          /\ codes[r.code.step] = "fresh"
    BY <1>8 DEF BackupFound
  <2>2. Floor(r) = acct.floor /\ Claimed(r, codes) = [codes EXCEPT ![r.code.step] = "used"]
    BY <2>1 DEF Floor, Claimed
  <2>3. Floor(r) \in Steps /\ acct.floor <= Floor(r)
    BY <1>1, <2>2, SignInAssumption DEF Steps
  <2>4. \A s \in Secrets, t \in 0 .. Uppermost :
          s # 0 => Counted(r)[<<s, t>>] = uses[<<s, t>>]
    BY <1>5, <2>1
  <2>5. Claimed(r, codes) \in [1 .. MaxSet -> {"none", "fresh", "used"}]
    BY <1>1, <2>1, <2>2
  <2>6. ASSUME NEW k \in 1 .. MaxSet
        PROVE  /\ Counted(r)[<<0, k>>] <= 1
               /\ Counted(r)[<<0, k>>] # 0 => Claimed(r, codes)[k] # "fresh" /\ k <= sets
               /\ Claimed(r, codes)[k] = "fresh" => k <= sets
    <3>1. /\ uses[<<0, k>>] \in Nat /\ uses[<<0, k>>] <= 1
          /\ uses[<<0, k>>] # 0 => codes[k] # "fresh" /\ k <= sets
          /\ codes[k] = "fresh" => k <= sets
      BY <1>1, <1>6 DEF AccountOK, BackupsOnce, BackupsFit
    <3>2. CASE k = r.code.step
      BY <1>1, <1>5, <1>6, <2>1, <2>2, <3>1, <3>2
    <3>3. CASE k # r.code.step
      BY <1>1, <1>5, <1>6, <2>1, <2>2, <3>1, <3>3
    <3> QED
      BY <3>2, <3>3
  <2> QED
    BY <1>4, <2>2, <2>3, <2>4, <2>5, <2>6 DEF AccountOK, StepsOnce, BackupsFit
<1> QED
  BY <1>7, <1>8 DEF Claims

(* The account after an accepted code, but for a reset of the enrolment. *)
LEMMA AcceptedKeeps ==
  ASSUME AccountOK, NEW r, RequestOK(r), Claims(r), NEW a \in Account,
         a.floor = Floor(r), acct' = a, codes' = Claimed(r, codes), uses' = Counted(r),
         UNCHANGED <<sets, secrets>>
  PROVE  AccountOK'
<1>1. StepsOnce'
  BY ClaimFacts DEF StepsOnce, Uppermost, Secrets
<1>2. BackupsOnce'
  BY ClaimFacts DEF BackupsOnce, BackupsFit
<1> QED
  BY <1>1, <1>2, ClaimFacts DEF AccountOK, Uppermost

(* Forgetting the uses of the authenticator allows any floor. *)
LEMMA ResetKeeps ==
  ASSUME AccountOK, NEW a \in Account, acct' = a, secrets' \in Secrets,
         NEW u \in [Secrets \X (0 .. Uppermost) -> Nat],
         uses' = [x \in DOMAIN uses |-> IF x[1] = 0 THEN u[x] ELSE 0],
         codes' \in [1 .. MaxSet -> {"none", "fresh", "used"}], sets' \in 0 .. MaxSet,
         BackupsFit(u, codes', sets')
  PROVE  AccountOK'
<1> DEFINE D == Secrets \X (0 .. Uppermost)
<1>1. DOMAIN uses = D
  BY DEF AccountOK
<1>2. uses' = [x \in D |-> IF x[1] = 0 THEN u[x] ELSE 0]
  BY <1>1
<1>3. uses' \in [D -> Nat]
  <2>1. \A x \in D : (IF x[1] = 0 THEN u[x] ELSE 0) \in Nat
    OBVIOUS
  <2> HIDE DEF D
  <2> QED
    BY <1>2, <2>1
<1>4. \A s \in Secrets, t \in 0 .. Uppermost :
        uses'[<<s, t>>] = IF s = 0 THEN u[<<s, t>>] ELSE 0
  BY <1>2
<1>5. StepsOnce'
  <2>1. \A s \in Secrets, t \in 0 .. Uppermost : s # 0 => uses'[<<s, t>>] = 0
    BY <1>4
  <2> QED
    BY <2>1 DEF StepsOnce
<1>6. \A k \in 1 .. MaxSet : k \in 0 .. Uppermost /\ 0 \in Secrets
  BY SignInAssumption DEF Uppermost, Secrets
<1>7. \A k \in 1 .. MaxSet : uses'[<<0, k>>] = u[<<0, k>>]
  BY <1>4, <1>6
<1>8. BackupsOnce'
  BY <1>7 DEF BackupsOnce, BackupsFit
<1> QED
  BY <1>3, <1>5, <1>8 DEF AccountOK, Uppermost, Secrets

(* A new set of backup codes is one that was never used. *)
LEMMA ReplacedFacts ==
  ASSUME codes \in [1 .. MaxSet -> {"none", "fresh", "used"}], sets \in 0 .. MaxSet,
         NEW u, NEW old \in Nat, ReplacesCodes(old),
         BackupsFit(u, codes, sets)
  PROVE  /\ codes' \in [1 .. MaxSet -> {"none", "fresh", "used"}] /\ sets' \in 0 .. MaxSet
         /\ BackupsFit(u, codes', sets')
<1>1. /\ sets < MaxSet /\ sets' = sets + 1
      /\ codes' = [k \in 1 .. MaxSet |-> CASE k = sets + 1 -> "fresh"
                                           [] k <= old -> "none"
                                           [] OTHER -> codes[k]]
  BY DEF ReplacesCodes
<1>2. codes' \in [1 .. MaxSet -> {"none", "fresh", "used"}] /\ sets' \in 0 .. MaxSet
  BY <1>1, SignInAssumption
<1>3. ASSUME NEW k \in 1 .. MaxSet
      PROVE  /\ u[<<0, k>>] # 0 => codes'[k] # "fresh" /\ k <= sets'
             /\ codes'[k] = "fresh" => k <= sets'
  <2>1. CASE k = sets + 1
    <3>1. u[<<0, k>>] = 0
      BY <2>1, SignInAssumption DEF BackupsFit
    <3> QED
      BY <1>1, <2>1, <3>1, SignInAssumption
  <2>2. CASE k # sets + 1
    <3>1. codes'[k] = "none" \/ codes'[k] = codes[k]
      BY <1>1, <2>2
    <3> QED
      BY <1>1, <3>1, SignInAssumption DEF BackupsFit
  <2> QED
    BY <2>1, <2>2
<1> QED
  BY <1>2, <1>3 DEF BackupsFit

--------------------------------------------------------------------------------
(* One lemma per action. *)

LEMMA RestSteps ==
  ASSUME RestOK, UNCHANGED <<now, asked>>, sessions' \in [Clients -> BOOLEAN],
         devices' \in [Clients -> BOOLEAN], mcp' \in BOOLEAN
  PROVE  RestOK'
BY DEF RestOK

LEMMA ReserveKeeps ==
  ASSUME SignInInv, NEW c \in Clients, ReservePassword(c) \/ ReserveCode(c)
  PROVE  SignInInv'
<1>1. PICK f \in Factors, k \in 0 .. MaxAttempts, at \in {"check", "check2"} :
        Reserves(f, k) /\ (RequestEnds(c) \/ Moves(c, at, k))
  BY DEF ReservePassword, ReserveCode, Factors
<1>2. UNCHANGED <<acct, codes, sessions, devices, mcp, now, secrets, sets, asked, uses>>
  BY DEF ReservePassword, ReserveCode
<1>3. k \in Nat
  BY SignInAssumption
<1>4. LimitsOK'
  BY <1>1, ReservesKeeps DEF SignInInv
<1>5. RequestsOK'
  BY <1>1, <1>3, EndsKeeps, MovesKeeps DEF SignInInv
<1>6. RestOK'
  BY <1>2 DEF SignInInv, RestOK
<1> QED
  BY <1>2, <1>4, <1>5, <1>6, AccountUnchanged DEF SignInInv

LEMMA WrongKeeps ==
  ASSUME SignInInv, NEW c \in Clients, PasswordWrong(c) \/ CodeWrong(c)
  PROVE  SignInInv'
<1>1. PICK f \in Factors : Fails(f, requests[c].tries)
  BY DEF PasswordWrong, CodeWrong, Factors
<1>2. /\ UNCHANGED <<acct, codes, sessions, devices, mcp, now, secrets, sets, asked, uses>>
      /\ RequestEnds(c)
  BY DEF PasswordWrong, CodeWrong
<1>3. LimitsOK'
  BY <1>1, FailsKeeps DEF SignInInv
<1>4. RequestsOK'
  BY <1>2, EndsKeeps DEF SignInInv
<1>5. RestOK'
  BY <1>2 DEF SignInInv, RestOK
<1> QED
  BY <1>2, <1>3, <1>4, <1>5, AccountUnchanged DEF SignInInv

LEMMA RefusedKeeps ==
  ASSUME SignInInv, NEW c \in Clients, RefusedAfterPassword(c)
  PROVE  SignInInv'
<1>1. /\ UNCHANGED <<acct, count, locked, codes, sessions, devices, mcp, now, secrets, sets,
                      asked, guesses, uses>>
      /\ RequestEnds(c)
  BY DEF RefusedAfterPassword
<1>2. RestOK'
  BY <1>1 DEF SignInInv, RestOK
<1> QED
  BY <1>1, <1>2, EndsKeeps, AccountUnchanged, LimitsUnchanged DEF SignInInv

LEMMA AskedKeeps ==
  ASSUME SignInInv, NEW c \in Clients, LoginAsksForCode(c)
  PROVE  SignInInv'
<1>1. /\ UNCHANGED <<acct, codes, sessions, devices, mcp, now, secrets, sets, asked, uses>>
      /\ Clears("password")
      /\ RequestEnds(c) \/ Moves(c, "reserve2", 0)
  BY DEF LoginAsksForCode
<1>2. LimitsOK'
  BY <1>1, ClearsKeeps DEF SignInInv, Factors
<1>3. RequestsOK'
  BY <1>1, EndsKeeps, MovesKeeps DEF SignInInv
<1>4. RestOK'
  BY <1>1 DEF SignInInv, RestOK
<1> QED
  BY <1>1, <1>2, <1>3, <1>4, AccountUnchanged DEF SignInInv

LEMMA SessionSet ==
  ASSUME RestOK, NEW c \in Clients, NEW b \in BOOLEAN
  PROVE  /\ [sessions EXCEPT ![c] = b] \in [Clients -> BOOLEAN]
         /\ [devices EXCEPT ![c] = b] \in [Clients -> BOOLEAN]
         /\ [d \in Clients |-> FALSE] \in [Clients -> BOOLEAN]
         /\ [d \in Clients |-> d = c /\ sessions[d]] \in [Clients -> BOOLEAN]
BY Zenon DEF RestOK

LEMMA PasswordLoginKeeps ==
  ASSUME SignInInv, NEW c \in Clients, LoginByPassword(c)
  PROVE  SignInInv'
<1>1. /\ UNCHANGED <<acct, codes, devices, mcp, now, secrets, sets, asked, uses>>
      /\ Clears("password") /\ RequestEnds(c)
      /\ sessions' = [sessions EXCEPT ![c] = TRUE]
  BY DEF LoginByPassword
<1>2. LimitsOK'
  BY <1>1, ClearsKeeps DEF SignInInv, Factors
<1>3. RestOK /\ devices \in [Clients -> BOOLEAN] /\ mcp \in BOOLEAN
  BY DEF SignInInv, RestOK
<1>4. RestOK'
  BY <1>1, <1>3, SessionSet, RestSteps
<1> QED
  BY <1>1, <1>2, <1>4, EndsKeeps, AccountUnchanged DEF SignInInv

LEMMA ChangeKeeps ==
  ASSUME SignInInv, NEW c \in Clients, ChangePassword(c)
  PROVE  SignInInv'
<1>1. /\ UNCHANGED <<codes, now, secrets, sets, asked, uses>>
      /\ Clears("password") /\ RequestEnds(c)
      /\ sessions' = [d \in Clients |-> d = c /\ sessions[d]]
      /\ devices' = [d \in Clients |-> FALSE] /\ mcp' = FALSE
      /\ acct' = [acct EXCEPT !.pw = requests[c].new]
  BY DEF ChangePassword
<1>2. LimitsOK'
  BY <1>1, ClearsKeeps DEF SignInInv, Factors
<1>3. RestOK'
  BY <1>1, SessionSet, RestSteps DEF SignInInv
<1>4. acct' \in Account /\ acct'.floor = acct.floor
  BY <1>1 DEF SignInInv, AccountOK, RequestsOK, Account, Request
<1>5. AccountOK'
  BY <1>1, <1>4 DEF SignInInv, AccountOK, StepsOnce, BackupsOnce, BackupsFit
<1> QED
  BY <1>1, <1>2, <1>3, <1>5, EndsKeeps DEF SignInInv

LEMMA SetActiveKeeps ==
  ASSUME SignInInv, NEW b \in BOOLEAN, SetActive(b)
  PROVE  SignInInv'
<1>1. /\ UNCHANGED <<count, locked, codes, requests, now, secrets, sets, guesses, uses>>
      /\ asked < MaxRequests /\ asked' = asked + 1
      /\ acct' = [acct EXCEPT !.active = b]
  BY DEF SetActive
<1>2. /\ sessions' \in [Clients -> BOOLEAN] /\ devices' \in [Clients -> BOOLEAN]
      /\ mcp' \in BOOLEAN
  BY Zenon DEF SetActive, SignInInv, RestOK
<1>3. asked' \in 0 .. MaxRequests /\ now' \in 1 .. MaxStep
  BY <1>1, SignInAssumption DEF SignInInv, RestOK
<1>4. acct' \in Account /\ acct'.floor = acct.floor
  BY <1>1 DEF SignInInv, AccountOK, Account
<1>5. AccountOK'
  BY <1>1, <1>4 DEF SignInInv, AccountOK, StepsOnce, BackupsOnce, BackupsFit
<1> QED
  BY <1>1, <1>2, <1>3, <1>5, LimitsUnchanged, RequestsUnchanged DEF SignInInv, RestOK

LEMMA EnrollKeeps ==
  ASSUME SignInInv, NEW c \in Clients, StartEnrollment(c)
  PROVE  SignInInv'
<1>1. /\ UNCHANGED <<codes, sessions, devices, mcp, now, sets, asked>>
      /\ Clears("password") /\ RequestEnds(c)
      /\ secrets < MaxSecret /\ secrets' = secrets + 1
      /\ uses' = [x \in DOMAIN uses |-> IF x[1] = 0 THEN uses[x] ELSE 0]
      /\ acct' = [acct EXCEPT !.secret = secrets + 1,
                   !.floor = IF requests[c].seen.floor # 0 THEN 0 ELSE acct.floor]
  BY DEF StartEnrollment
<1>2. LimitsOK'
  BY <1>1, ClearsKeeps DEF SignInInv, Factors
<1>3. RestOK'
  BY <1>1 DEF SignInInv, RestOK
<1>4. secrets + 1 \in Secrets /\ 0 \in Steps /\ acct \in Account
  BY <1>1, SignInAssumption DEF SignInInv, AccountOK, Secrets, Steps
<1>5. acct' \in Account
  BY <1>1, <1>4 DEF Account
<1>6. /\ uses \in [Secrets \X (0 .. Uppermost) -> Nat] /\ BackupsFit(uses, codes, sets)
      /\ codes \in [1 .. MaxSet -> {"none", "fresh", "used"}] /\ sets \in 0 .. MaxSet
      /\ AccountOK
  BY DEF SignInInv, AccountOK, BackupsOnce
<1>7. PICK u, a : u = uses /\ a = acct'
  OBVIOUS
<1>8. AccountOK'
  BY <1>1, <1>4, <1>5, <1>6, <1>7, ResetKeeps
<1> QED
  BY <1>1, <1>2, <1>3, <1>8, EndsKeeps DEF SignInInv

LEMMA ConfirmKeeps ==
  ASSUME SignInInv, NEW c \in Clients, ConfirmTotp(c)
  PROVE  SignInInv'
<1>1. /\ UNCHANGED <<count, locked, sessions, devices, mcp, now, secrets, asked, guesses>>
      /\ RequestEnds(c) /\ ReplacesCodes(requests[c].old) /\ requests[c].at = "commit"
      /\ uses' = [x \in DOMAIN uses |-> IF x[1] = 0 THEN uses[x] ELSE 0]
      /\ acct' = [acct EXCEPT !.confirmed = TRUE,
                   !.floor = IF requests[c].code.step = requests[c].seen.floor
                             THEN acct.floor ELSE requests[c].code.step]
  BY DEF ConfirmTotp
<1>2. RestOK'
  BY <1>1 DEF SignInInv, RestOK
<1>3. requests[c].code.step \in Steps /\ requests[c].old \in Nat
  BY <1>1 DEF SignInInv, RequestsOK, RequestOK, Request
<1>4. acct' \in Account
  BY <1>1, <1>3 DEF SignInInv, AccountOK, Account
<1>5. /\ uses \in [Secrets \X (0 .. Uppermost) -> Nat] /\ BackupsFit(uses, codes, sets)
      /\ codes \in [1 .. MaxSet -> {"none", "fresh", "used"}] /\ sets \in 0 .. MaxSet
      /\ AccountOK /\ secrets \in Secrets
  BY DEF SignInInv, AccountOK, BackupsOnce
<1>6. PICK u, a : u = uses /\ a = acct'
  OBVIOUS
<1>7. /\ codes' \in [1 .. MaxSet -> {"none", "fresh", "used"}] /\ sets' \in 0 .. MaxSet
      /\ BackupsFit(u, codes', sets')
  BY <1>1, <1>3, <1>5, <1>6, ReplacedFacts
<1>8. AccountOK'
  BY <1>1, <1>4, <1>5, <1>6, <1>7, ResetKeeps
<1> QED
  BY <1>1, <1>2, <1>8, EndsKeeps, LimitsUnchanged DEF SignInInv

LEMMA CodeLoginKeeps ==
  ASSUME SignInInv, NEW c \in Clients, LoginByCode(c)
  PROVE  SignInInv'
<1>1. PICK r : r = requests[c]
  OBVIOUS
<1>2. /\ UNCHANGED <<now, secrets, asked, mcp, sets>>
      /\ RequestEnds(c) /\ Clears("code") /\ Claims(r)
      /\ acct' = [acct EXCEPT !.floor = Floor(r)]
      /\ codes' = Claimed(r, codes) /\ uses' = Counted(r)
      /\ sessions' = [sessions EXCEPT ![c] = TRUE]
      /\ devices' = [devices EXCEPT ![c] = devices[c] \/ r.trust]
  BY <1>1 DEF LoginByCode, Accepts
<1>3. RequestOK(r) /\ AccountOK /\ RestOK
  BY <1>1 DEF SignInInv, RequestsOK
<1>4. PICK a : a = acct'
  OBVIOUS
<1>5. a \in Account /\ a.floor = Floor(r)
  BY <1>2, <1>3, <1>4, ClaimFacts DEF AccountOK, Account
<1>6. AccountOK'
  BY <1>2, <1>3, <1>4, <1>5, AcceptedKeeps
<1>7. (devices[c] \/ r.trust) \in BOOLEAN /\ mcp \in BOOLEAN
  BY <1>3 DEF RestOK
<1>8. RestOK'
  BY <1>2, <1>3, <1>7, SessionSet, RestSteps
<1>9. LimitsOK'
  BY <1>2, ClearsKeeps DEF SignInInv, Factors
<1> QED
  BY <1>2, <1>6, <1>8, <1>9, EndsKeeps DEF SignInInv

LEMMA RecoverKeeps ==
  ASSUME SignInInv, NEW c \in Clients, RecoverPassword(c)
  PROVE  SignInInv'
<1>1. PICK r : r = requests[c]
  OBVIOUS
<1>2. /\ UNCHANGED <<now, secrets, asked, sets>>
      /\ RequestEnds(c) /\ Clears("code") /\ Claims(r)
      /\ acct' = [acct EXCEPT !.floor = Floor(r), !.pw = r.new]
      /\ codes' = Claimed(r, codes) /\ uses' = Counted(r)
      /\ sessions' = [d \in Clients |-> FALSE]
      /\ devices' = [d \in Clients |-> FALSE] /\ mcp' = FALSE
  BY <1>1 DEF RecoverPassword, Accepts
<1>3. RequestOK(r) /\ AccountOK /\ RestOK
  BY <1>1 DEF SignInInv, RequestsOK
<1>4. PICK a : a = acct'
  OBVIOUS
<1>5. a \in Account /\ a.floor = Floor(r)
  BY <1>2, <1>3, <1>4, ClaimFacts DEF AccountOK, Account, RequestOK, Request
<1>6. AccountOK'
  BY <1>2, <1>3, <1>4, <1>5, AcceptedKeeps
<1>7. RestOK'
  BY <1>2, <1>3, SessionSet, RestSteps
<1>8. LimitsOK'
  BY <1>2, ClearsKeeps DEF SignInInv, Factors
<1> QED
  BY <1>2, <1>6, <1>7, <1>8, EndsKeeps DEF SignInInv

LEMMA RegenerateKeeps ==
  ASSUME SignInInv, NEW c \in Clients, RegenerateBackupCodes(c)
  PROVE  SignInInv'
<1>1. PICK r : r = requests[c]
  OBVIOUS
<1>2. /\ UNCHANGED <<now, secrets, asked, sessions, devices, mcp>>
      /\ RequestEnds(c) /\ Clears("code") /\ Claims(r)
      /\ acct' = [acct EXCEPT !.floor = Floor(r)]
      /\ ReplacesCodes(sets) /\ uses' = Counted(r)
  BY <1>1 DEF RegenerateBackupCodes, Accepts
<1>3. RequestOK(r) /\ AccountOK /\ RestOK
  BY <1>1 DEF SignInInv, RequestsOK
<1>4. acct' \in Account /\ acct'.floor = Floor(r)
  BY <1>2, <1>3, ClaimFacts DEF AccountOK, Account
<1>5. StepsOnce'
  BY <1>2, <1>3, <1>4, ClaimFacts DEF StepsOnce
<1>6. /\ sets < MaxSet /\ sets \in 0 .. MaxSet /\ sets' = sets + 1
      /\ codes' = [k \in 1 .. MaxSet |-> CASE k = sets + 1 -> "fresh"
                                           [] k <= sets -> "none"
                                           [] OTHER -> codes[k]]
      /\ codes \in [1 .. MaxSet -> {"none", "fresh", "used"}]
  BY <1>2, <1>3 DEF ReplacesCodes, AccountOK
<1>7. codes' \in [1 .. MaxSet -> {"none", "fresh", "used"}] /\ sets' \in 0 .. MaxSet
  BY <1>6, SignInAssumption
<1>8. BackupsOnce'
  <2>1. BackupsFit(Counted(r), Claimed(r, codes), sets) /\ BackupsFit(uses, codes, sets)
    BY <1>2, <1>3, ClaimFacts DEF AccountOK, BackupsOnce
  <2>2. ASSUME NEW k \in 1 .. MaxSet
        PROVE  /\ uses'[<<0, k>>] <= 1
               /\ uses'[<<0, k>>] # 0 => codes'[k] # "fresh" /\ k <= sets'
               /\ codes'[k] = "fresh" => k <= sets'
    <3>1. /\ uses'[<<0, k>>] <= 1 /\ (uses'[<<0, k>>] # 0 => k <= sets)
          /\ codes[k] = "fresh" => k <= sets
      BY <1>2, <2>1 DEF BackupsFit
    <3>2. codes'[k] = "fresh" => k = sets + 1
      BY <1>6, <3>1, SignInAssumption
    <3> QED
      BY <1>6, <3>1, <3>2, SignInAssumption
  <2> QED
    BY <2>2 DEF BackupsOnce, BackupsFit
<1>9. AccountOK'
  BY <1>2, <1>3, <1>4, <1>5, <1>7, <1>8, ClaimFacts DEF AccountOK
<1>10. RestOK'
  BY <1>2, <1>3 DEF RestOK
<1>11. LimitsOK'
  BY <1>2, ClearsKeeps DEF SignInInv, Factors
<1> QED
  BY <1>2, <1>9, <1>10, <1>11, EndsKeeps DEF SignInInv

LEMMA DisableKeeps ==
  ASSUME SignInInv, NEW c \in Clients, DisableTotp(c)
  PROVE  SignInInv'
<1>1. PICK r : r = requests[c]
  OBVIOUS
<1>2. /\ UNCHANGED <<now, secrets, asked, sessions, mcp, sets>>
      /\ RequestEnds(c) /\ Clears("code") /\ Claims(r)
      /\ acct' = [acct EXCEPT !.secret = 0, !.confirmed = FALSE,
                   !.floor = IF StepFound(r) \/ r.seen.floor # 0 THEN 0 ELSE acct.floor]
      /\ codes' = [k \in 1 .. MaxSet |-> "none"]
      /\ uses' = [x \in DOMAIN uses |-> IF x[1] # 0 THEN 0 ELSE Counted(r)[x]]
      /\ devices' = [d \in Clients |-> FALSE]
  BY <1>1 DEF DisableTotp, Accepts
<1>3. RequestOK(r) /\ AccountOK /\ RestOK
  BY <1>1 DEF SignInInv, RequestsOK
<1>4. PICK u, a : u = Counted(r) /\ a = acct'
  OBVIOUS
<1>5. a \in Account
  <2>1. 0 \in Secrets /\ 0 \in Steps /\ acct \in Account
    BY <1>3, SignInAssumption DEF AccountOK, Secrets, Steps
  <2> QED
    BY <1>2, <1>4, <2>1 DEF Account
<1>6. /\ u \in [Secrets \X (0 .. Uppermost) -> Nat]
      /\ BackupsFit(u, Claimed(r, codes), sets)
      /\ sets \in 0 .. MaxSet /\ secrets \in Secrets
  BY <1>2, <1>3, <1>4, ClaimFacts DEF AccountOK
<1>7. codes' \in [1 .. MaxSet -> {"none", "fresh", "used"}] /\ BackupsFit(u, codes', sets')
  BY <1>2, <1>6 DEF BackupsFit
<1>8. uses' = [x \in DOMAIN uses |-> IF x[1] = 0 THEN u[x] ELSE 0]
  BY <1>2, <1>4
<1>9. AccountOK'
  BY <1>2, <1>3, <1>4, <1>5, <1>6, <1>7, <1>8, ResetKeeps
<1>10. RestOK'
  BY <1>2, <1>3, SessionSet, RestSteps DEF RestOK
<1>11. LimitsOK'
  BY <1>2, ClearsKeeps DEF SignInInv, Factors
<1> QED
  BY <1>2, <1>9, <1>10, <1>11, EndsKeeps DEF SignInInv

LEMMA AccountLifeKeeps ==
  ASSUME SignInInv, NEW c \in Clients, Logout(c) \/ DeviceExpires(c) \/ ChangeToken(c)
  PROVE  SignInInv'
<1>1. UNCHANGED <<acct, count, locked, codes, requests, now, secrets, sets, guesses, uses>>
  BY DEF Logout, DeviceExpires, ChangeToken
<1>2. RestOK
  BY DEF SignInInv
<1>3. asked' \in 0 .. MaxRequests
  BY <1>2, SignInAssumption DEF Logout, DeviceExpires, ChangeToken, RestOK
<1>4. /\ sessions' \in [Clients -> BOOLEAN] /\ devices' \in [Clients -> BOOLEAN]
      /\ mcp' \in BOOLEAN
  <2>1. sessions' = sessions \/ sessions' = [sessions EXCEPT ![c] = FALSE]
    BY DEF Logout, DeviceExpires, ChangeToken
  <2>2. devices' = devices \/ devices' = [devices EXCEPT ![c] = FALSE]
    BY DEF Logout, DeviceExpires, ChangeToken
  <2>3. mcp' = mcp \/ mcp' = ~mcp
    BY DEF Logout, DeviceExpires, ChangeToken
  <2> QED
    BY <1>2, <2>1, <2>2, <2>3, SessionSet DEF RestOK
<1>5. RestOK'
  BY <1>1, <1>2, <1>3, <1>4 DEF RestOK
<1> QED
  BY <1>1, <1>5, AccountUnchanged, LimitsUnchanged, RequestsUnchanged DEF SignInInv

LEMMA ClockKeeps ==
  ASSUME SignInInv, Tick \/ \E f \in Factors : LockExpires(f)
  PROVE  SignInInv'
<1>1. UNCHANGED <<acct, count, codes, sessions, devices, mcp, requests, secrets, sets, asked,
                  uses>>
  BY DEF Tick, LockExpires
<1>2. now' \in 1 .. MaxStep
  BY SignInAssumption DEF Tick, LockExpires, SignInInv, RestOK
<1>3. LimitsOK'
  <2>1. CASE Tick
    BY <2>1, LimitsUnchanged DEF Tick, SignInInv
  <2>2. ASSUME NEW f \in Factors, LockExpires(f)
        PROVE  LimitsOK'
    BY <2>2, SignInAssumption DEF LockExpires, SignInInv, LimitsOK
  <2> QED
    BY <2>1, <2>2
<1>4. RestOK'
  BY <1>1, <1>2 DEF SignInInv, RestOK
<1> QED
  BY <1>1, <1>3, <1>4, AccountUnchanged, RequestsUnchanged DEF SignInInv

--------------------------------------------------------------------------------
LEMMA TypedCodes ==
  ASSUME SignInInv, NEW code \in Typed
  PROVE  code \in Code /\ (code.secret # 0 => code.step \in Steps)
<1>1. CASE code = NoCode
  BY <1>1, SignInAssumption DEF NoCode, Code, Secrets
<1>2. ASSUME NEW s \in 1 .. secrets, NEW t \in 1 .. MaxStep,
             code = [secret |-> s, step |-> t]
      PROVE  code \in Code /\ (code.secret # 0 => code.step \in Steps)
  BY <1>2, SignInAssumption DEF SignInInv, AccountOK, Code, Secrets, Steps
<1>3. ASSUME NEW k \in 1 .. sets, code = [secret |-> 0, step |-> k]
      PROVE  code \in Code /\ (code.secret # 0 => code.step \in Steps)
  BY <1>3, SignInAssumption DEF SignInInv, AccountOK, Code, Secrets
<1> QED
  BY <1>1, <1>2, <1>3 DEF Typed

LEMMA StepHolds == SignInInv /\ [SignInNext]_signInVars => SignInInv'
<1> SUFFICES ASSUME SignInInv, [SignInNext]_signInVars PROVE SignInInv'
  OBVIOUS
<1>1. ASSUME NEW c \in Clients, SignInStep(c) PROVE SignInInv'
  BY <1>1, ReserveKeeps, WrongKeeps, RefusedKeeps, AskedKeeps, PasswordLoginKeeps, ChangeKeeps,
     EnrollKeeps, ConfirmKeeps, CodeLoginKeeps, RecoverKeeps, RegenerateKeeps, DisableKeeps
     DEF SignInStep
<1>2. acct.pw \in Passwords
  BY DEF SignInInv, AccountOK, Account
<1>3. NoCode \in Typed
  BY DEF Typed
<1>4. ASSUME NEW c \in Clients, NEW pw \in Passwords, NEW code \in Typed,
             NEW trust \in BOOLEAN, Begins(c, "login", pw, pw, code, trust)
      PROVE  SignInInv'
  BY <1>4, TypedCodes, Began
<1>5. ASSUME NEW c \in Clients, NEW new \in Passwords, NEW code \in Typed,
             Begins(c, "recover", acct.pw, new, code, FALSE)
      PROVE  SignInInv'
  BY <1>2, <1>5, TypedCodes, Began
<1>6. ASSUME NEW c \in Clients, NEW pw \in Passwords, NEW new \in Passwords,
             Begins(c, "password", pw, new, NoCode, FALSE)
      PROVE  SignInInv'
  BY <1>3, <1>6, TypedCodes, Began
<1>7. ASSUME NEW c \in Clients, NEW pw \in Passwords,
             Begins(c, "setup", pw, pw, NoCode, FALSE)
      PROVE  SignInInv'
  BY <1>3, <1>7, TypedCodes, Began
<1>8. ASSUME NEW c \in Clients, NEW op \in {"confirm", "regenerate", "disable"},
             NEW code \in Typed, Begins(c, op, acct.pw, acct.pw, code, FALSE)
      PROVE  SignInInv'
  BY <1>2, <1>8, TypedCodes, Began
<1>9. ASSUME NEW b \in BOOLEAN, SetActive(b) PROVE SignInInv'
  BY <1>9, SetActiveKeeps
<1>10. CASE UNCHANGED signInVars
  <2>1. RestOK'
    BY <1>10 DEF signInVars, SignInInv, RestOK
  <2> QED
    BY <1>10, <2>1, AccountUnchanged, LimitsUnchanged, RequestsUnchanged
       DEF signInVars, SignInInv
<1> QED
  BY <1>1, <1>4, <1>5, <1>6, <1>7, <1>8, <1>9, <1>10, AccountLifeKeeps, ClockKeeps DEF SignInNext

(* Every variable of the account keeps its type, whatever requests race. *)
THEOREM SignInTypeCorrect == SignInSpec => []SignInTypeOK
<1>1. SignInInv => SignInTypeOK
  BY DEF SignInInv, LimitsOK, AccountOK, RequestsOK, RestOK, SignInTypeOK, Uppermost
<1> QED
  BY <1>1, InitHolds, StepHolds, PTL DEF SignInSpec

(* _reserve_attempt: however many requests guess at the same time, no more  *)
(* than the allowance of guesses is checked between two moments at which    *)
(* the factor was free.                                                     *)
THEOREM GuessesStayBounded == SignInSpec => []GuessesBounded
<1>1. SignInInv => GuessesBounded
  BY DEF SignInInv, LimitsOK, GuessesBounded
<1> QED
  BY <1>1, InitHolds, StepHolds, PTL DEF SignInSpec

(* _claim_totp_step and _claim_backup_code: no code is accepted twice, by   *)
(* any number of requests that loaded the account before it was used.       *)
THEOREM CodesAreAcceptedOnce == SignInSpec => []CodesWorkOnce
<1>1. ASSUME SignInInv PROVE CodesWorkOnce
  <2>1. uses \in [Secrets \X (0 .. Uppermost) -> Nat] /\ StepsOnce /\ BackupsFit(uses, codes, sets)
    BY <1>1 DEF SignInInv, AccountOK, BackupsOnce
  <2>2. ASSUME NEW x \in DOMAIN uses, x[1] # 0 PROVE uses[x] <= 1
    <3>1. PICK s \in Secrets, t \in 0 .. Uppermost : x = <<s, t>>
      BY <2>1
    <3> QED
      BY <2>1, <2>2, <3>1 DEF StepsOnce
  <2> QED
    BY <2>1, <2>2 DEF CodesWorkOnce, BackupsFit
<1> QED
  BY <1>1, InitHolds, StepHolds, PTL DEF SignInSpec
================================================================================
