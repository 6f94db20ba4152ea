------------------------------ MODULE Accounts ------------------------------
(***************************************************************************)
(* Staff accounts and the sessions of the tills: sign-in by password or    *)
(* PIN, locks, refresh tokens and their rotation, two-factor codes and the *)
(* keys of the terminals (api/v1/auth.py, core/deps.py), the accounts that *)
(* a tenant's admin keeps (api/v1/users.py), and the till's side of a      *)
(* session, AuthController in pos_app/lib/core/providers.dart.             *)
(*                                                                         *)
(* A request reads the rows it decides by, then commits; a column that is  *)
(* as it was read is not written.  Access tokens may be refused for their  *)
(* age at any time: that is when a till refreshes.  Passwords and codes    *)
(* are right or wrong; must_change_password, which no handler asks, is     *)
(* left out.                                                               *)
(***************************************************************************)
EXTENDS Integers, FiniteSets

CONSTANTS
  Users, Tills, Workers,
  MaxFails,     \* ACCOUNT_LOCK_THRESHOLD and PIN_LOCK_THRESHOLD
  MaxRequests,  \* bound on the requests
  None

VARIABLES
  user,      \* user[u]: the row of user u
  token,     \* the refresh tokens: token[j] is the user and what became of it
  terminal,  \* terminal[c]: the api_key_hash of the terminal of till c
  session,   \* session[c]: the refresh token that till c keeps
  key,       \* key[c]: the api key that till c keeps
  waiting,   \* waiting[c]: the workers whose answer to a refresh c awaits
  cause,     \* cause[c]: c has had a reason to lose its session
  request,   \* request[w]: what worker w is at
  requests

accountVars ==
  <<user, token, terminal, session, key, waiting, cause, request, requests>>

server == <<user, token, terminal>>
till == <<session, key, waiting, cause>>

(* What the constants stand for: no token is None.                         *)
AccountsParameters == None \notin Nat

---------------------------------------------------------------------------
Account ==
  [active : BOOLEAN, gone : BOOLEAN, pin : BOOLEAN, fails : Nat, locked : BOOLEAN,
   pinFails : Nat, pinLocked : BOOLEAN, totp : {"none", "enrolled", "on"}]

NewAccount ==
  [active |-> TRUE, gone |-> FALSE, pin |-> TRUE,
   fails |-> 0, locked |-> FALSE, pinFails |-> 0, pinLocked |-> FALSE,
   totp |-> "none"]

Idle == [op |-> "none"]

AccountsTypeOK ==
  /\ user \in [Users -> Account \cup {None}]
  /\ DOMAIN token \subseteq 1..MaxRequests
  /\ \A j \in DOMAIN token :
       token[j] \in [of : Users, is : {"live", "rotated", "revoked", "expired"}]
  /\ terminal \in [Tills -> 0..MaxRequests] /\ key \in [Tills -> 0..MaxRequests]
  /\ session \in [Tills -> DOMAIN token \cup {None}]
  /\ waiting \in [Tills -> SUBSET Workers]
  /\ cause \in [Tills -> BOOLEAN]
  /\ requests \in 0..MaxRequests

Init ==
  /\ user = [u \in Users |-> None]
  /\ token = <<>>
  /\ terminal = [c \in Tills |-> 0] /\ key = [c \in Tills |-> 0]
  /\ session = [c \in Tills |-> None]
  /\ waiting = [c \in Tills |-> {}]
  /\ cause = [c \in Tills |-> TRUE]
  /\ request = [w \in Workers |-> Idle]
  /\ requests = 0

---------------------------------------------------------------------------
Begin(w, r) ==
  /\ request[w] = Idle
  /\ requests < MaxRequests
  /\ requests' = requests + 1
  /\ request' = [request EXCEPT ![w] = r]

Done(w) == request' = [request EXCEPT ![w] = Idle] /\ UNCHANGED requests

Doing(w, op) == request[w].op = op

(* The columns of u that come out of new and are not as they were read.    *)
Written(u, new, read) ==
  user' = [user EXCEPT ![u] =
    [f \in DOMAIN @ |-> IF new[f] = read[f] THEN @[f] ELSE new[f]]]

(* _record_failed_login, _record_failed_pin                                *)
Failed(read) ==
  [read EXCEPT !.fails = @ + 1, !.locked = @ \/ read.fails + 1 >= MaxFails]

FailedPin(read) ==
  [read EXCEPT !.pinFails = @ + 1, !.pinLocked = @ \/ read.pinFails + 1 >= MaxFails]

Unlocked(row) == [row EXCEPT !.fails = 0, !.locked = FALSE]

PinUnlocked(row) == [row EXCEPT !.pinFails = 0, !.pinLocked = FALSE]

(* Mistaken: each refused call sends a refresh of its own.                 *)
NeverInFlight(c) == FALSE

InFlight(c) == waiting[c] # {}

(* _build_session: a token of its own, and a row without failures.         *)
Fresh == Cardinality(DOMAIN token) + 1

Minted(u, tokens) ==
  [j \in DOMAIN tokens \cup {Fresh} |->
     IF j = Fresh THEN [of |-> u, is |-> "live"] ELSE tokens[j]]

---------------------------------------------------------------------------
(* Signing in.  A till needs the key of its terminal; the second factor is *)
(* asked of the console only, which keeps its session elsewhere.  A refresh *)
(* of the session before may still be under way: its answer replaces it.    *)

Busy(c) == \E w \in Workers :
  Doing(w, "signIn") /\ request[w].how # "console" /\ request[w].till = c

SignIn(w, how, c, u, right) ==
  /\ user[u] # None /\ ~user[u].gone
  /\ how # "console" =>
       /\ key[c] # 0 /\ key[c] = terminal[c]
       /\ session[c] = None /\ ~Busy(c)
  /\ Begin(w, [op |-> "signIn", how |-> how, till |-> c, of |-> u,
               right |-> right, read |-> user[u]])
  /\ UNCHANGED <<server, till>>

Kept(c, j) ==
  /\ session' = [session EXCEPT ![c] = j]
  /\ cause' = [cause EXCEPT ![c] = InFlight(c)]
  /\ UNCHANGED <<key, waiting>>

(* A wrong password is counted before the lock is looked at, a wrong PIN   *)
(* or code after it.                                                       *)
CommitSignIn(w) ==
  LET r == request[w]
      row == r.read
      pin == r.how = "pin"
      proof == IF r.right = "first" /\ (r.how # "console" \/ row.totp # "on")
               THEN "yes" ELSE r.right
      open == IF pin THEN row.pin /\ ~row.pinLocked ELSE ~row.locked
  IN /\ Doing(w, "signIn")
     /\ Done(w)
     /\ UNCHANGED terminal
     /\ \/ /\ proof = "no" /\ (pin => open)
           /\ Written(r.of, IF pin THEN FailedPin(row) ELSE Failed(row), row)
           /\ UNCHANGED <<token, till>>
        \/ /\ proof = "first" /\ open /\ row.active
           /\ Written(r.of, Failed(row), row)
           /\ UNCHANGED <<token, till>>
        \/ /\ proof = "yes" /\ open /\ row.active
           /\ Written(r.of, Unlocked(IF pin THEN PinUnlocked(row) ELSE row), row)
           /\ token' = Minted(r.of, token)
           /\ IF r.how = "console" THEN UNCHANGED till ELSE Kept(r.till, Fresh)
        \/ /\ IF proof = "no" THEN pin /\ ~open ELSE ~open \/ ~row.active
           /\ UNCHANGED <<user, token, till>>

(* pin_verify of an approver, who is a manager.                            *)
VerifyPin(w, u, right) ==
  /\ user[u] # None /\ ~user[u].gone /\ user[u].pin /\ ~user[u].pinLocked
  /\ Begin(w, [op |-> "verifyPin", of |-> u, right |-> right, read |-> user[u]])
  /\ UNCHANGED <<server, till>>

CommitPin(w) ==
  LET r == request[w]
  IN /\ Doing(w, "verifyPin")
     /\ IF ~r.right THEN Written(r.of, FailedPin(r.read), r.read)
        ELSE r.read.active /\ Written(r.of, PinUnlocked(r.read), r.read)
     /\ Done(w)
     /\ UNCHANGED <<token, terminal, till>>

(* locked_until and pin_locked_until pass; the counts stay.                *)
LockEnds(u) ==
  /\ user[u] # None /\ (user[u].locked \/ user[u].pinLocked)
  /\ user' = [user EXCEPT ![u].locked = FALSE, ![u].pinLocked = FALSE]
  /\ UNCHANGED <<token, terminal, till, request, requests>>

---------------------------------------------------------------------------
(* Refreshing.  A till that was told its access token is too old waits for *)
(* the refresh it has sent already, if any; refresh() first looks at the   *)
(* token and its user (assert_refresh_token_valid).                        *)

Refresh(w, c) ==
  LET j == session[c]
      u == token[j].of
      valid == token[j].is = "live" /\ user[u].active
  IN /\ j # None
     /\ ~InFlight(c)
     /\ Begin(w, [op |-> IF valid THEN "refresh" ELSE "refused", till |-> c,
                  token |-> j, read |-> user[u]])
     /\ waiting' = [waiting EXCEPT ![c] = @ \cup {w}]
     /\ cause' = [cause EXCEPT ![c] =
          @ \/ token[j].is \in {"revoked", "expired"} \/ ~user[u].active]
     /\ UNCHANGED <<server, session, key>>

(* JWT_REFRESH_TTL_DAYS pass from the issue of a token.                    *)
Expire(j) ==
  /\ token[j].is = "live"
  /\ token' = [token EXCEPT ![j].is = "expired"]
  /\ UNCHANGED <<user, terminal, till, request, requests>>

(* An answer that its till does not wait for is lost.                      *)
CommitRefresh(w) ==
  LET r == request[w]
      c == r.till
      u == token[r.token].of
  IN /\ Doing(w, "refresh")
     /\ token' = Minted(u, [token EXCEPT ![r.token].is = "rotated"])
     /\ Written(u, Unlocked(r.read), r.read)
     /\ Done(w)
     /\ waiting' = [waiting EXCEPT ![c] = @ \ {w}]
     /\ IF w \in waiting[c]
        THEN session' = [session EXCEPT ![c] = Fresh] /\ cause' = [cause EXCEPT ![c] = FALSE]
        ELSE UNCHANGED <<session, cause>>
     /\ UNCHANGED <<terminal, key>>

Refused(w) ==
  LET c == request[w].till
  IN /\ Doing(w, "refused")
     /\ Done(w)
     /\ waiting' = [waiting EXCEPT ![c] = @ \ {w}]
     /\ session' = [session EXCEPT ![c] = IF w \in waiting[c] THEN None ELSE @]
     /\ UNCHANGED <<server, key, cause>>

(* A refresh that does not come back signs the till out as well.           *)
GiveUp(c) ==
  /\ InFlight(c)
  /\ waiting' = [waiting EXCEPT ![c] = {}]
  /\ session' = [session EXCEPT ![c] = None]
  /\ cause' = [cause EXCEPT ![c] = TRUE]
  /\ UNCHANGED <<server, key, request, requests>>

(* The till is killed, and comes back with what it stored.                 *)
Kill(c) ==
  /\ InFlight(c)
  /\ waiting' = [waiting EXCEPT ![c] = {}]
  /\ cause' = [cause EXCEPT ![c] = TRUE]
  /\ UNCHANGED <<server, session, key, request, requests>>

(* AuthController.logout: the server is not told, a refresh goes on.       *)
SignOut(c) ==
  /\ session[c] # None
  /\ session' = [session EXCEPT ![c] = None]
  /\ cause' = [cause EXCEPT ![c] = TRUE]
  /\ UNCHANGED <<server, key, waiting, request, requests>>

---------------------------------------------------------------------------
(* What revokes tokens: the logout of one or of all, a new password.       *)

Revoked(js) == [j \in DOMAIN token |->
  IF j \in js /\ token[j].is = "live" THEN [token[j] EXCEPT !.is = "revoked"] ELSE token[j]]

TokensOf(u) == {j \in DOMAIN token : token[j].of = u}

AtOnce(w) == Begin(w, Idle)

Logout(w, u) ==
  /\ user[u] # None
  /\ AtOnce(w)
  /\ \E js \in {{j} : j \in TokensOf(u)} \cup {TokensOf(u)} : token' = Revoked(js)
  /\ UNCHANGED <<user, terminal, till>>

ChangePassword(w, u) ==
  /\ user[u] # None
  /\ AtOnce(w)
  /\ token' = Revoked(TokensOf(u))
  /\ UNCHANGED <<user, terminal, till>>

---------------------------------------------------------------------------
(* create_user, update_user and delete_user; no username is used twice.    *)

CreateUser(w, u) ==
  /\ user[u] = None
  /\ AtOnce(w)
  /\ \E pin \in BOOLEAN : user' = [user EXCEPT ![u] = [NewAccount EXCEPT !.pin = pin]]
  /\ UNCHANGED <<token, terminal, till>>

UpdateUser(w, u) ==
  /\ user[u] # None /\ ~user[u].gone
  /\ AtOnce(w)
  /\ \E field \in {"active", "pin"}, is \in BOOLEAN :
       user' = [user EXCEPT ![u][field] = is]
  /\ UNCHANGED <<token, terminal, till>>

DeleteUser(w, u) ==
  /\ user[u] # None
  /\ AtOnce(w)
  /\ user' = [user EXCEPT ![u].gone = TRUE, ![u].active = FALSE]
  /\ UNCHANGED <<token, terminal, till>>

(* totp_enroll, totp_verify and totp_disable                               *)
Totp(w, u) ==
  /\ user[u] # None
  /\ AtOnce(w)
  /\ \/ user' = [user EXCEPT ![u].totp = "enrolled"]
     \/ user[u].totp # "none" /\ user' = [user EXCEPT ![u].totp = "on"]
     \/ user' = [user EXCEPT ![u].totp = "none"]
  /\ UNCHANGED <<token, terminal, till>>

(* register_terminal issues a new key each time; its answer may get lost.  *)
RegisterTerminal(w, c) ==
  /\ AtOnce(w)
  /\ terminal' = [terminal EXCEPT ![c] = @ + 1]
  /\ \E k \in {key[c], terminal[c] + 1} : key' = [key EXCEPT ![c] = k]
  /\ UNCHANGED <<user, token, session, waiting, cause>>

---------------------------------------------------------------------------
Next ==
  \/ \E u \in Users : LockEnds(u)
  \/ \E j \in DOMAIN token : Expire(j)
  \/ \E c \in Tills : GiveUp(c) \/ Kill(c) \/ SignOut(c)
  \/ \E w \in Workers :
       \/ \E u \in Users :
            \/ \E how \in {"password", "pin", "console"}, c \in Tills,
                  right \in {"yes", "first", "no"} : SignIn(w, how, c, u, right)
            \/ \E right \in BOOLEAN : VerifyPin(w, u, right)
            \/ Logout(w, u) \/ ChangePassword(w, u)
            \/ CreateUser(w, u) \/ UpdateUser(w, u) \/ DeleteUser(w, u) \/ Totp(w, u)
       \/ \E c \in Tills : Refresh(w, c) \/ RegisterTerminal(w, c)
       \/ CommitSignIn(w) \/ CommitPin(w) \/ CommitRefresh(w) \/ Refused(w)

Spec == Init /\ [][Next]_accountVars

---------------------------------------------------------------------------
(* A till loses its session only for a cause: somebody signed out, an      *)
(* answer did not come or the till was killed while one was under way, the *)
(* refresh was one of the session before, the account was closed, its      *)
(* tokens were revoked, or the token that the till kept had expired.  That *)
(* a refresh rotates the token never costs a till its session, however     *)
(* many of its calls are refused at the same time.                         *)
SignedOutForCause == \A c \in Tills : session[c] = None => cause[c]

=============================================================================
