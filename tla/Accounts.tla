------------------------------- MODULE Accounts -------------------------------
(***************************************************************************)
(* Accounts, sign-in and rotating refresh tokens (server/auth/service.py)   *)
(* and the operator commands of server/manage.py.  A password is the number *)
(* of its generation.  login and change_password read the account and       *)
(* verify the password before the transaction that writes.                  *)
(***************************************************************************)
EXTENDS Naturals, Sequences

CONSTANTS
    Users,
    Callers,        \* requests in flight between the verification and the write
    FailureLimit,   \* AUTH_MAX_FAILED_LOGIN_ATTEMPTS
    MaxPasswords,   \* bound: generations of one password
    MaxTokens       \* bound: refresh tokens ever issued

ASSUME AccountsAssumption ==
    FailureLimit \in Nat \ {0} /\ MaxPasswords \in Nat \ {0} /\ MaxTokens \in Nat

VARIABLES
    account,    \* table users
    token,      \* table refresh_tokens, in the order of issue
    caller      \* a login or a change of password that has verified its password

accountsVars == <<account, token, caller>>

\* password 0: nobody has registered.  lock: locked_until is null, ahead or past.
Account ==
    [status : {"ACTIVE", "DISABLED"}, password : 0..MaxPasswords,
     failed : 0..FailureLimit, lock : {"open", "locked", "past"}]

\* family: the first token of its rotation; password (history): what was verified.
Token ==
    [user : Users, family : 1..MaxTokens, used : BOOLEAN, revoked : BOOLEAN,
     expired : BOOLEAN, password : 1..MaxPasswords]

NoCaller == [pc |-> "idle"]

Caller ==
    {NoCaller} \union
    [pc : {"login", "change"}, user : Users, read : 0..MaxPasswords, verified : BOOLEAN]

Registered(u) == account[u].password # 0
TokenIds == 1..Len(token)
Live(t) == ~token[t].used /\ ~token[t].revoked /\ ~token[t].expired

AccountsInit ==
    /\ account = [u \in Users |-> [status |-> "ACTIVE", password |-> 0, failed |-> 0,
                                   lock |-> "open"]]
    /\ token = <<>>
    /\ caller = [c \in Callers |-> NoCaller]

Register(u) ==
    /\ ~Registered(u)
    /\ account' = [account EXCEPT ![u].password = 1]
    /\ UNCHANGED <<token, caller>>

\* UPDATE refresh_tokens SET revoked_at for these tokens.
Revoking(tokens) ==
    [t \in TokenIds |-> IF t \in tokens THEN [token[t] EXCEPT !.revoked = TRUE] ELSE token[t]]

RevokeUser(u) == token' = Revoking({t \in TokenIds : token[t].user = u})

-----------------------------------------------------------------------------
(* Signing in.                                                              *)

\* The account's row, absent or not, and the hash compared outside a transaction.
VerifyLogin(c, u, candidate) ==
    /\ caller[c] = NoCaller
    /\ caller' = [caller EXCEPT ![c] =
                    [pc |-> "login", user |-> u, read |-> account[u].password,
                     verified |-> Registered(u) /\ candidate = account[u].password]]
    /\ UNCHANGED <<account, token>>

ValidVerifiedOnly(c, a) ==    \* mutant: the row is not compared with the one verified
    caller[c].verified /\ a.status = "ACTIVE" /\ a.lock # "locked"

Valid(c, a) ==
    /\ caller[c].verified /\ caller[c].read = a.password
    /\ a.status = "ACTIVE" /\ a.lock # "locked"

SignIn(c, u) ==
    /\ Len(token) < MaxTokens
    /\ account' = [account EXCEPT ![u].failed = 0, ![u].lock = "open"]
    /\ token' = Append(token,
                    [user |-> u, family |-> Len(token) + 1, used |-> FALSE, revoked |-> FALSE,
                     expired |-> FALSE, password |-> caller[c].read])

\* A wrong password counts unless the account is locked, disabled or absent; a
\* lock that has passed starts the count again.
CountFailure(u) ==
    LET a == account[u]
        count == (IF a.lock = "open" THEN a.failed ELSE 0) + 1
    IN  /\ account' = IF ~Registered(u) \/ a.status # "ACTIVE" \/ a.lock = "locked"
                      THEN account
                      ELSE [account EXCEPT ![u].failed = count,
                                ![u].lock = IF count >= FailureLimit THEN "locked" ELSE "open"]
        /\ UNCHANGED token

FinishLogin(c) ==
    /\ caller[c].pc = "login"
    /\ caller' = [caller EXCEPT ![c] = NoCaller]
    /\ LET u == caller[c].user
       IN  IF Valid(c, account[u]) THEN SignIn(c, u) ELSE CountFailure(u)

LockEnds(u) ==
    /\ account[u].lock = "locked"
    /\ account' = [account EXCEPT ![u].lock = "past"]
    /\ UNCHANGED <<token, caller>>

-----------------------------------------------------------------------------
(* Refresh tokens.                                                          *)

Replayed(t) == token[t].used

RotateApart(t) ==             \* mutant: the successor begins a family of its own
    /\ Len(token) < MaxTokens
    /\ token' = Append([token EXCEPT ![t].used = TRUE, ![t].revoked = TRUE],
                       [token[t] EXCEPT !.family = Len(token) + 1, !.expired = FALSE])

\* The token's successor, in its family; the token itself is used and revoked.
Rotate(t) ==
    /\ Len(token) < MaxTokens
    /\ token' = Append([token EXCEPT ![t].used = TRUE, ![t].revoked = TRUE],
                       [token[t] EXCEPT !.used = FALSE, !.revoked = FALSE, !.expired = FALSE])

RefreshesUnrevoked(t) ==      \* mutant: only the expiry and the use are looked at
    ~token[t].expired /\ account[token[t].user].status = "ACTIVE"

Refreshes(t) ==
    ~token[t].revoked /\ ~token[t].expired /\ account[token[t].user].status = "ACTIVE"

\* A replay revokes the whole family; a revoked or expired token is refused.
Refresh(t) ==
    /\ t \in TokenIds
    /\ IF Replayed(t)
       THEN token' = Revoking({s \in TokenIds : token[s].family = token[t].family})
       ELSE Refreshes(t) /\ Rotate(t)
    /\ UNCHANGED <<account, caller>>

ExpireToken(t) ==
    /\ t \in TokenIds /\ ~token[t].expired
    /\ token' = [token EXCEPT ![t].expired = TRUE]
    /\ UNCHANGED <<account, caller>>

Logout(t) ==
    /\ t \in TokenIds
    /\ token' = [token EXCEPT ![t].revoked = TRUE]
    /\ UNCHANGED <<account, caller>>

LogoutAll(u) ==
    /\ Registered(u) /\ account[u].status = "ACTIVE"
    /\ RevokeUser(u)
    /\ UNCHANGED <<account, caller>>

-----------------------------------------------------------------------------
(* Passwords and the operator.                                              *)

\* The caller is signed in; a wrong old password ends the request.
VerifyChange(c, u) ==
    /\ caller[c] = NoCaller
    /\ Registered(u) /\ account[u].status = "ACTIVE"
    /\ caller' = [caller EXCEPT ![c] =
                    [pc |-> "change", user |-> u, read |-> account[u].password,
                     verified |-> TRUE]]
    /\ UNCHANGED <<account, token>>

\* Refused with a 409 when the hash is no longer the one verified.
FinishChange(c) ==
    /\ caller[c].pc = "change"
    /\ caller' = [caller EXCEPT ![c] = NoCaller]
    /\ LET u == caller[c].user
       IN  IF account[u].password = caller[c].read
           THEN /\ account[u].password < MaxPasswords
                /\ account' = [account EXCEPT ![u].password = @ + 1]
                /\ RevokeUser(u)
           ELSE UNCHANGED <<account, token>>

ResetPassword(u) ==
    /\ Registered(u) /\ account[u].password < MaxPasswords
    /\ account' = [account EXCEPT ![u].password = @ + 1, ![u].failed = 0, ![u].lock = "open"]
    /\ RevokeUser(u)
    /\ UNCHANGED caller

SetStatus(u, status) ==
    /\ Registered(u)
    /\ account' = [account EXCEPT ![u].status = status]
    /\ RevokeUser(u)
    /\ UNCHANGED caller

AccountsNext ==
    \/ \E u \in Users :
          \/ Register(u) \/ LockEnds(u) \/ LogoutAll(u) \/ ResetPassword(u)
          \/ \E status \in {"ACTIVE", "DISABLED"} : SetStatus(u, status)
    \/ \E c \in Callers, u \in Users :
          \/ \E candidate \in 1..MaxPasswords : VerifyLogin(c, u, candidate)
          \/ VerifyChange(c, u)
    \/ \E c \in Callers : FinishLogin(c) \/ FinishChange(c)
    \/ \E t \in 1..MaxTokens : Refresh(t) \/ ExpireToken(t) \/ Logout(t)

AccountsSpec == AccountsInit /\ [][AccountsNext]_accountsVars

-----------------------------------------------------------------------------
(* Properties.                                                              *)

\* The rows keep to the columns' domains (auth/store.py).
AccountsTypeOK ==
    /\ account \in [Users -> Account]
    /\ token \in Seq(Token) /\ Len(token) <= MaxTokens
    /\ caller \in [Callers -> Caller]

\* A refresh token that can still be used belongs to an account that is active,
\* goes back to a sign-in with the account's present password, and is the only
\* such one of its family, whatever logins, changes of password and operator
\* commands were between their read and their write (auth/service.py).
TokensAreSound ==
    \A t \in TokenIds :
        Live(t) => /\ account[token[t].user].status = "ACTIVE"
                   /\ token[t].password = account[token[t].user].password
                   /\ \A s \in TokenIds \ {t} : token[s].family = token[t].family => ~Live(s)

\* Once no token of a family can be used none ever is again: a replay, a logout
\* or a revocation ends the sessions that descend from it (auth/service.py).
FamiliesStayDead ==
    [][\A f \in TokenIds :
          (\A t \in TokenIds : token[t].family = f => ~Live(t)) =>
          (\A t \in DOMAIN token' : token'[t].family = f =>
              token'[t].used \/ token'[t].revoked \/ token'[t].expired)]_accountsVars

-----------------------------------------------------------------------------
(* What the rows stand for.                                                 *)

PersonOf == [u \in Users |-> [password |-> account[u].password, active |-> account[u].status = "ACTIVE"]]

IssuedIn(f) == {t \in TokenIds : token[t].family = f}
LiveIn(f) == {t \in IssuedIn(f) : Live(t)}

FamilyOf(f) ==
    IF IssuedIn(f) = {} THEN [state |-> "none"]
    ELSE IF LiveIn(f) = {} THEN [state |-> "ended"]
    ELSE LET t == CHOOSE t \in LiveIn(f) : TRUE
         IN  [state |-> "open", user |-> token[t].user, password |-> token[t].password,
              holder |-> LiveIn(f)]

FamilyRows == [f \in 1..MaxTokens |-> FamilyOf(f)]

Families == INSTANCE TokenFamily WITH People <- Users, SignIns <- 1..MaxTokens,
                                      person <- PersonOf, family <- FamilyRows

\* Every behaviour of the tables is one of the promised families: begun by a
\* sign-in, handed over from token to token, ended for good, by a replay, a
\* logout, an expiry, and all of a user's by a change of password or status.
ImplementsFamilies == Families!Spec
=============================================================================
