------------------------------ MODULE AccessProofs ------------------------------
(***************************************************************************)
(* Theorems about who may do what: Accounts, for any users, requests in      *)
(* flight, failure limit, passwords and number of tokens; Membership, for any *)
(* users, workspaces, documents and requests in flight, and any limit on     *)
(* documents, with and without foreign keys; Permissions, for any task over  *)
(* the same.                                                                 *)
(***************************************************************************)
EXTENDS Accounts, Permissions, FiniteSetTheorems, TLAPS

USE AccountsAssumption

-----------------------------------------------------------------------------
(* Accounts: the inductive invariant.                                        *)

Usable(t) == ~token[t].used /\ ~token[t].revoked

\* Whatever can still be used, expired or not, is of the account as it is now.
UsableIsCurrent ==
    \A t \in TokenIds :
        Usable(t) => /\ account[token[t].user].status = "ACTIVE"
                     /\ token[t].password = account[token[t].user].password

\* A family is named by a token already issued, and only its last is unused.
FamiliesAreChains ==
    /\ \A t \in TokenIds : token[t].family \in TokenIds
    /\ \A s, t \in TokenIds :
          s # t /\ token[s].family = token[t].family => token[s].used \/ token[t].used

\* Nobody verified the password of an account that does not exist.
VerifiedIsRegistered ==
    \A c \in Callers : caller[c].pc = "login" /\ caller[c].verified => caller[c].read # 0

\* The count of failures reaches the limit only with the lock.
LocksFollow == \A u \in Users : account[u].lock = "open" => account[u].failed < FailureLimit

AccountsInv ==
    AccountsTypeOK /\ UsableIsCurrent /\ FamiliesAreChains /\ VerifiedIsRegistered /\ LocksFollow

-----------------------------------------------------------------------------
(* Accounts: steps that issue no token: every token is as it was, or nearer its end. *)

Weakens(new) ==
    /\ new \in Seq(Token) /\ Len(new) = Len(token)
    /\ \A t \in TokenIds :
          /\ new[t].user = token[t].user /\ new[t].family = token[t].family
          /\ new[t].used = token[t].used /\ new[t].password = token[t].password
          /\ token[t].revoked => new[t].revoked
          /\ token[t].expired => new[t].expired

LEMMA TokenFields ==
    ASSUME AccountsTypeOK
    PROVE  /\ Len(token) \in Nat /\ TokenIds = 1..Len(token)
           /\ \A t \in TokenIds : token[t] \in Token
BY DEF AccountsTypeOK, TokenIds

\* What the statements that revoke tokens have in common.
LEMMA RevokingWeakens ==
    ASSUME AccountsTypeOK, NEW Q \in [TokenIds -> BOOLEAN],
           NEW new, new = [t \in TokenIds |-> IF Q[t] THEN [token[t] EXCEPT !.revoked = TRUE]
                                              ELSE token[t]]
    PROVE  Weakens(new) /\ \A t \in TokenIds : Q[t] => new[t].revoked
<1> USE TokenFields
<1>1. \A t \in TokenIds : new[t] \in Token
  BY DEF Token
<1>2. new \in Seq(Token) /\ Len(new) = Len(token)
  BY <1>1
<1>3. ASSUME NEW t \in TokenIds
      PROVE  /\ new[t].user = token[t].user /\ new[t].family = token[t].family
             /\ new[t].used = token[t].used /\ new[t].expired = token[t].expired
             /\ new[t].password = token[t].password
             /\ token[t].revoked => new[t].revoked
             /\ Q[t] => new[t].revoked
  BY DEF Token
<1> QED BY <1>2, <1>3 DEF Weakens

LEMMA RevokeUserWeakens ==
    ASSUME AccountsTypeOK, NEW u \in Users, RevokeUser(u)
    PROVE  Weakens(token') /\ \A t \in TokenIds : token[t].user = u => token'[t].revoked
<1> DEFINE Q == [t \in TokenIds |-> token[t].user = u]
<1>1. token' = [t \in TokenIds |-> IF Q[t] THEN [token[t] EXCEPT !.revoked = TRUE] ELSE token[t]]
  BY DEF RevokeUser, Revoking
<1>2. Q \in [TokenIds -> BOOLEAN]
  OBVIOUS
<1> HIDE DEF Q
<1>3. Weakens(token') /\ \A t \in TokenIds : Q[t] => token'[t].revoked
  BY <1>1, <1>2, RevokingWeakens
<1> QED BY <1>3 DEF Q

\* Setting one field of one token towards its end.
LEMMA EndingWeakens ==
    ASSUME AccountsTypeOK, NEW t \in TokenIds,
           \/ token' = [token EXCEPT ![t].revoked = TRUE]
           \/ token' = [token EXCEPT ![t].expired = TRUE]
    PROVE  Weakens(token')
<1> USE TokenFields
<1>1. /\ [token[t] EXCEPT !.revoked = TRUE] \in Token
      /\ [token[t] EXCEPT !.expired = TRUE] \in Token
  BY DEF Token
<1>2. PICK v \in Token : /\ v \in {[token[t] EXCEPT !.revoked = TRUE],
                                   [token[t] EXCEPT !.expired = TRUE]}
                         /\ token' = [token EXCEPT ![t] = v]
  BY <1>1
<1>3. token \in Seq(Token)
  BY DEF AccountsTypeOK
<1>4. token' \in Seq(Token) /\ Len(token') = Len(token)
  BY <1>2, <1>3
<1>5. ASSUME NEW s \in TokenIds
      PROVE  /\ token'[s].user = token[s].user /\ token'[s].family = token[s].family
             /\ token'[s].used = token[s].used /\ token'[s].password = token[s].password
             /\ token[s].revoked => token'[s].revoked
             /\ token[s].expired => token'[s].expired
  <2>1. token[s] \in Token /\ token'[s] = IF s = t THEN v ELSE token[s]
    BY <1>2, <1>3
  <2> QED BY <1>2, <2>1 DEF Token
<1> QED BY <1>4, <1>5 DEF Weakens

LEMMA SameWeakens ==
    ASSUME AccountsTypeOK, UNCHANGED token
    PROVE  Weakens(token')
BY DEF Weakens, AccountsTypeOK

\* The accounts of tokens that stay usable keep their status and password.
KeepsAccounts ==
    \A t \in TokenIds :
        ~token[t].used /\ ~token'[t].revoked =>
            /\ account'[token[t].user].status = account[token[t].user].status
            /\ account'[token[t].user].password = account[token[t].user].password

LEMMA WeakeningKeepsTokens ==
    ASSUME AccountsInv, Weakens(token'), KeepsAccounts
    PROVE  /\ token' \in Seq(Token) /\ Len(token') <= MaxTokens
           /\ UsableIsCurrent' /\ FamiliesAreChains'
<1> USE TokenFields
<1>1. TokenIds' = TokenIds /\ AccountsTypeOK
  BY DEF TokenIds, Weakens, AccountsInv
<1>2. token' \in Seq(Token) /\ Len(token') <= MaxTokens
  BY DEF Weakens, AccountsInv, AccountsTypeOK
<1>3. UsableIsCurrent'
  BY <1>1 DEF UsableIsCurrent, Usable, Weakens, KeepsAccounts, AccountsInv
<1>4. FamiliesAreChains'
  BY <1>1 DEF FamiliesAreChains, Weakens, AccountsInv
<1> QED BY <1>2, <1>3, <1>4

-----------------------------------------------------------------------------
(* Accounts: steps that issue a token.                                       *)

\* A new token at the end, alone in its family or after a used one.
LEMMA AppendedToken ==
    ASSUME AccountsTypeOK, NEW s \in Seq(Token), Len(s) = Len(token), NEW v \in Token
    PROVE  /\ Append(s, v) \in Seq(Token) /\ Len(Append(s, v)) = Len(token) + 1
           /\ \A t \in TokenIds : Append(s, v)[t] = s[t]
           /\ Append(s, v)[Len(token) + 1] = v
<1> USE TokenFields
<1>1. Append(s, v) \in Seq(Token) /\ Len(Append(s, v)) = Len(token) + 1
  OBVIOUS
<1>2. \A t \in 1..Len(s) : Append(s, v)[t] = s[t]
  OBVIOUS
<1>3. Append(s, v)[Len(s) + 1] = v
  OBVIOUS
<1> QED BY <1>1, <1>2, <1>3

LEMMA SignInKeepsTokens ==
    ASSUME AccountsInv, NEW c \in Callers, NEW u \in Users, caller[c].pc = "login",
           caller[c].user = u, Valid(c, account[u]), SignIn(c, u)
    PROVE  /\ token' \in Seq(Token) /\ Len(token') <= MaxTokens
           /\ UsableIsCurrent' /\ FamiliesAreChains'
<1> USE TokenFields
<1> DEFINE n == Len(token) + 1
           v == [user |-> u, family |-> n, used |-> FALSE, revoked |-> FALSE,
                 expired |-> FALSE, password |-> caller[c].read]
<1>1. AccountsTypeOK /\ caller[c].read # 0 /\ caller[c].read = account[u].password
  BY DEF AccountsInv, VerifiedIsRegistered, Valid
<1>2. account[u] \in Account /\ account[u].password \in 1..MaxPasswords
  BY <1>1 DEF AccountsTypeOK, Account
<1>3. n \in 1..MaxTokens /\ token \in Seq(Token)
  BY <1>1 DEF SignIn, AccountsTypeOK
<1>4. v \in Token
  BY <1>1, <1>2, <1>3 DEF Token
<1>5. token' = Append(token, v)
  BY DEF SignIn
<1>6. v.user = u /\ v.family = n /\ v.password = account[u].password /\ ~v.used
  BY <1>1
<1> HIDE DEF v
<1>7. /\ token' \in Seq(Token) /\ Len(token') = n
      /\ \A t \in TokenIds : token'[t] = token[t]
      /\ token'[n] = v
  BY <1>1, <1>3, <1>4, <1>5, AppendedToken
<1>8. TokenIds' = TokenIds \union {n} /\ n \notin TokenIds
  BY <1>1, <1>3, <1>7 DEF TokenIds
<1>9. \A w \in Users : /\ account'[w].status = account[w].status
                       /\ account'[w].password = account[w].password
  BY <1>1 DEF SignIn, AccountsTypeOK, Account
<1>10. account[u].status = "ACTIVE"
  BY DEF Valid
<1>11. \A t \in TokenIds : token[t] \in Token
  BY <1>1
<1>12. UsableIsCurrent'
  <2>1. ASSUME NEW t \in TokenIds', Usable(t)'
        PROVE  /\ account'[token'[t].user].status = "ACTIVE"
               /\ token'[t].password = account'[token'[t].user].password
    <3>1. CASE t = n
      BY <3>1, <1>6, <1>7, <1>9, <1>10
    <3>2. CASE t \in TokenIds
      <4>1. token'[t] = token[t] /\ token[t].user \in Users
        BY <3>2, <1>7, <1>11 DEF Token
      <4>2. /\ account[token[t].user].status = "ACTIVE"
            /\ token[t].password = account[token[t].user].password
        BY <2>1, <3>2, <4>1 DEF AccountsInv, UsableIsCurrent, Usable
      <4> QED BY <4>1, <4>2, <1>9
    <3> QED BY <3>1, <3>2, <1>8
  <2> QED BY <2>1 DEF UsableIsCurrent
<1>13. FamiliesAreChains'
  <2>1. \A t \in TokenIds : token[t].family \in TokenIds
    BY DEF AccountsInv, FamiliesAreChains
  <2>2. \A t \in TokenIds' : token'[t].family \in TokenIds'
    BY <2>1, <1>6, <1>7, <1>8
  <2>3. ASSUME NEW r \in TokenIds', NEW t \in TokenIds', r # t,
               token'[r].family = token'[t].family
        PROVE  token'[r].used \/ token'[t].used
    <3>1. r # n /\ t # n
      BY <2>1, <2>3, <1>6, <1>7, <1>8
    <3> QED BY <2>3, <3>1, <1>7, <1>8 DEF AccountsInv, FamiliesAreChains
  <2> QED BY <2>2, <2>3 DEF FamiliesAreChains
<1> QED BY <1>3, <1>7, <1>12, <1>13

LEMMA RotateKeepsTokens ==
    ASSUME AccountsInv, NEW t \in TokenIds, ~token[t].used, Refreshes(t), Rotate(t),
           UNCHANGED account
    PROVE  /\ token' \in Seq(Token) /\ Len(token') <= MaxTokens
           /\ UsableIsCurrent' /\ FamiliesAreChains'
<1> USE TokenFields
<1> DEFINE n == Len(token) + 1
           old == [token[t] EXCEPT !.used = TRUE, !.revoked = TRUE]
           v == [token[t] EXCEPT !.used = FALSE, !.revoked = FALSE, !.expired = FALSE]
           s == [token EXCEPT ![t] = old]
<1>1. AccountsTypeOK /\ token[t] \in Token /\ token \in Seq(Token)
  BY DEF AccountsInv, AccountsTypeOK
<1>2. n \in 1..MaxTokens
  BY <1>1 DEF Rotate
<1>3. /\ v \in Token /\ old \in Token
      /\ v.user = token[t].user /\ v.family = token[t].family
      /\ v.password = token[t].password /\ ~v.used
      /\ old.family = token[t].family /\ old.used
  BY <1>1 DEF Token
<1>4. token' = Append(s, v)
  BY <1>1 DEF Rotate
<1> HIDE DEF v, old
<1>5. s \in Seq(Token) /\ Len(s) = Len(token)
      /\ \A r \in TokenIds : s[r] = IF r = t THEN old ELSE token[r]
  BY <1>1, <1>3
<1> HIDE DEF s
<1>6. /\ token' \in Seq(Token) /\ Len(token') = n
      /\ \A r \in TokenIds : token'[r] = IF r = t THEN old ELSE token[r]
      /\ token'[n] = v
  BY <1>1, <1>3, <1>4, <1>5, AppendedToken
<1>7. TokenIds' = TokenIds \union {n} /\ n \notin TokenIds
  BY <1>1, <1>2, <1>6 DEF TokenIds
<1>8. account[token[t].user].status = "ACTIVE"
      /\ token[t].password = account[token[t].user].password
  BY DEF Refreshes, AccountsInv, UsableIsCurrent, Usable
<1>9. UsableIsCurrent'
  <2>1. ASSUME NEW r \in TokenIds', Usable(r)'
        PROVE  /\ account[token'[r].user].status = "ACTIVE"
               /\ token'[r].password = account[token'[r].user].password
    <3>1. CASE r = n
      BY <3>1, <1>3, <1>6, <1>8
    <3>2. CASE r = t
      BY <3>2, <2>1, <1>3, <1>6 DEF Usable
    <3>3. CASE r \in TokenIds /\ r # t
      BY <3>3, <2>1, <1>6 DEF AccountsInv, UsableIsCurrent, Usable
    <3> QED BY <3>1, <3>2, <3>3, <1>7
  <2> QED BY <2>1 DEF UsableIsCurrent
<1>10. FamiliesAreChains'
  <2>1. \A r \in TokenIds : token[r].family \in TokenIds
    BY DEF AccountsInv, FamiliesAreChains
  <2>2. \A r \in TokenIds' : token'[r].family \in TokenIds'
    BY <2>1, <1>3, <1>6, <1>7
  <2>3. ASSUME NEW r \in TokenIds, r # t, token[r].family = token[t].family
        PROVE  token'[r].used
    BY <2>3, <1>6 DEF AccountsInv, FamiliesAreChains
  <2>4. ASSUME NEW q \in TokenIds', NEW r \in TokenIds', q # r,
               token'[q].family = token'[r].family
        PROVE  token'[q].used \/ token'[r].used
    <3>1. CASE q = n
      BY <3>1, <2>3, <2>4, <1>3, <1>6, <1>7
    <3>2. CASE r = n
      BY <3>2, <2>3, <2>4, <1>3, <1>6, <1>7
    <3>3. CASE q # n /\ r # n
      BY <3>3, <2>4, <1>3, <1>6, <1>7 DEF AccountsInv, FamiliesAreChains
    <3> QED BY <3>1, <3>2, <3>3
  <2> QED BY <2>2, <2>4 DEF FamiliesAreChains
<1> QED BY <1>2, <1>6, <1>9, <1>10

-----------------------------------------------------------------------------
(* Accounts: every step.                                                     *)

\* What a step does: it brings tokens nearer their end, signs in or rotates.
Issues ==
    \/ \E c \in Callers, u \in Users :
          caller[c].pc = "login" /\ caller[c].user = u /\ Valid(c, account[u]) /\ SignIn(c, u)
    \/ \E t \in TokenIds :
          ~token[t].used /\ Refreshes(t) /\ Rotate(t) /\ UNCHANGED account

StepIsSound ==
    /\ account' \in [Users -> Account] /\ caller' \in [Callers -> Caller]
    /\ VerifiedIsRegistered' /\ LocksFollow'
    /\ (Weakens(token') /\ KeepsAccounts) \/ Issues

LEMMA CallerFields ==
    ASSUME AccountsTypeOK, NEW c \in Callers
    PROVE  /\ caller[c].pc \in {"login", "change"} =>
                 /\ caller[c].user \in Users /\ caller[c].read \in 0..MaxPasswords
                 /\ caller[c].verified \in BOOLEAN
           /\ [caller EXCEPT ![c] = NoCaller] \in [Callers -> Caller]
<1>1. caller \in [Callers -> Caller] /\ caller[c] \in Caller
  BY DEF AccountsTypeOK
<1>2. caller[c] = NoCaller \/ caller[c] \in [pc : {"login", "change"}, user : Users,
                                             read : 0..MaxPasswords, verified : BOOLEAN]
  BY <1>1 DEF Caller
<1>3. NoCaller \in Caller /\ NoCaller.pc = "idle"
  BY DEF Caller, NoCaller
<1> QED BY <1>1, <1>2, <1>3

\* A request that ends verifies nothing more.
LEMMA EndedCaller ==
    ASSUME AccountsTypeOK, VerifiedIsRegistered, NEW c \in Callers,
           caller' = [caller EXCEPT ![c] = NoCaller]
    PROVE  caller' \in [Callers -> Caller] /\ VerifiedIsRegistered'
<1>1. caller' \in [Callers -> Caller]
  BY CallerFields
<1>2. caller \in [Callers -> Caller] /\ NoCaller.pc = "idle"
  BY DEF AccountsTypeOK, NoCaller
<1> QED BY <1>1, <1>2 DEF VerifiedIsRegistered

\* A change of one account's row keeps the table's type, ...
LEMMA RowTypes ==
    ASSUME AccountsTypeOK, LocksFollow, NEW u \in Users, NEW v \in Account,
           v.lock = "open" => v.failed < FailureLimit,
           account' = [account EXCEPT ![u] = v]
    PROVE  /\ account' \in [Users -> Account] /\ account'[u] = v /\ LocksFollow'
           /\ \A w \in Users \ {u} : account'[w] = account[w]
BY DEF AccountsTypeOK, LocksFollow

LEMMA StatusTypes ==
    ASSUME AccountsTypeOK, LocksFollow, NEW u \in Users, NEW s \in {"ACTIVE", "DISABLED"},
           account' = [account EXCEPT ![u].status = s]
    PROVE  /\ account' \in [Users -> Account] /\ LocksFollow'
           /\ \A w \in Users \ {u} : account'[w] = account[w]
<1> DEFINE v == [account[u] EXCEPT !.status = s]
<1>1. account \in [Users -> Account] /\ account[u] \in Account
  BY DEF AccountsTypeOK
<1>2. v \in Account /\ account' = [account EXCEPT ![u] = v]
  BY <1>1 DEF Account
<1>3. v.lock = "open" => v.failed < FailureLimit
  BY <1>1 DEF Account, LocksFollow
<1> HIDE DEF v
<1> QED BY <1>2, <1>3, RowTypes

LEMMA PasswordTypes ==
    ASSUME AccountsTypeOK, LocksFollow, NEW u \in Users, NEW p \in 0..MaxPasswords,
           account' = [account EXCEPT ![u].password = p]
    PROVE  /\ account' \in [Users -> Account] /\ LocksFollow'
           /\ \A w \in Users \ {u} : account'[w] = account[w]
<1> DEFINE v == [account[u] EXCEPT !.password = p]
<1>1. account \in [Users -> Account] /\ account[u] \in Account
  BY DEF AccountsTypeOK
<1>2. v \in Account /\ account' = [account EXCEPT ![u] = v]
  BY <1>1 DEF Account
<1>3. v.lock = "open" => v.failed < FailureLimit
  BY <1>1 DEF Account, LocksFollow
<1> HIDE DEF v
<1> QED BY <1>2, <1>3, RowTypes

LEMMA ResetTypes ==
    ASSUME AccountsTypeOK, LocksFollow, NEW u \in Users, NEW p \in 0..MaxPasswords,
           account' = [account EXCEPT ![u].password = p, ![u].failed = 0, ![u].lock = "open"]
    PROVE  /\ account' \in [Users -> Account] /\ LocksFollow'
           /\ \A w \in Users \ {u} : account'[w] = account[w]
<1> DEFINE v == [account[u] EXCEPT !.password = p, !.failed = 0, !.lock = "open"]
<1>1. account \in [Users -> Account] /\ account[u] \in Account /\ 0 \in 0..FailureLimit
  BY DEF AccountsTypeOK
<1>2. v \in Account /\ account' = [account EXCEPT ![u] = v]
  BY <1>1 DEF Account
<1>3. v.lock = "open" => v.failed < FailureLimit
  BY <1>1 DEF Account, LocksFollow
<1> HIDE DEF v
<1> QED BY <1>2, <1>3, RowTypes

\* ... and a change of its lock leaves every status and password alone.
LEMMA LockTypes ==
    ASSUME AccountsTypeOK, LocksFollow, NEW u \in Users, NEW n \in 0..FailureLimit,
           NEW l \in {"open", "locked", "past"}, l = "open" => n < FailureLimit,
           account' = [account EXCEPT ![u].failed = n, ![u].lock = l]
    PROVE  /\ account' \in [Users -> Account] /\ LocksFollow'
           /\ \A w \in Users : /\ account'[w].status = account[w].status
                               /\ account'[w].password = account[w].password
<1> DEFINE v == [account[u] EXCEPT !.failed = n, !.lock = l]
<1>1. account \in [Users -> Account] /\ account[u] \in Account
  BY DEF AccountsTypeOK
<1>2. v \in Account /\ account' = [account EXCEPT ![u] = v]
  BY <1>1 DEF Account
<1>3. v.lock = "open" => v.failed < FailureLimit
  BY <1>1 DEF Account, LocksFollow
<1>4. v.status = account[u].status /\ v.password = account[u].password
  BY <1>1 DEF Account
<1> HIDE DEF v
<1> QED BY <1>2, <1>3, <1>4, RowTypes

LEMMA LockEndTypes ==
    ASSUME AccountsTypeOK, LocksFollow, NEW u \in Users, account' = [account EXCEPT ![u].lock = "past"]
    PROVE  /\ account' \in [Users -> Account] /\ LocksFollow'
           /\ \A w \in Users : /\ account'[w].status = account[w].status
                               /\ account'[w].password = account[w].password
<1> DEFINE v == [account[u] EXCEPT !.lock = "past"]
<1>1. account \in [Users -> Account] /\ account[u] \in Account
  BY DEF AccountsTypeOK
<1>2. v \in Account /\ account' = [account EXCEPT ![u] = v]
  BY <1>1 DEF Account
<1>3. v.lock = "open" => v.failed < FailureLimit
  BY <1>1 DEF Account, LocksFollow
<1>4. v.status = account[u].status /\ v.password = account[u].password
  BY <1>1 DEF Account
<1> HIDE DEF v
<1> QED BY <1>2, <1>3, <1>4, RowTypes

LEMMA StepsAreSound ==
    ASSUME AccountsInv, [AccountsNext]_accountsVars
    PROVE  StepIsSound
<1> USE DEF StepIsSound
<1>0. AccountsTypeOK /\ VerifiedIsRegistered /\ UsableIsCurrent /\ LocksFollow
  BY DEF AccountsInv
<1>1. /\ account \in [Users -> Account] /\ caller \in [Callers -> Caller]
      /\ \A u \in Users : account[u].password \in 0..MaxPasswords
      /\ \A u \in Users : account[u].failed \in 0..FailureLimit
      /\ \A t \in TokenIds : token[t] \in Token /\ token[t].user \in Users
  BY <1>0, TokenFields DEF AccountsTypeOK, Account, Token
<1>2. ASSUME UNCHANGED token,
             \A u \in Users : /\ account'[u].status = account[u].status
                              /\ account'[u].password = account[u].password
      PROVE  Weakens(token') /\ KeepsAccounts
  BY <1>0, <1>1, <1>2, SameWeakens DEF KeepsAccounts
<1>3. /\ UNCHANGED caller => caller' \in [Callers -> Caller] /\ VerifiedIsRegistered'
      /\ UNCHANGED account => account' \in [Users -> Account] /\ LocksFollow'
  BY <1>0, <1>1 DEF VerifiedIsRegistered, LocksFollow
<1>4. ASSUME NEW u \in Users, Register(u) PROVE StepIsSound
  <2>1. account' \in [Users -> Account] /\ LocksFollow' /\ \A w \in Users \ {u} : account'[w] = account[w]
    <3>1. 1 \in 0..MaxPasswords
      OBVIOUS
    <3> QED BY <1>0, <1>4, <3>1, PasswordTypes DEF Register
  <2>2. KeepsAccounts
    <3>1. ASSUME NEW t \in TokenIds, ~token[t].used, ~token'[t].revoked
          PROVE  token[t].user # u
      <4>1. token' = token /\ token[t].password \in 1..MaxPasswords
        BY <1>1, <1>4 DEF Register, Token
      <4>2. account[token[t].user].password # 0
        BY <1>0, <3>1, <4>1 DEF UsableIsCurrent, Usable
      <4> QED BY <1>4, <4>2 DEF Register, Registered
    <3> QED BY <1>1, <2>1, <3>1 DEF KeepsAccounts
  <2>3. Weakens(token')
    BY <1>0, <1>4, SameWeakens DEF Register
  <2> QED BY <2>1, <2>2, <2>3, <1>3, <1>4 DEF Register
<1>5. ASSUME NEW u \in Users, LockEnds(u) PROVE StepIsSound
  <2>1. /\ account' \in [Users -> Account] /\ LocksFollow'
        /\ \A w \in Users : /\ account'[w].status = account[w].status
                            /\ account'[w].password = account[w].password
    BY <1>0, <1>5, LockEndTypes DEF LockEnds
  <2> QED BY <2>1, <1>2, <1>3, <1>5 DEF LockEnds
<1>6. ASSUME NEW u \in Users, LogoutAll(u) PROVE StepIsSound
  BY <1>0, <1>1, <1>3, <1>6, RevokeUserWeakens DEF LogoutAll, KeepsAccounts
<1>7. ASSUME NEW u \in Users, RevokeUser(u),
             \A w \in Users \ {u} : account'[w] = account[w]
      PROVE  Weakens(token') /\ KeepsAccounts
  <2>1. Weakens(token') /\ \A t \in TokenIds : token[t].user = u => token'[t].revoked
    BY <1>0, <1>7, RevokeUserWeakens
  <2> QED BY <1>1, <1>7, <2>1 DEF KeepsAccounts
<1>8. ASSUME NEW u \in Users, ResetPassword(u) PROVE StepIsSound
  <2>1. /\ account' \in [Users -> Account] /\ LocksFollow'
        /\ \A w \in Users \ {u} : account'[w] = account[w]
    <3>1. account[u].password + 1 \in 0..MaxPasswords
      BY <1>1, <1>8 DEF ResetPassword
    <3>2. account' = [account EXCEPT ![u].password = account[u].password + 1,
                                     ![u].failed = 0, ![u].lock = "open"]
      BY <1>1, <1>8 DEF ResetPassword
    <3> QED BY <1>0, <3>1, <3>2, ResetTypes
  <2> QED BY <2>1, <1>3, <1>7, <1>8 DEF ResetPassword
<1>9. ASSUME NEW u \in Users, NEW s \in {"ACTIVE", "DISABLED"}, SetStatus(u, s)
      PROVE  StepIsSound
  <2>1. /\ account' \in [Users -> Account] /\ LocksFollow'
        /\ \A w \in Users \ {u} : account'[w] = account[w]
    BY <1>0, <1>9, StatusTypes DEF SetStatus
  <2> QED BY <2>1, <1>3, <1>7, <1>9 DEF SetStatus
<1>10. ASSUME NEW c \in Callers, NEW u \in Users, NEW p \in 1..MaxPasswords,
              VerifyLogin(c, u, p)
       PROVE  StepIsSound
  <2> DEFINE v == [pc |-> "login", user |-> u, read |-> account[u].password,
                   verified |-> Registered(u) /\ p = account[u].password]
  <2>1. account[u].password \in 0..MaxPasswords
    BY <1>1
  <2>2. v \in Caller /\ (v.verified => v.read # 0)
    BY <2>1 DEF Caller, Registered
  <2>3. caller' = [caller EXCEPT ![c] = v]
    BY <1>10 DEF VerifyLogin
  <2> HIDE DEF v
  <2>4. caller' \in [Callers -> Caller] /\ VerifiedIsRegistered'
    BY <1>0, <1>1, <2>2, <2>3 DEF VerifiedIsRegistered
  <2> QED BY <1>1, <1>2, <1>10, <2>4, <1>3 DEF VerifyLogin
<1>11. ASSUME NEW c \in Callers, NEW u \in Users, VerifyChange(c, u) PROVE StepIsSound
  <2> DEFINE v == [pc |-> "change", user |-> u, read |-> account[u].password,
                   verified |-> TRUE]
  <2>1. account[u].password \in 0..MaxPasswords
    BY <1>1
  <2>2. v \in Caller /\ v.pc = "change"
    BY <2>1 DEF Caller
  <2>3. caller' = [caller EXCEPT ![c] = v]
    BY <1>11 DEF VerifyChange
  <2> HIDE DEF v
  <2>4. caller' \in [Callers -> Caller] /\ VerifiedIsRegistered'
    BY <1>0, <1>1, <2>2, <2>3 DEF VerifiedIsRegistered
  <2> QED BY <1>1, <1>2, <1>11, <2>4, <1>3 DEF VerifyChange
<1>12. ASSUME NEW c \in Callers, FinishLogin(c) PROVE StepIsSound
  <2> DEFINE u == caller[c].user
  <2>1. u \in Users /\ caller[c].pc = "login"
    BY <1>0, <1>12, CallerFields DEF FinishLogin
  <2>2. caller' \in [Callers -> Caller] /\ VerifiedIsRegistered'
    BY <1>0, <1>12, EndedCaller DEF FinishLogin
  <2>3. CASE Valid(c, account[u])
    <3>1. SignIn(c, u)
      BY <1>12, <2>3 DEF FinishLogin
    <3>2. account' \in [Users -> Account] /\ LocksFollow'
      <4>1. 0 \in 0..FailureLimit /\ 0 < FailureLimit /\ "open" \in {"open", "locked", "past"}
        OBVIOUS
      <4> QED BY <1>0, <2>1, <3>1, <4>1, LockTypes DEF SignIn
    <3> QED BY <2>1, <2>2, <2>3, <3>1, <3>2 DEF Issues
  <2>4. CASE ~Valid(c, account[u])
    <3>1. CountFailure(u)
      BY <1>12, <2>4 DEF FinishLogin
    <3>2. /\ account' \in [Users -> Account] /\ LocksFollow'
          /\ \A w \in Users : /\ account'[w].status = account[w].status
                              /\ account'[w].password = account[w].password
      <4> DEFINE count == (IF account[u].lock = "open" THEN account[u].failed ELSE 0) + 1
                 l == IF count >= FailureLimit THEN "locked" ELSE "open"
      <4>1. CASE account' = account
        BY <4>1, <1>1, <1>3
      <4>2. CASE account' = [account EXCEPT ![u].failed = count, ![u].lock = l]
        <5>1. count \in 0..FailureLimit /\ (l = "open" => count < FailureLimit)
          BY <1>0, <1>1, <2>1 DEF LocksFollow
        <5>2. l \in {"open", "locked", "past"}
          OBVIOUS
        <5> HIDE DEF count, l
        <5> QED BY <1>0, <2>1, <4>2, <5>1, <5>2, LockTypes
      <4> QED BY <3>1, <4>1, <4>2 DEF CountFailure
    <3> QED BY <1>2, <2>2, <3>1, <3>2 DEF CountFailure
  <2> QED BY <2>3, <2>4
<1>13. ASSUME NEW c \in Callers, FinishChange(c) PROVE StepIsSound
  <2> DEFINE u == caller[c].user
  <2>1. u \in Users
    BY <1>0, <1>13, CallerFields DEF FinishChange
  <2>2. caller' \in [Callers -> Caller] /\ VerifiedIsRegistered'
    BY <1>0, <1>13, EndedCaller DEF FinishChange
  <2>3. CASE account[u].password = caller[c].read
    <3>1. /\ account[u].password < MaxPasswords /\ RevokeUser(u)
          /\ account' = [account EXCEPT ![u].password = account[u].password + 1]
      BY <1>1, <1>13, <2>1, <2>3 DEF FinishChange
    <3>2. account[u].password + 1 \in 0..MaxPasswords
      BY <1>1, <2>1, <3>1
    <3>3. /\ account' \in [Users -> Account] /\ LocksFollow'
          /\ \A w \in Users \ {u} : account'[w] = account[w]
      BY <1>0, <2>1, <3>1, <3>2, PasswordTypes
    <3> QED BY <1>7, <2>1, <2>2, <3>1, <3>3
  <2>4. CASE account[u].password # caller[c].read
    BY <1>1, <1>2, <1>3, <1>13, <2>2, <2>4 DEF FinishChange
  <2> QED BY <2>3, <2>4
<1>14. ASSUME NEW t \in 1..MaxTokens, Refresh(t) PROVE StepIsSound
  <2>1. t \in TokenIds /\ UNCHANGED <<account, caller>>
    BY <1>14 DEF Refresh
  <2>2. CASE token[t].used
    <3> DEFINE Q == [s \in TokenIds |-> token[s].family = token[t].family]
    <3>1. token' = [s \in TokenIds |-> IF Q[s] THEN [token[s] EXCEPT !.revoked = TRUE]
                                       ELSE token[s]]
      BY <1>14, <2>2 DEF Refresh, Replayed, Revoking
    <3>2. Q \in [TokenIds -> BOOLEAN]
      OBVIOUS
    <3> HIDE DEF Q
    <3>3. Weakens(token')
      BY <1>0, <3>1, <3>2, RevokingWeakens
    <3> QED BY <1>1, <1>3, <2>1, <3>3 DEF KeepsAccounts
  <2>3. CASE ~token[t].used
    BY <1>1, <1>3, <1>14, <2>1, <2>3 DEF Refresh, Replayed, Issues
  <2> QED BY <2>2, <2>3
<1>15. ASSUME NEW t \in 1..MaxTokens, ExpireToken(t) PROVE StepIsSound
  BY <1>0, <1>1, <1>3, <1>15, EndingWeakens DEF ExpireToken, KeepsAccounts
<1>16. ASSUME NEW t \in 1..MaxTokens, Logout(t) PROVE StepIsSound
  BY <1>0, <1>1, <1>3, <1>16, EndingWeakens DEF Logout, KeepsAccounts
<1>17. CASE UNCHANGED accountsVars
  BY <1>1, <1>2, <1>3, <1>17 DEF accountsVars
<1> QED
  BY <1>4, <1>5, <1>6, <1>8, <1>9, <1>10, <1>11, <1>12, <1>13, <1>14, <1>15, <1>16, <1>17
     DEF AccountsNext

-----------------------------------------------------------------------------
(* Accounts: theorems.                                                       *)

LEMMA AccountsInitially == AccountsInit => AccountsInv
<1> SUFFICES ASSUME AccountsInit PROVE AccountsInv
  OBVIOUS
<1>1. account \in [Users -> Account] /\ LocksFollow
  BY DEF AccountsInit, Account, LocksFollow
<1>2. token \in Seq(Token) /\ Len(token) = 0
  BY DEF AccountsInit
<1>3. caller \in [Callers -> Caller] /\ \A c \in Callers : caller[c].pc = "idle"
  BY DEF AccountsInit, Caller, NoCaller
<1> QED
  BY <1>1, <1>2, <1>3 DEF AccountsInv, AccountsTypeOK, UsableIsCurrent, FamiliesAreChains,
                          VerifiedIsRegistered, TokenIds

LEMMA AccountsInductive == AccountsInv /\ [AccountsNext]_accountsVars => AccountsInv'
<1> SUFFICES ASSUME AccountsInv, [AccountsNext]_accountsVars PROVE AccountsInv'
  OBVIOUS
<1>1. StepIsSound
  BY StepsAreSound
<1>2. /\ token' \in Seq(Token) /\ Len(token') <= MaxTokens
      /\ UsableIsCurrent' /\ FamiliesAreChains'
  BY <1>1, WeakeningKeepsTokens, SignInKeepsTokens, RotateKeepsTokens DEF StepIsSound, Issues
<1> QED BY <1>1, <1>2 DEF StepIsSound, AccountsInv, AccountsTypeOK

\* The tokens and the accounts they belong to agree after every step.
THEOREM AccountsInvariance == AccountsSpec => []AccountsInv
<1>1. AccountsInit => AccountsInv
  BY AccountsInitially
<1>2. AccountsInv /\ [AccountsNext]_accountsVars => AccountsInv'
  BY AccountsInductive
<1> QED BY <1>1, <1>2, PTL DEF AccountsSpec

\* Rows and requests keep to their types; that the count of failures stays
\* within its column needs the lock that comes with the last of them.
THEOREM AccountsTypeCorrect == AccountsSpec => []AccountsTypeOK
<1>1. AccountsInv => AccountsTypeOK
  BY DEF AccountsInv
<1> QED BY <1>1, AccountsInvariance, PTL

\* A token that can still be used is of an active account and its present
\* password, and alone in its family.
THEOREM TokensAreSoundHolds == AccountsSpec => []TokensAreSound
<1>1. AccountsInv => TokensAreSound
  BY DEF AccountsInv, UsableIsCurrent, FamiliesAreChains, TokensAreSound, Live, Usable
<1> QED BY <1>1, AccountsInvariance, PTL

\* A family of tokens that has ended is never used again.
THEOREM FamiliesStayDeadHolds == AccountsSpec => FamiliesStayDead
<1> DEFINE Dead(f) == \A t \in TokenIds : token[t].family = f => ~Live(t)
           StaysDead == \A f \in TokenIds : Dead(f) =>
               \A t \in DOMAIN token' : token'[t].family = f =>
                   token'[t].used \/ token'[t].revoked \/ token'[t].expired
<1>1. AccountsInv /\ [AccountsNext]_accountsVars => StaysDead
  <2> SUFFICES ASSUME AccountsInv, [AccountsNext]_accountsVars,
                      NEW f \in TokenIds, Dead(f),
                      NEW t \in DOMAIN token', token'[t].family = f
               PROVE  token'[t].used \/ token'[t].revoked \/ token'[t].expired
    OBVIOUS
  <2> USE DEF Live
  <2>1. AccountsTypeOK /\ token \in Seq(Token) /\ StepIsSound
    BY StepsAreSound DEF AccountsInv, AccountsTypeOK
  <2>2. CASE Weakens(token')
    <3>1. t \in TokenIds
      BY <2>1, <2>2 DEF Weakens, TokenIds
    <3> QED BY <2>2, <3>1 DEF Weakens
  <2>3. ASSUME NEW c \in Callers, NEW u \in Users, SignIn(c, u)
        PROVE  token'[t].used \/ token'[t].revoked \/ token'[t].expired
    <3> DEFINE v == [user |-> u, family |-> Len(token) + 1, used |-> FALSE,
                     revoked |-> FALSE, expired |-> FALSE, password |-> caller[c].read]
    <3>1. token' = Append(token, v) /\ v.family = Len(token) + 1
      BY <2>3 DEF SignIn
    <3> HIDE DEF v
    <3>2. t \in 1..Len(token) + 1 /\ (t \in TokenIds => token'[t] = token[t])
      BY <2>1, <3>1 DEF TokenIds
    <3>3. t # Len(token) + 1
      BY <2>1, <3>1 DEF TokenIds
    <3> QED BY <2>1, <3>2, <3>3 DEF TokenIds
  <2>4. ASSUME NEW s \in TokenIds, ~token[s].used, Refreshes(s), Rotate(s)
        PROVE  token'[t].used \/ token'[t].revoked \/ token'[t].expired
    <3> DEFINE old == [token[s] EXCEPT !.used = TRUE, !.revoked = TRUE]
               v == [token[s] EXCEPT !.used = FALSE, !.revoked = FALSE, !.expired = FALSE]
               r == [token EXCEPT ![s] = old]
    <3>1. token[s] \in Token
      BY <2>1 DEF TokenIds
    <3>2. old \in Token /\ v.family = token[s].family /\ old.used
      BY <3>1 DEF Token
    <3>3. token' = Append(r, v)
      BY <2>1, <2>4 DEF Rotate, TokenIds
    <3> HIDE DEF old, v
    <3>4. r \in Seq(Token) /\ Len(r) = Len(token)
          /\ \A i \in TokenIds : r[i] = IF i = s THEN old ELSE token[i]
      BY <2>1, <3>2 DEF TokenIds
    <3> HIDE DEF r
    <3>5. /\ t \in 1..Len(token) + 1
          /\ t \in TokenIds => token'[t] = r[t]
          /\ t = Len(token) + 1 => token'[t] = v
      BY <2>1, <3>3, <3>4 DEF TokenIds
    <3>6. token[s].family # f
      BY <2>4 DEF Refreshes
    <3>7. t \in TokenIds
      BY <2>1, <3>2, <3>5, <3>6 DEF TokenIds
    <3> QED BY <3>2, <3>4, <3>5, <3>7
  <2> QED BY <2>1, <2>2, <2>3, <2>4 DEF StepIsSound, Issues
<1> QED BY <1>1, AccountsInvariance, PTL DEF AccountsSpec, FamiliesStayDead

-----------------------------------------------------------------------------
(* Accounts: the tables implement the token families of TokenFamily.         *)

Fresh(row) == ~row.used /\ ~row.revoked /\ ~row.expired
FreshIn(rows, f) == {t \in 1..Len(rows) : rows[t].family = f /\ Fresh(rows[t])}
OneUnused(rows) ==
    \A s, t \in 1..Len(rows) : s # t /\ rows[s].family = rows[t].family => rows[s].used \/ rows[t].used

\* FamilyOf, of any table.
Standing(rows, f) ==
    IF {t \in 1..Len(rows) : rows[t].family = f} = {} THEN [state |-> "none"]
    ELSE IF FreshIn(rows, f) = {} THEN [state |-> "ended"]
    ELSE LET t == CHOOSE t \in FreshIn(rows, f) : TRUE
         IN  [state |-> "open", user |-> rows[t].user, password |-> rows[t].password,
              holder |-> FreshIn(rows, f)]

OpenAt(t, row) == [state |-> "open", user |-> row.user, password |-> row.password, holder |-> {t}]

LEMMA FamilyStands == ASSUME NEW f PROVE FamilyOf(f) = Standing(token, f) /\ FamilyOf(f)' = Standing(token', f)
<1>1. FamilyOf(f) = Standing(token, f)
  BY DEF FamilyOf, IssuedIn, LiveIn, Live, TokenIds, Standing, FreshIn, Fresh
<1>2. FamilyOf(f)' = Standing(token', f)
  BY DEF FamilyOf, IssuedIn, LiveIn, Live, TokenIds, Standing, FreshIn, Fresh
<1> QED BY <1>1, <1>2

\* A family is open at its one usable token, ended without one, or has no token.
LEMMA StandsOpen ==
    ASSUME NEW rows \in Seq(Token), OneUnused(rows), NEW t \in 1..Len(rows), Fresh(rows[t]),
           NEW f, rows[t].family = f
    PROVE  Standing(rows, f) = OpenAt(t, rows[t])
<1>1. FreshIn(rows, f) = {t}
  BY DEF FreshIn, Fresh, OneUnused
<1>2. (CHOOSE s \in FreshIn(rows, f) : TRUE) = t
  BY <1>1
<1> QED BY <1>1, <1>2 DEF Standing, OpenAt

LEMMA StandsEnded ==
    ASSUME NEW rows \in Seq(Token), NEW t \in 1..Len(rows), NEW f, rows[t].family = f,
           \A s \in 1..Len(rows) : rows[s].family = f => ~Fresh(rows[s])
    PROVE  Standing(rows, f) = [state |-> "ended"]
<1>1. FreshIn(rows, f) = {} /\ {s \in 1..Len(rows) : rows[s].family = f} # {}
  BY DEF FreshIn
<1> QED BY <1>1 DEF Standing

LEMMA StandsNot ==
    ASSUME NEW rows \in Seq(Token), NEW f, \A s \in 1..Len(rows) : rows[s].family # f
    PROVE  Standing(rows, f) = [state |-> "none"]
BY DEF Standing

LEMMA StandsSome ==
    ASSUME NEW rows \in Seq(Token), OneUnused(rows), NEW f
    PROVE  \/ /\ \A s \in 1..Len(rows) : rows[s].family # f
              /\ Standing(rows, f) = [state |-> "none"]
           \/ \E t \in 1..Len(rows) : /\ rows[t].family = f /\ Fresh(rows[t])
                                      /\ Standing(rows, f) = OpenAt(t, rows[t])
           \/ /\ \E t \in 1..Len(rows) : rows[t].family = f
              /\ \A s \in 1..Len(rows) : rows[s].family = f => ~Fresh(rows[s])
              /\ Standing(rows, f) = [state |-> "ended"]
<1>1. CASE \A s \in 1..Len(rows) : rows[s].family # f
  BY <1>1, StandsNot
<1>2. CASE \E t \in 1..Len(rows) : rows[t].family = f /\ Fresh(rows[t])
  BY <1>2, StandsOpen
<1>3. CASE /\ \E t \in 1..Len(rows) : rows[t].family = f
           /\ \A s \in 1..Len(rows) : rows[s].family = f => ~Fresh(rows[s])
  BY <1>3, StandsEnded
<1> QED BY <1>1, <1>2, <1>3

\* Tokens nearer their end leave a family as it is or end it.
LEMMA WeakenedStands ==
    ASSUME NEW old \in Seq(Token), NEW new \in Seq(Token), OneUnused(old), OneUnused(new),
           Len(new) = Len(old),
           \A t \in 1..Len(old) :
              /\ new[t].user = old[t].user /\ new[t].family = old[t].family
              /\ new[t].used = old[t].used /\ new[t].password = old[t].password
              /\ old[t].revoked => new[t].revoked
              /\ old[t].expired => new[t].expired,
           NEW f
    PROVE  \/ Standing(new, f) = Standing(old, f)
           \/ Standing(old, f).state = "open" /\ Standing(new, f) = [state |-> "ended"]
<1>1. Len(old) \in Nat
  OBVIOUS
<1>2. CASE \A s \in 1..Len(old) : old[s].family # f
  BY <1>2, StandsNot
<1>3. ASSUME NEW t \in 1..Len(old), old[t].family = f, Fresh(old[t])
      PROVE  \/ Standing(new, f) = Standing(old, f)
             \/ Standing(old, f).state = "open" /\ Standing(new, f) = [state |-> "ended"]
  <2>1. Standing(old, f) = OpenAt(t, old[t]) /\ OpenAt(t, old[t]).state = "open"
    BY ZenonT(60), <1>3, StandsOpen DEF OpenAt
  <2>2. CASE Fresh(new[t])
    <3>1. Standing(new, f) = OpenAt(t, new[t])
      BY <1>3, <2>2, StandsOpen
    <3> QED BY <2>1, <3>1 DEF OpenAt
  <2>3. CASE ~Fresh(new[t])
    <3>1. \A s \in 1..Len(new) : new[s].family = f => ~Fresh(new[s])
      BY <1>3, <2>3 DEF Fresh, OneUnused
    <3> QED BY <1>3, <2>1, <3>1, StandsEnded
  <2> QED BY <2>2, <2>3
<1>4. ASSUME NEW t \in 1..Len(old), old[t].family = f,
             \A s \in 1..Len(old) : old[s].family = f => ~Fresh(old[s])
      PROVE  Standing(new, f) = Standing(old, f)
  <2>1. \A s \in 1..Len(new) : new[s].family = f => ~Fresh(new[s])
    BY <1>4 DEF Fresh
  <2> QED BY <1>4, <2>1, StandsEnded
<1> QED BY <1>2, <1>3, <1>4

\* What the revocation of a user's tokens does to the table.
Revokes(old, new, u) ==
    /\ Len(new) = Len(old)
    /\ \A t \in 1..Len(old) : /\ new[t].user = old[t].user /\ new[t].family = old[t].family
                              /\ new[t].used = old[t].used
                              /\ old[t].user = u => new[t].revoked
                              /\ old[t].user # u => new[t] = old[t]

\* Revoking a user's tokens ends that user's open families and no other.
LEMMA RevokedStands ==
    ASSUME NEW old \in Seq(Token), NEW new \in Seq(Token), OneUnused(old), OneUnused(new),
           NEW u, Revokes(old, new, u),
           NEW f
    PROVE  Standing(new, f) = IF Standing(old, f).state = "open" /\ Standing(old, f).user = u
                              THEN [state |-> "ended"] ELSE Standing(old, f)
<1> USE DEF Revokes
<1>1. Len(old) \in Nat
  OBVIOUS
<1>2. CASE \A s \in 1..Len(old) : old[s].family # f
  <2>1. Standing(old, f) = [state |-> "none"] /\ Standing(new, f) = [state |-> "none"]
    BY <1>2, StandsNot
  <2> QED BY <2>1
<1>3. ASSUME NEW t \in 1..Len(old), old[t].family = f, Fresh(old[t])
      PROVE  Standing(new, f) = IF Standing(old, f).state = "open" /\ Standing(old, f).user = u
                                THEN [state |-> "ended"] ELSE Standing(old, f)
  <2>1. /\ Standing(old, f) = OpenAt(t, old[t])
        /\ OpenAt(t, old[t]).state = "open" /\ OpenAt(t, old[t]).user = old[t].user
    BY <1>3, StandsOpen DEF OpenAt
  <2>2. CASE old[t].user # u
    <3>1. new[t] = old[t]
      BY <2>2
    <3>2. Standing(new, f) = OpenAt(t, new[t])
      BY <1>3, <3>1, StandsOpen
    <3> QED BY <2>1, <2>2, <3>1, <3>2
  <2>3. CASE old[t].user = u
    <3>1. \A s \in 1..Len(new) : new[s].family = f => ~Fresh(new[s])
      BY <1>3, <2>3 DEF Fresh, OneUnused
    <3>2. Standing(new, f) = [state |-> "ended"]
      BY <1>3, <3>1, StandsEnded
    <3> QED BY <2>1, <2>3, <3>2
  <2> QED BY <2>2, <2>3
<1>4. ASSUME NEW t \in 1..Len(old), old[t].family = f,
             \A s \in 1..Len(old) : old[s].family = f => ~Fresh(old[s])
      PROVE  Standing(new, f) = [state |-> "ended"] /\ Standing(old, f) = [state |-> "ended"]
  <2>1. \A s \in 1..Len(new) : new[s].family = f => ~Fresh(new[s])
    BY <1>4 DEF Fresh
  <2> QED BY <1>4, <2>1, StandsEnded
<1> QED BY <1>2, <1>3, <1>4

\* A new first token opens its family, and is nobody else's.
LEMMA BegunStands ==
    ASSUME NEW old \in Seq(Token), NEW new \in Seq(Token), OneUnused(old), OneUnused(new),
           NEW n, n = Len(old) + 1, Len(new) = n,
           \A t \in 1..Len(old) : new[t] = old[t] /\ old[t].family # n,
           new[n].family = n, Fresh(new[n]), NEW f
    PROVE  /\ f # n => Standing(new, f) = Standing(old, f)
           /\ f = n => Standing(old, f) = [state |-> "none"] /\ Standing(new, f) = OpenAt(n, new[n])
<1>1. Len(old) \in Nat /\ n \in 1..Len(new) /\ 1..Len(new) = (1..Len(old)) \cup {n}
  OBVIOUS
<1>2. CASE f = n
  BY <1>1, <1>2, StandsNot, StandsOpen
<1>3. CASE f # n
  <2>1. /\ {t \in 1..Len(new) : new[t].family = f} = {t \in 1..Len(old) : old[t].family = f}
        /\ FreshIn(new, f) = FreshIn(old, f)
    BY <1>1, <1>3 DEF FreshIn
  <2>2. \A t \in FreshIn(old, f) : t \in 1..Len(old)
    BY DEF FreshIn
  <2>3. CASE FreshIn(old, f) = {}
    BY <2>1, <2>3 DEF Standing
  <2>4. CASE FreshIn(old, f) # {}
    <3> DEFINE c == CHOOSE t \in FreshIn(old, f) : TRUE
    <3>1. c \in FreshIn(old, f)
      BY <2>4
    <3>2. new[c] = old[c]
      BY <2>2, <3>1
    <3> QED BY <2>1, <3>2 DEF Standing
  <2> QED BY <2>3, <2>4
<1> QED BY <1>2, <1>3

\* A successor takes over its family, and no other changes.
LEMMA HandedOverStands ==
    ASSUME NEW old \in Seq(Token), NEW new \in Seq(Token), OneUnused(old), OneUnused(new),
           NEW s \in 1..Len(old), Fresh(old[s]), NEW n, n = Len(old) + 1, Len(new) = n,
           \A t \in 1..Len(old) : t # s => new[t] = old[t],
           new[s].family = old[s].family, ~Fresh(new[s]),
           new[n].family = old[s].family, new[n].user = old[s].user,
           new[n].password = old[s].password, Fresh(new[n]), NEW f
    PROVE  /\ f # old[s].family => Standing(new, f) = Standing(old, f)
           /\ f = old[s].family => /\ Standing(old, f) = OpenAt(s, old[s])
                                  /\ Standing(new, f) = OpenAt(n, old[s])
<1>1. Len(old) \in Nat /\ n \in 1..Len(new) /\ 1..Len(new) = (1..Len(old)) \cup {n}
  OBVIOUS
<1>2. CASE f = old[s].family
  <2>1. Standing(old, f) = OpenAt(s, old[s]) /\ Standing(new, f) = OpenAt(n, new[n])
    BY <1>1, <1>2, StandsOpen
  <2> QED BY <1>2, <2>1 DEF OpenAt
<1>3. CASE f # old[s].family
  <2>1. /\ {t \in 1..Len(new) : new[t].family = f} = {t \in 1..Len(old) : old[t].family = f}
        /\ FreshIn(new, f) = FreshIn(old, f)
    BY <1>1, <1>3 DEF FreshIn
  <2>2. \A t \in FreshIn(old, f) : t \in 1..Len(old) /\ t # s
    BY <1>3 DEF FreshIn
  <2>3. CASE FreshIn(old, f) = {}
    BY SMTT(30), <2>1, <2>3 DEF Standing
  <2>4. CASE FreshIn(old, f) # {}
    <3> DEFINE c == CHOOSE t \in FreshIn(old, f) : TRUE
    <3>1. c \in FreshIn(old, f)
      BY <2>4
    <3>2. new[c] = old[c]
      BY <2>2, <3>1
    <3> QED BY <2>1, <3>2 DEF Standing
  <2> QED BY <2>3, <2>4
<1> QED BY <1>2, <1>3

SamePeople == \A w \in Users : /\ account'[w].status = account[w].status
                               /\ account'[w].password = account[w].password

\* One account's row has a new password, another status, or both; the others stay.
NewRow(u) ==
    /\ account'[u].password \in {account[u].password, account[u].password + 1}
    /\ \A w \in Users \ {u} : account'[w] = account[w]

\* Every step, as far as families and people see it.
LEMMA StepKinds ==
    ASSUME AccountsInv, [AccountsNext]_accountsVars
    PROVE  \/ Weakens(token') /\ SamePeople
           \/ \E u \in Users : RevokeUser(u) /\ NewRow(u)
           \/ \E u \in Users : ~Registered(u) /\ UNCHANGED token /\ NewRow(u)
           \/ Issues /\ SamePeople
<1> DEFINE Goal == \/ Weakens(token') /\ SamePeople
                   \/ \E u \in Users : RevokeUser(u) /\ NewRow(u)
                   \/ \E u \in Users : ~Registered(u) /\ UNCHANGED token /\ NewRow(u)
                   \/ Issues /\ SamePeople
<1>1. AccountsTypeOK /\ account \in [Users -> Account] /\ \A u \in Users : account[u].password \in Nat
  BY DEF AccountsInv, AccountsTypeOK, Account
<1>2. UNCHANGED token /\ SamePeople => Goal
  BY <1>1, SameWeakens
<1>3. UNCHANGED account => SamePeople
  BY DEF SamePeople
<1>4. ASSUME NEW u \in Users, NEW v \in Account, account' = [account EXCEPT ![u] = v]
      PROVE  /\ v.password \in {account[u].password, account[u].password + 1} => NewRow(u)
             /\ v.password = account[u].password /\ v.status = account[u].status => SamePeople
  BY <1>1, <1>4 DEF NewRow, SamePeople
<1>5. ASSUME NEW u \in Users, Register(u) PROVE Goal
  <2>1. NewRow(u)
    BY <1>1, <1>5 DEF Register, NewRow, Registered, Account
  <2> QED BY <1>5, <2>1 DEF Register
<1>6. ASSUME NEW u \in Users, LockEnds(u) PROVE Goal
  <2>1. SamePeople
    BY <1>1, <1>6 DEF LockEnds, SamePeople, Account
  <2> QED BY <1>2, <1>6, <2>1 DEF LockEnds
<1>7. ASSUME NEW u \in Users, LogoutAll(u) PROVE Goal
  <2>1. Weakens(token')
    BY <1>1, <1>7, RevokeUserWeakens DEF LogoutAll
  <2> QED BY <1>3, <1>7, <2>1 DEF LogoutAll
<1>8. ASSUME NEW u \in Users, ResetPassword(u) PROVE Goal
  <2>1. NewRow(u)
    BY <1>1, <1>8 DEF ResetPassword, NewRow, Account
  <2> QED BY <1>8, <2>1 DEF ResetPassword
<1>9. ASSUME NEW u \in Users, NEW s \in {"ACTIVE", "DISABLED"}, SetStatus(u, s) PROVE Goal
  <2>1. NewRow(u)
    BY <1>1, <1>9 DEF SetStatus, NewRow, Account
  <2> QED BY <1>9, <2>1 DEF SetStatus
<1>10. ASSUME NEW c \in Callers, NEW u \in Users, NEW p \in 1..MaxPasswords,
              VerifyLogin(c, u, p)
       PROVE  Goal
  BY <1>2, <1>3, <1>10 DEF VerifyLogin
<1>11. ASSUME NEW c \in Callers, NEW u \in Users, VerifyChange(c, u) PROVE Goal
  BY <1>2, <1>3, <1>11 DEF VerifyChange
<1>12. ASSUME NEW c \in Callers, FinishLogin(c) PROVE Goal
  <2> DEFINE u == caller[c].user
  <2>1. u \in Users /\ caller[c].pc = "login"
    BY <1>1, <1>12, CallerFields DEF FinishLogin
  <2>2. CASE Valid(c, account[u])
    <3>1. SignIn(c, u)
      BY <1>12, <2>2 DEF FinishLogin
    <3>2. Issues
      BY <2>1, <2>2, <3>1 DEF Issues
    <3>3. SamePeople
      BY <1>1, <3>1 DEF SignIn, SamePeople, Account
    <3> QED BY <3>2, <3>3
  <2>3. CASE ~Valid(c, account[u])
    <3>1. CountFailure(u)
      BY <1>12, <2>3 DEF FinishLogin
    <3>2. SamePeople
      BY <1>1, <3>1 DEF CountFailure, SamePeople, Account
    <3> QED BY <1>2, <3>1, <3>2 DEF CountFailure
  <2> QED BY <2>2, <2>3
<1>13. ASSUME NEW c \in Callers, FinishChange(c) PROVE Goal
  <2> DEFINE u == caller[c].user
  <2>1. u \in Users
    BY <1>1, <1>13, CallerFields DEF FinishChange
  <2>2. CASE account[u].password = caller[c].read
    <3>1. RevokeUser(u) /\ account' = [account EXCEPT ![u].password = account[u].password + 1]
      BY <1>1, <1>13, <2>1, <2>2 DEF FinishChange
    <3>2. NewRow(u)
      BY <1>1, <2>1, <3>1 DEF NewRow, Account
    <3> QED BY <2>1, <3>1, <3>2
  <2>3. CASE account[u].password # caller[c].read
    BY <1>2, <1>3, <1>13, <2>3 DEF FinishChange
  <2> QED BY <2>2, <2>3
<1>14. ASSUME NEW t \in 1..MaxTokens, Refresh(t) PROVE Goal
  <2>1. t \in TokenIds /\ UNCHANGED account
    BY <1>14 DEF Refresh
  <2>2. CASE token[t].used
    <3> DEFINE Q == [s \in TokenIds |-> token[s].family = token[t].family]
    <3>1. token' = [s \in TokenIds |-> IF Q[s] THEN [token[s] EXCEPT !.revoked = TRUE]
                                       ELSE token[s]]
      BY <1>14, <2>2 DEF Refresh, Replayed, Revoking
    <3>2. Q \in [TokenIds -> BOOLEAN]
      OBVIOUS
    <3> HIDE DEF Q
    <3>3. Weakens(token')
      BY <1>1, <3>1, <3>2, RevokingWeakens
    <3> QED BY <1>3, <2>1, <3>3
  <2>3. CASE ~token[t].used
    BY <1>3, <1>14, <2>1, <2>3 DEF Refresh, Replayed, Issues
  <2> QED BY <2>2, <2>3
<1>15. ASSUME NEW t \in 1..MaxTokens, ExpireToken(t) \/ Logout(t) PROVE Goal
  <2>1. Weakens(token') /\ UNCHANGED account
    BY <1>1, <1>15, EndingWeakens DEF ExpireToken, Logout
  <2> QED BY <1>3, <2>1
<1>16. ASSUME UNCHANGED accountsVars PROVE Goal
  BY <1>2, <1>3, <1>16 DEF accountsVars
<1> HIDE DEF Goal
<1>17. AccountsNext \/ UNCHANGED accountsVars
  OBVIOUS
<1>18. ASSUME NEW t \in 1..MaxTokens, Refresh(t) \/ ExpireToken(t) \/ Logout(t) PROVE Goal
  BY ONLY <1>14, <1>15, <1>18
<1>19. ASSUME NEW u \in Users,
              \/ Register(u) \/ LockEnds(u) \/ LogoutAll(u) \/ ResetPassword(u)
              \/ \E status \in {"ACTIVE", "DISABLED"} : SetStatus(u, status)
       PROVE  Goal
  BY ONLY <1>5, <1>6, <1>7, <1>8, <1>9, <1>19
<1>20. Goal
  BY ONLY <1>10, <1>11, <1>12, <1>13, <1>16, <1>17, <1>18, <1>19 DEF AccountsNext
<1> QED BY <1>20 DEF Goal

LEMMA TableIsChained ==
    /\ AccountsInv => token \in Seq(Token) /\ OneUnused(token) /\ Len(token) \in Nat
    /\ AccountsInv' => token' \in Seq(Token) /\ OneUnused(token') /\ Len(token') \in Nat
<1>1. ASSUME AccountsInv PROVE token \in Seq(Token) /\ OneUnused(token) /\ Len(token) \in Nat
  BY <1>1 DEF AccountsInv, AccountsTypeOK, FamiliesAreChains, OneUnused, TokenIds
<1>2. ASSUME AccountsInv' PROVE token' \in Seq(Token) /\ OneUnused(token') /\ Len(token') \in Nat
  BY <1>2 DEF AccountsInv, AccountsTypeOK, FamiliesAreChains, OneUnused, TokenIds
<1> QED BY <1>1, <1>2

LEMMA PeopleStay == ASSUME SamePeople PROVE PersonOf' = PersonOf
BY DEF SamePeople, PersonOf

\* Tokens that come nearer their end end families.
LEMMA FamiliesEnd ==
    ASSUME AccountsInv, AccountsInv', Weakens(token'), SamePeople
    PROVE  Families!Next
<1> DEFINE ids == 1..MaxTokens
           ending == {f \in ids : FamilyRows'[f] # FamilyRows[f]}
<1>1. \A f \in ids : FamilyRows[f] = Standing(token, f) /\ FamilyRows'[f] = Standing(token', f)
  BY FamilyStands DEF FamilyRows
<1>2. \A f \in ids : \/ FamilyRows'[f] = FamilyRows[f]
                     \/ FamilyRows[f].state = "open" /\ FamilyRows'[f] = [state |-> "ended"]
  <2>1. /\ Len(token') = Len(token)
        /\ \A t \in 1..Len(token) :
              /\ token'[t].user = token[t].user /\ token'[t].family = token[t].family
              /\ token'[t].used = token[t].used /\ token'[t].password = token[t].password
              /\ token[t].revoked => token'[t].revoked
              /\ token[t].expired => token'[t].expired
    BY DEF Weakens, TokenIds
  <2>2. \A f : \/ Standing(token', f) = Standing(token, f)
               \/ Standing(token, f).state = "open" /\ Standing(token', f) = [state |-> "ended"]
    BY <2>1, TableIsChained, WeakenedStands
  <2> QED BY <1>1, <2>2
<1>3. FamilyRows' = [f \in ids |-> FamilyRows'[f]]
  BY DEF FamilyRows
<1>4. FamilyRows' = [f \in ids |-> IF f \in ending THEN [state |-> "ended"] ELSE FamilyRows[f]]
  BY <1>2, <1>3
<1>5. Families!End(ending)
  BY <1>2, <1>4, PeopleStay DEF Families!End, Families!Without, Families!Ended
<1>6. ending \in SUBSET ids
  OBVIOUS
<1> QED BY <1>5, <1>6 DEF Families!Next

LEMMA PeopleChange ==
    ASSUME AccountsInv, NEW u \in Users, NewRow(u)
    PROVE  \E p \in {PersonOf[u].password, PersonOf[u].password + 1}, isActive \in BOOLEAN :
              PersonOf' = [PersonOf EXCEPT ![u] = [password |-> p, active |-> isActive]]
<1> DEFINE p == account'[u].password
           isActive == account'[u].status = "ACTIVE"
<1>1. p \in {PersonOf[u].password, PersonOf[u].password + 1} /\ isActive \in BOOLEAN
  BY DEF NewRow, PersonOf
<1>2. PersonOf' = [PersonOf EXCEPT ![u] = [password |-> p, active |-> isActive]]
  BY DEF NewRow, PersonOf
<1> HIDE DEF p, isActive
<1> QED BY <1>1, <1>2

\* A person's change, when exactly that person's open families end.
LEMMA PersonChanges ==
    ASSUME AccountsInv, NEW u \in Users, NewRow(u),
           \A f \in 1..MaxTokens :
              FamilyRows'[f] = IF FamilyRows[f].state = "open" /\ FamilyRows[f].user = u
                               THEN [state |-> "ended"] ELSE FamilyRows[f]
    PROVE  Families!Next
<1> DEFINE ids == 1..MaxTokens
<1>1. PICK p \in {PersonOf[u].password, PersonOf[u].password + 1}, isActive \in BOOLEAN :
              PersonOf' = [PersonOf EXCEPT ![u] = [password |-> p, active |-> isActive]]
  BY PeopleChange
<1>2. FamilyRows' = [f \in ids |-> FamilyRows'[f]]
  BY DEF FamilyRows
<1>3. FamilyRows' = [f \in ids |-> IF f \in Families!OpenOf(u) THEN [state |-> "ended"]
                                   ELSE FamilyRows[f]]
  BY <1>2 DEF Families!OpenOf
<1>4. Families!Change(u, p, isActive)
  BY <1>1, <1>3 DEF Families!Change, Families!Without, Families!Ended
<1> QED BY <1>1, <1>4 DEF Families!Next

LEMMA RevocationChanges ==
    ASSUME AccountsInv, AccountsInv', NEW u \in Users, RevokeUser(u), NewRow(u)
    PROVE  Families!Next
<1>1. Revokes(token, token', u)
  <2>1. Weakens(token') /\ \A t \in TokenIds : token[t].user = u => token'[t].revoked
    BY RevokeUserWeakens DEF AccountsInv
  <2>2. \A t \in TokenIds : token[t].user # u => token'[t] = token[t]
    BY DEF RevokeUser, Revoking
  <2> QED BY <2>1, <2>2 DEF Weakens, TokenIds, Revokes
<1>2. \A f : Standing(token', f) = IF Standing(token, f).state = "open" /\ Standing(token, f).user = u
                                   THEN [state |-> "ended"] ELSE Standing(token, f)
  <2>1. /\ token \in Seq(Token) /\ OneUnused(token)
        /\ token' \in Seq(Token) /\ OneUnused(token')
    BY TableIsChained
  <2> QED BY ONLY <1>1, <2>1, RevokedStands
<1>3. \A f \in 1..MaxTokens : FamilyRows[f] = Standing(token, f) /\ FamilyRows'[f] = Standing(token', f)
  BY FamilyStands DEF FamilyRows
<1> QED BY <1>2, <1>3, PersonChanges

\* Somebody without a password has no open family.
LEMMA RegistrationChanges ==
    ASSUME AccountsInv, AccountsInv', NEW u \in Users, ~Registered(u), UNCHANGED token, NewRow(u)
    PROVE  Families!Next
<1>1. \A f \in 1..MaxTokens : FamilyRows[f] = Standing(token, f) /\ FamilyRows'[f] = Standing(token', f)
  BY FamilyStands DEF FamilyRows
<1>2. ASSUME NEW f \in 1..MaxTokens, Standing(token, f).state = "open" PROVE Standing(token, f).user # u
  <2>1. PICK t \in 1..Len(token) : Fresh(token[t]) /\ Standing(token, f) = OpenAt(t, token[t])
    <3>1. [state |-> "none"].state # "open" /\ [state |-> "ended"].state # "open"
      OBVIOUS
    <3> QED BY <1>2, <3>1, TableIsChained, StandsSome
  <2>2. token[t].password \in 1..MaxPasswords
    <3>1. token[t] \in Token
      BY TableIsChained
    <3> QED BY <3>1 DEF Token
  <2>3. token[t].password = account[token[t].user].password
    BY <2>1 DEF AccountsInv, UsableIsCurrent, Usable, Fresh, TokenIds
  <2>4. token[t].user # u
    BY <2>2, <2>3 DEF Registered
  <2> QED BY <2>1, <2>4 DEF OpenAt
<1> QED BY <1>1, <1>2, PersonChanges

\* A sign-in begins a family.
LEMMA SignInBegins ==
    ASSUME AccountsInv, AccountsInv', SamePeople, NEW c \in Callers, NEW u \in Users,
           caller[c].pc = "login", Valid(c, account[u]), SignIn(c, u)
    PROVE  Families!Next
<1> DEFINE ids == 1..MaxTokens
           n == Len(token) + 1
           v == [user |-> u, family |-> n, used |-> FALSE, revoked |-> FALSE,
                 expired |-> FALSE, password |-> caller[c].read]
<1>1. token \in Seq(Token) /\ OneUnused(token) /\ token' \in Seq(Token) /\ OneUnused(token')
  BY TableIsChained
<1>2. /\ token' = Append(token, v) /\ Len(token) \in Nat /\ n \in ids
      /\ \A t \in 1..Len(token) : token[t].family # n
  BY <1>1 DEF SignIn, AccountsInv, FamiliesAreChains, TokenIds
<1>3. v.family = n /\ Fresh(v) /\ v.user = u /\ v.password = caller[c].read
  BY DEF Fresh
<1> HIDE DEF v
<1>4. Len(token') = n /\ token'[n] = v /\ \A t \in 1..Len(token) : token'[t] = token[t]
  BY <1>1, <1>2
<1>5. \A f : /\ f # n => Standing(token', f) = Standing(token, f)
             /\ f = n => Standing(token, f) = [state |-> "none"] /\ Standing(token', f) = OpenAt(n, v)
  <2> HIDE DEF n
  <2> SUFFICES ASSUME NEW f
               PROVE  /\ f # n => Standing(token', f) = Standing(token, f)
                      /\ f = n => /\ Standing(token, f) = [state |-> "none"]
                                  /\ Standing(token', f) = OpenAt(n, v)
    OBVIOUS
  <2>1. n = Len(token) + 1 /\ token'[n].family = n /\ Fresh(token'[n])
    BY <1>3, <1>4 DEF n
  <2>2. \A t \in 1..Len(token) : token'[t] = token[t] /\ token[t].family # n
    BY <1>2, <1>4
  <2> QED BY ONLY <1>1, <1>4, <2>1, <2>2, BegunStands
<1>6. \A f \in ids : FamilyRows[f] = Standing(token, f) /\ FamilyRows'[f] = Standing(token', f)
  BY FamilyStands DEF FamilyRows
<1>7. /\ PersonOf[u].active /\ PersonOf[u].password # 0 /\ PersonOf[u].password = caller[c].read
  BY DEF Valid, PersonOf, AccountsInv, VerifiedIsRegistered
<1>8. Families!Begun(u, {n}) = OpenAt(n, v)
  BY <1>3, <1>7 DEF Families!Begun, OpenAt
<1>9. FamilyRows' = [f \in ids |-> FamilyRows'[f]] /\ FamilyRows = [f \in ids |-> FamilyRows[f]]
  BY DEF FamilyRows
<1> HIDE DEF n
<1>10. FamilyRows' = [FamilyRows EXCEPT ![n] = Families!Begun(u, {n})]
  BY <1>2, <1>5, <1>6, <1>8, <1>9
<1>11. FamilyRows[n] = Families!NotBegun
  BY <1>2, <1>5, <1>6 DEF Families!NotBegun
<1>12. Families!Begin(n, u)
  BY <1>7, <1>10, <1>11, PeopleStay DEF Families!Begin
<1> QED BY <1>2, <1>12 DEF Families!Next

\* A refresh hands a family over to the new token.
LEMMA RotationHandsOver ==
    ASSUME AccountsInv, AccountsInv', SamePeople, NEW s \in TokenIds, ~token[s].used,
           Refreshes(s), Rotate(s)
    PROVE  Families!Next
<1> DEFINE ids == 1..MaxTokens
           n == Len(token) + 1
           g == token[s].family
           old == [token[s] EXCEPT !.used = TRUE, !.revoked = TRUE]
           v == [token[s] EXCEPT !.used = FALSE, !.revoked = FALSE, !.expired = FALSE]
           r == [token EXCEPT ![s] = old]
<1>1. token \in Seq(Token) /\ OneUnused(token) /\ token' \in Seq(Token) /\ OneUnused(token')
  BY TableIsChained
<1>2. /\ Len(token) \in Nat /\ s \in 1..Len(token) /\ n \in ids /\ s < n /\ token[s] \in Token
  BY <1>1 DEF TokenIds, Rotate
<1>3. /\ old \in Token /\ v \in Token /\ old.family = g /\ old.used /\ Fresh(v)
      /\ v.family = g /\ v.user = token[s].user /\ v.password = token[s].password
  BY <1>2 DEF Token, Fresh
<1>4. g \in ids /\ token[s].user \in Users
  BY <1>2 DEF Token
<1>5. token' = Append(r, v)
  BY DEF Rotate
<1> HIDE DEF v, old
<1>6. r \in Seq(Token) /\ Len(r) = Len(token) /\ \A t \in 1..Len(token) : r[t] = IF t = s THEN old ELSE token[t]
  BY <1>1, <1>2, <1>3
<1> HIDE DEF r
<1>7. /\ Len(token') = n /\ token'[n] = v
      /\ \A t \in 1..Len(token) : token'[t] = IF t = s THEN old ELSE token[t]
  <2>1. /\ Append(r, v) \in Seq(Token) /\ Len(Append(r, v)) = n /\ Append(r, v)[n] = v
        /\ \A t \in TokenIds : Append(r, v)[t] = r[t]
    BY <1>3, <1>6, AppendedToken DEF AccountsInv
  <2> QED BY <1>5, <1>6, <2>1 DEF TokenIds
<1>8. Fresh(token[s])
  BY DEF Refreshes, Fresh
<1>9. \A f : /\ f # g => Standing(token', f) = Standing(token, f)
             /\ f = g => /\ Standing(token, f) = OpenAt(s, token[s])
                         /\ Standing(token', f) = OpenAt(n, token[s])
  <2> HIDE DEF n
  <2> SUFFICES ASSUME NEW f
               PROVE  /\ f # g => Standing(token', f) = Standing(token, f)
                      /\ f = g => /\ Standing(token, f) = OpenAt(s, token[s])
                                  /\ Standing(token', f) = OpenAt(n, token[s])
    OBVIOUS
  <2>1. n = Len(token) + 1 /\ Len(token') = n
    BY <1>7 DEF n
  <2>2. /\ \A t \in 1..Len(token) : t # s => token'[t] = token[t]
        /\ token'[s].family = token[s].family /\ ~Fresh(token'[s])
    BY <1>2, <1>3, <1>7 DEF Fresh
  <2>3. /\ token'[n].family = token[s].family /\ token'[n].user = token[s].user
        /\ token'[n].password = token[s].password /\ Fresh(token'[n])
    BY <1>3, <1>7
  <2> QED BY ONLY <1>1, <1>2, <1>8, <2>1, <2>2, <2>3, HandedOverStands DEF g
<1>10. \A f \in ids : FamilyRows[f] = Standing(token, f) /\ FamilyRows'[f] = Standing(token', f)
  BY FamilyStands DEF FamilyRows
<1>11. FamilyRows' = [f \in ids |-> FamilyRows'[f]] /\ FamilyRows = [f \in ids |-> FamilyRows[f]]
  BY DEF FamilyRows
<1> HIDE DEF n, g
<1>12. FamilyRows[g] = OpenAt(s, token[s]) /\ FamilyRows'[g] = OpenAt(n, token[s])
  BY <1>4, <1>9, <1>10
<1>13. [OpenAt(s, token[s]) EXCEPT !.holder = {n}] = OpenAt(n, token[s])
  BY DEF OpenAt
<1>14. FamilyRows' = [FamilyRows EXCEPT ![g] = [FamilyRows[g] EXCEPT !.holder = {n}]]
  BY <1>4, <1>9, <1>10, <1>11, <1>12, <1>13
<1>15. /\ FamilyRows[g].state = "open" /\ FamilyRows[g].user = token[s].user
       /\ FamilyRows[g].holder = {s}
  BY <1>12 DEF OpenAt
<1>16. PersonOf[token[s].user].active
  BY <1>4 DEF Refreshes, PersonOf
<1>17. Families!HandOver(g, n)
  BY <1>2, <1>14, <1>15, <1>16, PeopleStay DEF Families!HandOver
<1> QED BY <1>2, <1>4, <1>17 DEF Families!Next

LEMMA FamiliesStep ==
    AccountsInv /\ AccountsInv' /\ [AccountsNext]_accountsVars => [Families!Next]_<<PersonOf, FamilyRows>>
<1> SUFFICES ASSUME AccountsInv, AccountsInv', [AccountsNext]_accountsVars PROVE Families!Next
  OBVIOUS
<1>1. ASSUME Issues, SamePeople PROVE Families!Next
  BY <1>1, SignInBegins, RotationHandsOver DEF Issues
<1> QED BY <1>1, StepKinds, FamiliesEnd, RevocationChanges, RegistrationChanges

LEMMA FamiliesInitially == AccountsInit => Families!Init
<1> SUFFICES ASSUME AccountsInit PROVE Families!Init
  OBVIOUS
<1>1. PersonOf = [u \in Users |-> [password |-> 0, active |-> TRUE]]
  BY DEF AccountsInit, PersonOf
<1>2. \A f : FamilyOf(f) = [state |-> "none"]
  BY DEF AccountsInit, FamilyOf, IssuedIn, TokenIds
<1>3. FamilyRows = [f \in 1..MaxTokens |-> [state |-> "none"]]
  BY <1>2 DEF FamilyRows
<1> QED BY <1>1, <1>3 DEF Families!Init, Families!NotBegun

\* The rows of refresh tokens are families of one usable token at a time, begun by a
\* sign-in of an active account and ended for good, all of a user's at one stroke when
\* the password or the status changes: Accounts implements TokenFamily
\* (auth/service.py, manage.py).
THEOREM FamiliesRefinement == AccountsSpec => ImplementsFamilies
BY FamiliesInitially, FamiliesStep, AccountsInvariance, PTL
   DEF AccountsSpec, ImplementsFamilies, Families!Spec

HIDE AccountsAssumption
USE MembershipAssumption, PermissionsAssumption

-----------------------------------------------------------------------------
(* Membership: types.                                                       *)

LEMMA RequestTypes ==
    /\ NoRequest \in RequestState /\ NoRequest.pc = "idle"
    /\ \A v \in RequestState : v.pc # "idle" =>
          /\ v.by \in Members /\ v.ws \in Workspaces /\ v.file \in Files
          /\ \A pc \in {"indexed", "emptied"} : [v EXCEPT !.pc = pc] \in RequestState
<1>1. NoRequest \in RequestState /\ NoRequest.pc = "idle"
  BY DEF NoRequest, RequestState
<1>2. ASSUME NEW v \in RequestState, v.pc # "idle"
      PROVE  /\ v.by \in Members /\ v.ws \in Workspaces /\ v.file \in Files
             /\ \A pc \in {"indexed", "emptied"} : [v EXCEPT !.pc = pc] \in RequestState
  BY <1>2 DEF NoRequest, RequestState
<1> QED BY <1>1, <1>2

\* A request is answered, or goes on to its next transaction.
LEMMA RequestSteps ==
    ASSUME MembershipTypeOK, NEW r \in Requests,
           \/ Answer(r)
           \/ /\ request[r].pc # "idle"
              /\ \E pc \in {"indexed", "emptied"} : request' = [request EXCEPT ![r].pc = pc]
    PROVE  request' \in [Requests -> RequestState]
<1>1. request \in [Requests -> RequestState] /\ request[r] \in RequestState
  BY DEF MembershipTypeOK
<1>2. CASE Answer(r)
  BY <1>1, <1>2, RequestTypes DEF Answer
<1>3. ASSUME request[r].pc # "idle", NEW pc \in {"indexed", "emptied"},
             request' = [request EXCEPT ![r].pc = pc]
      PROVE  request' \in [Requests -> RequestState]
  <2>1. [request[r] EXCEPT !.pc = pc] \in RequestState
    BY <1>1, <1>3, RequestTypes
  <2> QED BY <1>1, <1>3, <2>1
<1> QED BY <1>2, <1>3

LEMMA RoleTables ==
    ASSUME MembershipTypeOK
    PROVE  /\ NoRoles \in [Members -> Roles \union {"none"}]
           /\ \A u \in Members : [NoRoles EXCEPT ![u] = "OWNER"] \in [Members -> Roles \union {"none"}]
           /\ \A w \in Workspaces : role[w] \in [Members -> Roles \union {"none"}]
BY DEF NoRoles, Roles, MembershipTypeOK

-----------------------------------------------------------------------------
(* Membership: the inductive invariant: both properties, and documents one can count.   *)

DocumentsAreFinite == \A w \in Workspaces : IsFiniteSet(documents[w])

MembershipInv == MembershipTypeOK /\ MembershipSound /\ DocumentsAreFinite

\* One of two owners may go: another remains.
LEMMA AnotherOwner ==
    ASSUME NEW S, NEW u \in S, Cardinality(S) > 1
    PROVE  S \ {u} # {}
<1> SUFFICES ASSUME S \ {u} = {} PROVE FALSE
  OBVIOUS
<1>1. S = {u}
  OBVIOUS
<1> QED BY <1>1, FS_Singleton

\* Steps that change no role, no row of a workspace and no document.
LEMMA RestIsSound ==
    ASSUME MembershipInv, UNCHANGED <<workspace, role, documents>>
    PROVE  MembershipSound' /\ DocumentsAreFinite'
BY DEF MembershipInv, MembershipSound, OwnersRemain, Owners, DocumentsHaveWorkspaces, Exists,
       DocumentsAreFinite

\* Removing documents of a workspace that has its row.
LEMMA FewerDocuments ==
    ASSUME MembershipInv, UNCHANGED <<workspace, role>>,
           documents' \in [Workspaces -> SUBSET Files],
           \A w \in Workspaces : documents'[w] \subseteq documents[w]
    PROVE  MembershipSound' /\ DocumentsAreFinite'
<1>1. OwnersRemain'
  BY DEF MembershipInv, MembershipSound, OwnersRemain, Owners
<1>2. ASSUME NEW w \in Workspaces
      PROVE  /\ IsFiniteSet(documents'[w])
             /\ documents'[w] # {} => Exists(w)' /\ Cardinality(documents'[w]) <= MaxDocuments
  <2>1. IsFiniteSet(documents[w]) /\ documents'[w] \subseteq documents[w]
    BY DEF MembershipInv, DocumentsAreFinite
  <2>2. /\ IsFiniteSet(documents'[w])
        /\ Cardinality(documents'[w]) \in Nat /\ Cardinality(documents[w]) \in Nat
        /\ Cardinality(documents'[w]) <= Cardinality(documents[w])
    BY <2>1, FS_Subset, FS_CardinalityType
  <2>3. documents[w] # {} => Exists(w) /\ Cardinality(documents[w]) <= MaxDocuments
    BY DEF MembershipInv, MembershipSound, DocumentsHaveWorkspaces
  <2> QED BY <2>1, <2>2, <2>3 DEF Exists
<1> QED BY <1>1, <1>2 DEF MembershipSound, DocumentsHaveWorkspaces, DocumentsAreFinite

-----------------------------------------------------------------------------
(* Membership: every step.                                                   *)

\* A workspace that gets its first roles has its owner among them.
LEMMA FirstRoles ==
    ASSUME MembershipInv, NEW u \in Members, NEW S \in SUBSET Workspaces,
           \A w \in S : (workspace[w] # "deleted" /\ documents[w] = {}) \/ Exists(w),
           workspace' = [w \in Workspaces |-> IF w \in S THEN "open" ELSE workspace[w]],
           role' = [w \in Workspaces |-> IF w \in S THEN [NoRoles EXCEPT ![u] = "OWNER"]
                                         ELSE role[w]],
           UNCHANGED documents
    PROVE  /\ workspace' \in [Workspaces -> {"none", "legacy", "open", "deleted"}]
           /\ role' \in [Workspaces -> [Members -> Roles \union {"none"}]]
           /\ MembershipSound' /\ DocumentsAreFinite'
<1>1. MembershipTypeOK
  BY DEF MembershipInv
<1>2. /\ workspace' \in [Workspaces -> {"none", "legacy", "open", "deleted"}]
      /\ role' \in [Workspaces -> [Members -> Roles \union {"none"}]]
  BY <1>1, RoleTables DEF MembershipTypeOK
<1>3. ASSUME NEW w \in Workspaces, workspace'[w] = "open" PROVE Owners(w)' # {}
  <2>1. CASE w \in S
    <3>1. role'[w][u] = "OWNER"
      BY <2>1 DEF NoRoles
    <3> QED BY <3>1 DEF Owners
  <2>2. CASE w \notin S
    BY <1>3, <2>2 DEF MembershipInv, MembershipSound, OwnersRemain, Owners
  <2> QED BY <2>1, <2>2
<1>4. ASSUME NEW w \in Workspaces, documents[w] # {}
      PROVE  Exists(w)' /\ Cardinality(documents[w]) <= MaxDocuments
  BY <1>4 DEF MembershipInv, MembershipSound, DocumentsHaveWorkspaces, Exists
<1> QED BY <1>2, <1>3, <1>4 DEF MembershipSound, OwnersRemain, DocumentsHaveWorkspaces,
                                DocumentsAreFinite, MembershipInv

LEMMA ChangeKeepsOwners ==
    ASSUME MembershipInv, NEW by \in Members, NEW u \in Members, NEW w \in Workspaces,
           NEW to \in Roles \union {"none"}, ChangeMember(by, w, u, to)
    PROVE  role' \in [Workspaces -> [Members -> Roles \union {"none"}]] /\ OwnersRemain'
<1>1. MembershipTypeOK
  BY DEF MembershipInv
<1>2. /\ role' \in [Workspaces -> [Members -> Roles \union {"none"}]]
      /\ role'[w] = [role[w] EXCEPT ![u] = to] /\ UNCHANGED workspace
      /\ \A v \in Workspaces \ {w} : role'[v] = role[v]
  BY <1>1 DEF ChangeMember, MembershipTypeOK
<1>3. ASSUME workspace[w] = "open" PROVE Owners(w)' # {}
  <2>1. Owners(w) # {}
    BY <1>3 DEF MembershipInv, MembershipSound, OwnersRemain
  <2>2. \A v \in Members \ {u} : role'[w][v] = role[w][v]
    BY <1>1, <1>2, RoleTables
  <2>3. CASE to = "OWNER"
    BY <1>1, <1>2, <2>3, RoleTables DEF Owners
  <2>4. CASE to # "OWNER" /\ role[w][u] = "OWNER"
    <3>1. Cardinality(Owners(w)) > 1 /\ u \in Owners(w)
      BY <2>4 DEF ChangeMember, KeepsAnOwner, Owners
    <3>2. Owners(w) \ {u} # {}
      BY <3>1, AnotherOwner
    <3> QED BY <2>2, <3>2 DEF Owners
  <2>5. CASE to # "OWNER" /\ role[w][u] # "OWNER"
    BY <2>1, <2>2, <2>5 DEF Owners
  <2> QED BY <2>3, <2>4, <2>5
<1>4. ASSUME NEW v \in Workspaces \ {w}, workspace[v] = "open" PROVE Owners(v)' # {}
  BY <1>2, <1>4 DEF MembershipInv, MembershipSound, OwnersRemain, Owners
<1> QED BY <1>2, <1>3, <1>4 DEF OwnersRemain

\* The limit is read in the transaction that registers.
LEMMA RegisterKeepsDocuments ==
    ASSUME MembershipInv, NEW w \in Workspaces, NEW f \in Files, Registers(w, f),
           documents' = [documents EXCEPT ![w] = @ \union {f}],
           UNCHANGED <<workspace, role>>
    PROVE  /\ documents' \in [Workspaces -> SUBSET Files]
           /\ MembershipSound' /\ DocumentsAreFinite'
<1>1. documents \in [Workspaces -> SUBSET Files] /\ \A v \in Workspaces : IsFiniteSet(documents[v])
  BY DEF MembershipInv, MembershipTypeOK, DocumentsAreFinite
<1>2. /\ documents' \in [Workspaces -> SUBSET Files]
      /\ documents'[w] = documents[w] \union {f}
      /\ \A v \in Workspaces \ {w} : documents'[v] = documents[v]
  BY <1>1
<1>3. /\ IsFiniteSet(documents'[w])
      /\ Cardinality(documents'[w]) = Cardinality(documents[w]) + 1
      /\ Cardinality(documents[w]) \in Nat
  BY <1>1, <1>2, FS_AddElement, FS_CardinalityType DEF Registers
<1>4. Cardinality(documents[w]) < MaxDocuments /\ Exists(w)
  BY DEF Registers
<1>5. OwnersRemain'
  BY DEF MembershipInv, MembershipSound, OwnersRemain, Owners
<1>6. ASSUME NEW v \in Workspaces, documents'[v] # {}
      PROVE  Exists(v)' /\ Cardinality(documents'[v]) <= MaxDocuments
  <2>1. CASE v = w
    BY <2>1, <1>3, <1>4 DEF Exists
  <2>2. CASE v # w
    BY <2>2, <1>2, <1>6 DEF MembershipInv, MembershipSound, DocumentsHaveWorkspaces, Exists
  <2> QED BY <2>1, <2>2
<1>7. \A v \in Workspaces : IsFiniteSet(documents'[v])
  BY <1>1, <1>2, <1>3
<1> QED BY <1>2, <1>5, <1>6, <1>7 DEF MembershipSound, DocumentsHaveWorkspaces, DocumentsAreFinite

LEMMA DeletionIsSound ==
    ASSUME MembershipInv, NEW w \in Workspaces,
           workspace' = [workspace EXCEPT ![w] = "deleted"],
           role' = [role EXCEPT ![w] = NoRoles],
           documents' = [documents EXCEPT ![w] = {}]
    PROVE  /\ workspace' \in [Workspaces -> {"none", "legacy", "open", "deleted"}]
           /\ role' \in [Workspaces -> [Members -> Roles \union {"none"}]]
           /\ documents' \in [Workspaces -> SUBSET Files]
           /\ MembershipSound' /\ DocumentsAreFinite'
<1>1. MembershipTypeOK
  BY DEF MembershipInv
<1>2. /\ workspace' \in [Workspaces -> {"none", "legacy", "open", "deleted"}]
      /\ role' \in [Workspaces -> [Members -> Roles \union {"none"}]]
      /\ documents' \in [Workspaces -> SUBSET Files]
      /\ workspace'[w] = "deleted" /\ documents'[w] = {}
      /\ \A v \in Workspaces \ {w} : /\ workspace'[v] = workspace[v] /\ role'[v] = role[v]
                                     /\ documents'[v] = documents[v]
  BY <1>1, RoleTables DEF MembershipTypeOK
<1>3. OwnersRemain'
  BY <1>2 DEF MembershipInv, MembershipSound, OwnersRemain, Owners
<1>4. DocumentsHaveWorkspaces'
  BY <1>2 DEF MembershipInv, MembershipSound, DocumentsHaveWorkspaces, Exists
<1>5. DocumentsAreFinite'
  BY <1>2, FS_EmptySet DEF MembershipInv, DocumentsAreFinite
<1> QED BY <1>2, <1>3, <1>4, <1>5 DEF MembershipSound

LEMMA MembershipInductive ==
    MembershipInv /\ [MembershipNext]_membershipVars => MembershipInv'
<1> SUFFICES ASSUME MembershipInv, [MembershipNext]_membershipVars PROVE MembershipInv'
  OBVIOUS
<1> USE DEF MembershipInv
<1>1. /\ active \in SUBSET Members
      /\ workspace \in [Workspaces -> {"none", "legacy", "open", "deleted"}]
      /\ role \in [Workspaces -> [Members -> Roles \union {"none"}]]
      /\ documents \in [Workspaces -> SUBSET Files]
      /\ sessions \in [Workspaces -> SUBSET (Members \union {"nobody"})]
      /\ request \in [Requests -> RequestState]
  BY DEF MembershipTypeOK
<1>2. ASSUME NEW r \in Requests, request[r].pc # "idle"
      PROVE  request[r].by \in Members /\ request[r].ws \in Workspaces /\ request[r].file \in Files
  BY <1>1, <1>2, RequestTypes
<1>3. ASSUME NEW u \in Members, AssignLegacy(u) PROVE MembershipInv'
  <2> DEFINE S == {w \in Workspaces : workspace[w] = "legacy" /\ role[w] = NoRoles}
  <2>1. /\ workspace' = [w \in Workspaces |-> IF w \in S THEN "open" ELSE workspace[w]]
        /\ role' = [w \in Workspaces |-> IF w \in S THEN [NoRoles EXCEPT ![u] = "OWNER"]
                                         ELSE role[w]]
        /\ UNCHANGED <<active, documents, request>>
    BY <1>3 DEF AssignLegacy
  <2>2. S \in SUBSET Workspaces /\ \A w \in S : Exists(w)
    BY DEF Exists
  <2>3. sessions' \in [Workspaces -> SUBSET (Members \union {"nobody"})]
    <3>1. sessions' = [w \in Workspaces |->
                          IF w \in S /\ "nobody" \in sessions[w]
                          THEN (sessions[w] \ {"nobody"}) \union {u} ELSE sessions[w]]
      BY <1>3 DEF AssignLegacy
    <3> HIDE DEF S
    <3> QED BY <1>1, <3>1
  <2> HIDE DEF S
  <2>4. /\ workspace' \in [Workspaces -> {"none", "legacy", "open", "deleted"}]
        /\ role' \in [Workspaces -> [Members -> Roles \union {"none"}]]
        /\ MembershipSound' /\ DocumentsAreFinite'
    BY <2>1, <2>2, FirstRoles
  <2> QED BY <1>1, <2>1, <2>3, <2>4 DEF MembershipTypeOK
<1>4. ASSUME NEW u \in Members, SetActive(u) PROVE MembershipInv'
  BY <1>1, <1>4, RestIsSound DEF SetActive, MembershipTypeOK
<1>5. ASSUME NEW u \in Members, NEW w \in Workspaces, CreateWorkspace(u, w) PROVE MembershipInv'
  <2>1. /\ workspace' = [v \in Workspaces |-> IF v \in {w} THEN "open" ELSE workspace[v]]
        /\ role' = [v \in Workspaces |-> IF v \in {w} THEN [NoRoles EXCEPT ![u] = "OWNER"]
                                         ELSE role[v]]
        /\ UNCHANGED <<active, documents, sessions, request>> /\ workspace[w] = "none"
    BY <1>1, <1>5 DEF CreateWorkspace
  <2>2. documents[w] = {}
    BY <2>1 DEF MembershipSound, DocumentsHaveWorkspaces, Exists
  <2>3. /\ workspace' \in [Workspaces -> {"none", "legacy", "open", "deleted"}]
        /\ role' \in [Workspaces -> [Members -> Roles \union {"none"}]]
        /\ MembershipSound' /\ DocumentsAreFinite'
    BY <2>1, <2>2, FirstRoles
  <2> QED BY <1>1, <2>1, <2>3 DEF MembershipTypeOK
<1>6. ASSUME NEW by \in Members, NEW u \in Members, NEW w \in Workspaces,
             NEW to \in Roles \union {"none"}, ChangeMember(by, w, u, to)
      PROVE  MembershipInv'
  <2>1. UNCHANGED <<active, workspace, documents, sessions, request>>
    BY <1>6 DEF ChangeMember
  <2>2. role' \in [Workspaces -> [Members -> Roles \union {"none"}]] /\ OwnersRemain'
    BY <1>6, ChangeKeepsOwners
  <2>3. DocumentsHaveWorkspaces' /\ DocumentsAreFinite'
    BY <2>1 DEF MembershipSound, DocumentsHaveWorkspaces, Exists, DocumentsAreFinite
  <2> QED BY <1>1, <2>1, <2>2, <2>3 DEF MembershipTypeOK, MembershipSound
<1>7. ASSUME NEW r \in Requests, NEW kind \in {"session", "document", "remove", "delete"},
             NEW u \in Members, NEW w \in Workspaces, NEW f \in Files, Begin(r, kind, u, w, f)
      PROVE  MembershipInv'
  <2>1. [pc |-> kind, by |-> u, ws |-> w, file |-> f] \in RequestState
    BY DEF RequestState
  <2>2. request' \in [Requests -> RequestState]
    BY <1>1, <1>7, <2>1 DEF Begin
  <2> QED BY <1>1, <1>7, <2>2, RestIsSound DEF Begin, MembershipTypeOK
<1>8. ASSUME NEW r \in Requests, CreateSession(r) PROVE MembershipInv'
  <2>1. request' \in [Requests -> RequestState]
    BY <1>8, RequestSteps DEF CreateSession
  <2>2. request[r].by \in Members
    BY <1>2, <1>8 DEF CreateSession
  <2>3. sessions' \in [Workspaces -> SUBSET (Members \union {"nobody"})]
    BY <1>1, <1>8, <2>2 DEF CreateSession
  <2> QED BY <1>1, <1>8, <2>1, <2>3, RestIsSound DEF CreateSession, MembershipTypeOK
<1>9. ASSUME NEW r \in Requests, AuthorizeAgain(r) PROVE MembershipInv'
  <2>1. request' \in [Requests -> RequestState]
    BY <1>9, RequestSteps DEF AuthorizeAgain
  <2> QED BY <1>1, <1>9, <2>1, RestIsSound DEF AuthorizeAgain, MembershipTypeOK
<1>10. ASSUME NEW r \in Requests, RegisterDocument(r) PROVE MembershipInv'
  <2> DEFINE w == request[r].ws
             f == request[r].file
  <2>1. request' \in [Requests -> RequestState]
    BY <1>10, RequestSteps DEF RegisterDocument
  <2>2. w \in Workspaces /\ f \in Files /\ UNCHANGED <<active, workspace, role, sessions>>
    BY <1>2, <1>10 DEF RegisterDocument
  <2>3. CASE Registers(w, f)
    <3>1. documents' = [documents EXCEPT ![w] = @ \union {f}]
      BY <1>10, <2>3 DEF RegisterDocument
    <3> HIDE DEF w, f
    <3> QED BY <1>1, <2>1, <2>2, <2>3, <3>1, RegisterKeepsDocuments DEF MembershipTypeOK
  <2>4. CASE ~Registers(w, f)
    BY <1>1, <1>10, <2>1, <2>2, <2>4, RestIsSound DEF RegisterDocument, MembershipTypeOK
  <2> QED BY <2>3, <2>4
<1>11. ASSUME NEW r \in Requests, DeleteDocument(r) PROVE MembershipInv'
  <2>1. request' \in [Requests -> RequestState]
    BY <1>11, RequestSteps DEF DeleteDocument
  <2>2. request[r].ws \in Workspaces /\ UNCHANGED <<active, workspace, role, sessions>>
    BY <1>2, <1>11 DEF DeleteDocument
  <2>3. /\ documents' \in [Workspaces -> SUBSET Files]
        /\ \A w \in Workspaces : documents'[w] \subseteq documents[w]
    BY <1>1, <1>11, <2>2 DEF DeleteDocument
  <2> QED BY <1>1, <2>1, <2>2, <2>3, FewerDocuments DEF MembershipTypeOK
<1>12. ASSUME NEW r \in Requests, CheckEmpty(r) PROVE MembershipInv'
  <2>1. request' \in [Requests -> RequestState]
    BY <1>12, RequestSteps DEF CheckEmpty
  <2> QED BY <1>1, <1>12, <2>1, RestIsSound DEF CheckEmpty, MembershipTypeOK
<1>13. ASSUME NEW r \in Requests, DeleteWorkspace(r) PROVE MembershipInv'
  <2> DEFINE w == request[r].ws
  <2>1. request' \in [Requests -> RequestState]
    BY <1>13, RequestSteps DEF DeleteWorkspace
  <2>2. w \in Workspaces /\ UNCHANGED <<active, sessions>>
    BY <1>2, <1>13 DEF DeleteWorkspace
  <2>3. CASE UNCHANGED <<workspace, role, documents>>
    BY <1>1, <2>1, <2>2, <2>3, RestIsSound DEF MembershipTypeOK
  <2>4. CASE ~UNCHANGED <<workspace, role, documents>>
    <3>1. /\ workspace' = [workspace EXCEPT ![w] = "deleted"]
          /\ role' = [role EXCEPT ![w] = NoRoles]
          /\ documents' = [documents EXCEPT ![w] = {}]
      BY <1>13, <2>4 DEF DeleteWorkspace
    <3> HIDE DEF w
    <3> QED BY <1>1, <2>1, <2>2, <3>1, DeletionIsSound DEF MembershipTypeOK
  <2> QED BY <2>3, <2>4
<1>14. CASE UNCHANGED membershipVars
  BY <1>1, <1>14, RestIsSound DEF membershipVars, MembershipTypeOK
<1> QED
  BY <1>3, <1>4, <1>5, <1>6, <1>7, <1>8, <1>9, <1>10, <1>11, <1>12, <1>13, <1>14
     DEF MembershipNext

-----------------------------------------------------------------------------
(* Membership: theorems.                                                     *)

LEMMA MembershipInitially == MembershipInit => MembershipInv
<1> SUFFICES ASSUME MembershipInit PROVE MembershipInv
  OBVIOUS
<1>1. /\ workspace \in [Workspaces -> {"none", "legacy"}]
      /\ documents \in [Workspaces -> SUBSET Files]
      /\ \A w \in Workspaces : documents[w] = {}
  BY DEF MembershipInit
<1>2. role \in [Workspaces -> [Members -> Roles \union {"none"}]]
  BY DEF MembershipInit, NoRoles, Roles
<1>3. request \in [Requests -> RequestState]
  BY RequestTypes DEF MembershipInit
<1>4. sessions \in [Workspaces -> SUBSET (Members \union {"nobody"})]
  BY DEF MembershipInit
<1>5. MembershipTypeOK
  BY <1>1, <1>2, <1>3, <1>4 DEF MembershipTypeOK, MembershipInit
<1>6. MembershipSound /\ DocumentsAreFinite
  BY <1>1, FS_EmptySet DEF MembershipSound, OwnersRemain, DocumentsHaveWorkspaces,
                           DocumentsAreFinite
<1> QED BY <1>5, <1>6 DEF MembershipInv

\* Workspaces, roles, documents and requests keep to their types.
THEOREM MembershipTypeCorrect == MembershipSpec => []MembershipTypeOK
<1>1. MembershipInv => MembershipTypeOK
  BY DEF MembershipInv
<1> QED BY <1>1, MembershipInitially, MembershipInductive, PTL DEF MembershipSpec

\* Nobody is locked out of a workspace, and no document outlives one or is above
\* the limit, whatever was authorized before the rows changed.
THEOREM MembershipSoundHolds == MembershipSpec => []MembershipSound
<1>1. MembershipInv => MembershipSound
  BY DEF MembershipInv
<1> QED BY <1>1, MembershipInitially, MembershipInductive, PTL DEF MembershipSpec

-----------------------------------------------------------------------------
(* Permissions: the inductive invariant.                                    *)

\* Roles are held in workspaces that are there, and so tasks are in one.
RolesHaveWorkspaces ==
    \A w \in Workspaces : (\E u \in Members : role[w][u] # "none") => workspace[w] = "open"

\* Nothing is under way without a task; who asked to decide was entitled to.
WorkHasTask ==
    /\ IF task = NoTask
       THEN worker.pc = "idle" /\ office = NoOffice /\ execution.exec = "none"
       ELSE workspace[task.ws] = "open"
    /\ office.pc = "storing" => office.entitled

\* The execution, its request and its decision go together.
RequestIsWhole ==
    /\ execution.exec = "none" => execution.approval = "none"
    /\ execution.approval = "pending" => execution.exec = "waiting"
    /\ execution.approval \in {"approved", "rejected"} => held.approver
    /\ task # NoTask =>
          /\ execution.approval # "none" => ApprovalNeeded
          /\ execution.exec # "none" /\ ApprovalNeeded => execution.approval # "none"
    /\ execution.sent => execution.exec \in {"running", "succeeded", "failed"}

Requested == {"approval", "waiting", "recheck", "guarded", "claim", "calling", "finishing"}
Decided == {"recheck", "guarded", "claim", "calling", "finishing"}

\* What the delivery has established by each of its steps.
DeliveryIsRight ==
    /\ worker.pc \in Requested => execution.exec # "none"
    /\ worker.pc \in Decided \/ execution.sent => execution.approval # "pending"
    /\ worker.pc \in {"guarded", "claim", "calling"} \/ execution.sent => held.actor
    /\ (worker.pc = "calling" \/ execution.sent) /\ ApprovalNeeded => execution.approval = "approved"
    /\ worker.pc \in {"calling", "finishing"} => execution.exec = "running"
    /\ worker.pc = "settling" /\ worker.good => execution.exec \in {"succeeded", "rejected"}

\* The history is true of the roles as they are.
EntitledIsHeld == task # NoTask /\ ActorEntitled => held.actor

\* A write that may have run is with its delivery, or waits for the operator.
AmbiguousIsHeld ==
    task # NoTask /\ Ambiguous =>
        /\ worker.pc \in {"idle", "calling", "finishing", "settling"}
        /\ worker.pc = "idle" => task.status = "REQUIRES_RECONCILIATION"

PermissionsInv ==
    /\ MembershipInv /\ PermissionsTypeOK
    /\ RolesHaveWorkspaces /\ WorkHasTask /\ RequestIsWhole /\ DeliveryIsRight
    /\ EntitledIsHeld /\ AmbiguousIsHeld

LEMMA TaskTypes ==
    /\ NoTask \in TaskRows
    /\ \A t \in TaskRows : t # NoTask =>
          /\ t.creator \in Members /\ t.ws \in Workspaces /\ t.op \in Operations
          /\ \A status \in {"PENDING", "QUEUED", "RUNNING", "WAITING_USER", "FAILED", "COMPLETED",
                            "REQUIRES_RECONCILIATION"} :
                /\ [t EXCEPT !.status = status] \in TaskRows
                /\ [t EXCEPT !.status = status] # NoTask
                /\ [t EXCEPT !.status = status].status = status
                /\ [t EXCEPT !.status = status].creator = t.creator
                /\ [t EXCEPT !.status = status].ws = t.ws
                /\ [t EXCEPT !.status = status].op = t.op
<1> DEFINE Statuses == {"PENDING", "QUEUED", "RUNNING", "WAITING_USER", "FAILED", "COMPLETED",
                        "REQUIRES_RECONCILIATION"}
<1>1. ASSUME NEW t \in TaskRows, t # NoTask, NEW status \in Statuses
      PROVE  /\ t.creator \in Members /\ t.ws \in Workspaces /\ t.op \in Operations
             /\ [t EXCEPT !.status = status] \in TaskRows
             /\ [t EXCEPT !.status = status] # NoTask
             /\ [t EXCEPT !.status = status].status = status
             /\ [t EXCEPT !.status = status].creator = t.creator
             /\ [t EXCEPT !.status = status].ws = t.ws
             /\ [t EXCEPT !.status = status].op = t.op
  <2>1. t \in [status : Statuses, creator : Members, ws : Workspaces, op : Operations]
    BY <1>1 DEF TaskRows
  <2>2. /\ \A v \in [status : Statuses, creator : Members, ws : Workspaces, op : Operations] :
              v \in TaskRows
        /\ status # "none"
    BY DEF TaskRows
  <2> HIDE DEF Statuses
  <2>3. /\ t.creator \in Members /\ t.ws \in Workspaces /\ t.op \in Operations
        /\ [t EXCEPT !.status = status] \in
              [status : Statuses, creator : Members, ws : Workspaces, op : Operations]
        /\ [t EXCEPT !.status = status].status = status
        /\ [t EXCEPT !.status = status].creator = t.creator
        /\ [t EXCEPT !.status = status].ws = t.ws
        /\ [t EXCEPT !.status = status].op = t.op
    BY <2>1
  <2> QED BY <2>2, <2>3 DEF NoTask
<1>2. NoTask \in TaskRows
  BY DEF TaskRows
<1>3. Statuses = {"PENDING", "QUEUED", "RUNNING", "WAITING_USER", "FAILED", "COMPLETED",
                  "REQUIRES_RECONCILIATION"}
  OBVIOUS
<1> HIDE DEF Statuses
<1>4. ASSUME NEW t \in TaskRows, t # NoTask
      PROVE  t.creator \in Members /\ t.ws \in Workspaces /\ t.op \in Operations
  <2>1. "PENDING" \in Statuses
    BY <1>3
  <2> QED BY <1>1, <1>4, <2>1
<1>5. ASSUME NEW t \in TaskRows, t # NoTask, NEW status \in Statuses
      PROVE  /\ [t EXCEPT !.status = status] \in TaskRows
             /\ [t EXCEPT !.status = status] # NoTask
             /\ [t EXCEPT !.status = status].status = status
             /\ [t EXCEPT !.status = status].creator = t.creator
             /\ [t EXCEPT !.status = status].ws = t.ws
             /\ [t EXCEPT !.status = status].op = t.op
  BY <1>1, <1>5
<1> QED BY <1>2, <1>3, <1>4, <1>5, Zenon

\* What the matrix of roles grants.
LEMMA Policy ==
    ASSUME MembershipTypeOK, NEW u \in Members, NEW w \in Workspaces, NEW c, NEW action,
           Authorizes(u, action, w, c)
    PROVE  /\ u \in active /\ role[w][u] \in Roles
           /\ action = "external.write" => role[w][u] = "OWNER"
           /\ action = "analysis.execute" => role[w][u] \in {"OWNER", "EDITOR"}
<1>1. u \in active /\ role[w][u] \in Roles /\ action \in RoleMatrix[role[w][u]]
  BY DEF Authorizes, IsAllowed, RoleOf, Roles
<1>2. "external.write" \notin EditorActions /\ "analysis.execute" \notin ReadActions
      /\ "external.write" \notin ReadActions
  BY DEF EditorActions, ReadActions
<1>3. RoleMatrix["EDITOR"] = EditorActions /\ RoleMatrix["VIEWER"] = ReadActions
  BY DEF RoleMatrix
<1> QED BY <1>1, <1>2, <1>3 DEF Roles

LEMMA OwnersMay ==
    ASSUME NEW u \in active, NEW w \in Workspaces, NEW c, role[w][u] = "OWNER",
           NEW action \in {"task.read", "external.write", "workspace.members.manage"}
    PROVE  Authorizes(u, action, w, c)
<1>1. action \in OwnerActions /\ RoleMatrix["OWNER"] = OwnerActions
  BY DEF OwnerActions, EditorActions, ReadActions, RoleMatrix
<1>2. RoleOf(u, w) = "OWNER"
  BY DEF RoleOf
<1> QED BY <1>1, <1>2 DEF Authorizes, IsAllowed, Roles

\* Whoever passes authorize_tool is entitled to the call.
LEMMA ToolUsersAreEntitled ==
    ASSUME MembershipTypeOK, PermissionsTypeOK, task # NoTask, MayUseTool(Actor)
    PROVE  ActorEntitled
<1>1. Actor \in Members /\ task.ws \in Workspaces /\ task.op \in Operations
  BY TaskTypes DEF PermissionsTypeOK, Actor
<1>2. Authorizes(Actor, ToolAction(task.op), task.ws, Actor)
  BY DEF MayUseTool, TaskGuard
<1> QED BY <1>1, <1>2, Policy DEF ActorEntitled, Entitled, ToolAction, Operations

\* Whoever may decide is an owner, as may decide every owner.
LEMMA DecidersAreOwners ==
    ASSUME MembershipTypeOK, PermissionsTypeOK, task # NoTask, NEW u \in Members
    PROVE  /\ MayDecide(u) <=> u \in active /\ role[task.ws][u] = "OWNER"
           /\ MayDecide(u) => SeesApproval(u) /\ Entitled(u, "write", role[task.ws], active)
<1>1. Actor \in Members /\ task.ws \in Workspaces /\ task.op \in Operations
  BY TaskTypes DEF PermissionsTypeOK, Actor
<1>2. MayDecide(u) => u \in active /\ role[task.ws][u] = "OWNER"
  BY <1>1, Policy DEF MayDecide, TaskGuard
<1>3. u \in active /\ role[task.ws][u] = "OWNER" => MayDecide(u) /\ SeesApproval(u)
  BY <1>1, OwnersMay DEF MayDecide, SeesApproval, TaskGuard
<1> QED BY <1>2, <1>3 DEF Entitled

LEMMA WorkTypes ==
    /\ NoOffice \in OfficeState /\ NoOffice.pc = "idle"
    /\ \A o \in OfficeState : o # NoOffice => o.by \in Members /\ o.entitled \in BOOLEAN
    /\ \A o \in OfficeState : o.pc \in {"idle", "storing", "resuming", "enqueueing"}
    /\ \A o \in OfficeState : o.pc = "idle" => o = NoOffice
BY DEF NoOffice, OfficeState

\* The membership rests while the task goes on.
LEMMA MembershipRests ==
    ASSUME PermissionsInv, UNCHANGED membershipVars
    PROVE  MembershipInv' /\ RolesHaveWorkspaces'
<1>1. MembershipInv'
  BY MembershipInductive DEF PermissionsInv
<1> QED BY <1>1 DEF PermissionsInv, RolesHaveWorkspaces, membershipVars

\* A step of the delivery that leaves the task and the request to decide alone.
LEMMA DeliveryStep ==
    ASSUME PermissionsInv, UNCHANGED <<membershipVars, task, office, held>>,
           PermissionsTypeOK', worker.pc # "idle",
           RequestIsWhole', DeliveryIsRight', worker'.pc # "idle",
           task.op = "write" /\ execution'.exec \in {"running", "failed"}
              => worker'.pc \in {"calling", "finishing", "settling"}
    PROVE  PermissionsInv'
<1>1. MembershipInv' /\ RolesHaveWorkspaces'
  BY MembershipRests
<1>2. task # NoTask /\ UNCHANGED <<active, workspace, role>>
  BY DEF PermissionsInv, WorkHasTask, membershipVars
<1>3. WorkHasTask' /\ EntitledIsHeld'
  BY <1>2 DEF PermissionsInv, WorkHasTask, EntitledIsHeld, ActorEntitled, Actor
<1>4. AmbiguousIsHeld'
  BY <1>2 DEF AmbiguousIsHeld, Ambiguous
<1> QED BY <1>1, <1>3, <1>4 DEF PermissionsInv

LEMMA GuardedTypes ==
    ASSUME worker \in WorkerState, NEW granted, NEW pc, Guarded(granted, pc),
           pc \in {"idle", "asking", "approval", "waiting", "recheck", "guarded", "claim",
                   "calling", "finishing", "settling"}
    PROVE  /\ worker' \in WorkerState
           /\ worker'.pc \in {pc, "settling"}
           /\ granted => worker'.pc = pc /\ worker'.good = worker.good
           /\ ~granted => worker'.pc = "settling" /\ ~worker'.good
<1>1. CASE granted
  <2>1. worker' = [worker EXCEPT !.pc = pc]
    BY <1>1 DEF Guarded, Proceed
  <2> QED BY <1>1, <2>1 DEF WorkerState
<1>2. CASE ~granted
  <2>1. worker' = [pc |-> "settling", good |-> FALSE]
    BY <1>2 DEF Guarded
  <2> QED BY <1>2, <2>1 DEF WorkerState
<1> QED BY <1>1, <1>2

LEMMA AskToolIsRight == ASSUME PermissionsInv, UNCHANGED membershipVars, AskTool PROVE PermissionsInv'
<1>1. /\ worker.pc = "asking" /\ worker \in WorkerState /\ execution \in ExecutionState
      /\ UNCHANGED <<task, office, held>> /\ task # NoTask
      /\ execution.exec = "none" => ~execution.sent
  BY DEF AskTool, PermissionsInv, PermissionsTypeOK, WorkHasTask, RequestIsWhole
<1>2. /\ Guarded(MayUseTool(Actor), IF ApprovalNeeded THEN "approval" ELSE "recheck")
      /\ execution' = IF (~MayUseTool(Actor)) \/ execution.exec # "none" THEN execution
                      ELSE [execution EXCEPT !.exec = IF ApprovalNeeded THEN "waiting" ELSE "requested",
                                             !.approval = IF ApprovalNeeded THEN "pending" ELSE "none"]
  BY DEF AskTool
<1>3. /\ worker' \in WorkerState
      /\ MayUseTool(Actor) => worker'.pc = IF ApprovalNeeded THEN "approval" ELSE "recheck"
      /\ ~MayUseTool(Actor) => worker'.pc = "settling" /\ ~worker'.good
  BY <1>1, <1>2, GuardedTypes
<1>4. /\ execution' \in ExecutionState /\ execution'.sent = execution.sent
      /\ \/ execution' = execution /\ (MayUseTool(Actor) => execution.exec # "none")
         \/ /\ execution.exec = "none" /\ MayUseTool(Actor)
            /\ execution'.exec = IF ApprovalNeeded THEN "waiting" ELSE "requested"
            /\ execution'.approval = IF ApprovalNeeded THEN "pending" ELSE "none"
  BY <1>1, <1>2 DEF ExecutionState
<1>5. ApprovalNeeded' = ApprovalNeeded
  BY <1>1 DEF ApprovalNeeded
<1>6. PermissionsTypeOK'
  BY <1>1, <1>3, <1>4 DEF PermissionsInv, PermissionsTypeOK
<1>7. RequestIsWhole'
  BY <1>1, <1>4, <1>5 DEF PermissionsInv, RequestIsWhole
<1>8. DeliveryIsRight'
  BY <1>1, <1>3, <1>4, <1>5 DEF PermissionsInv, RequestIsWhole, DeliveryIsRight, Requested, Decided
<1>9. task.op = "write" => execution'.exec \notin {"running", "failed"}
  BY <1>1, <1>4 DEF PermissionsInv, AmbiguousIsHeld, Ambiguous
<1> QED BY <1>1, <1>3, <1>6, <1>7, <1>8, <1>9, DeliveryStep

LEMMA ReadApprovalIsRight ==
    ASSUME PermissionsInv, UNCHANGED membershipVars, ReadApproval PROVE PermissionsInv'
<1>1. /\ worker.pc = "approval" /\ worker \in WorkerState
      /\ UNCHANGED <<task, execution, office, held>> /\ task # NoTask
  BY DEF ReadApproval, PermissionsInv, PermissionsTypeOK, WorkHasTask
<1>2. /\ worker' \in WorkerState /\ worker'.pc \in {"waiting", "recheck", "settling"}
      /\ worker'.pc = "recheck" => execution.approval # "pending"
      /\ worker'.pc = "settling" => ~worker'.good
  <2>1. Guarded(SeesApproval(Actor), IF execution.approval = "pending" THEN "waiting" ELSE "recheck")
    BY DEF ReadApproval
  <2> QED BY <1>1, <2>1, GuardedTypes
<1>3. PermissionsTypeOK'
  BY <1>1, <1>2 DEF PermissionsInv, PermissionsTypeOK
<1>4. RequestIsWhole' /\ DeliveryIsRight'
  BY <1>1, <1>2 DEF PermissionsInv, RequestIsWhole, DeliveryIsRight, Requested, Decided,
                    ApprovalNeeded
<1>5. task.op = "write" => execution.exec \notin {"running", "failed"}
  BY <1>1 DEF PermissionsInv, AmbiguousIsHeld, Ambiguous
<1> QED BY <1>1, <1>2, <1>3, <1>4, <1>5, DeliveryStep

LEMMA RecheckIsRight == ASSUME PermissionsInv, UNCHANGED membershipVars, Recheck PROVE PermissionsInv'
<1>1. /\ worker.pc = "recheck" /\ worker \in WorkerState
      /\ UNCHANGED <<task, execution, office, held>> /\ task # NoTask
  BY DEF Recheck, PermissionsInv, PermissionsTypeOK, WorkHasTask
<1>2. /\ worker' \in WorkerState /\ worker'.pc \in {"guarded", "settling"}
      /\ worker'.pc = "guarded" => MayUseTool(Actor)
      /\ worker'.pc = "settling" => ~worker'.good
  <2>1. Guarded(MayUseTool(Actor), "guarded")
    BY DEF Recheck
  <2> QED BY <1>1, <2>1, GuardedTypes
<1>3. PermissionsTypeOK'
  BY <1>1, <1>2 DEF PermissionsInv, PermissionsTypeOK
<1>4. worker'.pc = "guarded" => held.actor
  BY <1>1, <1>2, ToolUsersAreEntitled DEF PermissionsInv, MembershipInv, EntitledIsHeld
<1>5. RequestIsWhole' /\ DeliveryIsRight'
  BY <1>1, <1>2, <1>4 DEF PermissionsInv, RequestIsWhole, DeliveryIsRight, Requested, Decided,
                          ApprovalNeeded
<1>6. task.op = "write" => execution.exec \notin {"running", "failed"}
  BY <1>1 DEF PermissionsInv, AmbiguousIsHeld, Ambiguous
<1> QED BY <1>1, <1>2, <1>3, <1>5, <1>6, DeliveryStep

LEMMA GuardClaimIsRight ==
    ASSUME PermissionsInv, UNCHANGED membershipVars, GuardClaim PROVE PermissionsInv'
<1>1. /\ worker.pc = "guarded" /\ worker \in WorkerState
      /\ UNCHANGED <<task, execution, office, held>> /\ task # NoTask
  BY DEF GuardClaim, PermissionsInv, PermissionsTypeOK, WorkHasTask
<1>2. /\ worker' \in WorkerState /\ worker'.pc \in {"claim", "settling"}
      /\ worker'.pc = "settling" => ~worker'.good
  <2>1. Guarded(TaskGuard(Actor, "task.execute"), "claim")
    BY DEF GuardClaim
  <2> QED BY <1>1, <2>1, GuardedTypes
<1>3. PermissionsTypeOK'
  BY <1>1, <1>2 DEF PermissionsInv, PermissionsTypeOK
<1>5. RequestIsWhole' /\ DeliveryIsRight'
  BY <1>1, <1>2 DEF PermissionsInv, RequestIsWhole, DeliveryIsRight, Requested, Decided,
                          ApprovalNeeded
<1>6. task.op = "write" => execution.exec \notin {"running", "failed"}
  BY <1>1 DEF PermissionsInv, AmbiguousIsHeld, Ambiguous
<1> QED BY <1>1, <1>2, <1>3, <1>5, <1>6, DeliveryStep

\* The claim finds the decision it needs: it is neither pending nor a refusal.
LEMMA ClaimIsRight == ASSUME PermissionsInv, UNCHANGED membershipVars, Claim PROVE PermissionsInv'
<1>1. /\ worker.pc = "claim" /\ worker \in WorkerState /\ execution \in ExecutionState
      /\ UNCHANGED <<task, office, held>> /\ task # NoTask /\ ApprovalNeeded' = ApprovalNeeded
  BY DEF Claim, PermissionsInv, PermissionsTypeOK, WorkHasTask, ApprovalNeeded
<1>2. /\ execution.exec # "none" /\ execution.approval # "pending" /\ held.actor
      /\ ApprovalNeeded => execution.approval # "none"
      /\ task.op = "write" => execution.exec \notin {"running", "failed"}
  BY <1>1 DEF PermissionsInv, RequestIsWhole, DeliveryIsRight, Requested, Decided,
              AmbiguousIsHeld, Ambiguous
<1>3. CASE execution.exec \in {"requested", "waiting"} /\ execution.approval # "rejected"
  <2>1. /\ execution' = [execution EXCEPT !.exec = "running"]
        /\ worker' = [worker EXCEPT !.pc = "calling"]
    BY <1>3 DEF Claim, Proceed
  <2>2. /\ execution' \in ExecutionState /\ worker' \in WorkerState /\ worker'.pc = "calling"
        /\ execution'.exec = "running" /\ execution'.approval = execution.approval
        /\ execution'.sent = execution.sent
    BY <1>1, <2>1 DEF ExecutionState, WorkerState
  <2>3. PermissionsTypeOK'
    BY <1>1, <2>2 DEF PermissionsInv, PermissionsTypeOK
  <2>4. execution.approval = "approved" \/ (execution.approval = "none" /\ ~ApprovalNeeded)
    BY <1>1, <1>2, <1>3 DEF ExecutionState
  <2>5. RequestIsWhole' /\ DeliveryIsRight'
    BY <1>1, <1>2, <2>2, <2>4 DEF PermissionsInv, RequestIsWhole, DeliveryIsRight, Requested, Decided
  <2> QED BY <1>1, <2>2, <2>3, <2>5, DeliveryStep
<1>4. CASE ~(execution.exec \in {"requested", "waiting"} /\ execution.approval # "rejected")
  <2> DEFINE exec == IF execution.exec = "waiting" THEN "rejected" ELSE execution.exec
  <2>1. /\ execution' = [execution EXCEPT !.exec = exec]
        /\ worker' = [pc |-> "settling", good |-> execution'.exec \in {"succeeded", "rejected"}]
    BY <1>4 DEF Claim
  <2>2. /\ execution' \in ExecutionState /\ execution'.exec = exec
        /\ execution'.approval = execution.approval /\ execution'.sent = execution.sent
    BY <1>1, <2>1 DEF ExecutionState
  <2>3. /\ worker' \in WorkerState /\ worker'.pc = "settling"
        /\ worker'.good => exec \in {"succeeded", "rejected"}
    <3> DEFINE good == execution'.exec \in {"succeeded", "rejected"}
    <3>1. worker' = [pc |-> "settling", good |-> good] /\ good \in BOOLEAN
      BY <2>1
    <3>2. good => exec \in {"succeeded", "rejected"}
      BY <2>2
    <3> HIDE DEF good
    <3> QED BY <3>1, <3>2 DEF WorkerState
  <2>4. PermissionsTypeOK'
    BY <1>1, <2>2, <2>3 DEF PermissionsInv, PermissionsTypeOK
  <2>5. RequestIsWhole' /\ DeliveryIsRight'
    BY <1>1, <1>2, <2>2, <2>3 DEF PermissionsInv, RequestIsWhole, DeliveryIsRight, Requested, Decided
  <2> QED BY <1>1, <2>2, <2>3, <2>4, <2>5, DeliveryStep
<1> QED BY <1>3, <1>4

LEMMA SendCallIsRight ==
    ASSUME PermissionsInv, UNCHANGED membershipVars, SendCall PROVE PermissionsInv'
<1>1. /\ worker.pc = "calling" /\ worker \in WorkerState /\ execution \in ExecutionState
      /\ UNCHANGED <<task, office, held>> /\ task # NoTask /\ ApprovalNeeded' = ApprovalNeeded
  BY DEF SendCall, PermissionsInv, PermissionsTypeOK, WorkHasTask, ApprovalNeeded
<1>2. PICK admitted \in BOOLEAN :
         /\ execution' = [execution EXCEPT !.sent = execution.sent \/ admitted]
         /\ \E good \in {FALSE, admitted} : worker' = [pc |-> "finishing", good |-> good]
  <2> DEFINE admitted == ApprovalNeeded => SeesApproval(Actor)
  <2>1. /\ execution' = [execution EXCEPT !.sent = execution.sent \/ admitted]
        /\ \E good \in {FALSE, admitted} : worker' = [pc |-> "finishing", good |-> good]
        /\ admitted \in BOOLEAN
    BY DEF SendCall
  <2> HIDE DEF admitted
  <2> QED BY <2>1
<1>3. /\ execution' \in ExecutionState /\ execution'.exec = execution.exec
      /\ execution'.approval = execution.approval
  BY <1>1, <1>2 DEF ExecutionState
<1>4. worker' \in WorkerState /\ worker'.pc = "finishing"
  <2>1. PICK good \in BOOLEAN : worker' = [pc |-> "finishing", good |-> good]
    BY <1>2
  <2> QED BY <2>1 DEF WorkerState
<1>5. PermissionsTypeOK'
  BY <1>1, <1>3, <1>4 DEF PermissionsInv, PermissionsTypeOK
<1>6. RequestIsWhole' /\ DeliveryIsRight'
  BY <1>1, <1>3, <1>4 DEF PermissionsInv, RequestIsWhole, DeliveryIsRight, Requested, Decided
<1> QED BY <1>1, <1>3, <1>4, <1>5, <1>6, DeliveryStep

LEMMA FinishCallIsRight ==
    ASSUME PermissionsInv, UNCHANGED membershipVars, FinishCall PROVE PermissionsInv'
<1>1. /\ worker.pc = "finishing" /\ worker \in WorkerState /\ execution \in ExecutionState
      /\ UNCHANGED <<task, office, held>> /\ task # NoTask /\ ApprovalNeeded' = ApprovalNeeded
  BY DEF FinishCall, PermissionsInv, PermissionsTypeOK, WorkHasTask, ApprovalNeeded
<1>2. /\ worker' \in WorkerState /\ worker'.pc = "settling"
      /\ execution' \in ExecutionState /\ execution'.approval = execution.approval
      /\ execution'.sent = execution.sent
      /\ execution'.exec \in {"running", "succeeded", "failed"}
      /\ worker'.good => execution'.exec = "succeeded"
  <2>1. /\ Guarded(TaskGuard(Actor, "task.execute"), "settling")
        /\ execution' = IF TaskGuard(Actor, "task.execute")
                   THEN [execution EXCEPT !.exec = IF worker.good THEN "succeeded" ELSE "failed"]
                   ELSE execution
    BY DEF FinishCall
  <2>2. execution.exec = "running"
    BY <1>1 DEF PermissionsInv, DeliveryIsRight
  <2>3. CASE TaskGuard(Actor, "task.execute")
    <3>1. worker' \in WorkerState /\ worker'.pc = "settling" /\ worker'.good = worker.good
      BY <1>1, <2>1, <2>3, GuardedTypes
    <3>2. execution' = [execution EXCEPT !.exec = IF worker.good THEN "succeeded" ELSE "failed"]
      BY <2>1, <2>3
    <3> QED BY <1>1, <3>1, <3>2 DEF ExecutionState
  <2>4. CASE ~TaskGuard(Actor, "task.execute")
    <3>1. worker' \in WorkerState /\ worker'.pc = "settling" /\ ~worker'.good
      BY <1>1, <2>1, <2>4, GuardedTypes
    <3> QED BY <1>1, <2>1, <2>2, <2>4, <3>1
  <2> QED BY <2>3, <2>4
<1>3. PermissionsTypeOK'
  BY <1>1, <1>2 DEF PermissionsInv, PermissionsTypeOK
<1>4. execution.exec = "running"
  BY <1>1 DEF PermissionsInv, DeliveryIsRight
<1>5. RequestIsWhole' /\ DeliveryIsRight'
  BY <1>1, <1>2, <1>4 DEF PermissionsInv, RequestIsWhole, DeliveryIsRight, Requested, Decided
<1> QED BY <1>1, <1>2, <1>3, <1>5, DeliveryStep

\* Another status for the task, which is the same otherwise.
LEMMA StatusIsSet ==
    ASSUME PermissionsInv, UNCHANGED membershipVars, task # NoTask,
           NEW status \in {"PENDING", "QUEUED", "RUNNING", "WAITING_USER", "FAILED", "COMPLETED",
                           "REQUIRES_RECONCILIATION"},
           task' = [task EXCEPT !.status = status]
    PROVE  /\ task' \in TaskRows /\ task' # NoTask /\ task'.status = status
           /\ task'.op = task.op /\ workspace'[task'.ws] = "open"
           /\ ActorEntitled' = ActorEntitled /\ ApprovalNeeded' = ApprovalNeeded
<1>1. /\ task' \in TaskRows /\ task' # NoTask /\ task'.status = status /\ task'.op = task.op
      /\ task'.ws = task.ws /\ task'.creator = task.creator
  <2>1. task \in TaskRows
    BY DEF PermissionsInv, PermissionsTypeOK
  <2>2. task' = [task EXCEPT !.status = status]
    OBVIOUS
  <2> DEFINE set == [task EXCEPT !.status = status]
  <2>3. /\ set \in TaskRows /\ set # NoTask /\ set.status = status
        /\ set.op = task.op /\ set.ws = task.ws /\ set.creator = task.creator
    BY ZenonT(60), <2>1, TaskTypes
  <2>4. task' = set
    BY <2>2
  <2> HIDE DEF set
  <2> QED BY <2>3, <2>4
<1>2. UNCHANGED <<active, workspace, role>>
  BY DEF membershipVars
<1>3. workspace[task.ws] = "open"
  BY DEF PermissionsInv, WorkHasTask
<1>4. ActorEntitled' = ActorEntitled
  BY <1>1, <1>2 DEF ActorEntitled, Entitled, Actor
<1>5. ApprovalNeeded' = ApprovalNeeded
  BY <1>1, <1>2 DEF ApprovalNeeded
<1> QED BY <1>1, <1>2, <1>3, <1>4, <1>5

LEMMA DeliverIsRight == ASSUME PermissionsInv, UNCHANGED membershipVars, Deliver PROVE PermissionsInv'
<1>1. /\ worker.pc = "idle" /\ worker \in WorkerState /\ UNCHANGED <<execution, office, held>>
      /\ task.status = "QUEUED" /\ task # NoTask
  BY DEF Deliver, PermissionsInv, PermissionsTypeOK, NoTask
<1>2. PICK status \in {"REQUIRES_RECONCILIATION", "FAILED", "RUNNING"} :
         /\ task' = [task EXCEPT !.status = status]
         /\ IF status = "RUNNING" THEN Proceed("asking") ELSE UNCHANGED worker
         /\ Ambiguous => status = "REQUIRES_RECONCILIATION"
  <2> DEFINE status == IF Ambiguous THEN "REQUIRES_RECONCILIATION"
                       ELSE IF ~TaskGuard(Actor, "task.execute") THEN "FAILED" ELSE "RUNNING"
  <2>1. /\ task' = [task EXCEPT !.status = status]
        /\ IF status = "RUNNING" THEN Proceed("asking") ELSE UNCHANGED worker
    BY DEF Deliver
  <2>2. /\ status \in {"REQUIRES_RECONCILIATION", "FAILED", "RUNNING"}
        /\ Ambiguous => status = "REQUIRES_RECONCILIATION"
    OBVIOUS
  <2> HIDE DEF status
  <2> QED BY <2>1, <2>2
<1>3. /\ task' \in TaskRows /\ task' # NoTask /\ task'.status = status
      /\ task'.op = task.op /\ workspace'[task'.ws] = "open"
      /\ ActorEntitled' = ActorEntitled /\ ApprovalNeeded' = ApprovalNeeded
  BY <1>1, <1>2, StatusIsSet
<1>4. worker' \in WorkerState /\ worker'.pc \in {"idle", "asking"}
      /\ (worker'.pc = "asking" => status = "RUNNING")
  BY <1>1, <1>2 DEF Proceed, WorkerState
<1>5. PermissionsTypeOK' /\ WorkHasTask'
  BY <1>1, <1>3, <1>4 DEF PermissionsInv, PermissionsTypeOK, WorkHasTask
<1>6. RequestIsWhole' /\ DeliveryIsRight'
  BY <1>1, <1>3, <1>4 DEF PermissionsInv, RequestIsWhole, DeliveryIsRight, Requested, Decided
<1>7. EntitledIsHeld' /\ AmbiguousIsHeld'
  BY <1>1, <1>2, <1>3, <1>4 DEF PermissionsInv, EntitledIsHeld, AmbiguousIsHeld, Ambiguous
<1> QED BY <1>5, <1>6, <1>7, MembershipRests DEF PermissionsInv

LEMMA WaitForApprovalIsRight ==
    ASSUME PermissionsInv, UNCHANGED membershipVars, WaitForApproval PROVE PermissionsInv'
<1>1. /\ worker.pc = "waiting" /\ worker \in WorkerState /\ UNCHANGED <<execution, office, held>>
      /\ task # NoTask
  BY DEF WaitForApproval, PermissionsInv, PermissionsTypeOK, WorkHasTask
<1>2. \/ worker' = [worker EXCEPT !.pc = "idle"] /\ task' = [task EXCEPT !.status = "WAITING_USER"]
      \/ worker' = [pc |-> "settling", good |-> FALSE] /\ task' = task
  BY DEF WaitForApproval, Guarded, Proceed
<1>3. /\ task' \in TaskRows /\ task' # NoTask
      /\ task'.op = task.op /\ workspace'[task'.ws] = "open"
      /\ ActorEntitled' = ActorEntitled /\ ApprovalNeeded' = ApprovalNeeded
  <2>1. CASE task' = task
    BY <1>1, <2>1 DEF PermissionsInv, PermissionsTypeOK, WorkHasTask, membershipVars, ActorEntitled,
                      Actor, ApprovalNeeded
  <2>2. CASE task' = [task EXCEPT !.status = "WAITING_USER"]
    BY <1>1, <2>2, StatusIsSet
  <2> QED BY <1>2, <2>1, <2>2
<1>4. worker' \in WorkerState /\ (worker'.pc = "idle" \/ (worker'.pc = "settling" /\ ~worker'.good))
  <2>1. CASE worker' = [worker EXCEPT !.pc = "idle"]
    BY <1>1, <2>1 DEF WorkerState
  <2>2. CASE worker' = [pc |-> "settling", good |-> FALSE]
    BY <2>2 DEF WorkerState
  <2> QED BY <1>2, <2>1, <2>2
<1>5. PermissionsTypeOK' /\ WorkHasTask'
  BY <1>1, <1>3, <1>4 DEF PermissionsInv, PermissionsTypeOK, WorkHasTask
<1>6. RequestIsWhole' /\ DeliveryIsRight'
  BY <1>1, <1>3, <1>4 DEF PermissionsInv, RequestIsWhole, DeliveryIsRight, Requested, Decided
<1>7. EntitledIsHeld' /\ AmbiguousIsHeld'
  BY <1>1, <1>3, <1>4 DEF PermissionsInv, EntitledIsHeld, AmbiguousIsHeld, Ambiguous
<1> QED BY <1>5, <1>6, <1>7, MembershipRests DEF PermissionsInv

\* The end of a delivery is good only when the call is settled.
LEMMA SettleTaskIsRight ==
    ASSUME PermissionsInv, UNCHANGED membershipVars, SettleTask PROVE PermissionsInv'
<1>1. /\ worker.pc = "settling" /\ worker' = [pc |-> "idle", good |-> FALSE]
      /\ UNCHANGED <<execution, office, held>> /\ task # NoTask
  BY DEF SettleTask, PermissionsInv, WorkHasTask
<1>2. PICK status \in {"COMPLETED", "REQUIRES_RECONCILIATION", "FAILED"} :
         /\ task' = [task EXCEPT !.status = status]
         /\ status = "COMPLETED" => worker.good
         /\ Ambiguous /\ ~worker.good => status = "REQUIRES_RECONCILIATION"
  <2> DEFINE status == IF worker.good /\ TaskGuard(Actor, "task.execute") THEN "COMPLETED"
                       ELSE IF Ambiguous THEN "REQUIRES_RECONCILIATION" ELSE "FAILED"
  <2>1. task' = [task EXCEPT !.status = status]
    BY DEF SettleTask
  <2>2. /\ status \in {"COMPLETED", "REQUIRES_RECONCILIATION", "FAILED"}
        /\ status = "COMPLETED" => worker.good
        /\ Ambiguous /\ ~worker.good => status = "REQUIRES_RECONCILIATION"
    OBVIOUS
  <2> HIDE DEF status
  <2> QED BY <2>1, <2>2
<1>3. Ambiguous => ~worker.good
  BY <1>1 DEF PermissionsInv, DeliveryIsRight, Ambiguous
<1>4. /\ task' \in TaskRows /\ task' # NoTask /\ task'.status = status
      /\ task'.op = task.op /\ workspace'[task'.ws] = "open"
      /\ ActorEntitled' = ActorEntitled /\ ApprovalNeeded' = ApprovalNeeded
  BY <1>1, <1>2, StatusIsSet
<1>5. worker' \in WorkerState /\ worker'.pc = "idle"
  BY <1>1 DEF WorkerState
<1>6. PermissionsTypeOK' /\ WorkHasTask'
  BY <1>1, <1>4, <1>5 DEF PermissionsInv, PermissionsTypeOK, WorkHasTask
<1>7. RequestIsWhole' /\ DeliveryIsRight'
  BY <1>1, <1>4, <1>5 DEF PermissionsInv, RequestIsWhole, DeliveryIsRight, Requested, Decided
<1>8. EntitledIsHeld' /\ AmbiguousIsHeld'
  BY <1>1, <1>2, <1>3, <1>4, <1>5 DEF PermissionsInv, EntitledIsHeld, AmbiguousIsHeld, Ambiguous
<1> QED BY <1>6, <1>7, <1>8, MembershipRests DEF PermissionsInv

LEMMA CreateTaskIsRight ==
    ASSUME PermissionsInv, UNCHANGED membershipVars, NEW u \in Members, NEW c \in Members,
           NEW w \in Workspaces, NEW op \in Operations, CreateTask(u, c, w, op)
    PROVE  PermissionsInv'
<1>1. /\ task = NoTask /\ UNCHANGED <<execution, worker, office>> /\ Authorizes(u, "task.create", w, u)
      /\ task' = [status |-> "PENDING", creator |-> u, ws |-> w, op |-> op]
      /\ held' = [held EXCEPT !.actor = Entitled(u, op, role[w], active)]
  BY DEF CreateTask
<1>2. worker.pc = "idle" /\ office = NoOffice /\ execution.exec = "none" /\ execution.approval = "none"
      /\ ~execution.sent
  BY <1>1 DEF PermissionsInv, WorkHasTask, RequestIsWhole
<1>3. task' \in TaskRows /\ task' # NoTask /\ task'.ws = w /\ task'.creator = u /\ task'.op = op
  BY <1>1 DEF TaskRows, NoTask
<1>4. UNCHANGED <<active, workspace, role>> /\ workspace[w] = "open"
  <2>1. role[w][u] \in Roles
    BY <1>1, Policy DEF PermissionsInv, MembershipInv
  <2> QED BY <2>1 DEF PermissionsInv, RolesHaveWorkspaces, Roles, membershipVars
<1>5. /\ held' \in [actor : BOOLEAN, approver : BOOLEAN]
      /\ held'.actor = Entitled(u, op, role[w], active)
  <2> DEFINE entitled == Entitled(u, op, role[w], active)
  <2>1. held' = [held EXCEPT !.actor = entitled] /\ entitled \in BOOLEAN
        /\ held \in [actor : BOOLEAN, approver : BOOLEAN]
    BY <1>1 DEF PermissionsInv, PermissionsTypeOK, Entitled
  <2> HIDE DEF entitled
  <2>2. held' \in [actor : BOOLEAN, approver : BOOLEAN] /\ held'.actor = entitled
    BY <2>1
  <2> QED BY <2>2 DEF entitled
<1>6. PermissionsTypeOK' /\ WorkHasTask'
  BY <1>1, <1>2, <1>3, <1>4, <1>5, WorkTypes DEF PermissionsInv, PermissionsTypeOK, WorkHasTask
<1>7. RequestIsWhole' /\ DeliveryIsRight'
  BY <1>1, <1>2 DEF RequestIsWhole, DeliveryIsRight, Requested, Decided
<1>8. EntitledIsHeld'
  BY <1>3, <1>4, <1>5 DEF EntitledIsHeld, ActorEntitled, Actor
<1>9. AmbiguousIsHeld'
  BY <1>1, <1>2 DEF AmbiguousIsHeld, Ambiguous
<1> QED BY <1>6, <1>7, <1>8, <1>9, MembershipRests DEF PermissionsInv

\* Requests of people: the office moves, the rest of the task stays.
LEMMA OfficeMoves ==
    ASSUME PermissionsInv, UNCHANGED <<membershipVars, task, execution, worker, held>>, task # NoTask,
           office' \in OfficeState, office'.pc = "storing" => office'.entitled
    PROVE  PermissionsInv'
<1>1. UNCHANGED <<active, workspace, role>>
  BY DEF membershipVars
<1>2. PermissionsTypeOK' /\ WorkHasTask'
  BY <1>1 DEF PermissionsInv, PermissionsTypeOK, WorkHasTask
<1>3. RequestIsWhole' /\ DeliveryIsRight' /\ EntitledIsHeld' /\ AmbiguousIsHeld'
  BY <1>1 DEF PermissionsInv, RequestIsWhole, DeliveryIsRight, EntitledIsHeld, AmbiguousIsHeld,
              ApprovalNeeded, ActorEntitled, Actor, Ambiguous
<1> QED BY <1>2, <1>3, MembershipRests DEF PermissionsInv

LEMMA OfficeIsRight ==
    ASSUME PermissionsInv, UNCHANGED membershipVars,
           (\E u \in Members : AskToRun(u) \/ AskToDecide(u)) \/ ResumeDecided
    PROVE  PermissionsInv'
<1>1. ASSUME NEW u \in Members, AskToRun(u) PROVE PermissionsInv'
  <2>1. office' \in OfficeState /\ office'.pc = "enqueueing"
    BY <1>1 DEF AskToRun, OfficeState
  <2> QED BY <1>1, <2>1, OfficeMoves DEF AskToRun
<1>2. ASSUME NEW u \in Members, AskToDecide(u) PROVE PermissionsInv'
  <2>1. task # NoTask
    BY <1>2 DEF AskToDecide, PermissionsInv, WorkHasTask, RequestIsWhole
  <2> DEFINE entitled == Entitled(u, "write", role[task.ws], active)
  <2>2. entitled
    BY <1>2, <2>1, DecidersAreOwners DEF AskToDecide, PermissionsInv, MembershipInv
  <2>3. office' = [pc |-> "storing", by |-> u, entitled |-> entitled]
        /\ UNCHANGED <<task, execution, worker, held>>
    BY <1>2 DEF AskToDecide
  <2> HIDE DEF entitled
  <2>4. entitled = TRUE
    BY <2>2
  <2>5. office' \in OfficeState /\ office'.entitled
    BY <2>3, <2>4 DEF OfficeState
  <2> QED BY <2>1, <2>3, <2>5, OfficeMoves
<1>3. CASE ResumeDecided
  <2>1. office.pc = "resuming" /\ office \in OfficeState /\ task # NoTask
    BY <1>3, WorkTypes DEF ResumeDecided, PermissionsInv, PermissionsTypeOK, WorkHasTask
  <2>2. office' \in {[office EXCEPT !.pc = "enqueueing"], NoOffice}
        /\ UNCHANGED <<task, execution, worker, held>>
    BY <1>3 DEF ResumeDecided
  <2>3. office' \in OfficeState /\ office'.pc \in {"enqueueing", "idle"}
    BY <2>1, <2>2 DEF OfficeState, NoOffice
  <2> QED BY <2>1, <2>2, <2>3, OfficeMoves
<1> QED BY <1>1, <1>2, <1>3

LEMMA EnqueueIsRight == ASSUME PermissionsInv, UNCHANGED membershipVars, Enqueue PROVE PermissionsInv'
<1>1. office.pc = "enqueueing" /\ office' = NoOffice /\ UNCHANGED <<execution, worker, held>>
      /\ task # NoTask
  BY WorkTypes DEF Enqueue, PermissionsInv, WorkHasTask
<1>2. CASE task' = task
  BY <1>1, <1>2, WorkTypes, OfficeMoves
<1>3. CASE /\ task.status \in {"PENDING", "WAITING_USER", "FAILED"}
           /\ task' = [task EXCEPT !.status = "QUEUED"]
  <2>1. /\ task' \in TaskRows /\ task' # NoTask /\ task'.status = "QUEUED"
        /\ task'.op = task.op /\ workspace'[task'.ws] = "open"
        /\ ActorEntitled' = ActorEntitled /\ ApprovalNeeded' = ApprovalNeeded
    BY <1>1, <1>3, StatusIsSet
  <2>2. PermissionsTypeOK' /\ WorkHasTask'
    BY <1>1, <2>1, WorkTypes DEF PermissionsInv, PermissionsTypeOK, WorkHasTask
  <2>3. RequestIsWhole' /\ DeliveryIsRight'
    BY <1>1, <2>1 DEF PermissionsInv, RequestIsWhole, DeliveryIsRight, Requested, Decided
  <2>4. EntitledIsHeld' /\ AmbiguousIsHeld'
    BY <1>1, <1>3, <2>1 DEF PermissionsInv, EntitledIsHeld, AmbiguousIsHeld, Ambiguous
  <2> QED BY <2>2, <2>3, <2>4, MembershipRests DEF PermissionsInv
<1> QED BY <1>2, <1>3 DEF Enqueue

\* A decision begins a new history: of whoever is entitled as it is made.
LEMMA StoreDecisionIsRight ==
    ASSUME PermissionsInv, UNCHANGED membershipVars, NEW verdict \in {"approved", "rejected"},
           StoreDecision(verdict)
    PROVE  PermissionsInv'
<1>1. office.pc = "storing" /\ office \in OfficeState /\ task # NoTask /\ UNCHANGED <<task, worker>>
      /\ office.entitled
  BY WorkTypes DEF StoreDecision, PermissionsInv, PermissionsTypeOK, WorkHasTask
<1>2. CASE execution.approval # "pending"
  BY <1>1, <1>2, WorkTypes, OfficeMoves DEF StoreDecision
<1>3. CASE execution.approval = "pending"
  <2>1. /\ execution' = [execution EXCEPT !.approval = verdict]
        /\ office' = [office EXCEPT !.pc = "resuming"]
        /\ held' = [actor |-> ActorEntitled, approver |-> office.entitled]
    BY <1>3 DEF StoreDecision
  <2>2. /\ execution' \in ExecutionState /\ execution'.approval = verdict
        /\ execution'.exec = execution.exec /\ execution'.sent = execution.sent
    BY <2>1 DEF PermissionsInv, PermissionsTypeOK, ExecutionState
  <2>3. office' \in OfficeState /\ office'.pc = "resuming"
    BY <1>1, <2>1 DEF OfficeState, NoOffice
  <2>4. /\ held' \in [actor : BOOLEAN, approver : BOOLEAN] /\ held'.actor = ActorEntitled
        /\ held'.approver
    <3>1. ActorEntitled \in BOOLEAN /\ office.entitled \in BOOLEAN
      BY <1>1, WorkTypes DEF ActorEntitled, Entitled
    <3> HIDE DEF ActorEntitled
    <3> QED BY <1>1, <2>1, <3>1
  <2>5. UNCHANGED <<active, workspace, role>>
    BY DEF membershipVars
  <2>6. ActorEntitled' = ActorEntitled /\ ApprovalNeeded' = ApprovalNeeded
    BY <1>1, <2>5 DEF ActorEntitled, Entitled, Actor, ApprovalNeeded
  <2>7. PermissionsTypeOK' /\ WorkHasTask'
    BY <1>1, <2>2, <2>3, <2>4, <2>5 DEF PermissionsInv, PermissionsTypeOK, WorkHasTask
  <2>8. worker.pc \notin Decided /\ ~execution.sent
    BY <1>3 DEF PermissionsInv, DeliveryIsRight
  <2>9. RequestIsWhole' /\ DeliveryIsRight'
    BY <1>1, <1>3, <2>2, <2>4, <2>6, <2>8
       DEF PermissionsInv, RequestIsWhole, DeliveryIsRight, Requested, Decided
  <2>10. EntitledIsHeld' /\ AmbiguousIsHeld'
    BY <1>1, <2>2, <2>4, <2>6 DEF PermissionsInv, EntitledIsHeld, AmbiguousIsHeld, Ambiguous
  <2> QED BY <2>7, <2>9, <2>10, MembershipRests DEF PermissionsInv
<1> QED BY <1>2, <1>3

\* Roles change under the task: the history remembers who was entitled, and the
\* workspace of the task stays.
LEMMA RoleStepIsRight == ASSUME PermissionsInv, RoleStep PROVE PermissionsInv'
<1>1. /\ UNCHANGED <<task, execution, worker, office>>
      /\ held' = [held EXCEPT !.actor =
                    held.actor \/ (task # NoTask /\ Entitled(Actor, task.op, role'[task.ws], active'))]
  BY DEF RoleStep
<1>2. MembershipNext
  BY DEF RoleStep, MembershipNext
<1>3. MembershipInv /\ MembershipInv' /\ MembershipTypeOK
  BY <1>2, MembershipInductive DEF PermissionsInv, MembershipInv
<1>4. /\ \A w \in Workspaces : workspace[w] = "open" => workspace'[w] = "open"
      /\ RolesHaveWorkspaces'
  <2>1. PICK u \in Members, w \in Workspaces :
           \/ CreateWorkspace(u, w) \/ SetActive(u)
           \/ \E by \in Members, to \in Roles \union {"none"} : ChangeMember(by, w, u, to)
    BY DEF RoleStep
  <2>2. CASE CreateWorkspace(u, w)
    <3>1. /\ workspace' = [workspace EXCEPT ![w] = "open"]
          /\ role' = [role EXCEPT ![w] = [NoRoles EXCEPT ![u] = "OWNER"]]
      BY <2>2 DEF CreateWorkspace
    <3> QED BY <1>3, <3>1 DEF MembershipTypeOK, PermissionsInv, RolesHaveWorkspaces
  <2>3. CASE SetActive(u)
    BY <2>3 DEF SetActive, PermissionsInv, RolesHaveWorkspaces
  <2>4. ASSUME NEW by \in Members, NEW to \in Roles \union {"none"}, ChangeMember(by, w, u, to)
        PROVE  /\ \A v \in Workspaces : workspace[v] = "open" => workspace'[v] = "open"
               /\ RolesHaveWorkspaces'
    <3>1. /\ role' = [role EXCEPT ![w] = [role[w] EXCEPT ![u] = to]] /\ UNCHANGED workspace
          /\ RoleOf(by, w) = "OWNER"
      BY <2>4 DEF ChangeMember
    <3>2. role[w][by] # "none"
      BY <3>1 DEF RoleOf
    <3>3. workspace[w] = "open"
      BY <3>2 DEF PermissionsInv, RolesHaveWorkspaces
    <3> QED BY <1>3, <3>1, <3>3 DEF MembershipTypeOK, PermissionsInv, RolesHaveWorkspaces
  <2> QED BY <2>1, <2>2, <2>3, <2>4
<1>5. /\ held' \in [actor : BOOLEAN, approver : BOOLEAN] /\ held'.approver = held.approver
      /\ held.actor => held'.actor
      /\ task # NoTask /\ ActorEntitled' => held'.actor
  <2> DEFINE now == task # NoTask /\ Entitled(Actor, task.op, role'[task.ws], active')
  <2>1. held' = [held EXCEPT !.actor = held.actor \/ now]
        /\ held \in [actor : BOOLEAN, approver : BOOLEAN]
    BY <1>1 DEF PermissionsInv, PermissionsTypeOK
  <2>2. task # NoTask /\ ActorEntitled' => now
    BY <1>1 DEF ActorEntitled, Entitled, Actor
  <2> HIDE DEF now
  <2>3. (held.actor \/ now) \in BOOLEAN
    OBVIOUS
  <2>4. held' \in [actor : BOOLEAN, approver : BOOLEAN] /\ held'.approver = held.approver
        /\ held'.actor = (held.actor \/ now)
    BY <2>1, <2>3
  <2> QED BY <2>2, <2>4
<1>6. PermissionsTypeOK'
  BY <1>1, <1>5 DEF PermissionsInv, PermissionsTypeOK
<1>7. WorkHasTask'
  BY <1>1, <1>4, TaskTypes DEF PermissionsInv, PermissionsTypeOK, WorkHasTask
<1>8. RequestIsWhole' /\ DeliveryIsRight'
  BY <1>1, <1>5 DEF PermissionsInv, RequestIsWhole, DeliveryIsRight, ApprovalNeeded
<1>9. EntitledIsHeld' /\ AmbiguousIsHeld'
  BY <1>1, <1>5 DEF PermissionsInv, EntitledIsHeld, AmbiguousIsHeld, Ambiguous
<1> QED BY <1>3, <1>4, <1>6, <1>7, <1>8, <1>9 DEF PermissionsInv

LEMMA PermissionsInductive ==
    PermissionsInv /\ [PermissionsNext]_<<membershipVars, permissionVars>> => PermissionsInv'
<1> SUFFICES ASSUME PermissionsInv, [PermissionsNext]_<<membershipVars, permissionVars>>
             PROVE  PermissionsInv'
  OBVIOUS
<1>1. CASE RoleStep
  BY <1>1, RoleStepIsRight
<1>2. CASE TaskStep /\ UNCHANGED membershipVars
  BY <1>2, CreateTaskIsRight, OfficeIsRight, EnqueueIsRight, StoreDecisionIsRight, DeliverIsRight,
     AskToolIsRight, ReadApprovalIsRight, WaitForApprovalIsRight, RecheckIsRight, GuardClaimIsRight,
     ClaimIsRight, SendCallIsRight, FinishCallIsRight, SettleTaskIsRight
     DEF TaskStep
<1>3. CASE UNCHANGED <<membershipVars, permissionVars>>
  <2>1. UNCHANGED membershipVars /\ UNCHANGED <<task, execution, worker, office, held>>
        /\ UNCHANGED <<active, workspace, role>>
    BY <1>3 DEF permissionVars, membershipVars
  <2> QED BY <2>1, MembershipRests
          DEF PermissionsInv, PermissionsTypeOK, WorkHasTask, RequestIsWhole, DeliveryIsRight,
              EntitledIsHeld, AmbiguousIsHeld, ApprovalNeeded, ActorEntitled, Actor, Ambiguous
<1> QED BY <1>1, <1>2, <1>3 DEF PermissionsNext

\* What a delivery has established by each of its steps, of every reachable state.
THEOREM PermissionsInvariance == PermissionsSpec => []PermissionsInv
<1>1. MembershipInit /\ PermissionsInit => PermissionsInv
  <2> SUFFICES ASSUME MembershipInit, PermissionsInit PROVE PermissionsInv
    OBVIOUS
  <2>1. PermissionsTypeOK
    BY TaskTypes, WorkTypes
       DEF PermissionsInit, PermissionsTypeOK, ExecutionState, WorkerState
  <2>2. RolesHaveWorkspaces
    BY DEF MembershipInit, NoRoles, RolesHaveWorkspaces
  <2>3. WorkHasTask /\ RequestIsWhole /\ DeliveryIsRight /\ EntitledIsHeld /\ AmbiguousIsHeld
    BY WorkTypes DEF PermissionsInit, WorkHasTask, RequestIsWhole, DeliveryIsRight, Requested, Decided,
                     EntitledIsHeld, AmbiguousIsHeld
  <2> QED BY <2>1, <2>2, <2>3, MembershipInitially DEF PermissionsInv
<1> QED BY <1>1, PermissionsInductive, PTL DEF PermissionsSpec

\* No call is sent for who was not entitled to it since the decision, every
\* request that waits is seen by who may decide it, and a write without its
\* receipt is held, whatever roles change between the steps of a delivery.
THEOREM PermissionsHoldAlways == PermissionsSpec => []PermissionsHold
<1>1. PermissionsInv => PermissionsHold
  <2> SUFFICES ASSUME PermissionsInv PROVE PermissionsHold
    OBVIOUS
  <2>1. CallsAreEntitled
    BY DEF PermissionsInv, RequestIsWhole, DeliveryIsRight, CallsAreEntitled
  <2>2. WaitsAreSeen
    <3> SUFFICES ASSUME execution.approval = "pending"
                 PROVE  /\ \A u \in Members : MayDecide(u) => SeesApproval(u)
                        /\ active = Members => \E u \in Members : MayDecide(u)
      BY DEF WaitsAreSeen
    <3>1. /\ MembershipTypeOK /\ PermissionsTypeOK /\ task # NoTask /\ workspace[task.ws] = "open"
          /\ task.ws \in Workspaces
      BY TaskTypes DEF PermissionsInv, MembershipInv, WorkHasTask, RequestIsWhole, PermissionsTypeOK
    <3>2. PICK u \in Members : role[task.ws][u] = "OWNER"
      BY <3>1 DEF PermissionsInv, MembershipInv, MembershipSound, OwnersRemain, Owners
    <3> QED BY <3>1, <3>2, DecidersAreOwners
  <2>3. LostReceiptsAreHeld
    BY DEF PermissionsInv, RequestIsWhole, AmbiguousIsHeld, LostReceiptsAreHeld, Ambiguous
  <2> QED BY <2>1, <2>2, <2>3 DEF PermissionsHold
<1> QED BY <1>1, PermissionsInvariance, PTL
=============================================================================
