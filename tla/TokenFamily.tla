------------------------------ MODULE TokenFamily ------------------------------
(***************************************************************************)
(* What rotating refresh tokens promise: a sign-in begins a family, in which *)
(* one token at a time can be used.  It hands over to its successor, stays    *)
(* with the person and the password it was begun for, and ends for good, at   *)
(* the latest when that person's password or status changes.  How rows that   *)
(* are used, revoked or expired keep this is in module Accounts.              *)
(***************************************************************************)
EXTENDS Naturals

CONSTANTS
    People,
    SignIns     \* the families there may be

VARIABLES
    person,     \* [People -> password and whether the account is active]
    family      \* [SignIns -> its state, what it was begun for and its usable tokens]

NotBegun == [state |-> "none"]
Ended == [state |-> "ended"]
Begun(who, tokens) ==
    [state |-> "open", user |-> who, password |-> person[who].password, holder |-> tokens]

OpenOf(who) == {f \in SignIns : family[f].state = "open" /\ family[f].user = who}

Init ==
    /\ person = [p \in People |-> [password |-> 0, active |-> TRUE]]
    /\ family = [f \in SignIns |-> NotBegun]

\* Only an active person who has a password signs in.
Begin(f, who) ==
    /\ family[f] = NotBegun
    /\ person[who].active /\ person[who].password # 0
    /\ family' = [family EXCEPT ![f] = Begun(who, {f})]
    /\ UNCHANGED person

\* The successor is a token that was never used, and the only one left.
HandOver(f, token) ==
    /\ family[f].state = "open"
    /\ person[family[f].user].active
    /\ \A t \in family[f].holder : t < token
    /\ family' = [family EXCEPT ![f].holder = {token}]
    /\ UNCHANGED person

Without(ending) == [f \in SignIns |-> IF f \in ending THEN Ended ELSE family[f]]

End(ending) ==
    /\ \A f \in ending : family[f].state = "open"
    /\ family' = Without(ending)
    /\ UNCHANGED person

\* A new password, or another status, ends all of a person's families at one stroke.
Change(who, password, active) ==
    /\ password \in {person[who].password, person[who].password + 1}
    /\ person' = [person EXCEPT ![who] = [password |-> password, active |-> active]]
    /\ family' = Without(OpenOf(who))

Next ==
    \/ \E ending \in SUBSET SignIns : End(ending)
    \/ \E f \in SignIns, who \in People : Begin(f, who)
    \/ \E f \in SignIns, token \in SignIns : HandOver(f, token)
    \/ \E who \in People, active \in BOOLEAN :
          \E password \in {person[who].password, person[who].password + 1} :
             Change(who, password, active)

Spec == Init /\ [][Next]_<<person, family>>
=============================================================================
