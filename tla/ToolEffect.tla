----------------------------- MODULE ToolEffect -----------------------------
(***************************************************************************)
(* What the tool-execution ledger promises about one external action: it   *)
(* is sent to its provider at most once, only after it was authorised, and *)
(* never after it was refused.  How the promise is kept (a ledger row, an  *)
(* approval row and the threads that read them) is in module ToolLedger,   *)
(* which implements this one.                                              *)
(***************************************************************************)

CONSTANT Intents    \* the actions a run may want performed

VARIABLE phase      \* how far each of them has come

Phases ==
    {"absent", "proposed", "authorised", "refused", "committed", "sent", "closed"}

Init == phase = [i \in Intents |-> "absent"]

Become(i, from, to) ==
    /\ phase[i] \in from
    /\ phase' = [phase EXCEPT ![i] = to]

Propose(i)   == Become(i, {"absent"}, "proposed")
Authorise(i) == Become(i, {"absent", "proposed"}, "authorised")
Commit(i)    == Become(i, {"authorised"}, "committed")
Send(i)      == Become(i, {"committed"}, "sent")
Close(i)     == Become(i, {"committed", "sent"}, "closed")

\* Cancelling a task refuses, at one stroke, all of its actions not committed.
Refuse(S) ==
    /\ \A i \in S : phase[i] \in {"proposed", "authorised"}
    /\ phase' = [i \in Intents |-> IF i \in S THEN "refused" ELSE phase[i]]

Next ==
    \/ \E i \in Intents :
          Propose(i) \/ Authorise(i) \/ Commit(i) \/ Send(i) \/ Close(i)
    \/ \E S \in SUBSET Intents : Refuse(S)

Spec == Init /\ [][Next]_phase
=============================================================================
