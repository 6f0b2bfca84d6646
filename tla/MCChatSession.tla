--------------------------- MODULE MCChatSession ---------------------------
(***************************************************************************)
(* ChatSession on small instances: questions q1 to q3 of one session or     *)
(* two, and runs t and u of one task of the first.                          *)
(***************************************************************************)
EXTENDS ChatSession, TLC

CONSTANTS chat, other, q3

OneTask == [a \in TaskRuns |-> "task"]
OneSession == [a \in Asks |-> chat]
\* q3 asks in the other session.
TwoSessions == [a \in Asks |-> IF a = q3 THEN other ELSE chat]
=============================================================================
