--------------------------- MODULE MCOrchestration ---------------------------
(***************************************************************************)
(* Orchestration on small instances: a researcher and an analyst, in one   *)
(* group or one after the other, an analyst alone, or a research step that *)
(* may reuse the work of the one before.                                   *)
(***************************************************************************)
EXTENDS Orchestration

Together == << <<"research", 1>>, <<"data", 1>> >>
InOrder  == << <<"research", 1>>, <<"data", 2>> >>
DataOnly == << <<"data", 1>> >>
Twice    == << <<"research", 1>>, <<"research", 2>> >>

Shapes == {Together, InOrder, DataOnly, Twice}

\* Bound: graphs overlap on the one delegation of the smallest plan, uncancelled.
OverlapIsSmall == trace.overlap => Cardinality(Created) <= 1 /\ ~task.cancel

\* Bound: the smallest plan is the one that may have an external action, and no
\* graph overlaps another while the action is due.
ActionIsSmall == supervisor.due => Cardinality(OfKind("work")) <= 1 /\ ~trace.overlap

ScopeIsSmall == OverlapIsSmall /\ ActionIsSmall
=============================================================================
