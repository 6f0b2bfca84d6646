------------------------------ MODULE AgentRuns ------------------------------
(***************************************************************************)
(* The delegation ledger of a supervisor run (server/agent_runs.py) and the *)
(* aggregate budget kept in its supervisor row (BudgetManager of            *)
(* server/agent/efficiency.py).  Every method of AgentRunStore is one       *)
(* transaction, and is one action or one operator on the rows here.         *)
(***************************************************************************)
EXTENDS Naturals, FiniteSets

CONSTANTS
    Specialists,        \* agents that work may be delegated to
    Analysts,           \* those whose tool executes; the others only read
    MaxDelegations,     \* MULTI_AGENT_MAX_DELEGATIONS, the reviewer included
    MaxReviews, MaxRedelegations, MaxTools,
    MaxLlm, Headroom,   \* model calls, and those kept for the finalizers
    PreCalls,           \* how many calls analyzer and router may make beforehand
    MaxAttempts         \* starts of one delegation

ASSUME RunsAssumption ==
    /\ Analysts \subseteq Specialists /\ "reviewer" \notin Specialists
    /\ MaxDelegations \in Nat \ {0} /\ MaxReviews \in Nat /\ MaxRedelegations \in Nat
    /\ MaxTools \in Nat /\ MaxLlm \in Nat /\ Headroom \in 0..MaxLlm
    /\ MaxAttempts \in Nat \ {0} /\ PreCalls \subseteq Nat

VARIABLES
    supervisor,  \* the supervisor's row: status, plan, review, memory claim
    deleg,       \* tables agent_delegations and agent_runs, one row of each an id
    budget       \* metadata.budget of the supervisor's row

runsVars == <<supervisor, deleg, budget>>

Ids == 1..MaxDelegations

Kinds    == {"work", "review", "revision"}
Outcomes == {"completed", "partial", "failed", "cancelled"}

Agents == Specialists \union {"reviewer"}

RunStatus ==
    {"NONE", "PENDING", "RUNNING", "CANCELLED", "COMPLETED", "PARTIAL", "FAILED"}

Verdicts == {"none", "pass", "revise"}

\* result: result_json, with a reviewer's verdict; progress: the cursor and what
\* the tool call left; active: active_call; calls: executions of the tool (history).
DelegationRow ==
    [status : RunStatus, kind : Kinds, agent : Agents, result : Outcomes \union {"none"},
     verdict : Verdicts, attempts : 0..MaxAttempts,
     progress : {"none", "evidence", "errors"}, active : BOOLEAN, calls : Nat]

\* Calls made before there was a supervisor count although no limit was asked.
BudgetRow ==
    [llm : Nat, tools : 0..MaxTools, delegations : 0..MaxDelegations,
     reviews : 0..MaxReviews, redelegations : 0..MaxRedelegations, exhausted : BOOLEAN]

NoDelegation ==
    [status |-> "NONE", kind |-> "work", agent |-> "reviewer", result |-> "none",
     verdict |-> "none", attempts |-> 0, progress |-> "none", active |-> FALSE, calls |-> 0]

FreshBudget ==
    [llm |-> 0, tools |-> 0, delegations |-> 0, reviews |-> 0, redelegations |-> 0,
     exhausted |-> FALSE]

Created == {d \in Ids : deleg[d].status # "NONE"}
OfKind(kind) == {d \in Created : deleg[d].kind = kind}
Settled(d) == deleg[d].result # "none"

\* A result's status in capitals is the row's.
StatusOf(outcome) ==
    CASE outcome = "completed" -> "COMPLETED" [] outcome = "partial" -> "PARTIAL"
      [] outcome = "failed" -> "FAILED" [] OTHER -> "CANCELLED"

-----------------------------------------------------------------------------
(* BudgetManager.reserve.  A refusal marks the budget exhausted and commits. *)

LimitOf(kind, phase) ==
    CASE kind = "llm"   -> MaxLlm - (IF phase = "final" THEN 0 ELSE Headroom)
      [] kind = "tools" -> MaxTools
      [] OTHER          -> MaxDelegations

\* late: the wall time or the tokens are over.
Refuses(kind, phase, late) ==
    \/ budget.exhausted /\ phase # "final"
    \/ budget[kind] >= LimitOf(kind, phase)
    \/ kind = "delegations" /\ phase = "review" /\ budget.reviews >= MaxReviews
    \/ kind = "delegations" /\ phase = "revision" /\ budget.redelegations >= MaxRedelegations
    \/ late

One(condition) == IF condition THEN 1 ELSE 0

Reserve(kind, phase, late) ==
    budget' = IF Refuses(kind, phase, late) THEN [budget EXCEPT !.exhausted = TRUE]
              ELSE [budget EXCEPT ![kind] = @ + 1,
                      !.reviews = @ + One(kind = "delegations" /\ phase = "review"),
                      !.redelegations = @ + One(kind = "delegations" /\ phase = "revision")]

-----------------------------------------------------------------------------
(* The methods of AgentRunStore.                                            *)

\* A task has one supervisor: the one that is there is returned as it is.
CreateSupervisor ==
    /\ supervisor' = [supervisor EXCEPT !.status = IF @ = "NONE" THEN "RUNNING" ELSE @]
    /\ UNCHANGED <<deleg, budget>>

\* record_pre_orchestration_calls: counted, never reserved.
RecordPreOrchestrationCalls(calls) ==
    /\ budget' = [budget EXCEPT !.llm = @ + calls, !.exhausted = @ \/ budget.llm + calls >= MaxLlm]
    /\ UNCHANGED <<supervisor, deleg>>

\* count_call, of a tool.  The run's own counter follows the aggregate's.
CountCall(late) == Reserve("tools", "model", late)

\* Completed work of the same agent on the same request (cached).
Cached(d) == {e \in Created \ {d} : /\ deleg[e].status = "COMPLETED"
                                    /\ deleg[e].agent = deleg[d].agent
                                    /\ deleg[e].kind = deleg[d].kind}

CreateUnreserved(kind, agent, late) ==    \* mutant: a refused request has its row
    /\ Created # Ids
    /\ Reserve("delegations", kind, late)
    /\ deleg' = [deleg EXCEPT ![Cardinality(Created) + 1] =
                    [NoDelegation EXCEPT !.status = "PENDING", !.kind = kind, !.agent = agent]]
    /\ UNCHANGED supervisor

\* The reservation, and the row only if it is granted.
CreateDelegation(kind, agent, late) ==
    /\ Created # Ids
    /\ Reserve("delegations", kind, late)
    /\ deleg' = IF Refuses("delegations", kind, late) THEN deleg
                ELSE [deleg EXCEPT ![Cardinality(Created) + 1] =
                        [NoDelegation EXCEPT !.status = "PENDING", !.kind = kind,
                                             !.agent = agent]]
    /\ UNCHANGED supervisor

MayStart(d) == Settled(d) \/ deleg[d].attempts < MaxAttempts

\* A settled delegation is left as it is; a cancelled one is not looked at.
StartRun(d) ==
    deleg' = IF Settled(d) THEN deleg
             ELSE [deleg EXCEPT ![d].status = "RUNNING", ![d].attempts = @ + 1]

\* finish, with what else the caller knows of the row; the first result is kept.
FinishOver(d, row) ==                     \* mutant: a stored result is replaced
    deleg' = [deleg EXCEPT ![d] = [row EXCEPT !.status = StatusOf(row.result)]]

FinishRun(d, row) ==
    deleg' = IF Settled(d) THEN deleg
             ELSE [deleg EXCEPT ![d] = [row EXCEPT !.status = StatusOf(row.result)]]

\* The delegations at work are cancelled with their runs, then the supervisor.
CancelRuns ==
    /\ deleg' = [d \in Ids |-> IF deleg[d].status \in {"PENDING", "RUNNING"}
                               THEN [deleg[d] EXCEPT !.status = "CANCELLED"] ELSE deleg[d]]
    /\ supervisor' = [supervisor EXCEPT !.status = IF @ = "RUNNING" THEN "CANCELLED" ELSE @]
    /\ UNCHANGED budget

ClaimMemoryAgain ==                       \* mutant: the claim is not recorded
    UNCHANGED runsVars

ClaimMemory ==
    /\ supervisor' = [supervisor EXCEPT !.memory = TRUE]
    /\ UNCHANGED <<deleg, budget>>
=============================================================================
