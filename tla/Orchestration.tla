---------------------------- MODULE Orchestration ----------------------------
(***************************************************************************)
(* The supervisor graph of one persistent task (server/agent/orchestration *)
(* .py with the policies of efficient_orchestration.py), the specialists   *)
(* it runs in parallel (specialized_agents.py), and their ledger.          *)
(*                                                                         *)
(* A graph advances node by node and its checkpoint is saved after each;   *)
(* a delivery goes on from the last checkpoint, or starts again when the   *)
(* previous graph came to an end.  After a timeout a graph is detached and *)
(* goes on beside the next one.  The task's row is what WorkerTask models  *)
(* in detail; here a delivery, a pause and a cancellation are one step.    *)
(***************************************************************************)
EXTENDS AgentRuns, SequencesExt

CONSTANTS
    Graphs,      \* how many executions of the task's graph there may be at once
    Plans,       \* plans the supervisor may make: sequences of <<agent, group>>
    MaxEvents    \* bound: crashes, timeouts, pauses, and deadlines and budgets that
                 \* run out of time, together

ASSUME OrchestrationAssumption ==
    /\ Plans \subseteq Seq(Specialists \X {1, 2}) /\ IsFiniteSet(Specialists)
    /\ Graphs \in Nat \ {0} /\ MaxEvents \in Nat

VARIABLES
    task,      \* the task's row: status, control flags, completed steps
    graph,     \* what each graph execution is at
    agent,     \* the specialists each graph has sent out
    saved,     \* the last checkpoint of the task's thread
    copy,      \* the budget that request read and is about to write back
    trace      \* history: events, memory extractions, overlap

supVars == <<runsVars, task, graph, agent, saved, copy, trace>>

Runs  == 1..Graphs
Steps == {"orchestrate", "synthesize"}

\* made: the delegations of the list created so far; stop: task_boundary_stop.
Fresh == [pc |-> "router", list |-> <<>>, made |-> <<>>, kind |-> "work",
          groups |-> <<>>, group |-> 1, review |-> "none", round |-> 0, stop |-> FALSE,
          detached |-> FALSE]

NoGraphRun == [Fresh EXCEPT !.pc = "idle"]

Out == [pc |-> "out", outcome |-> "failed"]

SupInit ==
    /\ supervisor = [status |-> "NONE", groups |-> <<>>, revisions |-> <<>>,
                     due |-> FALSE, review |-> "none", round |-> 0, memory |-> FALSE]
    /\ deleg = [d \in Ids |-> NoDelegation]
    /\ budget = FreshBudget
    /\ task = [status |-> "PENDING", pause |-> FALSE, cancel |-> FALSE, done |-> {},
               revoking |-> FALSE]
    /\ graph = [g \in Runs |-> NoGraphRun]
    /\ agent = [g \in Runs |-> [d \in Ids |-> Out]]
    /\ saved = NoGraphRun
    /\ copy = [g \in Runs |-> FreshBudget]
    /\ trace = [events |-> 0, extractions |-> 0, overlap |-> FALSE]

Live == task.status \in {"RUNNING", "WAITING_USER"}

\* A node ends: its updates are checkpointed.  A step inside one is not.
NodeEnds(g, update) ==
    /\ graph' = [graph EXCEPT ![g] = update]
    /\ saved' = IF update.pc = "end" THEN NoGraphRun ELSE [update EXCEPT !.detached = FALSE]

Within(g, update) ==
    /\ graph' = [graph EXCEPT ![g] = update]
    /\ UNCHANGED saved

\* One Send for each delegation of the current group.
SentBy(update) ==
    [d \in Ids |-> IF update.pc = "agents" /\ d \in update.groups[update.group]
                   THEN [Out EXCEPT !.pc = "sent"] ELSE Out]

At(g, pc) == graph[g].pc = pc
To(g, pc) == [graph[g] EXCEPT !.pc = pc]

-----------------------------------------------------------------------------
(* The delivery of the task, and what stops it.                             *)

\* The invocation continues a saved fan-out or interrupt, else starts afresh.
Deliver(g) ==
    /\ At(g, "idle")
    /\ task.status \in {"PENDING", "PAUSED", "FAILED", "WAITING_USER"}
    /\ \A h \in Runs : IF h < g THEN graph[h].detached ELSE At(h, "idle") \/ graph[h].detached
    /\ ~task.cancel
    /\ task' = [task EXCEPT !.status = "RUNNING", !.pause = FALSE]
    /\ LET start == IF saved.pc = "idle" THEN Fresh ELSE saved
       IN /\ graph' = [graph EXCEPT ![g] = start]
          /\ agent' = [agent EXCEPT ![g] = SentBy(start)]
    /\ trace' = [trace EXCEPT !.overlap = @ \/ \E h \in Runs : graph[h].detached]
    /\ UNCHANGED <<runsVars, saved, copy>>

\* What the failed delivery leaves: execute_task's handler, or the recovery.
Fallen == IF task.cancel THEN "CANCELLED"
          ELSE IF task.status = "RUNNING" THEN "FAILED" ELSE task.status

CrashGraph(g) ==
    /\ ~At(g, "idle") /\ trace.events < MaxEvents
    /\ graph' = [graph EXCEPT ![g] = NoGraphRun]
    /\ agent' = [agent EXCEPT ![g] = [d \in Ids |-> Out]]
    /\ task' = IF graph[g].detached THEN task ELSE [task EXCEPT !.status = Fallen]
    /\ trace' = [trace EXCEPT !.events = @ + 1]
    /\ UNCHANGED <<runsVars, saved, copy>>

DetachGraph(g) ==
    /\ ~At(g, "idle") /\ ~graph[g].detached /\ trace.events < MaxEvents
    /\ graph' = [graph EXCEPT ![g].detached = TRUE]
    /\ task' = [task EXCEPT !.status = Fallen]
    /\ trace' = [trace EXCEPT !.events = @ + 1]
    /\ UNCHANGED <<runsVars, agent, saved, copy>>

\* request_control: a running task is flagged, any other settles at once.
CancelAnyTask ==                          \* mutant: a running task is cancelled at once
    /\ task.status \notin {"COMPLETED", "CANCELLED"} /\ ~task.cancel
    /\ task' = [task EXCEPT !.cancel = TRUE, !.status = "CANCELLED", !.revoking = TRUE]
    /\ UNCHANGED <<runsVars, graph, agent, saved, copy, trace>>

CancelSupervised ==
    /\ task.status \notin {"COMPLETED", "CANCELLED"} /\ ~task.cancel
    /\ task' = [task EXCEPT !.cancel = TRUE,
                  !.status = IF @ = "RUNNING" THEN @ ELSE "CANCELLED",
                  !.revoking = task.status # "RUNNING"]
    /\ UNCHANGED <<runsVars, graph, agent, saved, copy, trace>>

PauseSupervised ==
    /\ task.status = "RUNNING" /\ ~task.pause /\ trace.events < MaxEvents
    /\ task' = [task EXCEPT !.pause = TRUE]
    /\ trace' = [trace EXCEPT !.events = @ + 1]
    /\ UNCHANGED <<runsVars, graph, agent, saved, copy>>

\* The cancel route and execute_task cancel the ledger after the task.
Revoke ==
    /\ task.revoking
    /\ CancelRuns
    /\ task' = [task EXCEPT !.revoking = FALSE]
    /\ UNCHANGED <<graph, agent, saved, copy, trace>>

\* The graph returns.  The task is completed when its two steps are.
Returned == IF task.status # "RUNNING" THEN task.status
            ELSE IF task.done = Steps THEN "COMPLETED" ELSE "PAUSED"

EndGraph(g) ==
    /\ At(g, "end")
    /\ graph' = [graph EXCEPT ![g] = NoGraphRun]
    /\ saved' = NoGraphRun
    /\ task' = IF graph[g].detached THEN task
               ELSE [task EXCEPT !.status = Returned, !.revoking = @ \/ Returned = "CANCELLED"]
    /\ UNCHANGED <<runsVars, agent, copy, trace>>

\* A superstep with an interrupt or an exception is not checkpointed; the
\* other specialists of the group have come to an end.
BreakGraph(g) ==
    LET raised == At(g, "broken") \/ \E d \in Ids : agent[g][d].pc = "raised" IN
    /\ \/ At(g, "broken") \/ At(g, "waiting")
       \/ /\ At(g, "agents")
          /\ \A d \in Ids : agent[g][d].pc \in {"out", "back", "parked", "raised"}
          /\ \E d \in Ids : agent[g][d].pc \in {"parked", "raised"}
    /\ graph' = [graph EXCEPT ![g] = NoGraphRun]
    /\ agent' = [agent EXCEPT ![g] = [d \in Ids |-> Out]]
    /\ task' = IF graph[g].detached THEN task
               ELSE [task EXCEPT !.status = IF raised THEN Fallen ELSE Returned]
    /\ UNCHANGED <<runsVars, saved, copy, trace>>

-----------------------------------------------------------------------------
(* Routing and planning.                                                    *)

Still == UNCHANGED <<task, agent, copy>>
Quiet == Still /\ UNCHANGED trace

\* Time may run out: the wall time, the tokens or a specialist's deadline.
Lateness == {late \in BOOLEAN : late => trace.events < MaxEvents}
Tick(late) == trace' = [trace EXCEPT !.events = @ + One(late)]

\* orchestration_router creates the supervisor once, ...
Route(g) ==
    /\ At(g, "router")
    /\ CreateSupervisor
    /\ Within(g, To(g, "charging"))
    /\ Quiet

\* ... and counts the model calls of the analyzer and the router, each time.
Charge(g) ==
    /\ At(g, "charging")
    /\ \E calls \in PreCalls : RecordPreOrchestrationCalls(calls)
    /\ NodeEnds(g, To(g, "plan"))
    /\ Quiet

\* supervisor_plan: a stored plan is run from its first group, else the model,
\* or the fallback when the call is refused, makes one.
Plan(g) ==
    /\ At(g, "plan")
    /\ IF supervisor.groups # <<>>
       THEN /\ NodeEnds(g, [To(g, "dispatch") EXCEPT !.groups = supervisor.groups, !.group = 1,
                                                     !.round = supervisor.round])
            /\ UNCHANGED <<runsVars, trace>>
       ELSE /\ \E plan \in Plans :
                  Within(g, [To(g, "asking") EXCEPT !.list = plan, !.made = <<>>, !.kind = "work"])
            /\ \/ \E late \in Lateness : Reserve("llm", "model", late) /\ Tick(late)
               \/ UNCHANGED <<budget, trace>>              \* a clear goal: no model
            /\ UNCHANGED <<supervisor, deleg>>
    /\ Still

ListEndNever(g) == "asking"               \* mutant: the loop over the requests is not left

\* Where the requests of a list end, all made or the budget exhausted.
ListEnd(g) ==
    CASE graph[g].kind = "work"     -> "planned"
      [] graph[g].kind = "revision" -> "revised"
      [] OTHER -> IF graph[g].made = <<>> THEN "reviewed" ELSE "reviewing"

Unmade(g) == Len(graph[g].made) < Len(graph[g].list)

\* request reads the budget in a transaction of its own, ...
AskBudget(g) ==
    LET over == budget.exhausted \/ budget.delegations >= MaxDelegations IN
    /\ At(g, "asking")
    /\ Within(g, To(g, IF ~Unmade(g) THEN ListEnd(g)
                       ELSE IF over THEN "overwriting" ELSE "creating"))
    /\ copy' = IF Unmade(g) /\ over
               THEN [copy EXCEPT ![g] = [budget EXCEPT !.exhausted = TRUE]] ELSE copy
    /\ UNCHANGED <<runsVars, task, agent, trace>>

\* ... and when it finds it exhausted writes back the whole of what it read.
WriteBudgetBack(g) ==
    /\ At(g, "overwriting")
    /\ budget' = copy[g]
    /\ copy' = [copy EXCEPT ![g] = FreshBudget]
    /\ Within(g, To(g, ListEnd(g)))
    /\ UNCHANGED <<supervisor, deleg, task, agent, trace>>

\* The registry refuses for a cancelled task, or a full ledger; a refusal of a
\* work request breaks the node, one of a revision or a review ends the list.
CreateNext(g) ==
    LET entry == graph[g].list[Len(graph[g].made) + 1]
        first == ~\E d \in Created : Settled(d) /\ deleg[d].agent = entry[1]
        kind  == IF graph[g].kind = "revision" /\ first THEN "work" ELSE graph[g].kind
    IN
    /\ At(g, "creating")
    /\ IF task.status = "CANCELLED" \/ Created = Ids
       THEN /\ Within(g, To(g, IF graph[g].kind = "work" THEN "broken" ELSE ListEnd(g)))
            /\ UNCHANGED <<runsVars, trace>>
       ELSE \E late \in Lateness :
              /\ CreateDelegation(kind, entry[1], late) /\ Tick(late)
              /\ Within(g, IF Refuses("delegations", kind, late) THEN To(g, ListEnd(g))
                           ELSE [To(g, "asking") EXCEPT
                                   !.made = Append(@, Cardinality(Created) + 1)])
    /\ Still

\* The created delegations by group; a plan of none has one empty group.
GroupsOf(list, made) ==
    LET members(k) == {made[i] : i \in {j \in 1..Len(made) : list[j][2] = k}}
    IN IF members(2) = {} THEN <<members(1)>>
       ELSE IF members(1) = {} THEN <<members(2)>>
       ELSE <<members(1), members(2)>>

\* Only now is the plan stored, with the steps of the task; due: it has an external
\* action for the supervisor itself (bound: one at most) that is not recorded yet.
StorePlan(g) ==
    LET groups == GroupsOf(graph[g].list, graph[g].made) IN
    /\ At(g, "planned")
    /\ \E due \in BOOLEAN :
          supervisor' = [supervisor EXCEPT !.groups = groups, !.due = due]
    /\ NodeEnds(g, [To(g, "dispatch") EXCEPT !.groups = groups, !.group = 1, !.round = 0])
    /\ UNCHANGED <<deleg, budget>>
    /\ Quiet

-----------------------------------------------------------------------------
(* A group of specialists, and its merge.                                   *)

\* dispatch_agents and send_agents.
Dispatch(g) ==
    /\ At(g, "dispatch")
    /\ LET running == task.status = "RUNNING"
           next == IF running /\ graph[g].groups[graph[g].group] # {}
                   THEN To(g, "agents") ELSE [To(g, "stopping") EXCEPT !.stop = ~running]
       IN NodeEnds(g, next) /\ agent' = [agent EXCEPT ![g] = SentBy(next)]
    /\ UNCHANGED <<runsVars, task, copy, trace>>

\* orchestration_stop: with an exhausted budget the run is brought to an end.
Stop(g) ==
    /\ At(g, "stopping")
    /\ NodeEnds(g, IF budget.exhausted THEN To(g, "complete")
                   ELSE [To(g, "final") EXCEPT !.stop = TRUE])
    /\ UNCHANGED runsVars
    /\ Quiet

MergeEarly(g) ==                          \* mutant: one specialist is not waited for
    /\ At(g, "agents")
    /\ \E d \in Ids : agent[g][d].pc = "back"
    /\ task' = task
    /\ agent' = [agent EXCEPT ![g] = [d \in Ids |-> Out]]
    /\ NodeEnds(g, [To(g, IF graph[g].group < Len(graph[g].groups) THEN "dispatch"
                          ELSE "actions") EXCEPT !.group = @ + 1])
    /\ UNCHANGED <<runsVars, copy, trace>>

\* merge_agents, when the whole group is back: a pause or a cancellation takes
\* effect here.  Then the next group, or the plan's action.
Merge(g) ==
    LET turned == IF task.status # "RUNNING" THEN task.status
                  ELSE IF task.cancel THEN "CANCELLED"
                  ELSE IF task.pause THEN "PAUSED" ELSE "RUNNING"
        stop == turned \notin {"RUNNING", "WAITING_USER"}
        next == IF stop THEN "stopping"
                ELSE IF graph[g].group < Len(graph[g].groups) THEN "dispatch" ELSE "actions"
    IN
    /\ At(g, "agents")
    /\ \A d \in Ids : agent[g][d].pc \in {"out", "back"}
    /\ task' = [task EXCEPT !.status = turned]
    /\ agent' = [agent EXCEPT ![g] = [d \in Ids |-> Out]]
    /\ NodeEnds(g, [To(g, next) EXCEPT !.group = @ + 1, !.stop = stop])
    /\ UNCHANGED <<runsVars, copy, trace>>

-----------------------------------------------------------------------------
(* A specialist: agent_worker, and the nodes of SpecializedAgent.           *)

Working(g, d, pc) == agent[g][d].pc = pc
Step(g, d, pc) == agent' = [agent EXCEPT ![g][d].pc = pc]
Aside == UNCHANGED <<graph, saved, copy>>

\* Completed work is reused, progress and result, where the sources cannot have
\* changed; which they may have is any choice.
Reuse(d) ==
    \E e \in Cached(d) :
        FinishRun(d, [deleg[d] EXCEPT !.result = deleg[e].result,
                                      !.progress = deleg[e].progress])

\* A stored result is returned at once; no specialist starts on a cancelled task.
Enter(g, d) ==
    /\ Working(g, d, "sent")
    /\ \/ task.status = "CANCELLED" /\ Step(g, d, "raised") /\ UNCHANGED deleg
       \/ /\ task.status # "CANCELLED"
          /\ \/ Settled(d) /\ Step(g, d, "back") /\ UNCHANGED deleg
             \/ ~Settled(d) /\ Reuse(d) /\ Step(g, d, "back")
             \/ ~Settled(d) /\ Step(g, d, "starting") /\ UNCHANGED deleg
    /\ UNCHANGED <<supervisor, budget, task, trace>>
    /\ Aside

\* A start too many raises out of the node, and is not saved.
Start(g, d) ==
    /\ Working(g, d, "starting")
    /\ IF MayStart(d) THEN StartRun(d) /\ Step(g, d, "planning")
                      ELSE Step(g, d, "raised") /\ UNCHANGED deleg
    /\ UNCHANGED <<supervisor, budget, task, trace>>
    /\ Aside

\* boundary: the deadline, or a task that no longer runs.
Bounded(late) == Live /\ ~late

\* The work plan, by a model call if one is needed and granted.
PlanWork(g, d) ==
    /\ Working(g, d, "planning")
    /\ \E late \in Lateness, modelled \in BOOLEAN :
          /\ Tick(late)
          /\ Step(g, d, IF ~Bounded(late) THEN "failing"
                        ELSE IF deleg[d].progress = "none" THEN "ready" ELSE "reporting")
          /\ IF Bounded(late) /\ modelled THEN Reserve("llm", "model", late)
                                          ELSE UNCHANGED budget
    /\ UNCHANGED <<supervisor, deleg, task>>
    /\ Aside

RefusesRerunNever(d) == FALSE             \* mutant: an interrupted execution runs again

RefusesRerun(d) == deleg[d].active /\ deleg[d].agent \in Analysts

\* work, up to the call: it is counted, ...
Count(g, d) ==
    /\ Working(g, d, "ready")
    /\ \E late \in Lateness :
          LET tried == Bounded(late) /\ ~RefusesRerun(d)
          IN /\ Tick(late)
             /\ IF tried THEN CountCall(late) ELSE UNCHANGED budget
             /\ Step(g, d, IF tried /\ ~Refuses("tools", "model", late) THEN "counted"
                           ELSE "failing")
    /\ UNCHANGED <<supervisor, deleg, task>>
    /\ Aside

\* ... then noted as active, and made.
Call(g, d) ==
    /\ Working(g, d, "counted")
    /\ deleg' = [deleg EXCEPT ![d].active = TRUE, ![d].calls = @ + 1]
    /\ Step(g, d, "calling")
    /\ UNCHANGED <<supervisor, budget, task, trace>>
    /\ Aside

\* ... and after it: the progress is saved unless the task has stopped.
Return(g, d) ==
    /\ Working(g, d, "calling")
    /\ \E late \in Lateness, got \in {"evidence", "errors"} :
          /\ Tick(late)
          /\ Step(g, d, IF Bounded(late) THEN "reporting" ELSE "failing")
          /\ deleg' = IF Bounded(late)
                      THEN [deleg EXCEPT ![d].active = FALSE, ![d].progress = got] ELSE deleg
    /\ UNCHANGED <<supervisor, budget, task>>
    /\ Aside

\* A read that needs an approval: the task waits, and the specialist with it.
Park(g, d) ==
    /\ Working(g, d, "calling")
    /\ deleg[d].agent \notin Analysts
    /\ task.status = "RUNNING"
    /\ task' = [task EXCEPT !.status = "WAITING_USER"]
    /\ Step(g, d, "parked")
    /\ deleg' = [deleg EXCEPT ![d].active = FALSE]
    /\ UNCHANGED <<supervisor, budget, trace>>
    /\ Aside

\* contract: without a model call granted the evidence makes it partial.
Report(g, d) ==
    /\ Working(g, d, "reporting")
    /\ \E late \in Lateness, outcome \in {"completed", "partial", "failed"} :
          /\ Tick(late)
          /\ agent' = [agent EXCEPT ![g][d] =
                IF Bounded(late) THEN [pc |-> "finishing", outcome |-> outcome]
                                 ELSE [pc |-> "failing", outcome |-> "failed"]]
          /\ outcome = "failed" <=> deleg[d].progress # "evidence"
          /\ IF ~Bounded(late) THEN UNCHANGED budget
             ELSE \/ /\ Reserve("llm", "model", late)
                     /\ (Refuses("llm", "model", late) => outcome # "completed")
                  \/ deleg[d].agent \in Analysts /\ UNCHANGED budget
    /\ UNCHANGED <<supervisor, deleg, task>>
    /\ Aside

FinishWork(g, d) ==
    /\ Working(g, d, "finishing")
    /\ FinishRun(d, [deleg[d] EXCEPT !.result = agent[g][d].outcome])
    /\ Step(g, d, "back")
    /\ UNCHANGED <<supervisor, budget, task, trace>>
    /\ Aside

\* The except clause of agent_worker.
FailWork(g, d) ==
    /\ Working(g, d, "failing")
    /\ FinishRun(d, [deleg[d] EXCEPT
                       !.result = IF task.status = "CANCELLED" THEN "cancelled"
                                  ELSE IF deleg[d].progress = "evidence" THEN "partial"
                                  ELSE "failed"])
    /\ Step(g, d, "back")
    /\ UNCHANGED <<supervisor, budget, task, trace>>
    /\ Aside

Specialist(g, d) ==
    \/ Enter(g, d) \/ Start(g, d) \/ PlanWork(g, d) \/ Count(g, d) \/ Call(g, d)
    \/ Return(g, d) \/ Park(g, d) \/ Report(g, d) \/ FinishWork(g, d) \/ FailWork(g, d)

-----------------------------------------------------------------------------
(* The action of the plan, the review, and the one round of revisions.      *)

\* supervisor_actions: an action that is not recorded yet is counted.  When the
\* budget refuses it is left, and the draft made of what there is; a call beyond
\* the supervisor's own limit raises.
CountAction(g) ==
    /\ At(g, "actions")
    /\ \/ /\ ~supervisor.due
          /\ NodeEnds(g, To(g, "review")) /\ UNCHANGED <<budget, trace>>
       \/ /\ supervisor.due
          /\ \E late \in Lateness :
                /\ CountCall(late) /\ Tick(late)
                /\ IF Refuses("tools", "model", late) THEN NodeEnds(g, To(g, "review"))
                   ELSE Within(g, To(g, "acting"))
       \/ /\ supervisor.due
          /\ Within(g, To(g, "broken")) /\ UNCHANGED <<budget, trace>>
    /\ UNCHANGED <<supervisor, deleg>>
    /\ Still

\* The action is made and recorded, waits for an approval, or raises; made a
\* second time after a crash, the tool ledger replays it (ToolLedger).
Act(g) ==
    /\ At(g, "acting")
    /\ \/ /\ supervisor' = [supervisor EXCEPT !.due = FALSE]
          /\ Within(g, To(g, "actions")) /\ UNCHANGED task
       \/ /\ task.status = "RUNNING" /\ task' = [task EXCEPT !.status = "WAITING_USER"]
          /\ Within(g, To(g, "waiting")) /\ UNCHANGED supervisor
       \/ Within(g, To(g, "broken")) /\ UNCHANGED <<supervisor, task>>
    /\ UNCHANGED <<deleg, budget, agent, copy, trace>>

\* deterministic_review: work that is not complete, and that no revision made up for.
Repaired == {deleg[d].agent : d \in {e \in OfKind("revision") : deleg[e].result = "completed"}}

Gaps == {deleg[d].agent : d \in {e \in Created \ OfKind("review") :
            Settled(e) /\ deleg[e].result # "completed"}} \ Repaired

Verdict == IF Gaps = {} THEN "pass" ELSE "revise"

\* review_agents: a stored review is kept; a reviewer is asked for at most once.
\* Whether a review may be skipped is the configuration's (MULTI_AGENT_REVIEW_*),
\* and the results' and the budget's: any choice.
Review(g) ==
    /\ At(g, "review")
    /\ \/ /\ supervisor.review # "none"
          /\ NodeEnds(g, [To(g, "redelegate") EXCEPT !.review = supervisor.review])
       \/ supervisor.review = "none" /\ NodeEnds(g, To(g, "redelegate"))
       \/ /\ supervisor.review = "none"
          /\ Within(g, IF OfKind("review") # {} THEN To(g, "reviewing")
                       ELSE [To(g, "asking") EXCEPT !.list = << <<"reviewer", 1>> >>,
                                                    !.made = <<>>, !.kind = "review"])
    /\ UNCHANGED runsVars
    /\ Quiet

\* The verdict of a reviewer that has finished is stored, also when one that has
\* failed was required.
TakeReview(g) ==
    LET d == CHOOSE e \in OfKind("review") : TRUE IN
    /\ At(g, "reviewing") /\ Settled(d)
    /\ supervisor' = [supervisor EXCEPT !.review = deleg[d].verdict]
    /\ \/ NodeEnds(g, [To(g, "redelegate") EXCEPT !.review = deleg[d].verdict])
       \/ deleg[d].result = "failed" /\ Within(g, To(g, "broken"))
    /\ UNCHANGED <<deleg, budget>>
    /\ Quiet

\* The reviewer is started.
StartReview(g) ==
    LET d == CHOOSE e \in OfKind("review") : TRUE IN
    /\ At(g, "reviewing") /\ ~Settled(d)
    /\ IF MayStart(d) THEN StartRun(d) /\ Within(g, To(g, "judging"))
       ELSE /\ FinishRun(d, [deleg[d] EXCEPT !.result = "failed", !.verdict = Verdict])
            /\ Within(g, [To(g, "reviewed") EXCEPT !.review = Verdict])
    /\ UNCHANGED <<supervisor, budget>>
    /\ Quiet

\* The model may add to what the deterministic review found, not take from it.
FinishReview(g) ==
    LET d == CHOOSE e \in OfKind("review") : TRUE IN
    /\ At(g, "judging")
    /\ \E late \in Lateness, ok \in BOOLEAN, verdict \in {"pass", "revise"} :
          /\ Tick(late)
          /\ \/ Reserve("llm", "reviewer", late) /\ (Refuses("llm", "reviewer", late) => ~ok)
             \/ ~ok /\ UNCHANGED budget               \* no iteration is left
          /\ IF ok THEN Verdict = "revise" => verdict = "revise" ELSE verdict = Verdict
          /\ FinishRun(d, [deleg[d] EXCEPT !.result = IF ok THEN "completed" ELSE "failed",
                                           !.verdict = verdict])
          /\ Within(g, [To(g, "reviewed") EXCEPT !.review = verdict])
    /\ UNCHANGED supervisor
    /\ Still

\* MULTI_AGENT_REVIEW_REQUIRED: without a reviewer's own result the node raises.
RequireReview(g) ==
    /\ At(g, "reviewed")
    /\ ~\E d \in OfKind("review") : deleg[d].result = "completed"
    /\ Within(g, To(g, "broken"))
    /\ UNCHANGED runsVars
    /\ Quiet

\* Else, whatever became of the reviewer, a review is stored.
StoreReview(g) ==
    LET review == IF graph[g].review = "none" THEN Verdict ELSE graph[g].review IN
    /\ At(g, "reviewed")
    /\ supervisor' = [supervisor EXCEPT !.review = review]
    /\ NodeEnds(g, [To(g, "redelegate") EXCEPT !.review = review])
    /\ UNCHANGED <<deleg, budget>>
    /\ Quiet

Redelegates(g) == graph[g].review = "revise" /\ graph[g].round = 0

\* redelegate: a stored round is run; else requests for some of the gaps.
Redelegate(g) ==
    /\ At(g, "redelegate")
    /\ \/ ~Redelegates(g) /\ NodeEnds(g, To(g, "complete"))
       \/ /\ Redelegates(g) /\ supervisor.revisions # <<>>
          /\ NodeEnds(g, [To(g, "dispatch") EXCEPT !.groups = supervisor.revisions,
                                                   !.group = 1, !.round = 1])
       \/ /\ Redelegates(g) /\ supervisor.revisions = <<>>
          /\ \E agents \in SUBSET Specialists :
                /\ Cardinality(agents) <= MaxRedelegations
                /\ Within(g, [To(g, "asking") EXCEPT !.made = <<>>, !.kind = "revision",
                                !.list = [i \in 1..Cardinality(agents) |->
                                            <<SetToSeq(agents)[i], 1>>]])
    /\ UNCHANGED runsVars
    /\ Quiet

StoreRevisions(g) ==
    LET none   == graph[g].made = <<>>
        groups == IF none THEN <<>> ELSE GroupsOf(graph[g].list, graph[g].made)
    IN
    /\ At(g, "revised")
    /\ supervisor' = [supervisor EXCEPT !.revisions = groups, !.round = 1]
    /\ NodeEnds(g, [To(g, IF none THEN "complete" ELSE "dispatch")
                       EXCEPT !.groups = groups, !.group = 1, !.round = 1])
    /\ UNCHANGED <<deleg, budget>>
    /\ Quiet

-----------------------------------------------------------------------------
(* The end of the run.                                                      *)

\* orchestration_complete: its transition is refused when the task has moved.
Complete(g) ==
    LET asked == task.cancel \/ task.pause IN
    /\ At(g, "complete")
    /\ task' = [task EXCEPT !.done = @ \union {"orchestrate"},
                  !.status = IF ~asked \/ @ # "RUNNING" THEN @
                             ELSE IF task.cancel THEN "CANCELLED" ELSE "PAUSED"]
    /\ IF asked /\ task.status # "RUNNING" THEN Within(g, To(g, "broken"))
       ELSE NodeEnds(g, [To(g, "final") EXCEPT !.stop = @ \/ asked])
    /\ UNCHANGED <<runsVars, agent, copy, trace>>

\* generator to citation_validator; a stopped run leaves everything as it is.
Finalize(g) ==
    /\ At(g, "final")
    /\ IF graph[g].stop
       THEN NodeEnds(g, To(g, "end")) /\ UNCHANGED <<runsVars, task, trace>>
       ELSE /\ \E late \in Lateness : Reserve("llm", "final", late) /\ Tick(late)
            /\ task' = [task EXCEPT !.done = @ \union {"synthesize"}]
            /\ NodeEnds(g, To(g, "memory"))
            /\ UNCHANGED <<supervisor, deleg>>
    /\ UNCHANGED <<agent, copy>>

\* extract_memory: only the claim's first taker extracts, ...
Remember(g) ==
    /\ At(g, "memory")
    /\ IF task.status = "CANCELLED" \/ supervisor.memory
       THEN NodeEnds(g, To(g, "end")) /\ UNCHANGED runsVars
       ELSE ClaimMemory /\ Within(g, To(g, "extracting"))
    /\ Quiet

\* ... and then settles the supervisor's row.
Extract(g) ==
    /\ At(g, "extracting")
    /\ \E late \in Lateness :
          /\ Reserve("llm", "final", late)
          /\ trace' = [trace EXCEPT !.extractions = @ + 1, !.events = @ + One(late)]
    /\ supervisor' = [supervisor EXCEPT !.status =
                        IF task.status = "CANCELLED" THEN "CANCELLED" ELSE "COMPLETED"]
    /\ NodeEnds(g, To(g, "end"))
    /\ UNCHANGED <<deleg, task, agent, copy>>

GraphStep(g) ==
    \/ Route(g) \/ Charge(g) \/ Plan(g) \/ AskBudget(g) \/ WriteBudgetBack(g) \/ CreateNext(g)
    \/ StorePlan(g) \/ Dispatch(g) \/ Stop(g) \/ Merge(g) \/ CountAction(g) \/ Act(g)
    \/ Review(g) \/ TakeReview(g) \/ StartReview(g) \/ FinishReview(g) \/ RequireReview(g)
    \/ StoreReview(g) \/ Redelegate(g) \/ StoreRevisions(g)
    \/ Complete(g) \/ Finalize(g) \/ Remember(g) \/ Extract(g)
    \/ EndGraph(g) \/ BreakGraph(g)
    \/ \E d \in Ids : Specialist(g, d)

SupNext ==
    \/ \E g \in Runs : Deliver(g) \/ CrashGraph(g) \/ DetachGraph(g) \/ GraphStep(g)
    \/ CancelSupervised \/ PauseSupervised \/ Revoke

SupSpec == SupInit /\ [][SupNext]_supVars

\* A graph that was entered is run by its thread; nothing else need happen.
FairSupSpec == SupSpec /\ \A g \in Runs : WF_supVars(GraphStep(g))

-----------------------------------------------------------------------------
(* Properties.                                                              *)

GraphPC ==
    {"idle", "router", "charging", "plan", "asking", "overwriting", "creating", "planned",
     "dispatch", "agents", "stopping", "actions", "acting", "waiting", "review", "reviewing",
     "judging", "reviewed", "redelegate", "revised", "complete", "final", "memory",
     "extracting", "broken", "end"}

\* The types of the ledger's rows and of the positions of the graphs.
SupTypeOK ==
    /\ deleg \in [Ids -> DelegationRow]
    /\ budget \in BudgetRow
    /\ supervisor.status \in {"NONE", "RUNNING", "CANCELLED", "COMPLETED"}
    /\ task.done \subseteq Steps
    /\ \A g \in Runs : graph[g].pc \in GraphPC

\* The budget counts the rows of the ledger, whoever creates them beside whom,
\* and although an exhausted budget is written back as it was read before: no
\* delegation, review or revision too many, and none that is not counted.
DelegationsAreCounted ==
    /\ budget.delegations = Cardinality(Created)
    /\ budget.reviews = Cardinality(OfKind("review"))
    /\ budget.redelegations = Cardinality(OfKind("revision"))

BudgetIsKept == SupTypeOK /\ DelegationsAreCounted

\* A graph that has gone past a group has the result of every specialist in it,
\* through approvals, crashes, pauses and replays from the stored plan.
NothingIsSkipped ==
    \A g \in Runs : \A k \in 1..Len(graph[g].groups) :
       k < graph[g].group /\ graph[g].pc # "idle" =>
          \A d \in graph[g].groups[k] : Settled(d)

\* The execution of an analyst is made a second time only beside a graph that a
\* timeout has left running: an interrupted one is refused, not replayed.
ExecutionsAreNotReplayed ==
    ~trace.overlap => \A d \in Created : deleg[d].agent \in Analysts => deleg[d].calls <= 1

\* The memory of a run is extracted at most once, by one of its graphs.
MemoryIsExtractedOnce == trace.extractions <= 1

\* A stored result never changes, so a merge never meets two for one delegation.
ResultsAreFinal ==
    [][\A d \in Ids : Settled(d) => deleg'[d].result = deleg[d].result]_supVars

\* A cancelled delegation is written over only beside or after a graph that
\* outlived its timeout, or by a specialist whose sibling waits for an approval:
\* the task that waits is cancelled at once, with the rest of its group at work.
CancelledIsLeftAlone ==
    [][\A d \in Ids : deleg[d].status = "CANCELLED" /\ deleg'[d].status # "CANCELLED"
          => \/ trace.overlap \/ \E g \in Runs : graph[g].detached
             \/ \E g \in Runs, e \in Ids : agent[g][e].pc = "parked"]_supVars

\* Every graph that is entered comes to an end: one round of revisions at most.
GraphsEnd == \A g \in Runs : graph[g].pc # "idle" ~> graph[g].pc = "idle"
=============================================================================
