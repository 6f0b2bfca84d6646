-------------------------- MODULE OrchestrationProofs --------------------------
(***************************************************************************)
(* Theorems about Orchestration and the ledger of AgentRuns, for any plans, *)
(* limits and specialists, and any number of overlapping graph executions.  *)
(* SupInv is about the rows and the budget; FlowInv, on top of it, about how *)
(* graphs flow through the groups of their plan.                            *)
(***************************************************************************)
EXTENDS Orchestration, FiniteSetTheorems, TLAPS

USE RunsAssumption, OrchestrationAssumption

-----------------------------------------------------------------------------
(* The inductive invariant.                                                 *)

Fields ==
    {"pc", "list", "made", "kind", "groups", "group", "review", "round", "stop", "detached"}

\* What a graph, or its checkpoint, knows: delegations that exist, a group of
\* its plan when it works on one, a review when it is about one.
GraphOK(r, created, reviewed) ==
    /\ DOMAIN r = Fields
    /\ r.pc \in GraphPC /\ r.kind \in Kinds
    /\ r.list \in Seq(Agents \X Nat)
    /\ r.made \in Seq(created)
    /\ r.groups \in Seq(SUBSET created)
    /\ r.pc \in {"dispatch", "agents"} => r.group \in 1..Len(r.groups)
    /\ r.pc = "creating" => Len(r.made) < Len(r.list)
    /\ r.pc \in {"reviewing", "judging"} => reviewed
    /\ r.kind = "review" /\ r.made # <<>> => reviewed

Reviewed == OfKind("review") # {}

GraphsOK ==
    /\ DOMAIN graph = Runs
    /\ \A g \in Runs : GraphOK(graph[g], Created, Reviewed)
    /\ GraphOK(saved, Created, Reviewed)

AgentPC ==
    {"out", "sent", "back", "raised", "starting", "planning", "ready", "counted", "calling",
     "parked", "reporting", "finishing", "failing"}

\* Specialists work on delegations that exist.
AgentsOK ==
    /\ agent \in [Runs -> [Ids -> [pc : AgentPC, outcome : Outcomes]]]
    /\ \A g \in Runs, d \in Ids : agent[g][d].pc # "out" => d \in Created

\* The rows of the task and the supervisor, and the history.
SidesOK ==
    /\ DOMAIN task = {"status", "pause", "cancel", "done", "revoking"} /\ task.done \subseteq Steps
    /\ DOMAIN trace = {"events", "extractions", "overlap"}
    /\ DOMAIN supervisor = {"status", "groups", "due", "revisions", "review", "round",
                          "memory"}
    /\ supervisor.status \in {"NONE", "RUNNING", "CANCELLED", "COMPLETED"}
    /\ supervisor.memory \in BOOLEAN
    /\ supervisor.groups \in Seq(SUBSET Created)
    /\ supervisor.revisions \in Seq(SUBSET Created)

RowsOK ==
    deleg \in [Ids -> DelegationRow] /\ budget \in BudgetRow /\ copy \in [Runs -> BudgetRow]

\* Rows are created in order, each of them reserved.
Counted ==
    /\ Created = 1..budget.delegations
    /\ Cardinality(OfKind("review")) = budget.reviews
    /\ Cardinality(OfKind("revision")) = budget.redelegations
    /\ \A d \in Ids : Settled(d) => d \in Created

\* No delegation is granted any more.
Closed == budget.exhausted \/ budget.delegations >= MaxDelegations

\* What is written back counts what there is, for nothing is granted meanwhile.
CopyAgrees(g) ==
    /\ Closed /\ copy[g].exhausted
    /\ copy[g].delegations = budget.delegations
    /\ copy[g].reviews = budget.reviews
    /\ copy[g].redelegations = budget.redelegations

CopiesAgree ==
    /\ saved.pc # "overwriting"
    /\ \A g \in Runs : graph[g].pc = "overwriting" => CopyAgrees(g)

\* The supervisor is created before anything else happens.
StartsOnce ==
    supervisor.status = "NONE" =>
        /\ \A g \in Runs : graph[g].pc \in {"idle", "router"}
        /\ saved.pc \in {"idle", "router"}

\* The claim is taken once, by the one graph that extracts.
ClaimedOnce ==
    /\ trace.extractions \in 0..1 /\ saved.pc # "extracting"
    /\ ~supervisor.memory =>
          trace.extractions = 0 /\ \A g \in Runs : graph[g].pc # "extracting"
    /\ \A g, h \in Runs :
          graph[g].pc = "extracting" =>
              /\ trace.extractions = 0
              /\ graph[h].pc = "extracting" => h = g

SupInv ==
    /\ GraphsOK /\ AgentsOK /\ SidesOK /\ RowsOK
    /\ Counted /\ CopiesAgree /\ StartsOnce /\ ClaimedOnce

-----------------------------------------------------------------------------
(* Graphs and their checkpoints.                                            *)

LEMMA SeqsGrow == ASSUME NEW S, NEW T, S \subseteq T PROVE Seq(S) \subseteq Seq(T)
OBVIOUS

\* What a graph knows stays true when delegations are added.
LEMMA GraphLasts ==
    ASSUME NEW r, NEW c, NEW d, NEW p, NEW q, c \subseteq d, p => q, GraphOK(r, c, p)
    PROVE  GraphOK(r, d, q)
<1>1. r.made \in Seq(c) /\ r.groups \in Seq(SUBSET c)
  BY DEF GraphOK
<1>2. r.made \in Seq(d)
  BY <1>1, SeqsGrow
<1>3. SUBSET c \subseteq SUBSET d
  OBVIOUS
<1>4. r.groups \in Seq(SUBSET d)
  BY <1>1, <1>3, SeqsGrow
<1> QED BY <1>2, <1>4 DEF GraphOK

LEMMA FreshOK == ASSUME NEW c, NEW p PROVE GraphOK(Fresh, c, p) /\ GraphOK(NoGraphRun, c, p)
BY DEF GraphOK, Fields, GraphPC, Fresh, NoGraphRun, Kinds

\* The checkpoint a node leaves.
LEMMA CheckpointOK ==
    ASSUME NEW g, NEW u, NEW c, NEW p, GraphOK(u, c, p), NodeEnds(g, u)
    PROVE  GraphOK(saved', c, p) /\ saved'.pc \in {u.pc, "idle"}
<1>1. CASE u.pc = "end"
  BY <1>1, FreshOK DEF NodeEnds, NoGraphRun, Fresh
<1>2. CASE u.pc # "end"
  BY <1>2 DEF NodeEnds, GraphOK, Fields
<1> QED BY <1>1, <1>2

\* A position that asks nothing of the rest.
Plain == GraphPC \ {"dispatch", "agents", "creating", "reviewing", "judging"}

LEMMA MovedOK ==
    ASSUME NEW g, NEW c, NEW p, GraphOK(graph[g], c, p), NEW pc \in Plain
    PROVE  GraphOK(To(g, pc), c, p) /\ To(g, pc).pc = pc
BY DEF GraphOK, To, Fields, Plain

LEMMA GraphsMove ==
    ASSUME GraphsOK, Created \subseteq Created', Reviewed => Reviewed',
           NEW g \in Runs, NEW u, GraphOK(u, Created', Reviewed'),
           graph' = [graph EXCEPT ![g] = u],
           saved' # saved => GraphOK(saved', Created', Reviewed')
    PROVE  GraphsOK' /\ graph'[g] = u /\ \A h \in Runs \ {g} : graph'[h] = graph[h]
<1>1. DOMAIN graph' = Runs /\ graph'[g] = u /\ \A h \in Runs \ {g} : graph'[h] = graph[h]
  BY DEF GraphsOK
<1>2. \A h \in Runs : GraphOK(graph'[h], Created', Reviewed')
  BY <1>1, GraphLasts DEF GraphsOK
<1>3. GraphOK(saved', Created', Reviewed')
  BY GraphLasts DEF GraphsOK
<1> QED BY <1>1, <1>2, <1>3 DEF GraphsOK

-----------------------------------------------------------------------------
(* The ledger and its budget.                                               *)

\* Whoever spends leaves the counts of a closed budget alone.
BudgetStays ==
    /\ budget' \in BudgetRow
    /\ Closed => /\ Closed'
                 /\ budget'.delegations = budget.delegations /\ budget'.reviews = budget.reviews
                 /\ budget'.redelegations = budget.redelegations

\* ... and one that creates nothing leaves them alone at all times.
CountsStay ==
    /\ budget'.delegations = budget.delegations /\ budget'.reviews = budget.reviews
    /\ budget'.redelegations = budget.redelegations

LEMMA LlmStays ==
    ASSUME RowsOK, NEW kind \in {"llm", "tools"}, NEW phase, NEW late \in BOOLEAN,
           Reserve(kind, phase, late)
    PROVE  BudgetStays /\ CountsStay
<1>1. budget \in BudgetRow
  BY DEF RowsOK
<1>2. CASE Refuses(kind, phase, late)
  BY <1>1, <1>2 DEF Reserve, BudgetRow, BudgetStays, CountsStay, Closed
<1>3. CASE ~Refuses(kind, phase, late)
  <2> DEFINE spent == [budget EXCEPT ![kind] = budget[kind] + 1]
  <2>1. budget[kind] < LimitOf(kind, phase)
    BY <1>1, <1>3 DEF Refuses, LimitOf, BudgetRow
  <2>2. budget[kind] + 1 \in IF kind = "llm" THEN Nat ELSE 0..MaxTools
    <3>1. budget.llm \in Nat /\ budget.tools \in Nat
      BY <1>1 DEF BudgetRow
    <3>2. CASE kind = "llm"
      BY <3>1, <3>2
    <3>3. CASE kind = "tools"
      <4>1. budget.tools < MaxTools
        BY <2>1, <3>3 DEF LimitOf
      <4> QED BY <3>1, <3>3, <4>1
    <3> QED BY <3>2, <3>3
  <2>3. /\ spent \in BudgetRow /\ spent.delegations = budget.delegations
        /\ spent.reviews = budget.reviews /\ spent.redelegations = budget.redelegations
        /\ spent.exhausted = budget.exhausted
    BY <1>1, <2>2 DEF BudgetRow
  <2>4. budget' = [spent EXCEPT !.reviews = spent.reviews + 0,
                                !.redelegations = spent.redelegations + 0]
    BY <1>3 DEF Reserve, One
  <2> HIDE DEF spent
  <2>5. /\ budget' \in BudgetRow /\ budget'.delegations = spent.delegations
        /\ budget'.reviews = spent.reviews /\ budget'.redelegations = spent.redelegations
        /\ budget'.exhausted = spent.exhausted
    <3> DEFINE first == [spent EXCEPT !.reviews = spent.reviews + 0]
    <3>1. /\ first \in BudgetRow /\ first.delegations = spent.delegations
          /\ first.reviews = spent.reviews /\ first.redelegations = spent.redelegations
          /\ first.exhausted = spent.exhausted
      BY <2>3 DEF BudgetRow
    <3>2. budget' = [first EXCEPT !.redelegations = first.redelegations + 0]
      BY <2>3, <2>4, <3>1
    <3> HIDE DEF first
    <3> QED BY <3>1, <3>2 DEF BudgetRow
  <2> QED BY <1>1, <2>3, <2>5 DEF BudgetStays, CountsStay, Closed
<1> QED BY <1>2, <1>3

LEMMA BudgetKept == ASSUME RowsOK, UNCHANGED budget PROVE BudgetStays /\ CountsStay
BY DEF RowsOK, BudgetStays, CountsStay, Closed

\* The rows stand for the same delegations, in whatever state.
RowsStay ==
    /\ deleg' \in [Ids -> DelegationRow]
    /\ \A d \in Ids : /\ deleg[d].status # "NONE" => deleg'[d].status # "NONE"
                      /\ deleg[d].status = "NONE" => deleg'[d] = deleg[d]
                      /\ deleg'[d].kind = deleg[d].kind
                      /\ Settled(d) => deleg'[d].result = deleg[d].result

\* What every step does: the invariant again, and results that are final.
ResultsKept == \A d \in Ids : Settled(d) => deleg'[d].result = deleg[d].result

Keeps == SupInv' /\ ResultsKept

LEMMA RowsStayCounted ==
    ASSUME RowsOK, Counted, RowsStay, CountsStay
    PROVE  /\ Created' = Created /\ Reviewed' = Reviewed /\ Counted' /\ ResultsKept
<1>1. Created' = Created
  BY DEF RowsStay, Created
<1>2. \A kind : OfKind(kind)' = OfKind(kind)
  BY <1>1 DEF RowsStay, OfKind, Created
<1>3. OfKind("review")' = OfKind("review") /\ OfKind("revision")' = OfKind("revision")
  BY <1>2
<1>4. \A d \in Ids : Settled(d)' => d \in Created'
  BY <1>1 DEF RowsStay, Counted, Settled, Created
<1> QED BY <1>1, <1>3, <1>4 DEF Counted, CountsStay, Reviewed, ResultsKept, RowsStay

\* A row of the ledger that is written keeps its kind and stays a delegation.
LEMMA RowWritten ==
    ASSUME RowsOK, NEW d \in Created, NEW row \in DelegationRow, row.kind = deleg[d].kind,
           row.status # "NONE", Settled(d) => row.result = deleg[d].result,
           deleg' = [deleg EXCEPT ![d] = row]
    PROVE  RowsStay
<1>1. d \in Ids /\ deleg[d].status # "NONE"
  BY DEF Created
<1> QED BY <1>1 DEF RowsOK, RowsStay

LEMMA RowsUntouched == ASSUME RowsOK, UNCHANGED deleg PROVE RowsStay
BY DEF RowsOK, RowsStay

-----------------------------------------------------------------------------
(* Steps of a graph, and steps beside it.                                   *)

\* A step of one graph, which creates no delegation and claims nothing.
LEMMA GraphStepKeeps ==
    ASSUME SupInv, NEW g \in Runs, NEW u, GraphOK(u, Created, Reviewed),
           graph' = [graph EXCEPT ![g] = u],
           saved' # saved => /\ GraphOK(saved', Created, Reviewed)
                             /\ saved'.pc \notin {"extracting", "overwriting"},
           u.pc = "extracting" => graph[g].pc = "extracting",
           u.pc = "overwriting" => CopyAgrees(g)',
           \A h \in Runs \ {g} : copy'[h] = copy[h], copy' \in [Runs -> BudgetRow],
           RowsStay, BudgetStays, CountsStay, AgentsOK', SidesOK',
           supervisor'.memory = supervisor.memory,
           supervisor'.status = "NONE" => /\ supervisor.status = "NONE" /\ saved' = saved
                                          /\ u.pc \in {"idle", "router"},
           trace'.extractions = trace.extractions
    PROVE  Keeps
<1>1. Created' = Created /\ Reviewed' = Reviewed /\ Counted' /\ ResultsKept
  BY RowsStayCounted DEF SupInv
<1>2. GraphsOK' /\ graph'[g] = u /\ \A h \in Runs \ {g} : graph'[h] = graph[h]
  BY <1>1, GraphsMove DEF SupInv
<1>3. RowsOK'
  BY DEF SupInv, RowsOK, RowsStay, BudgetStays
<1>4. CopiesAgree'
  BY <1>2 DEF SupInv, CopiesAgree, CopyAgrees, BudgetStays, CountsStay
<1>5. StartsOnce'
  BY <1>2 DEF SupInv, StartsOnce
<1>6. ClaimedOnce'
  BY <1>2 DEF SupInv, ClaimedOnce
<1> QED BY <1>1, <1>2, <1>3, <1>4, <1>5, <1>6 DEF SupInv, Keeps

\* A step that leaves the graphs where they are.
LEMMA AsideKeeps ==
    ASSUME SupInv, UNCHANGED <<graph, saved, copy>>, RowsStay, BudgetStays, CountsStay,
           AgentsOK', SidesOK', supervisor'.memory = supervisor.memory,
           supervisor'.status = "NONE" => supervisor.status = "NONE",
           trace'.extractions = trace.extractions
    PROVE  Keeps
<1>1. Created' = Created /\ Reviewed' = Reviewed /\ Counted' /\ ResultsKept
  BY RowsStayCounted DEF SupInv
<1>2. GraphsOK'
  BY <1>1 DEF SupInv, GraphsOK
<1>3. RowsOK'
  BY DEF SupInv, RowsOK, RowsStay, BudgetStays
<1>4. CopiesAgree'
  BY DEF SupInv, CopiesAgree, CopyAgrees, BudgetStays, CountsStay
<1>5. StartsOnce'
  BY DEF SupInv, StartsOnce
<1>6. ClaimedOnce'
  BY DEF SupInv, ClaimedOnce
<1> QED BY <1>1, <1>2, <1>3, <1>4, <1>5, <1>6 DEF SupInv, Keeps

\* The specialists a graph sends out are those of its group.
LEMMA SentOK ==
    ASSUME NEW u, GraphOK(u, Created, Reviewed)
    PROVE  /\ SentBy(u) \in [Ids -> [pc : AgentPC, outcome : Outcomes]]
           /\ \A d \in Ids : SentBy(u)[d].pc # "out" => d \in Created
<1>1. \A d \in Ids : u.pc = "agents" /\ d \in u.groups[u.group] => d \in Created
  BY DEF GraphOK
<1>2. \A d \in Ids : SentBy(u)[d] = IF u.pc = "agents" /\ d \in u.groups[u.group]
                                    THEN [pc |-> "sent", outcome |-> "failed"] ELSE Out
  BY DEF SentBy, Out
<1>3. SentBy(u) \in [Ids -> [pc : AgentPC, outcome : Outcomes]]
  BY <1>2 DEF SentBy, Out, AgentPC, Outcomes
<1> QED BY <1>1, <1>2, <1>3 DEF Out

LEMMA AgentsSet ==
    ASSUME AgentsOK, Created \subseteq Created', NEW g \in Runs,
           NEW a \in [Ids -> [pc : AgentPC, outcome : Outcomes]],
           \A d \in Ids : a[d].pc # "out" => d \in Created',
           agent' = [agent EXCEPT ![g] = a]
    PROVE  AgentsOK'
BY DEF AgentsOK

LEMMA NobodyOut ==
    /\ [d \in Ids |-> Out] \in [Ids -> [pc : AgentPC, outcome : Outcomes]]
    /\ \A d \in Ids : [x \in Ids |-> Out][d].pc = "out"
BY DEF Out, AgentPC, Outcomes

LEMMA AgentsKept ==
    ASSUME AgentsOK, Created \subseteq Created', UNCHANGED agent PROVE AgentsOK'
BY DEF AgentsOK

\* One specialist goes on.
LEMMA AgentMoves ==
    ASSUME AgentsOK, NEW g \in Runs, NEW d \in Ids, agent[g][d].pc # "out",
           NEW pc \in AgentPC, Step(g, d, pc), Created' = Created
    PROVE  AgentsOK'
<1>1. d \in Created /\ [agent[g][d] EXCEPT !.pc = pc] \in [pc : AgentPC, outcome : Outcomes]
  BY DEF AgentsOK
<1>2. agent' = [agent EXCEPT ![g] = [agent[g] EXCEPT ![d] = [agent[g][d] EXCEPT !.pc = pc]]]
  BY DEF Step
<1> QED BY <1>1, <1>2 DEF AgentsOK

\* The sides are typed by what is set in them.
TaskFollows == task' # task => DOMAIN task' = DOMAIN task /\ task'.done \subseteq Steps

LEMMA SidesKept ==
    ASSUME SidesOK, Created' = Created, UNCHANGED supervisor, TaskFollows,
           DOMAIN trace' = DOMAIN trace
    PROVE  SidesOK'
BY DEF SidesOK, TaskFollows

LEMMA TicksKeep ==
    ASSUME SidesOK, NEW late \in BOOLEAN, Tick(late) \/ UNCHANGED trace
    PROVE  DOMAIN trace' = DOMAIN trace /\ trace'.extractions = trace.extractions
BY DEF SidesOK, Tick

-----------------------------------------------------------------------------
(* The specialists.                                                         *)

LEMMA StartedRow ==
    ASSUME RowsOK, NEW d \in Created, MayStart(d), StartRun(d) PROVE RowsStay
<1>1. d \in Ids /\ deleg[d] \in DelegationRow /\ deleg[d].status # "NONE"
  BY DEF RowsOK, Created
<1>2. CASE Settled(d)
  BY <1>2, RowsUntouched DEF StartRun
<1>3. CASE ~Settled(d)
  <2> DEFINE row == [deleg[d] EXCEPT !.status = "RUNNING"]
             next == [row EXCEPT !.attempts = row.attempts + 1]
  <2>1. row \in DelegationRow /\ row.kind = deleg[d].kind /\ row.status = "RUNNING"
        /\ row.attempts = deleg[d].attempts
    BY <1>1 DEF DelegationRow, RunStatus
  <2>2. row.attempts + 1 \in 0..MaxAttempts
    BY SMTT(30), <1>1, <1>3, <2>1 DEF MayStart, DelegationRow
  <2>3. next \in DelegationRow /\ next.kind = deleg[d].kind /\ next.status = "RUNNING"
    <3> HIDE DEF row
    <3> QED BY <2>1, <2>2 DEF DelegationRow
  <2>4. deleg' = [deleg EXCEPT ![d] = next]
    BY <1>1, <1>3 DEF StartRun, RowsOK
  <2> HIDE DEF next
  <2> QED BY <1>3, <2>3, <2>4, RowWritten
<1> QED BY <1>2, <1>3

LEMMA FinishedRow ==
    ASSUME RowsOK, NEW d \in Created, NEW row \in DelegationRow, row.kind = deleg[d].kind,
           FinishRun(d, row)
    PROVE  RowsStay
<1>1. CASE Settled(d)
  BY <1>1, RowsUntouched DEF FinishRun
<1>2. CASE ~Settled(d)
  <2> DEFINE next == [row EXCEPT !.status = StatusOf(row.result)]
  <2>1. StatusOf(row.result) \in RunStatus \ {"NONE"}
    BY DEF StatusOf, RunStatus
  <2>2. next \in DelegationRow /\ next.kind = deleg[d].kind /\ next.status # "NONE"
    BY <2>1 DEF DelegationRow
  <2> HIDE DEF next
  <2> QED BY <1>2, <2>2, RowWritten DEF FinishRun, next
<1> QED BY <1>1, <1>2

\* A step of one specialist, beside the graph.
LEMMA SpecialistStepKeeps ==
    ASSUME SupInv, NEW g \in Runs, NEW d \in Ids, agent[g][d].pc # "out",
           NEW pc \in AgentPC, Step(g, d, pc),
           UNCHANGED <<supervisor, graph, saved, copy>>, RowsStay, BudgetStays, CountsStay,
           TaskFollows, DOMAIN trace' = DOMAIN trace, trace'.extractions = trace.extractions
    PROVE  Keeps
<1>1. Created' = Created
  BY RowsStayCounted DEF SupInv
<1>2. AgentsOK' /\ SidesOK'
  BY <1>1, AgentMoves, SidesKept DEF SupInv
<1> QED BY <1>2, AsideKeeps

\* The outcome of a specialist is written beside its result.
LEMMA SpecialistKeeps ==
    ASSUME SupInv, NEW g \in Runs, NEW d \in Ids, Specialist(g, d) PROVE Keeps
<1>1. /\ RowsOK /\ SidesOK /\ AgentsOK /\ deleg[d] \in DelegationRow
      /\ agent[g][d] \in [pc : AgentPC, outcome : Outcomes]
      /\ agent[g][d].pc # "out" => d \in Created
  BY DEF SupInv, RowsOK, AgentsOK
<1>2. UNCHANGED budget => BudgetStays /\ CountsStay
  BY <1>1, BudgetKept
<1>3. UNCHANGED deleg => RowsStay
  BY <1>1, RowsUntouched
<1>4. CASE Enter(g, d)
  <2>1. /\ agent[g][d].pc # "out" /\ UNCHANGED <<supervisor, budget, task, trace, graph, saved, copy>>
        /\ \E pc \in AgentPC : Step(g, d, pc)
    BY <1>4 DEF Enter, Working, Aside, AgentPC
  <2>2. UNCHANGED deleg \/ Reuse(d)
    BY <1>4 DEF Enter
  <2>3. RowsStay
    <3>1. CASE Reuse(d)
      <4>1. PICK e \in Cached(d) :
              FinishRun(d, [deleg[d] EXCEPT !.result = deleg[e].result,
                                            !.progress = deleg[e].progress])
        BY <3>1 DEF Reuse
      <4>2. deleg[e] \in DelegationRow
        BY <1>1 DEF Cached, Created, RowsOK
      <4> DEFINE first == [deleg[d] EXCEPT !.result = deleg[e].result]
                 row == [first EXCEPT !.progress = deleg[e].progress]
      <4>3. first \in DelegationRow /\ first.kind = deleg[d].kind
        BY <1>1, <4>2 DEF DelegationRow
      <4>4. row \in DelegationRow /\ row.kind = deleg[d].kind
        <5> HIDE DEF first
        <5> QED BY <4>2, <4>3 DEF DelegationRow
      <4>5. FinishRun(d, row)
        BY <4>1
      <4> HIDE DEF row
      <4> QED BY <1>1, <2>1, <4>4, <4>5, FinishedRow
    <3> QED BY <1>3, <2>2, <3>1
  <2> QED BY <1>1, <1>2, <2>1, <2>3, SpecialistStepKeeps DEF TaskFollows
<1>5. CASE Start(g, d)
  <2>1. /\ agent[g][d].pc # "out" /\ UNCHANGED <<supervisor, budget, task, trace, graph, saved, copy>>
        /\ \E pc \in AgentPC : Step(g, d, pc)
    BY <1>5 DEF Start, Working, Aside, AgentPC
  <2>2. RowsStay
    BY <1>1, <1>3, <1>5, <2>1, StartedRow DEF Start
  <2> QED BY <1>2, <2>1, <2>2, SpecialistStepKeeps DEF TaskFollows
<1>6. CASE PlanWork(g, d)
  <2>1. PICK late \in BOOLEAN, modelled \in BOOLEAN :
          /\ Tick(late) /\ \E pc \in AgentPC : Step(g, d, pc)
          /\ IF Bounded(late) /\ modelled THEN Reserve("llm", "model", late) ELSE UNCHANGED budget
    BY <1>6 DEF PlanWork, Lateness, AgentPC
  <2>2. /\ agent[g][d].pc # "out" /\ UNCHANGED <<supervisor, deleg, task, graph, saved, copy>>
    BY <1>6 DEF PlanWork, Working, Aside
  <2>3. BudgetStays /\ CountsStay
    BY <1>1, <1>2, <2>1, LlmStays
  <2>4. DOMAIN trace' = DOMAIN trace /\ trace'.extractions = trace.extractions
    BY <1>1, <2>1, TicksKeep
  <2> QED BY <1>3, <2>1, <2>2, <2>3, <2>4, SpecialistStepKeeps DEF TaskFollows
<1>7. CASE Count(g, d)
  <2>1. PICK late \in BOOLEAN, tried \in BOOLEAN, pc \in AgentPC :
          /\ Tick(late) /\ Step(g, d, pc)
          /\ IF tried THEN CountCall(late) ELSE UNCHANGED budget
    <3>1. PICK late \in BOOLEAN :
            LET tried == Bounded(late) /\ ~RefusesRerun(d)
            IN /\ Tick(late)
               /\ IF tried THEN CountCall(late) ELSE UNCHANGED budget
               /\ Step(g, d, IF tried /\ ~Refuses("tools", "model", late) THEN "counted"
                             ELSE "failing")
      BY <1>7 DEF Count, Lateness
    <3> DEFINE tried == Bounded(late) /\ ~RefusesRerun(d)
               pc == IF tried /\ ~Refuses("tools", "model", late) THEN "counted" ELSE "failing"
    <3>2. tried \in BOOLEAN /\ pc \in AgentPC
      BY DEF AgentPC
    <3>3. /\ Tick(late) /\ Step(g, d, pc)
          /\ IF tried THEN CountCall(late) ELSE UNCHANGED budget
      BY <3>1
    <3> HIDE DEF tried, pc
    <3> QED BY <3>2, <3>3
  <2>2. agent[g][d].pc # "out" /\ UNCHANGED <<supervisor, deleg, task, graph, saved, copy>>
    BY <1>7 DEF Count, Working, Aside
  <2>3. BudgetStays /\ CountsStay
    BY <1>1, <1>2, <2>1, LlmStays DEF CountCall
  <2>4. DOMAIN trace' = DOMAIN trace /\ trace'.extractions = trace.extractions
    BY <1>1, <2>1, TicksKeep
  <2> QED BY <1>3, <2>1, <2>2, <2>3, <2>4, SpecialistStepKeeps DEF TaskFollows
<1>14. CASE Call(g, d)
  <2>1. /\ agent[g][d].pc # "out" /\ UNCHANGED <<supervisor, budget, task, trace, graph, saved, copy>>
        /\ Step(g, d, "calling") /\ "calling" \in AgentPC
        /\ deleg' = [deleg EXCEPT ![d].active = TRUE, ![d].calls = @ + 1]
    BY <1>14 DEF Call, Working, Aside, AgentPC
  <2> DEFINE first == [deleg[d] EXCEPT !.active = TRUE]
             row == [first EXCEPT !.calls = first.calls + 1]
  <2>2. first \in DelegationRow /\ first.kind = deleg[d].kind
        /\ first.status = deleg[d].status /\ first.result = deleg[d].result
    BY <1>1 DEF DelegationRow
  <2>3. row \in DelegationRow /\ row.kind = deleg[d].kind
        /\ row.status = deleg[d].status /\ row.result = deleg[d].result
    <3>1. first.calls + 1 \in Nat
      BY <2>2 DEF DelegationRow
    <3> HIDE DEF first
    <3> QED BY <2>2, <3>1 DEF DelegationRow
  <2>4. deleg' = [deleg EXCEPT ![d] = row]
    BY <1>1, <2>1 DEF RowsOK
  <2>5. RowsStay
    <3> HIDE DEF row
    <3> QED BY <1>1, <2>1, <2>3, <2>4, RowWritten DEF Created
  <2> QED BY <1>2, <2>1, <2>5, SpecialistStepKeeps DEF TaskFollows
<1>8. CASE Return(g, d)
  <2>1. PICK late \in BOOLEAN, bounded \in BOOLEAN, got \in {"evidence", "errors"} :
          /\ Tick(late) /\ \E pc \in AgentPC : Step(g, d, pc)
          /\ deleg' = IF bounded
                      THEN [deleg EXCEPT ![d].active = FALSE, ![d].progress = got] ELSE deleg
    <3>1. PICK late \in BOOLEAN, got \in {"evidence", "errors"} :
            /\ Tick(late)
            /\ Step(g, d, IF Bounded(late) THEN "reporting" ELSE "failing")
            /\ deleg' = IF Bounded(late)
                        THEN [deleg EXCEPT ![d].active = FALSE, ![d].progress = got] ELSE deleg
      BY <1>8 DEF Return, Lateness
    <3> DEFINE bounded == Bounded(late)
    <3>2. bounded \in BOOLEAN
      BY DEF Bounded
    <3> QED BY <3>1, <3>2 DEF AgentPC
  <2>2. agent[g][d].pc # "out" /\ UNCHANGED <<supervisor, budget, task, graph, saved, copy>>
    BY <1>8 DEF Return, Working, Aside
  <2>3. RowsStay
    <3>1. CASE bounded
      <4> DEFINE first == [deleg[d] EXCEPT !.active = FALSE]
                 row == [first EXCEPT !.progress = got]
      <4>1. first \in DelegationRow /\ first.kind = deleg[d].kind
            /\ first.status = deleg[d].status /\ first.result = deleg[d].result
        BY <1>1 DEF DelegationRow
      <4>2. row \in DelegationRow /\ row.kind = deleg[d].kind
            /\ row.status = deleg[d].status /\ row.result = deleg[d].result
        <5> HIDE DEF first
        <5> QED BY <4>1 DEF DelegationRow
      <4>3. deleg' = [deleg EXCEPT ![d] = row]
        BY <1>1, <2>1, <3>1 DEF RowsOK
      <4> HIDE DEF row
      <4> QED BY <1>1, <2>2, <4>2, <4>3, RowWritten DEF Created
    <3> QED BY <1>3, <2>1, <3>1
  <2>4. DOMAIN trace' = DOMAIN trace /\ trace'.extractions = trace.extractions
    BY <1>1, <2>1, TicksKeep
  <2> QED BY <1>2, <2>1, <2>2, <2>3, <2>4, SpecialistStepKeeps DEF TaskFollows
<1>9. CASE Park(g, d)
  <2>1. /\ agent[g][d].pc # "out" /\ UNCHANGED <<supervisor, budget, trace, graph, saved, copy>>
        /\ Step(g, d, "parked") /\ "parked" \in AgentPC
        /\ deleg' = [deleg EXCEPT ![d].active = FALSE]
    BY <1>9 DEF Park, Working, Aside, AgentPC
  <2>2. TaskFollows
    BY <1>1, <1>9 DEF Park, SidesOK, TaskFollows
  <2> DEFINE row == [deleg[d] EXCEPT !.active = FALSE]
  <2>3. row \in DelegationRow /\ row.kind = deleg[d].kind
        /\ row.status = deleg[d].status /\ row.result = deleg[d].result
    BY <1>1 DEF DelegationRow
  <2>4. deleg' = [deleg EXCEPT ![d] = row]
    BY <2>1
  <2>5. RowsStay
    <3> HIDE DEF row
    <3> QED BY <1>1, <2>1, <2>3, <2>4, RowWritten DEF Created
  <2> QED BY <1>2, <2>1, <2>2, <2>5, SpecialistStepKeeps
<1>10. CASE Report(g, d)
  <2>1. PICK late \in BOOLEAN, a \in [pc : AgentPC, outcome : Outcomes] :
          /\ Tick(late) /\ agent' = [agent EXCEPT ![g] = [agent[g] EXCEPT ![d] = a]]
          /\ UNCHANGED budget \/ Reserve("llm", "model", late)
    <3>1. PICK late \in BOOLEAN, outcome \in {"completed", "partial", "failed"} :
            /\ Tick(late)
            /\ agent' = [agent EXCEPT ![g][d] =
                  IF Bounded(late) THEN [pc |-> "finishing", outcome |-> outcome]
                                   ELSE [pc |-> "failing", outcome |-> "failed"]]
            /\ UNCHANGED budget \/ Reserve("llm", "model", late)
      BY <1>10 DEF Report, Lateness
    <3> DEFINE a == IF Bounded(late) THEN [pc |-> "finishing", outcome |-> outcome]
                                     ELSE [pc |-> "failing", outcome |-> "failed"]
    <3>2. a \in [pc : AgentPC, outcome : Outcomes]
      BY DEF AgentPC, Outcomes
    <3>3. agent' = [agent EXCEPT ![g] = [agent[g] EXCEPT ![d] = a]]
      BY <3>1
    <3> HIDE DEF a
    <3> QED BY <3>1, <3>2, <3>3
  <2>2. agent[g][d].pc # "out" /\ UNCHANGED <<supervisor, deleg, task, graph, saved, copy>>
    BY <1>10 DEF Report, Working, Aside
  <2>3. BudgetStays /\ CountsStay
    BY <1>1, <1>2, <2>1, LlmStays
  <2>4. DOMAIN trace' = DOMAIN trace /\ trace'.extractions = trace.extractions
    BY <1>1, <2>1, TicksKeep
  <2>5. Created' = Created
    BY <2>2 DEF Created
  <2>6. AgentsOK'
    BY <1>1, <2>1, <2>2, <2>5 DEF AgentsOK
  <2>7. SidesOK'
    BY <1>1, <2>2, <2>4, <2>5, SidesKept DEF TaskFollows
  <2> QED BY <1>3, <2>2, <2>3, <2>4, <2>6, <2>7, AsideKeeps
<1>11. ASSUME NEW o \in Outcomes, FinishRun(d, [deleg[d] EXCEPT !.result = o]),
              agent[g][d].pc # "out", Step(g, d, "back"),
              UNCHANGED <<supervisor, budget, task, trace, graph, saved, copy>>
       PROVE  Keeps
  <2> DEFINE row == [deleg[d] EXCEPT !.result = o]
  <2>1. row \in DelegationRow /\ row.kind = deleg[d].kind
    BY <1>1 DEF DelegationRow
  <2>2. FinishRun(d, row)
    BY <1>11
  <2>3. RowsStay
    <3> HIDE DEF row
    <3> QED BY <1>1, <1>11, <2>1, <2>2, FinishedRow
  <2>4. "back" \in AgentPC
    BY DEF AgentPC
  <2> QED BY <1>2, <1>11, <2>3, <2>4, SpecialistStepKeeps DEF TaskFollows
<1>12. CASE FinishWork(g, d)
  BY <1>1, <1>11, <1>12 DEF FinishWork, Working, Aside
<1>13. CASE FailWork(g, d)
  <2>1. PICK o \in Outcomes : FinishRun(d, [deleg[d] EXCEPT !.result = o])
    BY <1>13 DEF FailWork, Outcomes
  <2> QED BY <1>11, <1>13, <2>1 DEF FailWork, Working, Aside
<1> QED
  BY <1>4, <1>5, <1>6, <1>7, <1>8, <1>9, <1>10, <1>12, <1>13, <1>14 DEF Specialist

-----------------------------------------------------------------------------
(* The nodes of a graph.                                                    *)

\* Specialists are sent out, or all called back.
AgentsFollow(g) ==
    \/ UNCHANGED agent
    \/ \E a \in [Ids -> [pc : AgentPC, outcome : Outcomes]] :
          /\ \A d \in Ids : a[d].pc # "out" => d \in Created
          /\ agent' = [agent EXCEPT ![g] = a]

TraceFollows == DOMAIN trace' = DOMAIN trace /\ trace'.extractions = trace.extractions

SupervisorFollows ==
    /\ DOMAIN supervisor' = DOMAIN supervisor
    /\ supervisor'.status = supervisor.status /\ supervisor'.memory = supervisor.memory
    /\ supervisor'.groups \in Seq(SUBSET Created) /\ supervisor'.revisions \in Seq(SUBSET Created)

LEMMA FollowsKeep ==
    ASSUME AgentsOK, SidesOK, Created' = Created, NEW g \in Runs,
           AgentsFollow(g), TaskFollows, TraceFollows, SupervisorFollows
    PROVE  AgentsOK' /\ SidesOK'
<1>1. AgentsOK'
  BY DEF AgentsFollow, AgentsOK
<1>2. SidesOK'
  BY DEF SidesOK, TaskFollows, TraceFollows, SupervisorFollows
<1> QED BY <1>1, <1>2

\* What is left alone follows.
LEMMA StillFollows ==
    ASSUME SidesOK, NEW g \in Runs
    PROVE  /\ UNCHANGED supervisor => SupervisorFollows
           /\ UNCHANGED task => TaskFollows
           /\ UNCHANGED trace => TraceFollows
           /\ UNCHANGED agent => AgentsFollow(g)
           /\ \A late \in BOOLEAN : Tick(late) => TraceFollows
BY DEF SidesOK, SupervisorFollows, TaskFollows, TraceFollows, AgentsFollow, Tick

LEMMA NobodyFollows ==
    ASSUME NEW g \in Runs, agent' = [agent EXCEPT ![g] = [d \in Ids |-> Out]]
    PROVE  AgentsFollow(g)
BY NobodyOut DEF AgentsFollow

\* The rows of the ledger and the budget follow.
LedgerFollows == RowsStay /\ BudgetStays /\ CountsStay

LEMMA LedgerUnchanged == ASSUME RowsOK, UNCHANGED <<deleg, budget>> PROVE LedgerFollows
BY RowsUntouched, BudgetKept DEF LedgerFollows

\* A node that starts past the router ends, or goes on.
LEMMA NodeKeeps ==
    ASSUME SupInv, NEW g \in Runs, graph[g].pc \notin {"idle", "router"},
           NEW u, GraphOK(u, Created, Reviewed), u.pc \notin {"extracting", "overwriting"},
           NodeEnds(g, u) \/ Within(g, u), UNCHANGED copy, LedgerFollows,
           AgentsFollow(g), TaskFollows, TraceFollows, SupervisorFollows
    PROVE  Keeps
<1>1. Created' = Created
  BY RowsStayCounted DEF SupInv, LedgerFollows
<1>2. AgentsOK' /\ SidesOK'
  BY <1>1, FollowsKeep DEF SupInv
<1>3. graph' = [graph EXCEPT ![g] = u]
  BY DEF NodeEnds, Within
<1>4. saved' # saved => GraphOK(saved', Created, Reviewed) /\ saved'.pc \in {u.pc, "idle"}
  BY CheckpointOK DEF Within
<1>5. supervisor'.status # "NONE"
  BY DEF SupInv, StartsOnce, SupervisorFollows
<1>6. copy' \in [Runs -> BudgetRow]
  BY DEF SupInv, RowsOK
<1>7. saved' # saved => GraphOK(saved', Created, Reviewed)
                        /\ saved'.pc \notin {"extracting", "overwriting"}
  BY <1>4
<1> QED
  BY <1>2, <1>3, <1>5, <1>6, <1>7, GraphStepKeeps
     DEF LedgerFollows, TraceFollows, SupervisorFollows

\* What is known of a graph at a node.
LEMMA AtNode ==
    ASSUME SupInv, NEW g \in Runs
    PROVE  /\ GraphOK(graph[g], Created, Reviewed) /\ RowsOK /\ SidesOK /\ AgentsOK
           /\ DOMAIN graph[g] = Fields
BY DEF SupInv, GraphsOK, GraphOK

\* A quiet node that only moves on.
LEMMA QuietNodeKeeps ==
    ASSUME SupInv, NEW g \in Runs, graph[g].pc \notin {"idle", "router"},
           NEW u, GraphOK(u, Created, Reviewed), u.pc \notin {"extracting", "overwriting"},
           NodeEnds(g, u) \/ Within(g, u), UNCHANGED runsVars, Quiet
    PROVE  Keeps
BY AtNode, StillFollows, LedgerUnchanged, NodeKeeps DEF runsVars, Quiet, Still

LEMMA RouteKeeps == ASSUME SupInv, NEW g \in Runs, Route(g) PROVE Keeps
<1> DEFINE u == To(g, "charging")
<1>1. GraphOK(u, Created, Reviewed) /\ u.pc = "charging"
  BY AtNode, MovedOK DEF Plain, GraphPC
<1>2. /\ graph' = [graph EXCEPT ![g] = u] /\ saved' = saved
      /\ UNCHANGED <<task, agent, copy, trace, deleg, budget>>
  BY DEF Route, Within, Quiet, Still, CreateSupervisor
<1>3. /\ supervisor'.status \in {"RUNNING", "CANCELLED", "COMPLETED"}
      /\ DOMAIN supervisor' = DOMAIN supervisor
      /\ \A x \in DOMAIN supervisor \ {"status"} : supervisor'[x] = supervisor[x]
  BY AtNode DEF Route, CreateSupervisor, SidesOK
<1>4. LedgerFollows
  BY <1>2, AtNode, LedgerUnchanged
<1>5. AgentsOK' /\ SidesOK' /\ supervisor'.memory = supervisor.memory
  BY <1>2, <1>3, AtNode DEF AgentsOK, SidesOK, Created
<1>6. copy' \in [Runs -> BudgetRow] /\ copy' = copy
  BY <1>2, AtNode DEF RowsOK
<1> HIDE DEF u
<1> QED BY <1>1, <1>2, <1>3, <1>4, <1>5, <1>6, GraphStepKeeps DEF LedgerFollows

\* Calls made beforehand change no count of delegations.
LEMMA ChargeStays ==
    ASSUME RowsOK, NEW calls \in PreCalls, RecordPreOrchestrationCalls(calls)
    PROVE  BudgetStays /\ CountsStay
<1> DEFINE over == budget.exhausted \/ budget.llm + calls >= MaxLlm
           first == [budget EXCEPT !.llm = budget.llm + calls]
           b == [first EXCEPT !.exhausted = over]
<1>1. budget \in BudgetRow /\ calls \in Nat /\ over \in BOOLEAN
  BY DEF RowsOK, BudgetRow
<1>2. budget.llm + calls \in Nat
  BY <1>1 DEF BudgetRow
<1>3. budget' = b
  BY <1>1 DEF RecordPreOrchestrationCalls, BudgetRow
<1>4. /\ first \in BudgetRow /\ first.delegations = budget.delegations
      /\ first.reviews = budget.reviews /\ first.redelegations = budget.redelegations
  BY <1>1, <1>2 DEF BudgetRow
<1>5. budget.exhausted => over
  OBVIOUS
<1> HIDE DEF first, over
<1>6. /\ b \in BudgetRow /\ b.delegations = budget.delegations /\ b.exhausted = over
      /\ b.reviews = budget.reviews /\ b.redelegations = budget.redelegations
  BY <1>1, <1>4 DEF BudgetRow
<1> HIDE DEF b
<1> QED BY <1>3, <1>5, <1>6 DEF BudgetStays, CountsStay, Closed

LEMMA ChargeKeeps == ASSUME SupInv, NEW g \in Runs, Charge(g) PROVE Keeps
<1>1. /\ RowsOK /\ SidesOK /\ graph[g].pc = "charging" /\ NodeEnds(g, To(g, "plan"))
      /\ UNCHANGED <<supervisor, deleg, task, agent, copy, trace>>
  BY AtNode DEF Charge, At, Quiet, Still, RecordPreOrchestrationCalls
<1>2. GraphOK(To(g, "plan"), Created, Reviewed) /\ To(g, "plan").pc = "plan"
  BY AtNode, MovedOK DEF Plain, GraphPC
<1>3. BudgetStays /\ CountsStay
  BY <1>1, ChargeStays DEF Charge
<1>4. LedgerFollows
  BY <1>1, <1>3, RowsUntouched DEF LedgerFollows
<1>5. TaskFollows /\ TraceFollows /\ SupervisorFollows /\ AgentsFollow(g)
  BY <1>1, StillFollows
<1> QED BY <1>1, <1>2, <1>4, <1>5, NodeKeeps

LEMMA PlanKeeps == ASSUME SupInv, NEW g \in Runs, Plan(g) PROVE Keeps
<1>1. GraphOK(graph[g], Created, Reviewed) /\ RowsOK /\ SidesOK
  BY AtNode
<1>2. graph[g].pc = "plan" /\ UNCHANGED <<task, agent, copy>>
  BY DEF Plan, At, Still
<1>3. CASE supervisor.groups # <<>>
  <2> DEFINE u == [To(g, "dispatch") EXCEPT !.groups = supervisor.groups, !.group = 1,
                                            !.round = supervisor.round]
  <2>1. NodeEnds(g, u) /\ UNCHANGED runsVars /\ Quiet
    BY <1>3 DEF Plan, Quiet
  <2>2. supervisor.groups \in Seq(SUBSET Created) /\ 1 \in 1..Len(supervisor.groups)
    BY <1>1, <1>3 DEF SidesOK
  <2>3. GraphOK(u, Created, Reviewed) /\ u.pc = "dispatch"
    BY <1>1, <2>2 DEF GraphOK, Fields, GraphPC, To
  <2> HIDE DEF u
  <2> QED BY <1>2, <2>1, <2>3, QuietNodeKeeps
<1>4. CASE supervisor.groups = <<>>
  <2>1. PICK plan \in Plans :
          Within(g, [To(g, "asking") EXCEPT !.list = plan, !.made = <<>>, !.kind = "work"])
    BY <1>4 DEF Plan
  <2> DEFINE u == [To(g, "asking") EXCEPT !.list = plan, !.made = <<>>, !.kind = "work"]
  <2>2. plan \in Seq(Agents \X Nat)
    <3>1. Specialists \X {1, 2} \subseteq Agents \X Nat
      BY DEF Agents
    <3> QED BY <3>1, SeqsGrow
  <2>3. GraphOK(u, Created, Reviewed) /\ u.pc = "asking"
    BY <1>1, <2>2 DEF GraphOK, Fields, GraphPC, To, Kinds
  <2>4. /\ UNCHANGED <<supervisor, deleg>>
        /\ \/ UNCHANGED <<budget, trace>>
           \/ \E late \in BOOLEAN : Reserve("llm", "model", late) /\ Tick(late)
    BY <1>4 DEF Plan, Lateness
  <2>5. LedgerFollows /\ TraceFollows
    BY <1>1, <2>4, LlmStays, LedgerUnchanged, RowsUntouched, StillFollows DEF LedgerFollows
  <2>6. TaskFollows /\ SupervisorFollows /\ AgentsFollow(g)
    BY <1>1, <1>2, <2>4, StillFollows
  <2>7. Within(g, u)
    BY <2>1
  <2> HIDE DEF u
  <2> QED BY <1>2, <2>3, <2>5, <2>6, <2>7, NodeKeeps
<1> QED BY <1>3, <1>4

\* Where a list of requests ends.
LEMMA ListEndOK ==
    ASSUME NEW g, GraphOK(graph[g], Created, Reviewed)
    PROVE  /\ GraphOK(To(g, ListEnd(g)), Created, Reviewed)
           /\ To(g, ListEnd(g)).pc = ListEnd(g)
           /\ ListEnd(g) \in {"planned", "revised", "reviewed", "reviewing"}
BY DEF GraphOK, To, Fields, ListEnd, GraphPC, Kinds

LEMMA AskBudgetKeeps == ASSUME SupInv, NEW g \in Runs, AskBudget(g) PROVE Keeps
<1>1. GraphOK(graph[g], Created, Reviewed) /\ RowsOK /\ SidesOK /\ AgentsOK
  BY AtNode
<1> DEFINE over == budget.exhausted \/ budget.delegations >= MaxDelegations
           u == To(g, IF ~Unmade(g) THEN ListEnd(g) ELSE IF over THEN "overwriting" ELSE "creating")
<1>2. /\ graph[g].pc = "asking" /\ UNCHANGED <<runsVars, task, agent, trace>> /\ Within(g, u)
      /\ copy' = IF Unmade(g) /\ over
                 THEN [copy EXCEPT ![g] = [budget EXCEPT !.exhausted = TRUE]] ELSE copy
  BY DEF AskBudget, At
<1>3. /\ GraphOK(u, Created, Reviewed)
      /\ u.pc \in {"planned", "revised", "reviewed", "reviewing", "overwriting", "creating"}
      /\ u.pc = "overwriting" => Unmade(g) /\ over
  <2>1. CASE ~Unmade(g)
    BY <1>1, <2>1, ListEndOK
  <2>2. CASE Unmade(g) /\ over
    BY <1>1, <2>2, MovedOK DEF Plain, GraphPC
  <2>3. CASE Unmade(g) /\ ~over
    BY <1>1, <2>3 DEF GraphOK, To, Fields, GraphPC, Unmade
  <2> QED BY <2>1, <2>2, <2>3
<1>4. LedgerFollows /\ TraceFollows /\ TaskFollows /\ SupervisorFollows /\ AgentsFollow(g)
  BY <1>1, <1>2, LedgerUnchanged, StillFollows DEF runsVars
<1>5. AgentsOK' /\ SidesOK'
  BY <1>1, <1>2, <1>4, FollowsKeep DEF runsVars, Created
<1>6. /\ copy' \in [Runs -> BudgetRow] /\ \A h \in Runs \ {g} : copy'[h] = copy[h]
      /\ Unmade(g) /\ over => CopyAgrees(g)'
  <2>1. budget \in BudgetRow /\ copy \in [Runs -> BudgetRow] /\ UNCHANGED budget
    BY <1>1, <1>2 DEF RowsOK, runsVars
  <2> DEFINE b == [budget EXCEPT !.exhausted = TRUE]
  <2>2. b \in BudgetRow /\ b.exhausted /\ b.delegations = budget.delegations
        /\ b.reviews = budget.reviews /\ b.redelegations = budget.redelegations
    BY <2>1 DEF BudgetRow
  <2>3. copy' = IF Unmade(g) /\ over THEN [copy EXCEPT ![g] = b] ELSE copy
    BY <1>2
  <2> HIDE DEF b
  <2> QED BY <2>1, <2>2, <2>3 DEF CopyAgrees, Closed
<1>7. supervisor'.status # "NONE" /\ supervisor'.memory = supervisor.memory
  BY <1>2 DEF SupInv, StartsOnce, runsVars
<1>8. graph' = [graph EXCEPT ![g] = u] /\ saved' = saved
  BY <1>2 DEF Within
<1> HIDE DEF u, over
<1> QED
  BY <1>3, <1>4, <1>5, <1>6, <1>7, <1>8, GraphStepKeeps DEF LedgerFollows, TraceFollows

LEMMA WriteBudgetBackKeeps == ASSUME SupInv, NEW g \in Runs, WriteBudgetBack(g) PROVE Keeps
<1>1. GraphOK(graph[g], Created, Reviewed) /\ RowsOK /\ SidesOK /\ AgentsOK
  BY AtNode
<1> DEFINE u == To(g, ListEnd(g))
<1>2. /\ graph[g].pc = "overwriting" /\ UNCHANGED <<supervisor, deleg, task, agent, trace>>
      /\ Within(g, u) /\ budget' = copy[g] /\ copy' = [copy EXCEPT ![g] = FreshBudget]
  BY DEF WriteBudgetBack, At
<1>3. /\ GraphOK(u, Created, Reviewed)
      /\ u.pc \in {"planned", "revised", "reviewed", "reviewing"}
  BY <1>1, ListEndOK
<1>4. CopyAgrees(g)
  BY <1>2 DEF SupInv, CopiesAgree
<1>5. copy[g] \in BudgetRow /\ FreshBudget \in BudgetRow
  BY <1>1 DEF RowsOK, BudgetRow, FreshBudget
<1>6. LedgerFollows
  BY <1>1, <1>2, <1>4, <1>5, RowsUntouched
     DEF LedgerFollows, BudgetStays, CountsStay, CopyAgrees, Closed
<1>7. TraceFollows /\ TaskFollows /\ SupervisorFollows /\ AgentsFollow(g)
  BY <1>1, <1>2, StillFollows
<1>8. AgentsOK' /\ SidesOK'
  BY <1>1, <1>2, <1>7, FollowsKeep DEF Created
<1>9. copy' \in [Runs -> BudgetRow] /\ \A h \in Runs \ {g} : copy'[h] = copy[h]
  BY <1>1, <1>2, <1>5 DEF RowsOK
<1>10. supervisor'.status # "NONE" /\ supervisor'.memory = supervisor.memory
  BY <1>2 DEF SupInv, StartsOnce
<1>11. graph' = [graph EXCEPT ![g] = u] /\ saved' = saved
  BY <1>2 DEF Within
<1> HIDE DEF u
<1> QED
  BY <1>3, <1>6, <1>7, <1>8, <1>9, <1>10, <1>11, GraphStepKeeps DEF LedgerFollows, TraceFollows

\* The groups of a list, none if nothing was made.
LEMMA GroupsOfOK ==
    ASSUME NEW list, NEW made \in Seq(Created)
    PROVE  GroupsOf(list, made) \in Seq(SUBSET Created) /\ Len(GroupsOf(list, made)) >= 1
<1> DEFINE members(k) == {made[i] : i \in {j \in 1..Len(made) : list[j][2] = k}}
<1>1. members(1) \in SUBSET Created /\ members(2) \in SUBSET Created
  OBVIOUS
<1>2. \/ GroupsOf(list, made) = <<members(1)>>
      \/ GroupsOf(list, made) = <<members(2)>>
      \/ GroupsOf(list, made) = <<members(1), members(2)>>
  BY DEF GroupsOf
<1>3. ASSUME NEW k \in SUBSET Created, NEW m \in SUBSET Created
      PROVE  /\ <<k>> \in Seq(SUBSET Created) /\ Len(<<k>>) >= 1
             /\ <<k, m>> \in Seq(SUBSET Created) /\ Len(<<k, m>>) >= 1
  OBVIOUS
<1> HIDE DEF members
<1> QED BY <1>1, <1>2, <1>3

LEMMA StorePlanKeeps == ASSUME SupInv, NEW g \in Runs, StorePlan(g) PROVE Keeps
<1>1. GraphOK(graph[g], Created, Reviewed) /\ RowsOK /\ SidesOK
  BY AtNode
<1> DEFINE groups == GroupsOf(graph[g].list, graph[g].made)
           u == [To(g, "dispatch") EXCEPT !.groups = groups, !.group = 1, !.round = 0]
<1>2. /\ graph[g].pc = "planned" /\ UNCHANGED <<deleg, budget, task, agent, copy, trace>>
      /\ NodeEnds(g, u)
      /\ \E due : supervisor' = [supervisor EXCEPT !.groups = groups, !.due = due]
  BY DEF StorePlan, At, Quiet, Still
<1>3. groups \in Seq(SUBSET Created) /\ 1 \in 1..Len(groups)
  BY <1>1, GroupsOfOK DEF GraphOK
<1> HIDE DEF groups
<1>4. GraphOK(u, Created, Reviewed) /\ u.pc = "dispatch"
  BY <1>1, <1>3 DEF GraphOK, Fields, GraphPC, To
<1>5. SupervisorFollows
  BY <1>1, <1>2, <1>3 DEF SupervisorFollows, SidesOK
<1>6. LedgerFollows /\ TraceFollows /\ TaskFollows /\ AgentsFollow(g)
  BY <1>1, <1>2, LedgerUnchanged, StillFollows
<1> HIDE DEF u
<1> QED BY <1>2, <1>4, <1>5, <1>6, NodeKeeps

LEMMA DispatchKeeps == ASSUME SupInv, NEW g \in Runs, Dispatch(g) PROVE Keeps
<1>1. GraphOK(graph[g], Created, Reviewed) /\ RowsOK /\ SidesOK
  BY AtNode
<1>2. PICK u : /\ u \in {To(g, "agents"), [To(g, "stopping") EXCEPT !.stop = FALSE],
                        [To(g, "stopping") EXCEPT !.stop = TRUE]}
               /\ NodeEnds(g, u) /\ agent' = [agent EXCEPT ![g] = SentBy(u)]
  BY DEF Dispatch
<1>3. graph[g].pc = "dispatch" /\ UNCHANGED <<runsVars, task, copy, trace>>
  BY DEF Dispatch, At
<1>4. GraphOK(u, Created, Reviewed) /\ u.pc \in {"agents", "stopping"}
  BY <1>1, <1>2, <1>3 DEF GraphOK, Fields, GraphPC, To
<1>5. AgentsFollow(g)
  BY <1>2, <1>4, SentOK DEF AgentsFollow
<1>6. LedgerFollows /\ TraceFollows /\ TaskFollows /\ SupervisorFollows
  BY <1>1, <1>3, LedgerUnchanged, StillFollows DEF runsVars
<1> QED BY <1>2, <1>3, <1>4, <1>5, <1>6, NodeKeeps

LEMMA StopKeeps == ASSUME SupInv, NEW g \in Runs, Stop(g) PROVE Keeps
<1>1. PICK u \in {To(g, "complete"), [To(g, "final") EXCEPT !.stop = TRUE]} : NodeEnds(g, u)
  BY DEF Stop
<1>2. GraphOK(u, Created, Reviewed) /\ u.pc \in {"complete", "final"}
  BY AtNode DEF GraphOK, Fields, GraphPC, To
<1> QED BY <1>1, <1>2, QuietNodeKeeps DEF Stop, At

LEMMA MergeKeeps == ASSUME SupInv, NEW g \in Runs, Merge(g) PROVE Keeps
<1>1. GraphOK(graph[g], Created, Reviewed) /\ RowsOK /\ SidesOK
  BY AtNode
<1>2. /\ graph[g].pc = "agents" /\ UNCHANGED <<runsVars, copy, trace>>
      /\ agent' = [agent EXCEPT ![g] = [d \in Ids |-> Out]]
      /\ \E turned : task' = [task EXCEPT !.status = turned]
  BY DEF Merge, At
<1>3. PICK next \in {"stopping", "dispatch", "actions"}, stop \in BOOLEAN :
        /\ NodeEnds(g, [To(g, next) EXCEPT !.group = graph[g].group + 1, !.stop = stop])
        /\ next = "dispatch" => graph[g].group < Len(graph[g].groups)
  <2> DEFINE turned == IF task.status # "RUNNING" THEN task.status
                       ELSE IF task.cancel THEN "CANCELLED"
                       ELSE IF task.pause THEN "PAUSED" ELSE "RUNNING"
             stop == turned \notin {"RUNNING", "WAITING_USER"}
             next == IF stop THEN "stopping"
                     ELSE IF graph[g].group < Len(graph[g].groups) THEN "dispatch" ELSE "actions"
  <2>1. NodeEnds(g, [To(g, next) EXCEPT !.group = @ + 1, !.stop = stop])
    BY DEF Merge
  <2>2. To(g, next).group = graph[g].group /\ DOMAIN To(g, next) = DOMAIN graph[g]
    BY AtNode DEF To, Fields
  <2>3. stop \in BOOLEAN
    OBVIOUS
  <2> HIDE DEF turned, stop
  <2> QED BY <2>1, <2>2, <2>3
<1> DEFINE u == [To(g, next) EXCEPT !.group = graph[g].group + 1, !.stop = stop]
<1>4. GraphOK(u, Created, Reviewed) /\ u.pc = next
  <2>1. graph[g].group \in 1..Len(graph[g].groups) /\ Len(graph[g].groups) \in Nat
    BY <1>1, <1>2 DEF GraphOK
  <2>2. next = "dispatch" => graph[g].group + 1 \in 1..Len(graph[g].groups)
    <3>1. \A n \in Nat : \A k \in 1..n : k < n => k + 1 \in 1..n
      OBVIOUS
    <3> QED BY <1>3, <2>1, <3>1
  <2> QED BY <1>1, <2>2 DEF GraphOK, Fields, GraphPC, To
<1>5. TaskFollows
  BY <1>1, <1>2 DEF TaskFollows, SidesOK
<1>6. LedgerFollows /\ TraceFollows /\ SupervisorFollows /\ AgentsFollow(g)
  BY <1>1, <1>2, LedgerUnchanged, StillFollows, NobodyFollows DEF runsVars
<1>7. NodeEnds(g, u)
  BY <1>3
<1> HIDE DEF u
<1> QED BY <1>2, <1>4, <1>5, <1>6, <1>7, NodeKeeps

-----------------------------------------------------------------------------
(* A delegation is created.                                                 *)

\* A reservation that is refused closes the budget, one that is granted counts.
LEMMA ReservedOK ==
    ASSUME RowsOK, NEW kind \in Kinds, NEW late \in BOOLEAN, Reserve("delegations", kind, late)
    PROVE  /\ budget' \in BudgetRow
           /\ Refuses("delegations", kind, late) => BudgetStays /\ CountsStay
           /\ ~Refuses("delegations", kind, late) =>
                 /\ ~Closed
                 /\ budget'.delegations = budget.delegations + 1
                 /\ budget'.reviews = budget.reviews + One(kind = "review")
                 /\ budget'.redelegations = budget.redelegations + One(kind = "revision")
<1>1. budget \in BudgetRow
  BY DEF RowsOK
<1>2. CASE Refuses("delegations", kind, late)
  BY <1>1, <1>2 DEF Reserve, BudgetRow, BudgetStays, CountsStay, Closed
<1>3. CASE ~Refuses("delegations", kind, late)
  <2> DEFINE m == budget.reviews + One(kind = "review")
             n == budget.redelegations + One(kind = "revision")
             one == [budget EXCEPT !.delegations = budget.delegations + 1]
             two == [one EXCEPT !.reviews = m]
  <2>1. ~budget.exhausted /\ budget.delegations < MaxDelegations
    BY <1>1, <1>3 DEF Refuses, LimitOf, BudgetRow, Kinds
  <2>2. m \in 0..MaxReviews /\ n \in 0..MaxRedelegations
    BY <1>1, <1>3 DEF Refuses, BudgetRow, Kinds, One
  <2>3. /\ one \in BudgetRow /\ one.delegations = budget.delegations + 1
        /\ one.reviews = budget.reviews /\ one.redelegations = budget.redelegations
    <3>1. budget.delegations + 1 \in 0..MaxDelegations
      BY <1>1, <2>1 DEF BudgetRow
    <3> QED BY <1>1, <3>1 DEF BudgetRow
  <2>4. budget' = [budget EXCEPT !.delegations = budget.delegations + 1,
                                 !.reviews = m, !.redelegations = n]
    BY <1>1, <1>3 DEF Reserve, BudgetRow
  <2> HIDE DEF m, n
  <2>5. two \in BudgetRow /\ two.delegations = one.delegations
        /\ two.reviews = m /\ two.redelegations = one.redelegations
    <3> HIDE DEF one
    <3> QED BY <2>2, <2>3 DEF BudgetRow
  <2>6. budget' = [two EXCEPT !.redelegations = n]
    BY <2>4
  <2> HIDE DEF two
  <2>7. budget' \in BudgetRow /\ budget'.delegations = two.delegations
        /\ budget'.reviews = m /\ budget'.redelegations = n
    BY <2>2, <2>5, <2>6 DEF BudgetRow
  <2>8. ~Closed
    BY <1>1, <2>1 DEF Closed, BudgetRow
  <2> QED BY <1>3, <2>3, <2>5, <2>7, <2>8 DEF m, n
<1> QED BY <1>2, <1>3

\* The row is the next of the ledger, the first of its kind that is not counted.
LEMMA AddedOK ==
    ASSUME RowsOK, Counted, NEW kind \in Kinds, NEW who \in Agents, NEW late \in BOOLEAN,
           CreateDelegation(kind, who, late), ~Refuses("delegations", kind, late)
    PROVE  LET n == Cardinality(Created) + 1 IN
           /\ n \in Ids /\ Created' = Created \union {n} /\ n \in OfKind(kind)'
           /\ Reviewed => Reviewed'
           /\ deleg' \in [Ids -> DelegationRow] /\ Counted' /\ ResultsKept
<1> DEFINE n == Cardinality(Created) + 1
           row == [NoDelegation EXCEPT !.status = "PENDING", !.kind = kind, !.agent = who]
<1>1. budget \in BudgetRow /\ deleg \in [Ids -> DelegationRow] /\ Created = 1..budget.delegations
  BY DEF RowsOK, Counted
<1>2. /\ budget' \in BudgetRow /\ ~Closed
      /\ budget'.delegations = budget.delegations + 1
      /\ budget'.reviews = budget.reviews + One(kind = "review")
      /\ budget'.redelegations = budget.redelegations + One(kind = "revision")
  BY ReservedOK DEF CreateDelegation
<1>3. n = budget.delegations + 1 /\ n \in Ids /\ n \notin Created
  <2>1. Cardinality(Created) = budget.delegations
    <3>1. budget.delegations \in Nat
      BY <1>1 DEF BudgetRow
    <3>2. Cardinality(1..budget.delegations) = budget.delegations
      BY <3>1, FS_Interval
    <3> QED BY <1>1, <3>2
  <2> QED BY <1>1, <1>2, <2>1 DEF BudgetRow, Closed, Ids
<1>4. row \in DelegationRow /\ row.status = "PENDING" /\ row.kind = kind /\ row.result = "none"
  <2> DEFINE one == [NoDelegation EXCEPT !.status = "PENDING"]
             two == [one EXCEPT !.kind = kind]
  <2>1. NoDelegation \in DelegationRow /\ NoDelegation.result = "none"
    BY DEF NoDelegation, DelegationRow, RunStatus, Kinds, Verdicts, Agents
  <2>2. one \in DelegationRow /\ one.status = "PENDING" /\ one.result = "none"
    BY <2>1 DEF DelegationRow, RunStatus
  <2>3. two \in DelegationRow /\ two.status = "PENDING" /\ two.kind = kind /\ two.result = "none"
    <3> HIDE DEF one
    <3> QED BY <2>2 DEF DelegationRow
  <2>4. row = [two EXCEPT !.agent = who]
    OBVIOUS
  <2> HIDE DEF two, row
  <2> QED BY <2>3, <2>4 DEF DelegationRow
<1>5. deleg' = [deleg EXCEPT ![n] = row]
  BY DEF CreateDelegation
<1> HIDE DEF n, row
<1>6. /\ deleg' \in [Ids -> DelegationRow] /\ deleg'[n] = row
      /\ \A d \in Ids \ {n} : deleg'[d] = deleg[d]
  BY <1>1, <1>3, <1>4, <1>5
<1>7. Created' = Created \union {n}
  BY <1>3, <1>4, <1>6 DEF Created
<1>8. \A k : OfKind(k)' = IF k = kind THEN OfKind(k) \union {n} ELSE OfKind(k)
  <2> TAKE k
  <2>1. OfKind(k)' = {d \in Created \union {n} : deleg'[d].kind = k}
    BY <1>7 DEF OfKind
  <2>2. \A d \in Created : deleg'[d].kind = deleg[d].kind
    BY <1>3, <1>6 DEF Created
  <2>3. deleg'[n].kind = kind
    BY <1>4, <1>6
  <2> QED BY <2>1, <2>2, <2>3 DEF OfKind
<1>9. \A k : /\ IsFiniteSet(OfKind(k)) /\ n \notin OfKind(k)
             /\ Cardinality(OfKind(k)') = Cardinality(OfKind(k)) + One(k = kind)
  <2>1. IsFiniteSet(Created)
    <3>1. budget.delegations \in Int
      BY <1>1 DEF BudgetRow
    <3>2. IsFiniteSet(1..budget.delegations)
      BY <3>1, FS_Interval
    <3> QED BY <1>1, <3>2
  <2> TAKE k
  <2>2. OfKind(k) \in SUBSET Created
    BY DEF OfKind
  <2>3. IsFiniteSet(OfKind(k)) /\ n \notin OfKind(k)
    BY <1>3, <2>1, <2>2, FS_Subset
  <2>4. /\ Cardinality(OfKind(k) \union {n}) = Cardinality(OfKind(k)) + 1
        /\ Cardinality(OfKind(k)) \in Nat
    BY <2>3, FS_AddElement, FS_CardinalityType
  <2>5. OfKind(k)' = IF k = kind THEN OfKind(k) \union {n} ELSE OfKind(k)
    BY <1>8
  <2> QED BY <2>3, <2>4, <2>5 DEF One
<1>10. Created' = 1..budget'.delegations
  BY <1>1, <1>2, <1>3, <1>7 DEF BudgetRow
<1>11. /\ Cardinality(OfKind("review")') = budget'.reviews
       /\ Cardinality(OfKind("revision")') = budget'.redelegations
  BY <1>2, <1>9 DEF Counted, One
<1>12. \A d \in Ids : Settled(d)' => d \in Created'
  BY <1>4, <1>6, <1>7 DEF Counted, Settled
<1>13. ResultsKept
  BY <1>3, <1>6 DEF Counted, ResultsKept
<1>14. Counted'
  BY <1>10, <1>11, <1>12 DEF Counted
<1>15. n \in OfKind(kind)' /\ (Reviewed => Reviewed')
  BY <1>8 DEF Reviewed
<1> QED BY <1>3, <1>6, <1>7, <1>13, <1>14, <1>15 DEF n

LEMMA CreateNextKeeps == ASSUME SupInv, NEW g \in Runs, CreateNext(g) PROVE Keeps
<1>1. GraphOK(graph[g], Created, Reviewed) /\ RowsOK /\ SidesOK /\ AgentsOK
  BY AtNode
<1> DEFINE entry == graph[g].list[Len(graph[g].made) + 1]
           first == ~\E d \in Created : Settled(d) /\ deleg[d].agent = entry[1]
           asked == IF graph[g].kind = "revision" /\ first THEN "work" ELSE graph[g].kind
           end == To(g, ListEnd(g))
<1>2. graph[g].pc = "creating" /\ UNCHANGED <<task, agent, copy>>
  BY DEF CreateNext, At, Still
<1>3. PICK kind \in Kinds, who \in Agents : kind = asked /\ who = entry[1]
  <2>1. graph[g].list \in Seq(Agents \X Nat) /\ Len(graph[g].made) + 1 \in 1..Len(graph[g].list)
    BY <1>1, <1>2 DEF GraphOK
  <2>2. entry \in Agents \X Nat
    BY <2>1
  <2> QED BY <1>1, <2>2 DEF GraphOK, Kinds
<1>4. GraphOK(end, Created, Reviewed) /\ end.pc \notin {"extracting", "overwriting"}
  BY <1>1, ListEndOK
<1>5. TaskFollows /\ AgentsFollow(g)
  BY <1>1, <1>2, StillFollows
<1>6. CASE task.status = "CANCELLED" \/ Created = Ids
  <2>1. PICK u \in {To(g, "broken"), end} : Within(g, u)
    BY <1>6 DEF CreateNext
  <2>2. UNCHANGED runsVars /\ Quiet
    BY <1>6 DEF CreateNext, Quiet
  <2>3. GraphOK(u, Created, Reviewed) /\ u.pc \notin {"extracting", "overwriting"}
    <3>1. GraphOK(To(g, "broken"), Created, Reviewed) /\ To(g, "broken").pc = "broken"
      BY <1>1, MovedOK DEF Plain, GraphPC
    <3> QED BY <1>4, <2>1, <3>1
  <2> QED BY <1>2, <2>1, <2>2, <2>3, QuietNodeKeeps
<1>7. ASSUME ~(task.status = "CANCELLED" \/ Created = Ids) PROVE Keeps
  <2>1. PICK late \in BOOLEAN :
          /\ CreateDelegation(kind, who, late) /\ Tick(late)
          /\ Within(g, IF Refuses("delegations", kind, late) THEN end
                       ELSE [To(g, "asking") EXCEPT
                               !.made = Append(@, Cardinality(Created) + 1)])
    BY <1>3, <1>7 DEF CreateNext, Lateness
  <2>2. TraceFollows /\ UNCHANGED supervisor /\ SupervisorFollows
    BY <1>1, <2>1, StillFollows DEF CreateDelegation
  <2>3. CASE Refuses("delegations", kind, late)
    <3>1. BudgetStays /\ CountsStay /\ UNCHANGED deleg /\ Within(g, end)
      BY <1>1, <1>3, <2>1, <2>3, ReservedOK DEF CreateDelegation
    <3>2. LedgerFollows
      BY <1>1, <3>1, RowsUntouched DEF LedgerFollows
    <3> HIDE DEF end
    <3> QED BY <1>2, <1>4, <1>5, <2>2, <3>1, <3>2, NodeKeeps
  <2>4. CASE ~Refuses("delegations", kind, late)
    <3> DEFINE n == Cardinality(Created) + 1
               u == [To(g, "asking") EXCEPT !.made = Append(graph[g].made, n)]
    <3>1. Within(g, u)
      <4>1. To(g, "asking").made = graph[g].made /\ DOMAIN To(g, "asking") = DOMAIN graph[g]
        BY AtNode DEF To, Fields
      <4> QED BY <2>1, <2>4, <4>1
    <3>2. /\ n \in Ids /\ Created' = Created \union {n} /\ n \in OfKind(kind)'
          /\ Reviewed => Reviewed'
          /\ deleg' \in [Ids -> DelegationRow] /\ Counted' /\ ResultsKept
      BY <1>1, <1>3, <2>1, <2>4, AddedOK DEF SupInv
    <3>3. budget' \in BudgetRow /\ ~Closed
      BY <1>1, <1>3, <2>1, <2>4, ReservedOK DEF CreateDelegation
    <3>4. graph[g].kind = "review" => Reviewed'
      BY <1>3, <3>2 DEF Reviewed
    <3>6. GraphOK(u, Created', Reviewed') /\ u.pc = "asking"
      <4>1. GraphOK(graph[g], Created', Reviewed')
        BY <1>1, <3>2, GraphLasts
      <4>2. Append(graph[g].made, n) \in Seq(Created')
        BY <3>2, <4>1 DEF GraphOK
      <4> HIDE DEF n
      <4> QED BY <3>4, <4>1, <4>2 DEF GraphOK, Fields, GraphPC, To
    <3>7. graph' = [graph EXCEPT ![g] = u] /\ saved' = saved
      BY <3>1 DEF Within
    <3> HIDE DEF u, n
    <3>8. GraphsOK' /\ graph'[g] = u /\ \A h \in Runs \ {g} : graph'[h] = graph[h]
      BY <3>2, <3>6, <3>7, GraphsMove DEF SupInv
    <3>9. AgentsOK' /\ RowsOK'
      BY <1>1, <1>2, <3>2, <3>3, AgentsKept DEF RowsOK
    <3>10. SidesOK'
      <4>1. SUBSET Created \subseteq SUBSET Created'
        BY <3>2
      <4>2. Seq(SUBSET Created) \subseteq Seq(SUBSET Created')
        BY <4>1, SeqsGrow
      <4> QED BY <1>1, <1>5, <2>2, <4>2 DEF SidesOK, TaskFollows, TraceFollows
    <3>11. CopiesAgree'
      BY <3>3, <3>6, <3>7, <3>8 DEF SupInv, CopiesAgree, CopyAgrees
    <3>12. StartsOnce'
      BY <1>2, <2>2 DEF SupInv, StartsOnce
    <3>13. ClaimedOnce'
      BY <2>2, <3>6, <3>7, <3>8 DEF SupInv, ClaimedOnce, TraceFollows
    <3> QED BY <3>2, <3>8, <3>9, <3>10, <3>11, <3>12, <3>13 DEF SupInv, Keeps
  <2> QED BY <2>3, <2>4
<1> QED BY <1>6, <1>7

-----------------------------------------------------------------------------
(* The review and the revisions.                                            *)

LEMMA CountActionKeeps == ASSUME SupInv, NEW g \in Runs, CountAction(g) PROVE Keeps
<1>1. /\ RowsOK /\ SidesOK /\ graph[g].pc = "actions"
      /\ UNCHANGED <<supervisor, deleg, task, agent, copy>>
  BY AtNode DEF CountAction, At, Still
<1>2. PICK u \in {To(g, "review"), To(g, "acting"), To(g, "broken")} :
        NodeEnds(g, u) \/ Within(g, u)
  BY DEF CountAction
<1>3. GraphOK(u, Created, Reviewed) /\ u.pc \in {"review", "acting", "broken"}
  BY <1>2, AtNode, MovedOK DEF Plain, GraphPC
<1>4. \/ UNCHANGED <<budget, trace>>
      \/ \E late \in BOOLEAN : CountCall(late) /\ Tick(late)
  BY DEF CountAction, Lateness
<1>5. LedgerFollows /\ TraceFollows
  BY <1>1, <1>4, LlmStays, BudgetKept, RowsUntouched, StillFollows DEF LedgerFollows, CountCall
<1>6. TaskFollows /\ SupervisorFollows /\ AgentsFollow(g)
  BY <1>1, StillFollows
<1> QED BY <1>1, <1>2, <1>3, <1>5, <1>6, NodeKeeps

LEMMA ActKeeps == ASSUME SupInv, NEW g \in Runs, Act(g) PROVE Keeps
<1>1. /\ RowsOK /\ SidesOK /\ graph[g].pc = "acting"
      /\ UNCHANGED <<deleg, budget, agent, copy, trace>>
  BY AtNode DEF Act, At
<1>2. PICK u \in {To(g, "actions"), To(g, "waiting"), To(g, "broken")} : Within(g, u)
  BY DEF Act
<1>3. GraphOK(u, Created, Reviewed) /\ u.pc \in {"actions", "waiting", "broken"}
  BY <1>2, AtNode, MovedOK DEF Plain, GraphPC
<1>4. TaskFollows
  BY <1>1 DEF Act, TaskFollows, SidesOK
<1>5. SupervisorFollows
  BY <1>1 DEF Act, SupervisorFollows, SidesOK
<1>6. LedgerFollows /\ TraceFollows /\ AgentsFollow(g)
  BY <1>1, LedgerUnchanged, StillFollows
<1> QED BY <1>1, <1>2, <1>3, <1>4, <1>5, <1>6, NodeKeeps

LEMMA ReviewKeeps == ASSUME SupInv, NEW g \in Runs, Review(g) PROVE Keeps
<1>1. GraphOK(graph[g], Created, Reviewed) /\ graph[g].pc = "review"
  BY AtNode DEF Review, At
<1>2. UNCHANGED runsVars /\ Quiet
  BY DEF Review
<1>3. ASSUME NEW u, GraphOK(u, Created, Reviewed), u.pc \in {"redelegate", "reviewing", "asking"},
             NodeEnds(g, u) \/ Within(g, u)
      PROVE  Keeps
  BY <1>1, <1>2, <1>3, QuietNodeKeeps
<1>4. CASE NodeEnds(g, [To(g, "redelegate") EXCEPT !.review = supervisor.review])
  <2> DEFINE u == [To(g, "redelegate") EXCEPT !.review = supervisor.review]
  <2>1. GraphOK(u, Created, Reviewed) /\ u.pc = "redelegate"
    BY <1>1 DEF GraphOK, Fields, GraphPC, To
  <2>2. NodeEnds(g, u)
    BY <1>4
  <2> HIDE DEF u
  <2> QED BY <1>3, <2>1, <2>2
<1>5. CASE NodeEnds(g, To(g, "redelegate"))
  BY <1>1, <1>3, <1>5, MovedOK DEF Plain, GraphPC
<1>6. CASE Within(g, To(g, "reviewing")) /\ OfKind("review") # {}
  <2>1. GraphOK(To(g, "reviewing"), Created, Reviewed) /\ To(g, "reviewing").pc = "reviewing"
    BY <1>1, <1>6 DEF GraphOK, Fields, GraphPC, To, Reviewed
  <2> QED BY <1>3, <1>6, <2>1
<1>7. CASE Within(g, [To(g, "asking") EXCEPT !.list = << <<"reviewer", 1>> >>,
                                             !.made = <<>>, !.kind = "review"])
  <2> DEFINE u == [To(g, "asking") EXCEPT !.list = << <<"reviewer", 1>> >>,
                                          !.made = <<>>, !.kind = "review"]
  <2>1. <<"reviewer", 1>> \in Agents \X Nat
    BY DEF Agents
  <2>2. << <<"reviewer", 1>> >> \in Seq(Agents \X Nat)
    BY <2>1
  <2>3. GraphOK(u, Created, Reviewed) /\ u.pc = "asking"
    BY <1>1, <2>2 DEF GraphOK, Fields, GraphPC, To, Kinds
  <2>4. Within(g, u)
    BY <1>7
  <2> HIDE DEF u
  <2> QED BY <1>3, <2>3, <2>4
<1> QED BY <1>4, <1>5, <1>6, <1>7 DEF Review

\* The end of the reviewer's work at a node, with a verdict.
LEMMA JudgedRow ==
    ASSUME RowsOK, NEW d \in Created, NEW o \in Outcomes, NEW v \in Verdicts,
           FinishRun(d, [deleg[d] EXCEPT !.result = o, !.verdict = v])
    PROVE  RowsStay
<1> DEFINE first == [deleg[d] EXCEPT !.result = o]
           row == [first EXCEPT !.verdict = v]
<1>1. deleg[d] \in DelegationRow
  BY DEF RowsOK, Created
<1>2. first \in DelegationRow /\ first.kind = deleg[d].kind
  BY <1>1 DEF DelegationRow
<1>3. row \in DelegationRow /\ row.kind = deleg[d].kind
  <2> HIDE DEF first
  <2> QED BY <1>2 DEF DelegationRow
<1>4. FinishRun(d, row)
  OBVIOUS
<1> HIDE DEF row
<1> QED BY <1>3, <1>4, FinishedRow

LEMMA VerdictOK == Verdict \in Verdicts /\ \A ok \in BOOLEAN :
                      (IF ok THEN "completed" ELSE "failed") \in Outcomes
BY DEF Verdict, Verdicts, Outcomes

LEMMA StartReviewKeeps == ASSUME SupInv, NEW g \in Runs, StartReview(g) PROVE Keeps
<1> DEFINE d == CHOOSE e \in OfKind("review") : TRUE
<1>1. /\ GraphOK(graph[g], Created, Reviewed) /\ RowsOK /\ SidesOK
      /\ graph[g].pc = "reviewing"
  BY AtNode DEF StartReview, At
<1>2. d \in Created
  BY <1>1 DEF GraphOK, Reviewed, OfKind
<1>3. UNCHANGED <<supervisor, budget, task, agent, copy, trace>>
  BY DEF StartReview, Quiet, Still
<1>4. \A v : /\ GraphOK([To(g, "reviewed") EXCEPT !.review = v], Created, Reviewed)
             /\ [To(g, "reviewed") EXCEPT !.review = v].pc = "reviewed"
  BY <1>1 DEF GraphOK, Fields, GraphPC, To
<1>5. GraphOK(To(g, "judging"), Created, Reviewed) /\ To(g, "judging").pc = "judging"
  BY <1>1 DEF GraphOK, Fields, GraphPC, To
<1>6. PICK u : /\ Within(g, u) /\ GraphOK(u, Created, Reviewed) /\ u.pc \in {"judging", "reviewed"}
  BY <1>4, <1>5 DEF StartReview
<1>7. RowsStay
  <2>1. \/ MayStart(d) /\ StartRun(d)
        \/ FinishRun(d, [deleg[d] EXCEPT !.result = "failed", !.verdict = Verdict])
    BY DEF StartReview
  <2> HIDE DEF d
  <2>2. "failed" \in Outcomes
    BY DEF Outcomes
  <2> QED BY <1>1, <1>2, <2>1, <2>2, StartedRow, JudgedRow, VerdictOK
<1>8. BudgetStays /\ CountsStay
  BY <1>1, <1>3, BudgetKept
<1>9. TaskFollows /\ TraceFollows /\ SupervisorFollows /\ AgentsFollow(g)
  BY <1>1, <1>3, StillFollows
<1> QED BY <1>1, <1>3, <1>6, <1>7, <1>8, <1>9, NodeKeeps DEF LedgerFollows

LEMMA TakeReviewKeeps == ASSUME SupInv, NEW g \in Runs, TakeReview(g) PROVE Keeps
<1>1. /\ GraphOK(graph[g], Created, Reviewed) /\ RowsOK /\ SidesOK
      /\ graph[g].pc = "reviewing" /\ UNCHANGED <<deleg, budget, task, agent, copy, trace>>
  BY AtNode DEF TakeReview, At, Quiet, Still
<1>2. PICK review : /\ supervisor' = [supervisor EXCEPT !.review = review]
                    /\ \/ NodeEnds(g, [To(g, "redelegate") EXCEPT !.review = review])
                       \/ Within(g, To(g, "broken"))
  BY DEF TakeReview
<1>3. PICK u : /\ GraphOK(u, Created, Reviewed) /\ u.pc \in {"redelegate", "broken"}
               /\ NodeEnds(g, u) \/ Within(g, u)
  <2>1. /\ GraphOK([To(g, "redelegate") EXCEPT !.review = review], Created, Reviewed)
        /\ [To(g, "redelegate") EXCEPT !.review = review].pc = "redelegate"
    BY <1>1 DEF GraphOK, Fields, GraphPC, To
  <2>2. GraphOK(To(g, "broken"), Created, Reviewed) /\ To(g, "broken").pc = "broken"
    BY <1>1, MovedOK DEF Plain, GraphPC
  <2> QED BY <1>2, <2>1, <2>2
<1>4. SupervisorFollows
  BY <1>1, <1>2 DEF SupervisorFollows, SidesOK
<1>5. TaskFollows /\ TraceFollows /\ AgentsFollow(g) /\ LedgerFollows
  BY <1>1, StillFollows, LedgerUnchanged
<1> QED BY <1>1, <1>3, <1>4, <1>5, NodeKeeps

LEMMA FinishReviewKeeps == ASSUME SupInv, NEW g \in Runs, FinishReview(g) PROVE Keeps
<1> DEFINE d == CHOOSE e \in OfKind("review") : TRUE
<1>1. /\ GraphOK(graph[g], Created, Reviewed) /\ RowsOK /\ SidesOK
      /\ graph[g].pc = "judging"
  BY AtNode DEF FinishReview, At
<1>2. d \in Created
  BY <1>1 DEF GraphOK, Reviewed, OfKind
<1>3. UNCHANGED <<supervisor, task, agent, copy>>
  BY DEF FinishReview, Still
<1>4. PICK late \in BOOLEAN, ok \in BOOLEAN, verdict \in {"pass", "revise"} :
        /\ Tick(late) /\ (Reserve("llm", "reviewer", late) \/ UNCHANGED budget)
        /\ FinishRun(d, [deleg[d] EXCEPT !.result = IF ok THEN "completed" ELSE "failed",
                                         !.verdict = verdict])
        /\ Within(g, [To(g, "reviewed") EXCEPT !.review = verdict])
  BY DEF FinishReview, Lateness
<1> HIDE DEF d
<1> DEFINE u == [To(g, "reviewed") EXCEPT !.review = verdict]
<1>5. GraphOK(u, Created, Reviewed) /\ u.pc = "reviewed" /\ Within(g, u)
  BY <1>1, <1>4 DEF GraphOK, Fields, GraphPC, To
<1>6. RowsStay
  <2>1. verdict \in Verdicts
    BY DEF Verdicts
  <2> QED BY <1>1, <1>2, <1>4, <2>1, VerdictOK, JudgedRow
<1>7. BudgetStays /\ CountsStay
  BY <1>1, <1>4, BudgetKept, LlmStays
<1>8. TaskFollows /\ TraceFollows /\ SupervisorFollows /\ AgentsFollow(g)
  BY <1>1, <1>3, <1>4, StillFollows
<1> HIDE DEF u
<1> QED BY <1>1, <1>3, <1>5, <1>6, <1>7, <1>8, NodeKeeps DEF LedgerFollows

LEMMA RequireReviewKeeps == ASSUME SupInv, NEW g \in Runs, RequireReview(g) PROVE Keeps
<1>1. GraphOK(To(g, "broken"), Created, Reviewed) /\ To(g, "broken").pc = "broken"
  BY AtNode, MovedOK DEF Plain, GraphPC
<1> QED BY <1>1, QuietNodeKeeps DEF RequireReview, At

LEMMA StoreReviewKeeps == ASSUME SupInv, NEW g \in Runs, StoreReview(g) PROVE Keeps
<1>1. /\ GraphOK(graph[g], Created, Reviewed) /\ RowsOK /\ SidesOK
      /\ graph[g].pc = "reviewed" /\ UNCHANGED <<deleg, budget, task, agent, copy, trace>>
  BY AtNode DEF StoreReview, At, Quiet, Still
<1>2. PICK review : /\ supervisor' = [supervisor EXCEPT !.review = review]
                    /\ NodeEnds(g, [To(g, "redelegate") EXCEPT !.review = review])
  BY DEF StoreReview
<1> DEFINE u == [To(g, "redelegate") EXCEPT !.review = review]
<1>3. GraphOK(u, Created, Reviewed) /\ u.pc = "redelegate" /\ NodeEnds(g, u)
  BY <1>1, <1>2 DEF GraphOK, Fields, GraphPC, To
<1>4. SupervisorFollows
  BY <1>1, <1>2 DEF SupervisorFollows, SidesOK
<1>5. TaskFollows /\ TraceFollows /\ AgentsFollow(g) /\ LedgerFollows
  BY <1>1, StillFollows, LedgerUnchanged
<1> HIDE DEF u
<1> QED BY <1>1, <1>3, <1>4, <1>5, NodeKeeps

\* A finite set of specialists in some order.
LEMMA InSomeOrder ==
    ASSUME NEW agents \in SUBSET Specialists
    PROVE  [i \in 1..Cardinality(agents) |-> <<SetToSeq(agents)[i], 1>>] \in Seq(Agents \X Nat)
<1>1. IsFiniteSet(agents)
  BY FS_Subset
<1>2. Cardinality(agents) \in Nat /\ ExistsBijection(1..Cardinality(agents), agents)
  BY <1>1, FS_CardinalityType
<1>3. \E f \in [1..Cardinality(agents) -> agents] : IsInjective(f)
  BY <1>2 DEF ExistsBijection, Bijection, Injection
<1>4. SetToSeq(agents) \in [1..Cardinality(agents) -> agents]
  BY <1>3 DEF SetToSeq
<1>5. \A i \in 1..Cardinality(agents) : <<SetToSeq(agents)[i], 1>> \in Agents \X Nat
  BY <1>4 DEF Agents
<1> QED BY <1>2, <1>5

LEMMA RedelegateKeeps == ASSUME SupInv, NEW g \in Runs, Redelegate(g) PROVE Keeps
<1>1. /\ GraphOK(graph[g], Created, Reviewed) /\ SidesOK /\ graph[g].pc = "redelegate"
      /\ UNCHANGED runsVars /\ Quiet
  BY AtNode DEF Redelegate, At
<1>2. CASE NodeEnds(g, To(g, "complete"))
  BY <1>1, <1>2, MovedOK, QuietNodeKeeps DEF Plain, GraphPC
<1>3. CASE supervisor.revisions # <<>> /\
           NodeEnds(g, [To(g, "dispatch") EXCEPT !.groups = supervisor.revisions,
                                                 !.group = 1, !.round = 1])
  <2> DEFINE u == [To(g, "dispatch") EXCEPT !.groups = supervisor.revisions,
                                            !.group = 1, !.round = 1]
  <2>1. supervisor.revisions \in Seq(SUBSET Created) /\ 1 \in 1..Len(supervisor.revisions)
    BY <1>1, <1>3 DEF SidesOK
  <2>2. GraphOK(u, Created, Reviewed) /\ u.pc = "dispatch" /\ NodeEnds(g, u)
    BY <1>1, <1>3, <2>1 DEF GraphOK, Fields, GraphPC, To
  <2> HIDE DEF u
  <2> QED BY <1>1, <2>2, QuietNodeKeeps
<1>4. ASSUME NEW agents \in SUBSET Specialists,
             Within(g, [To(g, "asking") EXCEPT !.made = <<>>, !.kind = "revision",
                          !.list = [i \in 1..Cardinality(agents) |-> <<SetToSeq(agents)[i], 1>>]])
      PROVE  Keeps
  <2> DEFINE list == [i \in 1..Cardinality(agents) |-> <<SetToSeq(agents)[i], 1>>]
             u == [To(g, "asking") EXCEPT !.made = <<>>, !.kind = "revision", !.list = list]
  <2>1. list \in Seq(Agents \X Nat)
    BY InSomeOrder
  <2>2. Within(g, u)
    BY <1>4
  <2> HIDE DEF list
  <2>3. GraphOK(u, Created, Reviewed) /\ u.pc = "asking"
    BY <1>1, <2>1 DEF GraphOK, Fields, GraphPC, To, Kinds
  <2> HIDE DEF u
  <2> QED BY <1>1, <2>2, <2>3, QuietNodeKeeps
<1> QED BY <1>2, <1>3, <1>4 DEF Redelegate

LEMMA StoreRevisionsKeeps == ASSUME SupInv, NEW g \in Runs, StoreRevisions(g) PROVE Keeps
<1>1. /\ GraphOK(graph[g], Created, Reviewed) /\ RowsOK /\ SidesOK
      /\ graph[g].pc = "revised" /\ UNCHANGED <<deleg, budget, task, agent, copy, trace>>
  BY AtNode DEF StoreRevisions, At, Quiet, Still
<1> DEFINE none == graph[g].made = <<>>
<1>2. PICK groups : /\ groups = IF none THEN <<>> ELSE GroupsOf(graph[g].list, graph[g].made)
                    /\ supervisor' = [supervisor EXCEPT !.revisions = groups, !.round = 1]
                    /\ NodeEnds(g, [To(g, IF none THEN "complete" ELSE "dispatch")
                                       EXCEPT !.groups = groups, !.group = 1, !.round = 1])
  BY DEF StoreRevisions
<1> DEFINE u == [To(g, IF none THEN "complete" ELSE "dispatch")
                   EXCEPT !.groups = groups, !.group = 1, !.round = 1]
<1>3. groups \in Seq(SUBSET Created) /\ (~none => 1 \in 1..Len(groups))
  BY <1>1, <1>2, GroupsOfOK DEF GraphOK
<1>4. GraphOK(u, Created, Reviewed) /\ u.pc \in {"complete", "dispatch"} /\ NodeEnds(g, u)
  BY <1>1, <1>2, <1>3 DEF GraphOK, Fields, GraphPC, To
<1>5. SupervisorFollows
  BY <1>1, <1>2, <1>3 DEF SupervisorFollows, SidesOK
<1>6. TaskFollows /\ TraceFollows /\ AgentsFollow(g) /\ LedgerFollows
  BY <1>1, StillFollows, LedgerUnchanged
<1> HIDE DEF u
<1> QED BY <1>1, <1>4, <1>5, <1>6, NodeKeeps

-----------------------------------------------------------------------------
(* The end of a run.                                                        *)

LEMMA CompleteKeeps == ASSUME SupInv, NEW g \in Runs, Complete(g) PROVE Keeps
<1>1. /\ GraphOK(graph[g], Created, Reviewed) /\ RowsOK /\ SidesOK
      /\ graph[g].pc = "complete" /\ UNCHANGED <<runsVars, agent, copy, trace>>
  BY AtNode DEF Complete, At
<1>2. TaskFollows
  <2>1. PICK status : task' = [task EXCEPT !.done = @ \union {"orchestrate"}, !.status = status]
    BY DEF Complete
  <2> QED BY <1>1, <2>1 DEF TaskFollows, SidesOK, Steps
<1>3. PICK stop : \/ Within(g, To(g, "broken"))
                  \/ NodeEnds(g, [To(g, "final") EXCEPT !.stop = stop])
  <2> DEFINE stop == To(g, "final").stop \/ (task.cancel \/ task.pause)
  <2>1. \/ Within(g, To(g, "broken"))
        \/ NodeEnds(g, [To(g, "final") EXCEPT !.stop = stop])
    BY <1>1 DEF Complete
  <2> QED BY <2>1
<1>4. PICK u : /\ NodeEnds(g, u) \/ Within(g, u)
               /\ GraphOK(u, Created, Reviewed) /\ u.pc \in {"broken", "final"}
  <2> DEFINE u == [To(g, "final") EXCEPT !.stop = stop]
  <2>1. GraphOK(u, Created, Reviewed) /\ u.pc = "final"
    BY <1>1 DEF GraphOK, Fields, GraphPC, To
  <2>2. GraphOK(To(g, "broken"), Created, Reviewed) /\ To(g, "broken").pc = "broken"
    BY <1>1, MovedOK DEF Plain, GraphPC
  <2> QED BY <1>3, <2>1, <2>2
<1>5. LedgerFollows /\ TraceFollows /\ SupervisorFollows /\ AgentsFollow(g)
  BY <1>1, StillFollows, LedgerUnchanged DEF runsVars
<1> QED BY <1>1, <1>2, <1>4, <1>5, NodeKeeps

LEMMA FinalizeKeeps == ASSUME SupInv, NEW g \in Runs, Finalize(g) PROVE Keeps
<1>1. /\ GraphOK(graph[g], Created, Reviewed) /\ RowsOK /\ SidesOK
      /\ graph[g].pc = "final" /\ UNCHANGED <<agent, copy, supervisor, deleg>>
  BY AtNode DEF Finalize, At, runsVars
<1>2. PICK u \in {To(g, "end"), To(g, "memory")} : NodeEnds(g, u)
  BY DEF Finalize
<1>3. GraphOK(u, Created, Reviewed) /\ u.pc \in {"end", "memory"}
  BY <1>1, <1>2, MovedOK DEF Plain, GraphPC
<1>4. LedgerFollows /\ TraceFollows
  <2>1. \/ UNCHANGED <<budget, trace>>
        \/ \E late \in BOOLEAN : Reserve("llm", "final", late) /\ Tick(late)
    BY DEF Finalize, Lateness, runsVars
  <2> QED BY <1>1, <2>1, LlmStays, BudgetKept, RowsUntouched, StillFollows DEF LedgerFollows
<1>5. TaskFollows
  BY <1>1 DEF Finalize, TaskFollows, SidesOK, Steps
<1>6. SupervisorFollows /\ AgentsFollow(g)
  BY <1>1, StillFollows
<1> QED BY <1>1, <1>2, <1>3, <1>4, <1>5, <1>6, NodeKeeps

LEMMA RememberKeeps == ASSUME SupInv, NEW g \in Runs, Remember(g) PROVE Keeps
<1>1. /\ GraphOK(graph[g], Created, Reviewed) /\ RowsOK /\ SidesOK /\ AgentsOK
      /\ graph[g].pc = "memory" /\ Quiet
  BY AtNode DEF Remember, At
<1>2. CASE task.status = "CANCELLED" \/ supervisor.memory
  <2>1. NodeEnds(g, To(g, "end")) /\ UNCHANGED runsVars
    BY <1>2 DEF Remember
  <2>2. GraphOK(To(g, "end"), Created, Reviewed) /\ To(g, "end").pc = "end"
    BY <1>1, MovedOK DEF Plain, GraphPC
  <2> QED BY <1>1, <2>1, <2>2, QuietNodeKeeps
<1>3. CASE ~(task.status = "CANCELLED" \/ supervisor.memory)
  <2> DEFINE u == To(g, "extracting")
  <2>1. /\ supervisor' = [supervisor EXCEPT !.memory = TRUE] /\ UNCHANGED <<deleg, budget>>
        /\ UNCHANGED <<task, agent, copy, trace>>
        /\ graph' = [graph EXCEPT ![g] = u] /\ saved' = saved /\ ~supervisor.memory
    BY <1>1, <1>3 DEF Remember, ClaimMemory, Within, Quiet, Still
  <2>2. GraphOK(u, Created, Reviewed) /\ u.pc = "extracting"
    BY <1>1, MovedOK DEF Plain, GraphPC
  <2>3. LedgerFollows
    BY <1>1, <2>1, LedgerUnchanged
  <2>4. Created' = Created /\ Reviewed' = Reviewed /\ Counted' /\ ResultsKept
    BY <2>3, RowsStayCounted DEF SupInv, LedgerFollows
  <2>5. GraphsOK' /\ graph'[g] = u /\ \A h \in Runs \ {g} : graph'[h] = graph[h]
    BY <2>1, <2>2, <2>4, GraphsMove DEF SupInv
  <2>6. RowsOK' /\ AgentsOK'
    BY <1>1, <2>1, <2>4, AgentsKept DEF RowsOK
  <2>7. SidesOK' /\ supervisor'.memory /\ supervisor'.status = supervisor.status
    BY <1>1, <2>1, <2>4 DEF SidesOK
  <2>8. CopiesAgree'
    BY <2>1, <2>2, <2>5 DEF SupInv, CopiesAgree, CopyAgrees, Closed
  <2>9. StartsOnce'
    BY <1>1, <2>1, <2>7 DEF SupInv, StartsOnce
  <2>10. ClaimedOnce'
    BY <2>1, <2>2, <2>5, <2>7 DEF SupInv, ClaimedOnce
  <2> QED BY <2>4, <2>5, <2>6, <2>7, <2>8, <2>9, <2>10 DEF SupInv, Keeps
<1> QED BY <1>2, <1>3

LEMMA ExtractKeeps == ASSUME SupInv, NEW g \in Runs, Extract(g) PROVE Keeps
<1>1. /\ GraphOK(graph[g], Created, Reviewed) /\ RowsOK /\ SidesOK /\ AgentsOK
      /\ graph[g].pc = "extracting" /\ UNCHANGED <<deleg, task, agent, copy>>
  BY AtNode DEF Extract, At
<1> DEFINE u == To(g, "end")
<1>2. GraphOK(u, Created, Reviewed) /\ u.pc = "end" /\ NodeEnds(g, u)
  BY <1>1, MovedOK DEF Plain, GraphPC, Extract
<1>3. graph' = [graph EXCEPT ![g] = u] /\ GraphOK(saved', Created, Reviewed)
      /\ saved'.pc \in {"end", "idle"}
  BY <1>2, CheckpointOK DEF NodeEnds
<1>4. PICK late \in BOOLEAN :
        /\ Reserve("llm", "final", late)
        /\ trace' = [trace EXCEPT !.extractions = @ + 1, !.events = @ + One(late)]
  BY DEF Extract, Lateness
<1>5. LedgerFollows
  BY <1>1, <1>4, RowsUntouched, LlmStays DEF LedgerFollows
<1>6. Created' = Created /\ Reviewed' = Reviewed /\ Counted' /\ ResultsKept
  BY <1>5, RowsStayCounted DEF SupInv, LedgerFollows
<1>7. GraphsOK' /\ graph'[g] = u /\ \A h \in Runs \ {g} : graph'[h] = graph[h]
  BY <1>2, <1>3, <1>6, GraphsMove DEF SupInv
<1>8. RowsOK' /\ AgentsOK'
  BY <1>1, <1>5, <1>6, AgentsKept DEF RowsOK, LedgerFollows, BudgetStays, RowsStay
<1>9. PICK status \in {"CANCELLED", "COMPLETED"} : supervisor' = [supervisor EXCEPT !.status = status]
  BY DEF Extract
<1>10. /\ SidesOK' /\ supervisor'.status # "NONE" /\ supervisor'.memory = supervisor.memory
       /\ trace'.extractions = trace.extractions + 1
  BY <1>1, <1>4, <1>6, <1>9 DEF SidesOK
<1>11. CopiesAgree'
  BY <1>1, <1>2, <1>3, <1>5, <1>7
     DEF SupInv, CopiesAgree, CopyAgrees, LedgerFollows, BudgetStays, CountsStay
<1>12. StartsOnce'
  BY <1>10 DEF StartsOnce
<1>13. ClaimedOnce'
  BY <1>1, <1>2, <1>3, <1>7, <1>10 DEF SupInv, ClaimedOnce
<1> QED BY <1>6, <1>7, <1>8, <1>10, <1>11, <1>12, <1>13 DEF SupInv, Keeps

\* A graph goes back to rest, at its end or broken off.
LEMMA RestKeeps ==
    ASSUME SupInv, NEW g \in Runs, graph' = [graph EXCEPT ![g] = NoGraphRun],
           saved' = saved \/ saved' = NoGraphRun, supervisor.status = "NONE" => saved' = saved,
           UNCHANGED <<runsVars, copy>>, AgentsFollow(g), TaskFollows, TraceFollows
    PROVE  Keeps
<1>1. RowsOK /\ SidesOK /\ AgentsOK
  BY AtNode
<1>2. GraphOK(NoGraphRun, Created, Reviewed) /\ NoGraphRun.pc = "idle"
  BY FreshOK DEF NoGraphRun, Fresh
<1>3. LedgerFollows /\ SupervisorFollows
  BY <1>1, LedgerUnchanged, StillFollows DEF runsVars
<1>4. AgentsOK' /\ SidesOK'
  BY <1>1, <1>3, FollowsKeep DEF runsVars, Created
<1>5. copy' \in [Runs -> BudgetRow] /\ copy' = copy /\ supervisor' = supervisor
  BY <1>1 DEF RowsOK, runsVars
<1>6. saved' # saved => GraphOK(saved', Created, Reviewed)
                        /\ saved'.pc \notin {"extracting", "overwriting"}
  BY <1>2
<1> HIDE DEF NoGraphRun
<1> QED BY <1>2, <1>3, <1>4, <1>5, <1>6, GraphStepKeeps DEF LedgerFollows, TraceFollows

LEMMA EndGraphKeeps == ASSUME SupInv, NEW g \in Runs, EndGraph(g) PROVE Keeps
<1>1. /\ SidesOK /\ graph[g].pc = "end" /\ UNCHANGED <<runsVars, agent, copy, trace>>
      /\ graph' = [graph EXCEPT ![g] = NoGraphRun] /\ saved' = NoGraphRun
  BY AtNode DEF EndGraph, At
<1>2. supervisor.status # "NONE"
  BY <1>1 DEF SupInv, StartsOnce
<1>3. TaskFollows
  BY <1>1 DEF EndGraph, TaskFollows, SidesOK
<1>4. TraceFollows /\ AgentsFollow(g)
  BY <1>1, StillFollows
<1> QED BY <1>1, <1>2, <1>3, <1>4, RestKeeps

LEMMA BreakGraphKeeps == ASSUME SupInv, NEW g \in Runs, BreakGraph(g) PROVE Keeps
<1>1. /\ SidesOK /\ UNCHANGED <<runsVars, saved, copy, trace>>
      /\ agent' = [agent EXCEPT ![g] = [d \in Ids |-> Out]]
      /\ graph' = [graph EXCEPT ![g] = NoGraphRun]
  BY AtNode DEF BreakGraph
<1>2. TaskFollows
  BY <1>1 DEF BreakGraph, TaskFollows, SidesOK
<1>3. TraceFollows /\ AgentsFollow(g)
  BY <1>1, StillFollows, NobodyFollows
<1> QED BY <1>1, <1>2, <1>3, RestKeeps

LEMMA CrashGraphKeeps == ASSUME SupInv, NEW g \in Runs, CrashGraph(g) PROVE Keeps
<1>1. /\ SidesOK /\ UNCHANGED <<runsVars, saved, copy>>
      /\ agent' = [agent EXCEPT ![g] = [d \in Ids |-> Out]]
      /\ graph' = [graph EXCEPT ![g] = NoGraphRun]
      /\ trace' = [trace EXCEPT !.events = @ + 1]
  BY AtNode DEF CrashGraph
<1>2. TaskFollows
  BY <1>1 DEF CrashGraph, TaskFollows, SidesOK
<1>3. TraceFollows /\ AgentsFollow(g)
  BY <1>1, NobodyFollows DEF TraceFollows, SidesOK
<1> QED BY <1>1, <1>2, <1>3, RestKeeps

LEMMA DetachGraphKeeps == ASSUME SupInv, NEW g \in Runs, DetachGraph(g) PROVE Keeps
<1> DEFINE u == [graph[g] EXCEPT !.detached = TRUE]
<1>1. /\ GraphOK(graph[g], Created, Reviewed) /\ RowsOK /\ SidesOK /\ AgentsOK
      /\ UNCHANGED <<runsVars, agent, saved, copy>>
      /\ trace' = [trace EXCEPT !.events = @ + 1] /\ graph[g].pc # "idle"
  BY AtNode DEF DetachGraph, At
<1>2. graph' = [graph EXCEPT ![g] = u]
  BY DEF DetachGraph
<1>3. GraphOK(u, Created, Reviewed) /\ u.pc = graph[g].pc
  BY <1>1 DEF GraphOK, Fields
<1>4. TaskFollows
  BY <1>1 DEF DetachGraph, TaskFollows, SidesOK
<1>5. TraceFollows
  BY <1>1 DEF TraceFollows, SidesOK
<1>6. AgentsFollow(g) /\ SupervisorFollows /\ LedgerFollows
  BY <1>1, StillFollows, LedgerUnchanged DEF runsVars
<1>7. AgentsOK' /\ SidesOK'
  BY <1>1, <1>4, <1>5, <1>6, FollowsKeep DEF runsVars, Created
<1>8. copy' \in [Runs -> BudgetRow] /\ copy' = copy /\ supervisor' = supervisor
  BY <1>1 DEF RowsOK, runsVars
<1>9. u.pc = "overwriting" => CopyAgrees(g)'
  BY <1>1, <1>3 DEF SupInv, CopiesAgree, CopyAgrees, Closed, runsVars
<1>10. supervisor.status = "NONE" => u.pc \in {"idle", "router"}
  BY <1>3 DEF SupInv, StartsOnce
<1> HIDE DEF u
<1> QED
  BY <1>1, <1>2, <1>3, <1>5, <1>6, <1>7, <1>8, <1>9, <1>10, GraphStepKeeps
     DEF LedgerFollows, TraceFollows

LEMMA DeliverKeeps == ASSUME SupInv, NEW g \in Runs, Deliver(g) PROVE Keeps
<1> DEFINE u == IF saved.pc = "idle" THEN Fresh ELSE saved
<1>1. /\ RowsOK /\ SidesOK /\ AgentsOK /\ UNCHANGED <<runsVars, saved, copy>>
      /\ agent' = [agent EXCEPT ![g] = SentBy(u)] /\ graph' = [graph EXCEPT ![g] = u]
      /\ task' = [task EXCEPT !.status = "RUNNING", !.pause = FALSE]
      /\ \E overlap : trace' = [trace EXCEPT !.overlap = overlap]
  BY AtNode DEF Deliver
<1>2. /\ GraphOK(u, Created, Reviewed) /\ u.pc \notin {"extracting", "overwriting"}
      /\ supervisor.status = "NONE" => u.pc \in {"idle", "router"}
  <2>1. GraphOK(Fresh, Created, Reviewed) /\ Fresh.pc = "router"
    BY FreshOK DEF Fresh
  <2>2. /\ GraphOK(saved, Created, Reviewed) /\ saved.pc \notin {"extracting", "overwriting"}
        /\ supervisor.status = "NONE" => saved.pc \in {"idle", "router"}
    BY DEF SupInv, GraphsOK, CopiesAgree, ClaimedOnce, StartsOnce
  <2> QED BY <2>1, <2>2
<1>3. TaskFollows /\ TraceFollows
  BY <1>1 DEF TaskFollows, TraceFollows, SidesOK
<1> HIDE DEF u
<1>4. AgentsFollow(g)
  BY <1>1, <1>2, SentOK DEF AgentsFollow
<1>5. SupervisorFollows /\ LedgerFollows
  BY <1>1, StillFollows, LedgerUnchanged DEF runsVars
<1>6. AgentsOK' /\ SidesOK'
  BY <1>1, <1>3, <1>4, <1>5, FollowsKeep DEF runsVars, Created
<1>7. copy' \in [Runs -> BudgetRow] /\ copy' = copy /\ supervisor' = supervisor
  BY <1>1 DEF RowsOK, runsVars
<1> QED
  BY <1>1, <1>2, <1>3, <1>5, <1>6, <1>7, GraphStepKeeps DEF LedgerFollows, TraceFollows

\* A request beside the graphs that writes the task's row only.
LEMMA TaskRowKeeps ==
    ASSUME SupInv, UNCHANGED <<runsVars, graph, agent, saved, copy>>, TaskFollows, TraceFollows
    PROVE  Keeps
<1>1. RowsOK /\ SidesOK /\ AgentsOK
  BY DEF SupInv
<1>2. LedgerFollows
  BY <1>1, LedgerUnchanged DEF runsVars
<1>3. AgentsOK' /\ SidesOK' /\ supervisor' = supervisor
  BY <1>1, SidesKept, AgentsKept DEF runsVars, Created, TraceFollows
<1> QED BY <1>2, <1>3, AsideKeeps DEF LedgerFollows, TraceFollows

LEMMA CancelSupervisedKeeps == ASSUME SupInv, CancelSupervised PROVE Keeps
<1>1. TaskFollows
  BY DEF CancelSupervised, TaskFollows, SupInv, SidesOK
<1>2. TraceFollows
  BY DEF CancelSupervised, TraceFollows
<1> QED BY <1>1, <1>2, TaskRowKeeps DEF CancelSupervised

LEMMA PauseSupervisedKeeps == ASSUME SupInv, PauseSupervised PROVE Keeps
<1>1. TaskFollows
  BY DEF PauseSupervised, TaskFollows, SupInv, SidesOK
<1>2. TraceFollows
  BY DEF PauseSupervised, TraceFollows, SupInv, SidesOK
<1> QED BY <1>1, <1>2, TaskRowKeeps DEF PauseSupervised

LEMMA RevokeKeeps == ASSUME SupInv, Revoke PROVE Keeps
<1>1. /\ RowsOK /\ SidesOK /\ AgentsOK /\ UNCHANGED <<graph, agent, saved, copy, trace, budget>>
  BY DEF SupInv, Revoke, CancelRuns
<1>2. deleg' = [d \in Ids |-> IF deleg[d].status \in {"PENDING", "RUNNING"}
                              THEN [deleg[d] EXCEPT !.status = "CANCELLED"] ELSE deleg[d]]
  BY DEF Revoke, CancelRuns
<1>3. RowsStay
  <2>1. ASSUME NEW d \in Ids
        PROVE  /\ deleg'[d] \in DelegationRow /\ deleg'[d].kind = deleg[d].kind
               /\ deleg'[d].result = deleg[d].result
               /\ deleg[d].status # "NONE" => deleg'[d].status # "NONE"
               /\ deleg[d].status = "NONE" => deleg'[d] = deleg[d]
    <3>1. deleg[d] \in DelegationRow
      BY <1>1 DEF RowsOK
    <3>2. deleg'[d] = IF deleg[d].status \in {"PENDING", "RUNNING"}
                      THEN [deleg[d] EXCEPT !.status = "CANCELLED"] ELSE deleg[d]
      BY <1>2
    <3> QED BY <3>1, <3>2 DEF DelegationRow, RunStatus
  <2>2. deleg' \in [Ids -> DelegationRow]
    BY <1>2, <2>1
  <2> QED BY <2>1, <2>2 DEF RowsStay
<1>4. BudgetStays /\ CountsStay
  BY <1>1, BudgetKept
<1>5. Created' = Created
  BY <1>1, <1>3, <1>4, RowsStayCounted DEF SupInv
<1>6. supervisor' = [supervisor EXCEPT !.status = IF @ = "RUNNING" THEN "CANCELLED" ELSE @]
  BY DEF Revoke, CancelRuns
<1>7. task' = [task EXCEPT !.revoking = FALSE]
  BY DEF Revoke
<1>8. /\ SidesOK' /\ AgentsOK' /\ supervisor'.memory = supervisor.memory
      /\ supervisor'.status = "NONE" => supervisor.status = "NONE"
  BY <1>1, <1>5, <1>6, <1>7, AgentsKept DEF SidesOK
<1> QED BY <1>1, <1>3, <1>4, <1>8, AsideKeeps

-----------------------------------------------------------------------------
(* The theorems.                                                            *)

LEMMA InitOK == SupInit => SupInv
<1> SUFFICES ASSUME SupInit PROVE SupInv
  OBVIOUS
<1>1. \A d \in Ids : deleg[d] = NoDelegation
  BY DEF SupInit
<1>2. NoDelegation.status = "NONE" /\ NoDelegation.result = "none" /\ NoDelegation \in DelegationRow
  BY DEF NoDelegation, DelegationRow, RunStatus, Kinds, Verdicts, Agents
<1>3. FreshBudget \in BudgetRow /\ FreshBudget.delegations = 0 /\ FreshBudget.reviews = 0
      /\ FreshBudget.redelegations = 0
  BY DEF FreshBudget, BudgetRow
<1>4. Created = {} /\ \A kind : OfKind(kind) = {}
  BY <1>1, <1>2 DEF Created, OfKind
<1>5. GraphsOK
  BY FreshOK DEF SupInit, GraphsOK
<1>6. AgentsOK
  BY NobodyOut DEF SupInit, AgentsOK
<1>7. SidesOK
  BY DEF SupInit, SidesOK
<1>8. RowsOK
  BY <1>1, <1>2, <1>3 DEF SupInit, RowsOK
<1>9. Counted
  <2>1. 1..0 = {} /\ Cardinality({}) = 0
    BY FS_EmptySet
  <2> QED BY <1>1, <1>2, <1>3, <1>4, <2>1 DEF SupInit, Counted, Settled
<1>10. \A g \in Runs : graph[g].pc = "idle" /\ saved.pc = "idle"
  BY DEF SupInit, NoGraphRun, Fresh
<1>11. saved.pc = "idle"
  BY DEF SupInit, NoGraphRun, Fresh
<1>12. CopiesAgree /\ StartsOnce
  BY <1>10, <1>11 DEF CopiesAgree, StartsOnce
<1>13. ClaimedOnce
  BY <1>10, <1>11 DEF SupInit, ClaimedOnce
<1> QED BY <1>5, <1>6, <1>7, <1>8, <1>9, <1>12, <1>13 DEF SupInv

LEMMA NextKeeps == ASSUME SupInv, [SupNext]_supVars PROVE Keeps
<1>1. ASSUME NEW g \in Runs, GraphStep(g) PROVE Keeps
  <2>1. CASE \E d \in Ids : Specialist(g, d)
    BY <2>1, SpecialistKeeps
  <2>2. CASE \/ Route(g) \/ Charge(g) \/ Plan(g) \/ AskBudget(g) \/ WriteBudgetBack(g)
            \/ CreateNext(g)
    BY <2>2, RouteKeeps, ChargeKeeps, PlanKeeps, AskBudgetKeeps, WriteBudgetBackKeeps, CreateNextKeeps
  <2>3. CASE StorePlan(g) \/ Dispatch(g) \/ Stop(g) \/ Merge(g) \/ Review(g)
    BY <2>3, StorePlanKeeps, DispatchKeeps, StopKeeps, MergeKeeps, ReviewKeeps
  <2>6. CASE CountAction(g) \/ Act(g) \/ TakeReview(g) \/ RequireReview(g)
    BY <2>6, CountActionKeeps, ActKeeps, TakeReviewKeeps, RequireReviewKeeps
  <2>4. CASE \/ StartReview(g) \/ FinishReview(g) \/ StoreReview(g) \/ Redelegate(g)
            \/ StoreRevisions(g)
    BY <2>4, StartReviewKeeps, FinishReviewKeeps, StoreReviewKeeps, RedelegateKeeps,
       StoreRevisionsKeeps
  <2>5. CASE \/ Complete(g) \/ Finalize(g) \/ Remember(g) \/ Extract(g) \/ EndGraph(g)
            \/ BreakGraph(g)
    BY <2>5, CompleteKeeps, FinalizeKeeps, RememberKeeps, ExtractKeeps, EndGraphKeeps,
       BreakGraphKeeps
  <2> QED BY <1>1, <2>1, <2>2, <2>3, <2>4, <2>5, <2>6 DEF GraphStep
<1>2. ASSUME NEW g \in Runs, Deliver(g) \/ CrashGraph(g) \/ DetachGraph(g) PROVE Keeps
  BY <1>2, DeliverKeeps, CrashGraphKeeps, DetachGraphKeeps
<1>3. CASE CancelSupervised \/ PauseSupervised \/ Revoke
  BY <1>3, CancelSupervisedKeeps, PauseSupervisedKeeps, RevokeKeeps
<1>4. CASE UNCHANGED supVars
  <2>1. TaskFollows /\ TraceFollows
    BY <1>4 DEF supVars, TaskFollows, TraceFollows
  <2> QED BY <1>4, <2>1, TaskRowKeeps DEF supVars
<1> QED BY <1>1, <1>2, <1>3, <1>4 DEF SupNext

\* The inductive invariant: every delegation has its reservation, what graphs and
\* checkpoints know of delegations is so, a budget that is about to be written
\* back agrees with the one that is there, and the memory claim is held once.
THEOREM SupInvariance == SupSpec => []SupInv
<1>1. SupInv /\ [SupNext]_supVars => SupInv'
  BY NextKeeps DEF Keeps
<1> QED BY <1>1, InitOK, PTL DEF SupSpec

\* The first n identities are n.
LEMMA FirstAreCounted == \A n \in Nat : Cardinality(1..n) = n
<1> TAKE n \in Nat
<1>1. 1 \in Int /\ n \in Int
  OBVIOUS
<1>2. Cardinality(1..n) = IF 1 > n THEN 0 ELSE n - 1 + 1
  BY ONLY <1>1, FS_Interval
<1> QED BY <1>2

\* The ledger and its budget agree: of every kind exactly as many delegations as
\* were reserved, for any plans and limits, any number of graph executions that
\* overlap, and although an exhausted budget is written back as it was read.
THEOREM BudgetIsKeptHolds == SupSpec => []BudgetIsKept
<1>1. SupInv => BudgetIsKept
  <2> SUFFICES ASSUME SupInv PROVE BudgetIsKept
    OBVIOUS
  <2>1. SupTypeOK
    BY DEF SupInv, RowsOK, SidesOK, GraphsOK, GraphOK, SupTypeOK
  <2>2. budget.delegations \in Nat /\ Created = 1..budget.delegations
    BY DEF SupInv, RowsOK, Counted, BudgetRow
  <2>3. Cardinality(Created) = budget.delegations
    <3>1. Cardinality(1..budget.delegations) = budget.delegations
      BY <2>2, FirstAreCounted
    <3> QED BY <2>2, <3>1
  <2>4. DelegationsAreCounted
    BY <2>3 DEF SupInv, Counted, DelegationsAreCounted
  <2> QED BY <2>1, <2>4 DEF BudgetIsKept
<1> QED BY <1>1, SupInvariance, PTL

\* The memory of a run is extracted at most once, whichever graphs reach its end.
THEOREM MemoryIsExtractedOnceHolds == SupSpec => []MemoryIsExtractedOnce
<1>1. SupInv => MemoryIsExtractedOnce
  BY DEF SupInv, ClaimedOnce, MemoryIsExtractedOnce
<1> QED BY <1>1, SupInvariance, PTL

\* A stored result is final: of two graphs that finish one delegation, or a
\* cancellation and a late answer, the first that stored a result is believed.
THEOREM ResultsAreFinalHolds == SupSpec => ResultsAreFinal
<1> DEFINE Final == \A d \in Ids : Settled(d) => deleg'[d].result = deleg[d].result
<1>1. SupInv /\ [SupNext]_supVars => [Final]_supVars
  BY NextKeeps DEF Keeps, ResultsKept
<1>2. ResultsAreFinal <=> [][Final]_supVars
  BY DEF ResultsAreFinal
<1> HIDE DEF Final
<1> QED BY <1>1, <1>2, SupInvariance, PTL DEF SupSpec

-----------------------------------------------------------------------------
(* What a graph has gone past, who works for it, and what a cancellation     *)
(* meets: the second inductive invariant, on top of SupInv.                  *)

\* A completed delegation has its result.
RowsAreHonest == \A d \in Ids : deleg[d].status = "COMPLETED" => Settled(d)

\* A specialist is out while its graph is at the specialists, and then the
\* whole group is.
SpecialistsAreOut ==
    \A g \in Runs :
        /\ \A d \in Ids : agent[g][d].pc # "out" => graph[g].pc = "agents"
        /\ graph[g].pc = "agents" =>
              \A d \in graph[g].groups[graph[g].group] : agent[g][d].pc # "out"

BackIsSettled == \A g \in Runs, d \in Ids : agent[g][d].pc = "back" => Settled(d)

Results == {d \in Ids : Settled(d)}

\* Whatever lies before the group a graph, or its checkpoint, is at has its result.
Passed(r, results) ==
    \A k \in 1..Len(r.groups) : k < r.group => r.groups[k] \subseteq results

GroupsArePassed == Passed(saved, Results) /\ \A g \in Runs : Passed(graph[g], Results)

\* While no graph has outlived its timeout beside another, one is at work at most.
GraphsAlternate ==
    \A g, h \in Runs : graph[g].pc # "idle" /\ graph[h].pc # "idle" => g = h

AtWork ==
    {"starting", "planning", "ready", "counted", "calling", "reporting", "finishing", "failing"}

\* A specialist at work has no result yet, one about to call has no progress;
\* and a call that was made left its note, its progress or its result.
CalledOnce ==
    /\ \A g \in Runs, d \in Ids :
          /\ agent[g][d].pc \in AtWork => ~Settled(d)
          /\ agent[g][d].pc \in {"ready", "counted"} => deleg[d].progress = "none"
          /\ agent[g][d].pc = "counted" => ~RefusesRerun(d)
    /\ \A d \in Ids : deleg[d].agent \in Analysts =>
          /\ deleg[d].calls <= 1
          /\ deleg[d].calls = 1 =>
                deleg[d].active \/ deleg[d].progress # "none" \/ Settled(d)

Ending ==
    {"idle", "stopping", "waiting", "complete", "final", "memory", "extracting", "broken", "end"}

\* A graph that is not at its end works for a task that runs, or waits for an approval.
WorkIsWanted ==
    \A g \in Runs : ~graph[g].detached /\ graph[g].pc \notin Ending =>
        task.status = "RUNNING" \/ \E d \in Ids : agent[g][d].pc = "parked"

\* Delegations are cancelled after their task, never without it.
CancelledTogether ==
    /\ task.revoking => task.status = "CANCELLED"
    /\ \A d \in Ids :
          deleg[d].status = "CANCELLED" /\ ~Settled(d) => task.status = "CANCELLED"

GraphsFlow ==
    /\ SpecialistsAreOut /\ BackIsSettled /\ GroupsArePassed
    /\ ~trace.overlap => GraphsAlternate /\ CalledOnce /\ WorkIsWanted

FlowInv == RowsAreHonest /\ CancelledTogether /\ GraphsFlow

-----------------------------------------------------------------------------
(* What any step does to the rows of the ledger, and to the task's.          *)

\* A result comes with a completion and, when nobody revokes, with a status of
\* cancelled; only specialists and reviews write over a cancelled row.
RowFlows(d) ==
    /\ deleg'[d].status = "COMPLETED" => deleg[d].status = "COMPLETED" \/ Settled(d)'
    /\ deleg'[d].status = "CANCELLED" =>
          deleg[d].status = "CANCELLED" \/ task.revoking \/ Settled(d)'
    /\ deleg[d].status = "CANCELLED" /\ deleg'[d].status # "CANCELLED" =>
          ~Settled(d) /\ \E g \in Runs : graph[g].pc \in {"agents", "reviewing", "judging"}

\* A cancelled task stays so, and only its delegations are revoked.
TaskFlows ==
    /\ task.status = "CANCELLED" => task'.status = "CANCELLED"
    /\ task'.revoking => task.revoking \/ task'.status = "CANCELLED"

\* Nothing is called for the row, which is new if anything of it changes.
RowCalm(d) ==
    \/ deleg'[d].calls = 0
    \/ /\ deleg'[d].agent = deleg[d].agent /\ deleg'[d].calls = deleg[d].calls
       /\ deleg'[d].active = deleg[d].active /\ deleg'[d].progress = deleg[d].progress

\* Of the row nothing is written, but perhaps its status.
Unmoved(d) ==
    /\ deleg'[d].agent = deleg[d].agent /\ deleg'[d].calls = deleg[d].calls
    /\ deleg'[d].active = deleg[d].active /\ deleg'[d].progress = deleg[d].progress
    /\ deleg'[d].result = deleg[d].result

\* A start writes the status of a delegation without a result, no more.
LEMMA StartFlows ==
    ASSUME RowsOK, NEW d \in Ids, StartRun(d),
           \E g \in Runs : graph[g].pc \in {"agents", "reviewing", "judging"}
    PROVE  \A e \in Ids : RowFlows(e) /\ RowCalm(e)
<1>1. deleg[d] \in DelegationRow /\ DOMAIN deleg = Ids
  BY DEF RowsOK
<1>2. CASE Settled(d)
  BY <1>2 DEF StartRun, RowFlows, RowCalm
<1>3. CASE ~Settled(d)
  <2>1. /\ \A e \in Ids \ {d} : deleg'[e] = deleg[e]
        /\ deleg'[d] = [deleg[d] EXCEPT !.status = "RUNNING", !.attempts = @ + 1]
    BY <1>1, <1>3 DEF StartRun
  <2>2. /\ deleg'[d].status = "RUNNING" /\ deleg'[d].agent = deleg[d].agent
        /\ deleg'[d].calls = deleg[d].calls /\ deleg'[d].active = deleg[d].active
        /\ deleg'[d].progress = deleg[d].progress
    BY <1>1, <2>1 DEF DelegationRow
  <2>3. RowFlows(d) /\ RowCalm(d)
    BY <1>3, <2>2 DEF RowFlows, RowCalm
  <2>4. \A e \in Ids \ {d} : RowFlows(e) /\ RowCalm(e)
    BY <2>1 DEF RowFlows, RowCalm
  <2> QED BY <2>3, <2>4
<1> QED BY <1>2, <1>3

\* The end writes a result, unless there is one.
LEMMA FinishFlows ==
    ASSUME RowsOK, NEW d \in Ids, NEW row \in DelegationRow, row.result # "none",
           FinishRun(d, row),
           \E g \in Runs : graph[g].pc \in {"agents", "reviewing", "judging"}
    PROVE  /\ \A e \in Ids : RowFlows(e)
           /\ Settled(d)' /\ \A e \in Ids \ {d} : deleg'[e] = deleg[e]
           /\ deleg' = deleg \/ deleg'[d] = [row EXCEPT !.status = StatusOf(row.result)]
<1>1. deleg[d] \in DelegationRow /\ DOMAIN deleg = Ids
  BY DEF RowsOK
<1>2. CASE Settled(d)
  BY <1>2 DEF FinishRun, RowFlows, Settled
<1>3. CASE ~Settled(d)
  <2>1. /\ \A e \in Ids \ {d} : deleg'[e] = deleg[e]
        /\ deleg'[d] = [row EXCEPT !.status = StatusOf(row.result)]
    BY <1>1, <1>3 DEF FinishRun
  <2>2. deleg'[d].result = row.result
    BY <2>1 DEF DelegationRow
  <2>3. RowFlows(d) /\ Settled(d)'
    BY <1>3, <2>2 DEF RowFlows, Settled
  <2>4. \A e \in Ids \ {d} : RowFlows(e)
    BY <2>1 DEF RowFlows, Settled
  <2> QED BY <2>1, <2>3, <2>4
<1> QED BY <1>2, <1>3

\* Rows left alone.
LEMMA RowsFlowUntouched ==
    ASSUME UNCHANGED deleg PROVE \A d \in Ids : RowFlows(d) /\ RowCalm(d)
BY DEF RowFlows, RowCalm, Settled

\* The delegation that is added had no row.
LEMMA AddFlows ==
    ASSUME SupInv, NEW kind, NEW who, NEW late, CreateDelegation(kind, who, late)
    PROVE  \A d \in Ids : RowFlows(d) /\ RowCalm(d)
<1> DEFINE n == Cardinality(Created) + 1
           row == [NoDelegation EXCEPT !.status = "PENDING", !.kind = kind, !.agent = who]
<1>1. budget \in BudgetRow /\ deleg \in [Ids -> DelegationRow] /\ Created = 1..budget.delegations
  BY DEF SupInv, RowsOK, Counted
<1>2. budget.delegations \in Nat
  BY <1>1 DEF BudgetRow
<1>3. Cardinality(1..budget.delegations) = budget.delegations
  BY <1>2, FS_Interval
<1>4. n \notin Created
  BY <1>1, <1>2, <1>3
<1>5. row.status = "PENDING" /\ row.calls = 0
  BY DEF NoDelegation
<1>6. deleg' = deleg \/ deleg' = [deleg EXCEPT ![n] = row]
  BY DEF CreateDelegation
<1> HIDE DEF n, row
<1>7. CASE deleg' = [deleg EXCEPT ![n] = row]
  <2>1. \A d \in Ids \ {n} : RowFlows(d) /\ RowCalm(d)
    BY <1>1, <1>7 DEF RowFlows, RowCalm, Settled
  <2>2. n \in Ids => deleg[n].status = "NONE" /\ deleg'[n] = row
    BY <1>1, <1>4, <1>7 DEF Created
  <2>3. n \in Ids => RowFlows(n) /\ RowCalm(n)
    BY <1>5, <2>2 DEF RowFlows, RowCalm
  <2> QED BY <2>1, <2>3
<1> QED BY <1>6, <1>7, RowsFlowUntouched

\* The reviewer's row, judged.
LEMMA JudgeFlows ==
    ASSUME RowsOK, NEW d \in Ids, NEW o \in Outcomes, NEW v \in Verdicts,
           FinishRun(d, [deleg[d] EXCEPT !.result = o, !.verdict = v]),
           \E g \in Runs : graph[g].pc \in {"reviewing", "judging"}
    PROVE  \A e \in Ids : RowFlows(e) /\ RowCalm(e)
<1> DEFINE first == [deleg[d] EXCEPT !.result = o]
           row == [first EXCEPT !.verdict = v]
<1>1. deleg[d] \in DelegationRow /\ o # "none"
  BY DEF RowsOK, Outcomes
<1>2. /\ first \in DelegationRow /\ first.result # "none" /\ first.agent = deleg[d].agent
      /\ first.calls = deleg[d].calls /\ first.active = deleg[d].active
      /\ first.progress = deleg[d].progress
  BY <1>1 DEF DelegationRow
<1>3. /\ row \in DelegationRow /\ row.result # "none" /\ row.agent = deleg[d].agent
      /\ row.calls = deleg[d].calls /\ row.active = deleg[d].active
      /\ row.progress = deleg[d].progress
  <2> HIDE DEF first
  <2> QED BY <1>2 DEF DelegationRow
<1>4. FinishRun(d, row)
  OBVIOUS
<1> HIDE DEF row
<1>5. /\ \A e \in Ids : RowFlows(e)
      /\ \A e \in Ids \ {d} : deleg'[e] = deleg[e]
      /\ deleg' = deleg \/ deleg'[d] = [row EXCEPT !.status = StatusOf(row.result)]
  BY <1>3, <1>4, FinishFlows
<1>6. RowCalm(d)
  BY <1>3, <1>5 DEF RowCalm, DelegationRow
<1>7. \A e \in Ids \ {d} : RowCalm(e)
  BY <1>5 DEF RowCalm
<1> QED BY <1>5, <1>6, <1>7

\* The nodes of a graph that write rows: requests and reviews.
LEMMA CreateNextFlows ==
    ASSUME SupInv, NEW g \in Runs, CreateNext(g)
    PROVE  \A d \in Ids : RowFlows(d) /\ RowCalm(d)
<1>1. UNCHANGED deleg \/ \E kind, who, late : CreateDelegation(kind, who, late)
  BY DEF CreateNext, runsVars
<1> QED BY <1>1, AddFlows, RowsFlowUntouched

LEMMA StartReviewFlows ==
    ASSUME SupInv, NEW g \in Runs, StartReview(g)
    PROVE  \A d \in Ids : RowFlows(d) /\ RowCalm(d)
<1> DEFINE d == CHOOSE e \in OfKind("review") : TRUE
<1>1. GraphOK(graph[g], Created, Reviewed) /\ RowsOK /\ graph[g].pc = "reviewing"
  BY AtNode DEF StartReview, At
<1>2. d \in Ids
  BY <1>1 DEF GraphOK, Reviewed, OfKind, Created
<1>3. \/ UNCHANGED deleg
      \/ StartRun(d)
      \/ FinishRun(d, [deleg[d] EXCEPT !.result = "failed", !.verdict = Verdict])
  BY DEF StartReview
<1>4. "failed" \in Outcomes
  BY DEF Outcomes
<1> HIDE DEF d
<1> QED BY <1>1, <1>2, <1>3, <1>4, VerdictOK, RowsFlowUntouched, StartFlows, JudgeFlows

LEMMA FinishReviewFlows ==
    ASSUME SupInv, NEW g \in Runs, FinishReview(g)
    PROVE  \A d \in Ids : RowFlows(d) /\ RowCalm(d)
<1> DEFINE d == CHOOSE e \in OfKind("review") : TRUE
<1>1. GraphOK(graph[g], Created, Reviewed) /\ RowsOK /\ graph[g].pc = "judging"
  BY AtNode DEF FinishReview, At
<1>2. d \in Ids
  BY <1>1 DEF GraphOK, Reviewed, OfKind, Created
<1>3. PICK ok \in BOOLEAN, verdict \in {"pass", "revise"} :
        FinishRun(d, [deleg[d] EXCEPT !.result = IF ok THEN "completed" ELSE "failed",
                                      !.verdict = verdict])
  BY DEF FinishReview
<1> HIDE DEF d
<1>4. verdict \in Verdicts
  BY DEF Verdicts
<1> QED BY <1>1, <1>2, <1>3, <1>4, VerdictOK, JudgeFlows

\* A cancellation of the task's runs, where it is due.
LEMMA RevokeFlows ==
    ASSUME SupInv, Revoke PROVE \A d \in Ids : RowFlows(d) /\ RowCalm(d)
<1> SUFFICES ASSUME NEW d \in Ids PROVE RowFlows(d) /\ RowCalm(d)
  OBVIOUS
<1>1. deleg[d] \in DelegationRow /\ task.revoking
  BY DEF SupInv, RowsOK, Revoke
<1>2. deleg'[d] = IF deleg[d].status \in {"PENDING", "RUNNING"}
                  THEN [deleg[d] EXCEPT !.status = "CANCELLED"] ELSE deleg[d]
  BY DEF Revoke, CancelRuns
<1> QED BY <1>1, <1>2 DEF DelegationRow, RowFlows, RowCalm, Settled

-----------------------------------------------------------------------------
(* A step of a specialist.                                                   *)

\* The rest of the world, while specialist d of graph g comes to be as a.
Goes(g, d, a) ==
    /\ agent[g][d].pc \notin {"out", "back", "parked", "raised"} /\ a.pc # "out"
    /\ agent' = [agent EXCEPT ![g] = [agent[g] EXCEPT ![d] = a]]
    /\ UNCHANGED <<graph, saved>> /\ trace'.overlap = trace.overlap
    /\ \A e \in Ids \ {d} : deleg'[e] = deleg[e]
    /\ \/ task'.status = task.status
       \/ a.pc = "parked" /\ task.status = "RUNNING"
    /\ task'.revoking = task.revoking

\* A specialist is back with a result and at work without; what it does to its
\* row is to finish it, to call from where nothing was called, or to return.
Works(g, d, a) ==
    /\ deleg'[d].agent = deleg[d].agent
    /\ a.pc = "back" => Settled(d)'
    /\ a.pc \in AtWork =>
          deleg'[d].result = deleg[d].result /\ (agent[g][d].pc \in AtWork \/ ~Settled(d))
    /\ a.pc = "ready" => deleg'[d].progress = "none"
    /\ a.pc = "counted" => agent[g][d].pc = "ready" /\ UNCHANGED deleg /\ ~RefusesRerun(d)
    /\ \/ deleg'[d].calls = deleg[d].calls /\ Settled(d)'
       \/ deleg'[d].calls = deleg[d].calls /\ deleg'[d].progress # "none"
       \/ /\ deleg'[d].calls = deleg[d].calls /\ deleg'[d].active = deleg[d].active
          /\ deleg'[d].progress = deleg[d].progress
       \/ /\ deleg'[d].calls = deleg[d].calls + 1 /\ deleg'[d].active
          /\ agent[g][d].pc = "counted"
       \/ deleg[d].agent \notin Analysts

Flows(g, d) ==
    /\ \A e \in Ids : RowFlows(e)
    /\ \E a : Goes(g, d, a) /\ Works(g, d, a)

\* The row of a specialist that ends is finished, whatever else is written.
LEMMA EndsFlow ==
    ASSUME SupInv, NEW g \in Runs, NEW d \in Ids, NEW row \in DelegationRow,
           row.result # "none", row.agent = deleg[d].agent, row.calls = deleg[d].calls,
           FinishRun(d, row), graph[g].pc = "agents",
           agent[g][d].pc \in {"sent", "finishing", "failing"}, Step(g, d, "back"),
           UNCHANGED <<graph, saved, task, trace>>
    PROVE  Flows(g, d)
<1> DEFINE a == [agent[g][d] EXCEPT !.pc = "back"]
<1>1. RowsOK /\ agent[g][d] \in [pc : AgentPC, outcome : Outcomes] /\ deleg[d] \in DelegationRow
  BY DEF SupInv, RowsOK, AgentsOK
<1>2. /\ \A e \in Ids : RowFlows(e)
      /\ Settled(d)' /\ \A e \in Ids \ {d} : deleg'[e] = deleg[e]
      /\ deleg' = deleg \/ deleg'[d] = [row EXCEPT !.status = StatusOf(row.result)]
  BY <1>1, FinishFlows
<1>3. deleg'[d].agent = deleg[d].agent /\ deleg'[d].calls = deleg[d].calls
  BY <1>2 DEF DelegationRow
<1>4. a.pc = "back" /\ agent' = [agent EXCEPT ![g] = [agent[g] EXCEPT ![d] = a]]
  BY <1>1 DEF Step
<1> HIDE DEF a
<1>5. Goes(g, d, a)
  BY <1>2, <1>4 DEF Goes
<1>6. Works(g, d, a)
  BY <1>2, <1>3, <1>4 DEF Works, AtWork
<1> QED BY <1>2, <1>5, <1>6 DEF Flows

\* A specialist moves on, the task as it is, and writes nothing.
LEMMA MovesFlow ==
    ASSUME SupInv, NEW g \in Runs, NEW d \in Ids, NEW a,
           agent[g][d].pc \notin {"out", "back", "parked", "raised"}, a.pc # "out",
           a.pc = "back" => Settled(d), a.pc = "ready" => deleg[d].progress = "none",
           a.pc = "counted" => agent[g][d].pc = "ready" /\ ~RefusesRerun(d),
           a.pc \in AtWork => agent[g][d].pc \in AtWork \/ ~Settled(d),
           agent' = [agent EXCEPT ![g] = [agent[g] EXCEPT ![d] = a]],
           UNCHANGED <<graph, saved, task, deleg>>, trace'.overlap = trace.overlap
    PROVE  Flows(g, d)
<1>1. Goes(g, d, a)
  BY DEF Goes
<1>2. Works(g, d, a)
  BY DEF Works, Settled
<1> QED BY <1>1, <1>2, RowsFlowUntouched DEF Flows

LEMMA TicksFlow ==
    ASSUME SidesOK, NEW late, Tick(late) PROVE trace'.overlap = trace.overlap
BY DEF SidesOK, Tick

\* The work that is reused is completed, and has its result.
LEMMA EnterFlows ==
    ASSUME SupInv, RowsAreHonest, NEW g \in Runs, NEW d \in Ids, graph[g].pc = "agents",
           Enter(g, d)
    PROVE  Flows(g, d)
<1>1. /\ agent[g][d] \in [pc : AgentPC, outcome : Outcomes] /\ deleg[d] \in DelegationRow
      /\ agent[g][d].pc = "sent" /\ UNCHANGED <<graph, saved, task, trace>>
  BY DEF SupInv, RowsOK, AgentsOK, Enter, Working, Aside
<1>2. CASE Reuse(d) /\ Step(g, d, "back")
  <2>1. PICK e \in Cached(d) :
          FinishRun(d, [deleg[d] EXCEPT !.result = deleg[e].result,
                                        !.progress = deleg[e].progress])
    BY <1>2 DEF Reuse
  <2>2. deleg[e] \in DelegationRow /\ deleg[e].result # "none"
    BY DEF Cached, Created, SupInv, RowsOK, RowsAreHonest, Settled
  <2> DEFINE first == [deleg[d] EXCEPT !.result = deleg[e].result]
             row == [first EXCEPT !.progress = deleg[e].progress]
  <2>3. /\ first \in DelegationRow /\ first.result # "none" /\ first.agent = deleg[d].agent
        /\ first.calls = deleg[d].calls
    BY <1>1, <2>2 DEF DelegationRow
  <2>4. /\ row \in DelegationRow /\ row.result # "none" /\ row.agent = deleg[d].agent
        /\ row.calls = deleg[d].calls
    <3> HIDE DEF first
    <3> QED BY <2>2, <2>3 DEF DelegationRow
  <2>5. FinishRun(d, row)
    BY <2>1
  <2> HIDE DEF row
  <2> QED BY <1>1, <1>2, <2>4, <2>5, EndsFlow
<1>3. ASSUME NEW pc \in {"raised", "back", "starting"}, Step(g, d, pc), UNCHANGED deleg,
             pc = "back" => Settled(d), pc = "starting" => ~Settled(d)
      PROVE  Flows(g, d)
  <2> DEFINE a == [agent[g][d] EXCEPT !.pc = pc]
  <2>1. a.pc = pc /\ agent' = [agent EXCEPT ![g] = [agent[g] EXCEPT ![d] = a]]
    BY <1>1, <1>3 DEF Step
  <2> HIDE DEF a
  <2>2. pc \notin {"out", "ready"} /\ (pc \in AtWork => ~Settled(d))
    BY <1>3 DEF AtWork
  <2> QED BY <1>1, <1>3, <2>1, <2>2, MovesFlow
<1> QED BY <1>2, <1>3 DEF Enter

LEMMA StartFlowsOn ==
    ASSUME SupInv, NEW g \in Runs, NEW d \in Ids, graph[g].pc = "agents", Start(g, d)
    PROVE  Flows(g, d)
<1>1. /\ agent[g][d] \in [pc : AgentPC, outcome : Outcomes] /\ deleg[d] \in DelegationRow
      /\ agent[g][d].pc = "starting" /\ UNCHANGED <<graph, saved, task, trace>> /\ RowsOK
  BY DEF SupInv, RowsOK, AgentsOK, Start, Working, Aside
<1>2. ASSUME NEW pc \in {"raised", "planning"}, Step(g, d, pc), UNCHANGED deleg \/ StartRun(d)
      PROVE  Flows(g, d)
  <2> DEFINE a == [agent[g][d] EXCEPT !.pc = pc]
  <2>1. a.pc = pc /\ agent' = [agent EXCEPT ![g] = [agent[g] EXCEPT ![d] = a]]
    BY <1>1, <1>2 DEF Step
  <2> HIDE DEF a
  <2>2. \A e \in Ids : RowFlows(e)
    BY <1>1, <1>2, StartFlows, RowsFlowUntouched
  <2>3. \A e \in Ids \ {d} : deleg'[e] = deleg[e]
    BY <1>1, <1>2 DEF StartRun, RowsOK
  <2>4. /\ deleg'[d].agent = deleg[d].agent /\ deleg'[d].result = deleg[d].result
        /\ deleg'[d].calls = deleg[d].calls /\ deleg'[d].active = deleg[d].active
        /\ deleg'[d].progress = deleg[d].progress
    BY <1>1, <1>2 DEF StartRun, RowsOK, DelegationRow
  <2>5. Goes(g, d, a)
    BY <1>1, <2>1, <2>3 DEF Goes
  <2>6. Works(g, d, a)
    BY <1>1, <2>1, <2>4 DEF Works, AtWork
  <2> QED BY <2>2, <2>5, <2>6 DEF Flows
<1> QED BY <1>2 DEF Start

LEMMA PlanWorkFlows ==
    ASSUME SupInv, NEW g \in Runs, NEW d \in Ids, PlanWork(g, d) PROVE Flows(g, d)
<1>1. /\ agent[g][d] \in [pc : AgentPC, outcome : Outcomes] /\ SidesOK
      /\ agent[g][d].pc = "planning" /\ UNCHANGED <<graph, saved, task, deleg>>
  BY DEF SupInv, AgentsOK, PlanWork, Working, Aside
<1>2. PICK late \in BOOLEAN, pc \in {"failing", "ready", "reporting"} :
        Tick(late) /\ Step(g, d, pc) /\ (pc = "ready" => deleg[d].progress = "none")
  <2>1. PICK late \in BOOLEAN :
          /\ Tick(late)
          /\ Step(g, d, IF ~Bounded(late) THEN "failing"
                        ELSE IF deleg[d].progress = "none" THEN "ready" ELSE "reporting")
    BY DEF PlanWork, Lateness
  <2> DEFINE pc == IF ~Bounded(late) THEN "failing"
                   ELSE IF deleg[d].progress = "none" THEN "ready" ELSE "reporting"
  <2>2. pc \in {"failing", "ready", "reporting"} /\ (pc = "ready" => deleg[d].progress = "none")
    OBVIOUS
  <2>3. Tick(late) /\ Step(g, d, pc)
    BY <2>1
  <2> HIDE DEF pc
  <2> QED BY <2>2, <2>3
<1> DEFINE a == [agent[g][d] EXCEPT !.pc = pc]
<1>3. a.pc = pc /\ agent' = [agent EXCEPT ![g] = [agent[g] EXCEPT ![d] = a]]
  BY <1>1, <1>2 DEF Step
<1> HIDE DEF a
<1>4. agent[g][d].pc \in AtWork /\ trace'.overlap = trace.overlap
  BY <1>1, <1>2, TicksFlow DEF AtWork
<1> QED BY <1>1, <1>2, <1>3, <1>4, MovesFlow

\* A call is counted where no interrupted one is noted, or the work fails.
LEMMA CountFlows ==
    ASSUME SupInv, NEW g \in Runs, NEW d \in Ids, Count(g, d) PROVE Flows(g, d)
<1>1. /\ agent[g][d] \in [pc : AgentPC, outcome : Outcomes] /\ SidesOK
      /\ agent[g][d].pc = "ready" /\ UNCHANGED <<graph, saved, task, deleg>>
  BY DEF SupInv, AgentsOK, Count, Working, Aside
<1>2. PICK late \in BOOLEAN, pc \in {"counted", "failing"} :
        Tick(late) /\ Step(g, d, pc) /\ (pc = "counted" => ~RefusesRerun(d))
  <2>1. PICK late \in BOOLEAN :
          LET tried == Bounded(late) /\ ~RefusesRerun(d)
          IN /\ Tick(late)
             /\ Step(g, d, IF tried /\ ~Refuses("tools", "model", late) THEN "counted"
                           ELSE "failing")
    BY DEF Count, Lateness
  <2> DEFINE pc == IF Bounded(late) /\ ~RefusesRerun(d) /\ ~Refuses("tools", "model", late)
                   THEN "counted" ELSE "failing"
  <2>2. pc \in {"counted", "failing"} /\ (pc = "counted" => ~RefusesRerun(d))
    OBVIOUS
  <2>3. Tick(late) /\ Step(g, d, pc)
    BY <2>1
  <2> HIDE DEF pc
  <2> QED BY <2>2, <2>3
<1> DEFINE a == [agent[g][d] EXCEPT !.pc = pc]
<1>3. a.pc = pc /\ agent' = [agent EXCEPT ![g] = [agent[g] EXCEPT ![d] = a]]
  BY <1>1, <1>2 DEF Step
<1> HIDE DEF a
<1>4. agent[g][d].pc \in AtWork /\ trace'.overlap = trace.overlap
  BY <1>1, <1>2, TicksFlow DEF AtWork
<1> QED BY <1>1, <1>2, <1>3, <1>4, MovesFlow

\* What was counted is called.
LEMMA CallFlows ==
    ASSUME SupInv, NEW g \in Runs, NEW d \in Ids, Call(g, d) PROVE Flows(g, d)
<1>1. /\ agent[g][d] \in [pc : AgentPC, outcome : Outcomes]
      /\ deleg \in [Ids -> DelegationRow] /\ deleg[d] \in DelegationRow
      /\ agent[g][d].pc = "counted" /\ UNCHANGED <<graph, saved, task, trace>>
      /\ Step(g, d, "calling")
      /\ deleg' = [deleg EXCEPT ![d].active = TRUE, ![d].calls = @ + 1]
  BY DEF SupInv, RowsOK, AgentsOK, Call, Working, Aside
<1> DEFINE a == [agent[g][d] EXCEPT !.pc = "calling"]
<1>2. a.pc = "calling" /\ agent' = [agent EXCEPT ![g] = [agent[g] EXCEPT ![d] = a]]
  BY <1>1 DEF Step
<1> HIDE DEF a
<1>3. /\ \A e \in Ids \ {d} : deleg'[e] = deleg[e]
      /\ deleg'[d].agent = deleg[d].agent /\ deleg'[d].result = deleg[d].result
      /\ deleg'[d].status = deleg[d].status
      /\ deleg'[d].calls = deleg[d].calls + 1 /\ deleg'[d].active
  BY <1>1 DEF DelegationRow
<1>4. Goes(g, d, a)
  BY <1>1, <1>2, <1>3 DEF Goes
<1>5. Works(g, d, a)
  BY <1>1, <1>2, <1>3 DEF Works, AtWork
<1>6. \A e \in Ids : RowFlows(e)
  BY <1>3 DEF RowFlows, Settled
<1> QED BY <1>4, <1>5, <1>6 DEF Flows

\* A call returns with its progress, or to a task that has stopped.
LEMMA ReturnFlows ==
    ASSUME SupInv, NEW g \in Runs, NEW d \in Ids, Return(g, d) PROVE Flows(g, d)
<1>1. /\ agent[g][d] \in [pc : AgentPC, outcome : Outcomes] /\ SidesOK
      /\ deleg \in [Ids -> DelegationRow] /\ deleg[d] \in DelegationRow
      /\ agent[g][d].pc = "calling" /\ UNCHANGED <<graph, saved, task>>
  BY DEF SupInv, RowsOK, AgentsOK, Return, Working, Aside
<1>2. PICK late, bounded \in BOOLEAN, got \in {"evidence", "errors"} :
        /\ Tick(late) /\ Step(g, d, IF bounded THEN "reporting" ELSE "failing")
        /\ deleg' = IF bounded
                    THEN [deleg EXCEPT ![d].active = FALSE, ![d].progress = got] ELSE deleg
  <2>1. PICK late \in BOOLEAN, got \in {"evidence", "errors"} :
          /\ Tick(late)
          /\ Step(g, d, IF Bounded(late) THEN "reporting" ELSE "failing")
          /\ deleg' = IF Bounded(late)
                      THEN [deleg EXCEPT ![d].active = FALSE, ![d].progress = got] ELSE deleg
    BY DEF Return, Lateness
  <2> DEFINE bounded == Bounded(late)
  <2>2. bounded \in BOOLEAN
    BY DEF Bounded
  <2>3. /\ Tick(late) /\ Step(g, d, IF bounded THEN "reporting" ELSE "failing")
        /\ deleg' = IF bounded
                    THEN [deleg EXCEPT ![d].active = FALSE, ![d].progress = got] ELSE deleg
    BY <2>1
  <2> HIDE DEF bounded
  <2> QED BY <2>2, <2>3
<1> DEFINE pc == IF bounded THEN "reporting" ELSE "failing"
           a == [agent[g][d] EXCEPT !.pc = pc]
<1>3. a.pc = pc /\ agent' = [agent EXCEPT ![g] = [agent[g] EXCEPT ![d] = a]]
  BY <1>1, <1>2 DEF Step
<1>4. trace'.overlap = trace.overlap
  BY <1>1, <1>2, TicksFlow
<1> HIDE DEF a
<1>5. CASE bounded
  <2>1. /\ \A e \in Ids \ {d} : deleg'[e] = deleg[e]
        /\ deleg'[d].agent = deleg[d].agent /\ deleg'[d].result = deleg[d].result
        /\ deleg'[d].status = deleg[d].status
        /\ deleg'[d].calls = deleg[d].calls /\ deleg'[d].progress # "none"
    BY <1>1, <1>2, <1>5 DEF DelegationRow
  <2>2. Goes(g, d, a)
    BY <1>1, <1>3, <1>4, <1>5, <2>1 DEF Goes
  <2>3. Works(g, d, a)
    BY <1>1, <1>2, <1>3, <1>5, <2>1 DEF Works, AtWork
  <2>4. \A e \in Ids : RowFlows(e)
    BY <2>1 DEF RowFlows, Settled
  <2> QED BY <2>2, <2>3, <2>4 DEF Flows
<1>6. CASE ~bounded
  BY <1>1, <1>2, <1>3, <1>4, <1>6, MovesFlow DEF AtWork
<1> QED BY <1>5, <1>6

\* Only a specialist that reads waits for an approval.
LEMMA ParkFlows ==
    ASSUME SupInv, NEW g \in Runs, NEW d \in Ids, Park(g, d) PROVE Flows(g, d)
<1>1. /\ agent[g][d] \in [pc : AgentPC, outcome : Outcomes] /\ SidesOK
      /\ deleg \in [Ids -> DelegationRow] /\ deleg[d] \in DelegationRow
      /\ agent[g][d].pc = "calling" /\ UNCHANGED <<graph, saved, trace>>
      /\ task.status = "RUNNING" /\ task' = [task EXCEPT !.status = "WAITING_USER"]
      /\ deleg[d].agent \notin Analysts /\ Step(g, d, "parked")
      /\ deleg' = [deleg EXCEPT ![d].active = FALSE]
  BY DEF SupInv, RowsOK, AgentsOK, Park, Working, Aside
<1> DEFINE a == [agent[g][d] EXCEPT !.pc = "parked"]
<1>2. a.pc = "parked" /\ agent' = [agent EXCEPT ![g] = [agent[g] EXCEPT ![d] = a]]
  BY <1>1 DEF Step
<1> HIDE DEF a
<1>3. /\ \A e \in Ids \ {d} : deleg'[e] = deleg[e]
      /\ deleg'[d].agent = deleg[d].agent /\ deleg'[d].result = deleg[d].result
      /\ deleg'[d].status = deleg[d].status
  BY <1>1 DEF DelegationRow
<1>4. Goes(g, d, a)
  BY <1>1, <1>2, <1>3 DEF Goes, SidesOK
<1>5. Works(g, d, a)
  BY <1>1, <1>2, <1>3 DEF Works, AtWork
<1>6. \A e \in Ids : RowFlows(e)
  BY <1>3 DEF RowFlows, Settled
<1> QED BY <1>4, <1>5, <1>6 DEF Flows

LEMMA ReportFlows ==
    ASSUME SupInv, NEW g \in Runs, NEW d \in Ids, Report(g, d) PROVE Flows(g, d)
<1>1. /\ SidesOK /\ agent[g][d].pc = "reporting" /\ UNCHANGED <<graph, saved, task, deleg>>
  BY DEF SupInv, Report, Working, Aside
<1>2. PICK late, a : /\ Tick(late) /\ a.pc \in {"finishing", "failing"}
                     /\ agent' = [agent EXCEPT ![g] = [agent[g] EXCEPT ![d] = a]]
  <2>1. PICK late, outcome :
          /\ Tick(late)
          /\ agent' = [agent EXCEPT ![g][d] =
                IF Bounded(late) THEN [pc |-> "finishing", outcome |-> outcome]
                                 ELSE [pc |-> "failing", outcome |-> "failed"]]
    BY DEF Report
  <2> DEFINE a == IF Bounded(late) THEN [pc |-> "finishing", outcome |-> outcome]
                                   ELSE [pc |-> "failing", outcome |-> "failed"]
  <2>2. a.pc \in {"finishing", "failing"}
    OBVIOUS
  <2>3. agent' = [agent EXCEPT ![g] = [agent[g] EXCEPT ![d] = a]]
    BY <2>1
  <2> HIDE DEF a
  <2> QED BY <2>1, <2>2, <2>3
<1>3. trace'.overlap = trace.overlap
  BY <1>1, <1>2, TicksFlow
<1> QED BY <1>1, <1>2, <1>3, MovesFlow DEF AtWork

LEMMA FinishWorkFlows ==
    ASSUME SupInv, NEW g \in Runs, NEW d \in Ids, graph[g].pc = "agents",
           FinishWork(g, d) \/ FailWork(g, d)
    PROVE  Flows(g, d)
<1>1. /\ agent[g][d] \in [pc : AgentPC, outcome : Outcomes] /\ deleg[d] \in DelegationRow
      /\ agent[g][d].pc \in {"finishing", "failing"} /\ Step(g, d, "back")
      /\ UNCHANGED <<graph, saved, task, trace>>
  BY DEF SupInv, RowsOK, AgentsOK, FinishWork, FailWork, Working, Aside
<1>2. PICK o \in Outcomes : FinishRun(d, [deleg[d] EXCEPT !.result = o])
  <2>1. CASE FinishWork(g, d)
    BY <1>1, <2>1 DEF FinishWork
  <2>2. CASE FailWork(g, d)
    BY <2>2 DEF FailWork, Outcomes
  <2> QED BY <2>1, <2>2
<1> DEFINE row == [deleg[d] EXCEPT !.result = o]
<1>3. /\ row \in DelegationRow /\ row.result # "none" /\ row.agent = deleg[d].agent
      /\ row.calls = deleg[d].calls
  BY <1>1 DEF DelegationRow, Outcomes
<1>4. FinishRun(d, row)
  BY <1>2
<1> HIDE DEF row
<1> QED BY <1>1, <1>3, <1>4, EndsFlow

\* Every step of a specialist.
LEMMA SpecialistFlows ==
    ASSUME SupInv, RowsAreHonest, SpecialistsAreOut, NEW g \in Runs, NEW d \in Ids,
           Specialist(g, d)
    PROVE  Flows(g, d)
<1>1. agent[g][d].pc # "out"
  BY DEF Specialist, Enter, Start, PlanWork, Count, Call, Return, Park, Report, FinishWork, FailWork,
         Working
<1>2. graph[g].pc = "agents"
  BY <1>1 DEF SpecialistsAreOut
<1> QED
  BY <1>2, EnterFlows, StartFlowsOn, PlanWorkFlows, CountFlows, CallFlows, ReturnFlows,
     ParkFlows, ReportFlows, FinishWorkFlows DEF Specialist

-----------------------------------------------------------------------------
(* A node of a graph, other than those that send specialists out or merge.   *)

\* Where a node leads: on, in its group or with the first of other groups; and
\* from the end of a run to no place before it.
Onward(g, u) ==
    /\ u.detached = graph[g].detached /\ u.pc \notin {"idle", "agents"}
    /\ \/ u.group = 1
       \/ u.group = graph[g].group /\ u.groups = graph[g].groups
    /\ graph[g].pc \in Ending => u.pc \in Ending

Passes(g, u) ==
    /\ graph[g].pc \notin {"idle", "agents"} /\ Onward(g, u)
    /\ graph' = [graph EXCEPT ![g] = u]
    /\ saved' \in {saved, NoGraphRun, [u EXCEPT !.detached = FALSE]}
    /\ UNCHANGED agent /\ trace'.overlap = trace.overlap /\ task'.revoking = task.revoking
    /\ \/ task'.status = task.status
       \/ graph[g].pc = "complete" /\ task.status = "RUNNING"
       \/ u.pc = "waiting" /\ task.status = "RUNNING"

NodeFlows(g) ==
    /\ \A d \in Ids : RowFlows(d) /\ RowCalm(d)
    /\ \E u : Passes(g, u)

LEMMA NodePasses ==
    ASSUME SupInv, NEW g \in Runs, graph[g].pc \notin {"idle", "agents"},
           NEW u, Onward(g, u), NodeEnds(g, u) \/ Within(g, u), UNCHANGED agent,
           task'.revoking = task.revoking,
           task'.status # task.status =>
              task.status = "RUNNING" /\ (graph[g].pc = "complete" \/ u.pc = "waiting"),
           UNCHANGED trace \/ \E late \in BOOLEAN : Tick(late),
           \A d \in Ids : RowFlows(d) /\ RowCalm(d)
    PROVE  NodeFlows(g)
<1>1. trace'.overlap = trace.overlap
  BY TicksFlow DEF SupInv
<1>2. /\ graph' = [graph EXCEPT ![g] = u]
      /\ saved' \in {saved, NoGraphRun, [u EXCEPT !.detached = FALSE]}
  BY DEF NodeEnds, Within
<1>3. Passes(g, u)
  BY <1>1, <1>2 DEF Passes
<1> QED BY <1>3 DEF NodeFlows

\* Going on from a graph as it is to another position.
LEMMA ToOnward ==
    ASSUME SupInv, NEW g \in Runs, NEW pc \in GraphPC \ {"idle", "agents"},
           graph[g].pc \in Ending => pc \in Ending
    PROVE  Onward(g, To(g, pc))
BY AtNode DEF Onward, To, Fields

LEMMA ListEndOnward ==
    ASSUME SupInv, NEW g \in Runs, graph[g].pc \notin Ending PROVE Onward(g, To(g, ListEnd(g)))
<1>1. ListEnd(g) \in {"planned", "revised", "reviewed", "reviewing"}
  BY AtNode, ListEndOK
<1> QED BY <1>1, ToOnward DEF GraphPC

LEMMA RouteFlows == ASSUME SupInv, NEW g \in Runs, Route(g) PROVE NodeFlows(g)
<1>1. /\ UNCHANGED <<agent, task, trace, deleg>> /\ Within(g, To(g, "charging"))
      /\ graph[g].pc = "router"
  BY DEF Route, Quiet, Still, CreateSupervisor, At
<1>2. Onward(g, To(g, "charging"))
  BY <1>1, ToOnward DEF GraphPC, Ending
<1> QED BY <1>1, <1>2, NodePasses, RowsFlowUntouched

LEMMA ChargeFlows == ASSUME SupInv, NEW g \in Runs, Charge(g) PROVE NodeFlows(g)
<1>1. /\ UNCHANGED <<agent, task, trace, deleg>> /\ NodeEnds(g, To(g, "plan"))
      /\ graph[g].pc = "charging"
  BY DEF Charge, Quiet, Still, RecordPreOrchestrationCalls, At
<1>2. Onward(g, To(g, "plan"))
  BY <1>1, ToOnward DEF GraphPC, Ending
<1> QED BY <1>1, <1>2, NodePasses, RowsFlowUntouched

LEMMA PlanFlows == ASSUME SupInv, NEW g \in Runs, Plan(g) PROVE NodeFlows(g)
<1>1. /\ UNCHANGED <<agent, task, deleg>> /\ graph[g].pc = "plan"
      /\ UNCHANGED trace \/ \E late \in BOOLEAN : Tick(late)
  BY DEF Plan, Still, runsVars, At, Lateness
<1>2. PICK u : Onward(g, u) /\ (NodeEnds(g, u) \/ Within(g, u))
  <2>1. CASE supervisor.groups # <<>>
    <3> DEFINE u == [To(g, "dispatch") EXCEPT !.groups = supervisor.groups, !.group = 1,
                                              !.round = supervisor.round]
    <3>1. Onward(g, u)
      BY <1>1, AtNode DEF Onward, To, Fields, Ending
    <3>2. NodeEnds(g, u)
      BY <2>1 DEF Plan
    <3> HIDE DEF u
    <3> QED BY <3>1, <3>2
  <2>2. CASE supervisor.groups = <<>>
    <3>1. PICK plan \in Plans :
            Within(g, [To(g, "asking") EXCEPT !.list = plan, !.made = <<>>, !.kind = "work"])
      BY <2>2 DEF Plan
    <3> DEFINE u == [To(g, "asking") EXCEPT !.list = plan, !.made = <<>>, !.kind = "work"]
    <3>2. Onward(g, u)
      BY <1>1, AtNode DEF Onward, To, Fields, Ending
    <3>3. Within(g, u)
      BY <3>1
    <3> HIDE DEF u
    <3> QED BY <3>2, <3>3
  <2> QED BY <2>1, <2>2
<1> QED BY <1>1, <1>2, NodePasses, RowsFlowUntouched

LEMMA AskBudgetFlows == ASSUME SupInv, NEW g \in Runs, AskBudget(g) PROVE NodeFlows(g)
<1>1. UNCHANGED <<agent, task, deleg, trace>> /\ graph[g].pc = "asking"
  BY DEF AskBudget, runsVars, At
<1>2. PICK pc \in {ListEnd(g), "overwriting", "creating"} : Within(g, To(g, pc))
  BY DEF AskBudget
<1>3. Onward(g, To(g, pc))
  BY <1>1, <1>2, ToOnward, ListEndOnward DEF Ending, GraphPC
<1> QED BY <1>1, <1>2, <1>3, NodePasses, RowsFlowUntouched

LEMMA WriteBudgetBackFlows ==
    ASSUME SupInv, NEW g \in Runs, WriteBudgetBack(g) PROVE NodeFlows(g)
<1>1. /\ UNCHANGED <<agent, task, deleg, trace>> /\ graph[g].pc = "overwriting"
      /\ Within(g, To(g, ListEnd(g)))
  BY DEF WriteBudgetBack, At
<1>2. Onward(g, To(g, ListEnd(g)))
  BY <1>1, ListEndOnward DEF Ending
<1> QED BY <1>1, <1>2, NodePasses, RowsFlowUntouched

LEMMA CreateNextPasses == ASSUME SupInv, NEW g \in Runs, CreateNext(g) PROVE NodeFlows(g)
<1>1. /\ UNCHANGED <<agent, task>> /\ graph[g].pc = "creating"
      /\ UNCHANGED trace \/ \E late \in BOOLEAN : Tick(late)
  BY DEF CreateNext, Still, At, Lateness
<1>2. PICK u : u \in {To(g, "broken"), To(g, ListEnd(g)),
                      [To(g, "asking") EXCEPT !.made = Append(@, Cardinality(Created) + 1)]}
               /\ Within(g, u)
  BY DEF CreateNext
<1>3. Onward(g, u)
  <2>1. Onward(g, To(g, "broken")) /\ Onward(g, To(g, ListEnd(g)))
    BY <1>1, ToOnward, ListEndOnward DEF Ending, GraphPC
  <2>2. Onward(g, [To(g, "asking") EXCEPT !.made = Append(@, Cardinality(Created) + 1)])
    BY <1>1, AtNode DEF Onward, To, Fields, Ending
  <2> QED BY <1>2, <2>1, <2>2
<1> QED BY <1>1, <1>2, <1>3, NodePasses, CreateNextFlows

LEMMA StorePlanFlows == ASSUME SupInv, NEW g \in Runs, StorePlan(g) PROVE NodeFlows(g)
<1>1. UNCHANGED <<agent, task, deleg, trace>> /\ graph[g].pc = "planned"
  BY DEF StorePlan, Quiet, Still, At
<1>2. PICK groups :
        NodeEnds(g, [To(g, "dispatch") EXCEPT !.groups = groups, !.group = 1, !.round = 0])
  BY DEF StorePlan
<1>3. Onward(g, [To(g, "dispatch") EXCEPT !.groups = groups, !.group = 1, !.round = 0])
  BY <1>1, AtNode DEF Onward, To, Fields, Ending
<1> QED BY <1>1, <1>2, <1>3, NodePasses, RowsFlowUntouched

LEMMA StopFlows == ASSUME SupInv, NEW g \in Runs, Stop(g) PROVE NodeFlows(g)
<1>1. UNCHANGED <<agent, task, deleg, trace>> /\ graph[g].pc = "stopping"
  BY DEF Stop, Quiet, Still, At, runsVars
<1>2. PICK u \in {To(g, "complete"), [To(g, "final") EXCEPT !.stop = TRUE]} : NodeEnds(g, u)
  BY DEF Stop
<1>3. Onward(g, u)
  BY <1>1, <1>2, AtNode DEF Onward, To, Fields, Ending
<1> QED BY <1>1, <1>2, <1>3, NodePasses, RowsFlowUntouched

LEMMA CountActionFlows == ASSUME SupInv, NEW g \in Runs, CountAction(g) PROVE NodeFlows(g)
<1>1. /\ UNCHANGED <<agent, task, deleg>> /\ graph[g].pc = "actions"
      /\ UNCHANGED trace \/ \E late \in BOOLEAN : Tick(late)
  BY DEF CountAction, Still, At, Lateness
<1>2. PICK pc \in {"review", "acting", "broken"} : NodeEnds(g, To(g, pc)) \/ Within(g, To(g, pc))
  BY DEF CountAction
<1>3. Onward(g, To(g, pc))
  BY <1>1, <1>2, ToOnward DEF GraphPC, Ending
<1> QED BY <1>1, <1>2, <1>3, NodePasses, RowsFlowUntouched

LEMMA ActFlows == ASSUME SupInv, NEW g \in Runs, Act(g) PROVE NodeFlows(g)
<1>1. UNCHANGED <<agent, deleg, trace>> /\ graph[g].pc = "acting" /\ SidesOK
  BY DEF SupInv, Act, At
<1>2. PICK pc \in {"actions", "waiting", "broken"} :
        /\ Within(g, To(g, pc)) /\ task'.revoking = task.revoking
        /\ task'.status # task.status => task.status = "RUNNING" /\ pc = "waiting"
  BY <1>1 DEF Act, SidesOK
<1>3. Onward(g, To(g, pc)) /\ To(g, pc).pc = pc
  BY <1>1, <1>2, ToOnward, AtNode DEF GraphPC, Ending, To, Fields
<1> QED BY <1>1, <1>2, <1>3, NodePasses, RowsFlowUntouched

LEMMA ReviewFlows == ASSUME SupInv, NEW g \in Runs, Review(g) PROVE NodeFlows(g)
<1>1. UNCHANGED <<agent, task, deleg, trace>> /\ graph[g].pc = "review"
  BY DEF Review, Quiet, Still, At, runsVars
<1>2. PICK u : /\ u \in {[To(g, "redelegate") EXCEPT !.review = supervisor.review],
                         To(g, "redelegate"), To(g, "reviewing"),
                         [To(g, "asking") EXCEPT !.list = << <<"reviewer", 1>> >>,
                                                 !.made = <<>>, !.kind = "review"]}
               /\ NodeEnds(g, u) \/ Within(g, u)
  BY DEF Review
<1>3. Onward(g, u)
  BY <1>1, <1>2, AtNode DEF Onward, To, Fields, Ending
<1> QED BY <1>1, <1>2, <1>3, NodePasses, RowsFlowUntouched

LEMMA StartReviewPasses == ASSUME SupInv, NEW g \in Runs, StartReview(g) PROVE NodeFlows(g)
<1>1. UNCHANGED <<agent, task, trace>> /\ graph[g].pc = "reviewing"
  BY DEF StartReview, Quiet, Still, At
<1>2. PICK u : /\ Within(g, u)
               /\ u = To(g, "judging") \/ \E v : u = [To(g, "reviewed") EXCEPT !.review = v]
  BY DEF StartReview
<1>3. Onward(g, u)
  BY <1>1, <1>2, AtNode DEF Onward, To, Fields, Ending
<1> QED BY <1>1, <1>2, <1>3, NodePasses, StartReviewFlows

LEMMA TakeReviewFlows == ASSUME SupInv, NEW g \in Runs, TakeReview(g) PROVE NodeFlows(g)
<1>1. UNCHANGED <<agent, task, deleg, trace>> /\ graph[g].pc = "reviewing"
  BY DEF TakeReview, Quiet, Still, At
<1>2. PICK u : /\ NodeEnds(g, u) \/ Within(g, u)
               /\ u = To(g, "broken") \/ \E v : u = [To(g, "redelegate") EXCEPT !.review = v]
  BY DEF TakeReview
<1>3. Onward(g, u)
  BY <1>1, <1>2, AtNode DEF Onward, To, Fields, Ending
<1> QED BY <1>1, <1>2, <1>3, NodePasses, RowsFlowUntouched

LEMMA RequireReviewFlows == ASSUME SupInv, NEW g \in Runs, RequireReview(g) PROVE NodeFlows(g)
<1>1. /\ UNCHANGED <<agent, task, deleg, trace>> /\ graph[g].pc = "reviewed"
      /\ Within(g, To(g, "broken"))
  BY DEF RequireReview, Quiet, Still, At, runsVars
<1>2. Onward(g, To(g, "broken"))
  BY <1>1, ToOnward DEF GraphPC, Ending
<1> QED BY <1>1, <1>2, NodePasses, RowsFlowUntouched

LEMMA FinishReviewPasses == ASSUME SupInv, NEW g \in Runs, FinishReview(g) PROVE NodeFlows(g)
<1>1. UNCHANGED <<agent, task>> /\ graph[g].pc = "judging"
  BY DEF FinishReview, Still, At
<1>2. PICK late \in BOOLEAN, verdict \in {"pass", "revise"} :
        Tick(late) /\ Within(g, [To(g, "reviewed") EXCEPT !.review = verdict])
  BY DEF FinishReview, Lateness
<1>3. Onward(g, [To(g, "reviewed") EXCEPT !.review = verdict])
  BY <1>1, AtNode DEF Onward, To, Fields, Ending
<1> QED BY <1>1, <1>2, <1>3, NodePasses, FinishReviewFlows

LEMMA StoreReviewFlows == ASSUME SupInv, NEW g \in Runs, StoreReview(g) PROVE NodeFlows(g)
<1>1. UNCHANGED <<agent, task, deleg, trace>> /\ graph[g].pc = "reviewed"
  BY DEF StoreReview, Quiet, Still, At
<1>2. PICK review : NodeEnds(g, [To(g, "redelegate") EXCEPT !.review = review])
  BY DEF StoreReview
<1>3. Onward(g, [To(g, "redelegate") EXCEPT !.review = review])
  BY <1>1, AtNode DEF Onward, To, Fields, Ending
<1> QED BY <1>1, <1>2, <1>3, NodePasses, RowsFlowUntouched

LEMMA RedelegateFlows == ASSUME SupInv, NEW g \in Runs, Redelegate(g) PROVE NodeFlows(g)
<1>1. UNCHANGED <<agent, task, deleg, trace>> /\ graph[g].pc = "redelegate"
  BY DEF Redelegate, Quiet, Still, At, runsVars
<1>2. PICK u : /\ NodeEnds(g, u) \/ Within(g, u)
               /\ \/ u = To(g, "complete")
                  \/ u = [To(g, "dispatch") EXCEPT !.groups = supervisor.revisions,
                                                   !.group = 1, !.round = 1]
                  \/ \E list : u = [To(g, "asking") EXCEPT !.made = <<>>, !.kind = "revision",
                                                           !.list = list]
  <2>1. CASE \E agents \in SUBSET Specialists :
               Within(g, [To(g, "asking") EXCEPT !.made = <<>>, !.kind = "revision",
                            !.list = [i \in 1..Cardinality(agents) |->
                                        <<SetToSeq(agents)[i], 1>>]])
    <3>1. PICK agents \in SUBSET Specialists :
               Within(g, [To(g, "asking") EXCEPT !.made = <<>>, !.kind = "revision",
                            !.list = [i \in 1..Cardinality(agents) |->
                                        <<SetToSeq(agents)[i], 1>>]])
      BY <2>1
    <3> DEFINE list == [i \in 1..Cardinality(agents) |-> <<SetToSeq(agents)[i], 1>>]
    <3>2. Within(g, [To(g, "asking") EXCEPT !.made = <<>>, !.kind = "revision", !.list = list])
      BY <3>1
    <3> HIDE DEF list
    <3> QED BY <3>2
  <2> QED BY <2>1 DEF Redelegate
<1>3. Onward(g, u)
  BY <1>1, <1>2, AtNode DEF Onward, To, Fields, Ending
<1> QED BY <1>1, <1>2, <1>3, NodePasses, RowsFlowUntouched

LEMMA StoreRevisionsFlows ==
    ASSUME SupInv, NEW g \in Runs, StoreRevisions(g) PROVE NodeFlows(g)
<1>1. UNCHANGED <<agent, task, deleg, trace>> /\ graph[g].pc = "revised"
  BY DEF StoreRevisions, Quiet, Still, At
<1>2. PICK groups : \E pc \in {"complete", "dispatch"} :
        NodeEnds(g, [To(g, pc) EXCEPT !.groups = groups, !.group = 1, !.round = 1])
  BY DEF StoreRevisions
<1>3. PICK pc \in {"complete", "dispatch"} :
        NodeEnds(g, [To(g, pc) EXCEPT !.groups = groups, !.group = 1, !.round = 1])
  BY <1>2
<1>4. Onward(g, [To(g, pc) EXCEPT !.groups = groups, !.group = 1, !.round = 1])
  BY <1>1, AtNode DEF Onward, To, Fields, Ending
<1> QED BY <1>1, <1>3, <1>4, NodePasses, RowsFlowUntouched

LEMMA CompleteFlows == ASSUME SupInv, NEW g \in Runs, Complete(g) PROVE NodeFlows(g)
<1>1. UNCHANGED <<agent, deleg, trace>> /\ graph[g].pc = "complete" /\ SidesOK
  BY DEF SupInv, Complete, At, runsVars
<1>2. /\ task'.revoking = task.revoking
      /\ task'.status # task.status => task.status = "RUNNING"
  BY <1>1 DEF Complete, SidesOK
<1>3. PICK u : /\ NodeEnds(g, u) \/ Within(g, u)
               /\ u = To(g, "broken") \/ \E stop : u = [To(g, "final") EXCEPT !.stop = stop]
  <2>1. PICK stop : \/ Within(g, To(g, "broken"))
                    \/ NodeEnds(g, [To(g, "final") EXCEPT !.stop = stop])
    <3> DEFINE stop == To(g, "final").stop \/ (task.cancel \/ task.pause)
    <3>1. \/ Within(g, To(g, "broken"))
          \/ NodeEnds(g, [To(g, "final") EXCEPT !.stop = stop])
      BY DEF Complete
    <3> QED BY <3>1
  <2> QED BY <2>1
<1>4. Onward(g, u)
  BY <1>1, <1>3, AtNode DEF Onward, To, Fields, Ending
<1> QED BY <1>1, <1>2, <1>3, <1>4, NodePasses, RowsFlowUntouched

LEMMA FinalizeFlows == ASSUME SupInv, NEW g \in Runs, Finalize(g) PROVE NodeFlows(g)
<1>1. /\ UNCHANGED <<agent, deleg>> /\ graph[g].pc = "final" /\ SidesOK
      /\ UNCHANGED trace \/ \E late \in BOOLEAN : Tick(late)
  BY DEF SupInv, Finalize, At, runsVars, Lateness
<1>2. task'.revoking = task.revoking /\ task'.status = task.status
  BY <1>1 DEF Finalize, SidesOK
<1>3. PICK u \in {To(g, "end"), To(g, "memory")} : NodeEnds(g, u)
  BY DEF Finalize
<1>4. Onward(g, u)
  BY <1>1, <1>3, AtNode DEF Onward, To, Fields, Ending
<1> QED BY <1>1, <1>2, <1>3, <1>4, NodePasses, RowsFlowUntouched

LEMMA RememberFlows == ASSUME SupInv, NEW g \in Runs, Remember(g) PROVE NodeFlows(g)
<1>1. UNCHANGED <<agent, task, deleg, trace>> /\ graph[g].pc = "memory"
  BY DEF Remember, Quiet, Still, At, runsVars, ClaimMemory
<1>2. PICK u \in {To(g, "end"), To(g, "extracting")} : NodeEnds(g, u) \/ Within(g, u)
  BY DEF Remember
<1>3. Onward(g, u)
  BY <1>1, <1>2, AtNode DEF Onward, To, Fields, Ending
<1> QED BY <1>1, <1>2, <1>3, NodePasses, RowsFlowUntouched

LEMMA ExtractFlows == ASSUME SupInv, NEW g \in Runs, Extract(g) PROVE NodeFlows(g)
<1>1. /\ UNCHANGED <<agent, task, deleg>> /\ graph[g].pc = "extracting" /\ SidesOK
      /\ NodeEnds(g, To(g, "end"))
      /\ \E late : trace' = [trace EXCEPT !.extractions = @ + 1, !.events = @ + One(late)]
  BY DEF SupInv, Extract, At
<1>2. trace'.overlap = trace.overlap
  BY <1>1 DEF SidesOK
<1>3. Onward(g, To(g, "end"))
  BY <1>1, AtNode DEF Onward, To, Fields, Ending
<1>4. Passes(g, To(g, "end"))
  BY <1>1, <1>2, <1>3 DEF Passes, NodeEnds
<1> QED BY <1>1, <1>4, RowsFlowUntouched DEF NodeFlows

\* The nodes that neither send specialists out nor merge, nor end a run.
Node(g) ==
    \/ Route(g) \/ Charge(g) \/ Plan(g) \/ AskBudget(g) \/ WriteBudgetBack(g) \/ CreateNext(g)
    \/ StorePlan(g) \/ Stop(g) \/ CountAction(g) \/ Act(g) \/ Review(g) \/ TakeReview(g)
    \/ StartReview(g) \/ FinishReview(g) \/ RequireReview(g) \/ StoreReview(g)
    \/ Redelegate(g) \/ StoreRevisions(g)
    \/ Complete(g) \/ Finalize(g) \/ Remember(g) \/ Extract(g)

LEMMA EveryNodeFlows == ASSUME SupInv, NEW g \in Runs, Node(g) PROVE NodeFlows(g)
<1>4. CASE CountAction(g) \/ Act(g) \/ TakeReview(g) \/ RequireReview(g)
  BY <1>4, CountActionFlows, ActFlows, TakeReviewFlows, RequireReviewFlows
<1>1. CASE Route(g) \/ Charge(g) \/ Plan(g) \/ AskBudget(g) \/ WriteBudgetBack(g) \/ CreateNext(g)
  BY <1>1, RouteFlows, ChargeFlows, PlanFlows, AskBudgetFlows, WriteBudgetBackFlows, CreateNextPasses
<1>2. CASE StorePlan(g) \/ Stop(g) \/ Review(g) \/ StartReview(g) \/ FinishReview(g)
  BY <1>2, StorePlanFlows, StopFlows, ReviewFlows, StartReviewPasses, FinishReviewPasses
<1>3. CASE \/ StoreReview(g) \/ Redelegate(g) \/ StoreRevisions(g) \/ Complete(g)
           \/ Finalize(g) \/ Remember(g) \/ Extract(g)
  BY <1>3, StoreReviewFlows, RedelegateFlows, StoreRevisionsFlows, CompleteFlows, FinalizeFlows,
     RememberFlows, ExtractFlows
<1> QED BY <1>1, <1>2, <1>3, <1>4 DEF Node

-----------------------------------------------------------------------------
(* The invariant of the flow is kept, kind of step by kind of step.          *)

LEMMA PassedLasts ==
    ASSUME NEW r, NEW s, NEW t, s \subseteq t, Passed(r, s) PROVE Passed(r, t)
BY DEF Passed

LEMMA ResultsGrow == ASSUME ResultsKept PROVE Results \subseteq Results'
BY DEF ResultsKept, Results, Settled

\* What is known of the groups of a graph, and of its checkpoint.
LEMMA GroupsTyped ==
    ASSUME SupInv, NEW g \in Runs
    PROVE  /\ graph[g].groups \in Seq(SUBSET Created) /\ DOMAIN graph[g] = Fields
           /\ Len(graph[g].groups) \in Nat
           /\ graph[g].pc \in {"dispatch", "agents"} =>
                 graph[g].group \in 1..Len(graph[g].groups)
BY DEF SupInv, GraphsOK, GraphOK

\* A checkpoint is of a graph as it comes to be, and knows no more of its groups.
LEMMA GroupsPass ==
    ASSUME SupInv, SupInv', ResultsKept, GroupsArePassed, NEW g \in Runs, NEW u,
           graph' = [graph EXCEPT ![g] = u], Passed(u, Results'),
           saved' \in {saved, NoGraphRun, [u EXCEPT !.detached = FALSE]}
    PROVE  GroupsArePassed'
<1>1. Results \subseteq Results'
  BY ResultsGrow
<1>2. graph'[g] = u /\ \A h \in Runs \ {g} : graph'[h] = graph[h]
  BY DEF SupInv, GraphsOK
<1>3. \A h \in Runs : Passed(graph'[h], Results')
  BY <1>1, <1>2, PassedLasts DEF GroupsArePassed
<1>4. Passed(saved', Results')
  <2>1. Passed(saved, Results')
    BY <1>1, PassedLasts DEF GroupsArePassed
  <2>2. Passed(NoGraphRun, Results')
    BY DEF Passed, NoGraphRun, Fresh
  <2>3. DOMAIN u = Fields
    BY <1>2 DEF SupInv, GraphsOK, GraphOK
  <2>4. Passed([u EXCEPT !.detached = FALSE], Results')
    BY <2>3 DEF Passed, Fields
  <2> QED BY <2>1, <2>2, <2>4
<1> QED BY <1>3, <1>4 DEF GroupsArePassed

\* Beside a graph that is entered the others are at rest, and nobody is out for them.
LEMMA OthersRest ==
    ASSUME SupInv, SpecialistsAreOut, GraphsAlternate, NEW g \in Runs, graph[g].pc # "idle"
    PROVE  \A h \in Runs \ {g} : /\ graph[h].pc = "idle"
                                 /\ \A d \in Ids : agent[h][d].pc = "out"
BY DEF SpecialistsAreOut, GraphsAlternate

\* A calm row is as good as before.
LEMMA CalmRows ==
    ASSUME ResultsKept, CalledOnce, \A d \in Ids : RowCalm(d)
    PROVE  \A d \in Ids : deleg'[d].agent \in Analysts =>
              /\ deleg'[d].calls <= 1
              /\ deleg'[d].calls = 1 =>
                    deleg'[d].active \/ deleg'[d].progress # "none" \/ Settled(d)'
BY DEF ResultsKept, CalledOnce, RowCalm, Settled

\* After a node nobody is out for its graph, as before.
LEMMA NodeKeepsFlow ==
    ASSUME SupInv, GraphsFlow, Keeps, NEW g \in Runs, NodeFlows(g) PROVE GraphsFlow'
<1>1. PICK u : Passes(g, u)
  BY DEF NodeFlows
<1>2. /\ graph' = [graph EXCEPT ![g] = u] /\ graph'[g] = u
      /\ \A h \in Runs \ {g} : graph'[h] = graph[h]
      /\ agent' = agent /\ trace'.overlap = trace.overlap /\ Onward(g, u)
      /\ graph[g].pc \notin {"idle", "agents"} /\ u.pc \notin {"idle", "agents"}
  BY <1>1 DEF Passes, Onward, SupInv, GraphsOK
<1>3. SpecialistsAreOut'
  BY <1>2 DEF GraphsFlow, SpecialistsAreOut
<1>4. BackIsSettled'
  BY <1>2 DEF GraphsFlow, BackIsSettled, Keeps, ResultsKept, Settled
<1>5. GroupsArePassed'
  <2>1. Results \subseteq Results'
    BY ResultsGrow DEF Keeps
  <2>2. Passed(u, Results')
    <3>1. CASE u.group = 1
      <4>1. Len(u.groups) \in Nat
        BY <1>2, GroupsTyped DEF Keeps, SupInv, GraphsOK, GraphOK
      <4> QED BY <3>1, <4>1 DEF Passed
    <3>2. CASE u.group = graph[g].group /\ u.groups = graph[g].groups
      BY <2>1, <3>2 DEF Passed, GraphsFlow, GroupsArePassed
    <3> QED BY <1>2, <3>1, <3>2 DEF Onward
  <2> QED BY <1>1, <2>2, GroupsPass DEF GraphsFlow, Keeps, Passes
<1>6. ASSUME ~trace'.overlap PROVE (GraphsAlternate /\ CalledOnce /\ WorkIsWanted)'
  <2>1. GraphsAlternate /\ CalledOnce /\ WorkIsWanted
    BY <1>2, <1>6 DEF GraphsFlow
  <2>2. \A h \in Runs \ {g} : graph[h].pc = "idle" /\ \A d \in Ids : agent[h][d].pc = "out"
    BY <1>2, <2>1, OthersRest DEF GraphsFlow
  <2>3. \A h \in Runs, d \in Ids : agent[h][d].pc = "out"
    BY <1>2, <2>2 DEF GraphsFlow, SpecialistsAreOut
  <2>4. GraphsAlternate'
    BY <1>2, <2>2 DEF GraphsAlternate
  <2>5. CalledOnce'
    <3>1. \A h \in Runs, d \in Ids : agent'[h][d].pc = "out"
      BY <1>2, <2>3
    <3>2. \A d \in Ids : RowCalm(d)
      BY DEF NodeFlows
    <3>3. \A d \in Ids : deleg'[d].agent \in Analysts =>
             /\ deleg'[d].calls <= 1
             /\ deleg'[d].calls = 1 =>
                   deleg'[d].active \/ deleg'[d].progress # "none" \/ Settled(d)'
      BY <2>1, <3>2, CalmRows DEF Keeps
    <3> QED BY <3>1, <3>3 DEF CalledOnce, AtWork
  <2>6. WorkIsWanted'
    <3>1. \A h \in Runs \ {g} : graph'[h].pc \in Ending
      BY <1>2, <2>2 DEF Ending
    <3>2. ASSUME ~u.detached, u.pc \notin Ending PROVE task'.status = "RUNNING"
      <4>1. ~graph[g].detached /\ graph[g].pc \notin Ending
        BY <1>2, <3>2 DEF Onward
      <4>2. task.status = "RUNNING"
        BY <2>1, <2>3, <4>1 DEF WorkIsWanted
      <4> QED BY <1>1, <3>2, <4>1, <4>2 DEF Passes, Ending
    <3> QED BY <1>2, <3>1, <3>2 DEF WorkIsWanted
  <2> QED BY <2>4, <2>5, <2>6
<1> QED BY <1>3, <1>4, <1>5, <1>6 DEF GraphsFlow

\* A graph comes to be as u, with the specialists of its group sent out, if it is
\* at one, and nobody else; beside graphs at rest, unless there is an overlap.
LEMMA TurnKeepsFlow ==
    ASSUME SupInv, GraphsFlow, Keeps, NEW g \in Runs, NEW u,
           graph' = [graph EXCEPT ![g] = u], UNCHANGED deleg,
           \A d \in Ids : agent'[g][d].pc = SentBy(u)[d].pc,
           \A h \in Runs \ {g} : agent'[h] = agent[h],
           Passed(u, Results'), saved' \in {saved, NoGraphRun, [u EXCEPT !.detached = FALSE]},
           trace.overlap => trace'.overlap,
           ~trace'.overlap => \A h \in Runs \ {g} : graph[h].pc = "idle",
           ~trace'.overlap /\ ~u.detached /\ u.pc \notin Ending => task'.status = "RUNNING"
    PROVE  GraphsFlow'
<1>1. graph'[g] = u /\ \A h \in Runs \ {g} : graph'[h] = graph[h]
  BY DEF SupInv, GraphsOK
<1>2. \A d \in Ids : agent'[g][d].pc =
         IF u.pc = "agents" /\ d \in u.groups[u.group] THEN "sent" ELSE "out"
  BY DEF SentBy, Out
<1>3. \A h \in Runs, d \in Ids : h # g /\ graph[h].pc = "idle" => agent'[h][d].pc = "out"
  BY DEF GraphsFlow, SpecialistsAreOut
<1>4. SpecialistsAreOut'
  <2>1. u.pc = "agents" => u.groups[u.group] \subseteq Ids
    <3>1. /\ u.groups \in Seq(SUBSET Created')
          /\ u.pc = "agents" => u.group \in 1..Len(u.groups)
      BY <1>1 DEF Keeps, SupInv, GraphsOK, GraphOK
    <3>2. Created' \subseteq Ids
      BY DEF Created
    <3> QED BY <3>1, <3>2
  <2>2. ASSUME NEW h \in Runs
        PROVE  /\ \A d \in Ids : agent'[h][d].pc # "out" => graph'[h].pc = "agents"
               /\ graph'[h].pc = "agents" =>
                     \A d \in graph'[h].groups[graph'[h].group] : agent'[h][d].pc # "out"
    BY <1>1, <1>2, <2>1 DEF GraphsFlow, SpecialistsAreOut
  <2> QED BY <2>2 DEF SpecialistsAreOut
<1>5. BackIsSettled'
  BY <1>2 DEF GraphsFlow, BackIsSettled, Settled
<1>6. GroupsArePassed'
  BY GroupsPass DEF GraphsFlow, Keeps
<1>7. ASSUME ~trace'.overlap PROVE (GraphsAlternate /\ CalledOnce /\ WorkIsWanted)'
  <2>1. GraphsAlternate /\ CalledOnce /\ WorkIsWanted
    BY <1>7 DEF GraphsFlow
  <2>2. GraphsAlternate'
    BY <1>1, <1>7 DEF GraphsAlternate
  <2>3. \A h \in Runs, d \in Ids : agent'[h][d].pc \in {"sent", "out"}
    BY <1>2, <1>3, <1>7
  <2>4. CalledOnce'
    BY <2>1, <2>3 DEF CalledOnce, AtWork, Settled
  <2>5. WorkIsWanted'
    BY <1>1, <1>7 DEF WorkIsWanted, Ending
  <2> QED BY <2>2, <2>4, <2>5
<1> QED BY <1>4, <1>5, <1>6, <1>7 DEF GraphsFlow

\* A group is sent out while the task runs.
LEMMA DispatchFlow ==
    ASSUME SupInv, GraphsFlow, Keeps, NEW g \in Runs, Dispatch(g) PROVE GraphsFlow'
<1>1. /\ graph[g].pc = "dispatch" /\ UNCHANGED <<deleg, task, trace>> /\ AgentsOK
      /\ DOMAIN graph[g] = Fields /\ Results \subseteq Results'
  BY AtNode, ResultsGrow DEF Dispatch, runsVars, At, Keeps
<1>2. PICK u : /\ \/ u = To(g, "agents") /\ task.status = "RUNNING"
                  \/ \E stop : u = [To(g, "stopping") EXCEPT !.stop = stop]
               /\ NodeEnds(g, u) /\ agent' = [agent EXCEPT ![g] = SentBy(u)]
  <2> DEFINE running == task.status = "RUNNING"
             next == IF running /\ graph[g].groups[graph[g].group] # {}
                     THEN To(g, "agents") ELSE [To(g, "stopping") EXCEPT !.stop = ~running]
  <2>1. NodeEnds(g, next) /\ agent' = [agent EXCEPT ![g] = SentBy(next)]
    BY DEF Dispatch
  <2>2. \/ next = To(g, "agents") /\ task.status = "RUNNING"
        \/ \E stop : next = [To(g, "stopping") EXCEPT !.stop = stop]
    OBVIOUS
  <2> HIDE DEF next
  <2> QED BY <2>1, <2>2
<1>3. /\ u.groups = graph[g].groups /\ u.group = graph[g].group
      /\ \/ u.pc = "agents" /\ task.status = "RUNNING"
         \/ u.pc = "stopping"
  BY <1>1, <1>2 DEF To, Fields
<1>4. agent'[g] = SentBy(u) /\ \A h \in Runs \ {g} : agent'[h] = agent[h]
  BY <1>1, <1>2 DEF AgentsOK
<1>5. /\ graph' = [graph EXCEPT ![g] = u]
      /\ saved' \in {saved, NoGraphRun, [u EXCEPT !.detached = FALSE]}
  BY <1>2 DEF NodeEnds
<1>6. Passed(u, Results')
  BY <1>1, <1>3 DEF GraphsFlow, GroupsArePassed, Passed
<1>7. ~trace'.overlap => \A h \in Runs \ {g} : graph[h].pc = "idle"
  BY <1>1 DEF GraphsFlow, GraphsAlternate
<1>8. u.pc \notin Ending => task'.status = "RUNNING"
  BY <1>1, <1>3 DEF Ending
<1> QED BY <1>1, <1>4, <1>5, <1>6, <1>7, <1>8, TurnKeepsFlow

\* The group of a merge is back, and what is back has its result.
LEMMA MergeFlow ==
    ASSUME SupInv, GraphsFlow, Keeps, NEW g \in Runs, Merge(g) PROVE GraphsFlow'
<1> DEFINE turned == IF task.status # "RUNNING" THEN task.status
                     ELSE IF task.cancel THEN "CANCELLED"
                     ELSE IF task.pause THEN "PAUSED" ELSE "RUNNING"
           stop == turned \notin {"RUNNING", "WAITING_USER"}
           next == IF stop THEN "stopping"
                   ELSE IF graph[g].group < Len(graph[g].groups) THEN "dispatch" ELSE "actions"
           u == [To(g, next) EXCEPT !.group = graph[g].group + 1, !.stop = stop]
<1>1. /\ graph[g].pc = "agents" /\ UNCHANGED <<deleg, trace>> /\ AgentsOK /\ SidesOK
      /\ DOMAIN graph[g] = Fields /\ Results \subseteq Results'
      /\ \A d \in Ids : agent[g][d].pc \in {"out", "back"}
      /\ agent' = [agent EXCEPT ![g] = [d \in Ids |-> Out]]
      /\ task' = [task EXCEPT !.status = turned]
  BY AtNode, ResultsGrow DEF Merge, runsVars, At, Keeps
<1>2. NodeEnds(g, u)
  <2>1. NodeEnds(g, [To(g, next) EXCEPT !.group = @ + 1, !.stop = stop])
    BY DEF Merge
  <2>2. To(g, next).group = graph[g].group
    BY <1>1 DEF To, Fields
  <2> HIDE DEF next, stop
  <2> QED BY <2>1, <2>2
<1>3. /\ u.pc = next /\ u.group = graph[g].group + 1 /\ u.groups = graph[g].groups
      /\ u.detached = graph[g].detached /\ u.pc \in {"stopping", "dispatch", "actions"}
  <2>1. next \in {"stopping", "dispatch", "actions"}
    OBVIOUS
  <2> HIDE DEF next, stop
  <2> QED BY <1>1, <2>1 DEF To, Fields
<1>4. task'.status = turned
  BY <1>1 DEF SidesOK
<1>5. /\ graph' = [graph EXCEPT ![g] = u]
      /\ saved' \in {saved, NoGraphRun, [u EXCEPT !.detached = FALSE]}
  BY <1>2 DEF NodeEnds
<1>6. ~trace'.overlap => \A h \in Runs \ {g} : graph[h].pc = "idle"
  BY <1>1 DEF GraphsFlow, GraphsAlternate
<1>7. ~trace'.overlap /\ ~u.detached /\ u.pc \notin Ending => task'.status = "RUNNING"
  <2> SUFFICES ASSUME ~trace'.overlap, ~graph[g].detached, next # "stopping"
               PROVE  turned = "RUNNING"
    BY <1>3, <1>4 DEF Ending
  <2>1. task.status = "RUNNING"
    BY <1>1 DEF GraphsFlow, WorkIsWanted, Ending
  <2> QED BY <2>1
<1>8. Passed(u, Results')
  <2>1. /\ graph[g].groups \in Seq(SUBSET Created) /\ Len(graph[g].groups) \in Nat
        /\ graph[g].group \in 1..Len(graph[g].groups)
    BY <1>1, GroupsTyped
  <2>2. graph[g].groups[graph[g].group] \subseteq Results
    <3>1. graph[g].groups[graph[g].group] \subseteq Ids
      BY <2>1 DEF Created
    <3>2. \A d \in graph[g].groups[graph[g].group] : agent[g][d].pc # "out"
      BY <1>1 DEF GraphsFlow, SpecialistsAreOut
    <3> QED BY <1>1, <3>1, <3>2 DEF GraphsFlow, BackIsSettled, Results
  <2>3. ASSUME NEW k \in 1..Len(u.groups), k < u.group PROVE u.groups[k] \subseteq Results'
    <3>1. k < graph[g].group \/ k = graph[g].group
      BY <1>3, <2>1, <2>3
    <3>2. k < graph[g].group => graph[g].groups[k] \subseteq Results
      BY <1>3, <2>3 DEF GraphsFlow, GroupsArePassed, Passed
    <3> QED BY <1>1, <1>3, <2>2, <3>1, <3>2
  <2> QED BY <2>3 DEF Passed
<1>9. \A d \in Ids : agent'[g][d].pc = SentBy(u)[d].pc
  BY <1>1, <1>3 DEF AgentsOK, SentBy, Out
<1>10. \A h \in Runs \ {g} : agent'[h] = agent[h]
  BY <1>1 DEF AgentsOK
<1> HIDE DEF u, next, turned
<1> QED BY <1>1, <1>5, <1>6, <1>7, <1>8, <1>9, <1>10, TurnKeepsFlow

\* A graph that ends or breaks off is at rest, with nobody out.
LEMMA RestFlow ==
    ASSUME SupInv, GraphsFlow, Keeps, NEW g \in Runs,
           EndGraph(g) \/ BreakGraph(g) \/ CrashGraph(g)
    PROVE  GraphsFlow'
<1>1. /\ graph' = [graph EXCEPT ![g] = NoGraphRun] /\ graph[g].pc # "idle"
      /\ saved' \in {saved, NoGraphRun} /\ UNCHANGED deleg /\ AgentsOK /\ SidesOK
      /\ trace'.overlap = trace.overlap
      /\ \/ agent' = agent /\ graph[g].pc = "end"
         \/ agent' = [agent EXCEPT ![g] = [d \in Ids |-> Out]]
  BY AtNode DEF EndGraph, BreakGraph, CrashGraph, At, runsVars, SidesOK
<1>2. /\ \A d \in Ids : agent'[g][d].pc = "out"
      /\ \A h \in Runs \ {g} : agent'[h] = agent[h]
  BY <1>1 DEF GraphsFlow, SpecialistsAreOut, AgentsOK, Out
<1>3. NoGraphRun.pc = "idle" /\ NoGraphRun.group = 1 /\ NoGraphRun.groups = <<>>
  BY DEF NoGraphRun, Fresh
<1>4. \A d \in Ids : SentBy(NoGraphRun)[d].pc = "out"
  BY <1>3 DEF SentBy, Out
<1>5. Passed(NoGraphRun, Results')
  BY <1>3 DEF Passed
<1>6. ~trace'.overlap => \A h \in Runs \ {g} : graph[h].pc = "idle"
  BY <1>1 DEF GraphsFlow, GraphsAlternate
<1>7. NoGraphRun.pc \in Ending
  BY <1>3 DEF Ending
<1>8. \A d \in Ids : agent'[g][d].pc = SentBy(NoGraphRun)[d].pc
  BY <1>2, <1>4
<1> HIDE DEF NoGraphRun
<1> QED BY ZenonT(60), <1>1, <1>2, <1>5, <1>6, <1>7, <1>8, TurnKeepsFlow

\* A delivery beside a graph that outlived its timeout is an overlap.
LEMMA DeliverFlow ==
    ASSUME SupInv, GraphsFlow, Keeps, NEW g \in Runs, Deliver(g) PROVE GraphsFlow'
<1> DEFINE u == IF saved.pc = "idle" THEN Fresh ELSE saved
<1>1. /\ graph' = [graph EXCEPT ![g] = u] /\ agent' = [agent EXCEPT ![g] = SentBy(u)]
      /\ AgentsOK /\ SidesOK /\ UNCHANGED <<deleg, saved>> /\ graph[g].pc = "idle"
      /\ task' = [task EXCEPT !.status = "RUNNING", !.pause = FALSE]
      /\ trace' = [trace EXCEPT !.overlap = @ \/ \E h \in Runs : graph[h].detached]
      /\ \A h \in Runs : IF h < g THEN graph[h].detached
                                  ELSE graph[h].pc = "idle" \/ graph[h].detached
  BY AtNode DEF Deliver, At, runsVars
<1>2. Passed(u, Results')
  <2>1. Passed(saved, Results')
    BY ResultsGrow, PassedLasts DEF GraphsFlow, GroupsArePassed, Keeps
  <2>2. Passed(Fresh, Results')
    BY DEF Passed, Fresh
  <2> QED BY <2>1, <2>2
<1> HIDE DEF u
<1>3. agent'[g] = SentBy(u) /\ \A h \in Runs \ {g} : agent'[h] = agent[h]
  BY <1>1 DEF AgentsOK
<1>4. task'.status = "RUNNING"
  BY <1>1 DEF SidesOK
<1>5. trace'.overlap = (trace.overlap \/ \E h \in Runs : graph[h].detached)
  BY <1>1 DEF SidesOK
<1>6. ~trace'.overlap => \A h \in Runs \ {g} : graph[h].pc = "idle"
  BY <1>1, <1>5
<1> QED BY <1>1, <1>2, <1>3, <1>4, <1>5, <1>6, TurnKeepsFlow

\* After its timeout a graph goes on as it was, for nobody.
LEMMA DetachFlow ==
    ASSUME SupInv, GraphsFlow, Keeps, NEW g \in Runs, DetachGraph(g) PROVE GraphsFlow'
<1> DEFINE u == [graph[g] EXCEPT !.detached = TRUE]
<1>1. /\ graph' = [graph EXCEPT ![g] = u] /\ UNCHANGED <<deleg, agent, saved>>
      /\ SidesOK /\ DOMAIN graph[g] = Fields /\ graph[g].pc # "idle"
      /\ trace' = [trace EXCEPT !.events = @ + 1]
  BY AtNode DEF DetachGraph, At, runsVars
<1>2. /\ u.pc = graph[g].pc /\ u.groups = graph[g].groups /\ u.group = graph[g].group
      /\ u.detached
  BY <1>1 DEF Fields
<1> HIDE DEF u
<1>3. graph'[g] = u /\ \A h \in Runs \ {g} : graph'[h] = graph[h]
  BY <1>1 DEF SupInv, GraphsOK
<1>4. trace'.overlap = trace.overlap
  BY <1>1 DEF SidesOK
<1>5. SpecialistsAreOut'
  BY <1>1, <1>2, <1>3 DEF GraphsFlow, SpecialistsAreOut
<1>6. BackIsSettled'
  BY <1>1 DEF GraphsFlow, BackIsSettled, Settled
<1>7. Passed(u, Results')
  <2>1. Passed(graph[g], Results')
    BY ResultsGrow, PassedLasts DEF GraphsFlow, GroupsArePassed, Keeps
  <2> QED BY <1>2, <2>1 DEF Passed
<1>8. GroupsArePassed'
  BY <1>1, <1>7, GroupsPass DEF GraphsFlow, Keeps
<1>9. ASSUME ~trace'.overlap PROVE (GraphsAlternate /\ CalledOnce /\ WorkIsWanted)'
  <2>1. GraphsAlternate /\ CalledOnce /\ WorkIsWanted
    BY <1>4, <1>9 DEF GraphsFlow
  <2>2. \A h \in Runs \ {g} : graph'[h].pc = "idle"
    BY <1>1, <1>3, <2>1 DEF GraphsAlternate
  <2>3. GraphsAlternate'
    BY <2>2 DEF GraphsAlternate
  <2>4. CalledOnce'
    BY <1>1, <2>1 DEF CalledOnce, Settled, RefusesRerun
  <2>5. WorkIsWanted'
    BY <1>2, <1>3, <2>2 DEF WorkIsWanted, Ending
  <2> QED BY <2>3, <2>4, <2>5
<1> QED BY <1>5, <1>6, <1>8, <1>9 DEF GraphsFlow

\* Beside the graphs: requests, and the revocation of the ledger.
LEMMA AsideFlow ==
    ASSUME SupInv, GraphsFlow, Keeps, UNCHANGED <<graph, agent, saved>>,
           trace'.overlap = trace.overlap, task.status = "RUNNING" => task'.status = "RUNNING",
           \A d \in Ids : Unmoved(d)
    PROVE  GraphsFlow'
<1>1. SpecialistsAreOut'
  BY DEF GraphsFlow, SpecialistsAreOut
<1>2. BackIsSettled'
  BY DEF GraphsFlow, BackIsSettled, Settled, Unmoved
<1>3. GroupsArePassed'
  BY ResultsGrow, PassedLasts DEF GraphsFlow, GroupsArePassed, Keeps
<1>4. ASSUME ~trace'.overlap PROVE (GraphsAlternate /\ CalledOnce /\ WorkIsWanted)'
  <2>1. GraphsAlternate /\ CalledOnce /\ WorkIsWanted
    BY <1>4 DEF GraphsFlow
  <2>2. GraphsAlternate' /\ WorkIsWanted'
    BY <2>1 DEF GraphsAlternate, WorkIsWanted
  <2>3. CalledOnce'
    <3>1. \A d \in Ids : deleg'[d].agent \in Analysts =>
             /\ deleg'[d].calls <= 1
             /\ deleg'[d].calls = 1 =>
                   deleg'[d].active \/ deleg'[d].progress # "none" \/ Settled(d)'
      BY <2>1 DEF CalledOnce, Unmoved, Settled
    <3> QED BY <2>1, <3>1 DEF CalledOnce, Settled, RefusesRerun, Unmoved
  <2> QED BY <2>2, <2>3
<1> QED BY <1>1, <1>2, <1>3, <1>4 DEF GraphsFlow

LEMMA RequestsFlow ==
    ASSUME SupInv, GraphsFlow, Keeps,
           CancelSupervised \/ PauseSupervised \/ Revoke \/ UNCHANGED supVars
    PROVE  GraphsFlow'
<1>1. /\ UNCHANGED <<graph, agent, saved>> /\ trace'.overlap = trace.overlap
      /\ task.status = "RUNNING" => task'.status = "RUNNING"
  BY DEF CancelSupervised, PauseSupervised, Revoke, supVars, SupInv, SidesOK
<1>2. ASSUME NEW d \in Ids PROVE Unmoved(d)
  <2>1. CASE UNCHANGED deleg
    BY <2>1 DEF Unmoved
  <2>2. CASE Revoke
    <3>1. deleg'[d] = IF deleg[d].status \in {"PENDING", "RUNNING"}
                      THEN [deleg[d] EXCEPT !.status = "CANCELLED"] ELSE deleg[d]
      BY <2>2 DEF Revoke, CancelRuns
    <3>2. deleg[d] \in DelegationRow
      BY DEF SupInv, RowsOK
    <3> QED BY <3>1, <3>2 DEF DelegationRow, Unmoved
  <2> QED BY <2>1, <2>2 DEF CancelSupervised, PauseSupervised, runsVars, supVars
<1> QED BY <1>1, <1>2, AsideFlow

\* A specialist goes on while its graph waits for it.
LEMMA SpecialistKeepsFlow ==
    ASSUME SupInv, GraphsFlow, Keeps, NEW g \in Runs, NEW d \in Ids, Flows(g, d)
    PROVE  GraphsFlow'
<1>1. PICK a : Goes(g, d, a) /\ Works(g, d, a)
  BY DEF Flows
<1>2. /\ UNCHANGED <<graph, saved>> /\ AgentsOK /\ trace'.overlap = trace.overlap
      /\ agent[g][d].pc \notin {"out", "back", "parked", "raised"} /\ a.pc # "out"
      /\ agent' = [agent EXCEPT ![g] = [agent[g] EXCEPT ![d] = a]]
      /\ \A e \in Ids \ {d} : deleg'[e] = deleg[e]
  BY <1>1 DEF Goes, SupInv
<1>3. /\ agent'[g][d] = a /\ \A e \in Ids \ {d} : agent'[g][e] = agent[g][e]
      /\ \A h \in Runs \ {g} : agent'[h] = agent[h]
  BY <1>2 DEF AgentsOK
<1>4. graph[g].pc = "agents"
  BY <1>2 DEF GraphsFlow, SpecialistsAreOut
<1>5. SpecialistsAreOut'
  <2>1. \A h \in Runs, e \in Ids : agent'[h][e].pc # "out" <=> agent[h][e].pc # "out"
    BY <1>2, <1>3
  <2>2. \A h \in Runs : graph[h].pc = "agents" => graph[h].groups[graph[h].group] \subseteq Ids
    <3>1. ASSUME NEW h \in Runs, graph[h].pc = "agents"
          PROVE  graph[h].groups[graph[h].group] \subseteq Ids
      <4>1. /\ graph[h].groups \in Seq(SUBSET Created)
            /\ graph[h].group \in 1..Len(graph[h].groups)
        BY <3>1, GroupsTyped
      <4> QED BY <4>1 DEF Created
    <3> QED BY <3>1
  <2> QED BY <1>2, <2>1, <2>2 DEF GraphsFlow, SpecialistsAreOut
<1>6. BackIsSettled'
  <2>1. \A h \in Runs, e \in Ids : agent[h][e].pc = "back" => Settled(e)'
    BY DEF GraphsFlow, BackIsSettled, Keeps, ResultsKept, Settled
  <2>2. a.pc = "back" => Settled(d)'
    BY <1>1 DEF Works
  <2> QED BY <1>3, <2>1, <2>2 DEF BackIsSettled
<1>7. GroupsArePassed'
  BY <1>2, ResultsGrow, PassedLasts DEF GraphsFlow, GroupsArePassed, Keeps
<1>8. ASSUME ~trace'.overlap PROVE (GraphsAlternate /\ CalledOnce /\ WorkIsWanted)'
  <2>1. GraphsAlternate /\ CalledOnce /\ WorkIsWanted
    BY <1>2, <1>8 DEF GraphsFlow
  <2>2. \A h \in Runs \ {g} : \A e \in Ids : agent'[h][e].pc = "out"
    BY <1>3, <1>4, <2>1, OthersRest DEF GraphsFlow
  <2>3. GraphsAlternate'
    BY <1>2, <2>1 DEF GraphsAlternate
  <2>4. WorkIsWanted'
    <3>1. \A h \in Runs, e \in Ids : agent[h][e].pc = "parked" => agent'[h][e].pc = "parked"
      BY <1>2, <1>3
    <3>2. \A h \in Runs \ {g} : graph'[h].pc \in Ending
      BY <1>2, <1>4, <2>1 DEF GraphsAlternate, Ending
    <3>3. task'.status = task.status \/ agent'[g][d].pc = "parked"
      BY <1>1, <1>3 DEF Goes
    <3> QED BY <1>2, <2>1, <3>1, <3>2, <3>3 DEF WorkIsWanted
  <2>5. CalledOnce'
    <3>1. ASSUME NEW h \in Runs, NEW e \in Ids
          PROVE  /\ agent'[h][e].pc \in AtWork => ~Settled(e)'
                 /\ agent'[h][e].pc \in {"ready", "counted"} => deleg'[e].progress = "none"
                 /\ agent'[h][e].pc = "counted" => ~RefusesRerun(e)'
      <4>1. CASE h = g /\ e = d
        BY <1>1, <1>3, <2>1, <4>1 DEF Works, CalledOnce, Settled, AtWork, RefusesRerun
      <4>2. CASE h = g /\ e # d
        BY <1>2, <1>3, <2>1, <4>2 DEF CalledOnce, Settled, RefusesRerun
      <4>3. CASE h # g
        BY <2>2, <4>3 DEF AtWork
      <4> QED BY <4>1, <4>2, <4>3
    <3>2. ASSUME NEW e \in Ids, deleg'[e].agent \in Analysts
          PROVE  /\ deleg'[e].calls <= 1
                 /\ deleg'[e].calls = 1 =>
                       deleg'[e].active \/ deleg'[e].progress # "none" \/ Settled(e)'
      <4>1. CASE e # d
        BY <1>2, <2>1, <3>2, <4>1 DEF CalledOnce, Settled
      <4>2. CASE e = d
        <5>1. /\ deleg[d].agent \in Analysts /\ deleg[d].calls \in Nat /\ deleg[d].calls <= 1
              /\ deleg[d].calls = 1 =>
                    deleg[d].active \/ deleg[d].progress # "none" \/ Settled(d)
          BY <1>1, <2>1, <3>2, <4>2 DEF Works, CalledOnce, SupInv, RowsOK, DelegationRow
        <5>2. Settled(d) => Settled(d)'
          BY DEF Keeps, ResultsKept, Settled
        <5>3. agent[g][d].pc = "counted" =>
                 ~Settled(d) /\ deleg[d].progress = "none" /\ ~deleg[d].active
          BY <2>1, <5>1 DEF CalledOnce, AtWork, RefusesRerun
        <5> QED BY <1>1, <4>2, <5>1, <5>2, <5>3 DEF Works
      <4> QED BY <4>1, <4>2
    <3> QED BY <3>1, <3>2 DEF CalledOnce
  <2> QED BY <2>3, <2>4, <2>5
<1> QED BY <1>5, <1>6, <1>7, <1>8 DEF GraphsFlow

\* What every step does to the rows, and to the task.
RowsFlow == TaskFlows /\ \A d \in Ids : RowFlows(d)

LEMMA TurnRowsFlow ==
    ASSUME SupInv, NEW g \in Runs,
           \/ Dispatch(g) \/ Merge(g) \/ EndGraph(g) \/ BreakGraph(g)
           \/ Deliver(g) \/ CrashGraph(g) \/ DetachGraph(g)
    PROVE  RowsFlow
<1>1. UNCHANGED deleg /\ SidesOK
  BY DEF SupInv, Dispatch, Merge, EndGraph, BreakGraph, Deliver, CrashGraph, DetachGraph, runsVars
<1>2. TaskFlows
  <2>1. CASE Dispatch(g)
    BY <2>1 DEF Dispatch, TaskFlows
  <2>2. CASE Merge(g)
    BY <1>1, <2>2 DEF Merge, TaskFlows, SidesOK
  <2>3. CASE EndGraph(g)
    BY <1>1, <2>3 DEF EndGraph, TaskFlows, SidesOK, Returned
  <2>4. CASE BreakGraph(g)
    BY <1>1, <2>4 DEF BreakGraph, TaskFlows, SidesOK, Returned, Fallen
  <2>5. CASE Deliver(g)
    BY <1>1, <2>5 DEF Deliver, TaskFlows, SidesOK
  <2>6. CASE CrashGraph(g)
    BY <1>1, <2>6 DEF CrashGraph, TaskFlows, SidesOK, Fallen
  <2>7. CASE DetachGraph(g)
    BY <1>1, <2>7 DEF DetachGraph, TaskFlows, SidesOK, Fallen
  <2> QED BY <2>1, <2>2, <2>3, <2>4, <2>5, <2>6, <2>7
<1> QED BY <1>1, <1>2, RowsFlowUntouched DEF RowsFlow

LEMMA RequestRowsFlow ==
    ASSUME SupInv, CancelSupervised \/ PauseSupervised \/ Revoke \/ UNCHANGED supVars
    PROVE  RowsFlow
<1>1. CASE Revoke
  <2>1. TaskFlows
    BY <1>1 DEF Revoke, TaskFlows, SupInv, SidesOK
  <2> QED BY <1>1, <2>1, RevokeFlows DEF RowsFlow
<1>2. CASE CancelSupervised
  <2>1. TaskFlows
    BY <1>2 DEF CancelSupervised, TaskFlows, SupInv, SidesOK
  <2> QED BY <1>2, <2>1, RowsFlowUntouched DEF RowsFlow, CancelSupervised, runsVars
<1>3. CASE PauseSupervised
  <2>1. TaskFlows
    BY <1>3 DEF PauseSupervised, TaskFlows, SupInv, SidesOK
  <2> QED BY <1>3, <2>1, RowsFlowUntouched DEF RowsFlow, PauseSupervised, runsVars
<1>4. CASE UNCHANGED supVars
  BY <1>4, RowsFlowUntouched DEF RowsFlow, TaskFlows, supVars, runsVars
<1> QED BY <1>1, <1>2, <1>3, <1>4

\* Every step keeps the flow.
LEMMA NextFlows ==
    ASSUME SupInv, RowsAreHonest, GraphsFlow, [SupNext]_supVars
    PROVE  RowsFlow /\ GraphsFlow'
<1>1. Keeps
  BY NextKeeps
<1>2. ASSUME NEW g \in Runs, Node(g) PROVE RowsFlow /\ GraphsFlow'
  <2>1. NodeFlows(g)
    BY <1>2, EveryNodeFlows
  <2>2. TaskFlows
    BY <2>1 DEF NodeFlows, Passes, TaskFlows
  <2> QED BY <1>1, <2>1, <2>2, NodeKeepsFlow DEF RowsFlow, NodeFlows
<1>3. ASSUME NEW g \in Runs, NEW d \in Ids, Specialist(g, d) PROVE RowsFlow /\ GraphsFlow'
  <2>1. Flows(g, d)
    BY <1>3, SpecialistFlows DEF GraphsFlow
  <2>2. TaskFlows
    BY <2>1 DEF Flows, Goes, TaskFlows
  <2> QED BY <1>1, <2>1, <2>2, SpecialistKeepsFlow DEF RowsFlow, Flows
<1>4. ASSUME NEW g \in Runs, Dispatch(g) \/ Merge(g) PROVE RowsFlow /\ GraphsFlow'
  BY <1>1, <1>4, DispatchFlow, MergeFlow, TurnRowsFlow
<1>5. ASSUME NEW g \in Runs, EndGraph(g) \/ BreakGraph(g) \/ CrashGraph(g)
      PROVE  RowsFlow /\ GraphsFlow'
  BY <1>1, <1>5, RestFlow, TurnRowsFlow
<1>6. ASSUME NEW g \in Runs, Deliver(g) \/ DetachGraph(g) PROVE RowsFlow /\ GraphsFlow'
  BY <1>1, <1>6, DeliverFlow, DetachFlow, TurnRowsFlow
<1>7. CASE CancelSupervised \/ PauseSupervised \/ Revoke \/ UNCHANGED supVars
  BY <1>1, <1>7, RequestsFlow, RequestRowsFlow
<1>8. ASSUME NEW g \in Runs, GraphStep(g) PROVE RowsFlow /\ GraphsFlow'
  <2>1. \/ Node(g) \/ Dispatch(g) \/ Merge(g) \/ EndGraph(g) \/ BreakGraph(g)
        \/ \E d \in Ids : Specialist(g, d)
    BY <1>8 DEF GraphStep, Node
  <2> QED BY <1>2, <1>3, <1>4, <1>5, <2>1
<1> QED BY <1>5, <1>6, <1>7, <1>8 DEF SupNext

LEMMA FlowKept ==
    ASSUME SupInv, FlowInv, [SupNext]_supVars PROVE FlowInv'
<1>1. RowsFlow /\ GraphsFlow' /\ ResultsKept
  BY NextFlows, NextKeeps DEF FlowInv, Keeps
<1>2. \A d \in Ids : Settled(d) => Settled(d)'
  BY <1>1 DEF ResultsKept, Settled
<1>3. RowsAreHonest'
  BY <1>1, <1>2 DEF FlowInv, RowsAreHonest, RowsFlow, RowFlows
<1>4. CancelledTogether'
  BY <1>1, <1>2 DEF FlowInv, CancelledTogether, RowsFlow, RowFlows, TaskFlows
<1> QED BY <1>1, <1>3, <1>4 DEF FlowInv

LEMMA FlowInit == SupInit => FlowInv
<1> SUFFICES ASSUME SupInit PROVE FlowInv
  OBVIOUS
<1>1. \A d \in Ids : /\ deleg[d].status = "NONE" /\ deleg[d].result = "none"
                     /\ deleg[d].calls = 0
  BY DEF SupInit, NoDelegation
<1>2. \A g \in Runs : graph[g] = NoGraphRun /\ \A d \in Ids : agent[g][d] = Out
  BY DEF SupInit
<1>3. saved = NoGraphRun /\ ~task.revoking
  BY DEF SupInit
<1>4. NoGraphRun.pc = "idle" /\ NoGraphRun.groups = <<>> /\ Out.pc = "out"
  BY DEF NoGraphRun, Fresh, Out
<1>5. RowsAreHonest /\ CancelledTogether
  BY <1>1, <1>3 DEF RowsAreHonest, CancelledTogether
<1>6. SpecialistsAreOut /\ BackIsSettled
  BY <1>2, <1>4 DEF SpecialistsAreOut, BackIsSettled
<1>7. GroupsArePassed
  BY <1>2, <1>3, <1>4 DEF GroupsArePassed, Passed
<1>8. GraphsAlternate /\ CalledOnce /\ WorkIsWanted
  BY <1>1, <1>2, <1>4 DEF GraphsAlternate, CalledOnce, WorkIsWanted, AtWork, Ending
<1> QED BY <1>5, <1>6, <1>7, <1>8 DEF FlowInv, GraphsFlow

\* The second inductive invariant: completed rows have results, specialists are
\* out for the group their graph is at, what a graph has passed has its result,
\* and only a cancelled task has cancelled delegations; while no graph outlives
\* its timeout beside another, one is at work at most and each analyst is called
\* once.
THEOREM FlowInvariance == SupSpec => []FlowInv
<1>1. SupInv /\ FlowInv /\ [SupNext]_supVars => FlowInv'
  BY FlowKept
<1> QED BY <1>1, FlowInit, SupInvariance, PTL DEF SupSpec

\* No graph goes past a group before every specialist in it has its result: for
\* any plans, however many graphs there are beside each other, and through
\* crashes, approvals, pauses and replays from a stored plan or a checkpoint.
THEOREM NothingIsSkippedHolds == SupSpec => []NothingIsSkipped
<1>1. SupInv /\ FlowInv => NothingIsSkipped
  <2> SUFFICES ASSUME SupInv, FlowInv, NEW g \in Runs, NEW k \in 1..Len(graph[g].groups),
                      k < graph[g].group, NEW d \in graph[g].groups[k]
               PROVE  Settled(d)
    BY DEF NothingIsSkipped
  <2> QED BY DEF FlowInv, GraphsFlow, GroupsArePassed, Passed, Results
<1> QED BY <1>1, SupInvariance, FlowInvariance, PTL

\* The execution of an analyst is made once, whatever crashes, pauses and
\* redeliveries interrupt it; twice only beside a graph left running by a timeout.
THEOREM ExecutionsAreNotReplayedHolds == SupSpec => []ExecutionsAreNotReplayed
<1>1. FlowInv => ExecutionsAreNotReplayed
  BY DEF FlowInv, GraphsFlow, CalledOnce, ExecutionsAreNotReplayed, Created
<1> QED BY <1>1, FlowInvariance, PTL

\* What a cancellation wrote is written over only beside a graph that outlived
\* its timeout, or while a specialist of the run waits for an approval.
THEOREM CancelledIsLeftAloneHolds == SupSpec => CancelledIsLeftAlone
<1> DEFINE Alone ==
      \A d \in Ids : deleg[d].status = "CANCELLED" /\ deleg'[d].status # "CANCELLED"
          => \/ trace.overlap \/ \E g \in Runs : graph[g].detached
             \/ \E g \in Runs, e \in Ids : agent[g][e].pc = "parked"
<1>1. SupInv /\ FlowInv /\ [SupNext]_supVars => [Alone]_supVars
  <2> SUFFICES ASSUME SupInv, FlowInv, [SupNext]_supVars, NEW d \in Ids,
                      deleg[d].status = "CANCELLED", deleg'[d].status # "CANCELLED",
                      ~trace.overlap, \A g \in Runs : ~graph[g].detached,
                      \A g \in Runs, e \in Ids : agent[g][e].pc # "parked"
               PROVE  FALSE
    OBVIOUS
  <2>1. RowFlows(d)
    BY NextFlows DEF FlowInv, RowsFlow
  <2>2. PICK g \in Runs : ~Settled(d) /\ graph[g].pc \in {"agents", "reviewing", "judging"}
    BY <2>1 DEF RowFlows
  <2>3. task.status = "CANCELLED"
    BY <2>2 DEF FlowInv, CancelledTogether
  <2>4. task.status = "RUNNING"
    BY <2>2 DEF FlowInv, GraphsFlow, WorkIsWanted, Ending
  <2> QED BY <2>3, <2>4
<1>2. CancelledIsLeftAlone <=> [][Alone]_supVars
  BY DEF CancelledIsLeftAlone
<1> HIDE DEF Alone
<1> QED BY <1>1, <1>2, SupInvariance, FlowInvariance, PTL DEF SupSpec
=============================================================================
