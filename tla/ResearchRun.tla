------------------------------ MODULE ResearchRun ------------------------------
(***************************************************************************)
(* One question of a chat in the research graph (server/agent/graph.py,     *)
(* wiring at 100-153), with the nodes the server deploys:                   *)
(* research_workflow.py over nodes.py, as persistent_workflow.py overrides  *)
(* them for data assets and tool_workflow.py for MCP tools.  Which sources  *)
(* are searched, in what order and how often, and which draft reaches the   *)
(* user.  A model's answer is any value its schema admits, or its failure;  *)
(* texts are left out.  Steps of a task are WorkerTask's, and questions the *)
(* orchestration router takes are Orchestration's.                          *)
(***************************************************************************)
EXTENDS Integers, Sequences, FiniteSets

LocalSources == {"workspace", "pdf"}
ExternalSources == {"web", "arxiv"}
AllSources == LocalSources \union ExternalSources

CONSTANTS
    Proposals,      \* the sets of sources a model's answer may name
    MaxIterations,  \* PLANNER_MAX_ITERATIONS: executor rounds of one question
    MaxSteps,       \* PLANNER_MAX_STEPS
    MaxRewrites,    \* RETRIEVAL_REWRITE_MAX; 0 when SELF_CORRECT_RAG_ENABLED is off
    MaxReplans,     \* PLANNER_MAX_REPLAN
    MaxRevisions,   \* ANSWER_REVISION_MAX
    PlannerEnabled, \* PLANNER_ENABLED
    GroundingCheck  \* GROUNDING_CHECK_ENABLED

ASSUME ResearchAssumption ==
    /\ Proposals \subseteq SUBSET AllSources
    /\ MaxIterations \in Nat \ {0} /\ MaxSteps \in Nat \ {0}
    /\ MaxRewrites \in Nat /\ MaxReplans \in Nat /\ MaxRevisions \in Nat
    /\ PlannerEnabled \in BOOLEAN /\ GroundingCheck \in BOOLEAN

VARIABLES
    available,  \* the sources whose tool the session has
    extras,     \* "data": assets of the workspace; "mcp": enabled MCP tools
    asked,      \* the scope of the request
    question,   \* what query_analyzer and the planners leave in the state
    round,      \* the counters and grades of the retrieval loop
    answer,     \* the draft, its verdict and what is shown
    called,     \* history: the sources whose tool was invoked, "mcp" included
    node        \* the graph node about to run

researchVars == <<available, extras, asked, question, round, answer, called, node>>

Scopes == {"workspace_only", "workspace_and_external", "external"}

\* build_tools: the web and arXiv tools always, the others by session.
ToolSets == {ExternalSources \union local : local \in SUBSET LocalSources}

QueryTypes == {"direct", "document", "web", "arxiv", "research"}

\* A step searches sources, uses the data assets, or calls an MCP tool.
Step == [tool : {"search", "data", "mcp"}, sources : SUBSET AllSources]

Question == [type : QueryTypes, scope : Scopes,
             selected : SUBSET AllSources, needed : BOOLEAN, complex : BOOLEAN,
             plan : Seq(Step)]

\* failed: the last analysis of the data that gave a result is a failed one.
Round == [step : Nat \ {0}, attempts : 0..MaxIterations, rewrites : Nat, replans : Nat,
          fallback : BOOLEAN, evidence : BOOLEAN, failed : BOOLEAN,
          sufficient : BOOLEAN, ungraded : BOOLEAN]

\* draft: its version, 0 for none.  checked: the version the verifier last saw.
AnswerState == [draft : Nat, checked : Nat, verdict : {"none", "bad", "good"},
           revisions : Nat, shown : {"nothing", "draft", "limitation"}]

Nodes == {"query_analyzer", "planner", "replanner", "simple_plan", "executor", "step_evaluator",
          "evidence_grader", "query_refiner", "external_fallback", "generator", "verifier",
          "answer_revision", "citation_validator", "end", "error"}

ResearchTypeOK ==
    /\ available \in ToolSets /\ extras \subseteq {"data", "mcp"} /\ asked \in Scopes
    /\ question \in Question /\ round \in Round /\ answer \in AnswerState
    /\ called \subseteq AllSources \union {"mcp"} /\ node \in Nodes

ResearchInit ==
    /\ available \in ToolSets /\ extras \in SUBSET {"data", "mcp"} /\ asked \in Scopes
    /\ question = [type |-> "direct", scope |-> asked, selected |-> {}, needed |-> FALSE,
                   complex |-> FALSE, plan |-> <<>>]
    /\ round = [step |-> 1, attempts |-> 0, rewrites |-> 0, replans |-> 0, fallback |-> FALSE,
                evidence |-> FALSE, failed |-> FALSE, sufficient |-> FALSE, ungraded |-> FALSE]
    /\ answer = [draft |-> 0, checked |-> 0, verdict |-> "none", revisions |-> 0, shown |-> "nothing"]
    /\ called = {} /\ node = "query_analyzer"

-------------------------------------------------------------------------------
(* Source policy *)

\* _allowed
InScope(scope) == CASE scope = "workspace_only" -> LocalSources
                    [] scope = "external" -> ExternalSources
                    [] OTHER -> AllSources

AllowedIn(scope, sources) ==
    LET named == IF "workspace" \in available /\ "pdf" \in sources
                 THEN (sources \ {"pdf"}) \union {"workspace"} ELSE sources
    IN  named \intersect available \intersect InScope(scope)

Allowed(sources) == AllowedIn(question.scope, sources)

\* The sources a type of query stands for (_sources_for_query_type and
\* _refinement_sources); research takes the model's proposal.
OfType(type, proposed) ==
    available \intersect (CASE type = "document" -> {"pdf"}
                            [] type = "web" -> {"web"}
                            [] type = "arxiv" -> {"arxiv"}
                            [] OTHER -> proposed)

Chosen(type, proposed) ==
    IF type = "direct" THEN {}
    ELSE IF type = "research" /\ OfType(type, proposed) = {} THEN available
    ELSE OfType(type, proposed)

\* Retrieval rounds kept for the external fallback, and those left.
FallbackOpen == ~round.fallback /\ Allowed(ExternalSources) # {}
Reserve == IF FallbackOpen THEN 1 ELSE 0
Remaining == MaxIterations - round.attempts

-------------------------------------------------------------------------------
(* Analysis and planning *)

\* The model's analysis; the one that stands for a malformed answer is among them.
QueryAnalyses == [type : QueryTypes, proposed : Proposals]

\* The user's wording may ask for the documents only, and may be about data.
\* MCP tools make complex what the request, not the wording, opens to them.
QueryAnalyzer ==
    /\ node = "query_analyzer"
    /\ \E analysis \in QueryAnalyses, scope \in {asked, "workspace_only"}, comparing \in BOOLEAN,
          onData \in {FALSE, "data" \in extras} :
        LET type == analysis.type
            local == AllowedIn(scope, LocalSources)
            own == AllowedIn(scope, Chosen(type, analysis.proposed))
            sources == IF local # {} THEN local
                       ELSE IF scope = "external" /\ own = {} THEN AllowedIn(scope, ExternalSources)
                       ELSE own
            needed == onData \/ (sources # {} /\ type # "direct")
            complex == /\ needed
                       /\ \/ onData \/ comparing \/ type = "research"
                          \/ "mcp" \in extras /\ asked # "workspace_only"
        IN  /\ question' = [question EXCEPT !.type = type, !.scope = scope, !.selected = sources,
                                            !.needed = needed, !.complex = complex]
            /\ node' = IF ~needed THEN "generator"
                       ELSE IF complex /\ PlannerEnabled THEN "planner" ELSE "simple_plan"
    /\ UNCHANGED <<available, extras, asked, round, answer, called>>

Searching(sources) == [tool |-> "search", sources |-> sources]
UsingData == [tool |-> "data", sources |-> {}]
CallingMcp == [tool |-> "mcp", sources |-> {}]

Plans(steps) ==
    /\ question' = [question EXCEPT !.plan = steps]
    /\ node' = "executor"

SimplePlan ==
    /\ node = "simple_plan"
    /\ Plans(<<Searching(question.selected)>>)
    /\ round' = [round EXCEPT !.step = 1]
    /\ UNCHANGED <<available, extras, asked, answer, called>>

Most(a, b) == IF a > b THEN a ELSE b
Least(a, b) == IF a < b THEN a ELSE b

PlansOf(steps, most) == UNION {[1..n -> steps] : n \in 1..most}

\* The steps a plan of searches only is cut to, and any other plan.
PlanLimit == Least(MaxSteps, Most(1, Remaining - Reserve))
CatalogLimit == Most(1, MaxSteps - 1)

\* What a step that names sources keeps of them: the allowed and selected ones.
Kept(sources) == Allowed(sources) \intersect question.selected

\* ResearchWorkflowNodes.planner: a step that names none stands for those
\* selected; a plan that keeps none, like a failing planner, becomes the single
\* selected step.
SearchPlans ==
    LET kept == {Kept(IF s = {} THEN question.selected ELSE s) : s \in Proposals}
    IN  PlansOf({Searching(s) : s \in kept \ {{}}}, PlanLimit)
        \union {<<Searching(question.selected)>>}

\* PersistentWorkflowNodes.planner: searches as above, inspections and analyses
\* of the data, and steps whose proposed capability is another tool's.  A
\* failing planner inspects and analyses, after a search if the wording asks.
DataPlans ==
    PlansOf({Searching(Kept(s)) : s \in Proposals} \union {UsingData}
                \union (IF "mcp" \in extras THEN {CallingMcp} ELSE {}), CatalogLimit)
    \union {<<UsingData, UsingData>>}
    \union {<<Searching({s}), UsingData, UsingData>> : s \in question.selected}

\* ToolWorkflowNodes.planner: any step of the catalogue, its sources as the
\* model names them; a missing capability is a data step that gives nothing.
CatalogPlans == PlansOf({Searching(s) : s \in Proposals} \union {UsingData, CallingMcp}, CatalogLimit)

ByCatalog == "mcp" \in extras /\ question.scope # "workspace_only"
Equipped == ByCatalog \/ "data" \in extras

\* The plans of this question are the model's, and the longest one may get.
PlansFreely == ByCatalog /\ question.complex
LongestPlan == Most(3, CatalogLimit)

ProposedPlans ==
    IF ByCatalog THEN CatalogPlans ELSE IF Equipped THEN DataPlans ELSE SearchPlans

Planner ==
    /\ node \in {"planner", "replanner"}
    /\ \E steps \in ProposedPlans : Plans(steps)
    /\ round' = [round EXCEPT !.step = 1, !.replans = IF node = "replanner" THEN @ + 1 ELSE @]
    /\ UNCHANGED <<available, extras, asked, answer, called>>

-------------------------------------------------------------------------------
(* Retrieval *)

\* The sources of a search one by one; each may find evidence.  A search of
\* nothing is still a round.
SearchSources(sources) ==
    IF round.attempts >= MaxIterations
    THEN round' = [round EXCEPT !.step = Len(question.plan) + 1] /\ UNCHANGED called
    ELSE /\ called' = called \union sources
         /\ \E found \in IF sources = {} THEN {FALSE} ELSE BOOLEAN :
              round' = [round EXCEPT !.attempts = @ + 1, !.evidence = @ \/ found]

\* An inspection, a step that raised or one without its capability gives
\* nothing.  The rounds are not compared with their bound here.
UseData ==
    /\ \E result \in {"nothing"} \union (IF "data" \in extras THEN {"completed", "failed"} ELSE {}) :
          round' = [round EXCEPT !.attempts = @ + 1,
                                 !.evidence = @ \/ result = "completed",
                                 !.failed = IF result = "nothing" THEN @ ELSE result = "failed"]
    /\ UNCHANGED called

\* A read gives evidence; a write asks for the approval only a task can wait
\* for, and fails like a call out of scope.  Nor are the rounds compared here.
CallMcp ==
    LET inScope == question.scope # "workspace_only"
    IN  /\ called' = called \union IF inScope THEN {"mcp"} ELSE {}
        /\ \E found \in {FALSE, inScope} :
             round' = [round EXCEPT !.attempts = @ + 1, !.evidence = @ \/ found]

Executor ==
    /\ node = "executor"
    /\ node' = "step_evaluator"
    /\ \/ round.step > Len(question.plan) /\ UNCHANGED <<round, called>>
       \/ /\ round.step <= Len(question.plan)
          /\ LET step == question.plan[round.step]
             IN  \/ step.tool = "search" /\ SearchSources(Allowed(step.sources))
                 \/ step.tool = "data" /\ UseData
                 \/ step.tool = "mcp" /\ CallMcp
    /\ UNCHANGED <<available, extras, asked, question, answer>>

\* A plan left behind is not read again: it is dropped here.
StepEvaluator ==
    /\ node = "step_evaluator"
    /\ \/ /\ round.step < Len(question.plan) /\ round.attempts < MaxIterations
          /\ round' = [round EXCEPT !.step = @ + 1]
          /\ node' = "executor" /\ UNCHANGED question
       \/ /\ round.step >= Len(question.plan) \/ round.attempts >= MaxIterations
          /\ round' = [round EXCEPT !.step = 1] /\ question' = [question EXCEPT !.plan = <<>>]
          /\ node' = "evidence_grader"
    /\ UNCHANGED <<available, extras, asked, answer, called>>

\* route_after_grading, on the state the grader left.
MayRefine(r) == r.rewrites < MaxRewrites /\ r.rewrites < 2 /\ Remaining > Reserve
MayReplan(r) == question.complex /\ PlannerEnabled /\ r.replans < MaxReplans /\ Remaining > Reserve

AfterGrading(r) ==
    IF r.sufficient \/ r.ungraded \/ r.attempts >= MaxIterations THEN "generator"
    ELSE IF MayRefine(r) THEN "query_refiner"
    ELSE IF MayReplan(r) THEN "replanner"
    ELSE IF FallbackOpen THEN "external_fallback"
    ELSE "generator"

\* A grade, or a grader that failed.  After a failed analysis nothing is graded.
EvidenceGrader ==
    /\ node = "evidence_grader"
    /\ \E sufficient \in {FALSE, round.evidence}, ungraded \in BOOLEAN :
        /\ sufficient => ~ungraded
        /\ round.failed => ungraded
        /\ round' = [round EXCEPT !.sufficient = sufficient, !.ungraded = ungraded]
    /\ node' = AfterGrading(round')
    /\ UNCHANGED <<available, extras, asked, question, answer, called>>

\* _refinement_sources: the type of the query overrides what a rewrite proposes.
RefinementSources(proposed) ==
    LET sources == OfType(question.type, proposed)
    IN  IF sources = {} THEN question.selected ELSE sources

\* AgentWorkflowNodes.query_refiner; a rewrite that failed proposes what is selected.
Rewrites == {RefinementSources(proposed) : proposed \in Proposals \union {question.selected}}

RefinedFreely(rewrite) == Allowed(rewrite)   \* mutant: a rewrite searches what the model proposes

\* Whatever the rewrite proposes, local sources come first until the fallback.
RefinedSources(rewrite) ==
    IF Allowed(LocalSources) # {} /\ ~round.fallback THEN Allowed(LocalSources) ELSE Allowed(rewrite)

\* selected_sources keeps its value from before.
QueryRefiner ==
    /\ node = "query_refiner"
    /\ \E rewrite \in Rewrites :
        question' = [question EXCEPT !.plan = <<Searching(RefinedSources(rewrite))>>,
                                     !.selected = Allowed(@)]
    /\ round' = [round EXCEPT !.step = 1, !.rewrites = @ + 1]
    /\ node' = "executor"
    /\ UNCHANGED <<available, extras, asked, answer, called>>

\* Academic questions prefer arXiv, the others the web.
ExternalFallback ==
    /\ node = "external_fallback"
    /\ \E preferred \in ExternalSources :
        Plans(<<Searching(IF Allowed({preferred}) # {} THEN Allowed({preferred})
                          ELSE Allowed(ExternalSources \ {preferred}))>>)
    /\ round' = [round EXCEPT !.step = 1, !.fallback = TRUE]
    /\ UNCHANGED <<available, extras, asked, answer, called>>

-------------------------------------------------------------------------------
(* The answer *)

Generator ==
    /\ node = "generator"
    /\ answer' = [answer EXCEPT !.draft = 1]
    /\ node' = "verifier"
    /\ UNCHANGED <<available, extras, asked, question, round, called>>

\* The model call of the analyzer, of the generator and of the planner that has
\* the catalogue may raise, and so may reading the assets to plan with: the
\* turn ends.
ModelFails ==
    /\ \/ node \in {"query_analyzer", "generator"}
       \/ node \in {"planner", "replanner"} /\ Equipped
    /\ node' = "error"
    /\ UNCHANGED <<available, extras, asked, question, round, answer, called>>

\* route_after_verification
Revisable(a) == a.verdict = "bad" /\ a.revisions < MaxRevisions /\ a.revisions < 1

\* No result when nothing needs checking; without evidence, or when the check
\* fails, the draft is not grounded.
Verifier ==
    /\ node = "verifier"
    /\ \E verdict \in IF ~question.needed \/ ~GroundingCheck THEN {"none"}
                      ELSE IF ~round.evidence THEN {"bad"} ELSE {"bad", "good"} :
        answer' = [answer EXCEPT !.verdict = verdict, !.checked = answer.draft]
    /\ node' = IF Revisable(answer') THEN "answer_revision" ELSE "citation_validator"
    /\ UNCHANGED <<available, extras, asked, question, round, called>>

\* A revision, or the sentence that stands for one that failed: a new draft.
AnswerRevision ==
    /\ node = "answer_revision"
    /\ answer' = [answer EXCEPT !.draft = @ + 1, !.revisions = @ + 1]
    /\ node' = "verifier"
    /\ UNCHANGED <<available, extras, asked, question, round, called>>

Withheld == answer.verdict = "bad"

CitationValidator ==
    /\ node = "citation_validator"
    /\ answer' = [answer EXCEPT !.shown = IF Withheld THEN "limitation" ELSE "draft"]
    /\ node' = "end"
    /\ UNCHANGED <<available, extras, asked, question, round, called>>

Answered == node \in {"end", "error"} /\ UNCHANGED researchVars

ResearchNext ==
    \/ QueryAnalyzer \/ SimplePlan \/ Planner
    \/ Executor \/ StepEvaluator \/ EvidenceGrader \/ QueryRefiner \/ ExternalFallback
    \/ Generator \/ ModelFails \/ Verifier \/ AnswerRevision \/ CitationValidator
    \/ Answered

ResearchSpec == ResearchInit /\ [][ResearchNext]_researchVars

-------------------------------------------------------------------------------
(* Properties *)

\* No source outside the scope is searched, no MCP tool is called for a request
\* kept to the workspace, by its own scope or by its wording, though a plan may
\* name one (research_workflow.py _allowed, tool_workflow.py executor).
ScopeIsKept ==
    /\ called \subseteq InScope(question.scope) \union {"mcp"}
    /\ "mcp" \in called => question.scope # "workspace_only"
    /\ asked = "workspace_only" => question.scope = "workspace_only"

\* While a local source may be searched no external one is before the fallback
\* (research_workflow.py:46 "Local evidence always comes first", :192
\* "Model-directed rewrites cannot jump to external sources").  The exception
\* is a plan made from the catalogue of MCP tools, whose steps keep the sources
\* the model proposes (tool_workflow.py planner).
LocalFirst ==
    called \intersect ExternalSources # {} =>
        round.fallback \/ Allowed(LocalSources) = {} \/ PlansFreely

\* Rewrites and plans never use up the round the fallback needs: an answer from
\* evidence graded insufficient is only written once the fallback the scope
\* allows has run (the reserve of planner and route_after_grading).  Plans with
\* data or MCP steps are not cut to the rounds left: the first one leaves the
\* round when it is shorter than the bound, a replan may use it up.
FallbackIsReserved ==
    node = "generator" /\ question.needed /\ ~round.sufficient /\ ~round.ungraded
        /\ MaxIterations > 1
    => \/ ~FallbackOpen
       \/ /\ question.complex /\ Equipped
          /\ round.replans > 0 \/ LongestPlan >= MaxIterations

\* The draft that is shown is the one the verifier accepted, the revision
\* included; any other is replaced by a limitation (citation_validator).
UnverifiedIsWithheld ==
    answer.shown = "draft" /\ question.needed /\ GroundingCheck
    => answer.verdict = "good" /\ answer.checked = answer.draft

\* No plan, replan or rewrite of a model gets around the order of the sources,
\* and no revision around the verifier.
ResearchIsSound == ScopeIsKept /\ LocalFirst /\ FallbackIsReserved /\ UnverifiedIsWithheld
=============================================================================
