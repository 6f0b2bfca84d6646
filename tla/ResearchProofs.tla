----------------------------- MODULE ResearchProofs ----------------------------
(***************************************************************************)
(* Theorems about the research of a chat question (ResearchRun), for any     *)
(* bounds on rounds, plan steps, rewrites, replans and revisions; and about  *)
(* the tools it may call (ToolProviders), for any tools, policies, refreshes *)
(* and changes of what the servers offer.                                    *)
(***************************************************************************)
EXTENDS ResearchRun, ToolProviders, FiniteSetTheorems, TLAPS

USE ResearchAssumption

-----------------------------------------------------------------------------
(* The inductive invariant.                                                 *)

\* Nothing has happened before the analysis.
StartIsClean ==
    node = "query_analyzer" =>
        /\ called = {} /\ round.attempts = 0 /\ question.plan = <<>>
        /\ question.scope = asked /\ question.selected = {}

\* Until the fallback, whatever is planned is local when something local is
\* there, but for plans made from the catalogue.
PlansAreLocal ==
    node # "query_analyzer" /\ ~round.fallback /\ Allowed(LocalSources) # {} =>
        /\ question.selected \subseteq LocalSources
        /\ ~PlansFreely =>
              \A i \in 1..Len(question.plan) : question.plan[i].sources \subseteq LocalSources

\* Only a complex question is planned.
PlannedIsComplex == node \in {"planner", "replanner"} => question.complex

\* What plans or executes a step has a round left, though the executor does not
\* look at the bound before every kind of step.
RoundsAreLeft ==
    node \in {"simple_plan", "planner", "replanner", "executor", "query_refiner",
              "external_fallback"} => round.attempts < MaxIterations

\* Rounds the plan may still use, the step at hand included.
Ahead == Len(question.plan) + 1 - round.step

\* The fallback is open, and no plan that is not cut to the rounds left may have
\* used up its round.
Keeping ==
    /\ FallbackOpen
    /\ question.complex /\ Equipped => round.replans = 0 /\ LongestPlan < MaxIterations

\* Meanwhile a round is left for it.
RoundIsKept ==
    Keeping /\ MaxIterations > 1 =>
        /\ node \in {"query_analyzer", "planner", "simple_plan"} => round.attempts = 0
        /\ node \in {"replanner", "query_refiner"} => round.attempts <= MaxIterations - 2
        /\ node = "executor" => Ahead >= 0 /\ round.attempts + Ahead <= MaxIterations - 1
        /\ node = "step_evaluator" =>
              /\ round.attempts <= MaxIterations - 1
              /\ round.attempts + Ahead <= MaxIterations
        /\ node = "evidence_grader" => round.attempts <= MaxIterations - 1

\* Nothing is shown before the end, and then only what was checked.
DraftsAreChecked ==
    /\ node # "end" => answer.shown = "nothing"
    /\ node = "citation_validator" /\ question.needed /\ GroundingCheck =>
          answer.verdict # "none" /\ answer.checked = answer.draft

ResearchInv ==
    /\ ResearchTypeOK /\ StartIsClean /\ PlansAreLocal /\ PlannedIsComplex /\ RoundsAreLeft
    /\ RoundIsKept /\ DraftsAreChecked
    /\ ResearchIsSound

-----------------------------------------------------------------------------
(* The source policy.                                                       *)

\* What may be searched is a source, in scope, and local when its choice was.
LEMMA AllowedSources ==
    ASSUME ResearchTypeOK, NEW scope \in Scopes, NEW sources
    PROVE  /\ AllowedIn(scope, sources) \subseteq InScope(scope)
           /\ AllowedIn(scope, sources) \subseteq AllSources
           /\ sources \subseteq LocalSources => AllowedIn(scope, sources) \subseteq LocalSources
BY DEF ResearchTypeOK, AllowedIn, InScope, Scopes, ToolSets, AllSources, LocalSources,
       ExternalSources

\* The session, the scope and the complexity, which decide what may be planned.
SameMandate ==
    /\ UNCHANGED <<available, extras, asked>>
    /\ question'.scope = question.scope /\ question'.complex = question.complex

\* What may be searched and planned depends on them only.
LEMMA MandateIsFixed ==
    ASSUME SameMandate
    PROVE  /\ \A sources : Allowed(sources)' = Allowed(sources)
           /\ (Equipped /\ question.complex)' <=> (Equipped /\ question.complex)
           /\ PlansFreely' <=> PlansFreely
BY DEF SameMandate, Allowed, AllowedIn, Equipped, PlansFreely, ByCatalog

LEMMA KeepingEnds ==
    ASSUME SameMandate, round \in Round, round' \in Round, round'.replans >= round.replans,
           round.fallback => round'.fallback
    PROVE  Keeping' => Keeping
<1>1. /\ Allowed(ExternalSources)' = Allowed(ExternalSources)
      /\ (Equipped /\ question.complex)' <=> (Equipped /\ question.complex)
  BY MandateIsFixed
<1>2. round.replans \in Nat /\ round'.replans \in Nat
  BY DEF Round
<1>3. LongestPlan' = LongestPlan
  BY DEF LongestPlan, CatalogLimit, Most
<1> QED BY <1>1, <1>2, <1>3 DEF Keeping, FallbackOpen

\* A step of the retrieval loop keeps the policy if it searches and plans
\* local sources where it must.
LEMMA PolicyIsKept ==
    ASSUME ResearchInv, node # "query_analyzer", node' # "query_analyzer",
           SameMandate, UNCHANGED answer, round.fallback => round'.fallback,
           called' \subseteq InScope(question.scope) \union {"mcp"},
           "mcp" \in called' => question.scope # "workspace_only",
           ~round.fallback /\ Allowed(LocalSources) # {} /\ ~PlansFreely =>
               called' \intersect ExternalSources = {},
           ~round'.fallback /\ Allowed(LocalSources) # {} =>
               /\ question'.selected \subseteq LocalSources
               /\ ~PlansFreely =>
                     \A i \in 1..Len(question'.plan) : question'.plan[i].sources \subseteq LocalSources
    PROVE  ScopeIsKept' /\ LocalFirst' /\ PlansAreLocal'
<1>1. Allowed(LocalSources)' = Allowed(LocalSources) /\ (PlansFreely' <=> PlansFreely)
  BY MandateIsFixed
<1>2. ScopeIsKept'
  BY DEF ResearchInv, ResearchIsSound, ScopeIsKept, InScope, SameMandate
<1>3. LocalFirst'
  BY <1>1 DEF LocalFirst
<1>4. PlansAreLocal'
  BY <1>1 DEF PlansAreLocal
<1> QED BY <1>2, <1>3, <1>4

\* The answer is left alone away from its nodes.
LEMMA AnswerIsKept ==
    ASSUME ResearchInv, node \notin {"end", "citation_validator"},
           node' \notin {"end", "citation_validator"}, UNCHANGED answer
    PROVE  DraftsAreChecked' /\ UnverifiedIsWithheld'
BY DEF ResearchInv, DraftsAreChecked, UnverifiedIsWithheld

\* The counters of the loop that one step changes.
LEMMA RoundMoves ==
    ASSUME NEW r \in Round, NEW n \in Nat
    PROVE  /\ [r EXCEPT !.step = 1, !.replans = n] \in Round
           /\ [r EXCEPT !.step = 1, !.rewrites = n] \in Round
<1> DEFINE first == [r EXCEPT !.step = 1]
<1>1. first \in Round
  BY DEF Round
<1> HIDE DEF first
<1>2. [first EXCEPT !.replans = n] \in Round
  BY <1>1 DEF Round
<1>3. [first EXCEPT !.rewrites = n] \in Round
  BY <1>1 DEF Round
<1> QED BY <1>2, <1>3 DEF first

LEMMA RoundCounts ==
    ASSUME NEW r \in Round, NEW n \in 0..MaxIterations, NEW e \in BOOLEAN, NEW f \in BOOLEAN
    PROVE  /\ [r EXCEPT !.attempts = n, !.evidence = e] \in Round
           /\ [r EXCEPT !.attempts = n, !.evidence = e, !.failed = f] \in Round
<1> DEFINE first == [r EXCEPT !.attempts = n]
           second == [first EXCEPT !.evidence = e]
<1>1. first \in Round
  BY DEF Round
<1> HIDE DEF first
<1>2. second \in Round
  BY <1>1 DEF Round
<1> HIDE DEF second
<1>3. [second EXCEPT !.failed = f] \in Round
  BY <1>2 DEF Round
<1> QED BY <1>2, <1>3 DEF first, second

-----------------------------------------------------------------------------
(* Plans.                                                                   *)

\* A search is a step, and a plan of steps is a plan.
LEMMA SearchingIsAStep ==
    ASSUME NEW sources \in SUBSET AllSources
    PROVE  /\ Searching(sources) \in Step /\ Searching(sources).sources = sources
           /\ <<Searching(sources)>> \in Seq(Step) /\ Len(<<Searching(sources)>>) = 1
           /\ <<Searching(sources)>>[1] = Searching(sources)
BY DEF Searching, Step

LEMMA OtherSteps ==
    /\ UsingData \in Step /\ UsingData.sources = {}
    /\ CallingMcp \in Step /\ CallingMcp.sources = {}
BY DEF UsingData, CallingMcp, Step

LEMMA PlansOfSteps ==
    ASSUME NEW steps \in SUBSET Step, NEW most \in Nat, NEW plan \in PlansOf(steps, most)
    PROVE  /\ plan \in Seq(Step) /\ Len(plan) <= most /\ Len(plan) \in Nat
           /\ \A i \in 1..Len(plan) : plan[i] \in steps
<1>1. PICK n \in 1..most : plan \in [1..n -> steps]
  BY DEF PlansOf
<1>2. n \in Nat /\ plan \in Seq(steps) /\ Len(plan) = n
  BY <1>1
<1> QED BY <1>1, <1>2

\* The limits of the plans.
LEMMA PlanLimits ==
    ASSUME ResearchTypeOK
    PROVE  /\ Remaining \in Int /\ Reserve \in {0, 1}
           /\ PlanLimit \in Nat /\ PlanLimit <= Most(1, Remaining - Reserve)
           /\ CatalogLimit \in Nat /\ CatalogLimit <= LongestPlan /\ 3 <= LongestPlan
           /\ LongestPlan \in Nat
<1>1. round.attempts \in Nat
  BY DEF ResearchTypeOK, Round
<1> QED BY <1>1 DEF Remaining, Reserve, PlanLimit, CatalogLimit, LongestPlan, Least, Most

LEMMA KeptSources ==
    ASSUME ResearchTypeOK, NEW sources
    PROVE  Kept(sources) \subseteq question.selected /\ Kept(sources) \in SUBSET AllSources
BY DEF Kept, ResearchTypeOK, Question

\* A plan of searches fits into the rounds that the fallback leaves, and
\* searches what was selected.
LEMMA SearchPlansFit ==
    ASSUME ResearchTypeOK, NEW plan \in SearchPlans
    PROVE  /\ plan \in Seq(Step) /\ Len(plan) <= Most(1, Remaining - Reserve)
           /\ \A i \in 1..Len(plan) : plan[i].sources \subseteq question.selected
<1>1. question.selected \in SUBSET AllSources
  BY DEF ResearchTypeOK, Question
<1> DEFINE kept == {Kept(IF s = {} THEN question.selected ELSE s) : s \in Proposals}
           steps == {Searching(s) : s \in kept \ {{}}}
<1>2. \A step \in steps : step \in Step /\ step.sources \subseteq question.selected
  <2> SUFFICES ASSUME NEW s \in kept PROVE Searching(s) \in Step /\ Searching(s).sources \subseteq question.selected
    OBVIOUS
  <2>1. s \in SUBSET AllSources /\ s \subseteq question.selected
    BY KeptSources
  <2> QED BY <2>1, SearchingIsAStep
<1>3. PlanLimit \in Nat /\ PlanLimit <= Most(1, Remaining - Reserve) /\ 1 <= Most(1, Remaining - Reserve)
  BY PlanLimits DEF Most
<1>4. plan \in PlansOf(steps, PlanLimit) \/ plan = <<Searching(question.selected)>>
  BY DEF SearchPlans
<1> HIDE DEF steps
<1>5. CASE plan \in PlansOf(steps, PlanLimit)
  <2>1. steps \in SUBSET Step
    BY <1>2
  <2>2. /\ plan \in Seq(Step) /\ Len(plan) <= PlanLimit /\ Len(plan) \in Nat
        /\ \A i \in 1..Len(plan) : plan[i] \in steps
    BY <1>3, <1>5, <2>1, PlansOfSteps
  <2>3. Most(1, Remaining - Reserve) \in Int
    BY PlanLimits DEF Most
  <2> QED BY <1>2, <1>3, <2>2, <2>3
<1>6. CASE plan = <<Searching(question.selected)>>
  <2>1. /\ plan \in Seq(Step) /\ Len(plan) = 1 /\ plan[1].sources = question.selected
    BY <1>1, <1>6, SearchingIsAStep
  <2> QED BY <1>3, <2>1
<1> QED BY <1>4, <1>5, <1>6

\* A plan with data searches what was selected, in no more steps than the longest.
LEMMA DataPlansFit ==
    ASSUME ResearchTypeOK, NEW plan \in DataPlans
    PROVE  /\ plan \in Seq(Step) /\ Len(plan) <= LongestPlan
           /\ \A i \in 1..Len(plan) : plan[i].sources \subseteq question.selected
<1>1. question.selected \in SUBSET AllSources
  BY DEF ResearchTypeOK, Question
<1> DEFINE searches == {Searching(Kept(s)) : s \in Proposals}
           steps == searches \union {UsingData} \union (IF "mcp" \in extras THEN {CallingMcp} ELSE {})
<1>2. \A step \in steps : step \in Step /\ step.sources \subseteq question.selected
  <2>1. \A step \in searches : step \in Step /\ step.sources \subseteq question.selected
    <3> SUFFICES ASSUME NEW s \in Proposals
                 PROVE  Searching(Kept(s)) \in Step /\ Searching(Kept(s)).sources \subseteq question.selected
      OBVIOUS
    <3>1. Kept(s) \in SUBSET AllSources /\ Kept(s) \subseteq question.selected
      BY KeptSources
    <3> QED BY <3>1, SearchingIsAStep
  <2> HIDE DEF searches
  <2> QED BY <2>1, OtherSteps
<1>3. CatalogLimit \in Nat /\ CatalogLimit <= LongestPlan /\ 3 <= LongestPlan /\ LongestPlan \in Nat
  BY PlanLimits
<1>4. \/ plan \in PlansOf(steps, CatalogLimit)
      \/ plan = <<UsingData, UsingData>>
      \/ \E s \in question.selected : plan = <<Searching({s}), UsingData, UsingData>>
  BY DEF DataPlans
<1> HIDE DEF steps
<1>5. CASE plan \in PlansOf(steps, CatalogLimit)
  <2>1. steps \in SUBSET Step
    BY <1>2
  <2>2. /\ plan \in Seq(Step) /\ Len(plan) <= CatalogLimit /\ Len(plan) \in Nat
        /\ \A i \in 1..Len(plan) : plan[i] \in steps
    BY <1>3, <1>5, <2>1, PlansOfSteps
  <2> QED BY <1>2, <1>3, <2>2
<1>6. CASE plan = <<UsingData, UsingData>>
  <2>1. plan \in Seq(Step) /\ Len(plan) = 2 /\ plan[1].sources = {} /\ plan[2].sources = {}
    BY <1>6, OtherSteps
  <2> QED BY <1>3, <2>1
<1>7. ASSUME NEW s \in question.selected, plan = <<Searching({s}), UsingData, UsingData>>
      PROVE  /\ plan \in Seq(Step) /\ Len(plan) <= LongestPlan
             /\ \A i \in 1..Len(plan) : plan[i].sources \subseteq question.selected
  <2> DEFINE search == Searching({s})
  <2>1. search \in Step /\ search.sources = {s}
    BY <1>1, SearchingIsAStep
  <2> HIDE DEF search
  <2>2. UsingData \in Step /\ UsingData.sources = {} /\ plan = <<search, UsingData, UsingData>>
    BY <1>7, OtherSteps DEF search
  <2>3. plan \in Seq(Step) /\ Len(plan) = 3
    BY <2>1, <2>2
  <2>4. plan[1] = search /\ plan[2] = UsingData /\ plan[3] = UsingData
    BY <2>2
  <2> QED BY <1>3, <2>1, <2>2, <2>3, <2>4
<1> QED BY <1>4, <1>5, <1>6, <1>7

\* A plan from the catalogue has no more steps than the longest.
LEMMA CatalogPlansFit ==
    ASSUME ResearchTypeOK, NEW plan \in CatalogPlans
    PROVE  plan \in Seq(Step) /\ Len(plan) <= LongestPlan
<1> DEFINE steps == {Searching(s) : s \in Proposals} \union {UsingData, CallingMcp}
<1>1. \A s \in Proposals : Searching(s) \in Step
  BY SearchingIsAStep
<1>2. steps \in SUBSET Step
  BY <1>1, OtherSteps
<1>3. CatalogLimit \in Nat /\ CatalogLimit <= LongestPlan /\ LongestPlan \in Nat
  BY PlanLimits
<1>4. plan \in PlansOf(steps, CatalogLimit)
  BY DEF CatalogPlans
<1> HIDE DEF steps
<1>5. plan \in Seq(Step) /\ Len(plan) <= CatalogLimit /\ Len(plan) \in Nat
  BY <1>2, <1>3, <1>4, PlansOfSteps
<1> QED BY <1>3, <1>5

-----------------------------------------------------------------------------
(* Types.                                                                   *)

LEMMA ResearchStarts == ResearchInit => ResearchInv
<1> SUFFICES ASSUME ResearchInit PROVE ResearchInv
  OBVIOUS
<1>1. ResearchTypeOK
  BY DEF ResearchInit, ResearchTypeOK, Question, QueryTypes, Round, AnswerState, Nodes
<1>2. ResearchIsSound
  BY DEF ResearchInit, ResearchIsSound, ScopeIsKept, LocalFirst, FallbackIsReserved,
         UnverifiedIsWithheld
<1> QED BY <1>1, <1>2 DEF ResearchInit, ResearchInv, StartIsClean, PlansAreLocal, RoundIsKept,
           DraftsAreChecked, PlannedIsComplex, RoundsAreLeft

-----------------------------------------------------------------------------
(* One step.                                                                *)

LEMMA AnalyzerKeeps == ResearchInv /\ QueryAnalyzer => ResearchInv'
<1> SUFFICES ASSUME ResearchInv, QueryAnalyzer PROVE ResearchInv'
  OBVIOUS
<1> DEFINE Own(scope, analysis) == AllowedIn(scope, Chosen(analysis.type, analysis.proposed))
           Sources(scope, analysis) ==
               IF AllowedIn(scope, LocalSources) # {} THEN AllowedIn(scope, LocalSources)
               ELSE IF scope = "external" /\ Own(scope, analysis) = {}
                    THEN AllowedIn(scope, ExternalSources)
               ELSE Own(scope, analysis)
<1>1. PICK analysis \in QueryAnalyses, scope \in {asked, "workspace_only"}, comparing \in BOOLEAN,
           onData \in {FALSE, "data" \in extras} :
        LET needed == onData \/ (Sources(scope, analysis) # {} /\ analysis.type # "direct")
            complex == /\ needed
                       /\ \/ onData \/ comparing \/ analysis.type = "research"
                          \/ "mcp" \in extras /\ asked # "workspace_only"
        IN  /\ question' = [question EXCEPT !.type = analysis.type, !.scope = scope,
                                            !.selected = Sources(scope, analysis),
                                            !.needed = needed, !.complex = complex]
            /\ node' = IF ~needed THEN "generator"
                       ELSE IF complex /\ PlannerEnabled THEN "planner" ELSE "simple_plan"
  BY DEF QueryAnalyzer
<1> DEFINE needed == onData \/ (Sources(scope, analysis) # {} /\ analysis.type # "direct")
           complex == /\ needed
                      /\ \/ onData \/ comparing \/ analysis.type = "research"
                         \/ "mcp" \in extras /\ asked # "workspace_only"
<1>2. /\ ResearchTypeOK /\ StartIsClean /\ DraftsAreChecked /\ node = "query_analyzer"
      /\ UNCHANGED <<available, extras, asked, round, answer, called>> /\ question \in Question
  BY DEF ResearchInv, QueryAnalyzer, ResearchTypeOK
<1>3. scope \in Scopes /\ analysis.type \in QueryTypes
      /\ needed \in BOOLEAN /\ complex \in BOOLEAN
  BY <1>2 DEF ResearchTypeOK, Scopes, QueryAnalyses
<1>4. Sources(scope, analysis) \subseteq AllSources
  BY <1>2, <1>3, AllowedSources
<1>5. /\ question' \in Question /\ question'.scope = scope
      /\ question'.selected = Sources(scope, analysis)
      /\ question'.needed = needed /\ question'.complex = complex
      /\ question'.plan = question.plan
  <2> HIDE DEF Sources, needed, complex
  <2>1. question' = [question EXCEPT !.type = analysis.type, !.scope = scope,
                                     !.selected = Sources(scope, analysis),
                                     !.needed = needed, !.complex = complex]
    BY <1>1 DEF needed, complex
  <2> QED BY <2>1, <1>2, <1>3, <1>4 DEF Question
<1>6. node' = IF ~needed THEN "generator"
              ELSE IF complex /\ PlannerEnabled THEN "planner" ELSE "simple_plan"
  BY <1>1
<1> HIDE DEF needed, complex
<1>7. ResearchTypeOK' /\ node' \in {"generator", "planner", "simple_plan"}
  BY <1>2, <1>5, <1>6 DEF ResearchTypeOK, Nodes
<1>8. StartIsClean' /\ DraftsAreChecked' /\ UnverifiedIsWithheld'
  BY <1>2, <1>7 DEF StartIsClean, DraftsAreChecked, UnverifiedIsWithheld
<1>9. PlansAreLocal'
  <2>1. Allowed(LocalSources)' = AllowedIn(scope, LocalSources)
    BY <1>2, <1>5 DEF Allowed, AllowedIn
  <2>2. AllowedIn(scope, LocalSources) \subseteq LocalSources
    BY <1>2, <1>3, AllowedSources
  <2>3. Len(question'.plan) = 0
    BY <1>2, <1>5 DEF StartIsClean
  <2> QED BY <2>1, <2>2, <2>3, <1>5 DEF PlansAreLocal
<1>10. RoundIsKept' /\ RoundsAreLeft' /\ PlannedIsComplex'
  BY <1>2, <1>5, <1>6, <1>7 DEF RoundIsKept, StartIsClean, RoundsAreLeft, PlannedIsComplex
<1>11. ScopeIsKept' /\ LocalFirst'
  BY <1>2, <1>5 DEF StartIsClean, ScopeIsKept, LocalFirst
<1>12. FallbackIsReserved'
  BY <1>5, <1>6, <1>7 DEF FallbackIsReserved
<1> QED BY <1>7, <1>8, <1>9, <1>10, <1>11, <1>12 DEF ResearchInv, ResearchIsSound

\* What has been searched so far is in scope, and local where it must be.
LEMMA SearchedLocally ==
    ASSUME ResearchInv
    PROVE  /\ called \subseteq InScope(question.scope) \union {"mcp"}
           /\ "mcp" \in called => question.scope # "workspace_only"
           /\ ~round.fallback /\ Allowed(LocalSources) # {} /\ ~PlansFreely =>
                  called \intersect ExternalSources = {}
BY DEF ResearchInv, ResearchIsSound, LocalFirst, ScopeIsKept

\* The state a planning step leaves when its plan is local where it must, and
\* fits into the rounds where one is kept.
LEMMA PlanKeeps ==
    ASSUME ResearchInv, NEW steps \in Seq(Step), node # "query_analyzer",
           question' = [question EXCEPT !.plan = steps], node' = "executor",
           round' \in Round, round'.step = 1, round'.attempts = round.attempts,
           round'.attempts < MaxIterations, round.fallback => round'.fallback,
           UNCHANGED <<available, extras, asked, answer, called>>,
           node \notin {"end", "citation_validator"},
           ~round'.fallback /\ Allowed(LocalSources) # {} /\ ~PlansFreely =>
               \A i \in 1..Len(steps) : steps[i].sources \subseteq LocalSources,
           Keeping' /\ MaxIterations > 1 =>
               round.attempts + Len(steps) <= MaxIterations - 1
    PROVE  ResearchInv'
<1>1. /\ question \in Question /\ question' \in Question /\ question'.plan = steps
      /\ question'.selected = question.selected /\ SameMandate
  BY DEF ResearchInv, ResearchTypeOK, Question, SameMandate
<1>2. ResearchTypeOK'
  BY <1>1 DEF ResearchInv, ResearchTypeOK, Nodes
<1>3. ScopeIsKept' /\ LocalFirst' /\ PlansAreLocal'
  BY <1>1, SearchedLocally, PolicyIsKept DEF ResearchInv, PlansAreLocal
<1>4. StartIsClean' /\ FallbackIsReserved' /\ DraftsAreChecked' /\ UnverifiedIsWithheld'
      /\ PlannedIsComplex' /\ RoundsAreLeft'
  BY AnswerIsKept DEF StartIsClean, FallbackIsReserved, PlannedIsComplex, RoundsAreLeft
<1>5. RoundIsKept'
  <2>1. round'.attempts \in Int /\ Ahead' = Len(steps) /\ Len(steps) \in Nat
    BY <1>1 DEF Ahead, ResearchInv, ResearchTypeOK, Round
  <2> QED BY <2>1 DEF RoundIsKept, ResearchInv, ResearchTypeOK, Round
<1> QED BY <1>2, <1>3, <1>4, <1>5 DEF ResearchInv, ResearchIsSound

LEMMA SimplePlanKeeps == ResearchInv /\ SimplePlan => ResearchInv'
<1> SUFFICES ASSUME ResearchInv, SimplePlan PROVE ResearchInv'
  OBVIOUS
<1>1. /\ ResearchTypeOK /\ question \in Question /\ question.selected \in SUBSET AllSources
      /\ round \in Round /\ PlansAreLocal
  BY DEF ResearchInv, ResearchTypeOK, Question
<1>2. /\ round' \in Round /\ round'.step = 1 /\ round'.attempts = round.attempts
      /\ round'.fallback = round.fallback /\ round'.replans = round.replans
      /\ round.attempts \in Nat /\ round.replans \in Nat
  BY <1>1 DEF SimplePlan, Round
<1>3. Keeping' => Keeping
  <2>1. SameMandate
    BY <1>1 DEF SimplePlan, Plans, Question, SameMandate
  <2> QED BY <1>1, <1>2, <2>1, KeepingEnds
<1> DEFINE steps == <<Searching(question.selected)>>
<1>4. Keeping' /\ MaxIterations > 1 => round.attempts + 1 <= MaxIterations - 1
  BY <1>2, <1>3 DEF ResearchInv, RoundIsKept, SimplePlan
<1>5. /\ steps \in Seq(Step) /\ Len(steps) = 1 /\ steps[1].sources = question.selected
  BY <1>1, SearchingIsAStep
<1>6. ~round'.fallback /\ Allowed(LocalSources) # {} =>
        \A i \in 1..Len(steps) : steps[i].sources \subseteq LocalSources
  BY <1>1, <1>2, <1>5 DEF SimplePlan, PlansAreLocal
<1>7. round.attempts < MaxIterations
  BY DEF ResearchInv, RoundsAreLeft, SimplePlan
<1>8. question' = [question EXCEPT !.plan = steps]
  BY DEF SimplePlan, Plans
<1> HIDE DEF steps
<1> QED
  BY <1>1, <1>2, <1>4, <1>5, <1>6, <1>7, <1>8, PlanKeeps DEF SimplePlan, Plans

LEMMA PlannerKeeps == ResearchInv /\ Planner => ResearchInv'
<1> SUFFICES ASSUME ResearchInv, Planner PROVE ResearchInv'
  OBVIOUS
<1>1. /\ ResearchTypeOK /\ question \in Question /\ question.selected \subseteq AllSources
      /\ round \in Round /\ PlansAreLocal /\ node \in {"planner", "replanner"}
      /\ question.complex /\ round.attempts < MaxIterations
  BY DEF ResearchInv, ResearchTypeOK, Question, Planner, PlannedIsComplex, RoundsAreLeft
<1>2. /\ round' \in Round /\ round'.step = 1 /\ round'.attempts = round.attempts
      /\ round'.fallback = round.fallback /\ round.attempts \in Nat /\ round.replans \in Nat
      /\ round'.replans = IF node = "replanner" THEN round.replans + 1 ELSE round.replans
  <2> DEFINE replans == IF node = "replanner" THEN round.replans + 1 ELSE round.replans
  <2>1. round' = [round EXCEPT !.step = 1, !.replans = replans]
    BY DEF Planner
  <2>2. replans \in Nat /\ round.replans \in Nat
    BY <1>1 DEF Round
  <2>3. replans = IF node = "replanner" THEN round.replans + 1 ELSE round.replans
    OBVIOUS
  <2> HIDE DEF replans
  <2>4. round' \in Round
    BY <1>1, <2>1, <2>2, RoundMoves
  <2> QED BY <1>1, <2>1, <2>2, <2>3, <2>4 DEF Round
<1>3. /\ Reserve \in {0, 1} /\ Remaining \in Int /\ LongestPlan \in Nat
  BY <1>1, PlanLimits
<1>4. PICK steps \in ProposedPlans : Plans(steps)
  BY DEF Planner
<1>5. /\ steps \in Seq(Step) /\ Len(steps) \in Nat
      /\ Len(steps) <= LongestPlan \/ (~Equipped /\ Len(steps) <= Most(1, Remaining - Reserve))
      /\ ByCatalog \/ \A i \in 1..Len(steps) : steps[i].sources \subseteq question.selected
  <2>1. CASE ByCatalog
    BY <1>1, <1>4, <2>1, CatalogPlansFit DEF ProposedPlans
  <2>2. CASE ~ByCatalog /\ Equipped
    BY <1>1, <1>4, <2>2, DataPlansFit DEF ProposedPlans
  <2>3. CASE ~ByCatalog /\ ~Equipped
    BY <1>1, <1>4, <2>3, SearchPlansFit DEF ProposedPlans
  <2> QED BY <2>1, <2>2, <2>3
<1>6. SameMandate
  BY <1>1, <1>4 DEF Planner, Plans, Question, SameMandate
<1>7. Keeping' => Keeping
  BY <1>1, <1>2, <1>6, KeepingEnds
<1>8. Keeping' /\ MaxIterations > 1 => round.attempts + Len(steps) <= MaxIterations - 1
  <2> SUFFICES ASSUME Keeping', MaxIterations > 1
               PROVE  round.attempts + Len(steps) <= MaxIterations - 1
    OBVIOUS
  <2>1. /\ node = "planner" => round.attempts = 0
        /\ node = "replanner" => round.attempts <= MaxIterations - 2
    BY <1>1, <1>7 DEF ResearchInv, RoundIsKept
  <2>2. Reserve = 1
    BY <1>7 DEF Reserve, Keeping
  <2>3. CASE Equipped
    <3>1. (Equipped /\ question.complex)'
      BY <1>1, <1>6, <2>3, MandateIsFixed
    <3>2. round'.replans = 0
      BY <3>1 DEF Keeping
    <3>3. LongestPlan < MaxIterations
      BY <1>1, <1>7, <2>3 DEF Keeping
    <3> QED BY <1>1, <1>2, <1>3, <1>5, <2>1, <2>3, <3>2, <3>3
  <2>4. CASE ~Equipped /\ Len(steps) <= Most(1, Remaining - Reserve)
    <3>1. Remaining - Reserve = MaxIterations - round.attempts - 1 /\ round.attempts \in Nat
      BY <1>1, <2>2 DEF Remaining, Round
    <3>2. round.attempts <= MaxIterations - 2
      BY <1>1, <2>1 DEF Planner
    <3>3. Most(1, Remaining - Reserve) = Remaining - Reserve
      BY <3>1, <3>2 DEF Most
    <3> QED BY <1>5, <2>4, <3>1, <3>3
  <2>5. CASE ~Equipped /\ Len(steps) <= LongestPlan
    <3>1. Len(steps) <= Most(1, Remaining - Reserve)
      BY <1>1, <1>4, <2>5, SearchPlansFit DEF ProposedPlans, Equipped
    <3> QED BY <2>4, <2>5, <3>1
  <2> QED BY <1>5, <2>3, <2>4, <2>5
<1>9. ~round'.fallback /\ Allowed(LocalSources) # {} /\ ~PlansFreely =>
        \A i \in 1..Len(steps) : steps[i].sources \subseteq LocalSources
  BY <1>1, <1>2, <1>5 DEF PlansAreLocal, PlansFreely
<1> QED
  BY <1>1, <1>2, <1>4, <1>5, <1>8, <1>9, PlanKeeps DEF Planner, Plans

\* A plan of one step, from a node that leaves the choice of its sources open.
LEMMA ReplannedKeeps ==
    ASSUME ResearchInv, node \in {"query_refiner", "external_fallback"},
           NEW sources \in SUBSET AllSources, NEW selected \in SUBSET AllSources,
           question' = [question EXCEPT !.plan = <<Searching(sources)>>, !.selected = selected],
           node' = "executor", round' \in Round, round'.step = 1,
           round'.attempts = round.attempts, round'.replans = round.replans,
           round.fallback => round'.fallback,
           UNCHANGED <<available, extras, asked, answer, called>>,
           ~round'.fallback => node = "query_refiner",
           ~round'.fallback /\ Allowed(LocalSources) # {} =>
               sources \subseteq LocalSources /\ selected \subseteq LocalSources
    PROVE  ResearchInv'
<1> DEFINE plan == <<Searching(sources)>>
<1>1. plan \in Seq(Step) /\ Len(plan) = 1 /\ plan[1].sources = sources
  BY SearchingIsAStep
<1>2. question' = [question EXCEPT !.plan = plan, !.selected = selected]
  OBVIOUS
<1> HIDE DEF plan
<1>3. /\ question \in Question /\ question' \in Question /\ question'.plan = plan
      /\ question'.selected = selected /\ SameMandate
  <2>1. question \in Question
    BY DEF ResearchInv, ResearchTypeOK
  <2> DEFINE planned == [question EXCEPT !.plan = plan]
  <2>2. /\ planned \in Question /\ planned.plan = plan /\ planned.scope = question.scope
        /\ planned.complex = question.complex
    BY <1>1, <2>1 DEF Question
  <2>3. question' = [planned EXCEPT !.selected = selected]
    BY <1>2
  <2> HIDE DEF planned
  <2> QED BY <2>1, <2>2, <2>3 DEF Question, SameMandate
<1>4. ResearchTypeOK'
  BY <1>3 DEF ResearchInv, ResearchTypeOK, Nodes
<1>5. ScopeIsKept' /\ LocalFirst' /\ PlansAreLocal'
  <2>1. \A i \in 1..Len(question'.plan) : question'.plan[i].sources = sources
    BY <1>1, <1>3
  <2> QED BY <1>3, <2>1, PolicyIsKept, SearchedLocally
<1>6. StartIsClean' /\ FallbackIsReserved' /\ DraftsAreChecked' /\ UnverifiedIsWithheld'
      /\ PlannedIsComplex' /\ RoundsAreLeft'
  BY AnswerIsKept DEF ResearchInv, StartIsClean, FallbackIsReserved, PlannedIsComplex, RoundsAreLeft
<1>7. RoundIsKept'
  <2>1. /\ round.attempts \in Int /\ Ahead' = 1 /\ round \in Round
        /\ round.replans \in Nat
    BY <1>1, <1>3 DEF Ahead, ResearchInv, ResearchTypeOK, Round
  <2>2. Keeping' => Keeping /\ ~round'.fallback
    BY <1>3, <2>1, KeepingEnds DEF Keeping, FallbackOpen
  <2> QED BY <2>1, <2>2 DEF RoundIsKept, ResearchInv
<1> QED BY <1>4, <1>5, <1>6, <1>7 DEF ResearchInv, ResearchIsSound

LEMMA RefinerKeeps == ResearchInv /\ QueryRefiner => ResearchInv'
<1> SUFFICES ASSUME ResearchInv, QueryRefiner PROVE ResearchInv'
  OBVIOUS
<1>1. PICK rewrite \in Rewrites :
        question' = [question EXCEPT !.plan = <<Searching(RefinedSources(rewrite))>>,
                                     !.selected = Allowed(question.selected)]
  BY DEF QueryRefiner
<1>2. /\ ResearchTypeOK /\ round \in Round /\ question \in Question
      /\ question.scope \in Scopes /\ question.selected \in SUBSET AllSources /\ PlansAreLocal
  BY DEF ResearchInv, ResearchTypeOK, Question
<1>3. /\ round' \in Round /\ round'.step = 1 /\ round'.attempts = round.attempts
      /\ round'.fallback = round.fallback /\ round'.replans = round.replans
  <2>1. round' = [round EXCEPT !.step = 1, !.rewrites = round.rewrites + 1]
    BY DEF QueryRefiner
  <2>2. round.rewrites + 1 \in Nat
    BY <1>2 DEF Round
  <2>3. round' \in Round
    BY <1>2, <2>1, <2>2, RoundMoves
  <2> QED BY <1>2, <2>1, <2>3 DEF Round
<1>4. /\ RefinedSources(rewrite) \in SUBSET AllSources
      /\ ~round.fallback /\ Allowed(LocalSources) # {} =>
            RefinedSources(rewrite) \subseteq LocalSources
  BY <1>2, AllowedSources DEF RefinedSources, Allowed
<1>5. /\ Allowed(question.selected) \in SUBSET AllSources
      /\ ~round.fallback /\ Allowed(LocalSources) # {} =>
            Allowed(question.selected) \subseteq LocalSources
  BY <1>2, AllowedSources DEF Allowed, PlansAreLocal, QueryRefiner
<1> QED BY <1>1, <1>3, <1>4, <1>5, ReplannedKeeps DEF QueryRefiner

LEMMA FallbackKeeps == ResearchInv /\ ExternalFallback => ResearchInv'
<1> SUFFICES ASSUME ResearchInv, ExternalFallback PROVE ResearchInv'
  OBVIOUS
<1> DEFINE sources(preferred) == IF Allowed({preferred}) # {} THEN Allowed({preferred})
                                 ELSE Allowed(ExternalSources \ {preferred})
<1>1. PICK preferred \in ExternalSources : Plans(<<Searching(sources(preferred))>>)
  BY DEF ExternalFallback
<1>2. /\ ResearchTypeOK /\ round \in Round /\ question \in Question
      /\ question.scope \in Scopes /\ question.selected \in SUBSET AllSources
  BY DEF ResearchInv, ResearchTypeOK, Question
<1>3. /\ round' \in Round /\ round'.step = 1 /\ round'.attempts = round.attempts
      /\ round'.fallback /\ round'.replans = round.replans
  <2> DEFINE first == [round EXCEPT !.step = 1]
  <2>1. first \in Round /\ first.step = 1 /\ first.attempts = round.attempts
        /\ first.replans = round.replans
    BY <1>2 DEF Round
  <2>2. round' = [first EXCEPT !.fallback = TRUE]
    BY DEF ExternalFallback
  <2> HIDE DEF first
  <2> QED BY <2>1, <2>2 DEF Round
<1>4. sources(preferred) \in SUBSET AllSources
  BY <1>2, AllowedSources DEF Allowed
<1> HIDE DEF sources
<1>5. /\ question' = [question EXCEPT !.plan = <<Searching(sources(preferred))>>,
                                      !.selected = question.selected]
      /\ node' = "executor"
  BY <1>1, <1>2 DEF Plans, Question
<1> QED BY <1>2, <1>3, <1>4, <1>5, ReplannedKeeps DEF ExternalFallback

\* A round of any kind, whatever it found.
LEMMA RoundSpent ==
    ASSUME ResearchInv, node = "executor", node' = "step_evaluator",
           UNCHANGED <<available, extras, asked, question, answer>>,
           NEW tools \in SUBSET (AllSources \union {"mcp"}), called' = called \union tools,
           tools \subseteq InScope(question.scope) \union {"mcp"},
           "mcp" \in tools => question.scope # "workspace_only",
           ~round.fallback /\ Allowed(LocalSources) # {} /\ ~PlansFreely =>
               tools \intersect ExternalSources = {},
           round.step <= Len(question.plan), round' \in Round, round'.step = round.step,
           round'.attempts = round.attempts + 1, round'.fallback = round.fallback,
           round'.replans = round.replans
    PROVE  ResearchInv'
<1>1. /\ ResearchTypeOK /\ round \in Round /\ question \in Question
      /\ question.plan \in Seq(Step) /\ PlansAreLocal /\ RoundIsKept /\ SameMandate
      /\ called \subseteq AllSources \union {"mcp"}
  BY DEF ResearchInv, ResearchTypeOK, Question, SameMandate
<1>2. /\ Len(question.plan) \in Nat /\ round.step \in Nat \ {0} /\ round.attempts \in 0..MaxIterations
      /\ round.replans \in Nat
  BY <1>1 DEF Round
<1>3. Keeping' => Keeping
  BY <1>1, <1>2, KeepingEnds
<1>4. ResearchTypeOK'
  BY <1>1 DEF ResearchTypeOK, Nodes
<1>5. ScopeIsKept' /\ LocalFirst' /\ PlansAreLocal'
  BY <1>1, SearchedLocally, PolicyIsKept DEF PlansAreLocal
<1>6. RoundIsKept'
  <2>1. Ahead \in Int /\ Ahead' = Ahead /\ Ahead >= 1
    BY <1>1, <1>2 DEF Ahead
  <2> QED BY <1>1, <1>2, <1>3, <2>1 DEF RoundIsKept
<1>7. StartIsClean' /\ FallbackIsReserved' /\ DraftsAreChecked' /\ UnverifiedIsWithheld'
      /\ PlannedIsComplex' /\ RoundsAreLeft'
  BY AnswerIsKept DEF StartIsClean, FallbackIsReserved, PlannedIsComplex, RoundsAreLeft
<1> QED BY <1>4, <1>5, <1>6, <1>7 DEF ResearchInv, ResearchIsSound

LEMMA ExecutorKeeps == ResearchInv /\ Executor => ResearchInv'
<1> SUFFICES ASSUME ResearchInv, Executor PROVE ResearchInv'
  OBVIOUS
<1>1. /\ ResearchTypeOK /\ round \in Round /\ question \in Question
      /\ question.scope \in Scopes /\ question.plan \in Seq(Step)
      /\ PlansAreLocal /\ RoundIsKept /\ SameMandate
      /\ node = "executor" /\ node' = "step_evaluator"
      /\ UNCHANGED <<available, extras, asked, question, answer>>
      /\ round.attempts < MaxIterations
  BY DEF ResearchInv, ResearchTypeOK, Question, Executor, SameMandate, RoundsAreLeft
<1>2. /\ Len(question.plan) \in Nat /\ round.step \in Nat \ {0} /\ round.attempts \in 0..MaxIterations
      /\ round.attempts + 1 \in 0..MaxIterations /\ round.replans \in Nat
  BY <1>1 DEF Round
<1>3. CASE round.step > Len(question.plan) /\ UNCHANGED <<round, called>>
  <2>1. Keeping' => Keeping
    BY <1>1, <1>2, <1>3, KeepingEnds
  <2>2. ResearchTypeOK'
    BY <1>1, <1>3 DEF ResearchTypeOK, Nodes
  <2>3. ScopeIsKept' /\ LocalFirst' /\ PlansAreLocal'
    BY <1>1, <1>3, PolicyIsKept, SearchedLocally DEF PlansAreLocal
  <2>4. RoundIsKept'
    <3>1. Ahead \in Int /\ Ahead' = Ahead
      BY <1>1, <1>2, <1>3 DEF Ahead
    <3> QED BY <1>1, <1>2, <1>3, <2>1, <3>1 DEF RoundIsKept
  <2>5. StartIsClean' /\ FallbackIsReserved' /\ DraftsAreChecked' /\ UnverifiedIsWithheld'
        /\ PlannedIsComplex' /\ RoundsAreLeft'
    BY <1>1, AnswerIsKept DEF StartIsClean, FallbackIsReserved, PlannedIsComplex, RoundsAreLeft
  <2> QED BY <2>2, <2>3, <2>4, <2>5 DEF ResearchInv, ResearchIsSound
<1> DEFINE step == question.plan[round.step]
<1>4. CASE round.step <= Len(question.plan) /\ SearchSources(Allowed(step.sources))
  <2> DEFINE sources == Allowed(step.sources)
  <2>1. round.step \in 1..Len(question.plan) /\ step \in Step
    BY <1>1, <1>2, <1>4
  <2>2. /\ sources \subseteq InScope(question.scope) /\ sources \subseteq AllSources
        /\ step.sources \subseteq LocalSources => sources \subseteq LocalSources
    BY <1>1, AllowedSources DEF Allowed
  <2>3. ~round.fallback /\ Allowed(LocalSources) # {} /\ ~PlansFreely => step.sources \subseteq LocalSources
    BY <1>1, <2>1 DEF PlansAreLocal
  <2> HIDE DEF sources
  <2>4. ~round.fallback /\ Allowed(LocalSources) # {} /\ ~PlansFreely =>
            sources \intersect ExternalSources = {}
    BY <2>2, <2>3 DEF LocalSources, ExternalSources
  <2>5. /\ called' = called \union sources
        /\ \E found \in BOOLEAN : round' = [round EXCEPT !.attempts = @ + 1, !.evidence = @ \/ found]
    <3>1. round.attempts < MaxIterations
      BY <1>1, <1>2, <1>4 DEF SearchSources
    <3>2. SearchSources(sources)
      BY <1>4 DEF sources
    <3>3. ~(round.attempts >= MaxIterations)
      BY <1>2, <3>1
    <3>4. called' = called \union sources
      BY <3>2, <3>3 DEF SearchSources
    <3>5. PICK found \in IF sources = {} THEN {FALSE} ELSE BOOLEAN :
              round' = [round EXCEPT !.attempts = @ + 1, !.evidence = @ \/ found]
      BY <3>2, <3>3 DEF SearchSources
    <3>6. found \in BOOLEAN
      OBVIOUS
    <3> QED BY <3>4, <3>5, <3>6
  <2>6. PICK found \in BOOLEAN : round' = [round EXCEPT !.attempts = @ + 1, !.evidence = @ \/ found]
    BY <2>5
  <2>7. (round.evidence \/ found) \in BOOLEAN /\ round.failed \in BOOLEAN
    BY <1>1 DEF Round
  <2>8. /\ round' \in Round /\ round'.fallback = round.fallback
        /\ round'.attempts = round.attempts + 1 /\ round'.step = round.step
        /\ round'.replans = round.replans
    <3>1. round' = [round EXCEPT !.attempts = round.attempts + 1,
                                 !.evidence = round.evidence \/ found]
      BY <2>6
    <3>2. round' \in Round
      BY <1>1, <1>2, <2>7, <3>1, RoundCounts
    <3> QED BY <1>1, <3>1, <3>2 DEF Round
  <2>9. "mcp" \notin sources
    BY <2>2 DEF AllSources, LocalSources, ExternalSources
  <2> QED BY <1>1, <1>4, <2>2, <2>4, <2>5, <2>8, <2>9, RoundSpent
<1>5. CASE round.step <= Len(question.plan) /\ UseData
  <2>1. PICK result :
          round' = [round EXCEPT !.attempts = @ + 1,
                                 !.evidence = @ \/ result = "completed",
                                 !.failed = IF result = "nothing" THEN @ ELSE result = "failed"]
    BY <1>5 DEF UseData
  <2> DEFINE found == round.evidence \/ result = "completed"
             failed == IF result = "nothing" THEN round.failed ELSE result = "failed"
  <2>2. found \in BOOLEAN /\ failed \in BOOLEAN
    BY <1>1 DEF Round
  <2>3. round' = [round EXCEPT !.attempts = round.attempts + 1, !.evidence = found, !.failed = failed]
    BY <2>1
  <2> HIDE DEF found, failed
  <2>4. /\ round' \in Round /\ round'.fallback = round.fallback
        /\ round'.attempts = round.attempts + 1 /\ round'.step = round.step
        /\ round'.replans = round.replans
    <3>1. round' \in Round
      BY <1>1, <1>2, <2>2, <2>3, RoundCounts
    <3> QED BY <1>1, <2>3, <3>1 DEF Round
  <2>5. called' = called \union {}
    BY <1>5 DEF UseData
  <2> QED BY <1>1, <1>5, <2>4, <2>5, RoundSpent
<1>6. CASE round.step <= Len(question.plan) /\ CallMcp
  <2> DEFINE tools == IF question.scope # "workspace_only" THEN {"mcp"} ELSE {}
  <2>1. PICK found \in BOOLEAN : round' = [round EXCEPT !.attempts = @ + 1, !.evidence = @ \/ found]
    BY <1>6 DEF CallMcp
  <2>2. (round.evidence \/ found) \in BOOLEAN /\ round.failed \in BOOLEAN
    BY <1>1 DEF Round
  <2>3. /\ round' \in Round /\ round'.fallback = round.fallback
        /\ round'.attempts = round.attempts + 1 /\ round'.step = round.step
        /\ round'.replans = round.replans
    <3>1. round' = [round EXCEPT !.attempts = round.attempts + 1,
                                 !.evidence = round.evidence \/ found]
      BY <2>1
    <3>2. round' \in Round
      BY <1>1, <1>2, <2>2, <3>1, RoundCounts
    <3> QED BY <1>1, <3>1, <3>2 DEF Round
  <2>4. called' = called \union tools
    BY <1>6 DEF CallMcp
  <2>5. tools \intersect ExternalSources = {}
    BY DEF ExternalSources
  <2>6. tools \subseteq {"mcp"} /\ ("mcp" \in tools => question.scope # "workspace_only")
    OBVIOUS
  <2> HIDE DEF tools
  <2> QED BY <1>1, <1>6, <2>3, <2>4, <2>5, <2>6, RoundSpent
<1> QED BY <1>3, <1>4, <1>5, <1>6 DEF Executor

LEMMA EvaluatorKeeps == ResearchInv /\ StepEvaluator => ResearchInv'
<1> SUFFICES ASSUME ResearchInv, StepEvaluator PROVE ResearchInv'
  OBVIOUS
<1>1. /\ ResearchTypeOK /\ round \in Round /\ question \in Question
      /\ question.plan \in Seq(Step)
      /\ PlansAreLocal /\ RoundIsKept /\ node = "step_evaluator"
      /\ UNCHANGED <<available, extras, asked, answer, called>>
  BY DEF ResearchInv, ResearchTypeOK, Question, StepEvaluator
<1>2. /\ Len(question.plan) \in Nat /\ round.step \in Nat /\ round.attempts \in 0..MaxIterations
      /\ round.replans \in Nat
  BY <1>1 DEF Round
<1>3. CASE /\ round.step < Len(question.plan) /\ round.attempts < MaxIterations
           /\ round' = [round EXCEPT !.step = @ + 1]
           /\ node' = "executor" /\ UNCHANGED question
  <2>1. /\ round' \in Round /\ round'.step = round.step + 1 /\ round'.attempts = round.attempts
        /\ round'.fallback = round.fallback /\ round'.replans = round.replans
    <3>1. round' = [round EXCEPT !.step = round.step + 1] /\ round.step + 1 \in Nat \ {0}
      BY <1>2, <1>3
    <3> QED BY <1>1, <3>1 DEF Round
  <2>2. SameMandate
    BY <1>1, <1>3 DEF SameMandate
  <2>3. ResearchTypeOK'
    BY <1>1, <1>3, <2>1 DEF ResearchTypeOK, Nodes
  <2>4. ScopeIsKept' /\ LocalFirst' /\ PlansAreLocal'
    BY <1>1, <1>3, <2>1, <2>2, PolicyIsKept, SearchedLocally DEF PlansAreLocal
  <2>5. RoundIsKept'
    <3>1. Keeping' => Keeping
      BY <1>1, <1>2, <2>1, <2>2, KeepingEnds
    <3>2. Ahead \in Int /\ Ahead' = Ahead - 1 /\ Ahead' >= 0
      <4>1. Ahead' = Len(question.plan) + 1 - (round.step + 1)
        BY <1>3, <2>1 DEF Ahead
      <4>2. Ahead = Len(question.plan) + 1 - round.step /\ round.step < Len(question.plan)
        BY <1>3 DEF Ahead
      <4> HIDE DEF Ahead
      <4> QED BY SMTT(30), <1>2, <4>1, <4>2
    <3> QED BY <1>1, <1>2, <1>3, <2>1, <3>1, <3>2 DEF RoundIsKept
  <2>6. StartIsClean' /\ FallbackIsReserved' /\ DraftsAreChecked' /\ UnverifiedIsWithheld'
        /\ PlannedIsComplex' /\ RoundsAreLeft'
    BY <1>1, <1>3, <2>1, AnswerIsKept
       DEF StartIsClean, FallbackIsReserved, PlannedIsComplex, RoundsAreLeft
  <2> QED BY <2>3, <2>4, <2>5, <2>6 DEF ResearchInv, ResearchIsSound
<1>4. CASE /\ round' = [round EXCEPT !.step = 1] /\ question' = [question EXCEPT !.plan = <<>>]
           /\ node' = "evidence_grader"
  <2>1. /\ round' \in Round /\ round'.attempts = round.attempts
        /\ round'.fallback = round.fallback /\ round'.replans = round.replans
    BY <1>1, <1>4 DEF Round
  <2>2. /\ question' \in Question /\ SameMandate /\ question'.selected = question.selected
        /\ Len(question'.plan) = 0
    <3>1. <<>> \in Seq(Step) /\ Len(<<>>) = 0
      OBVIOUS
    <3> QED BY <1>1, <1>4, <3>1 DEF SameMandate, Question
  <2>3. ResearchTypeOK'
    BY <1>1, <1>4, <2>1, <2>2 DEF ResearchTypeOK, Nodes
  <2>4. ScopeIsKept' /\ LocalFirst' /\ PlansAreLocal'
    BY <1>1, <1>4, <2>1, <2>2, PolicyIsKept, SearchedLocally DEF PlansAreLocal
  <2>5. RoundIsKept'
    <3>1. Keeping' => Keeping
      BY <1>1, <1>2, <2>1, <2>2, KeepingEnds
    <3> QED BY <1>1, <1>4, <2>1, <3>1 DEF RoundIsKept
  <2>6. StartIsClean' /\ FallbackIsReserved' /\ DraftsAreChecked' /\ UnverifiedIsWithheld'
        /\ PlannedIsComplex' /\ RoundsAreLeft'
    BY <1>1, <1>4, AnswerIsKept
       DEF StartIsClean, FallbackIsReserved, PlannedIsComplex, RoundsAreLeft
  <2> QED BY <2>3, <2>4, <2>5, <2>6 DEF ResearchInv, ResearchIsSound
<1> QED BY <1>3, <1>4 DEF StepEvaluator

LEMMA GraderKeeps == ResearchInv /\ EvidenceGrader => ResearchInv'
<1> SUFFICES ASSUME ResearchInv, EvidenceGrader PROVE ResearchInv'
  OBVIOUS
<1>1. /\ ResearchTypeOK /\ round \in Round /\ question \in Question
      /\ PlansAreLocal /\ RoundIsKept /\ node = "evidence_grader"
      /\ UNCHANGED <<available, extras, asked, question, answer, called>> /\ SameMandate
  BY DEF ResearchInv, ResearchTypeOK, EvidenceGrader, SameMandate
<1>2. PICK sufficient \in BOOLEAN, ungraded \in BOOLEAN :
        round' = [round EXCEPT !.sufficient = sufficient, !.ungraded = ungraded]
  BY <1>1 DEF EvidenceGrader, Round
<1>3. /\ round' \in Round /\ round'.attempts = round.attempts
      /\ round'.fallback = round.fallback /\ round.attempts \in Nat
      /\ round'.replans = round.replans /\ round.replans \in Nat
  <2> DEFINE first == [round EXCEPT !.sufficient = sufficient]
  <2>1. /\ first \in Round /\ first.attempts = round.attempts
        /\ first.fallback = round.fallback /\ round.attempts \in Nat
        /\ first.replans = round.replans /\ round.replans \in Nat
    BY <1>1 DEF Round
  <2>2. round' = [first EXCEPT !.ungraded = ungraded]
    BY <1>2
  <2> HIDE DEF first
  <2> QED BY <2>1, <2>2 DEF Round
<1>4. /\ node' \in {"generator", "query_refiner", "replanner", "external_fallback"}
      /\ node' \in {"query_refiner", "replanner"} => Remaining > Reserve
      /\ node' = "replanner" => question.complex
      /\ node' \in {"query_refiner", "replanner", "external_fallback"} =>
            ~(round'.attempts >= MaxIterations)
      /\ node' = "generator" =>
            round'.sufficient \/ round'.ungraded \/ round'.attempts >= MaxIterations
            \/ ~FallbackOpen
  BY DEF EvidenceGrader, AfterGrading, MayRefine, MayReplan
<1>5. Keeping' => Keeping
  BY <1>1, <1>3, KeepingEnds
<1>6. ResearchTypeOK'
  BY <1>1, <1>3, <1>4 DEF ResearchTypeOK, Nodes
<1>7. ScopeIsKept' /\ LocalFirst' /\ PlansAreLocal'
  BY <1>1, <1>3, <1>4, PolicyIsKept, SearchedLocally DEF PlansAreLocal
<1>8. RoundIsKept'
  BY <1>1, <1>3, <1>4, <1>5 DEF RoundIsKept, Remaining, Reserve, Keeping
<1>9. FallbackIsReserved'
  <2> SUFFICES ASSUME node' = "generator", ~round'.sufficient, ~round'.ungraded, MaxIterations > 1,
                      FallbackOpen', ~(question'.complex /\ Equipped'
                                       /\ (round'.replans > 0 \/ LongestPlan' >= MaxIterations))
               PROVE  FALSE
    BY DEF FallbackIsReserved
  <2>1. LongestPlan' \in Nat
    BY <1>6, PlanLimits DEF LongestPlan, CatalogLimit, Most
  <2>2. Keeping'
    BY <1>3, <2>1 DEF Keeping
  <2>3. FallbackOpen /\ round.attempts <= MaxIterations - 1
    BY <1>1, <1>5, <2>2 DEF RoundIsKept, Keeping
  <2> QED BY <1>3, <1>4, <2>3
<1>10. StartIsClean' /\ DraftsAreChecked' /\ UnverifiedIsWithheld'
       /\ PlannedIsComplex' /\ RoundsAreLeft'
  BY <1>1, <1>3, <1>4, AnswerIsKept DEF StartIsClean, PlannedIsComplex, RoundsAreLeft
<1> QED BY <1>6, <1>7, <1>8, <1>9, <1>10 DEF ResearchInv, ResearchIsSound

\* The nodes of the answer search nothing.
LEMMA AnswerKeeps ==
    ASSUME ResearchInv, answer' \in AnswerState, DraftsAreChecked', UnverifiedIsWithheld',
           node # "query_analyzer",
           node' \in {"verifier", "answer_revision", "citation_validator", "end", "error"},
           UNCHANGED <<available, extras, asked, question, round, called>>
    PROVE  ResearchInv'
<1>1. ResearchTypeOK'
  BY DEF ResearchInv, ResearchTypeOK, Nodes
<1>2. (\A sources : Allowed(sources)' = Allowed(sources)) /\ (PlansFreely' <=> PlansFreely)
  <2>1. SameMandate
    BY DEF SameMandate
  <2> QED BY <2>1, MandateIsFixed
<1>3. ScopeIsKept' /\ LocalFirst' /\ PlansAreLocal'
  BY <1>2 DEF ResearchInv, ResearchIsSound, ScopeIsKept, LocalFirst, PlansAreLocal, InScope
<1>4. StartIsClean' /\ RoundIsKept' /\ FallbackIsReserved' /\ PlannedIsComplex' /\ RoundsAreLeft'
  BY DEF StartIsClean, RoundIsKept, FallbackIsReserved, PlannedIsComplex, RoundsAreLeft
<1> QED BY <1>1, <1>3, <1>4 DEF ResearchInv, ResearchIsSound

LEMMA AnswerNodesKeep ==
    ASSUME ResearchInv, Generator \/ Verifier \/ AnswerRevision \/ CitationValidator
    PROVE  ResearchInv'
<1>1. answer \in AnswerState /\ DraftsAreChecked
  BY DEF ResearchInv, ResearchTypeOK
<1>2. CASE Generator
  <2>1. answer' \in AnswerState /\ answer'.shown = answer.shown
    BY <1>1, <1>2 DEF Generator, AnswerState
  <2>2. DraftsAreChecked' /\ UnverifiedIsWithheld'
    BY <1>1, <1>2, <2>1 DEF Generator, DraftsAreChecked, UnverifiedIsWithheld
  <2> QED BY <1>2, <2>1, <2>2, AnswerKeeps DEF Generator
<1>3. CASE Verifier
  <2>1. PICK verdict \in {"none", "bad", "good"} :
          /\ answer' = [answer EXCEPT !.verdict = verdict, !.checked = answer.draft]
          /\ question.needed /\ GroundingCheck => verdict # "none"
    BY <1>3 DEF Verifier
  <2>2. /\ answer' \in AnswerState /\ answer'.shown = answer.shown
        /\ answer'.draft = answer.draft /\ answer'.checked = answer.draft
        /\ answer'.verdict = verdict
    BY <1>1, <2>1 DEF AnswerState
  <2>3. DraftsAreChecked' /\ UnverifiedIsWithheld'
    BY <1>1, <1>3, <2>1, <2>2 DEF Verifier, DraftsAreChecked, UnverifiedIsWithheld
  <2> QED BY <1>3, <2>2, <2>3, AnswerKeeps DEF Verifier
<1>4. CASE AnswerRevision
  <2>1. answer' \in AnswerState /\ answer'.shown = answer.shown
    <3> DEFINE first == [answer EXCEPT !.draft = answer.draft + 1]
    <3>1. first \in AnswerState /\ first.shown = answer.shown
          /\ first.revisions = answer.revisions
      BY <1>1 DEF AnswerState
    <3>2. answer' = [first EXCEPT !.revisions = first.revisions + 1]
      BY <1>4, <3>1 DEF AnswerRevision
    <3> HIDE DEF first
    <3> QED BY <3>1, <3>2 DEF AnswerState
  <2>2. DraftsAreChecked' /\ UnverifiedIsWithheld'
    BY <1>1, <1>4, <2>1 DEF AnswerRevision, DraftsAreChecked, UnverifiedIsWithheld
  <2> QED BY <1>4, <2>1, <2>2, AnswerKeeps DEF AnswerRevision
<1>5. CASE CitationValidator
  <2>1. /\ answer' \in AnswerState /\ answer'.verdict = answer.verdict
        /\ answer'.checked = answer.checked /\ answer'.draft = answer.draft
        /\ answer'.shown = "draft" => answer.verdict # "bad"
    BY <1>1, <1>5 DEF CitationValidator, AnswerState, Withheld
  <2>2. answer.verdict \in {"none", "bad", "good"}
    BY <1>1 DEF AnswerState
  <2>3. DraftsAreChecked' /\ UnverifiedIsWithheld'
    BY <1>1, <1>5, <2>1, <2>2 DEF CitationValidator, DraftsAreChecked, UnverifiedIsWithheld
  <2> QED BY <1>5, <2>1, <2>3, AnswerKeeps DEF CitationValidator
<1> QED BY <1>2, <1>3, <1>4, <1>5

LEMMA FailureKeeps == ResearchInv /\ ModelFails => ResearchInv'
<1> SUFFICES ASSUME ResearchInv, ModelFails PROVE ResearchInv'
  OBVIOUS
<1>1. /\ node' = "error" /\ node \notin {"end", "citation_validator"}
      /\ UNCHANGED <<available, extras, asked, question, round, answer, called>>
  BY DEF ModelFails
<1>2. ResearchTypeOK'
  BY <1>1 DEF ResearchInv, ResearchTypeOK, Nodes
<1>3. Allowed(LocalSources)' = Allowed(LocalSources) /\ (PlansFreely' <=> PlansFreely)
  <2>1. SameMandate
    BY <1>1 DEF SameMandate
  <2> QED BY <2>1, MandateIsFixed
<1>4. ScopeIsKept' /\ LocalFirst'
  BY <1>1, <1>3 DEF ResearchInv, ResearchIsSound, ScopeIsKept, LocalFirst, InScope
<1>5. PlansAreLocal'
  <2>1. CASE node # "query_analyzer"
    BY <1>1, <1>3, <2>1 DEF ResearchInv, PlansAreLocal
  <2>2. CASE node = "query_analyzer"
    BY <1>1, <1>3, <2>2 DEF ResearchInv, StartIsClean, ResearchTypeOK, PlansAreLocal
  <2> QED BY <2>1, <2>2
<1>6. StartIsClean' /\ RoundIsKept' /\ FallbackIsReserved' /\ DraftsAreChecked'
      /\ UnverifiedIsWithheld' /\ PlannedIsComplex' /\ RoundsAreLeft'
  BY <1>1 DEF ResearchInv, ResearchIsSound, StartIsClean, RoundIsKept, FallbackIsReserved,
              DraftsAreChecked, UnverifiedIsWithheld, PlannedIsComplex, RoundsAreLeft
<1> QED BY <1>2, <1>4, <1>5, <1>6 DEF ResearchInv, ResearchIsSound

LEMMA ResearchInductive == ResearchInv /\ [ResearchNext]_researchVars => ResearchInv'
<1> SUFFICES ASSUME ResearchInv, [ResearchNext]_researchVars PROVE ResearchInv'
  OBVIOUS
<1>1. CASE UNCHANGED researchVars
  <2>1. UNCHANGED <<available, extras, asked, question, round, answer, called, node>>
    BY <1>1 DEF researchVars
  <2>2. ResearchIsSound'
    BY <2>1 DEF ResearchInv, ResearchIsSound, ScopeIsKept, LocalFirst, FallbackIsReserved,
                UnverifiedIsWithheld, Allowed, AllowedIn, InScope, FallbackOpen, PlansFreely,
                Equipped, ByCatalog, LongestPlan, CatalogLimit
  <2>3. RoundIsKept'
    BY <2>1 DEF ResearchInv, RoundIsKept, Keeping, Ahead, FallbackOpen, Allowed, AllowedIn,
                InScope, Equipped, ByCatalog, LongestPlan, CatalogLimit
  <2> QED
    BY <2>1, <2>2, <2>3 DEF ResearchInv, ResearchTypeOK, StartIsClean, PlansAreLocal,
                DraftsAreChecked, PlannedIsComplex, RoundsAreLeft, Allowed, AllowedIn, InScope,
                PlansFreely, ByCatalog
<1>2. CASE QueryAnalyzer \/ SimplePlan \/ Planner
  BY <1>2, AnalyzerKeeps, SimplePlanKeeps, PlannerKeeps
<1>3. CASE Executor \/ StepEvaluator \/ EvidenceGrader \/ QueryRefiner \/ ExternalFallback
  BY <1>3, ExecutorKeeps, EvaluatorKeeps, GraderKeeps, RefinerKeeps, FallbackKeeps
<1>4. CASE Generator \/ ModelFails \/ Verifier \/ AnswerRevision \/ CitationValidator
  BY <1>4, AnswerNodesKeep, FailureKeeps
<1>5. CASE Answered
  BY <1>1, <1>5 DEF Answered
<1> QED BY <1>1, <1>2, <1>3, <1>4, <1>5 DEF ResearchNext

-----------------------------------------------------------------------------
(* The theorems.                                                            *)

\* Every state of a research run satisfies the inductive invariant.
THEOREM ResearchInvariance == ResearchSpec => []ResearchInv
<1>1. ResearchInv /\ [ResearchNext]_researchVars => ResearchInv'
  BY ResearchInductive
<1> QED BY <1>1, ResearchStarts, PTL DEF ResearchSpec

\* Plans, counters, drafts and nodes keep their types (research_workflow.py).
THEOREM ResearchTypeCorrect == ResearchSpec => []ResearchTypeOK
<1>1. ResearchInv => ResearchTypeOK
  BY DEF ResearchInv
<1> QED BY <1>1, ResearchInvariance, PTL

\* Whatever the models answer, a question stays in its scope, searches local
\* sources first unless its plan is made from the catalogue of MCP tools, keeps
\* a round for the external fallback unless a replan with data or MCP steps may
\* have used it up, and shows only a draft the verifier accepted, for every
\* bound on rounds, steps and revisions and whatever data and tools there are.
THEOREM ResearchIsSoundHolds == ResearchSpec => []ResearchIsSound
<1>1. ResearchInv => ResearchIsSound
  BY DEF ResearchInv
<1> QED BY <1>1, ResearchInvariance, PTL

-----------------------------------------------------------------------------
(* The tools: what the registry holds and what a run may ask of it.         *)

\* A server offers tools of its own, and a refresh finds such tools.
OffersAreOwn ==
    \A s \in Servers : offer[s].tools \subseteq ToolsOf(s) /\ offer[s].version \in 0..changes
FindingsAreOwn ==
    \A f \in Discoverers : DOMAIN discovery[f].found \subseteq ToolsOf(discovery[f].server)

Healths == [Servers -> {"not_connected", "connected", "unavailable"}]
Discovery == [pc : {"idle", "listing", "found"}, server : Servers, found : Definitions]

RegistryInv ==
    /\ policy \in Policy /\ changes \in 0..MaxChanges /\ discoveries \in 0..MaxDiscoveries
    /\ offer \in [Servers -> [tools : SUBSET McpTools, version : Versions]]
    /\ definitions \in Definitions /\ health \in Healths
    /\ discovery \in [Discoverers -> Discovery]
    /\ listed \in [Servers -> Definitions]
    /\ OffersAreOwn /\ FindingsAreOwn /\ DiscoveriesAreWhole

\* What waits for an answer, or is about to be called, passed the policy.
AskedIsAllowed ==
    run.pc \in {"waiting", "claimed"} =>
        /\ run.tool \in NativeTools \cup McpTools /\ Known(run.tool)
        /\ ~Refused(run.tool, run.args)
\* The approval waited for is one of this call.
WaitIsForItsCall ==
    run.pc = "waiting" =>
        /\ run.task /\ approval.status \in {"PENDING", "APPROVED", "REJECTED"}
        /\ approval.call = Wanted(run.tool, run.args)
\* What is about to be called was approved, if it had to be.
ClaimIsCovered ==
    run.pc = "claimed" =>
        /\ NeedsApproval(run.tool) => approval.status = "APPROVED"
        /\ approval.status = "APPROVED" => approval.call = Wanted(run.tool, run.args)
ConsumedIsCalled ==
    call.approved /\ approval.status = "CONSUMED" => call.what = approval.call
SnapshotIsKept == run.kept => run.task /\ run.frozen = worked

Run == [pc : Pcs, task : BOOLEAN, frozen : Definitions, kept : BOOLEAN,
        tool : NativeTools \cup McpTools \cup {"none"}, args : Arguments]
Approval == [status : {"none", "PENDING", "APPROVED", "REJECTED", "CONSUMED"}, call : Calls]
SessionTypeOK ==
    /\ session \in [definitions : Definitions, health : Healths]
    /\ run \in Run /\ approval \in Approval
    /\ worked \in Definitions /\ call \in [what : Calls, approved : BOOLEAN]
SessionInv ==
    /\ SessionTypeOK /\ AskedIsAllowed /\ WaitIsForItsCall /\ ClaimIsCovered
    /\ ConsumedIsCalled /\ SnapshotIsKept /\ CallsAreGoverned

\* The inductive invariant of the tools.
ProvidersInv == RegistryInv /\ SessionInv

LEMMA DefinitionsHave ==
    ASSUME NEW d \in Definitions
    PROVE  DOMAIN d \subseteq McpTools /\ d \in [DOMAIN d -> Definition]
BY DEF Definitions

LEMMA DefinitionsMade ==
    ASSUME NEW S \in SUBSET McpTools, NEW d \in [S -> Definition]
    PROVE  d \in Definitions
BY DEF Definitions

LEMMA NothingDefined == <<>> \in Definitions /\ DOMAIN <<>> = {}
<1>1. DOMAIN <<>> = {} /\ <<>> \in [{} -> Definition]
  OBVIOUS
<1> QED BY <1>1, DefinitionsMade

LEMMA ServersApart ==
    ASSUME NEW s \in Servers
    PROVE  /\ ToolsOf(s) \subseteq McpTools
           /\ \A t \in McpTools : t \in ToolsOf(s) <=> ServerOf(t) = s
BY ProvidersAssumption DEF Servers, ToolsOf, ServerOf, McpTools

\* Both halves stand still while the other moves.
LEMMA RegistryStays ==
    RegistryInv /\ UNCHANGED <<operatorSide, registrySide>> => RegistryInv'
<1> SUFFICES ASSUME RegistryInv, UNCHANGED <<operatorSide, registrySide>> PROVE RegistryInv'
  OBVIOUS
<1>1. UNCHANGED <<policy, offer, changes, discoveries, definitions, health, discovery, listed>>
  BY DEF operatorSide, registrySide
<1> QED BY <1>1 DEF RegistryInv, OffersAreOwn, FindingsAreOwn, DiscoveriesAreWhole

\* What a call needs and what it becomes follow from the policy and the snapshot.
LEMMA PolicyStays ==
    ASSUME UNCHANGED policy, run'.frozen = run.frozen
    PROVE  /\ \A t : Known(t)' = Known(t) /\ NeedsApproval(t)' = NeedsApproval(t)
           /\ \A t, a : Refused(t, a)' = Refused(t, a) /\ Wanted(t, a)' = Wanted(t, a)
BY DEF Known, NeedsApproval, Refused, Wanted, DefinitionOf

LEMMA SessionStays ==
    SessionInv /\ UNCHANGED policy /\ UNCHANGED sessionSide => SessionInv'
<1> SUFFICES ASSUME SessionInv, UNCHANGED policy, UNCHANGED sessionSide PROVE SessionInv'
  OBVIOUS
<1>1. UNCHANGED <<policy, session, run, approval, call, worked>>
  BY DEF sessionSide
<1>2. /\ \A t : Known(t)' = Known(t) /\ NeedsApproval(t)' = NeedsApproval(t)
      /\ \A t, a : Refused(t, a)' = Refused(t, a) /\ Wanted(t, a)' = Wanted(t, a)
  BY <1>1, PolicyStays
<1> QED BY <1>1, <1>2 DEF SessionInv, SessionTypeOK, AskedIsAllowed, WaitIsForItsCall,
           ClaimIsCovered, ConsumedIsCalled, SnapshotIsKept, CallsAreGoverned

\* What a call of a known tool shows.
LEMMA WantedTypes ==
    ASSUME SessionTypeOK, NEW t \in NativeTools \cup McpTools, NEW args \in Arguments, Known(t)
    PROVE  Wanted(t, args) \in Calls
<1>1. run.frozen \in Definitions
  BY DEF SessionTypeOK, Run
<1>2. DefinitionOf(t).version \in Versions
  <2>1. CASE t \in NativeTools
    BY <2>1, ProvidersAssumption DEF DefinitionOf, NativeDefinition, Versions
  <2>2. CASE t \notin NativeTools
    <3>1. run.frozen[t] \in Definition
      BY <1>1, <2>2, DefinitionsHave DEF Known
    <3> QED BY <2>2, <3>1 DEF DefinitionOf, Definition
  <2> QED BY <2>1, <2>2
<1> QED BY <1>2 DEF Wanted, Calls

-----------------------------------------------------------------------------
(* The tools, one step: discovery.                                          *)

LEMMA ServerChangesKeeps ==
    ASSUME ProvidersInv, NEW s \in Servers, ServerChanges(s)
    PROVE  ProvidersInv'
<1>1. PICK tools \in {ToolsOf(s), {}} :
        offer' = [offer EXCEPT ![s] = [tools |-> tools, version |-> offer[s].version + 1]]
  BY DEF ServerChanges
<1>2. changes' = changes + 1 /\ changes' \in 0..MaxChanges
  BY ProvidersAssumption DEF ServerChanges, ProvidersInv, RegistryInv
<1>3. offer[s].version + 1 \in 0..changes' /\ \A s2 \in Servers : offer[s2].version \in 0..changes'
  BY <1>2 DEF ProvidersInv, RegistryInv, OffersAreOwn
<1>4. /\ offer' \in [Servers -> [tools : SUBSET McpTools, version : Versions]]
      /\ OffersAreOwn'
  <2>1. [tools |-> tools, version |-> offer[s].version + 1] \in [tools : SUBSET McpTools, version : Versions]
    BY <1>1, <1>2, <1>3, ServersApart, ProvidersAssumption DEF Versions
  <2>2. \A s2 \in Servers : offer'[s2].tools \subseteq ToolsOf(s2) /\ offer'[s2].version \in 0..changes'
    BY <1>1, <1>3 DEF ProvidersInv, RegistryInv, OffersAreOwn
  <2> QED BY <1>1, <2>1, <2>2 DEF ProvidersInv, RegistryInv, OffersAreOwn
<1>5. UNCHANGED <<policy, discoveries, definitions, health, discovery, listed>>
  BY DEF ServerChanges, registrySide
<1>6. RegistryInv'
  BY <1>2, <1>4, <1>5 DEF ProvidersInv, RegistryInv, FindingsAreOwn, DiscoveriesAreWhole
<1> QED BY <1>6, SessionStays DEF ServerChanges, ProvidersInv

\* A refresh that changes its own state and perhaps the health, not the registry.
LEMMA RefreshMoves ==
    ASSUME ProvidersInv, NEW f \in Discoverers, NEW d \in Discovery,
           DOMAIN d.found \subseteq ToolsOf(d.server),
           discovery' = [discovery EXCEPT ![f] = d],
           discoveries' \in 0..MaxDiscoveries, health' \in Healths,
           UNCHANGED <<operatorSide, sessionSide, definitions, listed>>
    PROVE  ProvidersInv'
<1>1. UNCHANGED <<policy, offer, changes, definitions, listed>>
  BY DEF operatorSide
<1>2. discovery' \in [Discoverers -> Discovery] /\ FindingsAreOwn'
  BY DEF ProvidersInv, RegistryInv, FindingsAreOwn
<1>3. RegistryInv'
  BY <1>1, <1>2 DEF ProvidersInv, RegistryInv, OffersAreOwn, DiscoveriesAreWhole
<1> QED BY <1>1, <1>3, SessionStays DEF ProvidersInv

LEMMA IdleTypes == Idle \in Discovery /\ DOMAIN Idle.found \subseteq ToolsOf(Idle.server)
BY NothingDefined DEF Idle, Discovery, Servers

LEMMA BeginDiscoveryKeeps ==
    ASSUME ProvidersInv, NEW f \in Discoverers, NEW s \in Servers, BeginDiscovery(f, s)
    PROVE  ProvidersInv'
<1> DEFINE listing == [Idle EXCEPT !.pc = "listing"]
           d == [listing EXCEPT !.server = s]
<1>1. listing \in Discovery /\ DOMAIN listing.found = {}
  BY IdleTypes, NothingDefined DEF Idle, Discovery
<1>2. d \in Discovery /\ DOMAIN d.found \subseteq ToolsOf(d.server)
  <2> HIDE DEF listing
  <2> QED BY <1>1 DEF Discovery
<1>3. discovery' = [discovery EXCEPT ![f] = d]
  BY DEF BeginDiscovery
<1> HIDE DEF d, listing
<1>4. discoveries' \in 0..MaxDiscoveries /\ health' \in Healths
  BY ProvidersAssumption DEF BeginDiscovery, ProvidersInv, RegistryInv
<1>5. UNCHANGED <<operatorSide, sessionSide, definitions, listed>>
  BY DEF BeginDiscovery
<1> QED BY <1>2, <1>3, <1>4, <1>5, RefreshMoves

LEMMA ListToolsKeeps ==
    ASSUME ProvidersInv, NEW f \in Discoverers, ListTools(f)
    PROVE  ProvidersInv'
<1> DEFINE s == discovery[f].server
           d == [discovery[f] EXCEPT !.pc = "found", !.found = Described(s)]
<1>1. discovery[f] \in Discovery /\ s \in Servers
  BY DEF ProvidersInv, RegistryInv, Discovery
<1>2. offer[s].tools \in SUBSET McpTools /\ offer[s].version \in Versions
      /\ offer[s].tools \subseteq ToolsOf(s)
  BY <1>1 DEF ProvidersInv, RegistryInv, OffersAreOwn
<1>3. Described(s) \in [offer[s].tools -> Definition]
  <2>1. ASSUME NEW t \in offer[s].tools
        PROVE  [version |-> offer[s].version,
                enabled |-> /\ InProfile(t)
                            /\ t \in GithubTools =>
                                  /\ policy.allowlist = {} \/ t \in policy.allowlist
                                  /\ Operation(t) = "read" \/ ~policy.readOnly] \in Definition
    BY <1>2 DEF Definition, InProfile
  <2> QED BY <2>1 DEF Described
<1>4. Described(s) \in Definitions /\ DOMAIN Described(s) \subseteq ToolsOf(s)
  BY <1>2, <1>3, DefinitionsMade
<1>5. d \in Discovery /\ d.found = Described(s) /\ d.server = s
  BY <1>1, <1>4 DEF Discovery
<1>6. discovery' = [discovery EXCEPT ![f] = d]
  BY <1>1 DEF ListTools, ProvidersInv, RegistryInv
<1>7. DOMAIN d.found \subseteq ToolsOf(d.server)
  BY <1>4, <1>5
<1> HIDE DEF d
<1>8. discoveries' \in 0..MaxDiscoveries /\ health' \in Healths
  BY DEF ListTools, ProvidersInv, RegistryInv
<1>9. UNCHANGED <<operatorSide, sessionSide, definitions, listed>>
  BY DEF ListTools
<1> QED BY <1>5, <1>6, <1>7, <1>8, <1>9, RefreshMoves

LEMMA FailDiscoveryKeeps ==
    ASSUME ProvidersInv, NEW f \in Discoverers, FailDiscovery(f)
    PROVE  ProvidersInv'
<1>1. discoveries' \in 0..MaxDiscoveries /\ health' \in Healths
  BY DEF FailDiscovery, ProvidersInv, RegistryInv, Healths
<1>2. UNCHANGED <<operatorSide, sessionSide, definitions, listed>>
  BY DEF FailDiscovery
<1> QED BY <1>1, <1>2, IdleTypes, RefreshMoves DEF FailDiscovery

LEMMA StoreDiscoveryKeeps ==
    ASSUME ProvidersInv, NEW f \in Discoverers, StoreDiscovery(f)
    PROVE  ProvidersInv'
<1> DEFINE s == discovery[f].server
           found == discovery[f].found
           kept == OfOthers(s)
<1>1. s \in Servers /\ found \in Definitions /\ DOMAIN found \subseteq ToolsOf(s)
      /\ definitions \in Definitions
  BY DEF ProvidersInv, RegistryInv, Discovery, FindingsAreOwn
<1>2. /\ definitions' = [t \in DOMAIN found \cup kept |->
                            IF t \in DOMAIN found THEN found[t] ELSE definitions[t]]
      /\ health' = [health EXCEPT ![s] = "connected"]
      /\ listed' = [listed EXCEPT ![s] = found]
      /\ discovery' = [discovery EXCEPT ![f] = Idle]
      /\ UNCHANGED <<operatorSide, sessionSide, discoveries>>
  BY DEF StoreDiscovery
<1>3. kept \subseteq DOMAIN definitions /\ \A t \in kept : ServerOf(t) # s
  BY DEF OfOthers
<1>4. \A t \in DOMAIN definitions : ServerOf(t) # s => t \in kept
  BY DEF OfOthers
<1>5. /\ DOMAIN found \subseteq McpTools /\ found \in [DOMAIN found -> Definition]
      /\ DOMAIN definitions \subseteq McpTools /\ definitions \in [DOMAIN definitions -> Definition]
  BY <1>1, DefinitionsHave
<1> HIDE DEF kept, found, s
<1>6. DOMAIN found \cup kept \in SUBSET McpTools
      /\ definitions' \in [DOMAIN found \cup kept -> Definition]
  BY <1>2, <1>3, <1>5
<1>7. definitions' \in Definitions
  BY <1>6, DefinitionsMade
<1>8. DiscoveriesAreWhole'
  <2> SUFFICES ASSUME NEW s2 \in Servers
               PROVE  Restrict(definitions', DOMAIN definitions' \cap ToolsOf(s2)) = listed'[s2]
    BY DEF DiscoveriesAreWhole
  <2>1. listed \in [Servers -> Definitions]
        /\ Restrict(definitions, DOMAIN definitions \cap ToolsOf(s2)) = listed[s2]
    BY DEF ProvidersInv, RegistryInv, DiscoveriesAreWhole
  <2>2. /\ \A t \in McpTools : t \in ToolsOf(s) <=> ServerOf(t) = s
        /\ \A t \in McpTools : t \in ToolsOf(s2) <=> ServerOf(t) = s2
    BY <1>1, ServersApart
  <2>3. CASE s2 = s
    <3>1. DOMAIN definitions' \cap ToolsOf(s2) = DOMAIN found
      BY <1>1, <1>3, <1>5, <1>6, <2>2, <2>3
    <3>2. Restrict(definitions', DOMAIN found) = [t \in DOMAIN found |-> found[t]]
      BY <1>2 DEF Restrict
    <3>3. listed'[s2] = found
      BY <1>2, <2>1, <2>3
    <3> QED BY <1>5, <3>1, <3>2, <3>3
  <2>4. CASE s2 # s
    <3>1. DOMAIN definitions' \cap ToolsOf(s2) = DOMAIN definitions \cap ToolsOf(s2)
      BY <1>1, <1>3, <1>4, <1>5, <1>6, <2>2, <2>4
    <3>2. \A t \in DOMAIN definitions \cap ToolsOf(s2) : definitions'[t] = definitions[t]
      BY <1>1, <1>2, <1>4, <1>5, <2>2, <2>4
    <3>3. Restrict(definitions', DOMAIN definitions \cap ToolsOf(s2))
            = Restrict(definitions, DOMAIN definitions \cap ToolsOf(s2))
      BY <3>2 DEF Restrict
    <3>4. listed'[s2] = listed[s2]
      BY <1>2, <2>1, <2>4
    <3> QED BY <2>1, <3>1, <3>3, <3>4
  <2> QED BY <2>3, <2>4
<1>9. discovery' \in [Discoverers -> Discovery] /\ FindingsAreOwn'
  BY <1>2, IdleTypes DEF ProvidersInv, RegistryInv, FindingsAreOwn
<1>10. health' \in Healths /\ listed' \in [Servers -> Definitions]
  BY <1>1, <1>2 DEF ProvidersInv, RegistryInv, Healths
<1>11. UNCHANGED <<policy, offer, changes, discoveries>>
  BY <1>2 DEF operatorSide
<1>12. RegistryInv'
  BY <1>7, <1>8, <1>9, <1>10, <1>11 DEF ProvidersInv, RegistryInv, OffersAreOwn
<1> QED BY <1>2, <1>11, <1>12, SessionStays DEF ProvidersInv

-----------------------------------------------------------------------------
(* The tools, one step: the session and its run.                            *)

\* A step after which nothing waits or is claimed.
LEMMA NothingIsAsked ==
    ASSUME ProvidersInv, UNCHANGED <<operatorSide, registrySide>>, SessionTypeOK',
           run'.pc \notin {"waiting", "claimed"},
           ConsumedIsCalled', SnapshotIsKept', CallsAreGoverned'
    PROVE  ProvidersInv'
BY RegistryStays DEF ProvidersInv, SessionInv, AskedIsAllowed, WaitIsForItsCall, ClaimIsCovered

LEMMA LoadSessionKeeps == ProvidersInv /\ LoadSession => ProvidersInv'
<1> SUFFICES ASSUME ProvidersInv, LoadSession PROVE ProvidersInv'
  OBVIOUS
<1>1. session' \in [definitions : Definitions, health : Healths]
  BY DEF LoadSession, ProvidersInv, RegistryInv
<1>2. UNCHANGED <<operatorSide, registrySide, policy, run, approval, call, worked>>
  BY DEF LoadSession, operatorSide
<1>3. /\ \A t : Known(t)' = Known(t) /\ NeedsApproval(t)' = NeedsApproval(t)
      /\ \A t, a : Refused(t, a)' = Refused(t, a) /\ Wanted(t, a)' = Wanted(t, a)
  BY <1>2, PolicyStays
<1>4. SessionInv'
  BY <1>1, <1>2, <1>3 DEF ProvidersInv, SessionInv, SessionTypeOK, AskedIsAllowed,
     WaitIsForItsCall, ClaimIsCovered, ConsumedIsCalled, SnapshotIsKept, CallsAreGoverned
<1> QED BY <1>2, <1>4, RegistryStays DEF ProvidersInv

\* The policy says of a call what it said before.
LEMMA GovernedStays ==
    UNCHANGED <<operatorSide, call>> /\ CallsAreGoverned => CallsAreGoverned'
BY DEF operatorSide, CallsAreGoverned

LEMMA CopyDefinitionsKeeps ==
    ASSUME ProvidersInv, NEW task \in BOOLEAN, CopyDefinitions(task)
    PROVE  ProvidersInv'
<1> DEFINE first == [run EXCEPT !.pc = "copied"]
           next == [first EXCEPT !.task = task]
<1>1. run \in Run /\ first \in Run /\ run.kept = first.kept /\ run.frozen = first.frozen
      /\ first.pc = "copied"
  BY DEF ProvidersInv, SessionInv, SessionTypeOK, Run, Pcs
<1>2. /\ run.task => task
      /\ run' = next /\ session' = [session EXCEPT !.definitions = definitions]
      /\ UNCHANGED <<operatorSide, registrySide, approval, call, worked>>
  BY DEF CopyDefinitions
<1> HIDE DEF first
<1>3. /\ run' \in Run /\ run'.pc = "copied" /\ run'.task = task
      /\ run'.kept = run.kept /\ run'.frozen = run.frozen
  BY <1>1, <1>2 DEF Run
<1>4. session' \in [definitions : Definitions, health : Healths]
  BY <1>2 DEF ProvidersInv, RegistryInv, SessionInv, SessionTypeOK
<1> HIDE DEF next
<1>5. SessionTypeOK' /\ ConsumedIsCalled' /\ SnapshotIsKept' /\ CallsAreGoverned'
  BY <1>2, <1>3, <1>4, GovernedStays
     DEF ProvidersInv, SessionInv, SessionTypeOK, ConsumedIsCalled, SnapshotIsKept
<1> QED BY <1>2, <1>3, <1>5, NothingIsAsked

LEMMA CopyHealthKeeps == ProvidersInv /\ CopyHealth => ProvidersInv'
<1> SUFFICES ASSUME ProvidersInv, CopyHealth PROVE ProvidersInv'
  OBVIOUS
<1> DEFINE frozen == IF run.kept THEN run.frozen ELSE session.definitions
           first == [run EXCEPT !.pc = "running"]
           next == [first EXCEPT !.frozen = frozen]
<1>1. /\ run \in Run /\ first \in Run /\ first.kept = run.kept /\ first.task = run.task
      /\ first.pc = "running" /\ frozen \in Definitions
  BY DEF ProvidersInv, SessionInv, SessionTypeOK, Run, Pcs
<1>2. /\ run' = next /\ session' = [session EXCEPT !.health = health]
      /\ UNCHANGED <<operatorSide, registrySide, approval, call, worked>>
  BY DEF CopyHealth
<1> HIDE DEF first
<1>3. /\ run' \in Run /\ run'.pc = "running" /\ run'.task = run.task
      /\ run'.kept = run.kept /\ run'.frozen = frozen
  BY <1>1, <1>2 DEF Run
<1>4. session' \in [definitions : Definitions, health : Healths]
  BY <1>2 DEF ProvidersInv, RegistryInv, SessionInv, SessionTypeOK
<1> HIDE DEF next
<1>5. SessionTypeOK' /\ ConsumedIsCalled' /\ SnapshotIsKept' /\ CallsAreGoverned'
  BY <1>2, <1>3, <1>4, GovernedStays
     DEF ProvidersInv, SessionInv, SessionTypeOK, ConsumedIsCalled, SnapshotIsKept
<1> QED BY <1>2, <1>3, <1>5, NothingIsAsked

\* A run that takes up a call.
LEMMA RunAsks ==
    ASSUME SessionTypeOK, NEW pc \in Pcs, NEW t \in NativeTools \cup McpTools,
           NEW args \in Arguments, run' = [run EXCEPT !.pc = pc, !.tool = t, !.args = args]
    PROVE  /\ run' \in Run /\ run'.pc = pc /\ run'.tool = t /\ run'.args = args
           /\ run'.frozen = run.frozen /\ run'.kept = run.kept /\ run'.task = run.task
<1> DEFINE first == [run EXCEPT !.pc = pc]
           second == [first EXCEPT !.tool = t]
           third == [second EXCEPT !.args = args]
<1>1. /\ first \in Run /\ first.pc = pc /\ first.frozen = run.frozen
      /\ first.kept = run.kept /\ first.task = run.task
  BY DEF SessionTypeOK, Run
<1>2. run' = third
  OBVIOUS
<1> HIDE DEF first
<1>3. /\ second \in Run /\ second.pc = pc /\ second.tool = t /\ second.frozen = run.frozen
      /\ second.kept = run.kept /\ second.task = run.task
  BY <1>1 DEF Run
<1> HIDE DEF second
<1>4. /\ third \in Run /\ third.pc = pc /\ third.tool = t /\ third.args = args
      /\ third.frozen = run.frozen /\ third.kept = run.kept /\ third.task = run.task
  BY <1>3 DEF Run
<1> QED BY <1>2, <1>4

\* One that only moves on.
LEMMA RunMoves ==
    ASSUME SessionTypeOK, NEW pc \in Pcs, run' = [run EXCEPT !.pc = pc]
    PROVE  /\ run' \in Run /\ run'.pc = pc /\ run'.tool = run.tool /\ run'.args = run.args
           /\ run'.frozen = run.frozen /\ run'.kept = run.kept /\ run'.task = run.task
BY DEF SessionTypeOK, Run

LEMMA ProposeKeeps ==
    ASSUME ProvidersInv, NEW t \in NativeTools \cup McpTools, NEW args \in Arguments,
           Propose(t, args)
    PROVE  ProvidersInv'
<1>1. /\ run.pc = "running" /\ Known(t) /\ call' = NothingCalled
      /\ UNCHANGED <<operatorSide, registrySide, session, worked, policy>>
  BY DEF Propose, operatorSide
<1>2. SessionTypeOK /\ SnapshotIsKept /\ "ended" \in Pcs /\ "claimed" \in Pcs /\ "waiting" \in Pcs
  BY DEF ProvidersInv, SessionInv, Pcs
<1>3. call' \in [what : Calls, approved : BOOLEAN] /\ call'.approved = FALSE
      /\ call'.what.tool = "none" /\ NotAsked \in Approval /\ NotAsked.status = "none"
  BY <1>1, ProvidersAssumption DEF NothingCalled, NoCall, NotAsked, Calls, Approval, Arguments,
                                   Versions
<1>4. ConsumedIsCalled' /\ CallsAreGoverned'
  BY <1>3 DEF ConsumedIsCalled, CallsAreGoverned
<1>5. ASSUME run' = [run EXCEPT !.pc = "ended"], approval' = NotAsked
      PROVE  ProvidersInv'
  <2>1. /\ run' \in Run /\ run'.pc = "ended" /\ run'.frozen = run.frozen
        /\ run'.kept = run.kept /\ run'.task = run.task
    BY <1>2, <1>5, RunMoves
  <2>2. SessionTypeOK' /\ SnapshotIsKept'
    BY <1>1, <1>2, <1>3, <1>5, <2>1 DEF SessionTypeOK, SnapshotIsKept
  <2> QED BY <1>1, <1>4, <2>1, <2>2, NothingIsAsked
<1>6. ASSUME ~Refused(t, args), NEW pc \in {"claimed", "waiting"},
             run' = [run EXCEPT !.pc = pc, !.tool = t, !.args = args],
             \/ /\ pc = "claimed" /\ ~NeedsApproval(t) /\ approval' = NotAsked
             \/ /\ pc = "waiting" /\ run.task
                /\ approval' = [status |-> "PENDING", call |-> Wanted(t, args)]
      PROVE  ProvidersInv'
  <2>1. /\ run' \in Run /\ run'.pc = pc /\ run'.tool = t /\ run'.args = args
        /\ run'.frozen = run.frozen /\ run'.kept = run.kept /\ run'.task = run.task
    BY <1>2, <1>6, RunAsks
  <2>2. /\ Known(t)' /\ ~Refused(t, args)' /\ NeedsApproval(t)' = NeedsApproval(t)
        /\ Wanted(t, args)' = Wanted(t, args)
    BY <1>1, <1>6, <2>1, PolicyStays
  <2>3. Wanted(t, args) \in Calls
    BY <1>1, <1>2, WantedTypes
  <2>4. SessionTypeOK' /\ SnapshotIsKept'
    BY <1>1, <1>2, <1>3, <1>6, <2>1, <2>3 DEF SessionTypeOK, SnapshotIsKept, Approval
  <2>5. AskedIsAllowed'
    BY <2>1, <2>2 DEF AskedIsAllowed
  <2>6. WaitIsForItsCall'
    BY <1>6, <2>1, <2>2 DEF WaitIsForItsCall
  <2>7. ClaimIsCovered'
    BY <1>3, <1>6, <2>1, <2>2 DEF ClaimIsCovered
  <2> QED BY <1>1, <1>4, <2>4, <2>5, <2>6, <2>7, RegistryStays DEF ProvidersInv, SessionInv
<1>7. \/ run' = [run EXCEPT !.pc = "ended"] /\ approval' = NotAsked
      \/ /\ ~Refused(t, args) /\ ~NeedsApproval(t) /\ approval' = NotAsked
         /\ run' = [run EXCEPT !.pc = "claimed", !.tool = t, !.args = args]
      \/ /\ ~Refused(t, args) /\ run.task
         /\ run' = [run EXCEPT !.pc = "waiting", !.tool = t, !.args = args]
         /\ approval' = [status |-> "PENDING", call |-> Wanted(t, args)]
  BY DEF Propose
<1> QED BY <1>5, <1>6, <1>7

LEMMA DecideKeeps ==
    ASSUME ProvidersInv, NEW decision \in {"APPROVED", "REJECTED"}, NEW args \in Arguments,
           Decide(decision, args)
    PROVE  ProvidersInv'
<1>1. /\ run.pc = "waiting" /\ approval' = [approval EXCEPT !.status = decision]
      /\ UNCHANGED <<operatorSide, registrySide, session, run, call, worked, policy>>
  BY DEF Decide, operatorSide
<1>2. approval' \in Approval /\ approval'.status = decision /\ approval'.call = approval.call
  BY <1>1 DEF ProvidersInv, SessionInv, SessionTypeOK, Approval
<1>3. /\ \A t : Known(t)' = Known(t) /\ NeedsApproval(t)' = NeedsApproval(t)
      /\ \A t, a : Refused(t, a)' = Refused(t, a) /\ Wanted(t, a)' = Wanted(t, a)
  BY <1>1, PolicyStays
<1>4. SessionInv'
  BY <1>1, <1>2, <1>3, GovernedStays DEF ProvidersInv, SessionInv, SessionTypeOK, AskedIsAllowed,
     WaitIsForItsCall, ClaimIsCovered, ConsumedIsCalled, SnapshotIsKept
<1> QED BY <1>1, <1>4, RegistryStays DEF ProvidersInv

LEMMA ResumeKeeps == ProvidersInv /\ Resume => ProvidersInv'
<1> SUFFICES ASSUME ProvidersInv, Resume PROVE ProvidersInv'
  OBVIOUS
<1>1. /\ run.pc = "waiting" /\ approval.status \in {"APPROVED", "REJECTED"}
      /\ UNCHANGED <<operatorSide, registrySide, session, approval, call, policy>>
  BY DEF Resume, operatorSide
<1>2. /\ SessionTypeOK /\ ConsumedIsCalled' /\ CallsAreGoverned'
      /\ run.task /\ approval.call = Wanted(run.tool, run.args)
      /\ AskedIsAllowed /\ SnapshotIsKept
      /\ "running" \in Pcs /\ "claimed" \in Pcs
  BY <1>1, GovernedStays DEF ProvidersInv, SessionInv, ConsumedIsCalled, WaitIsForItsCall, Pcs
<1>3. CASE approval.status = "REJECTED"
  <2> DEFINE first == [run EXCEPT !.pc = "running"]
             next == [first EXCEPT !.kept = TRUE]
  <2>1. /\ run \in Run /\ first \in Run /\ first.frozen = run.frozen /\ first.task = run.task
        /\ first.pc = "running"
    BY <1>2 DEF SessionTypeOK, Run
  <2>2. run' = next /\ worked' = IF run.kept THEN worked ELSE run.frozen
    BY <1>3 DEF Resume
  <2> HIDE DEF first
  <2>3. /\ run' \in Run /\ run'.pc = "running" /\ run'.kept /\ run'.frozen = run.frozen
        /\ run'.task = run.task
    BY <2>1, <2>2 DEF Run
  <2>4. run.frozen \in Definitions
    BY <2>1 DEF Run
  <2> HIDE DEF next
  <2>5. SessionTypeOK' /\ SnapshotIsKept'
    BY <1>1, <1>2, <2>2, <2>3, <2>4 DEF SessionTypeOK, SnapshotIsKept
  <2> QED BY <1>1, <1>2, <2>3, <2>5, NothingIsAsked
<1>4. CASE approval.status = "APPROVED"
  <2>1. ~Refused(run.tool, run.args) /\ run.tool \in NativeTools \cup McpTools /\ Known(run.tool)
    BY <1>1, <1>2 DEF AskedIsAllowed
  <2>2. run' = [run EXCEPT !.pc = "claimed"] /\ worked' = worked
    BY <1>4, <2>1 DEF Resume
  <2>3. /\ run' \in Run /\ run'.pc = "claimed" /\ run'.tool = run.tool /\ run'.args = run.args
        /\ run'.frozen = run.frozen /\ run'.kept = run.kept /\ run'.task = run.task
    BY <1>2, <2>2, RunMoves
  <2>4. /\ \A t : Known(t)' = Known(t) /\ NeedsApproval(t)' = NeedsApproval(t)
        /\ \A t, a : Refused(t, a)' = Refused(t, a) /\ Wanted(t, a)' = Wanted(t, a)
    BY <1>1, <2>3, PolicyStays
  <2>5. SessionTypeOK' /\ SnapshotIsKept'
    BY <1>1, <1>2, <2>2, <2>3 DEF SessionTypeOK, SnapshotIsKept
  <2>6. AskedIsAllowed' /\ WaitIsForItsCall'
    BY <2>1, <2>3, <2>4 DEF AskedIsAllowed, WaitIsForItsCall
  <2>7. ClaimIsCovered'
    BY <1>1, <1>2, <1>4, <2>3, <2>4 DEF ClaimIsCovered
  <2> QED BY <1>1, <1>2, <2>5, <2>6, <2>7, RegistryStays DEF ProvidersInv, SessionInv
<1> QED BY <1>1, <1>3, <1>4

\* What passed the policy and was approved, if it had to be, may be called.
LEMMA AllowedIsGoverned ==
    ASSUME NEW t \in NativeTools \cup McpTools, NEW args \in Arguments, ~Refused(t, args),
           NEW approved \in BOOLEAN, NeedsApproval(t) => approved,
           UNCHANGED policy, call' = [what |-> Wanted(t, args), approved |-> approved]
    PROVE  CallsAreGoverned'
<1>1. call'.what.tool = t /\ call'.what.args = args /\ call'.approved = approved
  BY DEF Wanted
<1>2. args # "secret" /\ InProfile(t)
  BY DEF Refused
<1>3. approved \/ t = "analyze_data" \/ (Operation(t) = "read" /\ policy.autoRead)
  BY DEF NeedsApproval
<1>4. ASSUME t \in GithubTools, Operation(t) # "read"
      PROVE  ~policy.readOnly /\ policy.writes /\ policy.approvals /\ args = "fine"
  <2>1. ~policy.readOnly /\ args = "fine"
    BY <1>2, <1>4 DEF Refused, Arguments
  <2>2. t \in GithubWrites /\ t \notin NativeTools
    BY <1>2, <1>4, ProvidersAssumption DEF InProfile, GithubTools, McpTools, Operation
  <2>3. Operation(t) = "write"
    BY <2>2, ProvidersAssumption DEF Operation, NativeTools
  <2>4. NeedsApproval(t)
    BY <2>2, <2>3 DEF NeedsApproval, NativeTools
  <2> QED BY <2>1, <2>3, <2>4 DEF Refused
<1> QED BY <1>1, <1>2, <1>3, <1>4 DEF CallsAreGoverned

LEMMA CallToolKeeps ==
    ASSUME ProvidersInv, NEW success \in BOOLEAN, CallTool(success)
    PROVE  ProvidersInv'
<1> DEFINE t == run.tool
           reached == t \in NativeTools \/ session.health[ServerOf(t)] = "connected"
           approved == approval.status = "APPROVED"
<1>1. /\ run.pc = "claimed"
      /\ UNCHANGED <<operatorSide, registrySide, session, policy>>
  BY DEF CallTool, operatorSide
<1>2. /\ SessionTypeOK /\ SnapshotIsKept
      /\ t \in NativeTools \cup McpTools /\ Known(t) /\ ~Refused(t, run.args)
      /\ NeedsApproval(t) => approved
      /\ approved => approval.call = Wanted(t, run.args)
      /\ run.args \in Arguments /\ run.frozen \in Definitions
  BY <1>1 DEF ProvidersInv, SessionInv, SessionTypeOK, AskedIsAllowed, ClaimIsCovered, Run
<1>3. /\ approval' \in Approval /\ approval'.call = approval.call
      /\ approval'.status = "CONSUMED" => approved \/ approval.status = "CONSUMED"
  BY <1>2 DEF SessionTypeOK, Approval, CallTool
<1>4. /\ call' \in [what : Calls, approved : BOOLEAN]
      /\ CallsAreGoverned'
      /\ call'.approved => approved /\ call'.what = Wanted(t, run.args)
  <2>1. CASE reached
    <3>1. call' = [what |-> Wanted(t, run.args), approved |-> approved]
      BY <2>1 DEF CallTool
    <3>2. Wanted(t, run.args) \in Calls
      BY <1>2, WantedTypes
    <3>3. approved \in BOOLEAN
      OBVIOUS
    <3> HIDE DEF approved, t
    <3>4. CallsAreGoverned'
      BY <1>1, <1>2, <3>1, <3>3, AllowedIsGoverned
    <3> QED BY <3>1, <3>2, <3>3, <3>4
  <2>2. CASE ~reached
    <3>1. call' = NothingCalled
      BY <2>2 DEF CallTool
    <3>2. NoCall \in Calls
      BY ProvidersAssumption DEF NoCall, Calls, Arguments, Versions
    <3> QED BY <3>1, <3>2 DEF NothingCalled, NoCall, CallsAreGoverned
  <2> QED BY <2>1, <2>2
<1>5. ConsumedIsCalled'
  BY <1>2, <1>3, <1>4 DEF ConsumedIsCalled
<1>6. /\ run' \in Run /\ run'.pc \in {"running", "ended"} /\ run'.frozen = run.frozen
      /\ run'.task = run.task
      /\ worked' \in Definitions /\ SnapshotIsKept'
  <2>1. CASE success
    <3> DEFINE first == [run EXCEPT !.pc = "running"]
               next == [first EXCEPT !.kept = run.task]
    <3>1. /\ run \in Run /\ first \in Run /\ first.frozen = run.frozen /\ first.task = run.task
          /\ first.pc = "running" /\ run.task \in BOOLEAN
      BY <1>2 DEF SessionTypeOK, Run, Pcs
    <3>2. run' = next /\ worked' = IF run.task /\ ~run.kept THEN run.frozen ELSE worked
      BY <2>1 DEF CallTool
    <3> HIDE DEF first
    <3>3. /\ run' \in Run /\ run'.pc = "running" /\ run'.kept = run.task
          /\ run'.frozen = run.frozen /\ run'.task = run.task
      BY <3>1, <3>2 DEF Run
    <3> HIDE DEF next
    <3> QED BY <1>2, <3>2, <3>3 DEF SnapshotIsKept, SessionTypeOK
  <2>2. CASE ~success
    <3>1. run' = [run EXCEPT !.pc = "ended"] /\ worked' = worked /\ "ended" \in Pcs
      BY <2>2 DEF CallTool, Pcs
    <3>2. /\ run' \in Run /\ run'.pc = "ended" /\ run'.frozen = run.frozen
          /\ run'.kept = run.kept /\ run'.task = run.task
      BY <1>2, <3>1, RunMoves
    <3> QED BY <1>2, <3>1, <3>2 DEF SnapshotIsKept, SessionTypeOK
  <2> QED BY <2>1, <2>2
<1>7. SessionTypeOK'
  BY <1>1, <1>2, <1>3, <1>4, <1>6 DEF SessionTypeOK
<1> QED BY <1>1, <1>4, <1>5, <1>6, <1>7, NothingIsAsked

LEMMA NoRunTypes ==
    /\ NoRun \in Run /\ NoRun.pc = "none" /\ ~NoRun.kept /\ ~NoRun.task
BY NothingDefined DEF NoRun, Run, Pcs, Arguments

LEMMA RunAgainKeeps == ProvidersInv /\ RunAgain => ProvidersInv'
<1> SUFFICES ASSUME ProvidersInv, RunAgain PROVE ProvidersInv'
  OBVIOUS
<1>1. UNCHANGED <<operatorSide, registrySide, session, approval, call, worked>>
  BY DEF RunAgain
<1>2. SessionTypeOK /\ SnapshotIsKept /\ ConsumedIsCalled' /\ CallsAreGoverned'
  BY <1>1, GovernedStays DEF ProvidersInv, SessionInv, ConsumedIsCalled
<1>3. run' \in Run /\ run'.pc = "none" /\ SnapshotIsKept'
  <2>1. CASE run.task
    <3> DEFINE frozen == IF run.kept THEN run.frozen ELSE <<>>
               first == [NoRun EXCEPT !.task = TRUE]
               second == [first EXCEPT !.kept = run.kept]
               third == [second EXCEPT !.frozen = frozen]
    <3>1. run.kept \in BOOLEAN /\ frozen \in Definitions
      BY <1>2, NothingDefined DEF SessionTypeOK, Run
    <3>2. first \in Run /\ first.pc = "none" /\ first.task
      BY NoRunTypes DEF Run
    <3>3. run' = third
      BY <2>1 DEF RunAgain
    <3> HIDE DEF first, frozen
    <3>4. second \in Run /\ second.pc = "none" /\ second.task /\ second.kept = run.kept
      BY <3>1, <3>2 DEF Run
    <3> HIDE DEF second
    <3>5. /\ third \in Run /\ third.pc = "none" /\ third.task /\ third.kept = run.kept
          /\ third.frozen = frozen
      BY <3>1, <3>4 DEF Run
    <3> HIDE DEF third
    <3>6. run.kept => frozen = run.frozen
      BY DEF frozen
    <3> QED BY <1>1, <1>2, <3>3, <3>5, <3>6 DEF SnapshotIsKept
  <2>2. CASE ~run.task
    BY <2>2, NoRunTypes DEF RunAgain, SnapshotIsKept
  <2> QED BY <2>1, <2>2
<1>4. SessionTypeOK'
  BY <1>1, <1>2, <1>3 DEF SessionTypeOK
<1> QED BY <1>1, <1>2, <1>3, <1>4, NothingIsAsked

LEMMA ProvidersStart == ProvidersInit => ProvidersInv
<1> SUFFICES ASSUME ProvidersInit PROVE ProvidersInv
  OBVIOUS
<1>1. changes = 0 /\ changes \in 0..MaxChanges /\ discoveries \in 0..MaxDiscoveries /\ policy \in Policy
      /\ 0 \in Versions
  BY ProvidersAssumption DEF ProvidersInit, Versions
<1>2. health \in Healths /\ session \in [definitions : Definitions, health : Healths]
  BY NothingDefined DEF ProvidersInit, Healths
<1>3. /\ offer \in [Servers -> [tools : SUBSET McpTools, version : Versions]]
      /\ OffersAreOwn
  BY <1>1, ServersApart DEF ProvidersInit, OffersAreOwn
<1>4. discovery \in [Discoverers -> Discovery] /\ FindingsAreOwn
  BY IdleTypes DEF ProvidersInit, FindingsAreOwn
<1>5. DiscoveriesAreWhole
  <2> SUFFICES ASSUME NEW s \in Servers
               PROVE  Restrict(definitions, DOMAIN definitions \cap ToolsOf(s)) = listed[s]
    BY DEF DiscoveriesAreWhole
  <2>1. definitions = <<>> /\ DOMAIN definitions = {} /\ listed[s] = <<>>
    BY NothingDefined DEF ProvidersInit
  <2>2. Restrict(definitions, DOMAIN definitions \cap ToolsOf(s)) = [x \in {} |-> definitions[x]]
    BY <2>1 DEF Restrict
  <2>3. [x \in {} |-> definitions[x]] = <<>>
    OBVIOUS
  <2> QED BY <2>1, <2>2, <2>3
<1>6. RegistryInv
  BY <1>1, <1>2, <1>3, <1>4, <1>5, NothingDefined DEF ProvidersInit, RegistryInv
<1>7. NoCall \in Calls /\ NotAsked \in Approval /\ NothingCalled \in [what : Calls, approved : BOOLEAN]
      /\ ~NothingCalled.approved /\ NothingCalled.what.tool = "none"
  BY <1>1 DEF NoCall, Calls, NotAsked, Approval, NothingCalled, Arguments
<1>8. SessionInv
  BY <1>2, <1>7, NoRunTypes, NothingDefined
     DEF ProvidersInit, SessionInv, SessionTypeOK, AskedIsAllowed, WaitIsForItsCall,
         ClaimIsCovered, ConsumedIsCalled, SnapshotIsKept, CallsAreGoverned
<1> QED BY <1>6, <1>8 DEF ProvidersInv

LEMMA ProvidersInductive == ProvidersInv /\ [ProvidersNext]_providersVars => ProvidersInv'
<1> SUFFICES ASSUME ProvidersInv, [ProvidersNext]_providersVars PROVE ProvidersInv'
  OBVIOUS
<1>1. CASE ProvidersNext
  <2>1. ASSUME NEW s \in Servers, ServerChanges(s) PROVE ProvidersInv'
    BY <2>1, ServerChangesKeeps
  <2>2. ASSUME NEW s \in Servers, NEW f \in Discoverers, BeginDiscovery(f, s) PROVE ProvidersInv'
    BY <2>2, BeginDiscoveryKeeps
  <2>3. ASSUME NEW f \in Discoverers, ListTools(f) \/ StoreDiscovery(f) \/ FailDiscovery(f)
        PROVE  ProvidersInv'
    BY <2>3, ListToolsKeeps, StoreDiscoveryKeeps, FailDiscoveryKeeps
  <2>4. ASSUME LoadSession \/ CopyHealth \/ Resume \/ RunAgain PROVE ProvidersInv'
    BY <2>4, LoadSessionKeeps, CopyHealthKeeps, ResumeKeeps, RunAgainKeeps
  <2>5. ASSUME NEW task \in BOOLEAN, CopyDefinitions(task) PROVE ProvidersInv'
    BY <2>5, CopyDefinitionsKeeps
  <2>6. ASSUME NEW t \in NativeTools \cup McpTools, NEW args \in Arguments, Propose(t, args)
        PROVE  ProvidersInv'
    BY <2>6, ProposeKeeps
  <2>7. ASSUME NEW decision \in {"APPROVED", "REJECTED"}, NEW args \in Arguments,
               Decide(decision, args)
        PROVE  ProvidersInv'
    BY <2>7, DecideKeeps
  <2>8. ASSUME NEW success \in BOOLEAN, CallTool(success) PROVE ProvidersInv'
    BY <2>8, CallToolKeeps
  <2> QED BY <1>1, <2>1, <2>2, <2>3, <2>4, <2>5, <2>6, <2>7, <2>8 DEF ProvidersNext
<1>2. CASE UNCHANGED providersVars
  BY <1>2, RegistryStays, SessionStays DEF providersVars, operatorSide, ProvidersInv
<1> QED BY <1>1, <1>2

-----------------------------------------------------------------------------
(* The theorems about the tools.                                            *)

\* The inductive invariant: a refresh holds tools of its own server, what waits or
\* is claimed passed the policy, and the approval waited for shows the very call
\* (tool_registry.py refresh, tool_policy.py evaluate, phase4.py guard_call).
THEOREM ProvidersInvariance == ProvidersSpec => []ProvidersInv
<1> QED BY ProvidersStart, ProvidersInductive, PTL DEF ProvidersSpec

\* Whatever is discovered, decided or resumed: the registry is what the servers last
\* told, no call passes outside the policy, and what was approved is what is called
\* (tool_registry.py refresh and call_tool, tool_policy.py evaluate).
THEOREM ToolsAreGovernedHolds == ProvidersSpec => []ToolsAreGoverned
<1>1. ProvidersInv => ToolsAreGoverned
  BY DEF ProvidersInv, RegistryInv, SessionInv, ToolsAreGoverned, ApprovedIsCalled,
         ConsumedIsCalled, SnapshotIsKept
<1> QED BY <1>1, ProvidersInvariance, PTL
=============================================================================
