-------------------------- MODULE WorkerTaskProofs --------------------------
(***************************************************************************)
(* The task of module WorkerTask has its types, and its tool calls are     *)
(* calls of the ledger of module ToolLedger: what module ToolLedgerProofs  *)
(* proves of the ledger holds of the task under every interleaving of API, *)
(* workers, detached graphs, crashes and recovery.  On top of that, what   *)
(* becomes of the durable rows: one runner, bounded reruns, completed      *)
(* tasks that are whole, final statuses, and no orphan but two.            *)
(***************************************************************************)
EXTENDS WorkerTask, ToolLedgerProofs, TLAPS

USE WorkerAssumption, LedgerAssumption DEF Jobs

\* Job numbers and step numbers lie in the ranges that rows and threads use.
LEMMA Ranges ==
    /\ 0 \in 0..MaxJobs /\ 1 \in 1..(N + 1)
    /\ \A j \in Jobs : j \in 0..MaxJobs
    /\ \A s \in 1..N : s \in 1..(N + 1) /\ s \in 0..N
OBVIOUS

\* The rows start with their types.
LEMMA WorkerTypeInit == WorkerInit => WorkerTypeOK
<1> SUFFICES ASSUME WorkerInit PROVE WorkerTypeOK
  OBVIOUS
<1>1. RowsTypeOK
  BY DEF WorkerInit, RowsTypeOK, TaskRow, StepRow, JobRow, TaskStatus, Terminal, StepStatus
<1>2. Idler \in Delivery /\ NoGraph \in GraphThread
  BY DEF Delivery, GraphThread, WorkerPC, GraphPC, Errors, Idler, NoGraph
<1>3. RunTypeOK
  BY <1>2 DEF WorkerInit, RunTypeOK, NoGraph
<1>4. SideTypeOK
  BY DEF WorkerInit, SideTypeOK, NoRescue
<1> QED
  BY <1>1, <1>3, <1>4 DEF WorkerTypeOK

\* A graph thread that is not running has its type.
LEMMA NoGraphType == NoGraph \in GraphThread
BY Ranges DEF GraphThread, NoGraph, GraphPC

\* Giving the task another status keeps its type.
LEMMA StatusType ==
    ASSUME task \in TaskRow, NEW s \in TaskStatus
    PROVE  [task EXCEPT !.status = s] \in TaskRow
BY DEF TaskRow

\* Giving a job another row keeps the types of all.
LEMMA JobType ==
    ASSUME job \in [Jobs -> JobRow], NEW j \in Jobs, NEW r \in JobRow
    PROVE  [job EXCEPT ![j] = r] \in [Jobs -> JobRow]
OBVIOUS

\* An enqueued task has its type, and so has its new job.
LEMMA EnqueueType ==
    ASSUME RowsTypeOK, NEW from, Enqueue(from), UNCHANGED step
    PROVE  RowsTypeOK'
<1>1. task.job + 1 \in Jobs /\ task.job + 1 \in 0..MaxJobs
  BY DEF RowsTypeOK, TaskRow, Enqueue, MayEnqueue
<1>2. task' \in TaskRow
  BY <1>1 DEF RowsTypeOK, TaskRow, TaskStatus, Enqueue
<1>3. job' \in [Jobs -> JobRow]
  BY <1>1 DEF RowsTypeOK, JobRow, Enqueue
<1> QED
  BY <1>2, <1>3 DEF RowsTypeOK

\* A controlled task has its type, and so has its cancelled job.
LEMMA ControlType ==
    ASSUME RowsTypeOK, NEW cancel \in BOOLEAN, RequestControl(cancel), UNCHANGED step
    PROVE  RowsTypeOK'
<1>1. task' \in TaskRow
  BY DEF RowsTypeOK, TaskRow, TaskStatus, Terminal, RequestControl
<1>2. job' \in [Jobs -> JobRow]
  BY DEF RowsTypeOK, JobRow, RequestControl
<1> QED
  BY <1>1, <1>2 DEF RowsTypeOK

\* What remembers a request under way keeps its type.
LEMMA ApiType == ASSUME WorkerTypeOK, ApiStep PROVE WorkerTypeOK'
<1> USE DEF WorkerTypeOK
<1>1. CASE RunTask
  BY <1>1, EnqueueType DEF RunTask, runVars, sideVars, RunTypeOK, SideTypeOK
<1>2. CASE ResumeTask
  BY <1>2, EnqueueType DEF ResumeTask, runVars, sideVars, RunTypeOK, SideTypeOK
<1>3. CASE PauseTask
  BY <1>3, ControlType DEF PauseTask, runVars, sideVars, RunTypeOK, SideTypeOK
<1>4. CASE CancelApprovals
  BY <1>4 DEF CancelApprovals, runVars, RowsTypeOK, RunTypeOK, SideTypeOK
<1>5. CASE CancelTask
  <2>1. RowsTypeOK'
    BY <1>5, ControlType DEF CancelTask, RowsTypeOK
  <2> QED
    BY <1>5, <2>1 DEF CancelTask, runVars, RunTypeOK, SideTypeOK
<1>6. ASSUME NEW i \in Sensitive, ReviewTask(i) PROVE WorkerTypeOK'
  BY <1>6 DEF ReviewTask, runVars, RowsTypeOK, RunTypeOK, SideTypeOK
<1>7. ASSUME NEW d \in {"APPROVED", "EDITED", "REJECTED"}, StoreDecision(d)
      PROVE  WorkerTypeOK'
  BY <1>7 DEF StoreDecision, runVars, RowsTypeOK, RunTypeOK, SideTypeOK
<1>8. CASE ResumeDecided
  <2>1. RowsTypeOK'
    BY <1>8, EnqueueType DEF ResumeDecided, RowsTypeOK
  <2> QED
    BY <1>8, <2>1 DEF ResumeDecided, runVars, RunTypeOK, SideTypeOK
<1> QED
  BY <1>1, <1>2, <1>3, <1>4, <1>5, <1>6, <1>7, <1>8 DEF ApiStep

-----------------------------------------------------------------------------
(* Deliveries *)

\* A worker that moves on keeps its type.
LEMMA AtType ==
    ASSUME worker \in [Threads -> Delivery], NEW w \in Threads, NEW pc \in WorkerPC,
           At(w, pc)
    PROVE  worker' \in [Threads -> Delivery]
<1> DEFINE d == [worker[w] EXCEPT !.pc = pc]
<1>1. d \in Delivery
  BY DEF Delivery
<1>2. worker' = [worker EXCEPT ![w] = d]
  BY DEF At
<1> HIDE DEF d
<1> QED
  BY <1>1, <1>2

\* So does one that raises.
LEMMA FailType ==
    ASSUME worker \in [Threads -> Delivery], NEW w \in Threads, NEW pc \in WorkerPC,
           NEW e \in Errors, Fail(w, pc, e)
    PROVE  worker' \in [Threads -> Delivery]
<1> DEFINE d == [worker[w] EXCEPT !.pc = pc, !.error = e]
<1>1. d \in Delivery
  BY DEF Delivery
<1>2. worker' = [worker EXCEPT ![w] = d]
  BY DEF Fail
<1> HIDE DEF d
<1> QED
  BY <1>1, <1>2

\* A job that ends, or is requeued, keeps its type.
LEMMA EndJobType ==
    ASSUME job \in [Jobs -> JobRow], NEW j \in 0..MaxJobs, EndJob(j)
    PROVE  job' \in [Jobs -> JobRow]
BY DEF EndJob, JobRow

\* So does one that is retried.
LEMMA RequeueType ==
    ASSUME job \in [Jobs -> JobRow], NEW j \in 0..MaxJobs,
           job' = [job EXCEPT ![j] = [status |-> "todo", attempts |-> @.attempts + 1]]
    PROVE  job' \in [Jobs -> JobRow]
<1>1. CASE j \in Jobs
  <2>1. [status |-> "todo", attempts |-> job[j].attempts + 1] \in JobRow
    BY <1>1 DEF JobRow
  <2> QED
    BY <1>1, <2>1
<1>2. CASE j \notin Jobs
  BY <1>2
<1> QED
  BY <1>1, <1>2

\* A step that changes none of them keeps all types.
LEMMA WorkerStutterType == ASSUME WorkerTypeOK, UNCHANGED workerVars PROVE WorkerTypeOK'
BY DEF WorkerTypeOK, RowsTypeOK, RunTypeOK, SideTypeOK, workerVars

\* A delivery that touches only the worker and the task's status keeps all types.
LEMMA WorkerMoveType ==
    ASSUME WorkerTypeOK, worker' \in [Threads -> Delivery], task' \in TaskRow,
           UNCHANGED <<step, job, graph, sideVars>>
    PROVE  WorkerTypeOK'
BY DEF WorkerTypeOK, RowsTypeOK, RunTypeOK, SideTypeOK, sideVars

\* Fetching a job starts a delivery.
LEMMA FetchType ==
    ASSUME WorkerTypeOK, NEW w \in Threads, Fetch(w)
    PROVE  WorkerTypeOK'
<1>1. PICK j \in Jobs :
        /\ job' = [job EXCEPT ![j].status = "doing"]
        /\ worker' = [worker EXCEPT ![w] = [Idler EXCEPT !.pc = "claiming", !.job = j]]
  BY DEF Fetch
<1>2. job' \in [Jobs -> JobRow]
  BY <1>1 DEF WorkerTypeOK, RowsTypeOK, JobRow
<1>3. [Idler EXCEPT !.pc = "claiming", !.job = j] \in Delivery
  <2>1. j \in 0..MaxJobs
    BY Ranges
  <2>2. Idler \in Delivery
    BY Ranges DEF Idler, Delivery, WorkerPC, Errors
  <2> QED
    BY <2>1, <2>2 DEF Delivery, WorkerPC
<1>4. worker' \in [Threads -> Delivery]
  BY <1>1, <1>3 DEF WorkerTypeOK, RunTypeOK
<1> QED
  BY <1>2, <1>4 DEF Fetch, WorkerTypeOK, RowsTypeOK, RunTypeOK, SideTypeOK, sideVars

\* The claim, whatever it finds.
LEMMA ClaimDeliveryType ==
    ASSUME WorkerTypeOK, NEW w \in Threads, ClaimDelivery(w)
    PROVE  WorkerTypeOK'
<1> USE DEF WorkerTypeOK, RowsTypeOK, RunTypeOK
<1>1. PICK pc \in {"closing", "preparing"} : At(w, pc)
  BY DEF ClaimDelivery, Settle
<1>2. worker' \in [Threads -> Delivery]
  BY <1>1, AtType DEF WorkerPC
<1>3. task' \in TaskRow
  <2>1. ASSUME NEW s \in {"CANCELLED", "PAUSED", "FAILED", "REQUIRES_RECONCILIATION"},
               Settle(w, s)
        PROVE  task' \in TaskRow
    BY <2>1, StatusType DEF Settle, TaskStatus, Terminal
  <2>2. ASSUME task' = [task EXCEPT !.status = "RUNNING", !.attempts = @ + 1]
        PROVE  task' \in TaskRow
    <3>1. task.attempts + 1 \in Nat
      BY DEF TaskRow
    <3> QED
      BY <2>2, <3>1 DEF TaskRow, TaskStatus
  <2> QED
    BY <2>1, <2>2 DEF ClaimDelivery
<1> QED
  BY <1>2, <1>3, WorkerMoveType DEF ClaimDelivery

\* run's reads, up to the call of ask.
LEMMA PrepareType ==
    ASSUME WorkerTypeOK, NEW w \in Threads, Prepare(w)
    PROVE  WorkerTypeOK'
<1> USE DEF WorkerTypeOK, RowsTypeOK, RunTypeOK
<1>1. ASSUME NEW e \in Errors, Fail(w, "handling", e)
      PROVE  worker' \in [Threads -> Delivery]
  BY <1>1, FailType DEF WorkerPC
<1>2. ASSUME NEW i \in Outstanding \union {NoIntent}, NEW s \in 1..(N + 1),
             worker' = [worker EXCEPT ![w].pc = "asking", ![w].first = s, ![w].resume = i]
      PROVE  worker' \in [Threads -> Delivery]
  <2>1. i \in Sensitive \union {NoIntent}
    BY DEF Outstanding
  <2> QED
    <3> DEFINE d == [worker[w] EXCEPT !.pc = "asking", !.first = s, !.resume = i]
    <3>1. d \in Delivery
      <4>1. worker[w] \in Delivery
        OBVIOUS
      <4>2. "asking" \in WorkerPC
        BY DEF WorkerPC
      <4> HIDE DEF WorkerTypeOK, RowsTypeOK, RunTypeOK
      <4> QED BY <2>1, <4>1, <4>2, <1>2 DEF Delivery
    <3>2. worker' = [worker EXCEPT ![w] = d]
      BY <1>2
    <3> QED
      BY <3>1, <3>2
<1>3. worker' \in [Threads -> Delivery]
  BY <1>1, <1>2 DEF Prepare
<1> QED
  BY <1>3, WorkerMoveType DEF Prepare

\* The graph is entered at a step of the plan, or past it.
LEMMA AskType ==
    ASSUME WorkerTypeOK, NEW w \in Threads, Ask(w)
    PROVE  WorkerTypeOK'
<1> USE DEF WorkerTypeOK, RunTypeOK
<1>1. worker' \in [Threads -> Delivery]
  BY AtType DEF Ask, WorkerPC
<1>2. worker[w].first \in 1..(N + 1) /\ worker[w].resume \in Sensitive \union {NoIntent}
  BY DEF Delivery
<1>3. PICK g \in GraphThread :
        /\ graph' = [graph EXCEPT ![w] = g]
        /\ g.pc # "analyzing" => g.step \in 1..N
  <2>1. CASE worker[w].resume = NoIntent
    <3> DEFINE g == [NoGraph EXCEPT !.pc = "analyzing", !.step = worker[w].first]
    <3>1. g \in GraphThread /\ g.pc = "analyzing"
      BY <1>2, NoGraphType DEF GraphThread, NoGraph, GraphPC
    <3> QED
      BY <2>1, <3>1 DEF Ask
  <2>2. CASE worker[w].resume # NoIntent
    <3>1. PICK s \in 1..N :
            graph' = [graph EXCEPT ![w] = [NoGraph EXCEPT !.pc = "starting", !.step = s,
                                                          !.resume = worker[w].resume]]
      BY <2>2 DEF Ask
    <3> DEFINE g == [NoGraph EXCEPT !.pc = "starting", !.step = s,
                                    !.resume = worker[w].resume]
    <3>2. g \in GraphThread /\ g.step \in 1..N
      BY <1>2, Ranges, NoGraphType DEF GraphThread, NoGraph, GraphPC
    <3> QED
      BY <3>1, <3>2
  <2> QED
    BY <2>1, <2>2
<1>4. graph' \in [Threads -> GraphThread]
  BY <1>3
<1>5. \A u \in Threads :
        graph'[u].pc \notin {"idle", "analyzing", "finishing"} => graph'[u].step \in 1..N
  BY <1>3
<1> QED
  BY <1>1, <1>4, <1>5 DEF Ask, RowsTypeOK, SideTypeOK, sideVars

\* The rest of a delivery, from the answer to the end of the job.
LEMMA ReadOutcomeType ==
    ASSUME WorkerTypeOK, NEW w \in Threads, ReadOutcome(w)
    PROVE  WorkerTypeOK'
<1>1. Outcome \in {"FAILED", "PAUSED", "COMPLETED"}
  BY DEF Outcome
<1>2. worker' \in [Threads -> Delivery]
  <2>1. PICK pc \in WorkerPC :
          worker' = [worker EXCEPT ![w].pc = pc, ![w].goal = Outcome]
    BY DEF ReadOutcome, WorkerPC
  <2> DEFINE d == [worker[w] EXCEPT !.pc = pc, !.goal = Outcome]
  <2>2. d \in Delivery
    <3>1. worker[w] \in Delivery
      BY DEF WorkerTypeOK, RunTypeOK
    <3> QED BY <1>1, <3>1 DEF Delivery
  <2>3. worker' = [worker EXCEPT ![w] = d]
    BY <2>1
  <2> HIDE DEF d
  <2> QED
    BY <2>2, <2>3 DEF WorkerTypeOK, RunTypeOK
<1> QED
  BY <1>2, WorkerMoveType DEF ReadOutcome, WorkerTypeOK, RowsTypeOK

\* The transition that run or its except clause asks for.
LEMMA SettleTaskType ==
    ASSUME WorkerTypeOK, NEW w \in Threads, SettleTask(w)
    PROVE  WorkerTypeOK'
<1> USE DEF WorkerTypeOK, RunTypeOK
<1>1. CASE task.status \in Legal(worker[w].goal)
  <2>1. worker[w].goal \in TaskStatus
    <3>1. worker[w].goal # "NONE"
      BY <1>1 DEF Legal
    <3> QED
      BY <3>1 DEF Delivery, TaskStatus, Terminal
  <2>2. task' \in TaskRow
    BY <1>1, <2>1, StatusType DEF SettleTask, RowsTypeOK
  <2>3. PICK pc \in {"answering", "handling"} : At(w, pc)
    BY <1>1 DEF SettleTask
  <2>4. worker' \in [Threads -> Delivery]
    BY <2>3, AtType DEF WorkerPC
  <2> QED
    BY <2>2, <2>4, WorkerMoveType DEF SettleTask
<1>2. CASE task.status \notin Legal(worker[w].goal)
  <2>1. PICK pc \in {"raising", "handling"} : Fail(w, pc, "other")
    BY <1>2 DEF SettleTask
  <2>2. worker' \in [Threads -> Delivery]
    BY <2>1, FailType DEF WorkerPC, Errors
  <2> QED
    BY <1>2, <2>2, WorkerMoveType DEF SettleTask, RowsTypeOK
<1> QED
  BY <1>1, <1>2

\* The answer is saved, or cannot be.
LEMMA SaveAnswerType ==
    ASSUME WorkerTypeOK, NEW w \in Threads, SaveAnswer(w)
    PROVE  WorkerTypeOK'
<1> USE DEF WorkerTypeOK, RunTypeOK
<1>1. CASE At(w, "closing")
  BY <1>1, AtType, WorkerMoveType DEF SaveAnswer, WorkerPC, RowsTypeOK
<1>2. ASSUME NEW pc \in {"handling", "raising"}, NEW e \in {"other", "transient"},
             Fail(w, pc, e)
      PROVE  WorkerTypeOK'
  <2>1. worker' \in [Threads -> Delivery]
    BY <1>2, FailType DEF WorkerPC, Errors
  <2> QED
    BY <2>1, WorkerMoveType DEF SaveAnswer, RowsTypeOK
<1> QED
  BY <1>1, <1>2 DEF SaveAnswer

\* The except clause of run fails a running task, or passes on.
LEMMA RaiseType ==
    ASSUME WorkerTypeOK, NEW w \in Threads, Raise(w)
    PROVE  WorkerTypeOK'
<1> USE DEF WorkerTypeOK, RunTypeOK
<1>1. CASE At(w, "handling")
  BY <1>1, AtType, WorkerMoveType DEF Raise, WorkerPC, RowsTypeOK
<1>2. CASE worker' = [worker EXCEPT ![w].pc = "settling", ![w].goal = "FAILED"]
  <2> DEFINE d == [worker[w] EXCEPT !.pc = "settling", !.goal = "FAILED"]
  <2>1. d \in Delivery
    <3>1. worker[w] \in Delivery
      OBVIOUS
    <3>2. "settling" \in WorkerPC
      BY DEF WorkerPC
    <3> HIDE DEF WorkerTypeOK, RunTypeOK
    <3> QED BY <3>1, <3>2 DEF Delivery
  <2>2. worker' \in [Threads -> Delivery]
    BY <1>2, <2>1
  <2> QED
    BY <2>2, WorkerMoveType DEF Raise, RowsTypeOK
<1> QED
  BY <1>1, <1>2 DEF Raise

\* The except clause of execute_task settles the task, or cannot.
LEMMA HandleFailureType ==
    ASSUME WorkerTypeOK, NEW w \in Threads, HandleFailure(w)
    PROVE  WorkerTypeOK'
<1> USE DEF WorkerTypeOK, RunTypeOK
<1>1. PICK pc \in {"retrying", "closing"} : At(w, pc)
  BY DEF HandleFailure
<1>2. worker' \in [Threads -> Delivery]
  BY <1>1, AtType DEF WorkerPC
<1>3. PICK s \in TaskStatus : task' = [task EXCEPT !.status = s] \/ task' = task
  BY DEF HandleFailure, TaskStatus, Terminal
<1>4. task' \in TaskRow
  BY <1>3, StatusType DEF RowsTypeOK
<1> QED
  BY <1>2, <1>4, WorkerMoveType DEF HandleFailure

\* The job ends or is requeued, and the worker is idle again.
LEMMA CloseJobType ==
    ASSUME WorkerTypeOK, NEW w \in Threads, CloseJob(w)
    PROVE  WorkerTypeOK'
<1> DEFINE j == worker[w].job
<1>1. Idler \in Delivery
  BY Ranges DEF Idler, Delivery, WorkerPC, Errors
<1>2. worker' \in [Threads -> Delivery]
  BY <1>1 DEF CloseJob, WorkerTypeOK, RunTypeOK
<1>3. j \in 0..MaxJobs /\ job \in [Jobs -> JobRow]
  BY DEF WorkerTypeOK, RowsTypeOK, RunTypeOK, Delivery
<1>4. CASE EndJob(j)
  BY <1>2, <1>3, <1>4, EndJobType
     DEF CloseJob, WorkerTypeOK, RowsTypeOK, RunTypeOK, SideTypeOK, sideVars
<1>5. CASE job' = [job EXCEPT ![j] = [status |-> "todo", attempts |-> @.attempts + 1]]
  <2>1. job' \in [Jobs -> JobRow]
    BY <1>3, <1>5, RequeueType
  <2> QED
    BY <1>2, <2>1
       DEF CloseJob, WorkerTypeOK, RowsTypeOK, RunTypeOK, SideTypeOK, sideVars
<1> QED
  BY <1>4, <1>5 DEF CloseJob

\* Every step of a delivery.
LEMMA DeliveryType ==
    ASSUME WorkerTypeOK, NEW w \in Threads, DeliveryStep(w)
    PROVE  WorkerTypeOK'
BY ClaimDeliveryType, PrepareType, AskType, ReadOutcomeType, SettleTaskType,
   SaveAnswerType, RaiseType, HandleFailureType, CloseJobType DEF DeliveryStep

-----------------------------------------------------------------------------
(* Graphs *)

\* A graph thread that changes keeps its type and its place in the plan.
LEMMA GraphChangeType ==
    ASSUME RunTypeOK, NEW w \in Threads, NEW g \in GraphThread,
           g.pc \notin {"idle", "analyzing", "finishing"} => g.step \in 1..N,
           graph' = [graph EXCEPT ![w] = g], worker' \in [Threads -> Delivery]
    PROVE  RunTypeOK'
BY DEF RunTypeOK

\* It keeps them when it moves on, within its step or to the end.
LEMMA MoveType ==
    ASSUME RunTypeOK, NEW w \in Threads, NEW pc \in GraphPC, Move(w, pc), UNCHANGED worker,
           \/ pc \in {"idle", "analyzing", "finishing"}
           \/ graph[w].pc \notin {"idle", "analyzing", "finishing"}
           \/ graph[w].step \in 1..N
    PROVE  RunTypeOK'
<1> DEFINE g == [graph[w] EXCEPT !.pc = pc]
<1>1. g \in GraphThread /\ g.step = graph[w].step /\ g.pc = pc
  BY DEF RunTypeOK, GraphThread
<1>2. g.pc \notin {"idle", "analyzing", "finishing"} => g.step \in 1..N
  BY <1>1 DEF RunTypeOK
<1>3. graph' = [graph EXCEPT ![w] = g]
  BY DEF Move
<1>4. worker' \in [Threads -> Delivery]
  BY DEF RunTypeOK
<1> HIDE DEF g
<1> QED
  BY <1>1, <1>2, <1>3, <1>4, GraphChangeType

\* It keeps them when it ends, and so does the worker that waited for it.
LEMMA LeaveType ==
    ASSUME RunTypeOK, NEW w \in Threads, NEW e \in Errors, Leave(w, e)
    PROVE  RunTypeOK'
<1>1. worker' \in [Threads -> Delivery]
  <2>1. CASE graph[w].detached
    BY <2>1 DEF Leave, RunTypeOK
  <2>2. CASE ~graph[w].detached
    <3>1. PICK pc \in {"reading", "raising"} : Fail(w, pc, e)
      BY <2>2 DEF Leave
    <3> QED
      BY <3>1, FailType DEF RunTypeOK, WorkerPC
  <2> QED
    BY <2>1, <2>2
<1>2. NoGraph.pc = "idle"
  BY DEF NoGraph
<1> QED
  BY <1>1, <1>2, NoGraphType, GraphChangeType DEF Leave

\* A step of a graph leaves job, recovery and requests alone.
LEMMA GraphFrame ==
    ASSUME WorkerTypeOK, RunTypeOK', task' \in TaskRow, step' \in [1..N -> StepRow],
           UNCHANGED <<job, sideVars>>
    PROVE  WorkerTypeOK'
BY DEF WorkerTypeOK, RowsTypeOK, SideTypeOK, sideVars

\* Giving a step another status keeps its type.
LEMMA StepStatusType ==
    ASSUME step \in [1..N -> StepRow], NEW s \in 1..N, NEW status \in StepStatus,
           step' = [step EXCEPT ![s].status = status]
    PROVE  step' \in [1..N -> StepRow]
BY DEF StepRow

\* The plan is stored, or the task waits for a dataset.
LEMMA AnalyzeType ==
    ASSUME WorkerTypeOK, NEW w \in Threads, Analyze(w)
    PROVE  WorkerTypeOK'
<1>1. task' \in TaskRow
  BY StatusType DEF Analyze, WorkerTypeOK, RowsTypeOK, TaskStatus
<1>2. step' \in [1..N -> StepRow]
  <2>1. CASE step' = [s \in 1..N |-> IF step[s].status = "ABSENT"
                                     THEN [step[s] EXCEPT !.status = "PENDING"] ELSE step[s]]
    <3>1. ASSUME NEW s \in 1..N
          PROVE  [step[s] EXCEPT !.status = "PENDING"] \in StepRow
      BY DEF WorkerTypeOK, RowsTypeOK, StepRow, StepStatus
    <3> QED
      BY <2>1, <3>1 DEF WorkerTypeOK, RowsTypeOK
  <2> QED
    BY <2>1 DEF Analyze, WorkerTypeOK, RowsTypeOK
<1>3. RunTypeOK'
  <2>1. CASE Move(w, "finishing")
    BY <2>1, MoveType DEF Analyze, WorkerTypeOK, GraphOnly, GraphPC
  <2>2. CASE Move(w, "starting") /\ ~(graph[w].step > N)
    <3>1. graph[w].step \in 1..N
      BY <2>2 DEF WorkerTypeOK, RunTypeOK, GraphThread
    <3> QED
      BY <2>2, <3>1, MoveType DEF Analyze, WorkerTypeOK, GraphOnly, GraphPC
  <2> QED
    BY <2>1, <2>2 DEF Analyze
<1> QED
  BY <1>1, <1>2, <1>3, GraphFrame DEF Analyze, GraphOnly

\* A step starts, unless the task or the step has moved on or tries are used up.
LEMMA StartStepType ==
    ASSUME WorkerTypeOK, NEW w \in Threads, StartStep(w)
    PROVE  WorkerTypeOK'
<1> DEFINE s == graph[w].step
<1>1. s \in 1..N
  BY DEF StartStep, WorkerTypeOK, RunTypeOK
<1>2. PICK pc \in {"finishing", "working", "tool"} : Move(w, pc)
  BY DEF StartStep
<1>3. RunTypeOK'
  BY <1>1, <1>2, MoveType DEF StartStep, WorkerTypeOK, GraphOnly, GraphPC
<1>4. task' \in TaskRow /\ step' \in [1..N -> StepRow]
  <2>1. CASE UNCHANGED <<task, step>>
    BY <2>1 DEF WorkerTypeOK, RowsTypeOK
  <2>2. CASE /\ MayTry(s)
             /\ step' = [step EXCEPT ![s] = [status |-> "RUNNING", tries |-> @.tries + 1]]
             /\ task' = [task EXCEPT !.current = s]
    <3>1. [status |-> "RUNNING", tries |-> step[s].tries + 1] \in StepRow
      BY <1>1, <2>2 DEF MayTry, WorkerTypeOK, RowsTypeOK, StepRow, StepStatus
    <3>2. s \in 0..N
      BY <1>1, Ranges
    <3> QED
      BY <1>1, <2>2, <3>1, <3>2 DEF WorkerTypeOK, RowsTypeOK, TaskRow
  <2> QED
    BY <2>1, <2>2 DEF StartStep
<1> QED
  BY <1>3, <1>4, GraphFrame DEF StartStep, GraphOnly

\* A step without a tool ends one way or the other.
LEMMA WorkType ==
    ASSUME WorkerTypeOK, NEW w \in Threads, Work(w)
    PROVE  WorkerTypeOK'
<1>1. PICK ok \in BOOLEAN :
        graph' = [graph EXCEPT ![w].pc = "checkpointing", ![w].ok = ok]
  BY DEF Work
<1> DEFINE g == [graph[w] EXCEPT !.pc = "checkpointing", !.ok = ok]
<1>2. graph' = [graph EXCEPT ![w] = g]
  BY <1>1
<1>3. g \in GraphThread /\ g.step \in 1..N
  <2>1. graph[w] \in GraphThread /\ graph[w].step \in 1..N
    BY DEF Work, WorkerTypeOK, RunTypeOK
  <2> QED
    BY <2>1 DEF GraphThread, GraphPC
<1>4. worker' \in [Threads -> Delivery]
  BY DEF Work, GraphOnly, WorkerTypeOK, RunTypeOK
<1> HIDE DEF g
<1>5. RunTypeOK'
  BY <1>2, <1>3, <1>4, GraphChangeType DEF WorkerTypeOK
<1> QED
  BY <1>5, GraphFrame DEF Work, GraphOnly, WorkerTypeOK, RowsTypeOK

\* The steps inside a tool call that only move the graph thread.
LEMMA ToolMoveType ==
    ASSUME WorkerTypeOK, NEW w \in Threads,
           CheckTask(w) \/ InterruptGraph(w) \/ WaitForApproval(w)
    PROVE  WorkerTypeOK'
<1>1. PICK pc \in {"waiting", "interrupting", "tool"} : Move(w, pc)
  BY DEF CheckTask, InterruptGraph, WaitForApproval
<1>2. graph[w].pc \in {"tool", "interrupting", "waiting"}
  BY DEF CheckTask, InterruptGraph, WaitForApproval
<1>3. UNCHANGED <<worker, job, sideVars>>
  BY DEF CheckTask, InterruptGraph, WaitForApproval, GraphOnly
<1>4. RunTypeOK'
  BY <1>1, <1>2, <1>3, MoveType DEF WorkerTypeOK, GraphPC
<1>5. task' \in TaskRow
  <2>1. UNCHANGED task \/ task' = [task EXCEPT !.status = "WAITING_USER"]
    BY DEF CheckTask, InterruptGraph, WaitForApproval
  <2> QED
    BY <2>1, StatusType DEF WorkerTypeOK, RowsTypeOK, TaskStatus
<1>6. step' \in [1..N -> StepRow]
  <2>1. CASE UNCHANGED step
    BY <2>1 DEF WorkerTypeOK, RowsTypeOK
  <2>2. CASE WaitForApproval(w)
    <3>1. graph[w].step \in 1..N
      BY <1>2 DEF WorkerTypeOK, RunTypeOK
    <3> QED
      BY <2>2, <3>1, StepStatusType
         DEF WaitForApproval, WorkerTypeOK, RowsTypeOK, StepStatus
  <2> QED
    BY <2>1, <2>2 DEF CheckTask, InterruptGraph
<1> QED
  BY <1>3, <1>4, <1>5, <1>6, GraphFrame

\* A tool call that is over, or broken off, leads to the checkpoint.
LEMMA ToolEndType ==
    ASSUME WorkerTypeOK, NEW w \in Threads, NEW ok \in BOOLEAN,
           graph[w].pc \in {"tool", "waiting", "interrupting"},
           graph' = [graph EXCEPT ![w].pc = "checkpointing", ![w].resume = NoIntent,
                                  ![w].ok = ok],
           UNCHANGED <<task, step, job, worker, sideVars>>
    PROVE  WorkerTypeOK'
<1> DEFINE g == [graph[w] EXCEPT !.pc = "checkpointing", !.resume = NoIntent, !.ok = ok]
<1>1. graph' = [graph EXCEPT ![w] = g]
  OBVIOUS
<1>2. g \in GraphThread /\ g.step \in 1..N
  <2>1. graph[w] \in GraphThread /\ graph[w].step \in 1..N
    BY DEF WorkerTypeOK, RunTypeOK
  <2>2. "checkpointing" \in GraphPC
    BY DEF GraphPC
  <2>3. NoIntent \in Sensitive \union {NoIntent}
    OBVIOUS
  <2> QED BY <2>1, <2>2, <2>3 DEF GraphThread
<1>3. worker' \in [Threads -> Delivery]
  BY DEF WorkerTypeOK, RunTypeOK
<1> HIDE DEF g
<1>4. RunTypeOK'
  BY <1>1, <1>2, <1>3, GraphChangeType DEF WorkerTypeOK
<1> QED
  BY <1>4, GraphFrame DEF WorkerTypeOK, RowsTypeOK

\* So is one that returns, unless it interrupts the graph.
LEMMA ToolReturnsType ==
    ASSUME WorkerTypeOK, NEW w \in Threads, ToolReturns(w)
    PROVE  WorkerTypeOK'
<1>1. CASE thread[w].result = "interrupt"
  <2>1. RunTypeOK'
    BY <1>1, LeaveType DEF ToolReturns, WorkerTypeOK, Errors
  <2> QED
    BY <2>1, GraphFrame DEF ToolReturns, WorkerTypeOK, RowsTypeOK
<1>2. CASE thread[w].result # "interrupt"
  <2> DEFINE good == thread[w].result \in {"success", "rejected"}
  <2>1. good \in BOOLEAN
    OBVIOUS
  <2>2. graph' = [graph EXCEPT ![w].pc = "checkpointing", ![w].resume = NoIntent,
                               ![w].ok = good]
    BY <1>2 DEF ToolReturns
  <2>3. UNCHANGED <<task, step, job, worker, sideVars>>
    BY <1>2 DEF ToolReturns
  <2>4. graph[w].pc \in {"tool", "waiting", "interrupting"}
    BY DEF ToolReturns
  <2> HIDE DEF good
  <2> QED
    BY <2>1, <2>2, <2>3, <2>4, ToolEndType
<1> QED
  BY <1>1, <1>2

\* The checkpoint gives the step a status.
LEMMA CheckpointType ==
    ASSUME WorkerTypeOK, NEW w \in Threads, Checkpoint(w)
    PROVE  WorkerTypeOK'
<1>1. graph[w].step \in 1..N
  BY DEF Checkpoint, WorkerTypeOK, RunTypeOK
<1>2. step' \in [1..N -> StepRow]
  <2>1. PICK c \in {"COMPLETED", "FAILED"} : step' = [step EXCEPT ![graph[w].step].status = c]
    BY DEF Checkpoint
  <2> QED
    BY <1>1, <2>1, StepStatusType DEF WorkerTypeOK, RowsTypeOK, StepStatus
<1>3. RunTypeOK'
  BY <1>1, MoveType DEF Checkpoint, WorkerTypeOK, GraphOnly, GraphPC
<1> QED
  BY <1>2, <1>3, GraphFrame DEF Checkpoint, GraphOnly, WorkerTypeOK, RowsTypeOK

\* The boundary finishes, turns the task, or goes to the next step.
LEMMA EvaluateType ==
    ASSUME WorkerTypeOK, NEW w \in Threads, Evaluate(w)
    PROVE  WorkerTypeOK'
<1>1. graph[w].step \in 1..N /\ graph[w] \in GraphThread
  BY DEF Evaluate, WorkerTypeOK, RunTypeOK
<1>2. PICK g :
        /\ graph' = [graph EXCEPT ![w] = g]
        /\ \/ g = [graph[w] EXCEPT !.pc = "finishing"]
           \/ \E goal \in {"CANCELLED", "PAUSED", "FAILED"} :
                 g = [graph[w] EXCEPT !.pc = "turning", !.goal = goal]
           \/ /\ graph[w].step # N
              /\ g = [graph[w] EXCEPT !.pc = "starting", !.step = @ + 1]
  <2>1. CASE Move(w, "finishing")
    BY <2>1 DEF Move
  <2>2. ASSUME NEW goal \in {"CANCELLED", "PAUSED", "FAILED"},
               graph' = [graph EXCEPT ![w].pc = "turning", ![w].goal = goal]
        PROVE  \E g :
                 /\ graph' = [graph EXCEPT ![w] = g]
                 /\ g = [graph[w] EXCEPT !.pc = "turning", !.goal = goal]
    BY <2>2
  <2>3. ASSUME graph' = [graph EXCEPT ![w].pc = "starting", ![w].step = @ + 1]
        PROVE  \E g :
                 /\ graph' = [graph EXCEPT ![w] = g]
                 /\ g = [graph[w] EXCEPT !.pc = "starting", !.step = @ + 1]
    BY <2>3
  <2> QED
    BY <2>1, <2>2, <2>3 DEF Evaluate
<1>3. g \in GraphThread /\ (g.pc \notin {"idle", "analyzing", "finishing"} => g.step \in 1..N)
  <2>1. CASE g = [graph[w] EXCEPT !.pc = "finishing"]
    BY <1>1, <2>1 DEF GraphThread, GraphPC
  <2>2. ASSUME NEW goal \in {"CANCELLED", "PAUSED", "FAILED"},
               g = [graph[w] EXCEPT !.pc = "turning", !.goal = goal]
        PROVE  g \in GraphThread /\ g.step \in 1..N
    BY <1>1, <2>2 DEF GraphThread, GraphPC
  <2>3. CASE /\ graph[w].step # N
             /\ g = [graph[w] EXCEPT !.pc = "starting", !.step = @ + 1]
    <3>1. graph[w].step + 1 \in 1..N /\ graph[w].step + 1 \in 1..(N + 1)
      BY <1>1, <2>3
    <3> QED
      BY <1>1, <2>3, <3>1 DEF GraphThread, GraphPC
  <2> QED
    BY <1>2, <2>1, <2>2, <2>3
<1>4. worker' \in [Threads -> Delivery]
  BY DEF Evaluate, GraphOnly, WorkerTypeOK, RunTypeOK
<1>5. RunTypeOK'
  BY <1>2, <1>3, <1>4, GraphChangeType DEF WorkerTypeOK
<1> QED
  BY <1>5, GraphFrame DEF Evaluate, GraphOnly, WorkerTypeOK, RowsTypeOK

\* A boundary that turns the task gives it the goal it chose.
LEMMA TurnType ==
    ASSUME WorkerTypeOK, NEW w \in Threads, Turn(w)
    PROVE  WorkerTypeOK'
<1>1. graph[w].goal \in TaskStatus
  <2>1. graph[w].goal # "NONE"
    BY DEF Turn, Legal
  <2> QED
    BY <2>1 DEF WorkerTypeOK, RunTypeOK, GraphThread, TaskStatus, Terminal
<1>2. task' \in TaskRow
  BY <1>1, StatusType DEF Turn, WorkerTypeOK, RowsTypeOK
<1>3. RunTypeOK'
  BY MoveType DEF Turn, WorkerTypeOK, GraphOnly, GraphPC
<1> QED
  BY <1>2, <1>3, GraphFrame DEF Turn, GraphOnly, WorkerTypeOK, RowsTypeOK

\* A graph that ends, well or badly.
LEMMA GraphEndType ==
    ASSUME WorkerTypeOK, NEW w \in Threads, FinishGraph(w) \/ GraphRaises(w)
    PROVE  WorkerTypeOK'
<1>1. PICK e \in Errors : Leave(w, e)
  BY DEF FinishGraph, GraphRaises, Errors
<1>2. RunTypeOK'
  BY <1>1, LeaveType DEF WorkerTypeOK
<1> QED
  BY <1>2, GraphFrame DEF FinishGraph, GraphRaises, WorkerTypeOK, RowsTypeOK

\* Every step of a graph.
LEMMA GraphType ==
    ASSUME WorkerTypeOK, NEW w \in Threads, GraphStep(w)
    PROVE  WorkerTypeOK'
<1>1. CASE UseTool(w)
  BY <1>1, WorkerStutterType DEF UseTool
<1>2. CASE ToolBreaks(w)
  BY <1>2, ToolEndType DEF ToolBreaks
<1> QED
  BY <1>1, <1>2, AnalyzeType, StartStepType, WorkType, ToolMoveType, ToolReturnsType,
     CheckpointType, EvaluateType, TurnType, GraphEndType DEF GraphStep

-----------------------------------------------------------------------------
(* Faults and recovery *)

\* A worker that gives up waiting leaves its graph behind.
LEMMA TimeoutType ==
    ASSUME WorkerTypeOK, NEW w \in Threads, Timeout(w)
    PROVE  WorkerTypeOK'
<1>1. worker' \in [Threads -> Delivery]
  BY FailType DEF Timeout, WorkerTypeOK, RunTypeOK, WorkerPC, Errors
<1>2. graph' \in [Threads -> GraphThread]
  <2>1. [graph[w] EXCEPT !.detached = TRUE] \in GraphThread
    BY DEF WorkerTypeOK, RunTypeOK, GraphThread
  <2> QED
    BY <2>1 DEF Timeout, WorkerTypeOK, RunTypeOK
<1>3. \A u \in Threads : graph'[u].pc = graph[u].pc /\ graph'[u].step = graph[u].step
  BY DEF Timeout, WorkerTypeOK, RunTypeOK, GraphThread
<1>4. SideTypeOK'
  BY DEF Timeout, WorkerTypeOK, SideTypeOK
<1> QED
  BY <1>1, <1>2, <1>3, <1>4 DEF Timeout, WorkerTypeOK, RowsTypeOK, RunTypeOK

\* The bound on crashes is kept.
LEMMA CrashCountType ==
    ASSUME faults \in [crashes : 0..MaxCrashes, timeouts : 0..MaxTimeouts,
                       overlap : BOOLEAN],
           faults.crashes < MaxCrashes, faults' = [faults EXCEPT !.crashes = @ + 1]
    PROVE  faults' \in [crashes : 0..MaxCrashes, timeouts : 0..MaxTimeouts,
                       overlap : BOOLEAN]
<1>1. faults.crashes + 1 \in 0..MaxCrashes
  OBVIOUS
<1> QED
  BY <1>1

\* A crash leaves the rows and nothing of the process.
LEMMA CrashType ==
    ASSUME WorkerTypeOK, NEW w \in Threads, Crash(w)
    PROVE  WorkerTypeOK'
<1>1. Idler \in Delivery
  BY Ranges DEF Idler, Delivery, WorkerPC, Errors
<1>2. worker' \in [Threads -> Delivery]
  BY <1>1 DEF Crash, WorkerTypeOK, RunTypeOK
<1>3. NoGraph.pc = "idle"
  BY DEF NoGraph
<1>4. RunTypeOK'
  BY <1>2, <1>3, NoGraphType, GraphChangeType DEF Crash, WorkerTypeOK
<1>5. SideTypeOK'
  <2>1. faults' \in [crashes : 0..MaxCrashes, timeouts : 0..MaxTimeouts,
                       overlap : BOOLEAN]
    BY CrashCountType DEF Crash, WorkerTypeOK, SideTypeOK
  <2> QED
    BY <2>1 DEF Crash, WorkerTypeOK, SideTypeOK
<1> QED
  BY <1>4, <1>5 DEF Crash, WorkerTypeOK, RowsTypeOK

\* Recovery settles the task, and requeues or ends its job.
LEMMA RescueType ==
    ASSUME WorkerTypeOK, NEW r \in Recoverers, RescueStep(r) \/ RescuerDies(r)
    PROVE  WorkerTypeOK'
<1> USE DEF WorkerTypeOK
<1>1. CASE ListStalled(r)
  <2>1. PICK b \in BOOLEAN : faults' = [faults EXCEPT !.overlap = b]
    BY <1>1 DEF ListStalled, SideTypeOK
  <2>2. PICK j \in Jobs : recoverer' = [recoverer EXCEPT ![r] = [pc |-> "listed", job |-> j]]
    BY <1>1 DEF ListStalled
  <2>3. SideTypeOK'
    BY <1>1, <2>1, <2>2, Ranges DEF ListStalled, SideTypeOK
  <2> QED
    BY <1>1, <2>3 DEF ListStalled, runVars, RowsTypeOK, RunTypeOK
<1>2. CASE Recover(r)
  <2>1. PICK s \in TaskStatus : task' = [task EXCEPT !.status = s] \/ task' = task
    BY <1>2 DEF Recover, TaskStatus, Terminal
  <2>2. task' \in TaskRow
    BY <2>1, StatusType DEF RowsTypeOK
  <2>3. PICK pc \in {"finishing", "retrying"} : recoverer' = [recoverer EXCEPT ![r].pc = pc]
    BY <1>2 DEF Recover
  <2>4. SideTypeOK'
    BY <1>2, <2>3 DEF Recover, SideTypeOK
  <2> QED
    BY <1>2, <2>2, <2>4 DEF Recover, runVars, RowsTypeOK, RunTypeOK
<1>3. CASE RecoverJob(r)
  <2> DEFINE j == recoverer[r].job
  <2>1. j \in 0..MaxJobs
    BY DEF SideTypeOK
  <2>2. job' \in [Jobs -> JobRow]
    <3>1. CASE EndJob(j)
      BY <2>1, <3>1, EndJobType DEF RowsTypeOK
    <3>2. CASE job' = [job EXCEPT ![j] = [status |-> "todo", attempts |-> @.attempts + 1]]
      BY <2>1, <3>2, RequeueType DEF RowsTypeOK
    <3>3. CASE UNCHANGED job
      BY <3>3 DEF RowsTypeOK
    <3> QED
      BY <1>3, <3>1, <3>2, <3>3 DEF RecoverJob
  <2>3. SideTypeOK'
    BY <1>3, Ranges DEF RecoverJob, NoRescue, SideTypeOK
  <2> QED
    BY <1>3, <2>2, <2>3 DEF RecoverJob, runVars, RowsTypeOK, RunTypeOK
<1>4. CASE RescuerDies(r)
  <2>1. NoRescue \in [pc : {"idle", "listed", "retrying", "finishing"}, job : 0..MaxJobs]
    BY Ranges DEF NoRescue
  <2>2. faults' \in [crashes : 0..MaxCrashes, timeouts : 0..MaxTimeouts,
                       overlap : BOOLEAN]
    BY <1>4, CrashCountType DEF RescuerDies, SideTypeOK
  <2>3. SideTypeOK'
    BY <1>4, <2>1, <2>2 DEF RescuerDies, SideTypeOK
  <2> QED
    BY <1>4, <2>3 DEF RescuerDies, runVars, RowsTypeOK, RunTypeOK
<1> QED
  BY <1>1, <1>2, <1>3, <1>4 DEF RescueStep

\* Every step keeps the types.
LEMMA WorkerTypeStep == WorkerTypeOK /\ [WorkerNext]_vars => WorkerTypeOK'
<1> SUFFICES ASSUME WorkerTypeOK, [WorkerNext]_vars PROVE WorkerTypeOK'
  OBVIOUS
<1>1. CASE UNCHANGED vars
  BY <1>1, WorkerStutterType DEF vars
<1> QED
  BY <1>1, ApiType, FetchType, DeliveryType, GraphType, TimeoutType, CrashType, RescueType
     DEF WorkerNext

\* The rows of the task, the jobs, the deliveries, the graphs, recovery and the
\* requests under way keep their types, and a graph inside a step is at a step of
\* the plan, for any plan and any number of workers, crashes and timeouts.
THEOREM WorkerTypeCorrect == WorkerSpec => []WorkerTypeOK
BY WorkerTypeInit, WorkerTypeStep, PTL DEF WorkerSpec

-----------------------------------------------------------------------------
(* The task and the ledger *)

\* A graph step calls the ledger, or leaves it alone.
LEMMA GraphUsesLedger ==
    ASSUME WorkerTypeOK, NEW w \in Threads, GraphStep(w)
    PROVE  LedgerNext \/ UNCHANGED ledgerVars
<1>1. CASE UseTool(w)
  <2>1. ASSUME NEW i \in Wants[graph[w].step], Request(w, i, graph[w].resume)
        PROVE  LedgerNext
    <3>1. graph[w].step \in 1..N
      BY <1>1 DEF UseTool, WorkerTypeOK, RunTypeOK
    <3>2. i \in Intents
      BY <3>1
    <3>3. graph[w].resume \in Sensitive \union {NoIntent}
      BY DEF WorkerTypeOK, RunTypeOK, GraphThread
    <3> QED
      BY <2>1, <3>2, <3>3 DEF LedgerNext
  <2> QED
    BY <1>1, <2>1 DEF UseTool, LedgerNext, ThreadStep
<1>2. CASE InterruptGraph(w) \/ ToolReturns(w) \/ ToolBreaks(w)
  BY <1>2 DEF InterruptGraph, ToolReturns, ToolBreaks, Abandon, LedgerNext, ThreadStep
<1>3. CASE FinishGraph(w) \/ GraphRaises(w)
  BY <1>3 DEF FinishGraph, GraphRaises
<1>4. CASE \/ Analyze(w) \/ StartStep(w) \/ Work(w) \/ CheckTask(w) \/ WaitForApproval(w)
           \/ Checkpoint(w) \/ Evaluate(w) \/ Turn(w)
  BY <1>4 DEF Analyze, StartStep, Work, CheckTask, WaitForApproval, Checkpoint, Evaluate,
              Turn, GraphOnly
<1> QED
  BY <1>1, <1>2, <1>3, <1>4 DEF GraphStep

\* The API decides and cancels approvals through the ledger.
LEMMA ApiUsesLedger ==
    ASSUME WorkerTypeOK, ApiStep
    PROVE  LedgerNext \/ UNCHANGED ledgerVars
<1>1. CASE CancelApprovals
  BY <1>1 DEF CancelApprovals, LedgerNext
<1>2. ASSUME NEW d \in {"APPROVED", "EDITED", "REJECTED"}, StoreDecision(d)
      PROVE  LedgerNext \/ UNCHANGED ledgerVars
  <2>1. office.about \in Intents
    BY <1>2 DEF StoreDecision, WorkerTypeOK, SideTypeOK
  <2> QED
    BY <1>2, <2>1 DEF StoreDecision, LedgerNext
<1>3. CASE \/ RunTask \/ ResumeTask \/ PauseTask \/ CancelTask \/ ResumeDecided
           \/ \E i \in Sensitive : ReviewTask(i)
  BY <1>3 DEF RunTask, ResumeTask, PauseTask, CancelTask, ResumeDecided, ReviewTask
<1> QED
  BY <1>1, <1>2, <1>3 DEF ApiStep

\* A delivery never touches the ledger.
LEMMA DeliveryLeavesLedger ==
    ASSUME NEW w \in Threads, Fetch(w) \/ DeliveryStep(w) \/ Timeout(w)
    PROVE  UNCHANGED ledgerVars
BY DEF Fetch, DeliveryStep, ClaimDelivery, Prepare, Ask, ReadOutcome, SettleTask,
       SaveAnswer, Raise, HandleFailure, CloseJob, Timeout

\* Recovery does not, either.
LEMMA RescueLeavesLedger ==
    ASSUME NEW r \in Recoverers, RescueStep(r) \/ RescuerDies(r)
    PROVE  UNCHANGED ledgerVars
BY DEF RescueStep, ListStalled, Recover, RecoverJob, RescuerDies

\* So every step of the task is a step of the ledger, or none of its business.
LEMMA WorkerStepUsesLedger ==
    WorkerTypeOK /\ [WorkerNext]_vars => [LedgerNext]_ledgerVars
<1> SUFFICES ASSUME WorkerTypeOK, [WorkerNext]_vars
             PROVE  LedgerNext \/ UNCHANGED ledgerVars
  OBVIOUS
<1>1. CASE UNCHANGED vars
  BY <1>1 DEF vars
<1>2. ASSUME NEW w \in Threads, Crash(w)
      PROVE  LedgerNext \/ UNCHANGED ledgerVars
  BY <1>2 DEF Crash, Abandon, LedgerNext
<1> QED
  BY <1>1, <1>2, ApiUsesLedger, GraphUsesLedger, DeliveryLeavesLedger, RescueLeavesLedger
     DEF WorkerNext

\* Whatever API, workers, detached graphs, crashes and recovery do to a task, its
\* tool calls are a behaviour of the ledger.
THEOREM TaskUsesLedger == WorkerSpec => UsesLedger
<1>1. WorkerInit => LedgerInit
  BY DEF WorkerInit
<1> QED
  BY <1>1, WorkerTypeCorrect, WorkerStepUsesLedger, PTL DEF WorkerSpec, UsesLedger, LedgerSpec

\* So a task never sends an action twice, in all its deliveries together, ...
THEOREM TaskSendsOnce == WorkerSpec => []AtMostOneSend
BY TaskUsesLedger, AtMostOneSendHolds, PTL DEF UsesLedger

\* ... nor one that no human approved, nor with other arguments than those approved.
THEOREM TaskSendsAsDecided == WorkerSpec => []SentAsDecided
BY TaskUsesLedger, SentAsDecidedHolds, PTL DEF UsesLedger

-----------------------------------------------------------------------------
(* Cancellation *)

\* A delivery of a task that rests with a cancellation leaves it at rest.
LEMMA DeliveryKeepsRest ==
    ASSUME WorkerTypeOK, NEW w \in Threads, DeliveryStep(w), task.cancel, Resting
    PROVE  Resting'
<1>1. task \in TaskRow
  BY DEF WorkerTypeOK, RowsTypeOK
<1>2. CASE ClaimDelivery(w)
  BY <1>1, <1>2 DEF ClaimDelivery, Deliverable, Settle, Resting, TaskRow
<1>3. CASE SettleTask(w)
  <2>1. worker[w].goal \notin {"QUEUED", "RUNNING"}
    BY DEF WorkerTypeOK, RunTypeOK, Delivery
  <2> QED
    BY <1>1, <1>3, <2>1 DEF SettleTask, Resting, TaskRow
<1>4. CASE HandleFailure(w)
  <2>1. task'.status \in {"CANCELLED", task.status}
    BY <1>1, <1>4 DEF HandleFailure, TaskRow
  <2> QED
    BY <2>1 DEF Resting
<1>5. CASE \/ Prepare(w) \/ Ask(w) \/ ReadOutcome(w) \/ SaveAnswer(w) \/ Raise(w)
           \/ CloseJob(w)
  BY <1>5 DEF Prepare, Ask, ReadOutcome, SaveAnswer, Raise, CloseJob, Resting
<1> QED
  BY <1>2, <1>3, <1>4, <1>5 DEF DeliveryStep

\* So does a step of a graph: it moves the task only away from running.
LEMMA GraphKeepsRest ==
    ASSUME WorkerTypeOK, NEW w \in Threads, GraphStep(w), Resting
    PROVE  Resting'
<1>1. task \in TaskRow
  BY DEF WorkerTypeOK, RowsTypeOK
<1>2. CASE Analyze(w) \/ WaitForApproval(w)
  BY <1>1, <1>2 DEF Analyze, WaitForApproval, Resting, TaskRow
<1>3. CASE StartStep(w)
  BY <1>1, <1>3 DEF StartStep, Resting, TaskRow
<1>4. CASE Turn(w)
  <2>1. graph[w].goal \notin {"QUEUED", "RUNNING"}
    BY DEF WorkerTypeOK, RunTypeOK, GraphThread
  <2> QED
    BY <1>1, <1>4, <2>1 DEF Turn, Resting, TaskRow
<1>5. CASE UseTool(w)
  BY <1>5 DEF UseTool, workerVars, Resting
<1>6. CASE \/ Work(w) \/ CheckTask(w) \/ InterruptGraph(w) \/ ToolReturns(w) \/ ToolBreaks(w)
           \/ Checkpoint(w) \/ Evaluate(w) \/ FinishGraph(w) \/ GraphRaises(w)
  BY <1>6 DEF Work, CheckTask, InterruptGraph, ToolReturns, ToolBreaks, Checkpoint,
              Evaluate, FinishGraph, GraphRaises, Resting
<1> QED
  BY <1>2, <1>3, <1>4, <1>5, <1>6 DEF GraphStep

\* So does the API: it queues no task with an accepted cancellation.
LEMMA ApiKeepsRest ==
    ASSUME WorkerTypeOK, ApiStep, task.cancel, Resting
    PROVE  Resting'
<1>1. task \in TaskRow
  BY DEF WorkerTypeOK, RowsTypeOK
<1>2. ASSUME NEW from, Enqueue(from) PROVE FALSE
  BY <1>2 DEF Enqueue, MayEnqueue
<1>3. ASSUME NEW cancel \in BOOLEAN, RequestControl(cancel) PROVE Resting'
  BY <1>1, <1>3 DEF RequestControl, Resting, TaskRow
<1>4. CASE RunTask \/ ResumeTask \/ ResumeDecided
  BY <1>2, <1>4 DEF RunTask, ResumeTask, ResumeDecided, Resting
<1>5. CASE PauseTask \/ CancelTask
  BY <1>3, <1>5 DEF PauseTask, CancelTask, Resting
<1>6. CASE \/ CancelApprovals \/ \E i \in Sensitive : ReviewTask(i)
           \/ \E d \in {"APPROVED", "EDITED", "REJECTED"} : StoreDecision(d)
  BY <1>6 DEF CancelApprovals, ReviewTask, StoreDecision, Resting
<1> QED
  BY <1>4, <1>5, <1>6 DEF ApiStep

\* And so does recovery: it looks after queued and running tasks only.
LEMMA RescueKeepsRest ==
    ASSUME WorkerTypeOK, NEW r \in Recoverers, RescueStep(r) \/ RescuerDies(r), Resting
    PROVE  Resting'
BY DEF RescueStep, ListStalled, Recover, RecoverJob, RescuerDies, Resting

\* A task at rest with an accepted cancellation is never queued or run again, by no
\* request, retry, late graph or recovery.
THEOREM CancelledStaysCancelled == WorkerSpec => CancelledNeverRunsAgain
<1>1. WorkerTypeOK /\ [WorkerNext]_vars => [task.cancel /\ Resting => Resting']_vars
  <2> SUFFICES ASSUME WorkerTypeOK, [WorkerNext]_vars, task.cancel, Resting
               PROVE  Resting'
    OBVIOUS
  <2>1. CASE UNCHANGED vars
    BY <2>1 DEF vars, workerVars, Resting
  <2>2. ASSUME NEW w \in Threads, Fetch(w) \/ Timeout(w) \/ Crash(w)
        PROVE  Resting'
    BY <2>2 DEF Fetch, Timeout, Crash, Resting
  <2> QED
    BY <2>1, <2>2, ApiKeepsRest, DeliveryKeepsRest, GraphKeepsRest, RescueKeepsRest
       DEF WorkerNext
<1> QED
  BY <1>1, WorkerTypeCorrect, PTL DEF WorkerSpec, CancelledNeverRunsAgain

-----------------------------------------------------------------------------
(* What the steps do, field by field *)

\* A process moves its own delivery only, and keeps its job.
OnlyMoves(w) ==
    /\ \A u \in Threads \ {w} : worker'[u] = worker[u]
    /\ worker'[w].job = worker[w].job

\* The task keeps its job and what was asked of it.
TaskKeepsJob == task'.job = task.job /\ task'.cancel = task.cancel

\* A worker that moves on keeps all but its place.
LEMMA AtEffect ==
    ASSUME worker \in [Threads -> Delivery], NEW w \in Threads, NEW pc, At(w, pc)
    PROVE  /\ OnlyMoves(w)
           /\ worker'[w].pc = pc /\ worker'[w].error = worker[w].error
           /\ worker'[w].goal = worker[w].goal /\ worker'[w].resume = worker[w].resume
BY DEF At, Delivery, OnlyMoves

\* One that raises keeps all but its place and its error.
LEMMA FailEffect ==
    ASSUME worker \in [Threads -> Delivery], NEW w \in Threads, NEW pc, NEW e, Fail(w, pc, e)
    PROVE  /\ OnlyMoves(w)
           /\ worker'[w].pc = pc /\ worker'[w].error = e
           /\ worker'[w].goal = worker[w].goal
BY DEF Fail, Delivery, OnlyMoves

\* The claim starts a run, or ends the delivery.
LEMMA ClaimDeliveryEffect ==
    ASSUME WorkerTypeOK, NEW w \in Threads, ClaimDelivery(w)
    PROVE  /\ worker[w].pc = "claiming" /\ OnlyMoves(w) /\ TaskKeepsJob
           /\ \/ /\ worker'[w].pc = "preparing" /\ Deliverable(w)
                 /\ task'.status = "RUNNING" /\ task'.attempts = task.attempts + 1
              \/ /\ worker'[w].pc = "closing" /\ Deliverable(w)
                 /\ task'.status \in {"CANCELLED", "PAUSED", "FAILED", "REQUIRES_RECONCILIATION"}
                 /\ task'.status = "CANCELLED" => task.cancel
                 /\ task'.attempts = task.attempts
              \/ /\ worker'[w].pc = "closing" /\ task' = task
                 /\ Deliverable(w) => "claim" \in Outages
<1>1. worker \in [Threads -> Delivery] /\ task \in TaskRow
  BY DEF WorkerTypeOK, RunTypeOK, RowsTypeOK
<1>2. ASSUME NEW s, Settle(w, s)
      PROVE  /\ OnlyMoves(w) /\ TaskKeepsJob /\ worker'[w].pc = "closing"
             /\ task'.status = s /\ task'.attempts = task.attempts
  BY <1>1, <1>2, AtEffect DEF Settle, TaskRow, TaskKeepsJob
<1>3. ASSUME At(w, "closing"), UNCHANGED task
      PROVE  OnlyMoves(w) /\ TaskKeepsJob /\ worker'[w].pc = "closing"
  BY <1>1, <1>3, AtEffect DEF TaskKeepsJob
<1>4. ASSUME At(w, "preparing"),
             task' = [task EXCEPT !.status = "RUNNING", !.attempts = @ + 1]
      PROVE  /\ OnlyMoves(w) /\ TaskKeepsJob /\ worker'[w].pc = "preparing"
             /\ task'.status = "RUNNING" /\ task'.attempts = task.attempts + 1
  BY <1>1, <1>4, AtEffect DEF TaskRow, TaskKeepsJob
<1> QED
  BY <1>2, <1>3, <1>4 DEF ClaimDelivery

\* The reads of run find nothing to do for a delivery, or prepare its ask.
LEMMA PrepareEffect ==
    ASSUME WorkerTypeOK, NEW w \in Threads, Prepare(w)
    PROVE  /\ worker[w].pc = "preparing" /\ OnlyMoves(w)
           /\ \/ worker'[w].pc = "handling"
              \/ /\ worker'[w].pc = "asking" /\ task.status = "RUNNING"
                 /\ worker'[w].resume \in Outstanding \union {NoIntent}
<1>1. worker \in [Threads -> Delivery]
  BY DEF WorkerTypeOK, RunTypeOK
<1>2. ASSUME NEW e, Fail(w, "handling", e)
      PROVE  OnlyMoves(w) /\ worker'[w].pc = "handling"
  BY <1>1, <1>2, FailEffect
<1>3. ASSUME NEW i \in Outstanding \union {NoIntent}, NEW s \in 1..(N + 1),
             worker' = [worker EXCEPT ![w].pc = "asking", ![w].first = s, ![w].resume = i]
      PROVE  OnlyMoves(w) /\ worker'[w].pc = "asking" /\ worker'[w].resume = i
  BY <1>1, <1>3 DEF Delivery, OnlyMoves
<1> QED
  BY <1>2, <1>3 DEF Prepare

\* The ask starts a graph that the worker awaits.
LEMMA AskEffect ==
    ASSUME WorkerTypeOK, NEW w \in Threads, Ask(w)
    PROVE  /\ worker[w].pc = "asking" /\ worker'[w].pc = "awaiting" /\ OnlyMoves(w)
           /\ graph[w].pc = "idle" /\ ~graph'[w].detached
           /\ \A u \in Threads \ {w} : graph'[u] = graph[u]
           /\ \/ worker[w].resume = NoIntent /\ graph'[w].pc = "analyzing"
              \/ worker[w].resume # NoIntent /\ graph'[w].pc = "starting"
<1>1. worker \in [Threads -> Delivery] /\ graph \in [Threads -> GraphThread]
  BY DEF WorkerTypeOK, RunTypeOK
<1>2. worker'[w].pc = "awaiting" /\ OnlyMoves(w)
  BY <1>1, AtEffect DEF Ask
<1>3. CASE worker[w].resume = NoIntent
  BY ZenonT(60), <1>1, <1>2, <1>3 DEF Ask, NoGraph
<1>4. CASE worker[w].resume # NoIntent
  <2>1. PICK s \in 1..N :
          graph' = [graph EXCEPT ![w] = [NoGraph EXCEPT !.pc = "starting", !.step = s,
                                                        !.resume = worker[w].resume]]
    BY <1>4 DEF Ask
  <2>2. graph'[w].pc = "starting" /\ ~graph'[w].detached
    BY <1>1, <2>1 DEF NoGraph
  <2> QED
    BY <1>1, <1>2, <1>4, <2>1, <2>2 DEF Ask
<1> QED
  BY <1>3, <1>4

\* The outcome is settled if the task still runs.
LEMMA ReadOutcomeEffect ==
    ASSUME WorkerTypeOK, NEW w \in Threads, ReadOutcome(w)
    PROVE  /\ worker[w].pc = "reading" /\ OnlyMoves(w)
           /\ worker'[w].error = worker[w].error /\ worker'[w].goal = Outcome
           /\ \/ task.status = "RUNNING" /\ worker'[w].pc = "settling"
              \/ task.status # "RUNNING" /\ worker'[w].pc = "answering"
<1>1. worker \in [Threads -> Delivery]
  BY DEF WorkerTypeOK, RunTypeOK
<1>2. PICK pc : /\ worker' = [worker EXCEPT ![w].pc = pc, ![w].goal = Outcome]
                /\ pc = IF task.status = "RUNNING" THEN "settling" ELSE "answering"
  BY DEF ReadOutcome
<1> HIDE DEF Outcome
<1> QED
  BY <1>1, <1>2 DEF ReadOutcome, Delivery, OnlyMoves

\* The transition is made, or refused.
LEMMA SettleTaskEffect ==
    ASSUME WorkerTypeOK, NEW w \in Threads, SettleTask(w)
    PROVE  /\ worker[w].pc = "settling" /\ OnlyMoves(w) /\ TaskKeepsJob
           /\ worker'[w].goal = worker[w].goal /\ task'.attempts = task.attempts
           /\ \/ /\ task.status \in Legal(worker[w].goal) /\ task'.status = worker[w].goal
                 /\ worker'[w].error = worker[w].error
                 /\ worker'[w].pc =
                      IF worker[w].error = "none" THEN "answering" ELSE "handling"
              \/ /\ task' = task /\ worker'[w].error = "other"
                 /\ worker'[w].pc =
                      IF worker[w].error = "none" THEN "raising" ELSE "handling"
<1>1. worker \in [Threads -> Delivery] /\ task \in TaskRow
  BY DEF WorkerTypeOK, RunTypeOK, RowsTypeOK
<1>2. CASE task.status \in Legal(worker[w].goal)
  BY <1>1, <1>2, AtEffect DEF SettleTask, TaskRow, TaskKeepsJob
<1>3. CASE task.status \notin Legal(worker[w].goal)
  BY <1>1, <1>3, FailEffect DEF SettleTask, TaskKeepsJob
<1> QED
  BY <1>2, <1>3

\* The answer is saved, or not.
LEMMA SaveAnswerEffect ==
    ASSUME WorkerTypeOK, NEW w \in Threads, SaveAnswer(w)
    PROVE  /\ worker[w].pc = "answering" /\ OnlyMoves(w)
           /\ worker'[w].goal = worker[w].goal
           /\ \/ task.status = "FAILED" /\ worker'[w].pc = "handling"
              \/ task.status # "FAILED" /\ worker'[w].pc = "closing"
              \/ worker'[w].pc = "raising" /\ worker'[w].error = "transient"
              \/ /\ worker[w].goal = "COMPLETED" /\ task.status # "COMPLETED"
                 /\ worker'[w].pc = "raising" /\ worker'[w].error = "other"
<1>1. worker \in [Threads -> Delivery]
  BY DEF WorkerTypeOK, RunTypeOK
<1> QED
  BY <1>1, AtEffect, FailEffect DEF SaveAnswer

\* An exception in run fails a running task.
LEMMA RaiseEffect ==
    ASSUME WorkerTypeOK, NEW w \in Threads, Raise(w)
    PROVE  /\ worker[w].pc = "raising" /\ OnlyMoves(w)
           /\ worker'[w].error = worker[w].error
           /\ \/ /\ task.status = "RUNNING"
                 /\ worker'[w].pc = "settling" /\ worker'[w].goal = "FAILED"
              \/ /\ task.status # "RUNNING"
                 /\ worker'[w].pc = "handling" /\ worker'[w].goal = worker[w].goal
<1>1. worker \in [Threads -> Delivery]
  BY DEF WorkerTypeOK, RunTypeOK
<1>2. CASE task.status = "RUNNING"
  BY <1>1, <1>2 DEF Raise, Delivery, OnlyMoves
<1>3. CASE task.status # "RUNNING"
  BY <1>1, <1>3, AtEffect DEF Raise
<1> QED
  BY <1>2, <1>3

\* A failure is classified: only a run within the budget is queued again.
LEMMA HandleFailureEffect ==
    ASSUME WorkerTypeOK, NEW w \in Threads, HandleFailure(w)
    PROVE  /\ worker[w].pc = "handling" /\ OnlyMoves(w) /\ TaskKeepsJob
           /\ task'.attempts = task.attempts
           /\ \/ "handler" \in Outages /\ worker'[w].pc = "closing" /\ task' = task
              \/ /\ task.cancel /\ task'.status = "CANCELLED" /\ worker'[w].pc = "closing"
              \/ /\ ~task.cancel /\ task'.status = "QUEUED" /\ worker'[w].pc = "retrying"
                 /\ WithinBudget /\ (worker[w].error = "transient" \/ FailedRead)
              \/ /\ ~task.cancel /\ worker'[w].pc = "closing"
                 /\ \/ AmbiguousWrite /\ task'.status = "REQUIRES_RECONCILIATION"
                    \/ /\ task.status \in {"PAUSED", "WAITING_USER", "COMPLETED"}
                       /\ task'.status = task.status
                    \/ /\ task.status \notin {"PAUSED", "WAITING_USER", "COMPLETED"}
                       /\ task'.status = "FAILED"
<1>1. worker \in [Threads -> Delivery] /\ task \in TaskRow
  BY DEF WorkerTypeOK, RunTypeOK, RowsTypeOK
<1>2. ASSUME NEW s, task' = [task EXCEPT !.status = s]
      PROVE  TaskKeepsJob /\ task'.status = s /\ task'.attempts = task.attempts
  BY <1>1, <1>2 DEF TaskRow, TaskKeepsJob
<1>3. CASE "handler" \in Outages /\ At(w, "closing") /\ UNCHANGED task
  BY <1>1, <1>3, AtEffect DEF HandleFailure, TaskKeepsJob
<1>4. ASSUME NEW transient \in BOOLEAN, NEW status, NEW pc,
             status = IF task.cancel THEN "CANCELLED"
                      ELSE IF AmbiguousWrite THEN "REQUIRES_RECONCILIATION"
                      ELSE IF (~AmbiguousWrite /\ transient) /\ WithinBudget THEN "QUEUED"
                      ELSE IF task.status \in {"PAUSED", "WAITING_USER", "COMPLETED"}
                           THEN task.status
                      ELSE "FAILED",
             transient => worker[w].error = "transient" \/ FailedRead,
             task' = [task EXCEPT !.status = status],
             pc = IF (~AmbiguousWrite /\ transient) /\ status = "QUEUED"
                  THEN "retrying" ELSE "closing",
             At(w, pc)
      PROVE  /\ OnlyMoves(w) /\ TaskKeepsJob /\ task'.attempts = task.attempts
             /\ \/ task.cancel /\ task'.status = "CANCELLED" /\ worker'[w].pc = "closing"
                \/ /\ ~task.cancel /\ task'.status = "QUEUED" /\ worker'[w].pc = "retrying"
                   /\ WithinBudget /\ (worker[w].error = "transient" \/ FailedRead)
                \/ /\ ~task.cancel /\ worker'[w].pc = "closing"
                   /\ \/ AmbiguousWrite /\ task'.status = "REQUIRES_RECONCILIATION"
                      \/ /\ task.status \in {"PAUSED", "WAITING_USER", "COMPLETED"}
                         /\ task'.status = task.status
                      \/ /\ task.status \notin {"PAUSED", "WAITING_USER", "COMPLETED"}
                         /\ task'.status = "FAILED"
  <2>1. /\ OnlyMoves(w) /\ TaskKeepsJob /\ task'.attempts = task.attempts
        /\ task'.status = status /\ worker'[w].pc = pc
    BY <1>1, <1>2, <1>4, AtEffect
  <2> HIDE DEF WithinBudget, FailedRead, AmbiguousWrite
  <2> QED
    BY <1>4, <2>1
<1> QED
  BY <1>3, <1>4 DEF HandleFailure

\* A graph thread that moves on keeps all but its place.
LEMMA MoveEffect ==
    ASSUME graph \in [Threads -> GraphThread], NEW w \in Threads, NEW pc, Move(w, pc)
    PROVE  /\ \A u \in Threads \ {w} : graph'[u] = graph[u]
           /\ graph'[w].pc = pc /\ graph'[w].step = graph[w].step
           /\ graph'[w].ok = graph[w].ok /\ graph'[w].goal = graph[w].goal
           /\ graph'[w].detached = graph[w].detached
BY DEF Move, GraphThread

\* The graph of a process goes on, and is awaited as before.
GraphGoesOn(w) ==
    /\ worker' = worker
    /\ graph[w].pc # "idle" /\ graph'[w].pc # "idle"
    /\ graph'[w].detached = graph[w].detached

\* It is over, and the worker that awaits it learns how.
GraphEnds(w) ==
    /\ graph[w].pc # "idle"
    /\ graph'[w] = NoGraph
    /\ \/ graph[w].detached /\ worker' = worker
       \/ /\ ~graph[w].detached /\ OnlyMoves(w)
          /\ \/ worker'[w].pc = "raising"
             \/ /\ worker'[w].pc = "reading" /\ worker'[w].error = "none"
                /\ graph[w].pc \in {"finishing", "tool"}

\* What leaving the graph does.
LEMMA LeaveEffect ==
    ASSUME worker \in [Threads -> Delivery], graph \in [Threads -> GraphThread],
           NEW w \in Threads, NEW e, Leave(w, e), graph[w].pc # "idle",
           e = "none" => graph[w].pc \in {"finishing", "tool"}
    PROVE  GraphEnds(w) /\ \A u \in Threads \ {w} : graph'[u] = graph[u]
<1>1. graph'[w] = NoGraph /\ \A u \in Threads \ {w} : graph'[u] = graph[u]
  BY DEF Leave
<1>2. CASE graph[w].detached
  BY <1>1, <1>2 DEF Leave, GraphEnds
<1>3. CASE ~graph[w].detached
  <2>1. OnlyMoves(w) /\ worker'[w].pc = (IF e = "none" THEN "reading" ELSE "raising")
        /\ worker'[w].error = e
    BY <1>3, FailEffect DEF Leave
  <2> QED
    BY <1>1, <1>3, <2>1 DEF GraphEnds
<1> QED
  BY <1>2, <1>3

\* A step of a graph changes this graph, and the worker when it ends.
LEMMA GraphEffect ==
    ASSUME WorkerTypeOK, NEW w \in Threads, GraphStep(w)
    PROVE  /\ \A u \in Threads \ {w} : graph'[u] = graph[u]
           /\ GraphGoesOn(w) \/ GraphEnds(w)
           /\ UNCHANGED <<job, recoverer, office, faults>>
           /\ TaskKeepsJob /\ task'.attempts = task.attempts
<1>1. /\ worker \in [Threads -> Delivery] /\ graph \in [Threads -> GraphThread]
      /\ task \in TaskRow
  BY DEF WorkerTypeOK, RunTypeOK, RowsTypeOK
<1>2. UNCHANGED <<job, recoverer, office, faults>>
  BY DEF GraphStep, Analyze, StartStep, Work, UseTool, CheckTask, WaitForApproval,
         InterruptGraph, ToolReturns, ToolBreaks, Checkpoint, Evaluate, Turn, FinishGraph,
         GraphRaises, GraphOnly, workerVars, sideVars
<1>3. TaskKeepsJob /\ task'.attempts = task.attempts
  <2>1. CASE UNCHANGED task
    BY <2>1 DEF TaskKeepsJob
  <2>2. ASSUME NEW s, task' = [task EXCEPT !.status = s] PROVE <1>3!:
    BY <1>1, <2>2 DEF TaskRow, TaskKeepsJob
  <2>3. ASSUME NEW s, task' = [task EXCEPT !.current = s] PROVE <1>3!:
    BY <1>1, <2>3 DEF TaskRow, TaskKeepsJob
  <2> QED
    BY <2>1, <2>2, <2>3
       DEF GraphStep, Analyze, StartStep, Work, UseTool, CheckTask, WaitForApproval,
           InterruptGraph, ToolReturns, ToolBreaks, Checkpoint, Evaluate, Turn,
           FinishGraph, GraphRaises, workerVars
<1> DEFINE Own == \A u \in Threads \ {w} : graph'[u] = graph[u]
<1> SUFFICES Own /\ (GraphGoesOn(w) \/ GraphEnds(w))
  BY <1>2, <1>3
<1>4. ASSUME NEW pc, Move(w, pc), graph[w].pc # "idle", pc # "idle", worker' = worker
      PROVE  Own /\ GraphGoesOn(w)
  BY <1>1, <1>4, MoveEffect DEF GraphGoesOn
<1>5. CASE \/ Analyze(w) \/ StartStep(w) \/ CheckTask(w) \/ WaitForApproval(w)
           \/ InterruptGraph(w) \/ Checkpoint(w) \/ Turn(w)
  <2>1. PICK pc : Move(w, pc) /\ pc # "idle"
    BY <1>5 DEF Analyze, StartStep, CheckTask, WaitForApproval, InterruptGraph,
                Checkpoint, Turn
  <2>2. graph[w].pc # "idle" /\ worker' = worker
    BY <1>5 DEF Analyze, StartStep, CheckTask, WaitForApproval, InterruptGraph,
                Checkpoint, Turn, GraphOnly
  <2> QED
    BY <1>4, <2>1, <2>2
<1>6. CASE Work(w)
  BY <1>1, <1>6 DEF Work, GraphOnly, GraphThread, GraphGoesOn
<1>7. CASE UseTool(w)
  BY <1>7 DEF UseTool, workerVars, GraphGoesOn
<1>8. ASSUME NEW ok, graph[w].pc # "idle", UNCHANGED worker,
             graph' = [graph EXCEPT ![w].pc = "checkpointing", ![w].resume = NoIntent,
                                    ![w].ok = ok]
      PROVE  Own /\ GraphGoesOn(w)
  BY <1>1, <1>8 DEF GraphThread, GraphGoesOn
<1>9. CASE ToolReturns(w)
  <2>1. CASE thread[w].result = "interrupt"
    BY <1>1, <1>9, <2>1, LeaveEffect DEF ToolReturns
  <2>2. CASE thread[w].result # "interrupt"
    BY <1>8, <1>9, <2>2 DEF ToolReturns
  <2> QED
    BY <2>1, <2>2
<1>10. CASE ToolBreaks(w)
  BY <1>8, <1>10 DEF ToolBreaks
<1>11. CASE Evaluate(w)
  <2>1. CASE Move(w, "finishing")
    BY <1>4, <1>11, <2>1 DEF Evaluate, GraphOnly
  <2>2. ASSUME NEW goal, graph' = [graph EXCEPT ![w].pc = "turning", ![w].goal = goal]
        PROVE  Own /\ GraphGoesOn(w)
    BY <1>1, <1>11, <2>2 DEF Evaluate, GraphOnly, GraphThread, GraphGoesOn
  <2>3. ASSUME graph' = [graph EXCEPT ![w].pc = "starting", ![w].step = @ + 1]
        PROVE  Own /\ GraphGoesOn(w)
    BY <1>1, <1>11, <2>3 DEF Evaluate, GraphOnly, GraphThread, GraphGoesOn
  <2> QED
    BY <1>11, <2>1, <2>2, <2>3 DEF Evaluate
<1>12. CASE FinishGraph(w) \/ GraphRaises(w)
  BY <1>1, <1>12, LeaveEffect DEF FinishGraph, GraphRaises
<1> QED
  BY <1>5, <1>6, <1>7, <1>9, <1>10, <1>11, <1>12 DEF GraphStep

\* The API moves no delivery, no graph and no recovery.
LEMMA ApiEffect ==
    ASSUME ApiStep
    PROVE  UNCHANGED <<step, worker, graph, recoverer, faults, thread>>
BY DEF ApiStep, RunTask, ResumeTask, PauseTask, CancelApprovals, CancelTask, ReviewTask,
       StoreDecision, ResumeDecided, runVars, sideVars, ledgerVars, CancelPending, Decide

\* A fetched job is claimed by the worker that fetched it.
LEMMA FetchEffect ==
    ASSUME WorkerTypeOK, NEW w \in Threads, Fetch(w)
    PROVE  /\ worker[w].pc = "idle" /\ \A u \in Threads \ {w} : worker'[u] = worker[u]
           /\ \A j \in Jobs : job[j].status # "doing"
           /\ \E j \in Jobs :
                 /\ job[j].status = "todo"
                 /\ job' = [job EXCEPT ![j].status = "doing"]
                 /\ worker'[w].pc = "claiming" /\ worker'[w].job = j
<1>1. worker \in [Threads -> Delivery]
  BY DEF WorkerTypeOK, RunTypeOK
<1>2. PICK j \in Jobs :
        /\ job[j].status = "todo"
        /\ job' = [job EXCEPT ![j].status = "doing"]
        /\ worker' = [worker EXCEPT ![w] = [Idler EXCEPT !.pc = "claiming", !.job = j]]
  BY DEF Fetch
<1>3. worker'[w].pc = "claiming" /\ worker'[w].job = j
  BY <1>1, <1>2 DEF Idler
<1> QED
  BY <1>1, <1>2, <1>3 DEF Fetch

\* A worker that gives up detaches the graph it awaited.
LEMMA TimeoutEffect ==
    ASSUME WorkerTypeOK, NEW w \in Threads, Timeout(w)
    PROVE  /\ worker[w].pc \in {"asking", "awaiting"}
           /\ OnlyMoves(w) /\ worker'[w].pc = "raising" /\ worker'[w].error = "other"
           /\ \A u \in Threads \ {w} : graph'[u] = graph[u]
           /\ graph'[w].pc = graph[w].pc /\ graph'[w].step = graph[w].step
           /\ graph'[w].ok = graph[w].ok /\ graph'[w].goal = graph[w].goal
           /\ worker[w].pc = "awaiting" => graph'[w].detached
           /\ worker[w].pc # "awaiting" => graph'[w] = graph[w]
           /\ faults'.timeouts = faults.timeouts + 1 /\ faults'.overlap = faults.overlap
<1>1. /\ worker \in [Threads -> Delivery] /\ graph \in [Threads -> GraphThread]
      /\ faults \in [crashes : 0..MaxCrashes, timeouts : 0..MaxTimeouts, overlap : BOOLEAN]
  BY DEF WorkerTypeOK, RunTypeOK, SideTypeOK
<1>2. /\ OnlyMoves(w) /\ worker'[w].pc = "raising" /\ worker'[w].error = "other"
  BY <1>1, FailEffect DEF Timeout
<1>3. faults'.timeouts = faults.timeouts + 1 /\ faults'.overlap = faults.overlap
  BY <1>1 DEF Timeout
<1>4. CASE worker[w].pc = "awaiting"
  <2>1. graph' = [graph EXCEPT ![w].detached = TRUE]
    BY <1>4 DEF Timeout
  <2> QED
    BY <1>1, <1>2, <1>3, <1>4, <2>1 DEF Timeout, GraphThread
<1>5. CASE worker[w].pc # "awaiting"
  BY <1>1, <1>2, <1>3, <1>5 DEF Timeout, GraphThread
<1> QED
  BY <1>4, <1>5

\* A crash leaves an idle process.
LEMMA CrashEffect ==
    ASSUME WorkerTypeOK, NEW w \in Threads, Crash(w)
    PROVE  /\ worker' = [worker EXCEPT ![w] = Idler] /\ graph' = [graph EXCEPT ![w] = NoGraph]
           /\ faults'.timeouts = faults.timeouts /\ faults'.overlap = faults.overlap
           /\ UNCHANGED <<task, step, job, recoverer, office>>
BY DEF Crash, WorkerTypeOK, SideTypeOK

\* Recovery moves no delivery and no graph, and counts no timeout.
LEMMA RescueEffect ==
    ASSUME WorkerTypeOK, NEW r \in Recoverers, RescueStep(r) \/ RescuerDies(r)
    PROVE  /\ UNCHANGED <<step, worker, graph, office, ledgerVars>>
           /\ faults'.timeouts = faults.timeouts
           /\ faults.overlap => faults'.overlap
BY DEF RescueStep, ListStalled, Recover, RecoverJob, RescuerDies, runVars, WorkerTypeOK,
       SideTypeOK

\* Whoever is at work is at work on a job.
LEMMA BusyHasJob ==
    ASSUME WorkerTypeOK, QueueInv, NEW w \in Threads, worker[w].pc # "idle"
    PROVE  worker[w].job # 0 /\ worker[w].job \in Jobs
<1>1. worker[w].job \in 0..MaxJobs
  BY DEF WorkerTypeOK, RunTypeOK, Delivery
<1>2. worker[w].job # 0
  BY DEF QueueInv, WorkIsEnqueued
<1> QED
  BY <1>1, <1>2

\* A delivery ends its job, or gives it back within the attempts the SDK allows.
LEMMA CloseJobEffect ==
    ASSUME WorkerTypeOK, QueueInv, NEW w \in Threads, CloseJob(w)
    PROVE  /\ UNCHANGED <<task, step, graph, recoverer, faults>>
           /\ worker[w].job \in Jobs
           /\ \A u \in Threads \ {w} : worker'[u] = worker[u]
           /\ worker'[w].pc = "idle" /\ worker'[w].job = 0
           /\ \A k \in Jobs : k # worker[w].job => job'[k] = job[k]
           /\ \/ /\ \/ worker[w].pc = "closing"
                    \/ /\ worker[w].pc = "retrying"
                       /\ \/ job[worker[w].job].attempts > MaxRetries
                          \/ \E k \in Jobs : job[k].status = "todo"
                 /\ \/ job'[worker[w].job].status = "ended"
                    \/ job[worker[w].job].status # "doing" /\ job' = job
              \/ /\ worker[w].pc = "retrying" /\ job'[worker[w].job].status = "todo"
                 /\ \A k \in Jobs : job[k].status # "todo"
<1>1. /\ job \in [Jobs -> JobRow] /\ worker \in [Threads -> Delivery]
      /\ worker[w].job # 0 => worker[w].job \in Jobs
  BY DEF WorkerTypeOK, RowsTypeOK, RunTypeOK, Delivery
<1>2. worker[w].job \in Jobs
  BY BusyHasJob DEF CloseJob
<1>3. /\ UNCHANGED <<task, step, graph, recoverer, faults>>
      /\ \A u \in Threads \ {w} : worker'[u] = worker[u]
      /\ worker'[w].pc = "idle" /\ worker'[w].job = 0
  BY <1>1 DEF CloseJob, sideVars, Idler
<1>4. ASSUME EndJob(worker[w].job)
      PROVE  /\ \A k \in Jobs : k # worker[w].job => job'[k] = job[k]
             /\ \/ job'[worker[w].job].status = "ended"
                \/ job[worker[w].job].status # "doing" /\ job' = job
  BY <1>1, <1>2, <1>4 DEF EndJob, JobRow
<1>5. ASSUME NEW n, job' = [job EXCEPT ![worker[w].job] = [status |-> "todo", attempts |-> n]]
      PROVE  /\ \A k \in Jobs : k # worker[w].job => job'[k] = job[k]
             /\ job'[worker[w].job].status = "todo"
  BY <1>1, <1>2, <1>5
<1>6. job[worker[w].job].attempts \in Nat
  BY <1>1, <1>2 DEF JobRow
<1> QED
  BY <1>2, <1>3, <1>4, <1>5, <1>6 DEF CloseJob

\* A recovery lists a job that nobody executes.
LEMMA ListStalledEffect ==
    ASSUME WorkerTypeOK, NEW r \in Recoverers, ListStalled(r)
    PROVE  /\ UNCHANGED <<task, step, job>>
           /\ \A q \in Recoverers \ {r} : recoverer'[q] = recoverer[q]
           /\ recoverer'[r].pc = "listed" /\ recoverer'[r].job \in Jobs
           /\ Stalled(recoverer'[r].job)
BY DEF ListStalled, WorkerTypeOK, SideTypeOK

\* It settles the task, or will have its job retried within the budget.
LEMMA RecoverEffect ==
    ASSUME WorkerTypeOK, NEW r \in Recoverers, Recover(r)
    PROVE  /\ UNCHANGED <<step, job, faults>> /\ TaskKeepsJob /\ task'.attempts = task.attempts
           /\ \A q \in Recoverers \ {r} : recoverer'[q] = recoverer[q]
           /\ recoverer[r].pc = "listed" /\ recoverer'[r].job = recoverer[r].job
           /\ \/ /\ recoverer'[r].pc = "finishing" /\ ~Resting
                 /\ task'.status \in {"REQUIRES_RECONCILIATION", "FAILED"}
              \/ /\ recoverer'[r].pc = "finishing" /\ task' = task
                 /\ recoverer[r].job = task.job => Resting
              \/ /\ recoverer'[r].pc = "retrying" /\ task' = task /\ WithinBudget
<1>1. /\ recoverer \in [Recoverers -> [pc : {"idle", "listed", "retrying", "finishing"},
                                       job : 0..MaxJobs]]
      /\ task \in TaskRow
  BY DEF WorkerTypeOK, SideTypeOK, RowsTypeOK
<1>2. ASSUME NEW pc, recoverer' = [recoverer EXCEPT ![r].pc = pc]
      PROVE  /\ \A q \in Recoverers \ {r} : recoverer'[q] = recoverer[q]
             /\ recoverer'[r].pc = pc /\ recoverer'[r].job = recoverer[r].job
  BY <1>1, <1>2
<1>3. ASSUME NEW s, task' = [task EXCEPT !.status = s]
      PROVE  TaskKeepsJob /\ task'.attempts = task.attempts /\ task'.status = s
  BY <1>1, <1>3 DEF TaskRow, TaskKeepsJob
<1>4. ASSUME task' = task
      PROVE  TaskKeepsJob /\ task'.attempts = task.attempts
  BY <1>4 DEF TaskKeepsJob
<1> DEFINE mine == task.job = recoverer[r].job /\ task.status \in {"QUEUED", "RUNNING"}
<1>5. CASE mine /\ (AmbiguousWrite \/ ~WithinBudget)
  <2>1. PICK s \in {"REQUIRES_RECONCILIATION", "FAILED"} : task' = [task EXCEPT !.status = s]
    BY <1>5 DEF Recover
  <2>2. recoverer' = [recoverer EXCEPT ![r].pc = "finishing"]
    BY <1>5 DEF Recover
  <2> QED
    BY <1>2, <1>3, <1>5, <2>1, <2>2 DEF Recover, Resting
<1>6. CASE ~(mine /\ (AmbiguousWrite \/ ~WithinBudget))
  <2>1. task' = task /\ recoverer' = [recoverer EXCEPT ![r].pc =
                                         IF mine THEN "retrying" ELSE "finishing"]
    BY <1>6 DEF Recover
  <2>2. CASE mine
    BY <1>2, <1>4, <1>6, <2>1, <2>2 DEF Recover
  <2>3. CASE ~mine
    BY <1>2, <1>4, <2>1, <2>3 DEF Recover, Resting
  <2> QED
    BY <2>2, <2>3
<1> QED
  BY <1>5, <1>6

\* Then the job is retried or ended.
LEMMA RecoverJobEffect ==
    ASSUME WorkerTypeOK, QueueInv, NEW r \in Recoverers, RecoverJob(r)
    PROVE  /\ UNCHANGED <<task, step, faults>>
           /\ \A q \in Recoverers \ {r} : recoverer'[q] = recoverer[q]
           /\ recoverer'[r].pc = "idle" /\ recoverer'[r].job = 0 /\ recoverer[r].job \in Jobs
           /\ \A k \in Jobs : k # recoverer[r].job => job'[k] = job[k]
           /\ \/ /\ recoverer[r].pc = "finishing"
                 /\ \/ job'[recoverer[r].job].status = "ended"
                    \/ job[recoverer[r].job].status # "doing" /\ job' = job
              \/ /\ recoverer[r].pc = "retrying" /\ job'[recoverer[r].job].status = "todo"
                 /\ \A k \in Jobs : job[k].status # "todo"
              \/ /\ recoverer[r].pc = "retrying" /\ job' = job
<1>1. /\ recoverer \in [Recoverers -> [pc : {"idle", "listed", "retrying", "finishing"},
                                       job : 0..MaxJobs]]
      /\ recoverer[r].job # 0 => recoverer[r].job \in Jobs
      /\ job \in [Jobs -> JobRow]
  BY DEF WorkerTypeOK, SideTypeOK, RowsTypeOK
<1>2. recoverer[r].job \in Jobs
  BY <1>1 DEF RecoverJob, QueueInv, WorkIsEnqueued
<1>3. /\ UNCHANGED <<task, step, faults>>
      /\ \A q \in Recoverers \ {r} : recoverer'[q] = recoverer[q]
      /\ recoverer'[r].pc = "idle" /\ recoverer'[r].job = 0
  BY <1>1 DEF RecoverJob, NoRescue
<1>4. ASSUME EndJob(recoverer[r].job)
      PROVE  /\ \A k \in Jobs : k # recoverer[r].job => job'[k] = job[k]
             /\ \/ job'[recoverer[r].job].status = "ended"
                \/ job[recoverer[r].job].status # "doing" /\ job' = job
  BY <1>1, <1>2, <1>4 DEF EndJob, JobRow
<1>5. ASSUME NEW n,
             job' = [job EXCEPT ![recoverer[r].job] = [status |-> "todo", attempts |-> n]]
      PROVE  /\ \A k \in Jobs : k # recoverer[r].job => job'[k] = job[k]
             /\ job'[recoverer[r].job].status = "todo"
  BY <1>1, <1>2, <1>5
<1> QED
  BY <1>2, <1>3, <1>4, <1>5 DEF RecoverJob

-----------------------------------------------------------------------------
(* Workers and their graphs *)

\* Nothing runs at first.
LEMMA AwaitedInit == WorkerInit => GraphsAreAwaited
BY DEF WorkerInit, GraphsAreAwaited, Idler, NoGraph

\* A worker awaits its graph before and after every step.
LEMMA AwaitedStep ==
    ASSUME WorkerTypeOK, GraphsAreAwaited, [WorkerNext]_vars
    PROVE  GraphsAreAwaited'
<1>1. /\ worker \in [Threads -> Delivery] /\ graph \in [Threads -> GraphThread]
      /\ faults.timeouts \in Nat
  BY DEF WorkerTypeOK, RunTypeOK, SideTypeOK
<1>2. ASSUME graph' = graph, faults'.timeouts = faults.timeouts,
             \A w \in Threads : worker'[w].pc = "awaiting" <=> worker[w].pc = "awaiting"
      PROVE  GraphsAreAwaited'
  BY <1>2 DEF GraphsAreAwaited
<1>3. CASE UNCHANGED vars
  BY <1>2, <1>3 DEF vars, workerVars
<1>4. CASE ApiStep
  BY <1>2, <1>4, ApiEffect
<1>5. ASSUME NEW w \in Threads, Fetch(w) PROVE GraphsAreAwaited'
  <2>1. UNCHANGED <<graph, faults>>
    BY <1>5 DEF Fetch, sideVars
  <2> QED
    BY <1>2, <1>5, <2>1, FetchEffect
<1>6. ASSUME NEW w \in Threads, DeliveryStep(w) PROVE GraphsAreAwaited'
  <2>1. CASE Ask(w)
    <3>1. UNCHANGED faults
      BY <2>1 DEF Ask, sideVars
    <3> QED
      BY <2>1, <3>1, AskEffect DEF GraphsAreAwaited, OnlyMoves
  <2>2. CASE ~Ask(w)
    <3>1. UNCHANGED <<graph, faults>>
      BY <1>6, <2>2 DEF DeliveryStep, ClaimDelivery, Prepare, ReadOutcome, SettleTask,
                        SaveAnswer, Raise, HandleFailure, CloseJob, sideVars
    <3>2. CASE CloseJob(w)
      BY <1>1, <1>2, <3>1, <3>2 DEF CloseJob, Idler
    <3>3. CASE ~CloseJob(w)
      <4>1. /\ \A u \in Threads \ {w} : worker'[u] = worker[u]
            /\ worker[w].pc # "awaiting" /\ worker'[w].pc # "awaiting"
        BY <1>6, <2>2, <3>3, ClaimDeliveryEffect, PrepareEffect, ReadOutcomeEffect,
           SettleTaskEffect, SaveAnswerEffect, RaiseEffect, HandleFailureEffect
           DEF DeliveryStep, OnlyMoves
      <4> QED
        BY <1>2, <3>1, <4>1
    <3> QED
      BY <3>2, <3>3
  <2> QED
    BY <2>1, <2>2
<1>7. ASSUME NEW w \in Threads, GraphStep(w) PROVE GraphsAreAwaited'
  <2>1. /\ \A u \in Threads \ {w} : graph'[u] = graph[u]
        /\ GraphGoesOn(w) \/ GraphEnds(w)
        /\ UNCHANGED faults
    BY <1>7, GraphEffect
  <2>2. CASE GraphGoesOn(w)
    BY <2>1, <2>2 DEF GraphsAreAwaited, GraphGoesOn
  <2>3. CASE GraphEnds(w)
    BY <2>1, <2>3 DEF GraphsAreAwaited, GraphEnds, OnlyMoves, NoGraph
  <2> QED
    BY <2>1, <2>2, <2>3
<1>8. ASSUME NEW w \in Threads, Timeout(w) PROVE GraphsAreAwaited'
  BY <1>1, <1>8, TimeoutEffect DEF GraphsAreAwaited, OnlyMoves
<1>9. ASSUME NEW w \in Threads, Crash(w) PROVE GraphsAreAwaited'
  BY <1>1, <1>9, CrashEffect DEF GraphsAreAwaited, Idler, NoGraph
<1>10. ASSUME NEW r \in Recoverers, RescueStep(r) \/ RescuerDies(r) PROVE GraphsAreAwaited'
  BY <1>2, <1>10, RescueEffect
<1> QED
  BY <1>3, <1>4, <1>5, <1>6, <1>7, <1>8, <1>9, <1>10 DEF WorkerNext

\* A worker awaits the graph of its process, unless a timeout has detached it.
THEOREM TaskAwaitsGraphs == WorkerSpec => []GraphsAreAwaited
<1>1. WorkerTypeOK /\ GraphsAreAwaited /\ [WorkerNext]_vars => GraphsAreAwaited'
  BY AwaitedStep
<1> QED
  BY <1>1, AwaitedInit, WorkerTypeCorrect, PTL DEF WorkerSpec

-----------------------------------------------------------------------------
(* Jobs, and who is at work on them *)

\* Whether a delivery is under way, and for which job.
SameWork ==
    \A w \in Threads : /\ worker'[w].job = worker[w].job
                       /\ worker'[w].pc = "idle" <=> worker[w].pc = "idle"

\* Nobody has a job at first.
LEMMA QueueInit == WorkerInit => QueueInv
BY DEF WorkerInit, QueueInv, WorkIsEnqueued, JobsAreExclusive, Idler, NoRescue

\* What leaves jobs, recoveries and work alone leaves the queue alone.
LEMMA QueueKept ==
    ASSUME QueueInv, UNCHANGED <<job, recoverer>>, task'.job = task.job,
           faults'.overlap = faults.overlap, SameWork
    PROVE  QueueInv'
<1>1. WorkIsEnqueued'
  BY DEF QueueInv, WorkIsEnqueued, SameWork
<1>2. ASSUME JobsAreExclusive PROVE JobsAreExclusive'
  <2>1. \A j : Stalled(j)' <=> Stalled(j)
    BY DEF Stalled, SameWork
  <2> QED
    BY <1>2, <2>1 DEF JobsAreExclusive, SameWork
<1> QED
  BY <1>1, <1>2 DEF QueueInv, OneRescuer

\* A new job is nobody's yet.
LEMMA QueueEnqueue ==
    ASSUME WorkerTypeOK, QueueInv, NEW from, Enqueue(from),
           UNCHANGED <<worker, recoverer, faults>>
    PROVE  QueueInv'
<1> DEFINE n == task.job + 1
<1>1. task \in TaskRow /\ job \in [Jobs -> JobRow] /\ worker \in [Threads -> Delivery]
  BY DEF WorkerTypeOK, RowsTypeOK, RunTypeOK
<1>2. /\ n \in Jobs /\ task'.job = n
      /\ job' = [job EXCEPT ![n].status = "todo"]
  BY <1>1 DEF Enqueue, MayEnqueue, TaskRow
<1>3. /\ job'[n].status = "todo" /\ \A j \in Jobs : j # n => job'[j] = job[j]
  BY <1>1, <1>2 DEF JobRow
<1>4. job[n].status = "absent"
  BY <1>1, <1>2 DEF QueueInv, WorkIsEnqueued, TaskRow
<1>5. WorkIsEnqueued'
  BY <1>1, <1>2, <1>3 DEF QueueInv, WorkIsEnqueued, TaskRow, Delivery
<1>6. ASSUME JobsAreExclusive PROVE JobsAreExclusive'
  <2> HIDE DEF n
  <2>1. \A j \in Jobs : job'[j].status = "doing" <=> job[j].status = "doing"
    BY <1>3, <1>4
  <2>2. \A w \in Threads : worker[w].job # 0 => worker[w].job \in Jobs
    BY <1>1 DEF Delivery
  <2>3. \A r \in Recoverers : recoverer[r].job # 0 => recoverer[r].job \in Jobs
    BY DEF WorkerTypeOK, SideTypeOK
  <2> QED
    BY <1>6, <2>1, <2>2, <2>3 DEF JobsAreExclusive, Stalled
<1> QED
  BY <1>5, <1>6 DEF QueueInv, OneRescuer

\* A request to stop takes back a job that nobody has fetched.
LEMMA QueueControl ==
    ASSUME WorkerTypeOK, QueueInv, NEW cancel \in BOOLEAN, RequestControl(cancel),
           UNCHANGED <<worker, recoverer, faults>>
    PROVE  QueueInv'
<1>1. task \in TaskRow /\ job \in [Jobs -> JobRow] /\ worker \in [Threads -> Delivery]
  BY DEF WorkerTypeOK, RowsTypeOK, RunTypeOK
<1>2. task'.job = task.job
  BY <1>1 DEF RequestControl, TaskRow
<1>3. \A j \in Jobs : \/ job'[j].status = job[j].status
                      \/ job[j].status = "todo" /\ job'[j].status = "ended"
  BY <1>1 DEF RequestControl, JobRow
<1>4. WorkIsEnqueued'
  BY <1>2, <1>3 DEF QueueInv, WorkIsEnqueued
<1>5. ASSUME JobsAreExclusive PROVE JobsAreExclusive'
  <2>1. \A j \in Jobs : job'[j].status = "doing" <=> job[j].status = "doing"
    BY <1>3
  <2>2. \A w \in Threads : worker[w].job # 0 => worker[w].job \in Jobs
    BY <1>1 DEF Delivery
  <2>3. \A r \in Recoverers : recoverer[r].job # 0 => recoverer[r].job \in Jobs
    BY DEF WorkerTypeOK, SideTypeOK
  <2> QED
    BY <1>5, <2>1, <2>2, <2>3 DEF JobsAreExclusive, Stalled
<1> QED
  BY <1>4, <1>5 DEF QueueInv, OneRescuer

\* The API.
LEMMA QueueApi ==
    ASSUME WorkerTypeOK, QueueInv, ApiStep
    PROVE  QueueInv'
<1>1. UNCHANGED <<worker, recoverer, faults>>
  BY ApiEffect
<1>2. ASSUME NEW from, Enqueue(from) PROVE QueueInv'
  BY <1>1, <1>2, QueueEnqueue
<1>3. ASSUME NEW cancel \in BOOLEAN, RequestControl(cancel) PROVE QueueInv'
  BY <1>1, <1>3, QueueControl
<1>4. ASSUME UNCHANGED <<task, job>> PROVE QueueInv'
  BY <1>1, <1>4, QueueKept DEF SameWork
<1> QED
  BY <1>2, <1>3, <1>4
     DEF ApiStep, RunTask, ResumeTask, PauseTask, CancelApprovals, CancelTask, ReviewTask,
         StoreDecision, ResumeDecided

\* The execution lock gives a job to one worker.
LEMMA QueueFetch ==
    ASSUME WorkerTypeOK, QueueInv, NEW w \in Threads, Fetch(w)
    PROVE  QueueInv'
<1>1. /\ job \in [Jobs -> JobRow] /\ worker \in [Threads -> Delivery] /\ task \in TaskRow
      /\ \A u \in Threads : worker[u].job # 0 => worker[u].job \in Jobs
      /\ \A r \in Recoverers : recoverer[r].job # 0 => recoverer[r].job \in Jobs
  BY DEF WorkerTypeOK, RowsTypeOK, RunTypeOK, SideTypeOK, Delivery
<1>2. UNCHANGED <<task, recoverer, faults>>
  BY DEF Fetch, sideVars
<1>3. /\ \A u \in Threads \ {w} : worker'[u] = worker[u]
      /\ \A j \in Jobs : job[j].status # "doing"
  BY FetchEffect
<1>4. PICK j \in Jobs : /\ job[j].status = "todo"
                        /\ job' = [job EXCEPT ![j].status = "doing"]
                        /\ worker'[w].pc = "claiming" /\ worker'[w].job = j
  BY FetchEffect
<1>5. job'[j].status = "doing" /\ \A k \in Jobs : k # j => job'[k] = job[k]
  BY <1>1, <1>4 DEF JobRow
<1>6. WorkIsEnqueued'
  <2>1. j # 0 /\ j <= task.job
    BY <1>4 DEF QueueInv, WorkIsEnqueued
  <2> QED
    BY <1>2, <1>3, <1>4, <1>5, <2>1 DEF QueueInv, WorkIsEnqueued
<1>7. ASSUME JobsAreExclusive PROVE JobsAreExclusive'
  <2>1. /\ \A u \in Threads : worker[u].job = 0
        /\ \A r \in Recoverers : recoverer[r].job = 0
    BY <1>1, <1>3, <1>7 DEF JobsAreExclusive, Stalled
  <2> QED
    BY <1>2, <1>3, <1>4, <1>5, <2>1 DEF JobsAreExclusive, Stalled
<1> QED
  BY <1>2, <1>6, <1>7 DEF QueueInv, OneRescuer

\* Who closes the only job being executed leaves none.
LEMMA QueueClose ==
    ASSUME WorkerTypeOK, QueueInv, NEW w \in Threads, CloseJob(w)
    PROVE  QueueInv'
<1> DEFINE j == worker[w].job
<1>1. /\ job \in [Jobs -> JobRow] /\ worker \in [Threads -> Delivery] /\ task \in TaskRow
      /\ \A u \in Threads : worker[u].job # 0 => worker[u].job \in Jobs
      /\ \A r \in Recoverers : recoverer[r].job # 0 => recoverer[r].job \in Jobs
  BY DEF WorkerTypeOK, RowsTypeOK, RunTypeOK, SideTypeOK, Delivery
<1>2. /\ UNCHANGED <<task, recoverer, faults>>
      /\ \A u \in Threads \ {w} : worker'[u] = worker[u]
      /\ worker'[w].pc = "idle" /\ worker'[w].job = 0
  BY <1>1 DEF CloseJob, sideVars, Idler
<1>3. j \in Jobs
  BY BusyHasJob DEF CloseJob
<1>4. /\ \A k \in Jobs : k # j => job'[k] = job[k]
      /\ \/ job[j].status # "doing" /\ job'[j] = job[j]
         \/ job'[j].status \in {"todo", "ended"}
  BY SMTT(30), <1>1, <1>3 DEF CloseJob, EndJob, JobRow
<1>5. WorkIsEnqueued'
  <2>1. 0 <= task.job /\ j <= task.job
    BY <1>1 DEF TaskRow, QueueInv, WorkIsEnqueued
  <2> HIDE DEF j
  <2> QED
    BY <1>2, <1>4, <2>1 DEF QueueInv, WorkIsEnqueued
<1>6. ASSUME JobsAreExclusive PROVE JobsAreExclusive'
  <2>1. /\ job[j].status = "doing" /\ \A k \in Jobs : job[k].status = "doing" => k = j
        /\ \A u \in Threads \ {w} : worker[u].job = 0
        /\ \A r \in Recoverers : recoverer[r].job = 0
    BY <1>1, <1>3, <1>6 DEF JobsAreExclusive, Stalled
  <2> HIDE DEF j
  <2> QED
    BY <1>2, <1>4, <2>1 DEF JobsAreExclusive
<1> QED
  BY <1>2, <1>5, <1>6 DEF QueueInv, OneRescuer

\* A crash leaves the job without a worker.
LEMMA QueueCrash ==
    ASSUME WorkerTypeOK, QueueInv, NEW w \in Threads, Crash(w)
    PROVE  QueueInv'
<1>1. /\ UNCHANGED <<task, job, recoverer>> /\ faults'.overlap = faults.overlap
      /\ \A u \in Threads \ {w} : worker'[u] = worker[u]
      /\ worker'[w].pc = "idle" /\ worker'[w].job = 0
  BY CrashEffect DEF WorkerTypeOK, RunTypeOK, Idler
<1>2. WorkIsEnqueued'
  <2>1. 0 <= task.job
    BY DEF WorkerTypeOK, RowsTypeOK, TaskRow
  <2> QED
    BY <1>1, <2>1 DEF QueueInv, WorkIsEnqueued
<1>3. ASSUME JobsAreExclusive PROVE JobsAreExclusive'
  BY <1>1, <1>3 DEF JobsAreExclusive, Stalled
<1> QED
  BY <1>1, <1>2, <1>3 DEF QueueInv, OneRescuer

\* A recovery takes a job nobody is at work on, and gives it back or ends it.
LEMMA QueueRescue ==
    ASSUME WorkerTypeOK, QueueInv, NEW r \in Recoverers, RescueStep(r) \/ RescuerDies(r)
    PROVE  QueueInv'
<1>1. /\ job \in [Jobs -> JobRow] /\ task \in TaskRow
      /\ recoverer \in [Recoverers -> [pc : {"idle", "listed", "retrying", "finishing"},
                                       job : 0..MaxJobs]]
      /\ \A u \in Threads : worker[u].job # 0 => worker[u].job \in Jobs
      /\ \A q \in Recoverers : recoverer[q].job # 0 => recoverer[q].job \in Jobs
      /\ faults \in [crashes : 0..MaxCrashes, timeouts : 0..MaxTimeouts, overlap : BOOLEAN]
  BY DEF WorkerTypeOK, RowsTypeOK, RunTypeOK, SideTypeOK, Delivery
<1>2. UNCHANGED worker
  BY RescueEffect
<1>3. CASE ListStalled(r)
  <2>1. PICK j \in Jobs :
          /\ Stalled(j)
          /\ recoverer' = [recoverer EXCEPT ![r] = [pc |-> "listed", job |-> j]]
          /\ faults' = [faults EXCEPT !.overlap =
                           @ \/ \E q \in Recoverers : recoverer[q].job = j]
    BY <1>3 DEF ListStalled
  <2>2. UNCHANGED <<task, job>>
    BY <1>3 DEF ListStalled
  <2>3. /\ recoverer'[r].pc = "listed" /\ recoverer'[r].job = j /\ j # 0
        /\ \A q \in Recoverers \ {r} : recoverer'[q] = recoverer[q]
    BY <1>1, <2>1
  <2>4. WorkIsEnqueued'
    BY <1>2, <2>2, <2>3 DEF QueueInv, WorkIsEnqueued
  <2>5. ASSUME OneRescuer' PROVE JobsAreExclusive'
    <3>1. OneRescuer /\ \A q \in Recoverers : recoverer[q].job # j
      BY <1>1, <2>1, <2>5 DEF OneRescuer
    <3>2. JobsAreExclusive
      BY <3>1 DEF QueueInv
    <3>3. \A k : Stalled(k)' <=> Stalled(k)
      BY <1>2, <2>2 DEF Stalled
    <3> QED
      BY <1>2, <2>1, <2>2, <2>3, <3>1, <3>2, <3>3 DEF JobsAreExclusive
  <2> QED
    BY <2>4, <2>5 DEF QueueInv
<1>4. CASE Recover(r)
  <2>1. task'.job = task.job /\ UNCHANGED <<job, faults>>
    BY <1>4, RecoverEffect DEF TaskKeepsJob
  <2>2. /\ \A q \in Recoverers : recoverer'[q].job = recoverer[q].job
        /\ \A q \in Recoverers : recoverer'[q].pc = "idle" <=> recoverer[q].pc = "idle"
    BY <1>4, RecoverEffect
  <2>3. WorkIsEnqueued'
    BY <1>2, <2>1, <2>2 DEF QueueInv, WorkIsEnqueued
  <2>4. \A k : Stalled(k)' <=> Stalled(k)
    BY <1>2, <2>1 DEF Stalled
  <2>5. JobsAreExclusive => JobsAreExclusive'
    BY <1>2, <2>1, <2>2, <2>4 DEF JobsAreExclusive
  <2> QED
    BY <2>1, <2>3, <2>5 DEF QueueInv, OneRescuer
<1>5. CASE RecoverJob(r)
  <2> DEFINE j == recoverer[r].job
  <2>1. UNCHANGED <<task, faults>>
    BY <1>5 DEF RecoverJob
  <2>2. /\ recoverer'[r].pc = "idle" /\ recoverer'[r].job = 0
        /\ \A q \in Recoverers \ {r} : recoverer'[q] = recoverer[q]
    BY <1>1, <1>5 DEF RecoverJob, NoRescue
  <2>3. j \in Jobs
    BY <1>1, <1>5 DEF RecoverJob, QueueInv, WorkIsEnqueued
  <2>4. /\ \A k \in Jobs : k # j => job'[k] = job[k]
        /\ \/ job'[j] = job[j]
           \/ job[j].status = "doing" /\ job'[j].status \in {"todo", "ended"}
    BY <1>1, <1>5, <2>3 DEF RecoverJob, EndJob, JobRow
  <2>5. WorkIsEnqueued'
    BY <1>2, <2>1, <2>2, <2>3, <2>4 DEF QueueInv, WorkIsEnqueued
  <2>6. ASSUME JobsAreExclusive PROVE JobsAreExclusive'
    <3>0. /\ j # 0 /\ Stalled(j)
          /\ \A k \in Jobs : job[k].status = "doing" => k = j
      BY <2>3, <2>6 DEF JobsAreExclusive, Stalled
    <3>1. /\ Stalled(j) /\ \A k \in Jobs : job[k].status = "doing" => k = j
          /\ \A u \in Threads : worker[u].job = 0
          /\ \A q \in Recoverers \ {r} : recoverer[q].job = 0
      <4>1. \A u \in Threads : worker[u].job = 0
        BY <1>1, <2>6, <3>0 DEF JobsAreExclusive, Stalled
      <4>2. \A q \in Recoverers : recoverer[q].job # 0 => recoverer[q].job = j
        BY <1>1, <2>6, <3>0 DEF JobsAreExclusive, Stalled
      <4> QED
        BY <2>6, <3>0, <4>1, <4>2 DEF JobsAreExclusive
    <3> HIDE DEF j
    <3> QED
      BY <1>2, <2>2, <2>4, <3>1 DEF JobsAreExclusive
  <2> QED
    BY <2>1, <2>5, <2>6 DEF QueueInv, OneRescuer
<1>6. CASE RescuerDies(r)
  <2>1. /\ UNCHANGED <<task, job>> /\ faults'.overlap = faults.overlap
        /\ recoverer'[r].pc = "idle" /\ recoverer'[r].job = 0
        /\ \A q \in Recoverers \ {r} : recoverer'[q] = recoverer[q]
    BY <1>1, <1>6 DEF RescuerDies, NoRescue
  <2>2. WorkIsEnqueued'
    BY <1>2, <2>1 DEF QueueInv, WorkIsEnqueued
  <2>3. \A k : Stalled(k)' <=> Stalled(k)
    BY <1>2, <2>1 DEF Stalled
  <2>4. JobsAreExclusive => JobsAreExclusive'
    BY <1>2, <2>1, <2>3 DEF JobsAreExclusive
  <2> QED
    BY <2>1, <2>2, <2>4 DEF QueueInv, OneRescuer
<1> QED
  BY <1>3, <1>4, <1>5, <1>6 DEF RescueStep

\* Every step.
LEMMA QueueStep ==
    ASSUME WorkerTypeOK, GraphsAreAwaited, QueueInv, [WorkerNext]_vars
    PROVE  QueueInv'
<1>1. CASE UNCHANGED vars
  BY <1>1, QueueKept DEF vars, workerVars, SameWork
<1>2. ASSUME NEW w \in Threads, DeliveryStep(w), ~CloseJob(w) PROVE QueueInv'
  <2>1. UNCHANGED <<job, recoverer, faults>>
    BY <1>2 DEF DeliveryStep, ClaimDelivery, Prepare, Ask, ReadOutcome, SettleTask,
                SaveAnswer, Raise, HandleFailure, sideVars
  <2>2. task'.job = task.job
    BY <1>2, ClaimDeliveryEffect, SettleTaskEffect, HandleFailureEffect
       DEF DeliveryStep, Prepare, Ask, ReadOutcome, SaveAnswer, Raise, TaskKeepsJob
  <2>3. OnlyMoves(w) /\ worker[w].pc # "idle" /\ worker'[w].pc # "idle"
    BY <1>2, ClaimDeliveryEffect, PrepareEffect, AskEffect, ReadOutcomeEffect,
       SettleTaskEffect, SaveAnswerEffect, RaiseEffect, HandleFailureEffect DEF DeliveryStep
  <2> QED
    BY <2>1, <2>2, <2>3, QueueKept DEF SameWork, OnlyMoves
<1>3. ASSUME NEW w \in Threads, GraphStep(w) PROVE QueueInv'
  <2>1. UNCHANGED <<job, recoverer, faults>> /\ task'.job = task.job
    BY <1>3, GraphEffect DEF TaskKeepsJob
  <2>2. SameWork
    BY <1>3, GraphEffect DEF GraphGoesOn, GraphEnds, GraphsAreAwaited, OnlyMoves, SameWork
  <2> QED
    BY <2>1, <2>2, QueueKept
<1>4. ASSUME NEW w \in Threads, Timeout(w) PROVE QueueInv'
  <2>1. UNCHANGED <<task, job, recoverer>> /\ faults'.overlap = faults.overlap
    BY <1>4, TimeoutEffect DEF Timeout
  <2>2. SameWork
    BY <1>4, TimeoutEffect DEF OnlyMoves, SameWork
  <2> QED
    BY <2>1, <2>2, QueueKept
<1> QED
  BY <1>1, <1>2, <1>3, <1>4, QueueApi, QueueFetch, QueueClose, QueueCrash, QueueRescue
     DEF WorkerNext

\* While one recovery handles a job, one worker at a time is at work on the task.
LEMMA QueueIsExclusive == WorkerSpec => [](WorkerTypeOK /\ GraphsAreAwaited /\ QueueInv)
<1>1. WorkerTypeOK /\ GraphsAreAwaited /\ QueueInv /\ [WorkerNext]_vars => QueueInv'
  BY QueueStep
<1> QED
  BY <1>1, QueueInit, TaskAwaitsGraphs, WorkerTypeCorrect, PTL DEF WorkerSpec

\* Two deliveries never execute the task at the same time, whoever times out, dies and
\* is recovered, as long as one recovery handles a job.
THEOREM TaskRunsOnce == WorkerSpec => []OneRunner
<1>1. WorkerTypeOK /\ QueueInv => OneRunner
  <2> SUFFICES ASSUME WorkerTypeOK, QueueInv, OneRescuer,
                      NEW w \in Threads, NEW u \in Threads, Executing(w), Executing(u)
               PROVE  w = u
    BY DEF OneRunner
  <2>1. worker[w].pc # "idle" /\ worker[u].pc # "idle"
    BY DEF Executing
  <2>2. /\ worker[w].job # 0 /\ worker[w].job \in Jobs
        /\ worker[u].job # 0 /\ worker[u].job \in Jobs
    BY <2>1, BusyHasJob
  <2>3. JobsAreExclusive
    BY DEF QueueInv
  <2> QED
    BY <2>2, <2>3 DEF JobsAreExclusive
<1> QED
  BY <1>1, QueueIsExclusive, PTL

-----------------------------------------------------------------------------
(* Reruns and their budget *)

\* Nothing has run at first.
LEMMA RerunInit == WorkerInit => RerunInv
BY DEF WorkerInit, RerunInv, Claimable, Idler, NoRescue

\* A step that starts no run and makes none possible keeps the bound.
LEMMA RerunKept ==
    ASSUME RerunInv, task'.attempts = task.attempts, task'.job = task.job,
           faults.overlap => faults'.overlap, Claimable' => Claimable
    PROVE  RerunInv'
BY DEF RerunInv, OneRescuer

\* The API buys one more run with a new job only.
LEMMA RerunApi ==
    ASSUME WorkerTypeOK, RerunInv, ApiStep
    PROVE  RerunInv'
<1>1. task \in TaskRow /\ job \in [Jobs -> JobRow]
  BY DEF WorkerTypeOK, RowsTypeOK
<1>2. UNCHANGED <<worker, recoverer, faults>>
  BY ApiEffect
<1>3. ASSUME NEW from, Enqueue(from) PROVE RerunInv'
  <2>1. task'.job = task.job + 1 /\ task'.attempts = task.attempts
    BY <1>1, <1>3 DEF Enqueue, TaskRow
  <2> QED
    BY <1>1, <1>2, <2>1 DEF RerunInv, OneRescuer, TaskRow
<1>4. ASSUME NEW cancel \in BOOLEAN, RequestControl(cancel) PROVE RerunInv'
  <2>1. task'.job = task.job /\ task'.attempts = task.attempts
    BY <1>1, <1>4 DEF RequestControl, TaskRow
  <2>2. \A j \in Jobs : job'[j].status = "todo" => job[j].status = "todo"
    BY <1>1, <1>4 DEF RequestControl, JobRow
  <2>3. task.job # 0 => task.job \in Jobs
    BY <1>1 DEF TaskRow
  <2> QED
    BY <1>2, <2>1, <2>2, <2>3, RerunKept DEF Claimable
<1>5. ASSUME UNCHANGED <<task, job>> PROVE RerunInv'
  BY <1>2, <1>5 DEF RerunInv, Claimable, OneRescuer
<1> QED
  BY <1>3, <1>4, <1>5
     DEF ApiStep, RunTask, ResumeTask, PauseTask, CancelApprovals, CancelTask, ReviewTask,
         StoreDecision, ResumeDecided

\* A delivery starts one run of a job that could still be claimed, once.
LEMMA RerunDelivery ==
    ASSUME WorkerTypeOK, QueueInv, RerunInv, NEW w \in Threads, Fetch(w) \/ DeliveryStep(w)
    PROVE  RerunInv'
<1>1. /\ task.attempts \in Nat /\ task.job \in 0..MaxJobs /\ MaxRetries \in Nat
      /\ worker[w].job \in 0..MaxJobs /\ job \in [Jobs -> JobRow]
  BY DEF WorkerTypeOK, RowsTypeOK, RunTypeOK, TaskRow, Delivery
<1>2. CASE Fetch(w)
  <2>1. UNCHANGED <<task, recoverer, faults>>
    BY <1>2 DEF Fetch, sideVars
  <2>2. PICK j \in Jobs : /\ job[j].status = "todo"
                          /\ job' = [job EXCEPT ![j].status = "doing"]
                          /\ worker'[w].pc = "claiming" /\ worker'[w].job = j
    BY <1>2, FetchEffect
  <2>3. \A u \in Threads \ {w} : worker'[u] = worker[u]
    BY <1>2, FetchEffect
  <2>4. /\ j # 0 /\ job'[j].status = "doing"
        /\ \A k \in Jobs : k # j => job'[k] = job[k]
    BY <1>1, <2>2 DEF JobRow
  <2>5. task.job # 0 => task.job \in Jobs
    BY <1>1
  <2>6. Claimable' => Claimable
    BY <2>1, <2>2, <2>3, <2>4, <2>5 DEF Claimable
  <2> QED
    BY <2>1, <2>6, RerunKept
<1>3. CASE CloseJob(w)
  <2>1. Claimable' => Claimable
    BY <1>1, <1>3, CloseJobEffect DEF Claimable
  <2> QED
    BY <1>3, <2>1, CloseJobEffect, RerunKept
<1>4. CASE ~Fetch(w) /\ ~CloseJob(w)
  <2>1. UNCHANGED <<job, recoverer, faults>>
    BY <1>4 DEF DeliveryStep, ClaimDelivery, Prepare, Ask, ReadOutcome, SettleTask,
                SaveAnswer, Raise, HandleFailure, sideVars
  <2>2. task'.job = task.job
    BY <1>4, ClaimDeliveryEffect, SettleTaskEffect, HandleFailureEffect
       DEF DeliveryStep, Prepare, Ask, ReadOutcome, SaveAnswer, Raise, TaskKeepsJob
  <2>3. OnlyMoves(w)
    BY <1>4, ClaimDeliveryEffect, PrepareEffect, AskEffect, ReadOutcomeEffect,
       SettleTaskEffect, SaveAnswerEffect, RaiseEffect, HandleFailureEffect DEF DeliveryStep
  <2>4. ASSUME worker'[w].pc \notin {"claiming", "retrying"} PROVE Claimable' => Claimable
    BY <2>1, <2>2, <2>3, <2>4 DEF Claimable, OnlyMoves
  <2>5. CASE ClaimDelivery(w) /\ worker'[w].pc = "preparing"
    <3>1. /\ task.job = worker[w].job /\ worker[w].pc = "claiming"
          /\ task'.attempts = task.attempts + 1
      BY <2>5, ClaimDeliveryEffect DEF Deliverable
    <3>2. ASSUME OneRescuer PROVE ~Claimable'
      <4>1. /\ worker[w].job # 0 /\ JobsAreExclusive
            /\ \A r \in Recoverers : recoverer[r].job # 0 => recoverer[r].job \in Jobs
        BY <3>1, <3>2 DEF QueueInv, WorkIsEnqueued, WorkerTypeOK, SideTypeOK
      <4>2. job[task.job].status # "todo"
        BY <3>1, <4>1 DEF JobsAreExclusive
      <4>3. \A u \in Threads : worker[u].job = task.job => u = w
        BY <3>1, <4>1 DEF JobsAreExclusive
      <4>4. \A r \in Recoverers : recoverer[r].job # task.job
        BY <3>1, <4>1 DEF JobsAreExclusive, Stalled
      <4> QED
        BY <2>1, <2>2, <2>3, <2>5, <4>2, <4>3, <4>4 DEF Claimable, OnlyMoves
    <3> QED
      BY <1>1, <2>1, <2>2, <3>1, <3>2 DEF RerunInv, OneRescuer, Claimable
  <2>6. CASE HandleFailure(w) /\ worker'[w].pc = "retrying"
    <3>1. WithinBudget /\ task'.attempts = task.attempts /\ worker[w].pc = "handling"
      BY <2>6, HandleFailureEffect
    <3>2. CASE worker[w].job = task.job
      <4>1. task.job # 0
        BY <3>1, <3>2 DEF QueueInv, WorkIsEnqueued
      <4> QED
        BY <1>1, <2>2, <3>1, <4>1 DEF WithinBudget, RerunInv
    <3>3. CASE worker[w].job # task.job
      <4>1. Claimable' => Claimable
        BY <2>1, <2>2, <2>3, <3>3 DEF Claimable, OnlyMoves
      <4> QED
        BY <2>1, <2>2, <3>1, <4>1, RerunKept
    <3> QED
      BY <3>2, <3>3
  <2>7. CASE /\ ~(ClaimDelivery(w) /\ worker'[w].pc = "preparing")
             /\ ~(HandleFailure(w) /\ worker'[w].pc = "retrying")
    <3>1. task'.attempts = task.attempts
      BY <1>4, <2>7, ClaimDeliveryEffect, SettleTaskEffect, HandleFailureEffect
         DEF DeliveryStep, Prepare, Ask, ReadOutcome, SaveAnswer, Raise
    <3>2. worker'[w].pc \notin {"claiming", "retrying"}
      BY <1>4, <2>7, ClaimDeliveryEffect, PrepareEffect, AskEffect, ReadOutcomeEffect,
         SettleTaskEffect, SaveAnswerEffect, RaiseEffect, HandleFailureEffect
         DEF DeliveryStep
    <3> QED
      BY <2>1, <2>2, <2>4, <3>1, <3>2, RerunKept
  <2> QED
    BY <2>5, <2>6, <2>7
<1> QED
  BY <1>2, <1>3, <1>4

\* A recovery has a job retried only within the budget.
LEMMA RerunRescue ==
    ASSUME WorkerTypeOK, QueueInv, RerunInv,
           NEW r \in Recoverers, RescueStep(r) \/ RescuerDies(r)
    PROVE  RerunInv'
<1>1. /\ task.attempts \in Nat /\ task.job \in 0..MaxJobs /\ MaxRetries \in Nat
      /\ UNCHANGED worker /\ (faults.overlap => faults'.overlap)
      /\ recoverer \in [Recoverers -> [pc : {"idle", "listed", "retrying", "finishing"},
                                       job : 0..MaxJobs]]
  BY RescueEffect DEF WorkerTypeOK, RowsTypeOK, SideTypeOK, TaskRow
<1>2. CASE ListStalled(r)
  BY <1>1, <1>2, ListStalledEffect, RerunKept DEF Claimable
<1>3. CASE Recover(r)
  <2>1. CASE recoverer'[r].pc = "retrying" /\ recoverer[r].job = task.job
    <3>1. WithinBudget /\ task'.attempts = task.attempts /\ task'.job = task.job
      BY <1>3, <2>1, RecoverEffect DEF TaskKeepsJob
    <3>2. task.job # 0
      BY <1>3, <2>1, RecoverEffect DEF QueueInv, WorkIsEnqueued
    <3> QED
      BY <1>1, <3>1, <3>2 DEF WithinBudget, RerunInv
  <2>2. CASE ~(recoverer'[r].pc = "retrying" /\ recoverer[r].job = task.job)
    <3>1. Claimable' => Claimable
      BY <1>1, <1>3, <2>2, RecoverEffect DEF Claimable, TaskKeepsJob
    <3> QED
      BY <1>1, <1>3, <3>1, RecoverEffect, RerunKept DEF TaskKeepsJob
  <2> QED
    BY <2>1, <2>2
<1>4. CASE RecoverJob(r)
  <2>1. Claimable' => Claimable
    BY <1>1, <1>4, RecoverJobEffect DEF Claimable
  <2> QED
    BY <1>1, <1>4, <2>1, RecoverJobEffect, RerunKept
<1>5. CASE RescuerDies(r)
  <2>1. /\ UNCHANGED <<task, job>> /\ recoverer'[r].pc = "idle"
        /\ \A q \in Recoverers \ {r} : recoverer'[q] = recoverer[q]
    BY <1>1, <1>5 DEF RescuerDies, NoRescue
  <2>2. UNCHANGED worker
    BY <1>1
  <2>3. Claimable' => Claimable
    BY <2>1, <2>2 DEF Claimable
  <2> QED
    BY <1>1, <2>1, <2>3, RerunKept
<1> QED
  BY <1>2, <1>3, <1>4, <1>5 DEF RescueStep

\* Every step.
LEMMA RerunStep ==
    ASSUME WorkerTypeOK, QueueInv, RerunInv, [WorkerNext]_vars
    PROVE  RerunInv'
<1>1. CASE UNCHANGED vars
  BY <1>1 DEF vars, workerVars, RerunInv, Claimable, OneRescuer
<1>2. ASSUME NEW w \in Threads, GraphStep(w) PROVE RerunInv'
  <2>1. /\ UNCHANGED <<job, recoverer, faults>> /\ task'.job = task.job
        /\ task'.attempts = task.attempts
    BY <1>2, GraphEffect DEF TaskKeepsJob
  <2>2. Claimable' => Claimable
    BY <1>2, <2>1, GraphEffect DEF GraphGoesOn, GraphEnds, OnlyMoves, Claimable
  <2> QED
    BY <2>1, <2>2, RerunKept
<1>3. ASSUME NEW w \in Threads, Timeout(w) PROVE RerunInv'
  <2>1. UNCHANGED <<task, job, recoverer>>
    BY <1>3 DEF Timeout
  <2> QED
    BY <1>3, <2>1, TimeoutEffect, RerunKept DEF OnlyMoves, Claimable
<1>4. ASSUME NEW w \in Threads, Crash(w) PROVE RerunInv'
  <2>1. worker \in [Threads -> Delivery]
    BY DEF WorkerTypeOK, RunTypeOK
  <2> QED
    BY <1>4, <2>1, CrashEffect, RerunKept DEF Claimable, Idler
<1> QED
  BY <1>1, <1>2, <1>3, <1>4, RerunApi, RerunDelivery, RerunRescue DEF WorkerNext

\* The agent runs the task at most MaxRetries times more often than humans asked for,
\* whether handler or recovery asks for the reruns, as long as one recovery handles a job.
THEOREM TaskRerunsAreBounded == WorkerSpec => []RerunsAreBounded
<1>1. WorkerTypeOK /\ QueueInv /\ RerunInv /\ [WorkerNext]_vars => RerunInv'
  BY RerunStep
<1>2. RerunInv => RerunsAreBounded
  BY DEF RerunInv, RerunsAreBounded
<1> QED
  BY <1>1, <1>2, RerunInit, QueueIsExclusive, PTL DEF WorkerSpec

-----------------------------------------------------------------------------
(* Steps and the actions they ask for *)

\* A graph step other than a tool's leaves the ledger alone.
LEMMA GraphLeavesLedger ==
    ASSUME NEW w \in Threads, GraphStep(w), ~UseTool(w), ~InterruptGraph(w), ~ToolReturns(w),
           ~ToolBreaks(w)
    PROVE  UNCHANGED ledgerVars /\ graph[w].pc \notin {"interrupting", "idle"}
BY DEF GraphStep, Analyze, StartStep, Work, CheckTask, WaitForApproval, Checkpoint, Evaluate,
       Turn, FinishGraph, GraphRaises, GraphOnly

\* What a tool call does to its thread: it stays with its action, and returns as done
\* only what is settled.
LEMMA UseToolEffect ==
    ASSUME WorkerTypeOK, LedgerTypeOK, NEW w \in Threads, UseTool(w), ServesStep(w)
    PROVE  /\ UNCHANGED workerVars /\ graph[w].pc = "tool"
           /\ \A u \in Threads \ {w} : thread'[u] = thread[u]
           /\ ServesStep(w)'
<1>1. /\ thread \in [Threads -> ThreadState] /\ exec \in [Intents -> Execution]
      /\ graph[w].pc = "tool" /\ UNCHANGED <<graph, worker, task, step>> /\ UNCHANGED workerVars
  BY DEF UseTool, LedgerTypeOK, workerVars
<1>2. ThreadTypeOK
  BY DEF LedgerTypeOK, ThreadTypeOK
<1> DEFINE Own == \A u \in Threads \ {w} : thread'[u] = thread[u]
<1> SUFFICES Own /\ ServesStep(w)'
  BY <1>1
<1>3. ASSUME NEW i \in Wants[graph[w].step], Request(w, i, graph[w].resume)
      PROVE  Own /\ ServesStep(w)'
  BY <1>1, <1>3 DEF Request, ServesStep
<1>4. ASSUME NEW pc \in ThreadPC \ {"idle", "returned", "finishing"}, thread[w].pc # "idle",
             Goto(w, pc)
      PROVE  Own /\ ServesStep(w)'
  BY <1>1, <1>2, <1>4, GotoEffect DEF ServesStep
<1>5. ASSUME thread[w].pc # "idle", Done(w, "conflict")
      PROVE  Own /\ ServesStep(w)'
  BY <1>1, <1>5 DEF Done, ServesStep, ThreadState
<1>6. CASE ReadApproval(w)
  <2>1. PICK pc \in {"claiming", "parking"} :
          thread' = [thread EXCEPT ![w].pc = pc, ![w].read = approval[thread[w].intent]]
    BY <1>6 DEF ReadApproval
  <2> QED
    BY <1>1, <1>6, <2>1 DEF ReadApproval, ServesStep, ThreadState
<1>7. CASE PolicyRefuses(w)
  BY <1>5, <1>7 DEF PolicyRefuses
<1>8. CASE Claim(w)
  <2> DEFINE i == thread[w].intent
  <2>1. thread[w].pc # "idle" /\ i \in Intents
    BY <1>8 DEF Claim, LedgerTypeOK
  <2>2. ASSUME NEW r, Done(w, r), exec'[i].status \in Settled
        PROVE  Own /\ ServesStep(w)'
    BY <1>1, <2>1, <2>2 DEF Done, ServesStep, ThreadState
  <2>3. CASE exec[i].status \in Settled /\ UNCHANGED exec
             /\ Done(w, IF exec[i].status = "SUCCEEDED" THEN "success" ELSE "rejected")
    BY <2>2, <2>3
  <2>4. CASE Done(w, "conflict")
    BY <1>5, <2>1, <2>4
  <2>5. CASE /\ exec' = [exec EXCEPT ![i].status = "REJECTED", ![i].edited = approval[i].edited]
             /\ Done(w, "rejected")
    <3>1. exec'[i].status = "REJECTED"
      BY <1>1, <2>1, <2>5 DEF Execution
    <3> QED
      BY <2>2, <2>5, <3>1 DEF Settled
  <2>6. CASE Goto(w, "guarding")
    BY <1>4, <2>1, <2>6 DEF ThreadPC
  <2> QED
    BY <1>8, <2>3, <2>4, <2>5, <2>6 DEF Claim
<1>9. CASE Guard(w)
  <2>1. CASE Goto(w, "calling")
    BY <1>4, <1>9, <2>1 DEF Guard, ThreadPC
  <2>2. CASE thread' = [thread EXCEPT ![w].pc = "finishing", ![w].result = "failure"]
    BY <1>1, <1>9, <2>2 DEF Guard, ServesStep, ThreadState
  <2> QED
    BY <1>9, <2>1, <2>2 DEF Guard
<1>10. CASE Call(w)
  <2>1. PICK r \in {"success", "failure"} :
          thread' = [thread EXCEPT ![w].pc = "finishing", ![w].result = r]
    BY <1>10 DEF Call
  <2> QED
    BY <1>1, <1>10, <2>1 DEF Call, ServesStep, ThreadState
<1>11. CASE Finish(w)
  <2> DEFINE i == thread[w].intent
  <2>1. thread[w].pc = "finishing" /\ i \in Intents
    BY <1>11 DEF Finish, LedgerTypeOK
  <2>2. CASE exec[i].status = "RUNNING"
    <3>1. /\ Goto(w, "returned")
          /\ exec' = [exec EXCEPT ![i].status =
                        IF thread[w].result = "success" THEN "SUCCEEDED" ELSE "FAILED"]
      BY <1>11, <2>2 DEF Finish
    <3>2. thread[w].result = "success" => exec'[i].status \in Settled
      BY <1>1, <2>1, <3>1 DEF Execution, Settled
    <3>3. /\ thread'[w].pc = "returned" /\ thread'[w].intent = i
          /\ thread'[w].result = thread[w].result /\ Own
      BY <1>2, <3>1, GotoEffect DEF ThreadPC
    <3> QED
      BY <1>1, <2>1, <3>2, <3>3 DEF ServesStep
  <2>3. CASE exec[i].status # "RUNNING"
    BY <1>5, <1>11, <2>1, <2>3 DEF Finish
  <2> QED
    BY <2>2, <2>3
<1> QED
  BY <1>3, <1>6, <1>7, <1>8, <1>9, <1>10, <1>11 DEF UseTool

\* A thread goes on serving its step, if its graph stays inside the step.
LEMMA ServesKept ==
    ASSUME LedgerTypeOK, ForwardStep, NEW w \in Threads, ServesStep(w),
           thread'[w] = thread[w],
           \/ thread[w].pc = "idle"
           \/ /\ graph'[w].pc \in {"tool", "waiting", "interrupting"}
              /\ graph'[w].step = graph[w].step,
           graph'[w].pc = "working" => Wants[graph'[w].step] = {}
    PROVE  ServesStep(w)'
<1>1. ASSUME thread[w].pc # "idle", exec[thread[w].intent].status \in Settled
      PROVE  exec'[thread[w].intent].status \in Settled
  BY <1>1 DEF LedgerTypeOK, ForwardStep
<1> QED
  BY <1>1 DEF ServesStep

\* No thread is busy at first.
LEMMA ServesInit == WorkerInit => ThreadsServeSteps
BY DEF WorkerInit, LedgerInit, ThreadsServeSteps, ServesStep, NoGraph, Idle

\* The graph's own steps.
LEMMA ServesGraph ==
    ASSUME WorkerTypeOK, LedgerTypeOK, ForwardStep, NEW w \in Threads, ServesStep(w),
           GraphStep(w)
    PROVE  ServesStep(w)' /\ \A u \in Threads \ {w} : thread'[u] = thread[u]
<1>1. /\ graph \in [Threads -> GraphThread] /\ worker \in [Threads -> Delivery]
      /\ thread \in [Threads -> ThreadState]
  BY DEF WorkerTypeOK, RunTypeOK, LedgerTypeOK
<1>2. CASE UseTool(w)
  BY <1>2, UseToolEffect
<1>3. CASE InterruptGraph(w)
  <2>1. graph'[w].pc = "tool" /\ graph'[w].step = graph[w].step
    BY <1>1, <1>3, MoveEffect DEF InterruptGraph
  <2>2. Interrupt(w)
    BY <1>3 DEF InterruptGraph
  <2>3. PICK r \in {"interrupt", "conflict", "claim"} :
          IF r = "claim" THEN Goto(w, "claiming") ELSE Done(w, r)
    BY <2>2 DEF Interrupt
  <2>4. /\ \A u \in Threads \ {w} : thread'[u] = thread[u]
        /\ thread'[w].intent = thread[w].intent
        /\ thread'[w].pc = IF r = "claim" THEN "claiming" ELSE "returned"
        /\ r # "claim" => thread'[w].result = r
    BY <1>1, <2>3 DEF Goto, Done, ThreadState
  <2>5. thread[w].pc # "idle"
    BY <2>2 DEF Interrupt
  <2> QED
    BY <2>1, <2>4, <2>5 DEF ServesStep
<1>4. CASE ToolReturns(w) \/ ToolBreaks(w)
  <2>1. /\ \A u \in Threads \ {w} : thread'[u] = thread[u]
        /\ thread'[w].pc = "idle"
    BY <1>1, <1>4 DEF ToolReturns, ToolBreaks, Return, Abandon, Die, Idle, ledgerVars
  <2>2. graph'[w].pc \in {"idle", "checkpointing"}
    BY <1>1, <1>4 DEF ToolReturns, ToolBreaks, Leave, NoGraph, GraphThread
  <2> QED
    BY <2>1, <2>2 DEF ServesStep
<1>5. CASE CheckTask(w) \/ WaitForApproval(w)
  <2>1. /\ graph'[w].pc \in {"waiting", "interrupting"} /\ graph'[w].step = graph[w].step
        /\ UNCHANGED thread
    BY <1>1, <1>5, MoveEffect DEF CheckTask, WaitForApproval, GraphOnly, ledgerVars
  <2> QED
    BY <2>1, ServesKept
<1>6. CASE ~UseTool(w) /\ ~InterruptGraph(w) /\ ~ToolReturns(w) /\ ~ToolBreaks(w)
           /\ ~CheckTask(w) /\ ~WaitForApproval(w)
  <2>1. UNCHANGED thread
    BY <1>6, GraphLeavesLedger DEF ledgerVars
  <2>2. graph[w].pc \notin {"tool", "waiting", "interrupting"}
    BY <1>6 DEF GraphStep, Analyze, StartStep, Work, Checkpoint, Evaluate, Turn, FinishGraph,
                GraphRaises
  <2>3. thread[w].pc = "idle"
    BY <2>2 DEF ServesStep
  <2>4. graph'[w].pc = "working" => Wants[graph'[w].step] = {}
    <3>1. CASE StartStep(w)
      <4>1. \/ Move(w, "finishing")
            \/ Move(w, IF Wants[graph[w].step] = {} THEN "working" ELSE "tool")
        BY <3>1 DEF StartStep
      <4> QED
        BY <1>1, <4>1, MoveEffect
    <3>2. CASE Analyze(w) \/ Checkpoint(w) \/ Turn(w)
      <4>1. PICK pc \in {"finishing", "starting", "evaluating"} : Move(w, pc)
        BY <3>2 DEF Analyze, Checkpoint, Turn
      <4> QED
        BY <1>1, <4>1, MoveEffect
    <3>3. CASE Work(w) \/ Evaluate(w)
      BY <1>1, <3>3 DEF Work, Evaluate, Move, GraphThread
    <3>4. CASE FinishGraph(w) \/ GraphRaises(w)
      BY <1>1, <3>4 DEF FinishGraph, GraphRaises, Leave, NoGraph
    <3> QED
      BY <1>6, <3>1, <3>2, <3>3, <3>4 DEF GraphStep
  <2> QED
    BY <2>1, <2>3, <2>4, ServesKept
<1> QED
  BY <1>2, <1>3, <1>4, <1>5, <1>6

\* Every step.
LEMMA ServesStepKept ==
    ASSUME WorkerTypeOK, LedgerInv, ThreadsServeSteps, [WorkerNext]_vars
    PROVE  ThreadsServeSteps'
<1>1. LedgerTypeOK /\ ForwardStep
  BY WorkerStepUsesLedger, LedgerForwardStep DEF LedgerInv
<1>2. ASSUME UNCHANGED <<thread, graph>> PROVE ThreadsServeSteps'
  BY <1>1, <1>2, ServesKept DEF ThreadsServeSteps, ServesStep
<1>3. CASE UNCHANGED vars
  BY <1>2, <1>3 DEF vars, workerVars, ledgerVars
<1>4. CASE ApiStep
  BY <1>2, <1>4, ApiEffect
<1>5. ASSUME NEW w \in Threads, Fetch(w) \/ DeliveryStep(w) PROVE ThreadsServeSteps'
  <2>1. UNCHANGED thread
    BY <1>5, DeliveryLeavesLedger DEF ledgerVars
  <2>2. CASE Ask(w)
    <3>1. thread[w].pc = "idle"
      BY <2>2, AskEffect DEF ThreadsServeSteps, ServesStep
    <3>2. /\ graph'[w].pc # "working"
          /\ \A u \in Threads \ {w} : graph'[u] = graph[u]
      BY <2>2, AskEffect
    <3> QED
      BY <1>1, <2>1, <3>1, <3>2, ServesKept DEF ThreadsServeSteps, ServesStep
  <2>3. CASE ~Ask(w)
    <3>1. UNCHANGED graph
      BY <1>5, <2>3 DEF Fetch, DeliveryStep, ClaimDelivery, Prepare, ReadOutcome, SettleTask,
                        SaveAnswer, Raise, HandleFailure, CloseJob
    <3> QED
      BY <1>2, <2>1, <3>1
  <2> QED
    BY <2>2, <2>3
<1>6. ASSUME NEW w \in Threads, GraphStep(w) PROVE ThreadsServeSteps'
  <2>1. /\ ServesStep(w)' /\ \A u \in Threads \ {w} : thread'[u] = thread[u]
        /\ \A u \in Threads \ {w} : graph'[u] = graph[u]
    BY <1>1, <1>6, ServesGraph, GraphEffect DEF ThreadsServeSteps
  <2>2. ASSUME NEW u \in Threads \ {w} PROVE ServesStep(u)'
    BY <1>1, <2>1, <2>2, ServesKept DEF ThreadsServeSteps, ServesStep
  <2> QED
    BY <2>1, <2>2 DEF ThreadsServeSteps
<1>7. ASSUME NEW w \in Threads, Timeout(w) PROVE ThreadsServeSteps'
  <2>1. UNCHANGED thread /\ \A u \in Threads : /\ graph'[u].pc = graph[u].pc
                                               /\ graph'[u].step = graph[u].step
    BY <1>7, TimeoutEffect DEF Timeout, ledgerVars
  <2> QED
    BY <1>1, <2>1, ServesKept DEF ThreadsServeSteps, ServesStep
<1>8. ASSUME NEW w \in Threads, Crash(w) PROVE ThreadsServeSteps'
  <2>1. /\ thread'[w].pc = "idle" /\ \A u \in Threads \ {w} : thread'[u] = thread[u]
    BY <1>1, <1>8 DEF Crash, Abandon, Die, Idle, ledgerVars, LedgerTypeOK
  <2>2. graph'[w].pc = "idle" /\ \A u \in Threads \ {w} : graph'[u] = graph[u]
    BY <1>8, CrashEffect DEF NoGraph, WorkerTypeOK, RunTypeOK
  <2>3. ASSUME NEW u \in Threads \ {w} PROVE ServesStep(u)'
    BY <1>1, <2>1, <2>2, <2>3, ServesKept DEF ThreadsServeSteps, ServesStep
  <2>4. ServesStep(w)'
    BY <2>1, <2>2 DEF ServesStep
  <2> QED
    BY <2>3, <2>4 DEF ThreadsServeSteps
<1>9. ASSUME NEW r \in Recoverers, RescueStep(r) \/ RescuerDies(r) PROVE ThreadsServeSteps'
  BY <1>2, <1>9, RescueEffect DEF ledgerVars
<1> QED
  BY <1>3, <1>4, <1>5, <1>6, <1>7, <1>8, <1>9 DEF WorkerNext

\* What the ledger's proofs say of it holds at every step of the task.
LEMMA TaskLedgerInv == WorkerSpec => []LedgerInv
BY TaskUsesLedger, Invariance, PTL DEF UsesLedger

\* A tool call serves the step its graph is at, and returns as done what was settled.
THEOREM TaskServesSteps == WorkerSpec => []ThreadsServeSteps
<1>1. WorkerTypeOK /\ LedgerInv /\ ThreadsServeSteps /\ [WorkerNext]_vars => ThreadsServeSteps'
  BY ServesStepKept
<1> QED
  BY <1>1, ServesInit, TaskLedgerInv, WorkerTypeCorrect, PTL DEF WorkerSpec

-----------------------------------------------------------------------------
(* Which step changes what *)

\* Only its own graph, its ask and its death change the graph of a process; a timeout
\* detaches it.
LEMMA GraphMoves ==
    ASSUME WorkerTypeOK, [WorkerNext]_vars, NEW w \in Threads
    PROVE  \/ /\ graph'[w].pc = graph[w].pc /\ graph'[w].step = graph[w].step
              /\ graph'[w].ok = graph[w].ok /\ graph'[w].goal = graph[w].goal
              /\ graph'[w] = graph[w] \/ (Timeout(w) /\ graph'[w].detached)
           \/ GraphStep(w)
           \/ Ask(w)
           \/ Crash(w) /\ graph'[w] = NoGraph
<1>1. graph \in [Threads -> GraphThread]
  BY DEF WorkerTypeOK, RunTypeOK
<1>2. CASE UNCHANGED vars
  BY <1>2 DEF vars, workerVars
<1>3. CASE ApiStep
  BY <1>3, ApiEffect
<1>4. ASSUME NEW u \in Threads, Fetch(u) \/ DeliveryStep(u)
      PROVE  Ask(w) \/ graph'[w] = graph[w]
  BY <1>4, AskEffect
     DEF Fetch, DeliveryStep, ClaimDelivery, Prepare, ReadOutcome, SettleTask, SaveAnswer,
         Raise, HandleFailure, CloseJob
<1>5. ASSUME NEW u \in Threads, GraphStep(u) PROVE GraphStep(w) \/ graph'[w] = graph[w]
  BY <1>5, GraphEffect
<1>6. ASSUME NEW u \in Threads, Timeout(u)
      PROVE  /\ graph'[w].pc = graph[w].pc /\ graph'[w].step = graph[w].step
             /\ graph'[w].ok = graph[w].ok /\ graph'[w].goal = graph[w].goal
             /\ graph'[w] = graph[w] \/ (Timeout(w) /\ graph'[w].detached)
  BY <1>6, TimeoutEffect
<1>7. ASSUME NEW u \in Threads, Crash(u)
      PROVE  graph'[w] = graph[w] \/ (Crash(w) /\ graph'[w] = NoGraph)
  BY <1>1, <1>7, CrashEffect
<1>8. ASSUME NEW r \in Recoverers, RescueStep(r) \/ RescuerDies(r) PROVE graph'[w] = graph[w]
  BY <1>8, RescueEffect
<1> QED
  BY <1>2, <1>3, <1>4, <1>5, <1>6, <1>7, <1>8 DEF WorkerNext

\* Only its own steps, and the end of its graph, move a worker.
LEMMA WorkerMoves ==
    ASSUME WorkerTypeOK, [WorkerNext]_vars, NEW w \in Threads
    PROVE  \/ worker'[w] = worker[w]
           \/ Fetch(w) \/ DeliveryStep(w) \/ (GraphStep(w) /\ GraphEnds(w)) \/ Timeout(w)
           \/ Crash(w) /\ worker'[w] = Idler
<1>1. worker \in [Threads -> Delivery]
  BY DEF WorkerTypeOK, RunTypeOK
<1>2. CASE UNCHANGED vars
  BY <1>2 DEF vars, workerVars
<1>3. CASE ApiStep
  BY <1>3, ApiEffect
<1>4. ASSUME NEW u \in Threads, Fetch(u) \/ DeliveryStep(u), u # w
      PROVE  worker'[w] = worker[w]
  <2>1. CASE Fetch(u)
    BY <1>4, <2>1, FetchEffect
  <2>2. CASE CloseJob(u)
    BY <1>1, <1>4, <2>2 DEF CloseJob
  <2>3. CASE DeliveryStep(u) /\ ~CloseJob(u)
    <3>1. OnlyMoves(u)
      BY <2>3, ClaimDeliveryEffect, PrepareEffect, AskEffect, ReadOutcomeEffect,
         SettleTaskEffect, SaveAnswerEffect, RaiseEffect, HandleFailureEffect
         DEF DeliveryStep
    <3> QED
      BY <1>4, <3>1 DEF OnlyMoves
  <2> QED
    BY <1>4, <2>1, <2>2, <2>3
<1>5. ASSUME NEW u \in Threads, GraphStep(u)
      PROVE  worker'[w] = worker[w] \/ (GraphStep(w) /\ GraphEnds(w))
  BY <1>5, GraphEffect DEF GraphGoesOn, GraphEnds, OnlyMoves
<1>6. ASSUME NEW u \in Threads, Timeout(u) PROVE Timeout(w) \/ worker'[w] = worker[w]
  BY <1>6, TimeoutEffect DEF OnlyMoves
<1>7. ASSUME NEW u \in Threads, Crash(u)
      PROVE  worker'[w] = worker[w] \/ (Crash(w) /\ worker'[w] = Idler)
  BY <1>1, <1>7, CrashEffect
<1>8. ASSUME NEW r \in Recoverers, RescueStep(r) \/ RescuerDies(r) PROVE worker'[w] = worker[w]
  BY <1>8, RescueEffect
<1> QED
  BY <1>2, <1>3, <1>4, <1>5, <1>6, <1>7, <1>8 DEF WorkerNext

\* What a graph writes about a step of the plan.
StepWritten(w, s) ==
    \/ step'[s] = step[s]
    \/ /\ graph[w].pc = "analyzing"
       /\ step[s].status = "ABSENT" /\ step'[s].status = "PENDING"
    \/ /\ graph[w].pc = "starting" /\ s = graph[w].step
       /\ step[s].status # "COMPLETED" /\ step'[s].status = "RUNNING"
    \/ /\ graph[w].pc = "waiting" /\ s = graph[w].step
       /\ step'[s].status = "WAITING_USER"
    \/ /\ graph[w].pc = "checkpointing" /\ s = graph[w].step
       /\ step[s].status # "COMPLETED"
       /\ step'[s].status = IF graph[w].ok THEN "COMPLETED" ELSE "FAILED"

\* A graph writes no other steps.
LEMMA StepEffect ==
    ASSUME WorkerTypeOK, NEW w \in Threads, GraphStep(w), NEW s \in 1..N
    PROVE  StepWritten(w, s)
<1>1. step \in [1..N -> StepRow] /\ step[s] \in StepRow
  BY DEF WorkerTypeOK, RowsTypeOK
<1>2. CASE Analyze(w)
  BY <1>1, <1>2 DEF Analyze, StepWritten, StepRow
<1>3. CASE StartStep(w)
  BY <1>1, <1>3 DEF StartStep, StepWritten, StepRow
<1>4. CASE WaitForApproval(w)
  BY <1>1, <1>4 DEF WaitForApproval, StepWritten, StepRow
<1>5. CASE Checkpoint(w)
  <2>1. PICK c : /\ step' = [step EXCEPT ![graph[w].step].status = c]
                 /\ c = IF step[graph[w].step].status = "COMPLETED" \/ graph[w].ok
                        THEN "COMPLETED" ELSE "FAILED"
    BY <1>5 DEF Checkpoint
  <2>2. CASE s # graph[w].step
    BY <1>1, <2>1, <2>2 DEF StepWritten
  <2>3. CASE s = graph[w].step /\ step[s].status = "COMPLETED"
    BY <1>1, <2>1, <2>3 DEF StepWritten, StepRow
  <2>4. CASE s = graph[w].step /\ step[s].status # "COMPLETED"
    BY <1>1, <1>5, <2>1, <2>4 DEF Checkpoint, StepWritten, StepRow
  <2> QED
    BY <2>2, <2>3, <2>4
<1>6. CASE step' = step
  BY <1>6 DEF StepWritten
<1> QED
  BY <1>2, <1>3, <1>4, <1>5, <1>6
     DEF GraphStep, Work, UseTool, CheckTask, InterruptGraph, ToolReturns, ToolBreaks,
         Evaluate, Turn, FinishGraph, GraphRaises, workerVars

\* And no one else writes any.
LEMMA StepMoves ==
    ASSUME WorkerTypeOK, [WorkerNext]_vars, NEW s \in 1..N
    PROVE  step'[s] = step[s] \/ \E w \in Threads : GraphStep(w) /\ StepWritten(w, s)
<1>1. CASE \E w \in Threads : GraphStep(w)
  BY <1>1, StepEffect
<1>2. CASE \A w \in Threads : ~GraphStep(w)
  BY <1>2, ApiEffect, RescueEffect
     DEF WorkerNext, vars, workerVars, Fetch, DeliveryStep, ClaimDelivery, Prepare, Ask,
         ReadOutcome, SettleTask, SaveAnswer, Raise, HandleFailure, CloseJob, Timeout, Crash
<1> QED
  BY <1>1, <1>2

\* A stored plan is not unstored.
LEMMA PlannedStays ==
    ASSUME WorkerTypeOK, [WorkerNext]_vars, Planned
    PROVE  Planned'
BY StepMoves DEF Planned, StepWritten

\* Rows of the ledger change by a tool call of their step, or when they exist already.
LEMMA RowsMove ==
    ASSUME WorkerTypeOK, LedgerInv, ThreadsServeSteps, [WorkerNext]_vars, NEW i \in Intents,
           exec'[i] # exec[i] \/ approval'[i] # approval[i]
    PROVE  \/ exec[i].status # "NONE" /\ approval[i].status # "NONE"
           \/ \E w \in Threads : graph[w].pc = "tool" /\ i \in Wants[graph[w].step]
<1>1. /\ exec \in [Intents -> Execution] /\ approval \in [Intents -> Approval]
      /\ RowAgrees(i)
  BY DEF LedgerInv, LedgerTypeOK, RowsAgree
<1>2. ASSUME NEW w \in Threads, UseTool(w)
      PROVE  \E u \in Threads : graph[u].pc = "tool" /\ i \in Wants[graph[u].step]
  <2>1. graph[w].pc = "tool"
    BY <1>2 DEF UseTool
  <2>2. thread[w].pc # "idle" => thread[w].intent \in Wants[graph[w].step]
    BY DEF ThreadsServeSteps, ServesStep
  <2>3. ASSUME NEW k \in Wants[graph[w].step], Request(w, k, graph[w].resume)
        PROVE  i = k
    BY <1>1, <2>3 DEF Request
  <2>4. ASSUME Claim(w) PROVE i = thread[w].intent /\ thread[w].pc # "idle"
    BY <1>1, <2>4 DEF Claim, Consume
  <2>5. ASSUME Finish(w) PROVE i = thread[w].intent /\ thread[w].pc # "idle"
    BY <1>1, <2>5 DEF Finish
  <2>6. \/ \E k \in Wants[graph[w].step] : Request(w, k, graph[w].resume)
        \/ Claim(w) \/ Finish(w)
    BY <1>2 DEF UseTool, ReadApproval, PolicyRefuses, Guard, Call
  <2> QED
    BY <2>1, <2>2, <2>3, <2>4, <2>5, <2>6
<1>3. CASE CancelApprovals
  <2>1. Undone(i)
    BY <1>1, <1>3 DEF CancelApprovals, CancelPending
  <2>2. exec[i].status = "WAITING_APPROVAL"
    BY <2>1, UndoneIsWaiting
  <2> QED
    BY <2>1, <2>2 DEF Undone
<1>4. ASSUME NEW d \in {"APPROVED", "EDITED", "REJECTED"}, StoreDecision(d)
      PROVE  exec[i].status # "NONE" /\ approval[i].status # "NONE"
  <2>1. i = office.about /\ Decide(i, d)
    BY <1>1, <1>4 DEF StoreDecision, Decide, ledgerVars
  <2>2. i \in Sensitive
    BY <1>4, <2>1 DEF StoreDecision, WorkerTypeOK, SideTypeOK
  <2> QED
    BY <1>1, <2>1, <2>2 DEF Decide, RowAgrees
<1>5. ASSUME NEW w \in Threads, GraphStep(w) PROVE UseTool(w)
  <2>1. ASSUME InterruptGraph(w) \/ ToolReturns(w) \/ ToolBreaks(w) PROVE FALSE
    BY <2>1 DEF InterruptGraph, ToolReturns, ToolBreaks, Interrupt, Return, Abandon, Die,
                ledgerVars
  <2> QED
    BY <1>5, <2>1, GraphLeavesLedger DEF ledgerVars
<1>6. ASSUME NEW w \in Threads, Fetch(w) \/ DeliveryStep(w) \/ Timeout(w) PROVE FALSE
  BY <1>6, DeliveryLeavesLedger DEF ledgerVars
<1>7. ASSUME NEW w \in Threads, Crash(w) PROVE FALSE
  BY <1>7 DEF Crash, Abandon, Die, ledgerVars
<1>8. ASSUME NEW r \in Recoverers, RescueStep(r) \/ RescuerDies(r) PROVE FALSE
  BY <1>8, RescueLeavesLedger DEF ledgerVars
<1>9. CASE UNCHANGED vars
  BY <1>9 DEF vars, ledgerVars
<1>10. CASE ApiStep
  BY <1>3, <1>4, <1>10
     DEF ApiStep, RunTask, ResumeTask, PauseTask, CancelTask, ReviewTask, ResumeDecided,
         ledgerVars
<1> QED
  BY <1>2, <1>5, <1>6, <1>7, <1>8, <1>9, <1>10 DEF WorkerNext

-----------------------------------------------------------------------------
(* The plan comes first, and what it completes was settled *)

\* An action becomes known as the action of a step.
LEMMA WantedStep ==
    ASSUME WorkerTypeOK, LedgerInv, ThreadsServeSteps, ActionsAreWanted, [WorkerNext]_vars
    PROVE  ActionsAreWanted'
<1>1. ASSUME NEW i \in Intents, exec'[i].status # "NONE" PROVE \E s \in 1..N : i \in Wants[s]
  <2>1. CASE exec[i].status # "NONE"
    BY <2>1 DEF ActionsAreWanted
  <2>2. CASE exec[i].status = "NONE"
    <3>1. PICK w \in Threads : graph[w].pc = "tool" /\ i \in Wants[graph[w].step]
      BY <1>1, <2>2, RowsMove
    <3>2. graph[w].step \in 1..N
      BY <3>1 DEF WorkerTypeOK, RunTypeOK
    <3> QED
      BY <3>1, <3>2
  <2> QED
    BY <2>1, <2>2
<1> QED
  BY <1>1 DEF ActionsAreWanted

\* A graph enters a step from its plan, or where a decision interrupted it.
LEMMA GraphEnters ==
    ASSUME WorkerTypeOK, [WorkerNext]_vars, NEW w \in Threads,
           graph[w].pc \in {"idle", "analyzing", "finishing"},
           graph'[w].pc \notin {"idle", "analyzing", "finishing"}
    PROVE  \/ worker[w].pc = "asking" /\ worker[w].resume # NoIntent
           \/ Planned'
<1>1. graph \in [Threads -> GraphThread] /\ step \in [1..N -> StepRow]
  BY DEF WorkerTypeOK, RunTypeOK, RowsTypeOK
<1>2. GraphStep(w) \/ Ask(w)
  BY GraphMoves DEF NoGraph
<1>3. CASE Ask(w)
  BY <1>3, AskEffect
<1>4. CASE Analyze(w)
  <2>1. ~Move(w, "finishing")
    BY <1>1, MoveEffect
  <2>2. step' = [s \in 1..N |-> IF step[s].status = "ABSENT"
                                THEN [step[s] EXCEPT !.status = "PENDING"] ELSE step[s]]
    BY <1>4, <2>1 DEF Analyze
  <2>3. \A s \in 1..N : step'[s].status # "ABSENT"
    BY <1>1, <2>2 DEF StepRow
  <2> QED
    BY <2>3 DEF Planned
<1>5. CASE FinishGraph(w) \/ GraphRaises(w)
  BY <1>1, <1>5 DEF FinishGraph, GraphRaises, Leave, NoGraph
<1> QED
  BY <1>2, <1>3, <1>4, <1>5
     DEF GraphStep, StartStep, Work, UseTool, CheckTask, WaitForApproval, InterruptGraph,
         ToolReturns, ToolBreaks, Checkpoint, Evaluate, Turn

\* The plan is there before approvals, steps and resumptions.
LEMMA PlanStep ==
    ASSUME WorkerTypeOK, LedgerInv, ThreadsServeSteps, PlanIsFirst, [WorkerNext]_vars
    PROVE  PlanIsFirst'
<1>1. Planned => Planned'
  BY PlannedStays
<1>2. ASSUME NEW i \in Sensitive, approval'[i].status # "NONE" PROVE Planned'
  <2>1. CASE approval[i].status # "NONE"
    BY <1>1, <2>1 DEF PlanIsFirst
  <2>2. CASE approval[i].status = "NONE"
    <3>1. i \in Intents
      OBVIOUS
    <3>2. PICK w \in Threads : graph[w].pc = "tool"
      BY <1>2, <2>2, <3>1, RowsMove
    <3> QED
      BY <1>1, <3>2 DEF PlanIsFirst
  <2> QED
    BY <2>1, <2>2
<1>3. ASSUME NEW w \in Threads, graph'[w].pc \notin {"idle", "analyzing", "finishing"}
      PROVE  Planned'
  <2>1. CASE graph[w].pc \in {"idle", "analyzing", "finishing"}
    BY <1>1, <1>3, <2>1, GraphEnters DEF PlanIsFirst
  <2>2. CASE graph[w].pc \notin {"idle", "analyzing", "finishing"}
    BY <1>1, <2>2 DEF PlanIsFirst
  <2> QED
    BY <2>1, <2>2
<1>4. ASSUME NEW w \in Threads, worker'[w].pc = "asking", worker'[w].resume # NoIntent
      PROVE  Planned'
  <2>1. CASE worker'[w] = worker[w]
    BY <1>1, <1>4, <2>1 DEF PlanIsFirst
  <2>2. CASE Prepare(w)
    <3>1. worker'[w].resume \in Outstanding
      BY <1>4, <2>2, PrepareEffect
    <3> QED
      BY <1>1, <3>1 DEF Outstanding, PlanIsFirst
  <2>3. ASSUME DeliveryStep(w), ~Prepare(w) PROVE FALSE
    <3>1. CASE CloseJob(w)
      BY <1>4, <3>1 DEF CloseJob, Idler, WorkerTypeOK, RunTypeOK
    <3> QED
      BY <1>4, <2>3, <3>1, ClaimDeliveryEffect, AskEffect, ReadOutcomeEffect,
         SettleTaskEffect, SaveAnswerEffect, RaiseEffect, HandleFailureEffect
         DEF DeliveryStep
  <2>4. ASSUME Fetch(w) \/ Timeout(w) \/ GraphEnds(w) \/ worker'[w] = Idler,
               worker'[w] # worker[w]
        PROVE  FALSE
    <3>1. worker[w] \in Delivery
      BY DEF WorkerTypeOK, RunTypeOK
    <3> QED
      BY <1>4, <2>4, <3>1, FetchEffect, TimeoutEffect DEF GraphEnds, Idler
  <2> QED
    BY <1>4, <2>1, <2>2, <2>3, <2>4, WorkerMoves
<1> QED
  BY <1>2, <1>3, <1>4 DEF PlanIsFirst

\* What is settled of a step stays settled.
LEMMA SettledStays ==
    ASSUME ForwardStep, NEW s, SettledStep(s)
    PROVE  SettledStep(s)'
BY DEF ForwardStep, SettledStep

\* A graph that checkpoints a success has a step whose action was settled.
LEMMA SuccessIsSettled ==
    ASSUME StepsAskForOne, WorkerTypeOK, LedgerInv, ThreadsServeSteps, NEW w \in Threads,
           GraphStep(w), graph'[w].pc = "checkpointing", graph'[w].ok
    PROVE  graph'[w].step = graph[w].step /\ SettledStep(graph[w].step)
<1>1. /\ graph[w] \in GraphThread /\ graph \in [Threads -> GraphThread]
      /\ ServesStep(w) /\ LedgerTypeOK
  BY DEF WorkerTypeOK, RunTypeOK, ThreadsServeSteps, LedgerInv
<1>2. CASE Work(w)
  <2>1. graph'[w].step = graph[w].step
    BY <1>1, <1>2 DEF Work, GraphThread
  <2> QED
    BY <1>1, <1>2, <2>1 DEF Work, ServesStep, SettledStep
<1>3. CASE ToolReturns(w)
  <2> DEFINE r == thread[w].result
  <2>1. r # "interrupt"
    BY <1>1, <1>3 DEF ToolReturns, Leave, NoGraph
  <2>2. graph' = [graph EXCEPT ![w].pc = "checkpointing", ![w].resume = NoIntent,
                               ![w].ok = r \in {"success", "rejected"}]
    BY <1>3, <2>1 DEF ToolReturns
  <2>3. graph'[w].step = graph[w].step /\ r \in {"success", "rejected"}
    BY <1>1, <2>2 DEF GraphThread
  <2>4. thread[w].pc = "returned" /\ thread[w].intent \in Wants[graph[w].step]
    BY <1>1, <1>3 DEF ToolReturns, Return, ServesStep
  <2>5. graph[w].step \in 1..N
    BY <1>3 DEF ToolReturns, WorkerTypeOK, RunTypeOK
  <2>6. ASSUME NEW i \in Wants[graph[w].step] \intersect Sensitive
        PROVE  exec[i].status \in Settled
    <3>1. thread[w].intent = i
      BY <2>4, <2>5, <2>6 DEF StepsAskForOne
    <3> QED
      BY <1>1, <2>3, <2>4, <2>6, <3>1 DEF ServesStep
  <2> QED
    BY <2>3, <2>6 DEF SettledStep
<1>4. CASE ToolBreaks(w)
  BY <1>1, <1>4 DEF ToolBreaks, GraphThread
<1>5. CASE UseTool(w)
  BY <1>5 DEF UseTool, workerVars
<1>6. CASE \/ Analyze(w) \/ StartStep(w) \/ CheckTask(w) \/ WaitForApproval(w)
           \/ InterruptGraph(w) \/ Checkpoint(w) \/ Turn(w)
  <2>1. PICK pc : Move(w, pc) /\ pc # "checkpointing"
    BY <1>6 DEF Analyze, StartStep, CheckTask, WaitForApproval, InterruptGraph,
                Checkpoint, Turn
  <2> QED
    BY <1>1, <2>1, MoveEffect
<1>7. CASE Evaluate(w)
  BY <1>1, <1>7 DEF Evaluate, Move, GraphThread
<1>8. CASE FinishGraph(w) \/ GraphRaises(w)
  BY <1>1, <1>8 DEF FinishGraph, GraphRaises, Leave, NoGraph
<1> QED
  BY <1>2, <1>3, <1>4, <1>5, <1>6, <1>7, <1>8 DEF GraphStep

\* A step is completed after its action was settled.
LEMMA SettleStep ==
    ASSUME StepsAskForOne, WorkerTypeOK, LedgerInv, ThreadsServeSteps, StepsAreSettled,
           [WorkerNext]_vars
    PROVE  StepsAreSettled'
<1>1. ForwardStep
  BY WorkerStepUsesLedger, LedgerForwardStep
<1>2. ASSUME NEW w \in Threads, graph'[w].pc = "checkpointing", graph'[w].ok
      PROVE  SettledStep(graph[w].step)'
  <2>1. CASE GraphStep(w)
    <3>1. graph'[w].step = graph[w].step /\ SettledStep(graph[w].step)
      BY <1>2, <2>1, SuccessIsSettled
    <3> QED
      BY <1>1, <3>1, SettledStays DEF SettledStep
  <2>2. ASSUME graph'[w].pc = graph[w].pc, graph'[w].step = graph[w].step,
               graph'[w].ok = graph[w].ok
        PROVE  SettledStep(graph[w].step)'
    <3>1. SettledStep(graph[w].step)
      BY <1>2, <2>2 DEF StepsAreSettled
    <3> QED
      BY <1>1, <2>2, <3>1, SettledStays DEF SettledStep
  <2>3. ~Ask(w) /\ graph'[w] # NoGraph
    BY <1>2, AskEffect DEF NoGraph
  <2> QED
    BY <2>1, <2>2, <2>3, GraphMoves
<1>3. ASSUME NEW s \in 1..N, step'[s].status = "COMPLETED" PROVE SettledStep(s)'
  <2>1. CASE step'[s] = step[s]
    BY <1>1, <1>3, <2>1, SettledStays DEF StepsAreSettled
  <2>2. ASSUME NEW w \in Threads, step'[s] # step[s], StepWritten(w, s)
        PROVE  SettledStep(s)'
    <3>1. graph[w].pc = "checkpointing" /\ graph[w].ok /\ graph[w].step = s
      BY <1>3, <2>2 DEF StepWritten
    <3>2. SettledStep(s)
      BY <3>1 DEF StepsAreSettled
    <3> QED
      BY <1>1, <3>2, SettledStays
  <2> QED
    BY <2>1, <2>2, StepMoves
<1> QED
  BY <1>2, <1>3 DEF StepsAreSettled

\* Neither plan nor action at first.
LEMMA PlanInit == WorkerInit => ActionsAreWanted /\ PlanIsFirst /\ StepsAreSettled
BY DEF WorkerInit, LedgerInit, ActionsAreWanted, PlanIsFirst, StepsAreSettled, NoGraph,
       Idler, NoApproval

\* Every external action known to the ledger belongs to a step of the stored plan, so
\* that an ask that resumes its decision finds the step.
THEOREM TaskPlansFirst == WorkerSpec => [](ActionsAreWanted /\ PlanIsFirst)
<1>1. /\ WorkerTypeOK /\ LedgerInv /\ ThreadsServeSteps /\ ActionsAreWanted /\ PlanIsFirst
      /\ [WorkerNext]_vars
      => ActionsAreWanted' /\ PlanIsFirst'
  BY WantedStep, PlanStep
<1> QED
  BY <1>1, PlanInit, TaskServesSteps, TaskLedgerInv, WorkerTypeCorrect, PTL DEF WorkerSpec

\* A step is completed only after its external action was settled, whoever checkpoints it.
THEOREM TaskSettlesSteps ==
    ASSUME StepsAskForOne
    PROVE  WorkerSpec => []StepsAreSettled
<1>1. /\ WorkerTypeOK /\ LedgerInv /\ ThreadsServeSteps /\ StepsAreSettled
      /\ [WorkerNext]_vars
      => StepsAreSettled'
  BY SettleStep
<1> QED
  BY <1>1, PlanInit, TaskServesSteps, TaskLedgerInv, WorkerTypeCorrect, PTL DEF WorkerSpec

-----------------------------------------------------------------------------
(* Which step moves the task *)

\* The API queues a task at rest, or settles one that no worker runs.
ApiMoves ==
    \/ /\ task.status \in Resumable \union {"PENDING"} /\ ~task.cancel
       /\ task'.status = "QUEUED" /\ task'.job = task.job + 1
    \/ /\ task.status \notin Terminal \union {"RUNNING"}
       /\ \/ task'.status = "CANCELLED" /\ task'.cancel
          \/ task'.status = "PAUSED"

\* The graph makes the task wait, or settles it at a boundary.
GraphTurns(w) ==
    \/ /\ graph[w].pc = "analyzing" /\ graph'[w].pc = "finishing"
       /\ task.status = "RUNNING" /\ task'.status = "WAITING_USER"
    \/ WaitForApproval(w) /\ task'.status = "WAITING_USER"
    \/ /\ graph[w].pc = "turning" /\ graph'[w].pc = "finishing"
       /\ graph[w].goal \in {"FAILED", "PAUSED", "CANCELLED"}
       /\ task.status \in Legal(graph[w].goal) /\ task'.status = graph[w].goal

\* What a request does to the status.
LEMMA ApiStatus ==
    ASSUME WorkerTypeOK, ApiStep, task'.status # task.status
    PROVE  ApiMoves
<1>1. task \in TaskRow
  BY DEF WorkerTypeOK, RowsTypeOK
<1>2. ASSUME NEW from, Enqueue(from), from = {"PENDING"} \/ from = Resumable PROVE ApiMoves
  BY <1>1, <1>2 DEF Enqueue, MayEnqueue, TaskRow, ApiMoves, Resumable
<1>3. ASSUME NEW cancel \in BOOLEAN, RequestControl(cancel) PROVE ApiMoves
  <2>1. task.status \notin Terminal
    BY <1>3 DEF RequestControl
  <2>2. task.status # "RUNNING"
    BY <1>1, <1>3 DEF RequestControl, TaskRow
  <2>3. /\ task'.status = IF cancel THEN "CANCELLED" ELSE "PAUSED"
        /\ task'.cancel = (task.cancel \/ cancel)
    BY <1>1, <1>3, <2>2 DEF RequestControl, TaskRow
  <2> QED
    BY <2>1, <2>2, <2>3 DEF ApiMoves
<1> QED
  BY <1>2, <1>3 DEF ApiStep, RunTask, ResumeTask, PauseTask, CancelApprovals, CancelTask,
                    ReviewTask, StoreDecision, ResumeDecided

\* What a graph does to it.
LEMMA GraphStatus ==
    ASSUME WorkerTypeOK, NEW w \in Threads, GraphStep(w), task'.status # task.status
    PROVE  GraphTurns(w)
<1>1. task \in TaskRow /\ graph \in [Threads -> GraphThread]
  BY DEF WorkerTypeOK, RowsTypeOK, RunTypeOK
<1>2. CASE Analyze(w)
  <2>1. /\ task.status \in Legal("WAITING_USER") /\ Move(w, "finishing")
        /\ task' = [task EXCEPT !.status = "WAITING_USER"]
    BY <1>2 DEF Analyze
  <2> QED
    BY <1>1, <1>2, <2>1, MoveEffect DEF Analyze, GraphTurns, Legal, TaskRow
<1>3. CASE WaitForApproval(w)
  BY <1>1, <1>3 DEF WaitForApproval, GraphTurns, TaskRow
<1>4. CASE Turn(w)
  <2>1. graph[w].goal \in {"NONE", "FAILED", "PAUSED", "CANCELLED"}
    BY <1>1 DEF GraphThread
  <2>2. graph[w].goal # "NONE"
    BY <1>4 DEF Turn, Legal
  <2>3. graph'[w].pc = "finishing"
    BY <1>1, <1>4, MoveEffect DEF Turn
  <2> QED
    BY <1>1, <1>4, <2>1, <2>2, <2>3 DEF Turn, GraphTurns, TaskRow
<1>5. CASE StartStep(w)
  BY <1>1, <1>5 DEF StartStep, TaskRow
<1> QED
  BY <1>2, <1>3, <1>4, <1>5
     DEF GraphStep, Work, UseTool, CheckTask, InterruptGraph, ToolReturns, ToolBreaks,
         Checkpoint, Evaluate, FinishGraph, GraphRaises, workerVars

\* Every move of the task's status is one of these.
LEMMA StatusMoves ==
    ASSUME WorkerTypeOK, [WorkerNext]_vars, task'.status # task.status
    PROVE  \/ ApiMoves /\ ApiStep
           \/ \E w \in Threads : ClaimDelivery(w) \/ SettleTask(w) \/ HandleFailure(w)
           \/ \E w \in Threads : GraphStep(w) /\ GraphTurns(w)
           \/ \E r \in Recoverers : Recover(r)
<1>1. CASE ApiStep
  BY <1>1, ApiStatus
<1>2. ASSUME NEW w \in Threads, GraphStep(w) PROVE GraphTurns(w)
  BY <1>2, GraphStatus
<1>3. CASE ~ApiStep /\ ~\E w \in Threads : GraphStep(w)
  BY <1>3 DEF WorkerNext, vars, workerVars, Fetch, DeliveryStep, Prepare, Ask, ReadOutcome,
              SaveAnswer, Raise, CloseJob, Timeout, Crash, RescueStep, ListStalled,
              RecoverJob, RescuerDies
<1> QED
  BY <1>1, <1>2, <1>3

\* A task starts to run when a delivery claims it.
LEMMA StartsRunning ==
    ASSUME WorkerTypeOK, [WorkerNext]_vars, task.status # "RUNNING", task'.status = "RUNNING"
    PROVE  \E w \in Threads : /\ ClaimDelivery(w) /\ worker[w].pc = "claiming"
                              /\ worker'[w].pc = "preparing"
<1>1. ~ApiMoves /\ \A w \in Threads : ~GraphTurns(w)
  BY DEF ApiMoves, GraphTurns
<1>2. ASSUME NEW w \in Threads, SettleTask(w) PROVE FALSE
  <2>1. worker[w].goal # "RUNNING"
    BY DEF WorkerTypeOK, RunTypeOK, Delivery
  <2> QED
    BY <1>2, <2>1, SettleTaskEffect
<1>3. ASSUME NEW w \in Threads, HandleFailure(w) PROVE FALSE
  BY <1>3, HandleFailureEffect
<1>4. ASSUME NEW r \in Recoverers, Recover(r) PROVE FALSE
  BY <1>4, RecoverEffect
<1>5. PICK w \in Threads : ClaimDelivery(w)
  BY <1>1, <1>2, <1>3, <1>4, StatusMoves
<1> QED
  BY <1>5, ClaimDeliveryEffect

\* It is completed by the run that settles it.
LEMMA BecomesCompleted ==
    ASSUME WorkerTypeOK, [WorkerNext]_vars, task.status # "COMPLETED",
           task'.status = "COMPLETED"
    PROVE  \E w \in Threads : /\ SettleTask(w) /\ worker[w].pc = "settling"
                              /\ worker[w].goal = "COMPLETED" /\ task.status = "RUNNING"
<1>1. ~ApiMoves /\ \A w \in Threads : ~GraphTurns(w)
  BY DEF ApiMoves, GraphTurns
<1>2. ASSUME NEW w \in Threads, ClaimDelivery(w) PROVE FALSE
  BY <1>2, ClaimDeliveryEffect
<1>3. ASSUME NEW w \in Threads, HandleFailure(w) PROVE FALSE
  BY <1>3, HandleFailureEffect
<1>4. ASSUME NEW r \in Recoverers, Recover(r) PROVE FALSE
  BY <1>4, RecoverEffect
<1>5. PICK w \in Threads : SettleTask(w)
  BY <1>1, <1>2, <1>3, <1>4, StatusMoves
<1> QED
  BY <1>5, SettleTaskEffect DEF Legal

\* While one recovery handles a job, who is at work is alone.
LEMMA BusyAlone ==
    ASSUME WorkerTypeOK, QueueInv, OneRescuer, NEW w \in Threads, NEW u \in Threads,
           worker[w].pc # "idle", worker[u].pc # "idle"
    PROVE  w = u
<1>1. JobsAreExclusive
  BY DEF QueueInv
<1> QED
  BY <1>1, BusyHasJob DEF JobsAreExclusive

-----------------------------------------------------------------------------
(* A completed task is whole *)

\* A run that was under way before the task runs was not under way when it was claimed.
LEMMA StillRunning ==
    ASSUME WorkerTypeOK, QueueInv, OneRescuer, [WorkerNext]_vars, task'.status = "RUNNING",
           NEW w \in Threads, worker[w].pc \notin {"idle", "claiming"}
    PROVE  task.status = "RUNNING"
<1> SUFFICES ASSUME task.status # "RUNNING" PROVE FALSE
  OBVIOUS
<1>1. PICK u \in Threads : worker[u].pc = "claiming"
  BY StartsRunning
<1> QED
  BY <1>1, BusyAlone

\* Completed steps stay so, unless a graph that waits for an approval opens one again.
LEMMA AllDoneStays ==
    ASSUME WorkerTypeOK, [WorkerNext]_vars, AllDone, task'.status # "WAITING_USER"
    PROVE  AllDone'
<1>1. ASSUME NEW s \in 1..N, NEW w \in Threads, GraphStep(w), StepWritten(w, s)
      PROVE  step'[s] = step[s]
  <2>1. step[s].status = "COMPLETED"
    BY DEF AllDone
  <2>2. CASE graph[w].pc = "waiting"
    <3>1. ~WaitForApproval(w)
      BY DEF WaitForApproval, WorkerTypeOK, RowsTypeOK, TaskRow
    <3>2. ToolBreaks(w)
      BY <1>1, <2>2, <3>1 DEF GraphStep, Analyze, StartStep, Work, UseTool, CheckTask,
                              InterruptGraph, ToolReturns, Checkpoint, Evaluate, Turn,
                              FinishGraph, GraphRaises
    <3> QED
      BY <3>2 DEF ToolBreaks
  <2> QED
    BY <1>1, <2>1, <2>2 DEF StepWritten
<1> QED
  BY <1>1, StepMoves DEF AllDone

\* A graph reaches its end with a plan, or leaves the task waiting for a dataset.
LEMMA FinishIsPlanned ==
    ASSUME WorkerTypeOK, PlanIsFirst, [WorkerNext]_vars, NEW w \in Threads, GraphStep(w),
           graph[w].pc # "finishing", graph'[w].pc = "finishing"
    PROVE  Planned' \/ task'.status = "WAITING_USER"
<1>1. graph[w].pc # "idle"
  BY GraphEffect DEF GraphGoesOn, GraphEnds
<1>2. CASE graph[w].pc # "analyzing"
  BY <1>1, <1>2, PlannedStays DEF PlanIsFirst
<1>3. CASE graph[w].pc = "analyzing"
  <2>1. task \in TaskRow /\ step \in [1..N -> StepRow]
    BY DEF WorkerTypeOK, RowsTypeOK
  <2>2. Analyze(w) \/ GraphRaises(w)
    BY <1>3 DEF GraphStep, StartStep, Work, UseTool, CheckTask, WaitForApproval,
                InterruptGraph, ToolReturns, ToolBreaks, Checkpoint, Evaluate, Turn,
                FinishGraph
  <2>3. ~GraphRaises(w)
    BY DEF GraphRaises, Leave, NoGraph, WorkerTypeOK, RunTypeOK
  <2>4. ASSUME step' = [s \in 1..N |-> IF step[s].status = "ABSENT"
                                       THEN [step[s] EXCEPT !.status = "PENDING"] ELSE step[s]]
        PROVE  Planned'
    BY <2>1, <2>4 DEF Planned, StepRow
  <2>5. ASSUME task' = [task EXCEPT !.status = "WAITING_USER"]
        PROVE  task'.status = "WAITING_USER"
    BY <2>1, <2>5 DEF TaskRow
  <2> QED
    BY <2>2, <2>3, <2>4, <2>5 DEF Analyze
<1> QED
  BY <1>2, <1>3

\* A run is only completed with all steps completed.
LEMMA WholeStep ==
    ASSUME WorkerTypeOK, QueueInv, GraphsAreAwaited, PlanIsFirst, OneRescuer, RunsAreWhole,
           [WorkerNext]_vars
    PROVE  RunsAreWhole'
<1>1. Planned => Planned'
  BY PlannedStays
<1>2. graph \in [Threads -> GraphThread] /\ worker \in [Threads -> Delivery]
  BY DEF WorkerTypeOK, RunTypeOK
<1>3. ASSUME NEW w \in Threads, graph'[w].pc = "finishing", ~graph'[w].detached,
             task'.status = "RUNNING"
      PROVE  Planned'
  <2>1. CASE GraphStep(w) /\ graph[w].pc # "finishing"
    BY <1>3, <2>1, FinishIsPlanned
  <2>2. CASE graph'[w] = graph[w]
    <3>1. worker[w].pc = "awaiting"
      BY <1>3, <2>2 DEF GraphsAreAwaited
    <3>2. task.status = "RUNNING"
      BY <1>3, <3>1, StillRunning
    <3> QED
      BY <1>1, <1>3, <2>2, <3>2 DEF RunsAreWhole
  <2>3. CASE GraphStep(w) /\ graph[w].pc = "finishing"
    BY <1>2, <1>3, <2>3
       DEF GraphStep, Analyze, StartStep, Work, UseTool, CheckTask, WaitForApproval,
           InterruptGraph, ToolReturns, ToolBreaks, Checkpoint, Evaluate, Turn,
           FinishGraph, GraphRaises, Leave, NoGraph
  <2> QED
    BY <1>3, <2>1, <2>2, <2>3, GraphMoves, AskEffect DEF NoGraph
<1>4. ASSUME NEW w \in Threads, worker'[w].pc = "reading", task'.status = "RUNNING"
      PROVE  Planned'
  <2>1. CASE worker'[w] = worker[w]
    <3>1. task.status = "RUNNING"
      BY <1>4, <2>1, StillRunning
    <3> QED
      BY <1>1, <1>4, <2>1, <3>1 DEF RunsAreWhole
  <2>2. CASE GraphStep(w) /\ GraphEnds(w) /\ worker'[w] # worker[w]
    <3>1. graph[w].pc \in {"finishing", "tool"} /\ ~graph[w].detached
      BY <1>4, <2>2 DEF GraphEnds
    <3>2. worker[w].pc = "awaiting"
      BY <3>1 DEF GraphsAreAwaited
    <3>3. task.status = "RUNNING"
      BY <1>4, <3>2, StillRunning
    <3> QED
      BY <1>1, <3>1, <3>3 DEF RunsAreWhole, PlanIsFirst
  <2>3. ASSUME DeliveryStep(w) \/ Fetch(w) \/ Timeout(w) \/ worker'[w] = Idler PROVE FALSE
    BY <1>2, <1>4, <2>3, FetchEffect, TimeoutEffect, ClaimDeliveryEffect, PrepareEffect,
       AskEffect, ReadOutcomeEffect, SettleTaskEffect, SaveAnswerEffect, RaiseEffect,
       HandleFailureEffect DEF DeliveryStep, CloseJob, Idler
  <2> QED
    BY <2>1, <2>2, <2>3, WorkerMoves
<1>5. ASSUME NEW w \in Threads, worker'[w].pc = "settling", worker'[w].goal = "COMPLETED",
             task'.status = "RUNNING"
      PROVE  AllDone'
  <2>1. CASE worker'[w] = worker[w]
    <3>1. task.status = "RUNNING"
      BY <1>5, <2>1, StillRunning
    <3>2. AllDone
      BY <1>5, <2>1, <3>1 DEF RunsAreWhole
    <3> QED
      BY <1>5, <3>2, AllDoneStays
  <2>2. CASE ReadOutcome(w)
    <3>1. worker[w].pc = "reading" /\ task.status = "RUNNING" /\ Outcome = "COMPLETED"
      BY <1>5, <2>2, ReadOutcomeEffect
    <3>2. Planned
      BY <3>1 DEF RunsAreWhole
    <3>3. \A s \in 1..N : step[s].status \in {"COMPLETED", "ABSENT"}
      BY <3>1 DEF Outcome
    <3>4. AllDone
      BY <3>2, <3>3 DEF Planned, AllDone
    <3> QED
      BY <1>5, <3>4, AllDoneStays
  <2>3. ASSUME DeliveryStep(w), ~ReadOutcome(w) PROVE FALSE
    BY <1>2, <1>5, <2>3, ClaimDeliveryEffect, PrepareEffect, AskEffect, SettleTaskEffect,
       SaveAnswerEffect, RaiseEffect, HandleFailureEffect DEF DeliveryStep, CloseJob, Idler
  <2>4. ASSUME Fetch(w) \/ Timeout(w) \/ GraphEnds(w) \/ worker'[w] = Idler,
               worker'[w] # worker[w]
        PROVE  FALSE
    BY <1>2, <1>5, <2>4, FetchEffect, TimeoutEffect DEF Idler, GraphEnds
  <2> QED
    BY <2>1, <2>2, <2>3, <2>4, WorkerMoves
<1>6. ASSUME task'.status = "COMPLETED" PROVE AllDone'
  <2>1. CASE task.status = "COMPLETED"
    BY <1>6, <2>1, AllDoneStays DEF RunsAreWhole
  <2>2. CASE task.status # "COMPLETED"
    <3>1. AllDone
      BY <1>6, <2>2, BecomesCompleted DEF RunsAreWhole
    <3> QED
      BY <1>6, <3>1, AllDoneStays
  <2> QED
    BY <2>1, <2>2
<1> QED
  BY <1>3, <1>4, <1>5, <1>6 DEF RunsAreWhole

\* Nothing is under way at first.
LEMMA WholeInit == WorkerInit => RunsAreWhole
BY DEF WorkerInit, RunsAreWhole, Idler, NoGraph

\* A recovery that had a job to itself still had it before any step.
LEMMA OneRescuerBefore ==
    ASSUME WorkerTypeOK, [WorkerNext]_vars, OneRescuer'
    PROVE  OneRescuer
<1>1. ASSUME faults' = faults PROVE OneRescuer
  BY <1>1 DEF OneRescuer
<1>2. ASSUME NEW w \in Threads, Timeout(w) \/ Crash(w) PROVE OneRescuer
  BY <1>2, TimeoutEffect, CrashEffect DEF OneRescuer
<1>3. ASSUME NEW r \in Recoverers, RescueStep(r) \/ RescuerDies(r) PROVE OneRescuer
  BY <1>3, RescueEffect DEF OneRescuer
<1>4. ASSUME NEW w \in Threads, Fetch(w) \/ DeliveryStep(w) PROVE faults' = faults
  BY <1>4 DEF Fetch, DeliveryStep, ClaimDelivery, Prepare, Ask, ReadOutcome, SettleTask,
              SaveAnswer, Raise, HandleFailure, CloseJob, sideVars
<1> QED
  BY <1>1, <1>2, <1>3, <1>4, ApiEffect, GraphEffect DEF WorkerNext, vars, workerVars

\* While one recovery handles a job, no run is completed before its steps are.
LEMMA WholeInvariant == WorkerSpec => [](OneRescuer => RunsAreWhole)
<1>1. /\ WorkerTypeOK /\ GraphsAreAwaited /\ QueueInv /\ PlanIsFirst
      /\ (OneRescuer => RunsAreWhole) /\ [WorkerNext]_vars
      => (OneRescuer => RunsAreWhole)'
  BY WholeStep, OneRescuerBefore
<1> QED
  BY <1>1, WholeInit, TaskPlansFirst, QueueIsExclusive, PTL DEF WorkerSpec

\* A completed task is whole: every step is completed, and every external action its
\* steps asked for was settled, timed out graphs or not, while one recovery handles a job.
THEOREM TaskCompletesWhole ==
    ASSUME StepsAskForOne
    PROVE  WorkerSpec => []CompletedIsWhole
<1>1. StepsAreSettled /\ (OneRescuer => RunsAreWhole) => CompletedIsWhole
  <2> SUFFICES ASSUME StepsAreSettled, RunsAreWhole, task.status = "COMPLETED",
                      NEW s \in 1..N
               PROVE  /\ step[s].status = "COMPLETED"
                      /\ \A i \in Wants[s] \intersect Sensitive :
                            exec[i].status \in Settled \union {"NONE"}
    BY DEF CompletedIsWhole
  <2>1. step[s].status = "COMPLETED"
    BY DEF RunsAreWhole, AllDone
  <2> QED
    BY <2>1 DEF StepsAreSettled, SettledStep
<1> QED
  BY <1>1, WholeInvariant, TaskSettlesSteps, PTL

-----------------------------------------------------------------------------
(* Terminal statuses and completed steps are final *)

\* An accepted cancellation is never taken back.
LEMMA CancelStays ==
    ASSUME WorkerTypeOK, [WorkerNext]_vars, task.cancel
    PROVE  task'.cancel
<1>1. task \in TaskRow
  BY DEF WorkerTypeOK, RowsTypeOK
<1>2. CASE ApiStep
  BY <1>1, <1>2 DEF ApiStep, RunTask, ResumeTask, PauseTask, CancelApprovals, CancelTask,
                    ReviewTask, StoreDecision, ResumeDecided, Enqueue, RequestControl, TaskRow
<1>3. ASSUME NEW w \in Threads, DeliveryStep(w) PROVE task'.cancel
  BY <1>3, ClaimDeliveryEffect, SettleTaskEffect, HandleFailureEffect
     DEF DeliveryStep, Prepare, Ask, ReadOutcome, SaveAnswer, Raise, CloseJob, TaskKeepsJob
<1>4. ASSUME NEW w \in Threads, GraphStep(w) PROVE task'.cancel
  BY <1>4, GraphEffect DEF TaskKeepsJob
<1>5. ASSUME NEW r \in Recoverers, RescueStep(r) \/ RescuerDies(r) PROVE task'.cancel
  BY <1>5, RecoverEffect DEF RescueStep, ListStalled, RecoverJob, RescuerDies, TaskKeepsJob
<1> QED
  BY <1>2, <1>3, <1>4, <1>5
     DEF WorkerNext, vars, workerVars, Fetch, Timeout, Crash

\* A task becomes cancelled when it was asked to.
LEMMA CancelIsAsked ==
    ASSUME WorkerTypeOK, GoalsAreSound, [WorkerNext]_vars, task'.status = "CANCELLED"
    PROVE  task'.cancel
<1>1. CASE task.status = "CANCELLED"
  BY <1>1, CancelStays DEF GoalsAreSound
<1>2. CASE task.status # "CANCELLED"
  <2>1. CASE ApiMoves
    BY <2>1 DEF ApiMoves
  <2>2. ASSUME NEW w \in Threads, ClaimDelivery(w) PROVE task.cancel
    BY <1>2, <2>2, ClaimDeliveryEffect
  <2>3. ASSUME NEW w \in Threads, SettleTask(w) PROVE FALSE
    <3>1. worker[w].goal # "CANCELLED"
      BY DEF WorkerTypeOK, RunTypeOK, Delivery
    <3> QED
      BY <1>2, <2>3, <3>1, SettleTaskEffect
  <2>4. ASSUME NEW w \in Threads, HandleFailure(w) PROVE task.cancel
    BY <1>2, <2>4, HandleFailureEffect
  <2>5. ASSUME NEW w \in Threads, GraphTurns(w) PROVE task.cancel
    BY <2>5 DEF GraphTurns, GoalsAreSound
  <2>6. ASSUME NEW r \in Recoverers, Recover(r) PROVE FALSE
    BY <1>2, <2>6, RecoverEffect
  <2> QED
    BY <1>2, <2>1, <2>2, <2>3, <2>4, <2>5, <2>6, StatusMoves, CancelStays
<1> QED
  BY <1>1, <1>2

\* A graph is about to cancel the task, when it was asked to.
LEMMA TurnIsAsked ==
    ASSUME WorkerTypeOK, GoalsAreSound, [WorkerNext]_vars, NEW w \in Threads,
           graph'[w].pc = "turning", graph'[w].goal = "CANCELLED"
    PROVE  task'.cancel
<1>1. graph \in [Threads -> GraphThread]
  BY DEF WorkerTypeOK, RunTypeOK
<1>2. CASE graph'[w].pc = graph[w].pc /\ graph'[w].goal = graph[w].goal
  BY <1>2, CancelStays DEF GoalsAreSound
<1>3. CASE Evaluate(w)
  BY <1>1, <1>3, CancelStays DEF Evaluate, Move, GraphThread
<1>4. ASSUME GraphStep(w), ~Evaluate(w) PROVE FALSE
  BY <1>1, <1>4 DEF GraphStep, Analyze, StartStep, Work, UseTool, CheckTask, WaitForApproval,
      InterruptGraph, ToolReturns, ToolBreaks, Checkpoint, Turn, FinishGraph, GraphRaises,
      Move, Leave, NoGraph, GraphThread, workerVars
<1> QED
  BY <1>2, <1>3, <1>4, GraphMoves, AskEffect DEF NoGraph

\* The outcome of the steps is read, and settled, after an answer without an error.
LEMMA ErrorsAreSound ==
    ASSUME WorkerTypeOK, GoalsAreSound, [WorkerNext]_vars, NEW w \in Threads,
           \/ worker'[w].pc = "reading"
           \/ worker'[w].pc = "settling" /\ worker'[w].goal # "FAILED"
    PROVE  worker'[w].error = "none"
<1>1. CASE worker'[w] = worker[w]
  BY <1>1 DEF GoalsAreSound
<1>2. CASE ReadOutcome(w)
  BY <1>2, ReadOutcomeEffect DEF GoalsAreSound
<1>3. CASE GraphEnds(w)
  BY <1>1, <1>3 DEF GraphEnds
<1>4. ASSUME DeliveryStep(w) \/ Fetch(w) \/ Timeout(w) \/ worker'[w] = Idler, ~ReadOutcome(w)
      PROVE  FALSE
  BY <1>4, FetchEffect, TimeoutEffect, ClaimDeliveryEffect, PrepareEffect,
     AskEffect, SettleTaskEffect, SaveAnswerEffect, RaiseEffect,
     HandleFailureEffect DEF DeliveryStep, CloseJob, Idler, WorkerTypeOK, RunTypeOK
<1> QED
  BY <1>1, <1>2, <1>3, <1>4, WorkerMoves

\* What a delivery has raised, aims at and was asked to cancel stays consistent.
LEMMA GoalsStep ==
    ASSUME WorkerTypeOK, GoalsAreSound, [WorkerNext]_vars
    PROVE  GoalsAreSound'
BY CancelIsAsked, TurnIsAsked, ErrorsAreSound DEF GoalsAreSound

\* What was undisturbed after a step was so before.
LEMMA UndisturbedBefore ==
    ASSUME WorkerTypeOK, [WorkerNext]_vars, Undisturbed'
    PROVE  Undisturbed
<1>1. OneRescuer
  BY OneRescuerBefore DEF Undisturbed
<1>2. faults.timeouts \in Nat
  BY DEF WorkerTypeOK, SideTypeOK, WorkerAssumption
<1>3. faults'.timeouts = 0
  BY DEF Undisturbed
<1>4. ASSUME faults'.timeouts = faults.timeouts PROVE faults.timeouts = 0
  BY <1>3, <1>4
<1>5. ASSUME NEW w \in Threads, Timeout(w) PROVE FALSE
  BY <1>2, <1>3, <1>5, TimeoutEffect
<1>6. ASSUME NEW w \in Threads, Crash(w) PROVE faults'.timeouts = faults.timeouts
  BY <1>6, CrashEffect
<1>7. ASSUME NEW r \in Recoverers, RescueStep(r) \/ RescuerDies(r)
      PROVE  faults'.timeouts = faults.timeouts
  BY <1>7, RescueEffect
<1>8. ASSUME NEW w \in Threads, Fetch(w) \/ DeliveryStep(w) PROVE faults' = faults
  BY <1>8 DEF Fetch, DeliveryStep, ClaimDelivery, Prepare, Ask, ReadOutcome, SettleTask,
              SaveAnswer, Raise, HandleFailure, CloseJob, sideVars
<1> QED
  BY <1>1, <1>4, <1>5, <1>6, <1>7, <1>8, ApiEffect, GraphEffect
     DEF WorkerNext, vars, workerVars, Undisturbed

\* Without a timeout, a worker awaits every graph; and one works at a time.
LEMMA GraphIsAlone ==
    ASSUME WorkerTypeOK, QueueInv, GraphsAreAwaited, Undisturbed, NEW w \in Threads,
           graph[w].pc # "idle"
    PROVE  /\ worker[w].pc = "awaiting"
           /\ \A u \in Threads \ {w} : graph[u].pc = "idle"
<1>1. \A u \in Threads : graph[u].pc # "idle" => worker[u].pc = "awaiting"
  BY DEF GraphsAreAwaited, Undisturbed
<1> QED
  BY <1>1, BusyAlone DEF Undisturbed

\* Beside a worker at work there is no job to recover.
LEMMA NoRescueBeside ==
    ASSUME WorkerTypeOK, QueueInv, OneRescuer, NEW w \in Threads, worker[w].pc # "idle",
           NEW r \in Recoverers
    PROVE  recoverer[r].pc = "idle"
<1>1. JobsAreExclusive /\ WorkIsEnqueued
  BY DEF QueueInv
<1>2. SUFFICES ASSUME recoverer[r].job # 0 PROVE FALSE
  BY <1>1 DEF WorkIsEnqueued
<1>3. worker[w].job \in Jobs /\ recoverer[r].job \in Jobs
  BY <1>2, BusyHasJob DEF WorkerTypeOK, SideTypeOK, Jobs, WorkerAssumption
<1>4. job[worker[w].job].status = "doing" /\ Stalled(recoverer[r].job)
  BY <1>1, <1>2, BusyHasJob DEF JobsAreExclusive
<1> QED
  BY <1>1, <1>3, <1>4 DEF JobsAreExclusive, Stalled

\* While a worker awaits its graph, nothing but this graph moves a running task.
LEMMA RunningIsHeld ==
    ASSUME WorkerTypeOK, QueueInv, GraphsAreAwaited, Undisturbed, [WorkerNext]_vars,
           NEW w \in Threads, graph[w].pc # "idle", ~GraphStep(w), task.status = "RUNNING"
    PROVE  task'.status = "RUNNING"
<1>1. /\ worker[w].pc = "awaiting" /\ OneRescuer
      /\ \A u \in Threads \ {w} : graph[u].pc = "idle"
  BY GraphIsAlone DEF Undisturbed
<1>2. \A u \in Threads : worker[u].pc \in {"idle", "awaiting"}
  BY <1>1, BusyAlone
<1>3. ~ApiMoves
  BY DEF ApiMoves, Resumable
<1>4. ASSUME NEW u \in Threads, ClaimDelivery(u) \/ SettleTask(u) \/ HandleFailure(u)
      PROVE  FALSE
  BY <1>2, <1>4 DEF ClaimDelivery, SettleTask, HandleFailure
<1>5. ASSUME NEW u \in Threads, GraphStep(u) PROVE FALSE
  BY <1>1, <1>5, GraphEffect DEF GraphGoesOn, GraphEnds
<1>6. ASSUME NEW r \in Recoverers, Recover(r) PROVE FALSE
  BY <1>1, <1>6, NoRescueBeside DEF Recover
<1> QED
  BY <1>3, <1>4, <1>5, <1>6, StatusMoves

\* Inside a step, or about to write about it.
Inside == {"working", "tool", "waiting", "interrupting"}

\* A graph enters a step that is open, and waits for a task that runs.
LEMMA GraphInside ==
    ASSUME WorkerTypeOK, NEW w \in Threads, GraphStep(w), graph'[w].pc \in Inside
    PROVE  /\ graph'[w].step = graph[w].step
           /\ \/ graph[w].pc \in Inside
              \/ graph[w].pc = "starting" /\ step[graph[w].step].status # "COMPLETED"
           /\ graph'[w].pc = "waiting" => task.status = "RUNNING" /\ task' = task
<1>1. graph \in [Threads -> GraphThread]
  BY DEF WorkerTypeOK, RunTypeOK
<1>2. CASE StartStep(w)
  BY <1>1, <1>2, MoveEffect DEF StartStep, Inside
<1>3. CASE UseTool(w)
  BY <1>1, <1>3 DEF UseTool, workerVars, Inside
<1>4. CASE CheckTask(w)
  BY <1>1, <1>4, MoveEffect DEF CheckTask, Inside
<1>5. CASE WaitForApproval(w) \/ InterruptGraph(w)
  BY <1>1, <1>5, MoveEffect DEF WaitForApproval, InterruptGraph, Inside
<1>6. ASSUME ~StartStep(w), ~UseTool(w), ~CheckTask(w), ~WaitForApproval(w), ~InterruptGraph(w)
      PROVE  FALSE
  BY <1>1, <1>6 DEF GraphStep, Analyze, Work, ToolReturns, ToolBreaks, Checkpoint, Evaluate,
      Turn, FinishGraph, GraphRaises, Move, Leave, NoGraph, GraphThread, Inside
<1> QED
  BY <1>2, <1>3, <1>4, <1>5, <1>6

\* A graph inside a step has it open, and waits while the task runs.
LEMMA OpenStep ==
    ASSUME WorkerTypeOK, QueueInv, GraphsAreAwaited, Undisturbed, StepsAreOpen,
           [WorkerNext]_vars, Undisturbed'
    PROVE  StepsAreOpen'
<1>1. ASSUME NEW w \in Threads, graph'[w].pc \in Inside
      PROVE  /\ step'[graph'[w].step].status # "COMPLETED"
             /\ graph'[w].pc = "waiting" => task'.status = "RUNNING"
  <2>1. CASE GraphStep(w)
    <3>1. /\ graph'[w].step = graph[w].step
          /\ \/ graph[w].pc \in Inside
             \/ graph[w].pc = "starting" /\ step[graph[w].step].status # "COMPLETED"
          /\ graph'[w].pc = "waiting" => task.status = "RUNNING" /\ task' = task
      BY <1>1, <2>1, GraphInside
    <3>2. graph[w].step \in 1..N /\ step[graph[w].step].status # "COMPLETED"
      BY <3>1 DEF WorkerTypeOK, RunTypeOK, StepsAreOpen, Inside
    <3>3. StepWritten(w, graph[w].step)
      BY <2>1, <3>2, StepEffect
    <3>4. step'[graph[w].step].status # "COMPLETED"
      BY <3>1, <3>2, <3>3 DEF StepWritten, Inside
    <3> QED
      BY <3>1, <3>4
  <2>2. CASE ~GraphStep(w) /\ graph'[w].pc = graph[w].pc /\ graph'[w].step = graph[w].step
    <3>1. graph[w].pc \in Inside /\ graph[w].pc # "idle"
      BY <1>1, <2>2 DEF Inside
    <3>2. graph[w].step \in 1..N /\ step[graph[w].step].status # "COMPLETED"
      BY <3>1 DEF WorkerTypeOK, RunTypeOK, StepsAreOpen, Inside
    <3>3. step'[graph[w].step] = step[graph[w].step]
      BY <2>2, <3>1, <3>2, StepMoves, GraphIsAlone, GraphEffect DEF GraphGoesOn, GraphEnds
    <3>4. graph[w].pc = "waiting" => task.status = "RUNNING"
      BY DEF StepsAreOpen
    <3>5. graph[w].pc = "waiting" => task'.status = "RUNNING"
      BY <2>2, <3>1, <3>4, RunningIsHeld
    <3> QED
      BY <2>2, <3>2, <3>3, <3>5
  <2>3. ASSUME Ask(w) \/ graph'[w] = NoGraph PROVE FALSE
    BY <1>1, <2>3, AskEffect DEF NoGraph, Inside
  <2> QED
    BY <2>1, <2>2, <2>3, GraphMoves
<1> QED
  BY <1>1 DEF StepsAreOpen, Inside

\* A delivery begins to execute when it claims the task.
LEMMA StartsExecuting ==
    ASSUME WorkerTypeOK, GraphsAreAwaited, [WorkerNext]_vars, NEW w \in Threads,
           ~Executing(w), Executing(w)'
    PROVE  task'.status = "RUNNING"
<1>1. worker[w].pc \in {"idle", "claiming", "retrying", "closing"}
  BY DEF Executing, WorkerTypeOK, RunTypeOK, Delivery, WorkerPC
<1>2. worker'[w] # worker[w]
  BY DEF Executing
<1>3. CASE ClaimDelivery(w)
  BY <1>3, ClaimDeliveryEffect DEF Executing
<1>4. ASSUME DeliveryStep(w), ~ClaimDelivery(w) PROVE FALSE
  <2>1. CloseJob(w)
    BY <1>1, <1>4 DEF DeliveryStep, Prepare, Ask, ReadOutcome, SettleTask, SaveAnswer, Raise,
        HandleFailure
  <2>2. worker'[w] = Idler
    BY <2>1 DEF CloseJob, WorkerTypeOK, RunTypeOK
  <2> QED
    BY <2>2 DEF Idler, Executing
<1>5. ASSUME Fetch(w) \/ Timeout(w) \/ worker'[w] = Idler PROVE FALSE
  BY <1>1, <1>5, FetchEffect, TimeoutEffect DEF Idler, Executing
<1>6. ASSUME GraphEnds(w) PROVE FALSE
  BY <1>1, <1>2, <1>6 DEF GraphEnds, GraphsAreAwaited
<1> QED
  BY <1>2, <1>3, <1>4, <1>5, <1>6, WorkerMoves

\* Who executes a task does not find it in need of reconciliation.
LEMMA NoneReconciles ==
    ASSUME WorkerTypeOK, QueueInv, OneRescuer, [WorkerNext]_vars, NEW w \in Threads,
           Executing(w), Executing(w)', task.status # "REQUIRES_RECONCILIATION"
    PROVE  task'.status # "REQUIRES_RECONCILIATION"
<1> SUFFICES ASSUME task'.status = "REQUIRES_RECONCILIATION" PROVE FALSE
  OBVIOUS
<1>1. worker[w].pc # "idle" /\ worker[w].pc # "claiming"
  BY DEF Executing
<1>2. \A u \in Threads : worker[u].pc # "idle" => u = w
  BY <1>1, BusyAlone
<1>3. ~ApiMoves
  BY DEF ApiMoves
<1>4. ASSUME NEW u \in Threads, ClaimDelivery(u) PROVE FALSE
  BY <1>1, <1>2, <1>4 DEF ClaimDelivery
<1>5. ASSUME NEW u \in Threads, SettleTask(u) PROVE FALSE
  <2>1. worker[u].goal # "REQUIRES_RECONCILIATION"
    BY DEF WorkerTypeOK, RunTypeOK, Delivery
  <2> QED
    BY <1>5, <2>1, SettleTaskEffect
<1>6. ASSUME NEW u \in Threads, HandleFailure(u) PROVE FALSE
  <2>1. u = w
    BY <1>2, <1>6 DEF HandleFailure
  <2> QED
    BY <1>6, <2>1, HandleFailureEffect DEF Executing
<1>7. ASSUME NEW u \in Threads, GraphTurns(u) PROVE FALSE
  BY <1>7 DEF GraphTurns
<1>8. ASSUME NEW r \in Recoverers, Recover(r) PROVE FALSE
  BY <1>1, <1>8, NoRescueBeside DEF Recover
<1> QED
  BY <1>3, <1>4, <1>5, <1>6, <1>7, <1>8, StatusMoves

\* A completed task is only executed to save its answer.
LEMMA AnswerStep ==
    ASSUME WorkerTypeOK, QueueInv, GraphsAreAwaited, GoalsAreSound, OneRescuer,
           OnlyAnswersFollow, [WorkerNext]_vars, NEW w \in Threads, Executing(w),
           Executing(w)', task'.status = "COMPLETED"
    PROVE  /\ worker'[w].pc \in {"answering", "raising", "handling"}
           /\ worker'[w].goal = "COMPLETED"
           /\ worker'[w].pc # "answering" => worker'[w].error = "transient"
<1>1. CASE task.status # "COMPLETED"
  <2>1. PICK u \in Threads : /\ SettleTask(u) /\ worker[u].pc = "settling"
                             /\ worker[u].goal = "COMPLETED" /\ task.status = "RUNNING"
    BY <1>1, BecomesCompleted
  <2>2. u = w
    BY <2>1, BusyAlone DEF Executing
  <2>3. worker[w].error = "none"
    BY <2>1, <2>2 DEF GoalsAreSound
  <2> QED
    BY <1>1, <2>1, <2>2, <2>3, SettleTaskEffect
<1>2. CASE task.status = "COMPLETED"
  <2>1. /\ worker[w].pc \in {"answering", "raising", "handling"}
        /\ worker[w].goal = "COMPLETED"
        /\ worker[w].pc # "answering" => worker[w].error = "transient"
    BY <1>2 DEF OnlyAnswersFollow
  <2>2. CASE SaveAnswer(w) \/ Raise(w)
    BY <1>2, <2>1, <2>2, SaveAnswerEffect, RaiseEffect DEF Executing
  <2>3. ASSUME HandleFailure(w) \/ Fetch(w) \/ Timeout(w) \/ worker'[w] = Idler
        PROVE  FALSE
    <3>1. worker'[w].pc \notin {"idle", "closing", "retrying"}
      BY DEF Executing
    <3>2. ~HandleFailure(w)
      BY <3>1, HandleFailureEffect
    <3>3. ~Timeout(w) /\ ~Fetch(w)
      BY <2>1, TimeoutEffect DEF Fetch
    <3> QED
      BY <2>3, <3>1, <3>2, <3>3 DEF Idler
  <2>5. ASSUME DeliveryStep(w), ~SaveAnswer(w), ~Raise(w), ~HandleFailure(w) PROVE FALSE
    BY <2>1, <2>5 DEF DeliveryStep, ClaimDelivery, Prepare, Ask, ReadOutcome, SettleTask,
                      CloseJob
  <2>4. ASSUME GraphEnds(w), worker'[w] # worker[w] PROVE FALSE
    BY <2>1, <2>4 DEF GraphEnds, GraphsAreAwaited
  <2> QED
    BY <2>1, <2>2, <2>3, <2>4, <2>5, WorkerMoves
<1> QED
  BY <1>1, <1>2

\* Every step.
LEMMA FinalStep ==
    ASSUME WorkerTypeOK, QueueInv, GraphsAreAwaited, FinalInv, [WorkerNext]_vars
    PROVE  FinalInv'
<1>1. GoalsAreSound'
  BY GoalsStep DEF FinalInv
<1>2. ASSUME Undisturbed' PROVE StepsAreOpen' /\ OnlyAnswersFollow'
  <2>1. Undisturbed /\ OneRescuer /\ GoalsAreSound /\ StepsAreOpen /\ OnlyAnswersFollow
    BY <1>2, UndisturbedBefore DEF FinalInv, Undisturbed
  <2>2. ASSUME NEW w \in Threads, Executing(w)'
        PROVE  /\ task'.status # "REQUIRES_RECONCILIATION"
               /\ task'.status = "COMPLETED" =>
                     /\ worker'[w].pc \in {"answering", "raising", "handling"}
                     /\ worker'[w].goal = "COMPLETED"
                     /\ worker'[w].pc # "answering" => worker'[w].error = "transient"
    <3>1. CASE Executing(w)
      BY <2>1, <2>2, <3>1, NoneReconciles, AnswerStep DEF OnlyAnswersFollow
    <3>2. CASE ~Executing(w)
      BY <2>2, <3>2, StartsExecuting
    <3> QED
      BY <3>1, <3>2
  <2> QED
    BY <1>2, <2>1, <2>2, OpenStep DEF OnlyAnswersFollow
<1> QED
  BY <1>1, <1>2 DEF FinalInv

\* Nothing is executed at first.
LEMMA FinalInit == WorkerInit => FinalInv
BY DEF WorkerInit, FinalInv, GoalsAreSound, StepsAreOpen, OnlyAnswersFollow, Executing,
       Idler, NoGraph

\* A delivery's goal, error and cancellation are consistent, and, undisturbed, graphs work
\* on open steps and a terminal task is executed only to save its answer.
LEMMA FinalInvariant == WorkerSpec => []FinalInv
<1>1. WorkerTypeOK /\ GraphsAreAwaited /\ QueueInv /\ FinalInv /\ [WorkerNext]_vars
      => FinalInv'
  BY FinalStep
<1> QED
  BY <1>1, FinalInit, QueueIsExclusive, PTL DEF WorkerSpec

\* A completed task has no external write in doubt.
LEMMA CompletedIsUnambiguous ==
    ASSUME WorkerTypeOK, ActionsAreWanted, CompletedIsWhole, OneRescuer,
           task.status = "COMPLETED"
    PROVE  ~AmbiguousWrite
<1> SUFFICES ASSUME NEW i \in Sensitive, exec[i].status \in Ambiguous PROVE FALSE
  BY DEF AmbiguousWrite
<1>1. i \in Intents
  BY LedgerAssumption
<1>2. exec[i].status \notin Settled \union {"NONE"}
  BY DEF Ambiguous, Settled
<1>3. PICK s \in 1..N : i \in Wants[s]
  BY <1>1, <1>2 DEF ActionsAreWanted
<1> QED
  BY <1>2, <1>3 DEF CompletedIsWhole

\* A terminal status is never left, but by the handler of the delivery that completed the
\* task and then could not save its answer, as long as nothing disturbs the task.
THEOREM TaskTerminalIsFinal ==
    ASSUME StepsAskForOne
    PROVE  WorkerSpec => TerminalIsFinal
<1>1. /\ WorkerTypeOK /\ FinalInv /\ ActionsAreWanted /\ CompletedIsWhole /\ [WorkerNext]_vars
      => [Undisturbed /\ task.status \in Terminal /\ task'.status # task.status =>
            task.status = "COMPLETED" /\ task'.status \in {"QUEUED", "CANCELLED"}
            /\ AnswerIsLost]_vars
  <2> SUFFICES ASSUME WorkerTypeOK, FinalInv, ActionsAreWanted, CompletedIsWhole,
                      [WorkerNext]_vars, Undisturbed, task.status \in Terminal,
                      task'.status # task.status
               PROVE  task.status = "COMPLETED" /\ task'.status \in {"QUEUED", "CANCELLED"}
                      /\ AnswerIsLost
    OBVIOUS
  <2>1. OneRescuer /\ GoalsAreSound /\ StepsAreOpen /\ OnlyAnswersFollow
    BY DEF FinalInv, Undisturbed
  <2>2. task.status \notin {"QUEUED", "RUNNING", "WAITING_USER", "PAUSED", "FAILED", "PENDING"}
    BY DEF Terminal
  <2>3. ~ApiMoves
    BY <2>2 DEF ApiMoves, Resumable
  <2>4. ASSUME NEW w \in Threads, ClaimDelivery(w) PROVE FALSE
    BY <2>2, <2>4, ClaimDeliveryEffect DEF Deliverable
  <2>5. ASSUME NEW w \in Threads, SettleTask(w) PROVE FALSE
    <3>1. worker[w].goal \in {"NONE", "FAILED", "PAUSED", "COMPLETED"}
      BY DEF WorkerTypeOK, RunTypeOK, Delivery
    <3> QED
      BY <2>2, <2>5, <3>1, SettleTaskEffect DEF Legal
  <2>6. ASSUME NEW w \in Threads, GraphStep(w), GraphTurns(w) PROVE FALSE
    <3>1. ~WaitForApproval(w)
      BY <2>1, <2>2 DEF WaitForApproval, StepsAreOpen
    <3> QED
      BY <2>2, <2>6, <3>1 DEF GraphTurns, Legal
  <2>7. ASSUME NEW r \in Recoverers, Recover(r) PROVE FALSE
    BY <2>2, <2>7, RecoverEffect DEF Resting
  <2>8. PICK w \in Threads : HandleFailure(w)
    BY <2>3, <2>4, <2>5, <2>6, <2>7, StatusMoves
  <2>9. worker[w].pc = "handling" /\ Executing(w)
    BY <2>8 DEF HandleFailure, Executing
  <2>10. task.status = "COMPLETED"
    <3>1. task.status # "REQUIRES_RECONCILIATION"
      BY <2>1, <2>9 DEF OnlyAnswersFollow
    <3>2. task.status # "CANCELLED"
      BY <2>1, <2>8, HandleFailureEffect DEF GoalsAreSound
    <3> QED
      BY <3>1, <3>2 DEF Terminal
  <2>11. worker[w].goal = "COMPLETED" /\ worker[w].error = "transient"
    BY <2>1, <2>9, <2>10 DEF OnlyAnswersFollow
  <2>12. ~AmbiguousWrite
    BY <2>1, <2>10, CompletedIsUnambiguous
  <2> QED
    BY <2>8, <2>9, <2>10, <2>11, <2>12, HandleFailureEffect DEF AnswerIsLost
<1> QED
  BY <1>1, FinalInvariant, WorkerTypeCorrect, TaskPlansFirst, TaskCompletesWhole, PTL
     DEF WorkerSpec, TerminalIsFinal

\* A completed step stays so, whoever checkpoints it, retries or runs the task again, as
\* long as nothing disturbs the task.
THEOREM TaskDoneStepsStay == WorkerSpec => DoneStepsStay
<1>1. WorkerTypeOK /\ FinalInv /\ [WorkerNext]_vars
      => [Undisturbed =>
            \A s \in 1..N : step[s].status = "COMPLETED" => step'[s] = step[s]]_vars
  <2> SUFFICES ASSUME WorkerTypeOK, StepsAreOpen, [WorkerNext]_vars, NEW s \in 1..N,
                      step[s].status = "COMPLETED"
               PROVE  step'[s] = step[s]
    BY DEF FinalInv
  <2> QED
    BY StepMoves DEF StepWritten, StepsAreOpen
<1> QED
  BY <1>1, FinalInvariant, WorkerTypeCorrect, PTL DEF WorkerSpec, DoneStepsStay

-----------------------------------------------------------------------------
(* How a task loses its job *)

\* Only the API gives the task another job, when none is waiting.
LEMMA TaskIsEnqueued ==
    ASSUME WorkerTypeOK, [WorkerNext]_vars, task'.job # task.job
    PROVE  /\ task'.job = task.job + 1 /\ task'.job \in Jobs
           /\ job'[task'.job].status = "todo"
           /\ \A k \in Jobs : job[k].status # "todo"
           /\ \A k \in Jobs \ {task'.job} : job'[k] = job[k]
           /\ UNCHANGED <<worker, recoverer>>
<1>1. task \in TaskRow /\ job \in [Jobs -> JobRow]
  BY DEF WorkerTypeOK, RowsTypeOK
<1>2. CASE ApiStep
  <2>1. ASSUME NEW cancel \in BOOLEAN, RequestControl(cancel) PROVE FALSE
    BY <1>1, <2>1 DEF RequestControl, TaskRow
  <2>2. \E from : Enqueue(from)
    BY <1>2, <2>1 DEF ApiStep, RunTask, ResumeTask, PauseTask, CancelApprovals, CancelTask,
                      ReviewTask, StoreDecision, ResumeDecided
  <2>3. task'.job = task.job + 1 /\ task.job < MaxJobs /\ task.job \in 0..MaxJobs
    BY <1>1, <2>2 DEF Enqueue, MayEnqueue, TaskRow
  <2>4. task'.job \in Jobs
    BY <2>3, WorkerAssumption DEF Jobs
  <2> QED
    BY <1>1, <1>2, <2>2, <2>3, <2>4, ApiEffect DEF Enqueue, MayEnqueue, JobRow
<1>3. ASSUME NEW w \in Threads, DeliveryStep(w) PROVE task'.job = task.job
  BY <1>3, ClaimDeliveryEffect, SettleTaskEffect, HandleFailureEffect
     DEF DeliveryStep, Prepare, Ask, ReadOutcome, SaveAnswer, Raise, CloseJob, TaskKeepsJob
<1>4. ASSUME NEW w \in Threads, GraphStep(w) PROVE task'.job = task.job
  BY <1>4, GraphEffect DEF TaskKeepsJob
<1>5. ASSUME NEW r \in Recoverers, RescueStep(r) \/ RescuerDies(r) PROVE task'.job = task.job
  BY <1>5, RecoverEffect DEF RescueStep, ListStalled, RecoverJob, RescuerDies, TaskKeepsJob
<1> QED
  BY <1>2, <1>3, <1>4, <1>5
     DEF WorkerNext, vars, workerVars, Fetch, Timeout, Crash

\* What else moves a job: a request that puts its task to rest, a fetch, and whoever
\* executed it or recovers it.
JobMoves(k) ==
    \/ k = task.job /\ job[k].status = "todo" /\ job'[k].status = "ended" /\ Resting'
    \/ job[k].status = "todo" /\ job'[k].status = "doing"
    \/ \E w \in Threads : CloseJob(w) /\ worker[w].job = k
    \/ \E r \in Recoverers : RecoverJob(r) /\ recoverer[r].job = k

LEMMA JobMove ==
    ASSUME WorkerTypeOK, QueueInv, [WorkerNext]_vars, task'.job = task.job,
           NEW k \in Jobs, job'[k] # job[k]
    PROVE  JobMoves(k)
<1>1. task \in TaskRow /\ job \in [Jobs -> JobRow]
  BY DEF WorkerTypeOK, RowsTypeOK
<1>2. CASE ApiStep
  <2>1. ASSUME NEW from, Enqueue(from) PROVE FALSE
    BY <1>1, <2>1 DEF Enqueue, TaskRow
  <2>2. ASSUME NEW cancel \in BOOLEAN, RequestControl(cancel) PROVE JobMoves(k)
    <3>1. task.status # "RUNNING" /\ k = task.job /\ job[k].status = "todo"
      BY <1>1, <2>2 DEF RequestControl
    <3>2. job'[k].status = "ended"
      BY <1>1, <2>2, <3>1 DEF RequestControl, JobRow
    <3>3. task'.status = IF cancel THEN "CANCELLED" ELSE "PAUSED"
      BY <1>1, <2>2, <3>1 DEF RequestControl, TaskRow
    <3> QED
      BY <3>1, <3>2, <3>3 DEF JobMoves, Resting
  <2> QED
    BY <1>2, <2>1, <2>2 DEF ApiStep, RunTask, ResumeTask, PauseTask, CancelApprovals,
                            CancelTask, ReviewTask, StoreDecision, ResumeDecided
<1>3. ASSUME NEW w \in Threads, Fetch(w) PROVE JobMoves(k)
  BY <1>1, <1>3, FetchEffect DEF JobMoves, JobRow
<1>4. ASSUME NEW w \in Threads, CloseJob(w) PROVE JobMoves(k)
  BY <1>4, CloseJobEffect DEF JobMoves
<1>5. ASSUME NEW r \in Recoverers, RecoverJob(r) PROVE JobMoves(k)
  BY <1>5, RecoverJobEffect DEF JobMoves
<1>6. ASSUME NEW w \in Threads, GraphStep(w) PROVE job' = job
  BY <1>6, GraphEffect
<1> QED
  BY <1>2, <1>3, <1>4, <1>5, <1>6
     DEF WorkerNext, vars, workerVars, DeliveryStep, ClaimDelivery, Prepare, Ask,
         ReadOutcome, SettleTask, SaveAnswer, Raise, HandleFailure, Timeout, Crash,
         RescueStep, ListStalled, Recover, RescuerDies

\* While one recovery handles a job, who executed it or recovers it gives up the only
\* job that is being executed.
LEMMA HeldJob ==
    ASSUME WorkerTypeOK, QueueInv, OneRescuer, NEW k \in Jobs,
           \/ \E w \in Threads : CloseJob(w) /\ worker[w].job = k
           \/ \E r \in Recoverers : RecoverJob(r) /\ recoverer[r].job = k
    PROVE  /\ job[k].status = "doing" /\ k <= task.job
           /\ \A j \in Jobs \ {k} : job[j].status # "doing" /\ job'[j] = job[j]
           /\ job'[k].status = "todo" => \A j \in Jobs : job[j].status # "todo"
<1>1. JobsAreExclusive /\ WorkIsEnqueued /\ k # 0
  BY DEF QueueInv, Jobs
<1>2. job[k].status = "doing"
  BY <1>1 DEF JobsAreExclusive, Stalled
<1>3. k <= task.job /\ \A j \in Jobs \ {k} : job[j].status # "doing"
  BY <1>1, <1>2 DEF JobsAreExclusive, WorkIsEnqueued
<1> QED
  BY <1>2, <1>3, CloseJobEffect, RecoverJobEffect

\* An older job waits only when the task's own is over.
LEMMA OldJobsStep ==
    ASSUME WorkerTypeOK, QueueInv, OneRescuer, OldJobsAreLeft, [WorkerNext]_vars
    PROVE  OldJobsAreLeft'
<1> SUFFICES ASSUME NEW k \in Jobs, job'[k].status = "todo", k # task'.job
             PROVE  task'.job # 0 /\ job'[task'.job].status \notin {"todo", "doing"}
  BY DEF OldJobsAreLeft
<1>1. CASE task'.job # task.job
  BY <1>1, TaskIsEnqueued
<1>2. CASE task'.job = task.job /\ job'[k] # job[k]
  <2>1. \/ \E w \in Threads : CloseJob(w) /\ worker[w].job = k
        \/ \E r \in Recoverers : RecoverJob(r) /\ recoverer[r].job = k
    BY <1>2, JobMove DEF JobMoves
  <2>2. /\ k <= task.job
        /\ \A j \in Jobs \ {k} : job[j].status # "doing" /\ job'[j] = job[j]
        /\ \A j \in Jobs : job[j].status # "todo"
    BY <2>1, HeldJob
  <2>3. task.job \in Jobs
    BY <2>2 DEF WorkerTypeOK, RowsTypeOK, TaskRow, Jobs
  <2> QED
    BY <1>2, <2>2, <2>3 DEF Jobs
<1>3. CASE task'.job = task.job /\ job'[k] = job[k]
  <2>1. task.job # 0 /\ job[task.job].status \notin {"todo", "doing"}
    BY <1>3 DEF OldJobsAreLeft
  <2>2. task.job \in Jobs
    BY <2>1 DEF WorkerTypeOK, RowsTypeOK, TaskRow, Jobs
  <2>3. job'[task.job] = job[task.job]
    BY <1>3, <2>1, <2>2, JobMove, HeldJob DEF JobMoves
  <2> QED
    BY <1>3, <2>1, <2>3
<1> QED
  BY <1>1, <1>2, <1>3

\* Only a failed run puts a task with its job back into the queue, by its own delivery.
LEMMA BecomesQueued ==
    ASSUME WorkerTypeOK, [WorkerNext]_vars, task'.job = task.job,
           task.status # "QUEUED", task'.status = "QUEUED"
    PROVE  \E w \in Threads : HandleFailure(w) /\ worker[w].pc = "handling"
                              /\ worker'[w].pc = "retrying"
<1>1. task.job \in Nat
  BY DEF WorkerTypeOK, RowsTypeOK, TaskRow
<1>2. ~ApiMoves /\ \A w \in Threads : ~GraphTurns(w)
  BY <1>1 DEF ApiMoves, GraphTurns
<1>3. ASSUME NEW w \in Threads, ClaimDelivery(w) PROVE FALSE
  BY <1>3, ClaimDeliveryEffect
<1>4. ASSUME NEW w \in Threads, SettleTask(w) PROVE FALSE
  <2>1. worker[w].goal # "QUEUED"
    BY DEF WorkerTypeOK, RunTypeOK, Delivery
  <2> QED
    BY <1>4, <2>1, SettleTaskEffect
<1>5. ASSUME NEW r \in Recoverers, Recover(r) PROVE FALSE
  BY <1>5, RecoverEffect
<1>6. PICK w \in Threads : HandleFailure(w)
  BY <1>2, <1>3, <1>4, <1>5, StatusMoves
<1> QED
  BY <1>6, HandleFailureEffect

\* A task at rest starts again with a new job, or by the handler of a delivery.
LEMMA RestIsLeft ==
    ASSUME WorkerTypeOK, [WorkerNext]_vars, task'.job = task.job, Resting, ~Resting'
    PROVE  \E w \in Threads : HandleFailure(w) /\ worker[w].pc = "handling"
                              /\ worker'[w].pc = "retrying"
<1>1. CASE task'.status = "QUEUED"
  BY <1>1, BecomesQueued DEF Resting
<1>2. CASE task'.status = "RUNNING"
  <2>1. PICK w \in Threads : ClaimDelivery(w) /\ worker'[w].pc = "preparing"
    BY <1>2, StartsRunning DEF Resting
  <2> QED
    BY <2>1, ClaimDeliveryEffect DEF Deliverable, Resting
<1> QED
  BY <1>1, <1>2 DEF Resting

\* The attempts are counted when a delivery is claimed.
LEMMA AttemptsStay ==
    ASSUME WorkerTypeOK, [WorkerNext]_vars, \A w \in Threads : ~ClaimDelivery(w)
    PROVE  task'.attempts = task.attempts
<1>1. task \in TaskRow
  BY DEF WorkerTypeOK, RowsTypeOK
<1>2. CASE ApiStep
  BY <1>1, <1>2 DEF ApiStep, RunTask, ResumeTask, PauseTask, CancelApprovals, CancelTask,
                    ReviewTask, StoreDecision, ResumeDecided, Enqueue, RequestControl, TaskRow
<1>3. ASSUME NEW w \in Threads, DeliveryStep(w) PROVE task'.attempts = task.attempts
  BY <1>3, SettleTaskEffect, HandleFailureEffect
     DEF DeliveryStep, Prepare, Ask, ReadOutcome, SaveAnswer, Raise, CloseJob
<1>4. ASSUME NEW w \in Threads, GraphStep(w) PROVE task'.attempts = task.attempts
  BY <1>4, GraphEffect
<1>5. ASSUME NEW r \in Recoverers, RescueStep(r) \/ RescuerDies(r)
      PROVE  task'.attempts = task.attempts
  BY <1>5, RecoverEffect DEF RescueStep, ListStalled, RecoverJob, RescuerDies
<1> QED
  BY <1>2, <1>3, <1>4, <1>5
     DEF WorkerNext, vars, workerVars, Fetch, Timeout, Crash

\* A recovery ends the job of a task at rest.
LEMMA RescueRestStep ==
    ASSUME WorkerTypeOK, QueueInv, OneRescuer, RescuesRest, [WorkerNext]_vars
    PROVE  RescuesRest'
<1> SUFFICES ASSUME NEW r \in Recoverers, recoverer'[r].job = task'.job,
                    recoverer'[r].pc = "finishing"
             PROVE  Resting'
  BY DEF RescuesRest
<1>1. recoverer \in [Recoverers -> [pc : {"idle", "listed", "retrying", "finishing"},
                                    job : 0..MaxJobs]]
  BY DEF WorkerTypeOK, SideTypeOK
<1>2. CASE recoverer'[r] = recoverer[r]
  <2>1. recoverer[r].job \in Jobs /\ Stalled(recoverer[r].job)
    BY <1>1, <1>2 DEF QueueInv, WorkIsEnqueued, JobsAreExclusive, Jobs
  <2>2. recoverer[r].job <= task.job
    BY <2>1 DEF QueueInv, WorkIsEnqueued, Stalled
  <2>3. task'.job = task.job
    BY <1>2, <2>2, TaskIsEnqueued DEF WorkerTypeOK, RowsTypeOK, TaskRow
  <2>4. Resting
    BY <1>2, <2>3 DEF RescuesRest
  <2>5. \A w \in Threads : worker[w].pc = "idle"
    BY <1>2, NoRescueBeside
  <2> QED
    BY <2>3, <2>4, <2>5, RestIsLeft
<1>3. CASE recoverer'[r] # recoverer[r]
  <2>1. PICK q \in Recoverers : RescueStep(q) \/ RescuerDies(q)
    <3>1. ASSUME NEW w \in Threads, GraphStep(w) PROVE recoverer' = recoverer
      BY <3>1, GraphEffect
    <3> QED
      BY <1>3, <3>1, ApiEffect
         DEF WorkerNext, vars, workerVars, Fetch, DeliveryStep, ClaimDelivery, Prepare, Ask,
             ReadOutcome, SettleTask, SaveAnswer, Raise, HandleFailure, CloseJob, Timeout,
             Crash, sideVars
  <2>2. q = r
    BY <1>1, <1>3, <2>1, ListStalledEffect, RecoverEffect, RecoverJobEffect
       DEF RescueStep, RescuerDies
  <2>3. Recover(r)
    BY <1>1, <2>1, <2>2, ListStalledEffect, RecoverJobEffect
       DEF RescueStep, RescuerDies, NoRescue
  <2> QED
    BY <2>3, RecoverEffect DEF TaskKeepsJob, Resting
<1> QED
  BY <1>2, <1>3

\* The delivery of the task's own job ends with the task at rest, or asks for another run.
LEMMA DeliveryRestStep ==
    ASSUME QueueIsWritten, WorkerTypeOK, QueueInv, GraphsAreAwaited, OneRescuer,
           DeliveriesRest, [WorkerNext]_vars
    PROVE  DeliveriesRest'
<1> SUFFICES ASSUME NEW w \in Threads, worker'[w].job = task'.job, worker'[w].pc # "idle"
             PROVE  /\ worker'[w].pc \in {"answering", "closing"} => Resting'
                    /\ task'.status = "QUEUED" => worker'[w].pc \in {"claiming", "retrying"}
                    /\ worker'[w].pc = "retrying" => WithinBudget'
  BY DEF DeliveriesRest
<1>1. worker \in [Threads -> Delivery] /\ task \in TaskRow
  BY DEF WorkerTypeOK, RowsTypeOK, RunTypeOK
<1>2. task'.job = task.job
  <2>1. worker[w].job <= task.job
    BY DEF QueueInv, WorkIsEnqueued
  <2> QED
    BY <1>1, <2>1, TaskIsEnqueued DEF TaskRow, Delivery
<1>3. CASE Fetch(w)
  BY <1>3, FetchEffect
<1>4. CASE ~Fetch(w)
  <2>1. worker[w].job = task.job /\ worker[w].pc # "idle"
    <3>1. CASE worker'[w] = worker[w]
      BY <1>2, <3>1
    <3>2. CASE GraphEnds(w) \/ Timeout(w)
      BY <1>1, <1>2, <3>1, <3>2, TimeoutEffect DEF GraphEnds, OnlyMoves, GraphsAreAwaited
    <3>3. CASE DeliveryStep(w)
      BY <1>2, <3>3, ClaimDeliveryEffect, PrepareEffect, AskEffect, ReadOutcomeEffect,
         SettleTaskEffect, SaveAnswerEffect, RaiseEffect, HandleFailureEffect, CloseJobEffect
         DEF DeliveryStep, OnlyMoves
    <3> QED
      BY <1>4, <3>1, <3>2, <3>3, WorkerMoves DEF Idler
  <2>2. \A u \in Threads : worker[u].pc # "idle" => u = w
    BY <2>1, BusyAlone
  <2>3. /\ worker[w].pc \in {"answering", "closing"} => Resting
        /\ task.status = "QUEUED" => worker[w].pc \in {"claiming", "retrying"}
        /\ worker[w].pc = "retrying" => WithinBudget
    BY <2>1 DEF DeliveriesRest
  <2>4. \/ worker'[w] = worker[w] \/ DeliveryStep(w)
        \/ worker[w].pc \in {"asking", "awaiting"} /\ worker'[w].pc \in {"raising", "reading"}
    BY <1>1, <1>4, TimeoutEffect, WorkerMoves DEF GraphEnds, GraphsAreAwaited, Idler
  <2>5. ASSUME worker'[w].pc \in {"answering", "closing"} PROVE Resting'
    <3>1. CASE worker'[w] = worker[w]
      BY <1>2, <2>2, <2>3, <2>5, <3>1, RestIsLeft
    <3>2. CASE ClaimDelivery(w)
      BY <2>1, <2>5, <3>2, ClaimDeliveryEffect DEF Deliverable, Resting, QueueIsWritten
    <3>3. CASE ReadOutcome(w)
      BY <2>3, <2>5, <3>3, ReadOutcomeEffect DEF ReadOutcome, Resting
    <3>4. CASE SettleTask(w)
      <4>1. worker[w].goal \in {"NONE", "FAILED", "PAUSED", "COMPLETED"}
        BY <1>1 DEF Delivery
      <4> QED
        BY <2>5, <3>4, <4>1, SettleTaskEffect DEF Resting
    <3>5. CASE SaveAnswer(w)
      BY <2>3, <3>5, SaveAnswerEffect DEF SaveAnswer, Resting
    <3>6. CASE HandleFailure(w)
      BY <2>5, <3>6, HandleFailureEffect DEF Resting, QueueIsWritten
    <3>7. ASSUME Prepare(w) \/ Ask(w) \/ Raise(w) \/ CloseJob(w) PROVE FALSE
      BY <2>5, <3>7, PrepareEffect, AskEffect, RaiseEffect, CloseJobEffect
    <3> QED
      BY <2>4, <2>5, <3>1, <3>2, <3>3, <3>4, <3>5, <3>6, <3>7 DEF DeliveryStep
  <2>6. ASSUME task'.status = "QUEUED" PROVE worker'[w].pc \in {"claiming", "retrying"}
    <3>1. CASE task.status # "QUEUED"
      BY <1>2, <2>2, <2>6, <3>1, BecomesQueued
    <3>2. CASE task.status = "QUEUED"
      <4>1. worker[w].pc \in {"claiming", "retrying"}
        BY <2>3, <3>2
      <4>2. ASSUME ClaimDelivery(w) PROVE FALSE
        BY <2>1, <2>6, <3>2, <4>2, ClaimDeliveryEffect DEF Deliverable, QueueIsWritten
      <4>3. ASSUME DeliveryStep(w), ~ClaimDelivery(w) PROVE FALSE
        <5>1. CloseJob(w)
          BY <4>1, <4>3 DEF DeliveryStep, Prepare, Ask, ReadOutcome, SettleTask, SaveAnswer,
                            Raise, HandleFailure
        <5> QED
          BY <5>1, CloseJobEffect
      <4> QED
        BY <2>4, <4>1, <4>2, <4>3
    <3> QED
      BY <3>1, <3>2
  <2>7. ASSUME worker'[w].pc = "retrying" PROVE WithinBudget'
    <3>1. CASE worker'[w] = worker[w]
      <4>1. \A u \in Threads : ~ClaimDelivery(u)
        BY <2>2, <2>7, <3>1 DEF ClaimDelivery
      <4> QED
        BY <2>3, <2>7, <3>1, <4>1, AttemptsStay DEF WithinBudget
    <3>2. CASE HandleFailure(w)
      BY <2>7, <3>2, HandleFailureEffect DEF WithinBudget
    <3>3. ASSUME DeliveryStep(w), ~HandleFailure(w) PROVE FALSE
      BY <2>7, <3>3, ClaimDeliveryEffect, PrepareEffect, AskEffect, ReadOutcomeEffect,
         SettleTaskEffect, SaveAnswerEffect, RaiseEffect, CloseJobEffect DEF DeliveryStep
    <3> QED
      BY <2>4, <2>7, <3>1, <3>2, <3>3
  <2> QED
    BY <2>5, <2>6, <2>7
<1> QED
  BY <1>3, <1>4

\* Every step.
LEMMA RestStep ==
    ASSUME QueueIsWritten, WorkerTypeOK, QueueInv, GraphsAreAwaited, RestInv, [WorkerNext]_vars
    PROVE  RestInv'
<1> SUFFICES ASSUME OneRescuer' PROVE OldJobsAreLeft' /\ DeliveriesRest' /\ RescuesRest'
  BY DEF RestInv
<1>1. OneRescuer /\ OldJobsAreLeft /\ DeliveriesRest /\ RescuesRest
  BY OneRescuerBefore DEF RestInv
<1> QED
  BY <1>1, OldJobsStep, DeliveryRestStep, RescueRestStep

\* No job is there at first.
LEMMA RestInit == WorkerInit => RestInv
BY DEF WorkerInit, RestInv, OldJobsAreLeft, DeliveriesRest, RescuesRest, Idler, NoRescue

\* While one recovery handles a job and the queue's transactions commit, deliveries and
\* recoveries end with the task at rest.
LEMMA RestInvariant ==
    ASSUME QueueIsWritten
    PROVE  WorkerSpec => []RestInv
<1>1. /\ WorkerTypeOK /\ GraphsAreAwaited /\ QueueInv /\ RestInv /\ [WorkerNext]_vars
      => RestInv'
  BY RestStep
<1> QED
  BY <1>1, RestInit, QueueIsExclusive, PTL DEF WorkerSpec

\* A task that is queued or runs has had a job.
RunsHaveJobs == ~Resting => task.job # 0

LEMMA RunsHaveJobsStep ==
    ASSUME WorkerTypeOK, QueueInv, RunsHaveJobs, [WorkerNext]_vars
    PROVE  RunsHaveJobs'
<1> SUFFICES ASSUME task'.job = task.job, Resting, ~Resting' PROVE task.job # 0
  BY TaskIsEnqueued DEF RunsHaveJobs, Jobs
<1>1. PICK w \in Threads : worker[w].pc = "handling"
  BY RestIsLeft
<1>2. worker[w].job # 0 /\ worker[w].job <= task.job
  BY <1>1 DEF QueueInv, WorkIsEnqueued
<1> QED
  BY <1>2 DEF WorkerTypeOK, RunTypeOK, Delivery

\* It had none at first.
LEMMA RunsHaveJobsInvariant == WorkerSpec => []RunsHaveJobs
<1>1. WorkerTypeOK /\ QueueInv /\ RunsHaveJobs /\ [WorkerNext]_vars => RunsHaveJobs'
  BY RunsHaveJobsStep
<1>2. WorkerInit => RunsHaveJobs
  BY DEF WorkerInit, RunsHaveJobs, Resting
<1> QED
  BY <1>1, <1>2, QueueIsExclusive, PTL DEF WorkerSpec

\* While one recovery handles a job and the queue's transactions commit, a task loses its
\* job only to the delivery of an older job, or when recoveries have used up the attempts
\* that the SDK allows the job.
THEOREM TaskOrphansAreLateOrSpent ==
    ASSUME QueueIsWritten
    PROVE  WorkerSpec => OrphansAreLateOrSpent
<1>1. WorkerTypeOK /\ QueueInv /\ RestInv /\ RunsHaveJobs /\ [WorkerNext]_vars
      => [OneRescuer /\ NoOrphan /\ ~NoOrphan' =>
            \E w \in Threads :
               worker'[w] # worker[w] /\ (worker[w].job # task.job \/ Spent(w))]_vars
  <2> SUFFICES ASSUME WorkerTypeOK, QueueInv, RestInv, RunsHaveJobs, [WorkerNext]_vars,
                      OneRescuer, NoOrphan, ~NoOrphan'
               PROVE  \E w \in Threads :
                         worker'[w] # worker[w] /\ (worker[w].job # task.job \/ Spent(w))
    OBVIOUS
  <2>1. OldJobsAreLeft /\ DeliveriesRest /\ RescuesRest /\ JobsAreExclusive /\ WorkIsEnqueued
    BY DEF RestInv, QueueInv
  <2>2. ~Resting' /\ job'[task'.job].status \notin {"todo", "doing"}
    BY DEF NoOrphan
  <2>3. task'.job = task.job
    BY <2>2, TaskIsEnqueued
  <2>4. task \in TaskRow /\ job \in [Jobs -> JobRow]
    BY DEF WorkerTypeOK, RowsTypeOK
  <2>5. CASE Resting
    <3>1. PICK w \in Threads : HandleFailure(w) /\ worker[w].pc = "handling"
                               /\ worker'[w].pc = "retrying"
      BY <2>2, <2>3, <2>5, RestIsLeft
    <3>2. worker[w].job # 0 /\ job[worker[w].job].status = "doing" /\ job' = job
      BY <2>1, <3>1 DEF HandleFailure, WorkIsEnqueued, JobsAreExclusive
    <3> QED
      BY <2>2, <2>3, <3>1, <3>2
  <2>6. CASE ~Resting
    <3>1. job[task.job].status \in {"todo", "doing"}
      BY <2>6 DEF NoOrphan
    <3>2. task.job \in Jobs
      BY <2>4, <2>6 DEF RunsHaveJobs, TaskRow, Jobs
    <3>3. CASE \E w \in Threads : CloseJob(w) /\ worker[w].job = task.job
      <4>1. PICK w \in Threads : CloseJob(w) /\ worker[w].job = task.job
        BY <3>3
      <4>2. worker[w].pc = "retrying" /\ WithinBudget
        BY <2>1, <2>6, <4>1, CloseJobEffect DEF DeliveriesRest
      <4>3. job[task.job].status = "doing"
        BY <3>2, <4>1, HeldJob
      <4>4. \A k \in Jobs : job[k].status # "todo"
        BY <2>1, <4>3 DEF OldJobsAreLeft
      <4>5. job[worker[w].job].attempts > MaxRetries
        BY <2>2, <2>3, <4>1, <4>2, <4>3, <4>4, CloseJobEffect
      <4> QED
        BY <4>1, <4>2, <4>5, CloseJobEffect DEF Spent, WithinBudget
    <3>4. CASE \E r \in Recoverers : RecoverJob(r) /\ recoverer[r].job = task.job
      <4>1. PICK r \in Recoverers : RecoverJob(r) /\ recoverer[r].job = task.job
        BY <3>4
      <4>2. recoverer[r].pc # "finishing"
        BY <2>1, <2>6, <4>1 DEF RescuesRest
      <4> QED
        BY <2>2, <2>3, <3>1, <4>1, <4>2, RecoverJobEffect
    <3>5. JobMoves(task.job)
      BY <2>2, <2>3, <3>1, <3>2, JobMove
    <3> QED
      BY <2>2, <2>3, <3>3, <3>4, <3>5 DEF JobMoves
  <2> QED
    BY <2>5, <2>6
<1> QED
  BY <1>1, RestInvariant, RunsHaveJobsInvariant, QueueIsExclusive, PTL
     DEF WorkerSpec, OrphansAreLateOrSpent
=============================================================================
