----------------------------- MODULE WorkerTask -----------------------------
(***************************************************************************)
(* One persistent task under worker execution: the API's transactional     *)
(* queue (server/task_queue.py), the worker's delivery and its recovery    *)
(* (server/worker_runtime.py), the task's rows (server/tasks.py), and the  *)
(* graph that executes its steps (server/agent/persistent_workflow.py,     *)
(* tool_workflow.py) under the execution harness.                          *)
(*                                                                         *)
(* Each worker process delivers one job of the task at a time and owns one *)
(* graph thread, which is a thread of module ToolLedger when a step calls  *)
(* a tool.  A harness timeout detaches the graph thread: it goes on by     *)
(* itself, and holds the process's session lock until it ends.             *)
(***************************************************************************)
EXTENDS ToolLedger

CONSTANTS
    N,           \* number of steps of the plan
    Wants,       \* the actions each step may ask of the ledger; none: no tool
    MaxRetries,  \* WORKER_MAX_RETRIES
    MaxTries,    \* attempts of one step
    Recoverers,  \* processes that run recover_stalled
    Outages,     \* transactions during which the database may fail
    MaxJobs, MaxCrashes, MaxTimeouts     \* bounds on what the model explores

ASSUME WorkerAssumption ==
    /\ N \in Nat \ {0}
    /\ Wants \in [1..N -> SUBSET Intents]      \* an intent key names its step
    /\ \A s, u \in 1..N : s # u => Wants[s] \intersect Wants[u] = {}
    /\ MaxRetries \in Nat /\ MaxTries \in Nat
    /\ MaxJobs \in Nat /\ MaxCrashes \in Nat /\ MaxTimeouts \in Nat
    /\ Outages \subseteq {"claim", "handler", "answer"}

VARIABLES
    task,        \* table tasks; job is queue_job_id, the latest job enqueued
    step,        \* table task_steps; ABSENT until the plan is stored
    job,         \* table procrastinate_jobs
    worker,      \* the delivery each worker process is at
    graph,       \* the graph thread of each worker process
    recoverer,   \* what each recover_stalled is at
    office,      \* API requests under way: a cancellation, a decision
    faults       \* history: crashes and timeouts so far, for the bounds; and
                 \* whether two recoveries ever had the same stalled job in hand

runVars  == <<worker, graph>>
sideVars == <<recoverer, office, faults>>
workerVars == <<task, step, job, worker, graph, recoverer, office, faults>>
vars == <<workerVars, ledgerVars>>

Jobs == 1..MaxJobs

Terminal == {"COMPLETED", "CANCELLED", "REQUIRES_RECONCILIATION"}

TaskStatus ==
    {"PENDING", "QUEUED", "RUNNING", "PAUSED", "WAITING_USER", "FAILED"} \union Terminal

StepStatus == {"ABSENT", "PENDING", "RUNNING", "WAITING_USER", "COMPLETED", "FAILED"}

Errors == {"none", "transient", "other"}

WorkerPC ==
    {"idle", "claiming", "preparing", "asking", "awaiting", "reading", "settling",
     "answering", "raising", "handling", "retrying", "closing"}

GraphPC ==
    {"idle", "analyzing", "starting", "working", "tool", "waiting", "interrupting",
     "checkpointing", "evaluating", "turning", "finishing"}

TaskRow ==
    [status : TaskStatus, attempts : Nat, pause : BOOLEAN, cancel : BOOLEAN,
     job : 0..MaxJobs, current : 0..N]

StepRow == [status : StepStatus, tries : 0..MaxTries]

JobRow == [status : {"absent", "todo", "doing", "ended"}, attempts : Nat]

\* first, resume: where the graph will be entered; error: what has been raised.
Delivery ==
    [pc : WorkerPC, job : 0..MaxJobs, error : Errors, first : 1..(N + 1),
     goal : {"NONE", "FAILED", "PAUSED", "COMPLETED"},
     resume : Sensitive \union {NoIntent}]

\* detached: its worker has stopped waiting for it.
GraphThread ==
    [pc : GraphPC, step : 1..(N + 1), ok : BOOLEAN, detached : BOOLEAN,
     goal : {"NONE", "FAILED", "PAUSED", "CANCELLED"},
     resume : Sensitive \union {NoIntent}]

Idler    == [pc |-> "idle", job |-> 0, error |-> "none", goal |-> "NONE",
             first |-> 1, resume |-> NoIntent]
NoGraph  == [pc |-> "idle", step |-> 1, resume |-> NoIntent, ok |-> TRUE,
             goal |-> "NONE", detached |-> FALSE]
NoRescue == [pc |-> "idle", job |-> 0]

WorkerInit ==
    /\ LedgerInit
    /\ task = [status |-> "PENDING", attempts |-> 0, pause |-> FALSE,
               cancel |-> FALSE, job |-> 0, current |-> 0]
    /\ step = [s \in 1..N |-> [status |-> "ABSENT", tries |-> 0]]
    /\ job = [j \in Jobs |-> [status |-> "absent", attempts |-> 0]]
    /\ worker = [w \in Threads |-> Idler]
    /\ graph = [w \in Threads |-> NoGraph]
    /\ recoverer = [r \in Recoverers |-> NoRescue]
    /\ office = [cancelling |-> FALSE, deciding |-> "no", about |-> NoIntent]
    /\ faults = [crashes |-> 0, timeouts |-> 0, overlap |-> FALSE]

-----------------------------------------------------------------------------
(* TaskStore.transition: from which states each state may be entered.       *)

Legal(to) ==
    CASE to = "PAUSED"       -> {"RUNNING", "PENDING", "QUEUED"}
      [] to = "CANCELLED"    -> TaskStatus \ Terminal
      [] to = "COMPLETED"    -> {"RUNNING"}
      [] to = "FAILED"       -> {"RUNNING"}
      [] to = "WAITING_USER" -> {"RUNNING"}
      [] OTHER               -> {}

PendingApproval == \E i \in Intents : approval[i].status = "PENDING"

\* Decided approvals whose execution has not been claimed.
Outstanding ==
    {i \in Sensitive : /\ approval[i].status \in {"APPROVED", "EDITED", "REJECTED"}
                       /\ ~approval[i].consumed}

\* ambiguous_write: an external write may or may not have happened.
AmbiguousWrite == \E i \in Sensitive : exec[i].status \in Ambiguous

\* retryable_read_failure: the current step failed on a read.
FailedRead ==
    /\ task.current > 0
    /\ \E i \in Wants[task.current] \ Sensitive : exec[i].status = "FAILED"

-----------------------------------------------------------------------------
(* The API: PostgresTaskQueue and Phase4Services.decide.                    *)

MayEnqueueCancelled(from) ==    \* mutant: an accepted cancellation is overlooked
    /\ task.status \in from
    /\ ~PendingApproval
    /\ \A j \in Jobs : job[j].status # "todo"
    /\ task.job < MaxJobs

MayEnqueue(from) ==
    /\ task.status \in from
    /\ ~task.cancel
    /\ ~PendingApproval
    /\ \A j \in Jobs : job[j].status # "todo"     \* queueing_lock
    /\ task.job < MaxJobs

ResumableUnreconciled ==        \* mutant: an unreconciled task is resumed
    {"PAUSED", "WAITING_USER", "FAILED", "REQUIRES_RECONCILIATION"}

Resumable == {"PAUSED", "WAITING_USER", "FAILED"}

\* One transaction defers the job and saves the task.
Enqueue(from) ==
    /\ MayEnqueue(from)
    /\ job' = [job EXCEPT ![task.job + 1].status = "todo"]
    /\ task' = [task EXCEPT !.status = "QUEUED", !.pause = FALSE, !.job = @ + 1]

RunTask ==
    /\ Enqueue({"PENDING"})
    /\ UNCHANGED <<step, runVars, sideVars, ledgerVars>>

ResumeTask ==
    /\ Enqueue(Resumable)
    /\ UNCHANGED <<step, runVars, sideVars, ledgerVars>>

\* request_control: a running task is only flagged, any other settles at once.
RequestControl(cancel) ==
    /\ task.status \notin Terminal
    /\ task' = [task EXCEPT
          !.cancel = @ \/ cancel,
          !.pause = @ \/ ~cancel,
          !.status = IF @ = "RUNNING" THEN @
                     ELSE IF cancel THEN "CANCELLED" ELSE "PAUSED"]
    /\ job' = [j \in Jobs |->
          IF task.status # "RUNNING" /\ j = task.job /\ job[j].status = "todo"
          THEN [job[j] EXCEPT !.status = "ended"] ELSE job[j]]

PauseTask ==
    /\ RequestControl(FALSE)
    /\ UNCHANGED <<step, runVars, sideVars, ledgerVars>>

\* The cancel route first cancels the approvals, then asks for the task.
CancelApprovals ==
    /\ ~office.cancelling
    /\ CancelPending
    /\ office' = [office EXCEPT !.cancelling = TRUE]
    /\ UNCHANGED <<task, step, job, runVars, recoverer, faults>>

CancelTask ==
    /\ office.cancelling
    /\ \/ RequestControl(TRUE)
       \/ task.status \in Terminal /\ UNCHANGED <<task, job>>
    /\ office' = [office EXCEPT !.cancelling = FALSE]
    /\ UNCHANGED <<step, runVars, recoverer, faults, ledgerVars>>

\* decide reads the task outside the transaction that stores the decision, ...
ReviewTask(i) ==
    /\ office.deciding = "no"
    /\ approval[i].status # "NONE"
    /\ task.status = "WAITING_USER"
    /\ office' = [office EXCEPT !.deciding = "storing", !.about = i]
    /\ UNCHANGED <<task, step, job, runVars, recoverer, faults, ledgerVars>>

StoreAnyDecision(d) ==          \* mutant: the approval is not read again
    /\ office.deciding = "storing"
    /\ approval' = [approval EXCEPT ![office.about].status = d,
                                    ![office.about].edited = (d = "EDITED")]
    /\ office' = [office EXCEPT !.deciding = "resuming", !.about = NoIntent]
    /\ UNCHANGED <<task, step, job, runVars, recoverer, faults, exec, thread, sent>>

StoreDecision(d) ==
    LET i == office.about IN
    /\ office.deciding = "storing"
    /\ \/ /\ Decide(i, d)
          /\ office' = [office EXCEPT !.deciding = "resuming", !.about = NoIntent]
       \/ /\ approval[i].status # "PENDING" \/ approval[i].consumed
          /\ office' = [office EXCEPT !.deciding = "no", !.about = NoIntent]
          /\ UNCHANGED ledgerVars
    /\ UNCHANGED <<task, step, job, runVars, recoverer, faults>>

\* ... and resumes the task in another, if no decision is outstanding.
ResumeDecided ==
    /\ office.deciding = "resuming"
    /\ \/ Enqueue(Resumable)
       \/ ~MayEnqueue(Resumable) /\ UNCHANGED <<task, job>>
    /\ office' = [office EXCEPT !.deciding = "no"]
    /\ UNCHANGED <<step, runVars, recoverer, faults, ledgerVars>>

-----------------------------------------------------------------------------
(* The worker: the SDK fetches a job, execute_task delivers it.             *)

At(w, pc) == worker' = [worker EXCEPT ![w].pc = pc]

Fail(w, pc, error) == worker' = [worker EXCEPT ![w].pc = pc, ![w].error = error]

\* The execution lock: no two jobs of the task are being executed at a time.
Fetch(w) ==
    /\ worker[w].pc = "idle"
    /\ \A j \in Jobs : job[j].status # "doing"
    /\ \E j \in Jobs :
          /\ job[j].status = "todo"
          /\ job' = [job EXCEPT ![j].status = "doing"]
          /\ worker' = [worker EXCEPT ![w] = [Idler EXCEPT !.pc = "claiming", !.job = j]]
    /\ UNCHANGED <<task, step, graph, sideVars, ledgerVars>>

Deliverable(w) == task.job = worker[w].job /\ task.status \in {"QUEUED", "RUNNING"}

Settle(w, status) == task' = [task EXCEPT !.status = status] /\ At(w, "closing")

\* The first transaction of execute_task revalidates everything.
ClaimDelivery(w) ==
    /\ worker[w].pc = "claiming"
    /\ \/ ~Deliverable(w) /\ At(w, "closing") /\ UNCHANGED task
       \/ "claim" \in Outages /\ At(w, "closing") /\ UNCHANGED task
       \/ /\ Deliverable(w)
          /\ task.cancel \/ task.pause
          /\ Settle(w, IF task.cancel THEN "CANCELLED" ELSE "PAUSED")
       \/ /\ Deliverable(w) /\ ~task.cancel /\ ~task.pause
          /\ \/ AmbiguousWrite /\ Settle(w, "REQUIRES_RECONCILIATION")
             \/ ~AmbiguousWrite /\ Settle(w, "FAILED")     \* authorization denied
             \/ /\ ~AmbiguousWrite
                /\ task' = [task EXCEPT !.status = "RUNNING", !.attempts = @ + 1]
                /\ At(w, "preparing")
    /\ UNCHANGED <<step, job, graph, sideVars, ledgerVars>>

\* The step to begin with: the first that is not completed.
IsNext(s) ==
    /\ s \in 1..N => step[s].status # "COMPLETED"
    /\ \A u \in 1..(s - 1) : step[u].status = "COMPLETED"

\* TaskService.run reads the task, its approvals and steps, before its try block.
Prepare(w) ==
    /\ worker[w].pc = "preparing"
    /\ \/ \E e \in Errors \ {"none"} :
             /\ e = "other" => PendingApproval \/ task.status # "RUNNING"
             /\ Fail(w, "handling", e)
       \/ /\ ~PendingApproval /\ task.status = "RUNNING"
          /\ \E i \in Outstanding \union {NoIntent}, s \in 1..(N + 1) :
                /\ i = NoIntent <=> Outstanding = {}
                /\ IsNext(s)
                /\ worker' = [worker EXCEPT ![w].pc = "asking", ![w].first = s,
                                            ![w].resume = i]
    /\ UNCHANGED <<task, step, job, graph, sideVars, ledgerVars>>

\* The harness's thread takes the session lock, and invokes the graph: from its
\* start, or, with a decided approval, at the node that was interrupted.
Ask(w) ==
    /\ worker[w].pc = "asking"
    /\ graph[w].pc = "idle"
    /\ At(w, "awaiting")
    /\ LET i == worker[w].resume IN
       IF i = NoIntent
       THEN graph' = [graph EXCEPT ![w] =
                        [NoGraph EXCEPT !.pc = "analyzing", !.step = worker[w].first]]
       ELSE \E s \in {u \in 1..N : i \in Wants[u]} :
            graph' = [graph EXCEPT ![w] =
                        [NoGraph EXCEPT !.pc = "starting", !.step = s, !.resume = i]]
    /\ UNCHANGED <<task, step, job, sideVars, ledgerVars>>

\* The harness gives up; a graph thread that runs already is not stopped.
Timeout(w) ==
    /\ worker[w].pc \in {"asking", "awaiting"}
    /\ faults.timeouts < MaxTimeouts
    /\ faults' = [faults EXCEPT !.timeouts = @ + 1]
    /\ Fail(w, "raising", "other")
    /\ graph' = IF worker[w].pc = "awaiting"
                THEN [graph EXCEPT ![w].detached = TRUE] ELSE graph
    /\ UNCHANGED <<task, step, job, recoverer, office, ledgerVars>>

OutcomeByFailure ==            \* mutant: a step not reached is overlooked
    IF \E s \in 1..N : step[s].status = "FAILED" THEN "FAILED" ELSE "COMPLETED"

\* After the answer: what the steps say the task has come to.
Outcome ==
    IF \E s \in 1..N : step[s].status = "FAILED" THEN "FAILED"
    ELSE IF \E s \in 1..N : step[s].status \notin {"COMPLETED", "ABSENT"} THEN "PAUSED"
    ELSE "COMPLETED"

ReadOutcome(w) ==
    /\ worker[w].pc = "reading"
    /\ worker' =
         [worker EXCEPT
            ![w].pc = IF task.status = "RUNNING" THEN "settling" ELSE "answering",
            ![w].goal = Outcome]
    /\ UNCHANGED <<task, step, job, graph, sideVars, ledgerVars>>

\* transition(goal), by run itself or by its except clause.
SettleTask(w) ==
    LET own == worker[w].error = "none" IN
    /\ worker[w].pc = "settling"
    /\ IF task.status \in Legal(worker[w].goal)
       THEN /\ task' = [task EXCEPT !.status = worker[w].goal]
            /\ At(w, IF own THEN "answering" ELSE "handling")
       ELSE /\ Fail(w, IF own THEN "raising" ELSE "handling", "other")
            /\ UNCHANGED task
    /\ UNCHANGED <<step, job, graph, sideVars, ledgerVars>>

\* Only a completed task saves its answer, and not over a row that was written
\* since it was read (TaskConflict); a failed one raises in execute_task.
SaveAnswer(w) ==
    /\ worker[w].pc = "answering"
    /\ \/ task.status = "FAILED" /\ Fail(w, "handling", "other")
       \/ task.status # "FAILED" /\ At(w, "closing")
       \/ /\ worker[w].goal = "COMPLETED" /\ task.status # "COMPLETED"
          /\ Fail(w, "raising", "other")
       \/ "answer" \in Outages /\ Fail(w, "raising", "transient")
    /\ UNCHANGED <<task, step, job, graph, sideVars, ledgerVars>>

\* The except clause of TaskService.run.
Raise(w) ==
    /\ worker[w].pc = "raising"
    /\ IF task.status = "RUNNING"
       THEN worker' = [worker EXCEPT ![w].pc = "settling", ![w].goal = "FAILED"]
       ELSE At(w, "handling")
    /\ UNCHANGED <<task, step, job, graph, sideVars, ledgerVars>>

WithinBudgetLoosely == task.attempts <= MaxRetries + 1     \* mutant: off by one

WithinBudget == task.attempts <= MaxRetries

\* The except clause of execute_task: one transaction classifies and settles.
HandleFailure(w) ==
    /\ worker[w].pc = "handling"
    /\ \/ /\ \E transient \in BOOLEAN :
             LET retryable == ~AmbiguousWrite /\ transient
                 status == IF task.cancel THEN "CANCELLED"
                           ELSE IF AmbiguousWrite THEN "REQUIRES_RECONCILIATION"
                           ELSE IF retryable /\ WithinBudget THEN "QUEUED"
                           ELSE IF task.status \in {"PAUSED", "WAITING_USER", "COMPLETED"}
                                THEN task.status
                           ELSE "FAILED"
             IN /\ worker[w].error = "transient" => transient
                /\ transient => worker[w].error = "transient" \/ FailedRead
                /\ task' = [task EXCEPT !.status = status]
                /\ At(w, IF retryable /\ status = "QUEUED" THEN "retrying" ELSE "closing")
       \/ "handler" \in Outages /\ At(w, "closing") /\ UNCHANGED task
    /\ UNCHANGED <<step, job, graph, sideVars, ledgerVars>>

EndJob(j) ==
    job' = IF job[j].status = "doing" THEN [job EXCEPT ![j].status = "ended"] ELSE job

\* The SDK ends the job, or requeues it for a RetryableTaskError.
CloseJob(w) ==
    LET j == worker[w].job IN
    /\ \/ worker[w].pc = "closing" /\ EndJob(j)
       \/ /\ worker[w].pc = "retrying"
          /\ IF job[j].attempts <= MaxRetries /\ \A k \in Jobs : job[k].status # "todo"
             THEN job' = [job EXCEPT ![j] = [status |-> "todo", attempts |-> @.attempts + 1]]
             ELSE EndJob(j)
    /\ worker' = [worker EXCEPT ![w] = Idler]
    /\ UNCHANGED <<task, step, graph, sideVars, ledgerVars>>

-----------------------------------------------------------------------------
(* The graph: start_step, the step's work, checkpoint and evaluation.       *)

Move(w, pc) == graph' = [graph EXCEPT ![w].pc = pc]

\* The graph thread is over: the worker that still waits for it learns how.
Leave(w, error) ==
    /\ graph' = [graph EXCEPT ![w] = NoGraph]
    /\ IF graph[w].detached THEN UNCHANGED worker
       ELSE Fail(w, IF error = "none" THEN "reading" ELSE "raising", error)

GraphOnly == UNCHANGED <<worker, job, sideVars, ledgerVars>>

AnalyzeReplans(w) ==          \* mutant: the planner does not look for a stored plan
    /\ graph[w].pc = "analyzing"
    /\ step' = [s \in 1..N |-> [step[s] EXCEPT !.status = "PENDING"]]
    /\ Move(w, IF graph[w].step > N THEN "finishing" ELSE "starting")
    /\ UNCHANGED task
    /\ GraphOnly

\* query_analyzer may find a dataset missing; else the planner stores the plan,
\* unless a plan is stored already.
Analyze(w) ==
    /\ graph[w].pc = "analyzing"
    /\ \/ /\ task.status \in Legal("WAITING_USER")
          /\ task' = [task EXCEPT !.status = "WAITING_USER"]
          /\ Move(w, "finishing")
          /\ UNCHANGED step
       \/ /\ step' = [s \in 1..N |-> IF step[s].status = "ABSENT"
                                     THEN [step[s] EXCEPT !.status = "PENDING"] ELSE step[s]]
          /\ Move(w, IF graph[w].step > N THEN "finishing" ELSE "starting")
          /\ UNCHANGED task
    /\ GraphOnly

MayTry(s) == step[s].tries < MaxTries

StartStep(w) ==
    LET s == graph[w].step IN
    /\ graph[w].pc = "starting"
    /\ \/ /\ task.status # "RUNNING" \/ step[s].status = "COMPLETED"
          /\ Move(w, "finishing")
          /\ UNCHANGED <<task, step>>
       \/ /\ task.status = "RUNNING"
          /\ \/ step[s].status = "WAITING_USER" /\ UNCHANGED <<task, step>>
             \/ /\ step[s].status \notin {"WAITING_USER", "COMPLETED"}
                /\ MayTry(s)
                /\ step' = [step EXCEPT ![s] = [status |-> "RUNNING", tries |-> @.tries + 1]]
                /\ task' = [task EXCEPT !.current = s]
          /\ Move(w, IF Wants[s] = {} THEN "working" ELSE "tool")
    /\ GraphOnly

\* A step without a tool; its exceptions are caught and fail the step.
Work(w) ==
    /\ graph[w].pc = "working"
    /\ \E ok \in BOOLEAN :
          graph' = [graph EXCEPT ![w].pc = "checkpointing", ![w].ok = ok]
    /\ UNCHANGED <<task, step>>
    /\ GraphOnly

\* A step with a tool: Phase4Services.execute, from the request to the claim,
\* the call and the receipt.
UseTool(w) ==
    /\ graph[w].pc = "tool"
    /\ \/ \E i \in Wants[graph[w].step] : Request(w, i, graph[w].resume)
       \/ ReadApproval(w) \/ PolicyRefuses(w) \/ Claim(w)
       \/ Guard(w) \/ Call(w) \/ Finish(w)
    /\ UNCHANGED workerVars

\* An unconsumed approval: is the task still running, and the decision open?
CheckTask(w) ==
    /\ graph[w].pc = "tool"
    /\ thread[w].pc = "parking"
    /\ Move(w, IF task.status = "RUNNING" /\ thread[w].read.status = "PENDING"
               THEN "waiting" ELSE "interrupting")
    /\ UNCHANGED <<task, step>>
    /\ GraphOnly

\* wait_for_approval writes both rows, whatever they have become since.
WaitForApproval(w) ==
    /\ graph[w].pc = "waiting"
    /\ task' = [task EXCEPT !.status = "WAITING_USER"]
    /\ step' = [step EXCEPT ![graph[w].step].status = "WAITING_USER"]
    /\ Move(w, "interrupting")
    /\ GraphOnly

InterruptGraph(w) ==
    /\ graph[w].pc = "interrupting"
    /\ Interrupt(w)
    /\ Move(w, "tool")
    /\ UNCHANGED <<task, step, job, worker, sideVars>>

\* The tool returns; an interrupt ends the graph, and the ask successfully.
ToolReturns(w) ==
    /\ graph[w].pc = "tool"
    /\ Return(w)
    /\ IF thread[w].result = "interrupt" THEN Leave(w, "none")
       ELSE /\ graph' = [graph EXCEPT ![w].pc = "checkpointing", ![w].resume = NoIntent,
                                      ![w].ok = thread[w].result \in {"success", "rejected"}]
            /\ UNCHANGED worker
    /\ UNCHANGED <<task, step, job, sideVars>>

\* Whatever the thread was about is left where it is; its rows stay.
Abandon(w) == Die(w) \/ (thread[w].pc = "idle" /\ UNCHANGED ledgerVars)

\* An exception in execute, or before it, fails the step.
ToolBreaks(w) ==
    /\ graph[w].pc \in {"tool", "waiting", "interrupting"}
    /\ Abandon(w)
    /\ graph' = [graph EXCEPT ![w].pc = "checkpointing", ![w].resume = NoIntent,
                              ![w].ok = FALSE]
    /\ UNCHANGED <<task, step, job, worker, sideVars>>

Checkpoint(w) ==
    LET s == graph[w].step IN
    /\ graph[w].pc = "checkpointing"
    /\ step' = [step EXCEPT ![s].status =
                  IF @ = "COMPLETED" \/ graph[w].ok THEN "COMPLETED" ELSE "FAILED"]
    /\ Move(w, "evaluating")
    /\ UNCHANGED task
    /\ GraphOnly

\* The boundary between two steps: the task is read here, and moved below.
Evaluate(w) ==
    LET turn(goal) == graph' = [graph EXCEPT ![w].pc = "turning", ![w].goal = goal] IN
    /\ graph[w].pc = "evaluating"
    /\ IF task.status # "RUNNING" THEN Move(w, "finishing")
       ELSE IF task.cancel THEN turn("CANCELLED")
       ELSE IF task.pause THEN turn("PAUSED")
       ELSE IF ~graph[w].ok THEN turn("FAILED")
       ELSE IF graph[w].step = N THEN Move(w, "finishing")
       ELSE \/ turn("PAUSED")                        \* max_steps is reached
            \/ graph' = [graph EXCEPT ![w].pc = "starting", ![w].step = @ + 1]
    /\ UNCHANGED <<task, step>>
    /\ GraphOnly

Turn(w) ==
    /\ graph[w].pc = "turning"
    /\ task.status \in Legal(graph[w].goal)
    /\ task' = [task EXCEPT !.status = graph[w].goal]
    /\ Move(w, "finishing")
    /\ UNCHANGED step
    /\ GraphOnly

\* The answer is written, verified, and saved in the session.
FinishGraph(w) ==
    /\ graph[w].pc = "finishing"
    /\ Leave(w, "none")
    /\ UNCHANGED <<task, step, job, sideVars, ledgerVars>>

\* A node raises outside the executor's try block: an illegal transition, a step
\* with no attempt left, a model or database error.
GraphRaises(w) ==
    /\ graph[w].pc \in
         {"analyzing", "starting", "checkpointing", "evaluating", "turning", "finishing"}
    /\ \E e \in Errors \ {"none"} : Leave(w, e)
    /\ UNCHANGED <<task, step, job, sideVars, ledgerVars>>

-----------------------------------------------------------------------------
(* Crashes, and recover_stalled.                                            *)

\* A worker process dies, with its graph thread and what it was doing.
Crash(w) ==
    /\ faults.crashes < MaxCrashes
    /\ faults' = [faults EXCEPT !.crashes = @ + 1]
    /\ worker[w].pc # "idle" \/ graph[w].pc # "idle"
    /\ worker' = [worker EXCEPT ![w] = Idler]
    /\ graph' = [graph EXCEPT ![w] = NoGraph]
    /\ Abandon(w)
    /\ UNCHANGED <<task, step, job, recoverer, office>>

StalledByAge(j) == job[j].status = "doing"       \* mutant: long jobs are recovered

StalledRunning(j) ==               \* mutant: only a claimed task is looked for
    /\ job[j].status = "doing" /\ \A w \in Threads : worker[w].job # j
    /\ task.status = "RUNNING"

StalledWanted(j) ==                \* mutant: a cancelled task is not looked for
    /\ job[j].status = "doing" /\ \A w \in Threads : worker[w].job # j
    /\ ~task.cancel

\* The heartbeat of the process that executes the job has stopped.
Stalled(j) ==
    job[j].status = "doing" /\ \A w \in Threads : worker[w].job # j

ListStalled(r) ==
    /\ recoverer[r].pc = "idle"
    /\ \E j \in Jobs :
          /\ Stalled(j)
          /\ recoverer' = [recoverer EXCEPT ![r] = [pc |-> "listed", job |-> j]]
          /\ faults' = [faults EXCEPT !.overlap =
                           @ \/ \E q \in Recoverers : recoverer[q].job = j]
    /\ UNCHANGED <<task, step, job, runVars, office, ledgerVars>>

Recover(r) ==
    LET j == recoverer[r].job
        mine == task.job = j /\ task.status \in {"QUEUED", "RUNNING"}
        to(pc) == recoverer' = [recoverer EXCEPT ![r].pc = pc]
    IN
    /\ recoverer[r].pc = "listed"
    /\ IF mine /\ (AmbiguousWrite \/ ~WithinBudget)
       THEN /\ task' = [task EXCEPT !.status = IF AmbiguousWrite
                          THEN "REQUIRES_RECONCILIATION" ELSE "FAILED"]
            /\ to("finishing")
       ELSE /\ UNCHANGED task
            /\ to(IF mine THEN "retrying" ELSE "finishing")
    /\ UNCHANGED <<step, job, runVars, office, faults, ledgerVars>>

\* The SDK retries or ends the job, outside the transaction that decided so.
RecoverJob(r) ==
    LET j == recoverer[r].job IN
    /\ \/ recoverer[r].pc = "finishing" /\ EndJob(j)
       \/ /\ recoverer[r].pc = "retrying"
          /\ IF job[j].status = "doing" /\ \A k \in Jobs : job[k].status # "todo"
             THEN job' = [job EXCEPT ![j] = [status |-> "todo", attempts |-> @.attempts + 1]]
             ELSE UNCHANGED job
    /\ recoverer' = [recoverer EXCEPT ![r] = NoRescue]
    /\ UNCHANGED <<task, step, runVars, office, faults, ledgerVars>>

RescuerDies(r) ==
    /\ faults.crashes < MaxCrashes
    /\ faults' = [faults EXCEPT !.crashes = @ + 1]
    /\ recoverer[r].pc # "idle"
    /\ recoverer' = [recoverer EXCEPT ![r] = NoRescue]
    /\ UNCHANGED <<task, step, job, runVars, office, ledgerVars>>

ApiStep ==
    \/ RunTask \/ ResumeTask \/ PauseTask \/ CancelApprovals \/ CancelTask
    \/ \E i \in Sensitive : ReviewTask(i)
    \/ \E d \in {"APPROVED", "EDITED", "REJECTED"} : StoreDecision(d)
    \/ ResumeDecided

DeliveryStep(w) ==
    \/ ClaimDelivery(w) \/ Prepare(w) \/ Ask(w) \/ ReadOutcome(w) \/ SettleTask(w)
    \/ SaveAnswer(w) \/ Raise(w) \/ HandleFailure(w) \/ CloseJob(w)

GraphStep(w) ==
    \/ Analyze(w) \/ StartStep(w) \/ Work(w) \/ UseTool(w) \/ CheckTask(w)
    \/ WaitForApproval(w) \/ InterruptGraph(w) \/ ToolReturns(w) \/ ToolBreaks(w)
    \/ Checkpoint(w) \/ Evaluate(w) \/ Turn(w) \/ FinishGraph(w) \/ GraphRaises(w)

RescueStep(r) == ListStalled(r) \/ Recover(r) \/ RecoverJob(r)

WorkerNext ==
    \/ ApiStep
    \/ \E w \in Threads :
          Fetch(w) \/ DeliveryStep(w) \/ GraphStep(w) \/ Timeout(w) \/ Crash(w)
    \/ \E r \in Recoverers : RescueStep(r) \/ RescuerDies(r)

WorkerSpec == WorkerInit /\ [][WorkerNext]_vars

\* Workers, graphs, recovery and a begun cancellation go on; humans need not, and
\* nothing has to crash or time out.
FairSpec ==
    /\ WorkerSpec
    /\ \A w \in Threads : /\ WF_vars(Fetch(w))
                          /\ WF_vars(DeliveryStep(w))
                          /\ WF_vars(GraphStep(w))
    /\ \A r \in Recoverers : WF_vars(RescueStep(r))
    /\ WF_vars(CancelTask)

-----------------------------------------------------------------------------
(* Properties *)

\* The rows have their types, and deliveries, graphs and requests as well: a graph
\* that is inside a step is at a step of the plan.
RowsTypeOK ==
    /\ task \in TaskRow
    /\ step \in [1..N -> StepRow]
    /\ job \in [Jobs -> JobRow]

RunTypeOK ==
    /\ worker \in [Threads -> Delivery]
    /\ graph \in [Threads -> GraphThread]
    /\ \A w \in Threads :
          graph[w].pc \notin {"idle", "analyzing", "finishing"} => graph[w].step \in 1..N

SideTypeOK ==
    /\ recoverer \in [Recoverers -> [pc : {"idle", "listed", "retrying", "finishing"},
                                     job : 0..MaxJobs]]
    /\ office \in [cancelling : BOOLEAN, deciding : {"no", "storing", "resuming"},
                   about : Sensitive \union {NoIntent}]
    /\ office.deciding = "storing" => office.about \in Sensitive
    /\ faults \in [crashes : 0..MaxCrashes, timeouts : 0..MaxTimeouts, overlap : BOOLEAN]

WorkerTypeOK == RowsTypeOK /\ RunTypeOK /\ SideTypeOK

\* No two recoveries have had one stalled job in hand: recover_stalled lists the
\* jobs first and retries them later, and every worker process runs it.
OneRescuer == ~faults.overlap

\* Besides, no harness timeout has left a graph to go on by itself.
Undisturbed == OneRescuer /\ faults.timeouts = 0

\* A completed task is whole: every step is completed, and every external action
\* its steps asked for was settled, none of them failed or still undecided, timed
\* out graphs or not.
CompletedIsWhole ==
    OneRescuer /\ task.status = "COMPLETED" =>
        \A s \in 1..N :
            /\ step[s].status = "COMPLETED"
            /\ \A i \in Wants[s] \intersect Sensitive :
                  exec[i].status \in Settled \union {"NONE"}

\* Two deliveries never execute the task at the same time, whoever dies and is
\* recovered, as long as one recovery handles a job.
Executing(w) ==
    worker[w].pc \in {"preparing", "asking", "awaiting", "reading", "settling",
                      "answering", "raising", "handling"}

OneRunner ==
    OneRescuer => \A w, u \in Threads : Executing(w) /\ Executing(u) => w = u

\* The execution lock prevents overlapping task execution, unconditionally.
ExecutionIsLocked ==
    \A w, u \in Threads : Executing(w) /\ Executing(u) => w = u

Resting == task.status \notin {"QUEUED", "RUNNING"}

\* A task that waits for a worker has a job that will bring one.
NoOrphan ==
    ~Resting => job[task.job].status \in {"todo", "doing"}

\* While one recovery handles a job, a task loses its job in two ways only: to the
\* delivery of an older job, or because recoveries have used up the attempts that
\* the SDK allows the job, while the task still has runs left.
Spent(w) ==
    /\ worker[w].pc = "retrying"
    /\ job[worker[w].job].attempts > MaxRetries
    /\ task.attempts <= MaxRetries

OrphansAreLateOrSpent ==
    [][OneRescuer /\ NoOrphan /\ ~NoOrphan' =>
          \E w \in Threads :
             worker'[w] # worker[w] /\ (worker[w].job # task.job \/ Spent(w))]_vars

\* A paused task that was not asked to cancel can be resumed.
PausedCanResume == task.status = "PAUSED" /\ ~task.cancel => ~PendingApproval

\* The agent runs the task at most MaxRetries times more often than humans asked
\* for, whether handler or recovery asks for the reruns.
RerunsAreBounded == OneRescuer => task.attempts <= MaxRetries + task.job

\* A terminal status is never left, but by the handler of the delivery that
\* completed the task and then could not save its answer: it spares a completed
\* task from FAILED, not from the retry (worker_runtime.py:123).
AnswerIsLost ==
    \E w \in Threads : /\ worker[w].pc = "handling" /\ worker[w].error = "transient"
                       /\ worker[w].goal = "COMPLETED"

TerminalIsFinal ==
    [][Undisturbed /\ task.status \in Terminal /\ task'.status # task.status =>
          task.status = "COMPLETED" /\ task'.status \in {"QUEUED", "CANCELLED"} /\ AnswerIsLost]_vars

\* A task at rest with an accepted cancellation is never queued or run again.
CancelledNeverRunsAgain == [][task.cancel /\ Resting => Resting']_vars

\* A completed step stays so, whoever checkpoints it, retries or runs the task again.
DoneStepsStay ==
    [][Undisturbed =>
          \A s \in 1..N : step[s].status = "COMPLETED" => step'[s] = step[s]]_vars

\* The same without the condition: a graph that outlived its harness included.
StepsStayDone ==
    [][\A s \in 1..N : step[s].status = "COMPLETED" => step'[s] = step[s]]_vars

\* A delivery of a job the task no longer names never changes the task's status.
StaleDeliveryIsInert ==
    [][\A w \in Threads :
          worker[w].job # task.job /\ worker'[w] # worker[w] =>
              task'.status = task.status]_vars

\* An accepted cancellation takes hold: some time after, and for good, the task is
\* neither queued nor running.
CancelTakesHold == task.cancel ~> []Resting

\* Every delivery that is due comes to an end, in spite of crashes: unless an older
\* delivery takes its job away, the task comes to rest.
DeliveriesSettle == (~Resting /\ NoOrphan) ~> (Resting \/ ~NoOrphan)

\* The tool calls of the task are calls of the ledger.
UsesLedger == LedgerSpec

-----------------------------------------------------------------------------
(* The inductive invariants behind these properties.                        *)

\* Whoever is at work is at work on a job, and the task knows the latest one.
WorkIsEnqueued ==
    /\ \A w \in Threads : worker[w].pc = "idle" <=> worker[w].job = 0
    /\ \A w \in Threads : worker[w].job <= task.job
    /\ \A r \in Recoverers : recoverer[r].pc = "idle" <=> recoverer[r].job = 0
    /\ \A j \in Jobs : job[j].status # "absent" => j <= task.job

\* While one recovery handles a job: one job is executed, by one worker or, when it
\* is stalled, by none.
JobsAreExclusive ==
    /\ \A j, k \in Jobs : job[j].status = "doing" /\ job[k].status = "doing" => j = k
    /\ \A w \in Threads : worker[w].job # 0 => job[worker[w].job].status = "doing"
    /\ \A w, u \in Threads : worker[w].job # 0 /\ worker[w].job = worker[u].job => w = u
    /\ \A r \in Recoverers : recoverer[r].job # 0 => Stalled(recoverer[r].job)
    /\ \A r, q \in Recoverers :
          recoverer[r].job # 0 /\ recoverer[r].job = recoverer[q].job => r = q

QueueInv == WorkIsEnqueued /\ (OneRescuer => JobsAreExclusive)

\* One more run may come of the job the task names.
Claimable ==
    \/ task.job # 0 /\ job[task.job].status = "todo"
    \/ \E w \in Threads :
          worker[w].job = task.job /\ worker[w].pc \in {"claiming", "retrying"}
    \/ \E r \in Recoverers : recoverer[r].job = task.job /\ recoverer[r].pc = "retrying"

RerunInv ==
    OneRescuer => /\ task.attempts <= MaxRetries + task.job
                  /\ Claimable => task.attempts < MaxRetries + task.job

\* A worker awaits the graph of its process, unless a timeout has detached it.
GraphsAreAwaited ==
    \A w \in Threads :
        /\ worker[w].pc = "awaiting" <=> graph[w].pc # "idle" /\ ~graph[w].detached
        /\ graph[w].detached => faults.timeouts > 0

\* A thread of the ledger serves the step its graph is at, and what it returns as
\* done has been settled.
ServesStep(w) ==
    /\ thread[w].pc # "idle" =>
          /\ graph[w].pc \in {"tool", "waiting", "interrupting"}
          /\ thread[w].intent \in Wants[graph[w].step]
    /\ thread[w].pc = "finishing" => thread[w].result \in {"success", "failure"}
    /\ thread[w].pc = "returned" /\ thread[w].result \in {"success", "rejected"}
          /\ thread[w].intent \in Sensitive
       => exec[thread[w].intent].status \in Settled
    /\ graph[w].pc = "working" => Wants[graph[w].step] = {}

ThreadsServeSteps == \A w \in Threads : ServesStep(w)

\* An action is known to the ledger only as the action of a step.
ActionsAreWanted ==
    \A i \in Intents : exec[i].status # "NONE" => \E s \in 1..N : i \in Wants[s]

Planned == \A s \in 1..N : step[s].status # "ABSENT"

\* The plan is stored before anything is done for it.
PlanIsFirst ==
    /\ \A i \in Sensitive : approval[i].status # "NONE" => Planned
    /\ \A w \in Threads :
          /\ graph[w].pc \notin {"idle", "analyzing", "finishing"} => Planned
          /\ worker[w].pc = "asking" /\ worker[w].resume # NoIntent => Planned

SettledStep(s) == \A i \in Wants[s] \intersect Sensitive : exec[i].status \in Settled

\* A step is completed after its action was settled.
StepsAreSettled ==
    /\ \A w \in Threads :
          graph[w].pc = "checkpointing" /\ graph[w].ok => SettledStep(graph[w].step)
    /\ \A s \in 1..N : step[s].status = "COMPLETED" => SettledStep(s)

AllDone == \A s \in 1..N : step[s].status = "COMPLETED"

\* While one recovery handles a job: a run that may complete the task has a plan,
\* and completes it when all steps are completed.
RunsAreWhole ==
    /\ \A w \in Threads :
          /\ graph[w].pc = "finishing" /\ ~graph[w].detached /\ task.status = "RUNNING"
             => Planned
          /\ worker[w].pc = "reading" /\ task.status = "RUNNING" => Planned
          /\ worker[w].pc = "settling" /\ worker[w].goal = "COMPLETED"
                /\ task.status = "RUNNING"
             => AllDone
    /\ task.status = "COMPLETED" => AllDone

WholeInv ==
    /\ GraphsAreAwaited /\ ThreadsServeSteps /\ ActionsAreWanted /\ PlanIsFirst
    /\ StepsAreSettled /\ (OneRescuer => RunsAreWhole)

\* What a delivery has raised, aims at and was asked to cancel is consistent.
GoalsAreSound ==
    /\ task.status = "CANCELLED" => task.cancel
    /\ \A w \in Threads :
          /\ graph[w].pc = "turning" /\ graph[w].goal = "CANCELLED" => task.cancel
          /\ worker[w].pc = "reading" => worker[w].error = "none"
          /\ worker[w].pc = "settling" /\ worker[w].goal # "FAILED" => worker[w].error = "none"

\* While nothing disturbs it: a graph inside a step works on an open step, a wait is
\* decided on a running task, and a terminal task is executed only to save its answer.
StepsAreOpen ==
    \A w \in Threads :
        /\ graph[w].pc \in {"working", "tool", "waiting", "interrupting"} =>
              step[graph[w].step].status # "COMPLETED"
        /\ graph[w].pc = "waiting" => task.status = "RUNNING"

OnlyAnswersFollow ==
    \A w \in Threads : Executing(w) =>
        /\ task.status # "REQUIRES_RECONCILIATION"
        /\ task.status = "COMPLETED" =>
              /\ worker[w].pc \in {"answering", "raising", "handling"}
              /\ worker[w].goal = "COMPLETED"
              /\ worker[w].pc # "answering" => worker[w].error = "transient"

FinalInv == GoalsAreSound /\ (Undisturbed => StepsAreOpen /\ OnlyAnswersFollow)

\* While one recovery handles a job and the queue's transactions commit: an older job
\* waits only when the task's own is over; the delivery of the task's own job ends with
\* the task at rest, or asks for another run in its budget; recovery ends it at rest.
OldJobsAreLeft ==
    \A k \in Jobs : job[k].status = "todo" /\ k # task.job =>
        task.job # 0 /\ job[task.job].status \notin {"todo", "doing"}

DeliveriesRest ==
    \A w \in Threads : worker[w].job = task.job =>
        /\ worker[w].pc \in {"answering", "closing"} => Resting
        /\ task.status = "QUEUED" => worker[w].pc \in {"idle", "claiming", "retrying"}
        /\ worker[w].pc = "retrying" => WithinBudget

RescuesRest ==
    \A r \in Recoverers :
        recoverer[r].job = task.job /\ recoverer[r].pc = "finishing" => Resting

RestInv == OneRescuer => OldJobsAreLeft /\ DeliveriesRest /\ RescuesRest

\* The transactions that claim a delivery and classify its failure commit.
QueueIsWritten == Outages \subseteq {"answer"}

\* A step with a sensitive action asks for this action only: its plan fixes the
\* arguments, and its capability names the same tool at every run.
StepsAskForOne ==
    \A s \in 1..N : \A i \in Wants[s] \intersect Sensitive : Wants[s] = {i}
=============================================================================
