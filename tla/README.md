# agentic-rag-studio: a TLA+ verification project

The program is a research workspace: a FastAPI application that answers questions over
documents, data sets and external tools with LangGraph workflows, and that runs long
*tasks* in separate worker processes over a PostgreSQL queue (Procrastinate). What is hard
in it is not the answering but the durability: tasks that are paused, cancelled, retried,
interrupted for a human decision and recovered after a crash, while their steps call tools
that post to the outside world. This project models that core, checks it with TLC and proves
the central facts with TLAPS. Beside that core it models the supervisor that delegates work to
parallel specialists, and the services whose rows several requests or processes touch at once.

## 1. Inventory

| Component (under `src/server/`) | State | Operations | What makes it correct | Status |
|---|---|---|---|---|
| Tool action ledger: `tool_actions.py`, `phase4.py` | tables `tool_executions`, `approval_requests` | request, decide, claim, guard, call, finish, cancel_pending | an external action is sent at most once, only as decided, and the receipt says what happened | `ToolLedger` |
| Durable task: `tasks.py` | `tasks`, `task_steps` | create, transition, set_plan, start_step, checkpoint, wait_for_approval | terminal is final, completed means whole, done steps stay done | `WorkerTask` |
| Queue and worker: `task_queue.py`, `worker_runtime.py`, `worker.py` | `procrastinate_jobs`, heartbeats | enqueue, request_control, execute_task, recover_stalled | one runner, bounded retries, no orphan, cancellation takes hold | `WorkerTask` |
| Task graph: `agent/persistent_workflow.py`, `agent/tool_workflow.py` | graph state, checkpoints | analyze, plan, step, tool, evaluate, boundary | follows the rows of its task; stops at boundaries | `WorkerTask` |
| Execution harness: `agent/execution_harness.py` | thread pool, lock per session | run with a total timeout, retries | a timeout never corrupts what a later run does | `ChatSession`, timeout also in `WorkerTask` |
| Chat sessions: `sessions.py` | table `sessions`, a runtime cached per process, a lock per session | ask, restore, save | no answered turn of a conversation is lost, a timed out chat never appears, a timed out run only in its task's thread | `ChatSession` |
| Delegation ledger and budget: `agent_runs.py`, `agent/efficiency.py` | `agent_runs`, `agent_delegations`, the budget in the supervisor's row | create, start, finish, cancel, reserve, claim memory | one result per delegation, what is reserved is what exists, cancelled stays cancelled | `AgentRuns` |
| Supervisor: `agent/orchestration.py`, `agent/efficient_orchestration.py`, `agent/specialized_agents.py` | plan and groups in the supervisor run, checkpoint of the graph | route, plan, dispatch, merge, review, redelegate, finalize | no delegation skipped, no execution replayed, one round of revisions, always an end | `Orchestration` |
| Accounts: `auth/service.py`, `auth/store.py` | `users`, `refresh_tokens` | register, login, refresh, logout, change_password, operator commands | one live token per family, of the present password of an active account | `Accounts`, `TokenFamily` |
| Membership: `auth/authorization.py`, `auth/scoped.py`, `workspaces.py` | `workspaces`, `workspace_memberships`, `workspace_documents` | authorize, change_member, register, remove, delete | an owner always remains, no document outlives its workspace | `Membership` |
| Permissions of tool calls: `auth/authorization.py`, `auth/scoped.py`, `phase4.py` | roles over the rows of a task and its approval | run, request, decide, claim, settle | the actor is entitled when it counts, and someone can decide | `Permissions` |
| Ingestion: `rag/ingestion.py`, `rag/index_worker.py` | `indexes`, PDFs, index directories, staging, a lock per file and process | ingest, delete, fail_interrupted | a ready file has an index, a row in progress has someone at work on it | `Ingestion` |
| Memory: `memory.py` | `long_term_memories`, status in a column and in the payload | create, update, delete, retrieve | one active memory per conflict key | `Memories` |
| Data and analysis: `data_assets.py`, `analysis_runtime.py`, `analysis_worker.py` | `data_assets`, `analysis_executions`, `artifacts`, files | upload, delete, run, register | a row has its file, a receipt agrees with its artifacts | `DataAssets` |
| Chat workflow: `agent/nodes.py`, `agent/research_workflow.py`, `agent/graph.py`, and what `agent/persistent_workflow.py` and `agent/tool_workflow.py` override for a chat | graph state of one question | analyze, plan, execute, grade, refine, fall back, generate, verify, revise | scope kept, local evidence first, bounded rounds, only accepted drafts shown | `ResearchRun` |
| Citations: `agent/evidence.py` | evidence of a turn | render_citations | every label shown stands for evidence that was found | `Citations` |
| Context harness: `agent/context_harness.py` | none | prepare | what is handed out fits the budget and is made of whole turns | `ContextWindow` |
| Tool registry, MCP, policy: `tool_registry.py`, `mcp_client.py`, `tool_policy.py` | definitions, health, session copy, snapshot of a run | discover, load, freeze, propose, decide, resume, call | a run calls what it froze, an approval what it showed | `ToolProviders` |
| Retrieval: `rag/workspace_retrieval.py`, `rag/retrieval.py` | slots of the session, futures | search, admit, time out, fuse, select | slots come back, comparisons see every document | `Retrieval` |
| Inline task mode: `tasks.py` without a queue | - | - | - | not modelled |
| Authentication middleware, database runtime, HTTP, configuration, observability | - | - | - | not modelled |
| `client/`, `evaluation/`, `scripts/` | - | - | - | not modelled |

How they interact. The API process and each worker process hold the same services over one
database. A route (`phase3_api.py`) calls the queue, which defers a job *in the transaction*
that saves the task. A worker's SDK loop fetches the job under the execution lock of its task
and calls `execute_task`: a claim transaction, then `TaskService.run`, which asks the chat
session of the task, which runs the graph in a thread of the harness, which writes steps and
calls tools through the ledger. A chat asks its session the same way, in the API process. Failures come back up the same chain and are classified in a
second transaction of `execute_task`. Processes share nothing but the database; inside a
process, the harness's session lock and its thread pool are shared. In supervisor mode the
graph of a task is the supervisor's: its nodes write the delegation ledger, its parallel
specialists answer into it, and the budget in the supervisor's row is shared by all of them.
The services of the second half of the table are called from routes and from tools, and each
keeps its own tables; only the roles of a workspace decide over the others (`Permissions`).

The hard behaviours, all listed with their line in `PROJECT.json`: threads that race for one
action; rows read in one transaction and used in a later one; a process that dies between
claim, call and receipt; a harness timeout that cannot stop its thread; a job of an older
generation delivered late; recovery that settles in one transaction and acts in another;
pause, cancel and decision arriving at any of these moments.

## 2. Modules

* `ToolEffect` - the promise of one external action, as an abstract state machine: proposed,
  authorised or refused, committed, sent, closed.
* `ToolLedger` - how `ToolActionStore` and `Phase4Services.execute` keep it. `exec` and
  `approval` are the two rows of an action, `thread` is what one execution of `execute` holds
  in its variables (the approval it read, the result), `sent` counts what the provider
  received. Each transaction is an action, and so is each step between two of them, the
  provider call included. Arguments are abstracted to one bit, *edited or not*, which is all
  the guard's hash comparison can tell apart. `Die` loses a thread at any point.
* `WorkerTask` - one task in worker mode, composed with `ToolLedger` (EXTENDS: the graph
  thread of a worker *is* a thread of the ledger). `task`, `step`, `job` are rows; `worker`,
  `graph`, `recoverer`, `office` are what the worker's delivery, its graph thread, a recovery
  and an API request under way keep in memory between two transactions.
* `ChatSession` - `ask` over the execution harness, in several processes. `row` is what the
  table holds, `cache` the conversation each process keeps, `holder` the session lock, `ask`
  and `job` the two sides of a future (the asking thread and the pool), `queue` the work items
  no thread has taken, `report` the field `last_report`, `checkpoint` the thread of the graph
  that all runs of a task share: its messages, the run that waits there for a decision, and
  whether its graph came to an end. A run of a task starts from it: it resumes it, or merges its
  own conversation into it (`add_messages`), a run that timed out included. It stands beside `WorkerTask` and not above it: `WorkerTask` knows
  what a task run does to its rows, `ChatSession` what any run does to the conversation.
* `AgentRuns` - the rows of a supervisor's delegations and the aggregate budget, one operator
  or action for each method of `AgentRunStore` and `BudgetManager`, each a transaction.
* `Orchestration` - the supervisor's graph over `AgentRuns` (EXTENDS). `graph` is what each
  execution of the graph is at, `agent` the specialists it has sent out, `saved` the last
  checkpoint, `copy` the budget a request has read and is about to write back, `task` the
  task's row as far as the graph meets it. A node's updates reach the checkpoint when it ends;
  what it does inside is a step of its own, so a crash between two of them replays the node
  against rows that are half done. Two graphs overlap after a timeout.
* `TokenFamily` - the promise of a sign-in, as an abstract state machine: a family of refresh
  tokens begins, hands over to a successor, ends, and ends with the password or the status of
  its person. `Accounts` keeps it in rows that are used, revoked or expired one by one.
* `Accounts`, `Membership`, `Ingestion`, `Memories`, `DataAssets` - one service each, several
  requests at once, with what a request read before its own transaction kept in a variable of
  the request (`caller`, `request`, `upload`, `writer`, `sender`).
* `Permissions` - one tool call of one task from its proposal to its receipt, over
  `Membership` (EXTENDS): every access asks the policy before the transaction it guards, and
  roles change in between.
* `ResearchRun` - the graph of one question as the server deploys it (`agent/graph.py:46-58`):
  the nodes of `ResearchWorkflowNodes` with what the classes for data assets and for MCP tools
  override in analysis, planning and execution. Which sources are searched, in what order and
  how often, and which draft is shown. `extras` says which of the two a chat has; a step of a
  plan is a search, a use of the data or an MCP call. `Citations` - what becomes of the citations of that draft.
* `ContextWindow`, `Retrieval` - the two algorithms with data of their own: what of a
  conversation fits a token budget, and parallel searches, fusion and selection. Their
  functions are operators; the second has the threads and the deadline as actions.
* `ToolProviders` - discovery, the session's copy, a run's snapshot, the policy, and one call
  through all of them.
* `Sifting` - what a sort, a filter and a sum make of a list, said of its places. `Citations`,
  `ContextWindow` and `Retrieval` are written with it, because these are functions a proof can
  unfold, where `SelectSeq`, `SortSeq` and the folds of the libraries are not.
* `ToolLedgerProofs`, `WorkerTaskProofs`, `ChatSessionProofs`, `OrchestrationProofs` - the
  theorems and their proofs, one module beside each component; `AccessProofs` (`Accounts`,
  `Membership`, `Permissions`), `StorageProofs` (`DataAssets`, `Ingestion`, `Memories`),
  `ResearchProofs` (`ResearchRun`, `ToolProviders`) and `AnswerProofs` (`Citations`,
  `ContextWindow`, `Retrieval`) - those of several services that go together. `WorkerTask` states
  its inductive invariants itself, next to the properties they are for, so that a run can check
  them too.
* `MCToolLedger`, `MCWorkerTask`, `MCChatSession`, `MCOrchestration` - the small instances.
  `MCServices` - twelve services, the chat of one process among them, in one state space: `focus` is the service a behaviour
  explores, the others rest in one initial state. They share no table a property speaks of,
  so their product would add states and no behaviour.

Correspondence of `WorkerTask` with the code: `RunTask`, `ResumeTask`, `PauseTask` are
`enqueue` and `request_control`, a transaction each; `CancelApprovals` then `CancelTask` are
the two halves of the cancel route; `ReviewTask`, `StoreDecision`, `ResumeDecided` are the
three transactions of `Phase4Services.decide`; `Fetch` and `CloseJob` are the SDK around
`ClaimDelivery ... HandleFailure`, which are `execute_task` and `TaskService.run`;
`Analyze ... FinishGraph` are the nodes of the graph; `ListStalled`, `Recover`, `RecoverJob`
are `recover_stalled`. `PROJECT.json` maps every definition to its lines.

Correspondence of `ChatSession`: `Submit` is `ask` up to `execution_harness.run`, lock and
restoration included; `Timeout`, `Save`, `Reply`, `Interrupted` and `Fail` are the ways out of
it (the save and the cached list are two writes, so two actions); `Start`, `EnterSession`,
`Prepare` and `Answers`, `Interrupts`, `Raises` are a pool thread in `_run_for_session` and
`_run_locked`. A timeout of a job no thread has taken withdraws it (`future.cancel`), and sets
the event for the others. `Submit` also resumes a run that waits for a decision and asks a task
again that failed, timed out or paused; `StartsFrom` is what its graph begins with.

Correspondence of `Orchestration`: `Deliver`, `CrashGraph`, `DetachGraph`, `EndGraph`,
`BreakGraph` are a delivery of the task and its ways out, each one step here and several in
`WorkerTask`; `CancelSupervised` then `Revoke` are the cancellation and the cancellation of the
ledger that follows it; the other actions are the nodes, in the order of the graph's wiring,
and the specialists' start, call, approval and end. `Route` and `Charge` are the two
transactions of the router, `Count` and `Call` those of a specialist's call, `CountAction` and
`Act` the external action of the supervisor itself (`supervisor_actions`), `TakeReview` and
`RequireReview` what becomes of a review.

Abstractions worth knowing:

* A plan is a function `Wants` from steps to the actions each may ask for; the model does not
  know what a step answers. The last step, synthesis, asks for none.
* The harness invokes a graph again, in process, only for provider errors of a model call;
  that repeats no durable change, so it is a stutter.
* `queued_version` is subsumed by the identity of the job: both change together.
* An exception inside a step before its ledger request is `ToolBreaks` with an idle thread.
* A crash is of a real process. The heartbeat is exact: no live worker is taken for dead
  (the SDK's interval is 10 s and the threshold 30 s, `worker.py:58-62`).
* Inline mode is not modelled. Supervisor mode and budgets are in `Orchestration`, over a
  simpler task than that of `WorkerTask`.
* In `Orchestration` a plan is one of the sequences of `Plans`, a specialist's result is its
  kind, and the budget's tokens and wall clock are one choice: it may run out of time. The
  finalizers' headroom is kept, and so are the model calls made before the budget exists: a
  delivery may have made any number in `PreCalls`. A plan has at most one external action of the
  supervisor's own. The limits a specialist or the supervisor counts for itself (steps, calls
  of one delegation) are a choice: they may be met at any call.
* In `Accounts` a password is the number of its generation, and a lock is ahead or past.
* In `Ingestion` loading, chunking and embedding are one step that may fail; a process dies at
  any step and another may start in its place.
* In `ResearchRun` a model's answer is any value its schema admits, or its failure. The sets of
  sources it may name are `Proposals`, a constant: the theorems hold for any, the run has two.
* In `ContextWindow` a message is its kind and its length, counted as langchain counts; in
  `Citations` a draft is the sequence of its references, and the name of a document is not its
  identity: labels show the one, validation looks at the other; in `Retrieval` a hit is a document
  and a position, each ranking is cut to `Candidates`, and the scores are the reciprocal ranks the
  code computes.
* In `ChatSession` a conversation is the sequence of its turns, a turn being named by the ask
  that made it; a workflow always ends in a final answer (`sessions.py:447` does not occur). A
  retry of the harness after a provider error repeats the call with the same input, a stutter.
  An ask that may meet a call to approve (`Acting`) is interrupted and resumed at most once; the
  resumed run takes its decision as it enters the graph. A run of a supervised task whose graph
  is unfinished may go on with it without adding its own question. `Merges` is `add_messages`,
  turn by turn: what the thread holds stays, what it does not is appended. Any process may run any
  ask: a question run by a worker stands for a task that is never interrupted or repeated.

## 3. Runs

| Run | Instance | Asks |
|---|---|---|
| `ledger` | 3 actions (2 sensitive), 2 threads | `AtMostOneSend`, `SentAsDecided`, `ReceiptsAreHonest`, `ClaimPassesGuard`, `LedgerForward`, and that the ledger implements `ToolEffect` |
| `worker` | 2 workers, 1 recovery, 2 crashes (the second may hit the recovery itself), 2 jobs, a plan that posts then synthesizes, a database that may fail when the answer is saved | `CompletedIsWhole`, `OneRunner`, `RerunsAreBounded`, `OrphansAreLateOrSpent`, `TerminalIsFinal`, `CancelledNeverRunsAgain`, `DoneStepsStay`, and that all tool calls are a behaviour of the ledger (`UsesLedger`) |
| `late_wait` | 2 workers, 1 timeout, 3 jobs, a handler that may lose its transaction | refutes `StepsStayDone` |
| `overlap` | 2 workers, 2 recoveries, 1 crash | refutes `ExecutionIsLocked` |
| `live` | 1 worker, 1 recovery, 1 crash, 1 timeout, a step with a read, tried twice | `CancelTakesHold`, `DeliveriesSettle` under fairness |
| `paused_wedge` | no fault | refutes `PausedCanResume` |
| `stale_delivery` | no fault | refutes `StaleDeliveryIsInert` |
| `orphan` | outage of the claim transaction | refutes `NoOrphan` |
| `chat_pair` | 2 processes, a question and two runs of one task (one may be interrupted), a pool of 1, 1 crash | `TimedOutLeavesNothing`; `EveryAskEnds` and `PoolDrains` under fairness |
| `stale_cache` | 2 processes, 2 asks, no fault | refutes `AnsweredIsKept` |
| `supervisor` | a researcher, an analyst, a reviewer; four shapes of plan and an external action; 2 graphs; 1 event (crash, timeout, pause, budget out of time); cancellation at any time | `BudgetIsKept`, `NothingIsSkipped`, `ExecutionsAreNotReplayed`, `MemoryIsExtractedOnce`, `ResultsAreFinal`, `CancelledIsLeftAlone`; `GraphsEnd` under fairness |
| `services` | eleven services and the chat (1 process, 3 questions, 2 sessions, a pool of 2, 1 crash), one at a time | `TokensAreSound`, and that the rows of accounts implement `TokenFamily` (`ImplementsFamilies`); `MembershipSound`, `PermissionsHold`, `IngestSound`, `OneVoicePerKey`, `RegistriesAreWhole`, `ResearchIsSound`, `CitationsAreReal`, `ContextIsSound`, `ToolsAreGoverned`, `RetrievalIsFair`, `ReportIsOwn`, `ConversationGrows` |

Bounds. Two threads are what a race needs, and a third adds no new pair; two sensitive actions
let a thread resume with the approval of another action, which `execute` must refuse. Two jobs
are the least with an older and a newer generation; in `worker` a crash at any point covers each
window, and a second one the recovery from the first; `live` has a timeout as well, whose graph goes on beside the next delivery. `MaxTries = 2` lets
a step fail, be retried and run out. `overlap` has the two recoveries that the race needs,
`late_wait` the three deliveries: the one that is abandoned, the one that completes the step,
and the one that starts it again. `worker` has no timeout: with one it has 5 to 10 million
states, more than a run should take, and was checked once; the theorems below hold for any
number of them. `CHECK_DEADLOCK FALSE`: a task may be at rest for good.

In the chat runs, two questions of one session and one of another separate what the session
lock serialises from what only the pool shares; a pool of two, or of one, is exhausted by
detached threads of three asks as the pool of eight is by nine. Two runs of one task are the
least for a task to be asked again on the thread of a run that timed out, or to resume beside a
chat that was answered meanwhile. One crash covers the window between the save and the cached
list. They too may come to rest: every ask has ended.

In the supervisor's run the plans are two specialists in one group, the same two one after the
other, the analyst alone, and one agent twice: the last lets a step reuse the work of the one
before. Four delegations are the two of a plan, the review and one revision; one call made
beforehand (`PreCalls = {1}`) and three model calls with a headroom of one let the budget be
exhausted at every point it can be. One event is enough to replay each node half done, and a
second graph to overlap with it. The constraint `ScopeIsSmall` cuts what the two multiply: beside
a detached graph the run follows only plans of one delegation, until a cancellation
(`OverlapIsSmall`), and an external action only in a plan of one delegation and without an overlap
(`ActionIsSmall`). `MaxTools = 2` lets one specialist use up what the other needs. It has 788,357
states.

In the services' run: an account with two passwords, two requests and three tokens: two sign-ins
beside a rotation, or a rotation of a rotation, and the replay of either (two accounts with one
request, three passwords and four tokens were checked as well, one at a time); two requests of two
members are a pair that removes each other; three uploads in two processes
share a lock and pass by it; three memories of which two conflict, with two writers; three
uploads of one data set, and an analysis that leaves an output too many; a question of a chat
with any of data assets and MCP tools, plans of two steps, or three where the code does not cut
them, models that name `{pdf, web}` or `{arxiv}`, and five rounds with every limit on; drafts of
two references over findings of each type, among them two documents of one name; conversations of five messages with lengths on either side of the shortest cut; two
overlapping discoveries under the three policies an operator may choose; two searches of two
documents for two slots, of two chunks each (with three chunks and two candidates, where the cut
of the rankings binds, the run has 2,323,006 states, and was checked once).
`FusionIsMonotone`, the statement about the fusion of two rankings, is evaluated as an
assumption of `MCServices` over every pair of rankings of its chunks. Services rest when their
work is done, and the run does not ask for deadlock.

Symmetry is used over interchangeable threads (and sensitive actions in `ledger`), never in
the liveness run.

Fairness (`FairSpec`): weak fairness of each worker's fetch loop, of its delivery, of its
graph thread and of each recovery, and of the second half of a cancel request that has begun.
The code justifies each: the SDK polls; threads of a live process are scheduled; recovery runs
at the start of a worker and every minute (`worker.py:33-41`); the route's second call follows
its first. A human's decision, a resume, a pause, a crash and a timeout are not fair. The run
is on reads because a task that waits for a human may wait for ever.

`FairChatSpec`: weak fairness of a new ask's submission (a waiting thread gets a free lock; the
instance has fewer asks than could starve it), of the timer, of the asking thread, of the pool
threads and of the end of a run: model requests have their own timeout
(`MODEL_REQUEST_TIMEOUT_SECONDS`) and the graph a step limit (`AGENT_MAX_GRAPH_STEPS`). That a
human runs, resumes or repeats a task is not assumed: `EveryAskEnds` says that a chat ends, and
that a run of a task that was submitted does, a run that waits for a decision counting as ended.

`FairSupSpec`: weak fairness of the steps of each graph execution that was entered, its
specialists included: a thread of the pool runs it, detached or not, and every model call and
tool call in it has a timeout. Deliveries, decisions and cancellations are not fair.

### What the refuted statements show

* `PausedCanResume` (`task_queue.py:137`): a pause while the task waits for a decision moves
  it to PAUSED and leaves the approval PENDING. The pending approval blocks `enqueue`, the
  status blocks `decide`; only a cancellation is left. The state diagram draws
  `PAUSED --> QUEUED: resume`.
* `StaleDeliveryIsInert` (`worker_runtime.py:115`): only the claim checks the generation of
  a job. A delivery that raises after its task was paused and resumed under a new job
  classifies its failure on the new generation's row.
* `NoOrphan` (`worker_runtime.py:58`): the claim transaction is outside the `try`, so a
  database failure there ends the job without a retry, and the task stays QUEUED with no job.
* `StepsStayDone`, run `late_wait` (`tasks.py:196`): a graph abandoned by its harness just
  before `wait_for_approval` writes WAITING_USER over a step that a later delivery has completed,
  and the next delivery starts it again. `DoneStepsStay` is the same without a timeout, and holds.
* `ExecutionIsLocked`, run `overlap` (`worker_runtime.py:164`): every worker process runs the
  recovery, which lists the stalled jobs before it handles them. A second recovery requeues the
  job the first gave back, under the worker that is executing it by then. The same overlap also
  refutes `CompletedIsWhole` and `RerunsAreBounded` without their condition `OneRescuer`.
* `AnsweredIsKept`, run `stale_cache` (`sessions.py:412`): the API process and a worker that
  runs a task of the same session keep different lists under different locks, and each saves
  its list whole; the later save drops the other's turn.
  In one process a task that resumes after a decision does the same: it starts from the
  messages of its checkpoint, and `ask` saves them over what was answered in the meantime
  (`sessions.py:434`). `ConversationGrows` holds exactly where neither applies: one process,
  no task.

### Also reached by the models

For most of these states no document says what should happen; where a comment or a document does,
it is named. The properties are stated so that they hold with them, and name them where they are
an exception.

* A crash between the approval request and `wait_for_approval` (`phase4.py:151-162`) ends in
  FAILED with a pending approval; so does a creator who loses the role in that window.
* A detached graph writes WAITING_USER over any status, a CANCELLED one included
  (`tasks.py:191-199`). It is never queued or run again (`CancelledNeverRunsAgain`).
* A cancellation accepted just before the graph waits is kept as a flag until a decision
  (`task_queue.py:133`).
* The SDK counts the attempts of the *job*, which a crash before the claim uses up, and the
  handler those of the *task*: the handler may queue a task whose job the SDK will not retry
  (`worker_runtime.py:125`, `task_queue.py:78`). That is `Spent`, the second exception of
  `OrphansAreLateOrSpent`; the first is the late delivery of `StaleDeliveryIsInert`.
* A completed task whose answer cannot be saved is queued again, or cancelled
  (`worker_runtime.py:123`): the exception `AnswerIsLost` of `TerminalIsFinal`.
* The model calls made before there is a supervisor count in its budget although no limit was
  asked, so any number of them (`PreCalls`) may be counted with a limit of one.
* A refusal `MULTI_AGENT_REVIEW_REQUIRED` can be passed over: a delivery that finds a
  failed reviewer stores its review before it raises (`orchestration.py:434-436`), and a stored
  review is returned at once to the next delivery (`:421-422`), which goes on, where
  `docs/PHASE5A_IMPLEMENTATION.md:140-141` speaks of a graceful failure.
* A cancelled delegation is written over beside or after a detached graph, or by a specialist
  whose sibling waits for an approval (`agent_runs.py:276`): the exceptions of
  `CancelledIsLeftAlone`.
* The removal of a workspace looks for retained resources before its transaction
  (`auth/scoped.py:32-36`): a session created in between keeps a workspace that is gone, or,
  where the database has the foreign key, undoes the removal.
* A retrieval of memories writes back the whole record it read, and gives a memory superseded
  meanwhile its old status (`memory.py:211`): the exception `overlapped` of `OneVoicePerKey`.
* Document-only wording turns a request for external sources into `workspace_only`
  (`research_workflow.py:42`), where `docs/PHASE2_IMPLEMENTATION.md:98` speaks of narrowing a
  broader scope: neither of the two contains the other.
* A plan made from the catalogue of MCP tools keeps the sources the model names, so it may search
  the web before the documents (`tool_workflow.py:67-98`), where comments say that local evidence
  always comes first (`research_workflow.py:46`) and that a model cannot jump to external sources
  (`:192`): the exception `PlansFreely` of `LocalFirst`.
* With data assets or MCP tools a plan is not cut to the rounds left (`persistent_workflow.py:75`,
  `tool_workflow.py:83`), and its data and MCP steps count a round without comparing it with the
  bound (`persistent_workflow.py:168`, `tool_workflow.py:131`). A plan as long as the bound, or a
  replan after refinements, uses up the round kept for the external fallback: the exception of
  `FallbackIsReserved`.
* Two documents of one name in a workspace get equal labels for equal pages, since a label shows
  the name (`evidence.py:141`) and the identity is only validated (`:103-105`): the exception of
  `LabelsTellApart`.
* A task that is asked again after a timeout goes on in the same thread (`sessions.py:621`), and
  `add_messages` (`agent/state.py:29`) merges what that holds, so the question that timed out, and
  a late answer of its detached run, come into the conversation with the new turn: the exception
  of `TimedOutLeavesNothing`. A chat's question never does.
* When the room left for the memory of older turns is 13 to 32 tokens the context is refused,
  though it would fit without that memory (`context_harness.py:170`), where the docstring speaks
  only of a protocol overhead that cannot fit (`:23`): the exception of `RefusedWhenFull`.
* An approved call is refused, and its approval consumed, when the health the session copied
  has gone stale while the task waited (`tool_registry.py:132-138`, `sessions.py:634-639`).
* A label of the kinds GitHub, MCP or Analysis that the model wrote itself stays in the answer
  (`evidence.py:148-149`); `LabelsAreMarkers` is about documents, Web and arXiv.

## 4. Theorems

All are proved by TLAPS for every value of the constants that meets the module's own
assumption: any sets of actions, threads, users, specialists or analyses, any plan, and any
bounds. The type invariants are proved, not run: a run spends its properties on what could go
wrong, and the types are conjuncts of the inductive invariants below (in `supervisor`,
`BudgetIsKept` carries them).

The ledger. `AtMostOneSend` and the others are not inductive. `LedgerInv` adds what they lean
on: `RowsAgree` (the two rows tell one story), `ClaimIsExclusive` (one thread holds a claim,
and its row is RUNNING), `ReadsAreFresh` (what a thread read of a *decided* approval is still
so, because a decision is final and consumption goes with the claim), `SendsAreRecorded` (the
count follows from the row and the holder of its claim). There is one lemma per action.
`Invariance` gives `AtMostOneSendHolds`, `SentAsDecidedHolds`, `ReceiptsAreHonestHolds`,
`ClaimPassesGuardHolds`; `LedgerForwardHolds` and `Refinement` are step by step from it.

The task. `WorkerTypeCorrect` needs two facts beyond the types, and they are why its type
invariant is inductive: a graph inside a step is at a step of the plan, and a decision being
stored is about a sensitive action. With them every step of `WorkerTask` is a step of the
ledger or leaves it alone (`WorkerStepUsesLedger`), so `TaskUsesLedger` holds and the ledger's
theorems carry over: `TaskSendsOnce`, `TaskSendsAsDecided`, whatever deliveries, detached
graphs, crashes and recoveries do. `CancelledStaysCancelled` is an action property proved
case by case. The properties of the durable rows need five more invariants, each proved on top
of the ones before it (`WorkerTask.tla` states them):

* `QueueInv`: whoever is at work has a job no newer than the task's (`WorkIsEnqueued`), and
  while one recovery handles a job, one job is executed, by one worker or, when it is stalled,
  by none (`JobsAreExclusive`). This is the argument of `TaskRunsOnce`.
* `RerunInv`: the attempts stay below the bound while one more run may come (`Claimable`); it
  gives `TaskRerunsAreBounded`.
* `WholeInv`, for `TaskCompletesWhole`: graphs are awaited unless detached
  (`TaskAwaitsGraphs`), a thread of the ledger serves the step its graph is at
  (`TaskServesSteps`), the plan is stored before anything is asked (`TaskPlansFirst`), and a step
  is checkpointed as done after its action was settled (`TaskSettlesSteps`); so a run that
  reaches COMPLETED has all steps done (`RunsAreWhole`).
* `FinalInv`: what a delivery has raised, aims at and was asked to cancel is consistent, and
  while nothing disturbs the task a terminal status is executed only to save its answer. It gives
  `TaskTerminalIsFinal`; `TaskDoneStepsStay` needs its part `StepsAreOpen`.
* `RestInv`: an older job waits only when the task's own is over, and the delivery of the task's
  own job ends with the task at rest or asks for another run in its budget; it gives
  `TaskOrphansAreLateOrSpent`.

Their hypotheses are part of what they say. `OneRescuer` and `Undisturbed` are conditions inside
the properties; the refuted runs show that they are needed. `StepsAskForOne` (a step with a
sensitive action asks for this action only) is what the plan of the code fixes: the tool of a
step is named by its capability, the arguments by the plan. `QueueIsWritten` says that the
transactions that claim a delivery and classify its failure commit: run `orphan` shows
what happens otherwise.

The chat session, for any asks, sessions, processes and pool size, from `ChatAssumption`.
`ReportIsOwn` needs to know that no other run of the session writes the report between a run's
last model call and the reply. That is `ChatInv`: an ask that was submitted holds its session
lock until it returns (`LocksAreHeld`); a job is awaited, or was cancelled by its timeout
(`JobsAreAwaited`); so a detached run that still holds the harness's lock keeps the next ask's
job blocked, and one that is cancelled leaves at once (`RunsAreAlone`, `ReportsFollow`).
`TurnsAreSpoken` (a turn is in a conversation because its own ask saved it, or another run of
its task) and `SavedIsPast` (an ask that saved has taken its decision, so it neither resumes nor
times out afterwards) give `TimedOutLeavesNothingHolds`. `ConversationGrowsHolds` assumes `Alone`,
one process and no task, and needs `TableIsFollowed`: what the process keeps, and what an ask
read, is what the table says, up to the turn being added. The refuted `AnsweredIsKept` shows
that the assumption is needed.

The supervisor. `BudgetIsKept` is not inductive: a request that finds the budget exhausted
writes back the whole of what it read in an earlier transaction. `SupInv` says why that is
harmless, and what each node may rely on: `GraphsOK` (the delegations a graph or its checkpoint
knows exist, and it has a group, or a review, when it works on one), `AgentsOK` (specialists
work on delegations that exist), `SidesOK` and `RowsOK` (the types of task, ledger and
history), `Counted` (rows are created in order, of every kind as many as were reserved),
`CopiesAgree` (while a copy waits to be written back nothing more is granted, and it counts what
there is), `StartsOnce` (the supervisor's row comes before anything else) and `ClaimedOnce`
(the memory claim is held by the one graph that extracts, once).
There is a lemma per action. `SupInvariance` gives `BudgetIsKeptHolds` and
`MemoryIsExtractedOnceHolds`, and each step keeps results, `ResultsAreFinalHolds`. How a graph
flows through its groups is a second invariant on top, `FlowInv`: a completed row has its result
(`RowsAreHonest`), specialists are out exactly for the group their graph is at
(`SpecialistsAreOut`), what a graph, its checkpoint or the stored plan has passed has its results
(`GroupsArePassed`), cancelled rows belong to a cancelled task (`CancelledTogether`); and, while no
graph outlives its timeout beside another, one graph is at work at most, each analyst is called
once and a graph works for a task that wants it (`GraphsAlternate`, `CalledOnce`,
from the count of the call on, and `WorkIsWanted`). `FlowInvariance` gives `NothingIsSkippedHolds`,
`ExecutionsAreNotReplayedHolds` and `CancelledIsLeftAloneHolds`.

The services. `TokensAreSoundHolds` rests on `UsableIsCurrent` (a usable token carries the
present password of an active account), `FamiliesAreChains` (of two tokens of a family
one is used), `VerifiedIsRegistered` (nobody verified the password of an account that does not
exist) and `LocksFollow` (failures reach the limit only with the lock); `FamiliesStayDeadHolds` follows
step by step (no run asks it: `ImplementsFamilies` covers it, and the theorem states it of the rows).
`FamiliesRefinement` shows that the tables implement `TokenFamily`. `Standing` reads the state of a
family off the rows; that two tokens of a family are not both unused makes it well defined. The
steps fall into sorts (`StepKinds`): tokens brought nearer their end, the revocation of all
tokens of a person together with the change of the person, a registration, a sign-in or a
rotation; each is a step of the promise or a stutter. It says more than `TokensAreSound` and `FamiliesStayDead`: a successor that began a family of its own would keep both, and is no
step of `TokenFamily`.
`MembershipSoundHolds` needs only that registers are finite (`DocumentsAreFinite`): the code
counts and writes in one transaction. `RegistriesAreWholeHolds` needs `FilesAreKept` (a file
is written before its row, and only a sender whose file has no row removes it) and `AnalysesAreRecorded`
(what is registered and what is left to register are the outputs of the child, within the limit).
`ResearchIsSoundHolds` needs `StartIsClean`, `PlansAreLocal` (until the fallback every plan and
rewrite is of local sources, unless the catalogue of MCP tools made it: `PlansFreely`),
`RoundsAreLeft` (what plans or executes has a round left, although not every step compares),
`RoundIsKept` (at every node enough rounds are left for the fallback the scope allows: with plans
of searches always, with others while the first plan is followed and `LongestPlan`, its
greatest length, is below the bound) and `DraftsAreChecked` (a draft on its way to the user is the
one the verifier saw).

`PermissionsHoldAlways` follows a tool call through its accesses while roles change between them.
`PermissionsInv` records what each access has established: `RequestIsWhole` (execution, request
and decision go together), `DeliveryIsRight` (what the delivery knows at each of its steps),
`EntitledIsHeld` (the history of entitlements is true of the roles) and `AmbiguousIsHeld` (a write
that may have run is with its delivery or waits for the operator).

`IngestIsSound` needs the locks of a file (`LocksAreHeld`; `LocksAreApart`: two processes hold
one at the same time only for a file that is `shared`, which the property excepts) and what an
upload may rely on at each of its steps under the lock (`UploadsAreRight`). `OneVoice` needs
`StatusesAgree`: the column and the payload of a memory differ only for those written back by a
retrieval that began earlier (`overlapped`), and what a retrieval still holds may become one of
them; `OneColumnPerKey` is what `create` then keeps, because it looks at the columns.

`ToolsAreGovernedHolds` rests on `ProvidersInv`: a refresh holds tools of its own server
(`FindingsAreOwn`), so storing it changes no other server's part of the registry; what waits for an
answer or is claimed passed the policy under the run's snapshot (`AskedIsAllowed`), which no
refresh and no reload of the session touches; and an approval waited for shows the very call
(`WaitIsForItsCall`, `ClaimIsCovered`).

The answer. `AnswerProofs` begins with what the operators of `Sifting` compute: a finite set in
a strict total order has each element at one place, in order (`OrderIsKept`, by counting what is
before each), so `Keep` has the elements of the places, in order and no others, and
keeping from what was kept, or from two lists joined, is keeping at once.

`RetrievalIsFairHolds` rests on `RetrievalInv`, which has three parts. `PoolInv` is about the
slots: it counts the `Holders`, whose set it keeps finite, and needs `SubmittedInTurn`, that a
document is submitted once in a search, because the documents of a registry differ and their
places are taken in order, and that nothing is left of an earlier search; `SearchesAreBounded`
follows from it. `HitsAreOwn`: a future that is done holds a ranking of its own document,
so the round robin over different documents has each hit once. With that, what a selection
leaves out is ranked below what only its rank brought in (`OutcomeIsCovered`), whatever
permutation the reranker makes. `FusionIsMonotoneHolds` is about every two rankings of a document:
the shares of a score fall with the rank, and equal scores stay in the order of the first
ranking.

`CitationsAreRealHolds` needs no more than its types: one step renders the whole draft. The work
is in following each reference of the draft through the six passes (`Passed`, `Survives`,
`Put`): what the passes show is what each surviving reference becomes, in the draft's order, and
the labels among it are those put for markers of valid citations. Labels of external
sources are told apart by their numbers because the citations of a kind are counted up to the
last place of each (`Precedes`, `Trails`), those of documents by name and page: two citations with
one label are pages of one number in documents of one name.

`ContextIsSoundHolds` rests on `ContextInv`: what was prepared is what `prepare` makes of the
conversation. The tokens of a list are a recursive sum, so the lemmas about it unfold it
(`TotalUnfolds`) and go by induction on its length (`UpTo`, from the well-foundedness of the
numbers): a sum depends only on its terms, and changes by
what one term changes. Of the rounds of `_fit_messages` they show that each one either leaves the
messages alone because they fit or none is long, or brings one message to the shortest, or makes
the whole fit; so as many rounds as there are messages suffice, of the three a message the code
makes (`FittedIsDone`), and what does not fit then does not fit cut to the shortest. Cutting
changes no kind, so turns stay whole and prompts stay.

Each inductive invariant was checked by TLC, as an invariant of the run of its component, on the
bounds above.

With these, every safety invariant and every action property that a passing run checks is stated
by a theorem. Only model-checked are the liveness properties (`CancelTakesHold`,
`DeliveriesSettle`, `EveryAskEnds`, `PoolDrains`, `GraphsEnd`): liveness under fairness and ENABLED
are out of the prover's reach. So are RECURSIVE operators (none is used) and facts the library
states for any predicate; where a proof goes by induction over a list, it speaks of the set of
the lengths for which the claim holds.

## 5. Not modelled

* Inline task mode: the steps of `WorkerTask` without delivery, claim, retry or recovery;
  `recover()` of that mode has no caller.
* The authentication middleware and its rate limits: a verified principal is given.
* The database runtime: a transaction is an action. Connections, pools and migrations are not
  there; the difference between SQLite and PostgreSQL is, where it matters (`ForeignKeys`,
  `OwnRegistry`).
* In the supervisor: the texts of plans and results, wall-clock and token accounting,
  `max_steps`. In the worker: events, audit rows, checkpoint pruning.
* In retrieval and ingestion: embedding, vector search, loaders, OCR, chunking.
* HTTP routing, configuration, logs, metrics, the Streamlit client, the benchmarks and the
  one-off scripts keep no state a property here is about.

## 6. Plan

1. A supervised task with the queue of `WorkerTask` under it instead of the one-step delivery.
2. An abstract specification of one delegation's life, and the refinement that `ResultsAreFinal`
   is the core of.
