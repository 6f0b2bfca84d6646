------------------------------ MODULE Permissions ------------------------------
(***************************************************************************)
(* One tool call of one task, and who may do what about it while roles      *)
(* change (server/auth/authorization.py 78-137, the task and action domains *)
(* of server/auth/scoped.py, Phase4Services.execute and decide).  Every     *)
(* access asks the policy in a transaction of its own before the one that   *)
(* it guards.  Crashes, cancellations and retries are WorkerTask's.         *)
(***************************************************************************)
EXTENDS Membership

CONSTANT ApproveReads    \* TOOL_AUTO_APPROVE_READ is off

ASSUME PermissionsAssumption == ApproveReads \in BOOLEAN

VARIABLES
    task,       \* its row, with the workspace and the call its plan asks for
    execution,  \* the execution, and the approval request if there is one
    worker,     \* the delivery under way, on behalf of the task's creator
    office,     \* a person's request to run, resume or decide
    held        \* history: whether the actor and the approver were entitled

permissionVars == <<task, execution, worker, office, held>>

Operations == {"read", "write", "analyze"}

NoTask == [status |-> "none"]
TaskRows ==
    {NoTask} \union
    [status : {"PENDING", "QUEUED", "RUNNING", "WAITING_USER", "FAILED", "COMPLETED",
               "REQUIRES_RECONCILIATION"},
     creator : Members, ws : Workspaces, op : Operations]

\* sent: history, the provider has received the call.
ExecutionState ==
    [exec : {"none", "requested", "waiting", "running", "succeeded", "failed", "rejected"},
     approval : {"none", "pending", "approved", "rejected"}, sent : BOOLEAN]

WorkerState == [pc : {"idle", "asking", "approval", "waiting", "recheck", "guarded", "claim",
                      "calling", "finishing", "settling"}, good : BOOLEAN]

NoOffice == [pc |-> "idle"]
OfficeState == {NoOffice} \union
               [pc : {"storing", "resuming", "enqueueing"}, by : Members, entitled : BOOLEAN]

PermissionsTypeOK ==
    /\ task \in TaskRows /\ execution \in ExecutionState /\ worker \in WorkerState /\ office \in OfficeState
    /\ held \in [actor : BOOLEAN, approver : BOOLEAN]

PermissionsInit ==
    /\ task = NoTask
    /\ execution = [exec |-> "none", approval |-> "none", sent |-> FALSE]
    /\ worker = [pc |-> "idle", good |-> FALSE]
    /\ office = NoOffice
    /\ held = [actor |-> FALSE, approver |-> FALSE]

-------------------------------------------------------------------------------
(* What the policy says about the task and its call.                        *)

Actor == task.creator
TaskGuard(u, action) == Authorizes(u, action, task.ws, Actor)

ToolActionByProvider(op) ==    \* mutant: a capability is not looked at
    IF op = "write" THEN "external.write" ELSE "external.read"

ToolAction(op) ==
    CASE op = "write" -> "external.write" [] op = "analyze" -> "analysis.execute"
      [] OTHER -> "external.read"

\* authorize_tool
MayUseTool(u) ==
    /\ TaskGuard(u, "task.execute") /\ Actor = u
    /\ TaskGuard(u, ToolAction(task.op))

\* AuthorizationService.approval
SeesApproval(u) ==
    /\ TaskGuard(u, "task.read")
    /\ IF task.op # "read" THEN TaskGuard(u, "external.write")
       ELSE Actor # u => TaskGuard(u, "workspace.members.manage")

MayDecide(u) == TaskGuard(u, "task.read") /\ TaskGuard(u, "external.write")

\* ToolPolicy.evaluate
ApprovalNeeded == task.op = "write" \/ (task.op = "read" /\ ApproveReads)

\* What the documentation grants a member, for the history alone.
Entitled(u, op, roles, who) ==
    /\ u \in who
    /\ roles[u] \in CASE op = "write" -> {"OWNER"} [] op = "analyze" -> {"OWNER", "EDITOR"}
                      [] OTHER -> Roles

ActorEntitled == Entitled(Actor, task.op, role[task.ws], active)

-------------------------------------------------------------------------------
(* Creation, and the requests to run or resume.                             *)

\* The session is the caller's own.
CreateTask(u, c, w, op) ==
    /\ task = NoTask
    /\ Authorizes(u, "task.create", w, u) /\ Authorizes(u, "session.read", w, c)
    /\ task' = [status |-> "PENDING", creator |-> u, ws |-> w, op |-> op]
    /\ held' = [held EXCEPT !.actor = Entitled(u, op, role[w], active)]
    /\ UNCHANGED <<execution, worker, office>>

\* PostgresTaskQueue.enqueue: the guard, then the transaction.
AskToRun(u) ==
    /\ task # NoTask /\ office = NoOffice
    /\ TaskGuard(u, "task.execute")
    /\ office' = [pc |-> "enqueueing", by |-> u, entitled |-> FALSE]
    /\ UNCHANGED <<task, execution, worker, held>>

Enqueue ==
    /\ office.pc = "enqueueing"
    /\ office' = NoOffice
    /\ task' = IF task.status \in {"PENDING", "WAITING_USER", "FAILED"} /\ execution.approval # "pending"
               THEN [task EXCEPT !.status = "QUEUED"] ELSE task
    /\ UNCHANGED <<execution, worker, held>>

-------------------------------------------------------------------------------
(* The decision.                                                            *)

\* Phase4Services.decide up to the status of the task.
AskToDecide(u) ==
    /\ execution.approval # "none" /\ office = NoOffice
    /\ MayDecide(u) /\ task.status = "WAITING_USER"
    /\ office' = [pc |-> "storing", by |-> u,
                  entitled |-> Entitled(u, "write", role[task.ws], active)]
    /\ UNCHANGED <<task, execution, worker, held>>

\* A request that was decided meanwhile is a conflict.
StoreDecision(verdict) ==
    /\ office.pc = "storing"
    /\ IF execution.approval = "pending"
       THEN /\ execution' = [execution EXCEPT !.approval = verdict]
            /\ office' = [office EXCEPT !.pc = "resuming"]
            /\ held' = [actor |-> ActorEntitled, approver |-> office.entitled]
       ELSE /\ office' = NoOffice /\ UNCHANGED <<execution, held>>
    /\ UNCHANGED <<task, worker>>

\* enqueue_sync, on behalf of the one who decided.
ResumeDecided ==
    /\ office.pc = "resuming"
    /\ office' = IF TaskGuard(office.by, "task.execute") THEN [office EXCEPT !.pc = "enqueueing"]
                 ELSE NoOffice
    /\ UNCHANGED <<task, execution, worker, held>>

-------------------------------------------------------------------------------
(* The delivery, on behalf of the creator.                                  *)

Proceed(pc) == worker' = [worker EXCEPT !.pc = pc]

\* A refusal fails the step, and the delivery comes to its end.
Guarded(granted, pc) == IF granted THEN Proceed(pc) ELSE worker' = [pc |-> "settling", good |-> FALSE]

Ambiguous == task.op = "write" /\ execution.exec \in {"running", "failed"}

Deliver ==
    /\ task.status = "QUEUED" /\ worker.pc = "idle"
    /\ LET status == IF Ambiguous THEN "REQUIRES_RECONCILIATION"
                     ELSE IF ~TaskGuard(Actor, "task.execute") THEN "FAILED" ELSE "RUNNING"
       IN  /\ task' = [task EXCEPT !.status = status]
           /\ IF status = "RUNNING" THEN Proceed("asking") ELSE UNCHANGED worker
    /\ UNCHANGED <<execution, office, held>>

\* Authorized twice in a row, and requested once for all deliveries.
AskTool ==
    /\ worker.pc = "asking"
    /\ Guarded(MayUseTool(Actor), IF ApprovalNeeded THEN "approval" ELSE "recheck")
    /\ execution' = IF (~MayUseTool(Actor)) \/ execution.exec # "none" THEN execution
               ELSE [execution EXCEPT !.exec = IF ApprovalNeeded THEN "waiting" ELSE "requested",
                                 !.approval = IF ApprovalNeeded THEN "pending" ELSE "none"]
    /\ UNCHANGED <<task, office, held>>

ReadApproval ==
    /\ worker.pc = "approval"
    /\ Guarded(SeesApproval(Actor), IF execution.approval = "pending" THEN "waiting" ELSE "recheck")
    /\ UNCHANGED <<task, execution, office, held>>

\* wait_for_approval, and the interrupt that ends the delivery.
WaitForApproval ==
    /\ worker.pc = "waiting"
    /\ LET granted == TaskGuard(Actor, "task.execute")
       IN  /\ Guarded(granted, "idle")
           /\ task' = IF granted THEN [task EXCEPT !.status = "WAITING_USER"] ELSE task
    /\ UNCHANGED <<execution, office, held>>

\* "Re-evaluate immediately before claiming."
Recheck ==
    /\ worker.pc = "recheck"
    /\ Guarded(MayUseTool(Actor), "guarded")
    /\ UNCHANGED <<task, execution, office, held>>

GuardClaim ==
    /\ worker.pc = "guarded"
    /\ Guarded(TaskGuard(Actor, "task.execute"), "claim")
    /\ UNCHANGED <<task, execution, office, held>>

\* A settled action is replayed, an action that may have run is refused.
Claim ==
    /\ worker.pc = "claim"
    /\ IF execution.exec \in {"requested", "waiting"} /\ execution.approval # "rejected"
       THEN execution' = [execution EXCEPT !.exec = "running"] /\ Proceed("calling")
       ELSE /\ execution' = [execution EXCEPT !.exec = IF @ = "waiting" THEN "rejected" ELSE @]
            /\ worker' = [pc |-> "settling", good |-> execution'.exec \in {"succeeded", "rejected"}]
    /\ UNCHANGED <<task, office, held>>

\* guard_call reads the claim through the same boundary; its refusal and a
\* failing provider are both results.
SendCall ==
    /\ worker.pc = "calling"
    /\ LET admitted == ApprovalNeeded => SeesApproval(Actor)
       IN  /\ execution' = [execution EXCEPT !.sent = @ \/ admitted]
           /\ \E good \in {FALSE, admitted} : worker' = [pc |-> "finishing", good |-> good]
    /\ UNCHANGED <<task, office, held>>

\* The receipt is an access like any other.
FinishCall ==
    /\ worker.pc = "finishing"
    /\ Guarded(TaskGuard(Actor, "task.execute"), "settling")
    /\ execution' = IF TaskGuard(Actor, "task.execute")
               THEN [execution EXCEPT !.exec = IF worker.good THEN "succeeded" ELSE "failed"] ELSE execution
    /\ UNCHANGED <<task, office, held>>

\* The task's own writes are guarded too; execute_task's failure handler is not.
SettleTask ==
    /\ worker.pc = "settling"
    /\ task' = [task EXCEPT !.status =
                   IF worker.good /\ TaskGuard(Actor, "task.execute") THEN "COMPLETED"
                   ELSE IF Ambiguous THEN "REQUIRES_RECONCILIATION" ELSE "FAILED"]
    /\ worker' = [pc |-> "idle", good |-> FALSE]
    /\ UNCHANGED <<execution, office, held>>

TaskStep ==
    \/ \E u \in Members :
          \/ \E c \in Members, w \in Workspaces, op \in Operations : CreateTask(u, c, w, op)
          \/ AskToRun(u) \/ AskToDecide(u)
    \/ Enqueue \/ ResumeDecided
    \/ \E verdict \in {"approved", "rejected"} : StoreDecision(verdict)
    \/ Deliver \/ AskTool \/ ReadApproval \/ WaitForApproval \/ Recheck \/ GuardClaim
    \/ Claim \/ SendCall \/ FinishCall \/ SettleTask

\* People join, leave, change roles and are disabled at any time.
RoleStep ==
    /\ \E u \in Members, w \in Workspaces :
          \/ CreateWorkspace(u, w) \/ SetActive(u)
          \/ \E by \in Members, to \in Roles \union {"none"} : ChangeMember(by, w, u, to)
    /\ held' = [held EXCEPT !.actor =
                   @ \/ (task # NoTask /\ Entitled(Actor, task.op, role'[task.ws], active'))]
    /\ UNCHANGED <<task, execution, worker, office>>

PermissionsNext == (TaskStep /\ UNCHANGED membershipVars) \/ RoleStep

PermissionsSpec ==
    /\ MembershipInit /\ PermissionsInit
    /\ [][PermissionsNext]_<<membershipVars, permissionVars>>

-------------------------------------------------------------------------------
(* Properties.                                                              *)

\* A call that was sent had an actor who was entitled to it at some time since
\* the decision, not only before it, and an approver who was an owner: a role
\* lost while the approval was pending is not used (phase4.py:173).
CallsAreEntitled ==
    execution.sent =>
        /\ held.actor
        /\ ApprovalNeeded => execution.approval = "approved" /\ held.approver

\* Whoever may decide a request is shown it (the approvals of scoped.py), and a
\* task that waits has such a person unless an account was disabled.
WaitsAreSeen ==
    execution.approval = "pending" =>
        /\ \A u \in Members : MayDecide(u) => SeesApproval(u)
        /\ active = Members => \E u \in Members : MayDecide(u)

\* A write of which no receipt was kept, be it that its actor was removed while
\* it ran, never leaves the task completed or free to send again.
LostReceiptsAreHeld ==
    /\ task # NoTask /\ execution.sent /\ task.op = "write" /\ execution.exec # "succeeded"
    /\ worker.pc = "idle"
    => task.status = "REQUIRES_RECONCILIATION"

\* Roles that change under a task: who may use, see and decide its call.
PermissionsHold == CallsAreEntitled /\ WaitsAreSeen /\ LostReceiptsAreHeld
=============================================================================
