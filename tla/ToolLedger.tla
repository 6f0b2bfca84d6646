----------------------------- MODULE ToolLedger -----------------------------
(***************************************************************************)
(* The durable ledger of external tool actions (server/tool_actions.py) and *)
(* the policy-controlled call that uses it (Phase4Services.execute and      *)
(* guard_call in server/phase4.py).                                         *)
(*                                                                          *)
(* A thread of a graph run requests an action, waits for a human decision,  *)
(* claims the one execution of it and calls the provider.  Every method of  *)
(* ToolActionStore is one transaction under the mutation lock and is one    *)
(* action here; between two of them any other thread, a deciding human, a   *)
(* cancelling API call or the death of the process may intervene.           *)
(***************************************************************************)
EXTENDS Naturals

CONSTANTS
    Intents,    \* intent keys: task + step + tool + hash of the arguments
    Sensitive,  \* those whose descriptor needs a human approval
    Threads,    \* graph threads that execute tools
    NoIntent    \* no action; the graph was entered without an approval ID

ASSUME LedgerAssumption ==
    /\ Sensitive \subseteq Intents
    /\ NoIntent \notin Intents

VARIABLES
    exec,       \* table tool_executions: status, and which arguments it hashes
    approval,   \* table approval_requests: status, edited_arguments, consumed_at
    thread,     \* what each thread knows in the middle of Phase4Services.execute
    sent        \* calls the provider has received, and with which arguments

ledgerVars == <<exec, approval, thread, sent>>

Settled   == {"SUCCEEDED", "REJECTED", "CANCELLED"}
Ambiguous == {"RUNNING", "FAILED"}

ExecStatus ==
    {"NONE", "REQUESTED", "WAITING_APPROVAL"} \union Settled \union Ambiguous

Execution == [status : ExecStatus, edited : BOOLEAN]

ApprovalStatus ==
    {"NONE", "PENDING", "APPROVED", "EDITED", "REJECTED", "CANCELLED"}

Approval == [status : ApprovalStatus, edited : BOOLEAN, consumed : BOOLEAN]

ThreadPC ==
    {"idle", "requested", "parking", "claiming", "guarding", "calling",
     "finishing", "returned"}

Results == {"none", "success", "failure", "rejected", "interrupt", "conflict"}

\* resume: the action whose approval ID the graph was re-entered with;
\* read: the approval row as this thread has read it.
ThreadState ==
    [pc : ThreadPC, intent : Intents \union {NoIntent}, resume : Sensitive \union {NoIntent},
     read : Approval, result : Results]

NoApproval == [status |-> "NONE", edited |-> FALSE, consumed |-> FALSE]

Idle == [pc |-> "idle", intent |-> NoIntent, resume |-> NoIntent,
         read |-> NoApproval, result |-> "none"]

LedgerInit ==
    /\ exec = [i \in Intents |-> [status |-> "NONE", edited |-> FALSE]]
    /\ approval = [i \in Intents |-> NoApproval]
    /\ thread = [t \in Threads |-> Idle]
    /\ sent = [i \in Intents |-> [count |-> 0, edited |-> FALSE]]

Goto(t, pc) == thread' = [thread EXCEPT ![t].pc = pc]

Done(t, result) ==
    thread' = [thread EXCEPT ![t].pc = "returned", ![t].result = result]

-----------------------------------------------------------------------------
(* ToolActionStore.request: the intent key is unique, so a second request   *)
(* of a sensitive action finds the row of the first.  A read gets a fresh   *)
(* identity in its key: it never meets an older row.                        *)

Request(t, i, resume) ==
    /\ thread[t].pc = "idle"
    /\ i \notin Sensitive => exec[i].status = "NONE"
    /\ IF exec[i].status # "NONE" THEN UNCHANGED <<exec, approval>>
       ELSE /\ exec' = [exec EXCEPT ![i].status =
                          IF i \in Sensitive THEN "WAITING_APPROVAL" ELSE "REQUESTED"]
            /\ approval' = IF i \in Sensitive
                           THEN [approval EXCEPT ![i].status = "PENDING"]
                           ELSE approval
    /\ thread' = [thread EXCEPT ![t] =
                    [pc |-> IF i \in Sensitive THEN "requested" ELSE "claiming",
                     intent |-> i, resume |-> resume, read |-> NoApproval,
                     result |-> "none"]]
    /\ UNCHANGED sent

\* The approval is read outside any transaction, and is not read again here.
ReadApproval(t) ==
    LET a == approval[thread[t].intent] IN
    /\ thread[t].pc = "requested"
    /\ thread' = [thread EXCEPT ![t].pc = IF a.consumed THEN "claiming" ELSE "parking",
                                ![t].read = a]
    /\ UNCHANGED <<exec, approval, sent>>

\* The arguments the thread holds are the edited ones of the approval it read.
HoldsPlanned(t) == FALSE                 \* mutant: the edits are forgotten

HoldsEdited(t) == thread[t].read.edited /\ ~thread[t].read.consumed

\* interrupt() raises, unless the graph was re-entered with an approval ID.
Interrupt(t) ==
    /\ thread[t].pc = "parking"
    /\ \/ thread[t].resume = NoIntent /\ Done(t, "interrupt")
       \/ /\ thread[t].resume # NoIntent
          /\ thread[t].resume # thread[t].intent \/ thread[t].read.status = "PENDING"
          /\ Done(t, "conflict")
       \/ /\ thread[t].resume = thread[t].intent
          /\ thread[t].read.status # "PENDING"
          /\ Goto(t, "claiming")
    /\ UNCHANGED <<exec, approval, sent>>

\* Authority and policy are evaluated again just before the claim, and may refuse.
PolicyRefuses(t) ==
    /\ thread[t].pc = "claiming"
    /\ Done(t, "conflict")
    /\ UNCHANGED <<exec, approval, sent>>

-----------------------------------------------------------------------------
(* ToolActionStore.claim: the single claim, which consumes the approval.    *)

MayClaimFailed(i) ==                    \* mutant: a failed action may be retried
    /\ exec[i].status \notin Settled \union {"RUNNING"}
    /\ i \in Sensitive =>
          approval[i].status \in {"APPROVED", "EDITED", "REJECTED"}

MayClaim(i) ==
    /\ exec[i].status \notin Settled \union Ambiguous
    /\ i \in Sensitive =>
          /\ ~approval[i].consumed
          /\ approval[i].status \in {"APPROVED", "EDITED", "REJECTED"}

ConsumeNever(i) == approval              \* mutant: consumed_at is never written

Consume(i) == [approval EXCEPT ![i].consumed = (i \in Sensitive)]

Claim(t) ==
    LET i == thread[t].intent IN
    /\ thread[t].pc = "claiming"
    /\ \/ /\ exec[i].status \in Settled              \* replays the receipt
          /\ Done(t, IF exec[i].status = "SUCCEEDED" THEN "success" ELSE "rejected")
          /\ UNCHANGED <<exec, approval>>
       \/ /\ exec[i].status \notin Settled           \* TaskConflict
          /\ ~MayClaim(i)
          /\ Done(t, "conflict")
          /\ UNCHANGED <<exec, approval>>
       \/ /\ MayClaim(i)
          /\ approval[i].status = "REJECTED"
          /\ approval' = Consume(i)
          /\ exec' = [exec EXCEPT ![i].status = "REJECTED",
                                  ![i].edited = approval[i].edited]
          /\ Done(t, "rejected")
       \/ /\ MayClaim(i)
          /\ approval[i].status # "REJECTED"
          /\ approval' = Consume(i)
          /\ exec' = [exec EXCEPT ![i].status = "RUNNING",
                                  ![i].edited = approval[i].edited]
          /\ Goto(t, "guarding")
    /\ UNCHANGED sent

-----------------------------------------------------------------------------
(* guard_call re-reads both rows beside the provider call.                  *)

GuardAdmits(t) ==
    LET i == thread[t].intent IN
    i \in Sensitive =>
        /\ exec[i].status = "RUNNING"
        /\ exec[i].edited = HoldsEdited(t)
        /\ approval[i].consumed
        /\ approval[i].status \in {"APPROVED", "EDITED"}

\* A refused guard or an unavailable provider is a failed result: nothing is sent.
Guard(t) ==
    /\ thread[t].pc = "guarding"
    /\ \/ GuardAdmits(t) /\ Goto(t, "calling")
       \/ thread' = [thread EXCEPT ![t].pc = "finishing", ![t].result = "failure"]
    /\ UNCHANGED <<exec, approval, sent>>

Call(t) ==
    LET i == thread[t].intent IN
    /\ thread[t].pc = "calling"
    /\ sent' = [sent EXCEPT ![i].count = @ + 1, ![i].edited = HoldsEdited(t)]
    /\ \E r \in {"success", "failure"} :
          thread' = [thread EXCEPT ![t].pc = "finishing", ![t].result = r]
    /\ UNCHANGED <<exec, approval>>

(* ToolActionStore.finish *)
Finish(t) ==
    LET i == thread[t].intent IN
    /\ thread[t].pc = "finishing"
    /\ IF exec[i].status = "RUNNING"
       THEN /\ exec' = [exec EXCEPT ![i].status =
                          IF thread[t].result = "success" THEN "SUCCEEDED" ELSE "FAILED"]
            /\ Goto(t, "returned")
       ELSE /\ Done(t, "conflict")
            /\ UNCHANGED exec
    /\ UNCHANGED <<approval, sent>>

Return(t) ==
    /\ thread[t].pc = "returned"
    /\ thread' = [thread EXCEPT ![t] = Idle]
    /\ UNCHANGED <<exec, approval, sent>>

\* The process of the thread dies: what it knew is lost, its rows stay.
Die(t) ==
    /\ thread[t].pc # "idle"
    /\ thread' = [thread EXCEPT ![t] = Idle]
    /\ UNCHANGED <<exec, approval, sent>>

-----------------------------------------------------------------------------
(* ToolActionStore.decide, by a human; ToolActionStore.cancel_pending, by   *)
(* the API's cancel request.                                                *)

DecideAgain(i, decision) ==              \* mutant: a decision may be revised
    /\ approval[i].status \in {"PENDING", "APPROVED", "EDITED"}
    /\ approval' = [approval EXCEPT ![i].status = decision,
                                    ![i].edited = (decision = "EDITED")]
    /\ UNCHANGED <<exec, thread, sent>>

Decide(i, decision) ==
    /\ approval[i].status = "PENDING"
    /\ ~approval[i].consumed
    /\ approval' = [approval EXCEPT ![i].status = decision,
                                    ![i].edited = (decision = "EDITED")]
    /\ UNCHANGED <<exec, thread, sent>>

UndoneOrConsumed(i) ==                   \* mutant: consumed approvals are cancelled
    approval[i].status \in {"PENDING", "APPROVED", "EDITED", "REJECTED"}

Undone(i) ==
    /\ ~approval[i].consumed
    /\ approval[i].status \in {"PENDING", "APPROVED", "EDITED", "REJECTED"}

CancelPending ==
    /\ approval' = [i \in Intents |->
          IF Undone(i) THEN [approval[i] EXCEPT !.status = "CANCELLED"] ELSE approval[i]]
    /\ exec' = [i \in Intents |->
          IF Undone(i) /\ exec[i].status # "RUNNING"
          THEN [exec[i] EXCEPT !.status = "CANCELLED"] ELSE exec[i]]
    /\ UNCHANGED <<thread, sent>>

ThreadStep(t) ==
    \/ ReadApproval(t) \/ Interrupt(t) \/ PolicyRefuses(t) \/ Claim(t)
    \/ Guard(t) \/ Call(t) \/ Finish(t) \/ Return(t)

LedgerNext ==
    \/ \E t \in Threads :
          \/ \E i \in Intents, resume \in Sensitive \union {NoIntent} : Request(t, i, resume)
          \/ ThreadStep(t)
          \/ Die(t)
    \/ \E i \in Intents, d \in {"APPROVED", "EDITED", "REJECTED"} : Decide(i, d)
    \/ CancelPending

LedgerSpec == LedgerInit /\ [][LedgerNext]_ledgerVars

-----------------------------------------------------------------------------
(* The inductive invariant: how rows, threads and calls hang together. *)

\* Each row and thread has its type, and a busy thread has an action.
LedgerTypeOK ==
    /\ exec \in [Intents -> Execution]
    /\ approval \in [Intents -> Approval]
    /\ thread \in [Threads -> ThreadState]
    /\ \A t \in Threads : thread[t].pc # "idle" => thread[t].intent \in Intents
    /\ sent \in [Intents -> [count : Nat, edited : BOOLEAN]]

Executed == {"RUNNING", "SUCCEEDED", "FAILED"}

\* The two rows of an action tell one story; a read has no approval row.
RowAgrees(i) ==
    IF i \in Sensitive
    THEN /\ exec[i].status # "REQUESTED"
         /\ exec[i].status = "NONE" <=> approval[i].status = "NONE"
         /\ exec[i].status \in Executed =>
               /\ approval[i].status \in {"APPROVED", "EDITED"}
               /\ exec[i].edited = approval[i].edited
         /\ approval[i].consumed <=> exec[i].status \in Executed \union {"REJECTED"}
         /\ approval[i].status = "CANCELLED" <=> exec[i].status = "CANCELLED"
         /\ exec[i].status = "REJECTED" => approval[i].status = "REJECTED"
         /\ approval[i].status = "EDITED" => approval[i].edited
         /\ approval[i].edited => approval[i].status \in {"EDITED", "CANCELLED"}
    ELSE /\ approval[i] = NoApproval
         /\ exec[i].status \in {"NONE", "REQUESTED"} \union Executed
         /\ ~exec[i].edited

RowsAgree == \A i \in Intents : RowAgrees(i)

Claiming(t) == thread[t].pc \in {"guarding", "calling", "finishing"}

\* A claimed execution is running, and one thread alone holds the claim.
ClaimIsExclusive ==
    /\ \A t \in Threads : Claiming(t) => exec[thread[t].intent].status = "RUNNING"
    /\ \A t, u \in Threads :
          Claiming(t) /\ Claiming(u) /\ thread[t].intent = thread[u].intent => t = u

\* What a thread read of a decided approval is still so; what it claimed with is
\* what the execution row now hashes.
FreshRead(t) ==
    LET i == thread[t].intent IN
    /\ thread[t].pc \in {"requested", "parking", "claiming"} => exec[i].status # "NONE"
    /\ thread[t].pc \in {"requested", "parking"} => i \in Sensitive
    /\ thread[t].pc = "parking" /\ thread[t].read.status # "PENDING" =>
          /\ approval[i].status # "PENDING"
          /\ thread[t].read.edited = approval[i].edited
    /\ thread[t].pc = "parking" => ~thread[t].read.consumed
    /\ thread[t].pc = "claiming" =>
          \/ thread[t].read.consumed /\ approval[i].consumed
          \/ ~thread[t].read.consumed /\ thread[t].read.edited = approval[i].edited
    /\ thread[t].pc = "claiming" => approval[i].status # "PENDING"
    /\ thread[t].pc \in {"guarding", "calling"} => HoldsEdited(t) = exec[i].edited

ReadsAreFresh == \A t \in Threads : FreshRead(t)

\* The calls the provider received follow from the row and the holder of its claim.
SendRecorded(i) ==
    /\ sent[i].count <= 1
    /\ sent[i].count = 1 =>
          exec[i].status \in Executed /\ sent[i].edited = exec[i].edited
    /\ exec[i].status = "SUCCEEDED" => sent[i].count = 1

SenderKnows(t) ==
    /\ thread[t].pc \in {"guarding", "calling"} => sent[thread[t].intent].count = 0
    /\ thread[t].pc = "finishing" /\ thread[t].result = "success" =>
          sent[thread[t].intent].count = 1

SendsAreRecorded ==
    /\ \A i \in Intents : SendRecorded(i)
    /\ \A t \in Threads : SenderKnows(t)

\* The whole of it, from which the safety properties below follow.
LedgerInv ==
    LedgerTypeOK /\ RowsAgree /\ ClaimIsExclusive /\ ReadsAreFresh /\ SendsAreRecorded

-----------------------------------------------------------------------------
(* Properties *)

\* No action reaches its provider twice, whatever threads die, retry, race for
\* the claim or find the row of an earlier attempt.
AtMostOneSend == \A i \in Intents : sent[i].count <= 1

\* A sensitive action is sent only with a consumed, positive decision, and with
\* exactly the arguments that decision approved: the approval row read before
\* the claim is not stale when the call is made.
SentAsDecided ==
    \A i \in Sensitive : sent[i].count > 0 =>
        /\ approval[i].consumed
        /\ approval[i].status \in {"APPROVED", "EDITED"}
        /\ sent[i].edited = (approval[i].status = "EDITED")

\* A receipt tells what happened: success means the provider was called, and a
\* row still open, rejected or cancelled means it was not.
ReceiptsAreHonest ==
    \A i \in Intents :
        /\ exec[i].status = "SUCCEEDED" => sent[i].count = 1
        /\ exec[i].status \notin {"SUCCEEDED"} \union Ambiguous => sent[i].count = 0

\* A claim and the guard beside the call always agree: the guard never turns a
\* claimed, decided action into a failure that would need reconciliation.
ClaimPassesGuard ==
    \A t \in Threads : thread[t].pc = "guarding" => GuardAdmits(t)

\* Once an execution is settled or ambiguous it is never open for a claim again,
\* and only the running one can be finished.
LedgerForward ==
    [][\A i \in Intents :
          /\ exec[i].status \in Settled \union {"FAILED"} =>
                exec'[i].status = exec[i].status
          /\ exec[i].status = "RUNNING" =>
                exec'[i].status \in {"RUNNING", "SUCCEEDED", "FAILED"}]_ledgerVars

\* How far each action has come, in the terms of module ToolEffect.
PhaseOf(i) ==
    CASE exec[i].status = "NONE" -> "absent"
      [] exec[i].status = "REQUESTED" -> "authorised"
      [] exec[i].status = "WAITING_APPROVAL" ->
            (CASE approval[i].status = "PENDING" -> "proposed"
               [] approval[i].status \in {"APPROVED", "EDITED"} -> "authorised"
               [] OTHER -> "refused")
      [] exec[i].status \in {"REJECTED", "CANCELLED"} -> "refused"
      [] exec[i].status = "RUNNING" ->
            (IF sent[i].count = 0 THEN "committed" ELSE "sent")
      [] OTHER -> "closed"

EffectPhase == [i \in Intents |-> PhaseOf(i)]

Effect == INSTANCE ToolEffect WITH phase <- EffectPhase

\* Every behaviour of the ledger is one of the abstract action: proposed, then
\* authorised or refused, committed once, sent at most once, closed.
ImplementsEffect == Effect!Spec
=============================================================================
