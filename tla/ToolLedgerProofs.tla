-------------------------- MODULE ToolLedgerProofs --------------------------
(***************************************************************************)
(* Proofs about module ToolLedger, for any sets of actions and threads: the *)
(* invariant LedgerInv is inductive, the safety properties follow from it,  *)
(* and the ledger implements the promise of module ToolEffect.              *)
(***************************************************************************)
EXTENDS ToolLedger, TLAPS

\* The part of LedgerTypeOK that speaks of threads.
ThreadTypeOK ==
    /\ thread \in [Threads -> ThreadState]
    /\ \A t \in Threads : thread[t].pc # "idle" => thread[t].intent \in Intents

-----------------------------------------------------------------------------
(* Type correctness.  First, what the updates of one row or thread preserve. *)

\* Moving a busy thread to another point of its code keeps its type.
LEMMA GotoType ==
    ASSUME ThreadTypeOK, NEW t \in Threads, thread[t].pc # "idle",
           NEW pc \in ThreadPC, Goto(t, pc)
    PROVE  ThreadTypeOK'
<1>1. thread' \in [Threads -> ThreadState]
  BY DEF Goto, ThreadTypeOK, ThreadState
<1>2. \A u \in Threads : thread'[u].intent = thread[u].intent
  BY DEF Goto, ThreadTypeOK, ThreadState
<1>3. \A u \in Threads \ {t} : thread'[u] = thread[u]
  BY DEF Goto, ThreadTypeOK
<1> QED
  BY <1>1, <1>2, <1>3 DEF ThreadTypeOK

\* So does returning from the call with a result.
LEMMA DoneType ==
    ASSUME ThreadTypeOK, NEW t \in Threads, thread[t].pc # "idle",
           NEW r \in Results, Done(t, r)
    PROVE  ThreadTypeOK'
<1> DEFINE v == [thread[t] EXCEPT !.pc = "returned", !.result = r]
<1>1. v \in ThreadState /\ v.intent = thread[t].intent
  BY DEF ThreadTypeOK, ThreadState, ThreadPC
<1>2. thread' = [thread EXCEPT ![t] = v]
  BY DEF Done, ThreadTypeOK, ThreadState
<1> HIDE DEF v
<1> QED
  BY <1>1, <1>2 DEF ThreadTypeOK

\* So does giving a thread a new, well-typed state.
LEMMA ThreadSetType ==
    ASSUME ThreadTypeOK, NEW t \in Threads, NEW v \in ThreadState,
           v.pc # "idle" => v.intent \in Intents,
           thread' = [thread EXCEPT ![t] = v]
    PROVE  ThreadTypeOK'
BY DEF ThreadTypeOK

\* An execution row keeps its type when its status is replaced, ...
LEMMA ExecStatusType ==
    ASSUME exec \in [Intents -> Execution], NEW i \in Intents, NEW s \in ExecStatus
    PROVE  [exec EXCEPT ![i].status = s] \in [Intents -> Execution]
BY DEF Execution

\* ... and when its hash is replaced as well.
LEMMA ExecClaimType ==
    ASSUME exec \in [Intents -> Execution], NEW i \in Intents,
           NEW s \in ExecStatus, NEW e \in BOOLEAN
    PROVE  [exec EXCEPT ![i].status = s, ![i].edited = e] \in [Intents -> Execution]
<1> DEFINE v == [exec[i] EXCEPT !.status = s, !.edited = e]
<1>1. v \in Execution
  BY DEF Execution
<1>2. [exec EXCEPT ![i].status = s, ![i].edited = e] = [exec EXCEPT ![i] = v]
  BY DEF Execution
<1> HIDE DEF v
<1> QED
  BY <1>1, <1>2

\* An approval row keeps its type when it is marked consumed.
LEMMA ConsumeType ==
    ASSUME approval \in [Intents -> Approval], NEW i \in Intents
    PROVE  Consume(i) \in [Intents -> Approval]
<1> DEFINE c == i \in Sensitive
<1>1. c \in BOOLEAN
  OBVIOUS
<1>2. Consume(i) = [approval EXCEPT ![i].consumed = c]
  BY DEF Consume
<1> HIDE DEF c
<1> QED
  BY <1>1, <1>2 DEF Approval

\* One more call keeps the provider's account well typed.
LEMMA SentType ==
    ASSUME sent \in [Intents -> [count : Nat, edited : BOOLEAN]],
           NEW i \in Intents, NEW e \in BOOLEAN
    PROVE  [sent EXCEPT ![i].count = @ + 1, ![i].edited = e]
              \in [Intents -> [count : Nat, edited : BOOLEAN]]
<1> DEFINE v == [sent[i] EXCEPT !.count = @ + 1, !.edited = e]
<1> DEFINE n == sent[i].count + 1
<1>0. n \in Nat
  OBVIOUS
<1>1. v \in [count : Nat, edited : BOOLEAN]
  <2> HIDE DEF n
  <2>1. [sent[i] EXCEPT !.count = n, !.edited = e] \in [count : Nat, edited : BOOLEAN]
    BY <1>0
  <2> QED BY <2>1 DEF n
<1>2. [sent EXCEPT ![i].count = @ + 1, ![i].edited = e] = [sent EXCEPT ![i] = v]
  OBVIOUS
<1> HIDE DEF v
<1> QED
  BY <1>1, <1>2

\* The empty ledger is well typed.
LEMMA TypeInit == LedgerInit => LedgerTypeOK
BY LedgerAssumption
   DEF LedgerInit, LedgerTypeOK, Execution, ExecStatus, Approval, ApprovalStatus,
       NoApproval, ThreadState, ThreadPC, Results, Idle

\* Every step of the ledger keeps the types.
LEMMA TypeStep ==
    ASSUME LedgerTypeOK, [LedgerNext]_ledgerVars PROVE LedgerTypeOK'
<1>0. /\ exec \in [Intents -> Execution] /\ approval \in [Intents -> Approval]
      /\ sent \in [Intents -> [count : Nat, edited : BOOLEAN]] /\ ThreadTypeOK
  BY DEF LedgerTypeOK, ThreadTypeOK
<1> SUFFICES /\ exec' \in [Intents -> Execution] /\ approval' \in [Intents -> Approval]
             /\ sent' \in [Intents -> [count : Nat, edited : BOOLEAN]] /\ ThreadTypeOK'
  BY DEF LedgerTypeOK, ThreadTypeOK
<1>1. ASSUME NEW t \in Threads, NEW i \in Intents,
             NEW r \in Sensitive \union {NoIntent}, Request(t, i, r)
      PROVE  /\ exec' \in [Intents -> Execution] /\ approval' \in [Intents -> Approval]
             /\ sent' = sent /\ ThreadTypeOK'
  <2>1. exec' \in [Intents -> Execution]
    <3>1. \/ exec' = exec
          \/ exec' = [exec EXCEPT ![i].status = "WAITING_APPROVAL"]
          \/ exec' = [exec EXCEPT ![i].status = "REQUESTED"]
      BY <1>1 DEF Request
    <3>2. {"WAITING_APPROVAL", "REQUESTED"} \subseteq ExecStatus
      BY DEF ExecStatus
    <3> QED BY <1>0, <3>1, <3>2, ExecStatusType
  <2>2. approval' \in [Intents -> Approval]
    BY <1>0, <1>1 DEF Request, Approval, ApprovalStatus
  <2>3. ThreadTypeOK'
    <3> DEFINE v == [pc |-> IF i \in Sensitive THEN "requested" ELSE "claiming",
                     intent |-> i, resume |-> r, read |-> NoApproval, result |-> "none"]
    <3>1. v \in ThreadState /\ v.intent \in Intents
      BY DEF ThreadState, ThreadPC, Results, NoApproval, Approval, ApprovalStatus
    <3>2. thread' = [thread EXCEPT ![t] = v]
      BY <1>1 DEF Request
    <3> HIDE DEF v
    <3> QED BY <1>0, <3>1, <3>2, ThreadSetType
  <2> QED BY <1>1, <2>1, <2>2, <2>3 DEF Request
<1>2. ASSUME NEW t \in Threads, ReadApproval(t)
      PROVE  UNCHANGED <<exec, approval, sent>> /\ ThreadTypeOK'
  <2> DEFINE a == approval[thread[t].intent]
             v == [thread[t] EXCEPT !.pc = IF a.consumed THEN "claiming" ELSE "parking",
                                    !.read = a]
  <2>1. v \in ThreadState /\ v.intent = thread[t].intent /\ v.intent \in Intents
    BY <1>0, <1>2 DEF ReadApproval, ThreadTypeOK, ThreadState, ThreadPC
  <2>2. thread' = [thread EXCEPT ![t] = v]
    BY <1>0, <1>2 DEF ReadApproval, ThreadTypeOK, ThreadState
  <2> HIDE DEF v
  <2> QED BY <1>0, <1>2, <2>1, <2>2, ThreadSetType DEF ReadApproval
<1>3. ASSUME NEW t \in Threads, Interrupt(t) \/ PolicyRefuses(t) \/ Guard(t)
      PROVE  UNCHANGED <<exec, approval, sent>> /\ ThreadTypeOK'
  <2>1. CASE Interrupt(t)
    BY <1>0, <2>1, GotoType, DoneType DEF Interrupt, ThreadPC, Results
  <2>2. CASE PolicyRefuses(t)
    BY <1>0, <2>2, DoneType DEF PolicyRefuses, Results
  <2>3. CASE Guard(t)
    <3> DEFINE v == [thread[t] EXCEPT !.pc = "finishing", !.result = "failure"]
    <3>1. CASE thread' = [thread EXCEPT ![t].pc = "finishing", ![t].result = "failure"]
      <4>1. v \in ThreadState /\ v.intent \in Intents
        BY <1>0, <2>3 DEF Guard, ThreadTypeOK, ThreadState, ThreadPC, Results
      <4>2. thread' = [thread EXCEPT ![t] = v]
        BY <1>0, <3>1 DEF ThreadTypeOK, ThreadState
      <4> HIDE DEF v
      <4> QED BY <1>0, <2>3, <4>1, <4>2, ThreadSetType DEF Guard
    <3> QED BY <1>0, <2>3, <3>1, GotoType DEF Guard, ThreadPC
  <2> QED BY <1>3, <2>1, <2>2, <2>3
<1>4. ASSUME NEW t \in Threads, Claim(t)
      PROVE  /\ exec' \in [Intents -> Execution] /\ approval' \in [Intents -> Approval]
             /\ sent' = sent /\ ThreadTypeOK'
  <2>1. thread[t].intent \in Intents
    BY <1>0, <1>4 DEF Claim, ThreadTypeOK
  <2>2. Consume(thread[t].intent) \in [Intents -> Approval]
    BY <1>0, <2>1, ConsumeType
  <2>3. exec' \in [Intents -> Execution]
    <3> DEFINE i == thread[t].intent
               e == approval[i].edited
    <3>1. i \in Intents /\ e \in BOOLEAN
      BY <1>0, <2>1 DEF Approval
    <3>2. \/ exec' = exec
          \/ exec' = [exec EXCEPT ![i].status = "REJECTED", ![i].edited = e]
          \/ exec' = [exec EXCEPT ![i].status = "RUNNING", ![i].edited = e]
      BY <1>4 DEF Claim
    <3>3. {"REJECTED", "RUNNING"} \subseteq ExecStatus
      BY DEF ExecStatus, Settled, Ambiguous
    <3> HIDE DEF i, e
    <3>4. ASSUME NEW s \in {"REJECTED", "RUNNING"}
          PROVE  [exec EXCEPT ![i].status = s, ![i].edited = e] \in [Intents -> Execution]
      BY <1>0, <3>1, <3>3, ExecClaimType, Zenon
    <3> QED BY <1>0, <3>2, <3>4, Zenon
  <2>4. ThreadTypeOK'
    <3>1. thread[t].pc # "idle"
      BY <1>4 DEF Claim
    <3>2. Goto(t, "guarding") \/ \E r \in {"success", "rejected", "conflict"} : Done(t, r)
      BY <1>4 DEF Claim
    <3> QED BY <1>0, <3>1, <3>2, GotoType, DoneType DEF ThreadPC, Results
  <2> QED BY <1>0, <1>4, <2>2, <2>3, <2>4 DEF Claim
<1>5. ASSUME NEW t \in Threads, Call(t)
      PROVE  /\ UNCHANGED <<exec, approval>> /\ ThreadTypeOK'
             /\ sent' \in [Intents -> [count : Nat, edited : BOOLEAN]]
  <2>1. thread[t].intent \in Intents /\ HoldsEdited(t) \in BOOLEAN
    BY <1>0, <1>5 DEF Call, ThreadTypeOK, HoldsEdited
  <2>2. sent' \in [Intents -> [count : Nat, edited : BOOLEAN]]
    BY <1>0, <1>5, <2>1, SentType DEF Call
  <2>3. ThreadTypeOK'
    <3> PICK r \in {"success", "failure"} :
             thread' = [thread EXCEPT ![t].pc = "finishing", ![t].result = r]
      BY <1>5 DEF Call
    <3> DEFINE v == [thread[t] EXCEPT !.pc = "finishing", !.result = r]
    <3>1. v \in ThreadState /\ v.intent \in Intents
      BY <1>0, <2>1 DEF ThreadTypeOK, ThreadState, ThreadPC, Results
    <3>2. thread' = [thread EXCEPT ![t] = v]
      BY <1>0 DEF ThreadTypeOK, ThreadState
    <3> HIDE DEF v
    <3> QED BY <1>0, <3>1, <3>2, ThreadSetType
  <2> QED BY <1>5, <2>2, <2>3 DEF Call
<1>6. ASSUME NEW t \in Threads, Finish(t)
      PROVE  /\ exec' \in [Intents -> Execution] /\ ThreadTypeOK'
             /\ UNCHANGED <<approval, sent>>
  <2>1. thread[t].intent \in Intents
    BY <1>0, <1>6 DEF Finish, ThreadTypeOK
  <2>2. exec' \in [Intents -> Execution]
    <3> DEFINE i == thread[t].intent
    <3>1. \/ exec' = exec
          \/ exec' = [exec EXCEPT ![i].status = "SUCCEEDED"]
          \/ exec' = [exec EXCEPT ![i].status = "FAILED"]
      BY <1>6 DEF Finish
    <3>2. {"SUCCEEDED", "FAILED"} \subseteq ExecStatus
      BY DEF ExecStatus, Settled, Ambiguous
    <3> HIDE DEF i
    <3> QED BY <1>0, <2>1, <3>1, <3>2, ExecStatusType DEF i
  <2>3. ThreadTypeOK'
    BY <1>0, <1>6, GotoType, DoneType DEF Finish, ThreadPC, Results
  <2> QED BY <1>6, <2>2, <2>3 DEF Finish
<1>7. ASSUME NEW t \in Threads, Return(t) \/ Die(t)
      PROVE  UNCHANGED <<exec, approval, sent>> /\ ThreadTypeOK'
  <2>1. Idle \in ThreadState /\ Idle.pc = "idle"
    BY DEF Idle, ThreadState, ThreadPC, Results, NoApproval, Approval, ApprovalStatus
  <2> QED BY <1>0, <1>7, <2>1, ThreadSetType DEF Return, Die
<1>8. ASSUME NEW i \in Intents, NEW d \in {"APPROVED", "EDITED", "REJECTED"}, Decide(i, d)
      PROVE  approval' \in [Intents -> Approval] /\ UNCHANGED <<exec, thread, sent>>
  <2> DEFINE v == [approval[i] EXCEPT !.status = d, !.edited = (d = "EDITED")]
  <2>1. v \in Approval
    BY <1>0 DEF Approval, ApprovalStatus
  <2>2. approval' = [approval EXCEPT ![i] = v]
    BY <1>0, <1>8 DEF Decide, Approval
  <2> HIDE DEF v
  <2> QED BY <1>0, <1>8, <2>1, <2>2 DEF Decide
<1>9. CASE CancelPending
  <2>1. exec' \in [Intents -> Execution]
    BY <1>0, <1>9 DEF CancelPending, Execution, ExecStatus, Settled
  <2>2. approval' \in [Intents -> Approval]
    BY <1>0, <1>9 DEF CancelPending, Approval, ApprovalStatus
  <2> QED BY <1>0, <1>9, <2>1, <2>2 DEF CancelPending, ThreadTypeOK
<1>10. CASE UNCHANGED ledgerVars
  BY <1>0, <1>10 DEF ledgerVars, ThreadTypeOK
<1>11. ASSUME UNCHANGED thread PROVE ThreadTypeOK'
  BY <1>0, <1>11 DEF ThreadTypeOK
<1> QED
  BY <1>0, <1>1, <1>2, <1>3, <1>4, <1>5, <1>6, <1>7, <1>8, <1>9, <1>10, <1>11
     DEF LedgerNext, ThreadStep

\* The ledger's rows and threads always have their types.
THEOREM TypeCorrect == LedgerSpec => []LedgerTypeOK
BY TypeInit, TypeStep, PTL DEF LedgerSpec
-----------------------------------------------------------------------------
(* The inductive invariant.  First, what an action leaves alone. *)

\* A thread that moves to another point of its code keeps all else it knows.
LEMMA GotoEffect ==
    ASSUME ThreadTypeOK, NEW t \in Threads, NEW pc \in ThreadPC, Goto(t, pc)
    PROVE  /\ thread'[t].pc = pc
           /\ thread'[t].intent = thread[t].intent
           /\ thread'[t].read = thread[t].read
           /\ thread'[t].result = thread[t].result
           /\ \A u \in Threads \ {t} : thread'[u] = thread[u]
BY DEF Goto, ThreadTypeOK, ThreadState

\* A thread that returns from its call keeps the action it was about.
LEMMA DoneEffect ==
    ASSUME ThreadTypeOK, NEW t \in Threads, NEW r \in Results, Done(t, r)
    PROVE  /\ thread'[t].pc = "returned"
           /\ \A u \in Threads \ {t} : thread'[u] = thread[u]
BY DEF Done, ThreadTypeOK, ThreadState

\* A thread that leaves its call, one way or another, disturbs nothing.
LEMMA LeaveStep ==
    ASSUME LedgerInv, NEW t \in Threads, UNCHANGED <<exec, approval, sent>>,
           thread'[t].pc \in {"idle", "returned"},
           \A u \in Threads \ {t} : thread'[u] = thread[u]
    PROVE  RowsAgree' /\ ClaimIsExclusive' /\ ReadsAreFresh' /\ SendsAreRecorded'
<1> USE DEF LedgerInv
<1>1. RowsAgree'
  BY DEF RowsAgree, RowAgrees
<1>2. ClaimIsExclusive'
  BY DEF ClaimIsExclusive, Claiming
<1>3. ReadsAreFresh'
  BY DEF ReadsAreFresh, FreshRead, HoldsEdited
<1>4. SendsAreRecorded'
  BY DEF SendsAreRecorded, SendRecorded, SenderKnows
<1> QED
  BY <1>1, <1>2, <1>3, <1>4

\* A request adds rows that agree, or finds those of an earlier request.
LEMMA RequestStep ==
    ASSUME LedgerInv, LedgerTypeOK', NEW t \in Threads, NEW i \in Intents,
           NEW r \in Sensitive \union {NoIntent}, Request(t, i, r)
    PROVE  RowsAgree' /\ ClaimIsExclusive' /\ ReadsAreFresh' /\ SendsAreRecorded'
<1> USE DEF LedgerInv
<1>1. /\ thread'[t] = [pc |-> IF i \in Sensitive THEN "requested" ELSE "claiming",
                       intent |-> i, resume |-> r, read |-> NoApproval, result |-> "none"]
      /\ \A u \in Threads \ {t} : thread'[u] = thread[u]
      /\ sent' = sent
  BY DEF Request, LedgerTypeOK
<1>2. /\ \A j \in Intents \ {i} : exec'[j] = exec[j] /\ approval'[j] = approval[j]
      /\ exec'[i].edited = exec[i].edited
      /\ approval'[i].edited = approval[i].edited
      /\ approval'[i].consumed = approval[i].consumed
  BY DEF Request, LedgerTypeOK, Execution, Approval
<1>3. \/ exec' = exec /\ approval' = approval /\ exec[i].status # "NONE" /\ i \in Sensitive
      \/ /\ exec[i].status = "NONE" /\ i \in Sensitive
         /\ exec'[i].status = "WAITING_APPROVAL" /\ approval'[i].status = "PENDING"
      \/ /\ exec[i].status = "NONE" /\ i \notin Sensitive
         /\ exec'[i].status = "REQUESTED" /\ approval' = approval
  BY DEF Request, LedgerTypeOK, Execution, Approval
<1>4. RowsAgree'
  <2> SUFFICES ASSUME NEW j \in Intents PROVE RowAgrees(j)'
    BY DEF RowsAgree
  <2>1. RowAgrees(j)
    BY DEF RowsAgree
  <2>2. CASE exec'[j] = exec[j] /\ approval'[j] = approval[j]
    BY <2>1, <2>2 DEF RowAgrees
  <2>3. CASE j = i /\ i \in Sensitive /\ exec[i].status = "NONE"
    BY <1>2, <1>3, <2>1, <2>3 DEF RowAgrees, Executed
  <2>4. CASE j = i /\ i \notin Sensitive /\ exec[i].status = "NONE"
    BY <1>2, <1>3, <2>1, <2>4 DEF RowAgrees
  <2> QED BY <1>2, <1>3, <2>2, <2>3, <2>4
<1>5. \A j \in Intents : exec[j].status # "NONE" => exec'[j] = exec[j] /\ approval'[j] = approval[j]
  BY <1>2, <1>3
<1>6. /\ thread'[t].pc = IF i \in Sensitive THEN "requested" ELSE "claiming"
      /\ thread'[t].intent = i
      /\ thread'[t].read = NoApproval
  BY <1>1
<1>8. ClaimIsExclusive'
  <2>1. \A u \in Threads : Claiming(u)' => u # t /\ Claiming(u)
    BY <1>1, <1>6 DEF Claiming
  <2>2. \A u \in Threads : Claiming(u) => thread[u].intent \in Intents
    BY DEF Claiming, LedgerTypeOK
  <2> QED BY <1>1, <1>5, <2>1, <2>2 DEF ClaimIsExclusive
<1>9. ReadsAreFresh'
  <2> SUFFICES ASSUME NEW u \in Threads PROVE FreshRead(u)'
    BY DEF ReadsAreFresh
  <2>1. CASE u = t
    <3>1. i \notin Sensitive => approval'[i] = NoApproval
      BY <1>4 DEF RowsAgree, RowAgrees
    <3>3. CASE i \in Sensitive
      BY <1>3, <1>6, <2>1, <3>3 DEF FreshRead
    <3>4. CASE i \notin Sensitive
      BY <1>3, <1>6, <2>1, <3>1, <3>4 DEF FreshRead, NoApproval
    <3> QED BY <3>3, <3>4
  <2>2. CASE u # t
    <3> DEFINE j == thread[u].intent
    <3>1. thread'[u] = thread[u] /\ FreshRead(u)
      BY <1>1, <2>2 DEF ReadsAreFresh
    <3>2. CASE j \in Intents /\ exec[j].status # "NONE"
      <4>1. exec'[j] = exec[j] /\ approval'[j] = approval[j]
        BY <1>5, <3>2
      <4> QED BY <3>1, <4>1 DEF FreshRead, HoldsEdited
    <3>3. CASE thread[u].pc \in {"idle", "finishing", "returned"}
      BY <3>1, <3>3 DEF FreshRead
    <3>4. \/ thread[u].pc \in {"idle", "finishing", "returned"}
          \/ j \in Intents /\ exec[j].status # "NONE"
      BY <3>1 DEF LedgerTypeOK, ThreadState, ThreadPC, FreshRead, ClaimIsExclusive, Claiming
    <3> QED BY <3>2, <3>3, <3>4
  <2> QED BY <2>1, <2>2
<1>10. SendsAreRecorded'
  BY <1>1, <1>2, <1>3 DEF SendsAreRecorded, SendRecorded, SenderKnows, LedgerTypeOK, Executed
<1> QED
  BY <1>4, <1>8, <1>9, <1>10

\* The approval a thread reads is fresh when it reads it.
LEMMA ReadApprovalStep ==
    ASSUME LedgerInv, NEW t \in Threads, ReadApproval(t)
    PROVE  RowsAgree' /\ ClaimIsExclusive' /\ ReadsAreFresh' /\ SendsAreRecorded'
<1> USE DEF LedgerInv
<1> DEFINE a == approval[thread[t].intent]
<1>1. /\ thread'[t].pc = IF a.consumed THEN "claiming" ELSE "parking"
      /\ thread'[t].intent = thread[t].intent
      /\ thread'[t].read = a
      /\ \A u \in Threads \ {t} : thread'[u] = thread[u]
      /\ UNCHANGED <<exec, approval, sent>>
  BY DEF ReadApproval, LedgerTypeOK, ThreadState
<1>2. thread[t].pc = "requested" /\ thread[t].intent \in Sensitive
  BY DEF ReadApproval, ReadsAreFresh, FreshRead
<1>3. RowsAgree'
  BY <1>1 DEF RowsAgree, RowAgrees
<1>4. ClaimIsExclusive'
  BY <1>1 DEF ClaimIsExclusive, Claiming
<1>5. ReadsAreFresh'
  <2>1. a.consumed => a.status # "PENDING"
    <3>1. RowAgrees(thread[t].intent)
      BY <1>2, LedgerAssumption DEF RowsAgree
    <3> QED BY <1>2, <3>1 DEF RowAgrees, Executed
  <2> QED BY <1>1, <1>2, <2>1 DEF ReadsAreFresh, FreshRead, HoldsEdited
<1>6. SendsAreRecorded'
  BY <1>1 DEF SendsAreRecorded, SendRecorded, SenderKnows
<1> QED
  BY <1>3, <1>4, <1>5, <1>6

\* A thread goes on past its interrupt only when the approval is decided.
LEMMA InterruptStep ==
    ASSUME LedgerInv, NEW t \in Threads, Interrupt(t)
    PROVE  RowsAgree' /\ ClaimIsExclusive' /\ ReadsAreFresh' /\ SendsAreRecorded'
<1> USE DEF LedgerInv
<1>0. ThreadTypeOK /\ UNCHANGED <<exec, approval, sent>>
  BY DEF LedgerTypeOK, ThreadTypeOK, Interrupt
<1>1. CASE Done(t, "interrupt") \/ Done(t, "conflict")
  BY <1>0, <1>1, DoneEffect, LeaveStep DEF Results
<1>2. CASE Goto(t, "claiming") /\ thread[t].pc = "parking" /\ thread[t].read.status # "PENDING"
  <2>1. /\ thread'[t].pc = "claiming" /\ thread'[t].intent = thread[t].intent
        /\ thread'[t].read = thread[t].read
        /\ \A u \in Threads \ {t} : thread'[u] = thread[u]
    BY <1>0, <1>2, GotoEffect DEF ThreadPC
  <2>2. RowsAgree'
    BY <1>0 DEF RowsAgree, RowAgrees
  <2>3. ClaimIsExclusive'
    BY <1>0, <2>1 DEF ClaimIsExclusive, Claiming
  <2>4. ReadsAreFresh'
    BY <1>0, <1>2, <2>1 DEF ReadsAreFresh, FreshRead, HoldsEdited
  <2>5. SendsAreRecorded'
    BY <1>0, <2>1 DEF SendsAreRecorded, SendRecorded, SenderKnows
  <2> QED BY <2>2, <2>3, <2>4, <2>5
<1> QED
  BY <1>1, <1>2 DEF Interrupt
\* How any step may change the rows of an action.
RowMovesForward(j) ==
    /\ exec[j].status # "NONE" => exec'[j].status # "NONE"
    /\ approval[j].status # "PENDING" =>
          /\ approval'[j].status # "PENDING"
          /\ approval'[j].edited = approval[j].edited
    /\ approval[j].consumed => approval'[j].consumed
    /\ exec[j].status = "RUNNING" => exec'[j].edited = exec[j].edited

\* What a thread knows stays fresh when rows only move forward.
LEMMA FreshKept ==
    ASSUME LedgerInv, NEW u \in Threads, thread'[u] = thread[u],
           \A j \in Intents : RowMovesForward(j)
    PROVE  FreshRead(u)'
<1> DEFINE j == thread[u].intent
<1>1. FreshRead(u)
  BY DEF LedgerInv, ReadsAreFresh
<1>2. CASE thread[u].pc = "idle"
  BY <1>2 DEF FreshRead
<1>3. CASE thread[u].pc # "idle"
  <2>1. j \in Intents
    BY <1>3 DEF LedgerInv, LedgerTypeOK
  <2>2. thread[u].pc \in {"guarding", "calling"} => exec[j].status = "RUNNING"
    BY DEF LedgerInv, ClaimIsExclusive, Claiming
  <2>3. RowMovesForward(j)
    BY <2>1
  <2> QED BY <1>1, <2>2, <2>3 DEF FreshRead, HoldsEdited, RowMovesForward
<1> QED
  BY <1>2, <1>3

\* A claim moves an open action to running or rejected, for one thread only.
LEMMA ClaimStep ==
    ASSUME LedgerInv, LedgerTypeOK', NEW t \in Threads, Claim(t)
    PROVE  RowsAgree' /\ ClaimIsExclusive' /\ ReadsAreFresh' /\ SendsAreRecorded'
<1> DEFINE i == thread[t].intent
<1>0. /\ ThreadTypeOK /\ thread[t].pc = "claiming" /\ i \in Intents /\ sent' = sent
      /\ FreshRead(t) /\ LedgerTypeOK
  BY DEF LedgerInv, LedgerTypeOK, ThreadTypeOK, Claim, ReadsAreFresh
<1>1. CASE (\E r \in Results : Done(t, r)) /\ UNCHANGED <<exec, approval>>
  BY <1>0, <1>1, DoneEffect, LeaveStep
<1>2. ASSUME MayClaim(i), approval' = Consume(i), NEW s \in {"REJECTED", "RUNNING"},
             s = "REJECTED" <=> approval[i].status = "REJECTED",
             exec' = [exec EXCEPT ![i].status = s, ![i].edited = approval[i].edited],
             thread'[t].pc = IF s = "REJECTED" THEN "returned" ELSE "guarding",
             s = "RUNNING" => /\ thread'[t].intent = i
                              /\ thread'[t].read = thread[t].read,
             \A u \in Threads \ {t} : thread'[u] = thread[u]
      PROVE  RowsAgree' /\ ClaimIsExclusive' /\ ReadsAreFresh' /\ SendsAreRecorded'
  <2>1. /\ exec[i].status \in {"REQUESTED", "WAITING_APPROVAL"}
        /\ ~approval[i].consumed
        /\ i \in Sensitive => approval[i].status \in {"APPROVED", "EDITED", "REJECTED"}
        /\ i \notin Sensitive => s = "RUNNING" /\ approval[i] = NoApproval
    <3>1. exec[i].status \in {"REQUESTED", "WAITING_APPROVAL"}
      BY <1>0, <1>2
         DEF MayClaim, FreshRead, LedgerTypeOK, Execution, ExecStatus
    <3>2. CASE i \in Sensitive
      BY <1>2, <3>1, <3>2 DEF MayClaim
    <3>3. CASE i \notin Sensitive
      <4>1. approval[i] = NoApproval
        BY <1>0, <3>3 DEF LedgerInv, RowsAgree, RowAgrees
      <4> QED BY <1>2, <3>1, <3>3, <4>1 DEF NoApproval
    <3> QED BY <3>2, <3>3
  <2>2. /\ exec'[i].status = s /\ exec'[i].edited = approval[i].edited
        /\ \A j \in Intents \ {i} : exec'[j] = exec[j] /\ approval'[j] = approval[j]
        /\ approval'[i].status = approval[i].status
        /\ approval'[i].edited = approval[i].edited
        /\ i \notin Sensitive => approval'[i] = approval[i]
    BY <1>0, <1>2, <2>1 DEF Consume, LedgerTypeOK, Execution, Approval, NoApproval
  <2>3. i \in Sensitive => approval'[i].consumed
    BY <1>0, <1>2 DEF Consume, LedgerTypeOK, Approval
  <2>4. RowsAgree'
    <3> SUFFICES ASSUME NEW j \in Intents PROVE RowAgrees(j)'
      BY LedgerAssumption DEF RowsAgree, RowAgrees
    <3>1. RowAgrees(j)
      BY DEF LedgerInv, RowsAgree
    <3>2. CASE j # i
      BY <2>2, <3>1, <3>2 DEF RowAgrees
    <3>3. CASE j = i /\ i \in Sensitive
      BY <1>2, <2>1, <2>2, <2>3, <3>1, <3>3 DEF RowAgrees, Executed
    <3>4. CASE j = i /\ i \notin Sensitive
      BY <1>2, <2>1, <2>2, <3>1, <3>4 DEF RowAgrees, Executed, NoApproval
    <3> QED BY <3>2, <3>3, <3>4
  <2>5. ClaimIsExclusive'
    <3>1. \A u \in Threads \ {t} : Claiming(u)' => Claiming(u) /\ thread[u].intent \in Intents
      BY <1>2 DEF Claiming, LedgerInv, LedgerTypeOK
    <3>2. \A u \in Threads : Claiming(u) => thread[u].intent # i
      BY <2>1 DEF LedgerInv, ClaimIsExclusive
    <3>3. Claiming(t)' => s = "RUNNING" /\ thread'[t].intent = i
      BY <1>2 DEF Claiming
    <3>4. ASSUME NEW u \in Threads \ {t}, Claiming(u)'
          PROVE  /\ Claiming(u) /\ thread'[u].intent = thread[u].intent
                 /\ thread'[u].intent # i /\ exec'[thread'[u].intent].status = "RUNNING"
      <4>1. Claiming(u) /\ thread[u].intent \in Intents /\ thread'[u] = thread[u]
        BY <1>2, <3>1, <3>4
      <4> QED BY <2>2, <3>2, <4>1 DEF ClaimIsExclusive, LedgerInv
    <3> QED BY <2>2, <3>3, <3>4 DEF ClaimIsExclusive, LedgerInv, Claiming
  <2>6. ReadsAreFresh'
    <3>1. ASSUME NEW u \in Threads \ {t} PROVE FreshRead(u)'
      <4>1. \A j \in Intents : RowMovesForward(j)
        BY <1>2, <2>1, <2>2 DEF RowMovesForward
      <4>2. thread'[u] = thread[u]
        BY <1>2
      <4> QED BY <4>1, <4>2, FreshKept DEF FreshRead, HoldsEdited
    <3>2. FreshRead(t)'
      <4>1. thread[t].read.edited = approval[i].edited /\ ~thread[t].read.consumed
        BY <1>0, <2>1 DEF FreshRead
      <4>2. CASE s = "REJECTED"
        BY <1>2, <4>2 DEF FreshRead
      <4>3. CASE s = "RUNNING"
        <5>1. thread'[t].read.edited = exec'[i].edited /\ ~thread'[t].read.consumed
          BY <1>2, <2>2, <4>1, <4>3
        <5>2. exec'[i].edited \in BOOLEAN
          BY <1>0 DEF LedgerTypeOK, Execution
        <5> QED BY <1>2, <4>3, <5>1, <5>2 DEF FreshRead, HoldsEdited
      <4> QED BY <4>2, <4>3
    <3> QED BY <3>1, <3>2 DEF ReadsAreFresh
  <2>7. SendsAreRecorded'
    <3>0. SendRecorded(i) /\ sent[i].count \in Nat
      BY <1>0 DEF LedgerInv, SendsAreRecorded, LedgerTypeOK
    <3>1. sent[i].count = 0
      BY <2>1, <3>0 DEF SendRecorded, Executed
    <3>2. ASSUME NEW j \in Intents PROVE SendRecorded(j)'
      <4>1. SendRecorded(j)
        BY DEF LedgerInv, SendsAreRecorded
      <4>2. CASE j = i
        BY <1>0, <1>2, <2>2, <3>1, <4>2 DEF SendRecorded
      <4>3. CASE j # i
        BY <1>0, <2>2, <4>1, <4>3 DEF SendRecorded
      <4> QED BY <4>2, <4>3
    <3>3. ASSUME NEW u \in Threads \ {t} PROVE SenderKnows(u)'
      BY <1>0, <1>2 DEF LedgerInv, SendsAreRecorded, SenderKnows
    <3>4. SenderKnows(t)'
      <4>1. CASE s = "REJECTED"
        BY <1>2, <4>1 DEF SenderKnows
      <4>2. CASE s = "RUNNING"
        BY <1>0, <1>2, <3>1, <4>2 DEF SenderKnows
      <4> QED BY <4>1, <4>2
    <3> QED BY <3>2, <3>3, <3>4 DEF SendsAreRecorded, SendRecorded, SenderKnows
  <2> QED BY <2>4, <2>5, <2>6, <2>7
<1>3. CASE /\ MayClaim(i) /\ approval' = Consume(i) /\ approval[i].status = "REJECTED"
           /\ exec' = [exec EXCEPT ![i].status = "REJECTED", ![i].edited = approval[i].edited]
           /\ Done(t, "rejected")
  BY <1>0, <1>2, <1>3, DoneEffect DEF Results
<1>4. CASE /\ MayClaim(i) /\ approval' = Consume(i) /\ approval[i].status # "REJECTED"
           /\ exec' = [exec EXCEPT ![i].status = "RUNNING", ![i].edited = approval[i].edited]
           /\ Goto(t, "guarding")
  BY <1>0, <1>2, <1>4, GotoEffect DEF ThreadPC
<1> QED
  BY <1>1, <1>3, <1>4 DEF Claim, Results

\* A thread that has its result keeps the action and the approval it read.
LEMMA FinishingEffect ==
    ASSUME ThreadTypeOK, NEW t \in Threads, NEW r \in Results,
           thread' = [thread EXCEPT ![t].pc = "finishing", ![t].result = r]
    PROVE  /\ thread'[t].pc = "finishing" /\ thread'[t].result = r
           /\ thread'[t].intent = thread[t].intent
           /\ \A u \in Threads \ {t} : thread'[u] = thread[u]
BY DEF ThreadTypeOK, ThreadState

\* The holder of a claim moves on, and keeps it; no row changes.
LEMMA HolderMoves ==
    ASSUME LedgerInv, NEW t \in Threads, Claiming(t), UNCHANGED <<exec, approval>>,
           thread'[t].pc \in {"calling", "finishing"},
           thread'[t].intent = thread[t].intent,
           thread'[t].pc = "calling" => /\ thread[t].pc = "guarding"
                                        /\ thread'[t].read = thread[t].read,
           \A u \in Threads \ {t} : thread'[u] = thread[u]
    PROVE  RowsAgree' /\ ClaimIsExclusive' /\ ReadsAreFresh'
<1>1. RowsAgree'
  BY DEF LedgerInv, RowsAgree, RowAgrees
<1>2. ClaimIsExclusive'
  BY DEF LedgerInv, ClaimIsExclusive, Claiming
<1>3. ReadsAreFresh'
  BY DEF LedgerInv, ReadsAreFresh, FreshRead, HoldsEdited
<1> QED
  BY <1>1, <1>2, <1>3

\* The guard sends nothing, and the claim stays where it is.
LEMMA GuardStep ==
    ASSUME LedgerInv, NEW t \in Threads, Guard(t)
    PROVE  RowsAgree' /\ ClaimIsExclusive' /\ ReadsAreFresh' /\ SendsAreRecorded'
<1>0. /\ ThreadTypeOK /\ UNCHANGED <<exec, approval, sent>>
      /\ thread[t].pc = "guarding" /\ Claiming(t)
  BY DEF LedgerInv, LedgerTypeOK, ThreadTypeOK, Guard, Claiming
<1>1. /\ thread'[t].pc \in {"calling", "finishing"}
      /\ thread'[t].intent = thread[t].intent
      /\ thread'[t].pc = "calling" => thread'[t].read = thread[t].read
      /\ thread'[t].pc = "finishing" => thread'[t].result = "failure"
      /\ \A u \in Threads \ {t} : thread'[u] = thread[u]
  <2>1. CASE Goto(t, "calling")
    BY <1>0, <2>1, GotoEffect DEF ThreadPC
  <2>2. CASE thread' = [thread EXCEPT ![t].pc = "finishing", ![t].result = "failure"]
    BY <1>0, <2>2, FinishingEffect DEF Results
  <2> QED BY <2>1, <2>2 DEF Guard
<1>2. RowsAgree' /\ ClaimIsExclusive' /\ ReadsAreFresh'
  BY <1>0, <1>1, HolderMoves
<1>3. SendsAreRecorded'
  BY <1>0, <1>1 DEF LedgerInv, SendsAreRecorded, SendRecorded, SenderKnows
<1> QED
  BY <1>2, <1>3

\* The call is recorded once, under the claim of the calling thread.
LEMMA CallStep ==
    ASSUME LedgerInv, NEW t \in Threads, Call(t)
    PROVE  RowsAgree' /\ ClaimIsExclusive' /\ ReadsAreFresh' /\ SendsAreRecorded'
<1> DEFINE i == thread[t].intent
<1>0. /\ ThreadTypeOK /\ UNCHANGED <<exec, approval>> /\ i \in Intents
      /\ thread[t].pc = "calling" /\ Claiming(t)
      /\ sent \in [Intents -> [count : Nat, edited : BOOLEAN]]
  BY DEF LedgerInv, LedgerTypeOK, ThreadTypeOK, Call, Claiming
<1>1. /\ thread'[t].pc = "finishing" /\ thread'[t].intent = i
      /\ \A u \in Threads \ {t} : thread'[u] = thread[u]
  <2> PICK r \in {"success", "failure"} :
           thread' = [thread EXCEPT ![t].pc = "finishing", ![t].result = r]
    BY DEF Call
  <2> QED BY <1>0, FinishingEffect DEF Results
<1>2. RowsAgree' /\ ClaimIsExclusive' /\ ReadsAreFresh'
  BY <1>0, <1>1, HolderMoves
<1>3. sent[i].count = 0 /\ exec[i].status = "RUNNING"
  BY <1>0 DEF LedgerInv, SendsAreRecorded, SenderKnows, ClaimIsExclusive
<1>4. /\ sent'[i].count = 1 /\ sent'[i].edited = HoldsEdited(t)
      /\ \A j \in Intents \ {i} : sent'[j] = sent[j]
  BY <1>0, <1>3 DEF Call
<1>5. HoldsEdited(t) = exec[i].edited
  BY <1>0 DEF LedgerInv, ReadsAreFresh, FreshRead
<1>6. ASSUME NEW j \in Intents PROVE SendRecorded(j)'
  <2>1. CASE j = i
    BY <1>0, <1>3, <1>4, <1>5, <2>1 DEF SendRecorded, Executed
  <2>2. CASE j # i
    BY <1>0, <1>4, <2>2 DEF LedgerInv, SendsAreRecorded, SendRecorded
  <2> QED BY <2>1, <2>2
<1>7. ASSUME NEW u \in Threads PROVE SenderKnows(u)'
  <2>1. CASE u = t
    BY <1>1, <1>4, <2>1 DEF SenderKnows
  <2>2. CASE u # t /\ Claiming(u)
    <3>1. thread[u].intent \in Intents \ {i}
      BY <1>0, <2>2 DEF LedgerInv, LedgerTypeOK, ClaimIsExclusive, Claiming
    <3> QED BY <1>1, <1>4, <2>2, <3>1 DEF LedgerInv, SendsAreRecorded, SenderKnows
  <2>3. CASE u # t /\ ~Claiming(u)
    BY <1>1, <2>3 DEF SenderKnows, Claiming
  <2> QED BY <2>1, <2>2, <2>3
<1> QED
  BY <1>2, <1>6, <1>7 DEF SendsAreRecorded, SendRecorded, SenderKnows

\* Finishing closes the running execution with the result of its holder.
LEMMA FinishStep ==
    ASSUME LedgerInv, NEW t \in Threads, Finish(t)
    PROVE  RowsAgree' /\ ClaimIsExclusive' /\ ReadsAreFresh' /\ SendsAreRecorded'
<1> DEFINE i == thread[t].intent
<1>0. /\ ThreadTypeOK /\ UNCHANGED <<approval, sent>> /\ i \in Intents
      /\ thread[t].pc = "finishing" /\ Claiming(t) /\ exec \in [Intents -> Execution]
  BY DEF LedgerInv, LedgerTypeOK, ThreadTypeOK, Finish, Claiming
<1>1. exec[i].status = "RUNNING"
  BY <1>0 DEF LedgerInv, ClaimIsExclusive
<1>2. /\ thread'[t].pc = "returned"
      /\ \A u \in Threads \ {t} : thread'[u] = thread[u]
  BY <1>0, <1>1, GotoEffect DEF Finish, ThreadPC
<1>3. /\ exec'[i].status = IF thread[t].result = "success" THEN "SUCCEEDED" ELSE "FAILED"
      /\ exec'[i].edited = exec[i].edited
      /\ \A j \in Intents \ {i} : exec'[j] = exec[j]
  BY <1>0, <1>1 DEF Finish, Execution
<1>4. ASSUME NEW j \in Intents PROVE RowAgrees(j)' /\ SendRecorded(j)'
  <2>1. RowAgrees(j) /\ SendRecorded(j)
    BY DEF LedgerInv, RowsAgree, SendsAreRecorded
  <2>2. CASE j = i
    <3>1. RowAgrees(j)'
      BY <1>0, <1>1, <1>3, <2>1, <2>2 DEF RowAgrees, Executed
    <3>2. thread[t].result = "success" => sent[i].count = 1
      BY <1>0 DEF LedgerInv, SendsAreRecorded, SenderKnows
    <3>3. SendRecorded(j)'
      BY <1>0, <1>1, <1>3, <2>1, <2>2, <3>2 DEF SendRecorded, Executed
    <3> QED BY <3>1, <3>3
  <2>3. CASE j # i
    BY <1>0, <1>3, <2>1, <2>3 DEF RowAgrees, SendRecorded
  <2> QED BY <2>2, <2>3
<1>5. ClaimIsExclusive'
  <2>1. ASSUME NEW u \in Threads, Claiming(u)'
        PROVE  /\ u # t /\ Claiming(u) /\ thread'[u] = thread[u]
               /\ exec'[thread[u].intent].status = "RUNNING"
    <3>1. u # t /\ thread'[u] = thread[u] /\ Claiming(u)
      BY <1>2, <2>1 DEF Claiming
    <3>2. thread[u].intent \in Intents \ {i}
      BY <1>0, <3>1 DEF LedgerInv, LedgerTypeOK, ClaimIsExclusive, Claiming
    <3> QED BY <1>3, <3>1, <3>2 DEF LedgerInv, ClaimIsExclusive
  <2> QED BY <2>1 DEF LedgerInv, ClaimIsExclusive, Claiming
<1>6. ASSUME NEW u \in Threads PROVE FreshRead(u)' /\ SenderKnows(u)'
  <2>1. CASE u = t
    BY <1>2, <2>1 DEF FreshRead, SenderKnows
  <2>2. CASE u # t
    <3>1. \A j \in Intents : RowMovesForward(j)
      BY <1>0, <1>1, <1>3 DEF RowMovesForward
    <3>2. thread'[u] = thread[u]
      BY <1>2, <2>2
    <3> QED BY <1>0, <3>1, <3>2, FreshKept
            DEF FreshRead, HoldsEdited, LedgerInv, SendsAreRecorded, SenderKnows
  <2> QED BY <2>1, <2>2
<1> QED
  BY <1>4, <1>5, <1>6 DEF RowsAgree, RowAgrees, ReadsAreFresh, FreshRead,
                          SendsAreRecorded, SendRecorded, SenderKnows

\* A decision changes an approval no thread has yet acted upon.
LEMMA DecideStep ==
    ASSUME LedgerInv, NEW i \in Intents, NEW d \in {"APPROVED", "EDITED", "REJECTED"},
           Decide(i, d)
    PROVE  RowsAgree' /\ ClaimIsExclusive' /\ ReadsAreFresh' /\ SendsAreRecorded'
<1>0. /\ UNCHANGED <<exec, thread, sent>> /\ LedgerTypeOK
      /\ approval[i].status = "PENDING" /\ ~approval[i].consumed
  BY DEF LedgerInv, Decide
<1>1. /\ approval'[i].status = d /\ approval'[i].edited = (d = "EDITED")
      /\ approval'[i].consumed = approval[i].consumed
      /\ \A j \in Intents \ {i} : approval'[j] = approval[j]
  BY <1>0 DEF Decide, LedgerTypeOK, Approval
<1>2. ASSUME NEW j \in Intents PROVE RowAgrees(j)'
  <2>1. RowAgrees(j)
    BY DEF LedgerInv, RowsAgree
  <2>2. CASE j = i
    <3>1. i \in Sensitive
      BY <1>0, <2>1, <2>2 DEF RowAgrees, NoApproval
    <3>2. exec[i].status \notin Executed \union {"NONE", "REQUESTED", "REJECTED", "CANCELLED"}
      BY <1>0, <2>1, <2>2, <3>1 DEF RowAgrees, Executed
    <3>3. ~approval'[i].consumed /\ (approval'[i].edited <=> d = "EDITED")
      BY <1>0, <1>1
    <3>4. exec'[i].status = exec[i].status
      BY <1>0
    <3> QED BY <1>1, <2>2, <3>1, <3>2, <3>3, <3>4 DEF RowAgrees, Executed
  <2>3. CASE j # i
    BY <1>0, <1>1, <2>1, <2>3 DEF RowAgrees
  <2> QED BY <2>2, <2>3
<1>3. ASSUME NEW u \in Threads PROVE FreshRead(u)'
  <2>1. \A j \in Intents : RowMovesForward(j)
    BY <1>0, <1>1 DEF RowMovesForward
  <2> QED BY <1>0, <2>1, FreshKept DEF FreshRead, HoldsEdited
<1>4. ClaimIsExclusive' /\ SendsAreRecorded'
  BY <1>0 DEF LedgerInv, ClaimIsExclusive, Claiming, SendsAreRecorded, SendRecorded, SenderKnows
<1> QED
  BY <1>2, <1>3, <1>4 DEF RowsAgree, RowAgrees, ReadsAreFresh, FreshRead

\* Cancelling closes only actions that were never claimed.
LEMMA CancelPendingStep ==
    ASSUME LedgerInv, CancelPending
    PROVE  RowsAgree' /\ ClaimIsExclusive' /\ ReadsAreFresh' /\ SendsAreRecorded'
<1>0. UNCHANGED <<thread, sent>> /\ LedgerTypeOK
  BY DEF LedgerInv, CancelPending
<1>1. ASSUME NEW j \in Intents, ~Undone(j)
      PROVE  exec'[j] = exec[j] /\ approval'[j] = approval[j]
  BY <1>1 DEF CancelPending
<1>2. ASSUME NEW j \in Intents, Undone(j)
      PROVE  /\ exec[j].status = "WAITING_APPROVAL" /\ exec'[j].status = "CANCELLED"
             /\ exec'[j].edited = exec[j].edited
             /\ approval'[j].status = "CANCELLED" /\ ~approval[j].consumed
             /\ approval'[j].edited = approval[j].edited
             /\ approval'[j].consumed = approval[j].consumed
             /\ j \in Sensitive
  <2>1. RowAgrees(j)
    BY DEF LedgerInv, RowsAgree
  <2>2. j \in Sensitive /\ exec[j].status = "WAITING_APPROVAL" /\ ~approval[j].consumed
    BY <1>0, <1>2, <2>1
       DEF Undone, RowAgrees, NoApproval, Executed, LedgerTypeOK, Execution, ExecStatus,
           Settled, Ambiguous
  <2> QED BY <1>0, <1>2, <2>2 DEF CancelPending, LedgerTypeOK, Execution, Approval
<1>3. ASSUME NEW j \in Intents
      PROVE  RowAgrees(j)' /\ SendRecorded(j)' /\ RowMovesForward(j)
  <2>1. RowAgrees(j) /\ SendRecorded(j)
    BY DEF LedgerInv, RowsAgree, SendsAreRecorded
  <2>2. CASE Undone(j)
    <3>1. RowAgrees(j)'
      BY <1>2, <2>1, <2>2 DEF RowAgrees, Executed
    <3>2. SendRecorded(j)'
      BY <1>0, <1>2, <2>1, <2>2 DEF SendRecorded, Executed
    <3>3. approval[j].status # "PENDING" => approval'[j].status # "PENDING"
      BY <1>2, <2>2
    <3> QED BY <1>2, <2>2, <3>1, <3>2, <3>3 DEF RowMovesForward
  <2>3. CASE ~Undone(j)
    BY <1>0, <1>1, <2>1, <2>3 DEF RowAgrees, SendRecorded, RowMovesForward
  <2> QED BY <2>2, <2>3
<1>4. ASSUME NEW u \in Threads PROVE FreshRead(u)' /\ SenderKnows(u)'
  BY <1>0, <1>3, FreshKept
     DEF FreshRead, HoldsEdited, LedgerInv, SendsAreRecorded, SenderKnows
<1>5. ClaimIsExclusive'
  <2>1. ASSUME NEW u \in Threads, Claiming(u)
        PROVE  exec'[thread[u].intent].status = "RUNNING"
    <3>1. thread[u].intent \in Intents /\ exec[thread[u].intent].status = "RUNNING"
      BY <2>1 DEF LedgerInv, LedgerTypeOK, ClaimIsExclusive, Claiming
    <3> QED BY <1>1, <1>2, <3>1
  <2> QED BY <1>0, <2>1 DEF LedgerInv, ClaimIsExclusive, Claiming
<1> QED
  BY <1>3, <1>4, <1>5 DEF RowsAgree, RowAgrees, ReadsAreFresh, FreshRead,
                          SendsAreRecorded, SendRecorded, SenderKnows

-----------------------------------------------------------------------------

\* The invariant holds of the empty ledger.
LEMMA InvInit == LedgerInit => LedgerInv
<1> SUFFICES ASSUME LedgerInit PROVE LedgerInv
  OBVIOUS
<1>1. LedgerTypeOK
  BY TypeInit
<1>2. \A t \in Threads : thread[t].pc = "idle"
  BY DEF LedgerInit, Idle
<1>3. RowsAgree /\ SendsAreRecorded
  BY <1>2, LedgerAssumption
     DEF LedgerInit, RowsAgree, RowAgrees, SendsAreRecorded, SendRecorded, SenderKnows,
         NoApproval, Executed
<1>4. ClaimIsExclusive /\ ReadsAreFresh
  BY <1>2 DEF ClaimIsExclusive, Claiming, ReadsAreFresh, FreshRead
<1> QED
  BY <1>1, <1>3, <1>4 DEF LedgerInv

\* Every step of the ledger keeps the invariant.
LEMMA InvStep == ASSUME LedgerInv, [LedgerNext]_ledgerVars PROVE LedgerInv'
<1>0. LedgerTypeOK /\ ThreadTypeOK /\ LedgerTypeOK'
  BY TypeStep DEF LedgerInv, LedgerTypeOK, ThreadTypeOK
<1> DEFINE Rest == RowsAgree' /\ ClaimIsExclusive' /\ ReadsAreFresh' /\ SendsAreRecorded'
<1> SUFFICES Rest
  BY <1>0 DEF LedgerInv
<1>1. ASSUME NEW t \in Threads, NEW i \in Intents,
             NEW r \in Sensitive \union {NoIntent}, Request(t, i, r)
      PROVE  Rest
  BY <1>0, <1>1, RequestStep
<1>2. ASSUME NEW t \in Threads, PolicyRefuses(t) PROVE Rest
  <2>1. UNCHANGED <<exec, approval, sent>>
    BY <1>2 DEF PolicyRefuses
  <2> QED BY <1>0, <1>2, <2>1, DoneEffect, LeaveStep DEF PolicyRefuses, Results
<1>3. ASSUME NEW t \in Threads, Return(t) \/ Die(t) PROVE Rest
  <2>1. /\ UNCHANGED <<exec, approval, sent>> /\ thread'[t].pc = "idle"
        /\ \A u \in Threads \ {t} : thread'[u] = thread[u]
    BY <1>0, <1>3 DEF Return, Die, Idle, ThreadTypeOK
  <2> QED BY <2>1, LeaveStep
<1>4. CASE UNCHANGED ledgerVars
  BY <1>4 DEF ledgerVars, LedgerInv, RowsAgree, RowAgrees, ClaimIsExclusive, Claiming,
              ReadsAreFresh, FreshRead, HoldsEdited, SendsAreRecorded, SendRecorded, SenderKnows
<1> HIDE DEF Rest
<1>5. ASSUME NEW t \in Threads, ThreadStep(t) PROVE Rest
  BY <1>0, <1>2, <1>3, <1>5, ReadApprovalStep, InterruptStep, ClaimStep, GuardStep, CallStep,
     FinishStep DEF ThreadStep, Rest
<1>6. ASSUME NEW i \in Intents, NEW d \in {"APPROVED", "EDITED", "REJECTED"}, Decide(i, d)
      PROVE  Rest
  BY <1>6, DecideStep DEF Rest
<1>7. CASE CancelPending
  BY <1>7, CancelPendingStep DEF Rest
<1> QED
  BY <1>1, <1>3, <1>4, <1>5, <1>6, <1>7 DEF LedgerNext

\* The whole invariant: rows, threads and calls of the ledger always agree.
THEOREM Invariance == LedgerSpec => []LedgerInv
BY InvInit, InvStep, PTL DEF LedgerSpec
-----------------------------------------------------------------------------
(* What follows from the invariant. *)

\* No action reaches its provider twice.
THEOREM AtMostOneSendHolds == LedgerSpec => []AtMostOneSend
<1>1. LedgerInv => AtMostOneSend
  BY DEF LedgerInv, SendsAreRecorded, SendRecorded, AtMostOneSend
<1> QED
  BY <1>1, Invariance, PTL

\* A sensitive action is sent only as the consumed decision approved it.
THEOREM SentAsDecidedHolds == LedgerSpec => []SentAsDecided
<1>1. LedgerInv => SentAsDecided
  <2> SUFFICES ASSUME LedgerInv, NEW i \in Sensitive, sent[i].count > 0
               PROVE  /\ approval[i].consumed
                      /\ approval[i].status \in {"APPROVED", "EDITED"}
                      /\ sent[i].edited = (approval[i].status = "EDITED")
    BY DEF SentAsDecided
  <2>0. i \in Intents /\ LedgerTypeOK /\ RowAgrees(i) /\ SendRecorded(i)
    BY LedgerAssumption DEF LedgerInv, RowsAgree, SendsAreRecorded
  <2>1. sent[i].count = 1
    BY <2>0 DEF SendRecorded, LedgerTypeOK
  <2>2. exec[i].status \in Executed /\ sent[i].edited = exec[i].edited
    BY <2>0, <2>1 DEF SendRecorded
  <2>3. /\ approval[i].consumed /\ approval[i].status \in {"APPROVED", "EDITED"}
        /\ exec[i].edited = approval[i].edited
        /\ approval[i].edited <=> approval[i].status = "EDITED"
    BY <2>0, <2>2 DEF RowAgrees
  <2>4. sent[i].edited \in BOOLEAN
    BY <2>0 DEF LedgerTypeOK
  <2> QED BY <2>2, <2>3, <2>4
<1> QED
  BY <1>1, Invariance, PTL

\* Receipts tell what happened to the provider.
THEOREM ReceiptsAreHonestHolds == LedgerSpec => []ReceiptsAreHonest
<1>1. LedgerInv => ReceiptsAreHonest
  <2> SUFFICES ASSUME LedgerInv, NEW i \in Intents
               PROVE  /\ exec[i].status = "SUCCEEDED" => sent[i].count = 1
                      /\ exec[i].status \notin {"SUCCEEDED"} \union Ambiguous =>
                            sent[i].count = 0
    BY DEF ReceiptsAreHonest
  <2>1. SendRecorded(i) /\ sent[i].count \in Nat
    BY DEF LedgerInv, SendsAreRecorded, LedgerTypeOK
  <2> QED BY <2>1 DEF SendRecorded, Executed, Ambiguous
<1> QED
  BY <1>1, Invariance, PTL

\* The guard beside the provider call never contradicts the claim before it.
THEOREM ClaimPassesGuardHolds == LedgerSpec => []ClaimPassesGuard
<1>1. LedgerInv => ClaimPassesGuard
  <2> SUFFICES ASSUME LedgerInv, NEW t \in Threads, thread[t].pc = "guarding"
               PROVE  GuardAdmits(t)
    BY DEF ClaimPassesGuard
  <2> DEFINE i == thread[t].intent
  <2>1. exec[i].status = "RUNNING" /\ exec[i].edited = HoldsEdited(t) /\ i \in Intents
    BY DEF LedgerInv, ClaimIsExclusive, Claiming, ReadsAreFresh, FreshRead, LedgerTypeOK
  <2> QED BY <2>1 DEF LedgerInv, RowsAgree, RowAgrees, Executed, GuardAdmits
<1> QED
  BY <1>1, Invariance, PTL

\* An approval that a cancellation still finds open belongs to a waiting action.
LEMMA UndoneIsWaiting ==
    ASSUME LedgerInv, NEW j \in Intents, Undone(j)
    PROVE  j \in Sensitive /\ exec[j].status = "WAITING_APPROVAL"
<1>1. RowAgrees(j) /\ LedgerTypeOK
  BY DEF LedgerInv, RowsAgree
<1> QED
  BY <1>1 DEF Undone, RowAgrees, NoApproval, Executed, LedgerTypeOK, Execution, ExecStatus,
              Settled, Ambiguous

ForwardStep ==
    \A i \in Intents :
        /\ exec[i].status \in Settled \union {"FAILED"} => exec'[i].status = exec[i].status
        /\ exec[i].status = "RUNNING" =>
              exec'[i].status \in {"RUNNING", "SUCCEEDED", "FAILED"}

\* A step of the ledger keeps what is settled or ambiguous, and only finishes the rest.
LEMMA LedgerForwardStep ==
    ASSUME LedgerInv, [LedgerNext]_ledgerVars
    PROVE  ForwardStep
<1>0. exec \in [Intents -> Execution] /\ LedgerTypeOK
  BY DEF LedgerInv, LedgerTypeOK
<1>1. CASE exec' = exec
  BY <1>1 DEF ForwardStep
<1>2. ASSUME NEW t \in Threads, NEW i \in Intents, NEW r \in Sensitive \union {NoIntent},
             Request(t, i, r)
      PROVE  ForwardStep
  <2>1. \/ exec' = exec
        \/ /\ exec[i].status = "NONE"
           /\ \A j \in Intents \ {i} : exec'[j] = exec[j]
    BY <1>0, <1>2 DEF Request
  <2> QED BY <1>1, <2>1 DEF ForwardStep, Settled
<1>3. ASSUME NEW t \in Threads, Claim(t) PROVE ForwardStep
  <2>1. \/ exec' = exec
        \/ /\ MayClaim(thread[t].intent)
           /\ \A j \in Intents \ {thread[t].intent} : exec'[j] = exec[j]
    BY <1>0, <1>3 DEF Claim
  <2> QED BY <1>1, <2>1 DEF ForwardStep, MayClaim, Settled, Ambiguous
<1>4. ASSUME NEW t \in Threads, Finish(t) PROVE ForwardStep
  <2>1. thread[t].intent \in Intents
    BY <1>0, <1>4 DEF Finish, LedgerTypeOK
  <2>2. \/ exec' = exec
        \/ /\ exec[thread[t].intent].status = "RUNNING"
           /\ exec'[thread[t].intent].status \in {"SUCCEEDED", "FAILED"}
           /\ \A j \in Intents \ {thread[t].intent} : exec'[j] = exec[j]
    BY <1>0, <1>4, <2>1 DEF Finish, Execution
  <2> QED BY <1>1, <2>2 DEF ForwardStep, Settled
<1>5. CASE CancelPending
  <2>1. ASSUME NEW j \in Intents PROVE exec'[j] = exec[j] \/ exec[j].status = "WAITING_APPROVAL"
    BY <1>5, UndoneIsWaiting DEF CancelPending
  <2> QED BY <2>1 DEF ForwardStep, Settled
<1> QED
  BY <1>1, <1>2, <1>3, <1>4, <1>5
     DEF LedgerNext, ThreadStep, ReadApproval, Interrupt, PolicyRefuses, Guard, Call,
         Return, Die, Decide, ledgerVars

\* Settled and ambiguous executions never come back to where they could be claimed.
THEOREM LedgerForwardHolds == LedgerSpec => LedgerForward
<1>1. LedgerInv /\ [LedgerNext]_ledgerVars => ForwardStep
  BY LedgerForwardStep
<1> QED
  BY <1>1, Invariance, PTL DEF LedgerSpec, LedgerForward, ForwardStep

-----------------------------------------------------------------------------
(* The ledger implements module ToolEffect. *)

\* An action whose rows and calls a step leaves alone stays in its phase.
LEMMA PhaseKept ==
    ASSUME NEW j \in Intents, exec'[j] = exec[j], approval'[j] = approval[j],
           sent'[j] = sent[j]
    PROVE  EffectPhase'[j] = EffectPhase[j]
BY DEF EffectPhase, PhaseOf

\* A step that changes the phase of one action is a step of the abstract action.
LEMMA OneMoves ==
    ASSUME NEW i \in Intents, NEW from, NEW to,
           EffectPhase[i] \in from, EffectPhase'[i] = to,
           \A j \in Intents \ {i} : EffectPhase'[j] = EffectPhase[j]
    PROVE  Effect!Become(i, from, to)
BY DEF Effect!Become, EffectPhase

\* A step that changes the phase of no action is a stutter.
LEMMA NoneMoves ==
    ASSUME \A j \in Intents : EffectPhase'[j] = EffectPhase[j]
    PROVE  EffectPhase' = EffectPhase
BY DEF EffectPhase

\* The empty ledger is the initial state of the abstract actions.
LEMMA RefineInit == LedgerInit => Effect!Init
BY DEF LedgerInit, Effect!Init, EffectPhase, PhaseOf

\* A request proposes an action, authorises a read, or stutters.
LEMMA RefineRequest ==
    ASSUME LedgerInv, NEW t \in Threads, NEW i \in Intents,
           NEW r \in Sensitive \union {NoIntent}, Request(t, i, r)
    PROVE  [Effect!Next]_EffectPhase
<1>0. LedgerTypeOK /\ sent' = sent
  BY DEF LedgerInv, Request
<1>1. CASE exec' = exec /\ approval' = approval
  BY <1>0, <1>1, PhaseKept, NoneMoves
<1>2. CASE exec[i].status = "NONE"
  <2>1. /\ exec'[i].status = IF i \in Sensitive THEN "WAITING_APPROVAL" ELSE "REQUESTED"
        /\ i \in Sensitive => approval'[i].status = "PENDING"
        /\ \A j \in Intents \ {i} : exec'[j] = exec[j] /\ approval'[j] = approval[j]
    BY <1>0, <1>2 DEF Request, LedgerTypeOK, Execution, Approval
  <2>2. \A j \in Intents \ {i} : EffectPhase'[j] = EffectPhase[j]
    BY <1>0, <2>1, PhaseKept
  <2>3. EffectPhase[i] = "absent"
    BY <1>2 DEF EffectPhase, PhaseOf
  <2>4. EffectPhase'[i] = IF i \in Sensitive THEN "proposed" ELSE "authorised"
    BY <2>1 DEF EffectPhase, PhaseOf
  <2>5. Effect!Propose(i) \/ Effect!Authorise(i)
    BY <2>2, <2>3, <2>4, OneMoves DEF Effect!Propose, Effect!Authorise
  <2> QED BY <2>5 DEF Effect!Next
<1> QED
  BY <1>1, <1>2 DEF Request

\* A claim commits an authorised action, or stutters.
LEMMA RefineClaim ==
    ASSUME LedgerInv, NEW t \in Threads, Claim(t)
    PROVE  [Effect!Next]_EffectPhase
<1> DEFINE i == thread[t].intent
<1>0. /\ LedgerTypeOK /\ sent' = sent /\ thread[t].pc = "claiming" /\ i \in Intents
      /\ FreshRead(t) /\ RowAgrees(i) /\ SendRecorded(i)
  BY DEF LedgerInv, LedgerTypeOK, Claim, ReadsAreFresh, RowsAgree, SendsAreRecorded
<1>1. CASE UNCHANGED <<exec, approval>>
  BY <1>0, <1>1, PhaseKept, NoneMoves
<1>2. ASSUME MayClaim(i), approval' = Consume(i), NEW s \in {"REJECTED", "RUNNING"},
             s = "REJECTED" <=> approval[i].status = "REJECTED",
             exec' = [exec EXCEPT ![i].status = s, ![i].edited = approval[i].edited]
      PROVE  [Effect!Next]_EffectPhase
  <2>1. exec[i].status \in {"REQUESTED", "WAITING_APPROVAL"}
    <3>1. exec[i].status \in ExecStatus /\ exec[i].status # "NONE"
      BY <1>0 DEF FreshRead, LedgerTypeOK, Execution
    <3>2. exec[i].status \notin Settled \union Ambiguous
      BY <1>2 DEF MayClaim
    <3> QED BY <3>1, <3>2 DEF ExecStatus
  <2>2. /\ exec'[i].status = s /\ approval'[i].status = approval[i].status
        /\ \A j \in Intents \ {i} : exec'[j] = exec[j] /\ approval'[j] = approval[j]
    <3>1. exec'[i].status = s /\ \A j \in Intents \ {i} : exec'[j] = exec[j]
      BY <1>0, <1>2 DEF LedgerTypeOK, Execution
    <3>2. /\ approval'[i].status = approval[i].status
          /\ \A j \in Intents \ {i} : approval'[j] = approval[j]
      BY <1>0, <1>2 DEF Consume, LedgerTypeOK, Approval
    <3> QED BY <3>1, <3>2
  <2>3. \A j \in Intents \ {i} : EffectPhase'[j] = EffectPhase[j]
    BY <1>0, <2>2, PhaseKept
  <2>4. sent[i].count = 0
    <3>1. sent[i].count \in Nat
      BY <1>0 DEF LedgerTypeOK
    <3>2. sent[i].count <= 1 /\ sent[i].count # 1
      BY <1>0, <2>1 DEF SendRecorded, Executed
    <3> QED BY <3>1, <3>2
  <2>5. CASE s = "REJECTED"
    <3>1. exec[i].status = "WAITING_APPROVAL"
      <4>1. approval[i].status = "REJECTED"
        BY <1>2, <2>5
      <4>2. i \in Sensitive
        BY <1>0, <4>1 DEF RowAgrees, NoApproval
      <4> QED BY <1>0, <2>1, <4>2 DEF RowAgrees
    <3>2. EffectPhase[i] = "refused" /\ EffectPhase'[i] = "refused"
      BY <1>0, <1>2, <2>2, <2>5, <3>1 DEF EffectPhase, PhaseOf
    <3> QED BY <2>3, <3>2, NoneMoves
  <2>6. CASE s = "RUNNING"
    <3>1. exec[i].status = "WAITING_APPROVAL" => approval[i].status \in {"APPROVED", "EDITED"}
      <4>1. approval[i].status # "REJECTED"
        BY <1>2, <2>6
      <4>2. CASE i \in Sensitive
        BY <1>2, <4>1, <4>2 DEF MayClaim
      <4>3. CASE i \notin Sensitive
        BY <1>0, <4>3 DEF RowAgrees, Executed
      <4> QED BY <4>2, <4>3
    <3>2. EffectPhase[i] = "authorised"
      BY <1>0, <2>1, <3>1 DEF EffectPhase, PhaseOf
    <3>3. EffectPhase'[i] = "committed"
      BY <1>0, <2>2, <2>4, <2>6 DEF EffectPhase, PhaseOf
    <3>4. Effect!Commit(i)
      BY <1>0, <2>3, <3>2, <3>3, OneMoves DEF Effect!Commit
    <3> QED BY <1>0, <3>4 DEF Effect!Next
  <2> QED BY <2>5, <2>6
<1>3. \/ UNCHANGED <<exec, approval>>
      \/ \E s \in {"REJECTED", "RUNNING"} :
            /\ MayClaim(i) /\ approval' = Consume(i)
            /\ s = "REJECTED" <=> approval[i].status = "REJECTED"
            /\ exec' = [exec EXCEPT ![i].status = s, ![i].edited = approval[i].edited]
  BY DEF Claim
<1> QED
  BY <1>1, <1>2, <1>3

\* A call sends a committed action.
LEMMA RefineCall ==
    ASSUME LedgerInv, NEW t \in Threads, Call(t)
    PROVE  [Effect!Next]_EffectPhase
<1> DEFINE i == thread[t].intent
<1>0. /\ LedgerTypeOK /\ UNCHANGED <<exec, approval>> /\ thread[t].pc = "calling"
      /\ i \in Intents /\ exec[i].status = "RUNNING" /\ sent[i].count = 0
  BY DEF LedgerInv, LedgerTypeOK, Call, ClaimIsExclusive, Claiming, SendsAreRecorded, SenderKnows
<1>1. sent'[i].count = 1 /\ \A j \in Intents \ {i} : sent'[j] = sent[j]
  BY <1>0 DEF Call, LedgerTypeOK
<1>2. \A j \in Intents \ {i} : EffectPhase'[j] = EffectPhase[j]
  BY <1>0, <1>1, PhaseKept
<1>3. EffectPhase[i] = "committed" /\ EffectPhase'[i] = "sent"
  BY <1>0, <1>1 DEF EffectPhase, PhaseOf
<1>4. Effect!Send(i)
  BY <1>0, <1>2, <1>3, OneMoves DEF Effect!Send
<1> QED
  BY <1>0, <1>4 DEF Effect!Next

\* Finishing closes an action that was committed or sent.
LEMMA RefineFinish ==
    ASSUME LedgerInv, NEW t \in Threads, Finish(t)
    PROVE  [Effect!Next]_EffectPhase
<1> DEFINE i == thread[t].intent
<1>0. /\ LedgerTypeOK /\ UNCHANGED <<approval, sent>> /\ thread[t].pc = "finishing"
      /\ i \in Intents /\ exec[i].status = "RUNNING"
  BY DEF LedgerInv, LedgerTypeOK, Finish, ClaimIsExclusive, Claiming
<1>1. /\ exec'[i].status \in {"SUCCEEDED", "FAILED"}
      /\ \A j \in Intents \ {i} : exec'[j] = exec[j]
  BY <1>0 DEF Finish, LedgerTypeOK, Execution
<1>2. \A j \in Intents \ {i} : EffectPhase'[j] = EffectPhase[j]
  BY <1>0, <1>1, PhaseKept
<1>3. EffectPhase[i] \in {"committed", "sent"} /\ EffectPhase'[i] = "closed"
  BY <1>0, <1>1 DEF EffectPhase, PhaseOf
<1>4. Effect!Close(i)
  BY <1>0, <1>2, <1>3, OneMoves DEF Effect!Close
<1> QED
  BY <1>0, <1>4 DEF Effect!Next

\* A decision authorises or refuses a proposed action.
LEMMA RefineDecide ==
    ASSUME LedgerInv, NEW i \in Intents, NEW d \in {"APPROVED", "EDITED", "REJECTED"},
           Decide(i, d)
    PROVE  [Effect!Next]_EffectPhase
<1>0. LedgerTypeOK /\ RowAgrees(i) /\ UNCHANGED <<exec, sent>> /\ approval[i].status = "PENDING"
  BY DEF LedgerInv, RowsAgree, Decide
<1>1. approval'[i].status = d /\ \A j \in Intents \ {i} : approval'[j] = approval[j]
  BY <1>0 DEF Decide, LedgerTypeOK, Approval
<1>2. exec[i].status = "WAITING_APPROVAL"
  BY <1>0 DEF RowAgrees, NoApproval, Executed, LedgerTypeOK, Execution, ExecStatus,
              Settled, Ambiguous
<1>3. \A j \in Intents \ {i} : EffectPhase'[j] = EffectPhase[j]
  BY <1>0, <1>1, PhaseKept
<1>4. EffectPhase[i] = "proposed"
  BY <1>0, <1>2 DEF EffectPhase, PhaseOf
<1>5. EffectPhase'[i] = IF d = "REJECTED" THEN "refused" ELSE "authorised"
  BY <1>0, <1>1, <1>2 DEF EffectPhase, PhaseOf
<1>6. CASE d = "REJECTED"
  <2>1. EffectPhase' = [j \in Intents |-> IF j \in {i} THEN "refused" ELSE EffectPhase[j]]
    BY <1>3, <1>5, <1>6 DEF EffectPhase
  <2>2. Effect!Refuse({i})
    BY <1>4, <2>1 DEF Effect!Refuse
  <2> QED BY <2>2 DEF Effect!Next
<1>7. CASE d # "REJECTED"
  <2>1. Effect!Authorise(i)
    BY <1>3, <1>4, <1>5, <1>7, OneMoves DEF Effect!Authorise
  <2> QED BY <2>1 DEF Effect!Next
<1> QED
  BY <1>6, <1>7

\* Cancelling refuses, at one stroke, every action not committed.
LEMMA RefineCancelPending ==
    ASSUME LedgerInv, CancelPending
    PROVE  [Effect!Next]_EffectPhase
<1> DEFINE S == {j \in Intents : Undone(j) /\ EffectPhase[j] # "refused"}
<1>0. LedgerTypeOK /\ sent' = sent
  BY DEF LedgerInv, CancelPending
<1>1. ASSUME NEW j \in Intents, Undone(j)
      PROVE  /\ EffectPhase[j] \in {"proposed", "authorised", "refused"}
             /\ EffectPhase'[j] = "refused"
  <2>1. exec[j].status = "WAITING_APPROVAL"
    BY <1>1, UndoneIsWaiting
  <2>2. exec'[j].status = "CANCELLED"
    BY <1>0, <1>1, <2>1 DEF CancelPending, LedgerTypeOK, Execution
  <2> QED BY <2>1, <2>2 DEF EffectPhase, PhaseOf
<1>2. ASSUME NEW j \in Intents, ~Undone(j) PROVE EffectPhase'[j] = EffectPhase[j]
  <2>1. exec'[j] = exec[j] /\ approval'[j] = approval[j] /\ sent'[j] = sent[j]
    BY <1>0, <1>2 DEF CancelPending
  <2> QED BY <2>1, PhaseKept
<1>3. EffectPhase' = [j \in Intents |-> IF j \in S THEN "refused" ELSE EffectPhase[j]]
  BY <1>1, <1>2 DEF EffectPhase
<1>4. Effect!Refuse(S)
  BY <1>1, <1>3 DEF Effect!Refuse
<1> QED
  BY <1>4 DEF Effect!Next

\* Every step of the ledger is a step of the abstract actions, or a stutter.
LEMMA RefineStep ==
    ASSUME LedgerInv, [LedgerNext]_ledgerVars PROVE [Effect!Next]_EffectPhase
<1>1. CASE UNCHANGED <<exec, approval, sent>>
  BY <1>1, PhaseKept, NoneMoves
<1>2. ASSUME NEW t \in Threads, ThreadStep(t) PROVE [Effect!Next]_EffectPhase
  BY <1>1, <1>2, RefineClaim, RefineCall, RefineFinish
     DEF ThreadStep, ReadApproval, Interrupt, PolicyRefuses, Guard, Return
<1> QED
  BY <1>1, <1>2, RefineRequest, RefineDecide, RefineCancelPending
     DEF LedgerNext, Die, ledgerVars

\* Every action is proposed, authorised or refused, committed once and sent at
\* most once: the ledger implements module ToolEffect.
THEOREM Refinement == LedgerSpec => ImplementsEffect
BY RefineInit, RefineStep, Invariance, PTL DEF LedgerSpec, ImplementsEffect, Effect!Spec
=============================================================================
