---------------------------- MODULE ChatSession ----------------------------
(***************************************************************************)
(* The chat sessions (AgentSessionManager.ask in server/sessions.py) over   *)
(* the execution harness (server/agent/execution_harness.py).               *)
(*                                                                          *)
(* The API process and each worker process own a manager: a conversation    *)
(* cached per session, a lock per session, and a pool of threads that run   *)
(* the agent.  They share the table sessions only.  An ask takes the lock,  *)
(* runs the agent in the pool under a total timeout, and saves the whole    *)
(* conversation.  A timeout cannot stop the thread: it detaches it.         *)
(*                                                                          *)
(* A conversation is the sequence of its turns; a turn is named by the ask  *)
(* that made it and stands for the question with its answer.  Each run of a *)
(* task is an ask too.  All runs of a task share one checkpointed thread of *)
(* the graph (_ScopedAgent.invoke, and add_messages in agent/state.py), in  *)
(* the database: a run may be interrupted for a human decision and resumed  *)
(* there, and a task that failed or paused may be asked again.  A chat gets *)
(* a thread of its own.  The harness's retries of a provider error repeat   *)
(* the call with the same input under the same lock, and are stutters.      *)
(***************************************************************************)
EXTENDS Naturals, Sequences, FiniteSets

CONSTANTS
    Asks,        \* every ask of the history, each for one session
    TaskRuns,    \* those that run a task
    TaskOf,      \* the task of each of them
    Acting,      \* those that may meet a call to approve, once each
    Sessions,
    SessionOf,   \* the session of each ask
    Processes,   \* the API process and the workers
    PoolSize,    \* threads of a harness (8 in the code)
    MaxCrashes,  \* bound on the crashes of processes
    NotLoaded,   \* no runtime is cached
    Nobody       \* no ask, no process

ASSUME ChatAssumption ==
    /\ Acting \subseteq TaskRuns /\ TaskRuns \subseteq Asks
    /\ SessionOf \in [Asks -> Sessions]
    /\ DOMAIN TaskOf = TaskRuns
    /\ \A a, b \in TaskRuns : TaskOf[a] = TaskOf[b] => SessionOf[a] = SessionOf[b]
    /\ PoolSize \in Nat \ {0}
    /\ MaxCrashes \in Nat
    /\ NotLoaded \notin Seq(Asks)
    /\ Nobody \notin Asks \union Processes

VARIABLES
    row,         \* sessions.messages_json, by session
    cache,       \* runtime["messages"], by process and session
    report,      \* context_harness.last_report: the ask whose run wrote it
    holder,      \* the ask that holds the session lock of a process
    ask,         \* where each ask is, and what it holds in its variables
    job,         \* its future in the harness
    queue,       \* the work queue of each process's pool
    checkpoint,  \* the last checkpoint of each task's thread
    crashes

chatVars ==
    <<row, cache, report, holder, ask, job, queue, checkpoint, crashes>>

Tasks == {TaskOf[a] : a \in TaskRuns}
SameTask(a, b) == a \in TaskRuns /\ b \in TaskRuns /\ TaskOf[a] = TaskOf[b]

Conversations == Seq(Asks)
Holds(c, a) == \E i \in 1..Len(c) : c[i] = a

AskPlaces ==
    {"new", "submitted", "saved", "waiting", "answered", "failed", "timedout"}
Ended == {"answered", "failed", "timedout"}

\* resumes: it sends a decision; saved: the conversation it saved; given: the
\* context report its reply carries.
AskState ==
    [at : AskPlaces, resumes : BOOLEAN, saved : Conversations,
     given : Asks \union {Nobody}]

JobPlaces == {"none", "queued", "blocked", "running", "done"}
Outcomes == {"none", "answer", "interrupt", "error"}
\* messages: those it is called with, and then those of its graph.
JobState == [at : JobPlaces, proc : Processes \union {Nobody}, cancelled : BOOLEAN,
             prepared : BOOLEAN, outcome : Outcomes, messages : Conversations]

\* waits: the ask whose run stopped there for a decision; ended: the graph did.
Thread == [messages : Conversations, waits : Asks \union {Nobody}, ended : BOOLEAN]

NewAsk == [at |-> "new", resumes |-> FALSE, saved |-> <<>>, given |-> Nobody]
NoJob == [at |-> "none", proc |-> Nobody, cancelled |-> FALSE, prepared |-> FALSE,
          outcome |-> "none", messages |-> <<>>]
NewThread == [messages |-> <<>>, waits |-> Nobody, ended |-> FALSE]

ChatInit ==
    /\ row = [s \in Sessions |-> <<>>]
    /\ cache = [p \in Processes |-> [s \in Sessions |-> NotLoaded]]
    /\ report = [p \in Processes |-> [s \in Sessions |-> Nobody]]
    /\ holder = [p \in Processes |-> [s \in Sessions |-> Nobody]]
    /\ ask = [a \in Asks |-> NewAsk]
    /\ job = [a \in Asks |-> NoJob]
    /\ queue = [p \in Processes |-> <<>>]
    /\ checkpoint = [k \in Tasks |-> NewThread]
    /\ crashes = 0

-----------------------------------------------------------------------------
(* The asking thread.                                                       *)

\* _get_or_restore_runtime: the cached messages, or those of the table.
Restored(p, s) == IF cache[p][s] = NotLoaded THEN row[s] ELSE cache[p][s]

Free(p, s) == holder[p][s] = Nobody
KeepHolding(a) == UNCHANGED holder         \* mutant: nobody unlocks
Release(a) == holder' = [holder EXCEPT ![job[a].proc][SessionOf[a]] = Nobody]

\* A decision resumes the interrupted run of its task, whatever became of the
\* ask that was waiting for it.
Resumable(a) ==
    /\ a \in TaskRuns /\ checkpoint[TaskOf[a]].waits = a
    /\ ask[a].at \in {"waiting", "timedout", "failed"} /\ ~ask[a].resumes

\* A task is asked again once its last ask ended and no decision is due.
MayAsk(a) ==
    /\ ask[a].at = "new"
    /\ a \in TaskRuns =>
          /\ checkpoint[TaskOf[a]].waits = Nobody
          /\ \A b \in TaskRuns : TaskOf[b] = TaskOf[a] => ask[b].at \in {"new"} \union Ended

Asking(a) == [NewAsk EXCEPT !.at = "submitted", !.resumes = Resumable(a)]
Queued(p, a) ==
    [NoJob EXCEPT !.at = "queued", !.proc = p, !.messages = Append(Restored(p, SessionOf[a]), a)]

\* ask takes the session lock, restores the runtime and submits the run.
Submit(p, a) ==
    LET s == SessionOf[a] IN
    /\ MayAsk(a) \/ Resumable(a)
    /\ Free(p, s)
    /\ holder' = [holder EXCEPT ![p][s] = a]
    /\ cache' = [cache EXCEPT ![p][s] = Restored(p, s)]
    /\ ask' = [ask EXCEPT ![a] = Asking(a)]
    /\ job' = [job EXCEPT ![a] = Queued(p, a)]
    /\ queue' = [queue EXCEPT ![p] = Append(@, a)]
    /\ UNCHANGED <<row, report, checkpoint, crashes>>

\* The session's workspace is gone, or its index cannot be restored.
Refuse(p, a) ==
    /\ MayAsk(a) \/ Resumable(a)
    /\ Free(p, SessionOf[a])
    /\ ask' = [ask EXCEPT ![a].at = "failed"]
    /\ UNCHANGED <<row, cache, report, holder, job, queue, checkpoint, crashes>>

\* future.result timed out: cancel() withdraws a job that no thread has taken,
\* and the event asks the others to stop when they next look.
Timeout(a) ==
    /\ ask[a].at = "submitted"
    /\ job[a].at \in {"queued", "blocked", "running"}
    /\ ask' = [ask EXCEPT ![a].at = "timedout"]
    /\ job' = [job EXCEPT ![a] = IF @.at = "queued" THEN NoJob
                                 ELSE [@ EXCEPT !.cancelled = TRUE]]
    /\ Release(a)
    /\ UNCHANGED <<row, cache, report, queue, checkpoint, crashes>>

Returned(a, outcomes) ==
    ask[a].at = "submitted" /\ job[a].at = "done" /\ job[a].outcome \in outcomes

\* save_messages writes the whole conversation.
Save(a) ==
    /\ Returned(a, {"answer"})
    /\ row' = [row EXCEPT ![SessionOf[a]] = job[a].messages]
    /\ ask' = [ask EXCEPT ![a] = [@ EXCEPT !.at = "saved", !.saved = job[a].messages]]
    /\ UNCHANGED <<cache, report, holder, job, queue, checkpoint, crashes>>

\* The asking thread is done with its future.
Forget(a) == job' = [job EXCEPT ![a] = NoJob]

\* The cache follows, and the reply is built; with no context report it raises.
ReplyUncached(a) ==                        \* mutant: the cache does not follow
    /\ ask[a].at = "saved"
    /\ ask' = [ask EXCEPT ![a].at = "answered",
                          ![a].given = report[job[a].proc][SessionOf[a]]]
    /\ Release(a) /\ Forget(a)
    /\ UNCHANGED <<row, cache, report, queue, checkpoint, crashes>>
Reply(a) ==
    LET p == job[a].proc
        s == SessionOf[a]
    IN
    /\ ask[a].at = "saved"
    /\ cache' = [cache EXCEPT ![p][s] = job[a].messages]
    /\ ask' = [ask EXCEPT ![a] =
                 [@ EXCEPT !.at = IF report[p][s] = Nobody THEN "failed" ELSE "answered",
                           !.given = report[p][s]]]
    /\ Release(a) /\ Forget(a)
    /\ UNCHANGED <<row, report, queue, checkpoint, crashes>>

\* An interrupted run returns "Task WAITING_USER" and saves nothing.
Interrupted(a) ==
    /\ Returned(a, {"interrupt"})
    /\ ask' = [ask EXCEPT ![a].at = "waiting"]
    /\ Release(a) /\ Forget(a)
    /\ UNCHANGED <<row, cache, report, queue, checkpoint, crashes>>

\* The run raised, or the save did.
Fail(a) ==
    /\ Returned(a, {"error", "answer"})
    /\ ask' = [ask EXCEPT ![a].at = "failed"]
    /\ Release(a) /\ Forget(a)
    /\ UNCHANGED <<row, cache, report, queue, checkpoint, crashes>>

-----------------------------------------------------------------------------
(* The pool's threads.                                                      *)

InProcess(p, places) == {a \in Asks : job[a].proc = p /\ job[a].at \in places}
Busy(p) == InProcess(p, {"blocked", "running"})
Running(p, s) == {a \in InProcess(p, {"running"}) : SessionOf[a] = s}

\* A free thread takes the next work item, and drops it if it was withdrawn.
Start(p) ==
    /\ queue[p] # <<>>
    /\ Cardinality(Busy(p)) < PoolSize
    /\ job' = [job EXCEPT ![Head(queue[p])].at = IF @ = "queued" THEN "blocked" ELSE @]
    /\ queue' = [queue EXCEPT ![p] = Tail(@)]
    /\ UNCHANGED <<row, cache, report, holder, ask, checkpoint, crashes>>

\* The harness's own lock of the session, which a detached thread keeps.
NoRunLock(a) == TRUE                       \* mutant: runs of a session overlap
RunLockFree(a) == Running(job[a].proc, SessionOf[a]) = {}

\* The result of a detached run goes to nobody.
Done(a, outcome) ==
    job' = [job EXCEPT ![a] = IF @.cancelled THEN NoJob
                              ELSE [@ EXCEPT !.at = "done", !.outcome = outcome]]

\* add_messages appends to a thread the turns of the ask that it does not hold,
\* in their order; the question is always new.
Unheld(old, new) == SelectSeq(new, LAMBDA turn : ~Holds(old, turn))
ListsOf(turns, most) == UNION {[1..n -> turns] : n \in 0..most}
Merges(old, new) ==
    {old \o turns : turns \in {c \in ListsOf({a \in Asks : Holds(new, a)}, Len(new)) :
                               c = Unheld(old, new)}}

\* The messages a run goes on with: those of the thread alone when it resumes
\* one or continues the unfinished graph of a supervised task.
StartsFrom(a) ==
    IF a \notin TaskRuns THEN {job[a].messages}
    ELSE LET thread == checkpoint[TaskOf[a]]
             unfinished == thread.messages # <<>> /\ ~thread.ended
         IN  (IF ask[a].resumes THEN {} ELSE Merges(thread.messages, job[a].messages))
             \union (IF ask[a].resumes \/ unfinished THEN {thread.messages} ELSE {})

\* The checkpointer writes after every step of a task's graph, detached or not.
Checkpoints(a, messages, waits, ended) ==
    checkpoint' = IF a \notin TaskRuns THEN checkpoint
                  ELSE [checkpoint EXCEPT ![TaskOf[a]] =
                          [messages |-> messages, waits |-> waits, ended |-> ended]]

\* A run that resumes takes the decision; another one leaves it alone.
Decision(a) ==
    IF a \in TaskRuns /\ checkpoint[TaskOf[a]].waits # a THEN checkpoint[TaskOf[a]].waits ELSE Nobody

\* _run_for_session: a cancelled job that gets the lock only gives it back.
Entering(a) ==
    \E messages \in StartsFrom(a) :
        /\ job' = [job EXCEPT ![a] = [@ EXCEPT !.at = "running", !.messages = messages]]
        /\ Checkpoints(a, messages, Decision(a), FALSE)
EnterUncancelled(a) ==                     \* mutant: a cancelled job waits on
    /\ job[a].at = "blocked"
    /\ RunLockFree(a)
    /\ ~job[a].cancelled /\ Entering(a)
    /\ UNCHANGED <<row, cache, report, holder, ask, queue, crashes>>
EnterSession(a) ==
    /\ job[a].at = "blocked"
    /\ RunLockFree(a)
    /\ \/ ~job[a].cancelled /\ Entering(a)
       \/ job[a].cancelled /\ Forget(a) /\ UNCHANGED checkpoint
    /\ UNCHANGED <<row, cache, report, holder, ask, queue, crashes>>

\* A model call of the run goes through the context harness of the session.
Prepare(a) ==
    /\ job[a].at = "running"
    /\ job' = [job EXCEPT ![a].prepared = TRUE]
    /\ report' = [report EXCEPT ![job[a].proc][SessionOf[a]] = a]
    /\ Checkpoints(a, job[a].messages, Decision(a), FALSE)
    /\ UNCHANGED <<row, cache, holder, ask, queue, crashes>>

\* A chat asks the model before anything else; a resumed task may end at a
\* boundary without a call.
AnswersInPlace(a) ==                       \* mutant: the agent extends the cached list
    /\ job[a].at = "running"
    /\ job[a].prepared \/ a \in TaskRuns
    /\ Done(a, "answer")
    /\ cache' = [cache EXCEPT ![job[a].proc][SessionOf[a]] = job[a].messages]
    /\ Checkpoints(a, job[a].messages, Decision(a), TRUE)
    /\ UNCHANGED <<row, report, holder, ask, queue, crashes>>
Answers(a) ==
    /\ job[a].at = "running"
    /\ job[a].prepared \/ a \in TaskRuns
    /\ Done(a, "answer")
    /\ Checkpoints(a, job[a].messages, Decision(a), TRUE)
    /\ UNCHANGED <<row, cache, report, holder, ask, queue, crashes>>

Interrupts(a) ==
    /\ job[a].at = "running"
    /\ a \in Acting /\ ~ask[a].resumes
    /\ Done(a, "interrupt")
    /\ Checkpoints(a, job[a].messages, a, FALSE)
    /\ UNCHANGED <<row, cache, report, holder, ask, queue, crashes>>

Raises(a) ==
    /\ job[a].at = "running"
    /\ Done(a, "error")
    /\ UNCHANGED <<row, cache, report, holder, ask, queue, checkpoint, crashes>>

\* A process dies with its locks, threads, queue and cached runtimes.
Die(p) ==
    /\ crashes < MaxCrashes
    /\ crashes' = crashes + 1
    /\ ask' = [a \in Asks |-> IF job[a].proc = p /\ ask[a].at \in {"submitted", "saved"}
                              THEN [ask[a] EXCEPT !.at = "failed"] ELSE ask[a]]
    /\ job' = [a \in Asks |-> IF job[a].proc = p THEN NoJob ELSE job[a]]
    /\ cache' = [cache EXCEPT ![p] = [s \in Sessions |-> NotLoaded]]
    /\ report' = [report EXCEPT ![p] = [s \in Sessions |-> Nobody]]
    /\ holder' = [holder EXCEPT ![p] = [s \in Sessions |-> Nobody]]
    /\ queue' = [queue EXCEPT ![p] = <<>>]
    /\ UNCHANGED <<row, checkpoint>>

-----------------------------------------------------------------------------
AskThread(a) == Save(a) \/ Reply(a) \/ Interrupted(a) \/ Fail(a)
Completes(a) == Answers(a) \/ Interrupts(a) \/ Raises(a)

ChatNext ==
    \/ \E p \in Processes, a \in Asks : Submit(p, a) \/ Refuse(p, a)
    \/ \E a \in Asks : Timeout(a) \/ AskThread(a)
    \/ \E p \in Processes : Start(p) \/ Die(p)
    \/ \E a \in Asks : EnterSession(a) \/ Prepare(a) \/ Completes(a)

ChatSpec == ChatInit /\ [][ChatNext]_chatVars

\* A waiting chat gets a free lock, its timer fires, a submitted job is taken by
\* a free thread, and a run ends: model requests have timeouts and the graph a
\* step limit.  No human is forced to run, resume or repeat a task.
ChatFairness ==
    /\ \A a \in Asks \ TaskRuns :
          WF_chatVars(ask[a].at = "new" /\ \E p \in Processes : Submit(p, a))
    /\ \A a \in Asks : WF_chatVars(Timeout(a)) /\ WF_chatVars(AskThread(a))
    /\ \A a \in Asks : WF_chatVars(EnterSession(a)) /\ WF_chatVars(Completes(a))
    /\ \A p \in Processes : WF_chatVars(Start(p))
FairChatSpec == ChatSpec /\ ChatFairness

-----------------------------------------------------------------------------
(* Properties.                                                              *)

\* Every variable has its shape (ask and the harness keep these records).
ChatTypeOK ==
    /\ row \in [Sessions -> Conversations]
    /\ cache \in [Processes -> [Sessions -> Conversations \union {NotLoaded}]]
    /\ report \in [Processes -> [Sessions -> Asks \union {Nobody}]]
    /\ holder \in [Processes -> [Sessions -> Asks \union {Nobody}]]
    /\ ask \in [Asks -> AskState]
    /\ job \in [Asks -> JobState]
    /\ queue \in [Processes -> Seq(Asks)]
    /\ checkpoint \in [Tasks -> Thread]
    /\ crashes \in 0..MaxCrashes

\* With one process and no task, a save of the whole list adds one
\* turn to the conversation of its session and loses none, whatever times out,
\* fails to save or dies before it (sessions.py, save_messages).
ConversationGrows ==
    [][\A s \in Sessions :
          row'[s] # row[s] => \E a \in Asks : row'[s] = Append(row[s], a)]_chatVars

\* A question that was answered stays in the conversation (sessions.py).
AnsweredIsKept ==
    \A a \in Asks : ask[a].at = "answered" => Holds(row[SessionOf[a]], a)

\* A chat that timed out leaves no trace in any conversation, saved or cached,
\* although its detached run goes on and may still answer (execution_harness).
\* A task's run that timed out is in its thread: its turn reaches a conversation,
\* but only as another ask of the same task saved it (sessions.py ask,
\* _ScopedAgent.invoke).
TimedOutLeavesNothing ==
    \A a \in Asks : ask[a].at = "timedout" =>
        \A s \in Sessions :
            \/ \E b \in Asks \ {a} : SameTask(a, b) /\ Holds(ask[b].saved, a)
            \/ /\ ~Holds(row[s], a)
               /\ \A p \in Processes : cache[p][s] = NotLoaded \/ ~Holds(cache[p][s], a)

\* The context report of an answered chat describes its own run and never that
\* of a detached one, though all runs of a session write to one field.
ReportIsOwn ==
    \A a \in Asks \ TaskRuns : ask[a].at = "answered" => ask[a].given = a

(* The inductive invariant behind TimedOutLeavesNothing and ReportIsOwn.    *)

\* An ask that was submitted holds the lock of its session until it returns.
LocksAreHeld ==
    \A a \in Asks : ask[a].at \in {"submitted", "saved"} =>
        job[a].proc \in Processes /\ holder[job[a].proc][SessionOf[a]] = a

\* A job in the pool is awaited, or its ask timed out and cancelled it.
JobsAreAwaited ==
    \A a \in Asks : job[a].at \in {"queued", "blocked", "running"} =>
        ask[a].at = IF job[a].cancelled THEN "timedout" ELSE "submitted"

\* While an ask uses what its run wrote, no other run of the session is there.
RunsAreAlone ==
    \A a, b \in Asks :
        /\ ask[a].at \in {"submitted", "saved"} /\ job[a].at \in {"running", "done"}
        /\ job[b].at = "running" /\ b # a
        => job[b].proc # job[a].proc \/ SessionOf[b] # SessionOf[a]

\* So the report of the session is that of its run, from the first model call.
ReportsFollow ==
    \A a \in Asks :
        /\ ask[a].at \in {"submitted", "saved"} /\ job[a].at \in {"running", "done"}
        /\ job[a].prepared
        => report[job[a].proc][SessionOf[a]] = a

AnswersArePrepared ==
    \A a \in Asks :
        /\ job[a].at \in {"queued", "blocked"} => ~job[a].prepared
        /\ job[a].outcome = "answer" => job[a].prepared \/ a \in TaskRuns
        /\ ask[a].at = "saved" => job[a].at = "done" /\ job[a].outcome = "answer"

\* A conversation holds turns that save_messages wrote, each for its own ask or
\* for another one of its task; a task's thread and its runs also hold those of
\* the task, whatever became of them.
Spoken(a) == \E b \in Asks : (b = a \/ SameTask(a, b)) /\ Holds(ask[b].saved, a)
AllSpoken(c) == \A i \in 1..Len(c) : Spoken(c[i])
SpokenOrOf(c, k) ==
    \A i \in 1..Len(c) : Spoken(c[i]) \/ (c[i] \in TaskRuns /\ TaskOf[c[i]] = k)
SpokenOrOwn(c, a) ==
    \A i \in 1..Len(c) : Spoken(c[i]) \/ c[i] = a \/ SameTask(c[i], a)

TurnsAreSpoken ==
    /\ \A s \in Sessions : AllSpoken(row[s])
    /\ \A p \in Processes, s \in Sessions : cache[p][s] # NotLoaded => AllSpoken(cache[p][s])
    /\ \A a \in Asks : SpokenOrOwn(job[a].messages, a)
    /\ \A k \in Tasks : SpokenOrOf(checkpoint[k].messages, k)

\* An ask that saved is past its timeout for good: no decision resumes it, as a
\* run that goes on has taken the one that waited for it.
SavedIsPast ==
    /\ \A a \in Asks : ask[a].saved # <<>> =>
          /\ ask[a].at \in {"saved", "answered", "failed"}
          /\ job[a].at \in {"none", "done"}
          /\ a \in TaskRuns => checkpoint[TaskOf[a]].waits # a
    /\ \A a \in Asks : ask[a].at = "saved" => ask[a].saved = job[a].messages
    /\ \A a \in TaskRuns : checkpoint[TaskOf[a]].waits = a =>
          /\ job[a].at # "running" /\ job[a].outcome # "answer"
          /\ ~ask[a].resumes => job[a].at \in {"none", "done"}

ChatInv ==
    /\ ChatTypeOK /\ LocksAreHeld /\ JobsAreAwaited /\ RunsAreAlone
    /\ ReportsFollow /\ AnswersArePrepared /\ ReportIsOwn /\ TurnsAreSpoken /\ SavedIsPast

\* With one process and no task: what an ask sent, and what the process keeps,
\* is the conversation of the table, up to the turn being added.
TableIsFollowed ==
    \A p \in Processes, s \in Sessions :
        /\ \/ cache[p][s] \in {NotLoaded, row[s]}
           \/ \E a \in Asks : SessionOf[a] = s /\ holder[p][s] = a /\ ask[a].at = "saved"
        /\ \A a \in Asks : SessionOf[a] = s =>
              /\ ask[a].at = "submitted" => job[a].messages = Append(row[s], a)
              /\ ask[a].at = "saved" => row[s] = job[a].messages

\* Every chat gets an answer or an error, and every run of a task one or a stop
\* for a decision, whatever the others do; so the lock of the session always
\* comes back (with a live process).
EveryAskEnds ==
    \A a \in Asks :
        IF a \in TaskRuns
        THEN ask[a].at \in {"submitted", "saved"} ~> ask[a].at \in Ended \union {"waiting"}
        ELSE <>(ask[a].at \in Ended)

\* Detached threads give their places in the pool back.
PoolDrains == <>[](\A a \in Asks : job[a].at \in {"none", "done"})
=============================================================================
