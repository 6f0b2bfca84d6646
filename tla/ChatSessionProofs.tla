------------------------- MODULE ChatSessionProofs -------------------------
(***************************************************************************)
(* Theorems about ChatSession, for any asks, sessions, processes, size of   *)
(* the pool and number of crashes.                                          *)
(***************************************************************************)
EXTENDS ChatSession, TLAPS

USE ChatAssumption

-----------------------------------------------------------------------------
(* Types.                                                                   *)

\* Writing one cell of a table by process and session keeps its type.
LEMMA CellType ==
    ASSUME NEW T, NEW f \in [Processes -> [Sessions -> T]],
           NEW p \in Processes, NEW s \in Sessions, NEW v \in T
    PROVE  [f EXCEPT ![p][s] = v] \in [Processes -> [Sessions -> T]]
OBVIOUS

\* An ask that lets its lock go leaves the locks well typed.
LEMMA ReleaseType ==
    ASSUME ChatTypeOK, NEW a \in Asks, job[a].proc \in Processes, Release(a)
    PROVE  holder' \in [Processes -> [Sessions -> Asks \union {Nobody}]]
<1>1. SessionOf[a] \in Sessions /\ Nobody \in Asks \union {Nobody}
  OBVIOUS
<1> QED BY <1>1, CellType DEF Release, ChatTypeOK

\* The updates of one record that asks and jobs make keep its type, ...
LEMMA RecordTypes ==
    /\ NoJob \in JobState
    /\ \A v \in AskState, x \in AskPlaces : [v EXCEPT !.at = x] \in AskState
    /\ \A v \in AskState, x \in AskPlaces, b \in Asks \union {Nobody} :
          [v EXCEPT !.at = x, !.given = b] \in AskState
    /\ \A v \in AskState, x \in AskPlaces, c \in Conversations :
          [v EXCEPT !.at = x, !.saved = c] \in AskState
    /\ \A v \in JobState, x \in JobPlaces : [v EXCEPT !.at = x] \in JobState
    /\ \A v \in JobState, x \in JobPlaces, o \in Outcomes :
          [v EXCEPT !.at = x, !.outcome = o] \in JobState
    /\ \A v \in JobState : [v EXCEPT !.cancelled = TRUE] \in JobState
    /\ \A v \in JobState : [v EXCEPT !.prepared = TRUE] \in JobState
    /\ \A v \in JobState, x \in JobPlaces, c \in Conversations :
          [v EXCEPT !.at = x, !.messages = c] \in JobState
<1>1. NoJob \in JobState
  BY DEF NoJob, JobState, JobPlaces, Outcomes, Conversations
<1>2. ASSUME NEW v \in AskState, NEW x \in AskPlaces PROVE [v EXCEPT !.at = x] \in AskState
  BY DEF AskState
<1>3. ASSUME NEW v \in AskState, NEW x \in AskPlaces, NEW b \in Asks \union {Nobody}
      PROVE [v EXCEPT !.at = x, !.given = b] \in AskState
  BY DEF AskState
<1>4. ASSUME NEW v \in JobState, NEW x \in JobPlaces PROVE [v EXCEPT !.at = x] \in JobState
  BY DEF JobState
<1>5. ASSUME NEW v \in JobState, NEW x \in JobPlaces, NEW o \in Outcomes
      PROVE [v EXCEPT !.at = x, !.outcome = o] \in JobState
  BY DEF JobState
<1>6. ASSUME NEW v \in JobState PROVE [v EXCEPT !.cancelled = TRUE] \in JobState
  BY DEF JobState
<1>7. ASSUME NEW v \in JobState PROVE [v EXCEPT !.prepared = TRUE] \in JobState
  BY DEF JobState
<1>8. ASSUME NEW v \in AskState, NEW x \in AskPlaces, NEW c \in Conversations
      PROVE [v EXCEPT !.at = x, !.saved = c] \in AskState
  BY DEF AskState
<1>9. ASSUME NEW v \in JobState, NEW x \in JobPlaces, NEW c \in Conversations
      PROVE [v EXCEPT !.at = x, !.messages = c] \in JobState
  BY DEF JobState
<1> QED BY <1>1, <1>2, <1>3, <1>4, <1>5, <1>6, <1>7, <1>8, <1>9

\* ... and an ask or a job whose record is replaced keeps its table well typed.
LEMMA AskType ==
    ASSUME ask \in [Asks -> AskState], NEW a \in Asks, NEW v \in AskState
    PROVE  [ask EXCEPT ![a] = v] \in [Asks -> AskState]
OBVIOUS

LEMMA AskAtType ==
    ASSUME ask \in [Asks -> AskState], NEW a \in Asks, NEW x \in AskPlaces
    PROVE  [ask EXCEPT ![a].at = x] \in [Asks -> AskState]
BY DEF AskState

LEMMA JobType ==
    ASSUME job \in [Asks -> JobState], NEW a \in Asks, NEW v \in JobState
    PROVE  [job EXCEPT ![a] = v] \in [Asks -> JobState]
OBVIOUS

LEMMA DoneType ==
    ASSUME job \in [Asks -> JobState], NEW a \in Asks, NEW o \in Outcomes, Done(a, o)
    PROVE  job' \in [Asks -> JobState]
<1> DEFINE v == IF job[a].cancelled THEN NoJob
                ELSE [job[a] EXCEPT !.at = "done", !.outcome = o]
<1>1. v \in JobState
  BY RecordTypes DEF JobPlaces
<1>2. job' = [job EXCEPT ![a] = v]
  BY DEF Done
<1> HIDE DEF v
<1> QED BY <1>1, <1>2, JobType

LEMMA ForgetType ==
    ASSUME job \in [Asks -> JobState], NEW a \in Asks, Forget(a)
    PROVE  job' \in [Asks -> JobState]
BY JobType, RecordTypes DEF Forget

\* The turns that are merged into a thread are those of the thread and the ask's.
LEMMA MergesSay ==
    ASSUME NEW old \in Conversations, NEW new \in Conversations, NEW c \in Merges(old, new)
    PROVE  /\ c \in Conversations
           /\ \A i \in 1..Len(c) : Holds(old, c[i]) \/ Holds(new, c[i])
<1> DEFINE T == {a \in Asks : Holds(new, a)}
<1>1. PICK turns \in ListsOf(T, Len(new)) : c = old \o turns
  BY DEF Merges
<1>2. turns \in Seq(T)
  <2>1. PICK n \in 0..Len(new) : turns \in [1..n -> T]
    BY <1>1 DEF ListsOf
  <2>2. Len(new) \in Nat
    BY DEF Conversations
  <2> HIDE DEF T
  <2> QED BY <2>1, <2>2
<1>3. turns \in Seq(Asks) /\ \A i \in 1..Len(turns) : Holds(new, turns[i])
  BY <1>2
<1>4. \A i \in 1..Len(old) : Holds(old, old[i])
  BY DEF Holds
<1>5. \A i \in 1..Len(c) : IF i <= Len(old) THEN c[i] = old[i]
                           ELSE i - Len(old) \in 1..Len(turns) /\ c[i] = turns[i - Len(old)]
  BY <1>1, <1>3 DEF Conversations
<1>6. Len(old) \in Nat /\ Len(c) \in Nat /\ c \in Seq(Asks)
  BY <1>1, <1>3 DEF Conversations
<1> QED BY <1>3, <1>4, <1>5, <1>6 DEF Conversations

\* A run goes on with turns of its thread and of its ask.
LEMMA StartsSay ==
    ASSUME ChatTypeOK, NEW a \in Asks, NEW c \in StartsFrom(a)
    PROVE  /\ c \in Conversations
           /\ \A i \in 1..Len(c) :
                 \/ Holds(job[a].messages, c[i])
                 \/ a \in TaskRuns /\ Holds(checkpoint[TaskOf[a]].messages, c[i])
<1> DEFINE sent == job[a].messages
<1>1. sent \in Conversations /\ \A i \in 1..Len(sent) : Holds(sent, sent[i])
  BY DEF ChatTypeOK, JobState, Holds
<1> HIDE DEF sent
<1>2. CASE a \notin TaskRuns
  BY <1>1, <1>2 DEF StartsFrom, sent
<1>3. CASE a \in TaskRuns
  <2> DEFINE old == checkpoint[TaskOf[a]].messages
  <2>1. old \in Conversations /\ \A i \in 1..Len(old) : Holds(old, old[i])
    BY <1>3 DEF ChatTypeOK, Tasks, Thread, Holds
  <2>2. c \in Merges(old, sent) \/ c = old
    BY <1>3 DEF StartsFrom, sent
  <2> HIDE DEF old
  <2>3. \/ c \in Conversations /\ \A i \in 1..Len(c) : Holds(old, c[i]) \/ Holds(sent, c[i])
        \/ c = old
    BY <1>1, <2>1, <2>2, MergesSay
  <2> QED BY <1>3, <2>1, <2>3 DEF old, sent
<1> QED BY <1>2, <1>3

\* A checkpoint of a conversation keeps the threads well typed.
LEMMA CheckpointsType ==
    ASSUME ChatTypeOK, NEW a \in Asks, NEW c \in Conversations, NEW w \in Asks \union {Nobody},
           NEW e \in BOOLEAN, Checkpoints(a, c, w, e)
    PROVE  checkpoint' \in [Tasks -> Thread]
<1>1. [messages |-> c, waits |-> w, ended |-> e] \in Thread
  BY DEF Thread
<1> QED BY <1>1 DEF ChatTypeOK, Checkpoints

LEMMA DecisionType ==
    ASSUME ChatTypeOK, NEW a \in Asks PROVE Decision(a) \in Asks \union {Nobody}
BY DEF ChatTypeOK, Decision, Thread, Tasks

\* Every action of a chat session keeps the types of its variables.
LEMMA ChatTypeStep ==
    ChatTypeOK /\ LocksAreHeld /\ [ChatNext]_chatVars => ChatTypeOK'
<1> SUFFICES ASSUME ChatTypeOK, LocksAreHeld, [ChatNext]_chatVars PROVE ChatTypeOK'
  OBVIOUS
<1> USE DEF ChatTypeOK
<1>1. ASSUME NEW p \in Processes, NEW a \in Asks, Submit(p, a) PROVE ChatTypeOK'
  <2>1. Restored(p, SessionOf[a]) \in Conversations /\ SessionOf[a] \in Sessions
    BY DEF Restored, Conversations
  <2>2. Asking(a) \in AskState
    <3>1. Resumable(a) \in BOOLEAN
      BY DEF Resumable
    <3>2. "submitted" \in AskPlaces /\ <<>> \in Conversations
      BY DEF AskPlaces, Conversations
    <3> QED BY <3>1, <3>2 DEF Asking, NewAsk, AskState
  <2>3. Queued(p, a) \in JobState
    <3>1. Append(Restored(p, SessionOf[a]), a) \in Conversations
      BY <2>1 DEF Conversations
    <3> QED BY <3>1 DEF Queued, NoJob, JobState, JobPlaces, Outcomes
  <2>4. job' \in [Asks -> JobState] /\ ask' \in [Asks -> AskState]
    BY <1>1, <2>2, <2>3, JobType, AskType DEF Submit
  <2>5. cache' \in [Processes -> [Sessions -> Conversations \union {NotLoaded}]]
    BY <1>1, <2>1, CellType DEF Submit
  <2>6. holder' \in [Processes -> [Sessions -> Asks \union {Nobody}]]
    BY <1>1, <2>1, CellType DEF Submit
  <2>7. Append(queue[p], a) \in Seq(Asks)
    OBVIOUS
  <2>8. queue' \in [Processes -> Seq(Asks)]
    BY <1>1, <2>7 DEF Submit
  <2> QED BY <1>1, <2>4, <2>5, <2>6, <2>8 DEF Submit
<1>2. ASSUME NEW p \in Processes, NEW a \in Asks, Refuse(p, a) PROVE ChatTypeOK'
  BY <1>2, AskAtType DEF Refuse, AskPlaces
<1>3. ASSUME NEW a \in Asks, Timeout(a) PROVE ChatTypeOK'
  <2> DEFINE v == IF job[a].at = "queued" THEN NoJob ELSE [job[a] EXCEPT !.cancelled = TRUE]
  <2>1. v \in JobState
    <3>1. job[a] \in JobState
      OBVIOUS
    <3>2. [job[a] EXCEPT !.cancelled = TRUE] \in JobState
      BY <3>1, RecordTypes
    <3> QED BY <3>2, RecordTypes
  <2>2. job' = [job EXCEPT ![a] = v]
    BY <1>3 DEF Timeout
  <2> HIDE DEF v
  <2>3. job' \in [Asks -> JobState]
    BY <2>1, <2>2, JobType
  <2>4. ask' \in [Asks -> AskState]
    BY <1>3, AskAtType DEF Timeout, AskPlaces
  <2> QED BY <1>3, <2>3, <2>4, ReleaseType DEF Timeout, LocksAreHeld
<1>4. ASSUME NEW a \in Asks PROVE job[a].messages \in Conversations
  BY DEF JobState
<1>5. ASSUME NEW a \in Asks, Save(a) PROVE ChatTypeOK'
  <2> DEFINE v == [ask[a] EXCEPT !.at = "saved", !.saved = job[a].messages]
  <2>1. v \in AskState
    BY <1>4, RecordTypes DEF AskPlaces
  <2>2. ask' = [ask EXCEPT ![a] = v] /\ row' \in [Sessions -> Conversations]
    BY <1>4, <1>5 DEF Save
  <2> HIDE DEF v
  <2>3. ask' \in [Asks -> AskState]
    BY <2>1, <2>2, AskType
  <2> QED BY <1>5, <2>2, <2>3 DEF Save
<1>6. ASSUME NEW a \in Asks, Reply(a) PROVE ChatTypeOK'
  <2> DEFINE x == report[job[a].proc][SessionOf[a]]
             v == [ask[a] EXCEPT !.at = IF x = Nobody THEN "failed" ELSE "answered", !.given = x]
  <2>1. job[a].proc \in Processes /\ SessionOf[a] \in Sessions
    BY <1>6 DEF Reply, LocksAreHeld
  <2>2. x \in Asks \union {Nobody}
    BY <2>1
  <2>3. ask' = [ask EXCEPT ![a] = v]
    BY <1>6 DEF Reply
  <2> HIDE DEF x
  <2>4. v \in AskState
    <3>1. (IF x = Nobody THEN "failed" ELSE "answered") \in AskPlaces
      BY DEF AskPlaces
    <3> QED BY <2>2, <3>1, RecordTypes
  <2> HIDE DEF v
  <2>5. ask' \in [Asks -> AskState]
    BY <2>3, <2>4, AskType
  <2>6. cache' \in [Processes -> [Sessions -> Conversations \union {NotLoaded}]]
    BY <1>4, <1>6, <2>1, CellType DEF Reply
  <2>7. job' \in [Asks -> JobState]
    BY <1>6, ForgetType DEF Reply
  <2> QED BY <1>6, <2>1, <2>5, <2>6, <2>7, ReleaseType DEF Reply
<1>7. ASSUME NEW a \in Asks, Interrupted(a) PROVE ChatTypeOK'
  <2>1. ask' \in [Asks -> AskState]
    BY <1>7, AskAtType DEF Interrupted, AskPlaces
  <2>2. holder' \in [Processes -> [Sessions -> Asks \union {Nobody}]]
    BY <1>7, ReleaseType DEF Interrupted, Returned, LocksAreHeld
  <2>3. job' \in [Asks -> JobState]
    BY <1>7, ForgetType DEF Interrupted
  <2> QED BY <1>7, <2>1, <2>2, <2>3 DEF Interrupted
<1>8. ASSUME NEW a \in Asks, Fail(a) PROVE ChatTypeOK'
  <2>1. ask' \in [Asks -> AskState]
    BY <1>8, AskAtType DEF Fail, AskPlaces
  <2>2. holder' \in [Processes -> [Sessions -> Asks \union {Nobody}]]
    BY <1>8, ReleaseType DEF Fail, Returned, LocksAreHeld
  <2>3. job' \in [Asks -> JobState]
    BY <1>8, ForgetType DEF Fail
  <2> QED BY <1>8, <2>1, <2>2, <2>3 DEF Fail
<1>9. ASSUME NEW p \in Processes, Start(p) PROVE ChatTypeOK'
  <2> DEFINE h == Head(queue[p])
             v == [job[h] EXCEPT !.at = IF @ = "queued" THEN "blocked" ELSE @]
  <2>1. h \in Asks /\ Tail(queue[p]) \in Seq(Asks)
    BY <1>9 DEF Start
  <2>2. job' = [job EXCEPT ![h] = v]
    BY <1>9, <2>1 DEF Start
  <2> HIDE DEF h
  <2>3. v \in JobState
    <3>1. (IF job[h].at = "queued" THEN "blocked" ELSE job[h].at) \in JobPlaces
      BY <2>1 DEF JobState, JobPlaces
    <3> QED BY <2>1, <3>1, RecordTypes
  <2> HIDE DEF v
  <2>4. job' \in [Asks -> JobState]
    BY <2>1, <2>2, <2>3, JobType
  <2>5. queue' \in [Processes -> Seq(Asks)]
    BY <1>9, <2>1 DEF Start
  <2> QED BY <1>9, <2>4, <2>5 DEF Start
<1>10. ASSUME NEW p \in Processes, Die(p) PROVE ChatTypeOK'
  <2>1. ask' \in [Asks -> AskState]
    <3>1. \A b \in Asks : [ask[b] EXCEPT !.at = "failed"] \in AskState
      BY RecordTypes DEF AskPlaces
    <3> QED BY <1>10, <3>1 DEF Die
  <2>2. NoJob \in JobState
    BY RecordTypes
  <2>3. job' \in [Asks -> JobState]
    BY <1>10, <2>2 DEF Die
  <2>4. crashes' \in 0..MaxCrashes
    BY <1>10 DEF Die
  <2>5. queue' \in [Processes -> Seq(Asks)]
    BY <1>10 DEF Die
  <2> QED BY <1>10, <2>1, <2>3, <2>4, <2>5 DEF Die
<1>11. ASSUME NEW a \in Asks, EnterSession(a) PROVE ChatTypeOK'
  <2>1. CASE Entering(a)
    <3>1. PICK c \in StartsFrom(a) :
            /\ job' = [job EXCEPT ![a] = [@ EXCEPT !.at = "running", !.messages = c]]
            /\ Checkpoints(a, c, Decision(a), FALSE)
      BY <2>1 DEF Entering
    <3>2. c \in Conversations
      BY StartsSay
    <3> DEFINE v == [job[a] EXCEPT !.at = "running", !.messages = c]
    <3>3. v \in JobState
      BY <3>2, RecordTypes DEF JobPlaces
    <3>4. job' = [job EXCEPT ![a] = v]
      BY <3>1
    <3> HIDE DEF v
    <3>5. job' \in [Asks -> JobState]
      BY <3>3, <3>4, JobType
    <3>6. checkpoint' \in [Tasks -> Thread]
      BY <3>1, <3>2, CheckpointsType, DecisionType
    <3> QED BY <1>11, <3>5, <3>6 DEF EnterSession
  <2>2. CASE Forget(a) /\ UNCHANGED checkpoint
    BY <1>11, <2>2, ForgetType DEF EnterSession
  <2> QED BY <1>11, <2>1, <2>2 DEF EnterSession
<1>12. ASSUME NEW a \in Asks, Prepare(a) PROVE ChatTypeOK'
  <2> DEFINE v == [job[a] EXCEPT !.prepared = TRUE]
  <2>3. v \in JobState
    BY RecordTypes
  <2>4. job' = [job EXCEPT ![a] = v]
    BY <1>12 DEF Prepare
  <2> HIDE DEF v
  <2>1. job' \in [Asks -> JobState]
    BY <2>3, <2>4, JobType
  <2>2. report' \in [Processes -> [Sessions -> Asks \union {Nobody}]]
    BY <1>12 DEF Prepare
  <2>5. checkpoint' \in [Tasks -> Thread]
    BY <1>4, <1>12, CheckpointsType, DecisionType DEF Prepare
  <2> QED BY <1>12, <2>1, <2>2, <2>5 DEF Prepare
<1>13. ASSUME NEW a \in Asks, Answers(a) PROVE ChatTypeOK'
  <2>1. checkpoint' \in [Tasks -> Thread]
    BY <1>4, <1>13, CheckpointsType, DecisionType DEF Answers
  <2> QED BY <1>13, <2>1, DoneType DEF Answers, Outcomes
<1>14. ASSUME NEW a \in Asks, Interrupts(a) PROVE ChatTypeOK'
  <2>1. checkpoint' \in [Tasks -> Thread]
    BY <1>4, <1>14, CheckpointsType DEF Interrupts
  <2> QED BY <1>14, <2>1, DoneType DEF Interrupts, Outcomes
<1>15. ASSUME NEW a \in Asks, Raises(a) PROVE ChatTypeOK'
  BY <1>15, DoneType DEF Raises, Outcomes
<1>16. CASE UNCHANGED chatVars
  BY <1>16 DEF chatVars
<1> QED BY <1>1, <1>2, <1>3, <1>5, <1>6, <1>7, <1>8, <1>9, <1>10, <1>11, <1>12,
            <1>13, <1>14, <1>15, <1>16 DEF ChatNext, AskThread, Completes

-----------------------------------------------------------------------------
(* Locks and jobs.                                                          *)

\* What happens to the job that gets the lock of its session.
LEMMA Entered ==
    ASSUME job \in [Asks -> JobState], NEW a \in Asks, EnterSession(a)
    PROVE  /\ \A b \in Asks \ {a} : job'[b] = job[b]
           /\ job[a].at = "blocked" /\ RunLockFree(a)
           /\ \/ /\ ~job[a].cancelled /\ job'[a].at = "running"
                 /\ job'[a].proc = job[a].proc /\ job'[a].cancelled = job[a].cancelled
                 /\ job'[a].prepared = job[a].prepared /\ job'[a].outcome = job[a].outcome
                 /\ job'[a].messages \in StartsFrom(a)
              \/ job[a].cancelled /\ job'[a] = NoJob
           /\ UNCHANGED <<row, cache, report, holder, ask, queue, crashes>>
<1>1. CASE Entering(a) /\ ~job[a].cancelled
  <2>1. PICK c \in StartsFrom(a) :
            job' = [job EXCEPT ![a] = [@ EXCEPT !.at = "running", !.messages = c]]
    BY <1>1 DEF Entering
  <2> QED BY <1>1, <2>1 DEF EnterSession, JobState
<1>2. CASE Forget(a) /\ job[a].cancelled
  BY <1>2 DEF EnterSession, Forget
<1> QED BY <1>1, <1>2 DEF EnterSession

\* What happens to the job of a run that ends.
LEMMA Ran ==
    ASSUME job \in [Asks -> JobState], NEW a \in Asks, NEW o, Done(a, o)
    PROVE  /\ \A b \in Asks \ {a} : job'[b] = job[b]
           /\ ~job[a].cancelled =>
                 job'[a].proc = job[a].proc /\ job'[a].messages = job[a].messages
BY DEF Done, JobState

LockInv == LocksAreHeld /\ JobsAreAwaited /\ RunsAreAlone

\* Every action keeps the locks, the pool and the asks in step.
LEMMA LockStep ==
    ChatTypeOK /\ LockInv /\ AnswersArePrepared /\ SavedIsPast /\ [ChatNext]_chatVars => LockInv'
<1> SUFFICES ASSUME ChatTypeOK, LockInv, AnswersArePrepared, SavedIsPast, [ChatNext]_chatVars
             PROVE  LockInv'
  OBVIOUS
<1>0. /\ ask \in [Asks -> AskState] /\ job \in [Asks -> JobState]
      /\ holder \in [Processes -> [Sessions -> Asks \union {Nobody}]]
  BY DEF ChatTypeOK
<1> USE <1>0 DEF LockInv, AskState, JobState
<1>1. ASSUME NEW p \in Processes, NEW a \in Asks, Submit(p, a) PROVE LockInv'
  <2>1. LocksAreHeld'
    BY <1>1 DEF Submit, MayAsk, Resumable, Free, Asking, NewAsk, Queued, NoJob, LocksAreHeld
  <2>2. JobsAreAwaited'
    BY <1>1 DEF Submit, MayAsk, Resumable, Free, Asking, NewAsk, Queued, NoJob, JobsAreAwaited
  <2>3. RunsAreAlone'
    BY <1>1 DEF Submit, MayAsk, Resumable, Free, Asking, NewAsk, Queued, NoJob, RunsAreAlone, JobsAreAwaited, LocksAreHeld
  <2> QED BY <2>1, <2>2, <2>3
<1>2. ASSUME NEW p \in Processes, NEW a \in Asks, Refuse(p, a) PROVE LockInv'
  <2>1. LocksAreHeld'
    BY <1>2 DEF Refuse, MayAsk, Resumable, LocksAreHeld
  <2>2. JobsAreAwaited'
    BY <1>2 DEF Refuse, MayAsk, Resumable, JobsAreAwaited, SavedIsPast
  <2>3. RunsAreAlone'
    BY <1>2 DEF Refuse, MayAsk, Resumable, RunsAreAlone, JobsAreAwaited, LocksAreHeld
  <2> QED BY <2>1, <2>2, <2>3
<1>3. ASSUME NEW a \in Asks, Timeout(a) PROVE LockInv'
  <2>1. LocksAreHeld'
    BY <1>3 DEF Timeout, NoJob, Release, LocksAreHeld
  <2>2. JobsAreAwaited'
    BY <1>3 DEF Timeout, NoJob, Release, JobsAreAwaited
  <2>3. RunsAreAlone'
    BY <1>3 DEF Timeout, NoJob, Release, RunsAreAlone, JobsAreAwaited, LocksAreHeld
  <2> QED BY <2>1, <2>2, <2>3
<1>4. ASSUME NEW a \in Asks, Save(a) PROVE LockInv'
  <2>1. LocksAreHeld'
    BY <1>4 DEF Save, Returned, LocksAreHeld
  <2>2. JobsAreAwaited'
    BY <1>4 DEF Save, Returned, JobsAreAwaited
  <2>3. RunsAreAlone'
    BY <1>4 DEF Save, Returned, RunsAreAlone, JobsAreAwaited, LocksAreHeld
  <2> QED BY <2>1, <2>2, <2>3
<1>5. ASSUME NEW a \in Asks, Reply(a) PROVE LockInv'
  <2>1. LocksAreHeld'
    BY <1>5 DEF Reply, Release, Forget, NoJob, LocksAreHeld
  <2>2. JobsAreAwaited'
    BY <1>5 DEF Reply, Release, Forget, NoJob, JobsAreAwaited
  <2>3. RunsAreAlone'
    BY <1>5 DEF Reply, Release, Forget, NoJob, RunsAreAlone, JobsAreAwaited, LocksAreHeld
  <2> QED BY <2>1, <2>2, <2>3
<1>6. ASSUME NEW a \in Asks, Interrupted(a) PROVE LockInv'
  <2>1. LocksAreHeld'
    BY <1>6 DEF Interrupted, Returned, Release, Forget, NoJob, LocksAreHeld
  <2>2. JobsAreAwaited'
    BY <1>6 DEF Interrupted, Returned, Release, Forget, NoJob, JobsAreAwaited
  <2>3. RunsAreAlone'
    BY <1>6 DEF Interrupted, Returned, Release, Forget, NoJob, RunsAreAlone, JobsAreAwaited, LocksAreHeld
  <2> QED BY <2>1, <2>2, <2>3
<1>7. ASSUME NEW a \in Asks, Fail(a) PROVE LockInv'
  <2>1. LocksAreHeld'
    BY <1>7 DEF Fail, Returned, Release, Forget, NoJob, LocksAreHeld
  <2>2. JobsAreAwaited'
    BY <1>7 DEF Fail, Returned, Release, Forget, NoJob, JobsAreAwaited
  <2>3. RunsAreAlone'
    BY <1>7 DEF Fail, Returned, Release, Forget, NoJob, RunsAreAlone, JobsAreAwaited, LocksAreHeld
  <2> QED BY <2>1, <2>2, <2>3
<1>8. ASSUME NEW p \in Processes, Start(p) PROVE LockInv'
  <2>1. LocksAreHeld'
    BY <1>8 DEF Start, LocksAreHeld
  <2>2. JobsAreAwaited'
    BY <1>8 DEF Start, JobsAreAwaited
  <2>3. RunsAreAlone'
    BY <1>8 DEF Start, RunsAreAlone, JobsAreAwaited, LocksAreHeld
  <2> QED BY <2>1, <2>2, <2>3
<1>9. ASSUME NEW p \in Processes, Die(p) PROVE LockInv'
  <2>1. LocksAreHeld'
    BY <1>9 DEF Die, NoJob, LocksAreHeld
  <2>2. JobsAreAwaited'
    BY <1>9 DEF Die, NoJob, JobsAreAwaited
  <2>3. RunsAreAlone'
    BY <1>9 DEF Die, NoJob, RunsAreAlone, JobsAreAwaited, LocksAreHeld
  <2> QED BY <2>1, <2>2, <2>3
<1>10. ASSUME NEW a \in Asks, EnterSession(a) PROVE LockInv'
  <2>1. LocksAreHeld'
    <3>1. \A b \in Asks : ask[b].at \in {"submitted", "saved"} => job'[b].proc = job[b].proc
      BY <1>10, Entered DEF JobsAreAwaited
    <3>2. UNCHANGED <<ask, holder>>
      BY <1>10, Entered
    <3> QED BY <3>1, <3>2 DEF LocksAreHeld
  <2>2. JobsAreAwaited'
    BY <1>10, Entered DEF NoJob, RunLockFree, Running, InProcess, JobsAreAwaited
  <2>3. RunsAreAlone'
    BY <1>10, Entered DEF NoJob, RunLockFree, Running, InProcess, RunsAreAlone, JobsAreAwaited, LocksAreHeld
  <2> QED BY <2>1, <2>2, <2>3
<1>11. ASSUME NEW a \in Asks, Prepare(a) PROVE LockInv'
  <2>1. LocksAreHeld'
    BY <1>11 DEF Prepare, LocksAreHeld
  <2>2. JobsAreAwaited'
    BY <1>11 DEF Prepare, JobsAreAwaited
  <2>3. RunsAreAlone'
    BY <1>11 DEF Prepare, RunsAreAlone, JobsAreAwaited, LocksAreHeld
  <2> QED BY <2>1, <2>2, <2>3
<1>12. ASSUME NEW a \in Asks, Answers(a) PROVE LockInv'
  <2>1. LocksAreHeld'
    <3>1. \A b \in Asks : ask[b].at \in {"submitted", "saved"} => job'[b].proc = job[b].proc
      BY <1>12, Ran DEF Answers, JobsAreAwaited
    <3>2. UNCHANGED <<ask, holder>>
      BY <1>12 DEF Answers
    <3> QED BY <3>1, <3>2 DEF LocksAreHeld
  <2>2. JobsAreAwaited'
    BY <1>12 DEF Answers, Done, NoJob, JobsAreAwaited
  <2>3. RunsAreAlone'
    BY <1>12 DEF Answers, Done, NoJob, RunsAreAlone, JobsAreAwaited, LocksAreHeld
  <2> QED BY <2>1, <2>2, <2>3
<1>13. ASSUME NEW a \in Asks, Interrupts(a) PROVE LockInv'
  <2>1. LocksAreHeld'
    <3>1. \A b \in Asks : ask[b].at \in {"submitted", "saved"} => job'[b].proc = job[b].proc
      BY <1>13, Ran DEF Interrupts, JobsAreAwaited
    <3>2. UNCHANGED <<ask, holder>>
      BY <1>13 DEF Interrupts
    <3> QED BY <3>1, <3>2 DEF LocksAreHeld
  <2>2. JobsAreAwaited'
    BY <1>13 DEF Interrupts, Done, NoJob, JobsAreAwaited
  <2>3. RunsAreAlone'
    BY <1>13 DEF Interrupts, Done, NoJob, RunsAreAlone, JobsAreAwaited, LocksAreHeld
  <2> QED BY <2>1, <2>2, <2>3
<1>14. ASSUME NEW a \in Asks, Raises(a) PROVE LockInv'
  <2>1. LocksAreHeld'
    <3>1. \A b \in Asks : ask[b].at \in {"submitted", "saved"} => job'[b].proc = job[b].proc
      BY <1>14, Ran DEF Raises, JobsAreAwaited
    <3>2. UNCHANGED <<ask, holder>>
      BY <1>14 DEF Raises
    <3> QED BY <3>1, <3>2 DEF LocksAreHeld
  <2>2. JobsAreAwaited'
    BY <1>14 DEF Raises, Done, NoJob, JobsAreAwaited
  <2>3. RunsAreAlone'
    BY <1>14 DEF Raises, Done, NoJob, RunsAreAlone, JobsAreAwaited, LocksAreHeld
  <2> QED BY <2>1, <2>2, <2>3
<1>15. CASE UNCHANGED chatVars
  BY <1>15 DEF chatVars, LocksAreHeld, JobsAreAwaited, RunsAreAlone
<1> QED BY <1>1, <1>2, <1>3, <1>4, <1>5, <1>6, <1>7, <1>8, <1>9, <1>10, <1>11, <1>12, <1>13, <1>14, <1>15
        DEF ChatNext, AskThread, Completes
-----------------------------------------------------------------------------
(* Reports.                                                                 *)

ReportInv == ReportsFollow /\ AnswersArePrepared /\ ReportIsOwn

\* Every action keeps the report of a session that of the run it belongs to.
LEMMA ReportStep ==
    ChatTypeOK /\ LockInv /\ ReportInv /\ [ChatNext]_chatVars => ReportInv'
<1> SUFFICES ASSUME ChatTypeOK, LockInv, ReportInv, [ChatNext]_chatVars PROVE ReportInv'
  OBVIOUS
<1>0. /\ ask \in [Asks -> AskState] /\ job \in [Asks -> JobState]
      /\ report \in [Processes -> [Sessions -> Asks \union {Nobody}]]
  BY DEF ChatTypeOK
<1> USE <1>0 DEF ReportInv, LockInv, AskState, JobState
<1>1. ASSUME NEW p \in Processes, NEW a \in Asks, Submit(p, a) PROVE ReportInv'
  <2>1. ReportsFollow'
    BY <1>1 DEF Submit, MayAsk, Resumable, Free, Asking, NewAsk, Queued, NoJob, ReportsFollow, RunsAreAlone, LocksAreHeld
  <2>2. AnswersArePrepared'
    BY <1>1 DEF Submit, MayAsk, Resumable, Free, Asking, NewAsk, Queued, NoJob, AnswersArePrepared
  <2>3. ReportIsOwn'
    BY <1>1 DEF Submit, MayAsk, Resumable, Free, Asking, NewAsk, Queued, NoJob, ReportIsOwn, ReportsFollow, AnswersArePrepared
  <2> QED BY <2>1, <2>2, <2>3
<1>2. ASSUME NEW p \in Processes, NEW a \in Asks, Refuse(p, a) PROVE ReportInv'
  <2>1. ReportsFollow'
    BY <1>2 DEF Refuse, MayAsk, Resumable, ReportsFollow, RunsAreAlone, LocksAreHeld
  <2>2. AnswersArePrepared'
    BY <1>2 DEF Refuse, MayAsk, Resumable, AnswersArePrepared
  <2>3. ReportIsOwn'
    BY <1>2 DEF Refuse, MayAsk, Resumable, ReportIsOwn, ReportsFollow, AnswersArePrepared
  <2> QED BY <2>1, <2>2, <2>3
<1>3. ASSUME NEW a \in Asks, Timeout(a) PROVE ReportInv'
  <2>1. ReportsFollow'
    BY <1>3 DEF Timeout, NoJob, Release, ReportsFollow, RunsAreAlone, LocksAreHeld
  <2>2. AnswersArePrepared'
    BY <1>3 DEF Timeout, NoJob, Release, AnswersArePrepared
  <2>3. ReportIsOwn'
    BY <1>3 DEF Timeout, NoJob, Release, ReportIsOwn, ReportsFollow, AnswersArePrepared
  <2> QED BY <2>1, <2>2, <2>3
<1>4. ASSUME NEW a \in Asks, Save(a) PROVE ReportInv'
  <2>1. ReportsFollow'
    BY <1>4 DEF Save, Returned, ReportsFollow, RunsAreAlone, LocksAreHeld
  <2>2. AnswersArePrepared'
    BY <1>4 DEF Save, Returned, AnswersArePrepared
  <2>3. ReportIsOwn'
    BY <1>4 DEF Save, Returned, ReportIsOwn, ReportsFollow, AnswersArePrepared
  <2> QED BY <2>1, <2>2, <2>3
<1>5. ASSUME NEW a \in Asks, Reply(a) PROVE ReportInv'
  <2>1. ReportsFollow'
    BY <1>5 DEF Reply, Release, Forget, NoJob, ReportsFollow, RunsAreAlone, LocksAreHeld
  <2>2. AnswersArePrepared'
    BY <1>5 DEF Reply, Release, Forget, NoJob, AnswersArePrepared
  <2>3. ReportIsOwn'
    BY <1>5 DEF Reply, Release, Forget, NoJob, ReportIsOwn, ReportsFollow, AnswersArePrepared
  <2> QED BY <2>1, <2>2, <2>3
<1>6. ASSUME NEW a \in Asks, Interrupted(a) PROVE ReportInv'
  <2>1. ReportsFollow'
    BY <1>6 DEF Interrupted, Returned, Release, Forget, NoJob, ReportsFollow, RunsAreAlone, LocksAreHeld
  <2>2. AnswersArePrepared'
    BY <1>6 DEF Interrupted, Returned, Release, Forget, NoJob, AnswersArePrepared
  <2>3. ReportIsOwn'
    BY <1>6 DEF Interrupted, Returned, Release, Forget, NoJob, ReportIsOwn, ReportsFollow, AnswersArePrepared
  <2> QED BY <2>1, <2>2, <2>3
<1>7. ASSUME NEW a \in Asks, Fail(a) PROVE ReportInv'
  <2>1. ReportsFollow'
    BY <1>7 DEF Fail, Returned, Release, Forget, NoJob, ReportsFollow, RunsAreAlone, LocksAreHeld
  <2>2. AnswersArePrepared'
    BY <1>7 DEF Fail, Returned, Release, Forget, NoJob, AnswersArePrepared
  <2>3. ReportIsOwn'
    BY <1>7 DEF Fail, Returned, Release, Forget, NoJob, ReportIsOwn, ReportsFollow, AnswersArePrepared
  <2> QED BY <2>1, <2>2, <2>3
<1>8. ASSUME NEW p \in Processes, Start(p) PROVE ReportInv'
  <2>1. ReportsFollow'
    BY <1>8 DEF Start, ReportsFollow, RunsAreAlone, LocksAreHeld
  <2>2. AnswersArePrepared'
    BY <1>8 DEF Start, AnswersArePrepared
  <2>3. ReportIsOwn'
    BY <1>8 DEF Start, ReportIsOwn, ReportsFollow, AnswersArePrepared
  <2> QED BY <2>1, <2>2, <2>3
<1>9. ASSUME NEW p \in Processes, Die(p) PROVE ReportInv'
  <2>1. ReportsFollow'
    BY <1>9 DEF Die, NoJob, ReportsFollow, RunsAreAlone, LocksAreHeld
  <2>2. AnswersArePrepared'
    BY <1>9 DEF Die, NoJob, AnswersArePrepared
  <2>3. ReportIsOwn'
    BY <1>9 DEF Die, NoJob, ReportIsOwn, ReportsFollow, AnswersArePrepared
  <2> QED BY <2>1, <2>2, <2>3
<1>10. ASSUME NEW a \in Asks, EnterSession(a) PROVE ReportInv'
  <2>1. ReportsFollow'
    <3>1. /\ \A b \in Asks \ {a} : job'[b] = job[b]
          /\ ~job[a].prepared /\ ~job'[a].prepared
          /\ UNCHANGED <<ask, report>>
      BY <1>10, Entered DEF NoJob, AnswersArePrepared
    <3> QED BY <3>1 DEF ReportsFollow
  <2>2. AnswersArePrepared'
    BY <1>10, Entered DEF NoJob, RunLockFree, Running, InProcess, AnswersArePrepared
  <2>3. ReportIsOwn'
    BY <1>10, Entered DEF NoJob, RunLockFree, Running, InProcess, ReportIsOwn, ReportsFollow, AnswersArePrepared
  <2> QED BY <2>1, <2>2, <2>3
<1>11. ASSUME NEW a \in Asks, Prepare(a) PROVE ReportInv'
  <2>1. ReportsFollow'
    BY <1>11 DEF Prepare, ReportsFollow, RunsAreAlone, LocksAreHeld
  <2>2. AnswersArePrepared'
    BY <1>11 DEF Prepare, AnswersArePrepared
  <2>3. ReportIsOwn'
    BY <1>11 DEF Prepare, ReportIsOwn, ReportsFollow, AnswersArePrepared
  <2> QED BY <2>1, <2>2, <2>3
<1>12. ASSUME NEW a \in Asks, Answers(a) PROVE ReportInv'
  <2>1. ReportsFollow'
    BY <1>12 DEF Answers, Done, NoJob, ReportsFollow, RunsAreAlone, LocksAreHeld
  <2>2. AnswersArePrepared'
    BY <1>12 DEF Answers, Done, NoJob, AnswersArePrepared
  <2>3. ReportIsOwn'
    BY <1>12 DEF Answers, Done, NoJob, ReportIsOwn, ReportsFollow, AnswersArePrepared
  <2> QED BY <2>1, <2>2, <2>3
<1>13. ASSUME NEW a \in Asks, Interrupts(a) PROVE ReportInv'
  <2>1. ReportsFollow'
    BY <1>13 DEF Interrupts, Done, NoJob, ReportsFollow, RunsAreAlone, LocksAreHeld
  <2>2. AnswersArePrepared'
    BY <1>13 DEF Interrupts, Done, NoJob, AnswersArePrepared
  <2>3. ReportIsOwn'
    BY <1>13 DEF Interrupts, Done, NoJob, ReportIsOwn, ReportsFollow, AnswersArePrepared
  <2> QED BY <2>1, <2>2, <2>3
<1>14. ASSUME NEW a \in Asks, Raises(a) PROVE ReportInv'
  <2>1. ReportsFollow'
    BY <1>14 DEF Raises, Done, NoJob, ReportsFollow, RunsAreAlone, LocksAreHeld
  <2>2. AnswersArePrepared'
    BY <1>14 DEF Raises, Done, NoJob, AnswersArePrepared
  <2>3. ReportIsOwn'
    BY <1>14 DEF Raises, Done, NoJob, ReportIsOwn, ReportsFollow, AnswersArePrepared
  <2> QED BY <2>1, <2>2, <2>3
<1>15. CASE UNCHANGED chatVars
  BY <1>15 DEF chatVars, AnswersArePrepared, LocksAreHeld, ReportIsOwn, ReportsFollow, RunsAreAlone
<1> QED BY <1>1, <1>2, <1>3, <1>4, <1>5, <1>6, <1>7, <1>8, <1>9, <1>10, <1>11, <1>12, <1>13, <1>14, <1>15
        DEF ChatNext, AskThread, Completes

-----------------------------------------------------------------------------
(* Turns.                                                                   *)

\* Writing a checkpoint leaves no run waiting but the one it names.
LEMMA WaitsChange ==
    ASSUME ChatTypeOK, NEW a \in Asks, NEW c \in Conversations, NEW w, NEW e,
           Checkpoints(a, c, w, e), w \in {Decision(a), a},
           NEW b \in TaskRuns, checkpoint'[TaskOf[b]].waits = b
    PROVE  checkpoint[TaskOf[b]].waits = b \/ (b = a /\ w = a)
<1>1. TaskOf[b] \in Tasks /\ b \in Asks /\ b # Nobody
  BY DEF Tasks
<1>2. CASE a \notin TaskRuns \/ TaskOf[b] # TaskOf[a]
  BY <1>1, <1>2 DEF Checkpoints, ChatTypeOK
<1>3. CASE a \in TaskRuns /\ TaskOf[b] = TaskOf[a]
  <2>1. w = b
    BY <1>1, <1>3 DEF Checkpoints, ChatTypeOK
  <2>2. CASE w = a
    BY <2>1, <2>2
  <2>3. CASE w = Decision(a)
    BY <1>1, <1>3, <2>1, <2>3 DEF Decision
  <2> QED BY <2>2, <2>3
<1> QED BY <1>2, <1>3

\* A run that goes on is not waited for.
LEMMA NoneWaits ==
    ASSUME ChatTypeOK, NEW a \in TaskRuns, NEW c \in Conversations, NEW e,
           Checkpoints(a, c, Decision(a), e)
    PROVE  checkpoint'[TaskOf[a]].waits # a
<1>1. TaskOf[a] \in Tasks /\ a \in Asks /\ a # Nobody
  BY DEF Tasks
<1>2. checkpoint'[TaskOf[a]].waits = Decision(a)
  BY <1>1 DEF Checkpoints, ChatTypeOK
<1> QED BY <1>1, <1>2 DEF Decision

\* So a run that goes on leaves waiting only others.
LEMMA OthersWait ==
    ASSUME ChatTypeOK, NEW a \in Asks, NEW c \in Conversations, NEW e,
           Checkpoints(a, c, Decision(a), e)
    PROVE  \A b \in TaskRuns : checkpoint'[TaskOf[b]].waits = b =>
              b # a /\ checkpoint[TaskOf[b]].waits = b
<1> SUFFICES ASSUME NEW b \in TaskRuns, checkpoint'[TaskOf[b]].waits = b
             PROVE  b # a /\ checkpoint[TaskOf[b]].waits = b
  OBVIOUS
<1>1. b # a
  BY NoneWaits
<1>2. checkpoint[TaskOf[b]].waits = b \/ (b = a /\ Decision(a) = a)
  BY WaitsChange
<1> QED BY <1>1, <1>2

\* Every action keeps saved asks past their timeout.
LEMMA SavedStep ==
    ChatTypeOK /\ LockInv /\ AnswersArePrepared /\ SavedIsPast /\ [ChatNext]_chatVars => SavedIsPast'
<1> SUFFICES ASSUME ChatTypeOK, LockInv, AnswersArePrepared, SavedIsPast, [ChatNext]_chatVars
             PROVE  SavedIsPast'
  OBVIOUS
<1>0. /\ ask \in [Asks -> AskState] /\ job \in [Asks -> JobState]
      /\ checkpoint \in [Tasks -> Thread]
      /\ \A a \in Asks : job[a].messages \in Conversations
  BY DEF ChatTypeOK, JobState
<1> USE <1>0 DEF AskState, JobState
<1>1. ASSUME NEW p \in Processes, NEW a \in Asks, Submit(p, a) PROVE SavedIsPast'
  BY <1>1 DEF Submit, MayAsk, Resumable, Asking, NewAsk, Queued, NoJob, SavedIsPast, AnswersArePrepared
<1>2. ASSUME NEW p \in Processes, NEW a \in Asks, Refuse(p, a) PROVE SavedIsPast'
  BY <1>2 DEF Refuse, MayAsk, Resumable, SavedIsPast, AnswersArePrepared
<1>3. ASSUME NEW a \in Asks, Timeout(a) PROVE SavedIsPast'
  BY <1>3 DEF Timeout, NoJob, SavedIsPast, AnswersArePrepared
<1>4. ASSUME NEW a \in Asks, Save(a) PROVE SavedIsPast'
  BY <1>4 DEF Save, Returned, SavedIsPast, AnswersArePrepared
<1>5. ASSUME NEW a \in Asks, Reply(a) PROVE SavedIsPast'
  BY <1>5 DEF Reply, Forget, NoJob, SavedIsPast, AnswersArePrepared
<1>6. ASSUME NEW a \in Asks, Interrupted(a) PROVE SavedIsPast'
  BY <1>6 DEF Interrupted, Returned, Forget, NoJob, SavedIsPast, AnswersArePrepared
<1>7. ASSUME NEW a \in Asks, Fail(a) PROVE SavedIsPast'
  BY <1>7 DEF Fail, Returned, Forget, NoJob, SavedIsPast, AnswersArePrepared
<1>8. ASSUME NEW p \in Processes, Start(p) PROVE SavedIsPast'
  BY <1>8 DEF Start, SavedIsPast, AnswersArePrepared
<1>9. ASSUME NEW p \in Processes, Die(p) PROVE SavedIsPast'
  BY <1>9 DEF Die, NoJob, SavedIsPast, AnswersArePrepared
<1>10. ASSUME NEW a \in Asks, EnterSession(a) PROVE SavedIsPast'
  <2>1. CASE Entering(a)
    <3>1. PICK c \in StartsFrom(a) :
            /\ job' = [job EXCEPT ![a] = [@ EXCEPT !.at = "running", !.messages = c]]
            /\ Checkpoints(a, c, Decision(a), FALSE)
      BY <2>1 DEF Entering
    <3>2. c \in Conversations
      BY StartsSay
    <3>3. \A b \in TaskRuns : checkpoint'[TaskOf[b]].waits = b =>
            b # a /\ checkpoint[TaskOf[b]].waits = b
      BY <3>1, <3>2, OthersWait
    <3>4. job[a].at = "blocked" /\ UNCHANGED ask
      BY <1>10 DEF EnterSession
    <3> QED BY <3>1, <3>3, <3>4 DEF SavedIsPast, AnswersArePrepared
  <2>2. CASE Forget(a) /\ UNCHANGED checkpoint
    BY <1>10, <2>2 DEF EnterSession, Forget, NoJob, SavedIsPast, AnswersArePrepared
  <2> QED BY <1>10, <2>1, <2>2 DEF EnterSession
<1>11. ASSUME NEW a \in Asks, Prepare(a) PROVE SavedIsPast'
  <2>1. \A b \in TaskRuns : checkpoint'[TaskOf[b]].waits = b => b # a /\ checkpoint[TaskOf[b]].waits = b
    BY <1>11, OthersWait DEF Prepare
  <2> QED BY SMTT(30), <1>11, <2>1 DEF Prepare, SavedIsPast, AnswersArePrepared
<1>12. ASSUME NEW a \in Asks, Answers(a) PROVE SavedIsPast'
  <2>1. \A b \in TaskRuns : checkpoint'[TaskOf[b]].waits = b => b # a /\ checkpoint[TaskOf[b]].waits = b
    BY <1>12, OthersWait DEF Answers
  <2> QED BY <1>12, <2>1 DEF Answers, Done, NoJob, SavedIsPast, AnswersArePrepared
<1>13. ASSUME NEW a \in Asks, Interrupts(a) PROVE SavedIsPast'
  <2>1. \A b \in TaskRuns : checkpoint'[TaskOf[b]].waits = b => b = a \/ checkpoint[TaskOf[b]].waits = b
    BY <1>13, WaitsChange DEF Interrupts
  <2> QED BY <1>13, <2>1 DEF Interrupts, Done, NoJob, SavedIsPast, AnswersArePrepared
<1>14. ASSUME NEW a \in Asks, Raises(a) PROVE SavedIsPast'
  BY <1>14 DEF Raises, Done, NoJob, SavedIsPast, AnswersArePrepared
<1>15. CASE UNCHANGED chatVars
  BY <1>15 DEF chatVars, SavedIsPast
<1> QED BY <1>1, <1>2, <1>3, <1>4, <1>5, <1>6, <1>7, <1>8, <1>9, <1>10, <1>11, <1>12, <1>13, <1>14, <1>15
        DEF ChatNext, AskThread, Completes

\* What an ask saved is not changed any more.
LEMMA SavedStays ==
    ASSUME ChatTypeOK, SavedIsPast, [ChatNext]_chatVars, NEW b \in Asks, ask[b].saved # <<>>
    PROVE  ask'[b].saved = ask[b].saved
<1>0. /\ ask \in [Asks -> AskState]
      /\ ask[b].at \in {"saved", "answered", "failed"}
      /\ b \in TaskRuns => checkpoint[TaskOf[b]].waits # b
  BY DEF ChatTypeOK, SavedIsPast
<1> USE <1>0 DEF AskState
<1>1. ASSUME NEW p \in Processes, NEW a \in Asks, Submit(p, a) PROVE ask'[b].saved = ask[b].saved
  BY <1>1 DEF Submit, MayAsk, Resumable
<1>2. ASSUME NEW a \in Asks, Save(a) PROVE ask'[b].saved = ask[b].saved
  BY <1>2 DEF Save, Returned
<1>3. CASE \E p \in Processes, a \in Asks : Refuse(p, a)
  BY <1>3 DEF Refuse
<1>4. CASE \E a \in Asks : Timeout(a) \/ Reply(a) \/ Interrupted(a) \/ Fail(a)
  <2>1. PICK a \in Asks : Timeout(a) \/ Reply(a) \/ Interrupted(a) \/ Fail(a)
    BY <1>4
  <2>2. CASE Timeout(a) \/ Interrupted(a) \/ Fail(a)
    BY <2>2 DEF Timeout, Interrupted, Fail
  <2>3. CASE Reply(a)
    BY <2>3 DEF Reply
  <2> QED BY <2>1, <2>2, <2>3
<1>5. CASE \E p \in Processes : Start(p) \/ Die(p)
  BY <1>5 DEF Start, Die
<1>6. CASE \E a \in Asks : EnterSession(a) \/ Prepare(a) \/ Completes(a)
  BY <1>6 DEF EnterSession, Prepare, Completes, Answers, Interrupts, Raises
<1>7. CASE UNCHANGED chatVars
  BY <1>7 DEF chatVars
<1> QED BY <1>1, <1>2, <1>3, <1>4, <1>5, <1>6, <1>7 DEF ChatNext, AskThread

\* So a turn in a saved conversation stays one; the next state's turns.
SpokenNext(a) == \E b \in Asks : (b = a \/ SameTask(a, b)) /\ Holds(ask'[b].saved, a)
AllNext(c) == \A i \in 1..Len(c) : SpokenNext(c[i])
NextOrOf(c, k) == \A i \in 1..Len(c) : SpokenNext(c[i]) \/ (c[i] \in TaskRuns /\ TaskOf[c[i]] = k)
NextOrOwn(c, a) == \A i \in 1..Len(c) : SpokenNext(c[i]) \/ c[i] = a \/ SameTask(c[i], a)

LEMMA SpokenStays ==
    ASSUME ChatTypeOK, SavedIsPast, [ChatNext]_chatVars, NEW a \in Asks, Spoken(a)
    PROVE  SpokenNext(a)
<1>1. PICK b \in Asks : (b = a \/ SameTask(a, b)) /\ Holds(ask[b].saved, a)
  BY DEF Spoken
<1>2. ask[b].saved # <<>>
  BY <1>1 DEF Holds
<1>3. ask'[b].saved = ask[b].saved
  BY <1>2, SavedStays
<1> QED BY <1>1, <1>3 DEF SpokenNext

\* The turns of a task's run are those of its task.
LEMMA OwnIsOf ==
    ASSUME NEW a \in TaskRuns, NEW c, NextOrOwn(c, a) PROVE NextOrOf(c, TaskOf[a])
BY DEF NextOrOwn, NextOrOf, SameTask

\* A run's checkpoint holds the turns of its task.
LEMMA CheckpointNext ==
    ASSUME ChatTypeOK, NEW a \in Asks, NEW c, NEW w, NEW e, Checkpoints(a, c, w, e), NextOrOwn(c, a),
           \A k \in Tasks : NextOrOf(checkpoint[k].messages, k)
    PROVE  \A k \in Tasks : NextOrOf(checkpoint'[k].messages, k)
<1>1. CASE a \notin TaskRuns
  BY <1>1 DEF Checkpoints
<1>2. CASE a \in TaskRuns
  <2>1. NextOrOf(c, TaskOf[a])
    BY <1>2, OwnIsOf
  <2> QED BY <1>2, <2>1 DEF Checkpoints, ChatTypeOK
<1> QED BY <1>1, <1>2

\* Every action keeps all conversations, threads and runs free of turns that
\* nobody saved and that are not of their own task.
LEMMA TurnStep ==
    ChatTypeOK /\ AnswersArePrepared /\ SavedIsPast /\ TurnsAreSpoken /\ [ChatNext]_chatVars
        => TurnsAreSpoken'
<1> SUFFICES ASSUME ChatTypeOK, AnswersArePrepared, SavedIsPast, TurnsAreSpoken, [ChatNext]_chatVars
             PROVE  TurnsAreSpoken'
  OBVIOUS
<1>0. /\ row \in [Sessions -> Conversations] /\ job \in [Asks -> JobState]
      /\ ask \in [Asks -> AskState] /\ checkpoint \in [Tasks -> Thread]
      /\ cache \in [Processes -> [Sessions -> Conversations \union {NotLoaded}]]
      /\ \A a \in Asks : job[a].messages \in Conversations
      /\ \A k \in Tasks : checkpoint[k].messages \in Conversations
  BY DEF ChatTypeOK, JobState, Thread
<1>1. \A c \in Conversations : \A i \in 1..Len(c) : c[i] \in Asks /\ (Spoken(c[i]) => SpokenNext(c[i]))
  BY SpokenStays DEF Conversations
<1>2. /\ \A c \in Conversations : AllSpoken(c) => AllNext(c)
      /\ \A c \in Conversations, k \in Tasks : SpokenOrOf(c, k) => NextOrOf(c, k)
      /\ \A c \in Conversations, a \in Asks : SpokenOrOwn(c, a) => NextOrOwn(c, a)
  BY <1>1 DEF AllSpoken, AllNext, SpokenOrOf, NextOrOf, SpokenOrOwn, NextOrOwn
<1>3. /\ \A s \in Sessions : AllNext(row[s])
      /\ \A p \in Processes, s \in Sessions : cache[p][s] # NotLoaded => AllNext(cache[p][s])
      /\ \A a \in Asks : NextOrOwn(job[a].messages, a)
      /\ \A k \in Tasks : NextOrOf(checkpoint[k].messages, k)
  BY <1>0, <1>2 DEF TurnsAreSpoken
<1> DEFINE Kept ==
        /\ \A s \in Sessions : AllNext(row'[s])
        /\ \A p \in Processes, s \in Sessions : cache'[p][s] # NotLoaded => AllNext(cache'[p][s])
        /\ \A a \in Asks : NextOrOwn(job'[a].messages, a)
        /\ \A k \in Tasks : NextOrOf(checkpoint'[k].messages, k)
<1>4. SUFFICES Kept
  BY DEF TurnsAreSpoken, AllSpoken, SpokenOrOf, SpokenOrOwn, Spoken, AllNext, NextOrOf, NextOrOwn, SpokenNext
<1>5. /\ AllNext(<<>>) /\ \A a \in Asks : NextOrOwn(NoJob.messages, a)
  BY DEF AllNext, NextOrOwn, NoJob
\* What an ask has saved is spoken.
<1>6. ASSUME NEW a \in Asks, ask'[a].saved = job[a].messages PROVE AllNext(job[a].messages)
  <2> SUFFICES ASSUME NEW i \in 1..Len(job[a].messages) PROVE SpokenNext(job[a].messages[i])
    BY DEF AllNext
  <2>1. Holds(ask'[a].saved, job[a].messages[i])
    BY <1>6 DEF Holds
  <2>2. \/ SpokenNext(job[a].messages[i]) \/ job[a].messages[i] = a
        \/ SameTask(job[a].messages[i], a)
    BY <1>3 DEF NextOrOwn
  <2> QED BY <2>1, <2>2 DEF SpokenNext
<1> USE <1>0, <1>3 DEF AskState, JobState
<1>7. ASSUME NEW p \in Processes, NEW a \in Asks, Submit(p, a) PROVE Kept
  <2> DEFINE c == Restored(p, SessionOf[a])
  <2>1. c \in Conversations /\ AllNext(c) /\ SessionOf[a] \in Sessions
    BY DEF Restored
  <2>2. NextOrOwn(Append(c, a), a)
    <3>1. c \in Seq(Asks) /\ Len(c) \in Nat
      BY <2>1 DEF Conversations
    <3>2. \A i \in 1..Len(Append(c, a)) : Append(c, a)[i] = a \/ (i \in 1..Len(c) /\ Append(c, a)[i] = c[i])
      BY <3>1
    <3> HIDE DEF c
    <3> QED BY <2>1, <3>2 DEF AllNext, NextOrOwn
  <2>3. /\ job' = [job EXCEPT ![a] = Queued(p, a)] /\ Queued(p, a).messages = Append(c, a)
        /\ cache' = [cache EXCEPT ![p][SessionOf[a]] = c]
        /\ UNCHANGED <<row, checkpoint>>
    BY <1>7 DEF Submit, Queued, NoJob
  <2> HIDE DEF c
  <2>4. \A b \in Asks : NextOrOwn(job'[b].messages, b)
    BY <2>2, <2>3
  <2>5. \A q \in Processes, s \in Sessions : cache'[q][s] # NotLoaded => AllNext(cache'[q][s])
    BY <2>1, <2>3
  <2> QED BY <2>3, <2>4, <2>5
<1>8. ASSUME NEW p \in Processes, NEW a \in Asks, Refuse(p, a) PROVE Kept
  BY <1>8 DEF Refuse
<1>9. ASSUME NEW a \in Asks, Timeout(a) PROVE Kept
  BY <1>5, <1>9 DEF Timeout
<1>10. ASSUME NEW a \in Asks, Save(a) PROVE Kept
  <2>1. AllNext(job[a].messages)
    BY <1>6, <1>10 DEF Save
  <2> QED BY <1>10, <2>1 DEF Save
<1>11. ASSUME NEW a \in Asks, Reply(a) PROVE Kept
  <2>1. ask'[a].saved = ask[a].saved /\ ask[a].saved = job[a].messages
    BY <1>11 DEF Reply, SavedIsPast
  <2>2. AllNext(job[a].messages)
    BY <1>6, <2>1
  <2> QED BY <1>5, <1>11, <2>2 DEF Reply, Forget
<1>12. ASSUME NEW a \in Asks, Interrupted(a) \/ Fail(a) PROVE Kept
  BY <1>5, <1>12 DEF Interrupted, Fail, Forget
<1>13. ASSUME NEW p \in Processes, Start(p) PROVE Kept
  BY <1>13 DEF Start
<1>14. ASSUME NEW p \in Processes, Die(p) PROVE Kept
  BY <1>5, <1>14 DEF Die
<1>15. ASSUME NEW a \in Asks, EnterSession(a) PROVE Kept
  <2>1. CASE Entering(a)
    <3>1. PICK c \in StartsFrom(a) :
            /\ job' = [job EXCEPT ![a] = [@ EXCEPT !.at = "running", !.messages = c]]
            /\ Checkpoints(a, c, Decision(a), FALSE)
      BY <2>1 DEF Entering
    <3>2. NextOrOwn(c, a)
      <4> SUFFICES ASSUME NEW i \in 1..Len(c)
                   PROVE  SpokenNext(c[i]) \/ c[i] = a \/ SameTask(c[i], a)
        BY DEF NextOrOwn
      <4>1. CASE Holds(job[a].messages, c[i])
        BY <4>1 DEF Holds, NextOrOwn
      <4>2. CASE a \in TaskRuns /\ Holds(checkpoint[TaskOf[a]].messages, c[i])
        BY <4>2 DEF Holds, NextOrOf, SameTask, Tasks
      <4> QED BY <4>1, <4>2, StartsSay
    <3>3. \A k \in Tasks : NextOrOf(checkpoint'[k].messages, k)
      BY <3>1, <3>2, CheckpointNext
    <3>4. \A b \in Asks : NextOrOwn(job'[b].messages, b)
      BY <3>1, <3>2
    <3> QED BY <1>15, <3>3, <3>4 DEF EnterSession
  <2>2. CASE Forget(a) /\ UNCHANGED checkpoint
    BY <1>5, <1>15, <2>2 DEF EnterSession, Forget
  <2> QED BY <1>15, <2>1, <2>2 DEF EnterSession
<1>16. ASSUME NEW a \in Asks, Prepare(a) PROVE Kept
  <2>1. \A k \in Tasks : NextOrOf(checkpoint'[k].messages, k)
    BY <1>16, CheckpointNext DEF Prepare
  <2> QED BY <1>16, <2>1 DEF Prepare
<1>17. ASSUME NEW a \in Asks, Answers(a) PROVE Kept
  <2>1. \A k \in Tasks : NextOrOf(checkpoint'[k].messages, k)
    BY <1>17, CheckpointNext DEF Answers
  <2> QED BY <1>5, <1>17, <2>1 DEF Answers, Done
<1>18. ASSUME NEW a \in Asks, Interrupts(a) PROVE Kept
  <2>1. \A k \in Tasks : NextOrOf(checkpoint'[k].messages, k)
    BY <1>18, CheckpointNext DEF Interrupts
  <2> QED BY <1>5, <1>18, <2>1 DEF Interrupts, Done
<1>19. ASSUME NEW a \in Asks, Raises(a) PROVE Kept
  BY <1>5, <1>19 DEF Raises, Done
<1>20. CASE UNCHANGED chatVars
  BY <1>20 DEF chatVars
<1> QED BY <1>7, <1>8, <1>9, <1>10, <1>11, <1>12, <1>13, <1>14, <1>15, <1>16, <1>17, <1>18, <1>19, <1>20
        DEF ChatNext, AskThread, Completes

-----------------------------------------------------------------------------
(* The theorems.                                                            *)

\* ChatInv holds when a process starts, ...
LEMMA ChatInvInit == ChatInit => ChatInv
<1> SUFFICES ASSUME ChatInit PROVE ChatInv
  OBVIOUS
<1>0. <<>> \in Conversations
  BY DEF Conversations
<1>1. NewAsk \in AskState /\ NoJob \in JobState
  BY <1>0, RecordTypes DEF NewAsk, AskState, AskPlaces
<1>2. ChatTypeOK
  <2>1. NewThread \in Thread
    BY <1>0 DEF NewThread, Thread
  <2> QED BY <1>0, <1>1, <2>1 DEF ChatInit, ChatTypeOK, Conversations
<1>3. LockInv /\ ReportInv
  BY DEF ChatInit, NewAsk, NoJob, LockInv, LocksAreHeld, JobsAreAwaited, RunsAreAlone,
         ReportInv, ReportsFollow, AnswersArePrepared, ReportIsOwn
<1>4. TurnsAreSpoken
  BY DEF ChatInit, NewAsk, NoJob, NewThread, TurnsAreSpoken, AllSpoken, SpokenOrOwn, SpokenOrOf, Tasks
<1>5. SavedIsPast
  BY DEF ChatInit, NewAsk, NoJob, NewThread, SavedIsPast, Tasks
<1> QED BY <1>2, <1>3, <1>4, <1>5 DEF ChatInv, LockInv, ReportInv

\* ... every step keeps it, ...
LEMMA ChatInvStep == ChatInv /\ [ChatNext]_chatVars => ChatInv'
BY ChatTypeStep, LockStep, ReportStep, SavedStep, TurnStep DEF ChatInv, LockInv, ReportInv

\* ... so it always holds: types, locks, jobs, reports and turns of ask and the
\* harness stay in step whatever times out, fails, is interrupted or dies.
THEOREM ChatInvariance == ChatSpec => []ChatInv
BY ChatInvInit, ChatInvStep, PTL DEF ChatSpec

\* Every variable always has its type (sessions.py, execution_harness.py).
THEOREM ChatTypeCorrect == ChatSpec => []ChatTypeOK
<1>1. ChatInv => ChatTypeOK
  BY DEF ChatInv
<1> QED BY <1>1, ChatInvariance, PTL

\* A chat is always answered with the context report of its own run.
THEOREM ReportIsOwnHolds == ChatSpec => []ReportIsOwn
<1>1. ChatInv => ReportIsOwn
  BY DEF ChatInv
<1> QED BY <1>1, ChatInvariance, PTL

\* A chat that timed out is never in a conversation, saved or cached, in any
\* process; a run of a task that timed out only with another one of its task.
THEOREM TimedOutLeavesNothingHolds == ChatSpec => []TimedOutLeavesNothing
<1>1. ChatInv => TimedOutLeavesNothing
  <2> SUFFICES ASSUME ChatInv, NEW a \in Asks, ask[a].at = "timedout"
               PROVE  \A s \in Sessions :
                        \/ \E b \in Asks \ {a} : SameTask(a, b) /\ Holds(ask[b].saved, a)
                        \/ /\ ~Holds(row[s], a)
                           /\ \A p \in Processes : cache[p][s] = NotLoaded \/ ~Holds(cache[p][s], a)
    BY DEF TimedOutLeavesNothing
  <2>1. ~Holds(ask[a].saved, a)
    BY DEF ChatInv, SavedIsPast, Holds
  <2>2. Spoken(a) => \E b \in Asks \ {a} : SameTask(a, b) /\ Holds(ask[b].saved, a)
    BY <2>1 DEF Spoken
  <2>3. \A c : AllSpoken(c) /\ Holds(c, a) => Spoken(a)
    BY DEF AllSpoken, Holds
  <2> QED BY <2>2, <2>3 DEF ChatInv, TurnsAreSpoken
<1> QED BY <1>1, ChatInvariance, PTL

-----------------------------------------------------------------------------
(* One process, no task.                                                    *)

\* Alone is the assumption of the single-process mode without tasks.
Alone == TaskRuns = {} /\ \A p, q \in Processes : p = q

\* What the process keeps follows the table, and every save appends.
LEMMA AloneStep ==
    ASSUME Alone, ChatInv, TableIsFollowed, [ChatNext]_chatVars
    PROVE  /\ TableIsFollowed'
           /\ \A s \in Sessions :
                 row'[s] # row[s] => \E a \in Asks : row'[s] = Append(row[s], a)
<1> DEFINE Grows == \A s \in Sessions :
                      row'[s] # row[s] => \E a \in Asks : row'[s] = Append(row[s], a)
<1> SUFFICES TableIsFollowed' /\ Grows
  OBVIOUS
<1>0. /\ ask \in [Asks -> AskState] /\ row \in [Sessions -> Conversations]
      /\ cache \in [Processes -> [Sessions -> Conversations \union {NotLoaded}]]
      /\ holder \in [Processes -> [Sessions -> Asks \union {Nobody}]]
      /\ job \in [Asks -> JobState] /\ LocksAreHeld
  BY DEF ChatInv, ChatTypeOK
<1> USE <1>0 DEF Alone, TableIsFollowed, LocksAreHeld, AskState, JobState
<1>1. ASSUME NEW p \in Processes, NEW a \in Asks, Submit(p, a) PROVE TableIsFollowed' /\ Grows
  BY <1>1 DEF Submit, MayAsk, Resumable, Free, Asking, NewAsk, Queued, NoJob, Restored
<1>2. ASSUME NEW p \in Processes, NEW a \in Asks, Refuse(p, a) PROVE TableIsFollowed' /\ Grows
  BY <1>2 DEF Refuse, MayAsk, Resumable
<1>3. ASSUME NEW a \in Asks, Timeout(a) PROVE TableIsFollowed' /\ Grows
  BY <1>3 DEF Timeout, NoJob, Release
<1>4. ASSUME NEW a \in Asks, Save(a) PROVE TableIsFollowed' /\ Grows
  BY <1>4 DEF Save, Returned
<1>5. ASSUME NEW a \in Asks, Reply(a) PROVE TableIsFollowed' /\ Grows
  <2> DEFINE q == job[a].proc
             t == SessionOf[a]
  <2>1. q \in Processes /\ t \in Sessions /\ holder[q][t] = a /\ row' = row
    BY <1>5 DEF Reply
  <2>2. job[a].messages = row[t]
    BY <1>5 DEF Reply
  <2>3. cache' = [cache EXCEPT ![q][t] = row[t]] /\ holder' = [holder EXCEPT ![q][t] = Nobody]
    BY <1>5, <2>2 DEF Reply, Release, Forget, NoJob
  <2>4. /\ ask'[a].at \notin {"submitted", "saved"}
        /\ \A b \in Asks : b # a => ask'[b] = ask[b]
    BY <1>5 DEF Reply
  <2>5. ASSUME NEW p \in Processes, NEW s \in Sessions
        PROVE  \/ cache'[p][s] \in {NotLoaded, row[s]}
               \/ \E b \in Asks :
                     SessionOf[b] = s /\ holder'[p][s] = b /\ ask'[b].at = "saved"
    <3>1. CASE s = t
      BY <2>1, <2>3, <3>1
    <3>2. CASE s # t
      <4>1. cache'[p][s] = cache[p][s] /\ holder'[p][s] = holder[p][s]
        BY <2>1, <2>3, <3>2
      <4>2. \A b \in Asks : SessionOf[b] = s => b # a
        BY <3>2
      <4>3. \/ cache[p][s] \in {NotLoaded, row[s]}
            \/ \E b \in Asks : SessionOf[b] = s /\ holder[p][s] = b /\ ask[b].at = "saved"
        OBVIOUS
      <4>4. CASE cache[p][s] \in {NotLoaded, row[s]}
        BY <4>1, <4>4
      <4>5. ASSUME NEW b \in Asks, SessionOf[b] = s, holder[p][s] = b, ask[b].at = "saved"
            PROVE  \E c \in Asks : SessionOf[c] = s /\ holder'[p][s] = c /\ ask'[c].at = "saved"
        BY <2>4, <4>1, <4>2, <4>5
      <4> QED BY <4>3, <4>4, <4>5
    <3> QED BY <3>1, <3>2
  <2>6. \A b \in Asks :
          /\ ask'[b].at = "submitted" => job'[b].messages = Append(row[SessionOf[b]], b)
          /\ ask'[b].at = "saved" => row[SessionOf[b]] = job'[b].messages
    <3>1. \A b \in Asks :
            /\ ask[b].at = "submitted" => job[b].messages = Append(row[SessionOf[b]], b)
            /\ ask[b].at = "saved" => row[SessionOf[b]] = job[b].messages
      BY <2>1
    <3>2. \A b \in Asks : b # a => job'[b] = job[b]
      BY <1>5 DEF Reply, Forget
    <3> QED BY <2>4, <3>1, <3>2
  <2>7. TableIsFollowed'
    <3>1. \A p \in Processes, s \in Sessions :
            \/ cache'[p][s] \in {NotLoaded, row'[s]}
            \/ \E b \in Asks : SessionOf[b] = s /\ holder'[p][s] = b /\ ask'[b].at = "saved"
      BY <2>1, <2>5
    <3>2. row' = row
      BY <2>1
    <3>3. ASSUME NEW s \in Sessions, NEW b \in Asks, SessionOf[b] = s
          PROVE  /\ ask'[b].at = "submitted" => job'[b].messages = Append(row'[s], b)
                 /\ ask'[b].at = "saved" => row'[s] = job'[b].messages
      <4>1. row'[s] = row[SessionOf[b]]
        BY <3>2, <3>3
      <4>2. /\ ask'[b].at = "submitted" => job'[b].messages = Append(row[SessionOf[b]], b)
            /\ ask'[b].at = "saved" => row[SessionOf[b]] = job'[b].messages
        BY <2>6
      <4> QED BY <4>1, <4>2
    <3> QED BY <3>1, <3>3
  <2> QED BY <2>1, <2>7
<1>6. ASSUME NEW a \in Asks, Interrupted(a) PROVE TableIsFollowed' /\ Grows
  BY <1>6 DEF Interrupted, Returned, Release, Forget, NoJob
<1>7. ASSUME NEW a \in Asks, Fail(a) PROVE TableIsFollowed' /\ Grows
  BY <1>7 DEF Fail, Returned, Release, Forget, NoJob
<1>8. ASSUME NEW p \in Processes, Start(p) PROVE TableIsFollowed' /\ Grows
  BY <1>8 DEF Start
<1>9. ASSUME NEW p \in Processes, Die(p) PROVE TableIsFollowed' /\ Grows
  BY <1>9 DEF Die, NoJob
<1>10. ASSUME NEW a \in Asks, EnterSession(a) PROVE TableIsFollowed' /\ Grows
  <2>1. StartsFrom(a) = {job[a].messages}
    BY DEF StartsFrom
  <2>2. ASSUME NEW b \in Asks, ask[b].at \in {"submitted", "saved"}
        PROVE  job'[b].messages = job[b].messages
    <3>1. job \in [Asks -> JobState]
      BY DEF ChatInv, ChatTypeOK
    <3>2. CASE b # a
      <4>1. job'[b] = job[b]
        BY <1>10, <3>1, <3>2, Entered
      <4> QED BY <4>1
    <3>3. CASE b = a
      <4>1. job[a].at = "blocked"
        BY <1>10, <3>1, Entered
      <4>2. ~job[a].cancelled
        BY <2>2, <3>3, <4>1 DEF ChatInv, JobsAreAwaited
      <4>3. job'[a].messages \in StartsFrom(a)
        BY <1>10, <3>1, <4>2, Entered
      <4> QED BY <2>1, <3>3, <4>3
    <3> QED BY <3>2, <3>3
  <2>3. UNCHANGED <<row, cache, ask, holder>>
    BY <1>10, Entered
  <2> QED BY <2>2, <2>3
<1>11. ASSUME NEW a \in Asks, Prepare(a) PROVE TableIsFollowed' /\ Grows
  BY <1>11 DEF Prepare
<1>12. ASSUME NEW a \in Asks, Answers(a) PROVE TableIsFollowed' /\ Grows
  <2>1. \A b \in Asks : ask[b].at \in {"submitted", "saved"} => job'[b].messages = job[b].messages
    BY SMTT(30), <1>12, Ran DEF Answers, ChatInv, JobsAreAwaited
  <2>2. UNCHANGED <<row, cache, ask, holder>>
    BY <1>12 DEF Answers
  <2> QED BY <2>1, <2>2
<1>13. ASSUME NEW a \in Asks, Interrupts(a) PROVE TableIsFollowed' /\ Grows
  BY <1>13, Ran DEF Interrupts, NoJob, ChatInv, JobsAreAwaited
<1>14. ASSUME NEW a \in Asks, Raises(a) PROVE TableIsFollowed' /\ Grows
  <2>1. \A b \in Asks : ask[b].at \in {"submitted", "saved"} => job'[b].messages = job[b].messages
    BY SMTT(30), <1>14, Ran DEF Raises, ChatInv, JobsAreAwaited
  <2>2. UNCHANGED <<row, cache, ask, holder>>
    BY <1>14 DEF Raises
  <2> QED BY <2>1, <2>2
<1>15. CASE UNCHANGED chatVars
  BY <1>15 DEF chatVars
<1> QED BY <1>1, <1>2, <1>3, <1>4, <1>5, <1>6, <1>7, <1>8, <1>9, <1>10, <1>11, <1>12, <1>13, <1>14, <1>15
        DEF ChatNext, AskThread, Completes

\* In a single process that runs no task, no save of the whole conversation
\* ever loses or reorders a turn.
THEOREM ConversationGrowsHolds == ASSUME Alone PROVE ChatSpec => ConversationGrows
<1>1. ChatInit => TableIsFollowed
  BY DEF ChatInit, NewAsk, TableIsFollowed
<1>2. ChatInv /\ TableIsFollowed /\ [ChatNext]_chatVars => TableIsFollowed'
  BY AloneStep
<1>3. ChatInv /\ TableIsFollowed /\ [ChatNext]_chatVars =>
        [\A s \in Sessions :
            row'[s] # row[s] => \E a \in Asks : row'[s] = Append(row[s], a)]_chatVars
  BY AloneStep
<1> QED BY <1>1, <1>2, <1>3, ChatInvariance, PTL DEF ChatSpec, ConversationGrows
=============================================================================
