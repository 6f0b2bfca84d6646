------------------------------- MODULE Memories -------------------------------
(***************************************************************************)
(* Long-term memory in one scope (server/memory.py).  A record keeps its     *)
(* status twice, in a column and in its payload: create looks at the         *)
(* columns, list and retrieval at the payloads.  create is one transaction;  *)
(* update is three, and a retrieval writes back the records it read.         *)
(***************************************************************************)
EXTENDS Naturals, Sequences, FiniteSets

CONSTANTS
    Contents,       \* normalized contents
    KeyOf,          \* the conflict key of each: preference_key, or the extractor's
    NoKey,
    Writers,        \* updates and retrievals in flight
    MaxMemories     \* bound: records ever created

ASSUME MemoriesAssumption == MaxMemories \in Nat

VARIABLES
    memory,     \* table long_term_memories, in the order of creation
    writer,
    overlapped  \* history: superseded or updated while a retrieval held the record

memoryVars == <<memory, writer, overlapped>>

Status == {"active", "superseded"}
Keys == {KeyOf[x] : x \in Contents} \union {NoKey}

Memory == [content : Contents, key : Keys, column : Status, payload : Status,
           exists : BOOLEAN]

NoWriter == [pc |-> "idle"]

\* old: the record an update replaces; saved: its successor; held: what a
\* retrieval has still to write back.
WriterState ==
    {NoWriter}
    \union [pc : {"update", "supersede"}, old : 1..MaxMemories, saved : 0..MaxMemories]
    \union [pc : {"retrieve"}, held : SUBSET (1..MaxMemories)]

MemoryIds == 1..Len(memory)

MemoryTypeOK ==
    /\ memory \in Seq(Memory) /\ Len(memory) <= MaxMemories
    /\ writer \in [Writers -> WriterState]
    /\ overlapped \subseteq MemoryIds

MemoryInit ==
    /\ memory = <<>>
    /\ writer = [w \in Writers |-> NoWriter]
    /\ overlapped = {}

InColumn == {m \in MemoryIds : memory[m].exists /\ memory[m].column = "active"}
Listed   == {m \in MemoryIds : memory[m].exists /\ memory[m].payload = "active"}

Held == UNION {writer[w].held : w \in {v \in Writers : writer[v].pc = "retrieve"}}

-----------------------------------------------------------------------------
(* create: the duplicate it returns, or the new record and the conflicts     *)
(* it supersedes.                                                           *)

\* The conflicts; the record an update replaces is always one.
Conflicts(key, replaced) ==
    {m \in InColumn : m = replaced \/ (key # NoKey /\ memory[m].key = key)}

\* A record with the same content is a duplicate; so may be one with the same key,
\* of the same preference in other words, and a similar one that does not conflict.
MayDuplicate(m, replaced) == m \in InColumn \ {replaced}

MustDuplicate(content, replaced) ==
    \E m \in InColumn \ {replaced} : memory[m].content = content

Inserted(content, key, replaced) ==
    Append([m \in MemoryIds |->
              IF m \in Conflicts(key, replaced)
              THEN [memory[m] EXCEPT !.column = "superseded", !.payload = "superseded"]
              ELSE memory[m]],
           [content |-> content, key |-> key, column |-> "active", payload |-> "active",
            exists |-> TRUE])

\* saved: the record that is returned.
Store(content, key, replaced, saved) ==
    \/ /\ MayDuplicate(saved, replaced)
       /\ UNCHANGED <<memory, overlapped>>
    \/ /\ ~MustDuplicate(content, replaced)
       /\ saved = Len(memory) + 1
       /\ memory' = Inserted(content, key, replaced)
       /\ overlapped' = overlapped \union (Conflicts(key, replaced) \intersect Held)

CreateMemory(content) ==
    /\ \E saved \in 1..MaxMemories : Store(content, KeyOf[content], 0, saved)
    /\ UNCHANGED writer

-----------------------------------------------------------------------------
(* update: get, create, and the old record once more.                       *)

ReadForUpdate(w, m) ==
    /\ writer[w] = NoWriter /\ m \in MemoryIds /\ memory[m].exists
    /\ writer' = [writer EXCEPT ![w] = [pc |-> "update", old |-> m, saved |-> 0]]
    /\ UNCHANGED <<memory, overlapped>>

\* The new record keeps the old one's key unless its content has one.
CreateUpdated(w, content) ==
    /\ writer[w].pc = "update"
    /\ LET old == writer[w].old
           key == IF KeyOf[content] = NoKey THEN memory[old].key ELSE KeyOf[content]
       IN  \E saved \in 1..MaxMemories :
              /\ Store(content, key, old, saved)
              /\ writer' = [writer EXCEPT ![w] =
                              IF saved = old THEN NoWriter
                              ELSE [pc |-> "supersede", old |-> old, saved |-> saved]]

\* The whole record read at first is written, superseded; it may be gone.
SupersedeColumn(m) == [memory[m] EXCEPT !.column = "superseded"]  \* mutant: not the payload

Superseded(m) == [memory[m] EXCEPT !.column = "superseded", !.payload = "superseded"]

SupersedeOld(w) ==
    /\ writer[w].pc = "supersede"
    /\ memory' = [memory EXCEPT ![writer[w].old] = Superseded(writer[w].old)]
    /\ overlapped' = overlapped \union ({writer[w].old} \intersect Held \intersect Listed)
    /\ writer' = [writer EXCEPT ![w] = NoWriter]

\* A row that is gone matches nothing: its status is that of no listed memory.
DeleteMemory(m) ==
    /\ m \in MemoryIds /\ memory[m].exists
    /\ memory' = [memory EXCEPT ![m] = [Superseded(m) EXCEPT !.exists = FALSE]]
    /\ overlapped' = overlapped \ {m}
    /\ UNCHANGED writer

-----------------------------------------------------------------------------
(* retrieve_memories: list, score, and a write of each record it returns.   *)

Retrieve(w) ==
    /\ writer[w] = NoWriter
    /\ \E returned \in SUBSET Listed \ {{}} :
          writer' = [writer EXCEPT ![w] = [pc |-> "retrieve", held |-> returned]]
    /\ UNCHANGED <<memory, overlapped>>

\* access_count and last_accessed_at, with the rest of the payload as it was read.
WriteAccess(w, m) ==
    /\ writer[w].pc = "retrieve" /\ m \in writer[w].held
    /\ memory' = [memory EXCEPT ![m].payload = IF memory[m].exists THEN "active" ELSE @]
    /\ LET rest == writer[w].held \ {m}
       IN  writer' = [writer EXCEPT ![w] = IF rest = {} THEN NoWriter
                                           ELSE [pc |-> "retrieve", held |-> rest]]
    /\ UNCHANGED overlapped

MemoryNext ==
    \/ \E content \in Contents :
          CreateMemory(content) \/ \E w \in Writers : CreateUpdated(w, content)
    \/ \E w \in Writers, m \in 1..MaxMemories :
          ReadForUpdate(w, m) \/ WriteAccess(w, m)
    \/ \E w \in Writers : SupersedeOld(w) \/ Retrieve(w)
    \/ \E m \in 1..MaxMemories : DeleteMemory(m)

MemorySpec == MemoryInit /\ [][MemoryNext]_memoryVars

-----------------------------------------------------------------------------
(* Properties.                                                              *)

\* Of the memories about one subject at most one is listed as active, but for
\* those that were superseded while a retrieval held them: its write-back gives
\* them their old status again (memory.py create, update, retrieve_memories).
OneVoicePerKey ==
    \A key \in Keys \ {NoKey} :
        Cardinality({m \in Listed \ overlapped : memory[m].key = key}) <= 1
=============================================================================
