------------------------------- MODULE Retrieval -------------------------------
(***************************************************************************)
(* A search of a workspace (server/rag/workspace_retrieval.py): one search   *)
(* per document under a deadline, a bounded number at a time over all the    *)
(* searches of the session, one fair ranking of what came back in time, and  *)
(* a selection that covers the documents a comparison names.  A document's   *)
(* own ranking is the fusion of two (server/rag/retrieval.py).               *)
(***************************************************************************)
EXTENDS Integers, FiniteSetsExt, SequencesExt, Sifting

CONSTANTS
    WorkspaceRecords,   \* the workspace's documents, in the order of its registry
    Searches,    \* searches of the session's runs, which may overlap
    RetrievalSlots,       \* WORKSPACE_RETRIEVAL_CONCURRENCY
    ChunksOf,    \* [WorkspaceRecords -> chunks of a document that match]
    PerDocument, \* WORKSPACE_RETRIEVAL_PER_DOC_K
    Candidates,  \* RETRIEVAL_CANDIDATE_K, if that is not less: chunks of a ranking
    GlobalK      \* WORKSPACE_RETRIEVAL_GLOBAL_K

Chunks == UNION {{<<WorkspaceRecords[d], c>> : c \in ChunksOf[d]} : d \in DOMAIN WorkspaceRecords}

ASSUME RetrievalAssumption ==
    /\ {RetrievalSlots, PerDocument, GlobalK} \subseteq Nat \ {0}
    /\ Candidates \in Nat /\ PerDocument <= Candidates
    /\ WorkspaceRecords \in Seq(ToSet(WorkspaceRecords))
    /\ \A c, d \in DOMAIN WorkspaceRecords : WorkspaceRecords[c] = WorkspaceRecords[d] => c = d
    /\ \A d \in DOMAIN WorkspaceRecords : IsFiniteSet(ChunksOf[d])

VARIABLES
    slots,    \* what the semaphore has left
    future,   \* [Searches -> [WorkspaceRecords -> the search of that document]]
    late,     \* searches of a document that run on though nobody waits for them
    search,   \* [Searches -> the run's side of it]
    outcome   \* history: what a search has just returned

retrievalVars == <<slots, future, late, search, outcome>>

NoFuture == [state |-> "none", hits |-> <<>>]
NotBegun == [pc |-> "idle", records |-> {}, targets |-> {}, next |-> 1, inTime |-> {}]
NoOutcome == [targets |-> {}, ranked |-> <<>>, selected |-> <<>>]

\* submitted: holds a slot and has not begun.
FutureStates == {"none", "submitted", "running", "done", "failed"}
DocumentSet == ToSet(WorkspaceRecords)

RetrievalTypeOK ==
    /\ slots \in 0..RetrievalSlots /\ late \in 0..RetrievalSlots
    /\ future \in [Searches -> [DocumentSet -> [state : FutureStates, hits : Seq(Chunks)]]]
    /\ search \in [Searches ->
          [pc : {"idle", "admitting", "waiting", "merging"},
           records : SUBSET DocumentSet, targets : SUBSET DocumentSet, next : 1..(Len(WorkspaceRecords) + 1),
           inTime : SUBSET DocumentSet]]
    /\ outcome \in [targets : SUBSET DocumentSet, ranked : Seq(Chunks), selected : Seq(Chunks)]

RetrievalInit ==
    /\ slots = RetrievalSlots /\ late = 0
    /\ future = [s \in Searches |-> [d \in DocumentSet |-> NoFuture]]
    /\ search = [s \in Searches |-> NotBegun]
    /\ outcome = NoOutcome

-----------------------------------------------------------------------------
(* The ranking of one document.                                              *)

Prefix(ranking, k) == SubSeq(ranking, 1, IF k < Len(ranking) THEN k ELSE Len(ranking))

\* reciprocal_rank_fusion: the sum of 1 / (60 + rank), here over a denominator
\* common to the first four ranks; equal scores stay in the order of appearance.
Denominator == 61 * 62 * 63 * 64
Score(ranking, c) ==
    IF c \in ToSet(ranking)
    THEN Denominator \div (60 + (CHOOSE i \in DOMAIN ranking : ranking[i] = c)) ELSE 0

Fused(dense, sparse, k) ==
    LET listed   == dense \o Keep(sparse, {i \in DOMAIN sparse : sparse[i] \notin ToSet(dense)})
        total(c) == Score(dense, c) + Score(sparse, c)
        place(c) == CHOOSE i \in DOMAIN listed : listed[i] = c
        above    == {p \in ToSet(listed) \X ToSet(listed) :
                        \/ total(p[1]) > total(p[2])
                        \/ total(p[1]) = total(p[2]) /\ place(p[1]) < place(p[2])}
    IN Prefix(InOrder(ToSet(listed), above), k)

\* Each ranking lists as many chunks as there may be candidates: the dense index
\* finds any, BM25 the ones that share a term.
Sparse(chunks) ==
    UNION {SetToSeqs(some) : some \in {c \in SUBSET chunks : Cardinality(c) <= Candidates}}
Dense(chunks) ==
    {list \in Sparse(chunks) : Len(list) \in {Candidates, Cardinality(chunks)}}

ChunksIn(d) == {c \in Chunks : c[1] = d}
DocumentRankings(d) ==
    {Fused(dense, sparse, PerDocument) : dense \in Dense(ChunksIn(d)), sparse \in Sparse(ChunksIn(d))}

-----------------------------------------------------------------------------
(* The pool.                                                                 *)

\* comparison_targets: two named documents at least, or all of them, or none.
MayCompare(targets, records) ==
    targets \subseteq records /\ (Cardinality(targets) = 1 => targets = records)

\* The documents of the workspace, or those the caller names.
BeginSearch(s, records, targets) ==
    /\ search[s].pc = "idle" /\ MayCompare(targets, records)
    /\ search' = [search EXCEPT ![s] = [pc |-> "admitting", records |-> records, targets |-> targets,
                                       next |-> 1, inTime |-> {}]]
    /\ UNCHANGED <<slots, future, late>>

\* The places in the registry of what is left to submit.
Left(s) == {i \in search[s].next..Len(WorkspaceRecords) : WorkspaceRecords[i] \in search[s].records}

\* A slot is taken before the document's search is submitted.
Admit(s) ==
    LET i == Min(Left(s))
    IN /\ search[s].pc = "admitting" /\ Left(s) # {}
       /\ slots > 0
       /\ slots' = slots - 1
       /\ future' = [future EXCEPT ![s][WorkspaceRecords[i]].state = "submitted"]
       /\ search' = [search EXCEPT ![s].next = i + 1]
       /\ UNCHANGED late

\* All are submitted, or the deadline passed without a slot.
StopAdmitting(s) ==
    /\ search[s].pc = "admitting"
    /\ Left(s) = {} \/ slots = 0
    /\ search' = [search EXCEPT ![s].pc = "waiting"]
    /\ UNCHANGED <<slots, future, late>>

\* The executor has as many threads as there are slots.
StartSearch(s, d) ==
    /\ future[s][d].state = "submitted"
    /\ future' = [future EXCEPT ![s][d].state = "running"]
    /\ UNCHANGED <<slots, late, search>>

\* A future that ends gives its slot back in its callback.
FinishSearch(s, d) ==
    /\ future[s][d].state = "running"
    /\ \/ \E hits \in DocumentRankings(d) :
             future' = [future EXCEPT ![s][d] = [state |-> "done", hits |-> hits]]
       \/ future' = [future EXCEPT ![s][d].state = "failed"]
    /\ slots' = slots + 1
    /\ UNCHANGED <<late, search>>

FinishLate ==
    /\ late > 0
    /\ late' = late - 1 /\ slots' = slots + 1
    /\ UNCHANGED <<future, search>>

DocumentsDone(s) == {d \in DocumentSet : future[s][d].state \in {"done", "failed"}}

\* wait: all have ended, or the deadline passed.
StopWaiting(s) ==
    /\ search[s].pc = "waiting"
    /\ search' = [search EXCEPT ![s].pc = "merging", ![s].inTime = DocumentsDone(s)]
    /\ UNCHANGED <<slots, future, late>>

Still(s, state) == {d \in DocumentSet : future[s][d].state = state}

-----------------------------------------------------------------------------
(* The ranking and the selection.                                            *)

\* Round robin over the documents that answered: all first hits, then all second.
Merged(rankings) ==
    LET places == UNION {{<<rank, d>> : rank \in DOMAIN rankings[d]} : d \in DOMAIN rankings}
        above  == {p \in places \X places :
                      \/ p[1][1] < p[2][1]
                      \/ p[1][1] = p[2][1] /\ p[1][2] < p[2][2]}
        order  == InOrder(places, above)
    IN [k \in DOMAIN order |-> rankings[order[k][2]][order[k][1]]]

InTime(s) ==
    LET answered == Keep(WorkspaceRecords,
                         {i \in DOMAIN WorkspaceRecords :
                             /\ WorkspaceRecords[i] \in search[s].inTime
                             /\ future[s][WorkspaceRecords[i]].state = "done"})
    IN [i \in DOMAIN answered |-> future[s][answered[i]].hits]

TopOfRanking(ranked, targets) == Prefix(ranked, GlobalK)   \* mutant: no cover

\* select_coverage_hits: the best hit of each target, then the best of the rest.
Selection(ranked, targets) ==
    LET best == {i \in DOMAIN ranked : /\ ranked[i][1] \in targets
                                       /\ \A j \in 1..(i - 1) : ranked[j][1] # ranked[i][1]}
        size == IF GlobalK < Cardinality(best) THEN Cardinality(best) ELSE GlobalK
    IN Keep(ranked, {i \in DOMAIN ranked : \/ i \in best
                                           \/ Cardinality(best \cup 1..i) <= size})

\* A search of a document that has not begun is cancelled, which gives its slot
\* back; one that runs goes on.  What failed is left out.  The reranker
\* orders the hits, or fails: that leaves the fair order or, without
\* RERANKER_FALLBACK, is the caller's failure.
Select(s) ==
    LET fair == Merged(InTime(s))
    IN /\ search[s].pc = "merging"
       /\ slots' = slots + Cardinality(Still(s, "submitted"))
       /\ late' = late + Cardinality(Still(s, "running"))
       /\ future' = [future EXCEPT ![s] = [d \in DocumentSet |-> NoFuture]]
       /\ search' = [search EXCEPT ![s] = NotBegun]
       /\ \/ \E ranked \in {fair} \cup SetToSeqs(ToSet(fair)) :
                outcome' = [targets |-> search[s].targets, ranked |-> ranked,
                            selected |-> Selection(ranked, search[s].targets)]
          \/ fair # <<>> /\ outcome' = NoOutcome

RetrievalNext ==
    \/ \E s \in Searches : Select(s)
    \/ /\ outcome' = NoOutcome
       /\ \/ FinishLate
          \/ \E s \in Searches :
                \/ \E records \in SUBSET DocumentSet \ {{}}, targets \in SUBSET DocumentSet :
                      BeginSearch(s, records, targets)
                \/ Admit(s) \/ StopAdmitting(s) \/ StopWaiting(s)
                \/ \E d \in DocumentSet : StartSearch(s, d) \/ FinishSearch(s, d)

RetrievalSpec == RetrievalInit /\ [][RetrievalNext]_retrievalVars

-----------------------------------------------------------------------------
(* Properties.                                                               *)

\* Whatever is late, fails or is cancelled, each slot is with exactly one search
\* of a document that has not ended, and no more of them run than the limit.
SlotsComeBack ==
    slots + late + Cardinality({f \in Searches \X DocumentSet :
                            future[f[1]][f[2]].state \in {"submitted", "running"}}) = RetrievalSlots

\* A comparison sees every document it names that answered in time, whatever the
\* reranker makes of its hits; the selection keeps the order of the ranking, is
\* no longer than it must be, and what it leaves out is ranked below what only
\* its rank brought in.
ComparisonsAreCovered ==
    LET ranked == outcome.ranked
        given  == outcome.selected
        found  == {d \in outcome.targets : \E i \in DOMAIN ranked : ranked[i][1] = d}
        extra  == {i \in DOMAIN ranked : /\ ranked[i] \in ToSet(given)
                                         /\ \/ ranked[i][1] \notin found
                                            \/ \E j \in 1..(i - 1) : ranked[j][1] = ranked[i][1]}
    IN /\ found \subseteq {given[i][1] : i \in DOMAIN given}
       /\ Len(given) <= Max({GlobalK, Cardinality(found)})
       /\ given = Keep(ranked, {i \in DOMAIN ranked : ranked[i] \in ToSet(given)})
       /\ \A i \in extra : \A j \in 1..i : ranked[j] \in ToSet(given)

\* A chunk that both rankings of a document put before another comes before it
\* (one that a ranking does not have is behind all it has).
FusionIsMonotone ==
    \A d \in DocumentSet :
        \A dense \in Dense(ChunksIn(d)), sparse \in Sparse(ChunksIn(d)) :
            LET fused == Fused(dense, sparse, PerDocument)
            IN \A i, j \in DOMAIN dense : i < j =>
                  \/ dense[j] \notin ToSet(fused)
                  \/ \E p, q \in DOMAIN fused : p < q /\ fused[p] = dense[i] /\ fused[q] = dense[j]
                  \/ \E k \in DOMAIN sparse : /\ sparse[k] = dense[j]
                                              /\ \A l \in 1..(k - 1) : sparse[l] # dense[i]

RetrievalIsFair == SlotsComeBack /\ ComparisonsAreCovered
=============================================================================
