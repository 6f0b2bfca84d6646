----------------------------- MODULE StorageProofs -----------------------------
(***************************************************************************)
(* Theorems about what is stored beside the tasks: DataAssets, for any      *)
(* uploads, contents, analyses and outputs and any limit on artifacts;      *)
(* Ingestion, for any uploads, processes and documents and any number of    *)
(* deaths; Memories, for any contents, keys, writers and number of records. *)
(***************************************************************************)
EXTENDS DataAssets, Ingestion, Memories, FiniteSetTheorems, TLAPS

USE DataAssumption, IngestionAssumption, MemoriesAssumption

-----------------------------------------------------------------------------
(* DataAssets: the inductive invariant.                                     *)

\* A file is written before its row, and only a sender whose file has no row
\* goes on to remove it.
FilesAreKept ==
    /\ \A s \in Senders : sender[s].pc \in {"parse", "insert"} => s \in stored
    /\ \A x \in Fingerprints :
          asset[x] # NoFile => asset[x] \in stored /\ sender[asset[x]].pc = "done"

\* What of an analysis a receipt that says completed will list.
Complete(a) ==
    artifact[a] = analysis[a].outputs /\ Cardinality(analysis[a].outputs) <= MaxOutputs

AnalysesAreRecorded ==
    \A a \in Analyses :
        /\ analysis[a].pc \in {"new", "saved", "child"} => artifact[a] = {}
        /\ analysis[a].pc # "new" => receipt[a].status # "none"
        /\ analysis[a].pc # "done" => receipt[a].status # "completed"
        /\ analysis[a].pc = "register" =>
              /\ ~analysis[a].error
              /\ artifact[a] \union analysis[a].next = analysis[a].outputs
              /\ Cardinality(analysis[a].outputs) <= MaxOutputs
        /\ analysis[a].pc = "conclude" /\ ~analysis[a].error => Complete(a)
        /\ receipt[a].status = "completed" =>
              Complete(a) /\ receipt[a].listed = analysis[a].outputs

DataInv == DataTypeOK /\ FilesAreKept /\ AnalysesAreRecorded

-----------------------------------------------------------------------------
(* The rows one step changes.                                               *)

LEMMA SenderMoves ==
    ASSUME DataTypeOK, NEW s \in Senders,
           NEW pc \in {"new", "write", "parse", "insert", "drop", "done"}, SendTo(s, pc)
    PROVE  /\ sender' \in [Senders -> SenderState] /\ sender'[s].pc = pc
           /\ \A r \in Senders \ {s} : sender'[r] = sender[r]
<1>1. sender \in [Senders -> SenderState] /\ sender[s] \in SenderState
  BY DEF DataTypeOK
<1>2. [sender[s] EXCEPT !.pc = pc] \in SenderState /\ [sender[s] EXCEPT !.pc = pc].pc = pc
  BY <1>1 DEF SenderState
<1> QED BY <1>1, <1>2 DEF SendTo

\* One analysis goes on, as v says, and its receipt and artifacts may change.
LEMMA AnalysisMoves ==
    ASSUME DataInv, NEW a \in Analyses, NEW v \in AnalysisState,
           analysis' = [analysis EXCEPT ![a] = v],
           receipt' \in [Analyses -> Receipt], artifact' \in [Analyses -> SUBSET Outputs],
           \A b \in Analyses \ {a} : receipt'[b] = receipt[b] /\ artifact'[b] = artifact[b],
           v.pc \in {"new", "saved", "child"} => artifact'[a] = {},
           v.pc # "new" => receipt'[a].status # "none",
           v.pc # "done" => receipt'[a].status # "completed",
           v.pc = "register" => /\ ~v.error /\ artifact'[a] \union v.next = v.outputs
                                /\ Cardinality(v.outputs) <= MaxOutputs,
           v.pc = "conclude" /\ ~v.error => /\ artifact'[a] = v.outputs
                                            /\ Cardinality(v.outputs) <= MaxOutputs,
           receipt'[a].status = "completed" => /\ artifact'[a] = v.outputs
                                               /\ Cardinality(v.outputs) <= MaxOutputs
                                               /\ receipt'[a].listed = v.outputs,
           UNCHANGED <<asset, stored, sender>>
    PROVE  DataInv'
<1>1. /\ analysis' \in [Analyses -> AnalysisState] /\ analysis'[a] = v
      /\ \A b \in Analyses \ {a} : analysis'[b] = analysis[b]
  BY DEF DataInv, DataTypeOK
<1>2. DataTypeOK'
  BY <1>1 DEF DataInv, DataTypeOK
<1>3. FilesAreKept'
  BY DEF DataInv, FilesAreKept
<1>4. AnalysesAreRecorded'
  <2> SUFFICES ASSUME NEW b \in Analyses
               PROVE  /\ analysis'[b].pc \in {"new", "saved", "child"} => artifact'[b] = {}
                      /\ analysis'[b].pc # "new" => receipt'[b].status # "none"
                      /\ analysis'[b].pc # "done" => receipt'[b].status # "completed"
                      /\ analysis'[b].pc = "register" =>
                            /\ ~analysis'[b].error
                            /\ artifact'[b] \union analysis'[b].next = analysis'[b].outputs
                            /\ Cardinality(analysis'[b].outputs) <= MaxOutputs
                      /\ analysis'[b].pc = "conclude" /\ ~analysis'[b].error => Complete(b)'
                      /\ receipt'[b].status = "completed" =>
                            Complete(b)' /\ receipt'[b].listed = analysis'[b].outputs
    BY DEF AnalysesAreRecorded
  <2>1. CASE b = a
    BY <1>1, <2>1 DEF Complete
  <2>2. CASE b # a
    BY <1>1, <2>2 DEF DataInv, AnalysesAreRecorded, Complete
  <2> QED BY <2>1, <2>2
<1> QED BY <1>2, <1>3, <1>4 DEF DataInv

\* The steps of uploads leave the analyses alone.
LEMMA UploadMoves ==
    ASSUME DataInv, asset' \in [Fingerprints -> Senders \union {NoFile}],
           stored' \in SUBSET Senders, sender' \in [Senders -> SenderState],
           FilesAreKept', UNCHANGED <<analysis, receipt, artifact>>
    PROVE  DataInv'
BY DEF DataInv, DataTypeOK, AnalysesAreRecorded, Complete

LEMMA DataInductive == DataInv /\ [DataNext]_dataVars => DataInv'
<1> SUFFICES ASSUME DataInv, [DataNext]_dataVars PROVE DataInv'
  OBVIOUS
<1>1. DataTypeOK /\ FilesAreKept /\ AnalysesAreRecorded
  BY DEF DataInv
<1>2. /\ asset \in [Fingerprints -> Senders \union {NoFile}] /\ stored \in SUBSET Senders
      /\ sender \in [Senders -> SenderState]
      /\ receipt \in [Analyses -> Receipt] /\ artifact \in [Analyses -> SUBSET Outputs]
      /\ \A s \in Senders : sender[s].content \in Fingerprints
  BY <1>1 DEF DataTypeOK, SenderState
<1>3. ASSUME NEW s \in Senders, LookForAsset(s) PROVE DataInv'
  <2>1. PICK pc \in {"write", "done"} : SendTo(s, pc)
    BY <1>3 DEF LookForAsset
  <2>2. sender' \in [Senders -> SenderState] /\ sender'[s].pc \notin {"parse", "insert"}
        /\ \A r \in Senders \ {s} : sender'[r] = sender[r]
    BY <1>1, <2>1, SenderMoves
  <2>3. FilesAreKept'
    BY <1>1, <1>2, <1>3, <2>2 DEF FilesAreKept, LookForAsset
  <2> QED BY <1>2, <1>3, <2>2, <2>3, UploadMoves DEF LookForAsset
<1>4. ASSUME NEW s \in Senders, WriteFile(s) PROVE DataInv'
  <2>1. sender' \in [Senders -> SenderState] /\ sender'[s].pc = "parse"
        /\ \A r \in Senders \ {s} : sender'[r] = sender[r]
    BY <1>1, <1>4, SenderMoves DEF WriteFile
  <2>2. FilesAreKept'
    BY <1>1, <1>2, <1>4, <2>1 DEF FilesAreKept, WriteFile
  <2>3. stored' \in SUBSET Senders
    BY <1>2, <1>4 DEF WriteFile
  <2> QED BY <1>2, <1>4, <2>1, <2>2, <2>3, UploadMoves DEF WriteFile
<1>5. ASSUME NEW s \in Senders, ParseFile(s) PROVE DataInv'
  <2>1. PICK pc \in {"insert", "drop", "done"} : SendTo(s, pc)
    BY <1>5 DEF ParseFile
  <2>2. sender' \in [Senders -> SenderState]
        /\ \A r \in Senders \ {s} : sender'[r] = sender[r]
    BY <1>1, <2>1, SenderMoves
  <2>3. FilesAreKept'
    BY <1>1, <1>2, <1>5, <2>2 DEF FilesAreKept, ParseFile
  <2> QED BY <1>2, <1>5, <2>2, <2>3, UploadMoves DEF ParseFile
<1>6. ASSUME NEW s \in Senders, InsertAsset(s) PROVE DataInv'
  <2> DEFINE x == sender[s].content
  <2>1. /\ x \in Fingerprints /\ sender[s].pc = "insert" /\ s \in stored
        /\ asset' = IF asset[x] = NoFile THEN [asset EXCEPT ![x] = s] ELSE asset
        /\ UNCHANGED <<stored, analysis, receipt, artifact>>
    BY <1>1, <1>2, <1>6 DEF InsertAsset, FilesAreKept
  <2>2. PICK pc \in {"done", "drop"} : SendTo(s, pc) /\ (asset'[x] = s => pc = "done")
    BY <1>6 DEF InsertAsset
  <2>3. sender' \in [Senders -> SenderState] /\ sender'[s].pc = pc
        /\ \A r \in Senders \ {s} : sender'[r] = sender[r]
    BY <1>1, <2>2, SenderMoves
  <2>4. asset' \in [Fingerprints -> Senders \union {NoFile}]
        /\ \A y \in Fingerprints : asset'[y] = asset[y] \/ (y = x /\ asset'[y] = s)
    BY <1>2, <2>1
  <2>5. \A y \in Fingerprints : asset[y] # NoFile => asset[y] # s
    BY <1>1, <2>1 DEF FilesAreKept
  <2> HIDE DEF x
  <2>6. FilesAreKept'
    <3>1. \A r \in Senders : sender'[r].pc \in {"parse", "insert"} => r \in stored'
      BY <1>1, <2>1, <2>3 DEF FilesAreKept
    <3>2. ASSUME NEW y \in Fingerprints, asset'[y] # NoFile
          PROVE  asset'[y] \in stored' /\ sender'[asset'[y]].pc = "done"
      <4>1. CASE asset'[y] = asset[y]
        BY <1>1, <1>2, <2>1, <2>3, <2>5, <3>2, <4>1 DEF FilesAreKept
      <4>2. CASE y = x /\ asset'[y] = s
        BY <2>1, <2>2, <2>3, <4>2
      <4> QED BY <2>4, <4>1, <4>2
    <3> QED BY <3>1, <3>2 DEF FilesAreKept
  <2> QED BY <1>2, <2>1, <2>3, <2>4, <2>6, UploadMoves
<1>7. ASSUME NEW s \in Senders, DropFile(s) PROVE DataInv'
  <2>1. sender' \in [Senders -> SenderState] /\ sender'[s].pc = "done"
        /\ \A r \in Senders \ {s} : sender'[r] = sender[r]
    BY <1>1, <1>7, SenderMoves DEF DropFile
  <2>2. FilesAreKept'
    BY <1>1, <1>2, <1>7, <2>1 DEF FilesAreKept, DropFile
  <2>3. stored' \in SUBSET Senders
    BY <1>2, <1>7 DEF DropFile
  <2> QED BY <1>2, <1>7, <2>1, <2>2, <2>3, UploadMoves DEF DropFile
<1>8. ASSUME NEW x \in Fingerprints, DeleteAsset(x) PROVE DataInv'
  <2>1. asset' \in [Fingerprints -> Senders \union {NoFile}] /\ FilesAreKept'
    BY <1>1, <1>2, <1>8 DEF DeleteAsset, FilesAreKept
  <2> QED BY <1>2, <1>8, <2>1, UploadMoves DEF DeleteAsset
<1>9. ASSUME NEW a \in Analyses
      PROVE  /\ analysis \in [Analyses -> AnalysisState] /\ analysis[a] \in AnalysisState
             /\ \A pc \in {"saved", "child", "register", "conclude", "done"} :
                   LET v == [analysis[a] EXCEPT !.pc = pc]
                   IN  /\ v \in AnalysisState /\ v.pc = pc
                       /\ v.error = analysis[a].error /\ v.next = analysis[a].next
                       /\ v.outputs = analysis[a].outputs
                       /\ AnalyzeTo(a, pc) => analysis' = [analysis EXCEPT ![a] = v]
  BY <1>1 DEF DataTypeOK, AnalysisState, AnalyzeTo
<1>10. ASSUME NEW a \in Analyses, NEW s \in {"failed", "completed"}, NEW l \in SUBSET Outputs,
              SaveReceipt(a, s, l)
       PROVE  /\ receipt' \in [Analyses -> Receipt]
              /\ receipt'[a].status = s /\ receipt'[a].listed = l
              /\ \A b \in Analyses \ {a} : receipt'[b] = receipt[b]
  BY <1>2, <1>10 DEF SaveReceipt, Receipt
<1>11. ASSUME NEW a \in Analyses, BeginAnalysis(a) PROVE DataInv'
  <2> DEFINE v == [analysis[a] EXCEPT !.pc = "saved"]
  <2>1. v \in AnalysisState /\ v.pc = "saved" /\ analysis' = [analysis EXCEPT ![a] = v]
    BY <1>9, <1>11 DEF BeginAnalysis
  <2>2. /\ receipt' \in [Analyses -> Receipt] /\ receipt'[a].status = "failed"
        /\ \A b \in Analyses \ {a} : receipt'[b] = receipt[b]
    BY <1>10, <1>11 DEF BeginAnalysis
  <2>3. artifact[a] = {} /\ UNCHANGED <<asset, stored, sender, artifact>>
    BY <1>1, <1>11 DEF BeginAnalysis, AnalysesAreRecorded
  <2> HIDE DEF v
  <2> QED BY <1>2, <2>1, <2>2, <2>3, AnalysisMoves
<1>12. ASSUME NEW a \in Analyses, CheckCode(a) PROVE DataInv'
  <2>1. /\ artifact[a] = {} /\ receipt[a].status \notin {"none", "completed"}
        /\ UNCHANGED <<asset, stored, sender, artifact>>
    BY <1>1, <1>12 DEF CheckCode, AnalysesAreRecorded
  <2>2. PICK pc \in {"child", "done"} :
           AnalyzeTo(a, pc) /\ (UNCHANGED receipt \/ SaveReceipt(a, "failed", {}))
    BY <1>12 DEF CheckCode
  <2> DEFINE v == [analysis[a] EXCEPT !.pc = pc]
  <2>3. v \in AnalysisState /\ v.pc = pc /\ analysis' = [analysis EXCEPT ![a] = v]
    <3>1. analysis \in [Analyses -> AnalysisState] /\ analysis[a] \in AnalysisState
      BY <1>9
    <3>2. v \in AnalysisState /\ v.pc = pc
      BY <3>1 DEF AnalysisState
    <3> QED BY <2>2, <3>1, <3>2 DEF AnalyzeTo
  <2>4. /\ receipt' \in [Analyses -> Receipt] /\ receipt'[a].status \notin {"none", "completed"}
        /\ \A b \in Analyses \ {a} : receipt'[b] = receipt[b]
    BY <1>2, <1>10, <2>1, <2>2
  <2> HIDE DEF v
  <2> QED BY <1>2, <2>1, <2>3, <2>4, AnalysisMoves
<1>13. ASSUME NEW a \in Analyses, RunChild(a) PROVE DataInv'
  <2>1. /\ artifact[a] = {} /\ receipt[a].status \notin {"none", "completed"}
        /\ UNCHANGED <<asset, stored, sender, receipt, artifact>>
    BY <1>1, <1>13 DEF RunChild, AnalysesAreRecorded
  <2>2. PICK left \in SUBSET Outputs, failed \in BOOLEAN :
           LET error == failed \/ Cardinality(left) > MaxOutputs
           IN  analysis' = [analysis EXCEPT ![a].outputs = left, ![a].next = left,
                               ![a].error = error,
                               ![a].pc = IF error THEN "conclude" ELSE "register"]
    BY <1>13 DEF RunChild
  <2> DEFINE error == failed \/ Cardinality(left) > MaxOutputs
             v == [analysis[a] EXCEPT !.outputs = left, !.next = left, !.error = error,
                                      !.pc = IF error THEN "conclude" ELSE "register"]
  <2>3. /\ v \in AnalysisState /\ analysis' = [analysis EXCEPT ![a] = v]
        /\ v.outputs = left /\ v.next = left
        /\ error => v.pc = "conclude" /\ v.error
        /\ ~error => v.pc = "register" /\ ~v.error
    <3>1. analysis \in [Analyses -> AnalysisState] /\ analysis[a] \in AnalysisState
      BY <1>9
    <3>2. error \in BOOLEAN
      OBVIOUS
    <3>3. analysis' = [analysis EXCEPT ![a] = v]
      BY <2>2, <3>1
    <3> HIDE DEF error
    <3>4. /\ v \in AnalysisState /\ v.outputs = left /\ v.next = left
          /\ v.error = error /\ v.pc = IF error THEN "conclude" ELSE "register"
      BY <3>1, <3>2 DEF AnalysisState
    <3> QED BY <3>2, <3>3, <3>4
  <2>4. ~error => Cardinality(left) <= MaxOutputs
    BY FS_Subset, FS_CardinalityType
  <2> HIDE DEF v, error
  <2> QED BY <1>2, <2>1, <2>3, <2>4, AnalysisMoves
<1>14. ASSUME NEW a \in Analyses, RegisterArtifact(a) PROVE DataInv'
  <2>1. /\ receipt[a].status \notin {"none", "completed"}
        /\ ~analysis[a].error /\ artifact[a] \union analysis[a].next = analysis[a].outputs
        /\ Cardinality(analysis[a].outputs) <= MaxOutputs
        /\ UNCHANGED <<asset, stored, sender, receipt>>
    BY <1>1, <1>14 DEF RegisterArtifact, AnalysesAreRecorded
  <2>2. CASE analysis[a].next = {} /\ AnalyzeTo(a, "conclude") /\ UNCHANGED artifact
    <3> DEFINE v == [analysis[a] EXCEPT !.pc = "conclude"]
    <3>1. /\ v \in AnalysisState /\ v.pc = "conclude" /\ v.outputs = analysis[a].outputs
          /\ analysis' = [analysis EXCEPT ![a] = v]
      BY <1>9, <2>2
    <3>2. artifact[a] = analysis[a].outputs
      BY <2>1, <2>2
    <3> HIDE DEF v
    <3> QED BY <1>2, <2>1, <2>2, <3>1, <3>2, AnalysisMoves
  <2>3. ASSUME NEW o \in analysis[a].next,
               artifact' = [artifact EXCEPT ![a] = @ \union {o}],
               analysis' = [analysis EXCEPT ![a].next = @ \ {o}]
        PROVE  DataInv'
    <3> DEFINE v == [analysis[a] EXCEPT !.next = analysis[a].next \ {o}]
    <3>1. /\ v \in AnalysisState /\ v.pc = "register" /\ ~v.error
          /\ v.outputs = analysis[a].outputs /\ v.next = analysis[a].next \ {o}
          /\ analysis' = [analysis EXCEPT ![a] = v] /\ o \in Outputs
      BY <1>9, <1>14, <2>1, <2>3 DEF RegisterArtifact, AnalysisState
    <3> HIDE DEF v
    <3>2. /\ artifact' \in [Analyses -> SUBSET Outputs]
          /\ artifact'[a] = artifact[a] \union {o}
          /\ \A b \in Analyses \ {a} : artifact'[b] = artifact[b]
      BY <1>2, <2>3, <3>1
    <3>3. artifact'[a] \union v.next = v.outputs
      BY <2>1, <2>3, <3>1, <3>2
    <3> QED BY <1>2, <2>1, <3>1, <3>2, <3>3, AnalysisMoves
  <2>4. CASE /\ analysis' = [analysis EXCEPT ![a].pc = "conclude", ![a].error = TRUE]
             /\ UNCHANGED artifact
    <3> DEFINE v == [analysis[a] EXCEPT !.pc = "conclude", !.error = TRUE]
    <3>1. /\ v \in AnalysisState /\ v.pc = "conclude" /\ v.error
          /\ analysis' = [analysis EXCEPT ![a] = v]
      BY <1>9, <2>4 DEF AnalysisState
    <3> HIDE DEF v
    <3> QED BY <1>2, <2>1, <2>4, <3>1, AnalysisMoves
  <2> QED BY <1>14, <2>2, <2>3, <2>4 DEF RegisterArtifact
<1>15. ASSUME NEW a \in Analyses, ConcludeAnalysis(a) PROVE DataInv'
  <2> DEFINE v == [analysis[a] EXCEPT !.pc = "done"]
  <2>1. /\ v \in AnalysisState /\ v.pc = "done" /\ v.outputs = analysis[a].outputs
        /\ analysis' = [analysis EXCEPT ![a] = v]
    BY <1>9, <1>15 DEF ConcludeAnalysis
  <2>2. /\ receipt[a].status \notin {"none", "completed"}
        /\ ~analysis[a].error => /\ artifact[a] = analysis[a].outputs
                                 /\ Cardinality(analysis[a].outputs) <= MaxOutputs
        /\ UNCHANGED <<asset, stored, sender, artifact>>
    BY <1>1, <1>15 DEF ConcludeAnalysis, AnalysesAreRecorded, Complete
  <2> HIDE DEF v
  <2>3. CASE UNCHANGED receipt
    BY <1>2, <2>1, <2>2, <2>3, AnalysisMoves
  <2>4. CASE SaveReceipt(a, FinalStatus(a), artifact[a])
    <3>1. /\ receipt' \in [Analyses -> Receipt]
          /\ receipt'[a].status = FinalStatus(a) /\ receipt'[a].listed = artifact[a]
          /\ \A b \in Analyses \ {a} : receipt'[b] = receipt[b]
      BY <1>2, <1>10, <2>4 DEF FinalStatus
    <3>2. FinalStatus(a) # "none" /\ (FinalStatus(a) = "completed" => ~analysis[a].error)
      BY DEF FinalStatus
    <3> QED BY <1>2, <2>1, <2>2, <3>1, <3>2, AnalysisMoves
  <2> QED BY <1>15, <2>3, <2>4 DEF ConcludeAnalysis
<1>16. CASE UNCHANGED dataVars
  BY <1>1, <1>16 DEF dataVars, DataInv, DataTypeOK, FilesAreKept, AnalysesAreRecorded, Complete
<1> QED
  BY <1>3, <1>4, <1>5, <1>6, <1>7, <1>8, <1>11, <1>12, <1>13, <1>14, <1>15, <1>16 DEF DataNext

-----------------------------------------------------------------------------
(* Theorems.                                                                *)

LEMMA DataInitially == DataInit => DataInv
<1> SUFFICES ASSUME DataInit PROVE DataInv
  OBVIOUS
<1>1. /\ sender \in [Senders -> SenderState] /\ \A s \in Senders : sender[s].pc = "new"
  BY DEF DataInit, SenderState
<1>2. /\ analysis \in [Analyses -> AnalysisState]
      /\ \A a \in Analyses : analysis[a].pc = "new"
  BY DEF DataInit, AnalysisState
<1>3. receipt \in [Analyses -> Receipt] /\ \A a \in Analyses : receipt[a].status = "none"
  BY DEF DataInit, Receipt
<1>4. /\ asset \in [Fingerprints -> Senders \union {NoFile}] /\ stored = {}
      /\ \A x \in Fingerprints : asset[x] = NoFile
      /\ artifact \in [Analyses -> SUBSET Outputs] /\ \A a \in Analyses : artifact[a] = {}
  BY DEF DataInit
<1> QED BY <1>1, <1>2, <1>3, <1>4 DEF DataInv, DataTypeOK, FilesAreKept, AnalysesAreRecorded

\* Datasets, files, analyses and receipts keep to their types.
THEOREM DataTypeCorrect == DataSpec => []DataTypeOK
<1>1. DataInv => DataTypeOK
  BY DEF DataInv
<1> QED BY <1>1, DataInitially, DataInductive, PTL DEF DataSpec

\* Every dataset has its file, and a completed receipt lists exactly what its
\* child left, all of it registered, whichever step fails or dies.
THEOREM RegistriesAreWholeHolds == DataSpec => []RegistriesAreWhole
<1>1. DataInv => RegistriesAreWhole
  <2> SUFFICES ASSUME DataInv PROVE RegistriesAreWhole
    OBVIOUS
  <2>1. RowsHaveFiles
    BY DEF DataInv, FilesAreKept, RowsHaveFiles
  <2>2. ArtifactsAreAccounted
    <3>1. \A a \in Analyses : analysis[a] \in AnalysisState
      BY DEF DataInv, DataTypeOK
    <3> QED BY <3>1 DEF DataInv, AnalysesAreRecorded, Complete, ArtifactsAreAccounted, AnalysisState
  <2> QED BY <2>1, <2>2 DEF RegistriesAreWhole
<1> QED BY <1>1, DataInitially, DataInductive, PTL DEF DataSpec

-----------------------------------------------------------------------------
(* Ingestion: the inductive invariant.                                      *)

\* The part of ingest that holds the lock of its file.
Locking == {"reuse", "reload", "mark", "place", "build", "move", "load", "undo", "failed", "ready"}

LocksAreHeld ==
    \A i \in Uploads : upload[i].pc \in Locking => fileLock[ProcessOf[i]][FileOf(i)] = i

\* Two processes at one file are remembered.
LocksAreApart ==
    \A f \in Pdfs \ shared : \A p, q \in Procs :
        fileLock[p][f] # "free" /\ fileLock[q][f] # "free" => p = q

\* What an upload under the lock may rely on: the index that it has found or
\* built, the PDF that it has found or placed, and that the row of a file
\* without an index does not say ready.
UploadsAreRight ==
    \A i \in Uploads :
        /\ upload[i].pc \in {"reuse", "reload", "load", "ready"} => index[FileOf(i)]
        /\ upload[i].pc \in Locking /\ FileOf(i) \notin shared =>
              /\ upload[i].pc \in {"reload", "build", "move", "load", "ready"} => pdf[FileOf(i)]
              /\ upload[i].pc \in {"mark", "place", "build", "move", "load", "undo"} =>
                    indexRow[FileOf(i)].status # "ready"

IngestInv ==
    /\ IngestTypeOK /\ IngestSound
    /\ LocksAreHeld /\ LocksAreApart /\ UploadsAreRight

LEMMA UploadTypes ==
    /\ NoUpload \in UploadState /\ NoUpload.pc = "idle"
    /\ \A f \in Pdfs : [pc |-> "received", file |-> f, created |-> FALSE] \in UploadState
    /\ \A v \in UploadState : v.pc # "idle" =>
          /\ v.file \in Pdfs /\ v.created \in BOOLEAN
          /\ \A pc \in {"received", "validate", "enter", "reuse", "reload", "mark", "place", "build",
                        "move", "load", "undo", "failed", "ready", "failing"}, c \in BOOLEAN :
                /\ [v EXCEPT !.pc = pc] \in UploadState
                /\ [v EXCEPT !.pc = pc, !.created = c] \in UploadState
<1>1. NoUpload \in UploadState /\ NoUpload.pc = "idle"
  BY DEF UploadState, NoUpload
<1>2. \A f \in Pdfs : [pc |-> "received", file |-> f, created |-> FALSE] \in UploadState
  BY DEF UploadState
<1>3. ASSUME NEW v \in UploadState, v.pc # "idle"
      PROVE  /\ v.file \in Pdfs /\ v.created \in BOOLEAN
             /\ \A pc \in {"received", "validate", "enter", "reuse", "reload", "mark", "place",
                           "build", "move", "load", "undo", "failed", "ready", "failing"},
                   c \in BOOLEAN :
                   /\ [v EXCEPT !.pc = pc] \in UploadState
                   /\ [v EXCEPT !.pc = pc, !.created = c] \in UploadState
  <2> DEFINE PCs == {"received", "validate", "enter", "reuse", "reload", "mark", "place", "build",
                     "move", "load", "undo", "failed", "ready", "failing"}
  <2>1. v \in [pc : PCs, file : Pdfs, created : BOOLEAN]
    BY <1>3 DEF UploadState, NoUpload
  <2>2. \A w \in [pc : PCs, file : Pdfs, created : BOOLEAN] : w \in UploadState
    BY DEF UploadState
  <2> HIDE DEF PCs
  <2>3. /\ v.file \in Pdfs /\ v.created \in BOOLEAN
        /\ \A pc \in PCs, c \in BOOLEAN :
              /\ [v EXCEPT !.pc = pc] \in [pc : PCs, file : Pdfs, created : BOOLEAN]
              /\ [v EXCEPT !.pc = pc, !.created = c] \in [pc : PCs, file : Pdfs, created : BOOLEAN]
    BY <2>1
  <2>4. ASSUME NEW pc \in PCs, NEW c \in BOOLEAN
        PROVE  /\ [v EXCEPT !.pc = pc] \in UploadState
               /\ [v EXCEPT !.pc = pc, !.created = c] \in UploadState
    BY <2>2, <2>3
  <2> QED BY <2>3, <2>4 DEF PCs
<1> QED BY <1>1, <1>2, <1>3

\* An upload that goes on keeps its file, the others stay where they are.
LEMMA UploadGoes ==
    ASSUME IngestTypeOK, NEW i \in Uploads, upload[i].pc # "idle",
           NEW pc \in {"received", "validate", "enter", "reuse", "reload", "mark", "place",
                       "build", "move", "load", "undo", "failed", "ready", "failing"},
           Goto(i, pc)
    PROVE  /\ upload' \in [Uploads -> UploadState]
           /\ upload'[i].pc = pc /\ FileOf(i)' = FileOf(i)
           /\ upload'[i].created = upload[i].created
           /\ \A j \in Uploads \ {i} : upload'[j] = upload[j]
<1>1. upload \in [Uploads -> UploadState] /\ [upload[i] EXCEPT !.pc = pc] \in UploadState
  BY UploadTypes DEF IngestTypeOK
<1>2. upload' = [upload EXCEPT ![i] = [upload[i] EXCEPT !.pc = pc]]
  BY DEF Goto
<1>3. upload[i].pc # "idle" => upload[i].file \in Pdfs
  BY <1>1, UploadTypes
<1>4. [upload[i] EXCEPT !.pc = pc].pc = pc /\ [upload[i] EXCEPT !.pc = pc].file = upload[i].file
      /\ [upload[i] EXCEPT !.pc = pc].created = upload[i].created
  BY <1>1 DEF UploadState, NoUpload
<1> QED BY <1>1, <1>2, <1>4 DEF FileOf

\* An upload that leaves.
LEMMA UploadLeaves ==
    ASSUME IngestTypeOK, NEW i \in Uploads, Leaves(i)
    PROVE  /\ upload' \in [Uploads -> UploadState] /\ upload'[i].pc = "idle"
           /\ \A j \in Uploads \ {i} : upload'[j] = upload[j]
BY UploadTypes DEF IngestTypeOK, Leaves

\* Of the uploads at a file that two processes never shared one holds the lock.
LEMMA OneAtWork ==
    ASSUME IngestInv, NEW i \in Uploads, NEW j \in Uploads,
           upload[i].pc \in Locking, upload[j].pc \in Locking,
           FileOf(i) = FileOf(j), FileOf(i) \notin shared
    PROVE  i = j
<1>1. /\ fileLock[ProcessOf[i]][FileOf(i)] = i /\ fileLock[ProcessOf[j]][FileOf(i)] = j
      /\ i # "free" /\ j # "free"
  BY DEF IngestInv, LocksAreHeld
<1>2. ProcessOf[i] \in Procs /\ ProcessOf[j] \in Procs /\ FileOf(i) \in Pdfs
  BY UploadTypes DEF Procs, IngestInv, IngestTypeOK, FileOf, Locking
<1>3. ProcessOf[i] = ProcessOf[j]
  BY <1>1, <1>2 DEF IngestInv, LocksAreApart
<1> QED BY <1>1, <1>3

\* What a step of one upload may do to the row, the PDF and the index of its
\* file, and what it has to establish for itself.
LEMMA UploadStep ==
    ASSUME IngestInv, NEW i \in Uploads, NEW f \in Pdfs,
           IngestTypeOK', LocksAreHeld', LocksAreApart', running' = running,
           \A j \in Uploads \ {i} : upload'[j] = upload[j],
           \A g \in Pdfs \ {f} :
              indexRow'[g] = indexRow[g] /\ pdf'[g] = pdf[g] /\ index'[g] = index[g],
           index[f] => index'[f], shared \subseteq shared',
           upload[i].pc # "idle" => FileOf(i) = f,
           upload'[i].pc # "idle" => FileOf(i)' = f,
           \/ upload'[i].pc # "idle" /\ indexRow'[f] = indexRow[f]
           \/ /\ upload'[i].pc # "idle" /\ indexRow'[f].status \in InProgress
              /\ indexRow'[f].owner = ProcessOf[i]
           \/ indexRow'[f].status = "failed"
           \/ /\ indexRow'[f].status = "ready" /\ upload[i].pc = "ready"
              /\ UNCHANGED <<pdf, index, shared>>,
           pdf[f] /\ ~pdf'[f] => upload[i].pc = "undo",
           upload'[i].pc \in {"reuse", "reload", "load", "ready"} => index'[f],
           upload'[i].pc \in Locking /\ f \notin shared' =>
              /\ upload'[i].pc \in {"reload", "build", "move", "load", "ready"} => pdf'[f]
              /\ upload'[i].pc \in {"mark", "place", "build", "move", "load", "undo"} =>
                    indexRow'[f].status # "ready"
    PROVE  IngestInv'
<1>1. \A j \in Uploads : upload[j].pc # "idle" => FileOf(j) \in Pdfs
  BY UploadTypes DEF IngestInv, IngestTypeOK, FileOf
<1>2. \A j \in Uploads \ {i} : upload'[j] = upload[j] /\ FileOf(j)' = FileOf(j)
  BY DEF FileOf
<1>3. ASSUME NEW j \in Uploads \ {i}, upload[j].pc \in Locking, FileOf(j) = f, f \notin shared
      PROVE  upload[i].pc \notin {"undo", "ready"}
  <2>1. upload[i].pc \notin Locking
    BY <1>3, OneAtWork DEF Locking
  <2> QED BY <2>1 DEF Locking
<1>4. ReadyIsIndexed'
  <2>1. ASSUME NEW g \in Pdfs, indexRow'[g].status = "ready"
        PROVE  index'[g] /\ (pdf'[g] \/ g \in shared')
    <3>1. CASE g # f
      BY <2>1, <3>1 DEF IngestInv, IngestSound, ReadyIsIndexed
    <3>2. CASE g = f /\ indexRow'[f] = indexRow[f]
      <4>1. index[f] /\ (pdf[f] \/ f \in shared)
        BY <2>1, <3>2 DEF IngestInv, IngestSound, ReadyIsIndexed
      <4>2. upload[i].pc = "undo" => f \in shared
        BY <2>1, <3>2 DEF IngestInv, UploadsAreRight, Locking
      <4> QED BY <3>2, <4>1, <4>2
    <3>3. CASE g = f /\ indexRow'[f] # indexRow[f]
      <4>1. upload[i].pc = "ready" /\ UNCHANGED <<pdf, index, shared>>
        BY <2>1, <3>3 DEF InProgress
      <4> QED BY <3>3, <4>1 DEF IngestInv, UploadsAreRight, Locking
    <3> QED BY <3>1, <3>2, <3>3
  <2> QED BY <2>1 DEF ReadyIsIndexed
<1>5. ProgressHasAnOwner'
  <2>1. ASSUME NEW g \in Pdfs, OwnRegistry, indexRow'[g].status \in InProgress,
               indexRow'[g].owner \in running
        PROVE  \E j \in Uploads : /\ ProcessOf[j] = indexRow'[g].owner
                                  /\ upload'[j].pc # "idle" /\ FileOf(j)' = g
    <3>1. CASE g = f
      <4>1. CASE indexRow'[f] = indexRow[f]
        <5>1. upload'[i].pc # "idle"
          BY <2>1, <3>1 DEF InProgress
        <5>2. PICK j \in Uploads : /\ ProcessOf[j] = indexRow[f].owner
                                   /\ upload[j].pc # "idle" /\ FileOf(j) = f
          BY <2>1, <3>1, <4>1 DEF IngestInv, IngestSound, ProgressHasAnOwner, At
        <5> QED BY <1>2, <3>1, <4>1, <5>1, <5>2
      <4>2. CASE indexRow'[f] # indexRow[f]
        BY <2>1, <3>1, <4>2 DEF InProgress
      <4> QED BY <4>1, <4>2
    <3>2. CASE g # f
      <4>1. PICK j \in Uploads : /\ ProcessOf[j] = indexRow[g].owner
                                 /\ upload[j].pc # "idle" /\ FileOf(j) = g
        BY <2>1, <3>2 DEF IngestInv, IngestSound, ProgressHasAnOwner, At
      <4>2. j # i
        BY <3>2, <4>1
      <4> QED BY <1>2, <3>2, <4>1, <4>2
    <3> QED BY <3>1, <3>2
  <2> QED BY <2>1 DEF ProgressHasAnOwner, At
<1>6. ASSUME NEW j \in Uploads
      PROVE  /\ upload'[j].pc \in {"reuse", "reload", "load", "ready"} => index'[FileOf(j)']
             /\ upload'[j].pc \in Locking /\ FileOf(j)' \notin shared' =>
                   /\ upload'[j].pc \in {"reload", "build", "move", "load", "ready"} => pdf'[FileOf(j)']
                   /\ upload'[j].pc \in {"mark", "place", "build", "move", "load", "undo"} =>
                         indexRow'[FileOf(j)'].status # "ready"
  <2>1. CASE j = i
    BY <2>1 DEF Locking
  <2>2. CASE j # i /\ upload[j].pc \in Locking /\ FileOf(j) = f
    BY <1>2, <1>3, <2>2 DEF IngestInv, UploadsAreRight, InProgress
  <2>3. CASE j # i /\ upload[j].pc \in Locking /\ FileOf(j) # f
    <3>1. upload'[j] = upload[j] /\ FileOf(j)' = FileOf(j) /\ FileOf(j) \in Pdfs \ {f}
      BY <1>1, <1>2, <2>3 DEF Locking
    <3> QED BY <2>3, <3>1 DEF IngestInv, UploadsAreRight
  <2>4. CASE j # i /\ upload[j].pc \notin Locking
    BY <1>2, <2>4 DEF Locking
  <2> QED BY <2>1, <2>2, <2>3, <2>4
<1>7. UploadsAreRight'
  BY <1>6 DEF UploadsAreRight
<1> QED BY <1>4, <1>5, <1>7 DEF IngestInv, IngestSound

\* The locks, as long as an upload under the lock goes on or lets it go.
LEMMA LocksStay ==
    ASSUME IngestInv, NEW i \in Uploads, UNCHANGED <<fileLock, shared>>,
           \A j \in Uploads \ {i} : upload'[j] = upload[j],
           upload'[i].pc \in Locking => upload[i].pc \in Locking /\ FileOf(i)' = FileOf(i)
    PROVE  LocksAreHeld' /\ LocksAreApart'
BY DEF IngestInv, LocksAreHeld, LocksAreApart, FileOf

LEMMA LockIsFreed ==
    ASSUME IngestInv, NEW i \in Uploads, upload[i].pc \in Locking, Unlock(i), UNCHANGED shared,
           \A j \in Uploads \ {i} : upload'[j] = upload[j], upload'[i].pc \notin Locking
    PROVE  /\ fileLock' \in [Procs -> [Pdfs -> Uploads \union {"free"}]]
           /\ LocksAreHeld' /\ LocksAreApart'
<1> DEFINE p == ProcessOf[i]
           f == FileOf(i)
<1>1. p \in Procs /\ f \in Pdfs /\ fileLock \in [Procs -> [Pdfs -> Uploads \union {"free"}]]
  BY UploadTypes DEF Procs, IngestInv, IngestTypeOK, FileOf, Locking
<1>2. fileLock' = [fileLock EXCEPT ![p] = [fileLock[p] EXCEPT ![f] = "free"]]
  BY DEF Unlock
<1>3. fileLock[p][f] = i
  BY DEF IngestInv, LocksAreHeld
<1>4. \A j \in Uploads : upload[j].pc \in Locking => ProcessOf[j] \in Procs /\ FileOf(j) \in Pdfs
  BY UploadTypes DEF Procs, IngestInv, IngestTypeOK, FileOf, Locking
<1> HIDE DEF p, f
<1>5. /\ fileLock' \in [Procs -> [Pdfs -> Uploads \union {"free"}]]
      /\ \A q \in Procs, g \in Pdfs :
            fileLock'[q][g] = IF q = p /\ g = f THEN "free" ELSE fileLock[q][g]
  <2>1. [fileLock[p] EXCEPT ![f] = "free"] \in [Pdfs -> Uploads \union {"free"}]
    BY <1>1
  <2>2. fileLock' \in [Procs -> [Pdfs -> Uploads \union {"free"}]]
    BY <1>1, <1>2, <2>1
  <2>3. \A q \in Procs : fileLock'[q] = IF q = p THEN [fileLock[p] EXCEPT ![f] = "free"] ELSE fileLock[q]
    BY <1>1, <1>2
  <2>4. \A g \in Pdfs : [fileLock[p] EXCEPT ![f] = "free"][g] = IF g = f THEN "free" ELSE fileLock[p][g]
    BY <1>1
  <2> QED BY <2>2, <2>3, <2>4
<1>6. LocksAreApart'
  BY <1>5 DEF IngestInv, LocksAreApart
<1>7. ASSUME NEW j \in Uploads, upload'[j].pc \in Locking
      PROVE  fileLock'[ProcessOf[j]][FileOf(j)'] = j
  <2>1. j # i /\ upload[j].pc \in Locking /\ FileOf(j)' = FileOf(j)
    BY <1>7 DEF FileOf
  <2>2. fileLock[ProcessOf[j]][FileOf(j)] = j
    BY <2>1 DEF IngestInv, LocksAreHeld
  <2> QED BY <1>3, <1>4, <1>5, <2>1, <2>2
<1>8. LocksAreHeld'
  BY <1>7 DEF LocksAreHeld
<1> QED BY <1>5, <1>6, <1>8

LEMMA LockIsTaken ==
    ASSUME IngestInv, NEW i \in Uploads, EnterFile(i)
    PROVE  /\ fileLock' \in [Procs -> [Pdfs -> Uploads \union {"free"}]]
           /\ shared' \in SUBSET Pdfs /\ shared \subseteq shared'
           /\ LocksAreHeld' /\ LocksAreApart'
<1> DEFINE p == ProcessOf[i]
           f == FileOf(i)
<1>1. /\ p \in Procs /\ f \in Pdfs /\ fileLock \in [Procs -> [Pdfs -> Uploads \union {"free"}]]
      /\ shared \in SUBSET Pdfs
  BY UploadTypes DEF Procs, IngestInv, IngestTypeOK, FileOf, EnterFile, At
<1>2. fileLock' = [fileLock EXCEPT ![p] = [fileLock[p] EXCEPT ![f] = i]]
  BY DEF EnterFile
<1>3. fileLock[p][f] = "free"
  BY DEF EnterFile, FileIsFree
<1>4. shared' = IF \E q \in Procs \ {p} : fileLock[q][f] # "free" THEN shared \union {f} ELSE shared
  BY DEF EnterFile
<1>5. \A j \in Uploads : upload[j].pc \in Locking => ProcessOf[j] \in Procs /\ FileOf(j) \in Pdfs
  BY UploadTypes DEF Procs, IngestInv, IngestTypeOK, FileOf, Locking
<1>6. FileOf(i)' = f /\ \A j \in Uploads \ {i} : upload'[j] = upload[j] /\ FileOf(j)' = FileOf(j)
  BY UploadGoes DEF IngestInv, EnterFile, At, FileOf
<1> HIDE DEF p, f
<1>7. /\ fileLock' \in [Procs -> [Pdfs -> Uploads \union {"free"}]]
      /\ \A q \in Procs, g \in Pdfs :
            fileLock'[q][g] = IF q = p /\ g = f THEN i ELSE fileLock[q][g]
  <2>1. [fileLock[p] EXCEPT ![f] = i] \in [Pdfs -> Uploads \union {"free"}]
    BY <1>1
  <2>2. fileLock' \in [Procs -> [Pdfs -> Uploads \union {"free"}]]
    BY <1>1, <1>2, <2>1
  <2>3. \A q \in Procs : fileLock'[q] = IF q = p THEN [fileLock[p] EXCEPT ![f] = i] ELSE fileLock[q]
    BY <1>1, <1>2
  <2>4. \A g \in Pdfs : [fileLock[p] EXCEPT ![f] = i][g] = IF g = f THEN i ELSE fileLock[p][g]
    BY <1>1
  <2> QED BY <2>2, <2>3, <2>4
<1>8. ASSUME NEW g \in Pdfs, g \notin shared', NEW q \in Procs, NEW r \in Procs,
             fileLock'[q][g] # "free", fileLock'[r][g] # "free"
      PROVE  q = r
  <2>1. g \notin shared
    BY <1>4, <1>8
  <2>2. CASE g # f
    BY <1>7, <1>8, <2>1, <2>2 DEF IngestInv, LocksAreApart
  <2>3. CASE g = f
    <3>1. \A t \in Procs \ {p} : fileLock[t][f] = "free"
      BY <1>4, <1>8, <2>3
    <3> QED BY <1>7, <1>8, <2>3, <3>1
  <2> QED BY <2>2, <2>3
<1>9. ASSUME NEW j \in Uploads, upload'[j].pc \in Locking
      PROVE  fileLock'[ProcessOf[j]][FileOf(j)'] = j
  <2>1. CASE j = i
    BY <1>1, <1>6, <1>7, <2>1 DEF p
  <2>2. CASE j # i
    <3>1. upload[j].pc \in Locking /\ FileOf(j)' = FileOf(j)
      BY <1>6, <1>9, <2>2
    <3>2. fileLock[ProcessOf[j]][FileOf(j)] = j /\ j # "free"
      BY <3>1 DEF IngestInv, LocksAreHeld
    <3> QED BY <1>3, <1>5, <1>7, <3>1, <3>2
  <2> QED BY <2>1, <2>2
<1> QED BY <1>1, <1>4, <1>7, <1>8, <1>9 DEF LocksAreHeld, LocksAreApart

LEMMA IngestInductive == IngestInv /\ [IngestNext]_ingestVars => IngestInv'
<1> SUFFICES ASSUME IngestInv, [IngestNext]_ingestVars PROVE IngestInv'
  OBVIOUS
<1>1. /\ indexRow \in [Pdfs -> [status : InProgress \union {"none", "ready", "failed"},
                              owner : Procs \union {"none"}]]
      /\ pdf \in [Pdfs -> BOOLEAN] /\ index \in [Pdfs -> BOOLEAN]
      /\ fileLock \in [Procs -> [Pdfs -> Uploads \union {"free"}]]
      /\ upload \in [Uploads -> UploadState]
      /\ running \in SUBSET Procs /\ deaths \in 0..MaxDeaths
      /\ shared \in SUBSET Pdfs
  BY DEF IngestInv, IngestTypeOK
<1>2. \A i \in Uploads : ProcessOf[i] \in Procs /\ (upload[i].pc # "idle" => FileOf(i) \in Pdfs)
  BY <1>1, UploadTypes DEF Procs, FileOf
<1>3. ASSUME NEW i \in Uploads, NEW status \in {"validating", "indexing", "ready", "failed"},
             upload[i].pc # "idle", SetStatusRow(i, status)
      PROVE  /\ indexRow' \in [Pdfs -> [status : InProgress \union {"none", "ready", "failed"},
                                      owner : Procs \union {"none"}]]
             /\ indexRow'[FileOf(i)].status = status
             /\ status \in InProgress => indexRow'[FileOf(i)].owner = ProcessOf[i]
             /\ \A f \in Pdfs \ {FileOf(i)} : indexRow'[f] = indexRow[f]
  <2> DEFINE row == [status |-> status, owner |-> IF status \in InProgress THEN ProcessOf[i] ELSE "none"]
  <2>1. row \in [status : InProgress \union {"none", "ready", "failed"}, owner : Procs \union {"none"}]
    BY <1>2 DEF InProgress
  <2>2. FileOf(i) \in Pdfs /\ indexRow' = [indexRow EXCEPT ![FileOf(i)] = row]
    BY <1>2, <1>3 DEF SetStatusRow
  <2>3. row.status = status /\ (status \in InProgress => row.owner = ProcessOf[i])
    OBVIOUS
  <2> HIDE DEF row
  <2> QED BY <1>1, <2>1, <2>2, <2>3
<1>4. ASSUME NEW i \in Uploads, NEW f \in Pdfs, Receive(i, f) PROVE IngestInv'
  <2>1. /\ upload' \in [Uploads -> UploadState] /\ FileOf(i)' = f
        /\ upload[i].pc = "idle" /\ upload'[i].pc = "received"
        /\ \A j \in Uploads \ {i} : upload'[j] = upload[j]
    BY <1>1, <1>4, UploadTypes DEF Receive, At, FileOf
  <2>2. UNCHANGED <<indexRow, pdf, index, fileLock, running, deaths, shared>>
    BY <1>4 DEF Receive
  <2>3. IngestTypeOK' /\ LocksAreHeld' /\ LocksAreApart'
    BY <1>1, <2>1, <2>2, LocksStay DEF IngestTypeOK, Locking
  <2> QED BY <2>1, <2>2, <2>3, UploadStep DEF Locking
<1>5. ASSUME NEW i \in Uploads, MarkValidating(i) PROVE IngestInv'
  <2>1. /\ upload[i].pc = "received" /\ SetStatusRow(i, "validating")
        /\ UNCHANGED <<pdf, index, fileLock, running, deaths, shared>>
        /\ upload' \in [Uploads -> UploadState] /\ FileOf(i)' = FileOf(i)
        /\ upload'[i].pc = "validate" /\ \A j \in Uploads \ {i} : upload'[j] = upload[j]
    BY <1>5, UploadGoes DEF MarkValidating, At, IngestInv
  <2>2. IngestTypeOK' /\ LocksAreHeld' /\ LocksAreApart'
    BY <1>1, <1>3, <2>1, LocksStay DEF IngestTypeOK, Locking
  <2> QED BY <1>2, <1>3, <2>1, <2>2, UploadStep DEF Locking, InProgress
<1>6. ASSUME NEW i \in Uploads, ValidatePdf(i) PROVE IngestInv'
  <2>1. /\ upload[i].pc = "validate"
        /\ UNCHANGED <<indexRow, pdf, index, fileLock, running, deaths, shared>>
        /\ upload' \in [Uploads -> UploadState] /\ FileOf(i)' = FileOf(i)
        /\ upload'[i].pc \in {"enter", "failing"} /\ \A j \in Uploads \ {i} : upload'[j] = upload[j]
    BY <1>6, UploadGoes DEF ValidatePdf, At, IngestInv
  <2>2. IngestTypeOK' /\ LocksAreHeld' /\ LocksAreApart'
    BY <1>1, <2>1, LocksStay DEF IngestTypeOK, Locking
  <2> QED BY <1>2, <2>1, <2>2, UploadStep DEF Locking
<1>7. ASSUME NEW i \in Uploads, FailUpload(i) PROVE IngestInv'
  <2>1. /\ upload[i].pc = "failing" /\ SetStatusRow(i, "failed")
        /\ UNCHANGED <<pdf, index, fileLock, running, deaths, shared>>
        /\ upload' \in [Uploads -> UploadState]
        /\ upload'[i].pc = "idle" /\ \A j \in Uploads \ {i} : upload'[j] = upload[j]
    BY <1>7, UploadLeaves DEF FailUpload, At, IngestInv
  <2>2. IngestTypeOK' /\ LocksAreHeld' /\ LocksAreApart'
    BY <1>1, <1>3, <2>1, LocksStay DEF IngestTypeOK, Locking
  <2> QED BY <1>2, <1>3, <2>1, <2>2, UploadStep DEF Locking, InProgress
<1>8. ASSUME NEW i \in Uploads, EnterFile(i) PROVE IngestInv'
  <2>1. /\ upload[i].pc = "enter" /\ UNCHANGED <<indexRow, pdf, index, running, deaths>>
        /\ upload' \in [Uploads -> UploadState] /\ FileOf(i)' = FileOf(i)
        /\ upload'[i].pc = (IF index[FileOf(i)] THEN "reuse" ELSE "mark")
        /\ \A j \in Uploads \ {i} : upload'[j] = upload[j]
    BY <1>8, UploadGoes DEF EnterFile, At, IngestInv
  <2>2. /\ IngestTypeOK' /\ LocksAreHeld' /\ LocksAreApart' /\ shared \subseteq shared'
    BY <1>1, <1>8, <2>1, LockIsTaken DEF IngestTypeOK
  <2>3. ~index[FileOf(i)] => indexRow[FileOf(i)].status # "ready"
    BY <1>2, <2>1 DEF IngestInv, IngestSound, ReadyIsIndexed
  <2> QED BY <1>2, <2>1, <2>2, <2>3, UploadStep DEF Locking
<1>9. ASSUME NEW i \in Uploads, ReuseIndex(i) PROVE IngestInv'
  <2>1. /\ upload[i].pc = "reuse" /\ UNCHANGED <<indexRow, index, fileLock, running, deaths, shared>>
        /\ pdf' = [pdf EXCEPT ![FileOf(i)] = TRUE]
        /\ upload' \in [Uploads -> UploadState] /\ FileOf(i)' = FileOf(i)
        /\ upload'[i].pc = "reload" /\ \A j \in Uploads \ {i} : upload'[j] = upload[j]
    BY <1>9, UploadGoes DEF ReuseIndex, At, IngestInv
  <2>2. IngestTypeOK' /\ LocksAreHeld' /\ LocksAreApart'
    BY <1>1, <2>1, LocksStay DEF IngestTypeOK, Locking
  <2>3. index[FileOf(i)]
    BY <2>1 DEF IngestInv, UploadsAreRight
  <2> QED BY <1>1, <1>2, <2>1, <2>2, <2>3, UploadStep DEF Locking
<1>10. ASSUME NEW i \in Uploads, Reload(i) PROVE IngestInv'
  <2>1. /\ upload[i].pc = "reload" /\ UNCHANGED <<indexRow, pdf, index, running, deaths, shared>>
        /\ upload' \in [Uploads -> UploadState] /\ FileOf(i)' = FileOf(i)
        /\ \/ upload'[i].pc = "ready" /\ UNCHANGED fileLock
           \/ upload'[i].pc = "failing" /\ Unlock(i)
        /\ \A j \in Uploads \ {i} : upload'[j] = upload[j]
    BY <1>10, UploadGoes DEF Reload, At, IngestInv
  <2>2. IngestTypeOK' /\ LocksAreHeld' /\ LocksAreApart'
    BY <1>1, <2>1, LocksStay, LockIsFreed DEF IngestTypeOK, Locking
  <2>3. index[FileOf(i)] /\ (FileOf(i) \notin shared => pdf[FileOf(i)])
    BY <2>1 DEF IngestInv, UploadsAreRight, Locking
  <2> QED BY <1>2, <2>1, <2>2, <2>3, UploadStep DEF Locking
<1>11. ASSUME NEW i \in Uploads, MarkIndexing(i) PROVE IngestInv'
  <2>1. /\ upload[i].pc = "mark" /\ SetStatusRow(i, "indexing")
        /\ UNCHANGED <<pdf, index, fileLock, running, deaths, shared>>
        /\ upload' \in [Uploads -> UploadState] /\ FileOf(i)' = FileOf(i)
        /\ upload'[i].pc = "place" /\ \A j \in Uploads \ {i} : upload'[j] = upload[j]
    BY <1>11, UploadGoes DEF MarkIndexing, At, IngestInv
  <2>2. IngestTypeOK' /\ LocksAreHeld' /\ LocksAreApart'
    BY <1>1, <1>3, <2>1, LocksStay DEF IngestTypeOK, Locking
  <2> QED BY <1>2, <1>3, <2>1, <2>2, UploadStep DEF Locking, InProgress
<1>12. ASSUME NEW i \in Uploads, PlacePdf(i) PROVE IngestInv'
  <2>1. /\ upload[i].pc = "place" /\ UNCHANGED <<indexRow, index, fileLock, running, deaths, shared>>
        /\ pdf' = [pdf EXCEPT ![FileOf(i)] = TRUE]
        /\ upload' = [upload EXCEPT ![i] = [upload[i] EXCEPT !.pc = "build", !.created = ~pdf[FileOf(i)]]]
    BY <1>12 DEF PlacePdf, At
  <2>2. /\ [upload[i] EXCEPT !.pc = "build", !.created = ~pdf[FileOf(i)]] \in UploadState
        /\ [upload[i] EXCEPT !.pc = "build", !.created = ~pdf[FileOf(i)]].pc = "build"
        /\ [upload[i] EXCEPT !.pc = "build", !.created = ~pdf[FileOf(i)]].file = upload[i].file
    <3>1. upload[i] \in UploadState /\ (~pdf[FileOf(i)]) \in BOOLEAN
      BY <1>1, <1>2, <2>1
    <3>2. upload[i] \in [pc : {upload[i].pc}, file : Pdfs, created : BOOLEAN]
      BY <2>1, <3>1 DEF UploadState, NoUpload
    <3> QED BY <2>1, <3>1, <3>2, UploadTypes
  <2>3. /\ upload' \in [Uploads -> UploadState] /\ FileOf(i)' = FileOf(i)
        /\ upload'[i].pc = "build" /\ \A j \in Uploads \ {i} : upload'[j] = upload[j]
    BY <1>1, <2>1, <2>2 DEF FileOf
  <2>4. IngestTypeOK' /\ LocksAreHeld' /\ LocksAreApart'
    BY <1>1, <2>1, <2>3, LocksStay DEF IngestTypeOK, Locking
  <2>5. FileOf(i) \notin shared => indexRow[FileOf(i)].status # "ready"
    BY <2>1 DEF IngestInv, UploadsAreRight, Locking
  <2> QED BY <1>1, <1>2, <2>1, <2>3, <2>4, <2>5, UploadStep DEF Locking
<1>13. ASSUME NEW i \in Uploads, BuildIndex(i) PROVE IngestInv'
  <2>1. /\ upload[i].pc = "build"
        /\ UNCHANGED <<indexRow, pdf, index, fileLock, running, deaths, shared>>
        /\ upload' \in [Uploads -> UploadState] /\ FileOf(i)' = FileOf(i)
        /\ upload'[i].pc \in {"move", "undo"} /\ \A j \in Uploads \ {i} : upload'[j] = upload[j]
    BY <1>13, UploadGoes DEF BuildIndex, At, IngestInv
  <2>2. IngestTypeOK' /\ LocksAreHeld' /\ LocksAreApart'
    BY <1>1, <2>1, LocksStay DEF IngestTypeOK, Locking
  <2>3. FileOf(i) \notin shared => pdf[FileOf(i)] /\ indexRow[FileOf(i)].status # "ready"
    BY <2>1 DEF IngestInv, UploadsAreRight, Locking
  <2> QED BY <1>2, <2>1, <2>2, <2>3, UploadStep DEF Locking
<1>14. ASSUME NEW i \in Uploads, MoveIndex(i) PROVE IngestInv'
  <2>1. /\ upload[i].pc = "move" /\ UNCHANGED <<indexRow, pdf, fileLock, running, deaths, shared>>
        /\ index' = [index EXCEPT ![FileOf(i)] = TRUE]
        /\ upload' \in [Uploads -> UploadState] /\ FileOf(i)' = FileOf(i)
        /\ upload'[i].pc \in {"undo", "load"} /\ \A j \in Uploads \ {i} : upload'[j] = upload[j]
    BY <1>14, UploadGoes DEF MoveIndex, At, IngestInv
  <2>2. IngestTypeOK' /\ LocksAreHeld' /\ LocksAreApart'
    BY <1>1, <2>1, LocksStay DEF IngestTypeOK, Locking
  <2>3. FileOf(i) \notin shared => pdf[FileOf(i)] /\ indexRow[FileOf(i)].status # "ready"
    BY <2>1 DEF IngestInv, UploadsAreRight, Locking
  <2> QED BY <1>1, <1>2, <2>1, <2>2, <2>3, UploadStep DEF Locking
<1>15. ASSUME NEW i \in Uploads, LoadIndex(i) PROVE IngestInv'
  <2>1. /\ upload[i].pc = "load"
        /\ UNCHANGED <<indexRow, pdf, index, fileLock, running, deaths, shared>>
        /\ upload' \in [Uploads -> UploadState] /\ FileOf(i)' = FileOf(i)
        /\ upload'[i].pc \in {"ready", "undo"} /\ \A j \in Uploads \ {i} : upload'[j] = upload[j]
    BY <1>15, UploadGoes DEF LoadIndex, At, IngestInv
  <2>2. IngestTypeOK' /\ LocksAreHeld' /\ LocksAreApart'
    BY <1>1, <2>1, LocksStay DEF IngestTypeOK, Locking
  <2>3. /\ index[FileOf(i)]
        /\ FileOf(i) \notin shared => pdf[FileOf(i)] /\ indexRow[FileOf(i)].status # "ready"
    BY <2>1 DEF IngestInv, UploadsAreRight, Locking
  <2> QED BY <1>2, <2>1, <2>2, <2>3, UploadStep DEF Locking
<1>16. ASSUME NEW i \in Uploads, UndoPdf(i) PROVE IngestInv'
  <2>1. /\ upload[i].pc = "undo" /\ UNCHANGED <<indexRow, index, fileLock, running, deaths, shared>>
        /\ pdf' = [pdf EXCEPT ![FileOf(i)] = pdf[FileOf(i)] /\ ~upload[i].created]
        /\ upload' \in [Uploads -> UploadState] /\ FileOf(i)' = FileOf(i)
        /\ upload'[i].pc = "failed" /\ \A j \in Uploads \ {i} : upload'[j] = upload[j]
    BY <1>16, UploadGoes DEF UndoPdf, At, IngestInv
  <2>2. pdf' \in [Pdfs -> BOOLEAN]
    BY <1>1, <2>1
  <2>3. IngestTypeOK' /\ LocksAreHeld' /\ LocksAreApart'
    BY <1>1, <2>1, <2>2, LocksStay DEF IngestTypeOK, Locking
  <2> QED BY <1>1, <1>2, <2>1, <2>3, UploadStep DEF Locking
<1>17. ASSUME NEW i \in Uploads, Conclude(i) PROVE IngestInv'
  <2>1. /\ upload[i].pc \in {"ready", "failed"} /\ SetStatusRow(i, upload[i].pc) /\ Unlock(i)
        /\ UNCHANGED <<pdf, index, running, deaths, shared>>
        /\ upload' \in [Uploads -> UploadState]
        /\ upload'[i].pc = "idle" /\ \A j \in Uploads \ {i} : upload'[j] = upload[j]
    BY <1>17, UploadLeaves DEF Conclude, IngestInv
  <2>2. IngestTypeOK' /\ LocksAreHeld' /\ LocksAreApart'
    BY <1>1, <1>3, <2>1, LockIsFreed DEF IngestTypeOK, Locking
  <2> QED BY <1>2, <1>3, <2>1, <2>2, UploadStep DEF Locking, InProgress
<1>18. ASSUME NEW p \in Procs, ProcessDies(p) PROVE IngestInv'
  <2>1. /\ running' = running \ {p} /\ deaths' \in 0..MaxDeaths
        /\ UNCHANGED <<indexRow, pdf, index, shared>>
        /\ upload' = [i \in Uploads |-> IF ProcessOf[i] = p THEN NoUpload ELSE upload[i]]
        /\ fileLock' = [fileLock EXCEPT ![p] = [f \in Pdfs |-> "free"]]
    BY <1>1, <1>18 DEF ProcessDies
  <2>2. \A i \in Uploads : IF ProcessOf[i] = p THEN upload'[i].pc = "idle"
                           ELSE upload'[i] = upload[i] /\ FileOf(i)' = FileOf(i)
    BY <2>1, UploadTypes DEF FileOf
  <2>3. /\ upload' \in [Uploads -> UploadState]
        /\ fileLock' \in [Procs -> [Pdfs -> Uploads \union {"free"}]]
        /\ fileLock'[p] = [f \in Pdfs |-> "free"] /\ \A q \in Procs \ {p} : fileLock'[q] = fileLock[q]
    BY <1>1, <2>1, UploadTypes
  <2>4. IngestTypeOK'
    BY <1>1, <2>1, <2>3 DEF IngestTypeOK
  <2>5. LocksAreHeld'
    BY <1>2, <2>2, <2>3 DEF IngestInv, LocksAreHeld, Locking
  <2>6. LocksAreApart'
    BY <2>1, <2>3 DEF IngestInv, LocksAreApart
  <2>7. UploadsAreRight'
    BY <2>1, <2>2 DEF IngestInv, UploadsAreRight, Locking
  <2>8. ReadyIsIndexed'
    BY <2>1 DEF IngestInv, IngestSound, ReadyIsIndexed
  <2>9. ProgressHasAnOwner'
    BY <2>1, <2>2 DEF IngestInv, IngestSound, ProgressHasAnOwner, At
  <2> QED BY <2>4, <2>5, <2>6, <2>7, <2>8, <2>9 DEF IngestInv, IngestSound
<1>19. ASSUME NEW p \in Procs, StartProcess(p) PROVE IngestInv'
  <2>1. /\ running' = running \union {p} /\ UNCHANGED <<pdf, index, fileLock, upload, deaths, shared>>
        /\ indexRow' = [f \in Pdfs |-> IF CutShort(p, f)
                                       THEN [status |-> "failed", owner |-> "none"]
                                       ELSE indexRow[f]]
    BY <1>19 DEF StartProcess
  <2>2. ASSUME NEW f \in Pdfs
        PROVE  \/ indexRow'[f] = indexRow[f] /\ ~CutShort(p, f)
               \/ indexRow'[f].status = "failed"
    BY <2>1
  <2>3. indexRow' \in [Pdfs -> [status : InProgress \union {"none", "ready", "failed"},
                                owner : Procs \union {"none"}]]
    BY <1>1, <2>1
  <2>4. IngestTypeOK'
    BY <1>1, <2>1, <2>3 DEF IngestTypeOK
  <2>5. LocksAreHeld' /\ LocksAreApart'
    BY <2>1 DEF IngestInv, LocksAreHeld, LocksAreApart, FileOf
  <2>6. UploadsAreRight'
    BY <1>2, <2>1, <2>2 DEF IngestInv, UploadsAreRight, FileOf, Locking
  <2>7. ReadyIsIndexed'
    BY <2>1, <2>2 DEF IngestInv, IngestSound, ReadyIsIndexed
  <2>8. ProgressHasAnOwner'
    BY <2>1, <2>2 DEF IngestInv, IngestSound, ProgressHasAnOwner, At, FileOf, CutShort, InProgress
  <2> QED BY <2>4, <2>5, <2>6, <2>7, <2>8 DEF IngestInv, IngestSound
<1>20. CASE UNCHANGED ingestVars
  BY <1>20 DEF ingestVars, IngestInv, IngestTypeOK, IngestSound, ReadyIsIndexed, ProgressHasAnOwner,
               LocksAreHeld, LocksAreApart, UploadsAreRight, At, FileOf
<1> QED BY <1>4, <1>5, <1>6, <1>7, <1>8, <1>9, <1>10, <1>11, <1>12, <1>13, <1>14, <1>15, <1>16,
           <1>17, <1>18, <1>19, <1>20 DEF IngestNext

\* The types, the locks and what the uploads may rely on, of every reachable state.
THEOREM IngestInvariance == IngestSpec => []IngestInv
<1>1. IngestInit => IngestInv
  <2> SUFFICES ASSUME IngestInit PROVE IngestInv
    OBVIOUS
  <2>1. \A i \in Uploads : upload[i].pc = "idle"
    BY UploadTypes DEF IngestInit
  <2>2. IngestTypeOK
    <3>1. indexRow \in [Pdfs -> [status : InProgress \union {"none", "ready", "failed"},
                                 owner : Procs \union {"none"}]]
      BY DEF IngestInit
    <3>2. upload \in [Uploads -> UploadState]
      BY UploadTypes DEF IngestInit
    <3>4. deaths \in 0..MaxDeaths
      BY DEF IngestInit
    <3>3. fileLock \in [Procs -> [Pdfs -> Uploads \union {"free"}]]
      BY DEF IngestInit
    <3> QED BY <3>1, <3>2, <3>3, <3>4 DEF IngestInit, IngestTypeOK
  <2> QED BY <2>1, <2>2 DEF IngestInv, IngestInit, IngestSound, ReadyIsIndexed, ProgressHasAnOwner,
                            InProgress, LocksAreHeld, LocksAreApart, UploadsAreRight, Locking
<1> QED BY <1>1, IngestInductive, PTL DEF IngestSpec

\* The registry of indexes is right whatever uploads meet at a file and wherever
\* their processes die (ingestion.py ingest, fail_interrupted).
THEOREM IngestIsSound == IngestSpec => []IngestSound
<1>1. IngestInv => IngestSound
  BY DEF IngestInv
<1> QED BY <1>1, IngestInvariance, PTL

-----------------------------------------------------------------------------
(* Memories: the inductive invariant.                                       *)

\* The payload of a record that is active in its column says so; the other way
\* round only for those that were superseded while a retrieval held them, as
\* those it still holds may become.
StatusesAgree ==
    /\ InColumn \subseteq Listed
    /\ Listed \subseteq InColumn \union overlapped
    /\ \A m \in Held : m \in MemoryIds /\ (memory[m].exists => m \in InColumn \union overlapped)

\* create, which looks at the columns, leaves one record of each key in them.
OneColumnPerKey ==
    \A m, n \in InColumn : memory[m].key = memory[n].key /\ memory[m].key # NoKey => m = n

\* An update works on a record that was there.
UpdatesAreOfRecords ==
    \A w \in Writers : writer[w].pc \in {"update", "supersede"} => writer[w].old \in MemoryIds

MemoryInv == MemoryTypeOK /\ StatusesAgree /\ OneColumnPerKey /\ UpdatesAreOfRecords

LEMMA WriterTypes ==
    /\ NoWriter \in WriterState /\ NoWriter.pc = "idle"
    /\ \A v \in WriterState :
          /\ v.pc \in {"update", "supersede"} => v.old \in 1..MaxMemories /\ v.saved \in 0..MaxMemories
          /\ v.pc = "retrieve" => v.held \in SUBSET (1..MaxMemories)
    /\ \A m \in 1..MaxMemories, n \in 0..MaxMemories :
          /\ [pc |-> "update", old |-> m, saved |-> n] \in WriterState
          /\ [pc |-> "supersede", old |-> m, saved |-> n] \in WriterState
    /\ \A S \in SUBSET (1..MaxMemories) : [pc |-> "retrieve", held |-> S] \in WriterState
<1>1. NoWriter \in WriterState /\ NoWriter.pc = "idle"
  BY DEF WriterState, NoWriter
<1>2. ASSUME NEW v \in WriterState
      PROVE  /\ v.pc \in {"update", "supersede"} => v.old \in 1..MaxMemories /\ v.saved \in 0..MaxMemories
             /\ v.pc = "retrieve" => v.held \in SUBSET (1..MaxMemories)
  BY DEF WriterState, NoWriter
<1>3. ASSUME NEW m \in 1..MaxMemories, NEW n \in 0..MaxMemories
      PROVE  /\ [pc |-> "update", old |-> m, saved |-> n] \in WriterState
             /\ [pc |-> "supersede", old |-> m, saved |-> n] \in WriterState
  BY DEF WriterState
<1>4. ASSUME NEW S \in SUBSET (1..MaxMemories) PROVE [pc |-> "retrieve", held |-> S] \in WriterState
  BY DEF WriterState
<1> QED BY <1>1, <1>2, <1>3, <1>4

\* A record is held when some retrieval still has to write it.
LEMMA HeldBy ==
    \A m : m \in Held <=> \E w \in Writers : writer[w].pc = "retrieve" /\ m \in writer[w].held
BY DEF Held

\* Records as they are made and superseded.
LEMMA MemoryRecords ==
    /\ \A r \in Memory :
          /\ r.exists \in BOOLEAN /\ r.key \in Keys
          /\ [r EXCEPT !.column = "superseded", !.payload = "superseded"] \in Memory
          /\ [r EXCEPT !.column = "superseded", !.payload = "superseded"].column = "superseded"
          /\ [r EXCEPT !.column = "superseded", !.payload = "superseded"].payload = "superseded"
          /\ [r EXCEPT !.column = "superseded", !.payload = "superseded"].exists = r.exists
          /\ [r EXCEPT !.column = "superseded", !.payload = "superseded"].key = r.key
    /\ \A x \in Contents, key \in Keys :
          [content |-> x, key |-> key, column |-> "active", payload |-> "active", exists |-> TRUE] \in Memory
    /\ \A x \in Contents : KeyOf[x] \in Keys
<1>1. ASSUME NEW r \in Memory
      PROVE  /\ r.exists \in BOOLEAN /\ r.key \in Keys
             /\ [r EXCEPT !.column = "superseded", !.payload = "superseded"] \in Memory
             /\ [r EXCEPT !.column = "superseded", !.payload = "superseded"].column = "superseded"
             /\ [r EXCEPT !.column = "superseded", !.payload = "superseded"].payload = "superseded"
             /\ [r EXCEPT !.column = "superseded", !.payload = "superseded"].exists = r.exists
             /\ [r EXCEPT !.column = "superseded", !.payload = "superseded"].key = r.key
  BY DEF Memory, Status
<1>2. ASSUME NEW x \in Contents, NEW key \in Keys
      PROVE  [content |-> x, key |-> key, column |-> "active", payload |-> "active", exists |-> TRUE] \in Memory
  BY DEF Memory, Status
<1>3. \A x \in Contents : KeyOf[x] \in Keys
  BY DEF Keys
<1> QED BY <1>1, <1>2, <1>3

\* A table in which the records of C are superseded and those of N are new and
\* active; what was held and leaves the list is remembered.
LEMMA TablesAgree ==
    ASSUME MemoryInv, NEW C \in SUBSET MemoryIds, NEW N,
           N \intersect Held = {}, MemoryIds \subseteq MemoryIds',
           InColumn' = (InColumn \ C) \union N, Listed' = (Listed \ C) \union N,
           \A m \in MemoryIds : memory'[m].exists => memory[m].exists,
           Held' \subseteq Held,
           \A m \in overlapped : m \in overlapped' \/ ~memory'[m].exists,
           \A m \in C \intersect Held \intersect Listed : m \in overlapped' \/ ~memory'[m].exists
    PROVE  StatusesAgree'
<1>1. InColumn \subseteq Listed /\ Listed \subseteq InColumn \union overlapped
  BY DEF MemoryInv, StatusesAgree
<1>2. \A m \in Listed' : memory'[m].exists
  BY DEF Listed
<1>3. ASSUME NEW m \in Held'
      PROVE  m \in MemoryIds' /\ (memory'[m].exists => m \in InColumn' \union overlapped')
  <2>1. m \in MemoryIds /\ (memory[m].exists => m \in InColumn \union overlapped)
    BY <1>3 DEF MemoryInv, StatusesAgree
  <2> QED BY <1>1, <1>3, <2>1
<1> QED BY <1>1, <1>2, <1>3 DEF StatusesAgree

LEMMA InsertedTable ==
    ASSUME MemoryInv, NEW content \in Contents, NEW key \in Keys, NEW replaced,
           Len(memory) < MaxMemories, memory' = Inserted(content, key, replaced)
    PROVE  /\ memory' \in Seq(Memory) /\ Len(memory') = Len(memory) + 1
           /\ \A m \in MemoryIds :
                 memory'[m] = IF m \in Conflicts(key, replaced)
                              THEN [memory[m] EXCEPT !.column = "superseded", !.payload = "superseded"]
                              ELSE memory[m]
           /\ memory'[Len(memory) + 1] =
                 [content |-> content, key |-> key, column |-> "active", payload |-> "active",
                  exists |-> TRUE]
<1> DEFINE table == [m \in MemoryIds |->
                        IF m \in Conflicts(key, replaced)
                        THEN [memory[m] EXCEPT !.column = "superseded", !.payload = "superseded"]
                        ELSE memory[m]]
           new == [content |-> content, key |-> key, column |-> "active", payload |-> "active",
                   exists |-> TRUE]
<1>1. memory \in Seq(Memory) /\ Len(memory) \in Nat /\ \A m \in MemoryIds : memory[m] \in Memory
  BY DEF MemoryInv, MemoryTypeOK, MemoryIds
<1>2. table \in [1..Len(memory) -> Memory]
  BY <1>1, MemoryRecords DEF MemoryIds
<1>3. table \in Seq(Memory) /\ Len(table) = Len(memory)
  <2> HIDE DEF table
  <2> QED BY <1>1, <1>2
<1>4. new \in Memory
  BY MemoryRecords
<1>5. memory' = Append(table, new)
  BY DEF Inserted
<1>6. \A m \in MemoryIds :
         table[m] = IF m \in Conflicts(key, replaced)
                    THEN [memory[m] EXCEPT !.column = "superseded", !.payload = "superseded"]
                    ELSE memory[m]
  OBVIOUS
<1> HIDE DEF table, new
<1>7. /\ memory' \in Seq(Memory) /\ Len(memory') = Len(memory) + 1
      /\ \A m \in 1..Len(memory) : memory'[m] = table[m]
      /\ memory'[Len(memory) + 1] = new
  BY <1>1, <1>3, <1>4, <1>5
<1> QED BY <1>6, <1>7 DEF new, MemoryIds

\* create within one transaction: the duplicate, or the new record.
LEMMA StoreIsSound ==
    ASSUME MemoryInv, NEW content \in Contents, NEW key \in Keys, NEW replaced,
           NEW saved \in 1..MaxMemories, Store(content, key, replaced, saved), Held' \subseteq Held
    PROVE  /\ memory' \in Seq(Memory) /\ Len(memory') <= MaxMemories
           /\ overlapped' \subseteq MemoryIds' /\ MemoryIds \subseteq MemoryIds'
           /\ StatusesAgree' /\ OneColumnPerKey'
<1>1. /\ memory \in Seq(Memory) /\ Len(memory) \in Nat /\ \A m \in MemoryIds : memory[m] \in Memory
      /\ Len(memory) <= MaxMemories /\ overlapped \subseteq MemoryIds
  BY DEF MemoryInv, MemoryTypeOK, MemoryIds
<1>2. CASE UNCHANGED <<memory, overlapped>>
  BY <1>1, <1>2 DEF MemoryInv, StatusesAgree, OneColumnPerKey, InColumn, Listed, MemoryIds
<1>3. CASE /\ saved = Len(memory) + 1 /\ memory' = Inserted(content, key, replaced)
           /\ overlapped' = overlapped \union (Conflicts(key, replaced) \intersect Held)
  <2> DEFINE C == Conflicts(key, replaced)
             new == Len(memory) + 1
  <2>0. Len(memory) < MaxMemories
    BY <1>1, <1>3
  <2>1. /\ memory' \in Seq(Memory) /\ Len(memory') = Len(memory) + 1
        /\ \A m \in MemoryIds :
              memory'[m] = IF m \in C
                           THEN [memory[m] EXCEPT !.column = "superseded", !.payload = "superseded"]
                           ELSE memory[m]
        /\ memory'[new] = [content |-> content, key |-> key, column |-> "active", payload |-> "active",
                           exists |-> TRUE]
    BY <1>3, <2>0, InsertedTable
  <2>2. C \subseteq InColumn /\ C \subseteq MemoryIds
    BY DEF Conflicts, InColumn
  <2> HIDE DEF C
  <2>3. MemoryIds' = MemoryIds \union {new} /\ new \notin MemoryIds
    <3>1. Len(memory') = Len(memory) + 1
      BY <2>1
    <3> QED BY <1>1, <3>1 DEF MemoryIds
  <2> HIDE DEF new
  <2>4. ASSUME NEW m \in MemoryIds
        PROVE  /\ m \in C => memory'[m].column = "superseded" /\ memory'[m].payload = "superseded"
               /\ m \notin C => memory'[m] = memory[m]
               /\ memory'[m].exists = memory[m].exists /\ memory'[m].key = memory[m].key
    <3> DEFINE rec == [memory[m] EXCEPT !.column = "superseded", !.payload = "superseded"]
    <3>1. /\ rec.column = "superseded" /\ rec.payload = "superseded"
          /\ rec.exists = memory[m].exists /\ rec.key = memory[m].key
      BY <1>1, MemoryRecords
    <3>2. memory'[m] = IF m \in C THEN rec ELSE memory[m]
      BY <2>1
    <3> HIDE DEF rec
    <3> QED BY <3>1, <3>2
  <2>5. /\ memory'[new].column = "active" /\ memory'[new].payload = "active"
        /\ memory'[new].exists /\ memory'[new].key = key
    <3>1. memory'[new] = [content |-> content, key |-> key, column |-> "active", payload |-> "active",
                          exists |-> TRUE]
      BY <2>1
    <3> QED BY <3>1
  <2>6. InColumn' = (InColumn \ C) \union {new}
    BY <2>3, <2>4, <2>5 DEF InColumn
  <2>7. Listed' = (Listed \ C) \union {new}
    BY <2>3, <2>4, <2>5 DEF Listed
  <2>8. overlapped' = overlapped \union (C \intersect Held)
    BY <1>3 DEF C
  <2>9. Held \subseteq MemoryIds
    BY DEF MemoryInv, StatusesAgree
  <2>10. StatusesAgree'
    <3>1. {new} \intersect Held = {} /\ C \in SUBSET MemoryIds /\ MemoryIds \subseteq MemoryIds'
      BY <2>2, <2>3, <2>9
    <3>2. /\ \A m \in overlapped : m \in overlapped'
          /\ \A m \in C \intersect Held : m \in overlapped'
      BY <2>8
    <3> QED BY <2>4, <2>6, <2>7, <3>1, <3>2, TablesAgree
  <2>11. ASSUME NEW m \in InColumn', NEW n \in InColumn',
                memory'[m].key = memory'[n].key, memory'[m].key # NoKey
         PROVE  m = n
    <3>1. \A l \in InColumn \ C : l \in MemoryIds /\ memory'[l] = memory[l]
      BY <2>4 DEF InColumn
    <3>2. \A l \in InColumn \ C : key # NoKey => memory[l].key # key
      BY DEF C, Conflicts
    <3> QED BY <2>5, <2>6, <2>11, <3>1, <3>2 DEF MemoryInv, OneColumnPerKey
  <2>12. memory' \in Seq(Memory) /\ Len(memory') <= MaxMemories
    <3>1. memory' \in Seq(Memory) /\ Len(memory') = Len(memory) + 1
      BY <2>1
    <3> QED BY <1>1, <2>0, <3>1
  <2> QED BY <1>1, <2>2, <2>3, <2>8, <2>10, <2>11, <2>12 DEF OneColumnPerKey
<1> QED BY <1>2, <1>3 DEF Store

\* A record is superseded, or its row is removed, by itself.
LEMMA SupersedeIsSound ==
    ASSUME MemoryInv, NEW m \in MemoryIds, NEW gone \in BOOLEAN,
           memory' = [memory EXCEPT ![m] = [Superseded(m) EXCEPT !.exists = memory[m].exists /\ ~gone]],
           Held' \subseteq Held,
           overlapped' = IF gone THEN overlapped \ {m}
                         ELSE overlapped \union ({m} \intersect Held \intersect Listed)
    PROVE  /\ memory' \in Seq(Memory) /\ Len(memory') = Len(memory)
           /\ StatusesAgree' /\ OneColumnPerKey'
<1>1. memory \in Seq(Memory) /\ Len(memory) \in Nat /\ \A n \in MemoryIds : memory[n] \in Memory
  BY DEF MemoryInv, MemoryTypeOK, MemoryIds
<1> DEFINE rec == [Superseded(m) EXCEPT !.exists = memory[m].exists /\ ~gone]
<1>2. Superseded(m) \in Memory
  BY <1>1, MemoryRecords DEF Superseded
<1>3. /\ rec \in Memory /\ rec.column = "superseded" /\ rec.payload = "superseded"
      /\ rec.exists = (memory[m].exists /\ ~gone) /\ rec.key = memory[m].key
  <2>1. /\ Superseded(m).column = "superseded" /\ Superseded(m).payload = "superseded"
        /\ Superseded(m).key = memory[m].key
    BY <1>1, MemoryRecords DEF Superseded
  <2>2. (memory[m].exists /\ ~gone) \in BOOLEAN
    OBVIOUS
  <2> HIDE DEF Superseded
  <2> QED BY <1>2, <2>1, <2>2 DEF Memory
<1> HIDE DEF rec
<1>4. /\ memory' \in Seq(Memory) /\ Len(memory') = Len(memory) /\ memory'[m] = rec
      /\ \A n \in MemoryIds \ {m} : memory'[n] = memory[n]
  BY <1>1, <1>3 DEF MemoryIds, rec
<1>5. MemoryIds' = MemoryIds
  BY <1>4 DEF MemoryIds
<1>6. InColumn' = InColumn \ {m} /\ Listed' = Listed \ {m}
  BY <1>3, <1>4, <1>5 DEF InColumn, Listed
<1>7. StatusesAgree'
  <2>1. \A n \in MemoryIds : memory'[n].exists => memory[n].exists
    BY <1>3, <1>4
  <2>2. gone => ~memory'[m].exists
    BY <1>3, <1>4
  <2>3. /\ {m} \in SUBSET MemoryIds /\ {} \intersect Held = {} /\ MemoryIds \subseteq MemoryIds'
        /\ InColumn' = (InColumn \ {m}) \union {} /\ Listed' = (Listed \ {m}) \union {}
    BY <1>5, <1>6
  <2>4. /\ \A n \in overlapped : n \in overlapped' \/ ~memory'[n].exists
        /\ \A n \in {m} \intersect Held \intersect Listed : n \in overlapped' \/ ~memory'[n].exists
    BY <2>2
  <2> QED BY <2>1, <2>3, <2>4, TablesAgree
<1>8. OneColumnPerKey'
  BY <1>4, <1>6 DEF MemoryInv, OneColumnPerKey, InColumn
<1> QED BY <1>4, <1>7, <1>8

LEMMA MemoryInductive == MemoryInv /\ [MemoryNext]_memoryVars => MemoryInv'
<1> SUFFICES ASSUME MemoryInv, [MemoryNext]_memoryVars PROVE MemoryInv'
  OBVIOUS
<1>1. /\ memory \in Seq(Memory) /\ Len(memory) \in Nat /\ \A m \in MemoryIds : memory[m] \in Memory
      /\ Len(memory) <= MaxMemories /\ MemoryIds \subseteq 1..MaxMemories
      /\ writer \in [Writers -> WriterState] /\ overlapped \subseteq MemoryIds
  BY DEF MemoryInv, MemoryTypeOK, MemoryIds
<1>2. \A w \in Writers : writer[w].pc \in {"update", "supersede"} => writer[w].old \in MemoryIds
  BY DEF MemoryInv, UpdatesAreOfRecords
<1>3. ASSUME UNCHANGED <<memory, overlapped>>, writer' \in [Writers -> WriterState],
             \A m \in Held' : m \in Held \/ m \in Listed,
             \A w \in Writers : writer'[w].pc \in {"update", "supersede"} => writer'[w].old \in MemoryIds
      PROVE  MemoryInv'
  <2>1. /\ MemoryIds' = MemoryIds /\ InColumn' = InColumn /\ Listed' = Listed
        /\ Listed \subseteq MemoryIds
    BY <1>3 DEF MemoryIds, InColumn, Listed
  <2>2. StatusesAgree'
    BY <1>3, <2>1 DEF MemoryInv, StatusesAgree
  <2>3. MemoryTypeOK' /\ UpdatesAreOfRecords'
    BY <1>1, <1>3, <2>1 DEF MemoryTypeOK, UpdatesAreOfRecords
  <2>4. OneColumnPerKey'
    BY <1>3, <2>1 DEF MemoryInv, OneColumnPerKey
  <2> QED BY <2>2, <2>3, <2>4 DEF MemoryInv
<1>4. ASSUME NEW content \in Contents, CreateMemory(content) PROVE MemoryInv'
  <2>1. PICK saved \in 1..MaxMemories : Store(content, KeyOf[content], 0, saved)
    BY <1>4 DEF CreateMemory
  <2>2. writer' = writer /\ Held' \subseteq Held
    BY <1>4 DEF CreateMemory, Held
  <2>3. KeyOf[content] \in Keys
    BY MemoryRecords
  <2>4. /\ memory' \in Seq(Memory) /\ Len(memory') <= MaxMemories
        /\ overlapped' \subseteq MemoryIds' /\ MemoryIds \subseteq MemoryIds'
        /\ StatusesAgree' /\ OneColumnPerKey'
    BY <2>1, <2>2, <2>3, StoreIsSound
  <2> QED BY <1>1, <1>2, <2>2, <2>4 DEF MemoryInv, MemoryTypeOK, UpdatesAreOfRecords
<1>5. ASSUME NEW content \in Contents, NEW w \in Writers, CreateUpdated(w, content) PROVE MemoryInv'
  <2> DEFINE old == writer[w].old
             key == IF KeyOf[content] = NoKey THEN memory[old].key ELSE KeyOf[content]
             next(saved) == IF saved = old THEN NoWriter
                            ELSE [pc |-> "supersede", old |-> old, saved |-> saved]
  <2>1. old \in MemoryIds /\ old \in 1..MaxMemories /\ key \in Keys
    BY <1>1, <1>2, <1>5, MemoryRecords DEF CreateUpdated
  <2>2. PICK saved \in 1..MaxMemories :
           Store(content, key, old, saved) /\ writer' = [writer EXCEPT ![w] = next(saved)]
    BY <1>5 DEF CreateUpdated
  <2>3. next(saved) \in WriterState /\ next(saved).pc \in {"idle", "supersede"}
        /\ (next(saved).pc = "supersede" => next(saved).old = old)
    <3>1. CASE saved = old
      BY <3>1, WriterTypes
    <3>2. CASE saved # old
      <4>1. old \in 1..MaxMemories /\ saved \in 0..MaxMemories
        BY <2>1
      <4>2. next(saved) = [pc |-> "supersede", old |-> old, saved |-> saved]
        BY <3>2
      <4>3. next(saved) \in WriterState
        BY <4>1, <4>2, WriterTypes
      <4> QED BY <4>2, <4>3
    <3> QED BY <3>1, <3>2
  <2> HIDE DEF old, key, next
  <2>4. /\ writer' \in [Writers -> WriterState] /\ writer'[w] = next(saved)
        /\ \A v \in Writers \ {w} : writer'[v] = writer[v]
    BY <1>1, <2>2, <2>3
  <2>5. Held' \subseteq Held
    BY <2>3, <2>4 DEF Held
  <2>6. /\ memory' \in Seq(Memory) /\ Len(memory') <= MaxMemories
        /\ overlapped' \subseteq MemoryIds' /\ MemoryIds \subseteq MemoryIds'
        /\ StatusesAgree' /\ OneColumnPerKey'
    BY <2>1, <2>2, <2>5, StoreIsSound
  <2>7. UpdatesAreOfRecords'
    BY <1>2, <2>1, <2>3, <2>4, <2>6 DEF UpdatesAreOfRecords
  <2> QED BY <2>4, <2>6, <2>7 DEF MemoryInv, MemoryTypeOK
<1>6. ASSUME NEW w \in Writers, NEW m \in 1..MaxMemories, ReadForUpdate(w, m) PROVE MemoryInv'
  <2> DEFINE next == [pc |-> "update", old |-> m, saved |-> 0]
  <2>1. next \in WriterState /\ next.pc = "update" /\ next.old = m
    <3>1. 0 \in 0..MaxMemories
      OBVIOUS
    <3>2. next \in WriterState
      BY <3>1, WriterTypes
    <3> QED BY <3>2
  <2>2. m \in MemoryIds /\ UNCHANGED <<memory, overlapped>> /\ writer' = [writer EXCEPT ![w] = next]
    BY <1>6 DEF ReadForUpdate
  <2> HIDE DEF next
  <2>3. /\ writer' \in [Writers -> WriterState] /\ writer'[w] = next
        /\ \A v \in Writers \ {w} : writer'[v] = writer[v]
    BY <1>1, <2>1, <2>2
  <2>4. Held' \subseteq Held
    BY <2>1, <2>3 DEF Held
  <2> QED BY <1>2, <1>3, <2>1, <2>2, <2>3, <2>4
<1>7. ASSUME NEW w \in Writers, SupersedeOld(w) PROVE MemoryInv'
  <2> DEFINE m == writer[w].old
  <2>1. m \in MemoryIds
    BY <1>2, <1>7 DEF SupersedeOld
  <2>2. /\ writer' \in [Writers -> WriterState] /\ writer'[w].pc = "idle"
        /\ \A v \in Writers \ {w} : writer'[v] = writer[v]
    BY <1>1, <1>7, WriterTypes DEF SupersedeOld
  <2>3. Held' \subseteq Held
    BY <2>2 DEF Held
  <2>4. memory' = [memory EXCEPT ![m] = [Superseded(m) EXCEPT !.exists = memory[m].exists /\ ~FALSE]]
    <3>1. memory[m] \in Memory /\ memory[m].exists \in BOOLEAN
      BY <1>1, <2>1, MemoryRecords
    <3>2. Superseded(m) \in Memory /\ Superseded(m).exists = memory[m].exists
      BY <3>1, MemoryRecords DEF Superseded
    <3>3. [Superseded(m) EXCEPT !.exists = memory[m].exists /\ ~FALSE] = Superseded(m)
      BY <3>1, <3>2 DEF Memory
    <3> QED BY <1>7, <3>3 DEF SupersedeOld
  <2>5. overlapped' = overlapped \union ({m} \intersect Held \intersect Listed)
    BY <1>7 DEF SupersedeOld
  <2> HIDE DEF m
  <2>6. memory' \in Seq(Memory) /\ Len(memory') = Len(memory) /\ StatusesAgree' /\ OneColumnPerKey'
    BY <2>1, <2>3, <2>4, <2>5, SupersedeIsSound
  <2>7. MemoryIds' = MemoryIds
    BY <2>6 DEF MemoryIds
  <2> QED BY <1>1, <1>2, <2>1, <2>2, <2>5, <2>6, <2>7 DEF MemoryInv, MemoryTypeOK, UpdatesAreOfRecords
<1>8. ASSUME NEW m \in 1..MaxMemories, DeleteMemory(m) PROVE MemoryInv'
  <2>1. m \in MemoryIds /\ UNCHANGED writer /\ Held' = Held /\ overlapped' = overlapped \ {m}
    BY <1>8 DEF DeleteMemory, Held
  <2>2. memory' = [memory EXCEPT ![m] = [Superseded(m) EXCEPT !.exists = memory[m].exists /\ ~TRUE]]
    BY <1>8 DEF DeleteMemory
  <2>3. memory' \in Seq(Memory) /\ Len(memory') = Len(memory) /\ StatusesAgree' /\ OneColumnPerKey'
    BY <2>1, <2>2, SupersedeIsSound
  <2>4. MemoryIds' = MemoryIds
    BY <2>3 DEF MemoryIds
  <2> QED BY <1>1, <1>2, <2>1, <2>3, <2>4 DEF MemoryInv, MemoryTypeOK, UpdatesAreOfRecords
<1>9. ASSUME NEW w \in Writers, Retrieve(w) PROVE MemoryInv'
  <2>1. PICK returned \in SUBSET Listed \ {{}} :
           writer' = [writer EXCEPT ![w] = [pc |-> "retrieve", held |-> returned]]
    BY <1>9 DEF Retrieve
  <2> DEFINE next == [pc |-> "retrieve", held |-> returned]
  <2>2. next \in WriterState /\ next.pc = "retrieve" /\ next.held = returned
    BY <1>1, WriterTypes DEF Listed
  <2>3. writer' = [writer EXCEPT ![w] = next] /\ UNCHANGED <<memory, overlapped>>
    BY <1>9, <2>1 DEF Retrieve
  <2> HIDE DEF next
  <2>4. /\ writer' \in [Writers -> WriterState] /\ writer'[w] = next
        /\ \A v \in Writers \ {w} : writer'[v] = writer[v]
    BY <1>1, <2>2, <2>3
  <2>5. \A m \in Held' : m \in Held \/ m \in Listed
    BY <2>2, <2>4 DEF Held
  <2> QED BY <1>2, <1>3, <2>2, <2>3, <2>4, <2>5
<1>10. ASSUME NEW w \in Writers, NEW m \in 1..MaxMemories, WriteAccess(w, m) PROVE MemoryInv'
  <2> DEFINE rec == [memory[m] EXCEPT !.payload = IF memory[m].exists THEN "active" ELSE memory[m].payload]
             rest == writer[w].held \ {m}
             next == IF rest = {} THEN NoWriter ELSE [pc |-> "retrieve", held |-> rest]
  <2>1. /\ writer[w].pc = "retrieve" /\ m \in Held /\ UNCHANGED overlapped
        /\ memory' = [memory EXCEPT ![m] = rec] /\ writer' = [writer EXCEPT ![w] = next]
    <3>1. /\ writer[w].pc = "retrieve" /\ m \in writer[w].held /\ UNCHANGED overlapped
          /\ memory' = [memory EXCEPT ![m] = rec]
      BY <1>10 DEF WriteAccess
    <3>2. writer' = [writer EXCEPT ![w] = next]
      BY <1>10 DEF WriteAccess
    <3>3. m \in Held
      BY <3>1, HeldBy
    <3> QED BY <3>1, <3>2, <3>3
  <2>2. m \in MemoryIds /\ (memory[m].exists => m \in InColumn \union overlapped)
    BY <2>1 DEF MemoryInv, StatusesAgree
  <2>3. /\ rec \in Memory /\ rec.column = memory[m].column /\ rec.key = memory[m].key
        /\ rec.exists = memory[m].exists
        /\ rec.payload = IF memory[m].exists THEN "active" ELSE memory[m].payload
    <3>1. memory[m] \in Memory
      BY <1>1, <2>2
    <3> QED BY <3>1 DEF Memory, Status
  <2>4. next \in WriterState /\ next.pc \in {"idle", "retrieve"}
        /\ (next.pc = "retrieve" => next.held \subseteq writer[w].held)
    <3>1. rest \in SUBSET (1..MaxMemories)
      BY <1>1, <2>1, WriterTypes
    <3>2. [pc |-> "retrieve", held |-> rest] \in WriterState
      BY <3>1, WriterTypes
    <3> QED BY <3>2, WriterTypes
  <2> HIDE DEF rec, next
  <2>5. /\ writer' \in [Writers -> WriterState] /\ writer'[w] = next
        /\ \A v \in Writers \ {w} : writer'[v] = writer[v]
    BY <1>1, <2>1, <2>4
  <2>6. Held' \subseteq Held
    BY <2>1, <2>4, <2>5 DEF Held
  <2>7. /\ memory' \in Seq(Memory) /\ Len(memory') = Len(memory) /\ memory'[m] = rec
        /\ \A n \in MemoryIds \ {m} : memory'[n] = memory[n]
    BY <1>1, <2>1, <2>2, <2>3 DEF MemoryIds
  <2>8. MemoryIds' = MemoryIds
    BY <2>7 DEF MemoryIds
  <2>9. /\ InColumn' = InColumn
        /\ Listed' = Listed \union (IF memory[m].exists THEN {m} ELSE {})
    BY <2>2, <2>3, <2>7, <2>8 DEF InColumn, Listed
  <2>10. \A n \in MemoryIds : memory'[n].exists = memory[n].exists /\ memory'[n].key = memory[n].key
    BY <2>3, <2>7
  <2>11. StatusesAgree'
    BY <2>1, <2>2, <2>6, <2>8, <2>9, <2>10 DEF MemoryInv, StatusesAgree
  <2>12. OneColumnPerKey'
    BY <2>9, <2>10 DEF MemoryInv, OneColumnPerKey, InColumn
  <2>13. UpdatesAreOfRecords'
    BY <1>2, <2>4, <2>5, <2>8 DEF UpdatesAreOfRecords
  <2> QED BY <1>1, <2>1, <2>5, <2>7, <2>8, <2>11, <2>12, <2>13 DEF MemoryInv, MemoryTypeOK
<1>11. CASE UNCHANGED memoryVars
  <2>1. UNCHANGED <<memory, overlapped, writer>> /\ Held' = Held
    BY <1>11 DEF memoryVars, Held
  <2> QED BY <1>1, <1>2, <1>3, <2>1
<1> QED BY <1>4, <1>5, <1>6, <1>7, <1>8, <1>9, <1>10, <1>11 DEF MemoryNext

\* The records, their two statuses and what the writers hold, of every
\* reachable state.
THEOREM MemoryInvariance == MemorySpec => []MemoryInv
<1>1. MemoryInit => MemoryInv
  <2> SUFFICES ASSUME MemoryInit PROVE MemoryInv
    OBVIOUS
  <2>1. memory \in Seq(Memory) /\ Len(memory) = 0 /\ MemoryIds = {} /\ overlapped = {}
    BY DEF MemoryInit, MemoryIds
  <2>2. writer \in [Writers -> WriterState] /\ \A w \in Writers : writer[w].pc = "idle"
    BY WriterTypes DEF MemoryInit
  <2>3. InColumn = {} /\ Listed = {} /\ Held = {}
    BY <2>1, <2>2 DEF InColumn, Listed, Held
  <2> QED BY <2>1, <2>2, <2>3 DEF MemoryInv, MemoryTypeOK, StatusesAgree, OneColumnPerKey,
                                  UpdatesAreOfRecords
<1> QED BY <1>1, MemoryInductive, PTL DEF MemorySpec

\* A preference has one voice, whatever updates and retrievals interleave, but for
\* the write-backs of retrievals (memory.py create, update, retrieve_memories).
THEOREM OneVoice == MemorySpec => []OneVoicePerKey
<1>1. MemoryInv => OneVoicePerKey
  <2> SUFFICES ASSUME MemoryInv, NEW key \in Keys \ {NoKey}
               PROVE  Cardinality({m \in Listed \ overlapped : memory[m].key = key}) <= 1
    BY DEF OneVoicePerKey
  <2> DEFINE S == {m \in Listed \ overlapped : memory[m].key = key}
  <2>1. \A m, n \in S : m = n
    BY DEF MemoryInv, StatusesAgree, OneColumnPerKey
  <2> HIDE DEF S
  <2>2. S = {} \/ \E m : S = {m}
    <3>1. ASSUME NEW m \in S PROVE S = {m}
      BY <2>1
    <3> QED BY <3>1
  <2>3. Cardinality(S) \in {0, 1}
    BY <2>2, FS_EmptySet, FS_Singleton
  <2> QED BY <2>3 DEF S
<1> QED BY <1>1, MemoryInvariance, PTL
=============================================================================
