------------------------------ MODULE DataAssets ------------------------------
(***************************************************************************)
(* Datasets (server/data_assets.py) and the analyses that run over them     *)
(* (server/analysis_runtime.py).  A dataset is a row and a file; an         *)
(* analysis is a receipt, written before and after its child process, and   *)
(* the artifacts registered in between.                                     *)
(***************************************************************************)
EXTENDS Naturals, FiniteSets

CONSTANTS
    Fingerprints,   \* contents of datasets
    Senders,        \* uploads in flight
    Analyses,       \* executions, each its own id and directory
    Outputs,        \* files a child process may leave
    MaxOutputs      \* ANALYSIS_MAX_ARTIFACTS

ASSUME DataAssumption == MaxOutputs \in Nat /\ IsFiniteSet(Outputs)

VARIABLES
    asset,      \* table data_assets: the file of each fingerprint's row
    stored,     \* the files under datasets/; a file is named by its sender
    sender,
    analysis,   \* a call of AnalysisRuntime.run
    receipt,    \* table analysis_executions
    artifact    \* table artifacts: the outputs registered of each execution

dataVars == <<asset, stored, sender, analysis, receipt, artifact>>

NoFile == "none"

\* A sender is used once: file names are new ids.
SenderState == [pc : {"new", "write", "parse", "insert", "drop", "done"},
                content : Fingerprints]

\* outputs: what the child left; next: those still to be registered; error:
\* result.error_type.
AnalysisState ==
    [pc : {"new", "saved", "child", "register", "conclude", "done"},
     of : Fingerprints, outputs : SUBSET Outputs, next : SUBSET Outputs, error : BOOLEAN]

\* listed: the artifacts in the receipt.
Receipt == [status : {"none", "failed", "completed"}, listed : SUBSET Outputs]

DataTypeOK ==
    /\ asset \in [Fingerprints -> Senders \union {NoFile}]
    /\ stored \in SUBSET Senders
    /\ sender \in [Senders -> SenderState]
    /\ analysis \in [Analyses -> AnalysisState]
    /\ receipt \in [Analyses -> Receipt]
    /\ artifact \in [Analyses -> SUBSET Outputs]

DataInit ==
    /\ asset = [x \in Fingerprints |-> NoFile]
    /\ stored = {}
    /\ sender \in [Senders -> [pc : {"new"}, content : Fingerprints]]
    /\ analysis \in [Analyses -> [pc : {"new"}, of : Fingerprints, outputs : {{}},
                                  next : {{}}, error : {FALSE}]]
    /\ receipt = [a \in Analyses |-> [status |-> "none", listed |-> {}]]
    /\ artifact = [a \in Analyses |-> {}]

SendTo(s, pc) == sender' = [sender EXCEPT ![s].pc = pc]
AnalyzeTo(a, pc) == analysis' = [analysis EXCEPT ![a].pc = pc]

-----------------------------------------------------------------------------
(* DataStore.upload and delete.                                             *)

\* A dataset of this workspace with the same content is returned.
LookForAsset(s) ==
    /\ sender[s].pc = "new"
    /\ SendTo(s, IF asset[sender[s].content] = NoFile THEN "write" ELSE "done")
    /\ UNCHANGED <<asset, stored, analysis, receipt, artifact>>

WriteFile(s) ==
    /\ sender[s].pc = "write"
    /\ stored' = stored \union {s}
    /\ SendTo(s, "parse")
    /\ UNCHANGED <<asset, analysis, receipt, artifact>>

\* A file that cannot be read as tables is removed; the process may also die.
ParseFile(s) ==
    /\ sender[s].pc = "parse"
    /\ SendTo(s, "insert") \/ SendTo(s, "drop") \/ SendTo(s, "done")
    /\ UNCHANGED <<asset, stored, analysis, receipt, artifact>>

\* INSERT OR IGNORE, then the row that is there: the file goes if it is not its own.
InsertAsset(s) ==
    /\ sender[s].pc = "insert"
    /\ LET x == sender[s].content
       IN  /\ asset' = IF asset[x] = NoFile THEN [asset EXCEPT ![x] = s] ELSE asset
           /\ SendTo(s, IF asset'[x] = s THEN "done" ELSE "drop")
    /\ UNCHANGED <<stored, analysis, receipt, artifact>>

DropFile(s) ==
    /\ sender[s].pc = "drop"
    /\ stored' = stored \ {s}
    /\ SendTo(s, "done")
    /\ UNCHANGED <<asset, analysis, receipt, artifact>>

\* The row only; the file stays for the analyses that go back to it.
DeleteAsset(x) ==
    /\ asset[x] # NoFile
    /\ asset' = [asset EXCEPT ![x] = NoFile]
    /\ UNCHANGED <<stored, sender, analysis, receipt, artifact>>

-----------------------------------------------------------------------------
(* AnalysisRuntime.run.                                                     *)

SaveReceipt(a, status, listed) ==
    receipt' = [receipt EXCEPT ![a] = [status |-> status, listed |-> listed]]

\* The datasets are looked up, then the provisional receipt is saved as failed.
BeginAnalysis(a) ==
    /\ analysis[a].pc = "new"
    /\ asset[analysis[a].of] # NoFile /\ asset[analysis[a].of] \in stored
    /\ SaveReceipt(a, "failed", {})
    /\ AnalyzeTo(a, "saved")
    /\ UNCHANGED <<asset, stored, sender, artifact>>

\* Unsafe code and a child that cannot be started save the receipt and end; a
\* death or an exception while the files are copied leaves the provisional one.
CheckCode(a) ==
    /\ analysis[a].pc = "saved"
    /\ \/ AnalyzeTo(a, "child") /\ UNCHANGED receipt
       \/ AnalyzeTo(a, "done") /\ SaveReceipt(a, "failed", {})
       \/ AnalyzeTo(a, "done") /\ UNCHANGED receipt
    /\ UNCHANGED <<asset, stored, sender, artifact>>

\* The child ends by itself, well or not, or is killed at a limit; what it left
\* is counted again when it has ended.
RunChild(a) ==
    /\ analysis[a].pc = "child"
    /\ \E left \in SUBSET Outputs, failed \in BOOLEAN :
          LET error == failed \/ Cardinality(left) > MaxOutputs
          IN  analysis' = [analysis EXCEPT ![a].outputs = left, ![a].next = left,
                              ![a].error = error,
                              ![a].pc = IF error THEN "conclude" ELSE "register"]
    /\ UNCHANGED <<asset, stored, sender, receipt, artifact>>

StatusBeforeRegistering(a) == "completed"    \* mutant: a failed registration is not looked at

FinalStatus(a) == IF analysis[a].error THEN "failed" ELSE "completed"

\* One row an output; a kind that is not allowed or a failing write ends the loop.
RegisterArtifact(a) ==
    /\ analysis[a].pc = "register"
    /\ \/ /\ analysis[a].next = {}
          /\ AnalyzeTo(a, "conclude")
          /\ UNCHANGED artifact
       \/ \E o \in analysis[a].next :
             /\ artifact' = [artifact EXCEPT ![a] = @ \union {o}]
             /\ analysis' = [analysis EXCEPT ![a].next = @ \ {o}]
       \/ /\ analysis[a].next # {}
          /\ analysis' = [analysis EXCEPT ![a].pc = "conclude", ![a].error = TRUE]
          /\ UNCHANGED artifact
    /\ UNCHANGED <<asset, stored, sender, receipt>>

\* The receipt lists what was registered, whatever its status; or the process dies.
ConcludeAnalysis(a) ==
    /\ analysis[a].pc = "conclude"
    /\ SaveReceipt(a, FinalStatus(a), artifact[a]) \/ UNCHANGED receipt
    /\ AnalyzeTo(a, "done")
    /\ UNCHANGED <<asset, stored, sender, artifact>>

DataNext ==
    \/ \E s \in Senders :
          LookForAsset(s) \/ WriteFile(s) \/ ParseFile(s) \/ InsertAsset(s) \/ DropFile(s)
    \/ \E x \in Fingerprints : DeleteAsset(x)
    \/ \E a \in Analyses :
          BeginAnalysis(a) \/ CheckCode(a) \/ RunChild(a) \/ RegisterArtifact(a) \/ ConcludeAnalysis(a)

DataSpec == DataInit /\ [][DataNext]_dataVars

-----------------------------------------------------------------------------
(* Properties.                                                              *)

\* The file of a dataset's row is there, though uploads of one content race and
\* rows are deleted between (data_assets.py upload).
RowsHaveFiles == \A x \in Fingerprints : asset[x] # NoFile => asset[x] \in stored

\* An artifact has a receipt to refer to, and a completed receipt lists every
\* output of its child, each of them registered (analysis_runtime.py run).
ArtifactsAreAccounted ==
    \A a \in Analyses :
        /\ artifact[a] # {} => receipt[a].status # "none"
        /\ receipt[a].status = "completed" =>
              /\ receipt[a].listed = analysis[a].outputs
              /\ receipt[a].listed = artifact[a]
              /\ Cardinality(artifact[a]) <= MaxOutputs

\* Nothing the registries list is missing, whichever step of an upload or of an
\* analysis fails.
RegistriesAreWhole == RowsHaveFiles /\ ArtifactsAreAccounted
=============================================================================
