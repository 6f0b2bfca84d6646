------------------------------ MODULE Ingestion ------------------------------
(***************************************************************************)
(* DocumentIngestionPipeline (server/rag/ingestion.py): uploads of the same *)
(* content share one PDF, one index directory and one status row.  The      *)
(* lock of a file is a lock of one process; the files and the rows are      *)
(* everybody's.  What precedes the file id (the size limit, the name, the   *)
(* digest) leaves nothing behind.                                           *)
(***************************************************************************)
EXTENDS Naturals

CONSTANTS
    Uploads,        \* threads that ingest
    ProcessOf,      \* the process of each
    Pdfs,           \* file ids, the digests of contents
    OwnRegistry,    \* indexes.sqlite3; otherwise the rows are in PostgreSQL
    MaxDeaths       \* bound: deaths of processes

\* "free" stands for the lock that nobody holds.
ASSUME IngestionAssumption ==
    OwnRegistry \in BOOLEAN /\ MaxDeaths \in Nat /\ "free" \notin Uploads

VARIABLES
    indexRow,   \* table indexes
    pdf,        \* <file_id>.pdf is in the workspace
    index,      \* chroma_<file_id> is in the workspace, whole
    fileLock,   \* _file_locks of each process
    upload,     \* the call of ingest in each thread
    running,    \* the processes that are alive
    deaths,
    shared      \* history: two processes have held the lock of the file at once

ingestVars == <<indexRow, pdf, index, fileLock, upload, running, deaths, shared>>

Procs == {ProcessOf[i] : i \in Uploads}

InProgress == {"validating", "indexing"}

NoUpload == [pc |-> "idle"]

\* created: created_pdf.
UploadState ==
    {NoUpload} \union
    [pc : {"received", "validate", "enter", "reuse", "reload", "mark", "place", "build",
           "move", "load", "undo", "failed", "ready", "failing"},
     file : Pdfs, created : BOOLEAN]

IngestTypeOK ==
    /\ indexRow \in [Pdfs -> [status : InProgress \union {"none", "ready", "failed"},
                              owner : Procs \union {"none"}]]
    /\ pdf \in [Pdfs -> BOOLEAN] /\ index \in [Pdfs -> BOOLEAN]
    /\ fileLock \in [Procs -> [Pdfs -> Uploads \union {"free"}]]
    /\ upload \in [Uploads -> UploadState]
    /\ running \in SUBSET Procs /\ deaths \in 0..MaxDeaths
    /\ shared \in SUBSET Pdfs

IngestInit ==
    /\ indexRow = [f \in Pdfs |-> [status |-> "none", owner |-> "none"]]
    /\ pdf = [f \in Pdfs |-> FALSE] /\ index = [f \in Pdfs |-> FALSE]
    /\ fileLock = [p \in Procs |-> [f \in Pdfs |-> "free"]]
    /\ upload = [i \in Uploads |-> NoUpload]
    /\ running = Procs /\ deaths = 0
    /\ shared = {}

At(i, pc) == upload[i].pc = pc
Goto(i, pc) == upload' = [upload EXCEPT ![i].pc = pc]
Leaves(i) == upload' = [upload EXCEPT ![i] = NoUpload]
FileOf(i) == upload[i].file

\* _set_status: an upsert, with the process as the owner while it is in progress.
SetStatusRow(i, status) ==
    indexRow' = [indexRow EXCEPT ![FileOf(i)] =
                    [status |-> status,
                     owner |-> IF status \in InProgress THEN ProcessOf[i] ELSE "none"]]

Unlock(i) == fileLock' = [fileLock EXCEPT ![ProcessOf[i]][FileOf(i)] = "free"]

-----------------------------------------------------------------------------
(* ingest, up to the lock.                                                  *)

Receive(i, f) ==
    /\ At(i, "idle") /\ ProcessOf[i] \in running
    /\ upload' = [upload EXCEPT ![i] = [pc |-> "received", file |-> f, created |-> FALSE]]
    /\ UNCHANGED <<indexRow, pdf, index, fileLock, running, deaths, shared>>

MarkValidating(i) ==
    /\ At(i, "received")
    /\ SetStatusRow(i, "validating")
    /\ Goto(i, "validate")
    /\ UNCHANGED <<pdf, index, fileLock, running, deaths, shared>>

ValidatePdf(i) ==
    /\ At(i, "validate")
    /\ Goto(i, "enter") \/ Goto(i, "failing")
    /\ UNCHANGED <<indexRow, pdf, index, fileLock, running, deaths, shared>>

\* An exception outside the build: the lock, if it was held, is free by now.
FailUpload(i) ==
    /\ At(i, "failing")
    /\ SetStatusRow(i, "failed")
    /\ Leaves(i)
    /\ UNCHANGED <<pdf, index, fileLock, running, deaths, shared>>

FileIsFree(i) == fileLock[ProcessOf[i]][FileOf(i)] = "free"

\* The lock, and whether the index is there.
EnterFile(i) ==
    /\ At(i, "enter") /\ FileIsFree(i)
    /\ fileLock' = [fileLock EXCEPT ![ProcessOf[i]][FileOf(i)] = i]
    /\ shared' = IF \E p \in Procs \ {ProcessOf[i]} : fileLock[p][FileOf(i)] # "free"
                 THEN shared \union {FileOf(i)} ELSE shared
    /\ Goto(i, IF index[FileOf(i)] THEN "reuse" ELSE "mark")
    /\ UNCHANGED <<indexRow, pdf, index, running, deaths>>

-----------------------------------------------------------------------------
(* An index that exists is loaded.                                          *)

\* The upload becomes the PDF if there is none.
ReuseIndex(i) ==
    /\ At(i, "reuse")
    /\ pdf' = [pdf EXCEPT ![FileOf(i)] = TRUE]
    /\ Goto(i, "reload")
    /\ UNCHANGED <<indexRow, index, fileLock, running, deaths, shared>>

Reload(i) ==
    /\ At(i, "reload")
    /\ \/ Goto(i, "ready") /\ UNCHANGED fileLock
       \/ Goto(i, "failing") /\ Unlock(i)
    /\ UNCHANGED <<indexRow, pdf, index, running, deaths, shared>>

-----------------------------------------------------------------------------
(* Otherwise it is built beside, and moved in place.                        *)

MarkIndexing(i) ==
    /\ At(i, "mark")
    /\ SetStatusRow(i, "indexing")
    /\ Goto(i, "place")
    /\ UNCHANGED <<pdf, index, fileLock, running, deaths, shared>>

PlacePdf(i) ==
    /\ At(i, "place")
    /\ upload' = [upload EXCEPT ![i].pc = "build", ![i].created = ~pdf[FileOf(i)]]
    /\ pdf' = [pdf EXCEPT ![FileOf(i)] = TRUE]
    /\ UNCHANGED <<indexRow, index, fileLock, running, deaths, shared>>

\* The index worker, a process of its own: it may fail or take too long.
BuildIndex(i) ==
    /\ At(i, "build")
    /\ Goto(i, "move") \/ Goto(i, "undo")
    /\ UNCHANGED <<indexRow, pdf, index, fileLock, running, deaths, shared>>

\* An index that has appeared meanwhile is an error, and stays.
MoveIndex(i) ==
    /\ At(i, "move")
    /\ index' = [index EXCEPT ![FileOf(i)] = TRUE]
    /\ Goto(i, IF index[FileOf(i)] THEN "undo" ELSE "load")
    /\ UNCHANGED <<indexRow, pdf, fileLock, running, deaths, shared>>

LoadIndex(i) ==
    /\ At(i, "load")
    /\ Goto(i, "ready") \/ Goto(i, "undo")
    /\ UNCHANGED <<indexRow, pdf, index, fileLock, running, deaths, shared>>

\* The PDF goes if this call put it there.
UndoPdf(i) ==
    /\ At(i, "undo")
    /\ pdf' = [pdf EXCEPT ![FileOf(i)] = @ /\ ~upload[i].created]
    /\ Goto(i, "failed")
    /\ UNCHANGED <<indexRow, index, fileLock, running, deaths, shared>>

\* The last status, under the lock.
Conclude(i) ==
    /\ upload[i].pc \in {"ready", "failed"}
    /\ SetStatusRow(i, upload[i].pc)
    /\ Unlock(i)
    /\ Leaves(i)
    /\ UNCHANGED <<pdf, index, running, deaths, shared>>

-----------------------------------------------------------------------------
(* A process dies; a later one starts in its place.                         *)

ProcessDies(p) ==
    /\ p \in running /\ deaths < MaxDeaths
    /\ running' = running \ {p} /\ deaths' = deaths + 1
    /\ upload' = [i \in Uploads |-> IF ProcessOf[i] = p THEN NoUpload ELSE upload[i]]
    /\ fileLock' = [fileLock EXCEPT ![p] = [f \in Pdfs |-> "free"]]
    /\ UNCHANGED <<indexRow, pdf, index, shared>>

\* fail_interrupted: rows in progress whose owner is not another live process.
CutShortNever(p, f) == FALSE    \* mutant: the start does not look at the registry

CutShort(p, f) ==
    /\ OwnRegistry
    /\ indexRow[f].status \in InProgress
    /\ indexRow[f].owner \notin running

StartProcess(p) ==
    /\ p \in Procs \ running
    /\ running' = running \union {p}
    /\ indexRow' = [f \in Pdfs |-> IF CutShort(p, f)
                                   THEN [status |-> "failed", owner |-> "none"]
                                   ELSE indexRow[f]]
    /\ UNCHANGED <<pdf, index, fileLock, upload, deaths, shared>>

IngestNext ==
    \/ \E i \in Uploads :
          \/ \E f \in Pdfs : Receive(i, f)
          \/ MarkValidating(i) \/ ValidatePdf(i) \/ FailUpload(i) \/ EnterFile(i)
          \/ ReuseIndex(i) \/ Reload(i) \/ MarkIndexing(i) \/ PlacePdf(i) \/ BuildIndex(i)
          \/ MoveIndex(i) \/ LoadIndex(i) \/ UndoPdf(i) \/ Conclude(i)
    \/ \E p \in Procs : ProcessDies(p) \/ StartProcess(p)

IngestSpec == IngestInit /\ [][IngestNext]_ingestVars

-----------------------------------------------------------------------------
(* Properties.                                                              *)

\* A file whose row says ready has a whole index, and its PDF unless two
\* processes were at work on it at once (ingestion.py ingest).
ReadyIsIndexed ==
    \A f \in Pdfs :
        indexRow[f].status = "ready" => index[f] /\ (pdf[f] \/ f \in shared)

\* With a registry of its own, a row in progress has a thread at work on it, or
\* its process is dead and its next start settles it (ingestion.py fail_interrupted).
ProgressHasAnOwner ==
    \A f \in Pdfs :
        OwnRegistry /\ indexRow[f].status \in InProgress =>
            \/ indexRow[f].owner \notin running
            \/ \E i \in Uploads : /\ ProcessOf[i] = indexRow[f].owner
                                  /\ ~At(i, "idle") /\ FileOf(i) = f

\* The registry tells of every index what is on the disk, or that someone is
\* at work on it, though processes die at any step of an upload.
IngestSound == ReadyIsIndexed /\ ProgressHasAnOwner
=============================================================================
