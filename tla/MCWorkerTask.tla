---------------------------- MODULE MCWorkerTask ----------------------------
(***************************************************************************)
(* WorkerTask on small instances: plans whose first step is a sensitive    *)
(* action, and the synthesis step the runtime appends; or a single read.   *)
(***************************************************************************)
EXTENDS WorkerTask, TLC

CONSTANTS post, search

PostThenSynthesize == <<{post}, {}>>

SearchOnly == <<{search}>>

WorkerSymmetry == Permutations(Threads) \union Permutations(Recoverers)
=============================================================================
