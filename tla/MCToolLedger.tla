---------------------------- MODULE MCToolLedger ----------------------------
(***************************************************************************)
(* ToolLedger on a small instance: two sensitive actions and one read, and *)
(* two threads that may both want each of them.                            *)
(***************************************************************************)
EXTENDS ToolLedger, TLC

LedgerSymmetry == Permutations(Threads) \union Permutations(Sensitive)
=============================================================================
