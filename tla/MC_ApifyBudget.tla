--------------------------- MODULE MC_ApifyBudget ---------------------------
(***************************************************************************)
(* Bounds for ApifyBudget: three searches, three runs in the account, two  *)
(* periods, a budget of two cents, and costs that round up and down.       *)
(***************************************************************************)
EXTENDS ApifyBudget, TLC

Symmetry == Permutations(Scrapers) \cup Permutations(Runs)
============================================================================
