---------------------------- MODULE MC_Scrapes ----------------------------
(***************************************************************************)
(* Bounds for Scrapes: one source, whose worker queue two workflows share, *)
(* and the synchronous callers.                                            *)
(***************************************************************************)
EXTENDS Scrapes
============================================================================
