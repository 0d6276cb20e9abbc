---------------------------- MODULE MC_ScrapeRun ----------------------------
(***************************************************************************)
(* Bounds for ScrapeRun: two rounds of a query for remote and hybrid jobs  *)
(* (on Indeed two runs) and an onsite query, on LinkedIn after a global    *)
(* search.                                                                 *)
(***************************************************************************)
EXTENDS ScrapeRun

MCQueries == <<<<"remote", "hybrid">>, <<"onsite">>>>
=============================================================================
