--------------------------- MODULE MC_Dispatchers ---------------------------
(***************************************************************************)
(* Bounds for Dispatchers.  The limits of 50 rows per run become 2, so     *)
(* that a run continues as new while rows are left.                        *)
(***************************************************************************)
EXTENDS Dispatchers
============================================================================
