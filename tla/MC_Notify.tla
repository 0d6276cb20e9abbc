----------------------------- MODULE MC_Notify -----------------------------
(***************************************************************************)
(* Bounds for Notify: two rows, batches of one, a manual run beside the    *)
(* scheduled one, two attempts of each database activity.                  *)
(***************************************************************************)
EXTENDS Notify
============================================================================
