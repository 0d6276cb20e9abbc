---------------------------- MODULE MC_Settings ----------------------------
(***************************************************************************)
(* Bounds for Settings: two providers, two requests, days of three hours   *)
(* of three minutes, weeks of three days.  The schedules: the default; one *)
(* that is refused; one with periods of several hours on two days, within  *)
(* an hour, over midnight, and up to midnight; and one with a cron pattern *)
(* and an interval that it does not use.                                   *)
(***************************************************************************)
EXTENDS Settings, TLC

Plain == [mode |-> "cron", minutes |-> 2, cron |-> "env", periods |-> {}]
Refused == [mode |-> "interval", minutes |-> 1, cron |-> "env",
            periods |-> {[days |-> {0}, start |-> 4, end |-> 4]}]
Silence == [mode |-> "interval", minutes |-> 0, cron |-> "bad",
            periods |-> {[days |-> {0, 1}, start |-> 1, end |-> 8],
                         [days |-> {2}, start |-> 4, end |-> 5],
                         [days |-> {2}, start |-> 7, end |-> 2],
                         [days |-> {1}, start |-> 3, end |-> 0]}]
Unstorable == [mode |-> "cron", minutes |-> -1, cron |-> "own", periods |-> {}]

MCSchedules == {Plain, Refused, Silence, Unstorable}
MCEnvSchedule == Plain
Symmetry == Permutations(Requests)
============================================================================
