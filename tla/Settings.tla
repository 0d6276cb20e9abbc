------------------------------ MODULE Settings ------------------------------
(***************************************************************************)
(* The operator's settings: the word lists and the notification toggle     *)
(* (one row), a row per provider, and the notification schedule, which is  *)
(* in two stores, as a row and as a schedule installed in Temporal.        *)
(* Requests change them one statement at a time, interleaved: PUT and      *)
(* reset of one of them, and the import of a shared bundle.  A boot seeds  *)
(* what is missing and installs the stored schedule again.                 *)
(*                                                                         *)
(* The value of a setting is the request that wrote it, or "seed".  The    *)
(* schedule is kept whole, down to the calendars that make Temporal skip   *)
(* the silent minutes.  Faults: "errors" (a statement or a call fails,     *)
(* before or after it took effect) and "crash" (the API dies).             *)
(***************************************************************************)
EXTENDS Integers, FiniteSets

CONSTANTS
  Providers, Requests,
  Schedules,         \* schedules a request may carry
  EnvSchedule,       \* the schedule from the environment (NOTIFY_CRON)
  NoSchedule,
  MinutesPerHour, HoursPerDay, DaysPerWeek,
  MaxInterval,       \* maxNotificationInterval
  DefaultInterval,
  MaxSilentPeriods,
  Faults

MinutesPerDay == MinutesPerHour * HoursPerDay

----------------------------------------------------------------------------
(* A schedule: its mode, interval and cron pattern ("bad" does not parse), *)
(* and silent periods [days, start, end] in minutes of a day.              *)

ValidPeriod(p) == p.start # p.end /\ p.days # {}

Normalized(s) ==
  [s EXCEPT !.minutes = IF @ = 0 THEN DefaultInterval ELSE @]

(* Whether normalizeNotificationSchedule accepts a schedule. *)
Accepted(s) ==
  /\ s.mode \in {"interval", "cron"}
  /\ s.mode = "interval" => Normalized(s).minutes \in 1 .. MaxInterval
  /\ s.mode = "cron" => s.cron # "bad"
  /\ Cardinality(s.periods) <= MaxSilentPeriods
  /\ \A p \in s.periods : ValidPeriod(p)

(* Fault: the interval has no CHECK constraint. *)
FaultyStorable(s) == s.mode \in {"interval", "cron"}

(* The CHECK constraints of the table. *)
Storable(s) == s.mode \in {"interval", "cron"} /\ s.minutes \in 1 .. MaxInterval

SilentCalendar(day, firstHour, lastHour, firstMinute, lastMinute) ==
  [day |-> day, hours |-> firstHour .. lastHour, minutes |-> firstMinute .. lastMinute]

(* Fault: the hour in which the period ends is silent as a whole. *)
FaultyFullHours(day, cursor, end) ==
  IF end > cursor
  THEN {SilentCalendar(day, cursor \div MinutesPerHour, end \div MinutesPerHour,
                       0, MinutesPerHour - 1)}
  ELSE {}

(* The part of a range that is full hours: from cursor to fullEnd. *)
FullHours(day, cursor, fullEnd) ==
  IF fullEnd > cursor
  THEN {SilentCalendar(day, cursor \div MinutesPerHour, fullEnd \div MinutesPerHour - 1,
                       0, MinutesPerHour - 1)}
  ELSE {}

(* A part of one hour. *)
PartOfHour(day, cursor, stop) ==
  IF cursor < stop
  THEN {SilentCalendar(day, cursor \div MinutesPerHour, cursor \div MinutesPerHour,
                       cursor % MinutesPerHour, (stop - 1) % MinutesPerHour)}
  ELSE {}

(* The minutes from start to end of a day: the rest of an hour that has    *)
(* begun, full hours, and the begin of a last one.                         *)
MinuteRangeCalendars(day, start, end) ==
  LET nextHour == start + (MinutesPerHour - (start % MinutesPerHour))
      afterHead == IF start % MinutesPerHour = 0 THEN start
                   ELSE IF end < nextHour THEN end ELSE nextHour
      fullEnd == end - (end % MinutesPerHour)
      afterFull == IF fullEnd > afterHead THEN fullEnd ELSE afterHead
  IN  IF start >= end THEN {}
      ELSE PartOfHour(day, start, afterHead)
             \cup FullHours(day, afterHead, fullEnd)
             \cup PartOfHour(day, afterFull, end)

SilentCalendars(periods) ==
  UNION {UNION {
    IF p.start < p.end THEN MinuteRangeCalendars(day, p.start, p.end)
    ELSE MinuteRangeCalendars(day, p.start, MinutesPerDay)
           \cup MinuteRangeCalendars((day + 1) % DaysPerWeek, 0, p.end)
    : day \in p.days} : p \in periods}

(* What Temporal is told; "periods" is history.                            *)
ScheduleOptions(s) ==
  [cadence |-> IF s.mode = "interval" THEN <<"every", s.minutes>> ELSE <<"cron", s.cron>>,
   skip |-> SilentCalendars(s.periods),
   periods |-> s.periods]

ASSUME SettingsAssumption ==
  /\ MinutesPerHour \in Nat \ {0} /\ HoursPerDay \in Nat \ {0}
  /\ DaysPerWeek \in Nat \ {0}
  /\ MaxInterval \in Nat \ {0} /\ DefaultInterval \in 1 .. MaxInterval
  /\ MaxSilentPeriods \in Nat
  /\ \A s \in Schedules : \A p \in s.periods :
       /\ p.days \subseteq 0 .. DaysPerWeek - 1
       /\ p.start \in 0 .. MinutesPerDay - 1 /\ p.end \in 0 .. MinutesPerDay - 1
  /\ EnvSchedule \in Schedules /\ Accepted(EnvSchedule) /\ Storable(EnvSchedule)
  /\ \A s \in Schedules : /\ DOMAIN s = {"mode", "minutes", "cron", "periods"}
                           /\ Normalized(s) # NoSchedule
  /\ {"words", "toggle", "schedule", "installed"} \cap Providers = {}
  /\ {"absent", "seed"} \cap Requests = {}
  /\ Faults \subseteq {"errors", "crash"}

----------------------------------------------------------------------------
VARIABLES
  api,        \* "down", "seeding" or "up"
  value,      \* words, toggle and providers: who wrote them
  schedule,   \* the row of the schedule, or NoSchedule
  installed,  \* the schedule in Temporal, or NoSchedule
  req,        \* requests in flight
  disturbed   \* history: two changes of the schedule overlapped, or one ended
              \* between its two writes, and none has been whole since

vars == <<api, value, schedule, installed, req, disturbed>>

Rows == {"words", "toggle"} \cup Providers

IdleRequest == [pc |-> "idle", names |-> {}, todo |-> {},
                by |-> "seed", schedule |-> Normalized(EnvSchedule)]

(* What requests that pass the validation of their bodies write.  Word     *)
(* lists and providers can be reset as well.                               *)
ScheduleChange == {"installed", "schedule", "toggle"}
SearchChange == {"words"}
ProviderChanges == {{p} : p \in Providers}
Resets == {SearchChange} \cup ProviderChanges
Imports == {{"words", "toggle"} \cup P : P \in SUBSET Providers}
Bodies == {ScheduleChange, {"toggle"}} \cup Resets \cup Imports

(* The order of the statements; an import takes providers in any order. *)
Stage(s) ==
  CASE s = "installed" -> 1
    [] s = "schedule" -> 2
    [] s = "words" -> 3
    [] s = "toggle" -> 4
    [] OTHER -> 5
NextOf(todo) == {s \in todo : \A t \in todo : Stage(s) <= Stage(t)}

Halfway(q) == q.pc = "working" /\ "schedule" \in q.todo /\ "installed" \notin q.todo
Changing(r) == req[r].pc = "working" /\ "schedule" \in req[r].todo

Effective == IF schedule = NoSchedule THEN EnvSchedule ELSE schedule

Init ==
  /\ api = "down"
  /\ value = [s \in Rows |-> "absent"]
  /\ schedule = NoSchedule
  /\ installed = NoSchedule
  /\ req = [r \in Requests |-> IdleRequest]
  /\ disturbed = FALSE

----------------------------------------------------------------------------
(* Boot: seed what is missing, install the schedules, serve.               *)

Start ==
  /\ api = "down"
  /\ api' = "seeding"
  /\ UNCHANGED <<value, schedule, installed, req, disturbed>>

(* Fault: the seed replaces the row of the word lists and the toggle. *)
FaultySeedSearch ==
  /\ api = "seeding"
  /\ value' = [value EXCEPT !["words"] = "seed", !["toggle"] = "seed"]
  /\ UNCHANGED <<api, schedule, installed, req, disturbed>>

SeedSearch ==
  /\ api = "seeding"
  /\ value["words"] = "absent"
  /\ value' = [value EXCEPT !["words"] = "seed", !["toggle"] = "seed"]
  /\ UNCHANGED <<api, schedule, installed, req, disturbed>>

SeedProvider(p) ==
  /\ api = "seeding"
  /\ value["words"] # "absent" /\ value[p] = "absent"
  /\ value' = [value EXCEPT ![p] = "seed"]
  /\ UNCHANGED <<api, schedule, installed, req, disturbed>>

(* Fault: a boot installs the schedule of the environment. *)
FaultyInstallSchedules ==
  /\ api = "seeding"
  /\ \A s \in Rows : value[s] # "absent"
  /\ installed' = ScheduleOptions(EnvSchedule)
  /\ disturbed' = FALSE
  /\ api' = "up"
  /\ UNCHANGED <<value, schedule, req>>

InstallSchedules ==
  /\ api = "seeding"
  /\ \A s \in Rows : value[s] # "absent"
  /\ Accepted(Effective)
  /\ installed' = ScheduleOptions(Effective)
  /\ disturbed' = FALSE
  /\ api' = "up"
  /\ UNCHANGED <<value, schedule, req>>

(* Every error of a boot is fatal, and a dead API drops its requests. *)
Crash ==
  /\ "crash" \in Faults
  /\ api # "down"
  /\ api' = "down"
  /\ req' = [r \in Requests |-> IdleRequest]
  /\ disturbed' = (disturbed \/ \E r \in Requests : Halfway(req[r]))
  /\ UNCHANGED <<value, schedule, installed>>

----------------------------------------------------------------------------
(* Requests.  The whole body is validated before anything is written: one  *)
(* that is refused changes nothing and is no step.                         *)

Accept(r) ==
  /\ api = "up" /\ req[r].pc = "idle"
  /\ \E names \in Bodies, by \in {r, "seed"}, s \in Schedules :
       /\ by = "seed" => names \in Resets
       /\ IF "schedule" \in names THEN Accepted(s) ELSE s = EnvSchedule
       /\ req' = [req EXCEPT ![r] =
            [pc |-> "working", names |-> names, todo |-> names,
             by |-> by, schedule |-> Normalized(s)]]
       /\ disturbed' = (disturbed \/ ("schedule" \in names
                                        /\ \E q \in Requests : Changing(q)))
  /\ UNCHANGED <<api, value, schedule, installed>>

(* The effect of one statement or call of a request. *)
Apply(r, s) ==
  /\ IF s = "installed" THEN installed' = ScheduleOptions(req[r].schedule)
                        ELSE UNCHANGED installed
  /\ IF s = "schedule" THEN Storable(req[r].schedule) /\ schedule' = req[r].schedule
                       ELSE UNCHANGED schedule
  /\ IF s \in Rows THEN value' = [value EXCEPT ![s] = req[r].by]
                   ELSE UNCHANGED value

(* From here on the two stores depend on this request alone. *)
Settles(r, s) == s = "installed" /\ \A q \in Requests \ {r} : ~Changing(q)

Write(r) ==
  /\ api = "up" /\ req[r].pc = "working"
  /\ \E s \in NextOf(req[r].todo) :
       /\ Apply(r, s)
       /\ \E lost \in IF "errors" \in Faults THEN BOOLEAN ELSE {FALSE} :
            LET todo == req[r].todo \ {s}
                pc == IF lost THEN "failed" ELSE IF todo = {} THEN "ok" ELSE "working"
            IN  /\ req' = [req EXCEPT ![r].todo = todo, ![r].pc = pc]
                /\ disturbed' = IF s = "installed" /\ lost THEN TRUE
                                ELSE disturbed /\ ~Settles(r, s)
  /\ UNCHANGED api

(* A statement or call fails without effect, and the request ends there;   *)
(* the INSERT of the schedule does so by its CHECK constraints.            *)
Fail(r) ==
  /\ api = "up" /\ req[r].pc = "working"
  /\ \/ "errors" \in Faults
     \/ NextOf(req[r].todo) = {"schedule"} /\ ~Storable(req[r].schedule)
  /\ req' = [req EXCEPT ![r].pc = "failed"]
  /\ disturbed' = (disturbed \/ Halfway(req[r]))
  /\ UNCHANGED <<api, value, schedule, installed>>

Answer(r) ==
  /\ req[r].pc \in {"ok", "failed"}
  /\ req' = [req EXCEPT ![r] = IdleRequest]
  /\ UNCHANGED <<api, value, schedule, installed, disturbed>>

Next ==
  \/ Start \/ SeedSearch \/ InstallSchedules \/ Crash
  \/ \E p \in Providers : SeedProvider(p)
  \/ \E r \in Requests : Accept(r) \/ Write(r) \/ Fail(r) \/ Answer(r)

Spec == Init /\ [][Next]_vars
----------------------------------------------------------------------------
(* Correctness.                                                            *)

TypeOK ==
  /\ api \in {"down", "seeding", "up"}
  /\ value \in [Rows -> Requests \cup {"absent", "seed"}]
  /\ schedule # NoSchedule =>
       /\ schedule.mode \in {"interval", "cron"}
       /\ schedule.minutes \in 1 .. MaxInterval
       /\ \A p \in schedule.periods : p.days # {} /\ p.start # p.end
  /\ \A r \in Requests :
       /\ req[r].pc \in {"idle", "working", "ok", "failed"}
       /\ req[r].names \in Bodies \cup {{}}
       /\ req[r].todo \subseteq req[r].names
       /\ req[r].by \in {r, "seed"}
  /\ disturbed \in BOOLEAN

(* The minutes of a week in which the operator wants no notification run:  *)
(* those less than a period's length after one of its starts.              *)
WeekMinute(day, minute) == (day * MinutesPerDay) + minute
Silent(periods, day, minute) ==
  \E p \in periods : \E start \in {WeekMinute(d, p.start) : d \in p.days} :
    (WeekMinute(day, minute) - start) % (DaysPerWeek * MinutesPerDay)
      < (p.end - p.start) % MinutesPerDay

(* The minutes in which Temporal skips a run.                              *)
Skipped(calendars, day, minute) ==
  \E c \in calendars :
    /\ c.day = day
    /\ minute \div MinutesPerHour \in c.hours
    /\ minute % MinutesPerHour \in c.minutes

(* Temporal skips a run exactly in the silent minutes of the schedule that *)
(* is installed, also when a period crosses, or ends at, midnight.         *)
SilentIsSkipped ==
  installed # NoSchedule =>
    \A day \in 0 .. DaysPerWeek - 1, minute \in 0 .. MinutesPerDay - 1 :
      Skipped(installed.skip, day, minute)
        <=> Silent(installed.periods, day, minute)

(* While the API serves, Temporal runs the stored schedule, unless changes *)
(* of it overlapped or one ended between its writes; a change without      *)
(* others, and a boot, restore that.                                       *)
ScheduleAgrees ==
  api = "up" /\ ~disturbed /\ (\A r \in Requests : ~Halfway(req[r])) =>
    installed = ScheduleOptions(Effective)

(* Only a request that names a setting changes it: neither a boot nor an   *)
(* import of others takes away what the operator stored.                   *)
OnlyRequestsChange ==
  [][\A s \in Rows :
       value[s] # "absent" /\ value'[s] # value[s] =>
         \E r \in Requests : /\ req[r].pc = "working" /\ s \in req[r].names
                             /\ value'[s] = req[r].by]_vars

(* "Stores the cadence that was installed in Temporal": when the API is at *)
(* rest, the cadence in force is the one it shows.                         *)
StoredIsInstalled ==
  api = "up" /\ (\A r \in Requests : req[r].pc = "idle") =>
    installed = ScheduleOptions(Effective)
=============================================================================
