--------------------------- MODULE Settings_proof ---------------------------
(***************************************************************************)
(* Theorems about Settings: what a boot and requests do to the rows and to *)
(* the two stores of the schedule, for any providers, requests, schedules  *)
(* and faults.                                                             *)
(***************************************************************************)
EXTENDS Settings, TLAPS

Steps == Rows \cup {"installed", "schedule"}
RequestType ==
  [pc : {"idle", "working", "ok", "failed"}, names : SUBSET Steps, todo : SUBSET Steps,
   by : Requests \cup {"seed"}, schedule : {Normalized(s) : s \in Schedules}]

(* A request names what its body may write, and carries a schedule that    *)
(* was validated; it installs the schedule before it stores it.            *)
RequestOK(q) ==
  /\ q.names \in Bodies \cup {{}}
  /\ q.todo \subseteq q.names
  /\ "schedule" \in q.names =>
       \E s \in Schedules : Accepted(s) /\ q.schedule = Normalized(s)
  /\ "installed" \in q.todo => "schedule" \in q.todo

RequestsOK ==
  /\ req \in [Requests -> RequestType]
  /\ \A r \in Requests : RequestOK(req[r]) /\ req[r].by \in {r, "seed"}
  /\ api # "up" => \A r \in Requests : req[r].pc = "idle"

StoresOK ==
  /\ api \in {"down", "seeding", "up"}
  /\ disturbed \in BOOLEAN
  /\ value \in [Rows -> Requests \cup {"absent", "seed"}]
  /\ schedule # NoSchedule =>
       /\ schedule.mode \in {"interval", "cron"}
       /\ schedule.minutes \in 1 .. MaxInterval
       /\ \A p \in schedule.periods : p.days # {} /\ p.start # p.end

(* The word lists and the toggle are one row.  The API serves only after   *)
(* the seeds.                                                              *)
Seeded ==
  /\ value["words"] = "absent" => value["toggle"] = "absent"
  /\ api = "up" => \A s \in Rows : value[s] # "absent"

(* Without a disturbance at most one request is changing the schedule, and *)
(* what it has installed is still installed when it comes to store it.     *)
ChangesApart ==
  ~disturbed =>
    /\ \A r, q \in Requests : Changing(r) /\ Changing(q) => r = q
    /\ \A r \in Requests : Halfway(req[r]) => installed = ScheduleOptions(req[r].schedule)

IInv == RequestsOK /\ StoresOK /\ Seeded /\ ChangesApart /\ ScheduleAgrees
----------------------------------------------------------------------------
(* The schedule is stored after it was installed, and the toggle last.     *)
LEMMA OrderOfSteps ==
  ASSUME NEW todo, NEW s \in NextOf(todo)
  PROVE  /\ s \in todo
         /\ "installed" \in todo => s = "installed"
         /\ "schedule" \in todo /\ "installed" \notin todo => s = "schedule"
<1>1. s \in todo /\ \A t \in todo : Stage(s) <= Stage(t)
  BY DEF NextOf
<1>2. /\ Stage("installed") = 1 /\ Stage("schedule") = 2
      /\ s # "installed" => Stage(s) \in {2, 3, 4, 5}
      /\ s \notin {"installed", "schedule"} => Stage(s) \in {3, 4, 5}
  BY DEF Stage
<1> QED BY <1>1, <1>2

(* Only a change of the schedule installs or stores one.                   *)
LEMMA BodiesOfRequests ==
  ASSUME NEW names \in Bodies
  PROVE  /\ names \subseteq Steps
         /\ "schedule" \in names <=> "installed" \in names
BY SettingsAssumption
   DEF Bodies, Resets, Imports, ScheduleChange, SearchChange, ProviderChanges, Steps, Rows

LEMMA Initially == Init => IInv
<1> SUFFICES ASSUME Init PROVE IInv
  OBVIOUS
<1>1. EnvSchedule \in Schedules
  BY SettingsAssumption
<1>2. RequestsOK
  BY <1>1 DEF Init, RequestsOK, RequestType, RequestOK, IdleRequest
<1>3. StoresOK /\ Seeded
  BY DEF Init, StoresOK, Seeded, Rows
<1>4. ChangesApart /\ ScheduleAgrees
  BY DEF Init, ChangesApart, ScheduleAgrees, Changing, Halfway, IdleRequest
<1> QED BY <1>2, <1>3, <1>4 DEF IInv

----------------------------------------------------------------------------
(* A boot.                                                                 *)

LEMMA BootSteps ==
  ASSUME IInv, Start \/ SeedSearch \/ InstallSchedules \/ Crash
                 \/ (\E p \in Providers : SeedProvider(p))
  PROVE  IInv'
<1> USE DEF IInv
<1>1. CASE Start
  BY <1>1 DEF Start, RequestsOK, StoresOK, Seeded, ChangesApart, ScheduleAgrees, Changing, Halfway
<1>2. CASE SeedSearch
  <2>1. RequestsOK' /\ ChangesApart' /\ ScheduleAgrees'
    BY <1>2 DEF SeedSearch, RequestsOK, ChangesApart, ScheduleAgrees, Changing, Halfway, Effective
  <2>2. StoresOK'
    BY <1>2 DEF SeedSearch, StoresOK, Rows
  <2>3. Seeded'
    BY <1>2 DEF SeedSearch, StoresOK, Seeded, Rows
  <2> QED BY <2>1, <2>2, <2>3
<1>3. CASE InstallSchedules
  <2>1. RequestsOK' /\ StoresOK' /\ Seeded'
    BY <1>3 DEF InstallSchedules, RequestsOK, StoresOK, Seeded
  <2>2. ChangesApart' /\ ScheduleAgrees'
    BY <1>3 DEF InstallSchedules, RequestsOK, ChangesApart, ScheduleAgrees, Changing, Halfway,
      Effective
  <2> QED BY <2>1, <2>2
<1>4. CASE Crash
  <2>1. EnvSchedule \in Schedules
    BY SettingsAssumption
  <2>2. \A r \in Requests : req'[r] = IdleRequest
    BY <1>4 DEF Crash
  <2>3. RequestsOK'
    BY <1>4, <2>1 DEF Crash, RequestsOK, RequestType, RequestOK, IdleRequest
  <2>4. StoresOK' /\ Seeded'
    BY <1>4 DEF Crash, StoresOK, Seeded
  <2>5. ChangesApart' /\ ScheduleAgrees'
    BY <1>4, <2>2 DEF Crash, ChangesApart, ScheduleAgrees, Changing, Halfway, IdleRequest
  <2> QED BY <2>3, <2>4, <2>5
<1>5. ASSUME NEW p \in Providers, SeedProvider(p) PROVE IInv'
  <2>1. RequestsOK' /\ ChangesApart' /\ ScheduleAgrees'
    BY <1>5 DEF SeedProvider, RequestsOK, ChangesApart, ScheduleAgrees, Changing, Halfway, Effective
  <2>2. StoresOK'
    BY <1>5 DEF SeedProvider, StoresOK, Rows
  <2>3. Seeded'
    BY <1>5 DEF SeedProvider, StoresOK, Seeded, Rows
  <2> QED BY <2>1, <2>2, <2>3
<1> QED BY <1>1, <1>2, <1>3, <1>4, <1>5

----------------------------------------------------------------------------
(* Requests.                                                               *)

LEMMA AcceptStep ==
  ASSUME IInv, NEW r \in Requests, Accept(r)
  PROVE  IInv'
<1> USE DEF IInv
<1>1. PICK names \in Bodies, by \in {r, "seed"}, s \in Schedules :
        /\ "schedule" \in names => Accepted(s)
        /\ req' = [req EXCEPT ![r] =
             [pc |-> "working", names |-> names, todo |-> names,
              by |-> by, schedule |-> Normalized(s)]]
        /\ disturbed' = (disturbed \/ ("schedule" \in names
                                         /\ \E q \in Requests : Changing(q)))
  BY DEF Accept
<1>2. api = "up" /\ req[r].pc = "idle" /\ UNCHANGED <<api, value, schedule, installed>>
  BY DEF Accept
<1>3. names \subseteq Steps /\ ("schedule" \in names <=> "installed" \in names)
  BY BodiesOfRequests
<1>4. /\ req' \in [Requests -> RequestType]
      /\ RequestOK(req'[r]) /\ req'[r].by \in {r, "seed"}
      /\ \A q \in Requests \ {r} : req'[q] = req[q]
  BY <1>1, <1>3 DEF RequestsOK, RequestType, RequestOK
<1>5. RequestsOK'
  BY <1>2, <1>4 DEF RequestsOK
<1>6. StoresOK' /\ Seeded'
  BY <1>1, <1>2 DEF StoresOK, Seeded
<1>7. ~Halfway(req[r]) /\ ~Halfway(req'[r]) /\ ~Changing(r)
  BY <1>1, <1>2, <1>3 DEF Halfway, Changing, RequestsOK
<1>8. ASSUME ~disturbed' PROVE ~disturbed /\ ("schedule" \in names => \A q \in Requests : ~Changing(q))
  BY <1>1, <1>8 DEF StoresOK
<1>9. \A q \in Requests \ {r} : Changing(q)' <=> Changing(q)
  BY <1>4 DEF Changing
<1>10. Changing(r)' => "schedule" \in names
  BY <1>1 DEF Changing, RequestsOK
<1>11. ChangesApart'
  BY <1>2, <1>4, <1>7, <1>8, <1>9, <1>10 DEF ChangesApart
<1>12. ScheduleAgrees'
  BY <1>2, <1>4, <1>7, <1>8 DEF ScheduleAgrees, Effective
<1> QED BY <1>5, <1>6, <1>11, <1>12

LEMMA EndOfRequest ==
  ASSUME IInv, NEW r \in Requests, Fail(r) \/ Answer(r)
  PROVE  IInv'
<1> USE DEF IInv
<1>1. /\ UNCHANGED <<api, value, schedule, installed>>
      /\ disturbed' \in BOOLEAN
      /\ ~disturbed' => ~disturbed /\ ~Halfway(req[r])
  BY DEF Fail, Answer, StoresOK, Halfway
<1>2. EnvSchedule \in Schedules
  BY SettingsAssumption
<1>3. /\ req' \in [Requests -> RequestType]
      /\ RequestOK(req'[r]) /\ req'[r].by \in {r, "seed"}
      /\ req'[r].pc \in {"idle", "failed"}
      /\ api # "up" => req'[r].pc = "idle"
      /\ \A q \in Requests \ {r} : req'[q] = req[q]
  <2>1. CASE Fail(r)
    BY <2>1 DEF Fail, RequestsOK, RequestType, RequestOK
  <2>2. CASE Answer(r)
    BY <1>2, <2>2 DEF Answer, RequestsOK, RequestType, RequestOK, IdleRequest
  <2> QED BY <2>1, <2>2
<1>4. RequestsOK'
  BY <1>1, <1>3 DEF RequestsOK
<1>5. StoresOK' /\ Seeded'
  BY <1>1 DEF StoresOK, Seeded
<1>6. ~Halfway(req'[r]) /\ ~Changing(r)'
  BY <1>3 DEF Halfway, Changing
<1>7. ChangesApart'
  BY <1>1, <1>3, <1>6 DEF ChangesApart, Changing
<1>8. ScheduleAgrees'
  BY <1>1, <1>3, <1>6 DEF ScheduleAgrees, Effective
<1> QED BY <1>4, <1>5, <1>7, <1>8

LEMMA WriteStep ==
  ASSUME IInv, NEW r \in Requests, Write(r)
  PROVE  IInv'
<1> USE DEF IInv
<1>1. PICK s \in NextOf(req[r].todo), lost \in BOOLEAN :
        LET todo == req[r].todo \ {s}
            pc == IF lost THEN "failed" ELSE IF todo = {} THEN "ok" ELSE "working"
        IN  /\ Apply(r, s)
            /\ req' = [req EXCEPT ![r].todo = todo, ![r].pc = pc]
            /\ disturbed' = IF s = "installed" /\ lost THEN TRUE
                            ELSE disturbed /\ ~Settles(r, s)
  BY Zenon DEF Write
<1>2. api = "up" /\ req[r].pc = "working" /\ api' = api
  BY DEF Write
<1>3. /\ s \in req[r].todo
      /\ "installed" \in req[r].todo => s = "installed" /\ "schedule" \in req[r].todo
      /\ "schedule" \in req[r].todo /\ "installed" \notin req[r].todo => s = "schedule"
  BY OrderOfSteps DEF RequestsOK, RequestOK
<1>4. /\ req' \in [Requests -> RequestType]
      /\ \A q \in Requests \ {r} : req'[q] = req[q]
      /\ req'[r].todo = req[r].todo \ {s} /\ req'[r].names = req[r].names
      /\ req'[r].by = req[r].by /\ req'[r].schedule = req[r].schedule
      /\ ~lost /\ req'[r].todo # {} => req'[r].pc = "working"
  <2>1. req[r] \in RequestType
    BY DEF RequestsOK
  <2> QED BY <1>1, <2>1 DEF RequestsOK, RequestType
<1>5. RequestsOK'
  <2>1. RequestOK(req[r]) /\ req[r].by \in {r, "seed"}
    BY DEF RequestsOK
  <2>2. RequestOK(req'[r])
    BY <1>3, <1>4, <2>1 DEF RequestOK
  <2>3. \A q \in Requests \ {r} : RequestOK(req'[q]) /\ req'[q].by \in {q, "seed"}
    BY <1>4 DEF RequestsOK
  <2> QED BY <1>2, <1>4, <2>1, <2>2, <2>3 DEF RequestsOK
<1>6. /\ s = "installed" => installed' = ScheduleOptions(req[r].schedule)
      /\ s # "installed" => installed' = installed
      /\ s = "schedule" => Storable(req[r].schedule) /\ schedule' = req[r].schedule
      /\ s # "schedule" => schedule' = schedule
      /\ s \in Rows => value' = [value EXCEPT ![s] = req[r].by]
      /\ s \notin Rows => value' = value
  BY <1>1, Zenon DEF Apply
<1>7. StoresOK'
  <2>1. disturbed' \in BOOLEAN /\ api' \in {"down", "seeding", "up"}
    BY <1>1, <1>2 DEF StoresOK, Settles
  <2>2. value' \in [Rows -> Requests \cup {"absent", "seed"}]
    BY <1>6 DEF StoresOK, RequestsOK
  <2>3. CASE s = "schedule"
    <3>1. PICK n \in Schedules : Accepted(n) /\ req[r].schedule = Normalized(n)
      BY <1>3, <2>3 DEF RequestsOK, RequestOK
    <3>2. Normalized(n).periods = n.periods
      BY SettingsAssumption DEF Normalized
    <3> QED BY <1>6, <2>1, <2>2, <2>3, <3>1, <3>2 DEF StoresOK, Storable, Accepted, ValidPeriod
  <2> QED BY <1>6, <2>1, <2>2, <2>3 DEF StoresOK
<1>8. Seeded'
  <2>1. req[r].by # "absent"
    BY SettingsAssumption DEF RequestsOK
  <2> QED BY <1>2, <1>6, <2>1 DEF Seeded, StoresOK, Rows
<1>9. \A q \in Requests \ {r} : /\ Changing(q)' <=> Changing(q)
                              /\ Halfway(req'[q]) <=> Halfway(req[q])
  BY <1>4 DEF Changing, Halfway
<1>10. CASE s = "installed"
  <2>1. Changing(r)
    BY <1>2, <1>3, <1>10 DEF Changing
  <2>2. ASSUME ~disturbed' PROVE \A q \in Requests \ {r} : ~Changing(q)
    BY <1>1, <1>10, <2>1, <2>2 DEF Settles, ChangesApart
  <2>3. \A q \in Requests : Halfway(req[q]) => Changing(q)
    BY DEF Halfway, Changing
  <2>4. ChangesApart'
    BY <1>4, <1>6, <1>9, <1>10, <2>2, <2>3 DEF ChangesApart, Changing, Halfway
  <2>5. ~disturbed' => Halfway(req'[r])
    BY <1>1, <1>3, <1>4, <1>10 DEF Halfway
  <2>6. ScheduleAgrees'
    BY <2>5 DEF ScheduleAgrees
  <2> QED BY <1>5, <1>7, <1>8, <2>4, <2>6
<1>11. CASE s = "schedule"
  <2>1. Halfway(req[r]) /\ Changing(r)
    BY <1>2, <1>3, <1>11 DEF Halfway, Changing
  <2>2. disturbed' = disturbed
    BY <1>1, <1>11 DEF Settles, StoresOK
  <2>3. ~Changing(r)' /\ ~Halfway(req'[r])
    BY <1>4, <1>11 DEF Changing, Halfway
  <2>4. ChangesApart'
    BY <1>4, <1>6, <1>9, <1>11, <2>2, <2>3 DEF ChangesApart, Changing, Halfway
  <2>5. schedule' # NoSchedule
    BY <1>3, <1>6, <1>11, SettingsAssumption DEF RequestsOK, RequestOK
  <2>6. ScheduleAgrees'
    BY <1>6, <1>11, <2>1, <2>2, <2>5 DEF ScheduleAgrees, ChangesApart, Effective
  <2> QED BY <1>5, <1>7, <1>8, <2>4, <2>6
<1>12. CASE s \notin {"installed", "schedule"}
  <2>1. ~Changing(r) /\ ~Changing(r)' /\ ~Halfway(req[r]) /\ ~Halfway(req'[r])
    BY <1>3, <1>4, <1>12 DEF Changing, Halfway
  <2>2. disturbed' = disturbed
    BY <1>1, <1>12 DEF Settles, StoresOK
  <2>3. ChangesApart'
    BY <1>4, <1>6, <1>9, <1>12, <2>1, <2>2 DEF ChangesApart, Changing, Halfway
  <2>4. ScheduleAgrees'
    BY <1>2, <1>6, <1>9, <1>12, <2>1, <2>2 DEF ScheduleAgrees, Effective
  <2> QED BY <1>5, <1>7, <1>8, <2>3, <2>4
<1> QED BY <1>10, <1>11, <1>12

LEMMA Stuttering == IInv /\ UNCHANGED vars => IInv'
BY DEF IInv, vars, RequestsOK, StoresOK, Seeded, ChangesApart, ScheduleAgrees, Changing, Halfway,
  Effective

LEMMA Invariance == Spec => []IInv
<1>1. IInv /\ [Next]_vars => IInv'
  BY BootSteps, AcceptStep, EndOfRequest, WriteStep, Stuttering DEF Next
<1> QED BY Initially, <1>1, PTL DEF Spec

(* The rows hold what requests or seeds wrote, a stored schedule satisfies *)
(* the constraints of the table, and requests name what a body may.        *)
THEOREM TypeCorrect == Spec => []TypeOK
<1>1. IInv => TypeOK
  BY DEF IInv, RequestsOK, RequestOK, RequestType, StoresOK, TypeOK
<1> QED BY Invariance, <1>1, PTL

(* While the API serves, Temporal runs the stored schedule, unless changes *)
(* of it overlapped or one broke off between its two writes.               *)
THEOREM StoresAgree == Spec => []ScheduleAgrees
<1>1. IInv => ScheduleAgrees
  BY DEF IInv
<1> QED BY Invariance, <1>1, PTL

(* A boot seeds only what is missing, and a request writes only what it    *)
(* names.                                                                  *)
THEOREM NothingElseChanges == Spec => OnlyRequestsChange
<1> DEFINE Changes ==
      \A s \in Rows :
        value[s] # "absent" /\ value'[s] # value[s] =>
          \E r \in Requests : /\ req[r].pc = "working" /\ s \in req[r].names
                              /\ value'[s] = req[r].by
<1>1. ASSUME IInv, [Next]_vars PROVE Changes
  <2> SUFFICES ASSUME NEW s \in Rows, value[s] # "absent", value'[s] # value[s]
               PROVE  \E r \in Requests : /\ req[r].pc = "working" /\ s \in req[r].names
                                          /\ value'[s] = req[r].by
    OBVIOUS
  <2>1. value \in [Rows -> Requests \cup {"absent", "seed"}]
    BY <1>1 DEF IInv, StoresOK
  <2>2. ~SeedSearch
    BY <1>1, <2>1 DEF SeedSearch, IInv, Seeded
  <2>3. \A p \in Providers : ~SeedProvider(p)
    BY <2>1 DEF SeedProvider
  <2>4. ASSUME NEW r \in Requests, Write(r)
        PROVE  req[r].pc = "working" /\ s \in req[r].names /\ value'[s] = req[r].by
    <3>1. PICK t \in NextOf(req[r].todo) : Apply(r, t)
      BY <2>4, Zenon DEF Write
    <3>2. t \in req[r].names
      BY <1>1, OrderOfSteps DEF IInv, RequestsOK, RequestOK
    <3>3. t \in Rows /\ value' = [value EXCEPT ![t] = req[r].by]
      BY <3>1, Zenon DEF Apply
    <3> QED BY <2>1, <2>4, <3>2, <3>3 DEF Write
  <2>5. \E r \in Requests : Write(r)
    BY <1>1, <2>2, <2>3
       DEF Next, vars, Start, InstallSchedules, Crash, Accept, Fail, Answer
  <2> QED BY <2>4, <2>5
<1> QED BY Invariance, <1>1, PTL DEF Spec, OnlyRequestsChange

----------------------------------------------------------------------------
(* The calendars of the silent periods.                                    *)

(* Minutes and hours: quotient and remainder.                              *)
LEMMA DivMod ==
  ASSUME NEW h \in Nat \ {0}, NEW n \in Nat
  PROVE  /\ n = (h * (n \div h)) + (n % h)
         /\ n \div h \in Nat /\ n % h \in 0 .. h - 1
BY SMT

LEMMA Mono ==
  ASSUME NEW h \in Nat \ {0}, NEW a \in Int, NEW b \in Int, a < b
  PROVE  (h * a) + h <= h * b
<1>1. PICK d \in Nat : b = a + 1 + d
  <2>1. b - a - 1 \in Nat /\ b = a + 1 + (b - a - 1)
    OBVIOUS
  <2> QED BY <2>1
<1>2. h * b = (h * a) + h + (h * d)
  BY <1>1, SMT
<1>3. h * d >= 0
  BY SMT
<1> QED BY <1>2, <1>3

LEMMA UniqueDiv ==
  ASSUME NEW h \in Nat \ {0}, NEW q \in Int, NEW r \in 0 .. h - 1
  PROVE  /\ ((h * q) + r) \div h = q
         /\ ((h * q) + r) % h = r
BY SMT

LEMMA HourAndMinute ==
  ASSUME NEW h \in Nat \ {0}, NEW n \in Nat
  PROVE  \E q \in Nat, r \in 0 .. h - 1 :
           n = (h * q) + r /\ n \div h = q /\ n % h = r
BY DivMod

(* A calendar skips its minutes of its hours of its day.                   *)
LEMMA OneCalendar ==
  ASSUME NEW day, NEW d, NEW a, NEW b, NEW x, NEW y, NEW m
  PROVE  Skipped({SilentCalendar(day, a, b, x, y)}, d, m)
           <=> d = day /\ m \div MinutesPerHour \in a .. b /\ m % MinutesPerHour \in x .. y
<1>1. SilentCalendar(day, a, b, x, y).day = day
  BY DEF SilentCalendar
<1>2. SilentCalendar(day, a, b, x, y).hours = a .. b
  BY DEF SilentCalendar
<1>3. SilentCalendar(day, a, b, x, y).minutes = x .. y
  BY DEF SilentCalendar
<1> QED BY <1>1, <1>2, <1>3, Zenon DEF Skipped

(* A part of an hour is skipped as it is, and so are full hours.           *)
LEMMA PartCovers ==
  ASSUME NEW day, NEW d, NEW c \in Nat, NEW e \in Nat, NEW m \in Nat,
         c < e => (e - 1) \div MinutesPerHour = c \div MinutesPerHour
  PROVE  Skipped(PartOfHour(day, c, e), d, m) <=> d = day /\ c <= m /\ m < e
<1>0. MinutesPerHour \in Nat \ {0}
  BY SettingsAssumption
<1>1. CASE c < e
  <2>1. PICK cq \in Nat, cr \in 0 .. MinutesPerHour - 1 :
          c = (MinutesPerHour * cq) + cr /\ c \div MinutesPerHour = cq /\ c % MinutesPerHour = cr
    BY <1>0, HourAndMinute
  <2>2. PICK mq \in Nat, mr \in 0 .. MinutesPerHour - 1 :
          m = (MinutesPerHour * mq) + mr /\ m \div MinutesPerHour = mq /\ m % MinutesPerHour = mr
    BY <1>0, HourAndMinute
  <2>3. e - 1 \in Nat
    BY <1>1
  <2>4. PICK eq \in Nat, er \in 0 .. MinutesPerHour - 1 :
          /\ e - 1 = (MinutesPerHour * eq) + er
          /\ (e - 1) \div MinutesPerHour = eq /\ (e - 1) % MinutesPerHour = er
    BY <1>0, <2>3, HourAndMinute
  <2>5. eq = cq
    BY <1>1, <2>1, <2>4, Zenon
  <2>6. PartOfHour(day, c, e) = {SilentCalendar(day, cq, cq, cr, er)}
    BY <1>1, <2>1, <2>4, Zenon DEF PartOfHour
  <2>7. Skipped(PartOfHour(day, c, e), d, m) <=> d = day /\ mq \in cq .. cq /\ mr \in cr .. er
    <3>1. Skipped({SilentCalendar(day, cq, cq, cr, er)}, d, m)
            <=> d = day /\ m \div MinutesPerHour \in cq .. cq /\ m % MinutesPerHour \in cr .. er
      BY OneCalendar
    <3> QED BY <2>2, <2>6, <3>1, Zenon
  <2>8. c = (MinutesPerHour * cq) + cr /\ m = (MinutesPerHour * mq) + mr
        /\ e - 1 = (MinutesPerHour * cq) + er
    BY <2>1, <2>2, <2>4, <2>5, Zenon
  <2>9. mq < cq => m < c
    BY <1>0, <2>8, Mono
  <2>10. cq < mq => e - 1 < m
    BY <1>0, <2>8, Mono
  <2>11. mq = cq => (c <= m <=> cr <= mr) /\ (m < e <=> mr <= er)
    BY <1>0, <2>8
  <2> QED BY <2>7, <2>9, <2>10, <2>11, <1>1
<1>2. CASE ~(c < e)
  BY <1>2 DEF Skipped, PartOfHour
<1> QED BY <1>1, <1>2

LEMMA HoursCover ==
  ASSUME NEW day, NEW d, NEW c \in Nat, NEW e \in Nat, NEW m \in Nat,
         c < e => c % MinutesPerHour = 0, e % MinutesPerHour = 0
  PROVE  Skipped(FullHours(day, c, e), d, m) <=> d = day /\ c <= m /\ m < e
<1>0. MinutesPerHour \in Nat \ {0}
  BY SettingsAssumption
<1>1. CASE c < e
  <2>1. PICK cq \in Nat, cr \in 0 .. MinutesPerHour - 1 :
          c = (MinutesPerHour * cq) + cr /\ c \div MinutesPerHour = cq /\ c % MinutesPerHour = cr
    BY <1>0, HourAndMinute
  <2>2. PICK mq \in Nat, mr \in 0 .. MinutesPerHour - 1 :
          m = (MinutesPerHour * mq) + mr /\ m \div MinutesPerHour = mq /\ m % MinutesPerHour = mr
    BY <1>0, HourAndMinute
  <2>3. PICK eq \in Nat, er \in 0 .. MinutesPerHour - 1 :
          e = (MinutesPerHour * eq) + er /\ e \div MinutesPerHour = eq /\ e % MinutesPerHour = er
    BY <1>0, HourAndMinute
  <2>4. FullHours(day, c, e) = {SilentCalendar(day, cq, eq - 1, 0, MinutesPerHour - 1)}
    <3>1. e > c
      BY <1>1
    <3> QED BY <3>1, <2>1, <2>3, Zenon DEF FullHours
  <2>5. Skipped(FullHours(day, c, e), d, m) <=> d = day /\ mq \in cq .. eq - 1
    <3>1. Skipped({SilentCalendar(day, cq, eq - 1, 0, MinutesPerHour - 1)}, d, m)
            <=> /\ d = day /\ m \div MinutesPerHour \in cq .. eq - 1
                /\ m % MinutesPerHour \in 0 .. MinutesPerHour - 1
      BY OneCalendar
    <3> QED BY <2>2, <2>4, <3>1, Zenon
  <2>6. c = MinutesPerHour * cq /\ m = (MinutesPerHour * mq) + mr /\ e = MinutesPerHour * eq
    <3>1. cr = 0 /\ er = 0
      BY <1>1, <2>1, <2>3, Zenon
    <3>2. c = (MinutesPerHour * cq) + 0 /\ e = (MinutesPerHour * eq) + 0
      BY <2>1, <2>3, <3>1, Zenon
    <3>3. MinutesPerHour * cq \in Int /\ MinutesPerHour * eq \in Int
      BY <1>0
    <3> QED BY <2>2, <3>2, <3>3
  <2>7. mq < cq => m < c
    BY <1>0, <2>6, Mono
  <2>8. cq < mq => c <= m
    BY <1>0, <2>6, Mono
  <2>9. cq = mq => c <= m
    BY <1>0, <2>6
  <2>10. mq < eq => m < e
    BY <1>0, <2>6, Mono
  <2>11. eq < mq => e <= m
    BY <1>0, <2>6, Mono
  <2>12. eq = mq => e <= m
    BY <1>0, <2>6
  <2> QED BY <2>5, <2>7, <2>8, <2>9, <2>10, <2>11, <2>12
<1>2. CASE ~(c < e)
  BY <1>2 DEF Skipped, FullHours
<1> QED BY <1>1, <1>2

(* Temporal skips what any of the calendars skips.                         *)
LEMMA UnionSkips ==
  ASSUME NEW A, NEW B, NEW d, NEW m
  PROVE  Skipped(A \cup B, d, m) <=> Skipped(A, d, m) \/ Skipped(B, d, m)
BY DEF Skipped

(* A minute range of a day is skipped as it is. *)
LEMMA RangeCovers ==
  ASSUME NEW day, NEW d, NEW start \in Nat, NEW end \in Nat, NEW m \in Nat
  PROVE  Skipped(MinuteRangeCalendars(day, start, end), d, m) <=> d = day /\ start <= m /\ m < end
<1>0. MinutesPerHour \in Nat \ {0}
  BY SettingsAssumption
<1>1. CASE start >= end
  BY <1>1 DEF MinuteRangeCalendars, Skipped
<1>2. CASE start < end
  <2>1. PICK sq \in Nat, sr \in 0 .. MinutesPerHour - 1 :
          start = (MinutesPerHour * sq) + sr /\ start % MinutesPerHour = sr
            /\ start \div MinutesPerHour = sq
    BY <1>0, HourAndMinute
  <2>2. PICK eq \in Nat, er \in 0 .. MinutesPerHour - 1 :
          end = (MinutesPerHour * eq) + er /\ end % MinutesPerHour = er
    BY <1>0, HourAndMinute
  <2>3. PICK nextHour \in Nat, fullEnd \in Nat, afterHead \in Nat, afterFull \in Nat :
          /\ nextHour = start + (MinutesPerHour - sr) /\ fullEnd = end - er
          /\ afterHead = IF sr = 0 THEN start ELSE IF end < nextHour THEN end ELSE nextHour
          /\ afterFull = IF fullEnd > afterHead THEN fullEnd ELSE afterHead
    <3>1. start + (MinutesPerHour - sr) \in Nat
      BY <1>0
    <3>2. MinutesPerHour * eq \in Nat
      BY <1>0, SMT
    <3>3. end - er \in Nat
      BY <2>2, <3>2
    <3> QED BY <3>1, <3>3
  <2>4. MinuteRangeCalendars(day, start, end)
           = PartOfHour(day, start, afterHead) \cup FullHours(day, afterHead, fullEnd)
               \cup PartOfHour(day, afterFull, end)
    <3>1. ~(start >= end)
      BY <1>2
    <3> QED BY <2>1, <2>2, <2>3, <3>1, Zenon DEF MinuteRangeCalendars
  <2>5. PICK sh \in Nat, eh \in Nat : sh = MinutesPerHour * sq /\ eh = MinutesPerHour * eq
    BY <1>0, SMT
  <2>6. /\ start = sh + sr /\ end = eh + er /\ nextHour = sh + MinutesPerHour /\ fullEnd = eh
        /\ nextHour = MinutesPerHour * (sq + 1)
    <3>1. MinutesPerHour * (sq + 1) = (MinutesPerHour * sq) + MinutesPerHour
      BY <1>0, SMT
    <3> QED BY <1>0, <2>1, <2>2, <2>3, <2>5, <3>1
  <2>7. /\ start <= afterHead /\ afterHead <= end /\ afterHead <= afterFull /\ afterFull <= end
        /\ fullEnd <= afterFull /\ afterHead <= nextHour /\ end < fullEnd + MinutesPerHour
        /\ (afterFull = fullEnd \/ (afterFull = afterHead /\ fullEnd <= afterHead))
    BY <1>0, <1>2, <2>3, <2>6
  <2>8. /\ \A r \in 0 .. MinutesPerHour - 1 : (sh + r) \div MinutesPerHour = sq
        /\ \A r \in 0 .. MinutesPerHour - 1 : (eh + r) \div MinutesPerHour = eq
        /\ sh % MinutesPerHour = 0 /\ nextHour % MinutesPerHour = 0 /\ eh % MinutesPerHour = 0
    <3>1. \A q \in Nat, r \in 0 .. MinutesPerHour - 1 :
            ((MinutesPerHour * q) + r) \div MinutesPerHour = q
      BY <1>0, UniqueDiv
    <3>2. \A q \in Nat : (MinutesPerHour * q) % MinutesPerHour = 0
      <4> TAKE q \in Nat
      <4>1. MinutesPerHour * q = (MinutesPerHour * q) + 0 /\ 0 \in 0 .. MinutesPerHour - 1
        BY <1>0, SMT
      <4> QED BY <1>0, <4>1, UniqueDiv
    <3>3. sq + 1 \in Nat
      OBVIOUS
    <3> QED BY <2>5, <2>6, <3>1, <3>2, <3>3, Zenon
  <2>9. start < afterHead => (afterHead - 1) \div MinutesPerHour = start \div MinutesPerHour
    <3>1. start < afterHead => afterHead - 1 - sh \in 0 .. MinutesPerHour - 1
                               /\ afterHead - 1 = sh + (afterHead - 1 - sh)
      BY <1>0, <2>6, <2>7
    <3> QED BY <2>1, <2>8, <3>1, Zenon
  <2>10. afterFull < end => (end - 1) \div MinutesPerHour = afterFull \div MinutesPerHour
    <3>1. afterFull < end => /\ end - 1 - eh \in 0 .. MinutesPerHour - 1
                             /\ end - 1 = eh + (end - 1 - eh)
                             /\ afterFull - eh \in 0 .. MinutesPerHour - 1
                             /\ afterFull = eh + (afterFull - eh)
      BY <1>0, <2>6, <2>7
    <3> QED BY <2>8, <3>1, Zenon
  <2>11. afterHead < fullEnd => afterHead % MinutesPerHour = 0
    <3>1. afterHead < fullEnd => afterHead = sh \/ afterHead = nextHour
      BY <1>0, <2>3, <2>6
    <3> QED BY <2>8, <3>1, Zenon
  <2>12. fullEnd % MinutesPerHour = 0
    BY <2>6, <2>8, Zenon
  <2>13. Skipped(PartOfHour(day, start, afterHead), d, m) <=> d = day /\ start <= m /\ m < afterHead
    BY <2>9, PartCovers
  <2>14. Skipped(FullHours(day, afterHead, fullEnd), d, m) <=> d = day /\ afterHead <= m /\ m < fullEnd
    BY <2>11, <2>12, HoursCover
  <2>15. Skipped(PartOfHour(day, afterFull, end), d, m) <=> d = day /\ afterFull <= m /\ m < end
    BY <2>10, PartCovers
  <2>16. Skipped(MinuteRangeCalendars(day, start, end), d, m)
           <=> \/ d = day /\ start <= m /\ m < afterHead
               \/ d = day /\ afterHead <= m /\ m < fullEnd
               \/ d = day /\ afterFull <= m /\ m < end
    <3>1. Skipped(MinuteRangeCalendars(day, start, end), d, m)
            <=> \/ Skipped(PartOfHour(day, start, afterHead), d, m)
                \/ Skipped(FullHours(day, afterHead, fullEnd), d, m)
                \/ Skipped(PartOfHour(day, afterFull, end), d, m)
      <4> DEFINE A == PartOfHour(day, start, afterHead)
                 B == FullHours(day, afterHead, fullEnd)
                 C == PartOfHour(day, afterFull, end)
      <4>1. Skipped((A \cup B) \cup C, d, m) <=> Skipped(A \cup B, d, m) \/ Skipped(C, d, m)
        BY UnionSkips
      <4>2. Skipped(A \cup B, d, m) <=> Skipped(A, d, m) \/ Skipped(B, d, m)
        BY UnionSkips
      <4> QED BY <2>4, <4>1, <4>2, Zenon
    <3> QED BY <2>13, <2>14, <2>15, <3>1, Zenon
  <2> QED BY <2>7, <2>16
<1> QED BY <1>1, <1>2

(* The distance of two minutes of a week, counted around the week.         *)
LEMMA WeekMod ==
  ASSUME NEW M \in Nat \ {0}, NEW D \in Nat \ {0}, NEW k \in -D .. D - 1, NEW t \in 0 .. M - 1
  PROVE  ((M * k) + t) % (M * D) = (M * (IF k >= 0 THEN k ELSE k + D)) + t
<1>1. PICK n \in 0 .. D - 1, z \in {0, -1} : n = (IF k >= 0 THEN k ELSE k + D) /\ k = n + (D * z)
  <2>1. CASE k >= 0
    <3>1. k = k + (D * 0)
      BY SMT
    <3>2. k \in 0 .. D - 1 /\ k = IF k >= 0 THEN k ELSE k + D
      BY <2>1
    <3> QED BY <3>1, <3>2
  <2>2. CASE ~(k >= 0)
    <3>1. k = (k + D) + (D * (-1))
      BY SMT
    <3>2. k + D \in 0 .. D - 1 /\ k + D = IF k >= 0 THEN k ELSE k + D
      BY <2>2
    <3> QED BY <3>1, <3>2
  <2> QED BY <2>1, <2>2
<1>2. (M * n) + t \in 0 .. (M * D) - 1
  <2>1. M * n >= 0 /\ M * n \in Int /\ M * D \in Int
    BY SMT
  <2>2. (M * n) + M <= M * D
    BY Mono
  <2> QED BY <2>1, <2>2
<1>3. (M * k) + t = ((M * D) * z) + ((M * n) + t)
  BY <1>1, SMT
<1>4. M * D \in Nat \ {0}
  BY SMT
<1>5. (((M * D) * z) + ((M * n) + t)) % (M * D) = (M * n) + t
  BY <1>2, <1>4, UniqueDiv
<1> QED BY <1>1, <1>3, <1>5, Zenon

(* A minute is less than a period's length after its start exactly if it   *)
(* is in the period on its day or, over midnight, on the next.             *)
LEMMA AfterStart ==
  ASSUME NEW day \in 0 .. DaysPerWeek - 1, NEW m \in 0 .. MinutesPerDay - 1,
         NEW d \in 0 .. DaysPerWeek - 1, NEW s \in 0 .. MinutesPerDay - 1,
         NEW e \in 0 .. MinutesPerDay - 1, s # e
  PROVE  (WeekMinute(day, m) - WeekMinute(d, s)) % (DaysPerWeek * MinutesPerDay)
             < (e - s) % MinutesPerDay
           <=> IF s < e THEN day = d /\ s <= m /\ m < e
               ELSE \/ day = d /\ s <= m
                    \/ day = (d + 1) % DaysPerWeek /\ m < e
<1>1. PICK M \in Nat \ {0}, D \in Nat \ {0} : M = MinutesPerDay /\ D = DaysPerWeek
  <2>1. MinutesPerHour * HoursPerDay \in Nat \ {0}
    BY SettingsAssumption, SMT
  <2> QED BY <2>1, SettingsAssumption DEF MinutesPerDay
<1>2. PICK length \in 1 .. M - 1 :
        length = (e - s) % MinutesPerDay /\ length = IF s < e THEN e - s ELSE e - s + M
  <2>1. CASE s < e
    <3>1. (e - s) % M = e - s
      BY <1>1, <2>1
    <3> QED BY <1>1, <2>1, <3>1
  <2>2. CASE ~(s < e)
    <3>1. (e - s) % M = e - s + M
      BY <1>1, <2>2, SMT
    <3> QED BY <1>1, <2>2, <3>1
  <2> QED BY <2>1, <2>2
<1>3. PICK k \in -D .. D - 1, t \in 0 .. M - 1 :
        /\ k = (IF s <= m THEN day - d ELSE day - d - 1)
        /\ t = (IF s <= m THEN m - s ELSE m - s + M)
  <2>1. CASE s <= m
    <3>1. day - d \in -D .. D - 1 /\ m - s \in 0 .. M - 1
      BY <1>1, <2>1
    <3> QED BY <2>1, <3>1
  <2>2. CASE ~(s <= m)
    <3>1. day - d - 1 \in -D .. D - 1 /\ m - s + M \in 0 .. M - 1
      BY <1>1, <2>2
    <3> QED BY <2>2, <3>1
  <2> QED BY <2>1, <2>2
<1>4. WeekMinute(day, m) - WeekMinute(d, s) = (M * k) + t
  <2>1. day * M = M * day /\ d * M = M * d /\ M * day \in Int /\ M * d \in Int
    BY <1>1, SMT
  <2>2. M * (day - d) = (M * day) - (M * d) /\ M * (day - d - 1) = (M * day) - (M * d) - M
    BY <1>1, SMT
  <2>3. WeekMinute(day, m) = (M * day) + m /\ WeekMinute(d, s) = (M * d) + s
    BY <1>1, <2>1, Zenon DEF WeekMinute
  <2> QED BY <1>1, <1>3, <2>1, <2>2, <2>3
<1>5. PICK n \in 0 .. D - 1 : n = (IF k >= 0 THEN k ELSE k + D)
  BY <1>3
<1>6. (WeekMinute(day, m) - WeekMinute(d, s)) % (DaysPerWeek * MinutesPerDay) = (M * n) + t
  <2>1. DaysPerWeek * MinutesPerDay = M * D
    BY <1>1, SMT
  <2>2. ((M * k) + t) % (M * D) = (M * n) + t
    BY <1>5, WeekMod
  <2> QED BY <1>4, <2>1, <2>2, Zenon
<1>7. (M * n) + t < length <=> n = 0 /\ t < length
  <2>1. n = 0 => (M * n) + t = t
    BY SMT
  <2>2. n > 0 => M * n >= M /\ M * n \in Int
    BY SMT
  <2> QED BY <2>1, <2>2
<1>8. (d + 1) % DaysPerWeek = IF d + 1 = D THEN 0 ELSE d + 1
  <2>1. CASE d + 1 = D
    BY <1>1, <2>1, SMT
  <2>2. CASE d + 1 # D
    BY <1>1, <2>2, SMT
  <2> QED BY <2>1, <2>2
<1>9. s <= m => (n = 0 <=> day = d)
  BY <1>1, <1>3, <1>5
<1>10. ~(s <= m) => (n = 0 <=> day = (IF d + 1 = D THEN 0 ELSE d + 1))
  BY <1>1, <1>3, <1>5
<1>11. CASE s < e
  <2>1. (M * n) + t < length <=> day = d /\ s <= m /\ m < e
    BY <1>1, <1>2, <1>3, <1>7, <1>9, <1>11
  <2> QED BY <1>2, <1>6, <1>11, <2>1, Zenon
<1>12. CASE ~(s < e)
  <2>1. s <= m => t < length
    BY <1>1, <1>2, <1>3, <1>12
  <2>2. ~(s <= m) => (t < length <=> m < e)
    BY <1>1, <1>2, <1>3, <1>12
  <2>3. s <= m => ~(m < e)
    BY <1>1, <1>12
  <2>4. (M * n) + t < length <=> \/ day = d /\ s <= m
                                 \/ day = (d + 1) % DaysPerWeek /\ m < e
    BY <1>7, <1>8, <1>9, <1>10, <2>1, <2>2, <2>3, Zenon
  <2> QED BY <1>2, <1>6, <1>12, <2>4, Zenon
<1> QED BY <1>11, <1>12

(* A period that was validated lies within a week. *)
PeriodOK(p) ==
  /\ p.days \subseteq 0 .. DaysPerWeek - 1
  /\ p.start \in 0 .. MinutesPerDay - 1 /\ p.end \in 0 .. MinutesPerDay - 1
  /\ p.start # p.end

(* The calendars of silent periods skip exactly the silent minutes.        *)
LEMMA CalendarsAreSilence ==
  ASSUME NEW periods, \A p \in periods : PeriodOK(p),
         NEW day \in 0 .. DaysPerWeek - 1, NEW m \in 0 .. MinutesPerDay - 1
  PROVE  Skipped(SilentCalendars(periods), day, m) <=> Silent(periods, day, m)
<1> DEFINE OfDay(p, d) ==
      IF p.start < p.end THEN MinuteRangeCalendars(d, p.start, p.end)
      ELSE MinuteRangeCalendars(d, p.start, MinutesPerDay)
             \cup MinuteRangeCalendars((d + 1) % DaysPerWeek, 0, p.end)
           After(p, d) ==
      (WeekMinute(day, m) - WeekMinute(d, p.start)) % (DaysPerWeek * MinutesPerDay)
        < (p.end - p.start) % MinutesPerDay
<1>1. Skipped(SilentCalendars(periods), day, m)
        <=> \E p \in periods : \E d \in p.days : Skipped(OfDay(p, d), day, m)
  BY DEF SilentCalendars, Skipped
<1>2. Silent(periods, day, m) <=> \E p \in periods : \E d \in p.days : After(p, d)
  BY DEF Silent
<1>3. ASSUME NEW p \in periods, NEW d \in p.days
      PROVE  Skipped(OfDay(p, d), day, m) <=> After(p, d)
  <2>1. PICK s \in 0 .. MinutesPerDay - 1, e \in 0 .. MinutesPerDay - 1 :
          s = p.start /\ e = p.end /\ s # e
    BY DEF PeriodOK
  <2>2. d \in 0 .. DaysPerWeek - 1
    BY DEF PeriodOK
  <2>3. MinutesPerDay \in Nat
    BY SettingsAssumption, SMT DEF MinutesPerDay
  <2>6. After(p, d) <=> IF s < e THEN day = d /\ s <= m /\ m < e
                        ELSE \/ day = d /\ s <= m
                             \/ day = (d + 1) % DaysPerWeek /\ m < e
    <3>1. (WeekMinute(day, m) - WeekMinute(d, s)) % (DaysPerWeek * MinutesPerDay)
             < (e - s) % MinutesPerDay
           <=> IF s < e THEN day = d /\ s <= m /\ m < e
               ELSE \/ day = d /\ s <= m
                    \/ day = (d + 1) % DaysPerWeek /\ m < e
      BY <2>1, <2>2, AfterStart
    <3> QED BY <2>1, <3>1, Zenon
  <2>4. CASE s < e
    <3>1. Skipped(MinuteRangeCalendars(d, s, e), day, m) <=> day = d /\ s <= m /\ m < e
      BY <2>3, RangeCovers
    <3>2. OfDay(p, d) = MinuteRangeCalendars(d, s, e)
      BY <2>1, <2>4, Zenon
    <3> QED BY <2>4, <2>6, <3>1, <3>2, Zenon
  <2>5. CASE ~(s < e)
    <3>1. Skipped(MinuteRangeCalendars(d, s, MinutesPerDay), day, m)
            <=> day = d /\ s <= m /\ m < MinutesPerDay
      BY <2>3, RangeCovers
    <3>2. Skipped(MinuteRangeCalendars((d + 1) % DaysPerWeek, 0, e), day, m)
            <=> day = (d + 1) % DaysPerWeek /\ 0 <= m /\ m < e
      BY <2>3, RangeCovers
    <3>3. m < MinutesPerDay /\ 0 <= m
      BY <2>3
    <3>5. OfDay(p, d) = MinuteRangeCalendars(d, s, MinutesPerDay)
                          \cup MinuteRangeCalendars((d + 1) % DaysPerWeek, 0, e)
      BY <2>1, <2>5, Zenon
    <3>4. Skipped(OfDay(p, d), day, m)
            <=> \/ Skipped(MinuteRangeCalendars(d, s, MinutesPerDay), day, m)
                \/ Skipped(MinuteRangeCalendars((d + 1) % DaysPerWeek, 0, e), day, m)
      BY <3>5, UnionSkips, Zenon
    <3> QED BY <2>5, <2>6, <3>1, <3>2, <3>3, <3>4, Zenon
  <2> QED BY <2>4, <2>5
<1> QED BY <1>1, <1>2, <1>3, Zenon

(* What is stored and what is installed are validated schedules.           *)
SilencesOK ==
  /\ schedule # NoSchedule => \A p \in schedule.periods : PeriodOK(p)
  /\ installed # NoSchedule => /\ installed.skip = SilentCalendars(installed.periods)
                               /\ \A p \in installed.periods : PeriodOK(p)

LEMMA AcceptedPeriods ==
  ASSUME NEW s \in Schedules, Accepted(s)
  PROVE  /\ \A p \in s.periods : PeriodOK(p)
         /\ Normalized(s).periods = s.periods
BY SettingsAssumption DEF Accepted, ValidPeriod, PeriodOK, Normalized

LEMMA OptionsOK ==
  ASSUME NEW s, \A p \in s.periods : PeriodOK(p)
  PROVE  /\ ScheduleOptions(s).skip = SilentCalendars(ScheduleOptions(s).periods)
         /\ \A p \in ScheduleOptions(s).periods : PeriodOK(p)
BY DEF ScheduleOptions

LEMMA SilencesStep ==
  ASSUME IInv, SilencesOK, [Next]_vars
  PROVE  SilencesOK'
<1>1. \A p \in EnvSchedule.periods : PeriodOK(p)
  BY SettingsAssumption, AcceptedPeriods
<1>2. CASE InstallSchedules
  <2>1. \A p \in Effective.periods : PeriodOK(p)
    BY <1>1 DEF Effective, SilencesOK
  <2>2. installed' = ScheduleOptions(Effective) /\ schedule' = schedule
    BY <1>2 DEF InstallSchedules
  <2> QED BY <2>1, <2>2, OptionsOK DEF SilencesOK
<1>3. ASSUME NEW r \in Requests, Write(r) PROVE SilencesOK'
  <2>1. PICK s \in NextOf(req[r].todo) : Apply(r, s)
    BY <1>3, Zenon DEF Write
  <2>2. /\ s = "installed" => installed' = ScheduleOptions(req[r].schedule)
        /\ s # "installed" => installed' = installed
        /\ s = "schedule" => schedule' = req[r].schedule
        /\ s # "schedule" => schedule' = schedule
    BY <2>1, Zenon DEF Apply
  <2>3. s \in {"installed", "schedule"} => \A p \in req[r].schedule.periods : PeriodOK(p)
    <3>1. s \in {"installed", "schedule"} => "schedule" \in req[r].names
      BY OrderOfSteps DEF IInv, RequestsOK, RequestOK
    <3>2. RequestOK(req[r])
      BY DEF IInv, RequestsOK
    <3> QED BY <3>1, <3>2, AcceptedPeriods DEF RequestOK
  <2> QED BY <2>2, <2>3, OptionsOK DEF SilencesOK
<1>4. CASE UNCHANGED <<schedule, installed>>
  BY <1>4 DEF SilencesOK
<1> QED BY <1>2, <1>3, <1>4
        DEF Next, vars, Start, SeedSearch, SeedProvider, Crash, Accept, Fail, Answer

(* Temporal skips exactly the silent minutes, for days, weeks and periods  *)
(* of any lengths: each period that was validated is cut into calendars    *)
(* that cover its minutes and no others, also over midnight and the end of *)
(* the week.                                                               *)
THEOREM SilenceIsKept == Spec => []SilentIsSkipped
<1>1. Init => SilencesOK
  BY DEF Init, SilencesOK
<1>2. SilencesOK => SilentIsSkipped
  <2> SUFFICES ASSUME SilencesOK, installed # NoSchedule,
                      NEW day \in 0 .. DaysPerWeek - 1, NEW m \in 0 .. MinutesPerDay - 1
               PROVE  Skipped(installed.skip, day, m) <=> Silent(installed.periods, day, m)
    BY DEF SilentIsSkipped
  <2>1. Skipped(SilentCalendars(installed.periods), day, m) <=> Silent(installed.periods, day, m)
    BY CalendarsAreSilence DEF SilencesOK
  <2> QED BY <2>1, Zenon DEF SilencesOK
<1> QED BY Invariance, <1>1, <1>2, SilencesStep, PTL DEF Spec
============================================================================
