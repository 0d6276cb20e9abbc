---------------------------- MODULE Dispatchers ----------------------------
(***************************************************************************)
(* FilterPendingWorkflow and ProcessPendingWorkflow: two singletons that   *)
(* drain the pending and the needs_detail rows, oldest first, skip what    *)
(* failed in this run, wait for a JobsAvailable signal or an hour, and     *)
(* continue as new after an idle wait or a bounded number of rows.  A wake *)
(* signals the singleton and starts it when it is not running; a signal    *)
(* nobody has received when the run continues as new is dropped.           *)
(*                                                                         *)
(* A filter activity and a detail child are one step here; how they race   *)
(* with other writers of the row is in JobPipeline.  The throttle between  *)
(* children is a delay and changes nothing.  Faults names what may fail:   *)
(*   "db_outage"    load_next fails for good, and with it the workflow;    *)
(*   "filter_fails" filter_pending_job fails for good;                     *)
(*   "lost_result"  it commits, and its second attempt finds nothing to do;*)
(*   "wake_fails"   the filter cannot wake process-pending;                *)
(*   "child_fails"  a detail child fails;                                  *)
(*   "lock_busy"    a child gives up on the source lock;                   *)
(*   "boot_fails"   StartDispatchers stops half-way.                       *)
(***************************************************************************)
EXTENDS Naturals, FiniteSets

CONSTANTS
  Jobs,       \* rows; their order is (created_at, id)
  Poison,     \* rows whose detail child fails every time
  FilterMax,  \* filterPendingMaxJobs (50 in the code)
  DetailMax,  \* processPendingMaxChildren (50 in the code)
  MaxRedo,    \* bound on re-evaluations by the operator
  Faults

ASSUME DispatchersAssumption ==
  /\ Jobs \subseteq Nat
  /\ Poison \subseteq Jobs
  /\ FilterMax \in Nat \ {0}
  /\ DetailMax \in Nat \ {0}
  /\ MaxRedo \in Nat
  /\ Faults \subseteq {"db_outage", "filter_fails", "lost_result", "wake_fails",
                       "child_fails", "lock_busy", "boot_fails"}

MaxDetailAttempts == 3

VARIABLES
  state,    \* per row
  tries,    \* per row: detail_attempts
  filt,     \* filter-pending
  proc,     \* process-pending
  redo,     \* re-evaluations so far
  toFilter, \* history: rows pending since a wake of filter-pending
  toDetail  \* history: rows that need detail since a wake of process-pending

vars == <<state, tries, filt, proc, redo, toFilter, toDetail>>

In(s) == {u \in Jobs : state[u] = s}

(* A run of a dispatcher: what it skips, how many rows it has taken, and   *)
(* the row it works on; its flags are "signal", a buffered JobsAvailable,  *)
(* and "woke", wokeDetail of the filter.                                   *)
Closed == [pc |-> "closed", skip |-> {}, count |-> 0, job |-> {}, flags |-> {}]
NewRun == [Closed EXCEPT !.pc = "load"]

(* Faults: a running dispatcher is left alone; nothing starts a closed one. *)
FaultyWokenSilently(d) ==
  IF d.pc = "closed" THEN [NewRun EXCEPT !.flags = {"signal"}] ELSE d
FaultyWokenNoStart(d) ==
  IF d.pc = "closed" THEN d ELSE [d EXCEPT !.flags = @ \cup {"signal"}]

(* SignalWithStartWorkflow *)
Woken(d) == IF d.pc = "closed" THEN [NewRun EXCEPT !.flags = {"signal"}]
                               ELSE [d EXCEPT !.flags = @ \cup {"signal"}]

WakeFilterPending ==
  /\ filt' = Woken(filt)
  /\ toFilter' = toFilter \cup In("pending")

WakeProcessPending ==
  /\ proc' = Woken(proc)
  /\ toDetail' = toDetail \cup In("needs_detail")

(* Fault: a run takes one row too many. *)
FaultyNextIteration(d, max) ==
  IF d.count < max
  THEN [d EXCEPT !.pc = "load", !.count = @ + 1, !.job = {}]
  ELSE NewRun

(* The next iteration of the loop, or a new run after the last one. *)
NextIteration(d, max) ==
  IF d.count + 1 < max
  THEN [d EXCEPT !.pc = "load", !.count = @ + 1, !.job = {}]
  ELSE NewRun

Oldest(S) == {u \in S : \A v \in S : u <= v}

(* load_next_*_job: the row to work on, or an idle wait. *)
Load(d, s) ==
  LET rows == In(s) \ d.skip
  IN  [d EXCEPT !.pc = IF rows = {} THEN "idle" ELSE "job", !.job = Oldest(rows)]

Working(d, u) == d.pc = "job" /\ d.job = {u}

Init ==
  /\ state \in [Jobs -> {"absent", "needs_detail"}]
  /\ tries = [u \in Jobs |-> 0]
  /\ redo = 0
  /\ toFilter = {}
  /\ toDetail = {}
  /\ \/ filt = Woken(Closed) /\ proc = Woken(Closed)
     \/ /\ "boot_fails" \in Faults
        /\ filt \in {Closed, Woken(Closed)}
        /\ proc = Closed

----------------------------------------------------------------------------
(* The world.                                                              *)

Insert(u) ==
  /\ state[u] = "absent"
  /\ state' = [state EXCEPT ![u] = "pending"]
  /\ UNCHANGED <<tries, filt, proc, redo, toFilter, toDetail>>

(* ReEvaluateJobs; its wake is WakeFilter below and may be lost. *)
ReEvaluate ==
  /\ In("rejected") # {}
  /\ redo < MaxRedo
  /\ redo' = redo + 1
  /\ state' = [u \in Jobs |-> IF state[u] = "rejected" THEN "pending" ELSE state[u]]
  /\ tries' = [u \in Jobs |-> IF state[u] = "rejected" THEN 0 ELSE tries[u]]
  /\ UNCHANGED <<filt, proc, toFilter, toDetail>>

(* The end of every ScrapeWorkflow, of a synchronous scrape and of a       *)
(* re-evaluation that changed rows.                                        *)
WakeFilter ==
  /\ WakeFilterPending
  /\ UNCHANGED <<state, tries, proc, redo, toDetail>>

(* StartDispatchers on a restart of the API: both, or (on an error) the    *)
(* first of them.                                                          *)
Boot ==
  /\ WakeFilterPending
  /\ \/ WakeProcessPending
     \/ "boot_fails" \in Faults /\ UNCHANGED <<proc, toDetail>>
  /\ UNCHANGED <<state, tries, redo>>

----------------------------------------------------------------------------
(* FilterPendingWorkflow.                                                  *)

FiltLoad ==
  /\ filt.pc = "load"
  /\ filt' = Load(filt, "pending")
  /\ UNCHANGED <<state, tries, proc, redo, toFilter, toDetail>>

FiltLoadFails ==
  /\ filt.pc = "load"
  /\ "db_outage" \in Faults
  /\ filt' = Closed
  /\ UNCHANGED <<state, tries, proc, redo, toFilter, toDetail>>

(* WroteNeedsDetail asks for a wake, once per run. *)
AfterFilter(wrote) ==
  IF wrote /\ "woke" \notin filt.flags
  THEN [filt EXCEPT !.pc = "wake"]
  ELSE NextIteration(filt, FilterMax)

FiltJob(u) ==
  /\ Working(filt, u)
  /\ state[u] = "pending"
  /\ \E to \in {"rejected", "ready", "needs_detail"} :
       /\ state' = [state EXCEPT ![u] = to]
       /\ \/ filt' = AfterFilter(to = "needs_detail")
          \/ "lost_result" \in Faults /\ filt' = AfterFilter(FALSE)
  /\ toFilter' = toFilter \ {u}
  /\ UNCHANGED <<tries, proc, redo, toDetail>>

FiltJobFails(u) ==
  /\ Working(filt, u)
  /\ "filter_fails" \in Faults
  /\ filt' = NextIteration([filt EXCEPT !.skip = @ \cup {u}], FilterMax)
  /\ UNCHANGED <<state, tries, proc, redo, toFilter, toDetail>>

FiltWake ==
  /\ filt.pc = "wake"
  /\ WakeProcessPending
  /\ filt' = NextIteration([filt EXCEPT !.flags = @ \cup {"woke"}], FilterMax)
  /\ UNCHANGED <<state, tries, redo, toFilter>>

FiltWakeFails ==
  /\ filt.pc = "wake"
  /\ "wake_fails" \in Faults
  /\ filt' = NextIteration(filt, FilterMax)
  /\ UNCHANGED <<state, tries, proc, redo, toFilter, toDetail>>

(* waitForJobsAvailable ends with a signal or after processPendingIdleWait. *)
FiltIdle ==
  /\ filt.pc = "idle"
  /\ filt' = NewRun
  /\ UNCHANGED <<state, tries, proc, redo, toFilter, toDetail>>

----------------------------------------------------------------------------
(* ProcessPendingWorkflow.                                                 *)

ProcLoad ==
  /\ proc.pc = "load"
  /\ proc' = Load(proc, "needs_detail")
  /\ UNCHANGED <<state, tries, filt, redo, toFilter, toDetail>>

ProcLoadFails ==
  /\ proc.pc = "load"
  /\ "db_outage" \in Faults
  /\ proc' = Closed
  /\ UNCHANGED <<state, tries, filt, redo, toFilter, toDetail>>

ProcChild(u) ==
  /\ Working(proc, u)
  /\ u \notin Poison
  /\ state[u] = "needs_detail"
  /\ \/ /\ \E to \in {"rejected", "ready"} : state' = [state EXCEPT ![u] = to]
        /\ UNCHANGED tries
     \/ /\ tries' = [tries EXCEPT ![u] = @ + 1]
        /\ state' = [state EXCEPT ![u] =
             IF tries[u] + 1 >= MaxDetailAttempts THEN "rejected" ELSE @]
  /\ toDetail' = IF state'[u] = "needs_detail" THEN toDetail ELSE toDetail \ {u}
  /\ proc' = NextIteration(proc, DetailMax)
  /\ UNCHANGED <<filt, redo, toFilter>>

(* processJobLockMaxRetries tries found the source locked: no error. *)
ProcChildLockBusy(u) ==
  /\ Working(proc, u)
  /\ "lock_busy" \in Faults
  /\ proc' = NextIteration(proc, DetailMax)
  /\ UNCHANGED <<state, tries, filt, redo, toFilter, toDetail>>

ProcChildFails(u) ==
  /\ Working(proc, u)
  /\ u \in Poison \/ "child_fails" \in Faults
  /\ proc' = NextIteration([proc EXCEPT !.skip = @ \cup {u}], DetailMax)
  /\ UNCHANGED <<state, tries, filt, redo, toFilter, toDetail>>

(* Fault: no timer beside the signal. *)
FaultyProcIdle ==
  /\ proc.pc = "idle" /\ "signal" \in proc.flags
  /\ proc' = NewRun
  /\ UNCHANGED <<state, tries, filt, redo, toFilter, toDetail>>

ProcIdle ==
  /\ proc.pc = "idle"
  /\ proc' = NewRun
  /\ UNCHANGED <<state, tries, filt, redo, toFilter, toDetail>>

----------------------------------------------------------------------------
FilterPending ==
  \/ FiltLoad \/ FiltLoadFails \/ FiltWake \/ FiltWakeFails \/ FiltIdle
  \/ \E u \in Jobs : FiltJob(u) \/ FiltJobFails(u)

ProcessPending ==
  \/ ProcLoad \/ ProcLoadFails \/ ProcIdle
  \/ \E u \in Jobs : ProcChild(u) \/ ProcChildLockBusy(u) \/ ProcChildFails(u)

Next ==
  \/ \E u \in Jobs : Insert(u)
  \/ ReEvaluate \/ WakeFilter \/ Boot
  \/ FilterPending
  \/ ProcessPending

Spec == Init /\ [][Next]_vars

(* The scheduled scrape ends in a wake for ever; the workflows run; no     *)
(* activity and no row fails for ever.                                     *)
Fairness ==
  /\ WF_vars(WakeFilter)
  /\ WF_vars(FilterPending) /\ WF_vars(ProcessPending)
  /\ SF_vars(FiltLoad) /\ SF_vars(ProcLoad)
  /\ \A u \in Jobs : SF_vars(FiltJob(u)) /\ SF_vars(ProcChild(u))

FairSpec == Spec /\ Fairness
----------------------------------------------------------------------------
(* Correctness.                                                            *)

RunType == [pc : {"closed", "load", "job", "wake", "idle"}, skip : SUBSET Jobs,
            count : Nat, job : SUBSET Jobs, flags : SUBSET {"woke", "signal"}]

TypeOK ==
  /\ state \in [Jobs -> {"absent", "pending", "needs_detail", "rejected", "ready"}]
  /\ tries \in [Jobs -> 0 .. MaxDetailAttempts]
  /\ filt \in RunType /\ filt.count < FilterMax
  /\ proc \in RunType /\ proc.count < DetailMax
  /\ redo \in 0 .. MaxRedo
  /\ toFilter \subseteq Jobs /\ toDetail \subseteq Jobs

(* No lost wake-up: although unreceived signals are dropped, a dispatcher  *)
(* that waits, with no signal buffered, has tried every row that was there *)
(* at its last wake.                                                       *)
NoLostWakeUp ==
  /\ filt.pc = "idle" /\ "signal" \notin filt.flags =>
       toFilter \subseteq filt.skip
  /\ proc.pc = "idle" /\ "signal" \notin proc.flags =>
       toDetail \subseteq proc.skip

(* Every pending row is filtered, through outages, failed activities and   *)
(* failed wakes: the next scrape starts the filter again.                  *)
PendingIsFiltered ==
  \A u \in Jobs : state[u] = "pending" ~> state[u] # "pending"

(* Every row that needs detail is decided as long as process-pending does  *)
(* not die with the database and rows do not find their source locked for  *)
(* ever: also when the wake was lost or never sent, and with fewer rows    *)
(* that always fail in front of it than one run takes.                     *)
DetailIsDecided ==
  <>[][~\E u \in Jobs : ProcChildLockBusy(u)]_vars =>
    \A u \in Jobs \ Poison :
      state[u] = "needs_detail" ~> state[u] # "needs_detail" \/ proc.pc = "closed"

(* The next scrape starts the dispatchers when the boot did not, at least  *)
(* while there are rows waiting for detail.                                *)
DispatchersStartAgain ==
  /\ filt.pc = "closed" ~> filt.pc # "closed"
  /\ proc.pc = "closed" /\ In("needs_detail") # {} ~> proc.pc # "closed"
============================================================================
