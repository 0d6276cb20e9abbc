---------------------------- MODULE ApifyBudget ----------------------------
(***************************************************************************)
(* The spend gate in front of every paid Apify actor run.  A Dice, Indeed  *)
(* or Fantastic search takes the APIFY advisory lock, sums what the runs   *)
(* of the current period have cost, refuses when one of them is unsettled, *)
(* and starts a run capped at what is left; then it gives the lock back,   *)
(* polls the run and waits until its cost is known.                        *)
(*                                                                         *)
(* Money is in cents where the code counts cents, and in tenths of a cent  *)
(* for what Apify reports.  A period is a number: the one that starts on   *)
(* the n-th 21st.  The account keeps the list of runs; the sum over the    *)
(* settled runs of a period, which the code computes from the list, is     *)
(* kept as a running total.  Polling and retrying are reads, and one step. *)
(* Faults names what may happen in a configuration:                        *)
(*   "lost_start"  a run is started but the response is lost;              *)
(*   "crash"       the process dies, its database session with it;         *)
(*   "cancel"      the context ends during a poll, and the abort may fail; *)
(*   "lost_lock"   the session dies and the process does not notice;       *)
(*   "unlock_fails"  the lock is not given back: that is logged, and the   *)
(*                 session goes back to the pool with the lock.            *)
(***************************************************************************)
EXTENDS Integers, FiniteSets

CONSTANTS
  Scrapers,    \* the searches that may run at once
  Runs,        \* bound: ids of the actor runs the account ever has
  MaxPeriod,   \* bound on the billing periods that pass
  BudgetCents, \* APIFY_MONTHLY_BUDGET_USD
  Costs,       \* what a run may cost, in tenths of a cent
  Others,      \* BOOLEAN: other programs start runs in this account
  Faults

Nobody == "nobody"

ASSUME BudgetAssumption ==
  /\ Nobody \notin Scrapers
  /\ MaxPeriod \in Nat
  /\ BudgetCents \in Nat \ {0}
  /\ Costs \subseteq Nat
  /\ Others \in BOOLEAN
  /\ Faults \subseteq {"lost_start", "crash", "cancel", "lost_lock",
                "unlock_fails"}

VARIABLES
  period,   \* the current period
  account,  \* per run: its status, the period it started in, its cap, whose it is
  settled,  \* per period: cents of its settled runs
  lock,     \* who holds the APIFY advisory lock
  kept,     \* whose session still has that lock from a failed unlock
  search,   \* per scraper: where it is
  charged,  \* history: per period, cents of the settled runs that Job Scout
            \* started under its lock
  spent     \* history: the same in tenths of cents

vars == <<period, account, settled, lock, kept, search, charged, spent>>

Periods == 0 .. MaxPeriod
NoRun == [status |-> "none", period |-> 0, cap |-> 0, by |-> Nobody]
IdleSearch == [pc |-> "idle"]

(* Statuses Apify may list that are not a terminal status with a cost. *)
Open(r) == account[r].status \in {"running", "ended"}

(* ParseUSDToCents: half up. *)
Cents(cost) == (cost + 5) \div 10

Init ==
  /\ period = 0
  /\ account = [r \in Runs |-> NoRun]
  /\ settled = [p \in Periods |-> 0]
  /\ lock = Nobody
  /\ kept = Nobody
  /\ search = [s \in Scrapers |-> IdleSearch]
  /\ charged = [p \in Periods |-> 0]
  /\ spent = [p \in Periods |-> 0]

Become(s, next) == search' = [search EXCEPT ![s] = next]

(* UnlockKey, on the way out of the section. *)
Release(s) ==
  /\ lock' = IF lock = s THEN Nobody ELSE lock
  /\ \/ UNCHANGED kept
     \/ "unlock_fails" \in Faults /\ lock = s /\ kept' = s

(* The session ends, and PostgreSQL frees its locks. *)
Drop(s) ==
  /\ lock' = IF lock = s THEN Nobody ELSE lock
  /\ kept' = IF kept = s THEN Nobody ELSE kept

----------------------------------------------------------------------------
(* AroundStart: try the lock, run the section, unlock on every way out.    *)

Begin(s) ==
  /\ search[s].pc = "idle"
  /\ Become(s, [pc |-> "wait"])
  /\ UNCHANGED <<period, account, settled, lock, kept, charged, spent>>

(* A session that has kept the lock gets it once more: it is s's own, or   *)
(* the pool has given it to s.  The section begins by computing the period *)
(* from the clock.                                                         *)
TryLock(s) ==
  /\ search[s].pc = "wait"
  /\ lock = Nobody
  /\ kept \notin {Nobody, s} => search[kept].pc = "idle"
  /\ lock' = s
  /\ kept' = IF kept = Nobody THEN Nobody ELSE s
  /\ Become(s, [pc |-> "sum", period |-> period])
  /\ UNCHANGED <<period, account, settled, charged, spent>>

(* The context ends during the wait: ErrApifyLockBusy. *)
GiveUp(s) ==
  /\ search[s].pc = "wait"
  /\ Become(s, IdleSearch)
  /\ UNCHANGED <<period, account, settled, lock, kept, charged, spent>>

(* Faults: only finished runs are looked at; the cap is the whole budget.  *)
FaultyUnsettled(p) ==
  {r \in Runs : account[r].status = "ended" /\ account[r].period = p}
FaultyRemaining(p) == BudgetCents

(* Runs listed for a period whose cost is not known. *)
Unsettled(p) == {r \in Runs : Open(r) /\ account[r].period = p}

Remaining(p) == BudgetCents - settled[p]

(* Fault: an exhausted budget is not refused. *)
FaultySumUsage(s) ==
  LET p == search[s].period
  IN  /\ search[s].pc = "sum"
      /\ IF Unsettled(p) = {}
         THEN /\ Become(s, [pc |-> "start", period |-> p, cap |-> Remaining(p)])
              /\ UNCHANGED <<lock, kept>>
         ELSE Become(s, IdleSearch) /\ Release(s)
      /\ UNCHANGED <<period, account, settled, charged, spent>>

(* AccountBudget and the two refusals. *)
SumUsage(s) ==
  LET p == search[s].period
  IN  /\ search[s].pc = "sum"
      /\ IF Unsettled(p) = {} /\ Remaining(p) > 0
         THEN /\ Become(s, [pc |-> "start", period |-> p, cap |-> Remaining(p)])
              /\ UNCHANGED <<lock, kept>>
         ELSE Become(s, IdleSearch) /\ Release(s)
      /\ UNCHANGED <<period, account, settled, charged, spent>>

NewRun(cap, by) ==
  [status |-> "running", period |-> period, cap |-> cap, by |-> by]

(* startRun, under the lock or after its session has died. *)
StartRun(s) ==
  /\ search[s].pc = "start"
  /\ \E r \in Runs :
       /\ account[r].status = "none"
       /\ account' = [account EXCEPT ![r] = NewRun(search[s].cap,
                         IF lock = s THEN "jobscout" ELSE "unguarded")]
       /\ \/ Become(s, [pc |-> "poll", run |-> r])
          \/ "lost_start" \in Faults /\ Become(s, IdleSearch)
  /\ Release(s)
  /\ UNCHANGED <<period, settled, charged, spent>>

(* Fault: an error leaves the section without unlocking. *)
FaultySectionFails(s) ==
  /\ search[s].pc \in {"sum", "start"}
  /\ Become(s, IdleSearch)
  /\ UNCHANGED <<period, account, settled, lock, kept, charged, spent>>

(* The list cannot be read, or the start is rejected. *)
SectionFails(s) ==
  /\ search[s].pc \in {"sum", "start"}
  /\ Become(s, IdleSearch)
  /\ Release(s)
  /\ UNCHANGED <<period, account, settled, charged, spent>>

----------------------------------------------------------------------------
(* pollRun, the dataset, waitUsage.  An error, a poll that times out and a *)
(* cost that stays unknown end the search and leave the run alone.         *)

PollEnds(s) ==
  /\ search[s].pc = "poll"
  /\ account[search[s].run].status # "running"
  /\ Become(s, [pc |-> "usage", run |-> search[s].run])
  /\ UNCHANGED <<period, account, settled, lock, kept, charged, spent>>

UsageKnown(s) ==
  /\ search[s].pc = "usage"
  /\ account[search[s].run].status = "settled"
  /\ Become(s, IdleSearch)
  /\ UNCHANGED <<period, account, settled, lock, kept, charged, spent>>

SearchFails(s) ==
  /\ search[s].pc \in {"poll", "usage"}
  /\ Become(s, IdleSearch)
  /\ UNCHANGED <<period, account, settled, lock, kept, charged, spent>>

Cancelled(s) ==
  /\ "cancel" \in Faults
  /\ search[s].pc \in {"poll", "usage"}
  /\ account' \in {account, [account EXCEPT ![search[s].run].status =
                              IF @ = "running" THEN "ended" ELSE @]}
  /\ Become(s, IdleSearch)
  /\ UNCHANGED <<period, settled, lock, kept, charged, spent>>

Crash(s) ==
  /\ "crash" \in Faults
  /\ search[s].pc # "idle"
  /\ Become(s, IdleSearch)
  /\ Drop(s)
  /\ UNCHANGED <<period, account, settled, charged, spent>>

(* The server or the network ends the session, or the pool closes one that *)
(* is past its lifetime.                                                   *)
SessionDies(s) ==
  /\ s \in {lock, kept}
  /\ lock = s => "lost_lock" \in Faults
  /\ Drop(s)
  /\ UNCHANGED <<period, account, settled, search, charged, spent>>

----------------------------------------------------------------------------
(* Apify and the calendar.                                                 *)

OtherStarts(r) ==
  /\ Others
  /\ account[r].status = "none"
  /\ account' = [account EXCEPT ![r] = NewRun(BudgetCents, "other")]
  /\ UNCHANGED <<period, settled, lock, kept, search, charged, spent>>

RunEnds(r) ==
  /\ account[r].status = "running"
  /\ account' = [account EXCEPT ![r].status = "ended"]
  /\ UNCHANGED <<period, settled, lock, kept, search, charged, spent>>

(* Apify stops a run at its cap (maxTotalChargeUsd). *)
UsageSettles(r) ==
  LET p == account[r].period
  IN  /\ account[r].status = "ended"
      /\ account' = [account EXCEPT ![r].status = "settled"]
      /\ \E cost \in Costs :
           /\ cost <= 10 * account[r].cap
           /\ settled' = [settled EXCEPT ![p] = @ + Cents(cost)]
           /\ IF account[r].by = "jobscout"
              THEN /\ charged' = [charged EXCEPT ![p] = @ + Cents(cost)]
                   /\ spent' = [spent EXCEPT ![p] = @ + cost]
              ELSE UNCHANGED <<charged, spent>>
      /\ UNCHANGED <<period, lock, kept, search>>

NextPeriod ==
  /\ period < MaxPeriod
  /\ period' = period + 1
  /\ UNCHANGED <<account, settled, lock, kept, search, charged, spent>>

----------------------------------------------------------------------------
SearchStep(s) ==
  \/ Begin(s) \/ TryLock(s) \/ GiveUp(s) \/ SumUsage(s)
  \/ StartRun(s) \/ SectionFails(s)
  \/ PollEnds(s) \/ UsageKnown(s) \/ SearchFails(s)
  \/ Cancelled(s) \/ Crash(s) \/ SessionDies(s)

Apify(r) == OtherStarts(r) \/ RunEnds(r) \/ UsageSettles(r)

Next ==
  \/ \E s \in Scrapers : SearchStep(s)
  \/ \E r \in Runs : Apify(r)
  \/ NextPeriod

Spec == Init /\ [][Next]_vars

----------------------------------------------------------------------------
(* Correctness.                                                            *)

SearchType ==
  {IdleSearch} \cup [pc : {"wait"}] \cup [pc : {"sum"}, period : Periods]
  \cup [pc : {"start"}, period : Periods, cap : 1 .. BudgetCents]
  \cup [pc : {"poll", "usage"}, run : Runs]

TypeOK ==
  /\ period \in Periods
  /\ account \in [Runs -> [status : {"none", "running", "ended", "settled"},
                           period : Periods, cap : 0 .. BudgetCents,
                           by : {Nobody, "jobscout", "unguarded", "other"}]]
  /\ settled \in [Periods -> Nat]
  /\ lock \in Scrapers \cup {Nobody}
  /\ kept \in Scrapers \cup {Nobody}
  /\ search \in [Scrapers -> SearchType]
  /\ charged \in [Periods -> Nat]
  /\ spent \in [Periods -> Nat]

OwnOpen(r) == account[r].by = "jobscout" /\ Open(r)

(* The runs Job Scout started under its lock in one period never cost more *)
(* than the budget, as the code counts cents, although every start only    *)
(* looks at the runs that were there before it, at most one of them is     *)
(* capped by the same remainder, abandoned runs go on costing, and a       *)
(* search that lost its session may start beside them.                     *)
ChargesWithinBudget ==
  /\ \A p \in Periods : charged[p] <= BudgetCents
  /\ \A r \in Runs : OwnOpen(r) =>
       charged[account[r].period] + account[r].cap <= BudgetCents

(* The budget cannot see the cost of a sibling that still runs: Job Scout  *)
(* never has two unsettled runs that it started under its lock in the same *)
(* period.                                                                 *)
OneOpenRunPerPeriod ==
  \A q, r \in Runs :
    /\ OwnOpen(q) /\ OwnOpen(r)
    /\ account[q].period = account[r].period
    => q = r

(* The runs of Job Scout in period p that have settled. *)
OwnSettled(p) ==
  {r \in Runs : /\ account[r].by = "jobscout"
                /\ account[r].period = p
                /\ account[r].status = "settled"}

(* What those runs really cost, before the costs are rounded to cents one  *)
(* by one, exceeds the limit by less than half a cent for each of them.    *)
SpendNearLimit ==
  \A p \in Periods :
    spent[p] <= 10 * BudgetCents + 4 * Cardinality(OwnSettled(p))

(* The start lock is given back on every way out of the section: who holds *)
(* it is between its sum and its start.  A session that could not give it  *)
(* back lets nobody in but itself, until it ends.                          *)
LockIsInSection ==
  lock # Nobody =>
    search[lock].pc \in {"sum", "start"} /\ kept \in {Nobody, lock}
============================================================================
