------------------------- MODULE ApifyBudget_proof -------------------------
(***************************************************************************)
(* For any number of scrapers, runs and periods: what Job Scout starts     *)
(* under its lock stays within the budget.                                 *)
(***************************************************************************)
EXTENDS ApifyBudget, FiniteSetTheorems, TLAPS

(* s is in the start section, and its session is alive. *)
InSection(s) == lock = s /\ search[s].pc \in {"sum", "start"}

(* Nothing has happened in periods that have not begun. *)
Past ==
  /\ \A r \in Runs : account[r].by = "jobscout" => account[r].period <= period
  /\ \A p \in Periods : p > period => charged[p] = 0
  /\ \A r \in Runs : account[r].status = "none" => account[r].by = Nobody

(* What a scraper in the section has yet to see: no run of Job Scout       *)
(* starts, and none settles, after the period it computed.                 *)
Frozen ==
  \A s \in Scrapers : InSection(s) =>
    /\ search[s].period <= period
    /\ \A r \in Runs :
         account[r].by = "jobscout" => account[r].period <= search[s].period
    /\ \A p \in Periods : p > search[s].period => charged[p] = 0

(* The cap of a scraper about to start still fits into its period. *)
CapFits ==
  \A s \in Scrapers : InSection(s) /\ search[s].pc = "start" =>
    /\ charged[search[s].period] + search[s].cap <= BudgetCents
    /\ \A r \in Runs : OwnOpen(r) => account[r].period # search[s].period

(* The account's total covers Job Scout's own. *)
Ledger == \A p \in Periods : charged[p] <= settled[p]

IInv ==
  /\ TypeOK
  /\ LockIsInSection
  /\ Past
  /\ Frozen
  /\ CapFits
  /\ Ledger
  /\ ChargesWithinBudget
  /\ OneOpenRunPerPeriod
----------------------------------------------------------------------------
USE DEF InSection

(* The first state satisfies the invariant. *)
LEMMA InitInv == Init => IInv
  BY BudgetAssumption, SMTT(30)
  DEF Init, IInv, TypeOK, LockIsInSection, Past, Frozen, CapFits, Ledger,
      ChargesWithinBudget, OneOpenRunPerPeriod, OwnOpen, Open, NoRun,
      IdleSearch, SearchType, Periods

(* A step of one scraper that ends outside the section and only touches    *)
(* its own program counter and, at most, gives its own lock back.          *)
LEMMA Leaving ==
  ASSUME IInv, NEW s \in Scrapers, NEW next \in SearchType,
         next.pc \notin {"sum", "start"}, Become(s, next),
         \/ Release(s) \/ Drop(s)
         \/ UNCHANGED <<lock, kept>> /\ search[s].pc \notin {"sum", "start"},
         UNCHANGED <<period, account, settled, charged, spent>>
  PROVE  IInv'
<1>1. \A t \in Scrapers : t # s => search'[t] = search[t]
  BY DEF IInv, TypeOK, Become
<1>2. search'[s] = next
  BY DEF IInv, TypeOK, Become
<1>3. TypeOK'
  BY BudgetAssumption DEF IInv, TypeOK, Become, Release, Drop
<1>4. lock' # s /\ \A t \in Scrapers : lock' = t => lock = t
  BY BudgetAssumption DEF IInv, LockIsInSection, Release, Drop
<1>5. LockIsInSection'
  <2>1. lock' # Nobody => kept' \in {kept, Nobody}
    BY DEF Release, Drop
  <2> QED BY <1>1, <1>3, <1>4, <2>1 DEF IInv, LockIsInSection, TypeOK
<1>6. Past' /\ Ledger' /\ ChargesWithinBudget' /\ OneOpenRunPerPeriod'
  BY DEF IInv, Past, Ledger, ChargesWithinBudget, OneOpenRunPerPeriod, OwnOpen, Open
<1>7. Frozen'
  BY <1>1, <1>2, <1>4 DEF IInv, Frozen
<1>8. CapFits'
  BY <1>1, <1>2, <1>4 DEF IInv, CapFits, OwnOpen, Open
<1> QED BY <1>3, <1>5, <1>6, <1>7, <1>8 DEF IInv

LEMMA TryLockInv ==
  ASSUME IInv, NEW s \in Scrapers, TryLock(s) PROVE IInv'
<1>1. \A t \in Scrapers : t # s => search'[t] = search[t]
  BY DEF IInv, TypeOK, Become, TryLock
<1>2. search'[s] = [pc |-> "sum", period |-> period]
  BY DEF IInv, TypeOK, Become, TryLock
<1>3. TypeOK'
  <2>1. [pc |-> "sum", period |-> period] \in SearchType
    BY DEF IInv, TypeOK, SearchType
  <2> QED BY <2>1 DEF IInv, TypeOK, Become, TryLock
<1>4. \A t \in Scrapers : t # s => ~InSection(t)'
  BY DEF TryLock
<1>5. LockIsInSection'
  BY <1>2 DEF LockIsInSection, TryLock
<1>6. Past' /\ Ledger' /\ ChargesWithinBudget' /\ OneOpenRunPerPeriod'
  BY DEF IInv, Past, Ledger, ChargesWithinBudget, OneOpenRunPerPeriod, OwnOpen,
         Open, TryLock
<1>7. Frozen'
  <2>1. period <= period
    BY BudgetAssumption DEF IInv, TypeOK, Periods
  <2> QED BY <1>2, <1>4, <2>1 DEF IInv, Frozen, Past, TryLock
<1>8. CapFits'
  BY <1>2, <1>4 DEF CapFits
<1> QED BY <1>3, <1>5, <1>6, <1>7, <1>8 DEF IInv

LEMMA SumUsageInv ==
  ASSUME IInv, NEW s \in Scrapers, SumUsage(s) PROVE IInv'
<1> DEFINE p == search[s].period
           next == [pc |-> "start", period |-> p, cap |-> Remaining(p)]
<1>1. p \in Periods
  BY DEF IInv, TypeOK, SumUsage, SearchType, IdleSearch
<1>2. CASE Unsettled(p) = {} /\ Remaining(p) > 0
  <2>1. search' = [search EXCEPT ![s] = next]
        /\ UNCHANGED <<period, account, settled, lock, kept, charged, spent>>
    BY <1>2 DEF SumUsage, Become
  <2>2. \A t \in Scrapers : t # s => search'[t] = search[t]
    BY <2>1 DEF IInv, TypeOK
  <2>3. search'[s] = next
    BY <2>1 DEF IInv, TypeOK
  <2>4. settled[p] \in Nat /\ charged[p] \in Nat /\ charged[p] <= settled[p]
    BY <1>1 DEF IInv, TypeOK, Ledger
  <2>5. Remaining(p) \in 1 .. BudgetCents /\ charged[p] + Remaining(p) <= BudgetCents
    BY <1>2, <2>4, BudgetAssumption DEF Remaining
  <2>6. TypeOK'
    <3>1. next \in SearchType
      BY <1>1, <2>5 DEF SearchType
    <3> QED BY <2>1, <3>1 DEF IInv, TypeOK
  <2>7. LockIsInSection'
    BY <2>1, <2>2, <2>3 DEF IInv, LockIsInSection, TypeOK
  <2>8. Past' /\ Ledger' /\ ChargesWithinBudget' /\ OneOpenRunPerPeriod'
    BY <2>1 DEF IInv, Past, Ledger, ChargesWithinBudget, OneOpenRunPerPeriod,
                OwnOpen, Open
  <2>9. Frozen'
    <3>1. search[s].pc = "sum"
      BY DEF SumUsage
    <3> QED BY <2>1, <2>2, <2>3, <3>1 DEF IInv, Frozen
  <2>10. CapFits'
    <3>1. \A r \in Runs : OwnOpen(r) => account[r].period # p
      BY <1>2 DEF Unsettled, OwnOpen
    <3> QED BY <2>1, <2>2, <2>3, <2>5, <3>1 DEF IInv, CapFits, OwnOpen, Open
  <2> QED BY <2>6, <2>7, <2>8, <2>9, <2>10 DEF IInv
<1>3. CASE ~(Unsettled(p) = {} /\ Remaining(p) > 0)
  <2>1. Become(s, IdleSearch) /\ Release(s)
        /\ UNCHANGED <<period, account, settled, charged, spent>>
    BY <1>3 DEF SumUsage
  <2> QED BY <2>1, Leaving DEF IdleSearch, SearchType
<1> QED BY <1>2, <1>3

(* A run is counted when it is started under the lock; one started after   *)
(* the session died is not, and disturbs nobody who holds the lock.        *)
LEMMA StartRunInv ==
  ASSUME IInv, NEW s \in Scrapers, StartRun(s) PROVE IInv'
<1> DEFINE c == search[s].cap
           p == search[s].period
           who == IF lock = s THEN "jobscout" ELSE "unguarded"
<1>1. PICK r \in Runs :
        /\ account[r].status = "none"
        /\ account' = [account EXCEPT ![r] = NewRun(c, who)]
        /\ Become(s, [pc |-> "poll", run |-> r]) \/ Become(s, IdleSearch)
  BY DEF StartRun
<1>2. search[s].pc = "start" /\ Release(s)
      /\ UNCHANGED <<period, settled, charged, spent>>
  BY DEF StartRun
<1>3. p \in Periods /\ c \in 1 .. BudgetCents /\ period \in Periods
  BY <1>2 DEF IInv, TypeOK, SearchType, IdleSearch
<1>4. PICK next \in SearchType : next.pc \notin {"sum", "start"} /\ Become(s, next)
  <2>1. IdleSearch \in SearchType /\ IdleSearch.pc \notin {"sum", "start"}
    BY DEF SearchType, IdleSearch
  <2>2. [pc |-> "poll", run |-> r] \in SearchType
        /\ [pc |-> "poll", run |-> r].pc \notin {"sum", "start"}
    BY DEF SearchType
  <2> QED BY <1>1, <2>1, <2>2
<1>5. search'[s] = next /\ \A t \in Scrapers : t # s => search'[t] = search[t]
  BY <1>4 DEF IInv, TypeOK, Become
<1>6. /\ lock' # s /\ \A t \in Scrapers : lock' = t => lock = t
      /\ lock' \in Scrapers \cup {Nobody} /\ kept' \in Scrapers \cup {Nobody}
      /\ lock' # Nobody => kept' = kept
  BY <1>2, BudgetAssumption DEF IInv, TypeOK, Release
<1>7. account'[r] = [status |-> "running", period |-> period, cap |-> c, by |-> who]
      /\ \A q \in Runs : q # r => account'[q] = account[q]
  BY <1>1 DEF IInv, TypeOK, NewRun
<1>8. TypeOK'
  <2>1. account' \in [Runs -> [status : {"none", "running", "ended", "settled"},
                               period : Periods, cap : 0 .. BudgetCents,
                               by : {Nobody, "jobscout", "unguarded", "other"}]]
    BY <1>1, <1>3, BudgetAssumption DEF IInv, TypeOK, NewRun
  <2> QED BY <1>2, <1>4, <1>6, <2>1 DEF IInv, TypeOK, Become
<1>9. LockIsInSection'
  BY <1>5, <1>6 DEF IInv, LockIsInSection
<1>10. Past'
  <2>1. period <= period
    BY <1>3 DEF Periods
  <2> QED BY <1>2, <1>7, <2>1 DEF IInv, Past, Nobody
<1>11. Ledger'
  BY <1>2 DEF IInv, Ledger
<1>12. CASE lock # s
  <2>1. who = "unguarded" /\ ~OwnOpen(r) /\ ~OwnOpen(r)'
    BY <1>1, <1>7, <1>12 DEF OwnOpen, Open
  <2>2. \A q \in Runs : /\ OwnOpen(q)' <=> OwnOpen(q)
                        /\ OwnOpen(q) => account'[q] = account[q]
                        /\ account'[q].by = "jobscout" => account'[q] = account[q]
    BY <1>7, <2>1 DEF OwnOpen, Open
  <2>3. Frozen' /\ CapFits'
    BY <1>2, <1>5, <1>6, <2>2 DEF IInv, Frozen, CapFits
  <2>4. ChargesWithinBudget' /\ OneOpenRunPerPeriod'
    BY <1>2, <2>2 DEF IInv, ChargesWithinBudget, OneOpenRunPerPeriod
  <2> QED BY <1>8, <1>9, <1>10, <1>11, <2>3, <2>4 DEF IInv
<1>13. CASE lock = s
  <2>1. p <= period
    BY <1>2, <1>13 DEF IInv, Frozen
  <2>2. \A q \in Runs : OwnOpen(q) => account[q].period # period
    <3>1. CASE p = period
      BY <1>2, <1>13, <3>1 DEF IInv, CapFits
    <3>2. CASE p < period
      <4>1. \A q \in Runs : account[q].by = "jobscout" => account[q].period <= p
        BY <1>2, <1>13 DEF IInv, Frozen
      <4>2. \A q \in Runs : account[q].period \in Nat
        BY BudgetAssumption DEF IInv, TypeOK, Periods
      <4> QED BY <1>3, <3>2, <4>1, <4>2 DEF OwnOpen, Periods
    <3> QED BY <1>3, <2>1, <3>1, <3>2, BudgetAssumption DEF Periods
  <2>3. charged[period] + c <= BudgetCents
    <3>1. CASE p = period
      BY <1>2, <1>13, <3>1 DEF IInv, CapFits
    <3>2. CASE p < period
      <4>1. charged[period] = 0
        BY <1>2, <1>3, <1>13, <3>2 DEF IInv, Frozen
      <4> QED BY <1>3, <4>1, BudgetAssumption
    <3> QED BY <1>3, <2>1, <3>1, <3>2, BudgetAssumption DEF Periods
  <2>4. Frozen' /\ CapFits'
    <3>1. \A t \in Scrapers : lock' # t
      BY <1>6, <1>13
    <3> QED BY <3>1 DEF Frozen, CapFits
  <2>5. ChargesWithinBudget'
    BY <1>2, <1>7, <2>3 DEF IInv, ChargesWithinBudget, OwnOpen, Open
  <2>6. OneOpenRunPerPeriod'
    BY <1>2, <1>7, <2>2 DEF IInv, OneOpenRunPerPeriod, OwnOpen, Open
  <2> QED BY <1>8, <1>9, <1>10, <1>11, <2>4, <2>5, <2>6 DEF IInv
<1> QED BY <1>12, <1>13

(* A status that changes to "ended" leaves an open run open, and to        *)
(* "settled" closes it; nothing else about the runs changes.               *)
LEMMA EndsInv ==
  ASSUME IInv, NEW r \in Runs, account[r].status = "running",
         account' = [account EXCEPT ![r].status = "ended"],
         UNCHANGED <<period, settled, lock, kept, search, charged, spent>>
  PROVE  IInv'
<1>1. \A q \in Runs : /\ account'[q].by = account[q].by
                      /\ account'[q].period = account[q].period
                      /\ account'[q].cap = account[q].cap
                      /\ OwnOpen(q)' <=> OwnOpen(q)
                      /\ account'[q].status = "none" => account[q].status = "none"
  BY DEF IInv, TypeOK, OwnOpen, Open
<1>2. TypeOK'
  BY DEF IInv, TypeOK
<1>3. LockIsInSection' /\ Ledger'
  BY DEF IInv, LockIsInSection, Ledger
<1>4. Past' /\ Frozen'
  BY <1>1 DEF IInv, Past, Frozen
<1>5. CapFits' /\ ChargesWithinBudget' /\ OneOpenRunPerPeriod'
  BY <1>1 DEF IInv, CapFits, ChargesWithinBudget, OneOpenRunPerPeriod
<1> QED BY <1>2, <1>3, <1>4, <1>5 DEF IInv

LEMMA SettlesInv ==
  ASSUME IInv, NEW r \in Runs, UsageSettles(r) PROVE IInv'
<1> DEFINE p == account[r].period
<1>1. PICK cost \in Costs :
        /\ cost <= 10 * account[r].cap
        /\ settled' = [settled EXCEPT ![p] = @ + Cents(cost)]
        /\ IF account[r].by = "jobscout"
           THEN /\ charged' = [charged EXCEPT ![p] = @ + Cents(cost)]
                /\ spent' = [spent EXCEPT ![p] = @ + cost]
           ELSE UNCHANGED <<charged, spent>>
  BY DEF UsageSettles
<1>2. /\ account[r].status = "ended"
      /\ account' = [account EXCEPT ![r].status = "settled"]
      /\ UNCHANGED <<period, lock, kept, search>>
  BY DEF UsageSettles
<1> DEFINE c == Cents(cost)
<1>3. cost \in Nat /\ p \in Periods /\ account[r].cap \in 0 .. BudgetCents
  BY BudgetAssumption DEF IInv, TypeOK
<1>4. c \in Nat /\ c <= account[r].cap
  BY <1>1, <1>3, BudgetAssumption DEF Cents
<1> HIDE DEF c
<1>5. \A q \in Runs : /\ account'[q].by = account[q].by
                      /\ account'[q].period = account[q].period
                      /\ account'[q].cap = account[q].cap
                      /\ OwnOpen(q)' <=> (OwnOpen(q) /\ q # r)
                      /\ account'[q].status = "none" => account[q].status = "none"
  BY <1>2 DEF IInv, TypeOK, OwnOpen, Open
<1>6. /\ settled' = [settled EXCEPT ![p] = settled[p] + c]
      /\ charged' = IF account[r].by = "jobscout"
                    THEN [charged EXCEPT ![p] = charged[p] + c] ELSE charged
  BY <1>1 DEF c
<1>7. TypeOK'
  <2>1. settled' \in [Periods -> Nat] /\ charged' \in [Periods -> Nat]
    BY <1>3, <1>4, <1>6 DEF IInv, TypeOK
  <2>2. spent' \in [Periods -> Nat]
    BY <1>1, <1>3 DEF IInv, TypeOK
  <2>3. account' \in [Runs -> [status : {"none", "running", "ended", "settled"},
                               period : Periods, cap : 0 .. BudgetCents,
                               by : {Nobody, "jobscout", "unguarded", "other"}]]
    BY <1>2 DEF IInv, TypeOK
  <2> QED BY <1>2, <2>1, <2>2, <2>3 DEF IInv, TypeOK
<1>8. LockIsInSection'
  BY <1>2 DEF IInv, LockIsInSection
<1>9. \A q \in Periods :
        /\ settled[q] \in Nat /\ charged[q] \in Nat
        /\ settled'[q] = settled[q] + (IF q = p THEN c ELSE 0)
        /\ charged'[q] = charged[q]
             + (IF q = p /\ account[r].by = "jobscout" THEN c ELSE 0)
  BY <1>3, <1>4, <1>6 DEF IInv, TypeOK
<1>10. account[r].by = "jobscout" => p <= period
  BY DEF IInv, Past
<1>11. Past'
  <2>1. \A q \in Periods : q > period => charged'[q] = 0
    BY <1>3, <1>9, <1>10, BudgetAssumption DEF IInv, Past, TypeOK, Periods
  <2> QED BY <1>2, <1>5, <2>1 DEF IInv, Past
<1>12. Frozen'
  <2> SUFFICES ASSUME NEW s \in Scrapers, InSection(s)
               PROVE  /\ search[s].period <= period
                      /\ \A q \in Runs : account'[q].by = "jobscout"
                                     => account'[q].period <= search[s].period
                      /\ \A q \in Periods : q > search[s].period => charged'[q] = 0
    BY <1>2 DEF Frozen
  <2>1. search[s].period \in Periods
    BY DEF IInv, TypeOK, SearchType, IdleSearch
  <2>2. account[r].by = "jobscout" => p <= search[s].period
    BY DEF IInv, Frozen
  <2>3. \A q \in Periods : q > search[s].period => charged'[q] = 0
    BY <1>3, <1>9, <2>1, <2>2, BudgetAssumption DEF IInv, Frozen, Periods
  <2> QED BY <1>5, <2>3 DEF IInv, Frozen
<1>13. CapFits'
  <2> SUFFICES ASSUME NEW s \in Scrapers, InSection(s), search[s].pc = "start"
               PROVE  /\ charged'[search[s].period] + search[s].cap <= BudgetCents
                      /\ \A q \in Runs : OwnOpen(q)'
                             => account'[q].period # search[s].period
    BY <1>2 DEF CapFits
  <2>1. search[s].period \in Periods
    BY DEF IInv, TypeOK, SearchType, IdleSearch
  <2>2. account[r].by = "jobscout" => p # search[s].period
    BY <1>2 DEF IInv, CapFits, OwnOpen, Open
  <2>3. charged'[search[s].period] = charged[search[s].period]
    BY <1>9, <2>1, <2>2
  <2> QED BY <1>5, <2>3 DEF IInv, CapFits
<1>14. Ledger'
  BY <1>4, <1>9 DEF IInv, Ledger
<1>15. account[r].by = "jobscout" => charged[p] + account[r].cap <= BudgetCents
  BY <1>2 DEF IInv, ChargesWithinBudget, OwnOpen, Open
<1>16. ChargesWithinBudget'
  <2>1. \A q \in Periods : charged'[q] <= BudgetCents
    BY <1>3, <1>4, <1>9, <1>15, BudgetAssumption DEF IInv, ChargesWithinBudget
  <2>2. ASSUME NEW q \in Runs, OwnOpen(q)'
        PROVE  charged'[account'[q].period] + account'[q].cap <= BudgetCents
    <3>1. OwnOpen(q) /\ q # r /\ account[q].period \in Periods
      BY <1>5, <2>2 DEF IInv, TypeOK
    <3>2. account[r].by = "jobscout" => account[q].period # p
      BY <1>2, <3>1 DEF IInv, OneOpenRunPerPeriod, OwnOpen, Open
    <3>3. charged'[account[q].period] = charged[account[q].period]
      BY <1>9, <3>1, <3>2
    <3> QED BY <1>5, <3>1, <3>3 DEF IInv, ChargesWithinBudget
  <2> QED BY <2>1, <2>2 DEF ChargesWithinBudget
<1>17. OneOpenRunPerPeriod'
  BY <1>5 DEF IInv, OneOpenRunPerPeriod
<1> QED BY <1>7, <1>8, <1>11, <1>12, <1>13, <1>14, <1>16, <1>17 DEF IInv

LEMMA OtherStartsInv ==
  ASSUME IInv, NEW r \in Runs, OtherStarts(r) PROVE IInv'
<1>1. account[r].status = "none" /\ account[r].by = Nobody
      /\ UNCHANGED <<period, settled, lock, kept, search, charged, spent>>
  BY DEF OtherStarts, IInv, Past
<1>2. account'[r] = [status |-> "running", period |-> period,
                     cap |-> BudgetCents, by |-> "other"]
      /\ \A q \in Runs : q # r => account'[q] = account[q]
  BY DEF IInv, TypeOK, OtherStarts, NewRun
<1>3. TypeOK'
  <2>1. /\ period \in Periods /\ BudgetCents \in 0 .. BudgetCents
        /\ account' = [account EXCEPT ![r] = account'[r]]
    BY <1>1, <1>2, BudgetAssumption DEF IInv, TypeOK, OtherStarts, NewRun
  <2> QED BY <1>1, <1>2, <2>1 DEF IInv, TypeOK
<1>4. LockIsInSection' /\ Ledger'
  BY <1>1 DEF IInv, LockIsInSection, Ledger
<1>5. \A q \in Runs : OwnOpen(q)' <=> OwnOpen(q)
  BY <1>1, <1>2 DEF OwnOpen, Open, Nobody
<1>6. Past' /\ Frozen'
  BY <1>1, <1>2 DEF IInv, Past, Frozen
<1>7. \A q \in Runs : OwnOpen(q) => account'[q] = account[q]
  BY <1>1, <1>2 DEF OwnOpen, Open
<1>8. CapFits' /\ ChargesWithinBudget' /\ OneOpenRunPerPeriod'
  BY <1>1, <1>5, <1>7 DEF IInv, CapFits, ChargesWithinBudget, OneOpenRunPerPeriod
<1> QED BY <1>3, <1>4, <1>6, <1>8 DEF IInv

LEMMA NextPeriodInv == ASSUME IInv, NextPeriod PROVE IInv'
<1>1. period' = period + 1 /\ period \in Periods /\ period < MaxPeriod
      /\ UNCHANGED <<account, settled, lock, kept, search, charged, spent>>
  BY DEF NextPeriod, IInv, TypeOK
<1>2. TypeOK'
  <2>1. period' \in Periods
    BY <1>1, BudgetAssumption DEF Periods
  <2> QED BY <1>1, <2>1 DEF IInv, TypeOK
<1>3. LockIsInSection' /\ Ledger' /\ CapFits' /\ ChargesWithinBudget' /\ OneOpenRunPerPeriod'
  BY <1>1 DEF IInv, LockIsInSection, Ledger, CapFits, ChargesWithinBudget,
              OneOpenRunPerPeriod, OwnOpen, Open
<1>4. Past'
  <2>1. \A r \in Runs : account[r].period \in Periods
    BY DEF IInv, TypeOK
  <2> QED BY <1>1, <2>1, BudgetAssumption DEF IInv, Past, Periods
<1>5. Frozen'
  <2>1. \A s \in Scrapers : InSection(s) => search[s].period \in Periods
    BY DEF IInv, TypeOK, SearchType, IdleSearch
  <2> QED BY <1>1, <2>1, BudgetAssumption DEF IInv, Frozen, Periods
<1> QED BY <1>2, <1>3, <1>4, <1>5 DEF IInv

(* The end of a session puts nobody into the section.                      *)
LEMMA SessionDiesInv ==
  ASSUME IInv, NEW s \in Scrapers, SessionDies(s) PROVE IInv'
<1>1. /\ lock' \in {Nobody, lock} /\ kept' \in {Nobody, kept}
      /\ UNCHANGED <<period, account, settled, search, charged, spent>>
  BY DEF SessionDies, Drop
<1>2. \A t \in Scrapers : lock' = t => lock = t
  BY <1>1, BudgetAssumption
<1>3. TypeOK' /\ LockIsInSection'
  BY <1>1 DEF IInv, TypeOK, LockIsInSection
<1>4. Frozen' /\ CapFits'
  BY <1>1, <1>2 DEF IInv, Frozen, CapFits, OwnOpen, Open
<1>5. Past' /\ Ledger' /\ ChargesWithinBudget' /\ OneOpenRunPerPeriod'
  BY <1>1 DEF IInv, Past, Ledger, ChargesWithinBudget, OneOpenRunPerPeriod,
              OwnOpen, Open
<1> QED BY <1>3, <1>4, <1>5 DEF IInv

LEMMA CancelledInv ==
  ASSUME IInv, NEW s \in Scrapers, Cancelled(s) PROVE IInv'
<1> DEFINE r == search[s].run
<1>1. search[s].pc \in {"poll", "usage"} /\ r \in Runs
  BY DEF Cancelled, IInv, TypeOK, SearchType, IdleSearch
<1>2. \/ account' = account
      \/ account[r].status = "running"
         /\ account' = [account EXCEPT ![r].status = "ended"]
  BY <1>1 DEF Cancelled, IInv, TypeOK
<1>3. Become(s, IdleSearch) /\ UNCHANGED <<period, settled, lock, kept, charged, spent>>
  BY DEF Cancelled
<1>4. search'[s] = IdleSearch /\ \A t \in Scrapers : t # s => search'[t] = search[t]
  BY <1>3 DEF IInv, TypeOK, Become
<1>5. \A q \in Runs : /\ account'[q].by = account[q].by
                      /\ account'[q].period = account[q].period
                      /\ account'[q].cap = account[q].cap
                      /\ OwnOpen(q)' <=> OwnOpen(q)
                      /\ account'[q].status = "none" => account[q].status = "none"
  BY <1>2 DEF IInv, TypeOK, OwnOpen, Open
<1>6. TypeOK'
  <2>1. IdleSearch \in SearchType
    BY DEF SearchType
  <2>2. account' \in [Runs -> [status : {"none", "running", "ended", "settled"},
                               period : Periods, cap : 0 .. BudgetCents,
                               by : {Nobody, "jobscout", "unguarded", "other"}]]
    BY <1>2 DEF IInv, TypeOK
  <2> QED BY <1>3, <2>1, <2>2 DEF IInv, TypeOK, Become
<1>7. LockIsInSection' /\ Ledger'
  <2>1. lock # s /\ lock \in Scrapers \cup {Nobody}
    BY <1>1, BudgetAssumption DEF IInv, TypeOK, LockIsInSection
  <2> QED BY <1>3, <1>4, <2>1 DEF IInv, LockIsInSection, Ledger
<1>8. Past' /\ Frozen'
  BY <1>3, <1>4, <1>5 DEF IInv, Past, Frozen, IdleSearch
<1>9. CapFits' /\ ChargesWithinBudget' /\ OneOpenRunPerPeriod'
  BY <1>3, <1>4, <1>5 DEF IInv, CapFits, ChargesWithinBudget,
                          OneOpenRunPerPeriod, IdleSearch
<1> QED BY <1>6, <1>7, <1>8, <1>9 DEF IInv

(* Every step preserves the invariant.                                     *)
LEMMA StepInv ==
  ASSUME IInv, [Next]_vars PROVE IInv'
<1>1. CASE UNCHANGED vars
  BY <1>1 DEF vars, IInv, TypeOK, LockIsInSection, Past, Frozen, CapFits, Ledger,
              ChargesWithinBudget, OneOpenRunPerPeriod, OwnOpen, Open
<1>2. CASE NextPeriod
  BY <1>2, NextPeriodInv
<1>3. ASSUME NEW r \in Runs, Apify(r) PROVE IInv'
  <2>1. CASE RunEnds(r)
    BY <2>1, EndsInv DEF RunEnds
  <2> QED BY <1>3, <2>1, OtherStartsInv, SettlesInv DEF Apify
<1>4. ASSUME NEW s \in Scrapers, SearchStep(s) PROVE IInv'
  <2>1. IdleSearch \in SearchType /\ IdleSearch.pc \notin {"sum", "start"}
        /\ [pc |-> "wait"] \in SearchType
    BY DEF SearchType, IdleSearch
  <2>2. CASE Begin(s)
    BY <2>1, <2>2, Leaving DEF Begin
  <2>3. CASE GiveUp(s)
    BY <2>1, <2>3, Leaving DEF GiveUp
  <2>4. CASE SectionFails(s)
    BY <2>1, <2>4, Leaving DEF SectionFails
  <2>5. CASE PollEnds(s)
    <3>1. [pc |-> "usage", run |-> search[s].run] \in SearchType
      BY <2>5 DEF PollEnds, IInv, TypeOK, SearchType, IdleSearch
    <3> QED BY <2>5, <3>1, Leaving DEF PollEnds
  <2>6. CASE UsageKnown(s)
    BY <2>1, <2>6, Leaving DEF UsageKnown
  <2>7. CASE SearchFails(s)
    BY <2>1, <2>7, Leaving DEF SearchFails
  <2>8. CASE Crash(s)
    BY <2>1, <2>8, Leaving DEF Crash
  <2>9. CASE SessionDies(s)
    BY <2>9, SessionDiesInv
  <2> QED BY <1>4, <2>2, <2>3, <2>4, <2>5, <2>6, <2>7, <2>8, <2>9,
             TryLockInv, SumUsageInv, StartRunInv, CancelledInv DEF SearchStep
<1> QED BY <1>1, <1>2, <1>3, <1>4 DEF Next

LEMMA Invariance == Spec => []IInv
<1>1. Init => IInv
  BY InitInv
<1>2. IInv /\ [Next]_vars => IInv'
  BY StepInv
<1> QED BY <1>1, <1>2, PTL DEF Spec

(* Every variable keeps its type (startUnderBudget, runActor).             *)
THEOREM TypeCorrect == Spec => []TypeOK
<1>1. IInv => TypeOK
  BY DEF IInv
<1> QED BY <1>1, Invariance, PTL

(* What Job Scout starts under its lock in one period costs at most the    *)
(* budget, whatever else the account is used for and whenever searches are *)
(* cancelled, crash, lose answers or lose their session (the spend gate).  *)
THEOREM BudgetIsKept == Spec => []ChargesWithinBudget
<1>1. IInv => ChargesWithinBudget
  BY DEF IInv
<1> QED BY <1>1, Invariance, PTL

(* Job Scout never has two runs of one period unsettled (the spend gate).  *)
THEOREM OneRunIsOpen == Spec => []OneOpenRunPerPeriod
<1>1. IInv => OneOpenRunPerPeriod
  BY DEF IInv
<1> QED BY <1>1, Invariance, PTL

(* The APIFY lock is held only inside the section from the sum to the      *)
(* start, and while a session keeps it from a failed unlock, nobody else   *)
(* is let in (attachApifyStartLock).                                       *)
THEOREM LockIsGivenBack == Spec => []LockIsInSection
<1>1. IInv => LockIsInSection
  BY DEF IInv
<1> QED BY <1>1, Invariance, PTL

----------------------------------------------------------------------------
(* The rounding of one cost loses at most four tenths of a cent.           *)
LEMMA CentsLoseLittle ==
  ASSUME NEW cost \in Nat
  PROVE  Cents(cost) \in Nat /\ cost <= 10 * Cents(cost) + 4
<1> DEFINE q == (cost + 5) \div 10
<1>1. /\ q \in Int
      /\ 10 * q <= cost + 5
      /\ cost + 5 < 10 * q + 10
  OBVIOUS
<1>2. Cents(cost) = q
  BY DEF Cents
<1> HIDE DEF q
<1> QED BY <1>1, <1>2

(* The error of the rounding in a period is spread over its settled runs,  *)
(* which are finitely many because they settle one by one.                 *)
Rounding ==
  \A p \in Periods :
    /\ IsFiniteSet(OwnSettled(p))
    /\ spent[p] <= 10 * charged[p] + 4 * Cardinality(OwnSettled(p))

LEMMA InitRounding == Init => Rounding
<1> SUFFICES ASSUME Init PROVE Rounding
  OBVIOUS
<1>1. \A p \in Periods : OwnSettled(p) = {}
  BY DEF Init, NoRun, OwnSettled
<1>2. \A p \in Periods : spent[p] = 0 /\ charged[p] = 0
  BY DEF Init
<1> QED BY <1>1, <1>2, FS_EmptySet DEF Rounding

(* A step that settles nothing leaves the settled runs as they were.       *)
LEMMA NothingSettles ==
  ASSUME IInv, Rounding, UNCHANGED <<charged, spent>>,
         \A r \in Runs :
           \/ account'[r] = account[r]
           \/ account[r].status # "settled" /\ account'[r].status # "settled"
  PROVE  Rounding'
<1>1. \A p : OwnSettled(p)' = OwnSettled(p)
  BY DEF OwnSettled
<1> QED BY <1>1 DEF Rounding

LEMMA SettlesRounding ==
  ASSUME IInv, Rounding, NEW r \in Runs, UsageSettles(r) PROVE Rounding'
<1> DEFINE p == account[r].period
<1>1. PICK cost \in Costs :
        IF account[r].by = "jobscout"
        THEN /\ charged' = [charged EXCEPT ![p] = @ + Cents(cost)]
             /\ spent' = [spent EXCEPT ![p] = @ + cost]
        ELSE UNCHANGED <<charged, spent>>
  BY DEF UsageSettles
<1>2. /\ account[r].status = "ended"
      /\ account' = [account EXCEPT ![r].status = "settled"]
  BY DEF UsageSettles
<1>3. /\ p \in Periods
      /\ \A q \in Runs : q # r => account'[q] = account[q]
      /\ account'[r].status = "settled"
      /\ account'[r].by = account[r].by
      /\ account'[r].period = p
  BY <1>2 DEF IInv, TypeOK
<1>4. cost \in Nat /\ charged \in [Periods -> Nat] /\ spent \in [Periods -> Nat]
  BY BudgetAssumption DEF IInv, TypeOK
<1>5. ASSUME NEW q \in Periods, ~(account[r].by = "jobscout" /\ q = p)
      PROVE  /\ IsFiniteSet(OwnSettled(q)')
             /\ spent'[q] <= 10 * charged'[q] + 4 * Cardinality(OwnSettled(q)')
  <2>1. OwnSettled(q)' = OwnSettled(q)
    BY <1>2, <1>3, <1>5 DEF OwnSettled
  <2>2. charged'[q] = charged[q] /\ spent'[q] = spent[q]
    BY <1>1, <1>4, <1>5
  <2> QED BY <2>1, <2>2 DEF Rounding
<1>6. ASSUME account[r].by = "jobscout"
      PROVE  /\ IsFiniteSet(OwnSettled(p)')
             /\ spent'[p] <= 10 * charged'[p] + 4 * Cardinality(OwnSettled(p)')
  <2>1. OwnSettled(p)' = OwnSettled(p) \cup {r} /\ r \notin OwnSettled(p)
    BY <1>2, <1>3, <1>6 DEF OwnSettled
  <2>2. IsFiniteSet(OwnSettled(p)) /\ Cardinality(OwnSettled(p)) \in Nat
    BY <1>3, FS_CardinalityType DEF Rounding
  <2>3. /\ IsFiniteSet(OwnSettled(p)')
        /\ Cardinality(OwnSettled(p)') = Cardinality(OwnSettled(p)) + 1
    BY <2>1, <2>2, FS_AddElement
  <2>4. charged'[p] = charged[p] + Cents(cost) /\ spent'[p] = spent[p] + cost
    BY <1>1, <1>3, <1>4, <1>6
  <2>5. Cents(cost) \in Nat /\ cost <= 10 * Cents(cost) + 4
    BY <1>4, CentsLoseLittle
  <2>6. charged[p] \in Nat /\ spent[p] \in Nat
    BY <1>3, <1>4
  <2>7. spent[p] <= 10 * charged[p] + 4 * Cardinality(OwnSettled(p))
    BY <1>3 DEF Rounding
  <2> QED BY <1>4, <2>2, <2>3, <2>4, <2>5, <2>6, <2>7
<1> QED BY <1>3, <1>5, <1>6 DEF Rounding

LEMMA StepRounding ==
  ASSUME IInv, Rounding, [Next]_vars PROVE Rounding'
<1>1. CASE UNCHANGED vars
  BY <1>1, NothingSettles DEF vars
<1>2. CASE NextPeriod
  BY <1>2, NothingSettles DEF NextPeriod
<1>3. ASSUME NEW r \in Runs, Apify(r) PROVE Rounding'
  <2>1. CASE OtherStarts(r)
    BY <2>1, NothingSettles DEF OtherStarts, NewRun, IInv, TypeOK
  <2>2. CASE RunEnds(r)
    BY <2>2, NothingSettles DEF RunEnds, IInv, TypeOK
  <2> QED BY <1>3, <2>1, <2>2, SettlesRounding DEF Apify
<1>4. ASSUME NEW s \in Scrapers, SearchStep(s) PROVE Rounding'
  <2>1. CASE StartRun(s)
    <3>1. UNCHANGED <<charged, spent>>
      BY <2>1 DEF StartRun
    <3>2. PICK q \in Runs :
            /\ account[q].status = "none"
            /\ account' = [account EXCEPT ![q] = NewRun(search[s].cap,
                              IF lock = s THEN "jobscout" ELSE "unguarded")]
      BY <2>1 DEF StartRun
    <3>3. account'[q].status = "running" /\ \A t \in Runs : t # q => account'[t] = account[t]
      BY <3>2 DEF NewRun, IInv, TypeOK
    <3> QED BY <3>1, <3>2, <3>3, NothingSettles
  <2>2. CASE Cancelled(s)
    <3>1. UNCHANGED <<charged, spent>>
          /\ account' \in {account, [account EXCEPT ![search[s].run].status =
                                      IF @ = "running" THEN "ended" ELSE @]}
      BY <2>2 DEF Cancelled
    <3>2. \A q \in Runs : \/ account'[q] = account[q]
                          \/ account[q].status # "settled" /\ account'[q].status # "settled"
      BY <3>1 DEF IInv, TypeOK
    <3> QED BY <3>1, <3>2, NothingSettles
  <2>3. CASE UNCHANGED <<account, charged, spent>>
    BY <2>3, NothingSettles
  <2> QED BY <1>4, <2>1, <2>2, <2>3
          DEF SearchStep, Begin, TryLock, GiveUp, SumUsage, SectionFails,
              PollEnds, UsageKnown, SearchFails, Crash, SessionDies
<1> QED BY <1>1, <1>2, <1>3, <1>4 DEF Next

(* What the runs that Job Scout starts under its lock in one period really *)
(* cost exceeds the budget by less than half a cent for each run that has  *)
(* settled: the gate compares costs that ParseUSDToCents has rounded.      *)
THEOREM SpendIsNear == Spec => []SpendNearLimit
<1>1. Init => Rounding
  BY InitRounding
<1>2. IInv /\ Rounding /\ [Next]_vars => Rounding'
  BY StepRounding
<1>3. IInv /\ Rounding => SpendNearLimit
  <2> SUFFICES ASSUME IInv, Rounding, NEW p \in Periods
               PROVE  spent[p] <= 10 * BudgetCents + 4 * Cardinality(OwnSettled(p))
    BY DEF SpendNearLimit
  <2>1. charged[p] <= BudgetCents /\ charged[p] \in Nat /\ spent[p] \in Nat
    BY DEF IInv, TypeOK, ChargesWithinBudget
  <2>2. Cardinality(OwnSettled(p)) \in Nat
    BY FS_CardinalityType DEF Rounding
  <2>3. spent[p] <= 10 * charged[p] + 4 * Cardinality(OwnSettled(p))
    BY DEF Rounding
  <2> QED BY <2>1, <2>2, <2>3, BudgetAssumption
<1> QED BY <1>1, <1>2, <1>3, Invariance, PTL DEF Spec
============================================================================
