------------------------- MODULE Dispatchers_proof -------------------------
(***************************************************************************)
(* No wake-up is lost, for any rows, bounds and failures: dropping an      *)
(* unreceived signal when a run continues as new is harmless because the   *)
(* new run reads the table first.                                          *)
(***************************************************************************)
EXTENDS Dispatchers, TLAPS

(* The announced rows are still in the state they were announced in, and   *)
(* a waiting run has nothing announced that it did not skip; a row that is *)
(* not decided has an attempt left.                                        *)
AttemptsLeft ==
  \A u \in Jobs : state[u] \in {"absent", "pending", "needs_detail"} =>
    tries[u] < MaxDetailAttempts

IInv ==
  /\ TypeOK
  /\ AttemptsLeft
  /\ toFilter \subseteq In("pending")
  /\ toDetail \subseteq In("needs_detail")
  /\ NoLostWakeUp

LEMMA NewRunType == Closed \in RunType /\ NewRun \in RunType
  BY DEF Closed, NewRun, RunType

(* The loop never goes from a row straight to the idle wait. *)
LEMMA NextIterationType ==
  ASSUME NEW d \in RunType, NEW max \in Nat \ {0}, d.count < max
  PROVE  /\ NextIteration(d, max) \in RunType
         /\ NextIteration(d, max).count < max
         /\ NextIteration(d, max).pc = "load"
  <1>1. /\ NewRun \in RunType
        /\ NewRun.count = 0 /\ NewRun.pc = "load"
    BY DEF NewRun, Closed, RunType
  <1>2. CASE d.count + 1 < max
    <2> DEFINE next == [pc |-> "load", skip |-> d.skip, count |-> d.count + 1,
                        job |-> {}, flags |-> d.flags]
    <2>1. NextIteration(d, max) = next
      BY <1>2 DEF NextIteration, RunType
    <2>2. d.count + 1 \in Nat /\ d.skip \in SUBSET Jobs
          /\ d.flags \in SUBSET {"woke", "signal"}
      BY DEF RunType
    <2>3. next \in RunType /\ next.count = d.count + 1 /\ next.pc = "load"
      BY <2>2 DEF RunType
    <2> QED BY <1>2, <2>1, <2>3
  <1>3. CASE ~(d.count + 1 < max)
    <2>1. NextIteration(d, max) = NewRun
      BY <1>3 DEF NextIteration
    <2> QED BY <1>1, <2>1
  <1> QED BY <1>2, <1>3

LEMMA WokenType ==
  ASSUME NEW d \in RunType, NEW max \in Nat \ {0}, d.count < max
  PROVE  /\ Woken(d) \in RunType
         /\ Woken(d).count < max
         /\ "signal" \in Woken(d).flags
  <1>1. CASE d.pc = "closed"
    <2> DEFINE new == [NewRun EXCEPT !.flags = {"signal"}]
    <2>1. Woken(d) = new
      BY <1>1 DEF Woken
    <2>2. new \in RunType /\ new.count = 0 /\ "signal" \in new.flags
      BY DEF NewRun, Closed, RunType
    <2> QED BY <2>1, <2>2
  <1>2. CASE d.pc # "closed"
    <2> DEFINE new == [d EXCEPT !.flags = @ \cup {"signal"}]
    <2>1. Woken(d) = new
      BY <1>2 DEF Woken
    <2>2. new \in RunType /\ new.count = d.count /\ "signal" \in new.flags
      BY DEF RunType
    <2> QED BY <2>1, <2>2
  <1> QED BY <1>1, <1>2

(* A run that finds no row to work on has skipped all there are. *)
LEMMA LoadType ==
  ASSUME NEW d \in RunType, NEW s
  PROVE  /\ Load(d, s) \in RunType
         /\ Load(d, s).count = d.count
         /\ Load(d, s).pc = "idle" => In(s) \subseteq Load(d, s).skip
  <1>1. In(s) \ d.skip \subseteq Jobs /\ Oldest(In(s) \ d.skip) \subseteq Jobs
    BY DEF In, Oldest
  <1> QED BY <1>1 DEF Load, RunType

LEMMA InitHolds == DispatchersAssumption /\ Init => IInv
  <1> SUFFICES ASSUME DispatchersAssumption, Init PROVE IInv
    OBVIOUS
  <1>1. Closed \in RunType /\ Closed.count = 0 /\ Closed.pc = "closed"
    BY DEF Closed, RunType
  <1>2. Woken(Closed) \in RunType /\ Woken(Closed).count = 0 /\ Woken(Closed).pc = "load"
    BY DEF Woken, Closed, NewRun, RunType
  <1>3. filt \in {Closed, Woken(Closed)} /\ proc \in {Closed, Woken(Closed)}
    BY DEF Init
  <1>4. TypeOK
    BY <1>1, <1>2, <1>3 DEF Init, TypeOK, DispatchersAssumption, MaxDetailAttempts
  <1>5. NoLostWakeUp
    BY <1>1, <1>2, <1>3 DEF NoLostWakeUp
  <1>6. AttemptsLeft
    BY DEF Init, AttemptsLeft, MaxDetailAttempts
  <1> QED BY <1>4, <1>5, <1>6 DEF Init, IInv

(* Steps of the world: more rows wait, nobody goes to sleep. *)
LEMMA WorldStep ==
  ASSUME DispatchersAssumption, IInv,
         (\E u \in Jobs : Insert(u)) \/ ReEvaluate \/ UNCHANGED vars
  PROVE  IInv'
  <1>1. TypeOK /\ AttemptsLeft /\ toFilter \subseteq In("pending")
        /\ toDetail \subseteq In("needs_detail") /\ NoLostWakeUp
    BY DEF IInv
  <1>2. UNCHANGED <<filt, proc, toFilter, toDetail>>
    BY DEF Insert, ReEvaluate, vars
  <1>3. TypeOK'
    BY <1>1, <1>2
       DEF TypeOK, Insert, ReEvaluate, vars, MaxDetailAttempts, DispatchersAssumption
  <1>4. In("pending") \subseteq In("pending")' /\ In("needs_detail") \subseteq In("needs_detail")'
    BY <1>1 DEF In, TypeOK, Insert, ReEvaluate, vars
  <1>5. AttemptsLeft'
    BY <1>1 DEF TypeOK, AttemptsLeft, Insert, ReEvaluate, vars, MaxDetailAttempts
  <1> QED BY <1>1, <1>2, <1>3, <1>4, <1>5 DEF IInv, NoLostWakeUp

(* What a wake leaves of the invariant. *)
LEMMA WakeFilterKeeps ==
  ASSUME DispatchersAssumption, IInv, WakeFilterPending, UNCHANGED <<state, tries, redo>>
  PROVE  /\ filt' \in RunType /\ filt'.count < FilterMax /\ "signal" \in filt'.flags
         /\ toFilter' \subseteq Jobs /\ toFilter' \subseteq In("pending")'
  <1>1. filt \in RunType /\ filt.count < FilterMax
    BY DEF IInv, TypeOK
  <1>2. FilterMax \in Nat \ {0}
    BY DEF DispatchersAssumption
  <1> QED BY <1>1, <1>2, WokenType DEF IInv, WakeFilterPending, In

LEMMA WakeProcessKeeps ==
  ASSUME DispatchersAssumption, IInv, WakeProcessPending, UNCHANGED <<state, tries, redo>>
  PROVE  /\ proc' \in RunType /\ proc'.count < DetailMax /\ "signal" \in proc'.flags
         /\ toDetail' \subseteq Jobs /\ toDetail' \subseteq In("needs_detail")'
  <1>1. proc \in RunType /\ proc.count < DetailMax
    BY DEF IInv, TypeOK
  <1>2. DetailMax \in Nat \ {0}
    BY DEF DispatchersAssumption
  <1> QED BY <1>1, <1>2, WokenType DEF IInv, WakeProcessPending, In

LEMMA WakeStep ==
  ASSUME DispatchersAssumption, IInv, WakeFilter \/ Boot
  PROVE  IInv'
  <1>1. WakeFilterPending /\ UNCHANGED <<state, tries, redo>>
    BY DEF WakeFilter, Boot
  <1>2. WakeProcessPending \/ UNCHANGED <<proc, toDetail>>
    BY DEF WakeFilter, Boot
  <1>3. /\ filt' \in RunType /\ filt'.count < FilterMax /\ "signal" \in filt'.flags
        /\ toFilter' \subseteq Jobs /\ toFilter' \subseteq In("pending")'
    BY <1>1, WakeFilterKeeps
  <1>4. CASE WakeProcessPending
    <2>1. /\ proc' \in RunType /\ proc'.count < DetailMax /\ "signal" \in proc'.flags
          /\ toDetail' \subseteq Jobs /\ toDetail' \subseteq In("needs_detail")'
      BY <1>1, <1>4, WakeProcessKeeps
    <2> QED BY <1>1, <1>3, <2>1 DEF IInv, TypeOK, NoLostWakeUp, AttemptsLeft
  <1>5. CASE UNCHANGED <<proc, toDetail>>
    BY <1>1, <1>3, <1>5 DEF IInv, TypeOK, NoLostWakeUp, AttemptsLeft, In
  <1> QED BY <1>2, <1>4, <1>5

(* A step of the filter that leaves the table alone. *)
LEMMA FilterStep ==
  ASSUME DispatchersAssumption, IInv,
         filt' \in RunType, filt'.count < FilterMax,
         filt'.pc = "idle" => toFilter \subseteq filt'.skip,
         UNCHANGED <<state, tries, proc, redo, toFilter, toDetail>>
  PROVE  IInv'
  BY DEF IInv, TypeOK, NoLostWakeUp, AttemptsLeft, In

LEMMA ProcessStep ==
  ASSUME DispatchersAssumption, IInv,
         proc' \in RunType, proc'.count < DetailMax,
         proc'.pc = "idle" => toDetail \subseteq proc'.skip,
         UNCHANGED <<state, tries, filt, redo, toFilter, toDetail>>
  PROVE  IInv'
  BY DEF IInv, TypeOK, NoLostWakeUp, AttemptsLeft, In

LEMMA FiltJobHolds ==
  ASSUME DispatchersAssumption, IInv, NEW u \in Jobs, FiltJob(u)
  PROVE  IInv'
  <1>1. FilterMax \in Nat \ {0} /\ filt \in RunType /\ filt.count < FilterMax
    BY DEF IInv, TypeOK, DispatchersAssumption
  <1>2. \A w : /\ AfterFilter(w) \in RunType
              /\ AfterFilter(w).count < FilterMax
              /\ AfterFilter(w).pc # "idle"
    <2> SUFFICES ASSUME NEW w
                 PROVE  /\ AfterFilter(w) \in RunType
                        /\ AfterFilter(w).count < FilterMax
                        /\ AfterFilter(w).pc # "idle"
      OBVIOUS
    <2>1. /\ [filt EXCEPT !.pc = "wake"] \in RunType
          /\ [filt EXCEPT !.pc = "wake"].count < FilterMax
          /\ [filt EXCEPT !.pc = "wake"].pc = "wake"
      BY <1>1 DEF RunType
    <2>2. /\ NextIteration(filt, FilterMax) \in RunType
          /\ NextIteration(filt, FilterMax).count < FilterMax
          /\ NextIteration(filt, FilterMax).pc = "load"
      BY <1>1, NextIterationType
    <2> QED BY <2>1, <2>2 DEF AfterFilter
  <1>3. PICK to \in {"rejected", "ready", "needs_detail"} :
          /\ state' = [state EXCEPT ![u] = to]
          /\ filt' = AfterFilter(to = "needs_detail") \/ filt' = AfterFilter(FALSE)
    BY DEF FiltJob
  <1>4. filt' \in RunType /\ filt'.count < FilterMax /\ filt'.pc # "idle"
    BY <1>2, <1>3
  <1>5. toFilter' = toFilter \ {u} /\ UNCHANGED <<tries, proc, redo, toDetail>>
    BY DEF FiltJob
  <1>6. TypeOK'
    BY <1>3, <1>4, <1>5 DEF IInv, TypeOK
  <1>7. toFilter' \subseteq In("pending")'
    BY <1>3, <1>5 DEF IInv, TypeOK, In
  <1>8. state[u] = "pending"
    BY DEF FiltJob
  <1>9. toDetail' \subseteq In("needs_detail")'
    BY <1>3, <1>5, <1>8 DEF IInv, TypeOK, In
  <1>10. AttemptsLeft'
    BY <1>3, <1>5, <1>8 DEF IInv, TypeOK, AttemptsLeft
  <1> QED BY <1>4, <1>5, <1>6, <1>7, <1>9, <1>10 DEF IInv, NoLostWakeUp

LEMMA FiltWakeHolds ==
  ASSUME DispatchersAssumption, IInv, FiltWake
  PROVE  IInv'
  <1>1. FilterMax \in Nat \ {0} /\ filt \in RunType /\ filt.count < FilterMax
    BY DEF IInv, TypeOK, DispatchersAssumption
  <1> DEFINE told == [filt EXCEPT !.flags = @ \cup {"woke"}]
  <1>2. told \in RunType /\ told.count < FilterMax
    BY <1>1 DEF RunType
  <1>3. filt' = NextIteration(told, FilterMax)
    BY DEF FiltWake
  <1> HIDE DEF told
  <1>4. filt' \in RunType /\ filt'.count < FilterMax /\ filt'.pc = "load"
    BY <1>1, <1>2, <1>3, NextIterationType
  <1>5. WakeProcessPending /\ UNCHANGED <<state, tries, redo, toFilter>>
    BY DEF FiltWake
  <1>6. /\ proc' \in RunType /\ proc'.count < DetailMax /\ "signal" \in proc'.flags
        /\ toDetail' \subseteq Jobs /\ toDetail' \subseteq In("needs_detail")'
    BY <1>5, WakeProcessKeeps
  <1> QED BY <1>4, <1>5, <1>6 DEF IInv, TypeOK, NoLostWakeUp, AttemptsLeft, In

LEMMA FilterPendingHolds ==
  ASSUME DispatchersAssumption, IInv, FilterPending
  PROVE  IInv'
  <1>1. FilterMax \in Nat \ {0} /\ filt \in RunType /\ filt.count < FilterMax
        /\ toFilter \subseteq In("pending")
    BY DEF IInv, TypeOK, DispatchersAssumption
  <1>2. CASE FiltLoad
    BY <1>1, <1>2, LoadType, FilterStep DEF FiltLoad
  <1>3. CASE FiltLoadFails
    BY <1>1, <1>3, NewRunType, FilterStep DEF FiltLoadFails, Closed
  <1>4. CASE FiltIdle
    BY <1>1, <1>4, NewRunType, FilterStep DEF FiltIdle, NewRun, Closed
  <1>5. CASE FiltWakeFails
    BY <1>1, <1>5, NextIterationType, FilterStep DEF FiltWakeFails
  <1>6. ASSUME NEW u \in Jobs, FiltJobFails(u) PROVE IInv'
    <2> DEFINE past == [filt EXCEPT !.skip = @ \cup {u}]
    <2>1. past \in RunType /\ past.count < FilterMax
      BY <1>1 DEF RunType
    <2>2. filt' = NextIteration(past, FilterMax)
      BY <1>6 DEF FiltJobFails
    <2> HIDE DEF past
    <2> QED BY <1>1, <1>6, <2>1, <2>2, NextIterationType, FilterStep DEF FiltJobFails
  <1> QED
    BY <1>2, <1>3, <1>4, <1>5, <1>6, FiltJobHolds, FiltWakeHolds DEF FilterPending

LEMMA ProcChildHolds ==
  ASSUME DispatchersAssumption, IInv, NEW u \in Jobs, ProcChild(u)
  PROVE  IInv'
  <1>1. DetailMax \in Nat \ {0} /\ proc \in RunType /\ proc.count < DetailMax
        /\ TypeOK
    BY DEF IInv, TypeOK, DispatchersAssumption
  <1>2. proc' \in RunType /\ proc'.count < DetailMax /\ proc'.pc = "load"
    BY <1>1, NextIterationType DEF ProcChild
  <1>3. UNCHANGED <<filt, redo, toFilter>> /\ state[u] = "needs_detail"
    BY DEF ProcChild
  <1>4. PICK to \in {"rejected", "ready", "needs_detail"} :
          state' = [state EXCEPT ![u] = to]
    BY <1>1, <1>3 DEF ProcChild, TypeOK
  <1>5. toDetail' = IF state'[u] = "needs_detail" THEN toDetail ELSE toDetail \ {u}
    BY DEF ProcChild
  <1>6. In("pending")' = In("pending")
        /\ In("needs_detail") \ {u} \subseteq In("needs_detail")'
        /\ (state'[u] = "needs_detail" => u \in In("needs_detail")')
    BY <1>1, <1>3, <1>4 DEF In, TypeOK
  <1>7. toDetail' \subseteq In("needs_detail")' /\ toFilter' \subseteq In("pending")'
    BY <1>3, <1>5, <1>6 DEF IInv
  <1>8. tries' \in [Jobs -> 0 .. MaxDetailAttempts]
    <2>1. CASE UNCHANGED tries
      BY <1>1, <2>1 DEF TypeOK
    <2>2. CASE tries' = [tries EXCEPT ![u] = @ + 1]
      <3>1. tries[u] + 1 \in 0 .. MaxDetailAttempts
        BY <1>1, <1>3 DEF TypeOK, IInv, AttemptsLeft, MaxDetailAttempts
      <3> QED BY <1>1, <2>2, <3>1 DEF TypeOK
    <2> QED BY <2>1, <2>2 DEF ProcChild
  <1>9. TypeOK'
    BY <1>1, <1>2, <1>3, <1>4, <1>5, <1>8 DEF TypeOK
  <1>10. AttemptsLeft'
    BY <1>1 DEF IInv, TypeOK, AttemptsLeft, ProcChild, MaxDetailAttempts
  <1> QED BY <1>2, <1>3, <1>7, <1>9, <1>10 DEF IInv, NoLostWakeUp

LEMMA ProcessPendingHolds ==
  ASSUME DispatchersAssumption, IInv, ProcessPending
  PROVE  IInv'
  <1>1. DetailMax \in Nat \ {0} /\ proc \in RunType /\ proc.count < DetailMax
        /\ toDetail \subseteq In("needs_detail")
    BY DEF IInv, TypeOK, DispatchersAssumption
  <1>2. CASE ProcLoad
    BY <1>1, <1>2, LoadType, ProcessStep DEF ProcLoad
  <1>3. CASE ProcLoadFails
    BY <1>1, <1>3, NewRunType, ProcessStep DEF ProcLoadFails, Closed
  <1>4. CASE ProcIdle
    BY <1>1, <1>4, NewRunType, ProcessStep DEF ProcIdle, NewRun, Closed
  <1>5. ASSUME NEW u \in Jobs, ProcChildLockBusy(u) PROVE IInv'
    BY <1>1, <1>5, NextIterationType, ProcessStep DEF ProcChildLockBusy
  <1>6. ASSUME NEW u \in Jobs, ProcChildFails(u) PROVE IInv'
    <2> DEFINE past == [proc EXCEPT !.skip = @ \cup {u}]
    <2>1. past \in RunType /\ past.count < DetailMax
      BY <1>1 DEF RunType
    <2>2. proc' = NextIteration(past, DetailMax)
      BY <1>6 DEF ProcChildFails
    <2> HIDE DEF past
    <2> QED BY <1>1, <1>6, <2>1, <2>2, NextIterationType, ProcessStep DEF ProcChildFails
  <1> QED
    BY <1>2, <1>3, <1>4, <1>5, <1>6, ProcChildHolds DEF ProcessPending

LEMMA Invariance == ASSUME DispatchersAssumption PROVE Spec => []IInv
  <1>1. Init => IInv
    BY InitHolds
  <1>2. IInv /\ [Next]_vars => IInv'
    BY WorldStep, WakeStep, FilterPendingHolds, ProcessPendingHolds DEF Next
  <1> QED BY <1>1, <1>2, PTL DEF Spec

(* Every variable keeps its type (FilterPendingWorkflow,                   *)
(* ProcessPendingWorkflow).                                                *)
THEOREM TypeCorrect == ASSUME DispatchersAssumption PROVE Spec => []TypeOK
  <1>1. IInv => TypeOK
    BY DEF IInv
  <1> QED BY <1>1, Invariance, PTL

(* No wake-up of either dispatcher is lost: a run that waits with no       *)
(* signal buffered has tried all rows of its last wake, for any number of  *)
(* rows, any limits per run and any combination of failures                *)
(* (FilterPendingWorkflow, ProcessPendingWorkflow, wake.go).               *)
THEOREM WakeUpsAreNotLost == ASSUME DispatchersAssumption PROVE Spec => []NoLostWakeUp
  <1>1. IInv => NoLostWakeUp
    BY DEF IInv
  <1> QED BY <1>1, Invariance, PTL
============================================================================
