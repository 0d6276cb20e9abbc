---------------------------- MODULE Notify_proof ----------------------------
(***************************************************************************)
(* For any number of rows and overlapping runs, in three layers: types,    *)
(* whatever fails; batches and marks, unless a completed activity is run   *)
(* again; announcements, unless moreover a post is delivered but reported  *)
(* as failed.                                                              *)
(***************************************************************************)
EXTENDS Notify, TLAPS

RunType == [pc : {"idle", "status", "claim", "commit", "send", "finish"},
            batch : SUBSET Jobs, attempt : 1 .. MaxAttempts]

(* A row that a run has locked is unmarked. *)
LockedIsUnmarked ==
  \A r \in Runs : run[r].pc = "commit" => run[r].batch \cap notified = {}

(* Outside its three activities a run has no batch. *)
EmptyHanded ==
  \A r \in Runs : run[r].pc \in {"idle", "status", "claim"} => run[r].batch = {}

ClaimInv ==
  /\ TypeOK
  /\ DisjointBatches
  /\ BatchIsMarked
  /\ LockedIsUnmarked
  /\ EmptyHanded

(* A row a run holds after its claim has not been announced; every         *)
(* announced row keeps its mark.                                           *)
HeldIsUnannounced ==
  \A r \in Runs : run[r].pc \in {"send", "finish"} =>
    run[r].batch \cap delivered = {}

AnnouncedIsMarked == delivered \subseteq notified

AnnounceInv == HeldIsUnannounced /\ AnnouncedIsMarked /\ AnnouncedOnce

----------------------------------------------------------------------------
(* Types.                                                                  *)

(* The records that actions write are states of a run. *)
LEMMA RecordTypes ==
  /\ IdleRun \in RunType
  /\ \A pc \in {"idle", "status", "claim", "commit", "send", "finish"},
        b \in SUBSET Jobs, n \in 1 .. MaxAttempts : At(pc, b, n) \in RunType
  /\ 1 \in 1 .. MaxAttempts
<1>1. 1 \in 1 .. MaxAttempts
  BY NotifyAssumption
<1> QED BY <1>1 DEF At, IdleRun, RunType

(* What is left of an activity that is tried again, or given up. *)
LEMMA RetryType ==
  ASSUME NEW r \in Runs, TypeOK, NEW pc \in {"claim", "finish"},
         NEW b \in SUBSET Jobs
  PROVE  (IF run[r].attempt < MaxAttempts THEN At(pc, b, run[r].attempt + 1)
                                          ELSE IdleRun) \in RunType
<1>1. run[r].attempt \in 1 .. MaxAttempts
  BY DEF TypeOK
<1>2. CASE run[r].attempt < MaxAttempts
  <2>1. run[r].attempt + 1 \in 1 .. MaxAttempts
    BY <1>1, <1>2, NotifyAssumption
  <2> QED BY <1>2, <2>1, RecordTypes
<1> QED BY <1>2, RecordTypes

(* The step of one run leaves the others alone. *)
LEMMA RunMoves ==
  ASSUME NEW r \in Runs, NEW new \in RunType, TypeOK,
         run' = [run EXCEPT ![r] = new]
  PROVE  /\ run' \in [Runs -> RunType]
         /\ run'[r] = new
         /\ \A q \in Runs \ {r} : run'[q] = run[q]
  BY DEF TypeOK, RunType

(* The state each step of a run leaves behind. *)
LEMMA RunStepMoves ==
  ASSUME TypeOK, NEW r \in Runs,
         RunStep(r) \/ StartManual(r) \/ (r = "scheduled" /\ StartScheduled)
  PROVE  \E new \in RunType : run' = [run EXCEPT ![r] = new]
<1>1. run[r] \in RunType /\ run[r].batch \in SUBSET Jobs
      /\ run[r].attempt \in 1 .. MaxAttempts
  BY DEF TypeOK, RunType
<1>2. CASE StartManual(r) \/ (r = "scheduled" /\ StartScheduled)
  BY <1>2, RecordTypes DEF StartManual, StartScheduled, Goto
<1>3. CASE ReadStatus(r) \/ StatusFails(r)
  BY <1>3, RecordTypes DEF ReadStatus, StatusFails, Goto
<1>4. CASE ClaimSelect(r)
  <2>1. PICK busy \in SUBSET Jobs :
          run' = [run EXCEPT ![r] =
            At("commit", OldestOf(Claimable \ (Locked \cup busy), Limit),
               run[r].attempt)]
    BY <1>4 DEF ClaimSelect
  <2>2. OldestOf(Claimable \ (Locked \cup busy), Limit) \in SUBSET Jobs
    BY DEF OldestOf, Claimable, TypeOK
  <2> QED BY <1>1, <2>1, <2>2, RecordTypes
<1>5. CASE ClaimCommit(r)
  <2>1. CASE run' = [run EXCEPT ![r] =
               IF run[r].batch = {} THEN IdleRun ELSE At("send", run[r].batch, 1)]
    BY <1>1, <2>1, RecordTypes
  <2>2. CASE run' = [run EXCEPT ![r] =
               IF run[r].attempt < MaxAttempts
               THEN At("claim", {}, run[r].attempt + 1) ELSE IdleRun]
    BY <2>2, RetryType
  <2> QED BY <1>5, <2>1, <2>2 DEF ClaimCommit
<1>6. CASE ClaimFail(r)
  BY <1>6, RetryType DEF ClaimFail
<1>7. CASE SendOk(r) \/ SendFail(r)
  BY <1>1, <1>7, RecordTypes DEF SendOk, SendFail, Goto
<1>8. CASE Finish(r)
  <2>1. CASE Goto(r, "idle", {})
    BY <2>1, RecordTypes DEF Goto
  <2>2. CASE run' = [run EXCEPT ![r] =
               IF run[r].attempt < MaxAttempts
               THEN At("finish", run[r].batch, run[r].attempt + 1) ELSE IdleRun]
    BY <1>1, <2>2, RetryType
  <2> QED BY <1>8, <2>1, <2>2 DEF Finish
<1>9. CASE FinishFail(r)
  BY <1>1, <1>9, RetryType DEF FinishFail
<1> QED
  BY <1>2, <1>3, <1>4, <1>5, <1>6, <1>7, <1>8, <1>9 DEF RunStep

LEMMA TypeStep == ASSUME TypeOK, [Next]_vars PROVE TypeOK'
<1>1. ASSUME NEW u \in Jobs, BecomeReady(u) \/ Review(u) \/ ClaimAges(u)
      PROVE  TypeOK'
  BY <1>1 DEF BecomeReady, Review, ClaimAges, TypeOK
<1>2. CASE Toggle \/ UNCHANGED vars
  BY <1>2 DEF Toggle, vars, TypeOK
<1>3. ASSUME NEW r \in Runs,
             RunStep(r) \/ StartManual(r) \/ (r = "scheduled" /\ StartScheduled)
      PROVE  TypeOK'
  <2>1. run' \in [Runs -> RunType]
    BY <1>3, RunStepMoves, RunMoves
  <2>2. run[r].batch \subseteq Jobs
    BY DEF TypeOK
  <2>3. ready' \subseteq Jobs /\ enabled' \in BOOLEAN
    BY <1>3 DEF TypeOK, RunStep, StartManual, StartScheduled, ReadStatus, StatusFails,
       ClaimSelect, ClaimCommit, ClaimFail, SendOk, SendFail, Finish, FinishFail
  <2>4. notified' \subseteq Jobs /\ claim' \in [Jobs -> {"none", "fresh", "stale"}]
    BY <1>3, <2>2 DEF TypeOK, RunStep, StartManual, StartScheduled, ReadStatus,
       StatusFails, ClaimSelect, ClaimCommit, ClaimFail, SendOk, SendFail, Finish, FinishFail
  <2>5. delivered' \subseteq Jobs /\ repeated' \subseteq delivered'
    BY <1>3, <2>2 DEF TypeOK, RunStep, StartManual, StartScheduled, ReadStatus,
       StatusFails, ClaimSelect, ClaimCommit, ClaimFail, SendOk, SendFail, Deliver, Finish, FinishFail
  <2> QED BY <2>1, <2>3, <2>4, <2>5 DEF TypeOK, RunType
<1>4. "scheduled" \in Runs
  BY DEF Runs
<1> QED BY <1>1, <1>2, <1>3, <1>4 DEF Next

(* Every variable keeps its type, whatever fails (NotifyWorkflow).         *)
THEOREM TypeCorrect == Spec => []TypeOK
<1>1. Init => TypeOK
  BY RecordTypes DEF Init, TypeOK, RunType
<1>2. TypeOK /\ [Next]_vars => TypeOK'
  BY TypeStep
<1> QED BY <1>1, <1>2, PTL DEF Spec

----------------------------------------------------------------------------
(* Batches and marks.                                                      *)

LEMMA InitClaim == Init => ClaimInv
<1> SUFFICES ASSUME Init PROVE ClaimInv
  OBVIOUS
<1>1. TypeOK
  BY RecordTypes DEF Init, TypeOK, RunType
<1>2. \A r \in Runs : run[r].pc = "idle" /\ run[r].batch = {}
  BY DEF Init, IdleRun
<1> QED
  BY <1>1, <1>2 DEF ClaimInv, DisjointBatches, Holds, BatchIsMarked,
     LockedIsUnmarked, EmptyHanded

(* A step that marks and unmarks nothing, after which run r holds no row,  *)
(* or the rows it held before in a state with the same obligations.        *)
LEMMA QuietStep ==
  ASSUME NEW r \in Runs, NEW new \in RunType, ClaimInv, TypeOK',
         run' = [run EXCEPT ![r] = new],
         \/ new.pc \in {"idle", "status", "claim"} /\ new.batch = {}
         \/ /\ new.pc = "finish"
            /\ run[r].pc \in {"send", "finish"}
            /\ new.batch = run[r].batch,
         notified' = notified
  PROVE  ClaimInv'
<1>1. TypeOK /\ DisjointBatches /\ BatchIsMarked /\ LockedIsUnmarked /\ EmptyHanded
  BY DEF ClaimInv
<1>2. run'[r] = new /\ \A q \in Runs \ {r} : run'[q] = run[q]
  BY <1>1, RunMoves
<1>3. \A q \in Runs, u \in Jobs : Holds(q, u)' => Holds(q, u)
  BY <1>2 DEF Holds
<1>4. DisjointBatches'
  BY <1>1, <1>3 DEF DisjointBatches
<1>5. BatchIsMarked' /\ LockedIsUnmarked' /\ EmptyHanded'
  BY <1>1, <1>2 DEF BatchIsMarked, LockedIsUnmarked, EmptyHanded
<1> QED BY <1>4, <1>5 DEF ClaimInv

(* What a claim selects is unmarked, and no other run holds it: the rows   *)
(* of open claims are locked, and those of other batches marked.           *)
LEMMA SelectIsFree ==
  ASSUME ClaimInv, NEW busy, NEW batch,
         batch = OldestOf(Claimable \ (Locked \cup busy), Limit)
  PROVE  /\ batch \cap notified = {}
         /\ \A q \in Runs, u \in Jobs : Holds(q, u) => u \notin batch
<1>1. batch \cap notified = {} /\ batch \cap Locked = {}
  BY DEF OldestOf, Claimable
<1>2. ASSUME NEW q \in Runs, NEW u \in Jobs, Holds(q, u)
      PROVE  u \notin batch
  <2>1. CASE run[q].pc = "commit"
    BY <1>1, <1>2, <2>1 DEF Locked, Holds
  <2>2. CASE run[q].pc \in {"send", "finish"}
    BY <1>1, <1>2, <2>2 DEF ClaimInv, BatchIsMarked, Holds
  <2> QED BY <1>2, <2>1, <2>2 DEF Holds
<1> QED BY <1>1, <1>2

LEMMA ClaimSelectHolds ==
  ASSUME ClaimInv, TypeOK', NEW r \in Runs, ClaimSelect(r)
  PROVE  ClaimInv'
<1>1. TypeOK /\ DisjointBatches /\ BatchIsMarked /\ LockedIsUnmarked /\ EmptyHanded
  BY DEF ClaimInv
<1>2. PICK busy \in SUBSET Jobs :
        run' = [run EXCEPT ![r] =
          At("commit", OldestOf(Claimable \ (Locked \cup busy), Limit),
             run[r].attempt)]
  BY DEF ClaimSelect
<1> DEFINE batch == OldestOf(Claimable \ (Locked \cup busy), Limit)
<1>3. batch \cap notified = {}
      /\ \A q \in Runs, u \in Jobs : Holds(q, u) => u \notin batch
  BY SelectIsFree
<1>4. notified' = notified
  BY DEF ClaimSelect
<1>5. run'[r] = At("commit", batch, run[r].attempt)
      /\ \A q \in Runs \ {r} : run'[q] = run[q]
  BY <1>1, <1>2 DEF TypeOK
<1> HIDE DEF batch
<1>6. run'[r].pc = "commit" /\ run'[r].batch = batch
  BY <1>5 DEF At
<1>7. DisjointBatches'
  <2> SUFFICES ASSUME NEW p \in Runs, NEW q \in Runs, NEW u \in Jobs,
                      Holds(p, u)', Holds(q, u)', p # q
               PROVE  FALSE
    BY DEF DisjointBatches
  <2>1. CASE p = r
    BY <1>3, <1>5, <1>6, <2>1 DEF Holds
  <2>2. CASE q = r
    BY <1>3, <1>5, <1>6, <2>2 DEF Holds
  <2>3. CASE p # r /\ q # r
    BY <1>1, <1>5, <2>3 DEF Holds, DisjointBatches
  <2> QED BY <2>1, <2>2, <2>3
<1>8. BatchIsMarked' /\ LockedIsUnmarked' /\ EmptyHanded'
  BY <1>1, <1>3, <1>4, <1>5, <1>6 DEF BatchIsMarked, LockedIsUnmarked, EmptyHanded
<1> QED BY <1>7, <1>8 DEF ClaimInv

(* The batches of two runs have no row in common. *)
LEMMA BatchesAreApart ==
  ASSUME ClaimInv, NEW q \in Runs, NEW r \in Runs, q # r
  PROVE  run[q].batch \cap run[r].batch = {}
<1>1. \A p \in Runs : run[p].batch \subseteq Jobs
      /\ \A u \in run[p].batch : Holds(p, u)
  BY DEF ClaimInv, TypeOK, EmptyHanded, Holds
<1> QED BY <1>1 DEF ClaimInv, DisjointBatches

LEMMA ClaimCommitHolds ==
  ASSUME "lost_result" \notin Faults, ClaimInv, TypeOK', NEW r \in Runs, ClaimCommit(r)
  PROVE  ClaimInv'
<1>1. TypeOK /\ DisjointBatches /\ BatchIsMarked /\ LockedIsUnmarked /\ EmptyHanded
  BY DEF ClaimInv
<1>2. /\ run[r].pc = "commit"
      /\ run' = [run EXCEPT ![r] =
           IF run[r].batch = {} THEN IdleRun ELSE At("send", run[r].batch, 1)]
      /\ notified' = notified \cup run[r].batch
  BY DEF ClaimCommit
<1>3. \/ run'[r].pc = "idle" /\ run'[r].batch = {}
      \/ run'[r].pc = "send" /\ run'[r].batch = run[r].batch
  BY <1>1, <1>2 DEF TypeOK, At, IdleRun
<1>4. \A q \in Runs \ {r} : run'[q] = run[q]
  BY <1>1, <1>2 DEF TypeOK
<1>5. \A q \in Runs, u \in Jobs : Holds(q, u)' => Holds(q, u)
  BY <1>2, <1>3, <1>4 DEF Holds
<1>6. DisjointBatches'
  BY <1>1, <1>5 DEF DisjointBatches
<1>7. LockedIsUnmarked'
  BY <1>1, <1>2, <1>3, <1>4, BatchesAreApart DEF LockedIsUnmarked
<1>8. BatchIsMarked' /\ EmptyHanded'
  BY <1>1, <1>2, <1>3, <1>4 DEF BatchIsMarked, EmptyHanded
<1> QED BY <1>6, <1>7, <1>8 DEF ClaimInv

(* The marks a run takes off are its own. *)
LEMMA FinishHolds ==
  ASSUME "lost_result" \notin Faults, ClaimInv, TypeOK', NEW r \in Runs, Finish(r)
  PROVE  ClaimInv'
<1>1. TypeOK /\ DisjointBatches /\ BatchIsMarked /\ LockedIsUnmarked /\ EmptyHanded
  BY DEF ClaimInv
<1>2. run' = [run EXCEPT ![r] = At("idle", {}, 1)]
      /\ notified' = notified \ run[r].batch
  BY DEF Finish, Goto
<1>3. /\ run'[r].pc = "idle" /\ run'[r].batch = {}
      /\ \A q \in Runs \ {r} : run'[q] = run[q]
  BY <1>1, <1>2 DEF TypeOK, At
<1>4. \A q \in Runs, u \in Jobs : Holds(q, u)' => Holds(q, u)
  BY <1>3 DEF Holds
<1>5. DisjointBatches'
  BY <1>1, <1>4 DEF DisjointBatches
<1>6. BatchIsMarked'
  BY <1>1, <1>2, <1>3, BatchesAreApart DEF BatchIsMarked
<1>7. LockedIsUnmarked' /\ EmptyHanded'
  BY <1>1, <1>2, <1>3 DEF LockedIsUnmarked, EmptyHanded
<1> QED BY <1>5, <1>6, <1>7 DEF ClaimInv

LEMMA ClaimStep ==
  ASSUME "lost_result" \notin Faults, ClaimInv, [Next]_vars
  PROVE  ClaimInv'
<1>1. TypeOK /\ TypeOK'
  BY TypeStep DEF ClaimInv
<1>2. CASE UNCHANGED <<run, notified>>
  BY <1>1, <1>2 DEF ClaimInv, DisjointBatches, Holds, BatchIsMarked,
                    LockedIsUnmarked, EmptyHanded
<1>3. ASSUME NEW r \in Runs, StartManual(r) \/ (r = "scheduled" /\ StartScheduled)
      PROVE  ClaimInv'
  <2>1. run' = [run EXCEPT ![r] = At("status", {}, 1)] /\ notified' = notified
    BY <1>3 DEF StartManual, StartScheduled, Goto
  <2> QED BY <1>1, <2>1, RecordTypes, QuietStep DEF At
<1>4. ASSUME NEW r \in Runs, ReadStatus(r) \/ StatusFails(r) PROVE ClaimInv'
  <2> DEFINE new == IF enabled /\ ReadStatus(r) THEN At("claim", {}, 1) ELSE IdleRun
  <2>1. run' = [run EXCEPT ![r] = new] /\ notified' = notified
    BY <1>4 DEF ReadStatus, StatusFails, Goto, IdleRun, At
  <2>2. new \in RunType /\ new.pc \in {"idle", "claim"} /\ new.batch = {}
    BY RecordTypes DEF At, IdleRun
  <2> HIDE DEF new
  <2> QED BY <1>1, <2>1, <2>2, QuietStep
<1>5. ASSUME NEW r \in Runs, ClaimFail(r) PROVE ClaimInv'
  <2> DEFINE new == IF run[r].attempt < MaxAttempts
                    THEN At("claim", {}, run[r].attempt + 1) ELSE IdleRun
  <2>1. new \in RunType /\ run' = [run EXCEPT ![r] = new] /\ notified' = notified
    BY <1>1, <1>5, RetryType DEF ClaimFail
  <2>2. new.pc \in {"idle", "claim"} /\ new.batch = {}
    BY DEF At, IdleRun
  <2> QED BY <1>1, <2>1, <2>2, QuietStep
<1>6. ASSUME NEW r \in Runs, FinishFail(r) PROVE ClaimInv'
  <2> DEFINE new == IF run[r].attempt < MaxAttempts
                    THEN At("finish", run[r].batch, run[r].attempt + 1) ELSE IdleRun
  <2>1. run[r].batch \in SUBSET Jobs /\ run[r].pc = "finish"
    BY <1>1, <1>6 DEF TypeOK, FinishFail
  <2>2. new \in RunType /\ run' = [run EXCEPT ![r] = new] /\ notified' = notified
    BY <1>1, <1>6, <2>1, RetryType DEF FinishFail
  <2>3. \/ new.pc = "idle" /\ new.batch = {}
        \/ new.pc = "finish" /\ new.batch = run[r].batch
    BY DEF At, IdleRun
  <2> QED BY <1>1, <2>1, <2>2, <2>3, QuietStep
<1>7. ASSUME NEW r \in Runs, SendOk(r) PROVE ClaimInv'
  <2>1. run' = [run EXCEPT ![r] = At("idle", {}, 1)] /\ notified' = notified
    BY <1>7 DEF SendOk, Goto
  <2> QED BY <1>1, <2>1, RecordTypes, QuietStep DEF At
<1>8. ASSUME NEW r \in Runs, SendFail(r) PROVE ClaimInv'
  <2> DEFINE new == At("finish", run[r].batch, 1)
  <2>1. run' = [run EXCEPT ![r] = new] /\ notified' = notified /\ run[r].pc = "send"
    BY <1>8 DEF SendFail, Goto
  <2>2. new \in RunType /\ new.pc = "finish" /\ new.batch = run[r].batch
    BY <1>1, RecordTypes DEF At, TypeOK
  <2> QED BY <1>1, <2>1, <2>2, QuietStep
<1>9. "scheduled" \in Runs
  BY DEF Runs
<1>10. ASSUME NEW u \in Jobs, BecomeReady(u) \/ Review(u) \/ ClaimAges(u)
       PROVE  ClaimInv'
  BY <1>2, <1>10 DEF BecomeReady, Review, ClaimAges
<1>11. CASE Toggle \/ UNCHANGED vars
  BY <1>2, <1>11 DEF Toggle, vars
<1> QED
  BY <1>1, <1>3, <1>4, <1>5, <1>6, <1>7, <1>8, <1>9, <1>10, <1>11,
     ClaimSelectHolds, ClaimCommitHolds, FinishHolds DEF Next, RunStep

LEMMA ClaimInvariance ==
  ASSUME "lost_result" \notin Faults PROVE Spec => []ClaimInv
<1>1. Init => ClaimInv
  BY InitClaim
<1>2. ClaimInv /\ [Next]_vars => ClaimInv'
  BY ClaimStep
<1> QED BY <1>1, <1>2, PTL DEF Spec

(* No row is in two batches, and what a run is about to post or to give    *)
(* back carries its mark, as long as no completed activity is run again    *)
(* (ClaimReadyJobs, ClearNotifyClaims).                                    *)
THEOREM BatchesStayClaimed ==
  ASSUME "lost_result" \notin Faults PROVE Spec => []BatchesAreClaims
<1>1. ClaimInv => BatchesAreClaims
  BY DEF ClaimInv, BatchesAreClaims
<1> QED BY <1>1, ClaimInvariance, PTL

(* What becomes of the batch of a run in one step of that run.             *)
LEMMA BatchIsKeptOrSettled ==
  ASSUME "lost_result" \notin Faults, ClaimInv, NEW r \in Runs, RunStep(r),
         NEW u \in run[r].batch, u \in notified'
  PROVE  \/ u \in delivered'
         \/ Holds(r, u)'
         \/ run[r].pc = "finish" /\ run[r].attempt = MaxAttempts
<1>1. TypeOK /\ LockedIsUnmarked /\ EmptyHanded
  BY DEF ClaimInv
<1>2. run[r].pc \in {"commit", "send", "finish"}
  BY <1>1 DEF EmptyHanded, TypeOK
<1>3. CASE ClaimCommit(r)
  <2>1. run' = [run EXCEPT ![r] = At("send", run[r].batch, 1)]
    BY <1>3 DEF ClaimCommit
  <2>2. run'[r].pc = "send" /\ run'[r].batch = run[r].batch
    BY <1>1, <2>1 DEF TypeOK, At
  <2> QED BY <2>2 DEF Holds
<1>4. CASE ClaimFail(r)
  BY <1>1, <1>2, <1>4 DEF ClaimFail, LockedIsUnmarked
<1>5. CASE SendOk(r)
  BY <1>5 DEF SendOk, Deliver
<1>6. CASE SendFail(r)
  <2>1. run'[r].pc = "finish" /\ run'[r].batch = run[r].batch
    BY <1>1, <1>6 DEF SendFail, Goto, TypeOK, At
  <2> QED BY <2>1 DEF Holds
<1>7. CASE Finish(r)
  BY <1>7 DEF Finish
<1>8. CASE FinishFail(r)
  <2>1. CASE run[r].attempt < MaxAttempts
    <3>1. run'[r].pc = "finish" /\ run'[r].batch = run[r].batch
      BY <1>1, <1>8, <2>1 DEF FinishFail, TypeOK, At
    <3> QED BY <3>1 DEF Holds
  <2>2. CASE ~(run[r].attempt < MaxAttempts)
    <3>1. run[r].attempt \in 1 .. MaxAttempts
      BY <1>1 DEF TypeOK
    <3> QED BY <1>8, <2>2, <3>1, NotifyAssumption DEF FinishFail
  <2> QED BY <2>1, <2>2
<1> QED
  BY <1>2, <1>3, <1>4, <1>5, <1>6, <1>7, <1>8
  DEF RunStep, ReadStatus, StatusFails, ClaimSelect

(* No mark is left behind: a run lets go of a marked row only when the row *)
(* has been announced or when its last attempt to give it back has failed, *)
(* even if a post is delivered but reported as failed, as long as no       *)
(* completed activity is run again (NotifyWorkflow).                       *)
THEOREM MarksAreAccountedFor ==
  ASSUME "lost_result" \notin Faults PROVE Spec => MarkIsAccountedFor
<1>1. ASSUME ClaimInv, [Next]_vars, NEW r \in Runs, NEW u \in run[r].batch \cap notified'
      PROVE  \/ u \in delivered'
             \/ \E q \in Runs : Holds(q, u)'
             \/ run[r].pc = "finish" /\ run[r].attempt = MaxAttempts
  <2>1. TypeOK /\ EmptyHanded
    BY <1>1 DEF ClaimInv
  <2>2. Holds(r, u)
    BY <1>1, <2>1 DEF EmptyHanded, TypeOK, Holds
  <2>3. CASE run'[r] = run[r]
    BY <2>2, <2>3 DEF Holds
  <2>4. CASE RunStep(r)
    BY <1>1, <2>4, BatchIsKeptOrSettled
  <2>5. CASE StartManual(r) \/ (r = "scheduled" /\ StartScheduled)
    BY <2>2, <2>5 DEF StartManual, StartScheduled, Holds
  <2>6. ASSUME NEW q \in Runs \ {r},
               RunStep(q) \/ StartManual(q) \/ (q = "scheduled" /\ StartScheduled)
        PROVE  run'[r] = run[r]
    BY <2>1, <2>6, RunStepMoves, RunMoves
  <2>7. CASE UNCHANGED run
    BY <2>3, <2>7
  <2>8. "scheduled" \in Runs
    BY DEF Runs
  <2> QED
    BY <1>1, <2>3, <2>4, <2>5, <2>6, <2>7, <2>8
       DEF Next, vars, BecomeReady, Review, ClaimAges, Toggle
<1>2. ClaimInv /\ [Next]_vars =>
        \A r \in Runs : \A u \in run[r].batch \cap notified' :
          \/ u \in delivered'
          \/ \E q \in Runs : Holds(q, u)'
          \/ run[r].pc = "finish" /\ run[r].attempt = MaxAttempts
  BY <1>1
<1> QED BY <1>2, ClaimInvariance, PTL DEF Spec, MarkIsAccountedFor

----------------------------------------------------------------------------
(* Announcements.                                                          *)

LEMMA AnnounceStep ==
  ASSUME Faults \cap {"lost_result", "ambiguous_post"} = {},
         ClaimInv, AnnounceInv, [Next]_vars
  PROVE  AnnounceInv'
<1>1. TypeOK /\ BatchIsMarked /\ LockedIsUnmarked /\ EmptyHanded
      /\ HeldIsUnannounced /\ AnnouncedIsMarked /\ AnnouncedOnce
  BY DEF ClaimInv, AnnounceInv
<1>2. CASE UNCHANGED <<run, notified, delivered, repeated>>
  BY <1>1, <1>2 DEF AnnounceInv, HeldIsUnannounced, AnnouncedIsMarked, AnnouncedOnce
<1>3. ASSUME NEW r \in Runs,
             UNCHANGED <<notified, delivered, repeated>>,
             \A q \in Runs \ {r} : run'[q] = run[q],
             run'[r].pc \in {"send", "finish"} =>
               run[r].pc \in {"send", "finish"} /\ run'[r].batch = run[r].batch
      PROVE  AnnounceInv'
  BY <1>1, <1>3 DEF AnnounceInv, HeldIsUnannounced, AnnouncedIsMarked, AnnouncedOnce
<1>4. ASSUME NEW r \in Runs,
             RunStep(r) \/ StartManual(r) \/ (r = "scheduled" /\ StartScheduled)
      PROVE  \A q \in Runs \ {r} : run'[q] = run[q]
  BY <1>1, <1>4, RunStepMoves, RunMoves
<1>5. ASSUME NEW r \in Runs, StartManual(r) \/ (r = "scheduled" /\ StartScheduled)
      PROVE  AnnounceInv'
  <2>1. run'[r].pc = "status" /\ UNCHANGED <<notified, delivered, repeated>>
    BY <1>1, <1>5 DEF StartManual, StartScheduled, Goto, At, TypeOK
  <2> QED BY <1>3, <1>4, <1>5, <2>1
<1>6. ASSUME NEW r \in Runs,
             ReadStatus(r) \/ StatusFails(r) \/ ClaimSelect(r) \/ ClaimFail(r)
      PROVE  AnnounceInv'
  <2>1. UNCHANGED <<notified, delivered, repeated>>
    BY <1>6 DEF ReadStatus, StatusFails, ClaimSelect, ClaimFail
  <2>2. run'[r].pc \in {"idle", "claim", "commit"}
    <3>1. CASE ReadStatus(r) \/ StatusFails(r) \/ ClaimFail(r)
      BY <1>1, <3>1 DEF ReadStatus, StatusFails, Goto, ClaimFail, At, IdleRun, TypeOK
    <3>2. CASE ClaimSelect(r)
      BY <1>1, <3>2 DEF ClaimSelect, At, TypeOK
    <3> QED BY <1>6, <3>1, <3>2
  <2>3. \A q \in Runs \ {r} : run'[q] = run[q]
    BY <1>4, <1>6 DEF RunStep
  <2> QED BY <1>3, <2>1, <2>2, <2>3
<1>7. ASSUME NEW r \in Runs, SendFail(r) \/ FinishFail(r)
      PROVE  AnnounceInv'
  <2>1. UNCHANGED <<notified, delivered, repeated>>
    BY <1>7 DEF SendFail, FinishFail
  <2>2. /\ run[r].pc \in {"send", "finish"}
        /\ \/ run'[r].pc = "idle"
           \/ run'[r].batch = run[r].batch
    BY <1>1, <1>7 DEF SendFail, FinishFail, Goto, At, IdleRun, TypeOK
  <2>3. \A q \in Runs \ {r} : run'[q] = run[q]
    BY <1>4, <1>7 DEF RunStep
  <2> QED BY <1>3, <2>1, <2>2, <2>3
<1>8. ASSUME NEW r \in Runs, ClaimCommit(r) PROVE AnnounceInv'
  <2>1. /\ run[r].pc = "commit"
        /\ notified' = notified \cup run[r].batch
        /\ UNCHANGED <<delivered, repeated>>
    BY <1>8 DEF ClaimCommit
  <2>2. run'[r].pc = "idle" \/ run'[r].batch = run[r].batch
    BY <1>1, <1>8 DEF ClaimCommit, At, IdleRun, TypeOK
  <2>3. \A q \in Runs \ {r} : run'[q] = run[q]
    BY <1>4, <1>8 DEF RunStep
  <2>4. run[r].batch \cap delivered = {}
    BY <1>1, <2>1 DEF LockedIsUnmarked, AnnouncedIsMarked
  <2> QED
    BY <1>1, <2>1, <2>2, <2>3, <2>4
       DEF AnnounceInv, HeldIsUnannounced, AnnouncedIsMarked, AnnouncedOnce
<1>9. ASSUME NEW r \in Runs, SendOk(r) PROVE AnnounceInv'
  <2>1. run[r].pc = "send" /\ run[r].batch \cap delivered = {}
    BY <1>1, <1>9 DEF SendOk, HeldIsUnannounced
  <2>2. /\ delivered' = delivered \cup run[r].batch
        /\ repeated' = {}
        /\ notified' = notified
    BY <1>1, <1>9, <2>1 DEF SendOk, Deliver, AnnouncedOnce
  <2>3. run'[r].pc = "idle"
    BY <1>1, <1>9 DEF SendOk, Goto, At, TypeOK
  <2>4. \A q \in Runs \ {r} : run'[q] = run[q]
    BY <1>4, <1>9 DEF RunStep
  <2>5. HeldIsUnannounced'
    BY <1>1, <2>2, <2>3, <2>4, BatchesAreApart DEF HeldIsUnannounced
  <2>6. AnnouncedIsMarked'
    BY <1>1, <2>1, <2>2 DEF AnnouncedIsMarked, BatchIsMarked
  <2> QED BY <2>2, <2>5, <2>6 DEF AnnounceInv, AnnouncedOnce
<1>10. ASSUME NEW r \in Runs, Finish(r) PROVE AnnounceInv'
  <2>1. /\ run[r].pc = "finish" /\ run'[r].pc = "idle"
        /\ notified' = notified \ run[r].batch
        /\ UNCHANGED <<delivered, repeated>>
    BY <1>1, <1>10 DEF Finish, Goto, At, TypeOK
  <2>2. \A q \in Runs \ {r} : run'[q] = run[q]
    BY <1>4, <1>10 DEF RunStep
  <2>3. run[r].batch \cap delivered = {}
    BY <1>1, <2>1 DEF HeldIsUnannounced
  <2> QED
    BY <1>1, <2>1, <2>2, <2>3
       DEF AnnounceInv, HeldIsUnannounced, AnnouncedIsMarked, AnnouncedOnce
<1>11. ASSUME NEW u \in Jobs, BecomeReady(u) \/ Review(u) \/ ClaimAges(u)
       PROVE  AnnounceInv'
  BY <1>2, <1>11 DEF BecomeReady, Review, ClaimAges
<1>12. CASE Toggle \/ UNCHANGED vars
  BY <1>2, <1>12 DEF Toggle, vars
<1>13. "scheduled" \in Runs
  BY DEF Runs
<1> QED
  BY <1>5, <1>6, <1>7, <1>8, <1>9, <1>10, <1>11, <1>12, <1>13 DEF Next, RunStep

(* A posting is announced at most once, for any rows, batch size and       *)
(* number of overlapping runs, as long as no completed activity is run     *)
(* again and no delivered post is reported as failed (NotifyWorkflow).     *)
THEOREM AnnouncedAtMostOnce ==
  ASSUME Faults \cap {"lost_result", "ambiguous_post"} = {}
  PROVE  Spec => []AnnouncedOnce
<1>1. Init => AnnounceInv
  BY DEF Init, IdleRun, AnnounceInv, HeldIsUnannounced, AnnouncedIsMarked, AnnouncedOnce
<1>2. ClaimInv /\ AnnounceInv /\ [Next]_vars => AnnounceInv'
  BY AnnounceStep
<1>3. AnnounceInv => AnnouncedOnce
  BY DEF AnnounceInv
<1>4. Spec => []ClaimInv
  <2>1. "lost_result" \notin Faults
    OBVIOUS
  <2> QED BY <2>1, ClaimInvariance
<1> QED BY <1>1, <1>2, <1>3, <1>4, PTL DEF Spec
============================================================================
