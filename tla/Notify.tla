------------------------------- MODULE Notify -------------------------------
(***************************************************************************)
(* NotifyWorkflow and the notification columns of the jobs table.  A run   *)
(* claims the oldest ready, unmarked rows, posts their URLs to the webhook *)
(* once, and gives the rows back when the post failed.  The schedule never *)
(* overlaps with itself, but every manual run has an id of its own, so     *)
(* runs overlap.  A row's other columns are abstracted to "ready or not".  *)
(*                                                                         *)
(* The claim is a transaction: SELECT ... FOR UPDATE SKIP LOCKED locks the *)
(* batch, and until the commit other claims skip these rows and other      *)
(* writers wait.  Faults names what may go wrong in a configuration:       *)
(*   "lost_result"     an activity commits, its completion is lost, and    *)
(*                     Temporal runs it again;                             *)
(*   "db_down"         all attempts of a database activity fail;           *)
(*   "ambiguous_post"  the message is delivered, the call reports an error;*)
(*   "row_busy"        a claim meets a row some other writer has locked.   *)
(***************************************************************************)
EXTENDS Naturals, FiniteSets

CONSTANTS
  Jobs,         \* rows; their order is (created_at, id)
  ManualRuns,   \* slots for runs started by POST /notify
  Limit,        \* NOTIFY_MAX_JOBS
  UseTimeout,   \* NOTIFY_CLAIM_TIMEOUT_SECONDS > 0
  MaxAttempts,  \* RetryPolicy.MaximumAttempts of database activities
  Faults

ASSUME NotifyAssumption ==
  /\ Jobs \subseteq Nat
  /\ "scheduled" \notin ManualRuns
  /\ Limit \in Nat \ {0}
  /\ UseTimeout \in BOOLEAN
  /\ MaxAttempts \in Nat \ {0}
  /\ Faults \subseteq {"lost_result", "db_down", "ambiguous_post", "row_busy"}

Runs == ManualRuns \cup {"scheduled"}

VARIABLES
  ready,      \* rows in state ready
  notified,   \* rows with notified_at set
  claim,      \* per row: notify_claimed_at, "none", "fresh" or past the timeout
  enabled,    \* the toggle in Settings; the webhook itself is configured
  run,        \* per run: where it is, its batch, the attempt of its activity
  delivered,  \* history: rows the receiver has been told about
  repeated    \* history: rows it has been told about more than once

vars == <<ready, notified, claim, enabled, run, delivered, repeated>>

IdleRun == [pc |-> "idle", batch |-> {}, attempt |-> 1]
At(pc, batch, attempt) == [pc |-> pc, batch |-> batch, attempt |-> attempt]
Goto(r, pc, batch) == run' = [run EXCEPT ![r] = At(pc, batch, 1)]

(* Rows locked by an open claim. *)
Locked == UNION {run[r].batch : r \in {x \in Runs : run[x].pc = "commit"}}

Init ==
  /\ ready = {}
  /\ notified = {}
  /\ claim = [u \in Jobs |-> "none"]
  /\ enabled \in BOOLEAN
  /\ run = [r \in Runs |-> IdleRun]
  /\ delivered = {}
  /\ repeated = {}

----------------------------------------------------------------------------
(* The world around the runs.                                              *)

(* The filters, the detail fetch or the operator make a row ready. *)
BecomeReady(u) ==
  /\ u \in Jobs \ (ready \cup Locked)
  /\ ready' = ready \cup {u}
  /\ UNCHANGED <<notified, claim, enabled, run, delivered, repeated>>

(* ReviewReadyJob leaves the notification columns alone. *)
Review(u) ==
  /\ u \in ready \ Locked
  /\ ready' = ready \ {u}
  /\ UNCHANGED <<notified, claim, enabled, run, delivered, repeated>>

Toggle ==
  /\ enabled' = ~enabled
  /\ UNCHANGED <<ready, notified, claim, run, delivered, repeated>>

(* The claim timeout of a row passes. *)
ClaimAges(u) ==
  /\ claim[u] = "fresh"
  /\ claim' = [claim EXCEPT ![u] = "stale"]
  /\ UNCHANGED <<ready, notified, enabled, run, delivered, repeated>>

----------------------------------------------------------------------------
(* Starting.  The handler of POST /notify reads the status before it       *)
(* starts the workflow; the workflow reads it again.                       *)

StartManual(r) ==
  /\ r \in ManualRuns
  /\ run[r].pc = "idle"
  /\ enabled
  /\ Goto(r, "status", {})
  /\ UNCHANGED <<ready, notified, claim, enabled, delivered, repeated>>

(* SCHEDULE_OVERLAP_POLICY_SKIP: a tick during a run does nothing. *)
StartScheduled ==
  /\ run["scheduled"].pc = "idle"
  /\ Goto("scheduled", "status", {})
  /\ UNCHANGED <<ready, notified, claim, enabled, delivered, repeated>>

ReadStatus(r) ==
  /\ run[r].pc = "status"
  /\ run' = [run EXCEPT ![r] = IF enabled THEN At("claim", {}, 1) ELSE IdleRun]
  /\ UNCHANGED <<ready, notified, claim, enabled, delivered, repeated>>

(* After the last attempt the run fails, before it has claimed anything. *)
StatusFails(r) ==
  /\ run[r].pc = "status"
  /\ Goto(r, "idle", {})
  /\ UNCHANGED <<ready, notified, claim, enabled, delivered, repeated>>

----------------------------------------------------------------------------
(* claim_notification_batch.                                               *)

(* Fault: the claim does not look at the marks. *)
FaultyClaimable == ready

Claimable ==
  {u \in ready \ notified :
    claim[u] = "none" \/ (UseTimeout /\ claim[u] = "stale")}

(* ORDER BY created_at, id LIMIT n *)
OldestOf(S, n) == {u \in S : Cardinality({v \in S : v < u}) < n}

(* Fault: SELECT without FOR UPDATE SKIP LOCKED. *)
FaultyClaimSelect(r) ==
  /\ run[r].pc = "claim"
  /\ run' = [run EXCEPT ![r] = At("commit", OldestOf(Claimable, Limit), @.attempt)]
  /\ UNCHANGED <<ready, notified, claim, enabled, delivered, repeated>>

ClaimSelect(r) ==
  /\ run[r].pc = "claim"
  /\ \E busy \in IF "row_busy" \in Faults THEN SUBSET Jobs ELSE {{}} :
       run' = [run EXCEPT ![r] =
         At("commit", OldestOf(Claimable \ (Locked \cup busy), Limit), @.attempt)]
  /\ UNCHANGED <<ready, notified, claim, enabled, delivered, repeated>>

(* Both columns are set; an empty batch ends the run ("No leads.").  When  *)
(* the completion is lost the next attempt claims another batch.           *)
ClaimCommit(r) ==
  /\ run[r].pc = "commit"
  /\ notified' = notified \cup run[r].batch
  /\ claim' = [u \in Jobs |-> IF u \in run[r].batch THEN "fresh" ELSE claim[u]]
  /\ \/ run' = [run EXCEPT ![r] =
         IF run[r].batch = {} THEN IdleRun ELSE At("send", run[r].batch, 1)]
     \/ /\ "lost_result" \in Faults
        /\ run' = [run EXCEPT ![r] =
             IF @.attempt < MaxAttempts THEN At("claim", {}, @.attempt + 1)
                                        ELSE IdleRun]
  /\ UNCHANGED <<ready, enabled, delivered, repeated>>

(* Rolled back; after the last attempt the run fails without a batch. *)
ClaimFail(r) ==
  /\ run[r].pc \in {"claim", "commit"}
  /\ run' = [run EXCEPT ![r] =
       IF @.attempt < MaxAttempts THEN At("claim", {}, @.attempt + 1)
                                  ELSE IdleRun]
  /\ UNCHANGED <<ready, notified, claim, enabled, delivered, repeated>>

----------------------------------------------------------------------------
(* send_notification: one attempt.                                         *)

Deliver(batch) ==
  /\ delivered' = delivered \cup batch
  /\ repeated' = repeated \cup (batch \cap delivered)

SendOk(r) ==
  /\ run[r].pc = "send"
  /\ Deliver(run[r].batch)
  /\ Goto(r, "idle", {})
  /\ UNCHANGED <<ready, notified, claim, enabled>>

(* No 200: not configured, refused, timed out. *)
SendFail(r) ==
  /\ run[r].pc = "send"
  /\ \/ UNCHANGED <<delivered, repeated>>
     \/ "ambiguous_post" \in Faults /\ Deliver(run[r].batch)
  /\ Goto(r, "finish", run[r].batch)
  /\ UNCHANGED <<ready, notified, claim, enabled>>

----------------------------------------------------------------------------
(* finish_notification_batch: the rows are given back by id.               *)

(* Faults: a run whose post failed ends without giving its rows back; or   *)
(* only one of the two columns is cleared.                                 *)
FaultyFinish(r) ==
  /\ run[r].pc = "finish"
  /\ Goto(r, "idle", {})
  /\ UNCHANGED <<ready, notified, claim, enabled, delivered, repeated>>

FaultyFinishKeepsClaim(r) ==
  /\ run[r].pc = "finish"
  /\ run[r].batch \cap Locked = {}
  /\ notified' = notified \ run[r].batch
  /\ Goto(r, "idle", {})
  /\ UNCHANGED <<ready, claim, enabled, delivered, repeated>>

Finish(r) ==
  /\ run[r].pc = "finish"
  /\ run[r].batch \cap Locked = {}
  /\ notified' = notified \ run[r].batch
  /\ claim' = [u \in Jobs |-> IF u \in run[r].batch THEN "none" ELSE claim[u]]
  /\ \/ Goto(r, "idle", {})
     \/ /\ "lost_result" \in Faults
        /\ run' = [run EXCEPT ![r] =
             IF @.attempt < MaxAttempts THEN At("finish", @.batch, @.attempt + 1)
                                        ELSE IdleRun]
  /\ UNCHANGED <<ready, enabled, delivered, repeated>>

(* Fault: one attempt too many. *)
FaultyFinishFail(r) ==
  /\ run[r].pc = "finish"
  /\ run' = [run EXCEPT ![r] =
       IF @.attempt <= MaxAttempts THEN At("finish", @.batch, @.attempt + 1)
                                   ELSE IdleRun]
  /\ UNCHANGED <<ready, notified, claim, enabled, delivered, repeated>>

FinishFail(r) ==
  /\ run[r].pc = "finish"
  /\ run[r].attempt < MaxAttempts \/ "db_down" \in Faults
  /\ run' = [run EXCEPT ![r] =
       IF @.attempt < MaxAttempts THEN At("finish", @.batch, @.attempt + 1)
                                  ELSE IdleRun]
  /\ UNCHANGED <<ready, notified, claim, enabled, delivered, repeated>>

----------------------------------------------------------------------------
RunStep(r) ==
  \/ ReadStatus(r) \/ StatusFails(r)
  \/ ClaimSelect(r) \/ ClaimCommit(r) \/ ClaimFail(r)
  \/ SendOk(r) \/ SendFail(r)
  \/ Finish(r) \/ FinishFail(r)

Next ==
  \/ \E u \in Jobs : BecomeReady(u) \/ Review(u) \/ ClaimAges(u)
  \/ Toggle
  \/ StartScheduled
  \/ \E r \in Runs : StartManual(r) \/ RunStep(r)

Spec == Init /\ [][Next]_vars

(* The schedule keeps ticking, a started run keeps running, and neither    *)
(* the read of the status, nor claims that meet no busy rows, nor the      *)
(* webhook fail every time.                                                *)
Fairness ==
  /\ WF_vars(StartScheduled)
  /\ \A r \in Runs :
       /\ WF_vars(RunStep(r))
       /\ SF_vars(ReadStatus(r))
       /\ SF_vars(ClaimSelect(r) /\ run'[r].batch = OldestOf(Claimable \ Locked, Limit))
       /\ SF_vars(run[r].batch # {} /\ ClaimCommit(r))
       /\ SF_vars(SendOk(r))

FairSpec == Spec /\ Fairness
----------------------------------------------------------------------------
(* Correctness.                                                            *)

Holds(r, u) == run[r].pc \in {"commit", "send", "finish"} /\ u \in run[r].batch

TypeOK ==
  /\ ready \subseteq Jobs
  /\ notified \subseteq Jobs
  /\ claim \in [Jobs -> {"none", "fresh", "stale"}]
  /\ enabled \in BOOLEAN
  /\ run \in [Runs -> [pc : {"idle", "status", "claim", "commit", "send", "finish"},
                       batch : SUBSET Jobs, attempt : 1 .. MaxAttempts]]
  /\ delivered \subseteq Jobs
  /\ repeated \subseteq delivered

(* Two runs never hold the same row at once. *)
DisjointBatches ==
  \A q, r \in Runs, u \in Jobs : Holds(q, u) /\ Holds(r, u) => q = r

(* The rows a run is about to post, or to give back, carry the mark that   *)
(* keeps every other run from claiming them.                               *)
BatchIsMarked ==
  \A r \in Runs : run[r].pc \in {"send", "finish"} => run[r].batch \subseteq notified

(* What a run holds is its own: no other run holds it, and until it is     *)
(* posted or given back the mark in the table says so.                     *)
BatchesAreClaims == DisjointBatches /\ BatchIsMarked

(* A posting is announced at most once, whatever the operator does with    *)
(* the row in between and however many runs overlap.                       *)
AnnouncedOnce == repeated = {}

(* A mark is never left behind: a run lets go of a marked row only when it *)
(* has been announced, or when every attempt to give it back failed.       *)
MarkIsAccountedFor ==
  [][\A r \in Runs : \A u \in run[r].batch \cap notified' :
       \/ u \in delivered'
       \/ \E q \in Runs : Holds(q, u)'
       \/ run[r].pc = "finish" /\ run[r].attempt = MaxAttempts]_vars

Abandoned(u) == u \in notified /\ \A r \in Runs : ~Holds(r, u)

(* While notifications stay on, a ready row is announced, leaves the ready *)
(* state, or could not be given back.                                      *)
ReadyIsAnnounced ==
  <>[]enabled =>
    \A u \in Jobs : u \in ready /\ u \notin delivered
                      ~> u \in delivered \/ u \notin ready \/ Abandoned(u)

(* A claim that outlived the timeout without a post, and that no run still *)
(* works on, is open to the next run.                                      *)
StaleClaimIsClaimable ==
  \A u \in ready \ delivered :
    claim[u] = "stale" /\ ~(\E r \in Runs : Holds(r, u)) => u \in Claimable
============================================================================
