------------------------------ MODULE JobStore ------------------------------
(***************************************************************************)
(* The jobs table and the statements of db/jobs.go that change a row's     *)
(* content or state.  A table is a function from job URLs to rows; a URL   *)
(* that has no row yet is in state "absent".  What a job board publishes   *)
(* under a URL never changes and is the constant Posting; a row keeps the  *)
(* mutable columns.  The notification columns are in module Notify.        *)
(***************************************************************************)
EXTENDS JobFilter, FiniteSets

CONSTANTS
  Urls,     \* job URLs; the number is the row id the sequence hands out
  Sources,  \* job sources
  Posting   \* [Urls -> [source, title, company, location, text, detail]]

ASSUME UrlsAssumption == Urls \subseteq Nat

JobStates == {"pending", "rejected", "needs_detail", "ready",
              "applied", "dismissed"}
Reviewed == {"applied", "dismissed"}

AbsentRow == [state |-> "absent", reason |-> NoReason, description |-> NoText,
              attempts |-> 0, intention |-> "onsite", created |-> 0]

Stored(jobs) == {u \in Urls : jobs[u].state # "absent"}

(* domainJobFromDB: what the filters see of a row. *)
DomainJob(u, row) ==
  [id |-> u, created |-> row.created, title |-> Posting[u].title,
   company |-> Posting[u].company, location |-> Posting[u].location,
   description |-> row.description, intention |-> row.intention,
   attempts |-> row.attempts]

WholeTable(jobs) == {DomainJob(u, jobs[u]) : u \in Stored(jobs)}

(* InsertJobIfNew: the first insert makes a pending row; every later one   *)
(* only merges, and an onsite search overrides the stored intention.       *)
InsertJobIfNew(jobs, u, intention, created) ==
  IF jobs[u].state = "absent"
  THEN [jobs EXCEPT ![u] =
         [state |-> "pending", reason |-> NoReason,
          description |-> Posting[u].text, attempts |-> 0,
          intention |-> intention, created |-> created]]
  ELSE [jobs EXCEPT ![u].intention =
         IF intention = "onsite" THEN "onsite" ELSE jobs[u].intention]

(* Faults: every decision overwrites the text; only rejections keep it. *)
FaultyPersistAlways(decision) == TRUE
FaultyPersistRejects(decision) ==
  decision.reason \in {"description", "remote_lie"}

PersistDescription(decision) ==
  \/ decision.description # NoText
  \/ decision.state = "ready"
  \/ decision.reason \in {"description", "remote_lie"}

(* persistFilterDecision and UpdateJobNotifyState: the row is written by   *)
(* id, whatever state it is in by then; a NULL description keeps the text. *)
WithDecision(row, decision) ==
  [row EXCEPT !.state = decision.state,
              !.reason = decision.reason,
              !.description = IF PersistDescription(decision)
                              THEN decision.description ELSE row.description,
              !.attempts = decision.attempts]

UpdateJobNotifyState(jobs, u, decision) ==
  [jobs EXCEPT ![u] = WithDecision(jobs[u], decision)]

(* Fault: the failed fetches are not forgiven. *)
FaultyReEvaluateKeepsAttempts(jobs) ==
  [u \in Urls |->
    IF jobs[u].state = "rejected"
    THEN [jobs[u] EXCEPT !.state = "pending", !.reason = NoReason]
    ELSE jobs[u]]

Forgiven(row) ==
  [row EXCEPT !.state = "pending", !.reason = NoReason, !.attempts = 0]

ReEvaluateRejectedJobs(jobs) ==
  [u \in Urls |->
    IF jobs[u].state = "rejected" THEN Forgiven(jobs[u]) ELSE jobs[u]]

ReviewReadyJob(jobs, u, action) ==
  IF jobs[u].state = "ready" THEN [jobs EXCEPT ![u].state = action] ELSE jobs

(* Fault: a row may be taken back to review from any state. *)
FaultyCanReturn(row) == row.state # "absent"

CanReturn(row) == row.state \in Reviewed \cup {"rejected"}

(* Fault: the reject reason stays behind. *)
FaultyReturnKeepsReason(jobs, u) ==
  IF CanReturn(jobs[u]) THEN [jobs EXCEPT ![u].state = "ready"] ELSE jobs

ReturnJobToReview(jobs, u) ==
  IF CanReturn(jobs[u])
  THEN [jobs EXCEPT ![u] = [jobs[u] EXCEPT !.state = "ready", !.reason = NoReason]]
  ELSE jobs
============================================================================
