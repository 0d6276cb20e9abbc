---------------------------- MODULE JobPipeline ----------------------------
(***************************************************************************)
(* Everything that writes a jobs row's content or state, interleaved one   *)
(* database statement at a time:                                           *)
(*   - provider scrapes that insert or merge rows (InsertJobIfNew);        *)
(*   - the filter_pending_job activity of the filter-pending singleton;    *)
(*   - ProcessJobWorkflow, the one running child of process-pending;       *)
(*   - the operator: review, return to review, re-evaluate, word lists.    *)
(* Both dispatchers are serial, so one record each holds the activity or   *)
(* child in flight.  Which row a dispatcher picks, and when it is woken,   *)
(* is in module Dispatchers; here any row in the right state may be next.  *)
(*                                                                         *)
(* Temporal runs an activity at least once: an attempt that fails, or      *)
(* whose worker dies, is repeated up to MaxAttempts times.  ResultLoss     *)
(* says whether that can happen after the attempt's UPDATE committed.      *)
(***************************************************************************)
EXTENDS JobStore

CONSTANTS
  Scrapers,        \* concurrent savers of scraped jobs
  SearchIntents,   \* intentions of the searches that run
  ListChoices,     \* word lists the operator may store
  MaxAttempts,     \* RetryPolicy.MaximumAttempts of database activities
  LockMaxRetries,  \* processJobLockMaxRetries
  MaxClock,        \* bound on created_at
  ResultLoss       \* BOOLEAN: a completion may be lost after the commit

ASSUME PipelineAssumption ==
  /\ SearchIntents \subseteq Intentions
  /\ MaxAttempts \in Nat \ {0}
  /\ LockMaxRetries \in Nat \ {0}
  /\ MaxClock \in Nat
  /\ ResultLoss \in BOOLEAN

VARIABLES
  jobs,     \* the table
  clock,    \* now(), as far as created_at tells moments apart
  lists,    \* the stored word lists
  insert,   \* per scraper: the open insert transaction
  filter,   \* filter_pending_job in flight
  child     \* ProcessJobWorkflow in flight

vars == <<jobs, clock, lists, insert, filter, child>>

NoInsert == [pc |-> "none"]
IdleFilter == [pc |-> "idle"]
IdleChild == [pc |-> "idle"]

Init ==
  /\ jobs = [u \in Urls |-> AbsentRow]
  /\ clock = 1
  /\ lists \in ListChoices
  /\ insert = [s \in Scrapers |-> NoInsert]
  /\ filter = IdleFilter
  /\ child = IdleChild

----------------------------------------------------------------------------
(* Scrapes.  created_at is now(), the start of the transaction, and the    *)
(* row is visible to others from the commit on.                            *)

InsertBegin(s, u, intention) ==
  /\ insert[s].pc = "none"
  /\ insert' = [insert EXCEPT ![s] =
       [pc |-> "open", url |-> u, intention |-> intention, created |-> clock]]
  /\ clock' \in {clock, clock + 1} \cap 1 .. MaxClock
  /\ UNCHANGED <<jobs, lists, filter, child>>

InsertCommit(s) ==
  /\ insert[s].pc = "open"
  /\ jobs' = InsertJobIfNew(jobs, insert[s].url, insert[s].intention,
                            insert[s].created)
  /\ insert' = [insert EXCEPT ![s] = NoInsert]
  /\ UNCHANGED <<clock, lists, filter, child>>

(* A failed insert is rolled back and the job is left for a later scrape. *)
InsertFail(s) ==
  /\ insert[s].pc = "open"
  /\ insert' = [insert EXCEPT ![s] = NoInsert]
  /\ UNCHANGED <<jobs, clock, lists, filter, child>>

----------------------------------------------------------------------------
(* filter_pending_job: three reads, then one UPDATE by id.                 *)

FilterStart(u) ==
  /\ filter.pc = "idle"
  /\ jobs[u].state = "pending"
  /\ filter' = [pc |-> "job", url |-> u, attempt |-> 1]
  /\ UNCHANGED <<jobs, clock, lists, insert, child>>

FilterGetJob ==
  /\ filter.pc = "job"
  /\ filter' = IF jobs[filter.url].state = "pending"
               THEN [pc |-> "group", url |-> filter.url,
                     attempt |-> filter.attempt,
                     job |-> DomainJob(filter.url, jobs[filter.url])]
               ELSE IdleFilter
  /\ UNCHANGED <<jobs, clock, lists, insert, child>>

FilterListCandidates ==
  /\ filter.pc = "group"
  /\ filter' = [pc |-> "lists", url |-> filter.url,
                attempt |-> filter.attempt, job |-> filter.job,
                loser |-> IsDuplicateLoser(filter.job, WholeTable(jobs))]
  /\ UNCHANGED <<jobs, clock, lists, insert, child>>

(* Fault: a fetch is asked for whatever the source. *)
FaultyDecisionForAnySource(u, job, loser, wordLists) ==
  FilterPending(job, loser, wordLists)

(* FilterPending, and the fetch it asks for when no enricher can do it. *)
PendingDecision(u, job, loser, wordLists) ==
  LET d == FilterPending(job, loser, wordLists)
  IN  IF d.state = "needs_detail" /\ Posting[u].source # "LINKEDIN"
      THEN Decide("rejected", "unsupported_source", NoText, job.attempts)
      ELSE d

FilterGetLists ==
  /\ filter.pc = "lists"
  /\ filter' = [pc |-> "persist", url |-> filter.url,
                attempt |-> filter.attempt, job |-> filter.job,
                decision |-> PendingDecision(filter.url, filter.job,
                                             filter.loser, lists)]
  /\ UNCHANGED <<jobs, clock, lists, insert, child>>

FilterPersist ==
  /\ filter.pc = "persist"
  /\ jobs' = UpdateJobNotifyState(jobs, filter.url, filter.decision)
  /\ filter' = [pc |-> "report", url |-> filter.url, attempt |-> filter.attempt]
  /\ UNCHANGED <<clock, lists, insert, child>>

FilterDone ==
  /\ filter.pc = "report"
  /\ filter' = IdleFilter
  /\ UNCHANGED <<jobs, clock, lists, insert, child>>

(* The attempt fails or is lost: it starts again from its first read, or,  *)
(* after the last attempt, the dispatcher skips the row.                   *)
FilterAttemptLost ==
  /\ filter.pc \in {"job", "group", "lists", "persist"}
       \cup (IF ResultLoss THEN {"report"} ELSE {})
  /\ filter' = IF filter.attempt < MaxAttempts
               THEN [pc |-> "job", url |-> filter.url,
                     attempt |-> filter.attempt + 1]
               ELSE IdleFilter
  /\ UNCHANGED <<jobs, clock, lists, insert, child>>

----------------------------------------------------------------------------
(* ProcessJobWorkflow: load the row and the lists, fetch, save.            *)

ChildStart(u) ==
  /\ child.pc = "idle"
  /\ jobs[u].state = "needs_detail"
  /\ child' = [pc |-> "load", url |-> u]
  /\ UNCHANGED <<jobs, clock, lists, insert, filter>>

ChildLoadJob ==
  /\ child.pc = "load"
  /\ child' = IF jobs[child.url].state = "needs_detail"
              THEN [pc |-> "lists", url |-> child.url,
                    job |-> DomainJob(child.url, jobs[child.url])]
              ELSE IdleChild
  /\ UNCHANGED <<jobs, clock, lists, insert, filter>>

Fetching(job, wordLists, tries) ==
  [pc |-> "fetch", url |-> child.url, job |-> job, lists |-> wordLists,
   tries |-> tries]

Saving(decision) ==
  [pc |-> "save", url |-> child.url, attempt |-> 1, saved |-> FALSE,
   decision |-> decision]

ChildLoadLists ==
  /\ child.pc = "lists"
  /\ child' = IF Posting[child.url].source = "LINKEDIN"
              THEN Fetching(child.job, lists, 1)
              ELSE Saving(Decide("rejected", "unsupported_source", NoText,
                                 child.job.attempts))
  /\ UNCHANGED <<jobs, clock, lists, insert, filter>>

(* The scrape of the same source holds its lock: wait and try again, and   *)
(* after the last try leave the row as it is.                              *)
ChildLockBusy ==
  /\ child.pc = "fetch"
  /\ child' = IF child.tries < LockMaxRetries
              THEN Fetching(child.job, child.lists, child.tries + 1)
              ELSE IdleChild
  /\ UNCHANGED <<jobs, clock, lists, insert, filter>>

ChildFetchFailed ==
  /\ child.pc = "fetch"
  /\ child' = Saving(OnDetailFetchFailure(child.job))
  /\ UNCHANGED <<jobs, clock, lists, insert, filter>>

(* A page without text is a failed fetch. *)
ChildFetched ==
  /\ child.pc = "fetch"
  /\ Posting[child.url].detail # NoText
  /\ child' = Saving(FilterAfterDescription(
                [child.job EXCEPT !.description = Posting[child.url].detail],
                child.lists))
  /\ UNCHANGED <<jobs, clock, lists, insert, filter>>

(* An activity of the child used up its attempts, or the fetch (which has  *)
(* only one) failed as an activity: the child fails without a write.       *)
ChildFail ==
  /\ child.pc \in {"load", "lists", "fetch"}
  /\ child' = IdleChild
  /\ UNCHANGED <<jobs, clock, lists, insert, filter>>

ChildSave ==
  /\ child.pc = "save"
  /\ jobs' = UpdateJobNotifyState(jobs, child.url, child.decision)
  /\ child' = [child EXCEPT !.pc = "report", !.saved = TRUE]
  /\ UNCHANGED <<clock, lists, insert, filter>>

ChildDone ==
  /\ child.pc = "report"
  /\ child' = IdleChild
  /\ UNCHANGED <<jobs, clock, lists, insert, filter>>

(* The save is repeated with the decision it was scheduled with. *)
ChildSaveLost ==
  /\ child.pc \in {"save"} \cup (IF ResultLoss THEN {"report"} ELSE {})
  /\ child' = IF child.attempt < MaxAttempts
              THEN [child EXCEPT !.pc = "save", !.attempt = @ + 1]
              ELSE IdleChild
  /\ UNCHANGED <<jobs, clock, lists, insert, filter>>

----------------------------------------------------------------------------
(* The operator.                                                           *)

Review(u, action) ==
  /\ jobs[u].state = "ready"
  /\ jobs' = ReviewReadyJob(jobs, u, action)
  /\ UNCHANGED <<clock, lists, insert, filter, child>>

ReturnToReview(u) ==
  /\ CanReturn(jobs[u])
  /\ jobs' = ReturnJobToReview(jobs, u)
  /\ UNCHANGED <<clock, lists, insert, filter, child>>

ReEvaluate ==
  /\ \E u \in Urls : jobs[u].state = "rejected"
  /\ jobs' = ReEvaluateRejectedJobs(jobs)
  /\ UNCHANGED <<clock, lists, insert, filter, child>>

ReplaceLists(l) ==
  /\ l # lists
  /\ lists' = l
  /\ UNCHANGED <<jobs, clock, insert, filter, child>>

----------------------------------------------------------------------------
Scrape == \E s \in Scrapers :
  \/ \E u \in Urls, i \in SearchIntents : InsertBegin(s, u, i)
  \/ InsertCommit(s)
  \/ InsertFail(s)

FilterStep ==
  \/ \E u \in Urls : FilterStart(u)
  \/ FilterGetJob \/ FilterListCandidates \/ FilterGetLists
  \/ FilterPersist \/ FilterDone \/ FilterAttemptLost

ChildStep ==
  \/ \E u \in Urls : ChildStart(u)
  \/ ChildLoadJob \/ ChildLoadLists
  \/ ChildLockBusy \/ ChildFetchFailed \/ ChildFetched \/ ChildFail
  \/ ChildSave \/ ChildDone \/ ChildSaveLost

Operator ==
  \/ \E u \in Urls : Review(u, "applied") \/ Review(u, "dismissed")
  \/ \E u \in Urls : ReturnToReview(u)
  \/ ReEvaluate
  \/ \E l \in ListChoices : ReplaceLists(l)

Next == Scrape \/ FilterStep \/ ChildStep \/ Operator

Spec == Init /\ [][Next]_vars
----------------------------------------------------------------------------
(* Correctness.                                                            *)

DecisionType ==
  [state : {"rejected", "needs_detail", "ready"},
   reason : Reasons \cup {NoReason},
   description : {Posting[u].text : u \in Urls}
                 \cup {Posting[u].detail : u \in Urls} \cup {NoText},
   attempts : 0 .. MaxDetailAttempts]

RowType ==
  [state : JobStates \cup {"absent"},
   reason : Reasons \cup {NoReason},
   description : {Posting[u].text : u \in Urls}
                 \cup {Posting[u].detail : u \in Urls} \cup {NoText},
   attempts : 0 .. MaxDetailAttempts,
   intention : Intentions,
   created : Nat]

(* Every variable has its type: rows, open inserts, and the two activities *)
(* in flight with the fields of their program counter.                     *)
TypeOK ==
  /\ jobs \in [Urls -> RowType]
  /\ clock \in Nat
  /\ lists \in ListChoices
  /\ \A s \in Scrapers :
       insert[s] \in {NoInsert} \cup
         [pc : {"open"}, url : Urls, intention : Intentions, created : Nat]
  /\ \/ filter = IdleFilter
     \/ /\ filter.pc \in {"job", "group", "lists", "persist", "report"}
        /\ filter.url \in Urls
        /\ filter.attempt \in 1 .. MaxAttempts
        /\ filter.pc = "persist" => filter.decision \in DecisionType
  /\ \/ child = IdleChild
     \/ /\ child.pc \in {"load", "lists", "fetch", "save", "report"}
        /\ child.url \in Urls
        /\ child.pc \in {"save", "report"} => child.decision \in DecisionType

(* A row is rejected exactly when it has a reject reason, whichever of the *)
(* filter, the detail child and the operator wrote it last.                *)
RejectedHasReason ==
  \A u \in Urls : jobs[u].state = "rejected" <=> jobs[u].reason # NoReason

(* A row that waits for detail can be served: an enricher exists for its   *)
(* source, it has an attempt left, and it has no text yet (its page is     *)
(* never fetched twice).                                                   *)
NeedsDetailIsFetchable ==
  \A u \in Urls : jobs[u].state = "needs_detail" =>
    /\ Posting[u].source = "LINKEDIN"
    /\ jobs[u].attempts < MaxDetailAttempts
    /\ jobs[u].description = NoText

(* The duplicate rule never drops a posting altogether: of the rows of one *)
(* title and company, some row is not a duplicate reject, in whatever      *)
(* order concurrent inserts commit.                                        *)
NoGroupVanishes ==
  \A u \in Stored(jobs) : \E w \in Stored(jobs) :
    /\ Posting[w].title = Posting[u].title
    /\ Posting[w].company = Posting[u].company
    /\ jobs[w].reason # "duplicate"

(* Text that was fetched or scraped is never erased by a later decision.   *)
TextNeverErased ==
  [][\A u \in Urls : jobs[u].description # NoText => jobs'[u].description # NoText]_vars

(* What the filters (not the operator) promote to ready has a text that    *)
(* the description filters have seen.                                      *)
FiltersPromoteOnlyTexts ==
  [][\A u \in Urls :
       jobs[u].state \in {"pending", "needs_detail"} /\ jobs'[u].state = "ready"
         => jobs'[u].description # NoText]_vars

(* The row an activity read is still as it read it when it writes: pending *)
(* for the filter, waiting for detail with the same attempts for the child *)
(* (until its first save).                                                 *)
DispatchersOwnTheirRows ==
  /\ filter.pc \in {"group", "lists", "persist"} =>
       /\ jobs[filter.url].state = "pending"
       /\ jobs[filter.url].attempts = filter.job.attempts
  /\ child.pc \in {"lists", "fetch"} =>
       /\ jobs[child.url].state = "needs_detail"
       /\ jobs[child.url].attempts = child.job.attempts
  /\ child.pc = "save" => jobs[child.url].state = "needs_detail"

(* The pipeline implements the lifecycle of JobLifecycle.                  *)
Lifecycle == INSTANCE JobLifecycle WITH
  state <- [u \in Urls |-> jobs[u].state],
  attempts <- [u \in Urls |-> jobs[u].attempts]

ImplementsLifecycle == Lifecycle!LifeSpec
============================================================================
