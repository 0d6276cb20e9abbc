------------------------- MODULE JobPipeline_proof -------------------------
(***************************************************************************)
(* Proofs about JobPipeline for any postings, scrapers, word lists and     *)
(* bounds.  The safety invariants are not inductive: they need what each   *)
(* activity in flight may rely on about the row it is going to write, even *)
(* when a completion was lost after the commit and the write is repeated.  *)
(***************************************************************************)
EXTENDS JobPipeline, WellFoundedInduction, TLAPS

Texts == {Posting[u].text : u \in Urls} \cup {Posting[u].detail : u \in Urls}
           \cup {NoText}

(* A row with the facts that hold of it in every state. *)
RowOK(u, row) ==
  /\ row \in RowType
  /\ row.state = "rejected" <=> row.reason # NoReason
  /\ row.state \in {"absent", "pending"} => row.attempts = 0
  /\ row.state = "absent" => row.description = NoText
  /\ row.state = "needs_detail" =>
       /\ Posting[u].source = "LINKEDIN"
       /\ row.attempts < MaxDetailAttempts
       /\ row.description = NoText

RowsOK ==
  /\ jobs \in [Urls -> RowType]
  /\ \A u \in Urls : RowOK(u, jobs[u])

RestOK ==
  /\ clock \in Nat
  /\ lists \in ListChoices
  /\ \A s \in Scrapers :
       insert[s] \in {NoInsert} \cup
         [pc : {"open"}, url : Urls, intention : Intentions, created : Nat]
  /\ DOMAIN insert = Scrapers

(* A decision that is safe to write to row u. *)
DecisionOK(u, d) ==
  /\ d \in DecisionType
  /\ d.state = "rejected" <=> d.reason # NoReason
  /\ d.state = "needs_detail" =>
       /\ Posting[u].source = "LINKEDIN"
       /\ d.attempts < MaxDetailAttempts
       /\ d.description = NoText

(* Between its first read and its UPDATE the filter's row is past pending  *)
(* at most by a repeated save, so it does not wait for detail, and it      *)
(* still has the text the filter read.                                     *)
FilterReads(u, job) ==
  /\ u \in Urls
  /\ jobs[u].state \notin {"absent", "needs_detail"}
  /\ job.attempts = 0
  /\ job.description = jobs[u].description

FilterOK ==
  /\ filter.pc \in {"idle", "job", "group", "lists", "persist", "report"}
  /\ filter.pc = "idle" => filter = IdleFilter
  /\ filter.pc # "idle" =>
       /\ filter.url \in Urls
       /\ filter.attempt \in 1 .. MaxAttempts
       /\ jobs[filter.url].state # "absent"
  /\ filter.pc \in {"group", "lists", "persist"} =>
       FilterReads(filter.url, filter.job)
  /\ filter.pc = "persist" =>
       /\ DecisionOK(filter.url, filter.decision)
       /\ filter.decision.attempts = 0
       /\ filter.decision.state = "needs_detail" =>
            jobs[filter.url].description = NoText
       /\ filter.decision.state = "ready" => filter.decision.description # NoText
       /\ PersistDescription(filter.decision) =>
            filter.decision.description = jobs[filter.url].description

(* Until its first save the child's row waits for detail with the attempts *)
(* the child read; afterwards the row keeps the text it was given, and     *)
(* keeps waiting if that is what was decided.                              *)
ChildOK ==
  /\ child.pc \in {"idle", "load", "lists", "fetch", "save", "report"}
  /\ child.pc = "idle" => child = IdleChild
  /\ child.pc # "idle" =>
       /\ child.url \in Urls
       /\ Posting[child.url].source = "LINKEDIN"
       /\ jobs[child.url].state # "absent"
  /\ child.pc \in {"lists", "fetch"} =>
       /\ jobs[child.url].state = "needs_detail"
       /\ child.job.attempts = jobs[child.url].attempts
       /\ child.job.description = NoText
  /\ child.pc \in {"save", "report"} =>
       /\ DecisionOK(child.url, child.decision)
       /\ child.saved \in BOOLEAN
       /\ child.decision.state = "ready" => child.decision.description # NoText
       /\ child.decision.reason \in {"description", "remote_lie"} =>
            child.decision.description # NoText
       /\ ~child.saved => jobs[child.url].state = "needs_detail"
       /\ child.saved =>
            /\ child.decision.state = "needs_detail" =>
                 jobs[child.url].state = "needs_detail"
            /\ PersistDescription(child.decision) =>
                 jobs[child.url].description = child.decision.description
  /\ child.pc = "report" => child.saved
  /\ child.pc \in {"save", "report"} => child.attempt \in 1 .. MaxAttempts

IInv == RowsOK /\ RestOK /\ FilterOK /\ ChildOK
----------------------------------------------------------------------------
(* The decisions.                                                          *)

(* OnDetailFetchFailure of a row that had an attempt left is safe to write. *)
LEMMA FetchFailureOK ==
  ASSUME NEW u \in Urls, Posting[u].source = "LINKEDIN",
         NEW job, job.attempts \in 0 .. MaxDetailAttempts - 1
  PROVE  LET d == OnDetailFetchFailure(job)
         IN  /\ DecisionOK(u, d)
             /\ d.description = NoText
             /\ d.state # "ready"
             /\ d.reason \notin {"description", "remote_lie"}
             /\ job.attempts = 0 => d.attempts = 1
  BY DEF OnDetailFetchFailure, Decide, DecisionOK, DecisionType, Reasons,
         NoReason, MaxDetailAttempts, NoText

(* FilterAfterDescription of a job with a text keeps text and attempts.     *)
LEMMA AfterDescriptionOK ==
  ASSUME NEW u \in Urls, NEW job, NEW wordLists,
         job.attempts \in 0 .. MaxDetailAttempts,
         job.description \in Texts, job.description # NoText
  PROVE  LET d == FilterAfterDescription(job, wordLists)
         IN  /\ DecisionOK(u, d)
             /\ d.description = job.description
             /\ d.attempts = job.attempts
             /\ d.state # "needs_detail"
  BY DEF FilterAfterDescription, Decide, DecisionOK, DecisionType, Reasons,
         NoReason, MaxDetailAttempts, Texts

(* The filter's decision leaves the attempts alone, asks for detail only   *)
(* where an enricher exists and no text is, and keeps a text as it is.     *)
LEMMA PendingDecisionOK ==
  ASSUME NEW u \in Urls, NEW job, NEW loser, NEW wordLists,
         job.attempts = 0, job.description \in Texts
  PROVE  LET d == PendingDecision(u, job, loser, wordLists)
         IN  /\ DecisionOK(u, d)
             /\ d.attempts = 0
             /\ d.state = "needs_detail" => job.description = NoText
             /\ d.state = "ready" => d.description # NoText
             /\ PersistDescription(d) => d.description = job.description
<1> DEFINE f == FilterPending(job, loser, wordLists)
<1>1. CASE f = Decide("rejected", "duplicate", NoText, job.attempts)
  BY <1>1 DEF PendingDecision, Decide, DecisionOK, DecisionType, Reasons,
         NoReason, MaxDetailAttempts, NoText, PersistDescription
<1>2. CASE f = Decide("rejected", "title_company", NoText, job.attempts)
  BY <1>2 DEF PendingDecision, Decide, DecisionOK, DecisionType, Reasons,
         NoReason, MaxDetailAttempts, NoText, PersistDescription
<1>3. CASE /\ job.description = NoText
           /\ f = Decide("needs_detail", NoReason, NoText, job.attempts)
  BY <1>3 DEF PendingDecision, Decide, DecisionOK, DecisionType, Reasons,
         NoReason, MaxDetailAttempts, NoText, PersistDescription
<1>4. CASE /\ job.description # NoText
           /\ f = FilterAfterDescription(job, wordLists)
  <2>1. job.attempts \in 0 .. MaxDetailAttempts
    BY DEF MaxDetailAttempts
  <2>2. /\ DecisionOK(u, f)
        /\ f.description = job.description
        /\ f.attempts = job.attempts
        /\ f.state # "needs_detail"
    BY <2>1, <1>4, AfterDescriptionOK
  <2>3. PendingDecision(u, job, loser, wordLists) = f
    BY <2>2 DEF PendingDecision
  <2> QED BY <1>4, <2>2, <2>3
<1> QED
  BY <1>1, <1>2, <1>3, <1>4 DEF FilterPending

----------------------------------------------------------------------------
(* The statements.                                                         *)

(* UpdateJobNotifyState writes one row and leaves its stamps alone.        *)
LEMMA UpdateFacts ==
  ASSUME jobs \in [Urls -> RowType], NEW u \in Urls, NEW d \in DecisionType
  PROVE  LET new == UpdateJobNotifyState(jobs, u, d)
         IN  /\ new \in [Urls -> RowType]
             /\ \A v \in Urls \ {u} : new[v] = jobs[v]
             /\ new[u].state = d.state
             /\ new[u].reason = d.reason
             /\ new[u].attempts = d.attempts
             /\ new[u].description = IF PersistDescription(d)
                                     THEN d.description
                                     ELSE jobs[u].description
<1>1. jobs[u] \in RowType
  OBVIOUS
<1>2. WithDecision(jobs[u], d) \in RowType
  BY <1>1 DEF WithDecision, RowType, DecisionType, JobStates
<1>3. LET row == WithDecision(jobs[u], d)
      IN  /\ row.state = d.state /\ row.reason = d.reason
          /\ row.attempts = d.attempts
          /\ row.description = IF PersistDescription(d) THEN d.description
                               ELSE jobs[u].description
  BY <1>1 DEF WithDecision, RowType
<1> QED
  BY <1>2, <1>3 DEF UpdateJobNotifyState

(* InsertJobIfNew creates a pending row or changes nothing but a stamp.    *)
LEMMA InsertFacts ==
  ASSUME jobs \in [Urls -> RowType], NEW u \in Urls,
         NEW i \in Intentions, NEW c \in Nat
  PROVE  LET new == InsertJobIfNew(jobs, u, i, c)
         IN  /\ new \in [Urls -> RowType]
             /\ \A v \in Urls \ {u} : new[v] = jobs[v]
             /\ jobs[u].state = "absent" =>
                  /\ new[u].state = "pending"
                  /\ new[u].reason = NoReason
                  /\ new[u].attempts = 0
             /\ jobs[u].state # "absent" =>
                  /\ new[u].state = jobs[u].state
                  /\ new[u].reason = jobs[u].reason
                  /\ new[u].attempts = jobs[u].attempts
                  /\ new[u].description = jobs[u].description
<1>1. jobs[u] \in RowType
  OBVIOUS
<1>2. CASE jobs[u].state = "absent"
  <2> DEFINE row == [state |-> "pending", reason |-> NoReason,
                     description |-> Posting[u].text, attempts |-> 0,
                     intention |-> i, created |-> c]
  <2>1. row \in RowType
    BY DEF RowType, JobStates, MaxDetailAttempts
  <2>2. InsertJobIfNew(jobs, u, i, c) = [jobs EXCEPT ![u] = row]
    BY <1>2 DEF InsertJobIfNew
  <2> QED BY <2>1, <2>2, <1>2
<1>3. CASE jobs[u].state # "absent"
  <2> DEFINE stamp == IF i = "onsite" THEN "onsite" ELSE jobs[u].intention
             row == [jobs[u] EXCEPT !.intention = stamp]
  <2>1. /\ row \in RowType
        /\ row.state = jobs[u].state /\ row.reason = jobs[u].reason
        /\ row.attempts = jobs[u].attempts
        /\ row.description = jobs[u].description
    BY <1>1 DEF RowType, Intentions
  <2>2. InsertJobIfNew(jobs, u, i, c) = [jobs EXCEPT ![u] = row]
    BY <1>3 DEF InsertJobIfNew
  <2> HIDE DEF row
  <2> QED BY <2>1, <2>2, <1>3
<1> QED BY <1>2, <1>3

(* ReEvaluateRejectedJobs touches rejected rows only.                      *)
LEMMA ReEvaluateFacts ==
  ASSUME jobs \in [Urls -> RowType]
  PROVE  LET new == ReEvaluateRejectedJobs(jobs)
         IN  /\ new \in [Urls -> RowType]
             /\ \A u \in Urls :
                  IF jobs[u].state = "rejected"
                  THEN /\ new[u].state = "pending"
                       /\ new[u].reason = NoReason
                       /\ new[u].attempts = 0
                       /\ new[u].description = jobs[u].description
                  ELSE new[u] = jobs[u]
<1> DEFINE new == ReEvaluateRejectedJobs(jobs)
<1>1. ASSUME NEW row \in RowType
      PROVE  /\ Forgiven(row) \in RowType
             /\ Forgiven(row).state = "pending"
             /\ Forgiven(row).reason = NoReason
             /\ Forgiven(row).attempts = 0
             /\ Forgiven(row).description = row.description
  <2>1. /\ 0 \in 0 .. MaxDetailAttempts
        /\ "pending" \in JobStates
    BY DEF JobStates, MaxDetailAttempts
  <2> QED BY <2>1 DEF Forgiven, RowType
<1>2. new = [u \in Urls |-> IF jobs[u].state = "rejected"
                            THEN Forgiven(jobs[u]) ELSE jobs[u]]
  BY DEF ReEvaluateRejectedJobs
<1> HIDE DEF new
<1>3. new \in [Urls -> RowType]
  BY <1>1, <1>2
<1>4. \A u \in Urls : new[u] = IF jobs[u].state = "rejected"
                               THEN Forgiven(jobs[u]) ELSE jobs[u]
  BY <1>2
<1>5. \A u \in Urls :
        IF jobs[u].state = "rejected"
        THEN /\ new[u].state = "pending"
             /\ new[u].reason = NoReason
             /\ new[u].attempts = 0
             /\ new[u].description = jobs[u].description
        ELSE new[u] = jobs[u]
  BY <1>1, <1>4
<1> QED BY <1>3, <1>5 DEF new

(* A review, and a return to review, only move the state.                  *)
LEMMA ReviewFacts ==
  ASSUME jobs \in [Urls -> RowType], NEW u \in Urls,
         NEW action \in Reviewed, jobs[u].state = "ready"
  PROVE  LET new == ReviewReadyJob(jobs, u, action)
         IN  /\ new \in [Urls -> RowType]
             /\ \A v \in Urls \ {u} : new[v] = jobs[v]
             /\ new[u].state = action
             /\ new[u].reason = jobs[u].reason
             /\ new[u].attempts = jobs[u].attempts
             /\ new[u].description = jobs[u].description
<1>1. jobs[u] \in RowType
  OBVIOUS
<1> DEFINE row == [jobs[u] EXCEPT !.state = action]
<1>2. /\ row \in RowType
      /\ row.state = action /\ row.reason = jobs[u].reason
      /\ row.attempts = jobs[u].attempts
      /\ row.description = jobs[u].description
  BY <1>1 DEF RowType, Reviewed, JobStates
<1>3. ReviewReadyJob(jobs, u, action) = [jobs EXCEPT ![u] = row]
  BY DEF ReviewReadyJob
<1> HIDE DEF row
<1> QED BY <1>2, <1>3

LEMMA ReturnFacts ==
  ASSUME jobs \in [Urls -> RowType], NEW u \in Urls, CanReturn(jobs[u])
  PROVE  LET new == ReturnJobToReview(jobs, u)
         IN  /\ new \in [Urls -> RowType]
             /\ \A v \in Urls \ {u} : new[v] = jobs[v]
             /\ new[u].state = "ready"
             /\ new[u].reason = NoReason
             /\ new[u].attempts = jobs[u].attempts
             /\ new[u].description = jobs[u].description
<1>1. jobs[u] \in RowType
  OBVIOUS
<1> DEFINE row == [jobs[u] EXCEPT !.state = "ready", !.reason = NoReason]
<1>2. /\ row \in RowType
      /\ row.state = "ready" /\ row.reason = NoReason
      /\ row.attempts = jobs[u].attempts
      /\ row.description = jobs[u].description
  BY <1>1 DEF RowType, JobStates
<1>3. ReturnJobToReview(jobs, u) = [jobs EXCEPT ![u] = row]
  BY DEF ReturnJobToReview
<1> HIDE DEF row
<1> QED BY <1>2, <1>3
----------------------------------------------------------------------------
(* What an activity in flight relies on survives the steps of the others.  *)

(* The filter's facts survive a step that brings no row to needs_detail    *)
(* that was not there and changes no text outside it.                      *)
LEMMA FilterStable ==
  ASSUME FilterOK, filter' = filter,
         \A u \in Urls : jobs[u].state # "absent" => jobs'[u].state # "absent",
         \A u \in Urls : jobs[u].state \notin {"absent", "needs_detail"} =>
           /\ jobs'[u].state \notin {"absent", "needs_detail"}
           /\ jobs'[u].description = jobs[u].description
  PROVE  FilterOK'
<1>1. filter.pc # "idle" => filter.url \in Urls
  BY DEF FilterOK
<1>2. filter.pc \in {"group", "lists", "persist"} =>
        /\ jobs[filter.url].state \notin {"absent", "needs_detail"}
        /\ jobs'[filter.url].state \notin {"absent", "needs_detail"}
        /\ jobs'[filter.url].description = jobs[filter.url].description
  BY <1>1 DEF FilterOK, FilterReads
<1> QED
  BY <1>1, <1>2 DEF FilterOK, FilterReads

(* The child's facts survive a step that takes no row out of needs_detail  *)
(* and changes no text.                                                    *)
LEMMA ChildStable ==
  ASSUME ChildOK, child' = child,
         \A u \in Urls : jobs[u].state # "absent" => jobs'[u].state # "absent",
         \A u \in Urls : jobs[u].state = "needs_detail" =>
           /\ jobs'[u].state = "needs_detail"
           /\ jobs'[u].attempts = jobs[u].attempts,
         \A u \in Urls : jobs[u].state # "absent" =>
           jobs'[u].description = jobs[u].description
  PROVE  ChildOK'
<1>1. child.pc # "idle" => child.url \in Urls /\ jobs[child.url].state # "absent"
  BY DEF ChildOK
<1> QED
  BY <1>1 DEF ChildOK

(* The table's facts, row by row.                                          *)
LEMMA RowsStep ==
  ASSUME jobs' \in [Urls -> RowType],
         \A u \in Urls :
           \/ jobs'[u] = jobs[u]
           \/ RowOK(u, jobs'[u]),
         RowsOK
  PROVE  RowsOK'
  BY DEF RowsOK, RowOK

----------------------------------------------------------------------------
(* Each group of actions keeps the invariant.                              *)

LEMMA InitInv == Init => IInv
<1> SUFFICES ASSUME Init PROVE IInv
  OBVIOUS
<1>1. AbsentRow \in RowType
  BY DEF AbsentRow, RowType, MaxDetailAttempts, Intentions, NoText
<1>2. RowsOK
  BY <1>1 DEF Init, RowsOK, RowOK, AbsentRow
<1>3. RestOK
  BY DEF Init, RestOK
<1>4. FilterOK /\ ChildOK
  BY DEF Init, FilterOK, ChildOK, IdleFilter, IdleChild
<1> QED BY <1>2, <1>3, <1>4 DEF IInv

LEMMA ScrapeInv == IInv /\ Scrape => IInv'
<1> SUFFICES ASSUME IInv, NEW s \in Scrapers,
                    \/ \E u \in Urls, i \in SearchIntents : InsertBegin(s, u, i)
                    \/ InsertCommit(s)
                    \/ InsertFail(s)
             PROVE  IInv'
  BY DEF Scrape
<1> USE PipelineAssumption DEF IInv
<1>1. ASSUME NEW u \in Urls, NEW i \in SearchIntents, InsertBegin(s, u, i)
      PROVE  IInv'
  <2> DEFINE rec == [pc |-> "open", url |-> u, intention |-> i, created |-> clock]
  <2>1. /\ i \in Intentions /\ clock \in Nat
        /\ rec \in [pc : {"open"}, url : Urls, intention : Intentions, created : Nat]
    BY DEF RestOK
  <2>2a. /\ insert' = [insert EXCEPT ![s] = rec]
         /\ clock' \in {clock, clock + 1} \cap 1 .. MaxClock
         /\ lists' = lists
    BY <1>1 DEF InsertBegin
  <2> HIDE DEF rec
  <2>2. RestOK'
    BY <2>1, <2>2a DEF RestOK
  <2>3. RowsOK' /\ FilterOK' /\ ChildOK'
    BY <1>1 DEF InsertBegin, RowsOK, FilterOK, FilterReads, ChildOK
  <2> QED BY <2>2, <2>3
<1>2. CASE InsertCommit(s)
  <2> DEFINE u == insert[s].url
             i == insert[s].intention
             c == insert[s].created
  <2>1. u \in Urls /\ i \in Intentions /\ c \in Nat
    BY <1>2 DEF RestOK, InsertCommit, NoInsert
  <2>2. /\ jobs' = InsertJobIfNew(jobs, u, i, c)
        /\ filter' = filter /\ child' = child
        /\ clock' = clock /\ lists' = lists
        /\ insert' = [insert EXCEPT ![s] = NoInsert]
    BY <1>2 DEF InsertCommit
  <2>3. jobs \in [Urls -> RowType]
    BY DEF RowsOK
  <2> HIDE DEF u, i, c
  <2>4. /\ jobs' \in [Urls -> RowType]
        /\ \A v \in Urls \ {u} : jobs'[v] = jobs[v]
        /\ jobs[u].state = "absent" =>
             /\ jobs'[u].state = "pending"
             /\ jobs'[u].reason = NoReason
             /\ jobs'[u].attempts = 0
        /\ jobs[u].state # "absent" =>
             /\ jobs'[u].state = jobs[u].state
             /\ jobs'[u].reason = jobs[u].reason
             /\ jobs'[u].attempts = jobs[u].attempts
             /\ jobs'[u].description = jobs[u].description
    BY <2>1, <2>2, <2>3, InsertFacts
  <2>5. RowOK(u, jobs[u])
    BY <2>1 DEF RowsOK
  <2>6. RowOK(u, jobs'[u])
    BY <2>1, <2>4, <2>5 DEF RowOK
  <2>7. RowsOK'
    BY <2>4, <2>6, RowsStep
  <2>8. FilterOK'
    BY <2>1, <2>2, <2>4, FilterStable
  <2>9. ChildOK'
    BY <2>1, <2>2, <2>4, ChildStable
  <2>10. RestOK'
    BY <2>2 DEF RestOK
  <2> QED BY <2>7, <2>8, <2>9, <2>10
<1>3. CASE InsertFail(s)
  <2>1. RestOK'
    BY <1>3 DEF RestOK, InsertFail
  <2>2. RowsOK' /\ FilterOK' /\ ChildOK'
    BY <1>3 DEF InsertFail, RowsOK, FilterOK, FilterReads, ChildOK
  <2> QED BY <2>1, <2>2
<1> QED BY <1>1, <1>2, <1>3

LEMMA FilterInv == IInv /\ FilterStep => IInv'
<1> SUFFICES ASSUME IInv, FilterStep PROVE IInv'
  OBVIOUS
<1> USE PipelineAssumption DEF IInv
<1>0. /\ jobs \in [Urls -> RowType]
      /\ \A u \in Urls : RowOK(u, jobs[u])
  BY DEF RowsOK
<1>a. ASSUME UNCHANGED <<jobs, clock, lists, insert, child>>
      PROVE  RowsOK' /\ RestOK' /\ ChildOK'
  BY <1>a DEF RowsOK, RestOK, ChildOK
<1>1. ASSUME NEW u \in Urls, FilterStart(u) PROVE IInv'
  <2>1. FilterOK'
    BY <1>1 DEF FilterStart, FilterOK
  <2> QED BY <1>1, <1>a, <2>1 DEF FilterStart
<1>2. CASE FilterGetJob
  <2>1. CASE jobs[filter.url].state = "pending"
    <3>1. filter.url \in Urls /\ filter.attempt \in 1 .. MaxAttempts
      BY <1>2 DEF FilterOK, FilterGetJob
    <3>2. RowOK(filter.url, jobs[filter.url])
      BY <1>0, <3>1
    <3>3. /\ filter' = [pc |-> "group", url |-> filter.url,
                        attempt |-> filter.attempt,
                        job |-> DomainJob(filter.url, jobs[filter.url])]
          /\ UNCHANGED <<jobs, clock, lists, insert, child>>
      BY <1>2, <2>1 DEF FilterGetJob
    <3>4. /\ DomainJob(filter.url, jobs[filter.url]).attempts = 0
          /\ DomainJob(filter.url, jobs[filter.url]).description
               = jobs[filter.url].description
      BY <2>1, <3>2 DEF DomainJob, RowOK
    <3> DEFINE dj == DomainJob(filter.url, jobs[filter.url])
    <3> HIDE DEF dj
    <3>5. FilterOK'
      BY <2>1, <3>1, <3>3, <3>4 DEF FilterOK, FilterReads
    <3> QED BY <3>3, <3>5, <1>a
  <2>2. CASE jobs[filter.url].state # "pending"
    <3>1. /\ filter' = IdleFilter
          /\ UNCHANGED <<jobs, clock, lists, insert, child>>
      BY <1>2, <2>2 DEF FilterGetJob
    <3>2. FilterOK'
      BY <3>1 DEF FilterOK, IdleFilter
    <3> QED BY <3>1, <3>2, <1>a
  <2> QED BY <2>1, <2>2
<1>3. CASE FilterListCandidates
  <2>1. FilterOK'
    BY <1>3 DEF FilterListCandidates, FilterOK, FilterReads
  <2> QED BY <1>3, <2>1, <1>a DEF FilterListCandidates
<1>4. CASE FilterGetLists
  <2> DEFINE d == PendingDecision(filter.url, filter.job, filter.loser, lists)
  <2>1. /\ filter.url \in Urls /\ filter.attempt \in 1 .. MaxAttempts
        /\ FilterReads(filter.url, filter.job)
    BY <1>4 DEF FilterOK, FilterGetLists
  <2>2. filter.job.attempts = 0 /\ filter.job.description \in Texts
    <3>1. jobs[filter.url] \in RowType
      BY <1>0, <2>1
    <3> QED BY <2>1, <3>1 DEF FilterReads, RowType, Texts
  <2>3. /\ DecisionOK(filter.url, d)
        /\ d.attempts = 0
        /\ d.state = "needs_detail" => filter.job.description = NoText
        /\ d.state = "ready" => d.description # NoText
        /\ PersistDescription(d) => d.description = filter.job.description
    BY <2>1, <2>2, PendingDecisionOK
  <2>4. /\ filter' = [pc |-> "persist", url |-> filter.url,
                      attempt |-> filter.attempt, job |-> filter.job,
                      decision |-> d]
        /\ UNCHANGED <<jobs, clock, lists, insert, child>>
    BY <1>4 DEF FilterGetLists
  <2> HIDE DEF d
  <2>5. FilterOK'
    BY <2>1, <2>3, <2>4 DEF FilterOK, FilterReads, DecisionOK
  <2> QED BY <2>4, <2>5, <1>a
<1>5. CASE FilterPersist
  <2> DEFINE u == filter.url
             d == filter.decision
  <2>1. /\ u \in Urls /\ filter.attempt \in 1 .. MaxAttempts
        /\ jobs[u].state \notin {"absent", "needs_detail"}
        /\ DecisionOK(u, d)
        /\ d.attempts = 0
        /\ d.state = "needs_detail" => jobs[u].description = NoText
        /\ PersistDescription(d) => d.description = jobs[u].description
    BY <1>5 DEF FilterOK, FilterReads, FilterPersist
  <2>2. /\ jobs' = UpdateJobNotifyState(jobs, u, d)
        /\ filter' = [pc |-> "report", url |-> u, attempt |-> filter.attempt]
        /\ child' = child
        /\ UNCHANGED <<clock, lists, insert>>
    BY <1>5 DEF FilterPersist
  <2>3. d \in DecisionType
    BY <2>1 DEF DecisionOK
  <2> HIDE DEF u, d
  <2>4. /\ jobs' \in [Urls -> RowType]
        /\ \A v \in Urls \ {u} : jobs'[v] = jobs[v]
        /\ jobs'[u].state = d.state
        /\ jobs'[u].reason = d.reason
        /\ jobs'[u].attempts = d.attempts
        /\ jobs'[u].description = IF PersistDescription(d)
                                  THEN d.description ELSE jobs[u].description
    BY <1>0, <2>1, <2>2, <2>3, UpdateFacts
  <2>5. jobs'[u].description = jobs[u].description
    BY <2>1, <2>4
  <2>6. d.state \in {"rejected", "needs_detail", "ready"}
    BY <2>3 DEF DecisionType
  <2>7. RowOK(u, jobs'[u])
    BY <2>1, <2>4, <2>5, <2>6 DEF RowOK, DecisionOK
  <2>8. RowsOK'
    BY <2>4, <2>7, RowsStep
  <2>9. ChildOK'
    BY <2>1, <2>2, <2>4, <2>5, <2>6, ChildStable
  <2>10. RestOK'
    BY <2>2 DEF RestOK
  <2>11. FilterOK'
    BY <2>1, <2>2, <2>4, <2>6 DEF FilterOK
  <2> QED BY <2>8, <2>9, <2>10, <2>11
<1>6. CASE FilterDone
  <2>1. FilterOK'
    BY <1>6 DEF FilterDone, FilterOK, IdleFilter
  <2> QED BY <1>6, <2>1, <1>a DEF FilterDone
<1>7. CASE FilterAttemptLost
  <2>1. filter.url \in Urls /\ filter.attempt \in 1 .. MaxAttempts
        /\ jobs[filter.url].state # "absent"
    BY <1>7 DEF FilterAttemptLost, FilterOK
  <2>2. FilterOK'
    BY <1>7, <2>1 DEF FilterAttemptLost, FilterOK, IdleFilter
  <2> QED BY <1>7, <2>2, <1>a DEF FilterAttemptLost
<1> QED
  BY <1>1, <1>2, <1>3, <1>4, <1>5, <1>6, <1>7 DEF FilterStep

LEMMA ChildInv == IInv /\ ChildStep => IInv'
<1> SUFFICES ASSUME IInv, ChildStep PROVE IInv'
  OBVIOUS
<1> USE PipelineAssumption DEF IInv
<1>0. /\ jobs \in [Urls -> RowType]
      /\ \A u \in Urls : RowOK(u, jobs[u])
  BY DEF RowsOK
<1>a. ASSUME UNCHANGED <<jobs, clock, lists, insert, filter>>
      PROVE  RowsOK' /\ RestOK' /\ FilterOK'
  BY <1>a DEF RowsOK, RestOK, FilterOK, FilterReads
<1>b. ASSUME child' = IdleChild PROVE ChildOK'
  BY <1>b DEF ChildOK, IdleChild
<1>1. ASSUME NEW u \in Urls, ChildStart(u) PROVE IInv'
  <2>1. RowOK(u, jobs[u])
    BY <1>0
  <2>2. ChildOK'
    BY <1>1, <2>1 DEF ChildStart, ChildOK, RowOK
  <2> QED BY <1>1, <1>a, <2>2 DEF ChildStart
<1>2. CASE ChildLoadJob
  <2>1. CASE jobs[child.url].state = "needs_detail"
    <3> DEFINE dj == DomainJob(child.url, jobs[child.url])
    <3>1. child.url \in Urls /\ Posting[child.url].source = "LINKEDIN"
      BY <1>2 DEF ChildLoadJob, ChildOK
    <3>2. RowOK(child.url, jobs[child.url])
      BY <1>0, <3>1
    <3>3. /\ dj.attempts = jobs[child.url].attempts
          /\ dj.description = NoText
      BY <2>1, <3>2 DEF DomainJob, RowOK
    <3>4. /\ child' = [pc |-> "lists", url |-> child.url, job |-> dj]
          /\ UNCHANGED <<jobs, clock, lists, insert, filter>>
      BY <1>2, <2>1 DEF ChildLoadJob
    <3> HIDE DEF dj
    <3>5. ChildOK'
      BY <2>1, <3>1, <3>3, <3>4 DEF ChildOK
    <3> QED BY <3>4, <3>5, <1>a
  <2>2. CASE jobs[child.url].state # "needs_detail"
    BY <1>2, <2>2, <1>a, <1>b DEF ChildLoadJob
  <2> QED BY <2>1, <2>2
(* The row of a child that fetches, and what its decisions must satisfy.   *)
<1>c. ASSUME child.pc \in {"lists", "fetch"}
      PROVE  /\ child.url \in Urls
             /\ Posting[child.url].source = "LINKEDIN"
             /\ jobs[child.url].state = "needs_detail"
             /\ child.job.attempts = jobs[child.url].attempts
             /\ child.job.attempts \in 0 .. MaxDetailAttempts - 1
             /\ child.job.description = NoText
  <2>1. /\ child.url \in Urls
        /\ Posting[child.url].source = "LINKEDIN"
        /\ jobs[child.url].state = "needs_detail"
        /\ child.job.attempts = jobs[child.url].attempts
        /\ child.job.description = NoText
    BY <1>c DEF ChildOK
  <2>2. RowOK(child.url, jobs[child.url])
    BY <1>0, <2>1
  <2>3. child.job.attempts \in 0 .. MaxDetailAttempts - 1
    BY <2>1, <2>2 DEF RowOK, RowType, MaxDetailAttempts
  <2> QED BY <2>1, <2>3
<1>d. ASSUME child.pc \in {"lists", "fetch"}, NEW d, child' = Saving(d),
             UNCHANGED <<jobs, clock, lists, insert, filter>>,
             DecisionOK(child.url, d),
             d.state = "ready" => d.description # NoText,
             d.reason \in {"description", "remote_lie"} => d.description # NoText
      PROVE  IInv'
  <2>1. ChildOK'
    BY <1>d, <1>c DEF Saving, ChildOK, DecisionOK
  <2> QED BY <1>d, <1>a, <2>1
<1>3. CASE ChildLoadLists
  <2>1. Posting[child.url].source = "LINKEDIN" /\ child.pc = "lists"
    BY <1>3, <1>c DEF ChildLoadLists
  <2>2. /\ child' = [pc |-> "fetch", url |-> child.url, job |-> child.job,
                     lists |-> lists, tries |-> 1]
        /\ UNCHANGED <<jobs, clock, lists, insert, filter>>
    BY <1>3, <2>1 DEF ChildLoadLists, Fetching
  <2>3. ChildOK'
    BY <2>1, <2>2, <1>c DEF ChildOK
  <2> QED BY <2>2, <2>3, <1>a
<1>4. CASE ChildLockBusy
  <2>1. ASSUME child' = Fetching(child.job, child.lists, child.tries + 1)
        PROVE  ChildOK'
    <3>1. /\ child'.pc = "fetch" /\ child'.url = child.url
          /\ child'.job = child.job /\ child.pc = "fetch" /\ jobs' = jobs
      BY <1>4, <2>1 DEF ChildLockBusy, Fetching
    <3> QED BY <3>1, <1>c DEF ChildOK
  <2> QED BY <1>4, <2>1, <1>a, <1>b DEF ChildLockBusy
<1>5. CASE ChildFetchFailed
  <2> DEFINE d == OnDetailFetchFailure(child.job)
  <2>1. child.pc = "fetch" /\ child' = Saving(d)
        /\ UNCHANGED <<jobs, clock, lists, insert, filter>>
    BY <1>5 DEF ChildFetchFailed
  <2>2. /\ DecisionOK(child.url, d)
        /\ d.state # "ready"
        /\ d.reason \notin {"description", "remote_lie"}
    BY <2>1, <1>c, FetchFailureOK
  <2> HIDE DEF d
  <2> QED BY <2>1, <2>2, <1>d
<1>6. CASE ChildFetched
  <2> DEFINE text == Posting[child.url].detail
             job == [child.job EXCEPT !.description = text]
             d == FilterAfterDescription(job, child.lists)
  <2>1. /\ child.pc = "fetch" /\ child' = Saving(d) /\ text # NoText
        /\ UNCHANGED <<jobs, clock, lists, insert, filter>>
    BY <1>6 DEF ChildFetched
  <2>2. text \in Texts /\ job.attempts \in 0 .. MaxDetailAttempts
    BY <2>1, <1>c DEF Texts, MaxDetailAttempts
  <2>3. job.description = text
    BY <2>1, <1>c DEF ChildOK
  <2>c. child.url \in Urls
    BY <2>1, <1>c
  <2> HIDE DEF job, text
  <2>4. /\ DecisionOK(child.url, d)
        /\ d.description = text
    BY <2>1, <2>2, <2>3, <2>c, AfterDescriptionOK
  <2> HIDE DEF d
  <2> QED BY <2>1, <2>4, <1>d
<1>7. CASE ChildFail
  BY <1>7, <1>a, <1>b DEF ChildFail
<1>8. CASE ChildSave
  <2> DEFINE u == child.url
             d == child.decision
  <2>1. /\ child.pc = "save" /\ u \in Urls /\ jobs[u].state # "absent"
        /\ Posting[u].source = "LINKEDIN"
        /\ DecisionOK(u, d)
        /\ child.saved \in BOOLEAN
        /\ d.state = "ready" => d.description # NoText
        /\ d.reason \in {"description", "remote_lie"} => d.description # NoText
        /\ ~child.saved => jobs[u].state = "needs_detail"
        /\ child.saved =>
             /\ d.state = "needs_detail" => jobs[u].state = "needs_detail"
             /\ PersistDescription(d) => jobs[u].description = d.description
        /\ child.attempt \in 1 .. MaxAttempts
    BY <1>8 DEF ChildSave, ChildOK
  <2>2. /\ jobs' = UpdateJobNotifyState(jobs, u, d)
        /\ child' = [child EXCEPT !.pc = "report", !.saved = TRUE]
        /\ filter' = filter
        /\ UNCHANGED <<clock, lists, insert>>
    BY <1>8 DEF ChildSave
  <2>3. d \in DecisionType
    BY <2>1 DEF DecisionOK
  <2>4. /\ jobs' \in [Urls -> RowType]
        /\ \A v \in Urls \ {u} : jobs'[v] = jobs[v]
        /\ jobs'[u].state = d.state
        /\ jobs'[u].reason = d.reason
        /\ jobs'[u].attempts = d.attempts
        /\ jobs'[u].description = IF PersistDescription(d)
                                  THEN d.description ELSE jobs[u].description
    BY <1>0, <2>1, <2>2, <2>3, UpdateFacts
  <2>5. d.state \in {"rejected", "needs_detail", "ready"}
    BY <2>3 DEF DecisionType
  <2>6. d.state = "needs_detail" => ~PersistDescription(d)
    BY <2>1 DEF DecisionOK, PersistDescription, NoReason
  <2>7. d.state = "needs_detail" => jobs[u].state = "needs_detail"
    BY <2>1
  <2>8. RowOK(u, jobs[u])
    BY <1>0, <2>1
  <2>9. RowOK(u, jobs'[u])
    BY <2>1, <2>4, <2>5, <2>6, <2>7, <2>8 DEF RowOK, DecisionOK
  <2>10. RowsOK'
    BY <2>4, <2>9, RowsStep
  <2>11. /\ child'.pc = "report" /\ child'.url = u /\ child'.decision = d
         /\ child'.saved = TRUE /\ child'.attempt = child.attempt
    BY <2>1, <2>2 DEF ChildOK
  <2>12. ChildOK'
    BY <2>1, <2>4, <2>5, <2>11 DEF ChildOK, DecisionOK
  <2>13. jobs[u].state # "needs_detail" =>
           jobs'[u].description = jobs[u].description
    BY <2>1, <2>4
  <2>14. jobs[u].state \notin {"absent", "needs_detail"} =>
           jobs'[u].state \notin {"absent", "needs_detail"}
    BY <2>4, <2>5, <2>7
  <2>15. FilterOK'
    BY <2>1, <2>2, <2>4, <2>5, <2>13, <2>14, FilterStable
  <2>16. RestOK'
    BY <2>2 DEF RestOK
  <2> QED BY <2>10, <2>12, <2>15, <2>16
<1>9. CASE ChildDone
  BY <1>9, <1>a, <1>b DEF ChildDone
<1>10. CASE ChildSaveLost
  <2>1. ASSUME child.attempt < MaxAttempts,
               child' = [child EXCEPT !.pc = "save", !.attempt = @ + 1]
        PROVE  ChildOK'
    <3>1. child.pc \in {"save", "report"} /\ jobs' = jobs
      BY <1>10 DEF ChildSaveLost
    <3>2. child.attempt \in 1 .. MaxAttempts
      BY <3>1 DEF ChildOK
    <3>3. /\ child'.pc = "save" /\ child'.url = child.url
          /\ child'.decision = child.decision /\ child'.saved = child.saved
          /\ child'.attempt = child.attempt + 1
      BY <2>1, <3>1 DEF ChildOK
    <3>4. child'.attempt \in 1 .. MaxAttempts
      BY <2>1, <3>2, <3>3
    <3> QED BY <3>1, <3>3, <3>4 DEF ChildOK, DecisionOK
  <2> QED BY <1>10, <2>1, <1>a, <1>b DEF ChildSaveLost
<1> QED
  BY <1>1, <1>2, <1>3, <1>4, <1>5, <1>6, <1>7, <1>8, <1>9, <1>10 DEF ChildStep

LEMMA OperatorInv == IInv /\ Operator => IInv'
<1> SUFFICES ASSUME IInv, Operator PROVE IInv'
  OBVIOUS
<1> USE PipelineAssumption DEF IInv
<1>0. /\ jobs \in [Urls -> RowType]
      /\ \A u \in Urls : RowOK(u, jobs[u])
  BY DEF RowsOK
<1>1. ASSUME NEW u \in Urls, NEW action \in Reviewed, Review(u, action)
      PROVE  IInv'
  <2>1. /\ jobs' \in [Urls -> RowType]
        /\ \A v \in Urls \ {u} : jobs'[v] = jobs[v]
        /\ jobs'[u].state = action
        /\ jobs'[u].reason = jobs[u].reason
        /\ jobs'[u].attempts = jobs[u].attempts
        /\ jobs'[u].description = jobs[u].description
    BY <1>0, <1>1, ReviewFacts DEF Review
  <2>2. /\ RowOK(u, jobs[u]) /\ jobs[u].state = "ready"
        /\ filter' = filter /\ child' = child
        /\ UNCHANGED <<clock, lists, insert>>
    BY <1>0, <1>1 DEF Review
  <2>3. RowOK(u, jobs'[u])
    BY <2>1, <2>2 DEF RowOK, Reviewed
  <2>4. RowsOK'
    BY <2>1, <2>3, RowsStep
  <2>5. FilterOK' /\ ChildOK'
    BY <2>1, <2>2, FilterStable, ChildStable DEF Reviewed
  <2> QED BY <2>2, <2>4, <2>5 DEF RestOK
<1>2. ASSUME NEW u \in Urls, ReturnToReview(u) PROVE IInv'
  <2>1. /\ jobs' \in [Urls -> RowType]
        /\ \A v \in Urls \ {u} : jobs'[v] = jobs[v]
        /\ jobs'[u].state = "ready"
        /\ jobs'[u].reason = NoReason
        /\ jobs'[u].attempts = jobs[u].attempts
        /\ jobs'[u].description = jobs[u].description
    BY <1>0, <1>2, ReturnFacts DEF ReturnToReview
  <2>2. /\ RowOK(u, jobs[u]) /\ jobs[u].state \in Reviewed \cup {"rejected"}
        /\ filter' = filter /\ child' = child
        /\ UNCHANGED <<clock, lists, insert>>
    BY <1>0, <1>2 DEF ReturnToReview, CanReturn
  <2>3. RowOK(u, jobs'[u])
    BY <2>1, <2>2 DEF RowOK
  <2>4. RowsOK'
    BY <2>1, <2>3, RowsStep
  <2>5. FilterOK' /\ ChildOK'
    BY <2>1, <2>2, FilterStable, ChildStable DEF Reviewed
  <2> QED BY <2>2, <2>4, <2>5 DEF RestOK
<1>3. CASE ReEvaluate
  <2>1. /\ jobs' \in [Urls -> RowType]
        /\ \A u \in Urls :
             IF jobs[u].state = "rejected"
             THEN /\ jobs'[u].state = "pending"
                  /\ jobs'[u].reason = NoReason
                  /\ jobs'[u].attempts = 0
                  /\ jobs'[u].description = jobs[u].description
             ELSE jobs'[u] = jobs[u]
    BY <1>0, <1>3, ReEvaluateFacts DEF ReEvaluate
  <2>2. /\ filter' = filter /\ child' = child
        /\ UNCHANGED <<clock, lists, insert>>
    BY <1>3 DEF ReEvaluate
  <2>3. \A u \in Urls : jobs'[u] = jobs[u] \/ RowOK(u, jobs'[u])
    BY <2>1 DEF RowOK
  <2>4. RowsOK'
    BY <2>1, <2>3, RowsStep
  <2>5. FilterOK' /\ ChildOK'
    BY <2>1, <2>2, FilterStable, ChildStable
  <2> QED BY <2>2, <2>4, <2>5 DEF RestOK
<1>4. ASSUME NEW l \in ListChoices, ReplaceLists(l) PROVE IInv'
  BY <1>4 DEF ReplaceLists, RowsOK, RestOK, FilterOK, FilterReads, ChildOK
<1> QED
  BY <1>1, <1>2, <1>3, <1>4 DEF Operator, Reviewed

(* The invariant holds initially and is kept by every step.                *)
THEOREM Invariance == Spec => []IInv
<1>1. Init => IInv
  BY InitInv
<1>2. IInv /\ [Next]_vars => IInv'
  <2>1. IInv /\ UNCHANGED vars => IInv'
    BY DEF vars, IInv, RowsOK, RestOK, FilterOK, FilterReads, ChildOK
  <2> QED BY <2>1, ScrapeInv, FilterInv, ChildInv, OperatorInv DEF Next
<1> QED BY <1>1, <1>2, PTL DEF Spec

(* Every variable keeps its type.                                          *)
THEOREM TypeCorrect == Spec => []TypeOK
<1>1. IInv => TypeOK
  BY DEF IInv, RowsOK, RestOK, FilterOK, ChildOK, TypeOK, DecisionOK
<1> QED BY <1>1, Invariance, PTL

(* A row is rejected exactly when it has a reason, whoever wrote it last.  *)
THEOREM ReasonsAreConsistent == Spec => []RejectedHasReason
<1>1. IInv => RejectedHasReason
  BY DEF IInv, RowsOK, RowOK, RejectedHasReason
<1> QED BY <1>1, Invariance, PTL

(* A row that waits for detail has a source that can be asked, an attempt  *)
(* left and no text, even when saves are repeated after their commit.      *)
THEOREM WaitingRowsAreFetchable == Spec => []NeedsDetailIsFetchable
<1>1. IInv => NeedsDetailIsFetchable
  BY DEF IInv, RowsOK, RowOK, NeedsDetailIsFetchable
<1> QED BY <1>1, Invariance, PTL
----------------------------------------------------------------------------
(* Texts.                                                                  *)

(* What each step may do to the text of a row, and to a row that the       *)
(* filters have yet to decide on.                                          *)
LEMMA TextStep ==
  ASSUME IInv, [Next]_vars, NEW u \in Urls
  PROVE  /\ jobs[u].description # NoText => jobs'[u].description # NoText
         /\ jobs[u].state \in {"pending", "needs_detail"} /\ jobs'[u].state = "ready"
              => jobs'[u].description # NoText
<1> USE DEF IInv
<1>0. jobs \in [Urls -> RowType] /\ RowOK(u, jobs[u])
  BY DEF RowsOK
<1>1. CASE jobs' = jobs
  BY <1>1
<1>2. ASSUME NEW s \in Scrapers, InsertCommit(s)
      PROVE  /\ jobs[u].description # NoText => jobs'[u].description # NoText
             /\ jobs[u].state \in {"pending", "needs_detail"} => jobs'[u].state # "ready"
  <2>1. /\ insert[s].url \in Urls /\ insert[s].intention \in Intentions
        /\ insert[s].created \in Nat
        /\ jobs' = InsertJobIfNew(jobs, insert[s].url, insert[s].intention,
                                  insert[s].created)
    BY <1>2 DEF RestOK, InsertCommit, NoInsert
  <2>2. \A v \in Urls \ {insert[s].url} : jobs'[v] = jobs[v]
    BY <1>0, <2>1, InsertFacts
  <2>3. /\ jobs[insert[s].url].state = "absent" => jobs'[insert[s].url].state = "pending"
        /\ jobs[insert[s].url].state # "absent" =>
             /\ jobs'[insert[s].url].state = jobs[insert[s].url].state
             /\ jobs'[insert[s].url].description = jobs[insert[s].url].description
    BY <1>0, <2>1, InsertFacts
  <2> QED BY <1>0, <2>2, <2>3 DEF RowOK
<1>3. CASE FilterPersist
  <2>1. /\ filter.url \in Urls /\ filter.decision \in DecisionType
        /\ jobs' = UpdateJobNotifyState(jobs, filter.url, filter.decision)
        /\ filter.decision.state = "ready" => filter.decision.description # NoText
        /\ PersistDescription(filter.decision) =>
             filter.decision.description = jobs[filter.url].description
    BY <1>3 DEF FilterPersist, FilterOK, FilterReads, DecisionOK
  <2>2. /\ \A v \in Urls \ {filter.url} : jobs'[v] = jobs[v]
        /\ jobs'[filter.url].state = filter.decision.state
        /\ jobs'[filter.url].description =
             IF PersistDescription(filter.decision)
             THEN filter.decision.description ELSE jobs[filter.url].description
    BY <1>0, <2>1, UpdateFacts
  <2>3. filter.decision.state = "ready" => PersistDescription(filter.decision)
    BY DEF PersistDescription
  <2> QED BY <2>1, <2>2, <2>3
<1>4. CASE ChildSave
  <2>1. /\ child.url \in Urls /\ child.decision \in DecisionType
        /\ jobs' = UpdateJobNotifyState(jobs, child.url, child.decision)
        /\ child.decision.state = "ready" => child.decision.description # NoText
        /\ PersistDescription(child.decision) => child.decision.description # NoText
    BY <1>4 DEF ChildSave, ChildOK, DecisionOK, PersistDescription
  <2>2. /\ \A v \in Urls \ {child.url} : jobs'[v] = jobs[v]
        /\ jobs'[child.url].state = child.decision.state
        /\ jobs'[child.url].description =
             IF PersistDescription(child.decision)
             THEN child.decision.description ELSE jobs[child.url].description
    BY <1>0, <2>1, UpdateFacts
  <2>3. child.decision.state = "ready" => PersistDescription(child.decision)
    BY DEF PersistDescription
  <2> QED BY <2>1, <2>2, <2>3
<1>5. CASE Operator
  <2>1. ASSUME NEW v \in Urls, NEW action \in Reviewed, Review(v, action)
        PROVE  /\ jobs'[u].description = jobs[u].description
               /\ jobs'[u].state = "ready" => jobs[u].state = "ready"
    BY <1>0, <2>1, ReviewFacts DEF Review, Reviewed
  <2>2. ASSUME NEW v \in Urls, ReturnToReview(v)
        PROVE  /\ jobs'[u].description = jobs[u].description
               /\ jobs[u].state \in {"pending", "needs_detail"} => jobs'[u] = jobs[u]
    BY <1>0, <2>2, ReturnFacts DEF ReturnToReview, CanReturn, Reviewed
  <2>3. CASE ReEvaluate
    BY <1>0, <2>3, ReEvaluateFacts DEF ReEvaluate
  <2>4. ASSUME NEW l \in ListChoices, ReplaceLists(l) PROVE jobs' = jobs
    BY <2>4 DEF ReplaceLists
  <2> QED BY <1>1, <1>5, <2>1, <2>2, <2>3, <2>4 DEF Operator, Reviewed
<1> QED
  BY <1>1, <1>2, <1>3, <1>4, <1>5
  DEF Next, vars, Scrape, InsertBegin, InsertFail,
      FilterStep, FilterStart, FilterGetJob, FilterListCandidates, FilterGetLists,
      FilterDone, FilterAttemptLost,
      ChildStep, ChildStart, ChildLoadJob, ChildLoadLists, ChildLockBusy,
      ChildFetchFailed, ChildFetched, ChildFail, ChildDone, ChildSaveLost

(* A text that was fetched or scraped is never erased, even by a save that *)
(* is repeated after its completion was lost (persistFilterDecision,       *)
(* UpdateJobNotifyState): every decision that writes the column carries    *)
(* the text, and one that rejects for another reason leaves it alone.      *)
THEOREM TextsAreKept == Spec => TextNeverErased
<1>1. IInv /\ [Next]_vars =>
        \A u \in Urls : jobs[u].description # NoText => jobs'[u].description # NoText
  BY TextStep
<1> QED BY <1>1, Invariance, PTL DEF Spec, TextNeverErased

(* What the filter and the detail child make ready has a text that the     *)
(* description filters have seen; only the operator may ask to look at     *)
(* a row without one (FilterPending, FilterAfterDescription).              *)
THEOREM OnlyTextsArePromoted == Spec => FiltersPromoteOnlyTexts
<1>1. IInv /\ [Next]_vars =>
        \A u \in Urls :
          jobs[u].state \in {"pending", "needs_detail"} /\ jobs'[u].state = "ready"
            => jobs'[u].description # NoText
  BY TextStep
<1> QED BY <1>1, Invariance, PTL DEF Spec, FiltersPromoteOnlyTexts

----------------------------------------------------------------------------
(* Duplicates.                                                             *)

(* Every set of natural numbers that is not empty has a least element.     *)
LEMMA LeastNatural ==
  ASSUME NEW T \in SUBSET Nat, T # {}
  PROVE  \E n \in T : \A m \in T : n <= m
<1> DEFINE Less == OpToRel(<, Nat)
<1>1. IsWellFoundedOn(Less, Nat)
  BY NatLessThanWellFounded
<1>2. Less = {ss \in Nat \X Nat : ss[1] < ss[2]}
  BY DEF OpToRel
<1> HIDE DEF Less
<1>3. \A a, b \in Nat : a < b => <<a, b>> \in Less
  BY <1>2
<1>4. PICK n \in T : \A m \in T : ~(<<m, n>> \in Less)
  BY <1>1, WFMin
<1>5. ASSUME NEW m \in T PROVE n <= m
  <2>1. m \in Nat /\ n \in Nat /\ ~(m < n)
    BY <1>3, <1>4
  <2> QED BY <2>1
<1> QED BY <1>5

(* Row w came before row u: the order of created_at, then id.              *)
Before(w, u) ==
  \/ jobs[w].created < jobs[u].created
  \/ jobs[w].created = jobs[u].created /\ w < u

(* A set of rows that is not empty has a first one.                        *)
LEMMA FirstRow ==
  ASSUME jobs \in [Urls -> RowType], NEW G \in SUBSET Urls, G # {}
  PROVE  \E w \in G : \A v \in G : v # w => Before(w, v) /\ ~Before(v, w)
<1>0. \A v \in Urls : v \in Nat /\ jobs[v].created \in Nat
  BY UrlsAssumption DEF RowType
<1>1. PICK a \in G : \A v \in G : jobs[a].created <= jobs[v].created
  <2> DEFINE T == {jobs[v].created : v \in G}
  <2>1. T \in SUBSET Nat /\ T # {}
    BY <1>0
  <2>2. PICK n \in T : \A m \in T : n <= m
    BY <2>1, LeastNatural
  <2> QED BY <2>2
<1> DEFINE F == {v \in G : jobs[v].created = jobs[a].created}
<1>2. PICK w \in F : \A v \in F : w <= v
  <2>1. F \in SUBSET Nat /\ F # {}
    BY <1>0
  <2> HIDE DEF F
  <2> QED BY <2>1, LeastNatural
<1>3. ASSUME NEW v \in G, v # w PROVE Before(w, v) /\ ~Before(v, w)
  <2>1. /\ jobs[v].created \in Nat /\ jobs[w].created \in Nat
        /\ v \in Nat /\ w \in Nat
        /\ jobs[w].created <= jobs[v].created
        /\ jobs[w].created = jobs[v].created => w <= v
    BY <1>0, <1>1, <1>2
  <2> QED BY <1>3, <2>1 DEF Before
<1> QED BY <1>2, <1>3

(* The stored rows of u's title and company. *)
Group(u) ==
  {v \in Stored(jobs) : /\ Posting[v].title = Posting[u].title
                        /\ Posting[v].company = Posting[u].company}

HasRival(u) == \E w \in Group(u) : Before(w, u)

(* Whoever is rejected as a duplicate, or is about to be, lost to a row    *)
(* that came before it; nobody deletes that row or changes its stamps.     *)
RivalInv ==
  /\ \A u \in Urls : jobs[u].reason = "duplicate" => HasRival(u)
  /\ filter.pc \in {"group", "lists"} =>
       /\ filter.job.id = filter.url
       /\ filter.job.created = jobs[filter.url].created
       /\ filter.job.title = Posting[filter.url].title
       /\ filter.job.company = Posting[filter.url].company
  /\ filter.pc = "lists" =>
       /\ filter.loser \in BOOLEAN
       /\ filter.loser = TRUE => HasRival(filter.url)
  /\ filter.pc = "persist" =>
       (filter.decision.reason = "duplicate" => HasRival(filter.url))
  /\ child.pc \in {"save", "report"} => child.decision.reason # "duplicate"

(* A loser of the duplicate rule has a rival: the winner that the rule     *)
(* chooses exists, since the rows of a group have a first one, and it came *)
(* before every other row of the group, the loser among them.              *)
LEMMA LoserHasRival ==
  ASSUME IInv, NEW u \in Stored(jobs), NEW job,
         job.id = u, job.created = jobs[u].created,
         job.title = Posting[u].title, job.company = Posting[u].company,
         IsDuplicateLoser(job, WholeTable(jobs))
  PROVE  HasRival(u)
<1> DEFINE dj(v) == DomainJob(v, jobs[v])
           group == SameGroup(job, WholeTable(jobs))
<1>1. jobs \in [Urls -> RowType]
  BY DEF IInv, RowsOK
<1>2. group = {dj(v) : v \in Group(u)}
  BY DEF SameGroup, WholeTable, TitleCompanyKey, DomainJob, Group
<1>3. \A v : dj(v).id = v /\ dj(v).created = jobs[v].created
  BY DEF DomainJob
<1>4. \A v, w : Earlier(dj(w), dj(v)) <=> Before(w, v)
  BY <1>3 DEF Earlier, Before
<1>5. Group(u) \in SUBSET Urls /\ u \in Group(u)
  BY DEF Group, Stored
<1>6. PICK m \in Group(u) : \A v \in Group(u) : v # m => Before(m, v)
  BY <1>1, <1>5, FirstRow
<1> HIDE DEF dj, group
<1>7. dj(m) \in group /\ \A j \in group \ {dj(m)} : Earlier(dj(m), j)
  BY <1>2, <1>4, <1>6
<1> DEFINE w == DuplicateWinner(group)
<1>8. w \in group /\ \A j \in group \ {w} : Earlier(w, j)
  BY <1>7 DEF DuplicateWinner
<1>9. w.id # u
  BY DEF IsDuplicateLoser, group
<1> HIDE DEF w
<1>10. PICK x \in Group(u) : w = dj(x)
  BY <1>2, <1>8
<1>11. dj(u) \in group \ {w}
  BY <1>2, <1>3, <1>5, <1>9
<1>12. Before(x, u)
  BY <1>4, <1>8, <1>10, <1>11
<1> QED BY <1>10, <1>12 DEF HasRival

(* No step removes a row or changes its created_at.                        *)
LEMMA StampsAreKept ==
  ASSUME IInv, [Next]_vars, NEW u \in Stored(jobs)
  PROVE  jobs'[u].state # "absent" /\ jobs'[u].created = jobs[u].created
<1> USE DEF IInv
<1>0. /\ jobs \in [Urls -> RowType] /\ jobs[u] \in RowType
      /\ u \in Urls /\ jobs[u].state # "absent"
  BY DEF RowsOK, RowOK, Stored
<1>1. CASE jobs' = jobs
  BY <1>0, <1>1
<1>2. ASSUME NEW s \in Scrapers, InsertCommit(s)
      PROVE  jobs'[u].state # "absent" /\ jobs'[u].created = jobs[u].created
  <2>1. CASE insert[s].url = u
    <3>1. jobs' = [jobs EXCEPT ![u].intention =
                     IF insert[s].intention = "onsite" THEN "onsite"
                                                       ELSE jobs[u].intention]
      BY <1>0, <1>2, <2>1 DEF InsertCommit, InsertJobIfNew
    <3> QED BY <1>0, <3>1 DEF RowType
  <2>2. CASE insert[s].url # u
    BY <1>0, <1>2, <2>2 DEF InsertCommit, InsertJobIfNew
  <2> QED BY <2>1, <2>2
<1>3. ASSUME NEW v \in Urls, NEW d \in DecisionType,
             jobs' = UpdateJobNotifyState(jobs, v, d)
      PROVE  jobs'[u].state # "absent" /\ jobs'[u].created = jobs[u].created
  <2>1. jobs'[u] = jobs[u] \/ jobs'[u] = WithDecision(jobs[u], d)
    BY <1>0, <1>3 DEF UpdateJobNotifyState
  <2>2. /\ WithDecision(jobs[u], d).state = d.state
        /\ WithDecision(jobs[u], d).created = jobs[u].created
    BY <1>0 DEF WithDecision, RowType
  <2>3. d.state # "absent"
    BY DEF DecisionType
  <2> QED BY <1>0, <2>1, <2>2, <2>3
<1>4. CASE FilterPersist
  BY <1>3, <1>4 DEF FilterPersist, FilterOK, DecisionOK
<1>5. CASE ChildSave
  BY <1>3, <1>5 DEF ChildSave, ChildOK, DecisionOK
<1>6. CASE Operator
  <2>1. ASSUME NEW v \in Urls, NEW action \in Reviewed, Review(v, action)
        PROVE  jobs'[u].state # "absent" /\ jobs'[u].created = jobs[u].created
    <3>1. jobs' = [jobs EXCEPT ![v].state = action]
      BY <2>1 DEF Review, ReviewReadyJob
    <3> QED BY <1>0, <3>1 DEF RowType, Reviewed
  <2>2. ASSUME NEW v \in Urls, ReturnToReview(v)
        PROVE  jobs'[u].state # "absent" /\ jobs'[u].created = jobs[u].created
    <3>1. jobs' = [jobs EXCEPT ![v] = [jobs[v] EXCEPT !.state = "ready",
                                                      !.reason = NoReason]]
      BY <2>2 DEF ReturnToReview, ReturnJobToReview
    <3> QED BY <1>0, <3>1 DEF RowType
  <2>3. CASE ReEvaluate
    <3>1. jobs'[u] = jobs[u] \/ jobs'[u] = Forgiven(jobs[u])
      BY <1>0, <2>3 DEF ReEvaluate, ReEvaluateRejectedJobs
    <3>2. Forgiven(jobs[u]).state = "pending"
          /\ Forgiven(jobs[u]).created = jobs[u].created
      BY <1>0 DEF Forgiven, RowType
    <3> QED BY <1>0, <3>1, <3>2
  <2>4. ASSUME NEW l \in ListChoices, ReplaceLists(l) PROVE jobs' = jobs
    BY <2>4 DEF ReplaceLists
  <2> QED BY <1>1, <1>6, <2>1, <2>2, <2>3, <2>4 DEF Operator, Reviewed
<1> QED
  BY <1>1, <1>2, <1>4, <1>5, <1>6
  DEF Next, vars, Scrape, InsertBegin, InsertFail,
      FilterStep, FilterStart, FilterGetJob, FilterListCandidates, FilterGetLists,
      FilterDone, FilterAttemptLost,
      ChildStep, ChildStart, ChildLoadJob, ChildLoadLists, ChildLockBusy,
      ChildFetchFailed, ChildFetched, ChildFail, ChildDone, ChildSaveLost

LEMMA RivalIsKept ==
  ASSUME IInv, [Next]_vars, NEW u \in Stored(jobs), HasRival(u)
  PROVE  HasRival(u)'
<1>1. PICK w \in Group(u) : Before(w, u)
  BY DEF HasRival
<1>2. w \in Stored(jobs)
  BY DEF Group
<1>3. /\ jobs'[u].created = jobs[u].created
      /\ jobs'[w].created = jobs[w].created /\ jobs'[w].state # "absent"
  BY <1>2, StampsAreKept
<1>4. w \in Group(u)'
  BY <1>1, <1>2, <1>3 DEF Group, Stored
<1> QED BY <1>1, <1>3, <1>4 DEF HasRival, Before

(* Only the filter's UPDATE makes a row a duplicate.                       *)
LEMMA ReasonStep ==
  ASSUME IInv, RivalInv, [Next]_vars, NEW u \in Urls, jobs'[u].reason = "duplicate"
  PROVE  \/ jobs[u].reason = "duplicate"
         \/ /\ FilterPersist /\ u = filter.url
            /\ filter.decision.reason = "duplicate"
<1> USE DEF IInv
<1>0. jobs \in [Urls -> RowType] /\ RowOK(u, jobs[u])
  BY DEF RowsOK
<1>1. CASE jobs' = jobs
  BY <1>1
<1>2. ASSUME NEW s \in Scrapers, InsertCommit(s)
      PROVE  jobs[u].reason = "duplicate"
  <2>1. /\ insert[s].url \in Urls /\ insert[s].intention \in Intentions
        /\ insert[s].created \in Nat
        /\ jobs' = InsertJobIfNew(jobs, insert[s].url, insert[s].intention,
                                  insert[s].created)
    BY <1>2 DEF RestOK, InsertCommit, NoInsert
  <2>2. CASE u # insert[s].url
    <3>1. jobs'[u] = jobs[u]
      BY <1>0, <2>1, <2>2, InsertFacts
    <3> QED BY <3>1
  <2>3. CASE u = insert[s].url
    <3>1. jobs'[u].reason = NoReason \/ jobs'[u].reason = jobs[u].reason
      BY <1>0, <2>1, <2>3, InsertFacts
    <3> QED BY <3>1 DEF NoReason
  <2> QED BY <2>2, <2>3
<1>3. CASE FilterPersist
  <2>1. /\ filter.url \in Urls /\ filter.decision \in DecisionType
        /\ jobs' = UpdateJobNotifyState(jobs, filter.url, filter.decision)
    BY <1>3 DEF FilterPersist, FilterOK, DecisionOK
  <2>2. /\ \A v \in Urls \ {filter.url} : jobs'[v] = jobs[v]
        /\ jobs'[filter.url].reason = filter.decision.reason
    BY <1>0, <2>1, UpdateFacts
  <2> QED BY <1>3, <2>2
<1>4. CASE ChildSave
  <2>1. /\ child.url \in Urls /\ child.decision \in DecisionType
        /\ jobs' = UpdateJobNotifyState(jobs, child.url, child.decision)
        /\ child.decision.reason # "duplicate"
    BY <1>4 DEF ChildSave, ChildOK, DecisionOK, RivalInv
  <2>2. /\ \A v \in Urls \ {child.url} : jobs'[v] = jobs[v]
        /\ jobs'[child.url].reason = child.decision.reason
    BY <1>0, <2>1, UpdateFacts
  <2> QED BY <2>1, <2>2
<1>5. CASE Operator
  <2>1. ASSUME NEW v \in Urls, NEW action \in Reviewed, Review(v, action)
        PROVE  jobs'[u].reason = jobs[u].reason
    BY <1>0, <2>1, ReviewFacts DEF Review
  <2>2. ASSUME NEW v \in Urls, ReturnToReview(v)
        PROVE  jobs'[u].reason \in {jobs[u].reason, NoReason}
    BY <1>0, <2>2, ReturnFacts DEF ReturnToReview
  <2>3. CASE ReEvaluate
    <3>1. jobs'[u].reason \in {jobs[u].reason, NoReason}
      BY <1>0, <2>3, ReEvaluateFacts DEF ReEvaluate
    <3> QED BY <3>1 DEF NoReason
  <2>4. ASSUME NEW l \in ListChoices, ReplaceLists(l) PROVE jobs' = jobs
    BY <2>4 DEF ReplaceLists
  <2> QED BY <1>1, <1>5, <2>1, <2>2, <2>3, <2>4 DEF Operator, Reviewed, NoReason
<1> QED
  BY <1>1, <1>2, <1>3, <1>4, <1>5
  DEF Next, vars, Scrape, InsertBegin, InsertFail,
      FilterStep, FilterStart, FilterGetJob, FilterListCandidates, FilterGetLists,
      FilterDone, FilterAttemptLost,
      ChildStep, ChildStart, ChildLoadJob, ChildLoadLists, ChildLockBusy,
      ChildFetchFailed, ChildFetched, ChildFail, ChildDone, ChildSaveLost

(* Only the duplicate rule gives that reason.                              *)
LEMMA DuplicateMeansLoser ==
  ASSUME NEW u, NEW job, NEW loser \in BOOLEAN, NEW wordLists,
         PendingDecision(u, job, loser, wordLists).reason = "duplicate"
  PROVE  loser = TRUE
<1>1. OnDetailFetchFailure(job).reason # "duplicate"
  BY DEF OnDetailFetchFailure, Decide, NoReason
<1>2. FilterAfterDescription(job, wordLists).reason # "duplicate"
  BY <1>1 DEF FilterAfterDescription, Decide, NoReason
<1>3. loser # TRUE => FilterPending(job, loser, wordLists).reason # "duplicate"
  BY <1>2 DEF FilterPending, Decide, NoReason
<1> QED BY <1>3 DEF PendingDecision, Decide

(* The rivals of the rows in the table.                                    *)
LEMMA RowRivals ==
  ASSUME IInv, RivalInv, [Next]_vars, NEW u \in Urls, jobs'[u].reason = "duplicate"
  PROVE  HasRival(u)'
<1>1. RowOK(u, jobs[u])
  BY DEF IInv, RowsOK
<1>2. CASE jobs[u].reason = "duplicate"
  <2>1. u \in Stored(jobs)
    BY <1>1, <1>2 DEF RowOK, Stored, NoReason
  <2> QED BY <1>2, <2>1, RivalIsKept DEF RivalInv
<1>3. CASE FilterPersist /\ u = filter.url /\ filter.decision.reason = "duplicate"
  <2>1. u \in Stored(jobs)
    BY <1>3 DEF IInv, FilterOK, FilterPersist, Stored
  <2> QED BY <1>3, <2>1, RivalIsKept DEF RivalInv, FilterPersist
<1> QED BY <1>2, <1>3, ReasonStep

(* The rivals that the activity in flight relies on.                       *)
LEMMA FilterRivals ==
  ASSUME IInv, RivalInv, FilterStep PROVE RivalInv'
<1> USE DEF IInv
<1>0. [Next]_vars
  BY DEF Next
<1>1. \A u \in Urls : jobs'[u].reason = "duplicate" => HasRival(u)'
  BY <1>0, RowRivals
<1>2. child' = child
  BY DEF FilterStep, FilterStart, FilterGetJob, FilterListCandidates, FilterGetLists,
         FilterPersist, FilterDone, FilterAttemptLost
<1>3. CASE filter'.pc \notin {"group", "lists", "persist"}
  BY <1>1, <1>2, <1>3 DEF RivalInv
<1>4. CASE FilterGetJob /\ jobs[filter.url].state = "pending"
  <2>1. /\ filter' = [pc |-> "group", url |-> filter.url,
                      attempt |-> filter.attempt,
                      job |-> DomainJob(filter.url, jobs[filter.url])]
        /\ jobs' = jobs
    BY <1>4 DEF FilterGetJob
  <2>2. /\ filter'.pc = "group" /\ filter'.url = filter.url
        /\ filter'.job.id = filter.url
        /\ filter'.job.created = jobs[filter.url].created
        /\ filter'.job.title = Posting[filter.url].title
        /\ filter'.job.company = Posting[filter.url].company
    BY <2>1 DEF DomainJob
  <2> QED BY <1>1, <1>2, <2>1, <2>2 DEF RivalInv
<1>5. CASE FilterListCandidates
  <2>1. /\ filter' = [pc |-> "lists", url |-> filter.url,
                      attempt |-> filter.attempt, job |-> filter.job,
                      loser |-> IsDuplicateLoser(filter.job, WholeTable(jobs))]
        /\ filter.pc = "group" /\ jobs' = jobs
    BY <1>5 DEF FilterListCandidates
  <2>2. filter.url \in Stored(jobs)
    BY <2>1 DEF FilterOK, Stored
  <2>3. filter'.pc = "lists" /\ filter'.url = filter.url /\ filter'.job = filter.job
    BY <2>1
  <2>4. filter'.loser = IsDuplicateLoser(filter.job, WholeTable(jobs))
    BY <2>1
  <2>5. filter'.loser \in BOOLEAN
    BY <2>4 DEF IsDuplicateLoser
  <2>6. filter'.loser = TRUE => HasRival(filter.url)
    BY <2>1, <2>2, <2>4, LoserHasRival DEF RivalInv
  <2>7. HasRival(filter.url)' <=> HasRival(filter.url)
    BY <2>1, <2>3 DEF HasRival, Group, Stored, Before
  <2> QED BY <1>1, <1>2, <2>1, <2>3, <2>5, <2>6, <2>7 DEF RivalInv
<1>6. CASE FilterGetLists
  <2> DEFINE d == PendingDecision(filter.url, filter.job, filter.loser, lists)
  <2>1. /\ filter' = [pc |-> "persist", url |-> filter.url,
                      attempt |-> filter.attempt, job |-> filter.job,
                      decision |-> d]
        /\ filter.pc = "lists" /\ jobs' = jobs
    BY <1>6 DEF FilterGetLists
  <2>2. filter.loser \in BOOLEAN /\ (filter.loser = TRUE => HasRival(filter.url))
    BY <2>1 DEF RivalInv
  <2>3. d.reason = "duplicate" => HasRival(filter.url)
    BY <2>2, DuplicateMeansLoser
  <2> HIDE DEF d
  <2>4. filter'.pc = "persist" /\ filter'.url = filter.url /\ filter'.decision = d
    BY <2>1
  <2>5. HasRival(filter.url)' <=> HasRival(filter.url)
    BY <2>1, <2>4 DEF HasRival, Group, Stored, Before
  <2> QED BY <1>1, <1>2, <2>3, <2>4, <2>5 DEF RivalInv
<1>7. \/ filter'.pc \notin {"group", "lists", "persist"}
      \/ FilterGetJob /\ jobs[filter.url].state = "pending"
      \/ FilterListCandidates
      \/ FilterGetLists
  BY DEF FilterStep, FilterStart, FilterGetJob, FilterPersist, FilterDone,
         FilterAttemptLost, IdleFilter
<1> QED BY <1>3, <1>4, <1>5, <1>6, <1>7

(* The others keep the rows the filter's facts are about.                  *)
LEMMA OtherRivals ==
  ASSUME IInv, RivalInv, [Next]_vars, filter' = filter,
         child'.pc \in {"save", "report"} => child'.decision.reason # "duplicate"
  PROVE  RivalInv'
<1>1. \A u \in Urls : jobs'[u].reason = "duplicate" => HasRival(u)'
  BY RowRivals
<1>2. CASE filter.pc \in {"group", "lists", "persist"}
  <2>1. filter.url \in Stored(jobs)
    BY <1>2 DEF IInv, FilterOK, Stored
  <2>2. jobs'[filter.url].created = jobs[filter.url].created
    BY <2>1, StampsAreKept
  <2>3. HasRival(filter.url) => HasRival(filter.url)'
    BY <2>1, RivalIsKept
  <2> QED BY <1>1, <2>2, <2>3 DEF RivalInv
<1>3. CASE filter.pc \notin {"group", "lists", "persist"}
  BY <1>1, <1>3 DEF RivalInv
<1> QED BY <1>2, <1>3

LEMMA ChildRivals ==
  ASSUME IInv, RivalInv, ChildStep PROVE RivalInv'
<1>0. [Next]_vars /\ filter' = filter
  BY DEF Next, ChildStep, ChildStart, ChildLoadJob, ChildLoadLists, ChildLockBusy,
         ChildFetchFailed, ChildFetched, ChildFail, ChildSave, ChildDone, ChildSaveLost
<1>1. CASE child'.pc \notin {"save", "report"}
  BY <1>0, <1>1, OtherRivals
<1>2. ASSUME NEW d, child' = Saving(d), d.reason # "duplicate"
      PROVE  RivalInv'
  <2>1. child'.decision = d
    BY <1>2 DEF Saving
  <2> QED BY <1>0, <1>2, <2>1, OtherRivals
<1>3. CASE ChildSave \/ ChildSaveLost
  <2>1. child.pc \in {"save", "report"}
    BY <1>3 DEF ChildSave, ChildSaveLost
  <2>2. child' = IdleChild \/ child'.decision = child.decision
    <3>1. CASE ChildSave
      BY <3>1 DEF ChildSave
    <3>2. CASE child' = [child EXCEPT !.pc = "save", !.attempt = @ + 1]
      BY <3>2
    <3> QED BY <1>3, <3>1, <3>2 DEF ChildSaveLost
  <2>3. IdleChild.pc \notin {"save", "report"}
    BY DEF IdleChild
  <2> QED BY <1>0, <2>1, <2>2, <2>3, OtherRivals DEF RivalInv
<1>4. CASE ChildLoadLists
  <2>1. Decide("rejected", "unsupported_source", NoText, child.job.attempts).reason
          # "duplicate"
    BY DEF Decide
  <2>2. Fetching(child.job, lists, 1).pc = "fetch"
    BY DEF Fetching
  <2> QED BY <1>1, <1>2, <1>4, <2>1, <2>2 DEF ChildLoadLists
<1>5. CASE ChildFetchFailed
  <2>1. OnDetailFetchFailure(child.job).reason # "duplicate"
    BY DEF OnDetailFetchFailure, Decide, NoReason
  <2> QED BY <1>2, <1>5, <2>1 DEF ChildFetchFailed
<1>6. CASE ChildFetched
  <2> DEFINE job == [child.job EXCEPT !.description = Posting[child.url].detail]
             d == FilterAfterDescription(job, child.lists)
  <2>1. d.reason # "duplicate"
    BY DEF FilterAfterDescription, OnDetailFetchFailure, Decide, NoReason
  <2>2. child' = Saving(d)
    BY <1>6 DEF ChildFetched
  <2> HIDE DEF d
  <2> QED BY <1>2, <2>1, <2>2
<1>7. child'.pc \notin {"save", "report"}
        \/ ChildSave \/ ChildSaveLost \/ ChildLoadLists \/ ChildFetchFailed \/ ChildFetched
  BY DEF ChildStep, ChildStart, ChildLoadJob, ChildLockBusy, ChildFail, ChildDone,
         Fetching, IdleChild
<1> QED BY <1>1, <1>3, <1>4, <1>5, <1>6, <1>7

LEMMA RivalStep ==
  ASSUME IInv, RivalInv, [Next]_vars PROVE RivalInv'
<1>1. CASE Scrape \/ Operator \/ UNCHANGED vars
  <2>1. filter' = filter /\ child' = child
    BY <1>1 DEF Scrape, InsertBegin, InsertCommit, InsertFail, Operator, Review,
                ReturnToReview, ReEvaluate, ReplaceLists, vars
  <2> QED BY <2>1, OtherRivals DEF RivalInv
<1> QED BY <1>1, FilterRivals, ChildRivals DEF Next

(* The duplicate rule never drops a posting altogether: whatever the order *)
(* in which overlapping inserts commit, and however often a decision is    *)
(* written, the first row of a title and company that is stored is not     *)
(* rejected as a duplicate (IsDuplicateLoser, DuplicateWinner).            *)
THEOREM GroupsSurvive == Spec => []NoGroupVanishes
<1>1. Init => RivalInv
  BY DEF Init, RivalInv, AbsentRow, NoReason, IdleFilter, IdleChild
<1>2. IInv /\ RivalInv /\ [Next]_vars => RivalInv'
  BY RivalStep
<1>3. IInv /\ RivalInv => NoGroupVanishes
  <2> SUFFICES ASSUME IInv, RivalInv, NEW u \in Stored(jobs)
               PROVE  \E w \in Stored(jobs) :
                        /\ Posting[w].title = Posting[u].title
                        /\ Posting[w].company = Posting[u].company
                        /\ jobs[w].reason # "duplicate"
    BY DEF NoGroupVanishes
  <2>1. Group(u) \in SUBSET Urls /\ u \in Group(u)
    BY DEF Group, Stored
  <2>2. jobs \in [Urls -> RowType]
    BY DEF IInv, RowsOK
  <2>3. PICK w \in Group(u) : \A v \in Group(u) : v # w => ~Before(v, w)
    BY <2>1, <2>2, FirstRow
  <2>4. ~Before(w, w)
    <3>1. w \in Nat /\ jobs[w].created \in Nat
      BY <2>1, <2>2, UrlsAssumption DEF RowType
    <3> QED BY <3>1 DEF Before
  <2>5. Group(w) = Group(u) /\ w \in Urls
    BY <2>1 DEF Group
  <2>6. ~HasRival(w)
    BY <2>3, <2>4, <2>5 DEF HasRival
  <2> QED BY <2>5, <2>6 DEF RivalInv, Group
<1> QED BY <1>1, <1>2, <1>3, Invariance, PTL DEF Spec

----------------------------------------------------------------------------
(* Without results lost after a commit, the dispatchers own their rows and *)
(* the pipeline implements the lifecycle.                                  *)

(* What the child is about to save is a legal outcome of one fetch.        *)
FetchOutcome(u, d) ==
  \/ /\ d.attempts = jobs[u].attempts
     /\ d.state \in {"rejected", "ready"}
  \/ /\ d.attempts = jobs[u].attempts + 1
     /\ d.state = IF jobs[u].attempts + 1 >= MaxDetailAttempts
                  THEN "rejected" ELSE "needs_detail"

OwnInv ==
  /\ filter.pc \in {"group", "lists", "persist"} =>
       jobs[filter.url].state = "pending"
  /\ child.pc = "save" =>
       /\ ~child.saved
       /\ FetchOutcome(child.url, child.decision)

(* The two dispatchers never meet on a row, so a step that leaves pending  *)
(* rows pending and waiting rows waiting keeps what they own.              *)
LEMMA OwnStable ==
  ASSUME IInv, OwnInv, filter' = filter, child' = child,
         \A u \in Urls : jobs[u].state = "pending" => jobs'[u].state = "pending",
         \A u \in Urls : jobs[u].state = "needs_detail" =>
           jobs'[u].attempts = jobs[u].attempts
  PROVE  OwnInv'
<1>1. filter.pc \in {"group", "lists", "persist"} => filter.url \in Urls
  BY DEF IInv, FilterOK
<1>2. child.pc = "save" =>
        child.url \in Urls /\ jobs[child.url].state = "needs_detail"
  BY DEF IInv, ChildOK, OwnInv
<1> QED BY <1>1, <1>2 DEF OwnInv, FetchOutcome

(* A step of the table moves the mapped state of one row.                  *)
LEMMA MoveFacts ==
  ASSUME jobs \in [Urls -> RowType], jobs' \in [Urls -> RowType],
         NEW u \in Urls, \A v \in Urls \ {u} : jobs'[v] = jobs[v]
  PROVE  /\ [v \in Urls |-> jobs'[v].state]
              = [[v \in Urls |-> jobs[v].state] EXCEPT ![u] = jobs'[u].state]
         /\ [v \in Urls |-> jobs'[v].attempts]
              = [[v \in Urls |-> jobs[v].attempts] EXCEPT ![u] = jobs'[u].attempts]
         /\ jobs'[u].attempts = jobs[u].attempts =>
              [v \in Urls |-> jobs'[v].attempts]
                = [v \in Urls |-> jobs[v].attempts]
         /\ jobs'[u].state = jobs[u].state =>
              [v \in Urls |-> jobs'[v].state] = [v \in Urls |-> jobs[v].state]
  OBVIOUS

LifeStep == [Lifecycle!LifeNext]_(Lifecycle!lifeVars)

LEMMA LifeStutter == UNCHANGED jobs => LifeStep
  BY DEF LifeStep, Lifecycle!lifeVars

LEMMA LifeIntro ==
  ASSUME NEW u \in Urls,
         \/ Lifecycle!Appear(u) \/ Lifecycle!FilterDecides(u)
         \/ Lifecycle!FetchDecides(u) \/ Lifecycle!FetchFails(u)
         \/ Lifecycle!HumanDecides(u) \/ Lifecycle!HumanReturns(u)
  PROVE  LifeStep
  BY Zenon DEF LifeStep, Lifecycle!LifeNext

LEMMA ScrapeOwn == IInv /\ OwnInv /\ Scrape => OwnInv' /\ LifeStep
<1> SUFFICES ASSUME IInv, OwnInv, NEW s \in Scrapers,
                    \/ \E u \in Urls, i \in SearchIntents : InsertBegin(s, u, i)
                    \/ InsertCommit(s)
                    \/ InsertFail(s)
             PROVE  OwnInv' /\ LifeStep
  BY DEF Scrape
<1>0. jobs \in [Urls -> RowType] /\ \A u \in Urls : RowOK(u, jobs[u])
  BY DEF IInv, RowsOK
<1>1. ASSUME UNCHANGED <<jobs, filter, child>>
      PROVE  OwnInv' /\ LifeStep
  BY <1>1, LifeStutter DEF OwnInv, FetchOutcome
<1>2. CASE InsertCommit(s)
  <2>1. PICK u \in Urls, i \in Intentions, c \in Nat :
          u = insert[s].url /\ i = insert[s].intention /\ c = insert[s].created
    BY <1>2 DEF IInv, RestOK, InsertCommit, NoInsert
  <2>2. /\ jobs' = InsertJobIfNew(jobs, u, i, c)
        /\ filter' = filter /\ child' = child
    BY <1>2, <2>1 DEF InsertCommit
  <2>3. /\ jobs' \in [Urls -> RowType]
        /\ \A v \in Urls \ {u} : jobs'[v] = jobs[v]
        /\ jobs[u].state = "absent" =>
             /\ jobs'[u].state = "pending"
             /\ jobs'[u].attempts = 0
        /\ jobs[u].state # "absent" =>
             /\ jobs'[u].state = jobs[u].state
             /\ jobs'[u].attempts = jobs[u].attempts
    BY <1>0, <2>1, <2>2, InsertFacts
  <2>4. OwnInv'
    BY <2>1, <2>2, <2>3, OwnStable
  <2>5. jobs'[u].attempts = jobs[u].attempts
    BY <1>0, <2>1, <2>3 DEF RowOK
  <2>6. CASE jobs[u].state = "absent"
    <3>1. Lifecycle!Appear(u)
      BY <1>0, <2>1, <2>3, <2>5, <2>6, MoveFacts
      DEF Lifecycle!Appear, Lifecycle!Move
    <3>2. LifeStep
      BY <2>1, <3>1, LifeIntro, Zenon
    <3> QED BY <2>4, <3>2
  <2>7. CASE jobs[u].state # "absent"
    <3>1. UNCHANGED Lifecycle!lifeVars
      BY <1>0, <2>1, <2>3, <2>7, MoveFacts DEF Lifecycle!lifeVars
    <3> QED BY <2>4, <3>1 DEF LifeStep
  <2> QED BY <2>6, <2>7
<1> QED BY <1>1, <1>2 DEF InsertBegin, InsertFail

LEMMA FilterOwn ==
  ASSUME ResultLoss = FALSE PROVE IInv /\ OwnInv /\ FilterStep => OwnInv' /\ LifeStep
<1> SUFFICES ASSUME IInv, OwnInv, FilterStep PROVE OwnInv' /\ LifeStep
  OBVIOUS
<1>0. jobs \in [Urls -> RowType] /\ \A u \in Urls : RowOK(u, jobs[u])
  BY DEF IInv, RowsOK
<1>1. CASE FilterPersist
  <2> DEFINE u == filter.url
             d == filter.decision
  <2>1. /\ u \in Urls /\ jobs[u].state = "pending"
        /\ d \in DecisionType /\ d.attempts = 0
    BY <1>1 DEF IInv, OwnInv, FilterOK, FilterPersist, DecisionOK
  <2>2. /\ jobs' = UpdateJobNotifyState(jobs, u, d)
        /\ filter'.pc = "report" /\ child' = child
    BY <1>1 DEF FilterPersist
  <2>2a. child.pc = "save" => child.url \in Urls \ {u}
    BY <2>1 DEF IInv, ChildOK, OwnInv
  <2> HIDE DEF u, d
  <2>3. /\ jobs' \in [Urls -> RowType]
        /\ \A v \in Urls \ {u} : jobs'[v] = jobs[v]
        /\ jobs'[u].state = d.state
        /\ jobs'[u].attempts = d.attempts
    BY <1>0, <2>1, <2>2, UpdateFacts
  <2>4. jobs'[u].attempts = jobs[u].attempts
    BY <1>0, <2>1, <2>3 DEF RowOK
  <2>5. OwnInv'
    BY <2>2, <2>2a, <2>3 DEF OwnInv, FetchOutcome
  <2>6. d.state \in {"rejected", "needs_detail", "ready"}
    BY <2>1 DEF DecisionType
  <2>7. Lifecycle!FilterDecides(u)
    BY <1>0, <2>1, <2>3, <2>4, <2>6, MoveFacts
    DEF Lifecycle!FilterDecides, Lifecycle!Move
  <2> QED BY <2>1, <2>5, <2>7, LifeIntro
<1>2. CASE UNCHANGED <<jobs, child>> /\ filter'.pc \notin {"group", "lists", "persist"}
  BY <1>2, LifeStutter DEF OwnInv, FetchOutcome
<1>3. CASE UNCHANGED <<jobs, child>> /\ filter'.url = filter.url
           /\ jobs[filter.url].state = "pending"
  BY <1>3, LifeStutter DEF OwnInv, FetchOutcome
<1>4. ASSUME NEW u \in Urls, FilterStart(u) PROVE OwnInv' /\ LifeStep
  BY <1>2, <1>4 DEF FilterStart
<1>5. CASE FilterGetJob
  <2>1. CASE jobs[filter.url].state = "pending"
    BY <1>3, <1>5, <2>1 DEF FilterGetJob
  <2>2. CASE jobs[filter.url].state # "pending"
    BY <1>2, <1>5, <2>2 DEF FilterGetJob, IdleFilter
  <2> QED BY <2>1, <2>2
<1>6. CASE FilterListCandidates
  BY <1>3, <1>6 DEF FilterListCandidates, OwnInv
<1>7. CASE FilterGetLists
  BY <1>3, <1>7 DEF FilterGetLists, OwnInv
<1>8. CASE FilterDone
  BY <1>2, <1>8 DEF FilterDone, IdleFilter
<1>9. CASE FilterAttemptLost
  BY <1>2, <1>9 DEF FilterAttemptLost, IdleFilter
<1> QED
  BY <1>1, <1>4, <1>5, <1>6, <1>7, <1>8, <1>9 DEF FilterStep

LEMMA ChildOwn ==
  ASSUME ResultLoss = FALSE PROVE IInv /\ OwnInv /\ ChildStep => OwnInv' /\ LifeStep
<1> SUFFICES ASSUME IInv, OwnInv, ChildStep PROVE OwnInv' /\ LifeStep
  OBVIOUS
<1>0. jobs \in [Urls -> RowType] /\ \A u \in Urls : RowOK(u, jobs[u])
  BY DEF IInv, RowsOK
<1>1. CASE ChildSave
  <2> DEFINE d == child.decision
  <2>0. PICK u \in Urls : u = child.url
    BY <1>1 DEF IInv, ChildOK, ChildSave
  <2>1. /\ u \in Urls /\ jobs[u].state = "needs_detail"
        /\ d \in DecisionType /\ FetchOutcome(u, d)
    BY <1>1, <2>0 DEF IInv, OwnInv, ChildOK, ChildSave, DecisionOK
  <2>2. /\ jobs' = UpdateJobNotifyState(jobs, u, d)
        /\ child' = [child EXCEPT !.pc = "report", !.saved = TRUE]
        /\ child.pc = "save"
        /\ filter' = filter
    BY <1>1, <2>0 DEF ChildSave
  <2>2a. child'.pc = "report"
    BY <2>2 DEF IInv, ChildOK
  <2>2b. filter.pc \in {"group", "lists", "persist"} =>
           filter.url \in Urls \ {u}
    BY <2>1 DEF IInv, FilterOK, OwnInv
  <2> HIDE DEF d
  <2>3. /\ jobs' \in [Urls -> RowType]
        /\ \A v \in Urls \ {u} : jobs'[v] = jobs[v]
        /\ jobs'[u].state = d.state
        /\ jobs'[u].attempts = d.attempts
    BY <1>0, <2>1, <2>2, UpdateFacts
  <2>4. OwnInv'
    BY <2>2, <2>2a, <2>2b, <2>3 DEF OwnInv
  <2>5. CASE /\ d.attempts = jobs[u].attempts
             /\ d.state \in {"rejected", "ready"}
    <3>1. Lifecycle!FetchDecides(u)
      BY <1>0, <2>1, <2>3, <2>5, MoveFacts
      DEF Lifecycle!FetchDecides, Lifecycle!Move
    <3>2. LifeStep
      BY <2>1, <3>1, LifeIntro, Zenon
    <3> QED BY <2>4, <3>2
  <2>6. CASE /\ d.attempts = jobs[u].attempts + 1
             /\ d.state = IF jobs[u].attempts + 1 >= MaxDetailAttempts
                          THEN "rejected" ELSE "needs_detail"
    <3>1. Lifecycle!FetchFails(u)
      BY <1>0, <2>1, <2>3, <2>6, MoveFacts
      DEF Lifecycle!FetchFails, Lifecycle!Move, Lifecycle!MaxFailures,
          MaxDetailAttempts
    <3>2. LifeStep
      BY <2>1, <3>1, LifeIntro, Zenon
    <3> QED BY <2>4, <3>2
  <2> QED BY <2>1, <2>5, <2>6 DEF FetchOutcome
<1>2. CASE UNCHANGED <<jobs, filter>> /\ child'.pc # "save"
  BY <1>2, LifeStutter DEF OwnInv
<1>3. ASSUME NEW d, child' = Saving(d), UNCHANGED <<jobs, filter>>,
             FetchOutcome(child.url, d)
      PROVE  OwnInv' /\ LifeStep
  BY <1>3, LifeStutter DEF OwnInv, Saving, FetchOutcome
<1>4. ASSUME NEW u \in Urls, ChildStart(u) PROVE OwnInv' /\ LifeStep
  BY <1>2, <1>4 DEF ChildStart
<1>5. CASE ChildLoadJob
  BY <1>2, <1>5 DEF ChildLoadJob, IdleChild
<1>6. CASE ChildLoadLists
  <2>1. Posting[child.url].source = "LINKEDIN"
    BY <1>6 DEF ChildLoadLists, IInv, ChildOK
  <2> QED BY <1>2, <1>6, <2>1 DEF ChildLoadLists, Fetching
<1>7. CASE ChildLockBusy
  BY <1>2, <1>7 DEF ChildLockBusy, Fetching, IdleChild
<1>8. CASE ChildFetchFailed
  <2>1. child.pc = "fetch" /\ child' = Saving(OnDetailFetchFailure(child.job))
        /\ UNCHANGED <<jobs, filter>>
    BY <1>8 DEF ChildFetchFailed
  <2>2. child.job.attempts = jobs[child.url].attempts
    BY <2>1 DEF IInv, ChildOK
  <2>3. FetchOutcome(child.url, OnDetailFetchFailure(child.job))
    BY <2>2 DEF FetchOutcome, OnDetailFetchFailure, Decide
  <2> QED BY <2>1, <2>3, <1>3
<1>9. CASE ChildFetched
  <2> DEFINE text == Posting[child.url].detail
             job == [child.job EXCEPT !.description = text]
             d == FilterAfterDescription(job, child.lists)
  <2>1. /\ child.pc = "fetch" /\ child' = Saving(d) /\ text # NoText
        /\ UNCHANGED <<jobs, filter>>
    BY <1>9 DEF ChildFetched
  <2>2. /\ child.url \in Urls
        /\ jobs[child.url].state = "needs_detail"
        /\ child.job.attempts = jobs[child.url].attempts
    BY <2>1 DEF IInv, ChildOK
  <2>3. RowOK(child.url, jobs[child.url])
    BY <1>0, <2>2
  <2>4. child.job.attempts \in 0 .. MaxDetailAttempts
    BY <2>2, <2>3 DEF RowOK, RowType
  <2>5. /\ job.attempts \in 0 .. MaxDetailAttempts
        /\ job.attempts = jobs[child.url].attempts
        /\ job.description = text /\ text \in Texts
    BY <2>1, <2>2, <2>4 DEF IInv, ChildOK, Texts
  <2> HIDE DEF job, text
  <2>6. /\ DecisionOK(child.url, d)
        /\ d.attempts = jobs[child.url].attempts
        /\ d.state # "needs_detail"
    BY <2>1, <2>2, <2>5, AfterDescriptionOK
  <2> HIDE DEF d
  <2>7. FetchOutcome(child.url, d)
    BY <2>6 DEF FetchOutcome, DecisionOK, DecisionType
  <2> QED BY <2>1, <2>7, <1>3
<1>10. CASE ChildFail
  BY <1>2, <1>10 DEF ChildFail, IdleChild
<1>11. CASE ChildDone
  BY <1>2, <1>11 DEF ChildDone, IdleChild
<1>12. CASE ChildSaveLost
  <2>1. child.pc = "save" /\ UNCHANGED <<jobs, filter>>
    BY <1>12 DEF ChildSaveLost
  <2>2. CASE child' = [child EXCEPT !.pc = "save", !.attempt = @ + 1]
    <3>1. /\ child'.pc = "save" /\ child'.url = child.url
          /\ child'.saved = child.saved /\ child'.decision = child.decision
      BY <2>1, <2>2 DEF IInv, ChildOK
    <3> QED BY <2>1, <3>1, LifeStutter DEF OwnInv, FetchOutcome
  <2>3. CASE child' = IdleChild
    BY <2>1, <2>3, <1>2 DEF IdleChild
  <2> QED BY <1>12, <2>2, <2>3 DEF ChildSaveLost
<1> QED
  BY <1>1, <1>4, <1>5, <1>6, <1>7, <1>8, <1>9, <1>10, <1>11, <1>12 DEF ChildStep

LEMMA OperatorOwn == IInv /\ OwnInv /\ Operator => OwnInv' /\ LifeStep
<1> SUFFICES ASSUME IInv, OwnInv, Operator PROVE OwnInv' /\ LifeStep
  OBVIOUS
<1>0. jobs \in [Urls -> RowType] /\ \A u \in Urls : RowOK(u, jobs[u])
  BY DEF IInv, RowsOK
<1>1. ASSUME NEW u \in Urls, NEW action \in Reviewed, Review(u, action)
      PROVE  OwnInv' /\ LifeStep
  <2>1. /\ jobs' \in [Urls -> RowType]
        /\ \A v \in Urls \ {u} : jobs'[v] = jobs[v]
        /\ jobs'[u].state = action
        /\ jobs'[u].attempts = jobs[u].attempts
        /\ jobs[u].state = "ready"
        /\ filter' = filter /\ child' = child
    BY <1>0, <1>1, ReviewFacts DEF Review
  <2>2. OwnInv'
    BY <2>1, OwnStable
  <2>3. Lifecycle!HumanDecides(u)
    BY <1>0, <2>1, MoveFacts
    DEF Lifecycle!HumanDecides, Lifecycle!Move, Reviewed
  <2> QED BY <2>2, <2>3, LifeIntro
<1>2. ASSUME NEW u \in Urls, ReturnToReview(u) PROVE OwnInv' /\ LifeStep
  <2>1. /\ jobs' \in [Urls -> RowType]
        /\ \A v \in Urls \ {u} : jobs'[v] = jobs[v]
        /\ jobs'[u].state = "ready"
        /\ jobs'[u].attempts = jobs[u].attempts
        /\ jobs[u].state \in {"applied", "dismissed", "rejected"}
        /\ filter' = filter /\ child' = child
    BY <1>0, <1>2, ReturnFacts DEF ReturnToReview, CanReturn, Reviewed
  <2>2. OwnInv'
    BY <2>1, OwnStable
  <2>3. Lifecycle!HumanReturns(u)
    BY <1>0, <2>1, MoveFacts DEF Lifecycle!HumanReturns, Lifecycle!Move
  <2> QED BY <2>2, <2>3, LifeIntro
<1>3. CASE ReEvaluate
  <2>1. /\ \A u \in Urls :
             IF jobs[u].state = "rejected"
             THEN jobs'[u].state = "pending" /\ jobs'[u].attempts = 0
             ELSE jobs'[u] = jobs[u]
        /\ filter' = filter /\ child' = child
    BY <1>0, <1>3, ReEvaluateFacts DEF ReEvaluate
  <2>2. OwnInv'
    BY <2>1, OwnStable
  <2>3. Lifecycle!HumanForgives
    BY <2>1 DEF Lifecycle!HumanForgives
  <2> QED BY <2>2, <2>3 DEF LifeStep, Lifecycle!LifeNext
<1>4. ASSUME NEW l \in ListChoices, ReplaceLists(l) PROVE OwnInv' /\ LifeStep
  BY <1>4, LifeStutter DEF ReplaceLists, OwnInv, FetchOutcome
<1> QED
  BY <1>1, <1>2, <1>3, <1>4 DEF Operator, Reviewed

LEMMA OwnStep ==
  ASSUME ResultLoss = FALSE
  PROVE  IInv /\ OwnInv /\ [Next]_vars => OwnInv' /\ LifeStep
<1>1. IInv /\ OwnInv /\ UNCHANGED vars => OwnInv' /\ LifeStep
  BY LifeStutter DEF vars, OwnInv, FetchOutcome
<1> QED
  BY <1>1, ScrapeOwn, FilterOwn, ChildOwn, OperatorOwn DEF Next

(* When no result is lost after its commit, the filter and the child write *)
(* only rows that are still as they read them.                             *)
THEOREM DispatchersOwn ==
  ASSUME ResultLoss = FALSE PROVE Spec => []DispatchersOwnTheirRows
<1>1. Init => OwnInv
  BY DEF Init, OwnInv, IdleFilter, IdleChild
<1>2. IInv /\ OwnInv /\ [Next]_vars => OwnInv'
  BY OwnStep
<1>3. IInv /\ OwnInv => DispatchersOwnTheirRows
  <2> SUFFICES ASSUME IInv, OwnInv PROVE DispatchersOwnTheirRows
    OBVIOUS
  <2>1. filter.pc \in {"group", "lists", "persist"} =>
          /\ filter.url \in Urls /\ jobs[filter.url].state = "pending"
          /\ filter.job.attempts = 0
    BY DEF IInv, FilterOK, FilterReads, OwnInv
  <2>2. \A u \in Urls : jobs[u].state = "pending" => jobs[u].attempts = 0
    BY DEF IInv, RowsOK, RowOK
  <2>3. child.pc \in {"lists", "fetch"} =>
          /\ jobs[child.url].state = "needs_detail"
          /\ jobs[child.url].attempts = child.job.attempts
    BY DEF IInv, ChildOK
  <2>4. child.pc = "save" => jobs[child.url].state = "needs_detail"
    BY DEF IInv, ChildOK, OwnInv
  <2> QED BY <2>1, <2>2, <2>3, <2>4 DEF DispatchersOwnTheirRows
<1> QED BY <1>1, <1>2, <1>3, Invariance, PTL DEF Spec

(* When no result is lost after its commit, every step of the pipeline is  *)
(* a step of JobLifecycle for one posting, or changes no posting's state.  *)
THEOREM PipelineImplementsLifecycle ==
  ASSUME ResultLoss = FALSE PROVE Spec => ImplementsLifecycle
<1>1. Init => OwnInv /\ Lifecycle!LifeInit
  BY DEF Init, OwnInv, IdleFilter, IdleChild, Lifecycle!LifeInit, AbsentRow
<1>2. IInv /\ OwnInv /\ [Next]_vars => OwnInv' /\ LifeStep
  BY OwnStep
<1>3. LifeStep <=> [Lifecycle!LifeNext]_(Lifecycle!lifeVars)
  BY DEF LifeStep
<1> QED
  BY <1>1, <1>2, <1>3, Invariance, PTL DEF Spec, ImplementsLifecycle, Lifecycle!LifeSpec
============================================================================
