----------------------------- MODULE ScrapeRun -----------------------------
(***************************************************************************)
(* One scrape from inside, between the lock of its source and the mark on  *)
(* its cadence (scrapeSource after TryLockJobSource, finishScrape): rounds *)
(* over the searches, LinkedIn's pages with their retries or Apify's paid  *)
(* runs, what is done when a search fails or the context ends, the rows    *)
(* that are saved, and the mark.  To module Scrapes all this is one step:  *)
(* Succeed, Fail or EndUnmarked.  What a paid run costs is in ApifyBudget. *)
(*                                                                         *)
(* A search is the sequence of the intentions its runs are stamped with:   *)
(* one, or two for an Indeed search of remote and hybrid jobs.  LinkedIn   *)
(* uses the first.                                                         *)
(* Faults names what may go wrong beside a search itself:                  *)
(*   "cancel"       the context ends: cancelled, deadline, shutdown;       *)
(*   "insert_fails" a row cannot be inserted;                              *)
(*   "mark_fails"   the cadence cannot be written.                         *)
(***************************************************************************)
EXTENDS Naturals, FiniteSets, Sequences

CONSTANTS
  Jobs,           \* postings a search may find
  GlobalSearches, \* number of global searches (LinkedIn only)
  Queries,        \* the search queries
  Rounds,         \* rounds of the settings, clamped to 1 .. 3
  Pages,          \* pagesToScrape
  MaxCards,       \* bound on the cards of a page
  RetryAttempts,  \* linkedInRetryAttempts (5 in the code)
  Faults

WorkTypes == {"onsite", "remote", "hybrid", "remote_hybrid"}

ASSUME ScrapeRunAssumption ==
  /\ GlobalSearches \in Nat
  /\ Queries \in Seq(Seq(WorkTypes) \ {<<>>})
  /\ Rounds \in 1 .. 3
  /\ Pages \in Nat \ {0}
  /\ MaxCards \in Nat
  /\ RetryAttempts \in Nat \ {0}
  /\ Faults \subseteq {"cancel", "insert_fails", "mark_fails"}

VARIABLES
  kind,      \* "linkedin" or "apify"
  ctx,       \* "live" or "ended"
  at,        \* pc, and the loop counters: round, search and part (the run of
             \* a search); page, attempt, and cards of LinkedIn's first page
  found,     \* jobs of the search that is going on
  all,       \* what is collected: batches of jobs with their intention
  scrapeErr, \* "none" or the last error
  skipped,   \* searches left out because time is low
  stored,    \* per job: the search_intention of its row, or "absent"
  mark,      \* what was written on the cadence
  done,      \* history: searches that returned without an error
  failed,    \* history: searches that returned one
  seen,      \* history: jobs that were fetched, each with the intention
  lost       \* history: jobs for which an insert failed

vars == <<kind, ctx, at, found, all, scrapeErr, skipped, stored, mark,
          done, failed, seen, lost>>

(* The searches of one round. *)
Searches ==
  IF kind = "linkedin"
  THEN [i \in 1 .. GlobalSearches |-> <<"onsite">>] \o Queries
  ELSE Queries

Start(round, i) == [pc |-> "search", round |-> round, search |-> i, part |-> 1,
                    page |-> 1, attempt |-> 1, cards |-> 0]
Intention == Searches[at.search][at.part]

Stopped == [at EXCEPT !.pc = "save"]

NextSearch ==
  IF at.search < Len(Searches) THEN Start(at.round, at.search + 1)
  ELSE IF at.round < Rounds THEN Start(at.round + 1, 1)
  ELSE Stopped

Batch(jobs) == [jobs |-> jobs, intention |-> Intention]

Init ==
  /\ kind \in {"linkedin", "apify"}
  /\ ctx = "live"
  /\ at = [Start(1, 1) EXCEPT !.pc = IF Searches = <<>> THEN "save" ELSE "search"]
  /\ found = {}
  /\ all = <<>>
  /\ scrapeErr = "none"
  /\ skipped = 0
  /\ stored \in [Jobs -> {"absent", "remote"}]
  /\ mark = "none"
  /\ done = 0
  /\ failed = 0
  /\ seen = {}
  /\ lost = {}

----------------------------------------------------------------------------
(* Fault: a search without an error forgets the errors before it. *)
FaultySearchReturns(jobs, err) ==
  /\ all' = Append(all, Batch(jobs))
  /\ found' = {}
  /\ scrapeErr' = err
  /\ IF err = "none" THEN done' = done + 1 /\ UNCHANGED failed
                     ELSE failed' = failed + 1 /\ UNCHANGED done

(* The end of a search: what it returned is stamped and appended.          *)

SearchReturns(jobs, err) ==
  /\ all' = Append(all, Batch(jobs))
  /\ found' = {}
  /\ IF err = "none"
     THEN /\ done' = done + 1
          /\ UNCHANGED <<scrapeErr, failed>>
     ELSE /\ scrapeErr' = err
          /\ failed' = failed + 1
          /\ UNCHANGED done

(* Fetched pages and datasets. *)
Sees(jobs) == seen' = seen \cup (jobs \X {Intention})

(* sleepBetween after each search, ended by the context. *)
Pause ==
  /\ at.pc = "pause"
  /\ IF ctx = "live"
     THEN at' = NextSearch /\ UNCHANGED scrapeErr
     ELSE at' = Stopped /\ scrapeErr' = "cancelled"
  /\ UNCHANGED <<kind, ctx, found, all, skipped, stored, mark, done, failed, seen, lost>>

----------------------------------------------------------------------------
(* LinkedIn: the pages of one search, each with a few retries of a 429 or  *)
(* 503.  An error keeps the pages before it.                               *)

LinkedIn == kind = "linkedin" /\ at.pc = "search"

LinkedInFails ==
  /\ SearchReturns(found, "failed")
  /\ at' = [at EXCEPT !.pc = "pause"]
  /\ UNCHANGED <<kind, ctx, skipped, stored, mark, seen, lost>>

(* Fault: one page too many. *)
FaultyLastPage(cards) ==
  \/ cards = 0
  \/ at.page > 1 /\ cards < at.cards
  \/ at.page > Pages

(* An empty page, a page shorter than the first, or the last page wanted.  *)
LastPage(cards) ==
  \/ cards = 0
  \/ at.page > 1 /\ cards < at.cards
  \/ at.page = Pages

(* Cards without a stable URL are counted but not collected. *)
Page ==
  /\ LinkedIn
  /\ ctx = "live"
  /\ \E cards \in 0 .. MaxCards, jobs \in SUBSET Jobs :
       /\ Cardinality(jobs) <= cards
       /\ Sees(jobs)
       /\ IF LastPage(cards)
          THEN /\ SearchReturns(found \cup jobs, "none")
               /\ at' = [at EXCEPT !.pc = "pause"]
          ELSE /\ found' = found \cup jobs
               /\ at' = [at EXCEPT !.pc = "page_pause",
                           !.cards = IF at.page = 1 THEN cards ELSE @]
               /\ UNCHANGED <<all, scrapeErr, done, failed>>
  /\ UNCHANGED <<kind, ctx, skipped, stored, mark, lost>>

PagePause ==
  /\ at.pc = "page_pause"
  /\ IF ctx = "live"
     THEN /\ at' = [at EXCEPT !.pc = "search", !.page = @ + 1, !.attempt = 1]
          /\ UNCHANGED <<kind, ctx, found, all, scrapeErr, skipped, stored,
                         mark, done, failed, seen, lost>>
     ELSE LinkedInFails

(* Fault: after the last attempt it starts over. *)
FaultyRateLimited ==
  /\ LinkedIn
  /\ ctx = "live"
  /\ at' = [at EXCEPT !.attempt = IF @ < RetryAttempts THEN @ + 1 ELSE 1]
  /\ UNCHANGED <<kind, ctx, found, all, scrapeErr, skipped, stored, mark, done,
                 failed, seen, lost>>

RateLimited ==
  /\ LinkedIn
  /\ ctx = "live"
  /\ IF at.attempt < RetryAttempts
     THEN /\ at' = [at EXCEPT !.attempt = @ + 1]
          /\ UNCHANGED <<kind, ctx, found, all, scrapeErr, skipped, stored,
                         mark, done, failed, seen, lost>>
     ELSE LinkedInFails

(* Another status, a transport error, or the context has ended. *)
PageFails == LinkedIn /\ LinkedInFails

----------------------------------------------------------------------------
(* Apify: the paid runs of one search.  The first error ends the scrape.   *)

Apify == kind = "apify" /\ at.pc = "search"

(* Fault: the current search is not counted. *)
FaultySkipRest ==
  /\ Apify /\ at.part = 1
  /\ skipped' = skipped + (Len(Searches) - at.search)
                  + (Rounds - at.round) * Len(Searches)
  /\ at' = Stopped
  /\ UNCHANGED <<kind, ctx, found, all, scrapeErr, stored, mark, done, failed,
                 seen, lost>>

(* Too little of the activity's time is left to start another search. *)
SkipRest ==
  /\ Apify /\ at.part = 1
  /\ skipped' = skipped + (Len(Searches) - at.search + 1)
                  + (Rounds - at.round) * Len(Searches)
  /\ at' = Stopped
  /\ UNCHANGED <<kind, ctx, found, all, scrapeErr, stored, mark, done, failed,
                 seen, lost>>

RunSucceeds ==
  /\ Apify
  /\ ctx = "live"
  /\ \E jobs \in SUBSET Jobs :
       /\ Sees(jobs)
       /\ IF at.part < Len(Searches[at.search])
          THEN /\ all' = Append(all, Batch(jobs))
               /\ at' = [at EXCEPT !.part = @ + 1]
               /\ UNCHANGED <<found, scrapeErr, done, failed>>
          ELSE /\ SearchReturns(jobs, "none")
               /\ at' = [at EXCEPT !.pc = "pause"]
  /\ UNCHANGED <<kind, ctx, skipped, stored, mark, lost>>

(* Fault: the jobs of a run whose cost stays unknown are dropped. *)
FaultyRunFails ==
  /\ Apify
  /\ \E jobs \in SUBSET Jobs : Sees(jobs)
  /\ SearchReturns({}, "failed")
  /\ at' = Stopped
  /\ UNCHANGED <<kind, ctx, skipped, stored, mark, lost>>

(* The run cannot be started, fails, or (with its jobs) has no final cost.  *)
(* "lock_busy" is the answer of a wait for the APIFY lock that was ended.   *)
RunFails ==
  /\ Apify
  /\ \E err \in {"failed", "budget", "lock_busy"}, jobs \in SUBSET Jobs :
       /\ jobs # {} => err = "failed"
       /\ jobs # {} \/ err = "budget" => ctx = "live"
       /\ err = "lock_busy" => ctx = "ended"
       /\ Sees(jobs)
       /\ SearchReturns(jobs, err)
  /\ at' = Stopped
  /\ UNCHANGED <<kind, ctx, skipped, stored, mark, lost>>

----------------------------------------------------------------------------
(* finishScrape: every batch is saved, whatever ended the scrape, and the  *)
(* cadence is marked.                                                      *)

(* Fault: the first search a row came from keeps it. *)
FaultyMerged(old, new) == IF old = "absent" THEN new ELSE old

(* search_intention after InsertJobIfNew. *)
Merged(old, new) == IF old = "absent" \/ new = "onsite" THEN new ELSE old

Save ==
  /\ at.pc = "save" /\ all # <<>>
  /\ LET batch == Head(all)
     IN  \E ok \in SUBSET batch.jobs :
           /\ ctx = "ended" => ok = {}
           /\ ok # batch.jobs => ctx = "ended" \/ "insert_fails" \in Faults
           /\ stored' = [u \in Jobs |-> IF u \in ok
                          THEN Merged(stored[u], batch.intention) ELSE stored[u]]
           /\ lost' = lost \cup (batch.jobs \ ok)
  /\ all' = Tail(all)
  /\ UNCHANGED <<kind, ctx, at, found, scrapeErr, skipped, mark, done, failed, seen>>

Outcome ==
  IF scrapeErr = "none" THEN "success"
  ELSE IF scrapeErr = "lock_busy" THEN "none"
  ELSE IF scrapeErr = "budget" THEN "period_end"
  ELSE "backoff"

Mark ==
  /\ at.pc = "save" /\ all = <<>>
  /\ \/ ctx = "live" /\ mark' = Outcome
     \/ (ctx = "ended" \/ "mark_fails" \in Faults) /\ UNCHANGED mark
  /\ at' = [at EXCEPT !.pc = "end"]
  /\ UNCHANGED <<kind, ctx, found, all, scrapeErr, skipped, stored, done, failed,
                 seen, lost>>

ContextEnds ==
  /\ "cancel" \in Faults
  /\ ctx = "live" /\ at.pc # "end"
  /\ ctx' = "ended"
  /\ UNCHANGED <<kind, at, found, all, scrapeErr, skipped, stored, mark, done,
                 failed, seen, lost>>

(* The scrape is over. *)
Finished == at.pc = "end" /\ UNCHANGED vars

----------------------------------------------------------------------------
Step ==
  \/ Page \/ PagePause \/ RateLimited \/ PageFails
  \/ SkipRest \/ RunSucceeds \/ RunFails
  \/ Pause \/ Save \/ Mark

Next == Step \/ ContextEnds \/ Finished

Spec == Init /\ [][Next]_vars

(* Every request and every wait of the scrape has a bound. *)
FairSpec == Spec /\ WF_vars(Step)
----------------------------------------------------------------------------
(* Correctness.                                                            *)

Saved == at.pc = "end" \/ (at.pc = "save" /\ all = <<>>)

TypeOK ==
  /\ kind \in {"linkedin", "apify"}
  /\ ctx \in {"live", "ended"}
  /\ at \in [pc : {"search", "page_pause", "pause", "save", "end"},
             round : 1 .. Rounds, search : Nat \ {0}, part : Nat \ {0},
             page : 1 .. Pages, attempt : 1 .. RetryAttempts, cards : 0 .. MaxCards]
  /\ found \subseteq Jobs
  /\ all \in Seq([jobs : SUBSET Jobs, intention : WorkTypes])
  /\ scrapeErr \in {"none", "failed", "cancelled", "budget", "lock_busy"}
  /\ skipped \in Nat /\ done \in Nat /\ failed \in Nat
  /\ stored \in [Jobs -> WorkTypes \cup {"absent"}]
  /\ mark \in {"none", "success", "backoff", "period_end"}
  /\ seen \subseteq Jobs \X WorkTypes
  /\ lost \subseteq Jobs

(* The searches of all rounds are accounted for: a scrape that was not cut *)
(* short has tried every one, or reports it as skipped.                    *)
SearchesAreCounted ==
  Saved /\ ctx = "live" /\ (kind = "linkedin" \/ failed = 0) =>
    done + failed + skipped = Rounds * Len(Searches)

(* What was fetched, and in Apify's case paid for, is in the table at the  *)
(* end, also when a later page, run or search failed or an earlier scrape  *)
(* had the row, unless its insert failed.                                  *)
FetchedIsStored ==
  Saved => \A f \in seen : stored[f[1]] # "absent" \/ f[1] \in lost

(* A job that an onsite search found is stored as such, whichever searches *)
(* found it before and after.                                              *)
OnsiteWins ==
  Saved => \A f \in seen :
    f[2] = "onsite" => stored[f[1]] = "onsite" \/ f[1] \in lost

(* The mark tells the truth: a scrape with a failed search is never marked *)
(* as a success, and no failure is marked without one.                     *)
MarkIsTrue ==
  /\ mark = "success" => failed = 0
  /\ mark \in {"backoff", "period_end"} => failed > 0

(* A scrape ends: retries, pages, rounds and waits are bounded. *)
ScrapeEnds == <>(at.pc = "end")
============================================================================
