-------------------------- MODULE ScrapeRun_proof --------------------------
(***************************************************************************)
(* Theorems about ScrapeRun: one scrape from inside, for any searches,     *)
(* rounds, pages, retries and faults.                                      *)
(***************************************************************************)
EXTENDS ScrapeRun, Integers, FiniteSetTheorems, WellFoundedInduction, TLAPS

Position ==
  [pc : {"search", "page_pause", "pause", "save", "end"},
   round : 1 .. Rounds, search : Nat \ {0}, part : Nat \ {0},
   page : 1 .. Pages, attempt : 1 .. RetryAttempts, cards : 0 .. MaxCards]

(* Until the scrape is over, the loop counters point at a run of a search. *)
AtRun ==
  at.pc \in {"search", "page_pause", "pause"} =>
    at.search \in 1 .. Len(Searches) /\ at.part \in 1 .. Len(Searches[at.search])

(* Jobs wait in found only between the pages of one LinkedIn search.       *)
FoundIsOfSearch ==
  /\ at.pc = "page_pause" => kind = "linkedin" /\ at.page < Pages
  /\ kind = "apify" \/ at.pc \in {"pause", "save", "end"} => found = {}

Types ==
  /\ kind \in {"linkedin", "apify"}
  /\ ctx \in {"live", "ended"}
  /\ at \in Position
  /\ found \subseteq Jobs
  /\ all \in Seq([jobs : SUBSET Jobs, intention : WorkTypes])
  /\ scrapeErr \in {"none", "failed", "cancelled", "budget", "lock_busy"}
  /\ skipped \in Nat /\ done \in Nat /\ failed \in Nat
  /\ stored \in [Jobs -> WorkTypes \cup {"absent"}]
  /\ mark \in {"none", "success", "backoff", "period_end"}
  /\ seen \subseteq Jobs \X WorkTypes
  /\ lost \subseteq Jobs

TInv == Types /\ AtRun /\ FoundIsOfSearch

(* The last error is none exactly while no search has failed, and a scrape *)
(* is cancelled only by its context.                                       *)
Errors ==
  /\ scrapeErr = "none" => failed = 0
  /\ scrapeErr \in {"failed", "budget", "lock_busy"} => failed > 0
  /\ scrapeErr = "cancelled" => ctx = "ended"
  /\ mark # "none" => at.pc = "end"

(* What was fetched is stored, lost, or on its way to the table.           *)
Kept(f) ==
  \/ stored[f[1]] # "absent"
  \/ f[1] \in lost
  \/ f[1] \in found
  \/ \E i \in 1 .. Len(all) : f[1] \in all[i].jobs

KeptOnsite(f) ==
  f[2] = "onsite" =>
    \/ stored[f[1]] = "onsite"
    \/ f[1] \in lost
    \/ f[1] \in found /\ Intention = "onsite"
    \/ \E i \in 1 .. Len(all) : f[1] \in all[i].jobs /\ all[i].intention = "onsite"

NothingDropped == \A f \in seen : Kept(f) /\ KeptOnsite(f)

(* The searches that are behind a position of the loops.                   *)
Behind(p) == (p.round - 1) * Len(Searches) + (IF p.pc = "pause" THEN p.search ELSE p.search - 1)

Counted ==
  /\ at.pc \in {"search", "page_pause", "pause"} => skipped = 0 /\ done + failed = Behind(at)
  /\ at.pc \in {"save", "end"} /\ ctx = "live" /\ (kind = "linkedin" \/ failed = 0) =>
       done + failed + skipped = Rounds * Len(Searches)

----------------------------------------------------------------------------
(* The searches are sequences of intentions, and are the same throughout.  *)
LEMMA SearchesType ==
  ASSUME Types
  PROVE  /\ Searches \in Seq(Seq(WorkTypes) \ {<<>>})
         /\ Len(Searches) \in Nat
         /\ \A i \in 1 .. Len(Searches) : /\ Searches[i] \in Seq(WorkTypes)
                                          /\ Len(Searches[i]) \in Nat \ {0}
<1>1. <<"onsite">> \in Seq(WorkTypes) \ {<<>>}
  BY DEF WorkTypes
<1>2. GlobalSearches \in Nat /\ Queries \in Seq(Seq(WorkTypes) \ {<<>>})
  BY ScrapeRunAssumption
<1> DEFINE S == Seq(WorkTypes) \ {<<>>}
<1>3. [i \in 1 .. GlobalSearches |-> <<"onsite">>] \in Seq(S)
  BY <1>1, <1>2
<1>4. [i \in 1 .. GlobalSearches |-> <<"onsite">>] \o Queries \in Seq(S)
  BY <1>2, <1>3
<1>5. Searches \in Seq(S)
  BY <1>2, <1>4 DEF Searches
<1>6. \A i \in 1 .. Len(Searches) : Searches[i] \in S
  BY <1>5
<1>7. \A s \in S : s \in Seq(WorkTypes) /\ Len(s) \in Nat \ {0}
  OBVIOUS
<1> QED BY <1>5, <1>6, <1>7

LEMMA IntentionType ==
  ASSUME TInv, at.pc \in {"search", "page_pause", "pause"}
  PROVE  Intention \in WorkTypes
<1>1. at.search \in 1 .. Len(Searches) /\ at.part \in 1 .. Len(Searches[at.search])
  BY DEF TInv, AtRun
<1>2. Searches[at.search] \in Seq(WorkTypes)
  BY <1>1, SearchesType DEF TInv
<1> QED BY <1>1, <1>2 DEF Intention

(* Where the loops go on. *)
LEMMA NextSearchType ==
  ASSUME TInv, at.pc = "pause"
  PROVE  /\ NextSearch \in Position
         /\ NextSearch.pc \in {"search", "save"}
         /\ NextSearch.pc = "search" =>
              /\ NextSearch.search \in 1 .. Len(Searches)
              /\ NextSearch.part \in 1 .. Len(Searches[NextSearch.search])
         /\ (NextSearch.pc = "search" => Behind(NextSearch) = Behind(at))
         /\ (NextSearch.pc = "save" => Behind(at) = Rounds * Len(Searches))
<1>1. PICK L \in Nat : L = Len(Searches)
  BY SearchesType DEF TInv
<1>2. /\ at \in Position /\ at.search \in 1 .. L
      /\ \A i \in 1 .. L : Len(Searches[i]) \in Nat \ {0}
  BY <1>1, SearchesType DEF TInv, Types, AtRun
<1>3. Rounds \in 1 .. 3 /\ Pages \in Nat \ {0} /\ RetryAttempts \in Nat \ {0} /\ MaxCards \in Nat
  BY ScrapeRunAssumption
<1>4. at.round \in 1 .. Rounds /\ at.search \in Nat \ {0}
  BY <1>2 DEF Position
<1>5. ASSUME NEW r \in 1 .. Rounds, NEW i \in 1 .. L
      PROVE  /\ Start(r, i) \in Position /\ Start(r, i).pc = "search"
             /\ Start(r, i).search = i /\ Start(r, i).part = 1 /\ Start(r, i).round = r
             /\ 1 \in 1 .. Len(Searches[i])
  <2>1. 1 \in 1 .. Len(Searches[i])
    BY <1>2
  <2> QED BY <1>3, <2>1 DEF Start, Position
<1>6. CASE at.search < L
  <2>1. NextSearch = Start(at.round, at.search + 1) /\ at.search + 1 \in 1 .. L
    BY <1>1, <1>2, <1>6 DEF NextSearch
  <2>2. Behind(Start(at.round, at.search + 1)) = (at.round - 1) * L + ((at.search + 1) - 1)
    BY <1>1, <1>4, <1>5, <2>1, Zenon DEF Behind, Start
  <2>3. Behind(at) = (at.round - 1) * L + at.search
    BY <1>1, Zenon DEF Behind
  <2>4. (at.search + 1) - 1 = at.search
    BY <1>4
  <2> QED BY <1>1, <1>4, <1>5, <2>1, <2>2, <2>3, <2>4
<1>7. CASE ~(at.search < L) /\ at.round < Rounds
  <2>1. /\ NextSearch = Start(at.round + 1, 1)
        /\ 1 \in 1 .. L /\ at.round + 1 \in 1 .. Rounds /\ at.search = L
    BY <1>1, <1>2, <1>3, <1>4, <1>7 DEF NextSearch
  <2>2. Behind(Start(at.round + 1, 1)) = ((at.round + 1) - 1) * L + (1 - 1)
    BY <1>1, <1>4, <1>5, <2>1, Zenon DEF Behind, Start
  <2>3. Behind(at) = (at.round - 1) * L + L
    BY <1>1, <2>1, Zenon DEF Behind
  <2>4. ((at.round + 1) - 1) * L + (1 - 1) = (at.round - 1) * L + L
    BY <1>4, SMT
  <2> QED BY <1>1, <1>5, <2>1, <2>2, <2>3, <2>4
<1>8. CASE ~(at.search < L) /\ ~(at.round < Rounds)
  <2>1. NextSearch = Stopped /\ at.search = L /\ at.round = Rounds
    BY <1>1, <1>2, <1>3, <1>4, <1>8 DEF NextSearch
  <2>2. Stopped \in Position /\ Stopped.pc = "save"
    BY <1>2 DEF Stopped, Position
  <2>3. Behind(at) = (Rounds - 1) * L + L
    BY <1>1, <2>1, Zenon DEF Behind
  <2>4. (Rounds - 1) * L + L = Rounds * L
    BY <1>3, SMT
  <2> QED BY <1>1, <2>1, <2>2, <2>3, <2>4
<1> QED BY <1>6, <1>7, <1>8

----------------------------------------------------------------------------
(* Types.                                                                  *)

LEMMA TInvInit == Init => TInv
<1> SUFFICES ASSUME Init PROVE TInv
  OBVIOUS
<1>1. Rounds \in 1 .. 3 /\ Pages \in Nat \ {0} /\ RetryAttempts \in Nat \ {0} /\ MaxCards \in Nat
  BY ScrapeRunAssumption
<1>2. at \in Position /\ at.search = 1 /\ at.part = 1 /\ at.pc \in {"search", "save"}
      /\ (at.pc = "search" => Searches # <<>>)
  BY <1>1 DEF Init, Start, Position
<1>3. Types
  BY <1>2 DEF Init, Types, WorkTypes
<1>4. AtRun
  <2>1. Searches # <<>> => 1 \in 1 .. Len(Searches)
    BY <1>3, SearchesType
  <2>2. 1 \in 1 .. Len(Searches) => 1 \in 1 .. Len(Searches[1])
    BY <1>3, SearchesType
  <2> QED BY <1>2, <2>1, <2>2 DEF AtRun
<1> QED BY <1>2, <1>3, <1>4 DEF TInv, FoundIsOfSearch, Init

LEMMA HeadAndTail ==
  ASSUME NEW R, NEW s \in Seq(R), s # <<>>
  PROVE  Head(s) \in R /\ Tail(s) \in Seq(R)
OBVIOUS

(* What a search returns. *)
LEMMA ReturnsType ==
  ASSUME TInv, at.pc \in {"search", "page_pause"},
         NEW jobs \in SUBSET Jobs, NEW err \in {"none", "failed", "budget", "lock_busy"},
         SearchReturns(jobs, err)
  PROVE  /\ all' = Append(all, [jobs |-> jobs, intention |-> Intention])
         /\ all' \in Seq([jobs : SUBSET Jobs, intention : WorkTypes])
         /\ found' = {}
         /\ scrapeErr' = IF err = "none" THEN scrapeErr ELSE err
         /\ done' = IF err = "none" THEN done + 1 ELSE done
         /\ failed' = IF err = "none" THEN failed ELSE failed + 1
         /\ done' \in Nat /\ failed' \in Nat
<1>1. [jobs |-> jobs, intention |-> Intention] \in [jobs : SUBSET Jobs, intention : WorkTypes]
  BY IntentionType
<1> QED BY <1>1 DEF SearchReturns, Batch, TInv, Types

LEMMA LinkedInFailsType ==
  ASSUME TInv, at.pc \in {"search", "page_pause"}, kind = "linkedin", LinkedInFails
  PROVE  TInv'
<1>1. SearchReturns(found, "failed") /\ found \in SUBSET Jobs
  BY DEF LinkedInFails, TInv, Types
<1>2. /\ all' \in Seq([jobs : SUBSET Jobs, intention : WorkTypes]) /\ found' = {}
      /\ scrapeErr' = "failed" /\ done' \in Nat /\ failed' \in Nat
  BY <1>1, ReturnsType
<1>3. /\ at' = [at EXCEPT !.pc = "pause"] /\ at' \in Position
      /\ UNCHANGED <<kind, ctx, skipped, stored, mark, seen, lost>>
  BY DEF LinkedInFails, TInv, Types, Position
<1>4. Types'
  BY <1>2, <1>3 DEF TInv, Types
<1>5. AtRun'
  <2>1. Searches' = Searches
    BY <1>3 DEF Searches
  <2> QED BY <1>3, <2>1 DEF TInv, Types, AtRun, Position
<1>6. FoundIsOfSearch'
  BY <1>2, <1>3 DEF TInv, Types, FoundIsOfSearch, Position
<1> QED BY <1>4, <1>5, <1>6 DEF TInv

(* Fetched jobs are those of the run that goes on. *)
LEMMA SeesType ==
  ASSUME TInv, at.pc = "search", NEW jobs \in SUBSET Jobs, Sees(jobs)
  PROVE  seen' \subseteq Jobs \X WorkTypes
BY IntentionType DEF Sees, TInv, Types

LEMMA TInvStep ==
  ASSUME TInv, [Next]_vars
  PROVE  TInv'
<1> USE DEF TInv
<1>0. at \in Position
  BY DEF Types
<1>1. CASE Page
  <2>1. PICK cards \in 0 .. MaxCards, jobs \in SUBSET Jobs :
          /\ Sees(jobs)
          /\ \/ /\ LastPage(cards)
                /\ SearchReturns(found \cup jobs, "none")
                /\ at' = [at EXCEPT !.pc = "pause"]
             \/ /\ ~LastPage(cards)
                /\ found' = found \cup jobs
                /\ at' = [at EXCEPT !.pc = "page_pause",
                           !.cards = IF at.page = 1 THEN cards ELSE @]
                /\ UNCHANGED <<all, scrapeErr, done, failed>>
    BY <1>1, Zenon DEF Page
  <2>2. /\ kind = "linkedin" /\ at.pc = "search"
        /\ UNCHANGED <<kind, ctx, skipped, stored, mark, lost>>
    BY <1>1 DEF Page, LinkedIn
  <2>3. found \cup jobs \in SUBSET Jobs
    BY DEF Types
  <2>4. /\ all' \in Seq([jobs : SUBSET Jobs, intention : WorkTypes]) /\ found' \subseteq Jobs
        /\ scrapeErr' = scrapeErr /\ done' \in Nat /\ failed' \in Nat
        /\ at'.pc = "pause" => found' = {}
    <3>1. CASE /\ SearchReturns(found \cup jobs, "none")
               /\ at' = [at EXCEPT !.pc = "pause"]
      BY <2>2, <2>3, <3>1, ReturnsType
    <3>2. CASE /\ found' = found \cup jobs
               /\ at' = [at EXCEPT !.pc = "page_pause",
                          !.cards = IF at.page = 1 THEN cards ELSE @]
               /\ UNCHANGED <<all, scrapeErr, done, failed>>
      <4>1. at'.pc = "page_pause"
        BY <1>0, <3>2 DEF Position
      <4> QED BY <2>3, <3>2, <4>1 DEF Types
    <3> QED BY <2>1, <3>1, <3>2, Zenon
  <2>5. seen' \subseteq Jobs \X WorkTypes
    BY <2>1, <2>2, SeesType
  <2>6. /\ at' \in Position /\ at'.search = at.search /\ at'.part = at.part
        /\ at'.pc \in {"pause", "page_pause"}
        /\ at'.pc = "page_pause" => at'.page < Pages
    <3>1. CASE at' = [at EXCEPT !.pc = "pause"]
      BY <1>0, <3>1 DEF Position
    <3>2. CASE /\ ~LastPage(cards)
               /\ at' = [at EXCEPT !.pc = "page_pause",
                          !.cards = IF at.page = 1 THEN cards ELSE @]
      <4>1. at.page \in 1 .. Pages /\ at.page # Pages /\ Pages \in Nat
        BY <1>0, <3>2, ScrapeRunAssumption DEF Position, LastPage
      <4>2. PICK c \in 0 .. MaxCards : at' = [at EXCEPT !.pc = "page_pause", !.cards = c]
        BY <1>0, <3>2 DEF Position
      <4>3. at' = [pc |-> "page_pause", round |-> at.round, search |-> at.search, part |-> at.part,
                   page |-> at.page, attempt |-> at.attempt, cards |-> c]
        BY <1>0, <4>2 DEF Position
      <4>4. /\ at.round \in 1 .. Rounds /\ at.search \in Nat \ {0} /\ at.part \in Nat \ {0}
            /\ at.attempt \in 1 .. RetryAttempts
        BY <1>0 DEF Position
      <4>5. at' \in Position
        BY <4>1, <4>3, <4>4 DEF Position
      <4> QED BY <4>1, <4>3, <4>5
    <3> QED BY <2>1, <3>1, <3>2, Zenon
  <2>7. Searches' = Searches
    BY <2>2 DEF Searches
  <2> QED BY <2>2, <2>4, <2>5, <2>6, <2>7 DEF Types, AtRun, FoundIsOfSearch
<1>2. CASE PagePause
  <2>1. at.pc = "page_pause" /\ kind = "linkedin" /\ at.page < Pages
    BY <1>2 DEF PagePause, FoundIsOfSearch
  <2>2. CASE ctx = "live"
    <3>1. /\ at' = [at EXCEPT !.pc = "search", !.page = @ + 1, !.attempt = 1]
          /\ UNCHANGED <<kind, ctx, found, all, scrapeErr, skipped, stored,
                         mark, done, failed, seen, lost>>
      BY <1>2, <2>2 DEF PagePause
    <3>2. /\ at' \in Position /\ at'.search = at.search /\ at'.part = at.part
          /\ at'.pc = "search"
      <4>1. at.page + 1 \in 1 .. Pages /\ 1 \in 1 .. RetryAttempts
        BY <1>0, <2>1, ScrapeRunAssumption DEF Position
      <4>2. at' = [pc |-> "search", round |-> at.round, search |-> at.search, part |-> at.part,
                   page |-> at.page + 1, attempt |-> 1, cards |-> at.cards]
        BY <1>0, <3>1 DEF Position
      <4>3. /\ at.round \in 1 .. Rounds /\ at.search \in Nat \ {0} /\ at.part \in Nat \ {0}
            /\ at.cards \in 0 .. MaxCards
        BY <1>0 DEF Position
      <4> QED BY <4>1, <4>2, <4>3 DEF Position
    <3>3. Searches' = Searches
      BY <3>1 DEF Searches
    <3> QED BY <2>1, <3>1, <3>2, <3>3 DEF Types, AtRun, FoundIsOfSearch
  <2>3. CASE ctx # "live"
    BY <1>2, <2>1, <2>3, LinkedInFailsType DEF PagePause
  <2> QED BY <2>2, <2>3
<1>3. CASE RateLimited
  <2>1. at.pc = "search" /\ kind = "linkedin"
    BY <1>3 DEF RateLimited, LinkedIn
  <2>2. CASE at.attempt < RetryAttempts
    <3>1. /\ at' = [at EXCEPT !.attempt = @ + 1]
          /\ UNCHANGED <<kind, ctx, found, all, scrapeErr, skipped, stored,
                         mark, done, failed, seen, lost>>
      BY <1>3, <2>2 DEF RateLimited
    <3>2. /\ at' \in Position /\ at'.search = at.search /\ at'.part = at.part
          /\ at'.pc = "search"
      BY <1>0, <2>1, <2>2, <3>1, ScrapeRunAssumption DEF Position
    <3>3. Searches' = Searches
      BY <3>1 DEF Searches
    <3> QED BY <2>1, <3>1, <3>2, <3>3 DEF Types, AtRun, FoundIsOfSearch
  <2>3. CASE ~(at.attempt < RetryAttempts)
    BY <1>3, <2>1, <2>3, LinkedInFailsType DEF RateLimited
  <2> QED BY <2>2, <2>3
<1>4. CASE PageFails
  BY <1>4, LinkedInFailsType DEF PageFails, LinkedIn
<1>5. CASE SkipRest
  <2>1. /\ kind = "apify" /\ at.pc = "search" /\ at' = Stopped
        /\ UNCHANGED <<kind, ctx, found, all, scrapeErr, stored, mark, done, failed, seen, lost>>
        /\ skipped' = skipped + (Len(Searches) - at.search + 1)
                        + (Rounds - at.round) * Len(Searches)
    BY <1>5 DEF SkipRest, Apify
  <2>2. skipped' \in Nat
    <3>1. PICK L \in Nat : L = Len(Searches)
      BY SearchesType
    <3>2. at.search \in 1 .. L /\ at.round \in 1 .. Rounds /\ Rounds \in Nat
      BY <1>0, <2>1, <3>1, ScrapeRunAssumption DEF AtRun, Position
    <3>3. PICK n \in Nat : n = (Rounds - at.round) * L
      <4>1. (Rounds - at.round) * L \in Nat
        BY <3>2, SMT
      <4> QED BY <4>1
    <3>4. skipped' = skipped + (L - at.search + 1) + n
      BY <2>1, <3>1, <3>3, Zenon
    <3>5. skipped \in Nat
      BY DEF Types
    <3> QED BY <3>2, <3>4, <3>5
  <2>3. at' \in Position /\ at'.pc = "save"
    BY <1>0, <2>1 DEF Position, Stopped
  <2> QED BY <2>1, <2>2, <2>3 DEF Types, AtRun, FoundIsOfSearch
<1>6. CASE RunSucceeds
  <2>1. PICK jobs \in SUBSET Jobs :
          /\ Sees(jobs)
          /\ \/ /\ at.part < Len(Searches[at.search])
                /\ all' = Append(all, Batch(jobs))
                /\ at' = [at EXCEPT !.part = @ + 1]
                /\ UNCHANGED <<found, scrapeErr, done, failed>>
             \/ /\ SearchReturns(jobs, "none")
                /\ at' = [at EXCEPT !.pc = "pause"]
    BY <1>6, Zenon DEF RunSucceeds
  <2>2. /\ kind = "apify" /\ at.pc = "search"
        /\ UNCHANGED <<kind, ctx, skipped, stored, mark, lost>>
    BY <1>6 DEF RunSucceeds, Apify
  <2>3. seen' \subseteq Jobs \X WorkTypes
    BY <2>1, <2>2, SeesType
  <2>4. Batch(jobs) \in [jobs : SUBSET Jobs, intention : WorkTypes]
    BY <2>2, IntentionType DEF Batch
  <2>5. /\ all' \in Seq([jobs : SUBSET Jobs, intention : WorkTypes])
        /\ found' = {} /\ scrapeErr' = scrapeErr /\ done' \in Nat /\ failed' \in Nat
    <3>1. CASE SearchReturns(jobs, "none")
      BY <2>2, <3>1, ReturnsType
    <3>2. CASE /\ all' = Append(all, Batch(jobs))
               /\ UNCHANGED <<found, scrapeErr, done, failed>>
      BY <2>2, <2>4, <3>2 DEF Types, FoundIsOfSearch
    <3> QED BY <2>1, <3>1, <3>2, Zenon
  <2>6. Searches' = Searches /\ Len(Searches[at.search]) \in Nat /\ at.search \in 1 .. Len(Searches)
        /\ at.part \in 1 .. Len(Searches[at.search])
    BY <2>2, SearchesType DEF Searches, AtRun
  <2>7. /\ at' \in Position /\ at'.search = at.search
        /\ at'.part \in 1 .. Len(Searches[at.search]) /\ at'.pc \in {"search", "pause"}
    BY <1>0, <2>1, <2>2, <2>6 DEF Position
  <2> QED BY <2>2, <2>3, <2>5, <2>6, <2>7 DEF Types, AtRun, FoundIsOfSearch
<1>7. CASE RunFails
  <2>1. PICK err \in {"failed", "budget", "lock_busy"}, jobs \in SUBSET Jobs :
          Sees(jobs) /\ SearchReturns(jobs, err)
    BY <1>7, Zenon DEF RunFails
  <2>2. /\ kind = "apify" /\ at.pc = "search" /\ at' = Stopped
        /\ UNCHANGED <<kind, ctx, skipped, stored, mark, lost>>
    BY <1>7 DEF RunFails, Apify
  <2>3. seen' \subseteq Jobs \X WorkTypes
    BY <2>1, <2>2, SeesType
  <2>4. /\ all' \in Seq([jobs : SUBSET Jobs, intention : WorkTypes]) /\ found' = {}
        /\ scrapeErr' = err /\ done' \in Nat /\ failed' \in Nat
    BY <2>1, <2>2, ReturnsType
  <2>5. at' \in Position /\ at'.pc = "save"
    BY <1>0, <2>2 DEF Position, Stopped
  <2> QED BY <2>2, <2>3, <2>4, <2>5 DEF Types, AtRun, FoundIsOfSearch
<1>8. CASE Pause
  <2>1. /\ at.pc = "pause"
        /\ UNCHANGED <<kind, ctx, found, all, skipped, stored, mark, done, failed, seen, lost>>
        /\ scrapeErr' \in {scrapeErr, "cancelled"}
        /\ (at' = NextSearch \/ at' = Stopped)
    BY <1>8 DEF Pause
  <2>2. /\ at' \in Position /\ at'.pc \in {"search", "save"}
        /\ at'.pc = "search" => /\ at'.search \in 1 .. Len(Searches)
                                /\ at'.part \in 1 .. Len(Searches[at'.search])
    <3>1. Stopped \in Position /\ Stopped.pc = "save"
      BY <1>0 DEF Stopped, Position
    <3> QED BY <2>1, <3>1, NextSearchType
  <2>3. Searches' = Searches
    BY <2>1 DEF Searches
  <2> QED BY <2>1, <2>2, <2>3 DEF Types, AtRun, FoundIsOfSearch
<1>9. CASE Save
  <2>1. /\ at.pc = "save" /\ all # <<>> /\ all' = Tail(all)
        /\ UNCHANGED <<kind, ctx, at, found, scrapeErr, skipped, mark, done, failed, seen>>
    BY <1>9 DEF Save
  <2>2. PICK ok \in SUBSET Head(all).jobs :
          /\ stored' = [u \in Jobs |-> IF u \in ok
                          THEN Merged(stored[u], Head(all).intention) ELSE stored[u]]
          /\ lost' = lost \cup (Head(all).jobs \ ok)
    BY <1>9, Zenon DEF Save
  <2>3. Head(all) \in [jobs : SUBSET Jobs, intention : WorkTypes]
        /\ all' \in Seq([jobs : SUBSET Jobs, intention : WorkTypes])
    BY <2>1, HeadAndTail DEF Types
  <2>4. stored' \in [Jobs -> WorkTypes \cup {"absent"}] /\ lost' \subseteq Jobs
    BY <2>2, <2>3 DEF Types, Merged
  <2> QED BY <2>1, <2>3, <2>4 DEF Types, AtRun, FoundIsOfSearch
<1>10. CASE Mark
  <2>1. /\ at.pc = "save" /\ at' = [at EXCEPT !.pc = "end"]
        /\ mark' \in {mark, Outcome}
        /\ UNCHANGED <<kind, ctx, found, all, scrapeErr, skipped, stored, done, failed,
                       seen, lost>>
    BY <1>10 DEF Mark
  <2>2. at' \in Position /\ at'.pc = "end" /\ mark' \in {"none", "success", "backoff", "period_end"}
    BY <1>0, <2>1 DEF Position, Outcome, Types
  <2> QED BY <2>1, <2>2 DEF Types, AtRun, FoundIsOfSearch
<1>11. CASE ContextEnds
  <2>1. Searches' = Searches
    BY <1>11 DEF ContextEnds, Searches
  <2> QED BY <1>11, <2>1 DEF ContextEnds, Types, AtRun, FoundIsOfSearch
<1>12. CASE UNCHANGED vars
  <2>1. Searches' = Searches
    BY <1>12 DEF vars, Searches
  <2> QED BY <1>12, <2>1 DEF vars, Types, AtRun, FoundIsOfSearch
<1> QED BY <1>1, <1>2, <1>3, <1>4, <1>5, <1>6, <1>7, <1>8, <1>9, <1>10, <1>11, <1>12
        DEF Next, Step, Finished

(* The types of every variable. *)
THEOREM TypeCorrect == Spec => []TypeOK
<1>1. TInv => TypeOK
  BY DEF TInv, Types, TypeOK, Position
<1> QED BY TInvInit, TInvStep, <1>1, PTL DEF Spec

----------------------------------------------------------------------------
(* The mark.                                                               *)

LEMMA ErrorsStep ==
  ASSUME TInv, Errors, [Next]_vars
  PROVE  Errors'
<1> USE DEF TInv
<1>0. at \in Position /\ ctx \in {"live", "ended"} /\ failed \in Nat
  BY DEF Types
<1>1. ASSUME NEW err \in {"none", "failed", "budget", "lock_busy"}, NEW jobs,
             SearchReturns(jobs, err), at.pc # "end", UNCHANGED <<ctx, mark>>
      PROVE  Errors'
  BY <1>0, <1>1 DEF SearchReturns, Errors
<1>2. CASE Page
  <2>1. at.pc # "end" /\ UNCHANGED <<ctx, mark>>
    BY <1>2 DEF Page, LinkedIn
  <2>2. (\E jobs : SearchReturns(jobs, "none")) \/ UNCHANGED <<scrapeErr, failed>>
    BY <1>2 DEF Page
  <2> QED BY <1>1, <2>1, <2>2 DEF Errors
<1>3. ASSUME LinkedInFails, at.pc # "end" PROVE Errors'
  BY <1>1, <1>3 DEF LinkedInFails
<1>4. CASE PagePause \/ RateLimited \/ PageFails
  <2>1. at.pc # "end"
    BY <1>4 DEF PagePause, RateLimited, PageFails, LinkedIn
  <2>2. LinkedInFails \/ UNCHANGED <<ctx, mark, scrapeErr, failed>>
    BY <1>4 DEF PagePause, RateLimited, PageFails
  <2> QED BY <1>3, <2>1, <2>2 DEF Errors
<1>5. CASE RunSucceeds
  <2>1. at.pc # "end" /\ UNCHANGED <<ctx, mark>>
    BY <1>5 DEF RunSucceeds, Apify
  <2>2. (\E jobs : SearchReturns(jobs, "none")) \/ UNCHANGED <<scrapeErr, failed>>
    BY <1>5 DEF RunSucceeds
  <2> QED BY <1>1, <2>1, <2>2 DEF Errors
<1>6. CASE RunFails
  <2>1. at.pc # "end" /\ UNCHANGED <<ctx, mark>>
    BY <1>6 DEF RunFails, Apify
  <2>2. PICK err \in {"failed", "budget", "lock_busy"}, jobs \in SUBSET Jobs :
          SearchReturns(jobs, err)
    BY <1>6, Zenon DEF RunFails
  <2> QED BY <1>1, <2>1, <2>2
<1>7. CASE SkipRest \/ Save
  BY <1>7 DEF SkipRest, Apify, Save, Errors
<1>8. CASE Pause
  BY <1>0, <1>8 DEF Pause, Errors
<1>9. CASE Mark
  BY <1>0, <1>9 DEF Mark, Errors, Position
<1>10. CASE ContextEnds \/ UNCHANGED vars
  BY <1>10 DEF ContextEnds, vars, Errors
<1> QED BY <1>2, <1>4, <1>5, <1>6, <1>7, <1>8, <1>9, <1>10 DEF Next, Step, Finished

LEMMA MarkStep ==
  ASSUME TInv, Errors, MarkIsTrue, [Next]_vars
  PROVE  MarkIsTrue'
<1>1. CASE Mark
  <2>1. UNCHANGED <<failed, scrapeErr, ctx>> /\ failed \in Nat
        /\ (mark' = mark \/ (ctx = "live" /\ mark' = Outcome))
    BY <1>1 DEF Mark, TInv, Types
  <2>2. CASE mark' = mark
    BY <2>1, <2>2 DEF MarkIsTrue
  <2>3. CASE ctx = "live" /\ mark' = Outcome
    BY <2>1, <2>3 DEF MarkIsTrue, Outcome, Errors, TInv, Types
  <2> QED BY <2>1, <2>2, <2>3
<1>2. CASE ~Mark
  <2>1. mark' = mark
    BY <1>2 DEF Next, Step, vars, Page, PagePause, RateLimited, PageFails, LinkedInFails, SkipRest,
      RunSucceeds, RunFails, Pause, Save, ContextEnds, Finished
  <2>2. at.pc = "end" => failed' = failed
    BY <1>2 DEF Next, Step, vars, Page, LinkedIn, PagePause, RateLimited, PageFails, SkipRest, Apify,
      RunSucceeds, RunFails, Pause, Save, ContextEnds, Finished
  <2>3. mark # "none" => at.pc = "end"
    BY DEF Errors
  <2> QED BY <2>1, <2>2, <2>3 DEF MarkIsTrue
<1> QED BY <1>1, <1>2

(* Whatever fails, and in whichever order, a scrape with a failed search   *)
(* is never marked as a success, and no failure is marked without one.     *)
THEOREM MarksAreTrue == Spec => []MarkIsTrue
<1>1. Init => Errors /\ MarkIsTrue
  BY DEF Init, Errors, MarkIsTrue
<1> QED BY TInvInit, TInvStep, ErrorsStep, MarkStep, <1>1, PTL DEF Spec

----------------------------------------------------------------------------
(* Nothing is dropped on the way to the table.                             *)

(* What a batch that is appended, or that is saved, does to the rest.      *)
LEMMA AppendKeeps ==
  ASSUME NEW R, NEW s \in Seq(R), NEW e \in R
  PROVE  /\ Len(Append(s, e)) = Len(s) + 1
         /\ \A i \in 1 .. Len(s) : i \in 1 .. Len(Append(s, e)) /\ Append(s, e)[i] = s[i]
         /\ Len(s) + 1 \in 1 .. Len(Append(s, e)) /\ Append(s, e)[Len(s) + 1] = e
OBVIOUS

LEMMA TailKeeps ==
  ASSUME NEW R, NEW s \in Seq(R), s # <<>>, NEW i \in 1 .. Len(s)
  PROVE  s[i] = Head(s) \/ \E j \in 1 .. Len(Tail(s)) : Tail(s)[j] = s[i]
<1>1. CASE i = 1
  BY <1>1
<1>2. CASE i # 1
  <2>1. i - 1 \in 1 .. Len(Tail(s)) /\ Tail(s)[i - 1] = s[i]
    BY <1>2
  <2> QED BY <2>1
<1> QED BY <1>1, <1>2

(* A batch that takes up what the search has found and fetched keeps it.   *)
LEMMA BatchKeeps ==
  ASSUME TInv, NothingDropped, at.pc \in {"search", "page_pause"},
         NEW jobs \in SUBSET Jobs, found \subseteq jobs,
         NEW more \in SUBSET (jobs \X {Intention}), seen' = seen \cup more,
         all' = Append(all, [jobs |-> jobs, intention |-> Intention]),
         UNCHANGED <<stored, lost>>
  PROVE  NothingDropped'
<1> DEFINE R == [jobs : SUBSET Jobs, intention : WorkTypes]
           b == [jobs |-> jobs, intention |-> Intention]
<1>1. b \in R /\ all \in Seq(R)
  BY IntentionType DEF TInv, Types
<1>2. /\ \A i \in 1 .. Len(all) : i \in 1 .. Len(all') /\ all'[i] = all[i]
      /\ Len(all) + 1 \in 1 .. Len(all') /\ all'[Len(all) + 1] = b
  BY <1>1, AppendKeeps
<1>3. \A f : f[1] \in jobs => Kept(f)'
  BY <1>2 DEF Kept
<1>4. \A f : f[1] \in jobs /\ Intention = "onsite" => KeptOnsite(f)'
  BY <1>2 DEF KeptOnsite
<1>5. ASSUME NEW f \in seen PROVE Kept(f)' /\ KeptOnsite(f)'
  <2>1. Kept(f) /\ KeptOnsite(f)
    BY DEF NothingDropped
  <2>2. Kept(f)'
    BY <1>2, <1>3, <2>1 DEF Kept
  <2>3. KeptOnsite(f)'
    BY <1>2, <1>4, <2>1 DEF KeptOnsite
  <2> QED BY <2>2, <2>3
<1>6. ASSUME NEW f \in more PROVE Kept(f)' /\ KeptOnsite(f)'
  <2>1. f[1] \in jobs /\ f[2] = Intention
    OBVIOUS
  <2>2. f[2] # "onsite" => KeptOnsite(f)'
    BY DEF KeptOnsite
  <2> QED BY <1>3, <1>4, <2>1, <2>2
<1> QED BY <1>5, <1>6 DEF NothingDropped

(* Steps that only move the loops, while nothing waits in found.           *)
LEMMA MovesKeep ==
  ASSUME NothingDropped, UNCHANGED <<found, all, stored, seen, lost>>,
         found = {} \/ Intention' = Intention
  PROVE  NothingDropped'
BY DEF NothingDropped, Kept, KeptOnsite

LEMMA SaveKeeps ==
  ASSUME TInv, NothingDropped, Save
  PROVE  NothingDropped'
<1> DEFINE R == [jobs : SUBSET Jobs, intention : WorkTypes]
<1>1. /\ at.pc = "save" /\ all # <<>> /\ all' = Tail(all)
      /\ UNCHANGED <<at, kind, found, seen>>
  BY DEF Save
<1>2. PICK ok \in SUBSET Head(all).jobs :
        /\ stored' = [u \in Jobs |-> IF u \in ok
                        THEN Merged(stored[u], Head(all).intention) ELSE stored[u]]
        /\ lost' = lost \cup (Head(all).jobs \ ok)
  BY Zenon DEF Save
<1>3. all \in Seq(R) /\ Head(all) \in R /\ found = {} /\ seen \subseteq Jobs \X WorkTypes
  BY <1>1, HeadAndTail DEF TInv, Types, FoundIsOfSearch
<1>4. \A i \in 1 .. Len(all) : all[i] = Head(all) \/ \E j \in 1 .. Len(all') : all'[j] = all[i]
  BY <1>1, <1>3, TailKeeps
<1>5. Head(all).intention \in WorkTypes /\ "absent" \notin WorkTypes
  BY <1>3 DEF WorkTypes
<1>6. ASSUME NEW u \in Jobs
      PROVE  /\ stored[u] # "absent" => stored'[u] # "absent"
             /\ stored[u] = "onsite" => stored'[u] = "onsite"
             /\ u \in Head(all).jobs => stored'[u] # "absent" \/ u \in lost'
             /\ u \in Head(all).jobs /\ Head(all).intention = "onsite" =>
                  stored'[u] = "onsite" \/ u \in lost'
  BY <1>2, <1>5 DEF Merged
<1>7. ASSUME NEW f \in seen PROVE Kept(f)' /\ KeptOnsite(f)'
  <2>1. f[1] \in Jobs /\ Kept(f) /\ KeptOnsite(f)
    BY <1>3 DEF NothingDropped
  <2>2. lost \subseteq lost'
    BY <1>2
  <2>3. Kept(f)'
    <3>1. CASE \E i \in 1 .. Len(all) : f[1] \in all[i].jobs
      <4>1. PICK i \in 1 .. Len(all) : f[1] \in all[i].jobs
        BY <3>1
      <4>2. CASE all[i] = Head(all)
        BY <1>6, <2>1, <4>1, <4>2 DEF Kept
      <4>3. CASE \E j \in 1 .. Len(all') : all'[j] = all[i]
        BY <4>1, <4>3 DEF Kept
      <4> QED BY <1>4, <4>2, <4>3
    <3>2. CASE stored[f[1]] # "absent" \/ f[1] \in lost
      BY <1>6, <2>1, <2>2, <3>2 DEF Kept
    <3> QED BY <1>3, <2>1, <3>1, <3>2 DEF Kept
  <2>4. KeptOnsite(f)'
    <3> SUFFICES ASSUME f[2] = "onsite" PROVE KeptOnsite(f)'
      BY DEF KeptOnsite
    <3>1. CASE \E i \in 1 .. Len(all) : f[1] \in all[i].jobs /\ all[i].intention = "onsite"
      <4>1. PICK i \in 1 .. Len(all) : f[1] \in all[i].jobs /\ all[i].intention = "onsite"
        BY <3>1
      <4>2. CASE all[i] = Head(all)
        BY <1>6, <2>1, <4>1, <4>2 DEF KeptOnsite
      <4>3. CASE \E j \in 1 .. Len(all') : all'[j] = all[i]
        BY <4>1, <4>3 DEF KeptOnsite
      <4> QED BY <1>4, <4>2, <4>3
    <3>2. CASE stored[f[1]] = "onsite" \/ f[1] \in lost
      BY <1>6, <2>1, <2>2, <3>2 DEF KeptOnsite
    <3> QED BY <1>3, <2>1, <3>1, <3>2 DEF KeptOnsite
  <2> QED BY <2>3, <2>4
<1> QED BY <1>1, <1>7 DEF NothingDropped

LEMMA KeptStep ==
  ASSUME TInv, NothingDropped, [Next]_vars
  PROVE  NothingDropped'
<1>0. at \in Position /\ found \in SUBSET Jobs
  BY DEF TInv, Types
<1>1. ASSUME NEW jobs \in SUBSET Jobs, NEW err, at.pc \in {"search", "page_pause"},
             SearchReturns(found \cup jobs, err), UNCHANGED <<stored, lost>>, Sees(jobs)
      PROVE  NothingDropped'
  <2>1. PICK more \in SUBSET ((found \cup jobs) \X {Intention}) : seen' = seen \cup more
    BY <1>1 DEF Sees
  <2>2. all' = Append(all, [jobs |-> found \cup jobs, intention |-> Intention])
    BY <1>1 DEF SearchReturns, Batch
  <2>3. found \cup jobs \in SUBSET Jobs /\ found \subseteq found \cup jobs
    BY <1>0
  <2> QED BY <1>1, <2>1, <2>2, <2>3, BatchKeeps
<1>2. CASE Page
  <2>1. /\ at.pc = "search" /\ UNCHANGED <<kind, stored, lost>>
    BY <1>2 DEF Page, LinkedIn
  <2>2. PICK cards \in 0 .. MaxCards, jobs \in SUBSET Jobs :
          /\ Sees(jobs)
          /\ \/ SearchReturns(found \cup jobs, "none")
             \/ /\ found' = found \cup jobs
                /\ at' = [at EXCEPT !.pc = "page_pause",
                           !.cards = IF at.page = 1 THEN cards ELSE @]
                /\ UNCHANGED <<all, scrapeErr, done, failed>>
    BY <1>2, Zenon DEF Page
  <2>3. CASE SearchReturns(found \cup jobs, "none")
    BY <1>1, <2>1, <2>2, <2>3
  <2>4. CASE /\ found' = found \cup jobs
             /\ at' = [at EXCEPT !.pc = "page_pause",
                        !.cards = IF at.page = 1 THEN cards ELSE @]
             /\ UNCHANGED <<all, scrapeErr, done, failed>>
    <3>1. Intention' = Intention
      BY <1>0, <2>1, <2>4 DEF Intention, Searches, Position
    <3>2. seen' = seen \cup (jobs \X {Intention})
      BY <2>2 DEF Sees
    <3>3. ASSUME NEW f \in seen PROVE Kept(f)' /\ KeptOnsite(f)'
      BY <2>1, <2>4, <3>1, <3>3 DEF NothingDropped, Kept, KeptOnsite
    <3>4. ASSUME NEW f \in jobs \X {Intention} PROVE Kept(f)' /\ KeptOnsite(f)'
      <4>1. f[1] \in found' /\ f[2] = Intention'
        BY <2>4, <3>1, <3>4
      <4> QED BY <4>1 DEF Kept, KeptOnsite
    <3> QED BY <3>2, <3>3, <3>4 DEF NothingDropped
  <2> QED BY <2>2, <2>3, <2>4
<1>3. CASE PagePause \/ RateLimited \/ PageFails
  <2>1. at.pc \in {"search", "page_pause"}
    BY <1>3 DEF PagePause, RateLimited, PageFails, LinkedIn
  <2>2. CASE LinkedInFails
    <3>1. /\ all' = Append(all, [jobs |-> found, intention |-> Intention])
          /\ UNCHANGED <<stored, lost, seen>>
      BY <2>2 DEF LinkedInFails, SearchReturns, Batch
    <3>2. PICK more \in SUBSET (found \X {Intention}) : more = {}
      OBVIOUS
    <3>3. seen' = seen \cup more
      BY <3>1, <3>2
    <3> QED BY <1>0, <2>1, <3>1, <3>3, BatchKeeps
  <2>3. CASE ~LinkedInFails
    <3>1. UNCHANGED <<kind, found, all, stored, seen, lost>>
      BY <1>3, <2>3 DEF PagePause, RateLimited, PageFails
    <3>2. \/ at' = [at EXCEPT !.pc = "search", !.page = @ + 1, !.attempt = 1]
          \/ at' = [at EXCEPT !.attempt = @ + 1]
      BY <1>3, <2>3 DEF PagePause, RateLimited, PageFails
    <3>3. at'.search = at.search /\ at'.part = at.part
      BY <1>0, <3>2 DEF Position
    <3>4. Intention' = Intention
      BY <3>1, <3>3 DEF Intention, Searches
    <3> QED BY <3>1, <3>4, MovesKeep
  <2> QED BY <2>2, <2>3
<1>4. CASE RunSucceeds
  <2>1. /\ at.pc = "search" /\ kind = "apify" /\ UNCHANGED <<stored, lost>>
    BY <1>4 DEF RunSucceeds, Apify
  <2>2. PICK jobs \in SUBSET Jobs :
          /\ Sees(jobs)
          /\ all' = Append(all, [jobs |-> jobs, intention |-> Intention])
    BY <1>4 DEF RunSucceeds, SearchReturns, Batch
  <2>3. found \subseteq jobs /\ seen' = seen \cup (jobs \X {Intention})
    BY <2>1, <2>2 DEF TInv, FoundIsOfSearch, Sees
  <2> QED BY <2>1, <2>2, <2>3, BatchKeeps
<1>5. CASE RunFails
  <2>1. /\ at.pc = "search" /\ kind = "apify" /\ UNCHANGED <<stored, lost>>
    BY <1>5 DEF RunFails, Apify
  <2>2. PICK jobs \in SUBSET Jobs :
          /\ Sees(jobs)
          /\ all' = Append(all, [jobs |-> jobs, intention |-> Intention])
    BY <1>5 DEF RunFails, SearchReturns, Batch
  <2>3. found \subseteq jobs /\ seen' = seen \cup (jobs \X {Intention})
    BY <2>1, <2>2 DEF TInv, FoundIsOfSearch, Sees
  <2> QED BY <2>1, <2>2, <2>3, BatchKeeps
<1>6. CASE SkipRest \/ Pause \/ Mark
  <2>1. found = {} /\ UNCHANGED <<found, all, stored, seen, lost>>
    BY <1>6 DEF SkipRest, Apify, Pause, Mark, TInv, FoundIsOfSearch
  <2> QED BY <2>1, MovesKeep
<1>7. CASE Save
  BY <1>7, SaveKeeps
<1>8. CASE ContextEnds \/ UNCHANGED vars
  <2>1. UNCHANGED <<kind, at, found, all, stored, seen, lost>>
    BY <1>8 DEF ContextEnds, vars
  <2>2. Intention' = Intention
    BY <2>1 DEF Intention, Searches
  <2> QED BY <2>1, <2>2, MovesKeep
<1> QED BY <1>2, <1>3, <1>4, <1>5, <1>6, <1>7, <1>8 DEF Next, Step, Finished

(* A scrape that is over has saved every batch. *)
Drained == at.pc = "end" => all = <<>>

LEMMA DrainedStep ==
  ASSUME TInv, Drained, [Next]_vars
  PROVE  Drained'
<1>1. CASE Mark
  BY <1>1 DEF Mark, Drained
<1>2. CASE ~Mark
  <2>1. at'.pc = "end" => at.pc = "end" /\ all' = all
    <3>0. at \in Position
      BY DEF TInv, Types
    <3>1. CASE Page \/ PagePause \/ RateLimited \/ PageFails
      <4>1. at.pc \in {"search", "page_pause"}
        BY <3>1 DEF Page, PagePause, RateLimited, PageFails, LinkedIn
      <4>2. \/ at' = [at EXCEPT !.pc = "pause"]
            \/ \E c : at' = [at EXCEPT !.pc = "page_pause", !.cards = c]
            \/ at' = [at EXCEPT !.pc = "search", !.page = @ + 1, !.attempt = 1]
            \/ at' = [at EXCEPT !.attempt = @ + 1]
        BY <3>1 DEF Page, PagePause, RateLimited, PageFails, LinkedInFails
      <4> QED BY <3>0, <4>1, <4>2 DEF Position
    <3>2. CASE SkipRest \/ RunFails
      BY <3>0, <3>2 DEF SkipRest, RunFails, Stopped, Position
    <3>3. CASE RunSucceeds
      BY <3>0, <3>3 DEF RunSucceeds, Apify, Position
    <3>4. CASE Pause
      <4>1. at.pc = "pause" /\ (at' = NextSearch \/ at' = Stopped)
        BY <3>4 DEF Pause
      <4>2. Stopped.pc = "save"
        BY <3>0 DEF Stopped, Position
      <4> QED BY <4>1, <4>2, NextSearchType
    <3>5. CASE Save \/ ContextEnds \/ UNCHANGED vars
      BY <3>5 DEF Save, ContextEnds, vars
    <3> QED BY <1>2, <3>1, <3>2, <3>3, <3>4, <3>5 DEF Next, Step, Finished
  <2> QED BY <2>1 DEF Drained
<1> QED BY <1>1, <1>2

LEMMA NothingWaits ==
  ASSUME TInv, Drained, Saved
  PROVE  found = {} /\ all = <<>> /\ Len(all) = 0
BY DEF TInv, FoundIsOfSearch, Drained, Saved

(* Whatever failed later, what was fetched is in the table at the end,     *)
(* unless its insert failed.                                               *)
THEOREM FetchedReachesTable == Spec => []FetchedIsStored
<1>1. TInv /\ NothingDropped /\ Drained => FetchedIsStored
  <2> SUFFICES ASSUME TInv, NothingDropped, Drained, Saved, NEW f \in seen
               PROVE  stored[f[1]] # "absent" \/ f[1] \in lost
    BY DEF FetchedIsStored
  <2>1. found = {} /\ Len(all) = 0
    BY NothingWaits
  <2> QED BY <2>1 DEF NothingDropped, Kept
<1>2. Init => NothingDropped /\ Drained
  BY DEF Init, NothingDropped, Drained, Start
<1> QED BY TInvInit, TInvStep, KeptStep, DrainedStep, <1>1, <1>2, PTL DEF Spec

(* An onsite search decides over all others, before and after it. *)
THEOREM OnsiteDecides == Spec => []OnsiteWins
<1>1. TInv /\ NothingDropped /\ Drained => OnsiteWins
  <2> SUFFICES ASSUME TInv, NothingDropped, Drained, Saved, NEW f \in seen, f[2] = "onsite"
               PROVE  stored[f[1]] = "onsite" \/ f[1] \in lost
    BY DEF OnsiteWins
  <2>1. found = {} /\ Len(all) = 0
    BY NothingWaits
  <2> QED BY <2>1 DEF NothingDropped, KeptOnsite
<1>2. Init => NothingDropped /\ Drained
  BY DEF Init, NothingDropped, Drained, Start
<1> QED BY TInvInit, TInvStep, KeptStep, DrainedStep, <1>1, <1>2, PTL DEF Spec

----------------------------------------------------------------------------
(* The searches add up.                                                    *)

(* A search that returns is counted once. *)
LEMMA ReturnCounts ==
  ASSUME TInv, Counted, at.pc \in {"search", "page_pause"}, NEW jobs, NEW err,
         SearchReturns(jobs, err), at' = [at EXCEPT !.pc = "pause"], UNCHANGED <<kind, skipped>>
  PROVE  Counted'
<1>1. at \in Position /\ done \in Nat /\ failed \in Nat
  BY DEF TInv, Types
<1>2. done' + failed' = done + failed + 1
  BY <1>1 DEF SearchReturns
<1>3. PICK L \in Nat : L = Len(Searches) /\ L = Len(Searches)'
  BY SearchesType DEF TInv, Searches
<1>4. /\ at'.pc = "pause" /\ at'.round = at.round /\ at'.search = at.search
      /\ at.search \in Nat \ {0} /\ at.round \in 1 .. Rounds
  BY <1>1 DEF Position
<1>5. PICK k \in Int : k = (at.round - 1) * L
  BY <1>3, <1>4, ScrapeRunAssumption, SMT
<1>6. Behind(at) = k + (at.search - 1)
  BY <1>3, <1>5, Zenon DEF Behind
<1>7. Behind(at)' = k + at.search
  BY <1>3, <1>4, <1>5, Zenon DEF Behind
<1>8. Behind(at)' = Behind(at) + 1
  BY <1>4, <1>6, <1>7
<1> QED BY <1>1, <1>2, <1>4, <1>6, <1>8 DEF Counted

(* A step within one search counts nothing. *)
LEMMA SameSearchCounts ==
  ASSUME TInv, Counted, at.pc \in {"search", "page_pause"}, at'.pc \in {"search", "page_pause"},
         at'.round = at.round, at'.search = at.search,
         UNCHANGED <<kind, skipped, done, failed>>
  PROVE  Counted'
<1>1. Searches' = Searches
  BY DEF Searches
<1>2. Behind(at)' = Behind(at)
  BY <1>1 DEF Behind
<1> QED BY <1>2 DEF Counted

(* The rounds before, the current one and those left are all.              *)
LEMMA RoundsAddUp ==
  ASSUME NEW r \in Int, NEW n \in Int, NEW l \in Int
  PROVE  \E a \in Int, b \in Int : a = (r - 1) * l /\ b = (n - r) * l /\ a + l + b = n * l
<1>1. (r - 1) * l \in Int /\ (n - r) * l \in Int /\ (r - 1) * l + l + (n - r) * l = n * l
  BY SMT
<1> QED BY <1>1

LEMMA CountedStep ==
  ASSUME TInv, Counted, [Next]_vars
  PROVE  Counted'
<1>0. at \in Position /\ done \in Nat /\ failed \in Nat /\ skipped \in Nat
      /\ kind \in {"linkedin", "apify"} /\ ctx \in {"live", "ended"}
  BY DEF TInv, Types
<1>1. CASE Page \/ PagePause \/ RateLimited \/ PageFails
  <2>1. at.pc \in {"search", "page_pause"}
    BY <1>1 DEF Page, PagePause, RateLimited, PageFails, LinkedIn
  <2>2. CASE \E jobs, err : SearchReturns(jobs, err) /\ at' = [at EXCEPT !.pc = "pause"]
                              /\ UNCHANGED <<kind, skipped>>
    BY <2>1, <2>2, ReturnCounts
  <2>3. CASE /\ UNCHANGED <<kind, skipped, done, failed>>
             /\ \/ \E c : at' = [at EXCEPT !.pc = "page_pause", !.cards = c]
                \/ at' = [at EXCEPT !.pc = "search", !.page = @ + 1, !.attempt = 1]
                \/ at' = [at EXCEPT !.attempt = @ + 1]
    <3>1. /\ at'.round = at.round /\ at'.search = at.search
          /\ at'.pc \in {"search", "page_pause"}
      BY <1>0, <2>1, <2>3 DEF Position
    <3> QED BY <2>1, <2>3, <3>1, SameSearchCounts
  <2> QED BY <1>1, <2>2, <2>3 DEF Page, PagePause, RateLimited, PageFails, LinkedInFails
<1>2. CASE RunSucceeds
  <2>1. at.pc = "search" /\ UNCHANGED <<kind, skipped>>
    BY <1>2 DEF RunSucceeds, Apify
  <2>2. CASE \E jobs : SearchReturns(jobs, "none") /\ at' = [at EXCEPT !.pc = "pause"]
    BY <2>1, <2>2, ReturnCounts
  <2>3. CASE at' = [at EXCEPT !.part = @ + 1] /\ UNCHANGED <<done, failed>>
    <3>1. at'.round = at.round /\ at'.search = at.search /\ at'.pc = "search"
      BY <1>0, <2>1, <2>3 DEF Position
    <3> QED BY <2>1, <2>3, <3>1, SameSearchCounts
  <2> QED BY <1>2, <2>2, <2>3 DEF RunSucceeds
<1>3. CASE RunFails
  <2>1. /\ at.pc = "search" /\ at' = Stopped /\ UNCHANGED <<kind, skipped>>
        /\ kind = "apify"
    BY <1>3 DEF RunFails, Apify
  <2>2. failed' = failed + 1
    BY <1>3 DEF RunFails, SearchReturns
  <2>3. at'.pc = "save" /\ failed' # 0
    BY <1>0, <2>1, <2>2 DEF Stopped, Position
  <2> QED BY <2>1, <2>3 DEF Counted
<1>4. CASE SkipRest
  <2>1. /\ at.pc = "search" /\ at' = Stopped /\ UNCHANGED <<kind, done, failed>>
        /\ skipped' = skipped + (Len(Searches) - at.search + 1)
                        + (Rounds - at.round) * Len(Searches)
    BY <1>4 DEF SkipRest, Apify
  <2>2. PICK L \in Nat : L = Len(Searches) /\ L = Len(Searches)'
    BY <2>1, SearchesType DEF TInv, Searches
  <2>3. at'.pc = "save" /\ at.search \in Nat /\ at.round \in 1 .. Rounds /\ Rounds \in Nat
    <3>1. Stopped.pc = "save"
      BY <1>0 DEF Stopped, Position
    <3>2. at.search \in Nat /\ at.round \in 1 .. Rounds
      BY <1>0 DEF Position
    <3>3. Rounds \in Nat
      BY ScrapeRunAssumption
    <3> QED BY <2>1, <3>1, <3>2, <3>3
  <2>4. skipped = 0 /\ done + failed = (at.round - 1) * L + (at.search - 1)
    <3>1. Behind(at) = (at.round - 1) * L + (at.search - 1)
      BY <2>1, <2>2, Zenon DEF Behind
    <3> QED BY <2>1, <3>1 DEF Counted
  <2>5. PICK k \in Int, n \in Int :
          k = (at.round - 1) * L /\ n = (Rounds - at.round) * L /\ k + L + n = Rounds * L
    <3>1. at.round \in Int /\ Rounds \in Int /\ L \in Int
      BY <2>2, <2>3
    <3> QED BY <3>1, RoundsAddUp, Zenon
  <2>6. PICK i \in Int, d \in Int, e \in Int : i = at.search /\ d = done /\ e = failed
    BY <1>0, <2>3
  <2>7. d + e = k + (i - 1) /\ done' = d /\ failed' = e /\ skipped' = (0 + (L - i + 1)) + n
    BY <2>1, <2>2, <2>4, <2>5, <2>6, Zenon
  <2>8. done' + failed' + skipped' = Rounds * L
    <3>2. d + e = k + (i - 1) /\ L \in Int
      BY <2>2, <2>7
    <3>1. d + e + ((0 + (L - i + 1)) + n) = k + L + n
      BY <3>2
    <3> QED BY <2>5, <2>7, <3>1, Zenon
  <2> QED BY <2>2, <2>3, <2>8 DEF Counted
<1>5. CASE Pause
  <2>1. at.pc = "pause" /\ UNCHANGED <<kind, ctx, skipped, done, failed>>
    BY <1>5 DEF Pause
  <2>2. Searches' = Searches /\ skipped = 0 /\ done + failed = Behind(at)
    BY <2>1 DEF Searches, Counted
  <2>3. CASE ctx # "live"
    <3>1. at' = Stopped /\ Stopped.pc = "save"
      BY <1>0, <1>5, <2>3 DEF Pause, Stopped, Position
    <3> QED BY <2>1, <2>3, <3>1 DEF Counted
  <2>4. CASE ctx = "live"
    <3>1. at' = NextSearch
      BY <1>5, <2>4 DEF Pause
    <3>2. Behind(at)' = Behind(NextSearch)
      BY <2>2, <3>1 DEF Behind
    <3>3. CASE NextSearch.pc = "search"
      <4>1. done' + failed' = Behind(at)'
        BY <2>1, <2>2, <3>2, <3>3, NextSearchType
      <4> QED BY <2>1, <2>2, <3>1, <3>3, <4>1 DEF Counted
    <3>4. CASE NextSearch.pc = "save"
      <4>1. done + failed + skipped = Rounds * Len(Searches)
        BY <1>0, <2>1, <2>2, <3>4, NextSearchType
      <4> QED BY <2>1, <2>2, <3>1, <3>4, <4>1 DEF Counted
    <3> QED BY <2>1, <3>3, <3>4, NextSearchType
  <2> QED BY <2>3, <2>4
<1>6. CASE Save \/ Mark
  <2>1. /\ at.pc = "save" /\ at'.pc \in {"save", "end"}
        /\ UNCHANGED <<kind, ctx, skipped, done, failed>>
    BY <1>0, <1>6 DEF Save, Mark, Position
  <2>2. Searches' = Searches
    BY <2>1 DEF Searches
  <2> QED BY <2>1, <2>2 DEF Counted
<1>7. CASE ContextEnds \/ UNCHANGED vars
  <2>1. UNCHANGED <<kind, at, skipped, done, failed>> /\ (ctx' = "live" => ctx = "live")
    BY <1>7 DEF ContextEnds, vars
  <2>2. Searches' = Searches
    BY <2>1 DEF Searches
  <2>3. Behind(at)' = Behind(at)
    BY <2>1, <2>2 DEF Behind
  <2> QED BY <2>1, <2>2, <2>3 DEF Counted
<1> QED BY <1>1, <1>2, <1>3, <1>4, <1>5, <1>6, <1>7 DEF Next, Step, Finished

(* A scrape that was not cut short has tried every search of every round,  *)
(* or reports it as skipped.                                               *)
THEOREM EverySearchIsCounted == Spec => []SearchesAreCounted
<1>1. TInv /\ Counted => SearchesAreCounted
  BY DEF Counted, SearchesAreCounted, Saved
<1>2. Init => Counted
  <2> SUFFICES ASSUME Init PROVE Counted
    OBVIOUS
  <2>1. TInv
    BY TInvInit
  <2>2. PICK L \in Nat : L = Len(Searches) /\ (Searches = <<>> => L = 0)
    BY <2>1, SearchesType DEF TInv
  <2>3. done = 0 /\ failed = 0 /\ skipped = 0
    BY DEF Init
  <2>4. /\ at.pc = IF Searches = <<>> THEN "save" ELSE "search"
        /\ at.search = 1 /\ at.round = 1
    BY DEF Init, Start
  <2>5. CASE Searches = <<>>
    <3>1. Rounds * L = 0
      BY <2>2, <2>5, ScrapeRunAssumption
    <3> QED BY <2>2, <2>3, <2>4, <2>5, <3>1 DEF Counted
  <2>6. CASE Searches # <<>>
    <3>1. Behind(at) = (1 - 1) * L + (1 - 1)
      BY <2>2, <2>4, <2>6 DEF Behind
    <3>2. Behind(at) = 0
      BY <2>2, <3>1
    <3> QED BY <2>3, <2>4, <2>6, <3>2 DEF Counted
  <2> QED BY <2>5, <2>6
<1> QED BY TInvInit, TInvStep, CountedStep, <1>1, <1>2, PTL DEF Spec

----------------------------------------------------------------------------
(* What is left of a scrape: eight numbers, of which the first that a step *)
(* changes becomes smaller.  They are the context; the phase; the rounds,  *)
(* or the batches to save; the searches of the round; the pause after a    *)
(* search; its pages or runs; the pause after a page; the attempts.        *)
Searching == at.pc \in {"search", "page_pause", "pause"}

Rank ==
  [i \in 1 .. 8 |->
    CASE i = 1 -> IF ctx = "live" THEN 1 ELSE 0
      [] i = 2 -> IF Searching THEN 2 ELSE IF at.pc = "save" THEN 1 ELSE 0
      [] i = 3 -> IF Searching THEN Rounds - at.round ELSE Len(all)
      [] i = 4 -> IF Searching THEN Len(Searches) - at.search ELSE 0
      [] i = 5 -> IF Searching /\ at.pc # "pause" THEN 1 ELSE 0
      [] i = 6 -> IF ~Searching THEN 0
                  ELSE IF kind = "linkedin" THEN Pages - at.page
                  ELSE Len(Searches[at.search]) - at.part
      [] i = 7 -> IF at.pc = "search" THEN 1 ELSE 0
      [] i = 8 -> RetryAttempts - at.attempt]

(* The first of the numbers that differ is smaller in a than in b. *)
Lower == LexProductOrdering(OpToRel(<, Nat), Nat, 8)

(* A step makes Rank lower. *)
UsesUp == <<Rank', Rank>> \in Lower

LEMMA LowerIsWellFounded == IsWellFoundedOn(Lower, [1 .. 8 -> Nat])
<1>1. IsWellFoundedOn(OpToRel(<, Nat), Nat)
  BY NatLessThanWellFounded
<1> QED
  BY <1>1, WFLexProductOrdering DEF Lower

LEMMA LowerAt ==
  ASSUME NEW a \in [1 .. 8 -> Nat], NEW b \in [1 .. 8 -> Nat], NEW j \in 1 .. 8,
         a[j] < b[j], \A i \in 1 .. 8 : i < j => a[i] = b[i]
  PROVE  <<a, b>> \in Lower
<1> DEFINE R == OpToRel(<, Nat)
<1>1. <<a[j], b[j]>> \in R
  BY DEF OpToRel
<1>2. \A i \in 1 .. (j - 1) : a[i] = b[i]
  OBVIOUS
<1> HIDE DEF R
<1>3. <<a, b>> \in LexProductOrdering(R, Nat, 8)
  BY <1>1, <1>2 DEF LexProductOrdering
<1> QED
  BY <1>3 DEF Lower, R

LEMMA RankType == TInv => Rank \in [1 .. 8 -> Nat]
<1> SUFFICES ASSUME TInv PROVE Rank \in [1 .. 8 -> Nat]
  OBVIOUS
<1>1. /\ at \in Position /\ Len(all) \in Nat /\ Len(Searches) \in Nat
      /\ kind \in {"linkedin", "apify"}
  BY SearchesType DEF TInv, Types
<1>2. Searching => /\ at.search \in 1 .. Len(Searches)
                   /\ at.part \in 1 .. Len(Searches[at.search])
                   /\ Len(Searches[at.search]) \in Nat
  BY SearchesType DEF TInv, AtRun, Searching
<1>3. Rounds \in Nat /\ Pages \in Nat /\ RetryAttempts \in Nat
  BY ScrapeRunAssumption
<1>4. at.round \in 1 .. Rounds /\ at.page \in 1 .. Pages /\ at.attempt \in 1 .. RetryAttempts
  BY <1>1 DEF Position
<1>5. /\ Rounds - at.round \in Nat /\ Pages - at.page \in Nat
      /\ RetryAttempts - at.attempt \in Nat
      /\ Searching => Len(Searches) - at.search \in Nat
      /\ Searching => Len(Searches[at.search]) - at.part \in Nat
  <2>1. \A n \in Nat : \A i \in 1 .. n : n - i \in Nat
    OBVIOUS
  <2>2. Searching => /\ Len(Searches) - at.search \in Nat
                     /\ Len(Searches[at.search]) - at.part \in Nat
    BY <1>1, <1>2, <2>1
  <2>3. /\ Rounds - at.round \in Nat /\ Pages - at.page \in Nat
        /\ RetryAttempts - at.attempt \in Nat
    BY <1>3, <1>4, <2>1
  <2> QED
    BY <2>2, <2>3
<1> QED
  BY <1>1, <1>5 DEF Rank

(* Every step takes something away: it pauses after a search or a page,    *)
(* goes on to the next one, tries again, stops, saves, marks, or is the    *)
(* end of the context.                                                     *)
LEMMA RankStep ==
  ASSUME TInv, TInv', Next, vars' # vars
  PROVE  <<Rank', Rank>> \in Lower
<1>1. Rank \in [1 .. 8 -> Nat]
  BY RankType
<1>2. Rank' \in [1 .. 8 -> Nat]
  <2>1. (TInv => Rank \in [1 .. 8 -> Nat])'
    BY RankType, PTL
  <2> QED
    BY <2>1
<1>3. /\ at \in Position /\ at' \in Position /\ kind' = kind
      /\ all \in Seq([jobs : SUBSET Jobs, intention : WorkTypes])
      /\ ctx \in {"live", "ended"}
  BY DEF TInv, Types, Next, Step, Page, PagePause, RateLimited, PageFails, LinkedInFails,
         SkipRest, RunSucceeds, RunFails, Pause, Save, Mark, ContextEnds, Finished, vars
<1>4. Searches' = Searches
  BY <1>3 DEF Searches
<1>5. ASSUME NEW j \in 1 .. 8, Rank'[j] < Rank[j],
             \A i \in 1 .. 8 : i < j => Rank'[i] = Rank[i]
      PROVE  <<Rank', Rank>> \in Lower
  BY <1>1, <1>2, <1>5, LowerAt
<1>6. CASE ContextEnds
  <2>1. Rank[1] = 1 /\ Rank'[1] = 0
    BY <1>6 DEF Rank, ContextEnds
  <2> QED
    BY <1>5, <2>1
<1>7. ASSUME ctx' = ctx, Searching, at'.pc \in {"save", "end"}
      PROVE  <<Rank', Rank>> \in Lower
  <2>1. Rank'[1] = Rank[1] /\ Rank[2] = 2 /\ Rank'[2] < 2
    BY <1>7 DEF Rank, Searching
  <2> QED
    BY <1>5, <2>1
<1>8. ASSUME ctx' = ctx, at.pc \in {"search", "page_pause"}, at'.pc = "pause",
             at'.round = at.round, at'.search = at.search
      PROVE  <<Rank', Rank>> \in Lower
  <2>1. /\ Rank'[1] = Rank[1] /\ Rank'[2] = Rank[2] /\ Rank'[3] = Rank[3]
        /\ Rank'[4] = Rank[4] /\ Rank'[5] = 0 /\ Rank[5] = 1
    BY <1>4, <1>8 DEF Rank, Searching
  <2> QED
    BY <1>5, <2>1
<1>9. ASSUME LinkedInFails
      PROVE  at'.pc = "pause" /\ at'.round = at.round /\ at'.search = at.search /\ ctx' = ctx
  BY <1>3, <1>9 DEF LinkedInFails, Position
<1>10. CASE Page
  <2>1. at.pc = "search" /\ ctx' = ctx
    BY <1>10 DEF Page, LinkedIn
  <2>2. PICK cards \in 0 .. MaxCards :
          \/ at' = [at EXCEPT !.pc = "pause"]
          \/ at' = [at EXCEPT !.pc = "page_pause", !.cards = IF at.page = 1 THEN cards ELSE @]
    BY <1>10 DEF Page
  <2>3. CASE at' = [at EXCEPT !.pc = "pause"]
    <3>1. at'.pc = "pause" /\ at'.round = at.round /\ at'.search = at.search
      BY <1>3, <2>3 DEF Position
    <3> QED
      BY <1>8, <2>1, <3>1
  <2>4. CASE at' = [at EXCEPT !.pc = "page_pause", !.cards = IF at.page = 1 THEN cards ELSE @]
    <3>1. /\ at'.pc = "page_pause" /\ at'.round = at.round /\ at'.search = at.search
          /\ at'.part = at.part /\ at'.page = at.page
      BY <1>3, <2>4 DEF Position
    <3>2. /\ Rank'[1] = Rank[1] /\ Rank'[2] = Rank[2] /\ Rank'[3] = Rank[3]
          /\ Rank'[4] = Rank[4] /\ Rank'[5] = Rank[5] /\ Rank'[6] = Rank[6]
          /\ Rank'[7] = 0 /\ Rank[7] = 1
      BY <1>3, <1>4, <2>1, <3>1 DEF Rank, Searching
    <3> QED
      BY <1>5, <3>2
  <2> QED
    BY <2>2, <2>3, <2>4
<1>11. CASE PagePause
  <2>1. at.pc = "page_pause" /\ kind = "linkedin"
    BY <1>11 DEF PagePause, TInv, FoundIsOfSearch
  <2>2. CASE ctx = "live"
    <3>1. ctx' = ctx /\ at' = [at EXCEPT !.pc = "search", !.page = @ + 1, !.attempt = 1]
      BY <1>11, <2>2 DEF PagePause
    <3>2. /\ at'.pc = "search" /\ at'.round = at.round /\ at'.search = at.search
          /\ at'.page = at.page + 1
      BY <1>3, <3>1 DEF Position
    <3>3. at.page \in Nat /\ Pages \in Nat
      <4>1. Pages \in Nat
        BY ScrapeRunAssumption
      <4> QED
        BY <1>3, <4>1 DEF Position
    <3>4. /\ Rank'[1] = Rank[1] /\ Rank'[2] = Rank[2] /\ Rank'[3] = Rank[3]
          /\ Rank'[4] = Rank[4] /\ Rank'[5] = Rank[5]
          /\ Rank'[6] = Pages - (at.page + 1) /\ Rank[6] = Pages - at.page
      BY <1>3, <1>4, <2>1, <3>1, <3>2 DEF Rank, Searching
    <3> QED
      BY <1>5, <3>3, <3>4
  <2>3. CASE ctx # "live"
    <3>1. LinkedInFails
      BY <1>11, <2>3 DEF PagePause
    <3> QED
      BY <1>8, <1>9, <2>1, <3>1
  <2> QED
    BY <2>2, <2>3
<1>12. CASE RateLimited
  <2>1. at.pc = "search"
    BY <1>12 DEF RateLimited, LinkedIn
  <2>2. CASE at.attempt < RetryAttempts
    <3>1. ctx' = ctx /\ at' = [at EXCEPT !.attempt = @ + 1]
      BY <1>12, <2>2 DEF RateLimited
    <3>2. /\ at'.pc = "search" /\ at'.round = at.round /\ at'.search = at.search
          /\ at'.part = at.part /\ at'.page = at.page /\ at'.attempt = at.attempt + 1
      BY <1>3, <2>1, <3>1 DEF Position
    <3>3. at.attempt \in Nat /\ RetryAttempts \in Nat
      <4>1. RetryAttempts \in Nat
        BY ScrapeRunAssumption
      <4> QED
        BY <1>3, <4>1 DEF Position
    <3>4. /\ Rank'[1] = Rank[1] /\ Rank'[2] = Rank[2] /\ Rank'[3] = Rank[3]
          /\ Rank'[4] = Rank[4] /\ Rank'[5] = Rank[5] /\ Rank'[6] = Rank[6]
          /\ Rank'[7] = Rank[7]
          /\ Rank'[8] = RetryAttempts - (at.attempt + 1)
          /\ Rank[8] = RetryAttempts - at.attempt
      BY <1>3, <1>4, <2>1, <3>1, <3>2 DEF Rank, Searching
    <3> QED
      BY <1>5, <3>3, <3>4
  <2>3. CASE ~(at.attempt < RetryAttempts)
    <3>1. LinkedInFails
      BY <1>12, <2>3 DEF RateLimited
    <3> QED
      BY <1>8, <1>9, <2>1, <3>1
  <2> QED
    BY <2>2, <2>3
<1>13. CASE PageFails
  <2>1. at.pc = "search" /\ LinkedInFails
    BY <1>13 DEF PageFails, LinkedIn
  <2> QED
    BY <1>8, <1>9, <2>1
<1>14. CASE SkipRest \/ RunFails
  <2>1. at.pc = "search" /\ ctx' = ctx /\ at' = Stopped
    BY <1>14 DEF SkipRest, RunFails, Apify
  <2>2. at'.pc = "save"
    BY <1>3, <2>1 DEF Stopped, Position
  <2> QED
    BY <1>7, <2>1, <2>2 DEF Searching
<1>15. CASE RunSucceeds
  <2>1. at.pc = "search" /\ kind = "apify" /\ ctx' = ctx
    BY <1>15 DEF RunSucceeds, Apify
  <2>2. \/ at' = [at EXCEPT !.part = @ + 1]
        \/ at' = [at EXCEPT !.pc = "pause"]
    BY <1>15 DEF RunSucceeds
  <2>3. CASE at' = [at EXCEPT !.part = @ + 1]
    <3>1. /\ at'.pc = "search" /\ at'.round = at.round /\ at'.search = at.search
          /\ at'.part = at.part + 1
      BY <1>3, <2>1, <2>3 DEF Position
    <3>2. at.part \in Nat /\ Len(Searches[at.search]) \in Nat
      <4>1. at.search \in 1 .. Len(Searches) /\ at.part \in 1 .. Len(Searches[at.search])
        BY <2>1 DEF TInv, AtRun
      <4> QED
        BY <4>1, SearchesType DEF TInv
    <3>3. /\ Rank'[1] = Rank[1] /\ Rank'[2] = Rank[2] /\ Rank'[3] = Rank[3]
          /\ Rank'[4] = Rank[4] /\ Rank'[5] = Rank[5]
          /\ Rank'[6] = Len(Searches[at.search]) - (at.part + 1)
          /\ Rank[6] = Len(Searches[at.search]) - at.part
      BY <1>3, <1>4, <2>1, <3>1 DEF Rank, Searching
    <3> QED
      BY <1>5, <3>2, <3>3
  <2>4. CASE at' = [at EXCEPT !.pc = "pause"]
    <3>1. at'.pc = "pause" /\ at'.round = at.round /\ at'.search = at.search
      BY <1>3, <2>4 DEF Position
    <3> QED
      BY <1>8, <2>1, <3>1
  <2> QED
    BY <2>2, <2>3, <2>4
<1>16. CASE Pause
  <2>1. at.pc = "pause" /\ ctx' = ctx /\ (at' = NextSearch \/ at' = Stopped)
    BY <1>16 DEF Pause
  <2>2. CASE at' = Stopped
    <3>1. at'.pc = "save"
      BY <1>3, <2>2 DEF Stopped, Position
    <3> QED
      BY <1>7, <2>1, <3>1 DEF Searching
  <2>3. CASE at' = Start(at.round, at.search + 1)
    <3>1. at'.pc = "search" /\ at'.round = at.round /\ at'.search = at.search + 1
      BY <2>3 DEF Start
    <3>2. at.search \in Nat /\ Len(Searches) \in Nat
      BY <1>3, SearchesType DEF Position, TInv
    <3>3. /\ Rank'[1] = Rank[1] /\ Rank'[2] = Rank[2] /\ Rank'[3] = Rank[3]
          /\ Rank'[4] = Len(Searches) - (at.search + 1)
          /\ Rank[4] = Len(Searches) - at.search
      BY <1>4, <2>1, <3>1 DEF Rank, Searching
    <3> QED
      BY <1>5, <3>2, <3>3
  <2>4. CASE at' = Start(at.round + 1, 1)
    <3>1. at'.pc = "search" /\ at'.round = at.round + 1
      BY <2>4 DEF Start
    <3>2. at.round \in Nat /\ Rounds \in Nat
      <4>1. Rounds \in Nat
        BY ScrapeRunAssumption
      <4> QED
        BY <1>3, <4>1 DEF Position
    <3>3. /\ Rank'[1] = Rank[1] /\ Rank'[2] = Rank[2]
          /\ Rank'[3] = Rounds - (at.round + 1) /\ Rank[3] = Rounds - at.round
      BY <2>1, <3>1 DEF Rank, Searching
    <3> QED
      BY <1>5, <3>2, <3>3
  <2> QED
    BY <2>1, <2>2, <2>3, <2>4 DEF NextSearch
<1>17. CASE Save
  <2>1. at.pc = "save" /\ at' = at /\ ctx' = ctx /\ all # <<>> /\ all' = Tail(all)
    BY <1>17 DEF Save
  <2>2. Len(all) \in Nat /\ Len(all') = Len(all) - 1
    BY <1>3, <2>1
  <2>3. /\ Rank'[1] = Rank[1] /\ Rank'[2] = Rank[2]
        /\ Rank'[3] = Len(all') /\ Rank[3] = Len(all)
    BY <2>1 DEF Rank, Searching
  <2> QED
    BY <1>5, <2>2, <2>3
<1>18. CASE Mark
  <2>1. at.pc = "save" /\ at' = [at EXCEPT !.pc = "end"] /\ ctx' = ctx
    BY <1>18 DEF Mark
  <2>2. at'.pc = "end"
    BY <1>3, <2>1 DEF Position
  <2>3. Rank'[1] = Rank[1] /\ Rank[2] = 1 /\ Rank'[2] = 0
    BY <2>1, <2>2 DEF Rank, Searching
  <2> QED
    BY <1>5, <2>3
<1> QED
  BY <1>6, <1>10, <1>11, <1>12, <1>13, <1>14, <1>15, <1>16, <1>17, <1>18
     DEF Next, Step, Finished

(* No scrape goes on for ever: each of its steps makes Rank lower, and     *)
(* nothing is lower without end (LowerIsWellFounded).                      *)
THEOREM StepsAreUsedUp == Spec => [][UsesUp]_vars
<1>1. TInv /\ [Next]_vars => TInv'
  BY TInvStep
<1>2. TInv /\ TInv' /\ [Next]_vars => [UsesUp]_vars
  BY RankStep DEF UsesUp
<1> QED
  BY <1>1, <1>2, TInvInit, PTL DEF Spec

----------------------------------------------------------------------------
(* To Scrapes the whole scrape is one step, its last: until then its       *)
(* runner fetches under the lock of its source, and the cadence and the    *)
(* rows are as they were.  Sources and runners are both named by kind.     *)
Saving == {u \in Jobs : stored[u] # "absent" /\ \E f \in seen : f[1] = u}
Over == at.pc = "end"

(* The state of Scrapes that this is.                                      *)
Last == [s \in {"linkedin", "apify"} |->
  IF s = kind /\ mark = "success" THEN "recent" ELSE "none"]
Eligible == [s \in {"linkedin", "apify"} |->
  IF s = kind /\ mark \in {"backoff", "period_end"} THEN "future" ELSE "none"]
Details == [s \in {"linkedin"} |->
  IF s = kind /\ Over THEN Cardinality(Saving) ELSE 0]
Holder == [s \in {"linkedin", "apify"} |-> IF s = kind /\ ~Over THEN kind ELSE "free"]
Workflow == [w \in {"scheduled"} |->
  [pc |-> "scrape", asked |-> "due", only |-> {}, queued |-> {},
   waiting |-> IF Over THEN {} ELSE {kind}]]
Runner == [x \in {"linkedin", "apify"} |->
  IF x = kind /\ ~Over
  THEN [pc |-> "fetch", source |-> kind, owner |-> "scheduled"]
  ELSE [pc |-> "idle", source |-> "nobody", owner |-> "nobody"]]

Outside == INSTANCE Scrapes WITH
  LinkedIn <- {"linkedin"}, ApifySources <- {"apify"}, ManualRuns <- {}, Callers <- {},
  MaxDetails <- Cardinality(Jobs), Faults <- {},
  enabled <- {kind}, last <- Last, next <- Eligible, details <- Details,
  lock <- Holder, flow <- Workflow, run <- Runner

(* The step of Scrapes that the mark of this scrape tells of.              *)
OneStep ==
  \/ mark' = "success" /\ Outside!Succeed(kind)
  \/ mark' \in {"backoff", "period_end"} /\ Outside!Fail(kind)
  \/ mark' = "none" /\ Outside!EndUnmarked(kind)

(* Before the last step nothing that Scrapes knows changes. *)
LEMMA OutsideStands ==
  ASSUME kind' = kind, mark' = mark, Over' = Over, Over => Saving' = Saving
  PROVE  UNCHANGED Outside!vars
BY DEF Outside!vars, Over, Last, Eligible, Details, Holder, Workflow, Runner

LEMMA InsideStep ==
  ASSUME TInv, Next, ~Mark
  PROVE  UNCHANGED Outside!vars
<1>1. kind' = kind /\ mark' = mark
  BY DEF Next, Step, Page, PagePause, RateLimited, PageFails, LinkedInFails, SkipRest,
         RunSucceeds, RunFails, Pause, Save, ContextEnds, Finished, vars
<1>2. CASE Finished
  <2>1. Over' = Over /\ Saving' = Saving
    BY <1>2 DEF Finished, vars, Over, Saving
  <2> QED
    BY <1>1, <2>1, OutsideStands
<1>3. CASE ~Finished
  <2>1. ~Over
    BY <1>3 DEF Next, Step, Page, PagePause, RateLimited, PageFails, LinkedIn, SkipRest,
       RunSucceeds, RunFails, Apify, Pause, Save, ContextEnds, Over
  <2>2. at \in Position
    BY DEF TInv, Types
  <2>3. at'.pc # "end"
    <3>1. CASE Pause
      <4>1. NextSearch.pc # "end"
        BY <3>1, NextSearchType DEF Pause
      <4>2. Stopped.pc = "save"
        BY <2>2 DEF Stopped, Position
      <4> QED
        BY <3>1, <4>1, <4>2 DEF Pause
    <3>2. CASE Save \/ ContextEnds
      BY <2>1, <3>2 DEF Save, ContextEnds, Over
    <3>3. ASSUME LinkedInFails
          PROVE  at'.pc # "end"
      BY <2>2, <3>3 DEF LinkedInFails, Position
    <3>4. CASE Page
      <4>1. PICK cards \in 0 .. MaxCards :
              \/ at' = [at EXCEPT !.pc = "pause"]
              \/ at' = [at EXCEPT !.pc = "page_pause", !.cards = IF at.page = 1 THEN cards ELSE @]
        BY <3>4 DEF Page
      <4> QED
        BY <2>2, <4>1 DEF Position
    <3>5. CASE PagePause \/ RateLimited \/ PageFails
      <4>1. \/ LinkedInFails
            \/ at' = [at EXCEPT !.pc = "search", !.page = @ + 1, !.attempt = 1]
            \/ at' = [at EXCEPT !.attempt = @ + 1]
        BY <3>5 DEF PagePause, RateLimited, PageFails
      <4>2. CASE at' = [at EXCEPT !.pc = "search", !.page = @ + 1, !.attempt = 1]
        BY <2>2, <4>2 DEF Position
      <4>3. CASE at' = [at EXCEPT !.attempt = @ + 1]
        BY <2>1, <2>2, <4>3 DEF Position, Over
      <4> QED
        BY <3>3, <4>1, <4>2, <4>3
    <3>6. CASE SkipRest \/ RunFails
      BY <2>2, <3>6 DEF SkipRest, RunFails, Stopped, Position
    <3>7. CASE RunSucceeds
      <4>1. \/ at' = [at EXCEPT !.part = @ + 1]
            \/ at' = [at EXCEPT !.pc = "pause"]
        BY <3>7 DEF RunSucceeds
      <4> QED
        BY <2>1, <2>2, <4>1 DEF Position, Over
    <3> QED
      BY <1>3, <3>1, <3>2, <3>4, <3>5, <3>6, <3>7 DEF Next, Step
  <2> QED
    BY <1>1, <2>1, <2>3, OutsideStands DEF Over
<1> QED
  BY <1>2, <1>3

(* The last step frees the lock, tells the workflow, and adds the rows. *)
LEMMA MarkEnds ==
  ASSUME TInv, Mark, IsFiniteSet(Jobs)
  PROVE  /\ Runner[kind].pc = "fetch" /\ Runner[kind].source = kind
         /\ Outside!Done(kind) /\ Outside!Unlock(kind) /\ Outside!Saves(kind)
<1> DEFINE Both == {"linkedin", "apify"}
<1>1. kind \in Both /\ kind' = kind /\ ~Over /\ Over'
  BY DEF TInv, Types, Position, Mark, Over
<1>2. Runner[kind] = [pc |-> "fetch", source |-> kind, owner |-> "scheduled"]
  BY <1>1 DEF Runner
<1>3. Outside!Done(kind)
  <2>1. Runner' = [Runner EXCEPT ![kind] = [pc |-> "idle", source |-> "nobody", owner |-> "nobody"]]
    BY <1>1 DEF Runner
  <2>2. Workflow' = [w \in {"scheduled"} |->
          IF w = Runner[kind].owner
          THEN [Workflow[w] EXCEPT !.waiting = @ \ {Runner[kind].source}] ELSE Workflow[w]]
    <3>1. /\ Workflow = [w \in {"scheduled"} |->
               [pc |-> "scrape", asked |-> "due", only |-> {}, queued |-> {}, waiting |-> {kind}]]
          /\ Workflow' = [w \in {"scheduled"} |->
               [pc |-> "scrape", asked |-> "due", only |-> {}, queued |-> {}, waiting |-> {}]]
      BY <1>1 DEF Workflow
    <3>2. {kind} \ {kind} = {}
      OBVIOUS
    <3> QED
      BY <1>2, <3>1, <3>2
  <2> QED
    BY <2>1, <2>2 DEF Outside!Done, Outside!Flows, Outside!IdleRunner, Outside!Nobody
<1>4. Outside!Unlock(kind)
  <2>1. Holder' = [s \in Both |-> IF Holder[s] = kind THEN "free" ELSE Holder[s]]
    BY <1>1 DEF Holder
  <2> QED
    BY <2>1 DEF Outside!Unlock, Outside!Sources, Outside!Free
<1>5. Outside!Saves(kind)
  <2>1. Cardinality(Saving)' \in 0 .. Cardinality(Jobs)
    <3>1. Saving' \in SUBSET Jobs
      BY DEF Saving
    <3> QED
      BY <3>1, FS_Subset, FS_CardinalityType
  <2>2. /\ Details = [s \in {"linkedin"} |-> 0]
        /\ Details' = [s \in {"linkedin"} |-> IF s = kind THEN Cardinality(Saving)' ELSE 0]
    BY <1>1 DEF Details
  <2> DEFINE n == Cardinality(Saving)'
  <2>3. n \in Nat /\ n <= Cardinality(Jobs) /\ Cardinality(Jobs) \in Nat
    BY <2>1, FS_CardinalityType
  <2> HIDE DEF n
  <2>4. Details' \in {d \in [{"linkedin"} -> 0 .. Cardinality(Jobs)] :
          \A t \in {"linkedin"} : d[t] = Details[t] \/ (t = kind /\ d[t] > Details[t])}
    <3>1. Details' = [s \in {"linkedin"} |-> IF s = kind THEN n ELSE 0]
      BY <2>2 DEF n
    <3> QED
      BY <2>2, <2>3, <3>1
  <2> QED
    BY <2>4 DEF Outside!Saves
<1> QED
  BY <1>2, <1>3, <1>4, <1>5

LEMMA MarkIsOneStep ==
  ASSUME TInv, Errors, Mark, IsFiniteSet(Jobs)
  PROVE  OneStep
<1> DEFINE Both == {"linkedin", "apify"}
<1>1. kind \in Both /\ kind' = kind /\ mark = "none"
  BY DEF TInv, Types, Position, Mark, Errors
<1>2. mark' \in {"none", "success", "backoff", "period_end"}
  BY <1>1 DEF Mark, Outcome
<1>3. {kind}' = {kind}
  BY <1>1
<1>4. /\ Last = [s \in Both |-> "none"] /\ Eligible = [s \in Both |-> "none"]
      /\ mark' # "success" => UNCHANGED Last
      /\ mark' \notin {"backoff", "period_end"} => UNCHANGED Eligible
  BY <1>1 DEF Last, Eligible
<1>5. CASE mark' = "success"
  <2>1. Last' = [Last EXCEPT ![Runner[kind].source] = "recent"]
    BY <1>1, <1>4, <1>5, MarkEnds DEF Last
  <2>2. Eligible' = [Eligible EXCEPT ![Runner[kind].source] = "none"]
    BY <1>1, <1>4, <1>5, MarkEnds
  <2> QED
    BY <1>3, <1>5, <2>1, <2>2, MarkEnds DEF OneStep, Outside!Succeed
<1>6. CASE mark' \in {"backoff", "period_end"}
  <2>1. Eligible' = [Eligible EXCEPT ![Runner[kind].source] = "future"]
    BY <1>1, <1>4, <1>6, MarkEnds DEF Eligible
  <2> QED
    BY <1>3, <1>4, <1>6, <2>1, MarkEnds DEF OneStep, Outside!Fail
<1>7. CASE mark' = "none"
  BY <1>3, <1>4, <1>7, MarkEnds DEF OneStep, Outside!EndUnmarked
<1> QED
  BY <1>2, <1>5, <1>6, <1>7

(* Scrapes allows that step. *)
LEMMA OneStepIsAllowed ==
  ASSUME TInv, OneStep
  PROVE  Outside!Next
<1>1. kind \in Outside!Runners
  BY DEF TInv, Types, Outside!Runners, Outside!Families
<1>2. Outside!ScrapeStep(kind)
  BY DEF OneStep, Outside!ScrapeStep
<1> QED
  BY <1>1, <1>2 DEF Outside!Next

(* To Scrapes a whole scrape, with its pages, retries, rounds and saves,   *)
(* is the one step that its mark says it is: Succeed, Fail or EndUnmarked. *)
THEOREM ScrapeIsOneStep == IsFiniteSet(Jobs) => (Spec => [][OneStep /\ Outside!Next]_(Outside!vars))
<1> SUFFICES ASSUME IsFiniteSet(Jobs)
             PROVE  Spec => [][OneStep /\ Outside!Next]_(Outside!vars)
  OBVIOUS
<1>1. Init => Errors
  BY DEF Init, Errors
<1>2. TInv /\ [Next]_vars => TInv'
  BY TInvStep
<1>3. TInv /\ Errors /\ [Next]_vars => Errors'
  BY ErrorsStep
<1>4. ASSUME TInv, Errors, [Next]_vars
      PROVE  [OneStep /\ Outside!Next]_(Outside!vars)
  <2>1. CASE Mark
    BY <1>4, <2>1, MarkIsOneStep, OneStepIsAllowed
  <2>2. CASE Next /\ ~Mark
    BY <1>4, <2>2, InsideStep
  <2>3. CASE UNCHANGED vars
    <3>1. kind' = kind /\ mark' = mark /\ Over' = Over /\ Saving' = Saving
      BY <2>3 DEF vars, Over, Saving
    <3> QED
      BY <3>1, OutsideStands
  <2> QED
    BY <1>4, <2>1, <2>2, <2>3
<1> QED
  BY TInvInit, <1>1, <1>2, <1>3, <1>4, PTL DEF Spec
=============================================================================
