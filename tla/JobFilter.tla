----------------------------- MODULE JobFilter -----------------------------
(***************************************************************************)
(* The notify filters of package domain (filter.go, duplicate.go) as pure  *)
(* operators.  A title, company, location, description or keyword is a set *)
(* of words: "contains" is set intersection, and the empty set is the      *)
(* empty text.  A job is a record                                          *)
(*   [id, created, title, company, location, description, intention,       *)
(*    attempts]                                                            *)
(* and the word lists are a record of sets of words.                       *)
(***************************************************************************)
EXTENDS Naturals

MaxDetailAttempts == 3

NoText == {}
NoReason == "none"

Reasons == {"duplicate", "title_company", "description", "detail_failed",
            "unsupported_source", "remote_lie"}

Intentions == {"onsite", "remote", "hybrid", "remote_hybrid"}

(* Decision: the next write for one job. *)
Decide(state, reason, description, attempts) ==
  [state |-> state, reason |-> reason,
   description |-> description, attempts |-> attempts]

ContainsAny(haystack, needles) == haystack \cap needles # {}
PassInclude(haystack, needles) == needles = {} \/ ContainsAny(haystack, needles)
PassExclude(haystack, needles) == ~ContainsAny(haystack, needles)

PassTitleCompany(job, lists) ==
  /\ PassInclude(job.title, lists.titleInclude)
  /\ PassExclude(job.title, lists.titleExclude)
  /\ PassExclude(job.company, lists.companyExclude)

(* The text the work-type keywords are looked up in. *)
Haystack(job) == job.title \cup job.location \cup job.description

PassWorkType(job, lists) ==
  CASE job.intention = "remote" ->
         /\ PassExclude(Haystack(job), lists.onsiteKeywords)
         /\ PassExclude(Haystack(job), lists.hybridKeywords)
         /\ PassInclude(Haystack(job), lists.remoteKeywords)
    [] job.intention = "hybrid" ->
         /\ PassExclude(Haystack(job), lists.onsiteKeywords)
         /\ PassInclude(Haystack(job), lists.hybridKeywords)
    [] job.intention = "remote_hybrid" ->
         /\ PassExclude(Haystack(job), lists.onsiteKeywords)
         /\ PassInclude(Haystack(job), lists.remoteKeywords \cup lists.hybridKeywords)
    [] OTHER -> TRUE

(* Fault: the fourth one rejects. *)
FaultyOnDetailFetchFailure(job) ==
  IF job.attempts + 1 > MaxDetailAttempts
  THEN Decide("rejected", "detail_failed", NoText, job.attempts + 1)
  ELSE Decide("needs_detail", NoReason, NoText, job.attempts + 1)

(* One failed GET of the description; the third one rejects. *)
OnDetailFetchFailure(job) ==
  IF job.attempts + 1 >= MaxDetailAttempts
  THEN Decide("rejected", "detail_failed", NoText, job.attempts + 1)
  ELSE Decide("needs_detail", NoReason, NoText, job.attempts + 1)

FilterAfterDescription(job, lists) ==
  IF job.description = NoText THEN OnDetailFetchFailure(job)
  ELSE IF ~PassWorkType(job, lists)
  THEN Decide("rejected", "remote_lie", job.description, job.attempts)
  ELSE IF \/ ~PassInclude(job.description, lists.descInclude)
          \/ ~PassExclude(job.description, lists.descExclude)
  THEN Decide("rejected", "description", job.description, job.attempts)
  ELSE Decide("ready", NoReason, job.description, job.attempts)

Earlier(a, b) ==
  \/ a.created < b.created
  \/ a.created = b.created /\ a.id < b.id

TitleCompanyKey(job) == <<job.title, job.company>>

(* The job to keep of one title+company group. *)
DuplicateWinner(group) ==
  CHOOSE w \in group : \A j \in group \ {w} : Earlier(w, j)

SameGroup(job, all) == {j \in all : TitleCompanyKey(j) = TitleCompanyKey(job)}

(* Fault: any other row of the group makes the job lose. *)
FaultyLoserOfAnyone(job, all) ==
  \E other \in SameGroup(job, all) : other.id # job.id

(* A group of one has no loser; otherwise everyone but the winner loses. *)
IsDuplicateLoser(job, all) ==
  LET group == SameGroup(job, all)
  IN  /\ \E other \in group : other.id # job.id
      /\ DuplicateWinner(group).id # job.id

(* "loser" is IsDuplicateLoser for the table as the caller read it. *)
FilterPending(job, loser, lists) ==
  IF loser THEN Decide("rejected", "duplicate", NoText, job.attempts)
  ELSE IF ~PassTitleCompany(job, lists)
  THEN Decide("rejected", "title_company", NoText, job.attempts)
  ELSE IF job.description = NoText
  THEN Decide("needs_detail", NoReason, NoText, job.attempts)
  ELSE FilterAfterDescription(job, lists)
============================================================================
