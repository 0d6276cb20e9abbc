------------------------------ MODULE Scrapes ------------------------------
(***************************************************************************)
(* Who scrapes which job source when: ScrapeWorkflow (one scheduled run    *)
(* that never overlaps with itself, any number of manual ones), the two    *)
(* serial worker queues its provider activities run on, synchronous        *)
(* scrapes of POST /scrape, and the advisory lock per source that they     *)
(* share with the LinkedIn detail fetch.  What a scrape stores is in       *)
(* JobPipeline, what it pays in ApifyBudget; the wake of the filter at the *)
(* end of a workflow is in Dispatchers.                                    *)
(*                                                                         *)
(* Time: last_scraped_at is "none", "recent" (the interval has not passed) *)
(* or "old"; next_eligible_at is "none", which stands for the past too, or *)
(* "future".                                                               *)
(* Faults names what may happen in a configuration:                        *)
(*   "die"    the process of a scrape dies;                                *)
(*   "stall"  an activity misses its heartbeats or its deadline: Temporal  *)
(*            gives it up while the scrape goes on;                        *)
(*   "detail_fails"  the detail activity of a row ends without an answer,  *)
(*            or what it found is not saved.                               *)
(***************************************************************************)
EXTENDS Naturals, FiniteSets

CONSTANTS
  LinkedIn,      \* the sources of the linkedin-scrape queue
  ApifySources,  \* the sources of the apify-scrape queue
  ManualRuns,    \* slots for workflows started by POST /run
  Callers,       \* slots for POST /scrape
  MaxDetails,    \* bound on the detail fetches of a source to come
  Faults

Free == "free"
Detail == "detail"
Nobody == "nobody"
Families == {"linkedin", "apify"}
Flows == ManualRuns \cup {"scheduled"}
Runners == Families \cup Callers
Sources == LinkedIn \cup ApifySources

ASSUME ScrapesAssumption ==
  /\ LinkedIn \cap ApifySources = {}
  /\ {Free, Detail, Nobody} \cap Runners = {}
  /\ Nobody \notin Flows
  /\ Families \cap Callers = {}
  /\ "scheduled" \notin ManualRuns
  /\ MaxDetails \in Nat
  /\ Faults \subseteq {"die", "stall", "detail_fails"}

VARIABLES
  enabled,  \* the enabled providers
  last,     \* per source: last_scraped_at
  next,     \* per source: next_eligible_at
  details,  \* per LinkedIn source: detail fetches its rows still need
  lock,     \* per source: the holder of its advisory lock
  flow,     \* per workflow: what it was asked, the activities not yet picked
            \* up, and the ones it still waits for
  run       \* per runner (a worker queue's only slot, or a caller): the
            \* scrape it runs, and for which workflow

vars == <<enabled, last, next, details, lock, flow, run>>

IdleFlow == [pc |-> "idle", asked |-> "due", only |-> {}, queued |-> {},
             waiting |-> {}]
IdleRunner == [pc |-> "idle", source |-> Nobody, owner |-> Nobody]

(* ScrapeProviderTaskQueue *)
Family(s) == IF s \in LinkedIn THEN "linkedin" ELSE "apify"

(* domain.IsDue *)
IsDue(s, asked) ==
  /\ s \in enabled
  /\ \/ asked = "force"
     \/ last[s] \in {"none", "old"} /\ next[s] # "future"

Init ==
  /\ enabled \in SUBSET Sources
  /\ last = [s \in Sources |-> "none"]
  /\ next = [s \in Sources |-> "none"]
  /\ details \in [LinkedIn -> 0 .. MaxDetails]
  /\ lock = [s \in Sources |-> Free]
  /\ flow = [w \in Flows |-> IdleFlow]
  /\ run = [x \in Runners |-> IdleRunner]

----------------------------------------------------------------------------
(* ScrapeWorkflow.                                                         *)

Start(w, asked, only) ==
  /\ flow[w].pc = "idle"
  /\ flow' = [flow EXCEPT ![w] = [IdleFlow EXCEPT !.pc = "list",
                                   !.asked = asked, !.only = only]]
  /\ UNCHANGED <<enabled, last, next, details, lock, run>>

StartScheduled == Start("scheduled", "due", Sources)

(* POST /run, with ?force and ?job_source *)
StartManual(w) ==
  /\ w \in ManualRuns
  /\ \E asked \in {"due", "force"}, only \in {Sources} \cup {{s} : s \in Sources} :
       Start(w, asked, only)

(* list_due_providers, and the activities of all due providers at once. *)
ListDue(w) ==
  /\ flow[w].pc = "list"
  /\ LET due == {s \in flow[w].only : IsDue(s, flow[w].asked)}
     IN  flow' = [flow EXCEPT ![w] =
           IF due = {} THEN IdleFlow
           ELSE [IdleFlow EXCEPT !.pc = "scrape", !.queued = due, !.waiting = due]]
  /\ UNCHANGED <<enabled, last, next, details, lock, run>>

ListFails(w) ==
  /\ flow[w].pc = "list"
  /\ flow' = [flow EXCEPT ![w] = IdleFlow]
  /\ UNCHANGED <<enabled, last, next, details, lock, run>>

(* All futures are there. *)
Collect(w) ==
  /\ flow[w].pc = "scrape"
  /\ flow[w].waiting = {}
  /\ flow' = [flow EXCEPT ![w] = IdleFlow]
  /\ UNCHANGED <<enabled, last, next, details, lock, run>>

(* Fault: an activity whose process died is waited for, for ever. *)
FaultyExpire(w, s) ==
  LET running == {x \in Runners : run[x].owner = w /\ run[x].source = s}
  IN  /\ s \in flow[w].waiting \ flow[w].queued
      /\ running # {} /\ "stall" \in Faults
      /\ flow' = [flow EXCEPT ![w].waiting = @ \ {s}]
      /\ run' = [x \in Runners |->
                  IF x \in running THEN [run[x] EXCEPT !.owner = Nobody] ELSE run[x]]
      /\ UNCHANGED <<enabled, last, next, details, lock>>

(* An activity is given up: nothing has been heard of it. *)
Expire(w, s) ==
  LET running == {x \in Runners : run[x].owner = w /\ run[x].source = s}
  IN  /\ s \in flow[w].waiting \ flow[w].queued
      /\ running = {} \/ "stall" \in Faults
      /\ flow' = [flow EXCEPT ![w].waiting = @ \ {s}]
      /\ run' = [x \in Runners |->
                  IF x \in running THEN [run[x] EXCEPT !.owner = Nobody] ELSE run[x]]
      /\ UNCHANGED <<enabled, last, next, details, lock>>

----------------------------------------------------------------------------
(* Scrapes.  A worker queue takes any queued activity of its family; a     *)
(* caller any provider that is enabled when it asks.                       *)

(* Fault: the task is not taken out of the queue. *)
FaultyPick(f, w, s) ==
  /\ f = Family(s)
  /\ run[f].pc = "idle"
  /\ s \in flow[w].queued
  /\ run' = [run EXCEPT ![f] = [pc |-> "begin", source |-> s, owner |-> w]]
  /\ UNCHANGED <<enabled, last, next, details, lock, flow>>

Pick(f, w, s) ==
  /\ f = Family(s)
  /\ run[f].pc = "idle"
  /\ s \in flow[w].queued
  /\ flow' = [flow EXCEPT ![w].queued = @ \ {s}]
  /\ run' = [run EXCEPT ![f] = [pc |-> "begin", source |-> s, owner |-> w]]
  /\ UNCHANGED <<enabled, last, next, details, lock>>

Call(c, s) ==
  /\ c \in Callers
  /\ run[c].pc = "idle"
  /\ s \in enabled
  /\ run' = [run EXCEPT ![c] = [pc |-> "begin", source |-> s, owner |-> Nobody]]
  /\ UNCHANGED <<enabled, last, next, details, lock, flow>>

(* The scrape of x is over, and its workflow hears of it. *)
Done(x) ==
  /\ run' = [run EXCEPT ![x] = IdleRunner]
  /\ flow' = [w \in Flows |->
       IF w = run[x].owner
       THEN [flow[w] EXCEPT !.waiting = @ \ {run[x].source}] ELSE flow[w]]

Unlock(x) ==
  lock' = [s \in Sources |-> IF lock[s] = x THEN Free ELSE lock[s]]

Lock(x) ==
  LET s == run[x].source
  IN  /\ run[x].pc = "begin"
      /\ lock[s] = Free
      /\ lock' = [lock EXCEPT ![s] = x]
      /\ run' = [run EXCEPT ![x].pc = "fetch"]
      /\ UNCHANGED <<enabled, last, next, details, flow>>

(* Fault: a scrape that finds the lock busy goes on. *)
FaultyLockBusy(x) ==
  /\ run[x].pc = "begin"
  /\ lock[run[x].source] # Free
  /\ run' = [run EXCEPT ![x].pc = "fetch"]
  /\ UNCHANGED <<enabled, last, next, details, lock, flow>>

(* "skipped" *)
LockBusy(x) ==
  /\ run[x].pc = "begin"
  /\ lock[run[x].source] # Free
  /\ Done(x)
  /\ UNCHANGED <<enabled, last, next, details, lock>>

(* Rows that a scrape of LinkedIn saved come without their description. *)
Saves(s) ==
  details' \in {d \in [LinkedIn -> 0 .. MaxDetails] :
    \A t \in LinkedIn : d[t] = details[t] \/ (t = s /\ d[t] > details[t])}

(* MarkScrapeSuccess, then the deferred unlock. *)
Succeed(x) ==
  /\ run[x].pc = "fetch"
  /\ last' = [last EXCEPT ![run[x].source] = "recent"]
  /\ next' = [next EXCEPT ![run[x].source] = "none"]
  /\ Done(x) /\ Unlock(x) /\ Saves(run[x].source)
  /\ UNCHANGED enabled

(* Fault: the backoff goes to the wrong column. *)
FaultyFail(x) ==
  /\ run[x].pc = "fetch"
  /\ last' = [last EXCEPT ![run[x].source] = "future"]
  /\ Done(x) /\ Unlock(x) /\ Saves(run[x].source)
  /\ UNCHANGED <<enabled, next>>

(* MarkScrapeFailure: the backoff, or the end of the budget period. *)
Fail(x) ==
  /\ run[x].pc = "fetch"
  /\ next' = [next EXCEPT ![run[x].source] = "future"]
  /\ Done(x) /\ Unlock(x) /\ Saves(run[x].source)
  /\ UNCHANGED <<enabled, last>>

(* Fault: the error path leaves without unlocking. *)
FaultyEndUnmarked(x) ==
  /\ run[x].pc \in {"begin", "fetch"}
  /\ Done(x)
  /\ UNCHANGED <<enabled, last, next, details, lock>>

(* Settings that cannot be read, a busy APIFY lock, a cancelled context,   *)
(* a mark that cannot be written: the cadence stays as it was.             *)
EndUnmarked(x) ==
  /\ run[x].pc \in {"begin", "fetch"}
  /\ Done(x) /\ Unlock(x)
  /\ IF run[x].pc = "fetch" THEN Saves(run[x].source) ELSE UNCHANGED details
  /\ UNCHANGED <<enabled, last, next>>

(* The session dies with the process, the rows it has saved stay; Temporal *)
(* only sees silence.                                                      *)
Die(x) ==
  /\ "die" \in Faults
  /\ run[x].pc # "idle"
  /\ run' = [run EXCEPT ![x] = IdleRunner]
  /\ Unlock(x)
  /\ IF run[x].pc = "fetch" THEN Saves(run[x].source) ELSE UNCHANGED details
  /\ UNCHANGED <<enabled, last, next, flow>>

----------------------------------------------------------------------------
(* The detail fetch of one LinkedIn job, the clock, and the operator.      *)

(* Fault: a row that does not need detail any more is fetched again. *)
FaultyDetailLocks(s) ==
  /\ lock[s] = Free
  /\ lock' = [lock EXCEPT ![s] = Detail]
  /\ details' = [details EXCEPT ![s] = IF @ = 0 THEN 1 ELSE @]
  /\ UNCHANGED <<enabled, last, next, flow, run>>

DetailLocks(s) ==
  /\ lock[s] = Free
  /\ details[s] > 0
  /\ lock' = [lock EXCEPT ![s] = Detail]
  /\ UNCHANGED <<enabled, last, next, details, flow, run>>

(* The page was read, or the attempt counts as failed: one fetch less. *)
DetailUnlocks(s) ==
  /\ lock[s] = Detail
  /\ lock' = [lock EXCEPT ![s] = Free]
  /\ details' = [details EXCEPT ![s] = @ - 1]
  /\ UNCHANGED <<enabled, last, next, flow, run>>

(* The child fails with its activity and counts no attempt: its row still  *)
(* needs detail, and is tried again as soon as the dispatcher has          *)
(* forgotten that it skipped it.                                           *)
DetailFails(s) ==
  /\ "detail_fails" \in Faults
  /\ lock[s] = Detail
  /\ lock' = [lock EXCEPT ![s] = Free]
  /\ UNCHANGED <<enabled, last, next, details, flow, run>>

(* POST /jobs/re-evaluate: rejected rows start again, without attempts. *)
ReEvaluate ==
  /\ details' \in [LinkedIn -> 0 .. MaxDetails]
  /\ \A s \in LinkedIn : details'[s] >= details[s]
  /\ UNCHANGED <<enabled, last, next, lock, flow, run>>

IntervalPasses(s) ==
  /\ last[s] = "recent"
  /\ last' = [last EXCEPT ![s] = "old"]
  /\ UNCHANGED <<enabled, next, details, lock, flow, run>>

BackoffPasses(s) ==
  /\ next[s] = "future"
  /\ next' = [next EXCEPT ![s] = "none"]
  /\ UNCHANGED <<enabled, last, details, lock, flow, run>>

(* ReplaceScraperSettings leaves the cadence columns alone. *)
SwitchProvider(s) ==
  /\ enabled' = IF s \in enabled THEN enabled \ {s} ELSE enabled \cup {s}
  /\ UNCHANGED <<last, next, details, lock, flow, run>>

----------------------------------------------------------------------------
FlowStep(w) == ListDue(w) \/ ListFails(w) \/ Collect(w)

ScrapeStep(x) ==
  \/ Lock(x) \/ LockBusy(x) \/ Succeed(x) \/ Fail(x) \/ EndUnmarked(x) \/ Die(x)

World(s) == IntervalPasses(s) \/ BackoffPasses(s) \/ SwitchProvider(s)

Next ==
  \/ StartScheduled
  \/ \E w \in Flows :
       \/ StartManual(w) \/ FlowStep(w)
       \/ \E s \in Sources : Expire(w, s) \/ \E f \in Families : Pick(f, w, s)
  \/ \E c \in Callers, s \in Sources : Call(c, s)
  \/ \E x \in Runners : ScrapeStep(x)
  \/ \E s \in LinkedIn : DetailLocks(s) \/ DetailUnlocks(s) \/ DetailFails(s)
  \/ ReEvaluate
  \/ \E s \in Sources : World(s)

Spec == Init /\ [][Next]_vars

(* The schedule ticks, workflows and workers run, a queued activity is not *)
(* passed over for ever, time passes, the settings can be read and a free  *)
(* lock be had at times, and each detail fetch ends, one way or the other. *)
Fairness ==
  /\ WF_vars(StartScheduled)
  /\ \A w \in Flows : WF_vars(FlowStep(w)) /\ SF_vars(ListDue(w))
  /\ \A w \in Flows, s \in Sources :
       WF_vars(Expire(w, s)) /\ SF_vars(Pick(Family(s), w, s))
  /\ \A x \in Runners : WF_vars(ScrapeStep(x))
  /\ \A s \in Sources :
       /\ SF_vars(run[Family(s)].source = s /\ Lock(Family(s)))
       /\ WF_vars(IntervalPasses(s)) /\ WF_vars(BackoffPasses(s))
  /\ \A s \in LinkedIn : WF_vars(DetailUnlocks(s) \/ DetailFails(s))

FairSpec == Spec /\ Fairness
----------------------------------------------------------------------------
(* Correctness.                                                            *)

TypeOK ==
  /\ enabled \subseteq Sources
  /\ last \in [Sources -> {"none", "recent", "old"}]
  /\ next \in [Sources -> {"none", "future"}]
  /\ details \in [LinkedIn -> 0 .. MaxDetails]
  /\ lock \in [Sources -> Runners \cup {Free, Detail}]
  /\ flow \in [Flows -> [pc : {"idle", "list", "scrape"},
                         asked : {"due", "force"}, only : SUBSET Sources,
                         queued : SUBSET Sources, waiting : SUBSET Sources]]
  /\ run \in [Runners -> [pc : {"idle", "begin", "fetch"},
                          source : Sources \cup {Nobody},
                          owner : Flows \cup {Nobody}]]

Fetches(x, s) == run[x].pc = "fetch" /\ run[x].source = s

(* The lock of a source is held exactly by the scrape that fetches from    *)
(* it: at most one at a time, over workflows, callers, activities Temporal *)
(* has given up and processes that died, and none is left behind.          *)
LockIsTheScrape ==
  \A s \in Sources, x \in Runners : lock[s] = x <=> Fetches(x, s)

(* No activity is lost and none is run twice for its workflow: what a      *)
(* queue runs for a workflow is something it waits for and that no longer  *)
(* is in the queue.                                                        *)
ActivitiesAreOwned ==
  /\ \A w \in Flows : flow[w].queued \subseteq flow[w].waiting
  /\ \A w \in Flows : flow[w].waiting # {} => flow[w].pc = "scrape"
  /\ \A x \in Runners : run[x].owner # Nobody =>
       run[x].source \in flow[run[x].owner].waiting \ flow[run[x].owner].queued

(* Every scrape workflow ends, although its activities queue behind those  *)
(* of other workflows, are skipped, stall, or die with their process.      *)
WorkflowEnds == \A w \in Flows : flow[w].pc # "idle" ~> flow[w].pc = "idle"

(* What keeps LinkedIn's detail fetches going without a scrape: a fetch    *)
(* that comes to nothing, and an operator who re-evaluates.                *)
Relapse(s) ==
  DetailFails(s) \/ (ReEvaluate /\ details'[s] > details[s])

(* A provider that stays enabled is scraped again and again, through       *)
(* failures, backoffs and crashes.  LinkedIn, whose lock is taken by the   *)
(* detail fetches of the rows it stored, is skipped for ever only if some  *)
(* fetch comes to nothing, or the operator re-evaluates, again and again:  *)
(* the detail fetches that its own scrapes cause never keep it away.       *)
EnabledIsScraped ==
  \A s \in Sources :
    <>[](s \in enabled) =>
      \/ []<>(\E x \in Runners : Fetches(x, s))
      \/ s \in LinkedIn /\ []<><<Relapse(s)>>_vars
============================================================================
