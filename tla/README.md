# Job Scout: a verification development in TLA+

Job Scout scrapes job postings (LinkedIn directly; Dice, Indeed and Fantastic
through paid Apify actors), filters them with the operator's word lists, fetches
missing descriptions, and announces the survivors on a webhook. PostgreSQL holds
the rows, the settings and a few advisory locks; Temporal runs the workflows;
a Go API and a small web UI let one operator steer it.

This directory models the parts of that program whose behaviour depends on who
does what in which order. TLC checks the models on small instances, and TLAPS
proves the most important facts for every value of the constants. Paths below are
relative to `src/job-scout/internal/` unless they begin with `src/`.

    tlc -workers 2 -config MC_Notify_runs.cfg MC_Notify      # one run
    tlapm Notify_proof.tla                                   # one module of proofs

`PROJECT.json` lists the components, every run with its properties, the fault
(mutant) each property detects, the source lines behind each definition, and the
hazards the properties are meant for.

## 1. The system

### Components

| component | state it keeps | operations | here |
|---|---|---|---|
| notify filters (`domain/filter.go`, `duplicate.go`) | none | FilterPending, FilterAfterDescription, OnDetailFetchFailure, IsDuplicateLoser | `JobFilter` |
| jobs table (`db/jobs.go`) | one row per posting: state, reject reason, description, detail attempts, intention, created_at, notified_at, notify_claimed_at | InsertJobIfNew, UpdateJobNotifyState, ReEvaluateRejectedJobs, ReviewReadyJob, ReturnJobToReview, ClaimReadyJobs, ClearNotifyClaims | `JobStore`, `Notify` |
| job pipeline (`pipeline/activities.go`, `workflow.go`) | one filter activity and one detail child in flight | filter_pending_job, ProcessJobWorkflow | `JobPipeline`, `JobLifecycle` |
| dispatchers (`pipeline/workflow.go`, `wake.go`) | per singleton workflow: skipped rows, count, buffered signal | FilterPendingWorkflow, ProcessPendingWorkflow, wakes, StartDispatchers | `Dispatchers` |
| notifications (`pipeline/workflow.go`, `webhook.go`, `notify.go`) | per run: its batch | NotifyWorkflow: status, claim, post, give back | `Notify` |
| scrape orchestration (`pipeline/workflow.go`, `worker.go`, `scraper/service.go`, `domain/due.go`) | cadence columns, the source lock, queued activities | ScrapeWorkflow, scrape_provider, POST /scrape, POST /run | `Scrapes` |
| Apify spend gate (`scraper/apify.go`, `service.go`) | the account's list of runs, the APIFY lock | AroundStart, AccountBudget, startRun, pollRun, waitUsage, abort | `ApifyBudget` |
| notification schedule (`pipeline/schedule.go`, `db/notification_schedule.go`) | a row in the database and a schedule in Temporal | read, change, re-install at boot; the calendars of the silent periods | `Settings` |
| one scrape from inside (`scraper/service.go`, `linkedin.go`, `intention.go`) | loop counters, collected jobs, last error, skipped searches | rounds, searches, paging, retries, paid runs, saving, mark | `ScrapeRun` |
| settings store (`db/settings.go`) | word lists, searches, providers, toggle | seed, replace, reset | `Settings`; `ProviderSettings` for the searches of a provider |
| settings share (`api/handlers_settings_share.go`, `settingshare/codec.go`) | none | export, import | `Settings` (the order of its writes), `ProviderSettings` (what is written) |
| provider form (`src/job-scout/webui/src/ProviderSettingsEditor.tsx`) | the row it was opened for, a draft | open, edit keywords, locations and feeds, save, reset | `ProviderSettings` |
| rest of the web UI (`src/job-scout/webui/src/App.tsx`, `settingsDirty.tsx`) | polling, dirty flags | load, edit, save | not modelled |
| dashboard, server, assets, migrations, HTML parsing, progress | none that others read back | | not modelled |

### How they interact

    Temporal schedule / POST /run -> ScrapeWorkflow -> queue per family -> scrape_provider
        scrape_provider: source lock -> (APIFY lock -> start) -> insert rows -> mark cadence
        end of ScrapeWorkflow ----- wake -----> FilterPendingWorkflow
    FilterPendingWorkflow: filter_pending_job per row -- wake --> ProcessPendingWorkflow
    ProcessPendingWorkflow: one child per row: source lock -> fetch -> decide -> save
    Temporal schedule / POST /notify -> NotifyWorkflow: claim -> webhook -> (give back)
    operator: review, return to review, re-evaluate (-> wake)
    operator: change, reset, import settings -> rows; notification schedule -> Temporal, then row
    provider row -> matrix of the form -> product of keywords and locations -> provider row
    provider row -> share code -> import, here or elsewhere -> provider row
    boot of the API: seed missing settings, install the schedules, start the dispatchers

Everything meets in the jobs table. An activity reads a row in one statement and
writes it by id in a later one, so between them anybody else may write. Temporal
repeats an activity that failed *or whose completion was lost*, so a write may
happen twice with the operator in between. Signals to the singletons are dropped
when a run continues as new. Locks belong to a database session and die with it.

### What makes each part correct

* **Pipeline**: a row is rejected exactly when it has a reason; a text, once there,
  is not erased; filters promote only rows whose text they have seen; a duplicate
  group keeps a member; a row waits for detail only if the detail can be fetched;
  what a dispatcher read about a row is still true when it writes; the row's life
  follows one small state machine.
* **Dispatchers**: no wake-up is lost; pending rows are filtered; rows that need
  detail are decided.
* **Notifications**: no row in two batches, no posting announced twice, no row
  forgotten while notifications are on.
* **Scrapes**: a source is fetched from by one scrape at a time and its lock is
  never left behind; a workflow ends; an enabled provider keeps being scraped,
  although detail fetches take LinkedIn's lock.
* **One scrape**: what was fetched reaches the table whatever fails later, an onsite
  search decides over others, the searches add up, the cadence mark tells the truth,
  and the scrape ends.
* **Settings**: runs are skipped in the silent minutes and in no others; the cadence
  that runs is the one that is stored; nothing the operator has stored is lost by a
  boot or by a request about something else.
* **Searches of a provider**: what is stored can be run, within the limits of what
  costs money, whichever way it came in; what is exported can be imported; saving a
  form loses no search the operator left alone.
* **Budget**: the runs started under the lock in a period cost at most the limit, up
  to the rounding; the lock is given back, and a session that fails to give it back
  shares it with nobody.

## 2. Modules

| module | what it is |
|---|---|
| `JobFilter` | The filters as operators over sets of words. A posting's title, company, location and text are sets of words, and a word list matches when it intersects them; case folding and substring search are abstracted. |
| `JobStore` | The row of one posting and each statement that writes it, as operators from table to table. |
| `JobLifecycle` | Abstract specification: state and failed detail attempts of each posting, and the only moves between states that are meant to exist. |
| `JobPipeline` | Scrapers that insert, `filter_pending_job`, `ProcessJobWorkflow` and the operator, one database statement per step. Implements `JobLifecycle` through the refinement mapping `state <- jobs[u].state, attempts <- jobs[u].attempts`. |
| `Notify` | NotifyWorkflow, one scheduled and any number of manual runs. The claim transaction is two steps (select with SKIP LOCKED, commit) so that claims overlap. |
| `Dispatchers` | The two singletons, their signals, continue-as-new, skips and failures, boot. A filter activity or a detail child is one step here, because its inside is in `JobPipeline`. |
| `Scrapes` | Workflows, two serial worker queues, synchronous callers, source locks, cadence, and the backlog of detail fetches that take LinkedIn's lock, which scrapes and re-evaluation lengthen and a detail fetch shortens unless it fails as an activity. What a scrape stores or pays is in the other modules. |
| `ApifyBudget` | Searches that start paid runs, the account that settles them, the calendar. |
| `ScrapeRun` | What `Scrapes` takes as one step: the nested loops of `scrapeSource`, LinkedIn's pages and retries, the runs of an Apify search, `finishScrape`. A search is the sequence of intentions that its runs are stamped with. |
| `Settings` | Requests that change settings, one statement or call per step, the boot that seeds and installs, and the arithmetic from silent periods to calendars. |
| `ProviderSettings` | The searches of one provider between API client, table, form and share code: validation, normalisation, the matrix of the form and its product, export and import. |
| `MC_*` | Constants of the runs: small sets, the postings and word lists, symmetry. |
| `*_proof` | Theorems and proofs about the module they are named after. |

### State and code

* `jobs` is the table; `"absent"` stands for "no row". `created` is `created_at`,
  that is, the *start* of the inserting transaction, while the row is visible from
  its commit. The order of two rows of a duplicate group is (created, id).
* `filter` and `child` are the activity or child workflow in flight with the values
  it has read. Both dispatchers are serial (`pipeline/workflow.go`: one activity,
  one awaited child), so one record each is enough. `pc = "report"` lies between
  the commit of the UPDATE and its completion reaching Temporal.
* In `Notify`, `notified` is `notified_at IS NOT NULL`, `claim` is
  `notify_claimed_at` as far as the timeout tells its ages apart, `delivered` and
  `repeated` are history: what the receiver has been told, and what twice.
* In `Dispatchers`, `toFilter` and `toDetail` are history: the rows present at the
  last wakes that have not been worked on since.
* In `ApifyBudget`, a run belongs to the period it *started* in, because
  `sumPeriodUsage` lists by `startedAfter`. `charged` and `spent` are history, in
  cents as the code rounds them and in tenths of a cent as Apify reports them.
  `kept` is the session that still has the APIFY lock after an unlock that failed
  (`scraper/service.go:419` only logs it). The connection goes back to the pool with the
  lock, so whoever gets it next may lock again, and nobody else, until it is closed.
* In `ScrapeRun`, `at` holds the loop counters and `found` the pages of the search
  that is going on; `all` is the slice of collected jobs, cut into the batches of
  one search. `ctx` is the context: when it has ended, every request, wait and
  statement that begins fails. `done`, `failed`, `seen` and `lost` are history.
* In `Scrapes`, `last` and `next` are the two cadence columns as far as `IsDue`
  tells their values apart. A stalled activity that Temporal has given up is a
  runner with `owner = Nobody`: it still fetches and still holds its lock.
  `details` counts the detail fetches that LinkedIn's rows still need: a scrape may
  add to it, and so may the operator, by re-evaluating. A fetch that ends with a text or
  a counted attempt takes one off; a child that fails with its activity
  (`pipeline/workflow.go:409`) takes none, because its row stays in needs_detail and the
  dispatcher forgets that it skipped it.
* In `Settings` the value of a row is who wrote it, because no property looks further;
  `installed` is what Temporal was told. `disturbed` is history. A request
  refused by the validation of its body changes nothing and is no step.
* In `ProviderSettings`, lists are sets, and a field that a search does not have is
  `Absent`. `form` is the section of the settings page: the row it was opened for, what
  it showed (`base`), what it holds (`draft`); `touched` is history. Where the
  form keeps the last of several equal entries, any of them may be kept.

Every module has a set `Faults` (or `ResultLoss`) that names what may go wrong in
a configuration. A property that only holds without some fault is checked without
it, and the table below says so.

## 3. Runs

| run | instance | shows |
|---|---|---|
| pipeline_twins | a LinkedIn card and a Dice row of one title and company, two scrapers, lost completions | types, RejectedHasReason, NoGroupVanishes, TextNeverErased, FiltersPromoteOnlyTexts |
| pipeline_owned | a LinkedIn card and a Dice row without text, onsite and remote searches, no lost completion | DispatchersOwnTheirRows, NeedsDetailIsFetchable, `JobPipeline` implements `JobLifecycle` |
| notify_runs | two rows, batches of one, a scheduled and a manual run, failing status reads and claims, failing posts, locked rows | types, BatchesAreClaims, AnnouncedOnce, MarkIsAccountedFor, ReadyIsAnnounced |
| notify_stale (violation) | a lost completion of the claim | a claim older than the timeout is not claimed again |
| dispatchers_drain | two rows, the older of which always fails, all faults | types, NoLostWakeUp, PendingIsFiltered, DetailIsDecided |
| dispatchers_boot (violation) | a boot that starts only the filter | a row that already needs detail is not served |
| budget_gate | three searches, three runs, two periods, foreign runs, all faults, failed unlocks among them | types, ChargesWithinBudget, OneOpenRunPerPeriod, SpendNearLimit, LockIsInSection |
| scrapes_shared | LinkedIn, a scheduled and a manual workflow, two callers, detail fetches that may fail, re-evaluation, deaths and stalls | types, LockIsTheScrape, ActivitiesAreOwned, WorkflowEnds, EnabledIsScraped |
| scrape_inside | two rounds of two queries, after a global search on LinkedIn; pages of at most two cards, rate limits, failing runs and inserts, an ending context | types, SearchesAreCounted, FetchedIsStored, OnsiteWins, MarkIsTrue, ScrapeEnds |
| settings_stores | two requests, two providers, failing and lost statements, crashes | types, SilentIsSkipped, ScheduleAgrees, OnlyRequestsChange |
| provider_share | each provider in turn; clients, imports, resets, and a form that may be stale | StoredIsRunnable, ShareRoundTrip, SaveKeepsSearches |
| settings_interval (violation) | one request, no fault | a cron schedule with an interval out of bounds is installed but not stored |

### Bounds, and why they are enough

* Two postings are a duplicate group, and every pairwise race over rows exists
  with two. The clock takes two values so that rows may be created at the same
  moment or in either order, and commit in another.
* `MaxAttempts = 2` gives every activity a first and a repeated attempt; what a
  third could do, the second already does. `LockMaxRetries = 2` has a retry and a
  last retry. The limits of 50 rows per dispatcher run become 2: a run continues
  as new with rows left and without.
* In `Notify` two rows and batches of one make a claim leave a row behind and meet the
  batch of another run. More rows, larger batches and a third run, which could pick up
  what a second gave back, are covered by the theorem about `Notify`.
* In `Settings` a day has three hours of three minutes and a week three days: a range
  then has a first part of an hour, full hours and a last part, or lacks any of them,
  and the day after the last is the first. Two requests overlap in every way two
  changes can.
* Three runs in the account are one running, one unsettled and one to start; two
  periods have one boundary. A budget of two cents is used up by
  two runs, and the second is started with a smaller cap. The costs of 9 and 14 tenths of a cent are
  rounded up and down; together they exceed the budget by the rounding.
* In `Scrapes` one source has a queue that two workflows share, so that an activity
  waits behind another, and callers that pass the queue. Manual runs and callers are
  slots that are used again and again, so the number of workflows over a behaviour is
  not bounded. Two detail fetches (`MaxDetails`) make one follow another. Safety for
  several sources in a queue, and for both queues, is proved; liveness is checked for
  the one, because a second source makes the instance too large for its check.
* In `ProviderSettings` two keywords and two locations make searches that are no
  product; three variants of the locations with two keywords go beyond `MaxPairs = 4`.
  Two edits touch a keyword and a location, or undo one another. The clients' requests
  include duplicates, missing and foreign fields, unknown work types, limits exceeded and
  malformed values.
* In `ScrapeRun` two pages have a first and a last, pages of up to two cards one that
  is shorter than the first, and two attempts a retry and a last one. One posting is
  enough, because no statement reads another's row. Two rounds of two queries have a
  search, a round and a run before, between and after any failure.
* Deadlock is checked in every run.

### Fairness, and why the code justifies it

Safety properties are checked under `Spec` without fairness.

* `Notify`: the schedule ticks for ever (a Temporal schedule), a started workflow
  continues (Temporal), and neither status reads, claims nor posts fail every time they are
  tried (strong fairness of ReadStatus, of SendOk, of the commit of a non-empty claim, and of a ClaimSelect
  that takes the oldest rows of those no other run has locked: the operator's
  statements do not hold rows locked in every claim).
  A webhook that always fails announces nothing, whatever the code does.
* `Dispatchers`: scrapes end in a wake for ever (the scrape schedule), both
  singletons run, and load_next and the activities of one row do not fail every
  time. Boots and the wake of process-pending get no fairness: detail must not
  depend on them. DetailIsDecided leaves out rows in `Poison`, which may fail for
  ever. It is checked with fewer of them than a run takes (with as many, the rows
  behind them starve, because a new run forgets what was skipped), supposes that
  rows do not find their source locked for ever (such a row is not skipped, so it
  can use up a run), and speaks of a singleton that does not die with the database
  (section 5, number 2).
* `ApifyBudget`, `Settings` and `ProviderSettings` have safety properties only.
* `ScrapeRun`: the scrape goes on (every request has a timeout and every wait a
  bound); which answer comes is left open.
* `Scrapes`: the schedule ticks, workflows and workers run, time passes, a queued
  activity is not passed over for ever, and whoever tries again and again to lock a
  source that is free again and again gets it once. LinkedIn's lock is taken by a detail
  fetch per row as well. Each fetch ends, with or without success (weak fairness of
  DetailUnlocks or DetailFails). A backlog delays a scrape, but does not keep it away as
  long as each fetch takes a row off it. What may go on for ever without a scrape is a
  fetch that fails as an activity, and an operator who re-evaluates. EnabledIsScraped
  excepts, for LinkedIn, behaviours in which one of these (`Relapse`) happens for ever; no
  fairness says that they stop, because nothing in the code does.

## 4. Theorems

All are proved by TLAPS for every value of the constants that the named assumptions
of the modules allow.

| theorem | states | assumes | argument |
|---|---|---|---|
| `JobPipeline_proof!TypeCorrect` | `[]TypeOK` | | A stronger type invariant that also types the values the two activities carry between their steps. |
| `JobPipeline_proof!ReasonsAreConsistent` | `[]RejectedHasReason` | | Every decision in flight has a reason exactly when it rejects: this is true when it is made and no later step changes it, so it does not matter when, or how often, it is written. |
| `JobPipeline_proof!WaitingRowsAreFetchable` | `[]NeedsDetailIsFetchable` | | Decisions that ask for a fetch carry the facts: source LinkedIn, attempts left, no text. An old decision may be written late only over a row that still satisfies them. |
| `JobPipeline_proof!TextsAreKept`, `OnlyTextsArePromoted` | `TextNeverErased`, `FiltersPromoteOnlyTexts` | | A decision to promote carries a text, whoever made it and whenever it is written; a row that is not there has none, and a statement that has none writes over none. |
| `JobPipeline_proof!GroupsSurvive` | `[]NoGroupVanishes` | | A decision that rejects a duplicate has a rival: a row of the same title and company that is stored and comes before by (created, id). No step changes the stamps of a stored row, so the rival stays one, until the late write of the decision and after it. A group of which every row is rejected as a duplicate would have a first row (a least element, by well-founded induction over the naturals), and its rival would come before it. |
| `JobPipeline_proof!DispatchersOwn` | `[]DispatchersOwnTheirRows` | ResultLoss = FALSE | Nobody but the filter takes a row out of pending, and nobody but the child out of needs_detail; the two never work on the same row. |
| `JobPipeline_proof!PipelineImplementsLifecycle` | `ImplementsLifecycle` | ResultLoss = FALSE | Under the former invariant each write is a move of `JobLifecycle`, and each other step a stutter. |
| `Notify_proof!TypeCorrect` | `[]TypeOK` | | Inductive by itself. |
| `Notify_proof!BatchesStayClaimed`, `MarksAreAccountedFor` | `[]BatchesAreClaims`, `[]MarkIsAccountedFor` | no lost_result | A batch of a run is marked, batches are disjoint, a run that has not claimed holds nothing, and a row that a claim has selected and locked is unmarked until the claim commits: so a claim takes no other run's rows, a give-back clears only its own, and each mark belongs to a batch or to a delivery. |
| `Notify_proof!AnnouncedAtMostOnce` | `[]AnnouncedOnce` | no lost_result, no ambiguous_post | On top of that, what has been delivered is marked, and no open batch holds it: so no claim takes it again. |
| `Dispatchers_proof!TypeCorrect`, `WakeUpsAreNotLost` | `[]TypeOK`, `[]NoLostWakeUp` | | A row present at the last wake stays accounted for by the signal that is buffered, the load that is still to come, or the set of skipped rows; dropping a signal at continue-as-new is harmless because the new run loads first. |
| `ApifyBudget_proof!TypeCorrect`, `BudgetIsKept`, `OneRunIsOpen`, `LockIsGivenBack` | `[]TypeOK`, `[]ChargesWithinBudget`, `[]OneOpenRunPerPeriod`, `[]LockIsInSection` | | For a search in the section whose session is alive, the period it computed is frozen (no counted run starts or settles in a later one), its cap fits on top of what is charged, and no counted run of that period is open; the ledger the code sums is at least what Job Scout was charged. A search whose session died starts a run that is not counted and disturbs none of this. While a session has kept the lock after a failed unlock, only it takes it. |
| `ApifyBudget_proof!SpendIsNear` | `[]SpendNearLimit` | | What a period's settled runs cost and what was charged for them differ by at most four tenths of a cent for each of them: rounding loses no more, a run is settled once, and the settled runs are always finitely many. With ChargesWithinBudget this bounds the real cost. |
| `Scrapes_proof!TypeCorrect`, `LocksAreScrapes`, `ActivitiesAreAccountedFor` | `[]TypeOK`, `[]LockIsTheScrape`, `[]ActivitiesAreOwned` | | All are inductive together with two additions: a runner that is not idle has a source, and a detail fetch under the lock has a row to fetch. |
| `ScrapeRun_proof!TypeCorrect` | `[]TypeOK` | | The loop counters always point at a run of a search, and jobs wait in `found` only between the pages of one LinkedIn search. |
| `ScrapeRun_proof!MarksAreTrue` | `[]MarkIsTrue` | | The one variable for the last error is "none" exactly while no search has failed or been cancelled, and only an ended context cancels: the success of a later search does not reset it. |
| `ScrapeRun_proof!FetchedReachesTable`, `OnsiteDecides` | `[]FetchedIsStored`, `[]OnsiteWins` | | Whatever was fetched is, at each moment, in a row, among the failed inserts, in `found`, or in a batch that is still to be saved; if an onsite search fetched it, then as onsite. Saving one batch and dropping it from the front keeps that, and at the end the last two are empty. |
| `ScrapeRun_proof!EverySearchIsCounted` | `[]SearchesAreCounted` | | The searches done and failed are those behind the position of the two nested loops, (round - 1) * searches + search. |
| `ScrapeRun_proof!StepsAreUsedUp` | `[][UsesUp]_vars` | | Each step lowers a list of eight numbers (rounds, searches, parts, pages, attempts, batches still to save, and the like) in the lexicographic order, which the library of well-founded relations shows to be well founded: no scrape can go on for ever. That it does go on, the other half of ScrapeEnds, needs fairness. |
| `ScrapeRun_proof!ScrapeIsOneStep` | `[][OneStep /\ Outside!Next]_(Outside!vars)` | Jobs is finite | Refinement of `Scrapes` by one of its scrapes: nothing it knows changes before the mark, and the mark is its Succeed, Fail or EndUnmarked, with the lock freed, the workflow told, and the rows added. `ScrapeRun` begins under the lock, where `Scrapes` has already taken steps, so the theorem is about the steps and not about Init. |
| `Settings_proof!TypeCorrect` | `[]TypeOK` | | A schedule in flight was validated, and its normal form satisfies the constraints when it is stored. |
| `Settings_proof!StoresAgree` | `[]ScheduleAgrees` | | Without a disturbance at most one request is changing the schedule, and what it has installed is still installed when it comes to store it. |
| `Settings_proof!NothingElseChanges` | `OnlyRequestsChange` | | The word lists and the toggle are one row, so a seed that inserts it replaces neither. |
| `Settings_proof!SilenceIsKept` | `[]SilentIsSkipped` | | For hours, days and weeks of any lengths: a range of minutes is cut at the hours by the division theorem, each part is covered by one calendar, and a minute is less than a period's length after its start, counted around the week, exactly when it is in the period on its day or, over midnight, on the next. |
| `ProviderSettings_proof!StoredRuns` | `[]StoredIsRunnable` | | The row is canonical: validation takes it and normalisation leaves it as it is. Seeds are (`SeedAssumption`), normalisation makes any accepted request so (it is idempotent, keeps what validation looks at, and makes no more searches of them), and what the form sends is a request like any other, because a finite matrix has a finite product. |
| `ProviderSettings_proof!SharesComeBack` | `[]ShareRoundTrip` | | The export leaves a canonical search as it is, so the import validates and stores the same row. |
| `ProviderSettings_proof!SavesKeep` | `SaveKeepsSearches` | | The draft of a form keeps, after any number of edits, the keyword of every search whose keyword is not touched and a location that serves each whose location is not; and what is sent is either the searches of the row or the product, which has the search of that keyword and that location. |

`ProviderSettingsAssumption` types what requests hold: flags are booleans or absent,
lists are finite, codes, radii and timespans any string. `SeedAssumption` is true of
`src/job-scout/internal/db/seed/scraper_settings.json`, and TLC evaluates it for the
seeds of the run.

The strengthened invariants are needed because the properties speak of stored state
only, whereas the danger is in values that were read earlier and are still in
flight.

**Model-checked only**: liveness (PendingIsFiltered, DetailIsDecided,
ReadyIsAnnounced, WorkflowEnds, EnabledIsScraped, ScrapeEnds), which needs
fairness that is out of the prover's reach; of ScrapeEnds one half is proved
(StepsAreUsedUp). Every safety property that a passing run
checks is stated by a theorem.

## 5. Where the code and its words disagree

Three runs show a disagreement as a counterexample.

1. **A stale claim is never claimed again** (`notify_stale`). `ClaimReadyJobs` sets
   `notified_at` together with `notify_claimed_at` (`db/jobs.go:402`), and its
   WHERE demands `notified_at IS NULL`. The branch that takes over claims older
   than the timeout therefore never applies to a claim the program made, and rows
   whose claim completed in the database but not in Temporal are never announced.
2. **Scrapes do not start process-pending again** (`dispatchers_boot`).
   `src/job-scout/cmd/jobscout/main.go:79` says the next scrape does after a failed
   boot. Scrapes wake filter-pending only, and that wakes process-pending only when
   it writes a *new* needs_detail row. The same holds after process-pending died
   with the database.

3. **A schedule is installed that cannot be stored** (`settings_interval`).
   `normalizeNotificationSchedule` checks `interval_minutes` only in interval mode
   (`pipeline/schedule.go:211`), while the table demands 1 to 10080 of every row
   (`db/migrations/0013_notification_schedule.sql:7`). A cron schedule with an
   interval of -1 is installed in Temporal, then the INSERT fails: the request answers
   500, and Temporal runs the new cadence while the row and the UI keep the old one
   until the next change or boot. The comment at `db/notification_schedule.go:60` says
   the row has the cadence that was installed.

Observed while modelling, not checked by a run:

* Two changes of the notification schedule that overlap can leave Temporal with the
  one and the table with the other, and both answer OK (`api/handlers.go:473`): there
  is no lock around the two writes. The next change that is alone, or a boot, mends
  it. ScheduleAgrees is stated without such overlaps.
* An import that fails half-way leaves what it has written
  (`api/handlers_settings_share.go:258`), and two that overlap leave a mixture.
* The form of a provider sends the product of the keywords and locations it shows
  (`src/job-scout/webui/src/ProviderSettingsEditor.tsx`). Stored searches that are no
  product, as an API client or an import may send them, grow into one at the first save
  (Dice, Indeed) or the first edit of the matrix (LinkedIn). If the product exceeds the
  limit of pairs, a row of fewer pairs cannot be saved from the form at all. Indeed
  locations that differ in their radius alone become one. SaveKeepsSearches therefore says
  that searches are covered, in whatever radius, not that they stay the same.
* A form that was open while the row changed writes the whole row as it was when opened,
  and edits made while a save is in flight are lost when its answer arrives.
  SaveKeepsSearches is stated for a form that shows the row.
* `f_WT` of a LinkedIn search is not validated: an unknown code is searched without
  restriction, is shown as no type in the form, and is dropped with the next edit.
  SaveKeepsSearches speaks of the searches whose codes the form knows.
* An Indeed row older than the column of provider options has an empty country
  (`db/migrations/0012_provider_options.sql`), and its share code is refused by every
  import until the row is saved again.
* A save whose completion was lost is repeated with its old decision
  (`db/jobs.go:300` writes by id, whatever the state), and can take a row that the
  operator has reviewed since back to ready. This is why two theorems assume
  ResultLoss = FALSE.
* The filter reads the duplicate candidates before its UPDATE
  (`pipeline/activities.go:110`). A row that commits later with an earlier
  created_at is not seen, and both rows of a group are kept. NoGroupVanishes is the
  part that does hold.
* A row rejected as `remote_lie` keeps the reject when an onsite search later
  overrides its intention (`db/jobs.go:45`).
* The give-back clears marks by id (`db/jobs.go:427`). Repeated after a lost
  completion it clears the claim of a run that has taken the rows since, and a
  third run posts them again.
* A run that started before the 21st and still runs is in no list of the new
  period (`scraper/apify.go:284`), so it does not block a start, although
  `src/README.md:124` says an unknown cost does.
* Costs are rounded to cents one by one (`config/config.go:51`). SpendNearLimit
  bounds what this lets through.
* Due providers are listed once per workflow (`pipeline/workflow.go:165`); an
  activity that waited in its queue scrapes a provider that another workflow has
  scraped since.
* A detail activity that fails as an activity counts no attempt (`pipeline/workflow.go:409`),
  and process-pending forgets after an idle wait, or after fifty children, that it has
  skipped the row (lines 311 and 336). A row for which that happens every time takes
  LinkedIn's lock for ever, and so do rows that the operator re-evaluates for ever; each
  LinkedIn scrape that begins at such a moment ends as skipped, possibly all of them.
  Without the exception of `Relapse`, or with only one half of it, TLC finds
  EnabledIsScraped violated by such a cycle.
* An unlock of the APIFY lock that fails is only logged (`scraper/service.go:419`), whereas
  a source lock that cannot be given back has its connection discarded
  (`scraper/service.go:272`). The connection goes back to the pool with the lock, and paid
  searches of other sessions wait until it is closed.
* A scrape whose context has ended saves nothing of what it has collected, paid
  datasets included, and marks nothing: `finishScrape` inserts with the context that
  has just ended (`scraper/service.go:467`).
* A row that could not be inserted is logged and the scrape still marked a success
  (`scraper/service.go:543`).
* POST /scrape takes only the lock of its source (`scraper/service.go:231`), so two
  Apify sources may be scraped at once, although the queues are serial per family.

## 6. What is not modelled, and why

* Word matching, HTML parsing, message text, dataset mapping: text processing without
  state. base64, gzip and JSON of the share codec are taken as lossless; that a code
  was damaged or holds a credential is modelled by what it leads to.
* Options that do not change which searches there are (country, job type, rows), and the
  trimming and deduplication of word lists.
* The dashboard (`db/dashboard_stats.go`): sums and lists that nothing reads back.
  Progress reports (`scraper/progress.go`), routing, assets, logging: no state that a
  decision depends on.
* The rest of the web UI: the job list and the smaller forms show what they were last
  given and send one field or one decision at a time, and what such a request does when it
  arrives is modelled. Polling and the guard for unsaved edits change nothing stored.
* Migrations and configuration: run once; they give the initial states and types.
* The throttle between detail children and the waits between retries: delays.
* The 30 minute limit of a detail child: the late write it allows is part of the
  repeated save only while the child is in flight.

## 7. Plan

Done: `JobFilter`, `JobStore`, `JobLifecycle`, `JobPipeline` (the core), `Notify`,
`Dispatchers`, `ApifyBudget`, `Scrapes`, `ScrapeRun`, `Settings`, `ProviderSettings`,
a module of proofs for each of them that has state, a theorem for each safety
property that is checked, and the refinement of `Scrapes` by `ScrapeRun`.

Next: an abstract specification of the two stores of the schedule as one register,
which `Settings` implements where changes do not overlap.

Runs stay few: a new question joins a run of its module where the instance allows.
