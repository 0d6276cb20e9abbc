-------------------------- MODULE ProviderSettings --------------------------
(***************************************************************************)
(* What the searches of one provider are, on their way between API client, *)
(* table, settings form and share code: the validation and normalisation   *)
(* of PUT /scraper-settings, the reset to the seed, export and import, and *)
(* the form of the settings page, which shows stored searches as a matrix  *)
(* of keywords and locations and sends the product of the two.             *)
(*                                                                         *)
(* Lists are sets; where a later element wins over an earlier one, either  *)
(* may.  A field a search does not have is Absent.  The order in which a   *)
(* request writes is in Settings, the run of a search in ScrapeRun.        *)
(***************************************************************************)
EXTENDS Integers, FiniteSets

CONSTANTS
  Words, Places,    \* keywords and locations
  Strings,          \* what else a request can hold for a code or a number
  Requests,         \* per provider: the settings that API clients send
  Seed,             \* per provider: its row in scraper_settings.json
  MaxWords, MaxPlaces, MaxPairs, MaxFeeds,  \* the limits of paid searches
  MaxEdits          \* bound on the edits of an open form

Providers == {"LINKEDIN", "DICE", "INDEED", "FANTASTIC"}
WorkTypes == {"1", "2", "3"}
DiceSpans == {"all", "24h", "3d", "7d", "30d"}
Days == {"1", "3", "7", "14"}
Radii == {"0", "5", "10", "15", "25", "35", "50", "100"}
MaxPages == 5
Blank == "blank"

(* f_WT, include_remote, include_hybrid and radius when they are not there *)
Absent == [types |-> {"absent"}, remote |-> "absent", hybrid |-> "absent",
           radius |-> "absent"]
Optional == DOMAIN Absent

(* providerQueryFields *)
Fields(s) ==
  CASE s = "LINKEDIN" -> {"types"}
    [] s = "DICE" -> {"remote"}
    [] s = "INDEED" -> {"remote", "hybrid", "radius"}
    [] s = "FANTASTIC" -> {}

(* What a request and a row hold: include_remote and include_hybrid are    *)
(* booleans or not there, the codes of f_WT, a radius and a timespan any   *)
(* string, a number of pages any integer.                                  *)
Flags == {"true", "false", "absent"}
Queries ==
  [word : Words \cup {Blank}, place : Places \cup {Blank}, types : SUBSET Strings,
   remote : Flags, hybrid : Flags, radius : Strings]
Feeds == [titles : SUBSET Words, places : SUBSET Places]
Rows ==
  {r \in [queries : SUBSET Queries, global : SUBSET (Words \cup {Blank}),
          timespan : Strings, pages : Int, days : Strings, feeds : SUBSET Feeds] :
     IsFiniteSet(r.queries)}

ASSUME ProviderSettingsAssumption ==
  /\ Blank \notin Words \cup Places
  /\ WorkTypes \cup {Blank, "absent"} \subseteq Strings
  /\ {MaxWords, MaxPlaces, MaxPairs, MaxFeeds, MaxEdits} \subseteq Nat
  /\ DOMAIN Requests = Providers /\ DOMAIN Seed = Providers
  /\ \A s \in Providers : Requests[s] \subseteq Rows

VARIABLES
  source,  \* the provider
  row,     \* its row: [queries, global, timespan, pages, days, feeds]
  form     \* its section of the settings page

vars == <<source, row, form>>
----------------------------------------------------------------------------
(* Validation and normalisation.                                           *)

QueryOK(s, q) ==
  /\ q.word # Blank /\ q.place # Blank
  /\ s \in {"DICE", "INDEED"} => q.types = Absent.types /\ q.remote # Absent.remote
  /\ s = "INDEED" => q.hybrid # Absent.hybrid /\ q.radius \in Radii

(* Fault: the pairs that a request expands to are not counted. *)
FaultyWithinLimits(r) ==
  /\ Cardinality({q.word : q \in r.queries}) <= MaxWords
  /\ Cardinality({q.place : q \in r.queries}) <= MaxPlaces

WithinLimits(r) ==
  /\ Cardinality({q.word : q \in r.queries}) <= MaxWords
  /\ Cardinality({q.place : q \in r.queries}) <= MaxPlaces
  /\ Cardinality(r.queries) <= MaxPairs

DiceOK(r) ==
  /\ r.timespan \in DiceSpans /\ r.pages <= MaxPages /\ r.global \subseteq {Blank}
  /\ WithinLimits(r)

IndeedOK(r) ==
  /\ r.days \in Days /\ r.timespan = r.days /\ r.global \subseteq {Blank}
  /\ WithinLimits(r)

FantasticOK(r) ==
  /\ r.timespan = "all" /\ r.global \subseteq {Blank}
  /\ r.feeds # {} /\ Cardinality(r.feeds) <= MaxFeeds
  /\ \A f \in r.feeds : f.titles # {} /\ f.places # {}

(* validate *)
Accepted(s, r) ==
  /\ r.timespan # Blank /\ r.pages >= 1
  /\ s # "FANTASTIC" => \A q \in r.queries : QueryOK(s, q)
  /\ s = "LINKEDIN" => Blank \notin r.global
  /\ s = "DICE" => DiceOK(r)
  /\ s = "INDEED" => IndeedOK(r)
  /\ s = "FANTASTIC" => FantasticOK(r)

(* A query with the fields of its provider only. *)
Only(s, q) ==
  [f \in DOMAIN q |-> IF f \in Optional \ Fields(s) THEN Absent[f] ELSE q[f]]

(* settings, normalizeSearchQueries: no f_WT is stored as an empty one.  A *)
(* Fantastic row derives its queries from its feeds.                       *)
StoredQuery(s, q) ==
  LET o == Only(s, q)
  IN  IF s = "LINKEDIN" /\ o.types = Absent.types THEN [o EXCEPT !.types = {}] ELSE o

Stored(s, r) ==
  [r EXCEPT !.queries = IF s = "FANTASTIC" THEN {} ELSE {StoredQuery(s, q) : q \in @},
            !.global = IF s = "LINKEDIN" THEN @ ELSE {},
            !.days = IF s = "INDEED" THEN @ ELSE Blank,
            !.feeds = IF s = "FANTASTIC" THEN @ ELSE {}]

(* The seeds go into the table without a validation: they are rows that a  *)
(* request could have left there.                                          *)
ASSUME SeedAssumption ==
  \A s \in Providers :
    Seed[s] \in Rows /\ Accepted(s, Seed[s]) /\ Stored(s, Seed[s]) = Seed[s]

----------------------------------------------------------------------------
(* Export and import.                                                      *)

StoredFlag(f) == IF f = "true" THEN "true" ELSE "false"

(* Fault: a shared search has no radius. *)
FaultySharedQuery(s, q) ==
  [f \in DOMAIN q |->
     CASE f \in {"remote", "hybrid"} \cap Fields(s) -> StoredFlag(q[f])
       [] f \in {"word", "place", "types"} -> q[f]
       [] OTHER -> Absent[f]]

SharedQuery(s, q) ==
  [f \in DOMAIN q |->
     CASE f \in {"remote", "hybrid"} \cap Fields(s) -> StoredFlag(q[f])
       [] f \in {"word", "place", "radius", "types"} -> q[f]
       [] OTHER -> Absent[f]]

(* shareableProvider *)
Shareable(s, r) == [r EXCEPT !.queries = {SharedQuery(s, q) : q \in @}]

(* A share code: whether its checksum matches, whether somebody has put a  *)
(* credential into it, and the settings.                                   *)
Encode(r) == [crc |-> TRUE, secret |-> FALSE, settings |-> r]

Parses(c) == c.crc /\ ~c.secret

(* rejectUnknownShareFields, then the validation of a PUT *)
Importable(s, c) ==
  /\ Parses(c)
  /\ \A q \in c.settings.queries : \A f \in Optional \ Fields(s) : q[f] = Absent[f]
  /\ c.settings.days # Blank => s = "INDEED"
  /\ c.settings.feeds # {} => s = "FANTASTIC"
  /\ Accepted(s, c.settings)

----------------------------------------------------------------------------
(* The form.                                                               *)

(* Fault: a location is the same with and without remote jobs. *)
FaultyKey(p) == <<p.place>>

(* indeedLocationKey *)
Key(p) == <<p.place, p.remote, p.hybrid>>

PlaceOf(q) == [f \in Optional \cup {"place"} |-> q[f]]

(* The work types of a LinkedIn location are those of all its searches; a  *)
(* code that the form does not know is not shown.                          *)
MergedTypes(r, place) ==
  LET types == {q.types : q \in {q \in r.queries : q.place = place}}
  IN  IF {} \in types THEN WorkTypes ELSE WorkTypes \cap UNION types

(* toLinkedInMatrix, toDiceMatrix, toIndeedMatrix: of the locations with   *)
(* one key one is shown.                                                   *)
Matrices(s, r) ==
  LET shown == {IF s = "LINKEDIN"
                  THEN [PlaceOf(q) EXCEPT !.types = MergedTypes(r, q.place)]
                  ELSE PlaceOf(q) : q \in r.queries}
  IN  {places \in SUBSET shown :
         /\ \A p \in shown : \E o \in places : Key(o) = Key(p)
         /\ \A p, o \in places : Key(o) = Key(p) => o = p}

(* fromLinkedInMatrix, fromDiceMatrix, fromIndeedMatrix *)
Product(words, places) ==
  {[f \in Optional \cup {"place", "word"} |->
      CASE f = "word" -> w
        [] f = "types" /\ p.types = WorkTypes -> {}
        [] OTHER -> p[f]] : w \in words, p \in {p \in places : p.types # {}}}

(* toInput *)
Draft(s, r, places) ==
  LET words == {q.word : q \in r.queries}
  IN  [words |-> words, places |-> places, feeds |-> r.feeds,
       queries |-> IF s = "LINKEDIN" THEN r.queries ELSE Product(words, places)]

Untouched == [words |-> {}, places |-> {}, feeds |-> {}]
Closed == [open |-> FALSE]

(* The form as it is shown for a row. *)
Shown(r) ==
  \E places \in Matrices(source, r) :
    LET draft == Draft(source, r, places)
    IN  form' = [open |-> TRUE, of |-> r, base |-> draft, draft |-> draft,
                 touched |-> Untouched, edits |-> 0]

Init ==
  /\ source \in Providers
  /\ row = Seed[source]
  /\ form = Closed

----------------------------------------------------------------------------
(* API clients.                                                            *)

(* PUT /scraper-settings/{job_source} *)
ReplaceScraperSettings ==
  /\ \E r \in Requests[source] : Accepted(source, r) /\ row' = Stored(source, r)
  /\ UNCHANGED <<source, form>>

(* POST /settings/import, of JSON or of a code *)
ImportSettings ==
  /\ \E r \in Requests[source], crc \in BOOLEAN, secret \in BOOLEAN :
       /\ Importable(source, [crc |-> crc, secret |-> secret, settings |-> r])
       /\ row' = Stored(source, r)
  /\ UNCHANGED <<source, form>>

(* POST /scraper-settings/{job_source}/reset, by the form or past it *)
ResetScraperSettings ==
  /\ row' = Seed[source]
  /\ UNCHANGED form \/ (form.open /\ Shown(Seed[source]))
  /\ UNCHANGED source

----------------------------------------------------------------------------
(* The operator at the form.                                               *)

OpenForm ==
  /\ ~form.open
  /\ Shown(row)
  /\ UNCHANGED <<source, row>>

CloseForm ==
  /\ form.open
  /\ form' = Closed
  /\ UNCHANGED <<source, row>>

Edit(draft, touched) ==
  /\ form.open /\ form.edits < MaxEdits
  /\ form' = [form EXCEPT !.draft = draft, !.touched = touched, !.edits = @ + 1]
  /\ UNCHANGED <<source, row>>

(* patchLinkedIn, patchDice, patchIndeedMatrix *)
EditMatrix(words, places, touched) ==
  /\ source # "FANTASTIC"
  /\ Edit([words |-> words, places |-> places, feeds |-> form.draft.feeds,
           queries |-> Product(words, places)], touched)

EditWord ==
  /\ form.open
  /\ \E w \in Words :
       EditMatrix(IF w \in form.draft.words THEN form.draft.words \ {w}
                  ELSE form.draft.words \cup {w},
                  form.draft.places, [form.touched EXCEPT !.words = @ \cup {w}])

RemovePlace ==
  /\ form.open
  /\ \E p \in form.draft.places :
       EditMatrix(form.draft.words, form.draft.places \ {p},
                  [form.touched EXCEPT !.places = @ \cup {p.place}])

(* Of two Indeed locations with one key the later one is sent. *)
AddPlace ==
  /\ form.open
  /\ \E p \in {PlaceOf(q) : q \in UNION {r.queries : r \in Requests[source]}} :
       /\ \A f \in Optional : p[f] = Absent[f] <=> f \notin Fields(source)
       /\ source = "LINKEDIN" => p.types \subseteq WorkTypes
       /\ EditMatrix(form.draft.words,
                     {o \in form.draft.places : source = "INDEED" => Key(o) # Key(p)} \cup {p},
                     [form.touched EXCEPT !.places = @ \cup {p.place}])

(* patchFantastic *)
EditFeed ==
  /\ form.open /\ source = "FANTASTIC"
  /\ \E f \in UNION {r.feeds : r \in Requests[source]} :
       Edit([form.draft EXCEPT !.feeds = IF f \in @ THEN @ \ {f} ELSE @ \cup {f}],
            [form.touched EXCEPT !.feeds = @ \cup {f}])

(* The save button: all that the form holds, whatever the row is by now. *)
SaveForm ==
  /\ form.open /\ form.draft # form.base
  /\ LET r == [form.of EXCEPT !.queries = form.draft.queries, !.feeds = form.draft.feeds]
     IN  /\ Accepted(source, r)
         /\ row' = Stored(source, r)
         /\ Shown(Stored(source, r))
  /\ UNCHANGED source

Next ==
  \/ ReplaceScraperSettings \/ ImportSettings \/ ResetScraperSettings
  \/ OpenForm \/ CloseForm \/ SaveForm
  \/ EditWord \/ RemovePlace \/ AddPlace \/ EditFeed

Spec == Init /\ [][Next]_vars
----------------------------------------------------------------------------
(* Correctness.                                                            *)

(* The paid runs one round of a scrape starts, and their bound: Indeed     *)
(* runs a search for both kinds of jobs twice.                             *)
ActorRuns ==
  CASE source = "LINKEDIN" -> 0
    [] source = "FANTASTIC" -> Cardinality(row.feeds)
    [] OTHER -> Cardinality(row.queries)
                  + Cardinality({q \in row.queries : q.remote = "true" /\ q.hybrid = "true"})

MaxRuns ==
  [LINKEDIN |-> 0, DICE |-> MaxPairs, INDEED |-> 2 * MaxPairs, FANTASTIC |-> MaxFeeds]

(* Whichever way settings came in, a scrape runs every search as it is     *)
(* stored, without a default in place of a value it does not know, and the *)
(* runs it pays for are bounded, although the form sends a product.        *)
StoredIsRunnable ==
  /\ row.timespan # Blank
  /\ \A q \in row.queries : Blank \notin {q.word, q.place}
  /\ source = "DICE" =>
       /\ row.timespan \in DiceSpans /\ row.pages \in 1 .. MaxPages
       /\ \A q \in row.queries : q.remote \in {"true", "false"}
  /\ source = "INDEED" =>
       /\ row.days \in Days
       /\ \A q \in row.queries : q.radius \in Radii
  /\ source = "FANTASTIC" => row.feeds # {}
  /\ ActorRuns <= MaxRuns[source]

(* What a Job Scout exports, every Job Scout imports, and it stores the    *)
(* same row: the export writes what the stricter reader of imports takes.  *)
ShareRoundTrip ==
  LET code == Encode(Shareable(source, row))
  IN  Importable(source, code) /\ Stored(source, code.settings) = row

(* q is searched for by o as well, in whatever radius. *)
Covers(o, q) ==
  /\ o.word = q.word /\ o.place = q.place
  /\ o.remote = q.remote /\ o.hybrid = q.hybrid
  /\ o.types = {} \/ (q.types # {} /\ q.types \subseteq o.types)

(* Saving a form that shows the row as it is stored loses no search whose  *)
(* keywords and location the operator did not touch, although the form     *)
(* sends the product of what it shows and not the stored searches.  Of     *)
(* LinkedIn's, those with the work types that the form knows.              *)
SaveKeepsSearches ==
  [][SaveForm /\ form.of = row =>
       /\ \A q \in row.queries :
            (source = "LINKEDIN" => q.types \subseteq WorkTypes) =>
            q.word \in form.touched.words \/ q.place \in form.touched.places
              \/ \E o \in row'.queries : Covers(o, q)
       /\ row.feeds \ form.touched.feeds \subseteq row'.feeds]_vars
============================================================================
