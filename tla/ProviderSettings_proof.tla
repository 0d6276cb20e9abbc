----------------------- MODULE ProviderSettings_proof -----------------------
(***************************************************************************)
(* Proofs about ProviderSettings, for all words and places, requests,      *)
(* seeds and limits.                                                       *)
(***************************************************************************)
EXTENDS ProviderSettings, FiniteSetTheorems, TLAPS

----------------------------------------------------------------------------
(* Searches and rows, field by field.                                      *)

(* What is stored of a search. *)
LEMMA StoredSearch ==
  ASSUME NEW s \in Providers, NEW q \in Queries
  PROVE  StoredQuery(s, q) =
           [word |-> q.word, place |-> q.place,
            types |-> IF s = "LINKEDIN"
                        THEN IF q.types = {"absent"} THEN {} ELSE q.types
                        ELSE {"absent"},
            remote |-> IF s \in {"DICE", "INDEED"} THEN q.remote ELSE "absent",
            hybrid |-> IF s = "INDEED" THEN q.hybrid ELSE "absent",
            radius |-> IF s = "INDEED" THEN q.radius ELSE "absent"]
<1> DEFINE o == Only(s, q)
<1>1. DOMAIN q = {"word", "place", "types", "remote", "hybrid", "radius"}
  BY DEF Queries
<1>2. Optional = {"types", "remote", "hybrid", "radius"}
  BY DEF Optional, Absent
<1>3. Fields(s) = IF s = "LINKEDIN" THEN {"types"}
                  ELSE IF s = "DICE" THEN {"remote"}
                  ELSE IF s = "INDEED" THEN {"remote", "hybrid", "radius"}
                  ELSE {}
  BY DEF Fields, Providers
<1>4. o = [word |-> q.word, place |-> q.place,
           types |-> IF s = "LINKEDIN" THEN q.types ELSE {"absent"},
           remote |-> IF s \in {"DICE", "INDEED"} THEN q.remote ELSE "absent",
           hybrid |-> IF s = "INDEED" THEN q.hybrid ELSE "absent",
           radius |-> IF s = "INDEED" THEN q.radius ELSE "absent"]
  BY <1>1, <1>2, <1>3 DEF Only, Absent, Providers
<1>5. CASE s = "LINKEDIN" /\ o.types = Absent.types
  <2>1. StoredQuery(s, q) = [o EXCEPT !.types = {}]
    BY <1>5 DEF StoredQuery
  <2> QED
    BY <2>1, <1>4, <1>5 DEF Absent
<1>6. CASE ~(s = "LINKEDIN" /\ o.types = Absent.types)
  <2>1. StoredQuery(s, q) = o
    BY <1>6 DEF StoredQuery
  <2> QED
    BY <2>1, <1>4, <1>6 DEF Absent
<1> QED
  BY <1>5, <1>6

(* What is stored of a row. *)
LEMMA StoredRow ==
  ASSUME NEW s \in Providers, NEW r \in Rows
  PROVE  Stored(s, r) =
           [queries |-> IF s = "FANTASTIC" THEN {} ELSE {StoredQuery(s, q) : q \in r.queries},
            global |-> IF s = "LINKEDIN" THEN r.global ELSE {},
            timespan |-> r.timespan, pages |-> r.pages,
            days |-> IF s = "INDEED" THEN r.days ELSE Blank,
            feeds |-> IF s = "FANTASTIC" THEN r.feeds ELSE {}]
<1> DEFINE images == {StoredQuery(s, q) : q \in r.queries}
           queries == IF s = "FANTASTIC" THEN {} ELSE images
           global == IF s = "LINKEDIN" THEN r.global ELSE {}
           days == IF s = "INDEED" THEN r.days ELSE Blank
           feeds == IF s = "FANTASTIC" THEN r.feeds ELSE {}
<1>1. Stored(s, r) = [r EXCEPT !.queries = queries, !.global = global, !.days = days,
                               !.feeds = feeds]
  BY DEF Stored
<1>2. r \in [queries : SUBSET Queries, global : SUBSET (Words \cup {Blank}),
            timespan : Strings, pages : Int, days : Strings, feeds : SUBSET Feeds]
  BY DEF Rows
<1> HIDE DEF queries, global, days, feeds
<1>3. Stored(s, r) = [queries |-> queries, global |-> global, timespan |-> r.timespan,
                      pages |-> r.pages, days |-> days, feeds |-> feeds]
  BY <1>1, <1>2
<1> QED
  BY <1>3 DEF queries, global, days, feeds

(* A search that is sent for a keyword and a location of the form. *)
Offer(w, p) ==
  [word |-> w, place |-> p.place, types |-> IF p.types = WorkTypes THEN {} ELSE p.types,
   remote |-> p.remote, hybrid |-> p.hybrid, radius |-> p.radius]

ShownPlaces ==
  [place : Places \cup {Blank}, types : SUBSET Strings, remote : Flags, hybrid : Flags,
   radius : Strings]

LEMMA ProductOffers ==
  ASSUME NEW words, NEW places \in SUBSET ShownPlaces
  PROVE  Product(words, places) =
           {Offer(w, p) : w \in words, p \in {p \in places : p.types # {}}}
<1>1. Optional \cup {"place", "word"} =
        {"word", "place", "types", "remote", "hybrid", "radius"}
  BY DEF Optional, Absent
<1>2. ASSUME NEW w \in words, NEW p \in {p \in places : p.types # {}}
      PROVE  [f \in Optional \cup {"place", "word"} |->
                CASE f = "word" -> w
                  [] f = "types" /\ p.types = WorkTypes -> {}
                  [] OTHER -> p[f]] = Offer(w, p)
  BY <1>1 DEF Offer, ShownPlaces
<1> DEFINE made(w, p) ==
             [f \in Optional \cup {"place", "word"} |->
                CASE f = "word" -> w
                  [] f = "types" /\ p.types = WorkTypes -> {}
                  [] OTHER -> p[f]]
<1>3. Product(words, places) = {made(w, p) : w \in words, p \in {p \in places : p.types # {}}}
  BY DEF Product
<1>4. \A w \in words : \A p \in {p \in places : p.types # {}} : made(w, p) = Offer(w, p)
  BY <1>2
<1> HIDE DEF made
<1> QED
  BY <1>3, <1>4

LEMMA ShownPlace ==
  ASSUME NEW q \in Queries
  PROVE  PlaceOf(q) = [place |-> q.place, types |-> q.types, remote |-> q.remote,
                       hybrid |-> q.hybrid, radius |-> q.radius]
<1>1. Optional \cup {"place"} = {"place", "types", "remote", "hybrid", "radius"}
  BY DEF Optional, Absent
<1> QED
  BY <1>1 DEF PlaceOf, Queries

----------------------------------------------------------------------------
(* What validation and normalisation leave in the table: a row that both   *)
(* take as it is.                                                          *)

Canonical(s, r) == r \in Rows /\ Accepted(s, r) /\ Stored(s, r) = r

LEMMA StoredSearchIsSearch ==
  ASSUME NEW s \in Providers, NEW q \in Queries
  PROVE  /\ StoredQuery(s, q) \in Queries
         /\ StoredQuery(s, StoredQuery(s, q)) = StoredQuery(s, q)
         /\ StoredQuery(s, q).word = q.word /\ StoredQuery(s, q).place = q.place
         /\ QueryOK(s, q) => QueryOK(s, StoredQuery(s, q))
<1> DEFINE o == StoredQuery(s, q)
<1>1. /\ o = [word |-> q.word, place |-> q.place,
              types |-> IF s = "LINKEDIN"
                          THEN IF q.types = {"absent"} THEN {} ELSE q.types
                          ELSE {"absent"},
              remote |-> IF s \in {"DICE", "INDEED"} THEN q.remote ELSE "absent",
              hybrid |-> IF s = "INDEED" THEN q.hybrid ELSE "absent",
              radius |-> IF s = "INDEED" THEN q.radius ELSE "absent"]
  BY StoredSearch
<1> HIDE DEF o
<1>2. /\ q.word \in Words \cup {Blank} /\ q.place \in Places \cup {Blank}
      /\ q.types \in SUBSET Strings /\ q.remote \in Flags /\ q.hybrid \in Flags
      /\ q.radius \in Strings
  BY DEF Queries
<1>3. o.types \in SUBSET Strings
  BY <1>1, <1>2, ProviderSettingsAssumption
<1>4. o.remote \in Flags /\ o.hybrid \in Flags /\ o.radius \in Strings
  BY <1>1, <1>2, ProviderSettingsAssumption DEF Flags
<1>5. o \in Queries
  BY <1>1, <1>2, <1>3, <1>4 DEF Queries
<1>6. StoredQuery(s, o) =
           [word |-> o.word, place |-> o.place,
            types |-> IF s = "LINKEDIN"
                        THEN IF o.types = {"absent"} THEN {} ELSE o.types
                        ELSE {"absent"},
            remote |-> IF s \in {"DICE", "INDEED"} THEN o.remote ELSE "absent",
            hybrid |-> IF s = "INDEED" THEN o.hybrid ELSE "absent",
            radius |-> IF s = "INDEED" THEN o.radius ELSE "absent"]
  BY <1>5, StoredSearch
<1>7. StoredQuery(s, o) = o
  BY <1>1, <1>6
<1>8. o.word = q.word /\ o.place = q.place
  BY <1>1
<1>9. QueryOK(s, q) => QueryOK(s, o)
  BY <1>1 DEF QueryOK, Absent
<1> QED
  BY <1>5, <1>7, <1>8, <1>9 DEF o

(* There are no more stored searches than sent ones. *)
LEMMA StoredSearchesAreFew ==
  ASSUME NEW s \in Providers, NEW S \in SUBSET Queries, IsFiniteSet(S)
  PROVE  LET T == {StoredQuery(s, q) : q \in S}
         IN  IsFiniteSet(T) /\ Cardinality(T) <= Cardinality(S)
<1> DEFINE T == {StoredQuery(s, q) : q \in S}
           f == [q \in S |-> StoredQuery(s, q)]
<1>1. f \in Surjection(S, T)
  BY DEF Surjection
<1> QED
  BY <1>1, FS_Surjection

LEMMA StoredIsCanonical ==
  ASSUME NEW s \in Providers, NEW r \in Rows, Accepted(s, r)
  PROVE  Canonical(s, Stored(s, r))
<1> DEFINE o == Stored(s, r)
           T == {StoredQuery(s, q) : q \in r.queries}
<1>1. o = [queries |-> IF s = "FANTASTIC" THEN {} ELSE T,
           global |-> IF s = "LINKEDIN" THEN r.global ELSE {},
           timespan |-> r.timespan, pages |-> r.pages,
           days |-> IF s = "INDEED" THEN r.days ELSE Blank,
           feeds |-> IF s = "FANTASTIC" THEN r.feeds ELSE {}]
  BY StoredRow
<1>2. /\ r.queries \in SUBSET Queries /\ IsFiniteSet(r.queries)
      /\ r.global \in SUBSET (Words \cup {Blank}) /\ r.timespan \in Strings
      /\ r.pages \in Int /\ r.days \in Strings /\ r.feeds \in SUBSET Feeds
  BY DEF Rows
<1>3. T \in SUBSET Queries
  BY <1>2, StoredSearchIsSearch
<1>4. IsFiniteSet(T) /\ Cardinality(T) <= Cardinality(r.queries)
  BY <1>2, StoredSearchesAreFew
<1>5. /\ {q.word : q \in T} = {q.word : q \in r.queries}
      /\ {q.place : q \in T} = {q.place : q \in r.queries}
  BY <1>2, StoredSearchIsSearch
<1>6. {StoredQuery(s, q) : q \in T} = T
  BY <1>2, StoredSearchIsSearch
<1>7. Cardinality(r.queries) \in Nat /\ Cardinality(T) \in Nat
  BY <1>2, <1>4, FS_CardinalityType
<1>8. (\A q \in r.queries : QueryOK(s, q)) => \A q \in T : QueryOK(s, q)
  BY <1>2, StoredSearchIsSearch
<1> HIDE DEF o, T
<1>9. o \in Rows
  <2>1. IsFiniteSet(o.queries) /\ o.queries \in SUBSET Queries
    BY <1>1, <1>3, <1>4, FS_EmptySet
  <2>2. o.days \in Strings
    BY <1>1, <1>2, ProviderSettingsAssumption
  <2> QED
    BY <1>1, <1>2, <2>1, <2>2 DEF Rows
<1>10. Accepted(s, o)
  <2>1. /\ r.timespan # Blank /\ r.pages >= 1
        /\ o.timespan # Blank /\ o.pages >= 1
    BY <1>1 DEF Accepted
  <2>2. CASE s = "LINKEDIN"
    BY <1>1, <1>8, <2>1, <2>2 DEF Accepted
  <2>3. ASSUME s \in {"DICE", "INDEED"}
        PROVE  WithinLimits(r) => WithinLimits(o)
    <3>1. o.queries = T
      BY <1>1, <2>3
    <3>2. MaxPairs \in Nat
      BY ProviderSettingsAssumption
    <3>3. /\ {q.word : q \in o.queries} = {q.word : q \in r.queries}
          /\ {q.place : q \in o.queries} = {q.place : q \in r.queries}
      BY <1>5, <3>1
    <3>4. Cardinality(o.queries) <= Cardinality(r.queries) /\ Cardinality(o.queries) \in Nat
      BY <1>4, <1>7, <3>1
    <3>5. /\ Cardinality({q.word : q \in o.queries}) = Cardinality({q.word : q \in r.queries})
          /\ Cardinality({q.place : q \in o.queries}) = Cardinality({q.place : q \in r.queries})
      BY <3>3, Zenon
    <3>6. Cardinality(r.queries) <= MaxPairs => Cardinality(o.queries) <= MaxPairs
      BY <1>7, <3>2, <3>4
    <3> QED
      BY <3>5, <3>6, Zenon DEF WithinLimits
  <2>4. CASE s = "DICE"
    BY <1>1, <1>8, <2>1, <2>3, <2>4 DEF Accepted, DiceOK
  <2>5. CASE s = "INDEED"
    BY <1>1, <1>8, <2>1, <2>3, <2>5 DEF Accepted, IndeedOK
  <2>6. CASE s = "FANTASTIC"
    BY <1>1, <2>1, <2>6 DEF Accepted, FantasticOK
  <2> QED
    BY <2>2, <2>4, <2>5, <2>6 DEF Providers
<1>11. Stored(s, o) = o
  <2>1. Stored(s, o) =
          [queries |-> IF s = "FANTASTIC" THEN {} ELSE {StoredQuery(s, q) : q \in o.queries},
           global |-> IF s = "LINKEDIN" THEN o.global ELSE {},
           timespan |-> o.timespan, pages |-> o.pages,
           days |-> IF s = "INDEED" THEN o.days ELSE Blank,
           feeds |-> IF s = "FANTASTIC" THEN o.feeds ELSE {}]
    BY <1>9, StoredRow
  <2>2. s # "FANTASTIC" => {StoredQuery(s, q) : q \in o.queries} = o.queries
    BY <1>1, <1>6
  <2> QED
    BY <1>1, <2>1, <2>2
<1> QED
  BY <1>9, <1>10, <1>11 DEF Canonical, o

(* The searches of such a row have the fields of their provider. *)
LEMMA CanonicalSearch ==
  ASSUME NEW s \in Providers, NEW r, Canonical(s, r), NEW q \in r.queries
  PROVE  /\ s # "FANTASTIC" /\ q \in Queries /\ QueryOK(s, q)
         /\ StoredQuery(s, q) = q
<1>1. r \in Rows /\ r.queries \in SUBSET Queries
  BY DEF Canonical, Rows
<1>2. r.queries = IF s = "FANTASTIC" THEN {} ELSE {StoredQuery(s, o) : o \in r.queries}
  <2> DEFINE all == IF s = "FANTASTIC" THEN {} ELSE {StoredQuery(s, o) : o \in r.queries}
  <2>1. Stored(s, r).queries = all
    <3>1. Stored(s, r) =
           [queries |-> all,
            global |-> IF s = "LINKEDIN" THEN r.global ELSE {},
            timespan |-> r.timespan, pages |-> r.pages,
            days |-> IF s = "INDEED" THEN r.days ELSE Blank,
            feeds |-> IF s = "FANTASTIC" THEN r.feeds ELSE {}]
      BY <1>1, StoredRow
    <3> HIDE DEF all
    <3> QED
      BY <3>1
  <2> QED
    BY <2>1 DEF Canonical
<1>3. PICK o \in r.queries : s # "FANTASTIC" /\ q = StoredQuery(s, o)
  BY <1>2
<1>4. QueryOK(s, q)
  BY <1>3 DEF Canonical, Accepted
<1> QED
  BY <1>1, <1>3, <1>4, StoredSearchIsSearch

(* Its other settings that its provider does not have are not set. *)
LEMMA CanonicalRow ==
  ASSUME NEW s \in Providers, NEW r, Canonical(s, r)
  PROVE  /\ s = "FANTASTIC" => r.queries = {}
         /\ s # "INDEED" => r.days = Blank
         /\ s # "FANTASTIC" => r.feeds = {}
<1>1. r \in Rows /\ Stored(s, r) = r
  BY DEF Canonical
<1>2. Stored(s, r) =
           [queries |-> IF s = "FANTASTIC" THEN {} ELSE {StoredQuery(s, q) : q \in r.queries},
            global |-> IF s = "LINKEDIN" THEN r.global ELSE {},
            timespan |-> r.timespan, pages |-> r.pages,
            days |-> IF s = "INDEED" THEN r.days ELSE Blank,
            feeds |-> IF s = "FANTASTIC" THEN r.feeds ELSE {}]
  BY <1>1, StoredRow
<1> QED
  BY <1>1, <1>2

----------------------------------------------------------------------------
(* What a scrape and an export make of such a row.                         *)

LEMMA CanonicalIsRunnable ==
  ASSUME source \in Providers, Canonical(source, row)
  PROVE  StoredIsRunnable
<1> DEFINE both == {q \in row.queries : q.remote = "true" /\ q.hybrid = "true"}
<1>1. /\ row.queries \in SUBSET Queries /\ IsFiniteSet(row.queries) /\ row.pages \in Int
      /\ Accepted(source, row)
  BY DEF Canonical, Rows
<1>2. \A q \in row.queries : /\ source # "FANTASTIC" /\ q \in Queries
                             /\ QueryOK(source, q) /\ StoredQuery(source, q) = q
  BY CanonicalSearch
<1>3. /\ row.timespan # Blank
      /\ \A q \in row.queries : Blank \notin {q.word, q.place}
  BY <1>1, <1>2 DEF QueryOK, Accepted
<1>4. ASSUME source = "DICE"
      PROVE  /\ row.timespan \in DiceSpans /\ row.pages \in 1 .. MaxPages
             /\ \A q \in row.queries : q.remote \in {"true", "false"}
  <2>1. \A q \in row.queries : q.remote \in {"true", "false"}
    BY <1>2, <1>4 DEF QueryOK, Absent, Queries, Flags
  <2> QED
    BY <1>1, <1>4, <2>1 DEF Accepted, DiceOK, MaxPages
<1>5. ASSUME source = "INDEED"
      PROVE  row.days \in Days /\ \A q \in row.queries : q.radius \in Radii
  BY <1>1, <1>2, <1>5 DEF Accepted, IndeedOK, QueryOK
<1>6. source = "FANTASTIC" => row.feeds # {}
  BY <1>1 DEF Accepted, FantasticOK
<1>7. MaxPairs \in Nat
  BY ProviderSettingsAssumption
<1>8. /\ Cardinality(row.queries) \in Nat /\ Cardinality(both) \in Nat
      /\ Cardinality(both) <= Cardinality(row.queries)
  <2>1. IsFiniteSet(both) /\ Cardinality(both) <= Cardinality(row.queries)
    <3>1. both \in SUBSET row.queries
      OBVIOUS
    <3> HIDE DEF both
    <3> QED
      BY <1>1, <3>1, FS_Subset
  <2> QED
    BY <1>1, <2>1, FS_CardinalityType
<1>9. ActorRuns <= MaxRuns[source]
  <2>1. CASE source = "LINKEDIN"
    BY <2>1 DEF ActorRuns, MaxRuns
  <2>2. CASE source = "FANTASTIC"
    BY <1>1, <2>2 DEF ActorRuns, MaxRuns, Accepted, FantasticOK
  <2>3. CASE source = "DICE"
    <3>1. \A q \in row.queries : q.hybrid = "absent"
      <4>1. \A q \in row.queries : StoredQuery(source, q).hybrid = "absent"
        BY <1>2, <2>3, StoredSearch
      <4> QED
        BY <1>2, <4>1
    <3>2. both = {}
      BY <3>1
    <3>3. Cardinality(both) = 0
      BY <3>2, FS_EmptySet
    <3>4. Cardinality(row.queries) <= MaxPairs
      BY <1>1, <2>3 DEF Accepted, DiceOK, WithinLimits
    <3>5. ActorRuns = Cardinality(row.queries) + Cardinality(both)
      BY <2>3 DEF ActorRuns
    <3>6. MaxRuns[source] = MaxPairs
      BY <2>3 DEF MaxRuns
    <3> HIDE DEF both
    <3> QED
      BY <1>7, <1>8, <3>3, <3>4, <3>5, <3>6
  <2>4. CASE source = "INDEED"
    <3>1. Cardinality(row.queries) <= MaxPairs
      BY <1>1, <2>4 DEF Accepted, IndeedOK, WithinLimits
    <3>2. ActorRuns = Cardinality(row.queries) + Cardinality(both)
      BY <2>4 DEF ActorRuns
    <3>3. MaxRuns[source] = 2 * MaxPairs
      BY <2>4 DEF MaxRuns
    <3> HIDE DEF both
    <3> QED
      BY <1>7, <1>8, <3>1, <3>2, <3>3
  <2> QED
    BY <2>1, <2>2, <2>3, <2>4 DEF Providers
<1> QED
  BY <1>3, <1>4, <1>5, <1>6, <1>9 DEF StoredIsRunnable

(* The export leaves out nothing of a stored search. *)
LEMMA SharedSearch ==
  ASSUME NEW s \in Providers, NEW q \in Queries, QueryOK(s, q), StoredQuery(s, q) = q
  PROVE  /\ SharedQuery(s, q) = q
         /\ \A f \in Optional \ Fields(s) : q[f] = Absent[f]
<1>1. DOMAIN q = {"word", "place", "types", "remote", "hybrid", "radius"}
  BY DEF Queries
<1>2. Optional = {"types", "remote", "hybrid", "radius"}
  BY DEF Optional, Absent
<1>3. Fields(s) = IF s = "LINKEDIN" THEN {"types"}
                  ELSE IF s = "DICE" THEN {"remote"}
                  ELSE IF s = "INDEED" THEN {"remote", "hybrid", "radius"}
                  ELSE {}
  BY DEF Fields, Providers
<1>4. /\ s # "LINKEDIN" => q.types = {"absent"}
      /\ s \notin {"DICE", "INDEED"} => q.remote = "absent"
      /\ s # "INDEED" => q.hybrid = "absent" /\ q.radius = "absent"
  BY StoredSearch
<1>5. /\ s \in {"DICE", "INDEED"} => q.remote \in {"true", "false"}
      /\ s = "INDEED" => q.hybrid \in {"true", "false"}
  BY DEF QueryOK, Absent, Queries, Flags
<1>6. \A f \in Optional \ Fields(s) : q[f] = Absent[f]
  BY <1>2, <1>3, <1>4 DEF Absent, Providers
<1>7. ASSUME NEW f \in DOMAIN q
      PROVE  (CASE f \in {"remote", "hybrid"} \cap Fields(s) -> StoredFlag(q[f])
                [] f \in {"word", "place", "radius", "types"} -> q[f]
                [] OTHER -> Absent[f]) = q[f]
  <2>1. CASE f \in {"remote", "hybrid"} \cap Fields(s)
    BY <1>3, <1>5, <2>1 DEF StoredFlag
  <2>2. CASE f \in {"word", "place", "radius", "types"}
    BY <2>2
  <2>3. CASE f \in {"remote", "hybrid"} \ Fields(s)
    BY <1>2, <1>6, <2>3
  <2> QED
    BY <1>1, <2>1, <2>2, <2>3
<1>8. SharedQuery(s, q) = [f \in DOMAIN q |-> q[f]]
  BY <1>7 DEF SharedQuery
<1>9. q = [f \in DOMAIN q |-> q[f]]
  BY DEF Queries
<1> QED
  BY <1>6, <1>8, <1>9

LEMMA CanonicalIsShareable ==
  ASSUME source \in Providers, Canonical(source, row)
  PROVE  ShareRoundTrip
<1>1. row \in Rows /\ Accepted(source, row) /\ Stored(source, row) = row
  BY DEF Canonical
<1>2. \A q \in row.queries :
        SharedQuery(source, q) = q /\ \A f \in Optional \ Fields(source) : q[f] = Absent[f]
  BY CanonicalSearch, SharedSearch
<1>3. {SharedQuery(source, q) : q \in row.queries} = row.queries
  BY <1>2
<1>4. Shareable(source, row) = row
  <2>1. Shareable(source, row) = [row EXCEPT !.queries = row.queries]
    BY <1>3 DEF Shareable
  <2> QED
    BY <1>1, <2>1 DEF Rows
<1>5. Encode(row) = [crc |-> TRUE, secret |-> FALSE, settings |-> row]
  BY DEF Encode
<1>6. Importable(source, Encode(row))
  BY <1>1, <1>2, <1>5, CanonicalRow DEF Importable, Parses
<1> QED
  BY <1>1, <1>4, <1>5, <1>6 DEF ShareRoundTrip

----------------------------------------------------------------------------
(* The form.                                                               *)

Drafts ==
  [words : SUBSET (Words \cup {Blank}), places : SUBSET ShownPlaces,
   feeds : SUBSET Feeds, queries : SUBSET Queries]

Touches ==
  [words : SUBSET (Words \cup {Blank}), places : SUBSET (Places \cup {Blank}),
   feeds : SUBSET Feeds]

OpenForms ==
  [open : {TRUE}, of : Rows, base : Drafts, draft : Drafts, touched : Touches, edits : Nat]

(* A location of the form stands for the place of a stored search. *)
Serves(p, q) ==
  /\ p.place = q.place /\ p.remote = q.remote /\ p.hybrid = q.hybrid
  /\ p.types = WorkTypes \/ (q.types # {} /\ q.types \subseteq p.types)

Finite(draft) ==
  IsFiniteSet(draft.words) /\ IsFiniteSet(draft.places) /\ IsFiniteSet(draft.queries)

(* The searches that a draft sends: the product of what it shows, or, of a *)
(* LinkedIn form that nobody has edited, the searches of its row.          *)
Sends(s, of, draft) ==
  \/ draft.queries = Product(draft.words, draft.places)
  \/ s = "LINKEDIN" /\ draft.queries = of.queries

(* What is not touched of the row that the form shows is in its draft. *)
Keeps(s, of, draft, touched) ==
  /\ \A q \in of.queries :
       (s = "LINKEDIN" => q.types \subseteq WorkTypes) =>
         /\ q.word \in touched.words \/ q.word \in draft.words
         /\ q.place \in touched.places \/ \E p \in draft.places : Serves(p, q)
  /\ of.feeds \ touched.feeds \subseteq draft.feeds

FormOK(s, f) ==
  \/ f = Closed
  \/ /\ f \in OpenForms
     /\ Canonical(s, f.of)
     /\ Finite(f.draft)
     /\ Sends(s, f.of, f.draft)
     /\ Keeps(s, f.of, f.draft, f.touched)

IInv ==
  /\ source \in Providers
  /\ Canonical(source, row)
  /\ FormOK(source, form)

(* A finite product is sent as finitely many searches. *)
LEMMA ProductIsFinite ==
  ASSUME NEW words \in SUBSET (Words \cup {Blank}), NEW places \in SUBSET ShownPlaces,
         IsFiniteSet(words), IsFiniteSet(places)
  PROVE  Product(words, places) \in SUBSET Queries /\ IsFiniteSet(Product(words, places))
<1> DEFINE sent == {p \in places : p.types # {}}
           offers == {Offer(w, p) : w \in words, p \in sent}
           f == [x \in words \X sent |-> Offer(x[1], x[2])]
<1>1. Product(words, places) = offers
  BY ProductOffers
<1>2. offers \in SUBSET Queries
  <2>1. ASSUME NEW w \in words, NEW p \in sent
        PROVE  Offer(w, p) \in Queries
    BY DEF Offer, ShownPlaces, Queries
  <2> QED
    BY <2>1
<1>3. f \in Surjection(words \X sent, offers)
  <2>1. \A w \in words, p \in sent : f[<<w, p>>] = Offer(w, p)
    OBVIOUS
  <2>2. f \in [words \X sent -> offers]
    OBVIOUS
  <2>3. ASSUME NEW o \in offers
        PROVE  \E x \in words \X sent : f[x] = o
    <3>1. PICK w \in words, p \in sent : o = Offer(w, p)
      OBVIOUS
    <3>2. <<w, p>> \in words \X sent
      OBVIOUS
    <3> QED
      BY <2>1, <3>1, <3>2
  <2> HIDE DEF f, offers, sent
  <2> QED
    BY <2>2, <2>3 DEF Surjection
<1>4. IsFiniteSet(sent)
  BY FS_Subset
<1>5. IsFiniteSet(words \X sent)
  BY <1>4, FS_Product
<1>6. IsFiniteSet(offers)
  <2> HIDE DEF f, offers, sent
  <2> QED
    BY <1>3, <1>5, FS_Surjection
<1> QED
  BY <1>1, <1>2, <1>6

(* The form shows the place of every search, with the work types of all    *)
(* searches in it. *)
LEMMA MatrixServes ==
  ASSUME NEW s \in Providers, NEW r, Canonical(s, r), NEW places \in Matrices(s, r)
  PROVE  /\ places \in SUBSET ShownPlaces /\ IsFiniteSet(places)
         /\ \A q \in r.queries :
              (s = "LINKEDIN" => q.types \subseteq WorkTypes) => \E p \in places : Serves(p, q)
<1> DEFINE show(q) == IF s = "LINKEDIN"
                        THEN [PlaceOf(q) EXCEPT !.types = MergedTypes(r, q.place)]
                        ELSE PlaceOf(q)
           shown == {show(q) : q \in r.queries}
           f == [q \in r.queries |-> show(q)]
<1>1. /\ r.queries \in SUBSET Queries /\ IsFiniteSet(r.queries)
  BY DEF Canonical, Rows
<1>2. /\ places \in SUBSET shown
      /\ \A p \in shown : \E o \in places : Key(o) = Key(p)
  BY DEF Matrices
<1>3. ASSUME NEW q \in r.queries
      PROVE  show(q) = [place |-> q.place,
                        types |-> IF s = "LINKEDIN" THEN MergedTypes(r, q.place) ELSE q.types,
                        remote |-> q.remote, hybrid |-> q.hybrid, radius |-> q.radius]
  <2>1. PlaceOf(q) = [place |-> q.place, types |-> q.types, remote |-> q.remote,
                      hybrid |-> q.hybrid, radius |-> q.radius]
    BY <1>1, ShownPlace
  <2> QED
    BY <2>1
<1>4. WorkTypes \in SUBSET Strings
  BY ProviderSettingsAssumption DEF WorkTypes
<1>5. ASSUME NEW q \in r.queries
      PROVE  show(q) \in ShownPlaces
  <2>1. MergedTypes(r, q.place) \in SUBSET Strings
    BY <1>4 DEF MergedTypes
  <2>2. /\ q.place \in Places \cup {Blank} /\ q.types \in SUBSET Strings
        /\ q.remote \in Flags /\ q.hybrid \in Flags /\ q.radius \in Strings
    BY <1>1 DEF Queries
  <2> HIDE DEF show
  <2> QED
    BY <1>3, <2>1, <2>2 DEF ShownPlaces
<1> HIDE DEF show
<1>6. IsFiniteSet(shown)
  <2>1. f \in Surjection(r.queries, shown)
    BY DEF Surjection
  <2> QED
    BY <1>1, <2>1, FS_Surjection
<1>7. places \in SUBSET ShownPlaces /\ IsFiniteSet(places)
  BY <1>2, <1>5, <1>6, FS_Subset
<1>8. ASSUME NEW q \in r.queries, s = "LINKEDIN" => q.types \subseteq WorkTypes
      PROVE  \E p \in places : Serves(p, q)
  <2>1. PICK p \in places : Key(p) = Key(show(q))
    BY <1>2
  <2>2. PICK o \in r.queries : p = show(o)
    BY <1>2
  <2>3. p.place = q.place /\ p.remote = q.remote /\ p.hybrid = q.hybrid
    BY <1>3, <2>1, <2>2 DEF Key
  <2>4. CASE s = "LINKEDIN"
    <3>1. p.types = MergedTypes(r, q.place)
      BY <1>3, <2>2, <2>3, <2>4
    <3>2. q.types \in {o2.types : o2 \in {o2 \in r.queries : o2.place = q.place}}
      OBVIOUS
    <3>3. p.types = WorkTypes \/ (q.types # {} /\ q.types \subseteq p.types)
      BY <1>8, <2>4, <3>1, <3>2 DEF MergedTypes
    <3> QED
      BY <2>3, <3>3 DEF Serves
  <2>5. CASE s # "LINKEDIN"
    <3>1. p.types = o.types
      BY <1>3, <2>2, <2>5
    <3>2. \A x \in r.queries : x.types = {"absent"}
      <4>1. \A x \in r.queries : StoredQuery(s, x).types = {"absent"} /\ StoredQuery(s, x) = x
        BY <1>1, <2>5, CanonicalSearch, StoredSearch
      <4> QED
        BY <4>1
    <3> QED
      BY <2>3, <3>1, <3>2 DEF Serves
  <2> QED
    BY <2>4, <2>5
<1> QED
  BY <1>7, <1>8

(* The form of a stored row shows all of it. *)
LEMMA ShownIsOK ==
  ASSUME source \in Providers, NEW r, Canonical(source, r), Shown(r)
  PROVE  FormOK(source, form')
<1>1. PICK places \in Matrices(source, r) :
        form' = [open |-> TRUE, of |-> r, base |-> Draft(source, r, places),
                 draft |-> Draft(source, r, places), touched |-> Untouched, edits |-> 0]
  BY Zenon DEF Shown
<1> DEFINE words == {q.word : q \in r.queries}
           sent == IF source = "LINKEDIN" THEN r.queries ELSE Product(words, places)
           draft == Draft(source, r, places)
           f == [q \in r.queries |-> q.word]
<1>2. /\ r \in Rows /\ r.queries \in SUBSET Queries /\ IsFiniteSet(r.queries)
      /\ r.feeds \in SUBSET Feeds
  BY DEF Canonical, Rows
<1>3. /\ places \in SUBSET ShownPlaces /\ IsFiniteSet(places)
      /\ \A q \in r.queries :
           (source = "LINKEDIN" => q.types \subseteq WorkTypes) => \E p \in places : Serves(p, q)
  BY MatrixServes
<1>4. words \in SUBSET (Words \cup {Blank})
  BY <1>2 DEF Queries
<1>5. IsFiniteSet(words)
  <2>1. f \in Surjection(r.queries, words)
    BY DEF Surjection
  <2> HIDE DEF f, words
  <2> QED
    BY <1>2, <2>1, FS_Surjection
<1>6. \A q \in r.queries : q.word \in words
  OBVIOUS
<1> HIDE DEF words
<1>7. sent \in SUBSET Queries /\ IsFiniteSet(sent)
  BY <1>2, <1>3, <1>4, <1>5, ProductIsFinite
<1>8. draft = [words |-> words, places |-> places, feeds |-> r.feeds, queries |-> sent]
  BY DEF Draft, words
<1>9. Sends(source, r, draft)
  BY <1>8 DEF Sends
<1> HIDE DEF sent, draft
<1>10. draft \in Drafts /\ Finite(draft)
  BY <1>2, <1>3, <1>4, <1>5, <1>7, <1>8 DEF Drafts, Finite
<1>11. Keeps(source, r, draft, Untouched)
  BY <1>3, <1>6, <1>8 DEF Keeps
<1>12. Untouched \in Touches
  BY DEF Untouched, Touches
<1>13. form' = [open |-> TRUE, of |-> r, base |-> draft, draft |-> draft,
                touched |-> Untouched, edits |-> 0]
  BY <1>1 DEF draft
<1>14. form' \in OpenForms
  BY <1>2, <1>10, <1>12, <1>13 DEF OpenForms
<1>15. /\ form'.of = r /\ form'.draft = draft /\ form'.touched = Untouched
  BY <1>13
<1> QED
  BY <1>9, <1>10, <1>11, <1>14, <1>15 DEF FormOK

(* What an open form is. *)
LEMMA OpenFormIs ==
  ASSUME NEW s, FormOK(s, form), form.open
  PROVE  /\ form \in OpenForms
         /\ Canonical(s, form.of)
         /\ Finite(form.draft)
         /\ Sends(s, form.of, form.draft)
         /\ Keeps(s, form.of, form.draft, form.touched)
BY DEF FormOK, Closed

(* An edit that keeps what it does not touch. *)
LEMMA EditIsOK ==
  ASSUME NEW draft \in Drafts, NEW touched \in Touches,
         FormOK(source, form), Edit(draft, touched), Finite(draft),
         Sends(source, form.of, draft), Keeps(source, form.of, draft, touched)
  PROVE  FormOK(source, form') /\ source' = source /\ row' = row
<1>1. form \in OpenForms /\ Canonical(source, form.of)
  BY OpenFormIs DEF Edit
<1>2. form' = [form EXCEPT !.draft = draft, !.touched = touched, !.edits = form.edits + 1]
  BY DEF Edit
<1>3. form' = [open |-> TRUE, of |-> form.of, base |-> form.base, draft |-> draft,
               touched |-> touched, edits |-> form.edits + 1]
  BY <1>1, <1>2 DEF OpenForms
<1>4. form' \in OpenForms
  BY <1>1, <1>3 DEF OpenForms
<1>5. form'.of = form.of /\ form'.draft = draft /\ form'.touched = touched
  BY <1>3
<1>6. source' = source /\ row' = row
  BY DEF Edit
<1> QED
  BY <1>1, <1>4, <1>5, <1>6 DEF FormOK

LEMMA EditMatrixIsOK ==
  ASSUME NEW words \in SUBSET (Words \cup {Blank}), NEW places \in SUBSET ShownPlaces,
         NEW touched \in Touches,
         FormOK(source, form), EditMatrix(words, places, touched),
         IsFiniteSet(words), IsFiniteSet(places),
         form.touched.words \subseteq touched.words,
         form.touched.places \subseteq touched.places,
         touched.feeds = form.touched.feeds,
         form.draft.words \ touched.words \subseteq words,
         \A p \in form.draft.places : p.place \in touched.places \/ p \in places
  PROVE  FormOK(source, form') /\ source' = source /\ row' = row
<1> DEFINE draft == [words |-> words, places |-> places, feeds |-> form.draft.feeds,
                     queries |-> Product(words, places)]
<1>1. /\ form \in OpenForms /\ Keeps(source, form.of, form.draft, form.touched)
      /\ form.draft \in Drafts
  BY OpenFormIs DEF EditMatrix, Edit, OpenForms
<1>2. Edit(draft, touched)
  BY DEF EditMatrix
<1>3. Product(words, places) \in SUBSET Queries /\ IsFiniteSet(Product(words, places))
  BY ProductIsFinite
<1>4. draft \in Drafts /\ Finite(draft)
  BY <1>1, <1>3 DEF Drafts, Finite
<1>5. Sends(source, form.of, draft)
  BY DEF Sends
<1>6. Keeps(source, form.of, draft, touched)
  <2>1. ASSUME NEW q \in form.of.queries, source = "LINKEDIN" => q.types \subseteq WorkTypes
        PROVE  /\ q.word \in touched.words \/ q.word \in words
               /\ q.place \in touched.places \/ \E p \in places : Serves(p, q)
    <3>1. /\ q.word \in form.touched.words \/ q.word \in form.draft.words
          /\ q.place \in form.touched.places \/ \E p \in form.draft.places : Serves(p, q)
      BY <1>1, <2>1 DEF Keeps
    <3>2. \A p \in form.draft.places : Serves(p, q) => p.place = q.place
      BY DEF Serves
    <3> QED
      BY <3>1, <3>2
  <2>2. form.of.feeds \ touched.feeds \subseteq draft.feeds
    BY <1>1 DEF Keeps
  <2> QED
    BY <2>1, <2>2 DEF Keeps
<1> HIDE DEF draft
<1> QED
  BY <1>2, <1>4, <1>5, <1>6, EditIsOK

(* The operator's edits, one by one. *)
LEMMA EditWordIsOK ==
  ASSUME FormOK(source, form), EditWord
  PROVE  FormOK(source, form') /\ source' = source /\ row' = row
<1>1. PICK w \in Words :
        EditMatrix(IF w \in form.draft.words THEN form.draft.words \ {w}
                   ELSE form.draft.words \cup {w},
                   form.draft.places, [form.touched EXCEPT !.words = @ \cup {w}])
  BY Zenon DEF EditWord
<1> DEFINE words == IF w \in form.draft.words THEN form.draft.words \ {w}
                    ELSE form.draft.words \cup {w}
           touched == [form.touched EXCEPT !.words = @ \cup {w}]
<1>2. form \in OpenForms /\ Finite(form.draft)
  BY OpenFormIs DEF EditWord
<1>3. form.draft \in Drafts /\ form.touched \in Touches
  BY <1>2 DEF OpenForms
<1>4. words \in SUBSET (Words \cup {Blank}) /\ form.draft.places \in SUBSET ShownPlaces
  BY <1>3 DEF Drafts
<1>5. IsFiniteSet(words) /\ IsFiniteSet(form.draft.places)
  BY <1>2, FS_AddElement, FS_RemoveElement DEF Finite
<1>6. touched = [words |-> form.touched.words \cup {w}, places |-> form.touched.places,
                 feeds |-> form.touched.feeds]
  BY <1>3 DEF Touches
<1>7. touched \in Touches
  BY <1>3, <1>6 DEF Touches
<1>8. /\ form.touched.words \subseteq touched.words
      /\ form.touched.places \subseteq touched.places
      /\ touched.feeds = form.touched.feeds
      /\ form.draft.words \ touched.words \subseteq words
  BY <1>6
<1>9. EditMatrix(words, form.draft.places, touched)
  BY <1>1
<1> HIDE DEF words, touched
<1> QED
  BY <1>4, <1>5, <1>7, <1>8, <1>9, EditMatrixIsOK

LEMMA RemovePlaceIsOK ==
  ASSUME FormOK(source, form), RemovePlace
  PROVE  FormOK(source, form') /\ source' = source /\ row' = row
<1>1. PICK p \in form.draft.places :
        EditMatrix(form.draft.words, form.draft.places \ {p},
                   [form.touched EXCEPT !.places = @ \cup {p.place}])
  BY Zenon DEF RemovePlace
<1> DEFINE places == form.draft.places \ {p}
           touched == [form.touched EXCEPT !.places = @ \cup {p.place}]
<1>2. form \in OpenForms /\ Finite(form.draft)
  BY OpenFormIs DEF RemovePlace
<1>3. form.draft \in Drafts /\ form.touched \in Touches
  BY <1>2 DEF OpenForms
<1>4. form.draft.words \in SUBSET (Words \cup {Blank}) /\ places \in SUBSET ShownPlaces
  BY <1>3 DEF Drafts
<1>5. IsFiniteSet(form.draft.words) /\ IsFiniteSet(places)
  BY <1>2, FS_RemoveElement DEF Finite
<1>6. touched = [words |-> form.touched.words, places |-> form.touched.places \cup {p.place},
                 feeds |-> form.touched.feeds]
  <2> DEFINE at == form.touched.places \cup {p.place}
  <2>1. touched = [form.touched EXCEPT !.places = at]
    OBVIOUS
  <2> HIDE DEF at, touched
  <2>2. touched = [words |-> form.touched.words, places |-> at, feeds |-> form.touched.feeds]
    BY <1>3, <2>1 DEF Touches
  <2> QED
    BY <2>2 DEF at
<1>7. p.place \in Places \cup {Blank}
  BY <1>3 DEF Drafts, ShownPlaces
<1>8. touched \in Touches
  BY <1>3, <1>6, <1>7 DEF Touches
<1>9. /\ form.touched.words \subseteq touched.words
      /\ form.touched.places \subseteq touched.places
      /\ touched.feeds = form.touched.feeds
      /\ \A o \in form.draft.places : o.place \in touched.places \/ o \in places
  BY <1>6
<1>10. EditMatrix(form.draft.words, places, touched)
  BY <1>1
<1> HIDE DEF places, touched
<1> QED
  BY <1>4, <1>5, <1>8, <1>9, <1>10, EditMatrixIsOK

LEMMA AddPlaceIsOK ==
  ASSUME source \in Providers, FormOK(source, form), AddPlace
  PROVE  FormOK(source, form') /\ source' = source /\ row' = row
<1>1. PICK p \in {PlaceOf(q) : q \in UNION {r.queries : r \in Requests[source]}} :
        EditMatrix(form.draft.words,
                   {o \in form.draft.places : source = "INDEED" => Key(o) # Key(p)} \cup {p},
                   [form.touched EXCEPT !.places = @ \cup {p.place}])
  BY Zenon DEF AddPlace
<1> DEFINE others == {o \in form.draft.places : source = "INDEED" => Key(o) # Key(p)}
           places == others \cup {p}
           touched == [form.touched EXCEPT !.places = @ \cup {p.place}]
<1>2. form \in OpenForms /\ Finite(form.draft)
  BY OpenFormIs DEF AddPlace
<1>3. form.draft \in Drafts /\ form.touched \in Touches
  BY <1>2 DEF OpenForms
<1>4. p \in ShownPlaces
  <2>1. PICK r \in Requests[source] : \E q \in r.queries : p = PlaceOf(q)
    OBVIOUS
  <2>2. PICK q \in r.queries : p = PlaceOf(q)
    BY <2>1
  <2>3. r \in Rows
    BY <2>1, ProviderSettingsAssumption
  <2>4. q \in Queries
    BY <2>2, <2>3 DEF Rows
  <2>5. p = [place |-> q.place, types |-> q.types, remote |-> q.remote,
             hybrid |-> q.hybrid, radius |-> q.radius]
    BY <2>2, <2>4, ShownPlace
  <2> QED
    BY <2>4, <2>5 DEF Queries, ShownPlaces
<1>5. form.draft.words \in SUBSET (Words \cup {Blank}) /\ places \in SUBSET ShownPlaces
  BY <1>3, <1>4 DEF Drafts
<1>6. IsFiniteSet(form.draft.words) /\ IsFiniteSet(places)
  <2>1. IsFiniteSet(others)
    BY <1>2, FS_Subset DEF Finite
  <2> HIDE DEF others
  <2> QED
    BY <1>2, <2>1, FS_AddElement DEF Finite
<1>7. touched = [words |-> form.touched.words, places |-> form.touched.places \cup {p.place},
                 feeds |-> form.touched.feeds]
  BY <1>3 DEF Touches
<1>8. touched \in Touches
  BY <1>3, <1>4, <1>7 DEF Touches, ShownPlaces
<1>9. /\ form.touched.words \subseteq touched.words
      /\ form.touched.places \subseteq touched.places
      /\ touched.feeds = form.touched.feeds
  BY <1>7
<1>10. \A o \in form.draft.places : o.place \in touched.places \/ o \in places
  BY <1>7 DEF Key
<1>11. EditMatrix(form.draft.words, places, touched)
  BY <1>1
<1> HIDE DEF places, touched
<1> QED
  BY <1>5, <1>6, <1>8, <1>9, <1>10, <1>11, EditMatrixIsOK

LEMMA EditFeedIsOK ==
  ASSUME source \in Providers, FormOK(source, form), EditFeed
  PROVE  FormOK(source, form') /\ source' = source /\ row' = row
<1>1. PICK f \in UNION {r.feeds : r \in Requests[source]} :
        Edit([form.draft EXCEPT !.feeds = IF f \in @ THEN @ \ {f} ELSE @ \cup {f}],
             [form.touched EXCEPT !.feeds = @ \cup {f}])
  BY Zenon DEF EditFeed
<1> DEFINE feeds == IF f \in form.draft.feeds THEN form.draft.feeds \ {f}
                    ELSE form.draft.feeds \cup {f}
           draft == [form.draft EXCEPT !.feeds = feeds]
           touched == [form.touched EXCEPT !.feeds = @ \cup {f}]
<1>2. /\ form \in OpenForms /\ Finite(form.draft)
      /\ Sends(source, form.of, form.draft)
      /\ Keeps(source, form.of, form.draft, form.touched)
  BY OpenFormIs DEF EditFeed
<1>3. form.draft \in Drafts /\ form.touched \in Touches
  BY <1>2 DEF OpenForms
<1>4. f \in Feeds
  <2>1. PICK r \in Requests[source] : f \in r.feeds
    OBVIOUS
  <2>2. r \in Rows
    BY <2>1, ProviderSettingsAssumption
  <2> QED
    BY <2>1, <2>2 DEF Rows
<1>5. feeds \in SUBSET Feeds
  BY <1>3, <1>4 DEF Drafts
<1>6. form.draft.feeds \ {f} \subseteq feeds
  OBVIOUS
<1>7. Edit(draft, touched)
  BY <1>1
<1> HIDE DEF feeds
<1>8. draft = [words |-> form.draft.words, places |-> form.draft.places, feeds |-> feeds,
               queries |-> form.draft.queries]
  BY <1>3 DEF Drafts
<1>9. touched = [words |-> form.touched.words, places |-> form.touched.places,
                 feeds |-> form.touched.feeds \cup {f}]
  BY <1>3 DEF Touches
<1> HIDE DEF draft, touched
<1>10. draft \in Drafts /\ Finite(draft)
  BY <1>2, <1>3, <1>5, <1>8 DEF Drafts, Finite
<1>11. touched \in Touches
  BY <1>3, <1>4, <1>9 DEF Touches
<1>12. Sends(source, form.of, draft)
  BY <1>2, <1>8 DEF Sends
<1>13. Keeps(source, form.of, draft, touched)
  BY <1>2, <1>6, <1>8, <1>9 DEF Keeps
<1> QED
  BY <1>7, <1>10, <1>11, <1>12, <1>13, EditIsOK

----------------------------------------------------------------------------
(* The save button.                                                        *)

(* What the form sends. *)
Sent == [form.of EXCEPT !.queries = form.draft.queries, !.feeds = form.draft.feeds]

LEMMA SentIsRow ==
  ASSUME FormOK(source, form), form.open
  PROVE  /\ Sent \in Rows
         /\ Sent.queries = form.draft.queries /\ Sent.feeds = form.draft.feeds
<1>1. form \in OpenForms /\ Finite(form.draft)
  BY OpenFormIs
<1>2. form.of \in Rows /\ form.draft \in Drafts
  BY <1>1 DEF OpenForms
<1>3. /\ form.draft.queries \in SUBSET Queries /\ IsFiniteSet(form.draft.queries)
      /\ form.draft.feeds \in SUBSET Feeds
  BY <1>1, <1>2 DEF Drafts, Finite
<1>4. form.of \in [queries : SUBSET Queries, global : SUBSET (Words \cup {Blank}),
                   timespan : Strings, pages : Int, days : Strings, feeds : SUBSET Feeds]
  BY <1>2 DEF Rows
<1>5. Sent = [queries |-> form.draft.queries, global |-> form.of.global,
              timespan |-> form.of.timespan, pages |-> form.of.pages,
              days |-> form.of.days, feeds |-> form.draft.feeds]
  <2> DEFINE of == form.of
             queries == form.draft.queries
             feeds == form.draft.feeds
  <2>1. /\ of \in [queries : SUBSET Queries, global : SUBSET (Words \cup {Blank}),
                   timespan : Strings, pages : Int, days : Strings, feeds : SUBSET Feeds]
        /\ Sent = [of EXCEPT !.queries = queries, !.feeds = feeds]
    BY <1>4 DEF Sent
  <2> HIDE DEF of, queries, feeds
  <2>2. Sent = [queries |-> queries, global |-> of.global, timespan |-> of.timespan,
                pages |-> of.pages, days |-> of.days, feeds |-> feeds]
    BY <2>1
  <2> QED
    BY <2>2 DEF of, queries, feeds
<1>6. Sent \in [queries : SUBSET Queries, global : SUBSET (Words \cup {Blank}),
                timespan : Strings, pages : Int, days : Strings, feeds : SUBSET Feeds]
  BY <1>3, <1>4, <1>5
<1> QED
  BY <1>3, <1>5, <1>6 DEF Rows

LEMMA SaveIs ==
  ASSUME SaveForm
  PROVE  /\ form.open /\ Accepted(source, Sent) /\ row' = Stored(source, Sent)
         /\ Shown(Stored(source, Sent)) /\ source' = source
BY Zenon DEF SaveForm, Sent

LEMMA SaveIsOK ==
  ASSUME source \in Providers, FormOK(source, form), SaveForm
  PROVE  Canonical(source, row') /\ FormOK(source, form') /\ source' = source
<1>1. Sent \in Rows
  BY SaveIs, SentIsRow
<1>2. Canonical(source, Stored(source, Sent))
  BY <1>1, SaveIs, StoredIsCanonical
<1> QED
  BY <1>2, SaveIs, ShownIsOK

(* A search of the row that the form shows, and that nobody has touched,   *)
(* is among those that a save stores, or one that covers it is.            *)
LEMMA SaveCovers ==
  ASSUME source \in Providers, FormOK(source, form), SaveForm,
         NEW q \in form.of.queries,
         source = "LINKEDIN" => q.types \subseteq WorkTypes,
         q.word \notin form.touched.words, q.place \notin form.touched.places
  PROVE  \E o \in row'.queries : Covers(o, q)
<1>1. /\ Canonical(source, form.of) /\ form \in OpenForms
      /\ Sends(source, form.of, form.draft)
      /\ Keeps(source, form.of, form.draft, form.touched)
  BY SaveIs, OpenFormIs
<1>2. /\ source # "FANTASTIC" /\ q \in Queries
      /\ StoredQuery(source, q) = q
  BY <1>1, CanonicalSearch
<1>3. form.draft.queries \in SUBSET Queries /\ form.draft.places \in SUBSET ShownPlaces
  BY <1>1 DEF OpenForms, Drafts
<1>4. row'.queries = {StoredQuery(source, o) : o \in form.draft.queries}
  <2>1. Sent \in Rows /\ Sent.queries = form.draft.queries
    BY SaveIs, SentIsRow
  <2>2. Stored(source, Sent).queries = {StoredQuery(source, o) : o \in Sent.queries}
    BY <1>2, <2>1, StoredRow
  <2> QED
    BY <2>1, <2>2, SaveIs
<1>5. /\ source # "LINKEDIN" => q.types = {"absent"}
      /\ source \notin {"DICE", "INDEED"} => q.remote = "absent"
      /\ source # "INDEED" => q.hybrid = "absent"
  BY <1>2, StoredSearch
<1>6. CASE source = "LINKEDIN" /\ form.draft.queries = form.of.queries
  <2>1. q \in row'.queries
    BY <1>2, <1>4, <1>6
  <2>2. Covers(q, q)
    BY DEF Covers
  <2> QED
    BY <2>1, <2>2
<1>7. CASE form.draft.queries = Product(form.draft.words, form.draft.places)
  <2>1. q.word \in form.draft.words /\ \E p \in form.draft.places : Serves(p, q)
    BY <1>1 DEF Keeps
  <2>2. PICK p \in form.draft.places : Serves(p, q)
    BY <2>1
  <2>3. p.types # {}
    BY <2>2 DEF Serves, WorkTypes
  <2> DEFINE o == Offer(q.word, p)
  <2>4. o \in form.draft.queries
    BY <1>3, <1>7, <2>1, <2>3, ProductOffers
  <2>5. o \in Queries
    BY <1>3, <2>4
  <2>6. StoredQuery(source, o) \in row'.queries
    BY <1>4, <2>4
  <2>7. /\ o.word = q.word /\ o.place = p.place /\ o.remote = p.remote
        /\ o.hybrid = p.hybrid
        /\ o.types = IF p.types = WorkTypes THEN {} ELSE p.types
    BY DEF Offer
  <2> HIDE DEF o
  <2>8. StoredQuery(source, o) =
          [word |-> o.word, place |-> o.place,
           types |-> IF source = "LINKEDIN"
                       THEN IF o.types = {"absent"} THEN {} ELSE o.types
                       ELSE {"absent"},
           remote |-> IF source \in {"DICE", "INDEED"} THEN o.remote ELSE "absent",
           hybrid |-> IF source = "INDEED" THEN o.hybrid ELSE "absent",
           radius |-> IF source = "INDEED" THEN o.radius ELSE "absent"]
    BY <2>5, StoredSearch
  <2>9. Covers(StoredQuery(source, o), q)
    <3>1. /\ StoredQuery(source, o).word = q.word /\ StoredQuery(source, o).place = q.place
          /\ StoredQuery(source, o).remote = q.remote
          /\ StoredQuery(source, o).hybrid = q.hybrid
      BY <1>5, <2>2, <2>7, <2>8 DEF Serves
    <3>2. \/ StoredQuery(source, o).types = {}
          \/ q.types # {} /\ q.types \subseteq StoredQuery(source, o).types
      BY <1>5, <2>2, <2>7, <2>8 DEF Serves
    <3> QED
      BY <3>1, <3>2 DEF Covers
  <2> QED
    BY <2>6, <2>9
<1> QED
  BY <1>1, <1>6, <1>7 DEF Sends

LEMMA SaveKeepsFeeds ==
  ASSUME source \in Providers, FormOK(source, form), SaveForm
  PROVE  form.of.feeds \ form.touched.feeds \subseteq row'.feeds
<1>1. /\ Canonical(source, form.of)
      /\ Keeps(source, form.of, form.draft, form.touched)
  BY SaveIs, OpenFormIs
<1>2. Sent \in Rows /\ Sent.feeds = form.draft.feeds
  BY SaveIs, SentIsRow
<1>3. row'.feeds = IF source = "FANTASTIC" THEN form.draft.feeds ELSE {}
  <2>1. Stored(source, Sent) =
           [queries |-> IF source = "FANTASTIC" THEN {}
                        ELSE {StoredQuery(source, q) : q \in Sent.queries},
            global |-> IF source = "LINKEDIN" THEN Sent.global ELSE {},
            timespan |-> Sent.timespan, pages |-> Sent.pages,
            days |-> IF source = "INDEED" THEN Sent.days ELSE Blank,
            feeds |-> IF source = "FANTASTIC" THEN Sent.feeds ELSE {}]
    BY <1>2, StoredRow, Zenon
  <2>2. Stored(source, Sent).feeds = IF source = "FANTASTIC" THEN Sent.feeds ELSE {}
    BY <2>1
  <2> QED
    BY <1>2, <2>2, SaveIs
<1>4. source # "FANTASTIC" => form.of.feeds = {}
  BY <1>1, CanonicalRow
<1> QED
  BY <1>1, <1>3, <1>4 DEF Keeps

----------------------------------------------------------------------------
(* The invariant and what follows from it.                                 *)

LEMMA InitIInv == Init => IInv
BY SeedAssumption DEF Init, IInv, Canonical, FormOK

LEMMA StepIInv == IInv /\ [Next]_vars => IInv'
<1> SUFFICES ASSUME IInv, [Next]_vars PROVE IInv'
  OBVIOUS
<1>1. source \in Providers /\ Canonical(source, row) /\ FormOK(source, form)
  BY DEF IInv
<1>2. \A r \in Requests[source] : r \in Rows
  BY <1>1, ProviderSettingsAssumption
<1>3. Canonical(source, Seed[source])
  BY <1>1, SeedAssumption DEF Canonical
<1>4. source' = source /\ Canonical(source, row') /\ FormOK(source, form')
  <2>1. CASE ReplaceScraperSettings
    BY <1>1, <1>2, <2>1, StoredIsCanonical DEF ReplaceScraperSettings
  <2>2. CASE ImportSettings
    <3>1. PICK r \in Requests[source] :
            \E crc, secret \in BOOLEAN :
              /\ Importable(source, [crc |-> crc, secret |-> secret, settings |-> r])
              /\ row' = Stored(source, r)
      BY <2>2 DEF ImportSettings
    <3>2. Accepted(source, r) /\ row' = Stored(source, r)
      BY <3>1 DEF Importable
    <3> QED
      BY <1>1, <1>2, <2>2, <3>2, StoredIsCanonical DEF ImportSettings
  <2>3. CASE ResetScraperSettings
    BY <1>1, <1>3, <2>3, ShownIsOK DEF ResetScraperSettings
  <2>4. CASE OpenForm
    BY <1>1, <2>4, ShownIsOK DEF OpenForm
  <2>5. CASE CloseForm
    BY <1>1, <2>5 DEF CloseForm, FormOK
  <2>6. CASE SaveForm
    BY <1>1, <2>6, SaveIsOK
  <2>7. CASE EditWord
    BY <1>1, <2>7, EditWordIsOK
  <2>8. CASE RemovePlace
    BY <1>1, <2>8, RemovePlaceIsOK
  <2>9. CASE AddPlace
    BY <1>1, <2>9, AddPlaceIsOK
  <2>10. CASE EditFeed
    BY <1>1, <2>10, EditFeedIsOK
  <2>11. CASE UNCHANGED vars
    BY <1>1, <2>11 DEF vars
  <2> QED
    BY <2>1, <2>2, <2>3, <2>4, <2>5, <2>6, <2>7, <2>8, <2>9, <2>10, <2>11 DEF Next
<1> QED
  BY <1>1, <1>4 DEF IInv

LEMMA Invariance == Spec => []IInv
BY InitIInv, StepIInv, PTL DEF Spec

(* Whatever clients, imports, resets and the form write, in whatever       *)
(* order, the stored searches run as they are, and for a bounded price.    *)
THEOREM StoredRuns == Spec => []StoredIsRunnable
<1>1. IInv => StoredIsRunnable
  BY CanonicalIsRunnable DEF IInv
<1> QED
  BY <1>1, Invariance, PTL

(* What is stored can be exported and imported again at any time, and      *)
(* comes back as the same row.                                             *)
THEOREM SharesComeBack == Spec => []ShareRoundTrip
<1>1. IInv => ShareRoundTrip
  BY CanonicalIsShareable DEF IInv
<1> QED
  BY <1>1, Invariance, PTL

(* A save of the form that shows the stored row loses nothing that the     *)
(* operator has not touched.                                               *)
THEOREM SavesKeep == Spec => SaveKeepsSearches
<1>1. IInv /\ [Next]_vars =>
        [SaveForm /\ form.of = row =>
           /\ \A q \in row.queries :
                (source = "LINKEDIN" => q.types \subseteq WorkTypes) =>
                q.word \in form.touched.words \/ q.place \in form.touched.places
                  \/ \E o \in row'.queries : Covers(o, q)
           /\ row.feeds \ form.touched.feeds \subseteq row'.feeds]_vars
  <2> SUFFICES ASSUME IInv, SaveForm, form.of = row
               PROVE  /\ \A q \in row.queries :
                           (source = "LINKEDIN" => q.types \subseteq WorkTypes) =>
                           q.word \in form.touched.words \/ q.place \in form.touched.places
                             \/ \E o \in row'.queries : Covers(o, q)
                      /\ row.feeds \ form.touched.feeds \subseteq row'.feeds
    OBVIOUS
  <2>1. source \in Providers /\ FormOK(source, form)
    BY DEF IInv
  <2>2. ASSUME NEW q \in row.queries,
               source = "LINKEDIN" => q.types \subseteq WorkTypes,
               q.word \notin form.touched.words, q.place \notin form.touched.places
        PROVE  \E o \in row'.queries : Covers(o, q)
    BY <2>1, <2>2, SaveCovers
  <2>3. row.feeds \ form.touched.feeds \subseteq row'.feeds
    BY <2>1, SaveKeepsFeeds
  <2> QED
    BY <2>2, <2>3
<1> QED
  BY <1>1, Invariance, PTL DEF Spec, SaveKeepsSearches
=============================================================================
