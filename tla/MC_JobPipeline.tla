--------------------------- MODULE MC_JobPipeline ---------------------------
(***************************************************************************)
(* Two postings of one title and company: a LinkedIn search card, whose    *)
(* text must be fetched, and a Dice row that arrives with its text.  The   *)
(* lists decide between ready, description and remote_lie.                 *)
(***************************************************************************)
EXTENDS JobPipeline, TLC

MCSources == {"LINKEDIN", "DICE"}

Card(source, title, text, detail) ==
  [source |-> source, title |-> {title}, company |-> {"acme"},
   location |-> {}, text |-> text, detail |-> detail]

TwinPostings ==
  (1 :> Card("LINKEDIN", "helpdesk", {}, {"hybrid"})) @@
  (2 :> Card("DICE", "helpdesk", {"hybrid"}, {}))

(* A Dice row without text, for which no enricher exists. *)
MixedPostings ==
  (1 :> Card("LINKEDIN", "helpdesk", {}, {"hybrid"})) @@
  (2 :> Card("DICE", "desktop", {}, {}))

NoLists ==
  [titleInclude |-> {}, titleExclude |-> {}, companyExclude |-> {},
   descInclude |-> {}, descExclude |-> {},
   onsiteKeywords |-> {}, remoteKeywords |-> {}, hybridKeywords |-> {}]

MCLists == {
  [NoLists EXCEPT !.hybridKeywords = {"hybrid"}],
  [NoLists EXCEPT !.descExclude = {"hybrid"}, !.titleExclude = {"desktop"}] }

OneList == {[NoLists EXCEPT !.hybridKeywords = {"hybrid"}]}
============================================================================
