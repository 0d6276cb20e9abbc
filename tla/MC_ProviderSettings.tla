------------------------ MODULE MC_ProviderSettings ------------------------
(***************************************************************************)
(* Bounds for ProviderSettings: two keywords and two locations, and limits *)
(* that two of each with one variant go beyond.                            *)
(***************************************************************************)
EXTENDS ProviderSettings

CONSTANTS w1, w2, p1, p2

MCWords == {w1, w2}
MCPlaces == {p1, p2}
MCStrings ==
  WorkTypes \cup DiceSpans \cup Days \cup Radii \cup {"9", "absent", Blank}

Search(w, p, types, remote, hybrid, radius) ==
  [word |-> w, place |-> p, types |-> types, remote |-> remote, hybrid |-> hybrid,
   radius |-> radius]

(* Searches that are no product, that differ in one field, that product    *)
(* beyond the limit, that lack a field or have a foreign one or one with   *)
(* an unknown value, and a malformed one.                                  *)
MCSearches ==
  [s \in Providers |->
    CASE s = "LINKEDIN" ->
           {{Search(w1, p1, {"2"}, "absent", "absent", "absent"),
             Search(w1, p1, {"3"}, "absent", "absent", "absent"),
             Search(w2, p2, Absent.types, "absent", "absent", "absent")},
            {Search(w2, p2, {}, "true", "absent", "absent")},
            {Search(w1, p1, {"9", "3"}, "absent", "absent", "absent"),
             Search(w2, p2, {"9"}, "absent", "absent", "absent")}, {}}
      [] s = "DICE" ->
           {{Search(w1, p1, Absent.types, "true", "absent", "absent"),
             Search(w1, p1, Absent.types, "false", "absent", "absent"),
             Search(w2, p2, Absent.types, "true", "absent", "absent")},
            {Search(w1, p1, Absent.types, "true", "absent", "absent"),
             Search(w2, p2, Absent.types, "true", "absent", "15")},
            {Search(w1, Blank, Absent.types, "true", "absent", "absent")}}
      [] s = "INDEED" ->
           {{Search(w1, p1, Absent.types, "true", "true", "15"),
             Search(w2, p1, Absent.types, "true", "true", "5")},
            {Search(w1, p1, Absent.types, "true", "true", "15"),
             Search(w1, p1, Absent.types, "true", "false", "15"),
             Search(w2, p2, Absent.types, "true", "false", "15")},
            {Search(w1, p1, Absent.types, "true", "false", "7")}}
      [] s = "FANTASTIC" -> {{}}]

MCFeeds ==
  {[titles |-> {w1}, places |-> {p1}], [titles |-> {w2}, places |-> {p1, p2}],
   [titles |-> {}, places |-> {p1}]}

Requested(s, queries, feeds) ==
  [queries |-> queries, feeds |-> feeds, global |-> {}, pages |-> 1,
   timespan |-> CASE s \in {"LINKEDIN", "INDEED"} -> "1" [] s = "DICE" -> "24h"
                  [] s = "FANTASTIC" -> "all",
   days |-> IF s = "INDEED" THEN "1" ELSE Blank]

MCSeed ==
  [s \in Providers |->
    Requested(s,
      CASE s = "LINKEDIN" ->
             {Search(w, p, IF p = p1 THEN {} ELSE {"2", "3"}, "absent", "absent", "absent") :
                w \in MCWords, p \in MCPlaces}
        [] s = "DICE" -> {Search(w1, p1, Absent.types, "true", "absent", "absent")}
        [] s = "INDEED" -> {Search(w1, p1, Absent.types, "false", "false", "15")}
        [] s = "FANTASTIC" -> {},
      IF s = "FANTASTIC" THEN {[titles |-> {w1, w2}, places |-> {p1}]} ELSE {})]

(* Requests with other searches, and with one other setting: LinkedIn      *)
(* takes any timespan but a blank one, and any number of pages.            *)
MCRequests ==
  [s \in Providers |->
     {Requested(s, queries, feeds) :
        queries \in MCSearches[s], feeds \in IF s = "FANTASTIC" THEN SUBSET MCFeeds ELSE {{}}}
     \cup {[MCSeed[s] EXCEPT !.global = {g}] : g \in {w1, Blank}}
     \cup IF s = "LINKEDIN" THEN {[MCSeed[s] EXCEPT !.timespan = Blank]}
          ELSE {[MCSeed[s] EXCEPT !.pages = MaxPages + 1]}
               \cup {[MCSeed[s] EXCEPT !.timespan = "2", !.days = d] : d \in {Blank, "1", "2"}}]
============================================================================
