---------------------------- MODULE JobLifecycle ----------------------------
(***************************************************************************)
(* What the pipeline promises about one posting, whoever runs when: a row  *)
(* is decided by the filter while it is pending, by the detail fetch while *)
(* it needs detail, and by the operator after that; three failed fetches   *)
(* reject it; only re-evaluation forgives failed fetches.                  *)
(***************************************************************************)
EXTENDS Naturals

CONSTANT Urls

VARIABLES state, attempts

lifeVars == <<state, attempts>>

MaxFailures == 3

LifeInit ==
  /\ state = [u \in Urls |-> "absent"]
  /\ attempts = [u \in Urls |-> 0]

Move(u, to) == state' = [state EXCEPT ![u] = to]

Appear(u) ==
  /\ state[u] = "absent"
  /\ Move(u, "pending")
  /\ UNCHANGED attempts

FilterDecides(u) ==
  /\ state[u] = "pending"
  /\ \E to \in {"rejected", "needs_detail", "ready"} : Move(u, to)
  /\ UNCHANGED attempts

FetchDecides(u) ==
  /\ state[u] = "needs_detail"
  /\ \E to \in {"rejected", "ready"} : Move(u, to)
  /\ UNCHANGED attempts

FetchFails(u) ==
  /\ state[u] = "needs_detail"
  /\ attempts' = [attempts EXCEPT ![u] = @ + 1]
  /\ Move(u, IF attempts[u] + 1 >= MaxFailures THEN "rejected" ELSE "needs_detail")

HumanDecides(u) ==
  /\ state[u] = "ready"
  /\ \E to \in {"applied", "dismissed"} : Move(u, to)
  /\ UNCHANGED attempts

HumanReturns(u) ==
  /\ state[u] \in {"applied", "dismissed", "rejected"}
  /\ Move(u, "ready")
  /\ UNCHANGED attempts

HumanForgives ==
  /\ state' = [u \in Urls |->
                IF state[u] = "rejected" THEN "pending" ELSE state[u]]
  /\ attempts' = [u \in Urls |->
                   IF state[u] = "rejected" THEN 0 ELSE attempts[u]]

LifeNext ==
  \/ \E u \in Urls :
       \/ Appear(u) \/ FilterDecides(u) \/ FetchDecides(u) \/ FetchFails(u)
       \/ HumanDecides(u) \/ HumanReturns(u)
  \/ HumanForgives

LifeSpec == LifeInit /\ [][LifeNext]_lifeVars
============================================================================
