---------------------------- MODULE Scrapes_proof ----------------------------
(***************************************************************************)
(* For any sources, workflows and callers: the advisory locks and the      *)
(* bookkeeping of activities in Scrapes are exact.                         *)
(***************************************************************************)
EXTENDS Scrapes, TLAPS

FlowRecord == [pc : {"idle", "list", "scrape"}, asked : {"due", "force"},
               only : SUBSET Sources, queued : SUBSET Sources,
               waiting : SUBSET Sources]

(* Taking sources out of the fields of a workflow keeps its type. *)
LEMMA CutQueued ==
  ASSUME NEW g \in FlowRecord, NEW S
  PROVE  [g EXCEPT !.queued = @ \ S] \in FlowRecord
  BY DEF FlowRecord

LEMMA CutWaiting ==
  ASSUME NEW g \in FlowRecord, NEW S
  PROVE  [g EXCEPT !.waiting = @ \ S] \in FlowRecord
  BY DEF FlowRecord

LEMMA FlowUpdate ==
  ASSUME NEW g \in [Flows -> FlowRecord], NEW w \in Flows, NEW r \in FlowRecord
  PROVE  [g EXCEPT ![w] = r] \in [Flows -> FlowRecord]
  OBVIOUS

(* What a busy runner scrapes, and for whom: only the queue of a source's  *)
(* family works for a workflow.                                            *)
RunnersAreBusy ==
  \A x \in Runners :
    /\ run[x].pc # "idle" => run[x].source \in Sources
    /\ run[x].owner # Nobody =>
         /\ x = Family(run[x].source)
         /\ run[x].source \in Sources

(* A detail fetch that holds the lock of a source has a row to fetch. *)
DetailIsNeeded == \A s \in LinkedIn : lock[s] = Detail => details[s] > 0

IInv ==
  /\ TypeOK /\ RunnersAreBusy /\ DetailIsNeeded
  /\ LockIsTheScrape /\ ActivitiesAreOwned

LEMMA InitInv == Init => IInv
  BY ScrapesAssumption
  DEF Init, IInv, TypeOK, RunnersAreBusy, DetailIsNeeded, LockIsTheScrape,
      Fetches, ActivitiesAreOwned, IdleFlow, IdleRunner, Free, Detail, Sources

(* The names that are not runners or workflows. *)
LEMMA Names ==
  /\ Free \notin Runners /\ Detail \notin Runners
  /\ Nobody \notin Runners /\ Nobody \notin Flows
  /\ Free # Detail
  /\ \A s \in Sources : Family(s) \in Runners
  BY ScrapesAssumption DEF Free, Detail, Runners, Flows, Family, Families

(* A step that leaves the runners, the locks and the workflows alone, and  *)
(* no row less to fetch.                                                   *)
LEMMA WorldInv ==
  ASSUME IInv, UNCHANGED <<lock, flow, run>>, TypeOK',
         \A s \in LinkedIn : details'[s] >= details[s]
  PROVE  IInv'
<1>1. DetailIsNeeded'
  <2>1. \A s \in LinkedIn : details[s] \in Nat /\ details'[s] \in Nat
    BY ScrapesAssumption DEF IInv, TypeOK
  <2> QED BY <2>1 DEF IInv, DetailIsNeeded
<1>2. RunnersAreBusy' /\ LockIsTheScrape' /\ ActivitiesAreOwned'
  BY DEF IInv, RunnersAreBusy, LockIsTheScrape, Fetches, ActivitiesAreOwned
<1> QED BY <1>1, <1>2 DEF IInv

(* A scrape may only add rows. *)
LEMMA SavesMore ==
  ASSUME TypeOK, NEW s, Saves(s) \/ details' = details
  PROVE  /\ details' \in [LinkedIn -> 0 .. MaxDetails]
         /\ \A t \in LinkedIn : details'[t] >= details[t]
<1>1. details \in [LinkedIn -> 0 .. MaxDetails] /\ MaxDetails \in Nat
  BY ScrapesAssumption DEF TypeOK
<1> QED BY <1>1 DEF Saves

(* A step of a workflow that has no activity outstanding. *)
LEMMA FlowInv ==
  ASSUME IInv, NEW w \in Flows,
         NEW f \in [pc : {"idle", "list", "scrape"}, asked : {"due", "force"},
                    only : SUBSET Sources, queued : SUBSET Sources,
                    waiting : SUBSET Sources],
         flow[w].waiting = {}, f.queued \subseteq f.waiting,
         f.waiting # {} => f.pc = "scrape",
         flow' = [flow EXCEPT ![w] = f],
         UNCHANGED <<enabled, last, next, details, lock, run>>
  PROVE  IInv'
<1>1. flow'[w] = f /\ \A v \in Flows : v # w => flow'[v] = flow[v]
  BY DEF IInv, TypeOK
<1>2. TypeOK'
  BY DEF IInv, TypeOK
<1>3. RunnersAreBusy' /\ DetailIsNeeded' /\ LockIsTheScrape'
  BY DEF IInv, RunnersAreBusy, DetailIsNeeded, LockIsTheScrape, Fetches
<1>4. \A x \in Runners : run[x].owner # w
  BY Names DEF IInv, ActivitiesAreOwned
<1>5. ActivitiesAreOwned'
  <2>1. \A x \in Runners : run[x].owner # Nobody => run[x].owner \in Flows
    BY DEF IInv, TypeOK
  <2> QED BY <1>1, <1>4, <2>1 DEF IInv, ActivitiesAreOwned
<1> QED BY <1>2, <1>3, <1>5 DEF IInv

LEMMA ExpireInv ==
  ASSUME IInv, NEW w \in Flows, NEW s \in Sources, Expire(w, s) PROVE IInv'
<1> DEFINE running == {x \in Runners : run[x].owner = w /\ run[x].source = s}
<1>1. /\ s \in flow[w].waiting \ flow[w].queued
      /\ flow' = [flow EXCEPT ![w].waiting = @ \ {s}]
      /\ run' = [x \in Runners |->
                  IF x \in running THEN [run[x] EXCEPT !.owner = Nobody] ELSE run[x]]
      /\ UNCHANGED <<enabled, last, next, details, lock>>
  BY DEF Expire
<1>2. \A x \in Runners :
        /\ run'[x].pc = run[x].pc /\ run'[x].source = run[x].source
        /\ run'[x].owner = IF x \in running THEN Nobody ELSE run[x].owner
  BY <1>1 DEF IInv, TypeOK
<1>3. TypeOK'
  <2>1. run' \in [Runners -> [pc : {"idle", "begin", "fetch"},
                              source : Sources \cup {Nobody},
                              owner : Flows \cup {Nobody}]]
    BY <1>1 DEF IInv, TypeOK
  <2>2. flow' \in [Flows -> FlowRecord]
    <3>1. flow \in [Flows -> FlowRecord] /\ flow[w] \in FlowRecord
      BY DEF IInv, TypeOK, FlowRecord
    <3>2. flow' = [flow EXCEPT ![w] = [flow[w] EXCEPT !.waiting = @ \ {s}]]
      BY <1>1
    <3> QED BY <3>1, <3>2, CutWaiting, FlowUpdate
  <2> QED BY <1>1, <2>1, <2>2 DEF IInv, TypeOK, FlowRecord
<1>4. RunnersAreBusy' /\ DetailIsNeeded' /\ LockIsTheScrape'
  BY <1>1, <1>2 DEF IInv, RunnersAreBusy, DetailIsNeeded, LockIsTheScrape, Fetches
<1>5. \A v \in Flows :
        /\ flow'[v].queued = flow[v].queued /\ flow'[v].pc = flow[v].pc
        /\ flow'[v].waiting = IF v = w THEN flow[v].waiting \ {s} ELSE flow[v].waiting
  <2>1. flow \in [Flows -> FlowRecord]
    BY DEF IInv, TypeOK, FlowRecord
  <2>2. \A v \in Flows :
          flow'[v] = IF v = w THEN [flow[v] EXCEPT !.waiting = @ \ {s}] ELSE flow[v]
    BY <1>1, <2>1
  <2> QED BY <2>1, <2>2 DEF FlowRecord
<1>6. ActivitiesAreOwned'
  <2>1. \A x \in Runners : run[x].owner # Nobody => run[x].owner \in Flows
    BY DEF IInv, TypeOK
  <2>2. \A x \in Runners : run[x].owner = w /\ x \notin running => run[x].source # s
    OBVIOUS
  <2> QED BY <1>1, <1>2, <1>5, <2>1, <2>2 DEF IInv, ActivitiesAreOwned
<1> QED BY <1>3, <1>4, <1>6 DEF IInv

LEMMA PickInv ==
  ASSUME IInv, NEW f \in Families, NEW w \in Flows, NEW s \in Sources, Pick(f, w, s)
  PROVE  IInv'
<1> DEFINE new == [pc |-> "begin", source |-> s, owner |-> w]
<1>1. /\ f = Family(s) /\ f \in Runners /\ run[f].pc = "idle"
      /\ s \in flow[w].queued
      /\ flow' = [flow EXCEPT ![w].queued = @ \ {s}]
      /\ run' = [run EXCEPT ![f] = new]
      /\ UNCHANGED <<enabled, last, next, details, lock>>
  BY Names DEF Pick
<1>2. run'[f] = new /\ \A x \in Runners : x # f => run'[x] = run[x]
  BY <1>1 DEF IInv, TypeOK
<1>3. TypeOK'
  <2>1. flow' \in [Flows -> FlowRecord]
    <3>1. flow \in [Flows -> FlowRecord] /\ flow[w] \in FlowRecord
      BY DEF IInv, TypeOK, FlowRecord
    <3>2. flow' = [flow EXCEPT ![w] = [flow[w] EXCEPT !.queued = @ \ {s}]]
      BY <1>1
    <3> QED BY <3>1, <3>2, CutQueued, FlowUpdate
  <2>2. run' \in [Runners -> [pc : {"idle", "begin", "fetch"},
                              source : Sources \cup {Nobody},
                              owner : Flows \cup {Nobody}]]
    BY <1>1 DEF IInv, TypeOK
  <2> QED BY <1>1, <2>1, <2>2 DEF IInv, TypeOK, FlowRecord
<1>4. RunnersAreBusy' /\ DetailIsNeeded'
  BY <1>1, <1>2 DEF IInv, RunnersAreBusy, DetailIsNeeded
<1>5. LockIsTheScrape'
  <2>1. \A x \in Runners, t \in Sources : Fetches(x, t)' <=> Fetches(x, t)
    BY <1>1, <1>2 DEF Fetches
  <2> QED BY <1>1, <2>1 DEF IInv, LockIsTheScrape
<1>6. \A v \in Flows :
        /\ flow'[v].waiting = flow[v].waiting /\ flow'[v].pc = flow[v].pc
        /\ flow'[v].queued = IF v = w THEN flow[v].queued \ {s} ELSE flow[v].queued
  <2>1. flow \in [Flows -> FlowRecord]
    BY DEF IInv, TypeOK, FlowRecord
  <2>2. \A v \in Flows :
          flow'[v] = IF v = w THEN [flow[v] EXCEPT !.queued = @ \ {s}] ELSE flow[v]
    BY <1>1, <2>1
  <2> QED BY <2>1, <2>2 DEF FlowRecord
<1>7. ActivitiesAreOwned'
  <2>1. \A x \in Runners : run[x].owner # Nobody => run[x].owner \in Flows
    BY DEF IInv, TypeOK
  <2>2. ActivitiesAreOwned /\ s \in flow[w].waiting
    BY <1>1 DEF IInv, ActivitiesAreOwned
  <2>3. ASSUME NEW x \in Runners, run'[x].owner # Nobody
        PROVE  run'[x].source \in flow'[run'[x].owner].waiting
                                   \ flow'[run'[x].owner].queued
    <3>1. CASE x = f
      <4>1. run'[x].source = s /\ run'[x].owner = w
        BY <1>2, <3>1
      <4>2. s \in flow'[w].waiting /\ s \notin flow'[w].queued
        BY <1>6, <2>2
      <4> QED BY <4>1, <4>2
    <3>2. CASE x # f
      <4>1. run'[x] = run[x] /\ run[x].owner \in Flows
        BY <1>2, <2>1, <2>3, <3>2
      <4>2. run[x].source \in flow[run[x].owner].waiting \ flow[run[x].owner].queued
        BY <2>2, <2>3, <4>1 DEF ActivitiesAreOwned
      <4>3. /\ flow'[run[x].owner].waiting = flow[run[x].owner].waiting
            /\ flow'[run[x].owner].queued \subseteq flow[run[x].owner].queued
        BY <1>6, <4>1
      <4> QED BY <4>1, <4>2, <4>3
    <3> QED BY <3>1, <3>2
  <2>4. \A v \in Flows :
          /\ flow'[v].queued \subseteq flow'[v].waiting
          /\ flow'[v].waiting # {} => flow'[v].pc = "scrape"
    BY <1>6, <2>2 DEF ActivitiesAreOwned
  <2> QED BY <2>3, <2>4 DEF ActivitiesAreOwned
<1> QED BY <1>3, <1>4, <1>5, <1>7 DEF IInv

LEMMA CallInv ==
  ASSUME IInv, NEW c \in Callers, NEW s \in Sources, Call(c, s) PROVE IInv'
<1> DEFINE new == [pc |-> "begin", source |-> s, owner |-> Nobody]
<1>1. /\ c \in Runners /\ run[c].pc = "idle"
      /\ run' = [run EXCEPT ![c] = new]
      /\ UNCHANGED <<enabled, last, next, details, lock, flow>>
  BY DEF Call, Runners
<1>2. run'[c] = new /\ \A x \in Runners : x # c => run'[x] = run[x]
  BY <1>1 DEF IInv, TypeOK
<1>3. TypeOK'
  BY <1>1 DEF IInv, TypeOK
<1>4. RunnersAreBusy' /\ DetailIsNeeded' /\ LockIsTheScrape'
  BY <1>1, <1>2 DEF IInv, RunnersAreBusy, DetailIsNeeded, LockIsTheScrape, Fetches
<1>5. ActivitiesAreOwned'
  BY <1>1, <1>2 DEF IInv, ActivitiesAreOwned
<1> QED BY <1>3, <1>4, <1>5 DEF IInv

LEMMA LockInv ==
  ASSUME IInv, NEW x \in Runners, Lock(x) PROVE IInv'
<1> DEFINE s == run[x].source
<1>1. /\ run[x].pc = "begin" /\ lock[s] = Free
      /\ lock' = [lock EXCEPT ![s] = x]
      /\ run' = [run EXCEPT ![x].pc = "fetch"]
      /\ UNCHANGED <<enabled, last, next, details, flow>>
      /\ s \in Sources
  BY DEF Lock, IInv, RunnersAreBusy
<1>2. \A y \in Runners :
        /\ run'[y].source = run[y].source /\ run'[y].owner = run[y].owner
        /\ run'[y].pc = IF y = x THEN "fetch" ELSE run[y].pc
  BY <1>1 DEF IInv, TypeOK
<1>3. TypeOK'
  BY <1>1 DEF IInv, TypeOK
<1>4. RunnersAreBusy' /\ DetailIsNeeded'
  BY <1>1, <1>2, Names DEF IInv, RunnersAreBusy, DetailIsNeeded, TypeOK
<1>5. LockIsTheScrape'
  <2>1. \A t \in Sources : lock'[t] = IF t = s THEN x ELSE lock[t]
    BY <1>1 DEF IInv, TypeOK
  <2> QED BY <1>1, <1>2, <2>1, Names DEF IInv, LockIsTheScrape, Fetches
<1>6. ActivitiesAreOwned'
  BY <1>1, <1>2 DEF IInv, ActivitiesAreOwned
<1> QED BY <1>3, <1>4, <1>5, <1>6 DEF IInv

(* A scrape ends: its runner is free again, its lock is given back, and    *)
(* its workflow, if it has one and is still listening, hears of it.        *)
LEMMA EndInv ==
  ASSUME IInv, NEW x \in Runners,
         run' = [run EXCEPT ![x] = IdleRunner],
         \/ Unlock(x)
         \/ run[x].pc = "begin" /\ lock' = lock,
         \/ flow' = flow
         \/ flow' = [w \in Flows |->
              IF w = run[x].owner
              THEN [flow[w] EXCEPT !.waiting = @ \ {run[x].source}] ELSE flow[w]],
         enabled' = enabled,
         last' \in [Sources -> {"none", "recent", "old"}],
         next' \in [Sources -> {"none", "future"}],
         details' \in [LinkedIn -> 0 .. MaxDetails],
         \A t \in LinkedIn : details'[t] >= details[t]
  PROVE  IInv'
<1>1. run'[x] = IdleRunner /\ \A y \in Runners : y # x => run'[y] = run[y]
  BY DEF IInv, TypeOK
<1>2. \A s \in Sources : lock'[s] = IF lock[s] = x THEN Free ELSE lock[s]
  <2>1. CASE Unlock(x)
    BY <2>1 DEF Unlock
  <2>2. CASE run[x].pc = "begin" /\ lock' = lock
    BY <2>2 DEF IInv, LockIsTheScrape, Fetches
  <2> QED BY <2>1, <2>2
<1>3. \A w \in Flows :
        /\ flow'[w].queued = flow[w].queued /\ flow'[w].pc = flow[w].pc
        /\ flow'[w].waiting \subseteq flow[w].waiting
        /\ \A s \in flow[w].waiting \ flow'[w].waiting :
             w = run[x].owner /\ s = run[x].source
  BY DEF IInv, TypeOK
<1>4. TypeOK'
  <2>1. run' \in [Runners -> [pc : {"idle", "begin", "fetch"},
                              source : Sources \cup {Nobody},
                              owner : Flows \cup {Nobody}]]
    BY DEF IInv, TypeOK, IdleRunner
  <2>2. flow' \in [Flows -> FlowRecord]
    <3>1. CASE flow' = flow
      BY <3>1 DEF IInv, TypeOK, FlowRecord
    <3>2. CASE flow' = [w \in Flows |->
              IF w = run[x].owner
              THEN [flow[w] EXCEPT !.waiting = @ \ {run[x].source}] ELSE flow[w]]
      <4> DEFINE cut(w) == [flow[w] EXCEPT !.waiting = @ \ {run[x].source}]
      <4>1. ASSUME NEW w \in Flows
            PROVE  cut(w) \in FlowRecord
        <5>1. flow[w] \in FlowRecord
          BY DEF IInv, TypeOK, FlowRecord
        <5> QED BY <5>1, CutWaiting
      <4> HIDE DEF cut
      <4>2. flow' = [w \in Flows |-> IF w = run[x].owner THEN cut(w) ELSE flow[w]]
        BY <3>2 DEF cut
      <4>3. flow \in [Flows -> FlowRecord]
        BY DEF IInv, TypeOK, FlowRecord
      <4> QED BY <4>1, <4>2, <4>3
    <3> QED BY <3>1, <3>2
  <2>3. lock' \in [Sources -> Runners \cup {Free, Detail}]
    BY DEF IInv, TypeOK, Unlock
  <2> QED BY <2>1, <2>2, <2>3 DEF IInv, TypeOK, FlowRecord
<1>5. RunnersAreBusy' /\ DetailIsNeeded'
  <2>1. RunnersAreBusy'
    BY <1>1 DEF IInv, RunnersAreBusy, IdleRunner
  <2>2. \A s \in LinkedIn : s \in Sources /\ details[s] \in Nat /\ details'[s] \in Nat
    BY ScrapesAssumption DEF IInv, TypeOK, Sources
  <2>3. DetailIsNeeded'
    BY <1>2, <2>2, Names DEF IInv, DetailIsNeeded
  <2> QED BY <2>1, <2>3
<1>6. LockIsTheScrape'
  BY <1>1, <1>2, Names DEF IInv, LockIsTheScrape, Fetches, IdleRunner
<1>7. ActivitiesAreOwned'
  <2>1. \A w \in Flows : flow'[w].queued \subseteq flow'[w].waiting
    <3>1. ASSUME NEW w \in Flows, NEW s \in flow[w].queued, s \notin flow'[w].waiting
          PROVE  FALSE
      <4>1. s \in flow[w].waiting
        BY DEF IInv, ActivitiesAreOwned
      <4>2. w = run[x].owner /\ s = run[x].source
        BY <1>3, <3>1, <4>1
      <4> QED BY <3>1, <4>2, Names DEF IInv, ActivitiesAreOwned
    <3> QED BY <1>3, <3>1
  <2>2. \A w \in Flows : flow'[w].waiting # {} => flow'[w].pc = "scrape"
    BY <1>3 DEF IInv, ActivitiesAreOwned
  <2>3. ASSUME NEW y \in Runners, run'[y].owner # Nobody
        PROVE  run'[y].source \in flow'[run'[y].owner].waiting
                                   \ flow'[run'[y].owner].queued
    <3>1. y # x /\ run'[y] = run[y]
      BY <1>1, <2>3 DEF IdleRunner
    <3>2. run[y].owner \in Flows
      BY <2>3, <3>1 DEF IInv, TypeOK
    <3>3. run[y].source \in flow[run[y].owner].waiting \ flow[run[y].owner].queued
      BY <2>3, <3>1 DEF IInv, ActivitiesAreOwned
    <3>4. ~(run[y].owner = run[x].owner /\ run[y].source = run[x].source)
      BY <2>3, <3>1 DEF IInv, RunnersAreBusy
    <3> QED BY <1>3, <3>1, <3>2, <3>3, <3>4
  <2> QED BY <2>1, <2>2, <2>3 DEF ActivitiesAreOwned
<1> QED BY <1>4, <1>5, <1>6, <1>7 DEF IInv

(* Every step preserves the invariant. *)
LEMMA StepInv == ASSUME IInv, [Next]_vars PROVE IInv'
<1>1. CASE UNCHANGED vars
  BY <1>1 DEF vars, IInv, TypeOK, RunnersAreBusy, DetailIsNeeded,
              LockIsTheScrape, Fetches, ActivitiesAreOwned
<1>2. ASSUME NEW w \in Flows,
             StartScheduled \/ StartManual(w) \/ FlowStep(w)
      PROVE  IInv'
  <2> DEFINE FlowType == [pc : {"idle", "list", "scrape"}, asked : {"due", "force"},
                    only : SUBSET Sources, queued : SUBSET Sources,
                    waiting : SUBSET Sources]
  <2>1. IdleFlow \in FlowType /\ flow \in [Flows -> FlowType]
    BY DEF IdleFlow, IInv, TypeOK
  <2>2. ASSUME NEW v \in Flows, NEW asked \in {"due", "force"},
               NEW only \in SUBSET Sources, Start(v, asked, only)
        PROVE  IInv'
    <3> DEFINE f == [IdleFlow EXCEPT !.pc = "list", !.asked = asked, !.only = only]
    <3>1. f \in FlowType /\ f.queued = {} /\ f.waiting = {}
      BY DEF IdleFlow
    <3>2. flow[v].pc = "idle" /\ flow' = [flow EXCEPT ![v] = f]
          /\ UNCHANGED <<enabled, last, next, details, lock, run>>
      BY <2>2 DEF Start
    <3>3. flow[v].waiting = {}
      BY <3>2 DEF IInv, ActivitiesAreOwned
    <3> HIDE DEF f
    <3> QED BY <3>1, <3>2, <3>3, FlowInv
  <2>3. CASE StartScheduled
    BY <2>2, <2>3 DEF StartScheduled, Flows
  <2>4. CASE StartManual(w)
    <3>1. PICK asked \in {"due", "force"},
               only \in {Sources} \cup {{s} : s \in Sources} : Start(w, asked, only)
      BY <2>4 DEF StartManual
    <3>2. only \in SUBSET Sources
      OBVIOUS
    <3> QED BY <2>2, <3>1, <3>2
  <2>5. CASE ListDue(w)
    <3> DEFINE due == {s \in flow[w].only : IsDue(s, flow[w].asked)}
               f == IF due = {} THEN IdleFlow
                    ELSE [IdleFlow EXCEPT !.pc = "scrape", !.queued = due,
                                          !.waiting = due]
    <3>1. flow[w].pc = "list" /\ flow' = [flow EXCEPT ![w] = f]
          /\ UNCHANGED <<enabled, last, next, details, lock, run>>
      BY <2>5 DEF ListDue
    <3>2. due \in SUBSET Sources
      BY <2>1
    <3> HIDE DEF due
    <3>3. f \in FlowType /\ f.queued \subseteq f.waiting
          /\ (f.waiting # {} => f.pc = "scrape")
      BY <2>1, <3>2 DEF IdleFlow
    <3>4. flow[w].waiting = {}
      BY <3>1 DEF IInv, ActivitiesAreOwned
    <3> HIDE DEF f
    <3> QED BY <3>1, <3>3, <3>4, FlowInv
  <2>6. CASE ListFails(w) \/ Collect(w)
    <3>1. flow[w].waiting = {} /\ flow' = [flow EXCEPT ![w] = IdleFlow]
          /\ UNCHANGED <<enabled, last, next, details, lock, run>>
      BY <2>6 DEF ListFails, Collect, IInv, ActivitiesAreOwned
    <3>2. IdleFlow.queued = {} /\ IdleFlow.waiting = {}
      BY DEF IdleFlow
    <3> QED BY <2>1, <3>1, <3>2, FlowInv
  <2> QED BY <1>2, <2>3, <2>4, <2>5, <2>6 DEF FlowStep
<1>3. ASSUME NEW x \in Runners, ScrapeStep(x) PROVE IInv'
  <2>1. /\ last \in [Sources -> {"none", "recent", "old"}]
        /\ next \in [Sources -> {"none", "future"}]
        /\ \A s : Saves(s) \/ details' = details =>
             /\ details' \in [LinkedIn -> 0 .. MaxDetails]
             /\ \A t \in LinkedIn : details'[t] >= details[t]
    BY SavesMore DEF IInv, TypeOK
  <2>2. CASE Lock(x)
    BY <2>2, LockInv
  <2>3. CASE LockBusy(x)
    BY <2>1, <2>3, EndInv DEF LockBusy, Done
  <2>4. CASE Succeed(x)
    <3>1. /\ last' \in [Sources -> {"none", "recent", "old"}]
          /\ next' \in [Sources -> {"none", "future"}]
          /\ details' \in [LinkedIn -> 0 .. MaxDetails]
          /\ \A t \in LinkedIn : details'[t] >= details[t]
      BY <2>1, <2>4 DEF Succeed
    <3> QED BY <2>4, <3>1, EndInv DEF Succeed, Done
  <2>5. CASE Fail(x)
    <3>1. /\ next' \in [Sources -> {"none", "future"}]
          /\ details' \in [LinkedIn -> 0 .. MaxDetails]
          /\ \A t \in LinkedIn : details'[t] >= details[t]
      BY <2>1, <2>5 DEF Fail
    <3> QED BY <2>1, <2>5, <3>1, EndInv DEF Fail, Done
  <2>6. CASE EndUnmarked(x)
    <3>1. /\ details' \in [LinkedIn -> 0 .. MaxDetails]
          /\ \A t \in LinkedIn : details'[t] >= details[t]
      BY <2>1, <2>6 DEF EndUnmarked
    <3> QED BY <2>1, <2>6, <3>1, EndInv DEF EndUnmarked, Done
  <2>7. CASE Die(x)
    <3>1. /\ details' \in [LinkedIn -> 0 .. MaxDetails]
          /\ \A t \in LinkedIn : details'[t] >= details[t]
      BY <2>1, <2>7 DEF Die
    <3> QED BY <2>1, <2>7, <3>1, EndInv DEF Die
  <2> QED BY <1>3, <2>2, <2>3, <2>4, <2>5, <2>6, <2>7 DEF ScrapeStep
<1>4. ASSUME NEW s \in LinkedIn,
             DetailLocks(s) \/ DetailUnlocks(s) \/ DetailFails(s)
      PROVE  IInv'
  <2>1. s \in Sources /\ UNCHANGED <<enabled, last, next, flow, run>>
        /\ lock[s] \in {Free, Detail}
        /\ lock' \in [Sources -> Runners \cup {Free, Detail}]
        /\ \A t \in Sources : IF t = s THEN lock'[t] \in {Free, Detail}
                             ELSE lock'[t] = lock[t]
    BY <1>4 DEF DetailLocks, DetailUnlocks, DetailFails, Sources, IInv, TypeOK
  <2>2. details \in [LinkedIn -> 0 .. MaxDetails] /\ MaxDetails \in Nat
    BY ScrapesAssumption DEF IInv, TypeOK
  <2>3. lock[s] = Detail => details[s] > 0
    BY DEF IInv, DetailIsNeeded
  <2>4. /\ details' \in [LinkedIn -> 0 .. MaxDetails]
        /\ \A t \in LinkedIn : t # s => details'[t] = details[t]
    BY <1>4, <2>2, <2>3 DEF DetailLocks, DetailUnlocks, DetailFails
  <2>5. lock'[s] = Detail => details'[s] > 0
    BY <1>4, <2>1, Names DEF DetailLocks, DetailUnlocks, DetailFails, IInv, TypeOK
  <2>6. DetailIsNeeded'
    BY <2>1, <2>4, <2>5 DEF IInv, DetailIsNeeded, Sources
  <2>7. TypeOK' /\ RunnersAreBusy' /\ ActivitiesAreOwned'
    BY <2>1, <2>4 DEF IInv, TypeOK, RunnersAreBusy, ActivitiesAreOwned
  <2>8. LockIsTheScrape'
    BY <2>1, Names DEF IInv, LockIsTheScrape, Fetches
  <2> QED BY <2>6, <2>7, <2>8 DEF IInv
<1>5. ASSUME NEW s \in Sources, World(s) PROVE IInv'
  <2>1. TypeOK'
    BY <1>5 DEF World, IntervalPasses, BackoffPasses, SwitchProvider, IInv, TypeOK
  <2>2. UNCHANGED <<details, lock, flow, run>>
    BY <1>5 DEF World, IntervalPasses, BackoffPasses, SwitchProvider
  <2>3. \A t \in LinkedIn : details'[t] >= details[t]
    BY <2>2, SavesMore DEF IInv
  <2> QED BY <2>1, <2>2, <2>3, WorldInv
<1>6. ASSUME NEW c \in Callers, NEW s \in Sources, Call(c, s) PROVE IInv'
  BY <1>6, CallInv
<1>7. CASE ReEvaluate
  BY <1>7, WorldInv DEF ReEvaluate, IInv, TypeOK
<1> QED BY <1>1, <1>2, <1>3, <1>4, <1>5, <1>6, <1>7, ExpireInv, PickInv DEF Next, Flows

LEMMA Invariance == Spec => []IInv
<1>1. Init => IInv
  BY InitInv
<1>2. IInv /\ [Next]_vars => IInv'
  BY StepInv
<1> QED BY <1>1, <1>2, PTL DEF Spec

(* Every variable keeps its type (ScrapeWorkflow, scrapeSource).           *)
THEOREM TypeCorrect == Spec => []TypeOK
<1>1. IInv => TypeOK
  BY DEF IInv
<1> QED BY <1>1, Invariance, PTL

(* The lock of a source is held exactly while one scrape fetches from it:  *)
(* through crashes, activities Temporal gives up, skipped scrapes and      *)
(* overlapping flows (scrapeSource, TryLockJobSource).                     *)
THEOREM LocksAreScrapes == Spec => []LockIsTheScrape
<1>1. IInv => LockIsTheScrape
  BY DEF IInv
<1> QED BY <1>1, Invariance, PTL

(* Every activity a queue runs for a workflow is one it waits for, and ran *)
(* once (ScrapeWorkflow, the worker queues).                               *)
THEOREM ActivitiesAreAccountedFor == Spec => []ActivitiesAreOwned
<1>1. IInv => ActivitiesAreOwned
  BY DEF IInv
<1> QED BY <1>1, Invariance, PTL
============================================================================
