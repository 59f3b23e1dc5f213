----------------------------- MODULE AnchorPlan -----------------------------
(***************************************************************************)
(* The plot DAG and what the code computes from it.  A plan is a function  *)
(* from the ids of its nodes to records of their kind, the nodes they      *)
(* depend on, their volume, and whether they lie on the main storyline.    *)
(* Ids are numbers and stand in the order of the list.  Statuses are not   *)
(* stored: they are derived from the resolved anchors (story_runtime.py).  *)
(***************************************************************************)
EXTENDS Naturals, FiniteSets

Kinds == {"NORMAL", "FORK", "MERGE", "CHECKPOINT", "ENDING"}

NodeRecords(ids, volumes) ==
  [kind : Kinds, deps : SUBSET ids, volume : volumes, main : BOOLEAN]

FirstOf(S) == {n \in S : \A m \in S : n <= m}
LastOf(S) == {n \in S : \A m \in S : m <= n}

Terminals(plan) == {n \in DOMAIN plan : plan[n].kind \in {"CHECKPOINT", "ENDING"}}
Endings(plan) == {n \in DOMAIN plan : plan[n].kind = "ENDING"}

(***************************************************************************)
(* Statuses                                                                *)
(***************************************************************************)

\* Mutant: only endings resolve themselves.
SettleEndings(plan, resolved) ==
  resolved \cup {n \in Endings(plan) : plan[n].deps \subseteq resolved}

\* Checkpoints and endings resolve themselves as soon as what they depend on is.
SettleOnce(plan, resolved) ==
  resolved \cup {n \in Terminals(plan) : plan[n].deps \subseteq resolved}

Derived(plan, resolved) ==
  LET settled[k \in 0..Cardinality(DOMAIN plan)] ==
        IF k = 0 THEN resolved ELSE SettleOnce(plan, settled[k - 1])
  IN  settled[Cardinality(DOMAIN plan)]

\* Mutant: an anchor is a candidate whatever it depends on.
FrontierOfAll(plan, resolved) == DOMAIN plan \ (Terminals(plan) \cup Derived(plan, resolved))

\* The candidates recompute_anchor_unlocks returns: unlocked anchors a chapter may aim at.
Frontier(plan, resolved) ==
  LET done == Derived(plan, resolved)
  IN  {n \in DOMAIN plan \ (Terminals(plan) \cup done) : plan[n].deps \subseteq done}

\* What a commit stores: an empty list from the run never wipes progress, and neither list
\* keeps ids the plan no longer has.
MergeForCommit(persisted, fromRun, ids) == (persisted \cup fromRun) \cap ids

(***************************************************************************)
(* Selections                                                              *)
(***************************************************************************)

\* The nodes from which one of the targets is reached by following dependants.
StepBack(plan, S) == S \cup UNION {plan[m].deps \cap DOMAIN plan : m \in S \cap DOMAIN plan}

Reaching(plan, targets) ==
  LET back[k \in 0..Cardinality(DOMAIN plan)] ==
        IF k = 0 THEN targets
        ELSE StepBack(plan, back[k - 1])
  IN  back[Cardinality(DOMAIN plan)]

\* Without an ENDING the last node of the list is what has to be reached.
EndingTargets(plan) ==
  IF Endings(plan) # {} THEN Endings(plan)
  ELSE {n \in DOMAIN plan : \A m \in DOMAIN plan : m <= n}

Guardrails(plan, resolved, selected, next) ==
  /\ selected \cup next \subseteq DOMAIN plan \ Terminals(plan)
  /\ selected # {} => next # {}
  /\ \A n \in next : /\ n \notin resolved
                     /\ plan[n].deps \subseteq resolved \cup selected
                     /\ n \in Reaching(plan, EndingTargets(plan))

(***************************************************************************)
(* Plans a client may store                                                *)
(***************************************************************************)

DepsKnown(plan) == \A n \in DOMAIN plan : plan[n].deps \subseteq DOMAIN plan

Peel(plan, S) == {n \in S : plan[n].deps \cap S # {}}

\* Kahn's rounds: what remains when every node whose dependencies are gone has been taken.
Residue(plan) ==
  LET rest[k \in 0..Cardinality(DOMAIN plan)] ==
        IF k = 0 THEN DOMAIN plan
        ELSE Peel(plan, rest[k - 1])
  IN  rest[Cardinality(DOMAIN plan)]

Acyclic(plan) == Residue(plan) = {}

Spread(plan, S) == StepBack(plan, S) \cup {m \in DOMAIN plan : plan[m].deps \cap S # {}}

\* The component of the first node, edges taken both ways.
Component(plan, start) ==
  LET seen[k \in 0..Cardinality(DOMAIN plan)] ==
        IF k = 0 THEN {start} ELSE Spread(plan, seen[k - 1])
  IN  seen[Cardinality(DOMAIN plan)]

Connected(plan) == \A n \in FirstOf(DOMAIN plan) : DOMAIN plan \subseteq Component(plan, n)

Sound(plan) == DepsKnown(plan) /\ Acyclic(plan)

\* Mutant: the plan is not searched for cycles.
ValidUnlessUnknown(plan, volumes) ==
  /\ DOMAIN plan # {}
  /\ DepsKnown(plan)
  /\ Connected(plan)
  /\ \A n \in DOMAIN plan : plan[n].volume \in volumes

ValidNodes(plan, volumes) ==
  /\ DOMAIN plan # {}
  /\ Sound(plan)
  /\ Connected(plan)
  /\ \A n \in DOMAIN plan : plan[n].volume \in volumes

\* No volume is empty, or begins before the first chapter.
ValidVolumes(ranges) ==
  \A v \in DOMAIN ranges : ranges[v].start >= 1 /\ ranges[v].end >= ranges[v].start

ValidPlan(plan, ranges) == ValidVolumes(ranges) /\ ValidNodes(plan, DOMAIN ranges)

\* The main storyline of a volume starts behind the last main node of the volume before it
\* that has any; a save adds the dependency where it is missing.
MainsOf(plan, v) == {n \in DOMAIN plan : plan[n].volume = v /\ plan[n].main /\ plan[n].kind = "NORMAL"}

LastMainBefore(plan, v) ==
  UNION {LastOf(MainsOf(plan, u)) :
           u \in {w \in {plan[n].volume : n \in DOMAIN plan} :
                    /\ w < v
                    /\ MainsOf(plan, w) # {}
                    /\ \A x \in {plan[n].volume : n \in DOMAIN plan} :
                         w < x /\ x < v => MainsOf(plan, x) = {}}}

Repair(plan) ==
  [n \in DOMAIN plan |->
     IF n \in FirstOf(MainsOf(plan, plan[n].volume))
     THEN [plan[n] EXCEPT !.deps = @ \cup LastMainBefore(plan, plan[n].volume)]
     ELSE plan[n]]

Repaired(plan) ==
  LET repaired == Repair(plan) IN {n \in DOMAIN plan : repaired[n] # plan[n]}
=============================================================================
