------------------------------- MODULE Fishbone -------------------------------
(***************************************************************************)
(* The plot DAG a macro compile builds.  A main storyline runs through all *)
(* volumes; side arcs hang on it like ribs: series arcs (S) go on from     *)
(* volume to volume, volume arcs (A) stay in theirs, short beats (B) hang  *)
(* on one main anchor.  A checkpoint per volume gathers them, and the      *)
(* ending gathers the checkpoints.  Ids are places in the list.            *)
(***************************************************************************)
EXTENDS AnchorPlan, Sequences, SequencesExt

\* Storylines: the main one, and side arcs by tier and number; those of a volume are numbered
\* within it.
Line(tier, v, i) == <<tier, v, i>>
Main == Line("MAIN", 0, 0)

Beat(v, line, deps) ==
  [kind |-> "NORMAL", deps |-> deps, volume |-> v, main |-> line = Main, line |-> line]

\* A chain of beats behind what its first one depends on.
Chain(nodes, v, line, first, length) ==
  nodes \o [i \in 1..length |-> Beat(v, line, IF i = 1 THEN first ELSE {Len(nodes) + i - 1})]

(***************************************************************************)
(* Main storyline.  `anchors' counts the main anchors of each volume; they *)
(* come first in the list, every one behind the one before it.             *)
(***************************************************************************)
MainsBefore(anchors, v) == FoldLeft(LAMBDA n, u : n + anchors[u], 0, [u \in 1..(v - 1) |-> u])
FirstMain(anchors, v) == MainsBefore(anchors, v) + 1
LastMain(anchors, v) == MainsBefore(anchors, v) + anchors[v]

\* Mutant: every volume starts a main storyline of its own.
MainLineByVolume(anchors) ==
  FoldLeft(LAMBDA nodes, v : Chain(nodes, v, Main, {}, anchors[v]),
           <<>>, [v \in DOMAIN anchors |-> v])

MainLine(anchors) ==
  FoldLeft(LAMBDA nodes, v :
             Chain(nodes, v, Main, IF nodes = <<>> THEN {} ELSE {Len(nodes)}, anchors[v]),
           <<>>, [v \in DOMAIN anchors |-> v])

(***************************************************************************)
(* Side arcs of a volume.  `built' holds the nodes, the last beat of every *)
(* series arc, the checkpoint before, and what this volume has to gather.  *)
(* `c' are the choices of the random generator.                            *)
(***************************************************************************)
AddChain(built, v, line, first, length) ==
  LET nodes == Chain(built.nodes, v, line, first, length)
  IN  [nodes |-> nodes, series |-> built.series, checkpoint |-> built.checkpoint,
       tails |-> built.tails \cup {Len(nodes)}]

\* A series arc goes on where it ended, once the volume before is gathered.
SeriesArc(built, anchors, v, s, length) ==
  LET first == IF built.series[s] = 0 THEN {FirstMain(anchors, v)}
               ELSE {built.series[s], built.checkpoint} \ {0}
      grown == AddChain(built, v, Line("S", 0, s), first, length)
  IN  [grown EXCEPT !.series[s] = Len(grown.nodes)]

\* A volume arc starts at a main anchor that leaves it as many anchors as it has beats.
VolumeArc(built, anchors, v, a, arc) ==
  AddChain(built, v, Line("A", v, a), {FirstMain(anchors, v) + arc.start}, arc.length)

\* Mutant: a checkpoint waits for the main storyline only.
CheckpointOfMain(built, anchors, v) ==
  [built EXCEPT
     !.nodes = Append(@, [kind |-> "CHECKPOINT", deps |-> {LastMain(anchors, v)},
                          volume |-> v, main |-> TRUE, line |-> Main]),
     !.checkpoint = Len(built.nodes) + 1,
     !.tails = {}]

Checkpoint(built, anchors, v) ==
  [nodes |-> Append(built.nodes,
                    [kind |-> "CHECKPOINT", deps |-> {LastMain(anchors, v)} \cup built.tails,
                     volume |-> v, main |-> TRUE, line |-> Main]),
   series |-> built.series, checkpoint |-> Len(built.nodes) + 1, tails |-> {}]

SeriesArcs(built, anchors, v, lengths) ==
  FoldLeft(LAMBDA b, s : SeriesArc(b, anchors, v, s, lengths[s]), built, [s \in DOMAIN lengths |-> s])

VolumeArcs(built, anchors, v, arcs) ==
  FoldLeft(LAMBDA b, a : VolumeArc(b, anchors, v, a, arcs[a]), built, [a \in DOMAIN arcs |-> a])

Volume(built, anchors, v, c) ==
  Checkpoint(VolumeArcs(SeriesArcs(built, anchors, v, c.series[v]), anchors, v, c.arcs[v]),
             anchors, v)

Ribs(anchors, c) ==
  FoldLeft(LAMBDA b, v : Volume(b, anchors, v, c),
           [nodes |-> MainLine(anchors), series |-> [s \in DOMAIN c.series[1] |-> 0],
            checkpoint |-> 0, tails |-> {}],
           [v \in DOMAIN anchors |-> v]).nodes

(***************************************************************************)
(* Short beats.  Every one has a volume, and hangs on the first main       *)
(* anchor there that carries none yet, or on the first if all of them do.  *)
(***************************************************************************)
MountOf(anchors, v, used) ==
  LET here == FirstMain(anchors, v)..LastMain(anchors, v)
  IN  IF here \ used # {} THEN CHOOSE n \in here \ used : \A m \in here \ used : n <= m
      ELSE FirstMain(anchors, v)

\* `beats' gives each of them its volume and length; the result has the last node of each.
ShortBeats(nodes, anchors, beats) ==
  FoldLeft(LAMBDA b, i :
             LET v == beats[i].volume
                 mount == MountOf(anchors, v, b.used)
                 grown == Chain(b.nodes, v, Line("B", 0, i), {mount}, beats[i].length)
             IN  [nodes |-> grown, used |-> b.used \cup {mount},
                  tails |-> b.tails \cup {Len(grown)}],
           [nodes |-> nodes, used |-> {}, tails |-> {}],
           [i \in DOMAIN beats |-> i])

\* Mutant: the checkpoints are left as the volumes built them.
GatherNothing(b) == b.nodes

\* The last node of every short beat joins the checkpoint of its volume.
Gather(b) ==
  [n \in DOMAIN b.nodes |->
     IF b.nodes[n].kind = "CHECKPOINT"
     THEN [b.nodes[n] EXCEPT !.deps = @ \cup {t \in b.tails : b.nodes[t].volume = b.nodes[n].volume}]
     ELSE b.nodes[n]]

WithEnding(nodes, last) ==
  Append(nodes, [kind |-> "ENDING", volume |-> last, main |-> TRUE, line |-> Main,
                 deps |-> {n \in DOMAIN nodes : nodes[n].kind = "CHECKPOINT"}])

FishboneNodes(anchors, c) ==
  WithEnding(Gather(ShortBeats(Ribs(anchors, c), anchors, c.beats)), Len(anchors))

(***************************************************************************)
(* The checks of the compile                                               *)
(***************************************************************************)
Tier(node) == node.line[1]
Side(node) == Tier(node) \in {"S", "A", "B"}

\* From every beat of a series or volume arc an end is reached; `named' are nodes whose
\* titles speak of an ending or a checkpoint, which the code takes for one.
TierConvergence(plan, named) ==
  \A n \in DOMAIN plan : Tier(plan[n]) \in {"S", "A"} =>
    n \in Reaching(plan, Terminals(plan) \cup named)

\* The last of the nodes that a storyline has in a volume.
TailsOf(plan, v, line) ==
  LET scope == {n \in DOMAIN plan \ Terminals(plan) : plan[n].volume = v /\ plan[n].line = line}
  IN  {n \in scope : \A m \in scope : n \notin plan[m].deps}

StrictJoin(plan) ==
  \A c \in {n \in DOMAIN plan : plan[n].kind = "CHECKPOINT"} :
    /\ Cardinality(plan[c].deps) >= 2
    /\ \A line \in {plan[n].line : n \in DOMAIN plan} : line[1] # "B" =>
         LastOf(TailsOf(plan, plan[c].volume, line)) \subseteq plan[c].deps

\* A side arc hangs on the main storyline or on itself.
FishboneDependencies(plan) ==
  \A n \in DOMAIN plan : \A m \in plan[n].deps \cap DOMAIN plan :
    Side(plan[n]) /\ Side(plan[m]) => plan[n].line = plan[m].line

Children(plan, n) == {m \in DOMAIN plan : n \in plan[m].deps}
Joins(plan) == {n \in DOMAIN plan : plan[n].kind \in {"MERGE", "CHECKPOINT", "ENDING"}}
ForkMerge(plan) ==
  \A n \in DOMAIN plan :
    /\ plan[n].kind = "FORK" => /\ Cardinality(Children(plan, n)) >= 2
                                /\ Children(plan, n) \subseteq Reaching(plan, Joins(plan))
    /\ plan[n].kind = "MERGE" => Cardinality(plan[n].deps) >= 2

Checked(plan, named) ==
  /\ Acyclic(plan) /\ TierConvergence(plan, named) /\ ForkMerge(plan)
  /\ StrictJoin(plan) /\ FishboneDependencies(plan)
=============================================================================
