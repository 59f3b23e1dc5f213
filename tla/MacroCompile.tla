----------------------------- MODULE MacroCompile -----------------------------
(***************************************************************************)
(* A macro compile up to the plan it hands to the store: the planner model *)
(* is asked twice at most, what it drafts is made into volumes with word   *)
(* budgets, storylines are allotted to what the author asked for, and the  *)
(* plot DAG is built and checked (anchor_service.py).                      *)
(***************************************************************************)
EXTENDS Fishbone, Integers

CONSTANTS
  TotalChapters,  \* fixed_total_chapters
  VolumeCount,    \* fixed_total_volumes
  TargetWords,    \* target_total_words, or 12000 if that is less
  KeyPoints,      \* whether the author's notes have key points that have to be cited
  Hints,          \* the author's subplots, a sequence of [tier, volume], 0 for no volume
  Drafts,         \* volumes the model may draft, sequences of [start, end, words, anchors]
  SeriesLengths,  \* 1..3 in the code
  ArcLengths,     \* 2..4 in the code
  BeatLengths,    \* 1..2 in the code
  MinAnchors,     \* MIN_ANCHORS_PER_VOLUME
  MaxAnchors      \* MAX_ANCHORS_PER_VOLUME

\* What the planner model may say of a volume, and what the author of a subplot.
DraftRecords == [start : Int, end : Int, words : Int, anchors : Nat]
HintRecords == [tier : {"S", "A", "B"}, volume : Nat]

ASSUME CompileAssumption ==
  /\ TotalChapters \in Nat /\ VolumeCount \in 1..TotalChapters /\ TargetWords \in Nat
  /\ MinAnchors \in Nat \ {0} /\ MaxAnchors \in Nat /\ MinAnchors <= MaxAnchors
  /\ Drafts \subseteq Seq(DraftRecords) /\ Hints \in Seq(HintRecords) /\ KeyPoints \in BOOLEAN
  /\ SeriesLengths \subseteq 1..3 /\ ArcLengths \subseteq 2..4 /\ BeatLengths \subseteq 1..2

VARIABLES
  phase,
  attempt,  \* calls of the planner model so far
  output,   \* what it answered: drafts, and whether notes and language are right
  volumes,  \* [start, end, words, anchors] of every volume
  lines,    \* the storylines: how many S, how many A per volume, the volume of every B
  nodes

vars == <<phase, attempt, output, volumes, lines, nodes>>
NoOutput == [drafts |-> <<>>]
NoLines == [s |-> 0]

Init ==
  /\ phase = "asking" /\ attempt = 0 /\ output = NoOutput
  /\ volumes = <<>> /\ lines = NoLines /\ nodes = <<>>

(***************************************************************************)
(* Asking the planner                                                      *)
(***************************************************************************)
Upto(n) == [i \in 1..n |-> i]
Total(s) == FoldLeft(LAMBDA n, x : n + x, 0, s)
Greater(a, b) == IF a > b THEN a ELSE b
Lesser(a, b) == IF a < b THEN a ELSE b

\* The chapters in as many volumes as there have to be, the longer ones first.
FallbackDrafts ==
  LET length(i) == TotalChapters \div VolumeCount
                     + (IF i <= TotalChapters % VolumeCount THEN 1 ELSE 0)
      before(i) == Total([j \in 1..(i - 1) |-> length(j)])
  IN  [i \in 1..VolumeCount |->
         [start |-> before(i) + 1, end |-> before(i) + length(i),
          words |-> Greater(1, TargetWords \div VolumeCount), anchors |-> 3]]

NotesLinked(o) == KeyPoints => o.castNotes /\ o.anchorNotes
Fits(o) == Len(o.drafts) = VolumeCount /\ NotesLinked(o) /\ o.language

AskPlanner ==
  /\ phase = "asking" /\ attempt < 2
  /\ attempt' = attempt + 1
  /\ \E d \in Drafts, castNotes, anchorNotes, language \in BOOLEAN :
       /\ output' = [drafts |-> d, castNotes |-> castNotes, anchorNotes |-> anchorNotes,
                     language |-> language]
       /\ phase' = IF Fits(output') \/ attempt' = 2 THEN "answered" ELSE phase
  /\ UNCHANGED <<volumes, lines, nodes>>

PlannerRaises ==
  /\ phase = "asking" /\ phase' = "raised"
  /\ attempt' = attempt + 1
  /\ UNCHANGED <<output, volumes, lines, nodes>>

\* Mutant: the answer of the second attempt is taken as it is.
AcceptsLast(o) == TRUE

\* What the answer has to be once its volumes are as many as they have to be.
Acceptable(o) == NotesLinked(o) /\ o.language

\* A wrong number of volumes is repaired; wrong notes or a wrong language are not. The anchors
\* of the new volumes cite the notes, and with their words the language is judged anew.
WithVolumes(o) ==
  IF Len(o.drafts) = VolumeCount THEN {o}
  ELSE {[drafts |-> FallbackDrafts, castNotes |-> o.castNotes, anchorNotes |-> KeyPoints,
         language |-> language] : language \in BOOLEAN}

JudgeAnswer ==
  /\ phase = "answered"
  /\ output' \in WithVolumes(output)
  /\ phase' = IF Acceptable(output') THEN "normalizing" ELSE "raised"
  /\ UNCHANGED <<attempt, volumes, lines, nodes>>

\* Without a model the volumes are the fallback's, and nothing is judged: there is no cast that
\* could fail to cite the notes, the anchors cite none, and they are in whatever language.
NoModel ==
  /\ phase = "asking" /\ attempt = 0
  /\ \E language \in BOOLEAN :
       output' = [drafts |-> FallbackDrafts, castNotes |-> TRUE, anchorNotes |-> FALSE,
                  language |-> language]
  /\ phase' = "normalizing"
  /\ UNCHANGED <<attempt, volumes, lines, nodes>>

(***************************************************************************)
(* Volumes                                                                 *)
(***************************************************************************)

\* By their first chapters; drafts that start alike keep their order.
Rank(drafts, i) ==
  Cardinality({j \in DOMAIN drafts : \/ drafts[j].start < drafts[i].start
                                     \/ drafts[j].start = drafts[i].start /\ j <= i})
InOrder(drafts) ==
  [k \in DOMAIN drafts |-> drafts[CHOOSE i \in DOMAIN drafts : Rank(drafts, i) = k]]

\* Mutant: a volume starts where its draft says.
BoundsAsDrafted(drafts) ==
  [i \in DOMAIN drafts |->
     [start |-> drafts[i].start,
      end |-> IF i = Len(drafts) THEN TotalChapters ELSE Lesser(TotalChapters, drafts[i].end)]]

\* A volume starts behind the one before it, and the last one ends with the story.
Bounds(drafts) ==
  FoldLeft(LAMBDA b, i :
             LET start == Greater(b.end + 1, drafts[i].start)
                 end == IF i = Len(drafts) THEN TotalChapters
                        ELSE Lesser(TotalChapters, Greater(start, drafts[i].end))
             IN  [end |-> end, out |-> Append(b.out, [start |-> start, end |-> end])],
           [end |-> 0, out |-> <<>>], Upto(Len(drafts))).out

\* round() of a fraction: to the even neighbour when it lies in the middle.
Round(n, d) ==
  LET low == n \div d
      twice == 2 * (n % d)
  IN  IF twice > d \/ (twice = d /\ low % 2 = 1) THEN low + 1 ELSE low

\* Mutant: every volume has its share of the whole, rounded.
SharesOfAll(weights) ==
  [i \in DOMAIN weights |-> Greater(1, Round(TargetWords * weights[i], Total(weights)))]

\* Mutant: a volume that asks for no words gets none.
SharesUnclamped(weights) ==
  FoldLeft(LAMBDA b, i :
             LET share == IF i = Len(weights) THEN b.words
                          ELSE Round(b.words * weights[i], Greater(1, b.weight))
             IN  [words |-> b.words - share, weight |-> b.weight - weights[i],
                  out |-> Append(b.out, share)],
           [words |-> TargetWords, weight |-> Total(weights), out |-> <<>>],
           Upto(Len(weights))).out

\* Every volume has its share of what is left, and the last one has the rest.
Shares(weights) ==
  FoldLeft(LAMBDA b, i :
             LET share == IF i = Len(weights) THEN Greater(1, b.words)
                          ELSE Greater(1, Round(b.words * weights[i], Greater(1, b.weight)))
             IN  [words |-> b.words - share, weight |-> b.weight - weights[i],
                  out |-> Append(b.out, share)],
           [words |-> TargetWords, weight |-> Total(weights), out |-> <<>>],
           Upto(Len(weights))).out

\* By the words the drafts ask for, or by chapters when they ask for none.
Budgets(drafts, bounds) ==
  LET asked == [i \in DOMAIN drafts |-> Greater(0, drafts[i].words)]
  IN  Shares(IF \E i \in DOMAIN asked : asked[i] > 0 THEN asked
             ELSE [i \in DOMAIN bounds |-> Greater(1, bounds[i].end - bounds[i].start + 1)])

\* Start, end, words and number of main anchors of every volume.
Normalized(drafts) ==
  LET bounds == Bounds(drafts)
      words == Budgets(drafts, bounds)
  IN  [i \in DOMAIN drafts |->
         [start |-> bounds[i].start, end |-> bounds[i].end, words |-> words[i],
          anchors |-> Lesser(MaxAnchors, Greater(MinAnchors, drafts[i].anchors))]]

NormalizeVolumes ==
  /\ phase = "normalizing" /\ phase' = "storylines"
  /\ volumes' = Normalized(InOrder(output.drafts))
  /\ UNCHANGED <<attempt, output, lines, nodes>>

(***************************************************************************)
(* Storylines                                                              *)
(***************************************************************************)
HintsOf(tier, v) == {i \in DOMAIN Hints : Hints[i].tier = tier /\ Hints[i].volume = v}
PinnedBeats ==
  FoldLeft(LAMBDA pins, h : IF h.tier = "B" /\ h.volume \in 1..Len(volumes)
                            THEN Append(pins, h.volume) ELSE pins,
           <<>>, Hints)

\* Mutant: beats the author asked for are spread like all others.
BeatsAnywhere(count) == [i \in 1..count |-> ((i - 1) % Len(volumes)) + 1]

\* The beats the author has pinned come first, the others go round the volumes.
BeatVolumes(count) ==
  [i \in 1..count |-> IF i <= Len(PinnedBeats) THEN PinnedBeats[i]
                      ELSE ((i - Len(PinnedBeats) - 1) % Len(volumes)) + 1]

HalfUp(n) == (n + 1) \div 2

BuildStorylines ==
  /\ phase = "storylines" /\ phase' = "topology"
  /\ \E s \in 1..2, arcs \in [DOMAIN volumes -> 1..2] :
     \E beats \in Greater(1, HalfUp(Len(volumes)))..HalfUp(3 * Len(volumes)) :
       lines' = [s |-> s,
                 arcs |-> [v \in DOMAIN volumes |-> Greater(arcs[v], Cardinality(HintsOf("A", v)))],
                 beats |-> BeatVolumes(Greater(beats, Len(PinnedBeats)))]
  /\ UNCHANGED <<attempt, output, volumes, nodes>>

\* How a storyline finds its hint: the next one for its volume, or else the next one for none.
\* `left' are the hints nobody has taken yet.
NextHint(left, tier, v) ==
  IF left \cap HintsOf(tier, v) # {} THEN FirstOf(left \cap HintsOf(tier, v))
  ELSE FirstOf(left \cap HintsOf(tier, 0))

Takers(l) ==
  [i \in 1..l.s |-> [tier |-> "S", volume |-> 0]]
    \o FlattenSeq([v \in DOMAIN l.arcs |-> [a \in 1..l.arcs[v] |-> [tier |-> "A", volume |-> v]]])
    \o [b \in DOMAIN l.beats |-> [tier |-> "B", volume |-> l.beats[b]]]

\* The hints taken, each with the volume of the storyline that takes it.
Matched(l) ==
  FoldLeft(LAMBDA m, t :
             LET hint == NextHint({i \in DOMAIN Hints : \A p \in m : p[1] # i}, t.tier, t.volume)
             IN  m \cup {<<i, t.volume>> : i \in hint},
           {}, Takers(l))

(***************************************************************************)
(* Plot DAG                                                                *)
(***************************************************************************)
Anchors == [v \in DOMAIN volumes |-> volumes[v].anchors]
\* An arc leaves itself room: one that is longer than the main storyline starts at its head.
ArcsFrom(mains) ==
  UNION {[length : {k}, start : 0..Greater(0, mains - k)] : k \in ArcLengths}

Arcs == UNION {{<<v, a>> : a \in 1..lines.arcs[v]} : v \in DOMAIN volumes}
Topologies ==
  {[series |-> series,
    arcs |-> [v \in DOMAIN volumes |-> [a \in 1..lines.arcs[v] |-> arcs[<<v, a>>]]],
    beats |-> [i \in DOMAIN lines.beats |-> [volume |-> lines.beats[i], length |-> beats[i]]]] :
     series \in [DOMAIN volumes -> [1..lines.s -> SeriesLengths]],
     arcs \in {f \in [Arcs -> UNION {ArcsFrom(Anchors[v]) : v \in DOMAIN volumes}] :
                 \A r \in Arcs : f[r] \in ArcsFrom(Anchors[r[1]])},
     beats \in [DOMAIN lines.beats -> BeatLengths]}

BuildNodes ==
  /\ phase = "topology" /\ phase' = "checking"
  /\ \E c \in Topologies : nodes' = FishboneNodes(Anchors, c)
  /\ UNCHANGED <<attempt, output, volumes, lines>>

\* Titles the model gave to main anchors may make the checks take them for ends.
CheckNodes ==
  /\ phase = "checking"
  /\ \E named \in {{}, MainsOf(nodes, 1)} :
       phase' = IF Checked(nodes, named) THEN "built" ELSE "rejected"
  /\ UNCHANGED <<attempt, output, volumes, lines, nodes>>

Next ==
  \/ AskPlanner \/ PlannerRaises \/ JudgeAnswer \/ NoModel \/ NormalizeVolumes
  \/ BuildStorylines \/ BuildNodes \/ CheckNodes

Spec == Init /\ [][Next]_vars

(***************************************************************************)
(* Properties                                                              *)
(***************************************************************************)

\* compile_macro_plan and everything it calls: every variable keeps to its values, whatever
\* the model drafts.
TypeOK ==
  /\ phase \in {"asking", "answered", "normalizing", "storylines", "topology", "checking",
                "built", "rejected", "raised"}
  /\ attempt \in 0..2
  /\ \A v \in DOMAIN volumes : volumes[v].words > 0 /\ volumes[v].anchors \in MinAnchors..MaxAnchors
  /\ \A n \in DOMAIN nodes : nodes[n].kind \in Kinds /\ nodes[n].volume \in DOMAIN volumes

\* _validate_notes_links and _detect_macro_output_language_mismatch: an answer of which no
\* attempt was right is repaired in its volumes only, and never built when its notes or its
\* language are wrong, after the repair; what was never judged is the fallback of a program
\* without a model.
NothingUncheckedIsBuilt ==
  phase \notin {"asking", "answered", "raised"} =>
    /\ Len(output.drafts) = VolumeCount
    /\ attempt > 0 => output.language /\ (KeyPoints => output.castNotes /\ output.anchorNotes)
    /\ attempt = 0 => output.drafts = FallbackDrafts

\* _normalize_macro_plan: however the drafts overlap or leave gaps, no chapter lies in two
\* volumes and the last one ends with the story; the fallback's volumes leave no gap either.
VolumesAreApart ==
  volumes # <<>> =>
    /\ \A v \in 2..Len(volumes) : volumes[v - 1].end < volumes[v].start
    /\ volumes[Len(volumes)].end = TotalChapters
    /\ output.drafts = FallbackDrafts =>
         /\ volumes[1].start = 1
         /\ \A v \in 2..Len(volumes) : volumes[v].start = volumes[v - 1].end + 1
         /\ \A v \in DOMAIN volumes : volumes[v].start <= volumes[v].end

\* _normalize_volume_word_budgets: however the drafts ask, the budgets spend the target, but
\* for a word in every volume for which a single one is left.
BudgetsSpendTheTarget ==
  LET spent == Total([v \in DOMAIN volumes |-> volumes[v].words])
      least == Cardinality({v \in DOMAIN volumes : volumes[v].words = 1})
  IN  volumes # <<>> => TargetWords <= spent /\ spent <= TargetWords + least

\* _build_fishbone_storylines, _match_user_subplot_hints_to_storylines: every arc the author
\* pinned to a volume of the story is taken by a storyline of that volume.
PinnedHintsAreTaken ==
  lines # NoLines =>
    \A i \in DOMAIN Hints :
      Hints[i].tier \in {"A", "B"} /\ Hints[i].volume \in DOMAIN volumes =>
        <<i, Hints[i].volume>> \in Matched(lines)

\* _build_fishbone_anchor_nodes: the compile never rejects the plan it has built itself.
OwnPlanIsAccepted == phase # "rejected"

\* What a chapter may aim at, resolved again and again, leads to the end of the story.
WithFrontier(plan, done) == done \cup Frontier(plan, done)
Resolvable(plan) ==
  LET done[k \in 0..Cardinality(DOMAIN plan)] ==
        IF k = 0 THEN {} ELSE WithFrontier(plan, done[k - 1])
  IN  Derived(plan, done[Cardinality(DOMAIN plan)])
StoryCanBeFinished == phase = "built" => Resolvable(nodes) = DOMAIN nodes

\* put_macro_plan: its checks are others than those of the compile. Of the plans a compile has
\* built it refuses, when a client stores them as they are, those with a volume for which no
\* chapter was left and no others; none if the volumes are the fallback's; and its repair of the
\* main storyline changes nothing in any of them.
OnlyEmptyVolumesAreRefused ==
  phase = "built" =>
    /\ Repaired(nodes) = {}
    /\ ValidPlan(nodes, volumes) <=> \A v \in DOMAIN volumes : volumes[v].start <= TotalChapters
    /\ output.drafts = FallbackDrafts => ValidPlan(nodes, volumes)

\* _build_fishbone_anchor_nodes: every anchor of a volume comes before the checkpoint of that
\* volume and all of them before the end, and what a series arc has in a volume comes behind
\* the checkpoint of the volume before.
Gathered(v) ==
  Reaching(nodes, {n \in DOMAIN nodes : nodes[n].kind = "CHECKPOINT" /\ nodes[n].volume = v})
CheckpointsDivideTheStory ==
  phase = "built" =>
    /\ \A v \in DOMAIN volumes :
         {n \in DOMAIN nodes \ Endings(nodes) : nodes[n].volume = v} \subseteq Gathered(v)
    /\ Reaching(nodes, Endings(nodes)) = DOMAIN nodes
    /\ \A n \in {m \in DOMAIN nodes : Tier(nodes[m]) = "S" /\ nodes[m].volume > 1} :
         \E c \in Reaching(nodes, {n}) :
           nodes[c].kind = "CHECKPOINT" /\ nodes[c].volume = nodes[n].volume - 1
=============================================================================
