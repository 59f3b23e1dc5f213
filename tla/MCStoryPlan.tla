---------------------------- MODULE MCStoryPlan ----------------------------
EXTENDS StoryPlan, TLC

Node(kind, deps, volume, main) ==
  [kind |-> kind, deps |-> deps, volume |-> volume, main |-> main]

\* Versions of the volumes. A compile may store the last one, of which no chapter is left for a
\* volume; a save refuses it.
Drafted == {"drafted"}
Versions == {"drafted", "edited", "ragged"}
Chapters(start, end) == [start |-> start, end |-> end]
RangesOfOne ==
  [b \in Versions |-> 1 :> IF b = "ragged" THEN Chapters(13, 12) ELSE Chapters(1, 12)]
RangesOfTwo == [b \in Drafted |-> 1 :> Chapters(1, 6) @@ 2 :> Chapters(7, 12)]

\* An anchor and the end it leads to.
OneVolume == {1 :> Node("NORMAL", {}, 1, TRUE) @@ 2 :> Node("ENDING", {1}, 1, FALSE)}

\* A main anchor and the checkpoint of its volume, a main anchor of the next volume behind
\* both, and the end.
TwoVolumes ==
  {1 :> Node("NORMAL", {}, 1, TRUE) @@ 2 :> Node("CHECKPOINT", {1}, 1, FALSE)
     @@ 3 :> Node("NORMAL", {1, 2}, 2, TRUE) @@ 4 :> Node("ENDING", {2, 3}, 2, FALSE)}
============================================================================
