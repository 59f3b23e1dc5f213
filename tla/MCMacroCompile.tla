---------------------------- MODULE MCMacroCompile ----------------------------
EXTENDS MacroCompile

Draft(start, end, words, anchors) ==
  [start |-> start, end |-> end, words |-> words, anchors |-> anchors]

\* Drafts out of order and overlapping, with a gap and words for one volume only, beyond the
\* end of the story, and one volume short.
DraftedVolumes ==
  {<<Draft(6, 3, 7, 1), Draft(1, 8, 5, 2), Draft(4, 20, 1, 3)>>,
   <<Draft(2, 3, 9, 3), Draft(6, 7, 0, 3), Draft(9, 9, 0, 3)>>,
   <<Draft(1, 30, 1, 3), Draft(2, 30, 1, 3), Draft(40, 50, 1, 3)>>,
   <<Draft(1, 6, 0, 3), Draft(7, 12, 0, 3)>>}

Hint(tier, volume) == [tier |-> tier, volume |-> volume]

\* Two volume arcs for one volume, two beats pinned to it, one to another, and hints without
\* a volume or for one there is not.
Subplots ==
  <<Hint("S", 0), Hint("A", 0), Hint("A", 2), Hint("A", 2), Hint("B", 2), Hint("B", 0),
    Hint("B", 3), Hint("B", 2), Hint("B", 9)>>
=============================================================================
