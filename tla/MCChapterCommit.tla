--------------------------- MODULE MCChapterCommit ---------------------------
(* Small instances of ChapterCommit for TLC. *)
EXTENDS ChapterCommit

CONSTANTS c1, c2, r1, r2, a1, a2

\* Two runs of the same chapter (start_run_chapter only refuses a completed one), each of
\* which resolved an anchor of its own.
MCChapterOf == [c \in Commits |-> 1]
MCResolvedAnchors == [c \in Commits |-> IF c = c1 THEN {a1} ELSE {a2}]
=============================================================================
