-------------------------- MODULE MCChapterMemory --------------------------
EXTENDS ChapterMemory

\* Two characters, two places, an event the planner links to another, a stranger of whom only
\* the chapter knows, one the planner has just thought of, and an idea that is only a word.
Type == [hero |-> "CHARACTER", rival |-> "CHARACTER", city |-> "LOCATION", port |-> "LOCATION",
         duel |-> "EVENT", escape |-> "EVENT", masked |-> "CHARACTER", lord |-> "CHARACTER",
         luck |-> "CONCEPT"]
Nodes == DOMAIN Type
Planned == {<<"duel", "escape">>}

Candidate(n) == [suggests |-> n, names |-> n]
EntityAnswers ==
  {<<Candidate("hero"), Candidate("luck"), Candidate("duel"), Candidate("escape")>>,
   <<[suggests |-> Nowhere, names |-> "hero"], Candidate("duel"), [suggests |-> "duel", names |-> "masked"]>>}

At(who, place) == Relation("LOCATED_IN", who, place, FALSE)
RelationAnswers ==
  {<<At(ById("hero"), ById("port")), At(ByName("masked"), ById("port"))>>,
   <<At(ById("hero"), ById("city")), Relation("CAUSED", ById("escape"), ById("duel"), TRUE),
     At(ById("city"), ById("hero"))>>}

Ends == {<<"hero", "city">>}
Searches == {{}, {"hero", "city", "duel", "escape"}}
Identities == {[n \in {"masked"} |-> "hero"], [n \in {"hero"} |-> "lord"]}
=============================================================================
