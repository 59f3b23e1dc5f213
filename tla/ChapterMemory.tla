--------------------------- MODULE ChapterMemory ---------------------------
(***************************************************************************)
(* How a chapter reaches the graph: extract_chapter_artifacts asks for its *)
(* entities and its memory at once, then for relations in batches, then    *)
(* for those between events; _validation_gate_with_retries checks them and *)
(* asks again about those it cannot align; run_extraction_gate moves what  *)
(* a human or the plan identifies; run_state_updater turns the result into *)
(* mutations, against the part of the graph the narrator of the chapter    *)
(* may see; apply_mutations writes them. One chapter follows another, and  *)
(* a human may save the plan meanwhile, which replaces the cast.           *)
(* Of the graph only nodes and LOCATED_IN edges are kept: they alone have  *)
(* a life cycle. Events of earlier chapters are left out.                  *)
(***************************************************************************)
EXTENDS LlmClient, RelationGate

CONSTANTS
  Seeded,            \* the nodes of the graph before the first chapter
  Narrators,         \* characters a chapter may be told by (pov_character_id)
  Cast,              \* the characters of the stored plan
  Batches,           \* names of the relation requests that run in parallel
  EntityReplies,     \* what the models may answer: sequences of candidates,
  RelationReplies,   \*   sequences of relations,
  Patches,           \*   pairs of ends
  Found,             \* what the text search of the fallback may find
  Remaps,            \* what is identified with what after the extraction
  Mandatory,         \* planned nodes the chapter has to have
  MaxAlignRetries,   \* extraction_relation_align_retry_max
  MaxChapters,       \* bound on the chapters that are written
  MaxTroubles,       \* bound on failed writes and saves of the plan, taken together
  Store              \* which GraphStore: "memory" or "neo4j"

ASSUME MemoryAssumption ==
  /\ Seeded \cup Narrators \cup Cast \subseteq Ids
  /\ Batches \cap {"entity", "memory", "second", "repair"} = {}
  /\ Found \subseteq SUBSET (Seeded \cup Events)
  /\ EntityReplies \subseteq Seq(Candidates) /\ RelationReplies \subseteq Seq(Relations)
  /\ Patches \subseteq Ids \X Ids /\ \A to \in Remaps : \A n \in DOMAIN to : to[n] \in Ids
  /\ MaxAlignRetries \in Nat /\ MaxChapters \in Nat /\ MaxTroubles \in Nat
  /\ Store \in {"memory", "neo4j"}

VARIABLES
  stage,      \* what the chapter's thread works on
  calls,      \* the requests it waits for
  narrator,   \* pov_character_id
  known,      \* the nodes of the graph when the extraction read it
  found,      \* what the fallback finds in the text
  entities,   \* the entities of the chapter
  merged,     \* relations as they come in; later, the batch before the gate
  kept,       \* relations the gate has passed
  rounds,     \* align_retry_attempts
  remap,      \* the identifications the extraction gate applied: entities keeps the names
  mutations,  \* what state_updater asks the store to write
  nodes, located,            \* the graph: nodes, and LOCATED_IN edges by their two ends
  chapter, failures,         \* chapters committed, writes that failed
  saves,                     \* plans saved
  blind                      \* a chapter moved somebody whose place its narrator could not see

extraction == <<known, found, entities, merged, kept, rounds, remap>>
graph == <<nodes, located>>
counts == <<chapter, failures, saves>>
vars == <<stage, calls, narrator, extraction, mutations, graph, counts, blind>>

Jobs == {"entity", "memory", "second", "repair"} \cup Batches
NoCalls == [j \in Jobs |-> Idle]
Invoke(jobs) == [j \in Jobs |-> IF j \in jobs THEN Invoked ELSE Idle]
AllEnded(jobs) == \A j \in jobs : Ended(calls[j])

Unmoved == [n \in {} |-> n]
Fresh ==
  /\ known' = {} /\ found' = {} /\ entities' = {} /\ merged' = <<>> /\ kept' = <<>>
  /\ rounds' = 0 /\ remap' = Unmoved

Init ==
  /\ stage = "idle" /\ calls = NoCalls
  /\ narrator \in Narrators /\ known = {} /\ found = {}
  /\ entities = {} /\ merged = <<>> /\ kept = <<>> /\ rounds = 0 /\ remap = Unmoved
  /\ mutations = <<>>
  /\ nodes = Seeded /\ located = [e \in {} |-> e]
  /\ chapter = 0 /\ failures = 0 /\ saves = 0 /\ blind = FALSE

(***************************************************************************)
(* Entities, memory and relations                                          *)
(***************************************************************************)

\* The entity and the memory request run in two threads.
BeginExtraction ==
  /\ stage = "idle" /\ chapter < MaxChapters
  /\ narrator' \in Narrators
  /\ known' = nodes
  /\ stage' = "entities" /\ calls' = Invoke({"entity", "memory"})
  /\ UNCHANGED <<found, entities, merged, kept, rounds, remap, mutations, graph, counts, blind>>

\* An answer to the request of a job, its content read when it is valid.
Answered(job, answer) ==
  /\ UnderWay(calls[job])
  /\ calls' = [calls EXCEPT ![job] = After(@, answer)]
Silent(job) == \E answer \in AnswersOf(calls[job]) \ {"valid"} : Answered(job, answer)

EntityCall ==
  /\ \/ /\ Answered("entity", "valid")
        /\ \E reply \in EntityReplies : entities' = Canonicalized(reply, known)
     \/ /\ Silent("entity")
        /\ UNCHANGED entities
  /\ UNCHANGED <<stage, narrator, known, found, merged, kept, rounds, remap, mutations, graph, counts, blind>>

\* The memory of the chapter goes to the vector store.
MemoryCall ==
  /\ \E answer \in AnswersOf(calls["memory"]) : Answered("memory", answer)
  /\ UNCHANGED <<stage, narrator, extraction, mutations, graph, counts, blind>>

\* No answer, or one without entities: those the text search finds. The characters it knows by
\* name only have no id and resolve to nothing.
BeginRelations ==
  /\ stage = "entities" /\ AllEnded({"entity", "memory"})
  /\ found' \in Found
  /\ entities' = IF entities = {} THEN found' ELSE entities
  /\ entities' # {}
  /\ stage' = "relations" /\ calls' = Invoke(Batches)
  /\ UNCHANGED <<narrator, known, merged, kept, rounds, remap, mutations, graph, counts, blind>>

\* Without any entity no relation is asked for: the text search finds none either, or is not
\* made because there was an answer, of which nothing was in the scope of the chapter. (That such
\* an answer may also be taken for an empty one is more than the code does.)
NoEntities ==
  /\ stage = "entities" /\ AllEnded({"entity", "memory"})
  /\ entities = {} /\ ({} \in Found \/ calls["entity"] = Returned)
  /\ stage' = "gate" /\ calls' = NoCalls
  /\ UNCHANGED <<narrator, extraction, mutations, graph, counts, blind>>

\* The batches are merged in the order in which they come in.
RelationCall(job) ==
  /\ \/ /\ Answered(job, "valid")
        /\ \E reply \in RelationReplies : merged' = merged \o reply
     \/ /\ Silent(job)
        /\ UNCHANGED merged
  /\ UNCHANGED <<stage, narrator, known, found, entities, kept, rounds, remap, mutations, graph, counts, blind>>

\* The second phase asks once for what joins the events; the first stays in calls.
BeginSecondPhase ==
  /\ stage = "relations" /\ AllEnded(Batches) /\ calls["second"] = Idle
  /\ calls' = [calls EXCEPT !["second"] = Invoked]
  /\ UNCHANGED <<stage, narrator, extraction, mutations, graph, counts, blind>>

\* _fallback_extract: the planner's links between the events it found, and the first place
\* it found, by its name, for every character.
Linked(kind, pairs) ==
  SetToSeq({Relation(kind, ById(p[1]), ById(p[2]), TRUE) : p \in {q \in pairs : {q[1], q[2]} \subseteq found}})
Places == {n \in Ids : NodeType[n] = "LOCATION"}
Characters == {n \in Ids : NodeType[n] \in People}
Scene == CHOOSE p \in found \cap Places : TRUE
Present ==
  IF found \cap Places = {} THEN <<>>
  ELSE SetToSeq({Relation("LOCATED_IN", ById(c), ByName(Scene), FALSE) : c \in found \cap Characters})
FallbackRelations ==
  Linked("HAPPENED_BEFORE", Temporal) \o Linked("CAUSED", Causal) \o Present

\* The fallback relations only if every request of both phases failed.
BothPhasesFailed == \A j \in Batches \cup {"second"} : calls[j] = Raised
EndRelations ==
  /\ stage = "relations" /\ AllEnded(Batches \cup {"second"})
  /\ merged' = IF BothPhasesFailed THEN FallbackRelations ELSE Deduped(merged)
  /\ stage' = "gate" /\ calls' = NoCalls
  /\ UNCHANGED <<narrator, known, found, entities, kept, rounds, remap, mutations, graph, counts, blind>>

(***************************************************************************)
(* The validation gate                                                     *)
(***************************************************************************)

Gate ==
  LET misaligned == Misaligned(merged, known, entities)
      passed == kept \o Valid(merged, known, entities)
      again == misaligned # <<>> /\ rounds < MaxAlignRetries
  IN /\ stage = "gate"
     /\ kept' = IF again THEN passed ELSE Deduped(passed)
     /\ merged' = IF again THEN misaligned ELSE <<>>
     /\ stage' = IF again THEN "repair" ELSE "extracted"
     /\ calls' = IF again THEN Invoke({"repair"}) ELSE NoCalls
     /\ UNCHANGED <<narrator, known, found, entities, rounds, remap, mutations, graph, counts, blind>>

\* Mutant: a repair is not counted.
RepairedForFree ==
  /\ Answered("repair", "valid")
  /\ \E patch \in [DOMAIN merged -> Patches \cup {<<Nowhere, Nowhere>>}] :
       merged' = [i \in DOMAIN merged |-> Patched(merged[i], patch[i], Allowed(known, entities))]
  /\ stage' = "gate"
  /\ UNCHANGED <<narrator, known, found, entities, kept, rounds, remap, mutations, graph, counts, blind>>
\* A repair answers for any of the misaligned relations.
Repaired ==
  /\ Answered("repair", "valid")
  /\ \E patch \in [DOMAIN merged -> Patches \cup {<<Nowhere, Nowhere>>}] :
       merged' = [i \in DOMAIN merged |-> Patched(merged[i], patch[i], Allowed(known, entities))]
  /\ rounds' = rounds + 1 /\ stage' = "gate"
  /\ UNCHANGED <<narrator, known, found, entities, kept, remap, mutations, graph, counts, blind>>

\* A repair that raises takes the whole extraction with it.
RepairFails ==
  /\ Silent("repair")
  /\ IF calls'["repair"] = Raised
       THEN /\ stage' = "idle" /\ Fresh
       ELSE UNCHANGED <<stage, extraction>>
  /\ UNCHANGED <<narrator, mutations, graph, counts, blind>>

(***************************************************************************)
(* extraction_gate and state_updater                                       *)
(***************************************************************************)

Moved(to, n) == IF n \in DOMAIN to THEN to[n] ELSE n
MovedRelation(to, r) ==
  [r EXCEPT !.src = ById(Moved(to, r.src.of)), !.dst = ById(Moved(to, r.dst.of))]

\* remap_planned_entities after the identifications a human made.
Identified(to) == {Moved(to, n) : n \in entities}
\* validate_mandatory_planned_nodes
Missing(to) == Mandatory \ Identified(to)

\* Without a mandatory node the draft is rewritten (R6).
ExtractionGate ==
  /\ stage = "extracted"
  /\ \E to \in Remaps :
       IF Missing(to) = {}
         THEN /\ remap' = to
              /\ kept' = [i \in DOMAIN kept |-> MovedRelation(to, kept[i])]
              /\ known' = {} /\ found' = {} /\ rounds' = 0
              /\ stage' = "pending"
              /\ UNCHANGED <<entities, merged>>
         ELSE stage' = "idle" /\ Fresh
  /\ UNCHANGED <<calls, narrator, mutations, graph, counts, blind>>

\* _resolve_extracted_entities: an entity whose id is not in the graph and whose name is goes
\* back to the node of that name, and its id, with the relations it has, to one that did.
Resolved(n) == IF Moved(remap, n) \in nodes \/ n \notin nodes THEN Moved(remap, n) ELSE n
ResolvedEntities == {Resolved(n) : n \in entities}
Undone == Identified(remap) \ ResolvedEntities
Undoings == {back \in [Undone -> nodes] : \A id \in Undone : \E n \in entities :
               Moved(remap, n) = id /\ Resolved(n) = back[id]}

\* query_context: open edges the narrator may see. Neo4j returns of them only what lies near
\* the words of the directive.
Visible == {e \in DOMAIN located : located[e].open /\ narrator \in located[e].seers}
Snapshots == IF Store = "neo4j" THEN SUBSET Visible ELSE {Visible}

\* _resolve_epistemic_audience
Audience(r) ==
  IF r.public THEN Narrators ELSE ({r.src.of, r.dst.of} \cup {narrator}) \cap Narrators

Upsert(ns) == [op |-> "upsert", nodes |-> ns]
Retire(e) == [op |-> "retire", edge |-> e]
Create(r) ==
  [op |-> "create", kind |-> r.kind, edge |-> <<r.src.of, r.dst.of>>, seers |-> Audience(r)]

\* Mutant: the new place is not registered.
PlacedOnly(acc, r) ==
  LET e == <<r.src.of, r.dst.of>>
      left == {f \in acc.open : f[1] = e[1] /\ f # e}
  IN [list |-> acc.list \o SetToSeq({Retire(f) : f \in left}) \o <<Create(r)>>, open |-> acc.open \ left]
\* _build_location_transition_mutations, _register_active_location_edge: who is placed leaves
\* the other places that are known to be open, and is known to be at the new one alone.
Placed(acc, r) ==
  LET e == <<r.src.of, r.dst.of>>
      left == {f \in acc.open : f[1] = e[1] /\ f # e}
  IN [list |-> acc.list \o SetToSeq({Retire(f) : f \in left}) \o <<Create(r)>>,
      open |-> {f \in acc.open : f[1] # e[1]} \cup {e}]
Related(acc, r) ==
  IF r.kind = "LOCATED_IN" THEN Placed(acc, r) ELSE [acc EXCEPT !.list = Append(@, Create(r))]

\* _build_relation_mutation: what cannot be an edge is dropped.
IsEdge(r) ==
  /\ {r.src.of, r.dst.of} \subseteq nodes \cup ResolvedEntities \cup {narrator}
  /\ r.src.of # r.dst.of
  /\ DirectionValid(r.kind, r.src.of, r.dst.of)
EdgesOf(seen, relations) ==
  FoldLeft(LAMBDA acc, r : IF IsEdge(r) THEN Related(acc, r) ELSE acc,
           [list |-> <<>>, open |-> seen], relations).list

\* _rewrite_relation_endpoints_after_entity_resolve
Rewritten(back) == [i \in DOMAIN kept |-> MovedRelation(back, kept[i])]

StateUpdater ==
  /\ stage = "pending"
  /\ \E seen \in Snapshots, back \in Undoings :
       LET edges == EdgesOf(seen, Rewritten(back))
           places == {edges[i].edge : i \in {j \in DOMAIN edges : /\ edges[j].op = "create"
                                                                   /\ edges[j].kind = "LOCATED_IN"}}
       IN /\ mutations' = <<Upsert(ResolvedEntities)>> \o edges
          /\ blind' = (blind \/ \E e \in places, f \in DOMAIN located \ seen :
                                   f[1] = e[1] /\ located[f].open)
  /\ stage' = "writing" /\ Fresh
  /\ UNCHANGED <<calls, narrator, graph, counts>>

(***************************************************************************)
(* apply_mutations                                                         *)
(***************************************************************************)

Edge(l, e, open, seers) ==
  [f \in DOMAIN l \cup {e} |-> IF f = e THEN [open |-> open, seers |-> seers] ELSE l[f]]

\* The memory store replaces an edge. Neo4j merges the attributes into the one that is there,
\* and those of a new edge name no end.
Stored(l, m) ==
  Edge(l, m.edge, Store = "neo4j" /\ m.edge \in DOMAIN l => l[m.edge].open, m.seers)

\* Neo4j joins only nodes that are there; the memory store does not look.
Joins(m, ns) == Store = "neo4j" => {m.edge[1], m.edge[2]} \subseteq ns
Wrote(l, m, ns) ==
  CASE m.op = "upsert" -> l
    [] m.op = "retire" -> IF Joins(m, ns) THEN Edge(l, m.edge, FALSE, {}) ELSE l
    [] m.op = "create" -> IF m.kind = "LOCATED_IN" /\ Joins(m, ns) THEN Stored(l, m) ELSE l
Upserted == nodes \cup mutations[1].nodes
Written(list) == FoldLeft(LAMBDA l, m : Wrote(l, m, Upserted), located, list)

Apply ==
  /\ stage = "writing"
  /\ LET l == Written(mutations)
     IN located' = [e \in {f \in DOMAIN l : f[1] \notin Events} |-> l[e]]
  /\ nodes' = Upserted \ Events
  /\ chapter' = chapter + 1
  /\ stage' = "idle" /\ mutations' = <<>>
  /\ UNCHANGED <<calls, narrator, extraction, failures, saves, blind>>

\* Neo4j writes statement by statement; the commit fails and the chapter is run again.
ApplyFails ==
  /\ stage = "writing" /\ failures + saves < MaxTroubles
  /\ \E done \in 0..Len(mutations) - 1 :
       /\ located' = Written(SubSeq(mutations, 1, done))
       /\ nodes' = IF done > 0 THEN Upserted ELSE nodes
  /\ failures' = failures + 1
  /\ stage' = "idle" /\ mutations' = <<>>
  /\ UNCHANGED <<calls, narrator, extraction, chapter, saves, blind>>

\* replace_cast_characters_and_apply_mutations: characters that are not of the cast go, and
\* what joins them. A save while the models work is as one behind them, for nothing they
\* work on reads the graph again.
SavePlan ==
  /\ stage \in {"idle", "pending", "writing"} /\ failures + saves < MaxTroubles
  /\ LET gone == {n \in nodes \ Cast : NodeType[n] = "CHARACTER"}
         left == {e \in DOMAIN located : {e[1], e[2]} \cap gone = {}}
     IN /\ nodes' = (nodes \ gone) \cup Cast
        /\ located' = [e \in left |-> located[e]]
  /\ saves' = saves + 1
  /\ UNCHANGED <<stage, calls, narrator, extraction, mutations, chapter, failures, blind>>

\* extract_chapter_artifacts: its own thread, and those that wait for a model.
Thread(job) ==
  CASE job = "entity" -> EntityCall
    [] job = "memory" -> MemoryCall
    [] job \in Batches \cup {"second"} -> RelationCall(job)
    [] job = "repair" -> Repaired \/ RepairFails
Extracting ==
  \/ BeginRelations \/ NoEntities \/ BeginSecondPhase \/ EndRelations \/ Gate
  \/ \E job \in Jobs : Thread(job)

Next ==
  \/ BeginExtraction \/ Extracting
  \/ ExtractionGate \/ StateUpdater \/ Apply \/ ApplyFails \/ SavePlan
Spec == Init /\ [][Next]_vars
\* Something of an extraction that was begun goes on: no request waits for ever, as each has a
\* time-out. Each of its steps changes the stage or a call.
FairSpec == Spec /\ WF_<<stage, calls>>(Extracting)

(***************************************************************************)
(* Properties                                                              *)
(***************************************************************************)

Mutations ==
  [op : {"upsert"}, nodes : SUBSET Ids] \cup [op : {"retire"}, edge : Ids \X Ids]
    \cup [op : {"create"}, kind : EdgeTypes, edge : Ids \X Ids, seers : SUBSET Narrators]

\* Every variable keeps to the values the code can give it; no call repairs its JSON and no
\* extraction its relations more often than the settings allow.
TypeOK ==
  /\ stage \in {"idle", "entities", "relations", "gate", "repair", "extracted", "pending", "writing"}
  /\ \A j \in Jobs : calls[j] \in Calls
  /\ narrator \in Narrators /\ known \cup found \subseteq Ids /\ entities \subseteq Ids /\ Identified(remap) \subseteq Ids
  /\ ToSet(merged) \cup ToSet(kept) \subseteq Relations
  /\ rounds \in 0..MaxAlignRetries
  /\ ToSet(mutations) \subseteq Mutations
  /\ nodes \subseteq Ids /\ DOMAIN located \subseteq Ids \X Ids
  /\ \A e \in DOMAIN located : located[e] \in [open : BOOLEAN, seers : SUBSET Narrators]
  /\ chapter \in 0..MaxChapters /\ failures + saves \in 0..MaxTroubles /\ blind \in BOOLEAN

\* The validation gate, however its answers, repairs and fallbacks mix: what it lets through
\* joins two different known nodes the way their types allow, once, and two events of the
\* planner only as it planned; those of a chapter whose write failed are in the graph already,
\* and the gate checks them only where they were extracted again.
Leftovers == known \cap Events
KeptRelationsAreSound ==
  stage = "extracted" =>
    /\ \A i, j \in DOMAIN kept : Key(kept[i]) = Key(kept[j]) => i = j
    /\ \A r \in ToSet(kept) :
         /\ r.src.of # r.dst.of /\ {r.src.of, r.dst.of} \subseteq known \cup entities
         /\ DirectionValid(r.kind, r.src.of, r.dst.of)
         /\ {r.src.of, r.dst.of} \subseteq Events \ (Invented \cup Leftovers)
              => AsPlanned(r.kind, r.src.of, r.dst.of)

\* extract_chapter_artifacts: an extraction that was begun ends, in a result or in an error,
\* as every request ends.
ExtractionEnds == (stage = "entities") ~> (stage \in {"idle", "extracted"})

\* The retirement of LOCATED_IN edges: nobody is in two places at once, whatever the order of
\* the relations and wherever a write stops, unless a chapter moved somebody whose place its
\* narrator could not see.
OnePlaceAtATime ==
  ~blind => \A e, f \in {g \in DOMAIN located : located[g].open} : e[1] = f[1] => e = f

\* test_query_context_hides_ended_located_in_edge: after a move the new place is the open one.
MovedToTheNewPlace ==
  [][stage = "writing" /\ chapter' > chapter =>
       \A n \in nodes' \ Events :
         LET moves == SelectSeq(mutations, LAMBDA m : /\ m.op = "create"
                                                      /\ m.kind = "LOCATED_IN"
                                                      /\ m.edge[1] = n)
         IN moves # <<>> => located'[moves[Len(moves)].edge].open]_vars

\* agent_workflow: the characters a plan no longer has are cleared from the graph; a save
\* takes nobody from it whom a chapter has brought in.
SaveClearsOnlyTheCast == [][saves' > saves => nodes \subseteq nodes' \cup Cast]_vars
=============================================================================
