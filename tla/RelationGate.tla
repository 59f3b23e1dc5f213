---------------------------- MODULE RelationGate ----------------------------
(***************************************************************************)
(* What the validation gate of the extraction (extraction.py) does with    *)
(* the relations the models return, as operators. An endpoint is given by  *)
(* the id of a node or by the name of one; what an id or a name is spelt   *)
(* like, and the figurative wording the gate also looks for, are left out. *)
(***************************************************************************)
EXTENDS Naturals, FiniteSets, Sequences, SequencesExt

CONSTANTS
  Ids,               \* what a model may name: nodes, and things that are no node
  NodeType,          \* the type of each
  Nowhere,           \* no node
  Worldly,           \* the concepts that are more than words of the chapter
  Events,            \* the events the planner gave the chapter
  Invented,          \* those of them that are inventions of a model
  Causal, Temporal   \* the planner's links between them, as pairs

ASSUME GateAssumption ==
  /\ IsFiniteSet(Ids) /\ Nowhere \notin Ids /\ Worldly \subseteq Ids
  /\ Events \subseteq Ids /\ Invented \subseteq Events
  /\ \A e \in Events : NodeType[e] = "EVENT"
  /\ Causal \subseteq Events \X Events /\ Temporal \subseteq Events \X Events

ById(n) == [by |-> "id", of |-> n]
ByName(n) == [by |-> "name", of |-> n]
Endpoints == [by : {"id", "name"}, of : Ids]

Relation(kind, src, dst, public) == [kind |-> kind, src |-> src, dst |-> dst, public |-> public]
EdgeTypes ==
  {"LOCATED_IN", "HAS_ITEM", "HAS_RELATION", "PARTICIPATED_IN", "IS_ACTUALLY", "HAS_ATTRIBUTE",
   "BELIEVED_AS", "KNOWS_ABOUT", "BELONGS_TO_EPOCH", "HAPPENED_BEFORE", "CAUSED", "ENFORCED_IN",
   "RESTRICTS", "EXEMPT_FROM"}
Relations == [kind : EdgeTypes, src : Endpoints, dst : Endpoints, public : BOOLEAN]
Candidates == [suggests : Ids \cup {Nowhere}, names : Ids]

\* The elements of a list that stand at some places of it, in their order.
Picked(list, places) ==
  MapThenFoldSet(LAMBDA x, picked : Append(picked, x), <<>>, LAMBDA i : list[i], Max, places)

\* _filter_entity_candidates_by_scope
InScope(candidates) ==
  LET Worth(c) == NodeType[c.names] = "CONCEPT" => c.names \in Worldly
  IN Picked(candidates, {i \in DOMAIN candidates : Worth(candidates[i])})

\* canonicalize_entity_candidates: a candidate suggests an id and bears the name of a thing.
\* It is the node of the graph it points at, else the planner's event it suggests unless an
\* earlier candidate did, else a node of its own.
Canonical(c, existing, seen) ==
  CASE c.suggests \in existing -> c.suggests
    [] c.suggests \notin existing /\ c.names \in existing -> c.names
    [] {c.suggests, c.names} \cap existing = {} ->
         IF c.suggests \in Events \ seen THEN c.suggests ELSE c.names
Canonicalized(candidates, existing) ==
  FoldLeft(LAMBDA seen, c : seen \cup {Canonical(c, existing, seen)}, {}, InScope(candidates))

\* relation_direction_is_valid; the kinds of relation that are not listed may join anything.
People == {"CHARACTER", "PERSONA"}
Directions ==
  [HAS_ITEM         |-> <<People \cup {"LOCATION"}, {"ITEM"}>>,
   LOCATED_IN       |-> <<People \cup {"ITEM", "EVENT"}, {"LOCATION"}>>,
   PARTICIPATED_IN  |-> <<People, {"EVENT"}>>,
   BELONGS_TO_EPOCH |-> <<{"EVENT"}, {"EPOCH"}>>,
   CAUSED           |-> <<{"EVENT"}, {"EVENT"}>>,
   ENFORCED_IN      |-> <<{"RULE"}, {"LOCATION", "EPOCH"}>>,
   RESTRICTS        |-> <<{"RULE"}, People \cup {"ITEM", "CONCEPT"}>>,
   EXEMPT_FROM      |-> <<{"RULE"}, People>>]

DirectionValid(kind, src, dst) ==
  kind \in DOMAIN Directions =>
    NodeType[src] \in Directions[kind][1] /\ NodeType[dst] \in Directions[kind][2]

\* _resolve_relation_endpoint: an id must be in the graph or extracted, a name extracted.
Resolve(e, existing, entities) ==
  IF \/ e.by = "id" /\ e.of \in existing \cup entities
     \/ e.by = "name" /\ e.of \in entities
    THEN e.of ELSE Nowhere

AlignFails(r, existing, entities) ==
  LET src == Resolve(r.src, existing, entities)
      dst == Resolve(r.dst, existing, entities)
  IN Nowhere \in {src, dst} \/ src = dst

\* Two extracted events of the planner follow each other only as it planned, unless one of
\* them is an invention.
AsPlanned(kind, src, dst) ==
  /\ kind = "CAUSED" => <<src, dst>> \in Causal
  /\ kind = "HAPPENED_BEFORE" => <<src, dst>> \in Temporal
Unplanned(kind, src, dst, entities) ==
  /\ {src, dst} \subseteq entities \cap Events
  /\ {src, dst} \cap Invented = {}
  /\ ~AsPlanned(kind, src, dst)

\* Mutant: what the planner did not plan passes.
RefusesTypesOnly(kind, src, dst, entities) ==
  \/ ~DirectionValid(kind, src, dst)
  \/ kind = "HAS_ATTRIBUTE" /\ NodeType[dst] # "CONCEPT"
Refuses(kind, src, dst, entities) ==
  \/ ~DirectionValid(kind, src, dst)
  \/ Unplanned(kind, src, dst, entities)
  \/ kind = "HAS_ATTRIBUTE" /\ NodeType[dst] # "CONCEPT"

\* _partition_relations_validation: the relations that cannot be aligned are asked about
\* again, of the others those are kept, by id, that nothing refuses.
Misaligned(batch, existing, entities) ==
  Picked(batch, {i \in DOMAIN batch : AlignFails(batch[i], existing, entities)})

Aligned(r, existing, entities) ==
  [r EXCEPT !.src = ById(Resolve(r.src, existing, entities)),
            !.dst = ById(Resolve(r.dst, existing, entities))]

Valid(batch, existing, entities) ==
  LET byId == [i \in DOMAIN batch |-> Aligned(batch[i], existing, entities)]
      Passes(r) == ~Refuses(r.kind, r.src.of, r.dst.of, entities)
  IN Picked(byId, {i \in DOMAIN batch : /\ ~AlignFails(batch[i], existing, entities)
                                        /\ Passes(byId[i])})

\* _dedupe_extracted_relations: of two that join the same ends in the same way, the first.
Key(r) == <<r.src, r.kind, r.dst>>
Deduped(relations) ==
  Picked(relations, {i \in DOMAIN relations :
                       \A j \in 1..i - 1 : Key(relations[j]) # Key(relations[i])})

\* _invoke_relation_align_repair: the nodes the prompt lists; the answer may give a misaligned
\* relation two ends; they are taken if both are listed and they differ.
Allowed(existing, entities) == entities \cup existing
Patched(r, patch, allowed) ==
  IF patch[1] \in allowed /\ patch[2] \in allowed /\ patch[1] # patch[2]
    THEN [r EXCEPT !.src = ById(patch[1]), !.dst = ById(patch[2])] ELSE r
=============================================================================
