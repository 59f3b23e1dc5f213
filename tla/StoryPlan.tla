------------------------------ MODULE StoryPlan ------------------------------
(***************************************************************************)
(* The plan of a story and everyone who writes it: the compile in the      *)
(* background, a human who edits the plot DAG, and the run of a chapter    *)
(* that resolves anchors and commits them.  They share one row of stories  *)
(* (skeleton, runtime, bible and cast), the cast in the graph store, and   *)
(* the chapters that are completed.                                        *)
(***************************************************************************)
EXTENDS AnchorPlan

CONSTANTS Ids,          \* anchors a plan may have
          Volumes,
          CompiledPlans,\* plans a compile may come up with
          Fresh,        \* ids of anchors humans add
          Bibles,       \* versions of bible, volumes, storylines and cast
          Ranges,       \* the chapters the volumes of each version begin and end with
          NoBible,      \* the version of a story that was never compiled
          MaxChapters,  \* bound on the chapters that are written
          MaxSaves,     \* bound on the saves of a human
          MaxSelected,  \* two in the code
          Compilers,    \* background tasks of macro compiles
          Overlap,      \* whether compiles, saves and runs of the story overlap
          Crashes       \* whether the process may stop

ASSUME PlanAssumption ==
  /\ Ids \subseteq Nat /\ IsFiniteSet(Ids) /\ Fresh \subseteq Ids
  /\ \A p \in CompiledPlans :
       /\ DOMAIN p \subseteq Ids /\ ValidNodes(p, Volumes)
       /\ p \in [DOMAIN p -> NodeRecords(Ids, Volumes)]
  /\ Volumes \subseteq Nat \ {0} /\ Volumes # {}
  /\ MaxChapters \in Nat /\ MaxSaves \in Nat
ASSUME BibleAssumption ==
  /\ NoBible \notin Bibles
  /\ Ranges \in [Bibles -> [Volumes -> [start : Nat, end : Nat]]]

VARIABLES
  skeleton,      \* stories.anchor_nodes_json
  resolved,      \* story_runtime_json.resolved_anchors
  frozen,        \* bible_json, volumes, storylines_json, cast_json, protagonist
  graphCast,     \* the version of the cast whose characters are in the graph store
  completed,     \* how many chapters have status completed
  compileStatus, \* stories.macro_compile_status
  compiler,      \* what each background task is about to do
  saves,         \* how often a human asked for a save
  editor,        \* the snapshot a human edits, and the request that saves it
  run,           \* the chapter run
  raced,         \* somebody wrote the story while another held what it had read of it
  torn,          \* a plan was stored and its cast never reached the graph
  orphaned,      \* a compile ended without leaving a status
  careless       \* an anchor was aimed at, or declared resolved, before it was unlocked

story == <<skeleton, resolved, frozen>>
form == <<saves, editor>>
ghosts == <<raced, torn, orphaned, careless>>
vars == <<skeleton, resolved, frozen, graphCast, completed, compileStatus,
          compiler, saves, editor, run, raced, torn, orphaned, careless>>

NoPlan == [n \in {} |-> 0]
Stages == {"planning", "writing", "paused", "asking", "rewriting", "reading", "ending",
           "runtime", "topology"}
Idle == [stage |-> "none"]
Closed == [at |-> "none"]

Init ==
  /\ skeleton = NoPlan /\ resolved = {} /\ saves = 0
  /\ frozen = NoBible /\ graphCast = NoBible /\ completed = 0
  /\ compileStatus = "IDLE"
  /\ compiler = [c \in Compilers |-> Closed]
  /\ editor = Closed /\ run = Idle
  /\ raced = FALSE /\ torn = FALSE /\ orphaned = FALSE /\ careless = FALSE

(***************************************************************************)
(* Races.  A compile holds what it checked until its plan is stored and    *)
(* its cast written, a save what it was shown, a run the plan it started   *)
(* with.                                                                   *)
(***************************************************************************)
CompilerHolds(c) == compiler[c].at \in {"compiling", "stored"}
EditorHolds == editor.at \in {"accepted", "stored"}
RunHolds == run.stage # "none"

CompilerWrites(c) ==
  raced' = (raced \/ EditorHolds \/ RunHolds \/ \E d \in Compilers \ {c} : CompilerHolds(d))
EditorWrites == raced' = (raced \/ RunHolds \/ \E c \in Compilers : CompilerHolds(c))
RunWrites == raced' = (raced \/ EditorHolds \/ \E c \in Compilers : CompilerHolds(c))

\* Whether a writer may start: any time, or only while nobody else is at work.
MayStart ==
  Overlap \/ ~(EditorHolds \/ RunHolds \/ \E c \in Compilers : compiler[c] # Closed)

(***************************************************************************)
(* Macro compile                                                           *)
(***************************************************************************)

\* Mutant: the update has no condition.
TryBeginUnconditionally == compileStatus \in {"IDLE", "SUCCEEDED", "FAILED", "RUNNING"}

\* The compare-and-set that is the lock.
TryBegin == compileStatus \in {"IDLE", "SUCCEEDED", "FAILED"}

BeginCompile(c) ==
  /\ compiler[c] = Closed /\ completed = 0 /\ TryBegin /\ MayStart
  /\ compileStatus' = "RUNNING"
  /\ compiler' = [compiler EXCEPT ![c] = [at |-> "scheduled"]]
  /\ UNCHANGED <<story, graphCast, completed, form, run, ghosts>>

\* Mutant: the check the request has made is not made again.
MacroCompileUnchecked(c) ==
  /\ compiler[c].at = "scheduled"
  /\ compiler' = [compiler EXCEPT ![c] = [at |-> "compiling"]]
  /\ UNCHANGED <<story, graphCast, completed, compileStatus, form, run, ghosts>>

\* The background task looks at the chapters again before it asks the models.
MacroCompile(c) ==
  /\ compiler[c].at = "scheduled"
  /\ compiler' = [compiler EXCEPT ![c] = [at |-> IF completed = 0 THEN "compiling" ELSE "failed"]]
  /\ UNCHANGED <<story, graphCast, completed, compileStatus, form, run, ghosts>>

\* One transaction over the row: an anchor is resolved when the payload says so.
StoreSnapshot(nodes, claims, bible) ==
  /\ skeleton' = nodes
  /\ resolved' = ((resolved \cap DOMAIN nodes) \ (DOMAIN nodes \ claims)) \cup claims
  /\ frozen' = bible

StoreCompiled(c) ==
  /\ compiler[c].at = "compiling"
  /\ \E p \in CompiledPlans, b \in Bibles \ {frozen} :
       /\ StoreSnapshot(p, {}, b)
       /\ compiler' = [compiler EXCEPT ![c] = [at |-> "stored", bible |-> b]]
  /\ CompilerWrites(c)
  /\ UNCHANGED <<graphCast, completed, compileStatus, form, run, torn, orphaned, careless>>

ReplaceCast(c) ==
  /\ compiler[c].at = "stored"
  /\ graphCast' = compiler[c].bible
  /\ compiler' = [compiler EXCEPT ![c] = [at |-> "succeeded"]]
  /\ torn' = FALSE
  /\ CompilerWrites(c)
  /\ UNCHANGED <<story, completed, compileStatus, form, run, orphaned, careless>>

\* Mutant: a compile that fails is tried again, for as long as it fails.
CompileRetries(c) ==
  /\ CompilerHolds(c)
  /\ compiler' = [compiler EXCEPT ![c] = [at |-> "scheduled"]]
  /\ torn' = (torn \/ compiler[c].at = "stored")
  /\ UNCHANGED <<story, graphCast, completed, compileStatus, form, run, raced, orphaned, careless>>

CompileRaises(c) ==
  /\ CompilerHolds(c)
  /\ compiler' = [compiler EXCEPT ![c] = [at |-> "failed"]]
  /\ torn' = (torn \/ compiler[c].at = "stored")
  /\ UNCHANGED <<story, graphCast, completed, compileStatus, form, run, raced, orphaned, careless>>

\* Whatever the status is by then.
FinishCompile(c) ==
  /\ compiler[c].at \in {"succeeded", "failed"}
  /\ compileStatus' = IF compiler[c].at = "succeeded" THEN "SUCCEEDED" ELSE "FAILED"
  /\ compiler' = [compiler EXCEPT ![c] = Closed]
  /\ UNCHANGED <<story, graphCast, completed, form, run, ghosts>>

FinishRaises(c) ==
  /\ compiler[c].at \in {"succeeded", "failed"}
  /\ compiler' = [compiler EXCEPT ![c] = Closed]
  /\ orphaned' = TRUE
  /\ UNCHANGED <<story, graphCast, completed, compileStatus, form, run, raced, torn, careless>>

CompilerStep(c) ==
  \/ MacroCompile(c) \/ StoreCompiled(c) \/ ReplaceCast(c)
  \/ CompileRaises(c) \/ FinishCompile(c) \/ FinishRaises(c)

(***************************************************************************)
(* Editing the plan                                                        *)
(***************************************************************************)

\* What get_macro_snapshot shows: the nodes with their derived statuses.
GetSnapshot ==
  /\ editor = Closed /\ skeleton # NoPlan /\ saves < MaxSaves
  /\ editor' = [at |-> "editing", nodes |-> skeleton, bible |-> frozen,
                claims |-> Derived(skeleton, resolved) \cap DOMAIN skeleton]
  /\ UNCHANGED <<saves, story, graphCast, completed, compileStatus, compiler, run, ghosts>>

Without(plan, n) ==
  [m \in DOMAIN plan \ {n} |-> [plan[m] EXCEPT !.deps = @ \ {n}]]
\* A new anchor between another one and the end.
With(plan, new, after) ==
  [m \in DOMAIN plan \cup {new} |->
     IF m = new THEN [plan[after] EXCEPT !.kind = "NORMAL", !.deps = {after}, !.main = FALSE]
     ELSE IF m \in Endings(plan) THEN [plan[m] EXCEPT !.deps = @ \cup {new}] ELSE plan[m]]

Edits(plan) ==
  {plan}
    \cup {Without(plan, n) : n \in DOMAIN plan \ Endings(plan)}
    \cup {With(plan, e[1], e[2]) : e \in (Fresh \ DOMAIN plan) \X (DOMAIN plan)}

\* Mutant: a resolved node has to be there, and may be edited.
UnderLockOfIds(nodes, claims, bible) ==
  /\ bible = frozen
  /\ \A n \in DOMAIN skeleton :
       IF n \in resolved THEN n \in DOMAIN nodes /\ n \in claims ELSE n \notin claims
  /\ claims \subseteq DOMAIN skeleton

\* The save of a story with a completed chapter: nothing but unresolved nodes may differ from
\* the snapshot taken now, and none of them may become resolved.
UnderCompletedLock(nodes, claims, bible) ==
  /\ bible = frozen
  /\ \A n \in DOMAIN skeleton :
       IF n \in resolved
       THEN n \in DOMAIN nodes /\ nodes[n] = skeleton[n] /\ n \in claims
       ELSE n \notin claims
  /\ claims \subseteq DOMAIN skeleton

Accepted(nodes, claims, bible) ==
  /\ ValidPlan(nodes, Ranges[bible])
  /\ completed > 0 => UnderCompletedLock(nodes, claims, bible)

InOrder(plan, done) == \A n \in done \cap DOMAIN plan : plan[n].deps \subseteq Derived(plan, done)

\* put_macro_plan up to its first write.  The main storyline is repaired first, and a node
\* that is repaired is locked again.
PutMacroPlan ==
  /\ editor.at = "editing" /\ MayStart
  /\ saves' = saves + 1
  /\ \E p \in Edits(editor.nodes), b \in Bibles :
     \E cl \in SUBSET (editor.claims \cap DOMAIN p) :
       LET body == Repair(p)
           claims == cl \ Repaired(p)
       IN  IF Accepted(body, claims, b)
           THEN /\ editor' = [at |-> "accepted", nodes |-> body, bible |-> b, claims |-> claims]
                /\ careless' = (careless \/ ~InOrder(body, claims))
           ELSE editor' = Closed /\ UNCHANGED careless
  /\ UNCHANGED <<story, graphCast, completed, compileStatus, compiler, run, raced, torn, orphaned>>

\* Mutant: a save of the plan leaves the graph store alone.
StoreEditedOnly ==
  /\ editor.at = "accepted"
  /\ StoreSnapshot(editor.nodes, editor.claims, editor.bible)
  /\ editor' = Closed
  /\ EditorWrites
  /\ UNCHANGED <<saves, graphCast, completed, compileStatus, compiler, run, torn, orphaned, careless>>

StoreEdited ==
  /\ editor.at = "accepted"
  /\ StoreSnapshot(editor.nodes, editor.claims, editor.bible)
  /\ editor' = [at |-> "stored", bible |-> editor.bible]
  /\ EditorWrites
  /\ UNCHANGED <<saves, graphCast, completed, compileStatus, compiler, run, torn, orphaned, careless>>

ReplaceCastEdited ==
  /\ editor.at = "stored"
  /\ graphCast' = editor.bible
  /\ editor' = Closed
  /\ torn' = FALSE
  /\ EditorWrites
  /\ UNCHANGED <<saves, story, completed, compileStatus, compiler, run, orphaned, careless>>

PutRaises ==
  /\ EditorHolds
  /\ editor' = Closed
  /\ torn' = (torn \/ editor.at = "stored")
  /\ UNCHANGED <<saves, story, graphCast, completed, compileStatus, compiler, run, raced, orphaned, careless>>

EditorStep == GetSnapshot \/ PutMacroPlan \/ StoreEdited \/ ReplaceCastEdited \/ PutRaises

(***************************************************************************)
(* The run of a chapter, as far as it reads and writes anchors             *)
(***************************************************************************)

Open(n, plan, done) == n \in Frontier(plan, done)
Aims(plan) == {S \in SUBSET DOMAIN plan : Cardinality(S) <= MaxSelected}

\* The state a run has of the anchors once it has read them.
Refreshed(r) ==
  [r EXCEPT !.nodes = skeleton,
            !.resolved = (IF @ = {} THEN resolved ELSE @) \cap DOMAIN skeleton]

Started(selected) ==
  Refreshed([stage |-> "planning", nodes |-> skeleton, resolved |-> {}, selected |-> selected])

\* A human may preselect up to two anchors and their successors.
StartRunChapter ==
  /\ run = Idle /\ completed < MaxChapters /\ MayStart
  /\ \E selected, next \in Aims(skeleton) :
       /\ Guardrails(skeleton, resolved \cap DOMAIN skeleton, selected, next)
       /\ run' = Started(selected)
       /\ careless' = (careless \/ \E n \in selected : ~Open(n, skeleton, resolved))
  /\ UNCHANGED <<story, graphCast, completed, compileStatus, compiler, form, raced, torn, orphaned>>

\* Without a human's selection the director's stands, whatever the model names; a run without
\* open candidates selects nothing.
Director ==
  /\ run.stage = "planning"
  /\ \E selected \in IF run.selected # {} THEN {run.selected} ELSE Aims(run.nodes) :
       /\ run' = [run EXCEPT !.stage = "writing", !.selected = selected]
       /\ careless' = (careless \/ \E n \in selected \ run.selected :
                                     ~(n \in DOMAIN run.nodes /\ Open(n, run.nodes, run.resolved)))
  /\ UNCHANGED <<story, graphCast, completed, compileStatus, compiler, form, raced, torn, orphaned>>

\* anchor_resolve: what is judged resolved is added; a judgement of little confidence asks a
\* human.  When the judge fails nothing is added, whatever the fallback writes of it.
AnchorResolve ==
  /\ run.stage = "writing"
  /\ \E verdict \in SUBSET run.selected, uncertain \in BOOLEAN :
       run' = [run EXCEPT !.resolved = @ \cup verdict,
                          !.stage = IF uncertain /\ run.selected # {} THEN "asking" ELSE "ending"]
  /\ UNCHANGED <<story, graphCast, completed, compileStatus, compiler, form, ghosts>>

\* force_resolve and continue_unresolved go on to the commit, delay_anchor and rewrite back to
\* the plan.
AnchorResolution ==
  /\ run.stage = "asking"
  /\ \/ \E forced \in Aims(run.nodes) :
          /\ run' = [run EXCEPT !.resolved = @ \cup forced, !.stage = "ending"]
          /\ careless' = (careless \/ ~(forced \subseteq run.resolved \cup run.selected))
     \/ /\ run' = [run EXCEPT !.stage = "planning"]
        /\ UNCHANGED careless
  /\ UNCHANGED <<story, graphCast, completed, compileStatus, compiler, form, raced, torn, orphaned>>

\* Any other pause before the anchors are judged.
Pause ==
  /\ run.stage = "writing"
  /\ run' = [run EXCEPT !.stage = "paused"]
  /\ UNCHANGED <<story, graphCast, completed, compileStatus, compiler, form, ghosts>>

\* abort_and_restart forgets the selection and what was resolved.
AbortAndRestart ==
  /\ run.stage \in {"paused", "asking"}
  /\ run' = Started({})
  /\ UNCHANGED <<story, graphCast, completed, compileStatus, compiler, form, ghosts>>

\* Mutant: the anchor belongs to no volume.
InjectedAnywhere(plan, new) ==
  [n \in DOMAIN plan \cup {new} |->
     IF n = new THEN [kind |-> "NORMAL", deps |-> {}, main |-> FALSE, volume |-> 0] ELSE plan[n]]

Injected(plan, new) ==
  [n \in DOMAIN plan \cup {new} |->
     IF n = new
     THEN [kind |-> "NORMAL", deps |-> {}, main |-> FALSE, volume |-> CHOOSE v \in Volumes : TRUE]
     ELSE plan[n]]

\* anchor_delay writes back the nodes it has read; state_injection adds an anchor that
\* depends on nothing and that nothing depends on.
Rewrite ==
  /\ run.stage \in {"paused", "asking"} /\ skeleton # NoPlan
  /\ \E new \in (Fresh \ DOMAIN skeleton) \cup {0} :
       run' = [run EXCEPT
                 !.stage = "rewriting",
                 !.nodes = IF new = 0 THEN skeleton
                           ELSE Injected(skeleton, new)]
  /\ UNCHANGED <<story, graphCast, completed, compileStatus, compiler, form, ghosts>>

UpdateTopology ==
  /\ run.stage = "rewriting"
  /\ skeleton' = run.nodes
  /\ run' = [run EXCEPT !.stage = "reading"]
  /\ RunWrites
  /\ UNCHANGED <<resolved, frozen, graphCast, completed, compileStatus, compiler,
                 form, torn, orphaned, careless>>

RefreshAnchors ==
  /\ run.stage = "reading"
  /\ run' = [Refreshed(run) EXCEPT !.stage = "planning"]
  /\ UNCHANGED <<story, graphCast, completed, compileStatus, compiler, form, ghosts>>

(***************************************************************************)
(* The commit of a chapter: the chapter, then the runtime, then the plan   *)
(***************************************************************************)
UpsertChapter ==
  /\ run.stage = "ending"
  /\ completed' = completed + 1
  /\ run' = [run EXCEPT
               !.stage = "runtime",
               !.resolved = MergeForCommit(resolved, run.resolved, DOMAIN skeleton),
               !.nodes = IF @ = NoPlan THEN skeleton ELSE @]
  /\ RunWrites
  /\ UNCHANGED <<story, graphCast, compileStatus, compiler, form, torn, orphaned, careless>>

UpdateRuntime ==
  /\ run.stage = "runtime"
  /\ resolved' = run.resolved
  /\ run' = [run EXCEPT !.stage = "topology"]
  /\ RunWrites
  /\ UNCHANGED <<skeleton, frozen, graphCast, completed, compileStatus, compiler, form,
                 torn, orphaned, careless>>

\* The run's nodes, however old they are.
UpdatePlanOfRun ==
  /\ run.stage = "topology"
  /\ skeleton' = run.nodes
  /\ run' = Idle
  /\ RunWrites
  /\ UNCHANGED <<resolved, frozen, graphCast, completed, compileStatus, compiler,
                 form, torn, orphaned, careless>>

RunRaises ==
  /\ run.stage \notin {"none", "paused", "asking"}
  /\ run' = Idle
  /\ UNCHANGED <<story, graphCast, completed, compileStatus, compiler, form, ghosts>>

RunStep ==
  \/ StartRunChapter \/ Director \/ AnchorResolve \/ AnchorResolution \/ Pause
  \/ AbortAndRestart \/ Rewrite \/ UpdateTopology \/ RefreshAnchors
  \/ UpsertChapter \/ UpdateRuntime \/ UpdatePlanOfRun \/ RunRaises

\* A stop of the process loses its threads and keeps what is stored, a waiting run among it.
Crash ==
  /\ Crashes
  /\ compiler' = [c \in Compilers |-> Closed]
  /\ editor' = Closed
  /\ run' = IF run.stage \in {"paused", "asking"} THEN run ELSE Idle
  /\ orphaned' = (orphaned \/ \E c \in Compilers : compiler[c] # Closed)
  /\ torn' = (torn \/ editor.at = "stored" \/ \E c \in Compilers : compiler[c].at = "stored")
  /\ UNCHANGED <<saves, story, graphCast, completed, compileStatus, raced, careless>>

Next ==
  \/ \E c \in Compilers : BeginCompile(c) \/ CompilerStep(c)
  \/ EditorStep \/ RunStep \/ Crash

Spec == Init /\ [][Next]_vars
FairSpec == Spec /\ \A c \in Compilers : WF_vars(CompilerStep(c))

(***************************************************************************)
(* Properties                                                              *)
(***************************************************************************)

IsPlan(p) == DOMAIN p \subseteq Ids /\ \A n \in DOMAIN p : p[n] \in NodeRecords(Ids, Volumes)

\* Every variable keeps to the values the code can give it.
TypeOK ==
  /\ IsPlan(skeleton) /\ resolved \subseteq Ids
  /\ frozen \in Bibles \cup {NoBible} /\ graphCast \in Bibles \cup {NoBible}
  /\ completed \in 0..MaxChapters
  /\ saves \in 0..MaxSaves /\ compileStatus \in {"IDLE", "RUNNING", "SUCCEEDED", "FAILED"}
  /\ \A c \in Compilers :
       compiler[c].at \in {"none", "scheduled", "compiling", "stored", "succeeded", "failed"}
  /\ editor.at \in {"none", "editing", "accepted", "stored"}
  /\ run # Idle =>
       /\ run.stage \in Stages /\ IsPlan(run.nodes)
       /\ run.resolved \cup run.selected \subseteq Ids
  /\ raced \in BOOLEAN /\ torn \in BOOLEAN /\ orphaned \in BOOLEAN /\ careless \in BOOLEAN

\* try_begin_macro_compile: at most one compile is under way, the status says RUNNING as long
\* as it is, and says so of no other moment unless the compile could not record its end.
Working == {c \in Compilers : compiler[c] # Closed}
CompileLockIsHeld ==
  /\ \A c, d \in Working : c = d
  /\ Working # {} => compileStatus = "RUNNING"
  /\ compileStatus = "RUNNING" /\ ~orphaned => Working # {}

\* put_macro_plan, macro_compile and the commits: what is stored as a plan has no cycle and
\* depends on nothing outside of it, however the writers interleave.
StoredPlanIsSound == Sound(skeleton)

\* recompute_anchor_unlocks, the lock on resolved nodes and the merge of a commit: when every
\* anchor was aimed at only once it was unlocked, no anchor is resolved before what it
\* depends on, through compiles, edits, commits and human decisions.
ResolvedInOrder == ~careless /\ ~raced => InOrder(skeleton, resolved)

\* The characters in the graph store are those of the stored cast, once a writer of both has
\* ended, failed or not, and nobody wrote in between.
CastIsOne ==
  ~raced /\ ~torn /\ editor.at # "stored" /\ (\A c \in Compilers : compiler[c].at # "stored")
    => graphCast = frozen

\* MacroPlanCompletedChapterLockError: once a chapter is completed, bible, volumes,
\* storylines and cast stay as they are, unless a writer had checked before.
CompletedStoryIsFrozen == [][completed > 0 /\ ~raced' => UNCHANGED frozen]_vars

\* An anchor a completed chapter resolved stays in the plan, with its dependencies, and stays
\* resolved.
ResolvedAnchorsSurvive ==
  [][completed > 0 /\ ~raced' =>
       /\ resolved \subseteq resolved'
       /\ \A n \in resolved \cap DOMAIN skeleton :
            n \in DOMAIN skeleton' /\ skeleton'[n] = skeleton[n]]_vars

\* A compile that was begun leaves RUNNING again, unless the process stops or its end cannot
\* be stored.
CompileEnds == compileStatus = "RUNNING" ~> (compileStatus # "RUNNING" \/ orphaned)
=============================================================================
