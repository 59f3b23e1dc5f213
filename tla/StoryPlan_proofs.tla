--------------------------- MODULE StoryPlan_proofs ---------------------------
(***************************************************************************)
(* Proofs about StoryPlan: the types, the compile lock, and what the       *)
(* writers of a story promise each other.  The lock is inductive by        *)
(* itself.  That a completed story is frozen rests on what each writer had *)
(* checked before it writes (Checked), that plan and graph have one cast   *)
(* on whose version waits for its second write (Pending), and that         *)
(* resolved anchors survive on what a save and a run hold of the plan      *)
(* (Held).  That the stored plan is sound rests on all the plans somebody  *)
(* may store (SoundOnes), and that anchors are resolved in order on all    *)
(* that is resolved, claimed or aimed at (Ordered).                        *)
(***************************************************************************)
EXTENDS StoryPlan, AnchorPlan_proofs

Plans == UNION {[D -> NodeRecords(Ids, Volumes)] : D \in SUBSET Ids}
Versions == Bibles \cup {NoBible}
CompilerStates ==
  [at : {"none", "scheduled", "compiling", "succeeded", "failed"}]
    \cup [at : {"stored"}, bible : Bibles]
EditorStates ==
  {Closed} \cup [at : {"editing", "accepted"}, nodes : Plans, bible : Versions, claims : SUBSET Ids]
    \cup [at : {"stored"}, bible : Versions]
Running == [stage : Stages, nodes : Plans, resolved : SUBSET Ids, selected : SUBSET Ids]
RunStates == {Idle} \cup Running

\* A chapter is counted once, by the run that was started below the bound; a save likewise.
Counted ==
  /\ run.stage \notin {"none", "runtime", "topology"} => completed < MaxChapters
  /\ editor.at = "editing" => saves < MaxSaves

TypeInv ==
  /\ skeleton \in Plans /\ resolved \in SUBSET Ids
  /\ frozen \in Versions /\ graphCast \in Versions
  /\ completed \in 0..MaxChapters /\ saves \in 0..MaxSaves
  /\ compileStatus \in {"IDLE", "RUNNING", "SUCCEEDED", "FAILED"}
  /\ compiler \in [Compilers -> CompilerStates]
  /\ editor \in EditorStates
  /\ run \in RunStates
  /\ Counted
  /\ raced \in BOOLEAN /\ torn \in BOOLEAN /\ orphaned \in BOOLEAN /\ careless \in BOOLEAN

\* Who is about to write a completed story has found it as it is, or somebody has raced.
Checked ==
  completed > 0 /\ ~raced =>
    /\ \A c \in Compilers : ~CompilerHolds(c)
    /\ editor.at = "accepted" => editor.bible = frozen

\* A version that waits for its cast is the stored one, unless somebody has raced.
Pending ==
  ~raced =>
    /\ \A c \in Compilers : compiler[c].at = "stored" => compiler[c].bible = frozen
    /\ editor.at = "stored" => editor.bible = frozen
-----------------------------------------------------------------------------
(* Plans stay plans. *)

LEMMA PlanIsPlan == ASSUME NEW p \in Plans PROVE IsPlan(p)
  BY DEF Plans, IsPlan

LEMMA PlanByNodes ==
  ASSUME NEW D \in SUBSET Ids, NEW p \in [D -> NodeRecords(Ids, Volumes)]
  PROVE  p \in Plans
  BY DEF Plans

LEMMA NoPlanIsPlan == NoPlan \in Plans
<1>1. NoPlan \in [{} -> NodeRecords(Ids, Volumes)]
  BY DEF NoPlan
<1> QED
  BY <1>1, PlanByNodes

LEMMA CompiledIsPlan == ASSUME NEW p \in CompiledPlans PROVE p \in Plans
<1>1. DOMAIN p \in SUBSET Ids /\ p \in [DOMAIN p -> NodeRecords(Ids, Volumes)]
  BY PlanAssumption
<1> QED
  BY <1>1, PlanByNodes

LEMMA NodesOfPlan ==
  ASSUME NEW p \in Plans
  PROVE  DOMAIN p \in SUBSET Ids /\ \A n \in DOMAIN p : p[n] \in NodeRecords(Ids, Volumes)
  BY DEF Plans

LEMMA OtherDeps ==
  ASSUME NEW r \in NodeRecords(Ids, Volumes), NEW d \in SUBSET Ids
  PROVE  [r EXCEPT !.deps = d] \in NodeRecords(Ids, Volumes)
  BY DEF NodeRecords

LEMMA NormalWith ==
  ASSUME NEW r \in NodeRecords(Ids, Volumes), NEW d \in SUBSET Ids
  PROVE  [r EXCEPT !.kind = "NORMAL", !.deps = d, !.main = FALSE] \in NodeRecords(Ids, Volumes)
  BY DEF NodeRecords, Kinds

LEMMA WithoutIsPlan ==
  ASSUME NEW p \in Plans, NEW n
  PROVE  Without(p, n) \in Plans
<1>1. \A m \in DOMAIN p \ {n} : p[m].deps \ {n} \in SUBSET Ids
  BY NodesOfPlan DEF NodeRecords
<1>2. \A m \in DOMAIN p \ {n} : [p[m] EXCEPT !.deps = p[m].deps \ {n}] \in NodeRecords(Ids, Volumes)
  BY <1>1, NodesOfPlan, OtherDeps
<1>3. Without(p, n) \in [DOMAIN p \ {n} -> NodeRecords(Ids, Volumes)]
  BY <1>2 DEF Without
<1> QED
  BY <1>3, PlanByNodes, NodesOfPlan

LEMMA WithIsPlan ==
  ASSUME NEW p \in Plans, NEW new \in Ids, NEW after \in DOMAIN p
  PROVE  With(p, new, after) \in Plans
<1>1. [p[after] EXCEPT !.kind = "NORMAL", !.deps = {after}, !.main = FALSE] \in NodeRecords(Ids, Volumes)
  BY NodesOfPlan, NormalWith
<1>2. \A m \in DOMAIN p : p[m].deps \cup {new} \in SUBSET Ids
  BY NodesOfPlan DEF NodeRecords
<1>3. \A m \in DOMAIN p : [p[m] EXCEPT !.deps = p[m].deps \cup {new}] \in NodeRecords(Ids, Volumes)
  BY <1>2, NodesOfPlan, OtherDeps
<1>4. With(p, new, after) \in [DOMAIN p \cup {new} -> NodeRecords(Ids, Volumes)]
  BY <1>1, <1>3, NodesOfPlan DEF With
<1> QED
  BY <1>4, PlanByNodes, NodesOfPlan

\* Whatever a human edits is a plan.
LEMMA EditsArePlans ==
  ASSUME NEW p \in Plans, NEW q \in Edits(p)
  PROVE  q \in Plans
<1>1. CASE q = p
  BY <1>1
<1>2. CASE \E n \in DOMAIN p \ Endings(p) : q = Without(p, n)
  BY <1>2, WithoutIsPlan
<1>3. CASE \E e \in (Fresh \ DOMAIN p) \X (DOMAIN p) : q = With(p, e[1], e[2])
  BY <1>3, WithIsPlan, PlanAssumption
<1> QED
  BY <1>1, <1>2, <1>3 DEF Edits

LEMMA LastMainIsNode == ASSUME NEW p, NEW v PROVE LastMainBefore(p, v) \subseteq DOMAIN p
  BY DEF LastMainBefore, LastOf, MainsOf

\* The repair of the main storyline changes dependencies only, to nodes of the plan.
LEMMA RepairIsPlan ==
  ASSUME NEW p \in Plans
  PROVE  Repair(p) \in Plans
<1>1. \A n \in DOMAIN p : p[n].deps \cup LastMainBefore(p, p[n].volume) \in SUBSET Ids
  BY NodesOfPlan, LastMainIsNode DEF NodeRecords
<1>2. \A n \in DOMAIN p :
        [p[n] EXCEPT !.deps = p[n].deps \cup LastMainBefore(p, p[n].volume)] \in NodeRecords(Ids, Volumes)
  BY <1>1, NodesOfPlan, OtherDeps
<1>3. Repair(p) \in [DOMAIN p -> NodeRecords(Ids, Volumes)]
  BY <1>2, NodesOfPlan DEF Repair
<1> QED
  BY <1>3, PlanByNodes, NodesOfPlan

LEMMA InjectedIsPlan ==
  ASSUME NEW p \in Plans, NEW new \in Ids
  PROVE  Injected(p, new) \in Plans
<1>1. (CHOOSE v \in Volumes : TRUE) \in Volumes
  BY PlanAssumption
<1>2. [kind |-> "NORMAL", deps |-> {}, main |-> FALSE, volume |-> CHOOSE v \in Volumes : TRUE]
        \in NodeRecords(Ids, Volumes)
  BY <1>1 DEF NodeRecords, Kinds
<1>3. Injected(p, new) \in [DOMAIN p \cup {new} -> NodeRecords(Ids, Volumes)]
  BY <1>2, NodesOfPlan DEF Injected
<1> QED
  BY <1>3, PlanByNodes, NodesOfPlan

LEMMA SnapshotIsTyped ==
  ASSUME resolved \in SUBSET Ids, NEW p \in Plans, NEW cl \in SUBSET Ids, NEW b \in Versions,
         StoreSnapshot(p, cl, b)
  PROVE  skeleton' \in Plans /\ resolved' \in SUBSET Ids /\ frozen' \in Versions
  BY DEF StoreSnapshot

LEMMA RefreshedIsTyped ==
  ASSUME skeleton \in Plans, resolved \in SUBSET Ids,
         NEW st \in Stages, NEW n \in Plans, NEW d \in SUBSET Ids, NEW s \in SUBSET Ids,
         NEW r, r = [stage |-> st, nodes |-> n, resolved |-> d, selected |-> s]
  PROVE  Refreshed(r) \in Running /\ Refreshed(r).stage = st
  BY DEF Refreshed, Running
-----------------------------------------------------------------------------
(* Type correctness *)

LEMMA InitTyped == Init => TypeInv
<1> SUFFICES ASSUME Init PROVE TypeInv
  OBVIOUS
<1>1. skeleton \in Plans
  BY NoPlanIsPlan DEF Init
<1>2. compiler \in [Compilers -> CompilerStates]
  BY DEF Init, Closed, CompilerStates
<1>3. completed \in 0..MaxChapters /\ saves \in 0..MaxSaves
  BY PlanAssumption DEF Init
<1> QED
  BY <1>1, <1>2, <1>3 DEF Init, TypeInv, Versions, EditorStates, RunStates, Idle, Closed, Counted

\* A compile moves from state to state and writes the plan, the cast or the status.
LEMMA CompileTyped ==
  ASSUME TypeInv, NEW c \in Compilers, BeginCompile(c) \/ CompilerStep(c)
  PROVE  TypeInv'
<1> USE DEF TypeInv
<1>1. ASSUME NEW st \in {"none", "scheduled", "compiling", "succeeded", "failed"}
      PROVE  [compiler EXCEPT ![c] = [at |-> st]] \in [Compilers -> CompilerStates]
  BY <1>1 DEF CompilerStates
<1>2. CASE BeginCompile(c)
  BY <1>1, <1>2 DEF BeginCompile, story, form, ghosts, Counted
<1>3. CASE MacroCompile(c)
  <2>1. compiler' \in [Compilers -> CompilerStates]
    BY <1>1, <1>3 DEF MacroCompile
  <2> QED
    BY <2>1, <1>3 DEF MacroCompile, story, form, ghosts, Counted
<1>4. CASE StoreCompiled(c)
  <2>1. PICK p \in CompiledPlans, b \in Bibles \ {frozen} :
          /\ StoreSnapshot(p, {}, b)
          /\ compiler' = [compiler EXCEPT ![c] = [at |-> "stored", bible |-> b]]
    BY <1>4 DEF StoreCompiled
  <2>2. skeleton' \in Plans /\ resolved' \in SUBSET Ids /\ frozen' \in Versions
    BY <2>1, CompiledIsPlan, SnapshotIsTyped DEF Versions
  <2>3. compiler' \in [Compilers -> CompilerStates]
    BY <2>1 DEF CompilerStates
  <2>4. raced' \in BOOLEAN
    BY <1>4 DEF StoreCompiled, CompilerWrites
  <2> QED
    BY <1>4, <2>2, <2>3, <2>4 DEF StoreCompiled, form, Counted
<1>5. CASE ReplaceCast(c)
  <2>1. compiler[c].bible \in Versions
    BY <1>5 DEF ReplaceCast, CompilerStates, Versions
  <2>2. compiler' \in [Compilers -> CompilerStates]
    BY <1>1, <1>5 DEF ReplaceCast
  <2>3. raced' \in BOOLEAN
    BY <1>5 DEF ReplaceCast, CompilerWrites
  <2> QED
    BY <1>5, <2>1, <2>2, <2>3 DEF ReplaceCast, story, form, Counted
<1>6. CASE CompileRaises(c)
  <2>1. compiler' \in [Compilers -> CompilerStates] /\ torn' \in BOOLEAN
    BY <1>1, <1>6 DEF CompileRaises
  <2> QED
    BY <1>6, <2>1 DEF CompileRaises, story, form, Counted
<1>7. CASE FinishCompile(c)
  <2>1. compiler' \in [Compilers -> CompilerStates]
    BY <1>1, <1>7 DEF FinishCompile, Closed
  <2> QED
    BY <1>7, <2>1 DEF FinishCompile, story, form, ghosts, Counted
<1>8. CASE FinishRaises(c)
  <2>1. compiler' \in [Compilers -> CompilerStates]
    BY <1>1, <1>8 DEF FinishRaises, Closed
  <2> QED
    BY <1>8, <2>1 DEF FinishRaises, story, form, Counted
<1> QED
  BY <1>2, <1>3, <1>4, <1>5, <1>6, <1>7, <1>8 DEF CompilerStep

\* A human's snapshot, edit and save.
LEMMA EditTyped == ASSUME TypeInv, EditorStep PROVE TypeInv'
<1> USE DEF TypeInv
<1>1. CASE GetSnapshot
  <2>1. Derived(skeleton, resolved) \cap DOMAIN skeleton \in SUBSET Ids
    BY NodesOfPlan
  <2>2. editor' \in EditorStates
    BY <1>1, <2>1 DEF GetSnapshot, EditorStates
  <2> QED
    BY <1>1, <2>2 DEF GetSnapshot, story, ghosts, Counted
<1>2. CASE PutMacroPlan
  <2>1. editor \in [at : {"editing", "accepted"}, nodes : Plans, bible : Versions, claims : SUBSET Ids]
    BY <1>2 DEF PutMacroPlan, EditorStates, Closed
  <2>2. PICK p \in Edits(editor.nodes), b \in Bibles :
          \E cl \in SUBSET (editor.claims \cap DOMAIN p) :
            \/ /\ editor' = [at |-> "accepted", nodes |-> Repair(p), bible |-> b,
                             claims |-> cl \ Repaired(p)]
               /\ careless' = (careless \/ ~InOrder(Repair(p), cl \ Repaired(p)))
            \/ editor' = Closed /\ UNCHANGED careless
    BY <1>2 DEF PutMacroPlan
  <2>3. Repair(p) \in Plans
        /\ \A cl \in SUBSET (editor.claims \cap DOMAIN p) : cl \ Repaired(p) \in SUBSET Ids
    BY <2>1, EditsArePlans, RepairIsPlan
  <2>4. /\ editor' \in EditorStates
        /\ editor'.at # "editing"
        /\ careless' \in BOOLEAN
    <3>1. CASE editor' = Closed /\ UNCHANGED careless
      BY <3>1 DEF EditorStates, Closed
    <3>2. ASSUME NEW cl \in SUBSET (editor.claims \cap DOMAIN p),
                 editor' = [at |-> "accepted", nodes |-> Repair(p), bible |-> b,
                            claims |-> cl \ Repaired(p)],
                 careless' = (careless \/ ~InOrder(Repair(p), cl \ Repaired(p)))
          PROVE  editor' \in EditorStates /\ editor'.at # "editing" /\ careless' \in BOOLEAN
      <4>1. cl \ Repaired(p) \in SUBSET Ids
        BY <2>3
      <4>2. editor' \in [at : {"editing", "accepted"}, nodes : Plans, bible : Versions, claims : SUBSET Ids]
        BY <2>3, <3>2, <4>1 DEF Versions
      <4>3. careless' \in BOOLEAN
        BY <3>2
      <4> QED
        BY <3>2, <4>2, <4>3 DEF EditorStates
    <3> QED
      BY <2>2, <3>1, <3>2
  <2>5. saves' \in 0..MaxSaves
    BY <1>2, PlanAssumption DEF PutMacroPlan, Counted
  <2> QED
    BY <1>2, <2>4, <2>5 DEF PutMacroPlan, story, Counted
<1>3. CASE StoreEdited
  <2>1. editor \in [at : {"editing", "accepted"}, nodes : Plans, bible : Versions, claims : SUBSET Ids]
    BY <1>3 DEF StoreEdited, EditorStates, Closed
  <2>2. skeleton' \in Plans /\ resolved' \in SUBSET Ids /\ frozen' \in Versions
    BY <1>3, <2>1, SnapshotIsTyped DEF StoreEdited
  <2>3. editor' \in EditorStates /\ raced' \in BOOLEAN
    BY <1>3, <2>1 DEF StoreEdited, EditorStates, EditorWrites
  <2> QED
    BY <1>3, <2>2, <2>3 DEF StoreEdited, Counted
<1>4. CASE ReplaceCastEdited
  <2>1. editor.bible \in Versions
    BY <1>4 DEF ReplaceCastEdited, EditorStates, Closed
  <2>2. editor' \in EditorStates /\ raced' \in BOOLEAN
    BY <1>4 DEF ReplaceCastEdited, EditorStates, EditorWrites
  <2> QED
    BY <1>4, <2>1, <2>2 DEF ReplaceCastEdited, story, Closed, Counted
<1>5. CASE PutRaises
  <2>1. editor' \in EditorStates /\ torn' \in BOOLEAN
    BY <1>5 DEF PutRaises, EditorStates
  <2> QED
    BY <1>5, <2>1 DEF PutRaises, story, Closed, Counted
<1> QED
  BY <1>1, <1>2, <1>3, <1>4, <1>5 DEF EditorStep

\* A run that is under way, with other values of the fields it may change.
LEMMA RunningWith ==
  ASSUME NEW r \in Running, NEW st \in Stages, NEW n \in Plans, NEW d \in SUBSET Ids, NEW s \in SUBSET Ids
  PROVE  /\ [r EXCEPT !.stage = st] \in Running
         /\ [r EXCEPT !.stage = st, !.nodes = n] \in Running
         /\ [r EXCEPT !.stage = st, !.selected = s] \in Running
         /\ [r EXCEPT !.resolved = d, !.stage = st] \in Running
         /\ [r EXCEPT !.stage = st, !.resolved = d, !.nodes = n] \in Running
  BY DEF Running

LEMMA RunIsUnderWay == ASSUME TypeInv, run.stage # "none" PROVE run \in Running
  BY DEF TypeInv, RunStates, Idle

LEMMA StartedIsTyped ==
  ASSUME TypeInv, NEW s \in SUBSET Ids
  PROVE  Started(s) \in Running /\ Started(s).stage = "planning"
  BY RefreshedIsTyped DEF TypeInv, Started, Stages

\* What a run aims at are nodes of a plan.
LEMMA AimsAreIds == ASSUME NEW p \in Plans, NEW S \in Aims(p) PROVE S \in SUBSET Ids
  BY NodesOfPlan DEF Aims

\* A run moves from stage to stage; only at its end it writes the story.
LEMMA RunTyped == ASSUME TypeInv, RunStep PROVE TypeInv'
<1> USE DEF TypeInv
<1>1. CASE StartRunChapter
  <2>1. PICK selected \in Aims(skeleton) :
          /\ run' = Started(selected)
          /\ careless' = (careless \/ \E n \in selected : ~Open(n, skeleton, resolved))
    BY <1>1 DEF StartRunChapter
  <2>2. run' \in Running /\ run'.stage = "planning"
    BY <2>1, AimsAreIds, StartedIsTyped
  <2>3. careless' \in BOOLEAN
    BY <2>1
  <2> QED
    BY <1>1, <2>2, <2>3 DEF StartRunChapter, story, form, RunStates, Counted
<1>2. CASE Director
  <2>1. run \in Running
    BY <1>2, RunIsUnderWay DEF Director
  <2>2. PICK selected \in IF run.selected # {} THEN {run.selected} ELSE Aims(run.nodes) :
          /\ run' = [run EXCEPT !.stage = "writing", !.selected = selected]
          /\ careless' = (careless \/ \E n \in selected \ run.selected :
                                        ~(n \in DOMAIN run.nodes /\ Open(n, run.nodes, run.resolved)))
    BY <1>2 DEF Director
  <2>3. selected \in SUBSET Ids
    BY <2>1, AimsAreIds DEF Running
  <2>4. run' \in Running
    BY <2>1, <2>2, <2>3, RunningWith DEF Stages
  <2>5. careless' \in BOOLEAN
    BY <2>2
  <2> QED
    BY <1>2, <2>4, <2>5 DEF Director, story, form, RunStates, Counted
<1>3. CASE AnchorResolve
  <2>1. run \in Running
    BY <1>3, RunIsUnderWay DEF AnchorResolve
  <2>2. PICK verdict \in SUBSET run.selected, st \in {"asking", "ending"} :
          run' = [run EXCEPT !.resolved = run.resolved \cup verdict, !.stage = st]
    BY <1>3 DEF AnchorResolve
  <2>3. run.resolved \cup verdict \in SUBSET Ids
    BY <2>1 DEF Running
  <2>4. run' \in Running
    BY <2>1, <2>2, <2>3, RunningWith DEF Stages
  <2> QED
    BY <1>3, <2>4 DEF AnchorResolve, story, form, ghosts, RunStates, Counted
<1>4. CASE AnchorResolution
  <2>1. run \in Running
    BY <1>4, RunIsUnderWay DEF AnchorResolution
  <2>2. CASE \E forced \in Aims(run.nodes) :
               /\ run' = [run EXCEPT !.resolved = @ \cup forced, !.stage = "ending"]
               /\ careless' = (careless \/ ~(forced \subseteq run.resolved \cup run.selected))
    <3>1. PICK forced \in Aims(run.nodes) :
            /\ run' = [run EXCEPT !.resolved = run.resolved \cup forced, !.stage = "ending"]
            /\ careless' = (careless \/ ~(forced \subseteq run.resolved \cup run.selected))
      BY <2>2
    <3>2. run.resolved \cup forced \in SUBSET Ids
      BY <2>1, AimsAreIds DEF Running
    <3>3. run' \in Running
      BY <2>1, <3>1, <3>2, RunningWith DEF Stages
    <3>4. careless' \in BOOLEAN
      BY <3>1
    <3> QED
      BY <1>4, <3>3, <3>4 DEF AnchorResolution, story, form, RunStates, Counted
  <2>3. CASE run' = [run EXCEPT !.stage = "planning"] /\ UNCHANGED careless
    <3>1. run' \in Running
      BY <2>1, <2>3, RunningWith DEF Stages
    <3> QED
      BY <1>4, <2>3, <3>1 DEF AnchorResolution, story, form, RunStates, Counted
  <2> QED
    BY <1>4, <2>2, <2>3 DEF AnchorResolution
<1>5. CASE Pause
  <2>1. run' \in Running
    BY <1>5, RunIsUnderWay, RunningWith DEF Pause, Stages
  <2> QED
    BY <1>5, <2>1 DEF Pause, story, form, ghosts, RunStates, Counted
<1>6. CASE AbortAndRestart
  <2>1. run' \in Running
    BY <1>6, StartedIsTyped DEF AbortAndRestart
  <2> QED
    BY <1>6, <2>1 DEF AbortAndRestart, story, form, ghosts, RunStates, Counted
<1>7. CASE Rewrite
  <2>1. PICK new \in (Fresh \ DOMAIN skeleton) \cup {0} :
          run' = [run EXCEPT !.stage = "rewriting",
                             !.nodes = IF new = 0 THEN skeleton ELSE Injected(skeleton, new)]
    BY <1>7 DEF Rewrite
  <2>2. (IF new = 0 THEN skeleton ELSE Injected(skeleton, new)) \in Plans
    BY InjectedIsPlan, PlanAssumption
  <2>3. run' \in Running
    BY <1>7, <2>1, <2>2, RunIsUnderWay, RunningWith DEF Rewrite, Stages
  <2> QED
    BY <1>7, <2>3 DEF Rewrite, story, form, ghosts, RunStates, Counted
<1>8. CASE UpdateTopology
  <2>1. run \in Running
    BY <1>8, RunIsUnderWay DEF UpdateTopology
  <2>2. run' \in Running
    BY <1>8, <2>1, RunningWith DEF UpdateTopology, Stages
  <2>3. skeleton' \in Plans
    BY <1>8, <2>1 DEF UpdateTopology, Running
  <2>4. raced' \in BOOLEAN
    BY <1>8 DEF UpdateTopology, RunWrites
  <2> QED
    BY <1>8, <2>2, <2>3, <2>4 DEF UpdateTopology, form, RunStates, Counted
<1>9. CASE RefreshAnchors
  <2>1. run \in Running
    BY <1>9, RunIsUnderWay DEF RefreshAnchors
  <2>2. Refreshed(run) \in Running
    BY <2>1, RefreshedIsTyped DEF Running
  <2>3. run' \in Running
    BY <1>9, <2>2, RunningWith DEF RefreshAnchors, Stages
  <2> QED
    BY <1>9, <2>3 DEF RefreshAnchors, story, form, ghosts, RunStates, Counted
<1>10. CASE UpsertChapter
  <2>1. run \in Running
    BY <1>10, RunIsUnderWay DEF UpsertChapter
  <2>2. MergeForCommit(resolved, run.resolved, DOMAIN skeleton) \in SUBSET Ids
    BY NodesOfPlan DEF MergeForCommit
  <2>3. PICK n \in Plans :
          run' = [run EXCEPT !.stage = "runtime",
                             !.resolved = MergeForCommit(resolved, run.resolved, DOMAIN skeleton),
                             !.nodes = n]
    BY <1>10, <2>1 DEF UpsertChapter, Running
  <2>4. run' \in Running
    BY <2>1, <2>2, <2>3, RunningWith DEF Stages
  <2>5. run'.stage = "runtime"
    BY <2>1, <2>3 DEF Running
  <2>6. completed' \in 0..MaxChapters
    BY <1>10, PlanAssumption DEF UpsertChapter, Counted
  <2>7. raced' \in BOOLEAN
    BY <1>10 DEF UpsertChapter, RunWrites
  <2> QED
    BY <1>10, <2>4, <2>5, <2>6, <2>7 DEF UpsertChapter, story, form, RunStates, Counted
<1>11. CASE UpdateRuntime
  <2>1. run \in Running
    BY <1>11, RunIsUnderWay DEF UpdateRuntime
  <2>2. run' \in Running
    BY <1>11, <2>1, RunningWith DEF UpdateRuntime, Stages
  <2>3. run'.stage = "topology" /\ resolved' \in SUBSET Ids
    BY <1>11, <2>1 DEF UpdateRuntime, Running
  <2>4. raced' \in BOOLEAN
    BY <1>11 DEF UpdateRuntime, RunWrites
  <2> QED
    BY <1>11, <2>2, <2>3, <2>4 DEF UpdateRuntime, form, RunStates, Counted
<1>12. CASE UpdatePlanOfRun
  <2>1. skeleton' \in Plans
    BY <1>12, RunIsUnderWay DEF UpdatePlanOfRun, Running
  <2>2. raced' \in BOOLEAN
    BY <1>12 DEF UpdatePlanOfRun, RunWrites
  <2> QED
    BY <1>12, <2>1, <2>2 DEF UpdatePlanOfRun, form, RunStates, Idle, Counted
<1>13. CASE RunRaises
  BY <1>13 DEF RunRaises, story, form, ghosts, RunStates, Idle, Counted
<1> QED
  BY <1>1, <1>2, <1>3, <1>4, <1>5, <1>6, <1>7, <1>8, <1>9, <1>10, <1>11, <1>12, <1>13 DEF RunStep

LEMMA CrashTyped == ASSUME TypeInv, Crash PROVE TypeInv'
<1> USE DEF TypeInv
<1>1. compiler' \in [Compilers -> CompilerStates]
  BY DEF Crash, CompilerStates, Closed
<1>2. editor' \in EditorStates /\ editor'.at # "editing"
  BY DEF Crash, EditorStates, Closed
<1>3. run' \in RunStates /\ (run' = run \/ run'.stage = "none")
  BY DEF Crash, RunStates, Idle
<1>4. orphaned' \in BOOLEAN /\ torn' \in BOOLEAN
  BY DEF Crash
<1> QED
  BY <1>1, <1>2, <1>3, <1>4 DEF Crash, story, Counted

LEMMA StutterTyped == ASSUME TypeInv, UNCHANGED vars PROVE TypeInv'
  BY DEF TypeInv, Counted, vars

LEMMA NextTyped == ASSUME TypeInv, [Next]_vars PROVE TypeInv'
  BY CompileTyped, EditTyped, RunTyped, CrashTyped, StutterTyped DEF Next

LEMMA TypesHold == Spec => []TypeInv
<1>1. Init => TypeInv
  BY InitTyped
<1>2. TypeInv /\ [Next]_vars => TypeInv'
  BY NextTyped
<1> QED
  BY <1>1, <1>2, PTL DEF Spec

LEMMA TypesSuffice == ASSUME TypeInv PROVE TypeOK
<1> USE DEF TypeInv
<1>1. IsPlan(skeleton) /\ resolved \subseteq Ids
  BY PlanIsPlan
<1>2. \A c \in Compilers :
        compiler[c].at \in {"none", "scheduled", "compiling", "stored", "succeeded", "failed"}
  BY DEF CompilerStates
<1>3. editor.at \in {"none", "editing", "accepted", "stored"}
  BY DEF EditorStates, Closed
<1>4. ASSUME run # Idle
      PROVE  run.stage \in Stages /\ IsPlan(run.nodes) /\ run.resolved \cup run.selected \subseteq Ids
  BY <1>4, PlanIsPlan DEF RunStates, Running
<1> QED
  BY <1>1, <1>2, <1>3, <1>4 DEF TypeOK, Versions

\* Every variable keeps to the values the code can give it, for any plans a compile comes up
\* with and any number of compiles, chapters and saves.
THEOREM TypeCorrect == Spec => []TypeOK
<1>1. TypeInv => TypeOK
  BY TypesSuffice
<1> QED
  BY <1>1, TypesHold, PTL
-----------------------------------------------------------------------------
(* The compile lock *)

LEMMA EditorLeavesCompiles == ASSUME EditorStep PROVE UNCHANGED <<compiler, compileStatus, orphaned>>
  BY DEF EditorStep, GetSnapshot, PutMacroPlan, StoreEdited, ReplaceCastEdited, PutRaises, ghosts

LEMMA RunLeavesCompiles == ASSUME RunStep PROVE UNCHANGED <<compiler, compileStatus, orphaned>>
  BY DEF RunStep, StartRunChapter, Director, AnchorResolve, AnchorResolution, Pause, AbortAndRestart,
         Rewrite, UpdateTopology, RefreshAnchors, UpsertChapter, UpdateRuntime, UpdatePlanOfRun,
         RunRaises, ghosts

\* A compile that is under way and goes on keeps the lock.
LEMMA GoingOnKeepsLock ==
  ASSUME TypeInv, CompileLockIsHeld, NEW c \in Compilers, compiler[c].at # "none",
         NEW s \in CompilerStates, s.at # "none", compiler' = [compiler EXCEPT ![c] = s],
         UNCHANGED <<compileStatus, orphaned>>
  PROVE  CompileLockIsHeld'
<1>1. Working' = Working
  BY DEF TypeInv, Working, Closed
<1> QED
  BY <1>1 DEF CompileLockIsHeld

LEMMA CompileKeepsLock ==
  ASSUME TypeInv, CompileLockIsHeld, NEW c \in Compilers, BeginCompile(c) \/ CompilerStep(c)
  PROVE  CompileLockIsHeld'
<1> USE DEF TypeInv
<1>1. CASE BeginCompile(c)
  <2>1. Working = {} /\ compileStatus' = "RUNNING"
    BY <1>1 DEF BeginCompile, TryBegin, CompileLockIsHeld
  <2>2. \A d \in Compilers \ {c} : compiler'[d] = Closed
    BY <1>1, <2>1 DEF BeginCompile, Working
  <2>3. compiler'[c] # Closed
    BY <1>1 DEF BeginCompile, Closed
  <2> QED
    BY <2>1, <2>2, <2>3 DEF CompileLockIsHeld, Working
<1>2. CASE MacroCompile(c)
  <2>1. PICK st \in {"compiling", "failed"} : compiler' = [compiler EXCEPT ![c] = [at |-> st]]
    BY <1>2 DEF MacroCompile
  <2> QED
    BY <1>2, <2>1, GoingOnKeepsLock DEF MacroCompile, ghosts, CompilerStates
<1>3. CASE StoreCompiled(c)
  <2>1. PICK b \in Bibles : compiler' = [compiler EXCEPT ![c] = [at |-> "stored", bible |-> b]]
    BY <1>3 DEF StoreCompiled
  <2> QED
    BY <1>3, <2>1, GoingOnKeepsLock DEF StoreCompiled, CompilerStates
<1>4. CASE ReplaceCast(c)
  BY <1>4, GoingOnKeepsLock DEF ReplaceCast, CompilerStates
<1>5. CASE CompileRaises(c)
  BY <1>5, GoingOnKeepsLock DEF CompileRaises, CompilerHolds, CompilerStates
<1>6. CASE FinishCompile(c)
  <2>1. compileStatus' # "RUNNING" /\ c \in Working
    BY <1>6 DEF FinishCompile, Working, Closed
  <2>2. Working' = {}
    BY <1>6, <2>1 DEF FinishCompile, CompileLockIsHeld, Working
  <2> QED
    BY <2>1, <2>2 DEF CompileLockIsHeld
<1>7. CASE FinishRaises(c)
  <2>1. c \in Working
    BY <1>7 DEF FinishRaises, Working, Closed
  <2>2. Working' = {}
    BY <1>7, <2>1 DEF FinishRaises, CompileLockIsHeld, Working
  <2> QED
    BY <1>7, <2>2 DEF FinishRaises, CompileLockIsHeld
<1> QED
  BY <1>1, <1>2, <1>3, <1>4, <1>5, <1>6, <1>7 DEF CompilerStep

LEMMA CrashKeepsLock == ASSUME TypeInv, CompileLockIsHeld, Crash PROVE CompileLockIsHeld'
<1>1. Working' = {}
  BY DEF Crash, Working
<1>2. orphaned' = (orphaned \/ Working # {}) /\ compileStatus' = compileStatus
  BY DEF Crash, Working
<1> QED
  BY <1>1, <1>2 DEF CompileLockIsHeld, TypeInv

\* The compare-and-set of try_begin_macro_compile lets one compile in, and the status says so,
\* however the compiles, the saves and the runs interleave, fail or stop.
THEOREM CompileLock == Spec => []CompileLockIsHeld
<1>1. Init => CompileLockIsHeld
  BY DEF Init, CompileLockIsHeld, Working, Closed
<1>2. TypeInv /\ CompileLockIsHeld /\ [Next]_vars => CompileLockIsHeld'
  <2> SUFFICES ASSUME TypeInv, CompileLockIsHeld, [Next]_vars PROVE CompileLockIsHeld'
    OBVIOUS
  <2>1. CASE UNCHANGED <<compiler, compileStatus, orphaned>>
    BY <2>1 DEF CompileLockIsHeld, Working
  <2> QED
    BY <2>1, CompileKeepsLock, CrashKeepsLock, EditorLeavesCompiles, RunLeavesCompiles DEF Next, vars
<1> QED
  BY <1>1, <1>2, TypesHold, PTL DEF Spec
-----------------------------------------------------------------------------
(* A completed story *)

\* Who writes takes note of those who hold what they have read.
LEMMA RacedStays ==
  ASSUME TypeInv, [Next]_vars
  PROVE  raced => raced'
<1> USE DEF TypeInv
<1>1. ASSUME NEW c \in Compilers, BeginCompile(c) \/ CompilerStep(c) PROVE raced => raced'
  BY <1>1 DEF CompilerStep, BeginCompile, MacroCompile, StoreCompiled, ReplaceCast, CompileRaises,
              FinishCompile, FinishRaises, CompilerWrites, ghosts
<1>2. CASE EditorStep
  BY <1>2 DEF EditorStep, GetSnapshot, PutMacroPlan, StoreEdited, ReplaceCastEdited, PutRaises,
              EditorWrites, ghosts
<1>3. CASE RunStep
  BY <1>3 DEF RunStep, StartRunChapter, Director, AnchorResolve, AnchorResolution, Pause,
              AbortAndRestart, Rewrite, UpdateTopology, RefreshAnchors, UpsertChapter, UpdateRuntime,
              UpdatePlanOfRun, RunRaises, RunWrites, ghosts
<1>4. CASE Crash
  BY <1>4 DEF Crash
<1> QED
  BY <1>1, <1>2, <1>3, <1>4 DEF Next, vars

\* Only a compile and a save write the bible, and only a commit completes a chapter; what a
\* run does otherwise is no business of theirs.
LEMMA RunLeavesTheRest ==
  ASSUME RunStep
  PROVE  /\ UNCHANGED <<frozen, graphCast, compiler, editor, torn>>
         /\ UpsertChapter \/ UNCHANGED completed
  BY DEF RunStep, StartRunChapter, Director, AnchorResolve, AnchorResolution, Pause, AbortAndRestart,
         Rewrite, UpdateTopology, RefreshAnchors, UpsertChapter, UpdateRuntime, UpdatePlanOfRun,
         RunRaises, story, form, ghosts

\* A chapter that is completed while somebody holds what he has checked is a race.
LEMMA RunKeepsChecked == ASSUME TypeInv, Checked, [Next]_vars, RunStep PROVE Checked'
<1>1. UNCHANGED <<frozen, compiler, editor>>
  BY RunLeavesTheRest
<1>2. CASE UpsertChapter
  <2>1. ~raced' => ~EditorHolds /\ \A c \in Compilers : ~CompilerHolds(c)
    BY <1>2 DEF UpsertChapter, RunWrites
  <2> QED
    BY <1>1, <2>1 DEF Checked, EditorHolds, CompilerHolds
<1>3. CASE UNCHANGED completed
  <2>1. raced => raced'
    BY RacedStays
  <2> QED
    BY <1>1, <1>3, <2>1 DEF Checked, CompilerHolds
<1> QED
  BY <1>2, <1>3, RunLeavesTheRest

LEMMA CompileKeepsChecked ==
  ASSUME TypeInv, Checked, NEW c \in Compilers, BeginCompile(c) \/ CompilerStep(c)
  PROVE  Checked'
<1> USE DEF TypeInv, Checked, CompilerHolds
<1>1. CASE BeginCompile(c)
  BY <1>1 DEF BeginCompile, story, form, ghosts
<1>2. CASE MacroCompile(c)
  BY <1>2 DEF MacroCompile, story, form, ghosts
<1>3. CASE StoreCompiled(c)
  BY <1>3 DEF StoreCompiled, CompilerWrites, form
<1>4. CASE ReplaceCast(c)
  BY <1>4 DEF ReplaceCast, CompilerWrites, story, form
<1>5. CASE CompileRaises(c)
  BY <1>5 DEF CompileRaises, story, form
<1>6. CASE FinishCompile(c)
  BY <1>6 DEF FinishCompile, Closed, story, form, ghosts
<1>7. CASE FinishRaises(c)
  BY <1>7 DEF FinishRaises, Closed, story, form
<1> QED
  BY <1>1, <1>2, <1>3, <1>4, <1>5, <1>6, <1>7 DEF CompilerStep

\* A save of a completed story is accepted with the bible as it is.
LEMMA EditKeepsChecked == ASSUME TypeInv, Checked, EditorStep PROVE Checked'
<1> USE DEF TypeInv, Checked, CompilerHolds
<1>1. CASE GetSnapshot
  BY <1>1 DEF GetSnapshot, story, ghosts
<1>2. CASE PutMacroPlan
  <2>1. completed > 0 /\ editor'.at = "accepted" => editor'.bible = frozen
    BY <1>2 DEF PutMacroPlan, Accepted, UnderCompletedLock, Closed
  <2> QED
    BY <1>2, <2>1 DEF PutMacroPlan, story
<1>3. CASE StoreEdited
  BY <1>3 DEF StoreEdited, StoreSnapshot, EditorWrites
<1>4. CASE ReplaceCastEdited
  BY <1>4 DEF ReplaceCastEdited, EditorWrites, Closed, story
<1>5. CASE PutRaises
  BY <1>5 DEF PutRaises, Closed, story
<1> QED
  BY <1>1, <1>2, <1>3, <1>4, <1>5 DEF EditorStep

LEMMA CrashKeepsChecked == ASSUME TypeInv, Checked, Crash PROVE Checked'
  BY DEF TypeInv, Checked, Crash, CompilerHolds, Closed, story

LEMMA CheckedHolds == Spec => []Checked
<1>1. Init => Checked
  BY DEF Init, Checked
<1>2. TypeInv /\ Checked /\ [Next]_vars => Checked'
  <2> SUFFICES ASSUME TypeInv, Checked, [Next]_vars PROVE Checked'
    OBVIOUS
  <2>1. CASE UNCHANGED vars
    BY <2>1 DEF Checked, CompilerHolds, vars
  <2> QED
    BY <2>1, CompileKeepsChecked, EditKeepsChecked, RunKeepsChecked, CrashKeepsChecked DEF Next
<1> QED
  BY <1>1, <1>2, TypesHold, PTL DEF Spec

LEMMA FrozenStep ==
  ASSUME TypeInv, Checked, [Next]_vars, completed > 0, ~raced'
  PROVE  UNCHANGED frozen
<1>1. ~raced
  BY RacedStays
<1>2. ASSUME NEW c \in Compilers, BeginCompile(c) \/ CompilerStep(c) PROVE UNCHANGED frozen
  <2>1. ~StoreCompiled(c)
    BY <1>1 DEF StoreCompiled, Checked, CompilerHolds
  <2> QED
    BY <1>2, <2>1 DEF CompilerStep, BeginCompile, MacroCompile, ReplaceCast, CompileRaises,
                      FinishCompile, FinishRaises, story
<1>3. CASE EditorStep
  BY <1>1, <1>3 DEF EditorStep, GetSnapshot, PutMacroPlan, StoreEdited, StoreSnapshot,
                    ReplaceCastEdited, PutRaises, Checked, story
<1>4. CASE RunStep
  BY <1>4, RunLeavesTheRest
<1>5. CASE Crash
  BY <1>5 DEF Crash, story
<1> QED
  BY <1>2, <1>3, <1>4, <1>5 DEF Next, vars

\* macro_compile and put_macro_plan with a completed chapter: bible, volumes, storylines and
\* cast change only where a writer had checked before somebody else wrote.
THEOREM FrozenOnceCompleted == Spec => CompletedStoryIsFrozen
<1>1. TypeInv /\ Checked /\ [Next]_vars => [completed > 0 /\ ~raced' => UNCHANGED frozen]_vars
  BY FrozenStep
<1> QED
  BY <1>1, TypesHold, CheckedHolds, PTL DEF Spec, CompletedStoryIsFrozen
-----------------------------------------------------------------------------
(* One cast *)

\* The version of a second write is the stored one, and where no second write is due or was
\* missed, the graph has the cast of the plan.
OneCast == Pending /\ CastIsOne

LEMMA CompileKeepsCast ==
  ASSUME TypeInv, OneCast, NEW c \in Compilers, BeginCompile(c) \/ CompilerStep(c)
  PROVE  OneCast'
<1> USE DEF TypeInv, OneCast, Pending, CastIsOne
<1>1. CASE BeginCompile(c)
  BY <1>1 DEF BeginCompile, Closed, story, form, ghosts
<1>2. CASE MacroCompile(c)
  BY <1>2 DEF MacroCompile, story, form, ghosts
<1>3. CASE StoreCompiled(c)
  <2>1. PICK b \in Bibles :
          compiler' = [compiler EXCEPT ![c] = [at |-> "stored", bible |-> b]] /\ frozen' = b
    BY <1>3 DEF StoreCompiled, StoreSnapshot
  <2>2. ~raced' => editor.at # "stored" /\ \A d \in Compilers \ {c} : compiler[d].at # "stored"
    BY <1>3 DEF StoreCompiled, CompilerWrites, EditorHolds, CompilerHolds
  <2> QED
    BY <1>3, <2>1, <2>2 DEF StoreCompiled, form
<1>4. CASE ReplaceCast(c)
  BY <1>4 DEF ReplaceCast, CompilerWrites, story, form
<1>5. CASE CompileRaises(c)
  BY <1>5 DEF CompileRaises, story, form
<1>6. CASE FinishCompile(c)
  BY <1>6 DEF FinishCompile, Closed, story, form, ghosts
<1>7. CASE FinishRaises(c)
  BY <1>7 DEF FinishRaises, Closed, story, form
<1> QED
  BY <1>1, <1>2, <1>3, <1>4, <1>5, <1>6, <1>7 DEF CompilerStep

LEMMA EditKeepsCast == ASSUME TypeInv, OneCast, EditorStep PROVE OneCast'
<1> USE DEF TypeInv, OneCast, Pending, CastIsOne
<1>1. CASE GetSnapshot
  BY <1>1 DEF GetSnapshot, Closed, story, ghosts
<1>2. CASE PutMacroPlan
  <2>1. editor'.at # "stored" /\ editor.at # "stored"
    BY <1>2 DEF PutMacroPlan, Closed
  <2> QED
    BY <1>2, <2>1 DEF PutMacroPlan, story
<1>3. CASE StoreEdited
  <2>1. ~raced' => \A c \in Compilers : compiler[c].at # "stored"
    BY <1>3 DEF StoreEdited, EditorWrites, CompilerHolds
  <2> QED
    BY <1>3, <2>1 DEF StoreEdited, StoreSnapshot
<1>4. CASE ReplaceCastEdited
  BY <1>4 DEF ReplaceCastEdited, EditorWrites, Closed, story
<1>5. CASE PutRaises
  BY <1>5 DEF PutRaises, Closed, story
<1> QED
  BY <1>1, <1>2, <1>3, <1>4, <1>5 DEF EditorStep

LEMMA RunKeepsCast == ASSUME TypeInv, OneCast, [Next]_vars, RunStep PROVE OneCast'
<1>1. UNCHANGED <<frozen, graphCast, compiler, editor, torn>> /\ (raced => raced')
  BY RunLeavesTheRest, RacedStays
<1> QED
  BY <1>1 DEF OneCast, Pending, CastIsOne

LEMMA CrashKeepsCast == ASSUME TypeInv, OneCast, Crash PROVE OneCast'
  BY DEF TypeInv, OneCast, Pending, CastIsOne, Crash, Closed, story

\* macro_compile and put_macro_plan write the plan and then the characters of its cast: unless
\* somebody wrote in between, or the second write was missed, both stores have one cast.
THEOREM StoresHaveOneCast == Spec => []CastIsOne
<1>1. Init => OneCast
  BY DEF Init, OneCast, Pending, CastIsOne, Closed
<1>2. TypeInv /\ OneCast /\ [Next]_vars => OneCast'
  <2> SUFFICES ASSUME TypeInv, OneCast, [Next]_vars PROVE OneCast'
    OBVIOUS
  <2>1. CASE UNCHANGED vars
    BY <2>1 DEF OneCast, Pending, CastIsOne, vars
  <2> QED
    BY <2>1, CompileKeepsCast, EditKeepsCast, RunKeepsCast, CrashKeepsCast DEF Next
<1>3. OneCast => CastIsOne
  BY DEF OneCast
<1> QED
  BY <1>1, <1>2, <1>3, TypesHold, PTL DEF Spec
-----------------------------------------------------------------------------
(* What is resolved stays resolved *)

\* While nobody races, what a writer holds is the plan as it is: a save was accepted against
\* it, and a run has its nodes, or those and one more.
AcceptedHeld ==
  editor.at = "accepted" =>
    /\ editor.claims \subseteq DOMAIN editor.nodes
    /\ completed > 0 => UnderCompletedLock(editor.nodes, editor.claims, editor.bible)
RunHeld ==
  /\ run.stage \notin {"none", "rewriting"} => run.nodes = skeleton
  /\ run.stage = "rewriting" => Extends(skeleton, run.nodes)
  /\ run.stage = "runtime" => resolved \subseteq run.resolved /\ run.resolved \subseteq DOMAIN skeleton
Held == ~raced => resolved \subseteq DOMAIN skeleton /\ AcceptedHeld /\ RunHeld

LEMMA CompileKeepsHeld ==
  ASSUME TypeInv, Held, NEW c \in Compilers, BeginCompile(c) \/ CompilerStep(c)
  PROVE  Held'
<1> USE DEF TypeInv
<1>1. CASE StoreCompiled(c)
  <2>1. PICK p \in CompiledPlans : skeleton' = p /\ resolved' = (resolved \cap DOMAIN p) \ (DOMAIN p \ {})
    BY <1>1 DEF StoreCompiled, StoreSnapshot
  <2>2. ~raced' => editor.at # "accepted" /\ run.stage = "none"
    BY <1>1 DEF StoreCompiled, CompilerWrites, EditorHolds, RunHolds
  <2> QED
    BY <1>1, <2>1, <2>2 DEF StoreCompiled, form, Held, AcceptedHeld, RunHeld
<1>2. CASE ~StoreCompiled(c)
  <2>1. UNCHANGED <<skeleton, resolved, frozen, completed, editor, run>> /\ (raced => raced')
    BY <1>2 DEF CompilerStep, BeginCompile, MacroCompile, ReplaceCast, CompileRaises, FinishCompile,
                FinishRaises, CompilerWrites, story, form, ghosts
  <2> QED
    BY <2>1 DEF Held, AcceptedHeld, UnderCompletedLock, RunHeld, Extends
<1> QED
  BY <1>1, <1>2

\* The claims of a save speak of its own nodes, and the lock was asked about the plan as it is.
LEMMA EditKeepsHeld == ASSUME TypeInv, Held, EditorStep PROVE Held'
<1> USE DEF TypeInv
<1>1. CASE GetSnapshot
  BY <1>1 DEF GetSnapshot, story, ghosts, Held, AcceptedHeld, RunHeld, Extends
<1>2. CASE PutMacroPlan
  <2>1. PICK p \in Edits(editor.nodes), b \in Bibles :
          \E cl \in SUBSET (editor.claims \cap DOMAIN p) :
            \/ /\ Accepted(Repair(p), cl \ Repaired(p), b)
               /\ editor' = [at |-> "accepted", nodes |-> Repair(p), bible |-> b,
                             claims |-> cl \ Repaired(p)]
            \/ editor' = Closed
    BY <1>2 DEF PutMacroPlan
  <2>2. DOMAIN Repair(p) = DOMAIN p
    BY DEF Repair
  <2>3. AcceptedHeld'
    <3>1. CASE editor' = Closed
      BY <3>1 DEF AcceptedHeld, Closed
    <3>2. ASSUME NEW cl \in SUBSET (editor.claims \cap DOMAIN p),
                 Accepted(Repair(p), cl \ Repaired(p), b),
                 editor' = [at |-> "accepted", nodes |-> Repair(p), bible |-> b,
                            claims |-> cl \ Repaired(p)]
          PROVE  AcceptedHeld'
      <4>1. UNCHANGED <<skeleton, resolved, frozen, completed>>
        BY <1>2 DEF PutMacroPlan, story
      <4>2. editor'.claims \subseteq DOMAIN editor'.nodes
        BY <2>2, <3>2
      <4>3. completed' > 0 => UnderCompletedLock(editor.nodes, editor.claims, editor.bible)'
        BY <3>2, <4>1 DEF Accepted, UnderCompletedLock
      <4> QED
        BY <4>2, <4>3 DEF AcceptedHeld
    <3> QED
      BY <2>1, <3>1, <3>2
  <2> QED
    BY <1>2, <2>3 DEF PutMacroPlan, story, Held, RunHeld, Extends
<1>3. CASE StoreEdited
  <2>1. editor'.at # "accepted" /\ (~raced' => ~raced /\ run.stage = "none")
    BY <1>3 DEF StoreEdited, EditorWrites, RunHolds
  <2>2. ~raced' => resolved' \subseteq DOMAIN skeleton'
    BY <1>3, <2>1 DEF StoreEdited, StoreSnapshot, Held, AcceptedHeld
  <2> QED
    BY <1>3, <2>1, <2>2 DEF StoreEdited, Held, AcceptedHeld, RunHeld
<1>4. CASE ReplaceCastEdited
  BY <1>4 DEF ReplaceCastEdited, EditorWrites, Closed, story, Held, AcceptedHeld, RunHeld, Extends
<1>5. CASE PutRaises
  BY <1>5 DEF PutRaises, Closed, story, Held, AcceptedHeld, RunHeld, Extends
<1> QED
  BY <1>1, <1>2, <1>3, <1>4, <1>5 DEF EditorStep

\* What a run reads is the plan as it is.
LEMMA RefreshedHolds == ASSUME NEW r \in Running PROVE Refreshed(r).nodes = skeleton
  BY DEF Refreshed, Running

LEMMA StartedHolds ==
  ASSUME TypeInv, NEW s \in SUBSET Ids
  PROVE  Started(s).nodes = skeleton /\ Started(s).stage = "planning"
<1>1. [stage |-> "planning", nodes |-> skeleton, resolved |-> {}, selected |-> s] \in Running
  BY DEF TypeInv, Running, Stages
<1> QED
  BY <1>1, RefreshedHolds, StartedIsTyped DEF Started

LEMMA InjectedExtends ==
  ASSUME NEW p \in Plans, NEW new, new \notin DOMAIN p
  PROVE  Extends(p, Injected(p, new))
  BY DEF Extends, Injected

\* A step of a run that leaves the story alone and keeps the plan it holds, or reads it anew.
LEMMA RunReads ==
  ASSUME TypeInv, Held, UNCHANGED <<skeleton, resolved, frozen, completed, editor, raced>>,
         \/ run'.stage = "none"
         \/ /\ run'.stage \notin {"none", "rewriting", "runtime"}
            /\ \/ run'.nodes = skeleton
               \/ run.stage \notin {"none", "rewriting"} /\ run'.nodes = run.nodes
  PROVE  Held'
  BY DEF Held, AcceptedHeld, UnderCompletedLock, RunHeld

LEMMA RunKeepsHeld == ASSUME TypeInv, Held, RunStep PROVE Held'
<1> USE DEF TypeInv
<1>1. CASE StartRunChapter
  <2>1. PICK selected \in Aims(skeleton) : run' = Started(selected)
    BY <1>1 DEF StartRunChapter
  <2>2. run'.nodes = skeleton /\ run'.stage = "planning"
    BY <2>1, AimsAreIds, StartedHolds
  <2> QED
    BY <1>1, <2>2, RunReads DEF StartRunChapter, story, form
<1>2. CASE Director
  <2>1. run'.stage = "writing" /\ run'.nodes = run.nodes
    BY <1>2, RunIsUnderWay DEF Director, Running
  <2> QED
    BY <1>2, <2>1, RunReads DEF Director, story, form
<1>3. CASE AnchorResolve
  <2>1. run'.stage \in {"asking", "ending"} /\ run'.nodes = run.nodes
    BY <1>3, RunIsUnderWay DEF AnchorResolve, Running
  <2> QED
    BY <1>3, <2>1, RunReads DEF AnchorResolve, story, form, ghosts
<1>4. CASE AnchorResolution
  <2>1. run'.stage \in {"ending", "planning"} /\ run'.nodes = run.nodes
    BY <1>4, RunIsUnderWay DEF AnchorResolution, Running
  <2> QED
    BY <1>4, <2>1, RunReads DEF AnchorResolution, story, form
<1>5. CASE Pause
  <2>1. run'.stage = "paused" /\ run'.nodes = run.nodes
    BY <1>5, RunIsUnderWay DEF Pause, Running
  <2> QED
    BY <1>5, <2>1, RunReads DEF Pause, story, form, ghosts
<1>6. CASE AbortAndRestart
  <2>1. run'.nodes = skeleton /\ run'.stage = "planning"
    BY <1>6, StartedHolds DEF AbortAndRestart
  <2> QED
    BY <1>6, <2>1, RunReads DEF AbortAndRestart, story, form, ghosts
<1>7. CASE Rewrite
  <2>1. PICK new \in (Fresh \ DOMAIN skeleton) \cup {0} :
          run' = [run EXCEPT !.stage = "rewriting",
                             !.nodes = IF new = 0 THEN skeleton ELSE Injected(skeleton, new)]
    BY <1>7 DEF Rewrite
  <2>2. run'.stage = "rewriting" /\ run'.nodes = IF new = 0 THEN skeleton ELSE Injected(skeleton, new)
    BY <1>7, <2>1, RunIsUnderWay DEF Rewrite, Running
  <2>3. Extends(skeleton, run'.nodes)
    <3>1. CASE new = 0
      BY <2>2, <3>1 DEF Extends
    <3>2. CASE new # 0
      BY <2>2, <3>2, InjectedExtends
    <3> QED
      BY <3>1, <3>2
  <2>4. RunHeld'
    BY <1>7, <2>2, <2>3 DEF Rewrite, story, RunHeld, Extends
  <2> QED
    BY <1>7, <2>4 DEF Rewrite, story, form, ghosts, Held, AcceptedHeld, UnderCompletedLock
<1>8. CASE UpdateTopology
  <2>1. run'.stage = "reading" /\ run'.nodes = run.nodes
    BY <1>8, RunIsUnderWay DEF UpdateTopology, Running
  <2>2. ~raced' => ~raced /\ editor'.at # "accepted"
    BY <1>8 DEF UpdateTopology, RunWrites, EditorHolds, form
  <2>3. ~raced' => resolved' \subseteq DOMAIN skeleton'
    BY <1>8, <2>2 DEF UpdateTopology, Held, RunHeld, Extends
  <2> QED
    BY <1>8, <2>1, <2>2, <2>3 DEF UpdateTopology, Held, AcceptedHeld, RunHeld
<1>9. CASE RefreshAnchors
  <2>1. run \in Running
    BY <1>9, RunIsUnderWay DEF RefreshAnchors
  <2>2. Refreshed(run).nodes = skeleton /\ Refreshed(run) \in Running
    BY <2>1, RefreshedHolds, RefreshedIsTyped DEF Running
  <2>3. run'.stage = "planning" /\ run'.nodes = skeleton
    BY <1>9, <2>2 DEF RefreshAnchors, Running
  <2> QED
    BY <1>9, <2>3, RunReads DEF RefreshAnchors, story, form, ghosts
<1>10. CASE UpsertChapter
  <2>1. run \in Running
    BY <1>10, RunIsUnderWay DEF UpsertChapter
  <2>2. /\ run'.stage = "runtime"
        /\ run'.resolved = MergeForCommit(resolved, run.resolved, DOMAIN skeleton)
        /\ run'.nodes = IF run.nodes = NoPlan THEN skeleton ELSE run.nodes
    BY <1>10, <2>1 DEF UpsertChapter, Running
  <2>3. ~raced' => ~raced /\ editor'.at # "accepted"
    BY <1>10 DEF UpsertChapter, RunWrites, EditorHolds, form
  <2>4. ~raced' => RunHeld'
    BY <1>10, <2>2, <2>3 DEF UpsertChapter, story, Held, RunHeld, MergeForCommit
  <2> QED
    BY <1>10, <2>3, <2>4 DEF UpsertChapter, story, Held, AcceptedHeld
<1>11. CASE UpdateRuntime
  <2>1. run'.stage = "topology" /\ run'.nodes = run.nodes /\ resolved' = run.resolved
    BY <1>11, RunIsUnderWay DEF UpdateRuntime, Running
  <2>2. ~raced' => ~raced /\ editor'.at # "accepted"
    BY <1>11 DEF UpdateRuntime, RunWrites, EditorHolds, form
  <2> QED
    BY <1>11, <2>1, <2>2 DEF UpdateRuntime, Held, AcceptedHeld, RunHeld
<1>12. CASE UpdatePlanOfRun
  <2>1. ~raced' => ~raced /\ editor'.at # "accepted"
    BY <1>12 DEF UpdatePlanOfRun, RunWrites, EditorHolds, form
  <2> QED
    BY <1>12, <2>1 DEF UpdatePlanOfRun, Idle, Held, AcceptedHeld, RunHeld
<1>13. CASE RunRaises
  BY <1>13, RunReads DEF RunRaises, Idle, story, form, ghosts
<1> QED
  BY <1>1, <1>2, <1>3, <1>4, <1>5, <1>6, <1>7, <1>8, <1>9, <1>10, <1>11, <1>12, <1>13 DEF RunStep

LEMMA CrashKeepsHeld == ASSUME TypeInv, Held, Crash PROVE Held'
  BY DEF TypeInv, Crash, Closed, Idle, story, Held, AcceptedHeld, RunHeld

LEMMA HeldHolds == Spec => []Held
<1>1. Init => Held
  BY DEF Init, Closed, Idle, Held, AcceptedHeld, RunHeld
<1>2. TypeInv /\ Held /\ [Next]_vars => Held'
  <2> SUFFICES ASSUME TypeInv, Held, [Next]_vars PROVE Held'
    OBVIOUS
  <2>1. CASE UNCHANGED vars
    BY <2>1 DEF Held, AcceptedHeld, UnderCompletedLock, RunHeld, Extends, vars
  <2> QED
    BY <2>1, CompileKeepsHeld, EditKeepsHeld, RunKeepsHeld, CrashKeepsHeld DEF Next
<1> QED
  BY <1>1, <1>2, TypesHold, PTL DEF Spec

\* What a step may do to the resolved anchors of a story with completed chapters.
Survive ==
  /\ resolved \subseteq resolved'
  /\ \A n \in resolved \cap DOMAIN skeleton :
       n \in DOMAIN skeleton' /\ skeleton'[n] = skeleton[n]

LEMMA SurviveStep ==
  ASSUME TypeInv, Checked, Held, [Next]_vars, completed > 0, ~raced'
  PROVE  Survive
<1>1. ~raced
  BY RacedStays
<1>2. CASE UNCHANGED <<skeleton, resolved>>
  BY <1>2 DEF Survive
<1>3. ASSUME NEW c \in Compilers, BeginCompile(c) \/ CompilerStep(c)
      PROVE  UNCHANGED <<skeleton, resolved>>
  <2>1. ~StoreCompiled(c)
    BY <1>1 DEF StoreCompiled, Checked, CompilerHolds
  <2> QED
    BY <1>3, <2>1 DEF CompilerStep, BeginCompile, MacroCompile, ReplaceCast, CompileRaises,
                      FinishCompile, FinishRaises, story
<1>4. CASE StoreEdited
  <2>1. UnderCompletedLock(editor.nodes, editor.claims, editor.bible)
    BY <1>1, <1>4 DEF StoreEdited, Held, AcceptedHeld
  <2>2. resolved \subseteq DOMAIN skeleton
    BY <1>1 DEF Held
  <2> QED
    BY <1>4, <2>1, <2>2 DEF StoreEdited, StoreSnapshot, UnderCompletedLock, Survive
<1>5. CASE EditorStep /\ ~StoreEdited
  BY <1>5 DEF EditorStep, GetSnapshot, PutMacroPlan, ReplaceCastEdited, PutRaises, story, Survive
<1>6. CASE UpdateTopology
  BY <1>1, <1>6 DEF UpdateTopology, Held, RunHeld, Extends, Survive
<1>7. CASE UpdateRuntime
  BY <1>1, <1>7 DEF UpdateRuntime, Held, RunHeld, Survive
<1>8. CASE UpdatePlanOfRun
  BY <1>1, <1>8 DEF UpdatePlanOfRun, Held, RunHeld, Survive
<1>9. CASE RunStep /\ ~UpdateTopology /\ ~UpdateRuntime /\ ~UpdatePlanOfRun
  BY <1>9 DEF RunStep, StartRunChapter, Director, AnchorResolve, AnchorResolution, Pause,
              AbortAndRestart, Rewrite, RefreshAnchors, UpsertChapter, RunRaises, story, Survive
<1>10. CASE Crash
  BY <1>10 DEF Crash, story, Survive
<1> QED
  BY <1>2, <1>3, <1>4, <1>5, <1>6, <1>7, <1>8, <1>9, <1>10 DEF Next, vars, EditorStep, story

\* The lock on resolved nodes, the merge of a commit and the nodes a run writes back: an anchor
\* a completed chapter resolved stays in the plan as it is and stays resolved, also with
\* compiles, saves and runs that overlap, as long as none writes what another holds.
THEOREM ResolvedSurvive == Spec => ResolvedAnchorsSurvive
<1>1. TypeInv /\ Checked /\ Held /\ [Next]_vars => [completed > 0 /\ ~raced' => Survive]_vars
  BY SurviveStep
<1> QED
  BY <1>1, TypesHold, CheckedHolds, HeldHolds, PTL DEF Spec, ResolvedAnchorsSurvive, Survive
-----------------------------------------------------------------------------
(* What is stored as a plan is sound *)

\* The plans somebody may store are sound: the stored one, an accepted save's and a run's.
SoundOnes ==
  /\ Sound(skeleton)
  /\ editor.at = "accepted" => Sound(editor.nodes)
  /\ run.stage # "none" => Sound(run.nodes)

\* A plan has no more nodes than there are ids.
LEMMA PlansAreFinite == ASSUME NEW p \in Plans PROVE IsFiniteSet(DOMAIN p)
  BY NodesOfPlan, PlanAssumption, FS_Subset

\* Where a run has its plan from, and which plan it writes.
LEMMA RunPlans ==
  ASSUME TypeInv, RunStep
  PROVE  /\ \/ skeleton' = skeleton
            \/ run.stage # "none" /\ skeleton' = run.nodes
         /\ \/ run'.stage = "none"
            \/ run'.nodes = skeleton
            \/ run.stage # "none" /\ run'.nodes = run.nodes
            \/ \E new : new \notin DOMAIN skeleton /\ run'.nodes = Injected(skeleton, new)
<1> USE DEF TypeInv
<1>1. CASE StartRunChapter
  <2>1. PICK selected \in Aims(skeleton) : run' = Started(selected)
    BY <1>1 DEF StartRunChapter
  <2>2. run'.nodes = skeleton
    BY <2>1, AimsAreIds, StartedHolds
  <2> QED
    BY <1>1, <2>2 DEF StartRunChapter, story
<1>2. CASE Director
  <2>1. run'.nodes = run.nodes
    BY <1>2, RunIsUnderWay DEF Director, Running
  <2> QED
    BY <1>2, <2>1 DEF Director, story
<1>3. CASE AnchorResolve
  <2>1. run'.nodes = run.nodes
    BY <1>3, RunIsUnderWay DEF AnchorResolve, Running
  <2> QED
    BY <1>3, <2>1 DEF AnchorResolve, story
<1>4. CASE AnchorResolution
  <2>1. run'.nodes = run.nodes
    BY <1>4, RunIsUnderWay DEF AnchorResolution, Running
  <2> QED
    BY <1>4, <2>1 DEF AnchorResolution, story
<1>5. CASE Pause
  <2>1. run'.nodes = run.nodes
    BY <1>5, RunIsUnderWay DEF Pause, Running
  <2> QED
    BY <1>5, <2>1 DEF Pause, story
<1>6. CASE AbortAndRestart
  <2>1. run'.nodes = skeleton
    BY <1>6, StartedHolds DEF AbortAndRestart
  <2> QED
    BY <1>6, <2>1 DEF AbortAndRestart, story
<1>7. CASE Rewrite
  <2>1. PICK new \in (Fresh \ DOMAIN skeleton) \cup {0} :
          run' = [run EXCEPT !.stage = "rewriting",
                             !.nodes = IF new = 0 THEN skeleton ELSE Injected(skeleton, new)]
    BY <1>7 DEF Rewrite
  <2>2. run'.nodes = IF new = 0 THEN skeleton ELSE Injected(skeleton, new)
    BY <1>7, <2>1, RunIsUnderWay DEF Rewrite, Running
  <2> QED
    BY <1>7, <2>1, <2>2 DEF Rewrite, story
<1>8. CASE UpdateTopology
  <2>1. run'.nodes = run.nodes
    BY <1>8, RunIsUnderWay DEF UpdateTopology, Running
  <2> QED
    BY <1>8, <2>1 DEF UpdateTopology
<1>9. CASE RefreshAnchors
  <2>1. run \in Running
    BY <1>9, RunIsUnderWay DEF RefreshAnchors
  <2>2. Refreshed(run).nodes = skeleton /\ Refreshed(run) \in Running
    BY <2>1, RefreshedHolds, RefreshedIsTyped DEF Running
  <2>3. run'.nodes = skeleton
    BY <1>9, <2>2 DEF RefreshAnchors, Running
  <2> QED
    BY <1>9, <2>3 DEF RefreshAnchors, story
<1>10. CASE UpsertChapter
  <2>1. run'.nodes = IF run.nodes = NoPlan THEN skeleton ELSE run.nodes
    BY <1>10, RunIsUnderWay DEF UpsertChapter, Running
  <2> QED
    BY <1>10, <2>1 DEF UpsertChapter, story
<1>11. CASE UpdateRuntime
  <2>1. run'.nodes = run.nodes
    BY <1>11, RunIsUnderWay DEF UpdateRuntime, Running
  <2> QED
    BY <1>11, <2>1 DEF UpdateRuntime
<1>12. CASE UpdatePlanOfRun
  BY <1>12 DEF UpdatePlanOfRun, Idle
<1>13. CASE RunRaises
  BY <1>13 DEF RunRaises, Idle, story
<1> QED
  BY <1>1, <1>2, <1>3, <1>4, <1>5, <1>6, <1>7, <1>8, <1>9, <1>10, <1>11, <1>12, <1>13 DEF RunStep

\* The anchor a human injects.
LEMMA InjectedIsSound ==
  ASSUME NEW p \in Plans, Sound(p), NEW new, new \notin DOMAIN p
  PROVE  Sound(Injected(p, new))
<1>1. Extends(p, Injected(p, new))
  BY InjectedExtends
<1>2. DOMAIN Injected(p, new) = DOMAIN p \cup {new} /\ Injected(p, new)[new].deps = {}
  BY DEF Injected
<1> QED
  BY <1>1, <1>2, PlansAreFinite, InjectedStaysSound

\* What a compile stores has been validated.
LEMMA CompileKeepsSound ==
  ASSUME TypeInv, SoundOnes, NEW c \in Compilers, BeginCompile(c) \/ CompilerStep(c)
  PROVE  SoundOnes'
<1>1. CASE StoreCompiled(c)
  <2>1. PICK p \in CompiledPlans : skeleton' = p
    BY <1>1 DEF StoreCompiled, StoreSnapshot
  <2>2. Sound(p)
    BY PlanAssumption DEF ValidNodes
  <2>3. UNCHANGED <<editor, run>>
    BY <1>1 DEF StoreCompiled, form
  <2> QED
    BY <2>1, <2>2, <2>3 DEF SoundOnes
<1>2. CASE ~StoreCompiled(c)
  <2>1. UNCHANGED <<skeleton, editor, run>>
    BY <1>2 DEF CompilerStep, BeginCompile, MacroCompile, ReplaceCast, CompileRaises, FinishCompile,
                FinishRaises, story, form
  <2> QED
    BY <2>1 DEF SoundOnes
<1> QED
  BY <1>1, <1>2

\* What a save stores was validated when it was accepted.
LEMMA EditKeepsSound == ASSUME TypeInv, SoundOnes, EditorStep PROVE SoundOnes'
<1>1. CASE PutMacroPlan
  <2>1. PICK p \in Edits(editor.nodes), b \in Bibles :
          \E cl \in SUBSET (editor.claims \cap DOMAIN p) :
            \/ /\ Accepted(Repair(p), cl \ Repaired(p), b)
               /\ editor' = [at |-> "accepted", nodes |-> Repair(p), bible |-> b,
                             claims |-> cl \ Repaired(p)]
            \/ editor' = Closed
    BY <1>1 DEF PutMacroPlan
  <2>2. editor'.at = "accepted" => Sound(editor'.nodes)
    BY <2>1 DEF Accepted, ValidPlan, ValidNodes, Closed
  <2>3. UNCHANGED <<skeleton, run>>
    BY <1>1 DEF PutMacroPlan, story
  <2> QED
    BY <2>2, <2>3 DEF SoundOnes
<1>2. CASE StoreEdited
  <2>1. skeleton' = editor.nodes /\ editor'.at = "stored" /\ run' = run
    BY <1>2 DEF StoreEdited, StoreSnapshot
  <2> QED
    BY <1>2, <2>1 DEF StoreEdited, SoundOnes
<1>3. CASE GetSnapshot \/ ReplaceCastEdited \/ PutRaises
  <2>1. UNCHANGED <<skeleton, run>> /\ editor'.at # "accepted"
    BY <1>3 DEF GetSnapshot, ReplaceCastEdited, PutRaises, Closed, story
  <2> QED
    BY <2>1 DEF SoundOnes
<1> QED
  BY <1>1, <1>2, <1>3 DEF EditorStep

\* A run writes the plan it has read, or that and an anchor more.
LEMMA RunKeepsSound == ASSUME TypeInv, SoundOnes, RunStep PROVE SoundOnes'
<1>1. Sound(skeleton')
  BY RunPlans DEF SoundOnes
<1>2. run'.stage # "none" => Sound(run'.nodes)
  <2>1. skeleton \in Plans
    BY DEF TypeInv
  <2> QED
    BY <2>1, RunPlans, InjectedIsSound DEF SoundOnes
<1>3. editor' = editor
  BY DEF RunStep, StartRunChapter, Director, AnchorResolve, AnchorResolution, Pause, AbortAndRestart,
         Rewrite, UpdateTopology, RefreshAnchors, UpsertChapter, UpdateRuntime, UpdatePlanOfRun,
         RunRaises, form
<1> QED
  BY <1>1, <1>2, <1>3 DEF SoundOnes

\* put_macro_plan, macro_compile and the commits: whatever was stored as a plan has no cycle
\* and no dependency outside of it, also when writers overlap and write over each other.
THEOREM StoredPlansAreSound == Spec => []StoredPlanIsSound
<1>1. Init => SoundOnes
  <2>1. Sound(NoPlan)
    BY EmptyPlanIsSound DEF NoPlan
  <2> QED
    BY <2>1 DEF Init, Closed, Idle, SoundOnes
<1>2. TypeInv /\ SoundOnes /\ [Next]_vars => SoundOnes'
  <2> SUFFICES ASSUME TypeInv, SoundOnes, [Next]_vars PROVE SoundOnes'
    OBVIOUS
  <2>1. CASE UNCHANGED vars
    BY <2>1 DEF SoundOnes, vars
  <2>2. CASE Crash
    BY <2>2 DEF Crash, Closed, Idle, story, SoundOnes
  <2> QED
    BY <2>1, <2>2, CompileKeepsSound, EditKeepsSound, RunKeepsSound DEF Next
<1>3. SoundOnes => StoredPlanIsSound
  BY DEF SoundOnes, StoredPlanIsSound
<1> QED
  BY <1>1, <1>2, <1>3, TypesHold, PTL DEF Spec
-----------------------------------------------------------------------------
(* Anchors are resolved in order *)

\* As long as nobody aims at an anchor that is locked and nobody races: what depends on
\* nothing unresolved is all that is resolved, claimed by a save, or resolved and aimed at by
\* a run.
Ordered ==
  ~careless /\ ~raced =>
    /\ Ready(skeleton, resolved, resolved)
    /\ editor.at = "accepted" => Ready(editor.nodes, editor.claims, editor.claims)
    /\ run.stage # "none" => Ready(run.nodes, run.resolved, run.resolved \cup run.selected)

\* With more anchors resolved no anchor is less ready.
LEMMA ReadyOfMore ==
  ASSUME NEW p \in Plans, NEW done, NEW more, done \subseteq more, NEW S, Ready(p, done, S)
  PROVE  Ready(p, more, S)
<1>1. Extends(p, p)
  BY DEF Extends
<1> QED
  BY <1>1, PlansAreFinite, ReadyStays

\* What is ready is ready together.
LEMMA ReadyTogether ==
  ASSUME NEW p, NEW done, NEW A, NEW B, NEW C, Ready(p, done, A), Ready(p, done, B), C \subseteq A \cup B
  PROVE  Ready(p, done, C)
  BY DEF Ready

\* Resolved anchors that are ready are resolved in order, and the other way round.
LEMMA ReadyIsInOrder ==
  ASSUME NEW p, NEW done
  PROVE  Ready(p, done, done) => InOrder(p, done)
  BY DEF Ready, InOrder

LEMMA InOrderIsReady ==
  ASSUME NEW p, NEW done \in SUBSET DOMAIN p
  PROVE  InOrder(p, done) => Ready(p, done, done)
  BY DEF Ready, InOrder

LEMMA ReadyAreNodes == ASSUME NEW p, NEW done, NEW S, Ready(p, done, S) PROVE S \subseteq DOMAIN p
  BY DEF Ready

\* Who was careless once was careless for good.
LEMMA CarelessStays ==
  ASSUME TypeInv, [Next]_vars, ~careless'
  PROVE  ~careless
<1> USE DEF TypeInv
<1>1. ASSUME NEW c \in Compilers, BeginCompile(c) \/ CompilerStep(c) PROVE careless' = careless
  BY <1>1 DEF BeginCompile, CompilerStep, MacroCompile, StoreCompiled, ReplaceCast, CompileRaises,
              FinishCompile, FinishRaises, ghosts
<1>2. CASE EditorStep
  <2>1. CASE PutMacroPlan
    <3>1. careless' = careless \/ \E p, cl : careless' = (careless \/ ~InOrder(Repair(p), cl))
      BY <2>1 DEF PutMacroPlan
    <3> QED
      BY <3>1
  <2> QED
    BY <1>2, <2>1 DEF EditorStep, GetSnapshot, StoreEdited, ReplaceCastEdited, PutRaises, ghosts
<1>3. CASE RunStep
  BY <1>3 DEF RunStep, StartRunChapter, Director, AnchorResolve, AnchorResolution, Pause,
         AbortAndRestart, Rewrite, UpdateTopology, RefreshAnchors, UpsertChapter, UpdateRuntime,
         UpdatePlanOfRun, RunRaises, ghosts
<1> QED
  BY <1>1, <1>2, <1>3 DEF Next, Crash, vars

\* A compile begins with nothing resolved.
LEMMA CompileKeepsOrder ==
  ASSUME TypeInv, Held, Ordered, NEW c \in Compilers, BeginCompile(c) \/ CompilerStep(c)
  PROVE  Ordered'
<1>1. CASE StoreCompiled(c)
  <2>1. PICK p \in CompiledPlans : skeleton' = p /\ resolved' = (resolved \cap DOMAIN p) \ (DOMAIN p \ {})
    BY <1>1 DEF StoreCompiled, StoreSnapshot
  <2>2. ~raced' => editor'.at # "accepted" /\ run'.stage = "none"
    BY <1>1 DEF StoreCompiled, CompilerWrites, EditorHolds, RunHolds, form
  <2>3. Ready(skeleton', resolved', resolved')
    BY <2>1 DEF Ready
  <2> QED
    BY <2>2, <2>3 DEF Ordered
<1>2. CASE ~StoreCompiled(c)
  <2>1. UNCHANGED <<skeleton, resolved, editor, run, careless>> /\ (raced => raced')
    BY <1>2 DEF CompilerStep, BeginCompile, MacroCompile, ReplaceCast, CompileRaises, FinishCompile,
                FinishRaises, CompilerWrites, TypeInv, story, form, ghosts
  <2> QED
    BY <2>1 DEF Ordered
<1> QED
  BY <1>1, <1>2

\* A save claims what it was shown, or is careless.
LEMMA EditKeepsOrder == ASSUME TypeInv, Held, Ordered, [Next]_vars, EditorStep PROVE Ordered'
<1> SUFFICES ASSUME ~careless', ~raced' PROVE Ordered'
  BY DEF Ordered
<1>1. ~careless /\ ~raced
  BY CarelessStays, RacedStays
<1>2. CASE PutMacroPlan
  <2>1. UNCHANGED <<skeleton, resolved, run>>
    BY <1>2 DEF PutMacroPlan, story
  <2>2. PICK p \in Edits(editor.nodes), b \in Bibles :
          \E cl \in SUBSET (editor.claims \cap DOMAIN p) :
            \/ /\ editor' = [at |-> "accepted", nodes |-> Repair(p), bible |-> b,
                             claims |-> cl \ Repaired(p)]
               /\ careless' = (careless \/ ~InOrder(Repair(p), cl \ Repaired(p)))
            \/ editor' = Closed
    BY <1>2 DEF PutMacroPlan
  <2>3. DOMAIN Repair(p) = DOMAIN p
    BY DEF Repair
  <2>4. editor'.at = "accepted" => Ready(editor'.nodes, editor'.claims, editor'.claims)
    <3>1. CASE editor' = Closed
      BY <3>1 DEF Closed
    <3>2. ASSUME NEW cl \in SUBSET (editor.claims \cap DOMAIN p),
                 editor' = [at |-> "accepted", nodes |-> Repair(p), bible |-> b,
                            claims |-> cl \ Repaired(p)],
                 careless' = (careless \/ ~InOrder(Repair(p), cl \ Repaired(p)))
          PROVE  Ready(editor'.nodes, editor'.claims, editor'.claims)
      <4>1. cl \ Repaired(p) \in SUBSET DOMAIN Repair(p)
        BY <2>3
      <4>2. InOrder(Repair(p), cl \ Repaired(p))
        BY <3>2
      <4>3. Ready(Repair(p), cl \ Repaired(p), cl \ Repaired(p))
        BY <4>1, <4>2, InOrderIsReady
      <4> QED
        BY <3>2, <4>3
    <3> QED
      BY <2>2, <3>1, <3>2
  <2> QED
    BY <1>1, <2>1, <2>4 DEF Ordered
<1>3. CASE StoreEdited
  <2>1. skeleton' = editor.nodes /\ editor.at = "accepted" /\ editor'.at = "stored" /\ run' = run
    BY <1>3 DEF StoreEdited, StoreSnapshot
  <2>2. run.stage = "none"
    BY <1>3 DEF StoreEdited, EditorWrites, RunHolds
  <2>3. resolved' = editor.claims
    <3>1. editor.claims \subseteq DOMAIN editor.nodes
      BY <1>1, <2>1 DEF Held, AcceptedHeld
    <3> QED
      BY <1>3, <3>1 DEF StoreEdited, StoreSnapshot
  <2> QED
    BY <1>1, <2>1, <2>2, <2>3 DEF Ordered
<1>4. CASE GetSnapshot \/ ReplaceCastEdited \/ PutRaises
  <2>1. UNCHANGED <<skeleton, resolved, run>> /\ editor'.at # "accepted"
    BY <1>4 DEF GetSnapshot, ReplaceCastEdited, PutRaises, Closed, story
  <2> QED
    BY <1>1, <2>1 DEF Ordered
<1> QED
  BY <1>2, <1>3, <1>4 DEF EditorStep

\* A run that goes on with the plan it holds and has resolved and aimed at no other anchors.
LEMMA RunGoesOn ==
  ASSUME NEW p \in Plans, NEW d, NEW s, Ready(p, d, d \cup s),
         NEW e, d \subseteq e, NEW t, e \cup t \subseteq d \cup s
  PROVE  Ready(p, e, e \cup t)
<1>1. Ready(p, e, d \cup s)
  BY ReadyOfMore
<1> QED
  BY <1>1, ReadyTogether

\* What a run has of the anchors once it has read them.
LEMMA RefreshedHas ==
  ASSUME NEW r \in Running
  PROVE  /\ Refreshed(r).selected = r.selected
         /\ Refreshed(r).resolved =
              (IF r.resolved = {} THEN resolved ELSE r.resolved) \cap DOMAIN skeleton
  BY DEF Refreshed, Running

\* A run that starts has what is resolved by then, and what a human selected.
LEMMA StartedHas ==
  ASSUME TypeInv, NEW s \in SUBSET Ids
  PROVE  /\ Started(s).nodes = skeleton
         /\ Started(s).resolved = resolved \cap DOMAIN skeleton
         /\ Started(s).selected = s
<1>1. [stage |-> "planning", nodes |-> skeleton, resolved |-> {}, selected |-> s] \in Running
  BY DEF TypeInv, Running, Stages
<1> QED
  BY <1>1, StartedHolds, RefreshedHas DEF Started

\* A run that aims at open anchors, or at none.
LEMMA StartKeepsOrder ==
  ASSUME TypeInv, Held, Ordered, ~careless, ~raced, NEW s \in SUBSET Ids,
         s \subseteq Frontier(skeleton, resolved), run' = Started(s)
  PROVE  Ready(run'.nodes, run'.resolved, run'.resolved \cup run'.selected)
<1>1. resolved \cap DOMAIN skeleton = resolved
  BY DEF Held
<1>2. Ready(skeleton, resolved, resolved)
  BY DEF Ordered
<1>3. Ready(skeleton, resolved, s)
  BY OpenIsReady
<1>4. Ready(skeleton, resolved, resolved \cup s)
  BY <1>2, <1>3, ReadyTogether
<1> QED
  BY <1>1, <1>4, StartedHas

\* A run resolves what it aims at, and commits it with what was resolved before.
LEMMA RunKeepsOrder == ASSUME TypeInv, Held, Ordered, [Next]_vars, RunStep PROVE Ordered'
<1> SUFFICES ASSUME ~careless', ~raced' PROVE Ordered'
  BY DEF Ordered
<1> USE DEF TypeInv
<1> DEFINE Sure == run'.stage # "none" =>
                     Ready(run'.nodes, run'.resolved, run'.resolved \cup run'.selected)
<1>a. ~careless /\ ~raced
  BY CarelessStays, RacedStays
<1>b. /\ Ready(skeleton, resolved, resolved) /\ resolved \subseteq DOMAIN skeleton
      /\ run.stage # "none" => Ready(run.nodes, run.resolved, run.resolved \cup run.selected)
      /\ RunHeld
  BY <1>a DEF Ordered, Held
<1>c. run.stage # "none" =>
        /\ run \in Running /\ run.nodes \in Plans
        /\ Ready(run.nodes, run.resolved, run.resolved \cup run.selected)
  BY <1>b, RunIsUnderWay DEF Running
<1> HIDE DEF Sure
<1>d. editor' = editor
  BY DEF RunStep, StartRunChapter, Director, AnchorResolve, AnchorResolution, Pause, AbortAndRestart,
         Rewrite, UpdateTopology, RefreshAnchors, UpsertChapter, UpdateRuntime, UpdatePlanOfRun,
         RunRaises, form
<1>e. ASSUME UNCHANGED <<skeleton, resolved>>, Sure PROVE Ordered'
  BY <1>a, <1>b, <1>d, <1>e DEF Ordered, Sure
<1>1. CASE StartRunChapter
  <2>1. PICK selected \in Aims(skeleton) :
          /\ run' = Started(selected)
          /\ careless' = (careless \/ \E n \in selected : ~Open(n, skeleton, resolved))
    BY <1>1 DEF StartRunChapter
  <2>2. selected \in SUBSET Ids
    BY AimsAreIds
  <2>3. selected \subseteq Frontier(skeleton, resolved)
    BY <2>1 DEF Open
  <2>4. Sure
    BY <1>a, <2>1, <2>2, <2>3, StartKeepsOrder DEF Sure
  <2> QED
    BY <1>1, <1>e, <2>4 DEF StartRunChapter, story
<1>2. CASE Director
  <2>1. PICK selected \in IF run.selected # {} THEN {run.selected} ELSE Aims(run.nodes) :
          /\ run' = [run EXCEPT !.stage = "writing", !.selected = selected]
          /\ careless' = (careless \/ \E n \in selected \ run.selected :
                                        ~(n \in DOMAIN run.nodes /\ Open(n, run.nodes, run.resolved)))
    BY <1>2 DEF Director
  <2>2. run.stage # "none"
    BY <1>2 DEF Director
  <2>3. run'.nodes = run.nodes /\ run'.resolved = run.resolved /\ run'.selected = selected
    BY <1>c, <2>1, <2>2 DEF Running
  <2>4. selected \ run.selected \in SUBSET Frontier(run.nodes, run.resolved)
    BY <2>1 DEF Open
  <2>5. Ready(run.nodes, run.resolved, selected \ run.selected)
    BY <2>4, OpenIsReady
  <2>6. run.resolved \cup selected \subseteq (run.resolved \cup run.selected) \cup (selected \ run.selected)
    OBVIOUS
  <2>7. Ready(run.nodes, run.resolved, run.resolved \cup selected)
    BY <1>c, <2>2, <2>5, <2>6, ReadyTogether
  <2> QED
    BY <1>2, <1>e, <2>3, <2>7 DEF Director, story, Sure
<1>3. CASE AnchorResolve
  <2>1. PICK verdict \in SUBSET run.selected, stage \in Stages :
          run' = [run EXCEPT !.resolved = run.resolved \cup verdict, !.stage = stage]
    BY <1>3 DEF AnchorResolve, Stages
  <2>2. run.stage # "none"
    BY <1>3 DEF AnchorResolve
  <2>3. run'.nodes = run.nodes /\ run'.resolved = run.resolved \cup verdict /\ run'.selected = run.selected
    BY <1>c, <2>1, <2>2 DEF Running
  <2>4. Ready(run.nodes, run.resolved \cup verdict, (run.resolved \cup verdict) \cup run.selected)
    BY <1>c, <2>2, RunGoesOn
  <2> QED
    BY <1>3, <1>e, <2>3, <2>4 DEF AnchorResolve, story, Sure
<1>4. CASE AnchorResolution
  <2>1. run.stage # "none"
    BY <1>4 DEF AnchorResolution
  <2>2. PICK forced \in SUBSET (run.resolved \cup run.selected), stage \in Stages :
          run' = [run EXCEPT !.resolved = run.resolved \cup forced, !.stage = stage]
    <3>1. CASE run' = [run EXCEPT !.stage = "planning"]
      <4>1. run' = [run EXCEPT !.resolved = run.resolved \cup {}, !.stage = "planning"]
        BY <1>c, <2>1, <3>1 DEF Running
      <4> QED
        BY <4>1 DEF Stages
    <3>2. CASE run' # [run EXCEPT !.stage = "planning"]
      <4>1. PICK forced \in Aims(run.nodes) :
              /\ run' = [run EXCEPT !.resolved = run.resolved \cup forced, !.stage = "ending"]
              /\ careless' = (careless \/ ~(forced \subseteq run.resolved \cup run.selected))
        BY <1>4, <3>2 DEF AnchorResolution
      <4>2. forced \subseteq run.resolved \cup run.selected
        BY <4>1
      <4> QED
        BY <4>1, <4>2 DEF Stages
    <3> QED
      BY <3>1, <3>2
  <2>3. run'.nodes = run.nodes /\ run'.resolved = run.resolved \cup forced /\ run'.selected = run.selected
    BY <1>c, <2>1, <2>2 DEF Running
  <2>4. Ready(run.nodes, run.resolved \cup forced, (run.resolved \cup forced) \cup run.selected)
    BY <1>c, <2>1, <2>2, RunGoesOn
  <2> QED
    BY <1>4, <1>e, <2>3, <2>4 DEF AnchorResolution, story, Sure
<1>5. CASE Pause
  <2>1. run.stage # "none"
    BY <1>5 DEF Pause
  <2>2. run'.nodes = run.nodes /\ run'.resolved = run.resolved /\ run'.selected = run.selected
    BY <1>5, <1>c, <2>1 DEF Pause, Running
  <2> QED
    BY <1>5, <1>c, <1>e, <2>1, <2>2 DEF Pause, story, Sure
<1>6. CASE AbortAndRestart
  <2>1. run' = Started({}) /\ {} \in SUBSET Ids /\ {} \subseteq Frontier(skeleton, resolved)
    BY <1>6 DEF AbortAndRestart
  <2>2. Sure
    BY <1>a, <2>1, StartKeepsOrder DEF Sure
  <2> QED
    BY <1>6, <1>e, <2>2 DEF AbortAndRestart, story
<1>7. CASE Rewrite
  <2>1. run.stage # "none" /\ run.nodes = skeleton
    BY <1>7, <1>b DEF Rewrite, RunHeld
  <2>2. PICK new \in (Fresh \ DOMAIN skeleton) \cup {0} :
          run' = [run EXCEPT !.stage = "rewriting",
                             !.nodes = IF new = 0 THEN skeleton ELSE Injected(skeleton, new)]
    BY <1>7 DEF Rewrite
  <2>3. /\ run'.nodes = IF new = 0 THEN skeleton ELSE Injected(skeleton, new)
        /\ run'.resolved = run.resolved /\ run'.selected = run.selected
    BY <1>c, <2>1, <2>2 DEF Running
  <2>4. CASE new = 0
    BY <1>7, <1>c, <1>e, <2>1, <2>3, <2>4 DEF Rewrite, story, Sure
  <2>5. CASE new # 0
    <3>1. Extends(skeleton, Injected(skeleton, new)) /\ new \in Ids
      BY <2>5, InjectedExtends, PlanAssumption
    <3>2. IsFiniteSet(DOMAIN skeleton) /\ IsFiniteSet(DOMAIN Injected(skeleton, new))
      BY <3>1, InjectedIsPlan, PlansAreFinite
    <3>3. Ready(Injected(skeleton, new), run.resolved, run.resolved \cup run.selected)
      BY <1>c, <2>1, <3>1, <3>2, ReadyStays
    <3> QED
      BY <1>7, <1>e, <2>3, <2>5, <3>3 DEF Rewrite, story, Sure
  <2> QED
    BY <2>4, <2>5
<1>8. CASE UpdateTopology
  <2>1. run.stage # "none" /\ Extends(skeleton, run.nodes)
    BY <1>8, <1>b DEF UpdateTopology, RunHeld
  <2>2. run'.nodes = run.nodes /\ run'.resolved = run.resolved /\ run'.selected = run.selected
    BY <1>8, <1>c, <2>1 DEF UpdateTopology, Running
  <2>3. Ready(run.nodes, resolved, resolved)
    BY <1>b, <1>c, <2>1, PlansAreFinite, ReadyStays
  <2>4. editor'.at # "accepted"
    BY <1>8, <1>d DEF UpdateTopology, RunWrites, EditorHolds
  <2> QED
    BY <1>8, <1>c, <2>1, <2>2, <2>3, <2>4 DEF UpdateTopology, Ordered
<1>9. CASE RefreshAnchors
  <2>1. run.stage # "none" /\ run.nodes = skeleton
    BY <1>9, <1>b DEF RefreshAnchors, RunHeld
  <2>2. Refreshed(run) \in Running
    BY <1>c, <2>1, RefreshedIsTyped DEF Running
  <2>3. /\ run'.nodes = skeleton /\ run'.selected = run.selected
        /\ run'.resolved = Refreshed(run).resolved
    BY <1>9, <1>c, <2>1, <2>2, RefreshedHolds, RefreshedHas DEF RefreshAnchors, Running
  <2>4. Refreshed(run).resolved =
          (IF run.resolved = {} THEN resolved ELSE run.resolved) \cap DOMAIN skeleton
    BY <1>c, <2>1, RefreshedHas
  <2>5. CASE run.resolved = {}
    <3>1. run'.resolved = resolved
      BY <1>b, <2>3, <2>4, <2>5
    <3>2. Ready(skeleton, resolved, run.selected)
      BY <1>c, <2>1, <2>5, ReadyOfMore
    <3>3. Ready(skeleton, resolved, resolved \cup run.selected)
      BY <1>b, <3>2, ReadyTogether
    <3> QED
      BY <1>9, <1>e, <2>3, <3>1, <3>3 DEF RefreshAnchors, story, Sure
  <2>6. CASE run.resolved # {}
    <3>1. run.resolved \subseteq DOMAIN skeleton
      BY <1>c, <2>1, ReadyAreNodes
    <3>2. run'.resolved = run.resolved
      BY <2>3, <2>4, <2>6, <3>1
    <3> QED
      BY <1>9, <1>c, <1>e, <2>1, <2>3, <3>2 DEF RefreshAnchors, story, Sure
  <2> QED
    BY <2>5, <2>6
<1>10. CASE UpsertChapter
  <2> DEFINE All == (resolved \cup run.resolved) \cap DOMAIN skeleton
  <2>1. run.stage # "none" /\ run.nodes = skeleton
    BY <1>10, <1>b DEF UpsertChapter, RunHeld
  <2>2. run'.nodes = skeleton /\ run'.selected = run.selected /\ run'.resolved = All
    BY <1>10, <1>c, <2>1 DEF UpsertChapter, Running, MergeForCommit
  <2>3. run.resolved \subseteq DOMAIN skeleton
    BY <1>c, <2>1, ReadyAreNodes
  <2>4. resolved \subseteq All /\ run.resolved \subseteq All
    BY <1>b, <2>3
  <2>5. skeleton \in Plans
    OBVIOUS
  <2> HIDE DEF All
  <2>6. Ready(skeleton, All, resolved) /\ Ready(skeleton, All, run.resolved \cup run.selected)
    BY <1>b, <1>c, <2>1, <2>4, <2>5, ReadyOfMore
  <2>7. All \cup run.selected \subseteq resolved \cup (run.resolved \cup run.selected)
    BY DEF All
  <2>8. Ready(skeleton, All, All \cup run.selected)
    BY <2>6, <2>7, ReadyTogether
  <2> QED
    BY <1>10, <1>e, <2>2, <2>8 DEF UpsertChapter, story, Sure
<1>11. CASE UpdateRuntime
  <2>1. run.stage # "none" /\ run.nodes = skeleton
    BY <1>11, <1>b DEF UpdateRuntime, RunHeld
  <2>2. run'.nodes = run.nodes /\ run'.resolved = run.resolved /\ run'.selected = run.selected
    BY <1>11, <1>c, <2>1 DEF UpdateRuntime, Running
  <2>3. Ready(skeleton, run.resolved, run.resolved)
    BY <1>c, <2>1, ReadyTogether
  <2>4. editor'.at # "accepted"
    BY <1>11, <1>d DEF UpdateRuntime, RunWrites, EditorHolds
  <2> QED
    BY <1>11, <1>c, <2>1, <2>2, <2>3, <2>4 DEF UpdateRuntime, Ordered
<1>12. CASE UpdatePlanOfRun
  <2>1. run.nodes = skeleton
    BY <1>12, <1>b DEF UpdatePlanOfRun, RunHeld
  <2>2. run'.stage = "none" /\ editor'.at # "accepted"
    BY <1>12, <1>d DEF UpdatePlanOfRun, RunWrites, EditorHolds, Idle
  <2> QED
    BY <1>12, <1>b, <2>1, <2>2 DEF UpdatePlanOfRun, Ordered
<1>13. CASE RunRaises
  <2>1. run'.stage = "none"
    BY <1>13 DEF RunRaises, Idle
  <2> QED
    BY <1>13, <1>e, <2>1 DEF RunRaises, story, Sure
<1> QED
  BY <1>1, <1>2, <1>3, <1>4, <1>5, <1>6, <1>7, <1>8, <1>9, <1>10, <1>11, <1>12, <1>13 DEF RunStep

\* recompute_anchor_unlocks, the lock on resolved nodes and the merge of a commit: anchors are
\* resolved in the order of the plan, when every anchor was unlocked as it was aimed at and no
\* writer wrote what another held.
THEOREM ResolvedInOrderHolds == Spec => []ResolvedInOrder
<1>1. Init => Ordered
  BY DEF Init, Ordered, Closed, Idle, Ready
<1>2. TypeInv /\ Held /\ Ordered /\ [Next]_vars => Ordered'
  <2> SUFFICES ASSUME TypeInv, Held, Ordered, [Next]_vars PROVE Ordered'
    OBVIOUS
  <2>1. CASE UNCHANGED vars
    BY <2>1 DEF Ordered, vars
  <2>2. CASE Crash
    <3>1. /\ UNCHANGED <<skeleton, resolved, careless, raced>>
          /\ editor'.at # "accepted" /\ (run' = run \/ run'.stage = "none")
      BY <2>2 DEF Crash, Closed, Idle, story
    <3> QED
      BY <3>1 DEF Ordered
  <2> QED
    BY <2>1, <2>2, CompileKeepsOrder, EditKeepsOrder, RunKeepsOrder DEF Next
<1>3. Ordered => ResolvedInOrder
  BY ReadyIsInOrder DEF Ordered, ResolvedInOrder
<1> QED
  BY <1>1, <1>2, <1>3, TypesHold, HeldHolds, PTL DEF Spec
=============================================================================
