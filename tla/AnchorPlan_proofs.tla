-------------------------- MODULE AnchorPlan_proofs --------------------------
(***************************************************************************)
(* What the code computes from the plot DAG, for every plan that is        *)
(* finite.  The statuses are the least set that is closed under settling,  *)
(* the rounds of Kahn's algorithm leave the greatest set of nodes that     *)
(* depend on each other, so a plan passes the search for cycles exactly    *)
(* when every set of its nodes has one that depends on nothing in it.      *)
(* Both are computed by as many rounds as the plan has nodes, and so are   *)
(* what leads to a node and what hangs together with it; that these are    *)
(* enough is proved once, for any operation on sets that only adds         *)
(* (RoundsSettle).  Induction over the rounds is by the least round that   *)
(* breaks a statement.                                                     *)
(***************************************************************************)
EXTENDS AnchorPlan, Rounds_proofs

(* Statuses and cycles *)

\* recompute_anchor_unlocks settles terminals in rounds.
LEMMA DerivedByRounds ==
  ASSUME NEW plan, NEW resolved, IsFiniteSet(DOMAIN plan),
         NEW X, X = resolved \cup DOMAIN plan,
         NEW F, F = [S \in SUBSET X |-> SettleOnce(plan, S)]
  PROVE  \E f \in Rounds(F, resolved, Cardinality(DOMAIN plan)) :
            Derived(plan, resolved) = f[Cardinality(DOMAIN plan)]
<1> DEFINE N == Cardinality(DOMAIN plan)
           settled == CHOOSE f : f = [k \in 0..N |-> IF k = 0 THEN resolved
                                                      ELSE SettleOnce(plan, f[k - 1])]
<1>0. N \in Nat
  BY FS_CardinalityType
<1>5. Derived(plan, resolved) = settled[N]
  BY DEF Derived
<1> HIDE DEF N
<1>1. F \in StepsOver(X) /\ resolved \in SUBSET X
  BY DEF SettleOnce, Terminals, StepsOver
<1>2. PICK f : f \in Rounds(F, resolved, N)
  <2> DEFINE T == SUBSET X
  <2>1. F \in [T -> T] /\ resolved \in T
    BY <1>1 DEF StepsOver
  <2> HIDE DEF T
  <2> QED BY <1>0, <2>1, RoundsExist
<1>3. f = [k \in 0..N |-> IF k = 0 THEN resolved ELSE SettleOnce(plan, f[k - 1])]
  <2>1. /\ f \in [0..N -> SUBSET X] /\ f[0] = resolved
        /\ \A k \in 1..N : f[k] = F[f[k - 1]]
    BY <1>1, <1>2 DEF Rounds, StepsOver
  <2>2. \A k \in 0..N : k # 0 => k \in 1..N /\ k - 1 \in 0..N
    BY <1>0
  <2>3. \A k \in 0..N : f[k] = IF k = 0 THEN resolved ELSE SettleOnce(plan, f[k - 1])
    BY <2>1, <2>2
  <2> QED BY <2>1, <2>3
<1>4. settled = [k \in 0..N |-> IF k = 0 THEN resolved ELSE SettleOnce(plan, settled[k - 1])]
  BY <1>3
<1> HIDE DEF settled
<1>6. settled \in Rounds(F, resolved, N)
  <2>1. settled = [k \in 0..N |-> settled[k]]
    BY <1>4
  <2>2. settled[0] = resolved
    BY <1>0, <1>4
  <2>3. \A k \in 1..N : settled[k - 1] \in SUBSET X => settled[k] = F[settled[k - 1]]
    <3>1. \A k \in 1..N : settled[k] = SettleOnce(plan, settled[k - 1])
      BY <1>0, <1>4
    <3> QED BY <3>1
  <2> QED BY <1>0, <1>1, <2>1, <2>2, <2>3, RoundsOf DEF StepsOver
<1> QED BY <1>5, <1>6 DEF N

\* The statuses keep what was resolved, add terminals only, and are settled: no terminal is left
\* whose dependencies are resolved.
LEMMA DerivedIsSettled ==
  ASSUME NEW plan, NEW resolved, IsFiniteSet(DOMAIN plan)
  PROVE  /\ resolved \subseteq Derived(plan, resolved)
         /\ Derived(plan, resolved) \subseteq resolved \cup Terminals(plan)
         /\ SettleOnce(plan, Derived(plan, resolved)) = Derived(plan, resolved)
<1> DEFINE X == resolved \cup DOMAIN plan
           F == [S \in SUBSET X |-> SettleOnce(plan, S)]
           N == Cardinality(DOMAIN plan)
<1>1. F \in StepsOver(X) /\ resolved \in SUBSET X /\ DOMAIN plan \in SUBSET X
  BY DEF SettleOnce, Terminals, StepsOver
<1>2. Adds(F, DOMAIN plan)
  BY DEF SettleOnce, Terminals, Adds
<1>3. PICK f \in Rounds(F, resolved, N) : Derived(plan, resolved) = f[N]
  BY DerivedByRounds
<1>4. N \in Nat
  BY FS_CardinalityType
<1>5. \A S \in SUBSET X : F[S] = SettleOnce(plan, S)
  OBVIOUS
<1>6. StaysIn(F, resolved \cup Terminals(plan))
  BY DEF SettleOnce, StaysIn
<1> HIDE DEF X, F, N
<1>7. f[N] \in SUBSET X /\ F[f[N]] = f[N]
  BY <1>1, <1>2, <1>3, RoundsSettle DEF N
<1>8. resolved \subseteq f[N]
  <2>1. \A k \in 0..N : resolved \subseteq f[k]
    BY <1>1, <1>2, <1>3, <1>4, RoundsGrow
  <2> QED BY <1>4, <2>1
<1>9. f[N] \subseteq resolved \cup Terminals(plan)
  BY <1>1, <1>3, <1>4, <1>6, RoundsStayBelow
<1> QED
  BY <1>3, <1>5, <1>7, <1>8, <1>9

\* No terminal counts as resolved without need: the statuses lie in every settled set.
LEMMA DerivedIsLeast ==
  ASSUME NEW plan, NEW resolved, IsFiniteSet(DOMAIN plan),
         NEW C, resolved \subseteq C, SettleOnce(plan, C) \subseteq C
  PROVE  Derived(plan, resolved) \subseteq C
<1> DEFINE X == resolved \cup DOMAIN plan
           F == [S \in SUBSET X |-> SettleOnce(plan, S)]
           N == Cardinality(DOMAIN plan)
<1>1. F \in StepsOver(X) /\ resolved \in SUBSET X
  BY DEF SettleOnce, Terminals, StepsOver
<1>2. StaysIn(F, C)
  BY DEF SettleOnce, StaysIn
<1>3. PICK f \in Rounds(F, resolved, N) : Derived(plan, resolved) = f[N]
  BY DerivedByRounds
<1>4. N \in Nat
  BY FS_CardinalityType
<1> HIDE DEF X, F, N
<1>5. f[N] \subseteq C
  BY <1>1, <1>2, <1>3, <1>4, RoundsStayBelow
<1> QED BY <1>3, <1>5

\* Who resolves more sees no status fall back.
LEMMA DerivedIsMonotone ==
  ASSUME NEW plan, NEW resolved, NEW more, resolved \subseteq more, IsFiniteSet(DOMAIN plan)
  PROVE  Derived(plan, resolved) \subseteq Derived(plan, more)
<1>1. resolved \subseteq Derived(plan, more)
  BY DerivedIsSettled
<1>2. SettleOnce(plan, Derived(plan, more)) \subseteq Derived(plan, more)
  BY DerivedIsSettled
<1> QED BY <1>1, <1>2, DerivedIsLeast

\* The search for cycles takes away, in rounds, what depends on nothing that is left.
LEMMA ResidueByRounds ==
  ASSUME NEW plan, IsFiniteSet(DOMAIN plan),
         NEW F, F = [S \in SUBSET DOMAIN plan |-> Peel(plan, S)]
  PROVE  \E f \in Rounds(F, DOMAIN plan, Cardinality(DOMAIN plan)) :
            Residue(plan) = f[Cardinality(DOMAIN plan)]
<1> DEFINE N == Cardinality(DOMAIN plan)
           X == DOMAIN plan
           rest == CHOOSE f : f = [k \in 0..N |-> IF k = 0 THEN X
                                                   ELSE Peel(plan, f[k - 1])]
<1>0. N \in Nat
  BY FS_CardinalityType
<1>5. Residue(plan) = rest[N]
  BY DEF Residue
<1> HIDE DEF N
<1>1. F \in StepsOver(X) /\ X \in SUBSET X
  BY DEF Peel, StepsOver
<1>2. PICK f : f \in Rounds(F, X, N)
  <2> DEFINE T == SUBSET X
  <2>1. F \in [T -> T] /\ X \in T
    BY <1>1 DEF StepsOver
  <2> HIDE DEF T, X
  <2> QED BY <1>0, <2>1, RoundsExist
<1>3. f = [k \in 0..N |-> IF k = 0 THEN X ELSE Peel(plan, f[k - 1])]
  <2>1. /\ f \in [0..N -> SUBSET X] /\ f[0] = X
        /\ \A k \in 1..N : f[k] = F[f[k - 1]]
    BY <1>1, <1>2 DEF Rounds, StepsOver
  <2>2. \A k \in 0..N : k # 0 => k \in 1..N /\ k - 1 \in 0..N
    BY <1>0
  <2>3. \A k \in 0..N : f[k] = IF k = 0 THEN X ELSE Peel(plan, f[k - 1])
    BY <2>1, <2>2
  <2> QED BY <2>1, <2>3
<1>4. rest = [k \in 0..N |-> IF k = 0 THEN X ELSE Peel(plan, rest[k - 1])]
  BY <1>3
<1> HIDE DEF rest
<1>6. rest \in Rounds(F, X, N)
  <2>1. rest = [k \in 0..N |-> rest[k]]
    BY <1>4
  <2>2. rest[0] = X
    BY <1>0, <1>4
  <2>3. \A k \in 1..N : rest[k - 1] \in SUBSET X => rest[k] = F[rest[k - 1]]
    <3>1. \A k \in 1..N : rest[k] = Peel(plan, rest[k - 1])
      BY <1>0, <1>4
    <3> QED BY <3>1
  <2> QED BY <1>0, <1>1, <2>1, <2>2, <2>3, RoundsOf DEF StepsOver
<1> QED BY <1>5, <1>6 DEF N

\* What the search leaves over cannot be taken away.
LEMMA ResidueIsPeeled ==
  ASSUME NEW plan, IsFiniteSet(DOMAIN plan)
  PROVE  Residue(plan) \subseteq DOMAIN plan /\ Peel(plan, Residue(plan)) = Residue(plan)
<1> DEFINE X == DOMAIN plan
           F == [S \in SUBSET X |-> Peel(plan, S)]
           N == Cardinality(X)
           G == [S \in SUBSET X |-> X \ F[X \ S]]
<1>1. PICK f \in Rounds(F, X, N) : Residue(plan) = f[N]
  BY ResidueByRounds
<1> DEFINE g == [k \in 0..N |-> X \ f[k]]
<1>2. N \in Nat
  BY FS_CardinalityType
<1>3. G \in StepsOver(X)
  BY DEF StepsOver
<1>4. Adds(G, X)
  BY DEF Adds, Peel
<1>5. /\ f \in [0..N -> SUBSET X] /\ f[0] = X
      /\ \A k \in 1..N : f[k] = F[f[k - 1]]
  BY <1>1 DEF Rounds
<1>typed. F \in [SUBSET X -> SUBSET X]
  BY DEF Peel
<1>dom. DOMAIN G = SUBSET X
  OBVIOUS
<1> HIDE DEF N, F
<1>6. g \in Rounds(G, {}, N)
  <2>1. g \in [0..N -> SUBSET X]
    OBVIOUS
  <2>2. g[0] = {}
    BY <1>2, <1>5
  <2>3. ASSUME NEW k \in 1..N
        PROVE  g[k] = G[g[k - 1]]
    <3>1. k \in 0..N /\ k - 1 \in 0..N
      BY <1>2
    <3>2. X \ (X \ f[k - 1]) = f[k - 1]
      BY <1>5, <3>1
    <3>3. g[k] = X \ F[f[k - 1]]
      BY <1>5, <3>1
    <3>4. G[g[k - 1]] = X \ F[X \ (X \ f[k - 1])]
      BY <3>1
    <3> QED BY <3>2, <3>3, <3>4
  <2> HIDE DEF g, G
  <2> QED BY <1>dom, <2>1, <2>2, <2>3 DEF Rounds
<1> HIDE DEF G
<1>7. g[N] \in SUBSET X /\ G[g[N]] = g[N]
  <2> HIDE DEF g, X
  <2>1. X \in SUBSET X /\ {} \in SUBSET X /\ IsFiniteSet(X)
    BY DEF X
  <2> QED BY <1>3, <1>4, <1>6, <2>1, RoundsSettle DEF N
<1>8. F[f[N]] = f[N] /\ f[N] \in SUBSET X
  <2>1. f[N] \in SUBSET X /\ g[N] = X \ f[N]
    BY <1>2, <1>5
  <2>2. G[g[N]] = X \ F[X \ (X \ f[N])]
    BY <2>1 DEF G
  <2>3. X \ (X \ f[N]) = f[N]
    BY <2>1
  <2>4. F[f[N]] \in SUBSET X
    BY <1>typed, <2>1
  <2>5. X \ F[f[N]] = X \ f[N]
    BY <1>7, <2>1, <2>2, <2>3
  <2> QED BY <2>1, <2>4, <2>5
<1> QED
  BY <1>1, <1>8 DEF F

\* A set of nodes each of which depends on another of the set is never taken away.
LEMMA ResidueIsGreatest ==
  ASSUME NEW plan, IsFiniteSet(DOMAIN plan),
         NEW S \in SUBSET DOMAIN plan, \A n \in S : plan[n].deps \cap S # {}
  PROVE  S \subseteq Residue(plan)
<1> DEFINE X == DOMAIN plan
           F == [Z \in SUBSET X |-> Peel(plan, Z)]
           N == Cardinality(X)
<1>1. PICK f \in Rounds(F, X, N) : Residue(plan) = f[N]
  BY ResidueByRounds
<1>2. N \in Nat
  BY FS_CardinalityType
<1>5. /\ f \in [0..N -> SUBSET X] /\ f[0] = X
      /\ \A k \in 1..N : f[k] = F[f[k - 1]]
  BY <1>1 DEF Rounds
<1> HIDE DEF N
<1> DEFINE I == {n \in Nat : n <= N => S \subseteq f[n]}
<1>3. 0 \in I
  BY <1>5
<1>4. ASSUME NEW n \in Nat, n \in I
      PROVE  n + 1 \in I
  <2> SUFFICES ASSUME n + 1 <= N PROVE S \subseteq f[n + 1]
    OBVIOUS
  <2>1. n \in 0..N /\ n + 1 \in 1..N /\ n + 1 - 1 = n
    BY <1>2
  <2>2. f[n] \in SUBSET X /\ S \subseteq f[n]
    BY <1>4, <1>5, <2>1
  <2>3. f[n + 1] = F[f[n]]
    <3>1. f[n + 1] = F[f[(n + 1) - 1]]
      BY <1>5, <2>1
    <3> QED BY <2>1, <3>1
  <2>4. f[n + 1] = Peel(plan, f[n])
    BY <2>2, <2>3
  <2> QED BY <2>2, <2>4 DEF Peel
<1> HIDE DEF I
<1>6. Nat \subseteq I
  BY <1>3, <1>4, Induction
<1> QED BY <1>1, <1>2, <1>6 DEF I

\* The search finds no cycle exactly when every set of nodes has one to begin with.
LEMMA AcyclicMeansFounded ==
  ASSUME NEW plan, IsFiniteSet(DOMAIN plan)
  PROVE  Acyclic(plan) <=> \A S \in SUBSET DOMAIN plan :
                              S # {} => \E n \in S : plan[n].deps \cap S = {}
<1>1. ASSUME Acyclic(plan), NEW S \in SUBSET DOMAIN plan, S # {}
      PROVE  \E n \in S : plan[n].deps \cap S = {}
  BY <1>1, ResidueIsGreatest DEF Acyclic
<1>2. ASSUME \A S \in SUBSET DOMAIN plan :
                S # {} => \E n \in S : plan[n].deps \cap S = {}
      PROVE  Acyclic(plan)
  BY <1>2, ResidueIsPeeled DEF Acyclic, Peel
<1> QED BY <1>1, <1>2
-----------------------------------------------------------------------------
(* Anchors that are resolved in the order of the plan *)

Extends(p, q) == \A n \in DOMAIN p : n \in DOMAIN q /\ q[n] = p[n]

\* Every anchor of S has its dependencies behind it.
Ready(plan, done, S) ==
  S \subseteq DOMAIN plan /\ \A n \in S : plan[n].deps \subseteq Derived(plan, done)

\* A plan with more nodes settles no less.
LEMMA DerivedExtends ==
  ASSUME NEW p, NEW q, Extends(p, q), IsFiniteSet(DOMAIN p), IsFiniteSet(DOMAIN q), NEW done
  PROVE  Derived(p, done) \subseteq Derived(q, done)
<1>1. done \subseteq Derived(q, done)
  BY DerivedIsSettled
<1>2. SettleOnce(q, Derived(q, done)) = Derived(q, done)
  BY DerivedIsSettled
<1>3. SettleOnce(p, Derived(q, done)) \subseteq SettleOnce(q, Derived(q, done))
  BY DEF SettleOnce, Terminals, Extends
<1> QED BY <1>1, <1>2, <1>3, DerivedIsLeast

\* More nodes and more resolved anchors keep an anchor ready.
LEMMA ReadyStays ==
  ASSUME NEW p, NEW q, Extends(p, q), IsFiniteSet(DOMAIN p), IsFiniteSet(DOMAIN q),
         NEW done, NEW more, done \subseteq more,
         NEW S, Ready(p, done, S)
  PROVE  Ready(q, more, S)
<1>1. Derived(p, done) \subseteq Derived(q, more)
  BY DerivedExtends, DerivedIsMonotone
<1> QED BY <1>1 DEF Ready, Extends

\* The candidates for a chapter are ready.
LEMMA OpenIsReady ==
  ASSUME NEW plan, NEW done, NEW S \in SUBSET Frontier(plan, done)
  PROVE  Ready(plan, done, S)
  BY DEF Frontier, Ready

\* state_injection: an anchor that depends on nothing closes no cycle.
LEMMA InjectedStaysSound ==
  ASSUME NEW p, NEW q, NEW new, IsFiniteSet(DOMAIN p), Sound(p),
         DOMAIN q = DOMAIN p \cup {new}, Extends(p, q), q[new].deps = {}
  PROVE  Sound(q)
<1>1. IsFiniteSet(DOMAIN q)
  BY FS_AddElement
<1>2. DepsKnown(q)
  BY DEF DepsKnown, Sound, Extends
<1>3. ASSUME NEW S \in SUBSET DOMAIN q, S # {}
      PROVE  \E n \in S : q[n].deps \cap S = {}
  <2>1. CASE new \in S
    BY <2>1
  <2>2. CASE new \notin S
    <3>1. S \in SUBSET DOMAIN p
      BY <2>2
    <3>2. PICK n \in S : p[n].deps \cap S = {}
      BY <1>3, <3>1, AcyclicMeansFounded DEF Sound
    <3> QED BY <3>1, <3>2 DEF Extends
  <2> QED BY <2>1, <2>2
<1>4. Acyclic(q)
  BY <1>1, <1>3, AcyclicMeansFounded
<1> QED BY <1>2, <1>4 DEF Sound

\* The story that has no plan yet.
LEMMA EmptyPlanIsSound ==
  ASSUME NEW p, DOMAIN p = {}
  PROVE  Sound(p)
<1>1. IsFiniteSet({})
  BY FS_EmptySet
<1>2. Acyclic(p)
  BY <1>1, AcyclicMeansFounded
<1> QED BY <1>2 DEF Sound, DepsKnown

(* What leads to a node, and what hangs together with it *)

\* What leads to the targets is found in rounds.
LEMMA ReachingByRounds ==
  ASSUME NEW plan, NEW targets, IsFiniteSet(DOMAIN plan),
         NEW X, X = targets \cup DOMAIN plan,
         NEW F, F = [S \in SUBSET X |-> StepBack(plan, S)]
  PROVE  \E f \in Rounds(F, targets, Cardinality(DOMAIN plan)) :
            Reaching(plan, targets) = f[Cardinality(DOMAIN plan)]
<1> DEFINE N == Cardinality(DOMAIN plan)
           back == CHOOSE f : f = [k \in 0..N |-> IF k = 0 THEN targets
                                                      ELSE StepBack(plan, f[k - 1])]
<1>0. N \in Nat
  BY FS_CardinalityType
<1>5. Reaching(plan, targets) = back[N]
  BY DEF Reaching
<1> HIDE DEF N
<1>1. F \in StepsOver(X) /\ targets \in SUBSET X
  BY DEF StepBack, StepsOver
<1>2. PICK f : f \in Rounds(F, targets, N)
  <2> DEFINE T == SUBSET X
  <2>1. F \in [T -> T] /\ targets \in T
    BY <1>1 DEF StepsOver
  <2> HIDE DEF T
  <2> QED BY <1>0, <2>1, RoundsExist
<1>3. f = [k \in 0..N |-> IF k = 0 THEN targets ELSE StepBack(plan, f[k - 1])]
  <2>1. /\ f \in [0..N -> SUBSET X] /\ f[0] = targets
        /\ \A k \in 1..N : f[k] = F[f[k - 1]]
    BY <1>1, <1>2 DEF Rounds, StepsOver
  <2>2. \A k \in 0..N : k # 0 => k \in 1..N /\ k - 1 \in 0..N
    BY <1>0
  <2>3. \A k \in 0..N : f[k] = IF k = 0 THEN targets ELSE StepBack(plan, f[k - 1])
    BY <2>1, <2>2
  <2> QED BY <2>1, <2>3
<1>4. back = [k \in 0..N |-> IF k = 0 THEN targets ELSE StepBack(plan, back[k - 1])]
  BY <1>3
<1> HIDE DEF back
<1>6. back \in Rounds(F, targets, N)
  <2>1. back = [k \in 0..N |-> back[k]]
    BY <1>4
  <2>2. back[0] = targets
    BY <1>0, <1>4
  <2>3. \A k \in 1..N : back[k - 1] \in SUBSET X => back[k] = F[back[k - 1]]
    <3>1. \A k \in 1..N : back[k] = StepBack(plan, back[k - 1])
      BY <1>0, <1>4
    <3> QED BY <3>1
  <2> QED BY <1>0, <1>1, <2>1, <2>2, <2>3, RoundsOf DEF StepsOver
<1> QED BY <1>5, <1>6 DEF N

\* What leads to the targets is closed under dependencies.
LEMMA ReachingIsClosed ==
  ASSUME NEW plan, NEW targets, IsFiniteSet(DOMAIN plan)
  PROVE  /\ targets \subseteq Reaching(plan, targets)
         /\ Reaching(plan, targets) \subseteq targets \cup DOMAIN plan
         /\ StepBack(plan, Reaching(plan, targets)) = Reaching(plan, targets)
<1> DEFINE X == targets \cup DOMAIN plan
           F == [S \in SUBSET X |-> StepBack(plan, S)]
           N == Cardinality(DOMAIN plan)
<1>1. F \in StepsOver(X) /\ targets \in SUBSET X /\ DOMAIN plan \in SUBSET X
  BY DEF StepBack, StepsOver
<1>2. Adds(F, DOMAIN plan)
  BY DEF StepBack, Adds
<1>3. PICK f \in Rounds(F, targets, N) : Reaching(plan, targets) = f[N]
  BY ReachingByRounds
<1>4. N \in Nat
  BY FS_CardinalityType
<1>5. \A S \in SUBSET X : F[S] = StepBack(plan, S)
  OBVIOUS
<1>6. StaysIn(F, X)
  BY DEF StepBack, StaysIn
<1> HIDE DEF X, F, N
<1>7. f[N] \in SUBSET X /\ F[f[N]] = f[N]
  BY <1>1, <1>2, <1>3, RoundsSettle DEF N
<1>8. targets \subseteq f[N]
  <2>1. \A k \in 0..N : targets \subseteq f[k]
    BY <1>1, <1>2, <1>3, <1>4, RoundsGrow
  <2> QED BY <1>4, <2>1
<1> QED BY <1>3, <1>5, <1>7, <1>8 DEF X

\* So is what hangs together with a node.
LEMMA ComponentByRounds ==
  ASSUME NEW plan, NEW start, IsFiniteSet(DOMAIN plan),
         NEW X, X = {start} \cup DOMAIN plan,
         NEW F, F = [S \in SUBSET X |-> Spread(plan, S)]
  PROVE  \E f \in Rounds(F, {start}, Cardinality(DOMAIN plan)) :
            Component(plan, start) = f[Cardinality(DOMAIN plan)]
<1> DEFINE N == Cardinality(DOMAIN plan)
           seen == CHOOSE f : f = [k \in 0..N |-> IF k = 0 THEN {start}
                                                      ELSE Spread(plan, f[k - 1])]
<1>0. N \in Nat
  BY FS_CardinalityType
<1>5. Component(plan, start) = seen[N]
  BY DEF Component
<1> HIDE DEF N
<1>1. F \in StepsOver(X) /\ {start} \in SUBSET X
  BY DEF Spread, StepBack, StepsOver
<1>2. PICK f : f \in Rounds(F, {start}, N)
  <2> DEFINE T == SUBSET X
  <2>1. F \in [T -> T] /\ {start} \in T
    BY <1>1 DEF StepsOver
  <2> HIDE DEF T
  <2> QED BY <1>0, <2>1, RoundsExist
<1>3. f = [k \in 0..N |-> IF k = 0 THEN {start} ELSE Spread(plan, f[k - 1])]
  <2>1. /\ f \in [0..N -> SUBSET X] /\ f[0] = {start}
        /\ \A k \in 1..N : f[k] = F[f[k - 1]]
    BY <1>1, <1>2 DEF Rounds, StepsOver
  <2>2. \A k \in 0..N : k # 0 => k \in 1..N /\ k - 1 \in 0..N
    BY <1>0
  <2>3. \A k \in 0..N : f[k] = IF k = 0 THEN {start} ELSE Spread(plan, f[k - 1])
    BY <2>1, <2>2
  <2> QED BY <2>1, <2>3
<1>4. seen = [k \in 0..N |-> IF k = 0 THEN {start} ELSE Spread(plan, seen[k - 1])]
  BY <1>3
<1> HIDE DEF seen
<1>6. seen \in Rounds(F, {start}, N)
  <2>1. seen = [k \in 0..N |-> seen[k]]
    BY <1>4
  <2>2. seen[0] = {start}
    BY <1>0, <1>4
  <2>3. \A k \in 1..N : seen[k - 1] \in SUBSET X => seen[k] = F[seen[k - 1]]
    <3>1. \A k \in 1..N : seen[k] = Spread(plan, seen[k - 1])
      <4> DEFINE first == {start}
      <4>1. seen = [k \in 0..N |-> IF k = 0 THEN first ELSE Spread(plan, seen[k - 1])]
        BY <1>4
      <4> HIDE DEF first
      <4> QED BY <1>0, <4>1
    <3> QED BY <3>1
  <2> QED BY <1>0, <1>1, <2>1, <2>2, <2>3, RoundsOf DEF StepsOver
<1> QED BY <1>5, <1>6 DEF N

\* What hangs together with a node is closed under dependencies, taken both ways.
LEMMA ComponentIsClosed ==
  ASSUME NEW plan, NEW start, IsFiniteSet(DOMAIN plan)
  PROVE  /\ start \in Component(plan, start)
         /\ Spread(plan, Component(plan, start)) = Component(plan, start)
<1> DEFINE T == {start}
           X == T \cup DOMAIN plan
           F == [S \in SUBSET X |-> Spread(plan, S)]
           N == Cardinality(DOMAIN plan)
<1>1. F \in StepsOver(X) /\ T \in SUBSET X /\ DOMAIN plan \in SUBSET X
  BY DEF Spread, StepBack, StepsOver
<1>2. Adds(F, DOMAIN plan)
  BY DEF Spread, StepBack, Adds
<1>3. PICK f \in Rounds(F, T, N) : Component(plan, start) = f[N]
  BY ComponentByRounds
<1>4. N \in Nat
  BY FS_CardinalityType
<1>5. \A S \in SUBSET X : F[S] = Spread(plan, S)
  OBVIOUS
<1> HIDE DEF X, F, N
<1>7. f[N] \in SUBSET X /\ F[f[N]] = f[N]
  <2> HIDE DEF T
  <2> QED BY <1>1, <1>2, <1>3, RoundsSettle DEF N
<1>8. T \subseteq f[N]
  <2>1. \A k \in 0..N : T \subseteq f[k]
    <3> HIDE DEF T
    <3> QED BY <1>1, <1>2, <1>3, <1>4, RoundsGrow
  <2> QED BY <1>4, <2>1
<1> QED BY <1>3, <1>5, <1>7, <1>8
=============================================================================
