---------------------------- MODULE Rounds_proofs ----------------------------
(***************************************************************************)
(* Repetition, for the proofs about functions that are defined by          *)
(* recursion and about folds. A number of rounds of an operation exists    *)
(* and is unique; rounds that only add to a set end once nothing of a      *)
(* finite set is left to add; a fold goes step by step. Induction over     *)
(* numbers is by the least one that breaks a statement.                    *)
(***************************************************************************)
EXTENDS Integers, FiniteSetsExt, WellFoundedInduction, FiniteSetTheorems, TLAPS

\* A set of numbers has a least one.
LEMMA LeastNumber ==
  ASSUME NEW S \in SUBSET Nat, S # {}
  PROVE  \E n \in S : \A m \in S : n <= m
<1>1. \E n \in S : \A m \in S : ~(<<m, n>> \in OpToRel(<, Nat))
  BY NatLessThanWellFounded, WFMin, Zenon
<1>2. PICK n \in S : \A m \in S : ~(<<m, n>> \in OpToRel(<, Nat))
  BY <1>1
<1>3. \A m \in S : ~(m < n)
  BY <1>2 DEF OpToRel
<1> QED
  BY <1>3

\* What holds of zero and of the successor of whatever it holds of, holds of every number.
LEMMA Induction ==
  ASSUME NEW S, 0 \in S, \A n \in Nat : n \in S => n + 1 \in S
  PROVE  Nat \subseteq S
<1> SUFFICES ASSUME Nat \ S # {} PROVE FALSE
  OBVIOUS
<1>1. PICK n \in Nat \ S : \A m \in Nat \ S : n <= m
  BY LeastNumber
<1>2. n # 0
  BY <1>1
<1>3. n - 1 \in Nat /\ n - 1 + 1 = n /\ ~(n <= n - 1)
  BY <1>2
<1>4. n - 1 \in S
  BY <1>1, <1>3
<1> QED
  BY <1>1, <1>3, <1>4

\* The rounds of a computation: what F makes of a, again and again.
Rounds(F, a, N) == {f \in [0..N -> DOMAIN F] : f[0] = a /\ \A k \in 1..N : f[k] = F[f[k - 1]]}

\* Operations on the sets of elements of X; those that only add to a set, none but elements of
\* Y; and the sets one does not lead out of.
StepsOver(X)   == [SUBSET X -> SUBSET X]
Adds(F, Y)     == \A S \in DOMAIN F : S \subseteq F[S] /\ F[S] \subseteq S \cup Y
StaysIn(F, C)  == \A S \in DOMAIN F : S \subseteq C => F[S] \subseteq C

\* There are rounds of every operation, however many are asked for.
LEMMA RoundsExist ==
  ASSUME NEW T, NEW F \in [T -> T], NEW a \in T, NEW N \in Nat
  PROVE  Rounds(F, a, N) # {}
<1> DEFINE S == {n \in Nat : Rounds(F, a, n) # {}}
<1>1. 0 \in S
  <2>1. [k \in 0..0 |-> a] \in Rounds(F, a, 0)
    BY DEF Rounds
  <2> QED BY <2>1
<1>2. ASSUME NEW n \in Nat, n \in S
      PROVE  n + 1 \in S
  <2>1. PICK f : f \in Rounds(F, a, n)
    BY <1>2
  <2> DEFINE g == [k \in 0..n + 1 |-> IF k = n + 1 THEN F[f[n]] ELSE f[k]]
  <2>2. f \in [0..n -> T] /\ f[0] = a /\ \A k \in 1..n : f[k] = F[f[k - 1]]
    BY <2>1 DEF Rounds
  <2>3. g \in [0..n + 1 -> T]
    BY <2>2
  <2>4. g[0] = a
    BY <2>2
  <2>5. ASSUME NEW k \in 1..n + 1
        PROVE  g[k] = F[g[k - 1]]
    <3>1. CASE k = n + 1
      BY <2>2, <3>1
    <3>2. CASE k # n + 1
      <4>1. k \in 1..n /\ k - 1 \in 0..n /\ k - 1 # n + 1 /\ k \in 0..n + 1 /\ k - 1 \in 0..n + 1
        BY <3>2
      <4> QED BY <2>2, <3>2, <4>1
    <3> QED BY <3>1, <3>2
  <2>6. g \in Rounds(F, a, n + 1)
    BY <2>3, <2>4, <2>5 DEF Rounds
  <2> QED BY <2>6
<1> HIDE DEF S
<1>3. Nat \subseteq S
  BY <1>1, <1>2, Induction
<1> QED
  BY <1>3 DEF S

\* Rounds that only add keep what they began with.
LEMMA RoundsGrow ==
  ASSUME NEW X, NEW F \in StepsOver(X), NEW a \in SUBSET X, NEW N \in Nat,
         NEW f \in Rounds(F, a, N),
         NEW Y, Adds(F, Y)
  PROVE  \A k \in 0..N : a \subseteq f[k]
<1> USE DEF Adds, StepsOver
<1> DEFINE S == {n \in Nat : n <= N => a \subseteq f[n]}
<1>0. f \in [0..N -> SUBSET X] /\ f[0] = a /\ \A k \in 1..N : f[k] = F[f[k - 1]]
  BY DEF Rounds, StepsOver
<1>1. 0 \in S
  BY <1>0
<1>2. ASSUME NEW n \in Nat, n \in S
      PROVE  n + 1 \in S
  <2> SUFFICES ASSUME n + 1 <= N PROVE a \subseteq f[n + 1]
    OBVIOUS
  <2>1. n \in 0..N /\ n + 1 \in 1..N /\ n + 1 - 1 = n
    OBVIOUS
  <2>2. f[n + 1] = F[f[n]]
    BY <1>0, <2>1
  <2> QED BY <1>0, <1>2, <2>1, <2>2
<1> HIDE DEF S
<1>3. Nat \subseteq S
  BY <1>1, <1>2, Induction
<1> QED
  BY <1>3 DEF S

\* Rounds do not leave a set the operation does not lead out of.
LEMMA RoundsStayBelow ==
  ASSUME NEW X, NEW F \in StepsOver(X), NEW a \in SUBSET X, NEW N \in Nat,
         NEW f \in Rounds(F, a, N),
         NEW C, a \subseteq C, StaysIn(F, C)
  PROVE  f[N] \subseteq C
<1> USE DEF StaysIn, StepsOver
<1> DEFINE S == {n \in Nat : n <= N => f[n] \subseteq C}
<1>0. f \in [0..N -> SUBSET X] /\ f[0] = a /\ \A k \in 1..N : f[k] = F[f[k - 1]]
  BY DEF Rounds, StepsOver
<1>1. 0 \in S
  BY <1>0
<1>2. ASSUME NEW n \in Nat, n \in S
      PROVE  n + 1 \in S
  <2> SUFFICES ASSUME n + 1 <= N PROVE f[n + 1] \subseteq C
    OBVIOUS
  <2>1. n \in 0..N /\ n + 1 \in 1..N /\ n + 1 - 1 = n
    OBVIOUS
  <2>2. f[n + 1] = F[f[n]] /\ f[n] \in SUBSET X
    BY <1>0, <2>1
  <2> QED BY <1>2, <2>1, <2>2
<1> HIDE DEF S
<1>3. Nat \subseteq S
  BY <1>1, <1>2, Induction
<1> QED
  BY <1>3 DEF S

\* Rounds that only add elements of Y are over after as many of them as Y has elements.
LEMMA RoundsSettle ==
  ASSUME NEW X, NEW Y \in SUBSET X, IsFiniteSet(Y),
         NEW F \in StepsOver(X), NEW a \in SUBSET X,
         Adds(F, Y),
         NEW f \in Rounds(F, a, Cardinality(Y))
  PROVE  f[Cardinality(Y)] \in SUBSET X /\ F[f[Cardinality(Y)]] = f[Cardinality(Y)]
<1> USE DEF Adds, StepsOver
<1> DEFINE N == Cardinality(Y)
           S == {n \in Nat : n <= N => F[f[n]] = f[n] \/ Cardinality(f[n] \cap Y) >= n}
<1>size. N \in Nat
  BY FS_CardinalityType
<1> HIDE DEF N
<1>0. f \in [0..N -> SUBSET X] /\ f[0] = a /\ \A k \in 1..N : f[k] = F[f[k - 1]]
  BY DEF Rounds, StepsOver, N
<1>card. ASSUME NEW Z \in SUBSET X
      PROVE  /\ IsFiniteSet(Z \cap Y) /\ Cardinality(Z \cap Y) \in Nat
             /\ Cardinality(Z \cap Y) <= N
             /\ Cardinality(Z \cap Y) = N => Z \cap Y = Y
  BY FS_Subset, FS_CardinalityType DEF N
<1>1. 0 \in S
  <2>1. f[0] \in SUBSET X
    BY <1>0
  <2>2. Cardinality(f[0] \cap Y) \in Nat
    BY <1>card, <2>1
  <2>3. Cardinality(f[0] \cap Y) >= 0
    BY <2>2
  <2> QED BY <2>3
<1>2. ASSUME NEW n \in Nat, n \in S
      PROVE  n + 1 \in S
  <2> SUFFICES ASSUME n + 1 <= N
               PROVE  F[f[n + 1]] = f[n + 1] \/ Cardinality(f[n + 1] \cap Y) >= n + 1
    OBVIOUS
  <2>1. n \in 0..N /\ n + 1 \in 1..N /\ n + 1 - 1 = n
    BY <1>size
  <2>2. f[n + 1] = F[f[n]] /\ f[n] \in SUBSET X /\ f[n + 1] \in SUBSET X
    BY <1>0, <2>1
  <2>3. CASE F[f[n]] = f[n]
    BY <2>2, <2>3
  <2>4. CASE F[f[n]] # f[n]
    <3>1. Cardinality(f[n] \cap Y) >= n
      BY <1>2, <2>1, <2>4
    <3>2. f[n] \cap Y \subseteq f[n + 1] \cap Y /\ f[n] \cap Y # f[n + 1] \cap Y
      <4>1. f[n] \subseteq f[n + 1] /\ f[n + 1] \subseteq f[n] \cup Y /\ f[n] # f[n + 1]
        BY <2>2, <2>4
      <4> QED BY <4>1
    <3>3. IsFiniteSet(f[n + 1] \cap Y)
      BY <1>card, <2>2
    <3>4. Cardinality(f[n] \cap Y) < Cardinality(f[n + 1] \cap Y)
      <4> DEFINE P == f[n] \cap Y
                 Q == f[n + 1] \cap Y
      <4> HIDE DEF P, Q
      <4>1. P \in SUBSET Q /\ P # Q /\ IsFiniteSet(Q)
        BY <3>2, <3>3 DEF P, Q
      <4>2. Cardinality(P) <= Cardinality(Q) /\ Cardinality(P) # Cardinality(Q)
        BY <4>1, FS_Subset
      <4>3. Cardinality(P) \in Nat /\ Cardinality(Q) \in Nat
        BY <4>1, FS_Subset, FS_CardinalityType
      <4> QED BY <4>2, <4>3 DEF P, Q
    <3>5. Cardinality(f[n] \cap Y) \in Nat /\ Cardinality(f[n + 1] \cap Y) \in Nat
      BY <1>card, <2>2
    <3> QED BY <3>1, <3>4, <3>5
  <2> QED BY <2>3, <2>4
<1> HIDE DEF S
<1>3. Nat \subseteq S
  BY <1>1, <1>2, Induction
<1>4. f[N] \in SUBSET X
  BY <1>0, <1>size
<1>5. CASE F[f[N]] = f[N]
  BY <1>4, <1>5 DEF N
<1>6. CASE Cardinality(f[N] \cap Y) >= N
  <2>1. f[N] \cap Y = Y
    <3>1. /\ Cardinality(f[N] \cap Y) \in Nat
          /\ Cardinality(f[N] \cap Y) <= N
          /\ Cardinality(f[N] \cap Y) = N => f[N] \cap Y = Y
      BY <1>card, <1>4
    <3> QED BY <3>1, <1>6, <1>size
  <2>2. F[f[N]] = f[N]
    BY <1>4, <2>1
  <2> QED BY <1>4, <2>2 DEF N
<1> QED
  BY <1>3, <1>5, <1>6, <1>size DEF S

\* A function that is computed by rounds.
LEMMA RoundsOf ==
  ASSUME NEW T, NEW F \in [T -> T], NEW a \in T, NEW N \in Nat, NEW f,
         f = [k \in 0..N |-> f[k]],
         f[0] = a,
         \A k \in 1..N : f[k - 1] \in T => f[k] = F[f[k - 1]]
  PROVE  f \in Rounds(F, a, N)
<1> DEFINE S == {n \in Nat : n <= N => f[n] \in T}
<1>1. 0 \in S
  OBVIOUS
<1>2. ASSUME NEW n \in Nat, n \in S
      PROVE  n + 1 \in S
  <2> SUFFICES ASSUME n + 1 <= N PROVE f[n + 1] \in T
    OBVIOUS
  <2>1. n + 1 \in 1..N /\ n + 1 - 1 = n /\ n <= N
    OBVIOUS
  <2>2. f[n] \in T
    BY <1>2, <2>1
  <2>3. f[(n + 1) - 1] \in T
    BY <2>1, <2>2
  <2>4. f[n + 1] = F[f[(n + 1) - 1]]
    BY <2>1, <2>3
  <2> QED BY <2>3, <2>4
<1> HIDE DEF S
<1>3. Nat \subseteq S
  BY <1>1, <1>2, Induction
<1>4. \A k \in 0..N : f[k] \in T
  BY <1>3 DEF S
<1>5. \A k \in 1..N : k - 1 \in 0..N
  OBVIOUS
<1>6. \A k \in 1..N : f[k] = F[f[k - 1]]
  BY <1>4, <1>5
<1>7. f \in [0..N -> T]
  BY <1>4
<1> QED BY <1>6, <1>7 DEF Rounds
-----------------------------------------------------------------------------
(* Folds. The operator of a fold is given as a function G on its places and the values so far. *)
(* iter is the function on sets of places by which the library defines the fold.               *)

\* The last place of a set that ends with k.
LEMMA MaxOfInitial ==
  ASSUME NEW k \in Nat, k # 0, NEW s \in SUBSET (1..k), k \in s
  PROVE  Max(s) = k
<1>1. \A y \in s : k >= y
  OBVIOUS
<1>2. \E x \in s : \A y \in s : x >= y
  BY <1>1
<1>3. Max(s) \in s /\ \A y \in s : Max(s) >= y
  BY <1>2 DEF Max
<1>4. \A m \in s : (\A y \in s : m >= y) => m = k
  <2> SUFFICES ASSUME NEW m \in s, \A y \in s : m >= y PROVE m = k
    OBVIOUS
  <2>1. m >= k /\ k >= m /\ m \in Nat
    BY <1>1
  <2> QED BY <2>1
<1> QED BY <1>3, <1>4

\* A nonempty set of places has a last one.
LEMMA MaxIsElement ==
  ASSUME NEW n \in Nat, NEW s \in SUBSET (1..n), s # {}
  PROVE  Max(s) \in s /\ \A y \in s : y <= Max(s)
<1> DEFINE S == {k \in Nat : \A t \in SUBSET (1..k) : t # {} => \E x \in t : \A y \in t : x >= y}
<1>1. 0 \in S
  <2>1. \A t \in SUBSET (1..0) : t = {}
    OBVIOUS
  <2> QED BY <2>1
<1>2. ASSUME NEW k \in Nat, k \in S
      PROVE  k + 1 \in S
  <2> SUFFICES ASSUME NEW t \in SUBSET (1..k + 1), t # {}
               PROVE  \E x \in t : \A y \in t : x >= y
    OBVIOUS
  <2>1. CASE k + 1 \in t
    <3>1. \A y \in t : k + 1 >= y
      OBVIOUS
    <3> QED BY <2>1, <3>1
  <2>2. CASE k + 1 \notin t
    <3>1. t \in SUBSET (1..k)
      BY <2>2
    <3> QED BY <1>2, <3>1
  <2> QED BY <2>1, <2>2
<1> HIDE DEF S
<1>3. Nat \subseteq S
  BY <1>1, <1>2, Induction
<1>4. \E x \in s : \A y \in s : x >= y
  BY <1>3 DEF S
<1>5. Max(s) \in s /\ \A y \in s : Max(s) >= y
  BY <1>4 DEF Max
<1> QED BY <1>5

\* Steps(G, a, N, f): f[k] is what the first k places of a fold make of a.
Steps(G, a, N, f) == f[0] = a /\ \A k \in 1..N : f[k] = G[<<k, f[k - 1]>>]

\* FoldsTo(T, G, a, N, x): and x is what all of them make of it.
FoldsTo(T, G, a, N, x) == \E f \in [0..N -> T] : Steps(G, a, N, f) /\ x = f[N]

\* Iterates(iter, G, a, N): iter[s] is what the places of s make of a, the last one last.
Iterates(iter, G, a, N) ==
  /\ iter[{}] = a
  /\ \A s \in SUBSET (1..N) : s # {} => iter[s] = G[<<Max(s), iter[s \ {Max(s)}]>>]

\* There is an iteration of every operation, over any number of places.
LEMMA IterationExists ==
  ASSUME NEW T, NEW a \in T, NEW N \in Nat, NEW G \in [(1..N) \X T -> T]
  PROVE  \E iter \in [SUBSET (1..N) -> T] : Iterates(iter, G, a, N)
<1> DEFINE Has(n) == \E h \in [SUBSET (1..n) -> T] : Iterates(h, G, a, n)
           S == {n \in Nat : n <= N => Has(n)}
<1> HIDE DEF Has
<1>1. 0 \in S
  <2> DEFINE h == [s \in SUBSET (1..0) |-> a]
  <2>1. \A s \in SUBSET (1..0) : s = {}
    OBVIOUS
  <2>2. h \in [SUBSET (1..0) -> T] /\ h[{}] = a
    OBVIOUS
  <2> HIDE DEF h
  <2>3. Iterates(h, G, a, 0)
    BY <2>1, <2>2 DEF Iterates
  <2> QED BY <2>2, <2>3 DEF Has
<1>2. ASSUME NEW n \in Nat, n \in S
      PROVE  n + 1 \in S
  <2> SUFFICES ASSUME n + 1 <= N
               PROVE  Has(n + 1)
    OBVIOUS
  <2>1. PICK h \in [SUBSET (1..n) -> T] : Iterates(h, G, a, n)
    <3>1. Has(n)
      BY <1>2
    <3> QED BY <3>1 DEF Has
  <2> DEFINE g == [s \in SUBSET (1..n + 1) |->
                     IF n + 1 \in s THEN G[<<n + 1, h[s \ {n + 1}]>>] ELSE h[s]]
  <2>2. n + 1 \in 1..N
    OBVIOUS
  <2>3. \A s \in SUBSET (1..n + 1) : s \ {n + 1} \in SUBSET (1..n)
    OBVIOUS
  <2>4. \A s \in SUBSET (1..n + 1) : n + 1 \notin s => s \in SUBSET (1..n)
    OBVIOUS
  <2>5. \A x \in T : G[<<n + 1, x>>] \in T
    BY <2>2
  <2>6. g \in [SUBSET (1..n + 1) -> T]
    BY <2>3, <2>4, <2>5
  <2>7. g[{}] = a
    BY <2>1 DEF Iterates
  <2>8. ASSUME NEW s \in SUBSET (1..n + 1), s # {}
        PROVE  g[s] = G[<<Max(s), g[s \ {Max(s)}]>>]
    <3>1. CASE n + 1 \in s
      <4>1. Max(s) = n + 1
        BY <3>1, MaxOfInitial
      <4>2. s \ {n + 1} \in SUBSET (1..n + 1) /\ n + 1 \notin s \ {n + 1}
        OBVIOUS
      <4>3. g[s \ {n + 1}] = h[s \ {n + 1}]
        BY <4>2
      <4>4. g[s] = G[<<n + 1, h[s \ {n + 1}]>>]
        BY <3>1
      <4> QED BY <4>1, <4>3, <4>4
    <3>2. CASE n + 1 \notin s
      <4>1. s \in SUBSET (1..n)
        BY <2>4, <3>2
      <4>2. h[s] = G[<<Max(s), h[s \ {Max(s)}]>>]
        BY <2>1, <2>8, <4>1 DEF Iterates
      <4>3. s \ {Max(s)} \in SUBSET (1..n + 1) /\ n + 1 \notin s \ {Max(s)}
        BY <3>2
      <4>4. g[s] = h[s] /\ g[s \ {Max(s)}] = h[s \ {Max(s)}]
        BY <3>2, <4>3
      <4> QED BY <4>2, <4>4
    <3> QED BY <3>1, <3>2
  <2> HIDE DEF g
  <2>9. Iterates(g, G, a, n + 1)
    BY <2>7, <2>8 DEF Iterates
  <2> QED BY <2>6, <2>9 DEF Has
<1> HIDE DEF S
<1>3. Nat \subseteq S
  BY <1>1, <1>2, Induction
<1>4. Has(N)
  BY <1>3 DEF S
<1> QED
  BY <1>4 DEF Has

\* Folds(iter, T, G, a, N): iter looks like that, wherever its values are in T.
Folds(iter, T, G, a, N) ==
  /\ iter[{}] = a
  /\ \A s \in SUBSET (1..N) : s # {} =>
       (iter[s \ {Max(s)}] \in T => iter[s] = G[<<Max(s), iter[s \ {Max(s)}]>>])

\* A function that looks like an iteration where it is typed folds step by step.
LEMMA IterationSteps ==
  ASSUME NEW T, NEW a \in T, NEW N \in Nat, NEW G \in [(1..N) \X T -> T],
         NEW iter, Folds(iter, T, G, a, N)
  PROVE  FoldsTo(T, G, a, N, iter[1..N])
<1> USE DEF Folds
<1> DEFINE f == [k \in 0..N |-> iter[1..k]]
           S == {n \in Nat : n <= N => iter[1..n] \in T}
<1>0. ASSUME NEW k \in 1..N
      PROVE  /\ 1..k \in SUBSET (1..N) /\ 1..k # {}
             /\ Max(1..k) = k /\ (1..k) \ {k} = 1..(k - 1)
  <2>1. k \in Nat /\ k # 0 /\ k \in 1..k
    OBVIOUS
  <2>2. Max(1..k) = k
    BY <2>1, MaxOfInitial
  <2> QED BY <2>1, <2>2
<1>1. 0 \in S
  <2>1. 1..0 = {}
    OBVIOUS
  <2> QED BY <2>1
<1>2. ASSUME NEW n \in Nat, n \in S
      PROVE  n + 1 \in S
  <2> SUFFICES ASSUME n + 1 <= N PROVE iter[1..n + 1] \in T
    OBVIOUS
  <2>1. n + 1 \in 1..N /\ (n + 1) - 1 = n /\ iter[1..n] \in T
    BY <1>2
  <2>2. /\ 1..(n + 1) \in SUBSET (1..N) /\ 1..(n + 1) # {}
        /\ Max(1..(n + 1)) = n + 1 /\ (1..(n + 1)) \ {n + 1} = 1..((n + 1) - 1)
    BY <1>0, <2>1
  <2>3. iter[1..(n + 1)] = G[<<n + 1, iter[1..n]>>]
    BY <2>1, <2>2
  <2> QED BY <2>1, <2>3
<1> HIDE DEF S
<1>3. Nat \subseteq S
  BY <1>1, <1>2, Induction
<1>4. \A k \in 0..N : iter[1..k] \in T
  BY <1>3 DEF S
<1>5. f \in [0..N -> T]
  BY <1>4
<1>6. f[0] = a
  <2>1. 1..0 = {}
    OBVIOUS
  <2> QED BY <2>1
<1>7. ASSUME NEW k \in 1..N
      PROVE  f[k] = G[<<k, f[k - 1]>>]
  <2>1. k \in 0..N /\ k - 1 \in 0..N
    OBVIOUS
  <2>2. iter[1..(k - 1)] \in T
    BY <1>4, <2>1
  <2>3. iter[1..k] = G[<<k, iter[1..(k - 1)]>>]
    BY <1>0, <2>2
  <2> QED BY <2>1, <2>3
<1>8. f[N] = iter[1..N]
  OBVIOUS
<1> HIDE DEF f
<1> QED
  BY <1>5, <1>6, <1>7, <1>8 DEF Steps, FoldsTo
=============================================================================
