-------------------------- MODULE MacroCompile_proofs --------------------------
(***************************************************************************)
(* What a macro compile makes of any draft.  Sums and budgets come first:  *)
(* what is left to spend is followed volume by volume.  Then the volumes,  *)
(* sorted, bounded one behind the other, and those of the fallback.  Then  *)
(* the nodes: every step that adds a chain, a checkpoint, short beats or   *)
(* the ending keeps a list whose dependencies are in the list.  A search   *)
(* for cycles is then all a plan needs to be brought to its end: of the    *)
(* nodes that are left one depends on none of them.  Then the hints: when  *)
(* as many storylines look for those of a volume as there are, and one is  *)
(* left to the last, each of them finds another.  Last, the shape of the   *)
(* plot DAG: which nodes depend on which, what is followed in its volume   *)
(* and what a checkpoint gathers, kept by every step and enough for the    *)
(* checks of the compile and of a save.  A fold is followed step by step   *)
(* by the lemmas on iterations of Rounds_proofs.                           *)
(***************************************************************************)
EXTENDS MacroCompile, AnchorPlan_proofs

-----------------------------------------------------------------------------
(* Sums. *)

\* A sum is made element by element.
LEMMA TotalFolds ==
  ASSUME NEW s \in Seq(Int)
  PROVE  \E f \in [0..Len(s) -> Int] :
            /\ f[0] = 0 /\ \A k \in 1..Len(s) : f[k] = f[k - 1] + s[k]
            /\ Total(s) = f[Len(s)]
<1> DEFINE sq == s
           N == Len(s)
           T == Int
           base == 0
           Step(x, e) == x + e
           G == [p \in (1..N) \X T |-> Step(p[2], sq[p[1]])]
           iter == CHOOSE h : h = [t \in SUBSET DOMAIN sq |->
                      IF t = {} THEN base ELSE Step(h[t \ {Max(t)}], sq[Max(t)])]
<1>1. Total(s) = iter[DOMAIN sq]
  BY Zenon DEF Total, FoldLeft, MapThenFoldSet
<1>2. N \in Nat /\ DOMAIN sq = 1..N
  OBVIOUS
<1>3. base \in T
  OBVIOUS
<1>4. \A k \in 1..N, x \in T : Step(x, sq[k]) \in T
  OBVIOUS
<1> HIDE DEF sq, N, base, Step
<1>5. G \in [(1..N) \X T -> T]
  BY <1>2, <1>4
<1>6. \A k \in 1..N, x \in T : G[<<k, x>>] = Step(x, sq[k])
  OBVIOUS
<1> HIDE DEF T, G
<1>7. PICK h \in [SUBSET (1..N) -> T] : Iterates(h, G, base, N)
  BY <1>2, <1>3, <1>5, IterationExists
<1>8. \A t \in SUBSET (1..N) : t # {} => Max(t) \in 1..N /\ t \ {Max(t)} \in SUBSET (1..N)
  BY <1>2, MaxIsElement
<1>9. h = [t \in SUBSET (1..N) |-> IF t = {} THEN base ELSE Step(h[t \ {Max(t)}], sq[Max(t)])]
  BY <1>6, <1>7, <1>8 DEF Iterates
<1>10. iter = [t \in SUBSET (1..N) |->
                 IF t = {} THEN base ELSE Step(iter[t \ {Max(t)}], sq[Max(t)])]
  <2>1. iter = CHOOSE x : x = [t \in SUBSET (1..N) |->
                      IF t = {} THEN base ELSE Step(x[t \ {Max(t)}], sq[Max(t)])]
    BY <1>2
  <2> HIDE DEF iter
  <2> QED BY <1>9, <2>1
<1> HIDE DEF iter
<1>11. Folds(iter, T, G, base, N)
  BY <1>6, <1>8, <1>10 DEF Folds
<1>12. FoldsTo(T, G, base, N, iter[1..N])
  BY <1>2, <1>3, <1>5, <1>11, IterationSteps
<1>13. PICK f \in [0..N -> T] :
          /\ f[0] = base /\ iter[1..N] = f[N]
          /\ \A k \in 1..N : f[k] = G[<<k, f[k - 1]>>]
  BY <1>12 DEF FoldsTo, Steps
<1>14. \A k \in 1..N : f[k] = Step(f[k - 1], sq[k])
  <2>1. \A k \in 1..N : k - 1 \in 0..N
    BY <1>2
  <2> QED BY <1>6, <1>13, <2>1
<1>15. Total(s) = f[N]
  BY <1>1, <1>2, <1>13
<1> QED BY <1>13, <1>14, <1>15 DEF sq, N, T, base, Step

\* What is left to spend: words and weight, and what has been spent on whom.
Purses == [words : Int, weight : Int, out : Seq(Int)]
Share(weights, b, i) ==
  IF i = Len(weights) THEN Greater(1, b.words)
  ELSE Greater(1, Round(b.words * weights[i], Greater(1, b.weight)))
Spend(weights, b, i) ==
  [words |-> b.words - Share(weights, b, i), weight |-> b.weight - weights[i],
   out |-> Append(b.out, Share(weights, b, i))]

\* Rounding moves by less than one.
LEMMA RoundTyped ==
  ASSUME NEW n \in Int, NEW d \in Nat \ {0}
  PROVE  Round(n, d) \in Int /\ Round(n, d) \in {n \div d, n \div d + 1}
<1>1. n \div d \in Int /\ n % d \in Int
  OBVIOUS
<1> QED BY <1>1 DEF Round

\* A rounded share of something is at most all of it, and there is none of nothing.
LEMMA RoundBounds ==
  ASSUME NEW r \in Int, NEW w \in Nat, NEW d \in Nat \ {0}, w <= d
  PROVE  /\ r > 0 => Round(r * w, d) <= r
         /\ r <= 0 => Round(r * w, d) <= 0
<1> DEFINE n == r * w
           q == n \div d
           m == n % d
<1>1. n \in Int /\ q \in Int /\ m \in 0..d - 1 /\ n = d * q + m
  OBVIOUS
<1>2. r > 0 => n <= r * d
  OBVIOUS
<1>3. r <= 0 => n <= 0
  OBVIOUS
<1>4. Round(n, d) = IF 2 * m > d \/ (2 * m = d /\ q % 2 = 1) THEN q + 1 ELSE q
  BY DEF Round
<1> HIDE DEF n, q, m
<1>5. ASSUME NEW x \in Int, n <= x * d
      PROVE  Round(n, d) <= x
  <2>1. CASE q < x
    BY <1>1, <1>4, <2>1
  <2>2. CASE q = x
    <3>1. d * q = x * d
      BY <1>1, <2>2
    <3>2. m <= 0
      BY <1>1, <1>5, <3>1
    <3>3. m = 0
      BY <1>1, <3>2
    <3> QED BY <1>1, <1>4, <2>2, <3>3
  <2>3. CASE q > x
    <3>1. q >= x + 1
      BY <1>1, <2>3
    <3>2. d * q >= d * (x + 1)
      BY <1>1, <3>1
    <3>3. d * (x + 1) = x * d + d
      OBVIOUS
    <3>4. n >= x * d + d
      BY <1>1, <3>2, <3>3
    <3> QED BY <1>1, <1>5, <3>4
  <2> QED BY <1>1, <2>1, <2>2, <2>3
<1>6. r > 0 => Round(n, d) <= r
  BY <1>2, <1>5
<1>7. r <= 0 => Round(n, d) <= 0
  <2>1. 0 * d = 0
    OBVIOUS
  <2> QED BY <1>3, <1>5, <2>1
<1> QED BY <1>6, <1>7 DEF n

\* A share is a positive number.
LEMMA ShareTyped ==
  ASSUME NEW weights \in Seq(Int), NEW i \in 1..Len(weights), NEW b \in Purses
  PROVE  Share(weights, b, i) \in Int /\ Share(weights, b, i) >= 1
<1> DEFINE d == Greater(1, b.weight)
           n == b.words * weights[i]
<1>1. b.words \in Int /\ b.weight \in Int /\ weights[i] \in Int
  BY DEF Purses
<1>2. d \in Nat \ {0} /\ n \in Int
  BY <1>1 DEF Greater
<1>3. Share(weights, b, i) = IF i = Len(weights) THEN Greater(1, b.words)
                             ELSE Greater(1, Round(n, d))
  BY DEF Share
<1> HIDE DEF d, n
<1>4. Round(n, d) \in Int
  BY <1>2, RoundTyped
<1> QED BY <1>1, <1>3, <1>4 DEF Greater

\* Spending leaves a purse.
LEMMA SpendTyped ==
  ASSUME NEW weights \in Seq(Int), NEW i \in 1..Len(weights), NEW b \in Purses
  PROVE  Spend(weights, b, i) \in Purses
<1>1. Share(weights, b, i) \in Int /\ weights[i] \in Int
  BY ShareTyped
<1>2. b.words - Share(weights, b, i) \in Int /\ b.weight - weights[i] \in Int
  BY <1>1 DEF Purses
<1>3. Append(b.out, Share(weights, b, i)) \in Seq(Int)
  BY <1>1 DEF Purses
<1> QED BY <1>2, <1>3 DEF Spend, Purses

\* The budgets are given out volume by volume.
LEMMA SharesFold ==
  ASSUME NEW weights \in Seq(Int)
  PROVE  \E f \in [0..Len(weights) -> Purses] :
            /\ f[0] = [words |-> TargetWords, weight |-> Total(weights), out |-> <<>>]
            /\ \A k \in 1..Len(weights) : f[k] = Spend(weights, f[k - 1], k)
            /\ Shares(weights) = f[Len(weights)].out
<1> DEFINE sq == Upto(Len(weights))
           N == Len(weights)
           T == Purses
           base == [words |-> TargetWords, weight |-> Total(weights), out |-> <<>>]
           Step(x, e) == Spend(weights, x, e)
           G == [p \in (1..N) \X T |-> Step(p[2], sq[p[1]])]
           iter == CHOOSE h : h = [t \in SUBSET DOMAIN sq |->
                      IF t = {} THEN base ELSE Step(h[t \ {Max(t)}], sq[Max(t)])]
<1>1. Shares(weights) = iter[DOMAIN sq].out
  BY Zenon DEF Shares, Spend, Share, FoldLeft, MapThenFoldSet
<1>2. N \in Nat /\ DOMAIN sq = 1..N
  BY DEF Upto
<1>3. base \in T
  <2>1. Total(weights) \in Int
    <3>1. PICK f \in [0..Len(weights) -> Int] : Total(weights) = f[Len(weights)]
      BY TotalFolds
    <3> QED BY <3>1
  <2> QED BY <2>1, CompileAssumption DEF Purses
<1>4. \A k \in 1..N, x \in T : Step(x, sq[k]) \in T
  <2>1. \A k \in 1..N : sq[k] = k
    BY DEF Upto
  <2> QED BY <2>1, SpendTyped
<1> HIDE DEF sq, N, base, Step
<1>5. G \in [(1..N) \X T -> T]
  BY <1>2, <1>4
<1>6. \A k \in 1..N, x \in T : G[<<k, x>>] = Step(x, sq[k])
  OBVIOUS
<1> HIDE DEF T, G
<1>7. PICK h \in [SUBSET (1..N) -> T] : Iterates(h, G, base, N)
  BY <1>2, <1>3, <1>5, IterationExists
<1>8. \A t \in SUBSET (1..N) : t # {} => Max(t) \in 1..N /\ t \ {Max(t)} \in SUBSET (1..N)
  BY <1>2, MaxIsElement
<1>9. h = [t \in SUBSET (1..N) |-> IF t = {} THEN base ELSE Step(h[t \ {Max(t)}], sq[Max(t)])]
  BY <1>6, <1>7, <1>8 DEF Iterates
<1>10. iter = [t \in SUBSET (1..N) |->
                 IF t = {} THEN base ELSE Step(iter[t \ {Max(t)}], sq[Max(t)])]
  <2>1. iter = CHOOSE x : x = [t \in SUBSET (1..N) |->
                      IF t = {} THEN base ELSE Step(x[t \ {Max(t)}], sq[Max(t)])]
    BY <1>2
  <2> HIDE DEF iter
  <2> QED BY <1>9, <2>1
<1> HIDE DEF iter
<1>11. Folds(iter, T, G, base, N)
  BY <1>6, <1>8, <1>10 DEF Folds
<1>12. FoldsTo(T, G, base, N, iter[1..N])
  BY <1>2, <1>3, <1>5, <1>11, IterationSteps
<1>13. PICK f \in [0..N -> T] :
          /\ f[0] = base /\ iter[1..N] = f[N]
          /\ \A k \in 1..N : f[k] = G[<<k, f[k - 1]>>]
  BY <1>12 DEF FoldsTo, Steps
<1>14. \A k \in 1..N : f[k] = Step(f[k - 1], sq[k])
  <2>1. \A k \in 1..N : k - 1 \in 0..N
    BY <1>2
  <2> QED BY <1>6, <1>13, <2>1
<1>15. Shares(weights) = f[N].out
  BY <1>1, <1>2, <1>13
<1>16. \A k \in 1..N : sq[k] = k
  BY DEF sq, N, Upto
<1> QED BY <1>13, <1>14, <1>15, <1>16 DEF N, T, base, Step

\* What has been given out after k volumes.
LEMMA SharesGiven ==
  ASSUME NEW weights \in Seq(Int), NEW f \in [0..Len(weights) -> Purses],
         f[0] = [words |-> TargetWords, weight |-> Total(weights), out |-> <<>>],
         \A k \in 1..Len(weights) : f[k] = Spend(weights, f[k - 1], k)
  PROVE  \A k \in 0..Len(weights) :
            f[k].out = [j \in 1..k |-> Share(weights, f[j - 1], j)]
<1> DEFINE N == Len(weights)
           Out(k) == [j \in 1..k |-> Share(weights, f[j - 1], j)]
           S == {k \in Nat : k <= N => f[k].out = Out(k)}
<1>1. 0 \in S
  BY DEF Purses
<1>2. ASSUME NEW k \in Nat, k \in S
      PROVE  k + 1 \in S
  <2> SUFFICES ASSUME k + 1 <= N PROVE f[k + 1].out = Out(k + 1)
    OBVIOUS
  <2>1. k + 1 \in 1..N /\ k + 1 - 1 = k /\ k \in 0..N
    OBVIOUS
  <2>2. f[k + 1].out = Append(f[k].out, Share(weights, f[k], k + 1))
    <3>1. f[k + 1] = Spend(weights, f[k + 1 - 1], k + 1)
      BY <2>1
    <3>2. f[k + 1] = Spend(weights, f[k], k + 1)
      BY <2>1, <3>1
    <3> QED BY <3>2 DEF Spend
  <2>3. f[k].out = Out(k)
    BY <1>2, <2>1
  <2>4. \A j \in 1..k + 1 : Share(weights, f[j - 1], j) \in Int
    <3> SUFFICES ASSUME NEW j \in 1..k + 1 PROVE Share(weights, f[j - 1], j) \in Int
      OBVIOUS
    <3>1. j \in 1..N /\ j - 1 \in 0..N
      BY <2>1
    <3>2. f[j - 1] \in Purses
      BY <3>1
    <3> QED BY <3>1, <3>2, ShareTyped
  <2> DEFINE e(j) == Share(weights, f[j - 1], j)
  <2>5. e(k + 1) = Share(weights, f[k], k + 1)
    BY <2>1
  <2>6. \A j \in 1..k + 1 : e(j) \in Int
    BY <2>4
  <2>7. f[k + 1].out = Append([j \in 1..k |-> e(j)], e(k + 1))
    BY <2>2, <2>3, <2>5
  <2>8. Out(k + 1) = [j \in 1..k + 1 |-> e(j)]
    OBVIOUS
  <2> HIDE DEF e, Out
  <2>9. Append([j \in 1..k |-> e(j)], e(k + 1)) = [j \in 1..k + 1 |-> e(j)]
    BY <2>6
  <2> QED BY <2>7, <2>8, <2>9
<1> HIDE DEF S
<1>3. Nat \subseteq S
  BY <1>1, <1>2, Induction
<1> QED BY <1>3 DEF S

\* A sum of numbers that are not negative grows.
LEMMA SumGrows ==
  ASSUME NEW s \in Seq(Nat), NEW f \in [0..Len(s) -> Int],
         f[0] = 0, \A k \in 1..Len(s) : f[k] = f[k - 1] + s[k]
  PROVE  \A k \in 0..Len(s) : 0 <= f[k] /\ f[k] <= f[Len(s)]
<1> DEFINE N == Len(s)
           U == {k \in Nat : k <= N => 0 <= f[k]}
           D == {k \in Nat : k <= N => f[N - k] <= f[N]}
<1>1. 0 \in U /\ 0 \in D
  OBVIOUS
<1>2. ASSUME NEW k \in Nat, k \in U
      PROVE  k + 1 \in U
  <2> SUFFICES ASSUME k + 1 <= N PROVE 0 <= f[k + 1]
    OBVIOUS
  <2>1. k + 1 \in 1..N /\ k + 1 - 1 = k /\ k \in 0..N
    OBVIOUS
  <2>2. f[k + 1] = f[k] + s[k + 1] /\ s[k + 1] \in Nat /\ f[k] \in Int /\ 0 <= f[k]
    BY <1>2, <2>1, SMTT(30)
  <2> QED BY <2>2
<1>3. ASSUME NEW k \in Nat, k \in D
      PROVE  k + 1 \in D
  <2> SUFFICES ASSUME k + 1 <= N PROVE f[N - (k + 1)] <= f[N]
    OBVIOUS
  <2>1. N - k \in 1..N /\ N - k - 1 = N - (k + 1) /\ N - (k + 1) \in 0..N /\ N - k \in 0..N
          /\ N \in 0..N
    OBVIOUS
  <2>2. f[N - k] = f[N - (k + 1)] + s[N - k]
    BY <2>1
  <2>3. s[N - k] \in Nat
    BY <2>1
  <2>4. f[N - k] \in Int /\ f[N - (k + 1)] \in Int /\ f[N] \in Int
    BY <2>1
  <2>5. f[N - k] <= f[N]
    BY <1>3
  <2> QED BY <2>2, <2>3, <2>4, <2>5, SMTT(30)
<1> HIDE DEF U, D
<1>4. Nat \subseteq U /\ Nat \subseteq D
  BY <1>1, <1>2, <1>3, Induction
<1>5. ASSUME NEW k \in 0..N
      PROVE  0 <= f[k] /\ f[k] <= f[N]
  <2>1. k \in Nat /\ N - k \in Nat /\ N - k <= N /\ N - (N - k) = k
    OBVIOUS
  <2>2. k \in U /\ N - k \in D
    BY <1>4, <2>1
  <2>3. 0 <= f[k]
    BY <2>2 DEF U
  <2>4. f[N - (N - k)] <= f[N]
    BY <2>1, <2>2 DEF D
  <2> QED BY <2>1, <2>3, <2>4
<1> QED BY <1>5

\* Nobody asks for more than is left of the weight.
LEMMA WeightLeft ==
  ASSUME NEW weights \in Seq(Nat), NEW f \in [0..Len(weights) -> Purses],
         f[0] = [words |-> TargetWords, weight |-> Total(weights), out |-> <<>>],
         \A k \in 1..Len(weights) : f[k] = Spend(weights, f[k - 1], k)
  PROVE  \A k \in 1..Len(weights) : weights[k] <= f[k - 1].weight
<1> DEFINE N == Len(weights)
<1>0. weights \in Seq(Int)
  OBVIOUS
<1>1. PICK g \in [0..N -> Int] :
         /\ g[0] = 0 /\ \A k \in 1..N : g[k] = g[k - 1] + weights[k]
         /\ Total(weights) = g[N]
  BY <1>0, TotalFolds
<1>2. \A k \in 0..N : g[k] <= g[N]
  BY <1>1, SumGrows
<1> DEFINE S == {k \in Nat : k <= N => f[k].weight = g[N] - g[k]}
<1>3. 0 \in S
  BY <1>1
<1>4. ASSUME NEW k \in Nat, k \in S
      PROVE  k + 1 \in S
  <2> SUFFICES ASSUME k + 1 <= N PROVE f[k + 1].weight = g[N] - g[k + 1]
    OBVIOUS
  <2>1. k + 1 \in 1..N /\ k + 1 - 1 = k /\ k \in 0..N /\ N \in 0..N
    OBVIOUS
  <2>2. f[k + 1].weight = f[k].weight - weights[k + 1]
    <3>1. f[k + 1] = Spend(weights, f[k + 1 - 1], k + 1)
      BY <2>1
    <3>2. f[k + 1] = Spend(weights, f[k], k + 1)
      BY <2>1, <3>1
    <3> QED BY <3>2 DEF Spend
  <2>3. g[k + 1] = g[k] + weights[k + 1] /\ f[k].weight = g[N] - g[k]
    BY <1>1, <1>4, <2>1
  <2>4. g[k] \in Int /\ g[N] \in Int
    BY <1>1, <2>1
  <2>5. weights[k + 1] \in Int
    BY <1>0, <2>1
  <2> QED BY <2>2, <2>3, <2>4, <2>5
<1> HIDE DEF S
<1>5. Nat \subseteq S
  BY <1>3, <1>4, Induction
<1>6. ASSUME NEW k \in 1..N
      PROVE  weights[k] <= f[k - 1].weight
  <2>1. k - 1 \in 0..N /\ k - 1 \in Nat /\ k - 1 <= N /\ k \in 0..N /\ N \in 0..N
    OBVIOUS
  <2>2. f[k - 1].weight = g[N] - g[k - 1]
    BY <1>5, <2>1 DEF S
  <2>3. g[k] = g[k - 1] + weights[k] /\ g[k] <= g[N]
    BY <1>1, <1>2, <2>1
  <2>4. g[k - 1] \in Int /\ g[k] \in Int /\ g[N] \in Int
    BY <1>1, <2>1
  <2>5. weights[k] \in Int
    BY <1>0
  <2> QED BY <2>2, <2>3, <2>4, <2>5
<1> QED BY <1>6

\* Where one word is left in a volume.
Least(out) == {v \in DOMAIN out : out[v] = 1}

\* A purse is overdrawn by no more than the volumes that got the least.
Overdrawn(weights, f, k) ==
  0 <= f[k].words + Cardinality({j \in 1..k : Share(weights, f[j - 1], j) = 1})

\* One volume more.
LEMMA SpendSafe ==
  ASSUME NEW weights \in Seq(Nat), NEW k \in 1..Len(weights), NEW b \in Purses,
         weights[k] <= b.weight, NEW ones \in Nat, 0 <= b.words + ones
  PROVE  /\ Share(weights, b, k) = 1 => 0 <= b.words - Share(weights, b, k) + (ones + 1)
         /\ Share(weights, b, k) # 1 => 0 <= b.words - Share(weights, b, k) + ones
<1> DEFINE d == Greater(1, b.weight)
           w == weights[k]
           n == b.words
           s == Share(weights, b, k)
<1>1. w \in Nat /\ d \in Nat \ {0} /\ w <= d /\ n \in Int
  BY DEF Purses, Greater
<1>2. s = Greater(1, n) \/ s = Greater(1, Round(n * w, d))
  BY DEF Share
<1> HIDE DEF w, d, n
<1>3. n > 0 => Round(n * w, d) <= n
  BY <1>1, RoundBounds
<1>4. n <= 0 => Round(n * w, d) <= 0
  BY <1>1, RoundBounds
<1>5. n * w \in Int
  BY <1>1
<1>6. Round(n * w, d) \in Int
  BY <1>1, <1>5, RoundTyped
<1>7. s \in Int /\ s >= 1 /\ (s = 1 \/ s <= n)
  BY <1>1, <1>2, <1>3, <1>4, <1>6 DEF Greater
<1> HIDE DEF s
<1>8. /\ s = 1 => 0 <= n - s + (ones + 1)
      /\ s # 1 => 0 <= n - s + ones
  BY <1>1, <1>7 DEF n
<1> QED BY <1>8 DEF n, s

\* _normalize_volume_word_budgets: as many budgets as volumes, all of them positive; together
\* they are at least the target, and more only by a word in every volume that got the least.
LEMMA SharesFacts ==
  ASSUME NEW weights \in Seq(Nat), weights # <<>>,
         NEW out, out = Shares(weights)
  PROVE  /\ out \in Seq(Nat \ {0}) /\ Len(out) = Len(weights)
         /\ TargetWords <= Total(out) /\ Total(out) <= TargetWords + Cardinality(Least(out))
<1> DEFINE N == Len(weights)
<1>0. weights \in Seq(Int) /\ N \in Nat /\ N # 0 /\ TargetWords \in Int
  BY CompileAssumption
<1>1. PICK f \in [0..N -> Purses] :
         /\ f[0] = [words |-> TargetWords, weight |-> Total(weights), out |-> <<>>]
         /\ \A k \in 1..N : f[k] = Spend(weights, f[k - 1], k)
         /\ out = f[N].out
  BY <1>0, SharesFold
<1> DEFINE e(j) == Share(weights, f[j - 1], j)
<1>2. out = [j \in 1..N |-> e(j)]
  <2>1. \A k \in 0..N : f[k].out = [j \in 1..k |-> Share(weights, f[j - 1], j)]
    BY <1>0, <1>1, SharesGiven
  <2> QED BY <1>0, <1>1, <2>1
<1>3. \A j \in 1..N : e(j) \in Int /\ e(j) >= 1
  <2> SUFFICES ASSUME NEW j \in 1..N PROVE e(j) \in Int /\ e(j) >= 1
    OBVIOUS
  <2>1. j - 1 \in 0..N
    BY <1>0
  <2>2. f[j - 1] \in Purses
    BY <2>1
  <2> QED BY <1>0, <2>2, ShareTyped
<1>4. \A j \in 1..N : f[j].words = f[j - 1].words - e(j)
  <2> SUFFICES ASSUME NEW j \in 1..N PROVE f[j].words = f[j - 1].words - e(j)
    OBVIOUS
  <2>1. f[j] = Spend(weights, f[j - 1], j)
    BY <1>1
  <2> QED BY <2>1 DEF Spend
<1>5. \A j \in 0..N : f[j].words \in Int
  BY DEF Purses
<1>6. f[0].words = TargetWords
  BY <1>1
<1>7. \A j \in 1..N : weights[j] <= f[j - 1].weight
  BY <1>1, WeightLeft
<1>8. f[N].words <= 0
  <2>1. N \in 1..N /\ N - 1 \in 0..N
    BY <1>0
  <2>2. e(N) = Greater(1, f[N - 1].words)
    BY DEF Share
  <2>3. f[N - 1].words \in Int /\ f[N].words = f[N - 1].words - e(N)
    BY <1>4, <1>5, <2>1
  <2> HIDE DEF e
  <2> QED BY <2>2, <2>3 DEF Greater
<1> DEFINE Ones(k) == {j \in 1..k : e(j) = 1}
           S == {k \in Nat : k <= N => 0 <= f[k].words + Cardinality(Ones(k))}
<1>9. \A k \in Nat : IsFiniteSet(Ones(k)) /\ Cardinality(Ones(k)) \in Nat
  <2> SUFFICES ASSUME NEW k \in Nat PROVE IsFiniteSet(Ones(k)) /\ Cardinality(Ones(k)) \in Nat
    OBVIOUS
  <2>1. IsFiniteSet(1..k)
    BY FS_Interval
  <2>2. Ones(k) \subseteq 1..k
    OBVIOUS
  <2>3. IsFiniteSet(Ones(k))
    BY <2>1, <2>2, FS_Subset
  <2> QED BY <2>3, FS_CardinalityType
<1>10. 0 \in S
  <2>1. Cardinality(Ones(0)) \in Nat
    BY <1>9
  <2> HIDE DEF Ones
  <2> QED BY <1>6, <2>1, CompileAssumption
<1>11. ASSUME NEW k \in Nat, k \in S
       PROVE  k + 1 \in S
  <2> SUFFICES ASSUME k + 1 <= N PROVE 0 <= f[k + 1].words + Cardinality(Ones(k + 1))
    OBVIOUS
  <2>1. k + 1 \in 1..N /\ k + 1 - 1 = k /\ k \in 0..N
    BY <1>0
  <2> DEFINE b == f[k]
             s == Share(weights, b, k + 1)
             ones == Cardinality(Ones(k))
  <2>2. e(k + 1) = s
    BY <2>1
  <2>3. weights[k + 1] <= b.weight
    <3>1. weights[k + 1] <= f[k + 1 - 1].weight
      BY <1>7, <2>1
    <3> QED BY <2>1, <3>1
  <2>4. 0 <= b.words + ones /\ ones \in Nat /\ b \in Purses
    BY <1>9, <1>11, <2>1, SMTT(30)
  <2>5. /\ s = 1 => 0 <= b.words - s + (ones + 1)
        /\ s # 1 => 0 <= b.words - s + ones
    <3> HIDE DEF b, s, ones
    <3>1. /\ Share(weights, b, k + 1) = 1 => 0 <= b.words - Share(weights, b, k + 1) + (ones + 1)
          /\ Share(weights, b, k + 1) # 1 => 0 <= b.words - Share(weights, b, k + 1) + ones
      BY <2>1, <2>3, <2>4, SpendSafe
    <3> QED BY <3>1 DEF s
  <2>6. f[k + 1].words = b.words - s
    <3>1. f[k + 1].words = f[k + 1 - 1].words - e(k + 1)
      BY <1>4, <2>1
    <3> QED BY <2>1, <2>2, <3>1
  <2>7. s = 1 => Cardinality(Ones(k + 1)) = ones + 1
    <3> SUFFICES ASSUME s = 1 PROVE Cardinality(Ones(k + 1)) = ones + 1
      OBVIOUS
    <3>1. Ones(k + 1) = Ones(k) \cup {k + 1} /\ k + 1 \notin Ones(k)
      <4> HIDE DEF e
      <4>1. 1..k + 1 = (1..k) \cup {k + 1} /\ k + 1 \notin 1..k
        OBVIOUS
      <4>2. e(k + 1) = 1
        BY <2>2
      <4> QED BY <4>1, <4>2
    <3>2. IsFiniteSet(Ones(k))
      BY <1>9
    <3> HIDE DEF Ones
    <3> QED BY <3>1, <3>2, FS_AddElement
  <2>8. s # 1 => Ones(k + 1) = Ones(k)
    <3> HIDE DEF e
    <3>1. 1..k + 1 = (1..k) \cup {k + 1} /\ k + 1 \notin 1..k
      OBVIOUS
    <3> QED BY <2>2, <3>1
  <2>9. b.words \in Int /\ s \in Int
    BY <1>3, <1>5, <2>1, <2>2
  <2> HIDE DEF b, s, ones, Ones
  <2>10. s = 1 => 0 <= f[k + 1].words + Cardinality(Ones(k + 1))
    BY <2>4, <2>5, <2>6, <2>7, <2>9
  <2>11. s # 1 => 0 <= f[k + 1].words + Cardinality(Ones(k + 1))
    BY <2>5, <2>6, <2>8, <2>9 DEF ones
  <2> QED BY <2>10, <2>11
<1> HIDE DEF S
<1>12. Nat \subseteq S
  BY <1>10, <1>11, Induction
<1>13. 0 <= f[N].words + Cardinality(Ones(N))
  BY <1>0, <1>12 DEF S
<1> HIDE DEF e
<1>14. out \in Seq(Nat \ {0}) /\ Len(out) = N /\ \A j \in 1..N : out[j] = e(j)
  BY <1>0, <1>2, <1>3
<1>15. Ones(N) = Least(out)
  BY <1>2 DEF Least
<1>16. PICK g \in [0..N -> Int] :
          /\ g[0] = 0 /\ \A k \in 1..N : g[k] = g[k - 1] + out[k]
          /\ Total(out) = g[N]
  <2>1. out \in Seq(Int)
    BY <1>14
  <2> QED BY <1>14, <2>1, TotalFolds
<1> DEFINE W == {k \in Nat : k <= N => g[k] + f[k].words = TargetWords}
<1>17. 0 \in W
  BY <1>0, <1>6, <1>16
<1>18. ASSUME NEW k \in Nat, k \in W
       PROVE  k + 1 \in W
  <2> SUFFICES ASSUME k + 1 <= N PROVE g[k + 1] + f[k + 1].words = TargetWords
    OBVIOUS
  <2>1. k + 1 \in 1..N /\ k + 1 - 1 = k /\ k \in 0..N
    BY <1>0
  <2>2. g[k + 1] = g[k + 1 - 1] + out[k + 1] /\ f[k + 1].words = f[k + 1 - 1].words - e(k + 1)
    BY <1>4, <1>16, <2>1
  <2>3. g[k + 1] = g[k] + e(k + 1) /\ f[k + 1].words = f[k].words - e(k + 1)
    BY <1>14, <2>1, <2>2
  <2>4. g[k] + f[k].words = TargetWords
    BY <1>18, <2>1
  <2>5. g[k] \in Int /\ f[k].words \in Int /\ e(k + 1) \in Int
    BY <1>3, <1>5, <2>1
  <2> QED BY <2>3, <2>4, <2>5
<1> HIDE DEF W
<1>19. Nat \subseteq W
  BY <1>17, <1>18, Induction
<1>20. g[N] + f[N].words = TargetWords
  BY <1>0, <1>19 DEF W
<1>21. g[N] \in Int /\ f[N].words \in Int /\ Cardinality(Ones(N)) \in Nat
  <2>1. N \in 0..N
    BY <1>0
  <2>2. Cardinality(Ones(N)) \in Nat
    BY <1>0, <1>9
  <2> QED BY <1>5, <1>16, <2>1, <2>2
<1> HIDE DEF Ones, N
<1>22. TargetWords <= g[N] /\ g[N] <= TargetWords + Cardinality(Ones(N))
  BY <1>0, <1>8, <1>13, <1>20, <1>21
<1> QED BY <1>14, <1>15, <1>16, <1>22 DEF N

-----------------------------------------------------------------------------
(* Volumes. *)

\* The places of a list that come up to the i-th one when it is sorted.
UpTo(drafts, i) ==
  {j \in DOMAIN drafts : \/ drafts[j].start < drafts[i].start
                         \/ drafts[j].start = drafts[i].start /\ j <= i}

\* Ranks are places, and no two drafts have the same.
LEMMA RankFacts ==
  ASSUME NEW drafts \in Seq(DraftRecords)
  PROVE  /\ \A i \in 1..Len(drafts) : Rank(drafts, i) \in 1..Len(drafts)
         /\ \A i, j \in 1..Len(drafts) : Rank(drafts, i) = Rank(drafts, j) => i = j
<1> DEFINE N == Len(drafts)
<1>1. N \in Nat /\ DOMAIN drafts = 1..N /\ \A i \in 1..N : drafts[i].start \in Int
  <2>1. N \in Nat /\ DOMAIN drafts = 1..N /\ \A i \in 1..N : drafts[i] \in DraftRecords
    OBVIOUS
  <2> HIDE DEF N
  <2> QED BY <2>1 DEF DraftRecords
<1>2. IsFiniteSet(1..N) /\ Cardinality(1..N) = N
  <2>1. IsFiniteSet(1..N) /\ Cardinality(1..N) = IF 1 > N THEN 0 ELSE N - 1 + 1
    BY <1>1, FS_Interval
  <2> QED BY <1>1, <2>1
<1> HIDE DEF N
<1>3. \A i \in 1..N : /\ UpTo(drafts, i) \subseteq 1..N /\ i \in UpTo(drafts, i)
                      /\ Rank(drafts, i) = Cardinality(UpTo(drafts, i))
  BY <1>1 DEF UpTo, Rank
<1>4. \A i \in 1..N : IsFiniteSet(UpTo(drafts, i))
  BY <1>2, <1>3, FS_Subset
<1>5. ASSUME NEW i \in 1..N
      PROVE  Rank(drafts, i) \in 1..N
  <2> DEFINE U == UpTo(drafts, i)
  <2>1. U \in SUBSET (1..N) /\ IsFiniteSet(U) /\ U # {}
    BY <1>3, <1>4
  <2> HIDE DEF U
  <2>2. Cardinality(U) <= N
    BY <1>2, <2>1, FS_Subset
  <2>3. Cardinality(U) \in Nat /\ Cardinality(U) # 0
    BY <2>1, FS_CardinalityType, FS_EmptySet
  <2> QED BY <1>1, <1>3, <2>2, <2>3 DEF U
<1> DEFINE In(j, i) == \/ drafts[j].start < drafts[i].start
                       \/ drafts[j].start = drafts[i].start /\ j <= i
<1>in. \A i \in 1..N : \A j \in 1..N : j \in UpTo(drafts, i) <=> In(j, i)
  BY <1>1 DEF UpTo
<1>6. ASSUME NEW i \in 1..N, NEW j \in 1..N,
             Rank(drafts, i) = Rank(drafts, j),
             \/ drafts[i].start < drafts[j].start
             \/ drafts[i].start = drafts[j].start /\ i < j
      PROVE  FALSE
  <2> DEFINE U == UpTo(drafts, i)
             V == UpTo(drafts, j)
  <2>1. U \in SUBSET V
    <3> SUFFICES ASSUME NEW k \in U PROVE k \in V
      OBVIOUS
    <3>1. k \in 1..N /\ In(k, i)
      <4>1. k \in 1..N
        BY <1>3
      <4> HIDE DEF In
      <4> QED BY <1>in, <4>1
    <3>2. drafts[k].start \in Int /\ drafts[i].start \in Int /\ drafts[j].start \in Int
      BY <1>1, <3>1
    <3>3. In(k, j)
      BY <1>6, <3>1, <3>2
    <3> HIDE DEF In
    <3> QED BY <1>in, <3>1, <3>3
  <2>2. j \in V
    BY <1>3
  <2>3. j \notin U
    <3>1. drafts[i].start \in Int /\ drafts[j].start \in Int
      BY <1>1
    <3>2. ~In(j, i)
      BY <1>6, <3>1
    <3> HIDE DEF In
    <3> QED BY <1>in, <3>2
  <2>4. IsFiniteSet(V) /\ Cardinality(U) = Cardinality(V)
    BY <1>3, <1>4, <1>6
  <2> HIDE DEF U, V
  <2>5. U # V
    BY <2>2, <2>3
  <2> QED BY <2>1, <2>4, <2>5, FS_Subset
<1>7. ASSUME NEW i \in 1..N, NEW j \in 1..N, Rank(drafts, i) = Rank(drafts, j)
      PROVE  i = j
  <2>1. drafts[i].start \in Int /\ drafts[j].start \in Int
    BY <1>1
  <2>2. \/ drafts[i].start < drafts[j].start \/ drafts[j].start < drafts[i].start
        \/ drafts[i].start = drafts[j].start /\ (i < j \/ i = j \/ j < i)
    BY <2>1
  <2> QED BY <1>6, <1>7, <2>2
<1> QED BY <1>5, <1>7 DEF N

\* Sorting a list of drafts keeps it one, of the same length.
LEMMA InOrderTyped ==
  ASSUME NEW drafts \in Seq(DraftRecords)
  PROVE  InOrder(drafts) \in Seq(DraftRecords) /\ Len(InOrder(drafts)) = Len(drafts)
<1> DEFINE N == Len(drafts)
           R == [i \in 1..N |-> Rank(drafts, i)]
<1>1. N \in Nat /\ DOMAIN drafts = 1..N /\ \A i \in 1..N : drafts[i] \in DraftRecords
  OBVIOUS
<1>2. R \in [1..N -> 1..N] /\ \A i, j \in 1..N : R[i] = R[j] => i = j
  BY RankFacts
<1>3. R \in Injection(1..N, 1..N)
  BY <1>2 DEF Injection, IsInjective
<1>4. IsFiniteSet(1..N)
  BY <1>1, FS_Interval
<1>5. R \in Surjection(1..N, 1..N)
  <2> HIDE DEF R, N
  <2> QED BY <1>3, <1>4, FS_Injection
<1>6. \A k \in 1..N : \E i \in 1..N : Rank(drafts, i) = k
  BY <1>5 DEF Surjection
<1>7. \A k \in 1..N : (CHOOSE i \in DOMAIN drafts : Rank(drafts, i) = k) \in 1..N
  BY <1>1, <1>6
<1>8. InOrder(drafts) = [k \in 1..N |-> drafts[CHOOSE i \in DOMAIN drafts : Rank(drafts, i) = k]]
  BY <1>1 DEF InOrder
<1> DEFINE e(k) == drafts[CHOOSE i \in DOMAIN drafts : Rank(drafts, i) = k]
<1>9. \A k \in 1..N : e(k) \in DraftRecords
  BY <1>1, <1>7
<1>10. InOrder(drafts) = [k \in 1..N |-> e(k)]
  BY <1>8
<1> HIDE DEF e, N, R
<1>11. InOrder(drafts) \in Seq(DraftRecords) /\ Len(InOrder(drafts)) = N
  BY <1>1, <1>9, <1>10
<1> QED BY <1>11 DEF N

\* A list in order stays as it is.
LEMMA InOrderAlready ==
  ASSUME NEW drafts \in Seq(DraftRecords),
         \A i, j \in 1..Len(drafts) : i < j => drafts[i].start <= drafts[j].start
  PROVE  InOrder(drafts) = drafts
<1> DEFINE N == Len(drafts)
<1>1. N \in Nat /\ DOMAIN drafts = 1..N /\ \A i \in 1..N : drafts[i].start \in Int
  <2>1. N \in Nat /\ DOMAIN drafts = 1..N /\ \A i \in 1..N : drafts[i] \in DraftRecords
    OBVIOUS
  <2> HIDE DEF N
  <2> QED BY <2>1 DEF DraftRecords
<1>2. \A i, j \in 1..N : i < j => drafts[i].start <= drafts[j].start
  OBVIOUS
<1> DEFINE In(j, i) == \/ drafts[j].start < drafts[i].start
                       \/ drafts[j].start = drafts[i].start /\ j <= i
<1>3. ASSUME NEW i \in 1..N
      PROVE  \A j \in 1..N : (j <= i => In(j, i)) /\ (In(j, i) /\ ~(j <= i) => In(i, j))
  BY <1>1, <1>2
<1>4. ASSUME NEW i \in 1..N, NEW j \in 1..N, In(j, i), In(i, j)
      PROVE  i = j
  BY <1>1, <1>4
<1>5. ASSUME NEW i \in 1..N
      PROVE  Rank(drafts, i) = i
  <2>1. {j \in DOMAIN drafts : In(j, i)} = 1..i
    <3>1. \A j \in 1..N : In(j, i) <=> j <= i
      BY <1>3, <1>4
    <3> HIDE DEF In
    <3> QED BY <1>1, <3>1
  <2>2. Cardinality(1..i) = i
    <3>1. Cardinality(1..i) = IF 1 > i THEN 0 ELSE i - 1 + 1
      BY FS_Interval
    <3> QED BY <3>1
  <2> QED BY <2>1, <2>2 DEF Rank
<1>6. ASSUME NEW k \in 1..N
      PROVE  (CHOOSE i \in DOMAIN drafts : Rank(drafts, i) = k) = k
  BY <1>1, <1>5
<1> DEFINE c(k) == CHOOSE i \in DOMAIN drafts : Rank(drafts, i) = k
<1>7. \A k \in 1..N : c(k) = k
  BY <1>6
<1>8. InOrder(drafts) = [k \in 1..N |-> drafts[c(k)]]
  BY <1>1 DEF InOrder
<1> HIDE DEF c
<1>9. InOrder(drafts) = [k \in 1..N |-> drafts[k]]
  BY <1>7, <1>8
<1>10. drafts = [k \in 1..N |-> drafts[k]]
  BY <1>1
<1> QED BY <1>9, <1>10

\* Where a volume starts and ends behind those that have been bounded.
Spans == [start : Int, end : Int]
Marks == [end : Int, out : Seq(Spans)]
Start(drafts, b, i) == Greater(b.end + 1, drafts[i].start)
End(drafts, b, i) ==
  IF i = Len(drafts) THEN TotalChapters
  ELSE Lesser(TotalChapters, Greater(Start(drafts, b, i), drafts[i].end))
Span(drafts, b, i) == [start |-> Start(drafts, b, i), end |-> End(drafts, b, i)]
Mark(drafts, b, i) == [end |-> End(drafts, b, i), out |-> Append(b.out, Span(drafts, b, i))]

\* The bounds are numbers.
LEMMA MarkTyped ==
  ASSUME NEW drafts \in Seq(DraftRecords), NEW i \in 1..Len(drafts), NEW b \in Marks
  PROVE  /\ Span(drafts, b, i) \in Spans /\ Mark(drafts, b, i) \in Marks
         /\ Start(drafts, b, i) \in Int /\ End(drafts, b, i) \in Int
<1>1. drafts[i] \in DraftRecords /\ b.end \in Int /\ b.out \in Seq(Spans) /\ TotalChapters \in Int
  BY CompileAssumption DEF Marks
<1>2. drafts[i].start \in Int /\ drafts[i].end \in Int
  BY <1>1 DEF DraftRecords
<1>3. Start(drafts, b, i) \in Int
  BY <1>1, <1>2 DEF Start, Greater
<1>4. End(drafts, b, i) \in Int
  BY <1>1, <1>2, <1>3 DEF End, Greater, Lesser
<1>5. Span(drafts, b, i) \in Spans
  BY <1>3, <1>4 DEF Span, Spans
<1>6. Append(b.out, Span(drafts, b, i)) \in Seq(Spans)
  BY <1>1, <1>5
<1> QED BY <1>3, <1>4, <1>5, <1>6 DEF Mark, Marks

\* Volumes are bounded one by one.
LEMMA BoundsFold ==
  ASSUME NEW drafts \in Seq(DraftRecords)
  PROVE  \E f \in [0..Len(drafts) -> Marks] :
            /\ f[0] = [end |-> 0, out |-> <<>>]
            /\ \A k \in 1..Len(drafts) : f[k] = Mark(drafts, f[k - 1], k)
            /\ Bounds(drafts) = f[Len(drafts)].out
<1> DEFINE sq == Upto(Len(drafts))
           N == Len(drafts)
           T == Marks
           base == [end |-> 0, out |-> <<>>]
           Step(x, e) == Mark(drafts, x, e)
           G == [p \in (1..N) \X T |-> Step(p[2], sq[p[1]])]
           iter == CHOOSE h : h = [t \in SUBSET DOMAIN sq |->
                      IF t = {} THEN base ELSE Step(h[t \ {Max(t)}], sq[Max(t)])]
<1>1. Bounds(drafts) = iter[DOMAIN sq].out
  BY Zenon DEF Bounds, Mark, Span, End, Start, FoldLeft, MapThenFoldSet
<1>2. N \in Nat /\ DOMAIN sq = 1..N
  BY DEF Upto
<1>3. base \in T
  BY DEF Marks
<1>4. \A k \in 1..N, x \in T : Step(x, sq[k]) \in T
  <2>1. \A k \in 1..N : sq[k] = k
    BY DEF Upto
  <2> QED BY <2>1, MarkTyped
<1> HIDE DEF sq, N, base, Step
<1>5. G \in [(1..N) \X T -> T]
  BY <1>2, <1>4
<1>6. \A k \in 1..N, x \in T : G[<<k, x>>] = Step(x, sq[k])
  OBVIOUS
<1> HIDE DEF T, G
<1>7. PICK h \in [SUBSET (1..N) -> T] : Iterates(h, G, base, N)
  BY <1>2, <1>3, <1>5, IterationExists
<1>8. \A t \in SUBSET (1..N) : t # {} => Max(t) \in 1..N /\ t \ {Max(t)} \in SUBSET (1..N)
  BY <1>2, MaxIsElement
<1>9. h = [t \in SUBSET (1..N) |-> IF t = {} THEN base ELSE Step(h[t \ {Max(t)}], sq[Max(t)])]
  BY <1>6, <1>7, <1>8 DEF Iterates
<1>10. iter = [t \in SUBSET (1..N) |->
                 IF t = {} THEN base ELSE Step(iter[t \ {Max(t)}], sq[Max(t)])]
  <2>1. iter = CHOOSE x : x = [t \in SUBSET (1..N) |->
                      IF t = {} THEN base ELSE Step(x[t \ {Max(t)}], sq[Max(t)])]
    BY <1>2
  <2> HIDE DEF iter
  <2> QED BY <1>9, <2>1
<1> HIDE DEF iter
<1>11. Folds(iter, T, G, base, N)
  BY <1>6, <1>8, <1>10 DEF Folds
<1>12. FoldsTo(T, G, base, N, iter[1..N])
  BY <1>2, <1>3, <1>5, <1>11, IterationSteps
<1>13. PICK f \in [0..N -> T] :
          /\ f[0] = base /\ iter[1..N] = f[N]
          /\ \A k \in 1..N : f[k] = G[<<k, f[k - 1]>>]
  BY <1>12 DEF FoldsTo, Steps
<1>14. \A k \in 1..N : f[k] = Step(f[k - 1], sq[k])
  <2>1. \A k \in 1..N : k - 1 \in 0..N
    BY <1>2
  <2> QED BY <1>6, <1>13, <2>1
<1>15. Bounds(drafts) = f[N].out
  BY <1>1, <1>2, <1>13
<1>16. \A k \in 1..N : sq[k] = k
  BY DEF sq, N, Upto
<1> QED BY <1>13, <1>14, <1>15, <1>16 DEF N, T, base, Step

\* What has been bounded after k volumes.
LEMMA BoundsGiven ==
  ASSUME NEW drafts \in Seq(DraftRecords), NEW f \in [0..Len(drafts) -> Marks],
         f[0] = [end |-> 0, out |-> <<>>],
         \A k \in 1..Len(drafts) : f[k] = Mark(drafts, f[k - 1], k)
  PROVE  f[Len(drafts)].out = [j \in 1..Len(drafts) |-> Span(drafts, f[j - 1], j)]
<1> DEFINE N == Len(drafts)
           e(j) == Span(drafts, f[j - 1], j)
           S == {k \in Nat : k <= N => f[k].out = [j \in 1..k |-> e(j)]}
<1>1. 0 \in S
  BY DEF Marks
<1>2. ASSUME NEW k \in Nat, k \in S
      PROVE  k + 1 \in S
  <2> SUFFICES ASSUME k + 1 <= N PROVE f[k + 1].out = [j \in 1..k + 1 |-> e(j)]
    OBVIOUS
  <2>1. k + 1 \in 1..N /\ k + 1 - 1 = k /\ k \in 0..N
    OBVIOUS
  <2>2. f[k + 1].out = Append(f[k].out, e(k + 1))
    <3>1. f[k + 1] = Mark(drafts, f[k + 1 - 1], k + 1)
      BY <2>1
    <3> QED BY <2>1, <3>1 DEF Mark
  <2>3. f[k].out = [j \in 1..k |-> e(j)]
    BY <1>2, <2>1
  <2>4. \A j \in 1..k + 1 : e(j) \in Spans
    <3> SUFFICES ASSUME NEW j \in 1..k + 1 PROVE e(j) \in Spans
      OBVIOUS
    <3>1. j \in 1..N /\ j - 1 \in 0..N
      BY <2>1
    <3>2. f[j - 1] \in Marks
      BY <3>1
    <3> QED BY <3>1, <3>2, MarkTyped
  <2> HIDE DEF e
  <2>5. Append([j \in 1..k |-> e(j)], e(k + 1)) = [j \in 1..k + 1 |-> e(j)]
    BY <2>4
  <2> QED BY <2>2, <2>3, <2>5
<1> HIDE DEF S
<1>3. Nat \subseteq S
  BY <1>1, <1>2, Induction
<1>4. N \in S /\ N <= N
  BY <1>3
<1> QED BY <1>4 DEF S

\* _normalize_macro_plan: every volume ends before the next one starts, and the last one with
\* the story.
LEMMA BoundsFacts ==
  ASSUME NEW drafts \in Seq(DraftRecords), drafts # <<>>, NEW out, out = Bounds(drafts)
  PROVE  /\ out \in Seq(Spans) /\ Len(out) = Len(drafts)
         /\ \A v \in 2..Len(drafts) : out[v - 1].end < out[v].start
         /\ out[Len(drafts)].end = TotalChapters
<1> DEFINE N == Len(drafts)
<1>1. PICK f \in [0..N -> Marks] :
         /\ f[0] = [end |-> 0, out |-> <<>>]
         /\ \A k \in 1..N : f[k] = Mark(drafts, f[k - 1], k)
         /\ Bounds(drafts) = f[N].out
  BY BoundsFold
<1> DEFINE e(j) == Span(drafts, f[j - 1], j)
<1>2. out = [j \in 1..N |-> e(j)]
  BY <1>1, BoundsGiven
<1>3. N \in Nat /\ N >= 1
  OBVIOUS
<1>4. ASSUME NEW j \in 1..N
      PROVE  /\ j - 1 \in 0..N /\ f[j - 1] \in Marks /\ f[j - 1].end \in Int
             /\ e(j) \in Spans /\ f[j].end = e(j).end
             /\ Start(drafts, f[j - 1], j) \in Int /\ e(j).start = Start(drafts, f[j - 1], j)
             /\ drafts[j].start \in Int
  <2>1. j - 1 \in 0..N
    BY <1>3
  <2>2. f[j - 1] \in Marks
    BY <2>1
  <2>3. f[j] = Mark(drafts, f[j - 1], j)
    BY <1>1
  <2>4. drafts[j] \in DraftRecords
    OBVIOUS
  <2>5. Start(drafts, f[j - 1], j) \in Int /\ e(j) \in Spans
    BY <2>2, MarkTyped
  <2>6. f[j].end = e(j).end /\ e(j).start = Start(drafts, f[j - 1], j)
    BY <2>3 DEF Mark, Span
  <2>7. f[j - 1].end \in Int /\ drafts[j].start \in Int
    BY <2>2, <2>4 DEF Marks, DraftRecords
  <2> QED BY <2>1, <2>2, <2>5, <2>6, <2>7
<1>5. ASSUME NEW v \in 2..N
      PROVE  out[v - 1].end < out[v].start
  <2>1. v \in 1..N /\ v - 1 \in 1..N
    BY <1>3
  <2>2. out[v - 1].end = f[v - 1].end
    BY <1>2, <1>4, <2>1
  <2>3. f[v - 1].end + 1 <= Start(drafts, f[v - 1], v)
    <3>1. f[v - 1].end \in Int /\ drafts[v].start \in Int
      BY <1>4, <2>1
    <3> QED BY <3>1 DEF Start, Greater
  <2>4. out[v].start = Start(drafts, f[v - 1], v)
    BY <1>2, <1>4, <2>1
  <2>5. f[v - 1].end \in Int /\ Start(drafts, f[v - 1], v) \in Int
    BY <1>4, <2>1
  <2> QED BY <2>2, <2>3, <2>4, <2>5
<1>6. out[N].end = TotalChapters
  <2>1. N \in 1..N
    BY <1>3
  <2> QED BY <1>2, <2>1 DEF Span, End
<1>7. out \in Seq(Spans) /\ Len(out) = N
  <2>1. \A j \in 1..N : e(j) \in Spans
    BY <1>4
  <2> HIDE DEF e, N
  <2> QED BY <1>2, <1>3, <2>1
<1> QED BY <1>5, <1>6, <1>7

\* Bounds that lie in the story, but for those of which no chapter is left.
Within(out) ==
  \A v \in 1..Len(out) : /\ out[v].start >= 1 /\ out[v].end <= TotalChapters
                         /\ out[v].start <= TotalChapters => out[v].start <= out[v].end

\* One more volume, behind those that end in the story or before it.
LEMMA SpanWithin ==
  ASSUME NEW drafts \in Seq(DraftRecords), NEW i \in 1..Len(drafts), NEW b \in Marks, b.end >= 0,
         NEW x, x = Start(drafts, b, i), NEW y, y = End(drafts, b, i)
  PROVE  x \in Int /\ y \in Int /\ x >= 1 /\ 0 <= y /\ y <= TotalChapters
         /\ (x <= TotalChapters => x <= y)
<1>1. b.end \in Int /\ TotalChapters \in Nat
  BY CompileAssumption DEF Marks
<1>2. drafts[i].start \in Int /\ drafts[i].end \in Int
  <2>1. drafts[i] \in DraftRecords
    OBVIOUS
  <2> QED BY <2>1 DEF DraftRecords
<1>3. x \in Int /\ x >= 1
  BY <1>1, <1>2 DEF Start, Greater
<1>4. CASE i = Len(drafts)
  <2>1. y = TotalChapters
    BY <1>4 DEF End
  <2> QED BY <1>1, <1>3, <2>1
<1>5. CASE i # Len(drafts)
  <2> DEFINE z == Greater(x, drafts[i].end)
  <2>1. y = Lesser(TotalChapters, z)
    BY <1>5 DEF End
  <2>2. z \in Int /\ x <= z
    BY <1>2, <1>3 DEF Greater
  <2> HIDE DEF z
  <2> QED BY <1>1, <1>3, <2>1, <2>2 DEF Lesser
<1> QED BY <1>4, <1>5

\* _normalize_macro_plan: no volume starts before the story or ends behind it, and one that starts
\* in the story has chapters.
LEMMA BoundsWithin ==
  ASSUME NEW drafts \in Seq(DraftRecords), NEW out, out = Bounds(drafts)
  PROVE  Within(out)
<1> DEFINE N == Len(drafts)
<1>1. PICK f \in [0..N -> Marks] :
         /\ f[0] = [end |-> 0, out |-> <<>>]
         /\ \A k \in 1..N : f[k] = Mark(drafts, f[k - 1], k)
         /\ Bounds(drafts) = f[N].out
  BY BoundsFold
<1> DEFINE e(j) == Span(drafts, f[j - 1], j)
           S == {k \in Nat : k <= N => f[k].end >= 0}
<1>2. out = [j \in 1..N |-> e(j)] /\ N \in Nat
  <2>1. out = [j \in 1..N |-> e(j)]
    BY <1>1, BoundsGiven
  <2>2. N \in Nat
    OBVIOUS
  <2> QED BY <2>1, <2>2
<1>3. 0 \in S
  BY <1>1
<1>4. ASSUME NEW k \in Nat, k \in S
      PROVE  k + 1 \in S
  <2> SUFFICES ASSUME k + 1 <= N PROVE f[k + 1].end >= 0
    OBVIOUS
  <2>1. k + 1 \in 1..N /\ k + 1 - 1 = k /\ k \in 0..N /\ k <= N
    BY <1>2
  <2>2. f[k] \in Marks /\ f[k].end >= 0
    BY <1>4, <2>1
  <2>3. f[k + 1].end = End(drafts, f[k], k + 1)
    <3>1. f[k + 1] = Mark(drafts, f[k + 1 - 1], k + 1)
      BY <1>1, <2>1
    <3> QED BY <2>1, <3>1 DEF Mark
  <2>4. End(drafts, f[k], k + 1) >= 0
    BY <2>1, <2>2, SpanWithin
  <2> QED BY <2>3, <2>4
<1> HIDE DEF S
<1>5. Nat \subseteq S
  BY <1>3, <1>4, Induction
<1>6. ASSUME NEW v \in 1..N
      PROVE  /\ out[v].start >= 1 /\ out[v].end <= TotalChapters
             /\ out[v].start <= TotalChapters => out[v].start <= out[v].end
  <2>1. v - 1 \in 0..N /\ v - 1 \in Nat /\ v - 1 <= N
    BY <1>2
  <2>2. f[v - 1] \in Marks /\ f[v - 1].end >= 0
    BY <1>5, <2>1 DEF S
  <2>3. out[v].start = Start(drafts, f[v - 1], v) /\ out[v].end = End(drafts, f[v - 1], v)
    BY <1>2 DEF Span
  <2> QED BY <2>2, <2>3, SpanWithin
<1>7. Len(out) = N
  <2> HIDE DEF e, N
  <2> QED BY <1>2
<1> QED BY <1>6, <1>7 DEF Within

\* Drafts that follow on each other from the first chapter to the last.
Consecutive(drafts) ==
  /\ drafts # <<>> /\ drafts[1].start = 1 /\ drafts[Len(drafts)].end = TotalChapters
  /\ \A v \in 2..Len(drafts) : drafts[v].start = drafts[v - 1].end + 1
  /\ \A v \in 1..Len(drafts) : drafts[v].start <= drafts[v].end /\ drafts[v].end <= TotalChapters

\* Such drafts are in order.
LEMMA ConsecutiveInOrder ==
  ASSUME NEW drafts \in Seq(DraftRecords), Consecutive(drafts)
  PROVE  InOrder(drafts) = drafts
<1> DEFINE N == Len(drafts)
           S == {m \in Nat :
                   \A i \in 1..N : i + m \in 1..N => drafts[i].start <= drafts[i + m].start}
<1>1. \A i \in 1..N : drafts[i].start \in Int /\ drafts[i].end \in Int
  <2>1. \A i \in 1..N : drafts[i] \in DraftRecords
    OBVIOUS
  <2> HIDE DEF N
  <2> QED BY <2>1 DEF DraftRecords
<1>2. N \in Nat
  OBVIOUS
<1>3. \A v \in 2..N : drafts[v].start = drafts[v - 1].end + 1
  BY DEF Consecutive
<1>4. \A v \in 1..N : drafts[v].start <= drafts[v].end
  BY DEF Consecutive
<1> HIDE DEF N
<1>5. 0 \in S
  <2> SUFFICES ASSUME NEW i \in 1..N PROVE drafts[i].start <= drafts[i + 0].start
    OBVIOUS
  <2>1. i + 0 = i /\ drafts[i].start \in Int
    BY <1>1
  <2> QED BY <2>1
<1>6. ASSUME NEW m \in Nat, m \in S
      PROVE  m + 1 \in S
  <2> SUFFICES ASSUME NEW i \in 1..N, i + (m + 1) \in 1..N
               PROVE  drafts[i].start <= drafts[i + (m + 1)].start
    OBVIOUS
  <2> DEFINE w == i + (m + 1)
             u == i + m
  <2>1. u \in 1..N /\ w \in 2..N /\ w - 1 = u /\ w \in 1..N
    BY <1>2
  <2>2. drafts[i].start <= drafts[u].start
    BY <1>6, <2>1
  <2> HIDE DEF w, u
  <2>3. drafts[w].start = drafts[u].end + 1 /\ drafts[u].start <= drafts[u].end
    BY <1>3, <1>4, <2>1
  <2>4. /\ drafts[i].start \in Int /\ drafts[u].start \in Int /\ drafts[u].end \in Int
        /\ drafts[w].start \in Int
    BY <1>1, <2>1
  <2>5. drafts[i].start <= drafts[w].start
    BY <2>2, <2>3, <2>4
  <2> QED BY <2>5 DEF w
<1> HIDE DEF S
<1>7. Nat \subseteq S
  BY <1>5, <1>6, Induction
<1>8. ASSUME NEW i \in 1..N, NEW j \in 1..N, i < j
      PROVE  drafts[i].start <= drafts[j].start
  <2>1. j - i \in Nat /\ i + (j - i) = j
    BY <1>8
  <2>2. \A k \in 1..N : k + (j - i) \in 1..N => drafts[k].start <= drafts[k + (j - i)].start
    BY <1>7, <2>1 DEF S
  <2>3. drafts[i].start <= drafts[i + (j - i)].start
    BY <2>1, <2>2
  <2> QED BY <2>1, <2>3
<1> QED BY <1>8, InOrderAlready DEF N

\* Such drafts are kept as they are.
LEMMA ConsecutiveBounds ==
  ASSUME NEW drafts \in Seq(DraftRecords), Consecutive(drafts)
  PROVE  \A v \in 1..Len(drafts) : /\ Bounds(drafts)[v].start = drafts[v].start
                                   /\ Bounds(drafts)[v].end = drafts[v].end
<1> DEFINE N == Len(drafts)
<1>0. N \in Nat /\ N >= 1 /\ TotalChapters \in Int
  BY CompileAssumption DEF Consecutive
<1>1. \A i \in 1..N : drafts[i].start \in Int /\ drafts[i].end \in Int
  <2>1. \A i \in 1..N : drafts[i] \in DraftRecords
    OBVIOUS
  <2> HIDE DEF N
  <2> QED BY <2>1 DEF DraftRecords
<1>2. PICK f \in [0..N -> Marks] :
         /\ f[0] = [end |-> 0, out |-> <<>>]
         /\ \A k \in 1..N : f[k] = Mark(drafts, f[k - 1], k)
         /\ Bounds(drafts) = f[N].out
  BY BoundsFold
<1>3. Bounds(drafts) = [j \in 1..N |-> Span(drafts, f[j - 1], j)]
  BY <1>2, BoundsGiven
<1> DEFINE Before(k) == IF k = 0 THEN 0 ELSE drafts[k].end
           Kept(k) == Span(drafts, f[k - 1], k)
             = [start |-> drafts[k].start, end |-> drafts[k].end]
<1>4. ASSUME NEW k \in 1..N, f[k - 1].end = Before(k - 1)
      PROVE  Kept(k) /\ f[k].end = drafts[k].end
  <2>1. drafts[k].start = Before(k - 1) + 1
    <3>1. CASE k = 1
      <4>1. 1 - 1 = 0
        OBVIOUS
      <4> QED BY <3>1, <4>1 DEF Consecutive
    <3>2. CASE k # 1
      <4>1. k \in 2..N /\ k - 1 # 0
        BY <1>0, <3>2
      <4> QED BY <4>1 DEF Consecutive
    <3> QED BY <3>1, <3>2
  <2>2. drafts[k].start <= drafts[k].end /\ drafts[k].end <= TotalChapters
    BY DEF Consecutive
  <2>3. k = N => drafts[k].end = TotalChapters
    BY DEF Consecutive
  <2>4. drafts[k].start \in Int /\ drafts[k].end \in Int
    BY <1>1
  <2> HIDE DEF Before
  <2>5. Start(drafts, f[k - 1], k) = drafts[k].start
    BY <1>4, <2>1, <2>4 DEF Start, Greater
  <2>6. End(drafts, f[k - 1], k) = drafts[k].end
    BY <1>0, <2>2, <2>3, <2>4, <2>5 DEF End, Greater, Lesser
  <2>7. f[k] = Mark(drafts, f[k - 1], k)
    BY <1>2
  <2> QED BY <2>5, <2>6, <2>7 DEF Span, Mark
<1> DEFINE S == {k \in Nat : k <= N => f[k].end = Before(k)}
<1>5. 0 \in S
  BY <1>2
<1>6. ASSUME NEW k \in Nat, k \in S
      PROVE  k + 1 \in S
  <2> SUFFICES ASSUME k + 1 <= N PROVE f[k + 1].end = Before(k + 1)
    OBVIOUS
  <2>1. k + 1 \in 1..N /\ k + 1 - 1 = k /\ k + 1 # 0 /\ k <= N
    BY <1>0
  <2>2. f[k + 1 - 1].end = Before(k + 1 - 1)
    BY <1>6, <2>1
  <2>3. f[k + 1].end = drafts[k + 1].end
    <3> DEFINE w == k + 1
    <3>1. w \in 1..N /\ f[w - 1].end = Before(w - 1)
      BY <2>1, <2>2
    <3> HIDE DEF w, Before, Kept
    <3>2. f[w].end = drafts[w].end
      BY <1>4, <3>1
    <3> QED BY <3>2 DEF w
  <2> QED BY <2>1, <2>3
<1> HIDE DEF S
<1>7. Nat \subseteq S
  BY <1>5, <1>6, Induction
<1>8. ASSUME NEW k \in 1..N
      PROVE  Kept(k)
  <2>1. k - 1 \in Nat /\ k - 1 <= N
    BY <1>0
  <2>2. f[k - 1].end = Before(k - 1)
    BY <1>7, <2>1 DEF S
  <2> HIDE DEF Before, Kept
  <2> QED BY <1>4, <2>2
<1>9. ASSUME NEW v \in 1..N
      PROVE  Bounds(drafts)[v].start = drafts[v].start /\ Bounds(drafts)[v].end = drafts[v].end
  <2>1. Bounds(drafts)[v] = Span(drafts, f[v - 1], v)
    BY <1>3
  <2>2. Span(drafts, f[v - 1], v) = [start |-> drafts[v].start, end |-> drafts[v].end]
    BY <1>8
  <2>3. Bounds(drafts)[v] = [start |-> drafts[v].start, end |-> drafts[v].end]
    BY <2>1, <2>2
  <2> QED BY <2>3
<1> QED BY <1>9

\* What every volume of the fallback has, and the longer ones more; and how far they come.
Base == TotalChapters \div VolumeCount
Rest == TotalChapters % VolumeCount
Long(i) == Base + (IF i <= Rest THEN 1 ELSE 0)
Come(i) == i * Base + Lesser(i, Rest)

\* The lengths add up to the chapters of the story.
LEMMA ComeFacts ==
  /\ Come(0) = 0 /\ Come(VolumeCount) = TotalChapters
  /\ \A i \in 0..VolumeCount : Come(i) \in Int /\ Come(i) <= TotalChapters
  /\ \A i \in 1..VolumeCount : /\ Long(i) \in Int /\ Long(i) >= 1
                               /\ Come(i) = Come(i - 1) + Long(i)
<1> DEFINE V == VolumeCount
           q == Base
           r == Rest
<1>1. V \in Nat \ {0} /\ TotalChapters \in Nat /\ V <= TotalChapters
  BY CompileAssumption
<1>2. q \in Nat /\ r \in 0..V - 1 /\ TotalChapters = V * q + r
  BY <1>1 DEF Base, Rest
<1>3. q >= 1
  <2>1. CASE q = 0
    <3>1. V * q = 0
      BY <1>1, <2>1
    <3> QED BY <1>1, <1>2, <3>1
  <2> QED BY <1>2, <2>1
<1>4. \A i \in Int : Come(i) = i * q + Lesser(i, r) /\ Long(i) = q + (IF i <= r THEN 1 ELSE 0)
  BY DEF Come, Long
<1> HIDE DEF q, r
<1>5. Come(0) = 0
  <2>1. 0 * q = 0
    BY <1>2
  <2> QED BY <1>2, <1>4, <2>1 DEF Lesser
<1>6. Come(V) = TotalChapters
  <2>1. Lesser(V, r) = r
    BY <1>1, <1>2 DEF Lesser
  <2> QED BY <1>1, <1>2, <1>4, <2>1
<1>7. ASSUME NEW i \in 0..V
      PROVE  Come(i) \in Int /\ Come(i) <= TotalChapters
  <2>1. i * q <= V * q
    BY <1>1, <1>2
  <2>2. Lesser(i, r) <= r /\ Lesser(i, r) \in Int
    BY <1>1, <1>2 DEF Lesser
  <2>3. i * q \in Int /\ V * q \in Int
    BY <1>1, <1>2
  <2> QED BY <1>2, <1>4, <2>1, <2>2, <2>3
<1>8. ASSUME NEW i \in 1..V
      PROVE  Long(i) \in Int /\ Long(i) >= 1 /\ Come(i) = Come(i - 1) + Long(i)
  <2>1. i * q = (i - 1) * q + q
    BY <1>1, <1>2
  <2>2. Lesser(i, r) = Lesser(i - 1, r) + (IF i <= r THEN 1 ELSE 0)
    BY <1>1, <1>2 DEF Lesser
  <2>3. Long(i) \in Int /\ Long(i) >= 1
    BY <1>2, <1>3, <1>4
  <2>4. (i - 1) * q \in Int /\ Lesser(i - 1, r) \in Int
    BY <1>1, <1>2 DEF Lesser
  <2>5. Come(i) = i * q + Lesser(i, r) /\ Come(i - 1) = (i - 1) * q + Lesser(i - 1, r)
    BY <1>4
  <2>6. Long(i) = q + (IF i <= r THEN 1 ELSE 0) /\ q \in Int /\ (IF i <= r THEN 1 ELSE 0) \in Int
    BY <1>2, <1>4
  <2> DEFINE x == (i - 1) * q
             y == i * q
             l == Lesser(i - 1, r)
             o == IF i <= r THEN 1 ELSE 0
  <2> HIDE DEF x, y, l, o
  <2>7. Come(i) = Come(i - 1) + Long(i)
    <3>1. y = x + q /\ Lesser(i, r) = l + o /\ x \in Int /\ l \in Int /\ o \in Int
      BY <2>1, <2>2, <2>4, <2>6 DEF x, y, l, o
    <3>2. Come(i) = y + Lesser(i, r) /\ Come(i - 1) = x + l /\ Long(i) = q + o
      BY <2>5, <2>6 DEF x, y, l, o
    <3> QED BY <2>6, <3>1, <3>2
  <2> QED BY <2>3, <2>7
<1> QED BY <1>5, <1>6, <1>7, <1>8

\* The chapters before a volume of the fallback.
LEMMA TotalIsCome ==
  ASSUME NEW n \in 0..VolumeCount
  PROVE  Total([j \in 1..n |-> Long(j)]) = Come(n)
<1> DEFINE s == [j \in 1..n |-> Long(j)]
<1>0. VolumeCount \in Nat /\ n \in Nat
  BY CompileAssumption
<1>1. s \in Seq(Int) /\ Len(s) = n /\ \A j \in 1..n : s[j] = Long(j)
  <2>1. \A j \in 1..n : Long(j) \in Int
    BY <1>0, ComeFacts
  <2> QED BY <1>0, <2>1
<1> HIDE DEF s
<1>2. PICK g \in [0..n -> Int] :
         /\ g[0] = 0 /\ \A k \in 1..n : g[k] = g[k - 1] + s[k]
         /\ Total(s) = g[n]
  BY <1>1, TotalFolds
<1> DEFINE S == {k \in Nat : k <= n => g[k] = Come(k)}
<1>3. 0 \in S
  BY <1>2, ComeFacts
<1>4. ASSUME NEW k \in Nat, k \in S
      PROVE  k + 1 \in S
  <2> SUFFICES ASSUME k + 1 <= n PROVE g[k + 1] = Come(k + 1)
    OBVIOUS
  <2>1. k + 1 \in 1..n /\ k + 1 - 1 = k /\ k + 1 \in 1..VolumeCount /\ k <= n
    BY <1>0
  <2>2. g[k + 1] = g[k + 1 - 1] + s[k + 1] /\ Come(k + 1) = Come(k + 1 - 1) + Long(k + 1)
    BY <1>2, <2>1, ComeFacts
  <2>3. s[k + 1] = Long(k + 1) /\ g[k] = Come(k)
    BY <1>1, <1>4, <2>1
  <2> QED BY <2>1, <2>2, <2>3
<1> HIDE DEF S
<1>5. Nat \subseteq S
  BY <1>3, <1>4, Induction
<1>6. g[n] = Come(n)
  BY <1>0, <1>5 DEF S
<1> QED BY <1>2, <1>6 DEF s

\* _fallback_volume_plan_drafts_by_count: its drafts follow on each other.
LEMMA FallbackFacts ==
  /\ FallbackDrafts \in Seq(DraftRecords) /\ Len(FallbackDrafts) = VolumeCount
  /\ Consecutive(FallbackDrafts)
<1> DEFINE V == VolumeCount
           D(i) == [start |-> Come(i - 1) + 1, end |-> Come(i - 1) + Long(i),
                    words |-> Greater(1, TargetWords \div VolumeCount), anchors |-> 3]
<1>0. V \in Nat \ {0} /\ TargetWords \in Nat
  BY CompileAssumption
<1>1. \A i \in 1..V : Total([j \in 1..(i - 1) |-> Long(j)]) = Come(i - 1)
  <2> SUFFICES ASSUME NEW i \in 1..V PROVE Total([j \in 1..(i - 1) |-> Long(j)]) = Come(i - 1)
    OBVIOUS
  <2>1. i - 1 \in 0..VolumeCount
    BY <1>0
  <2> QED BY <2>1, TotalIsCome
<1>2. FallbackDrafts = [i \in 1..V |->
         [start |-> Total([j \in 1..(i - 1) |-> Long(j)]) + 1,
          end |-> Total([j \in 1..(i - 1) |-> Long(j)]) + Long(i),
          words |-> Greater(1, TargetWords \div VolumeCount), anchors |-> 3]]
  BY Zenon DEF FallbackDrafts, Long, Base, Rest
<1>3. FallbackDrafts = [i \in 1..V |-> D(i)]
  BY <1>1, <1>2
<1>4. ASSUME NEW i \in 1..V
      PROVE  /\ D(i) \in DraftRecords
             /\ D(i).end = Come(i) /\ D(i).start = Come(i - 1) + 1
             /\ D(i).start <= D(i).end /\ D(i).end <= TotalChapters
  <2>1. i - 1 \in 0..V /\ i \in 0..V
    BY <1>0
  <2>2. Come(i - 1) \in Int /\ Long(i) \in Int /\ Long(i) >= 1 /\ Come(i) = Come(i - 1) + Long(i)
        /\ Come(i) <= TotalChapters
    BY <2>1, ComeFacts
  <2>3. Greater(1, TargetWords \div VolumeCount) \in Int
    <3>1. TargetWords \div VolumeCount \in Int
      BY <1>0
    <3> QED BY <3>1 DEF Greater
  <2>4. TotalChapters \in Int
    BY CompileAssumption
  <2> QED BY <2>2, <2>3, <2>4 DEF DraftRecords
<1> HIDE DEF D
<1>5. FallbackDrafts \in Seq(DraftRecords) /\ Len(FallbackDrafts) = V
  BY <1>0, <1>3, <1>4
<1>6. \A i \in 1..V : FallbackDrafts[i] = D(i)
  BY <1>3
<1> DEFINE d == FallbackDrafts
<1> HIDE DEF d
<1>7. d[1].start = 1
  <2>1. 1 \in 1..V /\ 1 - 1 = 0
    BY <1>0
  <2>2. d[1].start = Come(1 - 1) + 1
    BY <1>4, <1>6, <2>1 DEF d
  <2> QED BY <2>1, <2>2, ComeFacts
<1>8. d[V].end = TotalChapters
  <2>1. V \in 1..V
    BY <1>0
  <2> QED BY <1>4, <1>6, <2>1, ComeFacts DEF d
<1>9. ASSUME NEW v \in 2..V
      PROVE  d[v].start = d[v - 1].end + 1
  <2>1. v \in 1..V /\ v - 1 \in 1..V
    BY <1>0
  <2>2. d[v].start = Come(v - 1) + 1
    BY <1>4, <1>6, <2>1 DEF d
  <2>3. d[v - 1].end = Come(v - 1)
    BY <1>4, <1>6, <2>1 DEF d
  <2> QED BY <2>2, <2>3
<1>10. \A v \in 1..V : d[v].start <= d[v].end /\ d[v].end <= TotalChapters
  BY <1>4, <1>6 DEF d
<1>11. d # <<>>
  BY <1>0, <1>5 DEF d
<1>12. Len(d) = V
  BY <1>5 DEF d
<1>13. Consecutive(d)
  BY <1>7, <1>8, <1>9, <1>10, <1>11, <1>12 DEF Consecutive
<1> QED BY <1>5, <1>13 DEF d

\* What a volume is after it has been normalized.
VolumeRecords == [start : Int, end : Int, words : Nat \ {0}, anchors : MinAnchors..MaxAnchors]
WordsOf(vs) == [v \in DOMAIN vs |-> vs[v].words]

\* Volumes that are apart, and whose budgets spend the target.
Apart(vs) ==
  /\ \A v \in 2..Len(vs) : vs[v - 1].end < vs[v].start
  /\ vs[Len(vs)].end = TotalChapters
Budgeted(vs) ==
  /\ TargetWords <= Total(WordsOf(vs))
  /\ Total(WordsOf(vs)) <= TargetWords + Cardinality({v \in DOMAIN vs : vs[v].words = 1})

\* _normalize_volume_word_budgets: what the weights are.
LEMMA BudgetsFacts ==
  ASSUME NEW drafts \in Seq(DraftRecords), drafts # <<>>,
         NEW bounds \in Seq(Spans), Len(bounds) = Len(drafts),
         NEW words, words = Budgets(drafts, bounds)
  PROVE  /\ words \in Seq(Nat \ {0}) /\ Len(words) = Len(drafts)
         /\ TargetWords <= Total(words) /\ Total(words) <= TargetWords + Cardinality(Least(words))
<1> DEFINE N == Len(drafts)
           asked == [i \in DOMAIN drafts |-> Greater(0, drafts[i].words)]
           long == [i \in DOMAIN bounds |-> Greater(1, bounds[i].end - bounds[i].start + 1)]
           weights == IF \E i \in DOMAIN asked : asked[i] > 0 THEN asked ELSE long
<1>1. N \in Nat \ {0} /\ DOMAIN drafts = 1..N /\ DOMAIN bounds = 1..N
      /\ (\A i \in 1..N : drafts[i] \in DraftRecords)
      /\ (\A i \in 1..N : bounds[i] \in Spans)
  OBVIOUS
<1>2. words = Shares(weights)
  BY DEF Budgets
<1>3. \A i \in 1..N : Greater(0, drafts[i].words) \in Nat
  BY <1>1 DEF DraftRecords, Greater
<1>4. \A i \in 1..N : Greater(1, bounds[i].end - bounds[i].start + 1) \in Nat
  BY <1>1 DEF Spans, Greater
<1>5. asked \in Seq(Nat) /\ Len(asked) = N
  <2> DEFINE e(i) == Greater(0, drafts[i].words)
  <2>1. asked = [i \in 1..N |-> e(i)] /\ \A i \in 1..N : e(i) \in Nat
    BY <1>1, <1>3
  <2> HIDE DEF e, asked, N
  <2> QED BY <1>1, <2>1
<1>6. long \in Seq(Nat) /\ Len(long) = N
  <2> DEFINE e(i) == Greater(1, bounds[i].end - bounds[i].start + 1)
  <2>1. long = [i \in 1..N |-> e(i)] /\ \A i \in 1..N : e(i) \in Nat
    BY <1>1, <1>4
  <2> HIDE DEF e, long, N
  <2> QED BY <1>1, <2>1
<1> HIDE DEF asked, long
<1>7. weights \in Seq(Nat) /\ Len(weights) = N
  BY <1>5, <1>6
<1> HIDE DEF weights, N
<1>8. weights # <<>>
  BY <1>1, <1>7
<1>9. /\ words \in Seq(Nat \ {0}) /\ Len(words) = Len(weights)
      /\ TargetWords <= Total(words) /\ Total(words) <= TargetWords + Cardinality(Least(words))
  BY <1>2, <1>7, <1>8, SharesFacts
<1> QED BY <1>7, <1>9 DEF N

\* _normalize_macro_plan: the volumes are apart, their budgets spend the target, and drafts that
\* follow on each other are kept.
LEMMA NormalizedFacts ==
  ASSUME NEW drafts \in Seq(DraftRecords), drafts # <<>>, NEW vs, vs = Normalized(drafts)
  PROVE  /\ vs \in Seq(VolumeRecords) /\ Len(vs) = Len(drafts)
         /\ Apart(vs) /\ Budgeted(vs)
         /\ \A v \in 1..Len(vs) : /\ vs[v].start = Bounds(drafts)[v].start
                                  /\ vs[v].end = Bounds(drafts)[v].end
<1> DEFINE N == Len(drafts)
           bounds == Bounds(drafts)
           words == Budgets(drafts, bounds)
           many(i) == Lesser(MaxAnchors, Greater(MinAnchors, drafts[i].anchors))
           e(i) == [start |-> bounds[i].start, end |-> bounds[i].end, words |-> words[i],
                    anchors |-> many(i)]
<1>1. N \in Nat \ {0} /\ DOMAIN drafts = 1..N /\ \A i \in 1..N : drafts[i] \in DraftRecords
  OBVIOUS
<1>2. /\ bounds \in Seq(Spans) /\ Len(bounds) = N
      /\ \A v \in 2..N : bounds[v - 1].end < bounds[v].start
      /\ bounds[N].end = TotalChapters
  BY BoundsFacts
<1>3. vs = [i \in 1..N |-> e(i)]
  BY <1>1 DEF Normalized
<1> HIDE DEF bounds, N
<1>4. /\ words \in Seq(Nat \ {0}) /\ Len(words) = N
      /\ TargetWords <= Total(words) /\ Total(words) <= TargetWords + Cardinality(Least(words))
  BY <1>2, BudgetsFacts DEF N
<1> HIDE DEF words
<1>5. \A i \in 1..N : many(i) \in MinAnchors..MaxAnchors
  <2>1. \A i \in 1..N : drafts[i].anchors \in Nat
    BY <1>1 DEF DraftRecords
  <2> QED BY <2>1, CompileAssumption DEF Greater, Lesser
<1> HIDE DEF many
<1>6. \A i \in 1..N : bounds[i].start \in Int /\ bounds[i].end \in Int
  <2>1. \A i \in 1..N : bounds[i] \in Spans
    BY <1>2
  <2> QED BY <2>1 DEF Spans
<1>7. \A i \in 1..N : words[i] \in Nat \ {0}
  BY <1>4
<1>8. \A i \in 1..N : e(i) \in VolumeRecords
  BY <1>5, <1>6, <1>7 DEF VolumeRecords
<1>9. \A i \in 1..N : e(i).start = bounds[i].start /\ e(i).end = bounds[i].end
        /\ e(i).words = words[i]
  OBVIOUS
<1> HIDE DEF e
<1>10. vs \in Seq(VolumeRecords) /\ Len(vs) = N /\ DOMAIN vs = 1..N /\ \A i \in 1..N : vs[i] = e(i)
  BY <1>1, <1>3, <1>8
<1>11. Apart(vs)
  <2>1. vs[N].end = TotalChapters
    BY <1>1, <1>2, <1>9, <1>10
  <2>2. ASSUME NEW v \in 2..N
        PROVE  vs[v - 1].end < vs[v].start
    <3>1. v \in 1..N /\ v - 1 \in 1..N
      BY <1>1
    <3>2. vs[v - 1].end = bounds[v - 1].end /\ vs[v].start = bounds[v].start
      BY <1>9, <1>10, <3>1
    <3> QED BY <1>2, <3>2
  <2> QED BY <1>10, <2>1, <2>2 DEF Apart
<1>12. WordsOf(vs) = words
  <2>1. words = [i \in 1..N |-> words[i]]
    BY <1>1, <1>4
  <2>2. WordsOf(vs) = [i \in 1..N |-> words[i]]
    BY <1>9, <1>10 DEF WordsOf
  <2> QED BY <2>1, <2>2
<1>13. Least(words) = {v \in DOMAIN vs : vs[v].words = 1}
  <2>1. DOMAIN words = 1..N
    BY <1>1, <1>4
  <2> QED BY <1>9, <1>10, <2>1 DEF Least
<1>14. Budgeted(vs)
  BY <1>4, <1>12, <1>13 DEF Budgeted
<1>15. \A v \in 1..N : vs[v].start = bounds[v].start /\ vs[v].end = bounds[v].end
  BY <1>9, <1>10
<1> QED BY <1>10, <1>11, <1>14, <1>15 DEF N, bounds

\* The fallback's volumes leave no gap.
LEMMA FallbackVolumes ==
  ASSUME NEW vs, vs = Normalized(InOrder(FallbackDrafts))
  PROVE  /\ Len(vs) = VolumeCount /\ vs[1].start = 1
         /\ \A v \in 2..Len(vs) : vs[v].start = vs[v - 1].end + 1
         /\ \A v \in 1..Len(vs) : vs[v].start <= vs[v].end
<1> DEFINE d == FallbackDrafts
<1>1. d \in Seq(DraftRecords) /\ Len(d) = VolumeCount /\ Consecutive(d)
  BY FallbackFacts
<1> HIDE DEF d
<1>2. vs = Normalized(d)
  BY <1>1, ConsecutiveInOrder DEF d
<1>3. d # <<>>
  BY <1>1 DEF Consecutive
<1>4. Len(vs) = Len(d) /\ \A v \in 1..Len(vs) : /\ vs[v].start = Bounds(d)[v].start
                                               /\ vs[v].end = Bounds(d)[v].end
  BY <1>1, <1>2, <1>3, NormalizedFacts
<1>5. \A v \in 1..Len(d) : Bounds(d)[v].start = d[v].start /\ Bounds(d)[v].end = d[v].end
  BY <1>1, ConsecutiveBounds
<1>6. \A v \in 1..Len(d) : vs[v].start = d[v].start /\ vs[v].end = d[v].end
  BY <1>4, <1>5
<1>7. VolumeCount \in Nat \ {0}
  BY CompileAssumption
<1>8. vs[1].start = 1
  BY <1>1, <1>6, <1>7 DEF Consecutive
<1>9. ASSUME NEW v \in 2..Len(d)
      PROVE  vs[v].start = vs[v - 1].end + 1
  <2>1. v \in 1..Len(d) /\ v - 1 \in 1..Len(d)
    BY <1>1, <1>7
  <2>2. d[v].start = d[v - 1].end + 1
    BY <1>1 DEF Consecutive
  <2> QED BY <1>6, <2>1, <2>2
<1>10. \A v \in 1..Len(d) : vs[v].start <= vs[v].end
  BY <1>1, <1>6 DEF Consecutive
<1> QED BY <1>1, <1>4, <1>8, <1>9, <1>10

-----------------------------------------------------------------------------
(* Nodes. *)

\* Lists of nodes whose dependencies are in the list.
StoryLines == {"MAIN", "S", "A", "B"} \X Nat \X Nat
NodesOf(V) == [kind : Kinds, deps : SUBSET Nat, volume : V, main : BOOLEAN, line : StoryLines]
Closed(list) == \A n \in 1..Len(list) : list[n].deps \subseteq 1..Len(list)
Lists(V) == {list \in Seq(NodesOf(V)) : Closed(list)}

\* What a list of nodes is.
LEMMA ListFacts ==
  ASSUME NEW V, NEW list \in Lists(V)
  PROVE  /\ list \in Seq(NodesOf(V)) /\ Len(list) \in Nat /\ DOMAIN list = 1..Len(list)
         /\ \A n \in 1..Len(list) : list[n] \in NodesOf(V) /\ list[n].deps \subseteq 1..Len(list)
BY DEF Lists, Closed

\* The empty list.
LEMMA EmptyList ==
  ASSUME NEW V
  PROVE  <<>> \in Lists(V)
BY DEF Lists, Closed

\* A beat is a node.
LEMMA BeatTyped ==
  ASSUME NEW V, NEW v \in V, NEW line \in StoryLines, NEW deps \in SUBSET Nat
  PROVE  Beat(v, line, deps) \in NodesOf(V) /\ Beat(v, line, deps).deps = deps
<1>1. "NORMAL" \in Kinds
  BY DEF Kinds
<1>2. (line = Main) \in BOOLEAN
  OBVIOUS
<1> DEFINE m == line = Main
<1>3. Beat(v, line, deps) = [kind |-> "NORMAL", deps |-> deps, volume |-> v, main |-> m,
        line |-> line]
  BY DEF Beat
<1> HIDE DEF m
<1>4. m \in BOOLEAN
  BY <1>2 DEF m
<1> QED BY <1>1, <1>3, <1>4 DEF NodesOf

\* One list behind another.
LEMMA ListsJoin ==
  ASSUME NEW V, NEW list \in Lists(V), NEW more \in Seq(NodesOf(V)),
         \A i \in 1..Len(more) : more[i].deps \subseteq 1..(Len(list) + Len(more))
  PROVE  list \o more \in Lists(V) /\ Len(list \o more) = Len(list) + Len(more)
<1> DEFINE all == list \o more
           L == Len(list)
           K == Len(more)
<1>1. L \in Nat /\ K \in Nat /\ list \in Seq(NodesOf(V))
  BY ListFacts
<1>2. all \in Seq(NodesOf(V)) /\ Len(all) = L + K
  BY <1>1
<1>3. \A n \in 1..L : all[n] = list[n]
  BY <1>1
<1>4. \A n \in 1..L + K : n > L => n - L \in 1..K /\ all[n] = more[n - L]
  BY <1>1
<1> HIDE DEF all
<1>5. ASSUME NEW n \in 1..L + K
      PROVE  all[n].deps \subseteq 1..L + K
  <2>1. CASE n <= L
    <3>1. n \in 1..L /\ 1..L \subseteq 1..L + K
      BY <1>1, <2>1
    <3>2. list[n].deps \subseteq 1..L
      BY <3>1, ListFacts
    <3> QED BY <1>3, <3>1, <3>2
  <2>2. CASE n > L
    BY <1>4, <2>2
  <2> QED BY <1>1, <2>1, <2>2
<1> QED BY <1>2, <1>5 DEF Lists, Closed, all

\* A chain is made of nodes, as many as were asked for.
LEMMA ChainTyped ==
  ASSUME NEW V, NEW list \in Lists(V), NEW v \in V, NEW line \in StoryLines,
         NEW first \in SUBSET (1..Len(list)), NEW length \in Nat
  PROVE  /\ Chain(list, v, line, first, length) \in Lists(V)
         /\ Len(Chain(list, v, line, first, length)) = Len(list) + length
<1> DEFINE L == Len(list)
           deps(i) == IF i = 1 THEN first ELSE {L + i - 1}
           more == [i \in 1..length |-> Beat(v, line, deps(i))]
<1>1. L \in Nat
  BY ListFacts
<1>2. \A i \in 1..length : deps(i) \subseteq 1..L + length /\ deps(i) \in SUBSET Nat
  <2> SUFFICES ASSUME NEW i \in 1..length
               PROVE  deps(i) \subseteq 1..L + length /\ deps(i) \in SUBSET Nat
    OBVIOUS
  <2>1. first \subseteq 1..L
    OBVIOUS
  <2> HIDE DEF L
  <2>2. 1..L \subseteq 1..L + length /\ 1..L + length \subseteq Nat
    BY <1>1
  <2>3. i # 1 => L + i - 1 \in 1..L + length
    BY <1>1
  <2> QED BY <2>1, <2>2, <2>3
<1>3. Chain(list, v, line, first, length) = list \o more
  BY DEF Chain
<1> HIDE DEF deps
<1>4. \A i \in 1..length : /\ Beat(v, line, deps(i)) \in NodesOf(V)
                            /\ Beat(v, line, deps(i)).deps = deps(i)
  BY <1>2, BeatTyped
<1> DEFINE e(i) == Beat(v, line, deps(i))
<1>5. \A i \in 1..length : e(i) \in NodesOf(V) /\ e(i).deps \subseteq 1..L + length
  BY <1>2, <1>4
<1>6. more = [i \in 1..length |-> e(i)]
  OBVIOUS
<1> HIDE DEF e, more
<1>7. more \in Seq(NodesOf(V)) /\ Len(more) = length
      /\ \A i \in 1..length : more[i].deps \subseteq 1..L + length
  BY <1>5, <1>6
<1>8. list \o more \in Lists(V) /\ Len(list \o more) = L + length
  BY <1>7, ListsJoin
<1> QED BY <1>3, <1>8

\* The storylines.
LEMMA LinesTyped ==
  /\ Main \in StoryLines
  /\ \A v \in Nat, i \in Nat : /\ Line("S", v, i) \in StoryLines /\ Line("A", v, i) \in StoryLines
                               /\ Line("B", v, i) \in StoryLines
BY DEF Main, Line, StoryLines

\* How many main anchors every volume has.
AnchorCounts(V) == [1..V -> Nat \ {0}]
Onward(anchors, list, v) ==
  Chain(list, v, Main, IF list = <<>> THEN {} ELSE {Len(list)}, anchors[v])

\* The main storyline goes on.
LEMMA OnwardTyped ==
  ASSUME NEW V \in Nat, NEW anchors \in AnchorCounts(V), NEW list \in Lists(1..V), NEW v \in 1..V
  PROVE  /\ Onward(anchors, list, v) \in Lists(1..V)
         /\ Len(Onward(anchors, list, v)) = Len(list) + anchors[v]
<1> DEFINE first == IF list = <<>> THEN {} ELSE {Len(list)}
<1>1. first \in SUBSET (1..Len(list))
  <2>1. list \in Seq(NodesOf(1..V))
    BY ListFacts
  <2>2. list # <<>> => Len(list) \in 1..Len(list)
    BY <2>1
  <2> QED BY <2>2
<1>2. anchors[v] \in Nat
  BY DEF AnchorCounts
<1>3. Onward(anchors, list, v) = Chain(list, v, Main, first, anchors[v])
  BY DEF Onward
<1> HIDE DEF first
<1>4. Main \in StoryLines
  BY LinesTyped
<1> DEFINE W == 1..V
           length == anchors[v]
<1>5. list \in Lists(W) /\ v \in W /\ length \in Nat
  BY <1>2
<1> HIDE DEF W, length
<1>6. /\ Chain(list, v, Main, first, length) \in Lists(W)
      /\ Len(Chain(list, v, Main, first, length)) = Len(list) + length
  BY <1>1, <1>4, <1>5, ChainTyped
<1> QED BY <1>3, <1>6 DEF W, length

\* The main storyline is made volume by volume.
LEMMA MainLineFold ==
  ASSUME NEW V \in Nat, NEW anchors \in AnchorCounts(V)
  PROVE  \E f \in [0..V -> Lists(1..V)] :
            /\ f[0] = <<>> /\ \A k \in 1..V : f[k] = Onward(anchors, f[k - 1], k)
            /\ MainLine(anchors) = f[V]
<1> DEFINE sq == [v \in DOMAIN anchors |-> v]
           N == V
           T == Lists(1..V)
           base == <<>>
           Step(x, e) == Onward(anchors, x, e)
           G == [p \in (1..N) \X T |-> Step(p[2], sq[p[1]])]
           iter == CHOOSE h : h = [t \in SUBSET DOMAIN sq |->
                      IF t = {} THEN base ELSE Step(h[t \ {Max(t)}], sq[Max(t)])]
<1>1. MainLine(anchors) = iter[DOMAIN sq]
  BY Zenon DEF MainLine, Onward, FoldLeft, MapThenFoldSet
<1>2. N \in Nat /\ DOMAIN sq = 1..N
  BY DEF AnchorCounts
<1>3. base \in T
  BY EmptyList
<1>4. \A k \in 1..N, x \in T : Step(x, sq[k]) \in T
  <2>1. \A k \in 1..N : sq[k] = k
    BY DEF AnchorCounts
  <2> QED BY <2>1, OnwardTyped
<1> HIDE DEF sq, N, base, Step
<1>5. G \in [(1..N) \X T -> T]
  BY <1>2, <1>4
<1>6. \A k \in 1..N, x \in T : G[<<k, x>>] = Step(x, sq[k])
  OBVIOUS
<1> HIDE DEF T, G
<1>7. PICK h \in [SUBSET (1..N) -> T] : Iterates(h, G, base, N)
  BY <1>2, <1>3, <1>5, IterationExists
<1>8. \A t \in SUBSET (1..N) : t # {} => Max(t) \in 1..N /\ t \ {Max(t)} \in SUBSET (1..N)
  BY <1>2, MaxIsElement
<1>9. h = [t \in SUBSET (1..N) |-> IF t = {} THEN base ELSE Step(h[t \ {Max(t)}], sq[Max(t)])]
  BY <1>6, <1>7, <1>8 DEF Iterates
<1>10. iter = [t \in SUBSET (1..N) |->
                 IF t = {} THEN base ELSE Step(iter[t \ {Max(t)}], sq[Max(t)])]
  <2>1. iter = CHOOSE x : x = [t \in SUBSET (1..N) |->
                      IF t = {} THEN base ELSE Step(x[t \ {Max(t)}], sq[Max(t)])]
    BY <1>2
  <2> HIDE DEF iter
  <2> QED BY <1>9, <2>1
<1> HIDE DEF iter
<1>11. Folds(iter, T, G, base, N)
  BY <1>6, <1>8, <1>10 DEF Folds
<1>12. FoldsTo(T, G, base, N, iter[1..N])
  BY <1>2, <1>3, <1>5, <1>11, IterationSteps
<1>13. PICK f \in [0..N -> T] :
          /\ f[0] = base /\ iter[1..N] = f[N]
          /\ \A k \in 1..N : f[k] = G[<<k, f[k - 1]>>]
  BY <1>12 DEF FoldsTo, Steps
<1>14. \A k \in 1..N : f[k] = Step(f[k - 1], sq[k])
  <2>1. \A k \in 1..N : k - 1 \in 0..N
    BY <1>2
  <2> QED BY <1>6, <1>13, <2>1
<1>15. MainLine(anchors) = f[N]
  BY <1>1, <1>2, <1>13
<1>16. \A k \in 1..N : sq[k] = k
  BY DEF sq, N, AnchorCounts
<1> QED BY <1>13, <1>14, <1>15, <1>16 DEF N, T, base, Step

\* The main anchors before a volume are counted volume by volume.
LEMMA MainsFold ==
  ASSUME NEW V \in Nat, NEW anchors \in AnchorCounts(V), NEW v \in 1..V
  PROVE  \E f \in [0..(v - 1) -> Nat] :
            /\ f[0] = 0 /\ \A k \in 1..(v - 1) : f[k] = f[k - 1] + anchors[k]
            /\ MainsBefore(anchors, v) = f[v - 1]
<1> DEFINE sq == [u \in 1..(v - 1) |-> u]
           N == v - 1
           T == Nat
           base == 0
           Step(x, e) == x + anchors[e]
           G == [p \in (1..N) \X T |-> Step(p[2], sq[p[1]])]
           iter == CHOOSE h : h = [t \in SUBSET DOMAIN sq |->
                      IF t = {} THEN base ELSE Step(h[t \ {Max(t)}], sq[Max(t)])]
<1>1. MainsBefore(anchors, v) = iter[DOMAIN sq]
  BY Zenon DEF MainsBefore, FoldLeft, MapThenFoldSet
<1>2. N \in Nat /\ DOMAIN sq = 1..N
  OBVIOUS
<1>3. base \in T
  OBVIOUS
<1>4. \A k \in 1..N, x \in T : Step(x, sq[k]) \in T
  <2>1. \A k \in 1..N : sq[k] = k /\ anchors[k] \in Nat
    BY DEF AnchorCounts
  <2> QED BY <2>1
<1> HIDE DEF sq, N, base, Step
<1>5. G \in [(1..N) \X T -> T]
  BY <1>2, <1>4
<1>6. \A k \in 1..N, x \in T : G[<<k, x>>] = Step(x, sq[k])
  OBVIOUS
<1> HIDE DEF T, G
<1>7. PICK h \in [SUBSET (1..N) -> T] : Iterates(h, G, base, N)
  BY <1>2, <1>3, <1>5, IterationExists
<1>8. \A t \in SUBSET (1..N) : t # {} => Max(t) \in 1..N /\ t \ {Max(t)} \in SUBSET (1..N)
  BY <1>2, MaxIsElement
<1>9. h = [t \in SUBSET (1..N) |-> IF t = {} THEN base ELSE Step(h[t \ {Max(t)}], sq[Max(t)])]
  BY <1>6, <1>7, <1>8 DEF Iterates
<1>10. iter = [t \in SUBSET (1..N) |->
                 IF t = {} THEN base ELSE Step(iter[t \ {Max(t)}], sq[Max(t)])]
  <2>1. iter = CHOOSE x : x = [t \in SUBSET (1..N) |->
                      IF t = {} THEN base ELSE Step(x[t \ {Max(t)}], sq[Max(t)])]
    BY <1>2
  <2> HIDE DEF iter
  <2> QED BY <1>9, <2>1
<1> HIDE DEF iter
<1>11. Folds(iter, T, G, base, N)
  BY <1>6, <1>8, <1>10 DEF Folds
<1>12. FoldsTo(T, G, base, N, iter[1..N])
  BY <1>2, <1>3, <1>5, <1>11, IterationSteps
<1>13. PICK f \in [0..N -> T] :
          /\ f[0] = base /\ iter[1..N] = f[N]
          /\ \A k \in 1..N : f[k] = G[<<k, f[k - 1]>>]
  BY <1>12 DEF FoldsTo, Steps
<1>14. \A k \in 1..N : f[k] = Step(f[k - 1], sq[k])
  <2>1. \A k \in 1..N : k - 1 \in 0..N
    BY <1>2
  <2> QED BY <1>6, <1>13, <2>1
<1>15. MainsBefore(anchors, v) = f[N]
  BY <1>1, <1>2, <1>13
<1>16. \A k \in 1..N : sq[k] = k
  BY DEF sq, N
<1> QED BY <1>13, <1>14, <1>15, <1>16 DEF N, T, base, Step

\* _build_fishbone_anchor_nodes: the main anchors of a volume are in the main storyline.
LEMMA MainLineFacts ==
  ASSUME NEW V \in Nat \ {0}, NEW anchors \in AnchorCounts(V)
  PROVE  /\ MainLine(anchors) \in Lists(1..V) /\ Len(MainLine(anchors)) >= 1
         /\ \A v \in 1..V : /\ FirstMain(anchors, v) \in Nat /\ FirstMain(anchors, v) >= 1
                            /\ LastMain(anchors, v) \in Nat
                            /\ LastMain(anchors, v) = FirstMain(anchors, v) + anchors[v] - 1
                            /\ LastMain(anchors, v) <= Len(MainLine(anchors))
<1>1. PICK f \in [0..V -> Lists(1..V)] :
         /\ f[0] = <<>> /\ \A k \in 1..V : f[k] = Onward(anchors, f[k - 1], k)
         /\ MainLine(anchors) = f[V]
  BY MainLineFold
<1> DEFINE L == [k \in 0..V |-> Len(f[k])]
<1>2. L \in [0..V -> Int]
  <2>1. \A k \in 0..V : Len(f[k]) \in Nat
    <3>1. \A k \in 0..V : f[k] \in Lists(1..V)
      OBVIOUS
    <3> QED BY <3>1, ListFacts
  <2> QED BY <2>1
<1>3. \A k \in 1..V : L[k] = L[k - 1] + anchors[k]
  <2> SUFFICES ASSUME NEW k \in 1..V PROVE L[k] = L[k - 1] + anchors[k]
    OBVIOUS
  <2>1. k - 1 \in 0..V /\ k \in 0..V
    OBVIOUS
  <2>2. f[k] = Onward(anchors, f[k - 1], k) /\ f[k - 1] \in Lists(1..V)
    BY <1>1, <2>1
  <2>3. Len(f[k]) = Len(f[k - 1]) + anchors[k]
    BY <2>2, OnwardTyped
  <2> QED BY <2>1, <2>3
<1>4. L[0] = 0 /\ L[V] = Len(MainLine(anchors))
  BY <1>1
<1> HIDE DEF L
<1>5. anchors \in Seq(Nat) /\ Len(anchors) = V /\ \A k \in 1..V : anchors[k] \in Nat \ {0}
  BY DEF AnchorCounts
<1>6. \A k \in 0..V : 0 <= L[k] /\ L[k] <= L[V]
  BY <1>2, <1>3, <1>4, <1>5, SumGrows
<1>7. ASSUME NEW v \in 1..V
      PROVE  MainsBefore(anchors, v) = L[v - 1]
  <2>1. PICK g \in [0..(v - 1) -> Nat] :
            /\ g[0] = 0 /\ \A k \in 1..(v - 1) : g[k] = g[k - 1] + anchors[k]
            /\ MainsBefore(anchors, v) = g[v - 1]
    BY MainsFold
  <2> DEFINE S == {k \in Nat : k <= v - 1 => g[k] = L[k]}
  <2>2. 0 \in S
    BY <1>4, <2>1
  <2>3. ASSUME NEW k \in Nat, k \in S
        PROVE  k + 1 \in S
    <3> SUFFICES ASSUME k + 1 <= v - 1 PROVE g[k + 1] = L[k + 1]
      OBVIOUS
    <3>1. k + 1 \in 1..(v - 1) /\ k + 1 - 1 = k /\ k + 1 \in 1..V /\ k <= v - 1
      OBVIOUS
    <3>2. g[k + 1] = g[k + 1 - 1] + anchors[k + 1] /\ L[k + 1] = L[k + 1 - 1] + anchors[k + 1]
      BY <1>3, <2>1, <3>1
    <3> QED BY <2>3, <3>1, <3>2
  <2> HIDE DEF S
  <2>4. Nat \subseteq S
    BY <2>2, <2>3, Induction
  <2>5. v - 1 \in Nat /\ v - 1 <= v - 1
    OBVIOUS
  <2>6. g[v - 1] = L[v - 1]
    BY <2>4, <2>5 DEF S
  <2> QED BY <2>1, <2>6
<1>8. ASSUME NEW v \in 1..V
      PROVE  /\ FirstMain(anchors, v) \in Nat /\ FirstMain(anchors, v) >= 1
             /\ LastMain(anchors, v) \in Nat
             /\ LastMain(anchors, v) = FirstMain(anchors, v) + anchors[v] - 1
             /\ LastMain(anchors, v) <= L[V] /\ LastMain(anchors, v) >= 1
  <2>1. v - 1 \in 0..V /\ v \in 0..V
    OBVIOUS
  <2>2. FirstMain(anchors, v) = L[v - 1] + 1 /\ LastMain(anchors, v) = L[v - 1] + anchors[v]
    BY <1>7 DEF FirstMain, LastMain
  <2>3. L[v] = L[v - 1] + anchors[v] /\ L[v] <= L[V] /\ 0 <= L[v - 1]
    BY <1>3, <1>6, <2>1
  <2>4. L[v - 1] \in Int /\ L[v] \in Int /\ L[V] \in Int /\ anchors[v] \in Nat \ {0}
    BY <1>2, <1>5, <2>1
  <2> QED BY <2>2, <2>3, <2>4, SMTT(30)
<1>9. MainLine(anchors) \in Lists(1..V)
  <2>1. V \in 0..V
    OBVIOUS
  <2> QED BY <1>1, <2>1
<1>10. L[V] >= 1
  <2>1. V \in 1..V /\ V \in 0..V
    OBVIOUS
  <2>2. LastMain(anchors, V) \in Nat /\ LastMain(anchors, V) <= L[V] /\ LastMain(anchors, V) >= 1
        /\ L[V] \in Int
    BY <1>2, <1>8, <2>1
  <2> QED BY <2>2
<1> QED BY <1>4, <1>8, <1>9, <1>10

-----------------------------------------------------------------------------
(* Ribs. *)

\* What has been built: M main anchors at least, and S series arcs.
Inside(b, M, S) ==
  /\ M <= Len(b.nodes) /\ b.checkpoint <= Len(b.nodes) /\ b.tails \subseteq 1..Len(b.nodes)
  /\ \A s \in 1..S : b.series[s] <= Len(b.nodes)
BuiltRecords(W, S) ==
  [nodes : Lists(W), series : [1..S -> Nat], checkpoint : Nat, tails : SUBSET Nat]
Builts(W, M, S) == {b \in BuiltRecords(W, S) : Inside(b, M, S)}

\* What that says.
LEMMA BuiltFacts ==
  ASSUME NEW W, NEW M, NEW S, NEW b \in Builts(W, M, S)
  PROVE  /\ b.nodes \in Lists(W) /\ b.series \in [1..S -> Nat] /\ b.checkpoint \in Nat
         /\ b.tails \subseteq 1..Len(b.nodes) /\ b.tails \in SUBSET Nat /\ Len(b.nodes) \in Nat
         /\ M <= Len(b.nodes) /\ b.checkpoint <= Len(b.nodes)
         /\ \A s \in 1..S : b.series[s] <= Len(b.nodes)
         /\ b = [nodes |-> b.nodes, series |-> b.series, checkpoint |-> b.checkpoint,
                 tails |-> b.tails]
<1>1. b \in BuiltRecords(W, S) /\ Inside(b, M, S)
  BY DEF Builts
<1>2. /\ b.nodes \in Lists(W) /\ b.series \in [1..S -> Nat] /\ b.checkpoint \in Nat
      /\ b.tails \in SUBSET Nat
      /\ b = [nodes |-> b.nodes, series |-> b.series, checkpoint |-> b.checkpoint,
              tails |-> b.tails]
  BY <1>1 DEF BuiltRecords
<1>3. Len(b.nodes) \in Nat
  BY <1>2, ListFacts
<1> QED BY <1>1, <1>2, <1>3 DEF Inside

\* And how it is shown.
LEMMA BuiltIs ==
  ASSUME NEW W, NEW M \in Nat, NEW S, NEW list \in Lists(W), NEW series \in [1..S -> Nat],
         NEW checkpoint \in Nat, NEW tails \in SUBSET (1..Len(list)),
         M <= Len(list), checkpoint <= Len(list), \A s \in 1..S : series[s] <= Len(list)
  PROVE  [nodes |-> list, series |-> series, checkpoint |-> checkpoint, tails |-> tails]
            \in Builts(W, M, S)
<1> DEFINE b == [nodes |-> list, series |-> series, checkpoint |-> checkpoint, tails |-> tails]
<1>1. Len(list) \in Nat
  BY ListFacts
<1>2. tails \in SUBSET Nat
  BY <1>1
<1>3. b \in BuiltRecords(W, S)
  BY <1>2 DEF BuiltRecords
<1>4. Inside(b, M, S)
  BY DEF Inside
<1> QED BY <1>3, <1>4 DEF Builts

\* A chain is added.
LEMMA AddChainTyped ==
  ASSUME NEW W, NEW M \in Nat \ {0}, NEW S, NEW b \in Builts(W, M, S), NEW v \in W,
         NEW line \in StoryLines, NEW first \in SUBSET (1..Len(b.nodes)), NEW length \in Nat
  PROVE  AddChain(b, v, line, first, length) \in Builts(W, M, S)
<1> DEFINE list == Chain(b.nodes, v, line, first, length)
           tails == b.tails \cup {Len(list)}
<1>1. b.nodes \in Lists(W)
  BY BuiltFacts
<1>2. list \in Lists(W) /\ Len(list) = Len(b.nodes) + length
  BY <1>1, ChainTyped
<1>3. AddChain(b, v, line, first, length)
        = [nodes |-> list, series |-> b.series, checkpoint |-> b.checkpoint, tails |-> tails]
  BY DEF AddChain
<1> HIDE DEF list
<1>4. /\ Len(b.nodes) \in Nat /\ M <= Len(b.nodes) /\ b.tails \subseteq 1..Len(b.nodes)
      /\ b.checkpoint \in Nat /\ b.checkpoint <= Len(b.nodes) /\ b.series \in [1..S -> Nat]
      /\ \A s \in 1..S : b.series[s] <= Len(b.nodes)
  BY BuiltFacts
<1>5. tails \in SUBSET (1..Len(list))
  <2>1. Len(list) \in 1..Len(list) /\ 1..Len(b.nodes) \subseteq 1..Len(list)
    BY <1>2, <1>4
  <2> QED BY <1>4, <2>1
<1>6. M <= Len(list) /\ b.checkpoint <= Len(list) /\ \A s \in 1..S : b.series[s] <= Len(list)
  <2>1. Len(b.nodes) <= Len(list) /\ Len(list) \in Nat
    BY <1>2, <1>4
  <2>2. \A s \in 1..S : b.series[s] \in Nat
    BY <1>4
  <2> QED BY <1>4, <2>1, <2>2
<1> HIDE DEF tails
<1>7. [nodes |-> list, series |-> b.series, checkpoint |-> b.checkpoint, tails |-> tails]
        \in Builts(W, M, S)
  BY <1>2, <1>4, <1>5, <1>6, BuiltIs
<1> QED BY <1>3, <1>7

\* A series arc goes on.
LEMMA SeriesArcTyped ==
  ASSUME NEW V \in Nat \ {0}, NEW anchors \in AnchorCounts(V), NEW S \in Nat, NEW v \in 1..V,
         NEW M, M = Len(MainLine(anchors)),
         NEW b \in Builts(1..V, M, S), NEW s \in 1..S, NEW length \in Nat
  PROVE  SeriesArc(b, anchors, v, s, length) \in Builts(1..V, M, S)
<1> DEFINE first == IF b.series[s] = 0 THEN {FirstMain(anchors, v)}
                    ELSE {b.series[s], b.checkpoint} \ {0}
           line == Line("S", 0, s)
           grown == AddChain(b, v, line, first, length)
           W == 1..V
           L == Len(b.nodes)
<1>1. M \in Nat \ {0}
  BY MainLineFacts, ListFacts
<1>2. /\ L \in Nat /\ M <= L /\ b.checkpoint \in Nat /\ b.checkpoint <= L
      /\ b.series[s] \in Nat /\ b.series[s] <= L
  BY BuiltFacts
<1>3. FirstMain(anchors, v) \in 1..M
  <2>1. /\ FirstMain(anchors, v) \in Nat /\ FirstMain(anchors, v) >= 1
        /\ LastMain(anchors, v) \in Nat /\ LastMain(anchors, v) <= M
        /\ LastMain(anchors, v) = FirstMain(anchors, v) + anchors[v] - 1
    BY MainLineFacts
  <2>2. anchors[v] \in Nat \ {0}
    BY DEF AnchorCounts
  <2> QED BY <1>1, <2>1, <2>2
<1> HIDE DEF L
<1>4. first \in SUBSET (1..L)
  <2>1. FirstMain(anchors, v) \in 1..L
    BY <1>1, <1>2, <1>3
  <2> QED BY <1>2, <2>1
<1>5. line \in StoryLines
  BY LinesTyped
<1>6. SeriesArc(b, anchors, v, s, length) = [grown EXCEPT !.series[s] = Len(grown.nodes)]
  BY DEF SeriesArc
<1>7. b \in Builts(W, M, S) /\ v \in W
  OBVIOUS
<1> HIDE DEF first, line, W
<1>8. grown \in Builts(W, M, S)
  BY <1>1, <1>4, <1>5, <1>7, AddChainTyped DEF L
<1> HIDE DEF grown
<1> DEFINE K == Len(grown.nodes)
           series == [grown.series EXCEPT ![s] = K]
<1>9. /\ grown.nodes \in Lists(W) /\ grown.series \in [1..S -> Nat] /\ grown.checkpoint \in Nat
      /\ grown.tails \in SUBSET (1..K) /\ K \in Nat /\ M <= K /\ grown.checkpoint <= K
      /\ (\A i \in 1..S : grown.series[i] <= K)
  BY <1>8, BuiltFacts
<1>10. series \in [1..S -> Nat] /\ \A i \in 1..S : series[i] <= K
  <2> HIDE DEF K
  <2> QED BY <1>9
<1> HIDE DEF series
<1>11. [grown EXCEPT !.series[s] = K]
         = [nodes |-> grown.nodes, series |-> series, checkpoint |-> grown.checkpoint,
            tails |-> grown.tails]
  <2>1. grown = [nodes |-> grown.nodes, series |-> grown.series, checkpoint |-> grown.checkpoint,
                 tails |-> grown.tails]
    BY <1>8, BuiltFacts
  <2> HIDE DEF K
  <2> QED BY <2>1 DEF series
<1>12. [nodes |-> grown.nodes, series |-> series, checkpoint |-> grown.checkpoint,
        tails |-> grown.tails] \in Builts(W, M, S)
  BY <1>1, <1>9, <1>10, BuiltIs
<1> QED BY <1>6, <1>11, <1>12 DEF W

\* The arcs there may be on a main storyline.
ArcRecords(count) == UNION {[length : {k}, start : 0..Greater(0, count - k)] : k \in ArcLengths}

\* An arc leaves the main storyline within its volume.
LEMMA ArcFacts ==
  ASSUME NEW count \in Nat \ {0}, NEW arc \in ArcRecords(count)
  PROVE  arc.length \in Nat \ {0} /\ arc.start \in Nat /\ arc.start <= count - 1
<1>1. PICK k \in ArcLengths : arc \in [length : {k}, start : 0..Greater(0, count - k)]
  BY DEF ArcRecords
<1>2. k \in 2..4
  BY CompileAssumption
<1>3. arc.length = k /\ arc.start \in 0..Greater(0, count - k)
  BY <1>1
<1> QED BY <1>2, <1>3 DEF Greater

\* A volume arc starts.
LEMMA VolumeArcTyped ==
  ASSUME NEW V \in Nat \ {0}, NEW anchors \in AnchorCounts(V), NEW S \in Nat, NEW v \in 1..V,
         NEW M, M = Len(MainLine(anchors)),
         NEW b \in Builts(1..V, M, S), NEW a \in Nat, NEW arc \in ArcRecords(anchors[v])
  PROVE  VolumeArc(b, anchors, v, a, arc) \in Builts(1..V, M, S)
<1> DEFINE from == FirstMain(anchors, v) + arc.start
           first == {from}
           line == Line("A", v, a)
           length == arc.length
           W == 1..V
           L == Len(b.nodes)
<1>1. M \in Nat \ {0}
  BY MainLineFacts, ListFacts
<1>2. L \in Nat /\ M <= L
  BY BuiltFacts
<1>3. anchors[v] \in Nat \ {0}
  BY DEF AnchorCounts
<1>4. length \in Nat /\ arc.start \in Nat /\ arc.start <= anchors[v] - 1
  BY <1>3, ArcFacts
<1>5. from \in 1..M
  <2>1. /\ FirstMain(anchors, v) \in Nat /\ FirstMain(anchors, v) >= 1
        /\ LastMain(anchors, v) \in Nat /\ LastMain(anchors, v) <= M
        /\ LastMain(anchors, v) = FirstMain(anchors, v) + anchors[v] - 1
    BY MainLineFacts
  <2> QED BY <1>1, <1>3, <1>4, <2>1, SMTT(30)
<1> HIDE DEF L, from
<1>6. first \in SUBSET (1..L)
  BY <1>1, <1>2, <1>5
<1>7. line \in StoryLines
  BY LinesTyped
<1>8. VolumeArc(b, anchors, v, a, arc) = AddChain(b, v, line, first, length)
  BY DEF VolumeArc, from
<1>9. b \in Builts(W, M, S) /\ v \in W
  OBVIOUS
<1> HIDE DEF first, line, W, length
<1>10. AddChain(b, v, line, first, length) \in Builts(W, M, S)
  BY <1>1, <1>4, <1>6, <1>7, <1>9, AddChainTyped DEF L
<1> QED BY <1>8, <1>10 DEF W

\* One node more.
LEMMA ListGrows ==
  ASSUME NEW W, NEW list \in Lists(W), NEW node \in NodesOf(W), node.deps \subseteq 1..Len(list)
  PROVE  Append(list, node) \in Lists(W) /\ Len(Append(list, node)) = Len(list) + 1
<1> DEFINE L == Len(list)
           all == Append(list, node)
<1>1. L \in Nat /\ list \in Seq(NodesOf(W)) /\ \A n \in 1..L : list[n].deps \subseteq 1..L
  BY ListFacts
<1>2. all \in Seq(NodesOf(W)) /\ Len(all) = L + 1 /\ all[L + 1] = node
      /\ \A n \in 1..L : all[n] = list[n]
  BY <1>1
<1> HIDE DEF all
<1>3. ASSUME NEW n \in 1..L + 1
      PROVE  all[n].deps \subseteq 1..L + 1
  <2>1. 1..L \subseteq 1..L + 1 /\ (n \in 1..L \/ n = L + 1)
    BY <1>1
  <2> QED BY <1>1, <1>2, <2>1
<1> QED BY <1>2, <1>3 DEF Lists, Closed, all

\* The checkpoint of a volume.
LEMMA CheckpointTyped ==
  ASSUME NEW V \in Nat \ {0}, NEW anchors \in AnchorCounts(V), NEW S \in Nat, NEW v \in 1..V,
         NEW M, M = Len(MainLine(anchors)), NEW b \in Builts(1..V, M, S)
  PROVE  Checkpoint(b, anchors, v) \in Builts(1..V, M, S)
<1> DEFINE W == 1..V
           L == Len(b.nodes)
           deps == {LastMain(anchors, v)} \cup b.tails
           node == [kind |-> "CHECKPOINT", deps |-> deps, volume |-> v, main |-> TRUE,
             line |-> Main]
           list == Append(b.nodes, node)
           none == {}
<1>1. M \in Nat \ {0}
  BY MainLineFacts, ListFacts
<1>2. /\ b.nodes \in Lists(1..V) /\ L \in Nat /\ M <= L /\ b.tails \subseteq 1..L
      /\ b.series \in [1..S -> Nat] /\ (\A s \in 1..S : b.series[s] <= L)
      /\ b = [nodes |-> b.nodes, series |-> b.series, checkpoint |-> b.checkpoint,
              tails |-> b.tails]
  BY BuiltFacts
<1>3. LastMain(anchors, v) \in 1..M
  <2>1. /\ FirstMain(anchors, v) \in Nat /\ FirstMain(anchors, v) >= 1
        /\ LastMain(anchors, v) \in Nat /\ LastMain(anchors, v) <= M
        /\ LastMain(anchors, v) = FirstMain(anchors, v) + anchors[v] - 1
    BY MainLineFacts
  <2>2. anchors[v] \in Nat \ {0}
    BY DEF AnchorCounts
  <2> QED BY <1>1, <2>1, <2>2
<1>4. deps \subseteq 1..L /\ deps \in SUBSET Nat
  <2> HIDE DEF L
  <2>1. LastMain(anchors, v) \in 1..L
    BY <1>1, <1>2, <1>3
  <2> QED BY <1>2, <2>1
<1>5. node \in NodesOf(W) /\ node.deps = deps
  <2>1. Main \in StoryLines
    BY LinesTyped
  <2>2. "CHECKPOINT" \in Kinds
    BY DEF Kinds
  <2> HIDE DEF deps
  <2> QED BY <1>4, <2>1, <2>2 DEF NodesOf
<1>6. Checkpoint(b, anchors, v)
        = [nodes |-> list, series |-> b.series, checkpoint |-> L + 1, tails |-> none]
  BY Zenon DEF Checkpoint
<1> HIDE DEF node, deps
<1>7. list \in Lists(W) /\ Len(list) = L + 1
  <2>1. b.nodes \in Lists(W)
    BY <1>2
  <2> HIDE DEF W
  <2> QED BY <1>4, <1>5, <2>1, ListGrows
<1> HIDE DEF none
<1> HIDE DEF list, L
<1>8. none \in SUBSET (1..Len(list))
  BY DEF none
<1>9. /\ L + 1 \in Nat /\ M <= Len(list) /\ L + 1 <= Len(list)
       /\ \A s \in 1..S : b.series[s] <= Len(list)
  <2>1. \A s \in 1..S : b.series[s] \in Nat
    BY <1>2
  <2> QED BY <1>1, <1>2, <1>7, <2>1
<1> DEFINE next == L + 1
<1>10. next \in Nat /\ next <= Len(list)
  BY <1>9
<1> HIDE DEF next, W
<1>11. [nodes |-> list, series |-> b.series, checkpoint |-> next, tails |-> none]
         \in Builts(W, M, S)
  BY <1>1, <1>2, <1>7, <1>8, <1>9, <1>10, BuiltIs
<1> QED BY <1>6, <1>11 DEF W, next

\* Lengths of as many series arcs as there are.
LengthsOf(S) == [1..S -> SeriesLengths]

\* Series arcs are built in steps.
SeriesSteps(b, anchors, v, lengths, V, M, S) ==
  \E f \in [0..S -> Builts(1..V, M, S)] :
    /\ f[0] = b /\ SeriesArcs(b, anchors, v, lengths) = f[S]
    /\ \A k \in 1..S : f[k] = SeriesArc(f[k - 1], anchors, v, k, lengths[k])

\* The series arcs go on, one after the other.
LEMMA SeriesArcsFold ==
  ASSUME NEW V \in Nat \ {0}, NEW anchors \in AnchorCounts(V), NEW S \in Nat,
         NEW M, M = Len(MainLine(anchors)),
         NEW v \in 1..V, NEW b \in Builts(1..V, M, S), NEW lengths \in LengthsOf(S)
  PROVE  SeriesSteps(b, anchors, v, lengths, V, M, S)
<1> DEFINE sq == [s \in DOMAIN lengths |-> s]
           N == S
           T == Builts(1..V, M, S)
           base == b
           Step(x, e) == SeriesArc(x, anchors, v, e, lengths[e])
           G == [p \in (1..N) \X T |-> Step(p[2], sq[p[1]])]
           iter == CHOOSE h : h = [t \in SUBSET DOMAIN sq |->
                      IF t = {} THEN base ELSE Step(h[t \ {Max(t)}], sq[Max(t)])]
<1>1. SeriesArcs(b, anchors, v, lengths) = iter[DOMAIN sq]
  BY Zenon DEF SeriesArcs, FoldLeft, MapThenFoldSet
<1>2. N \in Nat /\ DOMAIN sq = 1..N
  BY DEF LengthsOf
<1>3. base \in T
  OBVIOUS
<1>4. \A k \in 1..N, x \in T : Step(x, sq[k]) \in T
  <2>1. \A k \in 1..N : sq[k] = k /\ lengths[k] \in Nat
    <3>1. SeriesLengths \subseteq Nat
      BY CompileAssumption
    <3>2. \A k \in 1..S : lengths[k] \in SeriesLengths
      BY DEF LengthsOf
    <3> QED BY <3>1, <3>2 DEF LengthsOf
  <2> SUFFICES ASSUME NEW k \in 1..N, NEW x \in T PROVE Step(x, sq[k]) \in T
    OBVIOUS
  <2>2. sq[k] = k /\ lengths[k] \in Nat /\ k \in 1..S
    BY <2>1
  <2> DEFINE length == lengths[k]
  <2> HIDE DEF length
  <2>3. SeriesArc(x, anchors, v, k, length) \in Builts(1..V, M, S)
    BY <2>2, SeriesArcTyped DEF length
  <2> HIDE DEF sq
  <2> QED BY <2>2, <2>3 DEF length
<1> HIDE DEF sq, N, base, Step
<1>5. G \in [(1..N) \X T -> T]
  BY <1>2, <1>4
<1>6. \A k \in 1..N, x \in T : G[<<k, x>>] = Step(x, sq[k])
  OBVIOUS
<1> HIDE DEF T, G
<1>7. PICK h \in [SUBSET (1..N) -> T] : Iterates(h, G, base, N)
  BY <1>2, <1>3, <1>5, IterationExists
<1>8. \A t \in SUBSET (1..N) : t # {} => Max(t) \in 1..N /\ t \ {Max(t)} \in SUBSET (1..N)
  BY <1>2, MaxIsElement
<1>9. h = [t \in SUBSET (1..N) |-> IF t = {} THEN base ELSE Step(h[t \ {Max(t)}], sq[Max(t)])]
  BY <1>6, <1>7, <1>8 DEF Iterates
<1>10. iter = [t \in SUBSET (1..N) |->
                 IF t = {} THEN base ELSE Step(iter[t \ {Max(t)}], sq[Max(t)])]
  <2>1. iter = CHOOSE x : x = [t \in SUBSET (1..N) |->
                      IF t = {} THEN base ELSE Step(x[t \ {Max(t)}], sq[Max(t)])]
    BY <1>2
  <2> HIDE DEF iter
  <2> QED BY <1>9, <2>1
<1> HIDE DEF iter
<1>11. Folds(iter, T, G, base, N)
  BY <1>6, <1>8, <1>10 DEF Folds
<1>12. FoldsTo(T, G, base, N, iter[1..N])
  BY <1>2, <1>3, <1>5, <1>11, IterationSteps
<1>13. PICK f \in [0..N -> T] :
          /\ f[0] = base /\ iter[1..N] = f[N]
          /\ \A k \in 1..N : f[k] = G[<<k, f[k - 1]>>]
  BY <1>12 DEF FoldsTo, Steps
<1>14. \A k \in 1..N : f[k] = Step(f[k - 1], sq[k])
  <2>1. \A k \in 1..N : k - 1 \in 0..N
    BY <1>2
  <2> QED BY <1>6, <1>13, <2>1
<1>15. SeriesArcs(b, anchors, v, lengths) = f[N]
  BY <1>1, <1>2, <1>13
<1>16. \A k \in 1..N : f[k] = SeriesArc(f[k - 1], anchors, v, k, lengths[k])
  <2>1. \A k \in 1..N : sq[k] = k
    BY <1>2 DEF sq, N, LengthsOf
  <2> QED BY <1>14, <2>1 DEF Step
<1> QED BY <1>13, <1>15, <1>16 DEF T, N, base, SeriesSteps

\* They stay what they are.
LEMMA SeriesArcsTyped ==
  ASSUME NEW V \in Nat \ {0}, NEW anchors \in AnchorCounts(V), NEW S \in Nat,
         NEW M, M = Len(MainLine(anchors)),
         NEW v \in 1..V, NEW b \in Builts(1..V, M, S), NEW lengths \in LengthsOf(S)
  PROVE  SeriesArcs(b, anchors, v, lengths) \in Builts(1..V, M, S)
<1>1. SeriesSteps(b, anchors, v, lengths, V, M, S)
  BY SeriesArcsFold
<1>2. PICK f \in [0..S -> Builts(1..V, M, S)] : SeriesArcs(b, anchors, v, lengths) = f[S]
  BY <1>1 DEF SeriesSteps
<1> QED BY <1>2

\* So are volume arcs.
VolumeSteps(b, anchors, v, arcs, V, M, S) ==
  \E f \in [0..Len(arcs) -> Builts(1..V, M, S)] :
    /\ f[0] = b /\ VolumeArcs(b, anchors, v, arcs) = f[Len(arcs)]
    /\ \A k \in 1..Len(arcs) : f[k] = VolumeArc(f[k - 1], anchors, v, k, arcs[k])

\* The volume arcs start, one after the other.
LEMMA VolumeArcsFold ==
  ASSUME NEW V \in Nat \ {0}, NEW anchors \in AnchorCounts(V), NEW S \in Nat,
         NEW M, M = Len(MainLine(anchors)),
         NEW v \in 1..V, NEW b \in Builts(1..V, M, S), NEW arcs \in Seq(ArcRecords(anchors[v]))
  PROVE  VolumeSteps(b, anchors, v, arcs, V, M, S)
<1> DEFINE sq == [a \in DOMAIN arcs |-> a]
           N == Len(arcs)
           T == Builts(1..V, M, S)
           base == b
           Step(x, e) == VolumeArc(x, anchors, v, e, arcs[e])
           G == [p \in (1..N) \X T |-> Step(p[2], sq[p[1]])]
           iter == CHOOSE h : h = [t \in SUBSET DOMAIN sq |->
                      IF t = {} THEN base ELSE Step(h[t \ {Max(t)}], sq[Max(t)])]
<1>1. VolumeArcs(b, anchors, v, arcs) = iter[DOMAIN sq]
  BY Zenon DEF VolumeArcs, FoldLeft, MapThenFoldSet
<1>2. N \in Nat /\ DOMAIN sq = 1..N
  OBVIOUS
<1>3. base \in T
  OBVIOUS
<1>4. \A k \in 1..N, x \in T : Step(x, sq[k]) \in T
  <2>1. \A k \in 1..N : sq[k] = k /\ k \in Nat /\ arcs[k] \in ArcRecords(anchors[v])
    OBVIOUS
  <2> SUFFICES ASSUME NEW k \in 1..N, NEW x \in T PROVE Step(x, sq[k]) \in T
    OBVIOUS
  <2>2. sq[k] = k /\ arcs[k] \in ArcRecords(anchors[v]) /\ k \in Nat
    BY <2>1
  <2> DEFINE arc == arcs[k]
  <2> HIDE DEF arc
  <2>3. VolumeArc(x, anchors, v, k, arc) \in Builts(1..V, M, S)
    BY <2>2, VolumeArcTyped DEF arc
  <2> HIDE DEF sq
  <2> QED BY <2>2, <2>3 DEF arc
<1> HIDE DEF sq, N, base, Step
<1>5. G \in [(1..N) \X T -> T]
  BY <1>2, <1>4
<1>6. \A k \in 1..N, x \in T : G[<<k, x>>] = Step(x, sq[k])
  OBVIOUS
<1> HIDE DEF T, G
<1>7. PICK h \in [SUBSET (1..N) -> T] : Iterates(h, G, base, N)
  BY <1>2, <1>3, <1>5, IterationExists
<1>8. \A t \in SUBSET (1..N) : t # {} => Max(t) \in 1..N /\ t \ {Max(t)} \in SUBSET (1..N)
  BY <1>2, MaxIsElement
<1>9. h = [t \in SUBSET (1..N) |-> IF t = {} THEN base ELSE Step(h[t \ {Max(t)}], sq[Max(t)])]
  BY <1>6, <1>7, <1>8 DEF Iterates
<1>10. iter = [t \in SUBSET (1..N) |->
                 IF t = {} THEN base ELSE Step(iter[t \ {Max(t)}], sq[Max(t)])]
  <2>1. iter = CHOOSE x : x = [t \in SUBSET (1..N) |->
                      IF t = {} THEN base ELSE Step(x[t \ {Max(t)}], sq[Max(t)])]
    BY <1>2
  <2> HIDE DEF iter
  <2> QED BY <1>9, <2>1
<1> HIDE DEF iter
<1>11. Folds(iter, T, G, base, N)
  BY <1>6, <1>8, <1>10 DEF Folds
<1>12. FoldsTo(T, G, base, N, iter[1..N])
  BY <1>2, <1>3, <1>5, <1>11, IterationSteps
<1>13. PICK f \in [0..N -> T] :
          /\ f[0] = base /\ iter[1..N] = f[N]
          /\ \A k \in 1..N : f[k] = G[<<k, f[k - 1]>>]
  BY <1>12 DEF FoldsTo, Steps
<1>14. \A k \in 1..N : f[k] = Step(f[k - 1], sq[k])
  <2>1. \A k \in 1..N : k - 1 \in 0..N
    BY <1>2
  <2> QED BY <1>6, <1>13, <2>1
<1>15. VolumeArcs(b, anchors, v, arcs) = f[N]
  BY <1>1, <1>2, <1>13
<1>16. \A k \in 1..N : f[k] = VolumeArc(f[k - 1], anchors, v, k, arcs[k])
  <2>1. \A k \in 1..N : sq[k] = k
    BY <1>2 DEF sq, N
  <2> QED BY <1>14, <2>1 DEF Step
<1> QED BY <1>13, <1>15, <1>16 DEF T, N, base, VolumeSteps

\* They stay what they are.
LEMMA VolumeArcsTyped ==
  ASSUME NEW V \in Nat \ {0}, NEW anchors \in AnchorCounts(V), NEW S \in Nat,
         NEW M, M = Len(MainLine(anchors)),
         NEW v \in 1..V, NEW b \in Builts(1..V, M, S), NEW arcs \in Seq(ArcRecords(anchors[v]))
  PROVE  VolumeArcs(b, anchors, v, arcs) \in Builts(1..V, M, S)
<1>1. PICK f \in [0..Len(arcs) -> Builts(1..V, M, S)] :
         VolumeArcs(b, anchors, v, arcs) = f[Len(arcs)]
  <2>1. VolumeSteps(b, anchors, v, arcs, V, M, S)
    BY VolumeArcsFold
  <2> QED BY <2>1 DEF VolumeSteps
<1>2. Len(arcs) \in 0..Len(arcs)
  OBVIOUS
<1> QED BY <1>1, <1>2

\* What the random generator may choose.
BeatRecords(V) == [volume : 1..V, length : BeatLengths]
Chosen(c, anchors, V, S) ==
  /\ c.series \in [1..V -> [1..S -> SeriesLengths]]
  /\ \A v \in 1..V : c.arcs[v] \in Seq(ArcRecords(anchors[v]))
  /\ c.beats \in Seq(BeatRecords(V))

\* A volume is built.
LEMMA VolumeTyped ==
  ASSUME NEW V \in Nat \ {0}, NEW anchors \in AnchorCounts(V), NEW S \in Nat,
         NEW M, M = Len(MainLine(anchors)),
         NEW v \in 1..V, NEW b \in Builts(1..V, M, S), NEW c, Chosen(c, anchors, V, S)
  PROVE  Volume(b, anchors, v, c) \in Builts(1..V, M, S)
<1> DEFINE lengths == c.series[v]
           arcs == c.arcs[v]
           b1 == SeriesArcs(b, anchors, v, lengths)
           b2 == VolumeArcs(b1, anchors, v, arcs)
<1>1. lengths \in LengthsOf(S) /\ arcs \in Seq(ArcRecords(anchors[v]))
  BY DEF Chosen, LengthsOf
<1>2. Volume(b, anchors, v, c) = Checkpoint(b2, anchors, v)
  BY DEF Volume
<1> HIDE DEF lengths, arcs
<1>3. b1 \in Builts(1..V, M, S)
  BY <1>1, SeriesArcsTyped
<1> HIDE DEF b1
<1>4. b2 \in Builts(1..V, M, S)
  BY <1>1, <1>3, VolumeArcsTyped
<1> HIDE DEF b2
<1>5. Checkpoint(b2, anchors, v) \in Builts(1..V, M, S)
  BY <1>4, CheckpointTyped
<1> QED BY <1>2, <1>5

\* What there is before the first volume.
Rootstock(anchors, c) ==
  [nodes |-> MainLine(anchors), series |-> [s \in DOMAIN c.series[1] |-> 0],
   checkpoint |-> 0, tails |-> {}]

\* The main storyline alone.
LEMMA RootstockTyped ==
  ASSUME NEW V \in Nat \ {0}, NEW anchors \in AnchorCounts(V), NEW S \in Nat,
         NEW M, M = Len(MainLine(anchors)),
         NEW c, Chosen(c, anchors, V, S)
  PROVE  Rootstock(anchors, c) \in Builts(1..V, M, S)
<1> DEFINE list == MainLine(anchors)
           series == [s \in DOMAIN c.series[1] |-> 0]
           none == {}
           zero == 0
<1>1. list \in Lists(1..V) /\ M = Len(list) /\ Len(list) \in Nat
  BY MainLineFacts, ListFacts
<1>2. series = [s \in 1..S |-> 0]
  BY DEF Chosen
<1>3. series \in [1..S -> Nat] /\ \A s \in 1..S : series[s] = 0
  BY <1>2
<1>4. Rootstock(anchors, c) = [nodes |-> list, series |-> series, checkpoint |-> zero,
        tails |-> none]
  BY Zenon DEF Rootstock
<1> HIDE DEF list, series
<1>5. zero \in Nat /\ zero <= Len(list) /\ none \in SUBSET (1..Len(list)) /\ M <= Len(list)
      /\ M \in Nat /\ \A s \in 1..S : series[s] <= Len(list)
  BY <1>1, <1>3
<1> DEFINE W == 1..V
<1>6. list \in Lists(W)
  BY <1>1
<1> HIDE DEF zero, none, W
<1>7. [nodes |-> list, series |-> series, checkpoint |-> zero, tails |-> none] \in Builts(W, M, S)
  BY <1>3, <1>5, <1>6, BuiltIs
<1> QED BY <1>4, <1>7 DEF W

\* The volumes are built one after the other.
LEMMA RibsFold ==
  ASSUME NEW V \in Nat \ {0}, NEW anchors \in AnchorCounts(V), NEW S \in Nat,
         NEW M, M = Len(MainLine(anchors)),
         NEW c, Chosen(c, anchors, V, S)
  PROVE  \E f \in [0..V -> Builts(1..V, M, S)] :
           /\ f[0] = Rootstock(anchors, c) /\ Ribs(anchors, c) = f[V].nodes
           /\ \A k \in 1..V : f[k] = Volume(f[k - 1], anchors, k, c)
<1> DEFINE sq == [v \in DOMAIN anchors |-> v]
           N == V
           T == Builts(1..V, M, S)
           base == Rootstock(anchors, c)
           Step(x, e) == Volume(x, anchors, e, c)
           G == [p \in (1..N) \X T |-> Step(p[2], sq[p[1]])]
           iter == CHOOSE h : h = [t \in SUBSET DOMAIN sq |->
                      IF t = {} THEN base ELSE Step(h[t \ {Max(t)}], sq[Max(t)])]
<1>1. Ribs(anchors, c) = iter[DOMAIN sq].nodes
  BY Zenon DEF Ribs, Rootstock, FoldLeft, MapThenFoldSet
<1>2. N \in Nat /\ DOMAIN sq = 1..N
  BY DEF AnchorCounts
<1>3. base \in T
  BY RootstockTyped
<1>4. \A k \in 1..N, x \in T : Step(x, sq[k]) \in T
  <2>1. \A k \in 1..N : sq[k] = k
    BY DEF AnchorCounts
  <2> HIDE DEF sq
  <2> QED BY <2>1, VolumeTyped
<1> HIDE DEF sq, N, base, Step
<1>5. G \in [(1..N) \X T -> T]
  BY <1>2, <1>4
<1>6. \A k \in 1..N, x \in T : G[<<k, x>>] = Step(x, sq[k])
  OBVIOUS
<1> HIDE DEF T, G
<1>7. PICK h \in [SUBSET (1..N) -> T] : Iterates(h, G, base, N)
  BY <1>2, <1>3, <1>5, IterationExists
<1>8. \A t \in SUBSET (1..N) : t # {} => Max(t) \in 1..N /\ t \ {Max(t)} \in SUBSET (1..N)
  BY <1>2, MaxIsElement
<1>9. h = [t \in SUBSET (1..N) |-> IF t = {} THEN base ELSE Step(h[t \ {Max(t)}], sq[Max(t)])]
  BY <1>6, <1>7, <1>8 DEF Iterates
<1>10. iter = [t \in SUBSET (1..N) |->
                 IF t = {} THEN base ELSE Step(iter[t \ {Max(t)}], sq[Max(t)])]
  <2>1. iter = CHOOSE x : x = [t \in SUBSET (1..N) |->
                      IF t = {} THEN base ELSE Step(x[t \ {Max(t)}], sq[Max(t)])]
    BY <1>2
  <2> HIDE DEF iter
  <2> QED BY <1>9, <2>1
<1> HIDE DEF iter
<1>11. Folds(iter, T, G, base, N)
  BY <1>6, <1>8, <1>10 DEF Folds
<1>12. FoldsTo(T, G, base, N, iter[1..N])
  BY <1>2, <1>3, <1>5, <1>11, IterationSteps
<1>13. PICK f \in [0..N -> T] :
          /\ f[0] = base /\ iter[1..N] = f[N]
          /\ \A k \in 1..N : f[k] = G[<<k, f[k - 1]>>]
  BY <1>12 DEF FoldsTo, Steps
<1>14. \A k \in 1..N : f[k] = Step(f[k - 1], sq[k])
  <2>1. \A k \in 1..N : k - 1 \in 0..N
    BY <1>2
  <2> QED BY <1>6, <1>13, <2>1
<1>15. Ribs(anchors, c) = f[N].nodes
  BY <1>1, <1>2, <1>13
<1>16. \A k \in 1..N : f[k] = Volume(f[k - 1], anchors, k, c)
  <2>1. \A k \in 1..N : sq[k] = k
    BY <1>2 DEF sq, N, AnchorCounts
  <2> QED BY <1>14, <2>1 DEF Step
<1> QED BY <1>13, <1>15, <1>16 DEF T, N, base

\* They stay what they are.
LEMMA RibsTyped ==
  ASSUME NEW V \in Nat \ {0}, NEW anchors \in AnchorCounts(V), NEW S \in Nat,
         NEW M, M = Len(MainLine(anchors)),
         NEW c, Chosen(c, anchors, V, S)
  PROVE  Ribs(anchors, c) \in Lists(1..V) /\ M <= Len(Ribs(anchors, c))
<1>1. PICK f \in [0..V -> Builts(1..V, M, S)] :
         /\ f[0] = Rootstock(anchors, c) /\ Ribs(anchors, c) = f[V].nodes
         /\ \A k \in 1..V : f[k] = Volume(f[k - 1], anchors, k, c)
  BY RibsFold
<1>2. f[V] \in Builts(1..V, M, S)
  <2>1. V \in 0..V
    OBVIOUS
  <2> QED BY <2>1
<1>3. f[V].nodes \in Lists(1..V) /\ M <= Len(f[V].nodes)
  BY <1>2, BuiltFacts
<1> QED BY <1>1, <1>3

-----------------------------------------------------------------------------
(* Short beats, the gathering and the ending. *)

\* What has been built with short beats, behind M main anchors.
Settled(b, M) == M <= Len(b.nodes) /\ b.tails \subseteq 1..Len(b.nodes)
ShortRecords(W) == [nodes : Lists(W), used : SUBSET Nat, tails : SUBSET Nat]
Shorts(W, M) == {b \in ShortRecords(W) : Settled(b, M)}

\* A short beat.
ShortBeat(anchors, beats, b, i) ==
  LET v == beats[i].volume
      mount == MountOf(anchors, v, b.used)
      grown == Chain(b.nodes, v, Line("B", 0, i), {mount}, beats[i].length)
  IN  [nodes |-> grown, used |-> b.used \cup {mount}, tails |-> b.tails \cup {Len(grown)}]

\* A short beat hangs on a main anchor.
LEMMA MountFacts ==
  ASSUME NEW V \in Nat \ {0}, NEW anchors \in AnchorCounts(V), NEW v \in 1..V, NEW used
  PROVE  MountOf(anchors, v, used) \in 1..Len(MainLine(anchors))
<1> DEFINE M == Len(MainLine(anchors))
           F == FirstMain(anchors, v)
           L == LastMain(anchors, v)
           here == F..L
           free == here \ used
<1>1. /\ F \in Nat /\ F >= 1 /\ L \in Nat /\ L <= M /\ L = F + anchors[v] - 1 /\ M \in Nat
  BY MainLineFacts, ListFacts
<1>2. anchors[v] \in Nat \ {0}
  BY DEF AnchorCounts
<1> HIDE DEF M, F, L
<1>3. here \subseteq 1..M /\ F \in 1..M
  BY <1>1, <1>2
<1>4. MountOf(anchors, v, used)
        = IF free # {} THEN CHOOSE n \in free : \A m \in free : n <= m ELSE F
  BY DEF MountOf, F, L
<1> HIDE DEF here
<1>5. free # {} => \E n \in free : \A m \in free : n <= m
  <2>1. free \in SUBSET Nat
    <3>1. 1..M \subseteq Nat
      BY <1>1
    <3> QED BY <1>3, <3>1
  <2> HIDE DEF free
  <2> QED BY <2>1, LeastNumber
<1>6. free \subseteq 1..M
  BY <1>3
<1> HIDE DEF free
<1>7. MountOf(anchors, v, used) \in 1..M
  <2>1. CASE free = {}
    BY <1>3, <1>4, <2>1
  <2>2. CASE free # {}
    <3> DEFINE x == CHOOSE n \in free : \A m \in free : n <= m
    <3>1. x \in free
      BY <1>5, <2>2
    <3> HIDE DEF x
    <3> QED BY <1>4, <1>6, <2>2, <3>1 DEF x
  <2> QED BY <2>1, <2>2
<1> QED BY <1>7 DEF M

\* A short beat is added.
LEMMA ShortBeatTyped ==
  ASSUME NEW V \in Nat \ {0}, NEW anchors \in AnchorCounts(V),
         NEW M, M = Len(MainLine(anchors)), NEW beats \in Seq(BeatRecords(V)),
         NEW b \in Shorts(1..V, M), NEW i \in 1..Len(beats)
  PROVE  ShortBeat(anchors, beats, b, i) \in Shorts(1..V, M)
<1> DEFINE W == 1..V
           v == beats[i].volume
           length == beats[i].length
           mount == MountOf(anchors, v, b.used)
           line == Line("B", 0, i)
           first == {mount}
           grown == Chain(b.nodes, v, line, first, length)
           used == b.used \cup {mount}
           tails == b.tails \cup {Len(grown)}
           L == Len(b.nodes)
<1>1. M \in Nat \ {0}
  BY MainLineFacts, ListFacts
<1>2. v \in W /\ length \in Nat
  <2>1. beats[i] \in BeatRecords(V)
    OBVIOUS
  <2>2. v \in W /\ length \in BeatLengths
    BY <2>1 DEF BeatRecords
  <2>3. BeatLengths \subseteq Nat
    BY CompileAssumption
  <2> QED BY <2>2, <2>3
<1>3. b.nodes \in Lists(W) /\ M <= L /\ b.tails \subseteq 1..L /\ b.used \in SUBSET Nat
        /\ L \in Nat
  <2>1. b.nodes \in Lists(W) /\ M <= L /\ b.tails \subseteq 1..L /\ b.used \in SUBSET Nat
    BY DEF Shorts, ShortRecords, Settled
  <2> QED BY <2>1, ListFacts
<1>4. mount \in 1..M
  BY <1>2, MountFacts
<1>5. line \in StoryLines
  BY LinesTyped
<1>6. ShortBeat(anchors, beats, b, i) = [nodes |-> grown, used |-> used, tails |-> tails]
  BY Zenon DEF ShortBeat
<1> HIDE DEF mount, line, W, v, length, L
<1>7. first \in SUBSET (1..L)
  BY <1>1, <1>3, <1>4
<1> HIDE DEF first
<1>8. grown \in Lists(W) /\ Len(grown) = L + length
  BY <1>2, <1>3, <1>5, <1>7, ChainTyped DEF L
<1> HIDE DEF grown
<1>9. tails \subseteq 1..Len(grown) /\ tails \in SUBSET Nat /\ M <= Len(grown)
  <2>1. Len(grown) \in 1..Len(grown) /\ 1..L \subseteq 1..Len(grown) /\ 1..Len(grown) \subseteq Nat
        /\ M <= Len(grown)
    BY <1>1, <1>2, <1>3, <1>8
  <2> QED BY <1>3, <2>1
<1>10. used \in SUBSET Nat
  BY <1>1, <1>3, <1>4
<1> HIDE DEF used, tails
<1> DEFINE r == [nodes |-> grown, used |-> used, tails |-> tails]
<1>11. r \in ShortRecords(W)
  BY <1>8, <1>9, <1>10 DEF ShortRecords
<1>12. Settled(r, M)
  BY <1>9 DEF Settled
<1> QED BY <1>6, <1>11, <1>12 DEF Shorts, W

\* The short beats are added one after the other.
LEMMA ShortBeatsFold ==
  ASSUME NEW V \in Nat \ {0}, NEW anchors \in AnchorCounts(V),
         NEW M, M = Len(MainLine(anchors)), NEW beats \in Seq(BeatRecords(V)),
         NEW ribs \in Lists(1..V), M <= Len(ribs)
  PROVE  \E f \in [0..Len(beats) -> Shorts(1..V, M)] :
           /\ f[0] = [nodes |-> ribs, used |-> {}, tails |-> {}]
           /\ ShortBeats(ribs, anchors, beats) = f[Len(beats)]
           /\ \A k \in 1..Len(beats) : f[k] = ShortBeat(anchors, beats, f[k - 1], k)
<1> DEFINE sq == [i \in DOMAIN beats |-> i]
           N == Len(beats)
           T == Shorts(1..V, M)
           base == [nodes |-> ribs, used |-> {}, tails |-> {}]
           Step(x, e) == ShortBeat(anchors, beats, x, e)
           G == [p \in (1..N) \X T |-> Step(p[2], sq[p[1]])]
           iter == CHOOSE h : h = [t \in SUBSET DOMAIN sq |->
                      IF t = {} THEN base ELSE Step(h[t \ {Max(t)}], sq[Max(t)])]
<1>1. ShortBeats(ribs, anchors, beats) = iter[DOMAIN sq]
  BY Zenon DEF ShortBeats, ShortBeat, FoldLeft, MapThenFoldSet
<1>2. N \in Nat /\ DOMAIN sq = 1..N
  OBVIOUS
<1>3. base \in T
  <2> DEFINE none == {}
  <2>1. none \in SUBSET Nat /\ none \subseteq 1..Len(ribs)
    OBVIOUS
  <2>2. base = [nodes |-> ribs, used |-> none, tails |-> none]
    OBVIOUS
  <2> HIDE DEF none, base
  <2>3. base \in ShortRecords(1..V)
    BY <2>1, <2>2 DEF ShortRecords
  <2>4. Settled(base, M)
    BY <2>1, <2>2 DEF Settled
  <2> QED BY <2>3, <2>4 DEF Shorts
<1>4. \A k \in 1..N, x \in T : Step(x, sq[k]) \in T
  <2>1. \A k \in 1..N : sq[k] = k
    OBVIOUS
  <2> HIDE DEF sq
  <2> QED BY <2>1, ShortBeatTyped
<1> HIDE DEF sq, N, base, Step
<1>5. G \in [(1..N) \X T -> T]
  BY <1>2, <1>4
<1>6. \A k \in 1..N, x \in T : G[<<k, x>>] = Step(x, sq[k])
  OBVIOUS
<1> HIDE DEF T, G
<1>7. PICK h \in [SUBSET (1..N) -> T] : Iterates(h, G, base, N)
  BY <1>2, <1>3, <1>5, IterationExists
<1>8. \A t \in SUBSET (1..N) : t # {} => Max(t) \in 1..N /\ t \ {Max(t)} \in SUBSET (1..N)
  BY <1>2, MaxIsElement
<1>9. h = [t \in SUBSET (1..N) |-> IF t = {} THEN base ELSE Step(h[t \ {Max(t)}], sq[Max(t)])]
  BY <1>6, <1>7, <1>8 DEF Iterates
<1>10. iter = [t \in SUBSET (1..N) |->
                 IF t = {} THEN base ELSE Step(iter[t \ {Max(t)}], sq[Max(t)])]
  <2>1. iter = CHOOSE x : x = [t \in SUBSET (1..N) |->
                      IF t = {} THEN base ELSE Step(x[t \ {Max(t)}], sq[Max(t)])]
    BY <1>2
  <2> HIDE DEF iter
  <2> QED BY <1>9, <2>1
<1> HIDE DEF iter
<1>11. Folds(iter, T, G, base, N)
  BY <1>6, <1>8, <1>10 DEF Folds
<1>12. FoldsTo(T, G, base, N, iter[1..N])
  BY <1>2, <1>3, <1>5, <1>11, IterationSteps
<1>13. PICK f \in [0..N -> T] :
          /\ f[0] = base /\ iter[1..N] = f[N]
          /\ \A k \in 1..N : f[k] = G[<<k, f[k - 1]>>]
  BY <1>12 DEF FoldsTo, Steps
<1>14. \A k \in 1..N : f[k] = Step(f[k - 1], sq[k])
  <2>1. \A k \in 1..N : k - 1 \in 0..N
    BY <1>2
  <2> QED BY <1>6, <1>13, <2>1
<1>15. ShortBeats(ribs, anchors, beats) = f[N]
  BY <1>1, <1>2, <1>13
<1>16. \A k \in 1..N : f[k] = ShortBeat(anchors, beats, f[k - 1], k)
  <2>1. \A k \in 1..N : sq[k] = k
    BY <1>2 DEF sq, N
  <2> QED BY <1>14, <2>1 DEF Step
<1> QED BY <1>13, <1>15, <1>16 DEF T, N, base

\* They stay what they are.
LEMMA ShortBeatsTyped ==
  ASSUME NEW V \in Nat \ {0}, NEW anchors \in AnchorCounts(V),
         NEW M, M = Len(MainLine(anchors)), NEW beats \in Seq(BeatRecords(V)),
         NEW ribs \in Lists(1..V), M <= Len(ribs)
  PROVE  ShortBeats(ribs, anchors, beats) \in Shorts(1..V, M)
<1>1. PICK f \in [0..Len(beats) -> Shorts(1..V, M)] :
         /\ f[0] = [nodes |-> ribs, used |-> {}, tails |-> {}]
         /\ ShortBeats(ribs, anchors, beats) = f[Len(beats)]
         /\ \A k \in 1..Len(beats) : f[k] = ShortBeat(anchors, beats, f[k - 1], k)
  BY ShortBeatsFold
<1>2. Len(beats) \in 0..Len(beats)
  OBVIOUS
<1> QED BY <1>1, <1>2

\* The gathering changes the dependencies of checkpoints only.
LEMMA GatherTyped ==
  ASSUME NEW W, NEW M, NEW b \in Shorts(W, M)
  PROVE  Gather(b) \in Lists(W)
<1> DEFINE list == b.nodes
           L == Len(list)
           more(n) == {t \in b.tails : list[t].volume = list[n].volume}
           joined(n) == [list[n] EXCEPT !.deps = @ \cup more(n)]
           e(n) == IF list[n].kind = "CHECKPOINT" THEN joined(n) ELSE list[n]
<1>1. list \in Lists(W) /\ b.tails \subseteq 1..L
  BY DEF Shorts, ShortRecords, Settled
<1>2. /\ L \in Nat /\ DOMAIN list = 1..L
      /\ \A n \in 1..L : list[n] \in NodesOf(W) /\ list[n].deps \subseteq 1..L
  BY <1>1, ListFacts
<1>3. Gather(b) = [n \in 1..L |-> e(n)]
  BY <1>2 DEF Gather
<1> HIDE DEF list, L
<1>4. ASSUME NEW n \in 1..L
      PROVE  joined(n) \in NodesOf(W) /\ joined(n).deps \subseteq 1..L
  <2> DEFINE x == list[n]
             all == x.deps \cup more(n)
  <2>1. all \subseteq 1..L
    BY <1>1, <1>2
  <2>2. all \in SUBSET Nat
    BY <1>2, <2>1
  <2>3. joined(n) = [x EXCEPT !.deps = all]
    OBVIOUS
  <2>4. x \in NodesOf(W)
    BY <1>2
  <2> HIDE DEF x, all
  <2>5. [x EXCEPT !.deps = all] \in NodesOf(W) /\ [x EXCEPT !.deps = all].deps = all
    BY <2>2, <2>4 DEF NodesOf
  <2> HIDE DEF joined
  <2> QED BY <2>1, <2>3, <2>5
<1> HIDE DEF joined
<1>5. \A n \in 1..L : e(n) \in NodesOf(W) /\ e(n).deps \subseteq 1..L
  BY <1>2, <1>4
<1> HIDE DEF e
<1>6. Gather(b) \in Seq(NodesOf(W)) /\ Len(Gather(b)) = L
  BY <1>2, <1>3, <1>5
<1>7. \A n \in 1..L : Gather(b)[n].deps \subseteq 1..L
  BY <1>3, <1>5
<1> QED BY <1>6, <1>7 DEF Lists, Closed

\* The ending gathers the checkpoints.
LEMMA WithEndingTyped ==
  ASSUME NEW W, NEW list \in Lists(W), NEW last \in W
  PROVE  WithEnding(list, last) \in Lists(W)
<1> DEFINE deps == {n \in DOMAIN list : list[n].kind = "CHECKPOINT"}
           node == [kind |-> "ENDING", volume |-> last, main |-> TRUE, line |-> Main,
             deps |-> deps]
<1>1. Len(list) \in Nat /\ DOMAIN list = 1..Len(list)
  BY ListFacts
<1>2. deps \subseteq 1..Len(list) /\ deps \in SUBSET Nat
  BY <1>1
<1>3. WithEnding(list, last) = Append(list, node)
  BY Zenon DEF WithEnding
<1>4. node \in NodesOf(W) /\ node.deps = deps
  <2>1. "ENDING" \in Kinds /\ Main \in StoryLines
    BY LinesTyped DEF Kinds
  <2> HIDE DEF deps
  <2> QED BY <1>2, <2>1 DEF NodesOf
<1> HIDE DEF node, deps
<1> QED BY <1>2, <1>3, <1>4, ListGrows

\* _build_fishbone_anchor_nodes: whatever the generator chooses, no node depends on one that is
\* not there.
LEMMA FishboneTyped ==
  ASSUME NEW V \in Nat \ {0}, NEW anchors \in AnchorCounts(V), NEW S \in Nat,
         NEW c, Chosen(c, anchors, V, S)
  PROVE  FishboneNodes(anchors, c) \in Lists(1..V)
<1> DEFINE M == Len(MainLine(anchors))
           ribs == Ribs(anchors, c)
           beats == c.beats
           b == ShortBeats(ribs, anchors, beats)
           list == Gather(b)
<1>1. ribs \in Lists(1..V) /\ M <= Len(ribs)
  BY RibsTyped
<1>2. beats \in Seq(BeatRecords(V))
  BY DEF Chosen
<1>3. Len(anchors) = V /\ V \in 1..V
  BY DEF AnchorCounts
<1>4. FishboneNodes(anchors, c) = WithEnding(list, V)
  BY <1>3 DEF FishboneNodes
<1> HIDE DEF ribs, beats
<1>5. b \in Shorts(1..V, M)
  BY <1>1, <1>2, ShortBeatsTyped
<1> HIDE DEF b
<1>6. list \in Lists(1..V)
  BY <1>5, GatherTyped
<1> HIDE DEF list
<1> DEFINE W == 1..V
<1>7. list \in Lists(W) /\ V \in W
  BY <1>3, <1>6
<1> HIDE DEF W
<1>8. WithEnding(list, V) \in Lists(W)
  BY <1>7, WithEndingTyped
<1> QED BY <1>4, <1>8 DEF W

-----------------------------------------------------------------------------
(* What chapters can resolve. *)

\* Aiming again and again goes in rounds.
LEMMA ResolvableByRounds ==
  ASSUME NEW plan, IsFiniteSet(DOMAIN plan),
         NEW F, F = [S \in SUBSET DOMAIN plan |-> WithFrontier(plan, S)]
  PROVE  \E f \in Rounds(F, {}, Cardinality(DOMAIN plan)) :
            Resolvable(plan) = Derived(plan, f[Cardinality(DOMAIN plan)])
<1> DEFINE N == Cardinality(DOMAIN plan)
           X == DOMAIN plan
           none == {}
           done == CHOOSE f : f = [k \in 0..N |-> IF k = 0 THEN none
                                                   ELSE WithFrontier(plan, f[k - 1])]
<1>1. N \in Nat
  BY FS_CardinalityType
<1>2. Resolvable(plan) = Derived(plan, done[N])
  BY DEF Resolvable
<1> HIDE DEF N
<1>3. F \in StepsOver(X) /\ none \in SUBSET X
  BY DEF WithFrontier, Frontier, StepsOver
<1>4. PICK f : f \in Rounds(F, none, N)
  <2> DEFINE T == SUBSET X
  <2>1. F \in [T -> T] /\ none \in T
    BY <1>3 DEF StepsOver
  <2> HIDE DEF T, none
  <2> QED BY <1>1, <2>1, RoundsExist
<1> HIDE DEF none
<1>5. f = [k \in 0..N |-> IF k = 0 THEN none ELSE WithFrontier(plan, f[k - 1])]
  <2>1. /\ f \in [0..N -> SUBSET X] /\ f[0] = none
        /\ \A k \in 1..N : f[k] = F[f[k - 1]]
    BY <1>3, <1>4 DEF Rounds, StepsOver
  <2>2. \A k \in 0..N : k # 0 => k \in 1..N /\ k - 1 \in 0..N
    BY <1>1
  <2>3. \A k \in 0..N : f[k] = IF k = 0 THEN none ELSE WithFrontier(plan, f[k - 1])
    BY <2>1, <2>2
  <2> QED BY <2>1, <2>3
<1>6. done = [k \in 0..N |-> IF k = 0 THEN none ELSE WithFrontier(plan, done[k - 1])]
  BY <1>5
<1> HIDE DEF done
<1>7. done \in Rounds(F, none, N)
  <2>1. done = [k \in 0..N |-> done[k]]
    BY <1>6
  <2>2. done[0] = none
    BY <1>1, <1>6
  <2>3. \A k \in 1..N : done[k - 1] \in SUBSET X => done[k] = F[done[k - 1]]
    <3>1. \A k \in 1..N : done[k] = WithFrontier(plan, done[k - 1])
      BY <1>1, <1>6
    <3> QED BY <3>1
  <2> QED BY <1>1, <1>3, <2>1, <2>2, <2>3, RoundsOf DEF StepsOver
<1> QED BY <1>2, <1>7 DEF N, none

\* A finite plan that knows what it depends on and has no cycle can be resolved to its end: of the
\* anchors that are left one depends on none of them, so it settles or a chapter may aim at it.
LEMMA SoundIsResolvable ==
  ASSUME NEW plan, IsFiniteSet(DOMAIN plan), Sound(plan)
  PROVE  Resolvable(plan) = DOMAIN plan
<1> DEFINE X == DOMAIN plan
           F == [S \in SUBSET X |-> WithFrontier(plan, S)]
           N == Cardinality(X)
           none == {}
<1>1. F \in StepsOver(X) /\ none \in SUBSET X /\ X \in SUBSET X /\ Adds(F, X)
  BY DEF WithFrontier, Frontier, StepsOver, Adds
<1>2. PICK f \in Rounds(F, none, N) : Resolvable(plan) = Derived(plan, f[N])
  BY ResolvableByRounds
<1>3. \A S \in SUBSET X : F[S] = WithFrontier(plan, S)
  OBVIOUS
<1>4. f[N] \in SUBSET X /\ F[f[N]] = f[N]
  <2> HIDE DEF F, none
  <2> QED BY <1>1, <1>2, RoundsSettle
<1> DEFINE done == f[N]
           D == Derived(plan, done)
<1>5. done \in SUBSET X /\ Frontier(plan, done) \subseteq done
  BY <1>3, <1>4 DEF WithFrontier
<1>6. done \subseteq D /\ D \subseteq done \cup Terminals(plan) /\ SettleOnce(plan, D) = D
  BY DerivedIsSettled
<1>7. D \subseteq X
  BY <1>5, <1>6 DEF Terminals
<1>8. ASSUME X \ D # {}
      PROVE  FALSE
  <2>1. PICK n \in X \ D : plan[n].deps \cap (X \ D) = {}
    BY <1>8, AcyclicMeansFounded DEF Sound
  <2>2. plan[n].deps \subseteq D
    BY <2>1 DEF Sound, DepsKnown
  <2>3. CASE n \in Terminals(plan)
    BY <1>6, <2>1, <2>2, <2>3 DEF SettleOnce
  <2>4. CASE n \notin Terminals(plan)
    <3>1. n \in Frontier(plan, done)
      BY <2>1, <2>2, <2>4 DEF Frontier
    <3> QED BY <1>5, <1>6, <2>1, <3>1
  <2> QED BY <2>3, <2>4
<1>9. Resolvable(plan) = D
  BY <1>2
<1> HIDE DEF D
<1> QED BY <1>7, <1>8, <1>9

-----------------------------------------------------------------------------
(* The compile. *)

\* How the beats the author pinned are collected.
Pin(pins, h) ==
  IF h.tier = "B" /\ h.volume \in 1..Len(volumes) THEN Append(pins, h.volume) ELSE pins
Pinning ==
  \E f \in [0..Len(Hints) -> Seq(1..Len(volumes))] :
     /\ f[0] = <<>> /\ \A k \in 1..Len(Hints) : f[k] = Pin(f[k - 1], Hints[k])
     /\ PinnedBeats = f[Len(Hints)]

\* They are collected hint by hint.
LEMMA PinnedFold ==
  Pinning
<1> DEFINE sq == Hints
           N == Len(Hints)
           T == Seq(1..Len(volumes))
           base == <<>>
           Step(x, e) == Pin(x, e)
           G == [p \in (1..N) \X T |-> Step(p[2], sq[p[1]])]
           iter == CHOOSE h : h = [t \in SUBSET DOMAIN sq |->
                      IF t = {} THEN base ELSE Step(h[t \ {Max(t)}], sq[Max(t)])]
<1>1. PinnedBeats = iter[DOMAIN sq]
  BY Zenon DEF PinnedBeats, Pin, FoldLeft, MapThenFoldSet
<1>2. N \in Nat /\ DOMAIN sq = 1..N
  BY CompileAssumption
<1>3. base \in T
  OBVIOUS
<1>4. \A k \in 1..N, x \in T : Step(x, sq[k]) \in T
  <2>1. \A k \in 1..N : sq[k] \in HintRecords
    BY CompileAssumption
  <2> SUFFICES ASSUME NEW k \in 1..N, NEW x \in T PROVE Step(x, sq[k]) \in T
    OBVIOUS
  <2> DEFINE h == sq[k]
             W == 1..Len(volumes)
             longer == Append(x, h.volume)
  <2>2. x \in Seq(W) /\ (h.volume \in W => longer \in Seq(W))
    OBVIOUS
  <2>3. Step(x, h) = IF h.tier = "B" /\ h.volume \in W THEN longer ELSE x
    BY DEF Pin
  <2> HIDE DEF W, h, longer, Step
  <2>4. Step(x, h) \in Seq(W)
    BY <2>2, <2>3
  <2> QED BY <2>4 DEF h, W
<1> HIDE DEF sq, N, base, Step
<1>5. G \in [(1..N) \X T -> T]
  BY <1>2, <1>4
<1>6. \A k \in 1..N, x \in T : G[<<k, x>>] = Step(x, sq[k])
  OBVIOUS
<1> HIDE DEF T, G
<1>7. PICK h \in [SUBSET (1..N) -> T] : Iterates(h, G, base, N)
  BY <1>2, <1>3, <1>5, IterationExists
<1>8. \A t \in SUBSET (1..N) : t # {} => Max(t) \in 1..N /\ t \ {Max(t)} \in SUBSET (1..N)
  BY <1>2, MaxIsElement
<1>9. h = [t \in SUBSET (1..N) |-> IF t = {} THEN base ELSE Step(h[t \ {Max(t)}], sq[Max(t)])]
  BY <1>6, <1>7, <1>8 DEF Iterates
<1>10. iter = [t \in SUBSET (1..N) |->
                 IF t = {} THEN base ELSE Step(iter[t \ {Max(t)}], sq[Max(t)])]
  <2>1. iter = CHOOSE x : x = [t \in SUBSET (1..N) |->
                      IF t = {} THEN base ELSE Step(x[t \ {Max(t)}], sq[Max(t)])]
    BY <1>2
  <2> HIDE DEF iter
  <2> QED BY <1>9, <2>1
<1> HIDE DEF iter
<1>11. Folds(iter, T, G, base, N)
  BY <1>6, <1>8, <1>10 DEF Folds
<1>12. FoldsTo(T, G, base, N, iter[1..N])
  BY <1>2, <1>3, <1>5, <1>11, IterationSteps
<1>13. PICK f \in [0..N -> T] :
          /\ f[0] = base /\ iter[1..N] = f[N]
          /\ \A k \in 1..N : f[k] = G[<<k, f[k - 1]>>]
  BY <1>12 DEF FoldsTo, Steps
<1>14. \A k \in 1..N : f[k] = Step(f[k - 1], sq[k])
  <2>1. \A k \in 1..N : k - 1 \in 0..N
    BY <1>2
  <2> QED BY <1>6, <1>13, <2>1
<1>15. PinnedBeats = f[N]
  BY <1>1, <1>2, <1>13
<1> QED BY <1>13, <1>14, <1>15 DEF N, T, base, sq, Step, Pinning

\* The beats the author pinned are in volumes of the story.
LEMMA PinnedTyped ==
  PinnedBeats \in Seq(1..Len(volumes))
<1>1. Pinning
  BY PinnedFold
<1>2. Len(Hints) \in 0..Len(Hints)
  BY CompileAssumption
<1> QED BY <1>1, <1>2 DEF Pinning

\* The planner's answers.
Answers ==
  [drafts : Seq(DraftRecords), castNotes : BOOLEAN, anchorNotes : BOOLEAN, language : BOOLEAN]
Answered(o) == o \in Answers /\ Len(o.drafts) = VolumeCount

\* NotesLinked and the rest of what an answer has to be are Booleans.
LEMMA AnswerFacts ==
  ASSUME NEW o \in Answers
  PROVE  /\ o.drafts \in Seq(DraftRecords)
         /\ o.castNotes \in BOOLEAN /\ o.anchorNotes \in BOOLEAN /\ o.language \in BOOLEAN
BY DEF Answers

\* A record of these is an answer.
LEMMA AnswerIs ==
  ASSUME NEW d \in Seq(DraftRecords), NEW p \in BOOLEAN, NEW q \in BOOLEAN, NEW r \in BOOLEAN
  PROVE  [drafts |-> d, castNotes |-> p, anchorNotes |-> q, language |-> r] \in Answers
BY DEF Answers

\* _validate_notes_links: an answer of the wrong length has the fallback's volumes.
LEMMA WithVolumesTyped ==
  ASSUME NEW o \in Answers, NEW w \in WithVolumes(o)
  PROVE  w \in Answers /\ Len(w.drafts) = VolumeCount
<1> DEFINE d == FallbackDrafts
           q == KeyPoints
           p == o.castNotes
<1>1. d \in Seq(DraftRecords) /\ Len(d) = VolumeCount
  BY FallbackFacts
<1>2. q \in BOOLEAN /\ p \in BOOLEAN
  BY AnswerFacts, CompileAssumption
<1>3. w \in IF Len(o.drafts) = VolumeCount THEN {o}
             ELSE {[drafts |-> d, castNotes |-> p, anchorNotes |-> q, language |-> r] :
                     r \in BOOLEAN}
  BY DEF WithVolumes
<1> HIDE DEF d, q, p
<1>4. CASE Len(o.drafts) = VolumeCount
  BY <1>3, <1>4
<1>5. CASE Len(o.drafts) # VolumeCount
  <2>1. PICK r \in BOOLEAN :
          w = [drafts |-> d, castNotes |-> p, anchorNotes |-> q, language |-> r]
    BY <1>3, <1>5
  <2>2. w \in Answers
    BY <1>1, <1>2, <2>1, AnswerIs
  <2>3. w.drafts = d
    BY <2>1
  <2> QED BY <1>1, <2>2, <2>3
<1> QED BY <1>4, <1>5

\* _normalize_macro_plan: what the volumes of an answer are.
LEMMA VolumesTyped ==
  ASSUME NEW o, Answered(o), NEW vs, vs = Normalized(InOrder(o.drafts))
  PROVE  /\ vs \in Seq(VolumeRecords) /\ Len(vs) = VolumeCount /\ DOMAIN vs = 1..VolumeCount
         /\ vs # <<>> /\ Apart(vs) /\ Budgeted(vs)
<1> DEFINE d == o.drafts
           e == InOrder(d)
<1>1. d \in Seq(DraftRecords) /\ Len(d) = VolumeCount
  BY AnswerFacts DEF Answered
<1>2. VolumeCount \in Nat /\ VolumeCount >= 1
  BY CompileAssumption
<1>3. e \in Seq(DraftRecords) /\ Len(e) = VolumeCount
  BY <1>1, InOrderTyped
<1> HIDE DEF e
<1>4. e # <<>>
  BY <1>2, <1>3
<1>5. vs \in Seq(VolumeRecords) /\ Len(vs) = Len(e) /\ Apart(vs) /\ Budgeted(vs)
  BY <1>3, <1>4, NormalizedFacts DEF e
<1>6. DOMAIN vs = 1..VolumeCount /\ vs # <<>>
  BY <1>2, <1>3, <1>5
<1> QED BY <1>3, <1>5, <1>6

\* _normalize_macro_plan: where the volumes of an answer lie.
LEMMA VolumesWithin ==
  ASSUME NEW o, Answered(o), NEW vs, vs = Normalized(InOrder(o.drafts))
  PROVE  Within(vs)
<1> DEFINE d == o.drafts
           e == InOrder(d)
           out == Bounds(e)
<1>1. d \in Seq(DraftRecords) /\ Len(d) = VolumeCount
  BY AnswerFacts DEF Answered
<1>2. e \in Seq(DraftRecords) /\ Len(e) = VolumeCount
  BY <1>1, InOrderTyped
<1>3. vs = Normalized(e) /\ VolumeCount \in Nat /\ VolumeCount >= 1
  BY CompileAssumption
<1> HIDE DEF e
<1>4. e # <<>>
  BY <1>2, <1>3
<1>5. /\ Len(vs) = Len(e)
      /\ \A v \in 1..Len(vs) : vs[v].start = out[v].start /\ vs[v].end = out[v].end
  BY <1>2, <1>3, <1>4, NormalizedFacts
<1>6. Len(out) = Len(e)
  BY <1>2, <1>4, BoundsFacts
<1>7. Within(out)
  BY <1>2, BoundsWithin
<1> HIDE DEF out
<1> QED BY <1>5, <1>6, <1>7 DEF Within

\* Every volume has main anchors.
LEMMA AnchorsTyped ==
  ASSUME volumes \in Seq(VolumeRecords), Len(volumes) = VolumeCount
  PROVE  Anchors \in AnchorCounts(VolumeCount) /\ DOMAIN volumes = 1..VolumeCount
<1>1. MinAnchors..MaxAnchors \subseteq Nat \ {0} /\ VolumeCount \in Nat
  BY CompileAssumption
<1>2. DOMAIN volumes = 1..VolumeCount
  OBVIOUS
<1>3. \A v \in 1..VolumeCount : volumes[v].anchors \in Nat \ {0}
  <2>1. \A v \in 1..VolumeCount : volumes[v] \in VolumeRecords
    BY <1>2
  <2> QED BY <1>1, <2>1 DEF VolumeRecords
<1> QED BY <1>2, <1>3 DEF Anchors, AnchorCounts

\* What storylines are.
LinesOf(l) ==
  /\ l.s \in 1..2
  /\ l.arcs \in [1..VolumeCount -> Nat]
  /\ l.beats \in Seq(1..VolumeCount)

\* A function on the first numbers is a sequence.
LEMMA ArrayIsSeq ==
  ASSUME NEW n \in Nat, NEW R, NEW f \in [1..n -> R]
  PROVE  f \in Seq(R)
OBVIOUS

\* The beats are in volumes of the story.
LEMMA BeatVolumesTyped ==
  ASSUME Len(volumes) = VolumeCount, NEW count \in Nat
  PROVE  BeatVolumes(count) \in Seq(1..VolumeCount)
<1> DEFINE V == VolumeCount
           pins == PinnedBeats
           L == Len(pins)
           e(i) == IF i <= L THEN pins[i] ELSE ((i - L - 1) % V) + 1
<1>1. pins \in Seq(1..V) /\ V \in Nat \ {0}
  BY PinnedTyped, CompileAssumption
<1>2. BeatVolumes(count) = [i \in 1..count |-> e(i)]
  BY DEF BeatVolumes
<1> HIDE DEF pins, V
<1>3. L \in Nat
  BY <1>1
<1>4. ASSUME NEW i \in 1..count
      PROVE  e(i) \in 1..V
  <2>1. CASE i <= L
    <3>1. i \in 1..L
      BY <1>3, <2>1
    <3>2. pins[i] \in 1..V
      BY <1>1, <3>1
    <3> QED BY <2>1, <3>2
  <2>2. CASE i > L
    <3> DEFINE n == i - L - 1
    <3>1. n \in Nat /\ ~(i <= L)
      BY <1>3, <2>2
    <3> HIDE DEF n
    <3>2. n % V \in 0..(V - 1)
      BY <1>1, <3>1
    <3>3. (n % V) + 1 \in 1..V
      BY <1>1, <3>2
    <3> QED BY <3>1, <3>3 DEF n
  <2> QED BY <1>3, <2>1, <2>2
<1> HIDE DEF e
<1>5. [i \in 1..count |-> e(i)] \in Seq(1..V)
  BY <1>4
<1> QED BY <1>2, <1>5 DEF V

\* The volume arcs the author pinned can be counted.
LEMMA HintsCounted ==
  ASSUME NEW v
  PROVE  Cardinality(HintsOf("A", v)) \in Nat
<1>1. Hints \in Seq(HintRecords)
  BY CompileAssumption
<1>2. IsFiniteSet(1..Len(Hints))
  BY <1>1, FS_Interval
<1>3. HintsOf("A", v) \subseteq 1..Len(Hints)
  BY <1>1 DEF HintsOf
<1> QED BY <1>2, <1>3, FS_Subset, FS_CardinalityType

\* _build_fishbone_anchor_nodes: what the generator chooses fits the volumes and storylines.
LEMMA TopologyChosen ==
  ASSUME volumes \in Seq(VolumeRecords), Len(volumes) = VolumeCount, LinesOf(lines),
         NEW c \in Topologies
  PROVE  Chosen(c, Anchors, VolumeCount, lines.s)
<1> DEFINE V == VolumeCount
<1>1. DOMAIN volumes = 1..V
  BY AnchorsTyped
<1>2. PICK series, arcs, beats :
        /\ series \in [DOMAIN volumes -> [1..lines.s -> SeriesLengths]]
        /\ \A r \in Arcs : arcs[r] \in ArcsFrom(Anchors[r[1]])
        /\ beats \in [DOMAIN lines.beats -> BeatLengths]
        /\ c = [series |-> series,
                arcs |-> [v \in DOMAIN volumes |-> [a \in 1..lines.arcs[v] |-> arcs[<<v, a>>]]],
                beats |-> [i \in DOMAIN lines.beats |->
                             [volume |-> lines.beats[i], length |-> beats[i]]]]
  <2> DEFINE A == [DOMAIN volumes -> [1..lines.s -> SeriesLengths]]
             B == {f \in [Arcs -> UNION {ArcsFrom(Anchors[v]) : v \in DOMAIN volumes}] :
                     \A r \in Arcs : f[r] \in ArcsFrom(Anchors[r[1]])}
             D == [DOMAIN lines.beats -> BeatLengths]
             Made(series, arcs, beats) ==
               [series |-> series,
                arcs |-> [v \in DOMAIN volumes |-> [a \in 1..lines.arcs[v] |-> arcs[<<v, a>>]]],
                beats |-> [i \in DOMAIN lines.beats |->
                             [volume |-> lines.beats[i], length |-> beats[i]]]]
  <2>1. Topologies = {Made(series, arcs, beats) : series \in A, arcs \in B, beats \in D}
    BY DEF Topologies
  <2>2. \A f \in B : \A r \in Arcs : f[r] \in ArcsFrom(Anchors[r[1]])
    OBVIOUS
  <2> HIDE DEF A, B, Made
  <2>3. PICK series \in A, arcs \in B, beats \in D : c = Made(series, arcs, beats)
    BY <2>1
  <2>4. series \in A /\ arcs \in B /\ beats \in D /\ c = Made(series, arcs, beats)
    BY <2>3
  <2>5. \A r \in Arcs : arcs[r] \in ArcsFrom(Anchors[r[1]])
    BY <2>2, <2>4
  <2>6. \E s, a, b : /\ s \in A /\ \A r \in Arcs : a[r] \in ArcsFrom(Anchors[r[1]])
                     /\ b \in D /\ c = Made(s, a, b)
    BY <2>4, <2>5
  <2> QED BY <2>6, Zenon DEF A, Made
<1>3. c.series = series /\ c.series \in [1..V -> [1..lines.s -> SeriesLengths]]
  BY <1>1, <1>2
<1>4. ASSUME NEW v \in 1..V
      PROVE  c.arcs[v] \in Seq(ArcRecords(Anchors[v]))
  <2> DEFINE n == lines.arcs[v]
             R == ArcRecords(Anchors[v])
             e(a) == arcs[<<v, a>>]
  <2>1. n \in Nat
    BY DEF LinesOf
  <2>2. c.arcs[v] = [a \in 1..n |-> e(a)]
    BY <1>1, <1>2
  <2>3. ASSUME NEW a \in 1..n
        PROVE  e(a) \in R
    <3>1. <<v, a>> \in Arcs
      BY <1>1 DEF Arcs
    <3>2. arcs[<<v, a>>] \in ArcsFrom(Anchors[<<v, a>>[1]])
      BY <1>2, <3>1
    <3>3. <<v, a>>[1] = v
      OBVIOUS
    <3> QED BY <3>2, <3>3 DEF ArcsFrom, ArcRecords
  <2> HIDE DEF n, R, e
  <2>4. [a \in 1..n |-> e(a)] \in [1..n -> R]
    BY <2>3
  <2>5. [a \in 1..n |-> e(a)] \in Seq(R)
    BY <2>1, <2>4, ArrayIsSeq
  <2> QED BY <2>2, <2>5 DEF R
<1>5. c.beats \in Seq(BeatRecords(V))
  <2> DEFINE n == Len(lines.beats)
             e(i) == [volume |-> lines.beats[i], length |-> beats[i]]
  <2>1. n \in Nat /\ DOMAIN lines.beats = 1..n /\ \A i \in 1..n : lines.beats[i] \in 1..V
    BY DEF LinesOf
  <2>2. c.beats = [i \in 1..n |-> e(i)]
    BY <1>2, <2>1
  <2>3. ASSUME NEW i \in 1..n
        PROVE  e(i) \in BeatRecords(V)
    <3>1. beats[i] \in BeatLengths /\ lines.beats[i] \in 1..V
      BY <1>2, <2>1
    <3> QED BY <3>1 DEF BeatRecords
  <2> HIDE DEF n, e
  <2>4. [i \in 1..n |-> e(i)] \in [1..n -> BeatRecords(V)]
    BY <2>3
  <2>5. [i \in 1..n |-> e(i)] \in Seq(BeatRecords(V))
    BY <2>1, <2>4, ArrayIsSeq
  <2> QED BY <2>2, <2>5
<1> QED BY <1>3, <1>4, <1>5 DEF Chosen

-----------------------------------------------------------------------------
(* Hints: what the storylines take of what the author asked for. *)

\* Sequences put together one after the other.
Flattens(X, N, seqs) ==
  \E f \in [1..N -> Seq(X)] :
     /\ f[1] = seqs[1] /\ \A k \in 2..N : f[k] = f[k - 1] \o seqs[k]
     /\ FlattenSeq(seqs) = f[N]

\* That is what FlattenSeq does.
LEMMA FlattenGoes ==
  ASSUME NEW X, NEW N \in Nat \ {0}, NEW seqs \in [1..N -> Seq(X)]
  PROVE  Flattens(X, N, seqs)
<1> DEFINE T == Seq(X)
           base == <<>>
           G == [p \in (1..N) \X T |-> p[2] \o seqs[p[1]]]
           flatten == CHOOSE f : f = [i \in 1..N |-> IF i = 1 THEN seqs[i] ELSE f[i - 1] \o seqs[i]]
<1>1. base \in T /\ N \in Nat
  OBVIOUS
<1>2. \A k \in 1..N, x \in T : x \o seqs[k] \in T
  OBVIOUS
<1>3. \A k \in 1..N : base \o seqs[k] = seqs[k]
  OBVIOUS
<1>4. Len(seqs) = N /\ N # 0 /\ 1 \in 1..N
  OBVIOUS
<1>5. FlattenSeq(seqs) = flatten[N]
  BY <1>4 DEF FlattenSeq
<1> HIDE DEF base, T
<1>6. G \in [(1..N) \X T -> T]
  BY <1>2
<1>7. \A k \in 1..N, x \in T : G[<<k, x>>] = x \o seqs[k]
  OBVIOUS
<1> HIDE DEF G
<1>8. PICK h \in [SUBSET (1..N) -> T] : Iterates(h, G, base, N)
  BY <1>1, <1>6, IterationExists
<1>9. Folds(h, T, G, base, N)
  BY <1>8 DEF Iterates, Folds
<1>10. FoldsTo(T, G, base, N, h[1..N])
  BY <1>1, <1>6, <1>9, IterationSteps
<1>11. PICK f \in [0..N -> T] : f[0] = base /\ \A k \in 1..N : f[k] = G[<<k, f[k - 1]>>]
  BY <1>10 DEF FoldsTo, Steps
<1>12. \A k \in 1..N : f[k] = f[k - 1] \o seqs[k]
  <2>1. \A k \in 1..N : k - 1 \in 0..N
    OBVIOUS
  <2> QED BY <1>7, <1>11, <2>1
<1> DEFINE g == [i \in 1..N |-> f[i]]
<1>13. g = [i \in 1..N |-> IF i = 1 THEN seqs[i] ELSE g[i - 1] \o seqs[i]]
  <2>1. f[1] = seqs[1]
    <3>1. f[1] = f[1 - 1] \o seqs[1] /\ 1 - 1 = 0
      BY <1>4, <1>12
    <3> QED BY <1>3, <1>4, <1>11, <3>1
  <2>2. \A i \in 1..N : i # 1 => i - 1 \in 1..N
    OBVIOUS
  <2>3. \A i \in 1..N : f[i] = IF i = 1 THEN seqs[i] ELSE g[i - 1] \o seqs[i]
    BY <1>12, <2>1, <2>2
  <2> QED BY <2>3
<1>14. flatten = [i \in 1..N |-> IF i = 1 THEN seqs[i] ELSE flatten[i - 1] \o seqs[i]]
  BY <1>13
<1> HIDE DEF flatten, g
<1>15. \A k \in 1..N : flatten[k] = IF k = 1 THEN seqs[k] ELSE flatten[k - 1] \o seqs[k]
  BY <1>14
<1>16. flatten[1] = seqs[1] /\ \A k \in 2..N : flatten[k] = flatten[k - 1] \o seqs[k]
  <2>1. \A k \in 2..N : k \in 1..N /\ k # 1
    OBVIOUS
  <2> QED BY <1>4, <1>15, <2>1
<1> DEFINE S == {n \in Nat : n + 1 <= N => flatten[n + 1] \in T}
<1>17. 0 \in S
  BY <1>4, <1>16 DEF T
<1>18. ASSUME NEW n \in Nat, n \in S
       PROVE  n + 1 \in S
  <2> DEFINE k == n + 1
  <2> SUFFICES ASSUME k + 1 <= N PROVE flatten[k + 1] \in T
    OBVIOUS
  <2>1. k + 1 \in 2..N /\ k + 1 - 1 = k /\ k <= N /\ k + 1 \in 1..N
    BY <1>1
  <2>2. flatten[k] \in T
    BY <1>18, <2>1
  <2>3. flatten[k + 1] = flatten[k] \o seqs[k + 1]
    <3> DEFINE j == k + 1
    <3>1. j \in 2..N /\ j - 1 = k
      BY <2>1
    <3> HIDE DEF j
    <3>2. flatten[j] = flatten[k] \o seqs[j]
      BY <1>16, <3>1
    <3> QED BY <3>2 DEF j
  <2> QED BY <1>2, <2>1, <2>2, <2>3
<1> HIDE DEF S
<1>19. Nat \subseteq S
  BY <1>17, <1>18, Induction
<1>20. ASSUME NEW k \in 1..N
       PROVE  flatten[k] \in T
  <2>1. k - 1 \in Nat /\ k - 1 + 1 = k /\ k <= N
    OBVIOUS
  <2>2. k - 1 \in S
    BY <1>19, <2>1
  <2> QED BY <2>1, <2>2 DEF S
<1>21. flatten \in [1..N -> T]
  <2>1. flatten = [k \in 1..N |-> flatten[k]]
    BY <1>14
  <2> QED BY <1>20, <2>1
<1> QED BY <1>5, <1>16, <1>21 DEF T, Flattens

\* What a sequence of them has, the whole has, at some place.
Has(whole, part) ==
  \E at \in Nat : \A a \in 1..Len(part) : at + a \in 1..Len(whole) /\ whole[at + a] = part[a]

\* A sequence has what it is put together from, and what that has.
LEMMA HasJoined ==
  ASSUME NEW X, NEW s \in Seq(X), NEW t \in Seq(X)
  PROVE  /\ Has(s \o t, t)
         /\ \A part : Has(s, part) => Has(s \o t, part)
<1>1. Len(s) \in Nat /\ Len(t) \in Nat /\ Len(s \o t) = Len(s) + Len(t)
      /\ (\A a \in 1..Len(t) : (s \o t)[Len(s) + a] = t[a])
      /\ (\A a \in 1..Len(s) : (s \o t)[a] = s[a])
  OBVIOUS
<1> DEFINE st == s \o t
<1> HIDE DEF st
<1>2. Has(st, t)
  BY <1>1, SMTT(30) DEF Has, st
<1>3. ASSUME NEW part, Has(s, part)
      PROVE  Has(st, part)
  <2>1. PICK at \in Nat : \A a \in 1..Len(part) : at + a \in 1..Len(s) /\ s[at + a] = part[a]
    BY <1>3 DEF Has
  <2>2. \A a \in 1..Len(part) : at + a \in 1..Len(st) /\ st[at + a] = part[a]
    BY <1>1, <2>1 DEF st
  <2> QED BY <2>2 DEF Has
<1> QED BY <1>2, <1>3 DEF st

\* FlattenSeq loses nothing.
LEMMA FlattenHas ==
  ASSUME NEW X, NEW N \in Nat \ {0}, NEW seqs \in [1..N -> Seq(X)]
  PROVE  FlattenSeq(seqs) \in Seq(X) /\ \A v \in 1..N : Has(FlattenSeq(seqs), seqs[v])
<1>0. Flattens(X, N, seqs)
  BY FlattenGoes
<1>1. PICK f \in [1..N -> Seq(X)] :
         /\ f[1] = seqs[1] /\ \A k \in 2..N : f[k] = f[k - 1] \o seqs[k]
         /\ FlattenSeq(seqs) = f[N]
  BY <1>0 DEF Flattens
<1> DEFINE All(n) == \A v \in 1..n : Has(f[n], seqs[v])
           S == {n \in Nat : n + 1 <= N => All(n + 1)}
<1>2. \A k \in 1..N : f[k] \in Seq(X) /\ seqs[k] \in Seq(X)
  OBVIOUS
<1>3. All(1)
  <2>1. \A a \in 1..Len(seqs[1]) : 0 + a = a
    BY <1>2
  <2>2. Has(f[1], seqs[1])
    BY <1>1, <2>1 DEF Has
  <2> QED BY <2>2
<1>4. ASSUME NEW n \in Nat, n \in S
      PROVE  n + 1 \in S
  <2> DEFINE k == n + 1
  <2> SUFFICES ASSUME k + 1 <= N PROVE All(k + 1)
    OBVIOUS
  <2>1. k + 1 \in 2..N /\ k + 1 - 1 = k /\ k \in 1..N /\ k + 1 \in 1..N
    OBVIOUS
  <2>2. f[k + 1] = f[k] \o seqs[k + 1]
    <3> DEFINE j == k + 1
    <3>1. j \in 2..N /\ j - 1 = k
      BY <2>1
    <3> HIDE DEF j
    <3>2. f[j] = f[k] \o seqs[j]
      BY <1>1, <3>1
    <3> QED BY <3>2 DEF j
  <2>3. All(k)
    BY <1>4, <2>1
  <2>4. Has(f[k + 1], seqs[k + 1]) /\ \A v \in 1..k : Has(f[k + 1], seqs[v])
    BY <1>2, <2>1, <2>2, <2>3, HasJoined
  <2>5. \A v \in 1..k + 1 : v \in 1..k \/ v = k + 1
    BY <2>1
  <2> QED BY <2>4, <2>5
<1>5. 0 \in S
  BY <1>3
<1> HIDE DEF S
<1>6. Nat \subseteq S
  BY <1>4, <1>5, Induction
<1>7. N - 1 \in S /\ N - 1 + 1 = N /\ N <= N /\ N \in 1..N
  BY <1>6
<1>8. All(N)
  BY <1>7 DEF S
<1> QED BY <1>1, <1>2, <1>7, <1>8

\* One sequence begins with another.
Begins(t, s) == Len(s) <= Len(t) /\ \A i \in 1..Len(s) : t[i] = s[i]

\* The hints of a storyline are numbers, finitely many of them.
LEMMA HintsFinite ==
  ASSUME NEW tier, NEW v
  PROVE  /\ Len(Hints) \in Nat /\ DOMAIN Hints = 1..Len(Hints)
         /\ HintsOf(tier, v) \subseteq 1..Len(Hints) /\ IsFiniteSet(HintsOf(tier, v))
         /\ \A i \in HintsOf(tier, v) : Hints[i].tier = tier /\ Hints[i].volume = v
<1>1. Len(Hints) \in Nat /\ DOMAIN Hints = 1..Len(Hints)
  BY CompileAssumption
<1>2. IsFiniteSet(1..Len(Hints))
  BY <1>1, FS_Interval
<1>3. /\ HintsOf(tier, v) \subseteq 1..Len(Hints)
      /\ \A i \in HintsOf(tier, v) : Hints[i].tier = tier /\ Hints[i].volume = v
  BY <1>1 DEF HintsOf
<1> QED BY <1>1, <1>2, <1>3, FS_Subset

\* Every hint has a place of its own among storylines of its volume.
Placed(H, many, volumeOf, v) ==
  \E place \in [H -> 1..many] :
     /\ \A h \in H : volumeOf[place[h]] = v
     /\ \A g, h \in H : place[g] = place[h] => g = h

\* Every beat that was pinned to a volume is among the pinned ones.
LEMMA PinsPlaced ==
  ASSUME NEW v \in 1..Len(volumes), Len(volumes) \in Nat
  PROVE  Placed(HintsOf("B", v), Len(PinnedBeats), PinnedBeats, v)
<1> DEFINE W == 1..Len(volumes)
           N == Len(Hints)
           H == HintsOf("B", v)
<1>1. PICK f \in [0..N -> Seq(W)] :
         /\ f[0] = <<>> /\ \A k \in 1..N : f[k] = Pin(f[k - 1], Hints[k])
         /\ PinnedBeats = f[N]
  <2>1. Pinning
    BY PinnedFold
  <2> QED BY <2>1 DEF Pinning
<1>2. /\ N \in Nat /\ H \subseteq 1..N
      /\ \A i \in H : Hints[i].tier = "B" /\ Hints[i].volume = v
  BY HintsFinite
<1>3. \A k \in 0..N : f[k] \in Seq(W) /\ Len(f[k]) \in Nat
  OBVIOUS
<1> HIDE DEF N, H
<1>4. ASSUME NEW k \in 1..N
      PROVE  /\ Begins(f[k], f[k - 1])
             /\ k \in H => Len(f[k]) = Len(f[k - 1]) + 1 /\ f[k][Len(f[k])] = v
  <2> DEFINE s == f[k - 1]
             h == Hints[k]
             longer == Append(s, h.volume)
  <2>1. s \in Seq(W) /\ f[k] = Pin(s, h)
    BY <1>1, <1>2, <1>3
  <2> HIDE DEF s, h
  <2>2. Begins(s, s)
    BY <2>1 DEF Begins
  <2>3. Begins(longer, s) /\ Len(longer) = Len(s) + 1 /\ longer[Len(longer)] = h.volume
    BY <2>1 DEF Begins
  <2>4. f[k] = IF h.tier = "B" /\ h.volume \in W THEN longer ELSE s
    BY <2>1 DEF Pin
  <2>5. k \in H => h.tier = "B" /\ h.volume = v
    BY <1>2 DEF h
  <2> HIDE DEF longer, W
  <2>6. v \in W
    BY DEF W
  <2>7. Begins(f[k], s) /\ (k \in H => Len(f[k]) = Len(s) + 1 /\ f[k][Len(f[k])] = v)
    BY <2>2, <2>3, <2>4, <2>5, <2>6
  <2> QED BY <2>7 DEF s
<1> DEFINE S == {m \in Nat : \A j \in 0..N : j + m <= N => Begins(f[j + m], f[j])}
<1>5. 0 \in S
  <2> SUFFICES ASSUME NEW j \in 0..N PROVE Begins(f[j + 0], f[j])
    OBVIOUS
  <2>1. j + 0 = j /\ f[j] \in Seq(W)
    BY <1>2, <1>3
  <2> QED BY <2>1 DEF Begins
<1>6. ASSUME NEW m \in Nat, m \in S
      PROVE  m + 1 \in S
  <2> SUFFICES ASSUME NEW j \in 0..N, j + (m + 1) <= N PROVE Begins(f[j + (m + 1)], f[j])
    OBVIOUS
  <2> DEFINE k == j + (m + 1)
  <2>1. k \in 1..N /\ k - 1 = j + m /\ j + m <= N /\ j + m \in 0..N /\ k \in 0..N
    BY <1>2
  <2>2. Begins(f[j + m], f[j])
    BY <1>6, <2>1
  <2> HIDE DEF k
  <2>3. Begins(f[k], f[j + m])
    BY <1>4, <2>1
  <2>4. Begins(f[k], f[j])
    <3> DEFINE a == f[j]
               b == f[j + m]
               c == f[k]
    <3>1. Len(a) \in Nat /\ Len(b) \in Nat /\ Len(c) \in Nat
      BY <1>3, <2>1
    <3> HIDE DEF a, b, c
    <3>2. Begins(b, a) /\ Begins(c, b)
      BY <2>2, <2>3 DEF a, b, c
    <3>3. Begins(c, a)
      BY <3>1, <3>2 DEF Begins
    <3> QED BY <3>3 DEF a, c
  <2> QED BY <2>4 DEF k
<1> HIDE DEF S
<1>7. Nat \subseteq S
  BY <1>5, <1>6, Induction
<1>8. ASSUME NEW j \in 0..N, NEW k \in 0..N, j <= k
      PROVE  Begins(f[k], f[j])
  <2> DEFINE m == k - j
  <2>1. m \in Nat /\ j + m = k /\ j + m <= N
    BY <1>2, <1>8
  <2> HIDE DEF m
  <2>2. m \in S
    BY <1>7, <2>1
  <2> QED BY <2>1, <2>2 DEF S
<1> DEFINE place == [h \in H |-> Len(f[h])]
           M == Len(f[N])
<1>9. ASSUME NEW h \in H
      PROVE  Len(f[h]) \in 1..M /\ f[N][Len(f[h])] = v
  <2>1. h \in 1..N /\ h - 1 \in 0..N /\ h \in 0..N /\ N \in 0..N /\ h <= N
    BY <1>2
  <2>2. Len(f[h]) = Len(f[h - 1]) + 1 /\ f[h][Len(f[h])] = v
    BY <1>4, <2>1
  <2>3. Len(f[h]) \in Nat /\ Len(f[h - 1]) \in Nat /\ M \in Nat
    BY <1>3, <2>1
  <2>4. Begins(f[N], f[h])
    BY <1>8, <2>1
  <2>5. Len(f[h]) \in 1..Len(f[h]) /\ Len(f[h]) \in 1..M
    BY <2>2, <2>3, <2>4 DEF Begins
  <2> QED BY <2>2, <2>4, <2>5 DEF Begins
<1>10. ASSUME NEW g \in H, NEW h \in H, g < h
       PROVE  Len(f[g]) < Len(f[h])
  <2>1. g \in 0..N /\ h \in 1..N /\ h - 1 \in 0..N /\ g <= h - 1 /\ h \in 0..N
    BY <1>2, <1>10
  <2>2. Len(f[h]) = Len(f[h - 1]) + 1
    BY <1>4, <2>1
  <2>3. Begins(f[h - 1], f[g])
    BY <1>8, <2>1
  <2>4. Len(f[g]) \in Nat /\ Len(f[h - 1]) \in Nat /\ Len(f[g]) <= Len(f[h - 1])
    BY <1>3, <2>1, <2>3 DEF Begins
  <2> QED BY <2>2, <2>4
<1>11. ASSUME NEW g \in H, NEW h \in H, Len(f[g]) = Len(f[h])
       PROVE  g = h
  <2>1. g \in 1..N /\ h \in 1..N
    BY <1>2
  <2>2. ~(g < h) /\ ~(h < g)
    <3>1. Len(f[g]) \in Nat /\ Len(f[h]) \in Nat
      BY <1>3, <2>1
    <3> QED BY <1>10, <1>11, <3>1
  <2> QED BY <1>2, <2>1, <2>2
<1>12. place \in [H -> 1..M]
  BY <1>9
<1>13. \A h \in H : f[N][place[h]] = v
  BY <1>9
<1>14. \A g, h \in H : place[g] = place[h] => g = h
  BY <1>11
<1>15. PinnedBeats = f[N]
  BY <1>1
<1> HIDE DEF place
<1>16. Placed(H, M, f[N], v)
  BY <1>12, <1>13, <1>14 DEF Placed
<1> QED BY <1>15, <1>16 DEF H

\* What a storyline takes of the hints nobody has taken yet.
Left(m) == {i \in DOMAIN Hints : \A p \in m : p[1] # i}
Take(m, t) == m \cup {<<i, t.volume>> : i \in NextHint(Left(m), t.tier, t.volume)}
TakerRecords == [tier : {"S", "A", "B"}, volume : Nat]
Pairs == (DOMAIN Hints) \X Nat
Taking(l) ==
  \E f \in [0..Len(Takers(l)) -> SUBSET Pairs] :
     /\ f[0] = {} /\ \A k \in 1..Len(Takers(l)) : f[k] = Take(f[k - 1], Takers(l)[k])
     /\ Matched(l) = f[Len(Takers(l))]

\* A storyline takes hints of its own kind, for its volume or for none, and no other.
LEMMA NextHintFacts ==
  ASSUME NEW left, NEW tier, NEW v, NEW i \in NextHint(left, tier, v)
  PROVE  /\ i \in left /\ i \in DOMAIN Hints
         /\ Hints[i].volume = v \/ Hints[i].volume = 0
BY DEF NextHint, FirstOf, HintsOf

\* It takes one for its volume if there is one.
LEMMA NextHintThere ==
  ASSUME NEW left, NEW tier, NEW v, left \cap HintsOf(tier, v) # {}
  PROVE  \E i \in left \cap HintsOf(tier, v) : i \in NextHint(left, tier, v)
<1> DEFINE H == left \cap HintsOf(tier, v)
<1>1. H \subseteq Nat
  <2>1. HintsOf(tier, v) \subseteq 1..Len(Hints) /\ Len(Hints) \in Nat
    BY HintsFinite
  <2> QED BY <2>1
<1>2. PICK i \in H : \A j \in H : i <= j
  BY <1>1, LeastNumber
<1>3. NextHint(left, tier, v) = FirstOf(H)
  BY DEF NextHint
<1> QED BY <1>2, <1>3 DEF FirstOf

\* What is taken is a hint.
LEMMA TakeTyped ==
  ASSUME NEW m \in SUBSET Pairs, NEW t \in TakerRecords
  PROVE  Take(m, t) \in SUBSET Pairs
<1>1. t.volume \in Nat
  BY DEF TakerRecords
<1>2. \A i \in NextHint(Left(m), t.tier, t.volume) : i \in DOMAIN Hints
  BY NextHintFacts
<1> QED BY <1>1, <1>2 DEF Take, Pairs

\* Storyline after storyline takes its hint.
LEMMA MatchedFold ==
  ASSUME NEW l, Takers(l) \in Seq(TakerRecords)
  PROVE  Taking(l)
<1> DEFINE sq == Takers(l)
           N == Len(Takers(l))
           T == SUBSET Pairs
           base == {}
           Step(x, e) == Take(x, e)
           G == [p \in (1..N) \X T |-> Step(p[2], sq[p[1]])]
           iter == CHOOSE h : h = [t \in SUBSET DOMAIN sq |->
                      IF t = {} THEN base ELSE Step(h[t \ {Max(t)}], sq[Max(t)])]
<1>1. Matched(l) = iter[DOMAIN sq]
  BY Zenon DEF Matched, Take, Left, FoldLeft, MapThenFoldSet
<1>2. N \in Nat /\ DOMAIN sq = 1..N
  OBVIOUS
<1>3. base \in T
  OBVIOUS
<1>4. \A k \in 1..N, x \in T : Step(x, sq[k]) \in T
  BY TakeTyped
<1> HIDE DEF sq, N, base, Step
<1>5. G \in [(1..N) \X T -> T]
  BY <1>2, <1>4
<1>6. \A k \in 1..N, x \in T : G[<<k, x>>] = Step(x, sq[k])
  OBVIOUS
<1> HIDE DEF T, G
<1>7. PICK h \in [SUBSET (1..N) -> T] : Iterates(h, G, base, N)
  BY <1>2, <1>3, <1>5, IterationExists
<1>8. \A t \in SUBSET (1..N) : t # {} => Max(t) \in 1..N /\ t \ {Max(t)} \in SUBSET (1..N)
  BY <1>2, MaxIsElement
<1>9. h = [t \in SUBSET (1..N) |-> IF t = {} THEN base ELSE Step(h[t \ {Max(t)}], sq[Max(t)])]
  BY <1>6, <1>7, <1>8 DEF Iterates
<1>10. iter = [t \in SUBSET (1..N) |->
                 IF t = {} THEN base ELSE Step(iter[t \ {Max(t)}], sq[Max(t)])]
  <2>1. iter = CHOOSE x : x = [t \in SUBSET (1..N) |->
                      IF t = {} THEN base ELSE Step(x[t \ {Max(t)}], sq[Max(t)])]
    BY <1>2
  <2> HIDE DEF iter
  <2> QED BY <1>9, <2>1
<1> HIDE DEF iter
<1>11. Folds(iter, T, G, base, N)
  BY <1>6, <1>8, <1>10 DEF Folds
<1>12. FoldsTo(T, G, base, N, iter[1..N])
  BY <1>2, <1>3, <1>5, <1>11, IterationSteps
<1>13. PICK f \in [0..N -> T] :
          /\ f[0] = base /\ iter[1..N] = f[N]
          /\ \A k \in 1..N : f[k] = G[<<k, f[k - 1]>>]
  BY <1>12 DEF FoldsTo, Steps
<1>14. \A k \in 1..N : f[k] = Step(f[k - 1], sq[k])
  <2>1. \A k \in 1..N : k - 1 \in 0..N
    BY <1>2
  <2> QED BY <1>6, <1>13, <2>1
<1>15. Matched(l) = f[N]
  BY <1>1, <1>2, <1>13
<1> QED BY <1>13, <1>14, <1>15 DEF N, T, base, sq, Step, Taking

\* What is taken of a hint for a volume is taken for that volume.
TakenRight(m) == \A p \in m : Hints[p[1]].volume = p[2] \/ Hints[p[1]].volume = 0

\* Nothing that is taken is given back, and it is taken for the right volume.
LEMMA TakeFacts ==
  ASSUME NEW m, NEW t
  PROVE  /\ m \subseteq Take(m, t)
         /\ TakenRight(m) => TakenRight(Take(m, t))
<1> DEFINE v == t.volume
           N == NextHint(Left(m), t.tier, v)
<1>1. Take(m, t) = m \cup {<<i, v>> : i \in N}
  BY DEF Take
<1>2. \A i \in N : Hints[i].volume = v \/ Hints[i].volume = 0
  BY NextHintFacts
<1> HIDE DEF N, v
<1> QED BY <1>1, <1>2 DEF TakenRight

\* When as many storylines as it has hints look for those of a volume, every one is taken.
LEMMA HintTaken ==
  ASSUME NEW l, Takers(l) \in Seq(TakerRecords), NEW tier, NEW v \in Nat \ {0},
         NEW place \in [HintsOf(tier, v) -> 1..Len(Takers(l))],
         \A h \in HintsOf(tier, v) :
           Takers(l)[place[h]].tier = tier /\ Takers(l)[place[h]].volume = v,
         \A g, h \in HintsOf(tier, v) : place[g] = place[h] => g = h,
         NEW i \in HintsOf(tier, v)
  PROVE  <<i, v>> \in Matched(l)
<1> DEFINE N == Len(Takers(l))
           t(k) == Takers(l)[k]
           H == HintsOf(tier, v)
           Free(m) == Left(m) \cap H
<1> SUFFICES ASSUME <<i, v>> \notin Matched(l) PROVE FALSE
  OBVIOUS
<1>1. PICK f \in [0..N -> SUBSET Pairs] :
         /\ f[0] = {} /\ \A k \in 1..N : f[k] = Take(f[k - 1], t(k))
         /\ Matched(l) = f[N]
  <2>1. Taking(l)
    BY MatchedFold
  <2> QED BY <2>1 DEF Taking
<1>2. N \in Nat /\ IsFiniteSet(H) /\ H \subseteq DOMAIN Hints /\ \A h \in H : Hints[h].volume = v
  BY HintsFinite
<1>3. /\ \A h \in H : place[h] \in 1..N /\ t(place[h]).tier = tier /\ t(place[h]).volume = v
      /\ \A g, h \in H : place[g] = place[h] => g = h
      /\ i \in H /\ v # 0
  OBVIOUS
<1> HIDE DEF N, H, t
<1> DEFINE S == {n \in Nat : n <= N => TakenRight(f[n])}
<1>4. 0 \in S
  BY <1>1 DEF TakenRight
<1>5. ASSUME NEW n \in Nat, n \in S
      PROVE  n + 1 \in S
  <2> DEFINE k == n + 1
  <2> SUFFICES ASSUME k <= N PROVE TakenRight(f[k])
    OBVIOUS
  <2>1. k \in 1..N /\ k - 1 = n /\ n <= N
    BY <1>2
  <2>2. TakenRight(f[n])
    BY <1>5, <2>1
  <2> HIDE DEF k
  <2>3. f[k] = Take(f[n], t(k))
    BY <1>1, <2>1
  <2> QED BY <2>2, <2>3, TakeFacts
<1> HIDE DEF S
<1>6. Nat \subseteq S
  BY <1>4, <1>5, Induction
<1>7. \A k \in 0..N : TakenRight(f[k])
  <2>1. \A k \in 0..N : k \in Nat /\ k <= N
    BY <1>2
  <2> QED BY <1>6, <2>1 DEF S
<1> DEFINE U == {m \in Nat : \A j \in 0..N : j + m <= N => f[j] \subseteq f[j + m]}
<1>8. 0 \in U
  OBVIOUS
<1>9. ASSUME NEW m \in Nat, m \in U
      PROVE  m + 1 \in U
  <2> SUFFICES ASSUME NEW j \in 0..N, j + (m + 1) <= N PROVE f[j] \subseteq f[j + (m + 1)]
    OBVIOUS
  <2> DEFINE k == j + (m + 1)
  <2>1. k \in 1..N /\ k - 1 = j + m /\ j + m <= N
    BY <1>2
  <2>2. f[j] \subseteq f[j + m]
    BY <1>9, <2>1
  <2> HIDE DEF k
  <2>3. f[k] = Take(f[j + m], t(k))
    BY <1>1, <2>1
  <2>4. f[j + m] \subseteq f[k]
    BY <2>3, TakeFacts
  <2> QED BY <2>2, <2>4 DEF k
<1> HIDE DEF U
<1>10. Nat \subseteq U
  BY <1>8, <1>9, Induction
<1>11. ASSUME NEW j \in 0..N, NEW k \in 0..N, j <= k
       PROVE  f[j] \subseteq f[k]
  <2> DEFINE m == k - j
  <2>1. m \in Nat /\ j + m = k /\ j + m <= N
    BY <1>2, <1>11
  <2> HIDE DEF m
  <2>2. m \in U
    BY <1>10, <2>1
  <2> QED BY <2>1, <2>2 DEF U
\* The hint is never taken, so that everyone who looks for it finds something.
<1>12. ASSUME NEW k \in 0..N
       PROVE  i \in Free(f[k])
  <2>1. \A p \in f[k] : p[1] # i
    <3> SUFFICES ASSUME NEW p \in f[k], p[1] = i PROVE FALSE
      OBVIOUS
    <3>1. k <= N /\ N \in 0..N
      BY <1>2
    <3>2. p \in f[N] /\ p \in Pairs
      BY <1>1, <1>11, <3>1
    <3>3. p = <<i, p[2]>>
      BY <3>2 DEF Pairs
    <3>4. Hints[i].volume = v /\ (Hints[p[1]].volume = p[2] \/ Hints[p[1]].volume = 0)
      BY <1>2, <1>3, <1>7 DEF TakenRight
    <3>5. p[2] = v
      BY <1>3, <3>4
    <3> QED BY <1>1, <3>2, <3>3, <3>5
  <2> QED BY <1>2, <1>3, <2>1 DEF Left
<1> DEFINE Got(k, h) == h \in Free(f[k - 1]) /\ <<h, v>> \in f[k]
<1>13. ASSUME NEW k \in 1..N, t(k).tier = tier, t(k).volume = v
       PROVE  \E h \in H : Got(k, h)
  <2>1. k - 1 \in 0..N
    BY <1>2
  <2>2. Left(f[k - 1]) \cap HintsOf(tier, v) # {}
    BY <1>12, <2>1 DEF H
  <2>3. PICK h \in Left(f[k - 1]) \cap H : h \in NextHint(Left(f[k - 1]), tier, v)
    BY <2>2, NextHintThere DEF H
  <2>4. f[k] = Take(f[k - 1], t(k))
    BY <1>1
  <2>5. Take(f[k - 1], t(k))
          = f[k - 1] \cup {<<j, v>> : j \in NextHint(Left(f[k - 1]), tier, v)}
    BY <1>13 DEF Take
  <2> QED BY <2>3, <2>4, <2>5
<1>14. \A h \in H : \E g \in H : Got(place[h], g)
  BY <1>3, <1>13
<1> DEFINE got == [h \in H |-> CHOOSE g \in H : Got(place[h], g)]
<1>15. ASSUME NEW h \in H
       PROVE  got[h] \in H /\ Got(place[h], got[h])
  BY <1>14
<1>16. got \in [H -> H]
  BY <1>15
<1> HIDE DEF got
<1>17. ASSUME NEW h \in H
       PROVE  got[h] # i
  <2>1. place[h] \in 0..N
    BY <1>2, <1>3
  <2>2. i \in Left(f[place[h]])
    BY <1>12, <2>1
  <2>3. <<got[h], v>> \in f[place[h]]
    BY <1>15
  <2> QED BY <2>2, <2>3 DEF Left
<1>18. ASSUME NEW g \in H, NEW h \in H, place[g] < place[h]
       PROVE  got[g] # got[h]
  <2> DEFINE j == place[g]
             k == place[h]
  <2>1. j \in 0..N /\ k - 1 \in 0..N /\ j <= k - 1
    BY <1>2, <1>3, <1>18
  <2>2. <<got[g], v>> \in f[j] /\ got[h] \in Left(f[k - 1])
    BY <1>15
  <2> HIDE DEF j, k
  <2>3. <<got[g], v>> \in f[k - 1]
    BY <1>11, <2>1, <2>2
  <2> QED BY <2>2, <2>3 DEF Left
<1>19. ASSUME NEW g \in H, NEW h \in H, got[g] = got[h]
       PROVE  g = h
  <2>1. place[g] \in 1..N /\ place[h] \in 1..N
    BY <1>3
  <2>2. place[g] = place[h]
    BY <1>2, <1>18, <1>19, <2>1
  <2> QED BY <1>3, <2>2
<1> DEFINE R == H \ {i}
<1>20. got \in Injection(H, R)
  <2>1. got \in [H -> R]
    <3>1. \A h \in H : got[h] \in R
      BY <1>15, <1>17
    <3> HIDE DEF R
    <3> QED BY <1>16, <3>1
  <2>2. IsInjective(got)
    BY <1>19, <2>1 DEF IsInjective
  <2> QED BY <2>1, <2>2 DEF Injection
<1>21. IsFiniteSet(R) /\ Cardinality(R) = Cardinality(H) - 1 /\ Cardinality(H) \in Nat
  BY <1>2, <1>3, FS_RemoveElement, FS_CardinalityType
<1> HIDE DEF R
<1>22. Cardinality(H) <= Cardinality(R)
  BY <1>20, <1>21, FS_Injection
<1> QED BY <1>21, <1>22

\* A storyline that takes hints, and as many of a volume as there are.
Taker(tier, v) == [tier |-> tier, volume |-> v]
ArcTakers(l, v) == [a \in 1..l.arcs[v] |-> Taker("A", v)]
BeatTakers(l) == [b \in DOMAIN l.beats |-> Taker("B", l.beats[b])]

\* The storylines that take hints are those of the story.
LEMMA TakersFacts ==
  ASSUME NEW l, LinesOf(l)
  PROVE  /\ Takers(l) \in Seq(TakerRecords)
         /\ \A v \in 1..VolumeCount : Has(Takers(l), ArcTakers(l, v))
         /\ Has(Takers(l), BeatTakers(l))
<1> DEFINE T == TakerRecords
           V == VolumeCount
           s == [i \in 1..l.s |-> Taker("S", 0)]
           arcs == [v \in 1..V |-> ArcTakers(l, v)]
           b == BeatTakers(l)
<1>1. V \in Nat \ {0}
  BY CompileAssumption
<1>2. /\ l.s \in Nat
      /\ \A v \in 1..V : l.arcs[v] \in Nat /\ v \in Nat
      /\ DOMAIN l.arcs = 1..V
      /\ DOMAIN l.beats = 1..Len(l.beats) /\ Len(l.beats) \in Nat
      /\ \A i \in 1..Len(l.beats) : l.beats[i] \in 1..V
  <2>1. l.s \in 1..2 /\ l.arcs \in [1..V -> Nat] /\ l.beats \in Seq(1..V)
    BY DEF LinesOf
  <2> HIDE DEF V
  <2>2. \A v \in 1..V : l.arcs[v] \in Nat /\ v \in Nat
    BY <1>1, <2>1
  <2>3. DOMAIN l.beats = 1..Len(l.beats) /\ Len(l.beats) \in Nat
        /\ \A i \in 1..Len(l.beats) : l.beats[i] \in 1..V
    <3> DEFINE q == l.beats
               W == 1..V
    <3>1. q \in Seq(W)
      BY <2>1
    <3> HIDE DEF q, W
    <3>2. DOMAIN q = 1..Len(q) /\ Len(q) \in Nat /\ \A i \in 1..Len(q) : q[i] \in W
      BY <3>1
    <3> QED BY <3>2 DEF q, W
  <2> QED BY <2>1, <2>2, <2>3
<1>3. \A tier \in {"S", "A", "B"}, v \in Nat : Taker(tier, v) \in T
  BY DEF Taker, TakerRecords
<1>4. Takers(l) = (s \o FlattenSeq(arcs)) \o b
  BY <1>2 DEF Takers, Taker, ArcTakers, BeatTakers
<1> HIDE DEF V
<1>5. s \in Seq(T)
  <2>1. s \in [1..l.s -> T]
    BY <1>3
  <2> QED BY <1>2, <2>1, ArrayIsSeq
<1>6. arcs \in [1..V -> Seq(T)]
  <2>1. ASSUME NEW v \in 1..V
        PROVE  ArcTakers(l, v) \in Seq(T)
    <3>1. ArcTakers(l, v) \in [1..l.arcs[v] -> T]
      BY <1>2, <1>3 DEF ArcTakers
    <3> QED BY <1>2, <3>1, ArrayIsSeq
  <2> QED BY <2>1
<1>7. b \in Seq(T)
  <2> DEFINE n == Len(l.beats)
  <2>1. \A i \in 1..n : l.beats[i] \in Nat
    BY <1>1, <1>2
  <2>2. b = [i \in 1..n |-> Taker("B", l.beats[i])]
    BY <1>2 DEF BeatTakers
  <2>3. b \in [1..n -> T]
    BY <1>3, <2>1, <2>2
  <2> QED BY <1>2, <2>3, ArrayIsSeq
<1>8. \A v \in 1..V : arcs[v] = ArcTakers(l, v)
  OBVIOUS
<1> HIDE DEF T, s, arcs, b
<1>9. FlattenSeq(arcs) \in Seq(T) /\ \A v \in 1..V : Has(FlattenSeq(arcs), arcs[v])
  BY <1>1, <1>6, FlattenHas
<1> DEFINE m == FlattenSeq(arcs)
           sm == s \o m
<1>10. m \in Seq(T) /\ sm \in Seq(T)
  BY <1>5, <1>9
<1>11. \A part : Has(m, part) => m \in Seq(T)
  BY <1>10
<1> HIDE DEF m
<1>12. Has(sm, m)
  BY <1>5, <1>10, HasJoined
<1>13. \A part : Has(m, part) => Has(sm, part)
  <2>1. PICK at \in Nat : \A a \in 1..Len(m) : at + a \in 1..Len(sm) /\ sm[at + a] = m[a]
    BY <1>12 DEF Has
  <2> SUFFICES ASSUME NEW part, Has(m, part) PROVE Has(sm, part)
    OBVIOUS
  <2>2. PICK in \in Nat : \A a \in 1..Len(part) : in + a \in 1..Len(m) /\ m[in + a] = part[a]
    BY DEF Has
  <2> DEFINE to == at + in
  <2>3. ASSUME NEW a \in 1..Len(part)
        PROVE  to + a \in 1..Len(sm) /\ sm[to + a] = part[a]
    <3> DEFINE c == in + a
    <3>1. c \in 1..Len(m) /\ m[c] = part[a]
      BY <2>2
    <3>2. at + c \in 1..Len(sm) /\ sm[at + c] = m[c]
      BY <2>1, <3>1
    <3>3. a \in Int
      OBVIOUS
    <3>4. to + a = at + c
      BY <3>3
    <3> QED BY <3>1, <3>2, <3>4
  <2>4. to \in Nat
    OBVIOUS
  <2> HIDE DEF to
  <2> QED BY <2>3, <2>4 DEF Has
<1> HIDE DEF sm
<1>14. Has(sm \o b, b) /\ \A part : Has(sm, part) => Has(sm \o b, part)
  BY <1>7, <1>10, HasJoined
<1>15. sm \o b \in Seq(T)
  BY <1>7, <1>10
<1>16. Takers(l) = sm \o b
  BY <1>4 DEF sm, m
<1>17. \A v \in 1..V : Has(m, arcs[v])
  BY <1>9 DEF m
<1>18. \A v \in 1..V : Has(Takers(l), ArcTakers(l, v))
  BY <1>8, <1>13, <1>14, <1>16, <1>17
<1>19. Has(Takers(l), b) /\ Takers(l) \in Seq(T)
  BY <1>14, <1>15, <1>16
<1> QED BY <1>18, <1>19 DEF T, V, b

\* What can be counted with some numbers has a place of its own among them.
LEMMA CountedIsPlaced ==
  ASSUME NEW H, IsFiniteSet(H), NEW n \in Nat, Cardinality(H) <= n
  PROVE  \E place \in [H -> 1..n] : \A g, h \in H : place[g] = place[h] => g = h
<1> DEFINE c == Cardinality(H)
<1>1. c \in Nat
  BY FS_CardinalityType
<1>2. ExistsBijection(H, 1..c)
  <2> DEFINE D == 1..c
  <2>1. IsFiniteSet(D) /\ Cardinality(D) = Cardinality(H)
    BY <1>1, FS_Interval
  <2> HIDE DEF D
  <2>2. ExistsBijection(H, D)
    BY <2>1, FS_SameCardinalityBij
  <2> QED BY <2>2 DEF D
<1>3. PICK p \in [H -> 1..c] : IsInjective(p)
  BY <1>2 DEF ExistsBijection, Bijection, Injection
<1>4. p \in [H -> 1..n]
  BY <1>1
<1> QED BY <1>3, <1>4 DEF IsInjective

\* There are storylines for all the author pinned.
Room(l) ==
  \A v \in 1..VolumeCount :
    /\ Cardinality(HintsOf("A", v)) <= l.arcs[v]
    /\ Placed(HintsOf("B", v), Len(l.beats), l.beats, v)

\* Every hint of a volume is taken when storylines that look for it have places for all of them.
LEMMA PlacedIsTaken ==
  ASSUME NEW l, Takers(l) \in Seq(TakerRecords), NEW part, Has(Takers(l), part),
         NEW tier, NEW v \in Nat \ {0},
         NEW place \in [HintsOf(tier, v) -> 1..Len(part)], Len(part) \in Nat,
         \A h \in HintsOf(tier, v) : part[place[h]] = Taker(tier, v),
         \A g, h \in HintsOf(tier, v) : place[g] = place[h] => g = h,
         NEW i \in HintsOf(tier, v)
  PROVE  <<i, v>> \in Matched(l)
<1> DEFINE H == HintsOf(tier, v)
           N == Len(Takers(l))
<1>1. PICK at \in Nat : \A a \in 1..Len(part) :
         at + a \in 1..N /\ Takers(l)[at + a] = part[a]
  BY DEF Has
<1> DEFINE to == [h \in H |-> at + place[h]]
<1>2. ASSUME NEW h \in H
      PROVE  to[h] \in 1..N /\ Takers(l)[to[h]].tier = tier /\ Takers(l)[to[h]].volume = v
  <2> DEFINE a == place[h]
  <2>1. a \in 1..Len(part) /\ part[a] = Taker(tier, v)
    OBVIOUS
  <2>2. to[h] = at + a
    OBVIOUS
  <2> HIDE DEF a, to
  <2>3. Takers(l)[to[h]] = Taker(tier, v) /\ to[h] \in 1..N
    BY <1>1, <2>1, <2>2
  <2> QED BY <2>3 DEF Taker
<1>3. ASSUME NEW g \in H, NEW h \in H, to[g] = to[h]
      PROVE  g = h
  <2>1. place[g] \in Int /\ place[h] \in Int
    OBVIOUS
  <2>2. place[g] = place[h]
    BY <1>3, <2>1
  <2> QED BY <2>2
<1>4. to \in [H -> 1..N]
  <2> HIDE DEF N
  <2> QED BY <1>1
<1> HIDE DEF to
<1> QED BY <1>2, <1>3, <1>4, HintTaken

\* With room for them all, every hint the author pinned to a volume of the story is taken.
LEMMA RoomForAll ==
  ASSUME NEW l, LinesOf(l), Room(l), NEW v \in 1..VolumeCount, NEW tier \in {"A", "B"},
         NEW i \in HintsOf(tier, v)
  PROVE  <<i, v>> \in Matched(l)
<1>1. VolumeCount \in Nat /\ v \in Nat \ {0}
  BY CompileAssumption
<1>2. CASE tier = "A"
  <2> DEFINE n == l.arcs[v]
             part == ArcTakers(l, v)
             H == HintsOf("A", v)
             kind == "A"
  <2>1. n \in Nat /\ IsFiniteSet(H) /\ Cardinality(H) <= n
    BY HintsFinite DEF LinesOf, Room
  <2> HIDE DEF n, H
  <2>2. PICK place \in [H -> 1..n] : \A g, h \in H : place[g] = place[h] => g = h
    BY <2>1, CountedIsPlaced
  <2>3. part = [a \in 1..n |-> Taker("A", v)] /\ Len(part) = n
    BY <2>1 DEF ArcTakers, n
  <2>4. \A h \in H : part[place[h]] = Taker("A", v)
    BY <2>3
  <2>5. Takers(l) \in Seq(TakerRecords) /\ Has(Takers(l), part)
    BY TakersFacts
  <2> HIDE DEF part
  <2>6. kind = tier /\ H = HintsOf(kind, v)
    BY <1>2 DEF H
  <2>7. \A h \in H : part[place[h]] = Taker(kind, v)
    BY <2>4
  <2> HIDE DEF kind
  <2>8. place \in [HintsOf(kind, v) -> 1..Len(part)] /\ Len(part) \in Nat
    BY <2>1, <2>2, <2>3, <2>6
  <2> QED BY <1>1, <2>2, <2>5, <2>6, <2>7, <2>8, PlacedIsTaken
<1>3. CASE tier = "B"
  <2> DEFINE part == BeatTakers(l)
             n == Len(l.beats)
             H == HintsOf("B", v)
             kind == "B"
  <2>1. n \in Nat /\ DOMAIN l.beats = 1..n
    BY DEF LinesOf
  <2>2. Placed(H, n, l.beats, v)
    BY DEF Room
  <2> HIDE DEF n, H
  <2>3. PICK place \in [H -> 1..n] :
           /\ \A h \in H : l.beats[place[h]] = v
           /\ \A g, h \in H : place[g] = place[h] => g = h
    BY <2>2 DEF Placed
  <2>4. part = [b \in 1..n |-> Taker("B", l.beats[b])] /\ Len(part) = n
    BY <2>1 DEF BeatTakers
  <2>5. \A h \in H : part[place[h]] = Taker("B", v)
    BY <2>3, <2>4
  <2>6. Takers(l) \in Seq(TakerRecords) /\ Has(Takers(l), part)
    BY TakersFacts
  <2> HIDE DEF part
  <2>7. kind = tier /\ H = HintsOf(kind, v)
    BY <1>3 DEF H
  <2>8. \A h \in H : part[place[h]] = Taker(kind, v)
    BY <2>5
  <2> HIDE DEF kind
  <2>9. place \in [HintsOf(kind, v) -> 1..Len(part)] /\ Len(part) \in Nat
    BY <2>1, <2>3, <2>4, <2>7
  <2>10. \A g, h \in HintsOf(kind, v) : place[g] = place[h] => g = h
    BY <2>3, <2>7
  <2>11. i \in HintsOf(kind, v) /\ \A h \in HintsOf(kind, v) : part[place[h]] = Taker(kind, v)
    BY <2>7, <2>8
  <2> QED BY <1>1, <2>6, <2>9, <2>10, <2>11, PlacedIsTaken
<1> QED BY <1>2, <1>3

\* _build_fishbone_storylines: the storylines that are built have room for what the author pinned.
LEMMA BuiltWithRoom ==
  ASSUME Len(volumes) = VolumeCount, NEW l, NEW arcs, NEW many \in Nat,
         Len(PinnedBeats) <= many,
         \A v \in 1..VolumeCount : arcs[v] \in Nat,
         l.arcs = [v \in 1..VolumeCount |-> Greater(arcs[v], Cardinality(HintsOf("A", v)))],
         l.beats = BeatVolumes(many)
  PROVE  Room(l)
<1> SUFFICES ASSUME NEW v \in 1..VolumeCount
             PROVE  /\ Cardinality(HintsOf("A", v)) <= l.arcs[v]
                    /\ Placed(HintsOf("B", v), Len(l.beats), l.beats, v)
  BY DEF Room
<1>1. Cardinality(HintsOf("A", v)) <= l.arcs[v]
  <2>1. Cardinality(HintsOf("A", v)) \in Nat /\ arcs[v] \in Nat
    BY HintsCounted
  <2>2. l.arcs[v] = Greater(arcs[v], Cardinality(HintsOf("A", v)))
    OBVIOUS
  <2> QED BY <2>1, <2>2 DEF Greater
<1> DEFINE H == HintsOf("B", v)
           pins == PinnedBeats
<1>2. Len(pins) \in Nat
  BY PinnedTyped
<1>3. Placed(H, Len(pins), pins, v)
  <2>1. v \in 1..Len(volumes) /\ Len(volumes) \in Nat
    BY CompileAssumption
  <2> QED BY <2>1, PinsPlaced
<1>4. Len(l.beats) = many /\ \A i \in 1..Len(pins) : l.beats[i] = pins[i]
  <2> DEFINE e(i) == IF i <= Len(pins) THEN pins[i]
                     ELSE ((i - Len(pins) - 1) % Len(volumes)) + 1
  <2>1. l.beats = [i \in 1..many |-> e(i)]
    BY DEF BeatVolumes
  <2>2. \A i \in 1..Len(pins) : i \in 1..many /\ e(i) = pins[i]
    BY <1>2
  <2> HIDE DEF e
  <2> QED BY <2>1, <2>2
<1> HIDE DEF H, pins
<1>5. PICK place \in [H -> 1..Len(pins)] :
         /\ \A h \in H : pins[place[h]] = v
         /\ \A g, h \in H : place[g] = place[h] => g = h
  BY <1>3 DEF Placed
<1>6. place \in [H -> 1..many]
  <2>1. 1..Len(pins) \subseteq 1..many
    BY <1>2 DEF pins
  <2> QED BY <2>1
<1>7. \A h \in H : l.beats[place[h]] = v
  BY <1>4, <1>5
<1>8. Placed(H, Len(l.beats), l.beats, v)
  BY <1>4, <1>5, <1>6, <1>7 DEF Placed
<1> QED BY <1>1, <1>8 DEF H

-----------------------------------------------------------------------------
(* What the nodes are like.  A main storyline, and side arcs that hang on it. *)

\* A list goes on with the beats of a chain.
Links(new, list, v, line, first, length) ==
  /\ Begins(new, list) /\ Len(new) = Len(list) + length
  /\ \A n \in (Len(list) + 1)..Len(new) :
       new[n] = Beat(v, line, IF n = Len(list) + 1 THEN first ELSE {n - 1})

\* That is what a chain is.
LEMMA ChainLinks ==
  ASSUME NEW W, NEW list \in Lists(W), NEW v, NEW line, NEW first, NEW length \in Nat
  PROVE  Links(Chain(list, v, line, first, length), list, v, line, first, length)
<1> DEFINE L == Len(list)
           e(i) == Beat(v, line, IF i = 1 THEN first ELSE {L + i - 1})
           more == [i \in 1..length |-> e(i)]
           new == list \o more
<1>1. L \in Nat /\ list \in Seq(NodesOf(W))
  BY ListFacts
<1>2. Chain(list, v, line, first, length) = new
  BY DEF Chain
<1> DEFINE X == NodesOf(W) \cup {e(i) : i \in 1..length}
<1>3. list \in Seq(X) /\ more \in Seq(X) /\ Len(more) = length
  <2>1. more \in [1..length -> X]
    OBVIOUS
  <2>2. NodesOf(W) \subseteq X
    OBVIOUS
  <2>5. Len(more) = length
    <3> HIDE DEF X
    <3> QED BY <2>1
  <2> HIDE DEF X, more
  <2>3. more \in Seq(X)
    BY <2>1, ArrayIsSeq
  <2>4. list \in Seq(X)
    BY <1>1, <2>2
  <2> QED BY <2>3, <2>4, <2>5
<1> HIDE DEF X
<1>4. Len(new) = L + length /\ \A n \in 1..L : new[n] = list[n]
  <2> HIDE DEF more
  <2> QED BY <1>1, <1>3
<1>5. \A n \in (L + 1)..(L + length) : new[n] = e(n - L)
  <2> SUFFICES ASSUME NEW n \in (L + 1)..(L + length) PROVE new[n] = e(n - L)
    OBVIOUS
  <2>1. n - L \in 1..length /\ n > L
    BY <1>1
  <2>2. new[n] = more[n - L]
    <3> HIDE DEF more
    <3> QED BY <1>1, <1>3, <2>1
  <2> HIDE DEF e, new, L
  <2> QED BY <2>1, <2>2
<1>6. \A n \in (L + 1)..(L + length) :
        e(n - L) = Beat(v, line, IF n = L + 1 THEN first ELSE {n - 1})
  <2>1. \A n \in (L + 1)..(L + length) : (n - L = 1 <=> n = L + 1) /\ L + (n - L) - 1 = n - 1
    BY <1>1
  <2> QED BY <2>1
<1> HIDE DEF e, more, L
<1>7. Begins(new, list)
  BY <1>1, <1>4 DEF Begins, L
<1> HIDE DEF new
<1>8. Links(new, list, v, line, first, length)
  BY <1>4, <1>5, <1>6, <1>7 DEF Links, L
<1> QED BY <1>2, <1>8

\* What goes on with a list goes on with what the list goes on with.
LEMMA BeginsOn ==
  ASSUME NEW X, NEW r \in Seq(X), NEW s \in Seq(X), NEW t \in Seq(X), Begins(s, r), Begins(t, s)
  PROVE  Begins(t, r)
<1>1. Len(r) \in Nat /\ Len(s) \in Nat /\ Len(t) \in Nat
  OBVIOUS
<1> QED BY <1>1 DEF Begins

\* The main storyline: every anchor comes behind the one before it, in its volume.
Spine(anchors, V, list) ==
  /\ FirstMain(anchors, 1) = 1 /\ LastMain(anchors, V) = Len(MainLine(anchors))
  /\ \A v \in 1..V : v < V => FirstMain(anchors, v + 1) = LastMain(anchors, v) + 1
  /\ \A v \in 1..V : \A n \in FirstMain(anchors, v)..LastMain(anchors, v) :
       list[n] = Beat(v, Main, {n - 1} \ {0})
  /\ \A n \in 1..Len(MainLine(anchors)) :
       \E v \in 1..V : n \in FirstMain(anchors, v)..LastMain(anchors, v)

\* The main storyline goes on with the anchors of a volume.
LEMMA OnwardLinks ==
  ASSUME NEW V \in Nat, NEW anchors \in AnchorCounts(V), NEW list \in Lists(1..V), NEW v \in 1..V
  PROVE  /\ Begins(Onward(anchors, list, v), list)
         /\ Len(Onward(anchors, list, v)) = Len(list) + anchors[v]
         /\ \A n \in (Len(list) + 1)..(Len(list) + anchors[v]) :
              Onward(anchors, list, v)[n] = Beat(v, Main, {n - 1} \ {0})
<1> DEFINE W == 1..V
           L == Len(list)
           first == IF list = <<>> THEN {} ELSE {L}
           length == anchors[v]
           new == Onward(anchors, list, v)
<1>1. list \in Lists(W) /\ length \in Nat /\ new = Chain(list, v, Main, first, length)
  BY DEF AnchorCounts, Onward
<1>2. L \in Nat /\ (list = <<>> <=> L = 0)
  <2>1. list \in Seq(NodesOf(W)) /\ L \in Nat
    BY ListFacts
  <2> HIDE DEF W
  <2> QED BY <2>1
<1>3. first = {L} \ {0}
  BY <1>2
<1> HIDE DEF first, W, length, new
<1>4. Links(new, list, v, Main, first, length)
  BY <1>1, ChainLinks
<1> HIDE DEF L
<1>5. Begins(new, list) /\ Len(new) = L + length
      /\ \A n \in (L + 1)..(L + length) :
           new[n] = Beat(v, Main, IF n = L + 1 THEN first ELSE {n - 1})
  BY <1>4 DEF Links, L
<1>6. \A n \in (L + 1)..(L + length) :
        (IF n = L + 1 THEN first ELSE {n - 1}) = {n - 1} \ {0}
  <2> SUFFICES ASSUME NEW n \in (L + 1)..(L + length)
               PROVE  (IF n = L + 1 THEN first ELSE {n - 1}) = {n - 1} \ {0}
    OBVIOUS
  <2>1. CASE n = L + 1
    <3>1. n - 1 = L
      BY <1>2, <2>1
    <3> QED BY <1>3, <2>1, <3>1
  <2>2. CASE n # L + 1
    <3>1. n - 1 # 0
      BY <1>2, <2>2
    <3> QED BY <2>2, <3>1
  <2> QED BY <2>1, <2>2
<1>7. \A n \in (L + 1)..(L + length) : new[n] = Beat(v, Main, {n - 1} \ {0})
  BY <1>5, <1>6
<1> QED BY <1>5, <1>7 DEF L, length, new

\* The main storyline grows volume by volume, each of which has its anchors in one piece.
Growing(anchors, V, f) ==
  /\ f[0] = <<>> /\ MainLine(anchors) = f[V]
  /\ \A v \in 1..V : f[v] = Onward(anchors, f[v - 1], v)
  /\ \A v \in 0..V : Len(f[v]) \in Nat /\ Len(f[v]) <= Len(f[V])
  /\ \A v \in 1..V : /\ FirstMain(anchors, v) = Len(f[v - 1]) + 1
                     /\ LastMain(anchors, v) = Len(f[v])
                     /\ Len(f[v]) = Len(f[v - 1]) + anchors[v]

\* It does.
LEMMA MainLineGrows ==
  ASSUME NEW V \in Nat \ {0}, NEW anchors \in AnchorCounts(V)
  PROVE  \E f \in [0..V -> Lists(1..V)] : Growing(anchors, V, f)
<1>1. PICK f \in [0..V -> Lists(1..V)] :
         /\ f[0] = <<>> /\ \A k \in 1..V : f[k] = Onward(anchors, f[k - 1], k)
         /\ MainLine(anchors) = f[V]
  BY MainLineFold
<1> DEFINE L == [k \in 0..V |-> Len(f[k])]
<1>2. L \in [0..V -> Int]
  <2>1. \A k \in 0..V : Len(f[k]) \in Nat
    <3>1. \A k \in 0..V : f[k] \in Lists(1..V)
      OBVIOUS
    <3> QED BY <3>1, ListFacts
  <2> QED BY <2>1
<1>3. \A k \in 1..V : L[k] = L[k - 1] + anchors[k]
  <2> SUFFICES ASSUME NEW k \in 1..V PROVE L[k] = L[k - 1] + anchors[k]
    OBVIOUS
  <2>1. k - 1 \in 0..V /\ k \in 0..V
    OBVIOUS
  <2>2. f[k] = Onward(anchors, f[k - 1], k) /\ f[k - 1] \in Lists(1..V)
    BY <1>1, <2>1
  <2>3. Len(f[k]) = Len(f[k - 1]) + anchors[k]
    BY <2>2, OnwardTyped
  <2> QED BY <2>1, <2>3
<1>4. L[0] = 0 /\ L[V] = Len(MainLine(anchors))
  BY <1>1
<1> HIDE DEF L
<1>5. anchors \in Seq(Nat) /\ Len(anchors) = V /\ \A k \in 1..V : anchors[k] \in Nat \ {0}
  BY DEF AnchorCounts
<1>6. \A k \in 0..V : 0 <= L[k] /\ L[k] <= L[V]
  BY <1>2, <1>3, <1>4, <1>5, SumGrows
<1>7. ASSUME NEW v \in 1..V
      PROVE  MainsBefore(anchors, v) = L[v - 1]
  <2>1. PICK g \in [0..(v - 1) -> Nat] :
            /\ g[0] = 0 /\ \A k \in 1..(v - 1) : g[k] = g[k - 1] + anchors[k]
            /\ MainsBefore(anchors, v) = g[v - 1]
    BY MainsFold
  <2> DEFINE S == {k \in Nat : k <= v - 1 => g[k] = L[k]}
  <2>2. 0 \in S
    BY <1>4, <2>1
  <2>3. ASSUME NEW k \in Nat, k \in S
        PROVE  k + 1 \in S
    <3> SUFFICES ASSUME k + 1 <= v - 1 PROVE g[k + 1] = L[k + 1]
      OBVIOUS
    <3>1. k + 1 \in 1..(v - 1) /\ k + 1 - 1 = k /\ k + 1 \in 1..V /\ k <= v - 1
      OBVIOUS
    <3>2. g[k + 1] = g[k + 1 - 1] + anchors[k + 1] /\ L[k + 1] = L[k + 1 - 1] + anchors[k + 1]
      BY <1>3, <2>1, <3>1
    <3> QED BY <2>3, <3>1, <3>2
  <2> HIDE DEF S
  <2>4. Nat \subseteq S
    BY <2>2, <2>3, Induction
  <2>5. v - 1 \in Nat /\ v - 1 <= v - 1
    OBVIOUS
  <2>6. g[v - 1] = L[v - 1]
    BY <2>4, <2>5 DEF S
  <2> QED BY <2>1, <2>6
<1>8. ASSUME NEW v \in 1..V
      PROVE  FirstMain(anchors, v) = L[v - 1] + 1 /\ LastMain(anchors, v) = L[v]
  <2>1. FirstMain(anchors, v) = L[v - 1] + 1 /\ LastMain(anchors, v) = L[v - 1] + anchors[v]
    BY <1>7 DEF FirstMain, LastMain
  <2> QED BY <1>3, <2>1
<1>9. \A v \in 0..V : L[v] = Len(f[v]) /\ L[v] \in Int
  BY <1>2 DEF L
<1>10. \A v \in 1..V : v \in 0..V /\ v - 1 \in 0..V
  OBVIOUS
<1>11. \A v \in 0..V : Len(f[v]) \in Nat /\ Len(f[v]) <= Len(f[V])
  <2>1. V \in 0..V
    OBVIOUS
  <2> QED BY <1>6, <1>9, <2>1
<1>12. \A v \in 1..V : /\ FirstMain(anchors, v) = Len(f[v - 1]) + 1
                       /\ LastMain(anchors, v) = Len(f[v])
                       /\ Len(f[v]) = Len(f[v - 1]) + anchors[v]
  BY <1>3, <1>8, <1>9, <1>10
<1> QED BY <1>1, <1>11, <1>12 DEF Growing

\* _build_fishbone_anchor_nodes: what the main storyline is.
LEMMA MainLineIs ==
  ASSUME NEW V \in Nat \ {0}, NEW anchors \in AnchorCounts(V)
  PROVE  Spine(anchors, V, MainLine(anchors))
<1>1. PICK f \in [0..V -> Lists(1..V)] : Growing(anchors, V, f)
  BY MainLineGrows
<1> DEFINE Done(k) ==
             \A v \in 1..k : \A n \in (Len(f[v - 1]) + 1)..Len(f[v]) :
               f[k][n] = Beat(v, Main, {n - 1} \ {0})
           Found(k) == \A n \in 1..Len(f[k]) : \E v \in 1..k : n \in (Len(f[v - 1]) + 1)..Len(f[v])
           S == {k \in Nat : k <= V => Done(k) /\ Found(k)}
<1>2. /\ f[0] = <<>> /\ \A v \in 1..V : f[v] = Onward(anchors, f[v - 1], v)
      /\ \A v \in 0..V : Len(f[v]) \in Nat
      /\ \A v \in 1..V : Len(f[v]) = Len(f[v - 1]) + anchors[v]
  BY <1>1 DEF Growing
<1>3. 0 \in S
  BY <1>2
<1>4. ASSUME NEW n \in Nat, n \in S
      PROVE  n + 1 \in S
  <2> DEFINE k == n + 1
  <2> SUFFICES ASSUME k <= V PROVE Done(k) /\ Found(k)
    BY SMTT(30)
  <2>1. k \in 1..V /\ k - 1 = n /\ n <= V /\ n \in 0..V /\ k \in Nat
    OBVIOUS
  <2>2. Done(n) /\ Found(n)
    BY <1>4, <2>1
  <2>3. f[n] \in Lists(1..V) /\ Len(f[n]) \in Nat /\ Len(f[k]) = Len(f[n]) + anchors[k]
        /\ f[k] = Onward(anchors, f[n], k)
    BY <1>2, <2>1
  <2>4. /\ Begins(f[k], f[n])
        /\ \A i \in (Len(f[n]) + 1)..Len(f[k]) : f[k][i] = Beat(k, Main, {i - 1} \ {0})
    BY <2>1, <2>3, OnwardLinks, SMTT(30)
  <2>5. \A v \in 1..k : v = k \/ (v \in 1..n /\ v \in 0..V /\ v - 1 \in 0..V)
    BY <2>1
  <2>6. ASSUME NEW v \in 1..n, NEW i \in (Len(f[v - 1]) + 1)..Len(f[v])
        PROVE  i \in 1..Len(f[n])
    <3>1. i \in 1..Len(f[v]) /\ Len(f[v]) \in Nat
      BY <1>2, <2>1
    <3>2. Len(f[v]) <= Len(f[n])
      <4> DEFINE T == {j \in Nat : v + j <= n => Len(f[v]) <= Len(f[v + j])}
      <4>1. 0 \in T
        BY <3>1
      <4>2. ASSUME NEW j \in Nat, j \in T
            PROVE  j + 1 \in T
        <5> DEFINE m == v + (j + 1)
        <5> SUFFICES ASSUME m <= n PROVE Len(f[v]) <= Len(f[m])
          OBVIOUS
        <5>1. m \in 1..V /\ m - 1 = v + j /\ v + j <= n /\ v + j \in 0..V
          BY <2>1
        <5>2. Len(f[v]) <= Len(f[v + j])
          BY <4>2, <5>1
        <5> HIDE DEF m
        <5>3. Len(f[m]) = Len(f[v + j]) + anchors[m] /\ anchors[m] \in Nat
              /\ Len(f[v + j]) \in Nat
          BY <1>2, <5>1 DEF AnchorCounts
        <5> QED BY <3>1, <5>2, <5>3
      <4> HIDE DEF T
      <4>3. Nat \subseteq T
        BY <4>1, <4>2, Induction
      <4>4. n - v \in Nat /\ v + (n - v) = n /\ n <= n
        BY <2>1
      <4>5. n - v \in T
        BY <4>3, <4>4
      <4> DEFINE d == n - v
      <4>6. d \in T /\ v + d = n
        BY <4>4, <4>5
      <4> HIDE DEF d
      <4> QED BY <4>4, <4>6 DEF T
    <3> QED BY <2>3, <3>1, <3>2
  <2>7. Done(k)
    <3> SUFFICES ASSUME NEW v \in 1..k, NEW i \in (Len(f[v - 1]) + 1)..Len(f[v])
                 PROVE  f[k][i] = Beat(v, Main, {i - 1} \ {0})
      OBVIOUS
    <3>1. CASE v = k
      BY <2>1, <2>4, <3>1
    <3>2. CASE v \in 1..n
      <4>1. f[n][i] = Beat(v, Main, {i - 1} \ {0})
        BY <2>2, <3>2
      <4>2. i \in 1..Len(f[n])
        BY <2>6, <3>2
      <4> QED BY <2>4, <4>1, <4>2 DEF Begins
    <3> QED BY <2>5, <3>1, <3>2
  <2>8. Found(k)
    <3> SUFFICES ASSUME NEW i \in 1..Len(f[k])
                 PROVE  \E v \in 1..k : i \in (Len(f[v - 1]) + 1)..Len(f[v])
      OBVIOUS
    <3>1. CASE i <= Len(f[n])
      <4>1. PICK v \in 1..n : i \in (Len(f[v - 1]) + 1)..Len(f[v])
        BY <2>2, <2>3, <3>1
      <4>2. v \in 1..k
        OBVIOUS
      <4> QED BY <4>1, <4>2
    <3>2. CASE i > Len(f[n])
      <4>1. i \in (Len(f[n]) + 1)..Len(f[k]) /\ k \in 1..k
        BY <2>1, <2>3, <3>2
      <4>2. i \in (Len(f[k - 1]) + 1)..Len(f[k])
        BY <2>1, <4>1
      <4> HIDE DEF k
      <4> QED BY <4>1, <4>2
    <3> QED BY <2>3, <3>1, <3>2
  <2> QED BY <2>7, <2>8
<1> HIDE DEF S
<1>5. Nat \subseteq S
  BY <1>3, <1>4, Induction
<1>6. V \in S /\ V <= V
  BY <1>5
<1>7. Done(V) /\ Found(V)
  BY <1>6 DEF S
<1> HIDE DEF Done, Found
<1>8. /\ MainLine(anchors) = f[V]
      /\ \A v \in 1..V : FirstMain(anchors, v) = Len(f[v - 1]) + 1 /\ LastMain(anchors, v) = Len(f[v])
  BY <1>1 DEF Growing
<1>9. FirstMain(anchors, 1) = 1 /\ LastMain(anchors, V) = Len(MainLine(anchors))
  <2>1. 1 \in 1..V /\ V \in 1..V /\ 1 - 1 = 0
    OBVIOUS
  <2>2. Len(f[0]) = 0
    BY <1>2
  <2> QED BY <1>8, <2>1, <2>2
<1>10. \A v \in 1..V : v < V => FirstMain(anchors, v + 1) = LastMain(anchors, v) + 1
  <2> SUFFICES ASSUME NEW v \in 1..V, v < V
               PROVE  FirstMain(anchors, v + 1) = LastMain(anchors, v) + 1
    OBVIOUS
  <2> DEFINE w == v + 1
  <2>1. w \in 1..V /\ w - 1 = v
    OBVIOUS
  <2> HIDE DEF w
  <2>2. FirstMain(anchors, w) = Len(f[v]) + 1
    BY <1>8, <2>1
  <2> QED BY <1>8, <2>2 DEF w
<1>11. \A v \in 1..V : \A n \in FirstMain(anchors, v)..LastMain(anchors, v) :
         MainLine(anchors)[n] = Beat(v, Main, {n - 1} \ {0})
  BY <1>7, <1>8 DEF Done
<1>12. \A n \in 1..Len(MainLine(anchors)) :
         \E v \in 1..V : n \in FirstMain(anchors, v)..LastMain(anchors, v)
  BY <1>7, <1>8 DEF Found
<1> QED BY <1>9, <1>10, <1>11, <1>12 DEF Spine

\* A beat is what it was made from.
LEMMA BeatFields ==
  ASSUME NEW v, NEW line, NEW deps
  PROVE  /\ Beat(v, line, deps).kind = "NORMAL" /\ Beat(v, line, deps).deps = deps
         /\ Beat(v, line, deps).volume = v /\ Beat(v, line, deps).line = line
<1> DEFINE m == line = Main
<1>1. Beat(v, line, deps)
        = [kind |-> "NORMAL", deps |-> deps, volume |-> v, main |-> m, line |-> line]
  BY DEF Beat
<1> HIDE DEF m
<1>2. /\ Beat(v, line, deps).kind = "NORMAL" /\ Beat(v, line, deps).deps = deps
      /\ Beat(v, line, deps).volume = v /\ Beat(v, line, deps).line = line
  BY <1>1
<1> QED BY <1>2

\* Beats of side arcs do not lie on the main storyline, and those of it do.
LEMMA BeatMain ==
  ASSUME NEW v, NEW line, NEW deps
  PROVE  Beat(v, line, deps).main <=> line = Main
<1> DEFINE m == line = Main
<1>1. Beat(v, line, deps)
        = [kind |-> "NORMAL", deps |-> deps, volume |-> v, main |-> m, line |-> line]
  BY DEF Beat
<1>2. m <=> line = Main
  OBVIOUS
<1> HIDE DEF m
<1>3. Beat(v, line, deps).main = m
  BY <1>1
<1>4. Beat(v, line, deps).main <=> m
  BY <1>3, Zenon
<1> QED BY <1>2, <1>4

\* What a node of the main storyline, a checkpoint and a node of a side arc depend on.  Of the
\* nodes that come later only short beats are gathered.
ShortNodes(list) == {m \in 1..Len(list) : Tier(list[m]) = "B"}
Trunk(list, n) ==
  /\ list[n].kind = "NORMAL" /\ list[n].line = Main /\ list[n].main
  /\ list[n].deps \subseteq 1..(n - 1)
Joint(list, n) ==
  /\ list[n].kind = "CHECKPOINT" /\ list[n].line = Main
  /\ list[n].deps \subseteq (1..(n - 1)) \cup ShortNodes(list)
Rib(M, list, n) ==
  /\ list[n].kind = "NORMAL" /\ Side(list[n]) /\ ~list[n].main
  /\ list[n].deps \subseteq 1..(n - 1)
  /\ \A m \in list[n].deps : list[m].line = Main \/ list[m].line = list[n].line
  /\ Tier(list[n]) = "B" => \A m \in list[n].deps : m <= M \/ list[m].line = list[n].line
Formed(M, list) ==
  \A n \in 1..Len(list) : IF n <= M THEN Trunk(list, n) ELSE Joint(list, n) \/ Rib(M, list, n)

\* A later node of the same storyline and volume comes behind a node.
Followed(list, n) ==
  \E m \in (n + 1)..Len(list) :
    /\ list[m].kind = "NORMAL" /\ list[m].volume = list[n].volume /\ list[m].line = list[n].line
    /\ n \in list[m].deps

\* A series arc goes on in a volume behind the checkpoint of the one before.
Staged(list, n) ==
  Tier(list[n]) = "S" /\ list[n].volume > 1 =>
    \E m \in list[n].deps :
      \/ list[m].kind = "CHECKPOINT" /\ list[m].volume = list[n].volume - 1
      \/ list[m].line = list[n].line /\ list[m].volume = list[n].volume

\* A checkpoint gathers what nobody follows in its volume, and more than one node.
Gathers(list, c) ==
  /\ \E m, n \in list[c].deps : m # n
  /\ \A n \in 1..Len(list) :
       /\ list[n].kind = "NORMAL" /\ list[n].volume = list[c].volume /\ Tier(list[n]) # "B"
       /\ ~Followed(list, n)
       => n \in list[c].deps

\* What has been built stands, with k checkpoints.
Sturdy(anchors, k, list) ==
  /\ Begins(list, MainLine(anchors)) /\ Formed(Len(MainLine(anchors)), list)
  /\ \A n \in 1..Len(list) : Staged(list, n)
  /\ \A c \in 1..Len(list) :
       list[c].kind = "CHECKPOINT" => list[c].volume <= k /\ Gathers(list, c)
  /\ \A v \in 1..k : \E c \in 1..Len(list) : list[c].kind = "CHECKPOINT" /\ list[c].volume = v

\* What a list goes on with leaves it as it was.
LEMMA BeginsKeeps ==
  ASSUME NEW W, NEW list \in Lists(W), NEW new \in Lists(W), Begins(new, list), NEW M \in Nat
  PROVE  /\ Len(list) \in Nat /\ Len(new) \in Nat /\ Len(list) <= Len(new)
         /\ \A n \in 1..Len(list) : /\ n \in 1..Len(new) /\ new[n] = list[n]
                                    /\ Followed(list, n) => Followed(new, n)
                                    /\ Staged(list, n) => Staged(new, n)
                                    /\ Trunk(list, n) => Trunk(new, n)
                                    /\ Joint(list, n) => Joint(new, n)
                                    /\ Rib(M, list, n) => Rib(M, new, n)
<1> DEFINE L == Len(list)
           K == Len(new)
<1>1. L \in Nat /\ K \in Nat /\ L <= K /\ \A n \in 1..L : n \in 1..K /\ new[n] = list[n]
  BY ListFacts DEF Begins
<1>2. \A n \in 1..L : list[n].deps \subseteq 1..L
  BY ListFacts
<1> HIDE DEF L, K
<1>3. ASSUME NEW n \in 1..L, Followed(list, n)
      PROVE  Followed(new, n)
  <2>1. PICK m \in (n + 1)..L :
           /\ list[m].kind = "NORMAL" /\ list[m].volume = list[n].volume
           /\ list[m].line = list[n].line /\ n \in list[m].deps
    BY <1>3 DEF Followed, L
  <2>2. m \in (n + 1)..K /\ m \in 1..L
    BY <1>1
  <2>3. new[m] = list[m] /\ new[n] = list[n]
    BY <1>1, <2>2
  <2> QED BY <2>1, <2>2, <2>3 DEF Followed, K
<1>4. ASSUME NEW n \in 1..L, Staged(list, n)
      PROVE  Staged(new, n)
  <2>1. new[n] = list[n] /\ \A m \in list[n].deps : new[m] = list[m]
    BY <1>1, <1>2
  <2> QED BY <1>4, <2>1 DEF Staged
<1>5. ASSUME NEW n \in 1..L, Trunk(list, n)
      PROVE  Trunk(new, n)
  BY <1>1, <1>5 DEF Trunk
<1>6. ASSUME NEW n \in 1..L, Joint(list, n)
      PROVE  Joint(new, n)
  <2>1. ShortNodes(list) \subseteq ShortNodes(new)
    BY <1>1 DEF ShortNodes, Tier, L, K
  <2> QED BY <1>1, <1>6, <2>1 DEF Joint
<1>7. ASSUME NEW n \in 1..L, Rib(M, list, n)
      PROVE  Rib(M, new, n)
  <2>1. new[n] = list[n] /\ \A m \in list[n].deps : new[m] = list[m]
    BY <1>1, <1>2
  <2> QED BY <1>7, <2>1 DEF Rib
<1> QED BY <1>1, <1>3, <1>4, <1>5, <1>6, <1>7 DEF L, K

\* What the nodes of a chain are like.
Fresh(list, v, line, length, new) ==
  /\ \A n \in (Len(list) + 1)..Len(new) :
       new[n].kind = "NORMAL" /\ new[n].volume = v /\ new[n].line = line
  /\ \A n \in (Len(list) + 1)..(Len(new) - 1) : Followed(new, n)
  /\ Len(new) = Len(list) + length

\* Where a chain may start.
Rooted(M, list, v, line, first) ==
  /\ \A m \in first : list[m].line = Main \/ list[m].line = line
  /\ line[1] = "B" => \A m \in first : m <= M
  /\ line[1] = "S" /\ v > 1 =>
       \E m \in first : list[m].kind = "CHECKPOINT" /\ list[m].volume = v - 1

\* A chain is followed to its end, and hangs on what it may hang on.
LEMMA ChainForms ==
  ASSUME NEW W, NEW list \in Lists(W), NEW new \in Lists(W), NEW v, NEW line,
         line # Main, line[1] \in {"S", "A", "B"}, NEW first \in SUBSET (1..Len(list)),
         NEW length \in Nat, Links(new, list, v, line, first, length),
         NEW M \in Nat, M <= Len(list), Rooted(M, list, v, line, first)
  PROVE  /\ Fresh(list, v, line, length, new)
         /\ \A n \in (Len(list) + 1)..Len(new) : Rib(M, new, n) /\ Staged(new, n)
<1> DEFINE L == Len(list)
           K == Len(new)
           deps(n) == IF n = L + 1 THEN first ELSE {n - 1}
<1>1. L \in Nat /\ K = L + length /\ \A n \in 1..L : new[n] = list[n]
  BY ListFacts DEF Links, Begins
<1>2. \A n \in (L + 1)..K : new[n] = Beat(v, line, deps(n))
  BY DEF Links
<1>3. ASSUME NEW n \in (L + 1)..K
      PROVE  /\ new[n].kind = "NORMAL" /\ new[n].deps = deps(n) /\ new[n].volume = v
             /\ new[n].line = line /\ ~new[n].main
  <2> DEFINE d == deps(n)
             b == Beat(v, line, d)
  <2>1. new[n] = b
    BY <1>2
  <2>2. b.kind = "NORMAL" /\ b.deps = d /\ b.volume = v /\ b.line = line
    BY BeatFields
  <2>3. b.main <=> line = Main
    BY BeatMain
  <2> HIDE DEF b
  <2>4. ~b.main
    BY <2>3
  <2> QED BY <2>1, <2>2, <2>4
<1>4. first \subseteq 1..L
  OBVIOUS
<1> HIDE DEF L, K, deps
<1>5. ASSUME NEW n \in (L + 1)..(K - 1)
      PROVE  Followed(new, n)
  <2> DEFINE m == n + 1
  <2>1. m \in (L + 1)..K /\ m \in (n + 1)..K /\ n \in (L + 1)..K /\ m # L + 1 /\ m - 1 = n
    BY <1>1
  <2> HIDE DEF m
  <2>2. new[m].deps = {m - 1}
    BY <1>3, <2>1 DEF deps
  <2>3. n \in new[m].deps
    BY <2>1, <2>2
  <2>4. new[m].kind = "NORMAL" /\ new[m].volume = new[n].volume /\ new[m].line = new[n].line
    BY <1>3, <2>1
  <2> QED BY <2>1, <2>3, <2>4 DEF Followed, K
<1>6. ASSUME NEW n \in (L + 1)..K
      PROVE  /\ deps(n) \subseteq 1..(n - 1)
             /\ \A m \in deps(n) : new[m].line = Main \/ new[m].line = line
             /\ line[1] = "B" => \A m \in deps(n) : m <= M \/ new[m].line = line
             /\ line[1] = "S" /\ v > 1 =>
                  \E m \in deps(n) :
                    \/ new[m].kind = "CHECKPOINT" /\ new[m].volume = v - 1
                    \/ new[m].line = line /\ new[m].volume = v
  <2>1. CASE n = L + 1
    <3>1. deps(n) = first /\ 1..L = 1..(n - 1)
      BY <1>1, <2>1 DEF deps
    <3>2. \A m \in first : new[m] = list[m]
      BY <1>1, <1>4
    <3>3. first \subseteq 1..(n - 1)
      BY <1>4, <3>1
    <3> QED BY <3>1, <3>2, <3>3 DEF Rooted
  <2>2. CASE n # L + 1
    <3> DEFINE m == n - 1
    <3>1. deps(n) = {m} /\ m \in 1..m /\ m \in (L + 1)..K
      BY <1>1, <2>2 DEF deps
    <3>2. new[m].line = line /\ new[m].volume = v
      BY <1>3, <3>1
    <3> QED BY <3>1, <3>2
  <2> QED BY <2>1, <2>2
<1>7. ASSUME NEW n \in (L + 1)..K
      PROVE  Rib(M, new, n)
  <2>1. Tier(new[n]) = line[1] /\ Side(new[n])
    BY <1>3 DEF Tier, Side
  <2> QED BY <1>3, <1>6, <2>1 DEF Rib
<1>8. ASSUME NEW n \in (L + 1)..K
      PROVE  Staged(new, n)
  <2>1. Tier(new[n]) = line[1]
    BY <1>3 DEF Tier
  <2> QED BY <1>3, <1>6, <2>1 DEF Staged
<1> QED BY <1>1, <1>3, <1>5, <1>7, <1>8 DEF Fresh, L, K

\* A chain for a volume that has no checkpoint yet, or of short beats, leaves standing what
\* stands.
LEMMA ChainSturdy ==
  ASSUME NEW W, NEW anchors, NEW k \in Nat, NEW list \in Lists(W), NEW new \in Lists(W),
         Sturdy(anchors, k, list), NEW v \in Nat, NEW line,
         line # Main, line[1] \in {"S", "A", "B"}, NEW first \in SUBSET (1..Len(list)),
         NEW length \in Nat, Links(new, list, v, line, first, length),
         NEW M \in Nat, M = Len(MainLine(anchors)), Rooted(M, list, v, line, first),
         line[1] = "B" \/ k < v, W \subseteq Int, MainLine(anchors) \in Lists(W)
  PROVE  Sturdy(anchors, k, new) /\ Fresh(list, v, line, length, new)
<1> DEFINE L == Len(list)
           K == Len(new)
<1>1. Begins(new, list)
  BY DEF Links
<1>2. /\ L \in Nat /\ K \in Nat /\ L <= K
      /\ \A n \in 1..L : /\ n \in 1..K /\ new[n] = list[n]
                         /\ Followed(list, n) => Followed(new, n)
                         /\ Staged(list, n) => Staged(new, n)
                         /\ Trunk(list, n) => Trunk(new, n)
                         /\ Joint(list, n) => Joint(new, n)
                         /\ Rib(M, list, n) => Rib(M, new, n)
  BY <1>1, BeginsKeeps
<1>3. Begins(list, MainLine(anchors)) /\ M <= L
  BY DEF Sturdy, Begins
<1>4. /\ Fresh(list, v, line, length, new)
      /\ \A n \in (L + 1)..K : Rib(M, new, n) /\ Staged(new, n)
  BY <1>3, ChainForms
<1>5. /\ Formed(M, list) /\ \A n \in 1..L : Staged(list, n)
      /\ \A c \in 1..L : list[c].kind = "CHECKPOINT" => list[c].volume <= k /\ Gathers(list, c)
      /\ \A u \in 1..k : \E c \in 1..L : list[c].kind = "CHECKPOINT" /\ list[c].volume = u
  BY DEF Sturdy
<1>6. \A n \in (L + 1)..K : new[n].kind = "NORMAL" /\ new[n].volume = v /\ new[n].line = line
  BY <1>4 DEF Fresh
<1>7. Begins(new, MainLine(anchors))
  <2> DEFINE X == NodesOf(W)
  <2>1. MainLine(anchors) \in Seq(X) /\ list \in Seq(X) /\ new \in Seq(X)
    BY ListFacts
  <2> HIDE DEF X
  <2> QED BY <1>1, <1>3, <2>1, BeginsOn
<1> HIDE DEF L, K
<1>8. \A n \in 1..K : n \in 1..L \/ n \in (L + 1)..K
  BY <1>2
<1>9. Formed(M, new)
  <2> SUFFICES ASSUME NEW n \in 1..K
               PROVE  IF n <= M THEN Trunk(new, n) ELSE Joint(new, n) \/ Rib(M, new, n)
    BY DEF Formed, K
  <2>1. CASE n \in 1..L
    <3>1. IF n <= M THEN Trunk(list, n) ELSE Joint(list, n) \/ Rib(M, list, n)
      BY <1>5, <2>1 DEF Formed, L
    <3> QED BY <1>2, <2>1, <3>1
  <2>2. CASE n \in (L + 1)..K
    <3>1. ~(n <= M)
      BY <1>2, <1>3, <2>2
    <3> QED BY <1>4, <2>2, <3>1 DEF L, K
  <2> QED BY <1>8, <2>1, <2>2
<1>10. \A n \in 1..K : Staged(new, n)
  BY <1>2, <1>4, <1>5, <1>8 DEF L, K
<1>11. ASSUME NEW c \in 1..K, new[c].kind = "CHECKPOINT"
       PROVE  new[c].volume <= k /\ Gathers(new, c)
  <2>1. c \in 1..L
    BY <1>6, <1>8, <1>11
  <2>2. new[c] = list[c] /\ list[c].volume <= k /\ Gathers(list, c)
    BY <1>2, <1>5, <1>11, <2>1
  <2>3. ASSUME NEW n \in 1..K, new[n].kind = "NORMAL", new[n].volume = new[c].volume,
               Tier(new[n]) # "B", ~Followed(new, n)
        PROVE  n \in new[c].deps
    <3>1. CASE n \in 1..L
      <4>1. new[n] = list[n] /\ ~Followed(list, n)
        BY <1>2, <2>3, <3>1
      <4> QED BY <2>2, <2>3, <3>1, <4>1 DEF Gathers, L
    <3>2. CASE n \in (L + 1)..K
      <4>1. new[n].volume = v /\ Tier(new[n]) = line[1]
        BY <1>6, <3>2 DEF Tier
      <4>2. k < v /\ v <= k
        BY <2>2, <2>3, <4>1
      <4> QED BY <4>2
    <3> QED BY <1>8, <3>1, <3>2
  <2>4. \E m, n \in new[c].deps : m # n
    BY <2>2 DEF Gathers
  <2> QED BY <2>2, <2>3, <2>4 DEF Gathers, K
<1>12. \A u \in 1..k : \E c \in 1..K : new[c].kind = "CHECKPOINT" /\ new[c].volume = u
  BY <1>2, <1>5
<1>13. Sturdy(anchors, k, new)
  BY <1>7, <1>9, <1>10, <1>11, <1>12 DEF Sturdy, K
<1> QED BY <1>4, <1>13

-----------------------------------------------------------------------------
(* What is built, arc by arc and volume by volume. *)

\* What hangs on the main storyline of the volume after the k-th ends in the tails.
Loose(M, k, b) ==
  /\ \A t \in b.tails : t > M
  /\ \A n \in (M + 1)..Len(b.nodes) :
       /\ Tier(b.nodes[n]) # "B"
       /\ b.nodes[n].kind = "NORMAL" /\ b.nodes[n].volume > k =>
            b.nodes[n].volume = k + 1 /\ (Followed(b.nodes, n) \/ n \in b.tails)

\* The checkpoint is that of the k-th volume, and series arcs are where they have come to.
Marked(k, S, b) ==
  /\ b.checkpoint # 0 =>
       b.nodes[b.checkpoint].kind = "CHECKPOINT" /\ b.nodes[b.checkpoint].volume = k
  /\ \A s \in 1..S : b.series[s] # 0 => b.nodes[b.series[s]].line = Line("S", 0, s)
  /\ k > 0 => b.checkpoint # 0 /\ \A s \in 1..S : b.series[s] # 0

\* What has been built of k volumes and of the next one.
Woven(anchors, k, S, b) ==
  Sturdy(anchors, k, b.nodes) /\ Loose(Len(MainLine(anchors)), k, b) /\ Marked(k, S, b)

\* A side arc of the next volume leaves it so.
LEMMA AddChainWoven ==
  ASSUME NEW V \in Nat \ {0}, NEW anchors \in AnchorCounts(V), NEW S \in Nat,
         NEW M, M = Len(MainLine(anchors)), NEW b \in Builts(1..V, M, S), NEW k \in Nat,
         NEW v \in 1..V, v = k + 1, Woven(anchors, k, S, b),
         NEW line \in StoryLines, line # Main, line[1] \in {"S", "A"},
         NEW first \in SUBSET (1..Len(b.nodes)), NEW length \in Nat \ {0},
         Rooted(M, b.nodes, v, line, first),
         NEW new, new = AddChain(b, v, line, first, length)
  PROVE  /\ Woven(anchors, k, S, new) /\ new.tails # {} /\ Len(new.nodes) \in Nat \ {0}
         /\ new.nodes[Len(new.nodes)].line = line
<1> DEFINE W == 1..V
           list == b.nodes
           grown == Chain(list, v, line, first, length)
           L == Len(list)
           K == Len(grown)
<1>1. M \in Nat \ {0} /\ MainLine(anchors) \in Lists(W)
  BY MainLineFacts, ListFacts
<1>2. /\ list \in Lists(W) /\ L \in Nat /\ M <= L /\ b.checkpoint \in Nat /\ b.checkpoint <= L
      /\ b.tails \subseteq 1..L /\ b.series \in [1..S -> Nat]
      /\ \A s \in 1..S : b.series[s] <= L
  BY BuiltFacts
<1>3. v \in W /\ W \subseteq Int /\ v \in Nat /\ length \in Nat
  OBVIOUS
<1> HIDE DEF W, L
<1>4. Sturdy(anchors, k, list) /\ Loose(M, k, b) /\ Marked(k, S, b)
  BY DEF Woven
<1> HIDE DEF list
<1>5. first \in SUBSET (1..Len(list)) /\ Rooted(M, list, v, line, first)
  BY DEF list
<1> HIDE DEF grown
<1>side. line[1] \in {"S", "A", "B"} /\ (line[1] = "B" \/ k < v)
  OBVIOUS
<1>6. grown \in Lists(W)
  BY <1>2, <1>3, <1>5, ChainTyped DEF grown
<1>7. Links(grown, list, v, line, first, length)
  BY <1>2, <1>3, <1>5, ChainLinks DEF grown
<1>8. Sturdy(anchors, k, grown) /\ Fresh(list, v, line, length, grown)
  BY <1>1, <1>2, <1>3, <1>4, <1>5, <1>6, <1>7, <1>side, ChainSturdy
<1>9. Begins(grown, list)
  BY <1>7 DEF Links
<1>10. \A n \in 1..L : n \in 1..K /\ grown[n] = list[n] /\ (Followed(list, n) => Followed(grown, n))
  BY <1>1, <1>2, <1>6, <1>9, BeginsKeeps DEF L
<1>11. /\ \A n \in (L + 1)..K : grown[n].kind = "NORMAL" /\ grown[n].volume = v /\ grown[n].line = line
       /\ \A n \in (L + 1)..(K - 1) : Followed(grown, n)
       /\ K = L + length
  BY <1>8 DEF Fresh, L
<1>12. /\ new.nodes = grown /\ new.series = b.series /\ new.checkpoint = b.checkpoint
       /\ new.tails = b.tails \cup {K}
  BY DEF AddChain, grown, list
<1> HIDE DEF K
<1>13. Loose(M, k, new)
  <2>1. \A t \in new.tails : t > M
    <3>1. K > M /\ \A t \in b.tails : t > M
      BY <1>1, <1>2, <1>4, <1>11 DEF Loose
    <3> QED BY <1>12, <3>1
  <2>2. ASSUME NEW n \in (M + 1)..K
        PROVE  /\ Tier(grown[n]) # "B"
               /\ grown[n].kind = "NORMAL" /\ grown[n].volume > k =>
                    grown[n].volume = k + 1 /\ (Followed(grown, n) \/ n \in new.tails)
    <3>1. CASE n <= L
      <4>1. n \in (M + 1)..L /\ n \in 1..L
        BY <1>1, <1>2, <3>1
      <4>2. /\ Tier(list[n]) # "B"
            /\ list[n].kind = "NORMAL" /\ list[n].volume > k =>
                 list[n].volume = k + 1 /\ (Followed(list, n) \/ n \in b.tails)
        BY <1>4, <4>1 DEF Loose, list, L
      <4> QED BY <1>10, <1>12, <4>1, <4>2
    <3>2. CASE n > L
      <4>1. n \in (L + 1)..K /\ (n \in (L + 1)..(K - 1) \/ n = K)
        BY <1>1, <1>2, <1>11, <3>2
      <4>2. grown[n].volume = v /\ Tier(grown[n]) = line[1]
        BY <1>11, <4>1 DEF Tier
      <4>3. Followed(grown, n) \/ n \in new.tails
        BY <1>11, <1>12, <4>1
      <4> QED BY <4>2, <4>3
    <3> QED BY <1>1, <1>2, <3>1, <3>2
  <2> QED BY <1>12, <2>1, <2>2 DEF Loose, K
<1>14. Marked(k, S, new)
  <2>1. b.checkpoint # 0 => b.checkpoint \in 1..L
    BY <1>2
  <2>2. \A s \in 1..S : b.series[s] # 0 => b.series[s] \in 1..L
    <3> SUFFICES ASSUME NEW s \in 1..S, b.series[s] # 0 PROVE b.series[s] \in 1..L
      OBVIOUS
    <3>1. b.series[s] \in Nat /\ b.series[s] <= L
      BY <1>2
    <3> QED BY <1>2, <3>1
  <2>3. /\ b.checkpoint # 0 =>
             list[b.checkpoint].kind = "CHECKPOINT" /\ list[b.checkpoint].volume = k
        /\ \A s \in 1..S : b.series[s] # 0 => list[b.series[s]].line = Line("S", 0, s)
        /\ k > 0 => b.checkpoint # 0 /\ \A s \in 1..S : b.series[s] # 0
    BY <1>4 DEF Marked, list
  <2>4. b.checkpoint # 0 =>
             grown[b.checkpoint].kind = "CHECKPOINT" /\ grown[b.checkpoint].volume = k
    BY <1>10, <2>1, <2>3
  <2>5. \A s \in 1..S : b.series[s] # 0 => grown[b.series[s]].line = Line("S", 0, s)
    BY <1>10, <2>2, <2>3
  <2> QED BY <1>12, <2>3, <2>4, <2>5 DEF Marked
<1>15. Woven(anchors, k, S, new)
  BY <1>8, <1>12, <1>13, <1>14 DEF Woven
<1>16. K \in Nat \ {0} /\ K \in (L + 1)..K
  BY <1>2, <1>11
<1> QED BY <1>11, <1>12, <1>15, <1>16 DEF K

\* Side arcs by their tiers.
LEMMA SideLines ==
  ASSUME NEW tier \in {"S", "A", "B"}, NEW v, NEW i
  PROVE  Line(tier, v, i) # Main /\ Line(tier, v, i)[1] = tier
<1>1. Line(tier, v, i)[1] = tier /\ Main[1] = "MAIN"
  BY DEF Line, Main
<1> QED BY <1>1

\* What the nodes that are no beats are.
LEMMA FormedFacts ==
  ASSUME NEW M \in Nat, NEW list, Formed(M, list), NEW n \in 1..Len(list)
  PROVE  /\ list[n].kind \in {"NORMAL", "CHECKPOINT"}
         /\ list[n].kind = "CHECKPOINT" => list[n].line = Main /\ ~(n <= M) /\ Joint(list, n)
         /\ n <= M => Trunk(list, n)
         /\ list[n].kind = "NORMAL" /\ ~(n <= M) => Rib(M, list, n)
<1>1. IF n <= M THEN Trunk(list, n) ELSE Joint(list, n) \/ Rib(M, list, n)
  BY DEF Formed
<1>2. Trunk(list, n) => list[n].kind = "NORMAL"
  BY DEF Trunk
<1>3. Rib(M, list, n) => list[n].kind = "NORMAL"
  BY DEF Rib
<1>4. Joint(list, n) => list[n].kind = "CHECKPOINT" /\ list[n].line = Main
  BY DEF Joint
<1> QED BY <1>1, <1>2, <1>3, <1>4

\* A series arc goes on in the next volume.
LEMMA SeriesArcWoven ==
  ASSUME NEW V \in Nat \ {0}, NEW anchors \in AnchorCounts(V), NEW S \in Nat,
         NEW M, M = Len(MainLine(anchors)), NEW b \in Builts(1..V, M, S), NEW k \in Nat,
         NEW v \in 1..V, v = k + 1, Woven(anchors, k, S, b),
         NEW s \in 1..S, NEW length \in Nat \ {0},
         NEW new, new = SeriesArc(b, anchors, v, s, length)
  PROVE  /\ Woven(anchors, k, S, new) /\ new.tails # {}
         /\ \A i \in 1..S : i = s \/ b.series[i] # 0 => new.series[i] # 0
<1> DEFINE W == 1..V
           list == b.nodes
           L == Len(list)
           line == Line("S", 0, s)
           first == IF b.series[s] = 0 THEN {FirstMain(anchors, v)}
                    ELSE {b.series[s], b.checkpoint} \ {0}
           grown == AddChain(b, v, line, first, length)
           K == Len(grown.nodes)
<1>1. M \in Nat \ {0}
  BY MainLineFacts, ListFacts
<1>2. /\ L \in Nat /\ M <= L /\ b.checkpoint \in Nat /\ b.checkpoint <= L
      /\ b.series[s] \in Nat /\ b.series[s] <= L
  BY BuiltFacts
<1>3. FirstMain(anchors, v) \in 1..M
  <2>1. /\ FirstMain(anchors, v) \in Nat /\ FirstMain(anchors, v) >= 1
        /\ LastMain(anchors, v) \in Nat /\ LastMain(anchors, v) <= M
        /\ LastMain(anchors, v) = FirstMain(anchors, v) + anchors[v] - 1
    BY MainLineFacts
  <2>2. anchors[v] \in Nat \ {0}
    BY DEF AnchorCounts
  <2> QED BY <1>1, <2>1, <2>2
<1>4. Formed(M, list)
  BY DEF Woven, Sturdy
<1>5. /\ b.checkpoint # 0 => list[b.checkpoint].kind = "CHECKPOINT" /\ list[b.checkpoint].volume = k
      /\ b.series[s] # 0 => list[b.series[s]].line = line
      /\ k > 0 => b.checkpoint # 0 /\ b.series[s] # 0
  BY DEF Woven, Marked
<1>6. line \in StoryLines /\ line # Main /\ line[1] = "S"
  BY LinesTyped, SideLines
<1>7. new = [grown EXCEPT !.series[s] = K]
  BY DEF SeriesArc
<1> HIDE DEF L, line
<1>8. first \in SUBSET (1..L)
  <2>1. FirstMain(anchors, v) \in 1..L
    BY <1>1, <1>2, <1>3
  <2> QED BY <1>2, <2>1
<1>9. Rooted(M, list, v, line, first)
  <2>1. CASE b.series[s] = 0
    <3>1. first = {FirstMain(anchors, v)} /\ ~(v > 1)
      BY <1>5, <2>1
    <3>2. FirstMain(anchors, v) \in 1..L /\ FirstMain(anchors, v) <= M
      BY <1>1, <1>2, <1>3
    <3>3. list[FirstMain(anchors, v)].line = Main
      BY <1>1, <1>4, <3>2, FormedFacts DEF Trunk, L
    <3> QED BY <1>6, <3>1, <3>3 DEF Rooted
  <2>2. CASE b.series[s] # 0
    <3>1. first = {b.series[s], b.checkpoint} \ {0}
      BY <2>2
    <3>2. list[b.series[s]].line = line
      BY <1>5, <2>2
    <3>3. b.checkpoint # 0 => list[b.checkpoint].line = Main
      <4>1. b.checkpoint # 0 => b.checkpoint \in 1..L
        BY <1>2
      <4> QED BY <1>1, <1>4, <1>5, <4>1, FormedFacts, SMTT(30) DEF L
    <3>4. v > 1 => b.checkpoint \in first /\ list[b.checkpoint].kind = "CHECKPOINT"
                   /\ list[b.checkpoint].volume = v - 1
      BY <1>5, <3>1
    <3> HIDE DEF first, list
    <3> QED BY <1>6, <3>1, <3>2, <3>3, <3>4 DEF Rooted
  <2> QED BY <2>1, <2>2
<1> HIDE DEF first
<1>10. grown \in Builts(W, M, S)
  <2>1. b \in Builts(W, M, S) /\ v \in W
    OBVIOUS
  <2> HIDE DEF W
  <2> QED BY <1>1, <1>6, <1>8, <2>1, AddChainTyped DEF L
<1>11. /\ Woven(anchors, k, S, grown) /\ grown.tails # {} /\ K \in Nat \ {0}
       /\ grown.nodes[K].line = line
  <2>1. line[1] \in {"S", "A"} /\ first \in SUBSET (1..Len(b.nodes)) /\ Rooted(M, b.nodes, v, line, first)
    BY <1>6, <1>8, <1>9 DEF L
  <2> HIDE DEF grown, list
  <2> QED BY <1>6, <2>1, AddChainWoven DEF grown
<1>12. grown.series = b.series
  BY DEF AddChain
<1> HIDE DEF grown, K
<1>13. /\ grown.series \in [1..S -> Nat]
       /\ grown = [nodes |-> grown.nodes, series |-> grown.series, checkpoint |-> grown.checkpoint,
                   tails |-> grown.tails]
  BY <1>10, BuiltFacts
<1>14. /\ new.nodes = grown.nodes /\ new.checkpoint = grown.checkpoint /\ new.tails = grown.tails
       /\ new.series = [grown.series EXCEPT ![s] = K]
  <2>1. DOMAIN grown = {"nodes", "series", "checkpoint", "tails"}
    BY <1>13
  <2>2. new = [grown EXCEPT !["series"] = [grown.series EXCEPT ![s] = K]]
    BY <1>7
  <2> QED BY <2>1, <2>2
<1>15. \A i \in 1..S : new.series[i] = IF i = s THEN K ELSE b.series[i]
  BY <1>12, <1>13, <1>14
<1>16. Marked(k, S, new)
  <2>1. /\ grown.checkpoint # 0 =>
              grown.nodes[grown.checkpoint].kind = "CHECKPOINT" /\ grown.nodes[grown.checkpoint].volume = k
        /\ \A i \in 1..S : b.series[i] # 0 => grown.nodes[b.series[i]].line = Line("S", 0, i)
        /\ k > 0 => grown.checkpoint # 0 /\ \A i \in 1..S : b.series[i] # 0
    BY <1>11, <1>12 DEF Woven, Marked
  <2>2. \A i \in 1..S : new.series[i] # 0 => new.nodes[new.series[i]].line = Line("S", 0, i)
    BY <1>11, <1>14, <1>15, <2>1 DEF line
  <2>3. k > 0 => \A i \in 1..S : new.series[i] # 0
    BY <1>11, <1>15, <2>1
  <2> QED BY <1>14, <2>1, <2>2, <2>3 DEF Marked
<1>17. Woven(anchors, k, S, new)
  <2>1. Sturdy(anchors, k, grown.nodes) /\ Loose(M, k, grown)
    BY <1>11 DEF Woven
  <2>2. Sturdy(anchors, k, new.nodes)
    BY <1>14, <2>1
  <2>3. Loose(M, k, new)
    BY <1>14, <2>1, SMTT(30) DEF Loose
  <2> QED BY <1>16, <2>2, <2>3 DEF Woven
<1> QED BY <1>11, <1>14, <1>15, <1>17

\* A volume arc starts in the next volume.
LEMMA VolumeArcWoven ==
  ASSUME NEW V \in Nat \ {0}, NEW anchors \in AnchorCounts(V), NEW S \in Nat,
         NEW M, M = Len(MainLine(anchors)), NEW b \in Builts(1..V, M, S), NEW k \in Nat,
         NEW v \in 1..V, v = k + 1, Woven(anchors, k, S, b),
         NEW a \in Nat, NEW arc \in ArcRecords(anchors[v]),
         NEW new, new = VolumeArc(b, anchors, v, a, arc)
  PROVE  /\ Woven(anchors, k, S, new) /\ new.tails # {} /\ new.series = b.series
<1> DEFINE from == FirstMain(anchors, v) + arc.start
           first == {from}
           line == Line("A", v, a)
           length == arc.length
           list == b.nodes
           L == Len(list)
<1>1. M \in Nat \ {0}
  BY MainLineFacts, ListFacts
<1>2. L \in Nat /\ M <= L
  BY BuiltFacts
<1>3. anchors[v] \in Nat \ {0}
  BY DEF AnchorCounts
<1>4. length \in Nat \ {0} /\ arc.start \in Nat /\ arc.start <= anchors[v] - 1
  BY <1>3, ArcFacts
<1>5. from \in 1..M
  <2>1. /\ FirstMain(anchors, v) \in Nat /\ FirstMain(anchors, v) >= 1
        /\ LastMain(anchors, v) \in Nat /\ LastMain(anchors, v) <= M
        /\ LastMain(anchors, v) = FirstMain(anchors, v) + anchors[v] - 1
    BY MainLineFacts
  <2> QED BY <1>1, <1>3, <1>4, <2>1, SMTT(30)
<1>6. new = AddChain(b, v, line, first, length)
  BY DEF VolumeArc
<1>7. Formed(M, list)
  BY DEF Woven, Sturdy
<1>8. line \in StoryLines /\ line # Main /\ line[1] = "A"
  BY LinesTyped, SideLines
<1> HIDE DEF from, L, line
<1>9. from \in 1..L /\ from <= M
  BY <1>1, <1>2, <1>5
<1>10. list[from].line = Main
  BY <1>1, <1>7, <1>9, FormedFacts DEF Trunk, L
<1>11. first \in SUBSET (1..Len(b.nodes)) /\ Rooted(M, b.nodes, v, line, first)
  BY <1>8, <1>9, <1>10 DEF Rooted, L
<1>12. line[1] \in {"S", "A"}
  BY <1>8
<1>13. new.series = b.series
  BY <1>6 DEF AddChain
<1> HIDE DEF first, length
<1> QED BY <1>4, <1>6, <1>8, <1>11, <1>12, <1>13, AddChainWoven

\* An anchor of the main storyline is followed but for the last one of its volume.
LEMMA MainEnds ==
  ASSUME NEW V \in Nat \ {0}, NEW anchors \in AnchorCounts(V),
         NEW M, M = Len(MainLine(anchors)), NEW list, Len(list) \in Nat,
         Begins(list, MainLine(anchors)), NEW n \in 1..M
  PROVE  LET v == list[n].volume
         IN  /\ v \in 1..V /\ n \in FirstMain(anchors, v)..LastMain(anchors, v)
             /\ list[n].deps = {n - 1} \ {0}
             /\ Followed(list, n) \/ n = LastMain(anchors, v)
<1> DEFINE main == MainLine(anchors)
           F(v) == FirstMain(anchors, v)
           E(v) == LastMain(anchors, v)
<1>1. M \in Nat \ {0}
  BY MainLineFacts, ListFacts
<1>2. Spine(anchors, V, main)
  BY MainLineIs
<1>3. M <= Len(list) /\ \A i \in 1..M : list[i] = main[i]
  BY DEF Begins
<1>4. \A v \in 1..V : F(v) \in Nat /\ F(v) >= 1 /\ E(v) \in Nat /\ E(v) <= M
  BY MainLineFacts
<1>5. \A v \in 1..V : \A i \in F(v)..E(v) : main[i] = Beat(v, Main, {i - 1} \ {0})
  BY <1>2 DEF Spine
<1>6. PICK v \in 1..V : n \in F(v)..E(v)
  BY <1>2 DEF Spine
<1> HIDE DEF F, E, main
<1>7. \A i \in F(v)..E(v) : i \in 1..M /\ list[i] = Beat(v, Main, {i - 1} \ {0})
  <2>1. \A i \in F(v)..E(v) : i \in 1..M
    BY <1>1, <1>4
  <2> QED BY <1>3, <1>5, <2>1
<1>8. ASSUME n # E(v)
      PROVE  Followed(list, n)
  <2> DEFINE m == n + 1
             d == {m - 1} \ {0}
  <2>1. m \in F(v)..E(v) /\ m \in (n + 1)..Len(list) /\ m - 1 = n /\ n # 0
    BY <1>1, <1>3, <1>4, <1>6, <1>8
  <2>2. list[m] = Beat(v, Main, d)
    BY <1>7, <2>1
  <2>3. n \in d
    BY <2>1
  <2> HIDE DEF m, d
  <2>4. list[m].kind = "NORMAL" /\ list[m].deps = d /\ list[m].volume = v /\ list[m].line = Main
    BY <2>2, BeatFields
  <2>5. list[n].volume = v /\ list[n].line = Main
    <3> DEFINE e == {n - 1} \ {0}
    <3>1. list[n] = Beat(v, Main, e)
      BY <1>6, <1>7
    <3> HIDE DEF e
    <3> QED BY <3>1, BeatFields
  <2> QED BY <2>1, <2>3, <2>4, <2>5 DEF Followed
<1>9. list[n].volume = v /\ list[n].deps = {n - 1} \ {0}
  <2> DEFINE d == {n - 1} \ {0}
  <2>1. list[n] = Beat(v, Main, d)
    BY <1>6, <1>7
  <2> HIDE DEF d
  <2>2. list[n].volume = v /\ list[n].deps = d
    BY <2>1, BeatFields
  <2> QED BY <2>2 DEF d
<1> QED BY <1>6, <1>8, <1>9 DEF F, E

\* The checkpoint of a volume gathers what the volume has.
LEMMA CheckpointWoven ==
  ASSUME NEW V \in Nat \ {0}, NEW anchors \in AnchorCounts(V), NEW S \in Nat,
         NEW M, M = Len(MainLine(anchors)), NEW b \in Builts(1..V, M, S), NEW k \in Nat,
         NEW v \in 1..V, v = k + 1, Woven(anchors, k, S, b),
         b.tails # {}, \A s \in 1..S : b.series[s] # 0,
         NEW new, new = Checkpoint(b, anchors, v)
  PROVE  Woven(anchors, v, S, new)
<1> DEFINE W == 1..V
           list == b.nodes
           L == Len(list)
           K == L + 1
           E == LastMain(anchors, v)
           deps == {E} \cup b.tails
           node == [kind |-> "CHECKPOINT", deps |-> deps, volume |-> v, main |-> TRUE,
                    line |-> Main]
           all == Append(list, node)
<1>1. M \in Nat \ {0} /\ MainLine(anchors) \in Lists(W)
  BY MainLineFacts, ListFacts
<1>2. /\ list \in Lists(W) /\ L \in Nat /\ M <= L /\ b.tails \subseteq 1..L
      /\ \A s \in 1..S : b.series[s] <= L /\ b.series[s] \in Nat
  <2>1. b.series \in [1..S -> Nat]
    BY BuiltFacts
  <2> QED BY <2>1, BuiltFacts
<1>3. E \in 1..M
  <2>1. /\ FirstMain(anchors, v) \in Nat /\ FirstMain(anchors, v) >= 1
        /\ E \in Nat /\ E <= M /\ E = FirstMain(anchors, v) + anchors[v] - 1
    BY MainLineFacts
  <2>2. anchors[v] \in Nat \ {0}
    BY DEF AnchorCounts
  <2> HIDE DEF E
  <2> QED BY <1>1, <2>1, <2>2
<1>4. Sturdy(anchors, k, list) /\ Loose(M, k, b) /\ Marked(k, S, b)
  BY DEF Woven
<1>5. /\ new.nodes = all /\ new.series = b.series /\ new.checkpoint = K /\ new.tails = {}
  BY Zenon DEF Checkpoint
<1>6. /\ node.kind = "CHECKPOINT" /\ node.deps = deps /\ node.volume = v /\ node.line = Main
      /\ Tier(node) = "MAIN"
  BY DEF Tier, Main, Line
<1>7. b.tails \subseteq 1..L /\ \A t \in b.tails : t > M
  BY <1>2, <1>4 DEF Loose
<1>8. all \in Lists(W)
  <2>1. Checkpoint(b, anchors, v) \in Builts(W, M, S)
    BY CheckpointTyped
  <2> HIDE DEF W, all
  <2>2. new \in Builts(W, M, S)
    BY <2>1
  <2> QED BY <1>5, <2>2, BuiltFacts
<1>9. deps \subseteq 1..L /\ E \in deps
  <2> HIDE DEF L, E
  <2>1. E \in 1..L
    BY <1>1, <1>2, <1>3
  <2> QED BY <1>7, <2>1
<1> HIDE DEF node
<1>10. Len(all) = K /\ all[K] = node /\ \A n \in 1..L : all[n] = list[n]
  <2> DEFINE X == NodesOf(W) \cup {node}
  <2>1. list \in Seq(NodesOf(W))
    BY <1>2, ListFacts
  <2>2. list \in Seq(X) /\ node \in X
    BY <2>1
  <2> HIDE DEF X
  <2> QED BY <2>2
<1>K. K = L + 1 /\ K \in Nat /\ K \in 1..K /\ M \in Nat
  BY <1>1, <1>2
<1> HIDE DEF all, list, L, deps, W, K
<1>11. Begins(all, list)
  BY <1>2, <1>10, <1>K DEF Begins, L
<1>12. \A n \in 1..L : n \in 1..K /\ all[n] = list[n]
  BY <1>2, <1>10, <1>K
<1>keep. \A n \in 1..L : /\ Followed(list, n) => Followed(all, n)
                         /\ Staged(list, n) => Staged(all, n)
                         /\ Trunk(list, n) => Trunk(all, n)
                         /\ Joint(list, n) => Joint(all, n)
                         /\ Rib(M, list, n) => Rib(M, all, n)
  BY <1>2, <1>8, <1>11, <1>K, BeginsKeeps DEF L
<1>13. Begins(list, MainLine(anchors)) /\ Formed(M, list)
  BY <1>4 DEF Sturdy
<1>14. /\ \A n \in 1..L : Staged(list, n)
       /\ \A c \in 1..L : list[c].kind = "CHECKPOINT" => list[c].volume <= k /\ Gathers(list, c)
       /\ \A u \in 1..k : \E c \in 1..L : list[c].kind = "CHECKPOINT" /\ list[c].volume = u
  BY <1>4 DEF Sturdy, L
<1>15. \A n \in 1..K : n \in 1..L \/ n = K
  BY <1>2, <1>K
<1>16. Begins(all, MainLine(anchors))
  <2> DEFINE X == NodesOf(W)
  <2>1. MainLine(anchors) \in Seq(X) /\ list \in Seq(X) /\ all \in Seq(X)
    BY <1>1, <1>2, <1>8, ListFacts
  <2> HIDE DEF X
  <2> QED BY <1>11, <1>13, <2>1, BeginsOn
<1>17. Formed(M, all)
  <2> SUFFICES ASSUME NEW n \in 1..K
               PROVE  IF n <= M THEN Trunk(all, n) ELSE Joint(all, n) \/ Rib(M, all, n)
    BY <1>10 DEF Formed
  <2>1. CASE n \in 1..L
    <3>1. IF n <= M THEN Trunk(list, n) ELSE Joint(list, n) \/ Rib(M, list, n)
      BY <1>13, <2>1 DEF Formed, L
    <3> QED BY <1>keep, <2>1, <3>1
  <2>2. CASE n = K
    <3>1. ~(n <= M) /\ 1..(n - 1) = 1..L
      BY <1>2, <1>K, <2>2
    <3>2. Joint(all, n)
      BY <1>6, <1>9, <1>10, <2>2, <3>1 DEF Joint
    <3> QED BY <3>1, <3>2
  <2> QED BY <1>15, <2>1, <2>2
<1>18. \A n \in 1..K : Staged(all, n)
  <2>1. Staged(all, K)
    BY <1>6, <1>10 DEF Staged
  <2>2. \A n \in 1..L : Staged(all, n)
    BY <1>keep, <1>14
  <2> QED BY <1>15, <2>1, <2>2
<1>19. ASSUME NEW n \in 1..K, all[n].kind = "NORMAL", ~Followed(all, n)
       PROVE  n \in 1..L /\ list[n] = all[n] /\ ~Followed(list, n)
  <2>1. n # K
    BY <1>6, <1>10, <1>19
  <2>2. n \in 1..L
    BY <1>15, <2>1
  <2>3. Followed(list, n) => Followed(all, n)
    BY <1>keep, <2>2
  <2> QED BY <1>12, <1>19, <2>2, <2>3
<1>20. ASSUME NEW c \in 1..L, all[c].kind = "CHECKPOINT"
       PROVE  all[c].volume <= v /\ Gathers(all, c)
  <2>1. all[c] = list[c] /\ list[c].volume <= k /\ Gathers(list, c)
    BY <1>12, <1>14, <1>20
  <2>2. list[c].volume \in Int
    <3>1. list[c] \in NodesOf(W)
      BY <1>2, ListFacts DEF L
    <3> QED BY <3>1 DEF NodesOf, W
  <2>3. all[c].volume <= v
    BY <2>1, <2>2
  <2>4. \E m, n \in all[c].deps : m # n
    BY <2>1 DEF Gathers
  <2>5. \A n \in 1..L :
          /\ list[n].kind = "NORMAL" /\ list[n].volume = list[c].volume /\ Tier(list[n]) # "B"
          /\ ~Followed(list, n)
          => n \in list[c].deps
    BY <2>1 DEF Gathers, L
  <2>6. \A n \in 1..K :
          /\ all[n].kind = "NORMAL" /\ all[n].volume = all[c].volume /\ Tier(all[n]) # "B"
          /\ ~Followed(all, n)
          => n \in all[c].deps
    BY <1>19, <2>1, <2>5
  <2> QED BY <1>10, <2>3, <2>4, <2>6 DEF Gathers
<1>21. all[K].volume <= v /\ Gathers(all, K)
  <2>1. \E m, n \in all[K].deps : m # n
    <3>1. PICK t \in b.tails : TRUE
      OBVIOUS
    <3>2. t > M /\ t \in 1..L
      BY <1>7
    <3>3. t # E /\ t \in deps /\ E \in deps
      BY <1>1, <1>3, <3>2 DEF deps
    <3> QED BY <1>6, <1>10, <3>3
  <2>2. ASSUME NEW n \in 1..K, all[n].kind = "NORMAL", all[n].volume = v, ~Followed(all, n)
        PROVE  n \in deps
    <3>1. n \in 1..L /\ list[n] = all[n] /\ ~Followed(list, n)
      BY <1>19, <2>2
    <3>2. CASE n <= M
      <4>1. n \in 1..M /\ Len(list) \in Nat
        BY <1>1, <1>2, <3>1, <3>2 DEF L
      <4>2. Followed(list, n) \/ n = LastMain(anchors, list[n].volume)
        <5>1. Begins(list, MainLine(anchors))
          BY <1>13
        <5> QED BY <4>1, <5>1, MainEnds
      <4>3. list[n].volume = v
        BY <2>2, <3>1
      <4> QED BY <1>9, <3>1, <4>2, <4>3
    <3>3. CASE ~(n <= M)
      <4>1. n \in (M + 1)..L /\ v > k
        BY <1>2, <1>K, <3>1, <3>3
      <4>2. n \in b.tails
        BY <1>4, <2>2, <3>1, <4>1 DEF Loose, list, L
      <4> QED BY <4>2 DEF deps
    <3> QED BY <3>2, <3>3
  <2> QED BY <1>6, <1>10, <2>1, <2>2 DEF Gathers
<1>22. ASSUME NEW u \in 1..v
       PROVE  \E c \in 1..K : all[c].kind = "CHECKPOINT" /\ all[c].volume = u
  <2>1. CASE u \in 1..k
    BY <1>12, <1>14, <2>1
  <2>2. CASE u = v
    <3> QED BY <1>6, <1>10, <1>K, <2>2
  <2> QED BY <2>1, <2>2
<1>23. Sturdy(anchors, v, all)
  <2>1. \A c \in 1..K : all[c].kind = "CHECKPOINT" => all[c].volume <= v /\ Gathers(all, c)
    BY <1>15, <1>20, <1>21
  <2> QED BY <1>10, <1>16, <1>17, <1>18, <1>22, <2>1 DEF Sturdy
<1>24. Loose(M, v, new)
  <2>1. ASSUME NEW n \in (M + 1)..K
        PROVE  Tier(all[n]) # "B" /\ ~(all[n].kind = "NORMAL" /\ all[n].volume > v)
    <3>1. CASE n = K
      BY <1>6, <1>10, <3>1
    <3>2. CASE n # K
      <4>1. n \in (M + 1)..L /\ n \in 1..L
        BY <1>2, <1>K, <3>2
      <4>2. /\ Tier(list[n]) # "B"
            /\ list[n].kind = "NORMAL" /\ list[n].volume > k => list[n].volume = v
        BY <1>4, <4>1 DEF Loose, list, L
      <4>3. list[n].volume \in Int
        <5>1. list[n] \in NodesOf(W)
          BY <1>2, <4>1, ListFacts DEF L
        <5> QED BY <5>1 DEF NodesOf, W
      <4> QED BY <1>12, <4>1, <4>2, <4>3
    <3> QED BY <3>1, <3>2
  <2> QED BY <1>5, <1>10, <2>1 DEF Loose
<1>25. Marked(v, S, new)
  <2>1. all[K].kind = "CHECKPOINT" /\ all[K].volume = v /\ K # 0
    BY <1>2, <1>6, <1>10, <1>K
  <2>2. ASSUME NEW s \in 1..S
        PROVE  all[b.series[s]].line = Line("S", 0, s)
    <3>1. list[b.series[s]].line = Line("S", 0, s)
      BY <1>4 DEF Marked, list
    <3>2. b.series[s] \in 1..L
      BY <1>2
    <3> QED BY <1>12, <3>1, <3>2
  <2> QED BY <1>5, <2>1, <2>2 DEF Marked
<1> QED BY <1>5, <1>23, <1>24, <1>25 DEF Woven

\* All series arcs go on in the next volume.
LEMMA SeriesArcsWoven ==
  ASSUME NEW V \in Nat \ {0}, NEW anchors \in AnchorCounts(V), NEW S \in Nat \ {0},
         NEW M, M = Len(MainLine(anchors)), NEW b \in Builts(1..V, M, S), NEW k \in Nat,
         NEW v \in 1..V, v = k + 1, Woven(anchors, k, S, b), NEW lengths \in LengthsOf(S),
         NEW new, new = SeriesArcs(b, anchors, v, lengths)
  PROVE  /\ new \in Builts(1..V, M, S) /\ Woven(anchors, k, S, new) /\ new.tails # {}
         /\ \A s \in 1..S : new.series[s] # 0
<1>1. PICK f \in [0..S -> Builts(1..V, M, S)] :
         /\ f[0] = b /\ SeriesArcs(b, anchors, v, lengths) = f[S]
         /\ \A i \in 1..S : f[i] = SeriesArc(f[i - 1], anchors, v, i, lengths[i])
  <2>1. S \in Nat
    OBVIOUS
  <2>2. SeriesSteps(b, anchors, v, lengths, V, M, S)
    BY <2>1, SeriesArcsFold
  <2> QED BY <2>2 DEF SeriesSteps
<1>2. \A i \in 1..S : lengths[i] \in Nat \ {0}
  <2>1. \A x \in SeriesLengths : x \in Nat \ {0}
    BY CompileAssumption
  <2> QED BY <2>1 DEF LengthsOf
<1> DEFINE Good(n) == /\ Woven(anchors, k, S, f[n]) /\ (n > 0 => f[n].tails # {})
                      /\ \A s \in 1..n : f[n].series[s] # 0
           I == {n \in Nat : n <= S => Good(n)}
<1>3. 0 \in I
  BY <1>1
<1>4. ASSUME NEW n \in Nat, n \in I
      PROVE  n + 1 \in I
  <2> DEFINE m == n + 1
  <2> SUFFICES ASSUME m <= S PROVE Good(m)
    OBVIOUS
  <2>1. m \in 1..S /\ m - 1 = n /\ n \in 0..S /\ m > 0 /\ \A s \in 1..m : s \in 1..S /\ (s = m \/ s \in 1..n)
    OBVIOUS
  <2>2. Good(n)
    BY <1>4, <2>1
  <2> HIDE DEF m
  <2>3. f[m] = SeriesArc(f[n], anchors, v, m, lengths[m]) /\ f[n] \in Builts(1..V, M, S)
        /\ lengths[m] \in Nat \ {0}
    BY <1>1, <1>2, <2>1
  <2> DEFINE length == lengths[m]
             old == f[n]
             next == f[m]
  <2>4. /\ next = SeriesArc(old, anchors, v, m, length) /\ old \in Builts(1..V, M, S)
        /\ length \in Nat \ {0} /\ Woven(anchors, k, S, old) /\ m \in 1..S /\ S \in Nat
    BY <2>1, <2>2, <2>3
  <2> HIDE DEF length, old, next
  <2>5. /\ Woven(anchors, k, S, next) /\ next.tails # {}
        /\ \A i \in 1..S : i = m \/ old.series[i] # 0 => next.series[i] # 0
    BY <2>4, SeriesArcWoven, SMTT(30)
  <2> QED BY <2>1, <2>2, <2>5 DEF old, next
<1> HIDE DEF I
<1>5. Nat \subseteq I
  BY <1>3, <1>4, Induction
<1>6. S \in I /\ S <= S /\ S > 0 /\ S \in 0..S
  BY <1>5
<1>7. Good(S)
  BY <1>6 DEF I
<1> QED BY <1>1, <1>6, <1>7

\* All volume arcs start in the next volume.
LEMMA VolumeArcsWoven ==
  ASSUME NEW V \in Nat \ {0}, NEW anchors \in AnchorCounts(V), NEW S \in Nat,
         NEW M, M = Len(MainLine(anchors)), NEW b \in Builts(1..V, M, S), NEW k \in Nat,
         NEW v \in 1..V, v = k + 1, Woven(anchors, k, S, b), b.tails # {},
         \A s \in 1..S : b.series[s] # 0,
         NEW arcs \in Seq(ArcRecords(anchors[v])), NEW new, new = VolumeArcs(b, anchors, v, arcs)
  PROVE  /\ new \in Builts(1..V, M, S) /\ Woven(anchors, k, S, new) /\ new.tails # {}
         /\ \A s \in 1..S : new.series[s] # 0
<1> DEFINE N == Len(arcs)
<1>0. PICK f \in [0..Len(arcs) -> Builts(1..V, M, S)] :
         /\ f[0] = b /\ VolumeArcs(b, anchors, v, arcs) = f[Len(arcs)]
         /\ \A i \in 1..Len(arcs) : f[i] = VolumeArc(f[i - 1], anchors, v, i, arcs[i])
  <2>1. VolumeSteps(b, anchors, v, arcs, V, M, S)
    BY VolumeArcsFold
  <2> QED BY <2>1 DEF VolumeSteps
<1>1. /\ f \in [0..N -> Builts(1..V, M, S)] /\ f[0] = b /\ new = f[N]
      /\ \A i \in 1..N : f[i] = VolumeArc(f[i - 1], anchors, v, i, arcs[i])
  BY <1>0
<1>N. N \in Nat
  OBVIOUS
<1>2. \A i \in 1..N : arcs[i] \in ArcRecords(anchors[v])
  OBVIOUS
<1> HIDE DEF N
<1> DEFINE Good(n) == /\ Woven(anchors, k, S, f[n]) /\ f[n].tails # {}
                      /\ \A s \in 1..S : f[n].series[s] # 0
           I == {n \in Nat : n <= N => Good(n)}
<1>3. 0 \in I
  BY <1>1
<1>4. ASSUME NEW n \in Nat, n \in I
      PROVE  n + 1 \in I
  <2> DEFINE m == n + 1
  <2> SUFFICES ASSUME m <= N PROVE Good(m)
    OBVIOUS
  <2>1. m \in 1..N /\ m - 1 = n /\ n \in 0..N /\ m \in Nat /\ n <= N
    BY <1>N
  <2>2. Good(n)
    BY <1>4, <2>1
  <2> HIDE DEF m
  <2>3. f[m] = VolumeArc(f[n], anchors, v, m, arcs[m]) /\ f[n] \in Builts(1..V, M, S)
        /\ arcs[m] \in ArcRecords(anchors[v])
    BY <1>1, <1>2, <2>1
  <2> DEFINE arc == arcs[m]
             old == f[n]
             next == f[m]
  <2>4. /\ next = VolumeArc(old, anchors, v, m, arc) /\ old \in Builts(1..V, M, S)
        /\ arc \in ArcRecords(anchors[v]) /\ Woven(anchors, k, S, old) /\ m \in Nat
    BY <2>1, <2>2, <2>3
  <2> HIDE DEF arc, old, next
  <2>5. Woven(anchors, k, S, next) /\ next.tails # {} /\ next.series = old.series
    BY <2>4, VolumeArcWoven
  <2> QED BY <2>1, <2>2, <2>5 DEF old, next
<1> HIDE DEF I
<1>5. Nat \subseteq I
  BY <1>3, <1>4, Induction
<1>6. N \in I /\ N <= N /\ N \in 0..N
  BY <1>N, <1>5
<1>7. Good(N)
  BY <1>6 DEF I
<1> QED BY <1>1, <1>6, <1>7

\* A volume is built.
LEMMA VolumeWoven ==
  ASSUME NEW V \in Nat \ {0}, NEW anchors \in AnchorCounts(V), NEW S \in Nat \ {0},
         NEW M, M = Len(MainLine(anchors)), NEW b \in Builts(1..V, M, S), NEW k \in Nat,
         NEW v \in 1..V, v = k + 1, Woven(anchors, k, S, b),
         NEW c, Chosen(c, anchors, V, S)
  PROVE  Woven(anchors, v, S, Volume(b, anchors, v, c))
<1> DEFINE lengths == c.series[v]
           arcs == c.arcs[v]
           b1 == SeriesArcs(b, anchors, v, lengths)
           b2 == VolumeArcs(b1, anchors, v, arcs)
           b3 == Checkpoint(b2, anchors, v)
<1>1. lengths \in LengthsOf(S) /\ arcs \in Seq(ArcRecords(anchors[v])) /\ S \in Nat
  BY DEF Chosen, LengthsOf
<1>2. Volume(b, anchors, v, c) = b3
  BY DEF Volume
<1> HIDE DEF lengths, arcs
<1>3. /\ b1 \in Builts(1..V, M, S) /\ Woven(anchors, k, S, b1) /\ b1.tails # {}
      /\ \A s \in 1..S : b1.series[s] # 0
  BY <1>1, SeriesArcsWoven
<1> HIDE DEF b1
<1>4. /\ b2 \in Builts(1..V, M, S) /\ Woven(anchors, k, S, b2) /\ b2.tails # {}
      /\ \A s \in 1..S : b2.series[s] # 0
  BY <1>1, <1>3, VolumeArcsWoven
<1> HIDE DEF b2
<1>5. Woven(anchors, v, S, b3)
  BY <1>1, <1>4, CheckpointWoven
<1> QED BY <1>2, <1>5

\* The main storyline alone stands.
LEMMA RootstockWoven ==
  ASSUME NEW V \in Nat \ {0}, NEW anchors \in AnchorCounts(V), NEW S \in Nat,
         NEW c, Chosen(c, anchors, V, S)
  PROVE  Woven(anchors, 0, S, Rootstock(anchors, c))
<1> DEFINE list == MainLine(anchors)
           M == Len(list)
           b == Rootstock(anchors, c)
<1>1. M \in Nat \ {0} /\ Spine(anchors, V, list)
  BY MainLineFacts, MainLineIs, ListFacts
<1>2. b.nodes = list /\ b.checkpoint = 0 /\ b.tails = {} /\ \A s \in 1..S : b.series[s] = 0
  BY DEF Rootstock, Chosen
<1>3. Begins(list, list)
  BY DEF Begins
<1>4. ASSUME NEW n \in 1..M
      PROVE  Trunk(list, n) /\ Tier(list[n]) = "MAIN"
  <2>1. PICK v \in 1..V : n \in FirstMain(anchors, v)..LastMain(anchors, v)
    BY <1>1 DEF Spine
  <2> DEFINE d == {n - 1} \ {0}
  <2>2. list[n] = Beat(v, Main, d)
    BY <1>1, <2>1 DEF Spine
  <2>3. d \subseteq 1..(n - 1)
    BY <1>1
  <2> HIDE DEF d
  <2>4. list[n].kind = "NORMAL" /\ list[n].line = Main /\ list[n].deps = d /\ list[n].main
    BY <2>2, BeatFields, BeatMain
  <2> QED BY <2>3, <2>4 DEF Trunk, Tier, Main, Line
<1> HIDE DEF list, M, b
<1>5. Sturdy(anchors, 0, list)
  <2>1. Formed(M, list)
    BY <1>1, <1>4 DEF Formed, M
  <2>2. \A n \in 1..M : Staged(list, n) /\ list[n].kind # "CHECKPOINT"
    BY <1>4 DEF Staged, Trunk
  <2> QED BY <1>3, <2>1, <2>2 DEF Sturdy, list, M
<1>6. Loose(M, 0, b)
  <2>1. \A n \in (M + 1)..M : FALSE
    BY <1>1
  <2> QED BY <1>2, <2>1 DEF Loose, M
<1>7. Marked(0, S, b)
  BY <1>2 DEF Marked
<1>8. Sturdy(anchors, 0, b.nodes) /\ Loose(Len(MainLine(anchors)), 0, b)
  BY <1>2, <1>5, <1>6 DEF M, list
<1> QED BY <1>7, <1>8 DEF Woven, b

\* _build_fishbone_anchor_nodes: the side arcs of all volumes and their checkpoints.
LEMMA RibsWoven ==
  ASSUME NEW V \in Nat \ {0}, NEW anchors \in AnchorCounts(V), NEW S \in Nat \ {0},
         NEW c, Chosen(c, anchors, V, S), NEW ribs, ribs = Ribs(anchors, c)
  PROVE  /\ ribs \in Lists(1..V) /\ Sturdy(anchors, V, ribs)
         /\ \A n \in 1..Len(ribs) : Tier(ribs[n]) # "B"
<1> DEFINE M == Len(MainLine(anchors))
<1>1. PICK f \in [0..V -> Builts(1..V, M, S)] :
         /\ f[0] = Rootstock(anchors, c) /\ Ribs(anchors, c) = f[V].nodes
         /\ \A k \in 1..V : f[k] = Volume(f[k - 1], anchors, k, c)
  <2>1. S \in Nat /\ M = Len(MainLine(anchors))
    OBVIOUS
  <2> HIDE DEF M
  <2> QED BY <2>1, RibsFold
<1>2. M \in Nat \ {0}
  BY MainLineFacts, ListFacts
<1> HIDE DEF M
<1> DEFINE I == {n \in Nat : n <= V => Woven(anchors, n, S, f[n])}
<1>3. 0 \in I
  <2>1. S \in Nat
    OBVIOUS
  <2> QED BY <1>1, <2>1, RootstockWoven
<1>4. ASSUME NEW n \in Nat, n \in I
      PROVE  n + 1 \in I
  <2> DEFINE m == n + 1
  <2> SUFFICES ASSUME m <= V PROVE Woven(anchors, m, S, f[m])
    OBVIOUS
  <2>1. m \in 1..V /\ m - 1 = n /\ n \in 0..V /\ m = n + 1 /\ Woven(anchors, n, S, f[n])
    BY <1>4
  <2> HIDE DEF m
  <2> DEFINE old == f[n]
  <2>2. f[m] = Volume(old, anchors, m, c) /\ old \in Builts(1..V, M, S)
        /\ Woven(anchors, n, S, old)
    BY <1>1, <2>1
  <2> HIDE DEF old
  <2>3. Woven(anchors, m, S, Volume(old, anchors, m, c))
    BY <2>1, <2>2, VolumeWoven DEF M
  <2> QED BY <2>2, <2>3
<1> HIDE DEF I
<1>5. Nat \subseteq I
  BY <1>3, <1>4, Induction
<1>6. V \in I /\ V <= V /\ V \in 0..V
  BY <1>5
<1> DEFINE b == f[V]
<1>7. Woven(anchors, V, S, b) /\ b \in Builts(1..V, M, S) /\ ribs = b.nodes
  BY <1>1, <1>6 DEF I
<1> HIDE DEF b
<1>8. ribs \in Lists(1..V) /\ Sturdy(anchors, V, ribs) /\ Loose(M, V, b) /\ Len(ribs) \in Nat
  BY <1>7, BuiltFacts DEF Woven, M
<1>9. Formed(M, ribs)
  BY <1>8 DEF Sturdy, M
<1>10. ASSUME NEW n \in 1..Len(ribs)
       PROVE  Tier(ribs[n]) # "B"
  <2>1. CASE n <= M
    <3>1. Trunk(ribs, n)
      BY <1>2, <1>9, <2>1, FormedFacts
    <3> QED BY <3>1 DEF Trunk, Tier, Main, Line
  <2>2. CASE ~(n <= M)
    <3>1. n \in (M + 1)..Len(b.nodes) /\ ribs[n] = b.nodes[n]
      BY <1>2, <1>7, <1>8, <2>2
    <3> QED BY <1>8, <3>1 DEF Loose
  <2> QED BY <2>1, <2>2
<1> QED BY <1>8, <1>10

-----------------------------------------------------------------------------
(* The short beats, the gathering and the ending leave it standing. *)

\* Short beats end in the tails.
Trimmed(b) ==
  /\ \A t \in b.tails : Tier(b.nodes[t]) = "B" /\ b.nodes[t].kind = "NORMAL"
  /\ \A n \in 1..Len(b.nodes) : Tier(b.nodes[n]) = "B" => Followed(b.nodes, n) \/ n \in b.tails

\* A short beat leaves it so.
LEMMA ShortBeatTrims ==
  ASSUME NEW V \in Nat \ {0}, NEW anchors \in AnchorCounts(V),
         NEW M, M = Len(MainLine(anchors)), NEW beats \in Seq(BeatRecords(V)),
         NEW b \in Shorts(1..V, M), NEW i \in 1..Len(beats),
         Sturdy(anchors, V, b.nodes), Trimmed(b),
         NEW new, new = ShortBeat(anchors, beats, b, i)
  PROVE  Sturdy(anchors, V, new.nodes) /\ Trimmed(new)
<1> DEFINE W == 1..V
           v == beats[i].volume
           length == beats[i].length
           mount == MountOf(anchors, v, b.used)
           line == Line("B", 0, i)
           first == {mount}
           list == b.nodes
           grown == Chain(list, v, line, first, length)
           used == b.used \cup {mount}
           tails == b.tails \cup {Len(grown)}
           L == Len(list)
           K == Len(grown)
<1>1. M \in Nat \ {0} /\ MainLine(anchors) \in Lists(W)
  BY MainLineFacts, ListFacts
<1>2. v \in W /\ length \in Nat \ {0} /\ i \in Nat
  <2>1. beats[i] \in BeatRecords(V)
    OBVIOUS
  <2>2. v \in W /\ length \in BeatLengths
    BY <2>1 DEF BeatRecords
  <2>3. \A x \in BeatLengths : x \in Nat \ {0}
    BY CompileAssumption
  <2> QED BY <2>2, <2>3
<1>3. list \in Lists(W) /\ M <= L /\ b.tails \subseteq 1..L /\ L \in Nat
  <2>1. list \in Lists(W) /\ M <= L /\ b.tails \subseteq 1..L
    BY DEF Shorts, ShortRecords, Settled
  <2> QED BY <2>1, ListFacts
<1>4. mount \in 1..M
  BY <1>2, MountFacts
<1>5. line \in StoryLines /\ line # Main /\ line[1] = "B"
  BY <1>2, LinesTyped, SideLines
<1>6. new.nodes = grown /\ new.tails = tails
  BY DEF ShortBeat
<1>7. W \subseteq Int /\ v \in Nat /\ V \in Nat
  BY <1>2
<1> HIDE DEF mount, line, W, v, length, L, list
<1>8. mount \in 1..L /\ mount <= M
  BY <1>1, <1>3, <1>4
<1>9. Formed(M, list) /\ Sturdy(anchors, V, list) /\ Trimmed(b)
  BY DEF Sturdy, list
<1>10. list[mount].line = Main
  BY <1>1, <1>8, <1>9, FormedFacts DEF Trunk, L
<1>11. first \in SUBSET (1..Len(list)) /\ Rooted(M, list, v, line, first)
  BY <1>5, <1>8, <1>10 DEF Rooted, L
<1>12. line[1] \in {"S", "A", "B"} /\ (line[1] = "B" \/ V < v) /\ length \in Nat
  BY <1>2, <1>5
<1> HIDE DEF first, grown, K
<1>13. grown \in Lists(W)
  BY <1>2, <1>3, <1>5, <1>11, <1>12, ChainTyped DEF grown, L
<1>14. Links(grown, list, v, line, first, length)
  BY <1>3, <1>12, ChainLinks DEF grown
<1>15. Sturdy(anchors, V, grown) /\ Fresh(list, v, line, length, grown)
  BY <1>1, <1>3, <1>5, <1>7, <1>9, <1>11, <1>12, <1>13, <1>14, ChainSturdy DEF L
<1>16. /\ \A n \in (L + 1)..K : grown[n].kind = "NORMAL" /\ grown[n].line = line
       /\ \A n \in (L + 1)..(K - 1) : Followed(grown, n)
       /\ K = L + length
  BY <1>15 DEF Fresh, L, K
<1>17. \A n \in 1..L : n \in 1..K /\ grown[n] = list[n] /\ (Followed(list, n) => Followed(grown, n))
  <2>1. Begins(grown, list)
    BY <1>14 DEF Links
  <2> QED BY <1>1, <1>3, <1>13, <2>1, BeginsKeeps DEF L, K
<1>18. K \in (L + 1)..K /\ K \in Nat
  BY <1>2, <1>3, <1>16
<1>19. ASSUME NEW t \in tails
       PROVE  Tier(grown[t]) = "B" /\ grown[t].kind = "NORMAL"
  <2>1. CASE t = K
    BY <1>5, <1>16, <1>18, <2>1 DEF Tier
  <2>2. CASE t \in b.tails
    <3>1. Tier(list[t]) = "B" /\ list[t].kind = "NORMAL"
      BY <1>9, <2>2 DEF Trimmed, list
    <3> QED BY <1>3, <1>17, <2>2, <3>1
  <2> QED BY <2>1, <2>2 DEF K
<1>20. ASSUME NEW n \in 1..K, Tier(grown[n]) = "B"
       PROVE  Followed(grown, n) \/ n \in tails
  <2>1. CASE n \in 1..L
    <3>1. Tier(list[n]) = "B"
      BY <1>17, <1>20, <2>1
    <3>2. Followed(list, n) \/ n \in b.tails
      BY <1>9, <2>1, <3>1 DEF Trimmed, list, L
    <3> QED BY <1>17, <2>1, <3>2
  <2>2. CASE n \in (L + 1)..(K - 1)
    BY <1>16, <2>2
  <2>3. CASE n = K
    BY <2>3 DEF K
  <2> QED BY <1>3, <1>18, <2>1, <2>2, <2>3
<1>21. Trimmed(new)
  BY <1>6, <1>19, <1>20 DEF Trimmed, K
<1> QED BY <1>6, <1>15, <1>21

\* All short beats leave it so.
LEMMA ShortBeatsTrim ==
  ASSUME NEW V \in Nat \ {0}, NEW anchors \in AnchorCounts(V),
         NEW M, M = Len(MainLine(anchors)), NEW beats \in Seq(BeatRecords(V)),
         NEW ribs \in Lists(1..V), M <= Len(ribs),
         Sturdy(anchors, V, ribs), \A n \in 1..Len(ribs) : Tier(ribs[n]) # "B",
         NEW new, new = ShortBeats(ribs, anchors, beats)
  PROVE  Sturdy(anchors, V, new.nodes) /\ Trimmed(new)
<1> DEFINE N == Len(beats)
<1>0. PICK f \in [0..Len(beats) -> Shorts(1..V, M)] :
         /\ f[0] = [nodes |-> ribs, used |-> {}, tails |-> {}]
         /\ ShortBeats(ribs, anchors, beats) = f[Len(beats)]
         /\ \A k \in 1..Len(beats) : f[k] = ShortBeat(anchors, beats, f[k - 1], k)
  BY ShortBeatsFold
<1>1. /\ f \in [0..N -> Shorts(1..V, M)] /\ f[0].nodes = ribs /\ f[0].tails = {} /\ new = f[N]
      /\ \A k \in 1..N : f[k] = ShortBeat(anchors, beats, f[k - 1], k)
  BY <1>0
<1>N. N \in Nat /\ 1..N = 1..Len(beats)
  OBVIOUS
<1> HIDE DEF N
<1> DEFINE Good(n) == Sturdy(anchors, V, f[n].nodes) /\ Trimmed(f[n])
           I == {n \in Nat : n <= N => Good(n)}
<1>3. 0 \in I
  BY <1>1 DEF Trimmed
<1>4. ASSUME NEW n \in Nat, n \in I
      PROVE  n + 1 \in I
  <2> DEFINE m == n + 1
  <2> SUFFICES ASSUME m <= N PROVE Good(m)
    OBVIOUS
  <2>1. m \in 1..N /\ m - 1 = n /\ n \in 0..N /\ n <= N
    BY <1>N
  <2>2. Good(n)
    BY <1>4, <2>1
  <2> HIDE DEF m
  <2> DEFINE old == f[n]
             next == f[m]
  <2>3. next = ShortBeat(anchors, beats, old, m) /\ old \in Shorts(1..V, M)
        /\ m \in 1..Len(beats) /\ Sturdy(anchors, V, old.nodes) /\ Trimmed(old)
    BY <1>1, <1>N, <2>1, <2>2
  <2> HIDE DEF old, next
  <2>4. Sturdy(anchors, V, next.nodes) /\ Trimmed(next)
    BY <2>3, ShortBeatTrims
  <2> QED BY <2>4 DEF next
<1> HIDE DEF I
<1>5. Nat \subseteq I
  BY <1>3, <1>4, Induction
<1>6. N \in I /\ N <= N
  BY <1>N, <1>5
<1>7. Good(N)
  BY <1>6 DEF I
<1> QED BY <1>1, <1>7

\* A plan is a list whose checkpoints have gathered the tails, and the ending.
Crowned(plan, list, tails, V) ==
  LET L == Len(list) IN
  /\ Len(plan) = L + 1
  /\ \A n \in 1..L :
       /\ plan[n].kind = list[n].kind /\ plan[n].volume = list[n].volume
       /\ plan[n].line = list[n].line
       /\ list[n].kind # "CHECKPOINT" => plan[n] = list[n]
       /\ list[n].kind = "CHECKPOINT" =>
            plan[n].deps = list[n].deps \cup {t \in tails : list[t].volume = list[n].volume}
  /\ LET end == plan[L + 1] IN
       /\ end.kind = "ENDING" /\ end.volume = V /\ end.line = Main
       /\ end.deps = {n \in 1..L : list[n].kind = "CHECKPOINT"}

\* A node that gathers more changes in nothing else.
LEMMA GatherNode ==
  ASSUME NEW W, NEW x \in NodesOf(W), NEW more, NEW y,
         y = [x EXCEPT !.deps = @ \cup more]
  PROVE  /\ y.kind = x.kind /\ y.volume = x.volume /\ y.line = x.line
         /\ y.deps = x.deps \cup more
BY DEF NodesOf

\* That is what is built.
LEMMA PlanIsCrowned ==
  ASSUME NEW W, NEW V \in W, NEW M, NEW b \in Shorts(W, M),
         NEW plan, plan = WithEnding(Gather(b), V)
  PROVE  Crowned(plan, b.nodes, b.tails, V) /\ plan \in Lists(W)
<1> DEFINE list == b.nodes
           L == Len(list)
           g == Gather(b)
           more(n) == {t \in b.tails : list[t].volume = list[n].volume}
           joined(n) == [list[n] EXCEPT !.deps = @ \cup more(n)]
           e(n) == IF list[n].kind = "CHECKPOINT" THEN joined(n) ELSE list[n]
           deps == {n \in DOMAIN g : g[n].kind = "CHECKPOINT"}
           node == [kind |-> "ENDING", volume |-> V, main |-> TRUE, line |-> Main, deps |-> deps]
<1>1. list \in Lists(W)
  BY DEF Shorts, ShortRecords
<1>2. /\ L \in Nat /\ DOMAIN list = 1..L /\ \A n \in 1..L : list[n] \in NodesOf(W)
  BY <1>1, ListFacts
<1>3. g = [n \in 1..L |-> e(n)]
  BY <1>2 DEF Gather
<1>4. g \in Lists(W)
  BY GatherTyped
<1>5. plan \in Lists(W) /\ plan = Append(g, node)
  <2>1. plan = Append(g, node)
    BY Zenon DEF WithEnding
  <2> HIDE DEF g
  <2>2. WithEnding(g, V) \in Lists(W) /\ plan = WithEnding(g, V)
    BY <1>4, WithEndingTyped DEF g
  <2> QED BY <2>1, <2>2
<1>6. node.kind = "ENDING" /\ node.volume = V /\ node.line = Main /\ node.deps = deps
  OBVIOUS
<1> HIDE DEF list, L, more
<1>7. ASSUME NEW n \in 1..L, list[n].kind = "CHECKPOINT"
      PROVE  /\ g[n].kind = list[n].kind /\ g[n].volume = list[n].volume /\ g[n].line = list[n].line
             /\ g[n].deps = list[n].deps \cup more(n)
  <2> DEFINE x == list[n]
             y == g[n]
             m == more(n)
  <2>1. y = [x EXCEPT !.deps = @ \cup m]
    BY <1>3, <1>7
  <2>2. x \in NodesOf(W)
    BY <1>2
  <2> HIDE DEF x, y, m
  <2>3. y.kind = x.kind /\ y.volume = x.volume /\ y.line = x.line /\ y.deps = x.deps \cup m
    BY <2>1, <2>2, GatherNode
  <2> QED BY <2>3 DEF x, y, m
<1>8. ASSUME NEW n \in 1..L, list[n].kind # "CHECKPOINT"
      PROVE  g[n] = list[n]
  BY <1>3, <1>8
<1>9. DOMAIN g = 1..L
  BY <1>3
<1> HIDE DEF g, e, joined, node
<1>10. Len(g) = L /\ g \in Seq(NodesOf(W))
  BY <1>2, <1>4, <1>9, ListFacts
<1>11. Len(plan) = L + 1 /\ plan[L + 1] = node /\ \A n \in 1..L : plan[n] = g[n]
  <2> DEFINE X == NodesOf(W) \cup {node}
  <2>1. g \in Seq(X) /\ node \in X
    BY <1>10
  <2> HIDE DEF X
  <2> QED BY <1>2, <1>5, <1>10, <2>1
<1>12. deps = {n \in 1..L : list[n].kind = "CHECKPOINT"}
  <2>1. \A n \in 1..L : g[n].kind = list[n].kind
    BY <1>7, <1>8
  <2> QED BY <1>9, <2>1
<1> HIDE DEF deps
<1>13. \A n \in 1..L :
         /\ plan[n].kind = list[n].kind /\ plan[n].volume = list[n].volume
         /\ plan[n].line = list[n].line
         /\ list[n].kind # "CHECKPOINT" => plan[n] = list[n]
         /\ list[n].kind = "CHECKPOINT" => plan[n].deps = list[n].deps \cup more(n)
  BY <1>7, <1>8, <1>11
<1>14. /\ plan[L + 1].kind = "ENDING" /\ plan[L + 1].volume = V /\ plan[L + 1].line = Main
       /\ plan[L + 1].deps = {n \in 1..L : list[n].kind = "CHECKPOINT"}
  BY <1>6, <1>11, <1>12
<1>15. Crowned(plan, list, b.tails, V)
  BY <1>11, <1>13, <1>14 DEF Crowned, L, more
<1> QED BY <1>5, <1>15 DEF list

\* What the plan of a compile is like: K nodes and the ending.
Bound(plan, K, c) ==
  /\ \E m, n \in plan[c].deps : m # n
  /\ \A n \in 1..K :
       plan[n].kind = "NORMAL" /\ plan[n].volume = plan[c].volume /\ ~Followed(plan, n)
         => n \in plan[c].deps
Fished(anchors, V, plan) ==
  LET M == Len(MainLine(anchors))
      K == Len(plan) - 1
  IN  /\ M <= K /\ Begins(plan, MainLine(anchors))
      /\ \A n \in 1..K : IF n <= M THEN Trunk(plan, n) ELSE Joint(plan, n) \/ Rib(M, plan, n)
      /\ \A n \in 1..K : Staged(plan, n)
      /\ \A c \in 1..K : plan[c].kind = "CHECKPOINT" => Bound(plan, K, c)
      /\ \A v \in 1..V : \E c \in 1..K : plan[c].kind = "CHECKPOINT" /\ plan[c].volume = v
      /\ plan[K + 1].kind = "ENDING" /\ plan[K + 1].volume = V /\ plan[K + 1].line = Main
      /\ plan[K + 1].deps = {c \in 1..K : plan[c].kind = "CHECKPOINT"}

\* The plan stands.
LEMMA CrownedIsFished ==
  ASSUME NEW V \in Nat \ {0}, NEW anchors \in AnchorCounts(V), NEW M, M = Len(MainLine(anchors)),
         NEW list \in Lists(1..V), NEW tails \in SUBSET (1..Len(list)),
         Sturdy(anchors, V, list),
         \A t \in tails : Tier(list[t]) = "B" /\ list[t].kind = "NORMAL",
         \A n \in 1..Len(list) : Tier(list[n]) = "B" => Followed(list, n) \/ n \in tails,
         NEW plan \in Lists(1..V), Crowned(plan, list, tails, V)
  PROVE  Fished(anchors, V, plan)
<1> DEFINE L == Len(list)
           K == Len(plan) - 1
           more(n) == {t \in tails : list[t].volume = list[n].volume}
<1>1. M \in Nat \ {0} /\ L \in Nat /\ Len(plan) \in Nat /\ \A n \in 1..L : list[n].deps \subseteq 1..L
  BY MainLineFacts, ListFacts
<1>2. /\ Len(plan) = L + 1
      /\ \A n \in 1..L :
           /\ plan[n].kind = list[n].kind /\ plan[n].volume = list[n].volume
           /\ plan[n].line = list[n].line
           /\ list[n].kind # "CHECKPOINT" => plan[n] = list[n]
           /\ list[n].kind = "CHECKPOINT" => plan[n].deps = list[n].deps \cup more(n)
      /\ plan[L + 1].kind = "ENDING" /\ plan[L + 1].volume = V /\ plan[L + 1].line = Main
      /\ plan[L + 1].deps = {n \in 1..L : list[n].kind = "CHECKPOINT"}
  BY DEF Crowned
<1>3. K = L
  BY <1>1, <1>2
<1>4. /\ Begins(list, MainLine(anchors)) /\ Formed(M, list)
      /\ \A n \in 1..L : Staged(list, n)
      /\ \A c \in 1..L : list[c].kind = "CHECKPOINT" => list[c].volume <= V /\ Gathers(list, c)
      /\ \A v \in 1..V : \E c \in 1..L : list[c].kind = "CHECKPOINT" /\ list[c].volume = v
  BY DEF Sturdy
<1>5. \A n \in 1..L : Tier(plan[n]) = Tier(list[n])
  BY <1>2 DEF Tier
<1>6. tails \subseteq 1..L
  OBVIOUS
<1>7. M <= L
  BY <1>4 DEF Begins
<1> HIDE DEF L, K, more
<1>8. ShortNodes(list) \subseteq ShortNodes(plan) /\ tails \subseteq ShortNodes(list)
  <2>1. \A n \in 1..L : n \in 1..Len(plan)
    BY <1>1, <1>2
  <2> QED BY <1>5, <1>6, <2>1 DEF ShortNodes, L
<1>9. ASSUME NEW n \in 1..M
      PROVE  Trunk(plan, n) /\ plan[n] = list[n]
  <2>1. n \in 1..L /\ n <= M
    BY <1>1, <1>7
  <2>2. Trunk(list, n)
    BY <1>1, <1>4, <2>1, FormedFacts DEF L
  <2>3. plan[n] = list[n]
    BY <1>2, <2>1, <2>2 DEF Trunk
  <2> QED BY <2>2, <2>3 DEF Trunk
<1>10. ASSUME NEW n \in 1..L, ~(n <= M), list[n].kind = "NORMAL"
       PROVE  Rib(M, plan, n)
  <2>1. Rib(M, list, n) /\ plan[n] = list[n]
    BY <1>1, <1>2, <1>4, <1>10, FormedFacts DEF L
  <2>2. \A m \in list[n].deps : plan[m].line = list[m].line
    BY <1>1, <1>2
  <2> QED BY <2>1, <2>2 DEF Rib
<1>11. ASSUME NEW n \in 1..L, list[n].kind = "CHECKPOINT"
       PROVE  Joint(plan, n) /\ ~(n <= M)
  <2>1. Joint(list, n) /\ ~(n <= M)
    BY <1>1, <1>4, <1>11, FormedFacts DEF L
  <2>2. plan[n].deps = list[n].deps \cup more(n) /\ plan[n].kind = "CHECKPOINT"
        /\ plan[n].line = list[n].line
    BY <1>2, <1>11
  <2>3. more(n) \subseteq ShortNodes(plan)
    BY <1>8 DEF more
  <2> QED BY <1>8, <2>1, <2>2, <2>3 DEF Joint
<1>12. \A n \in 1..L : IF n <= M THEN Trunk(plan, n) ELSE Joint(plan, n) \/ Rib(M, plan, n)
  <2> SUFFICES ASSUME NEW n \in 1..L
               PROVE  IF n <= M THEN Trunk(plan, n) ELSE Joint(plan, n) \/ Rib(M, plan, n)
    OBVIOUS
  <2>1. CASE n <= M
    <3>1. n \in 1..M
      BY <1>1, <2>1
    <3> QED BY <1>9, <2>1, <3>1
  <2>2. CASE ~(n <= M)
    <3>1. list[n].kind \in {"NORMAL", "CHECKPOINT"}
      BY <1>1, <1>4, FormedFacts DEF L
    <3> QED BY <1>10, <1>11, <2>2, <3>1
  <2> QED BY <2>1, <2>2
<1>13. \A n \in 1..L : Staged(plan, n)
  <2> SUFFICES ASSUME NEW n \in 1..L, Tier(plan[n]) = "S", plan[n].volume > 1
               PROVE  \E m \in plan[n].deps :
                        \/ plan[m].kind = "CHECKPOINT" /\ plan[m].volume = plan[n].volume - 1
                        \/ plan[m].line = plan[n].line /\ plan[m].volume = plan[n].volume
    BY DEF Staged
  <2>1. Tier(list[n]) = "S" /\ list[n].volume > 1 /\ Staged(list, n)
    BY <1>2, <1>4, <1>5
  <2>2. PICK m \in list[n].deps :
           \/ list[m].kind = "CHECKPOINT" /\ list[m].volume = list[n].volume - 1
           \/ list[m].line = list[n].line /\ list[m].volume = list[n].volume
    BY <2>1 DEF Staged
  <2>3. m \in 1..L
    BY <1>1
  <2>4. m \in plan[n].deps
    <3>1. CASE list[n].kind = "CHECKPOINT"
      BY <1>2, <3>1
    <3>2. CASE list[n].kind # "CHECKPOINT"
      BY <1>2, <3>2
    <3> QED BY <3>1, <3>2
  <2> QED BY <1>2, <2>2, <2>3, <2>4
<1>14. ASSUME NEW n \in 1..L, Followed(list, n)
       PROVE  Followed(plan, n)
  <2>1. PICK m \in (n + 1)..L :
           /\ list[m].kind = "NORMAL" /\ list[m].volume = list[n].volume
           /\ list[m].line = list[n].line /\ n \in list[m].deps
    BY <1>14 DEF Followed, L
  <2>2. m \in 1..L /\ m \in (n + 1)..Len(plan)
    BY <1>1, <1>2
  <2>3. plan[m] = list[m] /\ plan[n].volume = list[n].volume /\ plan[n].line = list[n].line
    BY <1>2, <2>1, <2>2
  <2> QED BY <2>1, <2>2, <2>3 DEF Followed
<1>15. ASSUME NEW c \in 1..L, plan[c].kind = "CHECKPOINT"
       PROVE  Bound(plan, L, c)
  <2>1. list[c].kind = "CHECKPOINT" /\ plan[c].deps = list[c].deps \cup more(c)
    BY <1>2, <1>15
  <2>2. Gathers(list, c)
    BY <1>4, <2>1
  <2>3. \E m, n \in plan[c].deps : m # n
    <3>1. \E m, n \in list[c].deps : m # n
      BY <2>2 DEF Gathers
    <3> QED BY <2>1, <3>1
  <2>4. ASSUME NEW n \in 1..L, plan[n].kind = "NORMAL", plan[n].volume = plan[c].volume,
               ~Followed(plan, n)
        PROVE  n \in plan[c].deps
    <3>1. list[n].kind = "NORMAL" /\ list[n].volume = list[c].volume /\ ~Followed(list, n)
      BY <1>2, <1>14, <2>4
    <3>2. CASE Tier(list[n]) = "B"
      <4>1. n \in tails
        BY <3>1, <3>2 DEF L
      <4> QED BY <2>1, <3>1, <4>1 DEF more
    <3>3. CASE Tier(list[n]) # "B"
      <4>1. n \in list[c].deps
        BY <2>2, <3>1, <3>3 DEF Gathers, L
      <4> QED BY <2>1, <4>1
    <3> QED BY <3>2, <3>3
  <2> QED BY <2>3, <2>4 DEF Bound
<1>16. \A v \in 1..V : \E c \in 1..L : plan[c].kind = "CHECKPOINT" /\ plan[c].volume = v
  BY <1>2, <1>4
<1>17. Begins(plan, MainLine(anchors))
  <2>1. \A n \in 1..M : list[n] = MainLine(anchors)[n]
    BY <1>4 DEF Begins
  <2>2. \A n \in 1..M : plan[n] = MainLine(anchors)[n]
    BY <1>9, <2>1
  <2>3. M <= Len(plan)
    BY <1>1, <1>2, <1>7
  <2> QED BY <2>2, <2>3 DEF Begins
<1>18. plan[L + 1].deps = {c \in 1..L : plan[c].kind = "CHECKPOINT"}
  BY <1>2
<1>19. /\ plan[L + 1].kind = "ENDING" /\ plan[L + 1].volume = V /\ plan[L + 1].line = Main
  BY <1>2
<1> QED BY <1>3, <1>7, <1>12, <1>13, <1>15, <1>16, <1>17, <1>18, <1>19 DEF Fished, K

\* _build_fishbone_anchor_nodes: whatever the generator chooses, the plan stands.
LEMMA FishboneStands ==
  ASSUME NEW V \in Nat \ {0}, NEW anchors \in AnchorCounts(V), NEW S \in Nat \ {0},
         NEW c, Chosen(c, anchors, V, S), NEW plan, plan = FishboneNodes(anchors, c)
  PROVE  plan \in Lists(1..V) /\ Fished(anchors, V, plan)
<1> DEFINE M == Len(MainLine(anchors))
           ribs == Ribs(anchors, c)
           beats == c.beats
           b == ShortBeats(ribs, anchors, beats)
           W == 1..V
<1>1. /\ ribs \in Lists(W) /\ Sturdy(anchors, V, ribs)
      /\ \A n \in 1..Len(ribs) : Tier(ribs[n]) # "B"
  BY RibsWoven
<1>2. M <= Len(ribs)
  BY <1>1 DEF Sturdy, Begins
<1>3. beats \in Seq(BeatRecords(V))
  BY DEF Chosen
<1>4. Len(anchors) = V /\ V \in W
  BY DEF AnchorCounts
<1>5. plan = WithEnding(Gather(b), V)
  BY <1>4 DEF FishboneNodes
<1> HIDE DEF ribs, beats
<1>6. b \in Shorts(W, M)
  BY <1>1, <1>2, <1>3, ShortBeatsTyped
<1>7. Sturdy(anchors, V, b.nodes) /\ Trimmed(b)
  BY <1>1, <1>2, <1>3, ShortBeatsTrim
<1> HIDE DEF b, W, M
<1>8. Crowned(plan, b.nodes, b.tails, V) /\ plan \in Lists(W)
  BY <1>4, <1>5, <1>6, PlanIsCrowned
<1> DEFINE list == b.nodes
           tails == b.tails
<1>9. list \in Lists(W) /\ tails \in SUBSET (1..Len(list))
  BY <1>6 DEF Shorts, ShortRecords, Settled
<1>10. /\ \A t \in tails : Tier(list[t]) = "B" /\ list[t].kind = "NORMAL"
       /\ \A n \in 1..Len(list) : Tier(list[n]) = "B" => Followed(list, n) \/ n \in tails
  BY <1>7 DEF Trimmed
<1>11. Sturdy(anchors, V, list) /\ Crowned(plan, list, tails, V)
  BY <1>7, <1>8
<1> HIDE DEF list, tails
<1>12. Fished(anchors, V, plan)
  BY <1>8, <1>9, <1>10, <1>11, CrownedIsFished DEF W
<1> QED BY <1>8, <1>12 DEF W

-----------------------------------------------------------------------------
(* What the checks find in a plan that stands. *)

\* A bounded set of numbers has a greatest one.
LEMMA GreatestNumber ==
  ASSUME NEW K \in Nat, NEW S \in SUBSET (1..K), S # {}
  PROVE  \E n \in S : \A m \in S : m <= n
<1> DEFINE T == {K - n : n \in S}
<1>0. S # {} /\ \A n \in S : n \in Nat /\ K - n \in Nat
  OBVIOUS
<1>1. T \in SUBSET Nat /\ T # {}
  BY <1>0
<1>2. \E d \in T : \A e \in T : d <= e
  <2> HIDE DEF T
  <2> QED BY <1>1, LeastNumber
<1>3. PICK d \in T : \A e \in T : d <= e
  BY <1>2
<1>4. PICK n \in S : d = K - n
  OBVIOUS
<1>5. ASSUME NEW m \in S
      PROVE  m <= n
  <2>1. K - m \in T /\ m \in 1..K /\ n \in 1..K
    OBVIOUS
  <2>2. d <= K - m
    BY <1>3, <2>1
  <2> QED BY <1>4, <2>1, <2>2
<1> QED BY <1>5

\* What the nodes of a plan that stands are: M on the main storyline, K before the ending.
PlanFacts(V, M, K, plan) ==
  /\ K \in Nat /\ M \in Nat \ {0} /\ M <= K /\ Len(plan) = K + 1
  /\ DOMAIN plan = 1..(K + 1) /\ IsFiniteSet(DOMAIN plan)
  /\ \A n \in 1..(K + 1) : plan[n].deps \subseteq 1..(K + 1) /\ plan[n].volume \in 1..V
  /\ \A n \in 1..K : plan[n].kind \in {"NORMAL", "CHECKPOINT"}
  /\ \A n \in 1..K : plan[n].kind = "CHECKPOINT" => Joint(plan, n) /\ ~(n <= M)
  /\ \A n \in 1..K : plan[n].kind = "NORMAL" => plan[n].deps \subseteq 1..(n - 1)
  /\ \A n \in 1..K : n <= M => Trunk(plan, n)
  /\ \A n \in 1..K : plan[n].kind = "NORMAL" /\ ~(n <= M) => Rib(M, plan, n)

\* That is what they are.
LEMMA FishedFacts ==
  ASSUME NEW V \in Nat \ {0}, NEW anchors \in AnchorCounts(V), NEW plan \in Lists(1..V),
         Fished(anchors, V, plan), NEW M, M = Len(MainLine(anchors)), NEW K, K = Len(plan) - 1
  PROVE  PlanFacts(V, M, K, plan)
<1>1. M \in Nat \ {0}
  BY MainLineFacts, ListFacts
<1>2. M <= K /\ \A n \in 1..K : IF n <= M THEN Trunk(plan, n) ELSE Joint(plan, n) \/ Rib(M, plan, n)
  BY DEF Fished
<1>3. Len(plan) \in Nat /\ DOMAIN plan = 1..Len(plan)
      /\ \A n \in 1..Len(plan) : plan[n] \in NodesOf(1..V) /\ plan[n].deps \subseteq 1..Len(plan)
  BY ListFacts
<1>4. K \in Nat /\ Len(plan) = K + 1
  BY <1>1, <1>2, <1>3
<1>5. \A n \in 1..(K + 1) : plan[n].deps \subseteq 1..(K + 1) /\ plan[n].volume \in 1..V
  <2> DEFINE W == 1..V
  <2>1. \A x \in NodesOf(W) : x.volume \in W
    BY DEF NodesOf
  <2> HIDE DEF W
  <2>2. \A n \in 1..(K + 1) : plan[n] \in NodesOf(W) /\ plan[n].deps \subseteq 1..(K + 1)
    BY <1>3, <1>4 DEF W
  <2> QED BY <2>1, <2>2 DEF W
<1>6. IsFiniteSet(DOMAIN plan)
  <2> DEFINE L == Len(plan)
  <2>1. L \in Int /\ 1 \in Int /\ DOMAIN plan = 1..L
    BY <1>3
  <2> HIDE DEF L
  <2>2. IsFiniteSet(1..L)
    BY <2>1, FS_Interval
  <2> QED BY <2>1, <2>2
<1> HIDE DEF Fished
<1>7. ASSUME NEW n \in 1..K
      PROVE  /\ plan[n].kind \in {"NORMAL", "CHECKPOINT"}
             /\ plan[n].kind = "CHECKPOINT" => Joint(plan, n) /\ ~(n <= M)
             /\ plan[n].kind = "NORMAL" => plan[n].deps \subseteq 1..(n - 1)
             /\ n <= M => Trunk(plan, n)
             /\ plan[n].kind = "NORMAL" /\ ~(n <= M) => Rib(M, plan, n)
  <2>1. Trunk(plan, n) => plan[n].kind = "NORMAL" /\ plan[n].deps \subseteq 1..(n - 1)
    BY DEF Trunk
  <2>2. Rib(M, plan, n) => plan[n].kind = "NORMAL" /\ plan[n].deps \subseteq 1..(n - 1)
    BY DEF Rib
  <2>3. Joint(plan, n) => plan[n].kind = "CHECKPOINT"
    BY DEF Joint
  <2> QED BY <1>2, <2>1, <2>2, <2>3
<1> QED BY <1>1, <1>2, <1>3, <1>4, <1>5, <1>6, <1>7 DEF PlanFacts

\* What a short beat depends on lies on the main storyline or on its own.
LEMMA ShortDeps ==
  ASSUME NEW M \in Nat, NEW plan, NEW n, Rib(M, plan, n), Tier(plan[n]) = "B", NEW m \in plan[n].deps
  PROVE  m <= M \/ Tier(plan[m]) = "B"
<1>1. m <= M \/ plan[m].line = plan[n].line
  BY DEF Rib
<1> QED BY <1>1 DEF Tier

\* _build_fishbone_anchor_nodes: no cycle is built.
LEMMA FishedIsAcyclic ==
  ASSUME NEW V \in Nat \ {0}, NEW anchors \in AnchorCounts(V), NEW plan \in Lists(1..V),
         Fished(anchors, V, plan)
  PROVE  Acyclic(plan)
<1> DEFINE M == Len(MainLine(anchors))
           K == Len(plan) - 1
<1>0. PlanFacts(V, M, K, plan)
  BY FishedFacts
<1>1. /\ K \in Nat /\ M \in Nat \ {0} /\ M <= K /\ Len(plan) = K + 1
      /\ DOMAIN plan = 1..(K + 1) /\ IsFiniteSet(DOMAIN plan)
      /\ \A n \in 1..K : plan[n].kind \in {"NORMAL", "CHECKPOINT"}
      /\ \A n \in 1..K : plan[n].kind = "CHECKPOINT" => Joint(plan, n) /\ ~(n <= M)
      /\ \A n \in 1..K : plan[n].kind = "NORMAL" => plan[n].deps \subseteq 1..(n - 1)
      /\ \A n \in 1..K : n <= M => Trunk(plan, n)
      /\ \A n \in 1..K : plan[n].kind = "NORMAL" /\ ~(n <= M) => Rib(M, plan, n)
  <2> HIDE DEF M, K
  <2> QED BY <1>0 DEF PlanFacts
<1>2. plan[K + 1].line = Main /\ plan[K + 1].deps = {c \in 1..K : plan[c].kind = "CHECKPOINT"}
  BY DEF Fished
<1> HIDE DEF M, K
<1>3. Tier(plan[K + 1]) # "B" /\ \A n \in 1..K : plan[n].kind = "CHECKPOINT" => Tier(plan[n]) # "B"
  <2>1. \A n \in 1..K : Joint(plan, n) => plan[n].line = Main
    BY DEF Joint
  <2> QED BY <1>1, <1>2, <2>1 DEF Tier, Main, Line
<1>4. ASSUME NEW S \in SUBSET (1..(K + 1)), S # {}
      PROVE  \E n \in S : plan[n].deps \cap S = {}
  <2> DEFINE D == {n \in S : n <= M \/ Tier(plan[n]) = "B"}
  <2>1. S \in SUBSET Nat /\ D \in SUBSET Nat /\ \A n \in S : n = K + 1 \/ n \in 1..K
    <3>1. K \in Nat
      BY <1>1
    <3>2. \A n \in 1..(K + 1) : n \in Nat /\ (n = K + 1 \/ n \in 1..K)
      BY <3>1
    <3> QED BY <1>4, <3>2
  <2>2. CASE D # {}
    <3>1. \E n \in D : \A m \in D : n <= m
      <4> HIDE DEF D
      <4> QED BY <2>1, <2>2, LeastNumber
    <3>2. PICK n \in D : \A m \in D : n <= m
      BY <3>1
    <3>3. n \in 1..K /\ plan[n].kind = "NORMAL"
      <4>1. n \in 1..K
        BY <1>1, <1>3, <2>1
      <4>2. n <= M => plan[n].kind = "NORMAL"
        BY <1>1, <4>1 DEF Trunk
      <4> QED BY <1>1, <1>3, <4>1, <4>2
    <3>4. plan[n].deps \subseteq 1..(n - 1)
      BY <1>1, <3>3
    <3>5. ASSUME NEW m \in plan[n].deps, m \in S
          PROVE  m \in D
      <4>1. CASE n <= M
        BY <1>1, <3>3, <3>4, <3>5, <4>1
      <4>2. CASE ~(n <= M)
        <5>1. Rib(M, plan, n) /\ Tier(plan[n]) = "B" /\ M \in Nat
          BY <1>1, <3>3, <4>2
        <5> QED BY <3>5, <5>1, ShortDeps
      <4> QED BY <4>1, <4>2
    <3>6. \A m \in plan[n].deps : ~(n <= m)
      BY <3>3, <3>4
    <3> QED BY <3>2, <3>5, <3>6
  <2>3. CASE D = {}
    <3>1. PICK n \in S : \A m \in S : n <= m
      BY <1>4, <2>1, LeastNumber
    <3>2. ASSUME NEW m \in plan[n].deps, m \in S
          PROVE  FALSE
      <4>1. n <= m /\ m \in Nat /\ n \in Nat /\ Tier(plan[m]) # "B"
        BY <2>1, <2>3, <3>1, <3>2
      <4>2. CASE n = K + 1
        BY <1>1, <1>2, <4>1, <4>2
      <4>3. CASE n \in 1..K /\ plan[n].kind = "NORMAL"
        <5>1. plan[n].deps \subseteq 1..(n - 1)
          BY <1>1, <4>3
        <5> QED BY <4>1, <4>3, <5>1
      <4>4. CASE n \in 1..K /\ plan[n].kind = "CHECKPOINT"
        <5>1. Joint(plan, n)
          BY <1>1, <4>4
        <5>2. m \in 1..(n - 1)
          BY <3>2, <4>1, <5>1 DEF Joint, ShortNodes
        <5> QED BY <4>1, <4>4, <5>2
      <4> QED BY <1>1, <2>1, <4>2, <4>3, <4>4
    <3> QED BY <3>2
  <2> QED BY <2>2, <2>3
<1> QED BY <1>1, <1>4, AcyclicMeansFounded

\* What leads to a checkpoint is all its volume has.
LEMMA GatheredBy ==
  ASSUME NEW V \in Nat \ {0}, NEW anchors \in AnchorCounts(V), NEW plan \in Lists(1..V),
         Fished(anchors, V, plan), NEW K, K = Len(plan) - 1,
         NEW R, StepBack(plan, R) = R,
         NEW c \in 1..K, plan[c].kind = "CHECKPOINT", c \in R,
         NEW n \in 1..K, plan[n].kind = "NORMAL", plan[n].volume = plan[c].volume
  PROVE  n \in R
<1> DEFINE v == plan[c].volume
           Bad == {i \in 1..K : plan[i].kind = "NORMAL" /\ plan[i].volume = v /\ i \notin R}
<1>1. /\ K \in Nat /\ Len(plan) = K + 1 /\ DOMAIN plan = 1..(K + 1)
      /\ \A i \in 1..(K + 1) : plan[i].deps \subseteq 1..(K + 1)
  <2> DEFINE M == Len(MainLine(anchors))
  <2>1. PlanFacts(V, M, K, plan)
    BY FishedFacts
  <2> HIDE DEF M
  <2> QED BY <2>1 DEF PlanFacts
<1>2. plan[K + 1].kind = "ENDING" /\ Bound(plan, K, c)
  BY DEF Fished
<1>3. \A m \in R \cap DOMAIN plan : plan[m].deps \subseteq R
  BY <1>1 DEF StepBack
<1> SUFFICES ASSUME Bad # {} PROVE FALSE
  OBVIOUS
<1>4. \E i \in Bad : \A j \in Bad : j <= i
  <2>1. Bad \in SUBSET (1..K)
    OBVIOUS
  <2> HIDE DEF Bad
  <2> QED BY <1>1, <2>1, GreatestNumber
<1>5. PICK i \in Bad : \A j \in Bad : j <= i
  BY <1>4
<1>6. CASE Followed(plan, i)
  <2>1. PICK m \in (i + 1)..Len(plan) :
           /\ plan[m].kind = "NORMAL" /\ plan[m].volume = v /\ i \in plan[m].deps
    BY <1>6 DEF Followed
  <2>2. m \in 1..K /\ ~(m <= i)
    BY <1>1, <1>2, <2>1
  <2>3. m \in R
    BY <1>5, <2>1, <2>2
  <2>4. m \in DOMAIN plan
    BY <1>1, <2>2
  <2> QED BY <1>3, <2>1, <2>3, <2>4
<1>7. CASE ~Followed(plan, i)
  <2>1. i \in plan[c].deps
    BY <1>2, <1>7 DEF Bound
  <2>2. c \in DOMAIN plan
    BY <1>1
  <2> QED BY <1>3, <2>1, <2>2
<1> QED BY <1>6, <1>7

\* What lies on the main storyline lies on no side arc.
LEMMA MainIsNotSide ==
  ASSUME NEW node, node.line = Main
  PROVE  Tier(node) = "MAIN" /\ ~Side(node)
<1>1. Tier(node) = "MAIN"
  BY DEF Tier, Main, Line
<1> QED BY <1>1 DEF Side

\* What a plan that stands ends with, and what holds its parts together.
PlanEnds(V, K, plan) ==
  /\ plan[K + 1].kind = "ENDING" /\ plan[K + 1].volume = V /\ plan[K + 1].line = Main
  /\ plan[K + 1].deps = {c \in 1..K : plan[c].kind = "CHECKPOINT"}
  /\ \A v \in 1..V : \E c \in 1..K : plan[c].kind = "CHECKPOINT" /\ plan[c].volume = v
  /\ \A c \in 1..K : plan[c].kind = "CHECKPOINT" => Bound(plan, K, c)
  /\ \A n \in 1..K : Staged(plan, n)

\* That is what such a plan is.
LEMMA FishedEnds ==
  ASSUME NEW V, NEW anchors, NEW plan, Fished(anchors, V, plan), NEW K, K = Len(plan) - 1
  PROVE  PlanEnds(V, K, plan)
BY DEF Fished, PlanEnds

\* Where the nodes are that are no endings, no checkpoints or lie on side arcs.
LEMMA PlanPlaces ==
  ASSUME NEW V, NEW M, NEW K, NEW plan, PlanFacts(V, M, K, plan), PlanEnds(V, K, plan),
         NEW n \in DOMAIN plan
  PROVE  /\ n = K + 1 \/ n \in 1..K
         /\ n = K + 1 <=> plan[n].kind = "ENDING"
         /\ n \in 1..K <=> plan[n].kind \in {"NORMAL", "CHECKPOINT"}
         /\ plan[n].kind \in {"NORMAL", "CHECKPOINT", "ENDING"}
         /\ plan[n].kind # "NORMAL" => plan[n].line = Main
         /\ plan[n].line # Main => Rib(M, plan, n) /\ ~(n <= M)
<1>1. /\ K \in Nat /\ M \in Nat /\ DOMAIN plan = 1..(K + 1)
      /\ \A i \in 1..K : plan[i].kind \in {"NORMAL", "CHECKPOINT"}
      /\ \A i \in 1..K : plan[i].kind = "CHECKPOINT" => Joint(plan, i) /\ ~(i <= M)
      /\ \A i \in 1..K : i <= M => Trunk(plan, i)
      /\ \A i \in 1..K : plan[i].kind = "NORMAL" /\ ~(i <= M) => Rib(M, plan, i)
  BY DEF PlanFacts
<1>2. plan[K + 1].kind = "ENDING" /\ plan[K + 1].line = Main
  BY DEF PlanEnds
<1>3. n = K + 1 \/ n \in 1..K
  BY <1>1
<1>4. CASE n = K + 1
  <2>1. n \notin 1..K
    BY <1>1, <1>4
  <2> QED BY <1>2, <1>4, <2>1
<1>5. CASE n \in 1..K
  <2>1. n # K + 1 /\ plan[n].kind \in {"NORMAL", "CHECKPOINT"}
    BY <1>1, <1>5
  <2>2. plan[n].kind = "CHECKPOINT" => plan[n].line = Main
    BY <1>1, <1>5 DEF Joint
  <2>3. n <= M => plan[n].line = Main
    BY <1>1, <1>5 DEF Trunk
  <2> QED BY <1>1, <1>5, <2>1, <2>2, <2>3
<1> QED BY <1>3, <1>4, <1>5

\* _validate_fork_merge: there are neither forks nor merges to object to.
LEMMA NoForks ==
  ASSUME NEW V, NEW M, NEW K, NEW plan, PlanFacts(V, M, K, plan), PlanEnds(V, K, plan)
  PROVE  ForkMerge(plan)
<1>1. \A n \in DOMAIN plan : plan[n].kind \in {"NORMAL", "CHECKPOINT", "ENDING"}
  BY PlanPlaces
<1>2. \A n \in DOMAIN plan : plan[n].kind # "FORK" /\ plan[n].kind # "MERGE"
  BY <1>1
<1> QED BY <1>2 DEF ForkMerge

\* Side arcs hang on the main storyline or on themselves.
LEMMA RibsHang ==
  ASSUME NEW V, NEW M, NEW K, NEW plan, PlanFacts(V, M, K, plan), PlanEnds(V, K, plan)
  PROVE  FishboneDependencies(plan)
<1> SUFFICES ASSUME NEW n \in DOMAIN plan, NEW m \in plan[n].deps \cap DOMAIN plan,
                    Side(plan[n]), Side(plan[m])
             PROVE  plan[n].line = plan[m].line
  BY DEF FishboneDependencies
<1>1. plan[n].line # Main /\ plan[m].line # Main
  BY MainIsNotSide
<1>2. Rib(M, plan, n)
  BY <1>1, PlanPlaces
<1> QED BY <1>1, <1>2 DEF Rib

\* From side arcs the checkpoint of their volume is reached.
LEMMA ArcsConverge ==
  ASSUME NEW V \in Nat \ {0}, NEW anchors \in AnchorCounts(V), NEW plan \in Lists(1..V),
         Fished(anchors, V, plan), NEW M, M = Len(MainLine(anchors)),
         NEW K, K = Len(plan) - 1, PlanFacts(V, M, K, plan), PlanEnds(V, K, plan), NEW named
  PROVE  TierConvergence(plan, named)
<1> DEFINE targets == Terminals(plan) \cup named
           R == Reaching(plan, targets)
<1> SUFFICES ASSUME NEW n \in DOMAIN plan, Tier(plan[n]) \in {"S", "A"}
             PROVE  n \in R
  BY DEF TierConvergence
<1>1. IsFiniteSet(DOMAIN plan)
  BY DEF PlanFacts
<1> HIDE DEF targets
<1>2. targets \subseteq R /\ StepBack(plan, R) = R
  BY <1>1, ReachingIsClosed
<1>3. plan[n].line # Main
  BY MainIsNotSide
<1>4. n \in 1..K /\ plan[n].kind = "NORMAL"
  BY <1>3, PlanPlaces
<1>5. plan[n].volume \in 1..V /\ 1..K \subseteq DOMAIN plan
  BY <1>4 DEF PlanFacts
<1>6. PICK c \in 1..K : plan[c].kind = "CHECKPOINT" /\ plan[c].volume = plan[n].volume
  BY <1>5 DEF PlanEnds
<1>7. c \in R
  BY <1>2, <1>5, <1>6 DEF targets, Terminals
<1> HIDE DEF R
<1> QED BY <1>2, <1>4, <1>6, <1>7, GatheredBy

\* _validate_checkpoint_strict_join: a checkpoint joins what its volume ends in.
LEMMA CheckpointsJoin ==
  ASSUME NEW V, NEW M, NEW K, NEW plan, K = Len(plan) - 1,
         PlanFacts(V, M, K, plan), PlanEnds(V, K, plan)
  PROVE  StrictJoin(plan)
<1> SUFFICES ASSUME NEW c \in DOMAIN plan, plan[c].kind = "CHECKPOINT"
             PROVE  /\ Cardinality(plan[c].deps) >= 2
                    /\ \A line : LastOf(TailsOf(plan, plan[c].volume, line)) \subseteq plan[c].deps
  BY DEF StrictJoin
<1>1. K \in Nat /\ Len(plan) = K + 1 /\ DOMAIN plan = 1..(K + 1) /\ plan[c].deps \subseteq 1..(K + 1)
  BY DEF PlanFacts
<1>2. c \in 1..K
  BY PlanPlaces
<1>3. Bound(plan, K, c)
  BY <1>2 DEF PlanEnds
<1>4. Cardinality(plan[c].deps) >= 2
  <2>1. PICK m, n \in plan[c].deps : m # n
    BY <1>3 DEF Bound
  <2> DEFINE one == {m}
             two == one \cup {n}
  <2>2. IsFiniteSet(one) /\ Cardinality(one) = 1
    BY FS_Singleton
  <2>3. Cardinality(two) = Cardinality(one) + 1
    <3>1. n \notin one
      BY <2>1
    <3> HIDE DEF one
    <3> QED BY <2>2, <3>1, FS_AddElement
  <2>4. two \subseteq plan[c].deps
    BY <2>1
  <2>5. IsFiniteSet(plan[c].deps)
    <3>1. IsFiniteSet(1..(K + 1))
      BY <1>1, FS_Interval
    <3> QED BY <1>1, <3>1, FS_Subset
  <2> HIDE DEF one, two
  <2>6. Cardinality(two) <= Cardinality(plan[c].deps) /\ Cardinality(plan[c].deps) \in Nat
    BY <2>4, <2>5, FS_Subset, FS_CardinalityType
  <2> QED BY <2>2, <2>3, <2>6
<1>5. ASSUME NEW line, NEW n \in LastOf(TailsOf(plan, plan[c].volume, line))
      PROVE  n \in plan[c].deps
  <2> DEFINE scope == {i \in DOMAIN plan \ Terminals(plan) :
                         plan[i].volume = plan[c].volume /\ plan[i].line = line}
  <2>1. n \in scope /\ \A m \in scope : n \notin plan[m].deps
    BY <1>5 DEF LastOf, TailsOf
  <2>2. n \in 1..K /\ plan[n].kind = "NORMAL"
    BY <2>1, PlanPlaces DEF Terminals
  <2>3. ~Followed(plan, n)
    <3> SUFFICES ASSUME NEW m \in (n + 1)..Len(plan),
                        plan[m].kind = "NORMAL", plan[m].volume = plan[n].volume,
                        plan[m].line = plan[n].line, n \in plan[m].deps
                 PROVE  FALSE
      BY DEF Followed
    <3>1. m \in DOMAIN plan
      BY <1>1, <2>2
    <3>2. m \in scope
      BY <2>1, <3>1 DEF Terminals
    <3> QED BY <2>1, <3>2
  <2> QED BY <1>3, <2>1, <2>2, <2>3 DEF Bound
<1> QED BY <1>4, <1>5

\* compile_macro_plan: the plan passes the checks, whatever the model named its nodes.
LEMMA FishedIsChecked ==
  ASSUME NEW V \in Nat \ {0}, NEW anchors \in AnchorCounts(V), NEW plan \in Lists(1..V),
         Fished(anchors, V, plan), NEW named
  PROVE  Checked(plan, named)
<1> DEFINE M == Len(MainLine(anchors))
           K == Len(plan) - 1
<1>1. PlanFacts(V, M, K, plan)
  BY FishedFacts
<1>2. PlanEnds(V, K, plan)
  BY FishedEnds
<1>3. TierConvergence(plan, named)
  BY <1>1, <1>2, ArcsConverge
<1>4. StrictJoin(plan)
  BY <1>1, <1>2, CheckpointsJoin
<1> HIDE DEF M, K
<1>5. ForkMerge(plan) /\ FishboneDependencies(plan)
  BY <1>1, <1>2, NoForks, RibsHang
<1>6. Acyclic(plan)
  BY FishedIsAcyclic
<1> QED BY <1>3, <1>4, <1>5, <1>6 DEF Checked

-----------------------------------------------------------------------------
(* How the checkpoints divide it. *)

\* The checkpoints divide a plan: a volume leads to its own, all nodes lead to the end, and what a
\* series arc has in a later volume comes behind the checkpoint of the volume before.
VolumeGathered(plan, v) ==
  {n \in DOMAIN plan \ Endings(plan) : plan[n].volume = v}
    \subseteq Reaching(plan, {n \in DOMAIN plan : plan[n].kind = "CHECKPOINT" /\ plan[n].volume = v})
AllLeadToTheEnd(plan) == Reaching(plan, Endings(plan)) = DOMAIN plan
SeriesWaits(plan, n) ==
  \E c \in Reaching(plan, {n}) :
    plan[c].kind = "CHECKPOINT" /\ plan[c].volume = plan[n].volume - 1

\* Every anchor of a volume comes before the checkpoint of that volume.
LEMMA FishedGathers ==
  ASSUME NEW V \in Nat \ {0}, NEW anchors \in AnchorCounts(V), NEW plan \in Lists(1..V),
         Fished(anchors, V, plan), NEW v \in 1..V
  PROVE  VolumeGathered(plan, v)
<1> DEFINE M == Len(MainLine(anchors))
           K == Len(plan) - 1
           targets == {n \in DOMAIN plan : plan[n].kind = "CHECKPOINT" /\ plan[n].volume = v}
           R == Reaching(plan, targets)
<1>1. PlanFacts(V, M, K, plan)
  BY FishedFacts
<1>2. PlanEnds(V, K, plan)
  BY FishedEnds
<1>3. K = Len(plan) - 1
  OBVIOUS
<1> HIDE DEF M, K, targets
<1>4. IsFiniteSet(DOMAIN plan) /\ K \in Nat /\ DOMAIN plan = 1..(K + 1)
  BY <1>1 DEF PlanFacts
<1>5. targets \subseteq R /\ StepBack(plan, R) = R
  BY <1>4, ReachingIsClosed
<1>6. PICK c \in 1..K : plan[c].kind = "CHECKPOINT" /\ plan[c].volume = v
  BY <1>2 DEF PlanEnds
<1>7. c \in R
  <2>1. c \in DOMAIN plan
    BY <1>4
  <2> QED BY <1>5, <1>6, <2>1 DEF targets
<1> HIDE DEF R
<1>8. ASSUME NEW n \in DOMAIN plan \ Endings(plan), plan[n].volume = v
      PROVE  n \in R
  <2>1. n \in 1..K /\ plan[n].kind \in {"NORMAL", "CHECKPOINT"}
    BY <1>1, <1>2, PlanPlaces DEF Endings
  <2>2. CASE plan[n].kind = "CHECKPOINT"
    BY <1>5, <1>8, <2>2 DEF targets
  <2>3. CASE plan[n].kind = "NORMAL"
    BY <1>3, <1>5, <1>6, <1>7, <1>8, <2>1, <2>3, GatheredBy
  <2> QED BY <2>1, <2>2, <2>3
<1> QED BY <1>8 DEF VolumeGathered, R, targets

\* All of them come before the end.
LEMMA FishedLeadsOn ==
  ASSUME NEW V \in Nat \ {0}, NEW anchors \in AnchorCounts(V), NEW plan \in Lists(1..V),
         Fished(anchors, V, plan)
  PROVE  AllLeadToTheEnd(plan)
<1> DEFINE M == Len(MainLine(anchors))
           K == Len(plan) - 1
           targets == Endings(plan)
           R == Reaching(plan, targets)
<1>1. PlanFacts(V, M, K, plan)
  BY FishedFacts
<1>2. PlanEnds(V, K, plan)
  BY FishedEnds
<1>3. K = Len(plan) - 1
  OBVIOUS
<1> HIDE DEF M, K, targets
<1>4. IsFiniteSet(DOMAIN plan) /\ K \in Nat /\ DOMAIN plan = 1..(K + 1)
  BY <1>1 DEF PlanFacts
<1>5. targets \subseteq R /\ R \subseteq targets \cup DOMAIN plan /\ StepBack(plan, R) = R
  BY <1>4, ReachingIsClosed
<1>6. R \subseteq DOMAIN plan
  BY <1>5 DEF targets, Endings
<1>7. K + 1 \in DOMAIN plan
  BY <1>4
<1>8. K + 1 \in R
  BY <1>2, <1>5, <1>7 DEF targets, Endings, PlanEnds
<1>9. \A m \in R \cap DOMAIN plan : plan[m].deps \cap DOMAIN plan \subseteq R
  BY <1>5 DEF StepBack
<1> HIDE DEF R
<1>10. ASSUME NEW c \in 1..K, plan[c].kind = "CHECKPOINT"
       PROVE  c \in R
  <2>1. c \in plan[K + 1].deps
    BY <1>2, <1>10 DEF PlanEnds
  <2>2. c \in DOMAIN plan
    BY <1>4
  <2> QED BY <1>7, <1>8, <1>9, <2>1, <2>2
<1>11. ASSUME NEW n \in DOMAIN plan
       PROVE  n \in R
  <2>1. n = K + 1 \/ (n \in 1..K /\ plan[n].kind \in {"NORMAL", "CHECKPOINT"})
    BY <1>1, <1>2, PlanPlaces
  <2>2. CASE n \in 1..K /\ plan[n].kind = "NORMAL"
    <3>1. plan[n].volume \in 1..V
      BY <1>1, <1>4 DEF PlanFacts
    <3>2. PICK c \in 1..K : plan[c].kind = "CHECKPOINT" /\ plan[c].volume = plan[n].volume
      BY <1>2, <3>1 DEF PlanEnds
    <3>3. c \in R
      BY <1>10, <3>2
    <3> QED BY <1>3, <1>5, <2>2, <3>2, <3>3, GatheredBy
  <2> QED BY <1>8, <1>10, <2>1, <2>2
<1> QED BY <1>6, <1>11 DEF AllLeadToTheEnd, R, targets

\* A series arc waits for the volume before: its first beat in a volume depends on the checkpoint.
LEMMA FishedWaits ==
  ASSUME NEW V \in Nat \ {0}, NEW anchors \in AnchorCounts(V), NEW plan \in Lists(1..V),
         Fished(anchors, V, plan),
         NEW n \in DOMAIN plan, Tier(plan[n]) = "S", plan[n].volume > 1
  PROVE  SeriesWaits(plan, n)
<1> DEFINE M == Len(MainLine(anchors))
           K == Len(plan) - 1
           targets == {n}
           R == Reaching(plan, targets)
           line == plan[n].line
           v == plan[n].volume
           D == {m \in R \cap (1..K) : plan[m].line = line /\ plan[m].volume = v}
<1>1. PlanFacts(V, M, K, plan)
  BY FishedFacts
<1>2. PlanEnds(V, K, plan)
  BY FishedEnds
<1>3. targets \subseteq DOMAIN plan /\ n \in targets
  OBVIOUS
<1> HIDE DEF M, K, targets
<1>4. IsFiniteSet(DOMAIN plan) /\ K \in Nat /\ DOMAIN plan = 1..(K + 1)
  BY <1>1 DEF PlanFacts
<1>5. targets \subseteq R /\ StepBack(plan, R) = R
  BY <1>4, ReachingIsClosed
<1>6. \A m \in R \cap DOMAIN plan : plan[m].deps \cap DOMAIN plan \subseteq R
  BY <1>5 DEF StepBack
<1>7. line # Main
  BY MainIsNotSide
<1>8. n \in 1..K /\ n \in R
  <2>1. plan[n].kind = "NORMAL"
    BY <1>1, <1>2, <1>7, PlanPlaces
  <2>2. n \in 1..K
    BY <1>1, <1>2, <2>1, PlanPlaces
  <2> QED BY <1>3, <1>5, <2>2
<1> HIDE DEF R
<1>9. \E m \in D : \A i \in D : m <= i
  <2>1. n \in D
    BY <1>8
  <2>2. D \in SUBSET Nat
    BY <1>4
  <2> HIDE DEF D
  <2> QED BY <2>1, <2>2, LeastNumber
<1>10. PICK m \in D : \A i \in D : m <= i
  BY <1>9
<1>11. m \in 1..K /\ m \in DOMAIN plan /\ m \in R /\ plan[m].line = line /\ plan[m].volume = v
  BY <1>4, <1>10
<1>12. Tier(plan[m]) = "S" /\ plan[m].volume > 1
  BY <1>11 DEF Tier
<1>13. Staged(plan, m)
  BY <1>2, <1>11 DEF PlanEnds
<1>14. PICK i \in plan[m].deps :
          \/ plan[i].kind = "CHECKPOINT" /\ plan[i].volume = plan[m].volume - 1
          \/ plan[i].line = plan[m].line /\ plan[i].volume = plan[m].volume
  BY <1>12, <1>13 DEF Staged
<1>15. plan[m].kind = "NORMAL" /\ plan[m].deps \subseteq 1..(m - 1)
  <2>1. Rib(M, plan, m)
    BY <1>1, <1>2, <1>7, <1>11, PlanPlaces
  <2> QED BY <2>1 DEF Rib
<1>16. i \in 1..K /\ i \in DOMAIN plan /\ ~(m <= i)
  BY <1>4, <1>11, <1>14, <1>15
<1>17. i \in R
  BY <1>6, <1>11, <1>14, <1>16
<1>18. ~(plan[i].line = plan[m].line /\ plan[i].volume = plan[m].volume)
  BY <1>10, <1>11, <1>16, <1>17
<1>19. plan[i].kind = "CHECKPOINT" /\ plan[i].volume = v - 1
  BY <1>11, <1>14, <1>18
<1> QED BY <1>17, <1>19 DEF SeriesWaits, R, targets

-----------------------------------------------------------------------------
(* Why it may be stored. *)

\* Every volume has its part of the main storyline.
LEMMA MainOfVolume ==
  ASSUME NEW V \in Nat \ {0}, NEW anchors \in AnchorCounts(V), NEW plan \in Lists(1..V),
         Fished(anchors, V, plan), NEW M, M = Len(MainLine(anchors)),
         NEW K, PlanFacts(V, M, K, plan), NEW v \in 1..V
  PROVE  /\ FirstMain(anchors, v) \in Nat /\ LastMain(anchors, v) \in Nat
         /\ FirstMain(anchors, v) >= 1 /\ FirstMain(anchors, v) <= LastMain(anchors, v)
         /\ \A n \in FirstMain(anchors, v)..LastMain(anchors, v) :
              n \in 1..M /\ n \in 1..K /\ plan[n].kind = "NORMAL" /\ plan[n].volume = v
         /\ MainsOf(plan, v) = FirstMain(anchors, v)..LastMain(anchors, v)
<1> DEFINE F == FirstMain(anchors, v)
           E == LastMain(anchors, v)
           main == MainLine(anchors)
<1>1. /\ F \in Nat /\ F >= 1 /\ E \in Nat /\ E = F + anchors[v] - 1 /\ E <= M
  BY MainLineFacts
<1>2. anchors[v] \in Nat \ {0}
  BY DEF AnchorCounts
<1>3. F <= E
  BY <1>1, <1>2
<1>4. /\ K \in Nat /\ M \in Nat \ {0} /\ M <= K /\ Len(plan) = K + 1 /\ DOMAIN plan = 1..(K + 1)
      /\ \A n \in 1..K : n <= M => Trunk(plan, n)
      /\ \A n \in 1..K : plan[n].kind = "NORMAL" /\ ~(n <= M) => Rib(M, plan, n)
  BY DEF PlanFacts
<1>5. Begins(plan, main)
  BY DEF Fished
<1>6. plan[K + 1].kind = "ENDING"
  <2>1. Len(plan) - 1 = K
    BY <1>4
  <2> QED BY <2>1 DEF Fished
<1>7. \A n \in F..E : main[n] = Beat(v, Main, {n - 1} \ {0})
  <2>1. Spine(anchors, V, main)
    BY MainLineIs
  <2> QED BY <2>1 DEF Spine
<1> HIDE DEF F, E, main
<1>8. ASSUME NEW n \in F..E
      PROVE  n \in 1..M /\ n \in 1..K /\ plan[n].kind = "NORMAL" /\ plan[n].volume = v
             /\ Trunk(plan, n)
  <2>1. n \in 1..M /\ n \in 1..K /\ n <= M
    BY <1>1, <1>4
  <2> DEFINE d == {n - 1} \ {0}
  <2>2. plan[n] = Beat(v, Main, d)
    BY <1>5, <1>7, <2>1 DEF Begins, main
  <2> HIDE DEF d
  <2>3. plan[n].kind = "NORMAL" /\ plan[n].volume = v
    BY <2>2, BeatFields
  <2>4. Trunk(plan, n)
    BY <1>4, <2>1
  <2> QED BY <2>1, <2>3, <2>4
<1>9. ASSUME NEW n \in F..E
      PROVE  n \in MainsOf(plan, v)
  <2>1. n \in DOMAIN plan /\ plan[n].kind = "NORMAL" /\ plan[n].volume = v
    BY <1>4, <1>8
  <2>2. plan[n].main
    BY <1>8 DEF Trunk
  <2> QED BY <2>1, <2>2, Zenon DEF MainsOf
<1>10. ASSUME NEW n \in MainsOf(plan, v)
       PROVE  n \in F..E
  <2>1. n \in DOMAIN plan /\ plan[n].volume = v /\ plan[n].kind = "NORMAL"
    BY DEF MainsOf
  <2>2. plan[n].main
    BY Zenon DEF MainsOf
  <2>3. n # K + 1
    BY <1>6, <2>1
  <2>4. n \in 1..K
    BY <1>4, <2>1, <2>3
  <2>5. n <= M
    <3>1. Rib(M, plan, n) => ~plan[n].main
      BY Zenon DEF Rib
    <3>2. ~Rib(M, plan, n)
      BY <2>2, <3>1
    <3> QED BY <1>4, <2>1, <2>4, <3>2
  <2>6. n \in 1..M
    BY <1>4, <2>4, <2>5
  <2>7. n \in FirstMain(anchors, plan[n].volume)..LastMain(anchors, plan[n].volume)
    <3>1. Len(plan) \in Nat
      BY <1>4
    <3> QED BY <1>5, <2>6, <3>1, MainEnds DEF main
  <2> QED BY <2>1, <2>7 DEF F, E
<1>11. MainsOf(plan, v) = F..E
  BY <1>9, <1>10
<1> QED BY <1>1, <1>3, <1>8, <1>11 DEF F, E

\* _validate_macro_plan_for_save: the plan hangs together.
LEMMA FishedIsConnected ==
  ASSUME NEW V \in Nat \ {0}, NEW anchors \in AnchorCounts(V), NEW plan \in Lists(1..V),
         Fished(anchors, V, plan)
  PROVE  Connected(plan)
<1> DEFINE M == Len(MainLine(anchors))
           K == Len(plan) - 1
           C == Component(plan, 1)
<1>1. PlanFacts(V, M, K, plan)
  BY FishedFacts
<1>2. PlanEnds(V, K, plan)
  BY FishedEnds
<1>3. K = Len(plan) - 1 /\ M = Len(MainLine(anchors))
  OBVIOUS
<1> HIDE DEF M, K
<1>4. /\ IsFiniteSet(DOMAIN plan) /\ K \in Nat /\ DOMAIN plan = 1..(K + 1) /\ Len(plan) = K + 1
      /\ M \in Nat \ {0} /\ M <= K
  BY <1>1 DEF PlanFacts
<1>5. 1 \in C /\ Spread(plan, C) = C
  <2> DEFINE one == 1
  <2> HIDE DEF one
  <2>1. one \in Component(plan, one) /\ Spread(plan, Component(plan, one)) = Component(plan, one)
    BY <1>4, ComponentIsClosed
  <2> QED BY <2>1 DEF one
<1> HIDE DEF C
<1>6. StepBack(plan, C) = C
  BY <1>5 DEF Spread, StepBack
<1>7. \A m \in DOMAIN plan : \A n \in plan[m].deps : n \in C => m \in C
  BY <1>5 DEF Spread
<1>8. \A n \in 1..M : n \in C
  <2> DEFINE Bad == {n \in 1..M : n \notin C}
  <2> SUFFICES ASSUME Bad # {} PROVE FALSE
    OBVIOUS
  <2>1. \E n \in Bad : \A m \in Bad : n <= m
    <3>1. Bad \in SUBSET Nat
      BY <1>4
    <3> HIDE DEF Bad
    <3> QED BY <3>1, LeastNumber
  <2>2. PICK n \in Bad : \A m \in Bad : n <= m
    BY <2>1
  <2>3. n \in 1..M /\ n \notin C /\ n # 1
    BY <1>5
  <2>4. n - 1 \in 1..M /\ ~(n <= n - 1) /\ n - 1 # 0 /\ n \in DOMAIN plan
    BY <1>4, <2>3
  <2>5. n - 1 \in C
    BY <2>2, <2>4
  <2>6. plan[n].deps = {n - 1} \ {0}
    <3>1. Begins(plan, MainLine(anchors)) /\ Len(plan) \in Nat
      BY <1>4 DEF Fished
    <3> QED BY <1>3, <2>3, <3>1, MainEnds
  <2>7. n - 1 \in plan[n].deps
    BY <2>4, <2>6
  <2> QED BY <1>7, <2>3, <2>4, <2>5, <2>7
<1>9. ASSUME NEW v \in 1..V
      PROVE  \E n \in 1..M : n \in 1..K /\ plan[n].kind = "NORMAL" /\ plan[n].volume = v
  <2> DEFINE F == FirstMain(anchors, v)
             E == LastMain(anchors, v)
  <2>1. /\ F \in Nat /\ E \in Nat /\ F <= E
        /\ \A n \in F..E : n \in 1..M /\ n \in 1..K /\ plan[n].kind = "NORMAL" /\ plan[n].volume = v
    BY <1>1, <1>3, MainOfVolume
  <2> HIDE DEF F, E
  <2>2. F \in F..E
    BY <2>1
  <2> QED BY <2>1, <2>2
<1>10. ASSUME NEW c \in 1..K, plan[c].kind = "CHECKPOINT"
       PROVE  c \in C
  <2> DEFINE v == plan[c].volume
             T == {n \in 1..K : plan[n].kind = "NORMAL" /\ plan[n].volume = v /\ n \in C}
  <2>1. v \in 1..V
    BY <1>1, <1>4 DEF PlanFacts
  <2>2. T # {}
    <3>1. PICK n \in 1..M : n \in 1..K /\ plan[n].kind = "NORMAL" /\ plan[n].volume = v
      BY <1>9, <2>1
    <3> QED BY <1>8, <3>1
  <2>3. \E i \in T : \A j \in T : j <= i
    <3>1. T \in SUBSET (1..K)
      OBVIOUS
    <3> HIDE DEF T
    <3> QED BY <1>4, <2>2, <3>1, GreatestNumber
  <2>4. PICK i \in T : \A j \in T : j <= i
    BY <2>3
  <2>5. i \in 1..K /\ plan[i].kind = "NORMAL" /\ plan[i].volume = v /\ i \in C
    BY <2>4
  <2>6. ~Followed(plan, i)
    <3> SUFFICES ASSUME NEW m \in (i + 1)..Len(plan),
                        plan[m].kind = "NORMAL", plan[m].volume = plan[i].volume,
                        i \in plan[m].deps
                 PROVE  FALSE
      BY DEF Followed
    <3>1. m \in DOMAIN plan /\ ~(m <= i)
      BY <1>4, <2>5
    <3>2. m \in C
      BY <1>7, <2>5, <3>1
    <3>3. m \in 1..K
      BY <1>1, <1>2, <3>1, PlanPlaces
    <3>4. m \in T
      BY <2>5, <3>2, <3>3
    <3> QED BY <2>4, <3>1, <3>4
  <2>7. i \in plan[c].deps
    <3>1. Bound(plan, K, c)
      BY <1>2, <1>10 DEF PlanEnds
    <3> QED BY <2>5, <2>6, <3>1 DEF Bound
  <2>8. c \in DOMAIN plan
    BY <1>4
  <2> QED BY <1>7, <2>5, <2>7, <2>8
<1>11. ASSUME NEW n \in DOMAIN plan
       PROVE  n \in C
  <2>1. n = K + 1 \/ (n \in 1..K /\ plan[n].kind \in {"NORMAL", "CHECKPOINT"})
    BY <1>1, <1>2, PlanPlaces
  <2>2. plan[n].volume \in 1..V
    BY <1>1, <1>4 DEF PlanFacts
  <2>3. PICK c \in 1..K : plan[c].kind = "CHECKPOINT" /\ plan[c].volume = plan[n].volume
    BY <1>2, <2>2 DEF PlanEnds
  <2>4. c \in C
    BY <1>10, <2>3
  <2>5. CASE n \in 1..K /\ plan[n].kind = "NORMAL"
    BY <1>3, <1>6, <2>3, <2>4, <2>5, GatheredBy
  <2>6. CASE n = K + 1
    <3>1. c \in plan[n].deps
      BY <1>2, <2>3, <2>6 DEF PlanEnds
    <3> QED BY <1>7, <2>4, <3>1
  <2> QED BY <1>10, <2>1, <2>5, <2>6
<1>12. \A n \in FirstOf(DOMAIN plan) : n = 1
  <2>1. \A n \in 1..(K + 1) : n \in Nat /\ n >= 1 /\ (n <= 1 => n = 1)
    BY <1>4
  <2>2. 1 \in DOMAIN plan
    BY <1>4
  <2> QED BY <1>4, <2>1, <2>2 DEF FirstOf
<1> QED BY <1>11, <1>12 DEF Connected, C

\* What a node depends on already is not added to it.
LEMMA NothingAdded ==
  ASSUME NEW W, NEW x \in NodesOf(W), NEW more, more \subseteq x.deps
  PROVE  [x EXCEPT !.deps = @ \cup more] = x
<1>1. x.deps \cup more = x.deps
  OBVIOUS
<1> QED BY <1>1 DEF NodesOf

\* _repair_main_storyline_dependencies: a volume of the main storyline starts behind the last
\* anchor of the one before.
LEMMA FishedNeedsNoRepair ==
  ASSUME NEW V \in Nat \ {0}, NEW anchors \in AnchorCounts(V), NEW plan \in Lists(1..V),
         Fished(anchors, V, plan)
  PROVE  Repaired(plan) = {}
<1> DEFINE M == Len(MainLine(anchors))
           K == Len(plan) - 1
           F(v) == FirstMain(anchors, v)
           E(v) == LastMain(anchors, v)
           W == 1..V
<1>1. PlanFacts(V, M, K, plan)
  BY FishedFacts
<1>2. \A v \in 1..V : /\ F(v) \in Nat /\ E(v) \in Nat /\ F(v) >= 1 /\ F(v) <= E(v)
                      /\ \A n \in F(v)..E(v) :
                           n \in 1..M /\ n \in 1..K /\ plan[n].kind = "NORMAL" /\ plan[n].volume = v
                      /\ MainsOf(plan, v) = F(v)..E(v)
  <2> HIDE DEF K
  <2> QED BY <1>1, MainOfVolume
<1>3. M = Len(MainLine(anchors))
  OBVIOUS
<1>4. \A v \in 1..V : v < V => F(v + 1) = E(v) + 1
  <2>1. Spine(anchors, V, MainLine(anchors))
    BY MainLineIs
  <2> QED BY <2>1 DEF Spine
<1> HIDE DEF M, K, F, E
<1>5. /\ DOMAIN plan = 1..(K + 1) /\ K \in Nat /\ Len(plan) = K + 1
      /\ \A n \in 1..(K + 1) : plan[n].volume \in 1..V
  BY <1>1 DEF PlanFacts
<1>6. ASSUME NEW n \in DOMAIN plan, n \in FirstOf(MainsOf(plan, plan[n].volume))
      PROVE  LastMainBefore(plan, plan[n].volume) \subseteq plan[n].deps
  <2> DEFINE v == plan[n].volume
             Vs == {plan[i].volume : i \in DOMAIN plan}
  <2>1. v \in 1..V /\ Vs \subseteq 1..V
    BY <1>5
  <2>2. \A x \in 1..V : x \in Vs /\ MainsOf(plan, x) # {}
    <3> SUFFICES ASSUME NEW x \in 1..V PROVE x \in Vs /\ MainsOf(plan, x) # {}
      OBVIOUS
    <3>1. F(x) \in F(x)..E(x)
      BY <1>2
    <3>2. F(x) \in 1..K /\ plan[F(x)].volume = x
      BY <1>2, <3>1
    <3>3. F(x) \in DOMAIN plan
      BY <1>5, <3>2
    <3> QED BY <1>2, <3>1, <3>2, <3>3
  <2>3. n = F(v)
    <3>1. MainsOf(plan, v) = F(v)..E(v) /\ F(v) \in Nat /\ E(v) \in Nat /\ F(v) <= E(v)
      BY <1>2, <2>1
    <3>2. n \in F(v)..E(v) /\ \A m \in F(v)..E(v) : n <= m
      BY <1>6, <3>1 DEF FirstOf
    <3>3. F(v) \in F(v)..E(v)
      BY <3>1
    <3>4. n <= F(v) /\ F(v) <= n /\ n \in Nat
      BY <3>1, <3>2, <3>3
    <3> QED BY <3>1, <3>4
  <2>4. plan[n].deps = {n - 1} \ {0}
    <3>1. Begins(plan, MainLine(anchors)) /\ Len(plan) \in Nat
      BY <1>5 DEF Fished
    <3>2. n \in 1..M
      BY <1>2, <2>1, <2>3
    <3> QED BY <1>3, <3>1, <3>2, MainEnds
  <2> HIDE DEF Vs
  <2>5. ASSUME NEW w \in Vs, w < v, \A x \in Vs : w < x /\ x < v => MainsOf(plan, x) = {}
        PROVE  LastOf(MainsOf(plan, w)) \subseteq plan[n].deps
    <3>1. w \in 1..V
      BY <2>1
    <3>2. v = w + 1
      <4> SUFFICES ASSUME v # w + 1 PROVE FALSE
        OBVIOUS
      <4>1. w + 1 \in 1..V /\ w < w + 1 /\ w + 1 < v
        BY <2>1, <2>5, <3>1
      <4> QED BY <2>2, <2>5, <4>1
    <3>3. F(v) = E(w) + 1
      BY <1>4, <2>1, <3>1, <3>2
    <3>4. /\ MainsOf(plan, w) = F(w)..E(w) /\ F(w) \in Nat /\ E(w) \in Nat
          /\ F(w) <= E(w) /\ F(w) >= 1
      BY <1>2, <3>1
    <3>5. ASSUME NEW m \in LastOf(F(w)..E(w))
          PROVE  m = E(w)
      <4>1. m \in F(w)..E(w) /\ \A i \in F(w)..E(w) : i <= m
        BY DEF LastOf
      <4>2. E(w) \in F(w)..E(w)
        BY <3>4
      <4>3. m \in Nat /\ m <= E(w) /\ E(w) <= m
        BY <3>4, <4>1, <4>2
      <4> QED BY <3>4, <4>3
    <3>6. E(w) \in plan[n].deps
      BY <2>3, <2>4, <3>3, <3>4
    <3> QED BY <3>4, <3>5, <3>6
  <2> QED BY <2>5 DEF LastMainBefore, Vs
<1>7. ASSUME NEW n \in DOMAIN plan
      PROVE  Repair(plan)[n] = plan[n]
  <2> DEFINE more == LastMainBefore(plan, plan[n].volume)
  <2>1. CASE n \in FirstOf(MainsOf(plan, plan[n].volume))
    <3>1. Repair(plan)[n] = [plan[n] EXCEPT !.deps = @ \cup more]
      BY <2>1 DEF Repair
    <3>2. more \subseteq plan[n].deps
      BY <1>6, <2>1
    <3>3. plan[n] \in NodesOf(W)
      BY ListFacts
    <3> HIDE DEF more, W
    <3> QED BY <3>1, <3>2, <3>3, NothingAdded
  <2>2. CASE n \notin FirstOf(MainsOf(plan, plan[n].volume))
    BY <2>2 DEF Repair
  <2> QED BY <2>1, <2>2
<1> QED BY <1>7 DEF Repaired

\* put_macro_plan: its nodes may be stored.
LEMMA FishedIsValid ==
  ASSUME NEW V \in Nat \ {0}, NEW anchors \in AnchorCounts(V), NEW plan \in Lists(1..V),
         Fished(anchors, V, plan)
  PROVE  ValidNodes(plan, 1..V)
<1> DEFINE M == Len(MainLine(anchors))
           K == Len(plan) - 1
<1>1. PlanFacts(V, M, K, plan)
  BY FishedFacts
<1> HIDE DEF M, K
<1>2. /\ DOMAIN plan = 1..(K + 1) /\ K \in Nat
      /\ \A n \in 1..(K + 1) : plan[n].deps \subseteq 1..(K + 1) /\ plan[n].volume \in 1..V
  BY <1>1 DEF PlanFacts
<1>3. DOMAIN plan # {} /\ DepsKnown(plan) /\ \A n \in DOMAIN plan : plan[n].volume \in 1..V
  <2>1. 1 \in DOMAIN plan
    BY <1>2
  <2> QED BY <1>2, <2>1 DEF DepsKnown
<1>4. Acyclic(plan) /\ Connected(plan)
  BY FishedIsAcyclic, FishedIsConnected
<1> QED BY <1>3, <1>4 DEF ValidNodes, Sound

-----------------------------------------------------------------------------
(* The inductive invariant: what there is in which phase, and what it was made from. *)

Judged == {"normalizing", "storylines", "topology", "checking", "built", "rejected"}
Divided == Judged \ {"normalizing"}
Lined == Divided \ {"storylines"}
Noded == Lined \ {"topology"}

AttemptsIn == attempt \in 0..2 /\ (phase = "asking" => attempt < 2)
OutputIn ==
  /\ phase = "answered" => output \in Answers /\ attempt > 0
  /\ phase \in Judged => Answered(output)
\* What is built was judged, or else it is the fallback of a program without a model.
Vetted == IF attempt = 0 THEN output.drafts = FallbackDrafts ELSE Acceptable(output)
VettedIn == phase \in Judged => Vetted
VolumesIn ==
  /\ phase \in Divided => volumes = Normalized(InOrder(output.drafts))
  /\ phase \notin Divided => volumes = <<>>
LinesIn ==
  /\ phase \in Lined => LinesOf(lines) /\ Room(lines)
  /\ phase \notin Lined => lines = NoLines
NodesIn ==
  /\ phase \in Noded => nodes \in Lists(1..VolumeCount) /\ Fished(Anchors, VolumeCount, nodes)
  /\ phase \notin Noded => nodes = <<>>
  /\ phase # "rejected"

IInv ==
  /\ phase \in Judged \cup {"asking", "answered", "raised"}
  /\ AttemptsIn /\ OutputIn /\ VettedIn /\ VolumesIn /\ LinesIn /\ NodesIn

\* No phase is two of these.
LEMMA PhaseFacts ==
  /\ \A p \in {"asking", "answered", "raised"} :
       p \notin Judged /\ p \notin Divided /\ p \notin Lined /\ p \notin Noded
  /\ "normalizing" \in Judged /\ "normalizing" \notin Divided
  /\ "normalizing" \notin Lined /\ "normalizing" \notin Noded
  /\ "storylines" \in Divided /\ "storylines" \notin Lined /\ "storylines" \notin Noded
  /\ "topology" \in Lined /\ "topology" \notin Noded
  /\ \A p \in {"checking", "built", "rejected"} : p \in Noded
  /\ Divided \subseteq Judged /\ Lined \subseteq Divided /\ Noded \subseteq Lined
BY DEF Judged, Divided, Lined, Noded

\* Nothing is there before the planner is asked.
LEMMA InitIInv == Init => IInv
<1> SUFFICES ASSUME Init PROVE IInv
  OBVIOUS
<1>1. phase = "asking" /\ attempt = 0 /\ volumes = <<>> /\ nodes = <<>>
      /\ lines = NoLines
  BY DEF Init
<1> QED BY <1>1, PhaseFacts DEF IInv, AttemptsIn, OutputIn, VettedIn, VolumesIn, LinesIn, NodesIn

\* compile_macro_plan: the planner is asked.
LEMMA AskIInv == IInv /\ AskPlanner => IInv'
<1> SUFFICES ASSUME IInv, AskPlanner PROVE IInv'
  OBVIOUS
<1>1. /\ phase = "asking" /\ attempt \in 0..2 /\ attempt < 2 /\ attempt' = attempt + 1
      /\ volumes = <<>> /\ nodes = <<>> /\ volumes' = <<>> /\ nodes' = <<>>
      /\ lines' = NoLines /\ lines' = NoLines
  BY PhaseFacts DEF IInv, AttemptsIn, VolumesIn, LinesIn, NodesIn, AskPlanner
<1>2. output' \in Answers /\ phase' = IF Fits(output') \/ attempt' = 2
        THEN "answered" ELSE "asking"
  <2>1. PICK d \in Drafts, castNotes \in BOOLEAN, anchorNotes \in BOOLEAN, language \in BOOLEAN :
          /\ output' = [drafts |-> d, castNotes |-> castNotes, anchorNotes |-> anchorNotes,
                        language |-> language]
          /\ phase' = IF Fits(output') \/ attempt' = 2 THEN "answered" ELSE phase
    BY DEF AskPlanner
  <2>2. d \in Seq(DraftRecords)
    BY CompileAssumption
  <2> QED BY <1>1, <2>1, <2>2, AnswerIs
<1>3. phase' \in {"asking", "answered"} /\ (phase' = "asking" => attempt' # 2)
  BY <1>2
<1>4. attempt' \in 0..2 /\ (attempt' # 2 => attempt' < 2) /\ attempt' > 0
  BY <1>1
<1> QED BY <1>1, <1>2, <1>3, <1>4, PhaseFacts DEF IInv, AttemptsIn, OutputIn, VettedIn, VolumesIn,
      LinesIn, NodesIn

\* compile_macro_plan: the planner fails.
LEMMA RaiseIInv == IInv /\ PlannerRaises => IInv'
<1> SUFFICES ASSUME IInv, PlannerRaises PROVE IInv'
  OBVIOUS
<1>1. /\ phase' = "raised" /\ attempt' \in 0..2
      /\ volumes' = <<>> /\ nodes' = <<>> /\ lines' = NoLines
  BY PhaseFacts DEF IInv, AttemptsIn, VolumesIn, LinesIn, NodesIn, PlannerRaises
<1> QED BY <1>1, PhaseFacts DEF IInv, AttemptsIn, OutputIn, VettedIn, VolumesIn, LinesIn, NodesIn

\* compile_macro_plan: the answer is judged, after its volumes were repaired.
LEMMA JudgeIInv == IInv /\ JudgeAnswer => IInv'
<1> SUFFICES ASSUME IInv, JudgeAnswer PROVE IInv'
  OBVIOUS
<1>1. /\ phase = "answered" /\ attempt' \in 0..2 /\ output \in Answers /\ attempt' # 0
      /\ volumes' = <<>> /\ nodes' = <<>> /\ lines' = NoLines
  BY PhaseFacts DEF IInv, AttemptsIn, OutputIn, VolumesIn, LinesIn, NodesIn, JudgeAnswer
<1>2. output' \in WithVolumes(output)
      /\ phase' = IF Acceptable(output') THEN "normalizing" ELSE "raised"
  BY DEF JudgeAnswer
<1>3. output' \in Answers /\ Len(output'.drafts) = VolumeCount
  BY <1>1, <1>2, WithVolumesTyped
<1>4. CASE Acceptable(output')
  <2>1. phase' = "normalizing" /\ Answered(output')
    BY <1>2, <1>3, <1>4 DEF Answered
  <2>2. Vetted'
    BY <1>1, <1>4 DEF Vetted
  <2> QED BY <1>1, <2>1, <2>2, PhaseFacts DEF IInv, AttemptsIn, OutputIn, VettedIn, VolumesIn,
        LinesIn, NodesIn, Judged
<1>5. CASE ~Acceptable(output')
  <2>1. phase' = "raised"
    BY <1>2, <1>5
  <2> QED BY <1>1, <2>1, PhaseFacts DEF IInv, AttemptsIn, OutputIn, VettedIn, VolumesIn, LinesIn,
        NodesIn
<1> QED BY <1>4, <1>5

\* compile_macro_plan: without a model the fallback is taken.
LEMMA NoModelIInv == IInv /\ NoModel => IInv'
<1> SUFFICES ASSUME IInv, NoModel PROVE IInv'
  OBVIOUS
<1>1. /\ phase = "asking" /\ phase' = "normalizing" /\ attempt' \in 0..2 /\ attempt' = 0
      /\ volumes' = <<>> /\ nodes' = <<>> /\ lines' = NoLines
  BY PhaseFacts DEF IInv, AttemptsIn, VolumesIn, LinesIn, NodesIn, NoModel
<1> DEFINE d == FallbackDrafts
           yes == TRUE
           no == FALSE
<1>2. PICK language \in BOOLEAN :
         output' = [drafts |-> d, castNotes |-> yes, anchorNotes |-> no, language |-> language]
  BY DEF NoModel
<1>3. d \in Seq(DraftRecords) /\ Len(d) = VolumeCount /\ yes \in BOOLEAN /\ no \in BOOLEAN
  BY FallbackFacts
<1> HIDE DEF yes, no
<1>4. Vetted'
  BY <1>1, <1>2 DEF Vetted
<1> HIDE DEF d
<1>5. output' \in Answers /\ output'.drafts = d
  BY <1>2, <1>3, AnswerIs
<1>6. Answered(output')
  BY <1>3, <1>5 DEF Answered
<1> QED BY <1>1, <1>4, <1>6, PhaseFacts DEF IInv, AttemptsIn, OutputIn, VettedIn, VolumesIn,
      LinesIn, NodesIn, Judged

\* What was judged stays judged as long as it stays.
LEMMA VettedKept ==
  ASSUME IInv, phase \in Judged, UNCHANGED <<attempt, output>>
  PROVE  Vetted'
<1>1. Vetted
  BY DEF IInv, VettedIn
<1> QED BY <1>1 DEF Vetted

\* _normalize_macro_plan: the drafts are made into volumes.
LEMMA NormalizeIInv == IInv /\ NormalizeVolumes => IInv'
<1> SUFFICES ASSUME IInv, NormalizeVolumes PROVE IInv'
  OBVIOUS
<1>1. /\ phase = "normalizing" /\ phase' = "storylines" /\ attempt' \in 0..2
      /\ output' = output /\ Answered(output)
      /\ volumes' = Normalized(InOrder(output.drafts)) /\ nodes' = <<>> /\ lines' = NoLines
  BY PhaseFacts DEF IInv, AttemptsIn, OutputIn, LinesIn, NodesIn, NormalizeVolumes
<1>2. volumes' = Normalized(InOrder(output'.drafts)) /\ Answered(output')
  BY <1>1
<1>3. Vetted'
  BY <1>1, VettedKept, PhaseFacts DEF NormalizeVolumes
<1> QED BY <1>1, <1>2, <1>3, PhaseFacts DEF IInv, AttemptsIn, OutputIn, VettedIn, VolumesIn,
      LinesIn, NodesIn, Judged

\* What is kept once there are volumes.
LEMMA KeptFacts ==
  ASSUME IInv, phase \in Divided
  PROVE  /\ attempt \in 0..2 /\ Answered(output) /\ volumes = Normalized(InOrder(output.drafts))
         /\ volumes \in Seq(VolumeRecords) /\ Len(volumes) = VolumeCount
         /\ DOMAIN volumes = 1..VolumeCount
<1>1. attempt \in 0..2 /\ Answered(output) /\ volumes = Normalized(InOrder(output.drafts))
  BY PhaseFacts DEF IInv, AttemptsIn, OutputIn, VolumesIn
<1> QED BY <1>1, VolumesTyped

\* _build_fishbone_storylines: storylines are counted.
LEMMA StorylinesIInv == IInv /\ BuildStorylines => IInv'
<1> SUFFICES ASSUME IInv, BuildStorylines PROVE IInv'
  OBVIOUS
<1>1. phase = "storylines" /\ phase' = "topology" /\ UNCHANGED <<attempt, output, volumes, nodes>>
  BY DEF BuildStorylines
<1>2. /\ attempt \in 0..2 /\ Answered(output) /\ volumes = Normalized(InOrder(output.drafts))
      /\ Len(volumes) = VolumeCount /\ DOMAIN volumes = 1..VolumeCount /\ nodes = <<>>
  BY <1>1, KeptFacts, PhaseFacts DEF IInv, NodesIn
<1>3. LinesOf(lines') /\ Room(lines')
  <2>1. PICK s \in 1..2, arcs \in [DOMAIN volumes -> 1..2],
             beats \in Greater(1, HalfUp(Len(volumes)))..HalfUp(3 * Len(volumes)) :
          lines' = [s |-> s,
                    arcs |-> [v \in DOMAIN volumes |->
                                Greater(arcs[v], Cardinality(HintsOf("A", v)))],
                    beats |-> BeatVolumes(Greater(beats, Len(PinnedBeats)))]
    BY DEF BuildStorylines
  <2>2. lines'.s \in 1..2
    BY <2>1
  <2>3. lines'.arcs \in [1..VolumeCount -> Nat]
    <3>1. \A v \in 1..VolumeCount : Greater(arcs[v], Cardinality(HintsOf("A", v))) \in Nat
      <4> SUFFICES ASSUME NEW v \in 1..VolumeCount
                   PROVE  Greater(arcs[v], Cardinality(HintsOf("A", v))) \in Nat
        OBVIOUS
      <4>1. arcs[v] \in 1..2 /\ Cardinality(HintsOf("A", v)) \in Nat
        BY <1>2, <2>1, HintsCounted
      <4> QED BY <4>1 DEF Greater
    <3> QED BY <1>2, <2>1, <3>1
  <2>4. lines'.beats \in Seq(1..VolumeCount)
    <3> DEFINE n == Greater(beats, Len(PinnedBeats))
    <3>1. Len(PinnedBeats) \in Nat
      BY PinnedTyped
    <3>2. Greater(1, HalfUp(Len(volumes))) \in Nat
      BY <1>2, CompileAssumption DEF Greater, HalfUp
    <3>3. beats \in Nat
      BY <2>1, <3>2
    <3>4. n \in Nat
      BY <3>1, <3>3 DEF Greater
    <3>5. lines'.beats = BeatVolumes(n)
      BY <2>1
    <3> HIDE DEF n
    <3> QED BY <1>2, <3>4, <3>5, BeatVolumesTyped
  <2>5. Room(lines')
    <3> DEFINE n == Greater(beats, Len(PinnedBeats))
    <3>1. Len(PinnedBeats) \in Nat /\ beats \in Int
      BY <1>2, <2>1, PinnedTyped
    <3>2. n \in Nat /\ Len(PinnedBeats) <= n
      BY <3>1 DEF Greater
    <3>3. /\ lines'.arcs = [v \in 1..VolumeCount |-> Greater(arcs[v], Cardinality(HintsOf("A", v)))]
          /\ lines'.beats = BeatVolumes(n)
      BY <1>2, <2>1
    <3>4. \A v \in 1..VolumeCount : arcs[v] \in Nat
      BY <1>2, <2>1
    <3> HIDE DEF n
    <3> QED BY <1>2, <3>2, <3>3, <3>4, BuiltWithRoom
  <2>6. LinesOf(lines')
    BY <2>2, <2>3, <2>4 DEF LinesOf
  <2> QED BY <2>5, <2>6
<1>4. volumes' = Normalized(InOrder(output'.drafts)) /\ Answered(output') /\ attempt' \in 0..2
      /\ nodes' = <<>>
  BY <1>1, <1>2
<1>5. Vetted'
  BY <1>1, VettedKept, PhaseFacts
<1> QED BY <1>1, <1>3, <1>4, <1>5, PhaseFacts DEF IInv, AttemptsIn, OutputIn, VettedIn, VolumesIn,
      LinesIn, NodesIn, Judged

\* _build_fishbone_anchor_nodes: the nodes are built.
LEMMA NodesIInv == IInv /\ BuildNodes => IInv'
<1> SUFFICES ASSUME IInv, BuildNodes PROVE IInv'
  OBVIOUS
<1>1. phase = "topology" /\ phase' = "checking" /\ UNCHANGED <<attempt, output, volumes, lines>>
  BY DEF BuildNodes
<1>2. /\ attempt \in 0..2 /\ Answered(output) /\ volumes = Normalized(InOrder(output.drafts))
      /\ volumes \in Seq(VolumeRecords) /\ Len(volumes) = VolumeCount /\ LinesOf(lines)
      /\ Room(lines)
  BY <1>1, KeptFacts, PhaseFacts DEF IInv, LinesIn
<1>3. PICK c \in Topologies : nodes' = FishboneNodes(Anchors, c)
  BY DEF BuildNodes
<1>4. nodes' \in Lists(1..VolumeCount) /\ Fished(Anchors, VolumeCount, nodes')
  <2> DEFINE anchors == Anchors
             S == lines.s
             V == VolumeCount
  <2>1. anchors \in AnchorCounts(V) /\ V \in Nat \ {0} /\ Chosen(c, anchors, V, S)
    BY <1>2, AnchorsTyped, TopologyChosen, CompileAssumption DEF LinesOf
  <2>2. S \in Nat \ {0}
    BY <1>2 DEF LinesOf
  <2>3. nodes' = FishboneNodes(anchors, c)
    BY <1>3
  <2> HIDE DEF anchors, S, V
  <2>4. nodes' \in Lists(1..V) /\ Fished(anchors, V, nodes')
    BY <2>1, <2>2, <2>3, FishboneStands
  <2> QED BY <2>4 DEF V, anchors
<1>5. volumes' = Normalized(InOrder(output'.drafts)) /\ Answered(output') /\ attempt' \in 0..2
      /\ LinesOf(lines') /\ Room(lines')
  BY <1>1, <1>2
<1>6. Anchors' = Anchors
  BY <1>1 DEF Anchors
<1>7. Fished(Anchors', VolumeCount, nodes')
  BY <1>4, <1>6
<1>8. Vetted'
  BY <1>1, VettedKept, PhaseFacts
<1> QED BY <1>1, <1>4, <1>5, <1>7, <1>8, PhaseFacts DEF IInv, AttemptsIn, OutputIn, VettedIn,
      VolumesIn, LinesIn, NodesIn, Judged

\* compile_macro_plan: what stands passes the checks, whatever the model named it.
LEMMA StandingPasses ==
  ASSUME volumes \in Seq(VolumeRecords), Len(volumes) = VolumeCount,
         nodes \in Lists(1..VolumeCount), Fished(Anchors, VolumeCount, nodes), NEW named
  PROVE  Checked(nodes, named)
<1> DEFINE anchors == Anchors
           V == VolumeCount
<1>1. anchors \in AnchorCounts(V) /\ V \in Nat \ {0}
  BY AnchorsTyped, CompileAssumption
<1>2. nodes \in Lists(1..V) /\ Fished(anchors, V, nodes)
  OBVIOUS
<1> HIDE DEF anchors, V
<1> QED BY <1>1, <1>2, FishedIsChecked

\* compile_macro_plan: the nodes are checked.
LEMMA CheckIInv == IInv /\ CheckNodes => IInv'
<1> SUFFICES ASSUME IInv, CheckNodes PROVE IInv'
  OBVIOUS
<1>1. phase = "checking" /\ UNCHANGED <<attempt, output, volumes, lines, nodes>>
  BY DEF CheckNodes
<1>2. /\ attempt \in 0..2 /\ Answered(output) /\ volumes = Normalized(InOrder(output.drafts))
      /\ volumes \in Seq(VolumeRecords) /\ Len(volumes) = VolumeCount
      /\ LinesOf(lines) /\ Room(lines)
      /\ nodes \in Lists(1..VolumeCount) /\ Fished(Anchors, VolumeCount, nodes)
  BY <1>1, KeptFacts, PhaseFacts DEF IInv, LinesIn, NodesIn
<1>3. PICK named : phase' = IF Checked(nodes, named) THEN "built" ELSE "rejected"
  BY DEF CheckNodes
<1>4. phase' = "built"
  BY <1>2, <1>3, StandingPasses
<1>5. volumes' = Normalized(InOrder(output'.drafts)) /\ Answered(output') /\ attempt' \in 0..2
      /\ LinesOf(lines') /\ Room(lines') /\ nodes' \in Lists(1..VolumeCount) /\ nodes' = nodes
  BY <1>1, <1>2
<1>6. Anchors' = Anchors
  BY <1>1 DEF Anchors
<1>7. Fished(Anchors', VolumeCount, nodes')
  BY <1>2, <1>5, <1>6
<1>8. Vetted'
  BY <1>1, VettedKept, PhaseFacts
<1> QED BY <1>4, <1>5, <1>7, <1>8, PhaseFacts DEF IInv, AttemptsIn, OutputIn, VettedIn, VolumesIn,
      LinesIn, NodesIn, Judged

\* Every step keeps the invariant.
LEMMA NextIInv == IInv /\ [Next]_vars => IInv'
<1> SUFFICES ASSUME IInv, [Next]_vars PROVE IInv'
  OBVIOUS
<1>1. CASE UNCHANGED vars
  <2>1. Anchors' = Anchors
    BY <1>1 DEF vars, Anchors
  <2>2. NodesIn'
    BY <1>1, <2>1 DEF vars, IInv, NodesIn
  <2>3. phase' \in Judged \cup {"asking", "answered", "raised"}
        /\ AttemptsIn' /\ OutputIn' /\ VolumesIn' /\ LinesIn'
    BY <1>1 DEF vars, IInv, AttemptsIn, OutputIn, VolumesIn, LinesIn
  <2>4. VettedIn'
    BY <1>1 DEF vars, IInv, VettedIn, Vetted
  <2> QED BY <2>2, <2>3, <2>4 DEF IInv
<1>2. CASE Next
  BY <1>2, AskIInv, RaiseIInv, JudgeIInv, NoModelIInv, NormalizeIInv, StorylinesIInv, NodesIInv,
     CheckIInv DEF Next
<1> QED BY <1>1, <1>2

\* The inductive invariant holds in every state.
LEMMA Invariant == Spec => []IInv
BY InitIInv, NextIInv, PTL DEF Spec

\* What was built is a plan that stands.
LEMMA BuiltStands ==
  ASSUME IInv, phase = "built"
  PROVE  /\ nodes \in Lists(1..VolumeCount) /\ Fished(Anchors, VolumeCount, nodes)
         /\ VolumeCount \in Nat \ {0} /\ Anchors \in AnchorCounts(VolumeCount)
         /\ DOMAIN volumes = 1..VolumeCount
<1>1. phase \in Noded /\ phase \in Divided
  BY PhaseFacts
<1>2. nodes \in Lists(1..VolumeCount) /\ Fished(Anchors, VolumeCount, nodes)
  BY <1>1 DEF IInv, NodesIn
<1>3. /\ volumes \in Seq(VolumeRecords) /\ Len(volumes) = VolumeCount
      /\ DOMAIN volumes = 1..VolumeCount
  BY <1>1, KeptFacts
<1>4. Anchors \in AnchorCounts(VolumeCount)
  BY <1>3, AnchorsTyped
<1> QED BY <1>2, <1>3, <1>4, CompileAssumption

-----------------------------------------------------------------------------
(* What is shown. *)

\* compile_macro_plan: whatever the model drafts, every volume has words and as many main anchors
\* as it may have, and every node a kind and a volume of the story.
THEOREM TypeCorrect == Spec => []TypeOK
<1>1. ASSUME IInv
      PROVE  TypeOK
  <2>1. /\ phase \in {"asking", "answered", "normalizing", "storylines", "topology", "checking",
                      "built", "rejected", "raised"}
        /\ attempt \in 0..2
    BY <1>1 DEF IInv, AttemptsIn, Judged
  <2>2. \A v \in DOMAIN volumes :
          volumes[v].words > 0 /\ volumes[v].anchors \in MinAnchors..MaxAnchors
    <3>1. CASE phase \in Divided
      <4>1. volumes \in Seq(VolumeRecords)
        BY <1>1, <3>1, KeptFacts
      <4>2. \A v \in DOMAIN volumes : volumes[v] \in VolumeRecords
        BY <4>1
      <4> QED BY <4>2 DEF VolumeRecords
    <3>2. CASE phase \notin Divided
      <4>1. volumes = <<>>
        BY <1>1, <3>2 DEF IInv, VolumesIn
      <4> QED BY <4>1
    <3> QED BY <3>1, <3>2
  <2>3. \A n \in DOMAIN nodes : nodes[n].kind \in Kinds /\ nodes[n].volume \in DOMAIN volumes
    <3>1. CASE phase \in Noded
      <4> DEFINE W == 1..VolumeCount
      <4>1. nodes \in Lists(W) /\ DOMAIN volumes = W
        BY <1>1, <3>1, KeptFacts, PhaseFacts DEF IInv, NodesIn
      <4> HIDE DEF W
      <4>2. \A n \in DOMAIN nodes : nodes[n] \in NodesOf(W)
        BY <4>1, ListFacts
      <4> QED BY <4>1, <4>2 DEF NodesOf
    <3>2. CASE phase \notin Noded
      <4>1. nodes = <<>>
        BY <1>1, <3>2 DEF IInv, NodesIn
      <4> QED BY <4>1
    <3> QED BY <3>1, <3>2
  <2> QED BY <2>1, <2>2, <2>3 DEF TypeOK
<1> QED BY <1>1, Invariant, PTL

\* _validate_notes_links and _detect_macro_output_language_mismatch: nothing is built from an
\* answer of the model whose notes or language are wrong once its volumes are repaired, and
\* what is built without having been judged has the fallback's volumes.
THEOREM NothingUnchecked == Spec => []NothingUncheckedIsBuilt
<1>1. ASSUME IInv
      PROVE  NothingUncheckedIsBuilt
  <2> SUFFICES ASSUME phase \notin {"asking", "answered", "raised"}
               PROVE  /\ Len(output.drafts) = VolumeCount
                      /\ attempt > 0 =>
                           output.language /\ (KeyPoints => output.castNotes /\ output.anchorNotes)
                      /\ attempt = 0 => output.drafts = FallbackDrafts
    BY DEF NothingUncheckedIsBuilt
  <2>1. Answered(output) /\ Vetted /\ attempt \in 0..2
    BY <1>1 DEF IInv, OutputIn, VettedIn, AttemptsIn
  <2>2. attempt > 0 => Acceptable(output)
    BY <2>1 DEF Vetted
  <2>3. attempt = 0 => output.drafts = FallbackDrafts
    BY <2>1 DEF Vetted
  <2> QED BY <2>1, <2>2, <2>3 DEF Answered, Acceptable, NotesLinked
<1> QED BY <1>1, Invariant, PTL

\* _normalize_macro_plan: however the drafts overlap or leave gaps, volumes are apart and end with
\* the story, and those of the fallback leave no gap.
THEOREM VolumesApart == Spec => []VolumesAreApart
<1>1. ASSUME IInv
      PROVE  VolumesAreApart
  <2> SUFFICES ASSUME volumes # <<>>
               PROVE  /\ \A v \in 2..Len(volumes) : volumes[v - 1].end < volumes[v].start
                      /\ volumes[Len(volumes)].end = TotalChapters
                      /\ output.drafts = FallbackDrafts =>
                           /\ volumes[1].start = 1
                           /\ \A v \in 2..Len(volumes) : volumes[v].start = volumes[v - 1].end + 1
                           /\ \A v \in DOMAIN volumes : volumes[v].start <= volumes[v].end
    BY DEF VolumesAreApart
  <2>1. Answered(output) /\ volumes = Normalized(InOrder(output.drafts))
        /\ DOMAIN volumes = 1..VolumeCount
    BY <1>1, KeptFacts DEF IInv, VolumesIn
  <2>2. Apart(volumes)
    BY <2>1, VolumesTyped
  <2>3. ASSUME output.drafts = FallbackDrafts
        PROVE  /\ volumes[1].start = 1
               /\ \A v \in 2..Len(volumes) : volumes[v].start = volumes[v - 1].end + 1
               /\ \A v \in DOMAIN volumes : volumes[v].start <= volumes[v].end
    <3>1. volumes = Normalized(InOrder(FallbackDrafts))
      BY <2>1, <2>3
    <3>2. /\ Len(volumes) = VolumeCount /\ volumes[1].start = 1
          /\ \A v \in 2..Len(volumes) : volumes[v].start = volumes[v - 1].end + 1
          /\ \A v \in 1..Len(volumes) : volumes[v].start <= volumes[v].end
      BY <3>1, FallbackVolumes
    <3>3. \A v \in DOMAIN volumes : v \in 1..Len(volumes)
      BY <2>1, <3>2
    <3> QED BY <3>2, <3>3
  <2> QED BY <2>2, <2>3 DEF Apart
<1> QED BY <1>1, Invariant, PTL

\* _normalize_volume_word_budgets: however the drafts ask, the budgets spend the target, but for a
\* word in every volume that is left with a single one.
THEOREM BudgetsSpent == Spec => []BudgetsSpendTheTarget
<1>1. ASSUME IInv
      PROVE  BudgetsSpendTheTarget
  <2>1. CASE volumes = <<>>
    BY <2>1 DEF BudgetsSpendTheTarget
  <2>2. CASE volumes # <<>>
    <3>1. Answered(output) /\ volumes = Normalized(InOrder(output.drafts))
      BY <1>1, <2>2, KeptFacts DEF IInv, VolumesIn
    <3>2. Budgeted(volumes)
      BY <3>1, VolumesTyped
    <3> QED BY <3>2 DEF Budgeted, WordsOf, BudgetsSpendTheTarget
  <2> QED BY <2>1, <2>2
<1> QED BY <1>1, Invariant, PTL

\* _build_fishbone_storylines, _match_user_subplot_hints_to_storylines: whatever the author asks
\* for, every subplot pinned to a volume of the story is taken by a storyline of that volume.
THEOREM PinnedTaken == Spec => []PinnedHintsAreTaken
<1>1. ASSUME IInv
      PROVE  PinnedHintsAreTaken
  <2> SUFFICES ASSUME lines # NoLines, NEW i \in DOMAIN Hints,
                      Hints[i].tier \in {"A", "B"}, Hints[i].volume \in DOMAIN volumes
               PROVE  <<i, Hints[i].volume>> \in Matched(lines)
    BY DEF PinnedHintsAreTaken
  <2> DEFINE v == Hints[i].volume
             tier == Hints[i].tier
  <2>1. phase \in Lined /\ LinesOf(lines) /\ Room(lines)
    BY <1>1 DEF IInv, LinesIn
  <2>2. DOMAIN volumes = 1..VolumeCount
    BY <1>1, <2>1, KeptFacts, PhaseFacts
  <2>3. i \in HintsOf(tier, v)
    BY DEF HintsOf
  <2>4. v \in 1..VolumeCount /\ tier \in {"A", "B"}
    BY <2>2
  <2> HIDE DEF v, tier
  <2>5. <<i, v>> \in Matched(lines)
    BY <2>1, <2>3, <2>4, RoomForAll
  <2> QED BY <2>5 DEF v
<1> QED BY <1>1, Invariant, PTL

\* recompute_anchor_unlocks, _build_fishbone_anchor_nodes: chapters that aim at what they may can
\* bring a story that was compiled to its end.
THEOREM Finishable == Spec => []StoryCanBeFinished
<1>1. ASSUME IInv
      PROVE  StoryCanBeFinished
  <2> SUFFICES ASSUME phase = "built" PROVE Resolvable(nodes) = DOMAIN nodes
    BY DEF StoryCanBeFinished
  <2> DEFINE W == 1..VolumeCount
  <2>1. nodes \in Lists(W) /\ Acyclic(nodes)
    BY <1>1, BuiltStands, FishedIsAcyclic
  <2> HIDE DEF W
  <2>2. /\ Len(nodes) \in Nat /\ DOMAIN nodes = 1..Len(nodes)
        /\ \A n \in 1..Len(nodes) : nodes[n].deps \subseteq 1..Len(nodes)
    BY <2>1, ListFacts
  <2>3. IsFiniteSet(DOMAIN nodes)
    BY <2>2, FS_Interval
  <2>4. Sound(nodes)
    BY <2>1, <2>2 DEF Sound, DepsKnown
  <2> QED BY <2>3, <2>4, SoundIsResolvable
<1> QED BY <1>1, Invariant, PTL

\* _build_fishbone_anchor_nodes, compile_macro_plan: whatever the generator chooses, and whatever
\* the model calls the anchors, the checks accept the plan the compile has built.
THEOREM OwnPlanAccepted == Spec => []OwnPlanIsAccepted
<1>1. ASSUME IInv
      PROVE  OwnPlanIsAccepted
  BY <1>1 DEF IInv, NodesIn, OwnPlanIsAccepted
<1> QED BY <1>1, Invariant, PTL

\* put_macro_plan: of what the compile has built only a plan with a volume for which no chapter was
\* left may not be stored as it is, none if the volumes are the fallback's, and none needs repair.
THEOREM OnlyEmptyRefused == Spec => []OnlyEmptyVolumesAreRefused
<1>1. ASSUME IInv
      PROVE  OnlyEmptyVolumesAreRefused
  <2> SUFFICES ASSUME phase = "built"
               PROVE  /\ Repaired(nodes) = {}
                      /\ ValidPlan(nodes, volumes)
                           <=> \A v \in DOMAIN volumes : volumes[v].start <= TotalChapters
                      /\ output.drafts = FallbackDrafts => ValidPlan(nodes, volumes)
    BY DEF OnlyEmptyVolumesAreRefused
  <2> DEFINE anchors == Anchors
             V == VolumeCount
             Vs == DOMAIN volumes
  <2>1. nodes \in Lists(1..V) /\ Fished(anchors, V, nodes)
        /\ V \in Nat \ {0} /\ anchors \in AnchorCounts(V) /\ Vs = 1..V
    BY <1>1, BuiltStands
  <2>2. Answered(output) /\ volumes = Normalized(InOrder(output.drafts))
    BY <1>1, KeptFacts, PhaseFacts
  <2>3. volumes \in Seq(VolumeRecords) /\ Len(volumes) = V
    BY <1>1, KeptFacts, PhaseFacts
  <2> HIDE DEF anchors, V
  <2>4. Repaired(nodes) = {}
    BY <2>1, FishedNeedsNoRepair
  <2>5. ValidNodes(nodes, DOMAIN volumes)
    <3>1. ValidNodes(nodes, 1..V)
      BY <2>1, FishedIsValid
    <3> QED BY <2>1, <3>1
  <2>6. Within(volumes)
    BY <2>2, VolumesWithin
  <2>7. \A v \in DOMAIN volumes :
          volumes[v].start \in Int /\ volumes[v].end \in Int /\ v \in 1..Len(volumes)
    <3> SUFFICES ASSUME NEW v \in DOMAIN volumes
                 PROVE  volumes[v].start \in Int /\ volumes[v].end \in Int /\ v \in 1..Len(volumes)
      OBVIOUS
    <3>1. volumes[v] \in VolumeRecords /\ v \in 1..Len(volumes)
      BY <2>3
    <3>2. volumes[v].start \in Int /\ volumes[v].end \in Int
      BY <3>1 DEF VolumeRecords
    <3> QED BY <3>1, <3>2
  <2>8. TotalChapters \in Nat
    BY CompileAssumption
  <2>9. ValidVolumes(volumes) <=> \A v \in DOMAIN volumes : volumes[v].start <= TotalChapters
    BY <2>6, <2>7, <2>8 DEF ValidVolumes, Within
  <2>10. ASSUME output.drafts = FallbackDrafts
         PROVE  ValidVolumes(volumes)
    <3>1. volumes = Normalized(InOrder(FallbackDrafts))
      BY <2>2, <2>10
    <3>2. \A v \in 1..Len(volumes) : volumes[v].start <= volumes[v].end
      BY <3>1, FallbackVolumes
    <3>3. ASSUME NEW v \in DOMAIN volumes
          PROVE  volumes[v].start >= 1 /\ volumes[v].end >= volumes[v].start
      <4>1. v \in 1..Len(volumes) /\ volumes[v].start \in Int /\ volumes[v].end \in Int
        BY <2>7
      <4>2. volumes[v].start >= 1
        BY <2>6, <4>1 DEF Within
      <4>3. volumes[v].start <= volumes[v].end
        BY <3>2, <4>1
      <4> QED BY <4>1, <4>2, <4>3
    <3> QED BY <3>3 DEF ValidVolumes
  <2> QED BY <2>4, <2>5, <2>9, <2>10 DEF ValidPlan
<1> QED BY <1>1, Invariant, PTL

\* _build_fishbone_anchor_nodes: the checkpoints of what the compile has built divide the story.
THEOREM CheckpointsDivide == Spec => []CheckpointsDivideTheStory
<1>1. ASSUME IInv
      PROVE  CheckpointsDivideTheStory
  <2> SUFFICES ASSUME phase = "built"
               PROVE  /\ \A v \in DOMAIN volumes : VolumeGathered(nodes, v)
                      /\ AllLeadToTheEnd(nodes)
                      /\ \A n \in {m \in DOMAIN nodes : Tier(nodes[m]) = "S" /\ nodes[m].volume > 1} :
                           SeriesWaits(nodes, n)
    BY DEF CheckpointsDivideTheStory, Gathered, VolumeGathered, AllLeadToTheEnd, SeriesWaits
  <2> DEFINE anchors == Anchors
             V == VolumeCount
             Vs == DOMAIN volumes
  <2>1. nodes \in Lists(1..V) /\ Fished(anchors, V, nodes)
        /\ V \in Nat \ {0} /\ anchors \in AnchorCounts(V) /\ Vs = 1..V
    BY <1>1, BuiltStands
  <2> HIDE DEF anchors, V, Vs
  <2>2. \A v \in Vs : VolumeGathered(nodes, v)
    BY <2>1, FishedGathers
  <2>3. AllLeadToTheEnd(nodes)
    BY <2>1, FishedLeadsOn
  <2>4. \A n \in {m \in DOMAIN nodes : Tier(nodes[m]) = "S" /\ nodes[m].volume > 1} :
          SeriesWaits(nodes, n)
    BY <2>1, FishedWaits
  <2> QED BY <2>2, <2>3, <2>4 DEF Vs
<1> QED BY <1>1, Invariant, PTL
=============================================================================
