------------------------ MODULE ChapterMemory_proofs ------------------------
(***************************************************************************)
(* Proofs about ChapterMemory: the types, that the validation gate lets    *)
(* only sound relations through, and that nobody is in two places at once. *)
(* What the gate keeps is sound because everything it has passed was sound *)
(* for the nodes it knew when it passed it, and nothing changes these      *)
(* nodes before the extraction ends (Checked); that rests on requests      *)
(* being under way in their own stage only (Controlled). That nobody is in *)
(* two places rests on what state_updater foresees (Placing): for each     *)
(* prefix of its list there is a set of places that may be open, and whom  *)
(* the next mutation places is in none of them but the new one. EdgesOf    *)
(* and Written are folds; that they go step by step is in Rounds_proofs.   *)
(***************************************************************************)
EXTENDS ChapterMemory, Rounds_proofs

-----------------------------------------------------------------------------
(* Lists. *)

\* Embeds(s, list, places): s consists of elements of list at some of these places, in order.
Embeds(s, list, places) ==
  \E g \in [1..Len(s) -> places] :
     /\ \A i, j \in 1..Len(s) : i < j => g[i] < g[j]
     /\ \A k \in 1..Len(s) : s[k] = list[g[k]]

\* One more element, from a later place.
LEMMA EmbedsMore ==
  ASSUME NEW T, NEW list \in Seq(T), NEW places \in SUBSET (1..Len(list)),
         NEW m \in places, \A p \in places : p <= m,
         NEW s \in Seq(T), Embeds(s, list, places \ {m})
  PROVE  Append(s, list[m]) \in Seq(T) /\ Embeds(Append(s, list[m]), list, places)
<1> DEFINE t == Append(s, list[m])
           n == Len(s)
<1>1. PICK g \in [1..n -> places \ {m}] :
         /\ \A i, j \in 1..n : i < j => g[i] < g[j]
         /\ \A k \in 1..n : s[k] = list[g[k]]
  BY DEF Embeds
<1>2. n \in Nat /\ list[m] \in T /\ places \subseteq Nat
  OBVIOUS
<1>3. t \in Seq(T) /\ Len(t) = n + 1 /\ t[n + 1] = list[m] /\ \A k \in 1..n : t[k] = s[k]
  BY <1>2
<1> DEFINE h == [k \in 1..n + 1 |-> IF k = n + 1 THEN m ELSE g[k]]
<1>4. h \in [1..Len(t) -> places]
  BY <1>1, <1>2, <1>3
<1> HIDE DEF t, n
<1>5. ASSUME NEW i \in 1..n + 1, NEW j \in 1..n + 1, i < j
      PROVE  h[i] < h[j]
  <2>1. i \in 1..n /\ h[i] = g[i] /\ g[i] \in places \ {m}
    BY <1>1, <1>2, <1>5
  <2>2. CASE j = n + 1
    <3>1. g[i] <= m /\ g[i] # m /\ g[i] \in Nat /\ m \in Nat
      BY <1>2, <2>1
    <3> QED BY <2>1, <2>2, <3>1
  <2>3. CASE j # n + 1
    BY <1>1, <1>2, <1>5, <2>1, <2>3
  <2> QED BY <2>2, <2>3
<1>6. ASSUME NEW k \in 1..n + 1
      PROVE  t[k] = list[h[k]]
  <2>1. CASE k = n + 1
    BY <1>2, <1>3, <2>1
  <2>2. CASE k # n + 1
    <3>1. k \in 1..n /\ h[k] = g[k]
      BY <1>2, <2>2
    <3> QED BY <1>1, <1>3, <3>1
  <2> QED BY <2>1, <2>2
<1> HIDE DEF h
<1>7. Embeds(t, list, places)
  BY <1>3, <1>4, <1>5, <1>6 DEF Embeds
<1> QED
  BY <1>3, <1>7 DEF t

\* What Picked takes from a list stands in it in the order of the places.
LEMMA PickedEmbeds ==
  ASSUME NEW T, NEW list \in Seq(T), NEW places \in SUBSET (DOMAIN list)
  PROVE  Picked(list, places) \in Seq(T) /\ Embeds(Picked(list, places), list, places)
<1> DEFINE N == Len(list)
           Q == Seq(T)
           G == [p \in (1..N) \X Q |-> Append(p[2], list[p[1]])]
           iter == CHOOSE h : h = [t \in SUBSET places |->
                                     IF t = {} THEN <<>> ELSE Append(h[t \ {Max(t)}],
                                       list[Max(t)])]
<1>0. N \in Nat /\ places \in SUBSET (1..N) /\ \A k \in 1..N : list[k] \in T
  OBVIOUS
<1>1. Picked(list, places) = iter[places]
  BY Zenon DEF Picked, MapThenFoldSet
<1>2. G \in [(1..N) \X Q -> Q] /\ <<>> \in Q
  BY <1>0
<1>3. \A k \in 1..N, x \in Q : G[<<k, x>>] = Append(x, list[k])
  OBVIOUS
<1> HIDE DEF Q, G, N
<1>4. PICK h \in [SUBSET (1..N) -> Q] : Iterates(h, G, <<>>, N)
  BY <1>0, <1>2, IterationExists
<1>5. \A t \in SUBSET (1..N) : t # {} => Max(t) \in t /\ \A y \in t : y <= Max(t)
  BY <1>0, MaxIsElement
<1>6. ASSUME NEW t \in SUBSET places
      PROVE  h[t] = IF t = {} THEN <<>> ELSE Append(h[t \ {Max(t)}], list[Max(t)])
  <2>1. t \in SUBSET (1..N) /\ t \ {Max(t)} \in SUBSET (1..N)
    BY <1>0
  <2>2. CASE t # {}
    <3>1. Max(t) \in 1..N
      BY <1>5, <2>1, <2>2
    <3> QED BY <1>3, <1>4, <2>1, <2>2, <3>1 DEF Iterates
  <2>3. CASE t = {}
    BY <1>4, <2>3 DEF Iterates
  <2> QED BY <2>2, <2>3
<1> DEFINE r == [t \in SUBSET places |-> h[t]]
<1>7. r = [t \in SUBSET places |-> IF t = {} THEN <<>> ELSE Append(r[t \ {Max(t)}], list[Max(t)])]
  <2>1. \A t \in SUBSET places : t \ {Max(t)} \in SUBSET places
    OBVIOUS
  <2> QED BY <1>6, <2>1
<1> HIDE DEF r
<1>8. iter = [t \in SUBSET places |->
                IF t = {} THEN <<>> ELSE Append(iter[t \ {Max(t)}], list[Max(t)])]
  BY <1>7
<1> HIDE DEF iter
<1> DEFINE Good(t) == iter[t] \in Seq(T) /\ Embeds(iter[t], list, t)
           S == {n \in Nat : \A t \in SUBSET places : t \subseteq 1..n => Good(t)}
<1>9. Good({})
  <2>1. iter[{}] = <<>>
    BY <1>8
  <2>2. Embeds(<<>>, list, {})
    <3>1. Len(<<>>) = 0 /\ 1..0 = {}
      OBVIOUS
    <3>2. [k \in {} |-> 0] \in [{} -> {}]
      OBVIOUS
    <3> QED BY <3>1, <3>2 DEF Embeds
  <2> QED BY <2>1, <2>2
<1> HIDE DEF Good
<1>10. 0 \in S
  <2>1. \A t : t \subseteq 1..0 => t = {}
    OBVIOUS
  <2> QED BY <1>9, <2>1
<1>11. ASSUME NEW n \in Nat, n \in S
       PROVE  n + 1 \in S
  <2> SUFFICES ASSUME NEW t \in SUBSET places, t \subseteq 1..n + 1
               PROVE  Good(t)
    OBVIOUS
  <2> SUFFICES ASSUME t # {} PROVE Good(t)
    BY <1>9
  <2>1. t \in SUBSET (1..N) /\ Max(t) \in t /\ \A y \in t : y <= Max(t)
    BY <1>0, <1>5
  <2>2. t \ {Max(t)} \in SUBSET places /\ t \ {Max(t)} \subseteq 1..n
    <3>1. ASSUME NEW y \in t, y # Max(t)
          PROVE  y \in 1..n
      <4>1. y <= Max(t) /\ y \in 1..n + 1 /\ Max(t) \in 1..n + 1
        BY <2>1
      <4> QED BY <3>1, <4>1
    <3> QED BY <3>1
  <2>3. Good(t \ {Max(t)})
    BY <1>11, <2>2
  <2>4. iter[t] = Append(iter[t \ {Max(t)}], list[Max(t)])
    BY <1>8
  <2>5. iter[t] \in Seq(T) /\ Embeds(iter[t], list, t)
    <3> DEFINE s == iter[t \ {Max(t)}]
               m == Max(t)
    <3>1. s \in Seq(T) /\ Embeds(s, list, t \ {m})
      BY <2>3 DEF Good
    <3> HIDE DEF s, m
    <3>2. t \in SUBSET (1..Len(list)) /\ m \in t /\ \A y \in t : y <= m
      BY <2>1 DEF N, m
    <3>3. Append(s, list[m]) \in Seq(T) /\ Embeds(Append(s, list[m]), list, t)
      BY <3>1, <3>2, EmbedsMore
    <3> QED BY <2>4, <3>3 DEF s, m
  <2> QED BY <2>5 DEF Good
<1> HIDE DEF S
<1>12. Nat \subseteq S
  BY <1>10, <1>11, Induction
<1>13. Good(places)
  BY <1>0, <1>12 DEF S
<1> QED
  BY <1>1, <1>13 DEF Good

\* Answers are those of the protocol.
LEMMA AnswersAreKnown ==
  ASSUME NEW call
  PROVE  AnswersOf(call) \subseteq Answers
<1>1. Readings \subseteq Answers
  BY DEF Readings, Reading, Answers
<1>2. Errors \subseteq Answers /\ Status(502) \in Answers
  BY DEF Errors, Status, Answers
<1> QED
  BY <1>1, <1>2 DEF AnswersOf, StreamAnswers, PlainAnswers

\* Of the states of a request two are under way, two have ended.
LEMMA CallsArePlain ==
  /\ {Idle, Returned, Raised} \subseteq Calls
  /\ ~UnderWay(Idle) /\ ~UnderWay(Returned) /\ ~UnderWay(Raised)
  /\ \A n \in 0..MaxJsonRepairs : Asked(n) \in Calls
  /\ \A call \in Calls : UnderWay(call) => call.round \in 0..MaxJsonRepairs
<1>1. {Idle, Returned, Raised} \subseteq Calls
  BY DEF Calls
<1>2. ~UnderWay(Idle) /\ ~UnderWay(Returned) /\ ~UnderWay(Raised)
  BY DEF Idle, Returned, Raised, UnderWay, Call
<1>3. \A n \in 0..MaxJsonRepairs : Asked(n) \in Calls
  BY DEF Asked, Calls, Call
<1>4. \A call \in Calls : UnderWay(call) => call.round \in 0..MaxJsonRepairs
  BY <1>2 DEF Calls, Call
<1> QED
  BY <1>1, <1>2, <1>3, <1>4

\* An answer leads from a request that is under way to a request.
LEMMA AfterIsCall ==
  ASSUME NEW call \in Calls, UnderWay(call), NEW answer \in Answers
  PROVE  After(call, answer) \in Calls
<1>0. MaxJsonRepairs \in Nat /\ call.round \in 0..MaxJsonRepairs
  BY ClientAssumption, CallsArePlain
<1>1. Retried(call) \in Calls
  BY <1>0, CallsArePlain DEF Retried
<1>2. Refused(call) \in Calls
  <2>1. Call("plain", call.round) \in Calls
    BY <1>0 DEF Calls
  <2> QED BY <2>1, CallsArePlain DEF Refused
<1> QED
  BY <1>1, <1>2, CallsArePlain DEF After, Answers

\* The parts of a relation.
LEMMA RelationFields ==
  ASSUME NEW r \in Relations
  PROVE  /\ r.kind \in EdgeTypes /\ r.src.of \in Ids /\ r.dst.of \in Ids /\ r.public \in BOOLEAN
         /\ r.src \in Endpoints /\ r.dst \in Endpoints
BY DEF Relations, Endpoints

\* Who names a node has an endpoint.
LEMMA ByIdIsEndpoint ==
  ASSUME NEW n \in Ids
  PROVE  ById(n) \in Endpoints /\ ByName(n) \in Endpoints /\ ById(n).of = n
BY DEF ById, ByName, Endpoints

\* Two endpoints make a relation.
LEMMA RelationTyped ==
  ASSUME NEW kind \in EdgeTypes, NEW src \in Endpoints, NEW dst \in Endpoints, NEW public \in
         BOOLEAN
  PROVE  Relation(kind, src, dst, public) \in Relations
BY DEF Relation, Relations

\* Other ends leave the kind of a relation.
LEMMA EndsReplaced ==
  ASSUME NEW r \in Relations, NEW s \in Endpoints, NEW d \in Endpoints
  PROVE  /\ [r EXCEPT !.src = s, !.dst = d] \in Relations
         /\ [r EXCEPT !.src = s, !.dst = d].src = s
         /\ [r EXCEPT !.src = s, !.dst = d].dst = d
         /\ [r EXCEPT !.src = s, !.dst = d].kind = r.kind
BY DEF Relations

\* What is picked was in the list, at one of the places.
LEMMA PickedIn ==
  ASSUME NEW T, NEW list \in Seq(T), NEW places \in SUBSET (DOMAIN list)
  PROVE  Picked(list, places) \in Seq({list[i] : i \in places})
<1> DEFINE p == Picked(list, places)
<1>1. p \in Seq(T) /\ Embeds(p, list, places)
  BY PickedEmbeds
<1> HIDE DEF p
<1>2. \A k \in 1..Len(p) : p[k] \in {list[i] : i \in places}
  BY <1>1 DEF Embeds
<1>3. p \in Seq({list[i] : i \in places})
  BY <1>1, <1>2
<1> QED BY <1>3 DEF p

\* What is picked is a list of the same kind.
LEMMA PickedTyped ==
  ASSUME NEW T, NEW list \in Seq(T), NEW places \in SUBSET (DOMAIN list)
  PROVE  Picked(list, places) \in Seq(T)
BY PickedEmbeds

\* A finite set is listed by the sequence the code makes of it.
LEMMA SetToSeqLists ==
  ASSUME NEW T, NEW S \in SUBSET T, IsFiniteSet(S)
  PROVE  /\ SetToSeq(S) \in Seq(T)
         /\ \A x \in S : \E i \in DOMAIN SetToSeq(S) : SetToSeq(S)[i] = x
         /\ \A i \in DOMAIN SetToSeq(S) : SetToSeq(S)[i] \in S
         /\ \A i, j \in DOMAIN SetToSeq(S) : SetToSeq(S)[i] = SetToSeq(S)[j] => i = j
<1> DEFINE n == Cardinality(S)
           s == SetToSeq(S)
<1>1. n \in Nat /\ Bijection(1..n, S) # {}
  BY FS_CardinalityType DEF ExistsBijection
<1> HIDE DEF n
<1>2. \E f \in [1..n -> S] : IsInjective(f)
  BY <1>1 DEF Bijection, Injection
<1>3. s \in [1..n -> S] /\ IsInjective(s)
  BY <1>2 DEF SetToSeq, n
<1> HIDE DEF s
<1>4. s \in Seq(T) /\ DOMAIN s = 1..n
  BY <1>1, <1>3
<1>5. s \in Surjection(1..n, S)
  <2>1. s \in Injection(1..n, S)
    BY <1>3 DEF Injection
  <2>2. IsFiniteSet(1..n) /\ Cardinality(1..n) = n
    BY <1>1, FS_Interval
  <2> QED BY <2>1, <2>2, FS_Injection DEF n
<1>6. \A x \in S : \E i \in DOMAIN s : s[i] = x
  BY <1>4, <1>5 DEF Surjection
<1>7. (\A i \in DOMAIN s : s[i] \in S) /\ \A i, j \in DOMAIN s : s[i] = s[j] => i = j
  BY <1>3 DEF IsInjective
<1> QED
  BY <1>4, <1>6, <1>7 DEF s

\* The images of a finite set under a function are finitely many.
LEMMA FiniteImage ==
  ASSUME NEW S, IsFiniteSet(S), NEW f, DOMAIN f = S
  PROVE  IsFiniteSet({f[x] : x \in S})
<1> DEFINE R == {f[x] : x \in S}
           g == [x \in S |-> f[x]]
<1>1. g \in Surjection(S, R)
  BY DEF Surjection
<1> QED
  BY <1>1, FS_Surjection

-----------------------------------------------------------------------------
(* What the models answer. *)

\* What the scope leaves of the candidates are candidates.
LEMMA InScopeTyped ==
  ASSUME NEW reply \in Seq(Candidates)
  PROVE  InScope(reply) \in Seq(Candidates)
BY PickedTyped DEF InScope

\* A candidate becomes a node.
LEMMA CanonicalTyped ==
  ASSUME NEW c \in Candidates, NEW existing \in SUBSET Ids, NEW seen
  PROVE  Canonical(c, existing, seen) \in Ids
<1>1. c.suggests \in Ids \cup {Nowhere} /\ c.names \in Ids
  BY DEF Candidates
<1>2. Events \subseteq Ids
  BY GateAssumption
<1>3. CASE c.suggests \in existing
  BY <1>3 DEF Canonical
<1>4. CASE c.suggests \notin existing /\ c.names \in existing
  BY <1>1, <1>4 DEF Canonical
<1>5. CASE c.suggests \notin existing /\ c.names \notin existing
  <2>1. Canonical(c, existing, seen) = IF c.suggests \in Events \ seen THEN c.suggests ELSE c.names
    BY <1>5 DEF Canonical
  <2> QED BY <1>1, <1>2, <2>1
<1> QED
  BY <1>3, <1>4, <1>5

\* Candidates become nodes.
LEMMA CanonicalizedTyped ==
  ASSUME NEW reply \in Seq(Candidates), NEW existing \in SUBSET Ids
  PROVE  Canonicalized(reply, existing) \in SUBSET Ids
<1> DEFINE s == InScope(reply)
           N == Len(s)
           T == SUBSET Ids
           G == [p \in (1..N) \X T |-> p[2] \cup {Canonical(s[p[1]], existing, p[2])}]
           iter == CHOOSE h : h = [t \in SUBSET DOMAIN s |->
                      IF t = {} THEN {}
                      ELSE h[t \ {Max(t)}] \cup {Canonical(s[Max(t)], existing, h[t \ {Max(t)}])}]
<1>1. Canonicalized(reply, existing) = iter[DOMAIN s]
  BY Zenon DEF Canonicalized, FoldLeft, MapThenFoldSet
<1>2. N \in Nat /\ DOMAIN s = 1..N /\ \A k \in 1..N : s[k] \in Candidates
  BY InScopeTyped
<1> HIDE DEF s, N
<1>3. G \in [(1..N) \X T -> T] /\ {} \in T
  BY <1>2, CanonicalTyped
<1>4. \A k \in 1..N, x \in T : G[<<k, x>>] = x \cup {Canonical(s[k], existing, x)}
  OBVIOUS
<1> HIDE DEF T, G
<1>5. PICK h \in [SUBSET (1..N) -> T] : Iterates(h, G, {}, N)
  BY <1>2, <1>3, IterationExists
<1>6. \A t \in SUBSET (1..N) : t # {} => Max(t) \in 1..N /\ t \ {Max(t)} \in SUBSET (1..N)
  BY <1>2, MaxIsElement
<1>7. h = [t \in SUBSET (1..N) |->
             IF t = {} THEN {}
             ELSE h[t \ {Max(t)}] \cup {Canonical(s[Max(t)], existing, h[t \ {Max(t)}])}]
  BY <1>4, <1>5, <1>6 DEF Iterates
<1>8. iter = [t \in SUBSET (1..N) |->
                IF t = {} THEN {}
                ELSE iter[t \ {Max(t)}] \cup {Canonical(s[Max(t)], existing, iter[t \ {Max(t)}])}]
  <2>1. iter = CHOOSE x : x = [t \in SUBSET (1..N) |->
                      IF t = {} THEN {}
                      ELSE x[t \ {Max(t)}] \cup {Canonical(s[Max(t)], existing, x[t \ {Max(t)}])}]
    BY <1>2
  <2> HIDE DEF iter
  <2> QED BY <1>7, <2>1
<1> HIDE DEF iter
<1>9. Folds(iter, T, G, {}, N)
  BY <1>4, <1>6, <1>8 DEF Folds
<1>10. FoldsTo(T, G, {}, N, iter[1..N])
  BY <1>2, <1>3, <1>9, IterationSteps
<1>11. PICK f \in [0..N -> T] : iter[1..N] = f[N]
  BY <1>10 DEF FoldsTo
<1>12. f[N] \in T
  BY <1>2
<1> QED
  BY <1>1, <1>2, <1>11, <1>12 DEF T
\* An endpoint that resolves does so to a known node.
LEMMA ResolveTyped ==
  ASSUME NEW e \in Endpoints, NEW existing, NEW entities0, Resolve(e, existing, entities0) #
         Nowhere
  PROVE  /\ Resolve(e, existing, entities0) \in Ids
         /\ Resolve(e, existing, entities0) \in existing \cup entities0
BY GateAssumption DEF Resolve, Endpoints

\* The misaligned relations are relations.
LEMMA MisalignedTyped ==
  ASSUME NEW batch \in Seq(Relations), NEW existing, NEW ents
  PROVE  Misaligned(batch, existing, ents) \in Seq(Relations)
BY PickedTyped DEF Misaligned

\* And so are those that are left of repeated ones.
LEMMA DedupedTyped ==
  ASSUME NEW batch \in Seq(Relations)
  PROVE  Deduped(batch) \in Seq(Relations)
BY PickedTyped DEF Deduped

\* A relation that is aligned joins two different known nodes.
LEMMA AlignedFacts ==
  ASSUME NEW r \in Relations, NEW existing, NEW ents, ~AlignFails(r, existing, ents)
  PROVE  LET a == Aligned(r, existing, ents)
         IN /\ a \in Relations
            /\ a.src.of # a.dst.of /\ {a.src.of, a.dst.of} \subseteq existing \cup ents
<1> DEFINE src == Resolve(r.src, existing, ents)
           dst == Resolve(r.dst, existing, ents)
<1>1. src # Nowhere /\ dst # Nowhere /\ src # dst
  BY DEF AlignFails
<1>2. r.src \in Endpoints /\ r.dst \in Endpoints
  BY RelationFields
<1>3. {src, dst} \subseteq Ids /\ {src, dst} \subseteq existing \cup ents
  BY <1>1, <1>2, ResolveTyped
<1> HIDE DEF src, dst
<1>4. ById(src) \in Endpoints /\ ById(dst) \in Endpoints /\ ById(src).of = src
        /\ ById(dst).of = dst
  BY <1>3, ByIdIsEndpoint
<1> DEFINE e == ById(src)
           f == ById(dst)
           a == [r EXCEPT !.src = e, !.dst = f]
<1>5. a = Aligned(r, existing, ents)
  BY DEF Aligned, src, dst
<1> HIDE DEF e, f
<1>6. a \in Relations /\ a.src = e /\ a.dst = f
  <2>1. e \in Endpoints /\ f \in Endpoints
    BY <1>4 DEF e, f
  <2> QED BY <2>1 DEF Relations
<1> HIDE DEF a
<1>7. a.src.of = src /\ a.dst.of = dst
  BY <1>4, <1>6 DEF e, f
<1> QED
  BY <1>1, <1>3, <1>5, <1>6, <1>7

\* SoundIn(r, existing, ents): the gate lets it through.
SoundIn(r, existing, ents) ==
  /\ r.src.of # r.dst.of /\ {r.src.of, r.dst.of} \subseteq existing \cup ents
  /\ ~Refuses(r.kind, r.src.of, r.dst.of, ents)

\* What the gate lets through is sound.
LEMMA ValidFacts ==
  ASSUME NEW batch \in Seq(Relations), NEW existing, NEW ents
  PROVE  /\ Valid(batch, existing, ents) \in Seq(Relations)
         /\ \A i \in DOMAIN Valid(batch, existing, ents) :
              SoundIn(Valid(batch, existing, ents)[i], existing, ents)
<1> DEFINE fails(i) == AlignFails(batch[i], existing, ents)
           byId == [i \in DOMAIN batch |-> Aligned(batch[i], existing, ents)]
           places == {i \in DOMAIN batch : /\ ~fails(i)
                        /\ ~Refuses(byId[i].kind, byId[i].src.of, byId[i].dst.of, ents)}
           v == Valid(batch, existing, ents)
<1>1. v = Picked(byId, places)
  BY DEF Valid
<1>2. \A i \in places : byId[i] \in Relations /\ SoundIn(byId[i], existing, ents)
  BY AlignedFacts DEF SoundIn
<1>3. byId \in Seq({byId[i] : i \in DOMAIN batch}) /\ DOMAIN byId = DOMAIN batch
  <2>1. Len(batch) \in Nat /\ DOMAIN batch = 1..Len(batch)
    OBVIOUS
  <2> QED BY <2>1
<1>4. places \in SUBSET (DOMAIN byId)
  OBVIOUS
<1> HIDE DEF byId, places
<1>5. v \in Seq({byId[i] : i \in places})
  BY <1>1, <1>3, <1>4, PickedIn
<1> HIDE DEF v
<1>6. \A i \in DOMAIN v : v[i] \in {byId[j] : j \in places}
  BY <1>5
<1>7. v \in Seq(Relations) /\ \A i \in DOMAIN v : SoundIn(v[i], existing, ents)
  BY <1>2, <1>5, <1>6
<1> QED
  BY <1>7 DEF v

\* Of what has the same ends and kind one is left, and nothing is added.
LEMMA DedupedFacts ==
  ASSUME NEW batch \in Seq(Relations)
  PROVE  /\ \A i, j \in DOMAIN Deduped(batch) : Key(Deduped(batch)[i]) = Key(Deduped(batch)[j])
              => i = j
         /\ \A i \in DOMAIN Deduped(batch) : \E j \in DOMAIN batch : Deduped(batch)[i] = batch[j]
<1> DEFINE places == {i \in DOMAIN batch : \A j \in 1..i - 1 : Key(batch[j]) # Key(batch[i])}
           d == Deduped(batch)
<1>1. d = Picked(batch, places)
  BY DEF Deduped
<1>2. \A p, q \in places : p < q => Key(batch[p]) # Key(batch[q])
  OBVIOUS
<1>3. places \in SUBSET (DOMAIN batch)
  OBVIOUS
<1> HIDE DEF places, d
<1>4. d \in Seq(Relations) /\ Embeds(d, batch, places)
  BY <1>1, <1>3, PickedEmbeds
<1>5. PICK g \in [1..Len(d) -> places] :
         /\ \A i, j \in 1..Len(d) : i < j => g[i] < g[j]
         /\ \A k \in 1..Len(d) : d[k] = batch[g[k]]
  BY <1>4 DEF Embeds
<1>6. DOMAIN d = 1..Len(d) /\ Len(d) \in Nat
  BY <1>4
<1>7. ASSUME NEW i \in 1..Len(d), NEW j \in 1..Len(d), i < j
      PROVE  Key(d[i]) # Key(d[j])
  <2>1. g[i] \in places /\ g[j] \in places /\ g[i] < g[j] /\ d[i] = batch[g[i]]
          /\ d[j] = batch[g[j]]
    BY <1>5, <1>7
  <2> QED BY <1>2, <2>1
<1>8. ASSUME NEW i \in DOMAIN d, NEW j \in DOMAIN d, Key(d[i]) = Key(d[j])
      PROVE  i = j
  <2>1. i \in 1..Len(d) /\ j \in 1..Len(d)
    BY <1>6
  <2>2. i < j \/ j < i \/ i = j
    BY <1>6, <2>1
  <2> QED BY <1>7, <1>8, <2>1, <2>2
<1>9. \A i \in DOMAIN d : \E j \in DOMAIN batch : d[i] = batch[j]
  BY <1>3, <1>5, <1>6
<1> QED
  BY <1>8, <1>9 DEF d

\* There are finitely many pairs of nodes.
LEMMA PairsAreFinite ==
  IsFiniteSet(Ids \X Ids)
BY GateAssumption, FS_Product

\* The links of the planner are relations.
LEMMA LinkedTyped ==
  ASSUME NEW kind \in EdgeTypes, NEW pairs \in SUBSET (Ids \X Ids)
  PROVE  Linked(kind, pairs) \in Seq(Relations)
<1> DEFINE sub == {q \in pairs : {q[1], q[2]} \subseteq found}
           f == [p \in sub |-> Relation(kind, ById(p[1]), ById(p[2]), TRUE)]
           S == {f[p] : p \in sub}
<1>1. IsFiniteSet(sub)
  BY PairsAreFinite, FS_Subset
<1>2. \A p \in sub : Relation(kind, ById(p[1]), ById(p[2]), TRUE) \in Relations
  BY ByIdIsEndpoint, RelationTyped
<1>3. Linked(kind, pairs) = SetToSeq(S)
  BY DEF Linked
<1>4. S \in SUBSET Relations /\ DOMAIN f = sub
  BY <1>2
<1> HIDE DEF f, sub
<1>5. IsFiniteSet(S)
  BY <1>1, <1>4, FiniteImage
<1> HIDE DEF S
<1> QED
  BY <1>3, <1>4, <1>5, SetToSeqLists

\* So is where the fallback finds the characters.
LEMMA PresentTyped ==
  ASSUME found \in SUBSET Ids
  PROVE  Present \in Seq(Relations)
<1>1. CASE found \cap Places = {}
  BY <1>1 DEF Present
<1>2. CASE found \cap Places # {}
  <2> DEFINE sub == found \cap Characters
             f == [c \in sub |-> Relation("LOCATED_IN", ById(c), ByName(Scene), FALSE)]
             S == {f[c] : c \in sub}
  <2>1. IsFiniteSet(sub)
    BY GateAssumption, FS_Subset
  <2>2. Scene \in Ids
    BY <1>2 DEF Scene
  <2>3. \A c \in sub : Relation("LOCATED_IN", ById(c), ByName(Scene), FALSE) \in Relations
    <3>1. ByName(Scene) \in Endpoints /\ \A c \in sub : ById(c) \in Endpoints
      BY <2>2, ByIdIsEndpoint
    <3>2. "LOCATED_IN" \in EdgeTypes /\ FALSE \in BOOLEAN
      BY DEF EdgeTypes
    <3> QED BY <3>1, <3>2, RelationTyped
  <2>4. Present = SetToSeq(S)
    BY <1>2 DEF Present
  <2>5. S \in SUBSET Relations /\ DOMAIN f = sub
    BY <2>3
  <2> HIDE DEF f, sub
  <2>6. IsFiniteSet(S)
    BY <2>1, <2>5, FiniteImage
  <2> HIDE DEF S
  <2> QED BY <2>4, <2>5, <2>6, SetToSeqLists
<1> QED BY <1>1, <1>2

\* And all that the fallback makes up.
LEMMA FallbackTyped ==
  ASSUME found \in SUBSET Ids
  PROVE  FallbackRelations \in Seq(Relations)
<1>1. Causal \in SUBSET (Ids \X Ids) /\ Temporal \in SUBSET (Ids \X Ids)
  BY GateAssumption
<1>2. /\ Linked("HAPPENED_BEFORE", Temporal) \in Seq(Relations)
      /\ Linked("CAUSED", Causal) \in Seq(Relations) /\ Present \in Seq(Relations)
  <2>1. "HAPPENED_BEFORE" \in EdgeTypes /\ "CAUSED" \in EdgeTypes
    BY DEF EdgeTypes
  <2> QED BY <1>1, <2>1, LinkedTyped, PresentTyped
<1> QED
  BY <1>2 DEF FallbackRelations

\* A repair leaves relations relations.
LEMMA PatchedTyped ==
  ASSUME NEW r \in Relations, NEW patch, NEW allowed \in SUBSET Ids
  PROVE  Patched(r, patch, allowed) \in Relations
<1>1. CASE patch[1] \in allowed /\ patch[2] \in allowed /\ patch[1] # patch[2]
  <2>1. ById(patch[1]) \in Endpoints /\ ById(patch[2]) \in Endpoints
    BY <1>1, ByIdIsEndpoint
  <2>2. Patched(r, patch, allowed) = [r EXCEPT !.src = ById(patch[1]), !.dst = ById(patch[2])]
    BY <1>1 DEF Patched
  <2> QED BY <2>1, <2>2 DEF Relations
<1>2. CASE ~(patch[1] \in allowed /\ patch[2] \in allowed /\ patch[1] # patch[2])
  BY <1>2 DEF Patched
<1> QED
  BY <1>1, <1>2

\* Renames(to): to identifies nodes with nodes.
Renames(to) == \A n \in DOMAIN to : to[n] \in Ids

\* What is identified with a node is one.
LEMMA MovedTyped ==
  ASSUME NEW to, Renames(to), NEW n \in Ids
  PROVE  Moved(to, n) \in Ids
BY DEF Moved, Renames

\* Relations between identified nodes are relations.
LEMMA MovedRelationTyped ==
  ASSUME NEW to, Renames(to), NEW r \in Relations
  PROVE  MovedRelation(to, r) \in Relations
<1> DEFINE s == ById(Moved(to, r.src.of))
           d == ById(Moved(to, r.dst.of))
<1>1. s \in Endpoints /\ d \in Endpoints
  BY RelationFields, MovedTyped, ByIdIsEndpoint
<1>2. MovedRelation(to, r) = [r EXCEPT !.src = s, !.dst = d]
  BY DEF MovedRelation
<1> HIDE DEF s, d
<1> QED
  BY <1>1, <1>2 DEF Relations

-----------------------------------------------------------------------------
(* Where somebody may be while a list is written. *)

\* The pairs of nodes; the mutations that place somebody.
Ways == Ids \X Ids

IsPlacing(m) == m.op = "create" /\ m.kind = "LOCATED_IN"

\* Follows(a, m, b): if the open places are among a before m is written, they are among b
\* afterwards; and when m places somebody, nowhere else is open among a.
Follows(a, m, b) ==
  /\ m.op = "retire" => a \ {m.edge} \subseteq b
  /\ IsPlacing(m) => a \cup {m.edge} \subseteq b /\ \A f \in a : f[1] = m.edge[1] => f = m.edge
  /\ m.op # "retire" /\ ~IsPlacing(m) => a \subseteq b

\* Tracked(list, seen, open): if seen are the open places before the list is written, open
\* are among those that may be open afterwards, and nobody is placed who may be elsewhere.
Tracked(list, seen, open) ==
  \E may \in [0..Len(list) -> SUBSET Ways] :
     /\ may[0] = seen /\ may[Len(list)] = open
     /\ \A k \in 1..Len(list) : Follows(may[k - 1], list[k], may[k])

\* Retiring places of the list's end closes them.
LEMMA RetiresTracked ==
  ASSUME NEW list \in Seq(Mutations), NEW retires \in Seq(Mutations),
         \A i \in 1..Len(retires) : retires[i].op = "retire",
         NEW seen, NEW open, Tracked(list, seen, open)
  PROVE  Tracked(list \o retires, seen, open \ {retires[i].edge : i \in 1..Len(retires)})
<1> DEFINE n == Len(list)
           m == Len(retires)
           both == list \o retires
           gone(k) == {retires[i].edge : i \in 1..k}
<1>1. PICK may \in [0..n -> SUBSET Ways] :
         /\ may[0] = seen /\ may[n] = open
         /\ \A k \in 1..n : Follows(may[k - 1], list[k], may[k])
  BY DEF Tracked
<1>2. n \in Nat /\ m \in Nat /\ Len(both) = n + m
  OBVIOUS
<1>3. \A k \in 1..n : both[k] = list[k]
  OBVIOUS
<1>4. \A k \in (n + 1)..(n + m) : both[k] = retires[k - n]
  OBVIOUS
<1> DEFINE more == [k \in 0..n + m |-> IF k <= n THEN may[k] ELSE open \ gone(k - n)]
<1>5. open \in SUBSET Ways
  BY <1>1, <1>2
<1>6. more \in [0..n + m -> SUBSET Ways]
  BY <1>1, <1>2, <1>5
<1>7. gone(0) = {}
  OBVIOUS
<1>8. \A k \in n..n + m : more[k] = open \ gone(k - n)
  <2>1. more[n] = open
    BY <1>1, <1>2
  <2>2. n - n = 0
    BY <1>2
  <2>3. more[n] = open \ gone(n - n)
    BY <1>7, <2>1, <2>2
  <2>4. \A k \in n..n + m : k # n => ~(k <= n) /\ k \in 0..n + m
    BY <1>2
  <2> QED BY <2>3, <2>4
<1>9. \A k \in 0..n : more[k] = may[k]
  BY <1>2
<1>10. \A k \in 1..m : gone(k) = gone(k - 1) \cup {retires[k].edge}
  BY <1>2
<1> HIDE DEF both, more, n, m, gone
<1>11. ASSUME NEW k \in 1..n + m
       PROVE  Follows(more[k - 1], both[k], more[k])
  <2>1. CASE k \in 1..n
    <3>1. k - 1 \in 0..n /\ k \in 0..n
      BY <1>2, <2>1
    <3> QED BY <1>1, <1>3, <1>9, <2>1, <3>1
  <2>2. CASE k \notin 1..n
    <3>1. k \in (n + 1)..(n + m) /\ k - 1 \in n..n + m /\ k \in n..n + m /\ k - n \in 1..m
            /\ (k - 1) - n = (k - n) - 1
      BY <1>2, <2>2
    <3>2. more[k - 1] = open \ gone((k - n) - 1) /\ more[k] = open \ gone(k - n)
      BY <1>8, <3>1
    <3>3. both[k] = retires[k - n] /\ both[k].op = "retire"
      BY <1>4, <3>1 DEF m
    <3>4. more[k - 1] \ {both[k].edge} \subseteq more[k]
      BY <1>10, <3>1, <3>2, <3>3
    <3> QED BY <3>3, <3>4 DEF Follows, IsPlacing
  <2> QED BY <2>1, <2>2
<1>12. more[0] = seen /\ more[n + m] = open \ gone(m)
  <2>1. 0 \in 0..n /\ n + m \in n..n + m /\ (n + m) - n = m
    BY <1>2
  <2>2. more[0] = seen
    BY <1>1, <1>9, <2>1
  <2>3. more[n + m] = open \ gone((n + m) - n)
    BY <1>8, <2>1
  <2> QED BY <2>1, <2>2, <2>3
<1>13. Tracked(both, seen, open \ gone(m))
  BY <1>2, <1>6, <1>11, <1>12 DEF Tracked
<1> QED
  BY <1>13 DEF both, gone, m

\* One more mutation.
LEMMA MoreTracked ==
  ASSUME NEW list \in Seq(Mutations), NEW m \in Mutations,
         NEW seen, NEW open, NEW after \in SUBSET Ways, Tracked(list, seen, open),
           Follows(open, m, after)
  PROVE  Tracked(list \o <<m>>, seen, after)
<1> DEFINE n == Len(list)
           both == list \o <<m>>
<1>1. PICK may \in [0..n -> SUBSET Ways] :
         /\ may[0] = seen /\ may[n] = open
         /\ \A k \in 1..n : Follows(may[k - 1], list[k], may[k])
  BY DEF Tracked
<1>2. n \in Nat /\ Len(both) = n + 1 /\ both[n + 1] = m /\ \A k \in 1..n : both[k] = list[k]
  OBVIOUS
<1> DEFINE more == [k \in 0..n + 1 |-> IF k <= n THEN may[k] ELSE after]
<1>3. more \in [0..n + 1 -> SUBSET Ways]
  BY <1>1, <1>2
<1>4. (\A k \in 0..n : more[k] = may[k]) /\ more[n + 1] = after
  BY <1>2
<1> HIDE DEF both, more, n
<1>5. ASSUME NEW k \in 1..n + 1
      PROVE  Follows(more[k - 1], both[k], more[k])
  <2>1. CASE k \in 1..n
    <3>1. k - 1 \in 0..n /\ k \in 0..n
      BY <1>2, <2>1
    <3> QED BY <1>1, <1>2, <1>4, <2>1, <3>1
  <2>2. CASE k = n + 1
    <3>1. (n + 1) - 1 = n /\ n \in 0..n
      BY <1>2
    <3>2. more[(n + 1) - 1] = open
      BY <1>1, <1>4, <3>1
    <3> QED BY <1>2, <1>4, <2>2, <3>2
  <2> QED BY <1>2, <2>1, <2>2
<1>6. 0 \in 0..n
  BY <1>2
<1>7. Tracked(both, seen, after)
  BY <1>1, <1>2, <1>3, <1>4, <1>5, <1>6 DEF Tracked
<1> QED
  BY <1>7 DEF both

\* Nothing an event is about is a place.
Settles(m) == m.op = "retire" \/ IsPlacing(m) => m.edge[2] \notin Events
Grounded(list) == \A i \in 1..Len(list) : list[i].op # "upsert" /\ Settles(list[i])

\* What EdgesOf folds the relations into.
Accumulators(seen) ==
  {acc \in [list : Seq(Mutations), open : SUBSET Ways] :
     Tracked(acc.list, seen, acc.open) /\ Grounded(acc.list)
       /\ \A f \in acc.open : f[2] \notin Events}

\* The mutations are mutations.
LEMMA MutationsTyped ==
  /\ \A e \in Ways : Retire(e) \in Mutations
  /\ \A r \in Relations : Create(r) \in Mutations
  /\ \A ns \in SUBSET Ids : Upsert(ns) \in Mutations
<1>1. \A e \in Ways : Retire(e) \in Mutations
  BY DEF Retire, Mutations, Ways
<1>2. ASSUME NEW r \in Relations
      PROVE  Create(r) \in Mutations
  <2>1. Audience(r) \in SUBSET Narrators
    BY DEF Audience
  <2>2. r.kind \in EdgeTypes /\ <<r.src.of, r.dst.of>> \in Ids \X Ids
    BY RelationFields
  <2> HIDE DEF Audience
  <2> QED BY <2>1, <2>2 DEF Create, Mutations
<1>3. \A ns \in SUBSET Ids : Upsert(ns) \in Mutations
  BY DEF Upsert, Mutations
<1> QED
  BY <1>1, <1>2, <1>3

\* Nobody is located in an event.
LEMMA EventsAreNoPlaces ==
  ASSUME NEW src, NEW dst, DirectionValid("LOCATED_IN", src, dst)
  PROVE  dst \notin Events
<1>1. NodeType[dst] \in {"LOCATION"}
  BY DEF DirectionValid, Directions
<1> QED
  BY <1>1, GateAssumption

\* Two grounded lists make one.
LEMMA GroundedConcat ==
  ASSUME NEW list \in Seq(Mutations), NEW more \in Seq(Mutations), Grounded(list), Grounded(more)
  PROVE  Grounded(list \o more)
<1> DEFINE n == Len(list)
           m == Len(more)
           both == list \o more
<1>1. n \in Nat /\ m \in Nat /\ Len(both) = n + m
  OBVIOUS
<1>2. \A k \in 1..n : both[k] = list[k]
  OBVIOUS
<1>3. \A k \in (n + 1)..(n + m) : both[k] = more[k - n]
  OBVIOUS
<1> HIDE DEF both, n, m
<1>4. ASSUME NEW k \in 1..n + m
      PROVE  both[k].op # "upsert" /\ Settles(both[k])
  <2>1. CASE k \in 1..n
    BY <1>2, <2>1 DEF Grounded, n
  <2>2. CASE k \notin 1..n
    <3>1. k \in (n + 1)..(n + m) /\ k - n \in 1..m
      BY <1>1, <2>2
    <3>2. both[k] = more[k - n]
      BY <1>3, <3>1
    <3> QED BY <3>1, <3>2 DEF Grounded, m
  <2> QED BY <2>1, <2>2
<1> QED
  BY <1>1, <1>4 DEF Grounded, both

\* Placing somebody keeps track of where everybody may be: who is placed has been retired from
\* every other place that may be open.
LEMMA PlacedStays ==
  ASSUME NEW seen \in SUBSET Ways, NEW acc \in Accumulators(seen), NEW r \in Relations,
         r.kind = "LOCATED_IN", DirectionValid(r.kind, r.src.of, r.dst.of)
  PROVE  Placed(acc, r) \in Accumulators(seen)
<1> DEFINE e == <<r.src.of, r.dst.of>>
           left == {f \in acc.open : f[1] = e[1] /\ f # e}
           S == {Retire(f) : f \in left}
           R == SetToSeq(S)
           c == Create(r)
           open == {f \in acc.open : f[1] # e[1]} \cup {e}
           list == (acc.list \o R) \o <<c>>
<1>1. /\ acc.list \in Seq(Mutations) /\ acc.open \in SUBSET Ways
      /\ Tracked(acc.list, seen, acc.open) /\ Grounded(acc.list)
      /\ \A f \in acc.open : f[2] \notin Events
  BY DEF Accumulators
<1>2. e \in Ways /\ e[1] = r.src.of /\ e[2] = r.dst.of /\ e[2] \notin Events
  BY RelationFields, EventsAreNoPlaces DEF Ways
<1>3. Placed(acc, r) = [list |-> list, open |-> open]
  BY DEF Placed
<1>4. c \in Mutations /\ c.op = "create" /\ c.kind = "LOCATED_IN" /\ c.edge = e
  BY MutationsTyped DEF Create
<1>5. S \in SUBSET Mutations /\ IsFiniteSet(S)
  <2>1. S \in SUBSET Mutations
    BY <1>1, MutationsTyped
  <2>2. IsFiniteSet(left)
    BY <1>1, PairsAreFinite, FS_Subset DEF Ways
  <2> DEFINE g == [f \in left |-> Retire(f)]
  <2>3. DOMAIN g = left /\ S = {g[f] : f \in left}
    OBVIOUS
  <2> HIDE DEF g, left, S
  <2>4. IsFiniteSet(S)
    BY <2>2, <2>3, FiniteImage
  <2> QED BY <2>1, <2>4 DEF S
<1>6. left \subseteq acc.open /\ \A f \in left : f[1] = e[1] /\ f # e
  OBVIOUS
<1>7. \A f \in acc.open : f[1] = e[1] => f = e \/ f \in left
  OBVIOUS
<1>8. \A f \in left : Retire(f).op = "retire" /\ Retire(f).edge = f
  BY DEF Retire
<1>9. open \in SUBSET Ways /\ acc.open \ left \subseteq open /\ e \in open
  BY <1>1, <1>2
<1>10. \A f \in open : f[2] \notin Events
  BY <1>1, <1>2
<1> HIDE DEF e, left, open, c
<1>11. R \in Seq(Mutations) /\ (\A i \in DOMAIN R : R[i] \in S)
         /\ \A x \in S : \E i \in DOMAIN R : R[i] = x
  <2> HIDE DEF S
  <2> QED BY <1>5, SetToSeqLists
<1> HIDE DEF R
<1>12. ASSUME NEW i \in 1..Len(R)
       PROVE  R[i].op = "retire" /\ R[i].edge \in left
  <2>1. R[i] \in S
    BY <1>11
  <2> QED BY <1>8, <2>1
<1>13. {R[i].edge : i \in 1..Len(R)} = left
  <2>1. ASSUME NEW f \in left
        PROVE  \E i \in 1..Len(R) : R[i].edge = f
    <3>1. Retire(f) \in S
      OBVIOUS
    <3>2. PICK i \in DOMAIN R : R[i] = Retire(f)
      BY <1>11, <3>1
    <3> QED BY <1>8, <1>11, <3>2
  <2> QED BY <1>12, <2>1
<1>14. Tracked(acc.list \o R, seen, acc.open \ left)
  BY <1>1, <1>11, <1>12, <1>13, RetiresTracked
<1>15. acc.list \o R \in Seq(Mutations)
  BY <1>1, <1>11
<1>16. Follows(acc.open \ left, c, open)
  BY <1>4, <1>6, <1>7, <1>9 DEF Follows, IsPlacing
<1>17. Tracked(list, seen, open)
  <2> DEFINE before == acc.list \o R
             rest == acc.open \ left
  <2>1. before \in Seq(Mutations) /\ Tracked(before, seen, rest) /\ Follows(rest, c, open)
    BY <1>14, <1>15, <1>16
  <2> HIDE DEF before, rest
  <2>2. Tracked(before \o <<c>>, seen, open)
    BY <1>4, <1>9, <2>1, MoreTracked
  <2> QED BY <2>2 DEF before
<1>18. Grounded(list)
  <2>1. Grounded(R)
    <3>1. \A i \in 1..Len(R) : R[i].op = "retire" /\ R[i].edge[2] \notin Events
      BY <1>1, <1>6, <1>12
    <3> QED BY <3>1 DEF Grounded, Settles
  <2>2. Grounded(acc.list \o R)
    BY <1>1, <1>11, <2>1, GroundedConcat
  <2>3. <<c>> \in Seq(Mutations) /\ Grounded(<<c>>)
    <3>1. Len(<<c>>) = 1 /\ <<c>>[1] = c /\ <<c>> \in Seq(Mutations)
      BY <1>4
    <3>2. c.op # "upsert" /\ Settles(c)
      BY <1>2, <1>4 DEF Settles
    <3> QED BY <3>1, <3>2 DEF Grounded
  <2> QED BY <1>15, <2>2, <2>3, GroundedConcat
<1>19. list \in Seq(Mutations)
  BY <1>4, <1>15
<1> HIDE DEF list
<1> QED
  BY <1>3, <1>9, <1>10, <1>17, <1>18, <1>19 DEF Accumulators

\* So does every relation.
LEMMA RelatedStays ==
  ASSUME NEW seen \in SUBSET Ways, NEW acc \in Accumulators(seen), NEW r \in Relations,
         DirectionValid(r.kind, r.src.of, r.dst.of)
  PROVE  Related(acc, r) \in Accumulators(seen)
<1>1. CASE r.kind = "LOCATED_IN"
  BY <1>1, PlacedStays DEF Related
<1>2. CASE r.kind # "LOCATED_IN"
  <2> DEFINE c == Create(r)
             list == Append(acc.list, c)
  <2>1. /\ acc.list \in Seq(Mutations) /\ acc.open \in SUBSET Ways
        /\ Tracked(acc.list, seen, acc.open) /\ Grounded(acc.list)
        /\ \A f \in acc.open : f[2] \notin Events
    BY DEF Accumulators
  <2>2. c \in Mutations /\ c.op = "create" /\ c.kind # "LOCATED_IN"
    BY <1>2, MutationsTyped DEF Create
  <2>3. Related(acc, r) = [list |-> list, open |-> acc.open]
    <3>1. acc \in [list : Seq(Mutations), open : SUBSET Ways]
      BY DEF Accumulators
    <3> HIDE DEF c
    <3>2. [acc EXCEPT !.list = Append(@, c)] = [list |-> list, open |-> acc.open]
      BY <3>1
    <3> QED BY <1>2, <3>2 DEF Related, c
  <2> HIDE DEF c
  <2>4. list = acc.list \o <<c>> /\ list \in Seq(Mutations)
    BY <2>1, <2>2
  <2>5. Follows(acc.open, c, acc.open)
    BY <2>2 DEF Follows, IsPlacing
  <2>6. Tracked(list, seen, acc.open)
    BY <2>1, <2>2, <2>4, <2>5, MoreTracked
  <2>7. Grounded(list)
    <3>1. Len(<<c>>) = 1 /\ <<c>>[1] = c /\ <<c>> \in Seq(Mutations)
      BY <2>2
    <3>2. Grounded(<<c>>)
      BY <2>2, <3>1 DEF Grounded, Settles, IsPlacing
    <3> QED BY <2>1, <2>4, <3>1, <3>2, GroundedConcat
  <2> DEFINE open == acc.open
  <2>8. /\ list \in Seq(Mutations) /\ open \in SUBSET Ways /\ Tracked(list, seen, open)
        /\ Grounded(list) /\ \A f \in open : f[2] \notin Events
    BY <2>1, <2>4, <2>6, <2>7
  <2>9. Related(acc, r) = [list |-> list, open |-> open]
    BY <2>3
  <2> HIDE DEF list, open
  <2> QED BY <2>8, <2>9 DEF Accumulators
<1> QED
  BY <1>1, <1>2

\* The list that state_updater makes of the relations.
LEMMA EdgesTracked ==
  ASSUME NEW seen \in SUBSET Ways, \A f \in seen : f[2] \notin Events,
         NEW relations \in Seq(Relations)
  PROVE  /\ EdgesOf(seen, relations) \in Seq(Mutations) /\ Grounded(EdgesOf(seen, relations))
         /\ \E open \in SUBSET Ways : Tracked(EdgesOf(seen, relations), seen, open)
<1> DEFINE s == relations
           N == Len(s)
           T == Accumulators(seen)
           base == [list |-> <<>>, open |-> seen]
           Step(acc, r) == IF IsEdge(r) THEN Related(acc, r) ELSE acc
           G == [p \in (1..N) \X T |-> Step(p[2], s[p[1]])]
           iter == CHOOSE h : h = [t \in SUBSET DOMAIN s |->
                      IF t = {} THEN base ELSE Step(h[t \ {Max(t)}], s[Max(t)])]
<1>1. EdgesOf(seen, relations) = iter[DOMAIN s].list
  BY Zenon DEF EdgesOf, FoldLeft, MapThenFoldSet
<1>2. N \in Nat /\ DOMAIN s = 1..N /\ \A k \in 1..N : s[k] \in Relations
  OBVIOUS
<1> HIDE DEF s, N
<1>3. base \in T
  <2>1. Tracked(<<>>, seen, seen)
    <3> DEFINE may == [k \in 0..0 |-> seen]
    <3>1. may \in [0..Len(<<>>) -> SUBSET Ways] /\ may[0] = seen /\ may[Len(<<>>)] = seen
            /\ 1..Len(<<>>) = {}
      OBVIOUS
    <3> HIDE DEF may
    <3> QED BY <3>1 DEF Tracked
  <2>2. Grounded(<<>>) /\ <<>> \in Seq(Mutations)
    BY DEF Grounded
  <2> QED BY <2>1, <2>2 DEF Accumulators
<1>4. \A x \in T, r \in Relations : Step(x, r) \in T
  BY RelatedStays DEF IsEdge
<1> HIDE DEF base, Step
<1>5. G \in [(1..N) \X T -> T]
  BY <1>2, <1>4
<1>6. \A k \in 1..N, x \in T : G[<<k, x>>] = Step(x, s[k])
  OBVIOUS
<1> HIDE DEF T, G
<1>7. PICK h \in [SUBSET (1..N) -> T] : Iterates(h, G, base, N)
  BY <1>2, <1>3, <1>5, IterationExists
<1>8. \A t \in SUBSET (1..N) : t # {} => Max(t) \in 1..N /\ t \ {Max(t)} \in SUBSET (1..N)
  BY <1>2, MaxIsElement
<1>9. h = [t \in SUBSET (1..N) |-> IF t = {} THEN base ELSE Step(h[t \ {Max(t)}], s[Max(t)])]
  BY <1>6, <1>7, <1>8 DEF Iterates
<1>10. iter = [t \in SUBSET (1..N) |->
                 IF t = {} THEN base ELSE Step(iter[t \ {Max(t)}], s[Max(t)])]
  <2>1. iter = CHOOSE x : x = [t \in SUBSET (1..N) |->
                      IF t = {} THEN base ELSE Step(x[t \ {Max(t)}], s[Max(t)])]
    BY <1>2
  <2> HIDE DEF iter
  <2> QED BY <1>9, <2>1
<1> HIDE DEF iter
<1>11. Folds(iter, T, G, base, N)
  BY <1>6, <1>8, <1>10 DEF Folds
<1>12. FoldsTo(T, G, base, N, iter[1..N])
  BY <1>2, <1>3, <1>5, <1>11, IterationSteps
<1>13. PICK f \in [0..N -> T] : iter[1..N] = f[N]
  BY <1>12 DEF FoldsTo
<1>14. f[N] \in T
  BY <1>2
<1>15. /\ f[N].list \in Seq(Mutations) /\ Grounded(f[N].list)
       /\ f[N].open \in SUBSET Ways /\ Tracked(f[N].list, seen, f[N].open)
  BY <1>14 DEF T, Accumulators
<1>16. EdgesOf(seen, relations) = f[N].list
  BY <1>1, <1>2, <1>13
<1> HIDE DEF T
<1> QED
  BY <1>15, <1>16

-----------------------------------------------------------------------------
(* The store. *)

\* The LOCATED_IN edges, by their ends.
PlaceRecords == [open : BOOLEAN, seers : SUBSET Narrators]
Maps == UNION {[D -> PlaceRecords] : D \in SUBSET Ways}

\* Such a map is a function on pairs of nodes.
LEMMA MapFacts ==
  ASSUME NEW l
  PROVE  l \in Maps <=> /\ l = [e \in DOMAIN l |-> l[e]] /\ DOMAIN l \in SUBSET Ways
                        /\ \A e \in DOMAIN l : l[e] \in PlaceRecords
<1>1. ASSUME l \in Maps
      PROVE  /\ l = [e \in DOMAIN l |-> l[e]] /\ DOMAIN l \in SUBSET Ways
             /\ \A e \in DOMAIN l : l[e] \in PlaceRecords
  <2>1. PICK D \in SUBSET Ways : l \in [D -> PlaceRecords]
    BY <1>1 DEF Maps
  <2> QED BY <2>1
<1>2. ASSUME l = [e \in DOMAIN l |-> l[e]], DOMAIN l \in SUBSET Ways,
             \A e \in DOMAIN l : l[e] \in PlaceRecords
      PROVE  l \in Maps
  <2> DEFINE D == DOMAIN l
  <2>1. l \in [D -> PlaceRecords] /\ D \in SUBSET Ways
    BY <1>2
  <2> HIDE DEF D
  <2> QED BY <2>1 DEF Maps
<1> QED
  BY <1>1, <1>2

\* One edge replaced or added.
LEMMA EdgeFacts ==
  ASSUME NEW l \in Maps, NEW e \in Ways, NEW open \in BOOLEAN, NEW seers \in SUBSET Narrators
  PROVE  /\ Edge(l, e, open, seers) \in Maps
         /\ DOMAIN Edge(l, e, open, seers) = DOMAIN l \cup {e}
         /\ Edge(l, e, open, seers)[e] = [open |-> open, seers |-> seers]
         /\ \A f \in DOMAIN l : f # e => Edge(l, e, open, seers)[f] = l[f]
<1> DEFINE x == Edge(l, e, open, seers)
<1>1. x = [f \in DOMAIN l \cup {e} |-> IF f = e THEN [open |-> open, seers |-> seers] ELSE l[f]]
  BY DEF Edge
<1>2. DOMAIN l \in SUBSET Ways /\ \A f \in DOMAIN l : l[f] \in PlaceRecords
  BY MapFacts
<1> HIDE DEF x
<1>3. DOMAIN x = DOMAIN l \cup {e} /\ x[e] = [open |-> open, seers |-> seers]
  BY <1>1
<1>4. \A f \in DOMAIN l : f # e => x[f] = l[f]
  BY <1>1
<1>5. x[e].open = open /\ x[e] \in PlaceRecords
  BY <1>3 DEF PlaceRecords
<1>6. \A f \in DOMAIN x : x[f] \in PlaceRecords
  BY <1>2, <1>3, <1>4, <1>5
<1>7. x = [f \in DOMAIN x |-> x[f]]
  BY <1>1, <1>3
<1>8. DOMAIN x \in SUBSET Ways
  BY <1>2, <1>3
<1>9. x \in Maps
  BY <1>6, <1>7, <1>8, MapFacts
<1> QED
  BY <1>3, <1>4, <1>5, <1>9 DEF x

\* The parts of a mutation.
LEMMA MutationFields ==
  ASSUME NEW m \in Mutations
  PROVE  /\ m.op \in {"upsert", "retire", "create"}
         /\ m.op = "upsert" => m.nodes \in SUBSET Ids
         /\ m.op = "retire" => m.edge \in Ways
         /\ m.op = "create" => m.edge \in Ways /\ m.seers \in SUBSET Narrators
BY DEF Mutations, Ways

\* What a write does to the places: nothing, or to one of them.
LEMMA WroteFacts ==
  ASSUME NEW l \in Maps, NEW m \in Mutations, NEW ns
  PROVE  LET w == Wrote(l, m, ns)
         IN /\ w \in Maps
            /\ \/ w = l /\ m.op \in {"upsert", "retire"} /\ (m.op = "retire" => ~Joins(m, ns))
               \/ w = l /\ m.op = "create" /\ (IsPlacing(m) => ~Joins(m, ns))
               \/ /\ m.op = "retire" \/ IsPlacing(m)
                  /\ Joins(m, ns) /\ DOMAIN w = DOMAIN l \cup {m.edge}
                  /\ m.op = "retire" => w[m.edge].open = FALSE
                  /\ \A f \in DOMAIN l : f # m.edge => w[f] = l[f]
<1>1. CASE m.op = "upsert"
  BY <1>1 DEF Wrote
<1>2. CASE m.op = "retire"
  <2>1. m.edge \in Ways /\ {} \in SUBSET Narrators /\ FALSE \in BOOLEAN
    BY <1>2, MutationFields
  <2>2. CASE Joins(m, ns)
    <3> DEFINE open == FALSE
               seers == {}
    <3>1. Wrote(l, m, ns) = Edge(l, m.edge, open, seers)
      BY <1>2, <2>2 DEF Wrote
    <3>2. open \in BOOLEAN /\ seers \in SUBSET Narrators /\ open = FALSE
      OBVIOUS
    <3> HIDE DEF open, seers
    <3>3. /\ Edge(l, m.edge, open, seers) \in Maps
          /\ DOMAIN Edge(l, m.edge, open, seers) = DOMAIN l \cup {m.edge}
          /\ Edge(l, m.edge, open, seers)[m.edge] = [open |-> open, seers |-> seers]
          /\ \A f \in DOMAIN l : f # m.edge => Edge(l, m.edge, open, seers)[f] = l[f]
      BY <2>1, <3>2, EdgeFacts
    <3>4. Edge(l, m.edge, open, seers)[m.edge].open = FALSE
      BY <3>2, <3>3
    <3> QED BY <1>2, <2>2, <3>1, <3>3, <3>4
  <2>3. CASE ~Joins(m, ns)
    BY <1>2, <2>3 DEF Wrote
  <2> QED BY <2>2, <2>3
<1>3. CASE m.op = "create"
  <2>1. m.edge \in Ways /\ m.seers \in SUBSET Narrators
    BY <1>3, MutationFields
  <2>2. CASE m.kind = "LOCATED_IN" /\ Joins(m, ns)
    <3> DEFINE open == Store = "neo4j" /\ m.edge \in DOMAIN l => l[m.edge].open
               seers == m.seers
    <3>1. Wrote(l, m, ns) = Edge(l, m.edge, open, seers)
      BY <1>3, <2>2 DEF Wrote, Stored
    <3>2. open \in BOOLEAN /\ seers \in SUBSET Narrators
      BY <2>1
    <3> HIDE DEF open, seers
    <3>3. /\ Edge(l, m.edge, open, seers) \in Maps
          /\ DOMAIN Edge(l, m.edge, open, seers) = DOMAIN l \cup {m.edge}
          /\ Edge(l, m.edge, open, seers)[m.edge] = [open |-> open, seers |-> seers]
          /\ \A f \in DOMAIN l : f # m.edge => Edge(l, m.edge, open, seers)[f] = l[f]
      BY <2>1, <3>2, EdgeFacts
    <3> QED BY <1>3, <2>2, <3>1, <3>3 DEF IsPlacing
  <2>3. CASE ~(m.kind = "LOCATED_IN" /\ Joins(m, ns))
    BY <1>3, <2>3 DEF Wrote, IsPlacing
  <2> QED BY <2>2, <2>3
<1> QED
  BY <1>1, <1>2, <1>3, MutationFields

\* A list is written one mutation after the other.
LEMMA WrittenSteps ==
  ASSUME located \in Maps, NEW list \in Seq(Mutations)
  PROVE  \E f \in [0..Len(list) -> Maps] :
            /\ f[0] = located /\ f[Len(list)] = Written(list)
            /\ \A k \in 1..Len(list) : f[k] = Wrote(f[k - 1], list[k], Upserted)
<1> DEFINE s == list
           N == Len(s)
           T == Maps
           base == located
           Step(l, m) == Wrote(l, m, Upserted)
           G == [p \in (1..N) \X T |-> Step(p[2], s[p[1]])]
           iter == CHOOSE h : h = [t \in SUBSET DOMAIN s |->
                      IF t = {} THEN base ELSE Step(h[t \ {Max(t)}], s[Max(t)])]
<1>1. Written(list) = iter[DOMAIN s]
  BY Zenon DEF Written, FoldLeft, MapThenFoldSet
<1>2. N \in Nat /\ DOMAIN s = 1..N /\ \A k \in 1..N : s[k] \in Mutations
  OBVIOUS
<1> HIDE DEF N
<1>3. base \in T
  OBVIOUS
<1>4. \A x \in T, m \in Mutations : Step(x, m) \in T
  BY WroteFacts
<1> HIDE DEF base, Step
<1>5. G \in [(1..N) \X T -> T]
  BY <1>2, <1>4
<1>6. \A k \in 1..N, x \in T : G[<<k, x>>] = Step(x, s[k])
  OBVIOUS
<1> HIDE DEF T, G, s
<1>7. PICK h \in [SUBSET (1..N) -> T] : Iterates(h, G, base, N)
  BY <1>2, <1>3, <1>5, IterationExists
<1>8. \A t \in SUBSET (1..N) : t # {} => Max(t) \in 1..N /\ t \ {Max(t)} \in SUBSET (1..N)
  BY <1>2, MaxIsElement
<1>9. h = [t \in SUBSET (1..N) |-> IF t = {} THEN base ELSE Step(h[t \ {Max(t)}], s[Max(t)])]
  BY <1>6, <1>7, <1>8 DEF Iterates
<1>10. iter = [t \in SUBSET (1..N) |->
                 IF t = {} THEN base ELSE Step(iter[t \ {Max(t)}], s[Max(t)])]
  <2>1. iter = CHOOSE x : x = [t \in SUBSET (1..N) |->
                      IF t = {} THEN base ELSE Step(x[t \ {Max(t)}], s[Max(t)])]
    BY <1>2
  <2> HIDE DEF iter
  <2> QED BY <1>9, <2>1
<1> HIDE DEF iter
<1>11. Folds(iter, T, G, base, N)
  BY <1>6, <1>8, <1>10 DEF Folds
<1>12. FoldsTo(T, G, base, N, iter[1..N])
  BY <1>2, <1>3, <1>5, <1>11, IterationSteps
<1>13. PICK f \in [0..N -> T] : Steps(G, base, N, f) /\ iter[1..N] = f[N]
  BY <1>12 DEF FoldsTo
<1>14. \A k \in 1..N : k - 1 \in 0..N /\ f[k - 1] \in T
  BY <1>2
<1>15. f[0] = base /\ \A k \in 1..N : f[k] = Step(f[k - 1], s[k])
  BY <1>6, <1>13, <1>14 DEF Steps
<1>16. f[N] = Written(list)
  BY <1>1, <1>2, <1>13
<1> QED
  BY <1>15, <1>16 DEF T, N, s, base, Step

\* The open places; nobody has two of them; Neo4j has edges between its nodes only; no event is
\* a place; whom a list places; the open places of these people are among those of a.
OpenIn(l) == {e \in DOMAIN l : l[e].open}
Single(l) == \A e, f \in OpenIn(l) : e[1] = f[1] => e = f
JoinedIn(l, ns) == Store = "neo4j" => \A e \in DOMAIN l : e[1] \in ns /\ e[2] \in ns
NoEvents(l) == \A e \in DOMAIN l : e[2] \notin Events
Movers(list) == {list[i].edge[1] : i \in {j \in 1..Len(list) : IsPlacing(list[j])}}
OpenAmong(l, people, a) == \A f \in OpenIn(l) : f[1] \in people => f \in a

\* A mutation joins nodes that are there.
LEMMA WroteJoins ==
  ASSUME NEW l \in Maps, NEW m \in Mutations, NEW ns, JoinedIn(l, ns), NoEvents(l), Settles(m)
  PROVE  JoinedIn(Wrote(l, m, ns), ns) /\ NoEvents(Wrote(l, m, ns))
<1> DEFINE w == Wrote(l, m, ns)
<1>1. CASE w = l
  BY <1>1
<1>2. CASE w # l
  <2>1. Joins(m, ns) /\ DOMAIN w = DOMAIN l \cup {m.edge} /\ (m.op = "retire" \/ IsPlacing(m))
    BY <1>2, WroteFacts
  <2> HIDE DEF w
  <2>2. JoinedIn(w, ns)
    BY <2>1 DEF JoinedIn, Joins
  <2>3. NoEvents(w)
    BY <2>1 DEF NoEvents, Settles
  <2> QED BY <2>2, <2>3 DEF w
<1> QED
  BY <1>1, <1>2

\* A mutation whose effect was foreseen leaves nobody in two places.
LEMMA WroteFollows ==
  ASSUME NEW l \in Maps, NEW m \in Mutations, NEW ns, JoinedIn(l, ns),
         NEW a, NEW b, Follows(a, m, b), NEW people, OpenAmong(l, people, a),
         IsPlacing(m) => m.edge[1] \in people,
         Single(l)
  PROVE  Single(Wrote(l, m, ns)) /\ OpenAmong(Wrote(l, m, ns), people, b)
<1> DEFINE w == Wrote(l, m, ns)
<1>0. m.op = "retire" => ~IsPlacing(m)
  BY DEF IsPlacing
<1>1. CASE w = l /\ m.op # "retire"
  <2>1. a \subseteq b
    BY <1>1 DEF Follows
  <2> QED BY <1>1, <2>1 DEF OpenAmong
<1>2. CASE w = l /\ m.op = "retire" /\ ~Joins(m, ns)
  <2>1. m.edge \notin DOMAIN l
    BY <1>2 DEF JoinedIn, Joins
  <2>2. OpenAmong(l, people, b)
    BY <1>2, <2>1 DEF OpenAmong, OpenIn, Follows
  <2> QED BY <1>2, <2>2
<1>3. CASE /\ m.op = "retire" /\ DOMAIN w = DOMAIN l \cup {m.edge}
           /\ w[m.edge].open = FALSE
           /\ \A f \in DOMAIN l : f # m.edge => w[f] = l[f]
  <2> HIDE DEF w
  <2>1. \A f \in OpenIn(w) : f \in OpenIn(l) /\ f # m.edge
    BY <1>3 DEF OpenIn
  <2>2. Single(w)
    BY <2>1 DEF Single
  <2>3. OpenAmong(w, people, b)
    BY <1>3, <2>1 DEF OpenAmong, Follows
  <2> QED BY <2>2, <2>3 DEF w
<1>4. CASE /\ IsPlacing(m) /\ DOMAIN w = DOMAIN l \cup {m.edge}
           /\ \A f \in DOMAIN l : f # m.edge => w[f] = l[f]
  <2> HIDE DEF w
  <2>1. \A f \in OpenIn(w) : f \in OpenIn(l) \/ f = m.edge
    BY <1>4 DEF OpenIn
  <2>2. a \cup {m.edge} \subseteq b /\ \A f \in a : f[1] = m.edge[1] => f = m.edge
    BY <1>4 DEF Follows
  <2>3. \A f \in OpenIn(l) : f[1] = m.edge[1] => f = m.edge
    BY <1>4, <2>2 DEF OpenAmong
  <2>4. Single(w)
    BY <2>1, <2>3 DEF Single
  <2>5. OpenAmong(w, people, b)
    BY <2>1, <2>2 DEF OpenAmong
  <2> QED BY <2>4, <2>5 DEF w
<1>5. \/ w = l /\ m.op # "retire"
      \/ w = l /\ m.op = "retire" /\ ~Joins(m, ns)
      \/ /\ m.op = "retire" /\ DOMAIN w = DOMAIN l \cup {m.edge}
         /\ w[m.edge].open = FALSE /\ \A f \in DOMAIN l : f # m.edge => w[f] = l[f]
      \/ /\ IsPlacing(m) /\ DOMAIN w = DOMAIN l \cup {m.edge}
         /\ \A f \in DOMAIN l : f # m.edge => w[f] = l[f]
  BY WroteFacts
<1> QED
  BY <1>1, <1>2, <1>3, <1>4, <1>5

\* Whatever is written of a list: the first few of its mutations.
LEMMA PrefixFacts ==
  ASSUME NEW list \in Seq(Mutations), NEW done \in 0..Len(list)
  PROVE  /\ SubSeq(list, 1, done) \in Seq(Mutations) /\ Len(SubSeq(list, 1, done)) = done
         /\ \A i \in 1..done : SubSeq(list, 1, done)[i] = list[i]
OBVIOUS

\* A whole list joins nodes that are there.
LEMMA WrittenJoins ==
  ASSUME located \in Maps, NEW list \in Seq(Mutations), \A i \in 1..Len(list) : Settles(list[i]),
         NEW done \in 0..Len(list), JoinedIn(located, Upserted), NoEvents(located)
  PROVE  LET w == Written(SubSeq(list, 1, done))
         IN w \in Maps /\ JoinedIn(w, Upserted) /\ NoEvents(w)
<1> DEFINE p == SubSeq(list, 1, done)
<1>1. p \in Seq(Mutations) /\ Len(p) = done /\ \A i \in 1..done : p[i] = list[i]
  BY PrefixFacts
<1> HIDE DEF p
<1>2. PICK f \in [0..done -> Maps] :
         /\ f[0] = located /\ f[done] = Written(p)
         /\ \A k \in 1..done : f[k] = Wrote(f[k - 1], p[k], Upserted)
  BY <1>1, WrittenSteps
<1>3. done \in Nat /\ Len(list) \in Nat
  OBVIOUS
<1> DEFINE Has(n) == JoinedIn(f[n], Upserted) /\ NoEvents(f[n])
           S == {n \in Nat : n <= done => Has(n)}
<1> HIDE DEF Has
<1>4. 0 \in S
  BY <1>2 DEF Has
<1>5. ASSUME NEW n \in Nat, n \in S
      PROVE  n + 1 \in S
  <2> SUFFICES ASSUME n + 1 <= done PROVE Has(n + 1)
    OBVIOUS
  <2>1. n + 1 \in 1..done /\ (n + 1) - 1 = n /\ n \in 0..done /\ n + 1 \in 1..Len(list)
    BY <1>3
  <2>2. f[n + 1] = Wrote(f[n], list[n + 1], Upserted)
    <3>1. f[n + 1] = Wrote(f[(n + 1) - 1], p[n + 1], Upserted)
      BY <1>2, <2>1
    <3> QED BY <1>1, <2>1, <3>1
  <2>3. f[n] \in Maps /\ list[n + 1] \in Mutations /\ Settles(list[n + 1])
    BY <2>1
  <2>4. JoinedIn(f[n], Upserted) /\ NoEvents(f[n])
    BY <1>5, <2>1 DEF Has
  <2> QED BY <2>2, <2>3, <2>4, WroteJoins DEF Has
<1> HIDE DEF S
<1>6. Nat \subseteq S
  BY <1>4, <1>5, Induction
<1>7. Has(done)
  BY <1>3, <1>6 DEF S
<1>8. f[done] \in Maps
  BY <1>3
<1> QED
  BY <1>2, <1>7, <1>8 DEF Has, p

\* A list that was foreseen leaves nobody in two places, wherever its writing stops.
LEMMA WrittenIsSingle ==
  ASSUME located \in Maps, NEW list \in Seq(Mutations), \A i \in 1..Len(list) : Settles(list[i]),
         NEW done \in 0..Len(list), JoinedIn(located, Upserted), NoEvents(located),
         NEW seen, NEW open, Tracked(list, seen, open), OpenAmong(located, Movers(list), seen),
         Single(located)
  PROVE  Single(Written(SubSeq(list, 1, done)))
<1> DEFINE p == SubSeq(list, 1, done)
           people == Movers(list)
<1>1. p \in Seq(Mutations) /\ Len(p) = done /\ \A i \in 1..done : p[i] = list[i]
  BY PrefixFacts
<1> HIDE DEF p
<1>2. PICK f \in [0..done -> Maps] :
         /\ f[0] = located /\ f[done] = Written(p)
         /\ \A k \in 1..done : f[k] = Wrote(f[k - 1], p[k], Upserted)
  BY <1>1, WrittenSteps
<1>3. done \in Nat /\ Len(list) \in Nat
  OBVIOUS
<1>4. PICK may \in [0..Len(list) -> SUBSET Ways] :
         may[0] = seen /\ \A k \in 1..Len(list) : Follows(may[k - 1], list[k], may[k])
  BY DEF Tracked
<1>5. \A i \in 1..Len(list) : IsPlacing(list[i]) => list[i].edge[1] \in people
  BY DEF Movers
<1> HIDE DEF people
<1> DEFINE Has(n) == /\ JoinedIn(f[n], Upserted) /\ NoEvents(f[n])
                     /\ Single(f[n]) /\ OpenAmong(f[n], people, may[n])
           S == {n \in Nat : n <= done => Has(n)}
<1> HIDE DEF Has
<1>6. 0 \in S
  BY <1>2, <1>4 DEF Has, people
<1>7. ASSUME NEW n \in Nat, n \in S
      PROVE  n + 1 \in S
  <2> SUFFICES ASSUME n + 1 <= done PROVE Has(n + 1)
    OBVIOUS
  <2>1. n + 1 \in 1..done /\ (n + 1) - 1 = n /\ n \in 0..done /\ n + 1 \in 1..Len(list)
    BY <1>3
  <2>2. f[n + 1] = Wrote(f[n], list[n + 1], Upserted)
    <3>1. f[n + 1] = Wrote(f[(n + 1) - 1], p[n + 1], Upserted)
      BY <1>2, <2>1
    <3> QED BY <1>1, <2>1, <3>1
  <2>3. Follows(may[n], list[n + 1], may[n + 1])
    <3>1. Follows(may[(n + 1) - 1], list[n + 1], may[n + 1])
      BY <1>4, <2>1
    <3> QED BY <2>1, <3>1
  <2>4. f[n] \in Maps /\ list[n + 1] \in Mutations /\ Settles(list[n + 1])
    BY <2>1
  <2>5. /\ JoinedIn(f[n], Upserted) /\ NoEvents(f[n])
        /\ Single(f[n]) /\ OpenAmong(f[n], people, may[n])
    BY <1>7, <2>1 DEF Has
  <2>6. JoinedIn(f[n + 1], Upserted) /\ NoEvents(f[n + 1])
    BY <2>2, <2>4, <2>5, WroteJoins
  <2>7. Single(f[n + 1]) /\ OpenAmong(f[n + 1], people, may[n + 1])
    BY <1>5, <2>1, <2>2, <2>3, <2>4, <2>5, WroteFollows
  <2> QED BY <2>6, <2>7 DEF Has
<1> HIDE DEF S
<1>8. Nat \subseteq S
  BY <1>6, <1>7, Induction
<1>9. Has(done)
  BY <1>3, <1>8 DEF S
<1> QED
  BY <1>2, <1>9 DEF Has, p

-----------------------------------------------------------------------------
(* The control. *)

\* The stage in which a request is under way.
StageOf(job) ==
  IF job \in {"entity", "memory"} THEN "entities" ELSE IF job = "repair"
    THEN "repair" ELSE "relations"

\* The control: a request is under way only in its stage, and what is counted keeps to its bound.
Controlled ==
  /\ stage \in {"idle", "entities", "relations", "gate", "repair", "extracted", "pending",
       "writing"}
  /\ calls \in [Jobs -> Calls]
  /\ \A j \in Jobs : UnderWay(calls[j]) => stage = StageOf(j)
  /\ rounds \in 0..MaxAlignRetries /\ (stage = "repair" => rounds < MaxAlignRetries)
  /\ chapter \in 0..MaxChapters /\ (stage # "idle" => chapter < MaxChapters)
  /\ failures \in Nat /\ saves \in Nat /\ failures + saves <= MaxTroubles
  /\ blind \in BOOLEAN

\* The jobs and their stages.
LEMMA JobFacts ==
  /\ Batches \cup {"entity", "memory", "second", "repair"} = Jobs
  /\ \A j \in Batches \cup {"second"} : StageOf(j) = "relations"
       /\ j \notin {"entity", "memory", "repair"}
  /\ StageOf("entity") = "entities" /\ StageOf("memory") = "entities"
       /\ StageOf("repair") = "repair"
BY MemoryAssumption DEF Jobs, StageOf

\* Any request may be answered.
LEMMA ValidIsAnAnswer ==
  ASSUME NEW call
  PROVE  "valid" \in AnswersOf(call)
<1> DEFINE Forms == {"bare", "fenced", "embedded", "prose"}
           Verdicts == BOOLEAN
           form == "bare"
           accepted == TRUE
           Read(f, a) == Reading(f, a)
<1>1. Readings = {Read(f, a) : f \in Forms, a \in Verdicts}
  BY DEF Readings
<1>2. form \in Forms /\ accepted \in Verdicts /\ Read(form, accepted) = "valid"
  BY DEF Reading
<1> HIDE DEF Forms, Verdicts, form, accepted, Read
<1>3. Read(form, accepted) \in Readings
  BY <1>1, <1>2
<1>4. "valid" \in Readings
  BY <1>2, <1>3
<1> QED
  BY <1>4 DEF AnswersOf, StreamAnswers, PlainAnswers

\* Only the repair is under way while one is waited for.
LEMMA OnlyTheRepair ==
  \A j \in Jobs : StageOf(j) = "repair" => j = "repair"
BY DEF StageOf

\* What a thread does.
LEMMA ThreadCases ==
  ASSUME NEW job \in Jobs, Thread(job)
  PROVE  \/ EntityCall \/ MemoryCall
         \/ job \in Batches \cup {"second"} /\ RelationCall(job)
         \/ Repaired \/ RepairFails
<1>1. CASE job = "entity"
  BY <1>1 DEF Thread
<1>2. CASE job = "memory"
  BY <1>2 DEF Thread
<1>3. CASE job \in Batches \cup {"second"}
  <2>1. job \notin {"entity", "memory", "repair"}
    BY <1>3, JobFacts
  <2> QED BY <1>3, <2>1 DEF Thread
<1>4. CASE job = "repair"
  <2>1. job \notin Batches \cup {"second"}
    BY <1>4, JobFacts
  <2> QED BY <1>4, <2>1 DEF Thread
<1> QED
  BY <1>1, <1>2, <1>3, <1>4, JobFacts

\* An answer leaves every other request as it is.
LEMMA AnsweredFacts ==
  ASSUME Controlled, NEW job \in Jobs, NEW answer \in AnswersOf(calls[job]), Answered(job,
         answer)
  PROVE  /\ calls' \in [Jobs -> Calls] /\ stage = StageOf(job)
         /\ \A j \in Jobs : UnderWay(calls'[j]) => UnderWay(calls[j])
<1>1. calls \in [Jobs -> Calls] /\ UnderWay(calls[job]) /\ stage = StageOf(job)
  BY DEF Controlled, Answered
<1>2. After(calls[job], answer) \in Calls
  BY <1>1, AnswersAreKnown, AfterIsCall
<1>3. calls' = [calls EXCEPT ![job] = After(calls[job], answer)]
  BY DEF Answered
<1> QED
  BY <1>1, <1>2, <1>3

\* New requests.
LEMMA InvokeFacts ==
  ASSUME NEW jobs \in SUBSET Jobs
  PROVE  /\ Invoke(jobs) \in [Jobs -> Calls] /\ NoCalls \in [Jobs -> Calls]
         /\ \A j \in Jobs : UnderWay(Invoke(jobs)[j]) => j \in jobs
         /\ \A j \in Jobs : ~UnderWay(NoCalls[j])
<1>1. Invoked \in Calls /\ Idle \in Calls /\ ~UnderWay(Idle)
  BY ClientAssumption, CallsArePlain DEF Invoked
<1> QED
  BY <1>1 DEF Invoke, NoCalls

\* Between the stages in which it waits, a chapter has no request under way.
LEMMA NothingUnderWay ==
  ASSUME Controlled, stage \notin {"entities", "relations", "repair"}
  PROVE  \A j \in Jobs : ~UnderWay(calls[j])
BY DEF Controlled, StageOf

\* The control begins as it should.
LEMMA ControlInit ==
  Init => Controlled
<1> SUFFICES ASSUME Init PROVE Controlled
  OBVIOUS
<1>1. calls \in [Jobs -> Calls] /\ \A j \in Jobs : ~UnderWay(calls[j])
  BY InvokeFacts DEF Init
<1>2. blind \in BOOLEAN
  BY DEF Init
<1> QED
  BY <1>1, <1>2, MemoryAssumption DEF Init, Controlled

\* Every step keeps it.
LEMMA ControlStays ==
  Controlled /\ [Next]_vars => Controlled'
<1> SUFFICES ASSUME Controlled, [Next]_vars PROVE Controlled'
  OBVIOUS
<1>0. MaxAlignRetries \in Nat /\ MaxChapters \in Nat /\ MaxTroubles \in Nat
  BY MemoryAssumption
<1>1. CASE BeginExtraction
  <2>1. calls' = Invoke({"entity", "memory"}) /\ {"entity", "memory"} \in SUBSET Jobs
          /\ stage' = "entities"
    BY <1>1 DEF BeginExtraction, Jobs
  <2>2. calls' \in [Jobs -> Calls] /\ \A j \in Jobs : UnderWay(calls'[j]) => stage' = StageOf(j)
    BY <2>1, InvokeFacts, JobFacts
  <2> QED BY <1>0, <1>1, <2>1, <2>2 DEF BeginExtraction, Controlled, counts
<1>2. CASE EntityCall
  <2>1. "entity" \in Jobs /\ \E answer \in AnswersOf(calls["entity"]) : Answered("entity", answer)
    BY <1>2, ValidIsAnAnswer DEF EntityCall, Silent, Jobs
  <2>2. calls' \in [Jobs -> Calls] /\ \A j \in Jobs : UnderWay(calls'[j]) => UnderWay(calls[j])
    BY <2>1, AnsweredFacts
  <2> QED BY <1>2, <2>2 DEF EntityCall, Controlled, counts
<1>3. CASE MemoryCall
  <2>1. "memory" \in Jobs /\ \E answer \in AnswersOf(calls["memory"]) : Answered("memory", answer)
    BY <1>3 DEF MemoryCall, Jobs
  <2>2. calls' \in [Jobs -> Calls] /\ \A j \in Jobs : UnderWay(calls'[j]) => UnderWay(calls[j])
    BY <2>1, AnsweredFacts
  <2> QED BY <1>3, <2>2 DEF MemoryCall, Controlled, counts, extraction
<1>4. CASE BeginRelations
  <2>1. calls' = Invoke(Batches) /\ Batches \in SUBSET Jobs /\ stage' = "relations"
    BY <1>4 DEF BeginRelations, Jobs
  <2>2. calls' \in [Jobs -> Calls] /\ \A j \in Jobs : UnderWay(calls'[j]) => stage' = StageOf(j)
    BY <2>1, InvokeFacts, JobFacts
  <2> QED BY <1>4, <2>1, <2>2 DEF BeginRelations, Controlled, counts
<1>5. CASE NoEntities
  <2>1. calls' \in [Jobs -> Calls] /\ \A j \in Jobs : ~UnderWay(calls'[j])
    BY <1>5, InvokeFacts DEF NoEntities
  <2> QED BY <1>5, <2>1 DEF NoEntities, Controlled, counts, extraction
<1>6. ASSUME NEW job \in Batches \cup {"second"}, RelationCall(job)
      PROVE  Controlled'
  <2>1. job \in Jobs /\ \E answer \in AnswersOf(calls[job]) : Answered(job, answer)
    BY <1>6, ValidIsAnAnswer DEF RelationCall, Silent, Jobs
  <2>2. calls' \in [Jobs -> Calls] /\ \A j \in Jobs : UnderWay(calls'[j]) => UnderWay(calls[j])
    BY <2>1, AnsweredFacts
  <2> QED BY <1>6, <2>2 DEF RelationCall, Controlled, counts
<1>7. CASE BeginSecondPhase
  <2>1. calls' = [calls EXCEPT !["second"] = Invoked] /\ stage' = "relations"
          /\ stage = "relations"
    BY <1>7 DEF BeginSecondPhase
  <2>2. Invoked \in Calls /\ "second" \in Jobs /\ StageOf("second") = "relations"
    BY ClientAssumption, CallsArePlain, JobFacts DEF Invoked, Jobs
  <2>3. calls' \in [Jobs -> Calls] /\ \A j \in Jobs : UnderWay(calls'[j]) => stage' = StageOf(j)
    BY <2>1, <2>2 DEF Controlled
  <2> QED BY <1>7, <2>1, <2>3 DEF BeginSecondPhase, Controlled, counts, extraction
<1>8. CASE EndRelations
  <2>1. calls' \in [Jobs -> Calls] /\ \A j \in Jobs : ~UnderWay(calls'[j])
    BY <1>8, InvokeFacts DEF EndRelations
  <2> QED BY <1>8, <2>1 DEF EndRelations, Controlled, counts
<1>9. CASE Gate
  <2> DEFINE again == Misaligned(merged, known, entities) # <<>> /\ rounds < MaxAlignRetries
  <2>1. /\ stage' = IF again THEN "repair" ELSE "extracted"
        /\ calls' = IF again THEN Invoke({"repair"}) ELSE NoCalls
        /\ stage = "gate" /\ UNCHANGED <<rounds, chapter, failures, saves, blind>>
    BY <1>9 DEF Gate, counts
  <2>2. again => rounds < MaxAlignRetries
    OBVIOUS
  <2> HIDE DEF again
  <2>3. {"repair"} \in SUBSET Jobs
    BY DEF Jobs
  <2>4. calls' \in [Jobs -> Calls] /\ \A j \in Jobs : UnderWay(calls'[j]) => stage' = StageOf(j)
    BY <2>1, <2>3, InvokeFacts, JobFacts
  <2> QED BY <2>1, <2>2, <2>4 DEF Controlled
<1>10. CASE Repaired
  <2>1. "repair" \in Jobs /\ Answered("repair", "valid") /\ "valid" \in AnswersOf(calls["repair"])
    BY <1>10, ValidIsAnAnswer DEF Repaired, Jobs
  <2>2. /\ calls' \in [Jobs -> Calls] /\ stage = "repair"
        /\ \A j \in Jobs : UnderWay(calls'[j]) => UnderWay(calls[j])
    BY <2>1, AnsweredFacts, JobFacts
  <2>3. calls'["repair"] = Returned
    BY <2>1 DEF Answered, After, Controlled
  <2>4. \A j \in Jobs : ~UnderWay(calls'[j])
    BY <2>2, <2>3, OnlyTheRepair, CallsArePlain DEF Controlled
  <2>5. rounds' \in 0..MaxAlignRetries
    BY <1>0, <1>10, <2>2 DEF Repaired, Controlled
  <2> QED BY <1>10, <2>2, <2>4, <2>5 DEF Repaired, Controlled, counts
<1>11. CASE RepairFails
  <2>1. "repair" \in Jobs /\ \E answer \in AnswersOf(calls["repair"]) : Answered("repair", answer)
    BY <1>11 DEF RepairFails, Silent, Jobs
  <2>2. /\ calls' \in [Jobs -> Calls] /\ stage = "repair"
        /\ \A j \in Jobs : UnderWay(calls'[j]) => UnderWay(calls[j])
    BY <2>1, AnsweredFacts, JobFacts
  <2>3. CASE calls'["repair"] = Raised
    <3>1. \A j \in Jobs : ~UnderWay(calls'[j])
      BY <2>2, <2>3, OnlyTheRepair, CallsArePlain DEF Controlled
    <3> QED BY <1>0, <1>11, <2>2, <2>3, <3>1 DEF RepairFails, Fresh, Controlled, counts
  <2>4. CASE calls'["repair"] # Raised
    BY <1>11, <2>2, <2>4 DEF RepairFails, extraction, Controlled, counts
  <2> QED BY <2>3, <2>4
<1>12. CASE ExtractionGate
  <2>1. \A j \in Jobs : ~UnderWay(calls[j])
    BY <1>12, NothingUnderWay DEF ExtractionGate
  <2> QED BY <1>0, <1>12, <2>1 DEF ExtractionGate, Controlled, counts, Fresh
<1>13. CASE StateUpdater
  <2>1. \A j \in Jobs : ~UnderWay(calls[j])
    BY <1>13, NothingUnderWay DEF StateUpdater
  <2> QED BY <1>0, <1>13, <2>1 DEF StateUpdater, Controlled, counts, Fresh
<1>14. CASE Apply
  <2>1. \A j \in Jobs : ~UnderWay(calls[j])
    BY <1>14, NothingUnderWay DEF Apply
  <2> QED BY <1>0, <1>14, <2>1 DEF Apply, Controlled, extraction
<1>15. CASE ApplyFails
  <2>1. \A j \in Jobs : ~UnderWay(calls[j])
    BY <1>15, NothingUnderWay DEF ApplyFails
  <2> QED BY <1>0, <1>15, <2>1 DEF ApplyFails, Controlled, extraction
<1>16. CASE SavePlan
  BY <1>0, <1>16 DEF SavePlan, Controlled, extraction
<1>17. CASE UNCHANGED vars
  BY <1>17 DEF vars, Controlled, extraction, counts
<1> QED
  BY <1>1, <1>2, <1>3, <1>4, <1>5, <1>6, <1>7, <1>8, <1>9, <1>10, <1>11, <1>12, <1>13, <1>14,
     <1>15, <1>16, <1>17,
     ThreadCases DEF Next, Extracting

-----------------------------------------------------------------------------
(* The data of a chapter. *)

\* What the extraction has collected.
Filled ==
  /\ narrator \in Narrators
  /\ known \in SUBSET Ids /\ found \in SUBSET Ids /\ entities \in SUBSET Ids
  /\ merged \in Seq(Relations) /\ kept \in Seq(Relations)
  /\ Renames(remap)

\* The graph, and what is to be written to it: edges join nodes, in Neo4j, and lead to no event;
\* the nodes of a list come first.
Mapped ==
  /\ nodes \in SUBSET Ids /\ located \in Maps /\ NoEvents(located) /\ JoinedIn(located, nodes)
  /\ mutations \in Seq(Mutations) /\ \A i \in 1..Len(mutations) : Settles(mutations[i])
  /\ stage = "writing" => Len(mutations) # 0 /\ mutations[1].op = "upsert"

\* Nothing identified is an identification.
LEMMA UnmovedRenames == Renames(Unmoved)
BY DEF Renames, Unmoved

\* Nothing is collected at first.
LEMMA FilledInit ==
  Init => Filled
BY UnmovedRenames DEF Init, Filled

\* Nor after an extraction that was thrown away.
LEMMA FreshIsFilled ==
  ASSUME Fresh, narrator' \in Narrators
  PROVE  Filled'
<1>1. Renames(remap')
  BY UnmovedRenames DEF Fresh
<1>2. Renames(remap)'
  BY <1>1 DEF Renames
<1> QED
  BY <1>2 DEF Fresh, Filled

\* Every step keeps the types of what is collected.
LEMMA FilledStays ==
  Filled /\ nodes \in SUBSET Ids /\ [Next]_vars => Filled'
<1> SUFFICES ASSUME Filled, nodes \in SUBSET Ids, [Next]_vars PROVE Filled'
  OBVIOUS
<1>0. /\ narrator \in Narrators
      /\ known \in SUBSET Ids /\ found \in SUBSET Ids /\ entities \in SUBSET Ids
      /\ merged \in Seq(Relations) /\ kept \in Seq(Relations) /\ Renames(remap)
  BY DEF Filled
<1>1. CASE BeginExtraction
  BY <1>0, <1>1 DEF BeginExtraction, Filled, Renames
<1>2. CASE EntityCall
  <2>1. entities' \in SUBSET Ids
    <3>1. CASE UNCHANGED entities
      BY <1>0, <3>1
    <3>2. CASE \E reply \in EntityReplies : entities' = Canonicalized(reply, known)
      <4>1. PICK reply \in EntityReplies : entities' = Canonicalized(reply, known)
        BY <3>2
      <4>2. reply \in Seq(Candidates)
        BY MemoryAssumption
      <4> QED BY <1>0, <4>1, <4>2, CanonicalizedTyped
    <3> QED BY <1>2, <3>1, <3>2 DEF EntityCall
  <2> QED BY <1>0, <1>2, <2>1 DEF EntityCall, Filled, Renames
<1>3. CASE MemoryCall
  BY <1>0, <1>3 DEF MemoryCall, extraction, Filled, Renames
<1>4. CASE BeginRelations
  <2>1. found' \in SUBSET Ids
    BY <1>4, MemoryAssumption, GateAssumption DEF BeginRelations
  <2>2. entities' \in SUBSET Ids
    BY <1>0, <1>4, <2>1 DEF BeginRelations
  <2> QED BY <1>0, <1>4, <2>1, <2>2 DEF BeginRelations, Filled, Renames
<1>5. CASE NoEntities
  BY <1>0, <1>5 DEF NoEntities, extraction, Filled, Renames
<1>6. ASSUME NEW job \in Batches \cup {"second"}, RelationCall(job)
      PROVE  Filled'
  <2>1. merged' \in Seq(Relations)
    <3>1. CASE UNCHANGED merged
      BY <1>0, <3>1
    <3>2. CASE \E reply \in RelationReplies : merged' = merged \o reply
      <4>1. PICK reply \in RelationReplies : merged' = merged \o reply
        BY <3>2
      <4>2. reply \in Seq(Relations)
        BY MemoryAssumption
      <4> QED BY <1>0, <4>1, <4>2
    <3> QED BY <1>6, <3>1, <3>2 DEF RelationCall
  <2> QED BY <1>0, <1>6, <2>1 DEF RelationCall, Filled, Renames
<1>7. CASE BeginSecondPhase
  BY <1>0, <1>7 DEF BeginSecondPhase, extraction, Filled, Renames
<1>8. CASE EndRelations
  <2>1. merged' \in Seq(Relations)
    BY <1>0, <1>8, FallbackTyped, DedupedTyped DEF EndRelations
  <2> QED BY <1>0, <1>8, <2>1 DEF EndRelations, Filled, Renames
<1>9. CASE Gate
  <2> DEFINE passed == kept \o Valid(merged, known, entities)
  <2>1. Misaligned(merged, known, entities) \in Seq(Relations) /\ passed \in Seq(Relations)
    BY <1>0, MisalignedTyped, ValidFacts
  <2>2. merged' \in {Misaligned(merged, known, entities), <<>>}
          /\ kept' \in {passed, Deduped(passed)}
    BY <1>9 DEF Gate
  <2> HIDE DEF passed
  <2>3. merged' \in Seq(Relations) /\ kept' \in Seq(Relations)
    <3>1. Deduped(passed) \in Seq(Relations)
      BY <2>1, DedupedTyped
    <3>2. <<>> \in Seq(Relations)
      OBVIOUS
    <3>3. merged' \in Seq(Relations)
      BY <2>1, <2>2, <3>2
    <3>4. kept' \in Seq(Relations)
      BY <2>1, <2>2, <3>1
    <3> QED BY <3>3, <3>4
  <2> QED BY <1>0, <1>9, <2>3 DEF Gate, Filled, Renames
<1>10. CASE Repaired
  <2>1. merged' \in Seq(Relations)
    <3>1. PICK patch :
            merged' = [i \in DOMAIN merged |->
                         Patched(merged[i], patch[i], Allowed(known, entities))]
      BY <1>10 DEF Repaired
    <3>2. Allowed(known, entities) \in SUBSET Ids
      BY <1>0 DEF Allowed
    <3>3. \A i \in DOMAIN merged :
            Patched(merged[i], patch[i], Allowed(known, entities)) \in Relations
      BY <1>0, <3>2, PatchedTyped
    <3>4. DOMAIN merged = 1..Len(merged) /\ Len(merged) \in Nat
      BY <1>0
    <3> QED BY <3>1, <3>3, <3>4
  <2> QED BY <1>0, <1>10, <2>1 DEF Repaired, Filled, Renames
<1>11. CASE RepairFails
  <2>1. CASE Fresh
    BY <1>0, <1>11, <2>1, FreshIsFilled DEF RepairFails
  <2>2. CASE UNCHANGED extraction
    BY <1>0, <1>11, <2>2 DEF RepairFails, extraction, Filled, Renames
  <2> QED BY <1>11, <2>1, <2>2 DEF RepairFails
<1>12. CASE ExtractionGate
  <2>1. CASE Fresh
    BY <1>0, <1>12, <2>1, FreshIsFilled DEF ExtractionGate
  <2>2. CASE ~Fresh
    <3>1. PICK to \in Remaps : /\ remap' = to
                               /\ kept' = [i \in DOMAIN kept |-> MovedRelation(to, kept[i])]
                               /\ known' = {} /\ found' = {} /\ UNCHANGED <<entities, merged>>
      BY <1>12, <2>2 DEF ExtractionGate
    <3>2. Renames(to)
      BY MemoryAssumption DEF Renames
    <3>3. kept' \in Seq(Relations)
      <4>1. \A i \in DOMAIN kept : MovedRelation(to, kept[i]) \in Relations
        BY <1>0, <3>2, MovedRelationTyped
      <4>2. DOMAIN kept = 1..Len(kept) /\ Len(kept) \in Nat
        BY <1>0
      <4> QED BY <3>1, <4>1, <4>2
    <3> QED BY <1>0, <1>12, <3>1, <3>2, <3>3 DEF ExtractionGate, Filled, Renames
  <2> QED BY <2>1, <2>2
<1>13. CASE StateUpdater
  BY <1>0, <1>13, FreshIsFilled DEF StateUpdater
<1>14. CASE Apply
  BY <1>0, <1>14 DEF Apply, extraction, Filled, Renames
<1>15. CASE ApplyFails
  BY <1>0, <1>15 DEF ApplyFails, extraction, Filled, Renames
<1>16. CASE SavePlan
  BY <1>0, <1>16 DEF SavePlan, extraction, Filled, Renames
<1>17. CASE UNCHANGED vars
  BY <1>0, <1>17 DEF vars, extraction, Filled, Renames
<1> QED
  BY <1>1, <1>2, <1>3, <1>4, <1>5, <1>6, <1>7, <1>8, <1>9, <1>10, <1>11, <1>12, <1>13, <1>14,
     <1>15, <1>16, <1>17,
     ThreadCases DEF Next, Extracting
\* What state_updater works on.
LEMMA UpdateFacts ==
  ASSUME Filled, Mapped, NEW seen \in Snapshots, NEW back \in Undoings
  PROVE  /\ ResolvedEntities \in SUBSET Ids /\ Rewritten(back) \in Seq(Relations)
         /\ seen \in SUBSET Ways /\ \A f \in seen : f[2] \notin Events
<1>1. ResolvedEntities \in SUBSET Ids
  <2>1. \A n \in entities : Resolved(n) \in Ids
    BY MovedTyped DEF Filled, Resolved
  <2> QED BY <2>1 DEF ResolvedEntities
<1>2. Renames(back)
  BY DEF Undoings, Renames, Mapped
<1>3. Rewritten(back) \in Seq(Relations)
  <2>1. \A i \in DOMAIN kept : MovedRelation(back, kept[i]) \in Relations
    BY <1>2, MovedRelationTyped DEF Filled
  <2>2. DOMAIN kept = 1..Len(kept) /\ Len(kept) \in Nat
    BY DEF Filled
  <2> QED BY <2>1, <2>2 DEF Rewritten
<1>4. seen \subseteq DOMAIN located
  BY DEF Snapshots, Visible
<1>5. DOMAIN located \in SUBSET Ways /\ NoEvents(located)
  BY MapFacts DEF Mapped
<1> QED
  BY <1>1, <1>3, <1>4, <1>5 DEF NoEvents

\* The graph before the first chapter.
LEMMA MappedInit ==
  Init => Mapped
<1> SUFFICES ASSUME Init PROVE Mapped
  OBVIOUS
<1>1. located = [e \in {} |-> e] /\ mutations = <<>> /\ nodes = Seeded /\ stage = "idle"
  BY DEF Init
<1>2. DOMAIN located = {} /\ located = [e \in DOMAIN located |-> located[e]]
  BY <1>1
<1>3. located \in Maps
  BY <1>2, MapFacts
<1>4. Seeded \in SUBSET Ids
  BY MemoryAssumption
<1> QED
  BY <1>1, <1>2, <1>3, <1>4 DEF Mapped, NoEvents, JoinedIn

\* What StateUpdater asks the store to write.
LEMMA UpdatesTyped ==
  ASSUME NEW ns \in SUBSET Ids, NEW edges \in Seq(Mutations), Grounded(edges)
  PROVE  LET list == <<Upsert(ns)>> \o edges
         IN /\ list \in Seq(Mutations) /\ Len(list) = Len(edges) + 1 /\ Len(edges) \in Nat
            /\ list[1] = Upsert(ns) /\ \A i \in 1..Len(edges) : list[i + 1] = edges[i]
            /\ \A i \in 1..Len(list) : Settles(list[i])
<1> DEFINE u == Upsert(ns)
           list == <<u>> \o edges
<1>1. u \in Mutations /\ u.op = "upsert"
  BY MutationsTyped DEF Upsert
<1>2. Settles(u)
  BY <1>1 DEF Settles, IsPlacing
<1> HIDE DEF u
<1>3. /\ list \in Seq(Mutations) /\ Len(list) = Len(edges) + 1 /\ Len(edges) \in Nat
      /\ list[1] = u /\ \A i \in 1..Len(edges) : list[i + 1] = edges[i]
  BY <1>1
<1> HIDE DEF list
<1>4. ASSUME NEW i \in 1..Len(list)
      PROVE  Settles(list[i])
  <2>1. CASE i = 1
    BY <1>2, <1>3, <2>1
  <2>2. CASE i # 1
    <3>1. i - 1 \in 1..Len(edges) /\ (i - 1) + 1 = i
      BY <1>3, <2>2
    <3>2. list[(i - 1) + 1] = edges[i - 1]
      BY <1>3, <3>1
    <3> QED BY <3>1, <3>2 DEF Grounded
  <2> QED BY <2>1, <2>2
<1> QED
  BY <1>3, <1>4 DEF u, list

-----------------------------------------------------------------------------
(* The graph. *)

\* The store while the mutations are written.
LEMMA WrittenFacts ==
  ASSUME Mapped, NEW done \in 0..Len(mutations)
  PROVE  LET w == Written(SubSeq(mutations, 1, done))
         IN w \in Maps /\ JoinedIn(w, Upserted) /\ NoEvents(w)
<1>1. JoinedIn(located, Upserted)
  BY DEF Mapped, JoinedIn, Upserted
<1>2. /\ located \in Maps /\ mutations \in Seq(Mutations) /\ NoEvents(located)
      /\ \A i \in 1..Len(mutations) : Settles(mutations[i])
  BY DEF Mapped
<1> QED
  BY <1>1, <1>2, WrittenJoins

\* The nodes after the first mutation.
LEMMA UpsertedTyped ==
  ASSUME Mapped, stage = "writing"
  PROVE  Upserted \in SUBSET Ids
<1>1. mutations[1] \in Mutations /\ mutations[1].op = "upsert" /\ nodes \in SUBSET Ids
  BY DEF Mapped
<1>2. mutations[1].nodes \in SUBSET Ids
  BY <1>1, MutationFields
<1> QED
  BY <1>1, <1>2 DEF Upserted

\* The whole list, as one of the prefixes that may be written.
LEMMA WholeList ==
  ASSUME NEW list \in Seq(Mutations)
  PROVE  SubSeq(list, 1, Len(list)) = list /\ Len(list) \in 0..Len(list)
OBVIOUS

\* And nothing of it.
LEMMA NothingWritten ==
  ASSUME located \in Maps, mutations \in Seq(Mutations)
  PROVE  Written(SubSeq(mutations, 1, 0)) = located
<1>1. SubSeq(mutations, 1, 0) = <<>> /\ <<>> \in Seq(Mutations) /\ Len(<<>>) = 0
  OBVIOUS
<1>2. \E f \in [0..Len(<<>>) -> Maps] : f[0] = located /\ f[Len(<<>>)] = Written(<<>>)
  BY <1>1, WrittenSteps
<1> QED
  BY <1>1, <1>2

\* A part of the places is one of the store as it was.
LEMMA PartFacts ==
  ASSUME NEW l \in Maps, NEW D \in SUBSET (DOMAIN l)
  PROVE  LET p == [e \in D |-> l[e]]
         IN p \in Maps /\ DOMAIN p = D /\ \A e \in D : p[e] = l[e]
<1> DEFINE p == [e \in D |-> l[e]]
<1>1. DOMAIN l \in SUBSET Ways /\ \A e \in DOMAIN l : l[e] \in PlaceRecords
  BY MapFacts
<1>2. DOMAIN p = D /\ p = [e \in DOMAIN p |-> p[e]] /\ \A e \in D : p[e] = l[e]
  OBVIOUS
<1> HIDE DEF p
<1>3. p \in Maps
  BY <1>1, <1>2, MapFacts
<1> QED
  BY <1>2, <1>3 DEF p

\* Every step keeps the graph and the list as they should be.
LEMMA MappedStays ==
  Mapped /\ Filled /\ Controlled /\ [Next]_vars => Mapped'
<1> SUFFICES ASSUME Mapped, Filled, Controlled, [Next]_vars PROVE Mapped'
  OBVIOUS
<1>0. /\ nodes \in SUBSET Ids /\ located \in Maps /\ NoEvents(located) /\ JoinedIn(located, nodes)
      /\ mutations \in Seq(Mutations) /\ \A i \in 1..Len(mutations) : Settles(mutations[i])
      /\ stage = "writing" => Len(mutations) # 0 /\ mutations[1].op = "upsert"
  BY DEF Mapped
<1> DEFINE Kept == /\ UNCHANGED <<nodes, located, mutations>>
                   /\ stage' = "writing" => stage = "writing"
<1>1. ASSUME Kept
      PROVE  Mapped'
  BY <1>0, <1>1 DEF Mapped, NoEvents, JoinedIn
<1>2. CASE \/ BeginExtraction \/ EntityCall \/ MemoryCall \/ BeginRelations \/ NoEntities
           \/ BeginSecondPhase \/ EndRelations \/ Gate
  <2>1. Kept
    BY <1>2 DEF BeginExtraction, EntityCall, MemoryCall, BeginRelations, NoEntities,
                BeginSecondPhase, EndRelations, Gate, graph
  <2> QED BY <1>1, <2>1
<1>3. CASE \/ \E job \in Batches \cup {"second"} : RelationCall(job)
           \/ Repaired \/ RepairFails \/ ExtractionGate \/ UNCHANGED vars
  <2>1. Kept
    BY <1>3 DEF RelationCall, Repaired, RepairFails, ExtractionGate, graph, vars
  <2> QED BY <1>1, <2>1
<1>4. CASE StateUpdater
  <2>1. PICK seen \in Snapshots, back \in Undoings :
           mutations' = <<Upsert(ResolvedEntities)>> \o EdgesOf(seen, Rewritten(back))
    BY <1>4 DEF StateUpdater
  <2>2. /\ ResolvedEntities \in SUBSET Ids /\ Rewritten(back) \in Seq(Relations)
        /\ seen \in SUBSET Ways /\ \A f \in seen : f[2] \notin Events
    BY UpdateFacts
  <2> DEFINE edges == EdgesOf(seen, Rewritten(back))
             list == <<Upsert(ResolvedEntities)>> \o edges
  <2>3. edges \in Seq(Mutations) /\ Grounded(edges)
    BY <2>2, EdgesTracked
  <2>4. mutations' = list
    BY <2>1
  <2> HIDE DEF edges
  <2>5. /\ list \in Seq(Mutations) /\ Len(list) = Len(edges) + 1 /\ Len(edges) \in Nat
        /\ list[1] = Upsert(ResolvedEntities) /\ \A i \in 1..Len(list) : Settles(list[i])
    BY <2>2, <2>3, UpdatesTyped
  <2>6. Upsert(ResolvedEntities).op = "upsert"
    BY DEF Upsert
  <2> HIDE DEF list
  <2>7. Len(list) # 0
    BY <2>5
  <2>8. UNCHANGED <<nodes, located>>
    BY <1>4 DEF StateUpdater, graph
  <2> QED BY <1>0, <2>4, <2>5, <2>6, <2>7, <2>8 DEF Mapped, NoEvents, JoinedIn
<1>5. CASE Apply
  <2> DEFINE w == Written(mutations)
             D == {f \in DOMAIN w : f[1] \notin Events}
  <2>1. w \in Maps /\ JoinedIn(w, Upserted) /\ NoEvents(w)
    BY <1>0, WholeList, WrittenFacts
  <2>2. located' = [e \in D |-> w[e]] /\ nodes' = Upserted \ Events /\ mutations' = <<>>
          /\ stage' = "idle"
    BY <1>5 DEF Apply
  <2> HIDE DEF w
  <2>3. located' \in Maps /\ DOMAIN located' = D
    BY <2>1, <2>2, PartFacts
  <2>4. nodes' \in SUBSET Ids
    BY <1>5, <2>2, UpsertedTyped DEF Apply
  <2>5. NoEvents(located') /\ JoinedIn(located', nodes')
    BY <2>1, <2>2, <2>3 DEF NoEvents, JoinedIn
  <2> QED BY <2>2, <2>3, <2>4, <2>5 DEF Mapped, NoEvents, JoinedIn
<1>6. CASE ApplyFails
  <2>1. PICK done \in 0..Len(mutations) - 1 :
           /\ located' = Written(SubSeq(mutations, 1, done))
           /\ nodes' = IF done > 0 THEN Upserted ELSE nodes
    BY <1>6 DEF ApplyFails
  <2>2. done \in 0..Len(mutations) /\ Len(mutations) \in Nat
    BY <1>0, <2>1
  <2>3. located' \in Maps /\ JoinedIn(located', Upserted) /\ NoEvents(located')
    BY <2>1, <2>2, WrittenFacts
  <2>4. JoinedIn(located', nodes')
    <3>1. CASE done = 0
      BY <1>0, <2>1, <3>1, NothingWritten
    <3>2. CASE done # 0
      BY <2>1, <2>2, <2>3, <3>2
    <3> QED BY <3>1, <3>2
  <2>5. nodes' \in SUBSET Ids
    BY <1>0, <1>6, <2>1, UpsertedTyped DEF ApplyFails
  <2>6. mutations' = <<>> /\ stage' = "idle"
    BY <1>6 DEF ApplyFails
  <2> QED BY <2>3, <2>4, <2>5, <2>6 DEF Mapped, NoEvents, JoinedIn
<1>7. CASE SavePlan
  <2> DEFINE gone == {n \in nodes \ Cast : NodeType[n] = "CHARACTER"}
             left == {e \in DOMAIN located : {e[1], e[2]} \cap gone = {}}
  <2>1. /\ nodes' = (nodes \ gone) \cup Cast /\ located' = [e \in left |-> located[e]]
        /\ UNCHANGED <<stage, mutations>>
    BY <1>7 DEF SavePlan
  <2>2. located' \in Maps /\ DOMAIN located' = left
    BY <1>0, <2>1, PartFacts
  <2>3. nodes' \in SUBSET Ids
    BY <1>0, <2>1, MemoryAssumption
  <2>4. NoEvents(located') /\ JoinedIn(located', nodes')
    BY <1>0, <2>1, <2>2 DEF NoEvents, JoinedIn
  <2> QED BY <1>0, <2>1, <2>2, <2>3, <2>4 DEF Mapped, NoEvents, JoinedIn
<1> QED
  BY <1>2, <1>3, <1>4, <1>5, <1>6, <1>7, ThreadCases DEF Next, Extracting

-----------------------------------------------------------------------------
(* One place at a time. *)

\* Nobody is in two places, and a list that waits has foreseen where everybody may be: among the
\* places its narrator saw, unless the chapter was blind.
Placing ==
  /\ ~blind => Single(located)
  /\ stage = "writing" =>
       \E seen, open \in SUBSET Ways :
          /\ Tracked(mutations, seen, open)
          /\ ~blind => OpenAmong(located, Movers(mutations), seen)

\* A list that begins with the nodes places nobody before its edges do.
LEMMA UpsertTracked ==
  ASSUME NEW u \in Mutations, u.op = "upsert", NEW edges \in Seq(Mutations),
         NEW seen \in SUBSET Ways, NEW open, Tracked(edges, seen, open)
  PROVE  Tracked(<<u>> \o edges, seen, open)
<1> DEFINE n == Len(edges)
           list == <<u>> \o edges
<1>1. PICK may \in [0..n -> SUBSET Ways] :
         /\ may[0] = seen /\ may[n] = open
         /\ \A k \in 1..n : Follows(may[k - 1], edges[k], may[k])
  BY DEF Tracked
<1>2. /\ n \in Nat /\ Len(list) = n + 1 /\ list[1] = u
      /\ \A i \in 1..n : list[i + 1] = edges[i]
  OBVIOUS
<1> DEFINE more == [k \in 0..n + 1 |-> IF k = 0 THEN seen ELSE may[k - 1]]
<1> HIDE DEF list, n
<1>3. \A k \in 1..n + 1 : k - 1 \in 0..n
  BY <1>2
<1>4. more \in [0..n + 1 -> SUBSET Ways]
  BY <1>1, <1>3
<1>5. more[0] = seen /\ \A k \in 1..n + 1 : more[k] = may[k - 1]
  BY <1>2
<1> HIDE DEF more
<1>6. ASSUME NEW k \in 1..n + 1
      PROVE  Follows(more[k - 1], list[k], more[k])
  <2>1. CASE k = 1
    <3>1. more[1 - 1] = seen /\ more[1] = seen
      <4>1. 1 - 1 = 0 /\ 1 \in 1..n + 1
        BY <1>2
      <4> QED BY <1>1, <1>5, <4>1
    <3>2. Follows(seen, u, seen)
      BY DEF Follows, IsPlacing
    <3> QED BY <1>2, <2>1, <3>1, <3>2
  <2>2. CASE k # 1
    <3>1. k - 1 \in 1..n /\ (k - 1) + 1 = k /\ k - 1 \in 1..n + 1
      BY <1>2, <2>2
    <3>2. list[(k - 1) + 1] = edges[k - 1] /\ Follows(may[(k - 1) - 1], edges[k - 1], may[k - 1])
      BY <1>1, <1>2, <3>1
    <3>3. more[k - 1] = may[(k - 1) - 1] /\ more[k] = may[k - 1]
      BY <1>5, <3>1
    <3> QED BY <3>1, <3>2, <3>3
  <2> QED BY <2>1, <2>2
<1>7. more[n + 1] = open
  <2>1. n + 1 \in 1..n + 1 /\ (n + 1) - 1 = n
    BY <1>2
  <2>2. more[n + 1] = may[(n + 1) - 1]
    BY <1>5, <2>1
  <2> QED BY <1>1, <2>1, <2>2
<1>8. Tracked(list, seen, open)
  BY <1>2, <1>4, <1>5, <1>6, <1>7 DEF Tracked
<1> QED
  BY <1>8 DEF list

\* Nobody is anywhere at first.
LEMMA PlacingInit ==
  Init => Placing
BY DEF Init, Placing, Single, OpenIn

\* Every step keeps everybody in one place.
LEMMA PlacingStays ==
  Placing /\ Mapped /\ Filled /\ [Next]_vars => Placing'
<1> SUFFICES ASSUME Placing, Mapped, Filled, [Next]_vars PROVE Placing'
  OBVIOUS
<1>0. /\ nodes \in SUBSET Ids /\ located \in Maps /\ NoEvents(located) /\ JoinedIn(located, nodes)
      /\ mutations \in Seq(Mutations) /\ \A i \in 1..Len(mutations) : Settles(mutations[i])
  BY DEF Mapped
<1> DEFINE Kept == /\ UNCHANGED <<blind, located, mutations>>
                   /\ stage' = "writing" => stage = "writing"
<1>1. ASSUME Kept
      PROVE  Placing'
  <2>1. ~blind' => Single(located')
    BY <1>1 DEF Placing
  <2>2. stage' = "writing" => \E s, o \in SUBSET Ways :
           Tracked(mutations', s, o) /\ (~blind' => OpenAmong(located', Movers(mutations'), s))
    BY <1>1 DEF Placing
  <2> QED BY <2>1, <2>2 DEF Placing, Single, OpenIn, OpenAmong, Tracked, Movers
<1>2. CASE \/ BeginExtraction \/ EntityCall \/ MemoryCall \/ BeginRelations \/ NoEntities
           \/ BeginSecondPhase \/ EndRelations \/ Gate
  <2>1. Kept
    BY <1>2 DEF BeginExtraction, EntityCall, MemoryCall, BeginRelations, NoEntities,
                BeginSecondPhase, EndRelations, Gate, graph
  <2> QED BY <1>1, <2>1
<1>3. CASE \/ \E job \in Batches \cup {"second"} : RelationCall(job)
           \/ Repaired \/ RepairFails \/ ExtractionGate \/ UNCHANGED vars
  <2>1. Kept
    BY <1>3 DEF RelationCall, Repaired, RepairFails, ExtractionGate, graph, vars
  <2> QED BY <1>1, <2>1
<1>4. CASE StateUpdater
  <2>1. PICK seen \in Snapshots, back \in Undoings :
           LET edges == EdgesOf(seen, Rewritten(back))
               places == {edges[i].edge : i \in {j \in DOMAIN edges :
                 edges[j].op = "create" /\ edges[j].kind = "LOCATED_IN"}}
           IN /\ mutations' = <<Upsert(ResolvedEntities)>> \o edges
              /\ blind' = (blind \/ \E e \in places, f \in DOMAIN located \ seen :
                                       f[1] = e[1] /\ located[f].open)
    BY <1>4 DEF StateUpdater
  <2> DEFINE edges == EdgesOf(seen, Rewritten(back))
             u == Upsert(ResolvedEntities)
             list == <<u>> \o edges
             places == {edges[i].edge : i \in {j \in DOMAIN edges :
               edges[j].op = "create" /\ edges[j].kind = "LOCATED_IN"}}
  <2>2. /\ ResolvedEntities \in SUBSET Ids /\ Rewritten(back) \in Seq(Relations)
        /\ seen \in SUBSET Ways /\ \A f \in seen : f[2] \notin Events
    BY UpdateFacts
  <2>3. edges \in Seq(Mutations) /\ Grounded(edges)
          /\ \E open \in SUBSET Ways : Tracked(edges, seen, open)
    BY <2>2, EdgesTracked
  <2>4. /\ mutations' = list
        /\ blind' = (blind \/ \E e \in places, f \in DOMAIN located \ seen :
                                 f[1] = e[1] /\ located[f].open)
    BY <2>1
  <2>5. u \in Mutations /\ u.op = "upsert"
    BY <2>2, MutationsTyped DEF Upsert
  <2>6. located' = located
    BY <1>4 DEF StateUpdater, graph
  <2> HIDE DEF edges, u
  <2>7. PICK open \in SUBSET Ways : Tracked(list, seen, open)
    <3>1. PICK open \in SUBSET Ways : Tracked(edges, seen, open)
      BY <2>3
    <3> QED BY <2>2, <2>3, <2>5, <3>1, UpsertTracked
  <2>8. Movers(list) \subseteq {e[1] : e \in places}
    <3>1. /\ Len(edges) \in Nat /\ Len(list) = Len(edges) + 1 /\ list[1] = u
               /\ DOMAIN edges = 1..Len(edges)
          /\ \A i \in 1..Len(edges) : list[i + 1] = edges[i]
      BY <2>3, <2>5
    <3> HIDE DEF list, places
    <3>2. ASSUME NEW i \in 1..Len(list), IsPlacing(list[i])
          PROVE  list[i].edge \in places
      <4>1. i # 1
        BY <2>5, <3>1, <3>2 DEF IsPlacing
      <4>2. i - 1 \in 1..Len(edges) /\ (i - 1) + 1 = i
        BY <3>1, <4>1
      <4>3. list[(i - 1) + 1] = edges[i - 1]
        BY <3>1, <4>2
      <4> QED BY <3>1, <3>2, <4>2, <4>3 DEF IsPlacing, places
    <3> QED BY <3>2 DEF Movers
  <2>9. ASSUME ~blind'
        PROVE  ~blind /\ OpenAmong(located, Movers(list), seen)
    <3>1. ~blind /\ ~\E e \in places, f \in DOMAIN located \ seen : f[1] = e[1] /\ located[f].open
      BY <2>4, <2>9
    <3> HIDE DEF places, list
    <3> QED BY <2>8, <3>1 DEF OpenAmong, OpenIn
  <2> HIDE DEF list
  <2>10. Tracked(mutations', seen, open)
           /\ (~blind' => OpenAmong(located', Movers(mutations'), seen))
    BY <2>4, <2>6, <2>7, <2>9
  <2>11. ~blind' => Single(located')
    BY <2>6, <2>9 DEF Placing
  <2>12. seen \in SUBSET Ways
    BY <2>2
  <2>13. /\ ~blind' => Single(located')
         /\ \E s, o \in SUBSET Ways : /\ Tracked(mutations', s, o)
                                      /\ ~blind' => OpenAmong(located', Movers(mutations'), s)
    BY <2>10, <2>11, <2>12
  <2> QED BY <2>13 DEF Placing, Single, OpenIn, OpenAmong, Tracked, Movers
<1>5. ASSUME NEW done \in 0..Len(mutations), stage = "writing", ~blind
      PROVE  Single(Written(SubSeq(mutations, 1, done)))
  <2>1. JoinedIn(located, Upserted)
    BY DEF Mapped, JoinedIn, Upserted
  <2>2. PICK seen \in SUBSET Ways, open \in SUBSET Ways :
           Tracked(mutations, seen, open) /\ OpenAmong(located, Movers(mutations), seen)
    BY <1>5 DEF Placing
  <2>3. Single(located)
    BY <1>5 DEF Placing
  <2> QED BY <1>0, <2>1, <2>2, <2>3, WrittenIsSingle
<1>6. ASSUME NEW l, NEW k, Single(l), \A e \in DOMAIN k : e \in DOMAIN l /\ k[e] = l[e]
      PROVE  Single(k)
  BY <1>6 DEF Single, OpenIn
<1>7. CASE Apply
  <2> DEFINE w == Written(mutations)
             D == {f \in DOMAIN w : f[1] \notin Events}
  <2>1. located' = [e \in D |-> w[e]] /\ blind' = blind /\ stage = "writing" /\ stage' = "idle"
    BY <1>7 DEF Apply
  <2>2. ~blind => Single(w)
    BY <1>0, <1>5, <2>1, WholeList
  <2> HIDE DEF w
  <2>3. ~blind => Single(located')
    BY <1>6, <2>1, <2>2
  <2> QED BY <2>1, <2>3 DEF Placing, Single, OpenIn
<1>8. CASE ApplyFails
  <2>1. PICK done \in 0..Len(mutations) - 1 : located' = Written(SubSeq(mutations, 1, done))
    BY <1>8 DEF ApplyFails
  <2>2. done \in 0..Len(mutations) /\ stage = "writing" /\ stage' = "idle" /\ blind' = blind
    BY <1>0, <1>8, <2>1 DEF ApplyFails
  <2>3. ~blind' => Single(located')
    BY <1>5, <2>1, <2>2
  <2> QED BY <2>2, <2>3 DEF Placing, Single, OpenIn
<1>9. CASE SavePlan
  <2> DEFINE gone == {n \in nodes \ Cast : NodeType[n] = "CHARACTER"}
             left == {e \in DOMAIN located : {e[1], e[2]} \cap gone = {}}
  <2>1. located' = [e \in left |-> located[e]] /\ UNCHANGED <<stage, mutations, blind>>
    BY <1>9 DEF SavePlan
  <2>2. \A e \in DOMAIN located' : e \in DOMAIN located /\ located'[e] = located[e]
    BY <2>1
  <2>3. ~blind' => Single(located')
    BY <1>6, <2>1, <2>2 DEF Placing
  <2>4. \A people, seen : OpenAmong(located, people, seen) => OpenAmong(located', people, seen)
    BY <2>2 DEF OpenAmong, OpenIn
  <2>5. stage' = "writing" => \E s, o \in SUBSET Ways :
           Tracked(mutations', s, o) /\ (~blind' => OpenAmong(located', Movers(mutations'), s))
    BY <2>1, <2>4 DEF Placing
  <2> QED BY <2>3, <2>5 DEF Placing, Single, OpenIn, OpenAmong, Tracked, Movers
<1> QED
  BY <1>2, <1>3, <1>4, <1>7, <1>8, <1>9, ThreadCases DEF Next, Extracting

-----------------------------------------------------------------------------
(* The validation gate. *)

\* What the gate has passed is sound, and nothing is passed outside of it.
Checked ==
  /\ stage \in {"gate", "repair", "extracted"}
       => \A i \in DOMAIN kept : SoundIn(kept[i], known, entities)
  /\ stage \in {"idle", "entities", "relations", "writing"} => kept = <<>>
  /\ stage = "extracted" => \A i, j \in DOMAIN kept : Key(kept[i]) = Key(kept[j]) => i = j

\* A step that leaves the gate alone.
LEMMA CheckedSame ==
  ASSUME Checked, UNCHANGED <<known, entities, kept>>,
         \/ stage' = stage
         \/ stage \in {"gate", "repair", "extracted"} /\ stage' \in {"gate", "repair"}
  PROVE  Checked'
BY DEF Checked, SoundIn, Refuses, Unplanned, Key

\* A step to a stage where nothing is passed, or from there to the gate.
LEMMA CheckedEmpty ==
  ASSUME kept' = <<>>
  PROVE  Checked'
<1>1. DOMAIN kept' = {}
  BY DEF SoundIn
<1> QED
  BY <1>1 DEF Checked

\* Nothing is passed at first.
LEMMA CheckedInit ==
  Init => Checked
<1>1. Init => DOMAIN kept = {}
  BY DEF Init
<1> QED
  BY <1>1 DEF Init, Checked

\* The gate adds what is sound, and ends with what is sound and is there once.
LEMMA GateFacts ==
  ASSUME Filled, Checked, Gate
  PROVE  Checked'
<1>1. kept \in Seq(Relations) /\ merged \in Seq(Relations)
  BY DEF Filled
<1> DEFINE passed == kept \o Valid(merged, known, entities)
<1>2. /\ stage = "gate" /\ UNCHANGED <<known, entities>>
      /\ \/ kept' = passed /\ stage' = "repair"
         \/ kept' = Deduped(passed) /\ stage' = "extracted"
  BY DEF Gate
<1>3. passed \in Seq(Relations) /\ \A i \in DOMAIN passed : SoundIn(passed[i], known, entities)
  <2> DEFINE valid == Valid(merged, known, entities)
  <2>1. valid \in Seq(Relations) /\ \A i \in DOMAIN valid : SoundIn(valid[i], known, entities)
    BY <1>1, ValidFacts
  <2>2. \A i \in DOMAIN kept : SoundIn(kept[i], known, entities)
    BY <1>2 DEF Checked
  <2> HIDE DEF valid
  <2>3. /\ Len(kept) \in Nat /\ Len(valid) \in Nat /\ DOMAIN kept = 1..Len(kept)
             /\ DOMAIN valid = 1..Len(valid)
        /\ kept \o valid \in Seq(Relations)
        /\ DOMAIN (kept \o valid) = 1..Len(kept) + Len(valid)
        /\ \A i \in 1..Len(kept) : (kept \o valid)[i] = kept[i]
        /\ \A i \in Len(kept) + 1..Len(kept) + Len(valid) :
             (kept \o valid)[i] = valid[i - Len(kept)]
    BY <1>1, <2>1
  <2>4. ASSUME NEW i \in DOMAIN (kept \o valid)
        PROVE  SoundIn((kept \o valid)[i], known, entities)
    <3>1. CASE i \in 1..Len(kept)
      BY <2>2, <2>3, <3>1
    <3>2. CASE i \notin 1..Len(kept)
      <4>1. i \in Len(kept) + 1..Len(kept) + Len(valid) /\ i - Len(kept) \in 1..Len(valid)
        BY <2>3, <2>4, <3>2
      <4> QED BY <2>1, <2>3, <4>1
    <3> QED BY <3>1, <3>2
  <2>5. passed = kept \o valid
    BY DEF valid
  <2> QED BY <2>3, <2>4, <2>5
<1> HIDE DEF passed
<1>4. CASE kept' = passed /\ stage' = "repair"
  <2>1. \A i \in DOMAIN kept' : SoundIn(kept'[i], known, entities)
    BY <1>3, <1>4
  <2>2. \A i \in DOMAIN kept' : SoundIn(kept'[i], known', entities')
    BY <1>2, <2>1
  <2> QED BY <1>4, <2>2 DEF Checked, SoundIn, Refuses, Unplanned
<1>5. CASE kept' = Deduped(passed) /\ stage' = "extracted"
  <2> DEFINE d == Deduped(passed)
  <2>1. /\ \A i, j \in DOMAIN d : Key(d[i]) = Key(d[j]) => i = j
        /\ \A i \in DOMAIN d : \E j \in DOMAIN passed : d[i] = passed[j]
    BY <1>3, DedupedFacts
  <2>2. kept' = d
    BY <1>5
  <2> HIDE DEF d
  <2>3. \A i \in DOMAIN kept' : SoundIn(kept'[i], known', entities')
    BY <1>2, <1>3, <2>1, <2>2
  <2>4. \A i, j \in DOMAIN kept' : Key(kept'[i]) = Key(kept'[j]) => i = j
    BY <2>1, <2>2
  <2> QED BY <1>5, <2>3, <2>4 DEF Checked, SoundIn, Refuses, Unplanned, Key
<1> QED
  BY <1>2, <1>4, <1>5

\* Every step keeps what is passed sound.
LEMMA CheckedStays ==
  Checked /\ Controlled /\ Filled /\ [Next]_vars => Checked'
<1> SUFFICES ASSUME Checked, Controlled, Filled, [Next]_vars PROVE Checked'
  OBVIOUS
<1>0. /\ "entity" \in Jobs /\ "repair" \in Jobs
      /\ StageOf("entity") = "entities" /\ StageOf("repair") = "repair"
      /\ \A job \in Jobs : \A answer : Answered(job, answer) => stage = StageOf(job)
  BY JobFacts DEF Jobs, Controlled, Answered
<1>1. CASE stage \in {"idle", "entities", "relations", "writing"} /\ kept' = kept
  BY <1>1, CheckedEmpty DEF Checked
<1>2. CASE BeginExtraction \/ BeginRelations \/ NoEntities \/ BeginSecondPhase \/ EndRelations
  <2>1. stage \in {"idle", "entities", "relations", "writing"} /\ kept' = kept
    BY <1>2
       DEF BeginExtraction, BeginRelations, NoEntities, BeginSecondPhase, EndRelations,
           extraction
  <2> QED BY <1>1, <2>1
<1>3. CASE EntityCall
  <2>1. stage = "entities" /\ kept' = kept
    BY <1>0, <1>3 DEF EntityCall, Silent
  <2> QED BY <1>1, <2>1
<1>4. CASE MemoryCall \/ \E job \in Batches \cup {"second"} : RelationCall(job)
  <2>1. UNCHANGED <<known, entities, kept>> /\ stage' = stage
    BY <1>4 DEF MemoryCall, RelationCall, extraction
  <2> QED BY <2>1, CheckedSame
<1>5. CASE Gate
  BY <1>5, GateFacts
<1>6. CASE Repaired
  <2>1. UNCHANGED <<known, entities, kept>> /\ stage = "repair" /\ stage' = "gate"
    BY <1>0, <1>6 DEF Repaired
  <2> QED BY <2>1, CheckedSame
<1>7. CASE RepairFails
  <2>1. CASE calls'["repair"] = Raised
    BY <1>7, <2>1, CheckedEmpty DEF RepairFails, Fresh
  <2>2. CASE calls'["repair"] # Raised
    BY <1>7, <2>2, CheckedSame DEF RepairFails, extraction
  <2> QED BY <2>1, <2>2
<1>8. CASE ExtractionGate
  <2>1. stage' = "pending" \/ kept' = <<>>
    BY <1>8 DEF ExtractionGate, Fresh
  <2>2. stage' = "pending" => Checked'
    BY DEF Checked
  <2> QED BY <2>1, <2>2, CheckedEmpty
<1>9. CASE StateUpdater
  BY <1>9, CheckedEmpty DEF StateUpdater, Fresh
<1>10. CASE Apply \/ ApplyFails
  <2>1. stage = "writing" /\ kept' = kept
    BY <1>10 DEF Apply, ApplyFails, extraction
  <2> QED BY <1>1, <2>1
<1>11. CASE SavePlan \/ UNCHANGED vars
  <2>1. UNCHANGED <<known, entities, kept>> /\ stage' = stage
    BY <1>11 DEF SavePlan, extraction, vars
  <2> QED BY <2>1, CheckedSame
<1> QED
  BY <1>2, <1>3, <1>4, <1>5, <1>6, <1>7, <1>8, <1>9, <1>10, <1>11, ThreadCases
     DEF Next, Extracting

\* What is sound here is what the property says.
LEMMA CheckedIsSound ==
  Filled /\ Checked => KeptRelationsAreSound
<1> SUFFICES ASSUME Filled, Checked, stage = "extracted" PROVE KeptRelationsAreSound
  BY DEF KeptRelationsAreSound
<1>1. kept \in Seq(Relations) /\ ToSet(kept) = {kept[i] : i \in DOMAIN kept}
  BY DEF Filled, ToSet
<1>2. ASSUME NEW r \in ToSet(kept)
      PROVE  /\ r.src.of # r.dst.of /\ {r.src.of, r.dst.of} \subseteq known \cup entities
             /\ DirectionValid(r.kind, r.src.of, r.dst.of)
             /\ {r.src.of, r.dst.of} \subseteq Events \ (Invented \cup Leftovers)
                  => AsPlanned(r.kind, r.src.of, r.dst.of)
  <2>1. SoundIn(r, known, entities)
    BY <1>1, <1>2 DEF Checked
  <2> QED BY <2>1 DEF SoundIn, Refuses, Unplanned, Leftovers
<1> QED
  BY <1>2 DEF KeptRelationsAreSound, Checked

\* The types are those of the model.
LEMMA FactsAreTypes ==
  Controlled /\ Filled /\ Mapped => TypeOK
<1> SUFFICES ASSUME Controlled, Filled, Mapped PROVE TypeOK
  OBVIOUS
<1>1. /\ stage \in {"idle", "entities", "relations", "gate", "repair", "extracted", "pending",
           "writing"}
      /\ \A j \in Jobs : calls[j] \in Calls
      /\ rounds \in 0..MaxAlignRetries
      /\ chapter \in 0..MaxChapters /\ failures + saves \in 0..MaxTroubles /\ blind \in BOOLEAN
  BY MemoryAssumption DEF Controlled
<1>2. Identified(remap) \subseteq Ids
  <2>1. \A n \in entities : Moved(remap, n) \in Ids
    BY MovedTyped DEF Filled
  <2> QED BY <2>1 DEF Identified
<1>3. narrator \in Narrators /\ known \cup found \subseteq Ids /\ entities \subseteq Ids
  BY DEF Filled
<1>4. ToSet(merged) \cup ToSet(kept) \subseteq Relations
  BY DEF Filled, ToSet
<1>5. ToSet(mutations) \subseteq Mutations
  BY DEF Mapped, ToSet
<1>6. /\ nodes \subseteq Ids /\ DOMAIN located \subseteq Ids \X Ids
      /\ \A e \in DOMAIN located : located[e] \in [open : BOOLEAN, seers : SUBSET Narrators]
  <2>1. located \in Maps /\ nodes \in SUBSET Ids
    BY DEF Mapped
  <2> QED BY <2>1, MapFacts DEF Maps, Ways, PlaceRecords
<1> QED
  BY <1>1, <1>2, <1>3, <1>4, <1>5, <1>6 DEF TypeOK

\* The inductive invariant.
Ind == Controlled /\ Filled /\ Mapped /\ Checked /\ Placing

\* It holds in every state of the system.
THEOREM Inductive ==
  Spec => []Ind
<1>1. Init => Ind
  BY ControlInit, FilledInit, MappedInit, CheckedInit, PlacingInit DEF Ind
<1>2. Ind /\ [Next]_vars => Ind'
  BY ControlStays, FilledStays, MappedStays, CheckedStays, PlacingStays DEF Ind, Mapped
<1> QED
  BY <1>1, <1>2, PTL DEF Spec

\* Every variable keeps to the values the code can give it, and no request or extraction repairs
\* more often than the settings allow.
THEOREM TypeCorrect ==
  Spec => []TypeOK
<1>1. Ind => TypeOK
  BY FactsAreTypes DEF Ind
<1> QED
  BY <1>1, Inductive, PTL

\* What the validation gate lets through, however answers, repairs and fallbacks mix, joins two
\* different known nodes the way their types allow, once, and as the planner planned.
THEOREM KeptAreSound ==
  Spec => []KeptRelationsAreSound
<1>1. Ind => KeptRelationsAreSound
  BY CheckedIsSound DEF Ind
<1> QED
  BY <1>1, Inductive, PTL

\* Nobody is in two places at once, whatever the order of the relations and wherever a write
\* stops, unless a chapter moved somebody whose place its narrator could not see.
THEOREM OnePlace ==
  Spec => []OnePlaceAtATime
<1>1. Ind => OnePlaceAtATime
  BY DEF Ind, Placing, Single, OpenIn, OnePlaceAtATime
<1> QED
  BY <1>1, Inductive, PTL
=============================================================================
