---------------------------- MODULE Retriever_proofs ----------------------------
(***************************************************************************)
(* Theorems about Retriever, for any number of threads, any corpus, every  *)
(* k and all scores: what the queries of src/app/rag/retriever.py return.  *)
(*                                                                         *)
(* The answers are computed by folds and recursive functions.  What these  *)
(* compute is proved by a smallest counterexample: the naturals are well   *)
(* founded (WFMin), so that a property that failed somewhere would fail at *)
(* a first place, and it does not.                                         *)
(***************************************************************************)
EXTENDS Retriever, WellFoundedInduction, FiniteSetTheorems, TLAPS

\* Every set of naturals with a member has a smallest one ...
LEMMA SmallestOf ==
  ASSUME NEW S \in SUBSET Nat, S # {}
  PROVE  \E x \in S : \A y \in S : x <= y
<1> DEFINE less == OpToRel(<, Nat)
<1>1. IsWellFoundedOn(less, Nat)
  BY NatLessThanWellFounded
<1>2. \A x, y \in Nat : x < y => <<x, y>> \in less
  BY DEF OpToRel
<1> HIDE DEF less
<1>3. PICK x \in S : \A y \in S : ~(<<y, x>> \in less)
  BY <1>1, WFMin
<1>4. ASSUME NEW y \in S PROVE x <= y
  <2>1. ~(y < x)
    BY <1>2, <1>3
  <2> QED
    BY <2>1, x \in Nat, y \in Nat
<1> QED
  BY <1>4

\* ... and every bounded one a greatest one.
LEMMA GreatestOf ==
  ASSUME NEW n \in Nat, NEW S \in SUBSET (0..n), S # {}
  PROVE  \E x \in S : \A y \in S : y <= x
<1> DEFINE distances == {n - i : i \in S}
<1>1. distances \in SUBSET Nat /\ distances # {}
  <2>1. ASSUME NEW i \in S PROVE n - i \in Nat
    <3>1. i \in 0..n
      OBVIOUS
    <3> QED
      BY <3>1
  <2> QED
    BY <2>1
<1>2. PICK d \in distances : \A e \in distances : d <= e
  BY <1>1, SmallestOf
<1>3. PICK x \in S : d = n - x
  OBVIOUS
<1>4. ASSUME NEW y \in S PROVE y <= x
  <2>1. x \in 0..n /\ y \in 0..n
    OBVIOUS
  <2>2. n - x <= n - y
    BY <1>2, <1>3
  <2> QED
    BY <2>1, <2>2
<1> QED
  BY <1>4

-----------------------------------------------------------------------------
(* The loop of retrieve_policies over the ranked children. *)

\* What one more ranked child adds to the parents seen.
Keep(seen, c, score) ==
  IF score[c] = 0 \/ c[1] \in Range(seen) THEN seen ELSE Append(seen, c[1])

\* f is the function that FoldLeft computes on the first n of the ranked children, by the
\* sets of their positions.
Folds(f, n, ranking, score) ==
  f = [s \in SUBSET (1..n) |->
         IF s = {} THEN <<>> ELSE Keep(f[s \ {Max(s)}], ranking[Max(s)], score)]

\* Of a finite set of positions Max is the greatest.
LEMMA MaxOf ==
  ASSUME NEW n \in Nat, NEW s \in SUBSET (1..n), s # {}
  PROVE  /\ Max(s) \in s
         /\ \A i \in s : i <= Max(s)
<1>1. s \in SUBSET (0..n)
  OBVIOUS
<1>2. PICK g \in s : \A i \in s : i <= g
  BY <1>1, GreatestOf
<1>3. \A i \in s : g >= i
  BY <1>1, <1>2
<1>4. Max(s) \in s /\ \A i \in s : Max(s) >= i
  BY <1>3 DEF Max
<1> QED
  BY <1>4

\* There is one: if n were the first number without one, the function for n - 1 would
\* extend to it.
LEMMA FoldExists ==
  ASSUME NEW ranking, NEW score, NEW n \in Nat
  PROVE  \E f : Folds(f, n, ranking, score)
<1> DEFINE T == {m \in Nat : ~ \E f : Folds(f, m, ranking, score)}
<1> SUFFICES ASSUME T # {} PROVE FALSE
  OBVIOUS
<1>1. PICK m \in T : \A k \in T : m <= k
  BY SmallestOf
<1>2. m # 0
  <2>1. Folds([s \in SUBSET (1..0) |-> <<>>], 0, ranking, score)
    <3>1. SUBSET (1..0) = {{}}
      OBVIOUS
    <3> QED
      BY <3>1 DEF Folds
  <2> QED
    BY <2>1
<1>3. m - 1 \in Nat /\ m - 1 \notin T
  BY <1>1, <1>2
<1>4. PICK g : Folds(g, m - 1, ranking, score)
  BY <1>3
<1> DEFINE f == [s \in SUBSET (1..m) |->
                   IF s = {} THEN <<>> ELSE Keep(g[s \ {Max(s)}], ranking[Max(s)], score)]
<1>5. ASSUME NEW s \in SUBSET (1..m), s # {}
      PROVE  s \ {Max(s)} \in SUBSET (1..(m - 1)) /\ s \ {Max(s)} \in SUBSET (1..m)
  <2>1. Max(s) \in s /\ \A i \in s : i <= Max(s)
    BY <1>5, MaxOf
  <2>2. ASSUME NEW i \in s, i # Max(s) PROVE i \in 1..(m - 1)
    <3>1. i \in 1..m /\ Max(s) \in 1..m /\ i <= Max(s)
      BY <2>1
    <3> QED
      BY <2>2, <3>1
  <2> QED
    BY <2>2
<1>6. ASSUME NEW s \in SUBSET (1..(m - 1)) PROVE f[s] = g[s]
  <2>1. s \in SUBSET (1..m)
    BY <1>3
  <2>2. g[s] = IF s = {} THEN <<>> ELSE Keep(g[s \ {Max(s)}], ranking[Max(s)], score)
    BY <1>4 DEF Folds
  <2> QED
    BY <2>1, <2>2
<1>7. ASSUME NEW s \in SUBSET (1..m)
      PROVE  f[s] = IF s = {} THEN <<>> ELSE Keep(f[s \ {Max(s)}], ranking[Max(s)], score)
  <2>1. CASE s = {}
    BY <2>1
  <2>2. CASE s # {}
    <3>1. f[s \ {Max(s)}] = g[s \ {Max(s)}]
      BY <1>5, <1>6, <2>2
    <3>2. f[s] = Keep(g[s \ {Max(s)}], ranking[Max(s)], score)
      BY <2>2
    <3> HIDE DEF f
    <3> QED
      BY <2>2, <3>1, <3>2
  <2> QED
    BY <2>1, <2>2
<1>8. Folds(f, m, ranking, score)
  <2>1. f = [s \in SUBSET (1..m) |-> f[s]]
    OBVIOUS
  <2> HIDE DEF f
  <2> QED
    BY <1>7, <2>1 DEF Folds
<1> QED
  BY <1>1, <1>8

\* ParentsRanked is the last of the lists the loop goes through, one per ranked child.
LEMMA LoopOfParents ==
  ASSUME NEW n \in Nat, NEW ranking, DOMAIN ranking = 1..n, NEW score
  PROVE  \E kept :
           /\ kept[0] = <<>>
           /\ \A i \in 1..n : kept[i] = Keep(kept[i - 1], ranking[i], score)
           /\ ParentsRanked(ranking, score) = kept[n]
<1> DEFINE f == CHOOSE f : Folds(f, n, ranking, score)
           kept == [i \in 0..n |-> f[1..i]]
<1>1. Folds(f, n, ranking, score)
  BY FoldExists
<1>2. ParentsRanked(ranking, score) = f[1..n]
  BY DEF ParentsRanked, FoldLeft, MapThenFoldSet, Keep, Folds
<1> HIDE DEF f
<1>3. ASSUME NEW s \in SUBSET (1..n)
      PROVE  f[s] = IF s = {} THEN <<>> ELSE Keep(f[s \ {Max(s)}], ranking[Max(s)], score)
  BY <1>1 DEF Folds
<1>4. kept[0] = <<>>
  <2>1. 1..0 = {}
    OBVIOUS
  <2> QED
    BY <1>3, <2>1
<1>5. ASSUME NEW i \in 1..n
      PROVE  kept[i] = Keep(kept[i - 1], ranking[i], score)
  <2>1. 1..i \in SUBSET (1..n) /\ 1..i # {}
    OBVIOUS
  <2>2. Max(1..i) = i
    <3>1. Max(1..i) \in 1..i
      BY <2>1, MaxOf
    <3>2. \A j \in 1..i : j <= Max(1..i)
      BY <2>1, MaxOf
    <3>3. i \in 1..i
      OBVIOUS
    <3> QED
      BY <3>1, <3>2, <3>3
  <2>3. (1..i) \ {i} = 1..(i - 1)
    OBVIOUS
  <2>4. f[1..i] = Keep(f[(1..i) \ {Max(1..i)}], ranking[Max(1..i)], score)
    BY <1>3, <2>1
  <2>5. f[1..i] = Keep(f[1..(i - 1)], ranking[i], score)
    BY <2>2, <2>3, <2>4
  <2>6. kept[i] = f[1..i] /\ kept[i - 1] = f[1..(i - 1)]
    OBVIOUS
  <2> QED
    BY <2>5, <2>6
<1>6. kept[n] = f[1..n]
  OBVIOUS
<1> HIDE DEF kept
<1> QED
  BY <1>2, <1>4, <1>5, <1>6
\* if scores[idx] <= 0: continue.
Scores(ranking, score, j) == score[ranking[j]] # 0

\* What the loop has kept after i of the ranked children.
KeptAfter(seen, i, ranking, score) ==
  /\ seen \in Seq(AllParents)
  /\ IsInjective(seen)
  /\ \A j \in 1..i : Scores(ranking, score, j) => ranking[j][1] \in Range(seen)
  /\ \A a \in DOMAIN seen : \E j \in 1..i : Scores(ranking, score, j) /\ ranking[j][1] = seen[a]
  /\ \A a, b \in DOMAIN seen : a < b =>
       \A j \in 1..i : Scores(ranking, score, j) /\ ranking[j][1] = seen[b] =>
         \E h \in 1..(j - 1) : Scores(ranking, score, h) /\ ranking[h][1] = seen[a]

\* One more child keeps what is known of the list ...
LEMMA KeptStep ==
  ASSUME NEW ranking, NEW score, NEW i \in Nat \ {0}, NEW seen,
         KeptAfter(seen, i - 1, ranking, score), ranking[i][1] \in AllParents
  PROVE  KeptAfter(Keep(seen, ranking[i], score), i, ranking, score)
<1> DEFINE c == ranking[i]
           IsChild(j, p) == Scores(ranking, score, j) /\ ranking[j][1] = p
<1>1. /\ seen \in Seq(AllParents) /\ IsInjective(seen)
      /\ \A j \in 1..(i - 1) : Scores(ranking, score, j) => ranking[j][1] \in Range(seen)
      /\ \A a \in DOMAIN seen : \E j \in 1..(i - 1) : IsChild(j, seen[a])
  BY DEF KeptAfter
<1>2. ASSUME NEW a \in DOMAIN seen, NEW b \in DOMAIN seen, a < b,
             NEW j \in 1..(i - 1), IsChild(j, seen[b])
      PROVE  \E h \in 1..(j - 1) : IsChild(h, seen[a])
  BY <1>2 DEF KeptAfter
<1>3. ASSUME NEW j \in 1..i PROVE j \in 1..(i - 1) \/ j = i
  OBVIOUS
<1>4. CASE score[c] = 0
  <2>1. Keep(seen, c, score) = seen /\ ~Scores(ranking, score, i)
    BY <1>4 DEF Keep, Scores
  <2>2. \A j \in 1..i : Scores(ranking, score, j) => ranking[j][1] \in Range(seen)
    BY <1>1, <1>3, <2>1
  <2>3. \A a \in DOMAIN seen : \E j \in 1..i : IsChild(j, seen[a])
    BY <1>1
  <2>4. ASSUME NEW a \in DOMAIN seen, NEW b \in DOMAIN seen, a < b,
               NEW j \in 1..i, IsChild(j, seen[b])
        PROVE  \E h \in 1..(j - 1) : IsChild(h, seen[a])
    BY <1>2, <1>3, <2>1, <2>4
  <2> QED
    BY <1>1, <2>1, <2>2, <2>3, <2>4 DEF KeptAfter
<1>5. CASE score[c] # 0 /\ c[1] \in Range(seen)
  <2>1. Keep(seen, c, score) = seen
    BY <1>5 DEF Keep
  <2>2. \A j \in 1..i : Scores(ranking, score, j) => ranking[j][1] \in Range(seen)
    BY <1>1, <1>3, <1>5
  <2>3. \A a \in DOMAIN seen : \E j \in 1..i : IsChild(j, seen[a])
    BY <1>1
  <2>4. ASSUME NEW a \in DOMAIN seen, NEW b \in DOMAIN seen, a < b,
               NEW j \in 1..i, IsChild(j, seen[b])
        PROVE  \E h \in 1..(j - 1) : IsChild(h, seen[a])
    <3>1. PICK k \in 1..(i - 1) : IsChild(k, seen[b])
      BY <1>1
    <3>2. PICK h \in 1..(k - 1) : IsChild(h, seen[a])
      BY <1>2, <2>4, <3>1
    <3>3. CASE j = i
      <4>1. h \in 1..(j - 1)
        BY <3>3
      <4> QED
        BY <3>2, <4>1
    <3>4. CASE j \in 1..(i - 1)
      BY <1>2, <2>4, <3>4
    <3> QED
      BY <1>3, <3>3, <3>4
  <2> QED
    BY <1>1, <2>1, <2>2, <2>3, <2>4 DEF KeptAfter
<1>6. CASE score[c] # 0 /\ c[1] \notin Range(seen)
  <2> DEFINE more == Append(seen, c[1])
             n == Len(seen)
  <2>1. Keep(seen, c, score) = more
    BY <1>6 DEF Keep
  <2>2. /\ more \in Seq(AllParents) /\ n \in Nat /\ DOMAIN seen = 1..n
        /\ DOMAIN more = 1..(n + 1) /\ more[n + 1] = c[1]
        /\ \A a \in 1..n : more[a] = seen[a]
    BY <1>1
  <2> HIDE DEF more, n
  <2>3. ASSUME NEW a \in DOMAIN more PROVE a \in DOMAIN seen \/ a = n + 1
    BY <2>2
  <2>4. ASSUME NEW a \in DOMAIN seen
        PROVE  a \in DOMAIN more /\ more[a] = seen[a] /\ a < n + 1 /\ seen[a] # c[1]
    BY <1>6, <2>2 DEF Range
  <2>5. IsInjective(more)
    <3>1. ASSUME NEW a \in DOMAIN more, NEW b \in DOMAIN more, more[a] = more[b]
          PROVE  a = b
      <4>1. CASE a = n + 1 /\ b = n + 1
        BY <4>1
      <4>2. CASE a \in DOMAIN seen /\ b \in DOMAIN seen
        BY <1>1, <2>4, <3>1, <4>2 DEF IsInjective
      <4>3. CASE a = n + 1 /\ b \in DOMAIN seen
        BY <2>2, <2>4, <3>1, <4>3
      <4>4. CASE a \in DOMAIN seen /\ b = n + 1
        BY <2>2, <2>4, <3>1, <4>4
      <4> QED
        BY <2>3, <4>1, <4>2, <4>3, <4>4
    <3> QED
      BY <3>1 DEF IsInjective
  <2>6. ASSUME NEW j \in 1..i, Scores(ranking, score, j)
        PROVE  ranking[j][1] \in Range(more)
    <3>1. CASE j = i
      BY <2>2, <3>1 DEF Range
    <3>2. CASE j \in 1..(i - 1)
      <4>1. PICK a \in DOMAIN seen : seen[a] = ranking[j][1]
        BY <1>1, <2>6, <3>2 DEF Range
      <4> QED
        BY <2>4, <4>1 DEF Range
    <3> QED
      BY <1>3, <3>1, <3>2
  <2>7. ASSUME NEW a \in DOMAIN more
        PROVE  \E j \in 1..i : IsChild(j, more[a])
    <3>1. CASE a = n + 1
      <4>1. IsChild(i, more[a]) /\ i \in 1..i
        BY <1>6, <2>2, <3>1 DEF Scores
      <4> QED
        BY <4>1
    <3>2. CASE a \in DOMAIN seen
      BY <1>1, <2>4, <3>2
    <3> QED
      BY <2>3, <3>1, <3>2
  <2>8. ASSUME NEW a \in DOMAIN more, NEW b \in DOMAIN more, a < b,
               NEW j \in 1..i, IsChild(j, more[b])
        PROVE  \E h \in 1..(j - 1) : IsChild(h, more[a])
    <3>1. a \in DOMAIN seen
      BY <2>2, <2>8
    <3>2. CASE b = n + 1
      <4>1. j \notin 1..(i - 1)
        BY <1>1, <1>6, <2>2, <2>8, <3>2
      <4>2. j = i
        BY <1>3, <4>1
      <4> QED
        BY <1>1, <2>4, <3>1, <4>2
    <3>3. CASE b \in DOMAIN seen
      <4>1. j # i
        BY <2>4, <2>8, <3>3
      <4> QED
        BY <1>2, <1>3, <2>4, <2>8, <3>1, <3>3, <4>1
    <3> QED
      BY <2>3, <3>2, <3>3
  <2> QED
    BY <2>1, <2>2, <2>5, <2>6, <2>7, <2>8 DEF KeptAfter
<1> QED
  BY <1>4, <1>5, <1>6

\* ... so that it holds of the whole: if it failed, it would fail at a first child.
LEMMA RankedParents ==
  ASSUME NEW n \in Nat, NEW ranking, DOMAIN ranking = 1..n, NEW score,
         \A i \in 1..n : ranking[i][1] \in AllParents
  PROVE  KeptAfter(ParentsRanked(ranking, score), n, ranking, score)
<1>1. PICK kept :
        /\ kept[0] = <<>>
        /\ \A i \in 1..n : kept[i] = Keep(kept[i - 1], ranking[i], score)
        /\ ParentsRanked(ranking, score) = kept[n]
  BY LoopOfParents
<1> DEFINE T == {i \in Nat : i <= n /\ ~KeptAfter(kept[i], i, ranking, score)}
<1>2. ASSUME T # {} PROVE FALSE
  <2>1. PICK m \in T : \A k \in T : m <= k
    BY <1>2, SmallestOf
  <2>2. CASE m = 0
    <3>1. KeptAfter(<<>>, 0, ranking, score)
      BY DEF KeptAfter, IsInjective
    <3> QED
      BY <1>1, <2>1, <2>2, <3>1
  <2>3. CASE m # 0
    <3>1. m \in 1..n /\ m - 1 \in Nat /\ m - 1 \notin T /\ m - 1 <= n /\ m \in Nat \ {0}
      BY <2>1, <2>3
    <3>2. KeptAfter(kept[m - 1], m - 1, ranking, score)
      BY <3>1
    <3>3. KeptAfter(Keep(kept[m - 1], ranking[m], score), m, ranking, score)
      BY <3>1, <3>2, KeptStep
    <3> QED
      BY <1>1, <2>1, <3>1, <3>3
  <2> QED
    BY <2>2, <2>3
<1>3. n \notin T
  BY <1>2
<1> QED
  BY <1>1, <1>3
-----------------------------------------------------------------------------
(* The scope of a call. *)

\* FlattenSeq of the one or two documents in scope.
LEMMA FlattenOne ==
  ASSUME NEW s
  PROVE  FlattenSeq(<<s>>) = s
<1> DEFINE flatten == CHOOSE f : f = [i \in 1..1 |->
                                    IF i = 1 THEN <<s>>[i] ELSE f[i - 1] \o <<s>>[i]]
           g == [i \in 1..1 |-> s]
<1>1. g = [i \in 1..1 |-> IF i = 1 THEN <<s>>[i] ELSE g[i - 1] \o <<s>>[i]]
  OBVIOUS
<1>2. flatten = [i \in 1..1 |-> IF i = 1 THEN <<s>>[i] ELSE flatten[i - 1] \o <<s>>[i]]
  BY <1>1
<1>3. FlattenSeq(<<s>>) = flatten[1]
  BY DEF FlattenSeq
<1> HIDE DEF flatten
<1> QED
  BY <1>2, <1>3

LEMMA FlattenTwo ==
  ASSUME NEW s, NEW t
  PROVE  FlattenSeq(<<s, t>>) = s \o t
<1> DEFINE st == <<s, t>>
           flatten == CHOOSE f : f = [i \in 1..2 |-> IF i = 1 THEN st[i] ELSE f[i - 1] \o st[i]]
           g == [i \in 1..2 |-> IF i = 1 THEN s ELSE s \o t]
<1>1. g = [i \in 1..2 |-> IF i = 1 THEN st[i] ELSE g[i - 1] \o st[i]]
  OBVIOUS
<1>2. flatten = [i \in 1..2 |-> IF i = 1 THEN st[i] ELSE flatten[i - 1] \o st[i]]
  BY <1>1
<1>3. FlattenSeq(st) = flatten[2]
  BY DEF FlattenSeq
<1> HIDE DEF flatten
<1>4. flatten[1] = s /\ flatten[2] = flatten[1] \o t
  <2>1. \A i \in 1..2 : flatten[i] = IF i = 1 THEN st[i] ELSE flatten[i - 1] \o st[i]
    BY Zenon, <1>2
  <2>2. 1 \in 1..2 /\ 2 \in 1..2 /\ 2 # 1 /\ 2 - 1 = 1 /\ st[1] = s /\ st[2] = t
    OBVIOUS
  <2>3. flatten[1] = st[1]
    BY Zenon, <2>1, <2>2
  <2>4. flatten[2] = flatten[2 - 1] \o st[2]
    BY Zenon, <2>1, <2>2
  <2> HIDE DEF st
  <2> QED
    BY <2>2, <2>3, <2>4
<1> QED
  BY <1>3, <1>4

\* Every document is a sequence of parents, none of them twice.
LEMMA DocumentType ==
  ASSUME NEW d \in Sources
  PROVE  /\ Document[d] \in Seq(AllParents)
         /\ IsInjective(Document[d])
         /\ Range(Document[d]) \subseteq AllParents
<1>1. Range(Document[d]) \subseteq AllParents
  BY DEF AllParents, ParentsOf
<1>2. Document[d] \in Seq(Range(Document[d])) /\ IsInjective(Document[d])
  BY CorpusAssumption
<1>3. Document[d] \in Seq(AllParents)
  BY <1>1, <1>2
<1> QED
  BY <1>1, <1>2, <1>3

\* A call that has a whole retriever.
LEMMA ScopeIs ==
  ASSUME NEW c, c.state \in States, c.built = Sources
  PROVE  /\ Scope(c) \in Seq(AllParents)
         /\ IsInjective(Scope(c))
         /\ Range(Scope(c)) = ParentsOf({c.state, "general"} \intersect Sources)
<1> DEFINE general == Document["general"]
<1>0. "general" \in Sources /\ c.state # "general"
  BY CorpusAssumption
<1>1. /\ general \in Seq(AllParents) /\ IsInjective(general)
  BY <1>0, DocumentType
<1> HIDE DEF general
<1>2. CASE c.state \notin Sources
  <2>1. ScopedSources(c.state) = <<"general">>
    BY <1>2 DEF ScopedSources
  <2>2. [i \in DOMAIN ScopedSources(c.state) |->
              IF ScopedSources(c.state)[i] \in c.built
              THEN Document[ScopedSources(c.state)[i]] ELSE <<>>] = <<general>>
    BY <1>0, <2>1 DEF general
  <2>3. Scope(c) = general
    BY <2>2, FlattenOne DEF Scope
  <2>4. {c.state, "general"} \intersect Sources = {"general"}
    BY <1>0, <1>2
  <2>5. ParentsOf({"general"}) = Range(general)
    BY DEF ParentsOf, general
  <2> QED
    BY <1>1, <2>3, <2>4, <2>5
<1>3. CASE c.state \in Sources
  <2> DEFINE own == Document[c.state]
  <2>1. ScopedSources(c.state) = <<c.state, "general">>
    BY <1>3 DEF ScopedSources
  <2>2. [i \in DOMAIN ScopedSources(c.state) |->
              IF ScopedSources(c.state)[i] \in c.built
              THEN Document[ScopedSources(c.state)[i]] ELSE <<>>] = <<own, general>>
    BY <1>0, <1>3, <2>1 DEF general
  <2>3. Scope(c) = own \o general
    BY <2>2, FlattenTwo DEF Scope
  <2>4. own \in Seq(AllParents) /\ IsInjective(own)
    BY <1>3, DocumentType
  <2>5. Range(own) \intersect Range(general) = {}
    BY <1>0, <1>3, CorpusAssumption DEF general
  <2>6. {c.state, "general"} \intersect Sources = {c.state, "general"}
    BY <1>0, <1>3
  <2>7. ParentsOf({c.state, "general"}) = Range(own) \union Range(general)
    BY DEF ParentsOf, general
  <2> HIDE DEF own
  <2> DEFINE both == own \o general
             m == Len(own)
             n == Len(general)
  <2>8. /\ both \in Seq(AllParents) /\ m \in Nat /\ n \in Nat /\ DOMAIN both = 1..(m + n)
        /\ DOMAIN own = 1..m /\ DOMAIN general = 1..n
        /\ \A i \in 1..m : both[i] = own[i]
        /\ \A i \in 1..n : both[m + i] = general[i]
    BY <1>1, <2>4
  <2> HIDE DEF both, m, n
  <2>9. ASSUME NEW i \in DOMAIN both
        PROVE  i \in DOMAIN own \/ \E k \in DOMAIN general : i = m + k
    <3>1. i \in 1..m \/ i - m \in 1..n
      BY <2>8
    <3>2. i = m + (i - m)
      BY <2>8
    <3> QED
      BY <2>8, <3>1, <3>2
  <2>10. Range(both) = Range(own) \union Range(general)
    <3>1. ASSUME NEW i \in DOMAIN both PROVE both[i] \in Range(own) \union Range(general)
      BY <2>8, <2>9 DEF Range
    <3>2. ASSUME NEW i \in DOMAIN own PROVE own[i] \in Range(both)
      <4>1. i \in DOMAIN both
        BY <2>8
      <4> QED
        BY <2>8, <4>1 DEF Range
    <3>3. ASSUME NEW i \in DOMAIN general PROVE general[i] \in Range(both)
      <4>1. m + i \in DOMAIN both
        BY <2>8
      <4> QED
        BY <2>8, <4>1 DEF Range
    <3> QED
      BY <3>1, <3>2, <3>3 DEF Range
  <2>11. IsInjective(both)
    <3>1. ASSUME NEW i \in DOMAIN both, NEW k \in DOMAIN both, both[i] = both[k]
          PROVE  i = k
      <4>1. CASE i \in DOMAIN own /\ k \in DOMAIN own
        BY <2>4, <2>8, <3>1, <4>1 DEF IsInjective
      <4>2. ASSUME NEW a \in DOMAIN general, NEW b \in DOMAIN general, i = m + a, k = m + b
            PROVE  i = k
        BY <1>1, <2>8, <3>1, <4>2 DEF IsInjective
      <4>3. ASSUME NEW a \in DOMAIN own, NEW b \in DOMAIN general, both[a] = both[m + b]
            PROVE  FALSE
        BY <2>5, <2>8, <4>3 DEF Range
      <4> QED
        BY <2>9, <3>1, <4>1, <4>2, <4>3
    <3> QED
      BY <3>1 DEF IsInjective
  <2> QED
    BY <2>3, <2>6, <2>7, <2>8, <2>10, <2>11 DEF both
<1> QED
  BY <1>2, <1>3

\* Finitely many children are ranked.
LEMMA ChildrenFinite ==
  ASSUME NEW s \in Seq(AllParents)
  PROVE  IsFiniteSet(ChildrenIn(s))
<1> DEFINE families == {{p} \X (1..ChildrenOf[p]) : p \in Range(s)}
           f == [i \in 1..Len(s) |-> {s[i]} \X (1..ChildrenOf[s[i]])]
<1>1. Len(s) \in Nat /\ DOMAIN s = 1..Len(s) /\ \A p \in Range(s) : p \in AllParents
  BY DEF Range
<1>2. f \in Surjection(1..Len(s), families)
  <2>1. \A i \in 1..Len(s) : f[i] \in families
    BY <1>1 DEF Range
  <2>2. ASSUME NEW x \in families PROVE \E i \in 1..Len(s) : f[i] = x
    <3>1. PICK p \in Range(s) : x = {p} \X (1..ChildrenOf[p])
      OBVIOUS
    <3>2. PICK i \in 1..Len(s) : p = s[i]
      BY <1>1 DEF Range
    <3> QED
      BY <3>1, <3>2
  <2> HIDE DEF families
  <2>3. f \in [1..Len(s) -> families]
    BY <2>1
  <2> HIDE DEF f
  <2> QED
    BY <2>2, <2>3 DEF Surjection
<1>3. IsFiniteSet(families)
  <2>1. IsFiniteSet(1..Len(s))
    BY <1>1, FS_Interval
  <2> HIDE DEF families, f
  <2> QED
    BY <1>2, <2>1, FS_Surjection
<1>4. ASSUME NEW p \in Range(s) PROVE IsFiniteSet({p} \X (1..ChildrenOf[p]))
  <2>1. ChildrenOf[p] \in Nat
    BY <1>1, CorpusAssumption
  <2>2. IsFiniteSet(1..ChildrenOf[p])
    BY <2>1, FS_Interval
  <2>3. IsFiniteSet({p})
    BY FS_Singleton
  <2> QED
    BY <2>2, <2>3, FS_Product
<1>5. \A x \in families : IsFiniteSet(x)
  BY <1>4
<1> HIDE DEF families
<1>6. IsFiniteSet(UNION families)
  BY <1>3, <1>5, FS_UNION
<1> QED
  BY <1>6 DEF families, ChildrenIn
-----------------------------------------------------------------------------
(* Rankings and their parents. *)

\* The k best, or all of them: in order, none better left out, and at least one of any.
LEMMA RankingShape ==
  ASSUME NEW children, IsFiniteSet(children), NEW score, NEW ranking \in Rankings(children, score)
  PROVE  \E n \in Nat :
           /\ DOMAIN ranking = 1..n
           /\ \A i \in 1..n : ranking[i] \in children
           /\ \A i \in 2..n : score[ranking[i - 1]] >= score[ranking[i]]
           /\ \A c \in children \ Range(ranking), i \in 1..n : score[ranking[i]] >= score[c]
           /\ children # {} => n >= 1
<1> DEFINE n == IF Cardinality(children) < K THEN Cardinality(children) ELSE K
<1>1. Cardinality(children) \in Nat /\ (Cardinality(children) = 0 <=> children = {})
  BY FS_CardinalityType, FS_EmptySet
<1>2. n \in Nat /\ (children # {} => n >= 1)
  BY <1>1, CorpusAssumption
<1>3. /\ ranking \in [1..n -> children]
      /\ \A i \in 2..n : score[ranking[i - 1]] >= score[ranking[i]]
      /\ \A c \in children \ Range(ranking), i \in 1..n : score[ranking[i]] >= score[c]
  BY Zenon DEF Rankings
<1> HIDE DEF n
<1>4. DOMAIN ranking = 1..n /\ \A i \in 1..n : ranking[i] \in children
  BY <1>3
<1> QED
  BY <1>2, <1>3, <1>4

\* What does not rise from one position to the next does not rise at all.
LEMMA Descending ==
  ASSUME NEW n \in Nat, NEW f, \A i \in 1..n : f[i] \in Nat,
         \A i \in 2..n : f[i - 1] >= f[i],
         NEW i \in 1..n, NEW j \in i..n
  PROVE  f[i] >= f[j]
<1> DEFINE T == {k \in Nat : i + k <= n /\ ~(f[i] >= f[i + k])}
<1>0. i \in Nat /\ j \in Nat /\ i <= j /\ j <= n
  OBVIOUS
<1>1. ASSUME T # {} PROVE FALSE
  <2>1. PICK m \in T : \A k \in T : m <= k
    BY <1>1, SmallestOf
  <2>2. CASE m = 0
    <3>1. i + m = i /\ f[i] \in Nat
      BY <2>2
    <3>2. f[i] >= f[i + m]
      BY <3>1
    <3> QED
      BY <3>2
  <2>3. CASE m # 0
    <3>1. m \in Nat /\ i + m <= n
      OBVIOUS
    <3>2. m - 1 \in Nat /\ i + (m - 1) <= n /\ ~(m <= m - 1)
      BY <1>0, <2>3, <3>1
    <3>3. m - 1 \in Nat /\ m - 1 \notin T /\ i + (m - 1) <= n
      <4> HIDE DEF T
      <4> QED
        BY <2>1, <3>2
    <3>4. f[i] >= f[i + (m - 1)]
      BY <3>3
    <3>5. i + m \in 2..n /\ (i + m) - 1 = i + (m - 1)
      BY <2>3
    <3>6. f[i + (m - 1)] >= f[i + m]
      BY <3>5
    <3>7. i + m \in 1..n /\ i + (m - 1) \in 1..n
      BY <2>3
    <3>8. f[i] \in Nat /\ f[i + m] \in Nat /\ f[i + (m - 1)] \in Nat
      BY <3>7
    <3>9. f[i] >= f[i + m]
      BY <3>4, <3>6, <3>8
    <3> QED
      BY <3>9
  <2> QED
    BY <2>2, <2>3
<1>2. j - i \in Nat /\ i + (j - i) = j /\ i + (j - i) <= n
  BY <1>0
<1>3. j - i \notin T
  BY <1>1
<1>4. f[i] >= f[i + (j - i)]
  BY <1>2, <1>3
<1> QED
  BY <1>2, <1>4

-----------------------------------------------------------------------------

\* The scores of the children of some documents.
Scoring == {<<>>} \union UNION {[C -> 0..MaxScore] : C \in SUBSET (AllParents \X Nat)}

\* A thread's call.
Call == [pc : {"idle", "loading", "query", "done"}, op : Ops, state : States,
         stopwords : BOOLEAN, built : SUBSET Sources, score : Scoring, result : Seq(AllParents)]

\* What a call that is done returns.
Answered(c) ==
  /\ c.op = "get_state_policies" => c.result = Scope(c)
  /\ c.op = "retrieve_policies" =>
       /\ c.score \in [ChildrenIn(Scope(c)) -> 0..MaxScore]
       /\ \E ranking \in Rankings(ChildrenIn(Scope(c)), c.score) :
            c.result = ParentsRanked(ranking, c.score)

\* No thread queries a retriever that is not finished, and the answers are those of the
\* whole scope.  The properties of Retriever follow from it and are not inductive
\* themselves: they do not say what the default retriever is made of.
RetrieverInvariant ==
  /\ default \in {None, Sources}
  /\ call \in [Threads -> Call]
  /\ \A t \in Threads :
       /\ call[t].pc \in {"query", "done"} => call[t].built = Sources
       /\ call[t].pc = "done" => Answered(call[t])

\* The scope depends on the state and on the documents of the retriever only.
LEMMA SameScope ==
  ASSUME NEW c, NEW d, c.state = d.state, c.built = d.built
  PROVE  Scope(c) = Scope(d)
  BY DEF Scope

\* A thread that calls nothing.
LEMMA IdleType == Idle \in Call /\ Idle.pc = "idle"
<1>1. (CHOOSE s \in States : TRUE) \in States
  BY CorpusAssumption
<1>2. <<>> \in Scoring /\ <<>> \in Seq(AllParents)
  BY DEF Scoring
<1> HIDE DEF Scoring
<1> QED
  BY <1>1, <1>2 DEF Idle, Call, Ops

\* A thread's step that keeps its own part of the invariant.
LEMMA ThreadStep ==
  ASSUME RetrieverInvariant, NEW t \in Threads, NEW c \in Call,
         call' = [call EXCEPT ![t] = c],
         default' \in {None, Sources},
         c.pc \in {"query", "done"} => c.built = Sources,
         c.pc = "done" => Answered(c)
  PROVE  RetrieverInvariant'
<1>1. call' \in [Threads -> Call] /\ call'[t] = c
      /\ \A s \in Threads : s # t => call'[s] = call[s]
  BY DEF RetrieverInvariant
<1>2. ASSUME NEW s \in Threads
      PROVE  /\ call'[s].pc \in {"query", "done"} => call'[s].built = Sources
             /\ call'[s].pc = "done" => Answered(call'[s])
  BY <1>1 DEF RetrieverInvariant
<1> QED
  BY <1>1, <1>2 DEF RetrieverInvariant

\* The children in scope are those of parents in scope, and finitely many.
LEMMA ScopeChildren ==
  ASSUME NEW c \in Call, c.built = Sources
  PROVE  /\ IsFiniteSet(ChildrenIn(Scope(c)))
         /\ \A child \in ChildrenIn(Scope(c)) :
              child[1] \in Range(Scope(c)) /\ child[1] \in AllParents
         /\ ChildrenIn(Scope(c)) \in SUBSET (AllParents \X Nat)
<1>1. Scope(c) \in Seq(AllParents)
  BY ScopeIs DEF Call
<1>2. Range(Scope(c)) \subseteq AllParents
  BY <1>1 DEF Range
<1>3. IsFiniteSet(ChildrenIn(Scope(c)))
  BY <1>1, ChildrenFinite
<1>4. ASSUME NEW child \in ChildrenIn(Scope(c))
      PROVE  child[1] \in Range(Scope(c)) /\ child \in AllParents \X Nat
  <2>1. PICK p \in Range(Scope(c)) : child \in {p} \X (1..ChildrenOf[p])
    BY DEF ChildrenIn
  <2> QED
    BY <1>2, <2>1
<1> QED
  BY <1>2, <1>3, <1>4

\* Every step keeps the invariant: a retriever is published only when finished, and a
\* failed one not at all.
LEMMA RetrieverStep ==
  ASSUME RetrieverInvariant, [Next]_vars
  PROVE  RetrieverInvariant'
<1>0. ASSUME NEW t \in Threads
      PROVE  /\ call[t] \in Call
             /\ call[t].pc \in {"query", "done"} => call[t].built = Sources
             /\ call[t].pc = "done" => Answered(call[t])
  BY DEF RetrieverInvariant
<1>1. ASSUME NEW t \in Threads, NEW op \in Ops, NEW state \in States, NEW stopwords \in BOOLEAN,
             GetRetriever(t, op, state, stopwords)
      PROVE  RetrieverInvariant'
  <2> DEFINE c == [Idle EXCEPT !.pc = IF default = None THEN "loading" ELSE "query",
                    !.op = op, !.state = state, !.stopwords = stopwords, !.built = default]
  <2>1. default \in {None, Sources} /\ default \in SUBSET Sources
    BY DEF RetrieverInvariant, None
  <2>2. c \in Call /\ c.pc \in {"loading", "query"} /\ c.built = default
        /\ (c.pc = "query" => default # None)
    BY <2>1, IdleType DEF Call
  <2>3. call' = [call EXCEPT ![t] = c] /\ default' = default
    BY <1>1 DEF GetRetriever
  <2> HIDE DEF c
  <2> QED
    BY <2>1, <2>2, <2>3, ThreadStep
<1>2. ASSUME NEW t \in Threads, NEW d \in Sources, LoadDocument(t, d)
      PROVE  RetrieverInvariant'
  <2> DEFINE c == [call[t] EXCEPT !.built = @ \union {d}]
  <2>1. c \in Call /\ c.pc = "loading"
    BY <1>0, <1>2 DEF LoadDocument, Call
  <2>2. call' = [call EXCEPT ![t] = c] /\ default' = default /\ default \in {None, Sources}
    BY <1>2 DEF LoadDocument, RetrieverInvariant
  <2> HIDE DEF c
  <2> QED
    BY <2>1, <2>2, ThreadStep
<1>3. ASSUME NEW t \in Threads, LoadFails(t) \/ Return(t)
      PROVE  RetrieverInvariant'
  <2>1. call' = [call EXCEPT ![t] = Idle] /\ default' = default /\ default \in {None, Sources}
    BY <1>3 DEF LoadFails, Return, RetrieverInvariant
  <2> QED
    BY <2>1, IdleType, ThreadStep
<1>4. ASSUME NEW t \in Threads, Publish(t)
      PROVE  RetrieverInvariant'
  <2> DEFINE c == [call[t] EXCEPT !.pc = "query"]
  <2>1. c \in Call /\ c.pc = "query" /\ c.built = Sources
    BY <1>0, <1>4 DEF Publish, Call
  <2>2. call' = [call EXCEPT ![t] = c] /\ default' = Sources
    BY <1>4 DEF Publish
  <2> HIDE DEF c
  <2> QED
    BY <2>1, <2>2, ThreadStep
<1>5. ASSUME NEW t \in Threads, RetrievePolicies(t)
      PROVE  RetrieverInvariant'
  <2> DEFINE children == ChildrenIn(Scope(call[t]))
  <2>1. /\ call[t].pc = "query" /\ call[t].op = "retrieve_policies"
        /\ call[t].built = Sources /\ call[t] \in Call
    BY <1>0, <1>5 DEF RetrievePolicies
  <2>2. PICK score \in [children -> IF call[t].stopwords THEN {0} ELSE 0..MaxScore] :
          \E ranking \in Rankings(children, score) :
            call' = [call EXCEPT ![t].pc = "done", ![t].score = score,
                                 ![t].result = ParentsRanked(ranking, score)]
    BY <1>5 DEF RetrievePolicies
  <2>3. PICK ranking \in Rankings(children, score) :
            call' = [call EXCEPT ![t].pc = "done", ![t].score = score,
                                 ![t].result = ParentsRanked(ranking, score)]
    BY <2>2
  <2> DEFINE result == ParentsRanked(ranking, score)
             c == [call[t] EXCEPT !.pc = "done", !.score = score, !.result = result]
  <2>4. /\ IsFiniteSet(children) /\ children \in SUBSET (AllParents \X Nat)
        /\ \A child \in children : child[1] \in AllParents
    BY <2>1, ScopeChildren
  <2>5. score \in [children -> 0..MaxScore]
    <3>1. 0 \in 0..MaxScore
      BY CorpusAssumption
    <3> HIDE DEF children
    <3> QED
      BY <3>1
  <2>6. score \in Scoring
    BY <2>4, <2>5 DEF Scoring
  <2>7. result \in Seq(AllParents)
    <3> HIDE DEF children
    <3>1. PICK n \in Nat : DOMAIN ranking = 1..n /\ \A i \in 1..n : ranking[i] \in children
      BY <2>4, RankingShape
    <3>2. KeptAfter(result, n, ranking, score)
      BY <2>4, <3>1, RankedParents
    <3> QED
      BY <3>2 DEF KeptAfter
  <2>8. call' = [call EXCEPT ![t] = c]
    BY <2>3
  <2> HIDE DEF result
  <2>9. /\ c \in Call /\ c.built = Sources /\ c.pc = "done" /\ c.op = "retrieve_policies"
        /\ c.score = score /\ c.result = result /\ c.state = call[t].state
    BY <2>1, <2>6, <2>7 DEF Call
  <2> HIDE DEF c
  <2>10. Scope(c) = Scope(call[t])
    BY <2>1, <2>9, SameScope
  <2>11. Answered(c)
    BY <2>5, <2>9, <2>10 DEF Answered, result
  <2>12. default' \in {None, Sources}
    BY <1>5 DEF RetrievePolicies, RetrieverInvariant
  <2> QED
    BY <2>8, <2>9, <2>11, <2>12, ThreadStep
<1>6. ASSUME NEW t \in Threads, GetStatePolicies(t)
      PROVE  RetrieverInvariant'
  <2> DEFINE result == Scope(call[t])
             c == [call[t] EXCEPT !.pc = "done", !.result = result]
  <2>1. /\ call[t].pc = "query" /\ call[t].op = "get_state_policies"
        /\ call[t].built = Sources /\ call[t] \in Call
    BY <1>0, <1>6 DEF GetStatePolicies
  <2>2. result \in Seq(AllParents)
    BY <2>1, ScopeIs DEF Call
  <2>3. call' = [call EXCEPT ![t] = c] /\ default' = default /\ default \in {None, Sources}
    BY <1>6 DEF GetStatePolicies, RetrieverInvariant
  <2> HIDE DEF result
  <2>4. /\ c \in Call /\ c.built = Sources /\ c.pc = "done" /\ c.op = "get_state_policies"
        /\ c.result = result /\ c.state = call[t].state
    BY <2>1, <2>2 DEF Call
  <2> HIDE DEF c
  <2>5. Scope(c) = result
    BY <2>1, <2>4, SameScope DEF result
  <2>6. Answered(c)
    BY <2>4, <2>5 DEF Answered
  <2> QED
    BY <2>3, <2>4, <2>6, ThreadStep
<1>7. CASE UNCHANGED vars
  BY <1>7 DEF vars, RetrieverInvariant
<1> QED
  BY <1>1, <1>2, <1>3, <1>4, <1>5, <1>6, <1>7 DEF Next

\* The inductive invariant holds of every reachable state.
THEOREM RetrieverInvariantHolds == Spec => []RetrieverInvariant
<1>1. Init => RetrieverInvariant
  BY IdleType DEF Init, RetrieverInvariant, None
<1>2. RetrieverInvariant /\ [Next]_vars => RetrieverInvariant'
  BY RetrieverStep
<1> QED
  BY <1>1, <1>2, PTL DEF Spec
-----------------------------------------------------------------------------
(* What the invariant says of the answers. *)

\* The types.
LEMMA TypesFollow ==
  ASSUME RetrieverInvariant
  PROVE  TypeOK
<1>1. default \subseteq Sources
  BY DEF RetrieverInvariant, None
<1>2. ASSUME NEW t \in Threads
      PROVE  /\ call[t].pc \in {"idle", "loading", "query", "done"}
             /\ call[t].op \in Ops /\ call[t].state \in States
             /\ call[t].built \subseteq Sources
             /\ Range(call[t].result) \subseteq AllParents
  <2>1. call[t] \in Call
    BY DEF RetrieverInvariant
  <2>2. call[t].result \in Seq(AllParents)
    BY <2>1 DEF Call
  <2>3. Range(call[t].result) \subseteq AllParents
    BY <2>2 DEF Range
  <2> QED
    BY <2>1, <2>3 DEF Call
<1> QED
  BY <1>1, <1>2 DEF TypeOK

\* The answer of retrieve_policies: the ranking it came from, and what the loop kept of it.
LEMMA RankedAnswer ==
  ASSUME RetrieverInvariant, NEW t \in Threads, Ranked(t)
  PROVE  /\ call[t].score \in [ChildrenIn(Scope(call[t])) -> 0..MaxScore]
         /\ \E n \in Nat, ranking \in Rankings(ChildrenIn(Scope(call[t])), call[t].score) :
              /\ DOMAIN ranking = 1..n
              /\ \A i \in 1..n : ranking[i] \in ChildrenIn(Scope(call[t]))
              /\ \A i \in 1..n : \A j \in i..n :
                   call[t].score[ranking[i]] >= call[t].score[ranking[j]]
              /\ \A c \in ChildrenIn(Scope(call[t])) \ Range(ranking), i \in 1..n :
                   call[t].score[ranking[i]] >= call[t].score[c]
              /\ ChildrenIn(Scope(call[t])) # {} => n >= 1
              /\ KeptAfter(call[t].result, n, ranking, call[t].score)
<1> DEFINE children == ChildrenIn(Scope(call[t]))
           score == call[t].score
<1>1. call[t] \in Call /\ call[t].built = Sources /\ Answered(call[t])
  BY DEF RetrieverInvariant, Ranked
<1>2. /\ score \in [children -> 0..MaxScore]
      /\ \E ranking \in Rankings(children, score) : call[t].result = ParentsRanked(ranking, score)
  BY <1>1 DEF Answered, Ranked
<1>3. IsFiniteSet(children) /\ \A child \in children : child[1] \in AllParents
  BY <1>1, ScopeChildren
<1> HIDE DEF children, score
<1>4. PICK ranking \in Rankings(children, score) : call[t].result = ParentsRanked(ranking, score)
  BY <1>2
<1>5. PICK n \in Nat :
        /\ DOMAIN ranking = 1..n
        /\ \A i \in 1..n : ranking[i] \in children
        /\ \A i \in 2..n : score[ranking[i - 1]] >= score[ranking[i]]
        /\ \A c \in children \ Range(ranking), i \in 1..n : score[ranking[i]] >= score[c]
        /\ children # {} => n >= 1
  BY <1>3, RankingShape
<1>6. ASSUME NEW i \in 1..n, NEW j \in i..n
      PROVE  score[ranking[i]] >= score[ranking[j]]
  <2> DEFINE f == [k \in 1..n |-> score[ranking[k]]]
  <2>1. \A k \in 1..n : f[k] \in Nat
    BY <1>2, <1>5
  <2>2. \A k \in 2..n : f[k - 1] >= f[k]
    <3>1. \A k \in 2..n : k \in 1..n /\ k - 1 \in 1..n
      OBVIOUS
    <3> QED
      BY <1>5, <3>1
  <2>3. i \in 1..n /\ j \in 1..n /\ f[i] = score[ranking[i]] /\ f[j] = score[ranking[j]]
    OBVIOUS
  <2> HIDE DEF f
  <2>4. f[i] >= f[j]
    BY <2>1, <2>2, Descending
  <2> QED
    BY <2>3, <2>4
<1>7. KeptAfter(call[t].result, n, ranking, score)
  BY <1>3, <1>4, <1>5, RankedParents
<1> QED
  BY <1>2, <1>5, <1>6, <1>7 DEF children, score

\* The score of a parent's best child is one of its children's, and none of them scores more.
LEMMA BestIs ==
  ASSUME RetrieverInvariant, NEW t \in Threads, Ranked(t), NEW p \in Range(Scope(call[t]))
  PROVE  /\ \E c \in ChildrenIn(Scope(call[t])) : c[1] = p /\ Best(t, p) = call[t].score[c]
         /\ \A c \in ChildrenIn(Scope(call[t])) : c[1] = p => call[t].score[c] <= Best(t, p)
<1> DEFINE children == ChildrenIn(Scope(call[t]))
           score == call[t].score
           own == ChildrenIn(<<p>>)
           scores == {score[c] : c \in own}
<1>1. call[t] \in Call /\ call[t].built = Sources
  BY DEF RetrieverInvariant, Ranked
<1>2. score \in [children -> 0..MaxScore]
  BY RankedAnswer
<1>3. own = {p} \X (1..ChildrenOf[p])
  <2>1. Range(<<p>>) = {p}
    BY DEF Range
  <2> QED
    BY <2>1 DEF ChildrenIn
<1>4. own = {c \in children : c[1] = p}
  <2>1. \A c : c \in children <=> \E q \in Range(Scope(call[t])) : c \in {q} \X (1..ChildrenOf[q])
    BY DEF ChildrenIn
  <2> HIDE DEF children, own
  <2>2. ASSUME NEW c \in own PROVE c \in children /\ c[1] = p
    BY <1>3, <2>1
  <2>3. ASSUME NEW c \in children, c[1] = p PROVE c \in own
    <3>1. PICK q \in Range(Scope(call[t])) : c \in {q} \X (1..ChildrenOf[q])
      BY <2>1
    <3>2. q = p
      BY <2>3, <3>1
    <3> QED
      BY <1>3, <3>1, <3>2
  <2> QED
    BY <2>2, <2>3
<1>5. own # {}
  <2>1. p \in AllParents
    <3>1. Scope(call[t]) \in Seq(AllParents)
      BY <1>1, ScopeIs DEF Call
    <3> QED
      BY <3>1 DEF Range
  <2>2. ChildrenOf[p] \in Nat \ {0}
    BY <2>1, CorpusAssumption
  <2>3. 1 \in 1..ChildrenOf[p]
    BY <2>2
  <2>4. <<p, 1>> \in {p} \X (1..ChildrenOf[p])
    BY <2>3
  <2> QED
    BY <1>3, <2>4
<1> HIDE DEF children, own
<1>6. scores \in SUBSET (0..MaxScore) /\ scores # {}
  BY <1>2, <1>4, <1>5
<1>7. PICK s \in scores : \A other \in scores : other <= s
  BY <1>6, GreatestOf, CorpusAssumption
<1>8. Best(t, p) = CHOOSE x \in scores : \A other \in scores : other <= x
  BY Zenon DEF Best, scores, score, own
<1> HIDE DEF scores
<1>9. Best(t, p) \in scores /\ \A other \in scores : other <= Best(t, p)
  BY <1>7, <1>8
<1> QED
  BY <1>4, <1>9 DEF scores, children, score

\* The answers are within the scope, and get_state_policies returns all of it.
LEMMA WholeScope ==
  ASSUME RetrieverInvariant
  PROVE  WholeScopeOnly
<1> SUFFICES ASSUME NEW t \in Threads, call[t].pc = "done"
             PROVE  LET scope == ParentsOf({call[t].state, "general"} \intersect Sources)
                    IN /\ Range(call[t].result) \subseteq scope
                       /\ IsInjective(call[t].result)
                       /\ call[t].op = "get_state_policies" => Range(call[t].result) = scope
  BY Zenon DEF WholeScopeOnly
<1> DEFINE scope == ParentsOf({call[t].state, "general"} \intersect Sources)
<1>1. call[t] \in Call /\ call[t].built = Sources /\ Answered(call[t])
  BY DEF RetrieverInvariant
<1>2. Range(Scope(call[t])) = scope /\ IsInjective(Scope(call[t]))
  BY <1>1, ScopeIs DEF Call
<1> HIDE DEF scope
<1>3. CASE call[t].op = "get_state_policies"
  <2>1. call[t].result = Scope(call[t])
    BY <1>1, <1>3 DEF Answered
  <2> QED
    BY <1>2, <2>1 DEF scope
<1>4. CASE call[t].op = "retrieve_policies"
  <2>1. PICK n \in Nat, ranking \in Rankings(ChildrenIn(Scope(call[t])), call[t].score) :
              /\ \A i \in 1..n : ranking[i] \in ChildrenIn(Scope(call[t]))
              /\ KeptAfter(call[t].result, n, ranking, call[t].score)
    BY <1>4, RankedAnswer DEF Ranked
  <2>2. ASSUME NEW a \in DOMAIN call[t].result PROVE call[t].result[a] \in scope
    <3>1. PICK j \in 1..n : ranking[j][1] = call[t].result[a]
      BY <2>1 DEF KeptAfter
    <3>2. ranking[j][1] \in Range(Scope(call[t]))
      BY <1>1, <2>1, ScopeChildren
    <3> QED
      BY <1>2, <3>1, <3>2
  <2>3. IsInjective(call[t].result)
    BY <2>1 DEF KeptAfter
  <2>4. Range(call[t].result) \subseteq scope
    BY <2>2 DEF Range
  <2>5. call[t].op # "get_state_policies"
    BY <1>4
  <2> QED
    BY <2>3, <2>4, <2>5 DEF scope
<1> QED
  BY <1>1, <1>3, <1>4 DEF Call, Ops

\* Of two parents in the answer the earlier has a ranked child before every one of the
\* later; the best child of the later is among those or was ranked out by all of them.
LEMMA BestFirst ==
  ASSUME RetrieverInvariant
  PROVE  BestParentsFirst
<1> SUFFICES ASSUME NEW t \in Threads, Ranked(t)
             PROVE  LET result == call[t].result
                    IN /\ \A i, j \in DOMAIN result :
                            i < j => Best(t, result[i]) >= Best(t, result[j])
                       /\ \A p \in Range(Scope(call[t])) \ Range(result), i \in DOMAIN result :
                            Best(t, p) <= Best(t, result[i])
  BY Zenon DEF BestParentsFirst
<1> DEFINE children == ChildrenIn(Scope(call[t]))
           score == call[t].score
           result == call[t].result
<1>1. score \in [children -> 0..MaxScore]
  BY RankedAnswer
<1>2. PICK n \in Nat, ranking \in Rankings(ChildrenIn(Scope(call[t])), call[t].score) :
        /\ DOMAIN ranking = 1..n
        /\ \A i \in 1..n : ranking[i] \in children
        /\ \A i \in 1..n : \A j \in i..n : score[ranking[i]] >= score[ranking[j]]
        /\ \A c \in children \ Range(ranking), i \in 1..n : score[ranking[i]] >= score[c]
        /\ KeptAfter(result, n, ranking, score)
  BY RankedAnswer
<1>3. call[t] \in Call /\ call[t].built = Sources
  BY DEF RetrieverInvariant, Ranked
<1>4. ASSUME NEW c \in children PROVE score[c] \in Nat /\ c[1] \in Range(Scope(call[t]))
  BY <1>1, <1>3, ScopeChildren
<1>5. ASSUME NEW p \in Range(Scope(call[t]))
      PROVE  /\ \E c \in children : c[1] = p /\ Best(t, p) = score[c]
             /\ \A c \in children : c[1] = p => score[c] <= Best(t, p)
  BY <1>5, BestIs
<1> HIDE DEF children, score, result
<1>6. ASSUME NEW a \in DOMAIN result
      PROVE  \E j \in 1..n : /\ Scores(ranking, score, j) /\ ranking[j][1] = result[a]
                             /\ ranking[j] \in children
                             /\ result[a] \in Range(Scope(call[t]))
                             /\ score[ranking[j]] <= Best(t, result[a])
  <2>1. PICK j \in 1..n : Scores(ranking, score, j) /\ ranking[j][1] = result[a]
    BY <1>2 DEF KeptAfter
  <2>2. ranking[j] \in children /\ result[a] \in Range(Scope(call[t]))
    BY <1>2, <1>4, <2>1
  <2> QED
    BY <1>5, <2>1, <2>2
<1>7. ASSUME NEW a \in DOMAIN result, NEW b \in DOMAIN result, a < b
      PROVE  Best(t, result[a]) >= Best(t, result[b])
  <2>1. result[a] \in Range(Scope(call[t])) /\ result[b] \in Range(Scope(call[t]))
    BY <1>6
  <2>2. PICK c \in children : c[1] = result[b] /\ Best(t, result[b]) = score[c]
    BY <1>5, <2>1
  <2>3. PICK d \in children : c[1] = result[b] /\ Best(t, result[a]) = score[d]
    BY <1>5, <2>1, <2>2
  <2>4. Best(t, result[a]) \in Nat /\ Best(t, result[b]) \in Nat
    BY <1>4, <2>2, <2>3
  <2>5. CASE c \in Range(ranking)
    <3>1. PICK j \in 1..n : ranking[j] = c
      BY <1>2, <2>5 DEF Range
    <3>2. Scores(ranking, score, j)
      <4>1. PICK k \in 1..n : /\ Scores(ranking, score, k) /\ ranking[k] \in children
                              /\ score[ranking[k]] <= Best(t, result[b])
        BY <1>6
      <4>2. score[ranking[k]] # 0 /\ score[ranking[k]] \in Nat
        BY <1>4, <4>1 DEF Scores
      <4> QED
        BY <2>2, <2>4, <3>1, <4>1, <4>2 DEF Scores
    <3>3. PICK h \in 1..(j - 1) : ranking[h][1] = result[a]
      BY <1>2, <1>7, <2>2, <3>1, <3>2 DEF KeptAfter
    <3>4. h \in 1..n /\ j \in h..n
      OBVIOUS
    <3>5. score[ranking[h]] >= score[ranking[j]] /\ ranking[h] \in children
      BY <1>2, <3>4
    <3>6. score[ranking[h]] <= Best(t, result[a]) /\ score[ranking[h]] \in Nat
      BY <1>4, <1>5, <2>1, <3>3, <3>5
    <3> QED
      BY <2>2, <2>4, <3>1, <3>5, <3>6
  <2>6. CASE c \notin Range(ranking)
    <3>1. PICK h \in 1..n : ranking[h] \in children /\ score[ranking[h]] <= Best(t, result[a])
      BY <1>6
    <3>2. score[ranking[h]] >= score[c] /\ score[ranking[h]] \in Nat
      BY <1>2, <1>4, <2>6, <3>1
    <3> QED
      BY <2>2, <2>4, <3>1, <3>2
  <2> QED
    BY <2>5, <2>6
<1>8. ASSUME NEW p \in Range(Scope(call[t])), p \notin Range(result), NEW a \in DOMAIN result
      PROVE  Best(t, p) <= Best(t, result[a])
  <2>1. PICK c \in children : c[1] = p /\ Best(t, p) = score[c]
    BY <1>5
  <2>2. PICK h \in 1..n : /\ ranking[h] \in children /\ score[ranking[h]] <= Best(t, result[a])
                          /\ result[a] \in Range(Scope(call[t]))
    BY <1>6
  <2>3. PICK d \in children : Best(t, result[a]) = score[d]
    BY <1>5, <2>2
  <2>4. score[c] \in Nat /\ score[ranking[h]] \in Nat /\ Best(t, result[a]) \in Nat
    BY <1>4, <2>2, <2>3
  <2>5. CASE c \in Range(ranking)
    <3>1. PICK j \in 1..n : ranking[j] = c
      BY <1>2, <2>5 DEF Range
    <3>2. ~Scores(ranking, score, j)
      BY <1>2, <1>8, <2>1, <3>1 DEF KeptAfter
    <3>3. score[c] = 0
      BY <3>1, <3>2 DEF Scores
    <3> QED
      BY <2>1, <2>4, <3>3
  <2>6. CASE c \notin Range(ranking)
    <3>1. score[ranking[h]] >= score[c]
      BY <1>2, <2>6
    <3> QED
      BY <2>1, <2>2, <2>4, <3>1
  <2> QED
    BY <2>5, <2>6
<1> QED
  BY <1>7, <1>8 DEF result

\* Without an answer no ranked child scores, and the others score no more than those.
LEMMA Something ==
  ASSUME RetrieverInvariant
  PROVE  SomethingRetrieved
<1> SUFFICES ASSUME NEW t \in Threads, Ranked(t), call[t].result = <<>>,
                    NEW p \in Range(Scope(call[t]))
             PROVE  Best(t, p) = 0
  BY DEF SomethingRetrieved
<1> DEFINE children == ChildrenIn(Scope(call[t]))
           score == call[t].score
<1>1. score \in [children -> 0..MaxScore]
  BY RankedAnswer
<1>2. PICK n \in Nat, ranking \in Rankings(ChildrenIn(Scope(call[t])), call[t].score) :
        /\ DOMAIN ranking = 1..n
        /\ \A i \in 1..n : ranking[i] \in children
        /\ \A c \in children \ Range(ranking), i \in 1..n : score[ranking[i]] >= score[c]
        /\ children # {} => n >= 1
        /\ KeptAfter(<<>>, n, ranking, score)
  BY RankedAnswer
<1>3. PICK c \in children : Best(t, p) = score[c]
  BY BestIs
<1> HIDE DEF children, score
<1>4. score[c] \in Nat
  BY <1>1
<1>5. ASSUME NEW j \in 1..n PROVE score[ranking[j]] = 0
  <2>1. ~Scores(ranking, score, j)
    BY <1>2 DEF KeptAfter, Range
  <2> QED
    BY <2>1 DEF Scores
<1>6. CASE c \in Range(ranking)
  <2>1. PICK j \in 1..n : ranking[j] = c
    BY <1>2, <1>6 DEF Range
  <2> QED
    BY <1>3, <1>5, <2>1
<1>7. CASE c \notin Range(ranking)
  <2>1. 1 \in 1..n
    BY <1>2
  <2>2. score[ranking[1]] >= score[c] /\ score[ranking[1]] = 0
    BY <1>2, <1>5, <1>7, <2>1
  <2> QED
    BY <1>3, <1>4, <2>2
<1> QED
  BY <1>6, <1>7

\* Type correctness.
THEOREM TypeCorrect == Spec => []TypeOK
<1>1. RetrieverInvariant => TypeOK
  BY TypesFollow
<1> QED
  BY <1>1, RetrieverInvariantHolds, PTL

\* No call ever returns a clause of another state's document, or less than the whole scope
\* from get_state_policies, however many threads build the default retriever at once and
\* whichever of them fail.
THEOREM AlwaysWholeScopeOnly == Spec => []WholeScopeOnly
<1>1. RetrieverInvariant => WholeScopeOnly
  BY WholeScope
<1> QED
  BY <1>1, RetrieverInvariantHolds, PTL

\* retrieve_policies returns the parents in the order of their best children, and leaves
\* none out for one that matches less well, for every corpus, every k and all scores.
THEOREM BestParentsAlwaysFirst == Spec => []BestParentsFirst
<1>1. RetrieverInvariant => BestParentsFirst
  BY BestFirst
<1> QED
  BY <1>1, RetrieverInvariantHolds, PTL

\* retrieve_policies returns a parent whenever a child of one in scope scores at all.
THEOREM AlwaysSomethingRetrieved == Spec => []SomethingRetrieved
<1>1. RetrieverInvariant => SomethingRetrieved
  BY Something
<1> QED
  BY <1>1, RetrieverInvariantHolds, PTL
===============================================================================
