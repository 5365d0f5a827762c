-------------------------- MODULE PolicyChunks_proofs --------------------------
(***************************************************************************)
(* Theorems about PolicyChunks, for sections of any length and for all     *)
(* values of the four constants that are in the code's order: what         *)
(* _split_into_parents and _split_into_children (src/app/rag/retriever.py) *)
(* keep of a section.                                                      *)
(***************************************************************************)
EXTENDS PolicyChunks, WellFoundedInduction, TLAPS

\* Every set of naturals with a member has a smallest one ...
LEMMA SmallestOf ==
  ASSUME NEW S \in SUBSET Nat, S # {}
  PROVE  \E x \in S : \A y \in S : x <= y
<1> DEFINE less == OpToRel(<, Nat)
<1>1. IsWellFoundedOn(less, Nat)
  BY NatLessThanWellFounded
<1>2. \A x, y \in Nat : x < y => <<x, y>> \in less
  BY DEF OpToRel
<1> HIDE DEF less
<1>3. PICK x \in S : \A y \in S : ~(<<y, x>> \in less)
  BY <1>1, WFMin
<1>4. ASSUME NEW y \in S PROVE x <= y
  <2>1. ~(y < x)
    BY <1>2, <1>3
  <2> QED
    BY <2>1, x \in Nat, y \in Nat
<1> QED
  BY <1>4

\* ... and every bounded one a greatest one.
LEMMA GreatestOf ==
  ASSUME NEW n \in Nat, NEW S \in SUBSET (0..n), S # {}
  PROVE  \E x \in S : \A y \in S : y <= x
<1> DEFINE distances == {n - i : i \in S}
<1>1. distances \in SUBSET Nat /\ distances # {}
  <2>1. ASSUME NEW i \in S PROVE n - i \in Nat
    <3>1. i \in 0..n
      OBVIOUS
    <3> QED
      BY <3>1
  <2> QED
    BY <2>1
<1>2. PICK d \in distances : \A e \in distances : d <= e
  BY <1>1, SmallestOf
<1>3. PICK x \in S : d = n - x
  OBVIOUS
<1>4. ASSUME NEW y \in S PROVE y <= x
  <2>1. x \in 0..n /\ y \in 0..n
    OBVIOUS
  <2>2. n - x <= n - y
    BY <1>2, <1>3
  <2> QED
    BY <2>1, <2>2
<1> QED
  BY <1>4

-----------------------------------------------------------------------------
(* range(0, n, step): the positions a step apart. *)

\* The position a step after one of them is one of them ...
LEMMA NextMultiple ==
  ASSUME NEW n \in Nat \ {0}, NEW a \in Nat, a % n = 0
  PROVE  (a + n) % n = 0
<1>1. PICK k \in Nat : a = n * k
  OBVIOUS
<1>2. a + n = n * (k + 1)
  BY <1>1
<1>3. PICK q \in Nat, r \in 0..(n-1) : a + n = n * q + r /\ r = (a + n) % n
  OBVIOUS
<1>4. r = n * ((k + 1) - q)
  BY <1>2, <1>3
<1>5. ASSUME NEW d \in Int, r = n * d PROVE r = 0
  <2>1. CASE d >= 1
    <3>1. n * d >= n
      BY <2>1
    <3> QED BY <3>1, <1>5
  <2>2. CASE d <= -1
    <3>1. n * d <= -n
      BY <2>2
    <3> QED BY <3>1, <1>5
  <2>3. CASE d = 0
    BY <2>3, <1>5
  <2> QED BY <2>1, <2>2, <2>3
<1> QED BY <1>3, <1>4, <1>5

\* ... and two of them are at least a step apart.
LEMMA MultiplesApart ==
  ASSUME NEW n \in Nat \ {0}, NEW a \in Nat, NEW b \in Nat, a % n = 0, b % n = 0, a < b
  PROVE  a + n <= b
<1>1. PICK j \in Nat, k \in Nat : a = n * j /\ b = n * k
  OBVIOUS
<1>2. j < k
  BY <1>1
<1>3. n * (j + 1) <= n * k
  BY <1>2
<1> QED
  BY <1>1, <1>3

\* The first of them.
LEMMA ZeroMultiple ==
  ASSUME NEW n \in Nat \ {0}
  PROVE  0 % n = 0
  OBVIOUS

-----------------------------------------------------------------------------

\* The characters of a section, and whether it has a heading.
TypeOK == section \in Seq(BOOLEAN) /\ headed \in BOOLEAN

\* str.strip keeps every visible character and what is between two of them: the smallest
\* and the greatest visible position exist.
LEMMA StripKeeps ==
  ASSUME NEW first \in Nat, NEW last \in Int, NEW visible \in first..last, section[visible]
  PROVE  /\ Strip(first, last).first \in first..visible
         /\ Strip(first, last).last \in visible..last
<1> DEFINE text == {i \in first..last : section[i]}
<1>1. text \in SUBSET Nat /\ text \in SUBSET (0..last) /\ visible \in text /\ last \in Nat
  <2>1. \A i \in text : i \in first..last
    OBVIOUS
  <2> QED
    BY <2>1
<1>2. PICK l \in text : \A i \in text : l <= i
  BY <1>1, SmallestOf
<1>3. PICK g \in text : \A i \in text : i <= g
  BY <1>1, GreatestOf
<1>4. text # {} /\ Min(text) \in text /\ Max(text) \in text
  BY <1>1, <1>2, <1>3 DEF Min, Max
<1>5. Min(text) <= visible /\ visible <= Max(text)
  <2>1. \E x \in text : \A i \in text : x <= i
    BY <1>2
  <2>2. \A i \in text : Min(text) <= i
    BY <2>1 DEF Min
  <2>3. \E x \in text : \A i \in text : x >= i
    BY <1>1, <1>3
  <2>4. \A i \in text : Max(text) >= i
    BY <2>3 DEF Max
  <2> QED
    BY <1>1, <1>4, <2>2, <2>4
<1>6. Strip(first, last) = [first |-> Min(text), last |-> Max(text)]
  BY <1>4 DEF Strip
<1> HIDE DEF text
<1>7. Min(text) \in first..last /\ Max(text) \in first..last
  BY <1>4 DEF text
<1> QED
  BY <1>5, <1>6, <1>7

\* What it leaves is an interval of positions, an empty one if all are blank.
LEMMA StripType ==
  ASSUME NEW first \in Nat, NEW last \in Int
  PROVE  /\ Strip(first, last).first \in Nat
         /\ Strip(first, last).last \in Int
<1>1. CASE \E i \in first..last : section[i]
  <2>1. PICK i \in first..last : section[i]
    BY <1>1
  <2>2. Strip(first, last).first \in first..i /\ Strip(first, last).last \in i..last
    BY <2>1, StripKeeps
  <2> QED
    BY <2>2
<1>2. CASE ~ \E i \in first..last : section[i]
  <2>1. Strip(first, last) = [first |-> first, last |-> first - 1]
    BY <1>2 DEF Strip
  <2> QED
    BY <2>1
<1> QED
  BY <1>1, <1>2

\* A parent is an interval of positions.
LEMMA ParentType ==
  ASSUME TypeOK, NEW p \in Parents
  PROVE  p.first \in Nat /\ p.last \in Int
<1> DEFINE whole == Strip(1, Len(section))
<1>1. whole.first \in Nat /\ whole.last \in Int
  BY StripType DEF TypeOK
<1>2. PICK s \in whole.first..whole.last :
        p = Strip(s, Smaller(s + ParentMaxChars - 1, whole.last))
  BY Zenon DEF Parents
<1> HIDE DEF whole
<1>3. s \in Nat /\ Smaller(s + ParentMaxChars - 1, whole.last) \in Int
  BY <1>1, ChunkAssumption DEF Smaller
<1> QED
  BY <1>2, <1>3, StripType

\* The last window that starts no later than a phrase holds it: the next window starts
\* after the phrase does, or there is none because this one reaches the parent's end.
LEMMA PhrasesWhole ==
  ASSUME TypeOK
  PROVE  PhrasesKeptWhole
<1> SUFFICES ASSUME NEW p \in Parents, NEW first \in p.first..p.last,
                    NEW last \in first..Smaller(first + ChildWindowChars - ChildStrideChars, p.last)
             PROVE  \E c \in Children(p) : c.first <= first /\ last <= c.last
  BY DEF PhrasesKeptWhole
<1>ends. PICK f \in Nat, l \in Int : f = p.first /\ l = p.last
  BY ParentType
<1>0. /\ f \in Nat /\ l \in Int
      /\ ChildStrideChars \in Nat \ {0} /\ ChildWindowChars \in Nat \ {0}
      /\ ChildStrideChars < ChildWindowChars
  BY ParentType, ChunkAssumption
<1>1. /\ first \in Int /\ f <= first /\ first <= l
      /\ last \in Int /\ last <= first + ChildWindowChars - ChildStrideChars /\ last <= l
  BY <1>0, <1>ends DEF Smaller
<1> DEFINE IsStart(x) == /\ x % ChildStrideChars = 0
                         /\ x = 0 \/ f + x - ChildStrideChars + ChildWindowChars <= l
           window(x) == [first |-> f + x, last |-> Smaller(f + x + ChildWindowChars - 1, l)]
           S == {x \in 0..(first - f) : IsStart(x)}
<1>2. ASSUME NEW x \in 0..(l - f), IsStart(x) PROVE window(x) \in Children(p)
  <2> DEFINE s == f + x
  <2>1. s \in f..l /\ s - f = x
    BY <1>0
  <2>2. s = f \/ s - ChildStrideChars + ChildWindowChars <= l
    BY <1>0, <1>2
  <2> HIDE DEF s
  <2>3. [first |-> s, last |-> Smaller(s + ChildWindowChars - 1, l)] \in Children(p)
    BY <1>2, <1>ends, <2>1, <2>2 DEF Children
  <2> QED
    BY <2>3 DEF s
<1>3. PICK d \in S : \A e \in S : e <= d
  <2>1. IsStart(0)
    BY <1>0, ZeroMultiple
  <2>2. 0 \in S
    BY <1>0, <1>1, <2>1
  <2>3. first - f \in Nat
    BY <1>0, <1>1
  <2>4. S \in SUBSET (0..(first - f))
    OBVIOUS
  <2> HIDE DEF S
  <2> QED
    BY <2>2, <2>3, <2>4, GreatestOf
<1> DEFINE t == f + d
<1>4. d \in 0..(first - f) /\ IsStart(d) /\ d % ChildStrideChars = 0
  OBVIOUS
<1>5. d \in 0..(l - f) /\ t \in f..l /\ t <= first
  BY <1>0, <1>1, <1>4
<1>6. window(d) \in Children(p)
  BY <1>2, <1>4, <1>5
<1>7. last <= Smaller(t + ChildWindowChars - 1, l)
  <2>1. CASE d + ChildStrideChars > first - f
    BY <1>0, <1>1, <1>5, <2>1 DEF Smaller
  <2>2. CASE d + ChildStrideChars <= first - f
    <3>1. (d + ChildStrideChars) % ChildStrideChars = 0
      BY <1>0, <1>4, NextMultiple
    <3>2. d + ChildStrideChars \in 0..(first - f)
      BY <1>0, <1>1, <1>4, <2>2
    <3>3. d + ChildStrideChars \notin S
      BY <1>0, <1>3, <1>4
    <3>4. ~IsStart(d + ChildStrideChars)
      BY <3>2, <3>3
    <3>6. ~(f + (d + ChildStrideChars) - ChildStrideChars + ChildWindowChars <= l)
      BY <3>1, <3>4
    <3> QED
      BY <1>0, <1>1, <1>4, <1>5, <3>6 DEF Smaller
  <2> QED
    BY <1>0, <1>1, <1>4, <2>1, <2>2
<1> QED
  BY <1>5, <1>6, <1>7

\* Of two windows the later one ends later: it is there only because the one before it
\* stops short of the parent's end.
LEMMA WindowsApart ==
  ASSUME TypeOK
  PROVE  NoWindowWithinAnother
<1> SUFFICES ASSUME NEW p \in Parents, NEW c \in Children(p), NEW d \in Children(p),
                    c.first <= d.first, d.last <= c.last
             PROVE  c = d
  BY DEF NoWindowWithinAnother
<1>0. /\ p.first \in Nat /\ p.last \in Int
      /\ ChildStrideChars \in Nat \ {0} /\ ChildWindowChars \in Nat \ {0}
      /\ ChildStrideChars < ChildWindowChars
  BY ParentType, ChunkAssumption
<1> DEFINE IsStart(s) == /\ (s - p.first) % ChildStrideChars = 0
                         /\ s = p.first \/ s - ChildStrideChars + ChildWindowChars <= p.last
           window(s) == [first |-> s, last |-> Smaller(s + ChildWindowChars - 1, p.last)]
<1>1. PICK s \in p.first..p.last : IsStart(s) /\ c = window(s)
  BY DEF Children
<1>2. PICK t \in p.first..p.last : IsStart(t) /\ d = window(t)
  BY DEF Children
<1>3. /\ c.first = s /\ c.last = Smaller(s + ChildWindowChars - 1, p.last)
      /\ d.first = t /\ d.last = Smaller(t + ChildWindowChars - 1, p.last)
  BY <1>1, <1>2
<1>4. s \in Int /\ t \in Int /\ p.first <= s /\ s <= t /\ t <= p.last
  BY <1>0, <1>3
<1>5. ~(s < t)
  <2> SUFFICES ASSUME s < t PROVE FALSE
    OBVIOUS
  <2>1. s - p.first \in Nat /\ t - p.first \in Nat /\ s - p.first < t - p.first
    BY <1>0, <1>4
  <2>2. s - p.first + ChildStrideChars <= t - p.first
    BY <1>0, <1>1, <1>2, <2>1, MultiplesApart
  <2>3. t - ChildStrideChars + ChildWindowChars <= p.last
    BY <1>0, <1>2, <1>4
  <2> QED
    BY <1>0, <1>3, <1>4, <2>2, <2>3 DEF Smaller
<1>6. s = t
  BY <1>4, <1>5
<1> QED
  BY <1>1, <1>2, <1>6

\* The last multiple of a step that is no greater than a number.
LEMMA LastMultiple ==
  ASSUME NEW n \in Nat \ {0}, NEW m \in Nat
  PROVE  \E d \in 0..m : d % n = 0 /\ m < d + n
<1> DEFINE S == {e \in 0..m : e % n = 0}
<1>1. S \in SUBSET (0..m) /\ S # {}
  BY ZeroMultiple
<1>2. PICK d \in S : \A e \in S : e <= d
  BY <1>1, GreatestOf
<1>3. d \in 0..m /\ d % n = 0
  OBVIOUS
<1>4. ASSUME d + n <= m PROVE FALSE
  <2>0. (d + n) % n = 0
    <3>1. d \in Nat
      BY <1>3
    <3> QED
      BY <1>3, <3>1, NextMultiple
  <2>1. (d + n) % n = 0 /\ d + n \in 0..m
    BY <1>3, <1>4, <2>0
  <2>2. d + n <= d
    BY <1>2, <2>1
  <2> QED
    BY <1>3, <2>2
<1> QED
  BY <1>3, <1>4

\* A visible character that is in no parent is in a chunk too short to be one; and
\* without gaps that chunk is the last.
LEMMA ScrapsOnly ==
  ASSUME TypeOK
  PROVE  OnlyScrapsDropped
<1> SUFFICES ASSUME headed, NoGaps, NEW i \in Dropped, NEW j \in DOMAIN section, section[j]
             PROVE  j - i + 1 < MinParentChars
  BY DEF OnlyScrapsDropped
<1> DEFINE n == Len(section)
           whole == Strip(1, n)
<1>0. /\ n \in Nat /\ DOMAIN section = 1..n
      /\ MinParentChars \in Nat \ {0} /\ ParentMaxChars \in Nat \ {0}
      /\ MinParentChars < ParentMaxChars
  BY ChunkAssumption DEF TypeOK
<1>1. /\ i \in 1..n /\ section[i] /\ j \in 1..n
      /\ \A p \in Parents : i \notin p.first..p.last
  BY <1>0 DEF Dropped
<1>2. whole.first \in 1..i /\ whole.last \in i..n /\ whole.last \in j..n
  <2> HIDE DEF n
  <2>1. 1 \in Nat /\ n \in Int
    BY <1>0
  <2>2. whole.first \in 1..i /\ whole.last \in i..n
    BY <1>1, <2>1, StripKeeps
  <2>3. whole.last \in j..n
    BY <1>1, <2>1, StripKeeps
  <2> QED
    BY <2>2, <2>3
<1>3. Parents = {p \in {Strip(t, Smaller(t + ParentMaxChars - 1, whole.last)) :
                          t \in {u \in whole.first..whole.last : (u - whole.first) % ParentMaxChars = 0}} :
                   headed /\ Length(p) >= MinParentChars}
  BY Zenon DEF Parents
<1> HIDE DEF whole
<1>ends. PICK f \in Nat, l \in Nat : f = whole.first /\ l = whole.last
  BY <1>0, <1>1, <1>2
<1>4. f \in 1..i /\ l \in i..n /\ j <= l
  BY <1>0, <1>1, <1>2, <1>ends
<1>5. PICK d \in 0..(i - f) : d % ParentMaxChars = 0 /\ i - f < d + ParentMaxChars
  <2>1. i - f \in Nat
    BY <1>0, <1>1, <1>4
  <2> QED
    BY <1>0, <2>1, LastMultiple
<1> DEFINE t == f + d
           cut == Smaller(t + ParentMaxChars - 1, l)
           chunk == Strip(t, cut)
<1>6. /\ t \in Nat /\ t <= i /\ i <= cut /\ t \in f..l /\ t - f = d
      /\ cut \in Nat /\ cut <= l /\ cut <= t + ParentMaxChars - 1
      /\ cut < l => cut = t + ParentMaxChars - 1
  BY <1>0, <1>1, <1>4, <1>5 DEF Smaller
<1>7. chunk.first \in t..i /\ chunk.last \in i..cut
  <2>1. i \in t..cut /\ t \in Nat /\ cut \in Int
    BY <1>1, <1>6
  <2> HIDE DEF t, cut
  <2> QED
    BY <1>1, <2>1, StripKeeps
<1>8. Length(chunk) < MinParentChars
  <2>1. ASSUME Length(chunk) >= MinParentChars PROVE FALSE
    <3>1. chunk \in Parents
      BY <1>3, <1>5, <1>6, <1>ends, <2>1
    <3>2. i \in chunk.first..chunk.last
      <4> HIDE DEF chunk
      <4> QED
        BY <1>1, <1>6, <1>7
    <3> QED
      BY <1>1, <3>1, <3>2
  <2>2. Length(chunk) \in Int
    <3> HIDE DEF chunk, t, cut
    <3> QED
      BY <1>6, <1>7 DEF Length
  <2> QED
    BY <1>0, <2>1, <2>2
<1>9. ASSUME NEW k \in t..cut, section[k] PROVE chunk.first <= k /\ k <= chunk.last
  <2> HIDE DEF t, cut
  <2>1. chunk.first \in t..k /\ chunk.last \in k..cut
    BY <1>6, <1>9, StripKeeps
  <2> QED
    BY <2>1
<1> HIDE DEF chunk
<1>10. CASE cut < l
  \* Then the chunk is a whole one with a gap on one side of its text.
  <2> DEFINE gap == (ParentMaxChars - MinParentChars) \div 2
  <2>1. /\ gap \in Nat
        /\ \/ t + gap < chunk.first
           \/ chunk.last < cut - gap /\ t <= cut - gap
    <3>1. gap \in Nat /\ 2 * gap <= ParentMaxChars - MinParentChars
      BY <1>0
    <3> HIDE DEF gap
    <3>2. /\ t \in Nat /\ cut \in Nat /\ cut = t + ParentMaxChars - 1
          /\ chunk.first \in Nat /\ chunk.last \in Nat
      <4>1. t \in Nat /\ i \in Nat /\ cut \in Nat
        BY <1>1, <1>6
      <4>2. cut = t + ParentMaxChars - 1
        BY <1>6, <1>10
      <4> HIDE DEF t, cut
      <4> QED
        BY <1>7, <4>1, <4>2
    <3> HIDE DEF t, cut
    <3>3. chunk.last - chunk.first + 1 < MinParentChars
      BY <1>8 DEF Length
    <3>4. t <= cut - gap
      BY <1>0, <3>1, <3>2
    <3>5. ASSUME chunk.first <= t + gap, cut - gap <= chunk.last PROVE FALSE
      <4>1. chunk.last - chunk.first + 1 >= ParentMaxChars - 2 * gap
        BY <1>0, <3>1, <3>2, <3>5
      <4> QED
        BY <1>0, <3>1, <3>2, <3>3, <4>1
    <3> QED
      BY <3>1, <3>2, <3>4, <3>5
  <2>2. \A s \in 1..n : s + gap \in 1..n => \E k \in s..(s + gap) : section[k]
    <3>1. ASSUME NEW s \in 1..n, s + gap \in 1..n
          PROVE  \E k \in s..(s + gap) : section[k]
      <4>1. s..(s + gap) \subseteq 1..n
        BY <1>0, <3>1
      <4> QED
        BY <1>0, <3>1, <4>1 DEF NoGaps
    <3> QED
      BY <3>1
  <2> HIDE DEF gap
  <2>3. CASE t + gap < chunk.first
    <3>1. t \in 1..n /\ t + gap \in 1..n /\ t + gap <= cut
      BY <1>0, <1>1, <1>4, <1>6, <1>7, <2>1, <2>3
    <3>2. PICK k \in t..(t + gap) : section[k]
      BY <2>2, <3>1
    <3>3. k \in t..cut
      <4> HIDE DEF t, cut
      <4> QED
        BY <1>6, <2>1, <3>1, <3>2
    <3>4. chunk.first <= k
      BY <1>9, <3>2, <3>3
    <3> HIDE DEF t, cut
    <3> QED
      BY <1>6, <1>7, <2>1, <2>3, <3>2, <3>3, <3>4
  <2>4. CASE chunk.last < cut - gap /\ t <= cut - gap
    <3>1. cut - gap \in 1..n /\ (cut - gap) + gap \in 1..n /\ (cut - gap) + gap = cut
      BY <1>0, <1>1, <1>4, <1>6, <2>1, <2>4
    <3>2. PICK k \in (cut - gap)..cut : section[k]
      BY <2>2, <3>1
    <3> QED
      BY <1>6, <1>7, <1>9, <2>1, <2>4, <3>1, <3>2
  <2> QED
    BY <2>1, <2>3, <2>4
<1>11. CASE cut = l
  <2>1. CASE j < i
    BY <1>0, <1>1, <2>1
  <2>2. CASE i <= j
    <3>1. j \in t..cut
      BY <1>1, <1>4, <1>6, <1>11, <2>2
    <3>2. j <= chunk.last
      BY <1>9, <3>1
    <3> QED
      BY <1>0, <1>1, <1>6, <1>7, <1>8, <3>2 DEF Length
  <2> QED
    BY <1>1, <2>1, <2>2
<1> QED
  BY <1>6, <1>10, <1>11

-----------------------------------------------------------------------------

\* Type correctness.
THEOREM TypeCorrect == Spec => []TypeOK
<1>1. Init => TypeOK
  BY DEF Init, TypeOK
<1>2. TypeOK /\ [Next]_vars => TypeOK'
  BY DEF Next, Write, TypeOK, vars
<1> QED
  BY <1>1, <1>2, PTL DEF Spec

\* Every phrase of a parent that is no longer than the overlap of the windows and one is
\* inside one child, for every section, window and stride.
THEOREM PhrasesAlwaysKeptWhole == Spec => []PhrasesKeptWhole
<1>1. TypeOK => PhrasesKeptWhole
  BY PhrasesWhole
<1> QED
  BY <1>1, TypeCorrect, PTL

\* _split_into_children never repeats text that another of its windows has in full.
THEOREM NeverAWindowWithinAnother == Spec => []NoWindowWithinAnother
<1>1. TypeOK => NoWindowWithinAnother
  BY WindowsApart
<1> QED
  BY <1>1, TypeCorrect, PTL

\* Of a section with a heading _split_into_parents drops nothing but a remainder shorter
\* than _MIN_PARENT_CHARS, if no gap in the text is half a parent long.
THEOREM OnlyScrapsEverDropped == Spec => []OnlyScrapsDropped
<1>1. TypeOK => OnlyScrapsDropped
  BY ScrapsOnly
<1> QED
  BY <1>1, TypeCorrect, PTL
===============================================================================
