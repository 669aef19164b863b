--------------------------- MODULE AgentIndexProofs ---------------------------
(* Proofs about AgentIndex for any sessions, files, alterations, rows of the *)
(* detector, limits of pages and bounds.                                     *)
EXTENDS AgentIndex, FiniteSetTheorems, SequenceTheorems, WellFoundedInduction, TLAPS

-----------------------------------------------------------------------------
(* What Ordered makes of a finite set and a strict order R of it: the        *)
(* element that r - 1 others come before is at place r.                      *)
Rank(S, R, x) == Cardinality({y \in S : <<y, x>> \in R})

IsOrder(S, R) ==
  /\ \A x \in S : <<x, x>> \notin R
  /\ \A x, y, z \in S : <<x, y>> \in R /\ <<y, z>> \in R => <<x, z>> \in R
  /\ \A x, y \in S : x = y \/ <<x, y>> \in R \/ <<y, x>> \in R

(* The ranks are the numbers from 0 up, and grow with the order.             *)
LEMMA RanksGrow ==
  ASSUME NEW S, IsFiniteSet(S), NEW R, IsOrder(S, R)
  PROVE  /\ \A x \in S : Rank(S, R, x) \in 0 .. Cardinality(S) - 1
         /\ \A x, y \in S : <<x, y>> \in R => Rank(S, R, x) < Rank(S, R, y)
<1> DEFINE Below(x) == {y \in S : <<y, x>> \in R}
<1>1. \A x \in S : IsFiniteSet(Below(x)) /\ Cardinality(Below(x)) \in Nat
  BY FS_Subset, FS_CardinalityType
<1>2. Cardinality(S) \in Nat
  BY FS_CardinalityType
<1>3. ASSUME NEW x \in S PROVE Cardinality(Below(x)) < Cardinality(S)
  <2>1. Below(x) \in SUBSET S /\ Below(x) # S
    BY DEF IsOrder
  <2> HIDE DEF Below
  <2> QED
    BY <1>1, <1>2, <2>1, FS_Subset
<1>4. ASSUME NEW x \in S, NEW y \in S, <<x, y>> \in R
      PROVE  Cardinality(Below(x)) < Cardinality(Below(y))
  <2>1. Below(x) \in SUBSET Below(y) /\ x \in Below(y) /\ x \notin Below(x)
    BY <1>4 DEF IsOrder
  <2> HIDE DEF Below
  <2> QED
    BY <1>1, <2>1, FS_Subset
<1>5. \A x \in S : Rank(S, R, x) = Cardinality(Below(x))
  BY DEF Rank
<1> HIDE DEF Below
<1> QED
  BY <1>1, <1>2, <1>3, <1>4, <1>5

(* There is an element of each rank.                                         *)
LEMMA RanksAreTaken ==
  ASSUME NEW S, IsFiniteSet(S), NEW R, IsOrder(S, R)
  PROVE  /\ \A i \in 1 .. Cardinality(S) : \E x \in S : Rank(S, R, x) = i - 1
         /\ \A x, y \in S : Rank(S, R, x) = Rank(S, R, y) => x = y
<1> DEFINE n == Cardinality(S)
           rank == [x \in S |-> Rank(S, R, x)]
<1>1. n \in Nat
  BY FS_CardinalityType
<1>2. \A x \in S : rank[x] = Rank(S, R, x)
  OBVIOUS
<1>3. rank \in [S -> 0 .. n - 1]
  BY RanksGrow
<1> HIDE DEF rank
<1>4. ASSUME NEW x \in S, NEW y \in S, rank[x] = rank[y] PROVE x = y
  <2>1. rank[x] \in Int /\ rank[y] \in Int
    BY <1>1, <1>3
  <2>2. <<x, y>> \notin R /\ <<y, x>> \notin R
    BY <1>2, <1>4, <2>1, RanksGrow
  <2> QED
    BY <2>2 DEF IsOrder
<1>5. rank \in Injection(S, 0 .. n - 1)
  BY <1>3, <1>4 DEF Injection, IsInjective
<1>6. IsFiniteSet(0 .. n - 1) /\ Cardinality(0 .. n - 1) = n
  BY SMTT(30), <1>1, FS_Interval
<1>7. rank \in Surjection(S, 0 .. n - 1)
  BY <1>5, <1>6, FS_Injection
<1>8. \A r \in 0 .. n - 1 : \E x \in S : rank[x] = r
  BY <1>7 DEF Surjection
<1>9. \A i \in 1 .. n : i - 1 \in 0 .. n - 1
  BY <1>1
<1> QED
  BY <1>2, <1>4, <1>8, <1>9

(* A sequence that has at each place the element of that rank has each       *)
(* element, and has them in order.                                           *)
LEMMA RankedIsSorted ==
  ASSUME NEW S, IsFiniteSet(S), NEW R, IsOrder(S, R), NEW q,
         q = [i \in 1 .. Cardinality(S) |-> q[i]],
         \A i \in 1 .. Cardinality(S) : q[i] \in S /\ Rank(S, R, q[i]) = i - 1
  PROVE  /\ q \in Seq(S) /\ Len(q) = Cardinality(S) /\ Range(q) = S
         /\ \A i, j \in DOMAIN q : i < j => <<q[i], q[j]>> \in R
<1> DEFINE n == Cardinality(S)
<1>1. n \in Nat
  BY FS_CardinalityType
<1>2. q \in [1 .. n -> S]
  OBVIOUS
<1>3. q \in Seq(S) /\ Len(q) = n /\ DOMAIN q = 1 .. n
  BY <1>1, <1>2
<1>4. ASSUME NEW x \in S PROVE \E i \in 1 .. n : q[i] = x
  <2> DEFINE r == Rank(S, R, x)
  <2>1. r \in 0 .. n - 1
    BY RanksGrow
  <2>2. r + 1 \in 1 .. n /\ (r + 1) - 1 = r
    BY <1>1, <2>1
  <2> HIDE DEF r
  <2>3. q[r + 1] \in S /\ Rank(S, R, q[r + 1]) = r
    BY <2>2
  <2> QED
    BY <2>2, <2>3, RanksAreTaken DEF r
<1>5. ASSUME NEW i \in 1 .. n, NEW j \in 1 .. n, i < j PROVE <<q[i], q[j]>> \in R
  <2>1. i \in Int /\ j \in Int /\ ~(j - 1 < i - 1) /\ i - 1 # j - 1
    BY <1>1, <1>5
  <2>2. Rank(S, R, q[i]) = i - 1 /\ Rank(S, R, q[j]) = j - 1 /\ q[i] \in S /\ q[j] \in S
    OBVIOUS
  <2>3. q[i] # q[j]
    BY <2>1, <2>2
  <2>4. <<q[j], q[i]>> \notin R
    BY <2>1, <2>2, RanksGrow
  <2> QED
    BY <2>2, <2>3, <2>4 DEF IsOrder
<1> QED
  BY <1>2, <1>3, <1>4, <1>5 DEF Range

(* The sessions in their order.                                              *)
LEMMA NumbersInOrder ==
  ASSUME NEW S, S \subseteq Int, IsFiniteSet(S)
  PROVE  Numbers(S) \in Seq(S) /\ Range(Numbers(S)) = S /\ Len(Numbers(S)) = Cardinality(S)
<1>0. PICK R : R = {p \in S \X S : p[1] < p[2]}
  OBVIOUS
<1>1. IsOrder(S, R)
  BY <1>0 DEF IsOrder
<1>2. \A x \in S : Cardinality({y \in S : y < x}) = Rank(S, R, x)
  <2>1. \A x \in S : {y \in S : y < x} = {y \in S : <<y, x>> \in R}
    BY <1>0
  <2> QED
    BY <2>1 DEF Rank
<1>3. \A i \in 1 .. Cardinality(S) :
        Numbers(S)[i] \in S /\ Rank(S, R, Numbers(S)[i]) = i - 1
  <2> TAKE i \in 1 .. Cardinality(S)
  <2>1. \E x \in S : Cardinality({y \in S : y < x}) = i - 1
    <3>1. PICK x \in S : Rank(S, R, x) = i - 1
      BY ONLY <1>1, IsFiniteSet(S), i \in 1 .. Cardinality(S), RanksAreTaken
    <3> QED
      BY <1>2, <3>1
  <2>2. Numbers(S)[i] = CHOOSE x \in S : Cardinality({y \in S : y < x}) = i - 1
    BY DEF Numbers, Ordered
  <2> QED
    BY <1>2, <2>1, <2>2
<1>4. Numbers(S) = [i \in 1 .. Cardinality(S) |-> Numbers(S)[i]]
  BY ONLY SMTT(30) DEF Numbers, Ordered
<1> QED
  BY <1>1, <1>3, <1>4, RankedIsSorted

-----------------------------------------------------------------------------
(* Keys are pairs of integers, in the order of the first and then of the     *)
(* second.                                                                   *)
Key == Int \X Int

LEMMA FirstOfSeq ==
  ASSUME NEW S, NEW q \in Seq(S), Len(q) = 2
  PROVE  SubSeq(q, 1, 1) = <<q[1]>>
<1> DEFINE one == SubSeq(q, 1, 1)
           first == <<q[1]>>
<1>1. one \in Seq(S) /\ Len(one) = 1 /\ one[1] = q[1]
  OBVIOUS
<1>2. first \in Seq(S) /\ Len(first) = 1 /\ first[1] = q[1]
  OBVIOUS
<1> HIDE DEF one, first
<1>3. \A i \in 1 .. Len(one) : one[i] = first[i]
  BY <1>1, <1>2
<1>4. one = first
  BY <1>1, <1>2, <1>3, SeqEqual
<1> QED
  BY <1>4 DEF one, first

LEMMA BeforeIsFollows ==
  ASSUME NEW a \in Key, NEW b \in Key
  PROVE  Before(a, b) <=> Follows(b, a)
<1>1. PICK x \in Int, y \in Int : a = <<x, y>>
  BY DEF Key
<1>2. PICK z \in Int, w \in Int : b = <<z, w>>
  BY DEF Key
<1>3. Before(<<x, y>>, <<z, w>>) <=> x < z \/ (x = z /\ y < w)
  <2> DEFINE s == <<x, y>>
             t == <<z, w>>
  <2>1. s \in Seq(Int) /\ t \in Seq(Int) /\ Len(s) = 2 /\ Len(t) = 2
    OBVIOUS
  <2>2. s[1] = x /\ s[2] = y /\ t[1] = z /\ t[2] = w
    OBVIOUS
  <2> HIDE DEF s, t
  <2>3. SubSeq(s, 1, 0) = <<>> /\ SubSeq(t, 1, 0) = <<>>
    BY <2>1
  <2>4. SubSeq(s, 1, 1) = <<x>> /\ SubSeq(t, 1, 1) = <<z>>
    BY <2>1, <2>2, FirstOfSeq
  <2>5. <<x>> = <<z>> <=> x = z
    OBVIOUS
  <2>6. 0 .. 2 = {0, 1, 2}
    OBVIOUS
  <2>7. Before(s, t) <=>
          \/ SubSeq(s, 1, 0) = SubSeq(t, 1, 0) /\ s[1] < t[1]
          \/ SubSeq(s, 1, 1) = SubSeq(t, 1, 1) /\ s[2] < t[2]
    BY <2>1, <2>6 DEF Before
  <2> QED
    BY <2>2, <2>3, <2>4, <2>5, <2>7 DEF s, t
<1>4. Follows(<<z, w>>, <<x, y>>) <=> z > x \/ (z = x /\ w > y)
  BY DEF Follows
<1> QED
  BY <1>1, <1>2, <1>3, <1>4

LEMMA FollowsIsOrder ==
  /\ \A a \in Key : ~Follows(a, a)
  /\ \A a, b, c \in Key : Follows(b, a) /\ Follows(c, b) => Follows(c, a)
  /\ \A a, b \in Key : a = b \/ Follows(a, b) \/ Follows(b, a)
<1>1. \A a \in Key : a = <<a[1], a[2]>> /\ a[1] \in Int /\ a[2] \in Int
  BY DEF Key
<1> QED
  BY <1>1 DEF Follows

(* What a page is of rows with keys K: the first of those that follow, in    *)
(* order.                                                                    *)
Following(rows, K, after) == {r \in rows : after = <<>> \/ Follows(K[r], after)}

InKeyOrder(items, K) ==
  \A i, j \in DOMAIN items : i < j => Follows(K[items[j]], K[items[i]])

IsPage(page, rows, K, after) ==
  /\ page.items \in Seq(Following(rows, K, after))
  /\ InKeyOrder(page.items, K)
  /\ ~page.more => Range(page.items) = Following(rows, K, after)
  /\ page.more =>
       /\ Len(page.items) > 0
       /\ Range(page.items) = {r \in Following(rows, K, after) :
                                 ~Follows(K[r], K[page.items[Len(page.items)]])}

(* Rows that have keys, no two the same.                                     *)
AreKeyed(rows, K) ==
  /\ IsFiniteSet(rows)
  /\ K \in [rows -> Key]
  /\ \A r, s \in rows : K[r] = K[s] => r = s

(* The first rows of those that follow, when one more than the limit is      *)
(* looked for.                                                               *)
LEMMA FirstIsPage ==
  ASSUME NEW rows, NEW K, NEW after, AreKeyed(rows, K), NEW limit \in Nat \ {0},
         NEW q \in Seq(Following(rows, K, after)),
         Range(q) = Following(rows, K, after), InKeyOrder(q, K),
         NEW selected, selected = SubSeq(q, 1, IF Len(q) > limit THEN limit + 1 ELSE Len(q)),
         NEW page,
         page = [items |-> SubSeq(selected, 1,
                             IF Len(selected) > limit THEN limit ELSE Len(selected)),
                 more |-> Len(selected) > limit]
  PROVE  IsPage(page, rows, K, after)
<1> DEFINE S == Following(rows, K, after)
           items == page.items
<1>1. q \in Seq(S) /\ Len(q) \in Nat /\ limit \in Nat /\ limit > 0
  OBVIOUS
<1>2. CASE Len(q) > limit
  <2>1. /\ selected \in Seq(S) /\ Len(selected) = limit + 1
        /\ \A i \in 1 .. limit + 1 : selected[i] = q[i]
    BY <1>1, <1>2
  <2>2. page.more /\ items = SubSeq(selected, 1, limit)
    <3>1. Len(selected) > limit
      BY <1>1, <2>1
    <3> QED
      BY <3>1
  <2>3. items \in Seq(S) /\ Len(items) = limit /\ \A i \in 1 .. limit : items[i] = q[i]
    BY <1>1, <2>1, <2>2
  <2>4. InKeyOrder(items, K)
    BY <1>1, <1>2, <2>3 DEF InKeyOrder
  <2> DEFINE last == q[limit]
  <2>5. limit \in 1 .. limit /\ items[Len(items)] = last
    BY <1>1, <2>3
  <2>6. \A i \in 1 .. Len(q) : q[i] \in S /\ K[q[i]] \in Key
    BY <1>1 DEF AreKeyed, Following
  <2>7. \A i \in 1 .. limit : ~Follows(K[q[i]], K[last])
    <3> TAKE i \in 1 .. limit
    <3>1. i \in DOMAIN q /\ limit \in DOMAIN q /\ (i = limit \/ i < limit)
      BY <1>1, <1>2
    <3>2. i < limit => Follows(K[last], K[q[i]])
      BY <3>1 DEF InKeyOrder
    <3>3. K[last] \in Key /\ K[q[i]] \in Key
      BY <1>1, <2>6, <3>1
    <3> QED
      BY <3>1, <3>2, <3>3, FollowsIsOrder
  <2>8. \A i \in 1 .. Len(q) : i > limit => Follows(K[q[i]], K[last])
    BY <1>1, <1>2 DEF InKeyOrder
  <2>9. Range(items) = {r \in S : ~Follows(K[r], K[last])}
    <3>1. ASSUME NEW r \in Range(items) PROVE r \in S /\ ~Follows(K[r], K[last])
      BY <1>1, <1>2, <2>3, <2>6, <2>7 DEF Range
    <3>2. ASSUME NEW r \in S, ~Follows(K[r], K[last]) PROVE r \in Range(items)
      <4>1. PICK i \in 1 .. Len(q) : q[i] = r
        BY <1>1 DEF Range
      <4>2. i \in 1 .. limit
        BY <1>1, <2>8, <3>2, <4>1
      <4>3. i \in DOMAIN items /\ items[i] = r
        BY <2>3, <4>1, <4>2
      <4> HIDE DEF items
      <4> QED
        BY <4>3 DEF Range
    <3> QED
      BY <3>1, <3>2
  <2> QED
    BY <1>1, <2>2, <2>3, <2>4, <2>5, <2>9 DEF IsPage
<1>3. CASE ~(Len(q) > limit)
  <2>1. selected = q
    BY <1>1, <1>3
  <2>2. ~page.more /\ items = q
    BY <1>1, <1>3, <2>1
  <2> QED
    BY <1>1, <2>2 DEF IsPage
<1> QED
  BY <1>2, <1>3

-----------------------------------------------------------------------------
(* Induction over data: a set that has 0 and with a number the next one has  *)
(* every number.                                                             *)
LEMMA Induction ==
  ASSUME NEW T, 0 \in T, \A n \in Nat : n \in T => n + 1 \in T
  PROVE  \A n \in Nat : n \in T
<1> DEFINE rest == {n \in Nat : n \notin T}
           less == {ss \in Nat \X Nat : ss[1] < ss[2]}
<1> SUFFICES ASSUME rest # {} PROVE FALSE
  OBVIOUS
<1>1. IsWellFoundedOn(less, Nat) /\ rest \subseteq Nat
  BY NatLessThanWellFounded DEF OpToRel
<1>2. \E x \in rest : \A y \in rest : ~ (<<y, x>> \in less)
  <2> HIDE DEF rest, less
  <2> QED
    BY <1>1, WFMin
<1>3. PICK x \in rest : \A y \in rest : ~(y < x)
  BY <1>2
<1>4. x - 1 \in Nat /\ x - 1 < x /\ (x - 1) + 1 = x
  OBVIOUS
<1> QED
  BY <1>3, <1>4

(* A set of numbers up to a bound has a greatest one.                        *)
LEMMA MaxOfSome ==
  ASSUME NEW n \in Nat, NEW s \in SUBSET (1 .. n), s # {}
  PROVE  Max(s) \in s /\ \A y \in s : y <= Max(s)
<1> DEFINE T == {m \in Nat : \A t \in SUBSET (1 .. m) :
                   t # {} => \E x \in t : \A y \in t : x >= y}
<1>1. 0 \in T
  <2>1. 1 .. 0 = {}
    OBVIOUS
  <2> QED
    BY <2>1
<1>2. ASSUME NEW m \in Nat, m \in T PROVE m + 1 \in T
  <2> SUFFICES ASSUME NEW t \in SUBSET (1 .. (m + 1)), t # {}
               PROVE  \E x \in t : \A y \in t : x >= y
    BY <1>2
  <2>1. CASE m + 1 \in t
    BY <2>1
  <2>2. CASE m + 1 \notin t
    <3>1. t \in SUBSET (1 .. m)
      BY <2>2
    <3> QED
      BY <1>2, <3>1
  <2> QED
    BY <2>1, <2>2
<1>3. n \in T
  <2> HIDE DEF T
  <2> QED
    BY <1>1, <1>2, Induction
<1>4. \E x \in s : \A y \in s : x >= y
  BY <1>3
<1> QED
  BY <1>4 DEF Max

(* The function by which MapThenFoldSet folds from the greatest index down.  *)
FoldsWith(g, n, base, step) ==
  \A s \in SUBSET (1 .. n) :
    g[s] = IF s = {} THEN base ELSE step[<<Max(s), g[s \ {Max(s)}]>>]

LEMMA FoldExists ==
  ASSUME NEW n \in Nat, NEW V, NEW base \in V, NEW step \in [(1 .. n) \X V -> V]
  PROVE  \E g \in [SUBSET (1 .. n) -> V] : FoldsWith(g, n, base, step)
<1> DEFINE Has(m) == \E g \in [SUBSET (1 .. m) -> V] : FoldsWith(g, m, base, step)
           T == {m \in Nat : m <= n => Has(m)}
<1>1. Has(0)
  <2> DEFINE h == [s \in SUBSET (1 .. 0) |-> base]
  <2>1. h \in [SUBSET (1 .. 0) -> V]
    OBVIOUS
  <2>2. 1 .. 0 = {}
    OBVIOUS
  <2>3. \A s \in SUBSET (1 .. 0) : s = {} /\ h[s] = base
    BY ONLY <2>2
  <2> HIDE DEF h
  <2>4. FoldsWith(h, 0, base, step)
    BY <2>3 DEF FoldsWith
  <2> QED
    BY <2>1, <2>4
<1>2. ASSUME NEW m \in Nat, Has(m), m + 1 <= n PROVE Has(m + 1)
  <2>1. PICK g \in [SUBSET (1 .. m) -> V] : FoldsWith(g, m, base, step)
    BY <1>2
  <2> DEFINE h == [s \in SUBSET (1 .. (m + 1)) |->
                     IF m + 1 \in s THEN step[<<m + 1, g[s \ {m + 1}]>>] ELSE g[s]]
  <2>2. \A s \in SUBSET (1 .. (m + 1)) :
          /\ s \ {m + 1} \in SUBSET (1 .. m)
          /\ m + 1 \notin s => s \in SUBSET (1 .. m)
    OBVIOUS
  <2>3. h \in [SUBSET (1 .. (m + 1)) -> V]
    <3>1. ASSUME NEW s \in SUBSET (1 .. (m + 1)) PROVE h[s] \in V
      <4>1. CASE m + 1 \in s
        <5>1. m + 1 \in 1 .. n
          BY <1>2
        <5>2. g[s \ {m + 1}] \in V
          BY <2>2
        <5> DEFINE v == g[s \ {m + 1}]
        <5>3. h[s] = step[<<m + 1, v>>]
          BY <4>1
        <5> HIDE DEF v, h
        <5>4. v \in V
          BY <5>2 DEF v
        <5> QED
          BY <5>1, <5>3, <5>4
      <4>2. CASE m + 1 \notin s
        BY <2>2, <4>2
      <4> QED
        BY <4>1, <4>2
    <3> QED
      BY <3>1
  <2>4. ASSUME NEW s \in SUBSET (1 .. (m + 1))
        PROVE  h[s] = IF s = {} THEN base ELSE step[<<Max(s), h[s \ {Max(s)}]>>]
    <3>1. CASE m + 1 \in s
      <4>0. m + 1 \in Nat /\ s # {}
        BY <3>1
      <4>1. Max(s) \in s /\ \A y \in s : y <= Max(s)
        BY <4>0, MaxOfSome
      <4> DEFINE x == Max(s)
      <4>2. x = m + 1
        <5>1. x \in 1 .. (m + 1) /\ m + 1 <= x
          BY <3>1, <4>1
        <5> HIDE DEF x
        <5> QED
          BY <5>1
      <4>3. h[s] = step[<<m + 1, g[s \ {m + 1}]>>] /\ h[s \ {m + 1}] = g[s \ {m + 1}]
        BY <3>1, <2>2
      <4> HIDE DEF h
      <4> QED
        BY <3>1, <4>2, <4>3
    <3>2. CASE m + 1 \notin s
      <4>1. h[s] = g[s] /\ s \in SUBSET (1 .. m)
        BY <2>2, <3>2
      <4>2. g[s] = IF s = {} THEN base ELSE step[<<Max(s), g[s \ {Max(s)}]>>]
        BY <2>1, <4>1 DEF FoldsWith
      <4>3. h[s \ {Max(s)}] = g[s \ {Max(s)}]
        BY <3>2
      <4> HIDE DEF h
      <4> QED
        BY <4>1, <4>2, <4>3
    <3> QED
      BY <3>1, <3>2
  <2>5. FoldsWith(h, m + 1, base, step)
    BY <2>4 DEF FoldsWith
  <2> QED
    BY <2>3, <2>5
<1>3. n \in T
  <2> HIDE DEF Has
  <2>1. 0 \in T
    BY <1>1
  <2>2. ASSUME NEW m \in Nat, m \in T PROVE m + 1 \in T
    BY <1>2, <2>2
  <2> HIDE DEF T
  <2> QED
    BY <2>1, <2>2, Induction
<1>4. Has(n)
  <2> HIDE DEF Has
  <2> QED
    BY <1>3
<1> QED
  BY <1>4

(* FlattenSeq puts one sequence after the other.                             *)
FlattensTo(h, seqs) ==
  /\ h[0] = <<>>
  /\ \A k \in 1 .. Len(seqs) : h[k] = h[k - 1] \o seqs[k]

LEMMA FlattenSteps ==
  ASSUME NEW U, NEW seqs \in Seq(Seq(U))
  PROVE  \E h \in [0 .. Len(seqs) -> Seq(U)] :
           FlattensTo(h, seqs) /\ FlattenSeq(seqs) = h[Len(seqs)]
<1> DEFINE n == Len(seqs)
           Is(g, m) == g = [i \in 1 .. m |-> IF i = 1 THEN seqs[i] ELSE g[i - 1] \o seqs[i]]
           Has(m) == \E g \in [1 .. m -> Seq(U)] : Is(g, m)
           T == {m \in Nat : m <= n => Has(m)}
<1>0. n \in Nat /\ \A i \in 1 .. n : seqs[i] \in Seq(U)
  OBVIOUS
<1> HIDE DEF n
<1>1. Has(0)
  <2> DEFINE g == [i \in 1 .. 0 |-> <<>>]
  <2>1. g \in [1 .. 0 -> Seq(U)] /\ Is(g, 0)
    OBVIOUS
  <2> QED
    BY <2>1
<1>2. ASSUME NEW m \in Nat, Has(m), m + 1 <= n PROVE Has(m + 1)
  <2>1. PICK g \in [1 .. m -> Seq(U)] : Is(g, m)
    BY <1>2
  <2> DEFINE last == IF m = 0 THEN seqs[1] ELSE g[m] \o seqs[m + 1]
             h == [i \in 1 .. (m + 1) |-> IF i = m + 1 THEN last ELSE g[i]]
  <2>2. last \in Seq(U)
    <3>1. seqs[m + 1] \in Seq(U)
      BY <1>0, <1>2
    <3>2. m # 0 => g[m] \in Seq(U)
      OBVIOUS
    <3> QED
      BY <3>1, <3>2
  <2>3. h \in [1 .. (m + 1) -> Seq(U)]
    <3> HIDE DEF last
    <3> QED
      BY <2>2
  <2>4. ASSUME NEW i \in 1 .. (m + 1)
        PROVE  h[i] = IF i = 1 THEN seqs[i] ELSE h[i - 1] \o seqs[i]
    <3>1. CASE i = m + 1
      <4>1. m # 0 => h[i - 1] = g[m]
        BY <3>1
      <4>2. h[i] = last
        BY <3>1
      <4> HIDE DEF h
      <4> QED
        BY <3>1, <4>1, <4>2
    <3>2. CASE i # m + 1
      <4>1. i \in 1 .. m /\ h[i] = g[i] /\ (i # 1 => h[i - 1] = g[i - 1])
        BY <3>2
      <4>2. g[i] = IF i = 1 THEN seqs[i] ELSE g[i - 1] \o seqs[i]
        BY <2>1, <4>1
      <4> HIDE DEF h
      <4> QED
        BY <4>1, <4>2
    <3> QED
      BY <3>1, <3>2
  <2>5. Is(h, m + 1)
    <3> HIDE DEF last
    <3>1. h = [i \in 1 .. (m + 1) |-> h[i]]
      OBVIOUS
    <3> HIDE DEF h
    <3> QED
      BY <2>4, <3>1
  <2> HIDE DEF h, Is
  <2> QED
    BY <2>3, <2>5
<1>3. Has(n)
  <2> HIDE DEF Has
  <2>1. 0 \in T
    BY <1>1
  <2>2. ASSUME NEW m \in Nat, m \in T PROVE m + 1 \in T
    <3>1. m + 1 <= n => m <= n
      BY <1>0
    <3> QED
      BY <1>2, <2>2, <3>1
  <2>3. n \in T
    <3> HIDE DEF T
    <3> QED
      BY <1>0, <2>1, <2>2, Induction
  <2> QED
    BY <1>0, <2>3
<1> DEFINE f == CHOOSE g : Is(g, n)
<1>4. Is(f, n)
  <2> HIDE DEF Is
  <2> QED
    BY <1>3
<1>5. n # 0 => FlattenSeq(seqs) = f[n]
  BY DEF FlattenSeq, n
<1>6. n = 0 => FlattenSeq(seqs) = <<>>
  BY DEF FlattenSeq, n
<1> HIDE DEF f
<1>7. \A i \in 1 .. n : f[i] = IF i = 1 THEN seqs[i] ELSE f[i - 1] \o seqs[i]
  BY <1>4
<1> HIDE DEF Is, Has, T
<1> DEFINE h == [k \in 0 .. n |-> IF k = 0 THEN <<>> ELSE f[k]]
           S == {m \in Nat : m <= n => h[m] \in Seq(U)}
<1>8. ASSUME NEW k \in 1 .. n PROVE h[k] = h[k - 1] \o seqs[k] 
  <2>1. CASE k = 1
    <3>1. h[k] = seqs[k] /\ h[k - 1] = <<>> /\ seqs[k] \in Seq(U)
      BY <1>0, <1>7, <2>1
    <3> HIDE DEF h
    <3> QED
      BY <3>1
  <2>2. CASE k # 1
    <3>0. k \in 0 .. n /\ k - 1 \in 0 .. n /\ k # 0 /\ k - 1 # 0
      BY <1>0, <2>2
    <3>1. h[k] = f[k] /\ h[k - 1] = f[k - 1]
      BY <3>0
    <3>2. f[k] = f[k - 1] \o seqs[k]
      BY <1>7, <2>2
    <3> HIDE DEF h
    <3> QED
      BY <3>1, <3>2
  <2> QED
    BY <2>1, <2>2
<1>9. h[0] = <<>> /\ FlattenSeq(seqs) = h[n]
  BY <1>0, <1>5, <1>6
<1>10. h \in [0 .. n -> Seq(U)]
  <2>1. h = [k \in 0 .. n |-> h[k]]
    OBVIOUS
  <2> HIDE DEF h
  <2>2. 0 \in S
    <3>1. h[0] \in Seq(U)
      BY <1>9
    <3> QED
      BY <3>1
  <2>3. ASSUME NEW m \in Nat, m \in S PROVE m + 1 \in S
    <3> SUFFICES ASSUME m + 1 <= n PROVE h[m + 1] \in Seq(U)
      BY <2>3
    <3>1. h[m] \in Seq(U) /\ m + 1 \in 1 .. n /\ (m + 1) - 1 = m
      BY <1>0, <2>3
    <3>2. h[m + 1] = h[m] \o seqs[m + 1] /\ seqs[m + 1] \in Seq(U)
      BY <1>0, <1>8, <3>1
    <3> QED
      BY <3>1, <3>2
  <2>4. \A m \in Nat : m \in S
    <3> HIDE DEF S
    <3> QED
      BY <2>2, <2>3, Induction
  <2>5. \A m \in 0 .. n : h[m] \in Seq(U)
    BY <1>0, <2>4
  <2> QED
    BY <2>1, <2>5
<1> HIDE DEF h
<1> QED
  BY <1>8, <1>9, <1>10 DEF FlattensTo, n

LEMMA FlattenAppend ==
  ASSUME NEW U, NEW seqs \in Seq(Seq(U)), NEW c \in Seq(U)
  PROVE  /\ FlattenSeq(seqs) \in Seq(U)
         /\ FlattenSeq(Append(seqs, c)) = FlattenSeq(seqs) \o c
<1> DEFINE n == Len(seqs)
           more == Append(seqs, c)
<1>1. n \in Nat /\ Len(more) = n + 1 /\ more \in Seq(Seq(U)) /\ more[n + 1] = c
      /\ \A k \in 1 .. n : more[k] = seqs[k]
  OBVIOUS
<1> HIDE DEF more, n
<1>2. PICK h \in [0 .. n -> Seq(U)] : FlattensTo(h, seqs) /\ FlattenSeq(seqs) = h[n]
  BY FlattenSteps DEF n
<1>3. PICK g \in [0 .. n + 1 -> Seq(U)] : FlattensTo(g, more) /\ FlattenSeq(more) = g[n + 1]
  BY <1>1, FlattenSteps
<1> DEFINE T == {m \in Nat : m <= n => g[m] = h[m]}
<1>4. 0 \in T
  BY <1>2, <1>3 DEF FlattensTo
<1>5. ASSUME NEW m \in Nat, m \in T PROVE m + 1 \in T
  <2> SUFFICES ASSUME m + 1 <= n PROVE g[m + 1] = h[m + 1]
    OBVIOUS
  <2>1. m <= n /\ m + 1 \in 1 .. n /\ m + 1 \in 1 .. n + 1 /\ (m + 1) - 1 = m
    BY <1>1
  <2>2. g[m + 1] = g[m] \o more[m + 1] /\ h[m + 1] = h[m] \o seqs[m + 1]
    BY <1>1, <1>2, <1>3, <2>1 DEF FlattensTo, n
  <2> QED
    BY <1>1, <1>5, <2>1, <2>2
<1>6. n \in T
  <2> HIDE DEF T
  <2> QED
    BY <1>1, <1>4, <1>5, Induction
<1>7. g[n] = h[n]
  BY <1>1, <1>6
<1>8. g[n + 1] = g[n] \o c
  <2>1. n + 1 \in 1 .. n + 1 /\ (n + 1) - 1 = n
    BY <1>1
  <2> QED
    BY <1>1, <1>3, <2>1 DEF FlattensTo
<1>9. h[n] \in Seq(U)
  BY <1>1, <1>2
<1> QED
  BY <1>2, <1>3, <1>7, <1>8, <1>9 DEF more

-----------------------------------------------------------------------------
(* The reading of events.  Where it is after some: it has counted them, it   *)
(* knows their ids wherever it keeps them, and it still takes them for those *)
(* of a session just if they are: in order, and no two with one id.          *)
IdsOf(all) == {all[i].id : i \in DOMAIN all}

AreOf(session, all) ==
  /\ \A i \in DOMAIN all : all[i].session = session /\ all[i].sequence = i - 1
  /\ \A i, j \in DOMAIN all : all[i].id = all[j].id => i = j

Reader(I) ==
  [valid : BOOLEAN, next : Int,
   ids : [memory : SUBSET I, spilled : BOOLEAN, table : SUBSET I]]

Known(ids) == IF ids.spilled THEN ids.table ELSE ids.memory

HasRead(session, state, all) ==
  /\ state.next = Len(all)
  /\ Known(state.ids) = IdsOf(all)
  /\ state.valid <=> AreOf(session, all)

LEMMA AddedIsKnown ==
  ASSUME NEW I, NEW ids \in [memory : SUBSET I, spilled : BOOLEAN, table : SUBSET I], NEW id \in I
  PROVE  /\ Added(ids, id) \in [memory : SUBSET I, spilled : BOOLEAN, table : SUBSET I]
         /\ Known(Added(ids, id)) = Known(ids) \cup {id}
         /\ IsNew(ids, id) <=> id \notin Known(ids)
<1>1. CASE ids.spilled
  BY <1>1 DEF Added, Known, InTable, IsNew
<1>2. CASE ~ids.spilled /\ (id \in ids.memory \/ Cardinality(ids.memory) < MemoryLimit)
  BY <1>2 DEF Added, Known, IsNew
<1>3. CASE ~ids.spilled /\ ~(id \in ids.memory \/ Cardinality(ids.memory) < MemoryLimit)
  BY <1>3 DEF Added, Known, InTable, Spill, IsNew
<1> QED
  BY <1>1, <1>2, <1>3

LEMMA ReadsOne ==
  ASSUME NEW U, NEW I, \A e \in U : e.id \in I, NEW session, NEW state \in Reader(I),
         NEW all \in Seq(U), NEW event \in U, HasRead(session, state, all)
  PROVE  /\ ValidateEvent(session, state, event) \in Reader(I)
         /\ HasRead(session, ValidateEvent(session, state, event), Append(all, event))
<1> DEFINE next == ValidateEvent(session, state, event)
           more == Append(all, event)
           n == Len(all)
<1>1. /\ n \in Nat /\ DOMAIN all = 1 .. n /\ DOMAIN more = 1 .. n + 1 /\ Len(more) = n + 1
      /\ \A i \in 1 .. n : more[i] = all[i]
      /\ more[n + 1] = event
  OBVIOUS
<1>2. /\ state.valid \in BOOLEAN /\ state.next \in Int /\ event.id \in I
      /\ state.ids \in [memory : SUBSET I, spilled : BOOLEAN, table : SUBSET I]
  BY DEF Reader
<1>3. /\ next.valid = (state.valid /\ event.session = session /\ event.sequence = state.next
                         /\ IsNew(state.ids, event.id))
      /\ next.next = state.next + 1 /\ next.ids = Added(state.ids, event.id)
  BY DEF ValidateEvent
<1>4. next \in Reader(I)
  <2>1. Added(state.ids, event.id) \in [memory : SUBSET I, spilled : BOOLEAN, table : SUBSET I]
    BY <1>2, AddedIsKnown
  <2> QED
    BY <1>2, <2>1 DEF ValidateEvent, Reader
<1> HIDE DEF next, more, n
<1>5. IdsOf(more) = IdsOf(all) \cup {event.id}
  <2>1. \A i : i \in 1 .. n + 1 <=> i \in 1 .. n \/ i = n + 1
    BY <1>1
  <2> QED
    BY <1>1, <2>1 DEF IdsOf
<1>6. /\ Known(next.ids) = Known(state.ids) \cup {event.id}
      /\ IsNew(state.ids, event.id) <=> event.id \notin Known(state.ids)
  <2>1. PICK ids, id : ids = state.ids /\ id = event.id
    OBVIOUS
  <2>2. ids \in [memory : SUBSET I, spilled : BOOLEAN, table : SUBSET I] /\ id \in I
    BY <1>2, <2>1
  <2>3. /\ Known(Added(ids, id)) = Known(ids) \cup {id}
        /\ IsNew(ids, id) <=> id \notin Known(ids)
    BY ONLY <2>2, AddedIsKnown
  <2> QED
    BY <1>3, <2>1, <2>3
<1>7. next.next = Len(more)
  BY <1>1, <1>3 DEF HasRead, n
<1>8. ASSUME next.valid PROVE AreOf(session, more)
  <2>1. /\ AreOf(session, all) /\ event.session = session /\ event.sequence = n
        /\ event.id \notin IdsOf(all)
    BY <1>3, <1>6, <1>8 DEF HasRead, n
  <2>2. ASSUME NEW i \in DOMAIN more
        PROVE  more[i].session = session /\ more[i].sequence = i - 1
    <3>1. CASE i \in 1 .. n
      BY <1>1, <2>1, <3>1 DEF AreOf
    <3>2. CASE i = n + 1
      BY <1>1, <2>1, <3>2
    <3> QED
      BY <1>1, <3>1, <3>2
  <2>3. ASSUME NEW i \in DOMAIN more, NEW j \in DOMAIN more, more[i].id = more[j].id
        PROVE  i = j
    <3>1. \A k \in 1 .. n : more[k].id \in IdsOf(all)
      BY <1>1 DEF IdsOf
    <3>2. CASE i \in 1 .. n /\ j \in 1 .. n
      BY <1>1, <2>1, <2>3, <3>2 DEF AreOf
    <3>3. CASE i = n + 1 \/ j = n + 1
      BY <1>1, <2>1, <2>3, <3>1, <3>3
    <3> QED
      BY <1>1, <3>2, <3>3
  <2> QED
    BY <2>2, <2>3 DEF AreOf
<1>9. ASSUME AreOf(session, more) PROVE next.valid
  <2>1. n + 1 \in DOMAIN more /\ \A i \in 1 .. n : i \in DOMAIN more /\ i # n + 1
    BY <1>1
  <2>2. event.session = session /\ event.sequence = n
    BY <1>1, <1>9, <2>1 DEF AreOf
  <2>3. AreOf(session, all)
    BY <1>1, <1>9, <2>1 DEF AreOf
  <2>4. event.id \notin IdsOf(all)
    <3> SUFFICES ASSUME NEW i \in 1 .. n, all[i].id = event.id PROVE FALSE
      BY <1>1 DEF IdsOf
    <3>1. more[i].id = more[n + 1].id
      BY <1>1
    <3> QED
      BY <1>9, <2>1, <3>1 DEF AreOf
  <2> QED
    BY <1>2, <1>3, <1>6, <2>2, <2>3, <2>4 DEF HasRead, n
<1> QED
  BY <1>2, <1>3, <1>4, <1>5, <1>6, <1>7, <1>8, <1>9 DEF HasRead, next, more

(* ReadEvents goes from event to event.                                      *)
LEMMA ReadEventsSteps ==
  ASSUME NEW U, NEW I, \A e \in U : e.id \in I, NEW session, NEW state \in Reader(I),
         NEW content \in Seq(U)
  PROVE  \E h :
           /\ h[0] = state /\ ReadEvents(session, state, content) = h[Len(content)]
           /\ \A k \in 1 .. Len(content) :
                h[k] = ValidateEvent(session, h[k - 1], content[k])
<1> DEFINE n == Len(content)
           Folds(iter) == iter = [s \in SUBSET (1 .. n) |->
             IF s = {} THEN state
             ELSE ValidateEvent(session, iter[s \ {Max(s)}], content[Max(s)])]
           iter == CHOOSE g : Folds(g)
           step == [p \in (1 .. n) \X Reader(I) |-> ValidateEvent(session, p[2], content[p[1]])]
<1>1. /\ n \in Nat /\ DOMAIN content = 1 .. n
      /\ \A k \in 1 .. n : content[k] \in U
  OBVIOUS
<1>2. ReadEvents(session, state, content) = iter[1 .. n]
  <2> HIDE DEF n
  <2> QED
    BY <1>1 DEF ReadEvents, FoldLeft, MapThenFoldSet
<1> HIDE DEF n
<1>3. ASSUME NEW st \in Reader(I), NEW event \in U
      PROVE  ValidateEvent(session, st, event) \in Reader(I)
  <2>1. /\ st.valid \in BOOLEAN /\ st.next \in Int /\ event.id \in I
        /\ st.ids \in [memory : SUBSET I, spilled : BOOLEAN, table : SUBSET I]
    BY DEF Reader
  <2>2. PICK ids, id : ids = st.ids /\ id = event.id
    OBVIOUS
  <2>3. ids \in [memory : SUBSET I, spilled : BOOLEAN, table : SUBSET I] /\ id \in I
    BY <2>1, <2>2
  <2>4. Added(ids, id) \in [memory : SUBSET I, spilled : BOOLEAN, table : SUBSET I]
    BY ONLY <2>3, AddedIsKnown
  <2> QED
    BY <2>1, <2>2, <2>4 DEF ValidateEvent, Reader
<1>4. step \in [(1 .. n) \X Reader(I) -> Reader(I)]
  <2>1. ASSUME NEW p \in (1 .. n) \X Reader(I)
        PROVE  ValidateEvent(session, p[2], content[p[1]]) \in Reader(I)
    BY <1>1, <1>3
  <2> QED
    BY <2>1
<1>5. PICK g \in [SUBSET (1 .. n) -> Reader(I)] : FoldsWith(g, n, state, step)
  <2> HIDE DEF step
  <2> QED
    BY <1>1, <1>4, FoldExists
<1>6. Folds(g)
  <2>1. ASSUME NEW s \in SUBSET (1 .. n)
        PROVE  g[s] = IF s = {} THEN state
                      ELSE ValidateEvent(session, g[s \ {Max(s)}], content[Max(s)])
    <3>1. CASE s = {}
      BY <1>5, <3>1 DEF FoldsWith
    <3>2. CASE s # {}
      <4> DEFINE x == Max(s)
                 rest == s \ {x}
      <4>1. x \in 1 .. n
        BY <1>1, <3>2, MaxOfSome
      <4>2. g[s] = step[<<x, g[rest]>>]
        BY <1>5, <3>2 DEF FoldsWith
      <4>3. g[rest] \in Reader(I)
        <5>1. rest \in SUBSET (1 .. n)
          OBVIOUS
        <5> HIDE DEF rest
        <5> QED
          BY <5>1
      <4> HIDE DEF x, rest
      <4>4. g[s] = ValidateEvent(session, g[rest], content[x])
        BY <4>1, <4>2, <4>3
      <4> QED
        BY <3>2, <4>4 DEF x, rest
    <3> QED
      BY <3>1, <3>2
  <2>2. g = [s \in SUBSET (1 .. n) |-> g[s]]
    OBVIOUS
  <2> QED
    BY <2>1, <2>2, Zenon
<1>7. Folds(iter)
  <2> HIDE DEF Folds
  <2> QED
    BY <1>6
<1> HIDE DEF iter, step
<1>8. \A s \in SUBSET (1 .. n) :
        iter[s] = IF s = {} THEN state
                  ELSE ValidateEvent(session, iter[s \ {Max(s)}], content[Max(s)])
  BY <1>7
<1> HIDE DEF Folds
<1> DEFINE h == [k \in 0 .. n |-> iter[1 .. k]]
<1>9. h[0] = state /\ h[n] = iter[1 .. n]
  <2>1. 1 .. 0 = {} /\ 0 \in 0 .. n /\ n \in 0 .. n
    BY <1>1
  <2>2. iter[{}] = state
    BY <1>8
  <2> QED
    BY <2>1, <2>2
<1>10. ASSUME NEW k \in 1 .. n PROVE h[k] = ValidateEvent(session, h[k - 1], content[k])
  <2> DEFINE s == 1 .. k
             x == Max(s)
  <2>1. s \in SUBSET (1 .. n) /\ s # {} /\ k \in s /\ s \in SUBSET (1 .. k) /\ k \in Nat
    BY <1>1
  <2>2. x \in 1 .. k /\ k <= x
    <3> HIDE DEF s
    <3>1. x \in s /\ \A y \in s : y <= x
      BY <2>1, MaxOfSome
    <3> QED
      BY <2>1, <3>1
  <2> HIDE DEF x
  <2>3. x = k
    BY <2>1, <2>2
  <2>4. s \ {k} = 1 .. (k - 1)
    BY <2>1
  <2>5. iter[s] = ValidateEvent(session, iter[s \ {x}], content[x])
    <3> HIDE DEF s
    <3> QED
      BY <1>8, <2>1 DEF x
  <2>6. h[k] = iter[s] /\ h[k - 1] = iter[1 .. (k - 1)]
    BY <1>1
  <2> QED
    BY <2>3, <2>4, <2>5, <2>6
<1> HIDE DEF h
<1> QED
  BY <1>2, <1>9, <1>10 DEF n

(* What has been read goes on by a file.                                     *)
LEMMA ReadsFile ==
  ASSUME NEW U, NEW I, \A e \in U : e.id \in I, NEW session, NEW state \in Reader(I),
         NEW all \in Seq(U), NEW content \in Seq(U), HasRead(session, state, all)
  PROVE  /\ ReadEvents(session, state, content) \in Reader(I)
         /\ HasRead(session, ReadEvents(session, state, content), all \o content)
<1> DEFINE n == Len(content)
           Upto(k) == all \o SubSeq(content, 1, k)
<1>1. n \in Nat /\ \A k \in 1 .. n : content[k] \in U
  OBVIOUS
<1>2. PICK h :
        /\ h[0] = state /\ ReadEvents(session, state, content) = h[n]
        /\ \A k \in 1 .. n : h[k] = ValidateEvent(session, h[k - 1], content[k])
  BY ReadEventsSteps
<1>3. Upto(0) = all /\ Upto(n) = all \o content
  OBVIOUS
<1>4. ASSUME NEW k \in 0 .. n - 1
      PROVE  Upto(k) \in Seq(U) /\ Upto(k + 1) = Append(Upto(k), content[k + 1])
  OBVIOUS
<1> HIDE DEF n, Upto
<1> DEFINE T == {m \in Nat : m <= n => h[m] \in Reader(I) /\ HasRead(session, h[m], Upto(m))}
<1>5. 0 \in T
  BY <1>2, <1>3
<1>6. ASSUME NEW m \in Nat, m \in T PROVE m + 1 \in T
  <2> SUFFICES ASSUME m + 1 <= n
               PROVE  h[m + 1] \in Reader(I) /\ HasRead(session, h[m + 1], Upto(m + 1))
    OBVIOUS
  <2>1. m \in 0 .. n - 1 /\ m + 1 \in 1 .. n /\ (m + 1) - 1 = m /\ m <= n
    BY <1>1
  <2>2. h[m] \in Reader(I) /\ HasRead(session, h[m], Upto(m))
    BY <1>6, <2>1
  <2>3. h[m + 1] = ValidateEvent(session, h[m], content[m + 1]) /\ content[m + 1] \in U
    BY <1>1, <1>2, <2>1
  <2>4. PICK st, read, event : st = h[m] /\ read = Upto(m) /\ event = content[m + 1]
    OBVIOUS
  <2>5. read \in Seq(U) /\ Upto(m + 1) = Append(read, event)
    BY <1>4, <2>1, <2>4
  <2>6. /\ ValidateEvent(session, st, event) \in Reader(I)
        /\ HasRead(session, ValidateEvent(session, st, event), Append(read, event))
    BY <2>2, <2>3, <2>4, <2>5, ReadsOne
  <2> QED
    BY <2>3, <2>4, <2>5, <2>6
<1>7. n \in T
  <2> HIDE DEF T
  <2> QED
    BY <1>1, <1>5, <1>6, Induction
<1>8. h[n] \in Reader(I) /\ HasRead(session, h[n], Upto(n))
  BY <1>1, <1>7
<1> QED
  BY <1>2, <1>3, <1>8

-----------------------------------------------------------------------------
(* The inductive invariant, part by part.  First the world: what the         *)
(* directories and the detector's database may hold, and that the moment now *)
(* is one of those that were.                                                *)
FullManifest(s) ==
  [status : Outcomes \cup {"running", "completed"}, started : Int, ended : Int,
   files : {FilesOf[s]}, warnings : Nat]

ManifestsInv ==
  /\ DOMAIN manifest = Session
  /\ \A s \in Session : manifest[s] \in {NoDirectory, NoManifest} \cup FullManifest(s)

DetectorInv == detector.rows \subseteq Change /\ IsFiniteSet(detector.rows)

MomentsInv ==
  /\ DOMAIN was = Session
  /\ \A s \in Session : <<manifest[s], ContentsOf(s, events)>> \in was[s]

(* What a file of events can still be altered to, which is not what it holds *)
(* now; and a content that it had and cannot have again.                     *)
Future(f) ==
  {Rewrites[f][i] : i \in {j \in DOMAIN Rewrites[f] : <<"events", f, j>> \notin spent.edits}}

Gone(f, content) ==
  content # events[f] /\ (f \in DOMAIN Rewrites => content \notin Future(f))

EventsInv ==
  /\ DOMAIN events = DOMAIN Recorded
  /\ "edits" \in DOMAIN spent
  /\ \A f \in DOMAIN Rewrites : events[f] \notin Future(f)
  /\ \A f \in DOMAIN Recorded : events[f] \in Contents

WorldInv == ManifestsInv /\ DetectorInv /\ MomentsInv /\ EventsInv

-----------------------------------------------------------------------------
(* The rebuild: the sessions it still has to read, and those it has read.    *)
Shape == DOMAIN rebuild = DOMAIN Idle

AsSeq(s) == s \in Seq(Range(s))

Reading == rebuild.pc \in {"session", "inspect", "stage"}

Summarised == {r.session : r \in Range(rebuild.summaries)}

ProgressInv ==
  /\ Shape
  /\ AsSeq(rebuild.summaries) /\ AsSeq(rebuild.contents)
  /\ rebuild.pc \in {"idle", "refused", "knowledge", "projected", "list"} =>
       rebuild.summaries = <<>>
  /\ rebuild.pc \in {"knowledge", "projected", "list", "session"} =>
       rebuild.contents = <<>> /\ rebuild.snapshot = <<>> /\ rebuild.state = Unread
  /\ Reading => rebuild.todo \in Seq(Session)
  /\ rebuild.pc \in {"inspect", "stage"} => rebuild.todo # <<>>

(* Every session that had ended is still to be read or has been.             *)
MissingInv ==
  /\ rebuild.pc \in {"list", "session", "inspect", "stage", "staged"} =>
       \A s \in rebuild.atStart : s \in Session /\ manifest[s].status \in FinalizedStatuses
  /\ Reading => rebuild.atStart \subseteq Summarised \cup Range(rebuild.todo)
  /\ rebuild.pc = "staged" => rebuild.atStart \subseteq Summarised

-----------------------------------------------------------------------------
(* The evidence.  A content that has been inspected is in its file still or  *)
(* never again: at the moment of the second reading of the manifest each     *)
(* file had what was inspected, unless it will not be found there again.     *)
Evident(row) ==
  /\ row.session \in Session
  /\ \E moment \in was[row.session] :
       /\ moment[1] \in FullManifest(row.session)
       /\ Genuine(row.session, moment)
       /\ row = SessionSummary(row.session, Identity(moment[1], moment[2]), moment[2],
                               moment[1].warnings)

StillOrGone(f, content) == content = events[f] \/ Gone(f, content)

InspectingInv ==
  /\ rebuild.first \in FullManifest(This)
  /\ rebuild.first.status \in FinalizedStatuses
  /\ Len(rebuild.contents) <= Len(rebuild.first.files)
  /\ \A k \in DOMAIN rebuild.contents :
       StillOrGone(rebuild.first.files[k], rebuild.contents[k])
  /\ rebuild.pc = "inspect" => rebuild.snapshot = <<>>

Confirms(moment) ==
  /\ moment[1] = rebuild.first
  /\ \A k \in DOMAIN rebuild.first.files :
       moment[2][k] = rebuild.contents[k] \/ Gone(rebuild.first.files[k], rebuild.contents[k])
  /\ \A k \in DOMAIN rebuild.snapshot :
       rebuild.snapshot[k] = rebuild.contents[k] => moment[2][k] = rebuild.contents[k]
  /\ moment[2] = [k \in DOMAIN FilesOf[This] |-> moment[2][k]]

StagingInv ==
  /\ Len(rebuild.contents) = Len(rebuild.first.files)
  /\ AsSeq(rebuild.snapshot) /\ Len(rebuild.snapshot) <= Len(rebuild.first.files)
  /\ \E moment \in was[This] : Confirms(moment)

(* Of the session at hand, the events in the files inspected so far have     *)
(* been read and are in order.                                               *)
Event == UNION {Range(content) : content \in Contents}

Id == {e.id : e \in Event}

ReadInv ==
  /\ rebuild.contents \in Seq(Seq(Event))
  /\ rebuild.state \in Reader(Id) /\ rebuild.state.valid
  /\ HasRead(This, rebuild.state, FlattenSeq(rebuild.contents))

EvidenceInv ==
  /\ rebuild.pc \in {"inspect", "stage"} => InspectingInv /\ ReadInv
  /\ rebuild.pc = "stage" => StagingInv
  /\ \A row \in Range(rebuild.summaries) : Evident(row)
  /\ \A row \in index.sessions : Evident(row)

-----------------------------------------------------------------------------
(* The pages.  Rows of an index have keys, no two the same, and a client has *)
(* read those up to its cursor.                                              *)
SessionsKeyed(rows) ==
  /\ IsFiniteSet(rows)
  /\ \A r \in rows : r.session \in Int /\ r.started \in Int
  /\ \A r, s \in rows : r.session = s.session => r = s

ChangesKeyed(rows) == IsFiniteSet(rows) /\ rows \subseteq Change

IndexOK(i) == SessionsKeyed(i.sessions) /\ ChangesKeyed(i.changes)

IndexInv ==
  /\ IndexOK(index)
  /\ rebuild.pc = "staged" => IndexOK([sessions |-> Range(rebuild.summaries),
                                       changes |-> rebuild.snapshot])

Lists == {"sessions", "session-anomalies", "changes"}

Keys(c) == [r \in Wanted(c) |-> KeyOf(c.kind, r)]

ReadUpTo(c) ==
  /\ c.got \in Seq(Wanted(c))
  /\ InKeyOrder(c.got, Keys(c))
  /\ c.pc = "complete" => Range(c.got) = Wanted(c)
  /\ c.pc = "more" =>
       /\ c.cursor \in Key
       /\ Range(c.got) = {r \in Wanted(c) : ~Follows(Keys(c)[r], c.cursor)}

ClientInv ==
  /\ DOMAIN client = DOMAIN Client
  /\ client.pc \in {"more", "complete"} =>
       /\ client.kind \in Lists /\ client.limit \in Nat \ {0}
       /\ IndexOK(client.generation)
       /\ ReadUpTo(client)

-----------------------------------------------------------------------------
(* Steps of the world, of the rebuild and of the client.                     *)

(* What a step of the world leaves of the rest.                              *)
LEMMA WorldLeaves ==
  ASSUME World
  PROVE  /\ index' = index /\ client' = client
         /\ rebuild' \in {rebuild, [rebuild EXCEPT !.disturbed = TRUE]}
  BY DEF World, Curate, MakeDirectory, StartSession, EndSession, AlterManifest, AlterEvents,
         CreateState, BootstrapState, ProcessSession, DetectorChanges, SessionChanges, Disturb

(* The others leave the world, and what has been altered of it.              *)
LEMMA OthersLeaveWorld ==
  ASSUME EventsInv, RebuildStep \/ ClientStep \/ UNCHANGED vars
  PROVE  /\ UNCHANGED world
         /\ spent'.edits = spent.edits /\ DOMAIN spent' = DOMAIN spent
<1> USE DEF EventsInv
<1>1. CASE UNCHANGED vars
  BY <1>1 DEF vars, world
<1>2. CASE Rebuild
  BY <1>2 DEF Rebuild
<1>3. CASE RebuildStep /\ ~Rebuild
  BY <1>3 DEF RebuildStep, Becomes, Refuse, ReadKnowledge, Project, OpenChanges, ListSessions,
              ReadManifest, InspectFile, ReadAgain, StageFile, Summarise, Build, Replace, Crash
<1>4. CASE ClientStep
  <2>1. UNCHANGED world /\ (spent' = spent \/ spent' = [spent EXCEPT !.listings = @ + 1])
    BY <1>4 DEF ClientStep, List, NextPage, AnswerClient
  <2> QED
    BY <2>1
<1> QED
  BY <1>1, <1>2, <1>3, <1>4

(* What has a status of its own is a manifest.                               *)
LEMMA ManifestIsFull ==
  ASSUME NEW s \in Session, NEW t \in Times[s]
  PROVE  /\ Manifest(s, "running", t) \in FullManifest(s)
         /\ Manifest(s, "completed", t) \in FullManifest(s)
  BY IndexAssumption DEF Manifest, FullManifest

LEMMA FinishedIsFull ==
  ASSUME ManifestsInv, NEW s \in Session,
         manifest[s].status \in FinalizedStatuses \cup {"running"}
  PROVE  manifest[s] \in FullManifest(s)
  BY DEF ManifestsInv, NoDirectory, NoManifest, FinalizedStatuses

LEMMA ManifestChanges ==
  ASSUME WorldInv, World
  PROVE  /\ \/ manifest' = manifest
            \/ \E s \in Session : \E m \in {NoManifest} \cup FullManifest(s) :
                 /\ manifest' = [manifest EXCEPT ![s] = m]
                 /\ manifest[s].status \in FinalizedStatuses => m.status \in FinalizedStatuses
         /\ Coexist \/ UNCHANGED <<manifest, events, was>>
<1> USE DEF WorldInv
<1>1. CASE \E n \in DOMAIN Edits : Curate(n)
  BY <1>1 DEF Curate
<1>2. CASE \E f \in DOMAIN Rewrites : \E i \in DOMAIN Rewrites[f] : AlterEvents(f, i)
  BY <1>2 DEF AlterEvents
<1>3. CASE CreateState \/ BootstrapState \/ \E s \in Session : ProcessSession(s)
  BY <1>3 DEF CreateState, BootstrapState, ProcessSession, DetectorChanges
<1>4. ASSUME NEW s \in Session, MakeDirectory(s)
      PROVE  /\ manifest' = [manifest EXCEPT ![s] = NoManifest] /\ Coexist
             /\ manifest[s].status \notin FinalizedStatuses
  BY <1>4 DEF MakeDirectory, SessionChanges, NoDirectory, FinalizedStatuses
<1>5. ASSUME NEW s \in Session, StartSession(s)
      PROVE  /\ \E m \in FullManifest(s) : manifest' = [manifest EXCEPT ![s] = m]
             /\ Coexist /\ manifest[s].status \notin FinalizedStatuses
  <2>1. PICK t \in Times[s] : SessionChanges(s, Manifest(s, "running", t))
    BY <1>5 DEF StartSession
  <2>2. Manifest(s, "running", t) \in FullManifest(s)
    BY ManifestIsFull
  <2>3. manifest' = [manifest EXCEPT ![s] = Manifest(s, "running", t)] /\ Coexist
    BY <2>1 DEF SessionChanges
  <2>4. manifest[s].status = "none"
    BY <1>5 DEF StartSession, NoManifest
  <2>5. manifest[s].status \notin FinalizedStatuses
    BY <2>4 DEF FinalizedStatuses
  <2> HIDE DEF WorldInv
  <2> QED
    BY <2>2, <2>3, <2>5
<1>6. ASSUME NEW s \in Session, NEW status \in Outcomes, EndSession(s, status)
      PROVE  /\ \E m \in FullManifest(s) : manifest' = [manifest EXCEPT ![s] = m]
             /\ Coexist /\ manifest[s].status \notin FinalizedStatuses
  <2>1. manifest[s] \in FullManifest(s)
    BY <1>6, FinishedIsFull DEF EndSession
  <2>2. [manifest[s] EXCEPT !.status = status] \in FullManifest(s)
    BY <2>1 DEF FullManifest
  <2> QED
    BY <1>6, <2>2 DEF EndSession, SessionChanges, FinalizedStatuses
<1>7. ASSUME NEW s \in Session, AlterManifest(s)
      PROVE  /\ \E m \in FullManifest(s) : /\ manifest' = [manifest EXCEPT ![s] = m]
                                           /\ m.status \in FinalizedStatuses
             /\ Coexist
  <2>1. manifest[s] \in FullManifest(s)
    BY <1>7, FinishedIsFull DEF AlterManifest
  <2> DEFINE m == [manifest[s] EXCEPT !.warnings = @ + 1]
  <2>2. m \in FullManifest(s) /\ m.status = manifest[s].status
    BY <2>1 DEF FullManifest
  <2> QED
    BY <1>7, <2>2 DEF AlterManifest, SessionChanges
<1> QED
  BY <1>1, <1>2, <1>3, <1>4, <1>5, <1>6, <1>7 DEF World

(* A session that has ended stays ended; what was stays what was.            *)
LEMMA WorldGoesOn ==
  ASSUME WorldInv, [Next]_vars
  PROVE  /\ ManifestsInv' /\ MomentsInv'
         /\ \A s \in Session : manifest[s].status \in FinalizedStatuses =>
              manifest'[s].status \in FinalizedStatuses
         /\ \A s \in Session : was[s] \subseteq was'[s]
<1> USE DEF WorldInv
<1>1. CASE World
  <2>1. \/ manifest' = manifest
        \/ \E s \in Session : \E m \in {NoManifest} \cup FullManifest(s) :
             /\ manifest' = [manifest EXCEPT ![s] = m]
             /\ manifest[s].status \in FinalizedStatuses => m.status \in FinalizedStatuses
    BY <1>1, ManifestChanges
  <2>2. /\ ManifestsInv'
        /\ \A s \in Session : manifest[s].status \in FinalizedStatuses =>
             manifest'[s].status \in FinalizedStatuses
    BY <2>1 DEF ManifestsInv
  <2>3. Coexist \/ UNCHANGED <<manifest, events, was>>
    BY <1>1, ManifestChanges
  <2>4. MomentsInv' /\ \A s \in Session : was[s] \subseteq was'[s]
    BY <2>3 DEF Coexist, MomentsInv, ContentsOf
  <2> QED
    BY <2>2, <2>4
<1>2. CASE RebuildStep \/ ClientStep \/ UNCHANGED vars
  <2>1. manifest' = manifest /\ was' = was /\ events' = events
    BY <1>2, OthersLeaveWorld DEF world
  <2> QED
    BY <2>1 DEF ManifestsInv, MomentsInv, ContentsOf
<1> QED
  BY <1>1, <1>2 DEF Next

(* A file of events stays as it is or is altered to what it can be; what it  *)
(* can be altered to gets less.                                              *)
LEMMA EventsMove ==
  ASSUME WorldInv, [Next]_vars
  PROVE  /\ EventsInv'
         /\ \A f : f \in DOMAIN Rewrites => Future(f)' \subseteq Future(f)
         /\ \A f : events'[f] = events[f] \/ (f \in DOMAIN Rewrites /\ events'[f] \in Future(f))
<1> USE DEF WorldInv, EventsInv
<1>1. ASSUME UNCHANGED events, spent.edits \subseteq spent'.edits, DOMAIN spent' = DOMAIN spent
      PROVE  /\ EventsInv'
             /\ \A f : f \in DOMAIN Rewrites => Future(f)' \subseteq Future(f)
  <2>1. \A f : f \in DOMAIN Rewrites => Future(f)' \subseteq Future(f)
    BY <1>1 DEF Future
  <2> QED
    BY <1>1, <2>1
<1>2. CASE RebuildStep \/ ClientStep \/ UNCHANGED vars
  BY <1>1, <1>2, OthersLeaveWorld DEF world
<1>3. ASSUME NEW edit, Disturb(edit)
      PROVE  /\ edit \notin spent.edits /\ spent'.edits = spent.edits \cup {edit}
             /\ DOMAIN spent' = DOMAIN spent
  BY <1>3 DEF Disturb
<1>4. ASSUME NEW f \in DOMAIN Rewrites, NEW i \in DOMAIN Rewrites[f], AlterEvents(f, i)
      PROVE  /\ EventsInv'
             /\ \A g : g \in DOMAIN Rewrites => Future(g)' \subseteq Future(g)
             /\ \A g : \/ events'[g] = events[g]
                       \/ g \in DOMAIN Rewrites /\ events'[g] \in Future(g)
  <2>1. /\ <<"events", f, i>> \notin spent.edits
        /\ spent'.edits = spent.edits \cup {<<"events", f, i>>} /\ DOMAIN spent' = DOMAIN spent
        /\ events' = [events EXCEPT ![f] = Rewrites[f][i]]
    BY <1>3, <1>4 DEF AlterEvents
  <2>2. \A g : g \in DOMAIN Rewrites => Future(g)' \subseteq Future(g)
    BY <2>1 DEF Future
  <2>3. Rewrites[f][i] \in Future(f)
    BY <2>1 DEF Future
  <2>4. Rewrites[f][i] \notin Future(f)'
    <3> SUFFICES ASSUME NEW j \in DOMAIN Rewrites[f], <<"events", f, j>> \notin spent'.edits,
                        Rewrites[f][j] = Rewrites[f][i]
                 PROVE  FALSE
      BY DEF Future
    <3>1. i = j
      BY IndexAssumption DEF IsInjective
    <3> QED
      BY <2>1, <3>1
  <2>5. f \in DOMAIN events
    BY IndexAssumption
  <2>6. Rewrites[f][i] \in Contents
    BY DEF Contents, Range
  <2> QED
    BY <2>1, <2>2, <2>3, <2>4, <2>5, <2>6
<1>5. CASE \E f \in DOMAIN Rewrites : \E i \in DOMAIN Rewrites[f] : AlterEvents(f, i)
  BY <1>4, <1>5
<1>6. CASE World /\ ~ \E f \in DOMAIN Rewrites : \E i \in DOMAIN Rewrites[f] : AlterEvents(f, i)
  <2>1. UNCHANGED events
    BY <1>6 DEF World, Curate, MakeDirectory, StartSession, EndSession, AlterManifest,
                CreateState, BootstrapState, ProcessSession, DetectorChanges, SessionChanges
  <2>2. UNCHANGED spent \/ \E edit : Disturb(edit)
    BY <1>6 DEF World, Curate, MakeDirectory, StartSession, EndSession, AlterManifest,
                CreateState, BootstrapState, ProcessSession, DetectorChanges
  <2>3. spent.edits \subseteq spent'.edits /\ DOMAIN spent' = DOMAIN spent
    BY <1>3, <2>2
  <2> QED
    BY <1>1, <2>1, <2>3
<1> QED
  BY <1>2, <1>5, <1>6 DEF Next

(* A content that a file has not and cannot have again stays so; one that it *)
(* has, it has still or never again.                                         *)
LEMMA GoneStays ==
  ASSUME WorldInv, [Next]_vars, NEW f, NEW content
  PROVE  /\ Gone(f, content) => Gone(f, content)'
         /\ StillOrGone(f, content) => StillOrGone(f, content)'
<1>1. /\ events'[f] = events[f] \/ (f \in DOMAIN Rewrites /\ events'[f] \in Future(f))
      /\ f \in DOMAIN Rewrites =>
           Future(f)' \subseteq Future(f) /\ events[f] \notin Future(f)
  BY EventsMove DEF WorldInv, EventsInv
<1> QED
  BY <1>1 DEF Gone, StillOrGone

LEMMA WorldInvStep ==
  ASSUME WorldInv, [Next]_vars
  PROVE  WorldInv'
<1>1. DetectorInv'
  <2>1. CASE \E s \in Session : ProcessSession(s)
    <3>1. PICK s \in Session : ProcessSession(s)
      BY <2>1
    <3>2. detector'.rows = detector.rows \cup Found[s]
      BY <3>1 DEF ProcessSession, DetectorChanges
    <3>3. IsFiniteSet(detector.rows \cup Found[s])
      BY IndexAssumption, FS_Union DEF WorldInv, DetectorInv
    <3> QED
      BY <3>2, <3>3, IndexAssumption DEF WorldInv, DetectorInv
  <2>2. CASE CreateState \/ BootstrapState
    BY <2>2, FS_EmptySet DEF CreateState, BootstrapState, DetectorChanges, DetectorInv
  <2>3. CASE UNCHANGED detector
    BY <2>3 DEF WorldInv, DetectorInv
  <2>4. World => \/ UNCHANGED detector \/ CreateState \/ BootstrapState
                 \/ \E s \in Session : ProcessSession(s)
    BY DEF World, Curate, MakeDirectory, StartSession, EndSession, AlterManifest, AlterEvents,
           SessionChanges
  <2>5. RebuildStep \/ ClientStep \/ UNCHANGED vars => UNCHANGED detector
    BY OthersLeaveWorld DEF WorldInv, world
  <2> QED
    BY <2>1, <2>2, <2>3, <2>4, <2>5 DEF Next
<1> QED
  BY <1>1, WorldGoesOn, EventsMove DEF WorldInv

-----------------------------------------------------------------------------
(* Sequences of whatever they hold.                                          *)
LEMMA AppendedSeq ==
  ASSUME NEW s, AsSeq(s), NEW x
  PROVE  /\ AsSeq(Append(s, x)) /\ Range(Append(s, x)) = Range(s) \cup {x}
         /\ Len(Append(s, x)) = Len(s) + 1 /\ Len(s) \in Nat
         /\ DOMAIN Append(s, x) = 1 .. Len(s) + 1 /\ DOMAIN s = 1 .. Len(s)
         /\ \A k \in 1 .. Len(s) : Append(s, x)[k] = s[k]
         /\ Append(s, x)[Len(s) + 1] = x
<1> DEFINE T == Range(s) \cup {x}
<1>1. s \in Seq(T)
  BY DEF AsSeq
<1> HIDE DEF T
<1>2. /\ Append(s, x) \in Seq(T) /\ Len(Append(s, x)) = Len(s) + 1 /\ Len(s) \in Nat
      /\ \A k \in 1 .. Len(s) : Append(s, x)[k] = s[k]
      /\ Append(s, x)[Len(s) + 1] = x
  <2>1. x \in T
    BY DEF T
  <2> QED
    BY <1>1, <2>1, AppendProperties
<1>3. DOMAIN Append(s, x) = 1 .. Len(s) + 1 /\ DOMAIN s = 1 .. Len(s)
  BY <1>1, <1>2
<1>4. Range(Append(s, x)) = Range(s) \cup {x}
  <2> DEFINE t == Append(s, x)
  <2>1. 1 .. Len(s) + 1 = (1 .. Len(s)) \cup {Len(s) + 1}
    BY <1>2
  <2> HIDE DEF t
  <2>2. DOMAIN t = DOMAIN s \cup {Len(s) + 1} /\ t[Len(s) + 1] = x
        /\ \A k \in DOMAIN s : t[k] = s[k]
    BY <1>2, <1>3, <2>1 DEF t
  <2>3. Range(t) = Range(s) \cup {x}
    BY <2>2 DEF Range
  <2> QED
    BY <2>3 DEF t
<1> QED
  BY <1>2, <1>3, <1>4 DEF AsSeq, T

LEMMA EmptyAsSeq == AsSeq(<<>>) /\ Range(<<>>) = {} /\ Len(<<>>) = 0 /\ DOMAIN <<>> = {}
  BY DEF AsSeq, Range

LEMMA TailedSeq ==
  ASSUME NEW S, NEW s \in Seq(S), s # <<>>
  PROVE  /\ Head(s) \in S /\ Tail(s) \in Seq(S)
         /\ Range(s) \subseteq {Head(s)} \cup Range(Tail(s))
<1>1. /\ Tail(s) \in Seq(S) /\ Head(s) \in S /\ Len(s) \in Nat /\ Len(s) > 0
      /\ Len(Tail(s)) = Len(s) - 1 /\ Head(s) = s[1]
      /\ \A k \in 1 .. Len(s) - 1 : Tail(s)[k] = s[k + 1]
  OBVIOUS
<1>2. ASSUME NEW k \in 1 .. Len(s), k # 1 PROVE s[k] \in Range(Tail(s))
  <2>1. k - 1 \in 1 .. Len(s) - 1 /\ k = (k - 1) + 1
    BY <1>1, <1>2
  <2>2. Tail(s)[k - 1] = s[k] /\ k - 1 \in DOMAIN Tail(s)
    BY <1>1, <2>1
  <2> QED
    BY <2>2 DEF Range
<1>3. DOMAIN s = 1 .. Len(s)
  OBVIOUS
<1> QED
  BY <1>1, <1>2, <1>3 DEF Range

-----------------------------------------------------------------------------
(* The steps of a rebuild keep its shape, and what each of them changes.     *)

(* A rebuild that begins, is refused, killed or done has nothing left.       *)
LEMMA IdleFields ==
  /\ DOMAIN Idle = DOMAIN [Idle EXCEPT !.pc = "refused"]
  /\ DOMAIN Idle = {"pc", "want", "got", "records", "atStart", "disturbed", "opened", "todo",
                    "first", "state", "contents", "snapshot", "summaries"}
  /\ Idle.pc = "idle" /\ [Idle EXCEPT !.pc = "refused"].pc = "refused"
  /\ Idle.summaries = <<>> /\ Idle.contents = <<>> /\ Idle.snapshot = <<>>
  /\ [Idle EXCEPT !.pc = "refused"].summaries = <<>>
  /\ [Idle EXCEPT !.pc = "refused"].contents = <<>>
  /\ Idle.state = Unread
  BY DEF Idle

LEMMA EndedFields ==
  ASSUME Rebuild \/ Refuse \/ Replace \/ Crash
  PROVE  /\ DOMAIN rebuild' = DOMAIN Idle
         /\ rebuild'.pc \in {"knowledge", "refused", "idle"}
         /\ rebuild'.summaries = <<>> /\ rebuild'.contents = <<>>
         /\ rebuild'.pc = "knowledge" => rebuild'.snapshot = <<>> /\ rebuild'.state = Unread
  BY IdleFields DEF Rebuild, Refuse, Replace, Crash, Becomes, Idle

(* What the reading of knowledge, of the changes and of the list leaves.     *)
LEMMA PreparingFields ==
  ASSUME Shape, WorldInv, ReadKnowledge \/ Project \/ OpenChanges \/ ListSessions, ~Refuse
  PROVE  /\ DOMAIN rebuild' = DOMAIN Idle
         /\ <<rebuild.pc, rebuild'.pc>> \in
              {<<"knowledge", "knowledge">>, <<"knowledge", "projected">>,
               <<"projected", "list">>, <<"list", "session">>}
         /\ rebuild'.summaries = rebuild.summaries /\ rebuild'.contents = rebuild.contents
         /\ rebuild'.snapshot = rebuild.snapshot /\ rebuild'.state = rebuild.state
         /\ rebuild'.pc = "list" => rebuild'.atStart = FinishedNow
         /\ rebuild'.pc = "session" =>
              /\ rebuild'.todo = Numbers({s \in Session : manifest[s] # NoDirectory})
              /\ rebuild'.atStart = rebuild.atStart
<1> USE IdleFields DEF Shape
<1>1. CASE ReadKnowledge
  BY <1>1 DEF ReadKnowledge, Becomes
<1>2. CASE Project
  <2>1. \E projection : rebuild.pc = "knowledge" /\
          rebuild' = [rebuild EXCEPT !.pc = "projected", !.records = projection, !.got = <<>>]
    BY <1>2 DEF Project, Becomes
  <2> QED
    BY <2>1
<1>3. CASE OpenChanges
  <2>1. rebuild.pc = "projected" /\
          rebuild' = [rebuild EXCEPT !.pc = "list", !.opened = detector.stage = "ready",
                                     !.atStart = FinishedNow]
    BY <1>3 DEF OpenChanges, Becomes
  <2> QED
    BY <2>1
<1>4. CASE ListSessions
  <2>1. rebuild.pc = "list" /\
          rebuild' = [rebuild EXCEPT !.pc = "session",
                        !.todo = Numbers({s \in Session : manifest[s] # NoDirectory})]
    BY <1>4 DEF ListSessions, Becomes
  <2> QED
    BY <2>1
<1> QED
  BY <1>1, <1>2, <1>3, <1>4

(* What the steps that read a session change, when they are not refused.     *)
Keeps == DOMAIN rebuild' = DOMAIN Idle /\ rebuild'.atStart = rebuild.atStart

Skips ==
  /\ rebuild.pc = "session" /\ rebuild.todo # <<>> /\ ~IsFinalized(manifest[This])
  /\ rebuild'.pc = "session" /\ rebuild'.todo = Tail(rebuild.todo)
  /\ rebuild'.contents = <<>> /\ rebuild'.snapshot = <<>> /\ rebuild'.state = Unread
  /\ rebuild'.summaries = rebuild.summaries

Begins ==
  /\ rebuild.pc = "session" /\ rebuild.todo # <<>> /\ IsFinalized(manifest[This])
  /\ rebuild'.pc = "inspect" /\ rebuild'.first = manifest[This]
  /\ rebuild'.todo = rebuild.todo /\ rebuild'.contents = rebuild.contents
  /\ rebuild'.snapshot = rebuild.snapshot /\ rebuild'.summaries = rebuild.summaries
  /\ rebuild'.state = rebuild.state

Inspects ==
  /\ rebuild.pc = "inspect" /\ Len(rebuild.contents) < Len(rebuild.first.files)
  /\ rebuild'.pc = "inspect"
  /\ rebuild'.contents =
       Append(rebuild.contents, events[rebuild.first.files[Len(rebuild.contents) + 1]])
  /\ rebuild'.todo = rebuild.todo /\ rebuild'.first = rebuild.first
  /\ rebuild'.snapshot = rebuild.snapshot /\ rebuild'.summaries = rebuild.summaries
  /\ rebuild'.state = ReadEvents(This, rebuild.state,
                                 events[rebuild.first.files[Len(rebuild.contents) + 1]])
  /\ rebuild'.state.valid

FindsSame ==
  /\ rebuild.pc = "inspect" /\ Len(rebuild.contents) = Len(rebuild.first.files)
  /\ manifest[This] = rebuild.first
  /\ rebuild'.pc = "stage"
  /\ rebuild'.todo = rebuild.todo /\ rebuild'.first = rebuild.first
  /\ rebuild'.contents = rebuild.contents
  /\ rebuild'.snapshot = rebuild.snapshot /\ rebuild'.summaries = rebuild.summaries
  /\ rebuild'.state = rebuild.state

Stages ==
  /\ rebuild.pc = "stage" /\ Len(rebuild.snapshot) < Len(rebuild.first.files)
  /\ rebuild'.pc = "stage"
  /\ rebuild'.snapshot =
       Append(rebuild.snapshot, events[rebuild.first.files[Len(rebuild.snapshot) + 1]])
  /\ rebuild'.todo = rebuild.todo /\ rebuild'.first = rebuild.first
  /\ rebuild'.contents = rebuild.contents /\ rebuild'.summaries = rebuild.summaries
  /\ rebuild'.state = rebuild.state

Sums ==
  /\ rebuild.pc = "stage" /\ Len(rebuild.snapshot) = Len(rebuild.first.files)
  /\ rebuild.snapshot = rebuild.contents
  /\ rebuild'.pc = "session" /\ rebuild'.todo = Tail(rebuild.todo)
  /\ rebuild'.contents = <<>> /\ rebuild'.snapshot = <<>> /\ rebuild'.state = Unread
  /\ rebuild'.summaries =
       Append(rebuild.summaries, SessionSummary(This, Inspected, rebuild.snapshot,
                                                rebuild.first.warnings))

Builds ==
  /\ rebuild.pc = "session" /\ rebuild.todo = <<>>
  /\ Keyed(rebuild.summaries, LAMBDA s : s.session)
  /\ rebuild'.pc = "staged" /\ rebuild'.snapshot \in {{}, detector.rows}
  /\ rebuild'.contents = rebuild.contents /\ rebuild'.summaries = rebuild.summaries

LEMMA ReadingFields ==
  ASSUME Shape,
         \/ ReadManifest \/ InspectFile \/ ReadAgain \/ StageFile \/ Summarise \/ Build,
         ~Refuse
  PROVE  Keeps /\ (Skips \/ Begins \/ Inspects \/ FindsSame \/ Stages \/ Sums \/ Builds)
<1> USE IdleFields DEF Shape
<1>1. CASE ReadManifest
  <2>1. rebuild.pc = "session" /\ rebuild.todo # <<>>
    BY <1>1 DEF ReadManifest
  <2>2. CASE ~IsFinalized(manifest[This])
    <3>1. rebuild' = NextSession
      BY <1>1, <2>2 DEF ReadManifest, Becomes
    <3>2. Keeps /\ rebuild'.pc = "session" /\ rebuild'.todo = Tail(rebuild.todo)
          /\ rebuild'.contents = <<>> /\ rebuild'.snapshot = <<>> /\ rebuild'.state = Unread
          /\ rebuild'.summaries = rebuild.summaries
      BY <3>1 DEF NextSession, Keeps
    <3> QED
      BY <2>1, <2>2, <3>2 DEF Skips
  <2>3. CASE IsFinalized(manifest[This])
    <3>1. rebuild' = [rebuild EXCEPT !.pc = "inspect", !.first = manifest[This]]
      BY <1>1, <2>3 DEF ReadManifest, Becomes
    <3> QED
      BY <2>1, <2>3, <3>1 DEF Begins, Keeps
  <2> QED
    BY <2>2, <2>3
<1>2. CASE InspectFile
  <2>1. PICK state :
          /\ state = ReadEvents(This, rebuild.state,
                                events[rebuild.first.files[Len(rebuild.contents) + 1]])
          /\ state.valid
          /\ rebuild' = [rebuild EXCEPT !.state = state, !.contents =
               Append(rebuild.contents, events[rebuild.first.files[Len(rebuild.contents) + 1]])]
    BY <1>2 DEF InspectFile, Becomes
  <2> DEFINE content == events[rebuild.first.files[Len(rebuild.contents) + 1]]
             contents == Append(rebuild.contents, content)
  <2>2. rebuild' = [rebuild EXCEPT !.state = state, !.contents = contents]
    BY <2>1
  <2>3. rebuild.pc = "inspect" /\ Len(rebuild.contents) < Len(rebuild.first.files)
    BY <1>2 DEF InspectFile
  <2> HIDE DEF contents
  <2>4. Keeps /\ rebuild'.pc = "inspect" /\ rebuild'.contents = contents
        /\ rebuild'.todo = rebuild.todo /\ rebuild'.first = rebuild.first
        /\ rebuild'.snapshot = rebuild.snapshot /\ rebuild'.summaries = rebuild.summaries
        /\ rebuild'.state = state
    BY <2>2, <2>3 DEF Keeps
  <2> QED
    BY <2>1, <2>3, <2>4 DEF Inspects, contents
<1>3. CASE ReadAgain
  <2>1. /\ rebuild.pc = "inspect" /\ Len(rebuild.contents) = Len(rebuild.first.files)
        /\ SameManifest(Inspected, manifest[This])
        /\ rebuild' = [rebuild EXCEPT !.pc = "stage"]
    BY <1>3 DEF ReadAgain, Becomes
  <2>2. manifest[This] = rebuild.first
    BY <2>1 DEF SameManifest, Inspected, Identity
  <2> QED
    BY <2>1, <2>2 DEF FindsSame, Keeps
<1>4. CASE StageFile
  <2> DEFINE content == events[rebuild.first.files[Len(rebuild.snapshot) + 1]]
             snapshot == Append(rebuild.snapshot, content)
  <2>1. /\ rebuild.pc = "stage" /\ Len(rebuild.snapshot) < Len(rebuild.first.files)
        /\ rebuild' = [rebuild EXCEPT !.snapshot = snapshot]
    BY <1>4 DEF StageFile, Becomes
  <2> HIDE DEF snapshot
  <2>2. Keeps /\ rebuild'.pc = "stage" /\ rebuild'.snapshot = snapshot
        /\ rebuild'.todo = rebuild.todo /\ rebuild'.first = rebuild.first
        /\ rebuild'.contents = rebuild.contents /\ rebuild'.summaries = rebuild.summaries
        /\ rebuild'.state = rebuild.state
    BY <2>1 DEF Keeps
  <2> QED
    BY <2>1, <2>2 DEF Stages, snapshot
<1>5. CASE Summarise
  <2> DEFINE row == SessionSummary(This, Inspected, rebuild.snapshot, rebuild.first.warnings)
             rows == Append(rebuild.summaries, row)
  <2> HIDE DEF row
  <2>1. /\ rebuild.pc = "stage" /\ Len(rebuild.snapshot) = Len(rebuild.first.files)
        /\ SameEvidence(Inspected, rebuild.first, rebuild.snapshot)
        /\ rebuild' = [NextSession EXCEPT !.summaries = Append(NextSession.summaries, row)]
    BY <1>5 DEF Summarise, Becomes, row
  <2>2. rebuild.snapshot = rebuild.contents
    BY <2>1 DEF SameEvidence, Inspected, Identity
  <2>3. NextSession.summaries = rebuild.summaries
    BY DEF NextSession
  <2>4. rebuild' = [NextSession EXCEPT !.summaries = rows]
    BY <2>1, <2>3
  <2> HIDE DEF rows
  <2>5. Keeps /\ rebuild'.pc = "session" /\ rebuild'.todo = Tail(rebuild.todo)
        /\ rebuild'.contents = <<>> /\ rebuild'.snapshot = <<>> /\ rebuild'.summaries = rows
        /\ rebuild'.state = Unread
    BY <2>4 DEF NextSession, Keeps
  <2> QED
    BY <2>1, <2>2, <2>5 DEF Sums, rows, row
<1>6. CASE Build
  <2> DEFINE changes == IF rebuild.opened THEN detector.rows ELSE {}
  <2>1. /\ rebuild.pc = "session" /\ rebuild.todo = <<>>
        /\ RuntimeAccepted(rebuild.summaries, changes)
        /\ rebuild' = [rebuild EXCEPT !.pc = "staged", !.snapshot = changes]
    BY <1>6 DEF Build, Becomes
  <2>2. Keyed(rebuild.summaries, LAMBDA s : s.session)
    BY <2>1 DEF RuntimeAccepted
  <2>3. changes \in {{}, detector.rows}
    OBVIOUS
  <2> HIDE DEF changes
  <2>4. Keeps /\ rebuild'.pc = "staged" /\ rebuild'.snapshot = changes
        /\ rebuild'.contents = rebuild.contents /\ rebuild'.summaries = rebuild.summaries
    BY <2>1 DEF Keeps
  <2> QED
    BY <2>1, <2>2, <2>3, <2>4 DEF Builds
<1> QED
  BY <1>1, <1>2, <1>3, <1>4, <1>5, <1>6

-----------------------------------------------------------------------------
(* Of a summary, the session and its start.                                  *)
LEMMA SummaryFields ==
  ASSUME NEW s, NEW identity, NEW snapshot, NEW warnings
  PROVE  /\ SessionSummary(s, identity, snapshot, warnings).session = s
         /\ SessionSummary(s, identity, snapshot, warnings).started = identity.manifest.started
  BY DEF SessionSummary

(* The steps of the world and of the client leave what the rebuild has.      *)
Undisturbed ==
  /\ DOMAIN rebuild' = DOMAIN Idle /\ rebuild'.pc = rebuild.pc
  /\ rebuild'.todo = rebuild.todo /\ rebuild'.first = rebuild.first
  /\ rebuild'.contents = rebuild.contents /\ rebuild'.snapshot = rebuild.snapshot
  /\ rebuild'.summaries = rebuild.summaries /\ rebuild'.atStart = rebuild.atStart
  /\ rebuild'.state = rebuild.state

LEMMA StepsOfOthers ==
  ASSUME Shape, World \/ ClientStep \/ UNCHANGED vars
  PROVE  Undisturbed /\ UNCHANGED index
<1>1. rebuild' \in {rebuild, [rebuild EXCEPT !.disturbed = TRUE]} /\ UNCHANGED index
  <2>1. CASE World
    BY <2>1, WorldLeaves
  <2>2. CASE ClientStep
    BY <2>2 DEF ClientStep, List, NextPage, AnswerClient
  <2>3. CASE UNCHANGED vars
    BY <2>3 DEF vars
  <2> QED
    BY <2>1, <2>2, <2>3
<1> QED
  BY <1>1, IdleFields DEF Shape, Undisturbed

(* The steps of a rebuild by what they change.                               *)
LEMMA RebuildSteps ==
  ASSUME Shape, WorldInv, RebuildStep
  PROVE  \/ Rebuild \/ Refuse \/ Replace \/ Crash
         \/ (ReadKnowledge \/ Project \/ OpenChanges \/ ListSessions) /\ ~Refuse
         \/ Keeps /\ (Skips \/ Begins \/ Inspects \/ FindsSame \/ Stages \/ Sums \/ Builds)
  BY ReadingFields DEF RebuildStep

LEMMA SeqOfMore ==
  ASSUME NEW S, NEW T, S \subseteq T, NEW s \in Seq(S)
  PROVE  s \in Seq(T)
OBVIOUS

(* The sessions of the list are those that have a directory.                 *)
LEMMA ListedSessions ==
  LET S == {s \in Session : manifest[s] # NoDirectory}
  IN Numbers(S) \in Seq(Session) /\ Range(Numbers(S)) = S
<1> DEFINE S == {s \in Session : manifest[s] # NoDirectory}
<1>1. S \subseteq Session /\ S \subseteq Int /\ IsFiniteSet(S)
  BY IndexAssumption, FS_Subset
<1> HIDE DEF S
<1>2. Numbers(S) \in Seq(S) /\ Range(Numbers(S)) = S
  BY <1>1, NumbersInOrder
<1>3. Numbers(S) \in Seq(Session)
  BY <1>1, <1>2, SeqOfMore
<1> QED
  BY <1>2, <1>3 DEF S

LEMMA ProgressInvStep ==
  ASSUME ProgressInv, WorldInv, [Next]_vars
  PROVE  ProgressInv'
<1> USE DEF ProgressInv, Shape, Reading
<1>1. CASE World \/ ClientStep \/ UNCHANGED vars
  BY <1>1, StepsOfOthers DEF Undisturbed
<1>2. CASE Rebuild \/ Refuse \/ Replace \/ Crash
  BY <1>2, EndedFields, EmptyAsSeq
<1>3. CASE (ReadKnowledge \/ Project \/ OpenChanges \/ ListSessions) /\ ~Refuse
  <2>1. rebuild'.pc = "session" => rebuild'.todo \in Seq(Session)
    BY <1>3, PreparingFields, ListedSessions
  <2>2. rebuild.pc \in {"knowledge", "projected", "list"}
    BY <1>3, PreparingFields
  <2> QED
    BY <1>3, <2>1, <2>2, PreparingFields
<1>4. CASE Keeps /\ (Skips \/ Begins \/ Inspects \/ FindsSame \/ Stages \/ Sums \/ Builds)
  <2>1. CASE Skips
    BY <1>4, <2>1, TailedSeq, EmptyAsSeq DEF Skips, Keeps
  <2>2. CASE Begins
    BY <1>4, <2>2 DEF Begins, Keeps
  <2>3. CASE Inspects
    BY <1>4, <2>3, AppendedSeq DEF Inspects, Keeps
  <2>4. CASE FindsSame \/ Stages
    BY <1>4, <2>4 DEF FindsSame, Stages, Keeps
  <2>5. CASE Sums
    BY <1>4, <2>5, AppendedSeq, TailedSeq, EmptyAsSeq DEF Sums, Keeps
  <2>6. CASE Builds
    BY <1>4, <2>6 DEF Builds, Keeps
  <2> QED
    BY <1>4, <2>1, <2>2, <2>3, <2>4, <2>5, <2>6
<1> QED
  BY <1>1, <1>2, <1>3, <1>4, RebuildSteps DEF Next

(* A session leaves the list when it has not ended, or with its summary.     *)
LEMMA MissingInvStep ==
  ASSUME MissingInv, ProgressInv, WorldInv, [Next]_vars
  PROVE  MissingInv'
<1> USE DEF MissingInv, Reading, Summarised
<1>0. Shape /\ \A s \in Session : manifest[s].status \in FinalizedStatuses =>
                 manifest'[s].status \in FinalizedStatuses
  BY WorldGoesOn DEF ProgressInv
<1>1. CASE World \/ ClientStep \/ UNCHANGED vars
  BY <1>0, <1>1, StepsOfOthers DEF Undisturbed
<1>2. CASE Rebuild \/ Refuse \/ Replace \/ Crash
  BY <1>2, EndedFields
<1>3. CASE (ReadKnowledge \/ Project \/ OpenChanges \/ ListSessions) /\ ~Refuse
  <2>0. rebuild'.pc \in {"knowledge", "projected", "list", "session"}
        /\ (rebuild'.pc = "session" => rebuild.pc = "list")
    BY <1>0, <1>3, PreparingFields
  <2>1. rebuild'.pc = "list" => MissingInv'
    BY <1>0, <1>3, PreparingFields DEF FinishedNow
  <2>2. ASSUME rebuild'.pc = "session" PROVE MissingInv'
    <3>1. rebuild'.atStart = rebuild.atStart
          /\ \A s \in rebuild.atStart : s \in Session /\ manifest[s].status \in FinalizedStatuses
      BY <1>0, <1>3, <2>0, <2>2, PreparingFields
    <3>2. Range(rebuild'.todo) = {s \in Session : manifest[s] # NoDirectory}
      BY <1>0, <1>3, <2>2, PreparingFields, ListedSessions
    <3>3. \A s : manifest[s].status \in FinalizedStatuses => manifest[s] # NoDirectory
      BY DEF NoDirectory, FinalizedStatuses
    <3> QED
      BY <1>0, <2>2, <3>1, <3>2, <3>3
  <2> QED
    BY <2>0, <2>1, <2>2
<1>4. CASE Keeps /\ (Skips \/ Begins \/ Inspects \/ FindsSame \/ Stages \/ Sums \/ Builds)
  <2>0. /\ rebuild.pc \in {"list", "session", "inspect", "stage", "staged"}
        /\ \A s \in rebuild'.atStart : s \in Session /\ manifest'[s].status \in FinalizedStatuses
        /\ rebuild'.atStart = rebuild.atStart /\ rebuild.atStart \subseteq Summarised \cup Range(rebuild.todo)
    BY <1>0, <1>4 DEF Keeps, Skips, Begins, Inspects, FindsSame, Stages, Sums, Builds
  <2>1. CASE Skips
    <3>1. Range(rebuild.todo) \subseteq {This} \cup Range(Tail(rebuild.todo))
      BY <2>1, TailedSeq DEF Skips, ProgressInv, This, Reading
    <3>2. This \notin rebuild.atStart
      BY <2>0, <2>1 DEF Skips, IsFinalized
    <3> QED
      BY <2>0, <2>1, <3>1, <3>2 DEF Skips
  <2>2. CASE Begins \/ Inspects \/ FindsSame \/ Stages
    BY <2>0, <2>2 DEF Begins, Inspects, FindsSame, Stages
  <2>3. CASE Sums
    <3>1. Range(rebuild.todo) \subseteq {This} \cup Range(Tail(rebuild.todo))
      BY <2>3, TailedSeq DEF Sums, ProgressInv, This, Reading
    <3>2. PICK row : row.session = This
                     /\ rebuild'.summaries = Append(rebuild.summaries, row)
      BY <2>3, SummaryFields DEF Sums
    <3>3. Range(rebuild'.summaries) = Range(rebuild.summaries) \cup {row}
      BY <3>2, AppendedSeq DEF ProgressInv
    <3>4. Summarised' = Summarised \cup {This}
      BY <3>2, <3>3
    <3>5. rebuild'.pc = "session" /\ rebuild'.todo = Tail(rebuild.todo)
      BY <2>3 DEF Sums
    <3>6. rebuild'.atStart \subseteq Summarised' \cup Range(rebuild'.todo)
      BY <2>0, <3>1, <3>4, <3>5
    <3> HIDE DEF Summarised
    <3> QED
      BY <2>0, <3>5, <3>6
  <2>4. CASE Builds
    <3>1. Range(rebuild.todo) = {}
      BY <2>4, EmptyAsSeq DEF Builds
    <3> QED
      BY <2>0, <2>4, <3>1 DEF Builds
  <2> QED
    BY <1>4, <2>1, <2>2, <2>3, <2>4
<1> QED
  BY <1>0, <1>1, <1>2, <1>3, <1>4, RebuildSteps DEF Next

-----------------------------------------------------------------------------
(* At first: the sessions that have ended have full manifests.               *)
LEMMA FirstManifestIsFull ==
  ASSUME NEW s \in Session
  PROVE  IF s \in Finished
         THEN /\ FirstManifest(s) \in FullManifest(s)
              /\ FirstManifest(s).status = "completed" /\ FirstManifest(s).warnings = 0
         ELSE FirstManifest(s) = NoDirectory
<1>1. CASE s \in Finished
  <2>1. PICK t \in Times[s] : t[1] <= t[2]
    BY <1>1, IndexAssumption
  <2>2. (CHOOSE u \in Times[s] : u[1] <= u[2]) \in Times[s]
    BY <2>1
  <2>3. PICK u \in Times[s] : FirstManifest(s) = Manifest(s, "completed", u)
    BY <1>1, <2>2 DEF FirstManifest
  <2>4. Manifest(s, "completed", u).status = "completed" /\ Manifest(s, "completed", u).warnings = 0
    BY DEF Manifest
  <2> QED
    BY <1>1, <2>3, <2>4, ManifestIsFull
<1>2. CASE s \notin Finished
  BY <1>2 DEF FirstManifest
<1> QED
  BY <1>1, <1>2

LEMMA WorldInvInit ==
  ASSUME Init
  PROVE  WorldInv
<1> USE DEF Init
<1>1. ManifestsInv
  BY FirstManifestIsFull DEF ManifestsInv
<1>2. DetectorInv
  BY FS_EmptySet DEF DetectorInv
<1>3. MomentsInv
  BY DEF MomentsInv
<1>4. EventsInv
  <2>1. \A f \in DOMAIN Rewrites : Recorded[f] \notin Range(Rewrites[f])
    BY IndexAssumption
  <2>2. \A f \in DOMAIN Rewrites : Future(f) \subseteq Range(Rewrites[f])
    BY DEF Future, Range
  <2>3. \A f \in DOMAIN Recorded : Recorded[f] \in Contents
    BY DEF Contents, Range
  <2> QED
    BY <2>1, <2>2, <2>3 DEF EventsInv
<1> QED
  BY <1>1, <1>2, <1>3, <1>4 DEF WorldInv

LEMMA ProgressInit ==
  ASSUME Init
  PROVE  ProgressInv /\ MissingInv
<1>1. rebuild = Idle
  BY DEF Init
<1> QED
  BY <1>1, IdleFields, EmptyAsSeq DEF ProgressInv, MissingInv, Shape, Reading

(* What is about to be put in place has every session that had ended when    *)
(* the rebuild turned to the sessions.                                       *)
THEOREM NoSessionIsMissed == Spec => []NothingFinishedIsMissed
<1> DEFINE Inv == WorldInv /\ ProgressInv /\ MissingInv
<1>1. Init => Inv
  BY WorldInvInit, ProgressInit
<1>2. Inv /\ [Next]_vars => Inv'
  BY WorldInvStep, ProgressInvStep, MissingInvStep
<1>3. Inv => NothingFinishedIsMissed
  BY DEF MissingInv, NothingFinishedIsMissed, Summarised
<1> QED
  BY <1>1, <1>2, <1>3, PTL DEF Spec

-----------------------------------------------------------------------------
(* What was evident stays so: what was on disk together was so for ever.     *)
LEMMA EvidentStays ==
  ASSUME WorldInv, [Next]_vars, NEW row, Evident(row)
  PROVE  Evident(row)'
  BY WorldGoesOn DEF Evident

LEMMA EvidenceInit ==
  ASSUME Init
  PROVE  EvidenceInv
<1> USE DEF Init
<1>1. rebuild.pc = "idle" /\ Range(rebuild.summaries) = {}
  BY IdleFields, EmptyAsSeq
<1>2. ASSUME NEW row \in index.sessions PROVE Evident(row)
  <2>1. CASE index = NoIndex
    BY <1>2, <2>1 DEF NoIndex
  <2>2. CASE index = FirstIndex
    <3>1. PICK i \in 1 .. Cardinality(Finished) :
            LET s == Numbers(Finished)[i]
                identity == Identity(FirstManifest(s), ContentsOf(s, Recorded))
            IN row = SessionSummary(s, identity, identity.contents, 0)
      BY <1>2, <2>2 DEF FirstIndex, Index, Range
    <3> DEFINE s == Numbers(Finished)[i]
               m == FirstManifest(s)
               c == ContentsOf(s, Recorded)
    <3>2. s \in Finished
      <4>1. Finished \subseteq Int /\ IsFiniteSet(Finished)
        BY IndexAssumption, FS_Subset
      <4>2. Numbers(Finished) \in Seq(Finished) /\ Len(Numbers(Finished)) = Cardinality(Finished)
        BY <4>1, NumbersInOrder
      <4> QED
        BY ONLY i \in 1 .. Cardinality(Finished), <4>2
    <3>3. s \in Session
      BY <3>2, IndexAssumption
    <3>4. m \in FullManifest(s) /\ m.status = "completed" /\ m.warnings = 0
      BY <3>2, <3>3, FirstManifestIsFull
    <3>5. row = SessionSummary(s, Identity(m, c), c, m.warnings)
      BY <3>1, <3>4 DEF Identity
    <3>6. <<m, c>> \in was[s]
      BY <3>3
    <3> HIDE DEF s, m, c, Init
    <3>7. row.session = s
      BY <3>5, SummaryFields
    <3>8. Genuine(s, <<m, c>>)
      BY <3>2, FirstAreGenuine DEF m, c
    <3>9. \E moment \in was[s] :
            /\ moment[1] \in FullManifest(s) /\ Genuine(s, moment)
            /\ row = SessionSummary(s, Identity(moment[1], moment[2]), moment[2], moment[1].warnings)
      <4> WITNESS <<m, c>> \in was[s]
      <4> QED
        BY <3>4, <3>5, <3>8
    <3> QED
      BY <3>3, <3>7, <3>9 DEF Evident
  <2> QED
    BY <2>1, <2>2
<1> QED
  BY <1>1, <1>2 DEF EvidenceInv

(* What a rebuild has of a session at hand stays true while the world goes   *)
(* on and the rebuild does not.                                              *)
LEMMA EvidenceGoesOn ==
  ASSUME WorldInv, ProgressInv, EvidenceInv, [Next]_vars, Undisturbed
  PROVE  /\ rebuild'.pc \in {"inspect", "stage"} => InspectingInv' /\ ReadInv'
         /\ rebuild'.pc = "stage" => StagingInv'
<1>0. /\ rebuild'.pc = rebuild.pc /\ This' = This /\ rebuild'.first = rebuild.first
      /\ rebuild'.contents = rebuild.contents /\ rebuild'.snapshot = rebuild.snapshot
  BY DEF Undisturbed, This
<1>1. PICK first, contents : first = rebuild.first /\ contents = rebuild.contents
  OBVIOUS
<1>2. /\ \A k : StillOrGone(first.files[k], contents[k]) =>
                 StillOrGone(first.files[k], contents[k])'
      /\ \A k : Gone(first.files[k], contents[k]) => Gone(first.files[k], contents[k])'
  BY GoneStays
<1>3. ASSUME rebuild.pc \in {"inspect", "stage"} PROVE InspectingInv'
  <2>1. InspectingInv
    BY <1>3 DEF EvidenceInv
  <2>2. \A k \in DOMAIN contents : StillOrGone(first.files[k], contents[k])'
    BY <1>1, <1>2, <2>1 DEF InspectingInv
  <2>3. \A k \in DOMAIN rebuild'.contents :
          StillOrGone(rebuild.first.files[k], rebuild.contents[k])'
    BY <1>0, <1>1, <2>2
  <2>4. rebuild'.first \in FullManifest(This)'
    BY <1>0, <2>1 DEF InspectingInv, FullManifest
  <2> QED
    BY <1>0, <2>1, <2>3, <2>4 DEF InspectingInv
<1>4. ASSUME rebuild.pc = "stage" PROVE StagingInv'
  <2>1. StagingInv
    BY <1>4 DEF EvidenceInv
  <2>2. PICK moment \in was[This] : Confirms(moment)
    BY <2>1 DEF StagingInv
  <2>3. Head(rebuild.todo) \in Session
    BY <1>4, TailedSeq DEF ProgressInv, Reading
  <2>4. moment \in was'[This]
    BY <2>2, <2>3, WorldGoesOn DEF This
  <2>5. \A k \in DOMAIN first.files :
          moment[2][k] = contents[k] \/ Gone(first.files[k], contents[k])'
    BY <1>1, <1>2, <2>2 DEF Confirms
  <2>6. \A k \in DOMAIN rebuild'.first.files :
          moment[2][k] = contents[k] \/ Gone(rebuild.first.files[k], rebuild.contents[k])'
    BY <1>0, <1>1, <2>5
  <2>7. Confirms(moment)'
    BY <1>0, <1>1, <2>2, <2>6 DEF Confirms
  <2> QED
    BY <1>0, <2>1, <2>4, <2>7 DEF StagingInv
<1>5. ASSUME rebuild.pc \in {"inspect", "stage"} PROVE ReadInv'
  BY <1>0, <1>5 DEF EvidenceInv, ReadInv, Undisturbed
<1> QED
  BY <1>0, <1>3, <1>4, <1>5

(* What has been inspected, when the manifest is found to be the same: the   *)
(* moment now confirms it.                                                   *)
LEMMA FoundSameIsConfirmed ==
  ASSUME WorldInv, ProgressInv, EvidenceInv, Keeps, FindsSame, UNCHANGED world,
         UNCHANGED spent
  PROVE  InspectingInv' /\ StagingInv'
<1>0. /\ rebuild.pc = "inspect" /\ Len(rebuild.contents) = Len(rebuild.first.files)
      /\ manifest[This] = rebuild.first /\ This' = This
      /\ rebuild'.pc = "stage" /\ rebuild'.first = rebuild.first
      /\ rebuild'.contents = rebuild.contents /\ rebuild'.snapshot = rebuild.snapshot
      /\ UNCHANGED <<events, was>>
  BY DEF FindsSame, This, world
<1>1. InspectingInv /\ rebuild.snapshot = <<>>
  BY <1>0 DEF EvidenceInv, InspectingInv
<1>2. InspectingInv'
  BY <1>0, <1>1, SMTT(30) DEF InspectingInv, StillOrGone, Gone, Future, FullManifest
<1>3. This \in Session
  BY <1>0, TailedSeq DEF ProgressInv, Reading, This
<1> DEFINE moment == <<manifest[This], ContentsOf(This, events)>>
<1>4. moment \in was[This]
  BY <1>3 DEF WorldInv, MomentsInv
<1>5. rebuild.first.files = FilesOf[This]
  BY <1>1 DEF InspectingInv, FullManifest
<1>6. \A k \in DOMAIN rebuild.first.files : k \in DOMAIN rebuild.contents
  <2>1. FilesOf[This] \in Seq(DOMAIN Recorded)
    BY <1>3, IndexAssumption
  <2>2. rebuild.contents \in Seq(Range(rebuild.contents))
    BY DEF ProgressInv, AsSeq
  <2>3. DOMAIN FilesOf[This] = 1 .. Len(FilesOf[This])
    BY <2>1
  <2>4. DOMAIN rebuild.contents = 1 .. Len(rebuild.contents)
    BY <2>2
  <2> QED
    BY <1>0, <1>5, <2>3, <2>4
<1>7. \A k \in DOMAIN rebuild.first.files :
        moment[2][k] = rebuild.contents[k] \/ Gone(rebuild.first.files[k], rebuild.contents[k])
  BY <1>1, <1>5, <1>6 DEF InspectingInv, StillOrGone, ContentsOf
<1>8. moment[2] = [k \in DOMAIN FilesOf[This] |-> moment[2][k]]
  BY DEF ContentsOf
<1>9. DOMAIN rebuild.snapshot = {}
  BY <1>1, EmptyAsSeq
<1>10. moment[1] = rebuild.first
  BY <1>0
<1> HIDE DEF moment
<1>11. Confirms(moment)
  BY <1>7, <1>8, <1>9, <1>10 DEF Confirms
<1>12. PICK now : now = moment
  OBVIOUS
<1>13. Confirms(now)'
  <2>1. \A k : Gone(rebuild.first.files[k], rebuild.contents[k]) =>
               Gone(rebuild.first.files[k], rebuild.contents[k])'
    BY <1>0 DEF Gone, Future
  <2> QED
    BY <1>0, <1>11, <1>12, <2>1 DEF Confirms
<1>14. AsSeq(rebuild.snapshot) /\ Len(rebuild.snapshot) = 0 /\ 0 <= Len(rebuild.first.files)
  <2>1. FilesOf[This] \in Seq(DOMAIN Recorded)
    BY <1>3, IndexAssumption
  <2> QED
    BY <1>1, <1>5, <2>1, EmptyAsSeq
<1> QED
  BY <1>0, <1>2, <1>4, <1>12, <1>13, <1>14 DEF StagingInv

(* What has been read stays so, and goes on with each file.                  *)
LEMMA ReadStays ==
  ASSUME ReadInv, rebuild'.contents = rebuild.contents, rebuild'.state = rebuild.state,
         rebuild'.todo = rebuild.todo
  PROVE  ReadInv'
  BY DEF ReadInv, This

LEMMA ReadBegins ==
  ASSUME ProgressInv, Begins
  PROVE  ReadInv'
<1>1. rebuild'.contents = <<>> /\ rebuild'.state = Unread
  BY DEF Begins, ProgressInv
<1>2. FlattenSeq(<<>>) = <<>>
  BY DEF FlattenSeq
<1>3. Unread \in Reader(Id) /\ Unread.valid
  BY DEF Unread, NoIds, Reader
<1>4. HasRead(This', Unread, <<>>)
  BY DEF HasRead, Unread, NoIds, Known, IdsOf, AreOf
<1> QED
  BY <1>1, <1>2, <1>3, <1>4 DEF ReadInv

LEMMA ReadGoesOn ==
  ASSUME WorldInv, ProgressInv, InspectingInv, ReadInv, Inspects
  PROVE  ReadInv'
<1> DEFINE file == rebuild.first.files[Len(rebuild.contents) + 1]
<1>1. PICK contents, state, content :
        /\ contents = rebuild.contents /\ state = rebuild.state /\ content = events[file]
  OBVIOUS
<1>2. /\ rebuild'.contents = Append(contents, content)
      /\ rebuild'.state = ReadEvents(This, state, content) /\ rebuild'.state.valid
      /\ This' = This
  BY <1>1 DEF Inspects, This
<1>3. content \in Seq(Event)
  <2>1. This \in Session
    BY TailedSeq DEF ProgressInv, Reading, This, Inspects
  <2>2. FilesOf[This] \in Seq(DOMAIN Recorded) /\ rebuild.first.files = FilesOf[This]
    BY <2>1, IndexAssumption DEF InspectingInv, FullManifest
  <2>3. Len(rebuild.contents) \in Nat /\ Len(rebuild.contents) < Len(rebuild.first.files)
    BY DEF ProgressInv, AsSeq, Inspects
  <2>4. file \in DOMAIN Recorded
    BY <2>2, <2>3
  <2>5. content \in Contents
    BY <1>1, <2>4 DEF WorldInv, EventsInv
  <2>6. content \in Seq(Range(content)) /\ Range(content) \subseteq Event
    BY <2>5, IndexAssumption DEF Event
  <2> QED
    BY <2>6
<1>4. /\ contents \in Seq(Seq(Event)) /\ state \in Reader(Id)
      /\ HasRead(This, state, FlattenSeq(contents))
  BY <1>1 DEF ReadInv
<1>5. /\ FlattenSeq(contents) \in Seq(Event)
      /\ FlattenSeq(Append(contents, content)) = FlattenSeq(contents) \o content
  BY <1>3, <1>4, FlattenAppend
<1>6. \A e \in Event : e.id \in Id
  BY DEF Id
<1>7. /\ ReadEvents(This, state, content) \in Reader(Id)
      /\ HasRead(This, ReadEvents(This, state, content), FlattenSeq(contents) \o content)
  <2>1. PICK all : all = FlattenSeq(contents)
    OBVIOUS
  <2> QED
    BY <1>3, <1>4, <1>5, <1>6, <2>1, ReadsFile
<1>8. Append(contents, content) \in Seq(Seq(Event))
  BY <1>3, <1>4
<1> QED
  BY <1>2, <1>5, <1>7, <1>8 DEF ReadInv

LEMMA BeginsInspecting ==
  ASSUME WorldInv, ProgressInv, Keeps, Begins
  PROVE  InspectingInv' /\ rebuild'.pc = "inspect"
<1>0. /\ rebuild.pc = "session" /\ rebuild.todo # <<>> /\ IsFinalized(manifest[This])
      /\ This' = This /\ rebuild'.first = manifest[This] /\ rebuild'.pc = "inspect"
      /\ rebuild'.contents = <<>> /\ rebuild'.snapshot = <<>>
  BY DEF Begins, This, ProgressInv
<1>1. This \in Session
  BY <1>0, TailedSeq DEF ProgressInv, Reading, This
<1>2. manifest[This] \in FullManifest(This) /\ manifest[This].status \in FinalizedStatuses
  BY <1>0, <1>1, FinishedIsFull DEF IsFinalized, WorldInv
<1>3. rebuild'.first \in FullManifest(This)'
  BY <1>0, <1>2 DEF FullManifest
<1>4. rebuild'.first.files = FilesOf[This]
  BY <1>0, <1>2 DEF FullManifest
<1>5. FilesOf[This] \in Seq(DOMAIN Recorded)
  BY <1>1, IndexAssumption
<1>6. Len(rebuild'.contents) <= Len(rebuild'.first.files) /\ DOMAIN rebuild'.contents = {}
  BY <1>0, <1>4, <1>5, EmptyAsSeq
<1> QED
  BY <1>0, <1>2, <1>3, <1>6 DEF InspectingInv

LEMMA InspectsOneMore ==
  ASSUME ProgressInv, EvidenceInv, Keeps, Inspects, UNCHANGED world, UNCHANGED spent
  PROVE  InspectingInv' /\ rebuild'.pc = "inspect"
<1>0. /\ rebuild.pc = "inspect" /\ Len(rebuild.contents) < Len(rebuild.first.files)
      /\ This' = This /\ rebuild'.first = rebuild.first /\ rebuild'.pc = "inspect"
      /\ rebuild'.contents =
           Append(rebuild.contents, events[rebuild.first.files[Len(rebuild.contents) + 1]])
      /\ rebuild'.snapshot = rebuild.snapshot /\ events' = events
  BY DEF Inspects, This, world
<1>1. InspectingInv
  BY <1>0 DEF EvidenceInv
<1>2. PICK first, contents, more :
        /\ first = rebuild.first /\ contents = rebuild.contents /\ more = rebuild'.contents
  OBVIOUS
<1>3. /\ DOMAIN more = 1 .. Len(contents) + 1 /\ DOMAIN contents = 1 .. Len(contents)
      /\ Len(contents) \in Nat /\ Len(more) = Len(contents) + 1
      /\ \A k \in 1 .. Len(contents) : more[k] = contents[k]
      /\ more[Len(contents) + 1] = events[first.files[Len(contents) + 1]]
  BY <1>0, <1>2, AppendedSeq DEF ProgressInv
<1>4. \A k : StillOrGone(first.files[k], contents[k]) => StillOrGone(first.files[k], contents[k])'
  BY <1>0 DEF StillOrGone, Gone, Future
<1>5. \A k \in DOMAIN more : StillOrGone(first.files[k], more[k])'
  <2> TAKE k \in DOMAIN more
  <2>1. CASE k \in DOMAIN contents
    <3>1. more[k] = contents[k]
      BY <1>3, <2>1
    <3>2. StillOrGone(first.files[k], contents[k])
      BY <1>1, <1>2, <2>1 DEF InspectingInv
    <3> QED
      BY <1>4, <3>1, <3>2
  <2>2. CASE k = Len(contents) + 1
    BY <1>0, <1>3, <2>2 DEF StillOrGone
  <2> QED
    BY <1>3, <2>1, <2>2
<1>6. rebuild'.first \in FullManifest(This)' /\ rebuild'.first.status \in FinalizedStatuses
  BY <1>0, <1>1 DEF InspectingInv, FullManifest
<1>7. \A k \in DOMAIN rebuild'.contents :
        StillOrGone(rebuild.first.files[k], rebuild.contents[k])'
  BY <1>0, <1>2, <1>5
<1>8. Len(rebuild'.contents) <= Len(rebuild'.first.files)
  <2>1. Len(rebuild.first.files) \in Nat
    <3>1. This \in Session
      BY <1>0, TailedSeq DEF ProgressInv, Reading, This
    <3>2. FilesOf[This] \in Seq(DOMAIN Recorded) /\ rebuild.first.files = FilesOf[This]
      BY <1>1, <3>1, IndexAssumption DEF InspectingInv, FullManifest
    <3> QED
      BY <3>2
  <2> QED
    BY <1>0, <1>2, <1>3, <2>1
<1>9. rebuild'.snapshot = <<>>
  BY <1>0, <1>1 DEF InspectingInv
<1> QED
  BY <1>0, <1>6, <1>7, <1>8, <1>9 DEF InspectingInv

(* What is found again is what was inspected, or is not and cannot have been *)
(* there at the moment that confirms.                                        *)
LEMMA StagesOneMore ==
  ASSUME ProgressInv, EvidenceInv, Keeps, Stages, UNCHANGED world, UNCHANGED spent
  PROVE  InspectingInv' /\ StagingInv' /\ rebuild'.pc = "stage"
<1>0. /\ rebuild.pc = "stage" /\ Len(rebuild.snapshot) < Len(rebuild.first.files)
      /\ This' = This /\ rebuild'.first = rebuild.first /\ rebuild'.pc = "stage"
      /\ rebuild'.snapshot =
           Append(rebuild.snapshot, events[rebuild.first.files[Len(rebuild.snapshot) + 1]])
      /\ rebuild'.contents = rebuild.contents /\ UNCHANGED <<events, was>>
  BY DEF Stages, This, world
<1>1. InspectingInv /\ StagingInv
  BY <1>0 DEF EvidenceInv
<1>2. InspectingInv'
  <2>1. /\ rebuild'.first \in FullManifest(This)'
        /\ rebuild'.first.status \in FinalizedStatuses
        /\ Len(rebuild'.contents) <= Len(rebuild'.first.files)
    BY <1>0, <1>1 DEF InspectingInv, FullManifest
  <2>2. \A k \in DOMAIN rebuild'.contents :
          StillOrGone(rebuild.first.files[k], rebuild.contents[k])'
    <3>1. PICK first, contents : first = rebuild.first /\ contents = rebuild.contents
      OBVIOUS
    <3>2. \A k : StillOrGone(first.files[k], contents[k]) =>
                 StillOrGone(first.files[k], contents[k])'
      BY <1>0 DEF StillOrGone, Gone, Future
    <3> QED
      BY <1>0, <1>1, <3>1, <3>2 DEF InspectingInv
  <2> QED
    BY <1>0, <2>1, <2>2 DEF InspectingInv
<1>3. PICK moment \in was[This] : Confirms(moment)
  BY <1>1 DEF StagingInv
<1>4. PICK first, contents, snapshot, more :
        /\ first = rebuild.first /\ contents = rebuild.contents
        /\ snapshot = rebuild.snapshot /\ more = rebuild'.snapshot
  OBVIOUS
<1>5. AsSeq(snapshot) /\ more = Append(snapshot, events[first.files[Len(snapshot) + 1]])
  BY <1>0, <1>1, <1>4 DEF StagingInv
<1>6. /\ DOMAIN more = 1 .. Len(snapshot) + 1 /\ DOMAIN snapshot = 1 .. Len(snapshot)
      /\ Len(snapshot) \in Nat /\ Len(more) = Len(snapshot) + 1 /\ AsSeq(more)
      /\ \A k \in 1 .. Len(snapshot) : more[k] = snapshot[k]
      /\ more[Len(snapshot) + 1] = events[first.files[Len(snapshot) + 1]]
  BY <1>5, AppendedSeq
<1>7. Len(first.files) \in Nat /\ DOMAIN first.files = 1 .. Len(first.files)
      /\ Len(snapshot) < Len(first.files)
  <2>1. This \in Session
    BY <1>0, TailedSeq DEF ProgressInv, Reading, This
  <2>2. FilesOf[This] \in Seq(DOMAIN Recorded) /\ first.files = FilesOf[This]
    BY <1>1, <1>4, <2>1, IndexAssumption DEF InspectingInv, FullManifest
  <2> QED
    BY <1>0, <1>4, <2>2
<1>8. \A k \in DOMAIN more : more[k] = contents[k] => moment[2][k] = contents[k]
  <2> SUFFICES ASSUME NEW k \in DOMAIN more, more[k] = contents[k]
               PROVE  moment[2][k] = contents[k]
    OBVIOUS
  <2>1. CASE k \in DOMAIN snapshot
    BY <1>3, <1>4, <1>6, <2>1 DEF Confirms
  <2>2. CASE k = Len(snapshot) + 1
    <3>1. contents[k] = events[first.files[k]] /\ k \in DOMAIN first.files
      BY <1>6, <1>7, <2>2
    <3>2. ~Gone(first.files[k], contents[k])
      BY <3>1 DEF Gone
    <3> QED
      BY <1>3, <1>4, <3>1, <3>2 DEF Confirms
  <2> QED
    BY <1>6, <2>1, <2>2
<1>9. \A k : Gone(first.files[k], contents[k]) => Gone(first.files[k], contents[k])'
  BY <1>0 DEF Gone, Future
<1>10. \A k \in DOMAIN first.files :
         moment[2][k] = contents[k] \/ Gone(first.files[k], contents[k])'
  BY <1>3, <1>4, <1>9 DEF Confirms
<1>11. Confirms(moment)'
  <2>1. \A k \in DOMAIN rebuild'.first.files :
          moment[2][k] = contents[k] \/ Gone(rebuild.first.files[k], rebuild.contents[k])'
    BY <1>0, <1>4, <1>10
  <2> QED
    BY <1>0, <1>3, <1>4, <1>8, <2>1 DEF Confirms
<1>12. Len(rebuild'.snapshot) <= Len(rebuild'.first.files)
  BY <1>0, <1>4, <1>6, <1>7, SMTT(30)
<1> QED
  BY <1>0, <1>1, <1>2, <1>3, <1>4, <1>6, <1>11, <1>12 DEF StagingInv

(* A session whose second reading finds what the first one found is evident. *)
LEMMA SumsEvident ==
  ASSUME WorldInv, ProgressInv, EvidenceInv, Keeps, Sums
  PROVE  Evident(SessionSummary(This, Inspected, rebuild.snapshot, rebuild.first.warnings))
<1>0. /\ rebuild.pc = "stage" /\ Len(rebuild.snapshot) = Len(rebuild.first.files)
      /\ rebuild.snapshot = rebuild.contents
  BY DEF Sums
<1>1. InspectingInv /\ StagingInv
  BY <1>0 DEF EvidenceInv
<1>2. PICK moment \in was[This] : Confirms(moment)
  BY <1>1 DEF StagingInv
<1>3. This \in Session
  BY <1>0, TailedSeq DEF ProgressInv, Reading, This
<1>4. rebuild.first \in FullManifest(This) /\ rebuild.first.status \in FinalizedStatuses
      /\ rebuild.first.files = FilesOf[This] /\ moment[1] = rebuild.first
  BY <1>1, <1>2 DEF InspectingInv, FullManifest, Confirms
<1>5. moment[2] = rebuild.contents
  <2>1. FilesOf[This] \in Seq(DOMAIN Recorded)
    BY <1>3, IndexAssumption
  <2>2. PICK contents, files : contents = rebuild.contents /\ files = FilesOf[This]
    OBVIOUS
  <2>3. contents \in Seq(Range(contents)) /\ files \in Seq(DOMAIN Recorded)
        /\ Len(contents) = Len(files)
    BY <1>0, <1>4, <2>1, <2>2 DEF ProgressInv, AsSeq
  <2>4. DOMAIN contents = DOMAIN files /\ contents = [k \in DOMAIN files |-> contents[k]]
    BY <2>3
  <2>5. \A k \in DOMAIN files : moment[2][k] = contents[k]
    BY <1>0, <1>2, <2>2, <2>4 DEF Confirms
  <2>6. moment[2] = [k \in DOMAIN files |-> moment[2][k]]
    BY <1>2, <2>2 DEF Confirms
  <2>7. moment[2] = contents
    BY <2>4, <2>5, <2>6
  <2> QED
    BY <2>2, <2>7
<1> DEFINE row == SessionSummary(This, Inspected, rebuild.snapshot, rebuild.first.warnings)
<1>6. row = SessionSummary(This, Identity(moment[1], moment[2]), moment[2], moment[1].warnings)
  BY <1>0, <1>4, <1>5 DEF Inspected
<1>7. row.session = This
  BY SummaryFields
<1> HIDE DEF row
<1>8. AreOf(This, FlattenSeq(rebuild.contents))
  BY <1>0 DEF EvidenceInv, ReadInv, HasRead
<1>9. Genuine(This, moment)
  BY <1>4, <1>5, <1>8 DEF Genuine, AreOf
<1>10. Evident(row)
  BY <1>2, <1>3, <1>4, <1>6, <1>7, <1>9 DEF Evident
<1> QED
  BY <1>10 DEF row

LEMMA EvidenceInvStep ==
  ASSUME EvidenceInv, ProgressInv, WorldInv, [Next]_vars
  PROVE  EvidenceInv'
<1>0. Shape /\ \A row : Evident(row) => Evident(row)'
  BY EvidentStays DEF ProgressInv
<1>1. CASE World \/ ClientStep \/ UNCHANGED vars
  BY <1>0, <1>1, StepsOfOthers, EvidenceGoesOn DEF EvidenceInv, Undisturbed
<1>2. CASE Rebuild \/ Refuse \/ Replace \/ Crash
  <2>1. /\ rebuild'.pc \notin {"inspect", "stage"} /\ Range(rebuild'.summaries) = {}
        /\ index'.sessions \in {index.sessions, Range(rebuild.summaries)}
    <3>1. index' \in {index, Index(rebuild.records, rebuild.summaries, rebuild.snapshot)}
      BY <1>2 DEF Rebuild, Refuse, Replace, Crash, Becomes
    <3> QED
      BY <1>2, <3>1, EndedFields, EmptyAsSeq DEF Index
  <2> QED
    BY <1>0, <2>1 DEF EvidenceInv
<1>3. CASE (ReadKnowledge \/ Project \/ OpenChanges \/ ListSessions) /\ ~Refuse
  <2>1. index' = index
    BY <1>3 DEF ReadKnowledge, Project, OpenChanges, ListSessions, Becomes, Refuse
  <2>2. rebuild'.pc \notin {"inspect", "stage"} /\ rebuild'.summaries = rebuild.summaries
    BY <1>0, <1>3, PreparingFields
  <2> QED
    BY <1>0, <2>1, <2>2 DEF EvidenceInv
<1>4. CASE /\ RebuildStep /\ ~Rebuild /\ ~Replace
           /\ Keeps /\ (Skips \/ Begins \/ Inspects \/ FindsSame \/ Stages \/ Sums \/ Builds)
  <2>1. UNCHANGED <<world, spent, index>>
    BY <1>4 DEF RebuildStep, Becomes, Refuse, ReadKnowledge, Project, OpenChanges, ListSessions,
                ReadManifest, InspectFile, ReadAgain, StageFile, Summarise, Build, Crash
  <2>2. ASSUME UNCHANGED rebuild.summaries,
               rebuild'.pc \in {"inspect", "stage"} => InspectingInv' /\ ReadInv',
               rebuild'.pc = "stage" => StagingInv'
        PROVE  EvidenceInv'
    BY <1>0, <2>1, <2>2 DEF EvidenceInv
  <2>3. CASE Skips \/ Builds
    BY <2>2, <2>3 DEF Skips, Builds
  <2>4. CASE Begins
    <3>1. rebuild'.summaries = rebuild.summaries
      BY <2>4 DEF Begins
    <3> QED
      BY <1>4, <2>2, <2>4, <3>1, BeginsInspecting, ReadBegins
  <2>5. CASE Inspects
    <3>1. rebuild'.summaries = rebuild.summaries
      BY <2>5 DEF Inspects
    <3>2. InspectingInv /\ ReadInv
      BY <2>5 DEF EvidenceInv, Inspects
    <3> QED
      BY <1>4, <2>1, <2>2, <2>5, <3>1, <3>2, InspectsOneMore, ReadGoesOn
  <2>6. CASE FindsSame
    <3>1. rebuild'.summaries = rebuild.summaries
      BY <2>6 DEF FindsSame
    <3>2. ReadInv'
      BY <2>6, ReadStays DEF EvidenceInv, FindsSame
    <3> QED
      BY <1>4, <2>1, <2>2, <2>6, <3>1, <3>2, FoundSameIsConfirmed
  <2>7. CASE Stages
    <3>1. rebuild'.summaries = rebuild.summaries
      BY <2>7 DEF Stages
    <3>2. ReadInv'
      BY <2>7, ReadStays DEF EvidenceInv, Stages
    <3> QED
      BY <1>4, <2>1, <2>2, <2>7, <3>1, <3>2, StagesOneMore
  <2>8. CASE Sums
    <3>1. PICK row : /\ row = SessionSummary(This, Inspected, rebuild.snapshot,
                                             rebuild.first.warnings)
                     /\ rebuild'.summaries = Append(rebuild.summaries, row)
      BY <2>8 DEF Sums
    <3>2. Evident(row)
      BY <1>4, <2>8, <3>1, SumsEvident
    <3>3. Range(rebuild'.summaries) = Range(rebuild.summaries) \cup {row}
      BY <3>1, AppendedSeq DEF ProgressInv
    <3>4. rebuild'.pc = "session"
      BY <2>8 DEF Sums
    <3> QED
      BY <1>0, <2>1, <3>2, <3>3, <3>4 DEF EvidenceInv
  <2> QED
    BY <1>4, <2>3, <2>4, <2>5, <2>6, <2>7, <2>8
<1> QED
  BY <1>0, <1>1, <1>2, <1>3, <1>4, RebuildSteps DEF Next


(* Whatever was altered while a rebuild read a manifest twice and its event  *)
(* files twice, what it keeps of them was there at one moment, and was a     *)
(* session's: in order, no two events with one id                            *)
(* (EvidenceReader.iter_finalized_info, iter_events).                        *)
THEOREM EvidenceIsOfOneMoment == Spec => []IndexedEvidenceIsOne
<1> DEFINE Inv == WorldInv /\ ProgressInv /\ EvidenceInv
<1>1. Init => Inv
  BY WorldInvInit, ProgressInit, EvidenceInit
<1>2. Inv /\ [Next]_vars => Inv'
  BY WorldInvStep, ProgressInvStep, EvidenceInvStep
<1>3. Inv => IndexedEvidenceIsOne
  BY DEF EvidenceInv, Evident, IndexedEvidenceIsOne
<1> QED
  BY <1>1, <1>2, <1>3, PTL DEF Spec

-----------------------------------------------------------------------------
(* What is in an index has keys, no two the same.                            *)
LEMMA RangeIsFinite ==
  ASSUME NEW s, AsSeq(s)
  PROVE  IsFiniteSet(Range(s))
<1>1. PICK T : T = Range(s)
  OBVIOUS
<1>2. s \in Seq(T) /\ Len(s) \in Nat /\ DOMAIN s = 1 .. Len(s)
  BY <1>1 DEF AsSeq
<1>3. s \in [1 .. Len(s) -> T] /\ \A x \in T : \E k \in 1 .. Len(s) : s[k] = x
  BY <1>1, <1>2 DEF Range
<1>4. s \in Surjection(1 .. Len(s), T)
  BY <1>3 DEF Surjection
<1>5. IsFiniteSet(1 .. Len(s))
  BY <1>2, FS_Interval
<1> QED
  BY <1>1, <1>4, <1>5, FS_Surjection

LEMMA EvidentHasKey ==
  ASSUME NEW row, Evident(row)
  PROVE  row.session \in Int /\ row.started \in Int
<1>1. row.session \in Int
  BY IndexAssumption DEF Evident
<1>2. PICK moment \in was[row.session] :
        /\ moment[1] \in FullManifest(row.session)
        /\ row = SessionSummary(row.session, Identity(moment[1], moment[2]), moment[2],
                                moment[1].warnings)
  BY DEF Evident
<1>3. row.started = moment[1].started
  <2>1. Identity(moment[1], moment[2]).manifest = moment[1]
    BY DEF Identity
  <2> QED
    BY <1>2, <2>1, SummaryFields
<1>4. moment[1].started \in Int
  BY <1>2 DEF FullManifest
<1> QED
  BY <1>1, <1>3, <1>4

LEMMA BuiltIsOK ==
  ASSUME WorldInv, ProgressInv, EvidenceInv, Keeps, Builds
  PROVE  SessionsKeyed(Range(rebuild'.summaries)) /\ ChangesKeyed(rebuild'.snapshot)
<1> DEFINE sums == rebuild.summaries
<1>1. rebuild'.summaries = sums /\ AsSeq(sums)
  BY DEF Builds, ProgressInv
<1>2. \A i, j \in DOMAIN sums : sums[i].session = sums[j].session => i = j
  BY DEF Builds, Keyed
<1>3. \A r \in Range(sums) : r.session \in Int /\ r.started \in Int
  BY EvidentHasKey DEF EvidenceInv
<1> HIDE DEF sums
<1>4. \A r, s \in Range(sums) : r.session = s.session => r = s
  BY <1>2 DEF Range
<1>5. IsFiniteSet(Range(sums))
  BY <1>1, RangeIsFinite
<1>6. ChangesKeyed(rebuild'.snapshot)
  BY FS_EmptySet DEF Builds, ChangesKeyed, WorldInv, DetectorInv
<1> QED
  BY <1>1, <1>3, <1>4, <1>5, <1>6 DEF SessionsKeyed

LEMMA IndexInvInit ==
  ASSUME Init
  PROVE  IndexInv
<1>1. rebuild.pc = "idle"
  BY IdleFields DEF Init
<1>2. index.changes = {}
  BY DEF Init, NoIndex, FirstIndex, Index
<1>3. SessionsKeyed(index.sessions)
  <2>1. \A r \in index.sessions : r.session \in Int /\ r.started \in Int
    BY EvidenceInit, EvidentHasKey DEF EvidenceInv
  <2>2. CASE index = NoIndex
    BY <2>2, FS_EmptySet DEF NoIndex, SessionsKeyed
  <2>3. CASE index = FirstIndex
    <3> DEFINE row(s) == LET identity == Identity(FirstManifest(s), ContentsOf(s, Recorded))
                         IN SessionSummary(s, identity, identity.contents, 0)
               n == Cardinality(Finished)
               rows == [i \in 1 .. n |-> row(Numbers(Finished)[i])]
    <3>1. index.sessions = Range(rows)
      BY <2>3 DEF FirstIndex, Index
    <3>2. \A s : row(s).session = s
      BY SummaryFields
    <3>3. n \in Nat
      BY IndexAssumption, FS_Subset, FS_CardinalityType
    <3> HIDE DEF row
    <3>4. rows \in Seq(Range(rows))
      BY <3>3 DEF Range
    <3>5. \A r \in Range(rows) : r = row(r.session)
      BY <3>2 DEF Range
    <3> HIDE DEF rows
    <3>6. IsFiniteSet(Range(rows))
      BY <3>4, RangeIsFinite DEF AsSeq
    <3>7. \A r, s \in Range(rows) : r.session = s.session => r = s
      BY <3>5
    <3> QED
      BY <2>1, <3>1, <3>6, <3>7 DEF SessionsKeyed
  <2> QED
    BY <2>2, <2>3 DEF Init
<1> QED
  BY <1>1, <1>2, <1>3, FS_EmptySet DEF IndexInv, IndexOK, ChangesKeyed

LEMMA IndexInvStep ==
  ASSUME IndexInv, EvidenceInv, ProgressInv, WorldInv, [Next]_vars
  PROVE  IndexInv'
<1>0. Shape /\ IndexOK(index)
      /\ (rebuild.pc = "staged" =>
            SessionsKeyed(Range(rebuild.summaries)) /\ ChangesKeyed(rebuild.snapshot))
  BY DEF ProgressInv, IndexInv, IndexOK
<1>1. SUFFICES /\ IndexOK(index)'
               /\ rebuild'.pc = "staged" =>
                    SessionsKeyed(Range(rebuild'.summaries)) /\ ChangesKeyed(rebuild'.snapshot)
  BY DEF IndexInv, IndexOK
<1>2. CASE World \/ ClientStep \/ UNCHANGED vars
  BY <1>0, <1>2, StepsOfOthers DEF Undisturbed
<1>3. CASE Rebuild \/ Refuse \/ Crash
  <2>1. index' = index
    BY <1>3 DEF Rebuild, Refuse, Crash, Becomes
  <2> QED
    BY <1>0, <1>3, <2>1, EndedFields
<1>4. CASE Replace
  <2>1. index'.sessions = Range(rebuild.summaries) /\ index'.changes = rebuild.snapshot
        /\ rebuild.pc = "staged"
    BY <1>4 DEF Replace, Index
  <2> QED
    BY <1>0, <1>4, <2>1, EndedFields DEF IndexOK
<1>5. CASE (ReadKnowledge \/ Project \/ OpenChanges \/ ListSessions) /\ ~Refuse
  <2>1. index' = index
    BY <1>5 DEF ReadKnowledge, Project, OpenChanges, ListSessions, Becomes, Refuse
  <2>2. rebuild'.pc # "staged"
    BY <1>0, <1>5, PreparingFields
  <2> QED
    BY <1>0, <2>1, <2>2
<1>6. CASE /\ RebuildStep /\ ~Rebuild /\ ~Replace
           /\ Keeps /\ (Skips \/ Begins \/ Inspects \/ FindsSame \/ Stages \/ Sums \/ Builds)
  <2>1. index' = index
    BY <1>6 DEF RebuildStep, Becomes, Refuse, ReadKnowledge, Project, OpenChanges, ListSessions,
                ReadManifest, InspectFile, ReadAgain, StageFile, Summarise, Build, Crash
  <2>2. CASE Builds
    BY <1>0, <1>6, <2>1, <2>2, BuiltIsOK
  <2>3. CASE Skips \/ Begins \/ Inspects \/ FindsSame \/ Stages \/ Sums
    BY <1>0, <2>1, <2>3 DEF Skips, Begins, Inspects, FindsSame, Stages, Sums
  <2> QED
    BY <1>6, <2>2, <2>3
<1> QED
  BY <1>0, <1>2, <1>3, <1>4, <1>5, <1>6, RebuildSteps DEF Next

-----------------------------------------------------------------------------
(* Rows in the order of their keys, when each place has the row of its rank. *)
LEMMA KeyedInOrder ==
  ASSUME NEW S, NEW K, AreKeyed(S, K), NEW q, q = [i \in 1 .. Cardinality(S) |-> q[i]],
         \A i \in 1 .. Cardinality(S) :
           (\E x \in S : Cardinality({y \in S : Before(K[y], K[x])}) = i - 1) =>
             q[i] \in S /\ Cardinality({y \in S : Before(K[y], K[q[i]])}) = i - 1
  PROVE  q \in Seq(S) /\ Range(q) = S /\ InKeyOrder(q, K)
<1>0. PICK R : R = {p \in S \X S : Follows(K[p[2]], K[p[1]])}
  OBVIOUS
<1>1. \A x, y \in S : <<x, y>> \in R <=> Follows(K[y], K[x])
  BY <1>0
<1>2. IsFiniteSet(S) /\ \A x \in S : K[x] \in Key
  BY DEF AreKeyed
<1>3. IsOrder(S, R)
  BY <1>1, <1>2, FollowsIsOrder DEF IsOrder, AreKeyed
<1>4. \A x \in S : Cardinality({y \in S : Before(K[y], K[x])}) = Rank(S, R, x)
  <2>1. \A x, y \in S : Before(K[y], K[x]) <=> <<y, x>> \in R
    BY <1>1, <1>2, BeforeIsFollows
  <2>2. \A x \in S : {y \in S : Before(K[y], K[x])} = {y \in S : <<y, x>> \in R}
    BY <2>1
  <2> QED
    BY <2>2 DEF Rank
<1>5. \A i \in 1 .. Cardinality(S) : q[i] \in S /\ Rank(S, R, q[i]) = i - 1
  <2> TAKE i \in 1 .. Cardinality(S)
  <2>1. PICK x \in S : Rank(S, R, x) = i - 1
    BY <1>2, <1>3, RanksAreTaken
  <2>2. q[i] \in S /\ Cardinality({y \in S : Before(K[y], K[q[i]])}) = i - 1
    BY <1>4, <2>1
  <2> QED
    BY <1>4, <2>2
<1>6. /\ q \in Seq(S) /\ Range(q) = S
      /\ \A i, j \in DOMAIN q : i < j => <<q[i], q[j]>> \in R
  BY <1>2, <1>3, <1>5, RankedIsSorted
<1>7. \A i \in DOMAIN q : q[i] \in S
  BY <1>5
<1> QED
  BY <1>1, <1>6, <1>7 DEF InKeyOrder

LEMMA SomeAreKeyed ==
  ASSUME NEW rows, NEW K, AreKeyed(rows, K), NEW S, S \subseteq rows,
         NEW L, L = [r \in S |-> K[r]]
  PROVE  AreKeyed(S, L)
  BY FS_Subset DEF AreKeyed

(* The pages of sessions and of changes.                                     *)
PageOfSessions(rows, after, limit) == Page(rows, SessionKey, after, limit)
PageOfChanges(rows, after, limit) == Page(rows, ChangeKey, after, limit)

LEMMA SessionPages ==
  ASSUME NEW rows, SessionsKeyed(rows), NEW after, NEW limit \in Nat \ {0},
         NEW K, K = [r \in rows |-> SessionKey(r)]
  PROVE  AreKeyed(rows, K) /\ IsPage(PageOfSessions(rows, after, limit), rows, K, after)
<1>1. AreKeyed(rows, K)
  BY DEF SessionsKeyed, AreKeyed, Key, SessionKey
<1> DEFINE S == {r \in rows : after = <<>> \/ Follows(SessionKey(r), after)}
           q == Ordered(S, LAMBDA r, s : Before(SessionKey(r), SessionKey(s)))
           L == [r \in S |-> K[r]]
<1>2. S = Following(rows, K, after) /\ S \subseteq rows
  BY DEF Following
<1>3. AreKeyed(S, L)
  <2> HIDE DEF S
  <2> QED
    BY <1>1, <1>2, SomeAreKeyed
<1>4. q = [i \in 1 .. Cardinality(S) |-> q[i]]
  <2> DEFINE c(i) == CHOOSE x \in S :
                       Cardinality({y \in S : Before(SessionKey(y), SessionKey(x))}) = i - 1
  <2>1. q = [i \in 1 .. Cardinality(S) |-> c(i)]
    BY DEF Ordered
  <2> HIDE DEF c, q, S
  <2> QED
    BY <2>1
<1>5. \A x, y \in S : SessionKey(x) = L[x] /\ L[x] = K[x]
  OBVIOUS
<1>6. \A i \in 1 .. Cardinality(S) :
        (\E x \in S : Cardinality({y \in S : Before(L[y], L[x])}) = i - 1) =>
          q[i] \in S /\ Cardinality({y \in S : Before(L[y], L[q[i]])}) = i - 1
  <2>1. \A x \in S : {y \in S : Before(L[y], L[x])} =
                     {y \in S : Before(SessionKey(y), SessionKey(x))}
    BY <1>5
  <2> TAKE i \in 1 .. Cardinality(S)
  <2>2. q[i] = CHOOSE x \in S :
                 Cardinality({y \in S : Before(SessionKey(y), SessionKey(x))}) = i - 1
    BY DEF Ordered
  <2> HIDE DEF S, q, L
  <2> QED
    BY <2>1, <2>2
<1> HIDE DEF S, q, L
<1>7. q \in Seq(S) /\ Range(q) = S /\ InKeyOrder(q, L)
  BY <1>3, <1>4, <1>6, KeyedInOrder
<1>8. InKeyOrder(q, K)
  <2>1. \A i \in DOMAIN q : q[i] \in S
    BY <1>7
  <2> QED
    BY <1>5, <1>7, <2>1 DEF InKeyOrder
<1> DEFINE selected == SubSeq(q, 1, IF Len(q) > limit THEN limit + 1 ELSE Len(q))
           page == [items |-> SubSeq(selected, 1,
                                IF Len(selected) > limit THEN limit ELSE Len(selected)),
                    more |-> Len(selected) > limit]
<1>9. PageOfSessions(rows, after, limit) = page
  BY DEF PageOfSessions, Page, S, q
<1> HIDE DEF selected
<1>10. IsPage(page, rows, K, after)
  BY <1>1, <1>2, <1>7, <1>8, FirstIsPage DEF selected
<1> QED
  BY <1>1, <1>9, <1>10

LEMMA ChangePages ==
  ASSUME NEW rows, ChangesKeyed(rows), NEW after, NEW limit \in Nat \ {0},
         NEW K, K = [r \in rows |-> ChangeKey(r)]
  PROVE  AreKeyed(rows, K) /\ IsPage(PageOfChanges(rows, after, limit), rows, K, after)
<1>1. AreKeyed(rows, K)
  BY DEF ChangesKeyed, AreKeyed, Key, ChangeKey, Change
<1> DEFINE S == {r \in rows : after = <<>> \/ Follows(ChangeKey(r), after)}
           q == Ordered(S, LAMBDA r, s : Before(ChangeKey(r), ChangeKey(s)))
           L == [r \in S |-> K[r]]
<1>2. S = Following(rows, K, after) /\ S \subseteq rows
  BY DEF Following
<1>3. AreKeyed(S, L)
  <2> HIDE DEF S
  <2> QED
    BY <1>1, <1>2, SomeAreKeyed
<1>4. q = [i \in 1 .. Cardinality(S) |-> q[i]]
  <2> DEFINE c(i) == CHOOSE x \in S :
                       Cardinality({y \in S : Before(ChangeKey(y), ChangeKey(x))}) = i - 1
  <2>1. q = [i \in 1 .. Cardinality(S) |-> c(i)]
    BY DEF Ordered
  <2> HIDE DEF c, q, S
  <2> QED
    BY <2>1
<1>5. \A x, y \in S : ChangeKey(x) = L[x] /\ L[x] = K[x]
  OBVIOUS
<1>6. \A i \in 1 .. Cardinality(S) :
        (\E x \in S : Cardinality({y \in S : Before(L[y], L[x])}) = i - 1) =>
          q[i] \in S /\ Cardinality({y \in S : Before(L[y], L[q[i]])}) = i - 1
  <2>1. \A x \in S : {y \in S : Before(L[y], L[x])} =
                     {y \in S : Before(ChangeKey(y), ChangeKey(x))}
    BY <1>5
  <2> TAKE i \in 1 .. Cardinality(S)
  <2>2. q[i] = CHOOSE x \in S :
                 Cardinality({y \in S : Before(ChangeKey(y), ChangeKey(x))}) = i - 1
    BY DEF Ordered
  <2> HIDE DEF S, q, L
  <2> QED
    BY <2>1, <2>2
<1> HIDE DEF S, q, L
<1>7. q \in Seq(S) /\ Range(q) = S /\ InKeyOrder(q, L)
  BY <1>3, <1>4, <1>6, KeyedInOrder
<1>8. InKeyOrder(q, K)
  <2>1. \A i \in DOMAIN q : q[i] \in S
    BY <1>7
  <2> QED
    BY <1>5, <1>7, <2>1 DEF InKeyOrder
<1> DEFINE selected == SubSeq(q, 1, IF Len(q) > limit THEN limit + 1 ELSE Len(q))
           page == [items |-> SubSeq(selected, 1,
                                IF Len(selected) > limit THEN limit ELSE Len(selected)),
                    more |-> Len(selected) > limit]
<1>9. PageOfChanges(rows, after, limit) = page
  BY DEF PageOfChanges, Page, S, q
<1> HIDE DEF selected
<1>10. IsPage(page, rows, K, after)
  BY <1>1, <1>2, <1>7, <1>8, FirstIsPage DEF selected
<1> QED
  BY <1>1, <1>9, <1>10

(* The answer to a request is a page of the rows that were asked for.        *)
LEMMA AnswerIsPage ==
  ASSUME IndexOK(index), NEW c, c.kind \in Lists, c.limit \in Nat \ {0}, c.generation = index,
         NEW after
  PROVE  /\ AreKeyed(Wanted(c), Keys(c))
         /\ IsPage(PageOf(c.kind, c.scope, c.limit, after), Wanted(c), Keys(c), after)
<1>0. PICK W, K, limit, scope :
        W = Wanted(c) /\ K = Keys(c) /\ limit = c.limit /\ scope = c.scope
  OBVIOUS
<1>1. CASE c.kind = "sessions"
  <2>1. W = index.sessions /\ K = [r \in W |-> SessionKey(r)]
    BY <1>0, <1>1 DEF Wanted, Keys, KeyOf
  <2>2. PageOf(c.kind, scope, limit, after) = PageOfSessions(W, after, limit)
    BY <1>1, <2>1 DEF PageOf, SessionPage, PageOfSessions
  <2>3. SessionsKeyed(W)
    BY <2>1 DEF IndexOK
  <2>4. limit \in Nat \ {0}
    BY <1>0
  <2> QED
    BY <1>0, <2>1, <2>2, <2>3, <2>4, SessionPages
<1>2. CASE c.kind = "session-anomalies"
  <2>1. W = {row \in index.sessions : HasSignal(row)} /\ K = [r \in W |-> SessionKey(r)]
    BY <1>0, <1>2 DEF Wanted, Keys, KeyOf
  <2>2. PageOf(c.kind, scope, limit, after) = PageOfSessions(W, after, limit)
    BY <1>2, <2>1 DEF PageOf, SessionSignalPage, PageOfSessions
  <2>3. SessionsKeyed(W)
    BY <2>1, FS_Subset DEF IndexOK, SessionsKeyed
  <2>4. limit \in Nat \ {0}
    BY <1>0
  <2> QED
    BY <1>0, <2>1, <2>2, <2>3, <2>4, SessionPages
<1>3. CASE c.kind = "changes"
  <2>1. W = {row \in index.changes : scope \in {Anything, row.profile}}
        /\ K = [r \in W |-> ChangeKey(r)]
    BY <1>0, <1>3 DEF Wanted, Keys, KeyOf
  <2>2. PICK V : V = {row \in index.changes : scope = Anything \/ row.profile = scope}
    OBVIOUS
  <2>3. V = W
    BY <2>1, <2>2
  <2>4. PageOf(c.kind, scope, limit, after) = PageOfChanges(V, after, limit)
    BY <1>3, <2>2 DEF PageOf, ChangePage, PageOfChanges
  <2>5. ChangesKeyed(W)
    BY <2>1, FS_Subset DEF IndexOK, ChangesKeyed
  <2>6. limit \in Nat \ {0}
    BY <1>0
  <2> QED
    BY <1>0, <2>1, <2>3, <2>4, <2>5, <2>6, ChangePages
<1> QED
  BY <1>1, <1>2, <1>3 DEF Lists

LEMMA Concatenated ==
  ASSUME NEW S, NEW s \in Seq(S), NEW t \in Seq(S)
  PROVE  /\ s \o t \in Seq(S) /\ Range(s \o t) = Range(s) \cup Range(t)
         /\ DOMAIN (s \o t) = 1 .. Len(s) + Len(t)
         /\ \A k \in 1 .. Len(s) : (s \o t)[k] = s[k]
         /\ \A k \in 1 .. Len(t) : (s \o t)[Len(s) + k] = t[k]
<1> DEFINE u == s \o t
<1>1. /\ Len(s) \in Nat /\ Len(t) \in Nat /\ DOMAIN s = 1 .. Len(s) /\ DOMAIN t = 1 .. Len(t)
      /\ u \in Seq(S) /\ Len(u) = Len(s) + Len(t) /\ DOMAIN u = 1 .. Len(s) + Len(t)
      /\ \A k \in 1 .. Len(s) + Len(t) : u[k] = IF k <= Len(s) THEN s[k] ELSE t[k - Len(s)]
  OBVIOUS
<1> HIDE DEF u
<1>2. \A k \in 1 .. Len(s) : k \in DOMAIN u /\ u[k] = s[k]
  BY <1>1
<1>3. \A k \in 1 .. Len(t) : Len(s) + k \in DOMAIN u /\ u[Len(s) + k] = t[k]
  <2> TAKE k \in 1 .. Len(t)
  <2>1. /\ Len(s) + k \in 1 .. Len(s) + Len(t) /\ ~(Len(s) + k <= Len(s))
        /\ (Len(s) + k) - Len(s) = k
    BY <1>1
  <2> QED
    BY <1>1, <2>1
<1>4. \A k \in DOMAIN u : u[k] \in Range(s) \cup Range(t)
  <2> TAKE k \in DOMAIN u
  <2>1. k \in 1 .. Len(s) \/ k - Len(s) \in 1 .. Len(t)
    BY <1>1
  <2> QED
    BY <1>1, <2>1 DEF Range
<1>5. Range(u) = Range(s) \cup Range(t)
  <2>1. Range(s) \subseteq Range(u) /\ Range(t) \subseteq Range(u)
    <3>1. ASSUME NEW k \in 1 .. Len(s) PROVE s[k] \in Range(u)
      <4>1. k \in DOMAIN u /\ u[k] = s[k]
        BY <1>2
      <4> QED
        BY ONLY <4>1 DEF Range
    <3>2. ASSUME NEW k \in 1 .. Len(t) PROVE t[k] \in Range(u)
      <4>1. Len(s) + k \in DOMAIN u /\ u[Len(s) + k] = t[k]
        BY <1>3
      <4> QED
        BY ONLY <4>1 DEF Range
    <3> QED
      BY <1>1, <3>1, <3>2 DEF Range
  <2>2. Range(u) \subseteq Range(s) \cup Range(t)
    BY <1>4 DEF Range
  <2> QED
    BY <2>1, <2>2
<1> QED
  BY <1>1, <1>2, <1>3, <1>5 DEF u

(* A page that goes on where a client is: what it has then is all up to the  *)
(* last row, or all.                                                         *)
LEMMA PageExtends ==
  ASSUME NEW W, NEW K, AreKeyed(W, K), NEW after, NEW page, IsPage(page, W, K, after),
         NEW got \in Seq(W), InKeyOrder(got, K),
         \/ after = <<>> /\ got = <<>>
         \/ /\ after \in Key /\ after # <<>>
            /\ Range(got) = {r \in W : ~Follows(K[r], after)}
  PROVE  /\ got \o page.items \in Seq(W) /\ InKeyOrder(got \o page.items, K)
         /\ ~page.more => Range(got \o page.items) = W
         /\ page.more =>
              /\ Last(page.items) \in W /\ K[Last(page.items)] \in Key
              /\ Range(got \o page.items) = {r \in W : ~Follows(K[r], K[Last(page.items)])}
<1> DEFINE F == Following(W, K, after)
           items == page.items
           new == got \o items
<1>1. F \subseteq W /\ items \in Seq(F) /\ InKeyOrder(items, K)
  BY DEF IsPage, Following
<1>2. items \in Seq(W)
  <2> HIDE DEF F, items
  <2> QED
    BY <1>1, SeqOfMore
<1>3. /\ new \in Seq(W) /\ Range(new) = Range(got) \cup Range(items)
      /\ DOMAIN new = 1 .. Len(got) + Len(items)
      /\ \A k \in 1 .. Len(got) : new[k] = got[k]
      /\ \A k \in 1 .. Len(items) : new[Len(got) + k] = items[k]
  <2> HIDE DEF items
  <2> QED
    BY <1>2, Concatenated
<1>4. \A r \in W : K[r] \in Key
  BY DEF AreKeyed
<1>5. /\ DOMAIN got = 1 .. Len(got) /\ Len(got) \in Nat /\ \A i \in DOMAIN got : got[i] \in W
      /\ DOMAIN items = 1 .. Len(items) /\ Len(items) \in Nat
      /\ \A i \in DOMAIN items : items[i] \in F
  BY <1>1
<1> HIDE DEF new, items
<1>6. \A i \in DOMAIN got, j \in DOMAIN items : Follows(K[items[j]], K[got[i]])
  <2> SUFFICES ASSUME NEW i \in DOMAIN got, NEW j \in DOMAIN items
               PROVE  Follows(K[items[j]], K[got[i]])
    OBVIOUS
  <2>1. /\ after \in Key /\ after # <<>>
        /\ Range(got) = {r \in W : ~Follows(K[r], after)}
    <3>1. got # <<>>
      BY EmptyAsSeq
    <3> QED
      BY <3>1
  <2>2. got[i] \in W /\ items[j] \in W /\ K[got[i]] \in Key /\ K[items[j]] \in Key
    BY <1>1, <1>4, <1>5
  <2>3. ~Follows(K[got[i]], after)
    BY <2>1 DEF Range
  <2>4. Follows(K[items[j]], after)
    BY <1>5, <2>1 DEF Following
  <2>5. K[got[i]] = after \/ Follows(after, K[got[i]])
    BY <2>1, <2>2, <2>3, FollowsIsOrder
  <2> QED
    BY <2>1, <2>2, <2>4, <2>5, FollowsIsOrder
<1>7. InKeyOrder(new, K)
  <2> SUFFICES ASSUME NEW i \in DOMAIN new, NEW j \in DOMAIN new, i < j
               PROVE  Follows(K[new[j]], K[new[i]])
    BY DEF InKeyOrder
  <2> DEFINE n == Len(got)
  <2>1. CASE j \in 1 .. n
    <3>1. i \in 1 .. n /\ i \in DOMAIN got /\ j \in DOMAIN got
      BY <1>3, <1>5, <2>1
    <3>2. new[i] = got[i] /\ new[j] = got[j]
      BY <1>3, <2>1, <3>1
    <3> QED
      BY <3>1, <3>2 DEF InKeyOrder
  <2>2. CASE i \in 1 .. n /\ j - n \in 1 .. Len(items)
    <3>1. i \in DOMAIN got /\ j - n \in DOMAIN items /\ n + (j - n) = j
      BY <1>3, <1>5, <2>2
    <3>2. new[i] = got[i] /\ new[j] = items[j - n]
      BY <1>3, <2>2, <3>1
    <3> QED
      BY <1>6, <3>1, <3>2
  <2>3. CASE i - n \in 1 .. Len(items) /\ j - n \in 1 .. Len(items)
    <3>1. /\ i - n \in DOMAIN items /\ j - n \in DOMAIN items /\ i - n < j - n
          /\ n + (i - n) = i /\ n + (j - n) = j
      <4>1. i \in Int /\ j \in Int /\ n \in Int /\ i < j
        BY <1>3, <1>5
      <4> HIDE DEF n
      <4> QED
        BY <1>5, <2>3, <4>1
    <3>2. new[i] = items[i - n] /\ new[j] = items[j - n]
      BY <1>3, <2>3, <3>1
    <3> QED
      BY <1>1, <3>1, <3>2 DEF InKeyOrder
  <2> QED
    BY <1>3, <1>5, <2>1, <2>2, <2>3
<1>8. ~page.more => Range(new) = W
  <2> SUFFICES ASSUME ~page.more
               PROVE  Range(new) = W
    OBVIOUS
  <2>1. Range(items) = F
    BY DEF IsPage, items
  <2>2. CASE after = <<>>
    BY <1>1, <1>3, <2>1, <2>2, EmptyAsSeq DEF Following
  <2>3. CASE after # <<>>
    BY <1>3, <2>1, <2>3 DEF Following
  <2> QED
    BY <2>2, <2>3
<1>9. ASSUME page.more
      PROVE  /\ Last(items) \in W /\ K[Last(items)] \in Key
             /\ Range(new) = {r \in W : ~Follows(K[r], K[Last(items)])}
  <2> DEFINE last == Last(items)
  <2>1. /\ Len(items) > 0 /\ last = items[Len(items)]
        /\ Range(items) = {r \in F : ~Follows(K[r], K[last])}
    BY <1>9 DEF IsPage, items, Last
  <2>2. last \in F /\ last \in W /\ K[last] \in Key
    BY <1>1, <1>4, <1>5, <2>1
  <2> HIDE DEF last
  <2>3. CASE after = <<>>
    <3>1. F = W /\ Range(got) = {}
      BY <2>3, EmptyAsSeq DEF Following
    <3> QED
      BY <1>3, <2>1, <2>2, <3>1 DEF last
  <2>4. CASE after # <<>>
    <3>1. after \in Key /\ Range(got) = {r \in W : ~Follows(K[r], after)}
      BY <2>4
    <3>2. Follows(K[last], after)
      BY <2>2, <2>4 DEF Following
    <3>3. \A r \in W : Follows(K[r], K[last]) => Follows(K[r], after)
      BY <1>4, <2>2, <3>1, <3>2, FollowsIsOrder
    <3>4. F = {r \in W : Follows(K[r], after)}
      BY <2>4 DEF Following
    <3>5. Range(new) = {r \in W : ~Follows(K[r], K[last])}
      BY <1>3, <2>1, <3>1, <3>3, <3>4
    <3> QED
      BY <2>2, <3>5 DEF last
  <2> QED
    BY <2>3, <2>4
<1> QED
  BY <1>3, <1>7, <1>8, <1>9 DEF new, items

LEMMA KeysAreNotEmpty ==
  ASSUME NEW k \in Key
  PROVE  k # <<>>
<1>1. PICK a \in Int, b \in Int : k = <<a, b>>
  BY DEF Key
<1> QED
  BY <1>1

LEMMA ClientFields ==
  DOMAIN Client = {"pc", "kind", "scope", "limit", "cursor", "got", "generation"}
  BY DEF Client

(* An answer goes on where the client is, in the index it has read so far.   *)
LEMMA AnswerReads ==
  ASSUME NEW c, DOMAIN c = DOMAIN Client, c.kind \in Lists, c.limit \in Nat \ {0},
         IndexOK(index), NEW a, a = Answer(c),
         c.got \in Seq(Wanted(a)), InKeyOrder(c.got, Keys(a)),
         \/ c.cursor = <<>> /\ c.got = <<>>
         \/ /\ c.cursor \in Key
            /\ Range(c.got) = {r \in Wanted(a) : ~Follows(Keys(a)[r], c.cursor)}
  PROVE  /\ DOMAIN a = DOMAIN Client /\ a.kind \in Lists /\ a.limit \in Nat \ {0}
         /\ IndexOK(a.generation) /\ ReadUpTo(a)
<1>0. PICK page : page = PageOf(c.kind, c.scope, c.limit, c.cursor)
  OBVIOUS
<1>a. PICK pc, cursor, new :
        /\ pc = IF page.more THEN "more" ELSE "complete"
        /\ cursor = IF page.more THEN KeyOf(c.kind, Last(page.items)) ELSE <<>>
        /\ new = c.got \o page.items
  OBVIOUS
<1>b. a = [c EXCEPT !.pc = pc, !.cursor = cursor, !.got = new, !.generation = index]
  BY <1>0, <1>a DEF Answer
<1>1. /\ DOMAIN a = DOMAIN Client /\ a.kind = c.kind /\ a.scope = c.scope
      /\ a.limit = c.limit /\ a.generation = index
      /\ a.pc = pc /\ a.cursor = cursor /\ a.got = new
  BY ONLY <1>b, DOMAIN c = DOMAIN Client, ClientFields
<1>2. PICK W, K, got, after :
        W = Wanted(a) /\ K = Keys(a) /\ got = c.got /\ after = c.cursor
  OBVIOUS
<1>3. AreKeyed(W, K) /\ IsPage(page, W, K, after)
  <2>1. a.kind \in Lists /\ a.limit \in Nat \ {0}
    BY <1>1
  <2>2. page = PageOf(a.kind, a.scope, a.limit, after)
    BY <1>0, <1>1, <1>2
  <2> QED
    BY <1>1, <1>2, <2>1, <2>2, AnswerIsPage
<1>4. /\ new \in Seq(W) /\ InKeyOrder(new, K)
      /\ ~page.more => Range(new) = W
      /\ page.more =>
           /\ Last(page.items) \in W /\ K[Last(page.items)] \in Key
           /\ Range(new) = {r \in W : ~Follows(K[r], K[Last(page.items)])}
  <2>1. got \in Seq(W) /\ InKeyOrder(got, K)
        /\ (\/ after = <<>> /\ got = <<>>
            \/ /\ after \in Key /\ after # <<>>
               /\ Range(got) = {r \in W : ~Follows(K[r], after)})
    BY <1>2, KeysAreNotEmpty
  <2> QED
    BY <1>a, <1>2, <1>3, <2>1, PageExtends
<1>5. K = [r \in W |-> KeyOf(c.kind, r)]
  BY <1>1, <1>2 DEF Keys
<1>6. page.more => a.cursor = K[Last(page.items)]
  BY <1>a, <1>1, <1>4, <1>5
<1>7. ReadUpTo(a)
  BY <1>a, <1>1, <1>2, <1>4, <1>6 DEF ReadUpTo
<1> QED
  BY <1>1, <1>7

LEMMA ClientInvInit ==
  ASSUME Init
  PROVE  ClientInv
  BY DEF Init, Client, ClientInv

LEMMA ClientInvStep ==
  ASSUME ClientInv, IndexInv, [Next]_vars
  PROVE  ClientInv'
<1>0. IndexOK(index)
  BY DEF IndexInv
<1>1. CASE UNCHANGED client
  <2>1. IndexOK(client.generation)' <=> IndexOK(client.generation)
    BY <1>1
  <2>2. ReadUpTo(client)' <=> ReadUpTo(client)
    BY <1>1
  <2> QED
    BY <1>1, <2>1, <2>2 DEF ClientInv
<1>2. ASSUME NEW kind \in Lists, NEW scope, NEW limit \in Limits, List(kind, scope, limit)
      PROVE  ClientInv'
  <2> DEFINE d == [Client EXCEPT !.kind = kind, !.scope = scope, !.limit = limit]
  <2>0. client' = Answer(d)
    BY <1>2 DEF List, AnswerClient
  <2>1. DOMAIN d = DOMAIN Client /\ d.kind = kind /\ d.limit = limit /\ d.got = <<>>
        /\ d.cursor = <<>>
    BY DEF Client
  <2>2. limit \in Nat \ {0}
    BY IndexAssumption
  <2> HIDE DEF d
  <2>3. PICK a : a = Answer(d)
    OBVIOUS
  <2>4. d.got \in Seq(Wanted(a)) /\ InKeyOrder(d.got, Keys(a))
    BY <2>1, EmptyAsSeq DEF InKeyOrder
  <2>5. /\ DOMAIN a = DOMAIN Client /\ a.kind \in Lists /\ a.limit \in Nat \ {0}
        /\ IndexOK(a.generation) /\ ReadUpTo(a)
    BY <1>0, <2>1, <2>2, <2>3, <2>4, AnswerReads
  <2>6. client' = a
    BY <2>0, <2>3
  <2> QED
    BY <2>5, <2>6 DEF ClientInv
<1>3. CASE NextPage
  <2>1. CASE client.generation = index
    <3>1. client' = Answer(client) /\ client.pc = "more"
      BY <1>3, <2>1 DEF NextPage, AnswerClient
    <3>2. PICK a : a = Answer(client)
      OBVIOUS
    <3>3. DOMAIN client = DOMAIN Client /\ client.kind \in Lists /\ client.limit \in Nat \ {0}
          /\ ReadUpTo(client)
      BY <3>1 DEF ClientInv
    <3>4. a.kind = client.kind /\ a.scope = client.scope /\ a.generation = client.generation
      <4>1. PICK pc, cursor, got :
              a = [client EXCEPT !.pc = pc, !.cursor = cursor, !.got = got, !.generation = index]
        BY <3>2 DEF Answer
      <4> QED
        BY <2>1, <3>3, <4>1, ClientFields
    <3>5. Wanted(a) = Wanted(client) /\ Keys(a) = Keys(client)
      BY <3>4 DEF Wanted, Keys
    <3>6. /\ client.got \in Seq(Wanted(a)) /\ InKeyOrder(client.got, Keys(a))
          /\ client.cursor \in Key
          /\ Range(client.got) = {r \in Wanted(a) : ~Follows(Keys(a)[r], client.cursor)}
      BY <3>1, <3>3, <3>5 DEF ReadUpTo
    <3>7. /\ DOMAIN a = DOMAIN Client /\ a.kind \in Lists /\ a.limit \in Nat \ {0}
          /\ IndexOK(a.generation) /\ ReadUpTo(a)
      BY <1>0, <3>2, <3>3, <3>6, AnswerReads
    <3>8. client' = a
      BY <3>1, <3>2
    <3> QED
      BY <3>7, <3>8 DEF ClientInv
  <2>2. CASE client.generation # index
    <3>1. client' = [Client EXCEPT !.pc = "stale"]
      BY <1>3, <2>2 DEF NextPage, AnswerClient
    <3> QED
      BY <3>1 DEF ClientInv, Client
  <2> QED
    BY <2>1, <2>2
<1>4. CASE World \/ RebuildStep \/ UNCHANGED vars
  <2>1. UNCHANGED client
    BY <1>4, WorldLeaves DEF vars, RebuildStep, Becomes, Refuse, Rebuild, ReadKnowledge, Project,
       OpenChanges, ListSessions, ReadManifest, InspectFile, ReadAgain, StageFile, Summarise,
       Build, Replace, Crash
  <2> QED
    BY <1>1, <2>1
<1>5. CASE ClientStep
  BY <1>2, <1>3, <1>5 DEF ClientStep, Lists
<1> QED
  BY <1>4, <1>5 DEF Next

(* A client that has read to the last page has read one index, all of it     *)
(* that it asked for and in order, each row once.                            *)
THEOREM ListingsAreOneIndex == Spec => []PagesAreOneSnapshot
<1> DEFINE Inv == WorldInv /\ ProgressInv /\ EvidenceInv /\ IndexInv /\ ClientInv
<1>1. Init => Inv
  BY WorldInvInit, ProgressInit, EvidenceInit, IndexInvInit, ClientInvInit
<1>2. Inv /\ [Next]_vars => Inv'
  BY WorldInvStep, ProgressInvStep, EvidenceInvStep, IndexInvStep, ClientInvStep
<1>3. Inv => PagesAreOneSnapshot
  <2> SUFFICES ASSUME Inv, client.pc = "complete"
               PROVE  /\ Range(client.got) = Wanted(client)
                      /\ \A i, j \in DOMAIN client.got : i < j =>
                           Before(KeyOf(client.kind, client.got[i]),
                                  KeyOf(client.kind, client.got[j]))
    BY DEF PagesAreOneSnapshot
  <2>1. /\ client.kind \in Lists /\ IndexOK(client.generation) /\ ReadUpTo(client)
    BY DEF ClientInv
  <2>2. PICK got, W, K : got = client.got /\ W = Wanted(client) /\ K = Keys(client)
    OBVIOUS
  <2>3. got \in Seq(W) /\ InKeyOrder(got, K) /\ Range(got) = W
    BY <2>1, <2>2 DEF ReadUpTo
  <2>4. K = [r \in W |-> KeyOf(client.kind, r)] /\ \A r \in W : K[r] \in Key
    <3>1. \A r \in client.generation.sessions : SessionKey(r) \in Key
      BY <2>1 DEF IndexOK, SessionsKeyed, SessionKey, Key
    <3>2. \A r \in client.generation.changes : ChangeKey(r) \in Key
      BY <2>1 DEF IndexOK, ChangesKeyed, Change, ChangeKey, Key
    <3> QED
      BY <2>1, <2>2, <3>1, <3>2 DEF Keys, KeyOf, Wanted, Lists
  <2>5. ASSUME NEW i \in DOMAIN got, NEW j \in DOMAIN got, i < j
        PROVE  Before(KeyOf(client.kind, got[i]), KeyOf(client.kind, got[j]))
    <3>1. got[i] \in W /\ got[j] \in W /\ Follows(K[got[j]], K[got[i]])
      BY <2>3, <2>5 DEF InKeyOrder, Range
    <3>2. Before(K[got[i]], K[got[j]])
      BY <2>4, <3>1, BeforeIsFollows
    <3> QED
      BY <2>4, <3>1, <3>2
  <2> QED
    BY <2>2, <2>3, <2>5
<1> QED
  BY <1>1, <1>2, <1>3, PTL DEF Spec

-----------------------------------------------------------------------------
(* The numbers up to k: the greatest is k, without it those up to k - 1.     *)
LEMMA UpTo ==
  ASSUME NEW n \in Nat, NEW k \in 1 .. n
  PROVE  /\ 1 .. k \in SUBSET (1 .. n) /\ 1 .. k # {}
         /\ Max(1 .. k) = k /\ (1 .. k) \ {k} = 1 .. (k - 1)
<1> DEFINE s == 1 .. k
<1>1. k \in Nat /\ s \in SUBSET (1 .. k) /\ s # {} /\ k \in s
  OBVIOUS
<1>2. Max(s) \in s /\ \A y \in s : y <= Max(s)
  <2> HIDE DEF s
  <2> QED
    BY <1>1, MaxOfSome
<1> DEFINE x == Max(s)
<1>3. x \in 1 .. k /\ k <= x
  BY <1>1, <1>2
<1> HIDE DEF x
<1>4. x = k
  BY <1>1, <1>3
<1> QED
  BY <1>4 DEF x

(* A set of numbers has a least one.                                         *)
LEMMA MinOfSome ==
  ASSUME NEW s \in SUBSET Nat, s # {}
  PROVE  Min(s) \in s /\ \A y \in s : Min(s) <= y
<1> DEFINE less == {ss \in Nat \X Nat : ss[1] < ss[2]}
<1>1. IsWellFoundedOn(less, Nat)
  BY NatLessThanWellFounded DEF OpToRel
<1>2. \E x \in s : \A y \in s : ~ (<<y, x>> \in less)
  <2> HIDE DEF less
  <2> QED
    BY <1>1, WFMin
<1>3. PICK x \in s : \A y \in s : x <= y
  <2>1. PICK x \in s : \A y \in s : <<y, x>> \notin less
    BY <1>2
  <2>2. ASSUME NEW y \in s PROVE x <= y
    <3>1. x \in Nat /\ y \in Nat
      OBVIOUS
    <3>2. ~(y < x)
      BY <2>1, <3>1
    <3> QED
      BY <3>1, <3>2
  <2> QED
    BY <2>2
<1> QED
  BY <1>3 DEF Min

(* What sequences have: that of one after the other, and of as many.         *)
LEMMA RangeOfConcat ==
  ASSUME NEW U, NEW a \in Seq(U), NEW b \in Seq(U)
  PROVE  a \o b \in Seq(U) /\ Range(a \o b) = Range(a) \cup Range(b)
<1> DEFINE c == a \o b
<1>1. /\ c \in Seq(U) /\ Len(c) = Len(a) + Len(b) /\ Len(a) \in Nat /\ Len(b) \in Nat
      /\ \A i \in 1 .. Len(a) : c[i] = a[i]
      /\ \A i \in 1 .. Len(b) : c[Len(a) + i] = b[i]
  OBVIOUS
<1>2. DOMAIN a = 1 .. Len(a) /\ DOMAIN b = 1 .. Len(b) /\ DOMAIN c = 1 .. Len(a) + Len(b)
  BY <1>1
<1> HIDE DEF c
<1>3. ASSUME NEW x \in Range(c) PROVE x \in Range(a) \cup Range(b)
  <2>1. PICK i \in 1 .. Len(a) + Len(b) : x = c[i]
    BY <1>2 DEF Range
  <2>2. CASE i <= Len(a)
    <3>1. i \in 1 .. Len(a)
      BY <1>1, <2>2
    <3> QED
      BY <1>1, <1>2, <2>1, <3>1 DEF Range
  <2>3. CASE i > Len(a)
    <3>1. i - Len(a) \in 1 .. Len(b) /\ Len(a) + (i - Len(a)) = i
      BY <1>1, <2>3
    <3> QED
      BY <1>1, <1>2, <2>1, <3>1 DEF Range
  <2> QED
    BY <1>1, <2>2, <2>3
<1>4. ASSUME NEW x \in Range(a) PROVE x \in Range(c)
  <2>1. PICK i \in 1 .. Len(a) : x = a[i]
    BY <1>2 DEF Range
  <2>2. i \in 1 .. Len(a) + Len(b)
    BY <1>1
  <2> QED
    BY <1>1, <1>2, <2>1, <2>2 DEF Range
<1>5. ASSUME NEW x \in Range(b) PROVE x \in Range(c)
  <2>1. PICK i \in 1 .. Len(b) : x = b[i]
    BY <1>2 DEF Range
  <2>2. Len(a) + i \in 1 .. Len(a) + Len(b)
    BY <1>1
  <2> QED
    BY <1>1, <1>2, <2>1, <2>2 DEF Range
<1>6. c \in Seq(U) /\ Range(c) = Range(a) \cup Range(b)
  BY <1>1, <1>3, <1>4, <1>5
<1> QED
  BY <1>6 DEF c

LEMMA RangeOfFlatten ==
  ASSUME NEW U, NEW seqs \in Seq(Seq(U))
  PROVE  FlattenSeq(seqs) \in Seq(U)
         /\ Range(FlattenSeq(seqs)) = UNION {Range(seqs[i]) : i \in DOMAIN seqs}
<1> DEFINE n == Len(seqs)
           Upto(m) == UNION {Range(seqs[i]) : i \in 1 .. m}
<1>1. n \in Nat /\ DOMAIN seqs = 1 .. n /\ \A k \in 1 .. n : seqs[k] \in Seq(U)
  OBVIOUS
<1>2. PICK h \in [0 .. n -> Seq(U)] : FlattensTo(h, seqs) /\ FlattenSeq(seqs) = h[n]
  BY FlattenSteps
<1>3. Upto(0) = {} /\ Range(<<>>) = {}
  BY DEF Range
<1>4. ASSUME NEW m \in Nat PROVE Upto(m + 1) = Upto(m) \cup Range(seqs[m + 1])
  <2>1. \A i : i \in 1 .. m + 1 <=> i \in 1 .. m \/ i = m + 1
    OBVIOUS
  <2> QED
    BY <2>1
<1> HIDE DEF n, Upto
<1> DEFINE T == {m \in Nat : m <= n => Range(h[m]) = Upto(m)}
<1>5. 0 \in T
  BY <1>2, <1>3 DEF FlattensTo
<1>6. ASSUME NEW m \in Nat, m \in T PROVE m + 1 \in T
  <2> SUFFICES ASSUME m + 1 <= n PROVE Range(h[m + 1]) = Upto(m + 1)
    OBVIOUS
  <2>1. m \in 0 .. n /\ m + 1 \in 1 .. n /\ (m + 1) - 1 = m /\ m <= n
    BY <1>1
  <2>2. h[m + 1] = h[m] \o seqs[m + 1]
    BY <1>2, <2>1 DEF FlattensTo, n
  <2>3. PICK a, b : a = h[m] /\ b = seqs[m + 1]
    OBVIOUS
  <2>4. a \in Seq(U) /\ b \in Seq(U)
    BY <1>1, <1>2, <2>1, <2>3
  <2>5. Range(a \o b) = Range(a) \cup Range(b)
    BY <2>4, RangeOfConcat
  <2> QED
    BY <1>4, <1>6, <2>1, <2>2, <2>3, <2>5
<1>7. n \in T
  <2> HIDE DEF T
  <2> QED
    BY <1>1, <1>5, <1>6, Induction
<1>8. h[n] \in Seq(U) /\ Range(h[n]) = Upto(n)
  BY <1>1, <1>2, <1>7
<1> QED
  BY <1>1, <1>2, <1>8 DEF Upto

-----------------------------------------------------------------------------
(* dict.fromkeys goes from element to element ...                            *)
LEMMA UnrepeatedSteps ==
  ASSUME NEW U, NEW s \in Seq(U)
  PROVE  \E h \in [0 .. Len(s) -> Seq(U)] :
           /\ h[0] = <<>> /\ Unrepeated(s) = h[Len(s)]
           /\ \A k \in 1 .. Len(s) :
                h[k] = IF s[k] \in Range(h[k - 1]) THEN h[k - 1] ELSE Append(h[k - 1], s[k])
<1> DEFINE n == Len(s)
           One(t, x) == IF x \in Range(t) THEN t ELSE Append(t, x)
           Folds(iter) == iter = [d \in SUBSET (1 .. n) |->
             IF d = {} THEN <<>> ELSE IF s[Max(d)] \in Range(iter[d \ {Max(d)}]) THEN iter[d \ {Max(d)}]
                                      ELSE Append(iter[d \ {Max(d)}], s[Max(d)])]
           iter == CHOOSE g : Folds(g)
           step == [p \in (1 .. n) \X Seq(U) |-> One(p[2], s[p[1]])]
<1>1. n \in Nat /\ DOMAIN s = 1 .. n /\ \A k \in 1 .. n : s[k] \in U
  OBVIOUS
<1>2. Unrepeated(s) = iter[1 .. n]
  <2> HIDE DEF n
  <2> QED
    BY <1>1 DEF Unrepeated, FoldLeft, MapThenFoldSet
<1> HIDE DEF n
<1>3. ASSUME NEW t \in Seq(U), NEW x \in U PROVE One(t, x) \in Seq(U)
  OBVIOUS
<1>4. step \in [(1 .. n) \X Seq(U) -> Seq(U)]
  <2>1. ASSUME NEW p \in (1 .. n) \X Seq(U) PROVE One(p[2], s[p[1]]) \in Seq(U)
    <3> HIDE DEF One
    <3> QED
      BY <1>1, <1>3
  <2> HIDE DEF One
  <2> QED
    BY <2>1
<1>5. PICK g \in [SUBSET (1 .. n) -> Seq(U)] : FoldsWith(g, n, <<>>, step)
  <2>1. <<>> \in Seq(U)
    OBVIOUS
  <2> HIDE DEF step
  <2> QED
    BY <1>1, <1>4, <2>1, FoldExists
<1>6. Folds(g)
  <2>1. ASSUME NEW d \in SUBSET (1 .. n)
        PROVE  g[d] = IF d = {} THEN <<>> ELSE One(g[d \ {Max(d)}], s[Max(d)])
    <3>1. CASE d = {}
      BY <1>5, <3>1 DEF FoldsWith
    <3>2. CASE d # {}
      <4> DEFINE x == Max(d)
                 rest == d \ {x}
      <4>1. x \in 1 .. n
        BY <1>1, <3>2, MaxOfSome
      <4>2. g[d] = step[<<x, g[rest]>>]
        BY <1>5, <3>2 DEF FoldsWith
      <4>3. g[rest] \in Seq(U)
        <5>1. rest \in SUBSET (1 .. n)
          OBVIOUS
        <5> HIDE DEF rest
        <5> QED
          BY <5>1
      <4> HIDE DEF x, rest, One
      <4>4. g[d] = One(g[rest], s[x])
        BY <4>1, <4>2, <4>3
      <4> QED
        BY <3>2, <4>4 DEF x, rest
    <3> HIDE DEF One
    <3> QED
      BY <3>1, <3>2
  <2>2. g = [d \in SUBSET (1 .. n) |-> g[d]]
    OBVIOUS
  <2> QED
    BY <2>1, <2>2, Zenon
<1>7. Folds(iter)
  <2> HIDE DEF Folds
  <2> QED
    BY <1>6
<1> HIDE DEF iter, step
<1>8. \A d \in SUBSET (1 .. n) : iter[d] = IF d = {} THEN <<>> ELSE One(iter[d \ {Max(d)}], s[Max(d)])
  BY <1>7
<1> HIDE DEF Folds
<1> DEFINE h == [k \in 0 .. n |-> iter[1 .. k]]
<1>9. h[0] = <<>> /\ h[n] = iter[1 .. n]
  <2>1. 1 .. 0 = {} /\ 0 \in 0 .. n /\ n \in 0 .. n
    BY <1>1
  <2>2. iter[{}] = <<>>
    BY <1>8
  <2> QED
    BY <2>1, <2>2
<1>10. ASSUME NEW k \in 1 .. n PROVE h[k] = One(h[k - 1], s[k])
  <2> DEFINE d == 1 .. k
  <2>1. d \in SUBSET (1 .. n) /\ d # {} /\ Max(d) = k /\ d \ {k} = 1 .. (k - 1)
    BY <1>1, UpTo
  <2>2. h[k] = iter[d] /\ h[k - 1] = iter[1 .. (k - 1)]
    BY <1>1
  <2> HIDE DEF One, d
  <2>3. iter[d] = One(iter[d \ {Max(d)}], s[Max(d)])
    BY <1>8, <2>1
  <2> QED
    BY <2>1, <2>2, <2>3
<1> HIDE DEF h
<1> DEFINE T == {m \in Nat : m <= n => h[m] \in Seq(U)}
<1>11. 0 \in T
  <2>1. <<>> \in Seq(U)
    OBVIOUS
  <2> QED
    BY <1>9, <2>1
<1>12. ASSUME NEW m \in Nat, m \in T PROVE m + 1 \in T
  <2> SUFFICES ASSUME m + 1 <= n PROVE h[m + 1] \in Seq(U)
    OBVIOUS
  <2>1. m + 1 \in 1 .. n /\ (m + 1) - 1 = m /\ h[m] \in Seq(U) /\ s[m + 1] \in U
    BY <1>1, <1>12
  <2> HIDE DEF One
  <2> QED
    BY <1>3, <1>10, <2>1
<1>13. \A m \in 0 .. n : h[m] \in Seq(U)
  <2> HIDE DEF T
  <2>1. \A m \in Nat : m \in T
    BY <1>11, <1>12, Induction
  <2> QED
    BY <1>1, <2>1 DEF T
<1>14. h \in [0 .. n -> Seq(U)]
  BY <1>13 DEF h
<1> QED
  BY <1>2, <1>9, <1>10, <1>14 DEF n

(* ... and leaves each element once; where none comes again, it changes      *)
(* nothing.                                                                  *)
Once(s) == \A i, j \in DOMAIN s : s[i] = s[j] => i = j

LEMMA UnrepeatedKeeps ==
  ASSUME NEW U, NEW s \in Seq(U)
  PROVE  /\ Unrepeated(s) \in Seq(U) /\ Range(Unrepeated(s)) = Range(s) /\ Once(Unrepeated(s))
         /\ Once(s) => Unrepeated(s) = s
<1> DEFINE n == Len(s)
           Upto(k) == {s[i] : i \in 1 .. k}
<1>1. n \in Nat /\ DOMAIN s = 1 .. n /\ \A k \in 1 .. n : s[k] \in U
  OBVIOUS
<1>2. PICK h \in [0 .. n -> Seq(U)] :
        /\ h[0] = <<>> /\ Unrepeated(s) = h[n]
        /\ \A k \in 1 .. n :
             h[k] = IF s[k] \in Range(h[k - 1]) THEN h[k - 1] ELSE Append(h[k - 1], s[k])
  BY UnrepeatedSteps
<1>3. Upto(0) = {} /\ \A m \in Nat : Upto(m + 1) = Upto(m) \cup {s[m + 1]}
  <2>1. \A m \in Nat : \A i : i \in 1 .. m + 1 <=> i \in 1 .. m \/ i = m + 1
    OBVIOUS
  <2> QED
    BY <2>1
<1> HIDE DEF n, Upto
<1> DEFINE T == {m \in Nat : m <= n =>
                   /\ Range(h[m]) = Upto(m) /\ Once(h[m])
                   /\ Once(s) => Len(h[m]) = m /\ \A i \in 1 .. m : h[m][i] = s[i]}
<1>4. 0 \in T
  BY <1>2, <1>3 DEF Range, Once
<1>5. ASSUME NEW m \in Nat, m \in T PROVE m + 1 \in T
  <2> SUFFICES ASSUME m + 1 <= n
               PROVE  /\ Range(h[m + 1]) = Upto(m + 1) /\ Once(h[m + 1])
                      /\ Once(s) =>
                           Len(h[m + 1]) = m + 1 /\ \A i \in 1 .. m + 1 : h[m + 1][i] = s[i]
    OBVIOUS
  <2>1. PICK t, x : t = h[m] /\ x = s[m + 1]
    OBVIOUS
  <2>2. /\ m + 1 \in 1 .. n /\ (m + 1) - 1 = m /\ m \in 0 .. n /\ m <= n
        /\ t \in Seq(U) /\ x \in U
    BY <1>1, <1>2, <2>1
  <2>3. /\ Range(t) = Upto(m) /\ Once(t)
        /\ Once(s) => Len(t) = m /\ \A i \in 1 .. m : t[i] = s[i]
    BY <1>5, <2>1, <2>2
  <2>4. h[m + 1] = IF x \in Range(t) THEN t ELSE Append(t, x)
    BY <1>2, <2>1, <2>2
  <2>5. CASE x \in Range(t)
    <3>1. ~Once(s)
      <4> SUFFICES ASSUME Once(s) PROVE FALSE
        OBVIOUS
      <4>1. PICK i \in DOMAIN t : t[i] = x
        BY <2>5 DEF Range
      <4>2. i \in 1 .. m /\ s[i] = s[m + 1] /\ i \in 1 .. n
        BY <1>1, <2>1, <2>2, <2>3, <4>1
      <4>3. i = m + 1
        BY <1>1, <2>2, <4>2 DEF Once
      <4> QED
        BY <2>2, <4>2, <4>3
    <3> QED
      BY <1>3, <2>1, <2>3, <2>4, <2>5, <3>1
  <2>6. CASE x \notin Range(t)
    <3> DEFINE u == Append(t, x)
               l == Len(t)
    <3>1. /\ l \in Nat /\ DOMAIN t = 1 .. l /\ DOMAIN u = 1 .. l + 1 /\ Len(u) = l + 1
          /\ u[l + 1] = x /\ \A i \in 1 .. l : u[i] = t[i]
      BY <2>2
    <3>2. h[m + 1] = u
      BY <2>4, <2>6
    <3> HIDE DEF u, l
    <3>3. Range(u) = Range(t) \cup {x}
      <4>1. \A i : i \in 1 .. l + 1 <=> i \in 1 .. l \/ i = l + 1
        BY <3>1
      <4> QED
        BY <3>1, <4>1 DEF Range
    <3>4. Once(u)
      <4>1. \A i \in 1 .. l : t[i] # x
        BY <2>6, <3>1 DEF Range
      <4>2. \A i, j \in 1 .. l : t[i] = t[j] => i = j
        BY <2>3, <3>1 DEF Once
      <4> QED
        BY <3>1, <4>1, <4>2 DEF Once
    <3>5. ASSUME Once(s) PROVE Len(u) = m + 1 /\ \A i \in 1 .. m + 1 : u[i] = s[i]
      <4>1. l = m /\ \A i \in 1 .. m : t[i] = s[i]
        BY <2>3, <3>5 DEF l
      <4>2. \A i : i \in 1 .. m + 1 <=> i \in 1 .. m \/ i = m + 1
        BY <2>2
      <4> QED
        BY <2>1, <3>1, <4>1, <4>2
    <3> QED
      BY <1>3, <2>1, <2>3, <3>2, <3>3, <3>4, <3>5
  <2> QED
    BY <2>5, <2>6
<1>6. n \in T
  <2> HIDE DEF T
  <2> QED
    BY <1>1, <1>4, <1>5, Induction
<1>7. /\ h[n] \in Seq(U) /\ Range(h[n]) = Upto(n) /\ Once(h[n])
      /\ Once(s) => Len(h[n]) = n /\ \A i \in 1 .. n : h[n][i] = s[i]
  BY <1>1, <1>2, <1>6
<1>8. Once(s) => h[n] = s
  BY <1>1, <1>7, SeqEqual DEF n
<1>9. Upto(n) = Range(s)
  BY <1>1 DEF Upto, Range
<1> QED
  BY <1>2, <1>7, <1>8, <1>9

-----------------------------------------------------------------------------
(* Of two sequences in one order, one that has all that comes before any of  *)
(* its own is the beginning of the other.                                    *)
Sorted(q, R) == \A i, j \in DOMAIN q : i < j => <<q[i], q[j]>> \in R

LEMMA SortedPrefix ==
  ASSUME NEW S, NEW R, IsOrder(S, R), NEW p \in Seq(S), NEW q \in Seq(S),
         Sorted(p, R), Sorted(q, R), Range(p) \subseteq Range(q),
         \A x \in Range(p), y \in Range(q) : <<y, x>> \in R => y \in Range(p)
  PROVE  Len(p) <= Len(q) /\ \A i \in 1 .. Len(p) : p[i] = q[i]
<1> DEFINE n == Len(p)
           T == {m \in Nat : m <= n => m <= Len(q) /\ \A i \in 1 .. m : p[i] = q[i]}
<1>1. /\ n \in Nat /\ DOMAIN p = 1 .. n /\ Len(q) \in Nat /\ DOMAIN q = 1 .. Len(q)
      /\ \A i \in 1 .. n : p[i] \in S
      /\ \A i \in 1 .. Len(q) : q[i] \in S
  OBVIOUS
<1> HIDE DEF n
<1>2. 0 \in T
  BY <1>1
<1>3. ASSUME NEW m \in Nat, m \in T PROVE m + 1 \in T
  <2> SUFFICES ASSUME m + 1 <= n
               PROVE  m + 1 <= Len(q) /\ \A i \in 1 .. m + 1 : p[i] = q[i]
    OBVIOUS
  <2>1. m <= Len(q) /\ \A i \in 1 .. m : p[i] = q[i]
    BY <1>1, <1>3
  <2> DEFINE k == m + 1
  <2>2. k \in 1 .. n /\ p[k] \in S /\ p[k] \in Range(p)
    BY <1>1 DEF Range
  <2>3. PICK j \in 1 .. Len(q) : q[j] = p[k]
    BY <1>1, <2>2 DEF Range
  <2>4. <<p[k], p[k]>> \notin R
    BY <2>2 DEF IsOrder
  <2>5. k <= j
    <3> SUFFICES ASSUME j < k PROVE FALSE
      BY <2>2, <2>3
    <3>1. j \in 1 .. m /\ j \in 1 .. n
      BY <1>1, <2>2, <2>3
    <3>2. <<p[j], p[k]>> \in R
      BY <1>1, <2>2, <3>1 DEF Sorted
    <3> QED
      BY <2>1, <2>3, <2>4, <3>1, <3>2
  <2>6. k \in 1 .. Len(q)
    BY <1>1, <2>2, <2>3, <2>5
  <2>7. k = j
    <3> SUFFICES ASSUME k < j PROVE FALSE
      BY <2>3, <2>5, <2>6
    <3>1. <<q[k], q[j]>> \in R
      BY <1>1, <2>3, <2>6 DEF Sorted
    <3>2. q[k] \in Range(q)
      BY <1>1, <2>6 DEF Range
    <3>3. q[k] \in Range(p)
      BY <2>2, <2>3, <3>1, <3>2
    <3>4. PICK i \in 1 .. n : p[i] = q[k]
      BY <1>1, <3>3 DEF Range
    <3>5. ~(k < i)
      <4> SUFFICES ASSUME k < i PROVE FALSE
        OBVIOUS
      <4>1. <<p[k], p[i]>> \in R
        BY <1>1, <2>2, <3>4 DEF Sorted
      <4>2. <<p[i], p[k]>> \in R
        BY <2>3, <3>1, <3>4
      <4>3. p[i] \in S
        BY <1>1, <3>4
      <4> QED
        BY <2>2, <2>4, <4>1, <4>2, <4>3 DEF IsOrder
    <3>6. i # k
      BY <2>3, <2>4, <3>1, <3>4
    <3>7. i \in 1 .. m
      BY <1>1, <2>2, <3>4, <3>5, <3>6
    <3>8. q[i] = q[k] /\ i < k /\ i \in 1 .. Len(q)
      BY <1>1, <2>1, <3>4, <3>7
    <3>9. <<q[i], q[k]>> \in R
      BY <1>1, <2>6, <3>8 DEF Sorted
    <3>10. q[k] \in S
      BY <1>1, <2>6
    <3> QED
      BY <3>8, <3>9, <3>10 DEF IsOrder
  <2>8. \A i : i \in 1 .. m + 1 <=> i \in 1 .. m \/ i = m + 1
    OBVIOUS
  <2> QED
    BY <1>1, <2>1, <2>3, <2>6, <2>7, <2>8
<1>4. n \in T
  <2> HIDE DEF T
  <2> QED
    BY <1>1, <1>2, <1>3, Induction
<1> QED
  BY <1>1, <1>4 DEF n

LEMMA SortedIsOne ==
  ASSUME NEW S, NEW R, IsOrder(S, R), NEW p \in Seq(S), NEW q \in Seq(S),
         Sorted(p, R), Sorted(q, R), Range(p) = Range(q)
  PROVE  p = q
<1>1. Len(p) <= Len(q) /\ \A i \in 1 .. Len(p) : p[i] = q[i]
  BY SortedPrefix
<1>2. Len(q) <= Len(p)
  BY SortedPrefix
<1>3. Len(p) = Len(q)
  BY <1>1, <1>2
<1> QED
  BY <1>1, <1>3, SeqEqual

(* What Ordered makes of a finite set is the set in order.                   *)
LEMMA OrderedIsSorted ==
  ASSUME NEW S, IsFiniteSet(S), NEW R, IsOrder(S, R), NEW q,
         q = [i \in 1 .. Cardinality(S) |-> q[i]],
         \A i \in 1 .. Cardinality(S) :
           (\E x \in S : Rank(S, R, x) = i - 1) => q[i] \in S /\ Rank(S, R, q[i]) = i - 1
  PROVE  q \in Seq(S) /\ Len(q) = Cardinality(S) /\ Range(q) = S /\ Sorted(q, R)
<1>1. \A i \in 1 .. Cardinality(S) : q[i] \in S /\ Rank(S, R, q[i]) = i - 1
  BY RanksAreTaken
<1> QED
  BY <1>1, RankedIsSorted DEF Sorted

LEMMA FewerAreInOrder ==
  ASSUME NEW S, NEW R, IsOrder(S, R), NEW T \in SUBSET S
  PROVE  IsOrder(T, R)
BY DEF IsOrder

(* Words in their order.                                                     *)
LEMMA NumbersAreThose ==
  ASSUME NEW W \in Words
  PROVE  Numbers(W) \in Seq(Word) /\ Numbers(W) \in Seq(Int) /\ Range(Numbers(W)) = W
<1>1. W \subseteq Word /\ W \subseteq Int /\ IsFiniteSet(W)
  BY DEF Words, Word
<1>2. Numbers(W) \in Seq(W) /\ Range(Numbers(W)) = W
  BY <1>1, NumbersInOrder
<1> QED
  BY <1>1, <1>2, SeqMonotonic

-----------------------------------------------------------------------------
(* The order of texts.                                                       *)
Text == Seq(Int)

SameUpTo(s, t, n) == \A i \in 1 .. n : s[i] = t[i]

LEMMA BeforeAt ==
  ASSUME NEW s \in Text, NEW t \in Text
  PROVE  Before(s, t) <=>
           \E n \in 0 .. Len(s) :
             n < Len(t) /\ SameUpTo(s, t, n) /\ (n = Len(s) \/ s[n + 1] < t[n + 1])
<1>1. ASSUME NEW n \in 0 .. Len(s), n < Len(t)
      PROVE  SubSeq(s, 1, n) = SubSeq(t, 1, n) <=> SameUpTo(s, t, n)
  <2>1. /\ Len(s) \in Nat /\ Len(t) \in Nat /\ n \in Int
        /\ \A i \in 1 .. n : s[i] \in Int /\ t[i] \in Int
    BY <1>1 DEF Text
  <2> DEFINE a == SubSeq(s, 1, n)
             b == SubSeq(t, 1, n)
  <2>2. /\ a \in Seq(Int) /\ b \in Seq(Int) /\ Len(a) = n /\ Len(b) = n
        /\ \A i \in 1 .. n : a[i] = s[i] /\ b[i] = t[i]
    BY <1>1, <2>1 DEF Text
  <2> HIDE DEF a, b
  <2>3. a = b <=> \A i \in 1 .. n : a[i] = b[i]
    BY <2>2, SeqEqual
  <2> QED
    BY <2>2, <2>3 DEF a, b, SameUpTo
<1> QED
  BY <1>1 DEF Before


LEMMA BeforeIsOrder ==
  /\ \A s \in Text : ~Before(s, s)
  /\ \A s, t, u \in Text : Before(s, t) /\ Before(t, u) => Before(s, u)
  /\ \A s, t \in Text : s = t \/ Before(s, t) \/ Before(t, s)
<1>1. ASSUME NEW s \in Text PROVE ~Before(s, s)
  <2> SUFFICES ASSUME Before(s, s) PROVE FALSE
    OBVIOUS
  <2>1. PICK n \in 0 .. Len(s) : n < Len(s) /\ (n = Len(s) \/ s[n + 1] < s[n + 1])
    BY BeforeAt
  <2>2. Len(s) \in Nat /\ n + 1 \in 1 .. Len(s)
    BY <2>1 DEF Text
  <2>3. s[n + 1] \in Int
    BY <2>2 DEF Text
  <2> QED
    BY <2>1, <2>2, <2>3
<1>2. ASSUME NEW s \in Text, NEW t \in Text, NEW u \in Text, Before(s, t), Before(t, u)
      PROVE  Before(s, u)
  <2>0. /\ Len(s) \in Nat /\ Len(t) \in Nat /\ Len(u) \in Nat
        /\ \A i \in 1 .. Len(s) : s[i] \in Int
        /\ \A i \in 1 .. Len(t) : t[i] \in Int
        /\ \A i \in 1 .. Len(u) : u[i] \in Int
    BY DEF Text
  <2>1. PICK n \in 0 .. Len(s) :
          n < Len(t) /\ SameUpTo(s, t, n) /\ (n = Len(s) \/ s[n + 1] < t[n + 1])
    BY <1>2, BeforeAt
  <2>2. PICK m \in 0 .. Len(t) :
          m < Len(u) /\ SameUpTo(t, u, m) /\ (m = Len(t) \/ t[m + 1] < u[m + 1])
    BY <1>2, BeforeAt
  <2>3. CASE n < m
    <3>1. n \in 0 .. Len(s) /\ n < Len(u) /\ SameUpTo(s, u, n)
      BY <2>0, <2>1, <2>2, <2>3 DEF SameUpTo
    <3>2. t[n + 1] = u[n + 1]
      BY <2>0, <2>1, <2>2, <2>3 DEF SameUpTo
    <3> QED
      BY <2>1, <3>1, <3>2, BeforeAt
  <2>4. CASE n = m
    <3>1. n \in 0 .. Len(s) /\ n < Len(u) /\ SameUpTo(s, u, n)
      BY <2>0, <2>1, <2>2, <2>4 DEF SameUpTo
    <3>2. n = Len(s) \/ s[n + 1] < u[n + 1]
      <4> SUFFICES ASSUME n # Len(s) PROVE s[n + 1] < u[n + 1]
        OBVIOUS
      <4>1. n + 1 \in 1 .. Len(s) /\ n + 1 \in 1 .. Len(t) /\ n + 1 \in 1 .. Len(u)
        BY <2>0, <2>1, <2>2, <2>4
      <4>2. s[n + 1] < t[n + 1] /\ t[n + 1] < u[n + 1]
        BY <2>0, <2>1, <2>2, <2>4
      <4> QED
        BY <2>0, <4>1, <4>2
    <3> QED
      BY <3>1, <3>2, BeforeAt
  <2>5. CASE m < n
    <3>1. m \in 0 .. Len(s) /\ m < Len(u) /\ SameUpTo(s, u, m)
      BY <2>0, <2>1, <2>2, <2>5 DEF SameUpTo
    <3>2. s[m + 1] = t[m + 1] /\ m # Len(t)
      BY <2>0, <2>1, <2>2, <2>5 DEF SameUpTo
    <3> QED
      BY <2>2, <3>1, <3>2, BeforeAt
  <2> QED
    BY <2>1, <2>2, <2>3, <2>4, <2>5
<1>3. ASSUME NEW s \in Text, NEW t \in Text, s # t
      PROVE  Before(s, t) \/ Before(t, s)
  <2>0. /\ Len(s) \in Nat /\ Len(t) \in Nat
        /\ \A i \in 1 .. Len(s) : s[i] \in Int
        /\ \A i \in 1 .. Len(t) : t[i] \in Int
    BY DEF Text
  <2> DEFINE D == {i \in Nat : i \in 1 .. Len(s) /\ i \in 1 .. Len(t) /\ s[i] # t[i]}
  <2>1. CASE D = {}
    <3>1. Len(s) # Len(t)
      <4> SUFFICES ASSUME Len(s) = Len(t) PROVE FALSE
        OBVIOUS
      <4>1. \A i \in 1 .. Len(s) : s[i] = t[i]
        BY <2>0, <2>1
      <4> QED
        BY <1>3, <4>1, SeqEqual DEF Text
    <3>2. CASE Len(s) < Len(t)
      <4>1. Len(s) \in 0 .. Len(s) /\ SameUpTo(s, t, Len(s))
        BY <2>0, <2>1, <3>2 DEF SameUpTo
      <4> QED
        BY <3>2, <4>1, BeforeAt
    <3>3. CASE Len(t) < Len(s)
      <4>1. Len(t) \in 0 .. Len(t) /\ SameUpTo(t, s, Len(t))
        BY <2>0, <2>1, <3>3 DEF SameUpTo
      <4> QED
        BY <3>3, <4>1, BeforeAt
    <3> QED
      BY <2>0, <3>1, <3>2, <3>3
  <2>2. CASE D # {}
    <3> DEFINE k == Min(D)
    <3>1. k \in D /\ \A y \in D : k <= y
      <4>1. D \in SUBSET Nat
        OBVIOUS
      <4> HIDE DEF D
      <4> QED
        BY <2>2, <4>1, MinOfSome
    <3>2. k \in Nat /\ k \in 1 .. Len(s) /\ k \in 1 .. Len(t) /\ s[k] # t[k]
      BY <3>1
    <3> HIDE DEF k
    <3>3. ASSUME NEW i \in 1 .. k - 1 PROVE s[i] = t[i]
      <4>1. i \in Nat /\ i \in 1 .. Len(s) /\ i \in 1 .. Len(t) /\ ~(k <= i)
        BY <2>0, <3>2
      <4>2. i \notin D
        <5> HIDE DEF D
        <5> QED
          BY <3>1, <4>1
      <4> QED
        BY <4>1, <4>2
    <3> DEFINE n == k - 1
    <3>4. /\ n \in 0 .. Len(s) /\ n \in 0 .. Len(t) /\ n < Len(s) /\ n < Len(t) /\ n + 1 = k
          /\ SameUpTo(s, t, n) /\ SameUpTo(t, s, n)
      BY <2>0, <3>2, <3>3 DEF SameUpTo
    <3> HIDE DEF n
    <3>5. s[k] < t[k] \/ t[k] < s[k]
      BY <2>0, <3>2
    <3> QED
      BY <3>4, <3>5, BeforeAt
  <2> QED
    BY <2>1, <2>2
<1> QED
  BY <1>1, <1>2, <1>3

(* Things of different texts are in an order.                                *)
LEMMA TextsOrder ==
  ASSUME NEW S, NEW K \in [S -> Text], \A x, y \in S : K[x] = K[y] => x = y
  PROVE  IsOrder(S, {p \in S \X S : Before(K[p[1]], K[p[2]])})
<1> DEFINE R == {p \in S \X S : Before(K[p[1]], K[p[2]])}
<1>1. \A x, y \in S : <<x, y>> \in R <=> Before(K[x], K[y])
  OBVIOUS
<1> HIDE DEF R
<1>2. \A x \in S : K[x] \in Text
  OBVIOUS
<1>3. \A x \in S : <<x, x>> \notin R
  BY <1>1, <1>2, BeforeIsOrder
<1>4. ASSUME NEW x \in S, NEW y \in S, NEW z \in S, <<x, y>> \in R, <<y, z>> \in R
      PROVE  <<x, z>> \in R
  BY <1>1, <1>2, <1>4, BeforeIsOrder
<1>5. ASSUME NEW x \in S, NEW y \in S PROVE x = y \/ <<x, y>> \in R \/ <<y, x>> \in R
  BY <1>1, <1>2, BeforeIsOrder
<1> QED
  BY <1>3, <1>4, <1>5 DEF IsOrder, R

-----------------------------------------------------------------------------
(* Aliases: of each spelling one, in the order of the spellings.             *)
LEMMA NormalIsText ==
  ASSUME NEW t \in Text
  PROVE  Normal(t) \in Text /\ Len(Normal(t)) = Len(t)
<1>1. Len(t) \in Nat /\ DOMAIN t = 1 .. Len(t) /\ \A i \in 1 .. Len(t) : t[i] \in Int
  BY DEF Text
<1>2. \A i \in 1 .. Len(t) : Lower(t[i]) \in Int
  BY <1>1 DEF Lower
<1> QED
  BY <1>1, <1>2 DEF Normal, Text

Spellings(s) == {Normal(s[i]) : i \in DOMAIN s}

InSpellingOrder(s) == \A i, j \in DOMAIN s : i < j => Before(Normal(s[i]), Normal(s[j]))

LEMMA SpellingsAreListed ==
  ASSUME NEW N
  PROVE  Ordered(N, Before) = [i \in 1 .. Cardinality(N) |-> Ordered(N, Before)[i]]
BY ONLY SMTT(30) DEF Ordered

LEMMA SpellingsInOrder ==
  ASSUME NEW raw \in Seq(Text)
  PROVE  LET keys == Ordered(Spellings(raw), Before)
         IN /\ keys \in Seq(Spellings(raw)) /\ Range(keys) = Spellings(raw)
            /\ \A i, j \in DOMAIN keys : i < j => Before(keys[i], keys[j])
            /\ InSpellingOrder(raw) => Len(keys) = Len(raw) /\ \A i \in DOMAIN raw : keys[i] = Normal(raw[i])
<1> DEFINE N == Spellings(raw)
           keys == Ordered(N, Before)
           K == [x \in N |-> x]
           R == {p \in N \X N : Before(K[p[1]], K[p[2]])}
<1>1. Len(raw) \in Nat /\ DOMAIN raw = 1 .. Len(raw) /\ \A i \in 1 .. Len(raw) : raw[i] \in Text
  OBVIOUS
<1>2. IsFiniteSet(N)
  <2> DEFINE f == [i \in 1 .. Len(raw) |-> Normal(raw[i])]
  <2>1. IsFiniteSet(1 .. Len(raw))
    BY <1>1, FS_Interval
  <2>2. f \in [1 .. Len(raw) -> N] /\ \A x \in N : \E i \in 1 .. Len(raw) : f[i] = x
    BY <1>1 DEF Spellings
  <2> HIDE DEF f, N
  <2>3. f \in Surjection(1 .. Len(raw), N)
    BY <2>2 DEF Surjection
  <2> QED
    BY <2>1, <2>3, FS_Surjection
<1>3. N \subseteq Text
  BY <1>1, NormalIsText DEF Spellings
<1>4. IsOrder(N, R)
  <2>1. K \in [N -> Text] /\ \A x, y \in N : K[x] = K[y] => x = y
    BY <1>3
  <2> HIDE DEF N, K
  <2> QED
    BY <2>1, TextsOrder
<1>5. \A x, y \in N : <<x, y>> \in R <=> Before(x, y)
  OBVIOUS
<1> HIDE DEF N, K, R
<1>6. \A x \in N : Cardinality({y \in N : Before(y, x)}) = Rank(N, R, x)
  <2>1. \A x \in N : {y \in N : Before(y, x)} = {y \in N : <<y, x>> \in R}
    BY <1>5
  <2> QED
    BY <2>1 DEF Rank
<1>7. \A i \in 1 .. Cardinality(N) :
        (\E x \in N : Rank(N, R, x) = i - 1) => keys[i] \in N /\ Rank(N, R, keys[i]) = i - 1
  <2> TAKE i \in 1 .. Cardinality(N)
  <2> HAVE \E x \in N : Rank(N, R, x) = i - 1
  <2>1. \E x \in N : Cardinality({y \in N : Before(y, x)}) = i - 1
    BY <1>6
  <2>2. keys[i] = CHOOSE x \in N : Cardinality({y \in N : Before(y, x)}) = i - 1
    BY DEF Ordered
  <2> QED
    BY <1>6, <2>1, <2>2
<1>8. keys = [i \in 1 .. Cardinality(N) |-> keys[i]]
  BY SpellingsAreListed
<1> HIDE DEF keys
<1>9. keys \in Seq(N) /\ Range(keys) = N /\ Sorted(keys, R)
  BY <1>2, <1>4, <1>7, <1>8, OrderedIsSorted
<1>10. \A i, j \in DOMAIN keys : i < j => Before(keys[i], keys[j])
  <2>1. \A i \in DOMAIN keys : keys[i] \in N
    BY <1>9
  <2> QED
    BY <1>5, <1>9, <2>1 DEF Sorted
<1>11. ASSUME InSpellingOrder(raw)
       PROVE  Len(keys) = Len(raw) /\ \A i \in DOMAIN raw : keys[i] = Normal(raw[i])
  <2> DEFINE q == [i \in 1 .. Len(raw) |-> Normal(raw[i])]
  <2>1. q \in Seq(N) /\ Len(q) = Len(raw) /\ DOMAIN q = 1 .. Len(raw) /\ \A i \in 1 .. Len(raw) : q[i] = Normal(raw[i]) /\ q[i] \in N
    <3>1. \A i \in 1 .. Len(raw) : Normal(raw[i]) \in N
      BY <1>1 DEF N, Spellings
    <3> QED
      BY <1>1, <3>1
  <2> HIDE DEF q
  <2>2. Sorted(q, R)
    BY <1>1, <1>5, <1>11, <2>1 DEF Sorted, InSpellingOrder
  <2>3. Range(q) = N
    BY <1>1, <2>1 DEF Range, N, Spellings
  <2>4. q = keys
    BY <1>4, <1>9, <2>1, <2>2, <2>3, SortedIsOne
  <2> QED
    BY <1>1, <2>1, <2>4
<1> QED
  BY <1>9, <1>10, <1>11 DEF keys, N

LEMMA AliasesAre ==
  ASSUME NEW raw \in Seq(Text)
  PROVE  /\ Aliases(raw) \in Seq(Text) /\ Spellings(Aliases(raw)) = Spellings(raw)
         /\ Range(Aliases(raw)) \subseteq Range(raw)
         /\ InSpellingOrder(Aliases(raw))
         /\ InSpellingOrder(raw) => Aliases(raw) = raw
<1> DEFINE N == Spellings(raw)
           keys == Ordered(N, Before)
           n == Len(keys)
           q == Aliases(raw)
           Of(key) == {i \in 1 .. Len(raw) : Normal(raw[i]) = key}
<1>1. Len(raw) \in Nat /\ DOMAIN raw = 1 .. Len(raw) /\ \A i \in 1 .. Len(raw) : raw[i] \in Text
  OBVIOUS
<1>2. /\ keys \in Seq(N) /\ Range(keys) = N
      /\ \A i, j \in DOMAIN keys : i < j => Before(keys[i], keys[j])
      /\ InSpellingOrder(raw) => Len(keys) = Len(raw) /\ \A i \in DOMAIN raw : keys[i] = Normal(raw[i])
  BY SpellingsInOrder
<1>3. /\ DOMAIN q = DOMAIN keys
      /\ \A k \in DOMAIN keys :
           Of(keys[k]) # {} => q[k] = raw[Min(Of(keys[k]))]
  BY DEF Aliases, Spellings, SelectInSeq
<1>4. q = [k \in DOMAIN keys |-> q[k]]
  BY ONLY SMTT(30) DEF Aliases, Spellings
<1> HIDE DEF keys, q, N
<1>5. n \in Nat /\ DOMAIN keys = 1 .. n /\ \A k \in 1 .. n : keys[k] \in N
  BY <1>2
<1>6. ASSUME NEW k \in 1 .. n
      PROVE  \E i \in 1 .. Len(raw) : /\ q[k] = raw[i] /\ Normal(raw[i]) = keys[k]
                                      /\ \A j \in 1 .. Len(raw) : Normal(raw[j]) = keys[k] => i <= j
  <2> DEFINE I == Of(keys[k])
  <2>1. I # {} /\ I \in SUBSET Nat
    BY <1>1, <1>5 DEF N, Spellings
  <2>2. q[k] = raw[Min(I)]
    BY <1>3, <1>5, <2>1
  <2> DEFINE m == Min(I)
  <2>3. m \in I /\ \A y \in I : m <= y
    <3> HIDE DEF I
    <3> QED
      BY <2>1, MinOfSome
  <2> HIDE DEF m
  <2> QED
    BY <2>2, <2>3 DEF m
<1>7. \A k \in 1 .. n : q[k] \in Text /\ q[k] \in Range(raw) /\ Normal(q[k]) = keys[k]
  BY <1>1, <1>6 DEF Range
<1>8. q \in Seq(Text) /\ Len(q) = n /\ DOMAIN q = 1 .. n
  <2> HIDE DEF n
  <2>1. q = [k \in 1 .. n |-> q[k]]
    BY <1>4, <1>5
  <2> QED
    BY <1>5, <1>7, <2>1
<1>9. Spellings(q) = N
  <2>1. Spellings(q) = {keys[k] : k \in 1 .. n}
    BY <1>7, <1>8 DEF Spellings
  <2> QED
    BY <1>2, <1>5, <2>1 DEF Range
<1>10. Range(q) \subseteq Range(raw)
  BY <1>7, <1>8 DEF Range
<1>11. InSpellingOrder(q)
  BY <1>2, <1>5, <1>7, <1>8 DEF InSpellingOrder
<1>12. ASSUME InSpellingOrder(raw) PROVE q = raw
  <2>1. n = Len(raw) /\ \A k \in 1 .. n : keys[k] = Normal(raw[k])
    BY <1>1, <1>2, <1>12
  <2>2. \A i, j \in 1 .. n : i < j => Before(Normal(raw[i]), Normal(raw[j]))
    BY <1>1, <1>12, <2>1 DEF InSpellingOrder
  <2>3. ASSUME NEW k \in 1 .. n PROVE q[k] = raw[k]
    <3>1. PICK i \in 1 .. Len(raw) : /\ q[k] = raw[i] /\ Normal(raw[i]) = keys[k]
                                      /\ \A j \in 1 .. Len(raw) : Normal(raw[j]) = keys[k] => i <= j
      BY <1>6
    <3>2. i <= k /\ Normal(raw[i]) = Normal(raw[k])
      BY <2>1, <3>1
    <3>3. Normal(raw[k]) \in Text
      BY <1>1, <2>1, NormalIsText
    <3>4. ~(i < k)
      BY <2>1, <2>2, <3>1, <3>2, <3>3, BeforeIsOrder
    <3>5. i = k
      BY <1>5, <3>1, <3>2, <3>4
    <3> QED
      BY <3>1, <3>5
  <2> HIDE DEF n
  <2> QED
    BY <1>8, <2>1, <2>3, SeqEqual
<1> QED
  BY <1>8, <1>9, <1>10, <1>11, <1>12 DEF q, N

-----------------------------------------------------------------------------
(* What a record is made of.                                                 *)
KnowledgeRecord ==
  {r \in [ref : Text, kind : Range(Kinds), title : Text, aliases : Seq(Text), body : Text,
          evidence : Seq(Source)] : InSpellingOrder(r.aliases) /\ Once(r.evidence)}

IsMadeOf(r, ref, title, body, evidence) ==
  /\ r \in KnowledgeRecord
  /\ r.ref = ref /\ r.title = title /\ r.body = body
  /\ Range(r.evidence) = Range(evidence)

LEMMA RecordIsMade ==
  ASSUME NEW ref \in Text, NEW kind \in Range(Kinds), NEW title \in Text,
         NEW aliases \in Seq(Text), NEW body \in Text, NEW evidence \in Seq(Source)
  PROVE  IsMadeOf(Record(ref, kind, title, aliases, body, evidence), ref, title, body, evidence)
<1> DEFINE r == Record(ref, kind, title, aliases, body, evidence)
<1>1. /\ r.ref = ref /\ r.kind = kind /\ r.title = title /\ r.body = body
      /\ r.aliases = Aliases(aliases) /\ r.evidence = Unrepeated(evidence)
      /\ r = [ref |-> ref, kind |-> kind, title |-> title, aliases |-> Aliases(aliases),
              body |-> body, evidence |-> Unrepeated(evidence)]
  BY DEF Record
<1>2. Aliases(aliases) \in Seq(Text) /\ InSpellingOrder(Aliases(aliases))
  BY AliasesAre
<1>3. /\ Unrepeated(evidence) \in Seq(Source) /\ Once(Unrepeated(evidence))
      /\ Range(Unrepeated(evidence)) = Range(evidence)
  BY UnrepeatedKeeps
<1> HIDE DEF r
<1> QED
  BY <1>1, <1>2, <1>3 DEF KnowledgeRecord, IsMadeOf, r

LEMMA KindsAre ==
  /\ \A kind \in Range(Kinds) : KindNumber(kind) \in Int /\ Tag(kind) \in Int
  /\ {"action", "endpoint", "form", "operation", "product", "wiki_topic"} \subseteq Range(Kinds)
  /\ {Slash, KnownEndpoint, NewEndpoint, ErrorSurface, Post} \subseteq Int
<1>1. DOMAIN Kinds = 1 .. 9
  BY DEF Kinds
<1>2. ASSUME NEW kind \in Range(Kinds) PROVE KindNumber(kind) \in 1 .. 9
  <2>1. \E k \in DOMAIN Kinds : Kinds[k] = kind
    BY DEF Range
  <2>2. KindNumber(kind) \in DOMAIN Kinds
    BY <2>1 DEF KindNumber
  <2> QED
    BY <1>1, <2>2
<1>3. /\ Kinds[1] = "action" /\ Kinds[4] = "endpoint" /\ Kinds[5] = "form"
      /\ Kinds[6] = "operation" /\ Kinds[7] = "product" /\ Kinds[9] = "wiki_topic"
  BY DEF Kinds
<1>4. {1, 4, 5, 6, 7, 9} \subseteq 1 .. 9
  OBVIOUS
<1>5. {"action", "endpoint", "form", "operation", "product", "wiki_topic"} \subseteq Range(Kinds)
  BY <1>1, <1>3, <1>4 DEF Range
<1>6. \A kind \in Range(Kinds) : KindNumber(kind) \in Int /\ Tag(kind) \in Int
  BY <1>2 DEF Tag
<1>7. {Slash, KnownEndpoint, NewEndpoint, ErrorSurface, Post} \subseteq Int
  BY DEF Slash, KnownEndpoint, NewEndpoint, ErrorSurface, Post
<1> QED
  BY <1>5, <1>6, <1>7

(* Texts of words, and texts in front of texts.                              *)
LEMMA WordsAreInts ==
  /\ Word \subseteq Int /\ Seq(Word) \subseteq Text
  /\ \A x \in Int : <<x>> \in Text
  /\ \A x, y \in Int : <<x, y>> \in Text
  /\ \A s, t \in Text : s \o t \in Text
<1>1. Word \subseteq Int
  BY DEF Word
<1>2. \A s \in Seq(Word) : s \in Text
  BY <1>1, SeqMonotonic DEF Text
<1> QED
  BY <1>1, <1>2 DEF Text

-----------------------------------------------------------------------------
(* Files that hold what they should.                                         *)
Complete(files) ==
  /\ \A i \in DOMAIN DataSets : <<DataSets[i], 0>> \in DOMAIN files
  /\ \A file \in DOMAIN files :
       /\ file \in Range(DataSets) \X Nat
       /\ Fits(file, files[file], DOMAIN files)

LEMMA DataSetsAre ==
  Range(DataSets) = {"actions", "products", "attributes", "categories", "entities", "captures",
                     "endpoints", "session-endpoints", "operations", "forms", "topics"}
<1>1. DOMAIN DataSets = 1 .. 11
  BY DEF DataSets
<1>2. 1 .. 11 = {1, 2, 3, 4, 5, 6, 7, 8, 9, 10, 11}
  OBVIOUS
<1>3. Range(DataSets) = {DataSets[i] : i \in {1, 2, 3, 4, 5, 6, 7, 8, 9, 10, 11}}
  BY <1>1, <1>2 DEF Range
<1>4. /\ DataSets[1] = "actions" /\ DataSets[2] = "products" /\ DataSets[3] = "attributes"
      /\ DataSets[4] = "categories" /\ DataSets[5] = "entities" /\ DataSets[6] = "captures"
      /\ DataSets[7] = "endpoints" /\ DataSets[8] = "session-endpoints"
      /\ DataSets[9] = "operations" /\ DataSets[10] = "forms" /\ DataSets[11] = "topics"
  BY DEF DataSets
<1> QED
  BY <1>3, <1>4

LEMMA FirstFilesAre ==
  ASSUME NEW files, Complete(files), NEW dataset \in Range(DataSets),
         files[<<dataset, 0>>] # Missing
  PROVE  /\ files[<<dataset, 0>>] \in FirstFile(dataset)
         /\ dataset \in InParts =>
              \A i \in DOMAIN files[<<dataset, 0>>].parts :
                <<dataset, files[<<dataset, 0>>].parts[i].file>> \in DOMAIN files
<1> DEFINE file == <<dataset, 0>>
<1>1. file \in DOMAIN files /\ file[1] = dataset /\ file[2] = 0
  BY DEF Complete, Range
<1>2. Fits(file, files[file], DOMAIN files)
  BY <1>1 DEF Complete
<1> HIDE DEF file
<1> QED
  BY <1>1, <1>2 DEF Fits, file

LEMMA PartFilesAre ==
  ASSUME NEW files, Complete(files), NEW dataset \in InParts, NEW file \in DOMAIN files,
         file[1] = dataset, file[2] # 0, files[file] # Missing
  PROVE  files[file] \in [part : Int, offset : Int, items : Seq(ItemOf(dataset))]
<1>1. Fits(file, files[file], DOMAIN files)
  BY DEF Complete
<1> QED
  BY <1>1 DEF Fits

LEMMA PartsAre ==
  ASSUME NEW files, Complete(files), NEW dataset \in InParts, Present(files, dataset)
  PROVE  LET parts == IndexOf(files, dataset).parts
             names == PartNames(files, dataset)
         IN /\ parts \in Seq(PartEntry) /\ DOMAIN names = DOMAIN parts
            /\ \A i \in DOMAIN names :
                 /\ names[i] = <<dataset, parts[i].file>> /\ names[i] \in DOMAIN files
                 /\ files[names[i]] # Missing =>
                      files[names[i]] \in [part : Int, offset : Int, items : Seq(ItemOf(dataset))]
<1> DEFINE first == files[<<dataset, 0>>]
           parts == first.parts
           names == PartNames(files, dataset)
<1>1. dataset \in Range(DataSets)
  BY DataSetsAre DEF InParts
<1>2. first \in FirstFile(dataset) /\ \A i \in DOMAIN parts : <<dataset, parts[i].file>> \in DOMAIN files
  BY <1>1, FirstFilesAre DEF Present
<1>3. parts \in Seq(PartEntry)
  <2>1. first \in [parts : Seq(PartEntry), total : Int, session : Int, source : Int]
          \cup [parts : Seq(PartEntry), total : Int]
    BY <1>2 DEF FirstFile, InParts
  <2> HIDE DEF first
  <2> QED
    BY <2>1
<1>4. DOMAIN names = DOMAIN parts /\ \A i \in DOMAIN names : names[i] = <<dataset, parts[i].file>>
  BY DEF PartNames, IndexOf
<1> HIDE DEF first, names
<1>5. ASSUME NEW i \in DOMAIN names
      PROVE  /\ names[i] \in DOMAIN files
             /\ files[names[i]] # Missing =>
                  files[names[i]] \in [part : Int, offset : Int, items : Seq(ItemOf(dataset))]
  <2>1. names[i] \in DOMAIN files /\ names[i] = <<dataset, parts[i].file>>
    BY <1>2, <1>4, <1>5
  <2>2. parts[i] \in PartEntry
    BY <1>3, <1>4, <1>5
  <2>3. names[i][1] = dataset /\ names[i][2] # 0
    BY <2>1, <2>2 DEF PartEntry
  <2> QED
    BY <2>1, <2>3, PartFilesAre
<1> QED
  BY <1>3, <1>4, <1>5 DEF IndexOf, first, names

LEMMA ItemsAre ==
  ASSUME NEW files, Complete(files), NEW dataset \in InParts, Whole(files, dataset)
  PROVE  Items(files, dataset) \in Seq(ItemOf(dataset))
<1> DEFINE parts == IndexOf(files, dataset).parts
           names == PartNames(files, dataset)
           seqs == [i \in DOMAIN names |-> files[names[i]].items]
           U == ItemOf(dataset)
<1>1. /\ parts \in Seq(PartEntry) /\ DOMAIN names = DOMAIN parts
      /\ \A i \in DOMAIN names :
           files[names[i]] # Missing => files[names[i]] \in [part : Int, offset : Int, items : Seq(U)]
  BY PartsAre DEF Whole
<1>2. \A i \in DOMAIN names : files[names[i]] # Missing
  BY DEF Whole, AllPresent, Range
<1>3. Items(files, dataset) = FlattenSeq(seqs)
  BY DEF Items
<1> HIDE DEF parts, names, U
<1>4. \A i \in DOMAIN names : files[names[i]].items \in Seq(U)
  BY <1>1, <1>2
<1>5. seqs \in Seq(Seq(U))
  <2>1. DOMAIN names = 1 .. Len(parts) /\ Len(parts) \in Nat
    BY <1>1
  <2> QED
    BY <1>4, <2>1
<1> HIDE DEF seqs
<1> QED
  BY <1>3, <1>5, RangeOfFlatten DEF U

(* What the accepted files hold.                                             *)
Items0(files, dataset) == files[<<dataset, 0>>].items
Captures(files) == files[<<"captures", 0>>].captures

AreTyped(files) ==
  /\ Items0(files, "actions") \in Seq(ActionItem)
  /\ Items(files, "products") \in Seq(ProductItem)
  /\ Present(files, "categories") => Items(files, "categories") \in Seq(CategoryItem)
  /\ Present(files, "attributes") => Items(files, "attributes") \in Seq(AttributeItem)
  /\ Items0(files, "entities") \in Seq(EntityItem)
  /\ Captures(files) \in Seq(Capture)
  /\ Items(files, "endpoints") \in Seq(EndpointItem)
  /\ Present(files, "session-endpoints") =>
       Items(files, "session-endpoints") \in Seq(SessionEndpointItem)
  /\ Items0(files, "operations") \in Seq(OperationItem)
  /\ Items(files, "forms") \in Seq(FormItem)
  /\ Items(files, "topics") \in Seq(TopicItem)

LEMMA AcceptedAreTyped ==
  ASSUME NEW files, Complete(files), Accepted(files)
  PROVE  AreTyped(files)
<1>1. {"products", "attributes", "categories", "endpoints", "session-endpoints", "forms", "topics"} = InParts
  BY DEF InParts
<1>2. \A dataset \in InParts : Whole(files, dataset) => Items(files, dataset) \in Seq(ItemOf(dataset))
  BY ItemsAre
<1>3. Items(files, "products") \in Seq(ProductItem)
  BY <1>1, <1>2 DEF Accepted, ProductsAccepted, ItemOf
<1>4. Present(files, "categories") => Items(files, "categories") \in Seq(CategoryItem)
  BY <1>1, <1>2 DEF Accepted, ProductsAccepted, CategoriesAccepted, ItemOf
<1>5. Present(files, "attributes") => Items(files, "attributes") \in Seq(AttributeItem)
  BY <1>1, <1>2 DEF Accepted, ProductsAccepted, AttributesAccepted, ItemOf
<1>6. Items(files, "endpoints") \in Seq(EndpointItem)
  BY <1>1, <1>2 DEF Accepted, EndpointsAccepted, ItemOf
<1>7. Present(files, "session-endpoints") =>
       Items(files, "session-endpoints") \in Seq(SessionEndpointItem)
  BY <1>1, <1>2 DEF Accepted, SessionEndpointsAccepted, ItemOf
<1>8. Items(files, "forms") \in Seq(FormItem)
  BY <1>1, <1>2 DEF Accepted, FormsAccepted, ItemOf
<1>9. Items(files, "topics") \in Seq(TopicItem)
  BY <1>1, <1>2 DEF Accepted, TopicsAccepted, ItemOf
<1>10. \A dataset \in {"actions", "entities", "captures", "operations"} :
         dataset \in Range(DataSets)
           /\ (files[<<dataset, 0>>] # Missing => files[<<dataset, 0>>] \in FirstFile(dataset))
  BY DataSetsAre, FirstFilesAre
<1>11. Items0(files, "actions") \in Seq(ActionItem)
  BY <1>10 DEF Accepted, ActionsAccepted, Items0, FirstFile, ItemOf
<1>12. Items0(files, "entities") \in Seq(EntityItem)
  BY <1>10 DEF Accepted, EntitiesAccepted, Items0, FirstFile, ItemOf
<1>13. Captures(files) \in Seq(Capture)
  BY <1>10 DEF Accepted, CapturesAccepted, Captures, FirstFile
<1>14. Items0(files, "operations") \in Seq(OperationItem)
  BY <1>10 DEF Accepted, OperationsAccepted, Items0, FirstFile
<1> QED
  BY <1>3, <1>4, <1>5, <1>6, <1>7, <1>8, <1>9, <1>11, <1>12, <1>13, <1>14 DEF AreTyped

-----------------------------------------------------------------------------
(* What is cited has a source.                                               *)
LEMMA CitedHasSource ==
  ASSUME NEW files, AreTyped(files), NEW observation \in Observation, Citable(files, observation)
  PROVE  ObservationRef(files, observation) \in Source
<1> DEFINE captures == Captures(files)
           I == {i \in 1 .. Len(captures) : captures[i].name = observation.of}
<1>1. captures \in Seq(Capture)
  BY DEF AreTyped
<1>2. observation.of \in Int /\ observation.at \in Int
  BY DEF Observation
<1>3. CASE observation.by = "capture"
  <2>1. \E c \in Range(captures) : c.name = observation.of
    BY <1>3 DEF Citable, Captures
  <2>2. I # {} /\ I \in SUBSET Nat
    BY <1>1, <2>1 DEF Range
  <2> DEFINE m == Min(I)
  <2>3. m \in I
    <3> HIDE DEF I
    <3> QED
      BY <2>2, MinOfSome
  <2>4. ObservationRef(files, observation) = <<captures[m].source, observation.at>>
    <3> HIDE DEF m, captures
    <3> QED
      BY <1>3, <2>2 DEF ObservationRef, SelectInSeq, Captures, m, captures
  <2> HIDE DEF m
  <2>5. captures[m] \in Capture
    BY <1>1, <2>3
  <2> HIDE DEF captures
  <2>6. captures[m].source \in Int
    BY <2>5 DEF Capture
  <2> QED
    BY <1>2, <2>4, <2>6 DEF Source
<1>4. CASE observation.by # "capture"
  BY <1>2, <1>4 DEF ObservationRef, Source
<1> QED
  BY <1>3, <1>4

LEMMA AllCitedHaveSources ==
  ASSUME NEW files, AreTyped(files), NEW observations \in Seq(Observation),
         \A i \in DOMAIN observations : Citable(files, observations[i])
  PROVE  ObservationRefs(files, observations) \in Seq(Source)
<1>1. \A i \in DOMAIN observations : ObservationRef(files, observations[i]) \in Source
  BY CitedHasSource
<1>2. DOMAIN observations = 1 .. Len(observations) /\ Len(observations) \in Nat
  OBVIOUS
<1> QED
  BY <1>1, <1>2 DEF ObservationRefs

-----------------------------------------------------------------------------
(* Texts one after the other have the words of each.                         *)
LEMMA TextsJoin ==
  \A s, t \in Text :
    /\ s \o t \in Text /\ Range(s \o t) = Range(s) \cup Range(t)
    /\ \A u, v \in Text :
         /\ s \o t \o u \in Text /\ s \o t \o u \o v \in Text
         /\ Range(s \o t \o u \o v) = Range(s) \cup Range(t) \cup Range(u) \cup Range(v)
<1>1. \A s, t \in Text : s \o t \in Text /\ Range(s \o t) = Range(s) \cup Range(t)
  BY RangeOfConcat DEF Text
<1>2. ASSUME NEW s \in Text, NEW t \in Text, NEW u \in Text, NEW v \in Text
      PROVE  /\ s \o t \o u \in Text /\ s \o t \o u \o v \in Text
             /\ Range(s \o t \o u \o v) = Range(s) \cup Range(t) \cup Range(u) \cup Range(v)
  <2>1. PICK a : a = s \o t
    OBVIOUS
  <2>2. PICK b : b = a \o u
    OBVIOUS
  <2>3. a \in Text /\ Range(a) = Range(s) \cup Range(t)
    BY <1>1, <2>1
  <2>4. b \in Text /\ Range(b) = Range(a) \cup Range(u)
    BY <1>1, <2>2, <2>3
  <2>5. b \o v \in Text /\ Range(b \o v) = Range(b) \cup Range(v)
    BY <1>1, <2>4
  <2> QED
    BY <2>1, <2>2, <2>3, <2>4, <2>5
<1> QED
  BY <1>1, <1>2

(* A record has words in its body that are not mere punctuation.             *)
HasWords(r, words) == words \subseteq Word /\ words \subseteq Range(r.title) \cup Range(r.body)

LEMMA HasWordsOfText ==
  ASSUME NEW r, NEW words, HasWords(r, words)
  PROVE  {Lower(w) : w \in words} \subseteq WordsOf(r)
<1>1. \A w \in words : Lower(w) # Slash
  BY DEF HasWords, Word
<1> QED
  BY <1>1 DEF HasWords, WordsOf, Tokens

(* The record says what the files say of the thing.                          *)
Bears(r, ref, words, evidence) ==
  r.ref = ref /\ HasWords(r, words) /\ Range(evidence) \subseteq Range(r.evidence)

LEMMA ActionIsRecorded ==
  ASSUME NEW a \in ActionItem
  PROVE  /\ ActionRecord(a) \in KnowledgeRecord
         /\ Bears(ActionRecord(a), a.id, Range(a.route) \cup a.fields \cup a.query, a.evidence)
<1>1. /\ a.id \in Text /\ a.method \in Int /\ a.route \in Seq(Word) /\ a.fields \in Words
      /\ a.query \in Words /\ a.evidence \in Seq(Source)
  BY DEF ActionItem, Text
<1> DEFINE path == <<Slash>> \o a.route
           title == <<a.method>> \o path
           short == LastTwo(a.route)
           q == Numbers(a.query)
           f == Numbers(a.fields)
           body == title \o a.route \o q \o f
           aliases == <<path, title, a.route, short>>
<1>2. /\ a.route \in Text /\ path \in Text /\ title \in Text
  BY <1>1, KindsAre, WordsAreInts
<1>3. short \in Text
  <2>1. /\ Len(a.route) \in Nat /\ \A i \in 1 .. Len(a.route) : a.route[i] \in Int
    BY <1>2 DEF Text
  <2> QED
    BY <2>1 DEF LastTwo, Text
<1>4. q \in Text /\ f \in Text /\ Range(q) = a.query /\ Range(f) = a.fields
  BY <1>1, NumbersAreThose DEF Text
<1>5. ActionRecord(a) = Record(a.id, "action", title, aliases, body, a.evidence)
  BY DEF ActionRecord
<1> HIDE DEF path, title, short, q, f
<1>6. /\ title \o a.route \in Text
      /\ title \o a.route \o q \in Text
      /\ body \in Text
      /\ Range(body) = Range(title) \cup Range(a.route) \cup Range(q) \cup Range(f)
  BY <1>2, <1>4, TextsJoin
<1>7. aliases \in Seq(Text)
  BY <1>2, <1>3
<1> HIDE DEF body, aliases
<1> DEFINE r == Record(a.id, "action", title, aliases, body, a.evidence)
<1>8. /\ r \in KnowledgeRecord /\ r.ref = a.id /\ r.body = body
      /\ Range(r.evidence) = Range(a.evidence)
  <2>1. "action" \in Range(Kinds)
    BY KindsAre
  <2>2. IsMadeOf(r, a.id, title, body, a.evidence)
    BY <1>1, <1>2, <1>6, <1>7, <2>1, RecordIsMade
  <2> QED
    BY <2>2 DEF IsMadeOf
<1> HIDE DEF r
<1>9. Range(a.route) \cup a.fields \cup a.query \subseteq Word
  BY <1>1 DEF Words, Range
<1> QED
  BY <1>4, <1>5, <1>6, <1>8, <1>9 DEF Bears, HasWords, r

LEMMA EntityIsRecorded ==
  ASSUME NEW e \in EntityItem
  PROVE  EntityRecord(e) \in KnowledgeRecord
<1>1. /\ e.id \in Text /\ e.kind \in Range(Kinds) /\ e.name \in Text /\ e.number \in Int
      /\ e.subtype \in Text /\ e.evidence \in Seq(Source)
  BY WordsAreInts DEF EntityItem, Text
<1>2. Tag(e.kind) \in Int
  BY <1>1, KindsAre
<1> DEFINE aliases == << <<Tag(e.kind), e.number>> >>
           body == e.name \o <<Tag(e.kind)>> \o e.subtype
<1>3. aliases \in Seq(Text) /\ body \in Text
  BY <1>1, <1>2, WordsAreInts
<1>4. EntityRecord(e) = Record(e.id, e.kind, e.name, aliases, body, e.evidence)
  BY DEF EntityRecord
<1> HIDE DEF aliases, body
<1> QED
  BY <1>1, <1>3, <1>4, RecordIsMade DEF IsMadeOf

LEMMA OperationIsRecorded ==
  ASSUME NEW files, AreTyped(files), NEW o \in OperationItem, Cited(files, o.observations)
  PROVE  OperationRecord(files, o) \in KnowledgeRecord
<1>1. /\ o.number \in Int /\ o.path \in Text /\ o.query \in Words /\ o.body \in Words
      /\ o.observations \in Seq(Observation)
  BY DEF OperationItem, Text
<1> DEFINE q == Numbers(o.query)
           b == Numbers(o.body)
           ref == <<KindNumber("operation")>> \o o.path \o <<0>> \o q \o <<0>> \o b
           title == <<Post>> \o o.path \o <<o.number>>
           aliases == << <<o.number>>, <<Tag("operation"), o.number>>, <<Post>> \o o.path>>
           body == <<Post>> \o o.path \o q \o b
<1>2. q \in Text /\ b \in Text
  BY <1>1, NumbersAreThose DEF Text
<1>3. KindNumber("operation") \in Int /\ Tag("operation") \in Int /\ Post \in Int
      /\ "operation" \in Range(Kinds)
  BY KindsAre
<1> HIDE DEF q, b
<1>4. ref \in Text /\ title \in Text /\ body \in Text
  BY <1>1, <1>2, <1>3, WordsAreInts
<1>5. aliases \in Seq(Text)
  <2>1. <<Post>> \o o.path \in Text
    BY <1>1, <1>3, WordsAreInts
  <2> QED
    BY <1>1, <1>3, <2>1, WordsAreInts
<1>6. ObservationRefs(files, o.observations) \in Seq(Source)
  BY <1>1, AllCitedHaveSources DEF Cited
<1>7. OperationRecord(files, o)
        = Record(ref, "operation", title, aliases, body, ObservationRefs(files, o.observations))
  BY DEF OperationRecord, q, b
<1> HIDE DEF ref, title, aliases, body
<1> QED
  BY <1>3, <1>4, <1>5, <1>6, <1>7, RecordIsMade DEF IsMadeOf

LEMMA FormIsRecorded ==
  ASSUME NEW files, AreTyped(files), NEW f \in FormItem, Cited(files, f.observed)
  PROVE  FormRecord(files, f) \in KnowledgeRecord
<1>1. /\ f.id \in Int /\ f.method \in Int /\ f.path \in Text /\ f.query \in Words
      /\ f.fields \in Words /\ f.observed \in Seq(Observation)
  BY DEF FormItem, Text
<1> DEFINE q == Numbers(f.query)
           b == Numbers(f.fields)
           ref == <<KindNumber("form"), f.id>>
           title == <<f.method>> \o f.path
           aliases == << <<f.id>>, <<Tag("form"), f.id>>, <<f.method>> \o f.path>>
           body == <<f.method>> \o f.path \o q \o b
<1>2. q \in Text /\ b \in Text
  BY <1>1, NumbersAreThose DEF Text
<1>3. KindNumber("form") \in Int /\ Tag("form") \in Int /\ "form" \in Range(Kinds)
  BY KindsAre
<1> HIDE DEF q, b
<1>4. ref \in Text /\ title \in Text /\ body \in Text
  BY <1>1, <1>2, <1>3, WordsAreInts
<1>5. aliases \in Seq(Text)
  BY <1>1, <1>3, <1>4, WordsAreInts
<1>6. ObservationRefs(files, f.observed) \in Seq(Source)
  BY <1>1, AllCitedHaveSources DEF Cited
<1>7. FormRecord(files, f)
        = Record(ref, "form", title, aliases, body, ObservationRefs(files, f.observed))
  BY DEF FormRecord, q, b
<1> HIDE DEF ref, title, aliases, body
<1> QED
  BY <1>3, <1>4, <1>5, <1>6, <1>7, RecordIsMade DEF IsMadeOf

LEMMA TopicIsRecorded ==
  ASSUME NEW files, AreTyped(files), NEW t \in TopicItem, Citable(files, t.source)
  PROVE  TopicRecord(files, t) \in KnowledgeRecord
<1>1. /\ t.topic \in Text /\ t.text \in Text /\ t.related \in Text /\ t.source \in Observation
  BY WordsAreInts DEF TopicItem
<1> DEFINE ref == <<KindNumber("wiki_topic")>> \o t.topic
           aliases == <<t.topic, <<Tag("wiki_topic")>> \o t.topic>>
           body == t.topic \o t.text \o t.related
           evidence == <<ObservationRef(files, t.source)>>
<1>2. KindNumber("wiki_topic") \in Int /\ Tag("wiki_topic") \in Int /\ "wiki_topic" \in Range(Kinds)
  BY KindsAre
<1>3. ref \in Text /\ body \in Text
  BY <1>1, <1>2, WordsAreInts
<1>4. aliases \in Seq(Text)
  <2>1. <<Tag("wiki_topic")>> \o t.topic \in Text
    BY <1>1, <1>2, WordsAreInts
  <2> QED
    BY <1>1, <2>1
<1>5. evidence \in Seq(Source)
  BY <1>1, CitedHasSource
<1>6. TopicRecord(files, t) = Record(ref, "wiki_topic", t.topic, aliases, body, evidence)
  BY DEF TopicRecord
<1> HIDE DEF ref, aliases, body, evidence
<1> QED
  BY <1>1, <1>2, <1>3, <1>4, <1>5, <1>6, RecordIsMade DEF IsMadeOf

-----------------------------------------------------------------------------
(* What the data sets say of a product is gathered.                          *)
LEMMA GatheredOnce ==
  ASSUME NEW U, NEW seqs \in Seq(Seq(U))
  PROVE  /\ Unrepeated(FlattenSeq(seqs)) \in Seq(U)
         /\ \A i \in DOMAIN seqs : Range(seqs[i]) \subseteq Range(Unrepeated(FlattenSeq(seqs)))
<1>1. PICK all : all = FlattenSeq(seqs)
  OBVIOUS
<1>2. all \in Seq(U) /\ Range(all) = UNION {Range(seqs[i]) : i \in DOMAIN seqs}
  BY <1>1, RangeOfFlatten
<1>3. Unrepeated(all) \in Seq(U) /\ Range(Unrepeated(all)) = Range(all)
  BY <1>2, UnrepeatedKeeps
<1> QED
  BY <1>1, <1>2, <1>3

CategoryNames(files, product) == CategoriesOf(files, product, LAMBDA c : <<c.name>>)
CategoryEvidence(files, product) == CategoriesOf(files, product, LAMBDA c : c.evidence)
AttributeTerms(files, product) == AttributesOf(files, product, LAMBDA a : a.terms)
AttributeEvidence(files, product) == AttributesOf(files, product, LAMBDA a : a.evidence)

LEMMA CategoriesAreGathered ==
  ASSUME NEW files, AreTyped(files), NEW product
  PROVE  /\ CategoryNames(files, product) \in Seq(Word)
         /\ CategoryEvidence(files, product) \in Seq(Source)
         /\ Present(files, "categories") =>
              \A c \in Range(Items(files, "categories")) : product \in c.products =>
                /\ c.name \in Range(CategoryNames(files, product))
                /\ Range(c.evidence) \subseteq Range(CategoryEvidence(files, product))
<1> DEFINE items == Items(files, "categories")
           names == [i \in DOMAIN items |->
                       IF product \in items[i].products THEN <<items[i].name>> ELSE <<>>]
           sources == [i \in DOMAIN items |->
                         IF product \in items[i].products THEN items[i].evidence ELSE <<>>]
<1>1. CASE ~Present(files, "categories")
  <2>1. CategoryNames(files, product) = <<>> /\ CategoryEvidence(files, product) = <<>>
    BY <1>1 DEF CategoryNames, CategoryEvidence, CategoriesOf
  <2> QED
    BY <1>1, <2>1
<1>2. CASE Present(files, "categories")
  <2>1. items \in Seq(CategoryItem)
    BY <1>2 DEF AreTyped
  <2>2. /\ CategoryNames(files, product) = Unrepeated(FlattenSeq(names))
        /\ CategoryEvidence(files, product) = Unrepeated(FlattenSeq(sources))
    BY <1>2 DEF CategoryNames, CategoryEvidence, CategoriesOf, Gather
  <2> HIDE DEF items
  <2>3. DOMAIN items = 1 .. Len(items) /\ Len(items) \in Nat
        /\ \A i \in DOMAIN items : items[i].name \in Word /\ items[i].evidence \in Seq(Source)
    <3>1. \A i \in DOMAIN items : items[i] \in CategoryItem
      BY <2>1
    <3> QED
      BY <2>1, <3>1 DEF CategoryItem
  <2>4. names \in Seq(Seq(Word)) /\ sources \in Seq(Seq(Source))
        /\ DOMAIN names = DOMAIN items /\ DOMAIN sources = DOMAIN items
        /\ \A i \in DOMAIN items : product \in items[i].products =>
             names[i] = <<items[i].name>> /\ sources[i] = items[i].evidence
    BY <2>3
  <2> HIDE DEF names, sources
  <2>5. /\ CategoryNames(files, product) \in Seq(Word)
        /\ \A i \in DOMAIN names : Range(names[i]) \subseteq Range(CategoryNames(files, product))
    BY <2>2, <2>4, GatheredOnce
  <2>6. /\ CategoryEvidence(files, product) \in Seq(Source)
        /\ \A i \in DOMAIN sources : Range(sources[i]) \subseteq Range(CategoryEvidence(files, product))
    BY <2>2, <2>4, GatheredOnce
  <2>7. ASSUME NEW c \in Range(items), product \in c.products
        PROVE  /\ c.name \in Range(CategoryNames(files, product))
               /\ Range(c.evidence) \subseteq Range(CategoryEvidence(files, product))
    <3>1. PICK i \in DOMAIN items : items[i] = c
      BY DEF Range
    <3>2. names[i] = <<c.name>> /\ sources[i] = c.evidence
      BY <2>4, <2>7, <3>1
    <3>3. c.name \in Range(<<c.name>>)
      BY DEF Range
    <3> QED
      BY <2>4, <2>5, <2>6, <3>1, <3>2, <3>3
  <2> QED
    BY <2>5, <2>6, <2>7 DEF items
<1> QED
  BY <1>1, <1>2

LEMMA AttributesAreGathered ==
  ASSUME NEW files, AreTyped(files), NEW product
  PROVE  /\ AttributeTerms(files, product) \in Seq(Word)
         /\ AttributeEvidence(files, product) \in Seq(Source)
         /\ Present(files, "attributes") =>
              \A a \in Range(Items(files, "attributes")) : a.product = product =>
                /\ Range(a.terms) \subseteq Range(AttributeTerms(files, product))
                /\ Range(a.evidence) \subseteq Range(AttributeEvidence(files, product))
<1> DEFINE items == Items(files, "attributes")
           terms == [i \in DOMAIN items |->
                       IF items[i].product = product THEN items[i].terms ELSE <<>>]
           sources == [i \in DOMAIN items |->
                         IF items[i].product = product THEN items[i].evidence ELSE <<>>]
<1>1. CASE ~Present(files, "attributes")
  <2>1. AttributeTerms(files, product) = <<>> /\ AttributeEvidence(files, product) = <<>>
    BY <1>1 DEF AttributeTerms, AttributeEvidence, AttributesOf
  <2> QED
    BY <1>1, <2>1
<1>2. CASE Present(files, "attributes")
  <2>1. items \in Seq(AttributeItem)
    BY <1>2 DEF AreTyped
  <2>2. /\ AttributeTerms(files, product) = Unrepeated(FlattenSeq(terms))
        /\ AttributeEvidence(files, product) = Unrepeated(FlattenSeq(sources))
    BY <1>2 DEF AttributeTerms, AttributeEvidence, AttributesOf, Gather
  <2> HIDE DEF items
  <2>3. DOMAIN items = 1 .. Len(items) /\ Len(items) \in Nat
        /\ \A i \in DOMAIN items : items[i].terms \in Seq(Word) /\ items[i].evidence \in Seq(Source)
    <3>1. \A i \in DOMAIN items : items[i] \in AttributeItem
      BY <2>1
    <3> QED
      BY <2>1, <3>1 DEF AttributeItem
  <2>4. terms \in Seq(Seq(Word)) /\ sources \in Seq(Seq(Source))
        /\ DOMAIN terms = DOMAIN items /\ DOMAIN sources = DOMAIN items
        /\ \A i \in DOMAIN items : items[i].product = product =>
             terms[i] = items[i].terms /\ sources[i] = items[i].evidence
    BY <2>3
  <2> HIDE DEF terms, sources
  <2>5. /\ AttributeTerms(files, product) \in Seq(Word)
        /\ \A i \in DOMAIN terms : Range(terms[i]) \subseteq Range(AttributeTerms(files, product))
    BY <2>2, <2>4, GatheredOnce
  <2>6. /\ AttributeEvidence(files, product) \in Seq(Source)
        /\ \A i \in DOMAIN sources : Range(sources[i]) \subseteq Range(AttributeEvidence(files, product))
    BY <2>2, <2>4, GatheredOnce
  <2>7. ASSUME NEW a \in Range(items), a.product = product
        PROVE  /\ Range(a.terms) \subseteq Range(AttributeTerms(files, product))
               /\ Range(a.evidence) \subseteq Range(AttributeEvidence(files, product))
    <3>1. PICK i \in DOMAIN items : items[i] = a
      BY DEF Range
    <3>2. terms[i] = a.terms /\ sources[i] = a.evidence
      BY <2>4, <2>7, <3>1
    <3> QED
      BY <2>4, <2>5, <2>6, <3>1, <3>2
  <2> QED
    BY <2>5, <2>6, <2>7 DEF items
<1> QED
  BY <1>1, <1>2

LEMMA ProductIsRecorded ==
  ASSUME NEW files, AreTyped(files), NEW p \in ProductItem
  PROVE  LET r == ProductRecord(files, p)
         IN /\ r \in KnowledgeRecord
            /\ Bears(r, p.id, Range(p.name) \cup Range(p.slug), p.evidence)
            /\ Bears(r, p.id, Range(CategoryNames(files, p.id)), CategoryEvidence(files, p.id))
            /\ Bears(r, p.id, Range(AttributeTerms(files, p.id)), AttributeEvidence(files, p.id))
<1> DEFINE terms == CategoryNames(files, p.id)
           more == AttributeTerms(files, p.id)
           seen == CategoryEvidence(files, p.id)
           also == AttributeEvidence(files, p.id)
           body == p.name \o p.slug \o p.categories \o terms \o more
           evidence == p.evidence \o seen \o also
           aliases == <<p.slug>> \o [i \in DOMAIN p.numbers |-> <<Tag("product"), p.numbers[i]>>]
<1>1. /\ p.id \in Text /\ p.name \in Seq(Word) /\ p.slug \in Seq(Word) /\ p.categories \in Seq(Word)
      /\ p.numbers \in Seq(Int) /\ p.evidence \in Seq(Source)
  BY DEF ProductItem, Text
<1>2. /\ terms \in Seq(Word) /\ more \in Seq(Word) /\ seen \in Seq(Source) /\ also \in Seq(Source)
  BY CategoriesAreGathered, AttributesAreGathered
<1>3. ProductRecord(files, p) = Record(p.id, "product", p.name, aliases, body, evidence)
  BY DEF ProductRecord, CategoryNames, CategoryEvidence, AttributeTerms, AttributeEvidence
<1> HIDE DEF terms, more, seen, also
<1>4. body \in Text
      /\ Range(body) = Range(p.name) \cup Range(p.slug) \cup Range(p.categories) \cup Range(terms)
                         \cup Range(more)
  <2>1. p.name \in Text /\ p.slug \in Text /\ p.categories \in Text /\ terms \in Text /\ more \in Text
    BY <1>1, <1>2, WordsAreInts
  <2>2. PICK t : t = p.name \o p.slug \o p.categories \o terms
    OBVIOUS
  <2>3. t \in Text /\ Range(t) = Range(p.name) \cup Range(p.slug) \cup Range(p.categories) \cup Range(terms)
    BY <2>1, <2>2, TextsJoin
  <2>4. t \o more \in Text /\ Range(t \o more) = Range(t) \cup Range(more)
    BY <2>1, <2>3, TextsJoin
  <2> QED
    BY <2>2, <2>3, <2>4
<1>5. evidence \in Seq(Source) /\ Range(evidence) = Range(p.evidence) \cup Range(seen) \cup Range(also)
  <2>0. PICK t : t = p.evidence
    OBVIOUS
  <2>1. PICK s : s = t \o seen
    OBVIOUS
  <2>2. s \in Seq(Source) /\ Range(s) = Range(t) \cup Range(seen)
    BY <1>1, <1>2, <2>0, <2>1, RangeOfConcat
  <2>3. s \o also \in Seq(Source) /\ Range(s \o also) = Range(s) \cup Range(also)
    BY <1>2, <2>2, RangeOfConcat
  <2> QED
    BY <2>0, <2>1, <2>2, <2>3
<1>6. aliases \in Seq(Text)
  <2>1. Tag("product") \in Int
    BY KindsAre
  <2>2. [i \in DOMAIN p.numbers |-> <<Tag("product"), p.numbers[i]>>] \in Seq(Text)
    <3>1. PICK q : q = p.numbers
      OBVIOUS
    <3>2. DOMAIN q = 1 .. Len(q) /\ Len(q) \in Nat /\ \A i \in DOMAIN q : q[i] \in Int
      BY <1>1, <3>1
    <3>3. \A i \in DOMAIN q : <<Tag("product"), q[i]>> \in Text
      BY <2>1, <3>2, WordsAreInts
    <3> QED
      BY <3>1, <3>2, <3>3
  <2>3. <<p.slug>> \in Seq(Text)
    BY <1>1, WordsAreInts
  <2> QED
    BY <2>2, <2>3
<1> HIDE DEF body, evidence, aliases
<1> DEFINE r == Record(p.id, "product", p.name, aliases, body, evidence)
<1>7. IsMadeOf(r, p.id, p.name, body, evidence)
  <2>1. "product" \in Range(Kinds) /\ p.name \in Text
    BY <1>1, KindsAre, WordsAreInts
  <2> QED
    BY <1>1, <1>4, <1>5, <1>6, <2>1, RecordIsMade
<1> HIDE DEF r
<1>8. Range(p.name) \cup Range(p.slug) \cup Range(terms) \cup Range(more) \subseteq Word
  BY <1>1, <1>2 DEF Range
<1>9. /\ r \in KnowledgeRecord
      /\ Bears(r, p.id, Range(p.name) \cup Range(p.slug), p.evidence)
      /\ Bears(r, p.id, Range(terms), seen)
      /\ Bears(r, p.id, Range(more), also)
  BY <1>4, <1>5, <1>7, <1>8 DEF IsMadeOf, Bears, HasWords
<1> QED
  BY <1>3, <1>9 DEF r, terms, more, seen, also

-----------------------------------------------------------------------------
(* An endpoint's record.                                                     *)
LEMMA EndpointIsRecorded ==
  ASSUME NEW item, item.pattern \in Text, item.methods \in Words, item.keys \in Words,
         NEW evidence \in Seq(Source), NEW terms \in Text
  PROVE  LET r == EndpointRecord(item, evidence, terms)
         IN /\ r \in KnowledgeRecord /\ r.ref = EndpointRef(item.pattern)
            /\ item.methods \cup item.keys \cup Range(terms) \subseteq Range(r.body)
            /\ Range(r.evidence) = Range(evidence)
<1> DEFINE pattern == item.pattern
           m == Numbers(item.methods)
           k == Numbers(item.keys)
           ref == EndpointRef(pattern)
           tagged == <<Tag("endpoint")>> \o pattern
           calls == [i \in DOMAIN m |-> <<m[i]>> \o pattern]
           aliases == <<tagged, pattern>> \o calls
           body == pattern \o m \o k \o terms
<1>1. /\ KindNumber("endpoint") \in Int /\ Tag("endpoint") \in Int /\ "endpoint" \in Range(Kinds)
  BY KindsAre
<1>2. m \in Text /\ k \in Text /\ Range(m) = item.methods /\ Range(k) = item.keys
  BY NumbersAreThose DEF Text
<1>3. EndpointRecord(item, evidence, terms)
        = Record(ref, "endpoint", pattern, aliases, body, evidence)
  BY DEF EndpointRecord
<1>4. pattern \in Text
  OBVIOUS
<1> HIDE DEF m, k, pattern
<1>5. ref \in Text /\ tagged \in Text
  BY <1>1, <1>4, WordsAreInts DEF EndpointRef
<1>6. calls \in Seq(Text)
  <2>1. \A i \in DOMAIN m : <<m[i]>> \o pattern \in Text
    BY <1>2, <1>4, WordsAreInts DEF Text
  <2>2. DOMAIN m = 1 .. Len(m) /\ Len(m) \in Nat
    BY <1>2 DEF Text
  <2> QED
    BY <2>1, <2>2
<1>7. body \in Text /\ Range(body) = Range(pattern) \cup Range(m) \cup Range(k) \cup Range(terms)
  BY <1>2, <1>4, TextsJoin
<1> HIDE DEF tagged, calls, body, ref
<1>8. aliases \in Seq(Text)
  BY <1>4, <1>5, <1>6
<1> HIDE DEF aliases
<1>9. IsMadeOf(Record(ref, "endpoint", pattern, aliases, body, evidence), ref, pattern, body, evidence)
  BY <1>1, <1>4, <1>5, <1>7, <1>8, RecordIsMade
<1> QED
  BY <1>2, <1>3, <1>7, <1>9 DEF IsMadeOf, ref, pattern

LEMMA EndpointRefsDiffer ==
  ASSUME NEW p \in Text, NEW q \in Text, EndpointRef(p) = EndpointRef(q)
  PROVE  p = q
<1> DEFINE a == EndpointRef(p)
           b == EndpointRef(q)
<1>1. KindNumber("endpoint") \in Int
  BY KindsAre
<1>2. /\ Len(a) = Len(p) + 1 /\ \A i \in 1 .. Len(p) : a[i + 1] = p[i]
      /\ Len(b) = Len(q) + 1 /\ \A i \in 1 .. Len(q) : b[i + 1] = q[i]
  <2>1. PICK k : k = <<KindNumber("endpoint")>>
    OBVIOUS
  <2>2. k \in Seq(Int) /\ Len(k) = 1 /\ p \in Seq(Int) /\ q \in Seq(Int)
    BY <1>1, <2>1 DEF Text
  <2>3. a = k \o p /\ b = k \o q
    BY <2>1 DEF EndpointRef
  <2>4. ASSUME NEW t \in Seq(Int)
        PROVE  Len(k \o t) = Len(t) + 1 /\ \A i \in 1 .. Len(t) : (k \o t)[i + 1] = t[i]
    <3>1. /\ Len(k \o t) = 1 + Len(t) /\ Len(t) \in Nat
          /\ \A i \in 1 .. 1 + Len(t) : (k \o t)[i] = IF i <= 1 THEN k[i] ELSE t[i - 1]
      <4> HIDE <1>1
      <4>1. /\ Len(k \o t) = Len(k) + Len(t)
            /\ \A i \in 1 .. Len(k) + Len(t) :
                 (k \o t)[i] = IF i <= Len(k) THEN k[i] ELSE t[i - Len(k)]
        BY <2>2, ConcatProperties
      <4> QED
        BY <2>2, <4>1
    <3>2. \A i \in 1 .. Len(t) : i + 1 \in 1 .. 1 + Len(t) /\ ~(i + 1 <= 1) /\ (i + 1) - 1 = i
      BY <3>1
    <3> QED
      BY <3>1, <3>2
  <2> HIDE DEF a, b
  <2> QED
    BY <2>2, <2>3, <2>4
<1>3. a = b
  OBVIOUS
<1> HIDE DEF a, b
<1>4. Len(p) = Len(q) /\ Len(p) \in Nat
  BY <1>2, <1>3 DEF Text
<1>5. \A i \in 1 .. Len(p) : p[i] = q[i]
  BY <1>2, <1>3, <1>4
<1> QED
  BY <1>4, <1>5, SeqEqual DEF Text

-----------------------------------------------------------------------------
(* A merged list has, for each record of the two lists, one of its ref that  *)
(* says all it says.                                                         *)
Covers(r, c) ==
  r.ref = c.ref /\ Range(c.body) \subseteq Range(r.body) /\ Range(c.evidence) \subseteq Range(r.evidence)

LEMMA MergedCoversBoth ==
  ASSUME NEW a \in KnowledgeRecord, NEW b \in KnowledgeRecord, a.ref = b.ref
  PROVE  Merged(a, b) \in KnowledgeRecord /\ Covers(Merged(a, b), a) /\ Covers(Merged(a, b), b)
<1>1. /\ a.ref \in Text /\ a.title \in Text /\ a.aliases \in Seq(Text) /\ a.body \in Text
      /\ a.evidence \in Seq(Source)
  BY DEF KnowledgeRecord
<1>2. b.aliases \in Seq(Text) /\ b.body \in Text /\ b.evidence \in Seq(Source)
  BY DEF KnowledgeRecord
<1> DEFINE both == a.body \o b.body
           body == Unrepeated(both)
           aliases == a.aliases \o b.aliases
           evidence == a.evidence \o b.evidence
<1>3. aliases \in Seq(Text)
  <2>1. PICK s, t : s = a.aliases /\ t = b.aliases
    OBVIOUS
  <2>2. s \o t \in Seq(Text)
    BY <1>1, <1>2, <2>1
  <2> QED
    BY <2>1, <2>2
<1>4. both \in Text /\ Range(both) = Range(a.body) \cup Range(b.body)
  BY <1>1, <1>2, TextsJoin
<1>5. evidence \in Seq(Source) /\ Range(evidence) = Range(a.evidence) \cup Range(b.evidence)
  <2>1. PICK s, t : s = a.evidence /\ t = b.evidence
    OBVIOUS
  <2>2. s \o t \in Seq(Source) /\ Range(s \o t) = Range(s) \cup Range(t)
    BY <1>1, <1>2, <2>1, RangeOfConcat
  <2> QED
    BY <2>1, <2>2
<1> HIDE DEF both, aliases, evidence
<1>6. body \in Text /\ Range(body) = Range(both)
  BY <1>4, UnrepeatedKeeps DEF Text
<1> HIDE DEF body
<1>7. Merged(a, b) = Record(a.ref, "endpoint", a.title, aliases, body, evidence)
  BY DEF Merged, both, body, aliases, evidence
<1>8. IsMadeOf(Merged(a, b), a.ref, a.title, body, evidence)
  <2>1. "endpoint" \in Range(Kinds)
    BY KindsAre
  <2> QED
    BY <1>1, <1>3, <1>5, <1>6, <1>7, <2>1, RecordIsMade
<1> QED
  BY <1>4, <1>5, <1>6, <1>8 DEF IsMadeOf, Covers

LEMMA MergeCoversBoth ==
  ASSUME NEW census \in Seq(KnowledgeRecord), NEW added \in Seq(KnowledgeRecord),
         \A i, j \in DOMAIN added : added[i].ref = added[j].ref => i = j
  PROVE  /\ MergeEndpointRecords(census, added) \in Seq(KnowledgeRecord)
         /\ \A c \in Range(census) \cup Range(added) :
              \E r \in Range(MergeEndpointRecords(census, added)) : Covers(r, c)
<1> DEFINE twins(c) == {j \in 1 .. Len(added) : added[j].ref = c.ref}
           twin(c) == IF twins(c) # {} THEN Min(twins(c)) ELSE 0
           isNew(a) == \A i \in DOMAIN census : census[i].ref # a.ref
           parts == [i \in DOMAIN added |-> IF isNew(added[i]) THEN <<added[i]>> ELSE <<>>]
           new == FlattenSeq(parts)
           old == [i \in DOMAIN census |->
                     IF twin(census[i]) = 0 THEN census[i]
                     ELSE Merged(census[i], added[twin(census[i])])]
           all == old \o new
<1>1. /\ Len(census) \in Nat /\ DOMAIN census = 1 .. Len(census)
      /\ \A i \in DOMAIN census : census[i] \in KnowledgeRecord
      /\ Len(added) \in Nat /\ DOMAIN added = 1 .. Len(added)
      /\ \A i \in DOMAIN added : added[i] \in KnowledgeRecord
  OBVIOUS
<1>2. MergeEndpointRecords(census, added) = all
  BY DEF MergeEndpointRecords, SelectInSeq
<1>3. ASSUME NEW c
      PROVE  \/ twin(c) = 0 /\ \A j \in DOMAIN added : added[j].ref # c.ref
             \/ twin(c) \in DOMAIN added /\ twin(c) # 0 /\ added[twin(c)].ref = c.ref
  <2> DEFINE I == twins(c)
  <2>1. CASE I = {}
    BY <1>1, <2>1
  <2>2. CASE I # {}
    <3>1. I \in SUBSET Nat
      BY <1>1
    <3> DEFINE m == Min(I)
    <3>2. m \in I
      <4> HIDE DEF I
      <4> QED
        BY <2>2, <3>1, MinOfSome
    <3>3. twin(c) = m
      BY <2>2
    <3> HIDE DEF m, twin
    <3> QED
      BY <1>1, <3>2, <3>3
  <2> QED
    BY <2>1, <2>2
<1> HIDE DEF twin
<1>4. ASSUME NEW i \in DOMAIN census
      PROVE  /\ old[i] \in KnowledgeRecord /\ Covers(old[i], census[i])
             /\ \A j \in DOMAIN added : added[j].ref = census[i].ref => Covers(old[i], added[j])
  <2> DEFINE c == census[i]
  <2>1. c \in KnowledgeRecord
    BY <1>1
  <2>2. CASE twin(c) = 0
    <3>1. old[i] = c /\ \A j \in DOMAIN added : added[j].ref # c.ref
      BY <1>1, <1>3, <2>2
    <3>2. Covers(c, c)
      BY DEF Covers
    <3> QED
      BY <2>1, <3>1, <3>2
  <2>3. CASE twin(c) # 0
    <3> DEFINE a == added[twin(c)]
    <3>1. twin(c) \in DOMAIN added /\ a.ref = c.ref /\ a \in KnowledgeRecord
      BY <1>1, <1>3, <2>3
    <3>2. old[i] = Merged(c, a)
      BY <2>3
    <3>3. \A j \in DOMAIN added : added[j].ref = c.ref => added[j] = a
      BY <3>1
    <3> HIDE DEF old, a, c
    <3>4. Merged(c, a) \in KnowledgeRecord /\ Covers(Merged(c, a), c) /\ Covers(Merged(c, a), a)
      BY <2>1, <3>1, MergedCoversBoth
    <3> QED
      BY <3>2, <3>3, <3>4 DEF c
  <2> QED
    BY <2>2, <2>3
<1>5. old \in Seq(KnowledgeRecord) /\ DOMAIN old = DOMAIN census
  BY <1>1, <1>4
<1>6. /\ parts \in Seq(Seq(KnowledgeRecord)) /\ DOMAIN parts = DOMAIN added
      /\ \A i \in DOMAIN added : isNew(added[i]) => parts[i] = <<added[i]>>
  BY <1>1
<1> HIDE DEF old, parts
<1>7. new \in Seq(KnowledgeRecord) /\ \A i \in DOMAIN parts : Range(parts[i]) \subseteq Range(new)
  BY <1>6, RangeOfFlatten
<1> HIDE DEF new
<1>8. all \in Seq(KnowledgeRecord) /\ Range(all) = Range(old) \cup Range(new)
  BY <1>5, <1>7, RangeOfConcat
<1> HIDE DEF all
<1>9. ASSUME NEW c \in Range(census) PROVE \E r \in Range(all) : Covers(r, c)
  <2>1. PICK i \in DOMAIN census : census[i] = c
    BY DEF Range
  <2>2. old[i] \in Range(old)
    BY <1>5 DEF Range
  <2> QED
    BY <1>4, <1>8, <2>1, <2>2
<1>10. ASSUME NEW c \in Range(added) PROVE \E r \in Range(all) : Covers(r, c)
  <2>1. PICK j \in DOMAIN added : added[j] = c
    BY DEF Range
  <2>2. CASE isNew(c)
    <3>1. parts[j] = <<c>>
      BY <1>6, <2>1, <2>2
    <3>2. c \in Range(<<c>>)
      BY DEF Range
    <3>3. c \in Range(all)
      BY <1>6, <1>7, <1>8, <2>1, <3>1, <3>2
    <3> QED
      BY <3>3 DEF Covers
  <2>3. CASE ~isNew(c)
    <3>1. PICK i \in DOMAIN census : census[i].ref = c.ref
      BY <2>3
    <3>2. Covers(old[i], c)
      BY <1>4, <2>1, <3>1
    <3>3. old[i] \in Range(old)
      BY <1>5, <3>1 DEF Range
    <3> QED
      BY <1>8, <3>2, <3>3
  <2> QED
    BY <2>2, <2>3
<1> QED
  BY <1>2, <1>8, <1>9, <1>10

(* The endpoints of the census and of the sessions.                          *)
LEMMA CensusIsRecorded ==
  ASSUME NEW files, AreTyped(files), EndpointsAccepted(files)
  PROVE  LET items == Items(files, "endpoints")
             records == CensusRecords(files)
         IN /\ records \in Seq(KnowledgeRecord) /\ DOMAIN records = DOMAIN items
            /\ \A i \in DOMAIN items :
                 /\ records[i].ref = EndpointRef(items[i].pattern)
                 /\ items[i].keys \cup items[i].types \subseteq Range(records[i].body)
                 /\ Range(ObservationRefs(files, items[i].examples)) \subseteq Range(records[i].evidence)
<1> DEFINE items == Items(files, "endpoints")
           records == CensusRecords(files)
<1>1. /\ items \in Seq(EndpointItem) /\ Len(items) \in Nat /\ DOMAIN items = 1 .. Len(items)
      /\ \A i \in DOMAIN items : items[i] \in EndpointItem
  BY DEF AreTyped
<1>2. \A i \in DOMAIN items : Cited(files, items[i].examples)
  BY DEF EndpointsAccepted, Range
<1>3. records = [i \in DOMAIN items |->
        EndpointRecord(items[i], ObservationRefs(files, items[i].examples), Numbers(items[i].types))]
  BY DEF CensusRecords
<1> HIDE DEF items, records
<1>4. ASSUME NEW i \in DOMAIN items
      PROVE  /\ records[i] \in KnowledgeRecord /\ records[i].ref = EndpointRef(items[i].pattern)
             /\ items[i].keys \cup items[i].types \subseteq Range(records[i].body)
             /\ Range(ObservationRefs(files, items[i].examples)) \subseteq Range(records[i].evidence)
  <2>0. PICK item : item = items[i]
    OBVIOUS
  <2>1. /\ item.pattern \in Text /\ item.methods \in Words /\ item.keys \in Words /\ item.types \in Words
        /\ item.examples \in Seq(Observation)
    BY <1>1, <2>0 DEF EndpointItem, Text
  <2>2. PICK seen : seen = ObservationRefs(files, item.examples)
    OBVIOUS
  <2>3. seen \in Seq(Source)
    BY <1>2, <2>0, <2>1, <2>2, AllCitedHaveSources DEF Cited
  <2>4. PICK terms : terms = Numbers(item.types)
    OBVIOUS
  <2>5. terms \in Text /\ Range(terms) = item.types
    BY <2>1, <2>4, NumbersAreThose DEF Text
  <2>6. LET r == EndpointRecord(item, seen, terms)
        IN /\ r \in KnowledgeRecord /\ r.ref = EndpointRef(item.pattern)
           /\ item.methods \cup item.keys \cup Range(terms) \subseteq Range(r.body)
           /\ Range(r.evidence) = Range(seen)
    BY <2>1, <2>3, <2>5, EndpointIsRecorded
  <2>7. records[i] = EndpointRecord(item, seen, terms)
    BY <1>3, <2>0, <2>2, <2>4
  <2> QED
    BY <2>0, <2>2, <2>5, <2>6, <2>7
<1>5. records \in Seq(KnowledgeRecord) /\ DOMAIN records = DOMAIN items
  BY <1>1, <1>3, <1>4
<1> QED
  BY <1>4, <1>5 DEF items, records

LEMMA SessionsAreRecorded ==
  ASSUME NEW files, AreTyped(files), SessionEndpointsAccepted(files)
  PROVE  LET items == Items(files, "session-endpoints")
             records == SessionRecords(files)
         IN /\ records \in Seq(KnowledgeRecord)
            /\ \A i, j \in DOMAIN records : records[i].ref = records[j].ref => i = j
            /\ Present(files, "session-endpoints") =>
                 /\ DOMAIN records = DOMAIN items
                 /\ \A i \in DOMAIN items :
                      /\ records[i].ref = EndpointRef(items[i].pattern)
                      /\ items[i].methods \cup items[i].keys \subseteq Range(records[i].body)
                      /\ Range(items[i].evidence) \subseteq Range(records[i].evidence)
<1> DEFINE items == Items(files, "session-endpoints")
           records == SessionRecords(files)
<1>1. CASE ~Present(files, "session-endpoints")
  <2>1. records = <<>>
    BY <1>1 DEF SessionRecords
  <2> QED
    BY <1>1, <2>1
<1>2. CASE Present(files, "session-endpoints")
  <2>1. /\ items \in Seq(SessionEndpointItem) /\ Len(items) \in Nat /\ DOMAIN items = 1 .. Len(items)
        /\ \A i \in DOMAIN items : items[i] \in SessionEndpointItem
    BY <1>2 DEF AreTyped
  <2>2. \A i, j \in DOMAIN items : items[i].pattern = items[j].pattern => i = j
    BY <1>2 DEF SessionEndpointsAccepted, Keyed
  <2>3. records = [i \in DOMAIN items |->
          EndpointRecord(items[i], items[i].evidence, Append(items[i].types, items[i].class))]
    BY <1>2 DEF SessionRecords
  <2> HIDE DEF items, records
  <2>4. ASSUME NEW i \in DOMAIN items
        PROVE  /\ items[i].pattern \in Text
               /\ records[i] \in KnowledgeRecord /\ records[i].ref = EndpointRef(items[i].pattern)
               /\ items[i].methods \cup items[i].keys \subseteq Range(records[i].body)
               /\ Range(items[i].evidence) \subseteq Range(records[i].evidence)
    <3>0. PICK item : item = items[i]
      OBVIOUS
    <3>1. /\ item.pattern \in Text /\ item.methods \in Words /\ item.keys \in Words
          /\ item.types \in Seq(Word) /\ item.class \in Int /\ item.evidence \in Seq(Source)
      BY <2>1, <3>0 DEF SessionEndpointItem, Text
    <3>2. PICK seen : seen = item.evidence
      OBVIOUS
    <3>3. PICK terms : terms = Append(item.types, item.class)
      OBVIOUS
    <3>4. terms \in Text
      <4>1. PICK types : types = item.types
        OBVIOUS
      <4>2. types \in Text
        BY <3>1, <4>1, WordsAreInts
      <4> QED
        BY <3>1, <3>3, <4>1, <4>2 DEF Text
    <3>5. LET r == EndpointRecord(item, seen, terms)
          IN /\ r \in KnowledgeRecord /\ r.ref = EndpointRef(item.pattern)
             /\ item.methods \cup item.keys \cup Range(terms) \subseteq Range(r.body)
             /\ Range(r.evidence) = Range(seen)
      BY <3>1, <3>2, <3>4, EndpointIsRecorded
    <3>6. records[i] = EndpointRecord(item, seen, terms)
      BY <2>3, <3>0, <3>2, <3>3
    <3> QED
      BY <3>0, <3>1, <3>2, <3>5, <3>6
  <2>5. records \in Seq(KnowledgeRecord) /\ DOMAIN records = DOMAIN items
    BY <2>1, <2>3, <2>4
  <2>6. \A i, j \in DOMAIN records : records[i].ref = records[j].ref => i = j
    BY <2>2, <2>4, <2>5, EndpointRefsDiffer
  <2> QED
    BY <2>4, <2>5, <2>6 DEF items, records
<1> QED
  BY <1>1, <1>2

-----------------------------------------------------------------------------
(* All records, and their order.                                             *)
LEMMA AllAreRecords ==
  ASSUME NEW files, AreTyped(files), Accepted(files)
  PROVE  /\ AllRecords(files) \in Seq(KnowledgeRecord)
         /\ Range(AllRecords(files))
              = Range(ActionRecords(files)) \cup Range(ProductRecords(files))
                  \cup Range(EntityRecords(files)) \cup Range(EndpointRecords(files))
                  \cup Range(OperationRecords(files)) \cup Range(FormRecords(files))
                  \cup Range(TopicRecords(files))
<1>1. ActionRecords(files) \in Seq(KnowledgeRecord)
  <2>1. PICK items : items = Items0(files, "actions")
    OBVIOUS
  <2>2. /\ Len(items) \in Nat /\ DOMAIN items = 1 .. Len(items)
        /\ \A i \in DOMAIN items : items[i] \in ActionItem
    BY <2>1 DEF AreTyped
  <2>3. \A i \in DOMAIN items : ActionRecord(items[i]) \in KnowledgeRecord
    BY <2>2, ActionIsRecorded
  <2>4. ActionRecords(files) = [i \in DOMAIN items |-> ActionRecord(items[i])]
    BY <2>1 DEF ActionRecords, Items0
  <2> QED
    BY <2>2, <2>3, <2>4
<1>2. ProductRecords(files) \in Seq(KnowledgeRecord)
  <2>1. PICK items : items = Items(files, "products")
    OBVIOUS
  <2>2. /\ Len(items) \in Nat /\ DOMAIN items = 1 .. Len(items)
        /\ \A i \in DOMAIN items : items[i] \in ProductItem
    BY <2>1 DEF AreTyped
  <2>3. \A i \in DOMAIN items : ProductRecord(files, items[i]) \in KnowledgeRecord
    BY <2>2, ProductIsRecorded
  <2>4. ProductRecords(files) = [i \in DOMAIN items |-> ProductRecord(files, items[i])]
    BY <2>1 DEF ProductRecords
  <2> QED
    BY <2>2, <2>3, <2>4
<1>3. EntityRecords(files) \in Seq(KnowledgeRecord)
  <2>1. PICK items : items = Items0(files, "entities")
    OBVIOUS
  <2>2. /\ Len(items) \in Nat /\ DOMAIN items = 1 .. Len(items)
        /\ \A i \in DOMAIN items : items[i] \in EntityItem
    BY <2>1 DEF AreTyped
  <2>3. \A i \in DOMAIN items : EntityRecord(items[i]) \in KnowledgeRecord
    BY <2>2, EntityIsRecorded
  <2>4. EntityRecords(files) = [i \in DOMAIN items |-> EntityRecord(items[i])]
    BY <2>1 DEF EntityRecords, Items0
  <2> QED
    BY <2>2, <2>3, <2>4
<1>4. EndpointRecords(files) \in Seq(KnowledgeRecord)
  <2>1. PICK a, b : a = CensusRecords(files) /\ b = SessionRecords(files)
    OBVIOUS
  <2>2. a \in Seq(KnowledgeRecord)
    BY <2>1, CensusIsRecorded DEF Accepted
  <2>3. b \in Seq(KnowledgeRecord) /\ \A i, j \in DOMAIN b : b[i].ref = b[j].ref => i = j
    BY <2>1, SessionsAreRecorded DEF Accepted
  <2> QED
    BY <2>1, <2>2, <2>3, MergeCoversBoth DEF EndpointRecords
<1>5. OperationRecords(files) \in Seq(KnowledgeRecord)
  <2>1. PICK items : items = Items0(files, "operations")
    OBVIOUS
  <2>2. /\ Len(items) \in Nat /\ DOMAIN items = 1 .. Len(items)
        /\ \A i \in DOMAIN items : items[i] \in OperationItem
    BY <2>1 DEF AreTyped
  <2>3. \A i \in DOMAIN items : Cited(files, items[i].observations)
    BY <2>1 DEF Accepted, OperationsAccepted, Items0, Range
  <2>4. \A i \in DOMAIN items : OperationRecord(files, items[i]) \in KnowledgeRecord
    BY <2>2, <2>3, OperationIsRecorded
  <2>5. OperationRecords(files) = [i \in DOMAIN items |-> OperationRecord(files, items[i])]
    BY <2>1 DEF OperationRecords, Items0
  <2> QED
    BY <2>2, <2>4, <2>5
<1>6. FormRecords(files) \in Seq(KnowledgeRecord)
  <2>1. PICK items : items = Items(files, "forms")
    OBVIOUS
  <2>2. /\ Len(items) \in Nat /\ DOMAIN items = 1 .. Len(items)
        /\ \A i \in DOMAIN items : items[i] \in FormItem
    BY <2>1 DEF AreTyped
  <2>3. \A i \in DOMAIN items : Cited(files, items[i].observed)
    BY <2>1 DEF Accepted, FormsAccepted, Range
  <2>4. \A i \in DOMAIN items : FormRecord(files, items[i]) \in KnowledgeRecord
    BY <2>2, <2>3, FormIsRecorded
  <2>5. FormRecords(files) = [i \in DOMAIN items |-> FormRecord(files, items[i])]
    BY <2>1 DEF FormRecords
  <2> QED
    BY <2>2, <2>4, <2>5
<1>7. TopicRecords(files) \in Seq(KnowledgeRecord)
  <2>1. PICK items : items = Items(files, "topics")
    OBVIOUS
  <2>2. /\ Len(items) \in Nat /\ DOMAIN items = 1 .. Len(items)
        /\ \A i \in DOMAIN items : items[i] \in TopicItem
    BY <2>1 DEF AreTyped
  <2>3. \A i \in DOMAIN items : Citable(files, items[i].source)
    BY <2>1 DEF Accepted, TopicsAccepted, Range
  <2>4. \A i \in DOMAIN items : TopicRecord(files, items[i]) \in KnowledgeRecord
    BY <2>2, <2>3, TopicIsRecorded
  <2>5. TopicRecords(files) = [i \in DOMAIN items |-> TopicRecord(files, items[i])]
    BY <2>1 DEF TopicRecords
  <2> QED
    BY <2>2, <2>4, <2>5
<1>8. \A s, t \in Seq(KnowledgeRecord) :
        s \o t \in Seq(KnowledgeRecord) /\ Range(s \o t) = Range(s) \cup Range(t)
  BY RangeOfConcat
<1>9. PICK a, p, e, n, o, f, t :
        /\ a = ActionRecords(files) /\ p = ProductRecords(files) /\ e = EntityRecords(files)
        /\ n = EndpointRecords(files) /\ o = OperationRecords(files) /\ f = FormRecords(files)
        /\ t = TopicRecords(files)
  OBVIOUS
<1>10. PICK s1, s2, s3, s4, s5, s6 :
         s1 = a \o p /\ s2 = s1 \o e /\ s3 = s2 \o n /\ s4 = s3 \o o /\ s5 = s4 \o f /\ s6 = s5 \o t
  OBVIOUS
<1>11. /\ a \in Seq(KnowledgeRecord) /\ p \in Seq(KnowledgeRecord) /\ e \in Seq(KnowledgeRecord)
       /\ n \in Seq(KnowledgeRecord) /\ o \in Seq(KnowledgeRecord) /\ f \in Seq(KnowledgeRecord)
       /\ t \in Seq(KnowledgeRecord)
  BY <1>1, <1>2, <1>3, <1>4, <1>5, <1>6, <1>7, <1>9
<1>12. s1 \in Seq(KnowledgeRecord) /\ Range(s1) = Range(a) \cup Range(p)
  <2>1. s1 = a \o p
    BY <1>10
  <2> QED
    BY <1>8, <1>11, <2>1
<1>13. s2 \in Seq(KnowledgeRecord) /\ Range(s2) = Range(s1) \cup Range(e)
  <2>1. s2 = s1 \o e
    BY <1>10
  <2> QED
    BY <1>8, <1>11, <2>1, <1>12
<1>14. s3 \in Seq(KnowledgeRecord) /\ Range(s3) = Range(s2) \cup Range(n)
  <2>1. s3 = s2 \o n
    BY <1>10
  <2> QED
    BY <1>8, <1>11, <2>1, <1>13
<1>15. s4 \in Seq(KnowledgeRecord) /\ Range(s4) = Range(s3) \cup Range(o)
  <2>1. s4 = s3 \o o
    BY <1>10
  <2> QED
    BY <1>8, <1>11, <2>1, <1>14
<1>16. s5 \in Seq(KnowledgeRecord) /\ Range(s5) = Range(s4) \cup Range(f)
  <2>1. s5 = s4 \o f
    BY <1>10
  <2> QED
    BY <1>8, <1>11, <2>1, <1>15
<1>17. s6 \in Seq(KnowledgeRecord) /\ Range(s6) = Range(s5) \cup Range(t)
  <2>1. s6 = s5 \o t
    BY <1>10
  <2> QED
    BY <1>8, <1>11, <2>1, <1>16
<1>18. AllRecords(files) = s6
  BY <1>9, <1>10 DEF AllRecords
<1> QED
  BY <1>9, <1>12, <1>13, <1>14, <1>15, <1>16, <1>17, <1>18

(* A list of records in the order of their refs, no two with one.            *)
AreListed(records) ==
  /\ records \in Seq(KnowledgeRecord)
  /\ \A i, j \in DOMAIN records : i < j => Before(records[i].ref, records[j].ref)

RefOrder(S) == {p \in S \X S : Before(p[1].ref, p[2].ref)}

LEMMA RefsOrder ==
  ASSUME NEW S \in SUBSET KnowledgeRecord, \A r, s \in S : r.ref = s.ref => r = s
  PROVE  IsOrder(S, RefOrder(S))
<1> DEFINE K == [r \in S |-> r.ref]
           R == {p \in S \X S : Before(K[p[1]], K[p[2]])}
<1>1. K \in [S -> Text] /\ \A x, y \in S : K[x] = K[y] => x = y
  BY DEF KnowledgeRecord
<1>2. R = RefOrder(S)
  BY DEF RefOrder
<1>3. IsOrder(S, {p \in S \X S : Before(K[p[1]], K[p[2]])})
  <2> HIDE DEF K, R
  <2> QED
    BY <1>1, TextsOrder
<1> QED
  BY <1>2, <1>3

LEMMA RecordsAreOrdered ==
  ASSUME NEW records
  PROVE  InOrder(records) = [i \in 1 .. Cardinality(Range(records)) |-> InOrder(records)[i]]
<1> DEFINE S == Range(records)
           At(i) == CHOOSE x \in S : Cardinality({y \in S : Before(y.ref, x.ref)}) = i - 1
           q == Ordered(S, LAMBDA r, s : Before(r.ref, s.ref))
<1>1. q = [i \in 1 .. Cardinality(S) |-> At(i)]
  BY DEF Ordered
<1>2. q = [i \in 1 .. Cardinality(S) |-> q[i]]
  <2> HIDE DEF q, At
  <2> QED
    BY <1>1
<1> QED
  BY <1>2 DEF InOrder

LEMMA InOrderIsListed ==
  ASSUME NEW records \in Seq(KnowledgeRecord),
         \A i, j \in DOMAIN records : records[i].ref = records[j].ref => i = j
  PROVE  AreListed(InOrder(records)) /\ Range(InOrder(records)) = Range(records)
<1> DEFINE S == Range(records)
           R == RefOrder(S)
           q == InOrder(records)
<1>1. S \in SUBSET KnowledgeRecord /\ \A r, s \in S : r.ref = s.ref => r = s
  BY DEF Range
<1>2. IsFiniteSet(S)
  <2>1. records \in Seq(S)
    <3>1. DOMAIN records = 1 .. Len(records) /\ Len(records) \in Nat
          /\ records = [i \in 1 .. Len(records) |-> records[i]]
      OBVIOUS
    <3>2. \A i \in 1 .. Len(records) : records[i] \in S
      BY <3>1 DEF Range
    <3> HIDE DEF S
    <3> QED
      BY <3>1, <3>2
  <2> QED
    BY <2>1, RangeIsFinite DEF AsSeq
<1>3. IsOrder(S, R)
  <2> HIDE DEF S
  <2> QED
    BY <1>1, RefsOrder
<1>4. \A x, y \in S : <<x, y>> \in R <=> Before(x.ref, y.ref)
  BY DEF RefOrder
<1> HIDE DEF S, R
<1>5. \A x \in S : Cardinality({y \in S : Before(y.ref, x.ref)}) = Rank(S, R, x)
  <2>1. \A x \in S : {y \in S : Before(y.ref, x.ref)} = {y \in S : <<y, x>> \in R}
    BY <1>4
  <2> QED
    BY <2>1 DEF Rank
<1>6. \A i \in 1 .. Cardinality(S) :
        (\E x \in S : Rank(S, R, x) = i - 1) => q[i] \in S /\ Rank(S, R, q[i]) = i - 1
  <2> TAKE i \in 1 .. Cardinality(S)
  <2> HAVE \E x \in S : Rank(S, R, x) = i - 1
  <2>1. \E x \in S : Cardinality({y \in S : Before(y.ref, x.ref)}) = i - 1
    BY <1>5
  <2>2. q[i] = CHOOSE x \in S : Cardinality({y \in S : Before(y.ref, x.ref)}) = i - 1
    BY DEF InOrder, Ordered, S
  <2> QED
    BY <1>5, <2>1, <2>2
<1>7. q = [i \in 1 .. Cardinality(S) |-> q[i]]
  BY RecordsAreOrdered DEF S
<1> HIDE DEF q
<1>8. q \in Seq(S) /\ Range(q) = S /\ Sorted(q, R)
  BY <1>2, <1>3, <1>6, <1>7, OrderedIsSorted
<1>9. \A i \in DOMAIN q : q[i] \in S
  BY <1>8
<1>10. q \in Seq(KnowledgeRecord)
  BY <1>1, <1>8, SeqMonotonic
<1> QED
  BY <1>4, <1>8, <1>9, <1>10 DEF AreListed, Sorted, S, q

-----------------------------------------------------------------------------
(* The record of a thing has what the files say of it.                       *)
Answers(r, said) ==
  /\ r.ref = said.ref
  /\ {Lower(w) : w \in said.words} \subseteq WordsOf(r)
  /\ said.evidence \subseteq Range(r.evidence)

LEMMA KeptIsAnswered ==
  ASSUME NEW r, NEW ref, NEW words, NEW evidence, NEW terms, NEW seen,
         Bears(r, ref, terms, seen), words \subseteq terms, Range(evidence) \subseteq Range(seen)
  PROVE  Answers(r, Said(ref, words, evidence))
<1>1. HasWords(r, words)
  BY DEF Bears, HasWords
<1>2. {Lower(w) : w \in words} \subseteq WordsOf(r)
  BY <1>1, HasWordsOfText
<1> QED
  BY <1>2 DEF Bears, Answers, Said

LEMMA ActionsAreAnswered ==
  ASSUME NEW files, AreTyped(files), NEW a \in Range(Items0(files, "actions"))
  PROVE  \E r \in Range(ActionRecords(files)) :
           Answers(r, Said(a.id, Range(a.route) \cup a.fields \cup a.query, a.evidence))
<1>1. PICK items : items = Items0(files, "actions")
  OBVIOUS
<1>2. PICK i \in DOMAIN items : items[i] = a
  BY <1>1 DEF Range
<1>3. ActionRecords(files) = [j \in DOMAIN items |-> ActionRecord(items[j])]
  BY <1>1 DEF ActionRecords, Items0
<1>4. ActionRecord(a) \in Range(ActionRecords(files))
  BY <1>2, <1>3 DEF Range
<1>5. a \in ActionItem
  BY <1>1, <1>2 DEF AreTyped
<1>6. PICK words, seen : words = Range(a.route) \cup a.fields \cup a.query /\ seen = a.evidence
  OBVIOUS
<1>7. Bears(ActionRecord(a), a.id, words, seen)
  BY <1>5, <1>6, ActionIsRecorded
<1>8. Answers(ActionRecord(a), Said(a.id, words, seen))
  BY <1>7, KeptIsAnswered
<1> QED
  BY <1>4, <1>6, <1>8

LEMMA ProductsAreAnswered ==
  ASSUME NEW files, AreTyped(files), NEW p \in Range(Items(files, "products"))
  PROVE  \E r \in Range(ProductRecords(files)) :
           /\ Answers(r, Said(p.id, Range(p.name) \cup Range(p.slug), p.evidence))
           /\ Present(files, "attributes") =>
                \A a \in Range(Items(files, "attributes")) :
                  a.product = p.id => Answers(r, Said(p.id, Range(a.terms), a.evidence))
           /\ Present(files, "categories") =>
                \A c \in Range(Items(files, "categories")) :
                  p.id \in c.products => Answers(r, Said(p.id, {c.name}, c.evidence))
<1>1. PICK items : items = Items(files, "products")
  OBVIOUS
<1>2. PICK i \in DOMAIN items : items[i] = p
  BY <1>1 DEF Range
<1>3. ProductRecords(files) = [j \in DOMAIN items |-> ProductRecord(files, items[j])]
  BY <1>1 DEF ProductRecords
<1>4. PICK r : r = ProductRecord(files, p)
  OBVIOUS
<1>5. r \in Range(ProductRecords(files))
  BY <1>2, <1>3, <1>4 DEF Range
<1>6. p \in ProductItem
  BY <1>1, <1>2 DEF AreTyped
<1>7. PICK id : id = p.id
  OBVIOUS
<1>8. /\ Bears(r, id, Range(p.name) \cup Range(p.slug), p.evidence)
      /\ Bears(r, id, Range(CategoryNames(files, id)), CategoryEvidence(files, id))
      /\ Bears(r, id, Range(AttributeTerms(files, id)), AttributeEvidence(files, id))
  BY <1>4, <1>6, <1>7, ProductIsRecorded
<1>9. Answers(r, Said(id, Range(p.name) \cup Range(p.slug), p.evidence))
  <2>1. PICK words, seen : words = Range(p.name) \cup Range(p.slug) /\ seen = p.evidence
    OBVIOUS
  <2> QED
    BY <1>8, <2>1, KeptIsAnswered
<1>10. ASSUME Present(files, "attributes"), NEW a \in Range(Items(files, "attributes")), a.product = id
       PROVE  Answers(r, Said(id, Range(a.terms), a.evidence))
  <2>1. PICK words, seen, terms, all :
          /\ words = Range(a.terms) /\ seen = a.evidence
          /\ terms = Range(AttributeTerms(files, id)) /\ all = AttributeEvidence(files, id)
    OBVIOUS
  <2>2. words \subseteq terms /\ Range(seen) \subseteq Range(all)
    BY <1>10, <2>1, AttributesAreGathered
  <2> QED
    BY <1>8, <2>1, <2>2, KeptIsAnswered
<1>11. ASSUME Present(files, "categories"), NEW c \in Range(Items(files, "categories")), id \in c.products
       PROVE  Answers(r, Said(id, {c.name}, c.evidence))
  <2>1. PICK words, seen, terms, all :
          /\ words = {c.name} /\ seen = c.evidence
          /\ terms = Range(CategoryNames(files, id)) /\ all = CategoryEvidence(files, id)
    OBVIOUS
  <2>2. words \subseteq terms /\ Range(seen) \subseteq Range(all)
    BY <1>11, <2>1, CategoriesAreGathered
  <2> QED
    BY <1>8, <2>1, <2>2, KeptIsAnswered
<1> QED
  BY <1>5, <1>7, <1>9, <1>10, <1>11

LEMMA CoveredIsAnswered ==
  ASSUME NEW r, NEW c, NEW ref, NEW words, NEW evidence, Covers(r, c), c.ref = ref,
         words \subseteq Word, words \subseteq Range(c.body), Range(evidence) \subseteq Range(c.evidence)
  PROVE  Answers(r, Said(ref, words, evidence))
<1>1. Bears(r, ref, words, evidence)
  BY DEF Bears, HasWords, Covers
<1> QED
  BY <1>1, KeptIsAnswered

LEMMA EndpointsAreAnswered ==
  ASSUME NEW files, AreTyped(files), Accepted(files)
  PROVE  /\ \A e \in Range(Items(files, "endpoints")) : \E r \in Range(EndpointRecords(files)) :
              Answers(r, Said(EndpointRef(e.pattern), e.keys \cup e.types,
                              ObservationRefs(files, e.examples)))
         /\ Present(files, "session-endpoints") =>
              \A e \in Range(Items(files, "session-endpoints")) :
                \E r \in Range(EndpointRecords(files)) :
                  Answers(r, Said(EndpointRef(e.pattern), e.methods \cup e.keys, e.evidence))
<1>1. PICK census, added : census = CensusRecords(files) /\ added = SessionRecords(files)
  OBVIOUS
<1>2. PICK items : items = Items(files, "endpoints")
  OBVIOUS
<1>3. /\ census \in Seq(KnowledgeRecord) /\ DOMAIN census = DOMAIN items
      /\ \A i \in DOMAIN items :
           /\ census[i].ref = EndpointRef(items[i].pattern)
           /\ items[i].keys \cup items[i].types \subseteq Range(census[i].body)
           /\ Range(ObservationRefs(files, items[i].examples)) \subseteq Range(census[i].evidence)
  BY <1>1, <1>2, CensusIsRecorded DEF Accepted
<1>4. PICK sessions : sessions = Items(files, "session-endpoints")
  OBVIOUS
<1>5. /\ added \in Seq(KnowledgeRecord)
      /\ \A i, j \in DOMAIN added : added[i].ref = added[j].ref => i = j
      /\ Present(files, "session-endpoints") =>
           /\ DOMAIN added = DOMAIN sessions
           /\ \A i \in DOMAIN sessions :
                /\ added[i].ref = EndpointRef(sessions[i].pattern)
                /\ sessions[i].methods \cup sessions[i].keys \subseteq Range(added[i].body)
                /\ Range(sessions[i].evidence) \subseteq Range(added[i].evidence)
  BY <1>1, <1>4, SessionsAreRecorded DEF Accepted
<1>6. \A c \in Range(census) \cup Range(added) :
        \E r \in Range(EndpointRecords(files)) : Covers(r, c)
  BY <1>1, <1>3, <1>5, MergeCoversBoth DEF EndpointRecords
<1>7. ASSUME NEW e \in Range(items)
      PROVE  \E r \in Range(EndpointRecords(files)) :
               Answers(r, Said(EndpointRef(e.pattern), e.keys \cup e.types,
                               ObservationRefs(files, e.examples)))
  <2>1. PICK i \in DOMAIN items : items[i] = e
    BY DEF Range
  <2>2. PICK c : c = census[i]
    OBVIOUS
  <2>3. c \in Range(census)
    BY <1>3, <2>1, <2>2 DEF Range
  <2>4. PICK r \in Range(EndpointRecords(files)) : Covers(r, c)
    BY <1>6, <2>3
  <2>5. PICK ref, words, seen : /\ ref = EndpointRef(e.pattern) /\ words = e.keys \cup e.types
                                /\ seen = ObservationRefs(files, e.examples)
    OBVIOUS
  <2>6. c.ref = ref /\ words \subseteq Range(c.body) /\ Range(seen) \subseteq Range(c.evidence)
    BY <1>3, <2>1, <2>2, <2>5
  <2>7. e \in EndpointItem
    BY <1>2, <2>1 DEF AreTyped
  <2>8. words \subseteq Word
    BY <2>5, <2>7 DEF EndpointItem, Words
  <2> QED
    BY <2>4, <2>5, <2>6, <2>8, CoveredIsAnswered
<1>8. ASSUME Present(files, "session-endpoints"), NEW e \in Range(sessions)
      PROVE  \E r \in Range(EndpointRecords(files)) :
               Answers(r, Said(EndpointRef(e.pattern), e.methods \cup e.keys, e.evidence))
  <2>1. PICK i \in DOMAIN sessions : sessions[i] = e
    BY DEF Range
  <2>2. PICK c : c = added[i]
    OBVIOUS
  <2>3. c \in Range(added)
    BY <1>5, <1>8, <2>1, <2>2 DEF Range
  <2>4. PICK r \in Range(EndpointRecords(files)) : Covers(r, c)
    BY <1>6, <2>3
  <2>5. PICK ref, words, seen : /\ ref = EndpointRef(e.pattern) /\ words = e.methods \cup e.keys
                                /\ seen = e.evidence
    OBVIOUS
  <2>6. c.ref = ref /\ words \subseteq Range(c.body) /\ Range(seen) \subseteq Range(c.evidence)
    BY <1>5, <1>8, <2>1, <2>2, <2>5
  <2>7. e \in SessionEndpointItem
    BY <1>4, <1>8, <2>1 DEF AreTyped
  <2>8. words \subseteq Word
    BY <2>5, <2>7 DEF SessionEndpointItem, Words
  <2> QED
    BY <2>4, <2>5, <2>6, <2>8, CoveredIsAnswered
<1> QED
  BY <1>2, <1>4, <1>7, <1>8

LEMMA SayingsAreAnswered ==
  ASSUME NEW files, Complete(files), Projected(files) # Refused
  PROVE  /\ AreListed(Projected(files))
         /\ \A said \in Sayings(files) : \E r \in Range(Projected(files)) : Answers(r, said)
<1>1. /\ Accepted(files) /\ Keyed(AllRecords(files), LAMBDA r : r.ref)
      /\ Projected(files) = InOrder(AllRecords(files))
  BY DEF Projected
<1>2. AreTyped(files)
  BY <1>1, AcceptedAreTyped
<1>3. PICK all : all = AllRecords(files)
  OBVIOUS
<1>4. /\ all \in Seq(KnowledgeRecord)
      /\ Range(ActionRecords(files)) \cup Range(ProductRecords(files)) \cup Range(EndpointRecords(files))
           \subseteq Range(all)
  BY <1>1, <1>2, <1>3, AllAreRecords
<1>5. \A i, j \in DOMAIN all : all[i].ref = all[j].ref => i = j
  BY <1>1, <1>3 DEF Keyed
<1>6. AreListed(Projected(files)) /\ Range(Projected(files)) = Range(all)
  BY <1>1, <1>3, <1>4, <1>5, InOrderIsListed
<1>7. ASSUME NEW a \in Range(Items0(files, "actions"))
      PROVE  \E r \in Range(Projected(files)) :
               Answers(r, Said(a.id, Range(a.route) \cup a.fields \cup a.query, a.evidence))
  BY <1>2, <1>4, <1>6, ActionsAreAnswered
<1>8. ASSUME NEW p \in Range(Items(files, "products"))
      PROVE  \E r \in Range(Projected(files)) :
               Answers(r, Said(p.id, Range(p.name) \cup Range(p.slug), p.evidence))
  BY <1>2, <1>4, <1>6, ProductsAreAnswered
<1>9. ASSUME Present(files, "attributes"), NEW a \in Range(Items(files, "attributes"))
      PROVE  \E r \in Range(Projected(files)) : Answers(r, Said(a.product, Range(a.terms), a.evidence))
  <2>1. PICK p \in Range(Items(files, "products")) : p.id = a.product
    BY <1>1, <1>9 DEF Accepted, ProductsAccepted, AllKnown, Enriched
  <2> QED
    BY <1>2, <1>4, <1>6, <1>9, <2>1, ProductsAreAnswered
<1>10. ASSUME Present(files, "categories"), NEW c \in Range(Items(files, "categories")),
              NEW id \in c.products
       PROVE  \E r \in Range(Projected(files)) : Answers(r, Said(id, {c.name}, c.evidence))
  <2>1. PICK p \in Range(Items(files, "products")) : p.id = id
    BY <1>1, <1>10 DEF Accepted, ProductsAccepted, AllKnown, Enriched
  <2> QED
    BY <1>2, <1>4, <1>6, <1>10, <2>1, ProductsAreAnswered
<1>11. ASSUME NEW e \in Range(Items(files, "endpoints"))
       PROVE  \E r \in Range(Projected(files)) :
                Answers(r, Said(EndpointRef(e.pattern), e.keys \cup e.types,
                                ObservationRefs(files, e.examples)))
  BY <1>1, <1>2, <1>4, <1>6, EndpointsAreAnswered
<1>12. ASSUME Present(files, "session-endpoints"), NEW e \in Range(Items(files, "session-endpoints"))
       PROVE  \E r \in Range(Projected(files)) :
                Answers(r, Said(EndpointRef(e.pattern), e.methods \cup e.keys, e.evidence))
  BY <1>1, <1>2, <1>4, <1>6, <1>12, EndpointsAreAnswered
<1>13. ASSUME NEW said \in Sayings(files)
       PROVE  \E r \in Range(Projected(files)) : Answers(r, said)
  <2>1. CASE \E a \in Range(Items0(files, "actions")) :
               said = Said(a.id, Range(a.route) \cup a.fields \cup a.query, a.evidence)
    BY <1>7, <2>1
  <2>2. CASE \E p \in Range(Items(files, "products")) :
               said = Said(p.id, Range(p.name) \cup Range(p.slug), p.evidence)
    BY <1>8, <2>2
  <2>3. CASE /\ Present(files, "attributes")
             /\ \E a \in Range(Items(files, "attributes")) :
                  said = Said(a.product, Range(a.terms), a.evidence)
    BY <1>9, <2>3
  <2>4. CASE /\ Present(files, "categories")
             /\ \E c \in Range(Items(files, "categories")) : \E id \in c.products :
                  said = Said(id, {c.name}, c.evidence)
    BY <1>10, <2>4
  <2>5. CASE \E e \in Range(Items(files, "endpoints")) :
               said = Said(EndpointRef(e.pattern), e.keys \cup e.types,
                           ObservationRefs(files, e.examples))
    BY <1>11, <2>5
  <2>6. CASE /\ Present(files, "session-endpoints")
             /\ \E e \in Range(Items(files, "session-endpoints")) :
                  said = Said(EndpointRef(e.pattern), e.methods \cup e.keys, e.evidence)
    BY <1>12, <2>6
  <2> QED
    BY <2>1, <2>2, <2>3, <2>4, <2>5, <2>6 DEF Sayings, Items0
<1> QED
  BY <1>6, <1>13

-----------------------------------------------------------------------------
(* The files of the curator, and those a rebuild has read of them: an index  *)
(* is read before its parts, and they are wanted from then on.               *)
CuratedInv == Complete(curated) /\ DOMAIN curated = DOMAIN FirstCurated

KnowledgeInv ==
  rebuild.pc = "knowledge" =>
    LET names == DOMAIN rebuild.got \cup Range(rebuild.want)
    IN /\ rebuild.want \in Seq(DOMAIN curated)
       /\ DOMAIN rebuild.got \subseteq DOMAIN curated
       /\ \A i \in DOMAIN DataSets : <<DataSets[i], 0>> \in names
       /\ \A file \in DOMAIN rebuild.got : Fits(file, rebuild.got[file], names)
       /\ ~rebuild.disturbed =>
            \A file \in DOMAIN rebuild.got : rebuild.got[file] = curated[file]

LEMMA CuratedInvInit ==
  ASSUME Init
  PROVE  CuratedInv
<1>1. curated = FirstCurated
  BY DEF Init
<1> QED
  BY <1>1, CuratedAssumption DEF CuratedInv, Complete

LEMMA CuratedInvStep ==
  ASSUME CuratedInv, EventsInv, [Next]_vars
  PROVE  CuratedInv'
<1>1. CASE \E n \in DOMAIN Edits : Curate(n)
  <2>1. PICK n \in DOMAIN Edits : curated' = With(curated, Edits[n])
    BY <1>1 DEF Curate
  <2>2. /\ DOMAIN Edits[n] \subseteq DOMAIN curated
        /\ \A file \in DOMAIN Edits[n] : Fits(file, Edits[n][file], DOMAIN curated)
    BY CuratedAssumption DEF CuratedInv
  <2>3. /\ DOMAIN curated' = DOMAIN curated
        /\ \A file \in DOMAIN curated' :
             curated'[file] = IF file \in DOMAIN Edits[n] THEN Edits[n][file] ELSE curated[file]
    BY <2>1, <2>2 DEF With
  <2> QED
    BY <2>2, <2>3 DEF CuratedInv, Complete
<1>2. CASE UNCHANGED curated
  BY <1>2 DEF CuratedInv, Complete
<1>3. World => UNCHANGED curated \/ \E n \in DOMAIN Edits : Curate(n)
  BY DEF World, MakeDirectory, StartSession, EndSession, AlterManifest, AlterEvents,
         CreateState, BootstrapState, ProcessSession, DetectorChanges, SessionChanges
<1>4. RebuildStep \/ ClientStep \/ UNCHANGED vars => UNCHANGED curated
  BY OthersLeaveWorld DEF world
<1> QED
  BY <1>1, <1>2, <1>3, <1>4 DEF Next

(* What a file makes wanted are files, and it fits with them.                *)
LEMMA PartsOfFile ==
  ASSUME Complete(curated), NEW file \in DOMAIN curated
  PROVE  /\ PartsOf(file) \in Seq(DOMAIN curated)
         /\ \A names : Range(PartsOf(file)) \subseteq names => Fits(file, curated[file], names)
<1> DEFINE dataset == file[1]
           content == curated[file]
<1>1. /\ file \in Range(DataSets) \X Nat /\ Fits(file, content, DOMAIN curated)
  BY DEF Complete
<1>2. CASE content = Missing
  BY <1>2 DEF PartsOf, Fits
<1>3. CASE content # Missing /\ file[2] = 0 /\ dataset \in InParts
  <2>1. file = <<dataset, 0>>
    BY <1>1, <1>3
  <2>2. PICK parts, names : parts = IndexOf(curated, dataset).parts /\ names = PartNames(curated, dataset)
    OBVIOUS
  <2>3. /\ parts \in Seq(PartEntry) /\ DOMAIN names = DOMAIN parts
        /\ \A i \in DOMAIN names : names[i] = <<dataset, parts[i].file>> /\ names[i] \in DOMAIN curated
    <3>1. Present(curated, dataset)
      BY <1>3, <2>1 DEF Present
    <3> QED
      BY <1>3, <2>2, <3>1, PartsAre
  <2>4. content \in FirstFile(dataset) /\ content.parts = parts
    BY <1>1, <1>3, <2>1, <2>2 DEF Fits, IndexOf
  <2>5. "parts" \in DOMAIN content
    <3>1. content \in [parts : Seq(PartEntry), total : Int, session : Int, source : Int]
            \cup [parts : Seq(PartEntry), total : Int]
      BY <1>3, <2>4 DEF FirstFile, InParts
    <3> HIDE DEF content
    <3> QED
      BY <3>1
  <2>6. PartsOf(file) = names
    BY <1>3, <2>2, <2>5 DEF PartsOf
  <2>7. names \in Seq(DOMAIN curated)
    <3>1. names = [i \in DOMAIN parts |-> <<dataset, parts[i].file>>]
      BY <2>2 DEF PartNames
    <3>2. Len(parts) \in Nat /\ DOMAIN parts = 1 .. Len(parts)
      BY <2>3
    <3> HIDE DEF dataset
    <3> QED
      BY <2>3, <3>1, <3>2
  <2>8. ASSUME NEW others, Range(names) \subseteq others
        PROVE  Fits(file, content, others)
    <3>1. \A i \in DOMAIN content.parts : <<dataset, content.parts[i].file>> \in others
      BY <2>3, <2>4, <2>8 DEF Range
    <3> QED
      BY <1>3, <2>4, <3>1 DEF Fits
  <2> QED
    BY <2>6, <2>7, <2>8
<1>4. CASE content # Missing /\ file[2] = 0 /\ dataset \notin InParts
  <2>1. dataset \in {"actions", "entities", "captures", "operations"}
    BY <1>1, <1>4, DataSetsAre DEF InParts
  <2>2. content \in FirstFile(dataset)
    BY <1>1, <1>4 DEF Fits
  <2>3. content \in [count : Int, items : Seq(ItemOf(dataset))]
          \cup [captures : Seq(Capture), manifests : Seq(Capture)]
          \cup [posts : Int, items : Seq(OperationItem)]
    BY <2>1, <2>2 DEF FirstFile
  <2>4. "parts" \notin DOMAIN content
    <3> HIDE DEF content, dataset
    <3> QED
      BY <2>3
  <2>5. PartsOf(file) = <<>>
    BY <2>4 DEF PartsOf
  <2> QED
    BY <1>4, <2>2, <2>5 DEF Fits
<1>5. CASE content # Missing /\ file[2] # 0
  <2>1. dataset \in InParts /\ content \in [part : Int, offset : Int, items : Seq(ItemOf(dataset))]
    BY <1>1, <1>5 DEF Fits
  <2>2. "parts" \notin DOMAIN content
    <3> HIDE DEF content, dataset
    <3> QED
      BY <2>1
  <2>3. PartsOf(file) = <<>>
    BY <2>2 DEF PartsOf
  <2> QED
    BY <1>5, <2>1, <2>3 DEF Fits
<1> QED
  BY <1>2, <1>3, <1>4, <1>5

LEMMA FitsAmongMore ==
  ASSUME NEW file, NEW content, NEW names, NEW more, names \subseteq more, Fits(file, content, names)
  PROVE  Fits(file, content, more)
BY DEF Fits

LEMMA KnowledgeIsRead ==
  ASSUME Shape, CuratedInv, KnowledgeInv, ReadKnowledge
  PROVE  KnowledgeInv'
<1> DEFINE file == Head(rebuild.want)
           rest == Tail(rebuild.want)
           more == PartsOf(file)
           names == DOMAIN rebuild.got \cup Range(rebuild.want)
<1>1. /\ rebuild.pc = "knowledge" /\ rebuild.want # <<>>
      /\ rebuild' = [rebuild EXCEPT !.want = more \o rest,
                                    !.got = With(rebuild.got, [f \in {file} |-> curated[f]])]
      /\ UNCHANGED curated
  BY DEF ReadKnowledge, Becomes, world
<1>2. /\ rebuild.want \in Seq(DOMAIN curated) /\ DOMAIN rebuild.got \subseteq DOMAIN curated
      /\ \A i \in DOMAIN DataSets : <<DataSets[i], 0>> \in names
      /\ \A f \in DOMAIN rebuild.got : Fits(f, rebuild.got[f], names)
      /\ ~rebuild.disturbed => \A f \in DOMAIN rebuild.got : rebuild.got[f] = curated[f]
  BY <1>1 DEF KnowledgeInv
<1>3. /\ file \in DOMAIN curated /\ rest \in Seq(DOMAIN curated)
      /\ Range(rebuild.want) = {file} \cup Range(rest)
  <2>1. PICK want : want = rebuild.want
    OBVIOUS
  <2>2. want \in Seq(DOMAIN curated) /\ want # <<>>
    BY <1>1, <1>2, <2>1
  <2>3. /\ Head(want) = want[1] /\ Len(want) >= 1 /\ Len(want) \in Nat /\ Tail(want) \in Seq(DOMAIN curated)
        /\ Len(Tail(want)) = Len(want) - 1 /\ \A i \in 1 .. Len(want) - 1 : Tail(want)[i] = want[i + 1]
    BY <2>2
  <2>4. Range(want) \subseteq {Head(want)} \cup Range(Tail(want))
    <3>1. ASSUME NEW i \in 1 .. Len(want)
          PROVE  want[i] \in {Head(want)} \cup Range(Tail(want))
      <4>1. CASE i = 1
        BY <2>3, <4>1
      <4>2. CASE i # 1
        <5>1. i - 1 \in 1 .. Len(want) - 1 /\ (i - 1) + 1 = i
          BY <2>3, <4>2
        <5>2. i - 1 \in DOMAIN Tail(want) /\ Tail(want)[i - 1] = want[i]
          BY <2>3, <5>1
        <5> QED
          BY <5>2 DEF Range
      <4> QED
        BY <4>1, <4>2
    <3>2. DOMAIN want = 1 .. Len(want)
      BY <2>2
    <3> QED
      BY <3>1, <3>2 DEF Range
  <2>5. {Head(want)} \cup Range(Tail(want)) \subseteq Range(want)
    <3>1. 1 \in DOMAIN want /\ DOMAIN Tail(want) = 1 .. Len(want) - 1
          /\ \A i \in 1 .. Len(want) - 1 : i + 1 \in DOMAIN want
      BY <2>2, <2>3
    <3> QED
      BY <2>3, <3>1 DEF Range
  <2> QED
    BY <2>1, <2>2, <2>3, <2>4, <2>5
<1>4. more \in Seq(DOMAIN curated)
      /\ \A others : Range(more) \subseteq others => Fits(file, curated[file], others)
  BY <1>3, PartsOfFile DEF CuratedInv
<1>5. PICK want, got : want = rebuild'.want /\ got = rebuild'.got
  OBVIOUS
<1>6. /\ want = more \o rest /\ got = With(rebuild.got, [f \in {file} |-> curated[f]])
      /\ rebuild'.disturbed = rebuild.disturbed
  BY <1>1, <1>5, IdleFields DEF Shape
<1>7. want \in Seq(DOMAIN curated) /\ Range(want) = Range(more) \cup Range(rest)
  <2> HIDE DEF more, rest
  <2> QED
    BY <1>3, <1>4, <1>6, RangeOfConcat
<1>8. /\ DOMAIN got = DOMAIN rebuild.got \cup {file}
      /\ \A f \in DOMAIN got : got[f] = IF f = file THEN curated[file] ELSE rebuild.got[f]
  BY <1>6 DEF With
<1> DEFINE others == DOMAIN got \cup Range(want)
<1>9. names \subseteq others
  BY <1>3, <1>7, <1>8
<1>10. Range(more) \subseteq others
  BY <1>7
<1> HIDE DEF file, rest, more, names, others
<1>11. ASSUME NEW f \in DOMAIN got
       PROVE  Fits(f, got[f], others)
  <2>1. CASE f = file
    BY <1>4, <1>8, <1>10, <2>1
  <2>2. CASE f # file
    BY <1>2, <1>8, <1>9, <2>2, FitsAmongMore
  <2> QED
    BY <2>1, <2>2
<1>12. DOMAIN got \subseteq DOMAIN curated
  BY <1>2, <1>3, <1>8
<1>13. ~rebuild.disturbed => \A f \in DOMAIN got : got[f] = curated[f]
  BY <1>2, <1>8
<1> QED
  BY <1>1, <1>2, <1>5, <1>6, <1>7, <1>9, <1>11, <1>12, <1>13 DEF KnowledgeInv, others

LEMMA KnowledgeInvStep ==
  ASSUME ProgressInv, WorldInv, CuratedInv, KnowledgeInv, [Next]_vars
  PROVE  KnowledgeInv'
<1> USE DEF ProgressInv, WorldInv
<1>1. CASE World \/ ClientStep \/ UNCHANGED vars
  <2>1. DOMAIN curated' = DOMAIN curated
    BY CuratedInvStep DEF CuratedInv
  <2>2. rebuild' \in {rebuild, [rebuild EXCEPT !.disturbed = TRUE]}
    BY <1>1, WorldLeaves DEF ClientStep, List, NextPage, AnswerClient, vars
  <2>3. rebuild'.pc = rebuild.pc /\ rebuild'.want = rebuild.want /\ rebuild'.got = rebuild.got
    BY <2>2, IdleFields DEF Shape
  <2>4. CASE UNCHANGED curated
    <3>1. rebuild'.disturbed \/ rebuild'.disturbed = rebuild.disturbed
      BY <2>2, IdleFields DEF Shape
    <3> QED
      BY <2>1, <2>3, <2>4, <3>1 DEF KnowledgeInv
  <2>5. CASE \E n \in DOMAIN Edits : Curate(n)
    <3>1. rebuild.pc = "knowledge" => rebuild'.disturbed
      BY <2>5, IdleFields DEF Curate, Disturb, Shape
    <3> QED
      BY <2>1, <2>3, <3>1 DEF KnowledgeInv
  <2>6. World => UNCHANGED curated \/ \E n \in DOMAIN Edits : Curate(n)
    BY DEF World, MakeDirectory, StartSession, EndSession, AlterManifest, AlterEvents,
           CreateState, BootstrapState, ProcessSession, DetectorChanges, SessionChanges
  <2>7. ClientStep \/ UNCHANGED vars => UNCHANGED curated
    BY OthersLeaveWorld DEF world
  <2> QED
    BY <1>1, <2>4, <2>5, <2>6, <2>7
<1>2. CASE ReadKnowledge
  BY <1>2, KnowledgeIsRead
<1>3. CASE Rebuild
  <2>1. /\ rebuild'.want = [i \in DOMAIN DataSets |-> <<DataSets[i], 0>>] /\ rebuild'.got = <<>>
        /\ UNCHANGED curated
    BY <1>3, IdleFields DEF Rebuild, world, Idle
  <2>2. DOMAIN rebuild'.got = {}
    BY <2>1
  <2>3. PICK want : want = rebuild'.want
    OBVIOUS
  <2>4. DOMAIN want = DOMAIN DataSets /\ \A i \in DOMAIN DataSets : want[i] = <<DataSets[i], 0>>
    BY <2>1, <2>3
  <2>5. want \in Seq(DOMAIN curated)
    <3>1. DOMAIN DataSets = 1 .. 11
      BY DEF DataSets
    <3>2. want = [i \in 1 .. 11 |-> <<DataSets[i], 0>>]
      BY <2>1, <2>3, <3>1
    <3>3. \A i \in 1 .. 11 : <<DataSets[i], 0>> \in DOMAIN curated
      BY <3>1 DEF CuratedInv, Complete
    <3> QED
      BY <3>2, <3>3
  <2>6. \A i \in DOMAIN DataSets : <<DataSets[i], 0>> \in Range(want)
    BY <2>4 DEF Range
  <2> QED
    BY <2>1, <2>2, <2>3, <2>5, <2>6 DEF KnowledgeInv
<1>4. CASE RebuildStep /\ ~ReadKnowledge /\ ~Rebuild
  <2>1. rebuild'.pc # "knowledge"
    <3>1. CASE Refuse \/ Replace \/ Crash
      BY <3>1, IdleFields DEF Refuse, Replace, Crash, Becomes
    <3>2. CASE Project \/ OpenChanges \/ ListSessions
      <4>1. CASE ~Refuse
        BY <3>2, <4>1, PreparingFields, IdleFields DEF Project, OpenChanges, ListSessions, Shape, Becomes, Refuse
      <4> QED
        BY <3>1, <4>1
    <3>3. CASE Keeps /\ (Skips \/ Begins \/ Inspects \/ FindsSame \/ Stages \/ Sums \/ Builds)
      BY <3>3 DEF Skips, Begins, Inspects, FindsSame, Stages, Sums, Builds
    <3> QED
      BY <1>4, <3>1, <3>2, <3>3, RebuildSteps
  <2> QED
    BY <2>1 DEF KnowledgeInv
<1> QED
  BY <1>1, <1>2, <1>3, <1>4 DEF Next

(* What has been read is complete when nothing more is wanted.               *)
LEMMA ReadIsComplete ==
  ASSUME CuratedInv, KnowledgeInv, rebuild.pc = "knowledge", rebuild.want = <<>>
  PROVE  Complete(rebuild.got)
<1>1. DOMAIN rebuild.got \cup Range(rebuild.want) = DOMAIN rebuild.got
  BY EmptyAsSeq
<1>2. /\ \A i \in DOMAIN DataSets : <<DataSets[i], 0>> \in DOMAIN rebuild.got
      /\ \A file \in DOMAIN rebuild.got : Fits(file, rebuild.got[file], DOMAIN rebuild.got)
  BY <1>1 DEF KnowledgeInv
<1>3. \A file \in DOMAIN rebuild.got : file \in Range(DataSets) \X Nat
  BY DEF KnowledgeInv, CuratedInv, Complete
<1> QED
  BY <1>2, <1>3 DEF Complete

(* Nothing that the accepted files say is lost: each word and each evidence  *)
(* is in the record of the thing it is said of, also where two data sets say *)
(* something of one thing.                                                   *)
THEOREM AllThatIsSaidIsKept == Spec => []NothingSaidIsLost
<1> DEFINE Inv == WorldInv /\ ProgressInv /\ CuratedInv /\ KnowledgeInv
<1>1. Init => Inv
  <2>1. Init => KnowledgeInv
    BY IdleFields DEF Init, KnowledgeInv
  <2> QED
    BY <2>1, WorldInvInit, ProgressInit, CuratedInvInit
<1>2. Inv /\ [Next]_vars => Inv'
  BY WorldInvStep, ProgressInvStep, CuratedInvStep, KnowledgeInvStep DEF WorldInv
<1>3. Inv => NothingSaidIsLost
  <2>1. ASSUME Inv, NEW projection \in Completed, NEW said \in Sayings(rebuild.got)
        PROVE  \E r \in Range(projection) : Answers(r, said)
    <3>1. /\ rebuild.pc = "knowledge" /\ rebuild.want = <<>>
          /\ projection = Projected(rebuild.got) /\ projection # Refused
      BY <2>1 DEF Completed
    <3>2. Complete(rebuild.got)
      BY <2>1, <3>1, ReadIsComplete
    <3> QED
      BY <2>1, <3>1, <3>2, SayingsAreAnswered
  <2> QED
    BY <2>1 DEF NothingSaidIsLost, Answers
<1> QED
  BY <1>1, <1>2, <1>3, PTL DEF Spec

-----------------------------------------------------------------------------
(* A fold over the numbers up to n goes from one to the next.                *)
FoldsBy(iter, n, V, step) ==
  \A d \in SUBSET (1 .. n) : d # {} /\ iter[d \ {Max(d)}] \in V =>
    iter[d] = step[<<Max(d), iter[d \ {Max(d)}]>>]

EndsAt(h, n, iter) == h[n] = iter[1 .. n]

GoesBy(h, n, step) == \A k \in 1 .. n : h[k] = step[<<k, h[k - 1]>>]

LEMMA FoldUnrolls ==
  ASSUME NEW n \in Nat, NEW V, NEW base \in V, NEW step \in [(1 .. n) \X V -> V], NEW iter,
         iter[{}] = base, FoldsBy(iter, n, V, step)
  PROVE  \E h \in [0 .. n -> V] : h[0] = base /\ EndsAt(h, n, iter) /\ GoesBy(h, n, step)
<1> DEFINE h == [k \in 0 .. n |-> iter[1 .. k]]
           T == {m \in Nat : m <= n => h[m] \in V}
<1>1. h[0] = base /\ h[n] = iter[1 .. n]
  <2>1. 1 .. 0 = {} /\ 0 \in 0 .. n /\ n \in 0 .. n
    OBVIOUS
  <2> QED
    BY <2>1
<1>2. ASSUME NEW k \in 1 .. n, h[k - 1] \in V PROVE h[k] = step[<<k, h[k - 1]>>]
  <2> DEFINE d == 1 .. k
  <2>1. d \in SUBSET (1 .. n) /\ d # {} /\ Max(d) = k /\ d \ {k} = 1 .. (k - 1)
    BY UpTo
  <2>2. h[k] = iter[d] /\ h[k - 1] = iter[1 .. (k - 1)]
    OBVIOUS
  <2> HIDE DEF d, h
  <2>3. iter[d] = step[<<Max(d), iter[d \ {Max(d)}]>>]
    BY <1>2, <2>1, <2>2 DEF FoldsBy
  <2> QED
    BY <2>1, <2>2, <2>3
<1> HIDE DEF h
<1>3. 0 \in T
  BY <1>1
<1>4. ASSUME NEW m \in Nat, m \in T PROVE m + 1 \in T
  <2> SUFFICES ASSUME m + 1 <= n PROVE h[m + 1] \in V
    OBVIOUS
  <2>1. m + 1 \in 1 .. n /\ (m + 1) - 1 = m /\ h[m] \in V
    BY <1>4
  <2>2. h[m + 1] = step[<<m + 1, h[m]>>]
    BY <1>2, <2>1
  <2> QED
    BY <2>1, <2>2
<1>5. \A m \in 0 .. n : h[m] \in V
  <2> HIDE DEF T
  <2>1. \A m \in Nat : m \in T
    BY <1>3, <1>4, Induction
  <2> QED
    BY <2>1 DEF T
<1>6. h \in [0 .. n -> V]
  BY <1>5 DEF h
<1>7. GoesBy(h, n, step)
  <2>1. \A k \in 1 .. n : k - 1 \in 0 .. n
    OBVIOUS
  <2> QED
    BY <1>2, <1>5, <2>1 DEF GoesBy
<1> QED
  BY <1>1, <1>6, <1>7 DEF EndsAt

-----------------------------------------------------------------------------
(* The rows of one way to meet a text are taken one by one.                  *)
OneRow(found, r, tier, limit) ==
  IF Len(found) >= limit \/ r.ref \in {found[i].ref : i \in DOMAIN found} THEN found
  ELSE Append(found, Hit(r, tier))

RowsBy(h, hits, rows, tier, limit) ==
  /\ h[0] = hits /\ h[Len(rows)] = AppendRows(hits, rows, tier, limit)
  /\ \A k \in 1 .. Len(rows) : h[k] = OneRow(h[k - 1], rows[k], tier, limit)

LEMMA RowsAreAppended ==
  ASSUME NEW H, NEW hits \in Seq(H), NEW rows, Len(rows) \in Nat, DOMAIN rows = 1 .. Len(rows),
         NEW tier, NEW limit, \A k \in DOMAIN rows : Hit(rows[k], tier) \in H
  PROVE  \E h \in [0 .. Len(rows) -> Seq(H)] : RowsBy(h, hits, rows, tier, limit)
<1> DEFINE n == Len(rows)
           V == Seq(H)
           Folds(iter) == iter = [d \in SUBSET (1 .. n) |->
             IF d = {} THEN hits
             ELSE IF Len(iter[d \ {Max(d)}]) >= limit
                       \/ rows[Max(d)].ref \in {iter[d \ {Max(d)}][i].ref : i \in DOMAIN iter[d \ {Max(d)}]}
                  THEN iter[d \ {Max(d)}]
                  ELSE Append(iter[d \ {Max(d)}], Hit(rows[Max(d)], tier))]
           iter == CHOOSE g : Folds(g)
           step == [p \in (1 .. n) \X V |-> OneRow(p[2], rows[p[1]], tier, limit)]
<1>1. n \in Nat /\ DOMAIN rows = 1 .. n /\ hits \in V
  OBVIOUS
<1>2. AppendRows(hits, rows, tier, limit) = iter[1 .. n]
  <2> HIDE DEF n
  <2> QED
    BY <1>1 DEF AppendRows, FoldLeft, MapThenFoldSet
<1> HIDE DEF n
<1>3. step \in [(1 .. n) \X V -> V]
  <2>1. ASSUME NEW p \in (1 .. n) \X V PROVE OneRow(p[2], rows[p[1]], tier, limit) \in V
    <3>1. PICK f, r : f = p[2] /\ r = rows[p[1]]
      OBVIOUS
    <3>2. f \in Seq(H) /\ Hit(r, tier) \in H
      BY <1>1, <3>1
    <3>3. OneRow(f, r, tier, limit) \in Seq(H)
      BY <3>2 DEF OneRow
    <3> QED
      BY <3>1, <3>3
  <2> QED
    BY <2>1
<1> HIDE DEF V
<1>4. PICK g \in [SUBSET (1 .. n) -> V] : FoldsWith(g, n, hits, step)
  <2> HIDE DEF step
  <2> QED
    BY <1>1, <1>3, FoldExists
<1>5. Folds(g)
  <2>1. ASSUME NEW d \in SUBSET (1 .. n)
        PROVE  g[d] = IF d = {} THEN hits ELSE OneRow(g[d \ {Max(d)}], rows[Max(d)], tier, limit)
    <3>1. CASE d = {}
      BY <1>4, <3>1 DEF FoldsWith
    <3>2. CASE d # {}
      <4> DEFINE x == Max(d)
                 rest == d \ {x}
      <4>1. x \in 1 .. n
        BY <1>1, <3>2, MaxOfSome
      <4>2. g[d] = step[<<x, g[rest]>>]
        BY <1>4, <3>2 DEF FoldsWith
      <4>3. g[rest] \in V
        <5>1. rest \in SUBSET (1 .. n)
          OBVIOUS
        <5> HIDE DEF rest
        <5> QED
          BY <5>1
      <4> HIDE DEF x, rest
      <4>4. g[d] = OneRow(g[rest], rows[x], tier, limit)
        BY <4>1, <4>2, <4>3
      <4> QED
        BY <3>2, <4>4 DEF x, rest
    <3> QED
      BY <3>1, <3>2
  <2>2. g = [d \in SUBSET (1 .. n) |-> g[d]]
    OBVIOUS
  <2> QED
    BY <2>1, <2>2, Zenon DEF OneRow
<1>6. Folds(iter)
  <2> HIDE DEF Folds
  <2> QED
    BY <1>5
<1>7. \A d \in SUBSET (1 .. n) :
        iter[d] = IF d = {} THEN hits ELSE OneRow(iter[d \ {Max(d)}], rows[Max(d)], tier, limit)
  <2> HIDE DEF iter
  <2>1. iter = [d \in SUBSET (1 .. n) |->
                  IF d = {} THEN hits ELSE OneRow(iter[d \ {Max(d)}], rows[Max(d)], tier, limit)]
    BY <1>6 DEF OneRow
  <2> HIDE DEF Folds
  <2> QED
    BY <2>1
<1> HIDE DEF iter
<1>8. iter[{}] = hits
  BY <1>7
<1>9. ASSUME NEW d \in SUBSET (1 .. n), d # {}, iter[d \ {Max(d)}] \in V
      PROVE  iter[d] = step[<<Max(d), iter[d \ {Max(d)}]>>]
  <2>1. Max(d) \in 1 .. n
    BY <1>1, <1>9, MaxOfSome
  <2>2. PICK x, v : x = Max(d) /\ v = iter[d \ {Max(d)}]
    OBVIOUS
  <2>3. step[<<x, v>>] = OneRow(v, rows[x], tier, limit)
    BY <1>9, <2>1, <2>2
  <2> QED
    BY <1>7, <1>9, <2>2, <2>3
<1>10. PICK h \in [0 .. n -> V] : h[0] = hits /\ EndsAt(h, n, iter) /\ GoesBy(h, n, step)
  <2> HIDE DEF step
  <2>1. FoldsBy(iter, n, V, step)
    BY <1>9 DEF FoldsBy
  <2>2. n \in Nat /\ hits \in V
    BY <1>1
  <2> QED
    BY ONLY <1>3, <1>8, <2>1, <2>2, FoldUnrolls
<1>11. \A k \in 1 .. n : h[k] = OneRow(h[k - 1], rows[k], tier, limit)
  <2>1. \A k \in 1 .. n : k - 1 \in 0 .. n
    BY <1>1
  <2> QED
    BY <1>10, <2>1 DEF GoesBy
<1>12. h[n] = AppendRows(hits, rows, tier, limit)
  BY <1>2, <1>10 DEF EndsAt
<1> QED
  BY <1>10, <1>11, <1>12 DEF n, V, RowsBy

LEMMA AppendedAreHits ==
  ASSUME NEW H, NEW hits \in Seq(H), NEW rows, Len(rows) \in Nat, DOMAIN rows = 1 .. Len(rows),
         NEW tier, NEW limit, \A k \in DOMAIN rows : Hit(rows[k], tier) \in H
  PROVE  AppendRows(hits, rows, tier, limit) \in Seq(H)
<1>1. PICK h \in [0 .. Len(rows) -> Seq(H)] : RowsBy(h, hits, rows, tier, limit)
  BY RowsAreAppended
<1>2. PICK n : n = Len(rows)
  OBVIOUS
<1>3. n \in 0 .. n /\ h \in [0 .. n -> Seq(H)] /\ h[n] = AppendRows(hits, rows, tier, limit)
  BY <1>1, <1>2 DEF RowsBy
<1> QED
  BY <1>3

-----------------------------------------------------------------------------
(* Texts with a number before them are in the order of the numbers first.    *)
LEMMA WithFirst ==
  ASSUME NEW a \in Int, NEW s \in Text
  PROVE  /\ <<a>> \o s \in Text /\ Len(<<a>> \o s) = Len(s) + 1 /\ (<<a>> \o s)[1] = a
         /\ \A i \in 1 .. Len(s) : (<<a>> \o s)[i + 1] = s[i]
BY DEF Text

LEMMA TwoFirst ==
  ASSUME NEW a \in Int, NEW b \in Int, NEW s \in Text
  PROVE  <<a, b>> \o s = <<a>> \o (<<b>> \o s)
<1> DEFINE u == <<a, b>> \o s
           v == <<b>> \o s
           w == <<a>> \o v
<1>1. /\ u \in Seq(Int) /\ Len(u) = Len(s) + 2 /\ u[1] = a /\ u[2] = b
      /\ \A i \in 1 .. Len(s) : u[i + 2] = s[i]
  BY DEF Text
<1>2. v \in Text /\ Len(v) = Len(s) + 1 /\ v[1] = b /\ \A i \in 1 .. Len(s) : v[i + 1] = s[i]
  BY WithFirst
<1> HIDE DEF u, v
<1>3. w \in Text /\ Len(w) = Len(v) + 1 /\ w[1] = a /\ \A i \in 1 .. Len(v) : w[i + 1] = v[i]
  BY <1>2, WithFirst
<1> HIDE DEF w
<1>4. Len(s) \in Nat
  BY DEF Text
<1>5. ASSUME NEW i \in 1 .. Len(u) PROVE u[i] = w[i]
  <2>1. CASE i = 1
    BY <1>1, <1>3, <2>1
  <2>2. CASE i = 2
    <3>1. 1 \in 1 .. Len(v) /\ w[1 + 1] = v[1]
      BY <1>2, <1>3, <1>4
    <3> QED
      BY <1>1, <1>2, <2>2, <3>1
  <2>3. CASE i > 2
    <3>1. PICK j : j = i - 2
      OBVIOUS
    <3>2. j \in 1 .. Len(s) /\ j + 2 = i /\ j + 1 \in 1 .. Len(v) /\ (j + 1) + 1 = i
      BY <1>1, <1>2, <1>4, <2>3, <3>1
    <3>3. u[j + 2] = s[j] /\ v[j + 1] = s[j] /\ w[(j + 1) + 1] = v[j + 1]
      BY <1>1, <1>2, <1>3, <3>2
    <3> QED
      BY <3>2, <3>3
  <2> QED
    BY <1>1, <1>4, <2>1, <2>2, <2>3
<1>6. u \in Seq(Int) /\ w \in Seq(Int) /\ Len(u) = Len(w)
  BY <1>1, <1>2, <1>3, <1>4 DEF Text
<1>7. u = w
  BY <1>5, <1>6, SeqEqual
<1> QED
  BY <1>7 DEF u, v, w

LEMMA TailIsOne ==
  ASSUME NEW a \in Int, NEW b \in Int, NEW s \in Text, NEW t \in Text, <<a>> \o s = <<b>> \o t
  PROVE  s = t
<1>1. Len(s) = Len(t)
  BY WithFirst DEF Text
<1>2. \A i \in 1 .. Len(s) : s[i] = t[i]
  BY <1>1, WithFirst DEF Text
<1> QED
  BY <1>1, <1>2, SeqEqual DEF Text

LEMMA BeforeWithFirst ==
  ASSUME NEW a \in Int, NEW b \in Int, NEW s \in Text, NEW t \in Text
  PROVE  Before(<<a>> \o s, <<b>> \o t) <=> a < b \/ (a = b /\ Before(s, t))
<1> DEFINE u == <<a>> \o s
           v == <<b>> \o t
<1>1. /\ u \in Text /\ Len(u) = Len(s) + 1 /\ u[1] = a /\ \A i \in 1 .. Len(s) : u[i + 1] = s[i]
      /\ v \in Text /\ Len(v) = Len(t) + 1 /\ v[1] = b /\ \A i \in 1 .. Len(t) : v[i + 1] = t[i]
      /\ Len(s) \in Nat /\ Len(t) \in Nat
      /\ \A i \in 1 .. Len(s) : s[i] \in Int
      /\ \A i \in 1 .. Len(t) : t[i] \in Int
  BY WithFirst DEF Text
<1>2. /\ Before(s, t) <=> \E n \in 0 .. Len(s) :
           n < Len(t) /\ SameUpTo(s, t, n) /\ (n = Len(s) \/ s[n + 1] < t[n + 1])
      /\ Before(u, v) <=> \E n \in 0 .. Len(u) :
           n < Len(v) /\ SameUpTo(u, v, n) /\ (n = Len(u) \/ u[n + 1] < v[n + 1])
  <2> HIDE DEF u, v
  <2> QED
    BY <1>1, BeforeAt
<1> HIDE DEF u, v
<1>3. ASSUME a < b PROVE Before(u, v)
  <2>1. 0 \in 0 .. Len(u) /\ 0 < Len(v) /\ SameUpTo(u, v, 0) /\ u[0 + 1] < v[0 + 1]
    BY <1>1, <1>3 DEF SameUpTo
  <2> QED
    BY <1>2, <2>1
<1>4. ASSUME a = b, Before(s, t) PROVE Before(u, v)
  <2>1. PICK n \in 0 .. Len(s) :
          n < Len(t) /\ SameUpTo(s, t, n) /\ (n = Len(s) \/ s[n + 1] < t[n + 1])
    BY <1>2, <1>4
  <2>2. n + 1 \in 0 .. Len(u) /\ n + 1 < Len(v)
    BY <1>1, <2>1
  <2>3. SameUpTo(u, v, n + 1)
    <3>1. ASSUME NEW i \in 1 .. n + 1 PROVE u[i] = v[i]
      <4>1. CASE i = 1
        BY <1>1, <1>4, <4>1
      <4>2. CASE i # 1
        <5>1. PICK j : j = i - 1
          OBVIOUS
        <5>2. j \in 1 .. n /\ j \in 1 .. Len(s) /\ j \in 1 .. Len(t) /\ j + 1 = i
          BY <1>1, <2>1, <4>2, <5>1
        <5>3. s[j] = t[j] /\ u[j + 1] = s[j] /\ v[j + 1] = t[j]
          BY <1>1, <2>1, <5>2 DEF SameUpTo
        <5> QED
          BY <5>2, <5>3
      <4> QED
        BY <4>1, <4>2
    <3> QED
      BY <3>1 DEF SameUpTo
  <2>4. n + 1 = Len(u) \/ u[(n + 1) + 1] < v[(n + 1) + 1]
    <3>1. CASE n = Len(s)
      BY <1>1, <3>1
    <3>2. CASE n # Len(s)
      <4>1. PICK k : k = n + 1
        OBVIOUS
      <4>2. k \in 1 .. Len(s) /\ k \in 1 .. Len(t) /\ s[k] < t[k]
        BY <1>1, <2>1, <3>2, <4>1
      <4> QED
        BY <1>1, <4>1, <4>2
    <3> QED
      BY <3>1, <3>2
  <2> QED
    BY <1>2, <2>2, <2>3, <2>4
<1>5. ASSUME Before(u, v) PROVE a < b \/ (a = b /\ Before(s, t))
  <2>1. PICK m \in 0 .. Len(u) :
          m < Len(v) /\ SameUpTo(u, v, m) /\ (m = Len(u) \/ u[m + 1] < v[m + 1])
    BY <1>2, <1>5
  <2>2. CASE m = 0
    BY <1>1, <2>1, <2>2
  <2>3. CASE m # 0
    <3>1. PICK n : n = m - 1
      OBVIOUS
    <3>2. n \in 0 .. Len(s) /\ n < Len(t) /\ n + 1 = m
      BY <1>1, <2>1, <2>3, <3>1
    <3>3. a = b
      <4>1. 1 \in 1 .. m
        BY <1>1, <2>1, <2>3
      <4> QED
        BY <1>1, <2>1, <4>1 DEF SameUpTo
    <3>4. SameUpTo(s, t, n)
      <4>1. ASSUME NEW i \in 1 .. n PROVE s[i] = t[i]
        <5>1. i + 1 \in 1 .. m /\ i \in 1 .. Len(s) /\ i \in 1 .. Len(t)
          BY <1>1, <3>2
        <5>2. u[i + 1] = v[i + 1]
          BY <2>1, <5>1 DEF SameUpTo
        <5> QED
          BY <1>1, <5>1, <5>2
      <4> QED
        BY <4>1 DEF SameUpTo
    <3>5. n = Len(s) \/ s[n + 1] < t[n + 1]
      <4>1. CASE m = Len(u)
        BY <1>1, <3>2, <4>1
      <4>2. CASE m # Len(u)
        <5>1. m \in 1 .. Len(s) /\ m \in 1 .. Len(t) /\ u[m + 1] < v[m + 1]
          BY <1>1, <2>1, <2>3, <3>2, <4>2
        <5>2. s[m] < t[m]
          BY <1>1, <5>1
        <5> QED
          BY <3>2, <5>2
      <4> QED
        BY <4>1, <4>2
    <3> QED
      BY <1>2, <3>2, <3>3, <3>4, <3>5
  <2> QED
    BY <2>2, <2>3
<1> QED
  BY <1>3, <1>4, <1>5 DEF u, v

-----------------------------------------------------------------------------
(* The best way in which a record meets a text, and the order it makes.      *)
Score(r, text, tier) == IF tier = "full_text" THEN Bm25(r, text) ELSE 0

MeetsSome(r, text) == \E tier \in Range(Tiers) : Meets(r, text, tier)

Ranked(M, text) ==
  /\ M \subseteq KnowledgeRecord /\ IsFiniteSet(M)
  /\ \A r, s \in M : r.ref = s.ref => r = s
  /\ \A r \in M : MeetsSome(r, text) /\ Bm25(r, text) \in Int

PlaceOrder(M, text) == {p \in M \X M : Before(Place(p[1], text), Place(p[2], text))}

TierOrder(S, text, tier) ==
  {p \in S \X S : \/ Score(p[1], text, tier) < Score(p[2], text, tier)
                  \/ /\ Score(p[1], text, tier) = Score(p[2], text, tier)
                     /\ Before(p[1].ref, p[2].ref)}

LEMMA TiersAre == DOMAIN Tiers = 1 .. 4 /\ Len(Tiers) = 4 /\ (\A t \in 1 .. 4 : Tiers[t] = "full_text" <=> t = 4)
BY DEF Tiers

LEMMA BestIs ==
  ASSUME NEW r, NEW text, MeetsSome(r, text)
  PROVE  /\ Best(r, text) \in 1 .. 4 /\ Meets(r, text, Tiers[Best(r, text)])
         /\ \A u \in 1 .. 4 : Meets(r, text, Tiers[u]) => Best(r, text) <= u
<1> DEFINE T == {t \in 1 .. 4 : Meets(r, text, Tiers[t])}
           least == Min(T)
           IsBest(t) == Meets(r, text, Tiers[t]) /\ \A u \in 1 .. t - 1 : ~Meets(r, text, Tiers[u])
<1>1. T \in SUBSET Nat /\ T # {}
  BY TiersAre DEF MeetsSome, Range
<1>2. least \in T /\ \A u \in T : least <= u
  <2> HIDE DEF T
  <2> QED
    BY <1>1, MinOfSome
<1> HIDE DEF least
<1>3. least \in 1 .. 4 /\ IsBest(least)
  BY <1>2
<1>4. Best(r, text) = CHOOSE t \in 1 .. 4 : IsBest(t)
  BY TiersAre DEF Best
<1>5. Best(r, text) \in 1 .. 4 /\ IsBest(Best(r, text))
  <2> HIDE DEF IsBest
  <2> QED
    BY <1>3, <1>4
<1> QED
  BY <1>5

(* Of two that meet a text the one that meets it in a better way is first,   *)
(* of two in one way the one that is first in this way.                      *)
LEMMA PlacesAre ==
  ASSUME NEW M, NEW text, Ranked(M, text), NEW r \in M, NEW s \in M
  PROVE  /\ Place(r, text) \in Text
         /\ Place(r, text) = Place(s, text) => r = s
         /\ Before(Place(r, text), Place(s, text)) <=>
              \/ Best(r, text) < Best(s, text)
              \/ /\ Best(r, text) = Best(s, text)
                 /\ <<r, s>> \in TierOrder(M, text, Tiers[Best(r, text)])
<1> DEFINE x == Best(r, text)
           y == Best(s, text)
           a == Score(r, text, Tiers[x])
           b == Score(s, text, Tiers[y])
<1>1. x \in 1 .. 4 /\ y \in 1 .. 4
  BY BestIs DEF Ranked
<1>2. r.ref \in Text /\ s.ref \in Text
  BY DEF Ranked, KnowledgeRecord
<1>3. a \in Int /\ b \in Int
  BY DEF Ranked, Score
<1>4. Place(r, text) = <<x, a>> \o r.ref /\ Place(s, text) = <<y, b>> \o s.ref
  <2>1. a = (IF x = Len(Tiers) THEN Bm25(r, text) ELSE 0) /\ b = (IF y = Len(Tiers) THEN Bm25(s, text) ELSE 0)
    BY <1>1, TiersAre DEF Score
  <2> QED
    BY <2>1 DEF Place
<1> HIDE DEF x, y, a, b
<1>5. PICK p, q : p = r.ref /\ q = s.ref
  OBVIOUS
<1>6. PICK c, d : c = <<a>> \o p /\ d = <<b>> \o q
  OBVIOUS
<1>7. p \in Text /\ q \in Text /\ x \in Int /\ y \in Int
  BY <1>1, <1>2, <1>5
<1>8. c \in Text /\ d \in Text
  BY <1>3, <1>6, <1>7, WithFirst
<1>9. <<x, a>> \o p = <<x>> \o c /\ <<y, b>> \o q = <<y>> \o d
  BY <1>3, <1>6, <1>7, TwoFirst
<1>10. PICK e, f : e = Place(r, text) /\ f = Place(s, text)
  OBVIOUS
<1>11. e = <<x>> \o c /\ f = <<y>> \o d
  BY <1>4, <1>5, <1>9, <1>10
<1>12. Before(e, f) <=> x < y \/ (x = y /\ (a < b \/ (a = b /\ Before(p, q))))
  <2>1. Before(e, f) <=> x < y \/ (x = y /\ Before(c, d))
    BY <1>7, <1>8, <1>11, BeforeWithFirst
  <2>2. Before(c, d) <=> a < b \/ (a = b /\ Before(p, q))
    BY <1>3, <1>6, <1>7, BeforeWithFirst
  <2> QED
    BY <2>1, <2>2
<1>13. x = y => (<<r, s>> \in TierOrder(M, text, Tiers[x]) <=> a < b \/ (a = b /\ Before(p, q)))
  BY <1>5 DEF TierOrder, a, b
<1>14. e \in Text
  BY <1>7, <1>8, <1>11, WithFirst
<1>15. e = f => r = s
  <2> SUFFICES ASSUME e = f PROVE r = s
    OBVIOUS
  <2>1. <<x>> \o c = <<y>> \o d
    BY <1>11
  <2>2. c = d
    BY <1>7, <1>8, <2>1, TailIsOne
  <2>3. p = q
    BY <1>3, <1>6, <1>7, <2>2, TailIsOne
  <2> QED
    BY <1>5, <2>3 DEF Ranked
<1> QED
  BY <1>12, <1>13, <1>14, <1>15, <1>10 DEF x, y

-----------------------------------------------------------------------------
(* All that meet a text, and those that meet it in one way, in order.        *)
InPlaces(M, text) == Ordered(M, LAMBDA r, s : Before(Place(r, text), Place(s, text)))

LEMMA PlacesOrder ==
  ASSUME NEW M, NEW text, Ranked(M, text)
  PROVE  IsOrder(M, PlaceOrder(M, text))
<1> DEFINE K == [r \in M |-> Place(r, text)]
           R == {p \in M \X M : Before(K[p[1]], K[p[2]])}
<1>1. K \in [M -> Text] /\ \A x, y \in M : K[x] = K[y] => x = y
  <2>1. \A x, y \in M : Place(x, text) \in Text /\ (Place(x, text) = Place(y, text) => x = y)
    BY PlacesAre
  <2> QED
    BY <2>1
<1>2. R = PlaceOrder(M, text)
  BY DEF PlaceOrder
<1>3. IsOrder(M, {p \in M \X M : Before(K[p[1]], K[p[2]])})
  <2> HIDE DEF K, R
  <2> QED
    BY <1>1, TextsOrder
<1> QED
  BY <1>2, <1>3

LEMMA PlacesAreSorted ==
  ASSUME NEW M, NEW text, Ranked(M, text)
  PROVE  /\ InPlaces(M, text) \in Seq(M) /\ Range(InPlaces(M, text)) = M
         /\ Sorted(InPlaces(M, text), PlaceOrder(M, text))
<1> DEFINE R == PlaceOrder(M, text)
           At(i) == CHOOSE x \in M :
             Cardinality({y \in M : Before(Place(y, text), Place(x, text))}) = i - 1
           q == InPlaces(M, text)
<1>1. IsFiniteSet(M) /\ IsOrder(M, R)
  BY PlacesOrder DEF Ranked
<1>2. \A x \in M : Cardinality({y \in M : Before(Place(y, text), Place(x, text))}) = Rank(M, R, x)
  <2>1. \A x \in M : {y \in M : Before(Place(y, text), Place(x, text))} = {y \in M : <<y, x>> \in R}
    BY DEF PlaceOrder
  <2> QED
    BY <2>1 DEF Rank
<1>3. q = [i \in 1 .. Cardinality(M) |-> At(i)]
  BY DEF InPlaces, Ordered
<1>4. ASSUME NEW i \in 1 .. Cardinality(M), \E x \in M : Rank(M, R, x) = i - 1
      PROVE  At(i) \in M /\ Rank(M, R, At(i)) = i - 1
  <2>1. \E x \in M : Cardinality({y \in M : Before(Place(y, text), Place(x, text))}) = i - 1
    BY <1>2, <1>4
  <2>2. At(i) \in M /\ Cardinality({y \in M : Before(Place(y, text), Place(At(i), text))}) = i - 1
    BY <2>1
  <2> HIDE DEF At, R
  <2> QED
    BY <1>2, <2>2
<1> HIDE DEF At, R, q
<1>5. q = [i \in 1 .. Cardinality(M) |-> q[i]]
  BY <1>3
<1>6. \A i \in 1 .. Cardinality(M) :
        (\E x \in M : Rank(M, R, x) = i - 1) => q[i] \in M /\ Rank(M, R, q[i]) = i - 1
  BY <1>3, <1>4
<1> QED
  BY <1>1, <1>5, <1>6, OrderedIsSorted DEF q, R

LEMMA TierOrders ==
  ASSUME NEW S \in SUBSET KnowledgeRecord, NEW text, NEW tier,
         \A r, s \in S : r.ref = s.ref => r = s, \A r \in S : Bm25(r, text) \in Int
  PROVE  IsOrder(S, TierOrder(S, text, tier))
<1> DEFINE K == [r \in S |-> <<Score(r, text, tier)>> \o r.ref]
           R == {p \in S \X S : Before(K[p[1]], K[p[2]])}
<1>1. \A r \in S : r.ref \in Text /\ Score(r, text, tier) \in Int
  BY DEF KnowledgeRecord, Score
<1>2. ASSUME NEW r \in S, NEW s \in S
      PROVE  /\ K[r] \in Text /\ (K[r] = K[s] => r = s)
             /\ Before(K[r], K[s]) <=>
                  \/ Score(r, text, tier) < Score(s, text, tier)
                  \/ Score(r, text, tier) = Score(s, text, tier) /\ Before(r.ref, s.ref)
  <2>1. PICK a, b, p, q : a = Score(r, text, tier) /\ b = Score(s, text, tier) /\ p = r.ref /\ q = s.ref
    OBVIOUS
  <2>2. a \in Int /\ b \in Int /\ p \in Text /\ q \in Text
    BY <1>1, <2>1
  <2>3. K[r] = <<a>> \o p /\ K[s] = <<b>> \o q
    BY <2>1
  <2> HIDE DEF K
  <2>4. <<a>> \o p \in Text
    BY <2>2, WithFirst
  <2>6. <<a>> \o p = <<b>> \o q => p = q
    BY <2>2, TailIsOne
  <2>7. p = q => r = s
    BY <2>1
  <2>5. Before(<<a>> \o p, <<b>> \o q) <=> a < b \/ (a = b /\ Before(p, q))
    BY <2>2, BeforeWithFirst
  <2> QED
    BY <2>1, <2>3, <2>4, <2>5, <2>6, <2>7
<1> HIDE DEF K
<1>3. K \in [S -> Text] /\ \A x, y \in S : K[x] = K[y] => x = y
  <2>1. K = [r \in S |-> K[r]]
    BY DEF K
  <2> QED
    BY <1>2, <2>1
<1>4. R = TierOrder(S, text, tier)
  BY <1>2 DEF TierOrder
<1>5. IsOrder(S, {p \in S \X S : Before(K[p[1]], K[p[2]])})
  <2> HIDE DEF R
  <2> QED
    BY <1>3, TextsOrder
<1> QED
  BY <1>4, <1>5

LEMMA TierIsSorted ==
  ASSUME NEW found, NEW text, NEW kinds, NEW tier, NEW S,
         S = Selected(found, text, kinds, tier), S \in SUBSET KnowledgeRecord, IsFiniteSet(S),
         \A r, s \in S : r.ref = s.ref => r = s, \A r \in S : Bm25(r, text) \in Int
  PROVE  /\ InTier(found, text, kinds, tier) \in Seq(S)
         /\ Range(InTier(found, text, kinds, tier)) = S
         /\ Sorted(InTier(found, text, kinds, tier), TierOrder(S, text, tier))
<1> DEFINE R == TierOrder(S, text, tier)
           Less(y, x) ==
             LET score == IF tier = "full_text" THEN Bm25(y, text) ELSE 0
                 other == IF tier = "full_text" THEN Bm25(x, text) ELSE 0
             IN score < other \/ (score = other /\ Before(y.ref, x.ref))
           At(i) == CHOOSE x \in S : Cardinality({y \in S : Less(y, x)}) = i - 1
           q == InTier(found, text, kinds, tier)
<1>1. IsOrder(S, R)
  BY TierOrders
<1>2. \A x, y \in S : Less(y, x) <=> <<y, x>> \in R
  BY DEF TierOrder, Score
<1>3. q = [i \in 1 .. Cardinality(S) |-> At(i)]
  BY DEF InTier, Ordered
<1> HIDE DEF Less, R
<1>4. \A x \in S : Cardinality({y \in S : Less(y, x)}) = Rank(S, R, x)
  <2>1. \A x \in S : {y \in S : Less(y, x)} = {y \in S : <<y, x>> \in R}
    BY <1>2
  <2> QED
    BY <2>1 DEF Rank
<1>5. ASSUME NEW i \in 1 .. Cardinality(S), \E x \in S : Rank(S, R, x) = i - 1
      PROVE  At(i) \in S /\ Rank(S, R, At(i)) = i - 1
  <2>1. \E x \in S : Cardinality({y \in S : Less(y, x)}) = i - 1
    BY <1>4, <1>5
  <2>2. At(i) \in S /\ Cardinality({y \in S : Less(y, At(i))}) = i - 1
    BY <2>1
  <2> HIDE DEF At
  <2> QED
    BY <1>4, <2>2
<1> HIDE DEF At, q
<1>6. q = [i \in 1 .. Cardinality(S) |-> q[i]]
  BY <1>3
<1>7. \A i \in 1 .. Cardinality(S) :
        (\E x \in S : Rank(S, R, x) = i - 1) => q[i] \in S /\ Rank(S, R, q[i]) = i - 1
  BY <1>3, <1>5
<1>8. q \in Seq(S) /\ Range(q) = S /\ Sorted(q, R)
  BY <1>1, <1>6, <1>7, OrderedIsSorted
<1> QED
  BY <1>8 DEF q, R

-----------------------------------------------------------------------------
(* What a search has found when it has looked at the records in done: the    *)
(* first of them, and the first of all that meet the text.                   *)
Leads(x, M, text, limit, done) ==
  /\ x \in Seq(M) /\ Sorted(x, PlaceOrder(M, text)) /\ Len(x) <= limit
  /\ Range(x) \subseteq done
  /\ Len(x) = limit \/ done \subseteq Range(x)
  /\ \A y \in Range(x), z \in M : <<z, y>> \in PlaceOrder(M, text) => z \in Range(x)

HitsOf(x, text) == [i \in DOMAIN x |-> Hit(x[i], Tiers[Best(x[i], text)])]

HitsIn(M) == {Hit(r, Tiers[t]) : r \in M, t \in 1 .. 4}

RefsOf(hits) == {hits[i].ref : i \in DOMAIN hits}

LEMMA HitsAre ==
  ASSUME NEW M, NEW text, Ranked(M, text), NEW x \in Seq(M)
  PROVE  /\ HitsOf(x, text) \in Seq(HitsIn(M)) /\ Len(HitsOf(x, text)) = Len(x)
         /\ \A r \in M : r.ref \in RefsOf(HitsOf(x, text)) <=> r \in Range(x)
<1> DEFINE At(i) == Hit(x[i], Tiers[Best(x[i], text)])
           hits == HitsOf(x, text)
<1>1. Len(x) \in Nat /\ DOMAIN x = 1 .. Len(x) /\ \A i \in DOMAIN x : x[i] \in M
  OBVIOUS
<1>2. hits = [i \in 1 .. Len(x) |-> At(i)]
  BY <1>1 DEF HitsOf
<1>3. ASSUME NEW i \in DOMAIN x PROVE At(i) \in HitsIn(M) /\ At(i).ref = x[i].ref
  <2>1. PICK r, t : r = x[i] /\ t = Best(r, text)
    OBVIOUS
  <2>2. r \in M /\ t \in 1 .. 4
    BY <1>1, <2>1, BestIs DEF Ranked
  <2>3. Hit(r, Tiers[t]) \in HitsIn(M)
    BY <2>2 DEF HitsIn
  <2>4. Hit(r, Tiers[t]).ref = r.ref
    BY DEF Hit
  <2> QED
    BY <2>1, <2>3, <2>4
<1> HIDE DEF At, hits
<1>4. hits \in Seq(HitsIn(M)) /\ Len(hits) = Len(x) /\ DOMAIN hits = DOMAIN x
  BY <1>1, <1>2, <1>3
<1>5. \A i \in DOMAIN x : hits[i].ref = x[i].ref
  BY <1>1, <1>2, <1>3
<1>6. RefsOf(hits) = {r.ref : r \in Range(x)}
  BY <1>4, <1>5 DEF Range, RefsOf
<1>7. \A r \in M : r.ref \in RefsOf(hits) <=> r \in Range(x)
  <2>1. Range(x) \subseteq M
    BY <1>1 DEF Range
  <2> QED
    BY <1>6, <2>1 DEF Ranked
<1> QED
  BY <1>4, <1>7 DEF hits

LEMMA HitsOfOneMore ==
  ASSUME NEW M, NEW text, Ranked(M, text), NEW x \in Seq(M), NEW r \in M
  PROVE  HitsOf(Append(x, r), text) = Append(HitsOf(x, text), Hit(r, Tiers[Best(r, text)]))
<1> DEFINE y == Append(x, r)
           more == HitsOf(y, text)
           hits == HitsOf(x, text)
           one == Hit(r, Tiers[Best(r, text)])
           also == Append(hits, one)
<1>1. y \in Seq(M) /\ Len(x) \in Nat /\ Len(y) = Len(x) + 1 /\ y[Len(x) + 1] = r
      /\ \A i \in 1 .. Len(x) : y[i] = x[i]
  OBVIOUS
<1>2. hits \in Seq(HitsIn(M)) /\ Len(hits) = Len(x)
  BY HitsAre
<1>3. more \in Seq(HitsIn(M)) /\ Len(more) = Len(y)
  <2> HIDE DEF y
  <2> QED
    BY <1>1, HitsAre
<1>4. one \in HitsIn(M)
  <2>1. Best(r, text) \in 1 .. 4
    BY BestIs DEF Ranked
  <2> QED
    BY <2>1 DEF HitsIn
<1>5. \A i \in 1 .. Len(x) : hits[i] = Hit(x[i], Tiers[Best(x[i], text)])
  BY <1>1 DEF HitsOf
<1>6. \A i \in 1 .. Len(y) : more[i] = Hit(y[i], Tiers[Best(y[i], text)])
  BY <1>1 DEF HitsOf
<1> HIDE DEF y, more, hits
<1>7. more[Len(x) + 1] = one
  BY <1>1, <1>6
<1>8. \A i \in 1 .. Len(x) : more[i] = hits[i]
  BY <1>1, <1>5, <1>6
<1> HIDE DEF one
<1>9. also \in Seq(HitsIn(M)) /\ Len(also) = Len(x) + 1 /\ also[Len(x) + 1] = one
      /\ \A i \in 1 .. Len(x) : also[i] = hits[i]
  BY <1>1, <1>2, <1>4
<1> HIDE DEF also
<1>10. \A i \in 1 .. Len(more) : more[i] = also[i]
  BY <1>1, <1>3, <1>7, <1>8, <1>9
<1>11. more = also
  BY <1>1, <1>3, <1>9, <1>10, SeqEqual
<1> QED
  BY <1>11 DEF also, more, hits, y, one

(* A row that follows all that has been looked at, and nothing else, or that *)
(* has been looked at, leaves the hits the first.                            *)
IsNextTo(r, M, text, done, tier) ==
  /\ tier = Tiers[Best(r, text)]
  /\ \A z \in M : <<z, r>> \in PlaceOrder(M, text) <=> z \in done

HasOneMore(more, done, r) == more = done \cup {r}

LEMMA RowIsTaken ==
  ASSUME NEW M, NEW text, Ranked(M, text), NEW limit \in Nat, NEW done \in SUBSET M, NEW x,
         Leads(x, M, text, limit, done), NEW r \in M, NEW tier,
         r \in done \/ IsNextTo(r, M, text, done, tier), NEW more, HasOneMore(more, done, r)
  PROVE  \E y : /\ Leads(y, M, text, limit, more)
                /\ HitsOf(y, text) = OneRow(HitsOf(x, text), r, tier, limit)
<1> USE DEF HasOneMore
<1> DEFINE R == PlaceOrder(M, text)
           hits == HitsOf(x, text)
<1>1. /\ x \in Seq(M) /\ Sorted(x, R) /\ Len(x) <= limit /\ Range(x) \subseteq done
      /\ Len(x) = limit \/ done \subseteq Range(x)
      /\ \A y \in Range(x), z \in M : <<z, y>> \in R => z \in Range(x)
  BY DEF Leads
<1>2. /\ hits \in Seq(HitsIn(M)) /\ Len(hits) = Len(x)
      /\ \A s \in M : s.ref \in RefsOf(hits) <=> s \in Range(x)
  BY <1>1, HitsAre
<1>3. Len(x) \in Nat /\ DOMAIN x = 1 .. Len(x) /\ Range(x) \subseteq M
  BY <1>1 DEF Range
<1>4. r.ref \in {hits[i].ref : i \in DOMAIN hits} <=> r \in Range(x)
  BY <1>2 DEF RefsOf
<1> HIDE DEF hits, R
<1>5. CASE Len(x) = limit
  <2>1. OneRow(hits, r, tier, limit) = hits
    BY <1>2, <1>3, <1>5 DEF OneRow
  <2>2. Leads(x, M, text, limit, more)
    BY <1>1, <1>5 DEF Leads, R
  <2> QED
    BY <2>1, <2>2 DEF hits
<1>6. CASE Len(x) # limit /\ r \in done
  <2>1. r \in Range(x)
    BY <1>1, <1>6
  <2>2. OneRow(hits, r, tier, limit) = hits
    BY <1>4, <2>1 DEF OneRow
  <2>3. more = done
    BY <1>6
  <2> QED
    BY <2>2, <2>3 DEF hits
<1>7. CASE Len(x) # limit /\ r \notin done
  <2> DEFINE y == Append(x, r)
  <2>1. r \notin Range(x) /\ done = Range(x)
    BY <1>1, <1>7
  <2>2. OneRow(hits, r, tier, limit) = Append(hits, Hit(r, tier))
    BY <1>1, <1>2, <1>3, <1>4, <1>7, <2>1 DEF OneRow
  <2>3. HitsOf(y, text) = Append(hits, Hit(r, tier))
    BY <1>1, <1>7, HitsOfOneMore DEF hits, IsNextTo
  <2>4. /\ y \in Seq(M) /\ Len(y) = Len(x) + 1 /\ y[Len(x) + 1] = r /\ DOMAIN y = 1 .. Len(x) + 1
        /\ \A i \in 1 .. Len(x) : y[i] = x[i]
    BY <1>1
  <2>5. \A z \in M : <<z, r>> \in R <=> z \in done
    BY <1>7 DEF R, IsNextTo
  <2> HIDE DEF y
  <2>6. Sorted(y, R)
    <3> SUFFICES ASSUME NEW i \in 1 .. Len(x) + 1, NEW j \in 1 .. Len(x) + 1, i < j
                 PROVE  <<y[i], y[j]>> \in R
      BY <2>4 DEF Sorted
    <3>1. i \in 1 .. Len(x) /\ y[i] = x[i]
      BY <1>3, <2>4
    <3>2. CASE j = Len(x) + 1
      <4>1. x[i] \in Range(x)
        BY <1>3, <3>1 DEF Range
      <4> QED
        BY <1>3, <2>1, <2>4, <2>5, <3>1, <3>2, <4>1
    <3>3. CASE j # Len(x) + 1
      <4>1. j \in 1 .. Len(x) /\ y[j] = x[j]
        BY <1>3, <2>4, <3>3
      <4> QED
        BY <1>1, <1>3, <3>1, <4>1 DEF Sorted
    <3> QED
      BY <3>2, <3>3
  <2>7. Range(y) = Range(x) \cup {r}
    <3>1. \A i \in 1 .. Len(x) + 1 : i \in 1 .. Len(x) \/ i = Len(x) + 1
      BY <1>3
    <3>2. \A i \in 1 .. Len(x) : i \in 1 .. Len(x) + 1
      BY <1>3
    <3>3. Len(x) + 1 \in 1 .. Len(x) + 1
      BY <1>3
    <3> QED
      BY <1>3, <2>4, <3>1, <3>2, <3>3 DEF Range
  <2>8. \A a \in Range(y), z \in M : <<z, a>> \in R => z \in Range(y)
    BY <1>1, <2>1, <2>5, <2>7
  <2>9. Len(y) <= limit
    <3>1. Len(x) \in Nat /\ limit \in Nat /\ Len(x) <= limit /\ Len(x) # limit /\ Len(y) = Len(x) + 1
      BY <1>1, <1>3, <1>7, <2>4
    <3> QED
      BY ONLY <3>1
  <2>10. Leads(y, M, text, limit, more)
    BY <2>1, <2>4, <2>6, <2>7, <2>8, <2>9 DEF Leads, R
  <2> QED
    BY <2>2, <2>3, <2>10 DEF hits
<1> QED
  BY <1>5, <1>6, <1>7

-----------------------------------------------------------------------------
(* The rows of one way to meet a text are taken after those that meet it in  *)
(* a better way.                                                             *)
Betters(M, text, t) == {r \in M : Best(r, text) < t}

UpToRow(q, n) == {q[k] : k \in 1 .. n}

AreOfTier(q, S, M, text, t) ==
  /\ S = {r \in M : Meets(r, text, Tiers[t])}
  /\ q \in Seq(S) /\ Range(q) = S /\ Sorted(q, TierOrder(S, text, Tiers[t]))

(* What comes before a row that none is better for are the better ones and   *)
(* the rows before it.                                                       *)
LEMMA BeforeTheRow ==
  ASSUME NEW M, NEW text, Ranked(M, text), NEW t \in 1 .. 4, NEW S, NEW q, AreOfTier(q, S, M, text, t),
         NEW k \in Nat, k < Len(q), NEW r, r = q[k + 1], r \notin Betters(M, text, t)
  PROVE  /\ r \in M /\ Best(r, text) = t
         /\ \A z \in M : <<z, r>> \in PlaceOrder(M, text) <=>
              z \in Betters(M, text, t) \cup UpToRow(q, k)
<1> DEFINE R == PlaceOrder(M, text)
           Q == TierOrder(S, text, Tiers[t])
<1>1. /\ S \subseteq M /\ (\A z \in M : z \in S <=> Meets(z, text, Tiers[t]))
      /\ Len(q) \in Nat /\ DOMAIN q = 1 .. Len(q) /\ (\A i \in 1 .. Len(q) : q[i] \in S)
      /\ Range(q) = S /\ Sorted(q, Q)
  BY DEF AreOfTier
<1>2. IsOrder(S, Q)
  <2>1. S \in SUBSET KnowledgeRecord /\ (\A a, b \in S : a.ref = b.ref => a = b)
        /\ \A a \in S : Bm25(a, text) \in Int
    BY <1>1 DEF Ranked
  <2> QED
    BY <2>1, TierOrders
<1>3. \A z \in M : /\ Best(z, text) \in 1 .. 4 /\ Meets(z, text, Tiers[Best(z, text)])
                   /\ Meets(z, text, Tiers[t]) => Best(z, text) <= t
  BY BestIs DEF Ranked
<1>4. k + 1 \in 1 .. Len(q) /\ r \in S /\ r \in M
  BY <1>1
<1>5. Best(r, text) = t
  <2>1. Best(r, text) <= t /\ Best(r, text) \in 1 .. 4
    BY <1>1, <1>3, <1>4
  <2>2. ~(Best(r, text) < t)
    BY <1>4 DEF Betters
  <2> QED
    BY <2>1, <2>2
<1>6. \A z \in M : <<z, r>> \in R <=>
        Best(z, text) < t \/ (Best(z, text) = t /\ <<z, r>> \in TierOrder(M, text, Tiers[t]))
  <2> TAKE z \in M
  <2>1. Before(Place(z, text), Place(r, text)) <=>
          \/ Best(z, text) < Best(r, text)
          \/ Best(z, text) = Best(r, text) /\ <<z, r>> \in TierOrder(M, text, Tiers[Best(z, text)])
    BY <1>4, PlacesAre
  <2>2. <<z, r>> \in R <=> Before(Place(z, text), Place(r, text))
    BY <1>4 DEF PlaceOrder
  <2> QED
    BY <1>5, <2>1, <2>2
<1>7. \A z \in S : <<z, r>> \in TierOrder(M, text, Tiers[t]) <=> <<z, r>> \in Q
  BY <1>1, <1>4 DEF TierOrder
<1> HIDE DEF R, Q
<1>8. ASSUME NEW z \in M, <<z, r>> \in R PROVE z \in Betters(M, text, t) \cup UpToRow(q, k)
  <2>1. CASE Best(z, text) < t
    BY <2>1 DEF Betters
  <2>2. CASE ~(Best(z, text) < t)
    <3>1. Best(z, text) = t /\ z \in S /\ <<z, r>> \in Q
      BY <1>1, <1>3, <1>6, <1>7, <1>8, <2>2
    <3>2. PICK j \in 1 .. Len(q) : q[j] = z
      BY <1>1, <3>1 DEF Range
    <3>3. j # k + 1
      BY <1>2, <1>4, <3>1, <3>2 DEF IsOrder
    <3>4. ~(k + 1 < j)
      <4> SUFFICES ASSUME k + 1 < j PROVE FALSE
        OBVIOUS
      <4>1. <<r, z>> \in Q
        BY <1>1, <1>4, <3>2 DEF Sorted
      <4> QED
        BY <1>2, <1>4, <3>1, <4>1 DEF IsOrder
    <3>5. j \in 1 .. k
      BY <1>1, <3>2, <3>3, <3>4
    <3> QED
      BY <3>2, <3>5 DEF UpToRow
  <2> QED
    BY <2>1, <2>2
<1>9. ASSUME NEW z \in M, z \in Betters(M, text, t) \cup UpToRow(q, k) PROVE <<z, r>> \in R
  <2>1. CASE z \in Betters(M, text, t)
    BY <1>6, <2>1 DEF Betters
  <2>2. CASE z \in UpToRow(q, k)
    <3>1. PICK j \in 1 .. k : q[j] = z
      BY <2>2 DEF UpToRow
    <3>2. j \in 1 .. Len(q) /\ j < k + 1
      BY <1>1, <1>4
    <3>3. z \in S /\ <<z, r>> \in Q
      BY <1>1, <1>4, <3>1, <3>2 DEF Sorted
    <3>4. Best(z, text) <= t /\ Best(z, text) \in 1 .. 4
      BY <1>1, <1>3, <3>3
    <3>5. Best(z, text) < t \/ Best(z, text) = t
      BY <3>4
    <3> QED
      BY <1>6, <1>7, <3>3, <3>5
  <2> QED
    BY <1>9, <2>1, <2>2
<1> QED
  BY <1>4, <1>5, <1>8, <1>9 DEF R

IsUpToRow(done, M, text, t, q, n) == done = Betters(M, text, t) \cup UpToRow(q, n)

LEMMA TierIsAppended ==
  ASSUME NEW M, NEW text, Ranked(M, text), NEW limit \in Nat, NEW t \in 1 .. 4, NEW S, NEW q,
         AreOfTier(q, S, M, text, t), NEW n \in Nat, n <= Len(q), NEW rows, Len(rows) = n,
         DOMAIN rows = 1 .. n, \A k \in 1 .. n : rows[k] = q[k],
         NEW done, IsUpToRow(done, M, text, t, q, n),
         NEW x, Leads(x, M, text, limit, Betters(M, text, t))
  PROVE  \E y : /\ Leads(y, M, text, limit, done)
                /\ HitsOf(y, text) = AppendRows(HitsOf(x, text), rows, Tiers[t], limit)
<1> DEFINE tier == Tiers[t]
           H == HitsIn(M)
           Done(k) == Betters(M, text, t) \cup UpToRow(q, k)
<1>1. /\ S \subseteq M /\ Len(q) \in Nat /\ \A i \in 1 .. Len(q) : q[i] \in S
  BY DEF AreOfTier
<1>2. \A k \in 1 .. n : rows[k] \in M
  BY <1>1
<1>3. HitsOf(x, text) \in Seq(H)
  BY HitsAre DEF Leads
<1>4. \A k \in DOMAIN rows : Hit(rows[k], tier) \in H
  BY <1>2 DEF HitsIn
<1>5. PICK hits : hits = HitsOf(x, text)
  OBVIOUS
<1> HIDE DEF H, tier
<1>6. PICK h : RowsBy(h, hits, rows, tier, limit)
  BY <1>3, <1>4, <1>5, RowsAreAppended
<1>7. /\ h[0] = hits /\ h[n] = AppendRows(hits, rows, tier, limit)
      /\ \A k \in 1 .. n : h[k] = OneRow(h[k - 1], rows[k], tier, limit)
  BY <1>6 DEF RowsBy
<1> DEFINE Did(k) == \E y : Leads(y, M, text, limit, Done(k)) /\ HitsOf(y, text) = h[k]
           T == {k \in Nat : k <= n => Did(k)}
<1>8. 0 \in T
  <2>1. UpToRow(q, 0) = {}
    <3>1. 1 .. 0 = {}
      OBVIOUS
    <3> QED
      BY <3>1 DEF UpToRow
  <2>2. Done(0) = Betters(M, text, t)
    BY <2>1
  <2>3. HitsOf(x, text) = h[0]
    BY <1>5, <1>7
  <2>4. Did(0)
    BY <2>2, <2>3
  <2> QED
    BY <2>4
<1>9. ASSUME NEW k \in Nat, k \in T PROVE k + 1 \in T
  <2> HIDE DEF Did
  <2> SUFFICES ASSUME k + 1 <= n PROVE Did(k + 1)
    OBVIOUS
  <2>10. Did(k)
    BY <1>9
  <2>1. PICK y : Leads(y, M, text, limit, Done(k)) /\ HitsOf(y, text) = h[k]
    BY <2>10 DEF Did
  <2>2. PICK now, r : now = Done(k) /\ r = q[k + 1]
    OBVIOUS
  <2>3. k < Len(q) /\ k + 1 \in 1 .. n /\ (k + 1) - 1 = k /\ rows[k + 1] = r /\ r \in M
    BY <1>1, <2>2
  <2>4. h[k + 1] = OneRow(h[k], r, tier, limit)
    BY <1>7, <2>3
  <2>5. now \in SUBSET M
    <3>1. \A i \in 1 .. k : q[i] \in M
      BY <1>1, <2>3
    <3> QED
      BY <2>2, <3>1 DEF Betters, UpToRow
  <2>6. r \in now \/ IsNextTo(r, M, text, now, tier)
    <3> SUFFICES ASSUME r \notin now PROVE IsNextTo(r, M, text, now, tier)
      OBVIOUS
    <3>1. r \notin Betters(M, text, t)
      BY <2>2
    <3>2. Best(r, text) = t /\ \A z \in M : <<z, r>> \in PlaceOrder(M, text) <=> z \in now
      BY <2>2, <2>3, <3>1, BeforeTheRow
    <3> QED
      BY <3>2 DEF tier, IsNextTo
  <2>7. Leads(y, M, text, limit, now)
    BY <2>1, <2>2
  <2>9. now \cup {r} = Done(k + 1)
    <3>1. \A i : i \in 1 .. k + 1 <=> i \in 1 .. k \/ i = k + 1
      OBVIOUS
    <3>2. UpToRow(q, k + 1) = UpToRow(q, k) \cup {r}
      BY <2>2, <3>1 DEF UpToRow
    <3> QED
      BY <2>2, <3>2
  <2>11. PICK more : more = Done(k + 1)
    OBVIOUS
  <2>12. HasOneMore(more, now, r)
    BY <2>9, <2>11 DEF HasOneMore
  <2> HIDE DEF Done
  <2>13. PICK place : place = tier
    OBVIOUS
  <2>14. r \in now \/ IsNextTo(r, M, text, now, place)
    BY <2>6, <2>13
  <2>15. r \in M
    BY <2>3
  <2> HIDE DEF tier
  <2>16. \E w : /\ Leads(w, M, text, limit, more)
               /\ HitsOf(w, text) = OneRow(HitsOf(y, text), r, place, limit)
    BY ONLY Ranked(M, text), limit \in Nat, <2>5, <2>7, <2>12, <2>14, <2>15, RowIsTaken
  <2>8. PICK w : Leads(w, M, text, limit, more)
                 /\ HitsOf(w, text) = OneRow(HitsOf(y, text), r, tier, limit)
    BY <2>13, <2>16
  <2> QED
    BY <2>1, <2>4, <2>8, <2>11 DEF Did
<1>10. n \in T
  <2> HIDE DEF T
  <2> QED
    BY <1>8, <1>9, Induction
<1>11. Did(n)
  <2> HIDE DEF Did
  <2> QED
    BY <1>10
<1> QED
  BY <1>5, <1>7, <1>11 DEF tier, IsUpToRow

-----------------------------------------------------------------------------
(* Rows in an order are as many as they are: so many different hits.         *)
LEMMA RowsFit ==
  ASSUME NEW S, NEW Q, IsOrder(S, Q), NEW q \in Seq(S), Sorted(q, Q), NEW n \in Nat, n <= Len(q),
         NEW M, NEW y \in Seq(M), UpToRow(q, n) \subseteq Range(y)
  PROVE  n <= Len(y)
<1> DEFINE f == [i \in 1 .. n |-> CHOOSE j \in 1 .. Len(y) : y[j] = q[i]]
<1>1. /\ Len(q) \in Nat /\ DOMAIN q = 1 .. Len(q) /\ (\A i \in 1 .. Len(q) : q[i] \in S)
      /\ Len(y) \in Nat /\ DOMAIN y = 1 .. Len(y)
      /\ \A i \in 1 .. n : i \in 1 .. Len(q)
  OBVIOUS
<1>2. ASSUME NEW i \in 1 .. n PROVE f[i] \in 1 .. Len(y) /\ y[f[i]] = q[i]
  <2>1. q[i] \in Range(y)
    BY DEF UpToRow
  <2>2. \E j \in 1 .. Len(y) : y[j] = q[i]
    BY <1>1, <2>1 DEF Range
  <2> QED
    BY <2>2
<1>3. f \in [1 .. n -> 1 .. Len(y)]
  BY <1>2
<1> HIDE DEF f
<1>4. ASSUME NEW i \in 1 .. n, NEW j \in 1 .. n, f[i] = f[j] PROVE i = j
  <2>1. q[i] = q[j] /\ q[i] \in S
    BY <1>1, <1>2, <1>4
  <2>2. <<q[i], q[j]>> \notin Q /\ <<q[j], q[i]>> \notin Q
    BY <2>1 DEF IsOrder
  <2>3. ~(i < j) /\ ~(j < i)
    BY <1>1, <2>2 DEF Sorted
  <2> QED
    BY <2>3
<1>5. f \in Injection(1 .. n, 1 .. Len(y))
  BY <1>3, <1>4 DEF Injection, IsInjective
<1>6. /\ IsFiniteSet(1 .. n) /\ Cardinality(1 .. n) = n
      /\ IsFiniteSet(1 .. Len(y)) /\ Cardinality(1 .. Len(y)) = Len(y)
  <2>1. ASSUME NEW m \in Nat PROVE IsFiniteSet(1 .. m) /\ Cardinality(1 .. m) = m
    BY FS_Interval
  <2> QED
    BY <1>1, <2>1
<1>7. Cardinality(1 .. n) <= Cardinality(1 .. Len(y))
  BY <1>5, <1>6, FS_Injection
<1> QED
  BY <1>6, <1>7

-----------------------------------------------------------------------------
(* One way to meet a text after the other.                                   *)
RowsOf(found, text, kinds, limit, tier) ==
  IF tier = "full_text" THEN First(InTier(found, text, kinds, tier), limit)
  ELSE InTier(found, text, kinds, tier)

LEMMA FirstIs ==
  ASSUME NEW S, NEW q \in Seq(S), NEW n \in Nat, NEW rows, rows = First(q, n)
  PROVE  /\ rows \in Seq(S) /\ Len(rows) \in Nat /\ DOMAIN rows = 1 .. Len(rows)
         /\ Len(rows) = (IF n < Len(q) THEN n ELSE Len(q))
         /\ \A i \in 1 .. Len(rows) : rows[i] = q[i]
BY DEF First

LEMMA TierIsDone ==
  ASSUME NEW M, NEW text, Ranked(M, text), NEW limit \in Nat, NEW t \in 1 .. 4, NEW S, NEW q,
         AreOfTier(q, S, M, text, t), NEW rows,
         rows = IF Tiers[t] = "full_text" THEN First(q, limit) ELSE q,
         NEW x, Leads(x, M, text, limit, Betters(M, text, t))
  PROVE  \E y : /\ Leads(y, M, text, limit, Betters(M, text, t + 1))
                /\ HitsOf(y, text) = AppendRows(HitsOf(x, text), rows, Tiers[t], limit)
<1> DEFINE n == Len(rows)
           done == Betters(M, text, t) \cup UpToRow(q, n)
           after == Betters(M, text, t + 1)
<1>1. /\ q \in Seq(S) /\ Range(q) = S /\ Sorted(q, TierOrder(S, text, Tiers[t]))
      /\ S \subseteq M /\ (\A z \in M : z \in S <=> Meets(z, text, Tiers[t]))
      /\ Len(q) \in Nat /\ DOMAIN q = 1 .. Len(q) /\ (\A i \in 1 .. Len(q) : q[i] \in S)
  BY DEF AreOfTier
<1>2. /\ n \in Nat /\ DOMAIN rows = 1 .. n /\ (\A i \in 1 .. n : rows[i] = q[i]) /\ n <= Len(q)
      /\ n = Len(q) \/ (n = limit /\ t = 4)
  <2>1. CASE Tiers[t] = "full_text"
    <3>1. rows = First(q, limit) /\ t = 4
      BY <2>1, TiersAre
    <3>2. /\ Len(rows) \in Nat /\ DOMAIN rows = 1 .. Len(rows)
          /\ Len(rows) = (IF limit < Len(q) THEN limit ELSE Len(q))
          /\ \A i \in 1 .. Len(rows) : rows[i] = q[i]
      BY <1>1, <3>1, FirstIs
    <3> QED
      BY <1>1, <3>1, <3>2
  <2>2. CASE Tiers[t] # "full_text"
    <3>1. rows = q /\ n = Len(q)
      BY <2>2
    <3> HIDE DEF n
    <3> QED
      BY ONLY <1>1, <3>1
  <2> QED
    BY <2>1, <2>2
<1> HIDE DEF n
<1>3. PICK y : Leads(y, M, text, limit, done)
               /\ HitsOf(y, text) = AppendRows(HitsOf(x, text), rows, Tiers[t], limit)
  <2>1. Len(rows) = n /\ IsUpToRow(done, M, text, t, q, n)
    BY DEF n, IsUpToRow
  <2> HIDE DEF done, after
  <2> QED
    BY <1>2, <2>1, TierIsAppended
<1>4. \A z \in M : /\ Best(z, text) \in 1 .. 4 /\ Meets(z, text, Tiers[Best(z, text)])
                   /\ Meets(z, text, Tiers[t]) => Best(z, text) <= t
  BY BestIs DEF Ranked
<1>5. UpToRow(q, n) \subseteq S
  <2>1. ASSUME NEW i \in 1 .. n PROVE q[i] \in S
    <3>1. n \in Nat /\ Len(q) \in Nat /\ n <= Len(q)
      BY <1>1, <1>2
    <3>2. i \in 1 .. Len(q)
      BY ONLY <3>1, i \in 1 .. n
    <3> QED
      BY <1>1, <3>2
  <2> QED
    BY <2>1 DEF UpToRow
<1>6. done \subseteq after
  <2>1. ASSUME NEW z \in S PROVE z \in after
    <3>1. z \in M /\ Best(z, text) \in 1 .. 4 /\ Best(z, text) <= t
      BY <1>1, <1>4
    <3> QED
      BY <3>1 DEF Betters
  <2>2. ASSUME NEW z \in Betters(M, text, t) PROVE z \in after
    <3>1. z \in M /\ Best(z, text) \in 1 .. 4 /\ Best(z, text) < t
      BY <1>4 DEF Betters
    <3> QED
      BY <3>1 DEF Betters
  <2> QED
    BY <1>5, <2>1, <2>2
<1>7. CASE n = Len(q)
  <2>1. UpToRow(q, n) = S
    BY <1>1, <1>7 DEF UpToRow, Range
  <2>2. ASSUME NEW z \in after PROVE z \in done
    <3>1. z \in M /\ Best(z, text) \in 1 .. 4 /\ Best(z, text) < t + 1
          /\ Meets(z, text, Tiers[Best(z, text)])
      BY <1>4 DEF Betters
    <3>2. CASE Best(z, text) = t
      BY <1>1, <2>1, <3>1, <3>2
    <3>3. CASE Best(z, text) # t
      <4>1. Best(z, text) < t
        BY <3>1, <3>3
      <4> QED
        BY <3>1, <4>1 DEF Betters
    <3> QED
      BY <3>2, <3>3
  <2>3. done = after
    BY <1>6, <2>2
  <2> QED
    BY <1>3, <2>3
<1>8. CASE n = limit
  <2>1. /\ y \in Seq(M) /\ Sorted(y, PlaceOrder(M, text)) /\ Len(y) <= limit
        /\ Range(y) \subseteq done
        /\ Len(y) = limit \/ done \subseteq Range(y)
        /\ \A a \in Range(y), z \in M : <<z, a>> \in PlaceOrder(M, text) => z \in Range(y)
    BY <1>3 DEF Leads
  <2>2. Len(y) = limit
    <3> SUFFICES ASSUME done \subseteq Range(y) PROVE Len(y) = limit
      BY <2>1
    <3>1. IsOrder(S, TierOrder(S, text, Tiers[t]))
      <4>1. S \in SUBSET KnowledgeRecord /\ (\A a, b \in S : a.ref = b.ref => a = b)
            /\ \A a \in S : Bm25(a, text) \in Int
        BY <1>1 DEF Ranked
      <4> QED
        BY <4>1, TierOrders
    <3>2. UpToRow(q, n) \subseteq Range(y)
      OBVIOUS
    <3>3. n <= Len(y)
      BY <1>1, <1>2, <2>1, <3>1, <3>2, RowsFit
    <3>4. Len(y) \in Nat /\ Len(y) <= limit /\ limit <= Len(y)
      BY <1>8, <2>1, <3>3
    <3> QED
      BY ONLY <3>4, limit \in Nat
  <2>3. Leads(y, M, text, limit, after)
    BY <1>6, <2>1, <2>2 DEF Leads
  <2> QED
    BY <1>3, <2>3
<1> QED
  BY <1>2, <1>7, <1>8

-----------------------------------------------------------------------------
(* A search goes over the ways to meet a text one by one.                    *)
Meeting(found, text, kinds) ==
  {r \in Range(found.records) :
     (kinds = {} \/ r.kind \in kinds) /\ \E t \in Range(Tiers) : Meets(r, text, t)}

Searches(h, found, text, limit, kinds) ==
  /\ h[0] = <<>> /\ h[4] = Search(found, text, limit, kinds)
  /\ \A t \in 1 .. 4 :
       h[t] = AppendRows(h[t - 1], RowsOf(found, text, kinds, limit, Tiers[t]), Tiers[t], limit)

LEMMA SearchGoesOn ==
  ASSUME NEW found, NEW text, NEW kinds, NEW limit \in Nat, NEW H,
         \A t \in 1 .. 4 :
           /\ Len(RowsOf(found, text, kinds, limit, Tiers[t])) \in Nat
           /\ DOMAIN RowsOf(found, text, kinds, limit, Tiers[t])
                = 1 .. Len(RowsOf(found, text, kinds, limit, Tiers[t]))
           /\ \A k \in DOMAIN RowsOf(found, text, kinds, limit, Tiers[t]) :
                Hit(RowsOf(found, text, kinds, limit, Tiers[t])[k], Tiers[t]) \in H
  PROVE  \E h : Searches(h, found, text, limit, kinds)
<1> DEFINE n == 4
           V == Seq(H)
           base == <<>>
           One(hits, tier) ==
             AppendRows(hits, IF tier = "full_text"
                              THEN First(InTier(found, text, kinds, tier), FullTextLimit(limit, hits))
                              ELSE InTier(found, text, kinds, tier), tier, limit)
           Folds(iter) == iter = [d \in SUBSET (1 .. n) |->
             IF d = {} THEN base ELSE One(iter[d \ {Max(d)}], Tiers[Max(d)])]
           iter == CHOOSE g : Folds(g)
           step == [p \in (1 .. n) \X V |-> One(p[2], Tiers[p[1]])]
<1>1. n \in Nat /\ DOMAIN Tiers = 1 .. n /\ base \in V
  BY TiersAre
<1>2. Search(found, text, limit, kinds) = iter[1 .. n]
  <2> HIDE DEF n
  <2> QED
    BY <1>1 DEF Search, FoldLeft, MapThenFoldSet
<1>3. ASSUME NEW hits \in V, NEW t \in 1 .. n
      PROVE  /\ One(hits, Tiers[t])
                  = AppendRows(hits, RowsOf(found, text, kinds, limit, Tiers[t]), Tiers[t], limit)
             /\ One(hits, Tiers[t]) \in V
  <2>1. Len(hits) \in Nat /\ FullTextLimit(limit, hits) = limit
    BY DEF FullTextLimit
  <2>2. PICK rows, tier : tier = Tiers[t] /\ rows = RowsOf(found, text, kinds, limit, tier)
    OBVIOUS
  <2>3. One(hits, tier) = AppendRows(hits, rows, tier, limit)
    BY <2>1, <2>2 DEF RowsOf
  <2>4. /\ Len(rows) \in Nat /\ DOMAIN rows = 1 .. Len(rows)
        /\ \A k \in DOMAIN rows : Hit(rows[k], tier) \in H
    BY <2>2
  <2>5. AppendRows(hits, rows, tier, limit) \in Seq(H)
    BY <2>4, AppendedAreHits
  <2> QED
    BY <2>2, <2>3, <2>5
<1> HIDE DEF n, One, base, V
<1>4. step \in [(1 .. n) \X V -> V]
  <2>1. ASSUME NEW p \in (1 .. n) \X V PROVE One(p[2], Tiers[p[1]]) \in V
    <3>1. p[2] \in V /\ p[1] \in 1 .. n
      OBVIOUS
    <3>2. PICK v, t : v = p[2] /\ t = p[1]
      OBVIOUS
    <3>3. One(v, Tiers[t]) \in V
      BY <1>3, <3>1, <3>2
    <3> QED
      BY <3>2, <3>3
  <2> QED
    BY <2>1
<1>5. PICK g \in [SUBSET (1 .. n) -> V] : FoldsWith(g, n, base, step)
  <2> HIDE DEF step
  <2> QED
    BY <1>1, <1>4, FoldExists
<1>6. Folds(g)
  <2>1. ASSUME NEW d \in SUBSET (1 .. n)
        PROVE  g[d] = IF d = {} THEN base ELSE One(g[d \ {Max(d)}], Tiers[Max(d)])
    <3>1. CASE d = {}
      BY <1>5, <3>1 DEF FoldsWith
    <3>2. CASE d # {}
      <4> DEFINE x == Max(d)
                 rest == d \ {x}
      <4>1. x \in 1 .. n
        BY <1>1, <3>2, MaxOfSome
      <4>2. g[d] = step[<<x, g[rest]>>]
        BY <1>5, <3>2 DEF FoldsWith
      <4>3. g[rest] \in V
        <5>1. rest \in SUBSET (1 .. n)
          OBVIOUS
        <5> HIDE DEF rest
        <5> QED
          BY <5>1
      <4> HIDE DEF x, rest
      <4>4. g[d] = One(g[rest], Tiers[x])
        BY <4>1, <4>2, <4>3
      <4> QED
        BY <3>2, <4>4 DEF x, rest
    <3> QED
      BY <3>1, <3>2
  <2>2. g = [d \in SUBSET (1 .. n) |-> g[d]]
    OBVIOUS
  <2> QED
    BY <2>1, <2>2, Zenon
<1>7. Folds(iter)
  <2> HIDE DEF Folds
  <2> QED
    BY <1>6
<1>8. \A d \in SUBSET (1 .. n) :
        iter[d] = IF d = {} THEN base ELSE One(iter[d \ {Max(d)}], Tiers[Max(d)])
  <2> HIDE DEF iter
  <2>1. iter = [d \in SUBSET (1 .. n) |->
                  IF d = {} THEN base ELSE One(iter[d \ {Max(d)}], Tiers[Max(d)])]
    BY <1>7
  <2> HIDE DEF Folds
  <2> QED
    BY <2>1
<1> HIDE DEF iter
<1>9. iter[{}] = base
  BY <1>8
<1>10. ASSUME NEW d \in SUBSET (1 .. n), d # {}, iter[d \ {Max(d)}] \in V
       PROVE  iter[d] = step[<<Max(d), iter[d \ {Max(d)}]>>]
  <2>1. Max(d) \in 1 .. n
    BY <1>1, <1>10, MaxOfSome
  <2>2. PICK x, v : x = Max(d) /\ v = iter[d \ {Max(d)}]
    OBVIOUS
  <2>3. step[<<x, v>>] = One(v, Tiers[x])
    BY <1>10, <2>1, <2>2
  <2> QED
    BY <1>8, <1>10, <2>2, <2>3
<1>11. PICK h \in [0 .. n -> V] : h[0] = base /\ EndsAt(h, n, iter) /\ GoesBy(h, n, step)
  <2> HIDE DEF step
  <2>1. FoldsBy(iter, n, V, step)
    BY <1>10 DEF FoldsBy
  <2>2. n \in Nat /\ base \in V
    BY <1>1
  <2> QED
    BY ONLY <1>4, <1>9, <2>1, <2>2, FoldUnrolls
<1>12. ASSUME NEW t \in 1 .. n
       PROVE  h[t] = AppendRows(h[t - 1], RowsOf(found, text, kinds, limit, Tiers[t]), Tiers[t], limit)
  <2>1. t - 1 \in 0 .. n
    BY <1>1
  <2>2. PICK v : v = h[t - 1]
    OBVIOUS
  <2>3. v \in V /\ h[t] = step[<<t, v>>]
    BY <1>11, <2>1, <2>2 DEF GoesBy
  <2>4. h[t] = One(v, Tiers[t])
    BY <2>3
  <2> QED
    BY <1>3, <2>2, <2>3, <2>4
<1>13. h[n] = Search(found, text, limit, kinds)
  BY <1>2, <1>11 DEF EndsAt
<1> QED
  BY <1>11, <1>12, <1>13 DEF n, base, Searches

-----------------------------------------------------------------------------
(* What a search finds among records of different refs.                      *)
MeetingIs(M, found, text, kinds) == M = Meeting(found, text, kinds)

LEMMA TierRows ==
  ASSUME NEW found, NEW text, NEW kinds, NEW M, MeetingIs(M, found, text, kinds), Ranked(M, text),
         NEW t \in 1 .. 4, NEW limit \in Nat
  PROVE  /\ AreOfTier(InTier(found, text, kinds, Tiers[t]), Selected(found, text, kinds, Tiers[t]),
                      M, text, t)
         /\ RowsOf(found, text, kinds, limit, Tiers[t])
              \in Seq(Selected(found, text, kinds, Tiers[t]))
         /\ Selected(found, text, kinds, Tiers[t]) \subseteq M
<1> DEFINE tier == Tiers[t]
           S == Selected(found, text, kinds, tier)
           q == InTier(found, text, kinds, tier)
<1>1. S = {r \in M : Meets(r, text, tier)}
  <2>1. tier \in Range(Tiers)
    BY TiersAre DEF Range
  <2> HIDE DEF tier
  <2> QED
    BY <2>1 DEF Selected, MeetingIs, Meeting
<1>2. /\ S \in SUBSET KnowledgeRecord /\ IsFiniteSet(S)
      /\ (\A r, s \in S : r.ref = s.ref => r = s) /\ \A r \in S : Bm25(r, text) \in Int
  <2>1. S \in SUBSET M
    BY <1>1
  <2>2. IsFiniteSet(S)
    BY <2>1, FS_Subset DEF Ranked
  <2> HIDE DEF S
  <2> QED
    BY <2>1, <2>2 DEF Ranked
<1> HIDE DEF tier
<1>3. q \in Seq(S) /\ Range(q) = S /\ Sorted(q, TierOrder(S, text, tier))
  <2>1. PICK T : T = Selected(found, text, kinds, tier)
    OBVIOUS
  <2> QED
    BY <1>2, <2>1, TierIsSorted
<1>4. AreOfTier(q, S, M, text, t)
  BY <1>1, <1>3 DEF AreOfTier, tier
<1>5. RowsOf(found, text, kinds, limit, tier) \in Seq(S)
  <2> HIDE DEF q, S
  <2>1. First(q, limit) \in Seq(S)
    BY <1>3, FirstIs
  <2> QED
    BY <1>3, <2>1 DEF RowsOf, q
<1> QED
  BY <1>1, <1>4, <1>5 DEF tier

LEMMA SearchFinds ==
  ASSUME NEW found, NEW text, NEW kinds, NEW limit \in Nat, NEW M,
         MeetingIs(M, found, text, kinds), Ranked(M, text)
  PROVE  \E x : Leads(x, M, text, limit, M) /\ HitsOf(x, text) = Search(found, text, limit, kinds)
<1> DEFINE H == HitsIn(M)
           Asked(t) == RowsOf(found, text, kinds, limit, Tiers[t])
<1>1. ASSUME NEW t \in 1 .. 4
      PROVE  /\ Len(Asked(t)) \in Nat /\ DOMAIN Asked(t) = 1 .. Len(Asked(t))
             /\ \A k \in DOMAIN Asked(t) : Hit(Asked(t)[k], Tiers[t]) \in H
  <2>1. PICK S, rows : S = Selected(found, text, kinds, Tiers[t]) /\ rows = Asked(t)
    OBVIOUS
  <2>2. rows \in Seq(S) /\ S \subseteq M
    BY <2>1, TierRows
  <2>3. Len(rows) \in Nat /\ DOMAIN rows = 1 .. Len(rows) /\ \A k \in DOMAIN rows : rows[k] \in M
    BY <2>2
  <2>4. \A k \in DOMAIN rows : Hit(rows[k], Tiers[t]) \in H
    BY <2>3 DEF HitsIn
  <2> HIDE DEF H
  <2> QED
    BY <2>1, <2>3, <2>4
<1>2. PICK h : Searches(h, found, text, limit, kinds)
  <2> HIDE DEF H
  <2> QED
    BY <1>1, SearchGoesOn
<1> DEFINE Done(t) == \E x : /\ Leads(x, M, text, limit, Betters(M, text, t + 1))
                             /\ HitsOf(x, text) = h[t]
<1>3. Done(0)
  <2>1. Betters(M, text, 1) = {}
    BY BestIs DEF Betters, Ranked
  <2>2. PICK x : x = <<>>
    OBVIOUS
  <2>3. x \in Seq(M) /\ Len(x) = 0 /\ DOMAIN x = {} /\ Range(x) = {}
    BY <2>2 DEF Range
  <2>4. Leads(x, M, text, limit, {})
    BY <2>3 DEF Leads, Sorted
  <2>5. HitsOf(x, text) = <<>>
    <3>1. HitsOf(x, text) \in Seq(HitsIn(M)) /\ Len(HitsOf(x, text)) = 0
      BY <2>3, HitsAre
    <3> QED
      BY <3>1
  <2>6. 0 + 1 = 1 /\ h[0] = <<>>
    BY <1>2 DEF Searches
  <2> QED
    BY <2>1, <2>4, <2>5, <2>6
<1>4. ASSUME NEW t \in 1 .. 4, Done(t - 1) PROVE Done(t)
  <2>1. PICK x : Leads(x, M, text, limit, Betters(M, text, t)) /\ HitsOf(x, text) = h[t - 1]
    <3>1. (t - 1) + 1 = t
      OBVIOUS
    <3> QED
      BY <1>4, <3>1
  <2>2. PICK S, q, rows : /\ S = Selected(found, text, kinds, Tiers[t])
                          /\ q = InTier(found, text, kinds, Tiers[t])
                          /\ rows = Asked(t)
    OBVIOUS
  <2>3. AreOfTier(q, S, M, text, t)
    BY <2>2, TierRows
  <2>4. rows = IF Tiers[t] = "full_text" THEN First(q, limit) ELSE q
    BY <2>2 DEF RowsOf
  <2>5. PICK y : /\ Leads(y, M, text, limit, Betters(M, text, t + 1))
                 /\ HitsOf(y, text) = AppendRows(HitsOf(x, text), rows, Tiers[t], limit)
    BY <2>1, <2>3, <2>4, TierIsDone
  <2>6. h[t] = AppendRows(h[t - 1], rows, Tiers[t], limit)
    BY <1>2, <2>2 DEF Searches
  <2> QED
    BY <2>1, <2>5, <2>6
<1> HIDE DEF Done
<1>5. Done(1)
  BY <1>3, <1>4
<1>6. Done(2)
  BY <1>4, <1>5
<1>7. Done(3)
  BY <1>4, <1>6
<1>8. Done(4)
  BY <1>4, <1>7
<1>9. PICK x : Leads(x, M, text, limit, Betters(M, text, 5)) /\ HitsOf(x, text) = h[4]
  BY <1>8 DEF Done
<1>10. Betters(M, text, 5) = M
  BY BestIs DEF Betters, Ranked
<1> QED
  BY <1>2, <1>9, <1>10 DEF Searches

LEMMA LeadsIsFirst ==
  ASSUME NEW M, NEW text, Ranked(M, text), NEW limit \in Nat, NEW x, Leads(x, M, text, limit, M)
  PROVE  x = First(InPlaces(M, text), limit)
<1> DEFINE R == PlaceOrder(M, text)
           all == InPlaces(M, text)
           first == First(all, limit)
<1>1. IsOrder(M, R) /\ all \in Seq(M) /\ Range(all) = M /\ Sorted(all, R)
  BY PlacesOrder, PlacesAreSorted
<1>2. /\ x \in Seq(M) /\ Sorted(x, R) /\ Len(x) <= limit /\ Range(x) \subseteq M
      /\ Len(x) = limit \/ M \subseteq Range(x)
      /\ \A y \in Range(x), z \in M : <<z, y>> \in R => z \in Range(x)
  BY DEF Leads
<1> HIDE DEF R, all, first
<1>3. Len(x) <= Len(all) /\ \A i \in 1 .. Len(x) : x[i] = all[i]
  BY <1>1, <1>2, SortedPrefix
<1>4. /\ first \in Seq(M) /\ Len(first) = (IF limit < Len(all) THEN limit ELSE Len(all))
      /\ \A i \in 1 .. Len(first) : first[i] = all[i]
  BY <1>1, FirstIs DEF first
<1>5. Len(x) \in Nat /\ Len(all) \in Nat
  BY <1>1, <1>2
<1>6. Len(x) = Len(first)
  <2>1. CASE Len(x) = limit
    BY <1>3, <1>4, <1>5, <2>1
  <2>2. CASE M \subseteq Range(x)
    <3>1. x = all
      <4>1. Range(x) = Range(all)
        BY <1>1, <1>2, <2>2
      <4> QED
        BY <1>1, <1>2, <4>1, SortedIsOne
    <3>2. Len(all) <= limit
      BY <1>2, <3>1
    <3> QED
      BY <1>4, <1>5, <3>1, <3>2
  <2> QED
    BY <1>2, <2>1, <2>2
<1>7. \A i \in 1 .. Len(x) : x[i] = first[i]
  BY <1>3, <1>4, <1>6
<1>8. x = first
  BY <1>2, <1>4, <1>6, <1>7, SeqEqual
<1> QED
  BY <1>8 DEF first, all

-----------------------------------------------------------------------------
(* The score of a record is a number, as the rank of SQLite is.              *)
ScoresAreNumbers == \A r \in KnowledgeRecord, text \in Queries : Bm25(r, text) \in Int

(* The search answers with the first of all records that meet the text, in   *)
(* any way, each once and by the best way it does, although it looks for one *)
(* way after the other and for a limited number (KnowledgeIndex.search).     *)
THEOREM SearchesFindTheFirst == ScoresAreNumbers /\ Spec => []SearchIsComplete
<1> DEFINE Inv == /\ WorldInv /\ ProgressInv /\ CuratedInv /\ KnowledgeInv
                  /\ ScoresAreNumbers
<1>1. ScoresAreNumbers /\ Init => Inv
  <2>1. Init => KnowledgeInv
    BY IdleFields DEF Init, KnowledgeInv
  <2> QED
    BY <2>1, WorldInvInit, ProgressInit, CuratedInvInit
<1>2. Inv /\ [Next]_vars => Inv'
  BY WorldInvStep, ProgressInvStep, CuratedInvStep, KnowledgeInvStep DEF WorldInv, ScoresAreNumbers
<1> DEFINE Finds(projection, text, limit, kinds) ==
             LET found == Index(projection, <<>>, {})
                 meeting == {r \in Range(found.records) :
                               /\ kinds = {} \/ r.kind \in kinds
                               /\ \E t \in Range(Tiers) : Meets(r, text, t)}
                 first == First(Ordered(meeting, LAMBDA r, s : Before(Place(r, text), Place(s, text))),
                                limit)
             IN Search(found, text, limit, kinds) =
                  [i \in DOMAIN first |-> Hit(first[i], Tiers[Best(first[i], text)])]
<1>3. ASSUME Inv, NEW projection \in Completed, NEW text \in Queries, NEW limit \in 1 .. 3,
             NEW kinds \in KindFilters
      PROVE  Finds(projection, text, limit, kinds)
  <2> PICK found : found = Index(projection, <<>>, {})
    OBVIOUS
  <2> PICK M : M = Meeting(found, text, kinds)
    OBVIOUS
  <2>1. AreListed(projection)
    <3>1. /\ rebuild.pc = "knowledge" /\ rebuild.want = <<>>
          /\ projection = Projected(rebuild.got) /\ projection # Refused
      BY DEF Completed
    <3> QED
      BY <1>3, <3>1, ReadIsComplete, SayingsAreAnswered
  <2>2. found.records = projection
    BY DEF Index
  <2>3. Ranked(M, text)
    <3>1. M \subseteq Range(projection)
      BY <2>2 DEF Meeting
    <3>2. /\ projection \in Seq(KnowledgeRecord) /\ Range(projection) \subseteq KnowledgeRecord
          /\ \A i, j \in DOMAIN projection : i < j => Before(projection[i].ref, projection[j].ref)
      BY <2>1 DEF AreListed, Range
    <3>3. IsFiniteSet(Range(projection))
      <4>1. DOMAIN projection = 1 .. Len(projection) /\ Len(projection) \in Nat
        BY <3>2
      <4>2. projection \in Seq(Range(projection))
        BY <3>2 DEF Range
      <4> QED
        BY <4>2, RangeIsFinite DEF AsSeq
    <3>4. ASSUME NEW r \in M, NEW s \in M, r.ref = s.ref PROVE r = s
      <4>1. PICK i \in DOMAIN projection : projection[i] = r
        BY <3>1 DEF Range
      <4>2. PICK j \in DOMAIN projection : projection[j] = s
        BY <3>1 DEF Range
      <4>3. r.ref \in Text
        BY <3>1, <3>2 DEF KnowledgeRecord
      <4>4. ~Before(r.ref, r.ref)
        BY <4>3, BeforeIsOrder
      <4>5. ~(i < j) /\ ~(j < i)
        BY <3>2, <3>4, <4>1, <4>2, <4>4
      <4>6. i \in Nat /\ j \in Nat
        BY <3>2
      <4> QED
        BY <4>1, <4>2, <4>5, <4>6
    <3>5. IsFiniteSet(M)
      BY <3>1, <3>3, FS_Subset
    <3>6. \A r \in M : MeetsSome(r, text)
      BY DEF Meeting, MeetsSome
    <3> QED
      BY <1>3, <3>1, <3>2, <3>4, <3>5, <3>6 DEF Ranked, ScoresAreNumbers
  <2>4. PICK x : Leads(x, M, text, limit, M) /\ HitsOf(x, text) = Search(found, text, limit, kinds)
    <3>1. limit \in Nat /\ MeetingIs(M, found, text, kinds)
      BY DEF MeetingIs
    <3> QED
      BY <2>3, <3>1, SearchFinds
  <2>5. x = First(InPlaces(M, text), limit)
    BY <2>3, <2>4, LeadsIsFirst
  <2>6. Search(found, text, limit, kinds) = HitsOf(First(InPlaces(M, text), limit), text)
    BY <2>4, <2>5
  <2> QED
    BY <2>6, Zenon DEF HitsOf, InPlaces, Meeting
<1>4. Inv => SearchIsComplete
  <2> HIDE DEF Inv
  <2> QED
    BY <1>3, Zenon DEF SearchIsComplete
<1> QED
  BY <1>1, <1>2, <1>4, PTL DEF Spec

-----------------------------------------------------------------------------
(* The rows of a list of records, read back, are the list.                   *)

(* What Ordered makes of the members of a sequence is the sequence, if it is *)
(* in order.                                                                 *)
IsRanked(q, S, K) ==
  /\ q = [i \in 1 .. Cardinality(S) |-> q[i]]
  /\ \A i \in 1 .. Cardinality(S) :
       (\E x \in S : Cardinality({y \in S : Before(K[y], K[x])}) = i - 1)
         => q[i] \in S /\ Cardinality({y \in S : Before(K[y], K[q[i]])}) = i - 1

LEMMA OrderedIsThat ==
  ASSUME NEW S, NEW K \in [S -> Text], NEW n \in Nat, NEW p \in [1 .. n -> S],
         \A x \in S : \E i \in 1 .. n : p[i] = x,
         \A i, j \in 1 .. n : i < j => Before(K[p[i]], K[p[j]]),
         NEW q, IsRanked(q, S, K)
  PROVE  q = p /\ Cardinality(S) = n
<1> DEFINE R == {x \in S \X S : Before(K[x[1]], K[x[2]])}
<1>1. ASSUME NEW i \in 1 .. n, NEW j \in 1 .. n, K[p[i]] = K[p[j]]
      PROVE  i = j
  <2>1. K[p[i]] \in Text /\ K[p[j]] \in Text
    OBVIOUS
  <2>2. ~Before(K[p[i]], K[p[j]]) /\ ~Before(K[p[j]], K[p[i]])
    BY <1>1, <2>1, BeforeIsOrder
  <2> QED
    BY <2>2
<1>2. \A x, y \in S : K[x] = K[y] => x = y
  BY <1>1
<1>3. IsOrder(S, R)
  BY <1>2, TextsOrder
<1>4. \A x, y \in S : <<x, y>> \in R <=> Before(K[x], K[y])
  OBVIOUS
<1> HIDE DEF R
<1>5. IsFiniteSet(S)
  <2>1. IsFiniteSet(1 .. n)
    <3>1. n \in Int /\ 1 \in Int
      OBVIOUS
    <3> QED
      BY <3>1, FS_Interval
  <2>2. p \in Surjection(1 .. n, S)
    BY DEF Surjection
  <2> QED
    BY <2>1, <2>2, FS_Surjection
<1>6. \A x \in S : Rank(S, R, x) = Cardinality({y \in S : Before(K[y], K[x])})
  <2>1. \A x \in S : {y \in S : <<y, x>> \in R} = {y \in S : Before(K[y], K[x])}
    BY <1>4
  <2> QED
    BY <2>1 DEF Rank
<1>7. q \in Seq(S) /\ Len(q) = Cardinality(S) /\ Range(q) = S /\ Sorted(q, R)
  <2>1. \A i \in 1 .. Cardinality(S) :
          (\E x \in S : Rank(S, R, x) = i - 1) => q[i] \in S /\ Rank(S, R, q[i]) = i - 1
    BY <1>6 DEF IsRanked
  <2>2. q = [i \in 1 .. Cardinality(S) |-> q[i]]
    BY DEF IsRanked
  <2> QED
    BY <1>3, <1>5, <2>1, <2>2, OrderedIsSorted
<1>8. p \in Seq(S) /\ Len(p) = n /\ DOMAIN p = 1 .. n
  OBVIOUS
<1>9. Range(p) = S
  BY <1>8 DEF Range
<1>10. Sorted(p, R)
  BY <1>4, <1>8 DEF Sorted
<1>11. q = p
  BY <1>3, <1>7, <1>8, <1>9, <1>10, SortedIsOne
<1> QED
  BY <1>7, <1>8, <1>11

RowOf(r) == [ref |-> r.ref, kind |-> r.kind, title |-> r.title, body |-> r.body]

FtsOf(r) == <<r.ref, r.title, FlattenSeq(r.aliases), r.body>>

(* The rows of one record among those of others.                             *)
LEMMA RowsOfOne ==
  ASSUME NEW records, AreListed(records), NEW k \in DOMAIN records
  PROVE  LET r == records[k]
             rows == Rows(records)
         IN /\ {row \in rows.aliases : row[1] = r.ref} = {<<r.ref, Normal(a), a>> : a \in Range(r.aliases)}
            /\ {row \in rows.evidence : row[1] = r.ref} = {<<r.ref, i, r.evidence[i]>> : i \in DOMAIN r.evidence}
<1> DEFINE r == records[k]
           al(x) == {<<x.ref, Normal(a), a>> : a \in Range(x.aliases)}
           ev(x) == {<<x.ref, i, x.evidence[i]>> : i \in DOMAIN x.evidence}
<1>1. r \in Range(records)
  BY DEF Range
<1>2. \A x \in Range(records) : x.ref = r.ref => x = r
  <2> SUFFICES ASSUME NEW j \in DOMAIN records, records[j].ref = r.ref PROVE records[j] = r
    BY DEF Range
  <2>1. j \in Nat /\ k \in Nat /\ r.ref \in Text
    BY DEF AreListed, KnowledgeRecord
  <2>2. ~(j < k) /\ ~(k < j)
    BY <2>1, BeforeIsOrder DEF AreListed
  <2> QED
    BY <2>1, <2>2
<1>3. /\ Rows(records).aliases = UNION {al(x) : x \in Range(records)}
      /\ Rows(records).evidence = UNION {ev(x) : x \in Range(records)}
  BY DEF Rows
<1>4. \A x : \A row \in al(x) \cup ev(x) : row[1] = x.ref
  OBVIOUS
<1> HIDE DEF al, ev, r
<1>5. {row \in UNION {al(x) : x \in Range(records)} : row[1] = r.ref} = al(r)
  BY <1>1, <1>2, <1>4
<1>6. {row \in UNION {ev(x) : x \in Range(records)} : row[1] = r.ref} = ev(r)
  BY <1>1, <1>2, <1>4
<1> QED
  BY <1>3, <1>5, <1>6 DEF al, ev, r

(* The evidence of a record is numbered.                                     *)
LEMMA EvidenceIsRead ==
  ASSUME NEW records, AreListed(records), NEW k \in DOMAIN records
  PROVE  EvidenceOf(Rows(records), records[k].ref) = records[k].evidence
<1> DEFINE rows == Rows(records)
<1>1. PICK ref, evidence : ref = records[k].ref /\ evidence = records[k].evidence
  OBVIOUS
<1>2. {row \in rows.evidence : row[1] = ref} = {<<ref, i, evidence[i]>> : i \in DOMAIN evidence}
  BY <1>1, RowsOfOne
<1>3. evidence \in Seq(Source) /\ DOMAIN evidence = 1 .. Len(evidence)
  BY <1>1 DEF AreListed, KnowledgeRecord
<1> HIDE DEF rows
<1>4. {row[2] : row \in {row \in rows.evidence : row[1] = ref}} = DOMAIN evidence
  <2>1. PICK E : E = {row \in rows.evidence : row[1] = ref}
    OBVIOUS
  <2>2. \A row \in E : row[2] \in DOMAIN evidence
    BY <1>2, <2>1
  <2>3. ASSUME NEW i \in DOMAIN evidence PROVE \E row \in E : row[2] = i
    <3>1. <<ref, i, evidence[i]>> \in E
      BY <1>2, <2>1
    <3> QED
      BY <3>1
  <2>4. PICK T : T = {row[2] : row \in E}
    OBVIOUS
  <2>5. \A x : x \in T <=> \E row \in E : x = row[2]
    BY <2>4
  <2>6. T = DOMAIN evidence
    BY <2>2, <2>3, <2>5
  <2> QED
    BY <2>1, <2>4, <2>6
<1>5. ASSUME NEW i \in DOMAIN evidence
      PROVE  (CHOOSE row \in rows.evidence : row[1] = ref /\ row[2] = i)[3] = evidence[i]
  <2>1. \A row \in rows.evidence : row[1] = ref => \E j \in DOMAIN evidence : row = <<ref, j, evidence[j]>>
    BY <1>2
  <2>2. \E row \in rows.evidence : row[1] = ref /\ row[2] = i
    <3>1. <<ref, i, evidence[i]>> \in {row \in rows.evidence : row[1] = ref}
      BY <1>2
    <3> QED
      BY <3>1
  <2>3. PICK row : row = CHOOSE r \in rows.evidence : r[1] = ref /\ r[2] = i
    OBVIOUS
  <2>4. row \in rows.evidence /\ row[1] = ref /\ row[2] = i
    BY <2>2, <2>3
  <2> QED
    BY <2>1, <2>3, <2>4
<1>6. EvidenceOf(rows, ref) = [i \in DOMAIN evidence |-> evidence[i]]
  BY <1>4, <1>5 DEF EvidenceOf
<1> QED
  BY <1>1, <1>3, <1>6 DEF rows

(* The aliases of a record are read in the order of their spellings.         *)
LEMMA AliasesAreRead ==
  ASSUME NEW records, AreListed(records), NEW k \in DOMAIN records
  PROVE  AliasesOf(Rows(records), records[k].ref) = records[k].aliases
<1>1. PICK ref, al, rows : ref = records[k].ref /\ al = records[k].aliases /\ rows = Rows(records)
  OBVIOUS
<1>2. PICK mine : mine = {row \in rows.aliases : row[1] = ref}
  OBVIOUS
<1>3. mine = {<<ref, Normal(a), a>> : a \in Range(al)}
  BY <1>1, <1>2, RowsOfOne
<1>4. /\ al \in Seq(Text) /\ Len(al) \in Nat /\ DOMAIN al = 1 .. Len(al)
      /\ al = [i \in 1 .. Len(al) |-> al[i]]
      /\ InSpellingOrder(al)
  BY <1>1 DEF AreListed, KnowledgeRecord
<1> DEFINE n == Len(al)
           K == [x \in mine |-> x[2]]
           p == [i \in 1 .. n |-> <<ref, Normal(al[i]), al[i]>>]
           q == Ordered(mine, LAMBDA x, y : Before(x[2], y[2]))
           At(i) == CHOOSE x \in mine : Cardinality({y \in mine : Before(y[2], x[2])}) = i - 1
<1>5. /\ p \in [1 .. n -> mine] /\ \A x \in mine : \E i \in 1 .. n : p[i] = x
      /\ \A i \in 1 .. n : p[i] = <<ref, Normal(al[i]), al[i]>>
  BY <1>3, <1>4 DEF Range
<1>6. K \in [mine -> Text]
  <2>1. \A a \in Range(al) : Normal(a) \in Text
    BY <1>4, NormalIsText DEF Range
  <2> QED
    BY <1>3, <2>1
<1>7. \A x \in mine : K[x] = x[2]
  OBVIOUS
<1> HIDE DEF p, K
<1>8. \A i, j \in 1 .. n : i < j => Before(K[p[i]], K[p[j]])
  BY <1>4, <1>5, <1>7 DEF InSpellingOrder
<1>9. q = [i \in 1 .. Cardinality(mine) |-> At(i)]
  BY DEF Ordered
<1>10. q = [i \in 1 .. Cardinality(mine) |-> q[i]]
  <2> HIDE DEF q, At
  <2> QED
    BY <1>9
<1>11. ASSUME NEW i \in 1 .. Cardinality(mine),
              \E x \in mine : Cardinality({y \in mine : Before(K[y], K[x])}) = i - 1
       PROVE  q[i] \in mine /\ Cardinality({y \in mine : Before(K[y], K[q[i]])}) = i - 1
  <2>1. \A x \in mine : {y \in mine : Before(K[y], K[x])} = {y \in mine : Before(y[2], x[2])}
    BY <1>7
  <2>2. \E x \in mine : Cardinality({y \in mine : Before(y[2], x[2])}) = i - 1
    BY <1>11, <2>1
  <2>3. At(i) \in mine /\ Cardinality({y \in mine : Before(y[2], At(i)[2])}) = i - 1
    BY <2>2
  <2>4. q[i] = At(i)
    <3> HIDE DEF q, At
    <3> QED
      BY <1>9, <1>11
  <2> HIDE DEF q, At
  <2> QED
    BY <2>1, <2>3, <2>4
<1> HIDE DEF q, At
<1>12. q = p
  <2>1. PICK P, Q, L, m : P = p /\ Q = q /\ L = K /\ m = n
    OBVIOUS
  <2>2. IsRanked(Q, mine, L)
    BY <1>10, <1>11, <2>1 DEF IsRanked
  <2>3. m \in Nat /\ P \in [1 .. m -> mine] /\ L \in [mine -> Text]
    BY <1>4, <1>5, <1>6, <2>1
  <2>4. \A x \in mine : \E i \in 1 .. m : P[i] = x
    BY <1>5, <2>1
  <2>5. \A i, j \in 1 .. m : i < j => Before(L[P[i]], L[P[j]])
    BY <1>8, <2>1
  <2>6. Q = P
    BY ONLY <2>2, <2>3, <2>4, <2>5, OrderedIsThat
  <2> QED
    BY <2>1, <2>6
<1>13. AliasesOf(rows, ref) = [i \in DOMAIN q |-> q[i][3]]
  BY <1>2 DEF AliasesOf, q
<1>14. DOMAIN q = 1 .. n /\ \A i \in 1 .. n : q[i][3] = al[i]
  BY <1>5, <1>12 DEF p
<1>15. AliasesOf(rows, ref) = al
  BY <1>4, <1>13, <1>14
<1> QED
  BY <1>1, <1>15

LEMMA ListedFields ==
  ASSUME NEW records, AreListed(records)
  PROVE  /\ records \in Seq(KnowledgeRecord) /\ Len(records) \in Nat /\ DOMAIN records = 1 .. Len(records)
         /\ \A i \in 1 .. Len(records) : records[i].ref \in Text
         /\ \A i, j \in 1 .. Len(records) : i < j => Before(records[i].ref, records[j].ref)
<1>1. records \in Seq(KnowledgeRecord) /\ Len(records) \in Nat /\ DOMAIN records = 1 .. Len(records)
      /\ \A i \in 1 .. Len(records) : records[i] \in KnowledgeRecord
  BY DEF AreListed
<1>2. \A r \in KnowledgeRecord : r.ref \in Text
  BY DEF KnowledgeRecord
<1> QED
  BY <1>1, <1>2 DEF AreListed

(* The items come back in the order of their refs.                           *)
LEMMA ItemsAreRead ==
  ASSUME NEW records, AreListed(records)
  PROVE  LET items == Ordered(Rows(records).items, LAMBDA x, y : Before(x.ref, y.ref))
         IN /\ DOMAIN items = DOMAIN records
            /\ \A i \in DOMAIN records : items[i] = RowOf(records[i])
            /\ Cardinality(Rows(records).items) = Len(records)
<1>1. PICK S : S = Rows(records).items
  OBVIOUS
<1>2. S = {RowOf(r) : r \in Range(records)}
  BY <1>1 DEF Rows, RowOf
<1>3. /\ records \in Seq(KnowledgeRecord) /\ Len(records) \in Nat /\ DOMAIN records = 1 .. Len(records)
      /\ \A i \in 1 .. Len(records) : records[i].ref \in Text
      /\ \A i, j \in 1 .. Len(records) : i < j => Before(records[i].ref, records[j].ref)
  BY ListedFields
<1> DEFINE n == Len(records)
           K == [x \in S |-> x.ref]
           p == [i \in 1 .. n |-> RowOf(records[i])]
           q == Ordered(S, LAMBDA x, y : Before(x.ref, y.ref))
           At(i) == CHOOSE x \in S : Cardinality({y \in S : Before(y.ref, x.ref)}) = i - 1
<1>4. \A r : RowOf(r).ref = r.ref
  BY DEF RowOf
<1>5. /\ p \in [1 .. n -> S] /\ \A x \in S : \E i \in 1 .. n : p[i] = x
      /\ \A i \in 1 .. n : p[i] = RowOf(records[i])
  BY <1>2, <1>3 DEF Range
<1>6. K \in [S -> Text]
  BY <1>2, <1>3, <1>4 DEF Range
<1>7. \A x \in S : K[x] = x.ref
  OBVIOUS
<1> HIDE DEF p, K
<1>8. \A i, j \in 1 .. n : i < j => Before(K[p[i]], K[p[j]])
  BY <1>3, <1>4, <1>5, <1>7
<1>9. q = [i \in 1 .. Cardinality(S) |-> At(i)]
  BY DEF Ordered
<1>10. q = [i \in 1 .. Cardinality(S) |-> q[i]]
  <2> HIDE DEF q, At
  <2> QED
    BY <1>9
<1>11. ASSUME NEW i \in 1 .. Cardinality(S),
              \E x \in S : Cardinality({y \in S : Before(K[y], K[x])}) = i - 1
       PROVE  q[i] \in S /\ Cardinality({y \in S : Before(K[y], K[q[i]])}) = i - 1
  <2>1. \A x \in S : {y \in S : Before(K[y], K[x])} = {y \in S : Before(y.ref, x.ref)}
    BY <1>7
  <2>2. \E x \in S : Cardinality({y \in S : Before(y.ref, x.ref)}) = i - 1
    BY <1>11, <2>1
  <2>3. At(i) \in S /\ Cardinality({y \in S : Before(y.ref, At(i).ref)}) = i - 1
    BY <2>2
  <2>4. q[i] = At(i)
    <3> HIDE DEF q, At
    <3> QED
      BY <1>9, <1>11
  <2> HIDE DEF q, At
  <2> QED
    BY <2>1, <2>3, <2>4
<1> HIDE DEF q, At
<1>12. q = p /\ Cardinality(S) = n
  <2>1. PICK P, Q, L, m : P = p /\ Q = q /\ L = K /\ m = n
    OBVIOUS
  <2>2. IsRanked(Q, S, L)
    BY <1>10, <1>11, <2>1 DEF IsRanked
  <2>3. m \in Nat /\ P \in [1 .. m -> S] /\ L \in [S -> Text]
    BY <1>3, <1>5, <1>6, <2>1
  <2>4. \A x \in S : \E i \in 1 .. m : P[i] = x
    BY <1>5, <2>1
  <2>5. \A i, j \in 1 .. m : i < j => Before(L[P[i]], L[P[j]])
    BY <1>8, <2>1
  <2>6. Q = P /\ Cardinality(S) = m
    BY ONLY <2>2, <2>3, <2>4, <2>5, OrderedIsThat
  <2> QED
    BY <2>1, <2>6
<1>13. DOMAIN p = 1 .. n
  BY DEF p
<1>14. DOMAIN q = DOMAIN records /\ \A i \in DOMAIN records : q[i] = RowOf(records[i])
  BY <1>3, <1>5, <1>12, <1>13
<1> QED
  BY <1>1, <1>12, <1>14 DEF q

(* What is made of one record's rows is the record.                          *)
LEMMA RecordIsRead ==
  ASSUME NEW r \in KnowledgeRecord
  PROVE  Record(r.ref, r.kind, r.title, r.aliases, r.body, r.evidence) = r
<1>1. r.aliases \in Seq(Text) /\ InSpellingOrder(r.aliases)
      /\ r.evidence \in Seq(Source) /\ Once(r.evidence)
  BY DEF KnowledgeRecord
<1>2. Aliases(r.aliases) = r.aliases
  BY <1>1, AliasesAre
<1>3. Unrepeated(r.evidence) = r.evidence
  BY <1>1, UnrepeatedKeeps
<1>4. r = [ref |-> r.ref, kind |-> r.kind, title |-> r.title, aliases |-> r.aliases,
           body |-> r.body, evidence |-> r.evidence]
  BY DEF KnowledgeRecord
<1> QED
  BY <1>2, <1>3, <1>4 DEF Record

(* The full-text rows are as many as the records.                            *)
LEMMA TextsAreRead ==
  ASSUME NEW records, AreListed(records)
  PROVE  Cardinality(Rows(records).fts) = Len(records)
<1>1. PICK S : S = Rows(records).fts
  OBVIOUS
<1>2. S = {FtsOf(r) : r \in Range(records)}
  BY <1>1 DEF Rows, FtsOf
<1>3. /\ records \in Seq(KnowledgeRecord) /\ Len(records) \in Nat /\ DOMAIN records = 1 .. Len(records)
      /\ \A i \in 1 .. Len(records) : records[i].ref \in Text
      /\ \A i, j \in 1 .. Len(records) : i < j => Before(records[i].ref, records[j].ref)
  BY ListedFields
<1> DEFINE n == Len(records)
           p == [i \in 1 .. n |-> FtsOf(records[i])]
<1>4. \A r : FtsOf(r)[1] = r.ref
  BY DEF FtsOf
<1>5. /\ p \in [1 .. n -> S] /\ \A x \in S : \E i \in 1 .. n : p[i] = x
      /\ \A i \in 1 .. n : p[i] = FtsOf(records[i])
  BY <1>2, <1>3 DEF Range
<1> HIDE DEF p
<1>6. ASSUME NEW i \in 1 .. n, NEW j \in 1 .. n, p[i] = p[j] PROVE i = j
  <2>1. records[i].ref = records[j].ref
    BY <1>4, <1>5, <1>6
  <2>2. ~(i < j) /\ ~(j < i)
    BY <1>3, <2>1, BeforeIsOrder
  <2> QED
    BY <1>3, <2>2
<1>7. p \in Surjection(1 .. n, S) /\ p \in Injection(1 .. n, S)
  BY <1>5, <1>6 DEF Surjection, Injection, IsInjective
<1>8. IsFiniteSet(1 .. n) /\ Cardinality(1 .. n) = n
  <2>1. n \in Int /\ 1 \in Int
    BY <1>3
  <2>2. IsFiniteSet(1 .. n) /\ Cardinality(1 .. n) = IF 1 > n THEN 0 ELSE n - 1 + 1
    BY <2>1, FS_Interval
  <2> QED
    BY <1>3, <2>2
<1>9. Cardinality(S) = n
  <2>1. PICK P, m : P = p /\ m = n
    OBVIOUS
  <2>2. Cardinality(S) = Cardinality(1 .. m)
    BY <1>7, <1>8, <2>1, FS_Surjection
  <2> QED
    BY <1>8, <2>1, <2>2
<1> QED
  BY <1>1, <1>9

(* What is written of a list of records reads back as the list, so that the  *)
(* check of a new index never refuses what was projected                     *)
(* (_validate_identity).                                                     *)
LEMMA ListedIsReadBack ==
  ASSUME NEW records, AreListed(records)
  PROVE  Validates(records)
<1> DEFINE rows == Rows(records)
           items == Ordered(rows.items, LAMBDA x, y : Before(x.ref, y.ref))
<1>1. /\ DOMAIN items = DOMAIN records
      /\ \A i \in DOMAIN records : items[i] = RowOf(records[i])
      /\ Cardinality(rows.items) = Len(records)
  BY ItemsAreRead
<1>2. ReadBack(rows) =
        [i \in DOMAIN items |->
           Record(items[i].ref, items[i].kind, items[i].title, AliasesOf(rows, items[i].ref),
                  items[i].body, EvidenceOf(rows, items[i].ref))]
  BY DEF ReadBack
<1>3. records = [i \in DOMAIN records |-> records[i]] /\ \A i \in DOMAIN records : records[i] \in KnowledgeRecord
  BY DEF AreListed
<1>4. Cardinality(rows.fts) = Len(records)
  BY TextsAreRead
<1> HIDE DEF items, rows
<1>5. ASSUME NEW i \in DOMAIN records
      PROVE  Record(items[i].ref, items[i].kind, items[i].title, AliasesOf(rows, items[i].ref),
                    items[i].body, EvidenceOf(rows, items[i].ref)) = records[i]
  <2>1. PICK r : r = records[i]
    OBVIOUS
  <2>2. /\ items[i].ref = r.ref /\ items[i].kind = r.kind /\ items[i].title = r.title
        /\ items[i].body = r.body
    BY <1>1, <2>1 DEF RowOf
  <2>3. AliasesOf(rows, r.ref) = r.aliases /\ EvidenceOf(rows, r.ref) = r.evidence
    BY <2>1, AliasesAreRead, EvidenceIsRead DEF rows
  <2>4. Record(r.ref, r.kind, r.title, r.aliases, r.body, r.evidence) = r
    BY <1>3, <2>1, RecordIsRead
  <2> QED
    BY <2>1, <2>2, <2>3, <2>4
<1>6. ReadBack(rows) = records
  BY <1>1, <1>2, <1>3, <1>5
<1>7. rows.fts = {<<r.ref, r.title, FlattenSeq(r.aliases), r.body>> : r \in Range(records)}
  BY DEF rows, Rows
<1>8. FtsAgrees(rows, ReadBack(rows))
  BY <1>6, <1>7 DEF FtsAgrees
<1> QED
  BY <1>1, <1>4, <1>6, <1>8 DEF Validates, rows

-----------------------------------------------------------------------------
(* The projection comes of the files that a rebuild reads: first files, and  *)
(* the parts that these name.                                                *)
SameFirst(files, other) == \A dataset \in Range(DataSets) : files[<<dataset, 0>>] = other[<<dataset, 0>>]

SameParts(files, other, dataset) ==
  Present(files, dataset) =>
    \A i \in DOMAIN PartNames(files, dataset) :
      files[PartNames(files, dataset)[i]] = other[PartNames(files, dataset)[i]]

Alike(files, other) == SameFirst(files, other) /\ \A dataset \in InParts : SameParts(files, other, dataset)

LEMMA AlikeFirst ==
  ASSUME NEW files, NEW other, SameFirst(files, other)
  PROVE  /\ files[<<"actions", 0>>] = other[<<"actions", 0>>]
         /\ files[<<"products", 0>>] = other[<<"products", 0>>]
         /\ files[<<"attributes", 0>>] = other[<<"attributes", 0>>]
         /\ files[<<"categories", 0>>] = other[<<"categories", 0>>]
         /\ files[<<"entities", 0>>] = other[<<"entities", 0>>]
         /\ files[<<"captures", 0>>] = other[<<"captures", 0>>]
         /\ files[<<"endpoints", 0>>] = other[<<"endpoints", 0>>]
         /\ files[<<"session-endpoints", 0>>] = other[<<"session-endpoints", 0>>]
         /\ files[<<"operations", 0>>] = other[<<"operations", 0>>]
         /\ files[<<"forms", 0>>] = other[<<"forms", 0>>]
         /\ files[<<"topics", 0>>] = other[<<"topics", 0>>]
<1>1. \A dataset \in Range(DataSets) : files[<<dataset, 0>>] = other[<<dataset, 0>>]
  BY DEF SameFirst
<1> QED
  BY <1>1, DataSetsAre

(* What is said of a data set in parts.                                      *)
SameSet(files, other, dataset) ==
  /\ Present(files, dataset) <=> Present(other, dataset)
  /\ IndexOf(files, dataset) = IndexOf(other, dataset)
  /\ PartsDiffer(files, dataset) <=> PartsDiffer(other, dataset)
  /\ Whole(files, dataset) <=> Whole(other, dataset)
  /\ Present(files, dataset) =>
       /\ HeadersAgree(files, dataset) <=> HeadersAgree(other, dataset)
       /\ Items(files, dataset) = Items(other, dataset)

LEMMA AlikeSets ==
  ASSUME NEW files, NEW other, Alike(files, other), NEW dataset \in InParts
  PROVE  SameSet(files, other, dataset)
<1>1. files[<<dataset, 0>>] = other[<<dataset, 0>>]
  BY DataSetsAre DEF Alike, SameFirst, InParts
<1>2. IndexOf(files, dataset) = IndexOf(other, dataset) /\ (Present(files, dataset) <=> Present(other, dataset))
  BY <1>1 DEF IndexOf, Present
<1>3. PICK head : head = IndexOf(files, dataset)
  OBVIOUS
<1>4. head = IndexOf(other, dataset)
  BY <1>2, <1>3
<1>5. PICK names : names = [i \in DOMAIN head.parts |-> <<dataset, head.parts[i].file>>]
  OBVIOUS
<1>6. PartNames(files, dataset) = names /\ PartNames(other, dataset) = names
  BY <1>3, <1>4, <1>5 DEF PartNames
<1>7. DOMAIN names = DOMAIN head.parts
  BY <1>5
<1>8. PartsDiffer(files, dataset) <=> PartsDiffer(other, dataset)
  BY <1>6 DEF PartsDiffer
<1>9. CASE Present(files, dataset)
  <2>1. \A i \in DOMAIN names : files[names[i]] = other[names[i]]
    BY <1>6, <1>9 DEF Alike, SameParts
  <2>2. AllPresent(files, dataset) <=> AllPresent(other, dataset)
    BY <1>6, <2>1 DEF AllPresent, Range
  <2>3. CountsAgree(files, dataset) <=> CountsAgree(other, dataset)
    BY <1>3, <1>4, <1>6, <1>7, <2>1 DEF CountsAgree
  <2>4. HeadersAgree(files, dataset) <=> HeadersAgree(other, dataset)
    BY <1>3, <1>4, <1>6, <1>7, <2>1 DEF HeadersAgree
  <2>5. Items(files, dataset) = Items(other, dataset)
    <3> DEFINE a == [i \in DOMAIN names |-> files[names[i]].items]
               b == [i \in DOMAIN names |-> other[names[i]].items]
    <3>1. a = b
      BY <2>1
    <3>2. Items(files, dataset) = FlattenSeq(a) /\ Items(other, dataset) = FlattenSeq(b)
      BY <1>6 DEF Items
    <3> HIDE DEF a, b
    <3> QED
      BY <3>1, <3>2
  <2> QED
    BY <1>2, <1>8, <2>2, <2>3, <2>4, <2>5 DEF SameSet, Whole
<1>10. CASE ~Present(files, dataset)
  BY <1>2, <1>8, <1>10 DEF SameSet, Whole
<1> QED
  BY <1>9, <1>10

(* Observations are of captures.                                             *)
RefIn(captures, observation) ==
  IF observation.by = "capture"
  THEN <<captures[SelectInSeq(captures, LAMBDA c : c.name = observation.of)].source, observation.at>>
  ELSE <<observation.of, observation.at>>

RefsIn(captures, observations) == [i \in DOMAIN observations |-> RefIn(captures, observations[i])]

LEMMA RefsAreIn ==
  ASSUME NEW files
  PROVE  /\ \A o : ObservationRef(files, o) = RefIn(Captures(files), o)
         /\ \A os : ObservationRefs(files, os) = RefsIn(Captures(files), os)
<1>1. ASSUME NEW o PROVE ObservationRef(files, o) = RefIn(Captures(files), o)
  BY DEF ObservationRef, RefIn, Captures, SelectInSeq
<1>2. ASSUME NEW os PROVE ObservationRefs(files, os) = RefsIn(Captures(files), os)
  BY <1>1 DEF ObservationRefs, RefsIn
<1> QED
  BY <1>1, <1>2

SameCitations(files, other) ==
  /\ \A o : ObservationRef(files, o) = ObservationRef(other, o)
  /\ \A os : ObservationRefs(files, os) = ObservationRefs(other, os)
  /\ \A o : Citable(files, o) <=> Citable(other, o)
  /\ \A os : Cited(files, os) <=> Cited(other, os)

LEMMA AlikeCitations ==
  ASSUME NEW files, NEW other, Alike(files, other)
  PROVE  SameCitations(files, other)
<1>1. files[<<"captures", 0>>] = other[<<"captures", 0>>] /\ Captures(files) = Captures(other)
  BY AlikeFirst DEF Alike, Captures
<1>2. \A o : Citable(files, o) <=> Citable(other, o)
  BY <1>1 DEF Citable
<1>3. \A os : Cited(files, os) <=> Cited(other, os)
  BY <1>2 DEF Cited
<1>4. /\ \A o : ObservationRef(files, o) = ObservationRef(other, o)
      /\ \A os : ObservationRefs(files, os) = ObservationRefs(other, os)
  BY <1>1, RefsAreIn
<1> QED
  BY <1>2, <1>3, <1>4 DEF SameCitations

(* What is accepted, data set by data set.                                   *)
LEMMA AlikeAccepted ==
  ASSUME NEW files, NEW other, Alike(files, other), Accepted(files)
  PROVE  Accepted(other)
<1>1. \A dataset \in InParts : SameSet(files, other, dataset)
  BY AlikeSets
<1>2. /\ SameSet(files, other, "products") /\ SameSet(files, other, "attributes")
      /\ SameSet(files, other, "categories") /\ SameSet(files, other, "endpoints")
      /\ SameSet(files, other, "session-endpoints") /\ SameSet(files, other, "forms")
      /\ SameSet(files, other, "topics")
  BY <1>1 DEF InParts
<1>3. SameCitations(files, other)
  BY AlikeCitations
<1>4. ActionsAccepted(other)
  BY AlikeFirst DEF Accepted, ActionsAccepted, Alike
<1>5. EntitiesAccepted(other)
  BY AlikeFirst DEF Accepted, EntitiesAccepted, Alike
<1>6. CapturesAccepted(other)
  <2>1. files[<<"captures", 0>>] = other[<<"captures", 0>>]
    BY AlikeFirst DEF Alike
  <2> QED
    BY <2>1 DEF Accepted, CapturesAccepted, Keyed
<1>7. CategoriesAccepted(other)
  <2> SUFFICES ASSUME Present(other, "categories") PROVE CategoriesAccepted(other)
    BY DEF CategoriesAccepted
  <2>1. Present(files, "categories")
    BY <1>2 DEF SameSet
  <2>2. PICK items, head : items = Items(files, "categories") /\ head = IndexOf(files, "categories")
    OBVIOUS
  <2>3. items = Items(other, "categories") /\ head = IndexOf(other, "categories")
    BY <1>2, <2>1, <2>2 DEF SameSet
  <2>4. /\ Whole(files, "categories") /\ HasOffsets(head.parts) /\ Keyed(items, LAMBDA c : c.id)
        /\ \A i \in DOMAIN items : items[i].documented /\ items[i].evidence # <<>>
    BY <2>1, <2>2 DEF Accepted, ProductsAccepted, CategoriesAccepted, Keyed
  <2>5. Whole(other, "categories")
    BY <1>2, <2>4 DEF SameSet
  <2> QED
    BY <2>3, <2>4, <2>5 DEF CategoriesAccepted, Keyed
<1>8. AttributesAccepted(other)
  <2> SUFFICES ASSUME Present(other, "attributes") PROVE AttributesAccepted(other)
    BY DEF AttributesAccepted
  <2>1. Present(files, "attributes")
    BY <1>2 DEF SameSet
  <2>2. PICK items, head : items = Items(files, "attributes") /\ head = IndexOf(files, "attributes")
    OBVIOUS
  <2>3. items = Items(other, "attributes") /\ head = IndexOf(other, "attributes")
    BY <1>2, <2>1, <2>2 DEF SameSet
  <2>4. /\ Whole(files, "attributes") /\ HasOffsets(head.parts) /\ Keyed(items, LAMBDA a : a.product)
        /\ PartsDiffer(files, "attributes") /\ HeadersAgree(files, "attributes")
        /\ \A i \in DOMAIN items : items[i].documented /\ items[i].evidence # <<>>
    BY <2>1, <2>2 DEF Accepted, ProductsAccepted, AttributesAccepted, Keyed
  <2>5. /\ Whole(other, "attributes") /\ PartsDiffer(other, "attributes")
        /\ HeadersAgree(other, "attributes")
    BY <1>2, <2>1, <2>4 DEF SameSet
  <2> QED
    BY <2>3, <2>4, <2>5 DEF AttributesAccepted, Keyed
<1>9. ProductsAccepted(other)
  <2>1. Whole(files, "products") /\ Present(files, "products")
    BY DEF Accepted, ProductsAccepted, Whole
  <2>2. /\ Whole(other, "products") /\ HasOffsets(IndexOf(other, "products").parts)
        /\ PartsDiffer(other, "products") /\ HeadersAgree(other, "products")
        /\ Items(other, "products") = Items(files, "products")
    BY <1>2, <2>1 DEF SameSet, Accepted, ProductsAccepted
  <2>3. Enriched(other) = Enriched(files)
    <3>1. PICK c, a : c = Items(files, "categories") /\ a = Items(files, "attributes")
      OBVIOUS
    <3>2. /\ Present(files, "categories") => Items(other, "categories") = c
          /\ Present(files, "attributes") => Items(other, "attributes") = a
          /\ Present(files, "categories") <=> Present(other, "categories")
          /\ Present(files, "attributes") <=> Present(other, "attributes")
      BY <1>2, <3>1 DEF SameSet
    <3>3. PICK C, A : C = UNION {x.products : x \in Range(c)} /\ A = {x.product : x \in Range(a)}
      OBVIOUS
    <3>4. Enriched(files) = (IF Present(files, "categories") THEN C ELSE {})
                              \cup (IF Present(files, "attributes") THEN A ELSE {})
      BY <3>1, <3>3 DEF Enriched
    <3>5. Present(other, "categories") => UNION {x.products : x \in Range(Items(other, "categories"))} = C
      BY <3>2, <3>3
    <3>6. Present(other, "attributes") => {x.product : x \in Range(Items(other, "attributes"))} = A
      BY <3>2, <3>3
    <3>7. Enriched(other) = (IF Present(other, "categories") THEN C ELSE {})
                              \cup (IF Present(other, "attributes") THEN A ELSE {})
      BY <3>5, <3>6 DEF Enriched
    <3> QED
      BY <3>2, <3>4, <3>7
  <2>4. AllKnown(other) /\ \A item \in Range(Items(other, "products")) : HasKind(item.id, "product")
    BY <2>2, <2>3 DEF Accepted, ProductsAccepted, AllKnown
  <2> QED
    BY <1>7, <1>8, <2>2, <2>4 DEF ProductsAccepted
<1>10. EndpointsAccepted(other)
  <2>1. Whole(files, "endpoints") /\ Present(files, "endpoints")
    BY DEF Accepted, EndpointsAccepted, Whole
  <2>2. PICK items : items = Items(files, "endpoints")
    OBVIOUS
  <2>3. /\ Whole(other, "endpoints") /\ PartsDiffer(other, "endpoints")
        /\ Items(other, "endpoints") = items
    BY <1>2, <2>1, <2>2 DEF SameSet, Accepted, EndpointsAccepted
  <2>4. /\ \A i, j \in DOMAIN items : items[i].pattern = items[j].pattern => i = j
        /\ \A item \in Range(items) : item.methods # {} /\ Cited(files, item.examples)
    BY <2>2 DEF Accepted, EndpointsAccepted, Keyed
  <2>5. \A item \in Range(items) : item.methods # {} /\ Cited(other, item.examples)
    BY <1>3, <2>4 DEF SameCitations
  <2> QED
    BY <2>3, <2>4, <2>5 DEF EndpointsAccepted, Keyed
<1>11. SessionEndpointsAccepted(other)
  <2> SUFFICES ASSUME Present(other, "session-endpoints") PROVE SessionEndpointsAccepted(other)
    BY DEF SessionEndpointsAccepted
  <2>1. Present(files, "session-endpoints")
    BY <1>2 DEF SameSet
  <2>2. PICK items, head : items = Items(files, "session-endpoints") /\ head = IndexOf(files, "session-endpoints")
    OBVIOUS
  <2>3. items = Items(other, "session-endpoints") /\ head = IndexOf(other, "session-endpoints")
    BY <1>2, <2>1, <2>2 DEF SameSet
  <2>4. /\ Whole(files, "session-endpoints") /\ HasOffsets(head.parts)
        /\ PartsDiffer(files, "session-endpoints")
        /\ \A i, j \in DOMAIN items : items[i].pattern = items[j].pattern => i = j
        /\ \A item \in Range(items) :
             /\ item.session = head.session
             /\ item.methods # {} /\ item.evidence # <<>>
             /\ \A i \in DOMAIN item.evidence : item.evidence[i][1] = head.source
             /\ item.class \in Classes(item.known)
    BY <2>1, <2>2 DEF Accepted, SessionEndpointsAccepted, Keyed
  <2>5. Whole(other, "session-endpoints") /\ PartsDiffer(other, "session-endpoints")
    BY <1>2, <2>4 DEF SameSet
  <2> QED
    BY <2>3, <2>4, <2>5 DEF SessionEndpointsAccepted, Keyed
<1>12. OperationsAccepted(other)
  <2>1. PICK first : first = files[<<"operations", 0>>]
    OBVIOUS
  <2>2. first = other[<<"operations", 0>>]
    BY <2>1, AlikeFirst DEF Alike
  <2>3. PICK sum : sum = FoldLeft(LAMBDA s, o : s + o.count, 0, first.items)
    OBVIOUS
  <2>4. /\ first # Missing /\ \A i, j \in DOMAIN first.items : first.items[i].number = first.items[j].number => i = j
        /\ \A item \in Range(first.items) :
             Len(item.observations) = item.count /\ Cited(files, item.observations)
        /\ first.posts = sum
    BY <2>1, <2>3 DEF Accepted, OperationsAccepted, Keyed
  <2>5. \A item \in Range(first.items) :
             Len(item.observations) = item.count /\ Cited(other, item.observations)
    BY <1>3, <2>4 DEF SameCitations
  <2> QED
    BY <2>2, <2>3, <2>4, <2>5 DEF OperationsAccepted, Keyed
<1>13. FormsAccepted(other)
  <2>1. Whole(files, "forms") /\ Present(files, "forms")
    BY DEF Accepted, FormsAccepted, Whole
  <2>2. PICK items : items = Items(files, "forms")
    OBVIOUS
  <2>3. /\ Whole(other, "forms") /\ PartsDiffer(other, "forms") /\ HasOffsets(IndexOf(other, "forms").parts)
        /\ Items(other, "forms") = items
    BY <1>2, <2>1, <2>2 DEF SameSet, Accepted, FormsAccepted
  <2>4. /\ \A i, j \in DOMAIN items : items[i].id = items[j].id => i = j
        /\ \A item \in Range(items) : item.relative /\ Cited(files, item.observed)
    BY <2>2 DEF Accepted, FormsAccepted, Keyed
  <2>5. \A item \in Range(items) : item.relative /\ Cited(other, item.observed)
    BY <1>3, <2>4 DEF SameCitations
  <2> QED
    BY <2>3, <2>4, <2>5 DEF FormsAccepted, Keyed
<1>14. TopicsAccepted(other)
  <2>1. Whole(files, "topics") /\ Present(files, "topics")
    BY DEF Accepted, TopicsAccepted, Whole
  <2>2. PICK items : items = Items(files, "topics")
    OBVIOUS
  <2>3. Whole(other, "topics") /\ PartsDiffer(other, "topics") /\ Items(other, "topics") = items
    BY <1>2, <2>1, <2>2 DEF SameSet, Accepted, TopicsAccepted
  <2>4. /\ \A i, j \in DOMAIN items : items[i].topic = items[j].topic => i = j
        /\ \A item \in Range(items) : Citable(files, item.source)
    BY <2>2 DEF Accepted, TopicsAccepted, Keyed
  <2>5. \A item \in Range(items) : Citable(other, item.source)
    BY <1>3, <2>4 DEF SameCitations
  <2> QED
    BY <2>3, <2>4, <2>5 DEF TopicsAccepted, Keyed
<1> QED
  BY <1>4, <1>5, <1>6, <1>9, <1>10, <1>11, <1>12, <1>13, <1>14 DEF Accepted

(* What the data sets say of one product.                                    *)
SameSayings(files, other) ==
  \A product :
    /\ CategoryNames(files, product) = CategoryNames(other, product)
    /\ CategoryEvidence(files, product) = CategoryEvidence(other, product)
    /\ AttributeTerms(files, product) = AttributeTerms(other, product)
    /\ AttributeEvidence(files, product) = AttributeEvidence(other, product)

NamesSaid(c, product) ==
  Unrepeated(FlattenSeq([i \in DOMAIN c |-> IF product \in c[i].products THEN <<c[i].name>> ELSE <<>>]))
EvidenceSaid(c, product) ==
  Unrepeated(FlattenSeq([i \in DOMAIN c |-> IF product \in c[i].products THEN c[i].evidence ELSE <<>>]))
TermsSaid(a, product) ==
  Unrepeated(FlattenSeq([i \in DOMAIN a |-> IF a[i].product = product THEN a[i].terms ELSE <<>>]))
EvidenceShown(a, product) ==
  Unrepeated(FlattenSeq([i \in DOMAIN a |-> IF a[i].product = product THEN a[i].evidence ELSE <<>>]))

LEMMA CategoriesSaid ==
  ASSUME NEW files, NEW product, Present(files, "categories")
  PROVE  /\ CategoryNames(files, product) = NamesSaid(Items(files, "categories"), product)
         /\ CategoryEvidence(files, product) = EvidenceSaid(Items(files, "categories"), product)
BY DEF CategoryNames, CategoryEvidence, CategoriesOf, Gather, NamesSaid, EvidenceSaid

LEMMA AttributesSaid ==
  ASSUME NEW files, NEW product, Present(files, "attributes")
  PROVE  /\ AttributeTerms(files, product) = TermsSaid(Items(files, "attributes"), product)
         /\ AttributeEvidence(files, product) = EvidenceShown(Items(files, "attributes"), product)
BY DEF AttributeTerms, AttributeEvidence, AttributesOf, Gather, TermsSaid, EvidenceShown

LEMMA AlikeSayings ==
  ASSUME NEW files, NEW other, Alike(files, other)
  PROVE  SameSayings(files, other)
<1>1. SameSet(files, other, "attributes") /\ SameSet(files, other, "categories")
  BY AlikeSets DEF InParts
<1>2. PICK c, a : c = Items(files, "categories") /\ a = Items(files, "attributes")
  OBVIOUS
<1>3. /\ Present(files, "categories") => Items(other, "categories") = c
      /\ Present(files, "attributes") => Items(other, "attributes") = a
      /\ Present(files, "categories") <=> Present(other, "categories")
      /\ Present(files, "attributes") <=> Present(other, "attributes")
  BY <1>1, <1>2 DEF SameSet
<1> SUFFICES ASSUME NEW product
             PROVE  /\ CategoryNames(files, product) = CategoryNames(other, product)
                    /\ CategoryEvidence(files, product) = CategoryEvidence(other, product)
                    /\ AttributeTerms(files, product) = AttributeTerms(other, product)
                    /\ AttributeEvidence(files, product) = AttributeEvidence(other, product)
  BY DEF SameSayings
<1>4. ASSUME Present(files, "categories")
      PROVE  /\ CategoryNames(files, product) = CategoryNames(other, product)
             /\ CategoryEvidence(files, product) = CategoryEvidence(other, product)
  <2>1. Present(other, "categories") /\ Items(files, "categories") = Items(other, "categories")
    BY <1>2, <1>3, <1>4
  <2>2. CategoryNames(files, product) = CategoryNames(other, product)
    BY <1>4, <2>1, CategoriesSaid
  <2>3. CategoryEvidence(files, product) = CategoryEvidence(other, product)
    BY <1>4, <2>1, CategoriesSaid
  <2> QED
    BY <2>2, <2>3
<1>5. ASSUME Present(files, "attributes")
      PROVE  /\ AttributeTerms(files, product) = AttributeTerms(other, product)
             /\ AttributeEvidence(files, product) = AttributeEvidence(other, product)
  <2>1. Present(other, "attributes") /\ Items(files, "attributes") = Items(other, "attributes")
    BY <1>2, <1>3, <1>5
  <2>2. AttributeTerms(files, product) = AttributeTerms(other, product)
    BY <1>5, <2>1, AttributesSaid
  <2>3. AttributeEvidence(files, product) = AttributeEvidence(other, product)
    BY <1>5, <2>1, AttributesSaid
  <2> QED
    BY <2>2, <2>3
<1>6. ~Present(files, "categories") =>
        /\ CategoryNames(files, product) = CategoryNames(other, product)
        /\ CategoryEvidence(files, product) = CategoryEvidence(other, product)
  BY <1>3 DEF CategoryNames, CategoryEvidence, CategoriesOf
<1>7. ~Present(files, "attributes") =>
        /\ AttributeTerms(files, product) = AttributeTerms(other, product)
        /\ AttributeEvidence(files, product) = AttributeEvidence(other, product)
  BY <1>3 DEF AttributeTerms, AttributeEvidence, AttributesOf
<1> QED
  BY <1>4, <1>5, <1>6, <1>7

(* The records of data sets that are there.                                  *)
LEMMA AlikeRecords ==
  ASSUME NEW files, NEW other, Alike(files, other), Accepted(files)
  PROVE  AllRecords(files) = AllRecords(other)
<1>1. \A dataset \in InParts : SameSet(files, other, dataset)
  BY AlikeSets
<1>2. /\ SameSet(files, other, "products") /\ SameSet(files, other, "endpoints")
      /\ SameSet(files, other, "session-endpoints") /\ SameSet(files, other, "forms")
      /\ SameSet(files, other, "topics")
  BY <1>1 DEF InParts
<1>3. SameCitations(files, other)
  BY AlikeCitations
<1>4. /\ Present(files, "products") /\ Present(files, "endpoints") /\ Present(files, "forms")
      /\ Present(files, "topics")
  BY DEF Accepted, ProductsAccepted, EndpointsAccepted, FormsAccepted, TopicsAccepted, Whole
<1>5. ActionRecords(files) = ActionRecords(other)
  <2>1. files[<<"actions", 0>>] = other[<<"actions", 0>>]
    BY AlikeFirst DEF Alike
  <2> QED
    BY <2>1 DEF ActionRecords
<1>6. ProductRecords(files) = ProductRecords(other)
  <2>1. PICK items : items = Items(files, "products")
    OBVIOUS
  <2>2. Items(other, "products") = items
    BY <1>2, <1>4, <2>1 DEF SameSet
  <2>3. \A item : ProductRecord(files, item) = ProductRecord(other, item)
    <3>1. SameSayings(files, other)
      BY AlikeSayings
    <3>2. ASSUME NEW item
          PROVE  ProductRecord(files, item) =
                   Record(item.id, "product", item.name,
                     <<item.slug>> \o [i \in DOMAIN item.numbers |-> <<Tag("product"), item.numbers[i]>>],
                     item.name \o item.slug \o item.categories \o CategoryNames(files, item.id)
                       \o AttributeTerms(files, item.id),
                     item.evidence \o CategoryEvidence(files, item.id) \o AttributeEvidence(files, item.id))
      BY DEF ProductRecord, CategoryNames, AttributeTerms, CategoryEvidence, AttributeEvidence,
             CategoriesOf, AttributesOf, Gather
    <3>3. ASSUME NEW item
          PROVE  ProductRecord(other, item) =
                   Record(item.id, "product", item.name,
                     <<item.slug>> \o [i \in DOMAIN item.numbers |-> <<Tag("product"), item.numbers[i]>>],
                     item.name \o item.slug \o item.categories \o CategoryNames(other, item.id)
                       \o AttributeTerms(other, item.id),
                     item.evidence \o CategoryEvidence(other, item.id) \o AttributeEvidence(other, item.id))
      BY DEF ProductRecord, CategoryNames, AttributeTerms, CategoryEvidence, AttributeEvidence,
             CategoriesOf, AttributesOf, Gather
    <3>4. ASSUME NEW item
          PROVE  /\ CategoryNames(files, item.id) = CategoryNames(other, item.id)
                 /\ CategoryEvidence(files, item.id) = CategoryEvidence(other, item.id)
                 /\ AttributeTerms(files, item.id) = AttributeTerms(other, item.id)
                 /\ AttributeEvidence(files, item.id) = AttributeEvidence(other, item.id)
      BY <3>1 DEF SameSayings
    <3> QED
      BY <3>2, <3>3, <3>4
  <2>4. /\ ProductRecords(files) = [i \in DOMAIN items |-> ProductRecord(files, items[i])]
        /\ ProductRecords(other) = [i \in DOMAIN items |-> ProductRecord(other, items[i])]
    BY <2>1, <2>2 DEF ProductRecords
  <2> QED
    BY <2>3, <2>4
<1>7. EntityRecords(files) = EntityRecords(other)
  <2>1. files[<<"entities", 0>>] = other[<<"entities", 0>>]
    BY AlikeFirst DEF Alike
  <2> QED
    BY <2>1 DEF EntityRecords
<1>8. CensusRecords(files) = CensusRecords(other)
  <2>1. PICK items : items = Items(files, "endpoints")
    OBVIOUS
  <2>2. Items(other, "endpoints") = items
    BY <1>2, <1>4, <2>1 DEF SameSet
  <2>3. /\ CensusRecords(files) = [i \in DOMAIN items |->
             EndpointRecord(items[i], ObservationRefs(files, items[i].examples), Numbers(items[i].types))]
        /\ CensusRecords(other) = [i \in DOMAIN items |->
             EndpointRecord(items[i], ObservationRefs(other, items[i].examples), Numbers(items[i].types))]
    BY <2>1, <2>2 DEF CensusRecords
  <2>4. \A i : ObservationRefs(files, items[i].examples) = ObservationRefs(other, items[i].examples)
    BY <1>3 DEF SameCitations
  <2> QED
    BY <2>3, <2>4
<1>9. SessionRecords(files) = SessionRecords(other)
  <2>1. CASE Present(files, "session-endpoints")
    <3>1. Items(files, "session-endpoints") = Items(other, "session-endpoints")
          /\ Present(other, "session-endpoints")
      BY <1>2, <2>1 DEF SameSet
    <3>2. PICK items : items = Items(files, "session-endpoints")
      OBVIOUS
    <3>3. /\ SessionRecords(files) = [i \in DOMAIN items |->
               EndpointRecord(items[i], items[i].evidence, Append(items[i].types, items[i].class))]
          /\ SessionRecords(other) = [i \in DOMAIN items |->
               EndpointRecord(items[i], items[i].evidence, Append(items[i].types, items[i].class))]
      BY <2>1, <3>1, <3>2 DEF SessionRecords
    <3> QED
      BY <3>3
  <2>2. CASE ~Present(files, "session-endpoints")
    <3>1. ~Present(other, "session-endpoints")
      BY <1>2, <2>2 DEF SameSet
    <3> QED
      BY <2>2, <3>1 DEF SessionRecords
  <2> QED
    BY <2>1, <2>2
<1>10. EndpointRecords(files) = EndpointRecords(other)
  BY <1>8, <1>9 DEF EndpointRecords
<1>11. OperationRecords(files) = OperationRecords(other)
  <2>1. files[<<"operations", 0>>] = other[<<"operations", 0>>]
    BY AlikeFirst DEF Alike
  <2>2. \A item : OperationRecord(files, item) = OperationRecord(other, item)
    <3>1. ASSUME NEW item PROVE OperationRecord(files, item) = OperationRecord(other, item)
      <4>1. ObservationRefs(files, item.observations) = ObservationRefs(other, item.observations)
        BY <1>3 DEF SameCitations
      <4> QED
        BY <4>1 DEF OperationRecord
    <3> QED
      BY <3>1
  <2> QED
    BY <2>1, <2>2 DEF OperationRecords
<1>12. FormRecords(files) = FormRecords(other)
  <2>1. PICK items : items = Items(files, "forms")
    OBVIOUS
  <2>2. Items(other, "forms") = items
    BY <1>2, <1>4, <2>1 DEF SameSet
  <2>3. \A item : FormRecord(files, item) = FormRecord(other, item)
    <3>1. ASSUME NEW item PROVE FormRecord(files, item) = FormRecord(other, item)
      <4>1. ObservationRefs(files, item.observed) = ObservationRefs(other, item.observed)
        BY <1>3 DEF SameCitations
      <4> QED
        BY <4>1 DEF FormRecord
    <3> QED
      BY <3>1
  <2>4. /\ FormRecords(files) = [i \in DOMAIN items |-> FormRecord(files, items[i])]
        /\ FormRecords(other) = [i \in DOMAIN items |-> FormRecord(other, items[i])]
    BY <2>1, <2>2 DEF FormRecords
  <2> QED
    BY <2>3, <2>4
<1>13. TopicRecords(files) = TopicRecords(other)
  <2>1. PICK items : items = Items(files, "topics")
    OBVIOUS
  <2>2. Items(other, "topics") = items
    BY <1>2, <1>4, <2>1 DEF SameSet
  <2>3. \A item : TopicRecord(files, item) = TopicRecord(other, item)
    <3>1. ASSUME NEW item PROVE TopicRecord(files, item) = TopicRecord(other, item)
      <4>1. ObservationRef(files, item.source) = ObservationRef(other, item.source)
        BY <1>3 DEF SameCitations
      <4> QED
        BY <4>1 DEF TopicRecord
    <3> QED
      BY <3>1
  <2>4. /\ TopicRecords(files) = [i \in DOMAIN items |-> TopicRecord(files, items[i])]
        /\ TopicRecords(other) = [i \in DOMAIN items |-> TopicRecord(other, items[i])]
    BY <2>1, <2>2 DEF TopicRecords
  <2> QED
    BY <2>3, <2>4
<1> QED
  BY <1>5, <1>6, <1>7, <1>10, <1>11, <1>12, <1>13 DEF AllRecords

LEMMA AlikeIsSymmetric ==
  ASSUME NEW files, NEW other, Alike(files, other)
  PROVE  Alike(other, files)
<1>1. SameFirst(other, files)
  BY DEF Alike, SameFirst
<1>2. ASSUME NEW dataset \in InParts PROVE SameParts(other, files, dataset)
  <2>1. files[<<dataset, 0>>] = other[<<dataset, 0>>]
    BY DataSetsAre DEF Alike, SameFirst, InParts
  <2>2. PartNames(files, dataset) = PartNames(other, dataset) /\ (Present(files, dataset) <=> Present(other, dataset))
    BY <2>1 DEF PartNames, IndexOf, Present
  <2> QED
    BY <2>2 DEF Alike, SameParts
<1> QED
  BY <1>1, <1>2 DEF Alike

(* Files that are alike are projected alike.                                 *)
LEMMA AlikeProjected ==
  ASSUME NEW files, NEW other, Alike(files, other)
  PROVE  Projected(files) = Projected(other)
<1>1. Accepted(files) <=> Accepted(other)
  BY AlikeAccepted, AlikeIsSymmetric
<1>2. CASE Accepted(files)
  <2>1. PICK a : a = AllRecords(files)
    OBVIOUS
  <2>2. AllRecords(other) = a
    BY <1>2, <2>1, AlikeRecords
  <2>3. /\ Projected(files) = IF Keyed(a, LAMBDA r : r.ref) THEN InOrder(a) ELSE Refused
        /\ Projected(other) = IF Keyed(a, LAMBDA r : r.ref) THEN InOrder(a) ELSE Refused
    BY <1>1, <1>2, <2>1, <2>2 DEF Projected, Keyed
  <2> QED
    BY <2>3
<1>3. CASE ~Accepted(files)
  BY <1>1, <1>3 DEF Projected
<1> QED
  BY <1>2, <1>3

(* What a rebuild has read undisturbed is alike with what is there.          *)
LEMMA ReadIsAlike ==
  ASSUME CuratedInv, KnowledgeInv, rebuild.pc = "knowledge", rebuild.want = <<>>, ~rebuild.disturbed
  PROVE  Alike(rebuild.got, curated)
<1>1. Complete(rebuild.got)
  BY ReadIsComplete
<1>2. \A file \in DOMAIN rebuild.got : rebuild.got[file] = curated[file]
  BY DEF KnowledgeInv
<1>3. SameFirst(rebuild.got, curated)
  BY <1>1, <1>2 DEF Complete, SameFirst, Range
<1>4. ASSUME NEW dataset \in InParts, Present(rebuild.got, dataset)
      PROVE  \A i \in DOMAIN PartNames(rebuild.got, dataset) : PartNames(rebuild.got, dataset)[i] \in DOMAIN rebuild.got
  BY <1>1, <1>4, PartsAre
<1> QED
  BY <1>2, <1>3, <1>4 DEF Alike, SameParts

-----------------------------------------------------------------------------
(* What is wrong in some files of a session is wrong in all of them.         *)
Starts(s, t) == Len(s) <= Len(t) /\ \A i \in 1 .. Len(s) : t[i] = s[i]

LEMMA FlattenStarts ==
  ASSUME NEW U, NEW p \in Seq(Seq(U)), NEW q \in Seq(Seq(U)), Starts(p, q)
  PROVE  Starts(FlattenSeq(p), FlattenSeq(q)) /\ FlattenSeq(p) \in Seq(U) /\ FlattenSeq(q) \in Seq(U)
<1> DEFINE m == Len(p)
           n == Len(q)
<1>1. m \in Nat /\ n \in Nat /\ m <= n /\ \A k \in 1 .. m : q[k] = p[k]
  BY DEF Starts
<1>2. PICK g \in [0 .. m -> Seq(U)] : FlattensTo(g, p) /\ FlattenSeq(p) = g[m]
  BY FlattenSteps
<1>3. PICK h \in [0 .. n -> Seq(U)] : FlattensTo(h, q) /\ FlattenSeq(q) = h[n]
  BY FlattenSteps
<1>4. \A k \in 1 .. n : q[k] \in Seq(U)
  OBVIOUS
<1>5. /\ g[0] = <<>> /\ \A k \in 1 .. m : g[k] = g[k - 1] \o p[k]
      /\ h[0] = <<>> /\ \A k \in 1 .. n : h[k] = h[k - 1] \o q[k]
  BY <1>2, <1>3 DEF FlattensTo
<1> HIDE DEF m, n
<1> DEFINE T == {k \in Nat : k <= m => h[k] = g[k]}
<1>6. 0 \in T
  BY <1>5
<1>7. ASSUME NEW k \in Nat, k \in T PROVE k + 1 \in T
  <2> SUFFICES ASSUME k + 1 <= m PROVE h[k + 1] = g[k + 1]
    OBVIOUS
  <2>1. k + 1 \in 1 .. m /\ k + 1 \in 1 .. n /\ (k + 1) - 1 = k /\ k <= m
    BY <1>1
  <2>2. h[k + 1] = h[k] \o q[k + 1] /\ g[k + 1] = g[k] \o p[k + 1] /\ q[k + 1] = p[k + 1]
    BY <1>1, <1>5, <2>1
  <2> QED
    BY <1>7, <2>1, <2>2
<1>8. h[m] = g[m]
  <2>1. m \in T
    <3> HIDE DEF T
    <3> QED
      BY <1>1, <1>6, <1>7, Induction
  <2> QED
    BY <2>1
<1> DEFINE R == {k \in Nat : m + k <= n => Starts(h[m], h[m + k])}
<1>9. 0 \in R
  BY <1>1 DEF Starts
<1>10. ASSUME NEW k \in Nat, k \in R PROVE k + 1 \in R
  <2> SUFFICES ASSUME m + (k + 1) <= n PROVE Starts(h[m], h[m + (k + 1)])
    OBVIOUS
  <2>1. /\ m + (k + 1) \in 1 .. n /\ (m + (k + 1)) - 1 = m + k /\ m + k <= n
        /\ m + k \in 0 .. n /\ m \in 0 .. n
    BY <1>1
  <2>2. PICK a, b, c : a = h[m] /\ b = h[m + k] /\ c = q[m + (k + 1)]
    OBVIOUS
  <2>3. a \in Seq(U) /\ b \in Seq(U) /\ c \in Seq(U)
    BY <1>3, <1>4, <2>1, <2>2
  <2>4. h[m + (k + 1)] = b \o c
    BY <1>5, <2>1, <2>2
  <2>5. Starts(a, b)
    BY <1>10, <2>1, <2>2
  <2>6. Starts(a, b \o c)
    <3>1. Len(b \o c) = Len(b) + Len(c) /\ Len(a) \in Nat /\ Len(b) \in Nat /\ Len(c) \in Nat
          /\ \A i \in 1 .. Len(b) : (b \o c)[i] = b[i]
      BY <2>3
    <3>2. Len(a) <= Len(b) /\ \A i \in 1 .. Len(a) : i \in 1 .. Len(b)
      BY <2>5, <3>1 DEF Starts
    <3>3. Len(a) <= Len(b \o c)
      BY <3>1, <3>2
    <3>4. \A i \in 1 .. Len(a) : (b \o c)[i] = a[i]
      BY <2>5, <3>1, <3>2 DEF Starts
    <3> QED
      BY <3>3, <3>4 DEF Starts
  <2> QED
    BY <2>2, <2>4, <2>6
<1>11. Starts(h[m], h[n])
  <2>1. PICK d \in Nat : m + d = n
    <3> HIDE DEF T, R
    <3>1. n - m \in Nat /\ m + (n - m) = n
      BY <1>1
    <3> QED
      BY <3>1
  <2>2. d \in R
    <3> HIDE DEF R
    <3> QED
      BY <1>9, <1>10, Induction
  <2>3. Starts(h[m], h[m + d])
    <3>1. m + d <= n
      BY <1>1, <2>1
    <3> QED
      BY <2>2, <3>1
  <2> QED
    BY <2>1, <2>3
<1>12. g[m] \in Seq(U) /\ h[n] \in Seq(U)
  BY <1>1, <1>2, <1>3
<1>13. Starts(g[m], h[n])
  BY <1>8, <1>11
<1> QED
  BY <1>2, <1>3, <1>12, <1>13

LEMMA StartIsOf ==
  ASSUME NEW U, NEW s \in Seq(U), NEW t \in Seq(U), Starts(s, t), NEW session, AreOf(session, t)
  PROVE  AreOf(session, s)
<1>1. /\ DOMAIN s = 1 .. Len(s) /\ DOMAIN t = 1 .. Len(t) /\ Len(s) \in Nat /\ Len(t) \in Nat
      /\ Len(s) <= Len(t) /\ \A i \in 1 .. Len(s) : t[i] = s[i]
  BY DEF Starts
<1>2. \A i \in 1 .. Len(s) : i \in DOMAIN t
  BY <1>1
<1>3. \A i \in DOMAIN t : t[i].session = session /\ t[i].sequence = i - 1
  BY DEF AreOf
<1>4. \A i, j \in DOMAIN t : t[i].id = t[j].id => i = j
  BY DEF AreOf
<1>5. \A i \in DOMAIN s : s[i].session = session /\ s[i].sequence = i - 1
  BY <1>1, <1>2, <1>3
<1>6. \A i, j \in DOMAIN s : s[i].id = s[j].id => i = j
  BY <1>1, <1>2, <1>4
<1> QED
  BY <1>5, <1>6 DEF AreOf

(* The sessions of a list are in it once.                                    *)
LEMMA NumbersOnce ==
  ASSUME NEW S, S \subseteq Int, IsFiniteSet(S)
  PROVE  Once(Numbers(S))
<1>0. PICK R : R = {p \in S \X S : p[1] < p[2]}
  OBVIOUS
<1>1. IsOrder(S, R)
  BY <1>0 DEF IsOrder
<1>2. \A x \in S : Cardinality({y \in S : y < x}) = Rank(S, R, x)
  <2>1. \A x \in S : {y \in S : y < x} = {y \in S : <<y, x>> \in R}
    BY <1>0
  <2> QED
    BY <2>1 DEF Rank
<1>3. PICK q : q = Numbers(S)
  OBVIOUS
<1>4. \A i \in 1 .. Cardinality(S) :
        (\E x \in S : Rank(S, R, x) = i - 1) => q[i] \in S /\ Rank(S, R, q[i]) = i - 1
  <2> TAKE i \in 1 .. Cardinality(S)
  <2> HAVE \E x \in S : Rank(S, R, x) = i - 1
  <2>1. \E x \in S : Cardinality({y \in S : y < x}) = i - 1
    BY <1>2
  <2>2. q[i] = CHOOSE x \in S : Cardinality({y \in S : y < x}) = i - 1
    BY <1>3 DEF Numbers, Ordered
  <2> QED
    BY <1>2, <2>1, <2>2
<1>5. q = [i \in 1 .. Cardinality(S) |-> q[i]]
  BY ONLY <1>3, SMTT(30) DEF Numbers, Ordered
<1>6. q \in Seq(S) /\ Sorted(q, R)
  BY ONLY IsFiniteSet(S), <1>1, <1>4, <1>5, OrderedIsSorted
<1>7. Once(q)
  <2> SUFFICES ASSUME NEW i \in DOMAIN q, NEW j \in DOMAIN q, q[i] = q[j] PROVE i = j
    BY DEF Once
  <2>1. i \in Nat /\ j \in Nat
    BY <1>6
  <2>2. \A x, y \in Int : <<x, y>> \in R => x < y
    BY <1>0
  <2>3. q[i] \in Int /\ q[j] \in Int
    <3>1. q[i] \in S /\ q[j] \in S
      BY <1>6
    <3> QED
      BY <3>1
  <2>4. ~(q[i] < q[j]) /\ ~(q[j] < q[i])
    BY <2>3
  <2>5. ~(i < j) /\ ~(j < i)
    BY <1>6, <2>2, <2>3, <2>4 DEF Sorted
  <2> QED
    BY <2>1, <2>5
<1> QED
  BY <1>3, <1>7

(* What leaves a list without repeats is not left in it.                     *)
LEMMA HeadLeaves ==
  ASSUME NEW S, NEW s \in Seq(S), s # <<>>, Once(s)
  PROVE  Once(Tail(s)) /\ Head(s) \notin Range(Tail(s)) /\ Range(Tail(s)) \subseteq Range(s)
         /\ Head(s) \in Range(s)
<1>1. /\ Tail(s) \in Seq(S) /\ Len(s) \in Nat /\ Len(s) > 0 /\ DOMAIN s = 1 .. Len(s)
      /\ DOMAIN Tail(s) = 1 .. Len(s) - 1 /\ Head(s) = s[1]
      /\ \A k \in 1 .. Len(s) - 1 : Tail(s)[k] = s[k + 1]
  OBVIOUS
<1>2. 1 \in DOMAIN s /\ \A k \in 1 .. Len(s) - 1 : k + 1 \in DOMAIN s /\ k + 1 # 1
  BY <1>1
<1>3. \A i, j \in DOMAIN s : s[i] = s[j] => i = j
  BY DEF Once
<1> DEFINE t == Tail(s)
<1> HIDE DEF t
<1>4. DOMAIN t = 1 .. Len(s) - 1 /\ \A k \in 1 .. Len(s) - 1 : t[k] = s[k + 1]
  BY <1>1 DEF t
<1>5. Once(t)
  <2> SUFFICES ASSUME NEW i \in 1 .. Len(s) - 1, NEW j \in 1 .. Len(s) - 1, t[i] = t[j] PROVE i = j
    BY <1>4 DEF Once
  <2>1. i + 1 = j + 1
    BY <1>2, <1>3, <1>4
  <2> QED
    BY <1>1, <2>1
<1>6. s[1] \notin Range(t) /\ Range(t) \subseteq Range(s) /\ s[1] \in Range(s)
  BY <1>2, <1>3, <1>4 DEF Range
<1> QED
  BY <1>1, <1>5, <1>6 DEF t

-----------------------------------------------------------------------------
(* What an undisturbed rebuild has: a projection that reads back; the        *)
(* manifest and the contents that are there still; and sessions that it      *)
(* reads once each.                                                          *)
ProjectionInv ==
  rebuild.pc \in {"projected", "list", "session", "inspect", "stage"} => Validates(rebuild.records)

CalmInv ==
  rebuild.pc \in {"inspect", "stage"} /\ ~rebuild.disturbed =>
    /\ rebuild.first = manifest[This]
    /\ \A k \in DOMAIN rebuild.contents : rebuild.contents[k] = events[rebuild.first.files[k]]
    /\ \A k \in DOMAIN rebuild.snapshot : rebuild.snapshot[k] = events[rebuild.first.files[k]]

TodoInv ==
  Reading =>
    /\ Once(rebuild.todo)
    /\ \A r \in Range(rebuild.summaries) : r.session \notin Range(rebuild.todo)
    /\ \A i, j \in DOMAIN rebuild.summaries :
         rebuild.summaries[i].session = rebuild.summaries[j].session => i = j

Carries == rebuild'.records = rebuild.records /\ rebuild'.disturbed = rebuild.disturbed

LEMMA ReadingCarries ==
  ASSUME Shape,
         \/ ReadManifest \/ InspectFile \/ ReadAgain \/ StageFile \/ Summarise \/ Build
         \/ OpenChanges \/ ListSessions,
         ~Refuse
  PROVE  Carries
<1> USE IdleFields DEF Shape
<1>1. CASE ReadManifest
  <2>1. rebuild' = NextSession \/ rebuild' = [rebuild EXCEPT !.pc = "inspect", !.first = manifest[This]]
    BY <1>1 DEF ReadManifest, Becomes
  <2> QED
    BY <2>1 DEF NextSession, Carries
<1>2. CASE InspectFile
  <2>1. \E state, contents : rebuild' = [rebuild EXCEPT !.state = state, !.contents = contents]
    <3>1. PICK state, contents :
            /\ state = ReadEvents(This, rebuild.state,
                                  events[rebuild.first.files[Len(rebuild.contents) + 1]])
            /\ contents = Append(rebuild.contents,
                                 events[rebuild.first.files[Len(rebuild.contents) + 1]])
      OBVIOUS
    <3>2. rebuild' = [rebuild EXCEPT !.state = state, !.contents = contents]
      BY <1>2, <3>1 DEF InspectFile, Becomes
    <3> QED
      BY <3>2
  <2> QED
    BY <2>1 DEF Carries
<1>3. CASE ReadAgain
  BY <1>3 DEF ReadAgain, Becomes, Carries
<1>4. CASE StageFile
  <2>1. \E snapshot : rebuild' = [rebuild EXCEPT !.snapshot = snapshot]
    BY <1>4 DEF StageFile, Becomes
  <2> QED
    BY <2>1 DEF Carries
<1>5. CASE Summarise
  <2>1. \E rows : rebuild' = [NextSession EXCEPT !.summaries = rows]
    BY <1>5 DEF Summarise, Becomes
  <2> QED
    BY <2>1 DEF NextSession, Carries
<1>6. CASE Build
  <2>1. \E changes : rebuild' = [rebuild EXCEPT !.pc = "staged", !.snapshot = changes]
    BY <1>6 DEF Build, Becomes
  <2> QED
    BY <2>1 DEF Carries
<1>7. CASE OpenChanges
  <2>1. rebuild' = [rebuild EXCEPT !.pc = "list", !.opened = detector.stage = "ready",
                                   !.atStart = FinishedNow]
    BY <1>7 DEF OpenChanges, Becomes
  <2> QED
    BY <2>1 DEF Carries
<1>8. CASE ListSessions
  <2>1. \E todo : rebuild' = [rebuild EXCEPT !.pc = "session", !.todo = todo]
    BY <1>8 DEF ListSessions, Becomes
  <2> QED
    BY <2>1 DEF Carries
<1> QED
  BY <1>1, <1>2, <1>3, <1>4, <1>5, <1>6, <1>7, <1>8

LEMMA StepsCarry ==
  ASSUME Shape, WorldInv, RebuildStep
  PROVE  \/ Rebuild \/ Refuse \/ Replace \/ Crash
         \/ (ReadKnowledge \/ Project) /\ ~Refuse
         \/ (OpenChanges \/ ListSessions) /\ ~Refuse /\ Carries
         \/ /\ Keeps /\ Carries
            /\ Skips \/ Begins \/ Inspects \/ FindsSame \/ Stages \/ Sums \/ Builds
  BY ReadingFields, ReadingCarries DEF RebuildStep

(* While nothing is altered, what has ended stays as it is.                  *)
LEMMA CalmWorld ==
  ASSUME Shape, World \/ ClientStep \/ UNCHANGED vars, EventsInv,
         rebuild.pc \notin {"idle", "refused"}, ~rebuild'.disturbed
  PROVE  /\ ~rebuild.disturbed
         /\ events' = events
         /\ \A s : manifest[s].status \in FinalizedStatuses => manifest'[s] = manifest[s]
<1>1. ASSUME NEW edit, Disturb(edit) PROVE FALSE
  <2>1. rebuild' = [rebuild EXCEPT !.disturbed = TRUE]
    BY <1>1 DEF Disturb
  <2>2. rebuild'.disturbed = TRUE
    BY <2>1, IdleFields DEF Shape
  <2> QED
    BY <2>2
<1>2. ~rebuild.disturbed
  <2>1. rebuild' \in {rebuild, [rebuild EXCEPT !.disturbed = TRUE]}
    BY WorldLeaves DEF ClientStep, List, NextPage, AnswerClient, vars
  <2>2. CASE rebuild' = rebuild
    BY <2>2
  <2>3. CASE rebuild' = [rebuild EXCEPT !.disturbed = TRUE]
    <3>1. rebuild'.disturbed = TRUE
      BY <2>3, IdleFields DEF Shape
    <3> QED
      BY <3>1
  <2> QED
    BY <2>1, <2>2, <2>3
<1>3. CASE UNCHANGED <<manifest, events>>
  BY <1>2, <1>3
<1>4. CASE \E s \in Session :
             \/ MakeDirectory(s) \/ StartSession(s) \/ AlterManifest(s)
             \/ \E status \in Outcomes : EndSession(s, status)
  <2>1. PICK s \in Session :
             \/ MakeDirectory(s) \/ StartSession(s) \/ AlterManifest(s)
             \/ \E status \in Outcomes : EndSession(s, status)
    BY <1>4
  <2>2. ~AlterManifest(s)
    BY <1>1 DEF AlterManifest
  <2>3. /\ events' = events /\ \E m : manifest' = [manifest EXCEPT ![s] = m]
        /\ manifest[s].status \in {"absent", "none", "running"}
    BY <2>1, <2>2 DEF MakeDirectory, StartSession, EndSession, SessionChanges, NoDirectory, NoManifest
  <2>4. manifest[s].status \notin FinalizedStatuses
    BY <2>3 DEF FinalizedStatuses
  <2> QED
    BY <1>2, <2>3, <2>4
<1>5. ASSUME NEW f \in DOMAIN Rewrites, NEW i \in DOMAIN Rewrites[f], AlterEvents(f, i) PROVE FALSE
  BY <1>1, <1>5 DEF AlterEvents
<1>6. ClientStep \/ UNCHANGED vars => UNCHANGED <<manifest, events>>
  BY OthersLeaveWorld DEF world
<1>7. World => \/ UNCHANGED <<manifest, events>>
               \/ \E s \in Session :
                    \/ MakeDirectory(s) \/ StartSession(s) \/ AlterManifest(s)
                    \/ \E status \in Outcomes : EndSession(s, status)
               \/ \E f \in DOMAIN Rewrites : \E i \in DOMAIN Rewrites[f] : AlterEvents(f, i)
  BY DEF World, Curate, CreateState, BootstrapState, ProcessSession, DetectorChanges
<1> QED
  BY <1>3, <1>4, <1>5, <1>6, <1>7

(* What is projected reads back, and is kept until it is written.            *)
LEMMA ProjectedReadsBack ==
  ASSUME NEW files, Complete(files), Projected(files) # Refused
  PROVE  Validates(Projected(files))
<1>1. AreListed(Projected(files))
  BY SayingsAreAnswered
<1> QED
  BY <1>1, ListedIsReadBack

LEMMA ProjectionInvStep ==
  ASSUME ProjectionInv, ProgressInv, WorldInv, CuratedInv, KnowledgeInv, [Next]_vars
  PROVE  ProjectionInv'
<1>0. Shape
  BY DEF ProgressInv
<1>1. CASE World \/ ClientStep \/ UNCHANGED vars
  <2>1. rebuild' \in {rebuild, [rebuild EXCEPT !.disturbed = TRUE]}
    BY <1>1, WorldLeaves DEF ClientStep, List, NextPage, AnswerClient, vars
  <2>2. rebuild'.pc = rebuild.pc /\ rebuild'.records = rebuild.records
    BY <1>0, <2>1, IdleFields DEF Shape
  <2> QED
    BY <2>2 DEF ProjectionInv
<1>2. CASE Rebuild \/ Refuse \/ Replace \/ Crash
  BY <1>2, EndedFields DEF ProjectionInv
<1>3. CASE ReadKnowledge
  <2>1. rebuild'.pc = "knowledge"
    <3>1. \E want, got : rebuild.pc = "knowledge" /\ rebuild' = [rebuild EXCEPT !.want = want, !.got = got]
      BY <1>3 DEF ReadKnowledge, Becomes
    <3> QED
      BY <1>0, <3>1, IdleFields DEF Shape
  <2> QED
    BY <2>1 DEF ProjectionInv
<1>4. CASE Project /\ ~Refuse
  <2>1. PICK projection :
          /\ projection = Projected(rebuild.got) /\ projection # Refused
          /\ rebuild.pc = "knowledge" /\ rebuild.want = <<>>
          /\ rebuild' = [rebuild EXCEPT !.pc = "projected", !.records = projection, !.got = <<>>]
    BY <1>4 DEF Project, Becomes
  <2>2. Complete(rebuild.got)
    BY <2>1, ReadIsComplete
  <2>3. Validates(projection)
    BY <2>1, <2>2, ProjectedReadsBack
  <2>4. rebuild'.records = projection
    BY <1>0, <2>1, IdleFields DEF Shape
  <2> QED
    BY <2>3, <2>4 DEF ProjectionInv
<1>5. CASE (OpenChanges \/ ListSessions) /\ ~Refuse /\ Carries
  <2>1. rebuild.pc \in {"projected", "list"}
    BY <1>5 DEF OpenChanges, ListSessions
  <2> QED
    BY <1>5, <2>1 DEF ProjectionInv, Carries
<1>6. CASE Carries /\ (Skips \/ Begins \/ Inspects \/ FindsSame \/ Stages \/ Sums \/ Builds)
  <2>1. rebuild.pc \in {"session", "inspect", "stage"}
    BY <1>6 DEF Skips, Begins, Inspects, FindsSame, Stages, Sums, Builds
  <2> QED
    BY <1>6, <2>1 DEF ProjectionInv, Carries
<1> QED
  BY <1>0, <1>1, <1>2, <1>3, <1>4, <1>5, <1>6, StepsCarry DEF Next

(* An undisturbed rebuild has what is there.                                 *)
LEMMA CalmInvStep ==
  ASSUME CalmInv, EvidenceInv, ProgressInv, WorldInv, [Next]_vars
  PROVE  CalmInv'
<1>0. Shape /\ EventsInv
  BY DEF ProgressInv, WorldInv
<1> SUFFICES ASSUME rebuild'.pc \in {"inspect", "stage"}, ~rebuild'.disturbed
             PROVE  /\ rebuild'.first = manifest'[This']
                    /\ \A k \in DOMAIN rebuild'.contents : rebuild'.contents[k] = events'[rebuild'.first.files[k]]
                    /\ \A k \in DOMAIN rebuild'.snapshot : rebuild'.snapshot[k] = events'[rebuild'.first.files[k]]
  BY DEF CalmInv
<1>1. CASE World \/ ClientStep \/ UNCHANGED vars
  <2>1. Undisturbed
    BY <1>0, <1>1, StepsOfOthers
  <2>2. /\ rebuild.pc \in {"inspect", "stage"} /\ rebuild'.first = rebuild.first /\ This' = This
        /\ rebuild'.contents = rebuild.contents /\ rebuild'.snapshot = rebuild.snapshot
    BY <2>1 DEF Undisturbed, This
  <2>3. /\ ~rebuild.disturbed /\ events' = events
        /\ \A s : manifest[s].status \in FinalizedStatuses => manifest'[s] = manifest[s]
    BY <1>0, <1>1, <2>2, CalmWorld
  <2>4. rebuild.first.status \in FinalizedStatuses
    BY <2>2 DEF EvidenceInv, InspectingInv
  <2>5. rebuild.first = manifest[This]
    BY <2>2, <2>3 DEF CalmInv
  <2>6. manifest'[This] = manifest[This]
    BY <2>3, <2>4, <2>5
  <2> QED
    BY <2>2, <2>3, <2>5, <2>6 DEF CalmInv
<1>2. CASE Rebuild \/ Refuse \/ Replace \/ Crash
  BY <1>2, EndedFields
<1>3. CASE (ReadKnowledge \/ Project \/ OpenChanges \/ ListSessions) /\ ~Refuse
  <2>1. rebuild'.pc \notin {"inspect", "stage"}
    BY <1>0, <1>3, PreparingFields
  <2> QED
    BY <2>1
<1>4. CASE /\ RebuildStep /\ Carries
           /\ Skips \/ Begins \/ Inspects \/ FindsSame \/ Stages \/ Sums \/ Builds
  <2>1. ~rebuild.disturbed /\ events' = events /\ manifest' = manifest
    BY <1>0, <1>4, OthersLeaveWorld DEF Carries, world
  <2>2. CASE Skips \/ Sums \/ Builds
    BY <2>2 DEF Skips, Sums, Builds
  <2>3. CASE Begins
    <3>1. /\ rebuild'.first = manifest[This] /\ This' = This
          /\ rebuild'.contents = <<>> /\ rebuild'.snapshot = <<>>
      BY <2>3 DEF Begins, ProgressInv, This
    <3> QED
      BY <2>1, <3>1, EmptyAsSeq
  <2>4. CASE Inspects
    <3>1. /\ rebuild.pc = "inspect" /\ rebuild'.first = rebuild.first /\ This' = This
          /\ rebuild'.snapshot = rebuild.snapshot
      BY <2>4 DEF Inspects, This
    <3>2. /\ rebuild.first = manifest[This]
          /\ \A k \in DOMAIN rebuild.contents : rebuild.contents[k] = events[rebuild.first.files[k]]
          /\ \A k \in DOMAIN rebuild.snapshot : rebuild.snapshot[k] = events[rebuild.first.files[k]]
      BY <2>1, <3>1 DEF CalmInv
    <3>3. PICK contents, more, n, files :
            /\ contents = rebuild.contents /\ more = rebuild'.contents /\ n = Len(contents)
            /\ files = rebuild.first.files
      OBVIOUS
    <3>4. more = Append(contents, events[files[n + 1]])
      BY <2>4, <3>3 DEF Inspects
    <3>5. /\ DOMAIN more = 1 .. n + 1 /\ DOMAIN contents = 1 .. n /\ n \in Nat
          /\ \A k \in 1 .. n : more[k] = contents[k]
          /\ more[n + 1] = events[files[n + 1]]
      BY <3>3, <3>4, AppendedSeq DEF ProgressInv
    <3>6. \A k \in 1 .. n + 1 : more[k] = events[files[k]]
      <4> TAKE k \in 1 .. n + 1
      <4>1. CASE k \in 1 .. n
        BY <3>2, <3>3, <3>5, <4>1
      <4>2. CASE k = n + 1
        BY <3>5, <4>2
      <4> QED
        BY <3>5, <4>1, <4>2
    <3> QED
      BY <2>1, <3>1, <3>2, <3>3, <3>5, <3>6
  <2>5. CASE FindsSame
    <3>1. /\ rebuild.pc = "inspect" /\ rebuild'.first = rebuild.first /\ This' = This
          /\ rebuild'.contents = rebuild.contents /\ rebuild'.snapshot = rebuild.snapshot
      BY <2>5 DEF FindsSame, This
    <3> QED
      BY <2>1, <3>1 DEF CalmInv
  <2>6. CASE Stages
    <3>1. /\ rebuild.pc = "stage" /\ rebuild'.first = rebuild.first /\ This' = This
          /\ rebuild'.contents = rebuild.contents
      BY <2>6 DEF Stages, This
    <3>2. /\ rebuild.first = manifest[This]
          /\ \A k \in DOMAIN rebuild.contents : rebuild.contents[k] = events[rebuild.first.files[k]]
          /\ \A k \in DOMAIN rebuild.snapshot : rebuild.snapshot[k] = events[rebuild.first.files[k]]
      BY <2>1, <3>1 DEF CalmInv
    <3>3. PICK snapshot, more, n, files :
            /\ snapshot = rebuild.snapshot /\ more = rebuild'.snapshot /\ n = Len(snapshot)
            /\ files = rebuild.first.files
      OBVIOUS
    <3>4. more = Append(snapshot, events[files[n + 1]])
      BY <2>6, <3>3 DEF Stages
    <3>5. /\ DOMAIN more = 1 .. n + 1 /\ DOMAIN snapshot = 1 .. n /\ n \in Nat
          /\ \A k \in 1 .. n : more[k] = snapshot[k]
          /\ more[n + 1] = events[files[n + 1]]
      BY <3>1, <3>3, <3>4, AppendedSeq DEF EvidenceInv, StagingInv
    <3>6. \A k \in 1 .. n + 1 : more[k] = events[files[k]]
      <4> TAKE k \in 1 .. n + 1
      <4>1. CASE k \in 1 .. n
        BY <3>2, <3>3, <3>5, <4>1
      <4>2. CASE k = n + 1
        BY <3>5, <4>2
      <4> QED
        BY <3>5, <4>1, <4>2
    <3> QED
      BY <2>1, <3>1, <3>2, <3>3, <3>5, <3>6
  <2> QED
    BY <1>4, <2>2, <2>3, <2>4, <2>5, <2>6
<1> QED
  BY <1>0, <1>1, <1>2, <1>3, <1>4, StepsCarry DEF Next

(* Every session of the list is read once.                                   *)
LEMMA TodoInvStep ==
  ASSUME TodoInv, ProgressInv, WorldInv, [Next]_vars
  PROVE  TodoInv'
<1>0. Shape
  BY DEF ProgressInv
<1>1. CASE World \/ ClientStep \/ UNCHANGED vars
  BY <1>0, <1>1, StepsOfOthers DEF Undisturbed, TodoInv, Reading
<1>2. CASE Rebuild \/ Refuse \/ Replace \/ Crash
  BY <1>2, EndedFields DEF TodoInv, Reading
<1>3. CASE (ReadKnowledge \/ Project \/ OpenChanges \/ ListSessions) /\ ~Refuse
  <2>1. /\ rebuild.pc \in {"knowledge", "projected", "list"}
        /\ rebuild'.pc \in {"knowledge", "projected", "list", "session"}
        /\ rebuild'.summaries = rebuild.summaries
        /\ rebuild'.pc = "session" => rebuild'.todo = Numbers({s \in Session : manifest[s] # NoDirectory})
    BY <1>0, <1>3, PreparingFields
  <2>2. rebuild'.summaries = <<>>
    BY <2>1 DEF ProgressInv
  <2>3. Once(Numbers({s \in Session : manifest[s] # NoDirectory}))
    <3>1. PICK S : S = {s \in Session : manifest[s] # NoDirectory}
      OBVIOUS
    <3>2. S \subseteq Int /\ IsFiniteSet(S)
      BY <3>1, IndexAssumption, FS_Subset
    <3> QED
      BY <3>1, <3>2, NumbersOnce
  <2> QED
    BY <2>1, <2>2, <2>3, EmptyAsSeq DEF TodoInv, Reading
<1>4. CASE Skips \/ Begins \/ Inspects \/ FindsSame \/ Stages \/ Sums \/ Builds
  <2>0. /\ rebuild.pc \in {"session", "inspect", "stage"} /\ rebuild.todo \in Seq(Session)
        /\ Once(rebuild.todo) /\ \A r \in Range(rebuild.summaries) : r.session \notin Range(rebuild.todo)
        /\ \A i, j \in DOMAIN rebuild.summaries :
             rebuild.summaries[i].session = rebuild.summaries[j].session => i = j
    BY <1>4 DEF TodoInv, ProgressInv, Reading, Skips, Begins, Inspects, FindsSame, Stages, Sums, Builds
  <2>1. CASE Begins \/ Inspects \/ FindsSame \/ Stages
    BY <2>0, <2>1 DEF Begins, Inspects, FindsSame, Stages, TodoInv, Reading
  <2>2. CASE Builds
    BY <2>2 DEF Builds, TodoInv, Reading
  <2>3. ASSUME rebuild.todo # <<>>
        PROVE  /\ Once(Tail(rebuild.todo)) /\ This \notin Range(Tail(rebuild.todo))
               /\ Range(Tail(rebuild.todo)) \subseteq Range(rebuild.todo) /\ This \in Range(rebuild.todo)
    BY <2>0, <2>3, HeadLeaves DEF This
  <2>4. CASE Skips
    <3>1. rebuild.todo # <<>> /\ rebuild'.todo = Tail(rebuild.todo) /\ rebuild'.summaries = rebuild.summaries
      BY <2>4 DEF Skips
    <3> QED
      BY <2>0, <2>3, <3>1 DEF TodoInv
  <2>5. CASE Sums
    <3>1. PICK row : row.session = This /\ rebuild'.summaries = Append(rebuild.summaries, row)
      BY <2>5, SummaryFields DEF Sums
    <3>2. rebuild.todo # <<>> /\ rebuild'.todo = Tail(rebuild.todo)
      BY <2>5 DEF Sums, ProgressInv
    <3>3. PICK sums, more, n : sums = rebuild.summaries /\ more = rebuild'.summaries /\ n = Len(sums)
      OBVIOUS
    <3>4. /\ Range(more) = Range(sums) \cup {row} /\ DOMAIN more = 1 .. n + 1 /\ DOMAIN sums = 1 .. n
          /\ n \in Nat /\ \A k \in 1 .. n : more[k] = sums[k]
          /\ more[n + 1] = row
      BY <3>1, <3>3, AppendedSeq DEF ProgressInv
    <3>5. \A r \in Range(more) : r.session \notin Range(rebuild'.todo)
      BY <2>0, <2>3, <3>1, <3>2, <3>3, <3>4
    <3>6. \A i, j \in 1 .. n + 1 : more[i].session = more[j].session => i = j
      <4>0. \A r \in Range(sums) : r.session # This
        BY <2>0, <2>3, <3>2, <3>3
      <4>1. \A i \in 1 .. n : more[i] = sums[i] /\ more[i].session # This
        <5>1. \A i \in 1 .. n : sums[i] \in Range(sums)
          BY <3>4 DEF Range
        <5> QED
          BY <3>4, <4>0, <5>1
      <4>2. \A i, j \in 1 .. n : more[i].session = more[j].session => i = j
        BY <2>0, <3>3, <3>4
      <4>3. more[n + 1].session = This
        BY <3>1, <3>4
      <4>4. \A i \in 1 .. n + 1 : i \in 1 .. n \/ i = n + 1
        BY <3>4
      <4> QED
        BY <4>1, <4>2, <4>3, <4>4
    <3>7. \A i, j \in DOMAIN rebuild'.summaries :
            rebuild'.summaries[i].session = rebuild'.summaries[j].session => i = j
      BY <3>3, <3>4, <3>6
    <3> QED
      BY <2>3, <3>2, <3>3, <3>5, <3>7 DEF TodoInv
  <2> QED
    BY <1>4, <2>1, <2>2, <2>4, <2>5
<1> QED
  BY <1>0, <1>1, <1>2, <1>3, <1>4, RebuildSteps DEF Next

LEMMA CalmInit ==
  ASSUME Init
  PROVE  ProjectionInv /\ CalmInv /\ TodoInv /\ KnowledgeInv
<1>1. rebuild.pc = "idle"
  BY IdleFields DEF Init
<1> QED
  BY <1>1 DEF ProjectionInv, CalmInv, TodoInv, KnowledgeInv, Reading

-----------------------------------------------------------------------------
(* What a rebuild may be refused for, and the step that each cause is found  *)
(* at.                                                                       *)
Faulty(s) ==
  \/ manifest[s] = NoManifest
  \/ /\ manifest[s].status \in FinalizedStatuses
     /\ \/ ~HasOrderedEnds(manifest[s])
        \/ ~Genuine(s, <<manifest[s], ContentsOf(s, events)>>)

Cause ==
  \/ rebuild.disturbed
  \/ Projected(curated) = Refused
  \/ detector.stage = "empty"
  \/ \E s \in Session : Faulty(s)

LEMMA ProjectRefuses ==
  ASSUME CuratedInv, KnowledgeInv, Shape, Project, rebuild'.pc = "refused"
  PROVE  Cause
<1> SUFFICES ASSUME ~rebuild.disturbed PROVE Projected(curated) = Refused
  BY DEF Cause
<1>1. rebuild.pc = "knowledge" /\ rebuild.want = <<>>
  BY DEF Project
<1>2. Projected(rebuild.got) = Projected(curated)
  BY <1>1, ReadIsAlike, AlikeProjected
<1>3. Projected(rebuild.got) = Refused
  <2> SUFFICES ASSUME Projected(rebuild.got) # Refused PROVE FALSE
    OBVIOUS
  <2>1. PICK projection :
          rebuild' = [rebuild EXCEPT !.pc = "projected", !.records = projection, !.got = <<>>]
    BY DEF Project, Becomes
  <2> QED
    BY <2>1, IdleFields DEF Shape
<1> QED
  BY <1>2, <1>3

LEMMA OpenChangesRefuses ==
  ASSUME Shape, OpenChanges, rebuild'.pc = "refused"
  PROVE  Cause
<1> SUFFICES ASSUME detector.stage # "empty" PROVE FALSE
  BY DEF Cause
<1>1. PICK opened, atStart :
        rebuild' = [rebuild EXCEPT !.pc = "list", !.opened = opened, !.atStart = atStart]
  BY DEF OpenChanges, Becomes
<1> QED
  BY <1>1, IdleFields DEF Shape

LEMMA ReadManifestRefuses ==
  ASSUME ProgressInv, ReadManifest, rebuild'.pc = "refused"
  PROVE  Cause
<1>0. rebuild.pc = "session" /\ rebuild.todo # <<>> /\ Shape
  BY DEF ReadManifest, ProgressInv
<1>1. This \in Session
  BY <1>0, TailedSeq DEF ProgressInv, Reading, This
<1>2. manifest[This] = NoManifest
  <2> SUFFICES ASSUME manifest[This] # NoManifest PROVE FALSE
    OBVIOUS
  <2>1. rebuild' = NextSession \/ rebuild' = [rebuild EXCEPT !.pc = "inspect", !.first = manifest[This]]
    BY DEF ReadManifest, Becomes
  <2>2. CASE rebuild' = NextSession
    BY <1>0, <2>2, IdleFields DEF NextSession, Shape
  <2>3. CASE rebuild' = [rebuild EXCEPT !.pc = "inspect", !.first = manifest[This]]
    BY <1>0, <2>3, IdleFields DEF Shape
  <2> QED
    BY <2>1, <2>2, <2>3
<1> QED
  BY <1>1, <1>2 DEF Cause, Faulty

(* Of what a session's files hold now, a part that has been read and is not  *)
(* of the session: then all of it is not.                                    *)
LEMMA WrongStart ==
  ASSUME NEW s \in Session, NEW c \in Seq(Seq(Event)), EventsInv,
         Len(c) <= Len(FilesOf[s]),
         \A k \in 1 .. Len(c) : c[k] = events[FilesOf[s][k]],
         ~AreOf(s, FlattenSeq(c)),
         NEW m
  PROVE  ~Genuine(s, <<m, ContentsOf(s, events)>>)
<1> DEFINE n == Len(FilesOf[s])
<1>1. PICK all : all = ContentsOf(s, events)
  OBVIOUS
<1>2. FilesOf[s] \in Seq(DOMAIN Recorded)
  BY IndexAssumption
<1>3. /\ n \in Nat /\ DOMAIN FilesOf[s] = 1 .. n
      /\ \A k \in 1 .. n : events[FilesOf[s][k]] \in Seq(Event)
  <2>1. n \in Nat /\ DOMAIN FilesOf[s] = 1 .. n /\ \A k \in 1 .. n : FilesOf[s][k] \in DOMAIN Recorded
    BY <1>2
  <2>2. \A f \in DOMAIN Recorded : events[f] \in Contents
    BY DEF EventsInv
  <2>3. ASSUME NEW content \in Contents PROVE content \in Seq(Event)
    <3>1. content \in Seq(Range(content)) /\ Range(content) \subseteq Event
      BY IndexAssumption DEF Event
    <3> QED
      BY <3>1
  <2> QED
    BY <2>1, <2>2, <2>3
<1> HIDE DEF n
<1>4. all = [k \in 1 .. n |-> events[FilesOf[s][k]]]
  BY <1>1, <1>3 DEF ContentsOf
<1>5. all \in Seq(Seq(Event)) /\ Len(all) = n
  BY <1>3, <1>4
<1>6. Starts(c, all)
  <2>1. Len(c) <= Len(all) /\ Len(c) \in Nat
    BY <1>5 DEF n
  <2>2. \A k \in 1 .. Len(c) : all[k] = c[k]
    BY <1>3, <1>4, <1>5, <2>1
  <2> QED
    BY <2>1, <2>2 DEF Starts
<1>7. /\ Starts(FlattenSeq(c), FlattenSeq(all))
      /\ FlattenSeq(c) \in Seq(Event) /\ FlattenSeq(all) \in Seq(Event)
  BY <1>5, <1>6, FlattenStarts
<1>8. PICK p, q : p = FlattenSeq(c) /\ q = FlattenSeq(all)
  OBVIOUS
<1>9. ~AreOf(s, q)
  <2>1. p \in Seq(Event) /\ q \in Seq(Event) /\ Starts(p, q) /\ ~AreOf(s, p)
    BY <1>7, <1>8
  <2> QED
    BY ONLY <2>1, StartIsOf
<1> QED
  BY <1>1, <1>8, <1>9 DEF Genuine, AreOf

LEMMA InspectFileRefuses ==
  ASSUME WorldInv, ProgressInv, EvidenceInv, CalmInv, InspectFile, rebuild'.pc = "refused"
  PROVE  Cause
<1> SUFFICES ASSUME ~rebuild.disturbed PROVE \E s \in Session : Faulty(s)
  BY DEF Cause
<1> DEFINE file == rebuild.first.files[Len(rebuild.contents) + 1]
<1>1. PICK contents, state, content, next :
        /\ contents = rebuild.contents /\ state = rebuild.state /\ content = events[file]
        /\ next = ReadEvents(This, state, content)
  OBVIOUS
<1>2. /\ rebuild.pc = "inspect" /\ Len(contents) < Len(rebuild.first.files) /\ Shape
      /\ InspectingInv /\ ReadInv
  BY <1>1 DEF InspectFile, ProgressInv, EvidenceInv
<1>3. ~next.valid
  <2> SUFFICES ASSUME next.valid PROVE FALSE
    OBVIOUS
  <2>1. PICK more : rebuild' = [rebuild EXCEPT !.state = next, !.contents = more]
    BY <1>1 DEF InspectFile, Becomes
  <2> QED
    BY <1>2, <2>1, IdleFields DEF Shape
<1>4. This \in Session
  BY <1>2, TailedSeq DEF ProgressInv, Reading, This
<1>5. /\ rebuild.first = manifest[This] /\ rebuild.first.status \in FinalizedStatuses
      /\ rebuild.first.files = FilesOf[This] /\ FilesOf[This] \in Seq(DOMAIN Recorded)
      /\ \A k \in DOMAIN contents : contents[k] = events[FilesOf[This][k]]
  <2>1. rebuild.first.files = FilesOf[This] /\ rebuild.first.status \in FinalizedStatuses
    BY <1>2 DEF InspectingInv, FullManifest
  <2>2. FilesOf[This] \in Seq(DOMAIN Recorded)
    BY <1>4, IndexAssumption
  <2> QED
    BY <1>1, <1>2, <2>1, <2>2 DEF CalmInv
<1>6. /\ contents \in Seq(Seq(Event)) /\ state \in Reader(Id)
      /\ HasRead(This, state, FlattenSeq(contents))
  BY <1>1, <1>2 DEF ReadInv
<1>7. content \in Seq(Event)
  <2>1. Len(contents) \in Nat /\ Len(contents) + 1 \in 1 .. Len(FilesOf[This])
    BY <1>2, <1>5, <1>6
  <2>2. file \in DOMAIN Recorded
    BY <1>1, <1>5, <2>1
  <2>3. content \in Contents
    BY <1>1, <2>2 DEF WorldInv, EventsInv
  <2>4. content \in Seq(Range(content)) /\ Range(content) \subseteq Event
    BY <2>3, IndexAssumption DEF Event
  <2> QED
    BY <2>4
<1>8. PICK c, all : c = Append(contents, content) /\ all = FlattenSeq(contents)
  OBVIOUS
<1>9. all \in Seq(Event) /\ FlattenSeq(c) = all \o content
  BY <1>6, <1>7, <1>8, FlattenAppend
<1>10. ~AreOf(This, FlattenSeq(c))
  <2>1. \A e \in Event : e.id \in Id
    BY DEF Id
  <2>2. HasRead(This, ReadEvents(This, state, content), all \o content)
    BY <1>6, <1>7, <1>8, <1>9, <2>1, ReadsFile
  <2> QED
    BY <1>1, <1>3, <1>9, <2>2 DEF HasRead
<1>11. /\ c \in Seq(Seq(Event)) /\ Len(c) <= Len(FilesOf[This])
       /\ \A k \in 1 .. Len(c) : c[k] = events[FilesOf[This][k]]
  <2>1. /\ Len(contents) \in Nat /\ DOMAIN contents = 1 .. Len(contents)
        /\ Len(FilesOf[This]) \in Nat /\ c \in Seq(Seq(Event)) /\ Len(c) = Len(contents) + 1
        /\ \A k \in 1 .. Len(contents) : c[k] = contents[k]
        /\ c[Len(contents) + 1] = content
    BY <1>5, <1>6, <1>7, <1>8
  <2>2. Len(c) <= Len(FilesOf[This])
    BY <1>2, <1>5, <2>1
  <2>3. content = events[FilesOf[This][Len(contents) + 1]]
    BY <1>1, <1>5
  <2>4. ASSUME NEW k \in 1 .. Len(c) PROVE c[k] = events[FilesOf[This][k]]
    <3>1. k \in 1 .. Len(contents) \/ k = Len(contents) + 1
      BY <2>1
    <3> QED
      BY <1>5, <2>1, <2>3, <3>1
  <2> QED
    BY <2>1, <2>2, <2>4
<1>12. ~Genuine(This, <<manifest[This], ContentsOf(This, events)>>)
  BY <1>4, <1>10, <1>11, WrongStart DEF WorldInv
<1> QED
  BY <1>4, <1>5, <1>12 DEF Faulty

LEMMA ReadAgainRefuses ==
  ASSUME ProgressInv, CalmInv, ReadAgain, rebuild'.pc = "refused"
  PROVE  Cause
<1> SUFFICES ASSUME ~rebuild.disturbed PROVE FALSE
  BY DEF Cause
<1>1. rebuild.pc = "inspect" /\ Shape
  BY DEF ReadAgain, ProgressInv
<1>2. SameManifest(Inspected, manifest[This])
  BY <1>1 DEF CalmInv, SameManifest, Inspected, Identity
<1>3. rebuild' = [rebuild EXCEPT !.pc = "stage"]
  BY <1>2 DEF ReadAgain, Becomes
<1> QED
  BY <1>1, <1>3, IdleFields DEF Shape

LEMMA SummariseRefuses ==
  ASSUME ProgressInv, EvidenceInv, CalmInv, Summarise, rebuild'.pc = "refused"
  PROVE  Cause
<1> SUFFICES ASSUME ~rebuild.disturbed PROVE \E s \in Session : Faulty(s)
  BY DEF Cause
<1>1. /\ rebuild.pc = "stage" /\ Len(rebuild.snapshot) = Len(rebuild.first.files) /\ Shape
      /\ InspectingInv /\ StagingInv
  BY DEF Summarise, ProgressInv, EvidenceInv
<1>2. This \in Session
  BY <1>1, TailedSeq DEF ProgressInv, Reading, This
<1>3. rebuild.first = manifest[This] /\ rebuild.first.status \in FinalizedStatuses
  BY <1>1 DEF CalmInv, InspectingInv
<1>4. rebuild.snapshot = rebuild.contents
  <2>1. PICK snapshot, contents, n :
          snapshot = rebuild.snapshot /\ contents = rebuild.contents /\ n = Len(contents)
    OBVIOUS
  <2>2. snapshot \in Seq(Range(snapshot)) /\ contents \in Seq(Range(contents)) /\ Len(snapshot) = n
    BY <1>1, <2>1 DEF StagingInv, AsSeq, ProgressInv
  <2>3. /\ \A k \in DOMAIN contents : contents[k] = events[rebuild.first.files[k]]
        /\ \A k \in DOMAIN snapshot : snapshot[k] = events[rebuild.first.files[k]]
    BY <1>1, <2>1 DEF CalmInv
  <2>4. DOMAIN snapshot = DOMAIN contents /\ \A k \in DOMAIN contents : snapshot[k] = contents[k]
    BY <2>1, <2>2, <2>3
  <2>5. snapshot = contents
    BY <2>2, <2>4
  <2> QED
    BY <2>1, <2>5
<1>5. SameEvidence(Inspected, rebuild.first, rebuild.snapshot)
  BY <1>4 DEF SameEvidence, Inspected
<1>6. ~HasOrderedEnds(rebuild.first)
  <2> SUFFICES ASSUME HasOrderedEnds(rebuild.first) PROVE FALSE
    OBVIOUS
  <2>1. \E rows : rebuild' = [NextSession EXCEPT !.summaries = rows]
    BY <1>5 DEF Summarise, Becomes
  <2> QED
    BY <1>1, <2>1, IdleFields DEF NextSession, Shape
<1> QED
  BY <1>2, <1>3, <1>6 DEF Faulty

(* What has been read so is never refused when the new file is made.         *)
LEMMA BuildRefusesNothing ==
  ASSUME WorldInv, ProgressInv, ProjectionInv, TodoInv, Build
  PROVE  rebuild'.pc # "refused"
<1>1. rebuild.pc = "session" /\ Shape
  BY DEF Build, ProgressInv
<1>2. PICK changes : changes = IF rebuild.opened THEN detector.rows ELSE {}
  OBVIOUS
<1>3. \A i, j \in DOMAIN rebuild.summaries :
        rebuild.summaries[i].session = rebuild.summaries[j].session => i = j
  BY <1>1 DEF TodoInv, Reading
<1>4. \A c, d \in changes : c.profile = d.profile /\ c.change = d.change => c = d
  <2>1. changes \subseteq Change
    BY <1>2 DEF WorldInv, DetectorInv
  <2>2. \A c, d \in Change : c.profile = d.profile /\ c.change = d.change => c = d
    BY DEF Change
  <2> QED
    BY <2>1, <2>2
<1>5. RuntimeAccepted(rebuild.summaries, changes)
  BY <1>3, <1>4 DEF RuntimeAccepted, Keyed
<1>6. Validates(rebuild.records)
  BY <1>1 DEF ProjectionInv
<1>7. rebuild' = [rebuild EXCEPT !.pc = "staged", !.snapshot = changes]
  BY <1>2, <1>5, <1>6 DEF Build, Becomes
<1> QED
  BY <1>1, <1>7, IdleFields DEF Shape

LEMMA RefusedForCause ==
  ASSUME WorldInv, ProgressInv, CuratedInv, KnowledgeInv, EvidenceInv,
         ProjectionInv, CalmInv, TodoInv,
         [Next]_vars, rebuild'.pc = "refused", rebuild.pc # "refused"
  PROVE  Cause
<1>0. Shape
  BY DEF ProgressInv
<1>1. CASE World \/ ClientStep \/ UNCHANGED vars
  BY <1>0, <1>1, StepsOfOthers DEF Undisturbed
<1>2. CASE Rebuild \/ Replace \/ Crash
  BY <1>2, IdleFields DEF Rebuild, Replace, Crash, Becomes
<1>3. CASE ReadKnowledge
  <2>1. \E want, got : rebuild.pc = "knowledge" /\ rebuild' = [rebuild EXCEPT !.want = want, !.got = got]
    BY <1>3 DEF ReadKnowledge, Becomes
  <2> QED
    BY <1>0, <2>1, IdleFields DEF Shape
<1>4. CASE ListSessions
  <2>1. \E todo : rebuild' = [rebuild EXCEPT !.pc = "session", !.todo = todo]
    BY <1>4 DEF ListSessions, Becomes
  <2> QED
    BY <1>0, <2>1, IdleFields DEF Shape
<1>5. CASE StageFile
  <2>1. \E snapshot : rebuild.pc = "stage" /\ rebuild' = [rebuild EXCEPT !.snapshot = snapshot]
    BY <1>5 DEF StageFile, Becomes
  <2> QED
    BY <1>0, <2>1, IdleFields DEF Shape
<1>6. CASE Project
  BY <1>0, <1>6, ProjectRefuses
<1>7. CASE OpenChanges
  BY <1>0, <1>7, OpenChangesRefuses
<1>8. CASE ReadManifest
  BY <1>8, ReadManifestRefuses
<1>9. CASE InspectFile
  BY <1>9, InspectFileRefuses
<1>10. CASE ReadAgain
  BY <1>10, ReadAgainRefuses
<1>11. CASE Summarise
  BY <1>11, SummariseRefuses
<1>12. CASE Build
  BY <1>12, BuildRefusesNothing
<1> QED
  BY <1>1, <1>2, <1>3, <1>4, <1>5, <1>6, <1>7, <1>8, <1>9, <1>10, <1>11, <1>12
     DEF Next, RebuildStep

(* A rebuild is refused only for a cause: something was altered while it     *)
(* read, the curated files or a session were not in order before, a session  *)
(* had its directory and not yet its manifest or a clock that went back, or  *)
(* the detector's database was being made.  Sessions that start, go on and   *)
(* end are no cause, and what the rebuild has written itself is none.        *)
THEOREM RefusalsHaveACause == Spec => RefusalIsJustified
<1> DEFINE Inv == /\ WorldInv /\ ProgressInv /\ CuratedInv /\ KnowledgeInv /\ EvidenceInv
                  /\ ProjectionInv /\ CalmInv /\ TodoInv
<1>1. Init => Inv
  BY WorldInvInit, ProgressInit, CuratedInvInit, EvidenceInit, CalmInit
<1>2. Inv /\ [Next]_vars => Inv'
  BY WorldInvStep, ProgressInvStep, CuratedInvStep, KnowledgeInvStep, EvidenceInvStep,
     ProjectionInvStep, CalmInvStep, TodoInvStep DEF WorldInv
<1>3. Inv /\ [Next]_vars =>
        [rebuild'.pc = "refused" /\ rebuild.pc # "refused" =>
           \/ rebuild.disturbed
           \/ Projected(curated) = Refused
           \/ detector.stage = "empty"
           \/ \E s \in Session :
                \/ manifest[s] = NoManifest
                \/ /\ manifest[s].status \in FinalizedStatuses
                   /\ \/ ~HasOrderedEnds(manifest[s])
                      \/ ~Genuine(s, <<manifest[s], ContentsOf(s, events)>>)]_vars
  <2> SUFFICES ASSUME Inv, [Next]_vars, rebuild'.pc = "refused", rebuild.pc # "refused"
               PROVE  Cause
    BY Zenon DEF Cause, Faulty
  <2> QED
    BY RefusedForCause
<1> QED
  BY <1>1, <1>2, <1>3, PTL DEF Spec, RefusalIsJustified

=============================================================================
