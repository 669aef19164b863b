---------------------------- MODULE AnalysisProofs ----------------------------
(* Proofs about Analysis for any captures, edits, sessions, size of parts    *)
(* and bounds.                                                               *)
EXTENDS Analysis, FiniteSetTheorems, SequenceTheorems, WellFoundedInduction, TLAPS

-----------------------------------------------------------------------------
(* Induction over data: a set that has 0 and with a number the next one has  *)
(* every number.                                                             *)
LEMMA Induction ==
  ASSUME NEW T, 0 \in T, \A n \in Nat : n \in T => n + 1 \in T
  PROVE  \A n \in Nat : n \in T
<1> DEFINE rest == {n \in Nat : n \notin T}
           less == {ss \in Nat \X Nat : ss[1] < ss[2]}
<1> SUFFICES ASSUME rest # {} PROVE FALSE
  OBVIOUS
<1>1. IsWellFoundedOn(less, Nat) /\ rest \subseteq Nat
  BY NatLessThanWellFounded DEF OpToRel
<1>2. \E x \in rest : \A y \in rest : ~ (<<y, x>> \in less)
  <2> HIDE DEF rest, less
  <2> QED
    BY <1>1, WFMin
<1>3. PICK x \in rest : \A y \in rest : ~(y < x)
  BY <1>2
<1>4. x - 1 \in Nat /\ x - 1 < x /\ (x - 1) + 1 = x
  OBVIOUS
<1> QED
  BY <1>3, <1>4

(* A set of numbers up to a bound has a greatest one.                        *)
LEMMA MaxOfSome ==
  ASSUME NEW n \in Nat, NEW s \in SUBSET (1 .. n), s # {}
  PROVE  Max(s) \in s /\ \A y \in s : y <= Max(s)
<1> DEFINE T == {m \in Nat : \A t \in SUBSET (1 .. m) :
                   t # {} => \E x \in t : \A y \in t : x >= y}
<1>1. 0 \in T
  <2>1. 1 .. 0 = {}
    OBVIOUS
  <2> QED
    BY <2>1
<1>2. ASSUME NEW m \in Nat, m \in T PROVE m + 1 \in T
  <2> SUFFICES ASSUME NEW t \in SUBSET (1 .. (m + 1)), t # {}
               PROVE  \E x \in t : \A y \in t : x >= y
    BY <1>2
  <2>1. CASE m + 1 \in t
    BY <2>1
  <2>2. CASE m + 1 \notin t
    <3>1. t \in SUBSET (1 .. m)
      BY <2>2
    <3> QED
      BY <1>2, <3>1
  <2> QED
    BY <2>1, <2>2
<1>3. n \in T
  <2> HIDE DEF T
  <2> QED
    BY <1>1, <1>2, Induction
<1>4. \E x \in s : \A y \in s : x >= y
  BY <1>3
<1> QED
  BY <1>4 DEF Max

(* The function by which MapThenFoldSet folds from the greatest index down.  *)
FoldsWith(g, n, base, step) ==
  \A s \in SUBSET (1 .. n) :
    g[s] = IF s = {} THEN base ELSE step[<<Max(s), g[s \ {Max(s)}]>>]

LEMMA FoldExists ==
  ASSUME NEW n \in Nat, NEW V, NEW base \in V, NEW step \in [(1 .. n) \X V -> V]
  PROVE  \E g \in [SUBSET (1 .. n) -> V] : FoldsWith(g, n, base, step)
<1> DEFINE Has(m) == \E g \in [SUBSET (1 .. m) -> V] : FoldsWith(g, m, base, step)
           T == {m \in Nat : m <= n => Has(m)}
<1>1. Has(0)
  <2> DEFINE h == [s \in SUBSET (1 .. 0) |-> base]
  <2>1. h \in [SUBSET (1 .. 0) -> V]
    OBVIOUS
  <2>2. 1 .. 0 = {}
    OBVIOUS
  <2>3. \A s \in SUBSET (1 .. 0) : s = {} /\ h[s] = base
    BY ONLY <2>2
  <2> HIDE DEF h
  <2>4. FoldsWith(h, 0, base, step)
    BY <2>3 DEF FoldsWith
  <2> QED
    BY <2>1, <2>4
<1>2. ASSUME NEW m \in Nat, Has(m), m + 1 <= n PROVE Has(m + 1)
  <2>1. PICK g \in [SUBSET (1 .. m) -> V] : FoldsWith(g, m, base, step)
    BY <1>2
  <2> DEFINE h == [s \in SUBSET (1 .. (m + 1)) |->
                     IF m + 1 \in s THEN step[<<m + 1, g[s \ {m + 1}]>>] ELSE g[s]]
  <2>2. \A s \in SUBSET (1 .. (m + 1)) :
          /\ s \ {m + 1} \in SUBSET (1 .. m)
          /\ m + 1 \notin s => s \in SUBSET (1 .. m)
    OBVIOUS
  <2>3. h \in [SUBSET (1 .. (m + 1)) -> V]
    <3>1. ASSUME NEW s \in SUBSET (1 .. (m + 1)) PROVE h[s] \in V
      <4>1. CASE m + 1 \in s
        <5>1. m + 1 \in 1 .. n
          BY <1>2
        <5>2. g[s \ {m + 1}] \in V
          BY <2>2
        <5> DEFINE v == g[s \ {m + 1}]
        <5>3. h[s] = step[<<m + 1, v>>]
          BY <4>1
        <5> HIDE DEF v, h
        <5>4. v \in V
          BY <5>2 DEF v
        <5> QED
          BY <5>1, <5>3, <5>4
      <4>2. CASE m + 1 \notin s
        BY <2>2, <4>2
      <4> QED
        BY <4>1, <4>2
    <3> QED
      BY <3>1
  <2>4. ASSUME NEW s \in SUBSET (1 .. (m + 1))
        PROVE  h[s] = IF s = {} THEN base ELSE step[<<Max(s), h[s \ {Max(s)}]>>]
    <3>1. CASE m + 1 \in s
      <4>0. m + 1 \in Nat /\ s # {}
        BY <3>1
      <4>1. Max(s) \in s /\ \A y \in s : y <= Max(s)
        BY <4>0, MaxOfSome
      <4> DEFINE x == Max(s)
      <4>2. x = m + 1
        <5>1. x \in 1 .. (m + 1) /\ m + 1 <= x
          BY <3>1, <4>1
        <5> HIDE DEF x
        <5> QED
          BY <5>1
      <4>3. h[s] = step[<<m + 1, g[s \ {m + 1}]>>] /\ h[s \ {m + 1}] = g[s \ {m + 1}]
        BY <3>1, <2>2
      <4> HIDE DEF h
      <4> QED
        BY <3>1, <4>2, <4>3
    <3>2. CASE m + 1 \notin s
      <4>1. h[s] = g[s] /\ s \in SUBSET (1 .. m)
        BY <2>2, <3>2
      <4>2. g[s] = IF s = {} THEN base ELSE step[<<Max(s), g[s \ {Max(s)}]>>]
        BY <2>1, <4>1 DEF FoldsWith
      <4>3. h[s \ {Max(s)}] = g[s \ {Max(s)}]
        BY <3>2
      <4> HIDE DEF h
      <4> QED
        BY <4>1, <4>2, <4>3
    <3> QED
      BY <3>1, <3>2
  <2>5. FoldsWith(h, m + 1, base, step)
    BY <2>4 DEF FoldsWith
  <2> QED
    BY <2>3, <2>5
<1>3. n \in T
  <2> HIDE DEF Has
  <2>1. 0 \in T
    BY <1>1
  <2>2. ASSUME NEW m \in Nat, m \in T PROVE m + 1 \in T
    BY <1>2, <2>2
  <2> HIDE DEF T
  <2> QED
    BY <2>1, <2>2, Induction
<1>4. Has(n)
  <2> HIDE DEF Has
  <2> QED
    BY <1>3
<1> QED
  BY <1>4

(* FlattenSeq puts one sequence after the other.                             *)
FlattensTo(h, seqs) ==
  /\ h[0] = <<>>
  /\ \A k \in 1 .. Len(seqs) : h[k] = h[k - 1] \o seqs[k]

LEMMA FlattenSteps ==
  ASSUME NEW U, NEW seqs \in Seq(Seq(U))
  PROVE  \E h \in [0 .. Len(seqs) -> Seq(U)] :
           FlattensTo(h, seqs) /\ FlattenSeq(seqs) = h[Len(seqs)]
<1> DEFINE n == Len(seqs)
           Is(g, m) == g = [i \in 1 .. m |-> IF i = 1 THEN seqs[i] ELSE g[i - 1] \o seqs[i]]
           Has(m) == \E g \in [1 .. m -> Seq(U)] : Is(g, m)
           T == {m \in Nat : m <= n => Has(m)}
<1>0. n \in Nat /\ \A i \in 1 .. n : seqs[i] \in Seq(U)
  OBVIOUS
<1> HIDE DEF n
<1>1. Has(0)
  <2> DEFINE g == [i \in 1 .. 0 |-> <<>>]
  <2>1. g \in [1 .. 0 -> Seq(U)] /\ Is(g, 0)
    OBVIOUS
  <2> QED
    BY <2>1
<1>2. ASSUME NEW m \in Nat, Has(m), m + 1 <= n PROVE Has(m + 1)
  <2>1. PICK g \in [1 .. m -> Seq(U)] : Is(g, m)
    BY <1>2
  <2> DEFINE end == IF m = 0 THEN seqs[1] ELSE g[m] \o seqs[m + 1]
             h == [i \in 1 .. (m + 1) |-> IF i = m + 1 THEN end ELSE g[i]]
  <2>2. end \in Seq(U)
    <3>1. seqs[m + 1] \in Seq(U)
      BY <1>0, <1>2
    <3>2. m # 0 => g[m] \in Seq(U)
      OBVIOUS
    <3> QED
      BY <3>1, <3>2
  <2>3. h \in [1 .. (m + 1) -> Seq(U)]
    <3> HIDE DEF end
    <3> QED
      BY <2>2
  <2>4. ASSUME NEW i \in 1 .. (m + 1)
        PROVE  h[i] = IF i = 1 THEN seqs[i] ELSE h[i - 1] \o seqs[i]
    <3>1. CASE i = m + 1
      <4>1. m # 0 => h[i - 1] = g[m]
        BY <3>1
      <4>2. h[i] = end
        BY <3>1
      <4> HIDE DEF h
      <4> QED
        BY <3>1, <4>1, <4>2
    <3>2. CASE i # m + 1
      <4>1. i \in 1 .. m /\ h[i] = g[i] /\ (i # 1 => h[i - 1] = g[i - 1])
        BY <3>2
      <4>2. g[i] = IF i = 1 THEN seqs[i] ELSE g[i - 1] \o seqs[i]
        BY <2>1, <4>1
      <4> HIDE DEF h
      <4> QED
        BY <4>1, <4>2
    <3> QED
      BY <3>1, <3>2
  <2>5. Is(h, m + 1)
    <3> HIDE DEF end
    <3>1. h = [i \in 1 .. (m + 1) |-> h[i]]
      OBVIOUS
    <3> HIDE DEF h
    <3> QED
      BY <2>4, <3>1
  <2> HIDE DEF h, Is
  <2> QED
    BY <2>3, <2>5
<1>3. Has(n)
  <2> HIDE DEF Has
  <2>1. 0 \in T
    BY <1>1
  <2>2. ASSUME NEW m \in Nat, m \in T PROVE m + 1 \in T
    <3>1. m + 1 <= n => m <= n
      BY <1>0
    <3> QED
      BY <1>2, <2>2, <3>1
  <2>3. n \in T
    <3> HIDE DEF T
    <3> QED
      BY <1>0, <2>1, <2>2, Induction
  <2> QED
    BY <1>0, <2>3
<1> DEFINE f == CHOOSE g : Is(g, n)
<1>4. Is(f, n)
  <2> HIDE DEF Is
  <2> QED
    BY <1>3
<1>5. n # 0 => FlattenSeq(seqs) = f[n]
  BY DEF FlattenSeq, n
<1>6. n = 0 => FlattenSeq(seqs) = <<>>
  BY DEF FlattenSeq, n
<1> HIDE DEF f
<1>7. \A i \in 1 .. n : f[i] = IF i = 1 THEN seqs[i] ELSE f[i - 1] \o seqs[i]
  BY <1>4
<1> HIDE DEF Is, Has, T
<1> DEFINE h == [k \in 0 .. n |-> IF k = 0 THEN <<>> ELSE f[k]]
           S == {m \in Nat : m <= n => h[m] \in Seq(U)}
<1>8. ASSUME NEW k \in 1 .. n PROVE h[k] = h[k - 1] \o seqs[k] 
  <2>1. CASE k = 1
    <3>1. h[k] = seqs[k] /\ h[k - 1] = <<>> /\ seqs[k] \in Seq(U)
      BY <1>0, <1>7, <2>1
    <3> HIDE DEF h
    <3> QED
      BY <3>1
  <2>2. CASE k # 1
    <3>0. k \in 0 .. n /\ k - 1 \in 0 .. n /\ k # 0 /\ k - 1 # 0
      BY <1>0, <2>2
    <3>1. h[k] = f[k] /\ h[k - 1] = f[k - 1]
      BY <3>0
    <3>2. f[k] = f[k - 1] \o seqs[k]
      BY <1>7, <2>2
    <3> HIDE DEF h
    <3> QED
      BY <3>1, <3>2
  <2> QED
    BY <2>1, <2>2
<1>9. h[0] = <<>> /\ FlattenSeq(seqs) = h[n]
  BY <1>0, <1>5, <1>6
<1>10. h \in [0 .. n -> Seq(U)]
  <2>1. h = [k \in 0 .. n |-> h[k]]
    OBVIOUS
  <2> HIDE DEF h
  <2>2. 0 \in S
    <3>1. h[0] \in Seq(U)
      BY <1>9
    <3> QED
      BY <3>1
  <2>3. ASSUME NEW m \in Nat, m \in S PROVE m + 1 \in S
    <3> SUFFICES ASSUME m + 1 <= n PROVE h[m + 1] \in Seq(U)
      BY <2>3
    <3>1. h[m] \in Seq(U) /\ m + 1 \in 1 .. n /\ (m + 1) - 1 = m
      BY <1>0, <2>3
    <3>2. h[m + 1] = h[m] \o seqs[m + 1] /\ seqs[m + 1] \in Seq(U)
      BY <1>0, <1>8, <3>1
    <3> QED
      BY <3>1, <3>2
  <2>4. \A m \in Nat : m \in S
    <3> HIDE DEF S
    <3> QED
      BY <2>2, <2>3, Induction
  <2>5. \A m \in 0 .. n : h[m] \in Seq(U)
    BY <1>0, <2>4
  <2> QED
    BY <2>1, <2>5
<1> HIDE DEF h
<1> QED
  BY <1>8, <1>9, <1>10 DEF FlattensTo, n

(* What such a function gives the numbers up to n, step by step.             *)
Unrolled(h, n, base, step) ==
  h[0] = base /\ \A k \in 1 .. n : h[k] = step[<<k, h[k - 1]>>]

FoldsIn(iter, n, V, base, step) ==
  /\ iter[{}] = base
  /\ \A s \in SUBSET (1 .. n) :
       s # {} /\ iter[s \ {Max(s)}] \in V => iter[s] = step[<<Max(s), iter[s \ {Max(s)}]>>]

LEMMA FoldUnrolls ==
  ASSUME NEW n \in Nat, NEW V, NEW base \in V, NEW step \in [(1 .. n) \X V -> V], NEW iter,
         FoldsIn(iter, n, V, base, step)
  PROVE  \E h \in [0 .. n -> V] : h[n] = iter[1 .. n] /\ Unrolled(h, n, base, step)
<1> DEFINE h == [k \in 0 .. n |-> iter[1 .. k]]
           T == {m \in Nat : m <= n => iter[1 .. m] \in V}
<1>0. iter[{}] = base
      /\ \A s \in SUBSET (1 .. n) :
           s # {} /\ iter[s \ {Max(s)}] \in V => iter[s] = step[<<Max(s), iter[s \ {Max(s)}]>>]
  BY DEF FoldsIn
<1>1. 1 .. 0 = {}
  OBVIOUS
<1>2. ASSUME NEW k \in 1 .. n, iter[1 .. (k - 1)] \in V
      PROVE  iter[1 .. k] = step[<<k, iter[1 .. (k - 1)]>>] /\ iter[1 .. k] \in V
  <2> DEFINE s == 1 .. k
             x == Max(s)
  <2>1. s \in SUBSET (1 .. n) /\ s # {} /\ k \in s /\ s \in SUBSET (1 .. k) /\ k \in Nat
    OBVIOUS
  <2>2. x \in 1 .. k /\ k <= x
    <3> HIDE DEF s
    <3>1. x \in s /\ \A y \in s : y <= x
      BY <2>1, MaxOfSome
    <3> QED
      BY <2>1, <3>1
  <2> HIDE DEF x
  <2>3. x = k
    BY <2>1, <2>2
  <2>4. s \ {k} = 1 .. (k - 1)
    BY <2>1
  <2>5. iter[s] = step[<<k, iter[1 .. (k - 1)]>>]
    <3>1. iter[s \ {x}] \in V
      BY <1>2, <2>3, <2>4
    <3> HIDE DEF s
    <3>2. iter[s] = step[<<x, iter[s \ {x}]>>]
      BY <1>0, <2>1, <3>1 DEF x
    <3> QED
      BY <2>3, <2>4, <3>2
  <2>6. step[<<k, iter[1 .. (k - 1)]>>] \in V
    BY <1>2
  <2> QED
    BY <2>5, <2>6
<1>3. n \in T /\ \A m \in 0 .. n : m \in T
  <2>1. 0 \in T
    BY <1>0, <1>1
  <2>2. ASSUME NEW m \in Nat, m \in T PROVE m + 1 \in T
    <3> SUFFICES ASSUME m + 1 <= n PROVE iter[1 .. (m + 1)] \in V
      OBVIOUS
    <3>1. m <= n /\ m + 1 \in 1 .. n /\ (m + 1) - 1 = m
      OBVIOUS
    <3>2. iter[1 .. ((m + 1) - 1)] \in V
      BY <2>2, <3>1
    <3> QED
      BY <1>2, <3>1, <3>2
  <2>3. \A m \in Nat : m \in T
    <3> HIDE DEF T
    <3> QED
      BY <2>1, <2>2, Induction
  <2> HIDE DEF T
  <2> QED
    BY <2>3
<1>4. \A m \in 0 .. n : iter[1 .. m] \in V
  BY <1>3
<1>5. h \in [0 .. n -> V]
  BY <1>4
<1>6. h[n] = iter[1 .. n] /\ h[0] = base
  BY <1>0, <1>1
<1>7. ASSUME NEW k \in 1 .. n PROVE h[k] = step[<<k, h[k - 1]>>]
  <2>1. k \in 0 .. n /\ k - 1 \in 0 .. n
    OBVIOUS
  <2>2. h[k] = iter[1 .. k] /\ h[k - 1] = iter[1 .. (k - 1)]
    BY <2>1
  <2>3. iter[1 .. (k - 1)] \in V
    BY <1>4, <2>1
  <2> HIDE DEF h
  <2> QED
    BY <1>2, <2>2, <2>3
<1> HIDE DEF h
<1> QED
  BY <1>5, <1>6, <1>7 DEF Unrolled

LEMMA FlattenIsSeq ==
  ASSUME NEW U, NEW seqs \in Seq(Seq(U))
  PROVE  FlattenSeq(seqs) \in Seq(U)
<1>1. PICK h \in [0 .. Len(seqs) -> Seq(U)] : FlattenSeq(seqs) = h[Len(seqs)]
  BY FlattenSteps
<1> QED
  BY <1>1

(* SetToSeq lists each element of a finite set once.                         *)
LEMMA SetToSeqLists ==
  ASSUME NEW S, IsFiniteSet(S)
  PROVE  /\ SetToSeq(S) \in Seq(S) /\ Range(SetToSeq(S)) = S
         /\ IsInjective(SetToSeq(S))
<1> DEFINE n == Cardinality(S)
           Lists(f) == f \in [1 .. n -> S] /\ IsInjective(f)
           q == SetToSeq(S)
<1>1. n \in Nat /\ ExistsBijection(1 .. n, S)
  BY FS_CardinalityType
<1>2. \E f : Lists(f)
  BY <1>1 DEF ExistsBijection, Bijection, Injection, IsInjective
<1>3. Lists(q)
  <2>1. q = CHOOSE f \in [1 .. n -> S] : IsInjective(f)
    BY DEF SetToSeq
  <2> HIDE DEF q, n
  <2> QED
    BY <1>2, <2>1
<1> HIDE DEF q
<1>4. q \in Surjection(1 .. n, S)
  <2>1. q \in Injection(1 .. n, S)
    BY <1>3 DEF Injection
  <2>2. IsFiniteSet(1 .. n) /\ Cardinality(1 .. n) = n
    <3> HIDE DEF n
    <3> QED
      BY SMTT(30), <1>1, FS_Interval
  <2> QED
    BY <2>1, <2>2, FS_Injection
<1>5. Range(q) = S /\ q \in Seq(S)
  <2> HIDE DEF n
  <2>1. Range(q) = S
    BY <1>3, <1>4 DEF Surjection, Range
  <2>2. q \in Seq(S)
    BY <1>1, <1>3
  <2> QED
    BY <2>1, <2>2
<1> QED
  BY <1>3, <1>5 DEF q

-----------------------------------------------------------------------------
(* The matching of paths.  Patterns that a path fits in no way, and that are *)
(* literal, change nothing for other paths when they are added.              *)
Named(best, path) == IF best = {} THEN path ELSE CHOOSE p \in best : TRUE

LEMMA MatchesAlike ==
  ASSUME NEW P, NEW L, \A l \in L : ~IsTemplate(l) /\ Best(P, l) = {}, NEW path
  PROVE  /\ Canonical(P \cup L, path) = Canonical(P, path)
         /\ Ambiguous(P \cup L, path) => Ambiguous(P, path)
<1>1. CASE path \in L
  <2>1. Best(P \cup L, path) = {path} /\ Best(P, path) = {}
    BY <1>1 DEF Best
  <2>2. Cardinality({path}) = 1
    BY FS_Singleton
  <2> QED
    BY <2>1, <2>2 DEF Canonical, Ambiguous
<1>2. CASE path \notin L
  <2>1. {p \in P \cup L : IsTemplate(p) /\ Fits(p, path)} = {p \in P : IsTemplate(p) /\ Fits(p, path)}
    OBVIOUS
  <2>2. path \in P \cup L <=> path \in P
    BY <1>2
  <2>3. Best(P \cup L, path) = Best(P, path)
    BY <2>1, <2>2, Zenon DEF Best
  <2>4. Canonical(P \cup L, path) = Named(Best(P \cup L, path), path)
        /\ Canonical(P, path) = Named(Best(P, path), path)
    BY DEF Canonical, Named
  <2> QED
    BY <2>3, <2>4 DEF Ambiguous
<1> QED
  BY <1>1, <1>2

LEMMA BestIsPattern ==
  ASSUME NEW P, NEW path
  PROVE  /\ Best(P, path) \subseteq P
         /\ Best(P, path) # {} => Canonical(P, path) \in P
         /\ Best(P, path) = {} => Canonical(P, path) = path
<1>1. Best(P, path) \subseteq P
  BY DEF Best
<1> QED
  BY <1>1 DEF Canonical

-----------------------------------------------------------------------------
(* What an accepted compilation of files g has made and has checked.         *)
CensusOf(g) == Patterns(Loaded(g, "endpoints"))

EventsIn(g) == Loaded(g, "events")

FormsIn(g) == Loaded(g, "forms")

ListedIn(g) == g[OperationsFile].items

CatalogIn(g) == g[CatalogFile].items

OperationsOf(g) == {Operation(CensusOf(g), ListedIn(g)[i]) : i \in DOMAIN ListedIn(g)}

FamiliesOf(g) == Families(Loaded(g, "endpoints"), EventsIn(g))

EndpointsOf(g) == Merged(FamiliesOf(g), OperationsOf(g))

ContractOf(g) ==
  [ok |-> TRUE, endpoints |-> EndpointsOf(g),
   forms |-> {Signature(CensusOf(g), FormsIn(g)[i]) : i \in DOMAIN FormsIn(g)},
   operations |-> OperationsOf(g),
   actions |-> {Action(EndpointsOf(g), CatalogIn(g)[i]) : i \in DOMAIN CatalogIn(g)}]

Checked(g) ==
  /\ \A d \in {"endpoints", "events", "forms"} : Whole(g, d)
  /\ CensusAddsUp(Loaded(g, "endpoints"))
  /\ EventsAgree(Loaded(g, "endpoints"), EventsIn(g))
  /\ \A i \in DOMAIN FormsIn(g) : FormAccepted(CensusOf(g), FormsIn(g)[i])
  /\ \A i \in DOMAIN ListedIn(g) : OperationAccepted(CensusOf(g), ListedIn(g)[i])
  /\ PostsAddUp(g[OperationsFile])
  /\ CatalogAddsUp(g[CatalogFile])
  /\ \A i \in DOMAIN CatalogIn(g) :
       ActionAccepted(EndpointsOf(g), OperationsOf(g), CatalogIn(g)[i])

LEMMA CompiledIf ==
  ASSUME NEW g
  PROVE  /\ Compiled(g) = IF Checked(g) THEN ContractOf(g) ELSE Refused
         /\ Compiled(g).ok <=> Checked(g)
<1>1. Compiled(g) = IF Checked(g) THEN ContractOf(g) ELSE Refused
  BY DEF Compiled, Checked, Image, EndpointsOf, FamiliesOf, OperationsOf, ContractOf,
         CensusOf, EventsIn, FormsIn, ListedIn, CatalogIn, OperationsFile, CatalogFile
<1>2. Checked(g) <=> Compiled(g).ok
  BY <1>1 DEF Refused, ContractOf
<1> QED
  BY <1>1, <1>2

LEMMA CompiledIs ==
  ASSUME NEW g, Compiled(g).ok
  PROVE  /\ Compiled(g) = ContractOf(g)
         /\ \A d \in {"endpoints", "events", "forms"} : Whole(g, d)
         /\ \A i \in DOMAIN EventsIn(g) :
              Unique(CensusOf(g), EventsIn(g)[i].path)
                /\ IsPathname(EventsIn(g)[i].path) /\ IsMethod(EventsIn(g)[i].method)
         /\ \A i \in DOMAIN FormsIn(g) :
              ~Ambiguous(CensusOf(g), FormsIn(g)[i].action)
                /\ IsPathname(FormsIn(g)[i].action) /\ IsMethod(FormsIn(g)[i].method)
         /\ \A i \in DOMAIN ListedIn(g) :
              ~Ambiguous(CensusOf(g), ListedIn(g)[i].path) /\ IsPathname(ListedIn(g)[i].path)
         /\ \A i \in DOMAIN CatalogIn(g) :
              Unique(DOMAIN EndpointsOf(g), CatalogIn(g)[i].path)
                /\ IsPathname(CatalogIn(g)[i].path) /\ IsMethod(CatalogIn(g)[i].method)
<1>1. Checked(g) /\ Compiled(g) = ContractOf(g)
  BY CompiledIf
<1>2. \A d \in {"endpoints", "events", "forms"} : Whole(g, d)
  BY <1>1 DEF Checked
<1>3. \A i \in DOMAIN EventsIn(g) :
        Unique(CensusOf(g), EventsIn(g)[i].path)
          /\ IsPathname(EventsIn(g)[i].path) /\ IsMethod(EventsIn(g)[i].method)
  BY <1>1 DEF Checked, EventsAgree, MapsUniquely, CensusOf
<1>4. \A i \in DOMAIN FormsIn(g) :
        ~Ambiguous(CensusOf(g), FormsIn(g)[i].action)
          /\ IsPathname(FormsIn(g)[i].action) /\ IsMethod(FormsIn(g)[i].method)
  BY <1>1 DEF Checked, FormAccepted
<1>5. \A i \in DOMAIN ListedIn(g) :
        ~Ambiguous(CensusOf(g), ListedIn(g)[i].path) /\ IsPathname(ListedIn(g)[i].path)
  BY <1>1 DEF Checked, OperationAccepted
<1>6. \A i \in DOMAIN CatalogIn(g) :
        Unique(DOMAIN EndpointsOf(g), CatalogIn(g)[i].path)
          /\ IsPathname(CatalogIn(g)[i].path) /\ IsMethod(CatalogIn(g)[i].method)
  BY <1>1 DEF Checked, ActionAccepted
<1> QED
  BY <1>1, <1>2, <1>3, <1>4, <1>5, <1>6

(* The paths that operations add to the patterns of the census.              *)
AddedPaths(g) ==
  {p \in {ListedIn(g)[i].path : i \in DOMAIN ListedIn(g)} : Best(CensusOf(g), p) = {}}

Literal(g) == \A i \in DOMAIN ListedIn(g) : ~IsTemplate(ListedIn(g)[i].path)

LEMMA EditsAreLiteral == \A op \in OperationEdits : ~IsTemplate(op.path)
  BY PathsAssumption, Zenon

LEMMA PostIsMethod == IsMethod("POST")
  BY PathsAssumption, Zenon DEF IsMethod

LEMMA EndpointPaths ==
  ASSUME NEW g
  PROVE  DOMAIN EndpointsOf(g) = CensusOf(g) \cup AddedPaths(g)
<1>1. DOMAIN FamiliesOf(g) = CensusOf(g)
  BY DEF FamiliesOf, Families, CensusOf
<1>2. DOMAIN EndpointsOf(g) = CensusOf(g) \cup {op.path : op \in OperationsOf(g)}
  BY <1>1 DEF EndpointsOf, Merged
<1>3. {op.path : op \in OperationsOf(g)} =
        {Canonical(CensusOf(g), ListedIn(g)[i].path) : i \in DOMAIN ListedIn(g)}
  <2>1. \A i \in DOMAIN ListedIn(g) :
          Operation(CensusOf(g), ListedIn(g)[i]).path = Canonical(CensusOf(g), ListedIn(g)[i].path)
    BY DEF Operation
  <2> QED
    BY <2>1, Zenon DEF OperationsOf
<1>4. \A i \in DOMAIN ListedIn(g) :
        \/ ListedIn(g)[i].path \in AddedPaths(g)
             /\ Canonical(CensusOf(g), ListedIn(g)[i].path) = ListedIn(g)[i].path
        \/ Canonical(CensusOf(g), ListedIn(g)[i].path) \in CensusOf(g)
  BY BestIsPattern DEF AddedPaths
<1>5. ASSUME NEW p \in AddedPaths(g)
      PROVE  p \in {Canonical(CensusOf(g), ListedIn(g)[i].path) : i \in DOMAIN ListedIn(g)}
  <2>1. PICK i \in DOMAIN ListedIn(g) : p = ListedIn(g)[i].path /\ Best(CensusOf(g), p) = {}
    BY DEF AddedPaths
  <2>2. Canonical(CensusOf(g), ListedIn(g)[i].path) = p
    BY <2>1, BestIsPattern
  <2> QED
    BY <2>2
<1> QED
  BY <1>2, <1>3, <1>4, <1>5

(* A path has the name with all patterns that it had with the census.        *)
LEMMA OneName ==
  ASSUME NEW g, Literal(g), NEW path
  PROVE  /\ Canonical(DOMAIN EndpointsOf(g), path) = Canonical(CensusOf(g), path)
         /\ Ambiguous(DOMAIN EndpointsOf(g), path) => Ambiguous(CensusOf(g), path)
<1>1. \A l \in AddedPaths(g) : ~IsTemplate(l) /\ Best(CensusOf(g), l) = {}
  BY DEF AddedPaths, Literal
<1>2. PICK P, L : P = CensusOf(g) /\ L = AddedPaths(g)
  OBVIOUS
<1>3. DOMAIN EndpointsOf(g) = P \cup L
  BY <1>2, EndpointPaths
<1>4. \A l \in L : ~IsTemplate(l) /\ Best(P, l) = {}
  BY <1>1, <1>2
<1>5. /\ Canonical(P \cup L, path) = Canonical(P, path)
      /\ Ambiguous(P \cup L, path) => Ambiguous(P, path)
  BY ONLY <1>4, MatchesAlike
<1> QED
  BY <1>2, <1>3, <1>5

LEMMA UniqueIsPattern ==
  ASSUME NEW P, NEW path, Unique(P, path)
  PROVE  Canonical(P, path) \in P /\ ~Ambiguous(P, path)
<1>1. Best(P, path) # {}
  BY FS_EmptySet DEF Unique
<1> QED
  BY <1>1, BestIsPattern DEF Unique, Ambiguous

(* What is at a place of the contract.                                       *)
HasVariant(g, path, method, keys, status) ==
  /\ path \in DOMAIN EndpointsOf(g)
  /\ method \in DOMAIN EndpointsOf(g)[path]
  /\ Variant(keys, status) \in EndpointsOf(g)[path][method]

LEMMA MergedHas ==
  ASSUME NEW families, NEW operations, NEW p \in DOMAIN families \cup {op.path : op \in operations}
  PROVE  /\ p \in DOMAIN families =>
              \A m \in DOMAIN families[p] :
                m \in DOMAIN Merged(families, operations)[p]
                  /\ families[p][m] \subseteq Merged(families, operations)[p][m]
         /\ \A op \in operations : op.path = p =>
              op.method \in DOMAIN Merged(families, operations)[p]
                /\ {Variant(op.query, s) : s \in op.statuses}
                     \subseteq Merged(families, operations)[p][op.method]
<1> DEFINE old == IF p \in DOMAIN families THEN families[p] ELSE <<>>
           new == {op \in operations : op.path = p}
           methods == DOMAIN old \cup {op.method : op \in new}
           of(m) == (IF m \in DOMAIN old THEN old[m] ELSE {})
                      \cup UNION {{Variant(op.query, s) : s \in op.statuses} :
                                    op \in {op \in new : op.method = m}}
<1>1. Merged(families, operations)[p] = [m \in methods |-> of(m)]
  BY DEF Merged
<1>2. \A m \in methods : Merged(families, operations)[p][m] = of(m)
  BY <1>1
<1>3. DOMAIN Merged(families, operations)[p] = methods
  BY <1>1
<1>4. ASSUME NEW op \in operations, op.path = p
      PROVE  op.method \in methods /\ {Variant(op.query, s) : s \in op.statuses} \subseteq of(op.method)
  <2>1. op \in new
    BY <1>4
  <2>2. op \in {other \in new : other.method = op.method}
    BY <2>1
  <2> HIDE DEF new
  <2> QED
    BY <2>1, <2>2
<1>5. ASSUME p \in DOMAIN families, NEW m \in DOMAIN families[p]
      PROVE  m \in methods /\ families[p][m] \subseteq of(m)
  BY <1>5
<1> HIDE DEF methods, of
<1> QED
  BY <1>2, <1>3, <1>4, <1>5

LEMMA EventsAreIn ==
  ASSUME NEW g, NEW i \in DOMAIN EventsIn(g), Unique(CensusOf(g), EventsIn(g)[i].path)
  PROVE  HasVariant(g, Canonical(CensusOf(g), EventsIn(g)[i].path), EventsIn(g)[i].method,
                    KeySet(EventsIn(g)[i].query), EventsIn(g)[i].status)
<1> DEFINE e == EventsIn(g)[i]
           p == Canonical(CensusOf(g), e.path)
           seen == EventsOf(EventsIn(g), CensusOf(g), p)
<1>1. p \in CensusOf(g)
  BY UniqueIsPattern
<1>2. i \in seen
  BY DEF EventsOf
<1>3. FamiliesOf(g)[p] =
        [m \in Methods(EventsIn(g), seen) |->
           {Variant(KeySet(EventsIn(g)[k].query), EventsIn(g)[k].status) :
              k \in {k \in seen : EventsIn(g)[k].method = m}}]
      /\ p \in DOMAIN FamiliesOf(g)
  BY <1>1 DEF FamiliesOf, Families, CensusOf
<1>4. e.method \in Methods(EventsIn(g), seen)
  BY <1>2 DEF Methods
<1>5. Variant(KeySet(e.query), e.status) \in
        {Variant(KeySet(EventsIn(g)[k].query), EventsIn(g)[k].status) :
              k \in {k \in seen : EventsIn(g)[k].method = e.method}}
  BY <1>2
<1> HIDE DEF seen, e, p
<1>6. e.method \in DOMAIN FamiliesOf(g)[p]
      /\ Variant(KeySet(e.query), e.status) \in FamiliesOf(g)[p][e.method]
  BY <1>3, <1>4, <1>5
<1>7. p \in DOMAIN EndpointsOf(g)
  BY <1>3 DEF EndpointsOf, Merged
<1>8. e.method \in DOMAIN EndpointsOf(g)[p]
      /\ Variant(KeySet(e.query), e.status) \in EndpointsOf(g)[p][e.method]
  BY <1>3, <1>6, MergedHas DEF EndpointsOf
<1> QED
  BY <1>7, <1>8 DEF HasVariant, e, p

LEMMA OperationsAreIn ==
  ASSUME NEW g, NEW op \in OperationsOf(g), NEW s \in op.statuses
  PROVE  HasVariant(g, op.path, op.method, op.query, s)
<1>1. op.path \in DOMAIN EndpointsOf(g)
  BY DEF EndpointsOf, Merged
<1>2. op.method \in DOMAIN EndpointsOf(g)[op.path]
      /\ {Variant(op.query, t) : t \in op.statuses} \subseteq EndpointsOf(g)[op.path][op.method]
  BY MergedHas DEF EndpointsOf
<1> QED
  BY <1>1, <1>2 DEF HasVariant

-----------------------------------------------------------------------------
(* Facts that are not to be promoted.                                        *)
NothingNew(facts) == \A f \in facts : ~Promotable(f)

LEMMA KnownIsNotNew ==
  ASSUME NEW kind, NEW subject, NEW id
  PROVE  ~Promotable(Known(kind, subject, id))
  BY DEF Known, Fact, Promotable

LEMMA EndpointKnown ==
  ASSUME NEW g, NEW o, HasVariant(g, o.path, o.method, o.query, o.status)
  PROVE  NothingNew(EndpointFacts(ContractOf(g), o))
<1>1. ContractOf(g).endpoints = EndpointsOf(g)
  BY DEF ContractOf
<1> DEFINE variants == OfMethod(ContractOf(g), o)
<1>2. Variant(o.query, o.status) \in variants
  BY <1>1 DEF HasVariant, OfMethod
<1>3. Variant(o.query, o.status).keys = o.query /\ Variant(o.query, o.status).status = o.status
  BY DEF Variant
<1> HIDE DEF variants
<1>4. AddedKeys(ContractOf(g), o) = {}
  <2>1. \E v \in variants : v.keys = o.query
    BY <1>2, <1>3
  <2> QED
    BY <2>1 DEF AddedKeys, variants
<1>5. AddedStatus(ContractOf(g), o) = {}
  <2>1. \E v \in variants : v.status = o.status
    BY <1>2, <1>3
  <2> QED
    BY <2>1 DEF AddedStatus, variants
<1>6. EndpointFacts(ContractOf(g), o) = {Known("endpoint.known", <<o.method, o.path>>, o.id)}
  BY <1>1, <1>4, <1>5 DEF EndpointFacts, HasVariant
<1> QED
  BY <1>6, KnownIsNotNew DEF NothingNew

LEMMA OperationKnown ==
  ASSUME NEW contract, NEW o,
         \/ o.body = Unknown
         \/ \E op \in contract.operations : /\ op.method = o.method /\ op.path = o.path
                                            /\ op.query = o.query /\ op.body = o.body
  PROVE  NothingNew(OperationFacts(contract, o))
<1>1. CASE o.method \in SafeMethods
  BY <1>1 DEF OperationFacts, NothingNew
<1>2. CASE o.method \notin SafeMethods /\ o.body = Unknown
  BY <1>2 DEF OperationFacts, NothingNew, Promotable, Fact
<1>3. CASE o.method \notin SafeMethods /\ o.body # Unknown
  <2>1. \E op \in Matching(contract.operations, o.method, o.path) :
          op.query = o.query /\ op.body = o.body
    BY <1>3 DEF Matching
  <2>2. OperationFacts(contract, o) = {Known("operation.known", <<o.method, o.path>>, o.id)}
    BY <1>3, <2>1 DEF OperationFacts
  <2> QED
    BY <2>2, KnownIsNotNew DEF NothingNew
<1> QED
  BY <1>1, <1>2, <1>3

LEMMA FormKnown ==
  ASSUME NEW contract, NEW o,
         \E f \in contract.forms : f.method = o.method /\ f.path = o.path /\ o.fields = f.fields
  PROVE  NothingNew(FormFacts(contract, o))
<1>1. FormFacts(contract, o) = {Known("form.known", <<o.method, o.path>>, o.id)}
  BY DEF FormFacts
<1> QED
  BY <1>1, KnownIsNotNew DEF NothingNew

LEMMA RelationKnown ==
  ASSUME NEW contract, NEW o, o.correlation = "strong", o.action \in {Unknown, o.path},
         \E a \in contract.actions : a.method = o.method /\ a.path = o.path
  PROVE  NothingNew(RelationFacts(contract, o))
<1>1. RelationFacts(contract, o) =
        {Known("relation.known", <<<<o.method, o.path>>, o.action>>, o.id)}
  BY DEF RelationFacts
<1> QED
  BY <1>1, KnownIsNotNew DEF NothingNew

-----------------------------------------------------------------------------
(* What a session shows that does again what files g record, by kind.        *)
EventShown(g, i) == HttpOf(EventsIn(g)[i], Unknown)

FormShown(g, i) ==
  [what |-> "form", method |-> FormsIn(g)[i].method, path |-> FormsIn(g)[i].action,
   fields |-> KeySet(FormsIn(g)[i].fields), id |-> "session"]

OperationShown(op, s) ==
  HttpOf([method |-> "POST", path |-> op.path, query |-> op.query, status |-> s], KeySet(op.body))

ActionShown(a) ==
  [what |-> "relation", method |-> a.method, path |-> a.path, action |-> a.path,
   correlation |-> "strong", id |-> "session"]

KnownTo(g, o) == Observable(ContractOf(g), o) /\ NothingNew(Facts(ContractOf(g), o))

(* An observation of a request or of a form, with the patterns of g.         *)
LEMMA PlacedIs ==
  ASSUME NEW g, NEW o, o.what # "relation"
  PROVE  /\ Observed(ContractOf(g), o) =
              [o EXCEPT !.path = Canonical(DOMAIN EndpointsOf(g), @)]
         /\ Observable(ContractOf(g), o) <=>
              IsMethod(o.method) /\ IsPathname(o.path) /\ ~Ambiguous(DOMAIN EndpointsOf(g), o.path)
<1>1. ContractOf(g).endpoints = EndpointsOf(g)
  BY DEF ContractOf
<1>2. PathsOf(o) = {o.path}
  BY DEF PathsOf
<1> QED
  BY <1>1, <1>2 DEF Observed, Observable

LEMMA EventIsKnown ==
  ASSUME NEW g, Compiled(g).ok, Literal(g), NEW i \in DOMAIN EventsIn(g)
  PROVE  KnownTo(g, EventShown(g, i))
<1> DEFINE e == EventsIn(g)[i]
           o == EventShown(g, i)
           p == Canonical(CensusOf(g), e.path)
           placed == [o EXCEPT !.path = p]
<1>1. o = [what |-> "http", method |-> e.method, path |-> e.path, query |-> KeySet(e.query),
           status |-> e.status, body |-> Unknown, id |-> "session"]
  BY DEF EventShown, HttpOf
<1>2. Unique(CensusOf(g), e.path) /\ IsPathname(e.path) /\ IsMethod(e.method)
  BY CompiledIs
<1>3. ~Ambiguous(CensusOf(g), e.path)
  BY <1>2, UniqueIsPattern
<1>4. HasVariant(g, p, e.method, KeySet(e.query), e.status)
  BY <1>2, EventsAreIn
<1> HIDE DEF e, o, p
<1>5. Canonical(DOMAIN EndpointsOf(g), e.path) = p /\ ~Ambiguous(DOMAIN EndpointsOf(g), e.path)
  BY <1>3, OneName DEF p
<1>6. Observed(ContractOf(g), o) = placed /\ Observable(ContractOf(g), o)
  <2>1. o.what # "relation" /\ o.path = e.path /\ o.method = e.method
    BY <1>1
  <2> QED
    BY <1>2, <1>5, <2>1, PlacedIs
<1>7. placed = [what |-> "http", method |-> e.method, path |-> p, query |-> KeySet(e.query),
                status |-> e.status, body |-> Unknown, id |-> "session"]
  BY <1>1
<1> HIDE DEF placed
<1>8. NothingNew(EndpointFacts(ContractOf(g), placed))
  BY <1>4, <1>7, EndpointKnown
<1>9. NothingNew(OperationFacts(ContractOf(g), placed))
  BY <1>7, OperationKnown
<1>10. Facts(ContractOf(g), o) =
         EndpointFacts(ContractOf(g), placed) \cup OperationFacts(ContractOf(g), placed)
  BY <1>6, <1>7 DEF Facts
<1> QED
  BY <1>6, <1>8, <1>9, <1>10 DEF KnownTo, NothingNew, o

LEMMA OperationIsKnown ==
  ASSUME NEW g, Compiled(g).ok, Literal(g), NEW i \in DOMAIN ListedIn(g),
         NEW s \in Range(ListedIn(g)[i].observations)
  PROVE  KnownTo(g, OperationShown(ListedIn(g)[i], s))
<1> DEFINE op == ListedIn(g)[i]
           o == OperationShown(op, s)
           p == Canonical(CensusOf(g), op.path)
           placed == [o EXCEPT !.path = p]
           known == Operation(CensusOf(g), op)
<1>1. o = [what |-> "http", method |-> "POST", path |-> op.path, query |-> KeySet(op.query),
           status |-> s, body |-> KeySet(op.body), id |-> "session"]
  BY DEF OperationShown, HttpOf
<1>2. known \in OperationsOf(g)
  BY DEF OperationsOf
<1>3. known = [method |-> "POST", path |-> p, query |-> KeySet(op.query),
               body |-> KeySet(op.body), statuses |-> Range(op.observations)]
  BY DEF Operation
<1>4. ~Ambiguous(CensusOf(g), op.path) /\ IsPathname(op.path) /\ IsMethod("POST")
  BY CompiledIs, PostIsMethod
<1>5. s \in Range(op.observations)
  OBVIOUS
<1> HIDE DEF op, o, p, known
<1>6. Canonical(DOMAIN EndpointsOf(g), op.path) = p /\ ~Ambiguous(DOMAIN EndpointsOf(g), op.path)
  BY <1>4, OneName DEF p
<1>7. Observed(ContractOf(g), o) = placed /\ Observable(ContractOf(g), o)
  <2>1. o.what # "relation" /\ o.path = op.path /\ o.method = "POST"
    BY <1>1
  <2> QED
    BY <1>4, <1>6, <2>1, PlacedIs
<1>8. placed = [what |-> "http", method |-> "POST", path |-> p, query |-> KeySet(op.query),
                status |-> s, body |-> KeySet(op.body), id |-> "session"]
  BY <1>1
<1> HIDE DEF placed
<1>9. HasVariant(g, known.path, known.method, known.query, s)
  <2>1. s \in known.statuses
    BY <1>3, <1>5
  <2> QED
    BY <1>2, <2>1, OperationsAreIn
<1>10. NothingNew(EndpointFacts(ContractOf(g), placed))
  <2>1. HasVariant(g, placed.path, placed.method, placed.query, placed.status)
    BY <1>3, <1>8, <1>9
  <2> QED
    BY <2>1, EndpointKnown
<1>11. NothingNew(OperationFacts(ContractOf(g), placed))
  <2>1. ContractOf(g).operations = OperationsOf(g)
    BY DEF ContractOf
  <2>2. known.method = placed.method /\ known.path = placed.path /\ known.query = placed.query
        /\ known.body = placed.body
    BY <1>3, <1>8
  <2> QED
    BY <1>2, <2>1, <2>2, OperationKnown
<1>12. Facts(ContractOf(g), o) =
         EndpointFacts(ContractOf(g), placed) \cup OperationFacts(ContractOf(g), placed)
  BY <1>7, <1>8 DEF Facts
<1> QED
  BY <1>7, <1>10, <1>11, <1>12 DEF KnownTo, NothingNew, o, op

LEMMA FormIsKnown ==
  ASSUME NEW g, Compiled(g).ok, Literal(g), NEW i \in DOMAIN FormsIn(g)
  PROVE  KnownTo(g, FormShown(g, i))
<1> DEFINE form == FormsIn(g)[i]
           o == FormShown(g, i)
           p == Canonical(CensusOf(g), form.action)
           placed == [o EXCEPT !.path = p]
           known == Signature(CensusOf(g), form)
<1>1. o = [what |-> "form", method |-> form.method, path |-> form.action,
           fields |-> KeySet(form.fields), id |-> "session"]
  BY DEF FormShown
<1>2. known \in ContractOf(g).forms
  BY DEF ContractOf
<1>3. known = [method |-> form.method, path |-> p, fields |-> KeySet(form.fields)]
  BY DEF Signature
<1>4. ~Ambiguous(CensusOf(g), form.action) /\ IsPathname(form.action) /\ IsMethod(form.method)
  BY CompiledIs
<1> HIDE DEF form, o, p, known
<1>5. Canonical(DOMAIN EndpointsOf(g), form.action) = p
      /\ ~Ambiguous(DOMAIN EndpointsOf(g), form.action)
  BY <1>4, OneName DEF p
<1>6. Observed(ContractOf(g), o) = placed /\ Observable(ContractOf(g), o)
  <2>1. o.what # "relation" /\ o.path = form.action /\ o.method = form.method
    BY <1>1
  <2> QED
    BY <1>4, <1>5, <2>1, PlacedIs
<1>7. placed = [what |-> "form", method |-> form.method, path |-> p,
                fields |-> KeySet(form.fields), id |-> "session"]
  BY <1>1
<1> HIDE DEF placed
<1>8. NothingNew(FormFacts(ContractOf(g), placed))
  <2>1. known.method = placed.method /\ known.path = placed.path /\ placed.fields = known.fields
    BY <1>3, <1>7
  <2> QED
    BY <1>2, <2>1, FormKnown
<1>9. Facts(ContractOf(g), o) = FormFacts(ContractOf(g), placed)
  BY <1>6, <1>7 DEF Facts
<1> QED
  BY <1>6, <1>8, <1>9 DEF KnownTo, o

LEMMA ActionIsKnown ==
  ASSUME NEW g, Compiled(g).ok, NEW i \in DOMAIN CatalogIn(g)
  PROVE  KnownTo(g, ActionShown(CatalogIn(g)[i]))
<1> DEFINE a == CatalogIn(g)[i]
           o == ActionShown(a)
           P == DOMAIN EndpointsOf(g)
           p == Canonical(P, a.path)
           placed == Observed(ContractOf(g), o)
           known == Action(EndpointsOf(g), a)
<1>1. o = [what |-> "relation", method |-> a.method, path |-> a.path, action |-> a.path,
           correlation |-> "strong", id |-> "session"]
  BY DEF ActionShown
<1>2. known \in ContractOf(g).actions
  BY DEF ContractOf
<1>3. known.method = a.method /\ known.path = p
  BY DEF Action
<1>4. Unique(P, a.path) /\ IsPathname(a.path) /\ IsMethod(a.method)
  BY CompiledIs
<1>5. ~Ambiguous(P, a.path)
  BY <1>4, UniqueIsPattern
<1>6. ContractOf(g).endpoints = EndpointsOf(g)
  BY DEF ContractOf
<1> HIDE DEF a, o, known
<1>7. Observable(ContractOf(g), o)
  <2>1. PathsOf(o) \subseteq {a.path} /\ o.method = a.method
    BY <1>1 DEF PathsOf
  <2> QED
    BY <2>1, <1>4, <1>5, <1>6 DEF Observable
<1>8. /\ placed.what = "relation" /\ placed.method = a.method /\ placed.path = p
      /\ placed.correlation = "strong" /\ placed.action \in {Unknown, p}
  <2>1. placed = IF o.what = "relation" /\ o.action # Unknown
                 THEN [[o EXCEPT !.path = Canonical(P, @)] EXCEPT !.action = Canonical(P, @)]
                 ELSE [o EXCEPT !.path = Canonical(P, @)]
    BY <1>6 DEF Observed
  <2> HIDE DEF placed, P
  <2>2. CASE a.path # Unknown
    BY <1>1, <2>1, <2>2
  <2>3. CASE a.path = Unknown
    BY <1>1, <2>1, <2>3
  <2> QED
    BY <2>2, <2>3
<1> HIDE DEF placed, p
<1>9. NothingNew(RelationFacts(ContractOf(g), placed))
  BY <1>2, <1>3, <1>8, RelationKnown
<1>10. Facts(ContractOf(g), o) = RelationFacts(ContractOf(g), placed)
  BY <1>8 DEF Facts, placed
<1> QED
  BY <1>7, <1>9, <1>10 DEF KnownTo, o, a

LEMMA AllIsKnown ==
  ASSUME reader.contract = Compiled(reader.got), reader.contract.ok, Literal(reader.got)
  PROVE  \A o \in Recorded : /\ Observable(reader.contract, o)
                             /\ \A f \in Facts(reader.contract, o) : ~Promotable(f)
<1> DEFINE g == reader.got
<1>1. Recorded =
        {EventShown(g, i) : i \in DOMAIN EventsIn(g)}
          \cup {FormShown(g, i) : i \in DOMAIN FormsIn(g)}
          \cup (UNION {{OperationShown(op, s) : s \in Range(op.observations)} :
                         op \in Range(ListedIn(g))})
          \cup {ActionShown(a) : a \in Range(CatalogIn(g))}
  BY DEF Recorded, EventsIn, FormsIn, ListedIn, CatalogIn, EventShown, FormShown,
         OperationShown, ActionShown
<1>2. reader.contract = ContractOf(g)
  BY CompiledIs
<1>3. \A i \in DOMAIN EventsIn(g) : KnownTo(g, EventShown(g, i))
  BY EventIsKnown
<1>4. \A i \in DOMAIN FormsIn(g) : KnownTo(g, FormShown(g, i))
  BY FormIsKnown
<1>5. \A op \in Range(ListedIn(g)) : \A s \in Range(op.observations) :
        KnownTo(g, OperationShown(op, s))
  BY OperationIsKnown DEF Range
<1>6. \A a \in Range(CatalogIn(g)) : KnownTo(g, ActionShown(a))
  BY ActionIsKnown DEF Range
<1> HIDE DEF g
<1>7. \A o \in Recorded : KnownTo(g, o)
  <2> DEFINE events == {EventShown(g, i) : i \in DOMAIN EventsIn(g)}
             forms == {FormShown(g, i) : i \in DOMAIN FormsIn(g)}
             operations == UNION {{OperationShown(op, s) : s \in Range(op.observations)} :
                                    op \in Range(ListedIn(g))}
             actions == {ActionShown(a) : a \in Range(CatalogIn(g))}
  <2>1. Recorded = events \cup forms \cup operations \cup actions
    BY <1>1
  <2>2. \A o \in events : KnownTo(g, o)
    BY <1>3
  <2>3. \A o \in forms : KnownTo(g, o)
    BY <1>4
  <2>4. \A o \in operations : KnownTo(g, o)
    BY <1>5
  <2>5. \A o \in actions : KnownTo(g, o)
    BY <1>6
  <2> HIDE DEF events, forms, operations, actions
  <2> QED
    BY <2>1, <2>2, <2>3, <2>4, <2>5
<1> QED
  BY <1>2, <1>7 DEF KnownTo, NothingNew

-----------------------------------------------------------------------------
(* The data sets that a generation writes are sequences.                     *)
AllForms == UNION {entry.forms : entry \in EveryEntry}

AllEvents == {Event(entry) : entry \in EveryEntry}

Captures == [DOMAIN FirstCaptures -> Seq(EveryEntry)]

LEMMA GatheredIsSeq ==
  ASSUME NEW c \in Captures
  PROVE  Gathered(c) \in Seq(EveryEntry)
<1> DEFINE all == [i \in DOMAIN Aliases |-> c[Aliases[i]]]
<1>1. all \in Seq(Seq(EveryEntry))
  <2>1. Len(Aliases) \in Nat /\ DOMAIN Aliases = 1 .. Len(Aliases)
        /\ \A i \in DOMAIN Aliases : Aliases[i] \in DOMAIN FirstCaptures
    BY AnalysisAssumption
  <2>2. \A i \in DOMAIN Aliases : c[Aliases[i]] \in Seq(EveryEntry)
    BY <2>1 DEF Captures
  <2> QED
    BY <2>1, <2>2
<1>2. Gathered(c) = FlattenSeq(all)
  BY DEF Gathered
<1> HIDE DEF all
<1> QED
  BY <1>1, <1>2, FlattenIsSeq

KeptIn(events, entry) ==
  IF IsApplicationEvent(entry) THEN Append(events, Event(entry)) ELSE events

EventsOfEntries(entries) == {Event(entry) : entry \in entries}

LEMMA EventsAreGathered ==
  ASSUME NEW c \in Captures
  PROVE  ApplicationEvents(c) \in Seq(EventsOfEntries(Range(Gathered(c))))
<1> DEFINE content == Gathered(c)
           n == Len(content)
           V == Seq(EventsOfEntries(Range(content)))
           Folds(g) == g = [s \in SUBSET (1 .. n) |->
             IF s = {} THEN <<>> ELSE KeptIn(g[s \ {Max(s)}], content[Max(s)])]
           iter == CHOOSE g : Folds(g)
           step == [p \in (1 .. n) \X V |-> KeptIn(p[2], content[p[1]])]
<1>1. /\ n \in Nat /\ DOMAIN content = 1 .. n
      /\ \A k \in 1 .. n : content[k] \in Range(content)
  BY GatheredIsSeq DEF Range
<1>2. ApplicationEvents(c) = iter[1 .. n]
  <2> HIDE DEF n
  <2> QED
    BY <1>1 DEF ApplicationEvents, FoldLeft, MapThenFoldSet, KeptIn
<1> HIDE DEF n, content
<1>3. step \in [(1 .. n) \X V -> V] /\ <<>> \in V
  <2>1. ASSUME NEW events \in V, NEW entry \in Range(content) PROVE KeptIn(events, entry) \in V
    BY DEF KeptIn, EventsOfEntries
  <2> HIDE DEF V
  <2>2. \A p \in (1 .. n) \X V : KeptIn(p[2], content[p[1]]) \in V
    BY <1>1, <2>1
  <2> QED
    BY <2>2 DEF V
<1> HIDE DEF V
<1>4. \A s \in SUBSET (1 .. n), v \in V : s # {} => Max(s) \in 1 .. n
                                         /\ step[<<Max(s), v>>] = KeptIn(v, content[Max(s)])
  <2>1. \A s \in SUBSET (1 .. n) : s # {} => Max(s) \in 1 .. n
    BY <1>1, MaxOfSome
  <2>2. \A x \in 1 .. n, v \in V : step[<<x, v>>] = KeptIn(v, content[x])
    OBVIOUS
  <2> HIDE DEF step
  <2> QED
    BY <2>1, <2>2
<1> HIDE DEF step
<1>5. \E g : Folds(g)
  <2>1. PICK g \in [SUBSET (1 .. n) -> V] : FoldsWith(g, n, <<>>, step)
    BY <1>1, <1>3, FoldExists
  <2>2. ASSUME NEW s \in SUBSET (1 .. n)
        PROVE  g[s] = IF s = {} THEN <<>> ELSE KeptIn(g[s \ {Max(s)}], content[Max(s)])
    BY <1>4, <2>1 DEF FoldsWith
  <2>3. g = [s \in SUBSET (1 .. n) |-> g[s]]
    OBVIOUS
  <2> QED
    BY <2>2, <2>3, Zenon
<1>6. Folds(iter)
  <2> HIDE DEF Folds
  <2> QED
    BY <1>5
<1> HIDE DEF iter
<1>7. \A s \in SUBSET (1 .. n) :
        iter[s] = IF s = {} THEN <<>> ELSE KeptIn(iter[s \ {Max(s)}], content[Max(s)])
  BY <1>6
<1> HIDE DEF Folds
<1>8. \E h \in [0 .. n -> V] : h[n] = iter[1 .. n] /\ Unrolled(h, n, <<>>, step)
  <2>1. iter[{}] = <<>>
    BY <1>7
  <2>2. \A s \in SUBSET (1 .. n) :
          s # {} /\ iter[s \ {Max(s)}] \in V => iter[s] = step[<<Max(s), iter[s \ {Max(s)}]>>]
    BY <1>4, <1>7
  <2>3. FoldsIn(iter, n, V, <<>>, step)
    BY <2>1, <2>2 DEF FoldsIn
  <2> QED
    BY <1>1, <1>3, <2>3, FoldUnrolls
<1> QED
  BY <1>1, <1>2, <1>8 DEF V, content

LEMMA EventsAreSeq ==
  ASSUME NEW c \in Captures
  PROVE  ApplicationEvents(c) \in Seq(AllEvents)
<1>1. PICK entries : entries = Range(Gathered(c))
  OBVIOUS
<1>2. entries \subseteq EveryEntry
  BY <1>1, GatheredIsSeq DEF Range
<1>3. EventsOfEntries(entries) \subseteq AllEvents
  BY <1>2 DEF EventsOfEntries, AllEvents
<1> QED
  BY <1>1, <1>3, EventsAreGathered

-----------------------------------------------------------------------------
(* What the tool writes, and what is in the files: the indexes name parts,   *)
(* the parts of the forms hold forms, the operations are those of curators.  *)
DataSets == {"events", "endpoints", "forms"}

Parted(index) == index.parts \in Seq([file : Nat \ {0}, records : Int, offset : Int])

WriteOK(w) ==
  /\ w.file \in DataSets \X Nat
  /\ w.file[2] = 0 => Parted(w.content)
  /\ w.file[1] = "forms" /\ w.file[2] # 0 => w.content \in Seq(AllForms)

Writes(q) == \E S : q \in Seq(S) /\ \A w \in S : WriteOK(w)

LEMMA ChunkIsSeq ==
  ASSUME NEW U, NEW records \in Seq(U), NEW n \in Nat \ {0}
  PROVE  Chunk(records, n) \in Seq(U) /\ Len(Chunk(records, n)) \in Int
<1> DEFINE from == (n - 1) * PartSize + 1
           upto == IF n * PartSize < Len(records) THEN n * PartSize ELSE Len(records)
<1>1. (n - 1) * PartSize \in Nat /\ n * PartSize \in Nat
  BY SMTT(30), AnalysisAssumption
<1>2. from \in Nat /\ from >= 1 /\ upto \in Int /\ upto <= Len(records)
  BY <1>1
<1> HIDE DEF from, upto
<1>3. \A i \in from .. upto : records[i] \in U
  BY <1>2
<1>4. SubSeq(records, from, upto) \in Seq(U)
  BY <1>2, <1>3
<1> QED
  BY <1>4 DEF Chunk, from, upto

LEMMA WrittenIs ==
  ASSUME NEW U, NEW records \in Seq(U), NEW d \in DataSets, d = "forms" => U = AllForms
  PROVE  /\ Writes(Written(d, records))
         /\ \E w \in Range(Written(d, records)) : w.file = <<d, 0>>
<1> DEFINE k == Parts(records)
           part(n) == Write(<<d, n>>, Chunk(records, n))
           index == Write(<<d, 0>>, Index(records))
           S == {part(n) : n \in 1 .. k} \cup {index}
           parts == [n \in 1 .. k |-> part(n)]
<1>1. k \in Nat
  <2>1. \A x \in Nat, size \in Nat \ {0} : x \div size \in Nat
    BY SMTT(30)
  <2>2. Len(records) + PartSize - 1 \in Nat
    BY AnalysisAssumption
  <2> QED
    BY <2>1, <2>2, AnalysisAssumption DEF Parts
<1> HIDE DEF k
<1>2. \A n \in 1 .. k : n \in Nat \ {0}
  BY <1>1
<1>3. parts \in Seq(S) /\ Len(parts) \in Nat
  <2> HIDE DEF part, index
  <2> QED
    BY <1>1
<1>4. Written(d, records) = Append(parts, index)
  BY DEF Written, k
<1>5. \A n \in 1 .. k : WriteOK(part(n))
  <2> TAKE n \in 1 .. k
  <2>1. n \in Nat \ {0} /\ Chunk(records, n) \in Seq(U)
    BY <1>2, ChunkIsSeq
  <2>2. part(n).file = <<d, n>> /\ part(n).content = Chunk(records, n)
    BY DEF Write
  <2> HIDE DEF part
  <2> QED
    BY <2>1, <2>2 DEF WriteOK
<1>6. WriteOK(index)
  <2> DEFINE R == [file : Nat \ {0}, records : Int, offset : Int]
             about(n) == [file |-> n, records |-> Len(Chunk(records, n)), offset |-> (n - 1) * PartSize]
             all == [n \in 1 .. k |-> about(n)]
  <2>1. \A n \in 1 .. k : about(n) \in R
    <3> TAKE n \in 1 .. k
    <3>1. n \in Nat \ {0} /\ Len(Chunk(records, n)) \in Int
      BY <1>2, ChunkIsSeq
    <3>2. (n - 1) * PartSize \in Int
      BY <3>1, AnalysisAssumption
    <3> QED
      BY <3>1, <3>2
  <2> HIDE DEF about, R
  <2>2. all \in Seq(R)
    BY <1>1, <2>1
  <2>3. index.file = <<d, 0>> /\ index.content.parts = all
    BY DEF Write, Index, about, k
  <2> HIDE DEF index, all
  <2> QED
    BY <2>2, <2>3 DEF WriteOK, Parted, R
<1> HIDE DEF part
<1>7. \A w \in S : WriteOK(w)
  <2> HIDE DEF index
  <2> QED
    BY <1>5, <1>6
<1>8. Append(parts, index) \in Seq(S) /\ index \in Range(Append(parts, index))
  <2>1. index \in S
    OBVIOUS
  <2> HIDE DEF parts, S, index
  <2>2. Append(parts, index) \in Seq(S) /\ Len(parts) + 1 \in DOMAIN Append(parts, index)
        /\ Append(parts, index)[Len(parts) + 1] = index
    BY <1>3, <2>1
  <2> QED
    BY <2>2 DEF Range
<1>9. index.file = <<d, 0>>
  BY DEF Write
<1> HIDE DEF S, parts, index
<1> QED
  BY <1>4, <1>7, <1>8, <1>9 DEF Writes

LEMMA WritesJoin ==
  ASSUME NEW q, Writes(q), NEW r, Writes(r)
  PROVE  Writes(q \o r) /\ Range(q \o r) = Range(q) \cup Range(r)
<1>1. PICK S : q \in Seq(S) /\ \A w \in S : WriteOK(w)
  BY DEF Writes
<1>2. PICK T : r \in Seq(T) /\ \A w \in T : WriteOK(w)
  BY DEF Writes
<1>3. q \in Seq(S \cup T) /\ r \in Seq(S \cup T) /\ \A w \in S \cup T : WriteOK(w)
  BY <1>1, <1>2
<1>4. q \o r \in Seq(S \cup T)
  BY <1>3
<1>5. Range(q \o r) = Range(q) \cup Range(r)
  BY <1>3, RangeConcatenation
<1> QED
  BY <1>3, <1>4, <1>5 DEF Writes

(* The forms of the pages captured.                                          *)
LEMMA FormsAreSeq ==
  ASSUME NEW c \in Captures
  PROVE  /\ Forms(c) \in Seq(AllForms)
         /\ \A i \in DOMAIN Forms(c) :
              \E entry \in Range(Gathered(c)) : Forms(c)[i] \in entry.forms
<1> DEFINE all == Gathered(c)
           pages == {e \in Range(all) : e.own /\ e.html /\ e.status = 200}
           found == UNION {page.forms : page \in pages}
<1>1. all \in Seq(EveryEntry)
  BY GatheredIsSeq
<1>2. Forms(c) = SetToSeq(found)
  BY DEF Forms
<1> HIDE DEF all
<1>3. IsFiniteSet(Range(all)) /\ Range(all) \subseteq EveryEntry
  <2>1. Len(all) \in Nat /\ DOMAIN all = 1 .. Len(all)
    BY <1>1
  <2>2. all \in Surjection(DOMAIN all, Range(all))
    BY <1>1 DEF Surjection, Range
  <2>3. IsFiniteSet(DOMAIN all)
    BY <2>1, FS_Interval
  <2>4. Range(all) \subseteq EveryEntry
    BY <1>1 DEF Range
  <2> QED
    BY <2>2, <2>3, <2>4, FS_Surjection
<1>4. IsFiniteSet({page.forms : page \in pages})
  <2> DEFINE formsOf == [page \in pages |-> page.forms]
             T == {page.forms : page \in pages}
  <2>1. formsOf \in Surjection(pages, T)
    BY DEF Surjection
  <2>2. IsFiniteSet(pages)
    <3>1. pages \in SUBSET Range(all)
      OBVIOUS
    <3> HIDE DEF pages
    <3> QED
      BY <1>3, <3>1, FS_Subset
  <2> HIDE DEF pages, formsOf, T
  <2>3. IsFiniteSet(T)
    BY <2>1, <2>2, FS_Surjection
  <2> QED
    BY <2>3 DEF T
<1>5. IsFiniteSet(found)
  <2> DEFINE T == {page.forms : page \in pages}
  <2>1. \A x \in T : IsFiniteSet(x)
    BY <1>3, AnalysisAssumption
  <2>2. IsFiniteSet(T)
    BY <1>4
  <2> HIDE DEF T
  <2>3. IsFiniteSet(UNION T)
    BY <2>1, <2>2, FS_UNION
  <2> QED
    BY <2>3 DEF T
<1>6. found \subseteq AllForms
  BY <1>3 DEF AllForms
<1>7. \A form \in found : \E entry \in Range(all) : form \in entry.forms
  OBVIOUS
<1> HIDE DEF found
<1>8. Forms(c) \in Seq(found)
  BY <1>2, <1>5, SetToSeqLists
<1>9. \A i \in DOMAIN Forms(c) : Forms(c)[i] \in found
  BY <1>8
<1> QED
  BY <1>6, <1>7, <1>8, <1>9 DEF all

LEMMA GenerationIs ==
  ASSUME NEW c \in Captures
  PROVE  /\ Writes(Generation(c))
         /\ \A d \in DataSets : \E w \in Range(Generation(c)) : w.file = <<d, 0>>
<1> DEFINE events == Written("events", ApplicationEvents(c))
           endpoints == Written("endpoints", Endpoints(c))
           forms == Written("forms", Forms(c))
<1>1. Writes(events) /\ \E w \in Range(events) : w.file = <<"events", 0>>
  <2>1. ApplicationEvents(c) \in Seq(AllEvents)
    BY EventsAreSeq
  <2> QED
    BY <2>1, WrittenIs DEF DataSets
<1>2. Writes(endpoints) /\ \E w \in Range(endpoints) : w.file = <<"endpoints", 0>>
  <2> DEFINE all == ApplicationEvents(c)
             patterns == {EndpointPattern(all[i].path) : i \in DOMAIN all}
             U == {Census(all, p) : p \in patterns}
  <2>1. IsFiniteSet(DOMAIN all)
    <3>1. Len(all) \in Nat /\ DOMAIN all = 1 .. Len(all)
      BY EventsAreSeq
    <3> HIDE DEF all
    <3> QED
      BY <3>1, FS_Interval
  <2>2. IsFiniteSet(patterns)
    <3> DEFINE name == [i \in DOMAIN all |-> EndpointPattern(all[i].path)]
    <3>1. name \in Surjection(DOMAIN all, patterns)
      BY DEF Surjection
    <3> HIDE DEF all, patterns, name
    <3> QED
      BY <2>1, <3>1, FS_Surjection
  <2>3. SetToSeq(patterns) \in Seq(patterns)
    <3> HIDE DEF patterns
    <3> QED
      BY <2>2, SetToSeqLists
  <2>4. Endpoints(c) \in Seq(U)
    <3> DEFINE q == SetToSeq(patterns)
    <3>1. Endpoints(c) = [i \in DOMAIN q |-> Census(all, q[i])]
      BY DEF Endpoints
    <3>2. Len(q) \in Nat /\ DOMAIN q = 1 .. Len(q) /\ \A i \in DOMAIN q : q[i] \in patterns
      <4> HIDE DEF patterns
      <4> QED
        BY <2>3
    <3> HIDE DEF q, patterns, all
    <3> QED
      BY <3>1, <3>2
  <2> HIDE DEF U
  <2> QED
    BY <2>4, WrittenIs DEF DataSets
<1>3. Writes(forms) /\ \E w \in Range(forms) : w.file = <<"forms", 0>>
  <2>1. Forms(c) \in Seq(AllForms)
    BY FormsAreSeq
  <2> QED
    BY <2>1, WrittenIs DEF DataSets
<1>4. Generation(c) = (events \o endpoints) \o forms
  BY DEF Generation
<1> HIDE DEF events, endpoints, forms
<1>5. Writes(events \o endpoints) /\ Range(events \o endpoints) = Range(events) \cup Range(endpoints)
  BY <1>1, <1>2, WritesJoin
<1>6. Writes(Generation(c))
      /\ Range(Generation(c)) = (Range(events) \cup Range(endpoints)) \cup Range(forms)
  BY <1>3, <1>4, <1>5, WritesJoin
<1> QED
  BY <1>1, <1>2, <1>3, <1>6 DEF DataSets

LEMMA TailedSeq ==
  ASSUME NEW S, NEW s \in Seq(S), s # <<>>
  PROVE  /\ Head(s) \in S /\ Tail(s) \in Seq(S)
         /\ Range(s) \subseteq {Head(s)} \cup Range(Tail(s))
<1>1. /\ Tail(s) \in Seq(S) /\ Head(s) \in S /\ Len(s) \in Nat /\ Len(s) > 0
      /\ Len(Tail(s)) = Len(s) - 1 /\ Head(s) = s[1]
      /\ \A k \in 1 .. Len(s) - 1 : Tail(s)[k] = s[k + 1]
  OBVIOUS
<1>2. ASSUME NEW k \in 1 .. Len(s), k # 1 PROVE s[k] \in Range(Tail(s))
  <2>1. k - 1 \in 1 .. Len(s) - 1 /\ k = (k - 1) + 1
    BY <1>1, <1>2
  <2>2. Tail(s)[k - 1] = s[k] /\ k - 1 \in DOMAIN Tail(s)
    BY <1>1, <2>1
  <2> QED
    BY <2>2 DEF Range
<1>3. DOMAIN s = 1 .. Len(s)
  OBVIOUS
<1> QED
  BY <1>1, <1>2, <1>3 DEF Range
LEMMA WithHas ==
  ASSUME NEW old, NEW new
  PROVE  /\ DOMAIN With(old, new) = DOMAIN old \cup DOMAIN new
         /\ \A k \in DOMAIN new : With(old, new)[k] = new[k]
         /\ \A k \in DOMAIN old : k \notin DOMAIN new => With(old, new)[k] = old[k]
  BY DEF With

Held(g) ==
  /\ \A d \in DataSets : <<d, 0>> \in DOMAIN g => Parted(g[<<d, 0>>])
  /\ \A n \in Nat \ {0} : <<"forms", n>> \in DOMAIN g => g[<<"forms", n>>] \in Seq(AllForms)
  /\ OperationsFile \in DOMAIN g => g[OperationsFile].items \in Seq(OperationEdits)

LEMMA StoredIs ==
  ASSUME NEW old, Held(old), NEW q, Writes(q)
  PROVE  /\ Held(Stored(old, q))
         /\ DOMAIN old \subseteq DOMAIN Stored(old, q)
         /\ \A w \in Range(q) : w.file \in DOMAIN Stored(old, q)
<1> DEFINE written == {w.file : w \in Range(q)}
           Of(f) == CHOOSE w \in Range(q) : w.file = f
           new == [f \in written |-> Of(f).content]
           g == Stored(old, q)
<1>1. PICK S : q \in Seq(S) /\ \A w \in S : WriteOK(w)
  BY DEF Writes
<1>2. Range(q) \subseteq S
  BY <1>1 DEF Range
<1>3. \A f \in written : Of(f) \in Range(q) /\ Of(f).file = f
  OBVIOUS
<1>4. g = With(old, new)
  BY DEF Stored
<1> HIDE DEF Of
<1>5. DOMAIN new = written /\ \A f \in written : new[f] = Of(f).content /\ WriteOK(Of(f))
  BY <1>1, <1>2, <1>3
<1>6. \A w \in Range(q) : w.file \in written
  OBVIOUS
<1> HIDE DEF new, g, written
<1>7. /\ DOMAIN g = DOMAIN old \cup written
      /\ \A f \in written : g[f] = Of(f).content
      /\ \A f \in DOMAIN old : f \notin written => g[f] = old[f]
  <2>1. /\ DOMAIN With(old, new) = DOMAIN old \cup DOMAIN new
        /\ \A k \in DOMAIN new : With(old, new)[k] = new[k]
        /\ \A k \in DOMAIN old : k \notin DOMAIN new => With(old, new)[k] = old[k]
    BY ONLY WithHas
  <2> QED
    BY <1>4, <1>5, <2>1
<1>8. ASSUME NEW d \in DataSets, <<d, 0>> \in DOMAIN g PROVE Parted(g[<<d, 0>>])
  <2>1. CASE <<d, 0>> \in written
    <3> DEFINE w == Of(<<d, 0>>)
    <3>1. w.file = <<d, 0>> /\ WriteOK(w) /\ g[<<d, 0>>] = w.content
      BY <1>3, <1>5, <1>7, <2>1
    <3> HIDE DEF w
    <3> QED
      BY <3>1 DEF WriteOK
  <2>2. CASE <<d, 0>> \notin written
    BY <1>7, <1>8, <2>2 DEF Held
  <2> QED
    BY <2>1, <2>2
<1>9. ASSUME NEW n \in Nat \ {0}, <<"forms", n>> \in DOMAIN g
      PROVE  g[<<"forms", n>>] \in Seq(AllForms)
  <2>1. CASE <<"forms", n>> \in written
    <3> DEFINE w == Of(<<"forms", n>>)
    <3>1. w.file = <<"forms", n>> /\ WriteOK(w) /\ g[<<"forms", n>>] = w.content
      BY <1>3, <1>5, <1>7, <2>1
    <3> HIDE DEF w
    <3> QED
      BY <3>1 DEF WriteOK
  <2>2. CASE <<"forms", n>> \notin written
    BY <1>7, <1>9, <2>2 DEF Held
  <2> QED
    BY <2>1, <2>2
<1>10. ASSUME OperationsFile \in DOMAIN g
       PROVE  g[OperationsFile].items \in Seq(OperationEdits)
  <2>1. OperationsFile \notin written
    <3> SUFFICES ASSUME OperationsFile \in written PROVE FALSE
      OBVIOUS
    <3> DEFINE w == Of(OperationsFile)
    <3>1. w.file = OperationsFile /\ WriteOK(w)
      BY <1>3, <1>5
    <3> HIDE DEF w
    <3>2. OperationsFile \in DataSets \X Nat
      BY <3>1 DEF WriteOK
    <3> QED
      BY <3>2 DEF DataSets, OperationsFile
  <2> QED
    BY <1>7, <1>10, <2>1 DEF Held
<1>11. Held(g)
  BY <1>8, <1>9, <1>10 DEF Held
<1> QED
  BY <1>6, <1>7, <1>11 DEF g

-----------------------------------------------------------------------------
(* The files, the tool and the compilation.                                  *)
Names == (DataSets \X Nat) \cup {OperationsFile, CatalogFile}

Needed == {<<d, 0>> : d \in DataSets} \cup {OperationsFile}

AlwaysThere == {<<d, 0>> : d \in DataSets} \cup {OperationsFile, CatalogFile}

FilesOK(f) == Held(f) /\ AlwaysThere \subseteq DOMAIN f

ReaderOK(r) ==
  /\ r = [pc |-> r.pc, want |-> r.want, got |-> r.got, contract |-> r.contract]
  /\ Held(r.got)
  /\ r.pc = "reading" => r.want \in Seq(Names) /\ Needed \subseteq DOMAIN r.got \cup Range(r.want)
  /\ r.pc = "compiled" => Needed \subseteq DOMAIN r.got /\ r.contract = Compiled(r.got)

(* The last accepted compilation was of some files.                          *)
LastOK(l) ==
  \/ l.profile = <<>>
  \/ \E g : /\ l.profile = Profile(ContractOf(g), Versions)
            /\ l.facts = FactsOf(ContractOf(g), Sessions)

AnalysisInv ==
  /\ captures \in Captures
  /\ FilesOK(files)
  /\ Writes(writing)
  /\ ReaderOK(reader)
  /\ LastOK(last)

LEMMA IdleIsOK == ReaderOK(Idle) /\ Idle.pc = "idle"
  BY DEF ReaderOK, Idle, Held

LEMMA NothingIsWritten == Writes(<<>>)
<1>1. PICK S : S = {}
  OBVIOUS
<1>2. <<>> \in Seq(S) /\ \A w \in S : WriteOK(w)
  BY <1>1
<1> QED
  BY <1>2 DEF Writes

LEMMA AnalysisInit == Init => AnalysisInv
<1> SUFFICES ASSUME Init PROVE AnalysisInv
  OBVIOUS
<1> USE DEF Init
<1>1. captures \in Captures
  BY AnalysisAssumption DEF Captures
<1>2. Held(NoEdits) /\ DOMAIN NoEdits = {OperationsFile, CatalogFile}
  BY DEF NoEdits, Held, OperationsFile, CatalogFile, DataSets
<1>3. FilesOK(files)
  <2>1. FirstCaptures \in Captures
    BY AnalysisAssumption DEF Captures
  <2> DEFINE q == Generation(FirstCaptures)
             f == Stored(NoEdits, q)
  <2>2. Writes(q) /\ \A d \in DataSets : \E w \in Range(q) : w.file = <<d, 0>>
    BY <2>1, GenerationIs
  <2> HIDE DEF q
  <2>3. Held(f) /\ DOMAIN NoEdits \subseteq DOMAIN f /\ \A w \in Range(q) : w.file \in DOMAIN f
    BY <1>2, <2>2, StoredIs
  <2> HIDE DEF f
  <2>4. FilesOK(f)
    BY <1>2, <2>2, <2>3 DEF FilesOK, AlwaysThere
  <2> QED
    BY <2>4 DEF f, q
<1>4. Writes(writing)
  BY NothingIsWritten
<1>5. ReaderOK(reader) /\ LastOK(last)
  BY IdleIsOK DEF LastOK
<1> QED
  BY <1>1, <1>3, <1>4, <1>5 DEF AnalysisInv

LEMMA CaptureSteps ==
  ASSUME captures \in Captures, NEW i \in DOMAIN Aliases, NEW entry \in Entries,
         Captured(Aliases[i], entry)
  PROVE  captures' \in Captures
<1>1. Aliases[i] \in DOMAIN FirstCaptures
  BY AnalysisAssumption
<1>2. entry \in EveryEntry
  BY DEF EveryEntry
<1> QED
  BY <1>1, <1>2 DEF Captured, Captures

LEMMA FilesSteps ==
  ASSUME FilesOK(files), Writes(writing), writing # <<>>, WriteFile
  PROVE  FilesOK(files') /\ Writes(writing')
<1>1. PICK S : writing \in Seq(S) /\ \A w \in S : WriteOK(w)
  BY DEF Writes
<1>2. Head(writing) \in S /\ Tail(writing) \in Seq(S)
  BY <1>1
<1>3. <<Head(writing)>> \in Seq(S)
  BY <1>2
<1>4. Writes(writing') /\ Writes(<<Head(writing)>>)
  BY <1>1, <1>2, <1>3 DEF WriteFile, Writes
<1>5. files' = Stored(files, <<Head(writing)>>)
  BY DEF WriteFile
<1>6. Held(files') /\ DOMAIN files \subseteq DOMAIN files'
  BY <1>4, <1>5, StoredIs DEF FilesOK
<1> QED
  BY <1>4, <1>6 DEF FilesOK

LEMMA OperationsSteps ==
  ASSUME FilesOK(files), NEW op \in OperationEdits, EditOperations(op)
  PROVE  FilesOK(files')
<1>1. OperationsFile \in DOMAIN files
  BY DEF FilesOK, AlwaysThere
<1>2. /\ DOMAIN files' = DOMAIN files
      /\ files'[OperationsFile].items = Append(files[OperationsFile].items, op)
      /\ \A f \in DOMAIN files : f # OperationsFile => files'[f] = files[f]
  BY <1>1 DEF EditOperations
<1>3. files'[OperationsFile].items \in Seq(OperationEdits)
  BY <1>1, <1>2 DEF FilesOK, Held
<1>4. \A d \in DataSets : <<d, 0>> # OperationsFile
  BY DEF DataSets, OperationsFile
<1>5. \A n \in Nat \ {0} : <<"forms", n>> # OperationsFile
  BY DEF OperationsFile
<1> QED
  BY <1>2, <1>3, <1>4, <1>5 DEF FilesOK, Held

LEMMA CatalogSteps ==
  ASSUME FilesOK(files), NEW action, EditCatalog(action)
  PROVE  FilesOK(files')
<1>1. /\ DOMAIN files' = DOMAIN files
      /\ \A f \in DOMAIN files : f # CatalogFile => files'[f] = files[f]
  BY DEF EditCatalog
<1>2. \A d \in DataSets : <<d, 0>> # CatalogFile
  BY DEF DataSets, CatalogFile
<1>3. \A n \in Nat \ {0} : <<"forms", n>> # CatalogFile
  BY DEF CatalogFile
<1>4. OperationsFile # CatalogFile
  BY DEF OperationsFile, CatalogFile
<1> QED
  BY <1>1, <1>2, <1>3, <1>4 DEF FilesOK, Held

LEMMA CompileSteps ==
  ASSUME Compile
  PROVE  ReaderOK(reader')
<1> DEFINE q == << <<"endpoints", 0>>, <<"events", 0>>, <<"forms", 0>>, OperationsFile, CatalogFile>>
<1>1. q \in Seq(Names)
  BY DEF Names, DataSets
<1>2. Needed \subseteq Range(q)
  <2>1. /\ q[1] = <<"endpoints", 0>> /\ q[2] = <<"events", 0>>
        /\ q[3] = <<"forms", 0>> /\ q[4] = OperationsFile
        /\ \A i \in 1 .. 4 : i \in DOMAIN q
    OBVIOUS
  <2> QED
    BY <2>1 DEF Needed, Range, DataSets
<1>3. reader' = [Idle EXCEPT !.pc = "reading", !.want = q]
  BY DEF Compile
<1> HIDE DEF q
<1>4. reader' = [pc |-> "reading", want |-> q, got |-> <<>>, contract |-> Refused]
  BY <1>3 DEF Idle
<1>5. Held(<<>>)
  BY DEF Held
<1> QED
  BY <1>1, <1>2, <1>4, <1>5 DEF ReaderOK

LEMMA ReadSteps ==
  ASSUME FilesOK(files), ReaderOK(reader), ReadFile
  PROVE  ReaderOK(reader')
<1> DEFINE file == Head(reader.want)
           more == IF IsIndex(file)
                   THEN [i \in DOMAIN files[file].parts |-> PartFile(file[1], files[file], i)]
                   ELSE <<>>
           new == [f \in {file} \cap DOMAIN files |-> files[f]]
           want == more \o Tail(reader.want)
           got == With(reader.got, new)
<1>1. /\ reader.pc = "reading" /\ reader.want # <<>>
      /\ reader' = [reader EXCEPT !.want = want, !.got = got]
  BY DEF ReadFile
<1>2. reader.want \in Seq(Names) /\ Needed \subseteq DOMAIN reader.got \cup Range(reader.want)
      /\ Held(reader.got)
  BY <1>1 DEF ReaderOK
<1>3. file \in Names /\ Tail(reader.want) \in Seq(Names)
      /\ Range(reader.want) \subseteq {file} \cup Range(Tail(reader.want))
  BY <1>1, <1>2, TailedSeq
<1>4. more \in Seq(Names)
  <2>1. CASE IsIndex(file)
    <3>1. PICK d \in DataSets : file = <<d, 0>>
      BY <2>1 DEF IsIndex, DataSets
    <3>2. Parted(files[file])
      BY <3>1 DEF FilesOK, Held, AlwaysThere
    <3> DEFINE parts == files[file].parts
    <3>3. Len(parts) \in Nat /\ DOMAIN parts = 1 .. Len(parts)
          /\ \A i \in DOMAIN parts : parts[i].file \in Nat
      <4> DEFINE R == [file : Nat \ {0}, records : Int, offset : Int]
      <4>1. parts \in Seq(R)
        BY <3>2 DEF Parted
      <4>2. \A part \in R : part.file \in Nat
        OBVIOUS
      <4> HIDE DEF parts, R
      <4> QED
        BY <4>1, <4>2
    <3>4. \A i \in DOMAIN parts : PartFile(file[1], files[file], i) = <<d, parts[i].file>>
      BY <3>1 DEF PartFile
    <3>5. more = [i \in DOMAIN parts |-> PartFile(file[1], files[file], i)]
      BY <2>1
    <3> HIDE DEF parts, more, file
    <3>6. \A i \in DOMAIN parts : PartFile(file[1], files[file], i) \in Names
      BY <3>3, <3>4 DEF Names
    <3> QED
      BY <3>3, <3>5, <3>6
  <2>2. CASE ~IsIndex(file)
    BY <2>2
  <2> QED
    BY <2>1, <2>2
<1> HIDE DEF more
<1>5. want \in Seq(Names) /\ Range(want) = Range(more) \cup Range(Tail(reader.want))
  <2>1. want \in Seq(Names)
    BY <1>3, <1>4
  <2>2. PICK s, t : s = more /\ t = Tail(reader.want)
    OBVIOUS
  <2>3. s \in Seq(Names) /\ t \in Seq(Names)
    BY <1>3, <1>4, <2>2
  <2>4. Range(s \o t) = Range(s) \cup Range(t)
    BY ONLY <2>3, RangeConcatenation
  <2> QED
    BY <2>1, <2>2, <2>4
<1>6. file \in Needed => file \in DOMAIN files
  BY DEF FilesOK, AlwaysThere, Needed, DataSets
<1> HIDE DEF want
<1>7. /\ DOMAIN got = DOMAIN reader.got \cup ({file} \cap DOMAIN files)
      /\ \A f \in {file} \cap DOMAIN files : got[f] = files[f]
      /\ \A f \in DOMAIN reader.got : f \notin {file} \cap DOMAIN files => got[f] = reader.got[f]
  <2> HIDE DEF file
  <2>1. DOMAIN new = {file} \cap DOMAIN files /\ \A f \in DOMAIN new : new[f] = files[f]
    OBVIOUS
  <2> HIDE DEF new
  <2>2. /\ DOMAIN With(reader.got, new) = DOMAIN reader.got \cup DOMAIN new
        /\ \A k \in DOMAIN new : With(reader.got, new)[k] = new[k]
        /\ \A k \in DOMAIN reader.got : k \notin DOMAIN new => With(reader.got, new)[k] = reader.got[k]
    BY WithHas
  <2> QED
    BY <2>1, <2>2
<1> HIDE DEF got, new, file
<1>8. Needed \subseteq DOMAIN got \cup Range(want)
  BY <1>2, <1>3, <1>5, <1>6, <1>7
<1>9. Held(got)
  <2>1. \A f \in DOMAIN got : \/ f \in DOMAIN files /\ got[f] = files[f]
                              \/ f \in DOMAIN reader.got /\ got[f] = reader.got[f]
    BY <1>7
  <2> QED
    BY <1>2, <2>1 DEF Held, FilesOK
<1>10. reader' = [pc |-> "reading", want |-> want, got |-> got, contract |-> reader.contract]
  BY <1>1 DEF ReaderOK
<1> QED
  BY <1>5, <1>8, <1>9, <1>10 DEF ReaderOK

LEMMA ConcludeSteps ==
  ASSUME ReaderOK(reader), Conclude
  PROVE  ReaderOK(reader')
<1>1. reader.pc = "reading" /\ reader.want = <<>>
      /\ reader' = [reader EXCEPT !.pc = "compiled", !.contract = Compiled(reader.got)]
  BY DEF Conclude
<1>2. reader' = [pc |-> "compiled", want |-> <<>>, got |-> reader.got,
                 contract |-> Compiled(reader.got)]
  BY <1>1 DEF ReaderOK
<1>3. Range(<<>>) = {}
  BY DEF Range
<1> QED
  BY <1>1, <1>2, <1>3 DEF ReaderOK

LEMMA CompareSteps ==
  ASSUME ReaderOK(reader), LastOK(last), Compare
  PROVE  ReaderOK(reader') /\ LastOK(last')
<1>1. reader' = Idle
  BY DEF Compare
<1>2. CASE reader.contract.ok
  <2>1. reader.contract = ContractOf(reader.got)
    BY <1>2, CompiledIs DEF Compare, ReaderOK
  <2>2. last' = [profile |-> Profile(ContractOf(reader.got), Versions),
                 facts |-> FactsOf(ContractOf(reader.got), Sessions)]
    BY <1>2, <2>1 DEF Compare
  <2>3. LastOK(last')
    BY <2>2 DEF LastOK
  <2> QED
    BY <1>1, <2>3, IdleIsOK
<1>3. CASE ~reader.contract.ok
  BY <1>1, <1>3, IdleIsOK DEF Compare
<1> QED
  BY <1>2, <1>3

LEMMA AnalysisStep == AnalysisInv /\ [Next]_vars => AnalysisInv'
<1> SUFFICES ASSUME AnalysisInv, [Next]_vars PROVE AnalysisInv'
  OBVIOUS
<1> USE DEF AnalysisInv
<1>1. ASSUME NEW i \in DOMAIN Aliases, NEW entry \in Entries, Captured(Aliases[i], entry)
      PROVE  AnalysisInv'
  BY <1>1, CaptureSteps DEF Captured
<1>2. CASE Generate
  BY <1>2, GenerationIs DEF Generate
<1>3. CASE WriteFile
  <2>1. writing # <<>>
    BY <1>3 DEF WriteFile
  <2> QED
    BY <1>3, <2>1, FilesSteps DEF WriteFile
<1>4. CASE Stop
  BY <1>4, NothingIsWritten DEF Stop
<1>5. ASSUME NEW op \in OperationEdits, EditOperations(op) PROVE AnalysisInv'
  BY <1>5, OperationsSteps DEF EditOperations
<1>6. ASSUME NEW action \in ActionEdits, EditCatalog(action) PROVE AnalysisInv'
  BY <1>6, CatalogSteps DEF EditCatalog
<1>7. CASE Compile
  BY <1>7, CompileSteps DEF Compile
<1>8. CASE ReadFile
  BY <1>8, ReadSteps DEF ReadFile
<1>9. CASE Conclude
  BY <1>9, ConcludeSteps DEF Conclude
<1>10. CASE Compare
  BY <1>10, CompareSteps DEF Compare
<1>11. CASE UNCHANGED vars
  BY <1>11 DEF vars
<1> QED
  BY <1>1, <1>2, <1>3, <1>4, <1>5, <1>6, <1>7, <1>8, <1>9, <1>10, <1>11 DEF Next

LEMMA AnalysisHolds == Spec => []AnalysisInv
  BY AnalysisInit, AnalysisStep, PTL DEF Spec

-----------------------------------------------------------------------------
(* What files record is not new to the contract compiled from them, whatever *)
(* was captured, generated and edited while they were read: no curated       *)
(* change is found again (BaselineCompiler.compile, SemanticDiff).           *)
THEOREM WhatIsRecordedIsKnown == Spec => []RecordedIsKnown
<1>1. AnalysisInv => RecordedIsKnown
  <2> SUFFICES ASSUME AnalysisInv, Accepted
               PROVE  \A o \in Recorded : /\ Observable(reader.contract, o)
                                          /\ \A f \in Facts(reader.contract, o) : ~Promotable(f)
    BY DEF RecordedIsKnown
  <2>1. ReaderOK(reader) /\ reader.pc = "compiled" /\ reader.contract.ok
    BY DEF AnalysisInv, Accepted
  <2>2. reader.contract = Compiled(reader.got) /\ ListedIn(reader.got) \in Seq(OperationEdits)
    BY <2>1 DEF ReaderOK, Needed, Held, ListedIn
  <2>3. Literal(reader.got)
    BY <2>2, EditsAreLiteral DEF Literal
  <2> QED
    BY <2>1, <2>2, <2>3, AllIsKnown
<1> QED
  BY <1>1, AnalysisHolds, PTL

(* Two compilations under one profile find the same in the sessions, though  *)
(* the files changed between them: the detector need not analyse again what  *)
(* it analysed under that profile (build_analysis_profile).                  *)
THEOREM OneProfileOneAnswer == Spec => []SameProfileFindsTheSame
<1>1. AnalysisInv => SameProfileFindsTheSame
  <2> SUFFICES ASSUME AnalysisInv, Accepted, last.profile = Profile(reader.contract, Versions)
               PROVE  last.facts = FactsOf(reader.contract, Sessions)
    BY DEF SameProfileFindsTheSame
  <2>1. reader.contract = ContractOf(reader.got)
    BY CompiledIs DEF AnalysisInv, Accepted, ReaderOK
  <2>2. PICK c : c = reader.contract /\ c = ContractOf(reader.got)
    BY <2>1
  <2>3. last.profile = Profile(c, Versions)
    BY <2>2
  <2>4. last.profile # <<>>
    BY <2>3 DEF Profile
  <2>5. PICK g : /\ last.profile = Profile(ContractOf(g), Versions)
                 /\ last.facts = FactsOf(ContractOf(g), Sessions)
    BY <2>4 DEF AnalysisInv, LastOK
  <2>6. PICK d : d = ContractOf(g)
    OBVIOUS
  <2>7. /\ d.endpoints = c.endpoints /\ d.forms = c.forms
        /\ d.operations = c.operations /\ d.actions = c.actions
    BY <2>3, <2>5, <2>6 DEF Profile
  <2>8. /\ c = [ok |-> TRUE, endpoints |-> c.endpoints, forms |-> c.forms,
                operations |-> c.operations, actions |-> c.actions]
        /\ d = [ok |-> TRUE, endpoints |-> d.endpoints, forms |-> d.forms,
                operations |-> d.operations, actions |-> d.actions]
    BY <2>2, <2>6 DEF ContractOf
  <2>9. c = d
    BY <2>7, <2>8
  <2> QED
    BY <2>2, <2>5, <2>6, <2>9
<1> QED
  BY <1>1, AnalysisHolds, PTL

-----------------------------------------------------------------------------
(* The facts of an observation are finitely many, and each that is to be     *)
(* promoted has a rule.                                                      *)
Ruled(facts) == \A f \in facts : Promotable(f) => f[1] \in RuleKinds

FewRuled(facts) == IsFiniteSet(facts) /\ Ruled(facts)

LEMMA OneRuled ==
  ASSUME NEW facts, NEW f, facts \subseteq {f}, Promotable(f) => f[1] \in RuleKinds
  PROVE  FewRuled(facts)
<1>1. IsFiniteSet({f}) /\ facts \in SUBSET {f}
  BY FS_Singleton
<1>2. IsFiniteSet(facts)
  BY <1>1, FS_Subset
<1> QED
  BY <1>2 DEF FewRuled, Ruled

LEMMA BothRuled ==
  ASSUME NEW A, FewRuled(A), NEW B, FewRuled(B)
  PROVE  FewRuled(A \cup B)
<1>1. IsFiniteSet(A \cup B)
  BY FS_Union DEF FewRuled
<1> QED
  BY <1>1 DEF FewRuled, Ruled

LEMMA NoneRuled == FewRuled({})
  BY FS_EmptySet DEF FewRuled, Ruled

LEMMA EndpointFew ==
  ASSUME NEW contract, NEW o
  PROVE  FewRuled(EndpointFacts(contract, o))
<1> DEFINE subject == <<o.method, o.path>>
           keys == {Novel("endpoint.query_key_added", subject, k, o.id) :
                      k \in {AddedKeys(contract, o)} \ {{}}}
           statuses == {Novel("endpoint.status_added", subject, s, o.id) :
                          s \in AddedStatus(contract, o)}
<1>1. FewRuled(keys)
  <2>1. keys \subseteq {Novel("endpoint.query_key_added", subject, AddedKeys(contract, o), o.id)}
    OBVIOUS
  <2>2. Novel("endpoint.query_key_added", subject, AddedKeys(contract, o), o.id)[1] \in RuleKinds
    BY DEF Novel, Fact, RuleKinds
  <2> HIDE DEF keys
  <2> QED
    BY <2>1, <2>2, OneRuled
<1>2. FewRuled(statuses)
  <2>1. statuses \subseteq {Novel("endpoint.status_added", subject, o.status, o.id)}
    BY DEF AddedStatus
  <2>2. Novel("endpoint.status_added", subject, o.status, o.id)[1] \in RuleKinds
    BY DEF Novel, Fact, RuleKinds
  <2> HIDE DEF statuses
  <2> QED
    BY <2>1, <2>2, OneRuled
<1>3. FewRuled({Novel("endpoint.new", <<o.path>>, {}, o.id)})
  <2>1. Novel("endpoint.new", <<o.path>>, {}, o.id)[1] \in RuleKinds
    BY DEF Novel, Fact, RuleKinds
  <2> QED
    BY <2>1, OneRuled
<1>4. FewRuled({Novel("endpoint.method_added", <<o.path>>, o.method, o.id)})
  <2>1. Novel("endpoint.method_added", <<o.path>>, o.method, o.id)[1] \in RuleKinds
    BY DEF Novel, Fact, RuleKinds
  <2> QED
    BY <2>1, OneRuled
<1>5. FewRuled({Known("endpoint.known", subject, o.id)})
  <2>1. ~Promotable(Known("endpoint.known", subject, o.id))
    BY KnownIsNotNew
  <2> QED
    BY <2>1, OneRuled
<1>6. FewRuled(keys \cup statuses)
  <2> HIDE DEF keys, statuses
  <2> QED
    BY <1>1, <1>2, BothRuled
<1>7. \/ EndpointFacts(contract, o) = {Novel("endpoint.new", <<o.path>>, {}, o.id)}
      \/ EndpointFacts(contract, o) = {Novel("endpoint.method_added", <<o.path>>, o.method, o.id)}
      \/ EndpointFacts(contract, o) = keys \cup statuses
      \/ EndpointFacts(contract, o) = {Known("endpoint.known", subject, o.id)}
  BY DEF EndpointFacts
<1> QED
  BY <1>3, <1>4, <1>5, <1>6, <1>7

LEMMA OnlyOne ==
  ASSUME NEW S, IsFiniteSet(S), Cardinality(S) = 1
  PROVE  \E x : S = {x}
  BY FS_Singleton

LEMMA OperationFew ==
  ASSUME NEW contract, IsFiniteSet(contract.operations), NEW o
  PROVE  FewRuled(OperationFacts(contract, o))
<1> DEFINE subject == <<o.method, o.path>>
           ops == Matching(contract.operations, o.method, o.path)
           closest == Additions(contract, o)
           Added(op, kind, keys) == {Novel(kind, subject, k, o.id) : k \in {keys} \ {{}}}
           both(op) == Added(op, "operation.query_key_added", o.query \ op.query)
                         \cup Added(op, "operation.body_key_added", o.body \ op.body)
<1>1. IsFiniteSet(closest)
  <2>1. closest \in SUBSET contract.operations
    BY DEF Additions, Matching
  <2> HIDE DEF closest
  <2> QED
    BY <2>1, FS_Subset
<1>2. ASSUME NEW op PROVE FewRuled(both(op))
  <2> DEFINE A == Added(op, "operation.query_key_added", o.query \ op.query)
             B == Added(op, "operation.body_key_added", o.body \ op.body)
  <2>1. FewRuled(A)
    <3>1. A \subseteq {Novel("operation.query_key_added", subject, o.query \ op.query, o.id)}
      OBVIOUS
    <3>2. Novel("operation.query_key_added", subject, o.query \ op.query, o.id)[1] \in RuleKinds
      BY DEF Novel, Fact, RuleKinds
    <3> HIDE DEF A
    <3> QED
      BY <3>1, <3>2, OneRuled
  <2>2. FewRuled(B)
    <3>1. B \subseteq {Novel("operation.body_key_added", subject, o.body \ op.body, o.id)}
      OBVIOUS
    <3>2. Novel("operation.body_key_added", subject, o.body \ op.body, o.id)[1] \in RuleKinds
      BY DEF Novel, Fact, RuleKinds
    <3> HIDE DEF B
    <3> QED
      BY <3>1, <3>2, OneRuled
  <2>3. both(op) = A \cup B
    OBVIOUS
  <2> HIDE DEF A, B, both
  <2> QED
    BY <2>1, <2>2, <2>3, BothRuled
<1>3. FewRuled({Fact("indeterminate", "operation.indeterminate", subject, {}, o.id)})
  <2>1. ~Promotable(Fact("indeterminate", "operation.indeterminate", subject, {}, o.id))
    BY DEF Fact, Promotable
  <2> QED
    BY <2>1, OneRuled
<1>4. FewRuled({Known("operation.known", subject, o.id)})
  <2>1. ~Promotable(Known("operation.known", subject, o.id))
    BY KnownIsNotNew
  <2> QED
    BY <2>1, OneRuled
<1>5. FewRuled({Novel("operation.new_signature", subject, <<o.query, o.body>>, o.id)})
  <2>1. Novel("operation.new_signature", subject, <<o.query, o.body>>, o.id)[1] \in RuleKinds
    BY DEF Novel, Fact, RuleKinds
  <2> QED
    BY <2>1, OneRuled
<1>6. \/ OperationFacts(contract, o) = {}
      \/ OperationFacts(contract, o) =
           {Fact("indeterminate", "operation.indeterminate", subject, {}, o.id)}
      \/ OperationFacts(contract, o) = {Known("operation.known", subject, o.id)}
      \/ OperationFacts(contract, o) =
           {Novel("operation.new_signature", subject, <<o.query, o.body>>, o.id)}
      \/ /\ Cardinality(closest) = 1
         /\ OperationFacts(contract, o) = UNION {both(op) : op \in closest}
  BY DEF OperationFacts
<1> HIDE DEF closest, both
<1>7. Cardinality(closest) = 1 => FewRuled(UNION {both(op) : op \in closest})
  <2> SUFFICES ASSUME Cardinality(closest) = 1
               PROVE  FewRuled(UNION {both(op) : op \in closest})
    OBVIOUS
  <2>1. PICK x : closest = {x}
    BY <1>1, OnlyOne
  <2>2. UNION {both(op) : op \in closest} = both(x)
    BY <2>1
  <2> QED
    BY <1>2, <2>2
<1> QED
  BY <1>3, <1>4, <1>5, <1>6, <1>7, NoneRuled

LEMMA FormFew ==
  ASSUME NEW contract, IsFiniteSet(contract.forms), NEW o
  PROVE  FewRuled(FormFacts(contract, o))
<1> DEFINE subject == <<o.method, o.path>>
           ours == {f \in contract.forms : f.method = o.method /\ f.path = o.path}
           known == {f.fields : f \in ours}
           rest == {o.fields \ f : f \in {f \in known : f \subseteq o.fields}}
           added == {Novel("form.field_added", subject, a, o.id) : a \in Smallest(rest)}
<1>1. FewRuled({Known("form.known", subject, o.id)})
  <2>1. ~Promotable(Known("form.known", subject, o.id))
    BY KnownIsNotNew
  <2> QED
    BY <2>1, OneRuled
<1>2. FewRuled({Novel("form.signature_new", subject, o.fields, o.id)})
  <2>1. Novel("form.signature_new", subject, o.fields, o.id)[1] \in RuleKinds
    BY DEF Novel, Fact, RuleKinds
  <2> QED
    BY <2>1, OneRuled
<1>3. \/ FormFacts(contract, o) = {Known("form.known", subject, o.id)}
      \/ FormFacts(contract, o) = {Novel("form.signature_new", subject, o.fields, o.id)}
      \/ Cardinality(Smallest(rest)) = 1 /\ FormFacts(contract, o) = added
  BY DEF FormFacts
<1>4. IsFiniteSet(rest)
  <2> DEFINE without == [f \in contract.forms |-> o.fields \ f.fields]
             all == {without[f] : f \in contract.forms}
  <2>1. without \in Surjection(contract.forms, all)
    BY DEF Surjection
  <2>2. rest \in SUBSET all
    OBVIOUS
  <2> HIDE DEF without, all, rest
  <2>3. IsFiniteSet(all)
    BY <2>1, FS_Surjection
  <2> QED
    BY <2>2, <2>3, FS_Subset
<1> HIDE DEF rest
<1>5. IsFiniteSet(Smallest(rest))
  <2>1. Smallest(rest) \in SUBSET rest
    BY DEF Smallest
  <2> QED
    BY <1>4, <2>1, FS_Subset
<1>6. Cardinality(Smallest(rest)) = 1 => FewRuled(added)
  <2> SUFFICES ASSUME Cardinality(Smallest(rest)) = 1 PROVE FewRuled(added)
    OBVIOUS
  <2>1. PICK x : Smallest(rest) = {x}
    BY <1>5, OnlyOne
  <2>2. added \subseteq {Novel("form.field_added", subject, x, o.id)}
    BY <2>1
  <2>3. Novel("form.field_added", subject, x, o.id)[1] \in RuleKinds
    BY DEF Novel, Fact, RuleKinds
  <2> HIDE DEF added
  <2> QED
    BY <2>2, <2>3, OneRuled
<1> QED
  BY <1>1, <1>2, <1>3, <1>6

LEMMA RelationFew ==
  ASSUME NEW contract, NEW o
  PROVE  FewRuled(RelationFacts(contract, o))
<1> DEFINE subject == <<o.method, o.path>>
           actions == {<<a.method, a.path>> : a \in contract.actions}
           n == Novel("action_http.request_family_new", subject, o.correlation, o.id)
           c == Fact("conflict", "action_http.path_conflict", <<subject, o.action>>,
                     o.correlation, o.id)
           i == Fact("indeterminate", "relation.temporal_only", <<subject, o.action>>, {}, o.id)
           k == Known("relation.known", <<subject, o.action>>, o.id)
           new == IF o.method \notin SafeMethods /\ subject \notin actions THEN {n} ELSE {}
           conflict == IF o.action \notin {Unknown, o.path} THEN {c} ELSE {}
<1>1. FewRuled(new)
  <2>1. new \subseteq {n}
    OBVIOUS
  <2>2. n[1] \in RuleKinds
    BY DEF Novel, Fact, RuleKinds
  <2> HIDE DEF new, n
  <2> QED
    BY <2>1, <2>2, OneRuled
<1>2. FewRuled(conflict)
  <2>1. conflict \subseteq {c}
    OBVIOUS
  <2>2. c[1] \in RuleKinds
    BY DEF Fact, RuleKinds
  <2> HIDE DEF conflict, c
  <2> QED
    BY <2>1, <2>2, OneRuled
<1>3. FewRuled({i})
  <2>1. ~Promotable(i)
    BY DEF Fact, Promotable
  <2> HIDE DEF i
  <2> QED
    BY <2>1, OneRuled
<1>4. FewRuled({k})
  <2>1. ~Promotable(k)
    BY KnownIsNotNew
  <2> HIDE DEF k
  <2> QED
    BY <2>1, OneRuled
<1>5. \/ RelationFacts(contract, o) = {i}
      \/ RelationFacts(contract, o) = new \cup conflict
      \/ RelationFacts(contract, o) = {k}
  BY DEF RelationFacts
<1> HIDE DEF new, conflict, i, k
<1>6. FewRuled(new \cup conflict)
  BY <1>1, <1>2, BothRuled
<1> QED
  BY <1>3, <1>4, <1>5, <1>6

LEMMA FactsFew ==
  ASSUME NEW contract, IsFiniteSet(contract.operations), IsFiniteSet(contract.forms),
         NEW raw \in Sessions
  PROVE  FewRuled(Facts(contract, raw))
<1> DEFINE o == Observed(contract, raw)
<1>1. o.what = raw.what /\ raw.what \in {"http", "form", "relation"}
  <2>1. raw.what \in {"http", "form", "relation"} /\ {"what", "path"} \subseteq DOMAIN raw
    BY AnalysisAssumption
  <2> QED
    BY <2>1 DEF Observed
<1> HIDE DEF o
<1>2. Facts(contract, raw) =
        CASE o.what = "http" -> EndpointFacts(contract, o) \cup OperationFacts(contract, o)
          [] o.what = "form" -> FormFacts(contract, o)
          [] o.what = "relation" -> RelationFacts(contract, o)
  BY DEF Facts, o
<1>3. FewRuled(EndpointFacts(contract, o) \cup OperationFacts(contract, o))
  BY EndpointFew, OperationFew, BothRuled
<1> QED
  BY <1>1, <1>2, <1>3, FormFew, RelationFew

-----------------------------------------------------------------------------
(* The findings of facts, in whatever order they come.                       *)
Gathering(facts) ==
  [id \in {ChangeId(f) : f \in facts} |->
     {f[5] : f \in {f \in facts : ChangeId(f) = id}}]

LEMMA GatheredEmpty == Gathering({}) = <<>>
  BY DEF Gathering

LEMMA FoundGathers ==
  ASSUME NEW facts, NEW f
  PROVE  Found(Gathering(facts), f) = Gathering(facts \cup {f})
<1> DEFINE g == Gathering(facts)
           more == Gathering(facts \cup {f})
           id == ChangeId(f)
           before == IF id \in DOMAIN g THEN g[id] ELSE {}
           new == [i \in {id} |-> before \cup {f[5]}]
           Of(i) == {e[5] : e \in {e \in facts : ChangeId(e) = i}}
<1>1. DOMAIN g = {ChangeId(e) : e \in facts} /\ \A i \in DOMAIN g : g[i] = Of(i)
  BY DEF Gathering
<1>2. DOMAIN more = DOMAIN g \cup {id}
  BY <1>1 DEF Gathering
<1>3. ASSUME NEW i \in DOMAIN g, i # id PROVE more[i] = g[i]
  <2>1. {e \in facts \cup {f} : ChangeId(e) = i} = {e \in facts : ChangeId(e) = i}
    BY <1>3
  <2>2. more[i] = {e[5] : e \in {e \in facts \cup {f} : ChangeId(e) = i}}
    BY <1>2 DEF Gathering
  <2> QED
    BY <1>1, <2>1, <2>2
<1>4. more[id] = before \cup {f[5]}
  <2>1. {e \in facts \cup {f} : ChangeId(e) = id} = {e \in facts : ChangeId(e) = id} \cup {f}
    OBVIOUS
  <2>2. more[id] = {e[5] : e \in {e \in facts \cup {f} : ChangeId(e) = id}}
    BY <1>2 DEF Gathering
  <2>3. more[id] = Of(id) \cup {f[5]}
    BY <2>1, <2>2
  <2>4. before = Of(id)
    <3>1. CASE id \in DOMAIN g
      BY <1>1, <3>1
    <3>2. CASE id \notin DOMAIN g
      BY <1>1, <3>2
    <3> QED
      BY <3>1, <3>2
  <2> QED
    BY <2>3, <2>4
<1>5. Found(g, f) = With(g, new)
  BY DEF Found
<1>6. more = [i \in DOMAIN more |-> more[i]]
  BY DEF Gathering
<1> HIDE DEF g, more, id, before
<1>7. With(g, new) = [i \in DOMAIN g \cup {id} |-> IF i \in {id} THEN new[i] ELSE g[i]]
  BY DEF With
<1>8. \A i \in DOMAIN g \cup {id} : (IF i \in {id} THEN new[i] ELSE g[i]) = more[i]
  BY <1>3, <1>4
<1> HIDE DEF new
<1>9. With(g, new) = [i \in DOMAIN more |-> more[i]]
  BY <1>2, <1>7, <1>8
<1> QED
  BY <1>5, <1>6, <1>9 DEF g, more

(* One fact applied.                                                         *)
AppliedOne(findings, f) == IF Promotable(f) THEN Found(findings, f) ELSE findings

LEMMA AppliedGathers ==
  ASSUME NEW U, Ruled(U), NEW q \in Seq(U), Range(q) = U
  PROVE  Applied(q) = [ok |-> TRUE, findings |-> Gathering({f \in U : Promotable(f)})]
<1> DEFINE n == Len(q)
           V == {Gathering(facts) : facts \in SUBSET U}
           Folds(g) == g = [s \in SUBSET (1 .. n) |->
             IF s = {} THEN <<>> ELSE AppliedOne(g[s \ {Max(s)}], q[Max(s)])]
           iter == CHOOSE g : Folds(g)
           step == [p \in (1 .. n) \X V |-> AppliedOne(p[2], q[p[1]])]
<1>1. /\ n \in Nat /\ DOMAIN q = 1 .. n
      /\ \A k \in 1 .. n : q[k] \in U
  OBVIOUS
<1>2. Applied(q) = [ok |-> TRUE, findings |-> iter[1 .. n]]
  <2>1. \A f \in Range(q) : Promotable(f) => f[1] \in RuleKinds
    BY DEF Ruled
  <2> DEFINE folded == FoldLeft(LAMBDA findings, f :
                                  IF Promotable(f) THEN Found(findings, f) ELSE findings, <<>>, q)
  <2>2. Applied(q) = [ok |-> TRUE, findings |-> folded]
    BY <2>1 DEF Applied
  <2>3. folded = iter[1 .. n]
    <3> HIDE DEF n
    <3> QED
      BY <1>1 DEF FoldLeft, MapThenFoldSet, AppliedOne
  <2> HIDE DEF folded, iter
  <2> QED
    BY <2>2, <2>3
<1> HIDE DEF n
<1>3. step \in [(1 .. n) \X V -> V] /\ <<>> \in V
  <2>1. ASSUME NEW facts \in SUBSET U, NEW f \in U
        PROVE  AppliedOne(Gathering(facts), f) \in V
    <3>1. facts \cup {f} \in SUBSET U
      OBVIOUS
    <3>2. AppliedOne(Gathering(facts), f) \in {Gathering(facts), Gathering(facts \cup {f})}
      BY FoundGathers DEF AppliedOne
    <3> QED
      BY <3>1, <3>2
  <2>2. \A p \in (1 .. n) \X V : AppliedOne(p[2], q[p[1]]) \in V
    <3> TAKE p \in (1 .. n) \X V
    <3>1. q[p[1]] \in U /\ \E facts \in SUBSET U : p[2] = Gathering(facts)
      BY <1>1
    <3> HIDE DEF V
    <3> QED
      BY <2>1, <3>1
  <2>3. <<>> \in V
    <3>1. {} \in SUBSET U
      OBVIOUS
    <3> QED
      BY <3>1, GatheredEmpty
  <2> HIDE DEF V
  <2> QED
    BY <2>2, <2>3
<1> HIDE DEF V
<1>4. \A s \in SUBSET (1 .. n), v \in V : s # {} => Max(s) \in 1 .. n
                                         /\ step[<<Max(s), v>>] = AppliedOne(v, q[Max(s)])
  <2>1. \A s \in SUBSET (1 .. n) : s # {} => Max(s) \in 1 .. n
    BY <1>1, MaxOfSome
  <2>2. \A x \in 1 .. n, v \in V : step[<<x, v>>] = AppliedOne(v, q[x])
    OBVIOUS
  <2> HIDE DEF step
  <2> QED
    BY <2>1, <2>2
<1>5. \A x \in 1 .. n, v \in V : step[<<x, v>>] = AppliedOne(v, q[x])
  OBVIOUS
<1> HIDE DEF step
<1>6. \E g : Folds(g)
  <2>1. PICK g \in [SUBSET (1 .. n) -> V] : FoldsWith(g, n, <<>>, step)
    BY <1>1, <1>3, FoldExists
  <2>2. ASSUME NEW s \in SUBSET (1 .. n)
        PROVE  g[s] = IF s = {} THEN <<>> ELSE AppliedOne(g[s \ {Max(s)}], q[Max(s)])
    BY <1>4, <2>1 DEF FoldsWith
  <2>3. g = [s \in SUBSET (1 .. n) |-> g[s]]
    OBVIOUS
  <2> QED
    BY <2>2, <2>3, Zenon
<1>7. Folds(iter)
  <2> HIDE DEF Folds
  <2> QED
    BY <1>6
<1> HIDE DEF iter
<1>8. \A s \in SUBSET (1 .. n) :
        iter[s] = IF s = {} THEN <<>> ELSE AppliedOne(iter[s \ {Max(s)}], q[Max(s)])
  BY <1>7
<1> HIDE DEF Folds
<1>9. PICK h \in [0 .. n -> V] : h[n] = iter[1 .. n] /\ Unrolled(h, n, <<>>, step)
  <2>1. iter[{}] = <<>>
    BY <1>8
  <2>2. \A s \in SUBSET (1 .. n) :
          s # {} /\ iter[s \ {Max(s)}] \in V => iter[s] = step[<<Max(s), iter[s \ {Max(s)}]>>]
    BY <1>4, <1>8
  <2>3. FoldsIn(iter, n, V, <<>>, step)
    BY <2>1, <2>2 DEF FoldsIn
  <2> QED
    BY <1>1, <1>3, <2>3, FoldUnrolls
<1> DEFINE Upto(m) == {f \in {q[k] : k \in 1 .. m} : Promotable(f)}
           T == {m \in Nat : m <= n => h[m] = Gathering(Upto(m))}
<1>10. 0 \in T
  <2>1. Upto(0) = {}
    OBVIOUS
  <2>2. h[0] = <<>>
    BY <1>9 DEF Unrolled
  <2> QED
    BY <2>1, <2>2, GatheredEmpty
<1>11. ASSUME NEW m \in Nat, m \in T PROVE m + 1 \in T
  <2> SUFFICES ASSUME m + 1 <= n PROVE h[m + 1] = Gathering(Upto(m + 1))
    OBVIOUS
  <2>1. m <= n /\ m + 1 \in 1 .. n /\ (m + 1) - 1 = m /\ m \in 0 .. n
    BY <1>1
  <2>2. h[m] = Gathering(Upto(m)) /\ h[m] \in V
    BY <1>11, <2>1
  <2>3. h[m + 1] = step[<<m + 1, h[m]>>]
    BY <1>9, <2>1 DEF Unrolled
  <2>4. h[m + 1] = AppliedOne(Gathering(Upto(m)), q[m + 1])
    BY <1>5, <2>1, <2>2, <2>3
  <2>5. {q[k] : k \in 1 .. (m + 1)} = {q[k] : k \in 1 .. m} \cup {q[m + 1]}
    <3>1. 1 .. (m + 1) = (1 .. m) \cup {m + 1}
      OBVIOUS
    <3> QED
      BY <3>1
  <2>6. CASE Promotable(q[m + 1])
    <3>1. Upto(m + 1) = Upto(m) \cup {q[m + 1]}
      BY <2>5, <2>6
    <3> HIDE DEF Upto
    <3> QED
      BY <2>4, <2>6, <3>1, FoundGathers DEF AppliedOne
  <2>7. CASE ~Promotable(q[m + 1])
    <3>1. Upto(m + 1) = Upto(m)
      BY <2>5, <2>7
    <3> HIDE DEF Upto
    <3> QED
      BY <2>4, <2>7, <3>1 DEF AppliedOne
  <2> QED
    BY <2>6, <2>7
<1>12. h[n] = Gathering(Upto(n))
  <2>1. n \in T
    <3> HIDE DEF T
    <3> QED
      BY <1>1, <1>10, <1>11, Induction
  <2> QED
    BY <1>1, <2>1
<1>13. Upto(n) = {f \in U : Promotable(f)}
  <2>1. {q[k] : k \in 1 .. n} = U
    BY <1>1 DEF Range
  <2> QED
    BY <2>1
<1> HIDE DEF Upto
<1> QED
  BY <1>2, <1>9, <1>12, <1>13

(* What flattened sequences have, each of them has.                          *)
LEMMA FlattenHas ==
  ASSUME NEW U, NEW seqs \in Seq(Seq(U))
  PROVE  Range(FlattenSeq(seqs)) = UNION {Range(seqs[i]) : i \in 1 .. Len(seqs)}
<1> DEFINE n == Len(seqs)
<1>1. PICK h \in [0 .. n -> Seq(U)] : FlattensTo(h, seqs) /\ FlattenSeq(seqs) = h[n]
  BY FlattenSteps
<1>2. n \in Nat /\ \A i \in 1 .. n : seqs[i] \in Seq(U)
  OBVIOUS
<1>3. h[0] = <<>> /\ \A k \in 1 .. n : h[k] = h[k - 1] \o seqs[k]
  BY <1>1 DEF FlattensTo
<1> HIDE DEF n
<1> DEFINE Upto(m) == UNION {Range(seqs[i]) : i \in 1 .. m}
           T == {m \in Nat : m <= n => Range(h[m]) = Upto(m)}
<1>4. 0 \in T
  <2>1. Upto(0) = {}
    OBVIOUS
  <2>2. Range(h[0]) = {}
    BY <1>3 DEF Range
  <2> HIDE DEF Upto
  <2> QED
    BY <2>1, <2>2
<1>5. ASSUME NEW m \in Nat, m \in T PROVE m + 1 \in T
  <2> SUFFICES ASSUME m + 1 <= n PROVE Range(h[m + 1]) = Upto(m + 1)
    OBVIOUS
  <2>1. m <= n /\ m + 1 \in 1 .. n /\ (m + 1) - 1 = m /\ m \in 0 .. n
    BY <1>2
  <2>2. PICK s, t : s = h[m] /\ t = seqs[m + 1]
    OBVIOUS
  <2>3. s \in Seq(U) /\ t \in Seq(U)
    BY <1>1, <1>2, <2>1, <2>2
  <2>4. Range(s \o t) = Range(s) \cup Range(t)
    BY ONLY <2>3, RangeConcatenation
  <2>5. h[m + 1] = s \o t
    BY <1>3, <2>1, <2>2
  <2>6. Range(s) = Upto(m)
    BY <1>5, <2>1, <2>2
  <2>7. Upto(m + 1) = Upto(m) \cup Range(t)
    <3>1. 1 .. (m + 1) = (1 .. m) \cup {m + 1}
      OBVIOUS
    <3> QED
      BY <2>2, <3>1
  <2> HIDE DEF Upto
  <2> QED
    BY <2>4, <2>5, <2>6, <2>7
<1>6. n \in T
  <2> HIDE DEF T
  <2> QED
    BY <1>2, <1>4, <1>5, Induction
<1>7. Range(h[n]) = Upto(n)
  BY <1>2, <1>6
<1> HIDE DEF Upto
<1> QED
  BY <1>1, <1>7 DEF Upto, n

(* An order of a finite set has each of its elements.                        *)
LEMMA OrderHas ==
  ASSUME NEW S, IsFiniteSet(S), NEW order \in SetToSeqs(S)
  PROVE  order \in Seq(S) /\ Range(order) = S
<1> DEFINE n == Cardinality(S)
<1>1. n \in Nat
  BY FS_CardinalityType
<1>2. order \in [1 .. n -> S] /\ \A i, j \in 1 .. n : i # j => order[i] # order[j]
  BY DEF SetToSeqs
<1>3. order \in Injection(1 .. n, S)
  BY <1>2 DEF Injection, IsInjective
<1> HIDE DEF n
<1>4. IsFiniteSet(1 .. n) /\ Cardinality(1 .. n) = n
  BY SMTT(30), <1>1, FS_Interval
<1>5. order \in Surjection(1 .. n, S)
  BY <1>3, <1>4, FS_Injection DEF n
<1>6. Range(order) = S
  BY <1>2, <1>5 DEF Surjection, Range
<1>7. order \in Seq(S)
  BY <1>1, <1>2
<1> QED
  BY <1>6, <1>7

LEMMA OrderDoesNotMatter ==
  ASSUME NEW contract, IsFiniteSet(contract.operations), IsFiniteSet(contract.forms),
         NEW shown, shown \subseteq Sessions, NEW order \in SetToSeqs(shown)
  PROVE  LET all == UNION {Facts(contract, o) : o \in shown}
             q == FlattenSeq([i \in DOMAIN order |-> SetToSeq(Facts(contract, order[i]))])
         IN Applied(q) = [ok |-> TRUE, findings |-> Gathering({f \in all : Promotable(f)})]
<1> DEFINE all == UNION {Facts(contract, o) : o \in shown}
           seqs == [i \in DOMAIN order |-> SetToSeq(Facts(contract, order[i]))]
<1>1. IsFiniteSet(shown)
  BY FS_Subset, AnalysisAssumption
<1>2. order \in Seq(shown) /\ Range(order) = shown
  BY <1>1, OrderHas
<1>3. \A o \in shown : FewRuled(Facts(contract, o))
  BY FactsFew
<1>4. Ruled(all)
  BY <1>3 DEF FewRuled, Ruled
<1>5. \A o \in shown : /\ SetToSeq(Facts(contract, o)) \in Seq(all)
                       /\ Range(SetToSeq(Facts(contract, o))) = Facts(contract, o)
  <2> TAKE o \in shown
  <2>1. PICK S : S = Facts(contract, o)
    OBVIOUS
  <2>2. SetToSeq(S) \in Seq(S) /\ Range(SetToSeq(S)) = S
    BY <1>3, <2>1, SetToSeqLists DEF FewRuled
  <2>3. S \subseteq all
    BY <2>1
  <2> HIDE DEF all
  <2> QED
    BY <2>1, <2>2, <2>3
<1> HIDE DEF all
<1>6. Len(order) \in Nat /\ DOMAIN order = 1 .. Len(order) /\ \A i \in DOMAIN order : order[i] \in shown
  BY <1>2
<1>7. \A i \in DOMAIN order : /\ SetToSeq(Facts(contract, order[i])) \in Seq(all)
                              /\ Range(SetToSeq(Facts(contract, order[i]))) = Facts(contract, order[i])
  BY <1>5, <1>6
<1>8. seqs \in Seq(Seq(all)) /\ Len(seqs) = Len(order)
  BY <1>6, <1>7
<1>9. \A i \in 1 .. Len(order) : Range(seqs[i]) = Facts(contract, order[i])
  BY <1>6, <1>7
<1> HIDE DEF seqs
<1>10. UNION {Range(seqs[i]) : i \in 1 .. Len(seqs)} = all
  <2>1. \A o \in shown : \E i \in 1 .. Len(order) : order[i] = o
    BY <1>2, <1>6 DEF Range
  <2>2. {Facts(contract, order[i]) : i \in 1 .. Len(order)} = {Facts(contract, o) : o \in shown}
    <3>1. \A i \in 1 .. Len(order) : order[i] \in shown
      BY <1>6
    <3> QED
      BY <2>1, <3>1
  <2>3. {Range(seqs[i]) : i \in 1 .. Len(seqs)} = {Facts(contract, order[i]) : i \in 1 .. Len(order)}
    BY <1>8, <1>9
  <2> QED
    BY <2>2, <2>3 DEF all
<1>11. FlattenSeq(seqs) \in Seq(all) /\ Range(FlattenSeq(seqs)) = all
  BY <1>8, <1>10, FlattenIsSeq, FlattenHas
<1>12. Applied(FlattenSeq(seqs)) = [ok |-> TRUE, findings |-> Gathering({f \in all : Promotable(f)})]
  BY <1>4, <1>11, AppliedGathers
<1> QED
  BY <1>12 DEF all, seqs

(* The operations and the forms of a contract are finitely many.             *)
LEMMA ContractIsFinite ==
  ASSUME NEW g, Compiled(g).ok, Held(g), Needed \subseteq DOMAIN g
  PROVE  IsFiniteSet(ContractOf(g).operations) /\ IsFiniteSet(ContractOf(g).forms)
<1>1. IsFiniteSet(OperationsOf(g))
  <2> DEFINE items == ListedIn(g)
             made == [i \in DOMAIN items |-> Operation(CensusOf(g), items[i])]
  <2>1. items \in Seq(OperationEdits)
    BY DEF Held, Needed, ListedIn
  <2>2. made \in Surjection(DOMAIN items, OperationsOf(g))
    BY DEF Surjection, OperationsOf
  <2> HIDE DEF items, made
  <2>3. IsFiniteSet(DOMAIN items)
    <3>1. Len(items) \in Nat /\ DOMAIN items = 1 .. Len(items)
      BY <2>1
    <3> QED
      BY <3>1, FS_Interval
  <2> QED
    BY <2>2, <2>3, FS_Surjection
<1>2. FormsIn(g) \in Seq(AllForms)
  <2> DEFINE index == g[<<"forms", 0>>]
             parts == index.parts
             seqs == [i \in DOMAIN parts |-> g[PartFile("forms", index, i)]]
             R == [file : Nat \ {0}, records : Int, offset : Int]
  <2>1. Whole(g, "forms")
    BY CompiledIs
  <2>2. \A i \in DOMAIN parts : PartFile("forms", index, i) \in DOMAIN g
    BY <2>1 DEF Whole
  <2>3. parts \in Seq(R)
    BY DEF Held, Needed, Parted, DataSets
  <2>4. FormsIn(g) = FlattenSeq(seqs)
    BY DEF FormsIn, Loaded
  <2>5. \A part \in R : part.file \in Nat \ {0}
    OBVIOUS
  <2>6. \A i \in DOMAIN parts : PartFile("forms", index, i) = <<"forms", parts[i].file>>
    BY DEF PartFile
  <2> HIDE DEF parts, index, R
  <2>7. Len(parts) \in Nat /\ DOMAIN parts = 1 .. Len(parts)
        /\ \A i \in DOMAIN parts : parts[i].file \in Nat \ {0}
    BY <2>3, <2>5
  <2>8. \A i \in DOMAIN parts : g[PartFile("forms", index, i)] \in Seq(AllForms)
    BY <2>2, <2>6, <2>7 DEF Held
  <2>9. seqs \in Seq(Seq(AllForms))
    BY <2>7, <2>8
  <2> HIDE DEF seqs
  <2> QED
    BY <2>4, <2>9, FlattenIsSeq
<1>3. IsFiniteSet(ContractOf(g).forms)
  <2> DEFINE items == FormsIn(g)
             all == {Signature(CensusOf(g), items[i]) : i \in DOMAIN items}
             made == [i \in DOMAIN items |-> Signature(CensusOf(g), items[i])]
  <2>1. made \in Surjection(DOMAIN items, all)
    BY DEF Surjection
  <2>2. ContractOf(g).forms = all
    BY DEF ContractOf
  <2> HIDE DEF items, made, all
  <2>3. IsFiniteSet(DOMAIN items)
    <3>1. Len(items) \in Nat /\ DOMAIN items = 1 .. Len(items)
      BY <1>2 DEF items
    <3> QED
      BY <3>1, FS_Interval
  <2> QED
    BY <2>1, <2>2, <2>3, FS_Surjection
<1> QED
  BY <1>1, <1>3 DEF ContractOf

(* In whatever order a session's observations are applied, there is one      *)
(* finding for each change, it has the evidence of each of its facts, and no *)
(* change lacks a rule (SemanticDiff.compare, RuleEngine.apply).             *)
THEOREM FindingsNeedNoOrder == Spec => []FindingsAreComplete
<1>1. AnalysisInv => FindingsAreComplete
  <2> SUFFICES ASSUME AnalysisInv, Accepted PROVE FindingsAreComplete
    BY DEF FindingsAreComplete
  <2> DEFINE c == reader.contract
             shown == {o \in Sessions : Observable(c, o)}
             all == UNION {Facts(c, o) : o \in shown}
             facts == {f \in FactsOf(c, shown) : Promotable(f)}
             found == [o \in shown |-> SetToSeq(Facts(c, o))]
  <2>1. IsFiniteSet(c.operations) /\ IsFiniteSet(c.forms)
    <3>1. ReaderOK(reader) /\ reader.pc = "compiled" /\ c.ok
      BY DEF AnalysisInv, Accepted
    <3>2. c = Compiled(reader.got) /\ Held(reader.got) /\ Needed \subseteq DOMAIN reader.got
      BY <3>1 DEF ReaderOK
    <3> QED
      BY <3>1, <3>2, ContractIsFinite, CompiledIs
  <2>2. FactsOf(c, shown) = all
    BY DEF FactsOf
  <2> HIDE DEF c
  <2>3. ASSUME NEW order \in SetToSeqs(shown)
        PROVE  Applied(FlattenSeq([i \in DOMAIN order |-> found[order[i]]]))
                 = [ok |-> TRUE, findings |-> Gathering(facts)]
    <3>1. IsFiniteSet(shown) /\ shown \subseteq Sessions
      BY FS_Subset, AnalysisAssumption
    <3>2. \A i \in DOMAIN order : order[i] \in shown
      BY <3>1, OrderHas DEF Range
    <3>3. [i \in DOMAIN order |-> found[order[i]]] =
            [i \in DOMAIN order |-> SetToSeq(Facts(c, order[i]))]
      BY <3>2
    <3> HIDE DEF found, shown
    <3>4. Applied(FlattenSeq([i \in DOMAIN order |-> SetToSeq(Facts(c, order[i]))]))
            = [ok |-> TRUE, findings |-> Gathering({f \in all : Promotable(f)})]
      BY <2>1, <3>1, OrderDoesNotMatter
    <3> QED
      BY <2>2, <3>3, <3>4
  <2> QED
    BY <2>3 DEF FindingsAreComplete, Gathering, c
<1> QED
  BY <1>1, AnalysisHolds, PTL

-----------------------------------------------------------------------------
(* The rules by their heads.                                                 *)
Heads == {"message", "splash", "topic"}

(* The segments of paths.                                                    *)
Segments == STRING \cup Heads

LEMMA TextIsSegments == ASSUME NEW p \in Seq(STRING) PROVE p \in Seq(Segments)
  BY DEF Segments

LEMMA EntryPaths ==
  ASSUME NEW entry \in EveryEntry
  PROVE  entry.path \in Seq(Segments) /\ ~IsTemplate(entry.path)
<1>1. entry.path \in Seq(STRING) /\ ~IsTemplate(entry.path)
  BY PathsAssumption, Zenon
<1> QED
  BY <1>1, TextIsSegments

LEMMA EditPaths ==
  ASSUME NEW op \in OperationEdits
  PROVE  op.path \in Seq(Segments) /\ ~IsTemplate(op.path) /\ op.count \in Nat
<1>1. op.path \in Seq(STRING) /\ ~IsTemplate(op.path) /\ op.count \in Nat
  BY PathsAssumption, Zenon
<1> QED
  BY <1>1, TextIsSegments

LEMMA FormPaths ==
  ASSUME NEW entry \in EveryEntry, NEW form \in entry.forms
  PROVE  form.action \in Seq(Segments)
<1>1. form.action \in Seq(STRING)
  BY PathsAssumption, Zenon
<1> QED
  BY <1>1, TextIsSegments

HoleOf(s) == IF s = "topic" THEN "{topic}" ELSE "{id}"

PatternOfHead(s) == <<s, HoleOf(s)>>

(* A segment that a placeholder may stand for.                               *)
Filled(segment) == segment # ""

Styled == <<"splash", "{id}", "style", "{style}">>

RulePatterns == {PatternOfHead(s) : s \in Heads} \cup {Styled}

(* The only pattern of a rule that a path can have.                          *)
RuleFor(path) ==
  IF path[1] = "splash" /\ Len(path) = 4 THEN Styled ELSE PatternOfHead(path[1])

FitsRule(path) == \E i \in {1, 2, 3, 4} : RuleFits(PatternRules[i], path)

LEMMA RulesAre ==
  /\ DOMAIN PatternRules = {1, 2, 3, 4}
  /\ PatternRules[1].pattern = PatternOfHead("message")
  /\ PatternRules[2].pattern = Styled /\ ~PatternRules[2].deep
  /\ PatternRules[3].pattern = PatternOfHead("splash") /\ ~PatternRules[3].deep
  /\ PatternRules[4].pattern = PatternOfHead("topic")
<1>1. DOMAIN PatternRules = {1, 2, 3, 4}
  BY DEF PatternRules
<1>2. /\ PatternRules[1].pattern = PatternOfHead("message")
      /\ PatternRules[2].pattern = Styled /\ ~PatternRules[2].deep
      /\ PatternRules[3].pattern = PatternOfHead("splash") /\ ~PatternRules[3].deep
      /\ PatternRules[4].pattern = PatternOfHead("topic")
  <2>1. PICK a, b, c, d :
          /\ PatternRules = << [pattern |-> a, deep |-> TRUE], [pattern |-> b, deep |-> FALSE],
                               [pattern |-> c, deep |-> FALSE], [pattern |-> d, deep |-> TRUE] >>
          /\ a = <<"message", "{id}">> /\ b = Styled
          /\ c = <<"splash", "{id}">> /\ d = <<"topic", "{topic}">>
    BY Zenon DEF PatternRules, Styled
  <2>2. a = PatternOfHead("message") /\ c = PatternOfHead("splash") /\ d = PatternOfHead("topic")
    BY <2>1, Zenon DEF PatternOfHead, HoleOf
  <2>3. PICK x, y, z : x = PatternOfHead("message") /\ y = PatternOfHead("splash")
                         /\ z = PatternOfHead("topic")
    OBVIOUS
  <2>4. PatternRules = << [pattern |-> x, deep |-> TRUE], [pattern |-> Styled, deep |-> FALSE],
                          [pattern |-> y, deep |-> FALSE], [pattern |-> z, deep |-> TRUE] >>
    BY <2>1, <2>2, <2>3, Zenon
  <2> QED
    BY ONLY <2>3, <2>4
<1> QED
  BY <1>1, <1>2

LEMMA HeadsAreSegments == Heads \subseteq Segments
  BY DEF Segments

LEMMA StartsWith ==
  ASSUME NEW s \in Segments, NEW path \in Seq(Segments), Len(path) >= 1
  PROVE  IsPrefix(<<s>>, path) <=> path[1] = s
<1>1. PICK q : q = <<s>> /\ q \in Seq(Segments)
  <2>1. <<s>> \in Seq(Segments)
    OBVIOUS
  <2> QED
    BY <2>1, Zenon
<1>2. Len(q) = 1 /\ q[1] = s
  BY <1>1
<1>3. PICK a, b : a = SubSeq(q, 1, 1) /\ b = SubSeq(path, 1, 1)
  OBVIOUS
<1>4. a \in Seq(Segments) /\ Len(a) = 1 /\ a[1] = s
  BY <1>2, <1>3
<1>5. b \in Seq(Segments) /\ Len(b) = 1 /\ b[1] = path[1]
  BY <1>3
<1>6. a = b <=> path[1] = s
  BY <1>4, <1>5
<1>7. IsPrefix(q, path) <=> a = b
  BY <1>2, <1>3 DEF IsPrefix
<1> QED
  BY <1>1, <1>6, <1>7

(* What the patterns of the rules look like to the matcher.                  *)
LEMMA HeadsArePatterns ==
  ASSUME NEW s \in Heads
  PROVE  /\ Len(PatternOfHead(s)) = 2 /\ DOMAIN PatternOfHead(s) = {1, 2}
         /\ PatternOfHead(s)[1] = s /\ PatternOfHead(s)[2] = HoleOf(s)
         /\ Front(PatternOfHead(s)) = <<s>>
         /\ Literals(PatternOfHead(s)) = {1} /\ IsTemplate(PatternOfHead(s))
<1>1. HoleOf(s) \in Placeholders /\ s \notin Placeholders
  <2>1. "{id}" \in Placeholders /\ "{topic}" \in Placeholders
    BY PathsAssumption, Zenon
  <2>2. {"message", "splash", "topic"} \cap Placeholders = {}
    <3>1. {"message", "splash", "style", "topic"} \cap Placeholders = {}
      BY PathsAssumption, Zenon
    <3> QED
      BY <3>1, Zenon
  <2>3. HoleOf(s) \in Placeholders
    BY <2>1, Zenon DEF HoleOf
  <2>4. s \notin Placeholders
    BY <2>2, Zenon DEF Heads
  <2> QED
    BY <2>3, <2>4
<1>2. PICK p, h : p = PatternOfHead(s) /\ h = HoleOf(s) /\ p = <<s, h>>
  BY Zenon DEF PatternOfHead
<1>3. Len(p) = 2 /\ p[1] = s /\ p[2] = h /\ DOMAIN p = {1, 2}
  BY <1>2
<1>4. Literals(p) = {1}
  BY <1>1, <1>2, <1>3 DEF Literals
<1>5. IsTemplate(p)
  BY <1>3, <1>4 DEF IsTemplate
<1>6. Front(p) = <<s>>
  <2>1. p \in Seq({s, h})
    BY <1>2
  <2>2. Front(p) = SubSeq(p, 1, 1)
    BY <1>3 DEF Front
  <2>3. SubSeq(p, 1, 1) \in Seq({s, h}) /\ Len(SubSeq(p, 1, 1)) = 1 /\ SubSeq(p, 1, 1)[1] = s
    BY <1>3, <2>1
  <2>4. PICK q : q = SubSeq(p, 1, 1)
    OBVIOUS
  <2>5. q \in Seq({s, h}) /\ Len(q) = 1 /\ q[1] = s
    BY <2>3, <2>4
  <2>6. q = <<s>>
    BY ONLY <2>5
  <2> QED
    BY <2>2, <2>4, <2>6
<1> QED
  BY <1>2, <1>3, <1>4, <1>5, <1>6

LEMMA StyledIs ==
  /\ Len(Styled) = 4 /\ DOMAIN Styled = {1, 2, 3, 4}
  /\ Styled[1] = "splash" /\ Styled[3] = "style"
  /\ Literals(Styled) = {1, 3} /\ IsTemplate(Styled)
<1>1. PICK a, b : /\ Styled = <<"splash", a, "style", b>>
                  /\ a \in Placeholders /\ b \in Placeholders
  <2>1. "{id}" \in Placeholders /\ "{style}" \in Placeholders
    BY PathsAssumption, Zenon
  <2> QED
    BY <2>1, Zenon DEF Styled
<1>2. PICK x, y : x = "splash" /\ y = "style" /\ x \notin Placeholders /\ y \notin Placeholders
  BY PathsAssumption, Zenon
<1>3. PICK p : p = Styled /\ p = <<x, a, y, b>>
  BY <1>1, <1>2, Zenon
<1>4. Len(p) = 4 /\ DOMAIN p = {1, 2, 3, 4} /\ p[1] = x /\ p[2] = a /\ p[3] = y /\ p[4] = b
  BY <1>3
<1>5. Literals(p) = {1, 3}
  BY <1>1, <1>2, <1>4 DEF Literals
<1>6. IsTemplate(p)
  BY <1>4, <1>5 DEF IsTemplate
<1> QED
  BY <1>2, <1>3, <1>4, <1>5, <1>6

LEMMA RulesAreTemplates ==
  ASSUME NEW p \in RulePatterns
  PROVE  IsTemplate(p) /\ IsFiniteSet(Literals(p))
<1>1. IsFiniteSet({1}) /\ IsFiniteSet({1, 3})
  <2>1. IsFiniteSet({1}) /\ IsFiniteSet({1} \cup {3})
    BY FS_Singleton, FS_AddElement
  <2> QED
    BY <2>1
<1>2. CASE p = Styled
  BY <1>1, <1>2, StyledIs
<1>3. CASE \E s \in Heads : p = PatternOfHead(s)
  BY <1>1, <1>3, HeadsArePatterns
<1> QED
  BY <1>2, <1>3 DEF RulePatterns

LEMMA RulesArePatterns ==
  \A i \in {1, 2, 3, 4} : PatternRules[i].pattern \in RulePatterns
<1>1. "message" \in Heads /\ "splash" \in Heads /\ "topic" \in Heads
  BY DEF Heads
<1> QED
  BY <1>1, RulesAre DEF RulePatterns

(* A path that the matcher takes for a rule's pattern has no other.          *)
LEMMA FitsItsRule ==
  ASSUME NEW path \in Seq(Segments), NEW p \in RulePatterns, Fits(p, path)
  PROVE  p = RuleFor(path) /\ Len(path) = Len(p)
<1>1. /\ Len(p) = Len(path)
      /\ \A i \in DOMAIN path : p[i] = path[i] \/ (i \notin Literals(p) /\ Filled(path[i]))
  BY Zenon DEF Fits, Filled
<1>0. DOMAIN path = 1 .. Len(path)
  OBVIOUS
<1>2. CASE p = Styled
  <2>0. Len(path) = 4
    BY ONLY <1>1, <1>2, StyledIs
  <2>1. Len(path) = 4 /\ 1 \in DOMAIN path
    BY ONLY <1>0, <2>0
  <2>2. 1 \in Literals(p) /\ p[1] = "splash"
    BY <1>2, StyledIs
  <2>3. path[1] = "splash"
    BY <1>1, <2>1, <2>2
  <2> QED
    BY <1>1, <1>2, <2>1, <2>3 DEF RuleFor
<1>3. CASE \E s \in Heads : p = PatternOfHead(s)
  <2>1. PICK s \in Heads : p = PatternOfHead(s)
    BY <1>3
  <2>3. Len(p) = 2 /\ p[1] = s /\ Literals(p) = {1}
    BY <2>1, HeadsArePatterns
  <2>4. Len(path) = 2 /\ 1 \in DOMAIN path
    BY ONLY <1>0, <1>1, <2>3
  <2>2. Len(path) = 2 /\ path[1] = s
    BY <1>1, <2>3, <2>4
  <2> QED
    BY <1>1, <2>1, <2>2 DEF RuleFor
<1> QED
  BY <1>2, <1>3 DEF RulePatterns

(* A rule that takes all that follows has the pattern of the first segment.  *)
LEMMA DeepIsItsRule ==
  ASSUME NEW path \in Seq(Segments), NEW s \in Heads, s # "splash",
         Len(path) > Len(PatternOfHead(s)), IsPrefix(Front(PatternOfHead(s)), path)
  PROVE  PatternOfHead(s) = RuleFor(path) /\ Len(path) # Len(PatternOfHead(s))
<1>1. Len(path) > 2 /\ Len(path) \in Nat /\ IsPrefix(<<s>>, path)
  BY HeadsArePatterns
<1>2. path[1] = s
  BY <1>1, StartsWith, HeadsAreSegments
<1> QED
  BY <1>1, <1>2, HeadsArePatterns DEF RuleFor

LEMMA RuleFitsOnly ==
  ASSUME NEW path \in Seq(Segments), NEW i \in {1, 2, 3, 4}, RuleFits(PatternRules[i], path)
  PROVE  /\ PatternRules[i].pattern = RuleFor(path) /\ RuleFor(path) \in RulePatterns
         /\ Len(path) = Len(RuleFor(path)) => Fits(RuleFor(path), path)
<1>1. PICK r : r = PatternRules[i]
  OBVIOUS
<1>2. r.pattern \in RulePatterns
  BY <1>1, RulesArePatterns
<1>3. CASE Fits(r.pattern, path)
  BY <1>1, <1>2, <1>3, FitsItsRule
<1>4. CASE r.deep /\ Len(path) > Len(r.pattern) /\ IsPrefix(Front(r.pattern), path)
  <2>1. i \in {1, 4}
    BY <1>1, <1>4, RulesAre
  <2>2. PICK s \in Heads : s # "splash" /\ r.pattern = PatternOfHead(s)
    <3>1. "message" \in Heads /\ "topic" \in Heads /\ "message" # "splash" /\ "topic" # "splash"
      BY DEF Heads
    <3> QED
      BY <1>1, <2>1, <3>1, RulesAre
  <2>3. r.pattern = RuleFor(path) /\ Len(path) # Len(r.pattern)
    BY <1>4, <2>2, DeepIsItsRule
  <2> QED
    BY <1>1, <1>2, <2>3
<1>5. RuleFits(r, path)
  BY <1>1
<1> QED
  BY <1>3, <1>4, <1>5 DEF RuleFits

(* A path that the matcher takes for a rule's pattern has a rule.            *)
LEMMA RuleFitsIf ==
  ASSUME NEW path, NEW p \in RulePatterns, Fits(p, path)
  PROVE  FitsRule(path)
<1>1. \E i \in {1, 2, 3, 4} : PatternRules[i].pattern = p
  BY RulesAre DEF RulePatterns, Heads
<1>2. PICK i \in {1, 2, 3, 4} : PatternRules[i].pattern = p
  BY <1>1
<1>3. RuleFits(PatternRules[i], path)
  BY <1>2 DEF RuleFits
<1> QED
  BY <1>2, <1>3 DEF FitsRule

(* The pattern of a path: its own, or that of the rules that fit it.         *)
LEMMA PatternIs ==
  ASSUME NEW path \in Seq(Segments)
  PROVE  \/ ~FitsRule(path) /\ EndpointPattern(path) = path
         \/ /\ FitsRule(path) /\ EndpointPattern(path) = RuleFor(path)
            /\ RuleFor(path) \in RulePatterns
            /\ Len(path) = Len(RuleFor(path)) => Fits(RuleFor(path), path)
<1> DEFINE fitting == {i \in DOMAIN PatternRules : RuleFits(PatternRules[i], path)}
           first == CHOOSE i \in fitting : \A j \in fitting : i <= j
<1>1. EndpointPattern(path) = IF fitting = {} THEN path ELSE PatternRules[first].pattern
  BY DEF EndpointPattern
<1>2. fitting = {i \in {1, 2, 3, 4} : RuleFits(PatternRules[i], path)}
  BY RulesAre
<1>3. CASE fitting = {}
  BY <1>1, <1>2, <1>3 DEF FitsRule
<1>4. CASE fitting # {}
  <2>1. fitting \subseteq {1, 2, 3, 4}
    BY <1>2
  <2> HIDE DEF fitting
  <2>2. \E i \in fitting : \A j \in fitting : i <= j
    <3>1. CASE 1 \in fitting
      BY <2>1, <3>1
    <3>2. CASE 1 \notin fitting /\ 2 \in fitting
      BY <2>1, <3>2
    <3>3. CASE 1 \notin fitting /\ 2 \notin fitting /\ 3 \in fitting
      BY <2>1, <3>3
    <3>4. CASE fitting = {4}
      BY <3>4
    <3> QED
      BY <1>4, <2>1, <3>1, <3>2, <3>3, <3>4
  <2>3. first \in fitting
    BY <2>2
  <2> HIDE DEF first
  <2>4. first \in {1, 2, 3, 4} /\ RuleFits(PatternRules[first], path)
    BY <1>2, <2>3
  <2> QED
    BY <1>1, <1>4, <2>4, RuleFitsOnly DEF FitsRule
<1> QED
  BY <1>3, <1>4

(* The patterns that a census may have: those of the paths of requests.      *)
Sent == {path \in Seq(Segments) : ~IsTemplate(path)}

OfCensus(P) == P \subseteq {EndpointPattern(path) : path \in Sent}

(* A census has literal paths and patterns of the rules, no others.          *)
LEMMA TemplatesAre ==
  ASSUME NEW P, OfCensus(P), NEW p \in P
  PROVE  \/ p \in Sent /\ ~IsTemplate(p) /\ EndpointPattern(p) = p
         \/ p \in RulePatterns
<1>1. PICK path \in Sent : p = EndpointPattern(path)
  BY DEF OfCensus
<1>2. path \in Seq(Segments) /\ ~IsTemplate(path)
  BY DEF Sent
<1>3. EndpointPattern(path) = path \/ EndpointPattern(path) \in RulePatterns
  BY <1>2, PatternIs
<1> QED
  BY <1>1, <1>2, <1>3

Fitting(P, path) == {p \in P : IsTemplate(p) /\ Fits(p, path)}

(* A template of a census that a path fits is the path's rule's.             *)
LEMMA FewFit ==
  ASSUME NEW P, OfCensus(P), NEW path \in Seq(Segments), NEW p \in Fitting(P, path)
  PROVE  p = RuleFor(path) /\ p \in RulePatterns /\ Fits(p, path)
<1>1. p \in P /\ IsTemplate(p) /\ Fits(p, path)
  BY DEF Fitting
<1>2. p \in RulePatterns
  BY <1>1, TemplatesAre
<1> QED
  BY <1>1, <1>2, FitsItsRule

(* For such patterns the best match needs no count of literals.              *)
LEMMA BestIs ==
  ASSUME NEW P, OfCensus(P), NEW path \in Seq(Segments)
  PROVE  Best(P, path) = IF path \in P /\ ~IsTemplate(path) THEN {path} ELSE Fitting(P, path)
<1>1. SUFFICES ASSUME ~(path \in P /\ ~IsTemplate(path))
               PROVE  Best(P, path) = Fitting(P, path)
  BY DEF Best
<1>2. Best(P, path) = {p \in Fitting(P, path) : \A q \in Fitting(P, path) :
                         Cardinality(Literals(p)) >= Cardinality(Literals(q))}
  BY <1>1 DEF Best, Fitting
<1>3. \A p, q \in Fitting(P, path) : Cardinality(Literals(p)) >= Cardinality(Literals(q))
  <2> SUFFICES ASSUME NEW p \in Fitting(P, path), NEW q \in Fitting(P, path)
               PROVE  Cardinality(Literals(p)) >= Cardinality(Literals(q))
    OBVIOUS
  <2>1. p = q /\ IsFiniteSet(Literals(p))
    BY FewFit, RulesAreTemplates
  <2>2. Cardinality(Literals(p)) \in Nat
    BY <2>1, FS_CardinalityType
  <2> QED
    BY <2>1, <2>2
<1> QED
  BY <1>2, <1>3

(* No path has two best matches in a census,                                 *)
LEMMA BestIsOne ==
  ASSUME NEW P, OfCensus(P), NEW path \in Seq(Segments)
  PROVE  Best(P, path) = {} \/ \E p \in P : Best(P, path) = {p}
<1>1. \A p, q \in Fitting(P, path) : p = q
  BY FewFit
<1>2. Fitting(P, path) = {} \/ \E p \in P : Fitting(P, path) = {p}
  BY <1>1 DEF Fitting
<1> QED
  BY <1>2, BestIs

(* so that no form and no operation is refused as ambiguous.                 *)
LEMMA NotAmbiguous ==
  ASSUME NEW P, OfCensus(P), NEW path \in Seq(Segments)
  PROVE  ~Ambiguous(P, path)
<1>1. CASE Best(P, path) = {}
  BY <1>1, FS_EmptySet DEF Ambiguous
<1>2. CASE \E p \in P : Best(P, path) = {p}
  <2>1. PICK p \in P : Best(P, path) = {p}
    BY <1>2
  <2>2. Cardinality({p}) = 1
    BY FS_Singleton
  <2>3. Cardinality(Best(P, path)) = 1
    BY <2>1, <2>2
  <2> QED
    BY <2>3 DEF Ambiguous
<1> QED
  BY <1>1, <1>2, BestIsOne

(* A path that a rule fits is not in the census itself.                      *)
LEMMA InCensus ==
  ASSUME NEW P, OfCensus(P), NEW path \in P, ~IsTemplate(path)
  PROVE  path \in Sent /\ EndpointPattern(path) = path
  BY RulesAreTemplates, TemplatesAre

(* The compiler gives a path the pattern that the tool gives it, or none.    *)
LEMMA BestIsPatternOf ==
  ASSUME NEW P, OfCensus(P), NEW path \in Sent, NEW p \in Best(P, path)
  PROVE  p = EndpointPattern(path)
<1>0. path \in Seq(Segments) /\ ~IsTemplate(path)
  BY DEF Sent
<1>1. CASE path \in P
  <2>1. p = path
    BY <1>0, <1>1, BestIs
  <2> QED
    BY <1>0, <1>1, <2>1, InCensus
<1>2. CASE path \notin P
  <2>1. p \in Fitting(P, path)
    BY <1>0, <1>2, BestIs
  <2>2. p = RuleFor(path) /\ FitsRule(path)
    BY <1>0, <2>1, FewFit, RuleFitsIf
  <2> QED
    BY <1>0, <2>2, PatternIs
<1> QED
  BY <1>1, <1>2

(* A path that can be described has the pattern that the tool gives it.      *)
LEMMA PatternIsBest ==
  ASSUME NEW P, OfCensus(P), NEW path \in Sent, EndpointPattern(path) \in P,
         \A i \in DOMAIN PatternRules :
           RuleFits(PatternRules[i], path) => Len(path) = Len(PatternRules[i].pattern)
  PROVE  Best(P, path) = {EndpointPattern(path)}
<1>0. path \in Seq(Segments) /\ ~IsTemplate(path)
  BY DEF Sent
<1>1. CASE ~FitsRule(path)
  <2>1. EndpointPattern(path) = path
    BY <1>0, <1>1, PatternIs
  <2> QED
    BY <1>0, <2>1, BestIs
<1>2. CASE FitsRule(path)
  <2>1. PICK i \in {1, 2, 3, 4} : RuleFits(PatternRules[i], path)
    BY <1>2 DEF FitsRule
  <2>2. PatternRules[i].pattern = RuleFor(path)
    BY <1>0, <2>1, RuleFitsOnly
  <2>3. Len(path) = Len(RuleFor(path))
    BY <2>1, <2>2, RulesAre
  <2>4. /\ EndpointPattern(path) = RuleFor(path) /\ RuleFor(path) \in RulePatterns
        /\ Fits(RuleFor(path), path)
    BY <1>0, <1>2, <2>3, PatternIs
  <2>5. RuleFor(path) \in Fitting(P, path)
    BY <2>4, RulesAreTemplates DEF Fitting
  <2>6. path \notin P
    <3> SUFFICES ASSUME path \in P PROVE FALSE
      OBVIOUS
    <3>1. EndpointPattern(path) = path
      BY <1>0, InCensus
    <3> QED
      BY <1>0, <2>4, <3>1, RulesAreTemplates
  <2>7. Best(P, path) = Fitting(P, path)
    BY <1>0, <2>6, BestIs
  <2>8. \A p \in Fitting(P, path) : p = RuleFor(path)
    BY <1>0, FewFit
  <2> QED
    BY <2>4, <2>5, <2>7, <2>8
<1> QED
  BY <1>1, <1>2

(* The pattern of a pathname is one.                                         *)
LEMMA PathnameIs ==
  \A path : IsPathname(path) <=> /\ path # <<>> /\ (Len(path) > 1 => Filled(path[1]))
                                 /\ \A i \in DOMAIN path : path[i] \notin Unclean
  BY Zenon DEF IsPathname, Filled

LEMMA RulesArePathnames ==
  ASSUME NEW p \in RulePatterns
  PROVE  IsPathname(p)
<1>1. \A s \in Heads : s \notin Unclean /\ HoleOf(s) \notin Unclean
  BY PathsAssumption, Zenon DEF Heads, HoleOf
<1>2. \A s \in Heads : Filled(s)
  BY Zenon DEF Heads, Filled
<1>3. CASE \E s \in Heads : p = PatternOfHead(s)
  <2>1. PICK s \in Heads : p = PatternOfHead(s)
    BY <1>3
  <2>2. Len(p) = 2 /\ DOMAIN p = {1, 2} /\ p[1] = s /\ p[2] = HoleOf(s)
    BY <2>1, HeadsArePatterns
  <2> QED
    BY <1>1, <1>2, <2>2, PathnameIs
<1>4. CASE p = Styled
  <2>1. PICK a, b : /\ Styled = <<"splash", a, "style", b>>
                    /\ a \notin Unclean /\ b \notin Unclean
    <3>1. "{id}" \notin Unclean /\ "{style}" \notin Unclean
      BY PathsAssumption, Zenon
    <3> QED
      BY <3>1, Zenon DEF Styled
  <2>2. "splash" \notin Unclean /\ "style" \notin Unclean
    BY PathsAssumption, Zenon
  <2>3. Len(p) = 4 /\ DOMAIN p = {1, 2, 3, 4} /\ p[1] = "splash" /\ p[2] = a /\ p[3] = "style" /\ p[4] = b
    BY <1>4, <2>1
  <2> QED
    BY <1>2, <2>1, <2>2, <2>3, PathnameIs DEF Heads
<1> QED
  BY <1>3, <1>4 DEF RulePatterns

LEMMA PatternIsPathname ==
  ASSUME NEW path \in Sent, IsPathname(path)
  PROVE  IsPathname(EndpointPattern(path))
<1>1. path \in Seq(Segments)
  BY DEF Sent
<1> QED
  BY <1>1, PatternIs, RulesArePathnames

-----------------------------------------------------------------------------
(* Sums and counts.                                                          *)

(* The counts of the values at some places add up to how many they are.      *)
LEMMA SumIsCount ==
  ASSUME NEW places, IsFiniteSet(places), NEW v, NEW f,
         f = [x \in {v[i] : i \in places} |-> Cardinality({i \in places : v[i] = x})]
  PROVE  SumOver(f) = Cardinality(places)
<1> DEFINE D == {v[i] : i \in places}
           among(s) == {i \in places : v[i] \in s}
           pick(s) == CHOOSE x \in s : TRUE
           Folds(g) == g = [s \in SUBSET D |->
             IF s = {} THEN 0 ELSE f[pick(s)] + g[s \ {pick(s)}]]
           iter == CHOOSE g : Folds(g)
           count == [s \in SUBSET D |-> Cardinality(among(s))]
<1>1. DOMAIN f = D
  OBVIOUS
<1>2. SumOver(f) = iter[D]
  <2> HIDE DEF D
  <2> QED
    BY <1>1 DEF SumOver, FoldFunction, FoldFunctionOnSet, MapThenFoldSet
<1>3. IsFiniteSet(D)
  <2> DEFINE w == [i \in places |-> v[i]]
  <2>1. w \in Surjection(places, D)
    BY DEF Surjection
  <2> HIDE DEF w, D
  <2> QED
    BY <2>1, FS_Surjection
<1>4. \A s \in SUBSET D : IsFiniteSet(among(s)) /\ Cardinality(among(s)) \in Nat
  <2> TAKE s \in SUBSET D
  <2>1. among(s) \in SUBSET places
    OBVIOUS
  <2> HIDE DEF among
  <2> QED
    BY <2>1, FS_Subset, FS_CardinalityType
<1>5. ASSUME NEW s \in SUBSET D, NEW x \in s
      PROVE  Cardinality(among(s)) = f[x] + Cardinality(among(s \ {x}))
  <2> DEFINE one == {i \in places : v[i] = x}
  <2>1. one \in SUBSET places /\ among(s) = one \cup among(s \ {x}) /\ one \cap among(s \ {x}) = {}
    OBVIOUS
  <2>2. f[x] = Cardinality(one) /\ s \ {x} \in SUBSET D
    BY <1>5
  <2> HIDE DEF one, among
  <2>3. IsFiniteSet(one) /\ IsFiniteSet(among(s \ {x})) /\ Cardinality(among(s \ {x})) \in Nat
        /\ Cardinality(one) \in Nat
    BY <1>4, <2>1, <2>2, FS_Subset, FS_CardinalityType
  <2>4. Cardinality(one \cup among(s \ {x})) = 
          Cardinality(one) + Cardinality(among(s \ {x})) - Cardinality(one \cap among(s \ {x}))
    BY <2>3, FS_Union
  <2>5. Cardinality(one \cap among(s \ {x})) = 0
    BY <2>1, FS_EmptySet
  <2>6. Cardinality(among(s)) = Cardinality(one) + Cardinality(among(s \ {x})) - 0
    BY <2>1, <2>4, <2>5, Zenon
  <2>7. \A m, n \in Nat : m + n - 0 = m + n
    OBVIOUS
  <2>8. Cardinality(among(s)) = Cardinality(one) + Cardinality(among(s \ {x}))
    BY <2>3, <2>6, <2>7, Zenon
  <2> QED
    BY <2>2, <2>8, Zenon
<1>6. among({}) = {} /\ Cardinality(among({})) = 0
  <2>1. among({}) = {}
    OBVIOUS
  <2> QED
    BY <2>1, FS_EmptySet
<1> HIDE DEF among
<1>7. \A s \in SUBSET D : s # {} => pick(s) \in s
  OBVIOUS
<1> HIDE DEF pick, D
<1>8. Folds(count)
  <2>1. ASSUME NEW s \in SUBSET D
        PROVE  count[s] = IF s = {} THEN 0 ELSE f[pick(s)] + count[s \ {pick(s)}]
    <3>1. CASE s = {}
      BY <1>6, <3>1
    <3>2. CASE s # {}
      <4>1. pick(s) \in s /\ s \ {pick(s)} \in SUBSET D
        BY <1>7, <3>2
      <4>2. Cardinality(among(s)) = f[pick(s)] + Cardinality(among(s \ {pick(s)}))
        BY <1>5, <4>1
      <4> QED
        BY <3>2, <4>1, <4>2
    <3> QED
      BY <3>1, <3>2
  <2>2. count = [s \in SUBSET D |-> count[s]]
    OBVIOUS
  <2> HIDE DEF count
  <2> QED
    BY <2>1, <2>2, Zenon
<1>9. Folds(iter)
  <2> HIDE DEF Folds, count
  <2> QED
    BY <1>8
<1> HIDE DEF iter
<1>10. \A s \in SUBSET D : iter[s] = IF s = {} THEN 0 ELSE f[pick(s)] + iter[s \ {pick(s)}]
  BY <1>9
<1> HIDE DEF Folds
<1> DEFINE T == {n \in Nat : \A s \in SUBSET D : Cardinality(s) = n => iter[s] = Cardinality(among(s))}
<1>11. 0 \in T
  <2> SUFFICES ASSUME NEW s \in SUBSET D, Cardinality(s) = 0 PROVE iter[s] = Cardinality(among(s))
    OBVIOUS
  <2>1. s = {}
    BY <1>3, FS_Subset, FS_EmptySet
  <2> QED
    BY <1>6, <1>10, <2>1
<1>12. ASSUME NEW n \in Nat, n \in T PROVE n + 1 \in T
  <2> SUFFICES ASSUME NEW s \in SUBSET D, Cardinality(s) = n + 1
               PROVE  iter[s] = Cardinality(among(s))
    OBVIOUS
  <2>1. IsFiniteSet(s) /\ s # {}
    <3>1. IsFiniteSet(s)
      BY <1>3, FS_Subset
    <3> QED
      BY <3>1, FS_EmptySet
  <2>2. pick(s) \in s /\ s \ {pick(s)} \in SUBSET D
    BY <1>7, <2>1
  <2>3. Cardinality(s \ {pick(s)}) = n
    <3>1. Cardinality(s \ {pick(s)}) = Cardinality(s) - 1
      BY <2>1, <2>2, FS_RemoveElement
    <3> QED
      BY <3>1
  <2>4. iter[s \ {pick(s)}] = Cardinality(among(s \ {pick(s)}))
    BY <1>12, <2>2, <2>3
  <2>5. iter[s] = f[pick(s)] + iter[s \ {pick(s)}]
    BY <1>10, <2>1
  <2>6. Cardinality(among(s)) = f[pick(s)] + Cardinality(among(s \ {pick(s)}))
    BY <1>5, <2>2
  <2> QED
    BY <2>4, <2>5, <2>6
<1>13. \A n \in Nat : n \in T
  <2> HIDE DEF T
  <2> QED
    BY <1>11, <1>12, Induction
<1>14. Cardinality(D) \in Nat
  BY <1>3, FS_CardinalityType
<1>15. iter[D] = Cardinality(among(D))
  BY <1>13, <1>14
<1>16. among(D) = places
  BY DEF among, D
<1> QED
  BY <1>2, <1>15, <1>16

(* The sums of numbers, one after the other, and the function by which they  *)
(* are folded.                                                               *)
SumsUp(h, n, v) == h[0] = 0 /\ \A k \in 1 .. n : h[k] = h[k - 1] + v[k]

SumFolds(g, n, v) ==
  g = [s \in SUBSET (1 .. n) |-> IF s = {} THEN 0 ELSE g[s \ {Max(s)}] + v[Max(s)]]

(* A fold that adds gives the last of the sums.                              *)
LEMMA SumsFold ==
  ASSUME NEW n \in Nat, NEW v \in [1 .. n -> Nat]
  PROVE  /\ \E g : SumFolds(g, n, v)
         /\ \A g : SumFolds(g, n, v) =>
              \E h \in [0 .. n -> Nat] : h[n] = g[1 .. n] /\ SumsUp(h, n, v)
<1> DEFINE step == [p \in (1 .. n) \X Nat |-> p[2] + v[p[1]]]
<1>1. step \in [(1 .. n) \X Nat -> Nat] /\ 0 \in Nat
  OBVIOUS
<1>2. \A x \in 1 .. n, m \in Nat : step[<<x, m>>] = m + v[x]
  OBVIOUS
<1> HIDE DEF step
<1>3. \A s \in SUBSET (1 .. n) : s # {} => Max(s) \in 1 .. n
  BY MaxOfSome
<1>4. \E g : SumFolds(g, n, v)
  <2>1. PICK g \in [SUBSET (1 .. n) -> Nat] : FoldsWith(g, n, 0, step)
    BY <1>1, FoldExists
  <2>2. ASSUME NEW s \in SUBSET (1 .. n)
        PROVE  g[s] = IF s = {} THEN 0 ELSE g[s \ {Max(s)}] + v[Max(s)]
    <3>1. g[s] = IF s = {} THEN 0 ELSE step[<<Max(s), g[s \ {Max(s)}]>>]
      BY <2>1 DEF FoldsWith
    <3>2. s # {} => Max(s) \in 1 .. n /\ g[s \ {Max(s)}] \in Nat
      BY <1>3
    <3> QED
      BY <1>2, <3>1, <3>2
  <2>3. g = [s \in SUBSET (1 .. n) |-> g[s]]
    OBVIOUS
  <2>4. g = [s \in SUBSET (1 .. n) |-> IF s = {} THEN 0 ELSE g[s \ {Max(s)}] + v[Max(s)]]
    BY <2>2, <2>3, Zenon
  <2> QED
    BY <2>4, Zenon DEF SumFolds
<1>5. ASSUME NEW g, SumFolds(g, n, v)
      PROVE  \E h \in [0 .. n -> Nat] : h[n] = g[1 .. n] /\ SumsUp(h, n, v)
  <2>1. \A s \in SUBSET (1 .. n) : g[s] = IF s = {} THEN 0 ELSE g[s \ {Max(s)}] + v[Max(s)]
    BY <1>5, Zenon DEF SumFolds
  <2>2. FoldsIn(g, n, Nat, 0, step)
    <3>1. g[{}] = 0
      BY <2>1
    <3>2. ASSUME NEW s \in SUBSET (1 .. n), s # {}, g[s \ {Max(s)}] \in Nat
          PROVE  g[s] = step[<<Max(s), g[s \ {Max(s)}]>>]
      BY <1>2, <1>3, <2>1, <3>2
    <3> QED
      BY <3>1, <3>2 DEF FoldsIn
  <2>3. PICK h \in [0 .. n -> Nat] : h[n] = g[1 .. n] /\ Unrolled(h, n, 0, step)
    BY <1>1, <2>2, FoldUnrolls
  <2>4. SumsUp(h, n, v)
    <3>1. \A k \in 1 .. n : h[k - 1] \in Nat
      OBVIOUS
    <3> QED
      BY <1>2, <2>3, <3>1 DEF Unrolled, SumsUp
  <2> QED
    BY <2>3, <2>4
<1> QED
  BY <1>4, <1>5

SameFrom(a, b, v, w) == \A k \in a .. b : v[k] = w[k]

(* Sums of the same numbers are the same.                                    *)
LEMMA SumsAgree ==
  ASSUME NEW n \in Nat, NEW g, NEW h, NEW v, NEW w, SumsUp(g, n, v), SumsUp(h, n, w),
         SameFrom(1, n, v, w)
  PROVE  SameFrom(0, n, g, h)
<1> DEFINE T == {m \in Nat : m <= n => g[m] = h[m]}
<1>1. 0 \in T
  BY DEF SumsUp
<1>2. ASSUME NEW m \in Nat, m \in T PROVE m + 1 \in T
  <2> SUFFICES ASSUME m + 1 <= n PROVE g[m + 1] = h[m + 1]
    OBVIOUS
  <2>1. m + 1 \in 1 .. n /\ (m + 1) - 1 = m /\ g[m] = h[m]
    BY <1>2
  <2>2. g[m + 1] = g[(m + 1) - 1] + v[m + 1] /\ h[m + 1] = h[(m + 1) - 1] + w[m + 1]
    BY <2>1 DEF SumsUp
  <2>3. v[m + 1] = w[m + 1]
    BY <2>1 DEF SameFrom
  <2> QED
    BY <2>1, <2>2, <2>3
<1>3. \A m \in Nat : m \in T
  <2> HIDE DEF T
  <2> QED
    BY <1>1, <1>2, Induction
<1> QED
  BY <1>3 DEF SameFrom

CountsOf(items) == [k \in 1 .. Len(items) |-> items[k].count]

(* The posts of the operations are the sum of their counts.                  *)
LEMMA CountsAddUp ==
  ASSUME NEW items \in Seq(OperationEdits)
  PROVE  \E h \in [0 .. Len(items) -> Nat] :
           /\ SumsUp(h, Len(items), CountsOf(items))
           /\ FoldLeft(LAMBDA sum, op : sum + op.count, 0, items) = h[Len(items)]
<1> DEFINE n == Len(items)
           v == CountsOf(items)
           Folds(g) == g = [s \in SUBSET (1 .. n) |->
             IF s = {} THEN 0 ELSE g[s \ {Max(s)}] + items[Max(s)].count]
           iter == CHOOSE g : Folds(g)
           total == FoldLeft(LAMBDA sum, op : sum + op.count, 0, items)
<1>1. n \in Nat /\ DOMAIN items = 1 .. n /\ \A k \in 1 .. n : items[k].count \in Nat
  BY EditPaths
<1>2. total = iter[1 .. n]
  <2> HIDE DEF n
  <2> QED
    BY <1>1 DEF FoldLeft, MapThenFoldSet
<1>3. v \in [1 .. n -> Nat] /\ \A k \in 1 .. n : v[k] = items[k].count
  BY <1>1 DEF CountsOf
<1> HIDE DEF total, n, v
<1>4. \A g : Folds(g) <=> SumFolds(g, n, v)
  <2>1. \A s \in SUBSET (1 .. n) : s # {} => items[Max(s)].count = v[Max(s)]
    BY <1>1, <1>3, MaxOfSome
  <2>2. ASSUME NEW g
        PROVE  [s \in SUBSET (1 .. n) |-> IF s = {} THEN 0 ELSE g[s \ {Max(s)}] + items[Max(s)].count]
                 = [s \in SUBSET (1 .. n) |-> IF s = {} THEN 0 ELSE g[s \ {Max(s)}] + v[Max(s)]]
    BY <2>1
  <2> QED
    BY <2>2, Zenon DEF SumFolds
<1>5. Folds(iter)
  <2> HIDE DEF Folds
  <2>1. \E g : Folds(g)
    BY <1>1, <1>3, <1>4, SumsFold
  <2> QED
    BY <2>1
<1> HIDE DEF iter
<1>6. SumFolds(iter, n, v)
  BY <1>4, <1>5, Zenon
<1> HIDE DEF Folds
<1>7. PICK h \in [0 .. n -> Nat] : h[n] = iter[1 .. n] /\ SumsUp(h, n, v)
  BY <1>1, <1>3, <1>6, SumsFold
<1> QED
  BY <1>2, <1>7 DEF n, v, total

(* A curator's edit keeps the count of the posts.                            *)
LEMMA PostsStayCounted ==
  ASSUME NEW old, old.items \in Seq(OperationEdits), PostsAddUp(old), NEW op \in OperationEdits,
         NEW new, new = [posts |-> old.posts + op.count, items |-> Append(old.items, op)]
  PROVE  PostsAddUp(new)
<1> DEFINE items == old.items
           more == Append(items, op)
           n == Len(items)
<1>1. /\ items \in Seq(OperationEdits) /\ more \in Seq(OperationEdits) /\ n \in Nat
      /\ Len(more) = n + 1 /\ more[n + 1] = op /\ \A k \in 1 .. n : more[k] = items[k]
  OBVIOUS
<1> HIDE DEF items, more, n
<1>2. PICK g \in [0 .. n -> Nat] :
        /\ SumsUp(g, n, CountsOf(items))
        /\ FoldLeft(LAMBDA sum, x : sum + x.count, 0, items) = g[n]
  BY <1>1, CountsAddUp DEF n
<1>3. PICK h \in [0 .. (n + 1) -> Nat] :
        /\ SumsUp(h, n + 1, CountsOf(more))
        /\ FoldLeft(LAMBDA sum, x : sum + x.count, 0, more) = h[n + 1]
  BY <1>1, CountsAddUp
<1>4. h[n] = g[n]
  <2>1. \A k \in 1 .. n : CountsOf(items)[k] = CountsOf(more)[k]
    BY <1>1 DEF CountsOf, n
  <2>2. PICK v, w : v = CountsOf(items) /\ w = CountsOf(more)
    OBVIOUS
  <2>3. SumsUp(h, n + 1, w) /\ SumsUp(g, n, v) /\ SameFrom(1, n, v, w)
    BY <1>2, <1>3, <2>1, <2>2 DEF SameFrom
  <2>4. SumsUp(h, n, w)
    <3>1. 1 .. n \subseteq 1 .. (n + 1)
      BY <1>1
    <3> QED
      BY <2>3, <3>1 DEF SumsUp
  <2>5. SameFrom(0, n, g, h)
    <3>1. n \in Nat
      BY <1>1
    <3> QED
      BY ONLY <3>1, <2>3, <2>4, SumsAgree
  <2> QED
    BY <1>1, <2>5 DEF SameFrom
<1>5. h[n + 1] = h[n] + op.count
  <2>1. CountsOf(more)[n + 1] = op.count /\ n + 1 \in 1 .. (n + 1) /\ (n + 1) - 1 = n
    BY <1>1 DEF CountsOf
  <2> QED
    BY <1>3, <2>1 DEF SumsUp
<1>6. old.posts = g[n]
  BY <1>2, Zenon DEF PostsAddUp, items
<1>7. new.posts = h[n + 1] /\ new.items = more
  BY <1>4, <1>5, <1>6 DEF more, items
<1> QED
  BY <1>3, <1>7, Zenon DEF PostsAddUp

-----------------------------------------------------------------------------
(* Where the n-th part of some records ends.                                 *)
Upto(length, n) == IF n * PartSize < length THEN n * PartSize ELSE length

(* Products, one at a time: the solver does not multiply variables.          *)
LEMMA Times == \A m \in Nat, p \in Nat : m * p \in Nat
  BY SMTT(30)

LEMMA TimesMore ==
  ASSUME NEW m \in Nat, NEW n \in Nat, NEW p \in Nat, m <= n
  PROVE  m * p <= n * p
<1>1. PICK e \in Nat : n = m + e
  <2>1. n - m \in Nat /\ n = m + (n - m)
    OBVIOUS
  <2> QED
    BY <2>1
<1>2. n * p = m * p + e * p
  BY <1>1, SMTT(30)
<1>3. m * p \in Nat /\ e * p \in Nat
  BY Times
<1> QED
  BY <1>2, <1>3

LEMMA TimesNext ==
  ASSUME NEW m \in Nat, NEW p \in Nat
  PROVE  (m + 1) * p = m * p + p /\ m * p \in Nat
<1>1. (m + 1) * p = m * p + p
  BY SMTT(30)
<1> QED
  BY <1>1, Times

(* A data set has just as many parts as its records fill.                    *)
LEMMA PartsSuffice ==
  ASSUME NEW l \in Nat \ {0}, NEW p \in Nat \ {0}, NEW k, k = (l + p - 1) \div p
  PROVE  k \in Nat \ {0} /\ (k - 1) * p < l /\ l <= k * p
<1>1. PICK a \in Nat : a = l + p - 1
  <2>1. l + p - 1 \in Nat
    OBVIOUS
  <2> QED
    BY <2>1
<1>2. k = a \div p
  BY <1>1
<1>3. k \in Nat /\ p * k <= a /\ a < p * k + p
  BY <1>2, SMTT(30)
<1>4. k # 0
  <2> SUFFICES ASSUME k = 0 PROVE FALSE
    BY <1>3
  <2>1. p * k = 0
    BY <1>3, SMTT(30)
  <2> QED
    BY <1>1, <1>3, <2>1
<1>5. PICK m \in Nat : k = m + 1
  <2>1. k - 1 \in Nat /\ k = (k - 1) + 1
    BY <1>3, <1>4
  <2> QED
    BY <2>1
<1>6. p * k = m * p + p /\ m * p \in Nat /\ k * p = m * p + p /\ k - 1 = m
  <2>1. k * p = p * k
    BY <1>3, SMTT(30)
  <2>2. k * p = m * p + p /\ m * p \in Nat
    BY <1>5, TimesNext
  <2> QED
    BY <1>5, <2>1, <2>2
<1> QED
  BY <1>1, <1>3, <1>4, <1>5, <1>6

(* The parts cover the records, none of them twice.                          *)
LEMMA UptoIs ==
  ASSUME NEW l \in Nat \ {0}, NEW k, k = (l + PartSize - 1) \div PartSize
  PROVE  /\ k \in Nat \ {0} /\ Upto(l, 0) = 0 /\ Upto(l, k) = l
         /\ \A n \in 1 .. k : /\ Upto(l, n - 1) = (n - 1) * PartSize
                              /\ Upto(l, n - 1) \in Nat /\ Upto(l, n) \in Nat
                              /\ Upto(l, n - 1) <= Upto(l, n) /\ Upto(l, n) <= l
<1>0. PICK p \in Nat \ {0} : p = PartSize
  BY AnalysisAssumption
<1>1. k \in Nat \ {0} /\ (k - 1) * p < l /\ l <= k * p
  BY <1>0, PartsSuffice
<1>2. \A n : Upto(l, n) = IF n * p < l THEN n * p ELSE l
  BY <1>0 DEF Upto
<1>3. Upto(l, 0) = 0
  <2>1. 0 * p = 0
    BY SMTT(30)
  <2> QED
    BY <1>2, <2>1
<1>4. Upto(l, k) = l
  <2>1. k * p \in Nat
    BY <1>1, Times
  <2> QED
    BY <1>1, <1>2, <2>1
<1>5. ASSUME NEW n \in 1 .. k
      PROVE  /\ Upto(l, n - 1) = (n - 1) * p
             /\ Upto(l, n - 1) \in Nat /\ Upto(l, n) \in Nat
             /\ Upto(l, n - 1) <= Upto(l, n) /\ Upto(l, n) <= l
  <2>1. PICK m \in Nat : m = n - 1 /\ n = m + 1
    <3>1. n - 1 \in Nat /\ n = (n - 1) + 1
      BY <1>1
    <3> QED
      BY <3>1
  <2>2. PICK top \in Nat : top = k - 1 /\ m <= top
    BY <1>1, <2>1
  <2>3. m * p <= top * p /\ top * p < l /\ top * p \in Nat
    BY <1>1, <2>2, TimesMore, Times
  <2>4. m * p \in Nat /\ n * p = m * p + p
    BY <2>1, TimesNext
  <2>5. PICK x \in Nat : x = m * p
    BY <2>4
  <2>6. x < l /\ n * p = x + p
    BY <2>3, <2>4, <2>5
  <2>7. Upto(l, m) = x
    BY <1>2, <2>5, <2>6
  <2>8. Upto(l, n) = IF x + p < l THEN x + p ELSE l
    BY <1>2, <2>6
  <2>9. Upto(l, n) \in Nat /\ x <= Upto(l, n) /\ Upto(l, n) <= l
    BY <2>6, <2>8
  <2> QED
    BY <2>1, <2>5, <2>7, <2>9
<1> QED
  BY <1>0, <1>1, <1>3, <1>4, <1>5

(* Two stretches of a sequence that touch are one.                           *)
LEMMA SubSeqsJoin ==
  ASSUME NEW U, NEW s \in Seq(U), NEW a \in Nat, NEW b \in Nat, a <= b, b <= Len(s)
  PROVE  /\ SubSeq(s, 1, a) \o SubSeq(s, a + 1, b) = SubSeq(s, 1, b)
         /\ Len(SubSeq(s, a + 1, b)) = b - a /\ SubSeq(s, a + 1, b) \in Seq(U)
<1>1. PICK p, q, r : p = SubSeq(s, 1, a) /\ q = SubSeq(s, a + 1, b) /\ r = SubSeq(s, 1, b)
  OBVIOUS
<1>2. p \in Seq(U) /\ Len(p) = a /\ \A i \in 1 .. a : p[i] = s[i]
  BY <1>1
<1>3. r \in Seq(U) /\ Len(r) = b /\ \A i \in 1 .. b : r[i] = s[i]
  BY <1>1
<1>4. q \in Seq(U) /\ Len(q) = b - a /\ \A i \in 1 .. (b - a) : q[i] = s[a + i]
  <2>1. \A i \in (a + 1) .. b : s[i] \in U
    OBVIOUS
  <2>2. q \in Seq(U)
    BY <1>1, <2>1
  <2>3. Len(q) = b - a
    BY <1>1
  <2>4. ASSUME NEW i \in 1 .. (b - a) PROVE q[i] = s[a + i]
    <3>1. q[i] = s[(a + 1) + i - 1]
      BY <1>1
    <3>2. (a + 1) + i - 1 = a + i
      OBVIOUS
    <3> QED
      BY <3>1, <3>2
  <2> QED
    BY <2>2, <2>3, <2>4
<1>5. PICK t : t = p \o q
  OBVIOUS
<1>6. t \in Seq(U) /\ Len(t) = b
      /\ \A i \in 1 .. b : t[i] = IF i <= a THEN p[i] ELSE q[i - a]
  BY <1>2, <1>4, <1>5
<1>7. ASSUME NEW i \in 1 .. b PROVE t[i] = r[i]
  <2>1. CASE i <= a
    BY <1>2, <1>3, <1>6, <2>1
  <2>2. CASE ~(i <= a)
    <3>1. i - a \in 1 .. (b - a) /\ a + (i - a) = i
      BY <2>2
    <3> QED
      BY <1>3, <1>4, <1>6, <2>2, <3>1
  <2> QED
    BY <2>1, <2>2
<1>8. t = r
  BY <1>3, <1>6, <1>7
<1> QED
  BY <1>1, <1>4, <1>5, <1>8

(* The parts of some records: each begins where the one before it ends.      *)
LEMMA ChunksJoin ==
  ASSUME NEW U, NEW records \in Seq(U), records # <<>>
  PROVE  /\ Parts(records) \in Nat \ {0}
         /\ Upto(Len(records), 0) = 0 /\ Upto(Len(records), Parts(records)) = Len(records)
         /\ \A n \in 1 .. Parts(records) :
              /\ Upto(Len(records), n - 1) = (n - 1) * PartSize
              /\ Upto(Len(records), n - 1) \in Nat /\ Upto(Len(records), n) \in Nat
              /\ Chunk(records, n) \in Seq(U)
              /\ Len(Chunk(records, n)) \in Nat
              /\ Upto(Len(records), n) = Upto(Len(records), n - 1) + Len(Chunk(records, n))
              /\ SubSeq(records, 1, Upto(Len(records), n - 1)) \o Chunk(records, n)
                   = SubSeq(records, 1, Upto(Len(records), n))
<1>1. PICK l \in Nat \ {0} : l = Len(records)
  <2>1. Len(records) \in Nat /\ Len(records) # 0
    OBVIOUS
  <2> QED
    BY <2>1
<1>2. PICK k : k = Parts(records)
  OBVIOUS
<1>3. k = (l + PartSize - 1) \div PartSize
  BY <1>1, <1>2 DEF Parts
<1>4. /\ k \in Nat \ {0} /\ Upto(l, 0) = 0 /\ Upto(l, k) = l
      /\ \A n \in 1 .. k : /\ Upto(l, n - 1) = (n - 1) * PartSize
                           /\ Upto(l, n - 1) \in Nat /\ Upto(l, n) \in Nat
                           /\ Upto(l, n - 1) <= Upto(l, n) /\ Upto(l, n) <= l
  BY <1>3, UptoIs
<1>5. ASSUME NEW n \in 1 .. k
      PROVE  /\ Chunk(records, n) \in Seq(U)
             /\ Len(Chunk(records, n)) \in Nat
             /\ Upto(l, n) = Upto(l, n - 1) + Len(Chunk(records, n))
             /\ SubSeq(records, 1, Upto(l, n - 1)) \o Chunk(records, n)
                  = SubSeq(records, 1, Upto(l, n))
  <2>1. PICK a, b : a = Upto(l, n - 1) /\ b = Upto(l, n)
    OBVIOUS
  <2>2. a \in Nat /\ b \in Nat /\ a <= b /\ b <= Len(records)
    BY <1>1, <1>4, <2>1
  <2>3. Chunk(records, n) = SubSeq(records, a + 1, b)
    <3>1. a = (n - 1) * PartSize
      BY <1>4, <2>1
    <3> QED
      BY <1>1, <2>1, <3>1, Zenon DEF Chunk, Upto
  <2>4. PICK c : c = SubSeq(records, a + 1, b)
    OBVIOUS
  <2>5. SubSeq(records, 1, a) \o c = SubSeq(records, 1, b) /\ Len(c) = b - a /\ c \in Seq(U)
    BY <2>2, <2>4, SubSeqsJoin
  <2>6. Len(c) \in Nat /\ b = a + Len(c)
    BY <2>2, <2>5
  <2> QED
    BY <2>1, <2>3, <2>4, <2>5, <2>6
<1> QED
  BY <1>1, <1>2, <1>4, <1>5

RecordsOf(parts) == [k \in 1 .. Len(parts) |-> parts[k].records]

(* The records of the parts of an index, added up as the compiler does.      *)
LEMMA RecordsAddUp ==
  ASSUME NEW U, NEW parts \in Seq(U), \A part \in U : part.records \in Nat
  PROVE  \E h \in [0 .. Len(parts) -> Nat] :
           /\ SumsUp(h, Len(parts), RecordsOf(parts))
           /\ FoldLeft(LAMBDA sum, part : sum + part.records, 0, parts) = h[Len(parts)]
<1> DEFINE n == Len(parts)
           v == RecordsOf(parts)
           Folds(g) == g = [s \in SUBSET (1 .. n) |->
             IF s = {} THEN 0 ELSE g[s \ {Max(s)}] + parts[Max(s)].records]
           iter == CHOOSE g : Folds(g)
           total == FoldLeft(LAMBDA sum, part : sum + part.records, 0, parts)
<1>1. n \in Nat /\ DOMAIN parts = 1 .. n /\ \A k \in 1 .. n : parts[k].records \in Nat
  OBVIOUS
<1>2. total = iter[1 .. n]
  <2> HIDE DEF n
  <2> QED
    BY <1>1 DEF FoldLeft, MapThenFoldSet
<1>3. v \in [1 .. n -> Nat] /\ \A k \in 1 .. n : v[k] = parts[k].records
  BY <1>1 DEF RecordsOf
<1> HIDE DEF total, n, v
<1>4. \A g : Folds(g) <=> SumFolds(g, n, v)
  <2>1. \A s \in SUBSET (1 .. n) : s # {} => parts[Max(s)].records = v[Max(s)]
    BY <1>1, <1>3, MaxOfSome
  <2>2. ASSUME NEW g
        PROVE  [s \in SUBSET (1 .. n) |-> IF s = {} THEN 0 ELSE g[s \ {Max(s)}] + parts[Max(s)].records]
                 = [s \in SUBSET (1 .. n) |-> IF s = {} THEN 0 ELSE g[s \ {Max(s)}] + v[Max(s)]]
    BY <2>1
  <2> QED
    BY <2>2, Zenon DEF SumFolds
<1>5. Folds(iter)
  <2> HIDE DEF Folds
  <2>1. \E g : Folds(g)
    BY <1>1, <1>3, <1>4, SumsFold
  <2> QED
    BY <2>1
<1> HIDE DEF iter
<1>6. SumFolds(iter, n, v)
  BY <1>4, <1>5, Zenon
<1> HIDE DEF Folds
<1>7. PICK h \in [0 .. n -> Nat] : h[n] = iter[1 .. n] /\ SumsUp(h, n, v)
  BY <1>1, <1>3, <1>6, SumsFold
<1> QED
  BY <1>2, <1>7 DEF n, v, total

-----------------------------------------------------------------------------
(* A data set is read as it was written.                                     *)

About(records, n) ==
  [file |-> n, records |-> Len(Chunk(records, n)), offset |-> (n - 1) * PartSize]

Abouts == [file : Nat \ {0}, records : Nat, offset : Nat]

(* The index of a data set lists its parts.                                  *)
LEMMA IndexIs ==
  ASSUME NEW U, NEW records \in Seq(U), records # <<>>
  PROVE  /\ Index(records).parts \in Seq(Abouts)
         /\ Len(Index(records).parts) = Parts(records)
         /\ \A n \in 1 .. Parts(records) : Index(records).parts[n] = About(records, n)
<1>1. PICK k \in Nat \ {0} : k = Parts(records)
  BY ChunksJoin
<1>2. Index(records).parts = [n \in 1 .. k |-> About(records, n)]
  BY <1>1 DEF Index, About
<1>3. \A n \in 1 .. k : About(records, n) \in Abouts
  <2> SUFFICES ASSUME NEW n \in 1 .. k PROVE About(records, n) \in Abouts
    OBVIOUS
  <2>1. Len(Chunk(records, n)) \in Nat /\ (n - 1) * PartSize \in Nat
    <3>1. /\ Len(Chunk(records, n)) \in Nat
          /\ Upto(Len(records), n - 1) = (n - 1) * PartSize
          /\ Upto(Len(records), n - 1) \in Nat
      BY <1>1, ChunksJoin
    <3> QED
      BY <3>1
  <2> QED
    BY <2>1 DEF About, Abouts
<1>4. PICK q : q = Index(records).parts
  OBVIOUS
<1>5. q \in Seq(Abouts) /\ Len(q) = k /\ \A n \in 1 .. k : q[n] = About(records, n)
  BY <1>2, <1>3, <1>4
<1> QED
  BY <1>1, <1>4, <1>5

(* The offset that the compiler counts is where the tool began the part.     *)
LEMMA OffsetsAre ==
  ASSUME NEW U, NEW records \in Seq(U), records # <<>>,
         NEW i \in 1 .. (Parts(records) + 1)
  PROVE  Offset(Index(records), i) = Upto(Len(records), i - 1)
<1>1. PICK k \in Nat \ {0} : k = Parts(records)
  BY ChunksJoin
<1>2. PICK parts : parts = Index(records).parts
  OBVIOUS
<1>3. parts \in Seq(Abouts) /\ Len(parts) = k /\ \A n \in 1 .. k : parts[n] = About(records, n)
  BY <1>1, <1>2, IndexIs
<1>4. PICK m \in Nat : m = i - 1 /\ m <= k
  <2>1. i - 1 \in Nat /\ i - 1 <= k
    BY <1>1
  <2> QED
    BY <2>1
<1>5. PICK some : some = SubSeq(parts, 1, m)
  OBVIOUS
<1>6. some \in Seq(Abouts) /\ Len(some) = m /\ \A n \in 1 .. m : some[n] = parts[n]
  BY <1>3, <1>4, <1>5
<1>7. \A part \in Abouts : part.records \in Nat
  BY DEF Abouts
<1>8. PICK h \in [0 .. m -> Nat] :
        /\ SumsUp(h, m, RecordsOf(some))
        /\ FoldLeft(LAMBDA sum, part : sum + part.records, 0, some) = h[m]
  BY <1>6, <1>7, RecordsAddUp
<1>9. PICK g : g = [n \in 0 .. m |-> Upto(Len(records), n)]
  OBVIOUS
<1>10. SumsUp(g, m, RecordsOf(some))
  <2>1. g[0] = 0
    <3>1. 0 \in 0 .. m /\ Upto(Len(records), 0) = 0
      BY ChunksJoin
    <3> QED
      BY <1>9, <3>1
  <2>2. ASSUME NEW n \in 1 .. m PROVE g[n] = g[n - 1] + RecordsOf(some)[n]
    <3>1. n \in 0 .. m /\ n - 1 \in 0 .. m /\ n \in 1 .. k
      BY <1>4
    <3>2. g[n] = Upto(Len(records), n) /\ g[n - 1] = Upto(Len(records), n - 1)
      BY <1>9, <3>1
    <3>3. Upto(Len(records), n) = Upto(Len(records), n - 1) + Len(Chunk(records, n))
      BY <1>1, <3>1, ChunksJoin
    <3>4. RecordsOf(some)[n] = Len(Chunk(records, n))
      <4>1. some[n] = About(records, n)
        BY <1>3, <1>6, <3>1
      <4>2. RecordsOf(some)[n] = some[n].records
        BY <1>6 DEF RecordsOf
      <4> QED
        BY <4>1, <4>2 DEF About
    <3> QED
      BY <3>2, <3>3, <3>4
  <2> QED
    BY <2>1, <2>2 DEF SumsUp
<1>11. SameFrom(0, m, g, h)
  <2>1. PICK v : v = RecordsOf(some)
    OBVIOUS
  <2>2. SumsUp(g, m, v) /\ SumsUp(h, m, v) /\ SameFrom(1, m, v, v)
    BY <1>8, <1>10, <2>1 DEF SameFrom
  <2> QED
    BY <2>2, SumsAgree
<1>12. h[m] = Upto(Len(records), m)
  BY <1>9, <1>11 DEF SameFrom
<1>13. Offset(Index(records), i) = h[m]
  <2>1. Offset(Index(records), i) = FoldLeft(LAMBDA sum, part : sum + part.records, 0, some)
    BY <1>2, <1>4, <1>5, Zenon DEF Offset
  <2> QED
    BY <1>8, <2>1, Zenon
<1> QED
  BY <1>4, <1>12, <1>13

WrittenTo(g, d, records) ==
  \A w \in Range(Written(d, records)) : w.file \in DOMAIN g /\ g[w.file] = w.content

(* The files that hold all that was written of a data set.                   *)
LEMMA WrittenHas ==
  ASSUME NEW U, NEW records \in Seq(U), records # <<>>, NEW d, NEW g, WrittenTo(g, d, records)
  PROVE  /\ <<d, 0>> \in DOMAIN g /\ g[<<d, 0>>] = Index(records)
         /\ \A n \in 1 .. Parts(records) :
              <<d, n>> \in DOMAIN g /\ g[<<d, n>>] = Chunk(records, n)
<1> DEFINE part(n) == Write(<<d, n>>, Chunk(records, n))
           index == Write(<<d, 0>>, Index(records))
<1>1. PICK k \in Nat \ {0} : k = Parts(records)
  BY ChunksJoin
<1>2. PICK parts : parts = [n \in 1 .. k |-> part(n)]
  OBVIOUS
<1>3. Written(d, records) = Append(parts, index)
  BY <1>1, <1>2 DEF Written
<1>4. PICK S : S = {part(n) : n \in 1 .. k} \cup {index}
  OBVIOUS
<1>5. parts \in Seq(S) /\ Len(parts) = k /\ (\A n \in 1 .. k : parts[n] = part(n)) /\ index \in S
  <2> HIDE DEF part, index
  <2> QED
    BY <1>2, <1>4
<1>6. PICK all : all = Append(parts, index)
  OBVIOUS
<1>7. /\ DOMAIN all = 1 .. (k + 1) /\ all[k + 1] = index
      /\ \A n \in 1 .. k : all[n] = part(n)
  <2> HIDE DEF part, index
  <2> QED
    BY <1>5, <1>6
<1>8. index \in Range(all) /\ \A n \in 1 .. k : part(n) \in Range(all)
  <2> HIDE DEF part, index
  <2>1. k + 1 \in 1 .. (k + 1) /\ \A n \in 1 .. k : n \in 1 .. (k + 1)
    OBVIOUS
  <2> QED
    BY <1>7, <2>1, Zenon DEF Range
<1>9. \A w \in Range(all) : w.file \in DOMAIN g /\ g[w.file] = w.content
  BY <1>3, <1>6, Zenon DEF WrittenTo
<1>10. index.file = <<d, 0>> /\ index.content = Index(records)
  BY DEF Write
<1>11. \A n : part(n).file = <<d, n>> /\ part(n).content = Chunk(records, n)
  BY DEF Write
<1> HIDE DEF part, index
<1> QED
  BY <1>1, <1>8, <1>9, <1>10, <1>11

(* A data set written to the end is whole, and is read as it was.            *)
LEMMA WrittenLoads ==
  ASSUME NEW U, NEW records \in Seq(U), records # <<>>, NEW d, NEW g, WrittenTo(g, d, records)
  PROVE  Whole(g, d) /\ Loaded(g, d) = records
<1>1. PICK k \in Nat \ {0} : k = Parts(records)
  BY ChunksJoin
<1>2. PICK x : x = Index(records)
  OBVIOUS
<1>3. /\ <<d, 0>> \in DOMAIN g /\ g[<<d, 0>>] = x
      /\ \A n \in 1 .. k : <<d, n>> \in DOMAIN g /\ g[<<d, n>>] = Chunk(records, n)
  BY <1>1, <1>2, WrittenHas
<1>4. PICK parts : parts = x.parts
  OBVIOUS
<1>5. /\ DOMAIN parts = 1 .. k /\ Len(parts) = k
      /\ \A n \in 1 .. k : /\ parts[n].file = n /\ parts[n].offset = (n - 1) * PartSize
                           /\ parts[n].records = Len(Chunk(records, n))
  <2>1. parts \in Seq(Abouts) /\ Len(parts) = k /\ \A n \in 1 .. k : parts[n] = About(records, n)
    BY <1>1, <1>2, <1>4, IndexIs
  <2> QED
    BY <2>1 DEF About
<1>6. \A n \in 1 .. k : PartFile(d, x, n) = <<d, n>>
  BY <1>4, <1>5 DEF PartFile
<1>7. \A n \in 1 .. k : parts[n].offset = Offset(x, n)
  <2> SUFFICES ASSUME NEW n \in 1 .. k PROVE parts[n].offset = Offset(x, n)
    OBVIOUS
  <2>1. n \in 1 .. (Parts(records) + 1)
    BY <1>1
  <2>2. Offset(x, n) = Upto(Len(records), n - 1)
    BY <1>2, <2>1, OffsetsAre
  <2>3. Upto(Len(records), n - 1) = (n - 1) * PartSize
    BY <1>1, ChunksJoin
  <2> QED
    BY <1>5, <2>2, <2>3
<1>8. x.total = Offset(x, Len(parts) + 1)
  <2>1. k + 1 \in 1 .. (Parts(records) + 1) /\ (k + 1) - 1 = k
    BY <1>1
  <2>2. Offset(x, k + 1) = Upto(Len(records), k)
    <3>1. Offset(x, k + 1) = Upto(Len(records), (k + 1) - 1)
      BY <1>2, <2>1, OffsetsAre
    <3> QED
      BY <2>1, <3>1
  <2>3. Upto(Len(records), k) = Len(records)
    BY <1>1, ChunksJoin
  <2>4. x.total = Len(records)
    BY <1>2 DEF Index
  <2> QED
    BY <1>5, <2>2, <2>3, <2>4
<1>9. Whole(g, d)
  <2>1. DOMAIN x.parts # {}
    <3>1. 1 \in 1 .. k
      OBVIOUS
    <3> QED
      BY <1>4, <1>5, <3>1
  <2>2. \A i, j \in DOMAIN x.parts : x.parts[i].file = x.parts[j].file => i = j
    BY <1>4, <1>5
  <2>3. \A i \in DOMAIN x.parts :
          /\ PartFile(d, x, i) \in DOMAIN g
          /\ Len(g[PartFile(d, x, i)]) = x.parts[i].records
          /\ x.parts[i].offset = Offset(x, i)
    BY <1>3, <1>4, <1>5, <1>6, <1>7
  <2>4. x.total = Offset(x, Len(x.parts) + 1)
    BY <1>4, <1>8
  <2> QED
    BY <1>3, <2>1, <2>2, <2>3, <2>4, Zenon DEF Whole
<1>10. PICK seqs : seqs = [i \in 1 .. k |-> Chunk(records, i)]
  OBVIOUS
<1>11. Loaded(g, d) = FlattenSeq(seqs)
  <2>1. [i \in DOMAIN x.parts |-> g[PartFile(d, x, i)]] = seqs
    BY <1>3, <1>4, <1>5, <1>6, <1>10
  <2> QED
    BY <1>3, <2>1, Zenon DEF Loaded
<1>12. seqs \in Seq(Seq(U)) /\ Len(seqs) = k /\ \A n \in 1 .. k : seqs[n] = Chunk(records, n)
  <2>1. \A n \in 1 .. k : Chunk(records, n) \in Seq(U)
    BY <1>1, ChunksJoin
  <2> QED
    BY <1>10, <2>1
<1>13. PICK h \in [0 .. k -> Seq(U)] : FlattensTo(h, seqs) /\ FlattenSeq(seqs) = h[k]
  BY <1>12, FlattenSteps
<1>14. h[0] = <<>> /\ \A n \in 1 .. k : h[n] = h[n - 1] \o Chunk(records, n)
  BY <1>12, <1>13 DEF FlattensTo
<1> DEFINE T == {n \in Nat : n <= k => h[n] = SubSeq(records, 1, Upto(Len(records), n))}
<1>15. 0 \in T
  <2>1. Upto(Len(records), 0) = 0
    BY ChunksJoin
  <2>2. SubSeq(records, 1, 0) = <<>>
    OBVIOUS
  <2> QED
    BY <1>14, <2>1, <2>2
<1>16. ASSUME NEW n \in Nat, n \in T PROVE n + 1 \in T
  <2> SUFFICES ASSUME n + 1 <= k
               PROVE  h[n + 1] = SubSeq(records, 1, Upto(Len(records), n + 1))
    OBVIOUS
  <2>1. n + 1 \in 1 .. k /\ (n + 1) - 1 = n /\ n <= k
    OBVIOUS
  <2>2. h[n + 1] = h[n] \o Chunk(records, n + 1)
    BY <1>14, <2>1
  <2>3. h[n] = SubSeq(records, 1, Upto(Len(records), n))
    BY <1>16, <2>1
  <2>4. SubSeq(records, 1, Upto(Len(records), (n + 1) - 1)) \o Chunk(records, n + 1)
          = SubSeq(records, 1, Upto(Len(records), n + 1))
    BY <1>1, <2>1, ChunksJoin
  <2> QED
    BY <2>1, <2>2, <2>3, <2>4, Zenon
<1>17. \A n \in Nat : n \in T
  <2> HIDE DEF T
  <2> QED
    BY <1>15, <1>16, Induction
<1>18. h[k] = SubSeq(records, 1, Len(records))
  <2>1. Upto(Len(records), k) = Len(records)
    BY <1>1, ChunksJoin
  <2>2. h[k] = SubSeq(records, 1, Upto(Len(records), k))
    BY <1>17
  <2> QED
    BY <2>1, <2>2
<1>19. SubSeq(records, 1, Len(records)) = records
  OBVIOUS
<1> QED
  BY <1>9, <1>11, <1>13, <1>18, <1>19

-----------------------------------------------------------------------------
(* Where the contents of files come from: events are of captures, a part of  *)
(* the census is of one generation's events, and posts are counted.          *)
CensusesOf(v) == {Census(v, EndpointPattern(v[n].path)) : n \in DOMAIN v}

CensusPartOf(content, V) == \E v \in V : content \in Seq(CensusesOf(v))

Genuine(f, content, V) ==
  /\ \A n \in Nat \ {0} :
       /\ f = <<"events", n>> => content \in Seq(AllEvents)
       /\ f = <<"endpoints", n>> => CensusPartOf(content, V)
  /\ f = OperationsFile => PostsAddUp(content)

AllGenuine(g, V) == \A f \in DOMAIN g : Genuine(f, g[f], V)

AllWritesGenuine(q, V) == \A w \in Range(q) : Genuine(w.file, w.content, V)

(* Another generation makes no content less genuine.                         *)
LEMMA StaysGenuine ==
  ASSUME NEW f, NEW content, NEW V, NEW W, Genuine(f, content, V), V \subseteq W
  PROVE  Genuine(f, content, W)
<1>1. CensusPartOf(content, V) => CensusPartOf(content, W)
  BY DEF CensusPartOf
<1> QED
  BY <1>1 DEF Genuine

LEMMA CensusIsOf == \A events, p : Census(events, p).pattern = p
  BY DEF Census

(* The endpoints of a generation.                                            *)
LEMMA EndpointsAre ==
  ASSUME NEW c \in Captures
  PROVE  /\ Endpoints(c) \in Seq(Range(Endpoints(c)))
         /\ ApplicationEvents(c) # <<>> => Endpoints(c) # <<>>
         /\ \A i, j \in DOMAIN Endpoints(c) :
              Endpoints(c)[i].pattern = Endpoints(c)[j].pattern => i = j
         /\ \A i \in DOMAIN Endpoints(c) : Endpoints(c)[i] \in CensusesOf(ApplicationEvents(c))
         /\ \A n \in DOMAIN ApplicationEvents(c) : \E i \in DOMAIN Endpoints(c) :
              Endpoints(c)[i].pattern = EndpointPattern(ApplicationEvents(c)[n].path)
<1>1. PICK v \in Seq(AllEvents) : v = ApplicationEvents(c)
  BY EventsAreSeq
<1> DEFINE patterns == {EndpointPattern(v[i].path) : i \in DOMAIN v}
<1>2. IsFiniteSet(patterns)
  <2>1. IsFiniteSet(DOMAIN v)
    <3>1. Len(v) \in Nat /\ DOMAIN v = 1 .. Len(v)
      OBVIOUS
    <3> QED
      BY <3>1, FS_Interval
  <2> DEFINE name == [i \in DOMAIN v |-> EndpointPattern(v[i].path)]
  <2>2. name \in Surjection(DOMAIN v, patterns)
    BY DEF Surjection
  <2> HIDE DEF patterns, name
  <2> QED
    BY <2>1, <2>2, FS_Surjection
<1>3. PICK q : q = SetToSeq(patterns)
  OBVIOUS
<1>4. Endpoints(c) = [i \in DOMAIN q |-> Census(v, q[i])]
  BY <1>1, <1>3, Zenon DEF Endpoints
<1>5. \A p \in patterns : \E n \in DOMAIN v : p = EndpointPattern(v[n].path)
  OBVIOUS
<1>6. \A n \in DOMAIN v : EndpointPattern(v[n].path) \in patterns
  OBVIOUS
<1> HIDE DEF patterns
<1>7. q \in Seq(patterns) /\ Range(q) = patterns /\ IsInjective(q)
  BY <1>2, <1>3, SetToSeqLists
<1>8. PICK all : all = Endpoints(c)
  OBVIOUS
<1>9. Len(q) \in Nat /\ DOMAIN q = 1 .. Len(q) /\ DOMAIN all = DOMAIN q
      /\ \A i \in DOMAIN q : q[i] \in patterns /\ all[i] = Census(v, q[i])
  BY <1>4, <1>7, <1>8
<1>10. \A i \in DOMAIN q : all[i].pattern = q[i]
  <2> TAKE i \in DOMAIN q
  <2>1. all[i] = Census(v, q[i])
    BY <1>9
  <2>2. Census(v, q[i]).pattern = q[i]
    BY ONLY CensusIsOf
  <2> QED
    BY <2>1, <2>2
<1>11. all \in Seq(Range(all))
  <2>1. all = [i \in 1 .. Len(q) |-> all[i]] /\ \A i \in 1 .. Len(q) : all[i] \in Range(all)
    BY <1>4, <1>8, <1>9 DEF Range
  <2> QED
    BY <1>9, <2>1
<1>12. \A i, j \in DOMAIN all : all[i].pattern = all[j].pattern => i = j
  BY <1>7, <1>9, <1>10 DEF IsInjective
<1>13. \A i \in DOMAIN all : all[i] \in CensusesOf(v)
  BY <1>5, <1>9 DEF CensusesOf
<1>14. \A n \in DOMAIN v : \E i \in DOMAIN all : all[i].pattern = EndpointPattern(v[n].path)
  <2> SUFFICES ASSUME NEW n \in DOMAIN v
               PROVE  \E i \in DOMAIN all : all[i].pattern = EndpointPattern(v[n].path)
    OBVIOUS
  <2>1. EndpointPattern(v[n].path) \in Range(q)
    BY <1>6, <1>7
  <2>2. PICK i \in DOMAIN q : q[i] = EndpointPattern(v[n].path)
    BY <2>1 DEF Range
  <2> QED
    BY <1>9, <1>10, <2>2
<1>15. v # <<>> => all # <<>>
  <2> SUFFICES ASSUME v # <<>> PROVE all # <<>>
    OBVIOUS
  <2>1. 1 \in DOMAIN v
    OBVIOUS
  <2>2. PICK i : i \in DOMAIN all
    BY <1>14, <2>1
  <2>3. DOMAIN <<>> = {}
    OBVIOUS
  <2> QED
    BY <2>2, <2>3
<1> QED
  BY <1>1, <1>8, <1>11, <1>12, <1>13, <1>14, <1>15

-----------------------------------------------------------------------------
(* What a generation writes.                                                 *)
LEMMA WrittenOnly ==
  ASSUME NEW d, NEW records, Parts(records) \in Nat, NEW w \in Range(Written(d, records))
  PROVE  \/ w.file = <<d, 0>>
         \/ \E n \in Nat \ {0} : w.file = <<d, n>> /\ w.content = Chunk(records, n)
<1> DEFINE k == Parts(records)
           part(n) == Write(<<d, n>>, Chunk(records, n))
           index == Write(<<d, 0>>, Index(records))
           parts == [n \in 1 .. k |-> part(n)]
<1>1. Written(d, records) = Append(parts, index)
  BY DEF Written
<1> HIDE DEF part, index, k
<1>2. k \in Nat
  BY DEF k
<1>3. Len(parts) = k /\ DOMAIN Append(parts, index) = 1 .. k + 1
      /\ Append(parts, index)[k + 1] = index
      /\ \A n \in 1 .. k : Append(parts, index)[n] = part(n)
  BY <1>2
<1>4. PICK n \in 1 .. k + 1 : w = Append(parts, index)[n]
  BY <1>1, <1>3 DEF Range
<1>5. CASE n = k + 1
  <2>1. w = index
    BY <1>3, <1>4, <1>5
  <2>2. index.file = <<d, 0>>
    BY DEF index, Write
  <2> QED
    BY <2>1, <2>2
<1>6. CASE n # k + 1
  <2>1. n \in 1 .. k /\ n \in Nat \ {0}
    BY <1>2, <1>6
  <2>2. w = part(n)
    BY <1>3, <1>4, <2>1
  <2>3. part(n).file = <<d, n>> /\ part(n).content = Chunk(records, n)
    BY DEF part, Write
  <2> QED
    BY <2>1, <2>2, <2>3
<1> QED
  BY <1>5, <1>6

(* A number of parts is a number.                                            *)
LEMMA PartsIsNat == \A records : Len(records) \in Nat => Parts(records) \in Nat
<1> SUFFICES ASSUME NEW records, Len(records) \in Nat PROVE Parts(records) \in Nat
  OBVIOUS
<1>1. \A x \in Nat, size \in Nat \ {0} : x \div size \in Nat
  BY SMTT(30)
<1>2. Len(records) + PartSize - 1 \in Nat
  BY AnalysisAssumption
<1> QED
  BY <1>1, <1>2, AnalysisAssumption DEF Parts

(* A part of a census is of the events that the census is of.                *)
LEMMA ChunkOfCensus ==
  ASSUME NEW c \in Captures, NEW n \in Nat \ {0}
  PROVE  CensusPartOf(Chunk(Endpoints(c), n), {ApplicationEvents(c)})
<1>1. PICK all, U : all = Endpoints(c) /\ U = CensusesOf(ApplicationEvents(c))
  OBVIOUS
<1>2. \A i \in DOMAIN all : all[i] \in U
  BY <1>1, EndpointsAre
<1>3. all \in Seq(Range(all))
  BY <1>1, EndpointsAre
<1>4. all \in Seq(U)
  <2>1. Len(all) \in Nat /\ DOMAIN all = 1 .. Len(all) /\ all = [i \in 1 .. Len(all) |-> all[i]]
    BY <1>3
  <2> QED
    BY <1>2, <2>1
<1>5. Chunk(all, n) \in Seq(U)
  BY <1>4, ChunkIsSeq
<1> QED
  BY <1>1, <1>5 DEF CensusPartOf

(* The tool writes three data sets, and nothing else.                        *)
LEMMA GenerationHas ==
  ASSUME NEW c \in Captures
  PROVE  Range(Generation(c)) = Range(Written("events", ApplicationEvents(c)))
                                  \cup Range(Written("endpoints", Endpoints(c)))
                                  \cup Range(Written("forms", Forms(c)))
<1>1. PICK events, endpoints, forms :
        /\ events = Written("events", ApplicationEvents(c))
        /\ endpoints = Written("endpoints", Endpoints(c))
        /\ forms = Written("forms", Forms(c))
  OBVIOUS
<1>2. ApplicationEvents(c) \in Seq(AllEvents) /\ Endpoints(c) \in Seq(Range(Endpoints(c)))
      /\ Forms(c) \in Seq(AllForms)
  BY EventsAreSeq, EndpointsAre, FormsAreSeq
<1>3. Writes(events) /\ Writes(endpoints) /\ Writes(forms)
  BY <1>1, <1>2, WrittenIs DEF DataSets
<1>4. Writes(events \o endpoints) /\ Range(events \o endpoints) = Range(events) \cup Range(endpoints)
  BY <1>3, WritesJoin
<1>5. Range((events \o endpoints) \o forms) = Range(events \o endpoints) \cup Range(forms)
  BY <1>3, <1>4, WritesJoin
<1> QED
  BY <1>1, <1>4, <1>5 DEF Generation

(* All that a generation writes is of its own events.                        *)
LEMMA GenerationIsGenuine ==
  ASSUME NEW c \in Captures
  PROVE  AllWritesGenuine(Generation(c), {ApplicationEvents(c)})
<1> DEFINE V == {ApplicationEvents(c)}
<1> SUFFICES ASSUME NEW w \in Range(Generation(c)) PROVE Genuine(w.file, w.content, V)
  BY DEF AllWritesGenuine
<1>0. PICK events, endpoints, forms :
        /\ events = Written("events", ApplicationEvents(c))
        /\ endpoints = Written("endpoints", Endpoints(c))
        /\ forms = Written("forms", Forms(c))
  OBVIOUS
<1>a. ApplicationEvents(c) \in Seq(AllEvents) /\ Endpoints(c) \in Seq(Range(Endpoints(c)))
      /\ Forms(c) \in Seq(AllForms)
  BY EventsAreSeq, EndpointsAre, FormsAreSeq
<1>b. /\ Parts(ApplicationEvents(c)) \in Nat /\ Parts(Endpoints(c)) \in Nat
      /\ Parts(Forms(c)) \in Nat
  <2>1. Len(ApplicationEvents(c)) \in Nat /\ Len(Endpoints(c)) \in Nat /\ Len(Forms(c)) \in Nat
    BY <1>a
  <2> QED
    BY <2>1, PartsIsNat
<1>c. w \in Range(events) \/ w \in Range(endpoints) \/ w \in Range(forms)
  BY <1>0, GenerationHas
<1>d. \A n \in Nat : <<"events", n>> # OperationsFile /\ <<"endpoints", n>> # OperationsFile
                      /\ <<"forms", n>> # OperationsFile
  BY DEF OperationsFile
<1>1. CASE w \in Range(events)
  <2>1. \/ w.file = <<"events", 0>>
        \/ \E n \in Nat \ {0} : w.file = <<"events", n>> /\ w.content = Chunk(ApplicationEvents(c), n)
    BY <1>0, <1>1, <1>b, WrittenOnly
  <2>2. \A n \in Nat \ {0} : Chunk(ApplicationEvents(c), n) \in Seq(AllEvents)
    BY <1>a, ChunkIsSeq
  <2>3. \A m \in Nat \ {0} : w.file # <<"endpoints", m>>
                             /\ (w.file = <<"events", m>> => w.content \in Seq(AllEvents))
    BY <2>1, <2>2
  <2>4. w.file # OperationsFile
    BY <1>d, <2>1
  <2> QED
    BY <2>3, <2>4 DEF Genuine
<1>2. CASE w \in Range(endpoints)
  <2>1. \/ w.file = <<"endpoints", 0>>
        \/ \E n \in Nat \ {0} : w.file = <<"endpoints", n>> /\ w.content = Chunk(Endpoints(c), n)
    BY <1>0, <1>2, <1>b, WrittenOnly
  <2>2. \A n \in Nat \ {0} : CensusPartOf(Chunk(Endpoints(c), n), V)
    BY ChunkOfCensus
  <2>3. \A m \in Nat \ {0} : w.file # <<"events", m>>
                             /\ (w.file = <<"endpoints", m>> => CensusPartOf(w.content, V))
    <3> HIDE DEF V
    <3> QED
      BY <2>1, <2>2
  <2>4. w.file # OperationsFile
    BY <1>d, <2>1
  <2> QED
    BY <2>3, <2>4 DEF Genuine
<1>3. CASE w \in Range(forms)
  <2>1. \E n \in Nat : w.file = <<"forms", n>>
    BY <1>0, <1>3, <1>b, WrittenOnly
  <2> QED
    BY <1>d, <2>1 DEF Genuine
<1> QED
  BY <1>1, <1>2, <1>3, <1>c

(* Of captured traffic, what is in the files, read and still to be written.  *)
TrafficInv ==
  /\ versions \subseteq Seq(AllEvents)
  /\ AllGenuine(files, versions)
  /\ AllGenuine(reader.got, versions)
  /\ AllWritesGenuine(writing, versions)

(* Genuine files stay so when genuine ones are written.                      *)
LEMMA StoredGenuine ==
  ASSUME NEW V, NEW old, AllGenuine(old, V), NEW q, AllWritesGenuine(q, V)
  PROVE  AllGenuine(Stored(old, q), V)
<1> DEFINE written == {w.file : w \in Range(q)}
           Of(f) == CHOOSE w \in Range(q) : w.file = f
           new == [f \in written |-> Of(f).content]
<1>1. \A f \in written : Of(f) \in Range(q) /\ Of(f).file = f
  OBVIOUS
<1>2. Stored(old, q) = With(old, new)
  BY DEF Stored
<1>3. \A f \in written : Genuine(f, Of(f).content, V)
  BY <1>1 DEF AllWritesGenuine
<1> HIDE DEF Of, written
<1>4. DOMAIN new = written /\ \A f \in written : Genuine(f, new[f], V)
  BY <1>3
<1> HIDE DEF new
<1>5. PICK h : h = With(old, new)
  OBVIOUS
<1>6. /\ DOMAIN h = DOMAIN old \cup DOMAIN new
      /\ \A k \in DOMAIN new : h[k] = new[k]
      /\ \A k \in DOMAIN old : k \notin DOMAIN new => h[k] = old[k]
  <2>1. /\ DOMAIN With(old, new) = DOMAIN old \cup DOMAIN new
        /\ \A k \in DOMAIN new : With(old, new)[k] = new[k]
        /\ \A k \in DOMAIN old : k \notin DOMAIN new => With(old, new)[k] = old[k]
    BY WithHas
  <2> QED
    BY <1>5, <2>1
<1>7. \A f \in DOMAIN h : Genuine(f, h[f], V)
  BY <1>4, <1>6 DEF AllGenuine
<1> QED
  BY <1>2, <1>5, <1>7 DEF AllGenuine

LEMMA AllStayGenuine ==
  ASSUME NEW V, NEW W, V \subseteq W
  PROVE  /\ \A g : AllGenuine(g, V) => AllGenuine(g, W)
         /\ \A q : AllWritesGenuine(q, V) => AllWritesGenuine(q, W)
<1>1. \A f, content : Genuine(f, content, V) => Genuine(f, content, W)
  BY StaysGenuine
<1> QED
  BY <1>1 DEF AllGenuine, AllWritesGenuine

(* The curator begins with operations that add up.                           *)
LEMMA NoEditsGenuine == \A V : AllGenuine(NoEdits, V)
<1> SUFFICES ASSUME NEW V, NEW f \in DOMAIN NoEdits PROVE Genuine(f, NoEdits[f], V)
  BY DEF AllGenuine
<1>1. \A n \in Nat : \A x \in {OperationsFile, CatalogFile} :
        <<"events", n>> # x /\ <<"endpoints", n>> # x
  BY DEF OperationsFile, CatalogFile
<1>2. OperationsFile # CatalogFile
  BY DEF OperationsFile, CatalogFile
<1>3. f \in {OperationsFile, CatalogFile}
  BY DEF NoEdits
<1>4. PostsAddUp([posts |-> 0, items |-> <<>>])
  <2>1. <<>> \in Seq(OperationEdits) /\ Len(<<>>) = 0
    OBVIOUS
  <2>2. PICK items : items = <<>>
    OBVIOUS
  <2>3. PICK h \in [0 .. Len(items) -> Nat] :
          /\ SumsUp(h, Len(items), CountsOf(items))
          /\ FoldLeft(LAMBDA sum, op : sum + op.count, 0, items) = h[Len(items)]
    BY <2>1, <2>2, CountsAddUp
  <2>4. h[Len(items)] = 0
    BY <2>1, <2>2, <2>3 DEF SumsUp
  <2>5. PICK old : old = [posts |-> 0, items |-> items]
    OBVIOUS
  <2>6. old.posts = 0 /\ old.items = items
    BY <2>5
  <2>7. PostsAddUp(old)
    BY <2>3, <2>4, <2>6, Zenon DEF PostsAddUp
  <2> QED
    BY <2>2, <2>5, <2>7
<1>5. f = OperationsFile => NoEdits[f] = [posts |-> 0, items |-> <<>>]
  BY DEF NoEdits
<1>6. f = OperationsFile => PostsAddUp(NoEdits[f])
  BY <1>4, <1>5, Zenon
<1>7. \A n \in Nat \ {0} : f # <<"events", n>> /\ f # <<"endpoints", n>>
  BY <1>1, <1>3
<1> QED
  BY <1>6, <1>7 DEF Genuine

LEMMA NothingGenuine == \A V : AllGenuine(<<>>, V) /\ AllWritesGenuine(<<>>, V)
  BY DEF AllGenuine, AllWritesGenuine, Range

(* One lemma for each step: what is in the files stays genuine.              *)
LEMMA TrafficInit == Init => TrafficInv
<1> SUFFICES ASSUME Init PROVE TrafficInv
  OBVIOUS
<1>1. FirstCaptures \in Captures
  BY AnalysisAssumption DEF Captures
<1>2. versions \subseteq Seq(AllEvents)
  BY <1>1, EventsAreSeq DEF Init
<1>3. AllWritesGenuine(Generation(FirstCaptures), versions)
  BY <1>1, GenerationIsGenuine DEF Init
<1>4. AllGenuine(files, versions)
  BY <1>3, NoEditsGenuine, StoredGenuine DEF Init
<1>5. AllGenuine(reader.got, versions) /\ AllWritesGenuine(writing, versions)
  BY NothingGenuine DEF Init, Idle
<1> QED
  BY <1>2, <1>4, <1>5 DEF TrafficInv

LEMMA GenerateKeeps ==
  ASSUME TrafficInv, captures \in Captures, Generate
  PROVE  TrafficInv'
<1>1. /\ writing' = Generation(captures) /\ versions' = versions \cup {ApplicationEvents(captures)}
      /\ files' = files /\ reader' = reader
  BY DEF Generate
<1>2. AllWritesGenuine(writing', {ApplicationEvents(captures)})
  BY <1>1, GenerationIsGenuine
<1>3. versions \subseteq versions' /\ {ApplicationEvents(captures)} \subseteq versions'
  BY <1>1
<1>4. AllWritesGenuine(writing', versions')
  BY <1>2, <1>3, AllStayGenuine
<1>5. AllGenuine(files', versions') /\ AllGenuine(reader'.got, versions')
  BY <1>1, <1>3, AllStayGenuine DEF TrafficInv
<1>6. versions' \subseteq Seq(AllEvents)
  BY <1>1, EventsAreSeq DEF TrafficInv
<1> QED
  BY <1>4, <1>5, <1>6 DEF TrafficInv

LEMMA WriteKeeps ==
  ASSUME TrafficInv, Writes(writing), writing # <<>>, WriteFile
  PROVE  TrafficInv'
<1>1. /\ files' = Stored(files, <<Head(writing)>>) /\ writing' = Tail(writing)
      /\ versions' = versions /\ reader' = reader
  BY DEF WriteFile
<1>2. PICK S : writing \in Seq(S)
  BY DEF Writes
<1>3. Head(writing) \in Range(writing) /\ Range(Tail(writing)) \subseteq Range(writing)
  <2>1. Head(writing) = writing[1] /\ 1 \in DOMAIN writing /\ Len(writing) \in Nat
    BY <1>2
  <2>2. \A i \in DOMAIN Tail(writing) : i + 1 \in DOMAIN writing /\ Tail(writing)[i] = writing[i + 1]
    BY <1>2
  <2> QED
    BY <2>1, <2>2 DEF Range
<1>4. Range(<<Head(writing)>>) = {Head(writing)}
  BY DEF Range
<1>5. AllWritesGenuine(<<Head(writing)>>, versions) /\ AllWritesGenuine(Tail(writing), versions)
  BY <1>3, <1>4 DEF AllWritesGenuine, TrafficInv
<1>6. AllGenuine(files', versions)
  BY <1>1, <1>5, StoredGenuine DEF TrafficInv
<1> QED
  BY <1>1, <1>5, <1>6 DEF TrafficInv

LEMMA OperationsKeep ==
  ASSUME TrafficInv, FilesOK(files), NEW op \in OperationEdits, EditOperations(op)
  PROVE  TrafficInv'
<1>1. OperationsFile \in DOMAIN files
  BY DEF FilesOK, AlwaysThere
<1>2. PICK old, new : /\ old = files[OperationsFile] 
                      /\ new = [posts |-> old.posts + op.count, items |-> Append(old.items, op)]
  OBVIOUS
<1>3. /\ DOMAIN files' = DOMAIN files /\ files'[OperationsFile] = new
      /\ \A f \in DOMAIN files : f # OperationsFile => files'[f] = files[f]
  BY <1>1, <1>2 DEF EditOperations
<1>4. old.items \in Seq(OperationEdits) /\ PostsAddUp(old)
  BY <1>1, <1>2 DEF FilesOK, Held, TrafficInv, AllGenuine, Genuine
<1>5. PostsAddUp(new)
  BY <1>2, <1>4, PostsStayCounted
<1>6. \A n \in Nat : <<"events", n>> # OperationsFile /\ <<"endpoints", n>> # OperationsFile
  BY DEF OperationsFile
<1>7. Genuine(OperationsFile, new, versions)
  BY <1>5, <1>6 DEF Genuine
<1>8. AllGenuine(files', versions)
  BY <1>3, <1>7 DEF AllGenuine, TrafficInv
<1> QED
  BY <1>8 DEF TrafficInv, EditOperations

LEMMA CatalogKeeps ==
  ASSUME TrafficInv, NEW action, EditCatalog(action)
  PROVE  TrafficInv'
<1>1. /\ DOMAIN files' = DOMAIN files
      /\ \A f \in DOMAIN files : f # CatalogFile => files'[f] = files[f]
  BY DEF EditCatalog
<1>2. \A n \in Nat : <<"events", n>> # CatalogFile /\ <<"endpoints", n>> # CatalogFile
  BY DEF CatalogFile
<1>3. OperationsFile # CatalogFile
  BY DEF OperationsFile, CatalogFile
<1>4. \A content : Genuine(CatalogFile, content, versions)
  BY <1>2, <1>3 DEF Genuine
<1>5. AllGenuine(files', versions)
  BY <1>1, <1>4 DEF AllGenuine, TrafficInv
<1> QED
  BY <1>5 DEF TrafficInv, EditCatalog

LEMMA ReadKeeps ==
  ASSUME TrafficInv, ReaderOK(reader), ReadFile
  PROVE  TrafficInv'
<1> DEFINE file == Head(reader.want)
           new == [f \in {file} \cap DOMAIN files |-> files[f]]
<1>1. \E want : reader' = [reader EXCEPT !.want = want, !.got = With(reader.got, new)]
  BY DEF ReadFile
<1> HIDE DEF file
<1>2. DOMAIN new \subseteq DOMAIN files /\ \A f \in DOMAIN new : new[f] = files[f]
  OBVIOUS
<1> HIDE DEF new
<1>3. PICK h : h = With(reader.got, new)
  OBVIOUS
<1>4. /\ DOMAIN h = DOMAIN reader.got \cup DOMAIN new
      /\ \A k \in DOMAIN new : h[k] = new[k]
      /\ \A k \in DOMAIN reader.got : k \notin DOMAIN new => h[k] = reader.got[k]
  <2>1. /\ DOMAIN With(reader.got, new) = DOMAIN reader.got \cup DOMAIN new
        /\ \A k \in DOMAIN new : With(reader.got, new)[k] = new[k]
        /\ \A k \in DOMAIN reader.got : k \notin DOMAIN new => With(reader.got, new)[k] = reader.got[k]
    BY WithHas
  <2> QED
    BY <1>3, <2>1
<1>5. AllGenuine(h, versions)
  BY <1>2, <1>4 DEF AllGenuine, TrafficInv
<1>6. reader'.got = h
  <2>1. PICK want : reader' = [reader EXCEPT !.want = want, !.got = h]
    BY <1>1, <1>3
  <2>2. reader = [pc |-> reader.pc, want |-> reader.want, got |-> reader.got, contract |-> reader.contract]
    BY DEF ReaderOK
  <2> QED
    BY <2>1, <2>2
<1> QED
  BY <1>5, <1>6 DEF TrafficInv, ReadFile

LEMMA TrafficStep == AnalysisInv /\ TrafficInv /\ [Next]_vars => TrafficInv'
<1> SUFFICES ASSUME AnalysisInv, TrafficInv, [Next]_vars PROVE TrafficInv'
  OBVIOUS
<1>0. captures \in Captures /\ FilesOK(files) /\ Writes(writing) /\ ReaderOK(reader)
  BY DEF AnalysisInv
<1>1. ASSUME NEW i \in DOMAIN Aliases, NEW entry \in Entries, Captured(Aliases[i], entry)
      PROVE  TrafficInv'
  BY <1>1 DEF Captured, TrafficInv
<1>2. CASE Generate
  BY <1>0, <1>2, GenerateKeeps
<1>3. CASE WriteFile
  <2>1. writing # <<>>
    BY <1>3 DEF WriteFile
  <2> QED
    BY <1>0, <1>3, <2>1, WriteKeeps
<1>4. CASE Stop
  BY <1>4, NothingGenuine DEF Stop, TrafficInv
<1>5. ASSUME NEW op \in OperationEdits, EditOperations(op) PROVE TrafficInv'
  BY <1>0, <1>5, OperationsKeep
<1>6. ASSUME NEW action \in ActionEdits, EditCatalog(action) PROVE TrafficInv'
  BY <1>6, CatalogKeeps
<1>7. CASE Compile
  <2>1. reader'.got = <<>>
    BY <1>7 DEF Compile, Idle
  <2> QED
    BY <1>7, <2>1, NothingGenuine DEF Compile, TrafficInv
<1>8. CASE ReadFile
  BY <1>0, <1>8, ReadKeeps
<1>9. CASE Conclude
  <2>1. reader'.got = reader.got
    BY <1>0, <1>9 DEF Conclude, ReaderOK
  <2> QED
    BY <1>9, <2>1 DEF Conclude, TrafficInv
<1>10. CASE Compare
  <2>1. reader'.got = <<>>
    BY <1>10 DEF Compare, Idle
  <2> QED
    BY <1>10, <2>1, NothingGenuine DEF Compare, TrafficInv
<1>11. CASE UNCHANGED vars
  BY <1>11 DEF vars, TrafficInv
<1> QED
  BY <1>1, <1>2, <1>3, <1>4, <1>5, <1>6, <1>7, <1>8, <1>9, <1>10, <1>11 DEF Next

LEMMA TrafficHolds == Spec => []TrafficInv
  BY TrafficInit, TrafficStep, AnalysisHolds, PTL DEF Spec

-----------------------------------------------------------------------------
(* What was read of a whole data set.                                        *)
LEMMA LoadedIs ==
  ASSUME NEW g, NEW d, NEW U, Whole(g, d), Parted(g[<<d, 0>>]),
         \A n \in Nat \ {0} : <<d, n>> \in DOMAIN g => g[<<d, n>>] \in Seq(U)
  PROVE  /\ Loaded(g, d) \in Seq(U)
         /\ \A i \in DOMAIN g[<<d, 0>>].parts :
              \E n \in Nat \ {0} : /\ PartFile(d, g[<<d, 0>>], i) = <<d, n>>
                                   /\ <<d, n>> \in DOMAIN g
                                   /\ Range(g[<<d, n>>]) \subseteq Range(Loaded(g, d))
<1> DEFINE index == g[<<d, 0>>]
           parts == index.parts
           seqs == [i \in DOMAIN parts |-> g[PartFile(d, index, i)]]
           R == [file : Nat \ {0}, records : Int, offset : Int]
<1>1. \A i \in DOMAIN parts : PartFile(d, index, i) \in DOMAIN g
  BY DEF Whole
<1>2. parts \in Seq(R)
  BY DEF Parted
<1>3. Loaded(g, d) = FlattenSeq(seqs)
  BY DEF Loaded
<1>4. \A part \in R : part.file \in Nat \ {0}
  OBVIOUS
<1>5. \A i \in DOMAIN parts : PartFile(d, index, i) = <<d, parts[i].file>>
  BY DEF PartFile
<1> HIDE DEF parts, index, R
<1>6. Len(parts) \in Nat /\ DOMAIN parts = 1 .. Len(parts)
      /\ \A i \in DOMAIN parts : parts[i].file \in Nat \ {0}
  BY <1>2, <1>4
<1>7. \A i \in DOMAIN parts : g[PartFile(d, index, i)] \in Seq(U)
  BY <1>1, <1>5, <1>6
<1>8. seqs \in Seq(Seq(U)) /\ Len(seqs) = Len(parts)
      /\ \A i \in 1 .. Len(parts) : seqs[i] = g[PartFile(d, index, i)]
  BY <1>6, <1>7
<1> HIDE DEF seqs
<1>9. Range(FlattenSeq(seqs)) = UNION {Range(seqs[i]) : i \in 1 .. Len(seqs)}
  BY <1>8, FlattenHas
<1>10. \A i \in DOMAIN parts : Range(g[PartFile(d, index, i)]) \subseteq Range(Loaded(g, d))
  BY <1>3, <1>6, <1>8, <1>9
<1>11. Loaded(g, d) \in Seq(U)
  BY <1>3, <1>8, FlattenIsSeq
<1>12. ASSUME NEW i \in DOMAIN parts
       PROVE  \E n \in Nat \ {0} : /\ PartFile(d, index, i) = <<d, n>>
                                   /\ <<d, n>> \in DOMAIN g
                                   /\ Range(g[<<d, n>>]) \subseteq Range(Loaded(g, d))
  <2>1. PartFile(d, index, i) = <<d, parts[i].file>> /\ parts[i].file \in Nat \ {0}
    BY <1>5, <1>6
  <2> QED
    BY <1>1, <1>10, <2>1
<1> QED
  BY <1>11, <1>12 DEF parts, index

(* Events have paths of requests.                                            *)
LEMMA EventPaths ==
  ASSUME NEW e \in AllEvents
  PROVE  e.path \in Sent
<1>1. PICK entry \in EveryEntry : e = Event(entry)
  BY DEF AllEvents
<1>2. e.path = entry.path
  BY <1>1 DEF Event
<1> QED
  BY <1>2, EntryPaths DEF Sent

(* The events that the compiler takes for a pattern's are those that the     *)
(* tool takes for the pattern's.                                             *)
Placed(events, p) == {i \in DOMAIN events : EndpointPattern(events[i].path) = p}

(* A path with one match in a census matches the pattern the tool gives it,  *)
LEMMA UniqueIs ==
  ASSUME NEW P, OfCensus(P), NEW path \in Sent, Unique(P, path)
  PROVE  EndpointPattern(path) \in P /\ Canonical(P, path) = EndpointPattern(path)
<1>1. path \in Seq(Segments)
  BY DEF Sent
<1>2. Best(P, path) # {}
  BY FS_EmptySet DEF Unique
<1>3. PICK p \in P : Best(P, path) = {p}
  BY <1>1, <1>2, BestIsOne
<1>4. p = EndpointPattern(path)
  BY <1>3, BestIsPatternOf
<1>5. Canonical(P, path) = p
  BY <1>2, <1>3 DEF Canonical
<1> QED
  BY <1>3, <1>4, <1>5

(* so that compiler and tool count the same events for a pattern.            *)
LEMMA PlacedAre ==
  ASSUME NEW P, OfCensus(P), NEW events \in Seq(AllEvents),
         \A i \in DOMAIN events : Unique(P, events[i].path)
  PROVE  /\ \A i \in DOMAIN events : EndpointPattern(events[i].path) \in P
         /\ \A p : EventsOf(events, P, p) = Placed(events, p)
<1>1. \A i \in DOMAIN events : events[i].path \in Sent
  BY EventPaths
<1>2. \A i \in DOMAIN events : EndpointPattern(events[i].path) \in P
                             /\ Canonical(P, events[i].path) = EndpointPattern(events[i].path)
  BY <1>1, UniqueIs
<1> QED
  BY <1>2 DEF EventsOf, Placed

(* Records of the census agree with the events that they count, and only     *)
(* with events that have the same census.                                    *)
LEMMA CensusPlaces ==
  ASSUME NEW events, NEW p
  PROVE  /\ Census(events, p).pattern = p
         /\ Census(events, p).count = Cardinality(Placed(events, p))
         /\ Census(events, p).methods =
              [x \in Methods(events, Placed(events, p)) |->
                 Cardinality({i \in Placed(events, p) : events[i].method = x})]
         /\ Census(events, p).statuses =
              [x \in Statuses(events, Placed(events, p)) |->
                 Cardinality({i \in Placed(events, p) : events[i].status = x})]
         /\ Census(events, p).keys = UNION {events[i].query : i \in Placed(events, p)}
  BY DEF Census, Tally, Placed, Methods, Statuses

LEMMA KeysJoin ==
  ASSUME NEW events, NEW seen
  PROVE  KeySet(UNION {events[i].query : i \in seen}) = UNION {KeySet(events[i].query) : i \in seen}
  BY DEF KeySet

(* The census of events agrees with them,                                    *)
LEMMA AgreesWithItself ==
  ASSUME NEW events, NEW p
  PROVE  Agrees(Census(events, p), events, Placed(events, p))
<1>1. PICK c, seen : c = Census(events, p) /\ seen = Placed(events, p)
  OBVIOUS
<1>2. /\ c.count = Cardinality(seen)
      /\ c.methods = [x \in Methods(events, seen) |-> Cardinality({i \in seen : events[i].method = x})]
      /\ c.statuses = [x \in Statuses(events, seen) |-> Cardinality({i \in seen : events[i].status = x})]
      /\ c.keys = UNION {events[i].query : i \in seen}
  BY <1>1, CensusPlaces
<1>3. KeySet(c.keys) = UNION {KeySet(events[i].query) : i \in seen}
  <2>1. KeySet(UNION {events[i].query : i \in seen}) = UNION {KeySet(events[i].query) : i \in seen}
    BY ONLY KeysJoin
  <2> QED
    BY <1>2, <2>1
<1>4. Agrees(c, events, seen)
  BY <1>2, <1>3 DEF Agrees
<1> QED
  BY <1>1, <1>4

(* and a record that agrees with events is their census.                     *)
LEMMA AgreesIsSame ==
  ASSUME NEW events, NEW v, NEW p, Agrees(Census(v, p), events, Placed(events, p))
  PROVE  SameCensus(Census(events, p), Census(v, p))
<1>1. PICK c, d, seen : c = Census(events, p) /\ d = Census(v, p) /\ seen = Placed(events, p)
  OBVIOUS
<1>2. /\ c.count = Cardinality(seen)
      /\ c.methods = [x \in Methods(events, seen) |-> Cardinality({i \in seen : events[i].method = x})]
      /\ c.statuses = [x \in Statuses(events, seen) |-> Cardinality({i \in seen : events[i].status = x})]
      /\ c.keys = UNION {events[i].query : i \in seen}
  BY <1>1, CensusPlaces
<1>3. KeySet(c.keys) = UNION {KeySet(events[i].query) : i \in seen}
  <2>1. KeySet(UNION {events[i].query : i \in seen}) = UNION {KeySet(events[i].query) : i \in seen}
    BY ONLY KeysJoin
  <2> QED
    BY <1>2, <2>1
<1>4. Agrees(d, events, seen)
  BY <1>1
<1>5. d.methods = [x \in DOMAIN d.methods |-> d.methods[x]]
      /\ d.statuses = [x \in DOMAIN d.statuses |-> d.statuses[x]]
  <2>1. PICK S, T, m, n : d.methods = [x \in S |-> m[x]] /\ d.statuses = [x \in T |-> n[x]]
    <3>1. PICK other : other = Placed(v, p)
      OBVIOUS
    <3> DEFINE m == [x \in Methods(v, other) |-> Cardinality({i \in other : v[i].method = x})]
               n == [x \in Statuses(v, other) |-> Cardinality({i \in other : v[i].status = x})]
    <3>2. d.methods = m /\ d.statuses = n
      BY <1>1, <3>1, CensusPlaces
    <3>3. m = [x \in DOMAIN m |-> m[x]] /\ n = [x \in DOMAIN n |-> n[x]]
      OBVIOUS
    <3> HIDE DEF m, n
    <3> QED
      BY <3>2, <3>3
  <2> QED
    BY <2>1
<1>6. c.methods = d.methods
  BY <1>2, <1>4, <1>5 DEF Agrees
<1>7. c.statuses = d.statuses
  BY <1>2, <1>4, <1>5 DEF Agrees
<1>8. c.count = d.count /\ KeySet(c.keys) = KeySet(d.keys)
  BY <1>2, <1>3, <1>4 DEF Agrees
<1> QED
  BY <1>1, <1>6, <1>7, <1>8 DEF SameCensus

(* A census read from parts of generations has patterns of paths.            *)
LEMMA CensusHasPatterns ==
  ASSUME NEW V, V \subseteq Seq(AllEvents), NEW census,
         NEW U, U = UNION {CensusesOf(v) : v \in V}, census \in Seq(U)
  PROVE  /\ OfCensus(Patterns(census))
         /\ \A c \in Range(census) : c.pattern \in Patterns(census)
<1>1. Patterns(census) = {census[i].pattern : i \in DOMAIN census}
  BY DEF Patterns, Image
<1>2. ASSUME NEW i \in DOMAIN census
      PROVE  \E path \in Sent : census[i].pattern = EndpointPattern(path)
  <2>1. census[i] \in U
    OBVIOUS
  <2>2. PICK v \in V : census[i] \in CensusesOf(v)
    BY <2>1
  <2>3. PICK n \in DOMAIN v : census[i] = Census(v, EndpointPattern(v[n].path))
    BY <2>2 DEF CensusesOf
  <2>4. v[n] \in AllEvents
    BY <2>2, <2>3
  <2>5. v[n].path \in Sent
    BY <2>4, EventPaths
  <2>6. Census(v, EndpointPattern(v[n].path)).pattern = EndpointPattern(v[n].path)
    BY ONLY CensusIsOf
  <2> QED
    BY <2>3, <2>5, <2>6
<1> QED
  BY <1>1, <1>2 DEF OfCensus, Range

(* What was read and was accepted is of one generation, part for part.       *)
LEMMA TornRefused == AnalysisInv /\ TrafficInv => TornIsRefused
<1> SUFFICES ASSUME AnalysisInv, TrafficInv, Accepted PROVE TornIsRefused
  BY DEF TornIsRefused
<1> DEFINE g == reader.got
           events == Loaded(g, "events")
           census == Loaded(g, "endpoints")
           index == g[<<"endpoints", 0>>]
           U == UNION {CensusesOf(v) : v \in versions}
<1>1. ReaderOK(reader) /\ reader.pc = "compiled" /\ reader.contract.ok
  BY DEF AnalysisInv, Accepted
<1>2. Compiled(g).ok /\ Held(g) /\ Needed \subseteq DOMAIN g
  BY <1>1 DEF ReaderOK
<1>3. versions \subseteq Seq(AllEvents) /\ AllGenuine(g, versions)
  BY DEF TrafficInv
<1> HIDE DEF g
<1>4. Checked(g)
  BY <1>2, CompiledIf
<1>5. Parted(g[<<"events", 0>>]) /\ Parted(g[<<"endpoints", 0>>])
  BY <1>2 DEF Held, Needed, DataSets
<1>6. Whole(g, "events") /\ Whole(g, "endpoints")
  BY <1>4 DEF Checked
<1>7. \A n \in Nat \ {0} : /\ <<"events", n>> \in DOMAIN g => g[<<"events", n>>] \in Seq(AllEvents)
                           /\ <<"endpoints", n>> \in DOMAIN g =>
                                CensusPartOf(g[<<"endpoints", n>>], versions)
  BY <1>3 DEF AllGenuine, Genuine
<1>8. events \in Seq(AllEvents)
  <2>1. \A n \in Nat \ {0} : <<"events", n>> \in DOMAIN g => g[<<"events", n>>] \in Seq(AllEvents)
    BY <1>7
  <2> QED
    BY <1>5, <1>6, <2>1, LoadedIs
<1>9. \A n \in Nat \ {0} : <<"endpoints", n>> \in DOMAIN g => g[<<"endpoints", n>>] \in Seq(U)
  <2> SUFFICES ASSUME NEW n \in Nat \ {0}, <<"endpoints", n>> \in DOMAIN g
               PROVE  g[<<"endpoints", n>>] \in Seq(U)
    OBVIOUS
  <2>1. PICK v \in versions : g[<<"endpoints", n>>] \in Seq(CensusesOf(v))
    BY <1>7 DEF CensusPartOf
  <2>2. CensusesOf(v) \subseteq U
    OBVIOUS
  <2> HIDE DEF U
  <2> QED
    BY <2>1, <2>2
<1> HIDE DEF U
<1>10. /\ census \in Seq(U)
       /\ \A i \in DOMAIN index.parts :
            \E n \in Nat \ {0} : /\ PartFile("endpoints", index, i) = <<"endpoints", n>>
                                 /\ <<"endpoints", n>> \in DOMAIN g
                                 /\ Range(g[<<"endpoints", n>>]) \subseteq Range(census)
  BY <1>5, <1>6, <1>9, LoadedIs
<1>11. OfCensus(Patterns(census)) /\ EventsAgree(census, events)
  <2>1. EventsAgree(census, events)
    BY <1>4 DEF Checked, EventsIn
  <2>2. U = UNION {CensusesOf(v) : v \in versions}
    BY DEF U
  <2> HIDE DEF census, events
  <2> QED
    BY <1>3, <1>10, <2>1, <2>2, CensusHasPatterns
<1> HIDE DEF census, events, index
<1>12. \A i \in DOMAIN events : Unique(Patterns(census), events[i].path)
  BY <1>11 DEF EventsAgree, MapsUniquely
<1>13. /\ \A i \in DOMAIN events : EndpointPattern(events[i].path) \in Patterns(census)
       /\ \A p : EventsOf(events, Patterns(census), p) = Placed(events, p)
  BY <1>8, <1>11, <1>12, PlacedAre
<1>14. \A c \in Range(census) : Agrees(c, events, Placed(events, c.pattern))
  BY <1>11, <1>13 DEF EventsAgree, Range
<1>15. ASSUME NEW i \in DOMAIN index.parts
       PROVE  \E v \in versions : \A c \in Range(g[PartFile("endpoints", index, i)]) :
                SameCensus(Census(events, c.pattern), Census(v, c.pattern))
  <2>1. PICK n \in Nat \ {0} : /\ PartFile("endpoints", index, i) = <<"endpoints", n>>
                               /\ <<"endpoints", n>> \in DOMAIN g
                               /\ Range(g[<<"endpoints", n>>]) \subseteq Range(census)
    BY <1>10
  <2>2. PICK v \in versions : g[<<"endpoints", n>>] \in Seq(CensusesOf(v))
    BY <1>7, <2>1 DEF CensusPartOf
  <2>3. ASSUME NEW c \in Range(g[<<"endpoints", n>>])
        PROVE  SameCensus(Census(events, c.pattern), Census(v, c.pattern))
    <3>1. c \in CensusesOf(v)
      BY <2>2 DEF Range
    <3>2. c = Census(v, c.pattern)
      BY <3>1, CensusIsOf DEF CensusesOf
    <3>3. Agrees(c, events, Placed(events, c.pattern))
      BY <1>14, <2>1
    <3>4. PICK p : p = c.pattern
      OBVIOUS
    <3>5. c = Census(v, p) /\ Agrees(Census(v, p), events, Placed(events, p))
      BY <3>2, <3>3, <3>4
    <3>6. SameCensus(Census(events, p), Census(v, p))
      BY ONLY <3>5, AgreesIsSame
    <3> QED
      BY <3>4, <3>6
  <2> QED
    BY <2>1, <2>3
<1> QED
  BY <1>13, <1>15 DEF TornIsRefused, g, events, census, index

-----------------------------------------------------------------------------
(* What the tool writes of captures that it can describe is in order.        *)
AllDescribable(c) == \A i \in DOMAIN Gathered(c) : Describable(Gathered(c)[i])

(* Events of describable entries have statuses, methods and paths in order,  *)
LEMMA EventsInOrder ==
  ASSUME NEW c \in Captures, AllDescribable(c), NEW i \in DOMAIN ApplicationEvents(c)
  PROVE  /\ IsStatus(ApplicationEvents(c)[i].status)
         /\ IsMethod(ApplicationEvents(c)[i].method) /\ IsPathname(ApplicationEvents(c)[i].path)
         /\ ApplicationEvents(c)[i].path \in Sent
         /\ \A k \in DOMAIN PatternRules :
              RuleFits(PatternRules[k], ApplicationEvents(c)[i].path)
                => Len(ApplicationEvents(c)[i].path) = Len(PatternRules[k].pattern)
<1>1. PICK entries : entries = Range(Gathered(c))
  OBVIOUS
<1>2. ApplicationEvents(c)[i] \in EventsOfEntries(entries)
  BY <1>1, EventsAreGathered
<1>3. PICK entry \in entries : ApplicationEvents(c)[i] = Event(entry)
  BY <1>2 DEF EventsOfEntries
<1>4. /\ ApplicationEvents(c)[i].status = entry.status /\ ApplicationEvents(c)[i].path = entry.path
      /\ ApplicationEvents(c)[i].method = entry.method
  BY <1>3 DEF Event
<1>5. Describable(entry) /\ entry \in EveryEntry
  BY <1>1, <1>3, GatheredIsSeq DEF AllDescribable, Range
<1>6. entry.path \in Sent
  BY <1>5, EntryPaths DEF Sent
<1>7. /\ IsStatus(entry.status) /\ IsMethod(entry.method) /\ IsPathname(entry.path)
      /\ \A k \in DOMAIN PatternRules :
           RuleFits(PatternRules[k], entry.path) => Len(entry.path) = Len(PatternRules[k].pattern)
  BY <1>5 DEF Describable
<1> QED
  BY <1>4, <1>6, <1>7

(* and so have their forms an action to go to.                               *)
FormInOrder(form) == IsMethod(form.method) /\ form.place = "origin" /\ IsPathname(form.action)

LEMMA FormsInOrder ==
  ASSUME NEW c \in Captures, AllDescribable(c), NEW i \in DOMAIN Forms(c)
  PROVE  FormInOrder(Forms(c)[i]) /\ Forms(c)[i].action \in Seq(Segments)
<1>1. PICK entry \in Range(Gathered(c)) : Forms(c)[i] \in entry.forms
  BY FormsAreSeq
<1>2. Describable(entry) /\ entry \in EveryEntry
  BY <1>1, GatheredIsSeq DEF AllDescribable, Range
<1>3. \A form \in entry.forms : FormInOrder(form)
  BY <1>2 DEF Describable, FormInOrder
<1> QED
  BY <1>1, <1>2, <1>3, FormPaths

(* Each pattern of the census has an event,                                  *)
LEMMA PlacesCount ==
  ASSUME NEW events \in Seq(AllEvents), NEW n \in DOMAIN events,
         NEW p, p = EndpointPattern(events[n].path)
  PROVE  /\ IsFiniteSet(Placed(events, p))
         /\ Cardinality(Placed(events, p)) > 0
<1>1. IsFiniteSet(DOMAIN events)
  <2>1. Len(events) \in Nat /\ DOMAIN events = 1 .. Len(events)
    OBVIOUS
  <2> QED
    BY <2>1, FS_Interval
<1>2. Placed(events, p) \subseteq DOMAIN events /\ n \in Placed(events, p)
  BY DEF Placed
<1>3. IsFiniteSet(Placed(events, p))
  BY <1>1, <1>2, FS_Subset
<1>4. Cardinality(Placed(events, p)) \in Nat /\ Cardinality(Placed(events, p)) # 0
  BY <1>2, <1>3, FS_CardinalityType, FS_EmptySet
<1> QED
  BY <1>3, <1>4

(* and its counts add up,                                                    *)
LEMMA CensusSums ==
  ASSUME NEW events \in Seq(AllEvents), NEW n \in DOMAIN events,
         NEW p, p = EndpointPattern(events[n].path)
  PROVE  /\ Census(events, p).count > 0
         /\ SumOver(Census(events, p).methods) = Census(events, p).count
         /\ SumOver(Census(events, p).statuses) = Census(events, p).count
         /\ DOMAIN Census(events, p).statuses = {events[i].status : i \in Placed(events, p)}
         /\ DOMAIN Census(events, p).methods = {events[i].method : i \in Placed(events, p)}
<1>1. PICK c, seen : c = Census(events, p) /\ seen = Placed(events, p)
  OBVIOUS
<1>2. /\ c.count = Cardinality(seen)
      /\ c.methods = [x \in {events[i].method : i \in seen} |-> Cardinality({i \in seen : events[i].method = x})]
      /\ c.statuses = [x \in {events[i].status : i \in seen} |-> Cardinality({i \in seen : events[i].status = x})]
  BY <1>1, CensusPlaces DEF Methods, Statuses
<1>3. IsFiniteSet(seen) /\ Cardinality(seen) > 0
  BY <1>1, PlacesCount
<1>4. SumOver(c.methods) = Cardinality(seen)
  <2>1. PICK v : v = [i \in seen |-> events[i].method]
    OBVIOUS
  <2>2. PICK f : f = c.methods
    OBVIOUS
  <2>3. {events[i].method : i \in seen} = {v[i] : i \in seen}
        /\ \A x : {i \in seen : events[i].method = x} = {i \in seen : v[i] = x}
    BY <2>1
  <2>4. f = [x \in {v[i] : i \in seen} |-> Cardinality({i \in seen : v[i] = x})]
    BY <1>2, <2>2, <2>3
  <2>5. SumOver(f) = Cardinality(seen)
    BY ONLY <1>3, <2>4, SumIsCount
  <2> QED
    BY <2>2, <2>5
<1>5. SumOver(c.statuses) = Cardinality(seen)
  <2>1. PICK v : v = [i \in seen |-> events[i].status]
    OBVIOUS
  <2>2. PICK f : f = c.statuses
    OBVIOUS
  <2>3. {events[i].status : i \in seen} = {v[i] : i \in seen}
        /\ \A x : {i \in seen : events[i].status = x} = {i \in seen : v[i] = x}
    BY <2>1
  <2>4. f = [x \in {v[i] : i \in seen} |-> Cardinality({i \in seen : v[i] = x})]
    BY <1>2, <2>2, <2>3
  <2>5. SumOver(f) = Cardinality(seen)
    BY ONLY <1>3, <2>4, SumIsCount
  <2> QED
    BY <2>2, <2>5
<1>6. /\ DOMAIN c.statuses = {events[i].status : i \in seen}
      /\ DOMAIN c.methods = {events[i].method : i \in seen}
  BY <1>2
<1> QED
  BY <1>1, <1>2, <1>3, <1>4, <1>5, <1>6

(* so that no endpoint of a generation is refused.                           *)
LEMMA EndpointsAddUp ==
  ASSUME NEW c \in Captures, AllDescribable(c)
  PROVE  CensusAddsUp(Endpoints(c))
<1>1. PICK census, events : census = Endpoints(c) /\ events = ApplicationEvents(c)
  OBVIOUS
<1>2. /\ events \in Seq(AllEvents)
      /\ \A i, j \in DOMAIN census : census[i].pattern = census[j].pattern => i = j
      /\ \A i \in DOMAIN census : census[i] \in CensusesOf(events)
      /\ \A i \in DOMAIN events :
           /\ IsStatus(events[i].status) /\ IsMethod(events[i].method)
           /\ events[i].path \in Sent /\ IsPathname(events[i].path)
  BY <1>1, EventsAreSeq, EndpointsAre, EventsInOrder
<1>3. ASSUME NEW i \in DOMAIN census
      PROVE  /\ IsPathname(census[i].pattern)
             /\ census[i].count > 0
             /\ SumOver(census[i].methods) = census[i].count
             /\ SumOver(census[i].statuses) = census[i].count
             /\ \A m \in DOMAIN census[i].methods : IsMethod(m)
             /\ \A s \in DOMAIN census[i].statuses : IsStatus(s)
  <2>1. PICK n \in DOMAIN events : census[i] = Census(events, EndpointPattern(events[n].path))
    BY <1>2 DEF CensusesOf
  <2>2. PICK p : p = EndpointPattern(events[n].path)
    OBVIOUS
  <2>3. /\ Census(events, p).count > 0
        /\ SumOver(Census(events, p).methods) = Census(events, p).count
        /\ SumOver(Census(events, p).statuses) = Census(events, p).count
        /\ DOMAIN Census(events, p).statuses = {events[k].status : k \in Placed(events, p)}
        /\ DOMAIN Census(events, p).methods = {events[k].method : k \in Placed(events, p)}
    BY <1>2, <2>2, CensusSums
  <2>4. /\ \A s \in DOMAIN Census(events, p).statuses : IsStatus(s)
        /\ \A m \in DOMAIN Census(events, p).methods : IsMethod(m)
    BY <1>2, <2>3 DEF Placed
  <2>5. IsPathname(p) /\ Census(events, p).pattern = p
    BY <1>2, <2>2, PatternIsPathname, CensusIsOf
  <2> QED
    BY <2>1, <2>2, <2>3, <2>4, <2>5
<1>4. CensusAddsUp(census)
  BY <1>2, <1>3 DEF CensusAddsUp
<1> QED
  BY <1>1, <1>4

(* The endpoints of a generation have the patterns of its events.            *)
LEMMA EndpointsHavePatterns ==
  ASSUME NEW c \in Captures
  PROVE  /\ OfCensus(Patterns(Endpoints(c)))
         /\ \A n \in DOMAIN ApplicationEvents(c) :
              EndpointPattern(ApplicationEvents(c)[n].path) \in Patterns(Endpoints(c))
<1>1. PICK census, events : census = Endpoints(c) /\ events = ApplicationEvents(c)
  OBVIOUS
<1>2. /\ events \in Seq(AllEvents)
      /\ \A i \in DOMAIN census : census[i] \in CensusesOf(events)
      /\ \A n \in DOMAIN events : \E i \in DOMAIN census :
           census[i].pattern = EndpointPattern(events[n].path)
  BY <1>1, EventsAreSeq, EndpointsAre
<1>3. Patterns(census) = {census[i].pattern : i \in DOMAIN census}
  BY DEF Patterns, Image
<1>4. ASSUME NEW i \in DOMAIN census
      PROVE  \E path \in Sent : census[i].pattern = EndpointPattern(path)
  <2>1. PICK n \in DOMAIN events : census[i] = Census(events, EndpointPattern(events[n].path))
    BY <1>2 DEF CensusesOf
  <2>2. events[n] \in AllEvents
    BY <1>2
  <2>3. events[n].path \in Sent
    BY <2>2, EventPaths
  <2>4. Census(events, EndpointPattern(events[n].path)).pattern = EndpointPattern(events[n].path)
    BY ONLY CensusIsOf
  <2> QED
    BY <2>1, <2>3, <2>4
<1>5. OfCensus(Patterns(census))
  BY <1>3, <1>4 DEF OfCensus
<1> QED
  BY <1>1, <1>2, <1>3, <1>5

(* Endpoints and events of one generation agree (_endpoint_families).        *)
LEMMA EventsAndEndpointsAgree ==
  ASSUME NEW c \in Captures, AllDescribable(c)
  PROVE  EventsAgree(Endpoints(c), ApplicationEvents(c))
<1>1. PICK census, events, P : census = Endpoints(c) /\ events = ApplicationEvents(c)
                               /\ P = Patterns(census)
  OBVIOUS
<1>2. /\ events \in Seq(AllEvents) /\ OfCensus(P)
      /\ \A i \in DOMAIN census : census[i] \in CensusesOf(events)
  BY <1>1, EventsAreSeq, EndpointsAre, EndpointsHavePatterns
<1>3. ASSUME NEW i \in DOMAIN events
      PROVE  /\ IsStatus(events[i].status) /\ Unique(P, events[i].path)
             /\ IsMethod(events[i].method) /\ IsPathname(events[i].path)
  <2>1. /\ IsStatus(events[i].status) /\ events[i].path \in Sent
        /\ IsMethod(events[i].method) /\ IsPathname(events[i].path)
        /\ EndpointPattern(events[i].path) \in P
        /\ \A k \in DOMAIN PatternRules :
             RuleFits(PatternRules[k], events[i].path)
               => Len(events[i].path) = Len(PatternRules[k].pattern)
    BY <1>1, EventsInOrder, EndpointsHavePatterns
  <2>2. Best(P, events[i].path) = {EndpointPattern(events[i].path)}
    BY <1>2, <2>1, PatternIsBest
  <2>3. Cardinality({EndpointPattern(events[i].path)}) = 1
    BY FS_Singleton
  <2> QED
    BY <2>1, <2>2, <2>3 DEF Unique
<1>4. \A p : EventsOf(events, P, p) = Placed(events, p)
  BY <1>2, <1>3, PlacedAre
<1>5. ASSUME NEW i \in DOMAIN census
      PROVE  Agrees(census[i], events, EventsOf(events, P, census[i].pattern))
  <2>1. PICK n \in DOMAIN events : census[i] = Census(events, EndpointPattern(events[n].path))
    BY <1>2 DEF CensusesOf
  <2>2. PICK p : p = EndpointPattern(events[n].path)
    OBVIOUS
  <2>3. Agrees(Census(events, p), events, Placed(events, p)) /\ Census(events, p).pattern = p
    BY AgreesWithItself, CensusIsOf
  <2> QED
    BY <1>4, <2>1, <2>2, <2>3
<1>6. EventsAgree(census, events)
  BY <1>1, <1>3, <1>5 DEF EventsAgree, MapsUniquely
<1> QED
  BY <1>1, <1>6

(* What was written to the end and read so is accepted.                      *)
LEMMA GeneratedAccepted == AnalysisInv /\ TrafficInv => GeneratedCompiles
<1> SUFFICES ASSUME AnalysisInv, TrafficInv,
                    reader.pc = "compiled",
                    \A w \in Range(Generation(captures)) :
                      w.file \in DOMAIN reader.got /\ reader.got[w.file] = w.content,
                    ApplicationEvents(captures) # <<>>, Forms(captures) # <<>>,
                    \A i \in DOMAIN Gathered(captures) : Describable(Gathered(captures)[i]),
                    \A op \in Range(reader.got[OperationsFile].items) : InOrder(op),
                    reader.got[CatalogFile] = NoEdits[CatalogFile]
             PROVE  reader.contract.ok
  BY DEF GeneratedCompiles
<1> DEFINE g == reader.got
           c == captures
<1>1. captures \in Captures /\ ReaderOK(reader) /\ AllDescribable(c)
  BY DEF AnalysisInv, AllDescribable
<1>2. reader.contract = Compiled(g) /\ Held(g) /\ Needed \subseteq DOMAIN g
  BY <1>1 DEF ReaderOK
<1>3. WrittenTo(g, "events", ApplicationEvents(c)) /\ WrittenTo(g, "endpoints", Endpoints(c))
      /\ WrittenTo(g, "forms", Forms(c))
  BY <1>1, GenerationHas DEF WrittenTo
<1> HIDE DEF g, c
<1>4. /\ ApplicationEvents(c) \in Seq(AllEvents) /\ Endpoints(c) \in Seq(Range(Endpoints(c)))
      /\ Forms(c) \in Seq(AllForms)
      /\ ApplicationEvents(c) # <<>> /\ Endpoints(c) # <<>> /\ Forms(c) # <<>>
  BY <1>1, EventsAreSeq, EndpointsAre, FormsAreSeq DEF c
<1>5. Whole(g, "events") /\ Loaded(g, "events") = ApplicationEvents(c)
  BY <1>3, <1>4, WrittenLoads
<1>6. Whole(g, "endpoints") /\ Loaded(g, "endpoints") = Endpoints(c)
  BY <1>3, <1>4, WrittenLoads
<1>7. Whole(g, "forms") /\ Loaded(g, "forms") = Forms(c)
  BY <1>3, <1>4, WrittenLoads
<1>8. CensusAddsUp(Loaded(g, "endpoints")) /\ EventsAgree(Loaded(g, "endpoints"), EventsIn(g))
  BY <1>1, <1>5, <1>6, EndpointsAddUp, EventsAndEndpointsAgree DEF EventsIn, c
<1>9. OfCensus(CensusOf(g))
  BY <1>1, <1>6, EndpointsHavePatterns DEF CensusOf, c
<1>10. ASSUME NEW i \in DOMAIN FormsIn(g) PROVE FormAccepted(CensusOf(g), FormsIn(g)[i])
  <2>1. FormInOrder(FormsIn(g)[i]) /\ FormsIn(g)[i].action \in Seq(Segments)
    BY <1>1, <1>7, FormsInOrder DEF FormsIn, c
  <2> QED
    BY <1>9, <2>1, NotAmbiguous DEF FormAccepted, FormInOrder
<1>11. ASSUME NEW i \in DOMAIN ListedIn(g) PROVE OperationAccepted(CensusOf(g), ListedIn(g)[i])
  <2>1. ListedIn(g)[i] \in OperationEdits
    BY <1>2 DEF Held, Needed, ListedIn
  <2>2. InOrder(ListedIn(g)[i])
    BY DEF ListedIn, Range, g
  <2>3. ListedIn(g)[i].path \in Seq(Segments)
    BY <2>1, EditPaths
  <2>4. ~Ambiguous(CensusOf(g), ListedIn(g)[i].path)
    BY <1>9, <2>3, NotAmbiguous
  <2> QED
    BY <2>2, <2>4 DEF OperationAccepted, InOrder
<1>12. PostsAddUp(g[OperationsFile])
  BY <1>2 DEF Needed, TrafficInv, AllGenuine, Genuine, g
<1>13. CatalogIn(g) = <<>> /\ CatalogAddsUp(g[CatalogFile])
  <2>1. g[CatalogFile] = [count |-> 0, items |-> <<>>]
    BY DEF NoEdits, OperationsFile, CatalogFile, g
  <2> QED
    BY <2>1 DEF CatalogIn, CatalogAddsUp
<1>14. \A d \in {"endpoints", "events", "forms"} : Whole(g, d)
  BY <1>5, <1>6, <1>7
<1>15. Checked(g)
  BY <1>8, <1>10, <1>11, <1>12, <1>13, <1>14 DEF Checked
<1> QED
  BY <1>2, <1>15, CompiledIf

(* What the tool has written is accepted when it is whole and only then: a   *)
(* contract's events, part for part of the census, are those of one          *)
(* generation, and a generation that was read whole is not refused, wherever *)
(* the tool stopped and whatever the curator edited meanwhile                *)
(* (_partition_manifest, _endpoint_families, write_dataset).  It says        *)
(* nothing of whose forms a contract has: nothing in the code does.          *)
THEOREM WholeIsCompiledTornIsNot == Spec => []WholeOrRefused
<1>1. AnalysisInv /\ TrafficInv => WholeOrRefused
  BY TornRefused, GeneratedAccepted DEF WholeOrRefused
<1> QED
  BY <1>1, AnalysisHolds, TrafficHolds, PTL

===============================================================================
