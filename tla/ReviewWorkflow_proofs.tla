------------------------ MODULE ReviewWorkflow_proofs ------------------------
(***************************************************************************)
(* Proofs about the reviews, for any runs, candidates, capacities and      *)
(* snapshots.  The arbitration is a recursive function over the rank: what *)
(* it gives is shown by taking the smallest rank at which a fact fails.    *)
(* The rest is an invariant about the holder of the lease: what it has     *)
(* read or been given still fits, because only the holder adds intents.    *)
(***************************************************************************)
EXTENDS ReviewWorkflow, FiniteSetTheorems, WellFoundedInduction, TLAPS

-----------------------------------------------------------------------------
(* Sums *)

UnitSet(a, S) == UNION {{i} \X (1..a[i]) : i \in S}

LEMMA AmountIsFinite ==
    ASSUME NEW i, NEW n \in Nat
    PROVE  IsFiniteSet({i} \X (1..n)) /\ Cardinality({i} \X (1..n)) = n
<1>1. IsFiniteSet({i}) /\ Cardinality({i}) = 1
  BY FS_Singleton
<1>2. n \in Int /\ 1 \in Int
  OBVIOUS
<1>3. IsFiniteSet(1..n) /\ Cardinality(1..n) = IF 1 > n THEN 0 ELSE n - 1 + 1
  BY <1>2, FS_Interval
<1>4. Cardinality(1..n) = n
  BY <1>3
<1>5. /\ IsFiniteSet({i} \X (1..n))
      /\ Cardinality({i} \X (1..n)) = Cardinality({i}) * Cardinality(1..n)
  BY <1>1, <1>3, FS_Product
<1> QED
  BY <1>1, <1>4, <1>5

LEMMA UnitsAreFinite ==
    ASSUME NEW S, IsFiniteSet(S), NEW a, \A i \in S : a[i] \in Nat
    PROVE  IsFiniteSet(UnitSet(a, S)) /\ SumOver(a, S) \in Nat
<1> DEFINE T == {{i} \X (1..a[i]) : i \in S}
           f == [i \in S |-> {i} \X (1..a[i])]
<1>1. f \in Surjection(S, T)
  BY DEF Surjection
<1>2. IsFiniteSet(T)
  <2> HIDE DEF f, T
  <2> QED
    BY <1>1, FS_Surjection
<1>3. ASSUME NEW t \in T PROVE IsFiniteSet(t)
  <2>1. PICK i \in S : t = {i} \X (1..a[i])
    OBVIOUS
  <2> QED
    BY <2>1, AmountIsFinite
<1>4. IsFiniteSet(UNION T)
  <2> HIDE DEF T
  <2> QED
    BY <1>2, <1>3, FS_UNION
<1>5. UnitSet(a, S) = UNION T
  BY DEF UnitSet
<1> QED
  BY <1>4, <1>5, FS_CardinalityType DEF SumOver, UnitSet

(* The units of two disjoint sets are counted apart. *)
LEMMA SumOfTwo ==
    ASSUME NEW S, IsFiniteSet(S), NEW T, IsFiniteSet(T), S \cap T = {},
           NEW a, \A i \in S \cup T : a[i] \in Nat
    PROVE  SumOver(a, S \cup T) = SumOver(a, S) + SumOver(a, T)
<1>1. /\ IsFiniteSet(UnitSet(a, S)) /\ SumOver(a, S) \in Nat
      /\ IsFiniteSet(UnitSet(a, T)) /\ SumOver(a, T) \in Nat
  BY UnitsAreFinite
<1>2. UnitSet(a, S \cup T) = UnitSet(a, S) \cup UnitSet(a, T)
  BY DEF UnitSet
<1>3. UnitSet(a, S) \cap UnitSet(a, T) = {}
  <2> SUFFICES ASSUME NEW x \in UnitSet(a, S), x \in UnitSet(a, T) PROVE FALSE
    OBVIOUS
  <2>1. PICK i \in S : x \in {i} \X (1..a[i])
    BY DEF UnitSet
  <2>2. PICK j \in T : x \in {j} \X (1..a[j])
    BY DEF UnitSet
  <2> QED
    BY <2>1, <2>2
<1>4. Cardinality(UnitSet(a, S) \cup UnitSet(a, T)) =
          Cardinality(UnitSet(a, S)) + Cardinality(UnitSet(a, T)) - Cardinality({})
  BY <1>1, <1>3, FS_Union
<1>5. Cardinality({}) = 0
  BY FS_EmptySet
<1>6. SumOver(a, S \cup T) = Cardinality(UnitSet(a, S) \cup UnitSet(a, T))
  BY <1>2 DEF SumOver, UnitSet
<1>7. SumOver(a, S \cup T) = SumOver(a, S) + SumOver(a, T) - 0
  BY <1>4, <1>5, <1>6 DEF SumOver, UnitSet
<1> QED
  BY <1>1, <1>7

LEMMA SumOfOne ==
    ASSUME NEW i, NEW a, a[i] \in Nat
    PROVE  SumOver(a, {i}) = a[i]
<1>1. UnitSet(a, {i}) = {i} \X (1..a[i])
  <2>1. {{k} \X (1..a[k]) : k \in {i}} = {{i} \X (1..a[i])}
    OBVIOUS
  <2>2. UNION {{i} \X (1..a[i])} = {i} \X (1..a[i])
    OBVIOUS
  <2> QED
    BY <2>1, <2>2 DEF UnitSet
<1> QED
  BY <1>1, AmountIsFinite DEF SumOver, UnitSet

LEMMA SumOfSame ==
    ASSUME NEW S, NEW a, NEW b, \A i \in S : a[i] = b[i]
    PROVE  SumOver(a, S) = SumOver(b, S)
<1>1. {{i} \X (1..a[i]) : i \in S} = {{i} \X (1..b[i]) : i \in S}
  OBVIOUS
<1> QED
  BY <1>1 DEF SumOver, UnitSet

(* One amount changes. *)
LEMMA SumOfChanged ==
    ASSUME NEW S, IsFiniteSet(S), NEW j \in S, NEW a, NEW b,
           \A i \in S : a[i] \in Nat /\ b[i] \in Nat,
           \A i \in S \ {j} : a[i] = b[i]
    PROVE  /\ SumOver(a, S) \in Nat /\ SumOver(a, S) >= a[j]
           /\ SumOver(b, S) = SumOver(a, S) - a[j] + b[j]
<1> DEFINE R == S \ {j}
<1>1. IsFiniteSet(R) /\ IsFiniteSet({j}) /\ R \cap {j} = {} /\ R \cup {j} = S
  <2>1. IsFiniteSet(R)
    BY FS_RemoveElement
  <2>2. IsFiniteSet({j})
    BY FS_Singleton
  <2> QED
    BY <2>1, <2>2
<1>2. \A i \in R \cup {j} : a[i] \in Nat /\ b[i] \in Nat
  OBVIOUS
<1>3. \A i \in R : a[i] = b[i]
  OBVIOUS
<1> HIDE DEF R
<1>4. SumOver(a, R) \in Nat
  BY <1>1, <1>2, UnitsAreFinite
<1>5. SumOver(a, R) = SumOver(b, R)
  BY <1>3, SumOfSame
<1>6. SumOver(a, {j}) = a[j] /\ SumOver(b, {j}) = b[j]
  BY SumOfOne
<1>7. SumOver(a, R \cup {j}) = SumOver(a, R) + SumOver(a, {j})
  BY <1>1, <1>2, SumOfTwo
<1>8. SumOver(b, R \cup {j}) = SumOver(b, R) + SumOver(b, {j})
  BY <1>1, <1>2, SumOfTwo
<1>9. R \cup {j} = S /\ a[j] \in Nat /\ b[j] \in Nat
  BY <1>1
<1>10. /\ SumOver(a, S) = SumOver(a, R) + a[j]
       /\ SumOver(b, S) = SumOver(a, R) + b[j]
  BY <1>5, <1>6, <1>7, <1>8, <1>9
<1> QED
  BY <1>4, <1>9, <1>10

(* What is nothing need not be counted. *)
LEMMA SumOfSome ==
    ASSUME NEW S, NEW T, T \subseteq S, NEW a, NEW b,
           \A i \in T : a[i] = b[i], \A i \in S \ T : b[i] = 0
    PROVE  SumOver(a, T) = SumOver(b, S)
<1>1. UnitSet(a, T) = UnitSet(b, S)
  <2>1. \A i \in S \ T : {i} \X (1..b[i]) = {}
    OBVIOUS
  <2>2. \A i \in T : {i} \X (1..a[i]) = {i} \X (1..b[i])
    OBVIOUS
  <2> QED
    BY <2>1, <2>2 DEF UnitSet
<1> QED
  BY <1>1 DEF SumOver, UnitSet

LEMMA SumOfNone == ASSUME NEW a PROVE SumOver(a, {}) = 0
<1>1. UNION {{i} \X (1..a[i]) : i \in {}} = {}
  OBVIOUS
<1> QED
  BY <1>1, FS_EmptySet DEF SumOver

(* A part of a sum is not more than the sum. *)
LEMMA SumOfPart ==
    ASSUME NEW S, IsFiniteSet(S), NEW T, T \subseteq S, NEW a, \A i \in S : a[i] \in Nat
    PROVE  SumOver(a, T) <= SumOver(a, S) /\ SumOver(a, T) \in Nat /\ SumOver(a, S) \in Nat
<1> DEFINE R == S \ T
<1>1. IsFiniteSet(T) /\ IsFiniteSet(R)
  BY FS_Subset
<1>2. T \cap R = {} /\ T \cup R = S
  OBVIOUS
<1>3. \A i \in T \cup R : a[i] \in Nat
  OBVIOUS
<1> HIDE DEF R
<1>4. SumOver(a, T) \in Nat /\ SumOver(a, R) \in Nat
  BY <1>1, <1>3, UnitsAreFinite
<1>5. SumOver(a, T \cup R) = SumOver(a, T) + SumOver(a, R)
  BY <1>1, <1>2, <1>3, SumOfTwo
<1>6. SumOver(a, S) = SumOver(a, T \cup R)
  BY <1>2, Zenon
<1> QED
  BY <1>4, <1>5, <1>6

(* An element joins the sum. *)
LEMMA SumOfMore ==
    ASSUME NEW S, IsFiniteSet(S), NEW j, j \notin S, NEW a, NEW b,
           \A i \in S : a[i] \in Nat /\ b[i] = a[i], b[j] \in Nat
    PROVE  /\ SumOver(a, S) \in Nat /\ IsFiniteSet(S \cup {j})
           /\ SumOver(b, S \cup {j}) = SumOver(a, S) + b[j]
<1>1. IsFiniteSet({j}) /\ S \cap {j} = {}
  BY FS_Singleton
<1>2. SumOver(b, S \cup {j}) = SumOver(b, S) + SumOver(b, {j})
  BY <1>1, SumOfTwo
<1>3. SumOver(b, {j}) = b[j]
  BY SumOfOne
<1>4. SumOver(b, S) = SumOver(a, S)
  BY SumOfSame
<1>5. SumOver(a, S) \in Nat
  BY UnitsAreFinite
<1>6. IsFiniteSet(S \cup {j})
  BY FS_AddElement
<1> QED
  BY <1>2, <1>3, <1>4, <1>5, <1>6

-----------------------------------------------------------------------------
(* The rank *)

LEMMA Smallest ==
    ASSUME NEW T, T \subseteq Nat, T # {}
    PROVE  \E n \in T : \A m \in T : n <= m
<1> DEFINE R == {ss \in Nat \X Nat : ss[1] < ss[2]}
<1>1. OpToRel(<, Nat) = R
  BY Zenon DEF OpToRel
<1>2. IsWellFoundedOn(R, Nat)
  BY <1>1, NatLessThanWellFounded, Zenon
<1>3. \A m, n \in Nat : m < n => <<m, n>> \in R
  OBVIOUS
<1> HIDE DEF R
<1>4. PICK n \in T : \A m \in T : ~(<<m, n>> \in R)
  BY <1>2, WFMin, Zenon
<1>5. ASSUME NEW m \in T PROVE n <= m
  <2>1. m \in Nat /\ n \in Nat
    OBVIOUS
  <2>2. ~(<<m, n>> \in R)
    BY <1>4
  <2>3. ~(m < n)
    BY <1>3, <2>1, <2>2, Zenon
  <2> QED
    BY <2>1, <2>3
<1> QED
  BY <1>5

(* The first row of a set is one of the set. *)
LEMMA FirstIsIn ==
    ASSUME ReviewConstants, NEW C, C \subseteq Candidates, C # {}
    PROVE  First(C) \in C
<1> DEFINE N == Len(RankOrder)
           T == {i \in 1..N : RankOrder[i] \in C}
           P(i) == RankOrder[i] \in C /\ \A j \in 1..N : RankOrder[j] \in C => i <= j
<1>1. T \subseteq Nat /\ T # {}
  <2>1. T \subseteq Nat
    OBVIOUS
  <2>2. PICK c \in C : c \in Candidates
    OBVIOUS
  <2>3. \E i \in 1..N : RankOrder[i] = c
    BY <2>2 DEF ReviewConstants
  <2> QED
    BY <2>1, <2>2, <2>3
<1>2. PICK i \in T : \A j \in T : i <= j
  <2> HIDE DEF T
  <2> QED
    BY <1>1, Smallest
<1>3. i \in 1..N /\ P(i)
  BY <1>2
<1>4. P(CHOOSE k \in 1..N : P(k))
  BY <1>3
<1> QED
  BY <1>4 DEF First

-----------------------------------------------------------------------------
(* The arbitration *)

After(s, ctx, need, i) ==
    IF RankOrder[i] \in DOMAIN need THEN Arbitrate(s, ctx, RankOrder[i], need[RankOrder[i]]) ELSE s

Prefix(f, ctx, need, n) ==
    f = [i \in 0..n |-> IF i = 0 THEN Start(ctx) ELSE After(f[i - 1], ctx, need, i)]

(* The recursive definition defines the loop. *)
LEMMA SharedUnfolds ==
    ASSUME NEW ctx, NEW need, Len(RankOrder) \in Nat
    PROVE  Prefix(Shared(ctx, need), ctx, need, Len(RankOrder))
<1> DEFINE N == Len(RankOrder)
           T == {n \in Nat : \A f : ~Prefix(f, ctx, need, n)}
<1>1. T = {}
  <2> SUFFICES ASSUME T # {} PROVE FALSE
    OBVIOUS
  <2>1. PICK n \in T : \A m \in T : n <= m
    BY Smallest, Zenon
  <2>2. n # 0
    <3> SUFFICES ASSUME n = 0 PROVE FALSE
      OBVIOUS
    <3> DEFINE g == [i \in 0..0 |-> Start(ctx)]
    <3>1. Prefix(g, ctx, need, 0)
      BY DEF Prefix
    <3> QED
      BY <2>1, <3>1
  <2>3. n - 1 \in Nat /\ n - 1 \notin T
    BY <2>1, <2>2
  <2>4. PICK f : Prefix(f, ctx, need, n - 1)
    BY <2>3
  <2> DEFINE g == [i \in 0..n |-> IF i = n THEN After(f[n - 1], ctx, need, n) ELSE f[i]]
  <2>5. Prefix(g, ctx, need, n)
    <3>1. ASSUME NEW i \in 0..n
          PROVE  g[i] = IF i = 0 THEN Start(ctx) ELSE After(g[i - 1], ctx, need, i)
      <4>1. CASE i = n
        BY <4>1, <2>2, <2>3 DEF Prefix
      <4>2. CASE i # n
        <5>1. i \in 0..(n - 1) /\ (i # 0 => i - 1 \in 0..(n - 1))
          BY <4>2, <2>1
        <5>2. f[i] = IF i = 0 THEN Start(ctx) ELSE After(f[i - 1], ctx, need, i)
          BY <5>1, <2>4 DEF Prefix
        <5>3. i # 0 => i - 1 \in 0..n /\ i - 1 # n
          BY <5>1
        <5> QED
          BY <5>1, <5>2, <5>3, <4>2
      <4> QED
        BY <4>1, <4>2
    <3> HIDE DEF g
    <3>2. g = [i \in 0..n |-> g[i]]
      BY DEF g
    <3> QED
      BY <3>1, <3>2 DEF Prefix
  <2> QED
    BY <2>1, <2>5
<1>2. \E f : Prefix(f, ctx, need, N)
  BY <1>1
<1>3. Shared(ctx, need) = CHOOSE f : Prefix(f, ctx, need, N)
  BY Zenon DEF Shared, Prefix, After
<1> QED
  BY <1>2, <1>3, Zenon

(* A proposal is never given more than it needs or than is available. *)
LEMMA SizedWithin ==
    ASSUME NEW u \in Nat \ {0}, NEW n \in Nat
    PROVE  (n \div u) * u \in 0..n
<1>1. n \div u \in Nat /\ u * (n \div u) <= n
  OBVIOUS
<1> DEFINE q == n \div u
<1>2. q * u = u * q /\ u * q \in Nat
  BY <1>1
<1> QED
  BY <1>1, <1>2

UnitsOf(v) == [c \in DOMAIN v |-> v[c].units]
Gives(v) == {c \in DOMAIN v : v[c].units > 0}
Options(v) == {c \in DOMAIN v : Candidate[c].option}

(* Decisions on candidates, one per symbol: whoever is skipped gets nothing. *)
Verdict(v) ==
    /\ DOMAIN v \subseteq Candidates
    /\ \A c \in DOMAIN v : v[c] \in Decision /\ (v[c].action = "skip" <=> v[c].units = 0)
    /\ \A c, d \in Gives(v) : Candidate[c].symbol = Candidate[d].symbol => c = d

(* The state s of the loop after the first i proposals. *)
Loop(ctx, need, i, s) ==
    /\ s.power \in Nat /\ s.options \in Nat
    /\ DOMAIN s.out = {c \in DOMAIN need : \E j \in 1..i : RankOrder[j] = c}
    /\ Verdict(s.out)
    /\ s.power + SumOver(UnitsOf(s.out), DOMAIN s.out) = ctx.power
    /\ s.options + SumOver(UnitsOf(s.out), Options(s.out)) = ctx.options
    /\ \A c \in Gives(s.out) : Candidate[c].symbol \in s.taken
    /\ \A c \in Gives(s.out) : Candidate[c].symbol \notin ctx.busy

LEMMA VerdictIsFinite ==
    ASSUME ReviewConstants, NEW v, Verdict(v)
    PROVE  /\ IsFiniteSet(DOMAIN v) /\ IsFiniteSet(Options(v)) /\ Options(v) \subseteq DOMAIN v
           /\ \A c \in DOMAIN v : UnitsOf(v)[c] \in Nat /\ v[c].units \in 0..MaxNeed
<1>1. IsFiniteSet(DOMAIN v) /\ IsFiniteSet(Options(v)) /\ Options(v) \subseteq DOMAIN v
  BY FS_Subset DEF ReviewConstants, Verdict, Options
<1>2. ASSUME NEW c \in DOMAIN v PROVE UnitsOf(v)[c] \in Nat /\ v[c].units \in 0..MaxNeed
  BY DEF Verdict, UnitsOf, Decision, ReviewConstants
<1> QED
  BY <1>1, <1>2

(* The ranks before rank i. *)
LEMMA EarlierRank ==
    ASSUME ReviewConstants, NEW i \in 1..Len(RankOrder)
    PROVE  \A j \in 1..(i - 1) : j \in 1..Len(RankOrder) /\ j # i
<1>1. Len(RankOrder) \in Nat
  BY DEF ReviewConstants
<1> QED
  BY <1>1

(* One proposal is decided. *)
LEMMA LoopStep ==
    ASSUME ReviewConstants, NEW ctx, NEW need, NEW i \in 1..Len(RankOrder), NEW s,
           DOMAIN need \subseteq Candidates, \A c \in DOMAIN need : need[c] \in 0..MaxNeed,
           Loop(ctx, need, i - 1, s), RankOrder[i] \in DOMAIN need
    PROVE  Loop(ctx, need, i, Arbitrate(s, ctx, RankOrder[i], need[RankOrder[i]]))
<1> DEFINE c == RankOrder[i]
           n == need[c]
           u == Given(s, ctx, c, n)
           v == s.out
           w == [d \in DOMAIN v \cup {c} |-> IF d = c THEN Decide(n, u) ELSE v[d]]
           opt == Candidate[c].option
           t == [power |-> s.power - u, options |-> IF opt THEN s.options - u ELSE s.options,
                 taken |-> IF u = 0 THEN s.taken ELSE s.taken \cup {Candidate[c].symbol}, out |-> w]
<1>1. /\ MaxNeed \in Nat /\ i \in Nat /\ i >= 1
      /\ c \in Candidates /\ c \in DOMAIN need /\ n \in 0..MaxNeed /\ n \in Nat
  <2>1. MaxNeed \in Nat /\ Len(RankOrder) \in Nat
    BY DEF ReviewConstants
  <2>2. c \in Candidates /\ c \in DOMAIN need /\ n \in 0..MaxNeed
    OBVIOUS
  <2> QED
    BY <2>1, <2>2
<1>2. Arbitrate(s, ctx, c, n) = t
  BY DEF Arbitrate
<1>3. s.power \in Nat /\ s.options \in Nat /\ Verdict(v)
  BY DEF Loop
<1>4. /\ u \in Nat /\ u <= n /\ u <= s.power /\ (opt => u <= s.options)
      /\ u # 0 => Candidate[c].symbol \notin ctx.busy \cup s.taken
  <2>1. CASE Conflicts(s, ctx, c)
    BY <1>1, <1>3, <2>1 DEF Given
  <2>2. CASE ~Conflicts(s, ctx, c)
    <3> DEFINE b == Least(n, Available(s, c))
    <3>1. b \in Nat /\ b <= n /\ b <= s.power /\ (opt => b <= s.options)
      BY <1>1, <1>3 DEF Least, Available
    <3>2. u = (b \div Candidate[c].unit) * Candidate[c].unit
      BY <2>2 DEF Given, sizedResource
    <3>3. Candidate[c].unit \in Nat \ {0}
      BY <1>1 DEF ReviewConstants
    <3> HIDE DEF b, u
    <3>4. u \in 0..b
      BY <3>1, <3>2, <3>3, SizedWithin
    <3>5. u \in Nat /\ u <= n /\ u <= s.power /\ (opt => u <= s.options)
      BY <1>1, <1>3, <3>1, <3>4
    <3> QED
      BY <2>2, <3>5 DEF Conflicts
  <2> QED
    BY <2>1, <2>2
<1>5. c \notin DOMAIN v
  <2>1. \A j \in 1..(i - 1) : j \in 1..Len(RankOrder) /\ j # i
    BY EarlierRank
  <2> QED
    BY <2>1 DEF Loop, ReviewConstants
<1>6. DOMAIN w = {d \in DOMAIN need : \E j \in 1..i : RankOrder[j] = d}
  <2>1. \A j : j \in 1..i <=> j \in 1..(i - 1) \/ j = i
    BY <1>1
  <2>2. DOMAIN v = {d \in DOMAIN need : \E j \in 1..(i - 1) : RankOrder[j] = d}
    BY DEF Loop
  <2>3. DOMAIN w = DOMAIN v \cup {c}
    OBVIOUS
  <2> HIDE DEF w, v
  <2> QED
    BY <1>1, <2>1, <2>2, <2>3
<1>7. /\ w[c] = Decide(n, u) /\ w[c].units = u
      /\ \A d \in DOMAIN v : w[d] = v[d] /\ d # c
      /\ DOMAIN w = DOMAIN v \cup {c}
  BY <1>5 DEF Decide
<1>8. w[c] \in Decision /\ (w[c].action = "skip" <=> w[c].units = 0)
  <2>1. u \in 0..MaxNeed
    <3> HIDE DEF u, n
    <3> QED
      BY <1>1, <1>4
  <2> HIDE DEF u, n, w
  <2> QED
    BY <1>7, <2>1 DEF Decide, Decision
<1> HIDE DEF u, n, w, c, v
<1>9. /\ Gives(w) = IF u = 0 THEN Gives(v) ELSE Gives(v) \cup {c}
      /\ Options(w) = IF opt THEN Options(v) \cup {c} ELSE Options(v)
  BY <1>4, <1>7 DEF Gives, Options
<1>10. \A d \in Gives(v) : d \in DOMAIN v /\ Candidate[d].symbol \in s.taken /\ Candidate[d].symbol \notin ctx.busy
  BY DEF Loop, Gives, v
<1>11. Verdict(w)
  <2>1. DOMAIN w \subseteq Candidates
    BY <1>1, <1>3, <1>7 DEF Verdict
  <2>2. \A d \in DOMAIN w : w[d] \in Decision /\ (w[d].action = "skip" <=> w[d].units = 0)
    BY <1>3, <1>7, <1>8 DEF Verdict
  <2>3. \A d, e \in Gives(w) : Candidate[d].symbol = Candidate[e].symbol => d = e
    BY <1>3, <1>4, <1>9, <1>10 DEF Verdict
  <2> QED
    BY <2>1, <2>2, <2>3 DEF Verdict
<1>12. /\ UnitsOf(w)[c] = u
       /\ \A d \in DOMAIN v : UnitsOf(v)[d] \in Nat /\ UnitsOf(w)[d] = UnitsOf(v)[d]
  BY <1>3, <1>7, VerdictIsFinite DEF UnitsOf
<1>13. /\ IsFiniteSet(DOMAIN v) /\ IsFiniteSet(Options(v)) /\ Options(v) \subseteq DOMAIN v
       /\ SumOver(UnitsOf(v), DOMAIN v) \in Nat /\ SumOver(UnitsOf(v), Options(v)) \in Nat
  <2>1. IsFiniteSet(DOMAIN v) /\ IsFiniteSet(Options(v)) /\ Options(v) \subseteq DOMAIN v
    BY <1>3, VerdictIsFinite
  <2> QED
    BY <1>12, <2>1, UnitsAreFinite
<1>14. SumOver(UnitsOf(w), DOMAIN w) = SumOver(UnitsOf(v), DOMAIN v) + u
  <2> DEFINE D == DOMAIN v
             a == UnitsOf(v)
             b == UnitsOf(w)
  <2>1. IsFiniteSet(D) /\ c \notin D /\ b[c] = u /\ b[c] \in Nat /\ \A d \in D : a[d] \in Nat /\ b[d] = a[d]
    <3> HIDE DEF u, v, w
    <3>1. IsFiniteSet(D) /\ c \notin D
      BY <1>5, <1>13
    <3>2. b[c] = u /\ b[c] \in Nat
      BY <1>4, <1>12
    <3>3. \A d \in D : a[d] \in Nat /\ b[d] = a[d]
      BY <1>12
    <3> QED
      BY <3>1, <3>2, <3>3
  <2>2. DOMAIN w = D \cup {c}
    BY <1>7
  <2> HIDE DEF D, a, b
  <2>3. SumOver(b, D \cup {c}) = SumOver(a, D) + b[c]
    BY <2>1, SumOfMore, ZenonT(40)
  <2> QED
    BY <2>1, <2>2, <2>3 DEF a, b, D
<1>15. SumOver(UnitsOf(w), Options(w)) = SumOver(UnitsOf(v), Options(v)) + IF opt THEN u ELSE 0
  <2>1. CASE opt
    <3>1. c \notin Options(v) /\ Options(w) = Options(v) \cup {c}
      BY <1>5, <1>9, <1>13, <2>1
    <3>2. SumOver(UnitsOf(w), Options(v) \cup {c}) = SumOver(UnitsOf(v), Options(v)) + u
      <4> DEFINE D == Options(v)
                 a == UnitsOf(v)
                 b == UnitsOf(w)
      <4>1. IsFiniteSet(D) /\ c \notin D /\ b[c] = u /\ b[c] \in Nat /\ \A d \in D : a[d] \in Nat /\ b[d] = a[d]
        <5> HIDE DEF u, v, w
        <5>1. IsFiniteSet(D) /\ c \notin D
          BY <1>13, <3>1
        <5>2. b[c] = u /\ b[c] \in Nat
          BY <1>4, <1>12
        <5>3. \A d \in D : a[d] \in Nat /\ b[d] = a[d]
          BY <1>12, <1>13
        <5> QED
          BY <5>1, <5>2, <5>3
      <4> HIDE DEF D, a, b
      <4>2. SumOver(b, D \cup {c}) = SumOver(a, D) + b[c]
        BY <4>1, SumOfMore, ZenonT(40)
      <4> QED
        BY <4>1, <4>2 DEF a, b, D
    <3> QED
      BY <2>1, <3>1, <3>2
  <2>2. CASE ~opt
    <3>1. SumOver(UnitsOf(w), Options(v)) = SumOver(UnitsOf(v), Options(v))
      BY <1>12, <1>13, SumOfSame
    <3> QED
      BY <1>9, <1>13, <2>2, <3>1
  <2> QED
    BY <2>1, <2>2
<1>16. /\ s.power + SumOver(UnitsOf(v), DOMAIN v) = ctx.power
       /\ s.options + SumOver(UnitsOf(v), Options(v)) = ctx.options
  BY DEF Loop, v
<1>17. /\ t.power = s.power - u /\ t.options = (IF opt THEN s.options - u ELSE s.options)
       /\ t.taken = (IF u = 0 THEN s.taken ELSE s.taken \cup {Candidate[c].symbol}) /\ t.out = w
  OBVIOUS
<1> HIDE DEF t, opt
<1>18. /\ t.power \in Nat /\ t.options \in Nat
       /\ t.power + SumOver(UnitsOf(w), DOMAIN w) = ctx.power
  <2>1. t.power \in Nat /\ t.options \in Nat
    BY <1>3, <1>4, <1>17
  <2> QED
    BY <2>1, <1>3, <1>4, <1>13, <1>14, <1>16, <1>17
<1>19. t.options + SumOver(UnitsOf(w), Options(w)) = ctx.options
  BY <1>1, <1>3, <1>4, <1>13, <1>15, <1>16, <1>17
<1>20. \A d \in Gives(w) : Candidate[d].symbol \in t.taken /\ Candidate[d].symbol \notin ctx.busy
  BY <1>4, <1>9, <1>10, <1>17
<1>21. Loop(ctx, need, i, t)
  BY <1>6, <1>11, <1>17, <1>18, <1>19, <1>20 DEF Loop
<1> QED
  BY <1>2, <1>21 DEF c, n

(* What a review is given: a decision for each proposal, within the capital *)
(* and the options buying power it saw, and never a symbol it saw in use.   *)
LEMMA Arbitrated ==
    ASSUME ReviewConstants, NEW ctx, NEW need, ctx.power \in Nat, ctx.options \in Nat,
           DOMAIN need \subseteq Candidates, \A c \in DOMAIN need : need[c] \in 0..MaxNeed
    PROVE  LET v == arbitratePortfolioResources(ctx, need) IN
           /\ DOMAIN v = DOMAIN need /\ Verdict(v)
           /\ SumOver(UnitsOf(v), DOMAIN v) <= ctx.power
           /\ SumOver(UnitsOf(v), Options(v)) <= ctx.options
           /\ \A c \in Gives(v) : Candidate[c].symbol \notin ctx.busy
<1> DEFINE N == Len(RankOrder)
           f == Shared(ctx, need)
           T == {i \in 0..N : ~Loop(ctx, need, i, f[i])}
           v == f[N].out
<1>1. N \in Nat
  BY DEF ReviewConstants
<1>2. /\ f[0] = Start(ctx)
      /\ \A i \in 1..N : i - 1 \in 0..N /\ f[i] = After(f[i - 1], ctx, need, i)
  <2>1. Prefix(f, ctx, need, N)
    BY <1>1, SharedUnfolds
  <2> HIDE DEF f, N
  <2>2. 0 \in 0..N /\ \A i \in 1..N : i \in 0..N /\ i # 0 /\ i - 1 \in 0..N
    BY <1>1
  <2> QED
    BY <2>1, <2>2 DEF Prefix
<1>3. Loop(ctx, need, 0, f[0])
  <2> DEFINE s == Start(ctx)
  <2>1. /\ s.power = ctx.power /\ s.options = ctx.options /\ DOMAIN s.out = {}
    BY DEF Start
  <2> HIDE DEF s
  <2>2. Verdict(s.out) /\ Gives(s.out) = {} /\ Options(s.out) = {}
    BY <2>1 DEF Verdict, Gives, Options
  <2>3. SumOver(UnitsOf(s.out), {}) = 0
    BY SumOfNone
  <2>4. DOMAIN s.out = {c \in DOMAIN need : \E j \in 1..0 : RankOrder[j] = c}
    BY <2>1
  <2>5. /\ s.power + SumOver(UnitsOf(s.out), DOMAIN s.out) = ctx.power
        /\ s.options + SumOver(UnitsOf(s.out), Options(s.out)) = ctx.options
    BY <2>1, <2>2, <2>3
  <2>6. Loop(ctx, need, 0, s)
    BY <2>1, <2>2, <2>4, <2>5 DEF Loop
  <2> QED
    BY <1>2, <2>6 DEF s
<1>4. ASSUME NEW i \in 1..N, Loop(ctx, need, i - 1, f[i - 1]) PROVE Loop(ctx, need, i, f[i])
  <2> HIDE DEF f
  <2>1. CASE RankOrder[i] \in DOMAIN need
    BY <1>2, <1>4, <2>1, LoopStep DEF After
  <2>2. CASE RankOrder[i] \notin DOMAIN need
    <3>1. f[i] = f[i - 1]
      BY <1>2, <2>2 DEF After
    <3>2. \A j : j \in 1..i <=> j \in 1..(i - 1) \/ j = i
      BY <1>1
    <3>3. {c \in DOMAIN need : \E j \in 1..i : RankOrder[j] = c} =
          {c \in DOMAIN need : \E j \in 1..(i - 1) : RankOrder[j] = c}
      BY <2>2, <3>2
    <3> QED
      BY <1>4, <3>1, <3>3 DEF Loop
  <2> QED
    BY <2>1, <2>2
<1>5. T = {}
  <2> SUFFICES ASSUME T # {} PROVE FALSE
    OBVIOUS
  <2>1. T \subseteq Nat
    BY <1>1
  <2>2. PICK i \in T : \A j \in T : i <= j
    <3> HIDE DEF T
    <3> QED
      BY <2>1, Smallest
  <2>3. i # 0
    BY <1>3, <2>2
  <2> HIDE DEF f
  <2>4. i \in 1..N /\ i - 1 \in 0..N /\ ~(i <= i - 1)
    BY <1>1, <2>2, <2>3
  <2>5. Loop(ctx, need, i - 1, f[i - 1])
    BY <2>2, <2>4
  <2> QED
    BY <1>4, <2>2, <2>4, <2>5
<1> HIDE DEF f
<1>6. Loop(ctx, need, N, f[N])
  BY <1>1, <1>5
<1>7. DOMAIN v = DOMAIN need
  BY <1>6 DEF Loop, ReviewConstants
<1>8. Verdict(v) /\ \A c \in Gives(v) : Candidate[c].symbol \notin ctx.busy
  BY <1>6 DEF Loop
<1>9. SumOver(UnitsOf(v), DOMAIN v) \in Nat /\ SumOver(UnitsOf(v), Options(v)) \in Nat
  <2>1. /\ IsFiniteSet(DOMAIN v) /\ IsFiniteSet(Options(v)) /\ Options(v) \subseteq DOMAIN v
        /\ \A c \in DOMAIN v : UnitsOf(v)[c] \in Nat
    BY <1>8, VerdictIsFinite
  <2> HIDE DEF v
  <2> QED
    BY <2>1, UnitsAreFinite
<1>10. /\ f[N].power \in Nat /\ f[N].power + SumOver(UnitsOf(v), DOMAIN v) = ctx.power
       /\ f[N].options \in Nat /\ f[N].options + SumOver(UnitsOf(v), Options(v)) = ctx.options
  BY <1>6 DEF Loop
<1>11. SumOver(UnitsOf(v), DOMAIN v) <= ctx.power /\ SumOver(UnitsOf(v), Options(v)) <= ctx.options
  <2> HIDE DEF v
  <2> QED
    BY <1>9, <1>10
<1>12. v = arbitratePortfolioResources(ctx, need)
  BY DEF arbitratePortfolioResources, f
<1> HIDE DEF v
<1> QED
  BY <1>7, <1>8, <1>11, <1>12

-----------------------------------------------------------------------------
(* The invariant *)

Fields == DOMAIN IdleRun
Pcs == {"idle", "block", "arbitrate", "skip", "review", "intent", "sized", "close", "done"}
Reading == {"block", "arbitrate"}
Writing == {"skip", "review", "intent", "sized"}
Busied == {"created", "reserved", "ordered", "held"}

(* The units of the intents that wait, work or are held. *)
InForce == [k \in Keys |-> IF intents[k].state \in Busied THEN intents[k].units ELSE 0]
OpenUnits == SumOver(InForce, Keys)

(* The rows of a review whose intent may still be inserted. *)
Left(r) ==
    IF run[r].pc = "skip" THEN DOMAIN run[r].verdict
    ELSE IF run[r].pc = "sized" THEN Others(run[r].todo) ELSE run[r].todo

(* The record of a run; a review keeps what it read and was given. *)
RunShape(r) ==
    /\ DOMAIN run[r] = Fields /\ run[r].pc \in Pcs
    /\ run[r].todo \subseteq Candidates
    /\ Verdict(run[r].verdict)
    /\ run[r].ctx.options \in Nat
    /\ SumOver(UnitsOf(run[r].verdict), Options(run[r].verdict)) <= run[r].ctx.options

Picture(r) ==
    run[r].pc \in Reading \cup Writing =>
        /\ r \in EntryRuns
        /\ run[r].ctx.snap \in 1..MaxSnapshots /\ run[r].ctx.version[1] = run[r].ctx.snap
        /\ run[r].ctx.power \in Nat
        /\ DOMAIN run[r].need \subseteq Candidates
        /\ \A c \in DOMAIN run[r].need : run[r].need[c] \in 0..MaxNeed
        /\ run[r].pc \in Reading => DOMAIN run[r].verdict = {}

(* What is written follows the decisions that were recorded. *)
Recorded(r) ==
    run[r].pc \in Writing =>
        /\ DOMAIN run[r].verdict = DOMAIN run[r].need
        /\ run[r].todo \subseteq DOMAIN run[r].verdict
        /\ \A c \in DOMAIN run[r].verdict :
              [arb |-> run[r].ctx.version, cand |-> c, action |-> run[r].verdict[c].action,
               units |-> run[r].verdict[c].units] \in decisions
        /\ run[r].pc # "skip" =>
              run[r].todo # {} /\ \A c \in run[r].todo : run[r].verdict[c].action # "skip"

(* What the holder of the lease read or was given still fits. *)
Fits(r) ==
    Held(r) =>
        /\ run[r].pc \in Reading =>
              /\ OpenUnits + run[r].ctx.power <= Capacity
              /\ \A k \in Pending : Candidate[k[1]].symbol \in run[r].ctx.busy
        /\ run[r].pc \in Writing =>
              /\ OpenUnits + SumOver(UnitsOf(run[r].verdict), Left(r)) <= Capacity
              /\ \A k \in Pending, c \in Left(r) \cap Gives(run[r].verdict) :
                    Candidate[k[1]].symbol # Candidate[c].symbol
        /\ run[r].pc = "intent" => Key(r) \in reviews
        /\ run[r].pc = "close" => \A x \in ActiveCloses : x.job # JobOf[r]

RunInvariant(r) == RunShape(r) /\ Picture(r) /\ Recorded(r) /\ Fits(r)

Tables ==
    /\ stage \in [Candidates -> {"selected", "sized", "blocked", "skipped"}]
    /\ snapshot \in 1..MaxSnapshots
    /\ reviews \subseteq Keys
    /\ intents \in [Keys -> [state : IntentStates, units : 0..MaxNeed]]
    /\ \A d \in decisions : d.cand \in Candidates /\ [action |-> d.action, units |-> d.units] \in Decision
    /\ DOMAIN holder = Jobs /\ \A j \in Jobs : holder[j] \in Runs \cup {"none"}
    /\ DOMAIN run = Runs

Closes ==
    /\ \A x \in closes : DOMAIN x = {"snap", "job", "active"}
    /\ \A x, y \in closes : x.snap = y.snap => x = y
    /\ \A x, y \in ActiveCloses : x.job = y.job => x = y

ReviewInvariant ==
    /\ Tables /\ Closes
    /\ OpenUnits <= Capacity
    /\ OnePendingPerSymbol
    /\ IntentWasApproved
    /\ \A r \in Runs : RunInvariant(r)

-----------------------------------------------------------------------------
(* Sums over the intents *)

LEMMA KeysAreFinite == ASSUME ReviewConstants PROVE IsFiniteSet(Keys)
<1>1. IsFiniteSet(1..MaxSnapshots)
  BY FS_Interval DEF ReviewConstants
<1> QED
  BY <1>1, FS_Product DEF Keys, ReviewConstants

LEMMA OpenUnitsAreNatural ==
    ASSUME ReviewConstants, Tables
    PROVE  /\ \A k \in Keys : intents[k].units \in Nat /\ InForce[k] \in Nat
           /\ OpenUnits \in Nat
<1>1. ASSUME NEW k \in Keys PROVE intents[k].units \in Nat /\ InForce[k] \in Nat
  <2>1. intents[k].units \in 0..MaxNeed /\ MaxNeed \in Nat
    BY DEF Tables, ReviewConstants
  <2> QED
    BY <2>1 DEF InForce
<1>2. OpenUnits \in Nat
  <2> DEFINE a == InForce
  <2> HIDE DEF a
  <2>1. SumOver(a, Keys) \in Nat
    BY <1>1, KeysAreFinite, UnitsAreFinite DEF a
  <2> QED
    BY <2>1 DEF a, OpenUnits
<1> QED
  BY <1>1, <1>2

(* The sums of the source are parts of the one sum of the invariant. *)
LEMMA OpenUnitsAreTheSum ==
    ASSUME ReviewConstants, Tables
    PROVE  /\ Units(Pending \cup Committed) = OpenUnits
           /\ Units(Pending) + Units(Committed) = OpenUnits
           /\ Units(Pending) \in Nat /\ Units(Committed) \in Nat
<1> DEFINE a == [k \in Keys |-> intents[k].units]
<1>1. /\ Pending \subseteq Keys /\ Committed \subseteq Keys /\ Pending \cap Committed = {}
      /\ \A k \in Pending \cup Committed : intents[k].state \in Busied
      /\ \A k \in Keys \ (Pending \cup Committed) : intents[k].state \notin Busied
  BY DEF Pending, Committed, Busied
<1>2. IsFiniteSet(Pending) /\ IsFiniteSet(Committed)
  BY <1>1, KeysAreFinite, FS_Subset
<1>3. \A k \in Keys : a[k] \in Nat
  BY OpenUnitsAreNatural
<1>4. \A k \in Pending \cup Committed : a[k] = InForce[k]
  BY <1>1 DEF InForce
<1>5. \A k \in Keys \ (Pending \cup Committed) : InForce[k] = 0
  BY <1>1 DEF InForce
<1> HIDE DEF a
<1>6. SumOver(a, Pending \cup Committed) = OpenUnits
  <2> DEFINE b == InForce
             T == Pending \cup Committed
  <2>1. T \subseteq Keys /\ (\A k \in T : a[k] = b[k]) /\ \A k \in Keys \ T : b[k] = 0
    BY <1>1, <1>4, <1>5
  <2> HIDE DEF b, T
  <2>2. SumOver(a, T) = SumOver(b, Keys)
    BY <2>1, SumOfSome
  <2> QED
    BY <2>2 DEF OpenUnits, b, T
<1>7. SumOver(a, Pending \cup Committed) = SumOver(a, Pending) + SumOver(a, Committed)
  BY <1>1, <1>2, <1>3, SumOfTwo
<1>8. SumOver(a, Pending) \in Nat /\ SumOver(a, Committed) \in Nat
  BY <1>1, <1>2, <1>3, UnitsAreFinite
<1> QED
  BY <1>6, <1>7, <1>8 DEF Units, a

(* The intent under key k changes. *)
LEMMA OneIntent ==
    ASSUME ReviewConstants, Tables, Tables', NEW k \in Keys, \A q \in Keys \ {k} : intents'[q] = intents[q]
    PROVE  /\ OpenUnits \in Nat /\ OpenUnits' \in Nat /\ OpenUnits >= InForce[k]
           /\ InForce[k] \in Nat /\ InForce'[k] \in Nat
           /\ OpenUnits' = OpenUnits - InForce[k] + InForce'[k]
<1> DEFINE a == InForce
           b == InForce'
<1>1. \A q \in Keys : a[q] \in Nat
  BY OpenUnitsAreNatural
<1>2. \A q \in Keys : b[q] \in Nat
  <2>1. ASSUME NEW q \in Keys PROVE b[q] \in Nat
    <3>1. intents'[q].units \in 0..MaxNeed /\ MaxNeed \in Nat
      BY DEF Tables, ReviewConstants
    <3> QED
      BY <3>1 DEF InForce
  <2> QED
    BY <2>1
<1>3. \A q \in Keys \ {k} : a[q] = b[q]
  BY DEF InForce
<1>4. OpenUnits = SumOver(a, Keys) /\ OpenUnits' = SumOver(b, Keys)
  BY DEF OpenUnits
<1> HIDE DEF a, b
<1>5. /\ SumOver(a, Keys) \in Nat /\ SumOver(a, Keys) >= a[k]
      /\ SumOver(b, Keys) = SumOver(a, Keys) - a[k] + b[k]
  BY <1>1, <1>2, <1>3, KeysAreFinite, SumOfChanged
<1>6. SumOver(b, Keys) \in Nat
  BY <1>2, KeysAreFinite, UnitsAreFinite
<1> QED
  BY <1>1, <1>2, <1>4, <1>5, <1>6 DEF a, b

LEMMA SameIntents ==
    ASSUME intents' = intents
    PROVE  OpenUnits' = OpenUnits /\ Pending' = Pending
BY DEF OpenUnits, InForce, Pending

-----------------------------------------------------------------------------
(* A step of one run leaves the others alone *)

Resting == {"idle", "done"}

LEMMA Bystanders ==
    ASSUME ReviewConstants, ReviewInvariant, NEW Q, Q \subseteq Runs,
           \A q \in Q : run'[q] = run[q],
           decisions \subseteq decisions', reviews \subseteq reviews',
           OpenUnits \in Nat, OpenUnits' \in Nat,
           \A q \in Q : Held(q)' /\ run[q].pc \notin Resting =>
               /\ Held(q)
               /\ q \in EntryRuns => OpenUnits' <= OpenUnits /\ Pending' \subseteq Pending
               /\ \A x \in ActiveCloses' : x \in ActiveCloses \/ x.job # JobOf[q]
    PROVE  \A q \in Q : RunInvariant(q)'
<1> SUFFICES ASSUME NEW q \in Q PROVE RunInvariant(q)'
  OBVIOUS
<1>1. RunInvariant(q) /\ run'[q] = run[q] /\ q \in Runs
  BY DEF ReviewInvariant
<1>2. RunShape(q)'
  BY <1>1 DEF RunInvariant, RunShape
<1>3. Picture(q)'
  BY <1>1 DEF RunInvariant, Picture
<1>4. Recorded(q)'
  BY <1>1 DEF RunInvariant, Recorded
<1>5. Fits(q)'
  <2> SUFFICES ASSUME Held(q)' PROVE Fits(q)'
    BY DEF Fits
  <2>1. CASE run[q].pc \in Resting
    BY <1>1, <2>1 DEF Fits, Resting, Reading, Writing
  <2>2. CASE run[q].pc \notin Resting
    <3>1. /\ Held(q)
          /\ q \in EntryRuns => OpenUnits' <= OpenUnits /\ Pending' \subseteq Pending
          /\ \A x \in ActiveCloses' : x \in ActiveCloses \/ x.job # JobOf[q]
      BY <2>2
    <3>2. Left(q)' = Left(q)
      BY <1>1 DEF Left
    <3>3. CASE run[q].pc \in Reading
      <4>1. q \in EntryRuns /\ run[q].ctx.power \in Nat
        BY <1>1, <3>3 DEF RunInvariant, Picture
      <4>2. /\ OpenUnits + run[q].ctx.power <= Capacity
            /\ \A k \in Pending : Candidate[k[1]].symbol \in run[q].ctx.busy
        BY <1>1, <3>1, <3>3 DEF RunInvariant, Fits
      <4>3. OpenUnits' + run[q].ctx.power <= Capacity
        BY <3>1, <4>1, <4>2 DEF ReviewConstants
      <4> QED
        BY <1>1, <3>1, <3>3, <4>1, <4>2, <4>3 DEF Fits, Reading, Writing
    <3>4. CASE run[q].pc \in Writing
      <4>1. q \in EntryRuns /\ Verdict(run[q].verdict) /\ run[q].todo \subseteq DOMAIN run[q].verdict
        BY <1>1, <3>4 DEF RunInvariant, Picture, RunShape, Recorded
      <4>2. /\ OpenUnits + SumOver(UnitsOf(run[q].verdict), Left(q)) <= Capacity
            /\ \A k \in Pending, c \in Left(q) \cap Gives(run[q].verdict) :
                  Candidate[k[1]].symbol # Candidate[c].symbol
            /\ run[q].pc = "intent" => Key(q) \in reviews
        BY <1>1, <3>1, <3>4 DEF RunInvariant, Fits
      <4>3. SumOver(UnitsOf(run[q].verdict), Left(q)) \in Nat
        <5>1. Left(q) \subseteq DOMAIN run[q].verdict
          BY <4>1 DEF Left, Others
        <5>2. /\ IsFiniteSet(DOMAIN run[q].verdict)
              /\ \A c \in DOMAIN run[q].verdict : UnitsOf(run[q].verdict)[c] \in Nat
          BY <4>1, VerdictIsFinite
        <5> QED
          BY <5>1, <5>2, SumOfPart
      <4>4. OpenUnits' + SumOver(UnitsOf(run[q].verdict), Left(q)) <= Capacity
        BY <3>1, <4>1, <4>2, <4>3 DEF ReviewConstants
      <4>5. run[q].pc = "intent" => Key(q)' \in reviews'
        BY <1>1, <4>2 DEF Key
      <4>6. /\ OpenUnits' + SumOver(UnitsOf(run[q].verdict), Left(q))' <= Capacity
            /\ \A k \in Pending', c \in Left(q)' \cap Gives(run'[q].verdict) :
                  Candidate[k[1]].symbol # Candidate[c].symbol
        BY <1>1, <3>1, <3>2, <4>1, <4>2, <4>4
      <4> QED
        BY <1>1, <3>4, <4>5, <4>6 DEF Fits, Reading, Writing
    <3>5. CASE run[q].pc = "close"
      BY <1>1, <3>1, <3>5 DEF RunInvariant, Fits, Reading, Writing
    <3> QED
      BY <1>1, <2>2, <3>3, <3>4, <3>5 DEF RunInvariant, RunShape, Pcs, Resting, Reading, Writing
  <2> QED
    BY <2>1, <2>2
<1> QED
  BY <1>2, <1>3, <1>4, <1>5 DEF RunInvariant

(* Run r writes nothing but the stages of candidates. *)
LEMMA OwnStep ==
    ASSUME ReviewConstants, ReviewInvariant, NEW r \in Runs,
           UNCHANGED <<snapshot, reviews, intents, decisions, closes, holder>>,
           stage' \in [Candidates -> {"selected", "sized", "blocked", "skipped"}],
           DOMAIN run' = Runs, \A q \in Runs \ {r} : run'[q] = run[q], RunInvariant(r)'
    PROVE  ReviewInvariant'
<1>1. OpenUnits' = OpenUnits /\ Pending' = Pending /\ ActiveCloses' = ActiveCloses
  BY SameIntents DEF ActiveCloses
<1>2. OpenUnits \in Nat /\ OpenUnits' \in Nat
  BY <1>1, OpenUnitsAreNatural DEF ReviewInvariant
<1>3. \A q \in Runs \ {r} : Held(q)' => Held(q)
  BY DEF Held
<1>4. \A q \in Runs \ {r} : RunInvariant(q)'
  <2> DEFINE Q == Runs \ {r}
  <2>1. Q \subseteq Runs /\ \A q \in Q : run'[q] = run[q]
    OBVIOUS
  <2>2. decisions \subseteq decisions' /\ reviews \subseteq reviews'
    OBVIOUS
  <2>3. \A q \in Q : Held(q)' /\ run[q].pc \notin Resting =>
            /\ Held(q)
            /\ q \in EntryRuns => OpenUnits' <= OpenUnits /\ Pending' \subseteq Pending
            /\ \A x \in ActiveCloses' : x \in ActiveCloses \/ x.job # JobOf[q]
    BY <1>1, <1>2, <1>3
  <2> HIDE DEF Q
  <2>4. \A q \in Q : RunInvariant(q)'
    BY <1>2, <2>1, <2>2, <2>3, Bystanders
  <2> QED
    BY <2>4 DEF Q
<1>5. Tables' /\ Closes'
  BY DEF ReviewInvariant, Tables, Closes, ActiveCloses
<1>6. OnePendingPerSymbol'
  BY <1>1 DEF ReviewInvariant, OnePendingPerSymbol
<1>7. IntentWasApproved'
  BY DEF ReviewInvariant, IntentWasApproved
<1>8. OpenUnits' <= Capacity
  BY <1>1 DEF ReviewInvariant
<1> QED
  BY <1>4, <1>5, <1>6, <1>7, <1>8 DEF ReviewInvariant

(* Set(r, s) *)
LEMMA SetFacts ==
    ASSUME ReviewInvariant, NEW r \in Runs, NEW s, run' = [run EXCEPT ![r] = s]
    PROVE  run'[r] = s /\ DOMAIN run' = Runs /\ \A q \in Runs \ {r} : run'[q] = run[q]
BY DEF ReviewInvariant, Tables

(* A record without rows or verdicts that is at pc p. *)
LEMMA RestingRun ==
    ASSUME ReviewConstants, NEW r \in Runs, NEW p \in {"idle", "done", "close"}, NEW ctx,
           ctx.options = 0, run'[r] = [IdleRun EXCEPT !.pc = p, !.ctx = ctx],
           p = "close" => \A x \in ActiveCloses' : x.job # JobOf[r]
    PROVE  RunInvariant(r)'
<1> DEFINE s == run'[r]
<1>1. /\ s.pc = p /\ s.todo = {} /\ s.verdict = <<>> /\ s.ctx.options = 0
      /\ DOMAIN s = Fields
  BY DEF IdleRun, Fields
<1>2. DOMAIN s.verdict = {}
  BY <1>1
<1> HIDE DEF s
<1>3. Verdict(s.verdict) /\ Options(s.verdict) = {}
  BY <1>2 DEF Verdict, Gives, Options
<1>4. SumOver(UnitsOf(s.verdict), Options(s.verdict)) = 0
  BY <1>3, SumOfNone
<1>5. RunShape(r)'
  BY <1>1, <1>3, <1>4 DEF RunShape, Pcs, s
<1>6. Picture(r)' /\ Recorded(r)' /\ Fits(r)'
  BY <1>1 DEF Picture, Recorded, Fits, Reading, Writing, s
<1> QED
  BY <1>5, <1>6 DEF RunInvariant

(* A run that has ended has nothing left to write. *)
LEMMA EndedRun ==
    ASSUME ReviewConstants, NEW r \in Runs, run'[r] = [IdleRun EXCEPT !.pc = "done"]
    PROVE  RunInvariant(r)'
<1> DEFINE p == "done"
           ctx == NoContext
<1>1. /\ run'[r] = [IdleRun EXCEPT !.pc = p, !.ctx = ctx] /\ ctx.options = 0
      /\ p \in {"idle", "done", "close"} /\ p # "close"
  BY DEF IdleRun, NoContext
<1> HIDE DEF p, ctx
<1> QED
  BY <1>1, RestingRun

LEMMA RunEnds ==
    ASSUME ReviewConstants, ReviewInvariant, NEW r \in Runs, Set(r, [IdleRun EXCEPT !.pc = "done"]),
           UNCHANGED <<stage, snapshot, reviews, intents, decisions, closes, holder>>
    PROVE  ReviewInvariant'
<1>1. /\ run'[r] = [IdleRun EXCEPT !.pc = "done"] /\ DOMAIN run' = Runs
      /\ \A q \in Runs \ {r} : run'[q] = run[q]
  BY SetFacts DEF Set
<1>2. stage' \in [Candidates -> {"selected", "sized", "blocked", "skipped"}]
  BY DEF ReviewInvariant, Tables
<1> QED
  BY <1>1, <1>2, EndedRun, OwnStep

-----------------------------------------------------------------------------
(* The steps of an entry review *)

LEMMA ReadStep ==
    ASSUME ReviewConstants, ReviewInvariant, NEW r \in Runs, Read(r)
    PROVE  ReviewInvariant'
<1>1. PICK need \in Needs(Source) :
        Set(r, [pc |-> IF Source = {} THEN "done" ELSE "block", ctx |-> portfolioResourceContext,
                need |-> [c \in {d \in Source : need[d] > 0} |-> need[c]],
                verdict |-> <<>>, todo |-> {c \in Source : need[c] = 0}])
  BY DEF Read
<1> DEFINE s == run'[r]
<1>2. /\ s = [pc |-> IF Source = {} THEN "done" ELSE "block", ctx |-> portfolioResourceContext,
              need |-> [c \in {d \in Source : need[d] > 0} |-> need[c]],
              verdict |-> <<>>, todo |-> {c \in Source : need[c] = 0}]
      /\ DOMAIN run' = Runs /\ \A q \in Runs \ {r} : run'[q] = run[q]
  BY <1>1, SetFacts DEF Set
<1>3. /\ DOMAIN s = Fields /\ s.pc \in {"done", "block"} /\ s.todo \subseteq Candidates
      /\ s.verdict = <<>> /\ s.ctx = portfolioResourceContext
      /\ s.need = [c \in {d \in Source : need[d] > 0} |-> need[c]]
  BY <1>2 DEF Fields, IdleRun, Source
<1>4. /\ r \in EntryRuns /\ Held(r)
      /\ UNCHANGED <<stage, snapshot, reviews, intents, decisions, closes, holder>>
  BY DEF Read
<1>5. Tables /\ snapshot \in 1..MaxSnapshots /\ OpenUnits <= Capacity
  BY DEF ReviewInvariant, Tables
<1>6. /\ s.ctx.snap = snapshot /\ s.ctx.version[1] = snapshot /\ s.ctx.busy = Busy
      /\ s.ctx.power = Monus(Monus(Capacity, Units(Committed)), Units(Pending))
      /\ s.ctx.options = Monus(OptionsPower, Units(Pending))
  BY <1>3 DEF portfolioResourceContext
<1> HIDE DEF s
<1>7. s.ctx.power \in Nat /\ s.ctx.options \in Nat /\ OpenUnits + s.ctx.power <= Capacity
  <2>1. /\ Units(Pending) + Units(Committed) = OpenUnits
        /\ Units(Pending) \in Nat /\ Units(Committed) \in Nat
    BY <1>5, OpenUnitsAreTheSum
  <2> QED
    BY <1>5, <1>6, <2>1 DEF Monus, ReviewConstants
<1>8. DOMAIN s.verdict = {}
  BY <1>3
<1>9. /\ Verdict(s.verdict) /\ Options(s.verdict) = {}
      /\ SumOver(UnitsOf(s.verdict), Options(s.verdict)) = 0
  BY <1>8, SumOfNone DEF Verdict, Gives, Options
<1>10. RunShape(r)'
  BY <1>3, <1>7, <1>9 DEF RunShape, Pcs, s
<1>11. /\ DOMAIN s.need \subseteq Candidates
       /\ \A c \in DOMAIN s.need : s.need[c] \in 0..MaxNeed
  BY <1>3 DEF Needs, Source
<1>12. Picture(r)' /\ Recorded(r)'
  BY <1>3, <1>4, <1>5, <1>6, <1>7, <1>8, <1>11 DEF Picture, Recorded, Reading, Writing, s
<1>13. OpenUnits' = OpenUnits /\ Pending' = Pending
  BY <1>4, SameIntents
<1>14. \A k \in Pending : Candidate[k[1]].symbol \in Busy
  BY DEF Pending, Busy
<1>15. Fits(r)'
  BY <1>3, <1>6, <1>7, <1>13, <1>14 DEF Fits, Reading, Writing, s
<1> QED
  BY <1>2, <1>4, <1>10, <1>12, <1>15, OwnStep DEF RunInvariant, ReviewInvariant, Tables

(* The run goes on with another pc and fewer rows, before its arbitration. *)
LEMMA BlockStep ==
    ASSUME ReviewConstants, ReviewInvariant, NEW r \in Runs, Block(r)
    PROVE  ReviewInvariant'
<1>1. /\ run[r].pc = "block" /\ RunInvariant(r) /\ DOMAIN run[r] = Fields
      /\ UNCHANGED <<snapshot, reviews, intents, decisions, closes, holder>>
      /\ stage \in [Candidates -> {"selected", "sized", "blocked", "skipped"}]
      /\ run[r].todo \subseteq Candidates
  BY DEF Block, ReviewInvariant, RunInvariant, RunShape, Tables
<1>2. ASSUME DOMAIN run' = Runs, \A q \in Runs \ {r} : run'[q] = run[q],
             DOMAIN run'[r] = Fields, run'[r].pc \in {"block", "arbitrate", "done"},
             run'[r].todo \subseteq Candidates, run'[r].ctx = run[r].ctx,
             run'[r].need = run[r].need, run'[r].verdict = run[r].verdict,
             stage' \in [Candidates -> {"selected", "sized", "blocked", "skipped"}]
      PROVE  ReviewInvariant'
  <2>3. RunShape(r)'
    BY <1>1, <1>2 DEF RunInvariant, RunShape, Pcs
  <2>4. Picture(r)' /\ Recorded(r)'
    BY <1>1, <1>2 DEF RunInvariant, Picture, Recorded, Reading, Writing
  <2>5. OpenUnits' = OpenUnits /\ Pending' = Pending
    BY <1>1, SameIntents
  <2>6. Fits(r)'
    BY <1>1, <1>2, <2>5 DEF RunInvariant, Fits, Held, Reading, Writing
  <2> QED
    BY <1>1, <1>2, <2>3, <2>4, <2>6, OwnStep DEF RunInvariant
<1>3. CASE run[r].todo = {}
  <2> DEFINE p == IF DOMAIN run[r].need = {} THEN "done" ELSE "arbitrate"
             f == [run[r] EXCEPT !.pc = p]
  <2>1. Set(r, f) /\ stage' = stage
    BY <1>3 DEF Block
  <2>2. p \in {"block", "arbitrate", "done"}
    <3>1. CASE DOMAIN run[r].need = {}
      BY <3>1, Zenon
    <3>2. CASE DOMAIN run[r].need # {}
      BY <3>2, Zenon
    <3> QED
      BY <3>1, <3>2, Zenon
  <2> HIDE DEF p
  <2>3. /\ DOMAIN f = Fields /\ f.pc = p /\ f.todo = {}
        /\ f.ctx = run[r].ctx /\ f.need = run[r].need /\ f.verdict = run[r].verdict
    BY <1>1, <1>3 DEF Fields, IdleRun
  <2> HIDE DEF f
  <2>4. run'[r] = f /\ DOMAIN run' = Runs /\ \A q \in Runs \ {r} : run'[q] = run[q]
    BY <2>1, SetFacts DEF Set
  <2>5. stage' \in [Candidates -> {"selected", "sized", "blocked", "skipped"}]
    BY <1>1, <2>1
  <2> QED
    BY <1>2, <2>2, <2>3, <2>4, <2>5
<1>4. CASE run[r].todo # {} /\ Held(r)
  <2> DEFINE T == Others(run[r].todo)
             c == First(run[r].todo)
             f == [run[r] EXCEPT !.todo = T]
  <2>1. Set(r, f) /\ stage' = [stage EXCEPT ![c] = "blocked"]
    BY <1>4 DEF Block, persistCandidateStage
  <2>2. T \subseteq Candidates
    BY <1>1 DEF Others
  <2>3. stage' \in [Candidates -> {"selected", "sized", "blocked", "skipped"}]
    <3> HIDE DEF c
    <3> QED
      BY <1>1, <2>1
  <2> HIDE DEF T, c
  <2>4. /\ DOMAIN f = Fields /\ f.pc = "block" /\ f.todo = T
        /\ f.ctx = run[r].ctx /\ f.need = run[r].need /\ f.verdict = run[r].verdict
    BY <1>1 DEF Fields, IdleRun
  <2> HIDE DEF f
  <2>5. run'[r] = f /\ DOMAIN run' = Runs /\ \A q \in Runs \ {r} : run'[q] = run[q]
    BY <2>1, SetFacts DEF Set
  <2> QED
    BY <1>2, <2>2, <2>3, <2>4, <2>5
<1>5. CASE run[r].todo # {} /\ ~Held(r)
  <2>1. Set(r, [IdleRun EXCEPT !.pc = "done"]) /\ stage' = stage
    BY <1>5 DEF Block, persistCandidateStage
  <2> QED
    BY <1>1, <2>1, RunEnds
<1> QED
  BY <1>3, <1>4, <1>5

(* A step that neither adds an intent nor an exit of another run's job.     *)
LEMMA OthersStand ==
    ASSUME ReviewConstants, ReviewInvariant, NEW r \in Runs,
           \A q \in Runs \ {r} : run'[q] = run[q],
           decisions \subseteq decisions', reviews \subseteq reviews',
           UNCHANGED <<intents, closes, holder>>
    PROVE  \A q \in Runs \ {r} : RunInvariant(q)'
<1>1. OpenUnits' = OpenUnits /\ Pending' = Pending /\ ActiveCloses' = ActiveCloses
  BY SameIntents DEF ActiveCloses
<1>2. OpenUnits \in Nat /\ OpenUnits' \in Nat
  BY <1>1, OpenUnitsAreNatural DEF ReviewInvariant
<1> DEFINE Q == Runs \ {r}
<1>3. Q \subseteq Runs /\ \A q \in Q : run'[q] = run[q]
  OBVIOUS
<1>4. \A q \in Q : Held(q)' /\ run[q].pc \notin Resting =>
          /\ Held(q)
          /\ q \in EntryRuns => OpenUnits' <= OpenUnits /\ Pending' \subseteq Pending
          /\ \A x \in ActiveCloses' : x \in ActiveCloses \/ x.job # JobOf[q]
  BY <1>1, <1>2 DEF Held
<1> HIDE DEF Q
<1>5. \A q \in Q : RunInvariant(q)'
  BY <1>2, <1>3, <1>4, Bystanders
<1> QED
  BY <1>5 DEF Q

LEMMA PersistStep ==
    ASSUME ReviewConstants, ReviewInvariant, NEW r \in Runs, PersistDecisions(r)
    PROVE  ReviewInvariant'
<1>1. /\ run[r].pc = "arbitrate" /\ RunInvariant(r)
      /\ UNCHANGED <<stage, snapshot, reviews, intents, closes, holder>>
  BY DEF PersistDecisions, ReviewInvariant
<1>2. CASE ~(Held(r) /\ Agrees(r))
  BY <1>1, <1>2, RunEnds DEF PersistDecisions
<1>3. CASE Held(r) /\ Agrees(r)
  <2> DEFINE ctx == run[r].ctx
             need == run[r].need
             v == arbitratePortfolioResources(ctx, need)
             s == run'[r]
  <2>1. decisions' = decisions \cup Decided(r)
    BY <1>3 DEF PersistDecisions
  <2>2. run' = [run EXCEPT ![r] = [run[r] EXCEPT !.pc = "skip", !.todo = DOMAIN need, !.verdict = v]]
    BY <1>3 DEF PersistDecisions, Set
  <2>3. /\ s = [run[r] EXCEPT !.pc = "skip", !.todo = DOMAIN need, !.verdict = v]
        /\ DOMAIN run' = Runs /\ \A q \in Runs \ {r} : run'[q] = run[q]
    <3> HIDE DEF v
    <3> QED
      BY <2>2, SetFacts
  <2>4. /\ r \in EntryRuns /\ ctx.snap \in 1..MaxSnapshots /\ ctx.version[1] = ctx.snap
        /\ ctx.power \in Nat /\ ctx.options \in Nat
        /\ DOMAIN need \subseteq Candidates /\ \A c \in DOMAIN need : need[c] \in 0..MaxNeed
        /\ DOMAIN run[r] = Fields
    BY <1>1 DEF RunInvariant, RunShape, Picture, Reading
  <2>5. /\ DOMAIN v = DOMAIN need /\ Verdict(v)
        /\ SumOver(UnitsOf(v), DOMAIN v) <= ctx.power
        /\ SumOver(UnitsOf(v), Options(v)) <= ctx.options
        /\ \A c \in Gives(v) : Candidate[c].symbol \notin ctx.busy
    BY <2>4, Arbitrated
  <2>6. Decided(r) = {[arb |-> ctx.version, cand |-> c, action |-> v[c].action, units |-> v[c].units] : c \in DOMAIN v}
    BY DEF Decided
  <2> HIDE DEF v
  <2>7. /\ s.pc = "skip" /\ s.todo = DOMAIN need /\ s.verdict = v /\ s.ctx = ctx /\ s.need = need
        /\ DOMAIN s = Fields
    BY <2>3, <2>4 DEF Fields, IdleRun
  <2> HIDE DEF s
  <2>8. RunShape(r)'
    BY <2>4, <2>5, <2>7 DEF RunShape, Pcs, s
  <2>9. Picture(r)'
    BY <2>4, <2>5, <2>7 DEF Picture, Reading, Writing, s
  <2>10. Recorded(r)'
    BY <2>1, <2>5, <2>6, <2>7 DEF Recorded, Writing, s
  <2>11. OpenUnits' = OpenUnits /\ Pending' = Pending /\ OpenUnits \in Nat
    BY <1>1, SameIntents, OpenUnitsAreNatural DEF ReviewInvariant
  <2>12. /\ OpenUnits + ctx.power <= Capacity
         /\ \A k \in Pending : Candidate[k[1]].symbol \in ctx.busy
    BY <1>1, <1>3 DEF RunInvariant, Fits, Reading
  <2>13. OpenUnits + SumOver(UnitsOf(v), DOMAIN v) <= Capacity
    <3>1. SumOver(UnitsOf(v), DOMAIN v) \in Nat
      BY <2>5, VerdictIsFinite, UnitsAreFinite
    <3> QED
      BY <2>4, <2>5, <2>11, <2>12, <3>1 DEF ReviewConstants
  <2>14. Left(r)' = DOMAIN v
    BY <2>7 DEF Left, s
  <2>15. OpenUnits' + SumOver(UnitsOf(v), Left(r)') <= Capacity
    BY <2>11, <2>13, <2>14
  <2>16. \A k \in Pending', c \in Left(r)' \cap Gives(v) : Candidate[k[1]].symbol # Candidate[c].symbol
    BY <2>5, <2>11, <2>12
  <2>17. Fits(r)'
    BY <2>7, <2>15, <2>16 DEF Fits, Reading, Writing, s
  <2>18. \A q \in Runs \ {r} : RunInvariant(q)'
    BY <1>1, <2>1, <2>3, OthersStand
  <2>19. Tables'
    <3>1. \A d \in Decided(r) : d.cand \in Candidates /\ [action |-> d.action, units |-> d.units] \in Decision
      <4> SUFFICES ASSUME NEW c \in DOMAIN v
                   PROVE  c \in Candidates /\ [action |-> v[c].action, units |-> v[c].units] \in Decision
        BY <2>6
      <4> QED
        BY <2>5 DEF Verdict, Decision
    <3> QED
      BY <1>1, <2>1, <2>3, <3>1 DEF ReviewInvariant, Tables
  <2>20. Closes' /\ OpenUnits' <= Capacity
    BY <1>1, <2>11 DEF ReviewInvariant, Closes, ActiveCloses
  <2>21. OnePendingPerSymbol' /\ IntentWasApproved'
    BY <1>1, <2>1, <2>11 DEF ReviewInvariant, OnePendingPerSymbol, IntentWasApproved
  <2> QED
    BY <2>8, <2>9, <2>10, <2>17, <2>18, <2>19, <2>20, <2>21 DEF ReviewInvariant, RunInvariant
<1> QED
  BY <1>2, <1>3

Rows(v, p, T) == IF p = "skip" THEN DOMAIN v ELSE IF p = "sized" THEN Others(T) ELSE T

(* The run that writes goes on with pc p and the rows T. *)
LEMMA WritesOn ==
    ASSUME ReviewConstants, ReviewInvariant, NEW r \in Runs, run[r].pc \in Writing,
           NEW p \in Writing \cup {"done"}, NEW T, T \subseteq DOMAIN run[r].verdict,
           run' = [run EXCEPT ![r] = [run[r] EXCEPT !.pc = p, !.todo = T]],
           holder' = holder, decisions \subseteq decisions',
           p \in {"review", "intent", "sized"} => T # {} /\ \A c \in T : run[r].verdict[c].action # "skip",
           Held(r) /\ p \in Writing =>
               /\ OpenUnits' + SumOver(UnitsOf(run[r].verdict), Rows(run[r].verdict, p, T)) <= Capacity
               /\ \A k \in Pending', c \in Rows(run[r].verdict, p, T) \cap Gives(run[r].verdict) :
                     Candidate[k[1]].symbol # Candidate[c].symbol,
           Held(r) /\ p = "intent" => <<First(T), run[r].ctx.snap>> \in reviews'
    PROVE  /\ RunInvariant(r)' /\ DOMAIN run' = Runs /\ \A q \in Runs \ {r} : run'[q] = run[q]
<1>1. RunInvariant(r) /\ DOMAIN run[r] = Fields
  BY DEF ReviewInvariant, RunInvariant, RunShape
<1>2. /\ run'[r] = [run[r] EXCEPT !.pc = p, !.todo = T]
      /\ DOMAIN run' = Runs /\ \A q \in Runs \ {r} : run'[q] = run[q]
  BY SetFacts
<1>3. /\ DOMAIN run'[r] = Fields /\ run'[r].pc = p /\ run'[r].todo = T
      /\ run'[r].ctx = run[r].ctx /\ run'[r].need = run[r].need /\ run'[r].verdict = run[r].verdict
  BY <1>1, <1>2 DEF Fields, IdleRun
<1>4. RunShape(r)'
  BY <1>1, <1>3 DEF RunInvariant, RunShape, Pcs, Writing, Verdict
<1>5. Picture(r)'
  BY <1>1, <1>3 DEF RunInvariant, Picture, Reading, Writing
<1>6. Recorded(r)'
  BY <1>1, <1>3 DEF RunInvariant, Recorded, Writing
<1>7. Left(r)' = Rows(run[r].verdict, p, T)
  BY <1>3 DEF Left, Rows
<1>8. Key(r)' = <<First(T), run[r].ctx.snap>>
  BY <1>3 DEF Key
<1>9. Held(r)' => Held(r)
  BY DEF Held
<1>10. Fits(r)'
  <2> SUFFICES ASSUME Held(r)' PROVE Fits(r)'
    BY DEF Fits
  <2>1. CASE p \in Writing
    <3>1. /\ OpenUnits' + SumOver(UnitsOf(run'[r].verdict), Left(r)') <= Capacity
          /\ \A k \in Pending', c \in Left(r)' \cap Gives(run'[r].verdict) :
                Candidate[k[1]].symbol # Candidate[c].symbol
      BY <1>3, <1>7, <1>9, <2>1
    <3> QED
      BY <1>3, <1>8, <1>9, <2>1, <3>1 DEF Fits, Reading, Writing
  <2>2. CASE p \notin Writing
    BY <1>3, <2>2 DEF Fits, Reading, Writing
  <2> QED
    BY <2>1, <2>2
<1> QED
  BY <1>2, <1>4, <1>5, <1>6, <1>10 DEF RunInvariant

(* The same when no intent changes and no row is added. *)
LEMMA WritesLess ==
    ASSUME ReviewConstants, ReviewInvariant, NEW r \in Runs, run[r].pc \in Writing,
           NEW p \in Writing \cup {"done"}, NEW T, T \subseteq DOMAIN run[r].verdict,
           run' = [run EXCEPT ![r] = [run[r] EXCEPT !.pc = p, !.todo = T]],
           UNCHANGED <<intents, holder, decisions>>,
           p \in Writing => Rows(run[r].verdict, p, T) \subseteq Left(r),
           p \in {"review", "intent", "sized"} => T # {} /\ \A c \in T : run[r].verdict[c].action # "skip",
           Held(r) /\ p = "intent" => <<First(T), run[r].ctx.snap>> \in reviews'
    PROVE  /\ RunInvariant(r)' /\ DOMAIN run' = Runs /\ \A q \in Runs \ {r} : run'[q] = run[q]
<1> DEFINE L == Rows(run[r].verdict, p, T)
           v == run[r].verdict
<1>1. RunInvariant(r) /\ Verdict(v) /\ run[r].todo \subseteq DOMAIN v
  BY DEF ReviewInvariant, RunInvariant, RunShape, Recorded
<1>2. OpenUnits' = OpenUnits /\ Pending' = Pending /\ OpenUnits \in Nat
  BY SameIntents, OpenUnitsAreNatural DEF ReviewInvariant
<1>3. ASSUME Held(r), p \in Writing
      PROVE  /\ OpenUnits' + SumOver(UnitsOf(v), L) <= Capacity
             /\ \A k \in Pending', c \in L \cap Gives(v) : Candidate[k[1]].symbol # Candidate[c].symbol
  <2>1. L \subseteq Left(r) /\ Left(r) \subseteq DOMAIN v
    BY <1>1, <1>3 DEF Left, Others
  <2>2. /\ OpenUnits + SumOver(UnitsOf(v), Left(r)) <= Capacity
        /\ \A k \in Pending, c \in Left(r) \cap Gives(v) : Candidate[k[1]].symbol # Candidate[c].symbol
    BY <1>1, <1>3 DEF RunInvariant, Fits
  <2>3. IsFiniteSet(Left(r)) /\ \A c \in Left(r) : UnitsOf(v)[c] \in Nat
    BY <1>1, <2>1, VerdictIsFinite, FS_Subset
  <2> HIDE DEF L, v
  <2>4. /\ SumOver(UnitsOf(v), L) <= SumOver(UnitsOf(v), Left(r))
        /\ SumOver(UnitsOf(v), L) \in Nat /\ SumOver(UnitsOf(v), Left(r)) \in Nat
    BY <2>1, <2>3, SumOfPart
  <2>5. OpenUnits' + SumOver(UnitsOf(v), L) <= Capacity
    BY <1>2, <2>2, <2>4 DEF ReviewConstants
  <2> QED
    BY <1>2, <2>1, <2>2, <2>5
<1>4. holder' = holder /\ decisions \subseteq decisions'
  OBVIOUS
<1> QED
  BY <1>3, <1>4, WritesOn

LEMMA SkipStep ==
    ASSUME ReviewConstants, ReviewInvariant, NEW r \in Runs, Skip(r)
    PROVE  ReviewInvariant'
<1>1. /\ run[r].pc = "skip" /\ run[r].pc \in Writing /\ DOMAIN run[r] = Fields
      /\ UNCHANGED <<snapshot, reviews, intents, decisions, closes, holder>>
      /\ stage \in [Candidates -> {"selected", "sized", "blocked", "skipped"}]
      /\ DOMAIN run[r].verdict = DOMAIN run[r].need /\ run[r].todo \subseteq DOMAIN run[r].verdict
      /\ Left(r) = DOMAIN run[r].verdict
  BY DEF Skip, Writing, ReviewInvariant, RunInvariant, RunShape, Recorded, Tables, Left
<1>2. CASE Skipped(r) = {}
  <2> DEFINE p == IF Approved(r) = {} THEN "done" ELSE "review"
             T == Approved(r)
  <2>1. run' = [run EXCEPT ![r] = [run[r] EXCEPT !.pc = p, !.todo = T]] /\ stage' = stage
    BY <1>2 DEF Skip, Set
  <2>2. /\ p \in Writing \cup {"done"} /\ T \subseteq DOMAIN run[r].verdict
        /\ p \in Writing => Rows(run[r].verdict, p, T) \subseteq Left(r)
        /\ p \in {"review", "intent", "sized"} => T # {} /\ \A c \in T : run[r].verdict[c].action # "skip"
        /\ p # "intent"
    BY <1>1 DEF Approved, Writing, Rows
  <2> HIDE DEF p, T
  <2>3. RunInvariant(r)' /\ DOMAIN run' = Runs /\ \A q \in Runs \ {r} : run'[q] = run[q]
    BY <1>1, <2>1, <2>2, WritesLess
  <2> QED
    BY <1>1, <2>1, <2>3, OwnStep
<1>3. CASE Skipped(r) # {} /\ Held(r)
  <2> DEFINE p == "skip"
             T == Others(Skipped(r))
             d == First(Skipped(r))
  <2>1. /\ run' = [run EXCEPT ![r] = [run[r] EXCEPT !.todo = T]]
        /\ stage' = [stage EXCEPT ![d] = "skipped"]
    BY <1>3 DEF Skip, Set, persistCandidateStage
  <2>2. stage' \in [Candidates -> {"selected", "sized", "blocked", "skipped"}]
    <3> HIDE DEF d
    <3> QED
      BY <1>1, <2>1
  <2>3. /\ p \in Writing \cup {"done"} /\ T \subseteq DOMAIN run[r].verdict
        /\ p \in Writing => Rows(run[r].verdict, p, T) \subseteq Left(r)
        /\ p \notin {"review", "intent", "sized"}
    BY <1>1 DEF Skipped, Others, Writing, Rows
  <2> HIDE DEF T, d
  <2>4. [run[r] EXCEPT !.todo = T] = [run[r] EXCEPT !.pc = p, !.todo = T]
    BY <1>1 DEF Fields, IdleRun
  <2>5. run' = [run EXCEPT ![r] = [run[r] EXCEPT !.pc = p, !.todo = T]]
    BY <2>1, <2>4
  <2> HIDE DEF p
  <2>6. RunInvariant(r)' /\ DOMAIN run' = Runs /\ \A q \in Runs \ {r} : run'[q] = run[q]
    BY <1>1, <2>3, <2>5, WritesLess
  <2> QED
    BY <1>1, <2>2, <2>6, OwnStep
<1>4. CASE Skipped(r) # {} /\ ~Held(r)
  <2>1. Set(r, [IdleRun EXCEPT !.pc = "done"]) /\ stage' = stage
    BY <1>4 DEF Skip, persistCandidateStage
  <2> QED
    BY <1>1, <2>1, RunEnds
<1> QED
  BY <1>2, <1>3, <1>4

(* The row a review is at, and the key of its intent. *)
LEMMA KeyIsIn ==
    ASSUME ReviewConstants, ReviewInvariant, NEW r \in Runs, run[r].pc \in {"review", "intent", "sized"}
    PROVE  /\ First(run[r].todo) \in run[r].todo /\ run[r].todo \subseteq DOMAIN run[r].verdict
           /\ Verdict(run[r].verdict) /\ Key(r) \in Keys
           /\ run[r].todo # {} /\ \A c \in run[r].todo : run[r].verdict[c].action # "skip"
           /\ r \in EntryRuns
           /\ \A c \in DOMAIN run[r].verdict :
                 [arb |-> run[r].ctx.version, cand |-> c, action |-> run[r].verdict[c].action,
                  units |-> run[r].verdict[c].units] \in decisions
           /\ run[r].ctx.version[1] = run[r].ctx.snap
<1>1. RunInvariant(r)
  BY DEF ReviewInvariant
<1>2. /\ run[r].todo \subseteq DOMAIN run[r].verdict /\ run[r].todo \subseteq Candidates
      /\ Verdict(run[r].verdict) /\ run[r].ctx.snap \in 1..MaxSnapshots
      /\ run[r].todo # {} /\ \A c \in run[r].todo : run[r].verdict[c].action # "skip"
      /\ r \in EntryRuns /\ run[r].ctx.version[1] = run[r].ctx.snap
      /\ \A c \in DOMAIN run[r].verdict :
            [arb |-> run[r].ctx.version, cand |-> c, action |-> run[r].verdict[c].action,
             units |-> run[r].verdict[c].units] \in decisions
  BY <1>1 DEF RunInvariant, RunShape, Picture, Recorded, Writing
<1>3. First(run[r].todo) \in run[r].todo
  BY <1>2, FirstIsIn
<1> QED
  BY <1>2, <1>3 DEF Key, Keys

LEMMA InsertReviewStep ==
    ASSUME ReviewConstants, ReviewInvariant, NEW r \in Runs, InsertReview(r)
    PROVE  ReviewInvariant'
<1>1. /\ run[r].pc = "review" /\ run[r].pc \in Writing /\ DOMAIN run[r] = Fields
      /\ UNCHANGED <<stage, snapshot, intents, decisions, closes, holder>>
      /\ reviews' = IF Held(r) THEN reviews \cup {Key(r)} ELSE reviews
      /\ run' = [run EXCEPT ![r] = [run[r] EXCEPT !.pc = "intent"]]
      /\ Left(r) = run[r].todo
  BY DEF InsertReview, Set, Writing, ReviewInvariant, RunInvariant, RunShape, Left
<1>2. /\ Key(r) \in Keys /\ run[r].todo # {} /\ run[r].todo \subseteq DOMAIN run[r].verdict
      /\ \A c \in run[r].todo : run[r].verdict[c].action # "skip"
  BY <1>1, KeyIsIn
<1>3. [run[r] EXCEPT !.pc = "intent"] = [run[r] EXCEPT !.pc = "intent", !.todo = run[r].todo]
  BY <1>1 DEF Fields, IdleRun
<1>4. Held(r) => <<First(run[r].todo), run[r].ctx.snap>> \in reviews'
  BY <1>1 DEF Key
<1>5. RunInvariant(r)' /\ DOMAIN run' = Runs /\ \A q \in Runs \ {r} : run'[q] = run[q]
  <2> DEFINE p == "intent"
             T == run[r].todo
  <2>1. /\ p \in Writing \cup {"done"} /\ T \subseteq DOMAIN run[r].verdict
        /\ run' = [run EXCEPT ![r] = [run[r] EXCEPT !.pc = p, !.todo = T]]
        /\ p \in Writing => Rows(run[r].verdict, p, T) \subseteq Left(r)
        /\ T # {} /\ \A c \in T : run[r].verdict[c].action # "skip"
        /\ Held(r) => <<First(T), run[r].ctx.snap>> \in reviews'
    BY <1>1, <1>2, <1>3, <1>4 DEF Rows, Writing
  <2> HIDE DEF p, T
  <2> QED
    BY <1>1, <2>1, WritesLess
<1>6. reviews \subseteq reviews' /\ reviews' \subseteq Keys
  BY <1>1, <1>2 DEF ReviewInvariant, Tables
<1>7. \A q \in Runs \ {r} : RunInvariant(q)'
  BY <1>1, <1>5, <1>6, OthersStand
<1>8. Tables' /\ Closes'
  BY <1>1, <1>5, <1>6 DEF ReviewInvariant, Tables, Closes, ActiveCloses
<1>9. OpenUnits' <= Capacity /\ OnePendingPerSymbol' /\ IntentWasApproved'
  <2>1. OpenUnits' = OpenUnits /\ Pending' = Pending
    BY <1>1, SameIntents
  <2> QED
    BY <1>1, <1>6, <2>1 DEF ReviewInvariant, OnePendingPerSymbol, IntentWasApproved
<1> QED
  BY <1>5, <1>7, <1>8, <1>9 DEF ReviewInvariant

LEMMA SizedStep ==
    ASSUME ReviewConstants, ReviewInvariant, NEW r \in Runs, Sized(r)
    PROVE  ReviewInvariant'
<1>1. /\ run[r].pc = "sized" /\ run[r].pc \in Writing /\ DOMAIN run[r] = Fields
      /\ UNCHANGED <<snapshot, reviews, intents, decisions, closes, holder>>
      /\ stage \in [Candidates -> {"selected", "sized", "blocked", "skipped"}]
      /\ Left(r) = Others(run[r].todo)
  BY DEF Sized, Writing, ReviewInvariant, RunInvariant, RunShape, Tables, Left
<1>2. /\ run[r].todo \subseteq DOMAIN run[r].verdict
      /\ \A c \in run[r].todo : run[r].verdict[c].action # "skip"
  BY <1>1, KeyIsIn
<1>3. CASE Held(r)
  <2> DEFINE T == Others(run[r].todo)
             p == IF T = {} THEN "done" ELSE "review"
             d == First(run[r].todo)
  <2>1. /\ run' = [run EXCEPT ![r] = [run[r] EXCEPT !.todo = T, !.pc = p]]
        /\ stage' = [stage EXCEPT ![d] = "sized"]
    BY <1>3 DEF Sized, Set, persistCandidateStage
  <2>2. stage' \in [Candidates -> {"selected", "sized", "blocked", "skipped"}]
    <3> HIDE DEF d
    <3> QED
      BY <1>1, <2>1
  <2>3. /\ p \in Writing \cup {"done"} /\ T \subseteq DOMAIN run[r].verdict
        /\ p \in Writing => Rows(run[r].verdict, p, T) \subseteq Left(r)
        /\ p \in {"review", "intent", "sized"} => T # {} /\ \A c \in T : run[r].verdict[c].action # "skip"
        /\ p # "intent"
    BY <1>1, <1>2 DEF Others, Writing, Rows
  <2> HIDE DEF T, p, d
  <2>4. [run[r] EXCEPT !.todo = T, !.pc = p] = [run[r] EXCEPT !.pc = p, !.todo = T]
    BY <1>1 DEF Fields, IdleRun
  <2>5. run' = [run EXCEPT ![r] = [run[r] EXCEPT !.pc = p, !.todo = T]]
    BY <2>1, <2>4
  <2>6. RunInvariant(r)' /\ DOMAIN run' = Runs /\ \A q \in Runs \ {r} : run'[q] = run[q]
    BY <1>1, <2>3, <2>5, WritesLess
  <2> QED
    BY <1>1, <2>2, <2>6, OwnStep
<1>4. CASE ~Held(r)
  <2>1. Set(r, [IdleRun EXCEPT !.pc = "done"]) /\ stage' = stage
    BY <1>4 DEF Sized, persistCandidateStage
  <2> QED
    BY <1>1, <2>1, RunEnds
<1> QED
  BY <1>3, <1>4

(* The intent takes its units out of what its review was given. *)
LEMMA InsertIntentStep ==
    ASSUME ReviewConstants, ReviewInvariant, NEW r \in Runs, InsertIntent(r)
    PROVE  ReviewInvariant'
<1> DEFINE v == run[r].verdict
           c == First(run[r].todo)
           k == Key(r)
           T == run[r].todo
           O == Others(T)
<1>1. /\ run[r].pc = "intent" /\ run[r].pc \in Writing /\ DOMAIN run[r] = Fields
      /\ UNCHANGED <<stage, snapshot, reviews, decisions, closes, holder>>
      /\ run' = [run EXCEPT ![r] = [run[r] EXCEPT !.pc = "sized"]]
      /\ Left(r) = T /\ RunInvariant(r)
  BY DEF InsertIntent, Set, Writing, ReviewInvariant, RunInvariant, RunShape, Left
<1>2. /\ c \in T /\ T \subseteq DOMAIN v /\ Verdict(v) /\ k \in Keys /\ T # {}
      /\ \A d \in T : v[d].action # "skip"
      /\ r \in EntryRuns
      /\ \A d \in DOMAIN v :
            [arb |-> run[r].ctx.version, cand |-> d, action |-> v[d].action, units |-> v[d].units] \in decisions
      /\ run[r].ctx.version[1] = run[r].ctx.snap
  BY <1>1, KeyIsIn
<1>3. k[1] = c /\ k[2] = run[r].ctx.snap
  BY DEF Key
<1>4. c \notin O /\ O \cup {c} = T /\ O \subseteq T
  BY <1>2 DEF Others
<1>5. run' = [run EXCEPT ![r] = [run[r] EXCEPT !.pc = "sized", !.todo = T]]
  <2>1. [run[r] EXCEPT !.pc = "sized"] = [run[r] EXCEPT !.pc = "sized", !.todo = T]
    BY <1>1 DEF Fields, IdleRun
  <2> QED
    BY <1>1, <2>1
<1>6. /\ "sized" \in Writing \cup {"done"} /\ "sized" \in Writing /\ Rows(v, "sized", T) = O
      /\ "sized" \in {"review", "intent", "sized"}
  BY DEF Writing, Rows
<1>7. DOMAIN run' = Runs /\ \A q \in Runs \ {r} : run'[q] = run[q]
  BY <1>5, SetFacts
<1>8. Closes' /\ ActiveCloses' = ActiveCloses /\ Tables /\ OpenUnits <= Capacity
  BY <1>1 DEF ReviewInvariant, Closes, ActiveCloses
<1>9. CASE ~CanInsertIntent(r)
  <2>1. intents' = intents
    BY <1>9 DEF InsertIntent
  <2> DEFINE p == "sized"
  <2>2. /\ p \in Writing \cup {"done"} /\ T \subseteq DOMAIN run[r].verdict
        /\ run' = [run EXCEPT ![r] = [run[r] EXCEPT !.pc = p, !.todo = T]]
        /\ p \in Writing => Rows(run[r].verdict, p, T) \subseteq Left(r)
        /\ T # {} /\ (\A d \in T : run[r].verdict[d].action # "skip") /\ p # "intent"
    BY <1>1, <1>2, <1>4, <1>5, <1>6
  <2> HIDE DEF p, T
  <2>3. RunInvariant(r)'
    BY <1>1, <2>1, <2>2, WritesLess
  <2>4. stage' \in [Candidates -> {"selected", "sized", "blocked", "skipped"}]
    BY <1>1 DEF ReviewInvariant, Tables
  <2> QED
    BY <1>1, <1>7, <2>1, <2>3, <2>4, OwnStep
<1>10. CASE CanInsertIntent(r)
  <2> DEFINE u == v[c].units
  <2>1. /\ intents' = [intents EXCEPT ![k] = [state |-> "created", units |-> u]]
        /\ Held(r) /\ intents[k].state = "none"
    BY <1>3, <1>10 DEF InsertIntent, CanInsertIntent
  <2>2. c \in Gives(v) /\ u \in 0..MaxNeed /\ u \in Nat /\ UnitsOf(v)[c] = u
    <3>1. c \in DOMAIN v /\ v[c].action # "skip"
      BY <1>2
    <3>2. u \in 0..MaxNeed /\ UnitsOf(v)[c] = u /\ MaxNeed \in Nat
      BY <1>2, <3>1, VerdictIsFinite DEF UnitsOf, ReviewConstants
    <3>3. u # 0
      BY <1>2, <3>1 DEF Verdict
    <3> QED
      BY <3>1, <3>2, <3>3 DEF Gives
  <2>3. [state |-> "created", units |-> u] \in [state : IntentStates, units : 0..MaxNeed]
    BY <2>2 DEF IntentStates
  <2>4. /\ intents \in [Keys -> [state : IntentStates, units : 0..MaxNeed]]
        /\ intents' \in [Keys -> [state : IntentStates, units : 0..MaxNeed]]
        /\ intents'[k] = [state |-> "created", units |-> u]
        /\ \A q \in Keys \ {k} : intents'[q] = intents[q]
    <3> HIDE DEF u, k, v
    <3>1. intents \in [Keys -> [state : IntentStates, units : 0..MaxNeed]]
      BY <1>8 DEF Tables
    <3> QED
      BY <1>2, <2>1, <2>3, <3>1
  <2>5. Tables'
    BY <1>1, <1>7, <1>8, <2>4 DEF Tables
  <2>6. InForce[k] = 0 /\ InForce'[k] = u
    BY <1>2, <2>1, <2>4 DEF InForce, Busied
  <2>7. OpenUnits \in Nat /\ OpenUnits' \in Nat /\ OpenUnits' = OpenUnits + u
    <3>1. /\ OpenUnits \in Nat /\ OpenUnits' \in Nat
          /\ OpenUnits' = OpenUnits - InForce[k] + InForce'[k]
      BY <1>2, <1>8, <2>4, <2>5, OneIntent
    <3> HIDE DEF u, k
    <3> QED
      BY <2>2, <2>6, <3>1
  <2>8. Pending' = Pending \cup {k}
    BY <1>2, <2>4 DEF Pending
  <2>9. /\ OpenUnits + SumOver(UnitsOf(v), T) <= Capacity
        /\ \A q \in Pending, d \in T \cap Gives(v) : Candidate[q[1]].symbol # Candidate[d].symbol
        /\ k \in reviews
    BY <1>1, <2>1 DEF RunInvariant, Fits
  <2>10. SumOver(UnitsOf(v), T) = SumOver(UnitsOf(v), O) + u /\ SumOver(UnitsOf(v), O) \in Nat
    <3> DEFINE a == UnitsOf(v)
    <3>1. IsFiniteSet(O) /\ (\A d \in O : a[d] \in Nat) /\ a[c] = u /\ c \notin O
      <4>1. IsFiniteSet(DOMAIN v) /\ \A d \in DOMAIN v : a[d] \in Nat
        BY <1>2, VerdictIsFinite
      <4>2. O \subseteq DOMAIN v
        BY <1>2, <1>4
      <4> QED
        BY <1>4, <2>2, <4>1, <4>2, FS_Subset
    <3> HIDE DEF a, u, O, c, T
    <3>2. IsFiniteSet({c}) /\ O \cap {c} = {} /\ a[c] \in Nat /\ \A d \in O \cup {c} : a[d] \in Nat
      BY <2>2, <3>1, FS_Singleton
    <3>3. SumOver(a, O) \in Nat /\ SumOver(a, {c}) = a[c]
      BY <3>1, <3>2, UnitsAreFinite, SumOfOne
    <3>4. SumOver(a, O \cup {c}) = SumOver(a, O) + SumOver(a, {c})
      BY <3>1, <3>2, SumOfTwo
    <3> QED
      BY <1>4, <3>1, <3>3, <3>4 DEF a
  <2>11. OpenUnits' + SumOver(UnitsOf(v), O) <= Capacity /\ OpenUnits' <= Capacity
    <3> HIDE DEF u, O, T, v
    <3> QED
      BY <2>2, <2>7, <2>9, <2>10 DEF ReviewConstants
  <2>12. \A q \in Pending', d \in O \cap Gives(v) : Candidate[q[1]].symbol # Candidate[d].symbol
    <3>1. \A d \in O \cap Gives(v) : Candidate[c].symbol # Candidate[d].symbol
      BY <1>2, <1>4, <2>2 DEF Verdict
    <3> HIDE DEF O, T, v, c, k
    <3> QED
      BY <1>3, <1>4, <2>8, <2>9, <3>1
  <2>13. RunInvariant(r)'
    <3> DEFINE p == "sized"
    <3>1. /\ p \in Writing \cup {"done"} /\ T \subseteq DOMAIN run[r].verdict
          /\ run' = [run EXCEPT ![r] = [run[r] EXCEPT !.pc = p, !.todo = T]]
          /\ OpenUnits' + SumOver(UnitsOf(run[r].verdict), Rows(run[r].verdict, p, T)) <= Capacity
          /\ \A q \in Pending', d \in Rows(run[r].verdict, p, T) \cap Gives(run[r].verdict) :
                Candidate[q[1]].symbol # Candidate[d].symbol
          /\ T # {} /\ (\A d \in T : run[r].verdict[d].action # "skip") /\ p # "intent"
      BY <1>1, <1>2, <1>5, <1>6, <2>11, <2>12
    <3>2. holder' = holder /\ decisions \subseteq decisions'
      BY <1>1
    <3> HIDE DEF p, T
    <3>3. p \in {"review", "intent", "sized"} => T # {} /\ \A d \in T : run[r].verdict[d].action # "skip"
      BY <3>1
    <3>4. Held(r) /\ p \in Writing =>
             /\ OpenUnits' + SumOver(UnitsOf(run[r].verdict), Rows(run[r].verdict, p, T)) <= Capacity
             /\ \A q \in Pending', d \in Rows(run[r].verdict, p, T) \cap Gives(run[r].verdict) :
                   Candidate[q[1]].symbol # Candidate[d].symbol
      BY <3>1
    <3>5. Held(r) /\ p = "intent" => <<First(T), run[r].ctx.snap>> \in reviews'
      BY <3>1
    <3>6. /\ run[r].pc \in Writing /\ p \in Writing \cup {"done"} /\ T \subseteq DOMAIN run[r].verdict
          /\ run' = [run EXCEPT ![r] = [run[r] EXCEPT !.pc = p, !.todo = T]]
      BY <1>1, <3>1
    <3> QED
      BY ONLY ReviewConstants, ReviewInvariant, r \in Runs, <3>2, <3>3, <3>4, <3>5, <3>6, WritesOn
  <2>14. \A q \in Runs \ {r} : RunInvariant(q)'
    <3> DEFINE Q == Runs \ {r}
    <3>1. \A q \in Q : Held(q) => q \notin EntryRuns
      BY <1>2, <2>1 DEF Held, ReviewConstants
    <3>2. \A q \in Q : Held(q)' /\ run[q].pc \notin Resting =>
              /\ Held(q)
              /\ q \in EntryRuns => OpenUnits' <= OpenUnits /\ Pending' \subseteq Pending
              /\ \A x \in ActiveCloses' : x \in ActiveCloses \/ x.job # JobOf[q]
      BY <1>1, <1>8, <3>1 DEF Held
    <3>3. Q \subseteq Runs /\ \A q \in Q : run'[q] = run[q]
      BY <1>7
    <3>4. decisions \subseteq decisions' /\ reviews \subseteq reviews'
      BY <1>1
    <3> HIDE DEF Q
    <3>5. \A q \in Q : RunInvariant(q)'
      BY <2>7, <3>2, <3>3, <3>4, Bystanders
    <3> QED
      BY <3>5 DEF Q
  <2>15. OnePendingPerSymbol'
    <3>1. \A q \in Pending : Candidate[q[1]].symbol # Candidate[c].symbol
      BY <1>2, <2>2, <2>9
    <3>2. OnePendingPerSymbol
      BY DEF ReviewInvariant
    <3> HIDE DEF c, k
    <3> QED
      BY <1>3, <2>8, <3>1, <3>2 DEF OnePendingPerSymbol
  <2>16. IntentWasApproved'
    <3>1. IntentWasApproved
      BY DEF ReviewInvariant
    <3>2. k \in reviews /\ intents'[k].units = u
      BY <2>4, <2>9
    <3> DEFINE e == [arb |-> run[r].ctx.version, cand |-> c, action |-> v[c].action, units |-> u]
    <3>3. e \in decisions /\ e.arb[1] = k[2] /\ e.cand = k[1] /\ e.units = u /\ e.action # "skip"
      BY <1>2, <1>3
    <3> HIDE DEF e, u, c, k, v
    <3>4. \A q \in Keys : q # k => intents'[q] = intents[q]
      BY <2>4
    <3> QED
      BY <1>1, <3>1, <3>2, <3>3, <3>4 DEF IntentWasApproved
  <2> QED
    BY <1>8, <2>5, <2>11, <2>13, <2>14, <2>15, <2>16 DEF ReviewInvariant
<1> QED
  BY <1>9, <1>10

-----------------------------------------------------------------------------
(* The steps of an exit review *)

LEMMA ReadExitStep ==
    ASSUME ReviewConstants, ReviewInvariant, NEW r \in Runs, ReadExit(r)
    PROVE  ReviewInvariant'
<1>1. PICK t \in exitTrigger :
        Set(r, [IdleRun EXCEPT !.pc = IF ExitSource /\ t = "fires" THEN "close" ELSE "done",
                               !.ctx = [NoContext EXCEPT !.snap = snapshot]])
  BY DEF ReadExit
<1> DEFINE p == IF ExitSource /\ t = "fires" THEN "close" ELSE "done"
           ctx == [NoContext EXCEPT !.snap = snapshot]
<1>2. /\ run'[r] = [IdleRun EXCEPT !.pc = p, !.ctx = ctx]
      /\ DOMAIN run' = Runs /\ \A q \in Runs \ {r} : run'[q] = run[q]
  BY <1>1, SetFacts DEF Set
<1>3. /\ UNCHANGED <<snapshot, reviews, intents, decisions, closes, holder>>
      /\ stage' \in [Candidates -> {"selected", "sized", "blocked", "skipped"}]
  BY DEF ReadExit, ReviewInvariant, Tables
<1>4. p \in {"idle", "done", "close"} /\ (p = "close" => ActiveCloses = {}) /\ ctx.options = 0
  BY DEF ExitSource, NoContext
<1>5. ActiveCloses' = ActiveCloses
  BY <1>3 DEF ActiveCloses
<1> HIDE DEF p, ctx
<1>6. RunInvariant(r)'
  BY <1>2, <1>4, <1>5, RestingRun
<1> QED
  BY <1>2, <1>3, <1>6, OwnStep

(* Only the holder adds a closing intent of its job, and it has none. *)
LEMMA InsertExitStep ==
    ASSUME ReviewConstants, ReviewInvariant, NEW r \in Runs, InsertExit(r)
    PROVE  ReviewInvariant'
<1> DEFINE x == [snap |-> run[r].ctx.snap, job |-> JobOf[r], active |-> TRUE]
<1>1. /\ run[r].pc = "close" /\ RunInvariant(r) /\ DOMAIN run[r] = Fields
      /\ UNCHANGED <<stage, snapshot, reviews, intents, decisions, holder>>
      /\ run' = [run EXCEPT ![r] = [run[r] EXCEPT !.pc = "done"]]
      /\ closes' = IF CanClose(r) THEN closes \cup {x} ELSE closes
  BY DEF InsertExit, Set, ReviewInvariant, RunInvariant, RunShape
<1>2. /\ run'[r] = [run[r] EXCEPT !.pc = "done"]
      /\ DOMAIN run' = Runs /\ \A q \in Runs \ {r} : run'[q] = run[q]
  BY <1>1, SetFacts
<1>3. /\ DOMAIN run'[r] = Fields /\ run'[r].pc = "done" /\ run'[r].todo = run[r].todo
      /\ run'[r].ctx = run[r].ctx /\ run'[r].verdict = run[r].verdict
  BY <1>1, <1>2 DEF Fields, IdleRun
<1>4. RunInvariant(r)'
  <2>1. RunShape(r)'
    BY <1>1, <1>3 DEF RunInvariant, RunShape, Pcs
  <2>2. Picture(r)' /\ Recorded(r)' /\ Fits(r)'
    BY <1>3 DEF Picture, Recorded, Fits, Reading, Writing
  <2> QED
    BY <2>1, <2>2 DEF RunInvariant
<1>5. OpenUnits' = OpenUnits /\ Pending' = Pending /\ OpenUnits \in Nat /\ OpenUnits' \in Nat
  BY <1>1, SameIntents, OpenUnitsAreNatural DEF ReviewInvariant
<1>6. /\ ActiveCloses' = ActiveCloses \cup (IF CanClose(r) THEN {x} ELSE {})
      /\ x.job = JobOf[r] /\ x.snap = run[r].ctx.snap /\ DOMAIN x = {"snap", "job", "active"}
  BY <1>1 DEF ActiveCloses
<1>7. CanClose(r) => /\ Held(r) /\ \A y \in closes : y.snap # x.snap
                     /\ \A y \in ActiveCloses : y.job # x.job
  BY <1>1 DEF CanClose, RunInvariant, Fits
<1> HIDE DEF x
<1>8. Closes'
  <2>1. Closes
    BY DEF ReviewInvariant
  <2>2. \A y \in closes' : DOMAIN y = {"snap", "job", "active"}
    BY <1>1, <1>6, <2>1 DEF Closes
  <2>3. \A y, z \in closes' : y.snap = z.snap => y = z
    BY <1>1, <1>7, <2>1 DEF Closes
  <2>4. \A y, z \in ActiveCloses' : y.job = z.job => y = z
    BY <1>6, <1>7, <2>1 DEF Closes
  <2> QED
    BY <2>2, <2>3, <2>4 DEF Closes
<1>9. \A q \in Runs \ {r} : RunInvariant(q)'
  <2> DEFINE Q == Runs \ {r}
  <2>1. \A q \in Q : Held(q)' /\ run[q].pc \notin Resting =>
            /\ Held(q)
            /\ q \in EntryRuns => OpenUnits' <= OpenUnits /\ Pending' \subseteq Pending
            /\ \A y \in ActiveCloses' : y \in ActiveCloses \/ y.job # JobOf[q]
    <3>1. ASSUME NEW q \in Q, Held(q)' PROVE Held(q) /\ (CanClose(r) => x.job # JobOf[q])
      BY <1>1, <1>6, <1>7, <3>1 DEF Held
    <3> QED
      BY <1>5, <1>6, <3>1
  <2>2. Q \subseteq Runs /\ \A q \in Q : run'[q] = run[q]
    BY <1>2
  <2>3. decisions \subseteq decisions' /\ reviews \subseteq reviews'
    BY <1>1
  <2> HIDE DEF Q
  <2>4. \A q \in Q : RunInvariant(q)'
    BY <1>5, <2>1, <2>2, <2>3, Bystanders
  <2> QED
    BY <2>4 DEF Q
<1>10. Tables' /\ OpenUnits' <= Capacity /\ OnePendingPerSymbol' /\ IntentWasApproved'
  BY <1>1, <1>2, <1>5 DEF ReviewInvariant, Tables, OnePendingPerSymbol, IntentWasApproved
<1> QED
  BY <1>4, <1>8, <1>9, <1>10 DEF ReviewInvariant

-----------------------------------------------------------------------------
(* The steps of the rest of the system *)

(* No run moves, and whoever holds its lease has held it. *)
LEMMA AllStand ==
    ASSUME ReviewConstants, ReviewInvariant,
           UNCHANGED <<stage, reviews, decisions, run>>, snapshot' \in 1..MaxSnapshots,
           intents' \in [Keys -> [state : IntentStates, units : 0..MaxNeed]],
           DOMAIN holder' = Jobs, \A j \in Jobs : holder'[j] \in Runs \cup {"none"},
           Closes', ActiveCloses' \subseteq ActiveCloses \/ closes' = closes,
           OpenUnits' \in Nat, OpenUnits' <= OpenUnits, Pending' \subseteq Pending,
           \A q \in Runs : Held(q)' /\ run[q].pc \notin Resting => Held(q),
           IntentWasApproved'
    PROVE  ReviewInvariant'
<1>1. OpenUnits \in Nat /\ OpenUnits' <= Capacity
  <2>1. Tables /\ OpenUnits <= Capacity
    BY DEF ReviewInvariant
  <2>2. OpenUnits \in Nat
    BY <2>1, OpenUnitsAreNatural
  <2> QED
    BY <2>1, <2>2 DEF ReviewConstants
<1>2. OnePendingPerSymbol'
  BY DEF ReviewInvariant, OnePendingPerSymbol
<1>3. Tables'
  BY DEF ReviewInvariant, Tables
<1>4. ActiveCloses' \subseteq ActiveCloses
  BY DEF ActiveCloses
<1>5. \A q \in Runs : RunInvariant(q)'
  <2> DEFINE Q == Runs
  <2>1. \A q \in Q : Held(q)' /\ run[q].pc \notin Resting =>
            /\ Held(q)
            /\ q \in EntryRuns => OpenUnits' <= OpenUnits /\ Pending' \subseteq Pending
            /\ \A y \in ActiveCloses' : y \in ActiveCloses \/ y.job # JobOf[q]
    BY <1>4
  <2>2. Q \subseteq Runs /\ \A q \in Q : run'[q] = run[q]
    OBVIOUS
  <2>3. decisions \subseteq decisions' /\ reviews \subseteq reviews'
    OBVIOUS
  <2> HIDE DEF Q
  <2>4. \A q \in Q : RunInvariant(q)'
    BY <1>1, <2>1, <2>2, <2>3, Bystanders
  <2> QED
    BY <2>4 DEF Q
<1> QED
  BY <1>1, <1>2, <1>3, <1>5 DEF ReviewInvariant

LEMMA AcquireStep ==
    ASSUME ReviewConstants, ReviewInvariant, NEW r \in Runs, Acquire(r)
    PROVE  ReviewInvariant'
<1>1. /\ run[r].pc = "idle" /\ holder' = [holder EXCEPT ![JobOf[r]] = r]
      /\ UNCHANGED <<stage, snapshot, reviews, intents, decisions, closes, run>>
  BY DEF Acquire
<1>2. OpenUnits' = OpenUnits /\ Pending' = Pending /\ OpenUnits \in Nat
  BY <1>1, SameIntents, OpenUnitsAreNatural DEF ReviewInvariant
<1>3. DOMAIN holder' = Jobs /\ \A j \in Jobs : holder'[j] \in Runs \cup {"none"}
  BY <1>1 DEF ReviewInvariant, Tables
<1>4. ASSUME NEW q \in Runs, Held(q)', run[q].pc \notin Resting PROVE Held(q)
  <2>1. q # r
    BY <1>1, <1>4 DEF Resting
  <2>2. JobOf[q] \in Jobs /\ DOMAIN holder = Jobs
    BY DEF Jobs, ReviewInvariant, Tables
  <2>3. holder'[JobOf[q]] = q
    BY <1>1, <1>4 DEF Held
  <2>4. JobOf[q] # JobOf[r]
    BY <1>1, <2>1, <2>2, <2>3
  <2> QED
    BY <1>1, <2>2, <2>3, <2>4 DEF Held
<1>5. Closes' /\ IntentWasApproved'
  BY <1>1 DEF ReviewInvariant, Closes, ActiveCloses, IntentWasApproved
<1>6. /\ snapshot' \in 1..MaxSnapshots
      /\ intents' \in [Keys -> [state : IntentStates, units : 0..MaxNeed]]
  BY <1>1 DEF ReviewInvariant, Tables
<1>7. OpenUnits' \in Nat /\ OpenUnits' <= OpenUnits /\ Pending' \subseteq Pending
  BY <1>2
<1> QED
  BY <1>1, <1>3, <1>4, <1>5, <1>6, <1>7, AllStand

LEMMA NewSnapshotStep ==
    ASSUME ReviewConstants, ReviewInvariant, NewSnapshot
    PROVE  ReviewInvariant'
<1>1. /\ snapshot < MaxSnapshots /\ snapshot' = snapshot + 1
      /\ UNCHANGED <<stage, reviews, intents, decisions, closes, holder, run>>
  BY DEF NewSnapshot
<1>2. OpenUnits' = OpenUnits /\ Pending' = Pending /\ OpenUnits \in Nat
  BY <1>1, SameIntents, OpenUnitsAreNatural DEF ReviewInvariant
<1>3. snapshot' \in 1..MaxSnapshots
  BY <1>1 DEF ReviewInvariant, Tables, ReviewConstants
<1>4. /\ intents' \in [Keys -> [state : IntentStates, units : 0..MaxNeed]]
      /\ DOMAIN holder' = Jobs /\ \A j \in Jobs : holder'[j] \in Runs \cup {"none"}
  BY <1>1 DEF ReviewInvariant, Tables
<1>5. Closes' /\ IntentWasApproved'
  BY <1>1 DEF ReviewInvariant, Closes, ActiveCloses, IntentWasApproved
<1>6. OpenUnits' \in Nat /\ OpenUnits' <= OpenUnits /\ Pending' \subseteq Pending
  BY <1>2
<1>7. \A q \in Runs : Held(q)' => Held(q)
  BY <1>1 DEF Held
<1> QED
  BY <1>1, <1>3, <1>4, <1>5, <1>6, <1>7, AllStand

(* What is reserved, ordered, filled or settled was pending before. *)
LEMMA IntentMovesStep ==
    ASSUME ReviewConstants, ReviewInvariant, NEW k \in Keys, IntentMoves(k)
    PROVE  ReviewInvariant'
<1>1. PICK t \in {"reserved", "ordered", "held", "closed"} : intents' = [intents EXCEPT ![k].state = t]
  <2>1. intents[k].state \in {"created", "reserved", "ordered", "held"}
    BY DEF IntentMoves, NextState
  <2>2. NextState[intents[k].state] \subseteq {"reserved", "ordered", "held", "closed"}
    BY <2>1 DEF NextState
  <2> QED
    BY <2>2 DEF IntentMoves
<1>2. /\ intents[k].state \in Busied
      /\ UNCHANGED <<stage, snapshot, reviews, decisions, closes, holder, run>>
  BY DEF IntentMoves, NextState, Busied
<1>3. Tables /\ intents \in [Keys -> [state : IntentStates, units : 0..MaxNeed]]
  BY DEF ReviewInvariant, Tables
<1>4. intents[k] \in [state : IntentStates, units : 0..MaxNeed]
  BY <1>3
<1>5. /\ intents'[k].state = t /\ intents'[k].units = intents[k].units
      /\ intents'[k] \in [state : IntentStates, units : 0..MaxNeed]
      /\ \A q \in Keys \ {k} : intents'[q] = intents[q]
  BY <1>1, <1>3, <1>4 DEF IntentStates
<1>6. intents' \in [Keys -> [state : IntentStates, units : 0..MaxNeed]]
  BY <1>1, <1>3, <1>5
<1>7. Tables'
  BY <1>2, <1>3, <1>6 DEF Tables
<1>8. InForce[k] = intents[k].units /\ InForce'[k] \in {0, intents[k].units}
  BY <1>2, <1>5 DEF InForce
<1>9. OpenUnits' \in Nat /\ OpenUnits' <= OpenUnits
  <2>1. /\ OpenUnits \in Nat /\ OpenUnits' \in Nat /\ InForce[k] \in Nat
        /\ OpenUnits' = OpenUnits - InForce[k] + InForce'[k]
    BY <1>3, <1>5, <1>7, OneIntent
  <2> QED
    BY <1>8, <2>1
<1>10. Pending' \subseteq Pending
  BY <1>1, <1>5 DEF Pending
<1>11. IntentWasApproved'
  <2>1. \A q \in Keys : intents'[q].units = intents[q].units /\ (intents'[q].state # "none" => intents[q].state # "none")
    BY <1>2, <1>5 DEF Busied
  <2> QED
    BY <1>2, <2>1 DEF ReviewInvariant, IntentWasApproved
<1>12. Closes' /\ closes' = closes /\ \A q \in Runs : Held(q)' => Held(q)
  BY <1>2 DEF ReviewInvariant, Closes, ActiveCloses, Held
<1>13. /\ snapshot' \in 1..MaxSnapshots
       /\ DOMAIN holder' = Jobs /\ \A j \in Jobs : holder'[j] \in Runs \cup {"none"}
  BY <1>7 DEF Tables
<1> QED
  BY <1>2, <1>6, <1>9, <1>10, <1>11, <1>12, <1>13, AllStand

LEMMA CloseEndsStep ==
    ASSUME ReviewConstants, ReviewInvariant, NEW x \in ActiveCloses, CloseEnds(x)
    PROVE  ReviewInvariant'
<1> DEFINE y == [x EXCEPT !.active = FALSE]
<1>1. /\ closes' = (closes \ {x}) \cup {y}
      /\ UNCHANGED <<stage, snapshot, reviews, intents, decisions, holder, run>>
  BY DEF CloseEnds
<1>2. Closes /\ x \in closes /\ DOMAIN x = {"snap", "job", "active"}
  BY DEF ReviewInvariant, Closes, ActiveCloses
<1>3. DOMAIN y = {"snap", "job", "active"} /\ y.snap = x.snap /\ y.active = FALSE
  BY <1>2
<1> HIDE DEF y
<1>4. ActiveCloses' \subseteq ActiveCloses
  BY <1>1, <1>3 DEF ActiveCloses
<1>5. Closes'
  <2>1. \A z \in closes' : DOMAIN z = {"snap", "job", "active"}
    BY <1>1, <1>2, <1>3 DEF Closes
  <2>2. \A z, w \in closes' : z.snap = w.snap => z = w
    BY <1>1, <1>2, <1>3 DEF Closes
  <2>3. \A z, w \in ActiveCloses' : z.job = w.job => z = w
    BY <1>2, <1>4 DEF Closes
  <2> QED
    BY <2>1, <2>2, <2>3 DEF Closes
<1>6. OpenUnits' = OpenUnits /\ Pending' = Pending /\ OpenUnits \in Nat
  BY <1>1, SameIntents, OpenUnitsAreNatural DEF ReviewInvariant
<1>7. OpenUnits' \in Nat /\ OpenUnits' <= OpenUnits /\ Pending' \subseteq Pending
  BY <1>6
<1>8. /\ snapshot' \in 1..MaxSnapshots
      /\ intents' \in [Keys -> [state : IntentStates, units : 0..MaxNeed]]
      /\ DOMAIN holder' = Jobs /\ \A j \in Jobs : holder'[j] \in Runs \cup {"none"}
  BY <1>1 DEF ReviewInvariant, Tables
<1>9. IntentWasApproved' /\ \A q \in Runs : Held(q)' => Held(q)
  BY <1>1 DEF ReviewInvariant, IntentWasApproved, Held
<1> QED
  BY <1>1, <1>4, <1>5, <1>7, <1>8, <1>9, AllStand

-----------------------------------------------------------------------------
(* The theorems *)

LEMMA ReviewsBegin == ASSUME ReviewConstants, Init PROVE ReviewInvariant
<1>1. Tables
  BY DEF Init, Tables, NoIntent, IntentStates, ReviewConstants
<1>2. Closes /\ OnePendingPerSymbol /\ IntentWasApproved /\ ActiveCloses = {} /\ Pending = {}
  BY DEF Init, Closes, ActiveCloses, OnePendingPerSymbol, Pending, IntentWasApproved, NoIntent
<1>3. OpenUnits = 0
  <2> DEFINE a == InForce
             T == {}
  <2>1. T \subseteq Keys /\ (\A k \in T : a[k] = a[k]) /\ \A k \in Keys \ T : a[k] = 0
    BY DEF InForce, Init, NoIntent, Busied
  <2> HIDE DEF a
  <2>2. SumOver(a, T) = SumOver(a, Keys) /\ SumOver(a, T) = 0
    BY <2>1, SumOfSome, SumOfNone
  <2> QED
    BY <2>2 DEF OpenUnits, a
<1>4. ASSUME NEW r \in Runs PROVE RunInvariant(r)
  <2> DEFINE s == run[r]
  <2>1. /\ s.pc = "idle" /\ s.todo = {} /\ s.verdict = <<>> /\ s.ctx.options = 0
        /\ DOMAIN s = Fields
    BY DEF Init, IdleRun, Fields, NoContext
  <2>2. DOMAIN s.verdict = {}
    BY <2>1
  <2> HIDE DEF s
  <2>3. Verdict(s.verdict) /\ Options(s.verdict) = {}
    BY <2>2 DEF Verdict, Gives, Options
  <2>4. SumOver(UnitsOf(s.verdict), Options(s.verdict)) = 0
    BY <2>3, SumOfNone
  <2>5. RunShape(r)
    BY <2>1, <2>3, <2>4 DEF RunShape, Pcs, s
  <2>6. Picture(r) /\ Recorded(r) /\ Fits(r)
    BY <2>1 DEF Picture, Recorded, Fits, Reading, Writing, s
  <2> QED
    BY <2>5, <2>6 DEF RunInvariant
<1>5. OpenUnits <= Capacity
  BY <1>3 DEF ReviewConstants
<1> QED
  BY <1>1, <1>2, <1>4, <1>5 DEF ReviewInvariant

LEMMA ReviewStep ==
    ASSUME ReviewConstants, ReviewInvariant, [Next]_vars
    PROVE  ReviewInvariant'
<1>1. ASSUME NEW r \in Runs, EntryReview(r) PROVE ReviewInvariant'
  <2>1. CASE ReadThrows(r)
    BY <2>1, RunEnds DEF ReadThrows
  <2> QED
    BY <1>1, <2>1, ReadStep, BlockStep, PersistStep, SkipStep, InsertReviewStep, InsertIntentStep,
       SizedStep DEF EntryReview
<1>2. ASSUME NEW r \in Runs, Crash(r) PROVE ReviewInvariant'
  BY <1>2, RunEnds DEF Crash
<1>3. CASE UNCHANGED vars
  <2>1. stage' = stage /\ UNCHANGED <<snapshot, reviews, intents, decisions, closes, holder, run>>
    BY <1>3 DEF vars
  <2>2. OpenUnits' = OpenUnits /\ Pending' = Pending /\ OpenUnits \in Nat
    BY <2>1, SameIntents, OpenUnitsAreNatural DEF ReviewInvariant
  <2>3. OpenUnits' \in Nat /\ OpenUnits' <= OpenUnits /\ Pending' \subseteq Pending
    BY <2>2
  <2>4. /\ snapshot' \in 1..MaxSnapshots
        /\ intents' \in [Keys -> [state : IntentStates, units : 0..MaxNeed]]
        /\ DOMAIN holder' = Jobs /\ \A j \in Jobs : holder'[j] \in Runs \cup {"none"}
    BY <2>1 DEF ReviewInvariant, Tables
  <2>5. Closes' /\ IntentWasApproved' /\ \A q \in Runs : Held(q)' => Held(q)
    BY <2>1 DEF ReviewInvariant, Closes, ActiveCloses, IntentWasApproved, Held
  <2> QED
    BY <2>1, <2>3, <2>4, <2>5, AllStand
<1> QED
  BY <1>1, <1>2, <1>3, ReadExitStep, InsertExitStep, AcquireStep, NewSnapshotStep, IntentMovesStep,
     CloseEndsStep DEF Next

LEMMA InvariantIsEnough ==
    ASSUME ReviewConstants, ReviewInvariant
    PROVE  TypeOK /\ ReviewsAreSound
<1>1. TypeOK
  BY DEF ReviewInvariant, Tables, RunInvariant, RunShape, Pcs, TypeOK
<1>2. WithinAllocation
  BY OpenUnitsAreTheSum DEF ReviewInvariant, WithinAllocation
<1>3. ArbitrationIsFair
  <2> SUFFICES ASSUME NEW r \in EntryRuns
               PROVE  LET given == {c \in DOMAIN run[r].verdict : run[r].verdict[c].units > 0} IN
                      /\ SumOver([c \in given |-> run[r].verdict[c].units], {c \in given : Candidate[c].option})
                            <= run[r].ctx.options
                      /\ \A c, d \in given : Candidate[c].symbol = Candidate[d].symbol => c = d
    BY DEF ArbitrationIsFair
  <2> DEFINE v == run[r].verdict
             G == {c \in DOMAIN v : v[c].units > 0}
             P == {c \in G : Candidate[c].option}
             a == [c \in G |-> v[c].units]
             b == UnitsOf(v)
  <2>1. /\ Verdict(v) /\ run[r].ctx.options \in Nat
        /\ SumOver(b, Options(v)) <= run[r].ctx.options
    BY DEF ReviewInvariant, RunInvariant, RunShape, Runs
  <2>2. P \subseteq Options(v) /\ \A c \in P : a[c] = b[c]
    BY DEF Options, UnitsOf
  <2>3. IsFiniteSet(Options(v)) /\ \A c \in Options(v) : b[c] \in Nat
    BY <2>1, VerdictIsFinite
  <2>4. \A c, d \in G : Candidate[c].symbol = Candidate[d].symbol => c = d
    BY <2>1 DEF Verdict, Gives
  <2> HIDE DEF P, a, b
  <2>5. SumOver(a, P) = SumOver(b, P)
    BY <2>2, SumOfSame
  <2>6. SumOver(b, P) <= SumOver(b, Options(v)) /\ SumOver(b, P) \in Nat /\ SumOver(b, Options(v)) \in Nat
    BY <2>2, <2>3, SumOfPart
  <2>7. SumOver(a, P) <= run[r].ctx.options
    BY <2>1, <2>5, <2>6
  <2> QED
    BY <2>4, <2>7 DEF a, P
<1>4. OneActiveClosePerJob
  BY DEF ReviewInvariant, Closes, ActiveCloses, OneActiveClosePerJob
<1> QED
  BY <1>1, <1>2, <1>3, <1>4 DEF ReviewInvariant, ReviewsAreSound

(* For any number of overlapping review runs, candidates, jobs and snapshots, *)
(* however the runs lose their lease or die between two statements: the       *)
(* intents stay within the allocation, each follows a recorded decision and   *)
(* has its review, no symbol waits twice, no arbitration gives more than it   *)
(* saw, and no job closes a position twice (runPostgresReviewWorkflow and     *)
(* arbitratePortfolioResources).                                              *)
THEOREM ReviewsStaySound == ASSUME ReviewConstants PROVE Spec => []ReviewsAreSound
<1>1. Init => ReviewInvariant
  BY ReviewsBegin
<1>2. ReviewInvariant /\ [Next]_vars => ReviewInvariant'
  BY ReviewStep
<1>3. ReviewInvariant => ReviewsAreSound
  BY InvariantIsEnough
<1> QED
  BY <1>1, <1>2, <1>3, PTL DEF Spec

(* The tables and the runs keep their types. *)
THEOREM ReviewsAreTyped == ASSUME ReviewConstants PROVE Spec => []TypeOK
<1>1. Init => ReviewInvariant
  BY ReviewsBegin
<1>2. ReviewInvariant /\ [Next]_vars => ReviewInvariant'
  BY ReviewStep
<1>3. ReviewInvariant => TypeOK
  BY InvariantIsEnough
<1> QED
  BY <1>1, <1>2, <1>3, PTL DEF Spec
=============================================================================
