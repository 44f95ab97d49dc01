--------------------------- MODULE AnalysisProofs ---------------------------
(***************************************************************************)
(* Proofs about what is made of a run when it is over: the report, for any *)
(* journal and files; the groups of its incidents and the comparison, the  *)
(* aggregate and the trend of reports, for any incidents; the results of a *)
(* matrix, for any devices, slots and times; the verdict and the exit      *)
(* code, for any options and gaps; the redaction, for any number of        *)
(* exports; the runner of the test plan, for any plan, commands and edits; *)
(* the percentages and the report of the performance test.                 *)
(*                                                                         *)
(* What is folded over a sequence or a set is followed step by step: the   *)
(* naturals are well-founded, so a set of numbers with 0 and with every    *)
(* successor has all of them (ByInduction), and the function that a fold   *)
(* chooses exists (FoldExists).                                            *)
(***************************************************************************)
EXTENDS ReportFoldCheck, RunCompare, MatrixRun, RunVerdict, Redaction, TestPlan, PerfReport,
        FiniteSetTheorems, SequenceTheorems, WellFoundedInduction, TLAPS

-----------------------------------------------------------------------------
(* Induction over the naturals, and what it gives about folds *)

\* A set of naturals that is not empty has a least element.
LEMMA LeastNatural ==
  ASSUME NEW T, T \subseteq Nat, T # {}
  PROVE  \E x \in T : \A y \in T : x <= y
<1> DEFINE R == {ss \in Nat \X Nat : ss[1] < ss[2]}
<1>1. IsWellFoundedOn(R, Nat)
  BY NatLessThanWellFounded DEF OpToRel
<1>2. PICK x \in T : \A y \in T : <<y, x>> \notin R
  <2> HIDE DEF R
  <2> QED BY <1>1, WFMin
<1>3. ASSUME NEW y \in T PROVE x <= y
  <2>1. x \in Nat /\ y \in Nat  OBVIOUS
  <2>2. ~(y < x)  BY <1>2, <2>1
  <2> QED BY <2>1, <2>2
<1> QED BY <1>3

\* Induction, for what can be said as membership in a set.
LEMMA ByInduction ==
  ASSUME NEW T, 0 \in T, \A n \in Nat : n \in T => n + 1 \in T
  PROVE  \A n \in Nat : n \in T
<1> SUFFICES ASSUME NEW m \in Nat, m \notin T PROVE FALSE
  OBVIOUS
<1> DEFINE Q == {n \in Nat : n \notin T}
<1>1. PICK x \in Q : \A y \in Q : x <= y
  <2> Q \subseteq Nat /\ Q # {}  OBVIOUS
  <2> HIDE DEF Q
  <2> QED BY LeastNatural
<1>2. x \in Nat /\ x # 0  OBVIOUS
<1>3. x - 1 \in Nat /\ x - 1 \notin Q  BY <1>1, <1>2
<1> QED BY <1>2, <1>3

\* A finite set that is not empty has a best element, for every preference R.
LEMMA BestIsThere ==
  ASSUME NEW S, IsFiniteSet(S), S # {}, NEW R,
         \A x, y \in S : <<x, y>> \in R \/ <<y, x>> \in R,
         \A x, y, z \in S : <<x, y>> \in R /\ <<y, z>> \in R => <<x, z>> \in R
  PROVE  \E x \in S : \A y \in S : <<x, y>> \in R
<1> DEFINE T == {n \in Nat : \A U \in SUBSET S :
                    U # {} /\ Cardinality(U) <= n => \E x \in U : \A y \in U : <<x, y>> \in R}
<1>1. 0 \in T
  <2> SUFFICES ASSUME NEW U \in SUBSET S, U # {}, Cardinality(U) <= 0 PROVE FALSE
    OBVIOUS
  <2>1. IsFiniteSet(U) /\ Cardinality(U) \in Nat  BY FS_Subset, FS_CardinalityType
  <2>2. Cardinality(U) = 0  BY <2>1
  <2> QED BY <2>1, <2>2, FS_EmptySet
<1>2. ASSUME NEW n \in Nat, n \in T PROVE n + 1 \in T
  <2> SUFFICES ASSUME NEW U \in SUBSET S, U # {}, Cardinality(U) <= n + 1
               PROVE  \E x \in U : \A y \in U : <<x, y>> \in R
    OBVIOUS
  <2>1. PICK u \in U : TRUE  OBVIOUS
  <2>2. IsFiniteSet(U) /\ Cardinality(U) \in Nat  BY FS_Subset, FS_CardinalityType
  <2>3. Cardinality(U \ {u}) <= n
    <3>1. Cardinality(U \ {u}) = Cardinality(U) - 1  BY <2>1, <2>2, FS_RemoveElement
    <3> QED BY <2>2, <3>1
  <2>4. <<u, u>> \in R  OBVIOUS
  <2>5. CASE U \ {u} = {}
    <3>1. \A y \in U : y = u  BY <2>5
    <3> QED BY <3>1, <2>1, <2>4
  <2>6. CASE U \ {u} # {}
    <3>1. PICK x \in U \ {u} : \A y \in U \ {u} : <<x, y>> \in R  BY <1>2, <2>3, <2>6
    <3>2. CASE <<x, u>> \in R
      <4>1. \A y \in U : <<x, y>> \in R  BY <3>1, <3>2
      <4> QED BY <4>1
    <3>3. CASE <<u, x>> \in R
      <4>1. \A y \in U : <<u, y>> \in R  BY <2>4, <3>1, <3>3
      <4> QED BY <4>1
    <3> QED BY <3>2, <3>3
  <2> QED BY <2>5, <2>6
<1>3. \A n \in Nat : n \in T
  <2> HIDE DEF T
  <2> QED BY <1>1, <1>2, ByInduction
<1>4. S \in SUBSET S /\ Cardinality(S) \in T /\ Cardinality(S) <= Cardinality(S)
  BY <1>3, FS_CardinalityType
<1> QED BY <1>4

\* A finite set of integers that is not empty has a greatest element.
LEMMA MaxIsThere ==
  ASSUME NEW S, IsFiniteSet(S), S # {}, S \subseteq Int
  PROVE  Max(S) \in S /\ \A y \in S : Max(S) >= y
<1> DEFINE R == {z \in S \X S : z[1] >= z[2]}
<1>1. \A x, y \in S : <<x, y>> \in R <=> x >= y  OBVIOUS
<1>2. PICK x \in S : \A y \in S : <<x, y>> \in R
  <2>1. \A x, y \in S : <<x, y>> \in R \/ <<y, x>> \in R
    <3>1. \A x, y \in Int : x >= y \/ y >= x  OBVIOUS
    <3> HIDE DEF R
    <3> QED BY <1>1, <3>1
  <2>2. \A x, y, z \in S : <<x, y>> \in R /\ <<y, z>> \in R => <<x, z>> \in R  BY <1>1
  <2> HIDE DEF R
  <2> QED BY <2>1, <2>2, BestIsThere
<1>3. \A y \in S : x >= y  BY <1>1, <1>2
<1> QED BY <1>3 DEF Max

\* A finite set of integers that is not empty has a least element.
LEMMA MinIsThere ==
  ASSUME NEW S, IsFiniteSet(S), S # {}, S \subseteq Int
  PROVE  Min(S) \in S /\ \A y \in S : Min(S) <= y
<1> DEFINE R == {z \in S \X S : z[1] <= z[2]}
<1>1. \A x, y \in S : <<x, y>> \in R <=> x <= y  OBVIOUS
<1>2. PICK x \in S : \A y \in S : <<x, y>> \in R
  <2>1. \A x, y \in S : <<x, y>> \in R \/ <<y, x>> \in R
    <3>1. \A x, y \in Int : x <= y \/ y <= x  OBVIOUS
    <3> HIDE DEF R
    <3> QED BY <1>1, <3>1
  <2>2. \A x, y, z \in S : <<x, y>> \in R /\ <<y, z>> \in R => <<x, z>> \in R  BY <1>1
  <2> HIDE DEF R
  <2> QED BY <2>1, <2>2, BestIsThere
<1>3. \A y \in S : x <= y  BY <1>1, <1>2
<1> QED BY <1>3 DEF Min

\* c says of a set of elements of S which one a fold takes first.
Takes(c, S) == \A t \in SUBSET S : t # {} => c[t] \in t

\* h is the fold of the sets of elements of S with the step g, from the value b on.
IsFold(h, S, b, c, g) ==
    \A t \in SUBSET S : h[t] = IF t = {} THEN b ELSE g[<<c[t], h[t \ {c[t]}]>>]

\* What a fold is defined by has a solution: whatever the order c in which the
\* elements of a finite set are taken, and the step g.
LEMMA FoldExists ==
  ASSUME NEW S, IsFiniteSet(S), NEW V, NEW b \in V, NEW g \in [S \X V -> V],
         NEW c, Takes(c, S)
  PROVE  \E h \in [SUBSET S -> V] : IsFold(h, S, b, c, g)
<1> DEFINE Small(n) == {t \in SUBSET S : Cardinality(t) <= n}
           Folds(n) == {h \in [Small(n) -> V] : \A t \in Small(n) :
                           h[t] = IF t = {} THEN b ELSE g[<<c[t], h[t \ {c[t]}]>>]}
           T == {n \in Nat : Folds(n) # {}}
<1>1. \A t \in SUBSET S : IsFiniteSet(t) /\ Cardinality(t) \in Nat
  BY FS_Subset, FS_CardinalityType
<1>2. \A t \in SUBSET S : t # {} =>
         c[t] \in S /\ t \ {c[t]} \in SUBSET S
            /\ Cardinality(t \ {c[t]}) = Cardinality(t) - 1
  BY <1>1, FS_RemoveElement DEF Takes
<1>3. 0 \in T
  <2> DEFINE h == [t \in Small(0) |-> b]
  <2>1. \A t \in Small(0) : t = {}  BY <1>1, FS_EmptySet
  <2>2. h \in Folds(0)  BY <2>1
  <2> QED BY <2>2
<1>4. ASSUME NEW n \in Nat, n \in T PROVE n + 1 \in T
  <2>1. PICK h \in Folds(n) : TRUE  BY <1>4
  <2> DEFINE k == [t \in Small(n + 1) |-> IF t \in Small(n) THEN h[t]
                                          ELSE g[<<c[t], h[t \ {c[t]}]>>]]
  <2>2. \A t \in Small(n) : t \in Small(n + 1)  BY <1>1
  <2>3. ASSUME NEW t \in Small(n + 1), t # {}
        PROVE  c[t] \in S /\ t \ {c[t]} \in Small(n) /\ h[t \ {c[t]}] \in V
    <3>1. Cardinality(t \ {c[t]}) <= n  BY <1>1, <1>2, <2>3
    <3> QED BY <1>2, <3>1, <2>3
  <2>4. \A t \in Small(n + 1) : t \notin Small(n) => t # {}
    <3>1. {} \in Small(n)  BY FS_EmptySet
    <3> QED BY <3>1
  <2>5. k \in [Small(n + 1) -> V]
    <3> SUFFICES ASSUME NEW t \in Small(n + 1)
                 PROVE  (IF t \in Small(n) THEN h[t] ELSE g[<<c[t], h[t \ {c[t]}]>>]) \in V
      OBVIOUS
    <3>1. CASE t \in Small(n)  BY <3>1
    <3>2. CASE t \notin Small(n)
      <4>1. c[t] \in S /\ h[t \ {c[t]}] \in V  BY <2>3, <2>4, <3>2
      <4> QED BY <4>1, <3>2
    <3> QED BY <3>1, <3>2
  <2>6. ASSUME NEW t \in Small(n + 1)
        PROVE  k[t] = IF t = {} THEN b ELSE g[<<c[t], k[t \ {c[t]}]>>]
    <3>1. CASE t = {}
      <4>1. t \in Small(n)  BY <3>1, FS_EmptySet
      <4> QED BY <3>1, <4>1
    <3>2. CASE t # {}
      <4>1. k[t \ {c[t]}] = h[t \ {c[t]}]  BY <2>2, <2>3, <3>2
      <4>2. CASE t \in Small(n)
        <5>1. k[t] = h[t]  BY <4>2
        <5> HIDE DEF k
        <5> QED BY <4>1, <4>2, <5>1, <3>2
      <4>3. CASE t \notin Small(n)
        <5>1. k[t] = g[<<c[t], h[t \ {c[t]}]>>]  BY <4>3
        <5> HIDE DEF k
        <5> QED BY <4>1, <5>1, <3>2
      <4> QED BY <4>2, <4>3
    <3> QED BY <3>1, <3>2
  <2>7. k \in Folds(n + 1)
    <3> HIDE DEF k
    <3> QED BY <2>5, <2>6
  <2>8. Folds(n + 1) # {}
    <3> HIDE DEF Folds, k
    <3> QED BY <2>7
  <2> HIDE DEF Folds
  <2> QED BY <2>8
<1>5. \A n \in Nat : n \in T
  <2> HIDE DEF T
  <2> QED BY <1>3, <1>4, ByInduction
<1>6. PICK h \in Folds(Cardinality(S)) : TRUE
  <2>1. Cardinality(S) \in Nat  BY FS_CardinalityType
  <2>2. Cardinality(S) \in T  BY <1>5, <2>1
  <2> HIDE DEF Folds
  <2> QED BY <2>2
<1>7. Small(Cardinality(S)) = SUBSET S
  BY FS_Subset
<1> QED BY <1>6, <1>7 DEF IsFold

\* The order in which FoldLeft takes the elements of a sequence: the last one first.
LastOf(N) == [t \in SUBSET (1 .. N) |-> Max(t)]

\* That is an element; and of 1 .. n it is n.
LEMMA LastFirst ==
  ASSUME NEW N \in Nat
  PROVE  /\ Takes(LastOf(N), 1 .. N)
         /\ \A t \in SUBSET (1 .. N) : LastOf(N)[t] = Max(t) /\ (t # {} => Max(t) \in t)
         /\ \A n \in 1 .. N : Max(1 .. n) = n /\ (1 .. n) \ {n} = 1 .. n - 1
<1>1. ASSUME NEW t \in SUBSET (1 .. N), t # {} PROVE Max(t) \in t
  <2>1. IsFiniteSet(t)
    <3>1. IsFiniteSet(1 .. N)  BY FS_Interval
    <3> QED BY <3>1, FS_Subset
  <2>2. t \subseteq Int  OBVIOUS
  <2> QED BY <1>1, <2>1, <2>2, MaxIsThere
<1>2. ASSUME NEW n \in 1 .. N PROVE Max(1 .. n) = n
  <2>1. n \in 1 .. n /\ \A y \in 1 .. n : n >= y  OBVIOUS
  <2>2. \A x \in 1 .. n : (\A y \in 1 .. n : x >= y) => x = n  OBVIOUS
  <2> QED BY <2>1, <2>2 DEF Max
<1> QED BY <1>1, <1>2 DEF Takes, LastOf

\* 1 .. n has n elements.
LEMMA IntervalSize == \A n \in Nat : IsFiniteSet(1 .. n) /\ Cardinality(1 .. n) = n
<1> TAKE n \in Nat
<1>1. /\ IsFiniteSet(1 .. n)
      /\ Cardinality(1 .. n) = IF 1 > n THEN 0 ELSE n - 1 + 1
  BY FS_Interval
<1> QED BY <1>1

\* The elements of a set, all with one label.
Tagged(x, S) == {x} \X S

\* There are as many.
LEMMA TaggedSize ==
  ASSUME NEW x, NEW S, IsFiniteSet(S)
  PROVE  IsFiniteSet(Tagged(x, S)) /\ Cardinality(Tagged(x, S)) = Cardinality(S)
<1> DEFINE f == [y \in S |-> <<x, y>>]
<1>1. f \in Bijection(S, Tagged(x, S))
  <2>1. f \in [S -> Tagged(x, S)]  BY DEF Tagged
  <2>2. \A y, z \in S : f[y] = f[z] => y = z  OBVIOUS
  <2>3. \A u \in Tagged(x, S) : \E y \in S : f[y] = u  BY DEF Tagged
  <2> HIDE DEF f
  <2> QED BY <2>1, <2>2, <2>3 DEF Bijection, Injection, Surjection, IsInjective
<1>2. ExistsBijection(S, Tagged(x, S))  BY <1>1 DEF ExistsBijection
<1> QED BY <1>2, FS_Bijection

\* What the sets I[x] hold together.
AllOf(I, S) == UNION {I[x] : x \in S}

\* h is the sum of the F[x]; and each F[x] counts a set I[x] of its own.
IsSum(h, S, c, F) ==
    \A t \in SUBSET S :
        /\ t = {} => h[t] = 0
        /\ t # {} => \/ h[t] = h[t \ {c[t]}] + F[c[t]]
                     \/ h[t] = F[c[t]] + h[t \ {c[t]}]
CountsEach(F, S, I) ==
    /\ \A x \in S : IsFiniteSet(I[x]) /\ F[x] = Cardinality(I[x])
    /\ \A x, y \in S : x # y => I[x] \cap I[y] = {}

\* The sum of numbers, each of which counts a set of its own, counts all of them.
LEMMA SumCounts ==
  ASSUME NEW S, IsFiniteSet(S), NEW c, Takes(c, S), NEW F, NEW h, IsSum(h, S, c, F),
         NEW I, CountsEach(F, S, I)
  PROVE  IsFiniteSet(AllOf(I, S)) /\ h[S] = Cardinality(AllOf(I, S))
<1> DEFINE Of(t) == UNION {I[x] : x \in t}
           Counted(t) == IsFiniteSet(Of(t)) /\ h[t] = Cardinality(Of(t))
           T == {n \in Nat : \A t \in SUBSET S : Cardinality(t) = n => Counted(t)}
<1>1. \A t \in SUBSET S : IsFiniteSet(t) /\ Cardinality(t) \in Nat
  BY FS_Subset, FS_CardinalityType
<1>2. 0 \in T
  <2> SUFFICES ASSUME NEW t \in SUBSET S, Cardinality(t) = 0 PROVE Counted(t)
    OBVIOUS
  <2>1. t = {}  BY <1>1, FS_EmptySet
  <2>2. Of(t) = {}  BY <2>1
  <2>3. h[t] = 0  BY <2>1 DEF IsSum
  <2> QED BY <2>2, <2>3, FS_EmptySet
<1>3. ASSUME NEW n \in Nat, n \in T PROVE n + 1 \in T
  <2> SUFFICES ASSUME NEW t \in SUBSET S, Cardinality(t) = n + 1 PROVE Counted(t)
    OBVIOUS
  <2> DEFINE x == c[t]
             u == t \ {c[t]}
  <2>1. t # {}
    <3>1. n + 1 # 0  OBVIOUS
    <3> QED BY <3>1, FS_EmptySet
  <2>2. x \in t /\ x \in S /\ u \in SUBSET S  BY <2>1 DEF Takes
  <2>3. Cardinality(u) = n
    <3>1. Cardinality(u) = Cardinality(t) - 1  BY <1>1, <2>2, FS_RemoveElement
    <3> QED BY <3>1
  <2>4. Counted(u)  BY <1>3, <2>2, <2>3
  <2>5. Of(t) = Of(u) \cup I[x]  BY <2>2
  <2>6. Of(u) \cap I[x] = {}
    <3>1. \A y \in u : I[y] \cap I[x] = {}  BY <2>2 DEF CountsEach
    <3> QED BY <3>1
  <2>7. IsFiniteSet(I[x]) /\ F[x] = Cardinality(I[x]) /\ Cardinality(I[x]) \in Nat
    BY <2>2, FS_CardinalityType DEF CountsEach
  <2>8. IsFiniteSet(Of(t)) /\ Cardinality(Of(t)) = Cardinality(Of(u)) + Cardinality(I[x])
    <3> HIDE DEF Of, u, x
    <3>1. IsFiniteSet(Of(u)) /\ Cardinality(Of(u)) \in Nat  BY <2>4, FS_CardinalityType
    <3>2. Cardinality(Of(u) \cap I[x]) = 0  BY <2>6, FS_EmptySet
    <3>3. /\ IsFiniteSet(Of(u) \cup I[x])
          /\ Cardinality(Of(u) \cup I[x]) =
                Cardinality(Of(u)) + Cardinality(I[x]) - Cardinality(Of(u) \cap I[x])
      BY <2>7, <3>1, FS_Union
    <3> QED BY <2>5, <2>7, <3>1, <3>2, <3>3
  <2>9. h[t] = h[u] + F[x] \/ h[t] = F[x] + h[u]  BY <2>1 DEF IsSum
  <2> HIDE DEF Of, u, x
  <2>10. h[u] \in Nat /\ F[x] \in Nat  BY <2>4, <2>7, FS_CardinalityType
  <2> QED BY <2>4, <2>7, <2>8, <2>9, <2>10
<1>4. \A n \in Nat : n \in T
  <2> HIDE DEF T
  <2> QED BY <1>2, <1>3, ByInduction
<1>5. Counted(S)
  <2>1. S \in SUBSET S /\ Cardinality(S) \in T  BY <1>1, <1>4
  <2> HIDE DEF Counted
  <2> QED BY <2>1
<1> QED BY <1>5 DEF AllOf

\* FoldLeft(+, 0, s) is such a sum.
LEMMA FoldLeftSums ==
  ASSUME NEW s \in Seq(Int)
  PROVE  \E h : IsSum(h, 1 .. Len(s), LastOf(Len(s)), s) /\ FoldLeft(+, 0, s) = h[1 .. Len(s)]
<1> DEFINE D == 1 .. Len(s)
           c == LastOf(Len(s))
           g == [z \in D \X Int |-> z[2] + s[z[1]]]
           Is(h) == h = [t \in SUBSET D |-> IF t = {} THEN 0
                                            ELSE h[t \ {Max(t)}] + s[Max(t)]]
<1>1. /\ Takes(c, D)
      /\ \A t \in SUBSET D : c[t] = Max(t) /\ (t # {} => Max(t) \in t)
  <2>1. Len(s) \in Nat  OBVIOUS
  <2> QED BY <2>1, LastFirst
<1> HIDE DEF c
<1>2. PICK h \in [SUBSET D -> Int] : IsFold(h, D, 0, c, g)
  <2>1. g \in [D \X Int -> Int]  OBVIOUS
  <2>2. IsFiniteSet(D)  BY FS_Interval
  <2>3. 0 \in Int  OBVIOUS
  <2> HIDE DEF D, g
  <2> QED BY <1>1, <2>1, <2>2, <2>3, FoldExists
<1>3. \A t \in SUBSET D : t # {} => Max(t) \in D /\ h[t \ {Max(t)}] \in Int
  BY <1>1
<1>4. \A t \in SUBSET D : t # {} => g[<<c[t], h[t \ {c[t]}]>>] = h[t \ {Max(t)}] + s[Max(t)]
  BY <1>1, <1>3
<1>5. Is(h)
  <2>1. \A t \in SUBSET D : h[t] = IF t = {} THEN 0 ELSE h[t \ {Max(t)}] + s[Max(t)]
    BY <1>2, <1>4 DEF IsFold
  <2> QED BY <2>1
<1>6. DOMAIN s = D  OBVIOUS
<1> DEFINE k == CHOOSE it : Is(it)
<1>7. FoldLeft(+, 0, s) = k[D]
  BY <1>6 DEF FoldLeft, MapThenFoldSet
<1>8. Is(k)
  <2> HIDE DEF Is
  <2> QED BY <1>5
<1> HIDE DEF k
<1>9. \A t \in SUBSET D : k[t] = IF t = {} THEN 0 ELSE k[t \ {Max(t)}] + s[Max(t)]
  BY <1>8
<1>10. IsSum(k, D, c, s)  BY <1>1, <1>9 DEF IsSum
<1> QED BY <1>7, <1>10 DEF c
\* So it is a natural number, if those are.
LEMMA FoldLeftSumsNat ==
  ASSUME NEW s \in Seq(Nat)
  PROVE  LET all == AllOf([i \in DOMAIN s |-> {i} \X (1 .. s[i])], DOMAIN s)
         IN  IsFiniteSet(all) /\ FoldLeft(+, 0, s) = Cardinality(all)
<1> DEFINE D == 1 .. Len(s)
           c == LastOf(Len(s))
           I == [i \in D |-> {i} \X (1 .. s[i])]
<1>1. D = DOMAIN s /\ IsFiniteSet(D)  BY FS_Interval
<1>2. Takes(c, D)
  <2>1. Len(s) \in Nat  OBVIOUS
  <2> QED BY <2>1, LastFirst
<1>3. PICK h : IsSum(h, D, c, s) /\ FoldLeft(+, 0, s) = h[D]
  <2>1. s \in Seq(Int)  OBVIOUS
  <2> QED BY <2>1, FoldLeftSums
<1>5. ASSUME NEW x \in D PROVE IsFiniteSet(I[x]) /\ s[x] = Cardinality(I[x])
  <2>1. s[x] \in Nat  OBVIOUS
  <2>2. IsFiniteSet(1 .. s[x]) /\ Cardinality(1 .. s[x]) = s[x]  BY <2>1, IntervalSize
  <2> DEFINE B == 1 .. s[x]
  <2> HIDE DEF B
  <2>3. IsFiniteSet(Tagged(x, B)) /\ Cardinality(Tagged(x, B)) = s[x]
    BY <2>2, TaggedSize DEF B
  <2>4. I[x] = Tagged(x, B)  BY DEF Tagged, B
  <2> QED BY <2>3, <2>4
<1>6. \A x, y \in D : x # y => I[x] \cap I[y] = {}  OBVIOUS
<1>7. I = [i \in DOMAIN s |-> {i} \X (1 .. s[i])]  BY <1>1
<1>8. IsFiniteSet(AllOf(I, D)) /\ h[D] = Cardinality(AllOf(I, D))
  <2>1. CountsEach(s, D, I)  BY <1>5, <1>6 DEF CountsEach
  <2> HIDE DEF D, c, I
  <2> QED BY <1>1, <1>2, <1>3, <2>1, SumCounts
<1> HIDE DEF D, I
<1> QED BY <1>1, <1>3, <1>7, <1>8

\* The order in which FoldSet takes the elements of a set: any.
AnyOf(S) == [t \in SUBSET S |-> CHOOSE x \in t : TRUE]

\* Over a finite set there is a sum of numbers, taken in any order.
LEMMA SumExists ==
  ASSUME NEW S, IsFiniteSet(S), NEW F \in [S -> Nat]
  PROVE  /\ Takes(AnyOf(S), S)
         /\ \E h \in [SUBSET S -> Nat] : IsFold(h, S, 0, AnyOf(S), [z \in S \X Nat |-> z[2] + F[z[1]]])
<1>1. Takes(AnyOf(S), S)  BY DEF Takes, AnyOf
<1> DEFINE g == [z \in S \X Nat |-> z[2] + F[z[1]]]
           c == AnyOf(S)
<1>2. g \in [S \X Nat -> Nat]  OBVIOUS
<1>3. 0 \in Nat  OBVIOUS
<1> HIDE DEF g, c
<1>4. \E h \in [SUBSET S -> Nat] : IsFold(h, S, 0, c, g)
  BY <1>1, <1>2, <1>3, FoldExists DEF c
<1> QED BY <1>1, <1>4 DEF g, c

\* Two sets told apart by a label.
TwoOf(a, A, b, B) == ({a} \X A) \cup ({b} \X B)

\* They have as many elements as both, and are finite if both are.
LEMMA TwoParts ==
  ASSUME NEW A, IsFiniteSet(A), NEW B, IsFiniteSet(B), NEW a, NEW b, a # b
  PROVE  /\ IsFiniteSet(TwoOf(a, A, b, B))
         /\ Cardinality(TwoOf(a, A, b, B)) = Cardinality(A) + Cardinality(B)
         /\ Cardinality(A) \in Nat /\ Cardinality(B) \in Nat
<1>1. Cardinality(A) \in Nat /\ Cardinality(B) \in Nat  BY FS_CardinalityType
<1> DEFINE U == Tagged(a, A)
           V == Tagged(b, B)
<1>2. IsFiniteSet(U) /\ Cardinality(U) = Cardinality(A)  BY TaggedSize
<1>3. IsFiniteSet(V) /\ Cardinality(V) = Cardinality(B)  BY TaggedSize
<1>4. U \cap V = {}  BY DEF Tagged
<1> HIDE DEF U, V
<1>5. Cardinality(U \cap V) = 0  BY <1>4, FS_EmptySet
<1>6. /\ IsFiniteSet(U \cup V)
      /\ Cardinality(U \cup V) = Cardinality(U) + Cardinality(V) - Cardinality(U \cap V)
  BY <1>2, <1>3, FS_Union
<1>7. Cardinality(U \cup V) = Cardinality(A) + Cardinality(B)
  BY <1>1, <1>2, <1>3, <1>5, <1>6
<1>8. TwoOf(a, A, b, B) = U \cup V  BY DEF TwoOf, Tagged, U, V
<1> QED BY <1>1, <1>6, <1>7, <1>8

\* The numbers up to n, with a label.
Labelled(x, n) == {x} \X (1 .. n)

\* There are n of them.
LEMMA LabelledInterval ==
  ASSUME NEW x, NEW n \in Nat
  PROVE  IsFiniteSet(Labelled(x, n)) /\ n = Cardinality(Labelled(x, n))
<1> DEFINE B == 1 .. n
<1>1. IsFiniteSet(B) /\ Cardinality(B) = n  BY IntervalSize
<1>2. Labelled(x, n) = Tagged(x, B)  BY DEF Labelled, Tagged
<1> HIDE DEF B
<1> QED BY <1>1, <1>2, TaggedSize
-----------------------------------------------------------------------------
(* A matrix *)

WorkerStates == {"waiting", "running"} \cup ReturnCodes
MatrixTypes ==
    /\ worker \in [Workers -> WorkerStates]
    /\ runs \in [Workers -> 0 .. DeviceTimeout]
    /\ joining \in Nat \ {0} /\ joined \in 0 .. JoinTimeout
    /\ main \in {"joining", "reading", "counting", "over"}
    /\ aggregate \subseteq Workers /\ killed \subseteq Workers
    /\ matrixExit \in 0 .. NoCode /\ overtaken \in BOOLEAN

\* Without overtaking: a worker waits for its slot only as long as all behind it do, the
\* worker that is joined has run for as long as it has been joined, and those joined
\* before have ended.
InOrder ==
    ~overtaken =>
        /\ \A j, k \in Workers : j < k /\ worker[j] = "waiting" => worker[k] = "waiting"
        /\ \A k \in Workers : k < joining => worker[k] \in ReturnCodes
        /\ main = "joining" /\ joining \in Workers =>
              /\ worker[joining] = "waiting" => joined = 0
              /\ worker[joining] = "running" => runs[joining] + joined <= DeviceTimeout

\* The aggregate is made when the joins are over, of workers that had ended; exit code 0
\* is that of their success; and a killed worker has timed out.
AggregateTells ==
    /\ main # "joining" => joining \notin Workers
    /\ ~AggregateIsMade => aggregate = {}
    /\ AggregateIsMade => aggregate \subseteq Ended /\ (~overtaken => aggregate = Workers)
    /\ matrixExit = 0 => main = "over" /\ \A k \in aggregate : worker[k] = "ok"
    /\ \A k \in killed : worker[k] = "timed out"

MatrixInv == MatrixTypes /\ InOrder /\ AggregateTells

\* With all workers behind the joined one waiting, as it is, and all before it ended,
\* no slot is taken.
LEMMA SlotIsFree ==
  ASSUME MatrixInv, ~overtaken, joining \in Workers, worker[joining] = "waiting"
  PROVE  FreeSlot(joining)
<1>1. \A k \in Workers : worker[k] # "running"
  <2> SUFFICES ASSUME NEW k \in Workers PROVE worker[k] # "running"
    OBVIOUS
  <2>1. k < joining => worker[k] \in ReturnCodes  BY DEF MatrixInv, InOrder
  <2>2. joining < k => worker[k] = "waiting"  BY DEF MatrixInv, InOrder
  <2>3. k < joining \/ k = joining \/ joining < k  BY DEF Workers
  <2> QED BY <2>1, <2>2, <2>3 DEF ReturnCodes
<1>2. RunningDevices = {}  BY <1>1 DEF RunningDevices
<1>3. Cardinality(RunningDevices) = 0  BY <1>2, FS_EmptySet
<1> QED BY <1>3, MatrixAssumption DEF FreeSlot

LEMMA MatrixStep == MatrixInv /\ [MatrixNext]_matrixVars => MatrixInv'
<1> SUFFICES ASSUME MatrixInv, [MatrixNext]_matrixVars PROVE MatrixInv'
  OBVIOUS
<1> USE MatrixAssumption
<1>0. Workers \subseteq Nat \ {0} /\ joining \in Nat \ {0} /\ joined \in Nat /\ JoinTimeout \in Nat
  BY DEF Workers, MatrixInv, MatrixTypes, JoinTimeout
<1>1. CASE UNCHANGED matrixVars
  BY <1>1 DEF MatrixInv, MatrixTypes, InOrder, AggregateTells, AggregateIsMade, Ended, matrixVars
<1>2. ASSUME NEW d \in Workers, GetSlot(d) PROVE MatrixInv'
  <2>1. MatrixTypes'
    BY <1>2 DEF GetSlot, FreeSlot, MatrixInv, MatrixTypes, WorkerStates
  <2>2. InOrder'
    <3> SUFFICES ASSUME ~overtaken' PROVE InOrder'
      BY DEF InOrder
    <3>1. ~overtaken /\ \A j \in 1 .. d - 1 : worker[j] # "waiting"
      BY <1>2 DEF GetSlot, MatrixInv, MatrixTypes
    <3>2. \A j \in Workers : j < d => worker[j] # "waiting"
      BY <1>0, <3>1 DEF Workers
    <3>3. \A k \in Workers : k < joining => worker[k] # "waiting"
      BY <3>1 DEF MatrixInv, InOrder, ReturnCodes
    <3>4. \A j, k \in Workers : j < k /\ worker'[j] = "waiting" => worker'[k] = "waiting"
      <4> SUFFICES ASSUME NEW j \in Workers, NEW k \in Workers, j < k, worker'[j] = "waiting"
                   PROVE  worker'[k] = "waiting"
        OBVIOUS
      <4>1. j # d /\ worker[j] = "waiting"  BY <1>2 DEF GetSlot, FreeSlot, MatrixInv, MatrixTypes
      <4>2. worker[k] = "waiting"  BY <3>1, <4>1 DEF MatrixInv, InOrder
      <4>3. k # d  BY <3>2, <4>1
      <4> QED BY <1>2, <4>2, <4>3 DEF GetSlot, MatrixInv, MatrixTypes
    <3>5. \A k \in Workers : k < joining => worker'[k] \in ReturnCodes
      BY <1>2, <3>1, <3>3 DEF GetSlot, FreeSlot, MatrixInv, MatrixTypes, InOrder
    <3>6. main = "joining" /\ joining \in Workers =>
              /\ worker'[joining] = "waiting" => joined = 0
              /\ worker'[joining] = "running" => runs[joining] + joined <= DeviceTimeout
      <4>1. ASSUME main = "joining", joining = d
            PROVE  worker'[joining] = "running" /\ runs[joining] + joined <= DeviceTimeout
        <5>1. joined = 0  BY <1>2, <3>1, <4>1 DEF GetSlot, FreeSlot, MatrixInv, InOrder
        <5>2. runs[joining] \in 0 .. DeviceTimeout  BY <4>1 DEF MatrixInv, MatrixTypes
        <5> QED BY <1>2, <4>1, <5>1, <5>2 DEF GetSlot, MatrixInv, MatrixTypes
      <4>2. ASSUME joining # d, joining \in Workers PROVE worker'[joining] = worker[joining]
        BY <1>2, <4>2 DEF GetSlot, MatrixInv, MatrixTypes
      <4> QED BY <3>1, <4>1, <4>2 DEF MatrixInv, InOrder
    <3> QED BY <1>2, <3>4, <3>5, <3>6 DEF GetSlot, InOrder
  <2>3. AggregateTells'
    BY <1>2 DEF GetSlot, FreeSlot, MatrixInv, MatrixTypes, AggregateTells, AggregateIsMade, Ended,
                ReturnCodes
  <2> QED BY <2>1, <2>2, <2>3 DEF MatrixInv
<1>3. ASSUME NEW d \in Workers, NEW code \in {"ok", "failed"}, ProcessEnds(d, code) PROVE MatrixInv'
  <2>1. MatrixTypes'
    BY <1>3 DEF ProcessEnds, MatrixInv, MatrixTypes, WorkerStates, ReturnCodes
  <2>2. InOrder'
    BY <1>3 DEF ProcessEnds, MatrixInv, MatrixTypes, InOrder, ReturnCodes
  <2>3. AggregateTells'
    BY <1>3 DEF ProcessEnds, MatrixInv, MatrixTypes, AggregateTells, AggregateIsMade, Ended, ReturnCodes
  <2> QED BY <2>1, <2>2, <2>3 DEF MatrixInv
<1>4. ASSUME NEW d \in Workers, ProcessKilled(d) PROVE MatrixInv'
  <2>1. MatrixTypes'
    BY <1>4 DEF ProcessKilled, CodeOfTimeout, MatrixInv, MatrixTypes, WorkerStates, ReturnCodes
  <2>2. InOrder'
    BY <1>4 DEF ProcessKilled, CodeOfTimeout, MatrixInv, MatrixTypes, InOrder, ReturnCodes
  <2>3. AggregateTells'
    BY <1>4 DEF ProcessKilled, CodeOfTimeout, MatrixInv, MatrixTypes, AggregateTells, AggregateIsMade,
                Ended, ReturnCodes
  <2> QED BY <2>1, <2>2, <2>3 DEF MatrixInv
<1>5. CASE Join
  <2>1. MatrixTypes'
    BY <1>5, <1>0 DEF Join, MatrixInv, MatrixTypes
  <2>2. InOrder'
    <3> SUFFICES ASSUME ~overtaken PROVE InOrder'
      BY <1>5 DEF Join, InOrder
    <3>1. worker[joining] \in ReturnCodes
      <4>1. worker[joining] \in WorkerStates  BY <1>5 DEF Join, MatrixInv, MatrixTypes
      <4>2. worker[joining] = "waiting" => joined # JoinTimeout
        BY <1>5 DEF Join, MatrixInv, InOrder, JoinTimeout
      <4>3. worker[joining] = "running" => joined # JoinTimeout
        <5>1. runs[joining] \in Nat  BY <1>5 DEF Join, MatrixInv, MatrixTypes
        <5> QED BY <1>0, <1>5, <5>1 DEF Join, MatrixInv, InOrder, JoinTimeout
      <4> QED BY <1>5, <4>1, <4>2, <4>3 DEF Join, WorkerStates
    <3>2. \A k \in Workers : k < joining + 1 => worker[k] \in ReturnCodes
      <4>1. \A k \in Workers : k < joining + 1 => k < joining \/ k = joining  BY <1>0
      <4> QED BY <3>1, <4>1 DEF MatrixInv, InOrder
    <3>3. \A k \in Workers : runs[k] \in 0 .. DeviceTimeout  BY DEF MatrixInv, MatrixTypes
    <3> QED BY <1>5, <3>2, <3>3 DEF Join, MatrixInv, InOrder
  <2>3. AggregateTells'
    BY <1>5 DEF Join, MatrixInv, AggregateTells, AggregateIsMade, Ended
  <2> QED BY <2>1, <2>2, <2>3 DEF MatrixInv
<1>6. CASE Returned
  BY <1>6 DEF Returned, MatrixInv, MatrixTypes, InOrder, AggregateTells, AggregateIsMade, Ended
<1>7. CASE ReadReports
  <2>1. ~overtaken => Ended = Workers
    <3> SUFFICES ASSUME ~overtaken, NEW k \in Workers PROVE k < joining
      BY DEF MatrixInv, InOrder, Ended
    <3>1. joining \notin Workers  BY <1>7 DEF ReadReports, MatrixInv, AggregateTells
    <3> QED BY <1>0, <3>1 DEF Workers
  <2>2. MatrixTypes' /\ InOrder'
    BY <1>7 DEF ReadReports, MatrixInv, MatrixTypes, InOrder, Ended
  <2>3. AggregateTells'
    BY <1>7, <2>1 DEF ReadReports, MatrixInv, AggregateTells, AggregateIsMade, Ended
  <2> QED BY <2>2, <2>3 DEF MatrixInv
<1>8. CASE CountFailed
  <2>1. MatrixTypes' /\ InOrder'
    BY <1>8 DEF CountFailed, MatrixInv, MatrixTypes, InOrder, NoCode
  <2>2. AggregateTells'
    <3>1. /\ main = "counting" /\ main' = "over"
          /\ UNCHANGED <<worker, joining, aggregate, killed, overtaken>>
          /\ matrixExit' = 0 => \A k \in Ended : worker[k] = "ok"
      BY <1>8 DEF CountFailed
    <3>2. aggregate \subseteq Ended  BY <3>1 DEF MatrixInv, AggregateTells, AggregateIsMade
    <3> QED BY <3>1, <3>2 DEF MatrixInv, AggregateTells, AggregateIsMade, Ended
  <2> QED BY <2>1, <2>2 DEF MatrixInv
<1>9. CASE Tick
  <2>1. MatrixTypes'
    BY <1>9 DEF Tick, MatrixInv, MatrixTypes, RunningDevices, JoinTimeout
  <2>2. InOrder'
    <3> SUFFICES ASSUME ~overtaken PROVE InOrder'
      BY <1>9 DEF Tick, InOrder
    <3>1. ASSUME main = "joining", joining \in Workers
          PROVE  /\ worker[joining] # "waiting"
                 /\ worker[joining] = "running" => runs'[joining] + joined' <= DeviceTimeout
      <4>1. worker[joining] # "waiting"  BY <1>9, <3>1, SlotIsFree DEF Tick
      <4>2. ASSUME worker[joining] = "running" PROVE runs'[joining] + joined' <= DeviceTimeout
        <5>1. joining \in RunningDevices  BY <3>1, <4>2 DEF RunningDevices
        <5>2. runs'[joining] = runs[joining] - 1 /\ joined' = joined + 1
          BY <1>9, <3>1, <5>1 DEF Tick
        <5>3. runs[joining] \in Nat /\ runs[joining] + joined <= DeviceTimeout
          BY <3>1, <4>2 DEF MatrixInv, MatrixTypes, InOrder
        <5> QED BY <1>0, <5>2, <5>3
      <4> QED BY <4>1, <4>2
    <3> QED BY <1>9, <3>1 DEF Tick, MatrixInv, InOrder
  <2>3. AggregateTells'
    BY <1>9 DEF Tick, MatrixInv, AggregateTells, AggregateIsMade, Ended
  <2> QED BY <2>1, <2>2, <2>3 DEF MatrixInv
<1> QED BY <1>1, <1>2, <1>3, <1>4, <1>5, <1>6, <1>7, <1>8, <1>9 DEF MatrixNext

\* Whatever the number of devices, of slots and of ticks: a device is missing from the
\* aggregate only if the slots were taken in another order than that of the joins, and
\* exit code 0 means that every device of the aggregate ran to its end with success.
THEOREM MatrixIsComplete == MatrixSpec => []MatrixComplete
<1>1. ASSUME MatrixInit PROVE MatrixInv
  <2> USE MatrixAssumption
  <2>1. MatrixTypes
    <3>1. worker \in [Workers -> WorkerStates]  BY <1>1 DEF MatrixInit, WorkerStates
    <3>2. runs \in [Workers -> 0 .. DeviceTimeout]  BY <1>1 DEF MatrixInit
    <3>3. joined \in 0 .. JoinTimeout  BY <1>1 DEF MatrixInit, JoinTimeout
    <3>4. joining \in Nat \ {0} /\ matrixExit \in 0 .. NoCode  BY <1>1 DEF MatrixInit, NoCode
    <3>5. main \in {"joining"} /\ aggregate \subseteq Workers /\ killed \subseteq Workers
          /\ overtaken \in BOOLEAN
      BY <1>1 DEF MatrixInit
    <3> QED BY <3>1, <3>2, <3>3, <3>4, <3>5 DEF MatrixTypes
  <2>2. InOrder
    BY <1>1 DEF MatrixInit, InOrder, Workers
  <2>3. AggregateTells
    BY <1>1 DEF MatrixInit, AggregateTells, AggregateIsMade, NoCode
  <2> QED BY <2>1, <2>2, <2>3 DEF MatrixInv
<1>2. ASSUME MatrixInv PROVE MatrixComplete
  <2>1. MissingWasOvertaken  BY <1>2 DEF MatrixInv, AggregateTells, MissingWasOvertaken
  <2>2. ZeroMeansAllRan
    <3>1. \A k \in killed : worker[k] # "ok"  BY <1>2 DEF MatrixInv, AggregateTells
    <3> QED BY <1>2, <3>1 DEF MatrixInv, AggregateTells, AggregateIsMade, ZeroMeansAllRan
  <2> QED BY <2>1, <2>2 DEF MatrixComplete
<1> QED
  BY <1>1, <1>2, MatrixStep, PTL DEF MatrixSpec

-----------------------------------------------------------------------------
(* The verdict *)

\* What the main thread knows of the workload, and what it has told.
AskedToStop ==
    /\ phase # "waiting" /\ workload = "running" => stopping
    /\ seen = Nothing /\ phase \in {"reporting", "exited"} /\ workload # Nothing => stopping
    /\ seen # Nothing => workload = seen
ToldAsJudged ==
    /\ phase \in {"waiting", "joining", "reporting", "exited"}
    /\ phase # "exited" => exit = Running /\ artefacts.junit = Nothing
    /\ phase = "exited" => /\ exit = ExitCode
                           /\ artefacts.junit = IF WorkloadFailed THEN Nothing ELSE Junit
    /\ phase \in {"waiting", "joining"} => seen = Nothing
VerdictTypes ==
    /\ covered \in Nat /\ warned \in BOOLEAN /\ options \in Options
    /\ found \subseteq [type : FatalTypes, expected : BOOLEAN]
    /\ workload \in {Nothing, "running"} \cup Results
    /\ seen \in {Nothing} \cup Results
VerdictInv == VerdictTypes /\ AskedToStop /\ ToldAsJudged

\* The judgement is of the coverage, the incidents and the warnings alone.
LEMMA SameJudgement ==
    ASSUME UNCHANGED <<covered, found, warned, options, seen>>
    PROVE UNCHANGED <<ExitCode, WorkloadFailed, Junit>>
BY DEF ExitCode, WorkloadFailed, Junit, VerdictOfRun, HealthOfRun, CollectorHealth, Failures,
       GateFailed, PolicyPassed, Rounded

LEMMA VerdictStep == VerdictInv /\ [VerdictNext]_verdictVars => VerdictInv'
<1> SUFFICES ASSUME VerdictInv, [VerdictNext]_verdictVars PROVE VerdictInv'
  OBVIOUS
<1>1. CASE UNCHANGED verdictVars
  <2>1. UNCHANGED <<ExitCode, WorkloadFailed, Junit>>
    BY <1>1, SameJudgement DEF verdictVars
  <2> QED
    BY <1>1, <2>1 DEF verdictVars, VerdictInv, VerdictTypes, AskedToStop, ToldAsJudged
<1>2. ASSUME NEW gap \in Gaps, LogcatDown(gap) PROVE VerdictInv'
  <2>1. covered' \in Nat
    BY <1>2, VerdictAssumption DEF LogcatDown, VerdictInv, VerdictTypes
  <2> QED
    BY <1>2, <2>1 DEF LogcatDown, VerdictInv, VerdictTypes, AskedToStop, ToldAsJudged
<1>3. ASSUME NEW type \in FatalTypes, NEW expected \in BOOLEAN, FindIncident(type, expected)
      PROVE VerdictInv'
  <2>1. found' \subseteq [type : FatalTypes, expected : BOOLEAN]
    BY <1>3 DEF FindIncident, VerdictInv, VerdictTypes
  <2> QED
    BY <1>3, <2>1 DEF FindIncident, VerdictInv, VerdictTypes, AskedToStop, ToldAsJudged
<1>4. CASE JournalWarns
  BY <1>4 DEF JournalWarns, VerdictInv, VerdictTypes, AskedToStop, ToldAsJudged
<1>5. ASSUME NEW result \in Results, WorkloadEnds(result) PROVE VerdictInv'
  <2>1. UNCHANGED <<ExitCode, WorkloadFailed, Junit>>
    BY <1>5, SameJudgement DEF WorkloadEnds
  <2>2. AskedToStop'
    BY <1>5 DEF WorkloadEnds, VerdictInv, VerdictTypes, AskedToStop, ToldAsJudged, Results, Nothing
  <2> QED
    BY <1>5, <2>1, <2>2 DEF WorkloadEnds, VerdictInv, VerdictTypes, ToldAsJudged
<1>6. CASE Deadline
  <2>1. AskedToStop'
    BY <1>6 DEF Deadline, VerdictInv, AskedToStop, ToldAsJudged
  <2> QED
    BY <1>6, <2>1 DEF Deadline, VerdictInv, VerdictTypes, ToldAsJudged
<1>7. CASE JoinWorkload
  <2>1. AskedToStop' /\ seen' \in {Nothing} \cup Results
    BY <1>7 DEF JoinWorkload, VerdictInv, VerdictTypes, AskedToStop, Results, Nothing
  <2> QED
    BY <1>7, <2>1 DEF JoinWorkload, VerdictInv, VerdictTypes, ToldAsJudged
<1>8. CASE Exits
  <2>1. UNCHANGED <<ExitCode, WorkloadFailed, Junit>>
    BY <1>8, SameJudgement DEF Exits
  <2>2. ToldAsJudged'
    BY <1>8, <2>1 DEF Exits, VerdictInv, ToldAsJudged
  <2> QED
    BY <1>8, <2>2 DEF Exits, VerdictInv, VerdictTypes, AskedToStop
<1> QED
  BY <1>1, <1>2, <1>3, <1>4, <1>5, <1>6, <1>7, <1>8 DEF VerdictNext

\* Whatever the gaps, the incidents and the options, the exit code, the verdict and
\* the JUnit file agree, and exit code 0 in CI means an observed run without failure
\* (a workload's failure is only missed by a join that gave up).
THEOREM VerdictIsSound == VerdictSpec => []VerdictSound
<1>1. VerdictInit => VerdictInv
  <2> SUFFICES ASSUME VerdictInit PROVE VerdictInv
    OBVIOUS
  <2>1. VerdictTypes
    <3>1. covered \in Nat /\ found \subseteq [type : FatalTypes, expected : BOOLEAN]
      BY DEF VerdictInit, Planned
    <3>2. warned \in BOOLEAN
      BY DEF VerdictInit
    <3>3. workload \in {Nothing, "running"} /\ seen = Nothing /\ options \in Options
      BY DEF VerdictInit
    <3> QED BY <3>1, <3>2, <3>3 DEF VerdictTypes
  <2>2. AskedToStop
    BY DEF VerdictInit, AskedToStop
  <2>3. ToldAsJudged
    BY DEF VerdictInit, ToldAsJudged
  <2> QED BY <2>1, <2>2, <2>3 DEF VerdictInv
<1>2. ASSUME VerdictInv PROVE VerdictSound
  <2>1. exit = Running \/ (phase = "exited" /\ exit = ExitCode)
    <3> HIDE DEF WorkloadFailed
    <3>1. ToldAsJudged
      BY <1>2 DEF VerdictInv
    <3> QED BY <3>1, Zenon DEF ToldAsJudged
  <2>2. PolicyPassed => Failures = {}
    BY DEF PolicyPassed, Failures
  <2>3. ZeroMeansStable
    <3> SUFFICES ASSUME exit = 0, options.ci PROVE Failures = {} /\ covered >= MinCoverage /\ ~warned
      BY DEF ZeroMeansStable
    <3>1. VerdictOfRun # "inconclusive" /\ PolicyPassed
      BY <2>1 DEF Running, ExitCode, GateFailed
    <3>2. HealthOfRun = "healthy"
      BY <2>2, <3>1 DEF VerdictOfRun
    <3>3. CollectorHealth = "healthy" /\ ~warned
      BY <3>2 DEF HealthOfRun
    <3> QED
      BY <1>2, <2>2, <3>1, <3>3 DEF CollectorHealth, VerdictInv, VerdictTypes, MinCoverage
  <2>4. FailureWins
    BY <2>1, <2>2 DEF FailureWins, ExitCode, VerdictOfRun
  <2>5. JunitTellsExit
    <3> SUFFICES ASSUME artefacts.junit # Nothing, options.ci
                 PROVE /\ artefacts.junit = "failure" <=> exit = 1
                       /\ artefacts.junit = "error" <=> exit = 4
      BY DEF JunitTellsExit
    <3>1. exit = ExitCode /\ ~WorkloadFailed /\ artefacts.junit = Junit
      BY <1>2 DEF VerdictInv, ToldAsJudged, Nothing
    <3>2. Failures # {} => GateFailed
      BY <2>2 DEF GateFailed
    <3> QED
      BY <3>1, <3>2 DEF Junit, ExitCode, VerdictOfRun
  <2>6. WorkloadFailureSurfaces
    BY <1>2, <2>1
       DEF WorkloadFailureSurfaces, VerdictInv, AskedToStop, ToldAsJudged, ExitCode, WorkloadFailed,
           Running, Nothing
  <2> QED
    BY <2>3, <2>4, <2>5, <2>6 DEF VerdictSound
<1> QED
  BY <1>1, <1>2, VerdictStep, PTL DEF VerdictSpec

-----------------------------------------------------------------------------
(* The redaction *)

Steps == {"idle", "stage", "copy", "redact", "scan", "zip", "zipping", "published", "aborted"}
RedactTypes ==
    /\ contents \in [Files -> SUBSET Secrets]
    /\ inPlace \in [next : 1 .. 9, error : BOOLEAN]
    /\ exporting \in [step : Steps, raw : BOOLEAN]

\* What is in the staging directory of a redacted export, at each of its steps.
Clean(bundle) ==
    DOMAIN bundle \subseteq Allowed \cup {"journal"} /\ \A f \in DOMAIN bundle \ JunitFiles : bundle[f] = {}
StagedSoFar ==
    ~exporting.raw =>
        /\ exporting.step \in {"copy", "redact"} => DOMAIN staging \subseteq Allowed
        /\ exporting.step = "scan" => DOMAIN staging \subseteq Allowed \cup {"journal"}
        /\ exporting.step \in {"zip", "zipping"} => Clean(staging)
        /\ exporting.step = "published" => Clean(target)

\* The files that the redaction in place has passed.
PassedRedacted == \A i \in 1 .. 8 : i < inPlace.next => "line" \notin contents[Order[i]]

RedactInv ==
    RedactTypes /\ StagedSoFar /\ PassedRedacted /\ AbortLeavesNothing

LEMMA OrderFiles ==
    /\ Len(Order) = 8 /\ \A i \in 1 .. 8 : Order[i] \in Files
    /\ \A f \in Files \ (NoTextSuffix \cup {"self_resource"}) : \E i \in 1 .. 8 : Order[i] = f
<1>1. /\ Len(Order) = 8
      /\ Order[1] = "report" /\ Order[2] = "incident" /\ Order[3] = "logcat" /\ Order[4] = "events"
      /\ Order[5] = "context" /\ Order[6] = "journal" /\ Order[7] = "bookmarks" /\ Order[8] = "status"
  BY DEF Order
<1>2. \A i \in 1 .. 8 : i \in {1, 2, 3, 4, 5, 6, 7, 8}
  OBVIOUS
<1>3. {1, 2, 3, 4, 5, 6, 7, 8} \subseteq 1 .. 8
  OBVIOUS
<1> QED
  BY <1>1, <1>2, <1>3 DEF Files, NoTextSuffix, JsonFiles, TextFiles, BinaryFiles, JunitFiles

LEMMA RedactStepKeeps == RedactInv /\ [RedactNext]_redactVars => RedactInv'
<1> SUFFICES ASSUME RedactInv, [RedactNext]_redactVars PROVE RedactInv'
  OBVIOUS
<1>a. Allowed \cap NoTextSuffix \subseteq JunitFiles /\ "journal" \notin NoTextSuffix
  BY DEF Allowed, NoTextSuffix, JsonFiles, TextFiles, BinaryFiles, JunitFiles
<1>1. CASE UNCHANGED redactVars
  BY <1>1 DEF redactVars, RedactInv, RedactTypes, StagedSoFar, Clean, PassedRedacted,
              AbortLeavesNothing
<1>2. CASE RedactStep
  <2> DEFINE f == Order[inPlace.next]
  <2>1. inPlace.next \in 1 .. 8 /\ f \in Files
    BY <1>2, OrderFiles DEF RedactStep, RedactInv, RedactTypes
  <2>2. StagedSoFar' /\ AbortLeavesNothing' /\ exporting' = exporting
    BY <1>2 DEF RedactStep, RedactInv, StagedSoFar, Clean, AbortLeavesNothing
  <2>3. CASE f \in broken
    <3>1. inPlace' = [inPlace EXCEPT !.error = TRUE] /\ UNCHANGED contents
      BY <1>2, <2>3 DEF RedactStep
    <3>2. inPlace' \in [next : 1 .. 9, error : BOOLEAN] /\ inPlace'.next = inPlace.next
      BY <3>1 DEF RedactInv, RedactTypes
    <3> QED BY <2>2, <3>1, <3>2 DEF RedactInv, RedactTypes, PassedRedacted
  <2>4. CASE f \notin broken
    <3>1. /\ inPlace' = [inPlace EXCEPT !.next = @ + 1]
          /\ contents' = [contents EXCEPT ![f] = Redacted(f, @)]
      BY <1>2, <2>4 DEF RedactStep
    <3>2. inPlace'.next = inPlace.next + 1
      BY <3>1, <1>2, <2>1 DEF RedactStep
    <3>3. RedactTypes'
      BY <2>1, <2>2, <3>1, <3>2 DEF RedactInv, RedactTypes, Redacted
    <3>4. \A g \in Files : contents'[g] \subseteq contents[g]
      BY <2>1, <3>1 DEF RedactInv, RedactTypes, Redacted
    <3>5. "line" \notin contents'[f]
      BY <2>1, <3>1 DEF RedactInv, RedactTypes, Redacted
    <3>6. PassedRedacted'
      BY <2>1, <3>2, <3>4, <3>5, OrderFiles DEF RedactInv, PassedRedacted
    <3> QED BY <2>2, <3>3, <3>6 DEF RedactInv
  <2> QED BY <2>3, <2>4
<1>3. ASSUME NEW raw \in BOOLEAN, BeginExport(raw) PROVE RedactInv'
  BY <1>3 DEF BeginExport, RedactInv, RedactTypes, Steps, StagedSoFar, PassedRedacted,
              AbortLeavesNothing
<1>4. CASE MakeStaging
  BY <1>4, <1>a DEF MakeStaging, StagingEmptied, Nowhere, Step, RedactInv, RedactTypes, Steps,
                    StagedSoFar, PassedRedacted, AbortLeavesNothing
<1>5. CASE CopyFile
  <2> DEFINE missing == CopiedBy(exporting.raw) \ DOMAIN staging
             f == CHOOSE g \in missing : TRUE
  <2>1. CASE /\ missing # {} /\ UNCHANGED exporting
             /\ staging' = [g \in DOMAIN staging \cup {f} |->
                              IF g = f THEN contents[f] ELSE staging[g]]
    <3>1. f \in missing
      BY <2>1
    <3>2. ~exporting.raw => f \in Allowed
      BY <3>1 DEF CopiedBy
    <3>3. DOMAIN staging' = DOMAIN staging \cup {f}
      BY <2>1
    <3> HIDE DEF missing, f
    <3> QED
      BY <1>5, <2>1, <3>2, <3>3 DEF CopyFile, RedactInv, RedactTypes, StagedSoFar, PassedRedacted,
                                    AbortLeavesNothing
  <2>2. CASE /\ Step(IF exporting.raw THEN "zip" ELSE "redact") /\ UNCHANGED staging
    <3> HIDE DEF missing, f
    <3> QED
      BY <1>5, <2>2 DEF CopyFile, Step, RedactInv, RedactTypes, Steps, StagedSoFar, PassedRedacted,
                        AbortLeavesNothing
  <2> QED BY <1>5, <2>1, <2>2 DEF CopyFile
<1>6. CASE RedactStaging
  <2>1. DOMAIN staging' = DOMAIN staging \cup {"journal"}
    BY <1>6 DEF RedactStaging
  <2> QED
    BY <1>6, <2>1 DEF RedactStaging, Step, RedactInv, RedactTypes, Steps, StagedSoFar, PassedRedacted,
                      AbortLeavesNothing
<1>7. CASE Scan
  <2>1. CASE Hits = {} /\ Step("zip") /\ UNCHANGED <<staging, target>>
    <3>1. DOMAIN staging \subseteq Allowed \cup {"journal"} => Clean(staging)
      BY <1>a, <2>1 DEF Hits, Clean
    <3> QED
      BY <1>7, <2>1, <3>1 DEF Scan, Step, RedactInv, RedactTypes, Steps, StagedSoFar, PassedRedacted,
                              AbortLeavesNothing
  <2>2. CASE Step("aborted") /\ Aborted
    BY <1>7, <2>2 DEF Scan, Step, Aborted, RedactInv, RedactTypes, Steps, StagedSoFar, PassedRedacted,
                      AbortLeavesNothing
  <2> QED BY <1>7, <2>1, <2>2 DEF Scan
<1>8. CASE OpenZip
  BY <1>8 DEF OpenZip, Step, RedactInv, RedactTypes, Steps, StagedSoFar, Clean, PassedRedacted,
              AbortLeavesNothing
<1>9. CASE CloseZip
  BY <1>9 DEF CloseZip, Step, RedactInv, RedactTypes, Steps, StagedSoFar, Clean, PassedRedacted,
              AbortLeavesNothing
<1>10. CASE ExportEnds \/ ExportKilled
  <2>1. exporting' = Idle /\ UNCHANGED <<contents, inPlace>>
    BY <1>10 DEF ExportEnds, ExportKilled
  <2> QED
    BY <2>1 DEF Idle, RedactInv, RedactTypes, Steps, StagedSoFar, PassedRedacted, AbortLeavesNothing
<1> QED
  BY <1>1, <1>2, <1>3, <1>4, <1>5, <1>6, <1>7, <1>8, <1>9, <1>10 DEF RedactNext

\* Whatever exports were made and killed before, no text file of a redacted bundle has a
\* secret the patterns know, an export that stops at one leaves no bundle, and the files
\* that were redacted in place with success have none within a line. Of the JUnit file,
\* which an export copies as it is, nothing is claimed.
THEOREM SecretsAreKept == RedactSpec => []SecretsKept
<1>1. ASSUME RedactInit PROVE RedactInv
  <2>1. contents \in [Files -> SUBSET Secrets]
    BY <1>1 DEF RedactInit
  <2> QED
    BY <1>1, <2>1 DEF RedactInit, Idle, RedactInv, RedactTypes, Steps, StagedSoFar, PassedRedacted,
                      AbortLeavesNothing
<1>2. ASSUME RedactInv PROVE SecretsKept
  <2>1. BundleClean
    BY <1>2 DEF RedactInv, StagedSoFar, Clean, BundleClean
  <2>2. RunDirectoryRedacted
    BY <1>2, OrderFiles DEF RedactInv, RedactTypes, PassedRedacted, RunDirectoryRedacted
  <2> QED
    BY <1>2, <2>1, <2>2 DEF RedactInv, SecretsKept
<1> QED
  BY <1>1, <1>2, RedactStepKeeps, PTL DEF RedactSpec

-----------------------------------------------------------------------------
(* The test plan *)

RunPcs == {"loaded", "inventory", "code", "tests", "plan", "suites", "commands", "testsAfter", "exited"}
TreeType == [Parts -> Nat]
RepoType == [head : TreeType, moved : BOOLEAN, atStart : TreeType, atEnd : TreeType]
DigestType == UNION {[P -> Nat \X Nat] : P \in SUBSET Parts}
SuiteType == [kind : {"leaf", "composite"}, includes : SUBSET (Suites \cup {Ghost}), commands : Nat]
EvidenceType == [missing : BOOLEAN, commands : Seq(Outcomes)]
PlanTypes ==
    /\ plan \in [suites : [Suites -> SuiteType], feature : SUBSET (Suites \cup {Ghost})]
    /\ \A s \in Suites : plan.suites[s].kind = "leaf" => Includes(s) = {}
    /\ run \in [pc : RunPcs, target : Suites \cup {FeatureTarget}, dry : BOOLEAN, inside : BOOLEAN,
                left : SUBSET Suites, suite : Suites \cup {Ghost}, exit : Nat]
    /\ evidence \in [Suites -> EvidenceType]
    /\ tree \in TreeType /\ repo \in RepoType
    /\ inventory.named \in [Nodes -> 0 .. 2] /\ inventory.collected \subseteq Nodes

\* A suite leads to its includes, and to what those lead to.
LEMMA LedToIncludes ==
    ASSUME NEW s \in Suites
    PROVE  \A u \in LedTo(s) \cup {s} : Includes(u) \cap Suites \subseteq LedTo(s)
BY DEF LedTo

LEMMA LedToTransitive ==
    ASSUME NEW s \in Suites, NEW t \in LedTo(s)
    PROVE  LedTo(t) \subseteq LedTo(s)
<1>1. LedTo(s) \in SUBSET Suites
  BY DEF LedTo
<1>2. \A u \in LedTo(s) \cup {t} : Includes(u) \cap Suites \subseteq LedTo(s)
  BY LedToIncludes
<1>3. ASSUME NEW x \in LedTo(t) PROVE x \in LedTo(s)
  BY <1>1, <1>2 DEF LedTo
<1> QED
  BY <1>3

\* Includes that do not go in circles end at a leaf: of the suites s leads to, take
\* one that leads to the fewest.
LEMMA LeafReached ==
    ASSUME PlanTypes, Valid, NEW s \in Suites
    PROVE  \E t \in {s} \cup LedTo(s) : t \in Suites /\ plan.suites[t].kind = "leaf"
<1> DEFINE D == {s} \cup LedTo(s)
           T == {LedTo(t) : t \in D}
<1>d. D \subseteq Suites
  BY DEF LedTo
<1>1. PICK m \in T : \A u \in T : ~(<<u, m>> \in StrictSubsetOrdering(Suites))
  <2>1. IsWellFoundedOn(StrictSubsetOrdering(Suites), FiniteSubsetsOf(Suites))
    BY FS_StrictSubsetOrderingWellFounded
  <2>2. T \subseteq FiniteSubsetsOf(Suites) /\ T # {}
    <3>1. \A t \in D : LedTo(t) \in SUBSET Suites
      BY DEF LedTo
    <3>2. \A t \in D : IsFiniteSet(LedTo(t))
      BY <3>1, FS_Subset, TestPlanAssumption
    <3> HIDE DEF D
    <3>3. D # {}
      BY DEF D
    <3> QED
      BY <3>1, <3>2, <3>3 DEF FiniteSubsetsOf
  <2> HIDE DEF T
  <2> QED
    BY <2>1, <2>2, WFMin
<1>2. PICK t \in D : m = LedTo(t)
  BY <1>1
<1>3. SUFFICES ASSUME plan.suites[t].kind # "leaf" PROVE FALSE
  BY <1>d, <1>2
<1>4. PICK u \in Includes(t) : u \in Suites
  BY <1>3, <1>d, <1>2 DEF Valid, SuiteValid, PlanTypes, SuiteType, Includes
<1>5. u \in LedTo(t)
  BY <1>4, <1>d, LedToIncludes
<1>6. LedTo(u) \subseteq LedTo(t) /\ u \notin LedTo(u)
  BY <1>4, <1>5, <1>d, LedToTransitive DEF Valid
<1>7. u \in D
  <2>1. CASE t = s
    BY <2>1, <1>5
  <2>2. CASE t \in LedTo(s)
    BY <2>2, <1>5, LedToTransitive
  <2> QED BY <2>1, <2>2
<1>8. LedTo(u) \in T
  BY <1>7
<1>9. LedTo(u) \in SUBSET Suites /\ LedTo(t) \in SUBSET Suites /\ LedTo(u) # LedTo(t)
  BY <1>5, <1>6 DEF LedTo
<1> QED
  BY <1>1, <1>2, <1>6, <1>8, <1>9 DEF StrictSubsetOrdering

LEMMA ValidResolves == PlanTypes => ValidPlanResolves
<1> SUFFICES ASSUME PlanTypes, Valid, NEW aim \in Suites \cup {FeatureTarget}
             PROVE /\ ~Fails(aim)
                   /\ Resolved(aim) = {} => aim = FeatureTarget /\ plan.feature = {}
  BY DEF ValidPlanResolves
<1>1. Roots(aim) \subseteq Suites
  BY DEF Roots, Valid
<1>2. Reached(aim) \subseteq Suites
  BY <1>1 DEF Reached, LedTo
<1>3. ~Fails(aim)
  <2>1. \A s \in Suites : Ghost \notin Includes(s)
    BY TestPlanAssumption DEF Valid, SuiteValid, PlanTypes, SuiteType
  <2> QED
    BY <1>2, <2>1 DEF Fails, Valid
<1>4. ASSUME NEW r \in Roots(aim) PROVE Resolved(aim) # {}
  <2>1. PICK t \in {r} \cup LedTo(r) : t \in Suites /\ plan.suites[t].kind = "leaf"
    BY <1>1, LeafReached
  <2> QED
    BY <1>1, <2>1 DEF Resolved, Reached
<1> QED
  BY <1>3, <1>4 DEF Roots

\* What the snapshots have read, at each step of the run. As long as the tree is only
\* edited, each is of a tree between the one before and the present one.
SnapTypes ==
    snap \in [code : DigestType \cup {"none"}, tests : Nat \cup {"none"}, plan : Nat \cup {"none"},
              verdict : {"none", "PASS", "FAIL", "STALE", "PLANNED"},
              codeAfter : DigestType \cup {"none"}, testsAfter : Nat \cup {"none"}]
UpTo(a, b) == \A p \in Parts : a[p] <= b[p]
DigestOf(t) == [p \in {q \in Parts : t[q] # repo.head[q]} |-> <<repo.head[p], t[p]>>]
CodeRead == {"tests", "plan", "suites", "commands", "testsAfter"}
TestsRead == CodeRead \ {"tests"}
PlanRead == TestsRead \ {"plan"}
OnlyEdited ==
    /\ run.pc \in CodeRead => snap.code = DigestOf(repo.atStart) /\ UpTo(repo.atStart, tree)
    /\ run.pc \in TestsRead =>
          snap.tests \in Nat /\ repo.atStart["tests"] <= snap.tests /\ snap.tests <= tree["tests"]
    /\ run.pc \in PlanRead =>
          snap.plan \in Nat /\ repo.atStart["plan"] <= snap.plan /\ snap.plan <= tree["plan"]
    /\ run.pc = "testsAfter" =>
          /\ snap.codeAfter = DigestOf(repo.atEnd) /\ UpTo(repo.atEnd, tree)
          /\ snap.tests <= repo.atEnd["tests"] /\ snap.plan <= repo.atEnd["plan"]
TreesRead ==
    /\ ~repo.moved => OnlyEdited
    /\ run.pc # "exited" => snap.verdict = "none"

\* With HEAD where it was, a digest is that of one tree only.
LEMMA DigestTells ==
  ASSUME repo \in RepoType, NEW t \in TreeType, NEW u \in TreeType, DigestOf(t) = DigestOf(u)
  PROVE  t = u
<1>1. {q \in Parts : t[q] # repo.head[q]} = {q \in Parts : u[q] # repo.head[q]}
  BY DEF DigestOf
<1>2. \A p \in {q \in Parts : t[q] # repo.head[q]} : DigestOf(t)[p] = <<repo.head[p], t[p]>>
  BY DEF DigestOf
<1>3. \A p \in {q \in Parts : u[q] # repo.head[q]} : DigestOf(u)[p] = <<repo.head[p], u[p]>>
  BY DEF DigestOf
<1>4. ASSUME NEW p \in Parts PROVE t[p] = u[p]
  <2>1. CASE t[p] # repo.head[p]
    <3>1. p \in {q \in Parts : t[q] # repo.head[q]}  BY <2>1
    <3>2. p \in {q \in Parts : u[q] # repo.head[q]}  BY <1>1, <3>1
    <3>3. DigestOf(t)[p] = <<repo.head[p], t[p]>> /\ DigestOf(u)[p] = <<repo.head[p], u[p]>>
      BY <1>2, <1>3, <3>1, <3>2
    <3>4. <<repo.head[p], t[p]>> = <<repo.head[p], u[p]>>  BY <3>3
    <3> QED BY <3>4
  <2>2. CASE t[p] = repo.head[p]
    <3>1. p \notin {q \in Parts : u[q] # repo.head[q]}  BY <1>1, <2>2
    <3> QED BY <2>2, <3>1
  <2> QED BY <2>1, <2>2
<1> QED BY <1>4 DEF TreeType

LEMMA DigestTypes ==
  ASSUME repo \in RepoType, tree \in TreeType
  PROVE  TreeDigest = DigestOf(tree) /\ TreeDigest \in DigestType
<1>1. TreeDigest = DigestOf(tree)  BY DEF TreeDigest, DigestOf
<1> DEFINE P == {q \in Parts : tree[q] # repo.head[q]}
<1>2. \A p \in P : repo.head[p] \in Nat /\ tree[p] \in Nat  BY DEF RepoType, TreeType
<1>3. TreeDigest \in [P -> Nat \X Nat]  BY <1>2 DEF TreeDigest
<1> QED BY <1>1, <1>3 DEF DigestType

\* What has become of the suites of the target.
Fresh(s) == ~evidence[s].missing /\ evidence[s].commands = <<>>
AllPassed(s) == \A i \in 1 .. Len(evidence[s].commands) : Passed(evidence[s].commands[i])
Partial(s) ==
    /\ ~evidence[s].missing /\ AllPassed(s)
    /\ Len(evidence[s].commands) < plan.suites[s].commands
Complete(s) ==
    \/ evidence[s].missing \/ ~AllPassed(s)
    \/ Len(evidence[s].commands) = plan.suites[s].commands
Working == {"code"} \cup CodeRead
SuitesRun ==
    /\ run.pc = "loaded" => \A s \in Suites : Fresh(s)
    /\ run.pc \in Working =>
          /\ Valid /\ run.left \subseteq Resolved(run.target)
          /\ \A s \in run.left : Fresh(s)
          /\ run.dry \/ \A s \in Resolved(run.target) \ run.left :
                           (run.pc = "commands" /\ s = run.suite) \/ Complete(s)
    /\ run.pc = "commands" =>
          run.suite \in Resolved(run.target) \ run.left /\ Partial(run.suite)
    /\ run.pc = "testsAfter" => run.left = {}

PlanInv ==
    /\ PlanTypes /\ SnapTypes /\ TreesRead /\ SuitesRun
    /\ PassIsEarned /\ VerdictOfOneTree /\ StillTreeIsNotStale /\ InventoryExact

\* Before the end there is no verdict, and nothing to say of it.
LEMMA Undecided ==
    ASSUME snap.verdict = "none", run.pc = "exited" => run.exit # 0
    PROVE  PassIsEarned /\ VerdictOfOneTree /\ StillTreeIsNotStale /\ InventoryExact
BY DEF PassIsEarned, VerdictOfOneTree, StillTreeIsNotStale, InventoryExact

\* The suites of the target are those of the plan: nothing changes either.
LEMMA SamePlan ==
    ASSUME UNCHANGED plan, run'.target = run.target
    PROVE  Valid' = Valid /\ Resolved(run.target)' = Resolved(run.target)
<1>1. Valid' = Valid
  BY DEF Valid, SuiteValid, Includes, LedTo
<1>2. Resolved(run.target)' = Resolved(run.target)
  BY DEF Resolved, Reached, Roots, LedTo, Includes
<1> QED BY <1>1, <1>2

LEMMA ValidatedRuns == PlanInv /\ Validate => PlanInv'
<1> SUFFICES ASSUME PlanInv, Validate PROVE PlanInv'
  OBVIOUS
<1>p. UNCHANGED <<plan, evidence, snap, tree, repo, inventory>> /\ run.pc = "loaded"
  BY DEF Validate
<1>n. snap'.verdict = "none"
  BY <1>p DEF PlanInv, TreesRead
<1>1. CASE Valid /\ run' = [run EXCEPT !.pc = "code", !.left = Resolved(run.target)]
  <2>0. Resolved(run.target) \subseteq Suites
    BY DEF Resolved
  <2>1. PlanTypes'
    BY <1>1, <1>p, <2>0 DEF PlanInv, PlanTypes, RunPcs, Includes
  <2>2. run'.pc = "code" /\ run'.left = Resolved(run.target) /\ run'.target = run.target
    BY <1>1 DEF PlanInv, PlanTypes
  <2>v. Valid' = Valid /\ Resolved(run.target)' = Resolved(run.target)
    BY <1>p, <2>2, SamePlan
  <2>3. SnapTypes' /\ TreesRead'
    BY <1>p, <1>n, <2>2 DEF PlanInv, SnapTypes, TreesRead, OnlyEdited, CodeRead, TestsRead, PlanRead
  <2>4. SuitesRun'
    BY <1>1, <1>p, <2>v, <2>0, <2>2 DEF PlanInv, SuitesRun, Fresh, Working, CodeRead
  <2>5. (PassIsEarned /\ VerdictOfOneTree /\ StillTreeIsNotStale /\ InventoryExact)'
    BY <1>n, <2>2 DEF PassIsEarned, VerdictOfOneTree, StillTreeIsNotStale, InventoryExact
  <2> QED BY <2>1, <2>3, <2>4, <2>5 DEF PlanInv
<1>2. CASE Leave(2)
  <2>1. PlanTypes' /\ run'.pc = "exited" /\ run'.exit = 2
    BY <1>2, <1>p DEF Leave, PlanInv, PlanTypes, RunPcs, Includes
  <2>3. SnapTypes' /\ TreesRead' /\ SuitesRun'
    BY <1>p, <2>1 DEF PlanInv, SnapTypes, TreesRead, OnlyEdited, CodeRead, TestsRead, PlanRead, SuitesRun, Working
  <2>5. (PassIsEarned /\ VerdictOfOneTree /\ StillTreeIsNotStale /\ InventoryExact)'
    BY <1>n, <2>1 DEF PassIsEarned, VerdictOfOneTree, StillTreeIsNotStale, InventoryExact
  <2> QED BY <2>1, <2>3, <2>5 DEF PlanInv
<1> QED BY <1>1, <1>2 DEF Validate

\* The snapshots before and after, each a step of its own.
Snapshot == SnapshotCode \/ SnapshotTests \/ SnapshotPlan \/ SnapshotCodeAfter
LEMMA SnapshotsFollow == PlanInv /\ Snapshot => PlanInv'
<1> SUFFICES ASSUME PlanInv, Snapshot PROVE PlanInv'
  OBVIOUS
<1>p. UNCHANGED <<plan, evidence, tree, inventory>>
  BY DEF Snapshot, SnapshotCode, SnapshotTests, SnapshotPlan, SnapshotCodeAfter
<1>1. /\ run' = [run EXCEPT !.pc = run'.pc]
      /\ \/ run.pc = "code" /\ run'.pc = "tests"
         \/ run.pc = "tests" /\ run'.pc = "plan"
         \/ run.pc = "plan" /\ run'.pc = "suites"
         \/ run.pc = "suites" /\ run'.pc = "testsAfter" /\ run.left = {}
  BY DEF Snapshot, SnapshotCode, SnapshotTests, SnapshotPlan, SnapshotCodeAfter, Continue, PlanInv,
         PlanTypes
<1>2. /\ repo' \in RepoType => PlanTypes'
      /\ UNCHANGED <<run.target, run.dry, run.left, run.suite>>
  BY <1>1, <1>p DEF PlanInv, PlanTypes, RunPcs, Includes
<1>v. Valid' = Valid /\ Resolved(run.target)' = Resolved(run.target)
  BY <1>p, <1>2, SamePlan
<1>3. SuitesRun'
  BY <1>1, <1>2, <1>p, <1>v DEF PlanInv, SuitesRun, Fresh, Complete, AllPassed, Working, CodeRead
<1>0. tree \in TreeType /\ repo \in RepoType /\ snap.verdict = "none" /\ "tests" \in Parts /\ "plan" \in Parts
  BY <1>1 DEF PlanInv, PlanTypes, TreesRead, Parts
<1>d. TreeDigest = DigestOf(tree) /\ TreeDigest \in DigestType
  BY <1>0, DigestTypes
<1>4. SnapTypes' /\ snap'.verdict = "none"
  <2>1. tree.tests \in Nat /\ tree.plan \in Nat
    BY <1>0 DEF TreeType
  <2> QED
    BY <1>0, <1>d, <2>1 DEF Snapshot, SnapshotCode, SnapshotTests, SnapshotPlan, SnapshotCodeAfter,
                PlanInv, SnapTypes
<1>5. repo' \in RepoType /\ TreesRead'
  <2> HIDE DEF DigestType
  <2>1. CASE SnapshotCode
    <3>1. /\ repo' = [repo EXCEPT !.atStart = tree] /\ run'.pc = "tests"
          /\ snap' = [snap EXCEPT !.code = TreeDigest]
      BY <1>1, <2>1 DEF SnapshotCode, Continue
    <3>2. repo' \in RepoType /\ repo'.head = repo.head /\ repo'.atStart = tree
      BY <1>0, <3>1 DEF RepoType
    <3>3. DigestOf(tree)' = DigestOf(tree)  BY <1>p, <3>2 DEF DigestOf
    <3>4. snap'.code = DigestOf(tree)  BY <1>d, <3>1 DEF PlanInv, SnapTypes
    <3>5. UpTo(tree, tree)  BY <1>0 DEF UpTo, TreeType
    <3>6. OnlyEdited'
      BY <1>p, <3>1, <3>2, <3>4, <3>5 DEF OnlyEdited, DigestOf, UpTo, CodeRead, TestsRead, PlanRead
    <3> QED BY <1>4, <3>2, <3>6 DEF TreesRead
  <2>2. CASE SnapshotTests
    <3>1. /\ UNCHANGED repo /\ run'.pc = "plan" /\ run.pc = "tests"
          /\ snap' = [snap EXCEPT !.tests = tree.tests]
      BY <1>1, <2>2 DEF SnapshotTests, Continue
    <3>2. snap'.tests = tree["tests"] /\ UNCHANGED <<snap.code, snap.plan, snap.codeAfter>>
      BY <3>1 DEF PlanInv, SnapTypes
    <3>3. tree["tests"] \in Nat  BY <1>0 DEF TreeType
    <3>4. ~repo.moved => OnlyEdited'
      BY <1>0, <1>p, <3>1, <3>2, <3>3
         DEF PlanInv, TreesRead, OnlyEdited, DigestOf, UpTo, CodeRead, TestsRead, PlanRead
    <3> QED BY <1>0, <1>4, <3>1, <3>4 DEF TreesRead
  <2>3. CASE SnapshotPlan
    <3>1. /\ UNCHANGED repo /\ run'.pc = "suites" /\ run.pc = "plan"
          /\ snap' = [snap EXCEPT !.plan = tree.plan]
      BY <1>1, <2>3 DEF SnapshotPlan, Continue
    <3>2. snap'.plan = tree["plan"] /\ UNCHANGED <<snap.code, snap.tests, snap.codeAfter>>
      BY <3>1 DEF PlanInv, SnapTypes
    <3>3. tree["plan"] \in Nat  BY <1>0 DEF TreeType
    <3>4. ~repo.moved => OnlyEdited'
      BY <1>0, <1>p, <3>1, <3>2, <3>3
         DEF PlanInv, TreesRead, OnlyEdited, DigestOf, UpTo, CodeRead, TestsRead, PlanRead
    <3> QED BY <1>0, <1>4, <3>1, <3>4 DEF TreesRead
  <2>4. CASE SnapshotCodeAfter
    <3>1. /\ repo' = [repo EXCEPT !.atEnd = tree] /\ run.pc = "suites" /\ run'.pc = "testsAfter"
          /\ snap' = [snap EXCEPT !.codeAfter = TreeDigest]
      BY <1>1, <2>4 DEF SnapshotCodeAfter, Continue
    <3>2. /\ repo' \in RepoType /\ repo'.head = repo.head /\ repo'.atEnd = tree
          /\ repo'.atStart = repo.atStart /\ repo'.moved = repo.moved
      BY <1>0, <3>1 DEF RepoType
    <3>4. snap'.codeAfter = DigestOf(tree) /\ UNCHANGED <<snap.code, snap.tests, snap.plan>>
      BY <1>d, <3>1 DEF PlanInv, SnapTypes
    <3>5. UpTo(tree, tree)  BY <1>0 DEF UpTo, TreeType
    <3>6. ~repo.moved => OnlyEdited'
      BY <1>0, <1>p, <3>1, <3>2, <3>4, <3>5
         DEF PlanInv, TreesRead, OnlyEdited, DigestOf, UpTo, CodeRead, TestsRead, PlanRead
    <3> QED BY <1>4, <3>2, <3>6 DEF TreesRead
  <2> QED BY <2>1, <2>2, <2>3, <2>4 DEF Snapshot
<1>6. (PassIsEarned /\ VerdictOfOneTree /\ StillTreeIsNotStale /\ InventoryExact)'
  BY <1>1, <1>4 DEF PassIsEarned, VerdictOfOneTree, StillTreeIsNotStale, InventoryExact
<1> QED
  BY <1>2, <1>3, <1>4, <1>5, <1>6 DEF PlanInv

\* A tree that only grows stays above what was read of it.
LEMMA TreesGrow ==
    ASSUME repo \in RepoType, UNCHANGED repo, tree \in TreeType, tree' \in TreeType, UpTo(tree, tree')
    PROVE  /\ \A t \in TreeType : DigestOf(t)' = DigestOf(t)
           /\ DigestOf(repo.atStart)' = DigestOf(repo.atStart)
           /\ DigestOf(repo.atEnd)' = DigestOf(repo.atEnd)
           /\ \A t \in TreeType : UpTo(t, tree) => UpTo(t, tree')
           /\ repo.atStart \in TreeType /\ repo.atEnd \in TreeType
           /\ \A n \in Nat : /\ n <= tree["tests"] => n <= tree'["tests"]
                            /\ n <= tree["plan"] => n <= tree'["plan"]
<1>1. \A p \in Parts : tree[p] \in Nat /\ tree'[p] \in Nat /\ tree[p] <= tree'[p]
  BY DEF TreeType, UpTo
<1>2. \A t \in TreeType : UpTo(t, tree) => UpTo(t, tree')
  <2> SUFFICES ASSUME NEW t \in TreeType, UpTo(t, tree), NEW p \in Parts PROVE t[p] <= tree'[p]
    BY DEF UpTo
  <2>1. t[p] \in Nat /\ t[p] <= tree[p]  BY DEF TreeType, UpTo
  <2> QED BY <1>1, <2>1
<1>3. \A n \in Nat : /\ n <= tree["tests"] => n <= tree'["tests"]
                    /\ n <= tree["plan"] => n <= tree'["plan"]
  BY <1>1 DEF Parts
<1> QED BY <1>2, <1>3 DEF DigestOf, RepoType

\* So what was read keeps its place while the runner is where it was, or has read as much.
LEMMA OnlyEditedStays ==
    ASSUME repo \in RepoType, UNCHANGED <<snap, repo>>, tree \in TreeType, tree' \in TreeType,
           UpTo(tree, tree'), OnlyEdited,
           run.pc = run'.pc \/ {run.pc, run'.pc} \subseteq {"suites", "commands"}
    PROVE  OnlyEdited'
<1>1. repo.atStart \in TreeType
  BY DEF RepoType
<1>2. DigestOf(repo.atStart)' = DigestOf(repo.atStart) /\ DigestOf(repo.atEnd)' = DigestOf(repo.atEnd)
  BY TreesGrow
<1>3. \A t \in TreeType : UpTo(t, tree) => UpTo(t, tree')
  BY TreesGrow
<1>4. \A n \in Nat : /\ n <= tree["tests"] => n <= tree'["tests"]
                     /\ n <= tree["plan"] => n <= tree'["plan"]
  <2>1. \A p \in Parts : tree[p] \in Nat /\ tree'[p] \in Nat /\ tree[p] <= tree'[p]
    BY DEF TreeType, UpTo
  <2> QED BY <2>1 DEF Parts
<1>5. /\ run'.pc \in CodeRead => run.pc \in CodeRead
      /\ run'.pc \in TestsRead => run.pc \in TestsRead
      /\ run'.pc \in PlanRead => run.pc \in PlanRead
      /\ run'.pc = "testsAfter" => run.pc = "testsAfter"
  BY DEF CodeRead, TestsRead, PlanRead
<1>6. run'.pc \in CodeRead => (snap.code = DigestOf(repo.atStart))' /\ UpTo(repo.atStart, tree)'
  <2> SUFFICES ASSUME run'.pc \in CodeRead
               PROVE  (snap.code = DigestOf(repo.atStart))' /\ UpTo(repo.atStart, tree)'
    OBVIOUS
  <2>1. snap.code = DigestOf(repo.atStart) /\ UpTo(repo.atStart, tree)
    BY <1>5 DEF OnlyEdited
  <2>2. UpTo(repo.atStart, tree')  BY <1>1, <1>3, <2>1
  <2>3. (snap.code = DigestOf(repo.atStart))'  BY <1>2, <2>1
  <2> QED BY <2>2, <2>3
<1>7. run'.pc \in TestsRead =>
         /\ snap'.tests \in Nat /\ repo'.atStart["tests"] <= snap'.tests
         /\ snap'.tests <= tree'["tests"]
  BY <1>4, <1>5 DEF OnlyEdited
<1>8. run'.pc \in PlanRead =>
         /\ snap'.plan \in Nat /\ repo'.atStart["plan"] <= snap'.plan
         /\ snap'.plan <= tree'["plan"]
  BY <1>4, <1>5 DEF OnlyEdited
<1>9. run'.pc = "testsAfter" =>
         /\ (snap.codeAfter = DigestOf(repo.atEnd))' /\ UpTo(repo.atEnd, tree)'
         /\ snap'.tests <= repo'.atEnd["tests"] /\ snap'.plan <= repo'.atEnd["plan"]
  <2> SUFFICES ASSUME run'.pc = "testsAfter"
               PROVE  /\ (snap.codeAfter = DigestOf(repo.atEnd))' /\ UpTo(repo.atEnd, tree)'
                      /\ snap'.tests <= repo'.atEnd["tests"] /\ snap'.plan <= repo'.atEnd["plan"]
    OBVIOUS
  <2>1. /\ snap.codeAfter = DigestOf(repo.atEnd) /\ UpTo(repo.atEnd, tree)
        /\ snap.tests <= repo.atEnd["tests"] /\ snap.plan <= repo.atEnd["plan"]
    BY <1>5 DEF OnlyEdited
  <2>2. repo.atEnd \in TreeType  BY DEF RepoType
  <2>3. UpTo(repo.atEnd, tree')  BY <1>3, <2>1, <2>2
  <2>4. (snap.codeAfter = DigestOf(repo.atEnd))'  BY <1>2, <2>1
  <2> QED BY <2>1, <2>3, <2>4
<1> QED BY <1>6, <1>7, <1>8, <1>9 DEF OnlyEdited

\* Commands and suites: the snapshots stay, the tree may only grow.
LEMMA RunsStayInOrder ==
    ASSUME PlanInv, UNCHANGED <<plan, snap, repo, inventory>>, run.pc \in {"suites", "commands"},
           run'.pc \in {"suites", "commands"}, tree' \in TreeType, UpTo(tree, tree')
    PROVE  /\ SnapTypes' /\ TreesRead'
           /\ PassIsEarned' /\ VerdictOfOneTree' /\ StillTreeIsNotStale' /\ InventoryExact'
<1>0. tree \in TreeType /\ repo \in RepoType /\ snap.verdict = "none"
  BY DEF PlanInv, PlanTypes, TreesRead
<1>1. SnapTypes'
  BY DEF PlanInv, SnapTypes
<1>2. TreesRead'
  <2>1. OnlyEdited => OnlyEdited'
    BY <1>0, OnlyEditedStays
  <2> QED BY <1>0, <2>1 DEF PlanInv, TreesRead
<1>3. (PassIsEarned /\ VerdictOfOneTree /\ StillTreeIsNotStale /\ InventoryExact)'
  BY <1>0 DEF PassIsEarned, VerdictOfOneTree, StillTreeIsNotStale, InventoryExact
<1> QED BY <1>1, <1>2, <1>3

LEMMA SuitesBegin == PlanInv /\ BeginSuite => PlanInv'
<1> SUFFICES ASSUME PlanInv, BeginSuite PROVE PlanInv'
  OBVIOUS
<1>p. UNCHANGED <<plan, snap, tree, repo, inventory>> /\ run.pc = "suites"
  BY DEF BeginSuite
<1>1. PICK s \in run.left :
          \/ /\ run' = [run EXCEPT !.left = @ \ {s}]
             /\ evidence' = [evidence EXCEPT ![s].missing = TRUE]
          \/ run' = [run EXCEPT !.pc = "commands", !.suite = s, !.left = @ \ {s}]
             /\ UNCHANGED evidence
  BY DEF BeginSuite
<1>s. s \in Suites /\ s \in Resolved(run.target) /\ plan.suites[s].kind = "leaf" /\ Fresh(s) /\ Valid
  BY <1>p DEF PlanInv, PlanTypes, SuitesRun, Resolved, Working, CodeRead
<1>2. run'.target = run.target /\ run'.dry = run.dry /\ run'.left = run.left \ {s}
  BY <1>1 DEF PlanInv, PlanTypes
<1>v. Valid' = Valid /\ Resolved(run.target)' = Resolved(run.target)
  BY <1>p, <1>2, SamePlan
<1>3. PlanTypes' /\ run'.pc \in {"suites", "commands"}
  <2>1. evidence' \in [Suites -> EvidenceType]
    <3>1. evidence \in [Suites -> [missing : BOOLEAN, commands : Seq(Outcomes)]]
      BY DEF PlanInv, PlanTypes, EvidenceType
    <3>2. [evidence EXCEPT ![s].missing = TRUE] \in [Suites -> [missing : BOOLEAN, commands : Seq(Outcomes)]]
      BY <3>1, <1>s
    <3> QED BY <1>1, <3>1, <3>2 DEF EvidenceType
  <2>2. run' \in [pc : RunPcs, target : Suites \cup {FeatureTarget}, dry : BOOLEAN, inside : BOOLEAN,
                left : SUBSET Suites, suite : Suites \cup {Ghost}, exit : Nat]
        /\ run'.pc \in {"suites", "commands"}
    <3>1. run \in [pc : RunPcs, target : Suites \cup {FeatureTarget}, dry : BOOLEAN, inside : BOOLEAN,
                left : SUBSET Suites, suite : Suites \cup {Ghost}, exit : Nat]
      BY DEF PlanInv, PlanTypes
    <3>2. run' = [run EXCEPT !.left = @ \ {s}]
          \/ run' = [run EXCEPT !.pc = "commands", !.suite = s, !.left = @ \ {s}]
      BY <1>1
    <3>3. run.left \ {s} \in SUBSET Suites
      BY <3>1
    <3> QED BY <3>1, <3>2, <3>3, <1>s, <1>p DEF RunPcs
  <2> QED
    BY <2>1, <2>2, <1>p DEF PlanInv, PlanTypes, Includes
<1>4. SuitesRun'
  <2>0. Len(evidence[s].commands) = 0 /\ plan.suites[s].commands > 0
    BY <1>s DEF Fresh, Valid, SuiteValid
  <2>t. run \in [pc : RunPcs, target : Suites \cup {FeatureTarget}, dry : BOOLEAN, inside : BOOLEAN,
                left : SUBSET Suites, suite : Suites \cup {Ghost}, exit : Nat]
        /\ evidence \in [Suites -> EvidenceType]
    BY DEF PlanInv, PlanTypes
  <2>i. /\ run.left \subseteq Resolved(run.target) /\ (\A r \in run.left : Fresh(r))
        /\ run.dry \/ \A r \in Resolved(run.target) \ run.left : Complete(r)
    BY <1>p DEF PlanInv, SuitesRun, Working, CodeRead
  <2>1. CASE run' = [run EXCEPT !.left = @ \ {s}] /\ evidence' = [evidence EXCEPT ![s].missing = TRUE]
    <3>1. \A r \in Suites \ {s} : evidence'[r] = evidence[r]
      BY <2>1, <2>t
    <3>2. evidence'[s].missing
      BY <2>1, <2>t, <1>s DEF EvidenceType
    <3>3. run'.pc = "suites"
      BY <2>1, <2>t, <1>p
    <3>4. \A r \in run'.left : Fresh(r)'
      BY <3>1, <2>i, <1>2, <2>t DEF Fresh
    <3>5. run.dry \/ \A r \in Resolved(run.target) \ run'.left : Complete(r)'
      <4>1. ASSUME NEW r \in Resolved(run.target) \ run'.left, r # s, Complete(r) PROVE Complete(r)'
        BY <4>1, <3>1, <1>p DEF Complete, AllPassed, Resolved
      <4>2. Complete(s)'
        BY <3>2 DEF Complete
      <4> QED BY <4>1, <4>2, <2>i, <1>2
    <3> QED BY <3>3, <3>4, <3>5, <1>2, <1>s, <1>v, <2>i DEF SuitesRun, Working, CodeRead
  <2>2. CASE run' = [run EXCEPT !.pc = "commands", !.suite = s, !.left = @ \ {s}] /\ UNCHANGED evidence
    <3>1. run'.pc = "commands" /\ run'.suite = s
      BY <2>2, <2>t
    <3>2. Partial(s)'
      BY <2>2, <2>0, <1>s, <1>p DEF Partial, Fresh, AllPassed
    <3>3. \A r \in Suites : Complete(r)' = Complete(r) /\ Fresh(r)' = Fresh(r)
      BY <2>2, <1>p DEF Complete, AllPassed, Fresh
    <3>4. Resolved(run.target) \subseteq Suites
      BY DEF Resolved
    <3> QED BY <3>1, <3>2, <3>3, <3>4, <1>2, <1>s, <1>v, <2>i DEF SuitesRun, Working, CodeRead
  <2> QED BY <1>1, <2>1, <2>2
<1>5. tree' \in TreeType /\ UpTo(tree, tree')
  BY <1>p DEF PlanInv, PlanTypes, TreeType, UpTo
<1> QED
  BY <1>3, <1>4, <1>5, <1>p, RunsStayInOrder DEF PlanInv

LEMMA CommandsRun == PlanInv /\ (RunCommand \/ PlanCommands) => PlanInv'
<1> SUFFICES ASSUME PlanInv, RunCommand \/ PlanCommands PROVE PlanInv'
  OBVIOUS
<1>p. UNCHANGED <<plan, snap, repo, inventory>> /\ run.pc = "commands"
  BY DEF RunCommand, PlanCommands, Continue
<1> DEFINE s == run.suite
<1>s. /\ s \in Suites /\ s \in Resolved(run.target) \ run.left /\ Partial(s) /\ Valid
      /\ run.left \subseteq Resolved(run.target) /\ (\A r \in run.left : Fresh(r))
      /\ run.dry \/ \A r \in Resolved(run.target) \ (run.left \cup {s}) : Complete(r)
  BY <1>p DEF PlanInv, SuitesRun, Resolved, Working, CodeRead
<1>t. run \in [pc : RunPcs, target : Suites \cup {FeatureTarget}, dry : BOOLEAN, inside : BOOLEAN,
              left : SUBSET Suites, suite : Suites \cup {Ghost}, exit : Nat]
      /\ evidence \in [Suites -> EvidenceType] /\ tree \in TreeType
  BY DEF PlanInv, PlanTypes
<1>1. run' = [run EXCEPT !.pc = run'.pc] /\ run'.pc \in {"suites", "commands"}
  BY <1>t DEF RunCommand, PlanCommands, Continue
<1>2. UNCHANGED <<run.target, run.dry, run.left, run.suite>>
  BY <1>1, <1>t
<1>v. Valid' = Valid /\ Resolved(run.target)' = Resolved(run.target)
  BY <1>p, <1>2, SamePlan
<1>r. Resolved(run.target) \subseteq Suites
  BY DEF Resolved
<1>3. CASE RunCommand
  <2> DEFINE commands == evidence[s].commands
  <2>1. PICK result \in Outcomes :
          /\ evidence' = [evidence EXCEPT ![s].commands = Append(@, result)]
          /\ run' = [run EXCEPT !.pc = IF Passed(result) /\ Count + 1 < plan.suites[s].commands
                                       THEN "commands" ELSE "suites"]
    BY <1>3 DEF RunCommand
  <2>2. /\ tree' \in TreeType /\ UpTo(tree, tree')
        /\ tree' = IF run.inside THEN [tree EXCEPT !.code = @ + 1] ELSE tree
    BY <1>3, <1>t DEF RunCommand, TreeType, UpTo, Parts
  <2>3. commands \in Seq(Outcomes) /\ Len(commands) \in Nat /\ plan.suites[s].commands \in Nat
    BY <1>s, <1>t DEF EvidenceType, PlanInv, PlanTypes, SuiteType
  <2>4. /\ \A r \in Suites \ {s} : evidence'[r] = evidence[r]
        /\ evidence'[s].commands = Append(commands, result)
        /\ evidence'[s].missing = evidence[s].missing
    BY <2>1, <1>s, <1>t DEF EvidenceType
  <2>5. /\ Len(evidence'[s].commands) = Len(commands) + 1
        /\ evidence'[s].commands[Len(commands) + 1] = result
        /\ \A i \in 1 .. Len(commands) : evidence'[s].commands[i] = commands[i]
        /\ evidence'[s].commands \in Seq(Outcomes)
    BY <2>3, <2>4
  <2>6. evidence' \in [Suites -> EvidenceType]
    <3>1. evidence' \in [Suites -> [missing : BOOLEAN, commands : Seq(Outcomes)]]
      BY <2>1, <2>3, <2>5, <1>t, <1>s DEF EvidenceType
    <3> QED BY <3>1 DEF EvidenceType
  <2>7. PlanTypes'
    BY <2>6, <2>2, <1>1, <1>p DEF PlanInv, PlanTypes, RunPcs, Includes
  <2>8. \A r \in Suites \ {s} : Complete(r)' = Complete(r) /\ Fresh(r)' = Fresh(r)
    BY <2>4, <1>p DEF Complete, AllPassed, Fresh
  <2>9. AllPassed(s)' <=> Passed(result)
    <3>1. \A i \in 1 .. Len(commands) : Passed(commands[i])
      BY <1>s DEF Partial, AllPassed
    <3>2. \A i \in 1 .. Len(commands) : Passed(evidence'[s].commands[i]) <=> Passed(commands[i])
      BY <2>5
    <3>3. Passed(evidence'[s].commands[Len(commands) + 1]) <=> Passed(result)
      BY <2>5
    <3>4. 1 .. Len(evidence'[s].commands) = (1 .. Len(commands)) \cup {Len(commands) + 1}
      BY <2>5, <2>3
    <3>5. AllPassed(s)' <=> \A i \in 1 .. Len(evidence'[s].commands) : Passed(evidence'[s].commands[i])
      BY <1>2 DEF AllPassed
    <3> QED BY <3>1, <3>2, <3>3, <3>4, <3>5
  <2>a. Len(commands) < plan.suites[s].commands /\ ~evidence[s].missing
    BY <1>s DEF Partial
  <2>b. CASE Passed(result) /\ Count + 1 < plan.suites[s].commands
    <3>1. run'.pc = "commands"
      BY <2>1, <2>b, <1>t
    <3>2. Partial(s)'
      BY <2>9, <2>b, <2>5, <2>4, <2>a, <1>p, <1>2 DEF Partial, Count
    <3> HIDE DEF s
    <3> SuitesRun'
      BY <3>1, <3>2, <2>8, <1>2, <1>r, <1>s, <1>v DEF SuitesRun, Working, CodeRead, s
    <3> QED BY <2>7, <2>2, <1>p, <1>1, RunsStayInOrder DEF PlanInv
  <2>c. CASE ~(Passed(result) /\ Count + 1 < plan.suites[s].commands)
    <3>1. run'.pc = "suites"
      BY <2>1, <2>c, <1>t
    <3>2. Complete(s)'
      BY <2>9, <2>c, <2>5, <2>3, <2>a, <1>p, <1>2 DEF Complete, Count
    <3> SuitesRun'
      BY <3>1, <3>2, <2>8, <1>2, <1>r, <1>s, <1>v DEF SuitesRun, Working, CodeRead
    <3> QED BY <2>7, <2>2, <1>p, <1>1, RunsStayInOrder DEF PlanInv
  <2> QED BY <2>b, <2>c
<1>4. CASE PlanCommands
  <2>1. run.dry /\ run'.pc = "suites" /\ UNCHANGED <<evidence, tree>>
    BY <1>4, <1>t DEF PlanCommands, Continue
  <2>2. PlanTypes'
    BY <2>1, <1>1, <1>p DEF PlanInv, PlanTypes, RunPcs, Includes
  <2>3. SuitesRun'
    BY <2>1, <1>2, <1>s, <1>v DEF SuitesRun, Working, CodeRead, Fresh
  <2>4. tree' \in TreeType /\ UpTo(tree, tree')
    BY <2>1, <1>t DEF TreeType, UpTo
  <2> QED BY <2>2, <2>3, <2>4, <1>p, <1>1, RunsStayInOrder DEF PlanInv
<1> QED BY <1>3, <1>4

LEMMA RunsGiveUp == PlanInv /\ CommandRaises => PlanInv'
<1> SUFFICES ASSUME PlanInv, CommandRaises PROVE PlanInv'
  OBVIOUS
<1>1. /\ UNCHANGED <<plan, evidence, snap, tree, repo, inventory>> /\ run.pc = "commands"
      /\ run' = [run EXCEPT !.pc = "exited", !.exit = 2]
  BY DEF CommandRaises, Leave
<1>2. PlanTypes' /\ run'.pc = "exited" /\ run'.exit = 2 /\ snap'.verdict = "none"
  BY <1>1 DEF PlanInv, PlanTypes, RunPcs, Includes, TreesRead
<1>3. SnapTypes' /\ TreesRead' /\ SuitesRun'
  BY <1>1, <1>2 DEF PlanInv, SnapTypes, TreesRead, OnlyEdited, CodeRead, TestsRead, PlanRead, SuitesRun, Working
<1>4. (PassIsEarned /\ VerdictOfOneTree /\ StillTreeIsNotStale /\ InventoryExact)'
  BY <1>2 DEF PassIsEarned, VerdictOfOneTree, StillTreeIsNotStale, InventoryExact
<1> QED BY <1>2, <1>3, <1>4 DEF PlanInv

\* What others do ends the comparison of trees, or is an edit, which takes none back.
OthersDo == \E p \in Parts : Edit(p) \/ Undo(p) \/ Commit(p) \/ Checkout(p)
LEMMA OthersWorkOn == PlanInv /\ OthersDo => PlanInv'
<1> SUFFICES ASSUME PlanInv, NEW p \in Parts, Edit(p) \/ Undo(p) \/ Commit(p) \/ Checkout(p)
             PROVE  PlanInv'
  BY DEF OthersDo
<1>p. UNCHANGED <<plan, run, evidence, snap, inventory>> /\ run.pc \notin {"inventory", "exited"}
  BY DEF Edit, Undo, Commit, Checkout, Unfinished
<1>t. tree \in TreeType /\ repo \in RepoType /\ snap.verdict = "none"
  BY <1>p DEF PlanInv, PlanTypes, TreesRead
<1>1. tree' \in TreeType /\ repo' \in RepoType
      /\ \/ UNCHANGED repo /\ UpTo(tree, tree')
         \/ repo'.moved = (repo.moved \/ run.pc \notin {"loaded", "code"})
  <2>1. CASE Edit(p)
    BY <1>t, <2>1 DEF Edit, TreeType, UpTo
  <2>2. CASE Undo(p)
    <3>1. repo.head \in TreeType  BY <1>t DEF RepoType
    <3>2. tree' \in TreeType  BY <1>t, <2>2, <3>1 DEF Undo, TreeType
    <3> QED BY <1>t, <2>2, <3>1, <3>2 DEF Undo, Moved, RepoType
  <2>3. CASE Commit(p)
    <3>1. [repo.head EXCEPT ![p] = tree[p]] \in TreeType  BY <1>t DEF RepoType, TreeType
    <3>2. UNCHANGED tree  BY <2>3 DEF Commit
    <3>3. Moved([repo.head EXCEPT ![p] = tree[p]])  BY <2>3 DEF Commit
    <3> HIDE DEF TreeType
    <3> QED BY <1>t, <3>1, <3>2, <3>3 DEF Moved, RepoType
  <2>4. CASE Checkout(p)
    <3>1. tree' \in TreeType /\ Moved([repo.head EXCEPT ![p] = tree'[p]])
      BY <1>t, <2>4, TestPlanAssumption DEF Checkout, TreeType
    <3>2. [repo.head EXCEPT ![p] = tree'[p]] \in TreeType  BY <1>t, <3>1 DEF RepoType, TreeType
    <3> HIDE DEF TreeType
    <3> QED BY <1>t, <3>1, <3>2 DEF Moved, RepoType
  <2> QED BY <2>1, <2>2, <2>3, <2>4
<1>2. PlanTypes' /\ SnapTypes'
  BY <1>p, <1>1 DEF PlanInv, PlanTypes, SnapTypes, Includes
<1>3. TreesRead'
  <2>1. CASE UNCHANGED repo /\ UpTo(tree, tree')
    <3>1. OnlyEdited => OnlyEdited'
      BY <1>p, <1>t, <1>1, <2>1, OnlyEditedStays
    <3> QED BY <1>p, <1>t, <2>1, <3>1 DEF PlanInv, TreesRead
  <2>2. CASE repo'.moved = (repo.moved \/ run.pc \notin {"loaded", "code"})
    BY <1>p, <1>t, <2>2 DEF TreesRead, OnlyEdited, CodeRead, TestsRead, PlanRead
  <2> QED BY <1>1, <2>1, <2>2
<1>v. Valid' = Valid /\ Resolved(run.target)' = Resolved(run.target)
  BY <1>p, SamePlan
<1>4. SuitesRun'
  BY <1>p, <1>v DEF PlanInv, SuitesRun, Fresh, Partial, Complete, AllPassed
<1>5. (PassIsEarned /\ VerdictOfOneTree /\ StillTreeIsNotStale /\ InventoryExact)'
  BY <1>p, <1>t DEF PassIsEarned, VerdictOfOneTree, StillTreeIsNotStale, InventoryExact
<1> QED BY <1>2, <1>3, <1>4, <1>5 DEF PlanInv

LEMMA InventoryIsChecked == PlanInv /\ CheckInventory => PlanInv'
<1> SUFFICES ASSUME PlanInv, CheckInventory PROVE PlanInv'
  OBVIOUS
<1>p. UNCHANGED <<plan, evidence, snap, tree, repo, inventory>> /\ run.pc = "inventory"
  BY DEF CheckInventory
<1>1. PICK status \in {0, 1} :
        /\ run' = [run EXCEPT !.pc = "exited", !.exit = status]
        /\ status = 0 => ~Drift
  <2>1. PICK collects \in BOOLEAN : Leave(IF collects /\ ~Drift THEN 0 ELSE 1)
    BY DEF CheckInventory
  <2>2. CASE collects /\ ~Drift
    BY <2>1, <2>2 DEF Leave
  <2>3. CASE ~(collects /\ ~Drift)
    BY <2>1, <2>3 DEF Leave
  <2> QED BY <2>2, <2>3
<1>i. status \in Nat
  OBVIOUS
<1>2. PlanTypes' /\ run'.pc = "exited" /\ run'.exit = status
  BY <1>1, <1>i, <1>p DEF PlanInv, PlanTypes, RunPcs, Includes
<1>n. snap'.verdict = "none"
  BY <1>p DEF PlanInv, TreesRead
<1>3. SnapTypes' /\ TreesRead' /\ SuitesRun'
  BY <1>p, <1>n, <1>2
     DEF PlanInv, SnapTypes, TreesRead, OnlyEdited, CodeRead, TestsRead, PlanRead, SuitesRun, Working
<1>4. (PassIsEarned /\ VerdictOfOneTree /\ StillTreeIsNotStale)'
  BY <1>n DEF PassIsEarned, VerdictOfOneTree, StillTreeIsNotStale
<1>5. InventoryExact'
  BY <1>p, <1>1, <1>2 DEF InventoryExact, Drift, Named, PlanInv, PlanTypes
<1> QED BY <1>2, <1>3, <1>4, <1>5 DEF PlanInv

LEMMA VerdictIsReached == PlanInv /\ Judge => PlanInv'
<1> SUFFICES ASSUME PlanInv, Judge PROVE PlanInv'
  OBVIOUS
<1> DEFINE stale == snap.code # snap.codeAfter \/ snap.tests # tree.tests
           verdict == VerdictOf(stale)
<1>p. UNCHANGED <<plan, evidence, tree, repo, inventory>> /\ run.pc = "testsAfter"
  BY DEF Judge
<1>t. /\ tree \in TreeType /\ tree["tests"] \in Nat
      /\ repo.atStart \in TreeType /\ repo.atEnd \in TreeType /\ repo \in RepoType
  BY DEF PlanInv, PlanTypes, RepoType, TreeType, Parts
<1>s. ~repo.moved =>
        /\ snap.code = DigestOf(repo.atStart) /\ snap.codeAfter = DigestOf(repo.atEnd)
        /\ UpTo(repo.atEnd, tree) /\ UpTo(repo.atStart, tree)
        /\ repo.atStart["tests"] <= snap.tests /\ snap.tests <= repo.atEnd["tests"] /\ snap.tests \in Nat
        /\ repo.atStart["plan"] <= snap.plan /\ snap.plan <= repo.atEnd["plan"] /\ snap.plan \in Nat
  BY <1>p DEF PlanInv, PlanTypes, TreesRead, OnlyEdited, CodeRead, TestsRead, PlanRead
<1>1. snap' = [snap EXCEPT !.testsAfter = tree.tests, !.verdict = verdict]
  BY DEF Judge
<1>2. verdict \in {"PASS", "FAIL", "STALE", "PLANNED"}
  BY DEF VerdictOf
<1>3. /\ snap'.verdict = verdict /\ snap'.code = snap.code /\ snap'.codeAfter = snap.codeAfter
      /\ snap'.tests = snap.tests /\ snap'.plan = snap.plan
  BY <1>1 DEF PlanInv, SnapTypes
<1>4. SnapTypes'
  BY <1>1, <1>2, <1>t DEF PlanInv, SnapTypes
<1>5. PICK status \in Nat : run' = [run EXCEPT !.pc = "exited", !.exit = status]
  <2>1. StatusOf["PASS"] = 0 /\ StatusOf["PLANNED"] = 0 /\ StatusOf["FAIL"] = 1 /\ StatusOf["STALE"] = 4
    BY DEF StatusOf
  <2>2. StatusOf[verdict] \in Nat
    BY <2>1, <1>2
  <2>3. Leave(StatusOf[verdict])
    BY <1>3 DEF Judge
  <2> QED BY <2>2, <2>3 DEF Leave
<1>6. PlanTypes' /\ run'.pc = "exited" /\ run'.target = run.target /\ run'.inside = run.inside
  BY <1>5, <1>p DEF PlanInv, PlanTypes, RunPcs, Includes
<1>7. TreesRead' /\ SuitesRun'
  BY <1>6 DEF TreesRead, OnlyEdited, CodeRead, TestsRead, PlanRead, SuitesRun, Working
<1>v. Resolved(run.target)' = Resolved(run.target)
  BY <1>p, <1>6, SamePlan
<1>8. PassIsEarned'
  <2>1. SUFFICES ASSUME verdict = "PASS", NEW s \in Resolved(run.target)
                 PROVE  /\ ~evidence[s].missing
                        /\ Len(evidence[s].commands) = plan.suites[s].commands
                        /\ \A i \in DOMAIN evidence[s].commands : Passed(evidence[s].commands[i])
    BY <1>3, <1>v, <1>p DEF PassIsEarned, Passed
  <2>2. ~run.dry /\ ~HasFailure
    BY <2>1 DEF VerdictOf
  <2>3. s \in Suites /\ evidence[s].commands \in Seq(Outcomes)
    BY DEF Resolved, PlanInv, PlanTypes, EvidenceType
  <2>4. DOMAIN evidence[s].commands = 1 .. Len(evidence[s].commands)
    BY <2>3
  <2>5. Complete(s)
    BY <2>2, <1>p DEF PlanInv, SuitesRun, Working, CodeRead
  <2> QED BY <2>2, <2>3, <2>4, <2>5 DEF HasFailure, Complete, AllPassed
<1>9. VerdictOfOneTree'
  <2> SUFFICES ASSUME verdict \in {"PASS", "FAIL"}, ~repo.moved
               PROVE  /\ repo.atStart = repo.atEnd
                      /\ snap.tests = repo.atStart["tests"] /\ snap.plan = repo.atStart["plan"]
    BY <1>3, <1>p DEF VerdictOfOneTree
  <2>1. ~stale
    BY DEF VerdictOf
  <2>2. repo.atStart = repo.atEnd
    BY <2>1, <1>s, <1>t, DigestTells
  <2>3. repo.atStart["tests"] \in Nat /\ repo.atStart["plan"] \in Nat
    BY <1>t DEF TreeType, Parts
  <2> QED BY <2>2, <2>3, <1>s
<1>a. StillTreeIsNotStale'
  <2> SUFFICES ASSUME verdict = "STALE", ~repo.moved, tree = repo.atStart, repo.atStart = repo.atEnd
               PROVE  FALSE
    BY <1>3, <1>6, <1>p DEF StillTreeIsNotStale
  <2>1. stale
    BY DEF VerdictOf
  <2>2. snap.code = snap.codeAfter
    BY <1>s
  <2>3. snap.tests = tree["tests"]
    BY <1>s, <1>t
  <2> QED BY <2>1, <2>2, <2>3
<1>b. InventoryExact'
  BY <1>3, <1>2 DEF InventoryExact
<1> QED BY <1>4, <1>6, <1>7, <1>8, <1>9, <1>a, <1>b DEF PlanInv

LEMMA PlanInvInit == TestPlanInit => PlanInv
<1> SUFFICES ASSUME TestPlanInit PROVE PlanInv
  OBVIOUS
<1>1. plan \in [suites : [Suites -> SuiteShapes], feature : SUBSET (Suites \cup {Ghost})]
  BY DEF TestPlanInit
<1>2. \A x \in SuiteShapes : x \in SuiteType /\ (x.kind = "leaf" => x.includes = {})
  BY TestPlanAssumption DEF SuiteShapes, SuiteType, Leaf, Composite
<1>3. /\ plan \in [suites : [Suites -> SuiteType], feature : SUBSET (Suites \cup {Ghost})]
      /\ \A s \in Suites : plan.suites[s].kind = "leaf" => Includes(s) = {}
  BY <1>1, <1>2 DEF Includes
<1>4. run \in [pc : RunPcs, target : Suites \cup {FeatureTarget}, dry : BOOLEAN, inside : BOOLEAN,
              left : SUBSET Suites, suite : Suites \cup {Ghost}, exit : Nat]
      /\ run.pc \in {"loaded", "inventory"} /\ run.exit = NoExit
  BY DEF TestPlanInit, RunPcs, NoExit
<1>5. evidence \in [Suites -> EvidenceType] /\ \A s \in Suites : Fresh(s)
  BY DEF TestPlanInit, NothingRan, EvidenceType, Fresh
<1>6. PlanTypes
  <2>1. tree \in TreeType /\ repo \in RepoType
    <3>1. Untouched \in TreeType  BY DEF Untouched, TreeType
    <3> HIDE DEF TreeType
    <3> QED BY <3>1 DEF TestPlanInit, NothingRan, RepoType
  <2> QED BY <1>3, <1>4, <1>5, <2>1 DEF PlanTypes, TestPlanInit
<1>7. SnapTypes /\ snap.verdict = "none"
  BY DEF SnapTypes, TestPlanInit, NothingRan
<1>8. TreesRead /\ SuitesRun
  BY <1>4, <1>5, <1>7 DEF TreesRead, OnlyEdited, CodeRead, TestsRead, PlanRead, SuitesRun, Working
<1> QED BY <1>4, <1>6, <1>7, <1>8, Undecided DEF PlanInv

\* Whatever the plan, the commands and the work of others: a plan that validates can be
\* run, and its verdict is earned, on one tree as long as that is only edited
\* (validate_plan, resolve_target, command_run and command_inventory of testctl.py).
THEOREM PlanRunIsSound == TestPlanSpec => []PlanRunSound
<1>1. PlanInv /\ [TestPlanNext]_testPlanVars => PlanInv'
  <2> SUFFICES ASSUME PlanInv, [TestPlanNext]_testPlanVars PROVE PlanInv'
    OBVIOUS
  <2>1. CASE UNCHANGED testPlanVars
    BY <2>1 DEF testPlanVars, PlanInv, PlanTypes, Includes, SnapTypes, TreesRead, OnlyEdited, DigestOf,
           UpTo, SuitesRun, Fresh,
           Partial, Complete, AllPassed, Valid, SuiteValid, LedTo, Resolved, Reached, Roots, PassIsEarned,
           VerdictOfOneTree, StillTreeIsNotStale, InventoryExact
  <2> QED
    BY <2>1, ValidatedRuns, SnapshotsFollow, SuitesBegin, CommandsRun, RunsGiveUp, OthersWorkOn,
       InventoryIsChecked, VerdictIsReached DEF TestPlanNext, Snapshot, OthersDo
<1>2. PlanInv => PlanRunSound
  BY ValidResolves DEF PlanInv, PlanRunSound
<1> QED
  BY PlanInvInit, <1>1, <1>2, PTL DEF TestPlanSpec
-----------------------------------------------------------------------------
(* The fold of a journal *)

Records == TerminalStatuses \cup {"detected"}

\* Of the terminal records of a journal one is the last.
HasLast(records) ==
    Terminal(records) # {} =>
        \E i \in Terminal(records) : \A j \in Terminal(records) : j <= i

FoldInv ==
    /\ journal \in [Events -> Seq(Records)] /\ files \subseteq Events
    /\ \A e \in Events : HasLast(journal[e])

\* A journal that is continued still has a last terminal record.
LEMMA LastAppended ==
    ASSUME NEW records \in Seq(Records), NEW status \in Records, HasLast(records)
    PROVE  HasLast(Append(records, status))
<1> DEFINE longer == Append(records, status)
           n == Len(records) + 1
<1>1. /\ n \in Nat /\ DOMAIN longer = 1 .. n /\ longer[n] = status
      /\ \A i \in 1 .. Len(records) : longer[i] = records[i]
      /\ DOMAIN records = 1 .. Len(records) /\ Len(records) \in Nat
  OBVIOUS
<1>2. \A i \in Terminal(longer) : i \in 1 .. n
  BY <1>1 DEF Terminal
<1>3. CASE status # "detected"
  <2>1. n \in Terminal(longer)
    BY <1>1, <1>3 DEF Terminal
  <2> QED
    BY <1>1, <1>2, <2>1 DEF HasLast
<1>4. CASE status = "detected"
  <2>1. Terminal(longer) = Terminal(records)
    BY <1>1, <1>4 DEF Terminal
  <2> QED
    BY <2>1 DEF HasLast
<1> QED
  BY <1>3, <1>4

LEMMA FoldStep == FoldInv /\ [Next]_vars => FoldInv'
<1> SUFFICES ASSUME FoldInv, [Next]_vars PROVE FoldInv'
  OBVIOUS
<1>1. ASSUME NEW e \in Events, NEW status \in Records, AppendRecord(e, status)
      PROVE  FoldInv'
  <2>1. HasLast(Append(journal[e], status))
    BY LastAppended DEF FoldInv
  <2>2. Append(journal[e], status) \in Seq(Records)
    BY DEF FoldInv
  <2> QED
    BY <1>1, <2>1, <2>2 DEF FoldInv, AppendRecord
<1>2. ASSUME NEW e \in Events, WriteFile(e) PROVE FoldInv'
  BY <1>2 DEF FoldInv, WriteFile
<1>3. CASE UNCHANGED vars
  BY <1>3 DEF FoldInv, vars
<1> QED
  BY <1>1, <1>2, <1>3 DEF Next, Records

-----------------------------------------------------------------------------
(* What the fold says of an event *)

\* An event ends as its last terminal record says, if it has one.
LEMMA LastIsTerminal ==
    ASSUME FoldInv, NEW e \in Events
    PROVE  /\ LastTerminal(journal[e]) \in TerminalStatuses \cup {"none"}
           /\ LastTerminal(journal[e]) = "none" <=> Terminal(journal[e]) = {}
           /\ LET last == journal[e][Len(journal[e])] IN
                 journal[e] # <<>> => last = "detected" \/ LastTerminal(journal[e]) = last
<1> DEFINE records == journal[e]
<1>1. records \in Seq(Records) /\ HasLast(records)
  BY DEF FoldInv
<1> HIDE DEF records
<1>2. CASE Terminal(records) = {}
  <2>1. LastTerminal(records) = "none"
    BY <1>2 DEF LastTerminal
  <2>2. ASSUME records # <<>> PROVE records[Len(records)] = "detected"
    BY <1>1, <1>2, <2>2 DEF Terminal
  <2> QED
    BY <1>2, <2>1, <2>2 DEF records
<1>3. CASE Terminal(records) # {}
  <2> DEFINE Greatest(i) == \A j \in Terminal(records) : j <= i
             m == CHOOSE i \in Terminal(records) : Greatest(i)
  <2>1. m \in Terminal(records) /\ Greatest(m)
    <3>1. \E i \in Terminal(records) : Greatest(i)
      BY <1>1, <1>3 DEF HasLast
    <3> HIDE DEF Greatest
    <3> QED
      BY <3>1
  <2>2. LastTerminal(records) = records[m]
    BY <1>3 DEF LastTerminal
  <2> HIDE DEF m
  <2>3. records[m] \in TerminalStatuses
    BY <1>1, <2>1 DEF Terminal, Records
  <2>4. "none" \notin TerminalStatuses
    BY DEF TerminalStatuses
  <2>5. ASSUME records # <<>>, records[Len(records)] # "detected"
        PROVE  records[m] = records[Len(records)]
    <3>1. Len(records) \in Terminal(records) /\ Terminal(records) \subseteq 1 .. Len(records)
          /\ Len(records) \in Nat
      BY <1>1, <2>5 DEF Terminal
    <3>2. m = Len(records)
      BY <2>1, <3>1
    <3> QED
      BY <3>2
  <2> QED
    BY <1>3, <2>2, <2>3, <2>4, <2>5 DEF records
<1> QED
  BY <1>2, <1>3 DEF records

\* An issue that is settled, orphaned, or only a file makes an incident.
LEMMA EntriesAre ==
    ASSUME FoldInv
    PROVE  /\ IssueEvents(journal, Kind) \subseteq Events
           /\ SettledEvents(journal, Kind) \subseteq Events
           /\ OrphanedEvents(journal, Kind) \subseteq Events
           /\ TheReport.incidents = Incidents(journal, files, Kind)
           /\ TheReport.pipeline = JournalCounts(journal, Kind)
           /\ TheReport.verdict = Verdict(Incidents(journal, files, Kind),
                                          CollectionHealth(journal, files, Kind, "healthy"))
<1>1. DOMAIN journal = Events
  BY DEF FoldInv
<1> QED
  BY <1>1 DEF IssueEvents, SettledEvents, OrphanedEvents, TheReport, Report

\* Each event that came to an end is one incident, with the status of its last record.
LEMMA SettledIsOne == FoldInv => SettledOnce
<1> SUFFICES ASSUME FoldInv, NEW e \in SettledEvents(journal, Kind), Kind[e] = "issue"
             PROVE  /\ Cardinality(EntriesOf(e)) = 1
                    /\ \A entry \in EntriesOf(e) : entry.status = journal[e][Len(journal[e])]
                         \/ journal[e][Len(journal[e])] = "detected"
  BY DEF SettledOnce
<1> DEFINE one == Entry(e, LastTerminal(journal[e]), IF e \in files THEN "file" ELSE "placeholder")
<1>1. e \in Events
  BY EntriesAre
<1>2. LastTerminal(journal[e]) # "none" /\ e \notin OrphanedEvents(journal, Kind)
  BY DEF SettledEvents, OrphanedEvents
<1>3. EntriesOf(e) = {one}
  <2>1. one \in EntriesOf(e)
    <3>1. one \in FromJournal(journal, files, Kind) /\ one.event = e
      BY DEF FromJournal, Entry
    <3> QED
      BY <3>1, EntriesAre DEF EntriesOf, Incidents, Reportable
  <2>2. ASSUME NEW entry \in EntriesOf(e) PROVE entry = one
    <3>1. entry.event = e /\ entry \in Incidents(journal, files, Kind)
      BY EntriesAre DEF EntriesOf
    <3>2. entry \notin Leftovers(journal, files, Kind)
      BY <3>1 DEF Leftovers, Entry
    <3>3. entry \notin Orphans(journal, Kind)
      BY <3>1, <1>2 DEF Orphans, Entry
    <3>4. entry \in FromJournal(journal, files, Kind)
      BY <3>1, <3>2, <3>3 DEF Incidents
    <3> QED
      BY <3>1, <3>4 DEF FromJournal, Entry
  <2> QED
    BY <2>1, <2>2
<1>4. one.status = LastTerminal(journal[e])
  BY DEF Entry
<1>5. journal[e] # <<>>
  <2>1. Terminal(journal[e]) # {}
    BY <1>1, <1>2, LastIsTerminal
  <2> QED
    BY <2>1 DEF Terminal
<1> QED
  BY <1>1, <1>3, <1>4, <1>5, LastIsTerminal, FS_Singleton

\* An issue that the journal knows is an incident, unless it fell to the cap.
LEMMA FactsAreEntries == FoldInv => FactsSurface
<1> SUFFICES ASSUME FoldInv, NEW e \in IssueEvents(journal, Kind), Kind[e] = "issue",
                    LastTerminal(journal[e]) # "dropped_by_cap"
             PROVE  EntriesOf(e) # {}
  BY DEF FactsSurface
<1>1. CASE LastTerminal(journal[e]) = "none"
  <2> DEFINE one == Entry(e, "failed", "placeholder")
  <2>1. one \in Orphans(journal, Kind) /\ one.event = e
    BY <1>1 DEF Orphans, OrphanedEvents, Entry
  <2> QED
    BY <2>1, EntriesAre DEF EntriesOf, Incidents, Reportable
<1>2. CASE LastTerminal(journal[e]) # "none"
  <2> DEFINE one == Entry(e, LastTerminal(journal[e]), IF e \in files THEN "file" ELSE "placeholder")
  <2>1. one \in FromJournal(journal, files, Kind) /\ one.event = e
    BY <1>2 DEF FromJournal, SettledEvents, Entry
  <2> QED
    BY <2>1, EntriesAre DEF EntriesOf, Incidents, Reportable
<1> QED
  BY <1>1, <1>2

\* A report that says stable has nothing to say.
LEMMA StableIsEmpty == FoldInv => NeverFalselyStable
<1> SUFFICES ASSUME FoldInv, TheReport.verdict = "stable", NEW e \in Events, Kind[e] = "issue"
             PROVE  e \notin files /\ (e \notin IssueEvents(journal, Kind)
                                        \/ LastTerminal(journal[e]) = "dropped_by_cap")
  BY DEF NeverFalselyStable
<1>1. TheReport.incidents = {}
  BY EntriesAre DEF Verdict
<1>2. EntriesOf(e) = {}
  BY <1>1 DEF EntriesOf
<1>3. ASSUME e \in files, e \notin SettledEvents(journal, Kind) PROVE FALSE
  <2> DEFINE one == Entry(e, "persisted", "file")
  <2>1. one \in Leftovers(journal, files, Kind) /\ one.event = e
    BY <1>3 DEF Leftovers, Entry
  <2> QED
    BY <2>1, <1>2, EntriesAre DEF EntriesOf, Incidents, Reportable
<1>4. ASSUME e \in IssueEvents(journal, Kind), LastTerminal(journal[e]) # "dropped_by_cap"
      PROVE  FALSE
  BY <1>2, <1>4, FactsAreEntries DEF FactsSurface
<1>5. e \notin files
  BY <1>3, <1>4 DEF SettledEvents
<1> QED
  BY <1>4, <1>5

-----------------------------------------------------------------------------
(* The counts *)

With(status) ==
    {e \in IssueEvents(journal, Kind) : LastTerminal(journal[e]) = status}

\* Two sets of issues with a different end have as many members together as apart.
LEMMA AddUp ==
    ASSUME NEW S, NEW T, IsFiniteSet(S), IsFiniteSet(T), S \cap T = {}
    PROVE  /\ IsFiniteSet(S \cup T)
           /\ Cardinality(S \cup T) = Cardinality(S) + Cardinality(T)
           /\ Cardinality(S) \in Nat /\ Cardinality(T) \in Nat
<1>1. Cardinality(S) \in Nat /\ Cardinality(T) \in Nat /\ Cardinality({}) = 0
  BY FS_CardinalityType, FS_EmptySet
<1>2. IsFiniteSet(S \cup T)
      /\ Cardinality(S \cup T) = Cardinality(S) + Cardinality(T) - Cardinality(S \cap T)
  BY FS_Union
<1>3. Cardinality(S \cap T) = 0
  BY <1>1
<1> QED
  BY <1>1, <1>2, <1>3

\* Each issue has one end, or is an orphan.
LEMMA CountsAddUp == FoldInv => CountsBalance
<1> SUFFICES ASSUME FoldInv PROVE CountsBalance
  OBVIOUS
<1> DEFINE A == With("persisted")
           B == With("failed")
           C == With("timed_out")
           D == With("dropped_by_cap")
           E == With("dropped_by_backpressure")
           O == OrphanedEvents(journal, Kind)
           all == IssueEvents(journal, Kind)
<1>1. all \subseteq Events /\ O = With("none") /\ IsFiniteSet(all)
  BY EntriesAre, FoldAssumption, FS_Subset DEF OrphanedEvents, With
<1>2. \A e \in all : LastTerminal(journal[e]) \in TerminalStatuses \cup {"none"}
  BY <1>1, LastIsTerminal
<1>3. all = ((((A \cup B) \cup C) \cup D) \cup E) \cup O
  BY <1>1, <1>2 DEF With, TerminalStatuses
<1>4. /\ A \cap B = {} /\ (A \cup B) \cap C = {} /\ ((A \cup B) \cup C) \cap D = {}
      /\ (((A \cup B) \cup C) \cup D) \cap E = {}
      /\ ((((A \cup B) \cup C) \cup D) \cup E) \cap O = {}
  BY <1>1 DEF With
<1>5. /\ IsFiniteSet(A) /\ IsFiniteSet(B) /\ IsFiniteSet(C) /\ IsFiniteSet(D) /\ IsFiniteSet(E)
      /\ IsFiniteSet(O)
  <2>1. /\ A \subseteq all /\ B \subseteq all /\ C \subseteq all /\ D \subseteq all
        /\ E \subseteq all /\ O \subseteq all
    BY <1>1 DEF With
  <2> QED
    BY <2>1, <1>1, FS_Subset
<1>6. /\ TheReport.pipeline.detected = Cardinality(all)
      /\ TerminalSum = Cardinality(A) + Cardinality(B) + Cardinality(C)
                          + Cardinality(D) + Cardinality(E)
  <2>1. TheReport.pipeline.detected = Cardinality(all)
        /\ \A status \in TerminalStatuses :
              TheReport.pipeline.terminal[status] = Cardinality(With(status))
    BY EntriesAre DEF JournalCounts, StatusCount, With
  <2> QED
    BY <2>1, Zenon DEF TerminalSum, TerminalStatuses
<1>7. O = {} <=> Cardinality(O) = 0
  BY <1>5, FS_EmptySet
<1> HIDE DEF A, B, C, D, E, O, all
<1>8. IsFiniteSet(A \cup B) /\ Cardinality(A \cup B) = Cardinality(A) + Cardinality(B)
      /\ Cardinality(A) \in Nat /\ Cardinality(B) \in Nat
  BY <1>4, <1>5, AddUp
<1>9. LET S == A \cup B IN
      IsFiniteSet(S \cup C) /\ Cardinality(S \cup C) = Cardinality(S) + Cardinality(C)
      /\ Cardinality(C) \in Nat
  BY <1>4, <1>5, <1>8, AddUp
<1>10. LET S == (A \cup B) \cup C IN
      IsFiniteSet(S \cup D) /\ Cardinality(S \cup D) = Cardinality(S) + Cardinality(D)
      /\ Cardinality(D) \in Nat
  BY <1>4, <1>5, <1>9, AddUp
<1>11. LET S == ((A \cup B) \cup C) \cup D IN
      IsFiniteSet(S \cup E) /\ Cardinality(S \cup E) = Cardinality(S) + Cardinality(E)
      /\ Cardinality(E) \in Nat
  BY <1>4, <1>5, <1>10, AddUp
<1>12. LET S == (((A \cup B) \cup C) \cup D) \cup E IN
      Cardinality(S \cup O) = Cardinality(S) + Cardinality(O) /\ Cardinality(O) \in Nat
  BY <1>4, <1>5, <1>11, AddUp
<1>13. Cardinality(all) = TerminalSum + Cardinality(O) /\ TerminalSum \in Nat
  BY <1>3, <1>6, <1>8, <1>9, <1>10, <1>11, <1>12
<1>14. /\ TerminalSum <= TheReport.pipeline.detected
       /\ TerminalSum = TheReport.pipeline.detected <=> O = {}
  BY <1>6, <1>7, <1>12, <1>13
<1> QED
  BY <1>14 DEF CountsBalance, O

\* Whatever records were written in whatever order, and whatever files were left: the
\* counts of the report balance, an event that ended is one incident with the status
\* of its last record, no issue is missing but to the cap, and "stable" is only said
\* of a directory without an issue (reporter/result.py, _build_incidents and build).
THEOREM ReportIsFaithful == Spec => []ReportFaithful
<1>1. Init => FoldInv
  BY DEF Init, FoldInv, HasLast, Terminal, Records
<1>2. FoldInv => ReportFaithful
  BY SettledIsOne, FactsAreEntries, StableIsEmpty, CountsAddUp DEF ReportFaithful
<1> QED
  BY <1>1, <1>2, FoldStep, PTL DEF Spec
-----------------------------------------------------------------------------
(* The groups of a report, and what is made of several reports *)

\* Multiplication does not turn an order round.
LEMMA TimesMono ==
  ASSUME NEW a \in Nat, NEW b \in Nat, NEW k \in Nat \ {0}
  PROVE  /\ a >= b <=> a * k >= b * k
         /\ a = b <=> a * k = b * k
  OBVIOUS

\* The average a / k is not below, or equal to, the average b / l.
AsGood(a, k, b, l) == a * l >= b * k
Even(a, k, b, l) == a * l = b * k

\* Comparing averages without dividing is transitive.
LEMMA RatioTrans ==
  ASSUME NEW a \in Nat, NEW b \in Nat, NEW c \in Nat,
         NEW k \in Nat \ {0}, NEW l \in Nat \ {0}, NEW m \in Nat \ {0},
         AsGood(a, k, b, l), AsGood(b, l, c, m)
  PROVE  AsGood(a, k, c, m) /\ (Even(a, k, c, m) => Even(a, k, b, l) /\ Even(b, l, c, m))
<1>1. a * l * m >= b * k * m  BY TimesMono, SMT DEF AsGood
<1>2. b * m * k >= c * l * k  BY TimesMono, SMT DEF AsGood
<1>3. (a * m) * l >= (c * k) * l  BY <1>1, <1>2, SMT
<1>4. a * m >= c * k  BY <1>3, TimesMono, SMT
<1> QED BY <1>1, <1>2, <1>3, <1>4, SMT DEF AsGood, Even

\* A percentage of a weight is a number.
LEMMA DividedNat == \A w \in Nat : w \div 100 \in Nat
  OBVIOUS

\* The score of a pair is a number, and does not depend on who is compared with whom.
LEMMA PairsAlike ==
  ASSUME NEW i \in Occurrences, NEW j \in Occurrences
  PROVE  /\ HardGate(i, j) <=> HardGate(j, i)
         /\ PairScore(i, j) = PairScore(j, i)
         /\ PairScore(i, j) \in Nat
<1>1. HardGate(i, j) <=> HardGate(j, i)
  BY DEF HardGate, Compatible
<1>2. StackSimilarity(i.stack, j.stack) = StackSimilarity(j.stack, i.stack)
  <2>1. {i.stack.name, j.stack.name} = {j.stack.name, i.stack.name}  OBVIOUS
  <2> QED BY <2>1 DEF StackSimilarity
<1>3. \A x, y : Same(x, y) = Same(y, x) /\ Same(x, y) \in Nat
  BY DEF Same
<1>4. StackSimilarity(i.stack, j.stack) \in Nat
  BY CompareAssumption DEF StackSimilarity
<1>5. Weighted(i, j) \in Nat
  <2> DEFINE stack == StackSimilarity(i.stack, j.stack)
             cause == Same(i.cause, j.cause)
             part == Same(i.part, j.part)
             note == Same(i.note, j.note)
             thread == Same(i.thread, j.thread)
             top == Same(i.stack.top, j.stack.top)
  <2>1. stack \in Nat /\ cause \in Nat /\ part \in Nat /\ note \in Nat /\ thread \in Nat
        /\ top \in Nat
    BY <1>3, <1>4
  <2>2. Weighted(i, j) \in
           {70 * stack + 10 * cause + 5 * part + 10 * note + 5 * thread,
            75 * stack + 15 * top + 10 * cause,
            55 * stack + 20 * cause + 15 * part + 10 * note,
            65 * stack + 25 * note + 10 * cause}
    BY Zenon DEF Weighted
  <2> HIDE DEF stack, cause, part, note, thread, top
  <2> QED BY <2>1, <2>2
<1>6. i.type = j.type => Weighted(i, j) = Weighted(j, i)
  BY <1>2, <1>3 DEF Weighted
<1>7. Weighted(i, j) \div 100 \in Nat
  BY <1>5, DividedNat
<1>8. HardGate(i, j) => i.type = j.type  BY DEF HardGate
<1>9. Similarity(i, j) = Similarity(j, i) /\ Similarity(i, j) \in Nat
  BY <1>1, <1>6, <1>7, <1>8 DEF Similarity
<1> QED BY <1>1, <1>9 DEF PairScore

\* What is clustered.
IsIssue(i) == i.type \in IssueTypes

\* Who has the same canonical parts passes the gate and has as much evidence.
LEMMA SameParts ==
  ASSUME NEW i \in Occurrences, NEW j \in Occurrences, IsIssue(i), IsIssue(j),
         CanonicalParts(i) = CanonicalParts(j)
  PROVE  HardGate(i, j) /\ PairScore(i, j) = 100 /\ EvidenceQuality(i) = EvidenceQuality(j)
<1>1. i.type = j.type /\ i.cause = j.cause /\ i.stack.name = j.stack.name
  BY DEF CanonicalParts, IssueTypes, IsIssue
<1>2. /\ i.type \in {"java_crash", "anr"} => i.part = j.part
      /\ i.type \in {"anr", "other"} => i.note = j.note
  BY DEF CanonicalParts, IssueTypes, IsIssue
<1>3. i.stack = j.stack  BY <1>1, CompareAssumption
<1>4. HardGate(i, j)  BY <1>1, <1>2 DEF HardGate, Compatible, IssueTypes, IsIssue
<1>5. EvidenceQuality(i) = EvidenceQuality(j)
  BY <1>1, <1>2, <1>3 DEF EvidenceQuality, IssueTypes, IsIssue
<1> QED BY <1>4, <1>5 DEF PairScore

\* Who has the same canonical parts is alike enough.
LEMMA AlikeFits ==
  ASSUME NEW i \in Occurrences, NEW j \in Occurrences, IsIssue(i), IsIssue(j),
         PairScore(i, j) >= Threshold
  PROVE  HardGate(i, j)
<1>1. CASE CanonicalParts(i) = CanonicalParts(j)  BY <1>1, SameParts
<1>2. CASE CanonicalParts(i) # CanonicalParts(j)
  <2>1. Similarity(i, j) >= 90  BY <1>2 DEF PairScore, Threshold
  <2> QED BY <2>1 DEF Similarity
<1> QED BY <1>1, <1>2

\* The evidence of an incident is a number.
LEMMA QualityType ==
  ASSUME NEW i \in Occurrences
  PROVE  EvidenceQuality(i) \in Int
<1>1. i.stack.depth \in Nat  BY CompareAssumption
<1>2. Min({i.stack.depth, 4}) \in Int
  <2>1. \E x \in {i.stack.depth, 4} : \A y \in {i.stack.depth, 4} : x =< y  BY <1>1
  <2>2. Min({i.stack.depth, 4}) \in {i.stack.depth, 4}  BY <2>1 DEF Min
  <2> QED BY <1>1, <2>2
<1> DEFINE m == Min({i.stack.depth, 4})
           a == Known(i.cause # "")
           b == Known(i.part # "")
           c == Known(i.stack.depth > 0)
           d == Known(i.part # "" \/ i.note # "")
           e == Known(i.note # "")
<1>3. m \in Int /\ a \in Int /\ b \in Int /\ c \in Int /\ d \in Int /\ e \in Int
  BY <1>2 DEF Known
<1>4. EvidenceQuality(i) \in {m + (a + b), m + (a + c), m + (a + d), m + (a + e)}
  BY DEF EvidenceQuality
<1> HIDE DEF m, a, b, c, d, e
<1> QED BY <1>3, <1>4

\* The range of a sequence is finite.
LEMMA RangeFinite ==
  ASSUME NEW s, NEW n \in Nat, DOMAIN s = 1 .. n
  PROVE  IsFiniteSet(ToSet(s))
<1> DEFINE f == [k \in 1 .. n |-> s[k]]
<1>1. f \in Surjection(1 .. n, ToSet(s))  BY DEF Surjection, ToSet
<1>2. IsFiniteSet(1 .. n)  BY IntervalSize
<1> HIDE DEF f
<1> QED BY <1>1, <1>2, FS_Surjection

Cluster == {c \in Seq(Occurrences) : Len(c) > 0}

\* What an incident scores with a cluster: the lowest and the total.
LEMMA ScoresOf ==
  ASSUME NEW cluster \in Cluster, NEW i \in Occurrences
  PROVE  /\ Scores(cluster, i) \in Seq(Nat) /\ DOMAIN Scores(cluster, i) = DOMAIN cluster
         /\ Lowest(cluster, i) \in ToSet(Scores(cluster, i)) /\ Lowest(cluster, i) \in Nat
         /\ \A m \in DOMAIN cluster : Lowest(cluster, i) <= PairScore(i, cluster[m])
         /\ Total(cluster, i) \in Nat
<1>1. \A m \in DOMAIN cluster : cluster[m] \in Occurrences /\ PairScore(i, cluster[m]) \in Nat
  <2> SUFFICES ASSUME NEW m \in DOMAIN cluster
               PROVE  cluster[m] \in Occurrences /\ PairScore(i, cluster[m]) \in Nat
    OBVIOUS
  <2>1. cluster[m] \in Occurrences  BY DEF Cluster
  <2> QED BY <2>1, PairsAlike
<1>2. DOMAIN cluster = 1 .. Len(cluster) /\ Len(cluster) \in Nat \ {0}  BY DEF Cluster
<1>3. Scores(cluster, i) \in Seq(Nat) /\ DOMAIN Scores(cluster, i) = 1 .. Len(cluster)
  BY <1>1, <1>2 DEF Scores
<1> DEFINE S == ToSet(Scores(cluster, i))
<1>4. IsFiniteSet(S)  BY <1>2, <1>3, RangeFinite
<1>5. S # {} /\ S \subseteq Int /\ S \subseteq Nat
  <2>1. 1 \in DOMAIN Scores(cluster, i)  BY <1>2, <1>3
  <2>2. S \subseteq Nat  BY <1>3 DEF ToSet
  <2> QED BY <2>1, <2>2 DEF ToSet
<1>6. Min(S) \in S /\ \A y \in S : Min(S) <= y  BY <1>4, <1>5, MinIsThere
<1>7. \A m \in DOMAIN cluster : PairScore(i, cluster[m]) \in S  BY DEF Scores, ToSet
<1>8. Total(cluster, i) \in Nat
  BY <1>3, FoldLeftSumsNat, FS_CardinalityType DEF Total
<1> QED BY <1>2, <1>3, <1>5, <1>6, <1>7, <1>8 DEF Lowest

\* Among the clusters that admit an incident there is a best one: Better is total and
\* transitive.
LEMMA BestCluster ==
  ASSUME NEW clusters \in Seq(Cluster), NEW i \in Occurrences,
         NEW K \in SUBSET DOMAIN clusters, K # {}
  PROVE  \E c \in K : \A d \in K : Better(clusters, c, d, i)
<1> DEFINE low == [c \in K |-> Lowest(clusters[c], i)]
           sum == [c \in K |-> Total(clusters[c], i)]
           len == [c \in K |-> Len(clusters[c])]
           Pref(c, d) == \/ low[c] > low[d]
                         \/ low[c] = low[d] /\ sum[c] * len[d] > sum[d] * len[c]
                         \/ low[c] = low[d] /\ sum[c] * len[d] = sum[d] * len[c] /\ c >= d
           R == {z \in K \X K : Pref(z[1], z[2])}
<1>1. /\ low \in [K -> Nat] /\ sum \in [K -> Nat] /\ len \in [K -> Nat \ {0}]
      /\ K \subseteq Nat
  <2>1. \A c \in K : clusters[c] \in Cluster  OBVIOUS
  <2>2. \A c \in K : Lowest(clusters[c], i) \in Nat /\ Total(clusters[c], i) \in Nat
    BY <2>1, ScoresOf
  <2>3. \A c \in K : Len(clusters[c]) \in Nat \ {0}  BY <2>1 DEF Cluster
  <2> QED BY <2>2, <2>3
<1>2. \A c, d \in K : <<c, d>> \in R <=> Pref(c, d)  OBVIOUS
<1>3. \A c, d \in K : Pref(c, d) <=> Better(clusters, c, d, i)  BY DEF Better
<1> HIDE DEF low, sum, len
<1>4. \A c, d \in K : sum[c] * len[d] \in Nat
  <2>1. \A m, n \in Nat : m * n \in Nat  OBVIOUS
  <2>2. \A c \in K : sum[c] \in Nat /\ len[c] \in Nat  BY <1>1
  <2> QED BY <2>1, <2>2
<1>5. ASSUME NEW c \in K, NEW d \in K PROVE Pref(c, d) \/ Pref(d, c)
  <2>1. c \in Nat /\ d \in Nat /\ low[c] \in Nat /\ low[d] \in Nat  BY <1>1
  <2>2. sum[c] * len[d] \in Nat /\ sum[d] * len[c] \in Nat  BY <1>4
  <2> QED BY <2>1, <2>2
<1>6. ASSUME NEW c \in K, NEW d \in K, NEW e \in K, Pref(c, d), Pref(d, e) PROVE Pref(c, e)
  <2>1. c \in Nat /\ d \in Nat /\ e \in Nat /\ low[c] \in Nat /\ low[d] \in Nat /\ low[e] \in Nat
    BY <1>1
  <2>2. CASE low[c] > low[d] \/ low[d] > low[e]
    <3>1. low[c] > low[e]  BY <1>6, <2>1, <2>2
    <3> QED BY <3>1
  <2>3. CASE ~(low[c] > low[d] \/ low[d] > low[e])
    <3>1. low[c] = low[d] /\ low[d] = low[e]  BY <1>6, <2>3
    <3>2. /\ sum[c] * len[d] \in Nat /\ sum[d] * len[c] \in Nat /\ sum[d] * len[e] \in Nat
          /\ sum[e] * len[d] \in Nat /\ sum[c] * len[e] \in Nat /\ sum[e] * len[c] \in Nat
      BY <1>4
    <3>3. sum[c] * len[d] >= sum[d] * len[c] /\ sum[d] * len[e] >= sum[e] * len[d]
      BY <1>6, <2>3, <3>2
    <3>4. /\ AsGood(sum[c], len[c], sum[e], len[e])
          /\ Even(sum[c], len[c], sum[e], len[e]) =>
               Even(sum[c], len[c], sum[d], len[d]) /\ Even(sum[d], len[d], sum[e], len[e])
      <4>1. /\ sum[c] \in Nat /\ sum[d] \in Nat /\ sum[e] \in Nat
            /\ len[c] \in Nat \ {0} /\ len[d] \in Nat \ {0} /\ len[e] \in Nat \ {0}
        BY <1>1
      <4>2. AsGood(sum[c], len[c], sum[d], len[d]) /\ AsGood(sum[d], len[d], sum[e], len[e])
        BY <3>3 DEF AsGood
      <4> HIDE DEF Pref, R
      <4> QED BY <4>1, <4>2, RatioTrans
    <3>5. CASE sum[c] * len[e] > sum[e] * len[c]  BY <3>1, <3>5
    <3>6. CASE sum[c] * len[e] = sum[e] * len[c]
      <4>1. sum[c] * len[d] = sum[d] * len[c] /\ sum[d] * len[e] = sum[e] * len[d]
        BY <3>4, <3>6 DEF Even
      <4>2. c >= d /\ d >= e  BY <1>6, <2>3, <3>2, <4>1
      <4>3. c >= e  BY <2>1, <4>2
      <4> QED BY <3>1, <3>6, <4>3
    <3> QED BY <3>2, <3>4, <3>5, <3>6 DEF AsGood
  <2> QED BY <2>2, <2>3
<1>7. \E c \in K : \A d \in K : <<c, d>> \in R
  <2>1. \A x, y \in K : <<x, y>> \in R \/ <<y, x>> \in R
    <3> HIDE DEF Pref, R
    <3> QED BY <1>2, <1>5
  <2>2. \A x, y, z \in K : <<x, y>> \in R /\ <<y, z>> \in R => <<x, z>> \in R
    <3> HIDE DEF Pref, R
    <3> QED BY <1>2, <1>6
  <2>3. IsFiniteSet(K)
    <3>1. DOMAIN clusters = 1 .. Len(clusters) /\ Len(clusters) \in Nat  OBVIOUS
    <3>2. IsFiniteSet(DOMAIN clusters)  BY <3>1, IntervalSize
    <3> QED BY <3>2, FS_Subset
  <2> HIDE DEF R
  <2> QED BY <2>1, <2>2, <2>3, BestIsThere
<1> HIDE DEF R, Pref
<1> QED BY <1>2, <1>3, <1>7

\* So an incident that no cluster admits opens one, and any other joins one that admits it.
LEMMA PlaceCases ==
  ASSUME NEW clusters \in Seq(Cluster), NEW i \in Occurrences
  PROVE  \/ /\ \A c \in DOMAIN clusters : ~Admits(clusters[c], i)
            /\ Place(clusters, i) = Append(clusters, <<i>>)
         \/ \E c \in DOMAIN clusters :
              /\ Admits(clusters[c], i)
              /\ Place(clusters, i) = [clusters EXCEPT ![c] = Append(@, i)]
<1> DEFINE K == {c \in DOMAIN clusters : Admits(clusters[c], i)}
           Best(c) == \A d \in K : Better(clusters, c, d, i)
           best == CHOOSE c \in K : Best(c)
<1>1. Place(clusters, i) = IF K = {} THEN Append(clusters, <<i>>)
                           ELSE [clusters EXCEPT ![best] = Append(@, i)]
  BY DEF Place
<1>2. CASE K = {}
  BY <1>1, <1>2
<1>3. CASE K # {}
  <2>1. K \in SUBSET DOMAIN clusters  OBVIOUS
  <2>2. \E c \in K : Best(c)
    <3> HIDE DEF K
    <3> QED BY <1>3, <2>1, BestCluster
  <2>3. best \in K
    <3> HIDE DEF K, Best
    <3> QED BY <2>2
  <2>4. best \in DOMAIN clusters /\ Admits(clusters[best], i)  BY <2>3
  <2> HIDE DEF best
  <2> QED BY <1>1, <1>3, <2>4
<1> QED BY <1>2, <1>3

\* Two incidents may be in one cluster.
Fits(i, j) ==
    /\ HardGate(i, j) /\ PairScore(i, j) >= Threshold
    /\ Weak(i) \/ Weak(j) => CanonicalParts(i) = CanonicalParts(j)

\* The invariant of the clustering: all pairs in a cluster fit; clusters begin with
\* different incidents, with different fingerprints if there is little evidence.
AllFit(cluster) ==
    /\ \A m \in DOMAIN cluster : IsIssue(cluster[m])
    /\ \A m, n \in DOMAIN cluster : Fits(cluster[m], cluster[n])
Apart(i, j) == i # j /\ (Weak(i) => CanonicalParts(i) # CanonicalParts(j))
WellMade(clusters) ==
    /\ clusters \in Seq(Cluster)
    /\ \A c \in DOMAIN clusters : AllFit(clusters[c])
    /\ \A c, d \in DOMAIN clusters : c # d => Apart(clusters[c][1], clusters[d][1])

\* Fitting is mutual.
LEMMA FitsBoth ==
  ASSUME NEW i \in Occurrences, NEW j \in Occurrences, Fits(i, j)
  PROVE  Fits(j, i)
  BY PairsAlike DEF Fits

\* An incident fits itself.
LEMMA FitsItself ==
  ASSUME NEW i \in Occurrences, NEW j \in Occurrences, IsIssue(i), IsIssue(j),
         CanonicalParts(i) = CanonicalParts(j)
  PROVE  Fits(i, j)
<1>1. HardGate(i, j) /\ PairScore(i, j) = 100  BY SameParts
<1> QED BY <1>1 DEF Fits, Threshold

\* Who is admitted fits every member.
LEMMA AdmittedFits ==
  ASSUME NEW cluster \in Cluster, NEW i \in Occurrences, IsIssue(i),
         AllFit(cluster), Admits(cluster, i), NEW m \in DOMAIN cluster
  PROVE  Fits(i, cluster[m])
<1>1. cluster[m] \in Occurrences /\ IsIssue(cluster[m]) /\ cluster[m] \in ToSet(cluster)
  BY DEF Cluster, AllFit, ToSet
<1>2. CASE \A j \in ToSet(cluster) : CanonicalParts(i) = CanonicalParts(j)
  BY <1>1, <1>2, FitsItself
<1>3. CASE /\ \A j \in ToSet(cluster) \cup {i} : EvidenceQuality(j) >= EnoughEvidence
           /\ Lowest(cluster, i) >= Threshold
  <2>1. PairScore(i, cluster[m]) >= Threshold
    <3>1. /\ Lowest(cluster, i) \in Nat /\ PairScore(i, cluster[m]) \in Nat
          /\ Lowest(cluster, i) <= PairScore(i, cluster[m])
      BY <1>1, ScoresOf, PairsAlike
    <3> QED BY <1>3, <3>1 DEF Threshold
  <2>2. HardGate(i, cluster[m])  BY <1>1, <2>1, AlikeFits
  <2>3. EvidenceQuality(i) >= EnoughEvidence /\ EvidenceQuality(cluster[m]) >= EnoughEvidence
    BY <1>1, <1>3
  <2>4. ~Weak(i) /\ ~Weak(cluster[m])
    <3>1. EvidenceQuality(i) \in Int /\ EvidenceQuality(cluster[m]) \in Int
      BY <1>1, QualityType
    <3> QED BY <2>3, <3>1 DEF Weak, EnoughEvidence
  <2> QED BY <2>1, <2>2, <2>4 DEF Fits
<1> QED BY <1>2, <1>3 DEF Admits

\* A cluster that begins with the incident admits it.
LEMMA FirstAdmits ==
  ASSUME NEW cluster \in Cluster, AllFit(cluster)
  PROVE  Admits(cluster, cluster[1])
<1> DEFINE i == cluster[1]
<1>1. 1 \in DOMAIN cluster /\ i \in Occurrences  BY DEF Cluster
<1>2. \A m \in DOMAIN cluster : cluster[m] \in Occurrences /\ IsIssue(cluster[m]) /\ Fits(i, cluster[m])
  BY <1>1 DEF AllFit, Cluster
<1>3. HardGate(i, i)  BY <1>1, <1>2 DEF Fits
<1>4. CASE \A m \in DOMAIN cluster : CanonicalParts(i) = CanonicalParts(cluster[m])
  BY <1>3, <1>4 DEF Admits, ToSet
<1>5. CASE ~\A m \in DOMAIN cluster : CanonicalParts(i) = CanonicalParts(cluster[m])
  <2>1. PICK n \in DOMAIN cluster : CanonicalParts(i) # CanonicalParts(cluster[n])  BY <1>5
  <2>2. ~Weak(i)  BY <1>2, <2>1 DEF Fits
  <2>3. ASSUME NEW m \in DOMAIN cluster PROVE ~Weak(cluster[m])
    <3>1. Fits(cluster[m], cluster[n]) /\ Fits(i, cluster[m])  BY <1>2 DEF AllFit
    <3> QED BY <2>1, <3>1 DEF Fits
  <2>4. \A j \in ToSet(cluster) \cup {i} : EvidenceQuality(j) >= EnoughEvidence
    <3>1. \A j \in ToSet(cluster) \cup {i} : j \in Occurrences /\ ~Weak(j)
      BY <1>1, <1>2, <2>2, <2>3 DEF ToSet
    <3> QED BY <3>1, QualityType DEF Weak, EnoughEvidence
  <2>5. Lowest(cluster, i) >= Threshold
    <3>1. Lowest(cluster, i) \in ToSet(Scores(cluster, i)) /\ DOMAIN Scores(cluster, i) = DOMAIN cluster
      BY <1>1, ScoresOf
    <3>2. PICK m \in DOMAIN cluster : Lowest(cluster, i) = PairScore(i, cluster[m])
      BY <3>1 DEF ToSet, Scores
    <3> QED BY <1>2, <3>2 DEF Fits
  <2> QED BY <1>3, <2>4, <2>5 DEF Admits
<1> QED BY <1>4, <1>5

\* A cluster that begins with little evidence admits what has the same fingerprint.
LEMMA WeakAdmits ==
  ASSUME NEW cluster \in Cluster, AllFit(cluster), NEW i \in Occurrences,
         IsIssue(i), CanonicalParts(i) = CanonicalParts(cluster[1]), Weak(cluster[1])
  PROVE  Admits(cluster, i)
<1>1. 1 \in DOMAIN cluster /\ cluster[1] \in Occurrences  BY DEF Cluster
<1>2. IsIssue(cluster[1]) /\ \A m \in DOMAIN cluster : Fits(cluster[1], cluster[m])
  BY <1>1 DEF AllFit
<1>3. HardGate(i, cluster[1])  BY <1>1, <1>2, FitsItself DEF Fits
<1>4. \A m \in ToSet(cluster) : CanonicalParts(i) = CanonicalParts(m)
  BY <1>2 DEF Fits, ToSet
<1> QED BY <1>3, <1>4 DEF Admits

\* Two incidents of one fingerprint have the same quality of evidence.
LEMMA SameWeak ==
  ASSUME NEW i \in Occurrences, NEW j \in Occurrences, IsIssue(i), IsIssue(j),
         CanonicalParts(i) = CanonicalParts(j)
  PROVE  Weak(i) <=> Weak(j)
<1>1. EvidenceQuality(i) = EvidenceQuality(j)  BY SameParts
<1> QED BY <1>1 DEF Weak

Has(clusters, m) == clusters[m[1]][m[2]]

\* One incident more: D is C with the incident i at a new place.
GrowsBy(C, D, i) ==
    \E new : /\ new \notin Members(C) /\ Members(D) = Members(C) \cup {new}
             /\ Has(D, new) = i
             /\ \A m \in Members(C) : Has(D, m) = Has(C, m)

\* The places of a cluster that are members.
LEMMA MembersAre ==
  ASSUME NEW clusters
  PROVE  \A c, k : <<c, k>> \in Members(clusters) <=> c \in DOMAIN clusters /\ k \in DOMAIN clusters[c]
  BY DEF Members

\* Placing an incident keeps the clusters well made, and adds that incident only.
LEMMA PlaceGrows ==
  ASSUME NEW C, WellMade(C), NEW i \in Occurrences, IsIssue(i)
  PROVE  WellMade(Place(C, i)) /\ GrowsBy(C, Place(C, i), i)
<1> DEFINE D == Place(C, i)
<1>1. C \in Seq(Cluster)  BY DEF WellMade
<1>2. DOMAIN C = 1 .. Len(C) /\ Len(C) \in Nat /\ \A c \in DOMAIN C : C[c] \in Cluster  BY <1>1
<1>3. CanonicalParts(i) = CanonicalParts(i) /\ Fits(i, i)  BY FitsItself
<1>4. CASE /\ \A c \in DOMAIN C : ~Admits(C[c], i)
           /\ D = Append(C, <<i>>)
  <2> DEFINE n == Len(C) + 1
  <2>1. <<i>> \in Cluster /\ DOMAIN <<i>> = {1} /\ <<i>>[1] = i  BY DEF Cluster
  <2>2. /\ D \in Seq(Cluster) /\ DOMAIN D = DOMAIN C \cup {n} /\ n \notin DOMAIN C
        /\ D[n] = <<i>> /\ \A c \in DOMAIN C : D[c] = C[c]
    BY <1>1, <1>2, <1>4, <2>1
  <2> HIDE DEF D, n
  <2>3. \A c \in DOMAIN D : AllFit(D[c])
    <3>1. AllFit(<<i>>)  BY <1>3, <2>1 DEF AllFit
    <3> QED BY <2>2, <3>1 DEF WellMade
  <2>4. \A c, d \in DOMAIN D : c # d => Apart(D[c][1], D[d][1])
    <3>1. ASSUME NEW c \in DOMAIN C PROVE Apart(C[c][1], i) /\ Apart(i, C[c][1])
      <4>1. C[c] \in Cluster /\ AllFit(C[c])  BY <1>2 DEF WellMade
      <4>2. C[c][1] \in Occurrences /\ IsIssue(C[c][1])  BY <4>1 DEF Cluster, AllFit
      <4>3. ~Admits(C[c], i)  BY <1>4
      <4>4. C[c][1] # i  BY <4>1, <4>3, FirstAdmits
      <4>5. ~(CanonicalParts(i) = CanonicalParts(C[c][1]) /\ Weak(C[c][1]))
        BY <4>1, <4>3, WeakAdmits
      <4>6. CanonicalParts(i) = CanonicalParts(C[c][1]) => (Weak(i) <=> Weak(C[c][1]))
        BY <4>2, SameWeak
      <4> QED BY <4>4, <4>5, <4>6 DEF Apart
    <3> QED BY <2>1, <2>2, <3>1 DEF WellMade
  <2>5. GrowsBy(C, D, i)
    <3>1. <<n, 1>> \notin Members(C)  BY <2>2, MembersAre
    <3>2. Members(D) = Members(C) \cup {<<n, 1>>}
      BY <2>1, <2>2 DEF Members
    <3>3. Has(D, <<n, 1>>) = i  BY <2>1, <2>2 DEF Has
    <3>4. \A m \in Members(C) : Has(D, m) = Has(C, m)  BY <2>2 DEF Has, Members
    <3> QED BY <3>1, <3>2, <3>3, <3>4 DEF GrowsBy
  <2> QED BY <2>2, <2>3, <2>4, <2>5 DEF WellMade, D
<1>5. ASSUME NEW b \in DOMAIN C, Admits(C[b], i), D = [C EXCEPT ![b] = Append(@, i)]
      PROVE  WellMade(D) /\ GrowsBy(C, D, i)
  <2> DEFINE n == Len(C[b]) + 1
  <2>1. C[b] \in Cluster /\ C[b] \in Seq(Occurrences) /\ Len(C[b]) \in Nat \ {0}
    BY <1>2 DEF Cluster
  <2>2. /\ Append(C[b], i) \in Cluster /\ DOMAIN Append(C[b], i) = DOMAIN C[b] \cup {n}
        /\ n \notin DOMAIN C[b] /\ Append(C[b], i)[n] = i /\ 1 \in DOMAIN C[b]
        /\ \A k \in DOMAIN C[b] : Append(C[b], i)[k] = C[b][k]
    BY <2>1 DEF Cluster
  <2>3. /\ D \in Seq(Cluster) /\ DOMAIN D = DOMAIN C
        /\ D[b] = Append(C[b], i) /\ \A c \in DOMAIN C : c # b => D[c] = C[c]
    BY <1>1, <1>2, <1>5, <2>2
  <2> HIDE DEF D, n
  <2>4. \A m \in DOMAIN C[b] : C[b][m] \in Occurrences /\ IsIssue(C[b][m])
    BY <2>1 DEF WellMade, AllFit
  <2>5. \A m \in DOMAIN C[b] : Fits(i, C[b][m]) /\ Fits(C[b][m], i)
    <3> SUFFICES ASSUME NEW m \in DOMAIN C[b] PROVE Fits(i, C[b][m]) /\ Fits(C[b][m], i)
      OBVIOUS
    <3>1. AllFit(C[b])  BY DEF WellMade
    <3>2. Fits(i, C[b][m])  BY <1>5, <2>1, <3>1, AdmittedFits
    <3> QED BY <2>4, <3>2, FitsBoth
  <2>6. AllFit(D[b])
    <3>1. \A m \in DOMAIN D[b] : D[b][m] = i \/ (m \in DOMAIN C[b] /\ D[b][m] = C[b][m])
      BY <2>2, <2>3
    <3>2. AllFit(C[b])  BY DEF WellMade
    <3> QED BY <1>3, <2>4, <2>5, <3>1, <3>2 DEF AllFit
  <2>7. \A c \in DOMAIN D : AllFit(D[c])
    BY <2>3, <2>6 DEF WellMade
  <2>8. \A c, d \in DOMAIN D : c # d => Apart(D[c][1], D[d][1])
    <3>1. \A c \in DOMAIN D : D[c][1] = C[c][1]  BY <2>2, <2>3
    <3> QED BY <2>3, <3>1 DEF WellMade
  <2>9. GrowsBy(C, D, i)
    <3>1. <<b, n>> \notin Members(C)  BY <2>2, MembersAre
    <3>2. Members(D) = Members(C) \cup {<<b, n>>}
      BY <2>2, <2>3 DEF Members
    <3>3. Has(D, <<b, n>>) = i  BY <2>2, <2>3 DEF Has
    <3>4. \A m \in Members(C) : Has(D, m) = Has(C, m)
      <4> SUFFICES ASSUME NEW m \in Members(C) PROVE Has(D, m) = Has(C, m)
        OBVIOUS
      <4>1. m[1] \in DOMAIN C /\ m[2] \in DOMAIN C[m[1]]  BY DEF Members
      <4>2. CASE m[1] = b  BY <2>2, <2>3, <4>1, <4>2 DEF Has
      <4>3. CASE m[1] # b  BY <2>3, <4>1, <4>3 DEF Has
      <4> QED BY <4>2, <4>3
    <3> QED BY <3>1, <3>2, <3>3, <3>4 DEF GrowsBy
  <2> QED BY <2>3, <2>7, <2>8, <2>9 DEF WellMade, D
<1> HIDE DEF D
<1>6. WellMade(D) /\ GrowsBy(C, D, i)
  BY <1>1, <1>4, <1>5, PlaceCases DEF D
<1> QED BY <1>6 DEF D

\* f[n] is the clustering of the first n incidents.
Unfolds(f, s) ==
    f[0] = <<>> /\ \A n \in 1 .. Len(s) : f[n] = Consider(f[n - 1], s[n])

\* The clusters of a sequence of incidents are made one incident after the other.
LEMMA ClustersUnfold ==
  ASSUME NEW s \in Seq(Occurrences)
  PROVE  \E f : Unfolds(f, s) /\ f[Len(s)] = Clusters(s)
<1> DEFINE D == 1 .. Len(s)
           V == Seq(Seq(Occurrences))
           c == LastOf(Len(s))
           g == [z \in D \X V |-> Consider(z[2], s[z[1]])]
           Is(h) == h = [t \in SUBSET D |-> IF t = {} THEN <<>>
                                            ELSE Consider(h[t \ {Max(t)}], s[Max(t)])]
<1>1. /\ Takes(c, D)
      /\ \A t \in SUBSET D : c[t] = Max(t) /\ (t # {} => Max(t) \in t)
  <2>1. Len(s) \in Nat  OBVIOUS
  <2> QED BY <2>1, LastFirst
<1> HIDE DEF c
<1>2. ASSUME NEW C \in V, NEW i \in Occurrences PROVE Consider(C, i) \in V
  <2>1. \A C1 \in V : Append(C1, <<i>>) \in V  OBVIOUS
  <2>2. \A b : [C EXCEPT ![b] = Append(@, i)] \in V
    <3> SUFFICES ASSUME NEW b PROVE [C EXCEPT ![b] = Append(@, i)] \in V
      OBVIOUS
    <3>1. CASE b \in DOMAIN C
      <4>1. Append(C[b], i) \in Seq(Occurrences)  BY <3>1
      <4> QED BY <3>1, <4>1
    <3>2. CASE b \notin DOMAIN C
      <4>1. [C EXCEPT ![b] = Append(@, i)] = C  BY <3>2
      <4> QED BY <4>1
    <3> QED BY <3>1, <3>2
  <2>3. Place(C, i) \in V  BY <2>1, <2>2 DEF Place
  <2> QED BY <2>3 DEF Consider
<1>3. PICK h \in [SUBSET D -> V] : IsFold(h, D, <<>>, c, g)
  <2>1. g \in [D \X V -> V]
    <3>1. \A z \in D \X V : Consider(z[2], s[z[1]]) \in V
      <4> SUFFICES ASSUME NEW z \in D \X V PROVE Consider(z[2], s[z[1]]) \in V
        OBVIOUS
      <4>1. z[2] \in V /\ s[z[1]] \in Occurrences  OBVIOUS
      <4> HIDE DEF V
      <4> QED BY <1>2, <4>1
    <3> QED BY <3>1
  <2>2. IsFiniteSet(D)  BY FS_Interval
  <2>3. <<>> \in V  OBVIOUS
  <2> HIDE DEF D, V, g
  <2> QED BY <1>1, <2>1, <2>2, <2>3, FoldExists
<1>4. \A t \in SUBSET D : t # {} => Max(t) \in D /\ h[t \ {Max(t)}] \in V
  BY <1>1
<1>5. \A t \in SUBSET D : t # {} =>
         g[<<c[t], h[t \ {c[t]}]>>] = Consider(h[t \ {Max(t)}], s[Max(t)])
  BY <1>1, <1>4
<1>6. Is(h)
  <2>1. \A t \in SUBSET D : h[t] = IF t = {} THEN <<>> ELSE Consider(h[t \ {Max(t)}], s[Max(t)])
    BY <1>3, <1>5 DEF IsFold
  <2> QED BY <2>1
<1>7. DOMAIN s = D  OBVIOUS
<1> DEFINE k == CHOOSE it : Is(it)
<1>8. Clusters(s) = k[D]
  BY <1>7 DEF Clusters, FoldLeft, MapThenFoldSet
<1>9. Is(k)
  <2> HIDE DEF Is
  <2> QED BY <1>6
<1> HIDE DEF k
<1> DEFINE f == [n \in 0 .. Len(s) |-> k[1 .. n]]
<1>10. f[0] = <<>>
  <2>1. 1 .. 0 = {} /\ {} \in SUBSET D  OBVIOUS
  <2>2. k[{}] = <<>>  BY <1>9, <2>1
  <2> QED BY <2>1, <2>2
<1>11. ASSUME NEW n \in D PROVE f[n] = Consider(f[n - 1], s[n])
  <2>1. 1 .. n \in SUBSET D /\ 1 .. n # {} /\ n - 1 \in 0 .. Len(s) /\ n \in 0 .. Len(s)
    OBVIOUS
  <2>2. Max(1 .. n) = n /\ (1 .. n) \ {n} = 1 .. n - 1
    <3>1. Len(s) \in Nat  OBVIOUS
    <3> QED BY <3>1, LastFirst
  <2>3. k[1 .. n] = Consider(k[(1 .. n) \ {Max(1 .. n)}], s[Max(1 .. n)])
    BY <1>9, <2>1
  <2> QED BY <2>1, <2>2, <2>3
<1>12. f[Len(s)] = Clusters(s)  BY <1>8
<1> HIDE DEF f
<1> QED BY <1>10, <1>11, <1>12 DEF Unfolds

\* The places of a clustering that hold an incident of Q, and the positions of the
\* first n incidents of s that do.
Held(clusters, Q) == {m \in Members(clusters) : Has(clusters, m) \in Q}
Listed(s, n, Q) == {k \in 1 .. n : IsIssue(s[k]) /\ s[k] \in Q}

\* The clustering holds of every kind Q as many as the first n incidents do.
HoldsAll(clusters, s, n) ==
    \A Q : /\ IsFiniteSet(Held(clusters, Q))
           /\ Cardinality(Held(clusters, Q)) = Cardinality(Listed(s, n, Q))

\* Positions of a report are finitely many.
LEMMA ListedFinite ==
  ASSUME NEW s, NEW n \in Nat, NEW Q
  PROVE  IsFiniteSet(Listed(s, n, Q)) /\ Cardinality(Listed(s, n, Q)) \in Nat
<1>1. IsFiniteSet(1 .. n)  BY IntervalSize
<1>2. Listed(s, n, Q) \in SUBSET (1 .. n)  BY DEF Listed
<1>3. IsFiniteSet(Listed(s, n, Q))  BY <1>1, <1>2, FS_Subset
<1> QED BY <1>3, FS_CardinalityType

\* An issue that is placed is held once more.
LEMMA OneMoreHeld ==
  ASSUME NEW C, NEW D, NEW s, NEW n \in Nat, HoldsAll(C, s, n), IsIssue(s[n + 1]),
         GrowsBy(C, D, s[n + 1])
  PROVE  HoldsAll(D, s, n + 1)
<1> SUFFICES ASSUME NEW Q
             PROVE  /\ IsFiniteSet(Held(D, Q))
                    /\ Cardinality(Held(D, Q)) = Cardinality(Listed(s, n + 1, Q))
  BY DEF HoldsAll
<1>1. IsFiniteSet(Held(C, Q)) /\ Cardinality(Held(C, Q)) = Cardinality(Listed(s, n, Q))
  BY DEF HoldsAll
<1>2. PICK new : /\ new \notin Members(C) /\ Members(D) = Members(C) \cup {new}
                 /\ Has(D, new) = s[n + 1]
                 /\ \A m \in Members(C) : Has(D, m) = Has(C, m)
  BY DEF GrowsBy
<1>3. IsFiniteSet(Listed(s, n, Q)) /\ n + 1 \notin Listed(s, n, Q)
  <2>1. Listed(s, n, Q) \subseteq 1 .. n  BY DEF Listed
  <2>2. n + 1 \notin 1 .. n  OBVIOUS
  <2> QED BY <2>1, <2>2, ListedFinite
<1>4. new \notin Held(C, Q)  BY <1>2 DEF Held
<1>5. CASE s[n + 1] \in Q
  <2>1. Held(D, Q) = Held(C, Q) \cup {new}  BY <1>2, <1>5 DEF Held
  <2>2. Listed(s, n + 1, Q) = Listed(s, n, Q) \cup {n + 1}
    <3>1. 1 .. n + 1 = (1 .. n) \cup {n + 1}  OBVIOUS
    <3> QED BY <1>5, <3>1 DEF Listed
  <2>3. /\ IsFiniteSet(Held(C, Q) \cup {new})
        /\ Cardinality(Held(C, Q) \cup {new}) = Cardinality(Held(C, Q)) + 1
    BY <1>1, <1>4, FS_AddElement
  <2>4. Cardinality(Listed(s, n, Q) \cup {n + 1}) = Cardinality(Listed(s, n, Q)) + 1
    BY <1>3, FS_AddElement
  <2> QED BY <1>1, <2>1, <2>2, <2>3, <2>4
<1>6. CASE s[n + 1] \notin Q
  <2>1. Held(D, Q) = Held(C, Q)  BY <1>2, <1>6 DEF Held
  <2>2. Listed(s, n + 1, Q) = Listed(s, n, Q)
    <3>1. 1 .. n + 1 = (1 .. n) \cup {n + 1}  OBVIOUS
    <3> QED BY <1>6, <3>1 DEF Listed
  <2> QED BY <1>1, <2>1, <2>2
<1> QED BY <1>5, <1>6

\* What is no issue is not counted.
LEMMA NoneMoreHeld ==
  ASSUME NEW C, NEW s, NEW n \in Nat, HoldsAll(C, s, n), ~IsIssue(s[n + 1])
  PROVE  HoldsAll(C, s, n + 1)
<1> SUFFICES ASSUME NEW Q PROVE Listed(s, n + 1, Q) = Listed(s, n, Q)
  BY DEF HoldsAll
<1>1. 1 .. n + 1 = (1 .. n) \cup {n + 1}  OBVIOUS
<1> QED BY <1>1 DEF Listed

\* What the clustering of a report is, whatever the incidents.
LEMMA ClustersWellMade ==
  ASSUME NEW s \in Seq(Occurrences)
  PROVE  WellMade(Clusters(s)) /\ HoldsAll(Clusters(s), s, Len(s))
<1>1. PICK f : Unfolds(f, s) /\ f[Len(s)] = Clusters(s)
  BY ClustersUnfold
<1> DEFINE T == {n \in Nat : n <= Len(s) => WellMade(f[n]) /\ HoldsAll(f[n], s, n)}
<1>2. 0 \in T
  <2>1. WellMade(<<>>)  BY DEF WellMade
  <2>2. Members(<<>>) = {}  BY DEF Members
  <2>3. \A Q : Held(<<>>, Q) = {} /\ Listed(s, 0, Q) = {}  BY <2>2 DEF Held, Listed
  <2>4. HoldsAll(<<>>, s, 0)  BY <2>3, FS_EmptySet DEF HoldsAll
  <2> QED BY <1>1, <2>1, <2>4 DEF Unfolds
<1>3. ASSUME NEW n \in Nat, n \in T PROVE n + 1 \in T
  <2> SUFFICES ASSUME n + 1 <= Len(s) PROVE WellMade(f[n + 1]) /\ HoldsAll(f[n + 1], s, n + 1)
    OBVIOUS
  <2>1. n + 1 \in 1 .. Len(s) /\ n <= Len(s) /\ (n + 1) - 1 = n  OBVIOUS
  <2>2. s[n + 1] \in Occurrences  BY <2>1
  <2>3. WellMade(f[n]) /\ HoldsAll(f[n], s, n)  BY <1>3, <2>1
  <2>4. f[n + 1] = Consider(f[n], s[n + 1])
    <3>1. f[n + 1] = Consider(f[(n + 1) - 1], s[n + 1])  BY <1>1, <2>1 DEF Unfolds
    <3> QED BY <2>1, <3>1
  <2>5. CASE IsIssue(s[n + 1])
    <3>1. f[n + 1] = Place(f[n], s[n + 1])  BY <2>4, <2>5 DEF Consider, IsIssue
    <3>2. WellMade(f[n + 1]) /\ GrowsBy(f[n], f[n + 1], s[n + 1])
      <4> DEFINE C == f[n]
                 i == s[n + 1]
      <4>1. WellMade(C) /\ i \in Occurrences /\ IsIssue(i)  BY <2>2, <2>3, <2>5
      <4> HIDE DEF C, i
      <4>2. WellMade(Place(C, i)) /\ GrowsBy(C, Place(C, i), i)  BY <4>1, PlaceGrows
      <4> QED BY <3>1, <4>2 DEF C, i
    <3> QED BY <2>3, <2>5, <3>2, OneMoreHeld
  <2>6. CASE ~IsIssue(s[n + 1])
    <3>1. f[n + 1] = f[n]  BY <2>4, <2>6 DEF Consider, IsIssue
    <3> QED BY <2>3, <2>6, <3>1, NoneMoreHeld
  <2> QED BY <2>5, <2>6
<1>4. \A n \in Nat : n \in T
  <2> HIDE DEF T
  <2> QED BY <1>2, <1>3, ByInduction
<1>5. Len(s) \in Nat /\ Len(s) <= Len(s)  OBVIOUS
<1>6. WellMade(f[Len(s)]) /\ HoldsAll(f[Len(s)], s, Len(s))  BY <1>4, <1>5
<1> QED BY <1>1, <1>6

CompareTypes ==
    /\ reports \in [Reports -> Seq(Occurrences)]
    /\ written \in [Reports -> BOOLEAN]
    /\ index \subseteq Reports

\* Reports are sequences of incidents, whatever happens.
LEMMA CompareStep == CompareTypes /\ [CompareNext]_compareVars => CompareTypes'
<1> SUFFICES ASSUME CompareTypes, [CompareNext]_compareVars PROVE CompareTypes'
  OBVIOUS
<1>1. CASE UNCHANGED compareVars  BY <1>1 DEF CompareTypes, compareVars
<1>2. ASSUME NEW r \in Reports, WriteReport(r) PROVE CompareTypes'
  BY <1>2 DEF WriteReport, CompareTypes
<1>3. ASSUME NEW r \in Reports, NEW i \in Occurrences, Detect(r, i) PROVE CompareTypes'
  <2>1. Append(reports[r], i) \in Seq(Occurrences)  BY DEF CompareTypes
  <2> QED BY <1>3, <2>1 DEF Detect, CompareTypes
<1>4. CASE Index  BY <1>4 DEF Index, CompareTypes
<1>5. CASE Trend  BY <1>5 DEF Trend, Index, CompareTypes
<1> QED BY <1>1, <1>2, <1>3, <1>4, <1>5 DEF CompareNext

\* So the groups of such reports are a partition into clusters whose members fit.
LEMMA GroupsAreSound == ASSUME CompareTypes PROVE GroupsSound
<1> SUFFICES ASSUME NEW r \in Reports
             PROVE  LET C == Clusters(reports[r]) IN
                    /\ Cardinality(Members(C)) = Cardinality(Issues(r))
                    /\ \A i \in Occurrences :
                         Cardinality({m \in Members(C) : C[m[1]][m[2]] = i})
                           = Times(r, LAMBDA j : j = i)
                    /\ \A c \in ToSet(C) : \A i, j \in ToSet(c) :
                         /\ HardGate(i, j) /\ PairScore(i, j) >= Threshold
                         /\ Weak(i) => CanonicalParts(i) = CanonicalParts(j)
                    /\ \A c, d \in DOMAIN C : c # d => C[c][1] # C[d][1]
  BY DEF GroupsSound, GroupsPartition, CompleteLink, WeakStayApart, RepeatsAreGrouped
<1> DEFINE s == reports[r]
           C == Clusters(s)
<1>1. s \in Seq(Occurrences)  BY DEF CompareTypes
<1>2. WellMade(C) /\ HoldsAll(C, s, Len(s))  BY <1>1, ClustersWellMade
<1>3. DOMAIN s = 1 .. Len(s) /\ \A k \in DOMAIN s : s[k] \in Occurrences  BY <1>1
<1> HIDE DEF C
<1>4. C \in Seq(Cluster)  BY <1>2 DEF WellMade
<1>5. \A c \in DOMAIN C : \A k \in DOMAIN C[c] : C[c][k] \in Occurrences
  BY <1>4 DEF Cluster
<1>6. Cardinality(Members(C)) = Cardinality(Issues(r))
  <2>1. Held(C, Occurrences) = Members(C)
    BY <1>5 DEF Held, Has, Members
  <2>2. Listed(s, Len(s), Occurrences) = Issues(r)
    BY <1>3 DEF Listed, Issues, IsIssue
  <2> QED BY <1>2, <2>1, <2>2 DEF HoldsAll
<1>7. ASSUME NEW i \in Occurrences
      PROVE  Cardinality({m \in Members(C) : C[m[1]][m[2]] = i}) = Times(r, LAMBDA j : j = i)
  <2>1. Held(C, {i}) = {m \in Members(C) : C[m[1]][m[2]] = i}
    BY DEF Held, Has
  <2>2. Listed(s, Len(s), {i}) = {k \in Issues(r) : reports[r][k] = i}
    BY <1>3 DEF Listed, Issues, IsIssue
  <2>3. Times(r, LAMBDA j : j = i) = Cardinality({k \in Issues(r) : reports[r][k] = i})
    BY DEF Times
  <2> QED BY <1>2, <2>1, <2>2, <2>3 DEF HoldsAll
<1>8. ASSUME NEW c \in ToSet(C), NEW i \in ToSet(c), NEW j \in ToSet(c)
      PROVE  /\ HardGate(i, j) /\ PairScore(i, j) >= Threshold
             /\ Weak(i) => CanonicalParts(i) = CanonicalParts(j)
  <2>1. PICK k \in DOMAIN C : c = C[k]  BY DEF ToSet
  <2>2. PICK m \in DOMAIN c : i = c[m]  BY DEF ToSet
  <2>3. PICK n \in DOMAIN c : j = c[n]  BY DEF ToSet
  <2>4. Fits(i, j)  BY <1>2, <2>1, <2>2, <2>3 DEF WellMade, AllFit
  <2> QED BY <2>4 DEF Fits
<1>9. \A c, d \in DOMAIN C : c # d => C[c][1] # C[d][1]  BY <1>2 DEF WellMade, Apart
<1> QED BY <1>6, <1>7, <1>8, <1>9 DEF C

\* Whatever incidents are compared, however many and in whatever order they come, the
\* groups of a report are a partition, complete-link, with little evidence apart and
\* repeats together (group_incidents).
THEOREM GroupsHold == CompareSpec => []GroupsSound
<1>1. CompareInit => CompareTypes  BY DEF CompareInit, CompareTypes, NoIndex
<1>2. CompareTypes => GroupsSound  BY GroupsAreSound
<1> QED BY <1>1, <1>2, CompareStep, PTL DEF CompareSpec

\* The representative of a cluster is one of its members.
LEMMA RepresentativeIsMember ==
  ASSUME NEW cluster \in Cluster
  PROVE  \E m \in DOMAIN cluster : Representative(cluster) = cluster[m]
<1> DEFINE D == DOMAIN cluster
           qualities == {EvidenceQuality(m) : m \in ToSet(cluster)}
           quality == Max(qualities)
           best == {m \in D : EvidenceQuality(cluster[m]) = quality}
           row(m) == [o \in D |-> IF o = m THEN 0 ELSE PairScore(cluster[m], cluster[o])]
           central(m) == FoldLeft(+, 0, row(m))
           tops == {central(m) : m \in best}
           top == Max(tops)
           last == {m \in best : central(m) = top}
<1>1. D = 1 .. Len(cluster) /\ Len(cluster) \in Nat \ {0} /\ \A m \in D : cluster[m] \in Occurrences
  BY DEF Cluster
<1>2. IsFiniteSet(D) /\ D \subseteq Int  BY <1>1, IntervalSize
<1>3. IsFiniteSet(qualities)
  <2> DEFINE f == [m \in D |-> EvidenceQuality(cluster[m])]
  <2>1. ToSet(f) = qualities  BY DEF ToSet
  <2>2. DOMAIN f = 1 .. Len(cluster)  BY <1>1
  <2> HIDE DEF f
  <2>3. IsFiniteSet(ToSet(f))  BY <1>1, <2>2, RangeFinite
  <2> QED BY <2>1, <2>3
<1>4. quality \in qualities
  <2>1. \A m \in D : EvidenceQuality(cluster[m]) \in Int  BY <1>1, QualityType
  <2>2. qualities \subseteq Int  BY <2>1 DEF ToSet
  <2>3. EvidenceQuality(cluster[1]) \in qualities  BY <1>1 DEF ToSet
  <2> HIDE DEF qualities
  <2> QED BY <1>3, <2>2, <2>3, MaxIsThere
<1>5. best # {} /\ best \subseteq D
  BY <1>4 DEF ToSet
<1>6. \A m \in D : central(m) \in Nat
  <2> SUFFICES ASSUME NEW m \in D PROVE central(m) \in Nat
    OBVIOUS
  <2>1. \A o \in D : PairScore(cluster[m], cluster[o]) \in Nat  BY <1>1, PairsAlike
  <2>2. row(m) \in Seq(Nat)
    <3>1. row(m) \in [1 .. Len(cluster) -> Nat]  BY <1>1, <2>1
    <3> HIDE DEF row
    <3> QED BY <1>1, <3>1
  <2> HIDE DEF row
  <2> QED BY <2>2, FoldLeftSumsNat, FS_CardinalityType
<1>7. IsFiniteSet(tops)
  <2> DEFINE f == [m \in best |-> central(m)]
  <2>1. f \in Surjection(best, tops)  BY DEF Surjection
  <2>2. IsFiniteSet(best)  BY <1>2, <1>5, FS_Subset
  <2> HIDE DEF f, best, tops
  <2> QED BY <2>1, <2>2, FS_Surjection
<1>8. top \in tops
  <2>1. tops # {}
    <3> HIDE DEF best, central
    <3> QED BY <1>5
  <2>2. tops \subseteq Int
    <3> SUFFICES ASSUME NEW m \in best PROVE central(m) \in Int
      OBVIOUS
    <3>1. central(m) \in Nat  BY <1>5, <1>6
    <3> HIDE DEF central
    <3> QED BY <3>1
  <2> HIDE DEF tops
  <2> QED BY <1>7, <2>1, <2>2, MaxIsThere
<1>9. last # {} /\ last \subseteq D  BY <1>5, <1>8
<1>10. Min(last) \in last
  <2>1. IsFiniteSet(last) /\ last \subseteq Int  BY <1>2, <1>9, FS_Subset
  <2> HIDE DEF last
  <2> QED BY <1>9, <2>1, MinIsThere
<1>11. Representative(cluster) = cluster[Min(last)]  BY DEF Representative
<1> HIDE DEF last, top, tops, central, row, best, quality, qualities
<1> QED BY <1>9, <1>10, <1>11

\* The incidents of one fingerprint.
Alikes(i) == {j \in Occurrences : CanonicalParts(j) = CanonicalParts(i)}

\* What has little evidence is in the one cluster of its fingerprint.
LEMMA WeakClusters ==
  ASSUME NEW C, WellMade(C), NEW i \in Occurrences, IsIssue(i), Weak(i),
         NEW c \in DOMAIN C, NEW k \in DOMAIN C[c], CanonicalParts(C[c][k]) = CanonicalParts(i)
  PROVE  /\ CanonicalParts(Representative(C[c])) = CanonicalParts(i)
         /\ Held(C, Alikes(i)) = {c} \X DOMAIN C[c]
<1> DEFINE p == CanonicalParts(i)
<1>1. \A d \in DOMAIN C : C[d] \in Cluster /\ AllFit(C[d])  BY DEF WellMade
<1>2. \A d \in DOMAIN C : 1 \in DOMAIN C[d] /\ \A m \in DOMAIN C[d] : C[d][m] \in Occurrences
  BY <1>1 DEF Cluster
<1>3. ASSUME NEW d \in DOMAIN C, NEW m \in DOMAIN C[d], CanonicalParts(C[d][m]) = p
      PROVE  \A n \in DOMAIN C[d] : CanonicalParts(C[d][n]) = p
  <2>1. IsIssue(C[d][m]) /\ C[d][m] \in Occurrences  BY <1>1, <1>2 DEF AllFit
  <2>2. Weak(C[d][m])  BY <1>3, <2>1, SameWeak
  <2>3. \A n \in DOMAIN C[d] : Fits(C[d][m], C[d][n])  BY <1>1 DEF AllFit
  <2> QED BY <1>3, <2>2, <2>3 DEF Fits
<1>4. \A n \in DOMAIN C[c] : CanonicalParts(C[c][n]) = p  BY <1>3
<1>5. ASSUME NEW d \in DOMAIN C, NEW m \in DOMAIN C[d], CanonicalParts(C[d][m]) = p PROVE d = c
  <2>1. CanonicalParts(C[d][1]) = p /\ CanonicalParts(C[c][1]) = p  BY <1>2, <1>3, <1>4, <1>5
  <2>2. IsIssue(C[c][1]) /\ C[c][1] \in Occurrences  BY <1>1, <1>2 DEF AllFit
  <2>3. Weak(C[c][1])  BY <2>1, <2>2, SameWeak
  <2>4. d # c => Apart(C[c][1], C[d][1])  BY DEF WellMade
  <2> QED BY <2>1, <2>3, <2>4 DEF Apart
<1>6. Held(C, Alikes(i)) = {c} \X DOMAIN C[c]
  <2>1. ASSUME NEW m \in Held(C, Alikes(i)) PROVE m \in {c} \X DOMAIN C[c]
    <3>1. PICK d \in DOMAIN C : m \in {d} \X DOMAIN C[d]  BY DEF Held, Members
    <3>2. CanonicalParts(C[d][m[2]]) = p /\ m[2] \in DOMAIN C[d]  BY <3>1 DEF Held, Has, Alikes
    <3>3. d = c  BY <1>5, <3>2
    <3> QED BY <3>1, <3>3
  <2>2. ASSUME NEW m \in {c} \X DOMAIN C[c] PROVE m \in Held(C, Alikes(i))
    <3>1. m \in Members(C)  BY DEF Members
    <3>2. Has(C, m) \in Alikes(i)  BY <1>2, <1>4 DEF Has, Alikes
    <3> QED BY <3>1, <3>2 DEF Held
  <2> QED BY <2>1, <2>2
<1>7. \E m \in DOMAIN C[c] : Representative(C[c]) = C[c][m]
  BY <1>1, RepresentativeIsMember
<1> QED BY <1>4, <1>6, <1>7

\* How often a report has the fingerprint of i.
LEMMA TimesAlike ==
  ASSUME CompareTypes, NEW r \in Reports, NEW i
  PROVE  /\ Times(r, LAMBDA j : CanonicalParts(j) = CanonicalParts(i))
                = Cardinality(Listed(reports[r], Len(reports[r]), Alikes(i)))
         /\ Len(reports[r]) \in Nat
<1> DEFINE s == reports[r]
<1>1. s \in Seq(Occurrences)  BY DEF CompareTypes
<1>2. DOMAIN s = 1 .. Len(s) /\ Len(s) \in Nat /\ \A k \in DOMAIN s : s[k] \in Occurrences
  BY <1>1
<1>3. Listed(s, Len(s), Alikes(i)) =
        {k \in Issues(r) : CanonicalParts(reports[r][k]) = CanonicalParts(i)}
  BY <1>2 DEF Listed, Issues, IsIssue, Alikes
<1> QED BY <1>2, <1>3 DEF Times

\* The group of what has little evidence counts all that has its fingerprint; and it
\* is there if there is any.
LEMMA WeakGroups ==
  ASSUME CompareTypes, NEW r \in Reports, written[r],
         NEW i \in Occurrences, IsIssue(i), Weak(i)
  PROVE  LET times == Times(r, LAMBDA j : CanonicalParts(j) = CanonicalParts(i)) IN
         /\ times \in Nat
         /\ \A k \in DOMAIN GroupsOf(r) : GroupsOf(r)[k].fingerprint = CanonicalParts(i)
                => GroupsOf(r)[k].count = times
         /\ times > 0 =>
              \E k \in DOMAIN GroupsOf(r) : GroupsOf(r)[k].fingerprint = CanonicalParts(i)
<1> DEFINE s == reports[r]
           C == Clusters(s)
           times == Times(r, LAMBDA j : CanonicalParts(j) = CanonicalParts(i))
           p == CanonicalParts(i)
<1>1. s \in Seq(Occurrences)  BY DEF CompareTypes
<1>2. WellMade(C) /\ HoldsAll(C, s, Len(s))  BY <1>1, ClustersWellMade
<1>3. /\ times = Cardinality(Held(C, Alikes(i))) /\ IsFiniteSet(Held(C, Alikes(i)))
      /\ times \in Nat
  <2>1. /\ IsFiniteSet(Held(C, Alikes(i)))
        /\ Cardinality(Held(C, Alikes(i))) = Cardinality(Listed(s, Len(s), Alikes(i)))
    <3> HIDE DEF C
    <3> QED BY <1>2 DEF HoldsAll
  <2>2. times = Cardinality(Listed(s, Len(s), Alikes(i)))  BY TimesAlike
  <2> HIDE DEF C, times
  <2> QED BY <2>1, <2>2, FS_CardinalityType
<1>4. /\ DOMAIN GroupsOf(r) = DOMAIN C
      /\ \A k \in DOMAIN C : /\ GroupsOf(r)[k].count = Len(C[k])
                            /\ GroupsOf(r)[k].fingerprint = CanonicalParts(Representative(C[k]))
  BY DEF GroupsOf, Groups, Group
<1> HIDE DEF C, times
<1>5. \A k \in DOMAIN C : C[k] \in Cluster  BY <1>2 DEF WellMade
<1>6. ASSUME NEW c \in DOMAIN C, NEW m \in DOMAIN C[c], CanonicalParts(C[c][m]) = p
      PROVE  Len(C[c]) = times /\ CanonicalParts(Representative(C[c])) = p
  <2>1. /\ CanonicalParts(Representative(C[c])) = p
        /\ Held(C, Alikes(i)) = {c} \X DOMAIN C[c]
    BY <1>2, <1>6, WeakClusters
  <2>2. DOMAIN C[c] = 1 .. Len(C[c]) /\ Len(C[c]) \in Nat  BY <1>5 DEF Cluster
  <2>3. IsFiniteSet(DOMAIN C[c]) /\ Cardinality(DOMAIN C[c]) = Len(C[c])  BY <2>2, IntervalSize
  <2>4. Cardinality({c} \X DOMAIN C[c]) = Len(C[c])
    <3>1. Cardinality(Tagged(c, DOMAIN C[c])) = Len(C[c])  BY <2>3, TaggedSize
    <3> QED BY <3>1 DEF Tagged
  <2> QED BY <1>3, <2>1, <2>4
<1>7. ASSUME NEW k \in DOMAIN C, CanonicalParts(Representative(C[k])) = p PROVE Len(C[k]) = times
  <2>1. PICK m \in DOMAIN C[k] : Representative(C[k]) = C[k][m]
    BY <1>5, RepresentativeIsMember
  <2> QED BY <1>6, <1>7, <2>1
<1>8. ASSUME times > 0 PROVE \E k \in DOMAIN C : CanonicalParts(Representative(C[k])) = p
  <2>1. Held(C, Alikes(i)) # {}  BY <1>3, <1>8, FS_EmptySet
  <2>2. PICK m \in Held(C, Alikes(i)) : TRUE  BY <2>1
  <2>3. m[1] \in DOMAIN C /\ m[2] \in DOMAIN C[m[1]] /\ CanonicalParts(C[m[1]][m[2]]) = p
    BY DEF Held, Members, Has, Alikes
  <2> QED BY <1>6, <2>3
<1> QED BY <1>3, <1>4, <1>7, <1>8 DEF times

\* What a fingerprint is mapped to is a group of that fingerprint.
LEMMA GroupMapSound ==
  ASSUME NEW groups, NEW n \in Nat, DOMAIN groups = 1 .. n, NEW p
  PROVE  /\ p \in DOMAIN GroupMap(groups) <=> \E k \in DOMAIN groups : groups[k].fingerprint = p
         /\ p \in DOMAIN GroupMap(groups) =>
              \E k \in DOMAIN groups : groups[k].fingerprint = p /\ GroupMap(groups)[p] = groups[k]
<1> DEFINE of == {k \in DOMAIN groups : groups[k].fingerprint = p}
<1>1. p \in DOMAIN GroupMap(groups) <=> \E k \in DOMAIN groups : groups[k].fingerprint = p
  BY DEF GroupMap
<1>2. ASSUME p \in DOMAIN GroupMap(groups)
      PROVE  \E k \in DOMAIN groups : groups[k].fingerprint = p /\ GroupMap(groups)[p] = groups[k]
  <2>1. of # {} /\ of \subseteq Int  BY <1>1, <1>2
  <2>2. IsFiniteSet(of)
    <3>1. IsFiniteSet(1 .. n)  BY IntervalSize
    <3> QED BY <3>1, FS_Subset
  <2>3. Max(of) \in of
    <3> HIDE DEF of
    <3> QED BY <2>1, <2>2, MaxIsThere
  <2>4. GroupMap(groups)[p] = groups[Max(of)]  BY <1>2 DEF GroupMap
  <2> HIDE DEF of
  <2>5. Max(of) \in DOMAIN groups /\ groups[Max(of)].fingerprint = p  BY <2>3 DEF of
  <2> QED BY <2>4, <2>5
<1> QED BY <1>1, <1>2

\* The groups of a report are a sequence.
LEMMA GroupsAreSeq ==
  ASSUME CompareTypes, NEW r \in Reports
  PROVE  \E n \in Nat : DOMAIN GroupsOf(r) = 1 .. n
<1>1. reports[r] \in Seq(Occurrences)  BY DEF CompareTypes
<1>2. Clusters(reports[r]) \in Seq(Cluster)  BY <1>1, ClustersWellMade DEF WellMade
<1>3. CASE written[r]
  <2>1. DOMAIN GroupsOf(r) = DOMAIN Clusters(reports[r])  BY <1>3 DEF GroupsOf, Groups
  <2> QED BY <1>2, <2>1
<1>4. CASE ~written[r]
  <2>1. GroupsOf(r) = <<>>  BY <1>4 DEF GroupsOf
  <2>2. DOMAIN GroupsOf(r) = 1 .. 0  BY <2>1
  <2> QED BY <2>2
<1> QED BY <1>3, <1>4

\* The gate of the comparison: with equal fingerprints in one group each, more of them
\* would be worse, and a new one would be new.
LEMMA PassSound == ASSUME CompareTypes PROVE PassMeansNoMore
<1> SUFFICES ASSUME written = [r \in Reports |-> TRUE], ComparePassed,
                    NEW k \in Issues(Current), Weak(reports[Current][k])
             PROVE  LET same(j) == CanonicalParts(j) = CanonicalParts(reports[Current][k])
                    IN  Times(Current, same) <= Times(Baseline, same)
  BY DEF PassMeansNoMore
<1> DEFINE i == reports[Current][k]
           p == CanonicalParts(i)
           now == Times(Current, LAMBDA j : CanonicalParts(j) = CanonicalParts(i))
           before == Times(Baseline, LAMBDA j : CanonicalParts(j) = CanonicalParts(i))
           base == GroupMap(GroupsOf(Baseline))
           cur == GroupMap(GroupsOf(Current))
<1>1. /\ Current \in Reports /\ Baseline \in Reports /\ written[Current] /\ written[Baseline]
      /\ reports[Current] \in Seq(Occurrences)
  BY DEF Reports, Current, Baseline, CompareTypes
<1>2. i \in Occurrences /\ IsIssue(i) /\ k \in DOMAIN reports[Current]
  BY <1>1 DEF Issues, IsIssue
<1>3. /\ now \in Nat
      /\ \A g \in DOMAIN GroupsOf(Current) : GroupsOf(Current)[g].fingerprint = p
             => GroupsOf(Current)[g].count = now
      /\ now > 0 => \E g \in DOMAIN GroupsOf(Current) : GroupsOf(Current)[g].fingerprint = p
  BY <1>1, <1>2, WeakGroups
<1>4. /\ before \in Nat
      /\ \A g \in DOMAIN GroupsOf(Baseline) : GroupsOf(Baseline)[g].fingerprint = p
             => GroupsOf(Baseline)[g].count = before
  BY <1>1, <1>2, WeakGroups
<1> HIDE DEF now, before
<1>5. CASE now > 0
  <2>1. PICK g \in DOMAIN GroupsOf(Current) : GroupsOf(Current)[g].fingerprint = p  BY <1>3, <1>5
  <2>2. p \in DOMAIN cur /\ cur[p].count = now
    <3>1. \E n \in Nat : DOMAIN GroupsOf(Current) = 1 .. n  BY <1>1, GroupsAreSeq
    <3>2. p \in DOMAIN cur  BY <2>1, <3>1, GroupMapSound
    <3>3. \E h \in DOMAIN GroupsOf(Current) :
             GroupsOf(Current)[h].fingerprint = p /\ cur[p] = GroupsOf(Current)[h]
      BY <3>1, <3>2, GroupMapSound
    <3> QED BY <1>3, <3>2, <3>3
  <2>3. p \in DOMAIN base
    <3>1. DOMAIN cur \ DOMAIN base = {}  BY DEF ComparePassed, Comparison, CompareReports
    <3> QED BY <2>2, <3>1
  <2>4. base[p].count = before
    <3>1. \E n \in Nat : DOMAIN GroupsOf(Baseline) = 1 .. n  BY <1>1, GroupsAreSeq
    <3>2. \E h \in DOMAIN GroupsOf(Baseline) :
             GroupsOf(Baseline)[h].fingerprint = p /\ base[p] = GroupsOf(Baseline)[h]
      BY <2>3, <3>1, GroupMapSound
    <3> QED BY <1>4, <3>2
  <2>5. ~(cur[p].count > base[p].count)
    <3>1. {q \in DOMAIN base \cap DOMAIN cur : cur[q].count > base[q].count} = {}
      BY DEF ComparePassed, Comparison, CompareReports
    <3> QED BY <2>2, <2>3, <3>1
  <2> QED BY <1>3, <1>4, <2>2, <2>4, <2>5 DEF now, before
<1>6. CASE ~(now > 0)
  <2>1. now <= before  BY <1>3, <1>4, <1>6
  <2> QED BY <2>1 DEF now, before
<1> QED BY <1>5, <1>6

\* The occurrences that the groups of a report count, those of one fingerprint, and
\* those of both reports.
Counted(r, p) ==
    UNION {{k} \X (1 .. GroupsOf(r)[k].count) :
              k \in {g \in DOMAIN GroupsOf(r) : GroupsOf(r)[g].fingerprint = p}}
AllCounted(r) == UNION {{k} \X (1 .. GroupsOf(r)[k].count) : k \in DOMAIN GroupsOf(r)}
CountedBoth(p) ==
    TwoOf(Baseline, Counted(Baseline, p), Current, Counted(Current, p))

\* The groups are numbered; their counts are numbers; all together they count the
\* issues of a report that was written, and nothing of one that was not.
LEMMA GroupsCount ==
  ASSUME CompareTypes, NEW r \in Reports
  PROVE  /\ \A k \in DOMAIN GroupsOf(r) : GroupsOf(r)[k].count \in Nat
         /\ IsFiniteSet(AllCounted(r)) /\ IsFiniteSet(Issues(r))
         /\ Cardinality(AllCounted(r)) = IF written[r] THEN Cardinality(Issues(r)) ELSE 0
<1> DEFINE C == Clusters(reports[r])
<1>1. reports[r] \in Seq(Occurrences)  BY DEF CompareTypes
<1>2. WellMade(C) /\ HoldsAll(C, reports[r], Len(reports[r]))  BY <1>1, ClustersWellMade
<1>3. IsFiniteSet(Issues(r))
  <2>1. DOMAIN reports[r] = 1 .. Len(reports[r]) /\ Len(reports[r]) \in Nat  BY <1>1
  <2>2. IsFiniteSet(DOMAIN reports[r])  BY <2>1, IntervalSize
  <2> QED BY <2>2, FS_Subset DEF Issues
<1>4. CASE written[r]
  <2>1. DOMAIN GroupsOf(r) = DOMAIN C /\ \A k \in DOMAIN C : GroupsOf(r)[k].count = Len(C[k])
    BY <1>4 DEF GroupsOf, Groups, Group
  <2> HIDE DEF C
  <2>2. \A k \in DOMAIN C : Len(C[k]) \in Nat /\ DOMAIN C[k] = 1 .. Len(C[k])
    BY <1>2 DEF WellMade, Cluster
  <2>3. AllCounted(r) = Members(C)  BY <2>1, <2>2 DEF AllCounted, Members
  <2>4. Cardinality(Members(C)) = Cardinality(Issues(r))
    <3>1. GroupsSound  BY GroupsAreSound
    <3> QED BY <3>1 DEF GroupsSound, GroupsPartition, C
  <2>5. IsFiniteSet(Members(C))
    <3>1. C \in Seq(Cluster)  BY <1>2 DEF WellMade
    <3>2. Held(C, Occurrences) = Members(C)  BY <3>1 DEF Held, Has, Members, Cluster
    <3> QED BY <1>2, <3>2 DEF HoldsAll
  <2> QED BY <1>3, <1>4, <2>1, <2>2, <2>3, <2>4, <2>5
<1>5. CASE ~written[r]
  <2>1. GroupsOf(r) = <<>>  BY <1>5 DEF GroupsOf
  <2>2. DOMAIN GroupsOf(r) = {}  BY <2>1
  <2>3. AllCounted(r) = {}  BY <2>2 DEF AllCounted
  <2> QED BY <1>3, <1>5, <2>2, <2>3, FS_EmptySet
<1> QED BY <1>4, <1>5

\* The count of a fingerprint added over the groups of a report.
LEMMA AddedCounts ==
  ASSUME CompareTypes, NEW r \in Reports, NEW p
  PROVE  /\ IsFiniteSet(Counted(r, p))
         /\ FoldLeft(+, 0, [k \in DOMAIN GroupsOf(r) |->
                IF GroupsOf(r)[k].fingerprint = p THEN GroupsOf(r)[k].count ELSE 0])
              = Cardinality(Counted(r, p))
<1> DEFINE G == GroupsOf(r)
           v == [k \in DOMAIN G |-> IF G[k].fingerprint = p THEN G[k].count ELSE 0]
           all == AllOf([k \in DOMAIN v |-> {k} \X (1 .. v[k])], DOMAIN v)
<1>1. \A k \in DOMAIN G : G[k].count \in Nat  BY GroupsCount
<1>2. v \in Seq(Nat)
  <2>1. PICK n \in Nat : DOMAIN G = 1 .. n  BY GroupsAreSeq
  <2>2. v \in [1 .. n -> Nat]  BY <1>1, <2>1
  <2> HIDE DEF v
  <2> QED BY <2>1, <2>2
<1>3. IsFiniteSet(all) /\ FoldLeft(+, 0, v) = Cardinality(all)
  <2> HIDE DEF v
  <2> QED BY <1>2, FoldLeftSumsNat
<1>4. all = Counted(r, p)
  <2>1. ASSUME NEW z \in all PROVE z \in Counted(r, p)
    <3>1. PICK k \in DOMAIN v : z \in {k} \X (1 .. v[k])  BY DEF AllOf
    <3>2. k \in DOMAIN G /\ G[k].fingerprint = p /\ v[k] = G[k].count  BY <3>1
    <3> QED BY <3>1, <3>2 DEF Counted
  <2>2. ASSUME NEW z \in Counted(r, p) PROVE z \in all
    <3>1. PICK k \in DOMAIN G : G[k].fingerprint = p /\ z \in {k} \X (1 .. G[k].count)
      BY DEF Counted
    <3>2. k \in DOMAIN v /\ v[k] = G[k].count  BY <3>1
    <3>3. z \in {k} \X (1 .. v[k])  BY <3>1, <3>2
    <3> QED BY <3>2, <3>3 DEF AllOf
  <2> QED BY <2>1, <2>2
<1> HIDE DEF all
<1> QED BY <1>3, <1>4

\* What the aggregate adds for a fingerprint is what both reports count of it.
LEMMA AggregateIsCount ==
  ASSUME CompareTypes, NEW p
  PROVE  /\ IsFiniteSet(CountedBoth(p)) /\ AggregateCount(p) = Cardinality(CountedBoth(p))
         /\ AggregateCount(p) \in Nat
<1>1. Baseline \in Reports /\ Current \in Reports /\ Baseline # Current
  BY DEF Baseline, Current, Reports
<1>2. /\ IsFiniteSet(Counted(Baseline, p)) /\ IsFiniteSet(Counted(Current, p))
      /\ AggregateCount(p) = Cardinality(Counted(Baseline, p)) + Cardinality(Counted(Current, p))
  <2>1. IsFiniteSet(Counted(Baseline, p)) /\ IsFiniteSet(Counted(Current, p))
    BY <1>1, AddedCounts
  <2> DEFINE added(r) == FoldLeft(+, 0, [k \in DOMAIN GroupsOf(r) |->
                IF GroupsOf(r)[k].fingerprint = p THEN GroupsOf(r)[k].count ELSE 0])
  <2>2. AggregateCount(p) = added(Baseline) + added(Current)  BY DEF AggregateCount
  <2>3. added(Baseline) = Cardinality(Counted(Baseline, p))  BY <1>1, AddedCounts
  <2>4. added(Current) = Cardinality(Counted(Current, p))  BY <1>1, AddedCounts
  <2> HIDE DEF added
  <2> QED BY <2>1, <2>2, <2>3, <2>4
<1>3. /\ IsFiniteSet(CountedBoth(p))
      /\ Cardinality(CountedBoth(p))
           = Cardinality(Counted(Baseline, p)) + Cardinality(Counted(Current, p))
  BY <1>1, <1>2, TwoParts DEF CountedBoth
<1> QED BY <1>2, <1>3, FS_CardinalityType

\* Over all fingerprints, that is all the issues of the written reports.
LEMMA AggregateSound == ASSUME CompareTypes PROVE AggregateConserves
<1> DEFINE P == UNION {Fingerprints(r) : r \in Reports}
           c == AnyOf(P)
           F == [p \in P |-> AggregateCount(p)]
           g == [z \in P \X Nat |-> z[2] + F[z[1]]]
           I == [p \in P |-> CountedBoth(p)]
           Is(h) == h = [t \in SUBSET P |-> IF t = {} THEN 0
                           ELSE h[t \ {CHOOSE x \in t : TRUE}]
                                  + AggregateCount(CHOOSE x \in t : TRUE)]
           k == CHOOSE it : Is(it)
<1>1. Reports = {Baseline, Current} /\ Baseline # Current  BY DEF Reports, Baseline, Current
<1>2. IsFiniteSet(P)
  <2>1. ASSUME NEW r \in Reports PROVE IsFiniteSet(Fingerprints(r))
    <3> DEFINE f == [n \in DOMAIN GroupsOf(r) |-> GroupsOf(r)[n].fingerprint]
    <3>1. PICK n \in Nat : DOMAIN GroupsOf(r) = 1 .. n  BY GroupsAreSeq
    <3>2. Fingerprints(r) = ToSet(f)  BY DEF Fingerprints, ToSet
    <3>3. DOMAIN f = 1 .. n  BY <3>1
    <3> HIDE DEF f
    <3> QED BY <3>2, <3>3, RangeFinite
  <2>2. P = Fingerprints(Baseline) \cup Fingerprints(Current)  BY <1>1
  <2>3. IsFiniteSet(Fingerprints(Baseline)) /\ IsFiniteSet(Fingerprints(Current))
    BY <1>1, <2>1
  <2> HIDE DEF P
  <2> QED BY <2>2, <2>3, FS_Union
<1> HIDE DEF P
<1>3. F \in [P -> Nat]  BY AggregateIsCount
<1> HIDE DEF F
<1>4. PICK h \in [SUBSET P -> Nat] : IsFold(h, P, 0, c, g)
  BY <1>2, <1>3, SumExists
<1>5. Takes(c, P)  BY <1>2, <1>3, SumExists
<1>6. \A t \in SUBSET P : /\ c[t] = CHOOSE x \in t : TRUE
                          /\ t # {} => c[t] \in P /\ t \ {c[t]} \in SUBSET P
  BY <1>5 DEF AnyOf, Takes
<1> HIDE DEF c
<1>7. Is(h)
  <2>1. ASSUME NEW t \in SUBSET P, t # {}
        PROVE  h[t] = h[t \ {c[t]}] + AggregateCount(c[t])
    <3>1. h[t] = g[<<c[t], h[t \ {c[t]}]>>]  BY <1>4, <2>1 DEF IsFold
    <3>2. c[t] \in P /\ h[t \ {c[t]}] \in Nat  BY <1>6, <2>1
    <3>3. F[c[t]] = AggregateCount(c[t])  BY <3>2 DEF F
    <3> QED BY <3>1, <3>2, <3>3
  <2>2. h[{}] = 0  BY <1>4 DEF IsFold
  <2>3. \A t \in SUBSET P : h[t] = IF t = {} THEN 0
                           ELSE h[t \ {CHOOSE x \in t : TRUE}]
                                  + AggregateCount(CHOOSE x \in t : TRUE)
    BY <1>6, <2>1, <2>2
  <2> QED BY <2>3
<1>8. Is(k)
  <2> HIDE DEF Is
  <2> QED BY <1>7
<1>9. FoldSet(LAMBDA p, n : n + AggregateCount(p), 0, P) = k[P]
  BY DEF FoldSet, MapThenFoldSet
<1> HIDE DEF k
<1>10. IsSum(k, P, c, F)
  <2>1. \A t \in SUBSET P : k[t] = IF t = {} THEN 0 ELSE k[t \ {c[t]}] + AggregateCount(c[t])
    <3> SUFFICES ASSUME NEW t \in SUBSET P
                 PROVE  k[t] = IF t = {} THEN 0 ELSE k[t \ {c[t]}] + AggregateCount(c[t])
      OBVIOUS
    <3>1. k[t] = IF t = {} THEN 0
                 ELSE k[t \ {CHOOSE x \in t : TRUE}] + AggregateCount(CHOOSE x \in t : TRUE)
      BY <1>8
    <3> QED BY <1>6, <3>1
  <2>2. \A t \in SUBSET P : t # {} => F[c[t]] = AggregateCount(c[t])  BY <1>6 DEF F
  <2> QED BY <2>1, <2>2 DEF IsSum
<1>11. CountsEach(F, P, I)
  <2>1. ASSUME NEW p \in P PROVE IsFiniteSet(I[p]) /\ F[p] = Cardinality(I[p])
    BY AggregateIsCount DEF F
  <2>2. ASSUME NEW p \in P, NEW q \in P, p # q PROVE I[p] \cap I[q] = {}
    <3>1. Counted(Baseline, p) \cap Counted(Baseline, q) = {}  BY <2>2 DEF Counted
    <3>2. Counted(Current, p) \cap Counted(Current, q) = {}  BY <2>2 DEF Counted
    <3> QED BY <1>1, <3>1, <3>2 DEF CountedBoth, TwoOf
  <2> HIDE DEF I
  <2> QED BY <2>1, <2>2 DEF CountsEach
<1>12. AllOf(I, P) = TwoOf(Baseline, AllCounted(Baseline), Current, AllCounted(Current))
  <2>1. ASSUME NEW z \in AllOf(I, P)
        PROVE  z \in TwoOf(Baseline, AllCounted(Baseline), Current, AllCounted(Current))
    <3>1. PICK p \in P : z \in CountedBoth(p)  BY DEF AllOf
    <3>2. /\ Counted(Baseline, p) \subseteq AllCounted(Baseline)
          /\ Counted(Current, p) \subseteq AllCounted(Current)
      BY DEF Counted, AllCounted
    <3> QED BY <3>1, <3>2 DEF CountedBoth, TwoOf
  <2>2. ASSUME NEW r \in Reports, NEW z \in {r} \X AllCounted(r) PROVE z \in AllOf(I, P)
    <3>1. PICK n \in DOMAIN GroupsOf(r) : z[2] \in {n} \X (1 .. GroupsOf(r)[n].count)
      BY DEF AllCounted
    <3> DEFINE p == GroupsOf(r)[n].fingerprint
    <3>2. p \in P  BY DEF P, Fingerprints
    <3>3. z[2] \in Counted(r, p)  BY <3>1 DEF Counted
    <3>4. z \in CountedBoth(p)  BY <1>1, <3>3 DEF CountedBoth, TwoOf
    <3> QED BY <3>2, <3>4 DEF AllOf
  <2> QED BY <1>1, <2>1, <2>2 DEF TwoOf
<1>13. FoldSet(LAMBDA p, n : n + AggregateCount(p), 0, P)
         = Cardinality(AllCounted(Baseline)) + Cardinality(AllCounted(Current))
  <2>1. k[P] = Cardinality(AllOf(I, P))
    <3> HIDE DEF I
    <3> QED BY <1>2, <1>5, <1>10, <1>11, SumCounts
  <2>2. IsFiniteSet(AllCounted(Baseline)) /\ IsFiniteSet(AllCounted(Current))
    BY <1>1, GroupsCount
  <2>3. Cardinality(AllOf(I, P))
          = Cardinality(AllCounted(Baseline)) + Cardinality(AllCounted(Current))
    BY <1>1, <1>12, <2>2, TwoParts
  <2> QED BY <1>9, <2>1, <2>3
<1> DEFINE Due(r) == IF written[r] THEN Issues(r) ELSE {}
           due == UNION {{r} \X Issues(r) : r \in {q \in Reports : written[q]}}
<1>14. due = TwoOf(Baseline, Due(Baseline), Current, Due(Current))
  BY <1>1 DEF TwoOf
<1>15. ASSUME NEW r \in Reports
       PROVE  IsFiniteSet(Due(r)) /\ Cardinality(Due(r)) = Cardinality(AllCounted(r))
  BY GroupsCount, FS_EmptySet
<1> HIDE DEF Due, due
<1>16. Cardinality(due) = Cardinality(Due(Baseline)) + Cardinality(Due(Current))
  BY <1>1, <1>14, <1>15, TwoParts
<1>17. Cardinality(due) = Cardinality(AllCounted(Baseline)) + Cardinality(AllCounted(Current))
  BY <1>1, <1>15, <1>16
<1>18. FoldSet(LAMBDA p, n : n + AggregateCount(p), 0, P) = Cardinality(due)
  BY <1>13, <1>17
<1> QED BY <1>18 DEF AggregateConserves, P, due

\* A fingerprint is new in the first run that has it.
LEMMA TrendSound == ASSUME CompareTypes PROVE NewInOneRun
<1> SUFFICES ASSUME NEW p \in UNION {Fingerprints(r) : r \in index}
             PROVE  LET having(r) == {k \in DOMAIN GroupsOf(r) : GroupsOf(r)[k].fingerprint = p}
                        listed(r) == NewInRun(index, r) \cap having(r)
                    IN  \E r \in index :
                            /\ having(r) # {} /\ listed(r) = having(r)
                            /\ \A s \in index \ {r} : listed(s) = {}
  BY DEF NewInOneRun
<1>q. PICK q \in index : p \in Fingerprints(q)  OBVIOUS
<1> DEFINE having(r) == {k \in DOMAIN GroupsOf(r) : GroupsOf(r)[k].fingerprint = p}
<1>1. index \subseteq {1, 2}  BY DEF CompareTypes, Reports, Baseline, Current
<1>2. \A r : p \in Fingerprints(r) <=> having(r) # {}  BY DEF Fingerprints
<1>3. ASSUME NEW r \in index, \A s \in index : s < r => p \notin Fingerprints(s)
      PROVE  NewInRun(index, r) \cap having(r) = having(r)
  BY <1>3 DEF NewInRun
<1>4. ASSUME NEW r, NEW s \in index, s < r, p \in Fingerprints(s)
      PROVE  NewInRun(index, r) \cap having(r) = {}
  BY <1>4 DEF NewInRun
<1>5. ASSUME NEW r, p \notin Fingerprints(r)
      PROVE  NewInRun(index, r) \cap having(r) = {}
  BY <1>2, <1>5
<1>6. \E r \in index : /\ having(r) # {}
                       /\ NewInRun(index, r) \cap having(r) = having(r)
                       /\ \A s \in index \ {r} : NewInRun(index, s) \cap having(s) = {}
  <2> HIDE DEF having
  <2>1. CASE 1 \in index /\ p \in Fingerprints(1)
    <3>1. having(1) # {} /\ NewInRun(index, 1) \cap having(1) = having(1)
      BY <1>1, <1>2, <1>3, <2>1
    <3>2. \A s \in index \ {1} : s = 2  BY <1>1
    <3>3. NewInRun(index, 2) \cap having(2) = {}  BY <1>4, <2>1
    <3> QED BY <2>1, <3>1, <3>2, <3>3
  <2>2. CASE ~(1 \in index /\ p \in Fingerprints(1))
    <3>1. q = 2 /\ \A s \in index \ {2} : s = 1 /\ p \notin Fingerprints(s)  BY <1>q, <1>1, <2>2
    <3>2. having(2) # {} /\ NewInRun(index, 2) \cap having(2) = having(2)
      BY <1>q, <1>1, <1>2, <1>3, <2>2, <3>1
    <3> QED BY <1>5, <3>1, <3>2
  <2> QED BY <2>1, <2>2
<1> QED BY <1>6

\* For any incidents and any order of detection, writing and indexing: a comparison
\* that passes hides no failure with little evidence that got more frequent, the aggregate
\* conserves the occurrences, and the trend lists a fingerprint as new in one run, once for
\* each of its groups there (compare.py, aggregate.py, indexer.py).
THEOREM ComparisonHolds == CompareSpec => []ComparisonSound
<1>1. CompareInit => CompareTypes  BY DEF CompareInit, CompareTypes, NoIndex
<1>2. CompareTypes => ComparisonSound
  BY PassSound, AggregateSound, TrendSound DEF ComparisonSound
<1> QED BY <1>1, <1>2, CompareStep, PTL DEF CompareSpec
-----------------------------------------------------------------------------
(* CPU percentages *)

\* What a process used since it was read is no more than all cores had since then: that
\* holds of the last sample and of a reading that is not finished, and between the two.
AllTicks == cpu.passed * Cores
CpuTypes ==
    /\ cpu = [passed |-> cpu.passed, life |-> cpu.life, pid |-> cpu.pid, used |-> cpu.used,
              reading |-> cpu.reading, prev |-> cpu.prev, value |-> cpu.value]
    /\ cpu.passed \in Nat /\ cpu.life \in 1 .. 3 /\ cpu.pid \in 1 .. 2 /\ cpu.used \in Nat
    /\ cpu.reading \in [pid : 0 .. 2, used : Nat, at : Nat]
    /\ cpu.prev \in [pid : 0 .. 2, used : Nat, total : Nat, lag : Nat]
    /\ cpu.value \in [num : Int, den : Int, lag : Int]
PrevFits ==
    /\ cpu.prev.total <= AllTicks
    /\ cpu.life = 1 => cpu.prev.pid \in 0 .. 1
    /\ cpu.prev.pid = cpu.pid =>
          cpu.used - cpu.prev.used <= AllTicks - cpu.prev.total + cpu.prev.lag
ReadingFits ==
    cpu.reading # NoReading =>
        /\ cpu.prev.total <= cpu.reading.at /\ cpu.reading.at <= AllTicks
        /\ cpu.reading.pid \in 1 .. 2 /\ (cpu.life = 1 => cpu.reading.pid = 1)
        /\ cpu.reading.pid = cpu.pid => cpu.used - cpu.reading.used <= AllTicks - cpu.reading.at
        /\ cpu.reading.pid = cpu.prev.pid =>
              cpu.reading.used - cpu.prev.used <= cpu.reading.at - cpu.prev.total + cpu.prev.lag
CpuInv ==
    /\ CpuTypes /\ PercentagesBounded /\ PrevFits /\ ReadingFits
    /\ cpu.life = 1 => cpu.pid = 1

\* Another tick adds one for each core.
LEMMA TotalGrows ==
    ASSUME NEW a \in Nat
    PROVE  a * Cores \in Nat /\ (a + 1) * Cores = a * Cores + Cores
BY PerfReportAssumption

\* A tick or another process keeps it so.
LEMMA DeviceTurns ==
    ASSUME CpuInv, Burn \/ Replace
    PROVE  CpuInv'
<1> DEFINE total == cpu.passed * Cores
<1>1. total \in Nat /\ (cpu.passed + 1) * Cores = total + Cores /\ Cores \in Nat \ {0}
  BY TotalGrows, PerfReportAssumption DEF CpuInv, CpuTypes
<1> HIDE DEF total
<1>t. AllTicks = total
  BY DEF AllTicks, total
<1>2. CASE Burn
  <2>1. PICK u \in 0 .. Cores : cpu' = [cpu EXCEPT !.passed = @ + 1, !.used = @ + u]
    BY <1>2 DEF Burn
  <2>2. cpu' = [passed |-> cpu.passed + 1, life |-> cpu.life, pid |-> cpu.pid,
                used |-> cpu.used + u, reading |-> cpu.reading, prev |-> cpu.prev,
                value |-> cpu.value]
    BY <2>1 DEF CpuInv, CpuTypes
  <2>3. AllTicks' = total + Cores
    BY <1>1, <2>2 DEF AllTicks
  <2>4. CpuTypes' /\ PercentagesBounded'
    BY <1>1, <2>2 DEF CpuInv, CpuTypes, PercentagesBounded
  <2>5. PrevFits'
    BY <1>1, <1>t, <2>2, <2>3 DEF CpuInv, CpuTypes, PrevFits
  <2>6. ReadingFits'
    BY <1>1, <1>t, <2>2, <2>3 DEF CpuInv, CpuTypes, ReadingFits
  <2> QED BY <2>2, <2>4, <2>5, <2>6 DEF CpuInv
<1>3. CASE Replace
  <2>1. PICK p \in {1, 2}, u \in Nat :
           /\ cpu' = [cpu EXCEPT !.life = @ + 1, !.pid = p, !.used = u]
           /\ u = 0 \/ (p = 2 /\ cpu.life = 1)
    <3>0. PICK p \in {1, 2} :
             \E u \in IF p = 2 /\ cpu.life = 1 THEN 0 .. total ELSE {0} :
                cpu' = [cpu EXCEPT !.life = @ + 1, !.pid = p, !.used = u]
      BY <1>3 DEF Replace, total
    <3>1. PICK u \in IF p = 2 /\ cpu.life = 1 THEN 0 .. total ELSE {0} :
             cpu' = [cpu EXCEPT !.life = @ + 1, !.pid = p, !.used = u]
      BY <3>0
    <3>2. u \in Nat /\ (u = 0 \/ (p = 2 /\ cpu.life = 1))
      BY <1>1
    <3> QED
      BY <3>1, <3>2
  <2>2. cpu' = [passed |-> cpu.passed, life |-> cpu.life + 1, pid |-> p, used |-> u,
                reading |-> cpu.reading, prev |-> cpu.prev, value |-> cpu.value] /\ cpu.life < 3
    BY <1>3, <2>1 DEF CpuInv, CpuTypes, Replace
  <2>3. AllTicks' = total
    BY <2>2 DEF AllTicks, total
  <2>5. cpu.life + 1 \in 1 .. 3 /\ cpu.life + 1 # 1 /\ p \in 1 .. 2
    BY <2>2 DEF CpuInv, CpuTypes
  <2>4. CpuTypes' /\ PercentagesBounded'
    BY <2>2, <2>5 DEF CpuInv, CpuTypes, PercentagesBounded
  <2>6. PrevFits'
    BY <1>1, <1>t, <2>1, <2>2, <2>3, <2>5 DEF CpuInv, CpuTypes, PrevFits
  <2>7. ReadingFits'
    BY <1>1, <1>t, <2>1, <2>2, <2>3, <2>5 DEF CpuInv, CpuTypes, ReadingFits
  <2> QED BY <2>2, <2>4, <2>5, <2>6, <2>7 DEF CpuInv
<1> QED BY <1>2, <1>3

\* So does a read, the first or the second of a sample, or one that fails.
LEMMA SamplerTurns ==
    ASSUME CpuInv, ReadProcess \/ ReadTotal \/ ReadFails
    PROVE  CpuInv'
<1> DEFINE total == cpu.passed * Cores
<1>1. total \in Nat /\ Cores \in Nat \ {0}
  BY TotalGrows, PerfReportAssumption DEF CpuInv, CpuTypes
<1> HIDE DEF total
<1>t. AllTicks = total
  BY DEF AllTicks, total
<1>2. CASE ReadProcess
  <2> DEFINE r == [pid |-> cpu.pid, used |-> cpu.used, at |-> total]
  <2>1. cpu' = [cpu EXCEPT !.reading = r]
    BY <1>2 DEF ReadProcess, total
  <2>2. r \in [pid : 0 .. 2, used : Nat, at : Nat] /\ r.pid = cpu.pid /\ r.used = cpu.used /\ r.at = total
    BY <1>1 DEF CpuInv, CpuTypes
  <2> HIDE DEF r
  <2>3. cpu' = [passed |-> cpu.passed, life |-> cpu.life, pid |-> cpu.pid, used |-> cpu.used,
                reading |-> r, prev |-> cpu.prev, value |-> cpu.value]
    BY <2>1 DEF CpuInv, CpuTypes
  <2>4. AllTicks' = total
    BY <2>3 DEF AllTicks, total
  <2>5. CpuTypes' /\ PercentagesBounded'
    BY <2>2, <2>3 DEF CpuInv, CpuTypes, PercentagesBounded
  <2>6. PrevFits'
    BY <1>t, <2>3, <2>4 DEF CpuInv, PrevFits
  <2>7. ReadingFits'
    BY <1>1, <1>t, <2>2, <2>3, <2>4 DEF CpuInv, CpuTypes, PrevFits, ReadingFits
  <2> QED BY <2>3, <2>5, <2>6, <2>7 DEF CpuInv
<1>3. CASE ReadTotal
  <2> DEFINE s == [pid |-> cpu.reading.pid, used |-> cpu.reading.used,
                   total |-> total, lag |-> total - cpu.reading.at]
             v == IF Trusted(cpu.prev, s)
                  THEN [num |-> (s.used - cpu.prev.used) * Cores,
                        den |-> s.total - cpu.prev.total, lag |-> cpu.prev.lag]
                  ELSE NoValue
  <2>0. cpu.reading # NoReading
    BY <1>3 DEF ReadTotal
  <2>1. cpu' = [cpu EXCEPT !.reading = NoReading, !.prev = s, !.value = v]
    BY <1>3 DEF ReadTotal, total
  <2>2. /\ s \in [pid : 0 .. 2, used : Nat, total : Nat, lag : Nat]
        /\ s.pid = cpu.reading.pid /\ s.used = cpu.reading.used
        /\ s.total = total /\ s.lag = total - cpu.reading.at
    BY <1>1, <1>t, <2>0 DEF CpuInv, CpuTypes, ReadingFits
  <2>3. v \in [num : Int, den : Int, lag : Int] /\ 0 <= v.num /\ v.num <= Cores * (v.den + v.lag)
    <3>1. CASE Trusted(cpu.prev, s)
      <4> DEFINE du == cpu.reading.used - cpu.prev.used
                 dt == total - cpu.prev.total
                 lag == cpu.prev.lag
      <4>1. du \in Nat /\ dt \in Nat /\ lag \in Nat /\ du <= dt + lag
        BY <1>1, <1>t, <2>0, <2>2, <3>1 DEF CpuInv, CpuTypes, ReadingFits, Trusted
      <4>2. v = [num |-> du * Cores, den |-> dt, lag |-> lag]
        BY <3>1
      <4> HIDE DEF du, dt, lag
      <4>3. du * Cores \in Nat /\ du * Cores <= Cores * (dt + lag)
        BY <1>1, <4>1
      <4> QED
        BY <4>1, <4>2, <4>3
    <3>2. CASE ~Trusted(cpu.prev, s)
      BY <1>1, <3>2 DEF NoValue
    <3> QED
      BY <3>1, <3>2
  <2> HIDE DEF s, v
  <2>4. cpu' = [passed |-> cpu.passed, life |-> cpu.life, pid |-> cpu.pid, used |-> cpu.used,
                reading |-> NoReading, prev |-> s, value |-> v]
    BY <2>1 DEF CpuInv, CpuTypes
  <2>5. AllTicks' = total
    BY <2>4 DEF AllTicks, total
  <2>6. CpuTypes' /\ PercentagesBounded'
    BY <2>2, <2>3, <2>4 DEF CpuInv, CpuTypes, PercentagesBounded, NoReading
  <2>7. PrevFits'
    BY <1>1, <1>t, <2>0, <2>2, <2>4, <2>5 DEF CpuInv, CpuTypes, PrevFits, ReadingFits
  <2>8. ReadingFits'
    BY <2>4 DEF ReadingFits
  <2> QED BY <2>4, <2>6, <2>7, <2>8 DEF CpuInv
<1>4. CASE ReadFails
  <2>1. cpu' = [passed |-> cpu.passed, life |-> cpu.life, pid |-> cpu.pid, used |-> cpu.used,
                reading |-> NoReading, prev |-> cpu.prev, value |-> cpu.value]
    BY <1>4 DEF ReadFails, CpuInv, CpuTypes
  <2>2. AllTicks' = AllTicks
    BY <2>1 DEF AllTicks
  <2>3. CpuTypes' /\ PercentagesBounded'
    BY <2>1 DEF CpuInv, CpuTypes, PercentagesBounded, NoReading
  <2> QED BY <2>1, <2>2, <2>3 DEF CpuInv, PrevFits, ReadingFits
<1> QED BY <1>2, <1>3, <1>4

\* For any number of cores and any load, whatever process gets the pid between two
\* samples or between the two reads of one, a percentage is not negative, and above 100
\* for each core by no more than passed between the two reads of the earlier sample
\* (sample and CpuPercentCalculator.update).
THEOREM PercentagesAreBounded == PerfReportSpec => []PercentagesBounded
<1>1. CpuInit => CpuInv
  <2> SUFFICES ASSUME CpuInit PROVE CpuInv
    OBVIOUS
  <2>1. AllTicks \in Nat /\ AllTicks >= 0
    BY TotalGrows DEF CpuInit, AllTicks
  <2> QED
    BY <2>1, PerfReportAssumption
    DEF CpuInit, CpuInv, CpuTypes, PercentagesBounded, PrevFits, ReadingFits,
        NoReading, NoSample, NoValue
<1>2. CpuInv /\ [PerfReportNext]_perfReportVars => CpuInv'
  <2>1. ASSUME CpuInv, cpu' = cpu PROVE CpuInv'
    BY <2>1 DEF CpuInv, CpuTypes, PercentagesBounded, PrevFits, ReadingFits, AllTicks
  <2> QED
    BY <2>1, DeviceTurns, SamplerTurns DEF PerfReportNext, CpuStep, perfReportVars, Build
<1>3. CpuInv => PercentagesBounded
  BY DEF CpuInv
<1> QED
  BY <1>1, <1>2, <1>3, PTL DEF PerfReportSpec
-----------------------------------------------------------------------------
(* The report of the performance test *)

LifeEvents == {"new", "restart", "gone"}
LifeRows == [at : 0 .. RunEnd, event : LifeEvents]
LifeStates == [first : Int, last : Int, since : Nat \cup {Unset}, intervals : Seq(Nat \X Nat)]
Unseen == [first |-> Unset, last |-> Unset, since |-> Unset, intervals |-> <<>>]

\* A row makes of one such state another.
LEMMA LivesType ==
  ASSUME NEW st \in LifeStates, NEW row \in LifeRows
  PROVE  Lives(st, row) \in LifeStates
<1>1. st = [first |-> st.first, last |-> st.last, since |-> st.since, intervals |-> st.intervals]
  BY DEF LifeStates
<1>2. row.at \in Nat /\ row.at \in Int  BY PerfReportAssumption DEF LifeRows
<1>3. CASE row.event = "gone" /\ st.since = Unset  BY <1>3 DEF Lives
<1>4. CASE row.event = "gone" /\ st.since # Unset
  <2>1. Lives(st, row) = [first |-> st.first, last |-> row.at, since |-> Unset,
                          intervals |-> Append(st.intervals, <<st.since, row.at>>)]
    BY <1>1, <1>4 DEF Lives
  <2>2. st.intervals \in Seq(Nat \X Nat) /\ <<st.since, row.at>> \in Nat \X Nat
    BY <1>2, <1>4 DEF LifeStates
  <2>3. Append(st.intervals, <<st.since, row.at>>) \in Seq(Nat \X Nat)  BY <2>2
  <2> QED BY <1>2, <2>1, <2>3 DEF LifeStates
<1>5. CASE row.event # "gone"
  <2>1. Lives(st, row) = [first |-> IF st.first = Unset THEN row.at ELSE st.first,
                          last |-> st.last,
                          since |-> IF st.since = Unset THEN row.at ELSE st.since,
                          intervals |-> st.intervals]
    BY <1>1, <1>5 DEF Lives
  <2> QED BY <1>2, <2>1 DEF LifeStates
<1> QED BY <1>3, <1>4, <1>5

\* f[n] is the state after the first n rows.
LivesUnfolds(f, l) == f[0] = Unseen /\ \A n \in 1 .. Len(l) : f[n] = Lives(f[n - 1], l[n])

\* The rows are read one after the other.
LEMMA LivesUnfold ==
  ASSUME NEW l \in Seq(LifeRows)
  PROVE  \E f : LivesUnfolds(f, l) /\ f[Len(l)] = FoldLeft(Lives, Unseen, l)
<1> DEFINE D == 1 .. Len(l)
           V == LifeStates
           c == LastOf(Len(l))
           g == [z \in D \X V |-> Lives(z[2], l[z[1]])]
           Is(h) == h = [t \in SUBSET D |-> IF t = {} THEN Unseen
                                            ELSE Lives(h[t \ {Max(t)}], l[Max(t)])]
<1>1. /\ Takes(c, D)
      /\ \A t \in SUBSET D : c[t] = Max(t) /\ (t # {} => Max(t) \in t)
  <2>1. Len(l) \in Nat  OBVIOUS
  <2> QED BY <2>1, LastFirst
<1> HIDE DEF c
<1>3. PICK h \in [SUBSET D -> V] : IsFold(h, D, Unseen, c, g)
  <2>1. g \in [D \X V -> V]
    <3>1. \A z \in D \X V : Lives(z[2], l[z[1]]) \in V
      <4> SUFFICES ASSUME NEW z \in D \X V PROVE Lives(z[2], l[z[1]]) \in V
        OBVIOUS
      <4>1. z[2] \in V /\ l[z[1]] \in LifeRows  OBVIOUS
      <4> QED BY <4>1, LivesType
    <3> QED BY <3>1
  <2>2. IsFiniteSet(D)  BY FS_Interval
  <2>3. Unseen \in V
    <3>1. <<>> \in Seq(Nat \X Nat)  OBVIOUS
    <3> QED BY <3>1 DEF LifeStates, Unseen, Unset
  <2> HIDE DEF D, V, g
  <2> QED BY <1>1, <2>1, <2>2, <2>3, FoldExists
<1>4. \A t \in SUBSET D : t # {} => Max(t) \in D /\ h[t \ {Max(t)}] \in V
  <2> HIDE DEF V
  <2> QED BY <1>1
<1>5. \A t \in SUBSET D : t # {} =>
         g[<<c[t], h[t \ {c[t]}]>>] = Lives(h[t \ {Max(t)}], l[Max(t)])
  <2> HIDE DEF V
  <2> QED BY <1>1, <1>4
<1>6. Is(h)
  <2>1. \A t \in SUBSET D : h[t] = IF t = {} THEN Unseen ELSE Lives(h[t \ {Max(t)}], l[Max(t)])
    BY <1>3, <1>5 DEF IsFold
  <2> QED BY <2>1
<1>7. DOMAIN l = D  OBVIOUS
<1> DEFINE k == CHOOSE it : Is(it)
<1>8. FoldLeft(Lives, Unseen, l) = k[D]
  BY <1>7 DEF FoldLeft, MapThenFoldSet
<1>9. Is(k)
  <2> HIDE DEF Is
  <2> QED BY <1>6
<1> HIDE DEF k
<1> DEFINE f == [n \in 0 .. Len(l) |-> k[1 .. n]]
<1>10. f[0] = Unseen
  <2>1. 1 .. 0 = {} /\ {} \in SUBSET D  OBVIOUS
  <2>2. k[{}] = Unseen  BY <1>9, <2>1
  <2> QED BY <2>1, <2>2
<1>11. ASSUME NEW n \in D PROVE f[n] = Lives(f[n - 1], l[n])
  <2>1. 1 .. n \in SUBSET D /\ 1 .. n # {} /\ n - 1 \in 0 .. Len(l) /\ n \in 0 .. Len(l)
    OBVIOUS
  <2>2. Max(1 .. n) = n /\ (1 .. n) \ {n} = 1 .. n - 1
    <3>1. Len(l) \in Nat  OBVIOUS
    <3> QED BY <3>1, LastFirst
  <2>3. k[1 .. n] = Lives(k[(1 .. n) \ {Max(1 .. n)}], l[Max(1 .. n)])
    BY <1>9, <2>1
  <2> QED BY <2>1, <2>2, <2>3
<1>12. f[Len(l)] = FoldLeft(Lives, Unseen, l)  BY <1>8
<1> HIDE DEF f
<1> QED BY <1>10, <1>11, <1>12 DEF LivesUnfolds

\* The seconds of an interval, and of several that do not overlap and end by b.
Span(interval) == interval[1] .. interval[2] - 1
Covered(intervals) == UNION {Span(intervals[k]) : k \in DOMAIN intervals}
Tidy(intervals, b) ==
    /\ intervals \in Seq(Nat \X Nat)
    /\ \A k \in DOMAIN intervals : intervals[k][1] <= intervals[k][2] /\ intervals[k][2] <= b
    /\ \A j, k \in DOMAIN intervals : j # k => Span(intervals[j]) \cap Span(intervals[k]) = {}

\* An interval after the others can be appended.
LEMMA AppendTidy ==
  ASSUME NEW iv, NEW u \in Nat, NEW b \in Nat, Tidy(iv, u), u <= b
  PROVE  /\ Tidy(Append(iv, <<u, b>>), b)
         /\ Covered(Append(iv, <<u, b>>)) = Covered(iv) \cup (u .. b - 1)
<1> DEFINE n == Len(iv)
           jv == Append(iv, <<u, b>>)
<1>1. iv \in Seq(Nat \X Nat) /\ n \in Nat /\ DOMAIN iv = 1 .. n  BY DEF Tidy
<1>2. /\ jv \in Seq(Nat \X Nat) /\ DOMAIN jv = 1 .. n + 1
      /\ \A k \in 1 .. n : jv[k] = iv[k] /\ k \in DOMAIN jv
      /\ jv[n + 1] = <<u, b>>
  BY <1>1
<1>3. \A k \in DOMAIN jv : k \in DOMAIN iv \/ k = n + 1  BY <1>1, <1>2
<1>4. n + 1 \notin DOMAIN iv /\ n + 1 \in DOMAIN jv  BY <1>1, <1>2
<1> HIDE DEF jv, n
<1>5. \A k \in DOMAIN iv : iv[k][1] \in Nat /\ iv[k][2] \in Nat /\ iv[k][1] <= iv[k][2] /\ iv[k][2] <= u
  BY <1>1 DEF Tidy
<1>6. jv[n + 1][1] = u /\ jv[n + 1][2] = b  BY <1>2
<1>7. \A k \in DOMAIN jv : jv[k][1] <= jv[k][2] /\ jv[k][2] <= b
  <2>1. ASSUME NEW k \in DOMAIN iv PROVE jv[k][1] <= jv[k][2] /\ jv[k][2] <= b
    <3>1. jv[k] = iv[k]  BY <1>1, <1>2
    <3>2. iv[k][1] \in Nat /\ iv[k][2] \in Nat /\ iv[k][1] <= iv[k][2] /\ iv[k][2] <= u
      BY <1>5
    <3>3. iv[k][2] <= b  BY <3>2
    <3> QED BY <3>1, <3>2, <3>3
  <2> QED BY <1>3, <1>6, <2>1
<1>8. \A k \in DOMAIN iv : Span(iv[k]) \cap (u .. b - 1) = {}
  BY <1>5 DEF Span
<1>9. Span(jv[n + 1]) = u .. b - 1  BY <1>6 DEF Span
<1>10. ASSUME NEW j \in DOMAIN jv, NEW k \in DOMAIN jv, j # k
       PROVE  Span(jv[j]) \cap Span(jv[k]) = {}
  <2>1. CASE j \in DOMAIN iv /\ k \in DOMAIN iv
    BY <1>1, <1>2, <1>10, <2>1 DEF Tidy
  <2>2. CASE j \in DOMAIN iv /\ k = n + 1
    <3>1. jv[j] = iv[j]  BY <1>1, <1>2, <2>2
    <3> QED BY <1>8, <1>9, <2>2, <3>1
  <2>3. CASE j = n + 1 /\ k \in DOMAIN iv
    <3>1. jv[k] = iv[k]  BY <1>1, <1>2, <2>3
    <3> QED BY <1>8, <1>9, <2>3, <3>1
  <2> QED BY <1>3, <1>10, <2>1, <2>2, <2>3
<1>11. Covered(jv) = Covered(iv) \cup (u .. b - 1)
  <2>1. \A k \in DOMAIN iv : jv[k] = iv[k] /\ k \in DOMAIN jv  BY <1>1, <1>2
  <2> QED BY <1>3, <1>4, <1>9, <2>1 DEF Covered
<1>12. Tidy(jv, b)  BY <1>2, <1>7, <1>10 DEF Tidy
<1> QED BY <1>11, <1>12 DEF jv

\* Their lengths add up to the seconds they cover.
LEMMA TidySum ==
  ASSUME NEW iv, NEW b \in Nat, Tidy(iv, b)
  PROVE  AliveSec(iv) = Cardinality(Covered(iv))
<1> DEFINE n == Len(iv)
           D == 1 .. n
           s == [k \in DOMAIN iv |-> Length(iv[k])]
           I == [k \in D |-> Span(iv[k])]
           c == LastOf(n)
<1>1. iv \in Seq(Nat \X Nat) /\ n \in Nat /\ DOMAIN iv = D /\ IsFiniteSet(D)
  <2>1. iv \in Seq(Nat \X Nat) /\ n \in Nat /\ DOMAIN iv = D  BY DEF Tidy
  <2> QED BY <2>1, IntervalSize
<1>2. \A k \in D : iv[k][1] \in Nat /\ iv[k][2] \in Nat /\ iv[k][1] <= iv[k][2]
  BY <1>1 DEF Tidy
<1>3. s \in Seq(Int) /\ Len(s) = n
  <2>1. s \in [1 .. n -> Int]  BY <1>1, <1>2 DEF Length
  <2>3. n \in Nat  BY <1>1
  <2> HIDE DEF s, n
  <2>2. s \in Seq(Int)  BY <2>1, <2>3
  <2> QED BY <1>1, <2>1, <2>2
<1>4. ASSUME NEW k \in D PROVE IsFiniteSet(I[k]) /\ s[k] = Cardinality(I[k])
  <2>1. s[k] = iv[k][2] - iv[k][1] /\ I[k] = iv[k][1] .. iv[k][2] - 1
    BY <1>1 DEF Length, Span
  <2> DEFINE x == iv[k][1]
             y == iv[k][2]
  <2>2. x \in Nat /\ y \in Nat /\ x <= y  BY <1>2
  <2> HIDE DEF x, y
  <2>3. /\ IsFiniteSet(x .. y - 1)
        /\ Cardinality(x .. y - 1) = IF x > y - 1 THEN 0 ELSE (y - 1) - x + 1
    <3>1. x \in Int /\ y - 1 \in Int  BY <2>2
    <3> QED BY <3>1, FS_Interval
  <2>4. Cardinality(x .. y - 1) = y - x  BY <2>2, <2>3
  <2> QED BY <2>1, <2>3, <2>4 DEF x, y
<1>5. \A j, k \in D : j # k => I[j] \cap I[k] = {}  BY <1>1 DEF Tidy
<1>6. CountsEach(s, D, I)
  <2> HIDE DEF s, I, D
  <2> QED BY <1>4, <1>5 DEF CountsEach
<1>7. Takes(c, D)  BY <1>1, LastFirst
<1>8. AllOf(I, D) = Covered(iv)
  <2>1. \A k \in D : I[k] = Span(iv[k])  OBVIOUS
  <2> HIDE DEF I
  <2> QED BY <1>1, <2>1 DEF AllOf, Covered
<1>9. AliveSec(iv) = FoldLeft(+, 0, s)  BY DEF AliveSec
<1> HIDE DEF s, I, D
<1>10. PICK h : IsSum(h, D, c, s) /\ FoldLeft(+, 0, s) = h[D]
  BY <1>3, FoldLeftSums DEF D
<1>11. h[D] = Cardinality(AllOf(I, D))  BY <1>1, <1>6, <1>7, <1>10, SumCounts
<1> QED BY <1>8, <1>9, <1>10, <1>11

\* The first k rows say that the process is alive at t; the time of the last of them.
AliveBy(l, k, t) ==
    \E i \in 1 .. k :
        /\ l[i].at <= t /\ l[i].event # "gone"
        /\ \A j \in 1 .. k : l[j].at <= t => j <= i
At(l, k) == IF k = 0 THEN 0 ELSE l[k].at

\* A further row decides from its time on.
LEMMA OneMoreRow ==
  ASSUME NEW l, NEW k \in Nat, NEW t \in Nat,
         \A i \in 1 .. k + 1 : l[i].at \in Nat
  PROVE  AliveBy(l, k + 1, t) <=>
            IF t < l[k + 1].at THEN AliveBy(l, k, t) ELSE l[k + 1].event # "gone"
<1>1. k + 1 \in 1 .. k + 1 /\ \A i \in 1 .. k : i \in 1 .. k + 1 /\ i <= k + 1
  OBVIOUS
<1>2. \A i \in 1 .. k + 1 : i <= k + 1 /\ (i \in 1 .. k \/ i = k + 1) /\ (k + 1 <= i => i = k + 1)
  OBVIOUS
<1>3. CASE t < l[k + 1].at
  <2>1. ~(l[k + 1].at <= t)  BY <1>1, <1>3
  <2>2. ASSUME AliveBy(l, k, t) PROVE AliveBy(l, k + 1, t)
    <3>1. PICK i \in 1 .. k : /\ l[i].at <= t /\ l[i].event # "gone"
                             /\ \A j \in 1 .. k : l[j].at <= t => j <= i
      BY <2>2 DEF AliveBy
    <3> QED BY <1>1, <1>2, <2>1, <3>1 DEF AliveBy
  <2>3. ASSUME AliveBy(l, k + 1, t) PROVE AliveBy(l, k, t)
    <3>1. PICK i \in 1 .. k + 1 : /\ l[i].at <= t /\ l[i].event # "gone"
                                 /\ \A j \in 1 .. k + 1 : l[j].at <= t => j <= i
      BY <2>3 DEF AliveBy
    <3>2. i \in 1 .. k  BY <1>2, <2>1, <3>1
    <3> QED BY <1>1, <3>1, <3>2 DEF AliveBy
  <2> QED BY <1>3, <2>2, <2>3
<1>4. CASE ~(t < l[k + 1].at)
  <2>1. l[k + 1].at <= t  BY <1>1, <1>4
  <2>2. ASSUME l[k + 1].event # "gone" PROVE AliveBy(l, k + 1, t)
    BY <1>1, <1>2, <2>1, <2>2 DEF AliveBy
  <2>3. ASSUME AliveBy(l, k + 1, t) PROVE l[k + 1].event # "gone"
    BY <1>1, <1>2, <2>1, <2>3 DEF AliveBy
  <2> QED BY <1>4, <2>2, <2>3
<1> QED BY <1>3, <1>4

\* What is known after the first k rows: the intervals that are over, the one that is
\* not, the first sight, and the last if the process is gone.
LifeInv(l, k, st) ==
    /\ st \in LifeStates
    /\ At(l, k) \in 0 .. RunEnd
    /\ st.since # Unset => st.since <= At(l, k)
    /\ Tidy(st.intervals, IF st.since = Unset THEN At(l, k) ELSE st.since)
    /\ \A t \in 0 .. RunEnd - 1 :
          AliveBy(l, k, t) <=> t \in Covered(st.intervals) \/ (st.since # Unset /\ st.since <= t)
    /\ IF st.intervals = <<>> THEN st.first = st.since
       ELSE /\ st.first = st.intervals[1][1]
            /\ st.since = Unset => st.last = st.intervals[Len(st.intervals)][2]

\* Nothing is covered beyond the end.
LEMMA CoveredBefore ==
  ASSUME NEW iv, NEW b \in Nat, Tidy(iv, b), NEW t \in Covered(iv)
  PROVE  t \in Nat /\ t < b
<1>1. PICK k \in DOMAIN iv : t \in Span(iv[k])  BY DEF Covered
<1>2. iv \in Seq(Nat \X Nat) /\ iv[k][2] <= b  BY DEF Tidy
<1>3. iv[k][1] \in Nat /\ iv[k][2] \in Nat  BY <1>2
<1> QED BY <1>1, <1>2, <1>3 DEF Span

\* What ends later than b may be said to end by b.
LEMMA TidyLater ==
  ASSUME NEW iv, NEW a \in Nat, NEW b \in Nat, Tidy(iv, a), a <= b
  PROVE  Tidy(iv, b)
<1>1. iv \in Seq(Nat \X Nat)  BY DEF Tidy
<1>2. \A k \in DOMAIN iv : iv[k][2] \in Nat  BY <1>1
<1> QED BY <1>2 DEF Tidy

\* The last and the first of the intervals, when one is appended.
LEMMA Ends ==
  ASSUME NEW iv \in Seq(Nat \X Nat), NEW x \in Nat \X Nat
  PROVE  LET jv == Append(iv, x) IN
         /\ jv # <<>> /\ jv[Len(jv)] = x
         /\ jv[1] = IF iv = <<>> THEN x ELSE iv[1]
<1>1. Append(iv, x) \in Seq(Nat \X Nat) /\ Len(Append(iv, x)) = Len(iv) + 1 /\ Len(iv) \in Nat
  OBVIOUS
<1>2. Append(iv, x)[Len(iv) + 1] = x  OBVIOUS
<1>3. Append(iv, x) # <<>>
  <2>1. Len(Append(iv, x)) # 0  BY <1>1
  <2>2. Len(<<>>) = 0  OBVIOUS
  <2> QED BY <2>1, <2>2
<1>4. iv # <<>> => 1 \in 1 .. Len(iv)  OBVIOUS
<1>5. iv = <<>> => Len(iv) + 1 = 1  OBVIOUS
<1>6. \A k \in 1 .. Len(iv) : Append(iv, x)[k] = iv[k]  OBVIOUS
<1> QED BY <1>1, <1>2, <1>3, <1>4, <1>5, <1>6

\* The start of the first interval is a time.
LEMMA FirstIsNat ==
  ASSUME NEW iv \in Seq(Nat \X Nat), iv # <<>>
  PROVE  iv[1][1] \in Nat
<1>1. 1 \in DOMAIN iv  OBVIOUS
<1>2. iv[1] \in Nat \X Nat  BY <1>1
<1> QED BY <1>2

\* One more row keeps what is known.
LEMMA LivesStep ==
  ASSUME NEW l, NEW k \in Nat, NEW st, LifeInv(l, k, st),
         \A i \in 1 .. k + 1 : l[i].at \in Nat,
         l[k + 1] \in LifeRows, At(l, k) <= l[k + 1].at
  PROVE  LifeInv(l, k + 1, Lives(st, l[k + 1]))
<1> DEFINE row == l[k + 1]
           a == l[k + 1].at
           new == Lives(st, l[k + 1])
           iv == st.intervals
           u == st.since
<1>1. a \in 0 .. RunEnd /\ a \in Nat /\ At(l, k + 1) = a /\ At(l, k) \in Nat /\ RunEnd \in Nat
  <2>1. k + 1 # 0  OBVIOUS
  <2> QED BY <2>1, PerfReportAssumption DEF LifeRows, At, LifeInv
<1>2. new \in LifeStates  BY LivesType DEF LifeInv
<1>3. st = [first |-> st.first, last |-> st.last, since |-> u, intervals |-> iv]
  BY DEF LifeStates, LifeInv
<1>4. iv \in Seq(Nat \X Nat) /\ u \in Nat \cup {Unset} /\ Unset \notin Nat
  BY DEF LifeInv, LifeStates, Unset
<1>5. ASSUME NEW t \in 0 .. RunEnd - 1
      PROVE  AliveBy(l, k + 1, t) <=>
               IF t < a THEN t \in Covered(iv) \/ (u # Unset /\ u <= t) ELSE row.event # "gone"
  <2>1. t \in Nat  BY <1>1
  <2>2. AliveBy(l, k, t) <=> t \in Covered(iv) \/ (u # Unset /\ u <= t)  BY DEF LifeInv
  <2> QED BY <2>1, <2>2, OneMoreRow
<1>6. \A t \in Covered(iv) : t \in Nat /\ t < a /\ (u # Unset => t < u)
  <2>1. CASE u = Unset
    <3>1. Tidy(iv, At(l, k))  BY <2>1 DEF LifeInv
    <3>2. \A t \in Covered(iv) : t \in Nat /\ t < At(l, k)  BY <1>1, <3>1, CoveredBefore
    <3> QED BY <1>1, <2>1, <3>2
  <2>2. CASE u # Unset
    <3>1. Tidy(iv, u) /\ u \in Nat /\ u <= At(l, k)  BY <1>4, <2>2 DEF LifeInv
    <3>2. \A t \in Covered(iv) : t \in Nat /\ t < u  BY <3>1, CoveredBefore
    <3> QED BY <1>1, <3>1, <3>2
  <2> QED BY <2>1, <2>2
<1>7. /\ iv = <<>> => st.first = u
      /\ iv # <<>> => st.first = iv[1][1]
      /\ iv # <<>> /\ u = Unset => st.last = iv[Len(iv)][2]
  BY DEF LifeInv
<1> HIDE DEF row, a, new, iv, u
<1>8. CASE row.event = "gone" /\ u = Unset
  <2>1. new = st  BY <1>8 DEF Lives, new, row, u
  <2>2. Tidy(iv, a)
    <3>1. Tidy(iv, At(l, k))  BY <1>8 DEF LifeInv, iv, u
    <3> QED BY <1>1, <3>1, TidyLater DEF a
  <2>3. \A t \in 0 .. RunEnd - 1 : AliveBy(l, k + 1, t) <=> t \in Covered(iv)
    BY <1>1, <1>5, <1>6, <1>8
  <2> QED BY <1>1, <1>2, <1>7, <1>8, <2>1, <2>2, <2>3 DEF LifeInv, iv, u, new
<1>9. CASE row.event = "gone" /\ u # Unset
  <2> DEFINE jv == Append(iv, <<u, a>>)
  <2>1. new = [first |-> st.first, last |-> a, since |-> Unset, intervals |-> jv]
    BY <1>3, <1>9 DEF Lives, new, row, u, a, iv
  <2>2. u \in Nat /\ u <= a /\ Tidy(iv, u)
    <3>1. u \in Nat /\ u <= At(l, k) /\ Tidy(iv, u)  BY <1>4, <1>9 DEF LifeInv, u, iv
    <3> QED BY <1>1, <3>1 DEF a
  <2>3. Tidy(jv, a) /\ Covered(jv) = Covered(iv) \cup (u .. a - 1)
    BY <1>1, <2>2, AppendTidy
  <2>4. /\ jv # <<>> /\ jv[Len(jv)] = <<u, a>>
        /\ jv[1] = IF iv = <<>> THEN <<u, a>> ELSE iv[1]
    <3>1. <<u, a>> \in Nat \X Nat  BY <1>1, <2>2
    <3> QED BY <1>4, <3>1, Ends
  <2> HIDE DEF jv
  <2>5. \A t \in 0 .. RunEnd - 1 : AliveBy(l, k + 1, t) <=> t \in Covered(jv)
    <3> SUFFICES ASSUME NEW t \in 0 .. RunEnd - 1
                 PROVE  AliveBy(l, k + 1, t) <=> t \in Covered(jv)
      OBVIOUS
    <3>1. t \in u .. a - 1 <=> u <= t /\ t < a  BY <1>1, <2>2
    <3> QED BY <1>1, <1>5, <1>6, <1>9, <2>3, <3>1
  <2>6. st.first = jv[1][1] /\ jv[Len(jv)][2] = a
    <3>1. <<u, a>>[1] = u /\ <<u, a>>[2] = a  OBVIOUS
    <3>2. CASE iv = <<>>
      <4>1. jv[1] = <<u, a>> /\ st.first = u  BY <1>7, <2>4, <3>2
      <4>2. jv[1][1] = u  BY <4>1
      <4>3. jv[Len(jv)][2] = a  BY <2>4
      <4> QED BY <4>1, <4>2, <4>3
    <3>3. CASE iv # <<>>
      <4>1. jv[1] = iv[1] /\ st.first = iv[1][1]  BY <1>7, <2>4, <3>3
      <4>2. jv[Len(jv)][2] = a  BY <2>4
      <4> QED BY <4>1, <4>2
    <3> QED BY <3>2, <3>3
  <2>7. new.since = Unset /\ new.intervals = jv /\ new.first = st.first /\ new.last = a  BY <2>1
  <2> QED BY <1>1, <1>2, <2>3, <2>4, <2>5, <2>6, <2>7 DEF LifeInv, new
<1>10. CASE row.event # "gone" /\ u = Unset
  <2>1. new = [first |-> IF st.first = Unset THEN a ELSE st.first, last |-> st.last,
               since |-> a, intervals |-> iv]
    BY <1>3, <1>10 DEF Lives, new, row, u, a, iv
  <2>2. Tidy(iv, a)
    <3>1. Tidy(iv, At(l, k))  BY <1>10 DEF LifeInv, iv, u
    <3> QED BY <1>1, <3>1, TidyLater DEF a
  <2>3. \A t \in 0 .. RunEnd - 1 :
           AliveBy(l, k + 1, t) <=> t \in Covered(iv) \/ (a # Unset /\ a <= t)
    BY <1>1, <1>4, <1>5, <1>6, <1>10
  <2>4. iv # <<>> => st.first # Unset
    <3>1. iv # <<>> => iv[1][1] \in Nat  BY <1>4, FirstIsNat
    <3> QED BY <1>4, <1>7, <3>1
  <2>5. new.since = a /\ new.intervals = iv /\ a # Unset
        /\ new.first = IF st.first = Unset THEN a ELSE st.first
    BY <1>1, <1>4, <2>1
  <2>6. a <= a  BY <1>1
  <2>7. IF iv = <<>> THEN new.first = new.since ELSE new.first = iv[1][1]
    BY <1>7, <1>10, <2>4, <2>5
  <2>8. Tidy(new.intervals, IF new.since = Unset THEN At(l, k + 1) ELSE new.since)
    BY <2>2, <2>5
  <2> QED BY <1>1, <1>2, <2>3, <2>5, <2>6, <2>7, <2>8 DEF LifeInv, new
<1>11. CASE row.event # "gone" /\ u # Unset
  <2>1. st.first # Unset
    <3>1. iv # <<>> => iv[1][1] \in Nat  BY <1>4, FirstIsNat
    <3> QED BY <1>4, <1>7, <1>11, <3>1
  <2>2. new = st  BY <1>3, <1>11, <2>1 DEF Lives, new, row, u, a, iv
  <2>3. u \in Nat /\ u <= At(l, k) /\ Tidy(iv, u)  BY <1>4, <1>11 DEF LifeInv, u, iv
  <2>4. u <= a  BY <1>1, <2>3 DEF a
  <2>5. \A t \in 0 .. RunEnd - 1 :
           AliveBy(l, k + 1, t) <=> t \in Covered(iv) \/ (u # Unset /\ u <= t)
    BY <1>1, <1>5, <1>6, <1>11, <2>3, <2>4
  <2> QED BY <1>1, <1>2, <1>7, <1>11, <2>2, <2>3, <2>4, <2>5 DEF LifeInv, iv, u, new
<1> QED BY <1>8, <1>9, <1>10, <1>11 DEF new

\* A lifecycle is a sequence of rows, at increasing times.
LEMMA LifecycleRows ==
  ASSUME NEW l \in Lifecycle
  PROVE  /\ l \in Seq(LifeRows)
         /\ \A k \in Nat : k + 1 \in 1 .. Len(l) => At(l, k) <= l[k + 1].at
<1>1. l \in UNION {[1 .. n -> [at : 0 .. RunEnd, event : {"new", "restart", "gone"}]]
                  : n \in 0 .. MaxEvents}
  BY DEF Lifecycle
<1>2. PICK n \in 0 .. MaxEvents : l \in [1 .. n -> LifeRows]
  BY <1>1 DEF LifeRows, LifeEvents
<1>3. n \in Nat  BY PerfReportAssumption
<1>4. l \in Seq(LifeRows) /\ Len(l) = n /\ DOMAIN l = 1 .. n  BY <1>2, <1>3
<1>5. \A i \in DOMAIN l : i # 1 => l[i - 1].at < l[i].at
  BY DEF Lifecycle
<1>6. \A i \in DOMAIN l : l[i].at \in Nat
  <2>1. \A row \in LifeRows : row.at \in Nat  BY PerfReportAssumption DEF LifeRows
  <2>2. \A i \in DOMAIN l : l[i] \in LifeRows  BY <1>4
  <2> QED BY <2>1, <2>2
<1>7. ASSUME NEW k \in Nat, k + 1 \in 1 .. Len(l) PROVE At(l, k) <= l[k + 1].at
  <2>1. CASE k = 0
    <3>1. l[k + 1].at \in Nat  BY <1>4, <1>6, <1>7
    <3> QED BY <2>1, <3>1 DEF At
  <2>2. CASE k # 0
    <3>1. k + 1 \in DOMAIN l /\ k + 1 # 1 /\ (k + 1) - 1 = k /\ k \in DOMAIN l  BY <1>4, <1>7, <2>2
    <3>2. l[k].at < l[k + 1].at  BY <1>5, <3>1
    <3>3. l[k].at \in Nat /\ l[k + 1].at \in Nat  BY <1>6, <3>1
    <3> QED BY <2>2, <3>2, <3>3 DEF At
  <2> QED BY <2>1, <2>2
<1> QED BY <1>4, <1>7

\* So it is when all rows are read.
LEMMA LivesSound ==
  ASSUME NEW l \in Lifecycle
  PROVE  LifeInv(l, Len(l), FoldLeft(Lives, Unseen, l))
<1>1. l \in Seq(LifeRows)  BY LifecycleRows
<1>2. PICK f : LivesUnfolds(f, l) /\ f[Len(l)] = FoldLeft(Lives, Unseen, l)
  BY <1>1, LivesUnfold
<1> DEFINE T == {n \in Nat : n <= Len(l) => LifeInv(l, n, f[n])}
<1>3. 0 \in T
  <2>1. f[0] = Unseen  BY <1>2 DEF LivesUnfolds
  <2>2. Unseen \in LifeStates /\ Unseen.since = Unset /\ Unseen.intervals = <<>>
        /\ Unseen.first = Unset
    <3>1. <<>> \in Seq(Nat \X Nat)  OBVIOUS
    <3> QED BY <3>1 DEF LifeStates, Unseen, Unset
  <2>3. Tidy(<<>>, 0)
    <3>1. <<>> \in Seq(Nat \X Nat) /\ DOMAIN <<>> = {}  OBVIOUS
    <3> QED BY <3>1 DEF Tidy
  <2>4. Covered(<<>>) = {}  BY DEF Covered
  <2>5. At(l, 0) = 0 /\ 0 \in 0 .. RunEnd  BY PerfReportAssumption DEF At
  <2>6. \A t : ~AliveBy(l, 0, t)  BY DEF AliveBy
  <2>7. LifeInv(l, 0, Unseen)  BY <2>2, <2>3, <2>4, <2>5, <2>6 DEF LifeInv
  <2> QED BY <2>1, <2>7
<1>4. ASSUME NEW n \in Nat, n \in T PROVE n + 1 \in T
  <2> SUFFICES ASSUME n + 1 <= Len(l) PROVE LifeInv(l, n + 1, f[n + 1])
    OBVIOUS
  <2>1. Len(l) \in Nat /\ DOMAIN l = 1 .. Len(l)  BY <1>1
  <2>2. n + 1 \in 1 .. Len(l) /\ n <= Len(l) /\ (n + 1) - 1 = n  BY <2>1
  <2>3. LifeInv(l, n, f[n])  BY <1>4, <2>2
  <2>4. l[n + 1] \in LifeRows /\ \A i \in 1 .. n + 1 : l[i].at \in Nat
    <3>1. \A i \in 1 .. n + 1 : i \in DOMAIN l  BY <2>1, <2>2
    <3>2. \A i \in 1 .. n + 1 : l[i] \in LifeRows  BY <1>1, <3>1
    <3> QED BY <2>2, <3>2, PerfReportAssumption DEF LifeRows
  <2>5. At(l, n) <= l[n + 1].at  BY <2>2, LifecycleRows
  <2>6. f[n + 1] = Lives(f[n], l[n + 1])
    <3>1. f[n + 1] = Lives(f[(n + 1) - 1], l[n + 1])  BY <1>2, <2>2 DEF LivesUnfolds
    <3> QED BY <2>2, <3>1
  <2> QED BY <2>3, <2>4, <2>5, <2>6, LivesStep
<1>5. \A n \in Nat : n \in T
  <2> HIDE DEF T
  <2> QED BY <1>3, <1>4, ByInduction
<1>6. Len(l) \in Nat /\ Len(l) <= Len(l)  BY <1>1
<1> QED BY <1>2, <1>5, <1>6

\* What _alive_intervals makes of a lifecycle.
LEMMA AliveSound ==
  ASSUME NEW l \in Lifecycle
  PROVE  LET alive == AliveIntervals(l) IN
         /\ Tidy(alive.intervals, RunEnd)
         /\ \A t \in 0 .. RunEnd - 1 : AliveBy(l, Len(l), t) <=> t \in Covered(alive.intervals)
         /\ alive.intervals # <<>> =>
              /\ alive.first = alive.intervals[1][1]
              /\ alive.last = alive.intervals[Len(alive.intervals)][2]
<1> DEFINE st == FoldLeft(Lives, Unseen, l)
           iv == st.intervals
           u == st.since
           n == Len(l)
           alive == AliveIntervals(l)
<1>1. LifeInv(l, n, st)  BY LivesSound
<1>2. alive = IF u = Unset THEN st
              ELSE [st EXCEPT !.last = RunEnd, !.intervals = Append(@, <<u, RunEnd>>)]
  BY DEF AliveIntervals, Unseen
<1> HIDE DEF alive, st
<1>3. st = [first |-> st.first, last |-> st.last, since |-> u, intervals |-> iv]
  BY <1>1 DEF LifeStates, LifeInv
<1>4. iv \in Seq(Nat \X Nat) /\ u \in Nat \cup {Unset} /\ Unset \notin Nat
  BY <1>1 DEF LifeInv, LifeStates, Unset
<1>5. /\ RunEnd \in Nat /\ At(l, n) \in Nat /\ At(l, n) <= RunEnd
  BY <1>1, PerfReportAssumption DEF LifeInv
<1>6. /\ iv = <<>> => st.first = u
      /\ iv # <<>> => st.first = iv[1][1]
      /\ iv # <<>> /\ u = Unset => st.last = iv[Len(iv)][2]
  BY <1>1 DEF LifeInv
<1>7. \A t \in 0 .. RunEnd - 1 : AliveBy(l, n, t) <=> t \in Covered(iv) \/ (u # Unset /\ u <= t)
  BY <1>1 DEF LifeInv
<1> HIDE DEF iv, u, n
<1>8. CASE u = Unset
  <2>1. alive.first = st.first /\ alive.last = st.last /\ alive.intervals = iv
    BY <1>2, <1>8 DEF iv
  <2>2. Tidy(iv, At(l, n))  BY <1>1, <1>8 DEF LifeInv, iv, u
  <2>3. Tidy(iv, RunEnd)  BY <1>5, <2>2, TidyLater
  <2> QED BY <1>6, <1>7, <1>8, <2>1, <2>3 DEF alive, n
<1>9. CASE u # Unset
  <2> DEFINE jv == Append(iv, <<u, RunEnd>>)
  <2>1. alive.first = st.first /\ alive.last = RunEnd /\ alive.intervals = jv
    <3>1. alive = [first |-> st.first, last |-> RunEnd, since |-> u, intervals |-> jv]
      BY <1>2, <1>3, <1>9 DEF iv, u
    <3> QED BY <3>1
  <2>2. u \in Nat /\ u <= RunEnd /\ Tidy(iv, u)
    <3>1. u \in Nat /\ u <= At(l, n) /\ Tidy(iv, u)  BY <1>1, <1>4, <1>9 DEF LifeInv, u, iv
    <3> QED BY <1>5, <3>1
  <2>3. Tidy(jv, RunEnd) /\ Covered(jv) = Covered(iv) \cup (u .. RunEnd - 1)
    BY <1>5, <2>2, AppendTidy
  <2>4. /\ jv # <<>> /\ jv[Len(jv)] = <<u, RunEnd>>
        /\ jv[1] = IF iv = <<>> THEN <<u, RunEnd>> ELSE iv[1]
    <3>1. <<u, RunEnd>> \in Nat \X Nat  BY <1>5, <2>2
    <3> QED BY <1>4, <3>1, Ends
  <2> HIDE DEF jv
  <2>5. \A t \in 0 .. RunEnd - 1 : AliveBy(l, n, t) <=> t \in Covered(jv)
    <3> SUFFICES ASSUME NEW t \in 0 .. RunEnd - 1
                 PROVE  AliveBy(l, n, t) <=> t \in Covered(jv)
      OBVIOUS
    <3>1. t \in u .. RunEnd - 1 <=> u <= t  BY <1>5, <2>2
    <3> QED BY <1>7, <1>9, <2>3, <3>1
  <2>6. st.first = jv[1][1] /\ jv[Len(jv)][2] = RunEnd
    <3>1. <<u, RunEnd>>[1] = u /\ <<u, RunEnd>>[2] = RunEnd  OBVIOUS
    <3>2. CASE iv = <<>>
      <4>1. jv[1] = <<u, RunEnd>> /\ st.first = u  BY <1>6, <2>4, <3>2
      <4>2. jv[1][1] = u  BY <4>1
      <4>3. jv[Len(jv)][2] = RunEnd  BY <2>4
      <4> QED BY <4>1, <4>2, <4>3
    <3>3. CASE iv # <<>>
      <4>1. jv[1] = iv[1] /\ st.first = iv[1][1]  BY <1>6, <2>4, <3>3
      <4>2. jv[Len(jv)][2] = RunEnd  BY <2>4
      <4> QED BY <4>1, <4>2
    <3> QED BY <3>2, <3>3
  <2> QED BY <2>1, <2>3, <2>5, <2>6 DEF alive, n
<1> QED BY <1>8, <1>9

StatsTypes ==
    /\ stats = [files |-> stats.files, life |-> stats.life, incidents |-> stats.incidents,
                failed |-> stats.failed, built |-> stats.built, report |-> stats.report]
    /\ stats.files \in CpuFiles \X CpuFiles /\ stats.life \in Lifecycle
    /\ stats.incidents \in [Processes -> [cpu : 0 .. 1, mem : 0 .. 1]]
    /\ stats.failed \in SUBSET Processes /\ stats.built \in BOOLEAN
StatsInv ==
    /\ StatsTypes
    /\ stats.built => stats.report = SetToSeq({BuildProcess(p) : p \in Reported})

\* It is so before the report is built.
LEMMA StatsStart == StatsInit => StatsInv
BY DEF StatsInit, StatsInv, StatsTypes

\* Building the report changes nothing it is made of.
LEMMA StatsStep == StatsInv /\ [PerfReportNext]_perfReportVars => StatsInv'
<1> SUFFICES ASSUME StatsInv, [PerfReportNext]_perfReportVars PROVE StatsInv'
  OBVIOUS
<1>1. ASSUME stats'.files = stats.files, stats'.life = stats.life,
             stats'.incidents = stats.incidents, stats'.failed = stats.failed
      PROVE  {BuildProcess(p) : p \in Reported}' = {BuildProcess(p) : p \in Reported}
  <2>1. Readable' = Readable  BY <1>1 DEF Readable
  <2>2. \A p : RowsOf(p)' = RowsOf(p)  BY <1>1, <2>1 DEF RowsOf
  <2>3. Reported' = Reported  BY <1>1, <2>2 DEF Reported
  <2>4. \A p : BuildProcess(p)' = BuildProcess(p)  BY <1>1, <2>2 DEF BuildProcess
  <2> QED BY <2>3, <2>4
<1>2. CASE UNCHANGED stats
  <2>1. stats' = stats  BY <1>2
  <2>2. StatsTypes'  BY <2>1 DEF StatsInv, StatsTypes
  <2> QED BY <1>1, <2>1, <2>2 DEF StatsInv
<1>3. CASE Build
  <2>1. stats' = [files |-> stats.files, life |-> stats.life, incidents |-> stats.incidents,
                  failed |-> stats.failed, built |-> TRUE,
                  report |-> SetToSeq({BuildProcess(p) : p \in Reported})]
    BY <1>3 DEF Build, StatsInv, StatsTypes
  <2>2. StatsTypes'  BY <2>1 DEF StatsInv, StatsTypes
  <2>3. stats'.files = stats.files /\ stats'.life = stats.life
        /\ stats'.incidents = stats.incidents /\ stats'.failed = stats.failed
        /\ stats'.report = SetToSeq({BuildProcess(p) : p \in Reported})
    BY <2>1
  <2> QED BY <1>1, <2>2, <2>3 DEF StatsInv
<1> QED BY <1>2, <1>3 DEF PerfReportNext, CpuStep, Burn, Replace, ReadProcess, ReadTotal, ReadFails, perfReportVars

\* A finite set as a sequence: each of its elements once.
LEMMA SetAsSeq ==
  ASSUME NEW S, IsFiniteSet(S)
  PROVE  LET s == SetToSeq(S) IN
         /\ Cardinality(S) \in Nat /\ s \in [1 .. Cardinality(S) -> S]
         /\ \A i, j \in 1 .. Cardinality(S) : s[i] = s[j] => i = j
         /\ \A x \in S : \E i \in 1 .. Cardinality(S) : s[i] = x
<1> DEFINE n == Cardinality(S)
           s == SetToSeq(S)
           Is(f) == f \in [1 .. n -> S] /\ IsInjective(f)
<1>1. n \in Nat /\ ExistsBijection(1 .. n, S)  BY FS_CardinalityType
<1>2. \E f : Is(f)
  <2>1. PICK f : f \in Bijection(1 .. n, S)  BY <1>1 DEF ExistsBijection
  <2> HIDE DEF n
  <2>2. f \in [1 .. n -> S] /\ IsInjective(f)  BY <2>1 DEF Bijection, Injection, IsInjective
  <2> QED BY <2>2
<1>3. Is(s)
  <2>1. s = CHOOSE f \in [1 .. n -> S] : IsInjective(f)  BY DEF SetToSeq
  <2> HIDE DEF n, s
  <2> QED BY <1>2, <2>1
<1>4. IsFiniteSet(1 .. n) /\ Cardinality(1 .. n) = n  BY <1>1, IntervalSize
<1>5. s \in Injection(1 .. n, S)
  <2> HIDE DEF n, s
  <2> QED BY <1>3 DEF Injection, IsInjective
<1>6. s \in Surjection(1 .. n, S)  BY <1>4, <1>5, FS_Injection
<1> HIDE DEF s
<1>7. /\ s \in [1 .. n -> S]
      /\ \A i, j \in 1 .. n : s[i] = s[j] => i = j
      /\ \A x \in S : \E i \in 1 .. n : s[i] = x
  <2> HIDE DEF n
  <2> QED BY <1>3, <1>6 DEF IsInjective, Surjection
<1> QED BY <1>1, <1>7 DEF s

\* What an entry says.
LEMMA EntryFields ==
  ASSUME NEW p
  PROVE  /\ BuildProcess(p).name = p /\ BuildProcess(p).samples = Cardinality(RowsOf(p))
         /\ BuildProcess(p).alerts = stats.incidents[p]
         /\ BuildProcess(p).alive = AliveIntervals(stats.life)
BY DEF BuildProcess

\* The report has an entry for each process that it is about, and no other.
Entries(n) ==
    /\ n \in Nat /\ DOMAIN stats.report = 1 .. n
    /\ \A i \in 1 .. n : stats.report[i].name \in Reported
                         /\ stats.report[i] = BuildProcess(stats.report[i].name)
    /\ \A i, j \in 1 .. n : i # j => stats.report[i].name # stats.report[j].name
    /\ \A p \in Reported : \E i \in 1 .. n : stats.report[i].name = p

\* So it is when it is built.
LEMMA ReportEntries ==
  ASSUME StatsInv, stats.built
  PROVE  \E n : Entries(n)
<1> DEFINE S == {BuildProcess(p) : p \in Reported}
           n == Cardinality(S)
           s == stats.report
<1>1. s = SetToSeq(S)  BY DEF StatsInv
<1>2. \A p : BuildProcess(p).name = p  BY DEF BuildProcess
<1>3. IsFiniteSet(S)
  <2> DEFINE f == [p \in Reported |-> BuildProcess(p)]
  <2>1. f \in Surjection(Reported, S)  BY DEF Surjection
  <2>2. Reported \in SUBSET Processes  BY DEF Reported
  <2>3. IsFiniteSet(Reported)  BY <2>2, PerfReportAssumption, FS_Subset
  <2> HIDE DEF f, S
  <2> QED BY <2>1, <2>3, FS_Surjection
<1>4. /\ n \in Nat /\ s \in [1 .. n -> S]
      /\ \A i, j \in 1 .. n : s[i] = s[j] => i = j
      /\ \A x \in S : \E i \in 1 .. n : s[i] = x
  <2> HIDE DEF S
  <2> QED BY <1>1, <1>3, SetAsSeq
<1> HIDE DEF n, s
<1>5. ASSUME NEW i \in 1 .. n PROVE s[i].name \in Reported /\ s[i] = BuildProcess(s[i].name)
  <2>1. PICK p \in Reported : s[i] = BuildProcess(p)  BY <1>4
  <2> QED BY <1>2, <2>1
<1>6. \A i, j \in 1 .. n : i # j => s[i].name # s[j].name  BY <1>4, <1>5
<1>7. \A p \in Reported : \E i \in 1 .. n : s[i].name = p
  <2> TAKE p \in Reported
  <2>1. BuildProcess(p) \in S  OBVIOUS
  <2>2. PICK i \in 1 .. n : s[i] = BuildProcess(p)  BY <1>4, <2>1
  <2> QED BY <1>2, <2>2
<1>8. DOMAIN s = 1 .. n  BY <1>4
<1> QED BY <1>4, <1>5, <1>6, <1>7, <1>8 DEF Entries, s

\* The entries count what their processes have, each its own.
LEMMA EntriesCount ==
  ASSUME NEW n, Entries(n), NEW F \in [1 .. n -> Nat], NEW I,
         \A i \in 1 .. n : IsFiniteSet(I[i]) /\ F[i] = Cardinality(I[i]),
         \A i, j \in 1 .. n : i # j => I[i] \cap I[j] = {}
  PROVE  FoldLeft(+, 0, F) = Cardinality(AllOf(I, 1 .. n))
<1>1. n \in Nat  BY DEF Entries
<1>2. F \in Seq(Int) /\ Len(F) = n
  <2>1. F \in [1 .. n -> Int]  OBVIOUS
  <2> QED BY <1>1, <2>1
<1>3. PICK h : IsSum(h, 1 .. n, LastOf(n), F) /\ FoldLeft(+, 0, F) = h[1 .. n]
  BY <1>2, FoldLeftSums
<1>4. CountsEach(F, 1 .. n, I)  BY DEF CountsEach
<1>5. Takes(LastOf(n), 1 .. n) /\ IsFiniteSet(1 .. n)  BY <1>1, LastFirst, IntervalSize
<1> DEFINE D == 1 .. n
           c == LastOf(n)
<1> HIDE DEF D, c
<1>6. IsFiniteSet(D) /\ Takes(c, D) /\ IsSum(h, D, c, F) /\ CountsEach(F, D, I)
  BY <1>3, <1>4, <1>5 DEF D, c
<1>7. h[D] = Cardinality(AllOf(I, D))  BY <1>6, SumCounts
<1> QED BY <1>3, <1>7 DEF D

\* The samples of all entries are the rows of the readable files.
LEMMA RowsCounted ==
  ASSUME StatsInv, NEW n, Entries(n)
  PROVE  ReportSum(LAMBDA p : p.samples) =
            Cardinality({r \in Readable \X (1 .. 2) : r[2] \in DOMAIN stats.files[r[1]].rows})
<1> DEFINE D == 1 .. n
           F == [i \in DOMAIN stats.report |-> stats.report[i].samples]
           I == [i \in D |-> RowsOf(stats.report[i].name)]
           all == {r \in Readable \X (1 .. 2) : r[2] \in DOMAIN stats.files[r[1]].rows}
<1>1. DOMAIN stats.report = D /\ \A i \in D : stats.report[i].samples = Cardinality(I[i])
  BY EntryFields DEF Entries
<1>2. \A p : IsFiniteSet(RowsOf(p))
  <2> TAKE p
  <2>1. IsFiniteSet({1, 2})
    <3>1. {1, 2} = 1 .. 2  OBVIOUS
    <3> QED BY <3>1, IntervalSize
  <2>2. Readable \subseteq {1, 2}  BY DEF Readable
  <2>3. IsFiniteSet(Readable)  BY <2>1, <2>2, FS_Subset
  <2>4. IsFiniteSet(1 .. 2)  BY IntervalSize
  <2>5. IsFiniteSet(Readable \X (1 .. 2))  BY <2>3, <2>4, FS_Product
  <2>6. RowsOf(p) \subseteq Readable \X (1 .. 2)  BY DEF RowsOf
  <2> QED BY <2>5, <2>6, FS_Subset
<1>3. \A i \in D : IsFiniteSet(I[i]) /\ Cardinality(I[i]) \in Nat  BY <1>2, FS_CardinalityType
<1>4. F \in [D -> Nat] /\ \A i \in D : F[i] = Cardinality(I[i])  BY <1>1, <1>3
<1>5. \A i, j \in D : i # j => I[i] \cap I[j] = {}  BY DEF Entries, RowsOf
<1>6. AllOf(I, D) = all
  <2>1. ASSUME NEW r \in AllOf(I, D) PROVE r \in all
    <3>1. PICK i \in D : r \in RowsOf(stats.report[i].name)  BY DEF AllOf
    <3> QED BY <3>1 DEF RowsOf
  <2>2. ASSUME NEW r \in all PROVE r \in AllOf(I, D)
    <3> DEFINE rows == stats.files[r[1]].rows
    <3>1. r[1] \in {1, 2} /\ r[2] \in DOMAIN rows  BY DEF Readable
    <3>2. rows \in UNION {[1 .. m -> Processes] : m \in 0 .. 2}
      <4>1. stats.files[1] \in CpuFiles /\ stats.files[2] \in CpuFiles
        BY DEF StatsInv, StatsTypes
      <4>2. stats.files[r[1]] \in CpuFiles  BY <3>1, <4>1
      <4> QED BY <4>2 DEF CpuFiles
    <3>3. rows[r[2]] \in Processes  BY <3>1, <3>2
    <3>4. r \in RowsOf(rows[r[2]])  BY <3>1 DEF RowsOf
    <3>5. rows[r[2]] \in Reported  BY <3>3, <3>4 DEF Reported
    <3>6. PICK i \in D : stats.report[i].name = rows[r[2]]  BY <3>5 DEF Entries
    <3> QED BY <3>4, <3>6 DEF AllOf
  <2> QED BY <2>1, <2>2
<1>7. ReportSum(LAMBDA p : p.samples) = FoldLeft(+, 0, F)  BY DEF ReportSum
<1> HIDE DEF F, I, all
<1>8. FoldLeft(+, 0, F) = Cardinality(AllOf(I, D))  BY <1>3, <1>4, <1>5, EntriesCount
<1> QED BY <1>6, <1>7, <1>8 DEF all

\* The incidents of a process; of all.
LEMMA TriggeredCounts ==
  ASSUME StatsTypes, NEW p \in Processes
  PROVE  Triggered(p) \in Nat
<1>1. stats.incidents[p] \in [cpu : 0 .. 1, mem : 0 .. 1]  BY DEF StatsTypes
<1> QED BY <1>1 DEF Triggered

IncidentsOf == [p \in Processes |-> Labelled(p, Triggered(p))]

\* The incidents of all processes, added in any order.
LEMMA IncidentsCounted ==
  ASSUME StatsTypes
  PROVE  MapThenSumSet(Triggered, Processes) = Cardinality(AllOf(IncidentsOf, Processes))
<1> DEFINE P == Processes
           c == AnyOf(P)
           F == [p \in P |-> Triggered(p)]
           g == [z \in P \X Nat |-> z[2] + F[z[1]]]
           Is(h) == h = [t \in SUBSET P |-> IF t = {} THEN 0
                           ELSE Triggered(CHOOSE x \in t : TRUE)
                                  + h[t \ {CHOOSE x \in t : TRUE}]]
           k == CHOOSE it : Is(it)
<1>2. IsFiniteSet(P)  BY PerfReportAssumption
<1>3. F \in [P -> Nat]  BY TriggeredCounts
<1> HIDE DEF F
<1>4. PICK h \in [SUBSET P -> Nat] : IsFold(h, P, 0, c, g)
  BY <1>2, <1>3, SumExists
<1>5. Takes(c, P)  BY <1>2, <1>3, SumExists
<1>6. \A t \in SUBSET P : /\ c[t] = CHOOSE x \in t : TRUE
                          /\ t # {} => c[t] \in P /\ t \ {c[t]} \in SUBSET P
  BY <1>5 DEF AnyOf, Takes
<1> HIDE DEF c
<1>7. Is(h)
  <2>1. ASSUME NEW t \in SUBSET P, t # {}
        PROVE  h[t] = Triggered(c[t]) + h[t \ {c[t]}]
    <3>1. h[t] = g[<<c[t], h[t \ {c[t]}]>>]  BY <1>4, <2>1 DEF IsFold
    <3>2. c[t] \in P /\ h[t \ {c[t]}] \in Nat  BY <1>6, <2>1
    <3>3. F[c[t]] = Triggered(c[t]) /\ F[c[t]] \in Nat  BY <1>3, <3>2 DEF F
    <3> QED BY <3>1, <3>2, <3>3
  <2>2. h[{}] = 0  BY <1>4 DEF IsFold
  <2>3. \A t \in SUBSET P : h[t] = IF t = {} THEN 0
                           ELSE Triggered(CHOOSE x \in t : TRUE)
                                  + h[t \ {CHOOSE x \in t : TRUE}]
    BY <1>6, <2>1, <2>2
  <2> QED BY <2>3
<1>8. Is(k)
  <2> HIDE DEF Is
  <2> QED BY <1>7
<1>9. MapThenSumSet(Triggered, P) = k[P]
  BY DEF MapThenSumSet, MapThenFoldSet
<1> HIDE DEF k
<1>10. IsSum(k, P, c, F)
  <2>1. \A t \in SUBSET P : k[t] = IF t = {} THEN 0 ELSE Triggered(c[t]) + k[t \ {c[t]}]
    BY <1>6, <1>8
  <2>2. \A t \in SUBSET P : t # {} => F[c[t]] = Triggered(c[t])  BY <1>6 DEF F
  <2> QED BY <2>1, <2>2 DEF IsSum
<1>11. CountsEach(F, P, IncidentsOf)
  <2>1. ASSUME NEW p \in P PROVE IsFiniteSet(IncidentsOf[p]) /\ F[p] = Cardinality(IncidentsOf[p])
    <3>1. F[p] = Triggered(p) /\ F[p] \in Nat  BY <1>3 DEF F
    <3> QED BY <3>1, LabelledInterval DEF IncidentsOf
  <2>2. \A p, q \in P : p # q => IncidentsOf[p] \cap IncidentsOf[q] = {}  BY DEF IncidentsOf, Labelled
  <2> QED BY <2>1, <2>2 DEF CountsEach
<1>12. k[P] = Cardinality(AllOf(IncidentsOf, P))  BY <1>2, <1>5, <1>10, <1>11, SumCounts
<1> QED BY <1>9, <1>12

\* The alerts of all entries are the incidents of all processes.
LEMMA AlertsCounted ==
  ASSUME StatsInv, NEW n, Entries(n)
  PROVE  ReportSum(LAMBDA p : p.alerts.cpu + p.alerts.mem) = MapThenSumSet(Triggered, Processes)
<1> DEFINE D == 1 .. n
           F == [i \in DOMAIN stats.report |->
                    stats.report[i].alerts.cpu + stats.report[i].alerts.mem]
           I == [i \in D |-> IncidentsOf[stats.report[i].name]]
<1>1. \A i \in D : stats.report[i].name \in Reported /\ stats.report[i].name \in Processes
  BY DEF Entries, Reported
<1>2. DOMAIN stats.report = D /\ \A i \in D : F[i] = Triggered(stats.report[i].name)
  BY EntryFields DEF Entries, Triggered
<1>3. \A p \in Processes : Triggered(p) \in Nat  BY TriggeredCounts DEF StatsInv
<1> HIDE DEF F
<1>4. F \in [D -> Nat]
  <2>1. F = [i \in D |-> F[i]]  BY <1>2 DEF F
  <2> QED BY <1>1, <1>2, <1>3, <2>1
<1>5. ASSUME NEW i \in D PROVE IsFiniteSet(I[i]) /\ F[i] = Cardinality(I[i])
  <2> DEFINE p == stats.report[i].name
  <2>1. p \in Processes /\ Triggered(p) \in Nat /\ F[i] = Triggered(p)  BY <1>1, <1>2, <1>3
  <2>2. I[i] = Labelled(p, Triggered(p))  BY <2>1 DEF IncidentsOf
  <2> HIDE DEF p
  <2> QED BY <2>1, <2>2, LabelledInterval
<1>6. \A i, j \in D : i # j => I[i] \cap I[j] = {}
  <2>1. \A p, q \in Processes : p # q => IncidentsOf[p] \cap IncidentsOf[q] = {}
    BY DEF IncidentsOf, Labelled
  <2>2. \A i, j \in D : i # j => stats.report[i].name # stats.report[j].name  BY DEF Entries
  <2> QED BY <1>1, <2>1, <2>2
<1>7. AllOf(I, D) = AllOf(IncidentsOf, Processes)
  <2>1. ASSUME NEW z \in AllOf(I, D) PROVE z \in AllOf(IncidentsOf, Processes)
    <3>1. PICK i \in D : z \in IncidentsOf[stats.report[i].name]  BY DEF AllOf
    <3> QED BY <1>1, <3>1 DEF AllOf
  <2>2. ASSUME NEW z \in AllOf(IncidentsOf, Processes) PROVE z \in AllOf(I, D)
    <3>1. PICK p \in Processes : z \in IncidentsOf[p]  BY DEF AllOf
    <3>2. z[2] \in 1 .. Triggered(p) /\ Triggered(p) \in Nat  BY <1>3, <3>1 DEF IncidentsOf, Labelled
    <3>3. Triggered(p) > 0  BY <3>2
    <3>4. p \in Reported  BY <3>3 DEF Reported, Triggered
    <3>5. PICK i \in D : stats.report[i].name = p  BY <3>4 DEF Entries
    <3>6. z \in I[i]  BY <3>1, <3>5
    <3> QED BY <3>6 DEF AllOf
  <2> QED BY <2>1, <2>2
<1>8. ReportSum(LAMBDA p : p.alerts.cpu + p.alerts.mem) = FoldLeft(+, 0, F)
  BY DEF ReportSum, F
<1> HIDE DEF I
<1>9. FoldLeft(+, 0, F) = Cardinality(AllOf(I, D))  BY <1>4, <1>5, <1>6, EntriesCount
<1>10. MapThenSumSet(Triggered, Processes) = Cardinality(AllOf(IncidentsOf, Processes))
  BY IncidentsCounted DEF StatsInv
<1> QED BY <1>7, <1>8, <1>9, <1>10

\* So no sample, incident or failure is lost on the way to the report.
LEMMA NothingIsLost == ASSUME StatsInv PROVE NothingLost
<1> SUFFICES ASSUME stats.built PROVE NothingLost
  BY DEF NothingLost
<1>1. PICK n : Entries(n)  BY ReportEntries
<1>2. stats.failed \subseteq {stats.report[i].name : i \in DOMAIN stats.report}
  <2> SUFFICES ASSUME NEW p \in stats.failed
               PROVE  p \in {stats.report[i].name : i \in DOMAIN stats.report}
    OBVIOUS
  <2>1. p \in Reported  BY DEF StatsInv, StatsTypes, Reported
  <2> QED BY <1>1, <2>1 DEF Entries
<1> QED BY <1>1, <1>2, RowsCounted, AlertsCounted DEF NothingLost

\* And each uptime is the time that the lifecycle says the process was there.
LEMMA UptimeIsMeasured == ASSUME StatsInv PROVE UptimeMeasured
<1> DEFINE l == stats.life
<1> SUFFICES ASSUME stats.built, NEW i \in DOMAIN stats.report
             PROVE  LET alive == stats.report[i].alive IN
        /\ AliveSec(alive.intervals) = Cardinality({t \in 0 .. RunEnd - 1 : AliveAt(t)})
        /\ alive.intervals # <<>> =>
              alive.first = alive.intervals[1][1] /\ alive.last = Last(alive.intervals)[2]
  BY DEF UptimeMeasured
<1>1. PICK n : Entries(n)  BY ReportEntries
<1>2. stats.report[i].alive = AliveIntervals(l)  BY <1>1, EntryFields DEF Entries
<1> DEFINE alive == AliveIntervals(l)
<1>3. l \in Lifecycle  BY DEF StatsInv, StatsTypes
<1>4. /\ Tidy(alive.intervals, RunEnd)
      /\ \A t \in 0 .. RunEnd - 1 : AliveBy(l, Len(l), t) <=> t \in Covered(alive.intervals)
      /\ alive.intervals # <<>> =>
           /\ alive.first = alive.intervals[1][1]
           /\ alive.last = alive.intervals[Len(alive.intervals)][2]
  BY <1>3, AliveSound
<1>5. DOMAIN l = 1 .. Len(l)
  <2>1. l \in Seq(LifeRows)  BY <1>3, LifecycleRows
  <2> QED BY <2>1
<1>6. \A t : AliveAt(t) <=> AliveBy(l, Len(l), t)  BY <1>5 DEF AliveAt, AliveBy
<1> HIDE DEF alive
<1>7. RunEnd \in Nat  BY PerfReportAssumption
<1>8. Covered(alive.intervals) = {t \in 0 .. RunEnd - 1 : AliveAt(t)}
  <2>1. \A t \in Covered(alive.intervals) : t \in Nat /\ t < RunEnd
    BY <1>4, <1>7, CoveredBefore
  <2>2. \A t \in Covered(alive.intervals) : t \in 0 .. RunEnd - 1  BY <1>7, <2>1
  <2> QED BY <1>4, <1>6, <2>2
<1>9. AliveSec(alive.intervals) = Cardinality(Covered(alive.intervals))
  BY <1>4, <1>7, TidySum
<1> QED BY <1>2, <1>4, <1>8, <1>9 DEF alive, Last

\* For any processes, files, incidents, lifecycle and load: percentages are within
\* the error of their two reads, no sample, incident or failure is lost on the way to the
\* report, and an uptime is the time the process was there (reporter/result.py).
THEOREM NumbersHold == PerfReportSpec => []NumbersSound
<1>1. PerfReportSpec => []PercentagesBounded  BY PercentagesAreBounded
<1>2. CpuInit /\ StatsInit => StatsInv  BY StatsStart
<1>3. StatsInv => NothingLost /\ UptimeMeasured  BY NothingIsLost, UptimeIsMeasured
<1>4. PercentagesBounded /\ StatsInv => NumbersSound  BY <1>3 DEF NumbersSound
<1>5. PerfReportSpec => []StatsInv  BY <1>2, StatsStep, PTL DEF PerfReportSpec
<1> QED BY <1>1, <1>4, <1>5, PTL
=============================================================================
