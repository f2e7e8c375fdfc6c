------------------------ MODULE Compositions_proofs ------------------------
(* What a loop computes, by induction on its length.                       *)
EXTENDS Compositions, WellFoundedInduction, TLAPS

\* The order of the natural numbers is well-founded.
LEMMA Smallest ==
    ASSUME NEW T, T \subseteq Nat, T # {}
    PROVE  \E n \in T : \A y \in T : n <= y
<1> DEFINE R == OpToRel(<, Nat)
<1>1. IsWellFoundedOn(R, Nat)
  BY NatLessThanWellFounded
<1>2. \A x, y \in Nat : x < y => <<x, y>> \in R
  BY DEF OpToRel
<1> HIDE DEF R
<1>3. PICK n \in T : \A y \in T : ~ (<<y, n>> \in R)
  BY <1>1, WFMin
<1>4. ASSUME NEW y \in T PROVE n <= y
  <2>1. ~ (y < n)
    BY <1>2, <1>3
  <2> QED
    BY <2>1
<1> QED
  BY <1>4

\* Induction over the natural numbers, for a set in place of a predicate: the
\* smallest number that is not in the set would follow one that is.
LEMMA SetInduction ==
    ASSUME NEW S, 0 \in S, \A n \in Nat : n \in S => n + 1 \in S
    PROVE  \A n \in Nat : n \in S
<1> DEFINE T == Nat \ S
<1> SUFFICES ASSUME T # {} PROVE FALSE
  OBVIOUS
<1>1. PICK x \in T : \A y \in T : x <= y
  BY Smallest
<1>2. x - 1 \in Nat /\ x - 1 \in S
  BY <1>1
<1>3. (x - 1) + 1 \in S
  BY <1>2
<1> QED
  BY <1>1, <1>3

\* Some function does what the recursive definition says, so Through does.
LEMMA ThroughRecurs ==
    ASSUME NEW fs, Len(fs) \in Nat, NEW v
    PROVE  Through(fs, v) =
              [n \in 0 .. Len(fs) |-> IF n = 0 THEN v ELSE fs[n][Through(fs, v)[n - 1]]]
<1> DEFINE Values(g, N) == g = [n \in 0 .. N |-> IF n = 0 THEN v ELSE fs[n][g[n - 1]]]
           S == {N \in Nat : \E g : Values(g, N)}
<1>1. 0 \in S
  <2>1. Values([n \in 0 .. 0 |-> v], 0)
    OBVIOUS
  <2> QED
    BY <2>1
<1>2. ASSUME NEW N \in Nat, N \in S PROVE N + 1 \in S
  <2>1. PICK g : Values(g, N)
    BY <1>2
  <2> DEFINE h == [n \in 0 .. N + 1 |-> IF n = N + 1 THEN fs[n][g[N]] ELSE g[n]]
  <2>2. Values(h, N + 1)
    BY <2>1
  <2> HIDE DEF h, Values
  <2>3. \E f : Values(f, N + 1)
    BY <2>2
  <2> QED
    BY <2>3
<1>3. Len(fs) \in S
  BY <1>1, <1>2, SetInduction
<1>4. \E g : Values(g, Len(fs))
  BY <1>3
<1> QED
  BY <1>4 DEF Through

LEMMA ThroughSteps ==
    ASSUME NEW fs, Len(fs) \in Nat, NEW v
    PROVE  /\ Through(fs, v)[0] = v
           /\ \A n \in 1 .. Len(fs) : Through(fs, v)[n] = fs[n][Through(fs, v)[n - 1]]
<1> DEFINE t == Through(fs, v)
<1>1. t = [n \in 0 .. Len(fs) |-> IF n = 0 THEN v ELSE fs[n][t[n - 1]]]
  BY ThroughRecurs
<1> HIDE DEF t
<1>2. t[0] = v /\ \A n \in 1 .. Len(fs) : t[n] = fs[n][t[n - 1]]
  BY <1>1
<1> QED
  BY <1>2 DEF t

\* The values stay in the set that the steps map to itself.
LEMMA ThroughType ==
    ASSUME NEW V, NEW fs, Len(fs) \in Nat, NEW v \in V,
           \A n \in 1 .. Len(fs) : fs[n] \in [V -> V]
    PROVE  /\ \A n \in 0 .. Len(fs) : Through(fs, v)[n] \in V
           /\ Outcome(fs, v) \in V
<1> DEFINE S == {n \in Nat : n <= Len(fs) => Through(fs, v)[n] \in V}
<1>1. 0 \in S
  BY ThroughSteps
<1>2. ASSUME NEW n \in Nat, n \in S PROVE n + 1 \in S
  <2> SUFFICES ASSUME n + 1 <= Len(fs) PROVE Through(fs, v)[n + 1] \in V
    OBVIOUS
  <2>1. Through(fs, v)[n] \in V /\ n + 1 \in 1 .. Len(fs)
    BY <1>2
  <2>2. Through(fs, v)[n + 1] = fs[n + 1][Through(fs, v)[n]]
    BY <2>1, ThroughSteps
  <2> QED
    BY <2>1, <2>2
<1>3. \A n \in Nat : n \in S
  BY <1>1, <1>2, SetInduction
<1> QED
  BY <1>3 DEF Outcome

\* What happens in the first m steps depends on them only.
LEMMA SamePrefix ==
    ASSUME NEW fs, NEW gs, Len(fs) \in Nat, Len(gs) \in Nat, NEW v,
           NEW m \in Nat, m <= Len(fs), m <= Len(gs),
           \A n \in 1 .. m : fs[n] = gs[n]
    PROVE  Through(fs, v)[m] = Through(gs, v)[m]
<1> DEFINE S == {n \in Nat : n <= m => Through(fs, v)[n] = Through(gs, v)[n]}
<1>1. 0 \in S
  BY ThroughSteps
<1>2. ASSUME NEW n \in Nat, n \in S PROVE n + 1 \in S
  <2> SUFFICES ASSUME n + 1 <= m PROVE Through(fs, v)[n + 1] = Through(gs, v)[n + 1]
    OBVIOUS
  <2>1. /\ n + 1 \in 1 .. Len(fs) /\ n + 1 \in 1 .. Len(gs) /\ n + 1 \in 1 .. m
        /\ Through(fs, v)[n] = Through(gs, v)[n]
    BY <1>2
  <2>2. /\ Through(fs, v)[n + 1] = fs[n + 1][Through(fs, v)[n]]
        /\ Through(gs, v)[n + 1] = gs[n + 1][Through(gs, v)[n]]
    BY <2>1, ThroughSteps
  <2> QED
    BY <2>1, <2>2
<1>3. m \in S
  BY <1>1, <1>2, SetInduction
<1> QED
  BY <1>3

\* One more step is applied to what the others gave.
LEMMA OutcomeAppend ==
    ASSUME NEW fs, NEW gs, Len(fs) \in Nat, Len(gs) = Len(fs) + 1, NEW v,
           \A n \in 1 .. Len(fs) : gs[n] = fs[n]
    PROVE  Outcome(gs, v) = gs[Len(gs)][Outcome(fs, v)]
<1>1. Through(fs, v)[Len(fs)] = Through(gs, v)[Len(fs)]
  BY SamePrefix
<1>2. Through(gs, v)[Len(gs)] = gs[Len(gs)][Through(gs, v)[Len(fs)]]
  <2>1. Len(gs) \in 1 .. Len(gs) /\ Len(gs) - 1 = Len(fs) /\ Len(gs) \in Nat
    OBVIOUS
  <2> QED
    BY <2>1, ThroughSteps
<1> QED
  BY <1>1, <1>2 DEF Outcome

\* A loop may stop before a step and go on there.
LEMMA OutcomeSplit ==
    ASSUME NEW fs, NEW gs, Len(fs) \in Nat, NEW v,
           NEW k \in 0 .. Len(fs), Len(gs) = Len(fs) - k,
           \A n \in 1 .. Len(gs) : gs[n] = fs[k + n]
    PROVE  Outcome(fs, v) = Outcome(gs, Through(fs, v)[k])
<1> DEFINE w == Through(fs, v)[k]
           S == {n \in Nat : n <= Len(gs) => Through(gs, w)[n] = Through(fs, v)[k + n]}
<1>0. Len(gs) \in Nat
  OBVIOUS
<1>1. 0 \in S
  BY <1>0, ThroughSteps
<1>2. ASSUME NEW n \in Nat, n \in S PROVE n + 1 \in S
  <2> SUFFICES ASSUME n + 1 <= Len(gs)
               PROVE  Through(gs, w)[n + 1] = Through(fs, v)[k + (n + 1)]
    OBVIOUS
  <2> HIDE DEF w
  <2>1. /\ n + 1 \in 1 .. Len(gs) /\ k + (n + 1) \in 1 .. Len(fs)
        /\ (k + (n + 1)) - 1 = k + n /\ (n + 1) - 1 = n
        /\ Through(gs, w)[n] = Through(fs, v)[k + n]
    BY <1>2
  <2>2. Through(gs, w)[n + 1] = gs[n + 1][Through(gs, w)[n]]
    <3>1. \A i \in 1 .. Len(gs) : Through(gs, w)[i] = gs[i][Through(gs, w)[i - 1]]
      BY <1>0, ThroughSteps
    <3> QED
      BY <2>1, <3>1
  <2>3. Through(fs, v)[k + (n + 1)] = fs[k + (n + 1)][Through(fs, v)[k + n]]
    BY <2>1, ThroughSteps
  <2> QED
    BY <2>1, <2>2, <2>3
<1>3. Len(gs) \in S
  BY <1>0, <1>1, <1>2, SetInduction
<1>4. Through(gs, w)[Len(gs)] = Through(fs, v)[Len(fs)]
  BY <1>0, <1>3, k + Len(gs) = Len(fs)
<1> QED
  BY <1>4 DEF Outcome

\* Two loops whose values are related at first, and stay so from step to step,
\* end in related values.
LEMMA LoopsRelated ==
    ASSUME NEW fs, NEW gs, Len(fs) \in Nat, Len(gs) = Len(fs), NEW v, NEW w,
           NEW R, <<0, v, w>> \in R,
           \A n \in 1 .. Len(fs) : \A x, y :
              <<n - 1, x, y>> \in R => <<n, fs[n][x], gs[n][y]>> \in R
    PROVE  <<Len(fs), Outcome(fs, v), Outcome(gs, w)>> \in R
<1> DEFINE S == {n \in Nat : n <= Len(fs) =>
                               <<n, Through(fs, v)[n], Through(gs, w)[n]>> \in R}
<1>1. 0 \in S
  BY ThroughSteps
<1>2. ASSUME NEW n \in Nat, n \in S PROVE n + 1 \in S
  <2> SUFFICES ASSUME n + 1 <= Len(fs)
               PROVE  <<n + 1, Through(fs, v)[n + 1], Through(gs, w)[n + 1]>> \in R
    OBVIOUS
  <2>1. <<n, Through(fs, v)[n], Through(gs, w)[n]>> \in R /\ n + 1 \in 1 .. Len(fs)
    BY <1>2
  <2>2. /\ Through(fs, v)[n + 1] = fs[n + 1][Through(fs, v)[n]]
        /\ Through(gs, w)[n + 1] = gs[n + 1][Through(gs, w)[n]]
    BY <2>1, ThroughSteps
  <2> QED
    BY <2>1, <2>2
<1>3. Len(fs) \in S
  BY <1>1, <1>2, SetInduction
<1> QED
  BY <1>3 DEF Outcome

\* What holds at first and from step to step holds of the outcome.
LEMMA OutcomeInvariant ==
    ASSUME NEW fs, Len(fs) \in Nat, NEW v,
           NEW R, <<0, v>> \in R,
           \A n \in 1 .. Len(fs) : \A x : <<n - 1, x>> \in R => <<n, fs[n][x]>> \in R
    PROVE  <<Len(fs), Outcome(fs, v)>> \in R
<1> DEFINE S == {n \in Nat : n <= Len(fs) => <<n, Through(fs, v)[n]>> \in R}
<1>1. 0 \in S
  BY ThroughSteps
<1>2. ASSUME NEW n \in Nat, n \in S PROVE n + 1 \in S
  <2> SUFFICES ASSUME n + 1 <= Len(fs) PROVE <<n + 1, Through(fs, v)[n + 1]>> \in R
    OBVIOUS
  <2>1. <<n, Through(fs, v)[n]>> \in R /\ n + 1 \in 1 .. Len(fs)
    BY <1>2
  <2>2. Through(fs, v)[n + 1] = fs[n + 1][Through(fs, v)[n]]
    BY <2>1, ThroughSteps
  <2> QED
    BY <2>1, <2>2
<1>3. Len(fs) \in S
  BY <1>1, <1>2, SetInduction
<1>4. <<Len(fs), Through(fs, v)[Len(fs)]>> \in R
  <2> DEFINE n == Len(fs)
  <2>1. n \in Nat /\ n <= n
    OBVIOUS
  <2>2. n <= n => <<n, Through(fs, v)[n]>> \in R
    BY <1>3
  <2> QED
    BY <2>1, <2>2
<1> QED
  BY <1>4 DEF Outcome

----------------------------------------------------------------------------
(* Recursive functions *)

\* What step makes of a function at x depends on its values at lower arguments.
Determined(D, V, rank, step) ==
    /\ V # {}
    /\ rank \in [D -> Nat]
    /\ step \in [D -> [[D -> V] -> V]]
    /\ \A x \in D : \A g, h \in [D -> V] :
          (\A y \in D : rank[y] < rank[x] => g[y] = h[y]) => step[x][g] = step[x][h]

\* A function that is defined at each argument by its values at lower ones exists.
LEMMA RankedRecursion ==
    ASSUME NEW D, NEW V, NEW rank, NEW step, Determined(D, V, rank, step)
    PROVE  \E f \in [D -> V] : \A x \in D : f[x] = step[x][f]
<1> DEFINE Good(g, n) == \A x \in D : rank[x] < n => g[x] = step[x][g]
           S == {n \in Nat : \E g \in [D -> V] : Good(g, n)}
<1> USE DEF Determined
<1>1. \A x \in D : rank[x] \in Nat
  OBVIOUS
\* Two functions that do what the definition says below a height are the same there.
<1>2. ASSUME NEW g \in [D -> V], NEW h \in [D -> V], NEW n \in Nat, Good(g, n), Good(h, n)
      PROVE  \A x \in D : rank[x] < n => g[x] = h[x]
  <2> DEFINE T == {m \in Nat : m <= n => \A x \in D : rank[x] < m => g[x] = h[x]}
  <2>1. 0 \in T
    BY <1>1
  <2>2. ASSUME NEW m \in Nat, m \in T PROVE m + 1 \in T
    <3> SUFFICES ASSUME m + 1 <= n, NEW x \in D, rank[x] < m + 1 PROVE g[x] = h[x]
      OBVIOUS
    <3>1. \A y \in D : rank[y] < rank[x] => g[y] = h[y]
      BY <1>1, <2>2
    <3>2. step[x][g] = step[x][h]
      BY <3>1
    <3> QED
      BY <1>1, <1>2, <3>2
  <2>3. n \in T
    BY <2>1, <2>2, SetInduction
  <2> QED
    BY <2>3
<1>3. 0 \in S
  <2>1. PICK v : v \in V
    OBVIOUS
  <2>2. [x \in D |-> v] \in [D -> V] /\ Good([x \in D |-> v], 0)
    BY <1>1, <2>1
  <2> QED
    BY <2>2
<1>4. ASSUME NEW n \in Nat, n \in S PROVE n + 1 \in S
  <2>1. PICK g \in [D -> V] : Good(g, n)
    BY <1>4
  <2> DEFINE h == [x \in D |-> step[x][g]]
  <2>2. h \in [D -> V]
    OBVIOUS
  <2>3. ASSUME NEW x \in D, rank[x] < n + 1 PROVE h[x] = step[x][h]
    <3>1. \A y \in D : rank[y] < rank[x] => g[y] = h[y]
      BY <1>1, <2>1, <2>3
    <3> QED
      BY <2>2, <3>1
  <2>4. Good(h, n + 1)
    BY <2>3
  <2> HIDE DEF h
  <2> QED
    BY <2>2, <2>4
<1>5. \A n \in Nat : n \in S
  BY <1>3, <1>4, SetInduction
<1> DEFINE G == [n \in Nat |-> CHOOSE g \in [D -> V] : Good(g, n)]
           f == [x \in D |-> G[rank[x] + 1][x]]
<1>6. \A n \in Nat : G[n] \in [D -> V] /\ Good(G[n], n)
  <2> SUFFICES ASSUME NEW n \in Nat PROVE G[n] \in [D -> V] /\ Good(G[n], n)
    OBVIOUS
  <2>1. \E g \in [D -> V] : Good(g, n)
    BY <1>5
  <2>2. G[n] = CHOOSE g \in [D -> V] : Good(g, n)
    OBVIOUS
  <2> HIDE DEF G, Good
  <2> QED
    BY <2>1, <2>2
<1> HIDE DEF G
<1>7. f \in [D -> V]
  BY <1>1, <1>6
<1>8. ASSUME NEW x \in D PROVE f[x] = step[x][f]
  <2> DEFINE g == G[rank[x] + 1]
  <2>1. ASSUME NEW y \in D, rank[y] < rank[x] PROVE g[y] = f[y]
    <3> DEFINE n == rank[y] + 1
               h == G[n]
    <3>0. n \in Nat /\ rank[y] < n /\ \A z \in D : rank[z] < n => rank[z] < rank[x] + 1
      BY <1>1, <2>1
    <3>1. /\ g \in [D -> V] /\ h \in [D -> V]
          /\ Good(g, n) /\ Good(h, n)
      BY <1>1, <1>6, <3>0
    <3>2. h[y] = f[y]
      OBVIOUS
    <3> HIDE DEF n, g, h, f, Good
    <3>3. \A z \in D : rank[z] < n => g[z] = h[z]
      BY <1>2, <3>0, <3>1
    <3>4. g[y] = h[y]
      BY <3>0, <3>3
    <3> QED
      BY <3>2, <3>4
  <2>2. g \in [D -> V] /\ g[x] = step[x][g]
    BY <1>1, <1>6
  <2>3. f[x] = g[x]
    OBVIOUS
  <2> HIDE DEF g, f
  <2>4. step[x][g] = step[x][f]
    BY <1>7, <2>1, <2>2
  <2> QED
    BY <2>2, <2>3, <2>4
<1> HIDE DEF f
<1> QED
  BY <1>7, <1>8

\* What step makes of a function at x is one of the values that x may have, if the
\* function has such values at lower arguments, and depends on these only.
TypedStep(D, V, T, rank, step) ==
    /\ T \in [D -> (SUBSET V) \ {{}}]
    /\ rank \in [D -> Nat]
    /\ \A x \in D : \A g \in [D -> V] :
          (\A y \in D : rank[y] < rank[x] => g[y] \in T[y]) => step[x][g] \in T[x]
    /\ \A x \in D : \A g, h \in [D -> V] :
          (\A y \in D : rank[y] < rank[x] => g[y] \in T[y] /\ g[y] = h[y])
             => step[x][g] = step[x][h]

\* The same where a value at an argument is as it should be, or of no use.
LEMMA TypedRecursion ==
    ASSUME NEW D, NEW V, NEW T, NEW rank, NEW step, TypedStep(D, V, T, rank, step)
    PROVE  \E f \in [D -> V] : \A x \in D : f[x] \in T[x] /\ f[x] = step[x][f]
<1> USE DEF TypedStep
<1> SUFFICES ASSUME D # {}
             PROVE  \E f \in [D -> V] : \A x \in D : f[x] \in T[x] /\ f[x] = step[x][f]
  <2>1. CASE D = {}
    <3>1. [x \in D |-> x] \in [D -> V]
      BY <2>1
    <3> QED
      BY <2>1, <3>1
  <2> QED
    BY <2>1
<1> DEFINE some == [y \in D |-> CHOOSE v \in T[y] : TRUE]
           clip == [g \in [D -> V] |-> [y \in D |-> IF g[y] \in T[y] THEN g[y] ELSE some[y]]]
           next == [x \in D |-> [g \in [D -> V] |-> step[x][clip[g]]]]
<1>1. \A y \in D : some[y] \in T[y] /\ T[y] \subseteq V
  <2> SUFFICES ASSUME NEW y \in D PROVE some[y] \in T[y] /\ T[y] \subseteq V
    OBVIOUS
  <2>1. T[y] \subseteq V /\ T[y] # {}
    OBVIOUS
  <2>2. PICK v : v \in T[y]
    BY <2>1
  <2> QED
    BY <2>1, <2>2
<1> HIDE DEF some
<1>2. \A g \in [D -> V] : /\ clip[g] \in [D -> V]
                          /\ \A y \in D : clip[g][y] = IF g[y] \in T[y] THEN g[y] ELSE some[y]
  BY <1>1
<1> HIDE DEF clip
<1>3. \A g \in [D -> V] : \A y \in D : clip[g][y] \in T[y]
  BY <1>1, <1>2
<1>4. \A x \in D : \A g \in [D -> V] : step[x][clip[g]] \in T[x]
  BY <1>2, <1>3
<1>5. \A x \in D : \A g \in [D -> V] : next[x][g] = step[x][clip[g]]
  OBVIOUS
<1>6. next \in [D -> [[D -> V] -> V]]
  BY <1>1, <1>4
<1> HIDE DEF next
<1>7. ASSUME NEW x \in D, NEW g \in [D -> V], NEW h \in [D -> V],
             \A y \in D : rank[y] < rank[x] => g[y] = h[y]
      PROVE  next[x][g] = next[x][h]
  <2>1. \A y \in D : rank[y] < rank[x] => clip[g][y] = clip[h][y]
    BY <1>2, <1>7
  <2>2. step[x][clip[g]] = step[x][clip[h]]
    <3> DEFINE g1 == clip[g]
               h1 == clip[h]
    <3>1. /\ g1 \in [D -> V] /\ h1 \in [D -> V]
          /\ \A y \in D : rank[y] < rank[x] => g1[y] \in T[y] /\ g1[y] = h1[y]
      BY <1>2, <1>3, <2>1
    <3> HIDE DEF g1, h1
    <3>2. step[x][g1] = step[x][h1]
      BY <3>1
    <3> QED
      BY <3>2 DEF g1, h1
  <2> QED
    BY <1>5, <2>2
<1>8. V # {}
  BY <1>1
<1>9. Determined(D, V, rank, next)
  BY <1>6, <1>7, <1>8 DEF Determined
<1>10. PICK f \in [D -> V] : \A x \in D : f[x] = next[x][f]
  BY <1>9, RankedRecursion
<1>11. \A x \in D : f[x] \in T[x]
  BY <1>4, <1>5, <1>10
<1>12. clip[f] = f
  BY <1>2, <1>11
<1> QED
  BY <1>5, <1>10, <1>11, <1>12

\* What holds for an argument whenever it holds for the lower ones does for all.
LEMMA RankInduction ==
    ASSUME NEW D, NEW rank, \A x \in D : rank[x] \in Nat, NEW S,
           \A x \in D : (\A y \in D : rank[y] < rank[x] => y \in S) => x \in S
    PROVE  \A x \in D : x \in S
<1> DEFINE T == {n \in Nat : \A x \in D : rank[x] < n => x \in S}
<1>1. 0 \in T
  OBVIOUS
<1>2. ASSUME NEW n \in Nat, n \in T PROVE n + 1 \in T
  <2> SUFFICES ASSUME NEW x \in D, rank[x] < n + 1 PROVE x \in S
    OBVIOUS
  <2>1. \A y \in D : rank[y] < rank[x] => y \in S
    BY <1>2
  <2> QED
    BY <2>1
<1>3. \A n \in Nat : n \in T
  BY <1>1, <1>2, SetInduction
<1> QED
  <2> SUFFICES ASSUME NEW x \in D PROVE x \in S
    OBVIOUS
  <2>1. rank[x] + 1 \in T /\ rank[x] < rank[x] + 1
    BY <1>3
  <2> QED
    BY <2>1
=============================================================================
