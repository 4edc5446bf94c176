---------------------------- MODULE RecursionLemmas ----------------------------
(***************************************************************************)
(* What the recursive functions of the models compute, shown for every     *)
(* argument: a table is written down that solves the equation, and what is *)
(* claimed of every number holds as there is no least counterexample.      *)
(***************************************************************************)
EXTENDS Integers, NaturalsInduction, WellFoundedInduction, TLAPS

(* A set of natural numbers has a least element.                           *)
LEMMA Least ==
    ASSUME NEW T \in SUBSET Nat, T # {}
    PROVE  \E n \in T : \A m \in T : ~(m < n)
<1> DEFINE L == OpToRel(<, Nat)
<1>1. IsWellFoundedOn(L, Nat)
  BY NatLessThanWellFounded
<1>2. \A m, n \in Nat : <<m, n>> \in L <=> m < n
  BY DEF OpToRel
<1> HIDE DEF L
<1>3. \E x \in T : \A y \in T : ~(<<y, x>> \in L)
  BY <1>1, WFMin, Zenon
<1> QED
  BY <1>2, <1>3

(* A set of numbers up to h has a greatest element.                        *)
LEMMA Greatest ==
    ASSUME NEW h \in Nat, NEW T \in SUBSET (0..h), T # {}
    PROVE  \E n \in T : \A m \in T : ~(m > n)
<1> DEFINE U == {h - n : n \in T}
<1>1. U \in SUBSET Nat /\ U # {}
  <2>1. \A n \in T : h - n \in Nat
    OBVIOUS
  <2> QED
    BY <2>1
<1> HIDE DEF U
<1>2. PICK u \in U : \A v \in U : ~(v < u)
  BY <1>1, Least
<1> USE DEF U
<1>3. PICK n \in T : u = h - n
  BY <1>2
<1>4. \A m \in T : h - m \in U
  OBVIOUS
<1> HIDE DEF U
<1>5. \A m \in T : ~(h - m < h - n)
  BY <1>2, <1>3, <1>4
<1>6. \A m \in T : ~(m > n)
  BY <1>5
<1> QED
  BY <1>6

-----------------------------------------------------------------------------
(* Sums of the sizes before the k-th: where a frame or a message begins    *)

SumsOf(f, s, n) ==
    \A k \in 1..(n + 1) : f[k] = IF k = 1 THEN 0 ELSE f[k - 1] + s[k - 1]

SumsTable(f, s, n) == f = [k \in 1..(n + 1) |-> IF k = 1 THEN 0 ELSE f[k - 1] + s[k - 1]]

(* The equation has a solution, whatever the sizes are. *)
LEMMA SumsExist ==
    ASSUME NEW n \in Nat, NEW s
    PROVE  \E f : SumsTable(f, s, n)
<1> DEFINE T == {m \in Nat : ~\E f : SumsTable(f, s, m)}
<1> SUFFICES ASSUME T # {} PROVE FALSE
  OBVIOUS
<1>1. PICK m \in T : \A k \in T : ~(k < m)
  <2> T \in SUBSET Nat
    OBVIOUS
  <2> HIDE DEF T
  <2> QED
    BY Least
<1>2. CASE m = 0
  <2>1. SumsTable([k \in 1..1 |-> 0], s, 0)
    BY DEF SumsTable
  <2> QED
    BY <1>2, <2>1
<1>3. CASE m # 0
  <2>1. m - 1 \in Nat /\ m - 1 \notin T
    BY <1>1, <1>3
  <2>2. PICK f : SumsTable(f, s, m - 1)
    BY <2>1
  <2> DEFINE g == [k \in 1..(m + 1) |-> IF k = m + 1 THEN f[m] + s[m] ELSE f[k]]
  <2>3. \A k \in 1..(m + 1) : g[k] = IF k = 1 THEN 0 ELSE g[k - 1] + s[k - 1]
    <3> TAKE k \in 1..(m + 1)
    <3>1. CASE k = m + 1
      BY <2>1, <1>3, <3>1
    <3>2. CASE k # m + 1
      <4>1. k \in 1..m /\ g[k] = f[k] /\ (k # 1 => g[k - 1] = f[k - 1])
        BY <3>2
      <4> QED
        BY <2>2, <4>1 DEF SumsTable
    <3> QED
      BY <3>1, <3>2
  <2>4. SumsTable(g, s, m)
    BY <2>3 DEF SumsTable
  <2> QED
    BY <2>4
<1> QED
  BY <1>2, <1>3

(* Of sizes that are not 0 the sums are numbers, and grow.                 *)
LEMMA SumsGrow ==
    ASSUME NEW n \in Nat, NEW m \in 0..n, NEW f, NEW s, SumsOf(f, s, n),
           \A k \in 1..m : s[k] \in Nat \ {0}
    PROVE  /\ f[1] = 0
           /\ \A k \in 1..(m + 1) : f[k] \in Nat
           /\ \A k \in 1..m : f[k + 1] = f[k] + s[k]
           /\ \A j, k \in 1..(m + 1) : j < k => f[j] < f[k]
<1>1. f[1] = 0
  BY DEF SumsOf
<1>2. \A k \in 1..m : f[k + 1] = f[k] + s[k]
  <2> TAKE k \in 1..m
  <2>1. k + 1 \in 1..(n + 1) /\ k + 1 # 1 /\ (k + 1) - 1 = k
    OBVIOUS
  <2> QED
    BY <2>1 DEF SumsOf
<1> SUFFICES /\ \A k \in 1..(m + 1) : f[k] \in Nat
             /\ \A j, k \in 1..(m + 1) : j < k => f[j] < f[k]
  BY <1>1, <1>2
<1> DEFINE T == {k \in 1..(m + 1) : ~(f[k] \in Nat /\ \A j \in 1..(k - 1) : f[j] < f[k])}
<1> SUFFICES ASSUME T # {} PROVE FALSE
  OBVIOUS
<1>3. PICK k \in T : \A j \in T : ~(j < k)
  <2> T \in SUBSET Nat
    OBVIOUS
  <2> HIDE DEF T
  <2> QED
    BY Least
<1>4. CASE k = 1
  BY <1>1, <1>4
<1>5. CASE k # 1
  <2>1. k - 1 \in 1..m /\ k - 1 \notin T
    BY <1>3, <1>5
  <2>2. f[k - 1] \in Nat /\ \A j \in 1..(k - 2) : f[j] < f[k - 1]
    BY <2>1
  <2>3. f[k] = f[k - 1] + s[k - 1] /\ s[k - 1] \in Nat \ {0}
    BY <1>5, <2>1 DEF SumsOf
  <2>4. f[k] \in Nat /\ f[k - 1] < f[k]
    BY <2>2, <2>3
  <2>5. \A j \in 1..(k - 2) : f[j] < f[k]
    <3> TAKE j \in 1..(k - 2)
    <3>1. j \in 1..(m + 1) /\ j < k /\ j \notin T
      BY <1>3
    <3>2. f[j] \in Nat
      BY <3>1
    <3> QED
      BY <2>2, <2>4, <3>2
  <2>6. \A j \in 1..(k - 1) : j = k - 1 \/ j \in 1..(k - 2)
    OBVIOUS
  <2> QED
    BY <2>4, <2>5, <2>6
<1> QED
  BY <1>4, <1>5

(* Of sizes that may be 0 the sums are numbers that do not fall.           *)
LEMMA SumsDoNotFall ==
    ASSUME NEW n \in Nat, NEW m \in 0..n, NEW f, NEW s, SumsOf(f, s, n),
           \A k \in 1..m : s[k] \in Nat
    PROVE  /\ f[1] = 0
           /\ \A k \in 1..(m + 1) : f[k] \in Nat
           /\ \A k \in 1..m : f[k + 1] = f[k] + s[k]
           /\ \A j, k \in 1..(m + 1) : j < k => f[j] <= f[k]
<1>1. f[1] = 0
  BY DEF SumsOf
<1>2. \A k \in 1..m : f[k + 1] = f[k] + s[k]
  <2> TAKE k \in 1..m
  <2>1. k + 1 \in 1..(n + 1) /\ k + 1 # 1 /\ (k + 1) - 1 = k
    OBVIOUS
  <2> QED
    BY <2>1 DEF SumsOf
<1> SUFFICES /\ \A k \in 1..(m + 1) : f[k] \in Nat
             /\ \A j, k \in 1..(m + 1) : j < k => f[j] <= f[k]
  BY <1>1, <1>2
<1> DEFINE T == {k \in 1..(m + 1) : ~(f[k] \in Nat /\ \A j \in 1..(k - 1) : f[j] <= f[k])}
<1> SUFFICES ASSUME T # {} PROVE FALSE
  OBVIOUS
<1>3. PICK k \in T : \A j \in T : ~(j < k)
  <2> T \in SUBSET Nat
    OBVIOUS
  <2> HIDE DEF T
  <2> QED
    BY Least
<1>4. CASE k = 1
  BY <1>1, <1>4
<1>5. CASE k # 1
  <2>1. k - 1 \in 1..m /\ k - 1 \notin T
    BY <1>3, <1>5
  <2>2. f[k - 1] \in Nat /\ \A j \in 1..(k - 2) : f[j] <= f[k - 1]
    BY <2>1
  <2>3. f[k] = f[k - 1] + s[k - 1] /\ s[k - 1] \in Nat
    BY <1>5, <2>1 DEF SumsOf
  <2>4. f[k] \in Nat /\ f[k - 1] <= f[k]
    BY <2>2, <2>3
  <2>5. \A j \in 1..(k - 2) : f[j] <= f[k]
    <3> TAKE j \in 1..(k - 2)
    <3>1. j \in 1..(m + 1) /\ j < k /\ j \notin T
      BY <1>3
    <3>2. f[j] \in Nat
      BY <3>1
    <3> QED
      BY <2>2, <2>4, <3>2
  <2>6. \A j \in 1..(k - 1) : j = k - 1 \/ j \in 1..(k - 2)
    OBVIOUS
  <2> QED
    BY <2>4, <2>5, <2>6
<1> QED
  BY <1>4, <1>5

(* The first sums depend on the first sizes only.                          *)
LEMMA SumsAgree ==
    ASSUME NEW n \in Nat, NEW m \in 0..n, NEW f, NEW g, NEW s, NEW t,
           SumsOf(f, s, n), SumsOf(g, t, n), \A k \in 1..m : s[k] = t[k]
    PROVE  \A k \in 1..(m + 1) : f[k] = g[k]
<1> DEFINE T == {k \in 1..(m + 1) : f[k] # g[k]}
<1> SUFFICES ASSUME T # {} PROVE FALSE
  OBVIOUS
<1>1. PICK k \in T : \A j \in T : ~(j < k)
  <2> T \in SUBSET Nat
    OBVIOUS
  <2> HIDE DEF T
  <2> QED
    BY Least
<1>2. k # 1
  BY DEF SumsOf
<1>3. k - 1 \in 1..m /\ k - 1 \notin T
  BY <1>1, <1>2
<1> QED
  BY <1>2, <1>3 DEF SumsOf

-----------------------------------------------------------------------------
(* A loop over what a buffer of h bytes holds: it stops at some offsets,   *)
(* and goes on from the others to a later one.                             *)

WalkTable(w, x, h, stops, result, next) ==
    w = [o \in x..h |-> IF o \in stops THEN result[o] ELSE w[next[o]]]

LEMMA WalkExists ==
    ASSUME NEW h \in Nat, NEW stops, NEW result, NEW next,
           \A o \in 0..h : o \notin stops => next[o] \in (o + 1)..h
    PROVE  \E w : WalkTable(w, 0, h, stops, result, next)
<1> DEFINE T == {m \in 0..h : ~\E w : WalkTable(w, h - m, h, stops, result, next)}
<1>1. T = {}
  <2> SUFFICES ASSUME T # {} PROVE FALSE
    OBVIOUS
  <2>1. PICK m \in T : \A k \in T : ~(k < m)
    <3> T \in SUBSET Nat
      OBVIOUS
    <3> HIDE DEF T
    <3> QED
      BY Least
  <2>2. CASE m = 0
    <3>1. WalkTable([o \in h..h |-> result[o]], h - 0, h, stops, result, next)
      BY DEF WalkTable
    <3> QED
      BY <2>2, <3>1
  <2>3. CASE m # 0
    <3>1. m - 1 \in 0..h /\ m - 1 \notin T
      BY <2>1, <2>3
    <3>2. PICK w : WalkTable(w, h - (m - 1), h, stops, result, next)
      BY <3>1
    <3> DEFINE x == h - m
               v == [o \in x..h |-> IF o = x THEN IF o \in stops THEN result[o] ELSE w[next[o]]
                                    ELSE w[o]]
    <3>3. \A o \in x..h : v[o] = IF o \in stops THEN result[o] ELSE v[next[o]]
      <4> TAKE o \in x..h
      <4>1. o \in 0..h /\ (o \notin stops => next[o] \in (x + 1)..h)
        OBVIOUS
      <4>2. o \notin stops => v[next[o]] = w[next[o]]
        BY <4>1
      <4>3. CASE o = x
        BY <4>2, <4>3
      <4>4. CASE o # x
        <5>1. o \in (h - (m - 1))..h /\ v[o] = w[o]
          BY <4>4
        <5>2. w[o] = IF o \in stops THEN result[o] ELSE w[next[o]]
          BY <3>2, <5>1 DEF WalkTable
        <5> QED
          BY <4>2, <5>1, <5>2
      <4> QED
        BY <4>3, <4>4
    <3>4. WalkTable(v, h - m, h, stops, result, next)
      BY <3>3 DEF WalkTable
    <3> QED
      BY <3>4
  <2> QED
    BY <2>2, <2>3
<1>2. \E w : WalkTable(w, h - h, h, stops, result, next)
  BY <1>1
<1>3. h - h = 0
  OBVIOUS
<1> QED
  BY <1>2, <1>3

Walks(w, h, stops, result, next) ==
    \A o \in 0..h : w[o] = IF o \in stops THEN result[o] ELSE w[next[o]]

Passes(G, stops, next) == \A o \in G : o \notin stops => next[o] \in G /\ o < next[o]

(* Wherever the loop begins, it ends where it stops, and what it passes    *)
(* through it keeps.                                                       *)
LEMMA WalkEnds ==
    ASSUME NEW h \in Nat, NEW stops, NEW result, NEW next, NEW w,
           NEW G \in SUBSET (0..h), NEW start \in G,
           Walks(w, h, stops, result, next), Passes(G, stops, next)
    PROVE  \E e \in G : e \in stops /\ start <= e /\ w[start] = result[e]
<1> DEFINE T == {o \in G : start <= o /\ w[start] = w[o]}
<1>1. PICK e \in T : \A o \in T : ~(o > e)
  <2>1. G \subseteq 0..h /\ start \in Int
    OBVIOUS
  <2>2. T \subseteq G /\ start \in T
    BY <2>1
  <2> HIDE DEF T
  <2> QED
    BY <2>1, <2>2, Greatest, Zenon
<1>2. e \in stops
  <2> SUFFICES ASSUME e \notin stops PROVE FALSE
    OBVIOUS
  <2>1. e \in G /\ next[e] \in G /\ e < next[e]
    BY DEF Passes
  <2>2. e \in 0..h /\ start \in 0..h /\ next[e] \in 0..h
    BY <2>1
  <2>3. w[next[e]] = w[e]
    BY <2>2 DEF Walks
  <2>4. next[e] \in T
    BY <2>1, <2>2, <2>3
  <2> QED
    BY <1>1, <2>1, <2>2, <2>4
<1>3. e \in G /\ e \in 0..h /\ start <= e /\ w[start] = w[e]
  OBVIOUS
<1> HIDE DEF T
<1> QED
  BY <1>2, <1>3 DEF Walks

-----------------------------------------------------------------------------
(* As many numbers as there are in an interval, in their order, are the    *)
(* interval.                                                               *)
LEMMA IncreasingRun ==
    ASSUME NEW n \in Nat, NEW a \in Int, NEW s \in [1..n -> a..(a + n - 1)],
           \A i, j \in 1..n : i < j => s[i] < s[j]
    PROVE  \A i \in 1..n : s[i] = a + i - 1
<1>1. \A i \in 1..n : s[i] \in Int /\ a <= s[i] /\ s[i] <= a + n - 1
  OBVIOUS
<1> DEFINE Low == {i \in 1..n : s[i] < a + i - 1}
           High == {i \in 1..n : s[i] > a + i - 1}
<1>2. Low = {}
  <2> SUFFICES ASSUME Low # {} PROVE FALSE
    OBVIOUS
  <2>1. PICK i \in Low : \A j \in Low : ~(j < i)
    <3> Low \in SUBSET Nat
      OBVIOUS
    <3> HIDE DEF Low
    <3> QED
      BY Least
  <2>2. i # 1
    BY <1>1, <2>1
  <2>3. i - 1 \in 1..n /\ i - 1 \notin Low
    BY <2>1, <2>2
  <2>4. s[i - 1] >= a + i - 2 /\ s[i - 1] < s[i]
    BY <1>1, <2>1, <2>3
  <2> QED
    BY <1>1, <2>1, <2>3, <2>4
<1>3. High = {}
  <2> SUFFICES ASSUME High # {} PROVE FALSE
    OBVIOUS
  <2>1. PICK i \in High : \A j \in High : ~(j > i)
    <3> High \in SUBSET (0..n)
      OBVIOUS
    <3> HIDE DEF High
    <3> QED
      BY Greatest
  <2>2. i # n
    BY <1>1, <2>1
  <2>3. i + 1 \in 1..n /\ i + 1 \notin High
    BY <2>1, <2>2
  <2>4. s[i + 1] <= a + i /\ s[i] < s[i + 1]
    BY <1>1, <2>1, <2>3
  <2> QED
    BY <1>1, <2>1, <2>3, <2>4
<1> QED
  BY <1>1, <1>2, <1>3

-----------------------------------------------------------------------------
(* What holds at one end of 0..n, and at the next number if at one, holds  *)
(* of all.                                                                 *)

LEMMA Upwards ==
    ASSUME NEW n \in Nat, NEW T, 0 \in T, \A k \in 0..(n - 1) : k \in T => k + 1 \in T
    PROVE  \A k \in 0..n : k \in T
<1> DEFINE U == {k \in 0..n : k \notin T}
<1> SUFFICES ASSUME U # {} PROVE FALSE
  OBVIOUS
<1>1. PICK k \in U : \A j \in U : ~(j < k)
  <2> U \in SUBSET Nat
    OBVIOUS
  <2> HIDE DEF U
  <2> QED
    BY Least
<1>2. k \in 0..n /\ k # 0 /\ k \notin T
  OBVIOUS
<1>3. k - 1 \in 0..(n - 1) /\ k - 1 < k /\ (k - 1) + 1 = k /\ k - 1 \in 0..n
  BY <1>2
<1>4. k - 1 \notin U
  BY <1>1, <1>3
<1>5. k - 1 \in T
  BY <1>3, <1>4
<1> QED
  BY <1>2, <1>3, <1>5

LEMMA Downwards ==
    ASSUME NEW n \in Nat, NEW T, n \in T, \A k \in 1..n : k \in T => k - 1 \in T
    PROVE  \A k \in 0..n : k \in T
<1> DEFINE U == {j \in 0..n : n - j \in T}
<1>1. n - 0 = n
  OBVIOUS
<1>2. 0 \in U
  BY <1>1
<1>3. \A j \in 0..(n - 1) : j \in U => j + 1 \in U
  <2> TAKE j \in 0..(n - 1)
  <2>1. n - j \in 1..n /\ (n - j) - 1 = n - (j + 1) /\ j + 1 \in 0..n
    OBVIOUS
  <2> QED
    BY <2>1
<1> HIDE DEF U
<1>4. \A j \in 0..n : j \in U
  BY <1>2, <1>3, Upwards
<1>5. \A k \in 0..n : n - k \in 0..n /\ n - (n - k) = k
  OBVIOUS
<1> QED
  BY <1>4, <1>5 DEF U

-----------------------------------------------------------------------------
(* A table of which each entry follows from the one before                 *)

ChainOf(f, a, step, n) ==
    \A k \in 0..n : f[k] = IF k = 0 THEN a ELSE step[<<k, f[k - 1]>>]

LEMMA ChainStarts ==
    ASSUME NEW S, NEW a, NEW step, NEW n \in Nat,
           a \in S, \A k \in Nat, s \in S : step[<<k, s>>] \in S
    PROVE  \E f \in [0..n -> S] : ChainOf(f, a, step, n)
<1> DEFINE T == {m \in Nat : ~\E f \in [0..m -> S] : ChainOf(f, a, step, m)}
<1> SUFFICES ASSUME T # {} PROVE FALSE
  OBVIOUS
<1>1. PICK m \in T : \A k \in T : ~(k < m)
  <2> T \in SUBSET Nat
    OBVIOUS
  <2> HIDE DEF T
  <2> QED
    BY Least
<1>2. CASE m = 0
  <2>1. [i \in 0..0 |-> a] \in [0..0 -> S] /\ ChainOf([i \in 0..0 |-> a], a, step, 0)
    BY DEF ChainOf
  <2> QED
    BY <1>2, <2>1
<1>3. CASE m # 0
  <2>1. m - 1 \in Nat /\ m - 1 \notin T
    BY <1>1, <1>3
  <2>2. PICK f \in [0..m - 1 -> S] : ChainOf(f, a, step, m - 1)
    BY <2>1
  <2> DEFINE g == [i \in 0..m |-> IF i = m THEN step[<<m, f[m - 1]>>] ELSE f[i]]
  <2>3. g \in [0..m -> S]
    <3>1. f[m - 1] \in S /\ m \in Nat
      BY <2>1
    <3>2. step[<<m, f[m - 1]>>] \in S
      BY <3>1
    <3>3. \A i \in 0..m : i # m => i \in 0..(m - 1)
      BY <2>1
    <3> QED
      BY <3>2, <3>3
  <2>4. ChainOf(g, a, step, m)
    <3> SUFFICES ASSUME NEW k \in 0..m
                 PROVE  g[k] = IF k = 0 THEN a ELSE step[<<k, g[k - 1]>>]
      BY DEF ChainOf
    <3>1. k = m \/ k \in 0..(m - 1)
      BY <2>1
    <3>2. k # 0 => k - 1 \in 0..(m - 1) /\ g[k - 1] = f[k - 1]
      BY <2>1
    <3> QED
      BY <1>3, <2>2, <3>1, <3>2 DEF ChainOf
  <2> QED
    BY <2>3, <2>4
<1> QED
  BY <1>2, <1>3

LEMMA ChainsAgree ==
    ASSUME NEW a, NEW step, NEW n \in Nat, NEW m \in Nat, NEW k \in Nat, k <= n, k <= m,
           NEW f, NEW g, ChainOf(f, a, step, n), ChainOf(g, a, step, m)
    PROVE  f[k] = g[k]
<1> DEFINE T == {i \in 0..k : f[i] # g[i]}
<1> SUFFICES ASSUME T # {} PROVE FALSE
  OBVIOUS
<1>1. PICK i \in T : \A j \in T : ~(j < i)
  <2> T \in SUBSET Nat
    OBVIOUS
  <2> HIDE DEF T
  <2> QED
    BY Least
<1>2. i \in 0..k /\ i \in 0..n /\ i \in 0..m /\ f[i] # g[i]
  OBVIOUS
<1>3. /\ f[i] = IF i = 0 THEN a ELSE step[<<i, f[i - 1]>>]
      /\ g[i] = IF i = 0 THEN a ELSE step[<<i, g[i - 1]>>]
  BY <1>2, Zenon DEF ChainOf
<1>4. i # 0
  BY <1>2, <1>3, Zenon
<1>5. i - 1 \in 0..k /\ ~(i < i - 1) /\ i - 1 < i
  BY <1>2, <1>4
<1>6. i - 1 \notin T
  BY <1>1, <1>5
<1>7. f[i - 1] = g[i - 1]
  BY <1>5, <1>6
<1> QED
  BY <1>2, <1>3, <1>4, <1>7, Zenon

(* The table of all numbers. *)
ChainTable(f, a, step) == \A k \in Nat : f[k] = IF k = 0 THEN a ELSE step[<<k, f[k - 1]>>]

LEMMA ChainExists ==
    ASSUME NEW S, NEW a, NEW step, a \in S, \A k \in Nat, s \in S : step[<<k, s>>] \in S
    PROVE  \E f \in [Nat -> S] : ChainTable(f, a, step)
<1> DEFINE table(n) == CHOOSE f \in [0..n -> S] : ChainOf(f, a, step, n)
           g == [n \in Nat |-> table(n)[n]]
<1>1. \A n \in Nat : table(n) \in [0..n -> S] /\ ChainOf(table(n), a, step, n)
  BY ChainStarts
<1> HIDE DEF table
<1>2. \A n \in Nat : table(n)[n] = IF n = 0 THEN a ELSE step[<<n, table(n - 1)[n - 1]>>]
  <2> TAKE n \in Nat
  <2>0. ChainOf(table(n), a, step, n) /\ n \in 0..n
    BY <1>1
  <2>1. CASE n = 0
    BY <2>0, <2>1, Zenon DEF ChainOf
  <2>2. CASE n # 0
    <3>1. n - 1 \in Nat /\ n - 1 <= n /\ n - 1 <= n - 1
      BY <2>2
    <3>2. table(n)[n] = step[<<n, table(n)[n - 1]>>]
      BY <2>0, <2>2, Zenon DEF ChainOf
    <3>3. table(n)[n - 1] = table(n - 1)[n - 1]
      BY <1>1, <3>1, ChainsAgree
    <3> QED
      BY <2>2, <3>2, <3>3, Zenon
  <2> QED
    BY <2>1, <2>2
<1>3. g \in [Nat -> S]
  BY <1>1
<1>4. \A k \in Nat : k # 0 => k - 1 \in Nat
  OBVIOUS
<1>5. ChainTable(g, a, step)
  BY <1>2, <1>4, Zenon DEF ChainTable
<1> QED
  BY <1>3, <1>5

-----------------------------------------------------------------------------
(* A table of which each entry follows from a later one, or from none      *)

DescentTable(f, x, h, stops, a, next, step) ==
    f = [o \in x..h |-> IF o \in stops THEN a ELSE step[<<o, f[next[o]]>>]]

LEMMA DescentExists ==
    ASSUME NEW h \in Nat, NEW stops, NEW a, NEW next, NEW step,
           \A o \in 0..h : o \notin stops => next[o] \in (o + 1)..h
    PROVE  \E f : DescentTable(f, 0, h, stops, a, next, step)
<1> DEFINE T == {m \in 0..h : ~\E f : DescentTable(f, h - m, h, stops, a, next, step)}
<1>1. T = {}
  <2> SUFFICES ASSUME T # {} PROVE FALSE
    OBVIOUS
  <2>1. PICK m \in T : \A k \in T : ~(k < m)
    <3> T \in SUBSET Nat
      OBVIOUS
    <3> HIDE DEF T
    <3> QED
      BY Least
  <2>2. CASE m = 0
    <3>1. \A o \in h..h : o \in stops
      OBVIOUS
    <3>2. DescentTable([o \in h..h |-> a], h - 0, h, stops, a, next, step)
      BY <3>1 DEF DescentTable
    <3> QED
      BY <2>2, <3>2
  <2>3. CASE m # 0
    <3>1. m - 1 \in 0..h /\ m - 1 \notin T
      BY <2>1, <2>3
    <3>2. PICK f : DescentTable(f, h - (m - 1), h, stops, a, next, step)
      BY <3>1
    <3> DEFINE x == h - m
               g == [o \in x..h |-> IF o = x THEN IF o \in stops THEN a ELSE step[<<o, f[next[o]]>>]
                                    ELSE f[o]]
    <3>3. \A o \in x..h : g[o] = IF o \in stops THEN a ELSE step[<<o, g[next[o]]>>]
      <4> TAKE o \in x..h
      <4>1. o \in 0..h /\ (o \notin stops => next[o] \in (x + 1)..h)
        OBVIOUS
      <4>2. o \notin stops => g[next[o]] = f[next[o]]
        BY <4>1
      <4>3. CASE o = x
        BY <4>2, <4>3
      <4>4. CASE o # x
        <5>1. o \in (h - (m - 1))..h /\ g[o] = f[o]
          BY <4>4
        <5>2. f[o] = IF o \in stops THEN a ELSE step[<<o, f[next[o]]>>]
          BY <3>2, <5>1 DEF DescentTable
        <5> QED
          BY <4>2, <5>1, <5>2
      <4> QED
        BY <4>3, <4>4
    <3>4. DescentTable(g, h - m, h, stops, a, next, step)
      BY <3>3 DEF DescentTable
    <3> QED
      BY <3>4
  <2> QED
    BY <2>2, <2>3
<1>2. \E f : DescentTable(f, h - h, h, stops, a, next, step)
  BY <1>1
<1>3. h - h = 0
  OBVIOUS
<1> QED
  BY <1>2, <1>3
=============================================================================
