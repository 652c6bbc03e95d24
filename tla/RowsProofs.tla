----------------------------- MODULE RowsProofs -----------------------------
(***************************************************************************)
(* Lemmas about Rows, for tables and lists of amounts of any length, and   *)
(* the induction on natural numbers that they rest on.                     *)
(***************************************************************************)
EXTENDS Rows, FiniteSetTheorems, TLAPS

----------------------------------------------------------------------------
(* Induction and recursion over the natural numbers, stated of sets and    *)
(* functions.                                                              *)

\* A set of natural numbers that is not empty has a least element.
LEMMA LeastNumber ==
    ASSUME NEW T \in SUBSET Nat, T # {}
    PROVE  \E x \in T : \A y \in T : x <= y
<1>1. IsWellFoundedOn(OpToRel(<, Nat), Nat)
    BY NatLessThanWellFounded
<1>2. PICK x \in T : \A y \in T : ~(<<y, x>> \in OpToRel(<, Nat))
    BY <1>1, WFMin
<1>3. \A y \in T : ~(y < x)
    BY <1>2 DEF OpToRel
<1>4. QED
    BY <1>3

\* Induction: a set that has 0, and with a number the next one, has them all.
LEMMA Induction ==
    ASSUME NEW S, 0 \in S, \A n \in Nat : n \in S => n + 1 \in S
    PROVE  Nat \subseteq S
<1> DEFINE T == Nat \ S
<1>1. CASE T # {}
  <2>1. PICK x \in T : \A y \in T : x <= y
    BY <1>1, LeastNumber
  <2>2. x # 0
    OBVIOUS
  <2>3. x - 1 \in Nat /\ x - 1 \notin T
    BY <2>1, <2>2
  <2>4. x - 1 + 1 \in S
    BY <2>3
  <2>5. QED
    BY <2>1, <2>4
<1>2. QED
    BY <1>1

\* f starts with `base' and goes on, up to n, as `next' says.
Recurs(f, n, V, base, next) ==
    f \in [0 .. n -> V] /\ f[0] = base /\ \A i \in 1 .. n : f[i] = next[i][f[i - 1]]

\* Recursion: there is such a function.
LEMMA Recursion ==
    ASSUME NEW n \in Nat, NEW V, NEW base \in V, NEW next \in [1 .. n -> [V -> V]]
    PROVE  \E f : Recurs(f, n, V, base, next)
<1> DEFINE Upto(f, m) == /\ f \in [0 .. m -> V]
                         /\ f[0] = base /\ \A i \in 1 .. m : f[i] = next[i][f[i - 1]]
           S == {m \in Nat : m <= n => \E f : Upto(f, m)}
<1>1. 0 \in S
  <2>1. Upto([i \in 0 .. 0 |-> base], 0)
    OBVIOUS
  <2>2. QED
    BY <2>1
<1>2. ASSUME NEW m \in Nat, m \in S PROVE m + 1 \in S
  <2>1. SUFFICES ASSUME m + 1 <= n PROVE \E f : Upto(f, m + 1)
    OBVIOUS
  <2>2. PICK f : Upto(f, m)
    BY <1>2, <2>1
  <2> DEFINE g == [i \in 0 .. m + 1 |-> IF i <= m THEN f[i] ELSE next[m + 1][f[m]]]
  <2>3. f[m] \in V /\ m + 1 \in 1 .. n
    BY <2>1, <2>2
  <2>4. next[m + 1][f[m]] \in V
    BY <2>3
  <2>5. \A i \in 0 .. m + 1 : g[i] \in V
    BY <2>2, <2>4
  <2>6. g \in [0 .. m + 1 -> V] /\ g[0] = base
    <3>1. g \in [0 .. m + 1 -> V]
        BY ONLY <2>5
    <3>2. g[0] = f[0]
        BY 0 \in 0 .. m + 1, 0 <= m
    <3>3. QED
        BY <2>2, <3>1, <3>2
  <2>7. ASSUME NEW i \in 1 .. m + 1 PROVE g[i] = next[i][g[i - 1]]
    <3>1. i - 1 \in 0 .. m /\ g[i - 1] = f[i - 1]
        OBVIOUS
    <3>2. CASE i <= m
        BY <2>2, <3>1, <3>2
    <3>3. CASE ~(i <= m)
      <4>1. i = m + 1 /\ i - 1 = m
        BY <3>3
      <4>2. g[i] = next[m + 1][f[m]] /\ g[i - 1] = f[m]
        BY <3>1, <3>3, <4>1
      <4>3. QED
        BY <4>1, <4>2
    <3>4. QED
        BY <3>2, <3>3
  <2>8. QED
    BY <2>6, <2>7
<1>3. n \in S
    BY <1>1, <1>2, Induction
<1>4. PICK f : Upto(f, n)
    BY <1>3
<1>5. QED
    BY <1>4 DEF Recurs

----------------------------------------------------------------------------
(* Without.                                                                *)

\* What Without builds up, row after row.
LEMMA WithoutSteps ==
    ASSUME NEW A, NEW rows \in Seq(A), NEW S
    PROVE  \E kept \in [0 .. Len(rows) -> Seq(A)] :
               /\ Without(rows, S) = kept[Len(rows)]
               /\ kept[0] = <<>>
               /\ \A i \in 1 .. Len(rows) :
                      kept[i] = IF rows[i] \in S THEN kept[i - 1]
                                ELSE Append(kept[i - 1], rows[i])
<1> DEFINE n == Len(rows)
           next == [i \in 1 .. n |-> [x \in Seq(A) |->
                       IF rows[i] \in S THEN x ELSE Append(x, rows[i])]]
           Body(f) == [i \in 0 .. n |->
                          IF i = 0 THEN <<>>
                          ELSE IF rows[i] \in S THEN f[i - 1] ELSE Append(f[i - 1], rows[i])]
<1>1. n \in Nat /\ <<>> \in Seq(A)
    OBVIOUS
<1>2. \A i \in 1 .. n : next[i] \in [Seq(A) -> Seq(A)]
    OBVIOUS
<1>3. next \in [1 .. n -> [Seq(A) -> Seq(A)]]
    BY ONLY <1>2
<1>4. PICK f \in [0 .. n -> Seq(A)] :
          f[0] = <<>> /\ \A i \in 1 .. n : f[i] = next[i][f[i - 1]]
  <2>1. \E f : Recurs(f, n, Seq(A), <<>>, next)
    <3> HIDE DEF next, n
    <3>1. QED
        BY <1>1, <1>3, Recursion
  <2>2. QED
    BY <2>1 DEF Recurs
<1>5. ASSUME NEW i \in 1 .. n
      PROVE  f[i] = IF rows[i] \in S THEN f[i - 1] ELSE Append(f[i - 1], rows[i])
  <2>1. i - 1 \in 0 .. n /\ f[i - 1] \in Seq(A)
    BY <1>1
  <2>2. QED
    BY <1>4, <2>1
<1>6. f = Body(f)
  <2>1. ASSUME NEW i \in 0 .. n PROVE f[i] = Body(f)[i]
    <3>1. CASE i = 0
        BY <1>4, <3>1
    <3>2. CASE i # 0
      <4>1. i \in 1 .. n
        BY <1>1, <3>2
      <4>2. QED
        BY <1>5, <3>2, <4>1
    <3>3. QED
        BY <3>1, <3>2
  <2>2. QED
    BY <2>1
<1> DEFINE g == CHOOSE g : g = Body(g)
<1>7. g = Body(g)
    BY <1>6
<1>8. Without(rows, S) = g[n]
    BY DEF Without
<1> HIDE DEF g
<1>9. g[0] = <<>> /\ DOMAIN g = 0 .. n
    BY <1>1, <1>7
<1>10. ASSUME NEW i \in 1 .. n
       PROVE  g[i] = IF rows[i] \in S THEN g[i - 1] ELSE Append(g[i - 1], rows[i])
  <2>1. i \in 0 .. n /\ i # 0
    BY <1>1
  <2>2. g[i] = Body(g)[i]
    BY <1>7
  <2>3. QED
    BY <2>1, <2>2
<1>11. g \in [0 .. n -> Seq(A)]
  <2> DEFINE T == {i \in Nat : i <= n => g[i] \in Seq(A)}
  <2>1. 0 \in T
    BY <1>1, <1>9
  <2>2. ASSUME NEW i \in Nat, i \in T PROVE i + 1 \in T
    <3>1. SUFFICES ASSUME i + 1 <= n PROVE g[i + 1] \in Seq(A)
        OBVIOUS
    <3>2. g[i] \in Seq(A) /\ i + 1 \in 1 .. n /\ i + 1 - 1 = i
        BY <1>1, <2>2, <3>1
    <3>3. g[i + 1] = IF rows[i + 1] \in S THEN g[i] ELSE Append(g[i], rows[i + 1])
        BY <1>10, <3>2
    <3>4. QED
        BY <3>2, <3>3
  <2>3. Nat \subseteq T
    <3> HIDE DEF T
    <3>1. QED
        BY <2>1, <2>2, Induction
  <2>4. \A i \in 0 .. n : g[i] \in Seq(A)
    BY <1>1, <2>3
  <2>5. QED
    BY <1>7, <2>4
<1>12. QED
    BY <1>8, <1>9, <1>10, <1>11

\* h shows where the rows of w come from: the first m rows that are not in S.
Embeds(h, w, rows, m, S) ==
    /\ h \in [1 .. Len(w) -> 1 .. m]
    /\ \A i \in 1 .. Len(w) : w[i] = rows[h[i]] /\ rows[h[i]] \notin S
    /\ \A i, j \in 1 .. Len(w) : i < j => h[i] < h[j]
    /\ \A k \in 1 .. m : rows[k] \notin S => \E i \in 1 .. Len(w) : h[i] = k

\* One row more, that is in S.
LEMMA EmbedsSkip ==
    ASSUME NEW h, NEW w, Len(w) \in Nat, NEW rows, NEW m \in Nat, NEW S,
           Embeds(h, w, rows, m, S), rows[m + 1] \in S
    PROVE  Embeds(h, w, rows, m + 1, S)
<1>1. h \in [1 .. Len(w) -> 1 .. m + 1]
    BY DEF Embeds
<1>2. ASSUME NEW k \in 1 .. m + 1, rows[k] \notin S PROVE \E i \in 1 .. Len(w) : h[i] = k
  <2>1. k # m + 1
    BY <1>2
  <2>2. k \in 1 .. m
    BY <2>1
  <2>3. QED
    BY <1>2, <2>2 DEF Embeds
<1>3. QED
    BY <1>1, <1>2 DEF Embeds

\* One row more, that is not.
LEMMA EmbedsKeep ==
    ASSUME NEW A, NEW w \in Seq(A), NEW h, NEW rows \in Seq(A), NEW m \in Nat, NEW S,
           m < Len(rows), Embeds(h, w, rows, m, S), rows[m + 1] \notin S
    PROVE  \E g : Embeds(g, Append(w, rows[m + 1]), rows, m + 1, S)
<1> DEFINE n == Len(w)
           v == Append(w, rows[m + 1])
           g == [i \in 1 .. n + 1 |-> IF i <= n THEN h[i] ELSE m + 1]
<1>0. n \in Nat /\ m + 1 \in 1 .. Len(rows)
    OBVIOUS
<1>1. Len(v) = n + 1 /\ v[n + 1] = rows[m + 1] /\ \A i \in 1 .. n : v[i] = w[i]
    BY <1>0
<1>2. g[n + 1] = m + 1 /\ DOMAIN g = 1 .. n + 1
    BY <1>0
<1>3. \A i \in 1 .. n : g[i] = h[i] /\ h[i] \in 1 .. m
    BY <1>0 DEF Embeds
<1>4. g \in [1 .. n + 1 -> 1 .. m + 1]
  <2>1. ASSUME NEW i \in 1 .. n + 1 PROVE g[i] \in 1 .. m + 1
    <3>1. i \in 1 .. n \/ i = n + 1
        BY <1>0
    <3> HIDE DEF g
    <3>2. QED
        BY <1>2, <1>3, <3>1
  <2> HIDE DEF n
  <2>2. QED
    BY ONLY <2>1
<1> HIDE DEF g, v
<1>5. ASSUME NEW i \in 1 .. n + 1 PROVE v[i] = rows[g[i]] /\ rows[g[i]] \notin S
  <2>1. CASE i = n + 1
    BY <1>1, <1>2, <2>1
  <2>2. CASE i \in 1 .. n
    BY <1>1, <1>3, <2>2 DEF Embeds
  <2>3. QED
    BY <1>0, <2>1, <2>2
<1>6. ASSUME NEW i \in 1 .. n + 1, NEW j \in 1 .. n + 1, i < j PROVE g[i] < g[j]
  <2>1. i \in 1 .. n
    BY <1>0, <1>6
  <2>2. CASE j = n + 1
    BY <1>2, <1>3, <2>1, <2>2
  <2>3. CASE j \in 1 .. n
    BY <1>3, <1>6, <2>1, <2>3 DEF Embeds
  <2>4. QED
    BY <1>0, <2>2, <2>3
<1>7. ASSUME NEW k \in 1 .. m + 1, rows[k] \notin S PROVE \E i \in 1 .. n + 1 : g[i] = k
  <2>1. CASE k = m + 1
    BY <1>0, <1>2, <2>1
  <2>2. CASE k \in 1 .. m
    <3>1. PICK i \in 1 .. n : h[i] = k
        BY <1>7, <2>2 DEF Embeds
    <3>2. i \in 1 .. n + 1 /\ g[i] = k
        BY <1>0, <1>3, <3>1
    <3>3. QED
        BY <3>2
  <2>3. QED
    BY <2>1, <2>2
<1>8. Embeds(g, v, rows, m + 1, S)
    BY <1>1, <1>4, <1>5, <1>6, <1>7 DEF Embeds
<1>9. QED
    BY <1>8 DEF v

\* Without has exactly the rows that are not in S, each once, and in their order.
LEMMA WithoutRows ==
    ASSUME NEW A, NEW rows \in Seq(A), NEW S
    PROVE  /\ Without(rows, S) \in Seq(A)
           /\ \E h : Embeds(h, Without(rows, S), rows, Len(rows), S)
<1>1. PICK kept \in [0 .. Len(rows) -> Seq(A)] :
          /\ Without(rows, S) = kept[Len(rows)]
          /\ kept[0] = <<>>
          /\ \A i \in 1 .. Len(rows) :
                 kept[i] = IF rows[i] \in S THEN kept[i - 1] ELSE Append(kept[i - 1], rows[i])
    BY WithoutSteps
<1>2. Len(rows) \in Nat
    OBVIOUS
<1> DEFINE T == {m \in Nat : m <= Len(rows) => \E h : Embeds(h, kept[m], rows, m, S)}
<1>3. 0 \in T
  <2>1. Embeds(<<>>, kept[0], rows, 0, S)
    BY <1>1 DEF Embeds
  <2>2. QED
    BY <2>1
<1>4. ASSUME NEW m \in Nat, m \in T PROVE m + 1 \in T
  <2>1. SUFFICES ASSUME m + 1 <= Len(rows)
                 PROVE  \E h : Embeds(h, kept[m + 1], rows, m + 1, S)
    OBVIOUS
  <2>2. PICK h : Embeds(h, kept[m], rows, m, S)
    BY <1>2, <1>4, <2>1
  <2>3. kept[m] \in Seq(A) /\ Len(kept[m]) \in Nat /\ m < Len(rows)
    BY <1>2, <2>1
  <2>4. kept[m + 1] = IF rows[m + 1] \in S THEN kept[m] ELSE Append(kept[m], rows[m + 1])
    BY <1>1, <1>2, <2>1
  <2>5. CASE rows[m + 1] \in S
    BY <2>2, <2>3, <2>4, <2>5, EmbedsSkip
  <2>6. CASE rows[m + 1] \notin S
    <3>1. \E g : Embeds(g, Append(kept[m], rows[m + 1]), rows, m + 1, S)
        BY <2>2, <2>3, <2>6, EmbedsKeep
    <3>2. QED
        BY <2>4, <2>6, <3>1
  <2>7. QED
    BY <2>5, <2>6
<1>5. Nat \subseteq T
  <2> HIDE DEF T
  <2>1. QED
    BY <1>3, <1>4, Induction
<1>6. \E h : Embeds(h, kept[Len(rows)], rows, Len(rows), S)
    BY <1>2, <1>5
<1>7. QED
    BY <1>1, <1>2, <1>6

----------------------------------------------------------------------------
(* Sum.                                                                    *)

\* What Sum builds up, amount after amount.
LEMMA SumSteps ==
    ASSUME NEW amounts \in Seq(Int)
    PROVE  \E sum \in [0 .. Len(amounts) -> Int] :
               /\ Sum(amounts) = sum[Len(amounts)]
               /\ sum[0] = 0
               /\ \A i \in 1 .. Len(amounts) : sum[i] = sum[i - 1] + amounts[i]
<1> DEFINE n == Len(amounts)
           next == [i \in 1 .. n |-> [x \in Int |-> x + amounts[i]]]
           Body(f) == [i \in 0 .. n |-> IF i = 0 THEN 0 ELSE f[i - 1] + amounts[i]]
<1>1. n \in Nat /\ \A i \in 1 .. n : amounts[i] \in Int
    OBVIOUS
<1>2. \A i \in 1 .. n : next[i] \in [Int -> Int]
    BY <1>1
<1>3. next \in [1 .. n -> [Int -> Int]]
    BY ONLY <1>2
<1>4. PICK f \in [0 .. n -> Int] :
          f[0] = 0 /\ \A i \in 1 .. n : f[i] = next[i][f[i - 1]]
  <2>1. \E f : Recurs(f, n, Int, 0, next)
    <3>1. 0 \in Int
        OBVIOUS
    <3> HIDE DEF next, n
    <3>2. QED
        BY <1>1, <1>3, <3>1, Recursion
  <2>2. QED
    BY <2>1 DEF Recurs
<1>5. ASSUME NEW i \in 1 .. n PROVE f[i] = f[i - 1] + amounts[i]
  <2>1. i - 1 \in 0 .. n /\ f[i - 1] \in Int
    BY <1>1
  <2>2. QED
    BY <1>4, <2>1
<1>6. f = Body(f)
  <2>1. ASSUME NEW i \in 0 .. n PROVE f[i] = Body(f)[i]
    <3>1. CASE i = 0
        BY <1>4, <3>1
    <3>2. CASE i # 0
      <4>1. i \in 1 .. n
        BY <1>1, <3>2
      <4>2. QED
        BY <1>5, <3>2, <4>1
    <3>3. QED
        BY <3>1, <3>2
  <2>2. QED
    BY <2>1
<1> DEFINE g == CHOOSE g : g = Body(g)
<1>7. g = Body(g)
    BY <1>6
<1>8. Sum(amounts) = g[n]
    BY DEF Sum
<1> HIDE DEF g
<1>9. g[0] = 0 /\ DOMAIN g = 0 .. n
    BY <1>1, <1>7
<1>10. ASSUME NEW i \in 1 .. n PROVE g[i] = g[i - 1] + amounts[i]
  <2>1. i \in 0 .. n /\ i # 0
    BY <1>1
  <2>2. g[i] = Body(g)[i]
    BY <1>7
  <2>3. QED
    BY <2>1, <2>2
<1>11. g \in [0 .. n -> Int]
  <2> DEFINE T == {i \in Nat : i <= n => g[i] \in Int}
  <2>1. 0 \in T
    BY <1>1, <1>9
  <2>2. ASSUME NEW i \in Nat, i \in T PROVE i + 1 \in T
    <3>1. SUFFICES ASSUME i + 1 <= n PROVE g[i + 1] \in Int
        OBVIOUS
    <3>2. g[i] \in Int /\ i + 1 \in 1 .. n /\ i + 1 - 1 = i
        BY <1>1, <2>2, <3>1
    <3>3. g[i + 1] = g[i] + amounts[i + 1]
        BY <1>10, <3>2
    <3>4. QED
        BY <1>1, <3>2, <3>3
  <2>3. Nat \subseteq T
    <3> HIDE DEF T
    <3>1. QED
        BY <2>1, <2>2, Induction
  <2>4. \A i \in 0 .. n : g[i] \in Int
    BY <1>1, <2>3
  <2>5. QED
    BY <1>7, <2>4
<1>12. QED
    BY <1>8, <1>9, <1>10, <1>11

\* A sum of integers is one.
LEMMA SumInt == ASSUME NEW amounts \in Seq(Int) PROVE Sum(amounts) \in Int
<1>1. Len(amounts) \in 0 .. Len(amounts)
    OBVIOUS
<1>2. QED
    BY <1>1, SumSteps

\* Inequalities chain and add up, and products of integers are integers.
LEMMA Chained ==
    ASSUME NEW x \in Int, NEW y \in Int, NEW z \in Int, x <= y, y <= z PROVE x <= z
OBVIOUS

\* Inequalities add up.
LEMMA Added ==
    ASSUME NEW x \in Int, NEW y \in Int, NEW z \in Int, NEW w \in Int, x <= y, z <= w
    PROVE  x + z <= y + w
OBVIOUS

\* A product of integers is one.
LEMMA Product == ASSUME NEW x \in Int, NEW y \in Int PROVE x * y \in Int
OBVIOUS

\* Amounts that are each at most one of b's, none of which is taken twice, add up to at
\* most what b's do.
LEMMA SumSelected ==
    ASSUME NEW a \in Seq(Int), NEW b \in Seq(Nat), NEW h \in [1 .. Len(a) -> 1 .. Len(b)],
           \A i, j \in 1 .. Len(a) : i < j => h[i] < h[j],
           \A i \in 1 .. Len(a) : a[i] <= b[h[i]]
    PROVE  Sum(a) <= Sum(b)
<1> DEFINE n == Len(a)
           N == Len(b)
<1>0. n \in Nat /\ N \in Nat /\ b \in Seq(Int) /\ \A k \in 1 .. N : b[k] \in Nat
    OBVIOUS
<1>1. PICK f \in [0 .. n -> Int] :
          Sum(a) = f[n] /\ f[0] = 0 /\ \A i \in 1 .. n : f[i] = f[i - 1] + a[i]
    BY SumSteps
<1>2. PICK g \in [0 .. N -> Int] :
          Sum(b) = g[N] /\ g[0] = 0 /\ \A i \in 1 .. N : g[i] = g[i - 1] + b[i]
    BY <1>0, SumSteps
<1>3. \A i \in 1 .. n : a[i] \in Int /\ h[i] \in 1 .. N /\ a[i] <= b[h[i]]
    OBVIOUS
<1>h. \A i, j \in 1 .. n : i < j => h[i] < h[j]
    OBVIOUS
<1> HIDE DEF n, N
<1>i. /\ \A x \in 1 .. N : x - 1 \in 0 .. N /\ 0 \in 0 .. x - 1 /\ x \in 0 .. N
      /\ \A x, y \in 1 .. N : x < y => x \in 0 .. y - 1
    BY <1>0
\* g does not decrease.
<1>4. \A m \in 0 .. N : \A k \in 0 .. m : g[k] <= g[m]
  <2> DEFINE T == {m \in Nat : m <= N => \A k \in 0 .. m : g[k] <= g[m]}
  <2>1. 0 \in T
    BY <1>0, <1>2
  <2>2. ASSUME NEW m \in Nat, m \in T PROVE m + 1 \in T
    <3>1. SUFFICES ASSUME m + 1 <= N, NEW k \in 0 .. m + 1 PROVE g[k] <= g[m + 1]
        OBVIOUS
    <3>2. m + 1 \in 1 .. N /\ m \in 0 .. N /\ k \in 0 .. N
        BY <1>0, <3>1
    <3>3. g[m + 1] = g[m] + b[m + 1] /\ b[m + 1] \in Nat /\ g[m] \in Int /\ g[k] \in Int
        BY <1>0, <1>2, <3>2
    <3>4. CASE k = m + 1
        BY <3>3, <3>4
    <3>5. CASE k \in 0 .. m
      <4>1. g[k] <= g[m]
        BY <1>0, <2>2, <3>1, <3>5
      <4>2. QED
        BY <3>3, <4>1
    <3>6. QED
        BY <3>4, <3>5
  <2>3. Nat \subseteq T
    <3> HIDE DEF T
    <3>1. QED
        BY <2>1, <2>2, Induction
  <2>4. QED
    BY <1>0, <2>3
\* The first i amounts of a are covered by those of b up to h[i].
<1>5. \A i \in 1 .. n : f[i] <= g[h[i]]
  <2> DEFINE T == {i \in Nat : i + 1 <= n => f[i + 1] <= g[h[i + 1]]}
  <2>1. 0 \in T
    <3>1. SUFFICES ASSUME 1 <= n PROVE f[1] <= g[h[1]]
        OBVIOUS
    <3>2. 1 \in 1 .. n /\ h[1] \in 1 .. N /\ h[1] - 1 \in 0 .. N /\ 0 \in 0 .. h[1] - 1
      <4>1. 1 \in 1 .. n
        BY <1>0, <3>1
      <4>2. h[1] \in 1 .. N
        BY <1>3, <4>1
      <4>3. QED
        BY <1>i, <4>1, <4>2
    <3>3. f[1] = f[0] + a[1] /\ f[1] = a[1]
        BY <1>1, <1>3, <3>2
    <3>4. g[h[1]] = g[h[1] - 1] + b[h[1]] /\ g[h[1] - 1] \in Int /\ b[h[1]] \in Nat
        BY <1>0, <1>2, <3>2
    <3>5. 0 <= g[h[1] - 1]
        BY <1>2, <1>4, <3>2
    <3>6. QED
        BY <1>3, <3>2, <3>3, <3>4, <3>5
  <2>2. ASSUME NEW k \in Nat, k \in T PROVE k + 1 \in T
    <3> DEFINE i == k + 1
               j == k + 2
    <3>1. SUFFICES ASSUME j <= n PROVE f[j] <= g[h[j]]
        OBVIOUS
    <3>2. i \in 1 .. n /\ j \in 1 .. n /\ i < j /\ j - 1 = i /\ i \in 0 .. n
        BY <1>0, <3>1
    <3>3. f[i] <= g[h[i]]
        BY <1>0, <2>2, <3>1
    <3> HIDE DEF i, j
    <3>4. h[i] \in 1 .. N /\ h[j] \in 1 .. N /\ h[i] < h[j]
        BY <1>3, <1>h, <3>2
    <3>5. h[j] - 1 \in 0 .. N /\ h[i] \in 0 .. h[j] - 1
        BY <1>i, <3>4
    <3>6. g[h[i]] <= g[h[j] - 1]
        BY <1>4, <3>5
    <3>7. g[h[j]] = g[h[j] - 1] + b[h[j]] /\ b[h[j]] \in Nat
        BY <1>0, <1>2, <3>4
    <3>8. f[j] = f[i] + a[j] /\ f[i] \in Int /\ a[j] \in Int /\ a[j] <= b[h[j]]
        BY <1>1, <1>3, <3>2
    <3>9. g[h[i]] \in Int /\ g[h[j] - 1] \in Int
        BY <1>i, <1>2, <3>4, <3>5
    <3>10. f[i] <= g[h[j] - 1]
        BY <3>3, <3>6, <3>8, <3>9, Chained
    <3>11. b[h[j]] \in Int
        BY <3>7
    <3>12. f[i] + a[j] <= g[h[j] - 1] + b[h[j]]
        BY <3>8, <3>9, <3>10, <3>11, Added
    <3>13. QED
        BY <3>7, <3>8, <3>12
  <2>3. Nat \subseteq T
    <3> HIDE DEF T
    <3>1. QED
        BY <2>1, <2>2, Induction
  <2>4. ASSUME NEW i \in 1 .. n PROVE f[i] <= g[h[i]]
    <3>1. i - 1 \in Nat /\ i - 1 + 1 = i /\ i <= n
        BY <1>0
    <3>2. i - 1 \in T
        BY <2>3, <3>1
    <3>3. QED
        BY <3>1, <3>2
  <2>5. QED
    BY <2>4
<1>6. CASE n = 0
  <2>1. 0 <= g[N]
    BY <1>0, <1>2, <1>4
  <2>2. QED
    BY <1>1, <1>2, <1>6, <2>1
<1>7. CASE n # 0
  <2>1. n \in 1 .. n /\ h[n] \in 1 .. N /\ h[n] \in 0 .. N /\ N \in 0 .. N
    BY <1>0, <1>3, <1>7
  <2>2. f[n] <= g[h[n]] /\ g[h[n]] <= g[N]
    BY <1>4, <1>5, <2>1
  <2>3. f[n] \in Int /\ g[h[n]] \in Int /\ g[N] \in Int
    BY <1>0, <1>1, <1>2, <2>1
  <2>4. QED
    BY <1>1, <1>2, <2>2, <2>3
<1>8. QED
    BY <1>6, <1>7

\* Amounts whose k-fold is each at most the c-fold of another's add up in the same way.
LEMMA SumScaled ==
    ASSUME NEW a \in Seq(Int), NEW d \in Seq(Int), Len(a) = Len(d),
           NEW k \in Int, NEW c \in Int,
           \A i \in 1 .. Len(a) : k * a[i] <= c * d[i]
    PROVE  k * Sum(a) <= c * Sum(d)
<1> DEFINE n == Len(a)
<1>0. n \in Nat /\ n = Len(d) /\ \A i \in 1 .. n : a[i] \in Int /\ d[i] \in Int
    OBVIOUS
<1>1. PICK f \in [0 .. n -> Int] :
          Sum(a) = f[n] /\ f[0] = 0 /\ \A i \in 1 .. n : f[i] = f[i - 1] + a[i]
    BY SumSteps
<1>2. PICK g \in [0 .. n -> Int] :
          Sum(d) = g[n] /\ g[0] = 0 /\ \A i \in 1 .. n : g[i] = g[i - 1] + d[i]
    BY <1>0, SumSteps
<1>3. \A i \in 1 .. n : k * a[i] <= c * d[i]
    OBVIOUS
<1> HIDE DEF n
<1> DEFINE T == {m \in Nat : m <= n => k * f[m] <= c * g[m]}
<1>4. 0 \in T
    BY <1>1, <1>2
<1>5. ASSUME NEW m \in Nat, m \in T PROVE m + 1 \in T
  <2>1. SUFFICES ASSUME m + 1 <= n PROVE k * f[m + 1] <= c * g[m + 1]
    OBVIOUS
  <2>2. m + 1 \in 1 .. n /\ m \in 0 .. n /\ m + 1 - 1 = m
    BY <1>0, <2>1
  <2>3. f[m + 1] = f[m] + a[m + 1] /\ g[m + 1] = g[m] + d[m + 1]
    BY <1>1, <1>2, <2>2
  <2>4. f[m] \in Int /\ g[m] \in Int /\ a[m + 1] \in Int /\ d[m + 1] \in Int
    BY <1>0, <1>1, <1>2, <2>2
  <2>5. \A x, y, z \in Int : x * (y + z) = x * y + x * z
    OBVIOUS
  <2>6. k * f[m + 1] = k * f[m] + k * a[m + 1] /\ c * g[m + 1] = c * g[m] + c * d[m + 1]
    BY <2>3, <2>4, <2>5
  <2>7. k * f[m] <= c * g[m] /\ k * a[m + 1] <= c * d[m + 1]
    BY <1>0, <1>3, <1>5, <2>1, <2>2
  <2>8. k * f[m] \in Int /\ c * g[m] \in Int /\ k * a[m + 1] \in Int /\ c * d[m + 1] \in Int
    BY <2>4, Product
  <2>9. k * f[m] + k * a[m + 1] <= c * g[m] + c * d[m + 1]
    BY <2>7, <2>8, Added
  <2>10. QED
    BY <2>6, <2>9
<1>6. Nat \subseteq T
  <2> HIDE DEF T
  <2>1. QED
    BY <1>4, <1>5, Induction
<1>7. QED
    BY <1>0, <1>1, <1>2, <1>6

\* A sum of amounts none of which is negative is not.
LEMMA SumNat == ASSUME NEW a \in Seq(Nat) PROVE Sum(a) \in Nat
<1>1. a \in Seq(Int) /\ \A i \in 1 .. Len(a) : a[i] \in Nat
    OBVIOUS
<1>2. \A i \in 1 .. Len(a) : 0 * a[i] <= 1 * a[i]
  <2>1. \A x \in Nat : 0 * x <= 1 * x
    OBVIOUS
  <2>2. QED
    BY <1>1, <2>1
<1>3. ASSUME NEW z \in Int, NEW e \in Int, z = 0, e = 1
      PROVE  z * Sum(a) <= e * Sum(a)
  <2>1. \A i \in 1 .. Len(a) : z * a[i] <= e * a[i]
    BY <1>2, <1>3
  <2>2. QED
    BY <1>1, <2>1, SumScaled
<1>4. QED
    BY <1>1, <1>3, SumInt

\* Two sums that differ in one amount.
LEMMA SumChanged ==
    ASSUME NEW a \in Seq(Int), NEW b \in Seq(Int), Len(a) = Len(b), NEW k \in 1 .. Len(a),
           \A i \in 1 .. Len(a) : i # k => b[i] = a[i]
    PROVE  Sum(b) = Sum(a) + b[k] - a[k]
<1> DEFINE n == Len(a)
<1>0. n \in Nat /\ n = Len(b) /\ k \in 1 .. n /\ \A i \in 1 .. n : a[i] \in Int /\ b[i] \in Int
    OBVIOUS
<1>1. PICK f \in [0 .. n -> Int] :
          Sum(a) = f[n] /\ f[0] = 0 /\ \A i \in 1 .. n : f[i] = f[i - 1] + a[i]
    BY SumSteps
<1>2. PICK g \in [0 .. n -> Int] :
          Sum(b) = g[n] /\ g[0] = 0 /\ \A i \in 1 .. n : g[i] = g[i - 1] + b[i]
  <2>1. PICK g \in [0 .. Len(b) -> Int] :
            /\ Sum(b) = g[Len(b)] /\ g[0] = 0
            /\ \A i \in 1 .. Len(b) : g[i] = g[i - 1] + b[i]
    BY SumSteps
  <2>2. n = Len(b)
    OBVIOUS
  <2> HIDE DEF n
  <2>3. QED
    BY <2>1, <2>2
<1>3. \A i \in 1 .. n : i # k => b[i] = a[i]
    OBVIOUS
<1> HIDE DEF n
<1> DEFINE T == {m \in Nat : m <= n => g[m] = f[m] + (IF m < k THEN 0 ELSE b[k] - a[k])}
<1>4. 0 \in T
    BY <1>0, <1>1, <1>2
<1>5. ASSUME NEW m \in Nat, m \in T PROVE m + 1 \in T
  <2>1. SUFFICES ASSUME m + 1 <= n
                 PROVE  g[m + 1] = f[m + 1] + (IF m + 1 < k THEN 0 ELSE b[k] - a[k])
    OBVIOUS
  <2>2. m + 1 \in 1 .. n /\ m \in 0 .. n /\ m + 1 - 1 = m
    BY <1>0, <2>1
  <2>3. f[m + 1] = f[m] + a[m + 1] /\ g[m + 1] = g[m] + b[m + 1]
    BY <1>1, <1>2, <2>2
  <2>4. /\ f[m] \in Int /\ g[m] \in Int /\ a[m + 1] \in Int /\ b[m + 1] \in Int
        /\ a[k] \in Int /\ b[k] \in Int
    BY <1>0, <1>1, <1>2, <2>2
  <2>5. g[m] = f[m] + (IF m < k THEN 0 ELSE b[k] - a[k])
    BY <1>0, <1>5, <2>1
  <2>6. CASE m + 1 = k
    BY <2>3, <2>4, <2>5, <2>6
  <2>7. CASE m + 1 # k
    <3>1. b[m + 1] = a[m + 1] /\ (m < k <=> m + 1 < k)
        BY <1>0, <1>3, <2>2, <2>7
    <3>2. CASE m < k
      <4>1. g[m] = f[m] + 0 /\ m + 1 < k
        BY <2>5, <3>1, <3>2
      <4>2. g[m + 1] = f[m + 1] + 0
        BY <2>3, <2>4, <3>1, <4>1
      <4>3. QED
        BY <4>1, <4>2
    <3>3. CASE ~(m < k)
      <4>1. g[m] = f[m] + (b[k] - a[k]) /\ ~(m + 1 < k)
        BY <2>5, <3>1, <3>3
      <4>2. PICK d \in Int : d = b[k] - a[k]
        BY <2>4
      <4>3. g[m] = f[m] + d
        BY <4>1, <4>2
      <4>4. g[m + 1] = f[m + 1] + d
        BY <2>3, <2>4, <3>1, <4>3
      <4>5. QED
        BY <4>1, <4>2, <4>4
    <3>4. QED
        BY <3>2, <3>3
  <2>8. QED
    BY <2>6, <2>7
<1>6. Nat \subseteq T
  <2> HIDE DEF T
  <2>1. QED
    BY <1>4, <1>5, Induction
<1>7. g[n] = f[n] + (b[k] - a[k]) /\ f[n] \in Int /\ a[k] \in Int /\ b[k] \in Int
  <2>1. n \in T /\ ~(n < k) /\ n \in 0 .. n
    BY <1>0, <1>6
  <2>2. QED
    BY <1>0, <1>1, <2>1
<1>8. QED
    BY <1>1, <1>2, <1>7

----------------------------------------------------------------------------
(* Places in an order.                                                     *)

\* R orders 1 .. n: of two different numbers one is before the other.
StrictOrder(R, n) ==
    /\ \A i \in 1 .. n : <<i, i>> \notin R
    /\ \A i, j, k \in 1 .. n : <<i, j>> \in R /\ <<j, k>> \in R => <<i, k>> \in R
    /\ \A i, j \in 1 .. n : i # j => <<i, j>> \in R \/ <<j, i>> \in R

Before(R, n, i) == {j \in 1 .. n : <<j, i>> \in R}

\* Every place of a strict order is taken.
LEMMA Ranked ==
    ASSUME NEW n \in Nat, NEW R, StrictOrder(R, n), NEW k \in 1 .. n
    PROVE  \E i \in 1 .. n : Cardinality(Before(R, n, i)) = k - 1
<1> DEFINE D == 1 .. n
           rank == [i \in D |-> Cardinality(Before(R, n, i))]
           T == {m \in 0 .. n - 1 : m # k - 1}
<1>1. IsFiniteSet(D) /\ Cardinality(D) = n
    BY FS_Interval
<1>2. ASSUME NEW i \in D
      PROVE  /\ IsFiniteSet(Before(R, n, i)) /\ Cardinality(Before(R, n, i)) \in 0 .. n - 1
  <2>1. Before(R, n, i) \in SUBSET D /\ i \notin Before(R, n, i)
    BY DEF Before, StrictOrder
  <2>2. /\ IsFiniteSet(Before(R, n, i)) /\ Cardinality(Before(R, n, i)) <= n
        /\ Cardinality(Before(R, n, i)) # n
    BY <1>1, <2>1, FS_Subset
  <2>3. Cardinality(Before(R, n, i)) \in Nat
    BY <2>2, FS_CardinalityType
  <2>4. QED
    BY <2>2, <2>3
<1>3. ASSUME NEW i \in D, NEW j \in D, <<i, j>> \in R
      PROVE  rank[i] # rank[j]
  <2>1. Before(R, n, i) \in SUBSET Before(R, n, j)
    BY <1>3 DEF Before, StrictOrder
  <2>2. i \in Before(R, n, j) /\ i \notin Before(R, n, i)
    BY <1>3 DEF Before, StrictOrder
  <2>3. QED
    BY <1>2, <2>1, <2>2, FS_Subset
<1>4. \A i, j \in D : i # j => rank[i] # rank[j]
    BY <1>3 DEF StrictOrder
<1>5. SUFFICES ASSUME \A i \in D : rank[i] # k - 1 PROVE FALSE
    OBVIOUS
<1>6. IsFiniteSet(T) /\ Cardinality(T) = n - 1
  <2>1. IsFiniteSet(0 .. n - 1) /\ Cardinality(0 .. n - 1) = n
    BY FS_Interval
  <2>2. T = (0 .. n - 1) \ {k - 1} /\ k - 1 \in 0 .. n - 1
    OBVIOUS
  <2>3. Cardinality(T) = Cardinality(0 .. n - 1) - 1 /\ IsFiniteSet(T)
    <3> HIDE DEF T
    <3>1. QED
        BY <2>1, <2>2, FS_RemoveElement
  <2>4. QED
    BY <2>1, <2>3
<1>7. rank \in [D -> T]
    BY <1>2, <1>5
<1> HIDE DEF D, rank, T
<1>8. n - 1 < n
    OBVIOUS
<1>9. \E i, j \in D : i # j /\ rank[i] = rank[j]
    BY <1>1, <1>6, <1>7, <1>8, FS_PigeonHole
<1>10. QED
    BY <1>4, <1>9
=============================================================================
