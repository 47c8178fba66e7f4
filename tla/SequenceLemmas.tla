--------------------------- MODULE SequenceLemmas ---------------------------
(***************************************************************************)
(* Induction over the natural numbers, and what it gives: the extreme      *)
(* places of a set of places, that a recursion defines a function and      *)
(* keeps an invariant, and what Subsequence copies.  Instead of an         *)
(* operator a lemma takes a set, a function, or a predicate of its own.    *)
(***************************************************************************)
EXTENDS Subsequences, WellFoundedInduction, TLAPS

\* A set that holds 0 and the successor of each of its elements is Nat.
LEMMA SetInduction ==
  ASSUME NEW X \in SUBSET Nat, 0 \in X, \A n \in X : n + 1 \in X
  PROVE  X = Nat
<1> SUFFICES ASSUME X # Nat PROVE FALSE
  OBVIOUS
<1> DEFINE T == Nat \ X
<1> DEFINE R == OpToRel(<, Nat)
<1>1. IsWellFoundedOn(R, Nat)
  BY NatLessThanWellFounded
<1>2. T # {} /\ T \subseteq Nat
  OBVIOUS
<1>3. PICK m \in T : \A y \in T : ~(<<y, m>> \in R)
  <2> HIDE DEF R, T
  <2> QED BY <1>1, <1>2, WFMin
<1>4. \A y \in T : ~(y < m)
  BY <1>3 DEF OpToRel
<1> QED
  BY <1>4

\* A function that every step keeps in its set: what a recursion preserves.
LEMMA StaysIn ==
  ASSUME NEW n \in Nat, NEW S, NEW g, g[0] \in S[0],
         \A k \in 1..n : g[k - 1] \in S[k - 1] => g[k] \in S[k]
  PROVE  \A k \in 0..n : g[k] \in S[k]
<1> DEFINE X == {k \in Nat : k <= n => g[k] \in S[k]}
<1>1. 0 \in X
  OBVIOUS
<1>2. ASSUME NEW k \in X PROVE k + 1 \in X
  <2> SUFFICES ASSUME k + 1 <= n PROVE g[k + 1] \in S[k + 1]
    OBVIOUS
  <2>1. k + 1 \in 1..n /\ (k + 1) - 1 = k /\ g[k] \in S[k]
    OBVIOUS
  <2> QED BY <2>1
<1>3. X = Nat
  <2> HIDE DEF X
  <2> QED BY <1>1, <1>2, SetInduction DEF X
<1>4. ASSUME NEW k \in 0..n PROVE g[k] \in S[k]
  <2>1. k \in X
    <3> HIDE DEF X
    <3> QED BY <1>3
  <2> QED BY <2>1
<1> QED BY <1>4

\* f begins with a and goes on, at k, with what e[k] makes of what was before.
StartsAndSteps(f, n, a, e) ==
  f[0] = a /\ \A k \in 1..n : f[k] = e[k][f[k - 1]]

\* A set of places that is not empty has a last one.
LEMMA Greatest ==
  ASSUME NEW n \in Nat, NEW S \in SUBSET (1..n), S # {}
  PROVE  \E m \in S : \A j \in S : j <= m
<1> DEFINE HasGreatest(T) == \E m \in T : \A j \in T : j <= m
<1> DEFINE P(k) == \A T \in SUBSET (1..k) : T # {} => HasGreatest(T)
<1> DEFINE X == {k \in Nat : P(k)}
<1>1. 0 \in X
  <2>1. \A T \in SUBSET (1..0) : T = {}
    OBVIOUS
  <2> HIDE DEF HasGreatest
  <2> QED BY <2>1
<1>2. ASSUME NEW k \in X PROVE k + 1 \in X
  <2>1. SUFFICES ASSUME NEW T \in SUBSET (1..(k + 1)), T # {} PROVE HasGreatest(T)
    OBVIOUS
  <2>2. CASE k + 1 \in T
    BY <2>2
  <2>3. CASE k + 1 \notin T
    <3>1. T \in SUBSET (1..k)
      BY <2>3
    <3>2. P(k)
      OBVIOUS
    <3> HIDE DEF HasGreatest
    <3> QED BY <2>1, <3>1, <3>2
  <2> QED
    BY <2>2, <2>3
<1>3. X = Nat
  <2> HIDE DEF X
  <2> QED BY <1>1, <1>2, SetInduction DEF X
<1>4. n \in X
  <2> HIDE DEF X
  <2> QED BY <1>3
<1>5. HasGreatest(S)
  <2> HIDE DEF HasGreatest
  <2> QED BY <1>4
<1> QED
  BY <1>5

\* A set of places that is not empty has a first one.
LEMMA Least ==
  ASSUME NEW S \in SUBSET Nat, S # {}
  PROVE  \E m \in S : \A j \in S : m <= j
<1> DEFINE R == OpToRel(<, Nat)
<1>1. IsWellFoundedOn(R, Nat)
  BY NatLessThanWellFounded
<1>2. PICK m \in S : \A y \in S : ~(<<y, m>> \in R)
  <2> HIDE DEF R
  <2> QED BY <1>1, WFMin
<1>3. \A y \in S : ~(y < m)
  BY <1>2 DEF OpToRel
<1> QED BY <1>3

\* There is a function that begins and goes on as told.
LEMMA RecursionExists ==
  ASSUME NEW A, NEW a \in A, NEW n \in Nat, NEW e,
         \A k \in 1..n : \A x \in A : e[k][x] \in A
  PROVE  \E f \in [0..n -> A] :
           StartsAndSteps(f, n, a, e)
<1> DEFINE Step(f, k) == IF k = 0 THEN a ELSE e[k][f[k - 1]]
<1> DEFINE P(m) == \E f \in [0..m -> A] : \A k \in 0..m : f[k] = Step(f, k)
<1> DEFINE X == {m \in Nat : m <= n => P(m)}
<1>1. 0 \in X
  <2>1. [k \in 0..0 |-> a] \in [0..0 -> A]
    OBVIOUS
  <2>2. \A k \in 0..0 : [j \in 0..0 |-> a][k] = Step([j \in 0..0 |-> a], k)
    OBVIOUS
  <2> QED
    BY <2>1, <2>2
<1>2. ASSUME NEW m \in X PROVE m + 1 \in X
  <2>1. SUFFICES ASSUME m + 1 <= n PROVE P(m + 1)
    OBVIOUS
  <2>2. PICK f \in [0..m -> A] : \A k \in 0..m : f[k] = Step(f, k)
    BY <2>1, <1>2
  <2> DEFINE g == [k \in 0..(m + 1) |-> IF k <= m THEN f[k] ELSE e[m + 1][f[m]]]
  <2>3. g \in [0..(m + 1) -> A]
    BY <2>1
  <2>4. ASSUME NEW k \in 0..(m + 1) PROVE g[k] = Step(g, k)
    <3>1. CASE k = 0
      BY <3>1, <2>2
    <3>2. CASE k # 0 /\ k <= m
      <4>1. k \in 0..m /\ k - 1 \in 0..m
        BY <3>2
      <4>2. g[k] = f[k] /\ g[k - 1] = f[k - 1]
        BY <4>1
      <4> QED
        BY <4>1, <4>2, <3>2, <2>2
    <3>3. CASE k = m + 1
      <4>1. k # 0 /\ ~(k <= m) /\ k - 1 = m /\ m \in 0..m
        BY <3>3
      <4>2. g[k] = e[m + 1][f[m]] /\ g[k - 1] = f[m]
        BY <4>1
      <4> QED
        BY <4>1, <4>2, <3>3
    <3> QED
      BY <3>1, <3>2, <3>3
  <2> QED
    BY <2>3, <2>4
<1>3. X = Nat
  <2> HIDE DEF X
  <2> QED BY <1>1, <1>2, SetInduction DEF X
<1>4. P(n)
  <2>1. n \in X
    <3> HIDE DEF X
    <3> QED BY <1>3
  <2> QED
    <3> HIDE DEF P
    <3> QED BY <2>1
<1>5. PICK f \in [0..n -> A] : \A k \in 0..n : f[k] = Step(f, k)
  BY <1>4
<1>6. StartsAndSteps(f, n, a, e)
  BY <1>5 DEF StartsAndSteps
<1> QED
  BY <1>6

\* The recursion of Subsequence.
Collects(upto, s, S) ==
  \A k \in 0..Len(s) :
    upto[k] = IF k = 0 THEN <<>>
              ELSE IF k \in S THEN Append(upto[k - 1], s[k]) ELSE upto[k - 1]

\* Subsequence is the last value of a function that obeys its recursion.
LEMMA SubsequenceRecursion ==
  ASSUME NEW A, NEW s \in Seq(A), NEW S
  PROVE  \E upto \in [0..Len(s) -> Seq(A)] :
           Collects(upto, s, S) /\ Subsequence(s, S) = upto[Len(s)]
<1> DEFINE n == Len(s)
<1> DEFINE e == [k \in 1..n |-> [t \in Seq(A) |-> IF k \in S THEN Append(t, s[k]) ELSE t]]
<1> DEFINE Rec(f) == [k \in 0..n |-> IF k = 0 THEN <<>>
                        ELSE IF k \in S THEN Append(f[k - 1], s[k]) ELSE f[k - 1]]
<1>1. n \in Nat
  OBVIOUS
<1>2. \A k \in 1..n : \A t \in Seq(A) : e[k][t] \in Seq(A)
  <2>1. ASSUME NEW k \in 1..n, NEW t \in Seq(A)
        PROVE  (IF k \in S THEN Append(t, s[k]) ELSE t) \in Seq(A)
    OBVIOUS
  <2> QED
    BY <2>1
<1>3. <<>> \in Seq(A)
  OBVIOUS
<1>4. PICK f \in [0..n -> Seq(A)] :
        f[0] = <<>> /\ \A k \in 1..n : f[k] = e[k][f[k - 1]]
  <2> DEFINE B == Seq(A)
  <2> DEFINE none == <<>>
  <2>1. n \in Nat /\ (\A k \in 1..n : \A t \in B : e[k][t] \in B) /\ none \in B
    <3> HIDE DEF n, e
    <3> QED BY <1>1, <1>2, <1>3
  <2>2. \E f \in [0..n -> B] : StartsAndSteps(f, n, none, e)
    <3> HIDE DEF n, e, B, none
    <3> QED BY <2>1, RecursionExists
  <2> HIDE DEF n, e
  <2> QED BY <2>2 DEF StartsAndSteps
<1>5. ASSUME NEW k \in 0..n
      PROVE  f[k] = IF k = 0 THEN <<>>
                    ELSE IF k \in S THEN Append(f[k - 1], s[k]) ELSE f[k - 1]
  <2>1. f[k] = IF k = 0 THEN <<>> ELSE e[k][f[k - 1]]
    <3> HIDE DEF e, n
    <3> QED BY <1>4
  <2>2. CASE k = 0
    BY <2>1, <2>2
  <2>3. CASE k # 0
    <3>1. k \in 1..n /\ f[k - 1] \in Seq(A)
      BY <2>3
    <3>2. e[k][f[k - 1]] = IF k \in S THEN Append(f[k - 1], s[k]) ELSE f[k - 1]
      BY <3>1
    <3> QED
      BY <2>1, <2>3, <3>2
  <2> QED
    BY <2>2, <2>3
<1>6. f = Rec(f)
  BY <1>5
<1> DEFINE g == CHOOSE f2 : f2 = Rec(f2)
<1>7. g = Rec(g)
  <2> HIDE DEF Rec
  <2> QED BY <1>6
<1>8. \A k \in 0..n : g[k] = f[k]
  <2> DEFINE X == {k \in Nat : k <= n => g[k] = f[k]}
  <2>0. \A k \in 0..n : g[k] = IF k = 0 THEN <<>>
                        ELSE IF k \in S THEN Append(g[k - 1], s[k]) ELSE g[k - 1]
    <3> HIDE DEF g, n
    <3> QED BY <1>7
  <2>1. 0 \in X
    <3> HIDE DEF g
    <3> QED BY <2>0, <1>5
  <2>2. ASSUME NEW k \in X PROVE k + 1 \in X
    <3>1. SUFFICES ASSUME k + 1 <= n PROVE g[k + 1] = f[k + 1]
      <4> HIDE DEF g
      <4> QED OBVIOUS
    <3>2. k \in Nat /\ g[k] = f[k] /\ k + 1 \in 0..n /\ (k + 1) - 1 = k /\ k + 1 # 0
      <4> HIDE DEF g
      <4> QED BY <3>1, <2>2
    <3> HIDE DEF g, X, n
    <3> QED BY <3>2, <2>0, <1>5
  <2>3. X = Nat
    <3> HIDE DEF X
    <3> QED BY <2>1, <2>2, SetInduction DEF X
  <2>4. ASSUME NEW k \in 0..n PROVE g[k] = f[k]
    <3>1. k \in X /\ k <= n
      <4> HIDE DEF X
      <4> QED BY <2>3
    <3> HIDE DEF g
    <3> QED BY <3>1
  <2> QED
    BY <2>4
<1>9. Subsequence(s, S) = g[n]
  BY DEF Subsequence
<1>10. Subsequence(s, S) = f[n]
  <2>1. n \in 0..n
    BY <1>1
  <2> HIDE DEF g, n
  <2> QED BY <1>8, <1>9, <2>1
<1> QED
  <2> WITNESS f \in [0..Len(s) -> Seq(A)]
  <2>1. Collects(f, s, S)
    BY <1>5 DEF Collects
  <2> QED BY <2>1, <1>10

-----------------------------------------------------------------------------
\* t holds the elements of s at those of its first n places that are in S;
\* place says where each of them comes from.
Enumerates(place, s, S, n, t) ==
  /\ place \in [1..Len(t) -> 1..n]
  /\ \A i \in 1..Len(t) : place[i] \in S /\ t[i] = s[place[i]]
  /\ \A i, j \in 1..Len(t) : i < j => place[i] < place[j]
  /\ \A k \in 1..n : k \in S => \E i \in 1..Len(t) : place[i] = k
  /\ Len(t) <= n
  /\ \A k \in 1..n : k \notin S => Len(t) < n

\* One more place of s is looked at.
LEMMA EnumeratesNext ==
  ASSUME NEW A, NEW s \in Seq(A), NEW S, NEW n \in 0..(Len(s) - 1), NEW t \in Seq(A),
         NEW place, Enumerates(place, s, S, n, t)
  PROVE  \E next : Enumerates(next, s, S, n + 1,
                               IF n + 1 \in S THEN Append(t, s[n + 1]) ELSE t)
<1>1. CASE n + 1 \notin S
  <2>1. Enumerates(place, s, S, n + 1, t)
    <3>1. place \in [1..Len(t) -> 1..(n + 1)]
      BY DEF Enumerates
    <3>2. \A k \in 1..(n + 1) : k \in S => k \in 1..n
      BY <1>1
    <3>3. Len(t) < n + 1
      BY DEF Enumerates
    <3> QED
      BY <3>1, <3>2, <3>3 DEF Enumerates
  <2> QED
    BY <1>1, <2>1
<1>2. CASE n + 1 \in S
  <2> DEFINE u == Append(t, s[n + 1])
  <2> DEFINE next == [i \in 1..(Len(t) + 1) |-> IF i <= Len(t) THEN place[i] ELSE n + 1]
  <2>1. /\ Len(u) = Len(t) + 1 /\ u[Len(t) + 1] = s[n + 1]
        /\ \A i \in 1..Len(t) : u[i] = t[i]
    OBVIOUS
  <2>2. /\ Len(t) \in Nat
        /\ \A i \in 1..Len(t) : place[i] \in 1..n /\ next[i] = place[i]
        /\ next[Len(t) + 1] = n + 1
    <3>1. Len(t) \in Nat
      OBVIOUS
    <3>2. \A i \in 1..Len(t) : place[i] \in 1..n
      BY DEF Enumerates
    <3> QED
      BY <3>1, <3>2
  <2>3. /\ \A i \in 1..Len(t) : next[i] \in S /\ u[i] = s[next[i]] /\ next[i] \in 1..n
        /\ next[Len(t) + 1] = n + 1 /\ u[Len(t) + 1] = s[n + 1]
    <3> HIDE DEF next, u
    <3> QED BY <2>1, <2>2 DEF Enumerates
  <2>4. next \in [1..Len(u) -> 1..(n + 1)]
    <3>1. \A i \in 1..(Len(t) + 1) : next[i] \in 1..(n + 1)
      <4> HIDE DEF next
      <4> QED BY <2>2, <2>3
    <3> HIDE DEF u
    <3> QED BY <2>1, <3>1
  <2>5. \A i \in 1..Len(u) : next[i] \in S /\ u[i] = s[next[i]]
    <3> TAKE i \in 1..Len(u)
    <3> HIDE DEF next, u
    <3>1. CASE i \in 1..Len(t)
      BY <2>3, <3>1
    <3>2. CASE i = Len(t) + 1
      BY <1>2, <2>3, <3>2
    <3>3. i \in 1..Len(t) \/ i = Len(t) + 1
      <4>1. i \in 1..(Len(t) + 1)
        BY <2>1
      <4>2. Len(t) \in Nat
        BY <2>2
      <4> QED BY <4>1, <4>2
    <3> QED BY <3>1, <3>2, <3>3
  <2>6. \A i, j \in 1..Len(u) : i < j => next[i] < next[j]
    <3> TAKE i, j \in 1..Len(u)
    <3> HIDE DEF next, u
    <3> HAVE i < j
    <3>0. /\ i \in 1..Len(t)
          /\ j \in 1..Len(t) \/ j = Len(t) + 1
      <4>1. i \in 1..(Len(t) + 1) /\ j \in 1..(Len(t) + 1)
        BY <2>1
      <4>2. Len(t) \in Nat
        BY <2>2
      <4> QED BY <4>1, <4>2
    <3>1. CASE j \in 1..Len(t)
      <4>1. place[i] < place[j]
        BY <3>0, <3>1 DEF Enumerates
      <4> QED
        BY <3>0, <3>1, <4>1, <2>2
    <3>2. CASE j = Len(t) + 1
      <4>1. next[i] \in 1..n /\ next[j] = n + 1
        BY <3>0, <3>2, <2>2
      <4> QED
        BY <4>1
    <3> QED
      BY <3>0, <3>1, <3>2
  <2>7. \A k \in 1..(n + 1) : k \in S => \E i \in 1..Len(u) : next[i] = k
    <3> TAKE k \in 1..(n + 1)
    <3> HAVE k \in S
    <3> HIDE DEF next, u
    <3>1. CASE k = n + 1
      BY <3>1, <2>1, <2>2, <2>3
    <3>2. CASE k \in 1..n
      <4>1. PICK i \in 1..Len(t) : place[i] = k
        BY <3>2 DEF Enumerates
      <4> QED
        BY <4>1, <2>1, <2>2
    <3> QED
      BY <3>1, <3>2
  <2>8. Len(u) <= n + 1 /\ \A k \in 1..(n + 1) : k \notin S => Len(u) < n + 1
    <3>1. \A k \in 1..(n + 1) : k \notin S => k \in 1..n
      BY <1>2
    <3> HIDE DEF u
    <3> QED BY <2>1, <2>2, <3>1 DEF Enumerates
  <2>9. Enumerates(next, s, S, n + 1, u)
    <3> HIDE DEF next, u
    <3> QED BY <2>4, <2>5, <2>6, <2>7, <2>8 DEF Enumerates
  <2> QED
    <3> HIDE DEF next
    <3> QED BY <1>2, <2>9
<1> QED
  BY <1>1, <1>2

\* A subsequence holds the elements at the places asked for, in their order.
LEMMA SubsequencePlaces ==
  ASSUME NEW A, NEW s \in Seq(A), NEW S
  PROVE  /\ Subsequence(s, S) \in Seq(A)
         /\ \E place : Enumerates(place, s, S, Len(s), Subsequence(s, S))
<1>1. PICK upto \in [0..Len(s) -> Seq(A)] :
           Collects(upto, s, S) /\ Subsequence(s, S) = upto[Len(s)]
  BY SubsequenceRecursion
<1> DEFINE P(k) == \E place : Enumerates(place, s, S, k, upto[k])
<1> DEFINE X == {k \in Nat : k <= Len(s) => P(k)}
<1>2. 0 \in X
  <2>1. upto[0] = <<>>
    BY <1>1 DEF Collects
  <2>2. Enumerates(<<>>, s, S, 0, <<>>)
    BY DEF Enumerates
  <2> QED
    BY <2>1, <2>2
<1>3. ASSUME NEW k \in X PROVE k + 1 \in X
  <2>1. SUFFICES ASSUME k + 1 <= Len(s) PROVE P(k + 1)
    OBVIOUS
  <2>2. P(k) /\ k \in 0..(Len(s) - 1)
    BY <2>1, <1>3
  <2>3. PICK place : Enumerates(place, s, S, k, upto[k])
    BY <2>2
  <2>4. upto[k] \in Seq(A)
    BY <2>2
  <2>5. upto[k + 1] = IF k + 1 \in S THEN Append(upto[k], s[k + 1]) ELSE upto[k]
    <3>1. k + 1 \in 0..Len(s) /\ k + 1 # 0 /\ (k + 1) - 1 = k
      BY <2>2
    <3> QED
      BY <3>1, <1>1 DEF Collects
  <2>6. \E next : Enumerates(next, s, S, k + 1,
                              IF k + 1 \in S THEN Append(upto[k], s[k + 1]) ELSE upto[k])
    BY <2>2, <2>3, <2>4, EnumeratesNext
  <2> QED
    BY <2>5, <2>6
<1>4. X = Nat
  <2> HIDE DEF X
  <2> QED BY <1>2, <1>3, SetInduction DEF X
<1>5. P(Len(s))
  <2>1. Len(s) \in X
    <3> HIDE DEF X
    <3> QED BY <1>4
  <2> HIDE DEF P
  <2> QED BY <2>1
<1> QED
  BY <1>1, <1>5

\* The elements of t are those of s at the places in S.
SameElements(t, s, S) ==
  /\ \A i \in 1..Len(t) : \E k \in 1..Len(s) : k \in S /\ t[i] = s[k]
  /\ \A k \in 1..Len(s) : k \in S => \E i \in 1..Len(t) : t[i] = s[k]

\* It holds those elements and no others.
LEMMA SubsequenceElements ==
  ASSUME NEW A, NEW s \in Seq(A), NEW S
  PROVE  Subsequence(s, S) \in Seq(A) /\ SameElements(Subsequence(s, S), s, S)
<1> DEFINE t == Subsequence(s, S)
<1>1. t \in Seq(A) /\ \E place : Enumerates(place, s, S, Len(s), t)
  BY SubsequencePlaces
<1> HIDE DEF t
<1>2. PICK place : Enumerates(place, s, S, Len(s), t)
  BY <1>1
<1>3. ASSUME NEW i \in 1..Len(t) PROVE \E k \in 1..Len(s) : k \in S /\ t[i] = s[k]
  <2>1. place[i] \in 1..Len(s) /\ place[i] \in S /\ t[i] = s[place[i]]
    BY <1>2 DEF Enumerates
  <2> QED
    BY <2>1
<1>4. ASSUME NEW k \in 1..Len(s), k \in S PROVE \E i \in 1..Len(t) : t[i] = s[k]
  <2>1. PICK i \in 1..Len(t) : place[i] = k
    BY <1>2, <1>4 DEF Enumerates
  <2> QED
    BY <2>1, <1>2 DEF Enumerates
<1> QED
  BY <1>1, <1>3, <1>4 DEF t, SameElements

\* It is shorter if a place was not asked for.
LEMMA SubsequenceLength ==
  ASSUME NEW A, NEW s \in Seq(A), NEW S
  PROVE  /\ Len(Subsequence(s, S)) \in Nat
         /\ Len(Subsequence(s, S)) <= Len(s)
         /\ \A k \in 1..Len(s) : k \notin S => Len(Subsequence(s, S)) < Len(s)
<1>1. /\ Subsequence(s, S) \in Seq(A)
      /\ \E place : Enumerates(place, s, S, Len(s), Subsequence(s, S))
  BY SubsequencePlaces
<1> QED
  BY <1>1 DEF Enumerates

\* Its first element is that at the first place asked for.
LEMMA SubsequenceFirst ==
  ASSUME NEW A, NEW s \in Seq(A), NEW S
  PROVE  /\ Subsequence(s, S) = <<>> <=> \A k \in 1..Len(s) : k \notin S
         /\ Subsequence(s, S) # <<>> =>
              \E k \in 1..Len(s) : /\ k \in S /\ Subsequence(s, S)[1] = s[k]
                                  /\ \A j \in 1..Len(s) : j \in S => k <= j
<1> DEFINE t == Subsequence(s, S)
<1>1. t \in Seq(A) /\ \E place : Enumerates(place, s, S, Len(s), t)
  BY SubsequencePlaces
<1> HIDE DEF t
<1>2. PICK place : Enumerates(place, s, S, Len(s), t)
  BY <1>1
<1>3. t = <<>> <=> \A k \in 1..Len(s) : k \notin S
  <2>1. t = <<>> <=> \A i \in 1..Len(t) : FALSE
    BY <1>1
  <2>2. (\A i \in 1..Len(t) : FALSE) => \A k \in 1..Len(s) : k \notin S
    BY <1>2 DEF Enumerates
  <2>3. (\A k \in 1..Len(s) : k \notin S) => \A i \in 1..Len(t) : FALSE
    BY <1>2 DEF Enumerates
  <2> QED
    BY <2>1, <2>2, <2>3
<1>4. ASSUME t # <<>>
      PROVE  \E k \in 1..Len(s) : /\ k \in S /\ t[1] = s[k]
                                 /\ \A j \in 1..Len(s) : j \in S => k <= j
  <2>1. Len(t) \in Nat /\ 1 \in 1..Len(t)
    BY <1>1, <1>4
  <2>2. place[1] \in 1..Len(s) /\ place[1] \in S /\ t[1] = s[place[1]]
    BY <2>1, <1>2 DEF Enumerates
  <2>3. ASSUME NEW j \in 1..Len(s), j \in S PROVE place[1] <= j
    <3>1. PICK i \in 1..Len(t) : place[i] = j
      BY <1>2, <2>3 DEF Enumerates
    <3>2. i = 1 \/ 1 < i
      BY <2>1
    <3>3. 1 < i => place[1] < place[i]
      BY <1>2, <2>1 DEF Enumerates
    <3> QED
      BY <2>2, <3>1, <3>2, <3>3
  <2> QED
    BY <2>2, <2>3
<1> QED
  BY <1>3, <1>4 DEF t
=============================================================================
