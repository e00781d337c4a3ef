----------------------------- MODULE FoldFacts ------------------------------
(***************************************************************************)
(* What recursion over finite data gives, for the proofs about the code's  *)
(* loops: the smallest of some numbers, filters of sequences, and sums.    *)
(* f weighs the elements; a sum is the value at S of any function on the    *)
(* subsets of S that grows by f[x] with each x.                            *)
(***************************************************************************)
EXTENDS Filters, FiniteSetTheorems, TLAPS

Weighs(f, S) == \A x \in S : f[x] \in Nat

Additive(g, f, S) ==
    /\ g \in [SUBSET S -> Nat]
    /\ g[{}] = 0
    /\ \A T \in SUBSET S : \A x \in T : g[T] = f[x] + g[T \ {x}]

(* What a recursion gives that takes one element of each set, whichever. *)
Tallies(t, f, S) ==
    /\ t[{}] = 0
    /\ \A T \in SUBSET S : T # {} => \E x \in T : t[T] = f[x] + t[T \ {x}]

SumOf(f, S) == (CHOOSE g : Additive(g, f, S))[S]

-----------------------------------------------------------------------------
(* Among some subsets of a finite set one has no smaller one. *)
LEMMA SmallestSubset ==
    ASSUME NEW S, IsFiniteSet(S), NEW X, X \subseteq SUBSET S, X # {}
    PROVE  \E T \in X : \A x \in T : T \ {x} \notin X
<1>1. IsWellFoundedOn(StrictSubsetOrdering(S), SUBSET S)
  BY FS_StrictSubsetOrderingWellFounded, FS_FiniteSubsetsOfFinite
<1>2. PICK T \in X : \A U \in X : <<U, T>> \notin StrictSubsetOrdering(S)
  BY <1>1, WFMin
<1>3. ASSUME NEW x \in T, T \ {x} \in X
      PROVE  FALSE
  <2>1. <<T \ {x}, T>> \in StrictSubsetOrdering(S)
    BY <1>3 DEF StrictSubsetOrdering
  <2> QED
    BY <1>2, <1>3, <2>1
<1> QED
  BY <1>2, <1>3

(* A set of subsets of S that has the empty one, and with T every T with    *)
(* one element more, has S.                                                *)
LEMMA FiniteInduction ==
    ASSUME NEW S, IsFiniteSet(S), NEW X, {} \in X,
           \A T \in SUBSET S : \A x \in S \ T : T \in X => T \cup {x} \in X
    PROVE  S \in X
<1> DEFINE Bad == {T \in SUBSET S : T \notin X}
<1>1. SUFFICES ASSUME Bad # {}
               PROVE  FALSE
  OBVIOUS
<1>2. PICK T \in Bad : \A x \in T : T \ {x} \notin Bad
  <2>1. Bad \subseteq SUBSET S
    OBVIOUS
  <2> HIDE DEF Bad
  <2> QED
    BY <1>1, <2>1, SmallestSubset
<1>3. PICK x \in T : TRUE
  OBVIOUS
<1>4. T \ {x} \in X
  BY <1>2, <1>3
<1>5. (T \ {x}) \cup {x} \in X
  BY <1>3, <1>4
<1>6. (T \ {x}) \cup {x} = T
  BY <1>3
<1> QED
  BY <1>5, <1>6

(* Among some natural numbers one is the smallest. *)
LEMMA LeastNatural ==
    ASSUME NEW S, S \subseteq Nat, S # {}
    PROVE  \E x \in S : \A y \in S : x <= y
<1> PICK n \in S : TRUE
  OBVIOUS
<1> DEFINE P == {i \in 0..n : i \in S}
           X == {T \in SUBSET (0..n) : T = {} \/ \E x \in T : \A y \in T : x <= y}
<1>1. {} \in X
  OBVIOUS
<1>2. ASSUME NEW T \in SUBSET P, NEW x \in P \ T, T \in X
      PROVE  T \cup {x} \in X
  <2>1. CASE T = {}
    BY <2>1
  <2>2. CASE T # {}
    <3>1. PICK y \in T : \A z \in T : y <= z
      BY <1>2, <2>2
    <3>2. x \in Nat /\ y \in Nat /\ \A z \in T : z \in Nat
      OBVIOUS
    <3>3. CASE x <= y
      <4>1. \A z \in T \cup {x} : x <= z
        BY <3>1, <3>2, <3>3
      <4> QED
        BY <4>1
    <3>4. CASE ~(x <= y)
      <4>1. \A z \in T \cup {x} : y <= z
        BY <3>1, <3>2, <3>4
      <4> QED
        BY <4>1
    <3> QED
      BY <3>3, <3>4
  <2> QED
    BY <2>1, <2>2
<1>3. IsFiniteSet(P)
  <2>1. IsFiniteSet(0..n)
    BY FS_Interval
  <2> QED
    BY <2>1, FS_Subset
<1>4. P \in X
  <2> HIDE DEF X
  <2> QED
    BY <1>1, <1>2, <1>3, FiniteInduction
<1>5. PICK x \in P : \A y \in P : x <= y
  BY <1>4
<1>6. \A y \in S : x <= y
  <2> TAKE y \in S
  <2>1. x \in Nat /\ y \in Nat /\ n \in Nat /\ x <= n
    OBVIOUS
  <2>2. CASE y <= n
    BY <1>5, <2>1, <2>2
  <2>3. CASE ~(y <= n)
    BY <2>1, <2>3
  <2> QED
    BY <2>2, <2>3
<1> QED
  BY <1>5, <1>6

(* A set that has 0, and with each number below n the next one, has all of    *)
(* them up to n.                                                             *)
LEMMA UpTo ==
    ASSUME NEW n \in Nat, NEW X, 0 \in X, \A i \in 0..(n - 1) : i \in X => i + 1 \in X
    PROVE  0..n \subseteq X
<1> DEFINE Bad == {i \in 0..n : i \notin X}
<1> SUFFICES ASSUME Bad # {} PROVE FALSE
  OBVIOUS
<1>1. PICK i \in Bad : \A j \in Bad : i <= j
  <2>1. Bad \subseteq Nat /\ Bad # {}
    OBVIOUS
  <2> HIDE DEF Bad
  <2> QED
    BY <2>1, LeastNatural
<1>2. i # 0 /\ i - 1 \in 0..(n - 1) /\ i - 1 \notin Bad /\ i - 1 + 1 = i
  BY <1>1
<1>3. i - 1 \in X
  BY <1>2
<1> QED
  BY <1>1, <1>2, <1>3

-----------------------------------------------------------------------------
(* What Only computes over the first n members. *)
Filtered(f, s, set, n) ==
    f = [i \in 0..n |->
            IF i = 0 THEN <<>>
            ELSE IF s[i] \in set THEN Append(f[i - 1], s[i]) ELSE f[i - 1]]

LEMMA FilteredExists ==
    ASSUME NEW s, NEW set, NEW n \in Nat
    PROVE  \E f : Filtered(f, s, set, n)
<1> DEFINE X == {k \in 0..n : \E f : Filtered(f, s, set, k)}
<1>1. 0 \in X
  <2> DEFINE f == [i \in 0..0 |-> <<>>]
  <2>1. Filtered(f, s, set, 0)
    BY DEF Filtered
  <2> QED
    BY <2>1
<1>2. ASSUME NEW k \in 0..(n - 1), k \in X
      PROVE  k + 1 \in X
  <2>1. PICK f : Filtered(f, s, set, k)
    BY <1>2
  <2> DEFINE last == IF s[k + 1] \in set THEN Append(f[k], s[k + 1]) ELSE f[k]
             g == [i \in 0..(k + 1) |-> IF i = k + 1 THEN last ELSE f[i]]
             h == [i \in 0..(k + 1) |->
                      IF i = 0 THEN <<>>
                      ELSE IF s[i] \in set THEN Append(g[i - 1], s[i]) ELSE g[i - 1]]
  <2>2. ASSUME NEW i \in 0..(k + 1)
        PROVE  g[i] = h[i]
    <3>1. CASE i = 0
      <4>1. f[0] = <<>>
        BY <2>1 DEF Filtered
      <4>2. g[i] = f[0]
        BY <3>1
      <4>3. h[i] = <<>>
        BY <3>1
      <4> QED
        BY <4>1, <4>2, <4>3
    <3>2. CASE i \in 1..k
      <4>1. i - 1 \in 0..k /\ i \in 0..k /\ i # k + 1 /\ i - 1 # k + 1 /\ i # 0
        BY <3>2
      <4>2. g[i] = f[i] /\ g[i - 1] = f[i - 1]
        BY <4>1
      <4>3. f[i] = IF s[i] \in set THEN Append(f[i - 1], s[i]) ELSE f[i - 1]
        BY <2>1, <4>1 DEF Filtered
      <4>4. h[i] = IF s[i] \in set THEN Append(g[i - 1], s[i]) ELSE g[i - 1]
        <5> HIDE DEF g
        <5> QED
          BY <4>1
      <4> HIDE DEF g, h
      <4> QED
        BY <4>2, <4>3, <4>4
    <3>3. CASE i = k + 1
      <4>1. g[i] = last /\ g[k] = f[k] /\ i - 1 = k /\ i # 0
        BY <3>3
      <4>2. h[i] = IF s[i] \in set THEN Append(g[i - 1], s[i]) ELSE g[i - 1]
        <5> HIDE DEF g
        <5> QED
          BY <3>3
      <4> HIDE DEF g, h
      <4> QED
        BY <3>3, <4>1, <4>2
    <3> QED
      BY <3>1, <3>2, <3>3
  <2>3. g = h
    <3>1. DOMAIN g = 0..(k + 1) /\ DOMAIN h = 0..(k + 1)
      OBVIOUS
    <3>2. g = [i \in DOMAIN g |-> g[i]] /\ h = [i \in DOMAIN h |-> h[i]]
      OBVIOUS
    <3> HIDE DEF g, h
    <3> QED
      BY <2>2, <3>1, <3>2
  <2>4. Filtered(g, s, set, k + 1)
    <3> HIDE DEF g
    <3> QED
      BY <2>3 DEF Filtered
  <2> QED
    BY <2>4
<1>3. 0..n \subseteq X
  <2> HIDE DEF X
  <2> QED
    BY <1>1, <1>2, UpTo
<1> QED
  BY <1>3

(* The members of u are those of the first n of s that are in set, each once, *)
(* in their order; at says where they stand in s.                             *)
Picks(at, u, s, set, n) ==
    /\ at \in [1..Len(u) -> {i \in 1..n : s[i] \in set}]
    /\ \A k \in 1..Len(u) : u[k] = s[at[k]]
    /\ \A j, k \in 1..Len(u) : j < k => at[j] < at[k]
    /\ \A i \in 1..n : s[i] \in set => \E k \in 1..Len(u) : at[k] = i

LEMMA PicksNext ==
    ASSUME NEW S, NEW s \in Seq(S), NEW set, NEW k \in 0..(Len(s) - 1),
           NEW u \in Seq(S), NEW at, Picks(at, u, s, set, k)
    PROVE  LET v == IF s[k + 1] \in set THEN Append(u, s[k + 1]) ELSE u
           IN  v \in Seq(S) /\ \E a : Picks(a, v, s, set, k + 1)
<1>1. k \in Nat /\ k + 1 \in 1..Len(s) /\ s[k + 1] \in S /\ Len(u) \in Nat
  OBVIOUS
<1>2. CASE s[k + 1] \in set
  <2> DEFINE v == Append(u, s[k + 1])
             a == [j \in 1..(Len(u) + 1) |-> IF j = Len(u) + 1 THEN k + 1 ELSE at[j]]
  <2>1. /\ v \in Seq(S) /\ Len(v) = Len(u) + 1
        /\ \A j \in 1..Len(u) : v[j] = u[j]
        /\ v[Len(u) + 1] = s[k + 1]
    BY <1>1
  <2>2. a[Len(u) + 1] = k + 1 /\ \A j \in 1..Len(u) : a[j] = at[j]
    BY <1>1
  <2>3. DOMAIN a = 1..(Len(u) + 1) /\ a = [j \in DOMAIN a |-> a[j]]
    OBVIOUS
  <2> HIDE DEF a, v
  <2>4. \A j \in 1..(Len(u) + 1) : j = Len(u) + 1 \/ j \in 1..Len(u)
    BY <1>1
  <2>5. \A j \in 1..Len(u) : at[j] \in 1..k /\ s[at[j]] \in set
    BY DEF Picks
  <2>6. \A j \in 1..(Len(u) + 1) : a[j] \in 1..(k + 1) /\ s[a[j]] \in set
    BY <1>1, <1>2, <2>2, <2>4, <2>5
  <2>7. a \in [1..Len(v) -> {i \in 1..(k + 1) : s[i] \in set}]
    BY <2>1, <2>3, <2>6
  <2>8. \A j \in 1..Len(v) : v[j] = s[a[j]]
    BY <2>1, <2>2, <2>4 DEF Picks
  <2>9. ASSUME NEW i \in 1..Len(v), NEW j \in 1..Len(v), i < j
        PROVE  a[i] < a[j]
    <3>1. i \in 1..Len(u)
      BY <1>1, <2>1, <2>9
    <3>2. CASE j \in 1..Len(u)
      BY <2>2, <2>9, <3>1, <3>2 DEF Picks
    <3>3. CASE j = Len(u) + 1
      BY <1>1, <2>2, <2>5, <3>1, <3>3
    <3> QED
      BY <2>1, <2>4, <3>2, <3>3
  <2>10. ASSUME NEW i \in 1..(k + 1), s[i] \in set
         PROVE  \E j \in 1..Len(v) : a[j] = i
    <3>1. CASE i = k + 1
      BY <1>1, <2>1, <2>2, <3>1
    <3>2. CASE i # k + 1
      <4>1. i \in 1..k
        BY <1>1, <3>2
      <4>2. PICK j \in 1..Len(u) : at[j] = i
        BY <2>10, <4>1 DEF Picks
      <4> QED
        BY <1>1, <2>1, <2>2, <4>2
    <3> QED
      BY <3>1, <3>2
  <2>11. Picks(a, v, s, set, k + 1)
    BY <2>7, <2>8, <2>9, <2>10 DEF Picks
  <2> QED
    BY <1>2, <2>1, <2>11 DEF v
<1>3. CASE s[k + 1] \notin set
  <2>1. \A i \in 1..(k + 1) : s[i] \in set => i \in 1..k
    BY <1>1, <1>3
  <2>2. {i \in 1..(k + 1) : s[i] \in set} = {i \in 1..k : s[i] \in set}
    BY <1>1, <2>1
  <2>3. Picks(at, u, s, set, k + 1)
    BY <2>1, <2>2 DEF Picks
  <2> QED
    BY <1>3, <2>3
<1> QED
  BY <1>2, <1>3

LEMMA OnlyPicks ==
    ASSUME NEW S, NEW s \in Seq(S), NEW set
    PROVE  Only(s, set) \in Seq(S) /\ \E at : Picks(at, Only(s, set), s, set, Len(s))
<1> DEFINE f == CHOOSE g : Filtered(g, s, set, Len(s))
           X == {k \in 0..Len(s) : f[k] \in Seq(S) /\ \E at : Picks(at, f[k], s, set, k)}
<1>1. Len(s) \in Nat
  OBVIOUS
<1>2. Filtered(f, s, set, Len(s))
  BY <1>1, FilteredExists
<1>3. Only(s, set) = f[Len(s)]
  BY DEF Only, Filtered
<1> HIDE DEF f
<1> DEFINE step(i) == IF i = 0 THEN <<>>
                      ELSE IF s[i] \in set THEN Append(f[i - 1], s[i]) ELSE f[i - 1]
<1>4. f[0] = <<>> /\ \A i \in 1..Len(s) :
          f[i] = IF s[i] \in set THEN Append(f[i - 1], s[i]) ELSE f[i - 1]
  <2>1. f = [i \in 0..Len(s) |-> step(i)]
    BY <1>2 DEF Filtered
  <2> HIDE DEF step
  <2>2. \A i \in 0..Len(s) : f[i] = step(i)
    BY <2>1
  <2>3. 0 \in 0..Len(s) /\ \A i \in 1..Len(s) : i \in 0..Len(s) /\ i # 0
    BY <1>1
  <2>4. f[0] = step(0) /\ \A i \in 1..Len(s) : f[i] = step(i)
    BY <2>2, <2>3
  <2>5. step(0) = <<>> /\ \A i \in 1..Len(s) :
            step(i) = IF s[i] \in set THEN Append(f[i - 1], s[i]) ELSE f[i - 1]
    BY <2>3 DEF step
  <2> QED
    BY <2>4, <2>5
<1> HIDE DEF step
<1>5. 0 \in X
  <2> DEFINE at == [j \in 1..0 |-> 0]
  <2>1. Len(<<>>) = 0 /\ <<>> \in Seq(S) /\ 1..0 = {}
    OBVIOUS
  <2>2. Picks(at, <<>>, s, set, 0)
    BY <2>1 DEF Picks
  <2>3. f[0] \in Seq(S) /\ \E a : Picks(a, f[0], s, set, 0)
    <3> HIDE DEF at
    <3> QED
      BY <1>4, <2>1, <2>2
  <2>4. 0 \in 0..Len(s)
    BY <1>1
  <2> QED
    BY <2>3, <2>4
<1>6. ASSUME NEW k \in 0..(Len(s) - 1), k \in X
      PROVE  k + 1 \in X
  <2>1. k + 1 \in 1..Len(s) /\ k + 1 \in 0..Len(s) /\ (k + 1) - 1 = k
    BY <1>1
  <2>2. f[k + 1] = IF s[k + 1] \in set THEN Append(f[k], s[k + 1]) ELSE f[k]
    BY <1>4, <2>1
  <2>3. f[k] \in Seq(S)
    BY <1>6
  <2>4. PICK at : Picks(at, f[k], s, set, k)
    BY <1>6
  <2>5. f[k + 1] \in Seq(S) /\ \E a : Picks(a, f[k + 1], s, set, k + 1)
    BY <2>2, <2>3, <2>4, PicksNext
  <2> QED
    BY <2>1, <2>5
<1>7. 0..Len(s) \subseteq X
  <2> HIDE DEF X
  <2> QED
    BY <1>1, <1>5, <1>6, UpTo
<1>8. Len(s) \in X
  BY <1>1, <1>7
<1> QED
  BY <1>3, <1>8

(* Every member of u is one of s and of the set, different ones stand at       *)
(* different places of s, and every member of s in the set is there.         *)
Stands(at, u, s, set) ==
    /\ at \in [1..Len(u) -> 1..Len(s)]
    /\ \A k \in 1..Len(u) : u[k] = s[at[k]] /\ s[at[k]] \in set
    /\ \A j, k \in 1..Len(u) : at[j] = at[k] => j = k
    /\ \A i \in 1..Len(s) : s[i] \in set => \E k \in 1..Len(u) : at[k] = i

LEMMA PickedMembers ==
    ASSUME NEW s, NEW u, Len(s) \in Nat, Len(u) \in Nat, NEW set, NEW at,
           Picks(at, u, s, set, Len(s))
    PROVE  Stands(at, u, s, set)
<1>1. at \in [1..Len(u) -> 1..Len(s)] /\ Len(u) \in Nat /\ Len(s) \in Nat
  BY DEF Picks
<1>2. \A k \in 1..Len(u) : u[k] = s[at[k]] /\ s[at[k]] \in set
  BY DEF Picks
<1>3. ASSUME NEW j \in 1..Len(u), NEW k \in 1..Len(u), at[j] = at[k]
      PROVE  j = k
  <2>1. at[j] \in 1..Len(s) /\ at[k] \in 1..Len(s)
    BY <1>1
  <2>2. ~(j < k) /\ ~(k < j)
    BY <1>1, <1>3, <2>1 DEF Picks
  <2> QED
    BY <1>1, <2>2
<1>4. \A i \in 1..Len(s) : s[i] \in set => \E k \in 1..Len(u) : at[k] = i
  BY DEF Picks
<1> QED
  BY <1>1, <1>2, <1>3, <1>4 DEF Stands

-----------------------------------------------------------------------------
(* There is such a function ... *)
LEMMA AdditiveExists ==
    ASSUME NEW S, IsFiniteSet(S), NEW f, Weighs(f, S)
    PROVE  \E g : Additive(g, f, S)
<1> DEFINE X == {T \in SUBSET S : \E g : Additive(g, f, T)}
<1>1. {} \in X
  <2>1. Additive([T \in SUBSET {} |-> 0], f, {})
    BY DEF Additive
  <2> QED
    BY <2>1
<1>2. ASSUME NEW T \in SUBSET S, NEW x \in S \ T, T \in X
      PROVE  T \cup {x} \in X
  <2>1. PICK g : Additive(g, f, T)
    BY <1>2
  <2>2. f[x] \in Nat /\ x \notin T /\ \A y \in T : f[y] \in Nat
    BY DEF Weighs
  <2> DEFINE h == [U \in SUBSET (T \cup {x}) |->
                      IF x \in U THEN f[x] + g[U \ {x}] ELSE g[U]]
  <2>3. \A U \in SUBSET (T \cup {x}) : U \ {x} \in SUBSET T /\ (x \notin U => U \in SUBSET T)
    OBVIOUS
  <2>4. h \in [SUBSET (T \cup {x}) -> Nat]
    BY <2>1, <2>2, <2>3 DEF Additive
  <2>5. h[{}] = 0
    BY <2>1 DEF Additive
  <2>6. ASSUME NEW U \in SUBSET (T \cup {x}), NEW y \in U
        PROVE  h[U] = f[y] + h[U \ {y}]
    <3>1. U \ {y} \in SUBSET (T \cup {x})
      OBVIOUS
    <3>2. CASE y = x
      BY <2>3, <3>1, <3>2
    <3>3. CASE y # x /\ x \notin U
      <4>1. U \in SUBSET T /\ y \in U /\ x \notin U \ {y}
        BY <2>3, <3>3
      <4>2. g[U] = f[y] + g[U \ {y}]
        BY <2>1, <4>1 DEF Additive
      <4> QED
        BY <3>1, <3>3, <4>1, <4>2
    <3>4. CASE y # x /\ x \in U
      <4> DEFINE V == U \ {x}
      <4>1. V \in SUBSET T /\ y \in V /\ (U \ {y}) \ {x} = V \ {y} /\ V \ {y} \in SUBSET T
        BY <2>3, <3>4
      <4>2. g[V] = f[y] + g[V \ {y}] /\ g[V] \in Nat /\ g[V \ {y}] \in Nat /\ f[y] \in Nat
        BY <2>1, <2>2, <4>1 DEF Additive
      <4>3. h[U] = f[x] + g[V] /\ h[U \ {y}] = f[x] + g[V \ {y}]
        BY <3>1, <3>4, <4>1
      <4> HIDE DEF h, V
      <4> QED
        BY <2>2, <4>2, <4>3
    <3> QED
      BY <3>2, <3>3, <3>4
  <2>7. Additive(h, f, T \cup {x})
    <3> HIDE DEF h
    <3> QED
      BY <2>4, <2>5, <2>6 DEF Additive
  <2> QED
    BY <2>7
<1>3. S \in X
  <2> HIDE DEF X
  <2> QED
    BY <1>1, <1>2, FiniteInduction
<1> QED
  BY <1>3

(* ... and a recursion that takes the elements in some order agrees with it. *)
LEMMA AdditiveUnique ==
    ASSUME NEW S, IsFiniteSet(S), NEW f, NEW g, Additive(g, f, S),
           NEW t, Tallies(t, f, S)
    PROVE  t[S] = g[S]
<1> DEFINE Bad == {T \in SUBSET S : t[T] # g[T]}
<1>1. SUFFICES ASSUME Bad # {}
               PROVE  FALSE
  OBVIOUS
<1>2. PICK T \in Bad : \A x \in T : T \ {x} \notin Bad
  <2>1. Bad \subseteq SUBSET S
    OBVIOUS
  <2> HIDE DEF Bad
  <2> QED
    BY <1>1, <2>1, SmallestSubset
<1>3. T # {}
  BY DEF Additive, Tallies
<1>4. PICK x \in T : t[T] = f[x] + t[T \ {x}]
  BY <1>3 DEF Tallies
<1>5. t[T \ {x}] = g[T \ {x}]
  BY <1>2, <1>4
<1> QED
  BY <1>4, <1>5 DEF Additive

(* The sum is additive. *)
LEMMA SumIsAdditive ==
    ASSUME NEW S, IsFiniteSet(S), NEW f, Weighs(f, S)
    PROVE  \E g : Additive(g, f, S) /\ SumOf(f, S) = g[S]
BY AdditiveExists DEF SumOf

(* Any such function computes it. *)
LEMMA SumComputed ==
    ASSUME NEW S, IsFiniteSet(S), NEW f, Weighs(f, S),
           NEW t, Tallies(t, f, S)
    PROVE  t[S] = SumOf(f, S)
<1>1. PICK g : Additive(g, f, S) /\ SumOf(f, S) = g[S]
  BY SumIsAdditive
<1> QED
  BY <1>1, AdditiveUnique

(* The sum does not look at weights outside the set. *)
LEMMA SumExtensional ==
    ASSUME NEW S, IsFiniteSet(S), NEW f, Weighs(f, S),
           NEW h, \A x \in S : h[x] = f[x]
    PROVE  SumOf(h, S) = SumOf(f, S)
<1>1. PICK g : Additive(g, f, S) /\ SumOf(f, S) = g[S]
  BY SumIsAdditive
<1>2. Additive(g, h, S)
  BY <1>1 DEF Additive
<1>3. PICK k : Additive(k, h, S) /\ SumOf(h, S) = k[S]
  BY <1>2 DEF SumOf
<1>4. Additive(k, f, S)
  BY <1>3 DEF Additive
<1>5. k[S] = g[S]
  <2>1. Tallies(k, f, S)
    BY <1>4 DEF Additive, Tallies
  <2> QED
    BY <1>1, <2>1, AdditiveUnique
<1> QED
  BY <1>1, <1>3, <1>5

(* It is a number. *)
LEMMA SumType ==
    ASSUME NEW S, IsFiniteSet(S), NEW f, Weighs(f, S)
    PROVE  SumOf(f, S) \in Nat
<1>1. PICK g : Additive(g, f, S) /\ SumOf(f, S) = g[S]
  BY SumIsAdditive
<1> QED
  BY <1>1 DEF Additive

(* Nothing sums to nothing. *)
LEMMA SumEmpty ==
    ASSUME NEW f
    PROVE  SumOf(f, {}) = 0
<1>1. IsFiniteSet({}) /\ Weighs(f, {})
  BY FS_EmptySet DEF Weighs
<1> QED
  BY <1>1, SumIsAdditive DEF Additive

(* One element more. *)
LEMMA SumAddElement ==
    ASSUME NEW S, IsFiniteSet(S), NEW x, x \notin S, NEW f, Weighs(f, S \cup {x})
    PROVE  SumOf(f, S \cup {x}) = SumOf(f, S) + f[x]
<1> DEFINE U == S \cup {x}
<1>1. IsFiniteSet(U)
  BY FS_AddElement
<1>2. Weighs(f, S) /\ f[x] \in Nat
  BY DEF Weighs
<1>3. PICK g : Additive(g, f, U) /\ SumOf(f, U) = g[U]
  <2> HIDE DEF U
  <2> QED
    BY <1>1, SumIsAdditive DEF U
<1>4. g[U] = f[x] + g[S] /\ g[S] \in Nat
  <2>1. U \ {x} = S /\ x \in U /\ S \in SUBSET U
    OBVIOUS
  <2> QED
    BY <1>3, <2>1 DEF Additive
<1>5. g[S] = SumOf(f, S)
  <2>1. Tallies(g, f, S)
    BY <1>3 DEF Additive, Tallies
  <2> QED
    BY <1>2, <2>1, SumComputed
<1> QED
  BY <1>2, <1>3, <1>4, <1>5

(* What holds of the weights, each scaled, holds of the sums. *)
LEMMA SumScaled ==
    ASSUME NEW S, IsFiniteSet(S), NEW f, Weighs(f, S), NEW h, Weighs(h, S),
           NEW a \in Nat, NEW b \in Nat, \A x \in S : a * f[x] <= b * h[x]
    PROVE  a * SumOf(f, S) <= b * SumOf(h, S)
<1> DEFINE X == {T \in SUBSET S : a * SumOf(f, T) <= b * SumOf(h, T)}
<1>1. {} \in X
  BY SumEmpty
<1>2. ASSUME NEW T \in SUBSET S, NEW x \in S \ T, T \in X
      PROVE  T \cup {x} \in X
  <2>1. IsFiniteSet(T)
    BY FS_Subset
  <2>2. Weighs(f, T \cup {x}) /\ Weighs(h, T \cup {x}) /\ Weighs(f, T) /\ Weighs(h, T)
    BY DEF Weighs
  <2>3. /\ SumOf(f, T \cup {x}) = SumOf(f, T) + f[x]
        /\ SumOf(h, T \cup {x}) = SumOf(h, T) + h[x]
    BY <2>1, <2>2, SumAddElement
  <2>4. SumOf(f, T) \in Nat /\ SumOf(h, T) \in Nat /\ f[x] \in Nat /\ h[x] \in Nat
    BY <2>1, <2>2, SumType DEF Weighs
  <2>5. a * SumOf(f, T) <= b * SumOf(h, T) /\ a * f[x] <= b * h[x]
    BY <1>2
  <2>6. \A m, n, k, l \in Nat : a * m <= b * k /\ a * n <= b * l => a * (m + n) <= b * (k + l)
    OBVIOUS
  <2>7. a * SumOf(f, T \cup {x}) <= b * SumOf(h, T \cup {x})
    BY <2>3, <2>4, <2>5, <2>6
  <2> QED
    BY <2>7
<1>3. S \in X
  <2> HIDE DEF X
  <2> QED
    BY <1>1, <1>2, FiniteInduction
<1> QED
  BY <1>3

(* A part sums to no more than the whole. *)
LEMMA SumOfSubset ==
    ASSUME NEW S, IsFiniteSet(S), NEW f, Weighs(f, S), NEW T \in SUBSET S
    PROVE  SumOf(f, T) <= SumOf(f, S)
<1> DEFINE X == {U \in SUBSET (S \ T) : SumOf(f, T) <= SumOf(f, T \cup U)}
<1>1. IsFiniteSet(T) /\ Weighs(f, T) /\ IsFiniteSet(S \ T)
  BY FS_Subset DEF Weighs
<1>2. {} \in X
  BY <1>1, SumType
<1>3. ASSUME NEW U \in SUBSET (S \ T), NEW x \in (S \ T) \ U, U \in X
      PROVE  U \cup {x} \in X
  <2>1. IsFiniteSet(T \cup U) /\ x \notin T \cup U
    BY FS_Subset
  <2>2. Weighs(f, T \cup U) /\ Weighs(f, (T \cup U) \cup {x}) /\ f[x] \in Nat
    BY DEF Weighs
  <2>3. SumOf(f, (T \cup U) \cup {x}) = SumOf(f, T \cup U) + f[x]
    BY <2>1, <2>2, SumAddElement
  <2>4. SumOf(f, T) \in Nat /\ SumOf(f, T \cup U) \in Nat
    BY <1>1, <2>1, <2>2, SumType
  <2>5. SumOf(f, T) <= SumOf(f, (T \cup U) \cup {x})
    BY <1>3, <2>2, <2>3, <2>4
  <2>6. T \cup (U \cup {x}) = (T \cup U) \cup {x}
    OBVIOUS
  <2> QED
    BY <2>5, <2>6
<1>4. S \ T \in X
  <2> HIDE DEF X
  <2> QED
    BY <1>1, <1>2, <1>3, FiniteInduction
<1>5. T \cup (S \ T) = S
  OBVIOUS
<1> QED
  BY <1>4, <1>5

(* Adding the weights of the images, when no two elements have the same. *)
LEMMA SumOfImage ==
    ASSUME NEW S, IsFiniteSet(S), NEW p, \A x, y \in S : p[x] = p[y] => x = y,
           NEW f, Weighs(f, {p[x] : x \in S}), NEW h, \A x \in S : h[x] = f[p[x]]
    PROVE  SumOf(h, S) = SumOf(f, {p[x] : x \in S})
<1> DEFINE Image(T) == {p[x] : x \in T}
<1> DEFINE X == {T \in SUBSET S : SumOf(h, T) = SumOf(f, Image(T))}
<1>1. {} \in X
  <2>1. Image({}) = {}
    OBVIOUS
  <2> QED
    BY <2>1, SumEmpty
<1>2. ASSUME NEW T \in SUBSET S, NEW x \in S \ T, T \in X
      PROVE  T \cup {x} \in X
  <2>1. IsFiniteSet(T) /\ IsFiniteSet(Image(T))
    <3>1. IsFiniteSet(T)
      BY FS_Subset
    <3>2. [y \in T |-> p[y]] \in Surjection(T, Image(T))
      BY DEF Surjection
    <3> HIDE DEF Image
    <3> QED
      BY <3>1, <3>2, FS_Surjection
  <2>2. Image(T \cup {x}) = Image(T) \cup {p[x]} /\ p[x] \notin Image(T)
    OBVIOUS
  <2>3. Weighs(f, Image(T) \cup {p[x]}) /\ Weighs(h, T \cup {x})
    BY DEF Weighs
  <2> HIDE DEF Image
  <2>4. SumOf(h, T \cup {x}) = SumOf(h, T) + h[x]
    <3>1. IsFiniteSet(T) /\ x \notin T /\ Weighs(h, T \cup {x})
      BY <2>1, <2>3
    <3> QED
      BY <3>1, SumAddElement
  <2>5. SumOf(f, Image(T) \cup {p[x]}) = SumOf(f, Image(T)) + f[p[x]]
    <3>1. PICK I, y : I = Image(T) /\ y = p[x]
      OBVIOUS
    <3>2. IsFiniteSet(I) /\ y \notin I /\ Weighs(f, I \cup {y})
      BY <2>1, <2>2, <2>3, <3>1
    <3>3. SumOf(f, I \cup {y}) = SumOf(f, I) + f[y]
      BY <3>2, SumAddElement
    <3> QED
      BY <3>1, <3>3
  <2>6. SumOf(h, T) = SumOf(f, Image(T)) /\ h[x] = f[p[x]]
    BY <1>2 DEF Image
  <2>7. SumOf(h, T \cup {x}) = SumOf(f, Image(T \cup {x}))
    BY <2>2, <2>4, <2>5, <2>6
  <2> QED
    BY <2>7 DEF Image
<1>3. S \in X
  <2> HIDE DEF X
  <2> QED
    BY <1>1, <1>2, FiniteInduction
<1> QED
  BY <1>3

(* The sum of the sums. *)
LEMMA SumPlus ==
    ASSUME NEW S, IsFiniteSet(S), NEW f, Weighs(f, S), NEW h, Weighs(h, S),
           NEW e, \A x \in S : e[x] = f[x] + h[x]
    PROVE  SumOf(e, S) = SumOf(f, S) + SumOf(h, S)
<1> DEFINE X == {T \in SUBSET S : SumOf(e, T) = SumOf(f, T) + SumOf(h, T)}
<1>1. {} \in X
  BY SumEmpty
<1>2. ASSUME NEW T \in SUBSET S, NEW x \in S \ T, T \in X
      PROVE  T \cup {x} \in X
  <2>1. IsFiniteSet(T)
    BY FS_Subset
  <2>2. /\ Weighs(f, T \cup {x}) /\ Weighs(h, T \cup {x}) /\ Weighs(e, T \cup {x})
        /\ Weighs(f, T) /\ Weighs(h, T)
    BY DEF Weighs
  <2>3. /\ SumOf(f, T \cup {x}) = SumOf(f, T) + f[x]
        /\ SumOf(h, T \cup {x}) = SumOf(h, T) + h[x]
        /\ SumOf(e, T \cup {x}) = SumOf(e, T) + e[x]
    BY <2>1, <2>2, SumAddElement
  <2>4. SumOf(f, T) \in Nat /\ SumOf(h, T) \in Nat /\ f[x] \in Nat /\ h[x] \in Nat
    BY <2>1, <2>2, SumType DEF Weighs
  <2>5. SumOf(e, T) = SumOf(f, T) + SumOf(h, T) /\ e[x] = f[x] + h[x]
    BY <1>2
  <2>6. SumOf(e, T \cup {x}) = SumOf(f, T \cup {x}) + SumOf(h, T \cup {x})
    BY <2>3, <2>4, <2>5
  <2> QED
    BY <2>6
<1>3. S \in X
  <2> HIDE DEF X
  <2> QED
    BY <1>1, <1>2, FiniteInduction
<1> QED
  BY <1>3

(* Each of some elements weighs k, the others nothing. *)
LEMMA SumConstant ==
    ASSUME NEW S, IsFiniteSet(S), NEW P \in SUBSET S, NEW k \in Nat,
           NEW f, \A x \in S : f[x] = IF x \in P THEN k ELSE 0
    PROVE  SumOf(f, S) = k * Cardinality(P)
<1> DEFINE X == {T \in SUBSET S : SumOf(f, T) = k * Cardinality(T \cap P)}
<1>1. {} \in X
  <2>1. {} \cap P = {} /\ k * 0 = 0
    OBVIOUS
  <2> QED
    BY <2>1, SumEmpty, FS_EmptySet
<1>2. ASSUME NEW T \in SUBSET S, NEW x \in S \ T, T \in X
      PROVE  T \cup {x} \in X
  <2>1. IsFiniteSet(T) /\ IsFiniteSet(T \cap P)
    BY FS_Subset
  <2>2. Weighs(f, T \cup {x})
    BY DEF Weighs
  <2>3. SumOf(f, T \cup {x}) = SumOf(f, T) + f[x]
    BY <2>1, <2>2, SumAddElement
  <2>4. Cardinality(T \cap P) \in Nat
    BY <2>1, FS_CardinalityType
  <2>5. SumOf(f, T) = k * Cardinality(T \cap P)
    BY <1>2
  <2>6. CASE x \in P
    <3>1. (T \cup {x}) \cap P = (T \cap P) \cup {x}
      BY <2>6
    <3>2. Cardinality((T \cup {x}) \cap P) = Cardinality(T \cap P) + 1
      BY <2>1, <3>1, FS_AddElement
    <3>3. \A n \in Nat : k * n + k = k * (n + 1)
      OBVIOUS
    <3>4. f[x] = k
      BY <2>6
    <3>5. k * Cardinality(T \cap P) + k = k * (Cardinality(T \cap P) + 1)
      BY <2>4, <3>3
    <3>6. SumOf(f, T \cup {x}) = k * Cardinality((T \cup {x}) \cap P)
      BY <2>3, <2>5, <3>2, <3>4, <3>5, Zenon
    <3> QED
      BY <3>6
  <2>7. CASE x \notin P
    <3>1. (T \cup {x}) \cap P = T \cap P /\ f[x] = 0
      BY <2>7
    <3>2. k * Cardinality(T \cap P) \in Nat
      BY <2>4
    <3>3. k * Cardinality(T \cap P) + 0 = k * Cardinality(T \cap P)
      BY <3>2
    <3>4. SumOf(f, T \cup {x}) = k * Cardinality((T \cup {x}) \cap P)
      BY <2>3, <2>5, <3>1, <3>3, Zenon
    <3> QED
      BY <3>4
  <2> QED
    BY <2>6, <2>7
<1>3. S \in X
  <2> HIDE DEF X
  <2> QED
    BY <1>1, <1>2, FiniteInduction
<1>4. S \cap P = P
  OBVIOUS
<1> QED
  BY <1>3, <1>4

(* Two sets without a common element. *)
LEMMA SumApart ==
    ASSUME NEW S, IsFiniteSet(S), NEW T, IsFiniteSet(T), S \cap T = {},
           NEW f, Weighs(f, S \cup T)
    PROVE  SumOf(f, S \cup T) = SumOf(f, S) + SumOf(f, T)
<1> DEFINE X == {U \in SUBSET T : SumOf(f, S \cup U) = SumOf(f, S) + SumOf(f, U)}
<1>0. Weighs(f, S)
  BY DEF Weighs
<1>1. {} \in X
  <2>1. S \cup {} = S /\ SumOf(f, S) \in Nat
    BY <1>0, SumType
  <2> QED
    BY <2>1, SumEmpty
<1>2. ASSUME NEW U \in SUBSET T, NEW x \in T \ U, U \in X
      PROVE  U \cup {x} \in X
  <2>1. IsFiniteSet(U) /\ IsFiniteSet(S \cup U) /\ x \notin S \cup U
    BY FS_Subset, FS_Union
  <2>2. Weighs(f, U) /\ Weighs(f, U \cup {x}) /\ Weighs(f, (S \cup U) \cup {x}) /\ f[x] \in Nat
    BY DEF Weighs
  <2>3. /\ SumOf(f, U \cup {x}) = SumOf(f, U) + f[x]
        /\ SumOf(f, (S \cup U) \cup {x}) = SumOf(f, S \cup U) + f[x]
    BY <2>1, <2>2, SumAddElement
  <2>4. SumOf(f, S) \in Nat /\ SumOf(f, U) \in Nat
    BY <1>0, <2>1, <2>2, SumType
  <2>5. SumOf(f, S \cup U) = SumOf(f, S) + SumOf(f, U)
    BY <1>2
  <2>6. S \cup (U \cup {x}) = (S \cup U) \cup {x}
    OBVIOUS
  <2>7. (SumOf(f, S) + SumOf(f, U)) + f[x] = SumOf(f, S) + (SumOf(f, U) + f[x])
    BY <2>2, <2>4
  <2>8. SumOf(f, S \cup (U \cup {x})) = SumOf(f, S) + SumOf(f, U \cup {x})
    BY <2>3, <2>5, <2>6, <2>7, Zenon
  <2> QED
    BY <2>8
<1>3. T \in X
  <2> HIDE DEF X
  <2> QED
    BY <1>1, <1>2, FiniteInduction
<1> QED
  BY <1>3

(* One element, and two. *)
LEMMA SumFew ==
    ASSUME NEW f, NEW x, NEW y, f[x] \in Nat, f[y] \in Nat
    PROVE  /\ SumOf(f, {x}) = f[x]
           /\ x # y => SumOf(f, {x, y}) = f[x] + f[y]
<1>1. \A z \in {x, y} : SumOf(f, {z}) = f[z]
  <2> TAKE z \in {x, y}
  <2>1. {} \cup {z} = {z} /\ IsFiniteSet({}) /\ z \notin {} /\ Weighs(f, {} \cup {z})
    BY FS_EmptySet DEF Weighs
  <2>2. SumOf(f, {} \cup {z}) = SumOf(f, {}) + f[z]
    BY <2>1, SumAddElement
  <2> QED
    BY <2>1, <2>2, SumEmpty
<1>2. ASSUME x # y PROVE SumOf(f, {x, y}) = f[x] + f[y]
  <2>1. {x, y} = {x} \cup {y} /\ {x} \cap {y} = {} /\ Weighs(f, {x} \cup {y})
    BY <1>2 DEF Weighs
  <2>2. IsFiniteSet({x}) /\ IsFiniteSet({y})
    BY FS_Singleton
  <2>3. SumOf(f, {x} \cup {y}) = SumOf(f, {x}) + SumOf(f, {y})
    BY <2>1, <2>2, SumApart
  <2> QED
    BY <1>1, <2>1, <2>3, Zenon
<1> QED
  BY <1>1, <1>2

(* A family of finite sets without common elements, and its union. *)
Family(C, S, U) ==
    /\ \A x \in S : IsFiniteSet(C[x])
    /\ \A x, y \in S : x # y => C[x] \cap C[y] = {}
    /\ \A e : e \in U <=> \E x \in S : e \in C[x]

SumsOver(h, f, C, S) == \A x \in S : h[x] = SumOf(f, C[x])

LEMMA SumOfUnion ==
    ASSUME NEW S, IsFiniteSet(S), NEW C, NEW U, Family(C, S, U),
           NEW f, Weighs(f, U), NEW h, SumsOver(h, f, C, S)
    PROVE  IsFiniteSet(U) /\ SumOf(f, U) = SumOf(h, S)
<1> DEFINE All(T) == UNION {C[x] : x \in T}
           X == {T \in SUBSET S : IsFiniteSet(All(T)) /\ SumOf(f, All(T)) = SumOf(h, T)}
<1>. /\ \A x \in S : IsFiniteSet(C[x]) /\ h[x] = SumOf(f, C[x])
     /\ \A x, y \in S : x # y => C[x] \cap C[y] = {}
     /\ \A e : e \in U <=> \E x \in S : e \in C[x]
  BY DEF Family, SumsOver
<1>0. Weighs(h, S)
  <2> SUFFICES ASSUME NEW x \in S PROVE h[x] \in Nat
    BY DEF Weighs
  <2>1. Weighs(f, C[x])
    BY DEF Weighs
  <2> QED
    BY <2>1, SumType
<1>1. {} \in X
  <2>1. All({}) = {}
    OBVIOUS
  <2> QED
    BY <2>1, SumEmpty, FS_EmptySet
<1>2. ASSUME NEW T \in SUBSET S, NEW x \in S \ T, T \in X
      PROVE  T \cup {x} \in X
  <2>1. All(T \cup {x}) = All(T) \cup C[x] /\ All(T) \cap C[x] = {}
    OBVIOUS
  <2>2. IsFiniteSet(T) /\ IsFiniteSet(C[x]) /\ IsFiniteSet(All(T))
    <3>1. IsFiniteSet(All(T)) /\ IsFiniteSet(C[x])
      BY <1>2
    <3> HIDE DEF All
    <3> QED
      BY <3>1, FS_Subset
  <2>3. Weighs(f, All(T) \cup C[x]) /\ Weighs(h, T \cup {x})
    BY <1>0 DEF Weighs
  <2>4. SumOf(f, All(T)) = SumOf(h, T) /\ h[x] = SumOf(f, C[x])
    BY <1>2
  <2> HIDE DEF All
  <2>5. SumOf(h, T \cup {x}) = SumOf(h, T) + h[x]
    <3>1. x \notin T
      BY <1>2
    <3> QED
      BY <2>2, <2>3, <3>1, SumAddElement
  <2>6. SumOf(f, All(T) \cup C[x]) = SumOf(f, All(T)) + SumOf(f, C[x])
    <3>1. PICK A, B : A = All(T) /\ B = C[x]
      OBVIOUS
    <3>2. SumOf(f, A \cup B) = SumOf(f, A) + SumOf(f, B)
      <4>1. IsFiniteSet(A) /\ IsFiniteSet(B) /\ A \cap B = {} /\ Weighs(f, A \cup B)
        BY <2>1, <2>2, <2>3, <3>1
      <4> QED
        BY <4>1, SumApart
    <3> QED
      BY <3>1, <3>2
  <2>7. SumOf(f, All(T \cup {x})) = SumOf(h, T \cup {x})
    BY <2>1, <2>4, <2>5, <2>6
  <2>8. IsFiniteSet(All(T \cup {x}))
    <3>1. IsFiniteSet(All(T) \cup C[x])
      BY <2>2, FS_Union
    <3> QED
      BY <2>1, <3>1, Zenon
  <2> QED
    BY <2>7, <2>8
<1>3. S \in X
  <2> HIDE DEF X
  <2> QED
    BY <1>1, <1>2, FiniteInduction
<1>4. U = All(S)
  OBVIOUS
<1> QED
  BY <1>3, <1>4

(* ... and their elements are counted set by set. *)
LEMMA CountOfUnion ==
    ASSUME NEW S, IsFiniteSet(S), NEW C, NEW U, Family(C, S, U),
           NEW h, \A x \in S : h[x] = Cardinality(C[x])
    PROVE  IsFiniteSet(U) /\ SumOf(h, S) = Cardinality(U)
<1> DEFINE one == [e \in U |-> 1]
<1>1. ASSUME NEW T, IsFiniteSet(T), T \subseteq U
      PROVE  SumOf(one, T) = Cardinality(T)
  <2>1. \A e \in T : one[e] = IF e \in T THEN 1 ELSE 0
    BY <1>1
  <2> HIDE DEF one
  <2>2. SumOf(one, T) = 1 * Cardinality(T)
    BY <1>1, <2>1, SumConstant
  <2>3. Cardinality(T) \in Nat
    BY <1>1, FS_CardinalityType
  <2> QED
    BY <2>2, <2>3
<1>2. Weighs(one, U)
  BY DEF Weighs
<1> HIDE DEF one
<1>3. SumsOver(h, one, C, S)
  <2> SUFFICES ASSUME NEW x \in S PROVE h[x] = SumOf(one, C[x])
    BY DEF SumsOver
  <2>1. IsFiniteSet(C[x]) /\ C[x] \subseteq U
    BY DEF Family
  <2> QED
    BY <1>1, <2>1
<1>4. IsFiniteSet(U) /\ SumOf(one, U) = SumOf(h, S)
  BY <1>2, <1>3, SumOfUnion
<1> QED
  BY <1>1, <1>4

(* The numbers up to n, and their squares. *)
LEMMA SumOfNumbers ==
    ASSUME NEW n \in Nat, NEW f, \A i \in 1..n : f[i] = i,
           NEW h, \A i \in 1..n : h[i] = i * i
    PROVE  /\ 2 * SumOf(f, 1..n) = n * (n + 1)
           /\ 6 * SumOf(h, 1..n) = n * (n + 1) * (2 * n + 1)
<1> DEFINE X == {m \in 0..n : /\ 2 * SumOf(f, 1..m) = m * (m + 1)
                              /\ 6 * SumOf(h, 1..m) = m * (m + 1) * (2 * m + 1)}
<1>1. 0 \in X
  <2>1. 1..0 = {}
    OBVIOUS
  <2> QED
    BY <2>1, SumEmpty
<1>2. ASSUME NEW m \in 0..(n - 1), m \in X
      PROVE  m + 1 \in X
  <2>1. 1..(m + 1) = (1..m) \cup {m + 1} /\ m + 1 \notin 1..m /\ m \in Nat /\ m + 1 \in 1..n
    OBVIOUS
  <2>2. IsFiniteSet(1..m)
    BY <2>1, FS_Interval
  <2>3. \A i \in 1..(m + 1) : i \in 1..n /\ i \in Nat
    BY <2>1
  <2>4. \A i \in 1..(m + 1) : f[i] = i /\ h[i] = i * i /\ i * i \in Nat
    BY <2>3
  <2>5. Weighs(f, (1..m) \cup {m + 1}) /\ Weighs(h, (1..m) \cup {m + 1})
        /\ Weighs(f, 1..m) /\ Weighs(h, 1..m)
    BY <2>1, <2>3, <2>4 DEF Weighs
  <2>6. /\ SumOf(f, (1..m) \cup {m + 1}) = SumOf(f, 1..m) + f[m + 1]
        /\ SumOf(h, (1..m) \cup {m + 1}) = SumOf(h, 1..m) + h[m + 1]
    BY <2>1, <2>2, <2>5, SumAddElement
  <2>7. SumOf(f, 1..m) \in Nat /\ SumOf(h, 1..m) \in Nat
    BY <2>2, <2>5, SumType
  <2>8. f[m + 1] = m + 1 /\ h[m + 1] = (m + 1) * (m + 1)
    BY <2>1, <2>4
  <2>9. \A i, s, t \in Nat :
            /\ 2 * s = i * (i + 1) => 2 * (s + (i + 1)) = (i + 1) * ((i + 1) + 1)
            /\ 6 * t = i * (i + 1) * (2 * i + 1) =>
                   6 * (t + (i + 1) * (i + 1)) = (i + 1) * ((i + 1) + 1) * (2 * (i + 1) + 1)
    OBVIOUS
  <2>10. 2 * SumOf(f, 1..m) = m * (m + 1) /\ 6 * SumOf(h, 1..m) = m * (m + 1) * (2 * m + 1)
    BY <1>2
  <2>11. /\ 2 * (SumOf(f, 1..m) + (m + 1)) = (m + 1) * ((m + 1) + 1)
         /\ 6 * (SumOf(h, 1..m) + (m + 1) * (m + 1)) = (m + 1) * ((m + 1) + 1) * (2 * (m + 1) + 1)
    <3> PICK s, t : s = SumOf(f, 1..m) /\ t = SumOf(h, 1..m)
      OBVIOUS
    <3> QED
      BY <2>1, <2>7, <2>9, <2>10
  <2>12. /\ SumOf(f, 1..(m + 1)) = SumOf(f, 1..m) + (m + 1)
         /\ SumOf(h, 1..(m + 1)) = SumOf(h, 1..m) + (m + 1) * (m + 1)
    BY <2>1, <2>6, <2>8, Zenon
  <2>13. /\ 2 * SumOf(f, 1..(m + 1)) = (m + 1) * ((m + 1) + 1)
         /\ 6 * SumOf(h, 1..(m + 1)) = (m + 1) * ((m + 1) + 1) * (2 * (m + 1) + 1)
    BY <2>11, <2>12, Zenon
  <2>14. m + 1 \in 0..n
    BY <2>1
  <2> QED
    BY <2>13, <2>14
<1>3. n \in X
  <2> HIDE DEF X
  <2>1. 0..n \subseteq X
    BY <1>1, <1>2, UpTo
  <2> QED
    BY <2>1
<1> QED
  BY <1>3

(* What grows by f[x] with each x is what a recursion gives, whatever the     *)
(* sign of the weights.                                                     *)
Grows(g, f, S) == g[{}] = 0 /\ \A T \in SUBSET S : \A x \in T : g[T] = f[x] + g[T \ {x}]

LEMMA GrowsUnique ==
    ASSUME NEW S, IsFiniteSet(S), NEW f, NEW g, Grows(g, f, S), NEW t, Tallies(t, f, S)
    PROVE  t[S] = g[S]
<1> DEFINE Bad == {T \in SUBSET S : t[T] # g[T]}
<1>1. SUFFICES ASSUME Bad # {}
               PROVE  FALSE
  OBVIOUS
<1>2. PICK T \in Bad : \A x \in T : T \ {x} \notin Bad
  <2>1. Bad \subseteq SUBSET S
    OBVIOUS
  <2> HIDE DEF Bad
  <2> QED
    BY <1>1, <2>1, SmallestSubset
<1>3. T # {}
  BY DEF Grows, Tallies
<1>4. PICK x \in T : t[T] = f[x] + t[T \ {x}]
  BY <1>3 DEF Tallies
<1>5. t[T \ {x}] = g[T \ {x}]
  BY <1>2, <1>4
<1> QED
  BY <1>4, <1>5 DEF Grows

LEMMA SumTimes ==
    ASSUME NEW S, IsFiniteSet(S), NEW f, Weighs(f, S), NEW k \in Nat,
           NEW h, \A x \in S : h[x] = k * f[x]
    PROVE  SumOf(h, S) = k * SumOf(f, S)
<1>1. \A i \in Nat : k * i \in Nat /\ 1 * (k * i) = k * i
  OBVIOUS
<1>2. /\ Weighs(h, S) /\ \A x \in S : k * f[x] <= 1 * h[x] /\ 1 * h[x] <= k * f[x]
  BY <1>1 DEF Weighs
<1>3. k * SumOf(f, S) <= 1 * SumOf(h, S) /\ 1 * SumOf(h, S) <= k * SumOf(f, S)
  BY <1>2, SumScaled
<1>4. SumOf(f, S) \in Nat /\ SumOf(h, S) \in Nat /\ k * SumOf(f, S) \in Nat
  BY <1>1, <1>2, SumType
<1> QED
  BY <1>3, <1>4

(* Weights of either sign, each a difference, grow by the differences of the  *)
(* sums.                                                                    *)
LEMMA DifferencesGrow ==
    ASSUME NEW S, IsFiniteSet(S), NEW p, Weighs(p, S), NEW q, Weighs(q, S),
           NEW f, \A x \in S : f[x] = p[x] - q[x]
    PROVE  Grows([T \in SUBSET S |-> SumOf(p, T) - SumOf(q, T)], f, S)
<1> DEFINE g == [T \in SUBSET S |-> SumOf(p, T) - SumOf(q, T)]
<1>1. \A T \in SUBSET S : g[T] = SumOf(p, T) - SumOf(q, T)
  OBVIOUS
<1> HIDE DEF g
<1>2. g[{}] = 0
  <2>1. SumOf(p, {}) = 0 /\ SumOf(q, {}) = 0 /\ {} \in SUBSET S
    BY SumEmpty
  <2> QED
    BY <1>1, <2>1
<1>3. ASSUME NEW T \in SUBSET S, NEW x \in T
      PROVE  g[T] = f[x] + g[T \ {x}]
  <2> DEFINE U == T \ {x}
  <2>1. T = U \cup {x} /\ U \in SUBSET S /\ x \notin U /\ x \in S
    OBVIOUS
  <2> HIDE DEF U
  <2>2. IsFiniteSet(U)
    BY <2>1, FS_Subset
  <2>3. /\ Weighs(p, U \cup {x}) /\ Weighs(q, U \cup {x}) /\ Weighs(p, U) /\ Weighs(q, U)
        /\ p[x] \in Nat /\ q[x] \in Nat /\ f[x] = p[x] - q[x]
    BY <2>1 DEF Weighs
  <2>4. /\ SumOf(p, U \cup {x}) = SumOf(p, U) + p[x] /\ SumOf(p, U) \in Nat
        /\ SumOf(q, U \cup {x}) = SumOf(q, U) + q[x] /\ SumOf(q, U) \in Nat
    BY <2>1, <2>2, <2>3, SumAddElement, SumType
  <2>5. g[U] = SumOf(p, U) - SumOf(q, U) /\ g[T] = SumOf(p, U \cup {x}) - SumOf(q, U \cup {x})
    BY <1>1, <2>1
  <2>6. g[T] = f[x] + g[U]
    BY <2>3, <2>4, <2>5
  <2> QED
    BY <2>6 DEF U
<1>4. Grows(g, f, S)
  BY <1>2, <1>3 DEF Grows
<1> QED
  BY <1>4 DEF g

(* What a recursion gives over them. *)
LEMMA SumOfDifferences ==
    ASSUME NEW S, IsFiniteSet(S), NEW p, Weighs(p, S), NEW q, Weighs(q, S),
           NEW f, \A x \in S : f[x] = p[x] - q[x], NEW t, Tallies(t, f, S)
    PROVE  t[S] = SumOf(p, S) - SumOf(q, S)
<1> DEFINE g == [T \in SUBSET S |-> SumOf(p, T) - SumOf(q, T)]
<1>1. Grows(g, f, S)
  BY DifferencesGrow
<1>2. g[S] = SumOf(p, S) - SumOf(q, S)
  OBVIOUS
<1> HIDE DEF g
<1>3. t[S] = g[S]
  BY <1>1, GrowsUnique
<1> QED
  BY <1>2, <1>3

LEMMA GrowsExists ==
    ASSUME NEW S, IsFiniteSet(S), NEW f, \A x \in S : f[x] \in Int
    PROVE  \E g : Grows([T \in SUBSET S |-> g[T]], f, S)
<1> DEFINE p == [x \in S |-> IF f[x] >= 0 THEN f[x] ELSE 0]
           q == [x \in S |-> IF f[x] >= 0 THEN 0 ELSE -f[x]]
           g == [T \in SUBSET S |-> SumOf(p, T) - SumOf(q, T)]
<1>1. \A x \in S : p[x] \in Nat /\ q[x] \in Nat /\ f[x] = p[x] - q[x]
  OBVIOUS
<1> HIDE DEF p, q
<1>2. Weighs(p, S) /\ Weighs(q, S)
  BY <1>1 DEF Weighs
<1>3. Grows(g, f, S)
  BY <1>1, <1>2, DifferencesGrow
<1>4. g = [T \in SUBSET S |-> g[T]]
  OBVIOUS
<1> HIDE DEF g
<1>5. Grows([T \in SUBSET S |-> g[T]], f, S)
  BY <1>3, <1>4, Zenon
<1> QED
  BY <1>5

-----------------------------------------------------------------------------
(* The numbers of a finite set of n, one each from 1 to n. *)
Numbering(a, S) ==
    /\ \A x \in S : a[x] \in 1..Cardinality(S)
    /\ \A x, y \in S : a[x] = a[y] => x = y

LEMMA NumberingSums ==
    ASSUME NEW S, IsFiniteSet(S), NEW a, Numbering(a, S),
           NEW sq, \A x \in S : sq[x] = a[x] * a[x]
    PROVE  LET n == Cardinality(S) IN
           /\ 2 * SumOf(a, S) = n * (n + 1)
           /\ 6 * SumOf(sq, S) = n * (n + 1) * (2 * n + 1)
<1> DEFINE n == Cardinality(S)
           Image == {a[x] : x \in S}
           one == [i \in 1..n |-> 1]
           each == [x \in S |-> 1]
           num == [i \in 1..n |-> i]
           sqs == [i \in 1..n |-> i * i]
<1>1. n \in Nat
  BY FS_CardinalityType
<1>2. Image \in SUBSET (1..n) /\ \A x \in S : a[x] \in Image
  BY DEF Numbering
<1>3. \A x, y \in S : a[x] = a[y] => x = y
  BY DEF Numbering
<1>4. IsFiniteSet(1..n) /\ Cardinality(1..n) = n
  <2>1. /\ IsFiniteSet(1..n)
        /\ Cardinality(1..n) = IF 1 > n THEN 0 ELSE n - 1 + 1
    BY <1>1, FS_Interval
  <2> QED
    BY <1>1, <2>1
<1>5. IsFiniteSet(Image)
  BY <1>2, <1>4, FS_Subset
<1>6. \A i \in 1..n : /\ one[i] = 1 /\ num[i] = i /\ sqs[i] = i * i
                      /\ one[i] \in Nat /\ num[i] \in Nat /\ sqs[i] \in Nat
  <2>1. \A i \in 1..n : i \in Nat /\ i * i \in Nat
    BY <1>1
  <2> QED
    BY <2>1
<1>7. \A x \in S : each[x] = 1 /\ a[x] \in 1..n
  BY <1>2
<1> HIDE DEF n, one, each, num, sqs
<1>8. Weighs(one, Image) /\ Weighs(num, Image) /\ Weighs(sqs, Image)
  BY <1>2, <1>6 DEF Weighs
<1>9. /\ \A x \in S : each[x] = one[a[x]]
      /\ \A x \in S : a[x] = num[a[x]]
      /\ \A x \in S : sq[x] = sqs[a[x]]
  BY <1>6, <1>7
<1>10. /\ SumOf(each, S) = SumOf(one, Image)
       /\ SumOf(a, S) = SumOf(num, Image)
       /\ SumOf(sq, S) = SumOf(sqs, Image)
  BY <1>3, <1>8, <1>9, SumOfImage
<1>11. Image = 1..n
  <2>1. SumOf(each, S) = 1 * Cardinality(S)
    <3>1. \A x \in S : each[x] = IF x \in S THEN 1 ELSE 0
      BY <1>7
    <3> QED
      BY <3>1, SumConstant
  <2>2. SumOf(one, Image) = 1 * Cardinality(Image)
    <3>1. \A x \in Image : one[x] = IF x \in Image THEN 1 ELSE 0
      BY <1>2, <1>6
    <3> QED
      BY <1>5, <3>1, SumConstant
  <2>3. Cardinality(S) \in Nat /\ Cardinality(Image) \in Nat
    BY <1>5, FS_CardinalityType
  <2>4. Cardinality(Image) = Cardinality(1..n)
    <3>1. Cardinality(S) = Cardinality(Image)
      <4> HIDE DEF Image
      <4>1. 1 * Cardinality(S) = 1 * Cardinality(Image)
        BY <1>10, <2>1, <2>2, Zenon
      <4> QED
        BY <2>3, <4>1
    <3> QED
      BY <1>4, <3>1, Zenon DEF n
  <2> QED
    BY <1>2, <1>4, <2>4, FS_Subset
<1>12. /\ 2 * SumOf(num, 1..n) = n * (n + 1)
       /\ 6 * SumOf(sqs, 1..n) = n * (n + 1) * (2 * n + 1)
  <2>1. (\A i \in 1..n : num[i] = i) /\ \A i \in 1..n : sqs[i] = i * i
    BY <1>6
  <2> HIDE DEF num, sqs
  <2> QED
    BY <1>1, <2>1, SumOfNumbers
<1> HIDE DEF Image
<1> QED
  BY <1>10, <1>11, <1>12, Zenon DEF n

(* Two numberings a and b: the squares of their differences, and the products *)
(* of their doubled differences from the middle, as sums.                   *)
SquaredDistances(d, a, b, S) == \A x \in S : d[x] = (a[x] - b[x]) * (a[x] - b[x])
Products(c, a, b, S) ==
    \A x \in S : c[x] = (2 * a[x] - Cardinality(S) - 1) * (2 * b[x] - Cardinality(S) - 1)

LEMMA NumberingsCompared ==
    ASSUME NEW S, IsFiniteSet(S), NEW a, Numbering(a, S), NEW b, Numbering(b, S),
           NEW d, SquaredDistances(d, a, b, S), NEW c, Products(c, a, b, S),
           NEW t, Tallies(t, c, S)
    PROVE  LET n == Cardinality(S) IN
           n * (n * n - 1) - 6 * SumOf(d, S) = 3 * t[S]
<1> DEFINE n == Cardinality(S)
           m == n + 1
           ab == [x \in S |-> a[x] * b[x]]
           aa == [x \in S |-> a[x] * a[x]]
           bb == [x \in S |-> b[x] * b[x]]
           ab2 == [x \in S |-> 2 * ab[x]]
           squares == [x \in S |-> aa[x] + bb[x]]
           ab4 == [x \in S |-> 4 * ab[x]]
           mm == [x \in S |-> m * m]
           p == [x \in S |-> ab4[x] + mm[x]]
           both == [x \in S |-> a[x] + b[x]]
           q == [x \in S |-> (2 * m) * both[x]]
<1>1. n \in Nat /\ m \in Nat
  BY FS_CardinalityType
<1>2. \A x \in S : a[x] \in Nat /\ b[x] \in Nat
  BY <1>1 DEF Numbering
<1>3. \A x \in S : /\ ab[x] = a[x] * b[x] /\ aa[x] = a[x] * a[x] /\ bb[x] = b[x] * b[x]
                   /\ ab[x] \in Nat /\ aa[x] \in Nat /\ bb[x] \in Nat
  <2>1. \A i, j \in Nat : i * j \in Nat
    OBVIOUS
  <2> QED
    BY <1>2, <2>1
<1>4. \A x \in S : /\ ab2[x] = 2 * ab[x] /\ squares[x] = aa[x] + bb[x] /\ ab4[x] = 4 * ab[x]
                   /\ mm[x] = m * m /\ p[x] = ab4[x] + mm[x] /\ both[x] = a[x] + b[x]
                   /\ q[x] = (2 * m) * both[x]
  OBVIOUS
<1>5. 2 * m \in Nat /\ m * m \in Nat
  BY <1>1
<1> HIDE DEF n, m, ab, aa, bb, ab2, squares, ab4, mm, p, both, q
<1>6. /\ Weighs(a, S) /\ Weighs(b, S) /\ Weighs(ab, S) /\ Weighs(aa, S) /\ Weighs(bb, S)
      /\ Weighs(ab2, S) /\ Weighs(squares, S) /\ Weighs(ab4, S) /\ Weighs(mm, S)
      /\ Weighs(both, S)
  BY <1>2, <1>3, <1>4, <1>5 DEF Weighs
<1>7. Weighs(p, S) /\ Weighs(q, S)
  <2>1. \A i \in Nat : (2 * m) * i \in Nat
    BY <1>5
  <2> QED
    BY <1>4, <1>6, <2>1 DEF Weighs
<1>8. /\ SumOf(squares, S) = SumOf(aa, S) + SumOf(bb, S)
      /\ SumOf(both, S) = SumOf(a, S) + SumOf(b, S)
      /\ SumOf(p, S) = SumOf(ab4, S) + SumOf(mm, S)
  BY <1>4, <1>6, SumPlus
<1>9. /\ SumOf(ab2, S) = 2 * SumOf(ab, S) /\ SumOf(ab4, S) = 4 * SumOf(ab, S)
      /\ SumOf(q, S) = (2 * m) * SumOf(both, S)
  BY <1>4, <1>5, <1>6, SumTimes
<1>10. SumOf(mm, S) = (m * m) * n
  <2>1. \A x \in S : mm[x] = IF x \in S THEN m * m ELSE 0
    BY <1>4
  <2> QED
    BY <1>5, <2>1, SumConstant DEF n
<1>11. SumOf(squares, S) = SumOf(d, S) + SumOf(ab2, S) /\ SumOf(d, S) \in Nat
  <2>1. \A i, j \in Nat : /\ (i - j) * (i - j) \in Nat
                          /\ i * i + j * j = (i - j) * (i - j) + 2 * (i * j)
    OBVIOUS
  <2>2. \A x \in S : d[x] \in Nat /\ squares[x] = d[x] + ab2[x]
    BY <1>2, <1>3, <1>4, <2>1 DEF SquaredDistances
  <2>3. Weighs(d, S)
    BY <2>2 DEF Weighs
  <2> QED
    BY <1>6, <2>2, <2>3, SumPlus, SumType
<1>12. t[S] = SumOf(p, S) - SumOf(q, S)
  <2>1. \A i, j, k \in Nat : (2 * i - k - 1) * (2 * j - k - 1)
                                = (4 * (i * j) + (k + 1) * (k + 1)) - (2 * (k + 1)) * (i + j)
    OBVIOUS
  <2>2. \A x \in S : c[x] = (2 * a[x] - n - 1) * (2 * b[x] - n - 1)
    BY DEF n, Products
  <2>3. \A x \in S : /\ p[x] = 4 * (a[x] * b[x]) + (n + 1) * (n + 1)
                     /\ q[x] = (2 * (n + 1)) * (a[x] + b[x])
    BY <1>3, <1>4 DEF m
  <2>4. \A x \in S : c[x] = p[x] - q[x]
    BY <1>1, <1>2, <2>1, <2>2, <2>3
  <2> QED
    BY <1>7, <2>4, SumOfDifferences
<1>13. /\ 2 * SumOf(a, S) = n * (n + 1) /\ 6 * SumOf(aa, S) = n * (n + 1) * (2 * n + 1)
       /\ 2 * SumOf(b, S) = n * (n + 1) /\ 6 * SumOf(bb, S) = n * (n + 1) * (2 * n + 1)
  BY <1>3, NumberingSums DEF n
<1>14. /\ SumOf(ab, S) \in Nat /\ SumOf(aa, S) \in Nat /\ SumOf(bb, S) \in Nat
       /\ SumOf(a, S) \in Nat /\ SumOf(b, S) \in Nat
  BY <1>6, SumType
<1>15. \A D, P, A, B, Q, R, N \in Nat :
          /\ Q + R = D + 2 * P
          /\ 2 * A = N * (N + 1) /\ 2 * B = N * (N + 1)
          /\ 6 * Q = N * (N + 1) * (2 * N + 1) /\ 6 * R = N * (N + 1) * (2 * N + 1)
          => N * (N * N - 1) - 6 * D
               = 3 * ((4 * P + ((N + 1) * (N + 1)) * N) - (2 * (N + 1)) * (A + B))
  OBVIOUS
<1>16. /\ SumOf(aa, S) + SumOf(bb, S) = SumOf(d, S) + 2 * SumOf(ab, S)
       /\ t[S] = (4 * SumOf(ab, S) + ((n + 1) * (n + 1)) * n)
                   - (2 * (n + 1)) * (SumOf(a, S) + SumOf(b, S))
  BY <1>8, <1>9, <1>10, <1>11, <1>12, Zenon DEF m
<1>17. n * (n * n - 1) - 6 * SumOf(d, S) = 3 * t[S]
  BY <1>1, <1>11, <1>13, <1>14, <1>15, <1>16
<1> QED
  BY <1>17 DEF n

-----------------------------------------------------------------------------
(* Products of positive numbers, likewise. *)
Multiplicative(m, S) ==
    /\ m \in [SUBSET S -> Nat \ {0}]
    /\ m[{}] = 1
    /\ \A T \in SUBSET S : \A x \in T : m[T] = x * m[T \ {x}]

(* There is such a function ... *)
LEMMA MultiplicativeExists ==
    ASSUME NEW S, IsFiniteSet(S), S \subseteq Nat \ {0}
    PROVE  \E m : Multiplicative(m, S)
<1> DEFINE X == {T \in SUBSET S : \E m : Multiplicative(m, T)}
<1>1. {} \in X
  <2>1. Multiplicative([T \in SUBSET {} |-> 1], {})
    BY DEF Multiplicative
  <2> QED
    BY <2>1
<1>2. ASSUME NEW T \in SUBSET S, NEW x \in S \ T, T \in X
      PROVE  T \cup {x} \in X
  <2>1. PICK m : Multiplicative(m, T)
    BY <1>2
  <2>2. x \in Nat \ {0} /\ x \notin T /\ T \subseteq Nat \ {0}
    OBVIOUS
  <2> DEFINE h == [U \in SUBSET (T \cup {x}) |-> IF x \in U THEN x * m[U \ {x}] ELSE m[U]]
  <2>3. \A U \in SUBSET (T \cup {x}) : U \ {x} \in SUBSET T /\ (x \notin U => U \in SUBSET T)
    OBVIOUS
  <2>4. h \in [SUBSET (T \cup {x}) -> Nat \ {0}]
    <3>1. \A a, b \in Nat \ {0} : a * b \in Nat \ {0}
      OBVIOUS
    <3> QED
      BY <2>1, <2>2, <2>3, <3>1 DEF Multiplicative
  <2>5. h[{}] = 1
    BY <2>1 DEF Multiplicative
  <2>6. ASSUME NEW U \in SUBSET (T \cup {x}), NEW y \in U
        PROVE  h[U] = y * h[U \ {y}]
    <3>1. U \ {y} \in SUBSET (T \cup {x})
      OBVIOUS
    <3>2. CASE y = x
      BY <2>3, <3>1, <3>2
    <3>3. CASE y # x /\ x \notin U
      <4>1. U \in SUBSET T /\ y \in U /\ x \notin U \ {y}
        BY <2>3, <3>3
      <4>2. m[U] = y * m[U \ {y}]
        BY <2>1, <4>1 DEF Multiplicative
      <4> QED
        BY <3>1, <3>3, <4>1, <4>2
    <3>4. CASE y # x /\ x \in U
      <4> DEFINE V == U \ {x}
      <4>1. /\ V \in SUBSET T /\ y \in V /\ (U \ {y}) \ {x} = V \ {y}
            /\ V \ {y} \in SUBSET T /\ y \in Nat \ {0}
        BY <2>2, <2>3, <3>4
      <4>2. m[V] = y * m[V \ {y}] /\ m[V] \in Nat \ {0} /\ m[V \ {y}] \in Nat \ {0}
        BY <2>1, <4>1 DEF Multiplicative
      <4>3. h[U] = x * m[V] /\ h[U \ {y}] = x * m[V \ {y}]
        BY <3>1, <3>4, <4>1
      <4>4. \A a, b, c \in Nat : a * (b * c) = b * (a * c)
        OBVIOUS
      <4> HIDE DEF h, V
      <4> QED
        BY <2>2, <4>1, <4>2, <4>3, <4>4
    <3> QED
      BY <3>2, <3>3, <3>4
  <2>7. Multiplicative(h, T \cup {x})
    <3> HIDE DEF h
    <3> QED
      BY <2>4, <2>5, <2>6 DEF Multiplicative
  <2> QED
    BY <2>7
<1>3. S \in X
  <2> HIDE DEF X
  <2> QED
    BY <1>1, <1>2, FiniteInduction
<1> QED
  BY <1>3

(* What a recursion gives that takes one element of each set, whichever. *)
Multiplies(t, S) ==
    /\ t[{}] = 1
    /\ \A T \in SUBSET S : T # {} => \E x \in T : t[T] = x * t[T \ {x}]

(* ... and such a recursion agrees with it: each element divides its result.  *)
LEMMA EachDividesProduct ==
    ASSUME NEW S, IsFiniteSet(S), S \subseteq Nat \ {0}, NEW t, Multiplies(t, S)
    PROVE  /\ t[S] \in Nat \ {0}
           /\ \A x \in S : \E k \in Nat \ {0} : t[S] = x * k
<1>1. PICK m : Multiplicative(m, S)
  BY MultiplicativeExists
<1> DEFINE Bad == {T \in SUBSET S : t[T] # m[T]}
<1>2. ASSUME Bad # {}
      PROVE  FALSE
  <2>1. PICK T \in Bad : \A x \in T : T \ {x} \notin Bad
    <3>1. Bad \subseteq SUBSET S
      OBVIOUS
    <3> HIDE DEF Bad
    <3> QED
      BY <1>2, <3>1, SmallestSubset
  <2>2. T # {}
    BY <1>1 DEF Multiplicative, Multiplies
  <2>3. PICK x \in T : t[T] = x * t[T \ {x}]
    BY <2>2 DEF Multiplies
  <2>4. t[T \ {x}] = m[T \ {x}]
    BY <2>1, <2>3
  <2> QED
    BY <1>1, <2>3, <2>4 DEF Multiplicative
<1>3. t[S] = m[S]
  BY <1>2
<1>4. ASSUME NEW x \in S
      PROVE  m[S] = x * m[S \ {x}] /\ m[S \ {x}] \in Nat \ {0}
  BY <1>1 DEF Multiplicative
<1>5. m[S] \in Nat \ {0}
  BY <1>1 DEF Multiplicative
<1> QED
  BY <1>3, <1>4, <1>5
=============================================================================
