--------------------------- MODULE SequenceLemmas ---------------------------
(***************************************************************************)
(* What the models' operators on sequences return, for sequences of any    *)
(* length, and what sums over finite sets are.  A set of naturals takes    *)
(* the place of the predicate of an induction, so that the provers need    *)
(* not instantiate an operator.                                            *)
(***************************************************************************)
EXTENDS Selection, SequencesExt, SequenceTheorems, FiniteSetTheorems, WellFoundedInduction, TLAPS

\* Induction on the naturals.
LEMMA NatInSets ==
  ASSUME NEW T, 0 \in T, \A n \in Nat : n \in T => n + 1 \in T
  PROVE  Nat \subseteq T
<1>1. SUFFICES ASSUME Nat \ T # {} PROVE FALSE
  OBVIOUS
<1>2. PICK x \in Nat \ T : \A y \in Nat \ T : <<y, x>> \notin OpToRel(<, Nat)
  <2>1. Nat \ T \subseteq Nat OBVIOUS
  <2> QED BY <1>1, <2>1, NatLessThanWellFounded, WFMin
<1>4. x # 0 /\ x - 1 \in Nat
  OBVIOUS
<1>5. <<x-1, x>> \in OpToRel(<, Nat) BY <1>4 DEF OpToRel
<1>6. x - 1 \in T BY <1>2, <1>4, <1>5
<1>7. QED BY <1>4, <1>6

\* A set of positions has a first and a last one.
LEMMA FirstAndLast ==
  ASSUME NEW n \in Nat, NEW P \in SUBSET (0 .. n), P # {}
  PROVE  /\ \E i \in P : \A j \in P : i <= j
         /\ \E i \in P : \A j \in P : j <= i
<1>1. ASSUME NEW Q \in SUBSET (0 .. n), Q # {} PROVE \E i \in Q : \A j \in Q : i <= j
  <2>1. Q \subseteq Nat
    OBVIOUS
  <2>2. PICK i \in Q : \A j \in Q : <<j, i>> \notin OpToRel(<, Nat)
    BY <1>1, <2>1, NatLessThanWellFounded, WFMin
  <2>3. \A j \in Q : ~(j < i)
    BY <2>1, <2>2 DEF OpToRel
  <2> QED BY <2>1, <2>3
<1>2. \E i \in P : \A j \in P : j <= i
  <2> DEFINE Q == {n - j : j \in P}
  <2>1. Q \in SUBSET (0 .. n) /\ Q # {}
    <3>1. PICK j \in P : TRUE
      OBVIOUS
    <3>2. n - j \in Q
      BY <3>1
    <3> QED BY <3>2
  <2>2. PICK i \in Q : \A j \in Q : i <= j
    BY <1>1, <2>1
  <2>3. PICK h \in P : i = n - h
    BY <2>2
  <2>4. \A j \in P : n - j \in Q /\ j \in Int
    OBVIOUS
  <2>5. \A j \in P : n - h <= n - j
    BY <2>2, <2>3, <2>4
  <2> HIDE DEF Q
  <2>6. \A j \in P : j <= h
    BY <2>4, <2>5
  <2> QED BY <2>6
<1> QED BY <1>1, <1>2

\* Doubling: a set with one more element has twice as many subsets.
LEMMA PowersDouble ==
  /\ 2 ^ 0 = 1
  /\ \A n \in Nat : 2 ^ n \in Nat /\ 2 ^ n > n /\ 2 ^ (n + 1) = 2 * 2 ^ n
<1>1. ASSUME NEW n \in Nat PROVE 2 ^ n \in Nat /\ 2 ^ (n + 1) = 2 * 2 ^ n
  <2> DEFINE S == 1 .. n  x == n + 1  U == 1 .. n + 1
             V == {t \cup {x} : t \in SUBSET S}
             f == [t \in SUBSET S |-> t \cup {x}]
  <2>1. IsFiniteSet(S) /\ Cardinality(S) = n /\ IsFiniteSet(U) /\ Cardinality(U) = n + 1
    BY FS_Interval
  <2>2. IsFiniteSet(SUBSET S) /\ Cardinality(SUBSET S) = 2 ^ n
    BY <2>1, FS_SUBSET
  <2>3. Cardinality(SUBSET U) = 2 ^ (n + 1)
    BY <2>1, FS_SUBSET
  <2>4. f \in Bijection(SUBSET S, V)
    <3>1. x \notin S
      OBVIOUS
    <3> HIDE DEF S, x
    <3>2. \A t, u \in SUBSET S : t \cup {x} = u \cup {x} => t = u
      BY <3>1
    <3>3. f \in [SUBSET S -> V] /\ \A v \in V : \E t \in SUBSET S : f[t] = v
      OBVIOUS
    <3>4. \A t, u \in SUBSET S : f[t] = f[u] => t = u
      BY <3>2
    <3> DEFINE D == SUBSET S
    <3>5. f \in [D -> V] /\ (\A t, u \in D : f[t] = f[u] => t = u) /\ \A v \in V : \E t \in D : f[t] = v
      BY <3>3, <3>4
    <3> HIDE DEF f, V, D
    <3>6. f \in Bijection(D, V)
      BY <3>5 DEF Bijection, Injection, IsInjective, Surjection
    <3> QED
      BY <3>6 DEF D
  <2>5. IsFiniteSet(V) /\ Cardinality(V) = Cardinality(SUBSET S)
    <3>1. ExistsBijection(SUBSET S, V)
      BY <2>4 DEF ExistsBijection
    <3> HIDE DEF S, V
    <3> QED
      BY <2>2, <3>1, FS_Bijection
  <2>6. SUBSET U = (SUBSET S) \cup V /\ (SUBSET S) \cap V = {}
    <3>1. U = S \cup {x} /\ x \notin S
      OBVIOUS
    <3> HIDE DEF U, S, x
    <3>2. ASSUME NEW u \in SUBSET U, x \in u PROVE u \in V
      <4>1. u \ {x} \in SUBSET S /\ u = (u \ {x}) \cup {x}
        BY <3>1, <3>2
      <4> QED
        BY <4>1
    <3>3. \A u \in SUBSET U : x \notin u => u \in SUBSET S
      BY <3>1
    <3>4. \A v \in V : v \in SUBSET U /\ x \in v
      BY <3>1
    <3> HIDE DEF V
    <3> QED
      BY <3>1, <3>2, <3>3, <3>4
  <2> HIDE DEF V, S, U
  <2>7. Cardinality(SUBSET U) = Cardinality(SUBSET S) + Cardinality(V)
    <3> DEFINE D == SUBSET S
    <3>1. IsFiniteSet(D) /\ IsFiniteSet(V) /\ D \cap V = {} /\ SUBSET U = D \cup V
      BY <2>2, <2>5, <2>6
    <3> HIDE DEF D
    <3>2. Cardinality(D \cap V) = 0
      BY <3>1, FS_EmptySet
    <3>3. Cardinality(D \cup V) = Cardinality(D) + Cardinality(V) - Cardinality(D \cap V)
      BY <3>1, FS_Union
    <3>4. Cardinality(D) \in Nat /\ Cardinality(V) \in Nat
      BY <3>1, FS_CardinalityType
    <3>5. Cardinality(D \cup V) = Cardinality(D) + Cardinality(V)
      BY <3>2, <3>3, <3>4
    <3> QED
      BY <3>1, <3>5 DEF D
  <2>8. Cardinality(SUBSET S) \in Nat
    BY <2>2, FS_CardinalityType
  <2> QED
    BY <2>2, <2>3, <2>5, <2>7, <2>8
<1>2. 2 ^ 0 = 1
  OBVIOUS
<1> DEFINE T == {n \in Nat : 2 ^ n > n}
<1>3. 0 \in T
  BY <1>2
<1>4. ASSUME NEW n \in Nat, n \in T PROVE n + 1 \in T
  BY <1>1, <1>4
<1> HIDE DEF T
<1>5. Nat \subseteq T
  BY <1>3, <1>4, NatInSets
<1> QED
  BY <1>1, <1>2, <1>5 DEF T

-----------------------------------------------------------------------------
(* Selection.                                                                *)

\* r is what is at the positions of s up to n that are in K; at says where each
\* of its elements comes from.
Embeds(at, r, s, K, n) ==
  /\ at \in [1 .. Len(r) -> 1 .. n]
  /\ \A i \in 1 .. Len(r) : at[i] \in K /\ r[i] = s[at[i]]
  /\ \A i, j \in 1 .. Len(r) : i < j => at[i] < at[j]
  /\ \A k \in 1 .. n : k \in K => \E i \in 1 .. Len(r) : at[i] = k

\* f is the recursion of Selected on s.
Selects(f, s, K) ==
  /\ f[0] = <<>>
  /\ \A n \in 1 .. Len(s) : f[n] = IF n \in K THEN Append(f[n - 1], s[n]) ELSE f[n - 1]
  /\ f[Len(s)] = Selected(s, K)

\* The recursion has a solution, so that Selected is its last value.
LEMMA SelectedUnfolds ==
  ASSUME NEW S, NEW s \in Seq(S), NEW K
  PROVE  \E f : Selects(f, s, K)
<1> DEFINE Next(g, n) == IF n = 0 THEN <<>>
                         ELSE IF n \in K THEN Append(g[n - 1], s[n]) ELSE g[n - 1]
           IsKept(g, m) == g = [n \in 0 .. m |-> Next(g, n)]
           T == {m \in Nat : \E g : IsKept(g, m)}
           F == CHOOSE g : IsKept(g, Len(s))
<1>1. 0 \in T
  <2>1. IsKept([n \in 0 .. 0 |-> <<>>], 0)
    OBVIOUS
  <2> QED BY <2>1
<1>2. \A m \in Nat : m \in T => m + 1 \in T
  <2> TAKE m \in Nat
  <2> HAVE m \in T
  <2>1. PICK g : IsKept(g, m)
    OBVIOUS
  <2> DEFINE h == [n \in 0 .. m + 1 |-> IF n = m + 1 THEN Next(g, n) ELSE g[n]]
  <2>2. \A n \in 0 .. m + 1 : h[n] = Next(h, n)
    <3> TAKE n \in 0 .. m + 1
    <3>1. CASE n = m + 1
      <4>1. h[n] = Next(g, n) /\ n - 1 \in 0 .. m
        BY <3>1
      <4>2. h[n - 1] = g[n - 1]
        BY <4>1
      <4> QED BY <4>1, <4>2
    <3>2. CASE n # m + 1
      <4>1. h[n] = g[n] /\ n \in 0 .. m
        BY <3>2
      <4>2. g[n] = Next(g, n)
        BY <2>1, <4>1
      <4>3. n # 0 => h[n - 1] = g[n - 1]
        BY <4>1
      <4> QED BY <4>1, <4>2, <4>3
    <3> QED BY <3>1, <3>2
  <2>3. h = [n \in 0 .. m + 1 |-> h[n]]
    OBVIOUS
  <2>4. IsKept(h, m + 1)
    <3> HIDE DEF h
    <3> QED BY <2>2, <2>3
  <2> HIDE DEF h, IsKept
  <2> QED BY <2>4
<1>3. \E g : IsKept(g, Len(s))
  <2> HIDE DEF T
  <2>1. Len(s) \in T BY <1>1, <1>2, NatInSets
  <2> QED BY <2>1 DEF T
<1>4. IsKept(F, Len(s))
  <2> HIDE DEF IsKept
  <2> QED BY <1>3
<1>5. Selected(s, K) = F[Len(s)]
  BY DEF Selected
<1> HIDE DEF F
<1>6. F[0] = <<>> /\ \A n \in 1 .. Len(s) : F[n] = IF n \in K THEN Append(F[n - 1], s[n]) ELSE F[n - 1]
  <2>1. Len(s) \in Nat
    OBVIOUS
  <2>2. \A n \in 0 .. Len(s) : F[n] = Next(F, n)
    <3> HIDE DEF Next
    <3> QED BY <1>4, Zenon
  <2> QED BY <2>1, <2>2
<1> QED BY <1>5, <1>6 DEF Selects

\* What is kept are the elements at the positions of K, each once, in order.
LEMMA SelectedIsASubsequence ==
  ASSUME NEW S, NEW s \in Seq(S), NEW K
  PROVE  /\ Selected(s, K) \in Seq(S)
         /\ \E at : Embeds(at, Selected(s, K), s, K, Len(s))
<1>1. PICK F : Selects(F, s, K)
  BY SelectedUnfolds
<1>5. Selected(s, K) = F[Len(s)]
  BY <1>1 DEF Selects
<1>6. F[0] = <<>> /\ \A n \in 1 .. Len(s) : F[n] = IF n \in K THEN Append(F[n - 1], s[n]) ELSE F[n - 1]
  BY <1>1 DEF Selects
<1> DEFINE Good(n) == F[n] \in Seq(S) /\ \E at : Embeds(at, F[n], s, K, n)
           U == {n \in Nat : n <= Len(s) => Good(n)}
<1>7. Good(0)
  <2>1. F[0] = <<>> /\ <<>> \in Seq(S) /\ Len(<<>>) = 0 BY <1>6
  <2>2. Embeds([i \in 1 .. 0 |-> i], F[0], s, K, 0)
    BY <2>1 DEF Embeds
  <2> QED BY <2>1, <2>2
<1>8. ASSUME NEW n \in Nat, n + 1 <= Len(s), Good(n) PROVE Good(n + 1)
  <2>1. n + 1 \in 1 .. Len(s) /\ s[n + 1] \in S /\ (n + 1) - 1 = n
    BY <1>8
  <2>2. PICK at : Embeds(at, F[n], s, K, n)
    BY <1>8
  <2>3. CASE n + 1 \notin K
    <3>1. F[n + 1] = F[n] BY <1>6, <2>1, <2>3
    <3>2. Embeds(at, F[n], s, K, n + 1) BY <2>2, <2>3, <1>8 DEF Embeds
    <3> QED BY <3>1, <3>2, <1>8
  <2>4. CASE n + 1 \in K
    <3> DEFINE r == F[n]  m == Len(F[n])  q == Append(r, s[n + 1])
               up == [i \in 1 .. m + 1 |-> IF i = m + 1 THEN n + 1 ELSE at[i]]
    <3>1. F[n + 1] = q BY <1>6, <2>1, <2>4
    <3>2. q \in Seq(S) /\ Len(q) = m + 1 /\ m \in Nat /\ q[m + 1] = s[n + 1]
          /\ \A i \in 1 .. m : q[i] = r[i]
      BY <1>8, <2>1
    <3>3. Embeds(up, q, s, K, n + 1)
      <4>0. /\ at \in [1 .. m -> 1 .. n]
            /\ \A i \in 1 .. m : at[i] \in K /\ r[i] = s[at[i]]
            /\ \A i, j \in 1 .. m : i < j => at[i] < at[j]
            /\ \A k \in 1 .. n : k \in K => \E i \in 1 .. m : at[i] = k
        BY <2>2 DEF Embeds
      <4> HIDE DEF q, m, r
      <4>1. up \in [1 .. m + 1 -> 1 .. n + 1]
        BY <4>0, <3>2
      <4>2. \A i \in 1 .. m + 1 : up[i] \in K /\ q[i] = s[up[i]]
        BY <4>0, <3>2, <2>4
      <4>3. \A i, j \in 1 .. m + 1 : i < j => up[i] < up[j]
        BY <4>0, <3>2
      <4>4. \A k \in 1 .. n + 1 : k \in K => \E i \in 1 .. m + 1 : up[i] = k
        <5> TAKE k \in 1 .. n + 1
        <5>1. CASE k = n + 1 
          <6>1. up[m + 1] = k BY <5>1, <3>2
          <6> QED BY <6>1, <3>2
        <5>2. CASE k # n + 1
          <6> HAVE k \in K
          <6>1. PICK i \in 1 .. m : at[i] = k BY <4>0, <5>2
          <6>2. up[i] = k /\ i \in 1 .. m + 1 BY <6>1, <3>2
          <6> QED BY <6>2
        <5> QED BY <5>1, <5>2
      <4> QED BY <4>1, <4>2, <4>3, <4>4, <3>2 DEF Embeds
    <3> QED BY <3>1, <3>2, <3>3
  <2> QED BY <2>3, <2>4
<1> HIDE DEF Good
<1>9. 0 \in U BY <1>7
<1>10. \A n \in Nat : n \in U => n + 1 \in U BY <1>8
<1> HIDE DEF U
<1>11. Len(s) \in U BY <1>9, <1>10, NatInSets
<1>12. Good(Len(s)) BY <1>11 DEF U
<1> QED BY <1>5, <1>12 DEF Good

\* A selection is no longer than what it was made from.
LEMMA SelectedNoLonger ==
  ASSUME NEW S, NEW s \in Seq(S), NEW K
  PROVE  Len(Selected(s, K)) <= Len(s)
<1>1. PICK at : Embeds(at, Selected(s, K), s, K, Len(s))
  BY SelectedIsASubsequence
<1> DEFINE m == Len(Selected(s, K))  n == Len(s)
<1>2. m \in Nat /\ n \in Nat
  BY SelectedIsASubsequence
<1>3. at \in [1 .. m -> 1 .. n] /\ \A i, j \in 1 .. m : i < j => at[i] < at[j]
  BY <1>1 DEF Embeds
<1> HIDE DEF m, n
<1>4. \A i, j \in 1 .. m : at[i] = at[j] => i = j
  BY <1>2, <1>3
<1>5. IsFiniteSet(1 .. m) /\ Cardinality(1 .. m) = m /\ IsFiniteSet(1 .. n) /\ Cardinality(1 .. n) = n
  BY <1>2, FS_Interval
<1>6. ~(n < m)
  BY <1>2, <1>3, <1>4, <1>5, FS_PigeonHole
<1> QED
  BY <1>2, <1>6 DEF m, n

\* Filtering what two sequences hold is filtering each.
LEMMA SelectedConcat ==
  ASSUME NEW S, NEW s \in Seq(S), NEW t \in Seq(S), NEW K, NEW J, NEW L,
         \A n \in 1 .. Len(s) : n \in J <=> n \in K,
         \A n \in 1 .. Len(t) : n \in L <=> Len(s) + n \in K
  PROVE  Selected(s \o t, K) = Selected(s, J) \o Selected(t, L)
<1> DEFINE m == Len(s)  k == Len(t)  st == s \o t
<1>1. /\ m \in Nat /\ k \in Nat /\ st \in Seq(S) /\ Len(st) = m + k
      /\ \A n \in 1 .. m : s[n] \in S /\ st[n] = s[n]
      /\ \A n \in 1 .. k : t[n] \in S /\ st[m + n] = t[n]
  <2>1. /\ st \in Seq(S) /\ Len(st) = m + k /\ m \in Nat /\ k \in Nat
        /\ \A n \in 1 .. m + k : st[n] = IF n <= m THEN s[n] ELSE t[n - m]
    BY ConcatProperties
  <2> HIDE DEF st
  <2>2. \A n \in 1 .. m : s[n] \in S /\ st[n] = s[n]
    BY <2>1
  <2>3. \A n \in 1 .. k : t[n] \in S /\ m + n \in 1 .. m + k /\ ~(m + n <= m) /\ (m + n) - m = n
    BY <2>1
  <2>4. \A n \in 1 .. k : st[m + n] = t[n]
    BY <2>1, <2>3
  <2> QED BY <2>1, <2>2, <2>3, <2>4
<1> HIDE DEF st
<1>2. PICK f : Selects(f, st, K)
  BY <1>1, SelectedUnfolds
<1>3. PICK g : Selects(g, s, J)
  BY SelectedUnfolds
<1>4. PICK h : Selects(h, t, L)
  BY SelectedUnfolds
<1> HIDE DEF m, k
<1>5. /\ f[0] = <<>> /\ f[m + k] = Selected(st, K)
      /\ \A n \in 1 .. m + k : f[n] = IF n \in K THEN Append(f[n - 1], st[n]) ELSE f[n - 1]
  BY <1>1, <1>2 DEF Selects
<1>6. /\ g[0] = <<>> /\ g[m] = Selected(s, J)
      /\ \A n \in 1 .. m : g[n] = IF n \in J THEN Append(g[n - 1], s[n]) ELSE g[n - 1]
  BY <1>3 DEF Selects, m
<1>7. /\ h[0] = <<>> /\ h[k] = Selected(t, L)
      /\ \A n \in 1 .. k : h[n] = IF n \in L THEN Append(h[n - 1], t[n]) ELSE h[n - 1]
  BY <1>4 DEF Selects, k
<1> DEFINE Same(n) == f[n] = g[n] /\ g[n] \in Seq(S)
           Joined(n) == h[n] \in Seq(S) /\ f[m + n] = g[m] \o h[n]
           T == {n \in Nat : n <= m => Same(n)}
           U == {n \in Nat : n <= k => Joined(n)}
<1>8. Same(0)
  BY <1>5, <1>6, EmptySeq
<1>9. ASSUME NEW n \in Nat, n + 1 <= m, Same(n) PROVE Same(n + 1)
  <2>1. n + 1 \in 1 .. m /\ n + 1 \in 1 .. m + k /\ (n + 1) - 1 = n /\ f[n] = g[n] /\ g[n] \in Seq(S)
    BY <1>1, <1>9
  <2>2. n + 1 \in J <=> n + 1 \in K
    BY <2>1 DEF m
  <2>3. st[n + 1] = s[n + 1] /\ s[n + 1] \in S
    BY <1>1, <2>1
  <2>4. Append(g[n], s[n + 1]) \in Seq(S)
    BY <2>1, <2>3, AppendProperties
  <2>5. f[n + 1] = IF n + 1 \in K THEN Append(f[n], st[n + 1]) ELSE f[n]
    BY <1>5, <2>1
  <2>6. g[n + 1] = IF n + 1 \in J THEN Append(g[n], s[n + 1]) ELSE g[n]
    BY <1>6, <2>1
  <2> QED BY <2>1, <2>2, <2>3, <2>4, <2>5, <2>6
<1>10. Same(m)
  <2> HIDE DEF Same
  <2>1. 0 \in T /\ \A n \in Nat : n \in T => n + 1 \in T
    BY <1>1, <1>8, <1>9
  <2>2. m \in T
    <3> HIDE DEF T
    <3> QED BY <1>1, <2>1, NatInSets
  <2> QED BY <1>1, <2>2
<1>11. f[m] = g[m] /\ g[m] \in Seq(S)
  BY <1>10
<1>12. Joined(0)
  <2>1. g[m] \o <<>> = g[m] /\ <<>> \in Seq(S)
    BY <1>11, ConcatEmptySeq, EmptySeq
  <2>2. m + 0 = m
    BY <1>1
  <2> QED BY <1>7, <1>11, <2>1, <2>2
<1>13. ASSUME NEW n \in Nat, n + 1 <= k, Joined(n) PROVE Joined(n + 1)
  <2>1. h[n] \in Seq(S) /\ f[m + n] = g[m] \o h[n]
    BY <1>13
  <2>9. n + 1 \in 1 .. k /\ m + (n + 1) \in 1 .. m + k /\ (n + 1) - 1 = n /\ (m + (n + 1)) - 1 = m + n
    BY <1>1, <1>13
  <2>2. n + 1 \in L <=> m + (n + 1) \in K
    BY <2>9 DEF m, k
  <2>3. st[m + (n + 1)] = t[n + 1] /\ t[n + 1] \in S
    BY <1>1, <2>9
  <2>4. f[m + (n + 1)] = IF m + (n + 1) \in K THEN Append(f[m + n], st[m + (n + 1)]) ELSE f[m + n]
    BY <1>5, <2>9
  <2>5. h[n + 1] = IF n + 1 \in L THEN Append(h[n], t[n + 1]) ELSE h[n]
    BY <1>7, <2>9
  <2>6. Append(h[n], t[n + 1]) \in Seq(S)
    BY <2>1, <2>3, AppendProperties
  <2>7. \A a, b \in Seq(S) : \A x \in S : Append(a \o b, x) = a \o Append(b, x)
    <3> TAKE a, b \in Seq(S)
    <3> TAKE x \in S
    <3>1. <<x>> \in Seq(S)
      OBVIOUS
    <3>2. Append(a \o b, x) = (a \o b) \o <<x>> /\ Append(b, x) = b \o <<x>>
      BY ConcatProperties, AppendIsConcat
    <3>3. (a \o b) \o <<x>> = a \o (b \o <<x>>)
      BY <3>1
    <3> QED BY <3>2, <3>3
  <2>8. Append(g[m] \o h[n], t[n + 1]) = g[m] \o Append(h[n], t[n + 1])
    BY <1>11, <2>1, <2>3, <2>7
  <2>10. f[m + (n + 1)] = g[m] \o h[n + 1]
    BY <2>1, <2>2, <2>3, <2>4, <2>5, <2>8
  <2>11. h[n + 1] \in Seq(S)
    BY <2>1, <2>5, <2>6
  <2> QED BY <2>10, <2>11
<1>14. Joined(k)
  <2> HIDE DEF Joined
  <2>1. 0 \in U /\ \A n \in Nat : n \in U => n + 1 \in U
    BY <1>1, <1>12, <1>13
  <2>2. k \in U
    <3> HIDE DEF U
    <3> QED BY <1>1, <2>1, NatInSets
  <2> QED BY <1>1, <2>2
<1>15. f[m + k] = g[m] \o h[k]
  BY <1>14
<1> QED BY <1>5, <1>6, <1>7, <1>15 DEF st

\* A filter that everything passes keeps the sequence, one that nothing passes
\* nothing of it.
LEMMA SelectedAllOrNone ==
  ASSUME NEW S, NEW s \in Seq(S), NEW K
  PROVE  /\ (\A n \in 1 .. Len(s) : n \in K) => Selected(s, K) = s
         /\ (\A n \in 1 .. Len(s) : n \notin K) => Selected(s, K) = <<>>
<1> DEFINE m == Len(s)
<1>1. PICK f : Selects(f, s, K)
  BY SelectedUnfolds
<1>2. m \in Nat /\ f[0] = <<>> /\ f[m] = Selected(s, K)
      /\ \A n \in 1 .. m : f[n] = IF n \in K THEN Append(f[n - 1], s[n]) ELSE f[n - 1]
  BY <1>1 DEF Selects
<1>3. ASSUME \A n \in 1 .. m : n \in K PROVE Selected(s, K) = s
  <2> DEFINE Good(n) == f[n] \in Seq(S) /\ Len(f[n]) = n /\ \A i \in 1 .. n : f[n][i] = s[i]
             T == {n \in Nat : n <= m => Good(n)}
  <2>1. Good(0)
    <3>1. f[0] \in Seq(S) /\ Len(f[0]) = 0
      BY <1>2, EmptySeq
    <3> QED BY <3>1
  <2>2. ASSUME NEW n \in Nat, n + 1 <= m, Good(n) PROVE Good(n + 1)
    <3>1. Good(n) /\ n + 1 \in 1 .. m /\ (n + 1) - 1 = n
      BY <1>2, <2>2
    <3>2. f[n + 1] = Append(f[n], s[n + 1]) /\ s[n + 1] \in S
      <4>1. n + 1 \in K /\ s[n + 1] \in S
        BY <1>3, <3>1, ElementOfSeq
      <4>2. f[n + 1] = IF n + 1 \in K THEN Append(f[(n + 1) - 1], s[n + 1]) ELSE f[(n + 1) - 1]
        <5> HIDE DEF m
        <5> QED BY <1>2, <3>1
      <4> QED BY <3>1, <4>1, <4>2
    <3>3. /\ Append(f[n], s[n + 1]) \in Seq(S) /\ Len(Append(f[n], s[n + 1])) = n + 1
          /\ \A i \in 1 .. n : Append(f[n], s[n + 1])[i] = f[n][i]
          /\ Append(f[n], s[n + 1])[n + 1] = s[n + 1]
      BY <3>1, <3>2, AppendProperties
    <3> QED BY <3>1, <3>2, <3>3
  <2>4. Good(m)
    <3> HIDE DEF Good, m
    <3>1. 0 \in T /\ \A n \in Nat : n \in T => n + 1 \in T
      BY <1>2, <2>1, <2>2
    <3>2. m \in T
      <4> HIDE DEF T
      <4> QED BY <1>2, <3>1, NatInSets
    <3> QED BY <1>2, <3>2
  <2> QED BY <1>2, <2>4, SeqEqual
<1>4. ASSUME \A n \in 1 .. m : n \notin K PROVE Selected(s, K) = <<>>
  <2>1. PICK at : Embeds(at, Selected(s, K), s, K, m)
    BY SelectedIsASubsequence
  <2>2. Selected(s, K) \in Seq(S)
    BY SelectedIsASubsequence
  <2>3. \A i \in 1 .. Len(Selected(s, K)) : FALSE
    BY <1>4, <2>1 DEF Embeds
  <2> HIDE DEF m
  <2>4. \A r \in Seq(S) : (\A i \in 1 .. Len(r) : FALSE) => r = <<>>
    OBVIOUS
  <2> QED BY <2>2, <2>3, <2>4
<1> QED BY <1>3, <1>4

-----------------------------------------------------------------------------
(* FlattenSeq.                                                               *)

\* f is the recursion of FlattenSeq on ss.
Flattens(f, ss) ==
  /\ f[1] = ss[1]
  /\ \A n \in 1 .. Len(ss) : n # 1 => f[n] = f[n - 1] \o ss[n]
  /\ f[Len(ss)] = FlattenSeq(ss)

LEMMA FlattenUnfolds ==
  ASSUME NEW S, NEW ss \in Seq(S), Len(ss) # 0
  PROVE  \E f : Flattens(f, ss)
<1> DEFINE Next(g, n) == IF n = 1 THEN ss[n] ELSE g[n - 1] \o ss[n]
           IsFlat(g, m) == g = [n \in 1 .. m |-> Next(g, n)]
           T == {m \in Nat : \E g : IsFlat(g, m)}
           F == CHOOSE g : IsFlat(g, Len(ss))
<1>1. 0 \in T
  <2>1. IsFlat([n \in 1 .. 0 |-> <<>>], 0)
    OBVIOUS
  <2> QED BY <2>1
<1>2. \A m \in Nat : m \in T => m + 1 \in T
  <2> TAKE m \in Nat
  <2> HAVE m \in T
  <2>1. PICK g : IsFlat(g, m)
    OBVIOUS
  <2> DEFINE h == [n \in 1 .. m + 1 |-> IF n = m + 1 THEN Next(g, n) ELSE g[n]]
  <2>2. \A n \in 1 .. m + 1 : h[n] = Next(h, n)
    <3> TAKE n \in 1 .. m + 1
    <3>1. CASE n = m + 1
      <4>1. h[n] = Next(g, n) /\ (n # 1 => n - 1 \in 1 .. m)
        BY <3>1
      <4>2. n # 1 => h[n - 1] = g[n - 1]
        BY <4>1
      <4> QED BY <4>1, <4>2
    <3>2. CASE n # m + 1
      <4>1. h[n] = g[n] /\ n \in 1 .. m
        BY <3>2
      <4>2. g[n] = Next(g, n)
        BY <2>1, <4>1
      <4>3. n # 1 => h[n - 1] = g[n - 1]
        BY <4>1
      <4> QED BY <4>1, <4>2, <4>3
    <3> QED BY <3>1, <3>2
  <2>3. h = [n \in 1 .. m + 1 |-> h[n]]
    OBVIOUS
  <2>4. IsFlat(h, m + 1)
    <3> HIDE DEF h
    <3> QED BY <2>2, <2>3
  <2> HIDE DEF h, IsFlat
  <2> QED BY <2>4
<1>3. \E g : IsFlat(g, Len(ss))
  <2> HIDE DEF T
  <2>1. Len(ss) \in T BY <1>1, <1>2, NatInSets
  <2> QED BY <2>1 DEF T
<1>4. IsFlat(F, Len(ss))
  <2> HIDE DEF IsFlat
  <2> QED BY <1>3
<1>5. FlattenSeq(ss) = F[Len(ss)]
  BY DEF FlattenSeq
<1> HIDE DEF F
<1>6. F[1] = ss[1] /\ \A n \in 1 .. Len(ss) : n # 1 => F[n] = F[n - 1] \o ss[n]
  <2>1. Len(ss) \in Nat /\ 1 \in 1 .. Len(ss)
    OBVIOUS
  <2>2. \A n \in 1 .. Len(ss) : F[n] = Next(F, n)
    BY <1>4, <2>1
  <2> QED BY <2>1, <2>2
<1> QED
  BY <1>5, <1>6 DEF Flattens

\* r is the first n of ss, end to end; at says where each of its elements is.
Enumerates(at, r, ss, n) ==
  /\ at \in [1 .. Len(r) -> (1 .. n) \X Nat]
  /\ \A p \in 1 .. Len(r) :
       at[p][2] \in 1 .. Len(ss[at[p][1]]) /\ r[p] = ss[at[p][1]][at[p][2]]
  /\ \A p, q \in 1 .. Len(r) :
       p < q => at[p][1] < at[q][1] \/ (at[p][1] = at[q][1] /\ at[p][2] < at[q][2])
  /\ \A k \in 1 .. n : \A i \in 1 .. Len(ss[k]) : \E p \in 1 .. Len(r) : at[p] = <<k, i>>

\* What is laid end to end are the elements of each, each once, in order.
LEMMA FlattenEnumerates ==
  ASSUME NEW S, NEW ss \in Seq(Seq(S))
  PROVE  /\ FlattenSeq(ss) \in Seq(S)
         /\ \E at : Enumerates(at, FlattenSeq(ss), ss, Len(ss))
<1> DEFINE m == Len(ss)
<1>1. m \in Nat /\ \A k \in 1 .. m : ss[k] \in Seq(S) /\ Len(ss[k]) \in Nat
  BY ElementOfSeq, LenProperties
<1>2. CASE m = 0
  <2>1. FlattenSeq(ss) = <<>>
    BY <1>2, EmptySeq DEF FlattenSeq
  <2>2. Enumerates([p \in 1 .. 0 |-> <<0, 0>>], <<>>, ss, 0)
    BY DEF Enumerates
  <2> QED
    BY <1>2, <2>1, <2>2
<1>3. CASE m # 0
  <2>1. PICK f : Flattens(f, ss)
    BY <1>3, FlattenUnfolds
  <2>2. /\ f[1] = ss[1] /\ f[m] = FlattenSeq(ss)
        /\ \A n \in 1 .. m : n # 1 => f[n] = f[n - 1] \o ss[n]
    BY <2>1 DEF Flattens
  <2> HIDE DEF m
  <2> DEFINE Good(n) == f[n] \in Seq(S) /\ \E at : Enumerates(at, f[n], ss, n)
             U == {n \in Nat : n # 0 /\ n <= m => Good(n)}
  <2>3. Good(1)
    <3> DEFINE at == [p \in 1 .. Len(ss[1]) |-> <<1, p>>]
    <3>1. 1 \in 1 .. m /\ f[1] = ss[1] /\ ss[1] \in Seq(S) /\ Len(ss[1]) \in Nat
      BY <1>1, <1>3, <2>2
    <3>2. Enumerates(at, ss[1], ss, 1)
      <4>1. /\ at \in [1 .. Len(ss[1]) -> (1 .. 1) \X Nat]
            /\ \A p \in 1 .. Len(ss[1]) : at[p][1] = 1 /\ at[p][2] = p /\ at[p] = <<1, p>>
        BY <3>1
      <4> HIDE DEF at
      <4>2. \A k \in 1 .. 1 : k = 1
        OBVIOUS
      <4> QED
        BY <3>1, <4>1, <4>2 DEF Enumerates
    <3> QED
      BY <3>1, <3>2
  <2>4. ASSUME NEW n \in Nat, n # 0, n + 1 <= m, Good(n) PROVE Good(n + 1)
    <3> DEFINE r == f[n]  t == ss[n + 1]  q == r \o t
    <3>1. n + 1 \in 1 .. m /\ n + 1 # 1 /\ (n + 1) - 1 = n
      BY <1>1, <2>4
    <3>2. f[n + 1] = q /\ r \in Seq(S) /\ t \in Seq(S)
      BY <1>1, <2>2, <2>4, <3>1
    <3>3. PICK at : Enumerates(at, r, ss, n)
      BY <2>4
    <3> HIDE DEF Good, r, t
    <3>4. /\ q \in Seq(S) /\ Len(q) = Len(r) + Len(t) /\ Len(r) \in Nat /\ Len(t) \in Nat
          /\ \A p \in 1 .. Len(r) + Len(t) : q[p] = IF p <= Len(r) THEN r[p] ELSE t[p - Len(r)]
      BY <3>2, ConcatProperties, LenProperties
    <3> HIDE DEF q
    <3> DEFINE l == Len(r)
               up == [p \in 1 .. l + Len(t) |-> IF p <= l THEN at[p] ELSE <<n + 1, p - l>>]
    <3>5. /\ at \in [1 .. l -> (1 .. n) \X Nat]
          /\ \A p \in 1 .. l : at[p][2] \in 1 .. Len(ss[at[p][1]]) /\ r[p] = ss[at[p][1]][at[p][2]]
          /\ \A p, o \in 1 .. l :
               p < o => at[p][1] < at[o][1] \/ (at[p][1] = at[o][1] /\ at[p][2] < at[o][2])
          /\ \A k \in 1 .. n : \A i \in 1 .. Len(ss[k]) : \E p \in 1 .. l : at[p] = <<k, i>>
      BY <3>3 DEF Enumerates
    <3>6. l \in Nat /\ Len(t) \in Nat /\ Len(q) = l + Len(t)
      BY <3>4
    <3> HIDE DEF l
    <3>7. \A p \in 1 .. l : p \in 1 .. l + Len(t) /\ up[p] = at[p] /\ at[p][1] \in 1 .. n /\ at[p][2] \in Nat
                            /\ q[p] = r[p]
      BY <3>4, <3>5, <3>6 DEF l
    <3>8. \A p \in 1 .. l + Len(t) : p \notin 1 .. l =>
            /\ p - l \in 1 .. Len(t) /\ up[p] = <<n + 1, p - l>> /\ up[p][1] = n + 1 /\ up[p][2] = p - l
            /\ q[p] = t[p - l]
      <4> TAKE p \in 1 .. l + Len(t)
      <4> HAVE p \notin 1 .. l
      <4>1. p - l \in 1 .. Len(t) /\ ~(p <= l)
        BY <3>6
      <4>2. up[p] = <<n + 1, p - l>>
        BY <4>1
      <4>3. q[p] = t[p - l]
        BY <3>4, <4>1 DEF l
      <4> QED
        BY <4>1, <4>2, <4>3
    <3>9. up \in [1 .. l + Len(t) -> (1 .. n + 1) \X Nat]
      <4>1. \A p \in 1 .. l + Len(t) : up[p] \in (1 .. n + 1) \X Nat
        <5> TAKE p \in 1 .. l + Len(t)
        <5>1. CASE p \in 1 .. l
          <6>1. at[p] \in (1 .. n) \X Nat /\ up[p] = at[p]
            BY <3>5, <3>7, <5>1
          <6> QED
            BY <6>1
        <5>2. CASE p \notin 1 .. l
          BY <3>6, <3>8, <5>2
        <5> QED
          BY <5>1, <5>2
      <4> QED
        BY <4>1
    <3> HIDE DEF up
    <3>10. \A p \in 1 .. l + Len(t) : up[p][2] \in 1 .. Len(ss[up[p][1]]) /\ q[p] = ss[up[p][1]][up[p][2]]
      <4> TAKE p \in 1 .. l + Len(t)
      <4>1. CASE p \in 1 .. l
        BY <3>5, <3>7, <4>1
      <4>2. CASE p \notin 1 .. l
        BY <3>8, <4>2 DEF t
      <4> QED
        BY <4>1, <4>2
    <3>11. ASSUME NEW p \in 1 .. l + Len(t), NEW o \in 1 .. l + Len(t), p < o
           PROVE  up[p][1] < up[o][1] \/ (up[p][1] = up[o][1] /\ up[p][2] < up[o][2])
      <4>1. CASE o \in 1 .. l
        <5>1. p \in 1 .. l
          BY <3>6, <3>11, <4>1
        <5> QED
          BY <3>5, <3>7, <3>11, <4>1, <5>1
      <4>2. CASE o \notin 1 .. l /\ p \in 1 .. l
        BY <3>7, <3>8, <4>2
      <4>3. CASE o \notin 1 .. l /\ p \notin 1 .. l
        <5>1. p - l < o - l
          BY <3>6, <3>11
        <5> QED
          BY <3>8, <4>3, <5>1
      <4> QED
        BY <4>1, <4>2, <4>3
    <3>12. ASSUME NEW k \in 1 .. n + 1, NEW i \in 1 .. Len(ss[k])
           PROVE  \E p \in 1 .. l + Len(t) : up[p] = <<k, i>>
      <4>1. CASE k \in 1 .. n
        <5>1. PICK p \in 1 .. l : at[p] = <<k, i>>
          BY <3>5, <4>1
        <5>2. p \in 1 .. l + Len(t) /\ up[p] = at[p]
          BY <3>7
        <5> QED
          BY <5>1, <5>2
      <4>2. CASE k = n + 1
        <5>1. i \in 1 .. Len(t)
          BY <4>2 DEF t
        <5>2. l + i \in 1 .. l + Len(t) /\ l + i \notin 1 .. l /\ (l + i) - l = i
          BY <3>6, <5>1
        <5>3. up[l + i] = <<n + 1, (l + i) - l>>
          BY <3>8, <5>2
        <5> QED
          BY <4>2, <5>2, <5>3
      <4> QED
        BY <4>1, <4>2
    <3>13. Enumerates(up, q, ss, n + 1)
      BY <3>6, <3>9, <3>10, <3>11, <3>12 DEF Enumerates
    <3> QED
      BY <3>2, <3>4, <3>13 DEF Good
  <2>5. Good(m)
    <3> HIDE DEF Good
    <3>1. 0 \in U /\ \A n \in Nat : n \in U => n + 1 \in U
      <4>1. 0 \in U
        OBVIOUS
      <4>2. ASSUME NEW n \in Nat, n \in U PROVE n + 1 \in U
        <5>1. CASE n = 0
          BY <2>3, <5>1
        <5>2. CASE n # 0
          BY <1>1, <2>4, <4>2, <5>2
        <5> QED
          BY <5>1, <5>2
      <4> QED
        BY <4>1, <4>2
    <3>2. m \in U
      <4> HIDE DEF U
      <4> QED
        BY <1>1, <3>1, NatInSets
    <3> QED
      BY <1>1, <1>3, <3>2
  <2> QED
    BY <2>2, <2>5 DEF m
<1> QED
  BY <1>2, <1>3

\* The last of the first m positions, and what is left without it.
LEMMA LastOfFirst ==
  ASSUME NEW m \in Nat, m > 0
  PROVE  Max(1 .. m) = m /\ (1 .. m) \ {m} = 1 .. m - 1
<1>1. m \in 1 .. m /\ \A y \in 1 .. m : y \in Int /\ m >= y
  OBVIOUS
<1> DEFINE M == 1 .. m
<1>2. m \in M /\ \A y \in M : y \in Int /\ m >= y
  BY <1>1
<1> HIDE DEF M
<1>3. Max(M) \in M /\ \A y \in M : Max(M) >= y
  <2>1. \E x \in M : \A y \in M : x >= y
    BY <1>2
  <2> QED
    BY <2>1, Zenon DEF Max
<1>4. Max(M) \in Int /\ m >= Max(M) /\ Max(M) >= m
  BY <1>2, <1>3
<1>5. Max(M) = m
  BY <1>4
<1>6. (1 .. m) \ {m} = 1 .. m - 1
  OBVIOUS
<1> QED
  BY <1>5, <1>6 DEF M

\* Some position of a set of them is the last.
LEMMA MaxIsLast ==
  ASSUME NEW n \in Nat, NEW t \in SUBSET (1 .. n), t # {}
  PROVE  Max(t) \in t
<1>1. t \in SUBSET (0 .. n) /\ t # {}
  OBVIOUS
<1>2. PICK i \in t : \A j \in t : j <= i
  BY <1>1, FirstAndLast
<1>3. \E x \in t : \A y \in t : x >= y
  BY <1>1, <1>2
<1> QED
  BY <1>3, Zenon DEF Max

-----------------------------------------------------------------------------
(* Sums.                                                                     *)

\* A finite set without one of its elements.
LEMMA OneLess ==
  ASSUME NEW t, IsFiniteSet(t), NEW n \in Nat, Cardinality(t) = n + 1
  PROVE  t # {} /\ \A x \in t : IsFiniteSet(t \ {x}) /\ Cardinality(t \ {x}) = n
<1>1. t # {}
  BY FS_EmptySet
<1>2. ASSUME NEW x \in t PROVE IsFiniteSet(t \ {x}) /\ Cardinality(t \ {x}) = n
  <2>1. IsFiniteSet(t \ {x}) /\ Cardinality(t \ {x}) = Cardinality(t) - 1
    BY <1>2, FS_RemoveElement
  <2> QED
    BY <2>1
<1> QED
  BY <1>1, <1>2

\* Induction on the subsets of a finite set.
LEMMA SubsetsInSets ==
  ASSUME NEW S, IsFiniteSet(S), NEW T, {} \in T,
         \A t \in SUBSET S : \A x \in S \ t : t \in T => t \cup {x} \in T
  PROVE  SUBSET S \subseteq T
<1> DEFINE N == {n \in Nat : \A t \in SUBSET S : Cardinality(t) = n => t \in T}
<1>1. \A t \in SUBSET S : IsFiniteSet(t) /\ Cardinality(t) \in Nat
  BY FS_Subset, FS_CardinalityType
<1>2. 0 \in N
  <2>1. \A t \in SUBSET S : Cardinality(t) = 0 => t = {}
    BY <1>1, FS_EmptySet
  <2> QED
    BY <2>1
<1>3. ASSUME NEW n \in Nat, n \in N PROVE n + 1 \in N
  <2> SUFFICES ASSUME NEW t \in SUBSET S, Cardinality(t) = n + 1 PROVE t \in T
    OBVIOUS
  <2>1. IsFiniteSet(t) /\ t # {} /\ \A x \in t : Cardinality(t \ {x}) = n
    BY <1>1, OneLess
  <2>2. PICK x \in t : TRUE
    BY <2>1
  <2>3. Cardinality(t \ {x}) = n
    BY <2>1
  <2> DEFINE u == t \ {x}
  <2>4. u \in SUBSET S /\ u \in T /\ x \in S \ u /\ u \cup {x} = t
    BY <1>3, <2>2, <2>3
  <2> HIDE DEF u
  <2> QED
    BY <2>4
<1> HIDE DEF N
<1>4. Nat \subseteq N
  BY <1>2, <1>3, NatInSets
<1> QED
  BY <1>1, <1>4 DEF N

\* g is the sum of F over each subset of S.
IsSum(g, F, S) ==
  /\ \A t \in SUBSET S : g[t] \in Int
  /\ g[{}] = 0
  /\ \A t \in SUBSET S : \A x \in t : g[t] = g[t \ {x}] + F[x]

\* A fold of + is a sum, whichever element it takes first.
LEMMA FoldIsSum ==
  ASSUME NEW S, IsFiniteSet(S), NEW F, \A x \in S : F[x] \in Int,
         NEW C, \A t \in SUBSET S : t # {} => C[t] \in t,
         NEW g,
         \A t \in SUBSET S : \/ g[t] = IF t = {} THEN 0 ELSE g[t \ {C[t]}] + F[C[t]]
                             \/ g[t] = IF t = {} THEN 0 ELSE F[C[t]] + g[t \ {C[t]}]
  PROVE  IsSum(g, F, S)
<1> DEFINE Good(t) == g[t] \in Int /\ \A x \in t : g[t \ {x}] \in Int /\ g[t] = g[t \ {x}] + F[x]
           N == {n \in Nat : \A t \in SUBSET S : Cardinality(t) = n => Good(t)}
<1>1. \A t \in SUBSET S : IsFiniteSet(t) /\ Cardinality(t) \in Nat
  BY FS_Subset, FS_CardinalityType
<1>2. g[{}] = 0
  OBVIOUS
<1>3. 0 \in N
  <2>1. \A t \in SUBSET S : Cardinality(t) = 0 => t = {}
    BY <1>1, FS_EmptySet
  <2>2. Good({})
    BY <1>2
  <2> HIDE DEF Good
  <2> QED
    BY <2>1, <2>2
<1>4. ASSUME NEW n \in Nat, n \in N PROVE n + 1 \in N
  <2> SUFFICES ASSUME NEW t \in SUBSET S, Cardinality(t) = n + 1 PROVE Good(t)
    OBVIOUS
  <2>1. IsFiniteSet(t) /\ t # {} /\ \A x \in t : Cardinality(t \ {x}) = n
    BY <1>1, OneLess
  <2>2. \A x \in t : Good(t \ {x})
    <3> HIDE DEF Good
    <3>1. \A x \in t : t \ {x} \in SUBSET S
      OBVIOUS
    <3> QED
      BY <1>4, <2>1, <3>1
  <2>3. t # {}
    BY <2>1
  <2>4. C[t] \in t /\ F[C[t]] \in Int /\ g[t \ {C[t]}] \in Int /\ g[t] = g[t \ {C[t]}] + F[C[t]]
    <3>1. C[t] \in t
      BY <2>3
    <3>2. F[C[t]] \in Int /\ g[t \ {C[t]}] \in Int
      BY <2>2, <3>1
    <3>3. g[t] = g[t \ {C[t]}] + F[C[t]] \/ g[t] = F[C[t]] + g[t \ {C[t]}]
      BY <2>3
    <3> QED
      BY <3>1, <3>2, <3>3
  <2>5. ASSUME NEW x \in t, x # C[t] PROVE g[t] = g[t \ {x}] + F[x]
    <3> DEFINE c == C[t]  tc == t \ {c}  tx == t \ {x}  u == tc \ {x}
    <3>1. c \in tx /\ x \in tc /\ tx \ {c} = u
      BY <2>4, <2>5
    <3>2. Good(tc) /\ Good(tx)
      BY <2>2, <2>4
    <3>3. g[tc] = g[u] + F[x] /\ g[u] \in Int
      BY <3>1, <3>2
    <3>4. g[tx] = g[u] + F[c]
      <4> HIDE DEF c, u, tx
      <4> QED
        BY <3>1, <3>2
    <3>5. g[t] = g[tc] + F[c] /\ F[c] \in Int /\ F[x] \in Int
      BY <2>4
    <3> HIDE DEF c, tc, tx, u
    <3>6. g[t] = g[tx] + F[x]
      BY <3>3, <3>4, <3>5
    <3> QED
      BY <3>6 DEF tx
  <2>6. \A x \in t : g[t \ {x}] \in Int
    BY <2>2
  <2>7. g[t] \in Int
    BY <2>4
  <2> QED
    BY <2>4, <2>5, <2>6, <2>7
<1>5. \A t \in SUBSET S : Good(t)
  <2> HIDE DEF N, Good
  <2>1. Nat \subseteq N
    BY <1>3, <1>4, NatInSets
  <2> QED
    BY <1>1, <2>1 DEF N
<1> QED
  BY <1>2, <1>5 DEF IsSum

\* C chooses an element of every part of S that has one.
ChoosesFrom(C, S) ==
  C \in [(SUBSET S) \ {{}} -> S] /\ \A t \in (SUBSET S) \ {{}} : C[t] \in t

\* What a fold over the subsets of a finite set S needs: C[t] is the element of
\* t taken first, F[x] what is taken for x, and G what is done with it.
FoldsOver(S, C, F, B, G, D) ==
  IsFiniteSet(S) /\ ChoosesFrom(C, S) /\ F \in [S -> B] /\ G \in [D \X B -> D]

\* g is the fold.
FoldsTo(g, S, C, F, G, base) ==
  \A t \in SUBSET S : g[t] = IF t = {} THEN base ELSE G[<<g[t \ {C[t]}], F[C[t]]>>]

\* Then the fold exists, and keeps to the values of G.
LEMMA FoldHasValues ==
  ASSUME NEW S, NEW C, NEW F, NEW B, NEW G, NEW D, FoldsOver(S, C, F, B, G, D), NEW base \in D
  PROVE  \E g \in [SUBSET S -> D] : FoldsTo(g, S, C, F, G, base)
<1>0. /\ IsFiniteSet(S) /\ F \in [S -> B] /\ G \in [D \X B -> D]
      /\ C \in [(SUBSET S) \ {{}} -> S] /\ \A t \in (SUBSET S) \ {{}} : C[t] \in t
  BY DEF FoldsOver, ChoosesFrom
<1> DEFINE Next(g, t) == IF t = {} THEN base ELSE G[<<g[t \ {C[t]}], F[C[t]]>>]
           Upto(g, n) == \A t \in SUBSET S : Cardinality(t) <= n => g[t] = Next(g, t)
           N == {n \in Nat : \E g \in [SUBSET S -> D] : Upto(g, n)}
<1>1. \A t \in SUBSET S : IsFiniteSet(t) /\ Cardinality(t) \in Nat
  BY <1>0, FS_Subset, FS_CardinalityType
<1>2. 0 \in N
  <2> DEFINE z == [t \in SUBSET S |-> base]
  <2>1. \A t \in SUBSET S : Cardinality(t) <= 0 => t = {}
    BY <1>1, FS_EmptySet
  <2>2. z \in [SUBSET S -> D] /\ Upto(z, 0)
    BY <2>1
  <2> HIDE DEF Upto, z
  <2> QED
    BY <2>2
<1>3. ASSUME NEW n \in Nat, n \in N PROVE n + 1 \in N
  <2>1. PICK g \in [SUBSET S -> D] : Upto(g, n)
    BY <1>3
  <2> DEFINE h == [t \in SUBSET S |-> Next(g, t)]
  <2>2. ASSUME NEW t \in SUBSET S PROVE Next(g, t) \in D
    <3>1. CASE t = {}
      BY <3>1
    <3>2. CASE t # {}
      <4>1. C[t] \in S /\ t \ {C[t]} \in SUBSET S
        BY <1>0, <3>2
      <4>2. F[C[t]] \in B /\ g[t \ {C[t]}] \in D
        BY <1>0, <4>1
      <4> QED
        BY <1>0, <3>2, <4>2
    <3> QED
      BY <3>1, <3>2
  <2>3. h \in [SUBSET S -> D] /\ \A t \in SUBSET S : h[t] = Next(g, t)
    <3> HIDE DEF Next
    <3> QED
      BY <2>2
  <2>4. \A t \in SUBSET S : Cardinality(t) <= n => h[t] = g[t]
    <3> HIDE DEF Next, h
    <3> QED
      BY <2>1, <2>3
  <2>5. ASSUME NEW t \in SUBSET S, Cardinality(t) <= n + 1 PROVE h[t] = Next(h, t)
    <3>1. CASE t = {}
      BY <3>1
    <3>2. CASE t # {}
      <4>1. C[t] \in t
        BY <1>0, <3>2
      <4>2. t \ {C[t]} \in SUBSET S /\ Cardinality(t \ {C[t]}) <= n
        BY <1>1, <2>5, <4>1, FS_RemoveElement
      <4>3. h[t \ {C[t]}] = g[t \ {C[t]}]
        BY <2>4, <4>2
      <4>4. h[t] = G[<<g[t \ {C[t]}], F[C[t]]>>]
        BY <3>2
      <4> HIDE DEF h
      <4> QED
        BY <3>2, <4>3, <4>4
    <3> QED
      BY <3>1, <3>2
  <2>6. Upto(h, n + 1)
    <3> HIDE DEF h, Next
    <3> QED
      BY <2>5
  <2> HIDE DEF Upto, h
  <2> QED
    BY <2>3, <2>6
<1>4. PICK g \in [SUBSET S -> D] : Upto(g, Cardinality(S))
  <2> HIDE DEF N, Upto
  <2>1. Nat \subseteq N
    BY <1>2, <1>3, NatInSets
  <2> QED
    BY <1>0, <1>1, <2>1, FS_CardinalityType DEF N
<1>5. \A t \in SUBSET S : g[t] = Next(g, t)
  <2> HIDE DEF Next
  <2> QED
    BY <1>0, <1>4, FS_Subset
<1> QED
  BY <1>4, <1>5 DEF FoldsTo

\* Max chooses from the positions of a sequence.
LEMMA MaxChooses ==
  ASSUME NEW n \in Nat
  PROVE  LET C == [t \in (SUBSET (1 .. n)) \ {{}} |-> Max(t)]
         IN  ChoosesFrom(C, 1 .. n) /\ \A t \in (SUBSET (1 .. n)) \ {{}} : C[t] = Max(t)
<1> DEFINE S == 1 .. n  C == [t \in (SUBSET S) \ {{}} |-> Max(t)]
<1>1. \A t \in (SUBSET S) \ {{}} : Max(t) \in t
  BY MaxIsLast
<1> HIDE DEF S
<1>2. \A t \in (SUBSET S) \ {{}} : C[t] = Max(t) /\ C[t] \in t
  BY <1>1
<1>3. C \in [(SUBSET S) \ {{}} -> S]
  BY <1>1
<1> HIDE DEF C
<1>4. ChoosesFrom(C, S)
  BY <1>2, <1>3 DEF ChoosesFrom
<1> QED
  BY <1>2, <1>4 DEF C, S

\* g folds F over each subset of S, C[t] being the element of t it takes first.
Folds(g, F, C, S) ==
  /\ g = [t \in SUBSET S |-> g[t]]
  /\ \A t \in SUBSET S : g[t] = IF t = {} THEN 0 ELSE F[C[t]] + g[t \ {C[t]}]

\* There is such a fold.
LEMMA FoldExists ==
  ASSUME NEW S, IsFiniteSet(S), NEW F \in [S -> Int],
         NEW C \in [(SUBSET S) \ {{}} -> S], \A t \in (SUBSET S) \ {{}} : C[t] \in t
  PROVE  \E g : Folds(g, F, C, S)
<1> DEFINE G == [d \in Int \X Int |-> d[2] + d[1]]
<1>1. G \in [Int \X Int -> Int] /\ \A a, b \in Int : G[<<a, b>>] = b + a
  BY SMT
<1> HIDE DEF G
<1>2. PICK g \in [SUBSET S -> Int] : FoldsTo(g, S, C, F, G, 0)
  <2>1. FoldsOver(S, C, F, Int, G, Int) /\ 0 \in Int
    BY <1>1 DEF FoldsOver, ChoosesFrom
  <2> QED
    BY <2>1, FoldHasValues
<1>3. ASSUME NEW t \in SUBSET S, t # {} PROVE g[t] = F[C[t]] + g[t \ {C[t]}]
  <2>1. C[t] \in S /\ t \ {C[t]} \in SUBSET S
    BY <1>3
  <2>2. F[C[t]] \in Int /\ g[t \ {C[t]}] \in Int
    BY <2>1
  <2> QED
    BY <1>1, <1>2, <1>3, <2>2 DEF FoldsTo
<1>4. \A t \in SUBSET S : t = {} => g[t] = 0
  BY <1>2 DEF FoldsTo
<1>5. \A t \in SUBSET S : g[t] = IF t = {} THEN 0 ELSE F[C[t]] + g[t \ {C[t]}]
  BY <1>3, <1>4
<1>6. g = [t \in SUBSET S |-> g[t]]
  BY <1>2
<1> QED
  BY <1>5, <1>6 DEF Folds

\* Sums of the same values, whatever they are the values of.
LEMMA SumsMatch ==
  ASSUME NEW S, IsFiniteSet(S), NEW F, NEW g, IsSum(g, F, S),
         NEW R, NEW G, NEW h, IsSum(h, G, R),
         NEW f, \A x \in S : f[x] \in R /\ G[f[x]] = F[x], \A x, y \in S : f[x] = f[y] => x = y
  PROVE  g[S] = h[{f[x] : x \in S}]
<1> DEFINE T == {t \in SUBSET S : g[t] = h[{f[x] : x \in t}]}
<1>1. {} \in T
  <2>1. {f[x] : x \in {}} = {}
    OBVIOUS
  <2> QED
    BY <2>1 DEF IsSum
<1>2. ASSUME NEW t \in SUBSET S, NEW x \in S \ t, t \in T PROVE t \cup {x} \in T
  <2> DEFINE tx == t \cup {x}  u == {f[y] : y \in t}  ux == {f[y] : y \in tx}
  <2>1. tx \in SUBSET S /\ x \in tx /\ tx \ {x} = t
    OBVIOUS
  <2>2. ux \in SUBSET R /\ f[x] \in ux /\ ux \ {f[x]} = u
    <3>1. \A y \in t : f[y] # f[x]
      OBVIOUS
    <3> QED
      BY <2>1, <3>1
  <2>3. g[t] = h[u]
    BY <1>2
  <2>4. G[f[x]] = F[x]
    OBVIOUS
  <2> HIDE DEF tx, u, ux
  <2>5. g[tx] = g[t] + F[x]
    BY <2>1 DEF IsSum
  <2>6. h[ux] = h[u] + G[f[x]]
    BY <2>2 DEF IsSum
  <2>7. g[tx] = h[ux]
    BY <2>3, <2>4, <2>5, <2>6
  <2> QED
    BY <2>1, <2>7 DEF tx, ux
<1> HIDE DEF T
<1>3. SUBSET S \subseteq T
  BY <1>1, <1>2, SubsetsInSets
<1> QED
  BY <1>3 DEF T

\* f takes the elements of S to those of R, one to one, and keeps their values.
Carries(f, F, S, G, R) ==
  /\ \A x \in S : f[x] \in R /\ G[f[x]] = F[x]
  /\ \A x, y \in S : f[x] = f[y] => x = y
  /\ \A u \in R : \E x \in S : f[x] = u

\* The same when f reaches all of R.
LEMMA SumsAgree ==
  ASSUME NEW S, IsFiniteSet(S), NEW F, NEW g, IsSum(g, F, S),
         NEW R, NEW G, NEW h, IsSum(h, G, R), NEW f, Carries(f, F, S, G, R)
  PROVE  g[S] = h[R]
<1>1. {f[x] : x \in S} = R
  BY DEF Carries
<1>2. g[S] = h[{f[x] : x \in S}]
  BY SumsMatch DEF Carries
<1> QED
  BY <1>1, <1>2

\* Sums of the same values over the same set.
LEMMA SumIsOne ==
  ASSUME NEW S, IsFiniteSet(S), NEW F, NEW g, IsSum(g, F, S), NEW G, NEW h, IsSum(h, G, S),
         \A x \in S : F[x] = G[x]
  PROVE  g[S] = h[S]
<1> DEFINE f == [x \in S |-> x]
<1>1. Carries(f, F, S, G, S)
  BY DEF Carries
<1> HIDE DEF f
<1> QED
  BY <1>1, SumsAgree

\* The sum of a part is the sum over the part.
LEMMA SumOfPart ==
  ASSUME NEW S, NEW F, NEW g, IsSum(g, F, S), NEW t \in SUBSET S
  PROVE  IsSum(g, F, t)
BY DEF IsSum

\* The sum of two parts is the sum of their sums.
LEMMA SumSplits ==
  ASSUME NEW S, IsFiniteSet(S), NEW F, \A x \in S : F[x] \in Int, NEW g, IsSum(g, F, S), NEW a \in SUBSET S
  PROVE  g[S] = g[a] + g[S \ a]
<1> DEFINE T == {t \in SUBSET S : t \cap a = {} => g[t \cup a] = g[a] + g[t]}
<1>1. {} \in T
  <2>1. {} \cup a = a
    OBVIOUS
  <2> QED
    BY <2>1 DEF IsSum
<1>2. ASSUME NEW t \in SUBSET S, NEW x \in S \ t, t \in T PROVE t \cup {x} \in T
  <2> SUFFICES ASSUME (t \cup {x}) \cap a = {} PROVE g[(t \cup {x}) \cup a] = g[a] + g[t \cup {x}]
    OBVIOUS
  <2>1. g[t \cup a] = g[a] + g[t] /\ x \notin a
    BY <1>2
  <2> DEFINE tx == t \cup {x}  ta == t \cup a  txa == tx \cup a
  <2>2. /\ tx \in SUBSET S /\ txa \in SUBSET S /\ x \in tx /\ x \in txa /\ tx \ {x} = t /\ txa \ {x} = ta
        /\ g[ta] = g[a] + g[t]
    BY <2>1
  <2> HIDE DEF tx, ta, txa
  <2>3. g[tx] = g[t] + F[x] /\ g[txa] = g[ta] + F[x]
    BY <2>2 DEF IsSum
  <2>4. g[a] \in Int /\ g[t] \in Int /\ F[x] \in Int
    BY DEF IsSum
  <2>5. g[txa] = g[a] + g[tx]
    BY <2>2, <2>3, <2>4
  <2> QED
    BY <2>5 DEF tx, txa
<1> HIDE DEF T
<1>3. SUBSET S \subseteq T
  BY <1>1, <1>2, SubsetsInSets
<1>4. S \ a \in T /\ (S \ a) \cap a = {} /\ (S \ a) \cup a = S
  BY <1>3
<1> QED
  BY <1>4 DEF T
=============================================================================
