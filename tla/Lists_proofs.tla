----------------------------- MODULE Lists_proofs -----------------------------
(***************************************************************************)
(* What the selections of Lists return, for lists of any length.           *)
(*                                                                         *)
(* Such facts need induction.  The library's induction theorems take an    *)
(* operator as a parameter; here induction is over a set of naturals, and  *)
(* the set of those of which a fact holds takes the place of the operator. *)
(***************************************************************************)
EXTENDS Lists, Integers, FiniteSets, FiniteSetTheorems, SequenceTheorems, TLAPS

-----------------------------------------------------------------------------
(* Induction and recursion.                                                *)

(* A set with 0 and every successor of its members holds all naturals: if  *)
(* it lacked n, then the successors of its members up to n would be one    *)
(* fewer than these members.                                               *)
LEMMA SetInduction ==
  ASSUME NEW S \in SUBSET Nat, 0 \in S, \A n \in S : n + 1 \in S
  PROVE  S = Nat
<1> SUFFICES ASSUME NEW n \in Nat, n \notin S PROVE FALSE
  OBVIOUS
<1> DEFINE T == S \cap (0..n)
           next == [x \in T |-> x + 1]
<1>1. IsFiniteSet(T) /\ T \subseteq Nat
  <2>1. IsFiniteSet(0..n)
    BY FS_Interval
  <2>2. T \in SUBSET (0..n)
    OBVIOUS
  <2>3. QED
    BY <2>1, <2>2, FS_Subset
<1>2. 0 \in T /\ \A x \in T : x + 1 \in T \ {0}
  OBVIOUS
<1> HIDE DEF T
<1>3. /\ IsFiniteSet(T \ {0}) /\ Cardinality(T \ {0}) = Cardinality(T) - 1
      /\ Cardinality(T) \in Nat
  BY <1>1, <1>2, FS_RemoveElement, FS_CardinalityType
<1>4. next \in [T -> T \ {0}] /\ \A x, y \in T : next[x] = next[y] => x = y
  BY <1>1, <1>2
<1> HIDE DEF next
<1>5. \E x, y \in T : x # y /\ next[x] = next[y]
  <2>1. Cardinality(T \ {0}) < Cardinality(T)
    BY <1>3
  <2>2. QED
    BY <1>1, <1>3, <1>4, <2>1, FS_PigeonHole
<1>6. QED
  BY <1>4, <1>5


(* f starts with a and goes on to n by steps. *)
Follows(f, a, n, step) ==
  f[0] = a /\ \A i \in 1..n : f[i] = step[<<i, f[i - 1]>>]

LEMMA FiniteRecursion ==
  ASSUME NEW V, NEW a \in V, NEW n \in Nat, NEW step \in [(1..n) \X V -> V]
  PROVE  \E f \in [0..n -> V] : Follows(f, a, n, step)
<1> DEFINE Done(m) == \E f \in [0..m -> V] : Follows(f, a, m, step)
           S == {m \in Nat : m <= n => Done(m)}
<1>1. 0 \in S
  <2> DEFINE f == [i \in 0..0 |-> a]
  <2>1. f \in [0..0 -> V] /\ Follows(f, a, 0, step)
    BY DEF Follows
  <2>2. QED
    BY <2>1
<1>2. ASSUME NEW m \in S, m + 1 <= n PROVE Done(m + 1)
  <2>1. PICK f \in [0..m -> V] : f[0] = a /\ \A i \in 1..m : f[i] = step[<<i, f[i - 1]>>]
    BY <1>2 DEF Follows
  <2> DEFINE v == step[<<m + 1, f[m]>>]
             g == [i \in 0..m + 1 |-> IF i = m + 1 THEN v ELSE f[i]]
  <2>2. v \in V
    BY <1>2
  <2> HIDE DEF v
  <2>3. g \in [0..m + 1 -> V] /\ g[0] = a
    BY <2>1, <2>2
  <2>4. ASSUME NEW i \in 1..m + 1 PROVE g[i] = step[<<i, g[i - 1]>>]
    <3>1. CASE i = m + 1
      <4>1. g[i] = v /\ g[i - 1] = f[m]
        BY <3>1
      <4>2. QED
        BY <3>1, <4>1 DEF v
    <3>2. CASE i # m + 1
      <4>1. i \in 1..m /\ g[i] = f[i] /\ g[i - 1] = f[i - 1]
        BY <3>2
      <4>2. QED
        BY <2>1, <4>1
    <3>3. QED
      BY <3>1, <3>2
  <2>5. QED
    BY <2>3, <2>4 DEF Follows
<1>3. S = Nat
  <2> HIDE DEF Done
  <2>1. \A m \in S : m + 1 \in S
    BY <1>2
  <2> HIDE DEF S
  <2>2. S \in SUBSET Nat
    BY DEF S
  <2>3. QED
    BY <1>1, <2>1, <2>2, SetInduction
<1>4. QED
  BY <1>3

LEMMA LeastNatural ==
  ASSUME NEW S \in SUBSET Nat, S # {}
  PROVE  \E m \in S : \A k \in S : m <= k
<1> SUFFICES ASSUME ~ \E m \in S : \A k \in S : m <= k PROVE FALSE
  OBVIOUS
<1> DEFINE T == {n \in Nat : \A k \in S : n < k}
<1>1. 0 \in T
  OBVIOUS
<1>2. ASSUME NEW n \in T PROVE n + 1 \in T
  OBVIOUS
<1>3. T = Nat
  <2> HIDE DEF T
  <2>1. T \in SUBSET Nat
    BY DEF T
  <2>2. QED
    BY <1>1, <1>2, <2>1, SetInduction
<1>4. PICK k \in S : TRUE
  OBVIOUS
<1>5. QED
  <2>1. k \in T
    BY <1>3
  <2>2. QED
    BY <1>4, <2>1

(* A list of numbers has a greatest one. *)
LEMMA Greatest ==
  ASSUME NEW s \in Seq(Int), s # <<>>
  PROVE  \E i \in DOMAIN s : \A j \in DOMAIN s : s[j] <= s[i]
<1> DEFINE Best(n) == \E i \in 1..n : \A j \in 1..n : s[j] <= s[i]
           T == {n \in Nat : n + 1 <= Len(s) => Best(n + 1)}
<1>1. /\ Len(s) \in Nat /\ Len(s) >= 1 /\ DOMAIN s = 1..Len(s)
      /\ \A i \in 1..Len(s) : s[i] \in Int
  OBVIOUS
<1>2. 0 \in T
  <2>1. s[1] <= s[1]
    BY <1>1
  <2>2. QED
    BY <2>1
<1>3. ASSUME NEW n \in T PROVE n + 1 \in T
  <2> DEFINE m == n + 1
  <2>1. SUFFICES ASSUME m + 1 <= Len(s) PROVE Best(m + 1)
    OBVIOUS
  <2>2. n \in Nat /\ m \in Nat /\ m + 1 \in 1..Len(s) /\ m + 1 \in 1..m + 1
    BY <1>1, <2>1
  <2>3. PICK i \in 1..m : \A j \in 1..m : s[j] <= s[i]
    BY <1>1, <2>1, <2>2
  <2> HIDE DEF m
  <2>4. /\ i \in 1..m + 1 /\ s[i] \in Int /\ s[m + 1] \in Int
        /\ \A j \in 1..m : s[j] \in Int
        /\ \A j \in 1..m + 1 : j \in 1..m \/ j = m + 1
    BY <1>1, <2>2
  <2>5. CASE s[m + 1] <= s[i]
    BY <2>3, <2>4, <2>5
  <2>6. CASE ~(s[m + 1] <= s[i])
    <3>1. \A j \in 1..m + 1 : s[j] <= s[m + 1]
      BY <2>3, <2>4, <2>6
    <3>2. QED
      BY <2>2, <3>1
  <2>7. QED
    BY <2>5, <2>6
<1>4. Best(Len(s))
  <2>1. T = Nat
    <3> HIDE DEF T
    <3>1. T \in SUBSET Nat
      BY DEF T
    <3>2. QED
      BY <1>2, <1>3, <3>1, SetInduction
  <2> HIDE DEF Best
  <2>2. Len(s) - 1 \in Nat /\ (Len(s) - 1) + 1 = Len(s) /\ Len(s) <= Len(s)
    BY <1>1
  <2>3. Len(s) - 1 \in T
    BY <2>1, <2>2
  <2>4. QED
    BY <2>2, <2>3
<1>5. QED
  BY <1>1, <1>4

(* A function F that agrees with step where its values are in V follows it.*)
LEMMA RecursionTypes ==
  ASSUME NEW V, NEW a \in V, NEW n \in Nat, NEW step \in [(1..n) \X V -> V],
         NEW F, F[0] = a, \A i \in 1..n : F[i - 1] \in V => F[i] = step[<<i, F[i - 1]>>]
  PROVE  Follows(F, a, n, step) /\ \A i \in 0..n : F[i] \in V
<1> DEFINE T == {i \in Nat : i <= n => F[i] \in V}
<1>1. 0 \in T
  OBVIOUS
<1>2. ASSUME NEW i \in T PROVE i + 1 \in T
  <2>1. SUFFICES ASSUME i + 1 <= n PROVE F[i + 1] \in V
    OBVIOUS
  <2>2. F[i] \in V /\ i + 1 \in 1..n /\ (i + 1) - 1 = i
    BY <2>1
  <2>3. F[i + 1] = step[<<i + 1, F[i]>>]
    BY <2>2
  <2>4. QED
    BY <2>2, <2>3
<1>3. ASSUME NEW i \in 0..n PROVE F[i] \in V
  <2>1. i \in T
    <3> HIDE DEF T
    <3>1. T \in SUBSET Nat
      BY DEF T
    <3>2. QED
      BY <1>1, <1>2, <3>1, SetInduction
  <2>2. QED
    BY <2>1
<1>4. QED
  BY <1>3 DEF Follows

-----------------------------------------------------------------------------
(* Pick.                                                                   *)

(* f[n] is what the first n turns of the loop pick. *)
Picks(f, s, P) ==
  /\ f[0] = <<>>
  /\ \A n \in 1..Len(s) :
       f[n] = IF n \in P THEN Append(f[n - 1], s[n]) ELSE f[n - 1]
  /\ Pick(s, P) = f[Len(s)]

LEMMA PickRecursion ==
  ASSUME NEW V, NEW s \in Seq(V), NEW P
  PROVE  \E f \in [0..Len(s) -> Seq(V)] : Picks(f, s, P)
<1> DEFINE N == Len(s)
           W == Seq(V)
           Def(f) == [n \in 0..N |->
                        IF n = 0 THEN <<>>
                        ELSE IF n \in P THEN Append(f[n - 1], s[n]) ELSE f[n - 1]]
           F == CHOOSE f : f = Def(f)
           step == [x \in (1..N) \X W |->
                      IF x[1] \in P THEN Append(x[2], s[x[1]]) ELSE x[2]]
<1>1. Pick(s, P) = F[N]
  BY DEF Pick
<1>2. N \in Nat /\ <<>> \in W /\ \A i \in 1..N, w \in W : Append(w, s[i]) \in W
  OBVIOUS
<1> HIDE DEF N, W
<1>3. step \in [(1..N) \X W -> W]
  BY <1>2
<1>4. \A i \in 1..N, w \in W : step[<<i, w>>] = IF i \in P THEN Append(w, s[i]) ELSE w
  OBVIOUS
<1> HIDE DEF step
<1>5. PICK f \in [0..N -> W] : Follows(f, <<>>, N, step)
  BY <1>2, <1>3, FiniteRecursion
<1>5a. f[0] = <<>> /\ \A i \in 1..N : f[i] = step[<<i, f[i - 1]>>]
  BY <1>5 DEF Follows
<1>6. \A i \in 1..N : i - 1 \in 0..N /\ f[i - 1] \in W
  BY <1>2
<1>7. \A i \in 1..N : f[i] = IF i \in P THEN Append(f[i - 1], s[i]) ELSE f[i - 1]
  BY <1>4, <1>5a, <1>6
<1>8. f = Def(f)
  <2>1. \A n \in 0..N : f[n] = Def(f)[n]
    <3> TAKE n \in 0..N
    <3>1. CASE n = 0
      BY <1>5a, <3>1
    <3>2. CASE n # 0
      <4>1. n \in 1..N
        BY <1>2, <3>2
      <4>2. Def(f)[n] = IF n \in P THEN Append(f[n - 1], s[n]) ELSE f[n - 1]
        BY <3>2
      <4>3. QED
        BY <1>7, <4>1, <4>2
    <3>3. QED
      BY <3>1, <3>2
  <2>2. f = [n \in 0..N |-> f[n]]
    OBVIOUS
  <2>3. QED
    BY <2>1, <2>2
<1>9. F = Def(F)
  <2> HIDE DEF Def
  <2>1. QED
    BY <1>8
<1> HIDE DEF F
<1>10. F[0] = <<>>
  BY <1>2, <1>9
<1>11. ASSUME NEW n \in 1..N
       PROVE  F[n] = IF n \in P THEN Append(F[n - 1], s[n]) ELSE F[n - 1]
  <2>1. n \in 0..N /\ n # 0
    BY <1>2
  <2>2. Def(F)[n] = IF n \in P THEN Append(F[n - 1], s[n]) ELSE F[n - 1]
    BY <2>1
  <2>3. QED
    BY <1>9, <2>2
<1>12. F \in [0..N -> W]
  <2>1. ASSUME NEW i \in 1..N, F[i - 1] \in W PROVE F[i] = step[<<i, F[i - 1]>>]
    BY <1>4, <1>11, <2>1
  <2>2. \A i \in 0..N : F[i] \in W
    BY <1>2, <1>3, <1>10, <2>1, RecursionTypes
  <2>3. F = [n \in 0..N |-> F[n]]
    <3> DEFINE G == [n \in 0..N |-> IF n = 0 THEN <<>>
                        ELSE IF n \in P THEN Append(F[n - 1], s[n]) ELSE F[n - 1]]
    <3>1. F = G
      BY <1>9
    <3>2. QED
      BY <3>1
  <2>4. QED
    BY <2>2, <2>3
<1>13. QED
  BY <1>1, <1>10, <1>11, <1>12 DEF N, W, Picks

(* at are the positions up to n in P from which the members of r are.      *)
Places(at, r, s, P, n) ==
  /\ \A k \in 1..Len(r) : at[k] \in P /\ at[k] <= n /\ r[k] = s[at[k]]
  /\ \A k, l \in 1..Len(r) : k < l => at[k] < at[l]
  /\ \A i \in P : i <= n => \E k \in 1..Len(r) : at[k] = i

LEMMA PickProperties ==
  ASSUME NEW V, NEW s \in Seq(V), NEW P \in SUBSET (1..Len(s))
  PROVE  /\ Pick(s, P) \in Seq(V)
         /\ \E at \in [1..Len(Pick(s, P)) -> P] : Places(at, Pick(s, P), s, P, Len(s))
<1>1. PICK f \in [0..Len(s) -> Seq(V)] :
        /\ f[0] = <<>>
        /\ \A n \in 1..Len(s) :
             f[n] = IF n \in P THEN Append(f[n - 1], s[n]) ELSE f[n - 1]
        /\ Pick(s, P) = f[Len(s)]
  <2>1. \E f \in [0..Len(s) -> Seq(V)] : Picks(f, s, P)
    BY PickRecursion
  <2>2. QED
    BY <2>1 DEF Picks
<1>2. Len(s) \in Nat /\ \A p \in P : p \in Nat
  OBVIOUS
<1> DEFINE Placed(n) == \E at \in [1..Len(f[n]) -> P] : Places(at, f[n], s, P, n)
           S == {n \in Nat : n <= Len(s) => Placed(n)}
<1>3. 0 \in S
  <2> DEFINE at == [k \in 1..0 |-> 0]
  <2>1. Len(f[0]) = 0
    BY <1>1
  <2>2. at \in [1..Len(f[0]) -> P]
    BY <2>1
  <2>3. \A i \in P : ~(i <= 0)
    OBVIOUS
  <2>4. Places(at, f[0], s, P, 0)
    BY <2>1, <2>3 DEF Places
  <2>5. QED
    BY <2>2, <2>4
<1>4. ASSUME NEW n \in S, n + 1 <= Len(s) PROVE Placed(n + 1)
  <2>1. PICK at \in [1..Len(f[n]) -> P] : Places(at, f[n], s, P, n)
    BY <1>4
  <2>2. /\ n \in Nat /\ n \in 0..Len(s) /\ n + 1 \in 1..Len(s) /\ f[n] \in Seq(V)
        /\ Len(f[n]) \in Nat /\ s[n + 1] \in V
        /\ f[n + 1] = IF n + 1 \in P THEN Append(f[n], s[n + 1]) ELSE f[n]
    BY <1>1, <1>2, <1>4
  <2>3. CASE n + 1 \notin P
    <3>1. f[n + 1] = f[n]
      BY <2>2, <2>3
    <3>2. \A i \in P : i <= n + 1 => i <= n
      BY <2>2, <2>3
    <3>3. \A i \in P : i <= n => i <= n + 1
      BY <2>2
    <3>4. Places(at, f[n], s, P, n + 1)
      BY <2>1, <3>2, <3>3 DEF Places
    <3>5. QED
      BY <3>1, <3>4
  <2>4. CASE n + 1 \in P
    <3> DEFINE L == Len(f[n])
               new == [k \in 1..L + 1 |-> IF k = L + 1 THEN n + 1 ELSE at[k]]
    <3>1. /\ f[n + 1] \in Seq(V) /\ Len(f[n + 1]) = L + 1
          /\ \A k \in 1..L : f[n + 1][k] = f[n][k]
          /\ f[n + 1][L + 1] = s[n + 1]
      BY <2>2, <2>4, AppendProperties
    <3>2. new \in [1..Len(f[n + 1]) -> P]
      BY <2>4, <3>1
    <3>3. \A k \in 1..L : new[k] = at[k]
      BY <2>2
    <3>4. new[L + 1] = n + 1
      BY <2>2
    <3>5. \A k \in 1..L : at[k] \in P /\ at[k] <= n /\ f[n][k] = s[at[k]]
      BY <2>1 DEF Places
    <3> HIDE DEF new
    <3>6. \A k \in 1..L + 1 : new[k] \in P /\ new[k] <= n + 1 /\ f[n + 1][k] = s[new[k]]
      <4> TAKE k \in 1..L + 1
      <4>1. CASE k = L + 1
        BY <2>2, <2>4, <3>1, <3>4, <4>1
      <4>2. CASE k # L + 1
        <5>1. k \in 1..L
          BY <2>2, <4>2
        <5>2. new[k] = at[k] /\ at[k] \in P /\ at[k] <= n
          BY <3>3, <3>5, <5>1
        <5>3. at[k] <= n + 1
          <6>1. at[k] \in Nat
            BY <1>2, <5>2
          <6>2. QED
            BY <2>2, <5>2, <6>1
        <5>4. f[n + 1][k] = s[at[k]]
          BY <3>1, <3>5, <5>1
        <5>5. QED
          BY <5>2, <5>3, <5>4
      <4>3. QED
        BY <4>1, <4>2
    <3>7. ASSUME NEW k \in 1..L + 1, NEW l \in 1..L + 1, k < l PROVE new[k] < new[l]
      <4>1. k \in 1..L
        BY <2>2, <3>7
      <4>2. CASE l = L + 1
        <5>1. new[l] = n + 1 /\ new[k] = at[k] /\ at[k] \in P /\ at[k] <= n
          BY <3>3, <3>4, <3>5, <4>1, <4>2
        <5>2. at[k] \in Nat
          BY <1>2, <5>1
        <5>3. QED
          BY <2>2, <5>1, <5>2
      <4>3. CASE l # L + 1
        <5>1. l \in 1..L
          BY <2>2, <4>3
        <5>2. QED
          BY <2>1, <3>3, <3>7, <4>1, <5>1 DEF Places
      <4>4. QED
        BY <4>2, <4>3
    <3>8. ASSUME NEW i \in P, i <= n + 1 PROVE \E k \in 1..L + 1 : new[k] = i
      <4>1. CASE i = n + 1
        BY <2>2, <3>4, <4>1
      <4>2. CASE i # n + 1
        <5>1. i <= n
          BY <2>2, <3>8, <4>2
        <5>2. PICK k \in 1..L : at[k] = i
          BY <2>1, <5>1 DEF Places
        <5>3. k \in 1..L + 1 /\ new[k] = i
          BY <2>2, <3>3, <5>2
        <5>4. QED
          BY <5>3
      <4>3. QED
        BY <4>1, <4>2
    <3>9. Places(new, f[n + 1], s, P, n + 1)
      BY <3>1, <3>6, <3>7, <3>8 DEF Places
    <3>10. QED
      BY <3>2, <3>9
  <2>5. QED
    BY <2>3, <2>4
<1>5. Len(s) \in S
  <2>1. \A n \in S : n + 1 \in S
    <3> HIDE DEF Placed
    <3>1. QED
      BY <1>4
  <2> HIDE DEF S
  <2>2. S \in SUBSET Nat
    BY DEF S
  <2>3. QED
    BY <1>2, <1>3, <2>1, <2>2, SetInduction
<1>6. Placed(Len(s))
  <2> HIDE DEF Placed
  <2>1. QED
    BY <1>2, <1>5
<1>7. QED
  BY <1>1, <1>2, <1>6

(* A list is empty if it has no members, and else its head is one. *)
LEMMA EmptyList ==
  ASSUME NEW V, NEW s \in Seq(V)
  PROVE  (s = <<>> <=> ToSet(s) = {}) /\ (s # <<>> => Head(s) \in ToSet(s))
<1>1. CASE s = <<>>
  BY <1>1 DEF ToSet
<1>2. CASE s # <<>>
  <2>1. 1 \in DOMAIN s /\ Head(s) = s[1]
    BY <1>2
  <2>2. QED
    BY <1>2, <2>1 DEF ToSet
<1>3. QED
  BY <1>1, <1>2

(* The members of a selection are those at its positions. *)
LEMMA PickMembers ==
  ASSUME NEW V, NEW s \in Seq(V), NEW P \in SUBSET (1..Len(s))
  PROVE  /\ Pick(s, P) \in Seq(V)
         /\ ToSet(Pick(s, P)) = {s[i] : i \in P}
<1> DEFINE r == Pick(s, P)
<1>1. r \in Seq(V)
  BY PickProperties
<1>2. PICK at \in [1..Len(r) -> P] : Places(at, r, s, P, Len(s))
  BY PickProperties
<1> HIDE DEF r
<1>3. DOMAIN r = 1..Len(r)
  BY <1>1
<1>4. \A k \in DOMAIN r : at[k] \in P /\ r[k] = s[at[k]]
  BY <1>2, <1>3 DEF Places
<1>5. \A i \in P : \E k \in DOMAIN r : r[k] = s[i]
  <2> TAKE i \in P
  <2>1. i <= Len(s)
    OBVIOUS
  <2>2. PICK k \in 1..Len(r) : at[k] = i
    BY <1>2, <2>1 DEF Places
  <2>3. QED
    BY <1>3, <1>4, <2>2
<1>6. ToSet(r) = {s[i] : i \in P}
  BY <1>4, <1>5 DEF ToSet
<1>7. QED
  BY <1>1, <1>6 DEF r

LEMMA OnlyMembers ==
  ASSUME NEW V, NEW s \in Seq(V), NEW keep
  PROVE  /\ Only(s, keep) \in Seq(V)
         /\ ToSet(Only(s, keep)) = ToSet(s) \cap keep
<1> DEFINE P == {i \in DOMAIN s : s[i] \in keep}
<1>1. P \in SUBSET (1..Len(s)) /\ DOMAIN s = 1..Len(s)
  OBVIOUS
<1>2. Only(s, keep) = Pick(s, P)
  BY DEF Only
<1>3. {s[i] : i \in P} = ToSet(s) \cap keep
  BY DEF ToSet
<1> HIDE DEF P
<1>4. QED
  BY <1>1, <1>2, <1>3, PickMembers

(* Every member of a list has a place where it comes first. *)
LEMMA UniqueMembers ==
  ASSUME NEW V, NEW s \in Seq(V)
  PROVE  Unique(s) \in Seq(V) /\ ToSet(Unique(s)) = ToSet(s)
<1> DEFINE P == {i \in DOMAIN s : \A j \in 1..i - 1 : s[j] # s[i]}
<1>1. P \in SUBSET (1..Len(s)) /\ DOMAIN s = 1..Len(s) /\ Len(s) \in Nat
  OBVIOUS
<1>2. Unique(s) = Pick(s, P)
  BY DEF Unique
<1>3. ASSUME NEW i \in DOMAIN s PROVE \E k \in P : s[k] = s[i]
  <2> DEFINE Q == {k \in 1..Len(s) : s[k] = s[i]}
  <2>1. Q \in SUBSET Nat /\ Q # {}
    BY <1>1
  <2>2. PICK k \in Q : \A j \in Q : k <= j
    <3> HIDE DEF Q
    <3>1. QED
      BY <2>1, LeastNatural
  <2>3. k \in P
    BY <1>1, <2>2
  <2>4. QED
    BY <2>3
<1>4. {s[i] : i \in P} = ToSet(s)
  BY <1>1, <1>3 DEF ToSet
<1> HIDE DEF P
<1>5. QED
  BY <1>1, <1>2, <1>4, PickMembers

-----------------------------------------------------------------------------
(* FlattenSeq.                                                             *)

(* f[n] is the concatenation of the first n sequences. *)
Flattens(f, seqs) ==
  /\ f[0] = <<>>
  /\ \A n \in 1..Len(seqs) : f[n] = f[n - 1] \o seqs[n]
  /\ FlattenSeq(seqs) = f[Len(seqs)]

LEMMA FlattenRecursion ==
  ASSUME NEW V, NEW seqs \in Seq(Seq(V))
  PROVE  \E f \in [0..Len(seqs) -> Seq(V)] : Flattens(f, seqs)
<1>1. CASE Len(seqs) = 0
  <2> DEFINE f == [i \in 0..0 |-> <<>>]
  <2>1. seqs = <<>>
    BY <1>1
  <2>2. FlattenSeq(seqs) = <<>>
    BY <1>1, <2>1 DEF FlattenSeq
  <2>3. f[0] = <<>> /\ f \in [0..Len(seqs) -> Seq(V)]
    BY <1>1
  <2>4. Flattens(f, seqs)
    BY <1>1, <2>2, <2>3 DEF Flattens
  <2>5. QED
    BY <2>3, <2>4
<1>2. CASE Len(seqs) # 0
  <2> DEFINE N == Len(seqs)
             W == Seq(V)
             Def(h) == [i \in 1..N |-> IF i = 1 THEN seqs[i] ELSE h[i - 1] \o seqs[i]]
             F == CHOOSE h : h = Def(h)
             step == [x \in (1..N) \X W |-> x[2] \o seqs[x[1]]]
  <2>1. FlattenSeq(seqs) = F[N]
    BY <1>2 DEF FlattenSeq
  <2>2. /\ N \in Nat /\ N >= 1 /\ <<>> \in W
        /\ \A i \in 1..N : seqs[i] \in W
        /\ \A v, w \in W : v \o w \in W
        /\ \A w \in W : <<>> \o w = w
    BY <1>2
  <2> HIDE DEF N, W
  <2>3. step \in [(1..N) \X W -> W]
    BY <2>2
  <2>4. \A i \in 1..N, w \in W : step[<<i, w>>] = w \o seqs[i]
    OBVIOUS
  <2> HIDE DEF step
  <2>5. \E f \in [0..N -> W] : Follows(f, <<>>, N, step)
    BY <2>2, <2>3, FiniteRecursion
  <2>6. PICK f \in [0..N -> W] :
          f[0] = <<>> /\ \A i \in 1..N : f[i] = step[<<i, f[i - 1]>>]
    BY <2>5 DEF Follows
  <2>7. \A i \in 1..N : i - 1 \in 0..N /\ f[i - 1] \in W
    BY <2>2
  <2>8. \A i \in 1..N : f[i] = f[i - 1] \o seqs[i]
    BY <2>4, <2>6, <2>7
  <2>9. f[1] = seqs[1]
    <3>1. 1 \in 1..N /\ 1 - 1 = 0
      BY <2>2
    <3>2. f[1] = f[1 - 1] \o seqs[1]
      BY <2>8, <3>1
    <3>3. QED
      BY <2>2, <2>6, <3>1, <3>2
  <2> DEFINE g == [i \in 1..N |-> f[i]]
  <2>10. g = Def(g)
    <3>1. ASSUME NEW i \in 1..N PROVE g[i] = Def(g)[i]
      <4>1. CASE i = 1
        BY <2>9, <4>1
      <4>2. CASE i # 1
        <5>1. i - 1 \in 1..N
          BY <2>2, <4>2
        <5>2. Def(g)[i] = f[i - 1] \o seqs[i]
          BY <4>2, <5>1
        <5>3. QED
          BY <2>8, <5>2
      <4>3. QED
        BY <4>1, <4>2
    <3>2. g = [i \in 1..N |-> g[i]]
      OBVIOUS
    <3>3. QED
      BY <3>1, <3>2
  <2>11. F = Def(F)
    <3> HIDE DEF Def, g
    <3>1. QED
      BY <2>10
  <2> HIDE DEF F
  <2>12. \A i \in 1..N : F[i] = IF i = 1 THEN seqs[i] ELSE F[i - 1] \o seqs[i]
    <3> TAKE i \in 1..N
    <3>1. Def(F)[i] = IF i = 1 THEN seqs[i] ELSE F[i - 1] \o seqs[i]
      OBVIOUS
    <3>2. QED
      BY <2>11, <3>1
  <2> DEFINE T == {i \in Nat : i + 1 <= N => F[i + 1] = f[i + 1]}
  <2>13. 0 \in T
    <3>1. F[1] = seqs[1]
      BY <2>2, <2>12
    <3>2. QED
      BY <2>9, <3>1
  <2>14. ASSUME NEW i \in T PROVE i + 1 \in T
    <3>1. SUFFICES ASSUME (i + 1) + 1 <= N PROVE F[(i + 1) + 1] = f[(i + 1) + 1]
      OBVIOUS
    <3>2. (i + 1) + 1 \in 1..N /\ (i + 1) + 1 # 1 /\ ((i + 1) + 1) - 1 = i + 1
      BY <2>2, <3>1
    <3>3. F[i + 1] = f[i + 1]
      BY <2>2, <3>1
    <3>4. F[(i + 1) + 1] = F[((i + 1) + 1) - 1] \o seqs[(i + 1) + 1]
      BY <2>12, <3>2
    <3>5. f[(i + 1) + 1] = f[((i + 1) + 1) - 1] \o seqs[(i + 1) + 1]
      BY <2>8, <3>2
    <3>6. QED
      BY <3>2, <3>3, <3>4, <3>5
  <2>15. F[N] = f[N]
    <3>1. T = Nat
      <4> HIDE DEF T
      <4>1. T \in SUBSET Nat
        BY DEF T
      <4>2. QED
        BY <2>13, <2>14, <4>1, SetInduction
    <3>2. N - 1 \in Nat /\ (N - 1) + 1 = N
      BY <2>2
    <3>3. N - 1 \in T
      BY <3>1, <3>2
    <3>4. QED
      BY <3>2, <3>3
  <2>16. QED
    BY <2>1, <2>6, <2>8, <2>15 DEF N, W, Flattens
<1>3. QED
  BY <1>1, <1>2

LEMMA FlattenEmpty == FlattenSeq(<<>>) = <<>>
BY DEF FlattenSeq

LEMMA FlattenType ==
  ASSUME NEW V, NEW seqs \in Seq(Seq(V))
  PROVE  FlattenSeq(seqs) \in Seq(V)
<1>1. PICK f \in [0..Len(seqs) -> Seq(V)] : Flattens(f, seqs)
  BY FlattenRecursion
<1>2. Len(seqs) \in 0..Len(seqs)
  OBVIOUS
<1>3. QED
  BY <1>1, <1>2 DEF Flattens

(* A sequence more is flattened at the end. *)
LEMMA FlattenAppend ==
  ASSUME NEW V, NEW seqs \in Seq(Seq(V)), NEW s \in Seq(V)
  PROVE  FlattenSeq(Append(seqs, s)) = FlattenSeq(seqs) \o s
<1> DEFINE N == Len(seqs)
           more == Append(seqs, s)
<1>1. /\ N \in Nat /\ more \in Seq(Seq(V)) /\ Len(more) = N + 1
      /\ \A i \in 1..N : more[i] = seqs[i]
      /\ more[N + 1] = s
  OBVIOUS
<1> HIDE DEF more
<1>2. PICK f \in [0..N -> Seq(V)] : Flattens(f, seqs)
  BY FlattenRecursion
<1>3. PICK g \in [0..N + 1 -> Seq(V)] : Flattens(g, more)
  BY <1>1, FlattenRecursion
<1>4. /\ f[0] = <<>> /\ g[0] = <<>>
      /\ \A i \in 1..N : f[i] = f[i - 1] \o seqs[i]
      /\ \A i \in 1..N + 1 : g[i] = g[i - 1] \o more[i]
      /\ FlattenSeq(seqs) = f[N] /\ FlattenSeq(more) = g[N + 1]
  BY <1>1, <1>2, <1>3 DEF Flattens
<1> HIDE DEF N
<1> DEFINE T == {i \in Nat : i <= N => g[i] = f[i]}
<1>5. 0 \in T
  BY <1>4
<1>6. ASSUME NEW i \in T PROVE i + 1 \in T
  <2>1. SUFFICES ASSUME i + 1 <= N PROVE g[i + 1] = f[i + 1]
    OBVIOUS
  <2>2. /\ i + 1 \in 1..N /\ i + 1 \in 1..N + 1 /\ (i + 1) - 1 = i
        /\ g[i] = f[i]
    BY <1>1, <2>1
  <2>3. QED
    BY <1>1, <1>4, <2>2
<1>7. g[N] = f[N]
  <2>1. T = Nat
    <3> HIDE DEF T
    <3>1. T \in SUBSET Nat
      BY DEF T
    <3>2. QED
      BY <1>5, <1>6, <3>1, SetInduction
  <2>2. QED
    BY <1>1, <2>1
<1>8. N + 1 \in 1..N + 1 /\ (N + 1) - 1 = N
  BY <1>1
<1>9. QED
  BY <1>1, <1>4, <1>7, <1>8 DEF more

(* What is flattened after seqs comes after it. *)
LEMMA FlattenConcat ==
  ASSUME NEW V, NEW seqs \in Seq(Seq(V)), NEW more \in Seq(Seq(V))
  PROVE  FlattenSeq(seqs \o more) = FlattenSeq(seqs) \o FlattenSeq(more)
<1> DEFINE W == Seq(V)
           N == Len(more)
           upTo(n) == SubSeq(more, 1, n)
           T == {n \in Nat : n <= N =>
                   FlattenSeq(seqs \o upTo(n)) = FlattenSeq(seqs) \o FlattenSeq(upTo(n))}
<1>1. /\ N \in Nat /\ upTo(N) = more
      /\ \A n \in 0..N : upTo(n) \in Seq(W)
      /\ upTo(0) = <<>>
  OBVIOUS
<1>2. ASSUME NEW n \in Nat, n + 1 <= N
      PROVE  upTo(n + 1) = Append(upTo(n), more[n + 1]) /\ more[n + 1] \in W
  <2>1. n + 1 \in 1..N /\ n \in 0..N
    BY <1>2
  <2>2. more[n + 1] \in W
    BY <2>1
  <2>3. upTo(n + 1) = Append(upTo(n), more[n + 1])
    BY <2>1
  <2>4. QED
    BY <2>2, <2>3
<1> HIDE DEF upTo, N
<1>3. 0 \in T
  <2>1. seqs \o <<>> = seqs
    BY ConcatEmptySeq
  <2>2. FlattenSeq(seqs) \in Seq(V)
    BY FlattenType
  <2>3. FlattenSeq(seqs) \o <<>> = FlattenSeq(seqs)
    BY <2>2, ConcatEmptySeq
  <2>4. QED
    BY <1>1, <2>1, <2>3, FlattenEmpty
<1>4. ASSUME NEW n \in T PROVE n + 1 \in T
  <2>1. SUFFICES ASSUME n + 1 <= N
                 PROVE  FlattenSeq(seqs \o upTo(n + 1))
                          = FlattenSeq(seqs) \o FlattenSeq(upTo(n + 1))
    OBVIOUS
  <2> DEFINE x == more[n + 1]
             u == upTo(n)
  <2>2. n \in 0..N /\ u \in Seq(W) /\ x \in W /\ upTo(n + 1) = Append(u, x)
    BY <1>1, <1>2, <2>1
  <2>3. FlattenSeq(seqs \o u) = FlattenSeq(seqs) \o FlattenSeq(u)
    BY <1>1, <2>1
  <2> HIDE DEF u, x
  <2>4. seqs \in Seq(W)
    BY DEF W
  <2>5. seqs \o Append(u, x) = Append(seqs \o u, x) /\ seqs \o u \in Seq(W)
    <3> HIDE DEF W
    <3>1. QED
      BY <2>2, <2>4
  <2>6. FlattenSeq(Append(seqs \o u, x)) = FlattenSeq(seqs \o u) \o x
    BY <2>2, <2>5, FlattenAppend
  <2>7. FlattenSeq(Append(u, x)) = FlattenSeq(u) \o x
    BY <2>2, FlattenAppend
  <2>8. FlattenSeq(seqs) \in Seq(V) /\ FlattenSeq(u) \in Seq(V) /\ x \in Seq(V)
    BY <2>2, FlattenType
  <2>9. (FlattenSeq(seqs) \o FlattenSeq(u)) \o x = FlattenSeq(seqs) \o (FlattenSeq(u) \o x)
    BY <2>8, ConcatAssociative
  <2>10. QED
    BY <2>2, <2>3, <2>5, <2>6, <2>7, <2>9
<1>5. N \in T
  <2> HIDE DEF T
  <2>1. T \in SUBSET Nat
    BY DEF T
  <2>2. QED
    BY <1>1, <1>3, <1>4, <2>1, SetInduction
<1>6. QED
  BY <1>1, <1>5
LEMMA ConcatMembers ==
  ASSUME NEW V, NEW s \in Seq(V), NEW t \in Seq(V)
  PROVE  ToSet(s \o t) = ToSet(s) \cup ToSet(t)
<1>1. ASSUME NEW i \in DOMAIN (s \o t) PROVE (s \o t)[i] \in ToSet(s) \cup ToSet(t)
  <2>1. CASE i \in DOMAIN s
    BY <2>1 DEF ToSet
  <2>2. CASE i \notin DOMAIN s
    <3>1. i - Len(s) \in DOMAIN t /\ (s \o t)[i] = t[i - Len(s)]
      BY <2>2
    <3>2. QED
      BY <3>1 DEF ToSet
  <2>3. QED
    BY <2>1, <2>2
<1>2. ASSUME NEW i \in DOMAIN s PROVE i \in DOMAIN (s \o t) /\ (s \o t)[i] = s[i]
  OBVIOUS
<1>3. ASSUME NEW i \in DOMAIN t
      PROVE  i + Len(s) \in DOMAIN (s \o t) /\ (s \o t)[i + Len(s)] = t[i]
  OBVIOUS
<1>4. ToSet(s \o t) \subseteq ToSet(s) \cup ToSet(t)
  BY <1>1 DEF ToSet
<1>5. ToSet(s) \subseteq ToSet(s \o t)
  BY <1>2 DEF ToSet
<1>6. ToSet(t) \subseteq ToSet(s \o t)
  <2>1. ASSUME NEW x \in ToSet(t) PROVE x \in ToSet(s \o t)
    <3>1. PICK i \in DOMAIN t : x = t[i]
      BY <2>1 DEF ToSet
    <3>2. QED
      BY <1>3, <3>1 DEF ToSet
  <2>2. QED
    BY <2>1
<1>7. QED
  BY <1>4, <1>5, <1>6

LEMMA FlattenMembers ==
  ASSUME NEW V, NEW seqs \in Seq(Seq(V))
  PROVE  ToSet(FlattenSeq(seqs)) = UNION {ToSet(seqs[i]) : i \in DOMAIN seqs}
<1> DEFINE N == Len(seqs)
<1>1. N \in Nat /\ DOMAIN seqs = 1..N /\ \A i \in 1..N : seqs[i] \in Seq(V)
  OBVIOUS
<1>2. PICK f \in [0..N -> Seq(V)] : Flattens(f, seqs)
  BY FlattenRecursion
<1>3. /\ f[0] = <<>> /\ \A i \in 1..N : f[i] = f[i - 1] \o seqs[i]
      /\ FlattenSeq(seqs) = f[N]
  BY <1>2 DEF Flattens
<1> HIDE DEF N
<1> DEFINE Of(n) == UNION {ToSet(seqs[i]) : i \in 1..n}
           T == {n \in Nat : n <= N => ToSet(f[n]) = Of(n)}
<1>4. 0 \in T
  <2>1. ToSet(f[0]) = {}
    BY <1>3 DEF ToSet
  <2>2. Of(0) = {}
    OBVIOUS
  <2>3. QED
    BY <2>1, <2>2
<1>5. ASSUME NEW n \in T PROVE n + 1 \in T
  <2>1. SUFFICES ASSUME n + 1 <= N PROVE ToSet(f[n + 1]) = Of(n + 1)
    OBVIOUS
  <2>2. /\ n \in Nat /\ n \in 0..N /\ n + 1 \in 1..N /\ (n + 1) - 1 = n
        /\ ToSet(f[n]) = Of(n)
    BY <1>1, <2>1
  <2>3. f[n + 1] = f[n] \o seqs[n + 1]
    BY <1>3, <2>2
  <2>4. ToSet(f[n + 1]) = Of(n) \cup ToSet(seqs[n + 1])
    <3> HIDE DEF Of
    <3>1. f[n] \in Seq(V) /\ seqs[n + 1] \in Seq(V)
      BY <1>1, <2>2
    <3>2. QED
      BY <2>2, <2>3, <3>1, ConcatMembers
  <2>5. 1..n + 1 = (1..n) \cup {n + 1}
    BY <2>2
  <2>6. Of(n + 1) = Of(n) \cup ToSet(seqs[n + 1])
    BY <2>5
  <2>7. QED
    BY <2>4, <2>6
<1>6. N \in T
  <2> HIDE DEF T
  <2>1. T \in SUBSET Nat
    BY DEF T
  <2>2. QED
    BY <1>1, <1>4, <1>5, <2>1, SetInduction
<1>7. QED
  BY <1>1, <1>3, <1>6

=============================================================================
