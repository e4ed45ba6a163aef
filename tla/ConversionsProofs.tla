-------------------------- MODULE ConversionsProofs --------------------------
(***************************************************************************)
(* Proofs about Conversions, for calls with inputs of any size.  What a    *)
(* fold makes of a list is proved by induction over sets: the provers      *)
(* cannot instantiate an induction principle that takes an operator, but   *)
(* the well-founded order of the natural numbers, stated of sets, gives    *)
(* one that takes none (SetInduction).                                     *)
(***************************************************************************)
EXTENDS Conversions, WellFoundedInduction, SequenceTheorems, FiniteSetTheorems, TLAPS

-----------------------------------------------------------------------------
Below == {p \in Nat \X Nat : p[1] < p[2]}

LEMMA BelowWF == IsWellFoundedOn(Below, Nat)
BY NatLessThanWellFounded DEF OpToRel, Below

LEMMA LeastOf ==
  ASSUME NEW T, T \subseteq Nat, T # {}
  PROVE  \E n \in T : \A m \in T : n =< m
<1>1. PICK x \in T : \A y \in T : ~ (<<y, x>> \in Below)
  BY BelowWF, WFMin
<1>2. \A y \in T : ~ (y < x)
  <2> SUFFICES ASSUME NEW y \in T PROVE ~ (y < x)
    OBVIOUS
  <2>1. <<y, x>> \in Nat \X Nat /\ <<y, x>>[1] = y /\ <<y, x>>[2] = x
    OBVIOUS
  <2>2. QED
    BY <1>1, <2>1 DEF Below
<1>3. QED
  BY <1>2

LEMMA SetInduction ==
  ASSUME NEW T, 0 \in T, \A n \in Nat : n \in T => n + 1 \in T
  PROVE  \A n \in Nat : n \in T
<1> SUFFICES ASSUME NEW n \in Nat, n \notin T PROVE FALSE
  OBVIOUS
<1>1. PICK m \in Nat \ T : \A k \in Nat \ T : m =< k
  <2>1. Nat \ T \subseteq Nat /\ Nat \ T # {}
    OBVIOUS
  <2>2. QED
    BY <2>1, LeastOf
<1>2. m # 0
  OBVIOUS
<1>3. m - 1 \in Nat /\ m - 1 \in T
  BY <1>1, <1>2
<1>4. m - 1 + 1 \in T /\ m - 1 + 1 = m
  BY <1>1, <1>3
<1>5. QED
  BY <1>4

LEMMA MaxIs ==
  ASSUME NEW s, NEW k \in s, s \subseteq Nat, \A j \in s : j =< k
  PROVE  Max(s) = k
<1> DEFINE m == CHOOSE x \in s : \A y \in s : x >= y
<1>1. k \in s /\ \A y \in s : k >= y
  OBVIOUS
<1>2. m \in s /\ \A y \in s : m >= y
  BY <1>1
<1>3. m = k
  <2>1. k \in Nat /\ m \in Nat /\ k >= m /\ m >= k
    BY <1>1, <1>2
  <2> HIDE DEF m
  <2>2. QED
    BY <2>1
<1>4. QED
  BY <1>3 DEF Max

LEMMA MaxIn ==
  ASSUME NEW n \in Nat, NEW s \in SUBSET (1..n), s # {}
  PROVE  Max(s) \in s
<1> DEFINE T == {n - j : j \in s}
<1>1. T \subseteq Nat /\ T # {}
  <2>1. \A j \in 1..n : n - j \in Nat
    OBVIOUS
  <2>2. QED
    BY <2>1
<1>2. PICK t \in T : \A u \in T : t =< u
  BY <1>1, LeastOf
<1>3. PICK k \in s : t = n - k
  BY <1>2
<1>4. \A j \in s : n - k =< n - j
  BY <1>2, <1>3
<1>5. s \subseteq Nat /\ \A j \in s : j =< k
  BY <1>4
<1>6. QED
  BY <1>5, MaxIs

LEMMA MaxOfPrefix ==
  ASSUME NEW n \in Nat, NEW k \in 1..n
  PROVE  /\ Max(1..k) = k /\ (1..k) # {} /\ (1..k) \ {Max(1..k)} = 1..k-1
         /\ (1..k) \in SUBSET (1..n) /\ (1..k-1) \in SUBSET (1..n)
<1>1. k \in 1..k /\ (1..k) \subseteq Nat /\ \A j \in 1..k : j =< k
  OBVIOUS
<1>2. Max(1..k) = k
  BY <1>1, MaxIs
<1>3. (1..k) \ {k} = 1..k-1 /\ (1..k) \in SUBSET (1..n) /\ (1..k-1) \in SUBSET (1..n)
  OBVIOUS
<1>4. QED
  BY <1>1, <1>2, <1>3

(* An iteration over the sets of positions, from the largest on.           *)
Iterates(h, k, A, base, G) ==
  /\ h \in [SUBSET (1..k) -> A]
  /\ \A s \in SUBSET (1..k) : h[s] = IF s = {} THEN base ELSE G[<<Max(s), h[s \ {Max(s)}]>>]

LEMMA IterationExists ==
  ASSUME NEW n \in Nat, NEW A, NEW base \in A, NEW G \in [(1..n) \X A -> A]
  PROVE  \E h : Iterates(h, n, A, base, G)
<1> DEFINE Good(h, k) == Iterates(h, k, A, base, G)
           T == {k \in Nat : k =< n => \E h : Good(h, k)}
<1>1. 0 \in T
  <2> DEFINE h == [s \in SUBSET (1..0) |-> base]
  <2>1. \A s \in SUBSET (1..0) : s = {}
    OBVIOUS
  <2>2. Good(h, 0)
    BY <2>1 DEF Iterates
  <2>3. QED
    BY <2>2
<1>2. ASSUME NEW k \in Nat, k \in T
      PROVE  k + 1 \in T
  <2> SUFFICES ASSUME k + 1 =< n PROVE \E g : Good(g, k + 1)
    OBVIOUS
  <2>1. PICK h : Good(h, k)
    BY <1>2
  <2>h. /\ h \in [SUBSET (1..k) -> A]
        /\ \A s \in SUBSET (1..k) : h[s] = IF s = {} THEN base ELSE G[<<Max(s), h[s \ {Max(s)}]>>]
    BY <2>1 DEF Iterates
  <2> DEFINE g == [s \in SUBSET (1..k+1) |-> IF k + 1 \in s THEN G[<<k + 1, h[s \ {k + 1}]>>] ELSE h[s]]
  <2>2. ASSUME NEW s \in SUBSET (1..k+1), k + 1 \in s
        PROVE  Max(s) = k + 1 /\ s # {} /\ s \ {k+1} \in SUBSET (1..k) /\ k + 1 \in 1..n
    <3>1. s \subseteq Nat /\ \A j \in s : j =< k + 1
      BY <2>2
    <3>2. Max(s) = k + 1
      BY <2>2, <3>1, MaxIs
    <3>3. \A j \in s : j \in 1..n /\ (j # k + 1 => j \in 1..k)
      BY <2>2
    <3>4. QED
      BY <2>2, <3>2, <3>3
  <2>3. ASSUME NEW s \in SUBSET (1..k+1), k + 1 \notin s
        PROVE  s \in SUBSET (1..k) /\ s \ {Max(s)} \in SUBSET (1..k)
    <3>1. \A j \in 1..k+1 : j # k + 1 => j \in 1..k
      OBVIOUS
    <3>2. QED
      BY <2>3, <3>1
  <2>4. ASSUME NEW s \in SUBSET (1..k+1)
        PROVE  g[s] \in A /\ g[s] = IF s = {} THEN base ELSE G[<<Max(s), g[s \ {Max(s)}]>>]
    <3>1. CASE k + 1 \in s
      <4> DEFINE t == s \ {k + 1}
      <4>1. t \in SUBSET (1..k) /\ k + 1 \notin t /\ t \in SUBSET (1..k+1) /\ k + 1 \in 1..n
        BY <2>2, <3>1
      <4>2. h[t] \in A
        BY <2>h, <4>1
      <4>3. g[t] = h[t]
        BY <4>1
      <4>4. g[s] = G[<<k + 1, h[t]>>] /\ G[<<k + 1, h[t]>>] \in A
        <5>1. g[s] = G[<<k + 1, h[t]>>]
          BY <3>1
        <5>2. <<k + 1, h[t]>> \in (1..n) \X A
          BY <4>1, <4>2
        <5> HIDE DEF t, g
        <5>3. QED
          BY <5>1, <5>2
      <4>5. Max(s) = k + 1 /\ s # {}
        BY <2>2, <3>1
      <4> HIDE DEF g, t
      <4>6. QED
        BY <4>3, <4>4, <4>5 DEF t
    <3>2. CASE k + 1 \notin s
      <4>1. s \in SUBSET (1..k) /\ s \ {Max(s)} \in SUBSET (1..k) /\ s \ {Max(s)} \in SUBSET (1..k+1)
            /\ k + 1 \notin s \ {Max(s)}
        BY <2>3, <3>2
      <4>2. g[s] = h[s] /\ g[s \ {Max(s)}] = h[s \ {Max(s)}]
        BY <3>2, <4>1
      <4>3. h[s] \in A /\ h[s] = IF s = {} THEN base ELSE G[<<Max(s), h[s \ {Max(s)}]>>]
        BY <2>h, <4>1
      <4> HIDE DEF g
      <4>4. QED
        BY <4>2, <4>3
    <3>3. QED
      BY <3>1, <3>2
  <2>5. g \in [SUBSET (1..k+1) -> A]
    BY <2>4
  <2> HIDE DEF g
  <2>6. Good(g, k + 1)
    BY <2>4, <2>5 DEF Iterates
  <2>7. QED
    BY <2>6
<1>3. n \in T
  <2> HIDE DEF T
  <2>1. QED
    BY <1>1, <1>2, SetInduction
<1>4. QED
  BY <1>3

(* What such an iteration, found in any way, makes of the prefixes.        *)
RunsOver(z, n, A, base, G) ==
  /\ z[{}] = base
  /\ \A k \in 1..n : z[1..k-1] \in A => z[1..k] = G[<<k, z[1..k-1]>>]

IsRun(F, z, n, A, base, G) ==
  /\ F \in [0..n -> A]
  /\ F[n] = z[1..n]
  /\ F[0] = base /\ \A k \in 1..n : F[k] = G[<<k, F[k-1]>>]

LEMMA PairIs ==
  ASSUME NEW A, NEW B, NEW a \in A, NEW b \in B
  PROVE  <<a, b>> \in A \X B /\ <<a, b>>[1] = a /\ <<a, b>>[2] = b
  OBVIOUS

LEMMA PrefixRuns ==
  ASSUME NEW n \in Nat, NEW A, NEW base \in A, NEW G \in [(1..n) \X A -> A], NEW z,
         RunsOver(z, n, A, base, G)
  PROVE  \E F : IsRun(F, z, n, A, base, G)
<1> DEFINE F == [k \in 0..n |-> z[1..k]]
           T == {k \in Nat : k =< n => F[k] \in A}
<1>z. z[{}] = base /\ \A k \in 1..n : z[1..k-1] \in A => z[1..k] = G[<<k, z[1..k-1]>>]
  BY DEF RunsOver
<1>1. F[0] = base /\ F[n] = z[1..n]
  <2>1. 1..0 = {} /\ 0 \in 0..n /\ n \in 0..n
    OBVIOUS
  <2>2. QED
    BY <1>z, <2>1
<1>2. ASSUME NEW k \in 1..n, F[k-1] \in A
      PROVE  F[k] = G[<<k, F[k-1]>>] /\ F[k] \in A
  <2>1. k \in 0..n /\ k - 1 \in 0..n
    OBVIOUS
  <2>2. F[k] = z[1..k] /\ F[k-1] = z[1..k-1]
    BY <2>1
  <2> HIDE DEF F
  <2>3. <<k, F[k-1]>> \in (1..n) \X A
    BY <1>2
  <2>4. G[<<k, F[k-1]>>] \in A
    BY <2>3
  <2>5. QED
    BY <1>2, <1>z, <2>2, <2>4
<1> HIDE DEF F
<1>3. 0 \in T
  BY <1>1
<1>4. ASSUME NEW k \in Nat, k \in T
      PROVE  k + 1 \in T
  <2> SUFFICES ASSUME k + 1 =< n PROVE F[k+1] \in A
    OBVIOUS
  <2>1. k + 1 \in 1..n /\ (k + 1) - 1 = k /\ F[k] \in A
    BY <1>4
  <2>2. QED
    BY <1>2, <2>1
<1>5. \A k \in 0..n : F[k] \in A
  <2>1. \A k \in Nat : k \in T
    <3> HIDE DEF T
    <3>1. QED
      BY <1>3, <1>4, SetInduction
  <2>2. QED
    BY <2>1
<1>6. F \in [0..n -> A]
  BY <1>5 DEF F
<1>7. \A k \in 1..n : F[k] = G[<<k, F[k-1]>>]
  <2>1. \A k \in 1..n : k - 1 \in 0..n
    OBVIOUS
  <2>2. QED
    BY <1>2, <1>5, <2>1
<1>8. QED
  BY <1>1, <1>6, <1>7 DEF IsRun

-----------------------------------------------------------------------------
ThoseRun(F, s, set, S) ==
  /\ F \in [0..Len(s) -> Seq(S)]
  /\ F[0] = <<>> /\ F[Len(s)] = Those(s, set)
  /\ \A k \in 1..Len(s) :
       F[k] = IF s[k] \in set THEN Append(F[k-1], s[k]) ELSE F[k-1]

LEMMA ThoseSteps ==
  ASSUME NEW S, NEW set, NEW s \in Seq(S)
  PROVE  \E F : ThoseRun(F, s, set, S)
<1> DEFINE n == Len(s)
           A == Seq(S)
           G == [p \in (1..n) \X A |-> IF s[p[1]] \in set THEN Append(p[2], s[p[1]]) ELSE p[2]]
           Step(z) == [q \in SUBSET DOMAIN s |->
                         IF q = {} THEN <<>>
                         ELSE IF s[Max(q)] \in set THEN Append(z[q \ {Max(q)}], s[Max(q)])
                              ELSE z[q \ {Max(q)}]]
           iter == CHOOSE z : z = Step(z)
<1>1. n \in Nat /\ DOMAIN s = 1..n /\ <<>> \in A /\ \A k \in 1..n : s[k] \in S
  OBVIOUS
<1>2. G \in [(1..n) \X A -> A]
  <2>1. \A v \in A, x \in S : Append(v, x) \in A
    OBVIOUS
  <2>2. QED
    BY <1>1, <2>1
<1>3. \A k \in 1..n, v \in A : G[<<k, v>>] = IF s[k] \in set THEN Append(v, s[k]) ELSE v
  <2>1. ASSUME NEW k \in 1..n, NEW v \in A
        PROVE  <<k, v>> \in (1..n) \X A /\ <<k, v>>[1] = k /\ <<k, v>>[2] = v
    <3> HIDE DEF A, n
    <3>1. QED
      BY PairIs
  <2>2. QED
    BY <2>1, Zenon
<1>4. iter = Step(iter)
  <2>1. PICK h : Iterates(h, n, A, <<>>, G)
    BY <1>1, <1>2, IterationExists
  <2>2. /\ h \in [SUBSET (1..n) -> A]
        /\ \A q \in SUBSET (1..n) : h[q] = IF q = {} THEN <<>> ELSE G[<<Max(q), h[q \ {Max(q)}]>>]
    BY <2>1 DEF Iterates
  <2>3. \A q \in SUBSET (1..n) : q # {} => Max(q) \in 1..n /\ h[q \ {Max(q)}] \in A
    BY <1>1, <2>2, MaxIn
  <2> HIDE DEF G
  <2>4. ASSUME NEW q \in SUBSET (1..n)
        PROVE  h[q] = Step(h)[q]
    <3>1. CASE q = {}
      BY <1>1, <2>2, <3>1
    <3>2. CASE q # {}
      BY <1>1, <1>3, <2>2, <2>3, <3>2
    <3>3. QED
      BY <3>1, <3>2
  <2>5. h = Step(h)
    BY <1>1, <2>2, <2>4
  <2>6. QED
    BY <2>5, Zenon
<1>5. Those(s, set) = iter[1..n]
  BY <1>1 DEF Those, FoldLeft, MapThenFoldSet
<1> HIDE DEF iter, G
<1>6. iter[{}] = <<>>
  BY <1>4
<1>7. ASSUME NEW k \in 1..n, iter[1..k-1] \in A
      PROVE  iter[1..k] = G[<<k, iter[1..k-1]>>]
  <2>1. /\ Max(1..k) = k /\ (1..k) # {} /\ (1..k) \ {Max(1..k)} = 1..k-1
        /\ (1..k) \in SUBSET DOMAIN s
    BY <1>1, MaxOfPrefix
  <2>2. iter[1..k] = Step(iter)[1..k]
    BY <1>4
  <2>3. iter[1..k] = IF s[k] \in set THEN Append(iter[1..k-1], s[k]) ELSE iter[1..k-1]
    BY <2>1, <2>2
  <2>4. QED
    BY <1>3, <1>7, <2>3
<1>8. PICK F : IsRun(F, iter, n, A, <<>>, G)
  <2>1. n \in Nat /\ <<>> \in A
    BY <1>1
  <2>2. RunsOver(iter, n, A, <<>>, G)
    BY <1>6, <1>7 DEF RunsOver
  <2>3. QED
    BY <2>1, <2>2, <1>2, PrefixRuns
<1>9. F \in [0..n -> A] /\ F[n] = iter[1..n] /\ F[0] = <<>> /\ \A k \in 1..n : F[k] = G[<<k, F[k-1]>>]
  BY <1>8 DEF IsRun
<1>10. \A k \in 1..n : F[k-1] \in A
  BY <1>1, <1>9
<1>11. \A k \in 1..n : F[k] = IF s[k] \in set THEN Append(F[k-1], s[k]) ELSE F[k-1]
  BY <1>3, <1>9, <1>10
<1>12. ThoseRun(F, s, set, S)
  BY <1>5, <1>9, <1>11 DEF ThoseRun
<1>13. QED
  BY <1>12

(* The members of s in the set are at increasing places of s, all of them. *)
PlacesOf(idx, r, s, set, k) ==
  /\ idx \in [1..Len(r) -> 1..k]
  /\ \A i \in 1..Len(r) : r[i] = s[idx[i]] /\ s[idx[i]] \in set
  /\ \A i, j \in 1..Len(r) : i < j => idx[i] < idx[j]
  /\ \A m \in 1..k : s[m] \in set => \E i \in 1..Len(r) : idx[i] = m

LEMMA ThosePlaces ==
  ASSUME NEW S, NEW set, NEW s \in Seq(S)
  PROVE  /\ Those(s, set) \in Seq(S)
         /\ \E idx : PlacesOf(idx, Those(s, set), s, set, Len(s))
<1> DEFINE n == Len(s)
<1>r. PICK F : ThoseRun(F, s, set, S)
  BY ThoseSteps
<1>1. /\ F \in [0..n -> Seq(S)] /\ F[0] = <<>> /\ F[n] = Those(s, set)
      /\ \A k \in 1..n : F[k] = IF s[k] \in set THEN Append(F[k-1], s[k]) ELSE F[k-1]
  BY <1>r DEF ThoseRun
<1>2. n \in Nat /\ \A k \in 1..n : s[k] \in S
  OBVIOUS
<1> DEFINE T == {k \in Nat : k =< n => \E idx : PlacesOf(idx, F[k], s, set, k)}
<1> HIDE DEF n
<1>3. 0 \in T
  <2>1. F[0] = <<>> /\ Len(F[0]) = 0 /\ 1..0 = {} /\ 1..Len(F[0]) = {}
    BY <1>1
  <2>2. PlacesOf([i \in {} |-> 0], F[0], s, set, 0)
    BY <2>1 DEF PlacesOf
  <2>3. QED
    BY <2>2
<1>4. ASSUME NEW k \in Nat, k \in T
      PROVE  k + 1 \in T
  <2> SUFFICES ASSUME k + 1 =< n PROVE \E idx : PlacesOf(idx, F[k+1], s, set, k + 1)
    OBVIOUS
  <2>1. PICK idx : PlacesOf(idx, F[k], s, set, k)
    BY <1>4, <1>2
  <2>2. k + 1 \in 1..n /\ (k + 1) - 1 = k /\ k \in 0..n
    BY <1>2
  <2>3. F[k] \in Seq(S) /\ s[k+1] \in S
    BY <1>1, <1>2, <2>2
  <2>4. F[k+1] = IF s[k+1] \in set THEN Append(F[k], s[k+1]) ELSE F[k]
    BY <1>1, <2>2
  <2> DEFINE r == F[k]
             l == Len(r)
  <2>5. /\ idx \in [1..l -> 1..k]
        /\ \A i \in 1..l : r[i] = s[idx[i]] /\ s[idx[i]] \in set
        /\ \A i, j \in 1..l : i < j => idx[i] < idx[j]
        /\ \A m \in 1..k : s[m] \in set => \E i \in 1..l : idx[i] = m
    BY <2>1 DEF PlacesOf
  <2>6. l \in Nat
    BY <2>3
  <2>7. CASE s[k+1] \in set
    <3> DEFINE q == Append(r, s[k+1])
               jdx == [i \in 1..l+1 |-> IF i = l + 1 THEN k + 1 ELSE idx[i]]
    <3>1. Len(q) = l + 1 /\ q[l+1] = s[k+1] /\ \A i \in 1..l : q[i] = r[i]
      BY <2>3
    <3>2. \A i \in 1..l+1 : i # l + 1 => i \in 1..l
      BY <2>6
    <3> HIDE DEF r, l
    <3>3. \A i \in 1..l : idx[i] \in 1..k /\ idx[i] < k + 1
      <4>1. \A i \in 1..l : idx[i] \in 1..k
        BY <2>5
      <4>2. \A i \in 1..k : i < k + 1
        OBVIOUS
      <4>3. QED
        BY <4>1, <4>2
    <3>4. jdx \in [1..l+1 -> 1..k+1]
      <4>1. \A i \in 1..k : i \in 1..k+1
        OBVIOUS
      <4>2. k + 1 \in 1..k+1
        OBVIOUS
      <4>3. QED
        BY <3>2, <3>3, <4>1, <4>2
    <3>5. \A i \in 1..l : i \in 1..l+1 /\ i # l + 1
      BY <2>6
    <3>6. l + 1 \in 1..l+1
      BY <2>6
    <3>7. ASSUME NEW i \in 1..l+1
          PROVE  q[i] = s[jdx[i]] /\ s[jdx[i]] \in set
      BY <2>5, <2>7, <3>1, <3>2
    <3>8. ASSUME NEW i \in 1..l+1, NEW j \in 1..l+1, i < j
          PROVE  jdx[i] < jdx[j]
      <4>1. i \in 1..l
        BY <2>6, <3>8
      <4>2. CASE j = l + 1
        BY <3>3, <3>5, <4>1, <4>2
      <4>3. CASE j # l + 1
        BY <2>5, <3>2, <3>5, <3>8, <4>1, <4>3
      <4>4. QED
        BY <4>2, <4>3
    <3>9. ASSUME NEW m \in 1..k+1, s[m] \in set
          PROVE  \E i \in 1..l+1 : jdx[i] = m
      <4>1. CASE m = k + 1
        BY <3>6, <4>1
      <4>2. CASE m # k + 1
        <5>1. m \in 1..k
          BY <4>2
        <5>2. PICK i \in 1..l : idx[i] = m
          BY <2>5, <3>9, <5>1
        <5>3. QED
          BY <3>5, <5>2
      <4>3. QED
        BY <4>1, <4>2
    <3> HIDE DEF jdx, q
    <3>10. PlacesOf(jdx, q, s, set, k + 1)
      BY <3>1, <3>4, <3>7, <3>8, <3>9 DEF PlacesOf
    <3>11. QED
      BY <2>4, <2>7, <3>10 DEF q, r
  <2>8. CASE s[k+1] \notin set
    <3>1. \A m \in 1..k+1 : m # k + 1 => m \in 1..k
      OBVIOUS
    <3>2. \A m \in 1..k : m \in 1..k+1
      OBVIOUS
    <3> HIDE DEF l
    <3>3. idx \in [1..l -> 1..k+1]
      BY <2>5, <3>2
    <3>4. \A m \in 1..k+1 : s[m] \in set => \E i \in 1..l : idx[i] = m
      BY <2>5, <2>8, <3>1
    <3>5. F[k+1] = r
      BY <2>4, <2>8
    <3>6. PlacesOf(idx, r, s, set, k + 1)
      BY <2>5, <3>3, <3>4 DEF PlacesOf, l
    <3>7. QED
      BY <3>5, <3>6
  <2>9. QED
    BY <2>7, <2>8
<1>5. n \in T
  <2> HIDE DEF T
  <2>1. QED
    BY <1>2, <1>3, <1>4, SetInduction
<1>6. n \in 0..n
  BY <1>2
<1>7. QED
  BY <1>1, <1>2, <1>5, <1>6 DEF n

LEMMA ThoseAre ==
  ASSUME NEW S, NEW set, NEW s \in Seq(S)
  PROVE  /\ Those(s, set) \in Seq(S)
         /\ ToSet(Those(s, set)) = ToSet(s) \intersect set
         /\ (Those(s, set) = <<>> <=> ToSet(s) \intersect set = {})
         /\ Those(s, set) # <<>> => Those(s, set)[1] \in ToSet(s) \intersect set
<1> DEFINE r == Those(s, set)
<1>1. PICK idx : PlacesOf(idx, r, s, set, Len(s))
  BY ThosePlaces
<1>2. r \in Seq(S)
  BY ThosePlaces
<1>3. /\ idx \in [1..Len(r) -> 1..Len(s)]
      /\ \A i \in 1..Len(r) : r[i] = s[idx[i]] /\ s[idx[i]] \in set
      /\ \A m \in 1..Len(s) : s[m] \in set => \E i \in 1..Len(r) : idx[i] = m
  BY <1>1 DEF PlacesOf
<1> HIDE DEF r
<1>4. DOMAIN r = 1..Len(r) /\ DOMAIN s = 1..Len(s)
  BY <1>2
<1>5. ToSet(r) \subseteq ToSet(s) \intersect set
  BY <1>3, <1>4 DEF ToSet
<1>6. ToSet(s) \intersect set \subseteq ToSet(r)
  BY <1>3, <1>4 DEF ToSet
<1>7. r = <<>> => ToSet(r) = {}
  BY DEF ToSet
<1>8. r # <<>> => r[1] \in ToSet(r)
  <2>1. r # <<>> => 1 \in DOMAIN r
    BY <1>2
  <2>2. QED
    BY <2>1 DEF ToSet
<1>9. QED
  BY <1>2, <1>5, <1>6, <1>7, <1>8 DEF r

-----------------------------------------------------------------------------
(* What a name stands for among those that are known.                      *)
LEMMA FindSimilarIs ==
  ASSUME NEW S, NEW known \in Seq(S), NEW n
  PROVE  LET found == FindSimilar(n, known) IN
         /\ n \in ToSet(known) => found = <<n>>
         /\ found = <<>> <=> n \notin ToSet(known) /\ \A e \in ToSet(known) : ~ Similar(n, e)
         /\ found # <<>> => /\ found[1] \in ToSet(known)
                            /\ n = found[1] \/ (n \notin ToSet(known) /\ Similar(n, found[1]))
<1> DEFINE alike == {k \in ToSet(known) : Similar(n, k)}
           ones == Those(known, alike)
<1>1. (ones = <<>> <=> ToSet(known) \intersect alike = {})
      /\ (ones # <<>> => ones[1] \in ToSet(known) \intersect alike)
  BY ThoseAre
<1>2. ones # <<>> => ones[1] \in ToSet(known) /\ Similar(n, ones[1])
  BY <1>1
<1>3. ones = <<>> <=> \A e \in ToSet(known) : ~ Similar(n, e)
  BY <1>1
<1>4. FindSimilar(n, known) = IF n \in ToSet(known) THEN <<n>>
                              ELSE IF ones # <<>> THEN <<ones[1]>> ELSE <<>>
  BY DEF FindSimilar, Alike
<1> HIDE DEF ones
<1>5. \A x : <<x>> # <<>> /\ <<x>>[1] = x
  OBVIOUS
<1>6. CASE n \in ToSet(known)
  BY <1>4, <1>5, <1>6
<1>7. CASE n \notin ToSet(known)
  BY <1>2, <1>3, <1>4, <1>5, <1>7
<1>8. QED
  BY <1>6, <1>7

EntitiesRun(F, names, S) ==
  /\ F \in [0..Len(names) -> Seq(S)]
  /\ F[0] = <<>> /\ F[Len(names)] = Entities(names)
  /\ \A k \in 1..Len(names) :
       F[k] = IF names[k] = "" \/ FindSimilar(names[k], F[k-1]) # <<>> THEN F[k-1]
              ELSE Append(F[k-1], names[k])

LEMMA EntitiesSteps ==
  ASSUME NEW S, NEW names \in Seq(S)
  PROVE  \E F : EntitiesRun(F, names, S)
<1> DEFINE s == names
           n == Len(s)
           A == Seq(S)
           G == [p \in (1..n) \X A |->
                   IF s[p[1]] = "" \/ FindSimilar(s[p[1]], p[2]) # <<>> THEN p[2]
                   ELSE Append(p[2], s[p[1]])]
           Step(z) == [q \in SUBSET DOMAIN s |->
                         IF q = {} THEN <<>>
                         ELSE IF s[Max(q)] = "" \/ FindSimilar(s[Max(q)], z[q \ {Max(q)}]) # <<>>
                              THEN z[q \ {Max(q)}] ELSE Append(z[q \ {Max(q)}], s[Max(q)])]
           iter == CHOOSE z : z = Step(z)
<1>1. n \in Nat /\ DOMAIN s = 1..n /\ <<>> \in A /\ \A k \in 1..n : s[k] \in S
  BY LenProperties, ElementOfSeq, EmptySeq
<1>2. G \in [(1..n) \X A -> A]
  <2>1. ASSUME NEW p \in (1..n) \X A
        PROVE  G[p] \in A
    <3>1. p[1] \in 1..n /\ p[2] \in A
      OBVIOUS
    <3>2. s[p[1]] \in S
      BY <1>1, <3>1
    <3>3. Append(p[2], s[p[1]]) \in A
      BY <3>1, <3>2, AppendProperties
    <3> HIDE DEF A
    <3>4. QED
      BY <3>1, <3>3
  <2> HIDE DEF A
  <2>2. QED
    BY <2>1


<1>3. \A k \in 1..n, v \in A :
        G[<<k, v>>] = IF s[k] = "" \/ FindSimilar(s[k], v) # <<>> THEN v ELSE Append(v, s[k])
  <2>1. ASSUME NEW k \in 1..n, NEW v \in A
        PROVE  <<k, v>> \in (1..n) \X A /\ <<k, v>>[1] = k /\ <<k, v>>[2] = v
    <3> HIDE DEF A, n
    <3>1. QED
      BY PairIs
  <2>2. QED
    BY <2>1, Zenon
<1>4. iter = Step(iter)
  <2>1. PICK h : Iterates(h, n, A, <<>>, G)
    BY <1>1, <1>2, IterationExists
  <2>2. /\ h \in [SUBSET (1..n) -> A]
        /\ \A q \in SUBSET (1..n) : h[q] = IF q = {} THEN <<>> ELSE G[<<Max(q), h[q \ {Max(q)}]>>]
    BY <2>1 DEF Iterates
  <2>3. \A q \in SUBSET (1..n) : q # {} => Max(q) \in 1..n /\ h[q \ {Max(q)}] \in A
    BY <1>1, <2>2, MaxIn
  <2> HIDE DEF G
  <2>4. ASSUME NEW q \in SUBSET (1..n)
        PROVE  h[q] = Step(h)[q]
    <3>1. CASE q = {}
      BY <1>1, <2>2, <3>1
    <3>2. CASE q # {}
      BY <1>1, <1>3, <2>2, <2>3, <3>2
    <3>3. QED
      BY <3>1, <3>2
  <2>5. h = Step(h)
    BY <1>1, <2>2, <2>4
  <2>6. QED
    BY <2>5, Zenon
<1>5. Entities(s) = iter[1..n]
  BY <1>1 DEF Entities, FoldLeft, MapThenFoldSet
<1> HIDE DEF iter, G
<1>6. iter[{}] = <<>>
  BY <1>4
<1>7. ASSUME NEW k \in 1..n, iter[1..k-1] \in A
      PROVE  iter[1..k] = G[<<k, iter[1..k-1]>>]
  <2>1. /\ Max(1..k) = k /\ (1..k) # {} /\ (1..k) \ {Max(1..k)} = 1..k-1
        /\ (1..k) \in SUBSET DOMAIN s
    BY <1>1, MaxOfPrefix
  <2>2. iter[1..k] = Step(iter)[1..k]
    BY <1>4
  <2>3. iter[1..k] = IF s[k] = "" \/ FindSimilar(s[k], iter[1..k-1]) # <<>> THEN iter[1..k-1]
                     ELSE Append(iter[1..k-1], s[k])
    BY <2>1, <2>2
  <2>4. QED
    BY <1>3, <1>7, <2>3
<1>8. PICK F : IsRun(F, iter, n, A, <<>>, G)
  <2>1. n \in Nat /\ <<>> \in A
    BY <1>1
  <2>2. RunsOver(iter, n, A, <<>>, G)
    BY <1>6, <1>7 DEF RunsOver
  <2>3. QED
    BY <2>1, <2>2, <1>2, PrefixRuns
<1>9. F \in [0..n -> A] /\ F[n] = iter[1..n] /\ F[0] = <<>> /\ \A k \in 1..n : F[k] = G[<<k, F[k-1]>>]
  BY <1>8 DEF IsRun
<1>10. \A k \in 1..n : F[k-1] \in A
  BY <1>1, <1>9
<1>11. \A k \in 1..n : F[k] = IF s[k] = "" \/ FindSimilar(s[k], F[k-1]) # <<>> THEN F[k-1]
                              ELSE Append(F[k-1], s[k])
  BY <1>3, <1>9, <1>10
<1>12. EntitiesRun(F, s, S)
  BY <1>5, <1>9, <1>11 DEF EntitiesRun
<1>13. QED
  BY <1>12

(* No entity is another or like an earlier one; k of the names are met.    *)
Apart(known) ==
  \A i, j \in DOMAIN known : i < j => known[i] # known[j] /\ ~ Similar(known[j], known[i])

Met(known, names, k) ==
  \A m \in 1..k : names[m] # "" =>
    names[m] \in ToSet(known) \/ \E e \in ToSet(known) : Similar(names[m], e)

LEMMA AppendApart ==
  ASSUME NEW S, NEW known \in Seq(S), NEW n \in S, Apart(known), n \notin ToSet(known),
         \A e \in ToSet(known) : ~ Similar(n, e)
  PROVE  Apart(Append(known, n))
<1> DEFINE r == Append(known, n)
<1>1. /\ Len(known) \in Nat /\ DOMAIN known = 1..Len(known) /\ DOMAIN r = 1..Len(known)+1
      /\ r[Len(known)+1] = n /\ \A i \in 1..Len(known) : r[i] = known[i] /\ known[i] \in ToSet(known)
  BY DEF ToSet
<1> HIDE DEF r
<1>2. ASSUME NEW i \in DOMAIN r, NEW j \in DOMAIN r, i < j
      PROVE  r[i] # r[j] /\ ~ Similar(r[j], r[i])
  <2>1. i \in 1..Len(known)
    BY <1>1, <1>2
  <2>2. CASE j = Len(known) + 1
    BY <1>1, <2>1, <2>2
  <2>3. CASE j # Len(known) + 1
    <3>1. j \in 1..Len(known)
      BY <1>1, <2>3
    <3>2. QED
      BY <1>1, <1>2, <2>1, <3>1 DEF Apart
  <2>4. QED
    BY <2>2, <2>3
<1>3. QED
  BY <1>2 DEF Apart, r

LEMMA ToSetAppend ==
  ASSUME NEW S, NEW s \in Seq(S), NEW x \in S
  PROVE  ToSet(Append(s, x)) = ToSet(s) \union {x}
<1> DEFINE r == Append(s, x)
<1>1. /\ Len(s) \in Nat /\ DOMAIN s = 1..Len(s) /\ DOMAIN r = 1..Len(s)+1
      /\ r[Len(s)+1] = x /\ \A i \in 1..Len(s) : r[i] = s[i]
  OBVIOUS
<1>2. \A i \in 1..Len(s)+1 : i \in 1..Len(s) \/ i = Len(s) + 1
  BY <1>1
<1>3. \A i \in 1..Len(s) : i \in 1..Len(s)+1
  BY <1>1
<1>4. Len(s) + 1 \in 1..Len(s)+1
  BY <1>1
<1> HIDE DEF r
<1>5. ToSet(r) = ToSet(s) \union {x}
  BY <1>1, <1>2, <1>3, <1>4 DEF ToSet
<1>6. QED
  BY <1>5 DEF r

LEMMA EntitiesAre ==
  ASSUME NEW S, NEW names \in Seq(S)
  PROVE  /\ Entities(names) \in Seq(S) /\ Apart(Entities(names))
         /\ Met(Entities(names), names, Len(names))
<1> DEFINE n == Len(names)
<1>r. PICK F : EntitiesRun(F, names, S)
  BY EntitiesSteps
<1>1. /\ F \in [0..n -> Seq(S)] /\ F[0] = <<>> /\ F[n] = Entities(names)
      /\ \A k \in 1..n : F[k] = IF names[k] = "" \/ FindSimilar(names[k], F[k-1]) # <<>> THEN F[k-1]
                                ELSE Append(F[k-1], names[k])
  BY <1>r DEF EntitiesRun
<1>2. n \in Nat /\ \A k \in 1..n : names[k] \in S
  OBVIOUS
<1> DEFINE U == {k \in Nat : k =< n => Apart(F[k]) /\ Met(F[k], names, k)}
<1> HIDE DEF n
<1>3. 0 \in U
  <2>1. Apart(<<>>)
    <3>1. DOMAIN <<>> = {}
      OBVIOUS
    <3>2. QED
      BY <3>1 DEF Apart
  <2>2. Met(<<>>, names, 0)
    <3>1. 1..0 = {}
      OBVIOUS
    <3>2. QED
      BY <3>1 DEF Met
  <2>3. QED
    BY <1>1, <2>1, <2>2
<1>4. ASSUME NEW k \in Nat, k \in U
      PROVE  k + 1 \in U
  <2> SUFFICES ASSUME k + 1 =< n PROVE Apart(F[k+1]) /\ Met(F[k+1], names, k + 1)
    OBVIOUS
  <2>1. k + 1 \in 1..n /\ (k + 1) - 1 = k /\ k \in 0..n
    BY <1>2
  <2> DEFINE known == F[k]
             x == names[k+1]
  <2>a. Apart(known) /\ Met(known, names, k)
    <3>1. k =< n
      BY <2>1
    <3>2. QED
      BY <1>4, <3>1
  <2>b. known \in Seq(S) /\ x \in S
    BY <1>1, <1>2, <2>1
  <2>2. known \in Seq(S) /\ x \in S /\ Apart(known) /\ Met(known, names, k)
    BY <2>a, <2>b
  <2>3. F[k+1] = IF x = "" \/ FindSimilar(x, known) # <<>> THEN known ELSE Append(known, x)
    BY <1>1, <2>1
  <2> HIDE DEF known
  <2>4. \A m \in 1..k+1 : m \in 1..k \/ m = k + 1
    OBVIOUS
  <2>5. CASE x = "" \/ FindSimilar(x, known) # <<>>
    <3>1. x # "" => x \in ToSet(known) \/ \E e \in ToSet(known) : Similar(x, e)
      BY <2>2, <2>5, FindSimilarIs
    <3>2. Met(known, names, k + 1)
      BY <2>2, <2>4, <3>1 DEF Met
    <3>3. QED
      BY <2>2, <2>3, <2>5, <3>2
  <2>6. CASE ~ (x = "" \/ FindSimilar(x, known) # <<>>)
    <3>1. x \notin ToSet(known) /\ \A e \in ToSet(known) : ~ Similar(x, e)
      BY <2>2, <2>6, FindSimilarIs
    <3>2. Apart(Append(known, x))
      BY <2>2, <3>1, AppendApart
    <3>3. ToSet(Append(known, x)) = ToSet(known) \union {x}
      BY <2>2, ToSetAppend
    <3>4. Met(Append(known, x), names, k + 1)
      BY <2>2, <2>4, <3>3 DEF Met
    <3>5. QED
      BY <2>3, <2>6, <3>2, <3>4
  <2>7. QED
    BY <2>5, <2>6
<1>5. n \in U
  <2> HIDE DEF U
  <2>1. QED
    BY <1>2, <1>3, <1>4, SetInduction
<1>6. n \in 0..n /\ n =< n
  BY <1>2
<1>7. F[n] \in Seq(S) /\ Apart(F[n]) /\ Met(F[n], names, n)
  BY <1>1, <1>5, <1>6
<1>8. QED
  BY <1>1, <1>7 DEF n

-----------------------------------------------------------------------------
LEMMA EdgesAre ==
  ASSUME NEW S, NEW known \in Seq(S), NEW links, IsList(links),
         \A x \in ToSet(links) : x = <<x[1], x[2]>>
  PROVE  LET edges == Edges(links, known)
             standsFor(n, e) == n = e \/ (n \notin ToSet(known) /\ Similar(n, e))
         IN  /\ \A i \in DOMAIN edges :
                  /\ ToSet(edges[i]) \subseteq ToSet(known)
                  /\ \E x \in ToSet(links) : standsFor(x[1], edges[i][1]) /\ standsFor(x[2], edges[i][2])
             /\ \A x \in ToSet(links) : ToSet(x) \subseteq ToSet(known) => x \in ToSet(edges)
<1> DEFINE ends == {x \in ToSet(links) :
                      FindSimilar(x[1], known) # <<>> /\ FindSimilar(x[2], known) # <<>>}
           found == Those(links, ends)
           edges == Edges(links, known)
           at(n) == FindSimilar(n, known)[1]
<1>1. links \in Seq(ToSet(links))
  BY DEF IsList
<1>2. found \in Seq(ToSet(links)) /\ ToSet(found) = ToSet(links) \intersect ends
  BY <1>1, ThoseAre
<1>3. edges = [i \in DOMAIN found |-> <<at(found[i][1]), at(found[i][2])>>]
  BY DEF Edges
<1> HIDE DEF found, edges
<1>4. ASSUME NEW i \in DOMAIN edges
      PROVE  /\ ToSet(edges[i]) \subseteq ToSet(known)
             /\ \E x \in ToSet(links) :
                  /\ x[1] = edges[i][1] \/ (x[1] \notin ToSet(known) /\ Similar(x[1], edges[i][1]))
                  /\ x[2] = edges[i][2] \/ (x[2] \notin ToSet(known) /\ Similar(x[2], edges[i][2]))
  <2> DEFINE x == found[i]
  <2>1. i \in DOMAIN found /\ edges[i] = <<at(x[1]), at(x[2])>>
    BY <1>3, <1>4
  <2>2. x \in ToSet(links) /\ FindSimilar(x[1], known) # <<>> /\ FindSimilar(x[2], known) # <<>>
    BY <1>2, <2>1 DEF ToSet
  <2>3. /\ at(x[1]) \in ToSet(known)
        /\ x[1] = at(x[1]) \/ (x[1] \notin ToSet(known) /\ Similar(x[1], at(x[1])))
    BY <2>2, FindSimilarIs
  <2>4. /\ at(x[2]) \in ToSet(known)
        /\ x[2] = at(x[2]) \/ (x[2] \notin ToSet(known) /\ Similar(x[2], at(x[2])))
    BY <2>2, FindSimilarIs
  <2> HIDE DEF at, x
  <2>5. edges[i][1] = at(x[1]) /\ edges[i][2] = at(x[2])
    BY <2>1
  <2>6. ToSet(edges[i]) \subseteq ToSet(known)
    BY <2>1, <2>3, <2>4 DEF ToSet
  <2>7. QED
    BY <2>2, <2>3, <2>4, <2>5, <2>6
<1>5. ASSUME NEW x \in ToSet(links), ToSet(x) \subseteq ToSet(known)
      PROVE  x \in ToSet(edges)
  <2>1. x = <<x[1], x[2]>>
    OBVIOUS
  <2>2. \A a, b : 1 \in DOMAIN <<a, b>> /\ 2 \in DOMAIN <<a, b>>
    OBVIOUS
  <2>3. 1 \in DOMAIN x /\ 2 \in DOMAIN x
    BY <2>1, <2>2
  <2>4. x[1] \in ToSet(known) /\ x[2] \in ToSet(known)
    BY <1>5, <2>3 DEF ToSet
  <2>5. FindSimilar(x[1], known) = <<x[1]>> /\ FindSimilar(x[2], known) = <<x[2]>>
    BY <2>4, FindSimilarIs
  <2>6. \A a : <<a>> # <<>> /\ <<a>>[1] = a
    OBVIOUS
  <2>7. FindSimilar(x[1], known) # <<>> /\ FindSimilar(x[2], known) # <<>>
        /\ at(x[1]) = x[1] /\ at(x[2]) = x[2]
    BY <2>5, <2>6
  <2>8. x \in ToSet(found)
    BY <1>2, <2>7
  <2>9. PICK i \in DOMAIN found : found[i] = x
    BY <2>8 DEF ToSet
  <2>10. edges[i] = <<x[1], x[2]>> /\ i \in DOMAIN edges
    BY <1>3, <2>7, <2>9
  <2>11. QED
    BY <2>1, <2>10 DEF ToSet
<1>6. QED
  BY <1>4, <1>5 DEF edges

LEMMA ExtractionIs ==
  ASSUME NEW reply, IsList(reply.names), IsList(reply.links),
         \A x \in ToSet(reply.links) : x = <<x[1], x[2]>>
  PROVE  ExtractionIsClosed(reply, Extracted(reply))
<1>1. CASE reply.json = "broken"
  <2> DEFINE a == [entities |-> <<>>, edges |-> <<>>]
  <2>1. Extracted(reply) = a /\ a.entities = <<>> /\ a.edges = <<>> /\ DOMAIN <<>> = {}
    BY <1>1 DEF Extracted
  <2> HIDE DEF a
  <2>2. DOMAIN a.entities = {} /\ DOMAIN a.edges = {} /\ reply.json # "sound"
    BY <1>1, <2>1
  <2>3. ExtractionIsClosed(reply, a)
    BY <2>2 DEF ExtractionIsClosed
  <2>4. QED
    BY <2>1, <2>3
<1>2. CASE reply.json # "broken"
  <2> DEFINE known == Entities(reply.names)
             edges == Edges(reply.links, known)
             a == [entities |-> known, edges |-> edges]
             S == ToSet(reply.names)
  <2>1. Extracted(reply) = a /\ a.entities = known /\ a.edges = edges
    BY <1>2 DEF Extracted
  <2>2. reply.names \in Seq(S)
    BY DEF IsList
  <2>3. known \in Seq(S) /\ Apart(known) /\ Met(known, reply.names, Len(reply.names))
    BY <2>2, EntitiesAre
  <2>4. /\ \A i \in DOMAIN edges :
             /\ ToSet(edges[i]) \subseteq ToSet(known)
             /\ \E x \in ToSet(reply.links) :
                  /\ x[1] = edges[i][1] \/ (x[1] \notin ToSet(known) /\ Similar(x[1], edges[i][1]))
                  /\ x[2] = edges[i][2] \/ (x[2] \notin ToSet(known) /\ Similar(x[2], edges[i][2]))
        /\ \A x \in ToSet(reply.links) : ToSet(x) \subseteq ToSet(known) => x \in ToSet(edges)
    <3> HIDE DEF known
    <3>1. QED
      BY <2>3, EdgesAre
  <2>5. \A n \in ToSet(reply.names) \ {""} :
          n \in ToSet(known) \/ \E e \in ToSet(known) : Similar(n, e)
    <3>1. ASSUME NEW n \in ToSet(reply.names) \ {""}
          PROVE  n \in ToSet(known) \/ \E e \in ToSet(known) : Similar(n, e)
      <4>1. PICK m \in DOMAIN reply.names : reply.names[m] = n
        BY DEF ToSet
      <4>2. m \in 1..Len(reply.names)
        <5>1. DOMAIN reply.names = 1..Len(reply.names)
          BY <2>2, LenProperties
        <5>2. QED
          BY <5>1
      <4> HIDE DEF known
      <4>3. QED
        BY <2>3, <4>1, <4>2 DEF Met
    <3>2. QED
      BY <3>1
  <2>6. \A i, j \in DOMAIN known : i < j => known[i] # known[j] /\ ~ Similar(known[j], known[i])
    BY <2>3 DEF Apart
  <2> HIDE DEF known, edges, a
  <2>7. ExtractionIsClosed(reply, a)
    BY <2>1, <2>4, <2>5, <2>6, Zenon DEF ExtractionIsClosed
  <2>8. QED
    BY <2>1, <2>7
<1>3. QED
  BY <1>1, <1>2

-----------------------------------------------------------------------------
(* A step either answers the call or changes nothing.                      *)
LEMMA ExtractSteps ==
  ASSUME [Next]_<<call, answer>>
  PROVE  /\ call' = call
         /\ call.op = "extract" => answer' = answer \/ answer' = <<Extracted(call.reply)>>
BY DEF Next, Traverse, Cut, Evidence, Compile, Read, Extract, Evolve, Remember, Answer

(* An extraction joins only what it extracts, whatever the model answers.  *)
THEOREM ExtractionCloses == Spec => []ExtractionClosed
<1> DEFINE Inv == call \in Calls /\ ExtractionClosed
<1>1. Init => Inv
  BY DEF Init, ExtractionClosed, Answered
<1>2. Inv /\ [Next]_<<call, answer>> => Inv'
  <2> SUFFICES ASSUME Inv, [Next]_<<call, answer>>
               PROVE  Inv'
    OBVIOUS
  <2>1. call' = call /\ (call.op = "extract" => answer' = answer \/ answer' = <<Extracted(call.reply)>>)
    BY ExtractSteps
  <2>2. CASE call.op # "extract"
    BY <2>1, <2>2 DEF ExtractionClosed, Answered
  <2>3. CASE call.op = "extract" /\ answer' = answer
    BY <2>1, <2>3 DEF ExtractionClosed, Answered
  <2>4. CASE call.op = "extract" /\ answer' = <<Extracted(call.reply)>>
    <3>1. ExtractionIsClosed(call.reply, Extracted(call.reply))
      BY <2>4, CallsAreSound, ExtractionIs
    <3>2. ExtractionIsClosed(call.reply, answer[1])'
      <4>1. answer'[1] = Extracted(call.reply)
        BY <2>4
      <4>2. ExtractionIsClosed(call'.reply, answer'[1])
        BY <2>1, <3>1, <4>1
      <4>3. QED
        BY <4>2
    <3>3. QED
      BY <2>1, <3>2 DEF ExtractionClosed
  <2>5. QED
    BY <2>1, <2>2, <2>3, <2>4
<1>3. QED
  BY <1>1, <1>2, PTL DEF Spec

-----------------------------------------------------------------------------
LEMMA BijectionCounts ==
  ASSUME NEW S, NEW T, NEW f \in [S -> T], IsFiniteSet(S),
         \A a, b \in S : f[a] = f[b] => a = b,
         \A t \in T : \E a \in S : f[a] = t
  PROVE  IsFiniteSet(T) /\ Cardinality(S) = Cardinality(T)
<1>1. f \in Injection(S, T)
  BY DEF Injection, IsInjective
<1>2. f \in Surjection(S, T)
  BY DEF Surjection
<1>3. ExistsBijection(S, T)
  BY <1>1, <1>2 DEF ExistsBijection, Bijection
<1>4. QED
  BY <1>3, FS_Bijection

LEMMA PositionsCount ==
  ASSUME NEW n \in Nat
  PROVE  IsFiniteSet(1..n) /\ Cardinality(1..n) = n
<1>1. 1 \in Int /\ n \in Int /\ (IF 1 > n THEN 0 ELSE n - 1 + 1) = n
  OBVIOUS
<1>2. QED
  BY <1>1, FS_Interval

LEMMA PositionsFinite ==
  ASSUME NEW n \in Nat, NEW P \in SUBSET (1..n)
  PROVE  IsFiniteSet(P) /\ Cardinality(P) \in Nat /\ Cardinality(P) =< n
<1>1. IsFiniteSet(1..n) /\ Cardinality(1..n) = n
  BY FS_Interval
<1>2. IsFiniteSet(P) /\ Cardinality(P) =< n
  BY <1>1, FS_Subset
<1>3. QED
  BY <1>2, FS_CardinalityType

(* A selection has as many places for its members as what it is taken from.*)
PlacesIn(s, A) == {m \in DOMAIN s : s[m] \in A}

LEMMA ThoseCount ==
  ASSUME NEW S, NEW set, NEW s \in Seq(S), NEW A \in SUBSET set
  PROVE  Cardinality(PlacesIn(Those(s, set), A)) = Cardinality(PlacesIn(s, A))
<1> DEFINE r == Those(s, set)
           P == {k \in DOMAIN r : r[k] \in A}
           Q == {m \in DOMAIN s : s[m] \in A}
<1>1. PICK idx : PlacesOf(idx, r, s, set, Len(s))
  BY ThosePlaces
<1>2. r \in Seq(S)
  BY ThosePlaces
<1> HIDE DEF r
<1>3. DOMAIN r = 1..Len(r) /\ Len(r) \in Nat /\ DOMAIN s = 1..Len(s)
  BY <1>2
<1>4. /\ idx \in [1..Len(r) -> 1..Len(s)]
      /\ \A i \in 1..Len(r) : r[i] = s[idx[i]]
      /\ \A i, j \in 1..Len(r) : i < j => idx[i] < idx[j]
      /\ \A m \in 1..Len(s) : s[m] \in set => \E i \in 1..Len(r) : idx[i] = m
  BY <1>1 DEF PlacesOf
<1> DEFINE f == [k \in P |-> idx[k]]
<1>5. f \in [P -> Q]
  BY <1>3, <1>4
<1>6. ASSUME NEW a \in P, NEW b \in P, f[a] = f[b]
      PROVE  a = b
  <2>1. a \in 1..Len(r) /\ b \in 1..Len(r) /\ idx[a] = idx[b]
    BY <1>3, <1>6
  <2>2. idx[a] \in 1..Len(s) /\ idx[b] \in 1..Len(s)
    BY <1>4, <2>1
  <2>3. ~ (a < b) /\ ~ (b < a)
    <3>1. \A x, y \in 1..Len(s) : x = y => ~ (x < y) /\ ~ (y < x)
      OBVIOUS
    <3>2. QED
      BY <1>4, <2>1, <2>2, <3>1
  <2>4. QED
    BY <1>3, <2>1, <2>3
<1>7. ASSUME NEW t \in Q
      PROVE  \E a \in P : f[a] = t
  <2>1. t \in 1..Len(s) /\ s[t] \in set
    BY <1>3
  <2>2. PICK i \in 1..Len(r) : idx[i] = t
    BY <1>4, <2>1
  <2>3. i \in P
    BY <1>3, <1>4, <2>2
  <2>4. QED
    BY <2>2, <2>3
<1>8. IsFiniteSet(P)
  <2>1. P \in SUBSET (1..Len(r))
    BY <1>3
  <2>2. QED
    BY <1>3, <2>1, PositionsFinite
<1> HIDE DEF f, P, Q
<1>9. Cardinality(P) = Cardinality(Q)
  BY <1>5, <1>6, <1>7, <1>8, BijectionCounts
<1>10. QED
  BY <1>9 DEF P, Q, r, PlacesIn

LEMMA ThoseLength ==
  ASSUME NEW S, NEW set, NEW s \in Seq(S)
  PROVE  /\ Len(Those(s, set)) = Cardinality(PlacesIn(s, set))
         /\ Len(Those(s, set)) =< Len(s)
<1> DEFINE r == Those(s, set)
           P == PlacesIn(s, set)
<1>1. r \in Seq(S) /\ ToSet(r) = ToSet(s) \intersect set
  BY ThoseAre
<1>2. Cardinality(PlacesIn(r, set)) = Cardinality(P)
  <2>1. set \in SUBSET set
    OBVIOUS
  <2>2. QED
    BY <2>1, ThoseCount
<1> HIDE DEF r
<1>3. DOMAIN r = 1..Len(r) /\ Len(r) \in Nat
  BY <1>1
<1>4. PlacesIn(r, set) = 1..Len(r)
  BY <1>1, <1>3 DEF ToSet, PlacesIn
<1>5. Cardinality(1..Len(r)) = Len(r)
  <2>1. \A n \in Nat : Cardinality(1..n) = n
    BY FS_Interval
  <2>2. QED
    BY <1>3, <2>1
<1>6. Cardinality(P) =< Len(s)
  <2>1. P \in SUBSET (1..Len(s)) /\ Len(s) \in Nat
    BY DEF PlacesIn
  <2>2. QED
    BY <2>1, PositionsFinite
<1>7. QED
  BY <1>2, <1>4, <1>5, <1>6 DEF r

-----------------------------------------------------------------------------
(* The edges of a list that have u at either end, and those from u to v.   *)
Touching(edges, u) == {x \in ToSet(edges) : u \in {x.source, x.target}}
FromTo(edges, u, v) == {x \in ToSet(edges) : x.source = u /\ x.target = v}

LEMMA RelatedIs ==
  ASSUME NEW x, NEW u, u \in {x.source, x.target}
  PROVE  {x.source, x.target} = {u, Related(x, u).other}
<1>1. Related(x, u).other = IF x.source = u THEN x.target ELSE x.source
  BY DEF Related
<1>2. QED
  BY <1>1

(* What an entity is shown with: every edge at it, and at the other ends   *)
(* of these the nodes that were read.                                      *)
Ways(e, direction, other) ==
  {k \in DOMAIN e.edges : e.edges[k].direction = direction /\ e.edges[k].other = other}

Shows(e, u, nodes, edges) ==
  /\ e.uuid = u
  /\ \A v : v \in e.nodes <=> v \in Uuids(nodes) /\ \E x \in ToSet(edges) : {x.source, x.target} = {u, v}
  /\ \A v : v # u =>
       /\ Cardinality(Ways(e, "outgoing", v)) = Cardinality(PlacesIn(edges, FromTo(edges, u, v)))
       /\ Cardinality(Ways(e, "incoming", v)) = Cardinality(PlacesIn(edges, FromTo(edges, v, u)))
  /\ Len(e.edges) = Cardinality(PlacesIn(edges, Touching(edges, u)))

LEMMA SerializedIs ==
  ASSUME NEW nodes, NEW edges, IsList(edges), NEW u
  PROVE  Shows(SerializeEntity(u, nodes, edges), u, nodes, edges)
<1> DEFINE set == Touching(edges, u)
           r == Those(edges, set)
           related == [i \in DOMAIN r |-> Related(r[i], u)]
           S == ToSet(edges)
           e == SerializeEntity(u, nodes, edges)
<1>1. /\ e.uuid = u /\ e.edges = related
      /\ e.nodes = {related[i].other : i \in DOMAIN related} \intersect Uuids(nodes)
  BY DEF SerializeEntity, Touching
<1>2. edges \in Seq(S)
  BY DEF IsList
<1>3. r \in Seq(S) /\ ToSet(r) = ToSet(edges) \intersect set
  BY <1>2, ThoseAre
<1>4. Len(r) = Cardinality(PlacesIn(edges, set))
  BY <1>2, ThoseLength
<1>5. \A A \in SUBSET set : Cardinality(PlacesIn(r, A)) = Cardinality(PlacesIn(edges, A))
  BY <1>2, ThoseCount
<1>6. \A i \in DOMAIN r : r[i] \in S /\ r[i] \in set
  BY <1>3 DEF ToSet
<1>7. Len(related) = Len(r)
  <2>1. DOMAIN related = DOMAIN r /\ DOMAIN r = 1..Len(r) /\ Len(r) \in Nat
    BY <1>3
  <2>2. related \in Seq({related[i] : i \in DOMAIN r})
    BY <2>1
  <2> HIDE DEF related, r
  <2>3. DOMAIN related = 1..Len(related) /\ Len(related) \in Nat
    BY <2>2, LenProperties
  <2>4. \A m, n \in Nat : 1..m = 1..n => m = n
    OBVIOUS
  <2>5. QED
    BY <2>1, <2>3, <2>4
<1> HIDE DEF e, r
<1>8. ASSUME NEW v
      PROVE  (\E i \in DOMAIN related : related[i].other = v)
               <=> \E x \in ToSet(edges) : {x.source, x.target} = {u, v}
  <2>1. ASSUME NEW i \in DOMAIN related, related[i].other = v
        PROVE  \E x \in ToSet(edges) : {x.source, x.target} = {u, v}
    <3>1. i \in DOMAIN r /\ related[i] = Related(r[i], u)
      OBVIOUS
    <3>2. r[i] \in S /\ u \in {r[i].source, r[i].target}
      BY <1>6, <3>1 DEF Touching
    <3>3. {r[i].source, r[i].target} = {u, v}
      <4>1. Related(r[i], u).other = v
        BY <2>1, <3>1
      <4>2. QED
        BY <3>2, <4>1, RelatedIs
    <3>4. QED
      BY <3>2, <3>3
  <2>2. ASSUME NEW x \in ToSet(edges), {x.source, x.target} = {u, v}
        PROVE  \E i \in DOMAIN related : related[i].other = v
    <3>1. x \in set
      BY <2>2 DEF Touching
    <3>2. PICK i \in DOMAIN r : r[i] = x
      BY <1>3, <3>1 DEF ToSet
    <3>3. i \in DOMAIN related /\ related[i] = Related(x, u)
      BY <3>2
    <3>4. Related(x, u).other = IF x.source = u THEN x.target ELSE x.source
      BY DEF Related
    <3>5. QED
      BY <2>2, <3>3, <3>4
  <2>3. QED
    BY <2>1, <2>2
<1>9. \A v : v \in e.nodes <=> v \in Uuids(nodes) /\ \E x \in ToSet(edges) : {x.source, x.target} = {u, v}
  BY <1>1, <1>8
<1>10. ASSUME NEW v, v # u
       PROVE  /\ Ways(e, "outgoing", v) = PlacesIn(r, FromTo(edges, u, v))
              /\ Ways(e, "incoming", v) = PlacesIn(r, FromTo(edges, v, u))
  <2>1. ASSUME NEW i \in DOMAIN r
        PROVE  /\ i \in Ways(e, "outgoing", v) <=> r[i].source = u /\ r[i].target = v
               /\ i \in Ways(e, "incoming", v) <=> r[i].source = v /\ r[i].target = u
    <3>1. i \in DOMAIN e.edges /\ e.edges[i] = Related(r[i], u)
      BY <1>1
    <3>2. u \in {r[i].source, r[i].target}
      BY <1>6 DEF Touching
    <3>3. Related(r[i], u) = IF r[i].source = u THEN [direction |-> "outgoing", other |-> r[i].target]
                             ELSE [direction |-> "incoming", other |-> r[i].source]
      BY DEF Related
    <3>4. QED
      BY <1>10, <3>1, <3>2, <3>3 DEF Ways
  <2>2. Ways(e, "outgoing", v) \subseteq DOMAIN r /\ Ways(e, "incoming", v) \subseteq DOMAIN r
    BY <1>1 DEF Ways
  <2>3. QED
    BY <1>6, <2>1, <2>2 DEF PlacesIn, FromTo
<1>11. ASSUME NEW v
       PROVE  FromTo(edges, u, v) \in SUBSET set /\ FromTo(edges, v, u) \in SUBSET set
  BY DEF FromTo, Touching
<1>12. \A v : v # u =>
         /\ Cardinality(Ways(e, "outgoing", v)) = Cardinality(PlacesIn(edges, FromTo(edges, u, v)))
         /\ Cardinality(Ways(e, "incoming", v)) = Cardinality(PlacesIn(edges, FromTo(edges, v, u)))
  BY <1>5, <1>10, <1>11
<1>13. Len(e.edges) = Cardinality(PlacesIn(edges, set))
  BY <1>1, <1>4, <1>7
<1>14. QED
  BY <1>1, <1>9, <1>12, <1>13 DEF e, Shows

LEMMA ListIs ==
  ASSUME NEW nodes, NEW edges, NEW type, IsList(nodes), IsList(edges),
         \A i, j \in DOMAIN nodes : nodes[i].uuid = nodes[j].uuid => i = j
  PROVE  ListIsMutual(nodes, edges, type, ListEntities(nodes, edges, type))
<1> DEFINE set == {n \in ToSet(nodes) : /\ CustomLabels(n.labels) # {}
                                        /\ type = "any" \/ type \in CustomLabels(n.labels)}
           shown == Those(nodes, set)
           entity(u) == SerializeEntity(u, nodes, edges)
           es == [i \in DOMAIN shown |-> entity(shown[i].uuid)]
           types == UNION {CustomLabels(shown[i].labels) : i \in DOMAIN shown}
           a == [entities |-> es, types |-> types, total |-> Len(nodes)]
           S == ToSet(nodes)
<1>1. ListEntities(nodes, edges, type) = a
  BY DEF ListEntities
<1>2. nodes \in Seq(S)
  BY DEF IsList
<1>3. shown \in Seq(S) /\ ToSet(shown) = S \intersect set /\ Len(shown) =< Len(nodes)
  BY <1>2, ThoseAre, ThoseLength
<1>4. PICK idx : PlacesOf(idx, shown, nodes, set, Len(nodes))
  BY <1>2, ThosePlaces
<1> HIDE DEF shown
<1>5. /\ DOMAIN shown = 1..Len(shown) /\ Len(shown) \in Nat
      /\ DOMAIN nodes = 1..Len(nodes) /\ Len(nodes) \in Nat
  BY <1>2, <1>3, LenProperties
<1>6. \A i \in DOMAIN shown : shown[i] \in S /\ shown[i] \in set
  BY <1>3 DEF ToSet
<1>7. \A i \in DOMAIN shown : shown[i].uuid \in Uuids(nodes)
  BY <1>6 DEF ToSet, Uuids
<1>8. ASSUME NEW i \in DOMAIN shown, NEW j \in DOMAIN shown, i # j
      PROVE  shown[i].uuid # shown[j].uuid
  <2>1. /\ idx[i] \in DOMAIN nodes /\ idx[j] \in DOMAIN nodes
        /\ shown[i] = nodes[idx[i]] /\ shown[j] = nodes[idx[j]]
        /\ (i < j => idx[i] < idx[j]) /\ (j < i => idx[j] < idx[i])
    BY <1>4, <1>5 DEF PlacesOf
  <2>2. i < j \/ j < i
    BY <1>5, <1>8
  <2>3. idx[i] # idx[j]
    <3>1. \A x, y \in 1..Len(nodes) : x < y => x # y
      BY <1>5
    <3>2. QED
      BY <1>5, <2>1, <2>2, <3>1
  <2>4. QED
    BY <2>1, <2>3
<1>9. \A i \in DOMAIN es : i \in DOMAIN shown /\ es[i] = entity(shown[i].uuid)
  OBVIOUS
<1>s. \A u : Shows(entity(u), u, nodes, edges)
  BY SerializedIs
<1> HIDE DEF es, a
<1>10. ASSUME NEW i \in DOMAIN es, NEW j \in DOMAIN es
       PROVE  es[j].uuid \in es[i].nodes <=> es[i].uuid \in es[j].nodes
  <2> DEFINE u == shown[i].uuid
             v == shown[j].uuid
  <2>1. es[i] = entity(u) /\ es[j] = entity(v) /\ u \in Uuids(nodes) /\ v \in Uuids(nodes)
    BY <1>7, <1>9
  <2> HIDE DEF entity, u, v
  <2>2. entity(u).uuid = u /\ entity(v).uuid = v
    BY <1>s DEF Shows
  <2>3. v \in entity(u).nodes <=> v \in Uuids(nodes) /\ \E x \in ToSet(edges) : {x.source, x.target} = {u, v}
    BY <1>s DEF Shows
  <2>4. u \in entity(v).nodes <=> u \in Uuids(nodes) /\ \E x \in ToSet(edges) : {x.source, x.target} = {v, u}
    BY <1>s DEF Shows
  <2>5. {u, v} = {v, u}
    OBVIOUS
  <2>6. QED
    BY <2>1, <2>2, <2>3, <2>4, <2>5
<1>11. ASSUME NEW i \in DOMAIN es, NEW j \in DOMAIN es, i # j
       PROVE  Cardinality(Ways(es[i], "outgoing", es[j].uuid)) = Cardinality(Ways(es[j], "incoming", es[i].uuid))
  <2> DEFINE u == shown[i].uuid
             v == shown[j].uuid
  <2>1. es[i] = entity(u) /\ es[j] = entity(v) /\ u # v
    BY <1>8, <1>9, <1>11
  <2> HIDE DEF entity, u, v
  <2>2. entity(u).uuid = u /\ entity(v).uuid = v
    BY <1>s DEF Shows
  <2>3. Cardinality(Ways(entity(u), "outgoing", v)) = Cardinality(PlacesIn(edges, FromTo(edges, u, v)))
    BY <1>s, <2>1 DEF Shows
  <2>4. Cardinality(Ways(entity(v), "incoming", u)) = Cardinality(PlacesIn(edges, FromTo(edges, u, v)))
    BY <1>s, <2>1 DEF Shows
  <2>5. QED
    BY <2>1, <2>2, <2>3, <2>4
<1>12. ASSUME NEW i \in DOMAIN es
       PROVE  /\ <<es[i]>> = EntityDetail(es[i].uuid, nodes, edges)
              /\ Len(es[i].edges) = Cardinality({k \in DOMAIN edges :
                                      es[i].uuid \in {edges[k].source, edges[k].target}})
  <2> DEFINE u == shown[i].uuid
  <2>1. es[i] = entity(u) /\ u \in Uuids(nodes)
    BY <1>7, <1>9
  <2>2. entity(u).uuid = u /\ Len(entity(u).edges) = Cardinality(PlacesIn(edges, Touching(edges, u)))
    BY <1>s DEF Shows
  <2>3. PlacesIn(edges, Touching(edges, u)) = {k \in DOMAIN edges : u \in {edges[k].source, edges[k].target}}
    BY DEF PlacesIn, Touching, ToSet
  <2>4. EntityDetail(u, nodes, edges) = <<entity(u)>>
    BY <2>1 DEF EntityDetail
  <2> HIDE DEF u, entity
  <2>5. QED
    BY <2>1, <2>2, <2>3, <2>4
<1>13. type # "any" => types = {} \/ type \in types
  <2>1. ASSUME type # "any", types # {}
        PROVE  type \in types
    <3>1. PICK i \in DOMAIN shown : TRUE
      BY <2>1
    <3>2. type \in CustomLabels(shown[i].labels)
      BY <1>6, <2>1
    <3>3. QED
      BY <3>2
  <2>2. QED
    BY <2>1
<1>14. Len(es) =< Len(nodes)
  <2>1. es \in Seq({entity(shown[i].uuid) : i \in DOMAIN shown}) /\ DOMAIN es = DOMAIN shown
    BY <1>5 DEF es
  <2>2. Len(es) \in Nat /\ DOMAIN es = 1..Len(es)
    BY <2>1, LenProperties
  <2>3. \A m, n \in Nat : 1..m = 1..n => m = n
    OBVIOUS
  <2>4. Len(es) = Len(shown)
    BY <1>5, <2>1, <2>2, <2>3
  <2>5. QED
    BY <1>3, <2>4
<1>15. a.entities = es /\ a.types = types /\ a.total = Len(nodes)
  BY DEF a
<1> HIDE DEF types
<1>16. ListIsMutual(nodes, edges, type, a)
  BY <1>10, <1>11, <1>12, <1>13, <1>14, <1>15 DEF ListIsMutual, Ways
<1>17. QED
  BY <1>1, <1>16

-----------------------------------------------------------------------------
DedupeRun(F, values, S) ==
  /\ F \in [0..Len(values) -> Seq(S)]
  /\ F[0] = <<>> /\ F[Len(values)] = DedupeStrings(values)
  /\ \A k \in 1..Len(values) :
       F[k] = IF values[k] = "" \/ values[k] \in ToSet(F[k-1]) THEN F[k-1]
              ELSE Append(F[k-1], values[k])

LEMMA DedupeSteps ==
  ASSUME NEW S, NEW values \in Seq(S)
  PROVE  \E F : DedupeRun(F, values, S)
<1> DEFINE s == values
           n == Len(s)
           A == Seq(S)
           G == [p \in (1..n) \X A |->
                   IF s[p[1]] = "" \/ s[p[1]] \in ToSet(p[2]) THEN p[2]
                   ELSE Append(p[2], s[p[1]])]
           Step(z) == [q \in SUBSET DOMAIN s |->
                         IF q = {} THEN <<>>
                         ELSE IF s[Max(q)] = "" \/ s[Max(q)] \in ToSet(z[q \ {Max(q)}])
                              THEN z[q \ {Max(q)}] ELSE Append(z[q \ {Max(q)}], s[Max(q)])]
           iter == CHOOSE z : z = Step(z)
<1>1. n \in Nat /\ DOMAIN s = 1..n /\ <<>> \in A /\ \A k \in 1..n : s[k] \in S
  OBVIOUS
<1>2. G \in [(1..n) \X A -> A]
  <2>1. \A v \in A, x \in S : Append(v, x) \in A
    OBVIOUS
  <2>2. QED
    BY <1>1, <2>1
<1>3. \A k \in 1..n, v \in A :
        G[<<k, v>>] = IF s[k] = "" \/ s[k] \in ToSet(v) THEN v ELSE Append(v, s[k])
  <2>1. ASSUME NEW k \in 1..n, NEW v \in A
        PROVE  <<k, v>> \in (1..n) \X A /\ <<k, v>>[1] = k /\ <<k, v>>[2] = v
    <3> HIDE DEF A, n
    <3>1. QED
      BY PairIs
  <2>2. QED
    BY <2>1, Zenon
<1>4. iter = Step(iter)
  <2>1. PICK h : Iterates(h, n, A, <<>>, G)
    BY <1>1, <1>2, IterationExists
  <2>2. /\ h \in [SUBSET (1..n) -> A]
        /\ \A q \in SUBSET (1..n) : h[q] = IF q = {} THEN <<>> ELSE G[<<Max(q), h[q \ {Max(q)}]>>]
    BY <2>1 DEF Iterates
  <2>3. \A q \in SUBSET (1..n) : q # {} => Max(q) \in 1..n /\ h[q \ {Max(q)}] \in A
    BY <1>1, <2>2, MaxIn
  <2> HIDE DEF G
  <2>4. ASSUME NEW q \in SUBSET (1..n)
        PROVE  h[q] = Step(h)[q]
    <3>1. CASE q = {}
      BY <1>1, <2>2, <3>1
    <3>2. CASE q # {}
      BY <1>1, <1>3, <2>2, <2>3, <3>2
    <3>3. QED
      BY <3>1, <3>2
  <2>5. h = Step(h)
    BY <1>1, <2>2, <2>4
  <2>6. QED
    BY <2>5, Zenon
<1>5. DedupeStrings(s) = iter[1..n]
  BY <1>1 DEF DedupeStrings, FoldLeft, MapThenFoldSet
<1> HIDE DEF iter, G
<1>6. iter[{}] = <<>>
  BY <1>4
<1>7. ASSUME NEW k \in 1..n, iter[1..k-1] \in A
      PROVE  iter[1..k] = G[<<k, iter[1..k-1]>>]
  <2>1. /\ Max(1..k) = k /\ (1..k) # {} /\ (1..k) \ {Max(1..k)} = 1..k-1
        /\ (1..k) \in SUBSET DOMAIN s
    BY <1>1, MaxOfPrefix
  <2>2. iter[1..k] = Step(iter)[1..k]
    BY <1>4
  <2>3. iter[1..k] = IF s[k] = "" \/ s[k] \in ToSet(iter[1..k-1]) THEN iter[1..k-1]
                     ELSE Append(iter[1..k-1], s[k])
    BY <2>1, <2>2
  <2>4. QED
    BY <1>3, <1>7, <2>3
<1>8. PICK F : IsRun(F, iter, n, A, <<>>, G)
  <2>1. n \in Nat /\ <<>> \in A
    BY <1>1
  <2>2. RunsOver(iter, n, A, <<>>, G)
    BY <1>6, <1>7 DEF RunsOver
  <2>3. QED
    BY <2>1, <2>2, <1>2, PrefixRuns
<1>9. F \in [0..n -> A] /\ F[n] = iter[1..n] /\ F[0] = <<>> /\ \A k \in 1..n : F[k] = G[<<k, F[k-1]>>]
  BY <1>8 DEF IsRun
<1>10. \A k \in 1..n : F[k-1] \in A
  BY <1>1, <1>9
<1>11. \A k \in 1..n : F[k] = IF s[k] = "" \/ s[k] \in ToSet(F[k-1]) THEN F[k-1]
                              ELSE Append(F[k-1], s[k])
  BY <1>3, <1>9, <1>10
<1>12. DedupeRun(F, s, S)
  BY <1>5, <1>9, <1>11 DEF DedupeRun
<1>13. QED
  BY <1>12

LEMMA DedupeIs ==
  ASSUME NEW S, NEW values \in Seq(S)
  PROVE  /\ DedupeStrings(values) \in Seq(S) /\ IsInjective(DedupeStrings(values))
         /\ ToSet(DedupeStrings(values)) = ToSet(values) \ {""}
<1> DEFINE n == Len(values)
           Said(k) == {values[m] : m \in 1..k}
<1>r. PICK F : DedupeRun(F, values, S)
  BY DedupeSteps
<1>1. /\ F \in [0..n -> Seq(S)] /\ F[0] = <<>> /\ F[n] = DedupeStrings(values)
      /\ \A k \in 1..n : F[k] = IF values[k] = "" \/ values[k] \in ToSet(F[k-1]) THEN F[k-1]
                                ELSE Append(F[k-1], values[k])
  BY <1>r DEF DedupeRun
<1>2. n \in Nat /\ DOMAIN values = 1..n /\ \A k \in 1..n : values[k] \in S
  OBVIOUS
<1> DEFINE Good(k) == IsInjective(F[k]) /\ ToSet(F[k]) = Said(k) \ {""}
           U == {k \in Nat : k =< n => Good(k)}
<1> HIDE DEF n, Said
<1>3. 0 \in U
  <2>1. DOMAIN <<>> = {} /\ Said(0) = {}
    BY DEF Said
  <2>2. IsInjective(<<>>)
    BY <2>1 DEF IsInjective
  <2>3. ToSet(<<>>) = {}
    BY <2>1 DEF ToSet
  <2>4. QED
    BY <1>1, <2>1, <2>2, <2>3
<1>4. ASSUME NEW k \in Nat, k \in U
      PROVE  k + 1 \in U
  <2> HIDE DEF Good
  <2> SUFFICES ASSUME k + 1 =< n PROVE Good(k + 1)
    OBVIOUS
  <2>1. k + 1 \in 1..n /\ (k + 1) - 1 = k /\ k \in 0..n
    BY <1>2
  <2> DEFINE kept == F[k]
             x == values[k+1]
  <2>a. IsInjective(kept) /\ ToSet(kept) = Said(k) \ {""}
    <3>1. k =< n
      BY <2>1
    <3>2. Good(k)
      BY <1>4, <3>1
    <3>3. QED
      BY <3>2 DEF Good
  <2>b. kept \in Seq(S) /\ x \in S
    BY <1>1, <1>2, <2>1
  <2>2. F[k+1] = IF x = "" \/ x \in ToSet(kept) THEN kept ELSE Append(kept, x)
    BY <1>1, <2>1
  <2>3. Said(k + 1) = Said(k) \union {x}
    <3>1. \A m : m \in 1..k+1 <=> m \in 1..k \/ m = k + 1
      OBVIOUS
    <3>2. QED
      BY <3>1 DEF Said
  <2> HIDE DEF kept, x
  <2>4. CASE x = "" \/ x \in ToSet(kept)
    <3>1. Said(k) \ {""} = Said(k + 1) \ {""}
      BY <2>3, <2>4, <2>a
    <3>2. QED
      BY <2>2, <2>4, <2>a, <3>1 DEF Good
  <2>5. CASE ~ (x = "" \/ x \in ToSet(kept))
    <3>1. ToSet(Append(kept, x)) = ToSet(kept) \union {x}
      BY <2>b, ToSetAppend
    <3>2. ToSet(Append(kept, x)) = Said(k + 1) \ {""}
      BY <2>3, <2>5, <2>a, <3>1
    <3>3. IsInjective(Append(kept, x))
      <4> DEFINE r == Append(kept, x)
                 l == Len(kept)
      <4>1. /\ l \in Nat /\ DOMAIN kept = 1..l /\ DOMAIN r = 1..l+1
            /\ r[l+1] = x /\ \A i \in 1..l : r[i] = kept[i]
        BY <2>b
      <4>2. \A i \in 1..l : kept[i] \in ToSet(kept)
        BY <4>1 DEF ToSet
      <4>3. \A i \in 1..l+1 : i \in 1..l \/ i = l + 1
        BY <4>1
      <4> HIDE DEF r, l
      <4>4. \A a, b \in DOMAIN r : r[a] = r[b] => a = b
        BY <2>5, <2>a, <4>1, <4>2, <4>3 DEF IsInjective
      <4>5. QED
        BY <4>4 DEF IsInjective, r
    <3>4. QED
      BY <2>2, <2>5, <3>2, <3>3 DEF Good
  <2>6. QED
    BY <2>4, <2>5
<1>5. n \in U
  <2> HIDE DEF U
  <2>1. QED
    BY <1>2, <1>3, <1>4, SetInduction
<1>6. n \in 0..n /\ n =< n
  BY <1>2
<1>7. F[n] \in Seq(S) /\ IsInjective(F[n]) /\ ToSet(F[n]) = Said(n) \ {""}
  BY <1>1, <1>5, <1>6
<1>8. Said(n) = ToSet(values)
  BY <1>2 DEF ToSet, Said
<1>9. QED
  BY <1>1, <1>7, <1>8

LEMMA SearchIs ==
  ASSUME NEW nodes, NEW edges, IsList(edges), "" \notin Uuids(nodes)
  PROVE  SearchIsOnce(nodes, edges, Search(nodes, edges))
<1> DEFINE values == [i \in DOMAIN edges |-> edges[i].fact]
           V == {edges[i].fact : i \in DOMAIN edges}
           facts == DedupeStrings(values)
           snapshot == SerializeSnapshot(nodes, edges)
           a == [snapshot |-> snapshot, facts |-> facts]
<1>1. edges \in Seq(ToSet(edges))
  BY DEF IsList
<1>2. DOMAIN edges = 1..Len(edges) /\ Len(edges) \in Nat
  BY <1>1, LenProperties
<1>3. values \in Seq(V) /\ ToSet(values) = V
  <2>1. DOMAIN values = DOMAIN edges /\ \A i \in DOMAIN edges : values[i] = edges[i].fact
    OBVIOUS
  <2>2. values \in Seq(V)
    <3>1. \A i \in 1..Len(edges) : edges[i].fact \in V
      BY <1>2
    <3>2. values = [i \in 1..Len(edges) |-> edges[i].fact]
      BY <1>2
    <3>3. values \in [1..Len(edges) -> V]
      BY <3>1, <3>2
    <3> HIDE DEF V, values
    <3>4. QED
      BY <1>2, <3>3, SeqDef
  <2>3. ToSet(values) = V
    BY <2>1 DEF ToSet
  <2>4. QED
    BY <2>2, <2>3
<1>4. IsInjective(facts) /\ ToSet(facts) = V \ {""}
  <2> HIDE DEF values, V
  <2>1. QED
    BY <1>3, DedupeIs
<1>5. /\ snapshot.nodes = Uuids(nodes) /\ DOMAIN snapshot.edges = DOMAIN edges
      /\ \A i \in DOMAIN edges :
           /\ snapshot.edges[i].source = edges[i].source /\ snapshot.edges[i].target = edges[i].target
           /\ snapshot.edges[i].sourceName = NameOf(edges[i].source, nodes)
           /\ snapshot.edges[i].targetName = NameOf(edges[i].target, nodes)
  BY DEF SerializeSnapshot, SerializeEdges
<1>6. \A u : NameOf(u, nodes) # "" <=> u \in Uuids(nodes)
  BY DEF NameOf
<1>7. Search(nodes, edges) = a /\ a.facts = facts /\ a.snapshot = snapshot
  BY DEF Search
<1> HIDE DEF facts, snapshot, a
<1>8. \A i \in DOMAIN snapshot.edges :
        /\ snapshot.edges[i].sourceName # "" <=> snapshot.edges[i].source \in snapshot.nodes
        /\ snapshot.edges[i].targetName # "" <=> snapshot.edges[i].target \in snapshot.nodes
  BY <1>5, <1>6
<1>9. SearchIsOnce(nodes, edges, a)
  BY <1>4, <1>7, <1>8 DEF SearchIsOnce
<1>10. QED
  BY <1>7, <1>9

-----------------------------------------------------------------------------
LEMMA ReadSteps ==
  ASSUME [Next]_<<call, answer>>
  PROVE  /\ call' = call
         /\ call.op = "list" =>
              answer' = answer \/ answer' = <<ListEntities(call.nodes, call.edges, call.type)>>
         /\ call.op = "search" =>
              answer' = answer \/ answer' = <<Search(call.nodes, call.edges)>>
BY DEF Next, Traverse, Cut, Evidence, Compile, Read, Extract, Evolve, Remember, Answer

(* What the graph service lists of a graph and finds in it is consistent,  *)
(* however many nodes and edges Graphiti answers with.                     *)
THEOREM ReadsAreConsistent == Spec => []ReadsAgree
<1> DEFINE Inv == call \in Calls /\ ReadsAgree
<1>1. Init => Inv
  BY DEF Init, ReadsAgree, Answered
<1>2. Inv /\ [Next]_<<call, answer>> => Inv'
  <2> SUFFICES ASSUME Inv, [Next]_<<call, answer>>
               PROVE  Inv'
    OBVIOUS
  <2>1. /\ call' = call
        /\ call.op = "list" =>
             answer' = answer \/ answer' = <<ListEntities(call.nodes, call.edges, call.type)>>
        /\ call.op = "search" =>
             answer' = answer \/ answer' = <<Search(call.nodes, call.edges)>>
    BY ReadSteps
  <2>2. CASE call.op \notin {"list", "search"}
    BY <2>1, <2>2 DEF ReadsAgree, Answered
  <2>3. CASE answer' = answer
    BY <2>1, <2>3 DEF ReadsAgree, Answered
  <2>4. CASE call.op = "list" /\ answer' = <<ListEntities(call.nodes, call.edges, call.type)>>
    <3>1. ListIsMutual(call.nodes, call.edges, call.type, ListEntities(call.nodes, call.edges, call.type))
      BY <2>4, CallsAreSound, ListIs
    <3>2. answer'[1] = ListEntities(call.nodes, call.edges, call.type)
      BY <2>4
    <3>3. ListIsMutual(call'.nodes, call'.edges, call'.type, answer'[1])
      BY <2>1, <3>1, <3>2
    <3>4. call'.op = "list"
      BY <2>1, <2>4
    <3>5. QED
      BY <2>1, <3>3, <3>4 DEF ReadsAgree, Answered
  <2>5. CASE call.op = "search" /\ answer' = <<Search(call.nodes, call.edges)>>
    <3>1. SearchIsOnce(call.nodes, call.edges, Search(call.nodes, call.edges))
      BY <2>5, CallsAreSound, SearchIs
    <3>2. answer'[1] = Search(call.nodes, call.edges)
      BY <2>5
    <3>3. SearchIsOnce(call'.nodes, call'.edges, answer'[1])
      BY <2>1, <3>1, <3>2
    <3>4. call'.op = "search"
      BY <2>1, <2>5
    <3>5. QED
      BY <2>1, <3>3, <3>4 DEF ReadsAgree, Answered
  <2>6. QED
    BY <2>1, <2>2, <2>3, <2>4, <2>5
<1>3. QED
  BY <1>1, <1>2, PTL DEF Spec

-----------------------------------------------------------------------------
IsUpdate(first, last, d) ==
  /\ DOMAIN d = DOMAIN first \union DOMAIN last
  /\ \A k \in DOMAIN last : d[k] = last[k]
  /\ \A k \in DOMAIN first : k \notin DOMAIN last => d[k] = first[k]
  /\ IsDict(d)

LEMMA ThenIs ==
  ASSUME NEW first, NEW last
  PROVE  IsUpdate(first, last, Then(first, last))
BY DEF Then, IsDict, IsUpdate

LEMMA SameDict ==
  ASSUME NEW c, NEW d, IsDict(c), IsDict(d), DOMAIN c = DOMAIN d, \A k \in DOMAIN c : c[k] = d[k]
  PROVE  c = d
<1>1. [k \in DOMAIN c |-> c[k]] = [k \in DOMAIN d |-> d[k]]
  OBVIOUS
<1>2. QED
  BY <1>1 DEF IsDict

(* What merge_profiles takes from the evolved profile, and what it returns. *)
TakenFrom(a, b) ==
  (DOMAIN b \intersect LearnedFields) \union (DOMAIN b \ (DOMAIN a \union IdKeys))

IsMergeOf(a, b, r) ==
  /\ IsDict(r)
  /\ DOMAIN r = DOMAIN a \union TakenFrom(a, b)
  /\ \A k \in TakenFrom(a, b) : r[k] = b[k]
  /\ \A k \in DOMAIN a : k \notin TakenFrom(a, b) => r[k] = a[k]

LEMMA ProfilesAreMerged ==
  ASSUME NEW fresh, NEW evolved
  PROVE  ProfilesMerge(fresh, evolved, MergeProfiles(fresh, evolved))
<1>1. ASSUME NEW a, NEW b
      PROVE  IsMergeOf(a, b, MergeProfiles(a, b))
  <2> DEFINE t == [k \in TakenFrom(a, b) |-> b[k]]
  <2>1. MergeProfiles(a, b) = Then(a, t)
    BY DEF MergeProfiles, TakenFrom
  <2>2. DOMAIN t = TakenFrom(a, b) /\ \A k \in TakenFrom(a, b) : t[k] = b[k]
    OBVIOUS
  <2> HIDE DEF t
  <2>3. /\ DOMAIN Then(a, t) = DOMAIN a \union DOMAIN t
        /\ \A k \in DOMAIN t : Then(a, t)[k] = t[k]
        /\ \A k \in DOMAIN a : k \notin DOMAIN t => Then(a, t)[k] = a[k]
        /\ IsDict(Then(a, t))
    <3>1. IsUpdate(a, t, Then(a, t))
      BY ThenIs
    <3>2. QED
      BY <3>1 DEF IsUpdate
  <2>4. QED
    BY <2>1, <2>2, <2>3 DEF IsMergeOf
<1> DEFINE m == MergeProfiles(fresh, evolved)
<1>2. /\ IsDict(m) /\ DOMAIN m = DOMAIN fresh \union TakenFrom(fresh, evolved)
      /\ \A k \in TakenFrom(fresh, evolved) : m[k] = evolved[k]
      /\ \A k \in DOMAIN fresh : k \notin TakenFrom(fresh, evolved) => m[k] = fresh[k]
  <2>1. IsMergeOf(fresh, evolved, m)
    BY <1>1
  <2> HIDE DEF m
  <2>2. QED
    BY <2>1 DEF IsMergeOf
<1> HIDE DEF m
<1>3. \A k \in DOMAIN fresh \ LearnedFields : m[k] = fresh[k]
  BY <1>2 DEF TakenFrom
<1>4. \A k \in DOMAIN evolved \intersect LearnedFields : m[k] = evolved[k]
  BY <1>2 DEF TakenFrom
<1>5. DOMAIN m \intersect IdKeys \subseteq DOMAIN fresh
  BY <1>2 DEF TakenFrom, LearnedFields, IdKeys
<1>6. MergeProfiles(fresh, m) = m
  <2> DEFINE q == MergeProfiles(fresh, m)
  <2>1. /\ IsDict(q) /\ DOMAIN q = DOMAIN fresh \union TakenFrom(fresh, m)
        /\ \A k \in TakenFrom(fresh, m) : q[k] = m[k]
        /\ \A k \in DOMAIN fresh : k \notin TakenFrom(fresh, m) => q[k] = fresh[k]
    <3>1. IsMergeOf(fresh, m, q)
      BY <1>1
    <3> HIDE DEF q
    <3>2. QED
      BY <3>1 DEF IsMergeOf
  <2> HIDE DEF q
  <2>2. DOMAIN q = DOMAIN m
    BY <1>2, <2>1 DEF TakenFrom
  <2>3. \A k \in DOMAIN m : q[k] = m[k]
    BY <1>2, <1>3, <2>1 DEF TakenFrom
  <2>4. q = m
    BY <1>2, <2>1, <2>2, <2>3, SameDict
  <2>5. QED
    BY <2>4 DEF q
<1>7. MergeProfiles(m, evolved) = m
  <2> DEFINE q == MergeProfiles(m, evolved)
  <2>1. /\ IsDict(q) /\ DOMAIN q = DOMAIN m \union TakenFrom(m, evolved)
        /\ \A k \in TakenFrom(m, evolved) : q[k] = evolved[k]
        /\ \A k \in DOMAIN m : k \notin TakenFrom(m, evolved) => q[k] = m[k]
    <3>1. IsMergeOf(m, evolved, q)
      BY <1>1
    <3> HIDE DEF q
    <3>2. QED
      BY <3>1 DEF IsMergeOf
  <2> HIDE DEF q
  <2>2. TakenFrom(m, evolved) = DOMAIN evolved \intersect LearnedFields
    BY <1>2 DEF TakenFrom
  <2>3. DOMAIN q = DOMAIN m
    <3>1. DOMAIN evolved \intersect LearnedFields \subseteq DOMAIN m
      BY <1>2 DEF TakenFrom
    <3>2. QED
      BY <2>1, <2>2, <3>1
  <2>4. \A k \in DOMAIN m : q[k] = m[k]
    BY <1>4, <2>1, <2>2
  <2>5. q = m
    BY <1>2, <2>1, <2>3, <2>4, SameDict
  <2>6. QED
    BY <2>5 DEF q
<1>8. QED
  BY <1>3, <1>4, <1>5, <1>6, <1>7 DEF ProfilesMerge, m

LEMMA LastProfileWins ==
  ASSUME NEW profiles, IsList(profiles)
  PROVE  LastWins(profiles, UserMetadata(profiles))
<1> DEFINE n == Len(profiles)
           Keys == UNION {DOMAIN profiles[i] : i \in DOMAIN profiles}
           Saying(k) == {i \in 1..n : k \in DOMAIN profiles[i]}
           Last1(k, i) == /\ k \in DOMAIN profiles[i]
                          /\ \A j \in i+1 .. Len(profiles) : k \notin DOMAIN profiles[j]
           last(k) == CHOOSE i \in DOMAIN profiles : Last1(k, i)
<1>1. DOMAIN profiles = 1..n /\ n \in Nat
  BY LenProperties DEF IsList
<1>2. UserMetadata(profiles) = [k \in Keys |-> profiles[last(k)][k]]
  BY DEF UserMetadata
<1>3. ASSUME NEW k \in Keys
      PROVE  /\ last(k) \in DOMAIN profiles /\ k \in DOMAIN profiles[last(k)]
             /\ \A j \in DOMAIN profiles : k \in DOMAIN profiles[j] => j =< last(k)
  <2>1. PICK i \in DOMAIN profiles : k \in DOMAIN profiles[i]
    OBVIOUS
  <2>2. Saying(k) # {} /\ Saying(k) \in SUBSET (1..n)
    BY <1>1, <2>1
  <2> DEFINE T == {n - j : j \in Saying(k)}
  <2>3. T \subseteq Nat /\ T # {}
    <3>1. \A j \in 1..n : n - j \in Nat
      BY <1>1
    <3>2. QED
      BY <2>2, <3>1
  <2>4. PICK t \in T : \A u \in T : t =< u
    BY <2>3, LeastOf
  <2>5. PICK g \in Saying(k) : t = n - g
    BY <2>4
  <2>6. \A j \in Saying(k) : j =< g
    <3>1. \A j \in Saying(k) : n - g =< n - j
      BY <2>4, <2>5
    <3>2. \A j, h \in 1..n : n - h =< n - j => j =< h
      BY <1>1
    <3>3. QED
      BY <2>2, <3>1, <3>2
  <2>7. g \in DOMAIN profiles /\ Last1(k, g)
    <3>1. \A j \in g+1..n : j \in 1..n /\ ~ (j =< g)
      BY <1>1
    <3>2. QED
      BY <1>1, <2>6, <3>1
  <2> HIDE DEF Last1
  <2>8. last(k) \in DOMAIN profiles /\ Last1(k, last(k))
    BY <2>7
  <2> DEFINE l == last(k)
  <2> HIDE DEF l
  <2>9. l \in 1..n /\ k \in DOMAIN profiles[l] /\ \A j \in l+1..n : k \notin DOMAIN profiles[j]
    BY <1>1, <2>8 DEF Last1, l
  <2>10. \A j \in 1..n : k \in DOMAIN profiles[j] => j =< l
    <3>1. \A j \in 1..n : j \in l+1..n \/ j =< l
      BY <1>1, <2>9
    <3>2. QED
      BY <2>9, <3>1
  <2>11. QED
    BY <1>1, <2>9, <2>10 DEF l
<1> HIDE DEF last
<1>4. QED
  BY <1>2, <1>3 DEF LastWins

LEMMA NamesAreKept ==
  ASSUME NEW item
  PROVE  NamesSurvive(item, <<EntityPayload(item), EdgePayload(item), FactPayload(item)>>)
<1> DEFINE at == item.attributes
           d1 == [entity_name |-> item.name, entity_type |-> item.type]
           d2 == [source_entity |-> item.source, target_entity |-> item.target, relation |-> item.relation]
           d3 == [zep_uuid |-> item.uuid, rating |-> item.rating]
           ps == <<EntityPayload(item), EdgePayload(item), FactPayload(item)>>
<1>1. /\ ps[1].metadata = Then(d1, at) /\ ps[2].metadata = Then(d2, at)
      /\ ps[3].metadata = Then(d3, at)
  BY DEF EntityPayload, EdgePayload, FactPayload
<1>2. DOMAIN ps = 1..3
  OBVIOUS
<1>3. /\ "entity_name" \in DOMAIN d1 /\ d1["entity_name"] = item.name
      /\ "relation" \in DOMAIN d2 /\ d2["relation"] = item.relation
      /\ "zep_uuid" \in DOMAIN d3 /\ d3["zep_uuid"] = item.uuid
  OBVIOUS
<1> HIDE DEF at, d1, d2, d3, ps
<1>t. \A d : IsUpdate(d, at, Then(d, at))
  BY ThenIs
<1>4. \A d, k : (k \in DOMAIN d /\ Then(d, at)[k] # d[k]) => k \in DOMAIN at
  <2> SUFFICES ASSUME NEW d, NEW k, k \in DOMAIN d, k \notin DOMAIN at
               PROVE  Then(d, at)[k] = d[k]
    OBVIOUS
  <2>1. IsUpdate(d, at, Then(d, at))
    BY <1>t
  <2>2. QED
    BY <2>1 DEF IsUpdate
<1>5. \A d : \A k \in DOMAIN at : Then(d, at)[k] = at[k]
  <2> SUFFICES ASSUME NEW d, NEW k \in DOMAIN at
               PROVE  Then(d, at)[k] = at[k]
    OBVIOUS
  <2>1. IsUpdate(d, at, Then(d, at))
    BY <1>t
  <2>2. QED
    BY <2>1 DEF IsUpdate
<1>6. \A i \in 1..3 : \A k \in DOMAIN at : ps[i].metadata[k] = at[k]
  <2>1. \A i \in 1..3 : i = 1 \/ i = 2 \/ i = 3
    OBVIOUS
  <2>2. QED
    BY <1>1, <1>5, <2>1
<1>7. NamesSurvive(item, ps)
  BY <1>1, <1>2, <1>3, <1>4, <1>6 DEF NamesSurvive, at
<1>8. QED
  BY <1>7 DEF ps

LEMMA MessageIsKept ==
  ASSUME NEW m
  PROVE  FromHit(MessagePayload(m)) = FromMessage(m)
<1> DEFINE d == [role |-> m.role, zep_uuid |-> m.uuid, created_at |-> m.created]
           t == Then(m.metadata, d)
<1>1. DOMAIN d = {"role", "zep_uuid", "created_at"} /\ d["role"] = m.role
      /\ d["zep_uuid"] = m.uuid /\ d["created_at"] = m.created
  OBVIOUS
<1> HIDE DEF d
<1>2. DOMAIN t = DOMAIN m.metadata \union DOMAIN d /\ \A k \in DOMAIN d : t[k] = d[k]
  <2>1. IsUpdate(m.metadata, d, Then(m.metadata, d))
    BY ThenIs
  <2>2. QED
    BY <2>1 DEF IsUpdate
<1>3. MessagePayload(m).metadata = t /\ MessagePayload(m).content = m.content
  BY DEF MessagePayload, d
<1> HIDE DEF t
<1>4. /\ Get(t, "zep_uuid", "new") = m.uuid /\ Get(t, "role", "ai") = m.role
      /\ Get(t, "created_at", "now") = m.created
  BY <1>1, <1>2 DEF Get
<1>5. QED
  BY <1>3, <1>4 DEF FromHit, FromMessage

LEMMA SessionIsKept ==
  ASSUME NEW s,
         s = [session |-> s.session, user |-> s.user, created |-> s.created, metadata |-> s.metadata],
         IsDict(s.metadata)
  PROVE  SessionSurvives(s, GetSession(s.session, SessionMeta(s)))
<1> DEFINE mm == s.metadata
           d == [session_id |-> s.session, user_id |-> s.user, created_at |-> s.created]
           t == Then(d, mm)
           l == [session_id |-> s.session]
           u == Then(t, l)
           got == GetSession(s.session, SessionMeta(s))
           rest == [k \in DOMAIN u \ SessionKeys |-> u[k]]
<1>1. DOMAIN d = SessionKeys /\ d["session_id"] = s.session
      /\ d["user_id"] = s.user /\ d["created_at"] = s.created
  BY DEF SessionKeys
<1>2. DOMAIN l = {"session_id"} /\ l["session_id"] = s.session
  OBVIOUS
<1> HIDE DEF d, l, mm
<1>3. /\ DOMAIN t = SessionKeys \union DOMAIN mm
      /\ \A k \in DOMAIN mm : t[k] = mm[k]
      /\ \A k \in SessionKeys : k \notin DOMAIN mm => t[k] = d[k]
  <2>1. /\ DOMAIN t = DOMAIN d \union DOMAIN mm
        /\ \A k \in DOMAIN mm : t[k] = mm[k]
        /\ \A k \in DOMAIN d : k \notin DOMAIN mm => t[k] = d[k]
    <3>1. IsUpdate(d, mm, Then(d, mm))
      BY ThenIs
    <3>2. QED
      BY <3>1 DEF IsUpdate
  <2>2. QED
    BY <1>1, <2>1
<1> HIDE DEF t
<1>4. /\ DOMAIN u = DOMAIN t \union {"session_id"} /\ u["session_id"] = s.session
      /\ \A k \in DOMAIN t : k # "session_id" => u[k] = t[k]
  <2>1. /\ DOMAIN u = DOMAIN t \union DOMAIN l
        /\ \A k \in DOMAIN l : u[k] = l[k]
        /\ \A k \in DOMAIN t : k \notin DOMAIN l => u[k] = t[k]
    <3>1. IsUpdate(t, l, Then(t, l))
      BY ThenIs
    <3>2. QED
      BY <3>1 DEF IsUpdate
  <2>2. QED
    BY <1>2, <2>1
<1>5. got = [session |-> Get(u, "session_id", ""), user |-> Get(u, "user_id", ""),
             created |-> Get(u, "created_at", "now"), metadata |-> rest]
  BY DEF GetSession, SessionFrom, SessionMeta, t, d, l, mm
<1>6. Get(u, "session_id", "") = s.session
  BY <1>4 DEF Get
<1> HIDE DEF u
<1>7. DOMAIN rest = DOMAIN mm \ SessionKeys
  <2>1. "session_id" \in SessionKeys
    BY DEF SessionKeys
  <2>2. QED
    BY <1>3, <1>4, <2>1
<1>8. ASSUME SessionKeys \intersect DOMAIN mm = {}
      PROVE  got = s
  <2>1. "user_id" \in SessionKeys /\ "created_at" \in SessionKeys /\ "session_id" \in SessionKeys
    BY DEF SessionKeys
  <2>2. u["user_id"] = s.user /\ u["created_at"] = s.created
    BY <1>1, <1>3, <1>4, <1>8, <2>1
  <2>3. Get(u, "user_id", "") = s.user /\ Get(u, "created_at", "now") = s.created
    BY <1>3, <1>4, <2>1, <2>2 DEF Get
  <2>4. \A k \in DOMAIN mm : k \notin SessionKeys /\ rest[k] = mm[k]
    BY <1>3, <1>4, <1>7, <1>8, <2>1
  <2>5. DOMAIN rest = DOMAIN mm
    BY <1>7, <1>8
  <2>6. IsDict(rest)
    BY DEF IsDict
  <2> HIDE DEF rest, got
  <2>7. rest = mm
    <3>1. IsDict(mm)
      BY DEF mm
    <3>2. QED
      BY <2>4, <2>5, <2>6, <3>1, SameDict
  <2>8. got = [session |-> s.session, user |-> s.user, created |-> s.created, metadata |-> s.metadata]
    BY <1>5, <1>6, <2>3, <2>7 DEF mm
  <2>9. QED
    BY <2>8
<1>9. got.session = s.session /\ DOMAIN got.metadata = DOMAIN mm \ SessionKeys
  <2> HIDE DEF rest, got
  <2>1. QED
    BY <1>5, <1>6, <1>7
<1> HIDE DEF got
<1>10. SessionSurvives(s, got)
  BY <1>8, <1>9 DEF SessionSurvives, mm
<1>11. QED
  BY <1>10 DEF got

IsPostOf(post, user, m) ==
  /\ post.user = user
  /\ Retrieved(post).content = Get(m, "content", "")
  /\ Retrieved(post).role = Get(m, "role", Get(m, "role_type", "human"))
  /\ Retrieved(post).uuid = Get(Get(m, "metadata", None), "zep_uuid", "")

LEMMA StoredIs ==
  ASSUME NEW user, NEW m
  PROVE  IsPostOf(Stored(user, m), user, m)
<1> DEFINE meta == Get(m, "metadata", None)
           role == Get(m, "role", Get(m, "role_type", "human"))
           content == Get(m, "content", "")
           group == Get(m, "group_id", "")
           d == [role |-> role]
           t == Then(meta, d)
<1>1. Stored(user, m) = [user |-> user, group |-> group, content |-> content, metadata |-> t]
  BY DEF Stored, StoreMemory
<1> HIDE DEF meta, content, group, role
<1>2. DOMAIN d = {"role"} /\ d["role"] = role
  OBVIOUS
<1> HIDE DEF d
<1>3. /\ DOMAIN t = DOMAIN meta \union DOMAIN d
      /\ \A k \in DOMAIN d : t[k] = d[k]
      /\ \A k \in DOMAIN meta : k \notin DOMAIN d => t[k] = meta[k]
  <2>1. IsUpdate(meta, d, Then(meta, d))
    BY ThenIs
  <2>2. QED
    BY <2>1 DEF IsUpdate
<1> HIDE DEF t
<1>4. Get(t, "role", "ai") = role
  BY <1>2, <1>3 DEF Get
<1>5. Get(t, "zep_uuid", "") = Get(meta, "zep_uuid", "")
  BY <1>2, <1>3 DEF Get
<1>6. Stored(user, m).user = user /\ Stored(user, m).content = content /\ Stored(user, m).metadata = t
  BY <1>1
<1>7. Retrieved(Stored(user, m)) = [uuid |-> Get(t, "zep_uuid", ""), role |-> Get(t, "role", "ai"),
                                    content |-> content]
  BY <1>6 DEF Retrieved
<1>8. /\ Retrieved(Stored(user, m)).content = content
      /\ Retrieved(Stored(user, m)).role = role
      /\ Retrieved(Stored(user, m)).uuid = Get(meta, "zep_uuid", "")
  <2> DEFINE r == Retrieved(Stored(user, m))
             gu == Get(t, "zep_uuid", "")
             gr == Get(t, "role", "ai")
  <2>1. r = [uuid |-> gu, role |-> gr, content |-> content]
    BY <1>7
  <2> HIDE DEF r, gu, gr
  <2>2. r.content = content /\ r.role = gr /\ r.uuid = gu
    BY <2>1
  <2>3. QED
    BY <1>4, <1>5, <2>2 DEF r, gu, gr
<1>9. QED
  BY <1>6, <1>8 DEF IsPostOf, meta, role, content

LEMMA MessagesAreKept ==
  ASSUME NEW user, NEW messages, IsList(messages), NEW answered \in 0..Len(messages)
  PROVE  MessagesSurvive(user, messages, answered, Add(user, messages, answered))
<1> DEFINE posts == IF answered < Len(messages) THEN answered + 1 ELSE answered
           added == [i \in 1..posts |-> Stored(user, messages[i])]
<1>1. posts \in Nat
  BY LenProperties DEF IsList
<1>2. Add(user, messages, answered) = added
  BY DEF Add
<1>3. Len(added) = posts /\ DOMAIN added = 1..posts
  <2> HIDE DEF posts
  <2>1. QED
    BY <1>1
<1>4. \A i \in DOMAIN added : added[i] = Stored(user, messages[i])
  OBVIOUS
<1> HIDE DEF added
<1> HIDE DEF posts
<1>5. \A i \in DOMAIN added : IsPostOf(added[i], user, messages[i])
  BY <1>4, StoredIs
<1>6. MessagesSurvive(user, messages, answered, added)
  BY <1>3, <1>5 DEF MessagesSurvive, IsPostOf, posts
<1>7. QED
  BY <1>2, <1>6

-----------------------------------------------------------------------------
(* What each operation of the bridge answers.                              *)
Got == Add(call.user, call.messages, call.answered)
Hit == FromHit(MessagePayload(call.message))
Named == <<EntityPayload(call.item), EdgePayload(call.item), FactPayload(call.item)>>
Session == GetSession(call.session.session, SessionMeta(call.session))
Metadata == UserMetadata(call.profiles)
Merged == MergeProfiles(call.fresh, call.evolved)

LEMMA RememberSteps ==
  ASSUME [Next]_<<call, answer>>
  PROVE  /\ call' = call
         /\ call.op = "messages" => answer' = answer \/ answer' = <<Got>>
         /\ call.op = "message" => answer' = answer \/ answer' = <<Hit>>
         /\ call.op = "named" => answer' = answer \/ answer' = <<Named>>
         /\ call.op = "session" => answer' = answer \/ answer' = <<Session>>
         /\ call.op = "profiles" => answer' = answer \/ answer' = <<Metadata>>
         /\ call.op = "merge" => answer' = answer \/ answer' = <<Merged>>
BY DEF Next, Traverse, Cut, Evidence, Compile, Read, Extract, Evolve, Remember, Answer,
       Got, Hit, Named, Session, Metadata, Merged

(* What goes to the bridge in Zep's terms is in what it sends and reads,   *)
(* however many messages, profiles or attributes there are: a message is   *)
(* posted once, in its place, for its session and said by whom it was said *)
(* whatever its metadata claims, up to the post that fails.                *)
THEOREM MemoriesLast == Spec => []MemoriesSurvive
<1> DEFINE Inv == call \in Calls /\ MemoriesSurvive
           Ops == {"messages", "message", "named", "session", "profiles", "merge"}
<1>1. Init => Inv
  BY DEF Init, MemoriesSurvive, Answered
<1>2. Inv /\ [Next]_<<call, answer>> => Inv'
  <2> SUFFICES ASSUME Inv, [Next]_<<call, answer>>
               PROVE  Inv'
    OBVIOUS
  <2>1. /\ call' = call
        /\ call.op = "messages" => answer' = answer \/ answer' = <<Got>>
        /\ call.op = "message" => answer' = answer \/ answer' = <<Hit>>
        /\ call.op = "named" => answer' = answer \/ answer' = <<Named>>
        /\ call.op = "session" => answer' = answer \/ answer' = <<Session>>
        /\ call.op = "profiles" => answer' = answer \/ answer' = <<Metadata>>
        /\ call.op = "merge" => answer' = answer \/ answer' = <<Merged>>
    BY RememberSteps
  <2>2. CASE call.op \notin Ops
    BY <2>1, <2>2 DEF MemoriesSurvive, Answered
  <2>3. CASE answer' = answer
    BY <2>1, <2>3 DEF MemoriesSurvive, Answered
  <2>4. CASE call.op = "messages" /\ answer' = <<Got>>
    <3>1. MessagesSurvive(call.user, call.messages, call.answered, Got)
      BY <2>4, CallsAreSound, MessagesAreKept DEF Got
    <3>2. MessagesSurvive(call'.user, call'.messages, call'.answered, answer'[1])
      BY <2>1, <2>4, <3>1
    <3>3. QED
      BY <2>1, <2>4, <3>2 DEF MemoriesSurvive, Answered
  <2>5. CASE call.op = "message" /\ answer' = <<Hit>>
    <3>1. Hit = FromMessage(call.message)
      BY <2>5, MessageIsKept DEF Hit
    <3>2. answer'[1] = FromMessage(call'.message)
      BY <2>1, <2>5, <3>1
    <3>3. QED
      BY <2>1, <2>5, <3>2 DEF MemoriesSurvive, Answered
  <2>6. CASE call.op = "named" /\ answer' = <<Named>>
    <3>1. NamesSurvive(call.item, Named)
      BY <2>6, NamesAreKept DEF Named
    <3>2. NamesSurvive(call'.item, answer'[1])
      BY <2>1, <2>6, <3>1
    <3>3. QED
      BY <2>1, <2>6, <3>2 DEF MemoriesSurvive, Answered
  <2>7. CASE call.op = "session" /\ answer' = <<Session>>
    <3>1. SessionSurvives(call.session, Session)
      BY <2>7, CallsAreSound, SessionIsKept DEF Session
    <3>2. SessionSurvives(call'.session, answer'[1])
      BY <2>1, <2>7, <3>1
    <3>3. QED
      BY <2>1, <2>7, <3>2 DEF MemoriesSurvive, Answered
  <2>8. CASE call.op = "profiles" /\ answer' = <<Metadata>>
    <3>1. LastWins(call.profiles, Metadata)
      BY <2>8, CallsAreSound, LastProfileWins DEF Metadata
    <3>2. LastWins(call'.profiles, answer'[1])
      BY <2>1, <2>8, <3>1
    <3>3. QED
      BY <2>1, <2>8, <3>2 DEF MemoriesSurvive, Answered
  <2>9. CASE call.op = "merge" /\ answer' = <<Merged>>
    <3>1. ProfilesMerge(call.fresh, call.evolved, Merged)
      BY <2>9, ProfilesAreMerged DEF Merged
    <3>2. ProfilesMerge(call'.fresh, call'.evolved, answer'[1])
      BY <2>1, <2>9, <3>1
    <3>3. QED
      BY <2>1, <2>9, <3>2 DEF MemoriesSurvive, Answered
  <2>10. QED
    BY <2>1, <2>2, <2>3, <2>4, <2>5, <2>6, <2>7, <2>8, <2>9
<1>3. QED
  BY <1>1, <1>2, PTL DEF Spec

-----------------------------------------------------------------------------
(***************************************************************************)
(* Repeating a step: the values it goes through, found in any way.         *)
(***************************************************************************)
Chain(f, n, A, base, G) ==
  f \in [0..n -> A] /\ f[0] = base /\ \A k \in 1..n : f[k] = G[f[k-1]]

LEMMA ChainExists ==
  ASSUME NEW n \in Nat, NEW A, NEW base \in A, NEW G \in [A -> A]
  PROVE  \E f : Chain(f, n, A, base, G)
<1> DEFINE Good(k) == \E f : Chain(f, k, A, base, G)
           T == {k \in Nat : Good(k)}
<1>1. 0 \in T
  <2> DEFINE f == [m \in 0..0 |-> base]
  <2>1. f \in [0..0 -> A] /\ f[0] = base /\ 1..0 = {}
    OBVIOUS
  <2>2. Chain(f, 0, A, base, G)
    BY <2>1 DEF Chain
  <2>3. QED
    BY <2>2
<1>2. ASSUME NEW k \in Nat, k \in T
      PROVE  k + 1 \in T
  <2>1. PICK f : Chain(f, k, A, base, G)
    BY <1>2
  <2>2. f \in [0..k -> A] /\ f[0] = base /\ \A m \in 1..k : f[m] = G[f[m-1]]
    BY <2>1 DEF Chain
  <2> DEFINE h == [m \in 0..k+1 |-> IF m = k + 1 THEN G[f[k]] ELSE f[m]]
  <2>3. \A m \in 0..k+1 : m = k + 1 \/ m \in 0..k
    OBVIOUS
  <2>4. k \in 0..k /\ f[k] \in A /\ G[f[k]] \in A
    BY <2>2
  <2>5. h \in [0..k+1 -> A]
    BY <2>2, <2>3, <2>4
  <2>6. h[0] = base
    BY <2>2
  <2>7. \A m \in 0..k : h[m] = f[m]
    OBVIOUS
  <2>8. h[k+1] = G[f[k]]
    OBVIOUS
  <2> HIDE DEF h
  <2>9. \A m \in 1..k+1 : h[m] = G[h[m-1]]
    <3> SUFFICES ASSUME NEW m \in 1..k+1 PROVE h[m] = G[h[m-1]]
      OBVIOUS
    <3>1. CASE m = k + 1
      <4>1. m - 1 = k
        BY <3>1
      <4>2. QED
        BY <2>4, <2>7, <2>8, <3>1, <4>1
    <3>2. CASE m # k + 1
      <4>1. m \in 1..k /\ m \in 0..k /\ m - 1 \in 0..k
        BY <3>2
      <4>2. QED
        BY <2>2, <2>7, <4>1
    <3>3. QED
      BY <3>1, <3>2
  <2>10. Chain(h, k + 1, A, base, G)
    BY <2>5, <2>6, <2>9 DEF Chain
  <2>11. QED
    BY <2>10
<1>3. \A k \in Nat : k \in T
  <2> HIDE DEF T
  <2>1. QED
    BY <1>1, <1>2, SetInduction
<1>4. QED
  BY <1>3

-----------------------------------------------------------------------------
(* The ids an edge leads to from a set of ids.                             *)
Around(g, A) ==
  {OtherEnd(p[1], p[2]) : p \in {q \in ToSet(g.edges) \X A : q[2] \in {q[1].source, q[1].target}}}

EndsOf(g) == {x.source : x \in ToSet(g.edges)} \union {x.target : x \in ToSet(g.edges)}

LEMMA AroundEnds ==
  ASSUME NEW g, NEW A
  PROVE  Around(g, A) \subseteq EndsOf(g)
BY DEF Around, EndsOf, OtherEnd

LEMMA AroundIs ==
  ASSUME NEW g, NEW A, NEW n
  PROVE  n \in Around(g, A) <=>
           \E x \in ToSet(g.edges), v \in A : v \in {x.source, x.target} /\ n = OtherEnd(x, v)
<1> DEFINE Q == {q \in ToSet(g.edges) \X A : q[2] \in {q[1].source, q[1].target}}
<1>1. n \in Around(g, A) <=> \E p \in Q : n = OtherEnd(p[1], p[2])
  BY DEF Around
<1>2. \A x \in ToSet(g.edges), v \in A : <<x, v>> \in ToSet(g.edges) \X A /\ <<x, v>>[1] = x /\ <<x, v>>[2] = v
  OBVIOUS
<1>3. \A p \in Q : p[1] \in ToSet(g.edges) /\ p[2] \in A /\ p[2] \in {p[1].source, p[1].target}
  OBVIOUS
<1>4. \A x \in ToSet(g.edges), v \in A : v \in {x.source, x.target} => <<x, v>> \in Q
  BY <1>2
<1>5. ASSUME NEW x \in ToSet(g.edges), NEW v \in A, v \in {x.source, x.target}, n = OtherEnd(x, v)
      PROVE  \E p \in Q : n = OtherEnd(p[1], p[2])
  <2> DEFINE p == <<x, v>>
  <2>1. p \in Q /\ p[1] = x /\ p[2] = v
    BY <1>5, <1>4
  <2> HIDE DEF p, Q
  <2>2. QED
    BY <1>5, <2>1
<1> HIDE DEF Q
<1>6. ASSUME NEW p \in Q, n = OtherEnd(p[1], p[2])
      PROVE  \E x \in ToSet(g.edges), v \in A : v \in {x.source, x.target} /\ n = OtherEnd(x, v)
  BY <1>3, <1>6
<1>7. QED
  BY <1>1, <1>5, <1>6

NearStep(g, e, n, f) ==
  [m \in 0..n |-> IF m = 0 THEN {e} ELSE f[m-1] \union Around(g, f[m-1])]
NearOf(g, e, n) == CHOOSE f : f = NearStep(g, e, n, f)

LEMMA NearIs ==
  ASSUME NEW g, NEW e, NEW n \in Nat
  PROVE  /\ NearOf(g, e, n) = NearStep(g, e, n, NearOf(g, e, n))
         /\ Near(g, e, n) = NearOf(g, e, n)[n]
<1> DEFINE A == SUBSET (EndsOf(g) \union {e})
           G == [v \in A |-> v \union Around(g, v)]
<1>1. {e} \in A
  OBVIOUS
<1>2. G \in [A -> A] /\ \A v \in A : G[v] = v \union Around(g, v)
  BY AroundEnds
<1>3. PICK f : Chain(f, n, A, {e}, G)
  <2> HIDE DEF A, G
  <2>1. QED
    BY <1>1, <1>2, ChainExists
<1>4. f \in [0..n -> A] /\ f[0] = {e} /\ \A m \in 1..n : f[m] = G[f[m-1]]
  BY <1>3 DEF Chain
<1> HIDE DEF A, G
<1>5. \A m \in 0..n : f[m] = IF m = 0 THEN {e} ELSE f[m-1] \union Around(g, f[m-1])
  <2>1. \A m \in 0..n : m # 0 => m \in 1..n /\ m - 1 \in 0..n
    OBVIOUS
  <2>2. \A m \in 1..n : m - 1 \in 0..n /\ f[m-1] \in A
    BY <1>4
  <2>3. QED
    BY <1>2, <1>4, <2>1, <2>2
<1>6. f = NearStep(g, e, n, f)
  BY <1>4, <1>5 DEF NearStep
<1>7. NearOf(g, e, n) = NearStep(g, e, n, NearOf(g, e, n))
  BY <1>6 DEF NearOf
<1>8. Near(g, e, n) = NearOf(g, e, n)[n]
  BY DEF Near, NearOf, NearStep, Around
<1>9. QED
  BY <1>7, <1>8

LEMMA NearValues ==
  ASSUME NEW g, NEW e, NEW n \in Nat
  PROVE  /\ NearOf(g, e, n)[0] = {e}
         /\ \A m \in 1..n : NearOf(g, e, n)[m] =
              NearOf(g, e, n)[m-1] \union Around(g, NearOf(g, e, n)[m-1])
<1> DEFINE f == NearOf(g, e, n)
<1>1. f = NearStep(g, e, n, f)
  BY NearIs
<1> HIDE DEF f
<1>2. \A m \in 0..n : f[m] = IF m = 0 THEN {e} ELSE f[m-1] \union Around(g, f[m-1])
  BY <1>1 DEF NearStep
<1>3. 0 \in 0..n /\ \A m \in 1..n : m \in 0..n /\ m # 0
  OBVIOUS
<1>4. QED
  BY <1>2, <1>3 DEF f

LEMMA NearAgree ==
  ASSUME NEW g, NEW e, NEW n \in Nat
  PROVE  NearOf(g, e, n + 1)[n] = NearOf(g, e, n)[n]
<1> DEFINE a == NearOf(g, e, n + 1)
           b == NearOf(g, e, n)
           T == {m \in Nat : m =< n => a[m] = b[m]}
<1>1. a[0] = {e} /\ b[0] = {e}
  BY NearValues
<1>2. \A m \in 1..n+1 : a[m] = a[m-1] \union Around(g, a[m-1])
  BY NearValues
<1>3. \A m \in 1..n : b[m] = b[m-1] \union Around(g, b[m-1])
  BY NearValues
<1> HIDE DEF a, b
<1>4. 0 \in T
  BY <1>1
<1>5. ASSUME NEW m \in Nat, m \in T
      PROVE  m + 1 \in T
  <2> SUFFICES ASSUME m + 1 =< n PROVE a[m+1] = b[m+1]
    OBVIOUS
  <2>1. m + 1 \in 1..n /\ m + 1 \in 1..n+1 /\ (m + 1) - 1 = m /\ a[m] = b[m]
    BY <1>5
  <2>2. QED
    BY <1>2, <1>3, <2>1
<1>6. \A m \in Nat : m \in T
  <2> HIDE DEF T
  <2>1. QED
    BY <1>4, <1>5, SetInduction
<1>7. QED
  BY <1>6 DEF a, b

(* Hop by hop.                                                             *)
LEMMA NearHops ==
  ASSUME NEW g, NEW e, NEW k \in Nat
  PROVE  /\ Near(g, e, 0) = {e}
         /\ Near(g, e, k + 1) = Near(g, e, k) \union Around(g, Near(g, e, k))
<1>1. Near(g, e, 0) = {e}
  <2>1. Near(g, e, 0) = NearOf(g, e, 0)[0]
    BY NearIs
  <2>2. QED
    BY <2>1, NearValues
<1>2. Near(g, e, k + 1) = NearOf(g, e, k + 1)[k + 1] /\ Near(g, e, k) = NearOf(g, e, k)[k]
  BY NearIs
<1>3. k + 1 \in 1..k+1 /\ (k + 1) - 1 = k
  OBVIOUS
<1>4. NearOf(g, e, k + 1)[k + 1] = NearOf(g, e, k + 1)[k] \union Around(g, NearOf(g, e, k + 1)[k])
  <2>1. \A m \in 1..k+1 : NearOf(g, e, k + 1)[m] =
              NearOf(g, e, k + 1)[m-1] \union Around(g, NearOf(g, e, k + 1)[m-1])
    BY NearValues
  <2>2. QED
    BY <1>3, <2>1
<1>5. QED
  BY <1>1, <1>2, <1>4, NearAgree

LEMMA NearWidens ==
  ASSUME NEW g, NEW e, NEW k \in Nat, NEW m \in Nat, k =< m
  PROVE  Near(g, e, k) \subseteq Near(g, e, m)
<1> DEFINE T == {d \in Nat : Near(g, e, k) \subseteq Near(g, e, k + d)}
<1>1. 0 \in T
  OBVIOUS
<1>2. ASSUME NEW d \in Nat, d \in T
      PROVE  d + 1 \in T
  <2>1. k + d \in Nat /\ k + (d + 1) = (k + d) + 1
    OBVIOUS
  <2>2. Near(g, e, (k + d) + 1) = Near(g, e, k + d) \union Around(g, Near(g, e, k + d))
    BY <2>1, NearHops
  <2>3. QED
    BY <1>2, <2>1, <2>2
<1>3. \A d \in Nat : d \in T
  <2> HIDE DEF T
  <2>1. QED
    BY <1>1, <1>2, SetInduction
<1>4. m - k \in Nat /\ k + (m - k) = m
  OBVIOUS
<1>5. QED
  BY <1>3, <1>4

-----------------------------------------------------------------------------
(* A list of edges that gives each of them once.                           *)
LEMMA EdgesOfIs ==
  ASSUME NEW g, NEW v, GivesOnce(g.edges)
  PROVE  /\ EdgesOf(g, v) \in Seq(ToSet(g.edges))
         /\ ToSet(EdgesOf(g, v)) = {x \in ToSet(g.edges) : v \in {x.source, x.target}}
         /\ \A i, j \in 1..Len(EdgesOf(g, v)) : EdgesOf(g, v)[i] = EdgesOf(g, v)[j] => i = j
<1> DEFINE s == g.edges
           E == ToSet(s)
           set == {x \in E : v \in {x.source, x.target}}
           r == Those(s, set)
<1>1. s \in Seq(E) /\ \A i, j \in DOMAIN s : s[i] = s[j] => i = j
  BY DEF GivesOnce, IsList
<1>2. r \in Seq(E) /\ ToSet(r) = E \intersect set
  <2> HIDE DEF E, set, s
  <2>1. QED
    BY <1>1, ThoseAre DEF E
<1>3. EdgesOf(g, v) = r
  BY DEF EdgesOf
<1>4. PICK idx : PlacesOf(idx, r, s, set, Len(s))
  <2> HIDE DEF E, set, s
  <2>1. QED
    BY <1>1, ThosePlaces
<1> HIDE DEF r, set, E
<1>5. /\ idx \in [1..Len(r) -> 1..Len(s)]
      /\ \A i \in 1..Len(r) : r[i] = s[idx[i]]
      /\ \A i, j \in 1..Len(r) : i < j => idx[i] < idx[j]
  BY <1>4 DEF PlacesOf
<1>6. DOMAIN s = 1..Len(s) /\ Len(s) \in Nat /\ Len(r) \in Nat
  BY <1>1, <1>2, LenProperties
<1>7. ASSUME NEW i \in 1..Len(r), NEW j \in 1..Len(r), r[i] = r[j]
      PROVE  i = j
  <2>1. idx[i] \in 1..Len(s) /\ idx[j] \in 1..Len(s) /\ s[idx[i]] = s[idx[j]]
    BY <1>5, <1>7
  <2>2. idx[i] = idx[j]
    BY <1>1, <1>6, <2>1
  <2>3. i < j => idx[i] < idx[j]
    BY <1>5
  <2>4. j < i => idx[j] < idx[i]
    BY <1>5
  <2>5. ~ (i < j) /\ ~ (j < i)
    <3>1. \A a, b \in 1..Len(s) : a = b => ~ (a < b)
      OBVIOUS
    <3>2. QED
      BY <2>1, <2>2, <2>3, <2>4, <3>1
  <2>6. QED
    BY <1>6, <2>5
<1>8. QED
  BY <1>2, <1>3, <1>7 DEF set, E

LEMMA AheadIs ==
  ASSUME NEW E, NEW es \in Seq(E), NEW v, NEW visited
  PROVE  /\ Ahead(es, v, visited) \in Seq(ToSet(Ahead(es, v, visited)))
         /\ ToSet(Ahead(es, v, visited)) = {OtherEnd(x, v) : x \in ToSet(es)} \ visited
         /\ Len(Ahead(es, v, visited)) =< Len(es)
<1> DEFINE ends == [i \in DOMAIN es |-> OtherEnd(es[i], v)]
           O == {OtherEnd(x, v) : x \in ToSet(es)}
           r == Those(ends, ToSet(ends) \ visited)
<1>1. Ahead(es, v, visited) = r
  BY DEF Ahead
<1>2. DOMAIN es = 1..Len(es) /\ Len(es) \in Nat
  BY LenProperties
<1>3. ToSet(ends) = O
  BY DEF ToSet
<1>4. ends \in Seq(O) /\ Len(ends) = Len(es)
  <2>1. \A i \in 1..Len(es) : OtherEnd(es[i], v) \in O
    BY <1>2 DEF ToSet
  <2>2. ends \in [1..Len(es) -> O]
    BY <1>2, <2>1
  <2> HIDE DEF ends, O
  <2>3. ends \in Seq(O)
    BY <1>2, <2>2, SeqDef
  <2>4. DOMAIN ends = 1..Len(es) /\ DOMAIN ends = 1..Len(ends) /\ Len(ends) \in Nat
    BY <2>2, <2>3, LenProperties
  <2>5. QED
    BY <1>2, <2>3, <2>4
<1> HIDE DEF ends, O
<1>5. r \in Seq(O) /\ ToSet(r) = ToSet(ends) \intersect (ToSet(ends) \ visited)
  BY <1>4, ThoseAre
<1>6. Len(r) =< Len(es)
  BY <1>4, ThoseLength
<1> HIDE DEF r
<1>7. r \in Seq(ToSet(r))
  <2>1. DOMAIN r = 1..Len(r) /\ Len(r) \in Nat
    BY <1>5, LenProperties
  <2>2. r \in [1..Len(r) -> ToSet(r)]
    BY <1>5, <2>1 DEF ToSet
  <2>3. QED
    BY <2>1, <2>2, SeqDef
<1>8. QED
  BY <1>1, <1>3, <1>5, <1>6, <1>7 DEF O

(* An id and an edge at it.                                                *)
Meets(g, A) == {q \in ToSet(g.edges) \X A : q[2] \in {q[1].source, q[1].target}}

LEMMA MeetsAre ==
  ASSUME NEW g, NEW A
  PROVE  /\ \A q \in Meets(g, A) : /\ q = <<q[1], q[2]>> /\ q[1] \in ToSet(g.edges) /\ q[2] \in A
                                   /\ q[2] \in {q[1].source, q[1].target}
         /\ \A x \in ToSet(g.edges), v \in A : v \in {x.source, x.target} => <<x, v>> \in Meets(g, A)
<1>1. \A x \in ToSet(g.edges), v \in A :
        <<x, v>> \in ToSet(g.edges) \X A /\ <<x, v>>[1] = x /\ <<x, v>>[2] = v
  OBVIOUS
<1>2. QED
  BY <1>1 DEF Meets

LEMMA MeetsBounded ==
  ASSUME NEW g, NEW A, GivesOnce(g.edges)
  PROVE  IsFiniteSet(Meets(g, A)) /\ Cardinality(Meets(g, A)) =< 2 * Len(g.edges)
<1> DEFINE s == g.edges
           E == ToSet(s)
           n == Len(s)
           M == Meets(g, A)
           side(q) == IF q[2] = q[1].source THEN 1 ELSE 2
           f == [q \in M |-> <<q[1], side(q)>>]
<1>1. s \in Seq(E) /\ \A i, j \in DOMAIN s : s[i] = s[j] => i = j
  BY DEF GivesOnce, IsList
<1>2. n \in Nat /\ DOMAIN s = 1..n
  BY <1>1, LenProperties
<1>3. IsFiniteSet(E) /\ Cardinality(E) = n
  <2>1. IsFiniteSet(1..n) /\ Cardinality(1..n) = n
    BY <1>2, FS_Interval
  <2>2. s \in [1..n -> E]
    BY <1>1, <1>2, LenProperties
  <2>3. \A t \in E : \E a \in 1..n : s[a] = t
    BY <1>2 DEF ToSet
  <2>4. \A a, b \in 1..n : s[a] = s[b] => a = b
    BY <1>1, <1>2
  <2> HIDE DEF E, n, s
  <2>5. QED
    BY <2>1, <2>2, <2>3, <2>4, BijectionCounts
<1>4. IsFiniteSet(E \X {1, 2}) /\ Cardinality(E \X {1, 2}) = n * 2
  <2>1. 1..2 = {1, 2} /\ IsFiniteSet(1..2) /\ Cardinality(1..2) = 2
    <3>1. \A m \in Nat : IsFiniteSet(1..m) /\ Cardinality(1..m) = m
      BY FS_Interval
    <3>2. 1..2 = {1, 2}
      OBVIOUS
    <3>3. QED
      BY <3>1, <3>2
  <2> HIDE DEF E, n
  <2>2. IsFiniteSet({1, 2}) /\ Cardinality({1, 2}) = 2
    BY <2>1
  <2>3. QED
    BY <1>3, <2>2, FS_Product
<1>m. \A q \in M : /\ q = <<q[1], q[2]>> /\ q[1] \in E
                   /\ q[2] \in {q[1].source, q[1].target}
  BY MeetsAre
<1> HIDE DEF E, n, M, s
<1>5. f \in [M -> E \X {1, 2}]
  BY <1>m
<1>6. ASSUME NEW p \in M, NEW q \in M, f[p] = f[q]
      PROVE  p = q
  <2>1. p[1] = q[1] /\ side(p) = side(q)
    BY <1>6
  <2>2. p[2] = q[2]
    BY <1>m, <2>1
  <2>3. QED
    BY <1>m, <2>1, <2>2
<1> HIDE DEF f
<1>7. f \in Injection(M, E \X {1, 2})
  BY <1>5, <1>6 DEF Injection, IsInjective
<1>8. IsFiniteSet(M) /\ Cardinality(M) =< Cardinality(E \X {1, 2})
  BY <1>4, <1>7, FS_Injection
<1>9. QED
  BY <1>2, <1>4, <1>8 DEF M, n, s

(* A list of edges that has each edge once for each of its ends in a set.  *)
Matches(b, g, es, A) ==
  /\ b \in [1..Len(es) -> Meets(g, A)]
  /\ \A i \in 1..Len(es) : b[i][1] = es[i]
  /\ \A i, j \in 1..Len(es) : b[i] = b[j] => i = j
  /\ \A q \in Meets(g, A) : \E i \in 1..Len(es) : b[i] = q

Collected(g, es, A) == es \in Seq(ToSet(g.edges)) /\ \E b : Matches(b, g, es, A)

LEMMA CollectedNone ==
  ASSUME NEW g
  PROVE  Collected(g, <<>>, {})
<1> DEFINE b == [i \in 1..0 |-> <<>>]
<1>1. Meets(g, {}) = {} /\ 1..0 = {} /\ Len(<<>>) = 0 /\ <<>> \in Seq(ToSet(g.edges))
  BY DEF Meets
<1>2. Matches(b, g, <<>>, {})
  BY <1>1 DEF Matches
<1>3. QED
  BY <1>1, <1>2 DEF Collected

LEMMA CollectedGrows ==
  ASSUME NEW g, NEW A, NEW v, v \notin A, GivesOnce(g.edges),
         NEW es, Collected(g, es, A)
  PROVE  Collected(g, es \o EdgesOf(g, v), A \union {v})
<1> DEFINE E == ToSet(g.edges)
           r == EdgesOf(g, v)
           k == Len(es)
           n == Len(r)
           s == es \o r
           B == A \union {v}
<1>1. /\ r \in Seq(E) /\ ToSet(r) = {x \in E : v \in {x.source, x.target}}
      /\ \A i, j \in 1..n : r[i] = r[j] => i = j
  BY EdgesOfIs
<1>2. es \in Seq(E)
  BY DEF Collected
<1>3. PICK b : Matches(b, g, es, A)
  BY DEF Collected
<1>4. /\ b \in [1..k -> Meets(g, A)]
      /\ \A i \in 1..k : b[i][1] = es[i]
      /\ \A i, j \in 1..k : b[i] = b[j] => i = j
      /\ \A q \in Meets(g, A) : \E i \in 1..k : b[i] = q
  BY <1>3 DEF Matches
<1>5. \A q \in Meets(g, A) : q[2] \in A /\ q[2] # v /\ q \in Meets(g, B)
  BY DEF Meets
<1>6. /\ k \in Nat /\ n \in Nat /\ DOMAIN r = 1..n
      /\ s \in Seq(E) /\ Len(s) = k + n
      /\ \A i \in 1..k : s[i] = es[i]
      /\ \A i \in k+1..k+n : s[i] = r[i-k]
  <2> HIDE DEF E, r
  <2>1. k \in Nat /\ n \in Nat /\ DOMAIN r = 1..n
    BY <1>1, <1>2, LenProperties
  <2>2. s \in Seq(E) /\ Len(s) = k + n /\ \A i \in 1..k+n : s[i] = IF i =< k THEN es[i] ELSE r[i-k]
    BY <1>1, <1>2, ConcatProperties
  <2>3. (\A i \in 1..k : i \in 1..k+n /\ i =< k) /\ (\A i \in k+1..k+n : i \in 1..k+n /\ ~ (i =< k))
    BY <2>1
  <2>4. QED
    BY <2>1, <2>2, <2>3
<1> DEFINE c == [i \in 1..k+n |-> IF i =< k THEN b[i] ELSE <<r[i-k], v>>]
<1>7. \A i \in 1..n : r[i] \in E /\ v \in {r[i].source, r[i].target}
  <2>1. \A i \in 1..n : r[i] \in ToSet(r)
    BY <1>6 DEF ToSet
  <2>2. QED
    BY <1>1, <2>1
<1>8. \A i \in 1..n : <<r[i], v>> \in Meets(g, B) /\ <<r[i], v>>[1] = r[i] /\ <<r[i], v>>[2] = v
  <2>1. v \in B
    OBVIOUS
  <2> HIDE DEF r, B
  <2>2. QED
    BY <1>7, <2>1, MeetsAre
<1>9. \A i \in 1..k+n : i \in 1..k \/ (i \in k+1..k+n /\ i - k \in 1..n)
  BY <1>6
<1>c. /\ \A i \in 1..k : i \in 1..k+n /\ c[i] = b[i]
      /\ \A i \in k+1..k+n : i \in 1..k+n /\ c[i] = <<r[i-k], v>>
  BY <1>6
<1>10. c \in [1..k+n -> Meets(g, B)]
  <2>1. \A i \in 1..k : b[i] \in Meets(g, B)
    BY <1>4, <1>5
  <2>2. \A i \in 1..k+n : c[i] \in Meets(g, B)
    BY <1>8, <1>9, <1>c, <2>1
  <2>3. QED
    BY <2>2
<1> HIDE DEF c, r, s, B, E
<1>11. \A i \in 1..k+n : c[i][1] = s[i]
  <2>1. \A i \in 1..k : c[i][1] = s[i]
    BY <1>4, <1>6, <1>c
  <2>2. \A i \in k+1..k+n : c[i][1] = s[i]
    BY <1>6, <1>8, <1>9, <1>c
  <2>3. QED
    BY <1>9, <2>1, <2>2
<1>12. ASSUME NEW i \in 1..k+n, NEW j \in 1..k+n, c[i] = c[j]
       PROVE  i = j
  <2>1. CASE i \in 1..k /\ j \in 1..k
    BY <1>4, <1>12, <1>c, <2>1
  <2>2. CASE i \in 1..k /\ j \in k+1..k+n
    <3>1. b[i][2] # v /\ c[i] = b[i]
      BY <1>4, <1>5, <1>c, <2>2
    <3>2. c[j][2] = v
      BY <1>8, <1>9, <1>c, <2>2
    <3>3. QED
      BY <1>12, <3>1, <3>2
  <2>3. CASE i \in k+1..k+n /\ j \in 1..k
    <3>1. b[j][2] # v /\ c[j] = b[j]
      BY <1>4, <1>5, <1>c, <2>3
    <3>2. c[i][2] = v
      BY <1>8, <1>9, <1>c, <2>3
    <3>3. QED
      BY <1>12, <3>1, <3>2
  <2>4. CASE i \in k+1..k+n /\ j \in k+1..k+n
    <3>1. i - k \in 1..n /\ j - k \in 1..n
      BY <1>6, <2>4
    <3>2. c[i][1] = r[i-k] /\ c[j][1] = r[j-k]
      BY <1>8, <1>c, <2>4, <3>1
    <3>3. i - k = j - k
      BY <1>1, <1>12, <3>1, <3>2 DEF r
    <3>4. QED
      BY <1>6, <3>3
  <2>5. QED
    BY <1>9, <2>1, <2>2, <2>3, <2>4
<1>13. ASSUME NEW q \in Meets(g, B)
       PROVE  \E i \in 1..k+n : c[i] = q
  <2>1. q = <<q[1], q[2]>> /\ q[1] \in E /\ q[2] \in B /\ q[2] \in {q[1].source, q[1].target}
    BY MeetsAre DEF E
  <2>2. CASE q[2] \in A
    <3>1. q \in Meets(g, A)
      BY <2>1, <2>2, MeetsAre DEF E
    <3>2. PICK i \in 1..k : b[i] = q
      BY <1>4, <3>1
    <3>3. QED
      BY <1>c, <3>2
  <2>3. CASE q[2] = v
    <3>1. q[1] \in ToSet(r)
      BY <1>1, <2>1, <2>3 DEF r, E
    <3>2. PICK i \in 1..n : r[i] = q[1]
      BY <1>6, <3>1 DEF ToSet
    <3>3. i + k \in k+1..k+n /\ (i + k) - k = i
      BY <1>6
    <3>4. c[i+k] = q
      BY <1>c, <2>1, <2>3, <3>2, <3>3
    <3>5. QED
      BY <1>c, <3>3, <3>4
  <2>4. QED
    BY <2>1, <2>2, <2>3 DEF B
<1>14. Matches(c, g, s, B)
  BY <1>6, <1>10, <1>11, <1>12, <1>13 DEF Matches
<1>15. QED
  BY <1>6, <1>14 DEF Collected, s, r, B, E

LEMMA CollectedCounts ==
  ASSUME NEW g, NEW A, NEW es, Collected(g, es, A)
  PROVE  /\ Cardinality(Meets(g, A)) = Len(es)
         /\ \A x \in ToSet(g.edges) :
              Cardinality({i \in DOMAIN es : es[i] = x}) = Cardinality({x.source, x.target} \intersect A)
<1> DEFINE k == Len(es)
<1>1. PICK b : Matches(b, g, es, A)
  BY DEF Collected
<1>2. /\ b \in [1..k -> Meets(g, A)]
      /\ \A i \in 1..k : b[i][1] = es[i]
      /\ \A i, j \in 1..k : b[i] = b[j] => i = j
      /\ \A q \in Meets(g, A) : \E i \in 1..k : b[i] = q
  BY <1>1 DEF Matches
<1>3. k \in Nat /\ DOMAIN es = 1..k
  BY LenProperties DEF Collected
<1>4. IsFiniteSet(1..k) /\ Cardinality(1..k) = k
  <2>1. \A m \in Nat : IsFiniteSet(1..m) /\ Cardinality(1..m) = m
    BY FS_Interval
  <2>2. QED
    BY <1>3, <2>1
<1>5. Cardinality(Meets(g, A)) = k
  <2> DEFINE I == 1..k
             M == Meets(g, A)
  <2>1. /\ b \in [I -> M] /\ \A i, j \in I : b[i] = b[j] => i = j
        /\ \A q \in M : \E i \in I : b[i] = q
    BY <1>2
  <2>2. IsFiniteSet(I) /\ Cardinality(I) = k
    BY <1>4
  <2> HIDE DEF I, M
  <2>3. Cardinality(I) = Cardinality(M)
    BY <2>1, <2>2, BijectionCounts
  <2>4. QED
    BY <2>2, <2>3 DEF M
<1>6. ASSUME NEW x \in ToSet(g.edges)
      PROVE  Cardinality({i \in DOMAIN es : es[i] = x}) = Cardinality({x.source, x.target} \intersect A)
  <2> DEFINE P == {i \in 1..k : es[i] = x}
             Q == {x.source, x.target} \intersect A
             f == [i \in P |-> b[i][2]]
  <2>m. \A q \in Meets(g, A) : /\ q = <<q[1], q[2]>> /\ q[2] \in A
                               /\ q[2] \in {q[1].source, q[1].target}
    BY MeetsAre
  <2>1. \A i \in P : i \in 1..k /\ b[i] \in Meets(g, A) /\ b[i][1] = x
    BY <1>2
  <2>2. f \in [P -> Q]
    BY <2>m, <2>1
  <2>3. ASSUME NEW i \in P, NEW j \in P, f[i] = f[j] PROVE i = j
    <3>1. b[i][1] = b[j][1] /\ b[i][2] = b[j][2]
      BY <2>1, <2>3
    <3>2. b[i] = <<b[i][1], b[i][2]>> /\ b[j] = <<b[j][1], b[j][2]>>
      BY <2>m, <2>1
    <3>3. b[i] = b[j]
      BY <3>1, <3>2
    <3>4. QED
      BY <1>2, <2>1, <3>3
  <2>4. ASSUME NEW v \in Q PROVE \E i \in P : f[i] = v
    <3>1. <<x, v>> \in Meets(g, A)
      BY MeetsAre
    <3>2. PICK i \in 1..k : b[i] = <<x, v>>
      BY <1>2, <3>1
    <3>3. b[i][1] = x /\ b[i][2] = v
      BY <3>2
    <3>4. i \in P /\ f[i] = v
      BY <1>2, <3>3
    <3>5. QED
      BY <3>4
  <2>5. IsFiniteSet(P)
    <3>1. P \in SUBSET (1..k)
      OBVIOUS
    <3>2. QED
      BY <1>3, <3>1, PositionsFinite
  <2> HIDE DEF P, Q, f
  <2>6. Cardinality(P) = Cardinality(Q)
    BY <2>2, <2>3, <2>4, <2>5, BijectionCounts
  <2>7. QED
    BY <1>3, <2>6 DEF P, Q
<1>7. QED
  BY <1>5, <1>6

LEMMA MeetsGrow ==
  ASSUME NEW g, NEW A, NEW v, v \notin A, GivesOnce(g.edges)
  PROVE  /\ Cardinality(Meets(g, A)) \in Nat
         /\ Cardinality(Meets(g, A \union {v})) = Cardinality(Meets(g, A)) + Len(EdgesOf(g, v))
<1> DEFINE M == Meets(g, A)
           N == Meets(g, {v})
<1>1. IsFiniteSet(M) /\ IsFiniteSet(N)
  BY MeetsBounded
<1>2. Meets(g, A \union {v}) = M \union N /\ M \intersect N = {}
  BY DEF Meets
<1>3. Cardinality(N) = Len(EdgesOf(g, v))
  <2>1. Collected(g, <<>> \o EdgesOf(g, v), {} \union {v})
    BY CollectedNone, CollectedGrows
  <2>2. EdgesOf(g, v) \in Seq(ToSet(g.edges))
    BY EdgesOfIs
  <2>3. <<>> \o EdgesOf(g, v) = EdgesOf(g, v) /\ {} \union {v} = {v}
    BY <2>2
  <2>4. QED
    BY <2>1, <2>3, CollectedCounts
<1>4. Cardinality(M) \in Nat /\ Cardinality(N) \in Nat
  BY <1>1, FS_CardinalityType
<1> HIDE DEF M, N
<1>5. Cardinality(M \union N) = Cardinality(M) + Cardinality(N) - Cardinality(M \intersect N)
  BY <1>1, FS_Union
<1>6. Cardinality(M \intersect N) = 0
  BY <1>2, FS_EmptySet
<1>7. Cardinality(M \union N) = Cardinality(M) + Len(EdgesOf(g, v))
  BY <1>3, <1>4, <1>5, <1>6
<1>8. QED
  BY <1>2, <1>4, <1>7 DEF M, N

-----------------------------------------------------------------------------
(* What both searches keep up while they explore the ids that are D hops   *)
(* away: who was expanded, the set X, and who waits in the queue q, with   *)
(* its distance.  Ids m hops away are not expanded but done with.          *)
Expanded(g, e, m) == IF m = 0 THEN {} ELSE Near(g, e, m - 1)

Waiting(q, v) == \E i \in 1..Len(q) : q[i].id = v

WaitingAt(q, v, d) == \E i \in 1..Len(q) : q[i].id = v /\ q[i].d = d

QueueInOrder(g, e, m, D, q) ==
  /\ Len(q) \in Nat
  /\ \A i \in 1..Len(q) : q[i].d \in {D, D + 1} /\ q[i].d =< m /\ q[i].id \in Near(g, e, q[i].d)
  /\ \A i, j \in 1..Len(q) : i < j => q[i].d = D \/ q[j].d = D + 1

Frontier(g, e, m, D, q, X, done) ==
  /\ D \in 0..m
  /\ QueueInOrder(g, e, m, D, q)
  /\ X \subseteq Near(g, e, D) /\ (D = m => X = Expanded(g, e, m))
  /\ \A v \in Near(g, e, D) : v \in X \/ WaitingAt(q, v, D) \/ (D = m /\ v \in done)
  /\ D < m => \A v \in Around(g, X) : v \in X \/ Waiting(q, v)

(* r is q without its first, with more to follow.                          *)
Popped(q, r) ==
  /\ Len(q) \in Nat /\ Len(r) \in Nat /\ 1 =< Len(q) /\ Len(q) - 1 =< Len(r)
  /\ \A i \in 1..Len(q)-1 : r[i] = q[i+1]

LEMMA PoppedWait ==
  ASSUME NEW q, NEW r, Popped(q, r), NEW v
  PROVE  /\ Waiting(q, v) => v = q[1].id \/ Waiting(r, v)
         /\ \A d : WaitingAt(q, v, d) => (v = q[1].id /\ d = q[1].d) \/ WaitingAt(r, v, d)
<1>1. /\ Len(q) \in Nat /\ Len(r) \in Nat /\ 1 =< Len(q) /\ Len(q) - 1 =< Len(r)
      /\ \A i \in 1..Len(q)-1 : r[i] = q[i+1]
  BY DEF Popped
<1>2. ASSUME NEW i \in 1..Len(q)
      PROVE  i = 1 \/ \E j \in 1..Len(r) : r[j] = q[i]
  <2>1. i = 1 \/ (i - 1 \in 1..Len(q)-1 /\ i - 1 \in 1..Len(r) /\ (i - 1) + 1 = i)
    BY <1>1
  <2>2. QED
    BY <1>1, <2>1
<1>3. QED
  BY <1>2 DEF Waiting, WaitingAt

LEMMA FrontierDrops ==
  ASSUME NEW g, NEW e, NEW m \in Nat, NEW D, NEW q, NEW X, NEW done, NEW r, NEW more,
         Frontier(g, e, m, D, q, X, done), Popped(q, r), Len(r) = Len(q) - 1,
         q[1].id \in X \/ (D = m /\ q[1].id \in more), done \subseteq more
  PROVE  Frontier(g, e, m, D, r, X, more)
<1>1. /\ Len(q) \in Nat /\ Len(r) \in Nat /\ 1 =< Len(q)
      /\ \A i \in 1..Len(r) : r[i] = q[i+1]
  BY DEF Popped
<1>2. QueueInOrder(g, e, m, D, r)
  <2>1. \A i \in 1..Len(r) : i + 1 \in 1..Len(q)
    BY <1>1
  <2>2. \A i, j \in 1..Len(r) : i < j => i + 1 < j + 1
    OBVIOUS
  <2>3. QueueInOrder(g, e, m, D, q)
    BY DEF Frontier
  <2>4. /\ \A i \in 1..Len(q) : q[i].d \in {D, D + 1} /\ q[i].d =< m /\ q[i].id \in Near(g, e, q[i].d)
        /\ \A i, j \in 1..Len(q) : i < j => q[i].d = D \/ q[j].d = D + 1
    BY <2>3 DEF QueueInOrder
  <2>5. \A i \in 1..Len(r) : r[i].d \in {D, D + 1} /\ r[i].d =< m /\ r[i].id \in Near(g, e, r[i].d)
    BY <1>1, <2>1, <2>4
  <2>6. ASSUME NEW i \in 1..Len(r), NEW j \in 1..Len(r), i < j
        PROVE  r[i].d = D \/ r[j].d = D + 1
    <3>1. q[i+1].d = D \/ q[j+1].d = D + 1
      BY <2>1, <2>2, <2>4, <2>6
    <3>2. QED
      BY <1>1, <3>1
  <2>7. QED
    BY <1>1, <2>5, <2>6 DEF QueueInOrder
<1>3. ASSUME NEW v \in Near(g, e, D)
      PROVE  v \in X \/ WaitingAt(r, v, D) \/ (D = m /\ v \in more)
  <2>1. v \in X \/ WaitingAt(q, v, D) \/ (D = m /\ v \in done)
    BY DEF Frontier
  <2>2. QED
    BY <2>1, PoppedWait
<1>4. D < m => \A v \in Around(g, X) : v \in X \/ Waiting(r, v)
  <2> SUFFICES ASSUME D < m, NEW v \in Around(g, X) PROVE v \in X \/ Waiting(r, v)
    OBVIOUS
  <2>1. D \in 0..m
    BY DEF Frontier
  <2>2. v \in X \/ Waiting(q, v)
    BY DEF Frontier
  <2>3. D # m
    BY <2>1
  <2>4. QED
    BY <2>2, <2>3, PoppedWait
<1>5. QED
  BY <1>2, <1>3, <1>4 DEF Frontier

(* What is added waits one hop further on.                                 *)
Leads(g, D, q, r, X) ==
  /\ \A i \in Len(q)..Len(r) : r[i].d = D + 1 /\ r[i].id \in Around(g, {q[1].id})
  /\ \A v \in Around(g, {q[1].id}) : v \in X \/ Waiting(r, v)

LEMMA FrontierExpands ==
  ASSUME NEW g, NEW e, NEW m \in Nat, NEW D, NEW q, NEW X, NEW done, NEW r, NEW more, NEW Y,
         Frontier(g, e, m, D, q, X, done), Popped(q, r), D < m, q[1].d = D,
         Y = X \union {q[1].id}, Leads(g, D, q, r, Y)
  PROVE  Frontier(g, e, m, D, r, Y, more)
<1> DEFINE v == q[1].id
<1>1. /\ Len(q) \in Nat /\ Len(r) \in Nat /\ 1 =< Len(q) /\ Len(q) - 1 =< Len(r)
      /\ \A i \in 1..Len(q)-1 : r[i] = q[i+1]
  BY DEF Popped
<1>2. D \in 0..m /\ QueueInOrder(g, e, m, D, q) /\ X \subseteq Near(g, e, D)
  BY DEF Frontier
<1>3. /\ \A i \in 1..Len(q) : q[i].d \in {D, D + 1} /\ q[i].d =< m /\ q[i].id \in Near(g, e, q[i].d)
      /\ \A i, j \in 1..Len(q) : i < j => q[i].d = D \/ q[j].d = D + 1
  BY <1>2 DEF QueueInOrder
<1>4. v \in Near(g, e, D) /\ 1 \in 1..Len(q)
  BY <1>1, <1>3
<1>5. D \in Nat /\ D + 1 =< m /\ D # D + 1 /\ D # m
  BY <1>2
<1>6. Around(g, {v}) \subseteq Near(g, e, D + 1)
  <2>1. Near(g, e, D + 1) = Near(g, e, D) \union Around(g, Near(g, e, D))
    BY <1>5, NearHops
  <2>2. \A n \in Around(g, {v}) : n \in Around(g, Near(g, e, D))
    BY <1>4, AroundIs
  <2>3. QED
    BY <2>1, <2>2
<1>l. /\ \A i \in Len(q)..Len(r) : r[i].d = D + 1 /\ r[i].id \in Around(g, {v})
      /\ \A n \in Around(g, {v}) : n \in Y \/ Waiting(r, n)
  BY DEF Leads
<1>7. \A i \in 1..Len(r) : \/ i \in 1..Len(q)-1 /\ i + 1 \in 1..Len(q) /\ r[i] = q[i+1]
                           \/ i \in Len(q)..Len(r) /\ r[i].d = D + 1 /\ r[i].id \in Near(g, e, D + 1)
  <2>1. \A i \in 1..Len(r) : i \in 1..Len(q)-1 \/ i \in Len(q)..Len(r)
    BY <1>1
  <2>2. \A i \in 1..Len(q)-1 : i + 1 \in 1..Len(q)
    BY <1>1
  <2>3. QED
    BY <1>1, <1>6, <1>l, <2>1, <2>2
<1>8. QueueInOrder(g, e, m, D, r)
  <2>1. \A i \in 1..Len(r) : r[i].d \in {D, D + 1} /\ r[i].d =< m /\ r[i].id \in Near(g, e, r[i].d)
    BY <1>3, <1>5, <1>7
  <2>2. ASSUME NEW i \in 1..Len(r), NEW j \in 1..Len(r), i < j
        PROVE  r[i].d = D \/ r[j].d = D + 1
    <3>1. CASE j \in 1..Len(q)-1
      <4>1. /\ i \in 1..Len(q)-1 /\ i + 1 \in 1..Len(q) /\ j + 1 \in 1..Len(q) /\ i + 1 < j + 1
        BY <1>1, <2>2, <3>1
      <4>2. r[i] = q[i+1] /\ r[j] = q[j+1]
        BY <1>1, <3>1, <4>1
      <4>3. QED
        BY <1>3, <4>1, <4>2
    <3>2. CASE j \notin 1..Len(q)-1
      BY <1>7, <3>2
    <3>3. QED
      BY <3>1, <3>2
  <2>3. QED
    BY <1>1, <2>1, <2>2 DEF QueueInOrder
<1>9. ASSUME NEW n \in Near(g, e, D)
      PROVE  n \in Y \/ WaitingAt(r, n, D)
  <2>1. n \in X \/ WaitingAt(q, n, D)
    BY <1>5 DEF Frontier
  <2>2. QED
    BY <2>1, PoppedWait
<1>10. ASSUME NEW n \in Around(g, Y)
       PROVE  n \in Y \/ Waiting(r, n)
  <2>1. PICK x \in ToSet(g.edges), u \in Y : u \in {x.source, x.target} /\ n = OtherEnd(x, u)
    BY AroundIs
  <2>2. CASE u = v
    <3>1. n \in Around(g, {v})
      BY <2>1, <2>2, AroundIs
    <3>2. QED
      BY <1>l, <3>1
  <2>3. CASE u \in X
    <3>1. n \in Around(g, X)
      BY <2>1, <2>3, AroundIs
    <3>2. n \in X \/ Waiting(q, n)
      BY <3>1 DEF Frontier
    <3>3. QED
      BY <3>2, PoppedWait
  <2>4. QED
    BY <2>1, <2>2, <2>3
<1>11. Y \subseteq Near(g, e, D)
  BY <1>2, <1>4
<1>12. QED
  BY <1>2, <1>5, <1>8, <1>9, <1>10, <1>11 DEF Frontier

(* When nobody waits any more at D hops, the ids D + 1 away come next.     *)
LEMMA FrontierAdvances ==
  ASSUME NEW g, NEW e, NEW m \in Nat, NEW D, NEW q, NEW X, NEW done, NEW more,
         Frontier(g, e, m, D, q, X, done), D < m,
         \A i \in 1..Len(q) : q[i].d # D
  PROVE  Frontier(g, e, m, D + 1, q, X, more) /\ X = Near(g, e, D)
<1>1. D \in 0..m /\ QueueInOrder(g, e, m, D, q) /\ X \subseteq Near(g, e, D)
  BY DEF Frontier
<1>2. D \in Nat /\ D + 1 \in 0..m /\ D # m /\ (D + 1) - 1 = D /\ D + 1 # 0
  BY <1>1
<1>3. /\ Len(q) \in Nat
      /\ \A i \in 1..Len(q) : q[i].d = D + 1 /\ q[i].d =< m /\ q[i].id \in Near(g, e, q[i].d)
  BY <1>1 DEF QueueInOrder
<1>4. QueueInOrder(g, e, m, D + 1, q)
  BY <1>3 DEF QueueInOrder
<1>5. Near(g, e, D) \subseteq X
  <2>1. \A v \in Near(g, e, D) : v \in X \/ WaitingAt(q, v, D)
    BY <1>2 DEF Frontier
  <2>2. \A v : ~ WaitingAt(q, v, D)
    BY DEF WaitingAt
  <2>3. QED
    BY <2>1, <2>2
<1>6. X = Near(g, e, D)
  BY <1>1, <1>5
<1>7. Near(g, e, D + 1) = Near(g, e, D) \union Around(g, Near(g, e, D))
  BY <1>2, NearHops
<1>8. D + 1 = m => X = Expanded(g, e, m)
  BY <1>2, <1>6 DEF Expanded
<1>9. \A v \in Around(g, X) : v \in X \/ Waiting(q, v)
  BY DEF Frontier
<1>10. \A v \in Near(g, e, D + 1) : v \in X \/ WaitingAt(q, v, D + 1)
  <2>1. \A v : Waiting(q, v) => WaitingAt(q, v, D + 1)
    BY <1>3 DEF Waiting, WaitingAt
  <2>2. QED
    BY <1>6, <1>7, <1>9, <2>1
<1>11. QED
  BY <1>2, <1>4, <1>6, <1>7, <1>8, <1>9, <1>10 DEF Frontier

LEMMA FrontierEnds ==
  ASSUME NEW g, NEW e, NEW m \in Nat, NEW D, NEW q, NEW X, NEW done,
         Frontier(g, e, m, D, q, X, done), Len(q) = 0
  PROVE  Frontier(g, e, m, m, q, X, done)
<1> DEFINE Good(k) == Frontier(g, e, m, D + k, q, X, done)
           T == {k \in Nat : D + k =< m => Good(k)}
<1>1. D \in 0..m
  BY DEF Frontier
<1>2. 0 \in T
  <2>1. D + 0 = D
    BY <1>1
  <2>2. QED
    BY <2>1
<1>3. ASSUME NEW k \in Nat, k \in T
      PROVE  k + 1 \in T
  <2> SUFFICES ASSUME D + (k + 1) =< m PROVE Good(k + 1)
    OBVIOUS
  <2>1. D + k =< m /\ D + k < m /\ D + (k + 1) = (D + k) + 1 /\ 1..Len(q) = {}
    BY <1>1
  <2>2. Frontier(g, e, m, D + k, q, X, done)
    BY <1>3, <2>1
  <2>3. Frontier(g, e, m, (D + k) + 1, q, X, done)
    BY <2>1, <2>2, FrontierAdvances
  <2>4. QED
    BY <2>1, <2>3
<1>4. \A k \in Nat : k \in T
  <2> HIDE DEF T
  <2>1. QED
    BY <1>2, <1>3, SetInduction
<1>5. m - D \in Nat /\ D + (m - D) = m
  BY <1>1
<1>6. QED
  BY <1>4, <1>5

LEMMA FrontierStarts ==
  ASSUME NEW g, NEW e, NEW m \in Nat, NEW q, Len(q) = 1, q[1].id = e, q[1].d = 0, NEW done
  PROVE  Frontier(g, e, m, 0, q, {}, done)
<1>1. Near(g, e, 0) = {e}
  BY NearHops
<1>2. 1..Len(q) = {1} /\ 1 \in 1..Len(q)
  OBVIOUS
<1>3. QueueInOrder(g, e, m, 0, q)
  BY <1>1, <1>2 DEF QueueInOrder
<1>4. WaitingAt(q, e, 0)
  BY <1>2 DEF WaitingAt
<1>5. Around(g, {}) = {}
  BY DEF Around
<1>6. QED
  BY <1>1, <1>3, <1>4, <1>5 DEF Frontier, Expanded

-----------------------------------------------------------------------------
(* The queue loses its head and gets what is next.                         *)
LEMMA QueueGrows ==
  ASSUME NEW S, NEW q \in Seq(S), q # <<>>, NEW next \in Seq(S), NEW r, r = Enqueue(Tail(q), next)
  PROVE  /\ r \in Seq(S) /\ Len(r) = Len(q) - 1 + Len(next) /\ Popped(q, r)
         /\ \A i \in Len(q)..Len(r) : \E j \in 1..Len(next) : r[i] = next[j]
         /\ \A j \in 1..Len(next) : \E i \in 1..Len(r) : r[i] = next[j]
<1> DEFINE t == Tail(q)
           n == Len(q)
           k == Len(next)
<1>1. n \in Nat /\ 1 =< n /\ k \in Nat
  <2>1. n \in Nat /\ k \in Nat /\ n # 0
    BY LenProperties, EmptySeq
  <2>2. QED
    BY <2>1
<1>2. t \in Seq(S) /\ Len(t) = n - 1 /\ \A i \in 1..n-1 : t[i] = q[i+1]
  BY HeadTailProperties
<1>3. r = t \o next
  BY DEF Enqueue
<1> HIDE DEF t
<1>4. r \in Seq(S) /\ Len(r) = n - 1 + k
      /\ \A i \in 1..n-1+k : r[i] = IF i =< n - 1 THEN t[i] ELSE next[i-(n-1)]
  <2>1. /\ t \o next \in Seq(S) /\ Len(t \o next) = Len(t) + Len(next)
        /\ \A i \in 1..Len(t)+Len(next) : (t \o next)[i] = IF i =< Len(t) THEN t[i] ELSE next[i-Len(t)]
    BY <1>2, ConcatProperties
  <2>2. QED
    BY <1>2, <1>3, <2>1
<1> HIDE DEF n, k
<1>5. \A i \in 1..n-1 : i \in 1..n-1+k /\ r[i] = q[i+1]
  BY <1>1, <1>2, <1>4
<1>6. \A i \in n..n-1+k : i - (n - 1) \in 1..k /\ r[i] = next[i-(n-1)]
  BY <1>1, <1>4
<1>7. \A j \in 1..k : (n - 1) + j \in 1..n-1+k /\ (n - 1) + j \in n..n-1+k /\ ((n - 1) + j) - (n - 1) = j
  BY <1>1
<1>8. \A j \in 1..k : r[(n-1)+j] = next[j]
  BY <1>6, <1>7
<1>9. Popped(q, r)
  BY <1>1, <1>4, <1>5 DEF Popped, n
<1>10. \A i \in n..Len(r) : \E j \in 1..k : r[i] = next[j]
  BY <1>4, <1>6
<1>11. \A j \in 1..k : \E i \in 1..Len(r) : r[i] = next[j]
  BY <1>4, <1>7, <1>8
<1>12. QED
  BY <1>4, <1>9, <1>10, <1>11 DEF n, k

IdsOf(g, e) == EndsOf(g) \union {e}

WalkStates(g, e) ==
  [queue : Seq([id : IdsOf(g, e), d : Nat]), visited : SUBSET IdsOf(g, e), edges : Seq(ToSet(g.edges))]

(* What a pass of get_neighbors does, for a proof to choose from.          *)
Passed(w, u) == /\ u.visited = w.visited /\ u.edges = w.edges
                /\ Popped(w.queue, u.queue) /\ Len(u.queue) = Len(w.queue) - 1

Stopped(w, u) == /\ u.visited = w.visited \union {w.queue[1].id} /\ u.edges = w.edges
                 /\ Popped(w.queue, u.queue) /\ Len(u.queue) = Len(w.queue) - 1

Explored(g, w, u) ==
  /\ u.visited = w.visited \union {w.queue[1].id}
  /\ u.edges = w.edges \o EdgesOf(g, w.queue[1].id)
  /\ Popped(w.queue, u.queue) /\ Leads(g, w.queue[1].d, w.queue, u.queue, u.visited)
  /\ Len(u.queue) =< Len(w.queue) - 1 + Len(EdgesOf(g, w.queue[1].id))

LEMMA AroundOne ==
  ASSUME NEW g, NEW v, GivesOnce(g.edges)
  PROVE  Around(g, {v}) = {OtherEnd(x, v) : x \in ToSet(EdgesOf(g, v))}
<1>1. ToSet(EdgesOf(g, v)) = {x \in ToSet(g.edges) : v \in {x.source, x.target}}
  BY EdgesOfIs
<1>2. \A n : n \in Around(g, {v}) <=> \E x \in ToSet(g.edges) : v \in {x.source, x.target} /\ n = OtherEnd(x, v)
  <2> TAKE n
  <2>1. n \in Around(g, {v}) <=>
          \E x \in ToSet(g.edges), u \in {v} : u \in {x.source, x.target} /\ n = OtherEnd(x, u)
    BY AroundIs
  <2>2. QED
    BY <2>1
<1>3. \A n : n \in {OtherEnd(x, v) : x \in ToSet(EdgesOf(g, v))} <=>
             \E x \in ToSet(EdgesOf(g, v)) : n = OtherEnd(x, v)
  OBVIOUS
<1>4. QED
  BY <1>1, <1>2, <1>3

LEMMA WalkOnIs ==
  ASSUME NEW g, NEW e, GivesOnce(g.edges), NEW m \in Nat, NEW w \in WalkStates(g, e), w.queue # <<>>,
         NEW u, u = WalkOn(g, m, w)
  PROVE  /\ u \in WalkStates(g, e)
         /\ w.queue[1].id \in w.visited => Passed(w, u)
         /\ w.queue[1].id \notin w.visited /\ ~ (w.queue[1].d < m) => Stopped(w, u)
         /\ w.queue[1].id \notin w.visited /\ w.queue[1].d < m => Explored(g, w, u)
<1> DEFINE V == IdsOf(g, e)
           E == ToSet(g.edges)
           I == [id : V, d : Nat]
           q == w.queue
           at == q[1]
           seen == w.visited \union {at.id}
           es == IF at.d < m THEN EdgesOf(g, at.id) ELSE <<>>
           next == Ahead(es, at.id, seen)
           items == [i \in DOMAIN next |-> [id |-> next[i], d |-> at.d + 1]]
<1>1. /\ q \in Seq(I) /\ w.visited \in SUBSET V /\ w.edges \in Seq(E)
      /\ w = [queue |-> w.queue, visited |-> w.visited, edges |-> w.edges]
  BY DEF WalkStates
<1>2. Head(q) = at /\ at \in I /\ Len(q) \in Nat /\ 1 =< Len(q)
  <2> HIDE DEF I, V
  <2>1. Len(q) \in Nat /\ Len(q) # 0
    BY <1>1, LenProperties, EmptySeq
  <2>2. 1 \in 1..Len(q)
    BY <2>1
  <2>3. at \in I
    BY <1>1, <2>2, ElementOfSeq
  <2>4. QED
    BY <1>1, <2>1, <2>3
<1>3. at.id \in V /\ at.d \in Nat
  BY <1>2
<1>4. u = IF at.id \in w.visited THEN [w EXCEPT !.queue = Tail(@)]
          ELSE [queue |-> Enqueue(Tail(q), items), visited |-> seen, edges |-> w.edges \o es]
  BY <1>2 DEF WalkOn
<1> HIDE DEF V, E, I, items, next, es, at, seen
<1>5. CASE at.id \in w.visited
  <2>1. u = [queue |-> Tail(q), visited |-> w.visited, edges |-> w.edges]
    BY <1>1, <1>4, <1>5
  <2>2. u.queue = Tail(q) /\ u.visited = w.visited /\ u.edges = w.edges
    BY <2>1
  <2>3. Tail(q) \in Seq(I) /\ Len(Tail(q)) = Len(q) - 1 /\ \A i \in 1..Len(q)-1 : Tail(q)[i] = q[i+1]
    BY <1>1, HeadTailProperties
  <2>4. u \in WalkStates(g, e)
    BY <1>1, <2>1, <2>3 DEF WalkStates, I, V, E
  <2>5. Len(Tail(q)) \in Nat
    BY <1>2, <2>3
  <2>6. Popped(q, u.queue)
    BY <1>2, <2>2, <2>3, <2>5 DEF Popped
  <2>7. Passed(w, u)
    BY <2>2, <2>3, <2>6 DEF Passed
  <2>8. QED
    BY <1>5, <2>4, <2>7 DEF at
<1>6. CASE at.id \notin w.visited
  <2>1. u = [queue |-> Enqueue(Tail(q), items), visited |-> seen, edges |-> w.edges \o es]
    BY <1>4, <1>6
  <2>2. u.queue = Enqueue(Tail(q), items) /\ u.visited = seen /\ u.edges = w.edges \o es
    BY <2>1
  <2>3. es \in Seq(E) /\ ToSet(es) \subseteq E
    <3>1. EdgesOf(g, at.id) \in Seq(E) /\ ToSet(EdgesOf(g, at.id)) \subseteq E
      BY EdgesOfIs DEF E
    <3>2. ToSet(<<>>) = {} /\ <<>> \in Seq(E)
      BY DEF ToSet
    <3>3. QED
      BY <3>1, <3>2 DEF es
  <2>4. next \in Seq(ToSet(next)) /\ ToSet(next) = {OtherEnd(x, at.id) : x \in ToSet(es)} \ seen
        /\ Len(next) =< Len(es)
    BY <2>3, AheadIs DEF next
  <2>5. DOMAIN next = 1..Len(next) /\ Len(next) \in Nat
    BY <2>4, LenProperties
  <2>6. ToSet(next) \subseteq V
    <3>1. \A x \in E : OtherEnd(x, at.id) \in V
      BY DEF OtherEnd, V, E, IdsOf, EndsOf
    <3>2. QED
      BY <2>3, <2>4, <3>1
  <2>7. /\ items \in Seq(I) /\ Len(items) = Len(next)
        /\ \A i \in 1..Len(next) : items[i].id = next[i] /\ items[i].d = at.d + 1
    <3>1. \A i \in 1..Len(next) : next[i] \in V
      BY <2>5, <2>6 DEF ToSet
    <3>2. items \in [1..Len(next) -> I]
      BY <1>3, <2>5, <3>1 DEF items, I
    <3>3. items \in Seq(I)
      BY <2>5, <3>2, SeqDef
    <3>4. DOMAIN items = 1..Len(next) /\ DOMAIN items = 1..Len(items) /\ Len(items) \in Nat
      BY <3>2, <3>3, LenProperties
    <3>5. QED
      BY <2>5, <3>3, <3>4 DEF items
  <2>8. /\ u.queue \in Seq(I) /\ Len(u.queue) = Len(q) - 1 + Len(items) /\ Popped(q, u.queue)
        /\ \A i \in Len(q)..Len(u.queue) : \E j \in 1..Len(items) : u.queue[i] = items[j]
        /\ \A j \in 1..Len(items) : \E i \in 1..Len(u.queue) : u.queue[i] = items[j]
    BY <1>1, <2>2, <2>7, QueueGrows
  <2>9. u \in WalkStates(g, e)
    <3>1. w.edges \o es \in Seq(E)
      BY <1>1, <2>3, ConcatProperties
    <3>2. seen \in SUBSET V
      BY <1>1, <1>3 DEF seen
    <3>3. Enqueue(Tail(q), items) \in Seq(I)
      BY <2>2, <2>8
    <3>4. QED
      BY <2>1, <3>1, <3>2, <3>3 DEF WalkStates, I, V, E
  <2>10. CASE ~ (at.d < m)
    <3>1. es = <<>> /\ Len(<<>>) = 0
      BY <2>10 DEF es
    <3>2. Len(items) = 0 /\ w.edges \o es = w.edges
      BY <1>1, <2>4, <2>5, <2>7, <3>1
    <3>3. Len(u.queue) = Len(q) - 1
      BY <1>2, <2>8, <3>2
    <3>4. Stopped(w, u)
      BY <2>2, <2>8, <3>2, <3>3 DEF Stopped, seen, at
    <3>5. QED
      BY <1>6, <2>9, <2>10, <3>4 DEF at
  <2>11. CASE at.d < m
    <3>1. es = EdgesOf(g, at.id)
      BY <2>11 DEF es
    <3>2. ToSet(next) = Around(g, {at.id}) \ seen
      BY <2>4, <3>1, AroundOne
    <3>3. \A i \in Len(q)..Len(u.queue) : u.queue[i].d = at.d + 1 /\ u.queue[i].id \in Around(g, {at.id})
      <4>1. \A j \in 1..Len(items) : items[j].d = at.d + 1 /\ items[j].id \in ToSet(next)
        BY <2>5, <2>7 DEF ToSet
      <4>2. QED
        <5> SUFFICES ASSUME NEW i \in Len(q)..Len(u.queue)
                     PROVE  u.queue[i].d = at.d + 1 /\ u.queue[i].id \in Around(g, {at.id})
          OBVIOUS
        <5>1. PICK j \in 1..Len(items) : u.queue[i] = items[j]
          BY <2>8
        <5>2. items[j].d = at.d + 1 /\ items[j].id \in ToSet(next)
          BY <4>1
        <5> HIDE DEF items, next, at
        <5>3. QED
          BY <3>2, <5>1, <5>2
    <3>4. ASSUME NEW v \in Around(g, {at.id})
          PROVE  v \in seen \/ Waiting(u.queue, v)
      <4>1. CASE v \notin seen
        <5>1. PICK j \in 1..Len(next) : next[j] = v
          BY <2>5, <3>2, <4>1 DEF ToSet
        <5>2. PICK i \in 1..Len(u.queue) : u.queue[i] = items[j]
          BY <2>7, <2>8
        <5>3. QED
          BY <2>7, <5>1, <5>2 DEF Waiting
      <4>2. QED
        BY <4>1
    <3>5. Leads(g, at.d, q, u.queue, u.visited)
      BY <2>2, <3>3, <3>4 DEF Leads, at
    <3>6. Len(u.queue) =< Len(q) - 1 + Len(EdgesOf(g, at.id))
      <4>1. Len(es) \in Nat
        BY <2>3, LenProperties
      <4>2. QED
        BY <1>2, <2>4, <2>5, <2>7, <2>8, <3>1, <4>1
    <3>7. Explored(g, w, u)
      BY <2>2, <2>8, <3>1, <3>5, <3>6 DEF Explored, at, seen
    <3>8. QED
      BY <1>6, <2>9, <2>11, <3>7 DEF at
  <2>12. QED
    BY <2>10, <2>11
<1>7. QED
  BY <1>5, <1>6

(* The invariant of get_neighbors: X has been expanded so far.             *)
WalkInv(g, e, m, w, D, X) ==
  /\ Frontier(g, e, m, D, w.queue, X, w.visited)
  /\ D < m => w.visited = X
  /\ X \subseteq w.visited /\ w.visited \subseteq Near(g, e, m)
  /\ Collected(g, w.edges, X)

LEMMA FrontierHeads ==
  ASSUME NEW g, NEW e, NEW m \in Nat, NEW D, NEW q, NEW X, NEW done,
         Frontier(g, e, m, D, q, X, done), 1 =< Len(q), q[1].d # D
  PROVE  /\ D \in 0..m /\ D < m /\ q[1].d = D + 1
         /\ Frontier(g, e, m, D + 1, q, X, done) /\ X = Near(g, e, D)
<1>1. D \in 0..m /\ QueueInOrder(g, e, m, D, q)
  BY DEF Frontier
<1>2. /\ Len(q) \in Nat
      /\ \A i \in 1..Len(q) : q[i].d \in {D, D + 1} /\ q[i].d =< m
      /\ \A i, j \in 1..Len(q) : i < j => q[i].d = D \/ q[j].d = D + 1
  BY <1>1 DEF QueueInOrder
<1>3. 1 \in 1..Len(q)
  BY <1>2
<1>4. q[1].d = D + 1 /\ D < m
  BY <1>1, <1>2, <1>3
<1>5. \A i \in 1..Len(q) : q[i].d # D
  <2> SUFFICES ASSUME NEW i \in 1..Len(q) PROVE q[i].d # D
    OBVIOUS
  <2>1. i = 1 \/ 1 < i
    BY <1>2
  <2>2. D + 1 # D
    BY <1>1
  <2>3. QED
    BY <1>2, <1>3, <1>4, <2>1, <2>2
<1>6. QED
  BY <1>1, <1>4, <1>5, FrontierAdvances

LEMMA WalkHeads ==
  ASSUME NEW g, NEW e, NEW m \in Nat, NEW w, NEW D, NEW X, WalkInv(g, e, m, w, D, X), 1 =< Len(w.queue)
  PROVE  \E C : WalkInv(g, e, m, w, C, X) /\ w.queue[1].d = C
<1>1. CASE w.queue[1].d = D
  BY <1>1
<1>2. CASE w.queue[1].d # D
  <2> DEFINE q == w.queue
             done == w.visited
  <2>0. Frontier(g, e, m, D, q, X, done)
    BY DEF WalkInv
  <2>1. /\ D < m => done = X
        /\ X \subseteq done /\ done \subseteq Near(g, e, m)
        /\ Collected(g, w.edges, X)
    BY DEF WalkInv
  <2>2. 1 =< Len(q) /\ q[1].d # D
    BY <1>2
  <2> HIDE DEF q, done
  <2>3. D \in 0..m /\ D < m /\ q[1].d = D + 1 /\ Frontier(g, e, m, D + 1, q, X, done)
    BY <2>0, <2>2, FrontierHeads
  <2>4. WalkInv(g, e, m, w, D + 1, X)
    BY <2>1, <2>3 DEF WalkInv, q, done
  <2>5. QED
    BY <2>3, <2>4 DEF q
<1>3. QED
  BY <1>1, <1>2

LEMMA WalkKeeps ==
  ASSUME NEW g, NEW e, GivesOnce(g.edges), NEW m \in Nat, NEW w \in WalkStates(g, e), w.queue # <<>>,
         NEW D, NEW X, WalkInv(g, e, m, w, D, X), w.queue[1].d = D,
         NEW u, u = WalkOn(g, m, w)
  PROVE  \E Y : /\ WalkInv(g, e, m, u, D, Y)
                /\ Len(u.queue) + Len(w.edges) + 1 =< Len(w.queue) + Len(u.edges)
<1> DEFINE v == w.queue[1].id
<1>1. /\ Frontier(g, e, m, D, w.queue, X, w.visited)
      /\ D < m => w.visited = X
      /\ X \subseteq w.visited /\ w.visited \subseteq Near(g, e, m)
      /\ Collected(g, w.edges, X)
  BY DEF WalkInv
<1>2. D \in 0..m /\ QueueInOrder(g, e, m, D, w.queue)
  BY <1>1 DEF Frontier
<1>3. /\ v \in w.visited => Passed(w, u)
      /\ v \notin w.visited /\ ~ (D < m) => Stopped(w, u)
      /\ v \notin w.visited /\ D < m => Explored(g, w, u)
  BY WalkOnIs
<1>4. Len(w.edges) \in Nat /\ Len(w.queue) \in Nat
  <2>1. w.edges \in Seq(ToSet(g.edges))
    BY <1>1 DEF Collected
  <2>2. QED
    BY <1>2, <2>1, LenProperties DEF QueueInOrder
<1>5. CASE v \in w.visited
  <2>1. /\ u.visited = w.visited /\ u.edges = w.edges
        /\ Popped(w.queue, u.queue) /\ Len(u.queue) = Len(w.queue) - 1
    BY <1>3, <1>5 DEF Passed
  <2>2. v \in X \/ (D = m /\ v \in w.visited)
    BY <1>1, <1>2, <1>5
  <2>3. Frontier(g, e, m, D, u.queue, X, w.visited)
    BY <1>1, <2>1, <2>2, FrontierDrops
  <2>4. WalkInv(g, e, m, u, D, X)
    BY <1>1, <2>1, <2>3 DEF WalkInv
  <2>5. QED
    BY <1>4, <2>1, <2>4
<1>6. CASE v \notin w.visited /\ ~ (D < m)
  <2>1. /\ u.visited = w.visited \union {v} /\ u.edges = w.edges
        /\ Popped(w.queue, u.queue) /\ Len(u.queue) = Len(w.queue) - 1
    BY <1>3, <1>6 DEF Stopped
  <2>2. D = m /\ v \in u.visited /\ w.visited \subseteq u.visited
    BY <1>2, <1>6, <2>1
  <2>3. Frontier(g, e, m, D, u.queue, X, u.visited)
    BY <1>1, <2>1, <2>2, FrontierDrops
  <2>4. v \in Near(g, e, m)
    <3>1. 1 \in 1..Len(w.queue)
      BY <1>4, <2>1 DEF Popped
    <3>2. QED
      BY <1>2, <2>2, <3>1 DEF QueueInOrder
  <2>5. WalkInv(g, e, m, u, D, X)
    BY <1>1, <1>6, <2>1, <2>3, <2>4 DEF WalkInv
  <2>6. QED
    BY <1>4, <2>1, <2>5
<1>7. CASE v \notin w.visited /\ D < m
  <2> DEFINE es == EdgesOf(g, v)
  <2>1. /\ u.visited = w.visited \union {v} /\ u.edges = w.edges \o es
        /\ Popped(w.queue, u.queue) /\ Leads(g, D, w.queue, u.queue, u.visited)
        /\ Len(u.queue) =< Len(w.queue) - 1 + Len(es)
    BY <1>3, <1>7 DEF Explored
  <2>2. u.visited = X \union {v} /\ v \notin X
    BY <1>1, <1>7, <2>1
  <2>3. Frontier(g, e, m, D, u.queue, u.visited, u.visited)
    BY <1>1, <1>7, <2>1, <2>2, FrontierExpands
  <2>4. Collected(g, u.edges, u.visited)
    BY <1>1, <2>1, <2>2, CollectedGrows
  <2>5. v \in Near(g, e, m)
    <3>1. 1 \in 1..Len(w.queue)
      BY <1>4, <2>1 DEF Popped
    <3>2. v \in Near(g, e, D)
      BY <1>2, <3>1 DEF QueueInOrder
    <3>3. D \in Nat /\ D =< m
      BY <1>2
    <3>4. QED
      BY <3>2, <3>3, NearWidens
  <2>6. WalkInv(g, e, m, u, D, u.visited)
    BY <1>1, <2>1, <2>3, <2>4, <2>5 DEF WalkInv
  <2>7. Len(u.edges) = Len(w.edges) + Len(es) /\ Len(es) \in Nat
    <3>1. w.edges \in Seq(ToSet(g.edges)) /\ es \in Seq(ToSet(g.edges))
      BY <1>1, EdgesOfIs DEF Collected
    <3>2. QED
      BY <2>1, <3>1, ConcatProperties, LenProperties
  <2>8. Len(u.queue) \in Nat
    BY <2>1 DEF Popped
  <2> HIDE DEF es
  <2>9. Len(u.queue) + Len(w.edges) + 1 =< Len(w.queue) + Len(u.edges)
    <3>1. Len(u.queue) =< Len(w.queue) - 1 + Len(es)
      BY <2>1
    <3>2. \A a, b, c, d, k \in Nat : c =< a - 1 + k /\ d = b + k => c + b + 1 =< a + d
      OBVIOUS
    <3>3. Len(u.edges) \in Nat
      BY <1>4, <2>7
    <3>4. QED
      BY <1>4, <2>7, <2>8, <3>1, <3>2, <3>3
  <2>10. QED
    BY <2>6, <2>9
<1>8. QED
  BY <1>5, <1>6, <1>7

(* After how many passes the queue is empty, and what was found then.      *)
Still(w, n) == w.queue = <<>> \/ n + Len(w.queue) =< 1 + Len(w.edges)

LEMMA WalkIs ==
  ASSUME NEW g, NEW e, GivesOnce(g.edges), NEW m \in Nat
  PROVE  /\ Walk(g, e, m).visited = Near(g, e, m)
         /\ Collected(g, Walk(g, e, m).edges, Expanded(g, e, m))
<1> DEFINE A == WalkStates(g, e)
           base == [queue |-> <<[id |-> e, d |-> 0]>>, visited |-> {}, edges |-> <<>>]
           P == Passes(g)
           Pass(w) == IF w.queue = <<>> THEN w ELSE WalkOn(g, m, w)
           G == [w \in A |-> Pass(w)]
           Step(f) == [n \in 0..P |-> IF n = 0 THEN base ELSE Pass(f[n-1])]
           after == CHOOSE f : f = Step(f)
<1>1. Len(g.edges) \in Nat /\ P = 1 + 2 * Len(g.edges) /\ P \in Nat
  <2>1. Len(g.edges) \in Nat
    BY LenProperties DEF GivesOnce, IsList
  <2>2. QED
    BY <2>1 DEF Passes
<1>2. base \in A
  <2>1. [id |-> e, d |-> 0] \in [id : IdsOf(g, e), d : Nat]
    BY DEF IdsOf
  <2>2. <<[id |-> e, d |-> 0]>> \in Seq([id : IdsOf(g, e), d : Nat])
    BY <2>1
  <2>3. QED
    BY <2>2 DEF WalkStates
<1>3. G \in [A -> A] /\ \A w \in A : G[w] = Pass(w)
  <2>1. \A w \in A : Pass(w) \in A
    BY WalkOnIs
  <2> HIDE DEF A, Pass
  <2>2. QED
    BY <2>1
<1>4. after = Step(after)
  <2>1. PICK f : Chain(f, P, A, base, G)
    <3> HIDE DEF P, A, base, G
    <3>1. QED
      BY <1>1, <1>2, <1>3, ChainExists
  <2>2. f \in [0..P -> A] /\ f[0] = base /\ \A n \in 1..P : f[n] = G[f[n-1]]
    BY <2>1 DEF Chain
  <2> HIDE DEF A, G, P, base, Pass
  <2>3. \A n \in 0..P : f[n] = IF n = 0 THEN base ELSE Pass(f[n-1])
    <3>1. \A n \in 0..P : n # 0 => n \in 1..P /\ n - 1 \in 0..P
      BY <1>1
    <3>2. \A n \in 0..P : n # 0 => f[n] = Pass(f[n-1])
      BY <1>3, <2>2, <3>1
    <3>3. QED
      BY <2>2, <3>2
  <2>4. f = Step(f)
    BY <2>2, <2>3
  <2>5. QED
    BY <2>4
<1>5. Walk(g, e, m) = after[P]
  BY DEF Walk
<1> HIDE DEF after, P
<1>6. after[0] = base
  BY <1>1, <1>4
<1>7. \A n \in 1..P : after[n] = Pass(after[n-1])
  <2>1. \A n \in 1..P : n \in 0..P /\ n # 0
    BY <1>1
  <2>2. QED
    BY <1>4, <2>1
<1> DEFINE Kept(w, n) == w \in A /\ Still(w, n) /\ \E D, X : WalkInv(g, e, m, w, D, X)
           T == {n \in Nat : n =< P => Kept(after[n], n)}
<1>8. 0 \in T
  <2>1. Len(base.queue) = 1 /\ base.queue[1].id = e /\ base.queue[1].d = 0
        /\ base.visited = {} /\ base.edges = <<>>
    OBVIOUS
  <2>2. Frontier(g, e, m, 0, base.queue, {}, {})
    <3> HIDE DEF base
    <3>1. QED
      BY <2>1, FrontierStarts
  <2>3. WalkInv(g, e, m, base, 0, {})
    BY <2>1, <2>2, CollectedNone DEF WalkInv
  <2>4. Still(base, 0)
    BY <2>1 DEF Still
  <2> HIDE DEF base, A
  <2>5. QED
    BY <1>2, <1>6, <2>3, <2>4
<1>9. ASSUME NEW n \in Nat, n \in T
      PROVE  n + 1 \in T
  <2> SUFFICES ASSUME n + 1 =< P PROVE Kept(after[n+1], n + 1)
    OBVIOUS
  <2> DEFINE w == after[n]
             u == after[n+1]
  <2>1. n =< P /\ n + 1 \in 1..P /\ (n + 1) - 1 = n
    BY <1>1
  <2>2. Kept(w, n) /\ u = Pass(w)
    BY <1>7, <1>9, <2>1
  <2> HIDE DEF w, u
  <2>3. ASSUME w.queue = <<>> PROVE Kept(u, n + 1)
    <3> HIDE DEF A
    <3>1. u = w
      BY <2>2, <2>3
    <3>2. QED
      BY <2>2, <2>3, <3>1 DEF Still
  <2>4. ASSUME w.queue # <<>> PROVE Kept(u, n + 1)
    <3>1. w \in A /\ n + Len(w.queue) =< 1 + Len(w.edges) /\ u = WalkOn(g, m, w)
      BY <2>2, <2>4 DEF Still
    <3>2. PICK D, X : WalkInv(g, e, m, w, D, X)
      BY <2>2
    <3>3. Len(w.queue) \in Nat /\ 1 =< Len(w.queue) /\ Len(w.edges) \in Nat
      <4>1. w.queue \in Seq([id : IdsOf(g, e), d : Nat]) /\ w.edges \in Seq(ToSet(g.edges))
        BY <3>1 DEF WalkStates
      <4>2. Len(w.queue) \in Nat /\ Len(w.queue) # 0 /\ Len(w.edges) \in Nat
        BY <2>4, <4>1, LenProperties, EmptySeq
      <4>3. QED
        BY <4>2
    <3>4. PICK C : WalkInv(g, e, m, w, C, X) /\ w.queue[1].d = C
      BY <3>2, <3>3, WalkHeads
    <3>5. PICK Y : /\ WalkInv(g, e, m, u, C, Y)
                   /\ Len(u.queue) + Len(w.edges) + 1 =< Len(w.queue) + Len(u.edges)
      BY <2>4, <3>1, <3>4, WalkKeeps
    <3>6. u \in A
      BY <2>4, <3>1, WalkOnIs
    <3>7. Len(u.queue) \in Nat /\ Len(u.edges) \in Nat
      <4>1. u.queue \in Seq([id : IdsOf(g, e), d : Nat]) /\ u.edges \in Seq(ToSet(g.edges))
        BY <3>6 DEF WalkStates
      <4>2. QED
        BY <4>1, LenProperties
    <3>8. (n + 1) + Len(u.queue) =< 1 + Len(u.edges)
      <4>1. n + Len(w.queue) =< 1 + Len(w.edges)
        BY <3>1
      <4>2. Len(u.queue) + Len(w.edges) + 1 =< Len(w.queue) + Len(u.edges)
        BY <3>5
      <4>3. \A a, b, c, d \in Nat : n + a =< 1 + b /\ c + b + 1 =< a + d => (n + 1) + c =< 1 + d
        OBVIOUS
      <4>4. QED
        BY <3>3, <3>7, <4>1, <4>2, <4>3
    <3> HIDE DEF A
    <3>9. QED
      BY <3>5, <3>6, <3>8 DEF Still
  <2>5. QED
    BY <2>3, <2>4 DEF u
<1>10. Kept(after[P], P)
  <2>1. \A n \in Nat : n \in T
    <3> HIDE DEF T
    <3>1. QED
      BY <1>8, <1>9, SetInduction
  <2>2. QED
    BY <1>1, <2>1
<1> DEFINE w == after[P]
<1> HIDE DEF w
<1>11. w \in A /\ Still(w, P) /\ \E D, X : WalkInv(g, e, m, w, D, X)
  BY <1>10 DEF w
<1>12. PICK D, X : WalkInv(g, e, m, w, D, X)
  BY <1>11
<1>13. /\ Frontier(g, e, m, D, w.queue, X, w.visited)
       /\ X \subseteq w.visited /\ w.visited \subseteq Near(g, e, m)
       /\ Collected(g, w.edges, X)
  BY <1>12 DEF WalkInv
<1>14. Len(w.queue) = 0
  <2>1. Len(w.edges) =< 2 * Len(g.edges)
    BY <1>13, CollectedCounts, MeetsBounded
  <2>2. Len(w.queue) \in Nat /\ Len(w.edges) \in Nat
    <3>1. w.queue \in Seq([id : IdsOf(g, e), d : Nat]) /\ w.edges \in Seq(ToSet(g.edges))
      BY <1>11 DEF WalkStates
    <3>2. QED
      BY <3>1, LenProperties
  <2>3. CASE w.queue = <<>>
    BY <2>3
  <2>4. CASE P + Len(w.queue) =< 1 + Len(w.edges)
    <3>1. P = 1 + 2 * Len(g.edges) /\ Len(g.edges) \in Nat
      BY <1>1
    <3>2. \A a, b, c \in Nat : b =< 2 * a /\ (1 + 2 * a) + c =< 1 + b => c = 0
      OBVIOUS
    <3>3. (1 + 2 * Len(g.edges)) + Len(w.queue) =< 1 + Len(w.edges)
      BY <2>4, <3>1
    <3>4. QED
      BY <2>1, <2>2, <3>1, <3>2, <3>3
  <2>5. QED
    BY <1>11, <2>3, <2>4 DEF Still
<1>15. Frontier(g, e, m, m, w.queue, X, w.visited)
  BY <1>13, <1>14, FrontierEnds
<1>16. X = Expanded(g, e, m) /\ Near(g, e, m) \subseteq X \union w.visited
  <2>1. 1..Len(w.queue) = {}
    BY <1>14
  <2>2. \A v : ~ WaitingAt(w.queue, v, m)
    BY <2>1 DEF WaitingAt
  <2>3. QED
    BY <1>15, <2>2 DEF Frontier
<1>17. QED
  BY <1>5, <1>13, <1>16 DEF w

(* get_neighbors finds what is near.                                       *)
LEMMA NeighborsFound ==
  ASSUME NEW g, NEW e, GivesOnce(g.edges), NEW m \in Nat
  PROVE  NeighborsAreNear(g, e, m, Neighbors(g, e, m))
<1> DEFINE w == Walk(g, e, m)
           a == Neighbors(g, e, m)
           X == Expanded(g, e, m)
<1>1. w.visited = Near(g, e, m) /\ Collected(g, w.edges, X)
  BY WalkIs
<1> HIDE DEF w
<1>2. a.entities = w.visited \intersect g.entities /\ a.edges = w.edges
  BY DEF Neighbors, w
<1> HIDE DEF a, X
<1>3. \A x \in ToSet(g.edges) :
        Cardinality({i \in DOMAIN a.edges : a.edges[i] = x}) = Cardinality({x.source, x.target} \intersect X)
  <2>1. Collected(g, a.edges, X)
    BY <1>1, <1>2
  <2>2. QED
    BY <2>1, CollectedCounts
<1>4. NeighborsAreNear(g, e, m, a)
  BY <1>1, <1>2, <1>3 DEF NeighborsAreNear, X, Expanded
<1>5. QED
  BY <1>4 DEF a

-----------------------------------------------------------------------------
(* The walks from e, as find_path keeps them in its queue.                 *)
PathsFrom(g, e) ==
  {p \in Seq(IdsOf(g, e)) : p # <<>> /\ p[1] = e /\ IsWalk(g, p)}

SeekStates(g, e) ==
  [queue : Seq(PathsFrom(g, e)), visited : SUBSET IdsOf(g, e),
   found : PathsFrom(g, e) \union {<<>>}]

Ends(queue) == [i \in 1..Len(queue) |-> [id |-> Last(queue[i]), d |-> Len(queue[i]) - 1]]

LEMMA PathsAre ==
  ASSUME NEW g, NEW e, NEW p \in PathsFrom(g, e)
  PROVE  /\ p \in Seq(IdsOf(g, e)) /\ p # <<>> /\ p[1] = e /\ IsWalk(g, p)
         /\ Len(p) \in Nat /\ 1 =< Len(p) /\ Len(p) - 1 \in Nat /\ Last(p) \in IdsOf(g, e)
<1>1. p \in Seq(IdsOf(g, e)) /\ p # <<>> /\ p[1] = e /\ IsWalk(g, p)
  BY DEF PathsFrom
<1>2. Len(p) \in Nat /\ Len(p) # 0
  BY <1>1, LenProperties, EmptySeq
<1>3. Len(p) \in 1..Len(p) /\ 1 =< Len(p) /\ Len(p) - 1 \in Nat
  BY <1>2
<1>4. p[Len(p)] \in IdsOf(g, e)
  BY <1>1, <1>3, ElementOfSeq
<1>5. QED
  BY <1>1, <1>2, <1>3, <1>4 DEF Last

LEMMA PathsExtend ==
  ASSUME NEW g, NEW e, NEW p \in PathsFrom(g, e), NEW n \in Around(g, {Last(p)})
  PROVE  /\ Append(p, n) \in PathsFrom(g, e)
         /\ Last(Append(p, n)) = n /\ Len(Append(p, n)) - 1 = (Len(p) - 1) + 1
<1> DEFINE q == Append(p, n)
           k == Len(p)
<1>1. /\ p \in Seq(IdsOf(g, e)) /\ p # <<>> /\ p[1] = e /\ IsWalk(g, p)
      /\ k \in Nat /\ 1 =< k /\ k - 1 \in Nat
  BY PathsAre
<1>2. n \in IdsOf(g, e)
  BY AroundEnds DEF IdsOf
<1>3. /\ q \in Seq(IdsOf(g, e)) /\ q # <<>> /\ Len(q) = k + 1
      /\ \A i \in 1..k : q[i] = p[i]
      /\ q[k+1] = n
  BY <1>1, <1>2, AppendProperties
<1> HIDE DEF q
<1>4. q[1] = e
  BY <1>1, <1>3
<1>5. PICK x \in ToSet(g.edges) : Last(p) \in {x.source, x.target} /\ n = OtherEnd(x, Last(p))
  BY AroundIs
<1>6. {x.source, x.target} = {p[k], n}
  BY <1>5 DEF OtherEnd, Last
<1>7. IsWalk(g, q)
  <2>1. \A i \in 1..k-1 : \E y \in ToSet(g.edges) : {y.source, y.target} = {p[i], p[i+1]}
    BY <1>1 DEF IsWalk
  <2>2. ASSUME NEW i \in 1..Len(q)-1
        PROVE  \E y \in ToSet(g.edges) : {y.source, y.target} = {q[i], q[i+1]}
    <3>1. i \in 1..k /\ (i = k \/ (i \in 1..k-1 /\ i + 1 \in 1..k))
      BY <1>1, <1>3
    <3>2. CASE i = k
      <4>1. q[i] = p[k] /\ q[i+1] = n
        BY <1>3, <3>1, <3>2
      <4>2. QED
        BY <1>6, <4>1
    <3>3. CASE i \in 1..k-1 /\ i + 1 \in 1..k
      <4>1. q[i] = p[i] /\ q[i+1] = p[i+1]
        BY <1>3, <3>1, <3>3
      <4>2. QED
        BY <2>1, <3>3, <4>1
    <3>4. QED
      BY <3>1, <3>2, <3>3
  <2>3. QED
    BY <2>2 DEF IsWalk
<1>8. q \in PathsFrom(g, e)
  BY <1>3, <1>4, <1>7 DEF PathsFrom
<1>9. Last(q) = n /\ Len(q) - 1 = (k - 1) + 1
  BY <1>1, <1>3 DEF Last
<1>10. QED
  BY <1>8, <1>9 DEF q

LEMMA EndsAre ==
  ASSUME NEW S, NEW queue \in Seq(S)
  PROVE  /\ Len(Ends(queue)) = Len(queue) /\ Len(queue) \in Nat
         /\ \A i \in 1..Len(queue) : /\ Ends(queue)[i].id = Last(queue[i])
                                     /\ Ends(queue)[i].d = Len(queue[i]) - 1
<1> DEFINE f == Ends(queue)
           R == {[id |-> Last(queue[i]), d |-> Len(queue[i]) - 1] : i \in 1..Len(queue)}
<1>1. Len(queue) \in Nat
  BY LenProperties
<1>2. f \in [1..Len(queue) -> R] /\ \A i \in 1..Len(queue) : f[i] = [id |-> Last(queue[i]), d |-> Len(queue[i]) - 1]
  BY DEF Ends
<1> HIDE DEF f, R
<1>3. f \in Seq(R)
  BY <1>1, <1>2, SeqDef
<1>4. DOMAIN f = 1..Len(queue) /\ DOMAIN f = 1..Len(f) /\ Len(f) \in Nat
  BY <1>2, <1>3, LenProperties
<1>5. Len(f) = Len(queue)
  BY <1>1, <1>4
<1>6. QED
  BY <1>1, <1>2, <1>5 DEF f

LEMMA EndsPop ==
  ASSUME NEW S, NEW q \in Seq(S), NEW r \in Seq(S), Popped(q, r)
  PROVE  Popped(Ends(q), Ends(r))
<1>1. /\ Len(q) \in Nat /\ Len(r) \in Nat /\ 1 =< Len(q) /\ Len(q) - 1 =< Len(r)
      /\ \A i \in 1..Len(q)-1 : r[i] = q[i+1]
  BY DEF Popped
<1>2. Len(Ends(q)) = Len(q) /\ Len(Ends(r)) = Len(r)
  BY EndsAre
<1>3. ASSUME NEW i \in 1..Len(q)-1
      PROVE  Ends(r)[i] = Ends(q)[i+1]
  <2>1. i \in 1..Len(r) /\ i + 1 \in 1..Len(q) /\ r[i] = q[i+1]
    BY <1>1
  <2>2. /\ Ends(r)[i] = [id |-> Last(r[i]), d |-> Len(r[i]) - 1]
        /\ Ends(q)[i+1] = [id |-> Last(q[i+1]), d |-> Len(q[i+1]) - 1]
    BY <2>1 DEF Ends
  <2>3. QED
    BY <2>1, <2>2
<1>4. QED
  BY <1>1, <1>2, <1>3 DEF Popped

(* What a pass of find_path does.                                          *)
Reached(s, u) == /\ u.found = s.queue[1] /\ u.visited = s.visited /\ u.queue = s.queue

Skipped(s, u) == /\ u.visited = s.visited /\ u.found = s.found
                 /\ Popped(Ends(s.queue), Ends(u.queue)) /\ Len(u.queue) = Len(s.queue) - 1

Spread(g, s, u) ==
  LET v == Last(s.queue[1])
  IN  /\ u.visited = s.visited \union {v} /\ u.found = <<>>
      /\ Popped(Ends(s.queue), Ends(u.queue))
      /\ Leads(g, Len(s.queue[1]) - 1, Ends(s.queue), Ends(u.queue), u.visited)
      /\ Len(u.queue) =< Len(s.queue) - 1 + Len(EdgesOf(g, v))

LEMMA SeekOnIs ==
  ASSUME NEW g, NEW e, GivesOnce(g.edges), NEW m \in Nat, NEW t, NEW s \in SeekStates(g, e), s.queue # <<>>,
         NEW u, u = SeekOn(g, t, m, s)
  PROVE  /\ u \in SeekStates(g, e) /\ s.queue[1] \in PathsFrom(g, e)
         /\ Last(s.queue[1]) = t => Reached(s, u)
         /\ Last(s.queue[1]) # t /\ (Len(s.queue[1]) > m \/ Last(s.queue[1]) \in s.visited) => Skipped(s, u)
         /\ Last(s.queue[1]) # t /\ ~ (Len(s.queue[1]) > m) /\ Last(s.queue[1]) \notin s.visited => Spread(g, s, u)
<1> DEFINE V == IdsOf(g, e)
           E == ToSet(g.edges)
           I == PathsFrom(g, e)
           q == s.queue
           path == q[1]
           at == Last(path)
           seen == s.visited \union {at}
           es == EdgesOf(g, at)
           next == Ahead(es, at, seen)
           items == [i \in DOMAIN next |-> Append(path, next[i])]
<1>1. /\ q \in Seq(I) /\ s.visited \in SUBSET V /\ s.found \in I \union {<<>>}
      /\ s = [queue |-> s.queue, visited |-> s.visited, found |-> s.found]
  BY DEF SeekStates
<1>2. Head(q) = path /\ path \in I /\ Len(q) \in Nat /\ 1 =< Len(q) /\ 1 \in 1..Len(q)
  <2> HIDE DEF I, V
  <2>1. Len(q) \in Nat /\ Len(q) # 0
    BY <1>1, LenProperties, EmptySeq
  <2>2. 1 \in 1..Len(q)
    BY <2>1
  <2>3. path \in I
    BY <1>1, <2>2, ElementOfSeq
  <2>4. QED
    BY <1>1, <2>1, <2>2, <2>3
<1>3. at \in V
  BY <1>2, PathsAre
<1>4. u = IF at = t THEN [s EXCEPT !.found = path]
          ELSE IF Len(path) > m \/ at \in s.visited THEN [s EXCEPT !.queue = Tail(@)]
          ELSE [queue |-> Enqueue(Tail(q), items), visited |-> seen, found |-> <<>>]
  BY <1>2 DEF SeekOn
<1>h. Ends(q)[1].id = at /\ Ends(q)[1].d = Len(path) - 1 /\ Len(Ends(q)) = Len(q)
  BY <1>1, <1>2, EndsAre
<1> HIDE DEF V, E, I, items, next, es, at, seen, path
<1>5. CASE at = t
  <2>1. u = [queue |-> s.queue, visited |-> s.visited, found |-> path]
    BY <1>1, <1>4, <1>5
  <2>2. u \in SeekStates(g, e)
    BY <1>1, <1>2, <2>1 DEF SeekStates, I, V
  <2>3. Reached(s, u)
    BY <2>1 DEF Reached, path
  <2>4. QED
    BY <1>2, <1>5, <2>2, <2>3 DEF at, path, I
<1>6. CASE at # t /\ (Len(path) > m \/ at \in s.visited)
  <2>1. u = [queue |-> Tail(q), visited |-> s.visited, found |-> s.found]
    BY <1>1, <1>4, <1>6
  <2>2. u.queue = Tail(q) /\ u.visited = s.visited /\ u.found = s.found
    BY <2>1
  <2>3. Tail(q) \in Seq(I) /\ Len(Tail(q)) = Len(q) - 1 /\ \A i \in 1..Len(q)-1 : Tail(q)[i] = q[i+1]
    BY <1>1, HeadTailProperties
  <2>4. u \in SeekStates(g, e)
    BY <1>1, <2>1, <2>3 DEF SeekStates, I, V
  <2>5. Len(Tail(q)) \in Nat
    BY <1>2, <2>3
  <2>6. Popped(q, Tail(q))
    BY <1>2, <2>3, <2>5 DEF Popped
  <2>7. Popped(Ends(q), Ends(u.queue))
    BY <1>1, <2>2, <2>3, <2>6, EndsPop
  <2>8. Skipped(s, u)
    BY <2>2, <2>3, <2>7 DEF Skipped
  <2>9. QED
    BY <1>2, <1>6, <2>4, <2>8 DEF at, path, I
<1>7. CASE at # t /\ ~ (Len(path) > m) /\ at \notin s.visited
  <2>1. u = [queue |-> Enqueue(Tail(q), items), visited |-> seen, found |-> <<>>]
    BY <1>4, <1>7
  <2>2. u.queue = Enqueue(Tail(q), items) /\ u.visited = seen /\ u.found = <<>>
    BY <2>1
  <2>3. es \in Seq(E)
    BY EdgesOfIs DEF E, es
  <2>4. next \in Seq(ToSet(next)) /\ ToSet(next) = Around(g, {at}) \ seen /\ Len(next) =< Len(es)
    <3>1. next \in Seq(ToSet(next)) /\ ToSet(next) = {OtherEnd(x, at) : x \in ToSet(es)} \ seen
          /\ Len(next) =< Len(es)
      BY <2>3, AheadIs DEF next
    <3>2. QED
      BY <3>1, AroundOne DEF es
  <2>5. DOMAIN next = 1..Len(next) /\ Len(next) \in Nat
    BY <2>4, LenProperties
  <2>6. \A i \in 1..Len(next) : next[i] \in Around(g, {at}) /\ next[i] \in ToSet(next)
    BY <2>4, <2>5 DEF ToSet
  <2>7. \A i \in 1..Len(next) :
           /\ Append(path, next[i]) \in I /\ Last(Append(path, next[i])) = next[i]
           /\ Len(Append(path, next[i])) - 1 = (Len(path) - 1) + 1
    BY <1>2, <2>6, PathsExtend DEF at, I
  <2>8. /\ items \in Seq(I) /\ Len(items) = Len(next)
        /\ \A i \in 1..Len(next) : items[i] = Append(path, next[i])
    <3>2. items \in [1..Len(next) -> I]
      BY <2>5, <2>7 DEF items
    <3>3. items \in Seq(I)
      BY <2>5, <3>2, SeqDef
    <3>4. DOMAIN items = 1..Len(next) /\ DOMAIN items = 1..Len(items) /\ Len(items) \in Nat
      BY <3>2, <3>3, LenProperties
    <3>5. QED
      BY <2>5, <3>3, <3>4 DEF items
  <2>9. /\ u.queue \in Seq(I) /\ Len(u.queue) = Len(q) - 1 + Len(items) /\ Popped(q, u.queue)
        /\ \A i \in Len(q)..Len(u.queue) : \E j \in 1..Len(items) : u.queue[i] = items[j]
        /\ \A j \in 1..Len(items) : \E i \in 1..Len(u.queue) : u.queue[i] = items[j]
    BY <1>1, <2>2, <2>8, QueueGrows
  <2>10. u \in SeekStates(g, e)
    <3>1. seen \in SUBSET V
      BY <1>1, <1>3 DEF seen
    <3>2. Enqueue(Tail(q), items) \in Seq(I)
      BY <2>2, <2>9
    <3>3. QED
      BY <2>1, <3>1, <3>2 DEF SeekStates, I, V
  <2>11. Popped(Ends(q), Ends(u.queue))
    BY <1>1, <2>9, EndsPop
  <2>e. /\ Len(Ends(u.queue)) = Len(u.queue) /\ Len(u.queue) \in Nat
        /\ \A i \in 1..Len(u.queue) : /\ Ends(u.queue)[i].id = Last(u.queue[i])
                                      /\ Ends(u.queue)[i].d = Len(u.queue[i]) - 1
    BY <2>9, EndsAre
  <2>12. \A i \in Len(q)..Len(u.queue) :
           /\ Ends(u.queue)[i].d = (Len(path) - 1) + 1
           /\ Ends(u.queue)[i].id \in Around(g, {at})
    <3> SUFFICES ASSUME NEW i \in Len(q)..Len(u.queue)
                 PROVE  /\ Ends(u.queue)[i].d = (Len(path) - 1) + 1
                        /\ Ends(u.queue)[i].id \in Around(g, {at})
      OBVIOUS
    <3>1. i \in 1..Len(u.queue)
      BY <1>2, <2>e
    <3>2. PICK j \in 1..Len(next) : u.queue[i] = Append(path, next[j])
      <4>1. PICK j \in 1..Len(items) : u.queue[i] = items[j]
        BY <2>9
      <4>2. j \in 1..Len(next) /\ items[j] = Append(path, next[j])
        BY <2>8
      <4>3. QED
        BY <4>1, <4>2
    <3>3. Ends(u.queue)[i].id = Last(u.queue[i]) /\ Ends(u.queue)[i].d = Len(u.queue[i]) - 1
      BY <2>e, <3>1
    <3>4. /\ Last(Append(path, next[j])) = next[j] /\ next[j] \in Around(g, {at})
          /\ Len(Append(path, next[j])) - 1 = (Len(path) - 1) + 1
      BY <2>6, <2>7
    <3> HIDE DEF next, path, at
    <3>5. QED
      BY <3>2, <3>3, <3>4
  <2>13. ASSUME NEW v \in Around(g, {at})
         PROVE  v \in seen \/ Waiting(Ends(u.queue), v)
    <3>1. CASE v \notin seen
      <4>1. PICK j \in 1..Len(next) : next[j] = v
        BY <2>4, <2>5, <3>1 DEF ToSet
      <4>2. PICK i \in 1..Len(u.queue) : u.queue[i] = Append(path, next[j])
        <5>1. items[j] = Append(path, next[j]) /\ j \in 1..Len(items)
          BY <2>8
        <5>2. PICK i \in 1..Len(u.queue) : u.queue[i] = items[j]
          BY <2>9, <5>1
        <5>3. QED
          BY <5>1, <5>2
      <4>3. Ends(u.queue)[i].id = v
        BY <2>7, <2>e, <4>1, <4>2
      <4>4. QED
        BY <2>e, <4>3 DEF Waiting
    <3>2. QED
      BY <3>1
  <2>14. Leads(g, Len(path) - 1, Ends(q), Ends(u.queue), u.visited)
    BY <1>h, <2>2, <2>e, <2>12, <2>13 DEF Leads
  <2>15. Len(u.queue) =< Len(q) - 1 + Len(es)
    <3>1. Len(es) \in Nat
      BY <2>3, LenProperties
    <3>2. QED
      BY <1>2, <2>4, <2>5, <2>8, <2>9, <3>1
  <2>16. Spread(g, s, u)
    BY <2>2, <2>11, <2>14, <2>15 DEF Spread, path, at, seen, es
  <2>17. QED
    BY <1>2, <1>7, <2>10, <2>16 DEF at, path, I
<1>8. QED
  BY <1>5, <1>6, <1>7

(* The invariant of find_path, until it has found its target.              *)
Searching(g, e, t, m, s, D) ==
  /\ Frontier(g, e, m, D, Ends(s.queue), s.visited, Near(g, e, m) \ {t})
  /\ t \notin s.visited /\ (D > 0 => t \notin Near(g, e, D - 1))

SeekInv(g, e, t, m, s) ==
  IF s.found = <<>> THEN \E D : Searching(g, e, t, m, s, D)
  ELSE PathIsShortest(g, e, t, m, s.found)

LEMMA SeekHeads ==
  ASSUME NEW g, NEW e, NEW t, NEW m \in Nat, NEW s, NEW D, Searching(g, e, t, m, s, D), 1 =< Len(Ends(s.queue))
  PROVE  \E C : Searching(g, e, t, m, s, C) /\ Ends(s.queue)[1].d = C
<1>1. CASE Ends(s.queue)[1].d = D
  BY <1>1
<1>2. CASE Ends(s.queue)[1].d # D
  <2> DEFINE q == Ends(s.queue)
             done == Near(g, e, m) \ {t}
  <2>1. Frontier(g, e, m, D, q, s.visited, done) /\ t \notin s.visited
    BY DEF Searching
  <2> HIDE DEF q, done
  <2>2. /\ D \in 0..m /\ D < m /\ q[1].d = D + 1
        /\ Frontier(g, e, m, D + 1, q, s.visited, done) /\ s.visited = Near(g, e, D)
    BY <1>2, <2>1, FrontierHeads DEF q
  <2>3. (D + 1) - 1 = D
    BY <2>2
  <2>4. Searching(g, e, t, m, s, D + 1)
    BY <2>1, <2>2, <2>3 DEF Searching, q, done
  <2>5. QED
    BY <2>2, <2>4 DEF q
<1>3. QED
  BY <1>1, <1>2

Effort(g, s) == Cardinality(Meets(g, s.visited))

LEMMA SeekKeeps ==
  ASSUME NEW g, NEW e, GivesOnce(g.edges), NEW t, NEW m \in Nat, NEW s \in SeekStates(g, e), s.queue # <<>>,
         s.found = <<>>, NEW D, Searching(g, e, t, m, s, D), Ends(s.queue)[1].d = D,
         NEW u, u = SeekOn(g, t, m, s)
  PROVE  /\ SeekInv(g, e, t, m, u)
         /\ u.found # <<>> \/ Len(u.queue) + Effort(g, s) + 1 =< Len(s.queue) + Effort(g, u)
<1> DEFINE path == s.queue[1]
           at == Last(path)
           X == s.visited
           q == Ends(s.queue)
           done == Near(g, e, m) \ {t}
<1>1. Frontier(g, e, m, D, q, X, done) /\ t \notin X /\ (D > 0 => t \notin Near(g, e, D - 1))
  BY DEF Searching
<1>2. D \in 0..m /\ QueueInOrder(g, e, m, D, q)
  BY <1>1 DEF Frontier
<1>3. /\ u \in SeekStates(g, e) /\ path \in PathsFrom(g, e)
      /\ at = t => Reached(s, u)
      /\ at # t /\ (Len(path) > m \/ at \in X) => Skipped(s, u)
      /\ at # t /\ ~ (Len(path) > m) /\ at \notin X => Spread(g, s, u)
  BY SeekOnIs
<1>q. s.queue \in Seq(PathsFrom(g, e)) /\ u.queue \in Seq(PathsFrom(g, e))
  BY <1>3 DEF SeekStates
<1>4. /\ path \in Seq(IdsOf(g, e)) /\ path # <<>> /\ path[1] = e /\ IsWalk(g, path)
      /\ Len(path) \in Nat /\ 1 =< Len(path)
  BY <1>3, PathsAre
<1>5. Len(q) = Len(s.queue) /\ Len(s.queue) \in Nat /\ Len(s.queue) # 0
  BY <1>q, EndsAre, EmptySeq
<1>6. q[1].id = at /\ q[1].d = Len(path) - 1 /\ 1 \in 1..Len(s.queue)
  <2>1. 1 \in 1..Len(s.queue)
    BY <1>5
  <2>2. QED
    BY <1>q, <2>1, EndsAre
<1>7. D = Len(path) - 1 /\ Len(path) = D + 1 /\ D \in Nat
  BY <1>2, <1>4, <1>6
<1>8. at \in Near(g, e, D) /\ at \in Near(g, e, m)
  <2>1. q[1].id \in Near(g, e, q[1].d)
    BY <1>2, <1>5, <1>6 DEF QueueInOrder
  <2>2. D =< m
    BY <1>2
  <2>3. QED
    BY <1>6, <1>7, <2>1, <2>2, NearWidens
<1>e. Effort(g, s) \in Nat
  <2>1. IsFiniteSet(Meets(g, X))
    BY MeetsBounded
  <2>2. QED
    BY <2>1, FS_CardinalityType DEF Effort
<1>u. Len(Ends(u.queue)) = Len(u.queue) /\ Len(u.queue) \in Nat
  BY <1>q, EndsAre
<1> HIDE DEF q, done, at, path, X
<1>9. CASE at = t
  <2>1. u.found = path
    BY <1>3, <1>9 DEF Reached, path
  <2>2. Last(path) = t
    BY <1>9 DEF at
  <2>3. Len(path) = 1 \/ t \notin Near(g, e, Len(path) - 2)
    <3>1. D = 0 \/ (D > 0 /\ Len(path) - 2 = D - 1)
      BY <1>7
    <3>2. D = 0 => Len(path) = 1
      BY <1>7
    <3>3. QED
      BY <1>1, <3>1, <3>2
  <2>4. PathIsShortest(g, e, t, m, path)
    BY <1>4, <1>8, <1>9, <2>2, <2>3 DEF PathIsShortest
  <2>5. QED
    BY <1>4, <2>1, <2>4 DEF SeekInv
<1>10. CASE at # t /\ (Len(path) > m \/ at \in X)
  <2>1. /\ u.visited = X /\ u.found = <<>>
        /\ Popped(q, Ends(u.queue)) /\ Len(u.queue) = Len(s.queue) - 1
    BY <1>3, <1>10 DEF Skipped, q, X
  <2>2. q[1].id \in X \/ (D = m /\ q[1].id \in done)
    <3>1. Len(path) > m => D = m
      BY <1>2, <1>7
    <3>2. QED
      BY <1>6, <1>8, <1>10, <3>1 DEF done
  <2>3. Len(Ends(u.queue)) = Len(q) - 1
    BY <1>5, <1>u, <2>1
  <2>4. Frontier(g, e, m, D, Ends(u.queue), X, done)
    BY <1>1, <2>1, <2>2, <2>3, FrontierDrops
  <2>5. Searching(g, e, t, m, u, D)
    BY <1>1, <2>1, <2>4 DEF Searching, done
  <2>6. Effort(g, u) = Effort(g, s)
    BY <2>1 DEF Effort, X
  <2>7. Len(u.queue) + Effort(g, s) + 1 =< Len(s.queue) + Effort(g, u)
    BY <1>5, <1>e, <2>1, <2>6
  <2>8. QED
    BY <2>1, <2>5, <2>7 DEF SeekInv
<1>11. CASE at # t /\ ~ (Len(path) > m) /\ at \notin X
  <2>1. /\ u.visited = X \union {at} /\ u.found = <<>>
        /\ Popped(q, Ends(u.queue)) /\ Leads(g, Len(path) - 1, q, Ends(u.queue), u.visited)
        /\ Len(u.queue) =< Len(s.queue) - 1 + Len(EdgesOf(g, at))
    BY <1>3, <1>11 DEF Spread, q, X, at, path
  <2>2. D < m
    BY <1>2, <1>7, <1>11
  <2>3. Frontier(g, e, m, D, Ends(u.queue), u.visited, done)
    BY <1>1, <1>6, <1>7, <2>1, <2>2, FrontierExpands
  <2>4. Searching(g, e, t, m, u, D)
    BY <1>1, <1>11, <2>1, <2>3 DEF Searching, done
  <2>5. Effort(g, u) = Effort(g, s) + Len(EdgesOf(g, at))
    BY <1>11, <2>1, MeetsGrow DEF Effort, X
  <2>6. Len(EdgesOf(g, at)) \in Nat
    BY EdgesOfIs, LenProperties
  <2>7. Len(u.queue) + Effort(g, s) + 1 =< Len(s.queue) + Effort(g, u)
    <3>1. \A a, b, c, d, k \in Nat : c =< a - 1 + k /\ d = b + k => c + b + 1 =< a + d
      OBVIOUS
    <3>2. Effort(g, u) \in Nat
      BY <1>e, <2>5, <2>6
    <3>3. QED
      BY <1>5, <1>e, <1>u, <2>1, <2>5, <2>6, <3>1, <3>2
  <2>8. QED
    BY <2>1, <2>4, <2>7 DEF SeekInv
<1>12. QED
  BY <1>9, <1>10, <1>11

Over(g, s, n) == s.queue = <<>> \/ s.found # <<>> \/ n + Len(s.queue) =< 1 + Effort(g, s)

(* find_path finds the shortest.                                           *)
LEMMA PathFound ==
  ASSUME NEW g, NEW e, GivesOnce(g.edges), NEW t, NEW m \in Nat
  PROVE  PathIsShortest(g, e, t, m, FindPath(g, e, t, m))
<1> DEFINE A == SeekStates(g, e)
           base == [queue |-> <<<<e>>>>, visited |-> {}, found |-> <<>>]
           P == Passes(g)
           Pass(s) == IF s.queue = <<>> \/ s.found # <<>> THEN s ELSE SeekOn(g, t, m, s)
           G == [s \in A |-> Pass(s)]
           Step(f) == [n \in 0..P |-> IF n = 0 THEN base ELSE Pass(f[n-1])]
           after == CHOOSE f : f = Step(f)
<1>1. Len(g.edges) \in Nat /\ P = 1 + 2 * Len(g.edges) /\ P \in Nat
  <2>1. Len(g.edges) \in Nat
    BY LenProperties DEF GivesOnce, IsList
  <2>2. QED
    BY <2>1 DEF Passes
<1>2. base \in A
  <2>1. <<e>> \in Seq(IdsOf(g, e)) /\ <<e>> # <<>> /\ <<e>>[1] = e /\ Len(<<e>>) - 1 = 0 /\ 1..0 = {}
    BY DEF IdsOf
  <2>2. <<e>> \in PathsFrom(g, e)
    BY <2>1 DEF PathsFrom, IsWalk
  <2>3. <<<<e>>>> \in Seq(PathsFrom(g, e))
    BY <2>2
  <2>4. QED
    BY <2>3 DEF SeekStates
<1>3. G \in [A -> A] /\ \A s \in A : G[s] = Pass(s)
  <2>1. \A s \in A : Pass(s) \in A
    BY SeekOnIs
  <2> HIDE DEF A, Pass
  <2>2. QED
    BY <2>1
<1>4. after = Step(after)
  <2>1. PICK f : Chain(f, P, A, base, G)
    <3> HIDE DEF P, A, base, G
    <3>1. QED
      BY <1>1, <1>2, <1>3, ChainExists
  <2>2. f \in [0..P -> A] /\ f[0] = base /\ \A n \in 1..P : f[n] = G[f[n-1]]
    BY <2>1 DEF Chain
  <2> HIDE DEF A, G, P, base, Pass
  <2>3. \A n \in 0..P : f[n] = IF n = 0 THEN base ELSE Pass(f[n-1])
    <3>1. \A n \in 0..P : n # 0 => n \in 1..P /\ n - 1 \in 0..P
      BY <1>1
    <3>2. \A n \in 0..P : n # 0 => f[n] = Pass(f[n-1])
      BY <1>3, <2>2, <3>1
    <3>3. QED
      BY <2>2, <3>2
  <2>4. f = Step(f)
    BY <2>2, <2>3
  <2>5. QED
    BY <2>4
<1>5. FindPath(g, e, t, m) = after[P].found
  BY DEF FindPath
<1> HIDE DEF after, P
<1>6. after[0] = base
  BY <1>1, <1>4
<1>7. \A n \in 1..P : after[n] = Pass(after[n-1])
  <2>1. \A n \in 1..P : n \in 0..P /\ n # 0
    BY <1>1
  <2>2. QED
    BY <1>4, <2>1
<1> DEFINE Kept(s, n) == s \in A /\ Over(g, s, n) /\ SeekInv(g, e, t, m, s)
           T == {n \in Nat : n =< P => Kept(after[n], n)}
<1>8. 0 \in T
  <2>1. Len(base.queue) = 1 /\ base.queue[1] = <<e>> /\ base.visited = {} /\ base.found = <<>>
        /\ Last(<<e>>) = e /\ Len(<<e>>) - 1 = 0 /\ 1 \in 1..1
    BY DEF Last
  <2>2. base.queue \in Seq(PathsFrom(g, e))
    BY <1>2 DEF SeekStates
  <2> HIDE DEF base
  <2>3. Len(Ends(base.queue)) = 1 /\ Ends(base.queue)[1].id = e /\ Ends(base.queue)[1].d = 0
    BY <2>1, <2>2, EndsAre
  <2>4. Frontier(g, e, m, 0, Ends(base.queue), {}, Near(g, e, m) \ {t})
    BY <2>3, FrontierStarts
  <2>5. Searching(g, e, t, m, base, 0)
    BY <2>1, <2>4 DEF Searching
  <2>6. SeekInv(g, e, t, m, base)
    BY <2>1, <2>5 DEF SeekInv
  <2>7. Over(g, base, 0)
    <3>1. IsFiniteSet(Meets(g, base.visited))
      BY MeetsBounded
    <3>2. Effort(g, base) \in Nat
      BY <3>1, FS_CardinalityType DEF Effort
    <3>3. QED
      BY <2>1, <3>2 DEF Over
  <2> HIDE DEF A
  <2>8. QED
    BY <1>2, <1>6, <2>6, <2>7
<1>9. ASSUME NEW n \in Nat, n \in T
      PROVE  n + 1 \in T
  <2> SUFFICES ASSUME n + 1 =< P PROVE Kept(after[n+1], n + 1)
    OBVIOUS
  <2> DEFINE s == after[n]
             u == after[n+1]
  <2>1. n =< P /\ n + 1 \in 1..P /\ (n + 1) - 1 = n
    BY <1>1
  <2>2. Kept(s, n) /\ u = Pass(s)
    BY <1>7, <1>9, <2>1
  <2> HIDE DEF s, u
  <2>3. ASSUME s.queue = <<>> \/ s.found # <<>> PROVE Kept(u, n + 1)
    <3> HIDE DEF A
    <3>1. u = s
      BY <2>2, <2>3
    <3>2. QED
      BY <2>2, <2>3, <3>1 DEF Over
  <2>4. ASSUME s.queue # <<>>, s.found = <<>> PROVE Kept(u, n + 1)
    <3>1. s \in A /\ n + Len(s.queue) =< 1 + Effort(g, s) /\ u = SeekOn(g, t, m, s)
      BY <2>2, <2>4 DEF Over
    <3>2. PICK D : Searching(g, e, t, m, s, D)
      BY <2>2, <2>4 DEF SeekInv
    <3>3. s.queue \in Seq(PathsFrom(g, e))
      BY <3>1 DEF SeekStates
    <3>4. Len(s.queue) \in Nat /\ Len(s.queue) # 0
      BY <2>4, <3>3, LenProperties, EmptySeq
    <3>5. 1 =< Len(Ends(s.queue))
      BY <3>3, <3>4, EndsAre
    <3>6. PICK C : Searching(g, e, t, m, s, C) /\ Ends(s.queue)[1].d = C
      BY <3>2, <3>5, SeekHeads
    <3>7. /\ SeekInv(g, e, t, m, u)
          /\ u.found # <<>> \/ Len(u.queue) + Effort(g, s) + 1 =< Len(s.queue) + Effort(g, u)
      BY <2>4, <3>1, <3>6, SeekKeeps
    <3>8. u \in A
      BY <2>4, <3>1, SeekOnIs
    <3>9. Len(u.queue) \in Nat
      <4>1. u.queue \in Seq(PathsFrom(g, e))
        BY <3>8 DEF SeekStates
      <4>2. QED
        BY <4>1, LenProperties
    <3>10. Effort(g, s) \in Nat /\ Effort(g, u) \in Nat
      <4>1. IsFiniteSet(Meets(g, s.visited)) /\ IsFiniteSet(Meets(g, u.visited))
        BY MeetsBounded
      <4>2. QED
        BY <4>1, FS_CardinalityType DEF Effort
    <3>11. Over(g, u, n + 1)
      <4>1. n + Len(s.queue) =< 1 + Effort(g, s)
        BY <3>1
      <4>2. \A a, b, c, d \in Nat : n + a =< 1 + b /\ c + b + 1 =< a + d => (n + 1) + c =< 1 + d
        OBVIOUS
      <4>3. u.found # <<>> \/ (n + 1) + Len(u.queue) =< 1 + Effort(g, u)
        BY <3>4, <3>7, <3>9, <3>10, <4>1, <4>2
      <4>4. QED
        BY <4>3 DEF Over
    <3> HIDE DEF A
    <3>12. QED
      BY <3>7, <3>8, <3>11
  <2>5. QED
    BY <2>3, <2>4 DEF u
<1>10. Kept(after[P], P)
  <2>1. \A n \in Nat : n \in T
    <3> HIDE DEF T
    <3>1. QED
      BY <1>8, <1>9, SetInduction
  <2>2. QED
    BY <1>1, <2>1
<1> DEFINE s == after[P]
<1> HIDE DEF s
<1>11. s \in A /\ Over(g, s, P) /\ SeekInv(g, e, t, m, s)
  BY <1>10 DEF s
<1>12. CASE s.found # <<>>
  BY <1>5, <1>11, <1>12 DEF SeekInv, s
<1>13. CASE s.found = <<>>
  <2>1. PICK D : Searching(g, e, t, m, s, D)
    BY <1>11, <1>13 DEF SeekInv
  <2>2. s.queue \in Seq(PathsFrom(g, e))
    BY <1>11 DEF SeekStates
  <2>3. Len(s.queue) \in Nat /\ Len(Ends(s.queue)) = Len(s.queue)
    BY <2>2, EndsAre
  <2>4. IsFiniteSet(Meets(g, s.visited)) /\ Effort(g, s) =< 2 * Len(g.edges)
    BY MeetsBounded DEF Effort
  <2>5. Effort(g, s) \in Nat
    BY <2>4, FS_CardinalityType DEF Effort
  <2>6. Len(s.queue) = 0
    <3>1. CASE s.queue = <<>>
      BY <3>1
    <3>2. CASE P + Len(s.queue) =< 1 + Effort(g, s)
      <4>1. P = 1 + 2 * Len(g.edges) /\ Len(g.edges) \in Nat
        BY <1>1
      <4>2. \A a, b, c \in Nat : b =< 2 * a /\ (1 + 2 * a) + c =< 1 + b => c = 0
        OBVIOUS
      <4>3. (1 + 2 * Len(g.edges)) + Len(s.queue) =< 1 + Effort(g, s)
        BY <3>2, <4>1
      <4>4. QED
        BY <2>3, <2>4, <2>5, <4>1, <4>2, <4>3
    <3>3. QED
      BY <1>11, <1>13, <3>1, <3>2 DEF Over
  <2> DEFINE q == Ends(s.queue)
  <2>7. Frontier(g, e, m, D, q, s.visited, Near(g, e, m) \ {t}) /\ t \notin s.visited
    BY <2>1 DEF Searching
  <2> HIDE DEF q
  <2>8. Len(q) = 0 /\ 1..0 = {}
    BY <2>3, <2>6 DEF q
  <2>9. Frontier(g, e, m, m, q, s.visited, Near(g, e, m) \ {t})
    BY <2>7, <2>8, FrontierEnds
  <2>10. t \notin Near(g, e, m)
    <3>1. ~ WaitingAt(q, t, m)
      BY <2>8 DEF WaitingAt
    <3>2. QED
      BY <2>7, <2>9, <3>1 DEF Frontier
  <2>11. QED
    BY <1>5, <1>13, <2>10 DEF PathIsShortest, s
<1>14. QED
  BY <1>12, <1>13

-----------------------------------------------------------------------------
LEMMA MinOfTwo ==
  ASSUME NEW a \in Int, NEW b \in Int
  PROVE  Min({a, b}) = IF a =< b THEN a ELSE b
<1> DEFINE T == {a, b}
           c == IF a =< b THEN a ELSE b
           m == CHOOSE x \in T : \A y \in T : x =< y
<1>1. c \in T /\ c \in Int /\ \A y \in T : c =< y
  OBVIOUS
<1>2. m \in T /\ \A y \in T : m =< y
  BY <1>1
<1>3. m \in Int /\ m =< c /\ c =< m
  <2> HIDE DEF m, c
  <2>1. m \in Int
    BY <1>2
  <2>2. QED
    BY <1>1, <1>2, <2>1
<1>4. m = c
  <2> HIDE DEF m, c
  <2>1. QED
    BY <1>1, <1>3
<1>5. Min(T) = m
  BY DEF Min
<1>6. QED
  BY <1>4, <1>5

LEMMA FirstOfIs ==
  ASSUME NEW s, IsList(s), NEW k \in Nat
  PROVE  /\ IsList(FirstOf(s, k)) /\ Len(FirstOf(s, k)) = (IF k =< Len(s) THEN k ELSE Len(s))
         /\ DOMAIN FirstOf(s, k) = 1..Len(FirstOf(s, k))
         /\ \A i \in 1..Len(FirstOf(s, k)) : FirstOf(s, k)[i] = s[i]
<1> DEFINE n == Len(s)
           l == IF k =< n THEN k ELSE n
           r == FirstOf(s, k)
<1>1. s \in Seq(ToSet(s)) /\ n \in Nat /\ DOMAIN s = 1..n
  BY LenProperties DEF IsList
<1>2. Min({k, n}) = l
  BY <1>1, MinOfTwo
<1>3. r = SubSeq(s, 1, l) /\ l \in Nat /\ l =< n
  <2>1. l \in Nat /\ l =< n
    BY <1>1
  <2>2. r = SubSeq(s, 1, Min({k, n}))
    BY DEF FirstOf
  <2> HIDE DEF l, r
  <2>3. QED
    BY <1>2, <2>1, <2>2
<1> HIDE DEF l, r, n
<1>4. \A i \in 1..l : s[i] \in ToSet(s) /\ i \in 1..n
  BY <1>1, <1>3 DEF ToSet
<1>5. r \in Seq(ToSet(s)) /\ Len(r) = l /\ \A i \in 1..l : r[i] = s[i]
  <2>1. r = [i \in 1..l |-> s[i]]
    BY <1>1, <1>3, <1>4, SubSeqProperties DEF n
  <2>2. r \in [1..l -> ToSet(s)]
    BY <1>4, <2>1
  <2>3. r \in Seq(ToSet(s))
    BY <1>3, <2>2, SeqDef
  <2>4. DOMAIN r = 1..l /\ DOMAIN r = 1..Len(r) /\ Len(r) \in Nat
    BY <2>2, <2>3, LenProperties
  <2>5. Len(r) = l
    BY <1>3, <2>4
  <2>6. QED
    BY <2>1, <2>3, <2>5
<1>6. DOMAIN r = 1..Len(r) /\ Len(r) \in Nat
  BY <1>5, LenProperties
<1>7. r \in Seq(ToSet(r))
  <2>1. r \in [1..Len(r) -> ToSet(r)]
    BY <1>5, <1>6 DEF ToSet
  <2>2. QED
    BY <1>6, <2>1, SeqDef
<1>8. QED
  BY <1>5, <1>6, <1>7 DEF IsList, r, l, n

(* What a subgraph has is what is near its seeds.                          *)
LEMMA SubgraphIs ==
  ASSUME NEW g, GivesOnce(g.edges), NEW seeds
  PROVE  /\ \A i \in DOMAIN seeds : Near(g, seeds[i], 1) \intersect g.entities \subseteq Subgraph(g, seeds, 1).entities
         /\ Subgraph(g, seeds, 1).entities \subseteq UNION {Near(g, seeds[i], 1) : i \in DOMAIN seeds}
<1>1. \A i \in DOMAIN seeds : Neighbors(g, seeds[i], 1).entities = Near(g, seeds[i], 1) \intersect g.entities
  BY NeighborsFound DEF NeighborsAreNear
<1>2. Subgraph(g, seeds, 1).entities = UNION {Neighbors(g, seeds[i], 1).entities : i \in DOMAIN seeds}
  BY DEF Subgraph
<1>3. QED
  BY <1>1, <1>2

LEMMA SearchFound ==
  ASSUME NEW g, GivesOnce(g.edges), NEW hits, IsList(hits), NEW matches, IsList(matches), NEW k \in Nat
  PROVE  SearchIsSurrounded(g, hits, matches, k, Searched(g, hits, matches, k))
<1> DEFINE named == IF k = 0 THEN matches ELSE FirstOf(matches, k)
           taken == IF hits # <<>> THEN hits ELSE named
           seeds == IF hits # <<>> THEN hits ELSE matches
           first == FirstOf(taken, k)
           a == Searched(g, hits, matches, k)
<1>1. IsList(seeds)
  OBVIOUS
<1>2. /\ IsList(first) /\ DOMAIN first = 1..Len(first)
      /\ Len(first) = (IF k =< Len(seeds) THEN k ELSE Len(seeds))
      /\ \A i \in 1..Len(first) : first[i] = seeds[i]
  <2>1. CASE hits # <<>> \/ k = 0
    <3>1. taken = seeds
      BY <2>1
    <3>2. QED
      BY <1>1, <3>1, FirstOfIs
  <2>2. CASE hits = <<>> /\ k # 0
    <3>1. taken = FirstOf(matches, k) /\ seeds = matches
      BY <2>2
    <3>2. /\ IsList(taken) /\ Len(taken) = (IF k =< Len(matches) THEN k ELSE Len(matches))
          /\ \A i \in 1..Len(taken) : taken[i] = matches[i]
      BY <3>1, FirstOfIs
    <3>3. Len(matches) \in Nat
      BY LenProperties DEF IsList
    <3>4. /\ IsList(first) /\ Len(first) = (IF k =< Len(taken) THEN k ELSE Len(taken))
          /\ DOMAIN first = 1..Len(first)
          /\ \A i \in 1..Len(first) : first[i] = taken[i]
      BY <3>2, FirstOfIs
    <3> HIDE DEF taken, first, seeds
    <3>5. Len(first) = Len(taken)
      BY <3>2, <3>3, <3>4
    <3>6. QED
      BY <3>1, <3>2, <3>4, <3>5
  <2>3. QED
    BY <2>1, <2>2
<1>3. a = Subgraph(g, first, 1)
  BY DEF Searched
<1>4. DOMAIN seeds = 1..Len(seeds) /\ Len(seeds) \in Nat
  BY <1>1, LenProperties DEF IsList
<1>5. DOMAIN FirstOf(seeds, k) = DOMAIN first
  <2>1. DOMAIN FirstOf(seeds, k) = 1..Len(FirstOf(seeds, k))
        /\ Len(FirstOf(seeds, k)) = (IF k =< Len(seeds) THEN k ELSE Len(seeds))
    BY <1>1, FirstOfIs
  <2> HIDE DEF first, seeds
  <2>2. QED
    BY <1>2, <2>1
<1> HIDE DEF first, taken, a
<1>6. /\ \A i \in DOMAIN first : Near(g, first[i], 1) \intersect g.entities \subseteq a.entities
      /\ a.entities \subseteq UNION {Near(g, first[i], 1) : i \in DOMAIN first}
  BY <1>3, SubgraphIs
<1>7. \A i \in DOMAIN seeds : i =< k => Near(g, seeds[i], 1) \intersect g.entities \subseteq a.entities
  <2> HIDE DEF seeds
  <2> SUFFICES ASSUME NEW i \in DOMAIN seeds, i =< k
               PROVE  Near(g, seeds[i], 1) \intersect g.entities \subseteq a.entities
    OBVIOUS
  <2>1. i \in 1..Len(first)
    BY <1>2, <1>4
  <2>2. QED
    BY <1>2, <1>6, <2>1
<1>8. a.entities \subseteq UNION {Near(g, seeds[i], 1) : i \in DOMAIN FirstOf(seeds, k)}
  <2> HIDE DEF seeds
  <2>1. QED
    BY <1>2, <1>5, <1>6
<1>9. SearchIsSurrounded(g, hits, matches, k, a)
  BY <1>7, <1>8 DEF SearchIsSurrounded
<1>10. QED
  BY <1>9 DEF a

Found == Neighbors(call.graph, call.from, call.depth)
Shortest == FindPath(call.graph, call.from, call.to, call.depth)
Surroundings == Searched(call.graph, call.hits, call.matches, call.topK)

LEMMA TraverseSteps ==
  ASSUME [Next]_<<call, answer>>
  PROVE  /\ call' = call
         /\ call.op = "neighbors" => answer' = answer \/ answer' = <<Found>>
         /\ call.op = "path" => answer' = answer \/ answer' = <<Shortest>>
         /\ call.op = "search graph" => answer' = answer \/ answer' = <<Surroundings>>
BY DEF Next, Traverse, Cut, Evidence, Compile, Read, Extract, Evolve, Remember, Answer,
       Found, Shortest, Surroundings

(* get_neighbors, find_path and search of the knowledge graph (graph_store *)
(* and graph_rag), for every graph: all that is within the depth and       *)
(* nothing else, each edge as often as it has ends that were expanded, and *)
(* no path but a shortest.                                                 *)
THEOREM TraversalFindsTheNearest == Spec => []TraversalIsBreadthFirst
<1> DEFINE IInv == call \in Calls /\ TraversalIsBreadthFirst
<1>1. Init => IInv
  BY DEF Init, TraversalIsBreadthFirst, Answered
<1>2. IInv /\ [Next]_<<call, answer>> => IInv'
  <2> SUFFICES ASSUME call \in Calls, TraversalIsBreadthFirst, [Next]_<<call, answer>>
               PROVE  IInv'
    OBVIOUS
  <2>0. call' = call
    BY TraverseSteps
  <2>a. /\ call.op \in {"neighbors", "path", "search graph"} => GivesOnce(call.graph.edges)
        /\ call.op \in {"neighbors", "path"} => call.depth \in Nat
        /\ call.op = "search graph" => IsList(call.hits) /\ IsList(call.matches) /\ call.topK \in Nat
    BY CallsAreSound
  <2>1. CASE call.op = "neighbors"
    <3>1. answer' = answer \/ answer' = <<Found>>
      BY <2>1, TraverseSteps
    <3>2. NeighborsAreNear(call.graph, call.from, call.depth, Found)
      BY <2>1, <2>a, NeighborsFound DEF Found
    <3>3. <<Found>>[1] = Found
      OBVIOUS
    <3> HIDE DEF Found
    <3>4. QED
      BY <2>0, <2>1, <3>1, <3>2, <3>3 DEF TraversalIsBreadthFirst, Answered
  <2>2. CASE call.op = "path"
    <3>1. answer' = answer \/ answer' = <<Shortest>>
      BY <2>2, TraverseSteps
    <3>2. PathIsShortest(call.graph, call.from, call.to, call.depth, Shortest)
      BY <2>2, <2>a, PathFound DEF Shortest
    <3>3. <<Shortest>>[1] = Shortest
      OBVIOUS
    <3>4. QED
      BY <2>0, <2>2, <3>1, <3>2, <3>3 DEF TraversalIsBreadthFirst, Answered
  <2>3. CASE call.op = "search graph"
    <3>1. answer' = answer \/ answer' = <<Surroundings>>
      BY <2>3, TraverseSteps
    <3>2. SearchIsSurrounded(call.graph, call.hits, call.matches, call.topK, Surroundings)
      BY <2>3, <2>a, SearchFound DEF Surroundings
    <3>3. <<Surroundings>>[1] = Surroundings
      OBVIOUS
    <3>4. QED
      BY <2>0, <2>3, <3>1, <3>2, <3>3 DEF TraversalIsBreadthFirst, Answered
  <2>4. CASE call.op \notin {"neighbors", "path", "search graph"}
    BY <2>0, <2>4 DEF TraversalIsBreadthFirst, Answered
  <2>5. QED
    BY <2>1, <2>2, <2>3, <2>4
<1>3. IInv => TraversalIsBreadthFirst
  OBVIOUS
<1>4. QED
  BY <1>1, <1>2, <1>3, PTL DEF Spec

-----------------------------------------------------------------------------
(***************************************************************************)
(* A list in descending order: o says where each place of it comes from.   *)
(***************************************************************************)
Rearranges(o, s, r) ==
  /\ o \in [1..Len(s) -> 1..Len(s)]
  /\ \A i, j \in 1..Len(s) : o[i] = o[j] => i = j
  /\ \A i \in 1..Len(s) : \E k \in 1..Len(s) : o[k] = i
  /\ Len(r) = Len(s) /\ \A i \in 1..Len(s) : r[i] = s[o[i]]

Falls(r, key) == \A i, j \in 1..Len(r) : i < j => key[r[i]] >= key[r[j]]

LEMMA DescendingIs ==
  ASSUME NEW S, NEW s \in Seq(S), NEW key, \A i \in 1..Len(s) : key[s[i]] \in Int
  PROVE  /\ Descending(s, key) \in Seq(S)
         /\ \E o : Rearranges(o, s, Descending(s, key))
         /\ Falls(Descending(s, key), key)
<1> DEFINE n == Len(s)
           r == Descending(s, key)
           v(i) == key[s[i]]
           Before(j, i) == v(j) > v(i) \/ (v(j) = v(i) /\ j < i)
           B(i) == {j \in 1..n : Before(j, i)}
           c(i) == Cardinality(B(i))
<1>1. n \in Nat /\ DOMAIN s = 1..n /\ \A i \in 1..n : v(i) \in Int /\ s[i] \in S
  BY LenProperties
<1>2. \A i \in 1..n : B(i) = Preceding(s, key, i)
  BY <1>1 DEF Preceding
<1>3. \A i \in 1..n : ~ Before(i, i)
  BY <1>1
<1>4. \A i, j \in 1..n : i = j \/ Before(i, j) \/ Before(j, i)
  BY <1>1
<1>5. \A i, j, k \in 1..n : Before(i, j) /\ Before(j, k) => Before(i, k)
  BY <1>1
<1>w. \A i, j \in 1..n : Before(i, j) => v(i) >= v(j)
  BY <1>1
<1> HIDE DEF Before, v
<1>6. \A i \in 1..n : B(i) \in SUBSET (1..n) /\ IsFiniteSet(B(i)) /\ c(i) \in Nat
  BY <1>1, PositionsFinite
<1>7. ASSUME NEW i \in 1..n, NEW j \in 1..n, Before(i, j)
      PROVE  c(i) < c(j)
  <2>1. B(i) \in SUBSET B(j) /\ i \in B(j) /\ i \notin B(i)
    BY <1>3, <1>5, <1>7
  <2>2. Cardinality(B(i)) =< Cardinality(B(j)) /\ (Cardinality(B(j)) = Cardinality(B(i)) => B(j) = B(i))
    BY <1>6, <2>1, FS_Subset
  <2>3. c(i) =< c(j) /\ c(i) # c(j)
    BY <2>1, <2>2
  <2>4. c(i) \in Nat /\ c(j) \in Nat
    BY <1>6
  <2> HIDE DEF c
  <2>5. QED
    BY <2>3, <2>4
<1>8. \A i \in 1..n : c(i) + 1 \in 1..n
  <2> SUFFICES ASSUME NEW i \in 1..n PROVE c(i) + 1 \in 1..n
    OBVIOUS
  <2>1. B(i) \in SUBSET ((1..n) \ {i})
    BY <1>3
  <2>2. IsFiniteSet(1..n) /\ Cardinality(1..n) = n
    BY <1>1, PositionsCount
  <2>3. IsFiniteSet((1..n) \ {i}) /\ Cardinality((1..n) \ {i}) = n - 1
    BY <2>2, FS_RemoveElement
  <2>4. c(i) =< n - 1
    BY <2>1, <2>3, FS_Subset
  <2>5. c(i) \in Nat
    BY <1>6
  <2> HIDE DEF c, n
  <2>6. QED
    BY <1>1, <2>4, <2>5
<1> HIDE DEF c, B
<1>9. ASSUME NEW i \in 1..n, NEW j \in 1..n, c(i) = c(j)
      PROVE  i = j
  <2>1. \A a, b \in Nat : a = b => ~ (a < b) /\ ~ (b < a)
    OBVIOUS
  <2>2. QED
    BY <1>4, <1>6, <1>7, <1>9, <2>1
<1> DEFINE rank == [i \in 1..n |-> c(i) + 1]
<1>10. \A k \in 1..n : \E i \in 1..n : c(i) = k - 1
  <2>1. rank \in [1..n -> 1..n]
    BY <1>8
  <2>2. \A i, j \in 1..n : rank[i] = rank[j] => i = j
    <3>1. \A a, b \in Nat : a + 1 = b + 1 => a = b
      OBVIOUS
    <3>2. QED
      BY <1>6, <1>9, <3>1
  <2>3. IsFiniteSet(1..n)
    BY <1>1, FS_Interval
  <2>4. \A i \in 1..n : rank[i] = c(i) + 1
    OBVIOUS
  <2> HIDE DEF rank, n
  <2>5. rank \in Injection(1..n, 1..n)
    BY <2>1, <2>2 DEF Injection, IsInjective
  <2>6. rank \in Surjection(1..n, 1..n)
    BY <2>3, <2>5, FS_Injection
  <2>7. \A k \in 1..n : \E i \in 1..n : rank[i] = k
    BY <2>6 DEF Surjection
  <2>8. \A a \in Nat, k \in 1..n : a + 1 = k => a = k - 1
    OBVIOUS
  <2>9. ASSUME NEW k \in 1..n
        PROVE  \E i \in 1..n : c(i) = k - 1
    <3>1. PICK i \in 1..n : rank[i] = k
      BY <2>7
    <3>2. c(i) + 1 = k /\ c(i) \in Nat
      BY <1>6, <2>4, <3>1
    <3>3. QED
      BY <2>8, <3>2
  <2>10. QED
    BY <2>9
<1> DEFINE o == [k \in 1..n |-> CHOOSE i \in 1..n : c(i) = k - 1]
<1>11. \A k \in 1..n : o[k] \in 1..n /\ c(o[k]) = k - 1
  BY <1>10
<1>12. r = [k \in 1..n |-> s[o[k]]]
  <2>1. r = [k \in 1..n |-> s[CHOOSE i \in 1..n : Cardinality(Preceding(s, key, i)) = k - 1]]
    BY <1>1 DEF Descending
  <2>2. \A i \in 1..n : c(i) = Cardinality(Preceding(s, key, i))
    BY <1>2 DEF c
  <2> DEFINE w(k) == CHOOSE i \in 1..n : Cardinality(Preceding(s, key, i)) = k - 1
  <2>3. ASSUME NEW k \in 1..n
        PROVE  o[k] = w(k)
    <3>1. w(k) = CHOOSE i \in 1..n : c(i) = k - 1
      BY <2>2
    <3>2. QED
      BY <3>1
  <2>4. r = [k \in 1..n |-> s[w(k)]]
    BY <2>1
  <2> HIDE DEF r, o, w
  <2>5. QED
    BY <2>3, <2>4
<1>13. o \in [1..n -> 1..n]
  BY <1>11
<1>14. ASSUME NEW i \in 1..n, NEW j \in 1..n, i < j
       PROVE  v(o[i]) >= v(o[j])
  <2>1. o[i] \in 1..n /\ o[j] \in 1..n /\ c(o[i]) = i - 1 /\ c(o[j]) = j - 1
    BY <1>11
  <2> HIDE DEF o
  <2>2. ~ (c(o[j]) < c(o[i])) /\ c(o[i]) # c(o[j])
    <3>1. i \in Nat /\ j \in Nat /\ ~ (j - 1 < i - 1) /\ i - 1 # j - 1
      BY <1>14
    <3>2. QED
      BY <2>1, <3>1
  <2>3. Before(o[i], o[j])
    BY <1>4, <1>7, <2>1, <2>2
  <2>4. QED
    BY <1>w, <2>1, <2>3
<1>15. \A i, j \in 1..n : o[i] = o[j] => i = j
  <2> HIDE DEF o
  <2>1. \A i, j \in 1..n : i - 1 = j - 1 => i = j
    OBVIOUS
  <2>2. QED
    BY <1>11, <2>1
<1>16. \A i \in 1..n : \E k \in 1..n : o[k] = i
  <2> SUFFICES ASSUME NEW i \in 1..n PROVE \E k \in 1..n : o[k] = i
    OBVIOUS
  <2> DEFINE k == c(i) + 1
  <2>1. k \in 1..n /\ k - 1 = c(i)
    BY <1>6, <1>8
  <2> HIDE DEF k, o
  <2>2. o[k] \in 1..n /\ c(o[k]) = c(i)
    BY <1>11, <2>1
  <2>3. o[k] = i
    BY <1>9, <2>2
  <2>4. QED
    BY <2>1, <2>3
<1> HIDE DEF o, r
<1>17. r \in [1..n -> S] /\ r \in Seq(S)
  <2>1. \A k \in 1..n : s[o[k]] \in S
    BY <1>1, <1>13
  <2>2. r \in [1..n -> S]
    BY <1>12, <2>1
  <2>3. QED
    BY <1>1, <2>2, SeqDef
<1>18. Len(r) = n
  <2>1. DOMAIN r = 1..n
    BY <1>12
  <2>2. QED
    BY <1>1, <1>17, <2>1, LenProperties
<1>19. \A i \in 1..n : r[i] = s[o[i]]
  BY <1>12
<1>20. Rearranges(o, s, r)
  BY <1>13, <1>15, <1>16, <1>18, <1>19 DEF Rearranges
<1>21. Falls(r, key)
  BY <1>14, <1>18, <1>19 DEF Falls, v
<1>22. QED
  BY <1>17, <1>20, <1>21 DEF r

(* What is rearranged has everything as often as before.                   *)
LEMMA RearrangedTimes ==
  ASSUME NEW S, NEW s \in Seq(S), NEW r \in Seq(S), \E o : Rearranges(o, s, r)
  PROVE  /\ Len(r) = Len(s) /\ ToSet(r) = ToSet(s)
         /\ \A x : Times(r, x) = Times(s, x)
<1> DEFINE n == Len(s)
<1>1. PICK o : Rearranges(o, s, r)
  OBVIOUS
<1>2. /\ o \in [1..n -> 1..n]
      /\ \A i, j \in 1..n : o[i] = o[j] => i = j
      /\ \A i \in 1..n : \E k \in 1..n : o[k] = i
      /\ Len(r) = n /\ \A i \in 1..n : r[i] = s[o[i]]
  BY <1>1 DEF Rearranges
<1>3. n \in Nat /\ DOMAIN s = 1..n /\ DOMAIN r = 1..n
  BY <1>2, LenProperties
<1> HIDE DEF n
<1>4. ToSet(r) = ToSet(s)
  BY <1>2, <1>3 DEF ToSet
<1>5. ASSUME NEW x
      PROVE  Times(r, x) = Times(s, x)
  <2> DEFINE P == {i \in 1..n : r[i] = x}
             Q == {i \in 1..n : s[i] = x}
             f == [i \in P |-> o[i]]
  <2>1. f \in [P -> Q]
    BY <1>2
  <2>2. \A a, b \in P : f[a] = f[b] => a = b
    BY <1>2
  <2>3. \A t \in Q : \E a \in P : f[a] = t
    BY <1>2
  <2>4. IsFiniteSet(P)
    BY <1>3, PositionsFinite
  <2> HIDE DEF P, Q, f
  <2>5. Cardinality(P) = Cardinality(Q)
    BY <2>1, <2>2, <2>3, <2>4, BijectionCounts
  <2>6. QED
    BY <1>3, <2>5 DEF Times, P, Q
<1>6. QED
  BY <1>2, <1>4, <1>5 DEF n

(* What is cut off at the end.                                             *)
Begins(p, s, m) ==
  /\ p \in Seq(ToSet(s)) /\ Len(p) = m /\ m \in 0..Len(s)
  /\ \A i \in 1..m : p[i] = s[i]

LEMMA CutBegins ==
  ASSUME NEW S, NEW s \in Seq(S), NEW m \in 0..Len(s)
  PROVE  Begins(SubSeq(s, 1, m), s, m)
<1> DEFINE r == SubSeq(s, 1, m)
<1>1. Len(s) \in Nat /\ DOMAIN s = 1..Len(s) /\ m \in Nat /\ m =< Len(s)
  BY LenProperties
<1>2. \A i \in 1..m : s[i] \in ToSet(s)
  BY <1>1 DEF ToSet
<1>3. r = [i \in 1..m |-> s[i]]
  BY <1>1, SubSeqProperties
<1> HIDE DEF r
<1>4. r \in [1..m -> ToSet(s)] /\ r \in Seq(ToSet(s))
  BY <1>1, <1>2, <1>3, SeqDef
<1>5. Len(r) = m
  <2>1. DOMAIN r = 1..m
    BY <1>3
  <2>2. QED
    BY <1>1, <1>4, <2>1, LenProperties
<1>6. QED
  BY <1>3, <1>4, <1>5 DEF Begins, r

LEMMA BeginsTimes ==
  ASSUME NEW S, NEW s \in Seq(S), NEW p, NEW m, Begins(p, s, m), NEW x
  PROVE  /\ Times(p, x) \in Nat /\ Times(s, x) \in Nat /\ Times(p, x) =< Times(s, x)
         /\ Times(p, x) < Times(s, x) => \E j \in m+1..Len(s) : s[j] = x
<1>1. /\ p \in Seq(ToSet(s)) /\ Len(p) = m /\ m \in Nat /\ m =< Len(s)
      /\ \A i \in 1..m : p[i] = s[i]
  BY DEF Begins
<1>2. DOMAIN s = 1..Len(s) /\ Len(s) \in Nat /\ DOMAIN p = 1..m
  BY <1>1, LenProperties
<1> DEFINE P == {i \in 1..m : p[i] = x}
           Q == {i \in 1..Len(s) : s[i] = x}
<1>3. Times(p, x) = Cardinality(P) /\ Times(s, x) = Cardinality(Q)
  BY <1>2 DEF Times
<1>4. Q \in SUBSET (1..Len(s)) /\ P \in SUBSET Q
  BY <1>1
<1>5. IsFiniteSet(Q) /\ Cardinality(Q) \in Nat
  BY <1>2, <1>4, PositionsFinite
<1>6. IsFiniteSet(P) /\ Cardinality(P) =< Cardinality(Q)
  BY <1>4, <1>5, FS_Subset
<1>7. Cardinality(P) \in Nat
  BY <1>6, FS_CardinalityType
<1>8. ASSUME Cardinality(P) < Cardinality(Q)
      PROVE  \E j \in m+1..Len(s) : s[j] = x
  <2>1. P # Q
    <3> HIDE DEF P, Q
    <3>1. QED
      BY <1>5, <1>8
  <2>2. PICK j \in Q : j \notin P
    BY <1>4, <2>1
  <2>3. j \in 1..Len(s) /\ s[j] = x
    BY <2>2
  <2>4. j \notin 1..m
    BY <1>1, <2>2, <2>3
  <2>5. j \in m+1..Len(s)
    BY <1>1, <1>2, <2>3, <2>4
  <2>6. QED
    BY <2>3, <2>5
<1>9. QED
  BY <1>3, <1>5, <1>6, <1>7, <1>8

-----------------------------------------------------------------------------
(***************************************************************************)
(* What an injection does.                                                 *)
(***************************************************************************)
DecayStep(age, f) == [n \in 0..age |-> IF n = 0 THEN Most ELSE f[n-1] \div 2]
DecayOf(age) == CHOOSE f : f = DecayStep(age, f)

LEMMA DecayIs ==
  ASSUME Most \in Nat, NEW age \in Int
  PROVE  TimeDecay(age) \in Nat
<1>1. CASE age =< 0
  BY <1>1 DEF TimeDecay
<1>2. CASE ~ (age =< 0)
  <2> DEFINE G == [v \in Nat |-> v \div 2]
  <2>1. age \in Nat /\ G \in [Nat -> Nat] /\ \A v \in Nat : G[v] = v \div 2
    BY <1>2
  <2> HIDE DEF G
  <2>2. PICK f : Chain(f, age, Nat, Most, G)
    BY <2>1, ChainExists
  <2>3. f \in [0..age -> Nat] /\ f[0] = Most /\ \A m \in 1..age : f[m] = G[f[m-1]]
    BY <2>2 DEF Chain
  <2>4. \A m \in 0..age : f[m] = IF m = 0 THEN Most ELSE f[m-1] \div 2
    <3>1. \A m \in 0..age : m # 0 => m \in 1..age /\ m - 1 \in 0..age
      BY <2>1
    <3>2. QED
      BY <2>1, <2>3, <3>1
  <2>5. f = DecayStep(age, f)
    BY <2>3, <2>4 DEF DecayStep
  <2>6. DecayOf(age) = DecayStep(age, DecayOf(age))
    BY <2>5 DEF DecayOf
  <2> DEFINE d == DecayOf(age)
  <2>7. \A m \in 0..age : d[m] = IF m = 0 THEN Most ELSE d[m-1] \div 2
    <3> HIDE DEF d
    <3>1. d = DecayStep(age, d)
      BY <2>6 DEF d
    <3>2. QED
      BY <3>1 DEF DecayStep
  <2> DEFINE T == {m \in Nat : m =< age => d[m] \in Nat}
  <2> HIDE DEF d
  <2>8. 0 \in T
    BY <2>1, <2>7
  <2>9. \A m \in Nat : m \in T => m + 1 \in T
    <3> SUFFICES ASSUME NEW m \in Nat, m \in T, m + 1 =< age PROVE d[m+1] \in Nat
      OBVIOUS
    <3>1. m + 1 \in 0..age /\ (m + 1) - 1 = m /\ m + 1 # 0 /\ d[m] \in Nat
      BY <2>1
    <3>2. d[m+1] = d[m] \div 2
      BY <2>7, <3>1
    <3>3. \A v \in Nat : v \div 2 \in Nat
      OBVIOUS
    <3>4. QED
      BY <3>1, <3>2, <3>3
  <2>10. d[age] \in Nat
    <3>1. \A m \in Nat : m \in T
      <4> HIDE DEF T
      <4>1. QED
        BY <2>8, <2>9, SetInduction
    <3>2. QED
      BY <2>1, <3>1
  <2>11. QED
    BY <1>2, <2>10 DEF TimeDecay, d, DecayOf, DecayStep
<1>3. QED
  BY <1>1, <1>2

LEMMA LimitedBegins ==
  ASSUME NEW S, NEW s \in Seq(S), NEW n \in Nat
  PROVE  Begins(Limited(s, n), s, IF n = 0 \/ Len(s) =< n THEN Len(s) ELSE n)
<1>1. Len(s) \in Nat /\ DOMAIN s = 1..Len(s)
  BY LenProperties
<1>2. CASE n = 0
  <2>1. s \in [1..Len(s) -> ToSet(s)]
    BY <1>1 DEF ToSet
  <2>2. s \in Seq(ToSet(s))
    BY <1>1, <2>1, SeqDef
  <2>3. Limited(s, n) = s
    BY <1>2 DEF Limited
  <2>4. Begins(s, s, Len(s))
    BY <1>1, <2>2 DEF Begins
  <2>5. QED
    BY <1>2, <2>3, <2>4
<1>3. CASE n # 0
  <2> DEFINE m == IF n < Len(s) THEN n ELSE Len(s)
  <2>1. m \in 0..Len(s) /\ m = IF n = 0 \/ Len(s) =< n THEN Len(s) ELSE n
    BY <1>1, <1>3
  <2>2. Limited(s, n) = SubSeq(s, 1, m)
    BY <1>3 DEF Limited
  <2> HIDE DEF m
  <2>3. Begins(SubSeq(s, 1, m), s, m)
    BY <2>1, CutBegins
  <2>4. QED
    BY <2>1, <2>2, <2>3
<1>4. QED
  BY <1>2, <1>3

(* The own memories of an agent, those of them that are candidates, and    *)
(* the lines that are given, each list with the one it was taken from.     *)
Candidates(own, sorted, raw) ==
  /\ sorted \in Seq(ToSet(own)) /\ raw \in Seq(ToSet(own))
  /\ ToSet(raw) \subseteq ToSet(own)
  /\ Len(sorted) = Len(own) /\ Len(own) \in Nat
  /\ \A x : Times(sorted, x) = Times(own, x)
  /\ \A i, j \in 1..Len(sorted) : i < j => sorted[i].importance >= sorted[j].importance
  /\ Begins(raw, sorted, Len(raw))

LEMMA CandidatesAre ==
  ASSUME NEW S, NEW own \in Seq(S), \A m \in ToSet(own) : m.importance \in Int, NEW n \in Nat
  PROVE  /\ Candidates(own, MostImportant(own), Limited(MostImportant(own), n))
         /\ Len(Limited(MostImportant(own), n)) = IF n = 0 \/ Len(own) =< n THEN Len(own) ELSE n
<1> DEFINE E == ToSet(own)
           key == [m \in E |-> m.importance]
           sorted == MostImportant(own)
           raw == Limited(sorted, n)
<1>1. DOMAIN own = 1..Len(own) /\ Len(own) \in Nat
  BY LenProperties
<1>2. \A i \in 1..Len(own) : own[i] \in E
  BY <1>1 DEF ToSet
<1>3. own \in Seq(E)
  <2> HIDE DEF E
  <2>1. own \in [1..Len(own) -> E]
    BY <1>1, <1>2
  <2>2. QED
    BY <1>1, <2>1, SeqDef
<1>4. \A m \in E : key[m] = m.importance /\ key[m] \in Int
  OBVIOUS
<1>5. sorted = Descending(own, key)
  BY DEF MostImportant
<1> HIDE DEF E, key, sorted
<1>6. /\ sorted \in Seq(E) /\ (\E o : Rearranges(o, own, sorted)) /\ Falls(sorted, key)
  BY <1>2, <1>3, <1>4, <1>5, DescendingIs
<1>7. Len(sorted) = Len(own) /\ ToSet(sorted) = ToSet(own) /\ \A x : Times(sorted, x) = Times(own, x)
  BY <1>3, <1>6, RearrangedTimes
<1>8. \A i, j \in 1..Len(sorted) : i < j => sorted[i].importance >= sorted[j].importance
  <2>1. \A i \in 1..Len(sorted) : sorted[i] \in E
    BY <1>6, ElementOfSeq
  <2>2. QED
    BY <1>4, <1>6, <2>1 DEF Falls
<1> DEFINE l == IF n = 0 \/ Len(own) =< n THEN Len(own) ELSE n
<1>9. Begins(raw, sorted, l)
  <2>1. Begins(Limited(sorted, n), sorted, IF n = 0 \/ Len(sorted) =< n THEN Len(sorted) ELSE n)
    BY <1>6, LimitedBegins
  <2>2. QED
    BY <1>7, <2>1
<1> HIDE DEF raw, l
<1>10. Len(raw) = l /\ raw \in Seq(E)
  BY <1>7, <1>9 DEF Begins, E
<1>11. ToSet(raw) \subseteq E
  <2>1. DOMAIN raw = 1..Len(raw)
    BY <1>10, LenProperties
  <2>2. \A i \in 1..Len(raw) : raw[i] \in E
    BY <1>10, ElementOfSeq
  <2>3. QED
    BY <2>1, <2>2 DEF ToSet
<1>12. Candidates(own, sorted, raw)
  BY <1>1, <1>6, <1>7, <1>8, <1>9, <1>10, <1>11 DEF Candidates, E
<1>13. QED
  BY <1>10, <1>12 DEF l, raw, sorted

(* No line is worse than a candidate that was not given, or less important *)
(* than a memory that was none.                                            *)
BestLines(own, raw, lines, relevance, w, k) ==
  /\ Len(lines) = IF k < Len(raw) THEN k ELSE Len(raw)
  /\ lines \in Seq(ToSet(own)) /\ ToSet(lines) \subseteq ToSet(raw)
  /\ \A m : Times(lines, m) =< Times(own, m)
  /\ \A i \in 1 .. Len(lines) - 1 :
       Score(lines[i], relevance, w) >= Score(lines[i+1], relevance, w)
  /\ \A m \in ToSet(lines) : \A x : Times(lines, x) < Times(own, x) =>
       \/ Score(m, relevance, w) >= Score(x, relevance, w)
       \/ Len(raw) < Len(own) /\ x.importance =< m.importance

LEMMA LinesAreBest ==
  ASSUME NEW S, NEW own \in Seq(S), NEW sorted, NEW raw, Candidates(own, sorted, raw),
         NEW relevance, NEW w, \A m \in ToSet(own) : Score(m, relevance, w) \in Int,
         NEW k \in Nat, NEW lines,
         lines = SubSeq(RankMemories(raw, relevance, w), 1, IF k < Len(raw) THEN k ELSE Len(raw))
  PROVE  BestLines(own, raw, lines, relevance, w, k)
<1> DEFINE E == ToSet(own)
           R == ToSet(raw)
           v(m) == Score(m, relevance, w)
           key == [m \in R |-> v(m)]
           ranked == RankMemories(raw, relevance, w)
           l == IF k < Len(raw) THEN k ELSE Len(raw)
<1>c. /\ sorted \in Seq(E) /\ raw \in Seq(E) /\ R \subseteq E
      /\ Len(sorted) = Len(own) /\ Len(own) \in Nat
      /\ \A x : Times(sorted, x) = Times(own, x)
      /\ \A i, j \in 1..Len(sorted) : i < j => sorted[i].importance >= sorted[j].importance
      /\ Begins(raw, sorted, Len(raw))
  BY DEF Candidates
<1>1. DOMAIN raw = 1..Len(raw) /\ Len(raw) \in Nat
  BY <1>c, LenProperties
<1>2. \A i \in 1..Len(raw) : raw[i] \in R
  BY <1>1 DEF ToSet
<1>3. raw \in Seq(R)
  <2> HIDE DEF R
  <2>1. raw \in [1..Len(raw) -> R]
    BY <1>1, <1>2, <1>c, LenProperties
  <2>2. QED
    BY <1>1, <2>1, SeqDef
<1>4. \A m \in E : v(m) \in Int
  OBVIOUS
<1>5. ranked = Descending(raw, key)
  BY DEF RankMemories
<1>6. \A m \in R : key[m] = v(m)
  OBVIOUS
<1>l. lines = SubSeq(ranked, 1, l)
  OBVIOUS
<1>n. l \in 0..Len(raw) /\ l \in Nat
  BY <1>1
<1> HIDE DEF E, R, v, key, ranked, l
<1>7. /\ ranked \in Seq(R) /\ (\E o : Rearranges(o, raw, ranked)) /\ Falls(ranked, key)
  <2>1. \A i \in 1..Len(raw) : key[raw[i]] \in Int
    BY <1>2, <1>4, <1>6, <1>c
  <2>2. QED
    BY <1>3, <1>5, <2>1, DescendingIs
<1>8. Len(ranked) = Len(raw) /\ \A x : Times(ranked, x) = Times(raw, x)
  BY <1>3, <1>7, RearrangedTimes
<1>r. \A i \in 1..Len(ranked) : ranked[i] \in R
  BY <1>7, ElementOfSeq
<1>9. \A i, j \in 1..Len(raw) : i < j => v(ranked[i]) >= v(ranked[j])
  BY <1>6, <1>7, <1>8, <1>r DEF Falls
<1>10. Begins(lines, ranked, l)
  BY <1>7, <1>8, <1>l, <1>n, CutBegins
<1>11. Len(lines) = l /\ (\A i \in 1..l : lines[i] = ranked[i]) /\ lines \in Seq(ToSet(ranked))
  BY <1>10 DEF Begins
<1>12. DOMAIN lines = 1..l
  BY <1>11, LenProperties
<1>13. ToSet(lines) \subseteq R /\ lines \in Seq(E)
  <2>0. \A i \in 1..l : i \in 1..Len(ranked)
    BY <1>1, <1>8, <1>n
  <2>1. \A i \in 1..l : lines[i] \in R
    BY <1>11, <1>r, <2>0
  <2>2. ToSet(lines) \subseteq R
    BY <1>12, <2>1 DEF ToSet
  <2>3. lines \in [1..l -> E]
    BY <1>11, <1>12, <1>c, <2>1, LenProperties
  <2>4. lines \in Seq(E)
    BY <1>n, <2>3, SeqDef
  <2>5. QED
    BY <2>2, <2>4
<1>14. \A x : /\ Times(lines, x) \in Nat /\ Times(ranked, x) \in Nat /\ Times(own, x) \in Nat
              /\ Times(lines, x) =< Times(ranked, x) /\ Times(ranked, x) =< Times(own, x)
  <2> SUFFICES ASSUME NEW x
               PROVE  /\ Times(lines, x) \in Nat /\ Times(ranked, x) \in Nat /\ Times(own, x) \in Nat
                      /\ Times(lines, x) =< Times(ranked, x) /\ Times(ranked, x) =< Times(own, x)
    OBVIOUS
  <2>1. Times(lines, x) \in Nat /\ Times(ranked, x) \in Nat /\ Times(lines, x) =< Times(ranked, x)
    BY <1>7, <1>10, BeginsTimes
  <2>2. Times(raw, x) \in Nat /\ Times(sorted, x) \in Nat /\ Times(raw, x) =< Times(sorted, x)
    BY <1>c, BeginsTimes
  <2>3. QED
    BY <1>8, <1>c, <2>1, <2>2
<1>15. \A m : Times(lines, m) =< Times(own, m)
  <2> SUFFICES ASSUME NEW m PROVE Times(lines, m) =< Times(own, m)
    OBVIOUS
  <2>1. \A a, b, c \in Nat : a =< b /\ b =< c => a =< c
    OBVIOUS
  <2>2. QED
    BY <1>14, <2>1
<1>16. \A i \in 1 .. Len(lines) - 1 : v(lines[i]) >= v(lines[i+1])
  <2> SUFFICES ASSUME NEW i \in 1 .. l - 1 PROVE v(lines[i]) >= v(lines[i+1])
    BY <1>11
  <2>1. i \in 1..l /\ i + 1 \in 1..l /\ i < i + 1 /\ i \in 1..Len(raw) /\ i + 1 \in 1..Len(raw)
    BY <1>1, <1>n
  <2>2. QED
    BY <1>9, <1>11, <2>1
<1>17. ASSUME NEW m \in ToSet(lines), NEW x, Times(lines, x) < Times(own, x)
       PROVE  v(m) >= v(x) \/ (Len(raw) < Len(own) /\ x.importance =< m.importance)
  <2>1. CASE Times(lines, x) < Times(ranked, x)
    <3>1. PICK j \in l+1..Len(ranked) : ranked[j] = x
      BY <1>7, <1>10, <2>1, BeginsTimes
    <3>2. PICK i \in 1..l : ranked[i] = m
      BY <1>11, <1>12 DEF ToSet
    <3>3. i \in 1..Len(raw) /\ j \in 1..Len(raw) /\ i < j
      BY <1>1, <1>8, <1>n
    <3>4. QED
      BY <1>9, <3>1, <3>2, <3>3
  <2>2. CASE ~ (Times(lines, x) < Times(ranked, x))
    <3>1. Times(raw, x) < Times(sorted, x)
      <4>1. \A a, b, c \in Nat : a =< b /\ ~ (a < b) /\ a < c => b < c
        OBVIOUS
      <4>2. Times(ranked, x) < Times(own, x)
        BY <1>14, <1>17, <2>2, <4>1
      <4>3. QED
        BY <1>8, <1>c, <4>2
    <3>2. PICK j \in Len(raw)+1..Len(sorted) : sorted[j] = x
      BY <1>c, <3>1, BeginsTimes
    <3>3. PICK i \in 1..Len(raw) : raw[i] = m
      BY <1>1, <1>13 DEF ToSet, R
    <3>4. sorted[i] = m
      BY <1>c, <3>3 DEF Begins
    <3>5. i \in 1..Len(sorted) /\ j \in 1..Len(sorted) /\ i < j /\ Len(raw) < Len(own)
      BY <1>1, <1>c
    <3>6. m.importance >= x.importance
      BY <1>c, <3>2, <3>4, <3>5
    <3>7. QED
      BY <3>5, <3>6
  <2>3. QED
    BY <2>1, <2>2
<1>18. QED
  BY <1>11, <1>13, <1>15, <1>16, <1>17 DEF BestLines, E, R, v, l

LEMMA InjectionFound ==
  ASSUME NEW col, IsList(col), NEW agent, NEW relevance, NEW w, NEW k \in Nat,
         \A m \in ToSet(col) : m.importance \in Int /\ Score(m, relevance, w) \in Int
  PROVE  InjectionIsBest(col, agent, relevance, w, k, Inject(col, agent, relevance, w, k))
<1> DEFINE mine == {m \in ToSet(col) : m.agent = agent}
           own == Those(col, mine)
           sorted == MostImportant(own)
           raw == Limited(sorted, 3 * k)
           a == Inject(col, agent, relevance, w, k)
           cut == SubSeq(RankMemories(raw, relevance, w), 1, IF k < Len(raw) THEN k ELSE Len(raw))
<1>1. own \in Seq(ToSet(col)) /\ ToSet(own) \subseteq ToSet(col)
  BY ThoseAre DEF IsList
<1>2. raw = QueryHistorical(col, agent, "any", {}, 3 * k)
  <2>1. mine = {m \in ToSet(col) : /\ m.agent = agent
                                   /\ "any" = "any" \/ "any" \in ToSet(m.topics)
                                   /\ {} = {} \/ m.sim \in {}}
    OBVIOUS
  <2>2. QED
    BY <2>1 DEF QueryHistorical
<1>3. /\ a.raised = ~ Subtractable(raw)
      /\ a.lines = IF Subtractable(raw) THEN cut ELSE <<>>
  BY <1>2 DEF Inject
<1>k. 3 * k \in Nat /\ (3 * k = 0 <=> k = 0) /\ k =< 3 * k
  OBVIOUS
<1> HIDE DEF a, cut, raw, sorted, own, mine
<1>4. Candidates(own, sorted, raw) /\ Len(raw) = IF 3 * k = 0 \/ Len(own) =< 3 * k THEN Len(own) ELSE 3 * k
  BY <1>1, <1>k, CandidatesAre DEF raw, sorted
<1>5. raw \in Seq(ToSet(own)) /\ ToSet(raw) \subseteq ToSet(own) /\ Len(own) \in Nat
  BY <1>4 DEF Candidates
<1>6. CASE ~ Subtractable(raw)
  <2>1. PICK i \in DOMAIN raw : raw[i].zone # Utc
    BY <1>6 DEF Subtractable
  <2>2. raw[i] \in ToSet(own)
    BY <1>5, <2>1 DEF ToSet
  <2>3. \E m \in ToSet(own) : m.zone # Utc
    BY <2>1, <2>2
  <2>4. a.raised /\ a.lines = <<>>
    BY <1>3, <1>6
  <2>5. QED
    BY <2>3, <2>4 DEF InjectionIsBest, own, mine, a
<1>7. CASE Subtractable(raw)
  <2> DEFINE lines == a.lines
  <2>1. lines = cut /\ ~ a.raised
    BY <1>3, <1>7
  <2>2. lines = SubSeq(RankMemories(raw, relevance, w), 1, IF k < Len(raw) THEN k ELSE Len(raw))
    BY <2>1 DEF cut
  <2>0. \A m \in ToSet(own) : Score(m, relevance, w) \in Int
    BY <1>1
  <2> HIDE DEF lines
  <2>3. /\ Len(lines) = IF k < Len(raw) THEN k ELSE Len(raw)
        /\ lines \in Seq(ToSet(own)) /\ ToSet(lines) \subseteq ToSet(raw)
        /\ \A m : Times(lines, m) =< Times(own, m)
        /\ \A i \in 1 .. Len(lines) - 1 :
             Score(lines[i], relevance, w) >= Score(lines[i+1], relevance, w)
        /\ \A m \in ToSet(lines) : \A x : Times(lines, x) < Times(own, x) =>
             \/ Score(m, relevance, w) >= Score(x, relevance, w)
             \/ Len(raw) < Len(own) /\ x.importance =< m.importance
    <3>1. BestLines(own, raw, lines, relevance, w, k)
      BY <1>1, <1>4, <2>0, <2>2, LinesAreBest
    <3>2. QED
      BY <3>1 DEF BestLines
  <2>4. Len(lines) = IF k < Len(own) THEN k ELSE Len(own)
    <3>1. \A n, t \in Nat : (k =< t /\ (t = 0 <=> k = 0)) =>
            LET r == IF t = 0 \/ n =< t THEN n ELSE t
            IN  (IF k < r THEN k ELSE r) = IF k < n THEN k ELSE n
      OBVIOUS
    <3>2. QED
      BY <1>4, <1>5, <1>k, <2>3, <3>1
  <2>5. Len(raw) < Len(own) => Len(own) > 3 * k
    <3>1. \A n, t \in Nat : (IF t = 0 \/ n =< t THEN n ELSE t) < n => n > t
      OBVIOUS
    <3>2. QED
      BY <1>4, <1>5, <1>k, <3>1
  <2>6. ToSet(lines) \subseteq ToSet(own)
    BY <1>5, <2>3
  <2>7. \A m \in ToSet(lines), x \in {y \in ToSet(own) : Times(lines, y) < Times(own, y)} :
          \/ Score(m, relevance, w) >= Score(x, relevance, w)
          \/ Len(own) > 3 * k /\ x.importance =< m.importance
    BY <2>3, <2>5
  <2>8. QED
    BY <2>1, <2>3, <2>4, <2>6, <2>7 DEF InjectionIsBest, own, mine, a, lines
<1>8. QED
  BY <1>6, <1>7 DEF a

(* Each member of r comes from a place of s, and each of these is of one.  *)
Comes(h, r, s, places) ==
  /\ h \in [DOMAIN r -> places]
  /\ \A a, b \in DOMAIN r : h[a] = h[b] => a = b
  /\ \A i \in places : \E n \in DOMAIN r : h[n] = i
  /\ \A n \in DOMAIN r : r[n] = s[h[n]]

LEMMA SortedComes ==
  ASSUME NEW S, NEW s \in Seq(S), NEW set, \A m \in ToSet(s) : m.importance \in Int
  PROVE  \E h : Comes(h, MostImportant(Those(s, set)), s, PlacesIn(s, set))
<1> DEFINE own == Those(s, set)
           E == ToSet(own)
           key == [m \in E |-> m.importance]
           r == MostImportant(own)
           n == Len(own)
<1>1. PICK idx : PlacesOf(idx, own, s, set, Len(s))
  BY ThosePlaces
<1>2. own \in Seq(S) /\ E \subseteq ToSet(s)
  BY ThoseAre
<1>3. r = Descending(own, key)
  BY DEF MostImportant
<1>4. DOMAIN own = 1..n /\ n \in Nat /\ DOMAIN s = 1..Len(s)
  BY <1>2, LenProperties
<1>5. \A i \in 1..n : key[own[i]] \in Int
  BY <1>2, <1>4 DEF ToSet
<1> HIDE DEF own, key, r, n, E
<1>6. PICK o : Rearranges(o, own, r)
  BY <1>2, <1>3, <1>5, DescendingIs DEF n
<1>7. r \in Seq(S)
  BY <1>2, <1>3, <1>5, DescendingIs DEF n
<1>8. /\ o \in [1..n -> 1..n]
      /\ \A i, j \in 1..n : o[i] = o[j] => i = j
      /\ \A i \in 1..n : \E k \in 1..n : o[k] = i
      /\ Len(r) = n /\ \A i \in 1..n : r[i] = own[o[i]]
  BY <1>6 DEF Rearranges, n
<1>9. /\ idx \in [1..n -> 1..Len(s)]
      /\ \A i \in 1..n : own[i] = s[idx[i]] /\ s[idx[i]] \in set
      /\ \A i, j \in 1..n : i < j => idx[i] < idx[j]
      /\ \A m \in 1..Len(s) : s[m] \in set => \E i \in 1..n : idx[i] = m
  BY <1>1 DEF PlacesOf, n
<1>10. DOMAIN r = 1..n
  BY <1>7, <1>8, LenProperties
<1>11. \A i, j \in 1..n : idx[i] = idx[j] => i = j
  <2> SUFFICES ASSUME NEW i \in 1..n, NEW j \in 1..n, idx[i] = idx[j]
               PROVE  i = j
    OBVIOUS
  <2>1. idx[i] \in Int /\ ~ (idx[i] < idx[j]) /\ ~ (idx[j] < idx[i])
    <3>1. idx[i] \in Int
      BY <1>9
    <3>2. \A x \in Int : ~ (x < x)
      OBVIOUS
    <3>3. QED
      BY <3>1, <3>2
  <2>2. ~ (i < j) /\ ~ (j < i)
    BY <1>9, <2>1
  <2>3. QED
    BY <1>4, <2>2
<1> DEFINE h == [k \in 1..n |-> idx[o[k]]]
<1>12. ASSUME NEW k \in 1..n
       PROVE  h[k] \in PlacesIn(s, set) /\ r[k] = s[h[k]]
  <2>1. o[k] \in 1..n /\ h[k] = idx[o[k]]
    BY <1>8
  <2>2. h[k] \in 1..Len(s) /\ s[h[k]] \in set
    BY <1>9, <2>1
  <2>3. r[k] = s[h[k]]
    BY <1>8, <1>9, <2>1
  <2>4. QED
    BY <1>4, <2>2, <2>3 DEF PlacesIn
<1>13. \A a, b \in 1..n : h[a] = h[b] => a = b
  <2>1. \A a \in 1..n : o[a] \in 1..n /\ h[a] = idx[o[a]]
    BY <1>8
  <2> HIDE DEF h
  <2>2. ASSUME NEW a \in 1..n, NEW b \in 1..n, h[a] = h[b]
        PROVE  a = b
    <3>1. o[a] \in 1..n /\ o[b] \in 1..n /\ idx[o[a]] = idx[o[b]]
      BY <2>1, <2>2
    <3>2. o[a] = o[b]
      BY <1>11, <3>1
    <3>3. QED
      BY <1>8, <3>2
  <2>3. QED
    BY <2>2
<1>14. ASSUME NEW i \in PlacesIn(s, set)
       PROVE  \E k \in 1..n : h[k] = i
  <2>1. i \in 1..Len(s) /\ s[i] \in set
    BY <1>4 DEF PlacesIn
  <2>2. PICK j \in 1..n : idx[j] = i
    BY <1>9, <2>1
  <2>3. PICK k \in 1..n : o[k] = j
    BY <1>8
  <2>4. h[k] = i
    BY <2>2, <2>3
  <2>5. QED
    BY <2>4
<1>15. DOMAIN h = 1..n /\ h = [k \in 1..n |-> h[k]]
  OBVIOUS
<1> HIDE DEF h
<1>16. h \in [1..n -> PlacesIn(s, set)]
  BY <1>12, <1>15
<1>17. Comes(h, r, s, PlacesIn(s, set))
  BY <1>10, <1>12, <1>13, <1>14, <1>16 DEF Comes
<1>18. QED
  BY <1>17 DEF r, own

LEMMA TagIn ==
  ASSUME NEW s, NEW places, NEW p
  PROVE  p \in Tags(s, places) <=>
           \E i \in places : \E j \in DOMAIN s[i].topics : p = <<i, j>>
BY DEF Tags

LEMMA TagsFinite ==
  ASSUME NEW s, NEW places, IsFiniteSet(places), \A i \in places : IsList(s[i].topics)
  PROVE  IsFiniteSet(Tags(s, places))
<1> DEFINE of(i) == {<<i, j>> : j \in DOMAIN s[i].topics}
           all == {of(i) : i \in places}
<1>1. ASSUME NEW i \in places
      PROVE  IsFiniteSet(of(i))
  <2> DEFINE D == DOMAIN s[i].topics
  <2>1. D = 1..Len(s[i].topics) /\ Len(s[i].topics) \in Nat
    BY LenProperties DEF IsList
  <2>2. IsFiniteSet(D)
    BY <2>1, FS_Interval
  <2> HIDE DEF D
  <2> DEFINE T == {<<i, j>> : j \in D}
             f == [j \in D |-> <<i, j>>]
  <2>3. f \in Surjection(D, T)
    BY DEF Surjection
  <2> HIDE DEF f, T
  <2>4. IsFiniteSet(T)
    BY <2>2, <2>3, FS_Surjection DEF ExistsSurjection
  <2>5. QED
    BY <2>4 DEF D, T
<1>2. IsFiniteSet(all)
  <2> HIDE DEF of
  <2> DEFINE f == [i \in places |-> of(i)]
  <2>1. f \in Surjection(places, all)
    BY DEF Surjection
  <2> HIDE DEF f, all
  <2>2. QED
    BY <2>1, FS_Surjection DEF ExistsSurjection
<1>3. \A T \in all : IsFiniteSet(T)
  <2> HIDE DEF of
  <2>1. QED
    BY <1>1
<1>4. Tags(s, places) = UNION all
  BY DEF Tags
<1> HIDE DEF all
<1>5. QED
  BY <1>2, <1>3, <1>4, FS_UNION

(* A list that comes from the places of another has its tags, as often.    *)
TaggedAlike(r, s, places) ==
  /\ {Tag(r, p) : p \in Tags(r, DOMAIN r)} = {Tag(s, p) : p \in Tags(s, places)}
  /\ \A t : Cardinality({p \in Tags(r, DOMAIN r) : Tag(r, p) = t})
             = Cardinality({p \in Tags(s, places) : Tag(s, p) = t})

LEMMA TagsCounted ==
  ASSUME NEW r, NEW s, NEW places, NEW h, Comes(h, r, s, places), IsFiniteSet(DOMAIN r),
         \A i \in places : IsList(s[i].topics)
  PROVE  TaggedAlike(r, s, places)
<1> DEFINE A == Tags(r, DOMAIN r)
           B == Tags(s, places)
<1>1. /\ h \in [DOMAIN r -> places]
      /\ \A a, b \in DOMAIN r : h[a] = h[b] => a = b
      /\ \A i \in places : \E n \in DOMAIN r : h[n] = i
      /\ \A n \in DOMAIN r : r[n] = s[h[n]]
  BY DEF Comes
<1>2. IsFiniteSet(A)
  <2>1. \A n \in DOMAIN r : IsList(r[n].topics)
    BY <1>1
  <2>2. QED
    BY <2>1, TagsFinite
<1> HIDE DEF A, B
<1>3. \A p \in A : /\ p[1] \in DOMAIN r /\ p = <<p[1], p[2]>> /\ p[2] \in DOMAIN r[p[1]].topics
                   /\ Tag(r, p) = r[p[1]].topics[p[2]]
  BY TagIn DEF A, Tag
<1>4. \A p \in B : /\ p[1] \in places /\ p = <<p[1], p[2]>> /\ p[2] \in DOMAIN s[p[1]].topics
                   /\ Tag(s, p) = s[p[1]].topics[p[2]]
  BY TagIn DEF B, Tag
<1> DEFINE To(p) == <<h[p[1]], p[2]>>
<1>5. ASSUME NEW p \in A
      PROVE  To(p) \in B /\ Tag(s, To(p)) = Tag(r, p)
  <2>1. h[p[1]] \in places /\ r[p[1]] = s[h[p[1]]] /\ p[2] \in DOMAIN s[h[p[1]]].topics
    BY <1>1, <1>3
  <2>2. To(p) \in B
    BY <2>1, TagIn DEF B
  <2>3. Tag(s, To(p)) = s[h[p[1]]].topics[p[2]]
    BY DEF Tag
  <2>4. QED
    BY <1>3, <2>1, <2>2, <2>3
<1>6. ASSUME NEW q \in B
      PROVE  \E p \in A : To(p) = q
  <2>1. PICK n \in DOMAIN r : h[n] = q[1]
    BY <1>1, <1>4
  <2>2. r[n] = s[q[1]] /\ q[2] \in DOMAIN r[n].topics
    BY <1>1, <1>4, <2>1
  <2>3. <<n, q[2]>> \in A
    BY <2>2, TagIn DEF A
  <2>4. To(<<n, q[2]>>) = <<q[1], q[2]>>
    BY <2>1
  <2>5. QED
    BY <1>4, <2>3, <2>4
<1>7. ASSUME NEW p \in A, NEW q \in A, To(p) = To(q)
      PROVE  p = q
  <2>1. h[p[1]] = h[q[1]] /\ p[2] = q[2]
    BY <1>7
  <2>2. p[1] = q[1]
    BY <1>1, <1>3, <2>1
  <2>3. QED
    BY <1>3, <2>1, <2>2
<1> HIDE DEF To
<1>8. {Tag(r, p) : p \in A} = {Tag(s, p) : p \in B}
  BY <1>5, <1>6
<1>9. ASSUME NEW t
      PROVE  Cardinality({p \in A : Tag(r, p) = t}) = Cardinality({p \in B : Tag(s, p) = t})
  <2> DEFINE P == {p \in A : Tag(r, p) = t}
             Q == {p \in B : Tag(s, p) = t}
             f == [p \in P |-> To(p)]
  <2>1. IsFiniteSet(P)
    BY <1>2, FS_Subset
  <2>2. f \in [P -> Q]
    BY <1>5
  <2>3. \A a, b \in P : f[a] = f[b] => a = b
    BY <1>7
  <2>4. \A q \in Q : \E a \in P : f[a] = q
    <3>1. ASSUME NEW q \in Q
          PROVE  \E a \in P : f[a] = q
      <4>1. PICK p \in A : To(p) = q
        BY <1>6
      <4>2. p \in P
        BY <1>5, <4>1
      <4>3. QED
        BY <4>1, <4>2
    <3>2. QED
      BY <3>1
  <2> HIDE DEF P, Q, f
  <2>5. Cardinality(P) = Cardinality(Q)
    BY <2>1, <2>2, <2>3, <2>4, BijectionCounts
  <2>6. QED
    BY <2>5 DEF P, Q
<1>10. QED
  BY <1>8, <1>9 DEF TaggedAlike, A, B

(* What the summary of a registered simulation says.                       *)
SaysOf(col, sim, got) ==
  LET places == {i \in DOMAIN col : col[i].sim = sim}
      tags == Tags(col, places)
  IN  /\ got.count = Cardinality(places)
      /\ DOMAIN got.topics = {Tag(col, p) : p \in tags}
      /\ \A t \in DOMAIN got.topics :
           got.topics[t] = Cardinality({p \in tags : Tag(col, p) = t})
      /\ Len(got.top) = IF got.count < 10 THEN got.count ELSE 10
      /\ \A n \in DOMAIN got.top : \E i \in places : got.top[n] = col[i]
      /\ \A n \in 1 .. Len(got.top) - 1 :
           got.top[n].importance >= got.top[n+1].importance
      /\ \A i \in places :
           /\ Times(got.top, col[i]) =< Times(col, col[i])
           /\ Times(got.top, col[i]) < Times(col, col[i]) =>
                \A n \in DOMAIN got.top : got.top[n].importance >= col[i].importance

LEMMA SummaryIs ==
  ASSUME NEW col, IsList(col), NEW registered, NEW sim, sim \in registered,
         \A m \in ToSet(col) : m.importance \in Int /\ IsList(m.topics)
  PROVE  /\ SimulationSummary(col, registered, sim).found = TRUE
         /\ SaysOf(col, sim, SimulationSummary(col, registered, sim))
<1> DEFINE about == {m \in ToSet(col) : m.sim = sim}
           own == Those(col, about)
           all == MostImportant(own)
           top == Limited(all, 10)
           places == {i \in DOMAIN col : col[i].sim = sim}
           tags == Tags(col, places)
           got == SimulationSummary(col, registered, sim)
<1>0. col \in Seq(ToSet(col))
  BY DEF IsList
<1>1. own \in Seq(ToSet(col)) /\ ToSet(own) = about
  BY <1>0, ThoseAre
<1>2. /\ got.found = TRUE /\ got.count = Len(all) /\ got.top = top
      /\ got.topics = TopicDistribution(all)
  BY DEF SimulationSummary
<1>3. places = PlacesIn(col, about)
  BY DEF PlacesIn, ToSet
<1>4. PICK h : Comes(h, all, col, places)
  BY <1>0, <1>3, SortedComes
<1>5. Len(own) = Cardinality(places)
  BY <1>0, <1>3, ThoseLength
<1>6. \A i \in places : IsList(col[i].topics) /\ col[i] \in about
  BY DEF ToSet
<1> HIDE DEF got, top, all, own, places
<1>7. /\ Candidates(own, all, top)
      /\ Len(top) = IF 10 = 0 \/ Len(own) =< 10 THEN Len(own) ELSE 10
  <2>1. 10 \in Nat /\ \A m \in ToSet(own) : m.importance \in Int
    BY <1>1
  <2>2. QED
    BY <1>1, <2>1, CandidatesAre DEF top, all
<1>8. /\ all \in Seq(ToSet(own)) /\ top \in Seq(ToSet(own)) /\ ToSet(top) \subseteq ToSet(own)
      /\ Len(all) = Len(own) /\ Len(own) \in Nat
      /\ \A x : Times(all, x) = Times(own, x)
      /\ \A i, j \in 1..Len(all) : i < j => all[i].importance >= all[j].importance
      /\ Begins(top, all, Len(top))
  BY <1>7 DEF Candidates
<1>9. DOMAIN all = 1..Len(all) /\ DOMAIN top = 1..Len(top) /\ Len(top) \in Nat
  BY <1>8, LenProperties
<1>10. Len(top) =< Len(all) /\ \A n \in 1..Len(top) : top[n] = all[n]
  BY <1>8 DEF Begins
<1>11. got.count = Cardinality(places)
  BY <1>2, <1>5, <1>8
<1>12. /\ DOMAIN got.topics = {Tag(col, p) : p \in tags}
       /\ \A t \in DOMAIN got.topics :
            got.topics[t] = Cardinality({p \in tags : Tag(col, p) = t})
  <2>1. IsFiniteSet(DOMAIN all)
    BY <1>8, <1>9, FS_Interval
  <2>2. /\ {Tag(all, p) : p \in Tags(all, DOMAIN all)} = {Tag(col, p) : p \in tags}
        /\ \A t : Cardinality({p \in Tags(all, DOMAIN all) : Tag(all, p) = t})
                   = Cardinality({p \in tags : Tag(col, p) = t})
    <3>1. \A i \in places : IsList(col[i].topics)
      BY <1>6
    <3>2. TaggedAlike(all, col, places)
      BY <1>4, <2>1, <3>1, TagsCounted
    <3>3. QED
      BY <3>2 DEF TaggedAlike, tags
  <2> HIDE DEF tags
  <2>3. /\ DOMAIN TopicDistribution(all) = {Tag(all, p) : p \in Tags(all, DOMAIN all)}
        /\ \A t \in DOMAIN TopicDistribution(all) :
             TopicDistribution(all)[t] = Cardinality({p \in Tags(all, DOMAIN all) : Tag(all, p) = t})
    BY DEF TopicDistribution
  <2>4. QED
    BY <1>2, <2>2, <2>3
<1>13. Len(got.top) = IF got.count < 10 THEN got.count ELSE 10
  <2>1. \A c \in Nat : (IF 10 = 0 \/ c =< 10 THEN c ELSE 10) = IF c < 10 THEN c ELSE 10
    OBVIOUS
  <2>2. QED
    BY <1>2, <1>7, <1>8, <2>1
<1>14. \A n \in DOMAIN got.top : \E i \in places : got.top[n] = col[i]
  <2> SUFFICES ASSUME NEW n \in DOMAIN top
               PROVE  \E i \in places : top[n] = col[i]
    BY <1>2
  <2>1. top[n] = all[n] /\ n \in DOMAIN all
    BY <1>8, <1>9, <1>10
  <2>2. h[n] \in places /\ all[n] = col[h[n]]
    BY <1>4, <2>1 DEF Comes
  <2>3. QED
    BY <2>1, <2>2
<1>15. \A n \in 1 .. Len(got.top) - 1 : got.top[n].importance >= got.top[n+1].importance
  <2> SUFFICES ASSUME NEW n \in 1 .. Len(top) - 1
               PROVE  top[n].importance >= top[n+1].importance
    BY <1>2
  <2>1. n \in 1..Len(top) /\ n + 1 \in 1..Len(top) /\ n < n + 1
    BY <1>9
  <2>2. n \in 1..Len(all) /\ n + 1 \in 1..Len(all)
    BY <1>8, <1>10, <2>1
  <2>3. QED
    BY <1>8, <1>10, <2>1, <2>2
<1>16. ASSUME NEW i \in places
       PROVE  /\ Times(got.top, col[i]) =< Times(col, col[i])
              /\ Times(got.top, col[i]) < Times(col, col[i]) =>
                   \A n \in DOMAIN got.top : got.top[n].importance >= col[i].importance
  <2> DEFINE x == col[i]
  <2>1. x \in about
    BY <1>6
  <2> HIDE DEF x
  <2>2. /\ Times(top, x) =< Times(all, x)
        /\ Times(top, x) < Times(all, x) => \E j \in Len(top)+1..Len(all) : all[j] = x
    BY <1>8, BeginsTimes
  <2>3. Cardinality(PlacesIn(Those(col, about), {x})) = Cardinality(PlacesIn(col, {x}))
    <3>1. {x} \in SUBSET about
      BY <2>1
    <3> HIDE DEF about
    <3>2. QED
      BY <1>0, <3>1, ThoseCount
  <2>4. \A q : PlacesIn(q, {x}) = {j \in DOMAIN q : q[j] = x}
    BY DEF PlacesIn
  <2>5. Times(all, x) = Times(col, x)
    BY <1>8, <2>3, <2>4 DEF Times, own
  <2>6. ASSUME Times(top, x) < Times(col, x), NEW n \in DOMAIN top
        PROVE  top[n].importance >= x.importance
    <3>1. PICK j \in Len(top)+1..Len(all) : all[j] = x
      BY <2>2, <2>5, <2>6
    <3>2. n \in 1..Len(top) /\ n \in 1..Len(all) /\ j \in 1..Len(all) /\ n < j
      BY <1>8, <1>9, <1>10
    <3>3. QED
      BY <1>8, <1>10, <3>1, <3>2
  <2>7. QED
    BY <1>2, <2>2, <2>5, <2>6 DEF x
<1>17. SaysOf(col, sim, got)
  BY <1>11, <1>12, <1>13, <1>14, <1>15, <1>16 DEF SaysOf, places, tags
<1>18. QED
  BY <1>2, <1>17 DEF got

LEMMA AgentSims ==
  ASSUME NEW col, IsList(col), NEW agent, \A m \in ToSet(col) : m.importance \in Int
  PROVE  \A s \in EvolutionSummary(col, agent).sims :
           \E i \in DOMAIN col : col[i].sim = s /\ col[i].agent = agent
<1> DEFINE mine == {m \in ToSet(col) : /\ m.agent = agent
                                       /\ "any" = "any" \/ "any" \in ToSet(m.topics)
                                       /\ {} = {} \/ m.sim \in {}}
           theirs == Those(col, mine)
           known == Limited(MostImportant(theirs), 100)
<1>1. theirs \in Seq(ToSet(col)) /\ ToSet(theirs) \subseteq mine /\ mine \subseteq ToSet(col)
  BY ThoseAre DEF IsList
<1>2. EvolutionSummary(col, agent).sims = {known[i].sim : i \in DOMAIN known}
  BY DEF EvolutionSummary, QueryHistorical
<1>m. \A m \in mine : m.agent = agent
  OBVIOUS
<1> HIDE DEF mine, theirs
<1>3. Candidates(theirs, MostImportant(theirs), known)
  <2>1. 100 \in Nat /\ \A m \in ToSet(theirs) : m.importance \in Int
    BY <1>1
  <2>2. QED
    BY <1>1, <2>1, CandidatesAre
<1> HIDE DEF known
<1>4. ToSet(known) \subseteq ToSet(theirs)
  BY <1>3 DEF Candidates
<1>5. ASSUME NEW n \in DOMAIN known
      PROVE  \E i \in DOMAIN col : col[i].sim = known[n].sim /\ col[i].agent = agent
  <2>1. known[n] \in mine /\ known[n] \in ToSet(col)
    BY <1>1, <1>4 DEF ToSet
  <2>2. QED
    BY <1>m, <2>1 DEF ToSet
<1>6. QED
  BY <1>2, <1>5

LEMMA SummariesFound ==
  ASSUME NEW col, IsList(col), NEW registered, NEW agent, NEW sim,
         \A m \in ToSet(col) : m.importance \in Int /\ IsList(m.topics)
  PROVE  SummariesAgree(col, registered, agent, sim, SimulationSummary(col, registered, sim))
<1> DEFINE got == SimulationSummary(col, registered, sim)
<1>1. \A s \in EvolutionSummary(col, agent).sims :
        \E i \in DOMAIN col : col[i].sim = s /\ col[i].agent = agent
  BY AgentSims
<1>2. CASE sim \in registered
  <2>1. got.found = TRUE /\ SaysOf(col, sim, got)
    BY <1>2, SummaryIs
  <2> HIDE DEF got
  <2>2. SummariesAgree(col, registered, agent, sim, got)
    BY <1>1, <1>2, <2>1 DEF SummariesAgree, SaysOf
  <2>3. QED
    BY <2>2 DEF got
<1>3. CASE sim \notin registered
  <2>1. got.found = FALSE
    BY <1>3 DEF SimulationSummary
  <2> HIDE DEF got
  <2>2. SummariesAgree(col, registered, agent, sim, got)
    BY <1>1, <1>3, <2>1 DEF SummariesAgree
  <2>3. QED
    BY <2>2 DEF got
<1>4. QED
  BY <1>2, <1>3

-----------------------------------------------------------------------------
TotalRun(F, s) ==
  /\ F \in [0..Len(s) -> Int]
  /\ F[0] = 0 /\ F[Len(s)] = Total(s)
  /\ \A k \in 1..Len(s) : F[k] = F[k-1] + s[k]

LEMMA TotalSteps ==
  ASSUME NEW s \in Seq(Int)
  PROVE  \E F : TotalRun(F, s)
<1> DEFINE n == Len(s)
           G == [p \in (1..n) \X Int |-> p[2] + s[p[1]]]
           Step(z) == [q \in SUBSET DOMAIN s |->
                         IF q = {} THEN 0 ELSE z[q \ {Max(q)}] + s[Max(q)]]
           iter == CHOOSE z : z = Step(z)
<1>1. n \in Nat /\ 0 \in Int /\ DOMAIN s = 1..n /\ \A k \in 1..n : s[k] \in Int
  OBVIOUS
<1>2. G \in [(1..n) \X Int -> Int] /\ \A k \in 1..n, v \in Int : G[<<k, v>>] = v + s[k]
  BY <1>1
<1>4. iter = Step(iter)
  <2>1. PICK h : Iterates(h, n, Int, 0, G)
    <3> HIDE DEF G, n
    <3>1. QED
      BY <1>1, <1>2, IterationExists
  <2>2. /\ h \in [SUBSET (1..n) -> Int]
        /\ \A q \in SUBSET (1..n) : h[q] = IF q = {} THEN 0 ELSE G[<<Max(q), h[q \ {Max(q)}]>>]
    BY <2>1 DEF Iterates
  <2>3. \A q \in SUBSET (1..n) : q # {} => Max(q) \in 1..n /\ h[q \ {Max(q)}] \in Int
    BY <1>1, <2>2, MaxIn
  <2> HIDE DEF G
  <2>4. ASSUME NEW q \in SUBSET (1..n)
        PROVE  h[q] = Step(h)[q]
    <3>1. CASE q = {}
      BY <1>1, <2>2, <3>1
    <3>2. CASE q # {}
      BY <1>1, <1>2, <2>2, <2>3, <3>2
    <3>3. QED
      BY <3>1, <3>2
  <2>5. h = Step(h)
    BY <1>1, <2>2, <2>4
  <2>6. QED
    BY <2>5
<1>5. Total(s) = iter[1..n]
  BY <1>1 DEF Total, FoldLeft, MapThenFoldSet
<1> HIDE DEF iter, G
<1>6. iter[{}] = 0
  BY <1>4
<1>7. ASSUME NEW k \in 1..n, iter[1..k-1] \in Int
      PROVE  iter[1..k] = G[<<k, iter[1..k-1]>>]
  <2>1. /\ Max(1..k) = k /\ (1..k) # {} /\ (1..k) \ {Max(1..k)} = 1..k-1
        /\ (1..k) \in SUBSET DOMAIN s
    BY <1>1, MaxOfPrefix
  <2>2. iter[1..k] = Step(iter)[1..k]
    BY <1>4
  <2>3. iter[1..k] = iter[1..k-1] + s[k]
    BY <2>1, <2>2
  <2>4. QED
    BY <1>2, <1>7, <2>3
<1>8. PICK F : IsRun(F, iter, n, Int, 0, G)
  <2>1. n \in Nat /\ 0 \in Int
    BY <1>1
  <2>2. RunsOver(iter, n, Int, 0, G)
    BY <1>6, <1>7 DEF RunsOver
  <2>3. QED
    BY <2>1, <2>2, <1>2, PrefixRuns
<1>9. F \in [0..n -> Int] /\ F[n] = iter[1..n] /\ F[0] = 0 /\ \A k \in 1..n : F[k] = G[<<k, F[k-1]>>]
  BY <1>8 DEF IsRun
<1>10. \A k \in 1..n : F[k-1] \in Int
  <2>1. \A k \in 1..n : k - 1 \in 0..n
    BY <1>1
  <2>2. QED
    BY <1>9, <2>1
<1>11. \A k \in 1..n : F[k] = F[k-1] + s[k]
  BY <1>2, <1>9, <1>10
<1>12. TotalRun(F, s)
  BY <1>5, <1>9, <1>11 DEF TotalRun
<1>13. QED
  BY <1>12

LEMMA TotalIs ==
  ASSUME NEW s \in Seq(Int)
  PROVE  /\ Total(s) \in Int /\ (s = <<>> => Total(s) = 0)
         /\ (\A i \in 1..Len(s) : s[i] < 7) => Total(s) =< 6 * Len(s)
         /\ (\A i \in 1..Len(s) : s[i] >= 7) => Total(s) >= 7 * Len(s)
<1> DEFINE n == Len(s)
<1>1. PICK F : TotalRun(F, s)
  BY TotalSteps
<1>2. /\ F \in [0..n -> Int] /\ F[0] = 0 /\ F[n] = Total(s)
      /\ \A k \in 1..n : F[k] = F[k-1] + s[k]
  BY <1>1 DEF TotalRun
<1>3. n \in Nat /\ \A k \in 1..n : s[k] \in Int
  OBVIOUS
<1> DEFINE T == {k \in Nat : k =< n =>
                   /\ (\A i \in 1..n : s[i] < 7) => F[k] =< 6 * k
                   /\ (\A i \in 1..n : s[i] >= 7) => F[k] >= 7 * k}
<1> HIDE DEF n
<1>4. 0 \in T
  BY <1>2
<1>5. ASSUME NEW k \in Nat, k \in T
      PROVE  k + 1 \in T
  <2> SUFFICES ASSUME k + 1 =< n
               PROVE  /\ (\A i \in 1..n : s[i] < 7) => F[k+1] =< 6 * (k + 1)
                      /\ (\A i \in 1..n : s[i] >= 7) => F[k+1] >= 7 * (k + 1)
    OBVIOUS
  <2>1. k + 1 \in 1..n /\ (k + 1) - 1 = k /\ k \in 0..n /\ k =< n
    BY <1>3
  <2>2. F[k+1] = F[k] + s[k+1] /\ F[k] \in Int /\ s[k+1] \in Int
    BY <1>2, <1>3, <2>1
  <2>3. \A a, b \in Int : /\ a =< 6 * k /\ b < 7 => a + b =< 6 * (k + 1)
                          /\ a >= 7 * k /\ b >= 7 => a + b >= 7 * (k + 1)
    OBVIOUS
  <2>4. QED
    BY <1>5, <2>1, <2>2, <2>3
<1>6. n \in T
  <2> HIDE DEF T
  <2>1. QED
    BY <1>3, <1>4, <1>5, SetInduction
<1>7. n \in 0..n
  BY <1>3
<1>8. s = <<>> => n = 0
  BY DEF n
<1>9. QED
  BY <1>2, <1>3, <1>6, <1>7, <1>8 DEF n

LEMMA FeedbackFound ==
  ASSUME NEW predictions, IsList(predictions), NEW outcomes,
         \A p \in ToSet(predictions) : p.score \in Int
  PROVE  FeedbackIsEarned(predictions, outcomes, ValidatePredictions(predictions, outcomes))
<1> DEFINE a == ValidatePredictions(predictions, outcomes)
           scored == Scored(predictions)
           detail == IF outcomes = 0 THEN <<>> ELSE [i \in DOMAIN scored |-> scored[i].score]
           n == IF detail = <<>> THEN 1 ELSE Len(detail)
           judged == IF Total(detail) < 4 * n THEN "low"
                     ELSE IF Total(detail) < 7 * n THEN "moderate" ELSE "well"
<1>1. CASE predictions = <<>>
  <2>1. a = [recorded |-> 0, feedback |-> "none", detail |-> <<>>]
    BY <1>1 DEF ValidatePredictions
  <2>2. Len(predictions) = 0 /\ Len(<<>>) = 0
    BY <1>1
  <2>3. QED
    BY <1>1, <2>1, <2>2 DEF FeedbackIsEarned
<1>2. CASE predictions # <<>>
  <2>1. a = [recorded |-> 1, feedback |-> judged, detail |-> detail]
    BY <1>2 DEF ValidatePredictions, ComputeAccuracy, Feedback
  <2>2. /\ scored \in Seq(ToSet(predictions)) /\ Len(scored) =< Len(predictions)
        /\ ToSet(scored) \subseteq ToSet(predictions)
    <3> DEFINE texts == {p \in ToSet(predictions) : p.content = "text"}
               S == ToSet(predictions)
    <3>1. predictions \in Seq(S)
      BY DEF IsList
    <3>2. scored = Those(predictions, texts)
      BY DEF Scored
    <3> HIDE DEF texts, scored, S
    <3>3. Those(predictions, texts) \in Seq(S) /\ ToSet(Those(predictions, texts)) = ToSet(predictions) \intersect texts
      BY <3>1, ThoseAre
    <3>4. Len(Those(predictions, texts)) =< Len(predictions)
      BY <3>1, ThoseLength
    <3>5. QED
      BY <3>2, <3>3, <3>4 DEF S
  <2>p. Len(predictions) \in Nat
    BY DEF IsList
  <2> HIDE DEF a, scored
  <2>3. DOMAIN scored = 1..Len(scored) /\ Len(scored) \in Nat
    BY <2>2, LenProperties
  <2>4. \A i \in 1..Len(scored) : scored[i].score \in Int
    BY <2>2, <2>3, ElementOfSeq
  <2>5. detail \in Seq(Int) /\ Len(detail) =< Len(predictions)
    <3>1. CASE outcomes = 0
      <4>1. detail = <<>> /\ Len(<<>>) = 0 /\ <<>> \in Seq(Int)
        BY <3>1
      <4>2. QED
        BY <4>1, <2>p
    <3>2. CASE outcomes # 0
      <4>1. detail \in [1..Len(scored) -> Int] /\ DOMAIN detail = 1..Len(scored)
        BY <2>3, <2>4, <3>2
      <4> HIDE DEF detail
      <4>2. detail \in Seq(Int)
        BY <2>3, <4>1, SeqDef
      <4>3. Len(detail) = Len(scored)
        BY <2>3, <4>1, <4>2, LenProperties
      <4>4. QED
        BY <2>2, <4>2, <4>3
    <3>3. QED
      BY <3>1, <3>2
  <2>6. outcomes = 0 => detail = <<>>
    OBVIOUS
  <2> DEFINE accurate == {i \in DOMAIN detail : detail[i] >= 7}
  <2> HIDE DEF detail
  <2>7. /\ Len(detail) \in Nat /\ DOMAIN detail = 1..Len(detail)
        /\ (detail = <<>> <=> Len(detail) = 0)
        /\ \A i \in 1..Len(detail) : detail[i] \in Int
    BY <2>5, LenProperties, EmptySeq, ElementOfSeq
  <2>8. /\ Total(detail) \in Int /\ (detail = <<>> => Total(detail) = 0)
        /\ (\A i \in 1..Len(detail) : detail[i] < 7) => Total(detail) =< 6 * Len(detail)
        /\ (\A i \in 1..Len(detail) : detail[i] >= 7) => Total(detail) >= 7 * Len(detail)
    BY <2>5, TotalIs
  <2>9. judged = "well" => accurate # {}
    <3> SUFFICES ASSUME judged = "well", accurate = {} PROVE FALSE
      OBVIOUS
    <3>1. \A i \in 1..Len(detail) : detail[i] < 7
      BY <2>7
    <3>2. ~ (Total(detail) < 7 * n)
      OBVIOUS
    <3>3. \A t \in Int, l \in Nat : l # 0 /\ t =< 6 * l => t < 7 * l
      OBVIOUS
    <3>4. QED
      BY <2>7, <2>8, <3>1, <3>2, <3>3
  <2>10. detail # <<>> /\ accurate = DOMAIN detail => judged = "well"
    <3> SUFFICES ASSUME detail # <<>>, accurate = DOMAIN detail PROVE judged = "well"
      OBVIOUS
    <3>1. \A i \in 1..Len(detail) : detail[i] >= 7
      BY <2>7
    <3>2. Total(detail) >= 7 * Len(detail) /\ n = Len(detail)
      BY <2>8, <3>1
    <3>3. \A t \in Int, l \in Nat : t >= 7 * l => ~ (t < 4 * l) /\ ~ (t < 7 * l)
      OBVIOUS
    <3>4. QED
      BY <2>7, <2>8, <3>2, <3>3
  <2>11. outcomes = 0 => judged = "low"
    BY <2>6, <2>8
  <2> HIDE DEF judged
  <2>12. QED
    BY <1>2, <2>1, <2>5, <2>9, <2>10, <2>11 DEF FeedbackIsEarned, a
<1>3. QED
  BY <1>1, <1>2

Injected == Inject(call.col, call.agent, call.relevance, call.weights, call.k)
Summary == SimulationSummary(call.col, call.registered, call.sim)
Validated == ValidatePredictions(call.predictions, call.outcomes)

LEMMA EvolveSteps ==
  ASSUME [Next]_<<call, answer>>
  PROVE  /\ call' = call
         /\ call.op = "inject" => answer' = answer \/ answer' = <<Injected>>
         /\ call.op = "summary" => answer' = answer \/ answer' = <<Summary>>
         /\ call.op = "validate" => answer' = answer \/ answer' = <<Validated>>
BY DEF Next, Traverse, Cut, Evidence, Compile, Read, Extract, Evolve, Remember, Answer,
       Injected, Summary, Validated

LEMMA ScoreIs ==
  ASSUME NEW m, NEW relevance, NEW w, m.importance \in Int, m.age \in Int, relevance[m.id] \in Int,
         \A f \in {"relevance", "decay", "importance"} : w[f] \in Int
  PROVE  Score(m, relevance, w) \in Int
<1>1. TimeDecay(m.age) \in Int
  BY MostIsANumber, DecayIs
<1>2. w.relevance \in Int /\ w.decay \in Int /\ w.importance \in Int
  OBVIOUS
<1>3. \A a, b \in Int : a * b \in Int
  OBVIOUS
<1>4. /\ w.relevance * relevance[m.id] \in Int /\ w.decay * TimeDecay(m.age) \in Int
      /\ w.importance * m.importance \in Int
  BY <1>1, <1>2, <1>3
<1>5. \A a, b, c \in Int : a + b + c \in Int
  OBVIOUS
<1>6. QED
  BY <1>4, <1>5 DEF Score

(* inject_historical_memory, get_simulation_summary and                    *)
(* validate_predictions, for any memories, weights and predictions: what   *)
(* is injected is the best there is within the two choices, in order and   *)
(* not more often than it was marked; a registered simulation, and no      *)
(* other, has a summary, which counts every memory and tag and shows the   *)
(* most important; and feedback is good only for what came true.           *)
THEOREM EvolutionHandsOnTheBest == Spec => []EvolutionIsFair
<1> DEFINE IInv == call \in Calls /\ EvolutionIsFair
<1>1. Init => IInv
  BY DEF Init, EvolutionIsFair, Answered
<1>2. IInv /\ [Next]_<<call, answer>> => IInv'
  <2> SUFFICES ASSUME call \in Calls, EvolutionIsFair, [Next]_<<call, answer>>
               PROVE  IInv'
    OBVIOUS
  <2>0. call' = call
    BY EvolveSteps
  <2>a. /\ call.op \in {"inject", "summary"} =>
             IsList(call.col) /\ \A m \in ToSet(call.col) : m.importance \in Int /\ m.age \in Int
        /\ call.op = "summary" => \A m \in ToSet(call.col) : IsList(m.topics)
        /\ call.op = "inject" =>
             /\ call.k \in Nat /\ \A m \in ToSet(call.col) : call.relevance[m.id] \in Int
             /\ \A f \in {"relevance", "decay", "importance"} : call.weights[f] \in Int
        /\ call.op = "validate" =>
             IsList(call.predictions) /\ \A p \in ToSet(call.predictions) : p.score \in Int
    BY CallsAreSound
  <2>1. CASE call.op = "inject"
    <3>1. answer' = answer \/ answer' = <<Injected>>
      BY <2>1, EvolveSteps
    <3>2. \A m \in ToSet(call.col) :
            m.importance \in Int /\ Score(m, call.relevance, call.weights) \in Int
      BY <2>1, <2>a, ScoreIs
    <3>3. InjectionIsBest(call.col, call.agent, call.relevance, call.weights, call.k, Injected)
      BY <2>1, <2>a, <3>2, InjectionFound DEF Injected
    <3>4. <<Injected>>[1] = Injected
      OBVIOUS
    <3> HIDE DEF Injected
    <3>5. QED
      BY <2>0, <2>1, <3>1, <3>3, <3>4 DEF EvolutionIsFair, Answered
  <2>2. CASE call.op = "summary"
    <3>1. answer' = answer \/ answer' = <<Summary>>
      BY <2>2, EvolveSteps
    <3>2. SummariesAgree(call.col, call.registered, call.agent, call.sim, Summary)
      BY <2>2, <2>a, SummariesFound DEF Summary
    <3>3. <<Summary>>[1] = Summary
      OBVIOUS
    <3> HIDE DEF Summary
    <3>4. QED
      BY <2>0, <2>2, <3>1, <3>2, <3>3 DEF EvolutionIsFair, Answered
  <2>3. CASE call.op = "validate"
    <3>1. answer' = answer \/ answer' = <<Validated>>
      BY <2>3, EvolveSteps
    <3>2. FeedbackIsEarned(call.predictions, call.outcomes, Validated)
      BY <2>3, <2>a, FeedbackFound DEF Validated
    <3>3. <<Validated>>[1] = Validated
      OBVIOUS
    <3>4. QED
      BY <2>0, <2>3, <3>1, <3>2, <3>3 DEF EvolutionIsFair, Answered
  <2>4. CASE call.op \notin {"inject", "summary", "validate"}
    BY <2>0, <2>4 DEF EvolutionIsFair, Answered
  <2>5. QED
    BY <2>1, <2>2, <2>3, <2>4
<1>3. IInv => EvolutionIsFair
  OBVIOUS
<1>4. QED
  BY <1>1, <1>2, <1>3, PTL DEF Spec

-----------------------------------------------------------------------------
LEMMA AttributeFound ==
  ASSUME NEW v, v.kind = "plain" => v.flat
  PROVE  AttributeIsMet(MakeFalkorValueSafe(v))
<1> DEFINE text == [kind |-> "plain", flat |-> TRUE]
           flat == [kind |-> "list", flat |-> TRUE]
<1>1. AttributeIsMet(text) /\ AttributeIsMet(flat)
  <2>1. MakeFalkorValueSafe(text) = text /\ MakeFalkorValueSafe(flat) = flat
    BY DEF MakeFalkorValueSafe
  <2>2. QED
    BY <2>1 DEF AttributeIsMet
<1>2. CASE v.kind = "plain"
  <2>1. MakeFalkorValueSafe(v) = v
    BY <1>2 DEF MakeFalkorValueSafe
  <2>2. QED
    BY <1>2, <2>1 DEF AttributeIsMet
<1>3. CASE v.kind # "plain"
  <2>1. MakeFalkorValueSafe(v) = text \/ MakeFalkorValueSafe(v) = flat
    BY <1>3 DEF MakeFalkorValueSafe
  <2>2. QED
    BY <1>1, <2>1
<1>4. QED
  BY <1>2, <1>3

-----------------------------------------------------------------------------
(* The last of those that have a name is one of them.                      *)
LEMMA LastNamedIs ==
  ASSUME NEW definitions, IsList(definitions), NEW name,
         \E i \in DOMAIN definitions : name = definitions[i].name
  PROVE  LastWith(definitions, LAMBDA d : d.name = name) \in ToSet(definitions)
<1> DEFINE n == Len(definitions)
           P == {j \in 1..Len(definitions) : definitions[j].name = name}
<1>1. n \in Nat /\ DOMAIN definitions = 1..n
  BY DEF IsList
<1>2. P \in SUBSET (1..n) /\ P # {}
  BY <1>1
<1>3. LastWith(definitions, LAMBDA d : d.name = name) = definitions[Max(P)]
  BY <1>2 DEF LastWith, SelectLastInSeq
<1> HIDE DEF P, n
<1>4. Max(P) \in DOMAIN definitions
  BY <1>1, <1>2, MaxIn
<1>5. QED
  BY <1>3, <1>4 DEF ToSet

NamesOf(attributes) == {attributes[i].name : i \in DOMAIN attributes}

LEMMA SafeNameIs ==
  ASSUME NEW a, IsList(a)
  PROVE  LowerCase(SafeName(a)) \notin Reserved
<1>1. CASE LowerCase(a) \notin Reserved
  BY <1>1 DEF SafeName
<1>2. CASE LowerCase(a) \in Reserved
  <2> DEFINE f == <<"entity_">> \o a
  <2>1. f \in Seq({"entity_"} \union ToSet(a)) /\ f[1] = "entity_" /\ Len(f) > 0
    <3>1. a \in Seq({"entity_"} \union ToSet(a)) /\ <<"entity_">> \in Seq({"entity_"} \union ToSet(a))
      BY DEF IsList
    <3>2. QED
      BY <3>1
  <2>2. SafeName(a) = f
    BY <1>2 DEF SafeName
  <2> HIDE DEF f
  <2>3. 1 \in DOMAIN f
    BY <2>1
  <2>4. LowerCase(f)[1] = Lower["entity_"]
    BY <2>1, <2>3 DEF LowerCase
  <2>5. QED
    BY <2>2, <2>4, ReservedAssumption
<1>3. QED
  BY <1>1, <1>2

LEMMA PrefixedApart ==
  ASSUME NEW a, NEW b, IsList(a), IsList(b), <<"entity_">> \o a = <<"entity_">> \o b
  PROVE  a = b
<1> DEFINE S == {"entity_"} \union ToSet(a) \union ToSet(b)
           p == <<"entity_">> \o a
           q == <<"entity_">> \o b
<1>1. a \in Seq(S) /\ b \in Seq(S)
  BY DEF IsList
<1>2. Len(p) = 1 + Len(a) /\ Len(q) = 1 + Len(b)
  BY <1>1
<1>3. /\ \A i \in 1..Len(a) : p[i+1] = a[i]
      /\ \A i \in 1..Len(b) : q[i+1] = b[i]
  BY <1>1
<1>4. Len(a) = Len(b)
  BY <1>1, <1>2
<1>5. \A i \in 1..Len(a) : a[i] = b[i]
  BY <1>3, <1>4
<1>6. QED
  BY <1>1, <1>4, <1>5, SeqEqual

(* A model has a field for each attribute, one of its own unless two names *)
(* come to the same.                                                       *)
FieldsAreKept(names, fields) ==
  /\ \A f \in fields : LowerCase(f) \notin Reserved
  /\ \A a \in names : a \in fields \/ <<"entity_">> \o a \in fields
  /\ \/ Cardinality(fields) = Cardinality(names)
     \/ \E a \in names : <<"entity_">> \o a \in names

LEMMA FieldsFound ==
  ASSUME NEW attributes, IsList(attributes), \A a \in ToSet(attributes) : IsList(a.name)
  PROVE  FieldsAreKept(NamesOf(attributes), DOMAIN BuildModel(attributes))
<1> DEFINE names == NamesOf(attributes)
           fields == {SafeName(a) : a \in names}
<1>1. DOMAIN BuildModel(attributes) = fields
  BY DEF BuildModel, NamesOf
<1>2. \A a \in names : IsList(a)
  BY DEF NamesOf, ToSet
<1>3. IsFiniteSet(names)
  <2>1. IsFiniteSet(DOMAIN attributes)
    <3>1. Len(attributes) \in Nat /\ DOMAIN attributes = 1..Len(attributes)
      BY DEF IsList
    <3>2. QED
      BY <3>1, FS_Interval
  <2> DEFINE f == [i \in DOMAIN attributes |-> attributes[i].name]
  <2>2. f \in Surjection(DOMAIN attributes, names)
    BY DEF Surjection, NamesOf
  <2> HIDE DEF f, names
  <2>3. QED
    BY <2>1, <2>2, FS_Surjection
<1> HIDE DEF names
<1>4. \A f \in fields : LowerCase(f) \notin Reserved
  BY <1>2, SafeNameIs
<1>5. \A a \in names : SafeName(a) = a \/ SafeName(a) = <<"entity_">> \o a
  BY DEF SafeName
<1>6. ASSUME \A a \in names : <<"entity_">> \o a \notin names
      PROVE  Cardinality(fields) = Cardinality(names)
  <2> DEFINE f == [a \in names |-> SafeName(a)]
  <2>1. f \in [names -> fields] /\ \A t \in fields : \E a \in names : f[a] = t
    OBVIOUS
  <2>2. ASSUME NEW a \in names, NEW b \in names, f[a] = f[b]
        PROVE  a = b
    <3>1. SafeName(a) = SafeName(b)
      BY <2>2
    <3>2. CASE SafeName(a) = a \/ SafeName(b) = b
      BY <1>5, <1>6, <3>1, <3>2
    <3>3. CASE SafeName(a) = <<"entity_">> \o a /\ SafeName(b) = <<"entity_">> \o b
      BY <1>2, <3>1, <3>3, PrefixedApart
    <3>4. QED
      BY <1>5, <3>2, <3>3
  <2> HIDE DEF f, fields
  <2>3. QED
    BY <1>3, <2>1, <2>2, BijectionCounts
<1>7. \A a \in names : a \in fields \/ <<"entity_">> \o a \in fields
  BY <1>5
<1>8. FieldsAreKept(names, fields)
  <2> HIDE DEF fields
  <2>1. QED
    BY <1>4, <1>6, <1>7 DEF FieldsAreKept
<1>9. QED
  BY <1>1, <1>8 DEF names

AllowedRun(F, definitions, signature, S) ==
  /\ F \in [0..Len(definitions) -> Seq(S)]
  /\ F[0] = <<>> /\ F[Len(definitions)] = AllowedBetween(definitions, signature)
  /\ \A k \in 1..Len(definitions) :
       F[k] = IF signature \in ToSet(definitions[k].between) /\ definitions[k].name \notin ToSet(F[k-1])
              THEN Append(F[k-1], definitions[k].name) ELSE F[k-1]

LEMMA AllowedSteps ==
  ASSUME NEW definitions, IsList(definitions), NEW signature, NEW S,
         \A d \in ToSet(definitions) : d.name \in S
  PROVE  \E F : AllowedRun(F, definitions, signature, S)
<1> DEFINE s == definitions
           n == Len(s)
           A == Seq(S)
           New(d, v) == signature \in ToSet(d.between) /\ d.name \notin ToSet(v)
           G == [p \in (1..n) \X A |->
                   IF New(s[p[1]], p[2]) THEN Append(p[2], s[p[1]].name) ELSE p[2]]
           Step(z) == [q \in SUBSET DOMAIN s |->
                         IF q = {} THEN <<>>
                         ELSE IF New(s[Max(q)], z[q \ {Max(q)}])
                              THEN Append(z[q \ {Max(q)}], s[Max(q)].name) ELSE z[q \ {Max(q)}]]
           iter == CHOOSE z : z = Step(z)
<1>1. n \in Nat /\ DOMAIN s = 1..n /\ <<>> \in A /\ \A k \in 1..n : s[k].name \in S
  BY DEF IsList, ToSet
<1>2. G \in [(1..n) \X A -> A]
  <2>1. \A v \in A, x \in S : Append(v, x) \in A
    OBVIOUS
  <2> HIDE DEF New, A
  <2>2. QED
    BY <1>1, <2>1
<1>3. \A k \in 1..n, v \in A :
        G[<<k, v>>] = IF New(s[k], v) THEN Append(v, s[k].name) ELSE v
  <2>1. ASSUME NEW k \in 1..n, NEW v \in A
        PROVE  <<k, v>> \in (1..n) \X A /\ <<k, v>>[1] = k /\ <<k, v>>[2] = v
    <3> HIDE DEF A, n
    <3>1. QED
      BY PairIs
  <2>2. QED
    BY <2>1, Zenon
<1>4. iter = Step(iter)
  <2>1. PICK h : Iterates(h, n, A, <<>>, G)
    BY <1>1, <1>2, IterationExists
  <2>2. /\ h \in [SUBSET (1..n) -> A]
        /\ \A q \in SUBSET (1..n) : h[q] = IF q = {} THEN <<>> ELSE G[<<Max(q), h[q \ {Max(q)}]>>]
    BY <2>1 DEF Iterates
  <2>3. \A q \in SUBSET (1..n) : q # {} => Max(q) \in 1..n /\ h[q \ {Max(q)}] \in A
    BY <1>1, <2>2, MaxIn
  <2> HIDE DEF G, New
  <2>4. ASSUME NEW q \in SUBSET (1..n)
        PROVE  h[q] = Step(h)[q]
    <3>1. CASE q = {}
      BY <1>1, <2>2, <3>1
    <3>2. CASE q # {}
      BY <1>1, <1>3, <2>2, <2>3, <3>2
    <3>3. QED
      BY <3>1, <3>2
  <2>5. h = Step(h)
    BY <1>1, <2>2, <2>4
  <2>6. QED
    BY <2>5, Zenon
<1>5. AllowedBetween(s, signature) = iter[1..n]
  BY <1>1 DEF AllowedBetween, FoldLeft, MapThenFoldSet
<1> HIDE DEF iter, G, New
<1>6. iter[{}] = <<>>
  BY <1>4
<1>7. ASSUME NEW k \in 1..n, iter[1..k-1] \in A
      PROVE  iter[1..k] = G[<<k, iter[1..k-1]>>]
  <2>1. /\ Max(1..k) = k /\ (1..k) # {} /\ (1..k) \ {Max(1..k)} = 1..k-1
        /\ (1..k) \in SUBSET DOMAIN s
    BY <1>1, MaxOfPrefix
  <2>2. iter[1..k] = Step(iter)[1..k]
    BY <1>4
  <2>3. iter[1..k] = IF New(s[k], iter[1..k-1]) THEN Append(iter[1..k-1], s[k].name)
                     ELSE iter[1..k-1]
    BY <2>1, <2>2
  <2>4. QED
    BY <1>3, <1>7, <2>3
<1>8. PICK F : IsRun(F, iter, n, A, <<>>, G)
  <2>1. n \in Nat /\ <<>> \in A
    BY <1>1
  <2>2. RunsOver(iter, n, A, <<>>, G)
    BY <1>6, <1>7 DEF RunsOver
  <2>3. QED
    BY <2>1, <2>2, <1>2, PrefixRuns
<1>9. F \in [0..n -> A] /\ F[n] = iter[1..n] /\ F[0] = <<>> /\ \A k \in 1..n : F[k] = G[<<k, F[k-1]>>]
  BY <1>8 DEF IsRun
<1>10. \A k \in 1..n : F[k-1] \in A
  BY <1>1, <1>9
<1>11. \A k \in 1..n : F[k] = IF New(s[k], F[k-1]) THEN Append(F[k-1], s[k].name) ELSE F[k-1]
  BY <1>3, <1>9, <1>10
<1>12. AllowedRun(F, s, signature, S)
  BY <1>5, <1>9, <1>11 DEF AllowedRun, New
<1>13. QED
  BY <1>12

LEMMA AppendOnce ==
  ASSUME NEW S, NEW s \in Seq(S), NEW x \in S, IsInjective(s), x \notin ToSet(s)
  PROVE  IsInjective(Append(s, x))
<1> DEFINE r == Append(s, x)
           l == Len(s)
<1>1. /\ l \in Nat /\ DOMAIN s = 1..l /\ DOMAIN r = 1..l+1
      /\ r[l+1] = x /\ \A i \in 1..l : r[i] = s[i]
  OBVIOUS
<1>2. \A i \in 1..l : s[i] \in ToSet(s)
  BY <1>1 DEF ToSet
<1>3. \A i \in 1..l+1 : i \in 1..l \/ i = l + 1
  BY <1>1
<1> HIDE DEF r, l
<1>4. \A a, b \in DOMAIN r : r[a] = r[b] => a = b
  BY <1>1, <1>2, <1>3 DEF IsInjective
<1>5. QED
  BY <1>4 DEF IsInjective, r

(* The names of those of the definitions that are for the signature.       *)
NamesFor(definitions, signature) ==
  {d.name : d \in {x \in ToSet(definitions) : signature \in ToSet(x.between)}}

LEMMA AllowedIs ==
  ASSUME NEW definitions, IsList(definitions), NEW signature
  PROVE  /\ IsInjective(AllowedBetween(definitions, signature))
         /\ ToSet(AllowedBetween(definitions, signature)) = NamesFor(definitions, signature)
<1> DEFINE n == Len(definitions)
           S == {d.name : d \in ToSet(definitions)}
           Said(k) == {m \in 1..k : signature \in ToSet(definitions[m].between)}
           Names(k) == {definitions[m].name : m \in Said(k)}
<1>0. \A d \in ToSet(definitions) : d.name \in S
  OBVIOUS
<1>r. PICK F : AllowedRun(F, definitions, signature, S)
  <2> HIDE DEF S
  <2>1. QED
    BY <1>0, AllowedSteps
<1>1. /\ F \in [0..n -> Seq(S)] /\ F[0] = <<>> /\ F[n] = AllowedBetween(definitions, signature)
      /\ \A k \in 1..n :
           F[k] = IF signature \in ToSet(definitions[k].between) /\ definitions[k].name \notin ToSet(F[k-1])
                  THEN Append(F[k-1], definitions[k].name) ELSE F[k-1]
  BY <1>r DEF AllowedRun
<1>2. n \in Nat /\ DOMAIN definitions = 1..n /\ \A k \in 1..n : definitions[k].name \in S
  BY DEF IsList, ToSet
<1> DEFINE Good(k) == IsInjective(F[k]) /\ ToSet(F[k]) = Names(k)
           U == {k \in Nat : k =< n => Good(k)}
<1> HIDE DEF n, S
<1>3. 0 \in U
  <2>1. DOMAIN <<>> = {} /\ Names(0) = {}
    OBVIOUS
  <2>2. IsInjective(<<>>)
    BY <2>1 DEF IsInjective
  <2>3. ToSet(<<>>) = {}
    BY <2>1 DEF ToSet
  <2> HIDE DEF Names
  <2>4. QED
    BY <1>1, <2>1, <2>2, <2>3
<1>4. ASSUME NEW k \in Nat, k \in U
      PROVE  k + 1 \in U
  <2> DEFINE d == definitions[k+1]
             kept == F[k]
             given == signature \in ToSet(d.between)
  <2>3. Names(k + 1) = IF given THEN Names(k) \union {d.name} ELSE Names(k)
    <3>1. \A m : m \in 1..k+1 <=> m \in 1..k \/ m = k + 1
      OBVIOUS
    <3>2. Said(k + 1) = IF given THEN Said(k) \union {k + 1} ELSE Said(k)
      BY <3>1
    <3> HIDE DEF Said, given
    <3>3. QED
      BY <3>2
  <2> HIDE DEF Good, Said, Names
  <2> SUFFICES ASSUME k + 1 =< n PROVE Good(k + 1)
    OBVIOUS
  <2>1. k + 1 \in 1..n /\ (k + 1) - 1 = k /\ k \in 0..n /\ k =< n
    BY <1>2
  <2>a. IsInjective(kept) /\ ToSet(kept) = Names(k)
    BY <1>4, <2>1 DEF Good
  <2>b. kept \in Seq(S) /\ d.name \in S
    BY <1>1, <1>2, <2>1
  <2>2. F[k+1] = IF given /\ d.name \notin ToSet(kept) THEN Append(kept, d.name) ELSE kept
    BY <1>1, <2>1
  <2> HIDE DEF kept, d, given
  <2>4. CASE ~ (given /\ d.name \notin ToSet(kept))
    <3>1. Names(k + 1) = Names(k)
      BY <2>3, <2>4, <2>a
    <3>2. QED
      BY <2>2, <2>4, <2>a, <3>1 DEF Good
  <2>5. CASE given /\ d.name \notin ToSet(kept)
    <3>1. ToSet(Append(kept, d.name)) = ToSet(kept) \union {d.name}
      BY <2>b, ToSetAppend
    <3>2. IsInjective(Append(kept, d.name))
      BY <2>5, <2>a, <2>b, AppendOnce
    <3>3. QED
      BY <2>2, <2>3, <2>5, <2>a, <3>1, <3>2 DEF Good
  <2>6. QED
    BY <2>4, <2>5
<1>5. n \in U
  <2> HIDE DEF U
  <2>1. QED
    BY <1>2, <1>3, <1>4, SetInduction
<1>6. n =< n
  BY <1>2
<1>7. IsInjective(F[n]) /\ ToSet(F[n]) = Names(n)
  BY <1>5, <1>6
<1>8. Names(n) = NamesFor(definitions, signature)
  BY <1>2 DEF ToSet, NamesFor
<1>9. QED
  BY <1>1, <1>7, <1>8

LEMMA OntologyFound ==
  ASSUME NEW definitions, IsList(definitions),
         \A d \in ToSet(definitions) :
           IsList(d.attributes) /\ \A a \in ToSet(d.attributes) : IsList(a.name)
  PROVE  OntologyIsKept(definitions, CompileOntology(definitions))
<1> DEFINE types == CompileModels(definitions)
           allowed == EdgeTypeMap(definitions)
           compiled == [types |-> types, allowed |-> allowed]
<1>1. CompileOntology(definitions) = compiled
  BY DEF CompileOntology
<1>2. compiled.types = types /\ compiled.allowed = allowed
  OBVIOUS
<1>3. /\ DOMAIN types = {definitions[i].name : i \in DOMAIN definitions}
      /\ \A n \in DOMAIN types : LET d == LastWith(definitions, LAMBDA x : x.name = n) IN
           types[n] = BuildModel(d.attributes) /\ d \in ToSet(definitions)
  <2>1. DOMAIN types = {definitions[i].name : i \in DOMAIN definitions}
    BY DEF CompileModels
  <2>2. ASSUME NEW n \in DOMAIN types
        PROVE  LET d == LastWith(definitions, LAMBDA x : x.name = n) IN
                 types[n] = BuildModel(d.attributes) /\ d \in ToSet(definitions)
    <3>1. types[n] = BuildModel(LastWith(definitions, LAMBDA x : x.name = n).attributes)
      BY <2>1 DEF CompileModels
    <3>2. PICK i \in DOMAIN definitions : n = definitions[i].name
      BY <2>1
    <3>3. LastWith(definitions, LAMBDA x : x.name = n) \in ToSet(definitions)
      BY <3>2, LastNamedIs DEF LastWith, SelectLastInSeq
    <3>4. QED
      BY <3>1, <3>3
  <2>3. QED
    BY <2>1, <2>2
<1>4. /\ DOMAIN allowed = UNION {ToSet(definitions[i].between) : i \in DOMAIN definitions}
      /\ \A s \in DOMAIN allowed :
           IsInjective(allowed[s]) /\ ToSet(allowed[s]) = NamesFor(definitions, s)
  BY AllowedIs DEF EdgeTypeMap
<1> HIDE DEF types, allowed, compiled
<1>5. \A n \in DOMAIN types :
        LET d == LastWith(definitions, LAMBDA x : x.name = n)
            names == {d.attributes[i].name : i \in DOMAIN d.attributes}
            fields == DOMAIN types[n]
        IN  /\ \A f \in fields : LowerCase(f) \notin Reserved
            /\ \A a \in names : a \in fields \/ <<"entity_">> \o a \in fields
            /\ \/ Cardinality(fields) = Cardinality(names)
               \/ \E a \in names : <<"entity_">> \o a \in names
  <2> SUFFICES ASSUME NEW n \in DOMAIN types
               PROVE  LET d == LastWith(definitions, LAMBDA x : x.name = n)
                      IN  FieldsAreKept(NamesOf(d.attributes), DOMAIN types[n])
    BY DEF FieldsAreKept, NamesOf
  <2> DEFINE d == LastWith(definitions, LAMBDA x : x.name = n)
  <2>1. types[n] = BuildModel(d.attributes) /\ d \in ToSet(definitions)
    BY <1>3
  <2> HIDE DEF d
  <2>2. FieldsAreKept(NamesOf(d.attributes), DOMAIN types[n])
    BY <2>1, FieldsFound
  <2>3. QED
    BY <2>2 DEF d
<1>6. \A s \in DOMAIN allowed : \A m \in ToSet(allowed[s]) :
        /\ m \in DOMAIN types
        /\ \E i \in DOMAIN definitions :
             definitions[i].name = m /\ s \in ToSet(definitions[i].between)
  <2> SUFFICES ASSUME NEW s \in DOMAIN allowed, NEW m \in ToSet(allowed[s])
               PROVE  /\ m \in DOMAIN types
                      /\ \E i \in DOMAIN definitions :
                           definitions[i].name = m /\ s \in ToSet(definitions[i].between)
    OBVIOUS
  <2>1. m \in NamesFor(definitions, s)
    BY <1>4
  <2>2. PICK d \in ToSet(definitions) : d.name = m /\ s \in ToSet(d.between)
    BY <2>1 DEF NamesFor
  <2>3. PICK i \in DOMAIN definitions : definitions[i] = d
    BY DEF ToSet
  <2>4. DOMAIN types = {definitions[j].name : j \in DOMAIN definitions}
    BY <1>3
  <2>5. QED
    BY <2>2, <2>3, <2>4
<1>7. \A i \in DOMAIN definitions : \A s \in ToSet(definitions[i].between) :
        definitions[i].name \in ToSet(allowed[s])
  <2> SUFFICES ASSUME NEW i \in DOMAIN definitions, NEW s \in ToSet(definitions[i].between)
               PROVE  definitions[i].name \in ToSet(allowed[s])
    OBVIOUS
  <2>1. definitions[i] \in ToSet(definitions) /\ s \in DOMAIN allowed
    BY <1>4 DEF ToSet
  <2>2. QED
    BY <1>4, <2>1 DEF NamesFor
<1>8. OntologyIsKept(definitions, compiled)
  BY <1>2, <1>4, <1>5, <1>6, <1>7 DEF OntologyIsKept
<1>9. QED
  BY <1>1, <1>8

-----------------------------------------------------------------------------
LEMMA AliasesAre ==
  ASSUME NEW field
  PROVE  IsList(AliasCandidates(field)) /\ field \in ToSet(AliasCandidates(field))
<1> DEFINE own == OwnCandidates(field)
           all == Spellings(field) \o own
<1>1. PICK T : own \in Seq(T)
  <2>1. \E T : own \in Seq(T)
    <3>t. /\ \A a, b : <<a, b>> \in Seq({a, b})
          /\ \A a, b, c, d : <<a, b, c, d>> \in Seq({a, b, c, d})
          /\ <<>> \in Seq({})
      OBVIOUS
    <3>1. /\ <<"name">> # <<"source", "entity", "name">>
          /\ <<"name">> # <<"target", "entity", "name">>
          /\ <<"source", "entity", "name">> # <<"target", "entity", "name">>
      <4>1. Len(<<"name">>) = 1 /\ Len(<<"source", "entity", "name">>) = 3
        OBVIOUS
      <4>2. Len(<<"target", "entity", "name">>) = 3
        OBVIOUS
      <4>3. <<"source", "entity", "name">>[1] = "source" /\ <<"target", "entity", "name">>[1] = "target"
        OBVIOUS
      <4>4. QED
        BY <4>1, <4>2, <4>3
    <3>2. CASE field = <<"name">>
      <4>1. own = <<<<"entity", "name">>, <<"node", "name">>, <<"text">>, <<"entity">>>>
        BY <3>1, <3>2 DEF OwnCandidates
      <4> HIDE DEF own
      <4>2. QED
        BY <3>t, <4>1
    <3>3. CASE field = <<"source", "entity", "name">>
      <4>1. own = <<<<"source", "name">>, <<"source">>>>
        BY <3>1, <3>3 DEF OwnCandidates
      <4> HIDE DEF own
      <4>2. QED
        BY <3>t, <4>1
    <3>4. CASE field = <<"target", "entity", "name">>
      <4>1. own = <<<<"target", "name">>, <<"target">>>>
        BY <3>1, <3>4 DEF OwnCandidates
      <4> HIDE DEF own
      <4>2. QED
        BY <3>t, <4>1
    <3>5. CASE field \notin {<<"name">>, <<"source", "entity", "name">>, <<"target", "entity", "name">>}
      <4>1. own = <<>>
        BY <3>5 DEF OwnCandidates
      <4> HIDE DEF own
      <4>2. QED
        BY <3>t, <4>1
    <3>6. QED
      BY <3>2, <3>3, <3>4, <3>5
  <2>2. QED
    BY <2>1
<1> HIDE DEF own
<1>2. PICK U : Spellings(field) \in Seq(U) /\ Spellings(field)[1] = field /\ Len(Spellings(field)) = 3
  <2> DEFINE a == Spelled("flat", field)
             b == Spelled("camel", field)
  <2>1. Spellings(field) = <<field, a, b>>
    BY DEF Spellings
  <2> HIDE DEF a, b
  <2>2. <<field, a, b>> \in Seq({field, a, b}) /\ <<field, a, b>>[1] = field /\ Len(<<field, a, b>>) = 3
    OBVIOUS
  <2>3. QED
    BY <2>1, <2>2
<1>3. all \in Seq(T \union U) /\ all[1] = field /\ 1 \in DOMAIN all
  <2>1. own \in Seq(T \union U) /\ Spellings(field) \in Seq(T \union U)
    BY <1>1, <1>2
  <2> DEFINE sp == Spellings(field)
             W == T \union U
  <2>2. sp \in Seq(W) /\ own \in Seq(W) /\ sp[1] = field /\ Len(sp) = 3 /\ all = sp \o own
    BY <1>2, <2>1
  <2> HIDE DEF sp, W, all
  <2>l. Len(sp) \in Nat /\ Len(own) \in Nat
    BY <2>2, LenProperties
  <2>3. /\ all \in Seq(W) /\ Len(all) = Len(sp) + Len(own)
        /\ \A i \in 1..Len(sp) : all[i] = sp[i]
    <3>1. /\ sp \o own \in Seq(W) /\ Len(sp \o own) = Len(sp) + Len(own)
          /\ \A i \in 1 .. Len(sp) + Len(own) :
               (sp \o own)[i] = IF i =< Len(sp) THEN sp[i] ELSE own[i - Len(sp)]
      BY <2>2, ConcatProperties
    <3>2. \A i \in 1..Len(sp) : i \in 1 .. Len(sp) + Len(own) /\ i =< Len(sp)
      BY <2>l
    <3>3. QED
      BY <2>2, <3>1, <3>2
  <2>4. Len(own) \in Nat /\ DOMAIN all = 1..Len(all)
    BY <2>2, <2>3, LenProperties
  <2>5. 1 \in 1..Len(sp) /\ 1 \in DOMAIN all
    BY <2>2, <2>3, <2>4
  <2>6. QED
    BY <2>2, <2>3, <2>5 DEF W
<1>4. AliasCandidates(field) = all
  BY DEF AliasCandidates, own
<1> HIDE DEF all
<1>5. IsList(all)
  BY <1>3 DEF IsList, ToSet
<1>6. QED
  BY <1>3, <1>4, <1>5 DEF ToSet

(* Nothing to take for a field: it is there, or under no other name.       *)
Settled(item, field) ==
  field \in DOMAIN item \/ ToSet(AliasCandidates(field)) \intersect DOMAIN item = {}

Renamed(item, got, field, k) ==
  /\ k \in ToSet(AliasCandidates(field)) /\ k \in DOMAIN item /\ field \notin DOMAIN item
  /\ got = [j \in (DOMAIN item \ {k}) \union {field} |-> IF j = field THEN item[k] ELSE item[j]]

LEMMA TakeIs ==
  ASSUME NEW item, NEW field
  PROVE  /\ Settled(item, field) => TakeAlias(item, field) = item
         /\ ~ Settled(item, field) => \E k : Renamed(item, TakeAlias(item, field), field, k)
<1> DEFINE names == AliasCandidates(field)
           there == Those(names, DOMAIN item)
           named == [j \in (DOMAIN item \ {there[1]}) \union {field} |->
                       IF j = field THEN item[there[1]] ELSE item[j]]
<1>1. /\ there = <<>> <=> ToSet(names) \intersect DOMAIN item = {}
      /\ there # <<>> => there[1] \in ToSet(names) \intersect DOMAIN item
  <2>1. names \in Seq(ToSet(names))
    BY AliasesAre DEF IsList
  <2> HIDE DEF names
  <2>2. QED
    BY <2>1, ThoseAre
<1>2. TakeAlias(item, field) = IF field \in DOMAIN item \/ there = <<>> THEN item ELSE named
  BY DEF TakeAlias
<1> HIDE DEF there, named
<1>3. Settled(item, field) <=> field \in DOMAIN item \/ there = <<>>
  BY <1>1 DEF Settled
<1>4. ASSUME ~ Settled(item, field)
      PROVE  Renamed(item, named, field, there[1])
  BY <1>1, <1>3, <1>4 DEF Renamed, named
<1>5. QED
  BY <1>2, <1>3, <1>4

Items(D, V) == UNION {[E -> V] : E \in SUBSET D}

LEMMA TakeStays ==
  ASSUME NEW D, NEW V, NEW item \in Items(D, V), NEW field \in D
  PROVE  TakeAlias(item, field) \in Items(D, V)
<1>1. CASE Settled(item, field)
  BY <1>1, TakeIs
<1>2. CASE ~ Settled(item, field)
  <2>1. PICK k : Renamed(item, TakeAlias(item, field), field, k)
    BY <1>2, TakeIs
  <2>2. PICK E \in SUBSET D : item \in [E -> V]
    BY DEF Items
  <2> DEFINE F == (E \ {k}) \union {field}
  <2>3. F \in SUBSET D /\ k \in E
    BY <2>1, <2>2 DEF Renamed
  <2>4. TakeAlias(item, field) = [j \in F |-> IF j = field THEN item[k] ELSE item[j]]
    BY <2>1, <2>2 DEF Renamed
  <2>5. TakeAlias(item, field) \in [F -> V]
    BY <2>2, <2>3, <2>4
  <2>6. QED
    BY <2>3, <2>5 DEF Items
<1>3. QED
  BY <1>1, <1>2

TakeRun(F, item, fields, A) ==
  /\ F \in [0..Len(fields) -> A]
  /\ F[0] = item /\ F[Len(fields)] = FoldLeft(TakeAlias, item, fields)
  /\ \A k \in 1..Len(fields) : F[k] = TakeAlias(F[k-1], fields[k])

LEMMA TakeSteps ==
  ASSUME NEW item, IsDict(item), NEW fields, IsList(fields)
  PROVE  \E F, V : TakeRun(F, item, fields, Items(DOMAIN item \union ToSet(fields), V))
<1> DEFINE s == fields
           n == Len(s)
           D == DOMAIN item \union ToSet(fields)
           V == {item[k] : k \in DOMAIN item}
           A == Items(D, V)
           G == [p \in (1..n) \X A |-> TakeAlias(p[2], s[p[1]])]
           Step(z) == [q \in SUBSET DOMAIN s |->
                         IF q = {} THEN item ELSE TakeAlias(z[q \ {Max(q)}], s[Max(q)])]
           iter == CHOOSE z : z = Step(z)
<1>1. n \in Nat /\ DOMAIN s = 1..n /\ item \in A /\ \A k \in 1..n : s[k] \in D
  <2>1. n \in Nat /\ DOMAIN s = 1..n
    BY DEF IsList
  <2>2. \A k \in 1..n : s[k] \in D
    BY <2>1 DEF ToSet
  <2>3. item \in A
    <3>1. item \in [DOMAIN item -> V]
      BY DEF IsDict
    <3> HIDE DEF V
    <3>2. QED
      BY <3>1 DEF Items
  <2>4. QED
    BY <2>1, <2>2, <2>3
<1> HIDE DEF D, V
<1>2. G \in [(1..n) \X A -> A]
  <2>1. \A k \in 1..n, v \in A : TakeAlias(v, s[k]) \in A
    BY <1>1, TakeStays
  <2> HIDE DEF A
  <2>2. QED
    BY <2>1
<1>3. \A k \in 1..n, v \in A : G[<<k, v>>] = TakeAlias(v, s[k])
  OBVIOUS
<1> HIDE DEF A
<1>4. iter = Step(iter)
  <2>1. PICK h : Iterates(h, n, A, item, G)
    BY <1>1, <1>2, IterationExists
  <2>2. /\ h \in [SUBSET (1..n) -> A]
        /\ \A q \in SUBSET (1..n) : h[q] = IF q = {} THEN item ELSE G[<<Max(q), h[q \ {Max(q)}]>>]
    BY <2>1 DEF Iterates
  <2>3. \A q \in SUBSET (1..n) : q # {} => Max(q) \in 1..n /\ h[q \ {Max(q)}] \in A
    BY <1>1, <2>2, MaxIn
  <2> HIDE DEF G
  <2>4. ASSUME NEW q \in SUBSET (1..n)
        PROVE  h[q] = Step(h)[q]
    <3>1. CASE q = {}
      BY <1>1, <2>2, <3>1
    <3>2. CASE q # {}
      BY <1>1, <1>3, <2>2, <2>3, <3>2
    <3>3. QED
      BY <3>1, <3>2
  <2>5. h = Step(h)
    BY <1>1, <2>2, <2>4
  <2>6. QED
    BY <2>5
<1>5. FoldLeft(TakeAlias, item, s) = iter[1..n]
  BY <1>1 DEF FoldLeft, MapThenFoldSet
<1> HIDE DEF iter, G
<1>6. iter[{}] = item
  BY <1>4
<1>7. ASSUME NEW k \in 1..n, iter[1..k-1] \in A
      PROVE  iter[1..k] = G[<<k, iter[1..k-1]>>]
  <2>1. /\ Max(1..k) = k /\ (1..k) # {} /\ (1..k) \ {Max(1..k)} = 1..k-1
        /\ (1..k) \in SUBSET DOMAIN s
    BY <1>1, MaxOfPrefix
  <2>2. iter[1..k] = Step(iter)[1..k]
    BY <1>4
  <2>3. iter[1..k] = TakeAlias(iter[1..k-1], s[k])
    BY <2>1, <2>2
  <2>4. QED
    BY <1>3, <1>7, <2>3
<1>8. PICK F : IsRun(F, iter, n, A, item, G)
  <2>1. RunsOver(iter, n, A, item, G)
    BY <1>6, <1>7 DEF RunsOver
  <2>2. QED
    BY <1>1, <1>2, <2>1, PrefixRuns
<1>9. F \in [0..n -> A] /\ F[n] = iter[1..n] /\ F[0] = item /\ \A k \in 1..n : F[k] = G[<<k, F[k-1]>>]
  BY <1>8 DEF IsRun
<1>10. \A k \in 1..n : F[k-1] \in A
  BY <1>1, <1>9
<1>11. \A k \in 1..n : F[k] = TakeAlias(F[k-1], s[k])
  BY <1>3, <1>9, <1>10
<1>12. TakeRun(F, item, fields, Items(D, V))
  BY <1>5, <1>9, <1>11 DEF TakeRun, A
<1>13. QED
  BY <1>12 DEF D

AliasesApart(fields) ==
  /\ IsList(fields)
  /\ \A f, g \in ToSet(fields) :
       f # g => ToSet(AliasCandidates(f)) \intersect ToSet(AliasCandidates(g)) = {}

Known(item, field) == ToSet(AliasCandidates(field)) \intersect DOMAIN item

(* What the first k fields have taken from an item, as far as got.         *)
Taken(got, item, fields, k) ==
  /\ \A i \in 1..k : /\ Settled(got, fields[i])
                     /\ Known(item, fields[i]) # {} => fields[i] \in DOMAIN got
  /\ \A f \in ToSet(fields) : (\A i \in 1..k : fields[i] # f) => Known(got, f) = Known(item, f)
  /\ \A j \in DOMAIN item : \E m \in DOMAIN got :
       got[m] = item[j] /\ (m = j \/ m \in ToSet(fields))

LEMMA TakeOne ==
  ASSUME NEW fields, AliasesApart(fields), NEW item, NEW got,
         NEW k \in Nat, k + 1 \in DOMAIN fields, Taken(got, item, fields, k)
  PROVE  Taken(TakeAlias(got, fields[k+1]), item, fields, k + 1)
<1> DEFINE field == fields[k+1]
           next == TakeAlias(got, field)
<1>1. field \in ToSet(fields) /\ DOMAIN fields = 1..Len(fields) /\ Len(fields) \in Nat
  BY DEF ToSet, AliasesApart, IsList
<1>2. \A i : i \in 1..k+1 <=> i \in 1..k \/ i = k + 1
  OBVIOUS
<1>3. \A i \in 1..k : fields[i] \in ToSet(fields)
  <2>1. \A i \in 1..k : i \in DOMAIN fields
    BY <1>1
  <2>2. QED
    BY <2>1 DEF ToSet
<1>4. \A f : f \in ToSet(AliasCandidates(f))
  BY AliasesAre
<1>t. /\ \A i \in 1..k : /\ Settled(got, fields[i])
                         /\ Known(item, fields[i]) # {} => fields[i] \in DOMAIN got
      /\ \A f \in ToSet(fields) : (\A i \in 1..k : fields[i] # f) => Known(got, f) = Known(item, f)
      /\ \A j \in DOMAIN item : \E m \in DOMAIN got :
           got[m] = item[j] /\ (m = j \/ m \in ToSet(fields))
  BY DEF Taken
<1> HIDE DEF field
<1>5. CASE Settled(got, field)
  <2>1. next = got
    BY <1>5, TakeIs
  <2>2. Known(item, field) # {} => field \in DOMAIN got
    <3>1. CASE \E i \in 1..k : fields[i] = field
      BY <1>t, <3>1
    <3>2. CASE \A i \in 1..k : fields[i] # field
      <4>1. Known(got, field) = Known(item, field)
        BY <1>1, <1>t, <3>2
      <4>2. QED
        BY <1>5, <4>1 DEF Settled, Known
    <3>3. QED
      BY <3>1, <3>2
  <2>3. \A i \in 1..k+1 : /\ Settled(got, fields[i])
                          /\ Known(item, fields[i]) # {} => fields[i] \in DOMAIN got
    BY <1>2, <1>5, <1>t, <2>2 DEF field
  <2>4. \A f \in ToSet(fields) : (\A i \in 1..k+1 : fields[i] # f) => Known(got, f) = Known(item, f)
    BY <1>2, <1>t
  <2> HIDE DEF next
  <2>5. Taken(next, item, fields, k + 1)
    BY <1>t, <2>1, <2>3, <2>4 DEF Taken
  <2>6. QED
    BY <2>5 DEF next, field
<1>6. CASE ~ Settled(got, field)
  <2>1. PICK c : Renamed(got, next, field, c)
    BY <1>6, TakeIs
  <2> HIDE DEF next
  <2>2. /\ c \in ToSet(AliasCandidates(field)) /\ c \in DOMAIN got /\ field \notin DOMAIN got
        /\ DOMAIN next = (DOMAIN got \ {c}) \union {field}
        /\ next[field] = got[c] /\ \A j \in DOMAIN got \ {c} : next[j] = got[j]
    BY <2>1 DEF Renamed
  <2>3. \A i \in 1..k : fields[i] # field
    BY <1>6, <1>t
  <2>4. \A f \in ToSet(fields) : f # field => c \notin ToSet(AliasCandidates(f)) /\ field \notin ToSet(AliasCandidates(f))
    BY <1>1, <1>4, <2>2 DEF AliasesApart
  <2>5. \A f \in ToSet(fields) : f # field => Known(next, f) = Known(got, f)
    BY <2>2, <2>4 DEF Known
  <2>6. ASSUME NEW i \in 1..k+1
        PROVE  /\ Settled(next, fields[i])
               /\ Known(item, fields[i]) # {} => fields[i] \in DOMAIN next
    <3>1. CASE i = k + 1
      BY <2>2, <3>1 DEF Settled, field
    <3>2. CASE i \in 1..k
      <4>1. fields[i] \in ToSet(fields) /\ fields[i] # field
        BY <1>3, <2>3, <3>2
      <4>2. fields[i] \in DOMAIN got => fields[i] \in DOMAIN next
        BY <1>4, <2>2, <2>4, <4>1
      <4>3. Known(got, fields[i]) = {} => Known(next, fields[i]) = {}
        BY <2>5, <4>1
      <4>4. Settled(got, fields[i]) /\ (Known(item, fields[i]) # {} => fields[i] \in DOMAIN got)
        BY <1>t, <3>2
      <4>5. QED
        BY <4>2, <4>3, <4>4 DEF Settled, Known
    <3>3. QED
      BY <1>2, <3>1, <3>2
  <2>7. \A f \in ToSet(fields) : (\A i \in 1..k+1 : fields[i] # f) => Known(next, f) = Known(item, f)
    <3>1. k + 1 \in 1..k+1 /\ \A i \in 1..k : i \in 1..k+1
      OBVIOUS
    <3>2. QED
      BY <1>t, <2>5, <3>1 DEF field
  <2>8. ASSUME NEW j \in DOMAIN item
        PROVE  \E m \in DOMAIN next : next[m] = item[j] /\ (m = j \/ m \in ToSet(fields))
    <3>1. PICK m \in DOMAIN got : got[m] = item[j] /\ (m = j \/ m \in ToSet(fields))
      BY <1>t
    <3>2. CASE m = c
      BY <1>1, <2>2, <3>1, <3>2
    <3>3. CASE m # c
      BY <2>2, <3>1, <3>3
    <3>4. QED
      BY <3>2, <3>3
  <2>9. Taken(next, item, fields, k + 1)
    BY <2>6, <2>7, <2>8 DEF Taken
  <2>10. QED
    BY <2>9 DEF next, field
<1>7. QED
  BY <1>5, <1>6

LEMMA TakenIs ==
  ASSUME NEW item, IsDict(item), NEW fields, AliasesApart(fields)
  PROVE  LET got == FoldLeft(TakeAlias, item, fields) IN
         /\ IsDict(got) /\ Taken(got, item, fields, Len(fields))
         /\ (\A f \in ToSet(fields) : Settled(item, f)) => got = item
<1> DEFINE got == FoldLeft(TakeAlias, item, fields)
           n == Len(fields)
<1>1. n \in Nat /\ DOMAIN fields = 1..n /\ IsList(fields)
  BY DEF AliasesApart, IsList
<1>2. PICK F, V : TakeRun(F, item, fields, Items(DOMAIN item \union ToSet(fields), V))
  BY <1>1, TakeSteps
<1> DEFINE A == Items(DOMAIN item \union ToSet(fields), V)
<1>3. /\ F \in [0..n -> A] /\ F[0] = item /\ F[n] = got
      /\ \A k \in 1..n : F[k] = TakeAlias(F[k-1], fields[k])
  BY <1>2 DEF TakeRun
<1>4. IsDict(got)
  <2>1. got \in A
    BY <1>1, <1>3
  <2> HIDE DEF got
  <2>2. QED
    BY <2>1 DEF Items, IsDict
<1> HIDE DEF got, n, A
<1> DEFINE T == {k \in Nat : k =< n => Taken(F[k], item, fields, k)}
           U == {k \in Nat : k =< n => F[k] = item}
<1>5. 0 \in T
  <2>1. Taken(item, item, fields, 0)
    BY DEF Taken
  <2>2. QED
    BY <1>3, <2>1
<1>6. ASSUME NEW k \in Nat, k \in T
      PROVE  k + 1 \in T
  <2> SUFFICES ASSUME k + 1 =< n PROVE Taken(F[k+1], item, fields, k + 1)
    OBVIOUS
  <2>1. k + 1 \in 1..n /\ (k + 1) - 1 = k /\ k =< n
    BY <1>1
  <2>2. F[k+1] = TakeAlias(F[k], fields[k+1]) /\ Taken(F[k], item, fields, k)
    BY <1>3, <1>6, <2>1
  <2>3. QED
    BY <1>1, <2>1, <2>2, TakeOne
<1>7. n \in T
  <2> HIDE DEF T
  <2>1. QED
    BY <1>1, <1>5, <1>6, SetInduction
<1>8. n =< n
  BY <1>1
<1>9. ASSUME \A f \in ToSet(fields) : Settled(item, f)
      PROVE  got = item
  <2>1. 0 \in U
    BY <1>3
  <2>2. ASSUME NEW k \in Nat, k \in U
        PROVE  k + 1 \in U
    <3> SUFFICES ASSUME k + 1 =< n PROVE F[k+1] = item
      OBVIOUS
    <3>1. k + 1 \in 1..n /\ (k + 1) - 1 = k /\ k =< n
      BY <1>1
    <3>2. fields[k+1] \in ToSet(fields)
      BY <1>1, <3>1 DEF ToSet
    <3>3. F[k+1] = TakeAlias(item, fields[k+1])
      BY <1>3, <2>2, <3>1
    <3>4. QED
      BY <1>9, <3>2, <3>3, TakeIs
  <2>3. n \in U
    <3> HIDE DEF U
    <3>1. QED
      BY <1>1, <2>1, <2>2, SetInduction
  <2>4. QED
    BY <1>3, <1>8, <2>3
<1>10. QED
  BY <1>3, <1>4, <1>7, <1>8, <1>9 DEF got, n

(* Fields that no name of the type stands for, and only one stands for the *)
(* type's number.                                                          *)
LEMMA EntityIs ==
  ASSUME NEW item, IsDict(item), NEW ids
  PROVE  LET got == NormalizeExtractedEntity(item, ids) IN
         /\ IsDict(got) /\ TypeId \in DOMAIN got
         /\ TypeId \in DOMAIN item => got = item
         /\ DOMAIN got \subseteq DOMAIN item \union {TypeId}
         /\ \A k \in DOMAIN item \ ToSet(TypeNames) : k \in DOMAIN got /\ got[k] = item[k]
<1> DEFINE I == {i \in 1..Len(TypeNames) : TypeNames[i] \in DOMAIN item /\ item[TypeNames[i]] # ""}
           saying == IF I # {} THEN Min(I) ELSE 0
           taken == SubSeq(TypeNames, 1, IF saying = 0 THEN Len(TypeNames) ELSE saying)
           id == IF saying = 0 THEN "0" ELSE EntityTypeId(item[TypeNames[saying]], ids)
           typed == [k \in (DOMAIN item \ ToSet(taken)) \union {TypeId} |->
                       IF k = TypeId THEN id ELSE item[k]]
           got == NormalizeExtractedEntity(item, ids)
<1>1. got = IF TypeId \in DOMAIN item THEN item ELSE typed
  BY DEF NormalizeExtractedEntity, SelectInSeq
<1>2. Len(TypeNames) = 3 /\ DOMAIN TypeNames = 1..3 /\ TypeNames \in Seq(ToSet(TypeNames))
  <2> DEFINE a == <<"type">>
             b == <<"entity", "type">>
             c == <<"entity", "type", "name">>
  <2>1. TypeNames = <<a, b, c>>
    BY DEF TypeNames
  <2> HIDE DEF a, b, c
  <2>2. Len(<<a, b, c>>) = 3 /\ DOMAIN <<a, b, c>> = 1..3 /\ <<a, b, c>> \in Seq({a, b, c})
    OBVIOUS
  <2>3. {a, b, c} \subseteq ToSet(<<a, b, c>>)
    <3>1. <<a, b, c>>[1] = a /\ <<a, b, c>>[2] = b /\ <<a, b, c>>[3] = c /\ 1 \in 1..3 /\ 2 \in 1..3 /\ 3 \in 1..3
      OBVIOUS
    <3>2. QED
      BY <2>2, <3>1 DEF ToSet
  <2>4. <<a, b, c>> \in Seq(ToSet(<<a, b, c>>))
    BY <2>2, <2>3
  <2>5. QED
    BY <2>1, <2>2, <2>4
<1>i. \A i \in I : i \in 1..3
  BY <1>2
<1> HIDE DEF I
<1>3. saying \in 0..3
  <2>1. CASE I = {}
    BY <2>1
  <2>2. CASE I # {}
    <3>1. I \subseteq Nat
      BY <1>i
    <3>2. \E m \in I : \A j \in I : m =< j
      BY <2>2, <3>1, LeastOf
    <3>3. Min(I) \in I
      BY <3>2 DEF Min
    <3>4. QED
      BY <1>i, <2>2, <3>3
  <2>3. QED
    BY <2>1, <2>2
<1> HIDE DEF saying, id, got
<1>4. ToSet(taken) \subseteq ToSet(TypeNames)
  <2>1. \A m \in 1..3 : SubSeq(TypeNames, 1, m) \in Seq(ToSet(TypeNames))
    <3> SUFFICES ASSUME NEW m \in 1..3 PROVE SubSeq(TypeNames, 1, m) \in Seq(ToSet(TypeNames))
      OBVIOUS
    <3>1. 1 \in Int /\ m \in Int /\ \A i \in 1..m : i \in DOMAIN TypeNames
      BY <1>2
    <3>2. \A i \in 1..m : TypeNames[i] \in ToSet(TypeNames)
      BY <3>1 DEF ToSet
    <3>3. QED
      BY <3>1, <3>2, SubSeqProperties
  <2>2. taken \in Seq(ToSet(TypeNames))
    <3>1. saying # 0 => saying \in 1..3
      BY <1>3
    <3>2. 3 \in 1..3
      OBVIOUS
    <3>3. QED
      BY <1>2, <2>1, <3>1, <3>2
  <2> HIDE DEF taken
  <2>3. QED
    BY <2>2 DEF ToSet
<1> HIDE DEF taken
<1>5. CASE TypeId \in DOMAIN item
  <2>1. got = item
    BY <1>1, <1>5
  <2>2. QED
    BY <1>5, <2>1 DEF got
<1>6. CASE TypeId \notin DOMAIN item
  <2>1. got = typed
    BY <1>1, <1>6
  <2>2. IsDict(typed) /\ TypeId \in DOMAIN typed /\ DOMAIN typed \subseteq DOMAIN item \union {TypeId}
    BY DEF IsDict
  <2>3. \A k \in DOMAIN item \ ToSet(TypeNames) : k \in DOMAIN typed /\ typed[k] = item[k]
    BY <1>4, <1>6
  <2> HIDE DEF typed
  <2>4. QED
    BY <1>6, <2>1, <2>2, <2>3 DEF got
<1>7. QED
  BY <1>5, <1>6

LEMMA ModelDictIs ==
  ASSUME NEW item, IsDict(item), NEW model, FieldsApart(model), NEW ids
  PROVE  LET got == NormalizeModelDict(item, model, ids) IN
         /\ IsDict(got) /\ ItemIsMet(item, model, got)
         /\ NormalizeModelDict(got, model, ids) = got
<1> DEFINE fields == model.fields
           n == Len(fields)
           renamed == FoldLeft(TakeAlias, item, fields)
           typed == NormalizeExtractedEntity(renamed, ids)
           got == NormalizeModelDict(item, model, ids)
<1>1. AliasesApart(fields)
  BY DEF FieldsApart, AliasesApart
<1>2. IsDict(renamed) /\ Taken(renamed, item, fields, n)
  BY <1>1, TakenIs
<1>3. /\ \A f \in ToSet(fields) : /\ Settled(renamed, f)
                                  /\ Known(item, f) # {} => f \in DOMAIN renamed
      /\ \A j \in DOMAIN item : \E m \in DOMAIN renamed :
           renamed[m] = item[j] /\ (m = j \/ m \in ToSet(fields))
  <2>1. DOMAIN fields = 1..n
    BY <1>1 DEF AliasesApart, IsList
  <2> HIDE DEF renamed, n
  <2>2. QED
    BY <1>2, <2>1 DEF Taken, ToSet
<1>4. got = IF model.entity THEN typed ELSE renamed
  BY DEF NormalizeModelDict
<1> HIDE DEF renamed
<1>5. /\ IsDict(typed) /\ TypeId \in DOMAIN typed
      /\ TypeId \in DOMAIN renamed => typed = renamed
      /\ DOMAIN typed \subseteq DOMAIN renamed \union {TypeId}
      /\ \A k \in DOMAIN renamed \ ToSet(TypeNames) : k \in DOMAIN typed /\ typed[k] = renamed[k]
  BY <1>2, EntityIs
<1>6. \A x : IsDict(x) /\ (\A f \in ToSet(fields) : Settled(x, f)) => FoldLeft(TakeAlias, x, fields) = x
  BY <1>1, TakenIs
<1>7. CASE ~ model.entity
  <2>1. got = renamed
    BY <1>4, <1>7
  <2>2. ItemIsMet(item, model, renamed)
    BY <1>3, <1>7 DEF ItemIsMet, Known
  <2>3. FoldLeft(TakeAlias, renamed, fields) = renamed
    BY <1>2, <1>3, <1>6
  <2>4. NormalizeModelDict(renamed, model, ids) = renamed
    BY <1>7, <2>3 DEF NormalizeModelDict
  <2> HIDE DEF got
  <2>5. QED
    BY <1>2, <2>1, <2>2, <2>4 DEF got
<1>8. CASE model.entity
  <2>1. got = typed
    BY <1>4, <1>8
  <2> HIDE DEF typed
  <2>2. \A f \in ToSet(fields) : f \notin ToSet(TypeNames) /\ (TypeId \in ToSet(AliasCandidates(f)) => f = TypeId)
    BY <1>8 DEF FieldsApart
  <2>3. ItemIsMet(item, model, typed)
    <3>1. \A f \in ToSet(fields) : Known(item, f) # {} => f \in DOMAIN typed
      BY <1>3, <1>5, <2>2
    <3>2. \A k \in DOMAIN item \ ToSet(TypeNames) : \E m \in DOMAIN typed : typed[m] = item[k]
      BY <1>3, <1>5, <2>2
    <3>3. QED
      BY <1>5, <3>1, <3>2 DEF ItemIsMet, Known
  <2>4. \A f \in ToSet(fields) : Settled(typed, f)
    <3>1. ASSUME NEW f \in ToSet(fields)
          PROVE  Settled(typed, f)
      <4>1. Settled(renamed, f)
        BY <1>3
      <4>2. CASE f \in DOMAIN renamed
        BY <1>5, <2>2, <4>2 DEF Settled
      <4>3. CASE f \notin DOMAIN renamed
        BY <1>5, <2>2, <4>1, <4>3 DEF Settled
      <4>4. QED
        BY <4>2, <4>3
    <3>2. QED
      BY <3>1
  <2>5. FoldLeft(TakeAlias, typed, fields) = typed
    BY <1>5, <1>6, <2>4
  <2>6. NormalizeExtractedEntity(typed, ids) = typed
    BY <1>5, EntityIs
  <2>7. NormalizeModelDict(typed, model, ids) = typed
    BY <1>8, <2>5, <2>6 DEF NormalizeModelDict
  <2> HIDE DEF got
  <2>8. QED
    BY <1>5, <2>1, <2>3, <2>7 DEF got
<1>9. QED
  BY <1>7, <1>8

(* Each item in its place has what it needs.                               *)
ItemsAreMet(items, model, got) ==
  Len(got) = Len(items) /\ \A i \in DOMAIN got : ItemIsMet(items[i], model, got[i])

LEMMA FieldValueIs ==
  ASSUME NEW v, IsJsonValue(v), NEW model, FieldsApart(model), NEW ids
  PROVE  LET got == NormalizeFieldValue(v, model, ids) IN
         /\ got.kind = v.kind
         /\ v.kind = "list" => ItemsAreMet(v.items, model, got.items)
         /\ NormalizeFieldValue(got, model, ids) = got
<1> DEFINE got == NormalizeFieldValue(v, model, ids)
           items == [i \in DOMAIN v.items |-> NormalizeModelDict(v.items[i], model, ids)]
<1>1. CASE v.kind # "list"
  <2>1. got = v
    BY <1>1 DEF NormalizeFieldValue
  <2>2. QED
    BY <1>1, <2>1
<1>2. CASE v.kind = "list"
  <2>1. v = [kind |-> v.kind, items |-> v.items]
    BY DEF IsJsonValue
  <2>2. got = [kind |-> "list", items |-> items]
    BY <1>2, <2>1 DEF NormalizeFieldValue
  <2>3. \A i \in DOMAIN v.items : LET x == NormalizeModelDict(v.items[i], model, ids) IN
          ItemIsMet(v.items[i], model, x) /\ NormalizeModelDict(x, model, ids) = x
    <3>1. \A i \in DOMAIN v.items : IsDict(v.items[i])
      BY DEF IsJsonValue, ToSet
    <3>2. QED
      BY <3>1, ModelDictIs
  <2>4. Len(v.items) \in Nat /\ DOMAIN v.items = 1..Len(v.items)
    BY DEF IsJsonValue, IsList
  <2>5. Len(items) = Len(v.items)
    BY <2>4
  <2>6. DOMAIN items = DOMAIN v.items
    OBVIOUS
  <2>7. ItemsAreMet(v.items, model, items)
    <3>1. \A i \in DOMAIN items : ItemIsMet(v.items[i], model, items[i])
      BY <2>3
    <3> HIDE DEF items
    <3>2. QED
      BY <2>5, <3>1 DEF ItemsAreMet
  <2>8. [i \in DOMAIN items |-> NormalizeModelDict(items[i], model, ids)] = items
    BY <2>3
  <2> DEFINE r == [kind |-> "list", items |-> items]
  <2> HIDE DEF items, got
  <2>9. NormalizeFieldValue(r, model, ids) = r
    <3>1. r.kind = "list" /\ r.items = items
      OBVIOUS
    <3>2. NormalizeFieldValue(r, model, ids) =
            [r EXCEPT !.items = [i \in DOMAIN items |-> NormalizeModelDict(items[i], model, ids)]]
      BY <3>1 DEF NormalizeFieldValue
    <3>3. QED
      BY <2>8, <3>2
  <2>10. r.kind = v.kind /\ r.items = items
    BY <1>2
  <2> HIDE DEF r
  <2>11. got.kind = v.kind /\ ItemsAreMet(v.items, model, got.items) /\ NormalizeFieldValue(got, model, ids) = got
    BY <2>2, <2>7, <2>9, <2>10 DEF r
  <2>12. QED
    BY <2>11 DEF got
<1>3. QED
  BY <1>1, <1>2

LEMMA ListNamesAre ==
  ASSUME NEW field
  PROVE  \E S : ListCandidates(field) \in Seq(S)
<1> DEFINE own == IF field[1] = "extracted" THEN <<Tail(field), Spelled("camel", Tail(field))>> ELSE <<>>
<1>1. \A a, b, c, d, e, f : /\ <<a, b>> \in Seq({a, b}) /\ <<>> \in Seq({a, b})
                            /\ <<a, b, c>> \in Seq({a, b, c})
                            /\ <<a, b, c, d, e, f>> \in Seq({a, b, c, d, e, f})
  OBVIOUS
<1>2. PICK T : Spellings(field) \in Seq(T)
  <2>1. Spellings(field) \in Seq({field, Spelled("flat", field), Spelled("camel", field)})
    BY <1>1 DEF Spellings
  <2>2. QED
    BY <2>1
<1>3. PICK U : own \in Seq(U)
  <2>1. own \in Seq({Tail(field), Spelled("camel", Tail(field))})
    BY <1>1
  <2>2. QED
    BY <2>1
<1>4. PICK W : CommonLists \in Seq(W)
  <2>1. CommonLists \in Seq({<<"items">>, <<"results">>, <<"data">>, <<"entities">>, <<"edges">>, <<"summaries">>})
    BY <1>1 DEF CommonLists
  <2>2. QED
    BY <2>1
<1>5. ListCandidates(field) = Spellings(field) \o own \o CommonLists
  BY DEF ListCandidates
<1> HIDE DEF own
<1> DEFINE S == T \union U \union W
<1>6. Spellings(field) \in Seq(S) /\ own \in Seq(S) /\ CommonLists \in Seq(S)
  BY <1>2, <1>3, <1>4
<1> HIDE DEF S
<1>7. \A p, q, r \in Seq(S) : (p \o q) \o r \in Seq(S)
  OBVIOUS
<1>8. QED
  BY <1>5, <1>6, <1>7

Only(v, field, model, ids) ==
  [kind |-> "dict", values |-> [k \in {field} |-> NormalizeFieldValue(v, model, ids)]]

OnlyList(values, field, k) ==
  /\ values[k].kind = "list"
  /\ \A j \in DOMAIN values \ {k} : values[j].kind = "null"
  /\ field \in DOMAIN values => k = field

MeetsItems(shaped, field, model, items) ==
  field \in DOMAIN shaped.values /\ ItemsAreMet(items, model, shaped.values[field].items)

LEMMA ShapeIs ==
  ASSUME NEW payload, NEW field, NEW model, NEW ids, NEW shaped,
         NormalizePayloadShape(shaped, field, model, ids) = shaped,
         payload.kind = "list" => MeetsItems(shaped, field, model, payload.items),
         payload.kind = "dict" =>
           \A k \in DOMAIN payload.values : OnlyList(payload.values, field, k) =>
             MeetsItems(shaped, field, model, payload.values[k].items)
  PROVE  ShapeIsMet(payload, field, model, ids, shaped)
BY DEF ShapeIsMet, MeetsItems, ItemsAreMet, OnlyList

(* A payload with the field alone has its shape and keeps it.              *)
LEMMA OnlyIs ==
  ASSUME NEW v, IsJsonValue(v), NEW field, NEW model, FieldsApart(model), NEW ids
  PROVE  /\ NormalizePayloadShape(Only(v, field, model, ids), field, model, ids) = Only(v, field, model, ids)
         /\ v.kind = "list" => MeetsItems(Only(v, field, model, ids), field, model, v.items)
<1> DEFINE got == NormalizeFieldValue(v, model, ids)
           values == [k \in {field} |-> got]
           r == [kind |-> "dict", values |-> values]
<1>1. /\ v.kind = "list" => ItemsAreMet(v.items, model, got.items)
      /\ NormalizeFieldValue(got, model, ids) = got
  BY FieldValueIs
<1> HIDE DEF got
<1>2. r.kind = "dict" /\ r.values = values /\ DOMAIN values = {field} /\ values[field] = got
  OBVIOUS
<1>3. NormalizePayloadShape(r, field, model, ids) =
        [r EXCEPT !.values[field] = NormalizeFieldValue(@, model, ids)]
  <2> HIDE DEF r, values
  <2>1. QED
    BY <1>2 DEF NormalizePayloadShape
<1>4. [r EXCEPT !.values[field] = NormalizeFieldValue(@, model, ids)] = r
  BY <1>1, <1>2
<1>5. Only(v, field, model, ids) = r
  BY DEF Only, got
<1> HIDE DEF r, values
<1>6. v.kind = "list" => MeetsItems(r, field, model, v.items)
  BY <1>1, <1>2 DEF MeetsItems
<1>7. QED
  BY <1>3, <1>4, <1>5, <1>6

LEMMA ShapeFound ==
  ASSUME NEW payload, NEW field, NEW model, FieldsApart(model), NEW ids,
         payload.kind = "list" => IsJsonValue(payload),
         payload.kind = "dict" => IsJsonObject(payload)
  PROVE  ShapeIsMet(payload, field, model, ids, NormalizePayloadShape(payload, field, model, ids))
<1> DEFINE shaped == NormalizePayloadShape(payload, field, model, ids)
           values == payload.values
           given == Those(ListCandidates(field), {c \in DOMAIN values : values[c].kind # "null"})
           lists == {k \in DOMAIN values : values[k].kind = "list"}
           one == CHOOSE k \in lists : TRUE
<1>1. CASE payload.kind = "list"
  <2>1. shaped = Only(payload, field, model, ids)
    BY <1>1 DEF NormalizePayloadShape, Only
  <2>2. /\ NormalizePayloadShape(shaped, field, model, ids) = shaped
        /\ MeetsItems(shaped, field, model, payload.items)
    BY <1>1, <2>1, OnlyIs
  <2> HIDE DEF shaped
  <2>3. ShapeIsMet(payload, field, model, ids, shaped)
    BY <1>1, <2>2, ShapeIs
  <2>4. QED
    BY <2>3 DEF shaped
<1>2. CASE payload.kind = "dict" /\ field \in DOMAIN values
  <2> DEFINE v == values[field]
             got == NormalizeFieldValue(v, model, ids)
             r == [payload EXCEPT !.values[field] = got]
  <2>1. /\ payload = [kind |-> "dict", values |-> values] /\ IsDict(values)
        /\ IsJsonValue(v)
    BY <1>2 DEF IsJsonObject
  <2>2. shaped = r
    BY <1>2 DEF NormalizePayloadShape
  <2>3. /\ v.kind = "list" => ItemsAreMet(v.items, model, got.items)
        /\ NormalizeFieldValue(got, model, ids) = got
    BY <2>1, FieldValueIs
  <2> HIDE DEF got
  <2>4. /\ r = [kind |-> "dict", values |-> [values EXCEPT ![field] = got]]
        /\ DOMAIN r.values = DOMAIN values /\ r.values[field] = got /\ r.kind = "dict"
    BY <1>2, <2>1 DEF IsDict
  <2>5. NormalizePayloadShape(r, field, model, ids) = r
    <3>1. NormalizePayloadShape(r, field, model, ids) =
            [r EXCEPT !.values[field] = NormalizeFieldValue(@, model, ids)]
      <4> HIDE DEF r
      <4>1. QED
        BY <1>2, <2>4 DEF NormalizePayloadShape
    <3>2. [r EXCEPT !.values[field] = NormalizeFieldValue(@, model, ids)] = r
      <4> DEFINE w == [values EXCEPT ![field] = got]
      <4>1. r = [kind |-> "dict", values |-> w] /\ w[field] = got /\ [w EXCEPT ![field] = got] = w
        BY <1>2, <2>1, <2>4 DEF IsDict
      <4> HIDE DEF r, w
      <4>2. QED
        BY <2>3, <4>1
    <3>3. QED
      BY <3>1, <3>2
  <2>6. \A k \in DOMAIN values : OnlyList(values, field, k) =>
          MeetsItems(r, field, model, values[k].items)
    <3> HIDE DEF r
    <3>1. QED
      BY <1>2, <2>3, <2>4 DEF OnlyList, MeetsItems
  <2> HIDE DEF r, shaped
  <2>7. ShapeIsMet(payload, field, model, ids, r)
    BY <1>2, <2>5, <2>6, ShapeIs
  <2>8. QED
    BY <2>2, <2>7 DEF shaped
<1>g. given # <<>> => given[1] \in DOMAIN values /\ values[given[1]].kind # "null"
  <2> DEFINE heard == {c \in DOMAIN values : values[c].kind # "null"}
  <2>1. PICK S : ListCandidates(field) \in Seq(S)
    BY ListNamesAre
  <2>2. Those(ListCandidates(field), heard) # <<>> =>
          Those(ListCandidates(field), heard)[1] \in ToSet(ListCandidates(field)) \intersect heard
    BY <2>1, ThoseAre
  <2>3. QED
    BY <2>2
<1>3. CASE payload.kind = "dict" /\ field \notin DOMAIN values /\ given # <<>>
  <2> DEFINE v == values[given[1]]
  <2>1. shaped = Only(v, field, model, ids)
    <3>1. payload.kind # "list"
      BY <1>3
    <3>2. QED
      BY <1>3, <3>1 DEF NormalizePayloadShape, Only
  <2> HIDE DEF given
  <2>2. IsJsonValue(v)
    BY <1>3, <1>g DEF IsJsonObject
  <2>3. \A k \in DOMAIN values : OnlyList(values, field, k) => v = values[k] /\ v.kind = "list"
    BY <1>3, <1>g DEF OnlyList
  <2>4. /\ NormalizePayloadShape(shaped, field, model, ids) = shaped
        /\ v.kind = "list" => MeetsItems(shaped, field, model, v.items)
    BY <2>1, <2>2, OnlyIs
  <2> HIDE DEF shaped, v
  <2>5. \A k \in DOMAIN values : OnlyList(values, field, k) =>
          MeetsItems(shaped, field, model, values[k].items)
    BY <2>3, <2>4
  <2>6. ShapeIsMet(payload, field, model, ids, shaped)
    BY <1>3, <2>4, <2>5, ShapeIs
  <2>7. QED
    BY <2>6 DEF shaped
<1>4. CASE /\ payload.kind = "dict" /\ field \notin DOMAIN values /\ given = <<>>
           /\ \E k \in lists : lists = {k}
  <2> DEFINE v == values[one]
  <2>1. shaped = Only(v, field, model, ids)
    <3>1. payload.kind # "list"
      BY <1>4
    <3>2. QED
      BY <1>4, <3>1 DEF NormalizePayloadShape, Only
  <2>2. one \in DOMAIN values /\ \A k \in lists : k = one
    BY <1>4
  <2> HIDE DEF one
  <2>3. IsJsonValue(v)
    BY <1>4, <2>2 DEF IsJsonObject
  <2>4. \A k \in DOMAIN values : OnlyList(values, field, k) => v = values[k] /\ v.kind = "list"
    BY <2>2 DEF OnlyList
  <2>5. /\ NormalizePayloadShape(shaped, field, model, ids) = shaped
        /\ v.kind = "list" => MeetsItems(shaped, field, model, v.items)
    BY <2>1, <2>3, OnlyIs
  <2> HIDE DEF shaped, v
  <2>6. \A k \in DOMAIN values : OnlyList(values, field, k) =>
          MeetsItems(shaped, field, model, values[k].items)
    BY <2>4, <2>5
  <2>7. ShapeIsMet(payload, field, model, ids, shaped)
    BY <1>4, <2>5, <2>6, ShapeIs
  <2>8. QED
    BY <2>7 DEF shaped
<1>5. CASE /\ payload.kind = "dict" /\ field \notin DOMAIN values /\ given = <<>>
           /\ ~ \E k \in lists : lists = {k}
  <2>1. shaped = payload
    BY <1>5 DEF NormalizePayloadShape
  <2>3. payload.kind = "dict" => \A k \in DOMAIN values : ~ OnlyList(values, field, k)
    <3> SUFFICES ASSUME payload.kind = "dict", NEW k \in DOMAIN values, OnlyList(values, field, k)
                 PROVE  FALSE
      OBVIOUS
    <3>1. k \in lists /\ \A j \in lists : j = k
      BY DEF OnlyList
    <3>2. lists = {k}
      BY <3>1
    <3>3. QED
      BY <1>5, <3>1, <3>2
  <2> HIDE DEF shaped
  <2>4. NormalizePayloadShape(payload, field, model, ids) = payload
    BY <2>1 DEF shaped
  <2>5. ShapeIsMet(payload, field, model, ids, payload)
    BY <1>5, <2>3, <2>4, ShapeIs
  <2>6. QED
    BY <2>4, <2>5
<1>6. CASE payload.kind \notin {"list", "dict"}
  <2> DEFINE raised == [kind |-> "raised"]
  <2>1. /\ NormalizePayloadShape(payload, field, model, ids) = raised
        /\ NormalizePayloadShape(raised, field, model, ids) = raised
    BY <1>6 DEF NormalizePayloadShape
  <2> HIDE DEF raised
  <2>2. ShapeIsMet(payload, field, model, ids, raised)
    BY <1>6, <2>1, ShapeIs
  <2>3. QED
    BY <2>1, <2>2
<1>7. QED
  BY <1>1, <1>2, <1>3, <1>4, <1>5, <1>6

-----------------------------------------------------------------------------
Compiled == CompileOntology(call.definitions)
Shaped == NormalizePayloadShape(call.payload, call.field, call.model, call.ids)
MadeSafe == MakeFalkorValueSafe(call.value)

LEMMA CompileSteps ==
  ASSUME [Next]_<<call, answer>>
  PROVE  /\ call' = call
         /\ call.op = "ontology" => answer' = answer \/ answer' = <<Compiled>>
         /\ call.op = "shape" => answer' = answer \/ answer' = <<Shaped>>
         /\ call.op = "attribute" => answer' = answer \/ answer' = <<MadeSafe>>
BY DEF Next, Traverse, Cut, Evidence, Compile, Read, Extract, Evolve, Remember, Answer,
       Compiled, Shaped, MadeSafe

(* compile_ontology, _normalize_payload_shape and _make_falkor_value_safe, *)
(* for any ontology, any answer of an LLM and any attribute: no type and   *)
(* no field is lost or takes a name that is reserved, every item has the   *)
(* fields it had under any name, and what is stored can be stored.         *)
THEOREM SchemasAreMet == Spec => []SchemaIsMet
<1> DEFINE IInv == call \in Calls /\ SchemaIsMet
<1>1. Init => IInv
  BY DEF Init, SchemaIsMet, Answered
<1>2. IInv /\ [Next]_<<call, answer>> => IInv'
  <2> SUFFICES ASSUME call \in Calls, SchemaIsMet, [Next]_<<call, answer>>
               PROVE  IInv'
    OBVIOUS
  <2>0. call' = call
    BY CompileSteps
  <2>1. CASE call.op = "ontology"
    <3>1. answer' = answer \/ answer' = <<Compiled>>
      BY <2>1, CompileSteps
    <3>2. OntologyIsKept(call.definitions, Compiled)
      <4>1. IsList(call.definitions) /\ \A d \in ToSet(call.definitions) :
              IsList(d.attributes) /\ \A a \in ToSet(d.attributes) : IsList(a.name)
        BY <2>1, CallsAreSound
      <4>2. QED
        BY <4>1, OntologyFound DEF Compiled
    <3>3. <<Compiled>>[1] = Compiled
      OBVIOUS
    <3> HIDE DEF Compiled
    <3>4. QED
      BY <2>0, <2>1, <3>1, <3>2, <3>3 DEF SchemaIsMet, Answered
  <2>2. CASE call.op = "shape"
    <3>1. answer' = answer \/ answer' = <<Shaped>>
      BY <2>2, CompileSteps
    <3>2. ShapeIsMet(call.payload, call.field, call.model, call.ids, Shaped)
      <4>1. /\ FieldsApart(call.model)
            /\ call.payload.kind = "list" => IsJsonValue(call.payload)
            /\ call.payload.kind = "dict" => IsJsonObject(call.payload)
        BY <2>2, CallsAreSound
      <4>2. QED
        BY <4>1, ShapeFound DEF Shaped
    <3>3. <<Shaped>>[1] = Shaped
      OBVIOUS
    <3> HIDE DEF Shaped
    <3>4. QED
      BY <2>0, <2>2, <3>1, <3>2, <3>3 DEF SchemaIsMet, Answered
  <2>3. CASE call.op = "attribute"
    <3>1. answer' = answer \/ answer' = <<MadeSafe>>
      BY <2>3, CompileSteps
    <3>2. AttributeIsMet(MadeSafe)
      <4>1. call.value.kind = "plain" => call.value.flat
        BY <2>3, CallsAreSound
      <4>2. QED
        BY <4>1, AttributeFound DEF MadeSafe
    <3>3. <<MadeSafe>>[1] = MadeSafe
      OBVIOUS
    <3> HIDE DEF MadeSafe
    <3>4. QED
      BY <2>0, <2>3, <3>1, <3>2, <3>3 DEF SchemaIsMet, Answered
  <2>4. CASE call.op \notin {"ontology", "shape", "attribute"}
    BY <2>0, <2>4 DEF SchemaIsMet, Answered
  <2>5. QED
    BY <2>1, <2>2, <2>3, <2>4
<1>3. IInv => SchemaIsMet
  OBVIOUS
<1>4. QED
  BY <1>1, <1>2, <1>3, PTL DEF Spec

=============================================================================
