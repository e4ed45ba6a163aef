----------------------------- MODULE TextProofs -----------------------------
(***************************************************************************)
(* Proofs about the texts of Conversions: documents cut into chunks, the   *)
(* evidence of an upload, the files and requests Thinker reads, for texts  *)
(* and lists of any length.  A text is what of it is not blank (Ink), and  *)
(* what a function makes of it is said of its ink.                         *)
(***************************************************************************)
EXTENDS ConversionsProofs

-----------------------------------------------------------------------------
(* A selection of two lists one after the other is that of the one and     *)
(* that of the other.                                                      *)
LEMMA ThosePrefix ==
  ASSUME NEW S, NEW set, NEW s \in Seq(S), NEW t \in Seq(S), NEW F, NEW G,
         ThoseRun(F, s \o t, set, S), ThoseRun(G, s, set, S)
  PROVE  F[Len(s)] = Those(s, set)
<1> DEFINE n == Len(s)
           T == {k \in Nat : k =< n => F[k] = G[k]}
<1>1. /\ n \in Nat /\ Len(t) \in Nat /\ Len(s \o t) = n + Len(t)
      /\ \A k \in 1..n : (s \o t)[k] = s[k]
  OBVIOUS
<1>2. /\ F[0] = <<>> /\ G[0] = <<>> /\ G[n] = Those(s, set)
      /\ \A k \in 1..n : F[k] = IF s[k] \in set THEN Append(F[k-1], s[k]) ELSE F[k-1]
      /\ \A k \in 1..n : G[k] = IF s[k] \in set THEN Append(G[k-1], s[k]) ELSE G[k-1]
  <2>1. \A k \in 1..n : k \in 1..n+Len(t)
    BY <1>1
  <2> HIDE DEF n
  <2>2. QED
    BY <1>1, <2>1 DEF ThoseRun, n
<1> HIDE DEF n
<1>3. 0 \in T
  BY <1>2
<1>4. ASSUME NEW k \in Nat, k \in T
      PROVE  k + 1 \in T
  <2> SUFFICES ASSUME k + 1 =< n PROVE F[k+1] = G[k+1]
    OBVIOUS
  <2>1. k + 1 \in 1..n /\ (k + 1) - 1 = k /\ k =< n
    BY <1>1
  <2>2. F[k] = G[k]
    BY <1>4, <2>1
  <2>3. QED
    BY <1>2, <2>1, <2>2
<1>5. n \in T
  <2> HIDE DEF T
  <2>1. QED
    BY <1>1, <1>3, <1>4, SetInduction
<1>6. QED
  BY <1>1, <1>2, <1>5 DEF n

LEMMA ThoseConcat ==
  ASSUME NEW S, NEW set, NEW s \in Seq(S), NEW t \in Seq(S)
  PROVE  Those(s \o t, set) = Those(s, set) \o Those(t, set)
<1> DEFINE n == Len(s)
           m == Len(t)
           st == s \o t
           head == Those(s, set)
<1>1. /\ n \in Nat /\ m \in Nat /\ Len(st) = n + m /\ st \in Seq(S)
      /\ \A k \in 1..m : st[n + k] = t[k] /\ t[k] \in S
  OBVIOUS
<1>2. PICK F : ThoseRun(F, st, set, S)
  BY <1>1, ThoseSteps
<1>3. PICK G : ThoseRun(G, s, set, S)
  BY ThoseSteps
<1>4. PICK H : ThoseRun(H, t, set, S)
  BY ThoseSteps
<1>5. F[n] = head
  BY <1>2, <1>3, ThosePrefix
<1> HIDE DEF st
<1>6. /\ F[n + m] = Those(st, set)
      /\ \A k \in 1..n+m : F[k] = IF st[k] \in set THEN Append(F[k-1], st[k]) ELSE F[k-1]
  BY <1>1, <1>2 DEF ThoseRun
<1>7. /\ H \in [0..m -> Seq(S)] /\ H[0] = <<>> /\ H[m] = Those(t, set)
      /\ \A k \in 1..m : H[k] = IF t[k] \in set THEN Append(H[k-1], t[k]) ELSE H[k-1]
  BY <1>4 DEF ThoseRun
<1>8. head \in Seq(S)
  BY ThoseAre
<1> HIDE DEF n, m, head
<1>9. \A u \in Seq(S), x \in S : head \o Append(u, x) = Append(head \o u, x)
  BY <1>8
<1> DEFINE T == {k \in Nat : k =< m => F[n + k] = head \o H[k]}
<1>10. 0 \in T
  <2>1. n + 0 = n /\ 0 \in Nat
    BY <1>1
  <2>2. head \o <<>> = head
    BY <1>8
  <2>3. F[n + 0] = head \o H[0]
    BY <1>5, <1>7, <2>1, <2>2
  <2>4. QED
    BY <2>1, <2>3
<1>11. ASSUME NEW k \in Nat, k \in T
       PROVE  k + 1 \in T
  <2> SUFFICES ASSUME k + 1 =< m PROVE F[n + (k + 1)] = head \o H[k+1]
    OBVIOUS
  <2>1. /\ k + 1 \in 1..m /\ (k + 1) - 1 = k /\ k =< m /\ k \in 0..m
        /\ n + (k + 1) \in 1..n+m /\ (n + (k + 1)) - 1 = n + k
    BY <1>1
  <2>2. F[n + k] = head \o H[k] /\ H[k] \in Seq(S) /\ st[n + (k + 1)] = t[k+1] /\ t[k+1] \in S
    BY <1>1, <1>7, <1>11, <2>1
  <2>3. F[n + (k + 1)] = IF t[k+1] \in set THEN Append(head \o H[k], t[k+1]) ELSE head \o H[k]
    BY <1>6, <2>1, <2>2
  <2>4. H[k+1] = IF t[k+1] \in set THEN Append(H[k], t[k+1]) ELSE H[k]
    BY <1>7, <2>1
  <2>5. QED
    BY <1>9, <2>2, <2>3, <2>4
<1>12. m \in T
  <2> HIDE DEF T
  <2>1. QED
    BY <1>1, <1>10, <1>11, SetInduction
<1>13. m =< m
  BY <1>1
<1>14. F[n + m] = head \o H[m]
  BY <1>12, <1>13
<1>15. QED
  BY <1>6, <1>7, <1>14 DEF head, st

LEMMA ThoseSame ==
  ASSUME NEW S, NEW A, NEW B, NEW s \in Seq(S), ToSet(s) \intersect A = ToSet(s) \intersect B
  PROVE  Those(s, A) = Those(s, B)
<1> DEFINE n == Len(s)
<1>1. PICK F : ThoseRun(F, s, A, S)
  BY ThoseSteps
<1>2. PICK G : ThoseRun(G, s, B, S)
  BY ThoseSteps
<1>3. n \in Nat /\ \A k \in 1..n : s[k] \in A <=> s[k] \in B
  BY DEF ToSet
<1>4. /\ F[0] = <<>> /\ F[n] = Those(s, A)
      /\ \A k \in 1..n : F[k] = IF s[k] \in A THEN Append(F[k-1], s[k]) ELSE F[k-1]
  BY <1>1 DEF ThoseRun
<1>5. /\ G[0] = <<>> /\ G[n] = Those(s, B)
      /\ \A k \in 1..n : G[k] = IF s[k] \in B THEN Append(G[k-1], s[k]) ELSE G[k-1]
  BY <1>2 DEF ThoseRun
<1> HIDE DEF n
<1> DEFINE T == {k \in Nat : k =< n => F[k] = G[k]}
<1>6. 0 \in T
  BY <1>4, <1>5
<1>7. ASSUME NEW k \in Nat, k \in T
      PROVE  k + 1 \in T
  <2> SUFFICES ASSUME k + 1 =< n PROVE F[k+1] = G[k+1]
    OBVIOUS
  <2>1. k + 1 \in 1..n /\ (k + 1) - 1 = k /\ k =< n
    BY <1>3
  <2>2. F[k] = G[k]
    BY <1>7, <2>1
  <2>3. QED
    BY <1>3, <1>4, <1>5, <2>1, <2>2
<1>8. n \in T
  <2> HIDE DEF T
  <2>1. QED
    BY <1>3, <1>6, <1>7, SetInduction
<1>9. QED
  BY <1>3, <1>4, <1>5, <1>8

LEMMA ToSetConcat ==
  ASSUME NEW S, NEW s \in Seq(S), NEW t \in Seq(S)
  PROVE  ToSet(s \o t) = ToSet(s) \union ToSet(t)
<1> DEFINE n == Len(s)
           m == Len(t)
           st == s \o t
<1>1. /\ n \in Nat /\ m \in Nat /\ DOMAIN s = 1..n /\ DOMAIN t = 1..m /\ DOMAIN st = 1..n+m
      /\ \A k \in 1..n : st[k] = s[k]
      /\ \A k \in 1..m : st[n + k] = t[k]
  OBVIOUS
<1> HIDE DEF n, m, st
<1>2. \A k \in 1..n+m : k \in 1..n \/ (k - n \in 1..m /\ n + (k - n) = k)
  BY <1>1
<1>3. (\A k \in 1..n : k \in 1..n+m) /\ (\A k \in 1..m : n + k \in 1..n+m)
  BY <1>1
<1>4. ToSet(st) \subseteq ToSet(s) \union ToSet(t)
  <2>1. ASSUME NEW k \in 1..n+m
        PROVE  st[k] \in {s[i] : i \in 1..n} \union {t[i] : i \in 1..m}
    <3>1. CASE k \in 1..n
      BY <1>1, <3>1
    <3>2. CASE k \notin 1..n
      <4>1. k - n \in 1..m /\ st[k] = t[k - n]
        BY <1>1, <1>2, <3>2
      <4>2. QED
        BY <4>1
    <3>3. QED
      BY <3>1, <3>2
  <2>2. QED
    BY <1>1, <2>1 DEF ToSet
<1>5. ToSet(s) \subseteq ToSet(st)
  <2>1. \A k \in 1..n : s[k] \in ToSet(st)
    BY <1>1, <1>3 DEF ToSet
  <2>2. QED
    BY <1>1, <2>1 DEF ToSet
<1>6. ToSet(t) \subseteq ToSet(st)
  <2>1. \A k \in 1..m : t[k] \in ToSet(st)
    BY <1>1, <1>3 DEF ToSet
  <2>2. QED
    BY <1>1, <2>1 DEF ToSet
<1>7. QED
  BY <1>4, <1>5, <1>6 DEF st

-----------------------------------------------------------------------------
LEMMA LeastIs ==
  ASSUME NEW T, T \subseteq Nat, T # {}
  PROVE  Min(T) \in T /\ \A k \in T : Min(T) =< k
BY LeastOf DEF Min

LEMMA GreatestIs ==
  ASSUME NEW T, T \subseteq Nat, T # {}, NEW n \in Nat, \A k \in T : k =< n
  PROVE  Max(T) \in T /\ \A k \in T : k =< Max(T)
<1> DEFINE U == {n - j : j \in T}
<1>1. U \subseteq Nat /\ U # {}
  <2>1. \A j \in T : n - j \in Nat
    <3>1. \A j \in Nat : j =< n => n - j \in Nat
      OBVIOUS
    <3>2. QED
      BY <3>1
  <2>2. U \subseteq Nat
    BY <2>1
  <2>3. U # {}
    OBVIOUS
  <2>4. QED
    BY <2>2, <2>3
<1>2. PICK u \in U : \A v \in U : u =< v
  BY <1>1, LeastOf
<1>3. PICK k \in T : u = n - k
  BY <1>2
<1>4. \A j \in T : n - k =< n - j
  BY <1>2, <1>3
<1>5. \A j \in T : j =< k
  BY <1>4
<1>6. Max(T) = k
  BY <1>5, MaxIs
<1>7. QED
  BY <1>5, <1>6

LEMMA MaxOfTwo ==
  ASSUME NEW a \in Int, NEW b \in Int
  PROVE  Max({a, b}) = IF a >= b THEN a ELSE b
<1> DEFINE T == {a, b}
           c == IF a >= b THEN a ELSE b
           m == CHOOSE x \in T : \A y \in T : x >= y
<1>1. c \in T /\ c \in Int /\ \A y \in T : c >= y
  OBVIOUS
<1>2. m \in T /\ \A y \in T : m >= y
  BY <1>1
<1>3. m \in Int /\ m >= c /\ c >= m
  <2> HIDE DEF m, c
  <2>1. m \in Int
    BY <1>2
  <2>2. QED
    BY <1>1, <1>2, <2>1
<1>4. m = c
  <2> HIDE DEF m, c
  <2>1. QED
    BY <1>1, <1>3
<1>5. Max(T) = m
  BY DEF Max
<1>6. QED
  BY <1>4, <1>5

LEMMA SliceIs ==
  ASSUME NEW S, NEW text \in Seq(S), NEW from \in Nat, NEW to \in Nat, from =< to, to =< Len(text)
  PROVE  /\ Slice(text, from, to) \in Seq(S) /\ Len(Slice(text, from, to)) = to - from
         /\ \A i \in 1..to-from : Slice(text, from, to)[i] = text[from + i]
<1>1. \A i \in from+1..to : text[i] \in S
  BY ElementOfSeq
<1>2. from + 1 \in Int /\ to \in Int /\ to - (from + 1) + 1 = to - from
  OBVIOUS
<1>3. /\ SubSeq(text, from + 1, to) \in Seq(S)
      /\ Len(SubSeq(text, from + 1, to)) = IF from + 1 =< to THEN to - (from + 1) + 1 ELSE 0
      /\ \A i \in 1..to-(from+1)+1 : SubSeq(text, from + 1, to)[i] = text[(from + 1) + i - 1]
  BY <1>1, <1>2, SubSeqProperties
<1>4. \A i \in 1..to-from : (from + 1) + i - 1 = from + i
  OBVIOUS
<1>5. (IF from + 1 =< to THEN to - (from + 1) + 1 ELSE 0) = to - from
  OBVIOUS
<1>6. QED
  BY <1>2, <1>3, <1>4, <1>5 DEF Slice

IsSliceOf(r, text, from, to, S) ==
  /\ r \in Seq(S) /\ Len(r) = to - from
  /\ \A i \in 1..to-from : r[i] = text[from + i]

LEMMA SliceFound ==
  ASSUME NEW S, NEW text \in Seq(S), NEW from \in Nat, NEW to \in Nat, from =< to, to =< Len(text)
  PROVE  IsSliceOf(Slice(text, from, to), text, from, to, S)
  BY SliceIs DEF IsSliceOf

(* Where there is something to read.                                       *)
InkIn(text, from, to) == {i \in from..to-1 : text[i+1] \notin Blank}

LEMMA StrippedIs ==
  ASSUME NEW text, NEW from \in Nat, NEW to \in Nat
  PROVE  LET s == Stripped(text, from, to)
             ink == InkIn(text, from, to)
         IN  /\ s = [from |-> s.from, to |-> s.to]
             /\ ink = {} => s.from = from /\ s.to = from
             /\ ink # {} => /\ s.from \in ink /\ s.to - 1 \in ink /\ s.to \in Nat /\ s.from < s.to
                            /\ \A i \in ink : s.from =< i /\ i < s.to
<1> DEFINE ink == InkIn(text, from, to)
           s == Stripped(text, from, to)
<1>1. ink \subseteq Nat /\ \A i \in ink : i =< to
  BY DEF InkIn
<1>2. s = IF ink = {} THEN [from |-> from, to |-> from] ELSE [from |-> Min(ink), to |-> Max(ink) + 1]
  BY DEF Stripped, InkIn
<1> HIDE DEF ink, s
<1>3. CASE ink = {}
  BY <1>2, <1>3 DEF ink, s
<1>4. CASE ink # {}
  <2>1. Min(ink) \in ink /\ \A k \in ink : Min(ink) =< k
    BY <1>1, <1>4, LeastIs
  <2>2. Max(ink) \in ink /\ \A k \in ink : k =< Max(ink)
    BY <1>1, <1>4, GreatestIs
  <2>3. s = [from |-> Min(ink), to |-> Max(ink) + 1]
    BY <1>2, <1>4
  <2>4. s.from = Min(ink) /\ s.to = Max(ink) + 1
    BY <2>3
  <2>5. Min(ink) \in Nat /\ Max(ink) \in Nat /\ Min(ink) =< Max(ink)
    BY <1>1, <2>1, <2>2
  <2>6. /\ s.to - 1 = Max(ink) /\ s.to \in Nat /\ s.from < s.to
    BY <2>4, <2>5
  <2>7. \A i \in ink : s.from =< i /\ i < s.to
    <3>1. \A i \in ink : i \in Nat
      BY <1>1
    <3>2. QED
      BY <2>1, <2>2, <2>4, <2>5, <3>1
  <2>8. QED
    BY <1>4, <2>1, <2>2, <2>3, <2>4, <2>6, <2>7 DEF s, ink
<1>5. QED
  BY <1>3, <1>4

(* The text between a beginning and an end that are blank.                 *)
Within(text, s, f, e) ==
  /\ f \in Nat /\ e \in Nat /\ f =< e /\ e =< Len(text) /\ s = Slice(text, f, e)
  /\ \A i \in 1..Len(text) : ~ (f < i /\ i =< e) => text[i] \in Blank
  /\ f < e => text[f+1] \notin Blank /\ text[e] \notin Blank

LEMMA StripWithin ==
  ASSUME NEW text, IsList(text)
  PROVE  \E f, e : Within(text, Strip(text), f, e)
<1> DEFINE n == Len(text)
           s == Stripped(text, 0, n)
           ink == InkIn(text, 0, n)
<1>1. n \in Nat /\ DOMAIN text = 1..n
  BY DEF IsList
<1>2. /\ ink = {} => s.from = 0 /\ s.to = 0
      /\ ink # {} => /\ s.from \in ink /\ s.to - 1 \in ink /\ s.to \in Nat /\ s.from < s.to
                     /\ \A i \in ink : s.from =< i /\ i < s.to
  BY <1>1, StrippedIs
<1>3. Strip(text) = Slice(text, s.from, s.to)
  BY DEF Strip
<1>4. \A i : i \in ink <=> i \in 0..n-1 /\ text[i+1] \notin Blank
  BY DEF InkIn
<1>5. \A i \in 1..n : text[i] \notin Blank => i - 1 \in ink
  <2>1. \A i \in 1..n : i - 1 \in 0..n-1 /\ (i - 1) + 1 = i
    BY <1>1
  <2>2. QED
    BY <1>4, <2>1
<1> DEFINE f == s.from
           e == s.to
<1> HIDE DEF f, e, s, ink, n
<1>6. CASE ink = {}
  <2>1. f = 0 /\ e = 0 /\ Strip(text) = Slice(text, f, e)
    BY <1>2, <1>3, <1>6 DEF f, e
  <2>2. \A i \in 1..n : text[i] \in Blank
    BY <1>5, <1>6
  <2>3. Within(text, Strip(text), f, e)
    BY <1>1, <2>1, <2>2 DEF Within, n
  <2>4. QED
    BY <2>3
<1>7. CASE ink # {}
  <2>1. /\ f \in ink /\ e - 1 \in ink /\ e \in Nat /\ f < e /\ \A i \in ink : f =< i /\ i < e
        /\ Strip(text) = Slice(text, f, e)
    BY <1>2, <1>3, <1>7 DEF f, e
  <2>2. f \in 0..n-1 /\ e - 1 \in 0..n-1 /\ text[f+1] \notin Blank /\ text[(e-1)+1] \notin Blank
    BY <1>4, <2>1
  <2>3. f \in Nat /\ f =< e /\ e =< n /\ (e - 1) + 1 = e
    BY <1>1, <2>1, <2>2
  <2>4. ASSUME NEW i \in 1..n, ~ (f < i /\ i =< e)
        PROVE  text[i] \in Blank
    <3> SUFFICES ASSUME text[i] \notin Blank PROVE FALSE
      OBVIOUS
    <3>1. i - 1 \in ink
      BY <1>5
    <3>2. f =< i - 1 /\ i - 1 < e
      BY <2>1, <3>1
    <3>3. QED
      BY <1>1, <2>1, <2>3, <2>4, <3>2
  <2>5. Within(text, Strip(text), f, e)
    BY <1>1, <2>1, <2>2, <2>3, <2>4 DEF Within, n
  <2>6. QED
    BY <2>5
<1>8. QED
  BY <1>6, <1>7

(* What Ink leaves of a text is what it leaves of its parts.               *)
LEMMA InkConcat ==
  ASSUME NEW S, NEW s \in Seq(S), NEW t \in Seq(S)
  PROVE  Ink(s \o t) = Ink(s) \o Ink(t)
<1>1. s \o t \in Seq(S) /\ ToSet(s \o t) = ToSet(s) \union ToSet(t)
  BY ToSetConcat
<1> DEFINE U == (ToSet(s) \union ToSet(t)) \ Blank
<1>2. ToSet(s) \intersect U = ToSet(s) \intersect (ToSet(s) \ Blank)
      /\ ToSet(t) \intersect U = ToSet(t) \intersect (ToSet(t) \ Blank)
  OBVIOUS
<1>3. Ink(s \o t) = Those(s \o t, U)
  BY <1>1 DEF Ink
<1> HIDE DEF U
<1>4. Those(s \o t, U) = Those(s, U) \o Those(t, U)
  BY ThoseConcat
<1>5. Those(s, U) = Those(s, ToSet(s) \ Blank) /\ Those(t, U) = Those(t, ToSet(t) \ Blank)
  BY <1>2, ThoseSame
<1>6. QED
  BY <1>3, <1>4, <1>5 DEF Ink

LEMMA InkIs ==
  ASSUME NEW S, NEW s \in Seq(S)
  PROVE  /\ Ink(s) \in Seq(S)
         /\ Ink(s) = <<>> <=> ~ Says(s)
<1>1. /\ Those(s, ToSet(s) \ Blank) \in Seq(S)
      /\ Those(s, ToSet(s) \ Blank) = <<>> <=> ToSet(s) \intersect (ToSet(s) \ Blank) = {}
  BY ThoseAre
<1>2. ToSet(s) \intersect (ToSet(s) \ Blank) = {} <=> ~ Says(s)
  BY DEF Says, ToSet
<1>3. QED
  BY <1>1, <1>2 DEF Ink

(* A text with something to read at either end.                            *)
Inked(text) == text # <<>> /\ text[1] \notin Blank /\ text[Len(text)] \notin Blank

(* A text stripped says what it said, and if it says anything it begins    *)
(* and ends with it.                                                       *)
LEMMA StripIs ==
  ASSUME NEW S, NEW text \in Seq(S)
  PROVE  /\ Strip(text) \in Seq(S)
         /\ Ink(Strip(text)) = Ink(text)
         /\ Says(Strip(text)) <=> Says(text)
         /\ Strip(text) # <<>> <=> Says(text)
         /\ Len(Strip(text)) =< Len(text)
         /\ Strip(text) # <<>> => Inked(Strip(text))
<1> DEFINE s == Strip(text)
           n == Len(text)
<1>1. PICK f, e : Within(text, s, f, e)
  <2>1. IsList(text)
    BY DEF IsList, ToSet
  <2>2. QED
    BY <2>1, StripWithin
<1>2. /\ f \in Nat /\ e \in Nat /\ f =< e /\ e =< n /\ s = Slice(text, f, e)
      /\ \A i \in 1..n : ~ (f < i /\ i =< e) => text[i] \in Blank
      /\ f < e => text[f+1] \notin Blank /\ text[e] \notin Blank
  BY <1>1 DEF Within
<1>3. n \in Nat /\ DOMAIN text = 1..n
  OBVIOUS
<1> HIDE DEF s, n
<1>4. s \in Seq(S) /\ Len(s) = e - f /\ \A i \in 1..e-f : s[i] = text[f+i]
  <2>1. f \in Nat /\ e \in Nat /\ f =< e /\ e =< Len(text)
    BY <1>2 DEF n
  <2>2. IsSliceOf(Slice(text, f, e), text, f, e, S)
    BY <2>1, SliceFound
  <2>3. QED
    BY <1>2, <2>2 DEF IsSliceOf
<1> DEFINE p == Slice(text, 0, f)
           q == Slice(text, e, n)
<1>5. /\ p \in Seq(S) /\ Len(p) = f /\ \A i \in 1..f : p[i] = text[0+i]
      /\ q \in Seq(S) /\ Len(q) = n - e /\ \A i \in 1..n-e : q[i] = text[e+i]
  <2>1. 0 \in Nat /\ 0 =< f /\ f =< n /\ e =< n /\ n =< n /\ f - 0 = f
    BY <1>2, <1>3
  <2>2. /\ p \in Seq(S) /\ Len(p) = f - 0 /\ \A i \in 1..f-0 : p[i] = text[0+i]
    <3>1. f \in Nat /\ 0 =< f /\ f =< Len(text)
      BY <1>2, <2>1 DEF n
    <3>2. IsSliceOf(Slice(text, 0, f), text, 0, f, S)
      BY <2>1, <3>1, SliceFound
    <3>3. QED
      BY <3>2 DEF IsSliceOf
  <2>3. q \in Seq(S) /\ Len(q) = n - e /\ \A i \in 1..n-e : q[i] = text[e+i]
    <3>1. e \in Nat /\ n \in Nat /\ e =< n /\ n =< Len(text)
      BY <1>2, <1>3, <2>1 DEF n
    <3> HIDE DEF q
    <3>2. Slice(text, e, n) \in Seq(S) /\ Len(Slice(text, e, n)) = n - e
          /\ \A i \in 1..n-e : Slice(text, e, n)[i] = text[e+i]
      BY <3>1, SliceIs
    <3>3. QED
      BY <3>2 DEF q
  <2>4. QED
    BY <2>1, <2>2, <2>3
<1>6. text = (p \o s) \o q
  <2>1. SubSeq(text, 1, f) \o SubSeq(text, f+1, e) = SubSeq(text, 1, e)
    <3>1. 1 \in 1..Len(text)+1 /\ f \in 1-1..Len(text) /\ e \in f..Len(text)
      BY <1>2, <1>3 DEF n
    <3>2. QED
      BY <3>1, ConcatAdjacentSubSeq
  <2>2. SubSeq(text, 1, e) \o SubSeq(text, e+1, n) = SubSeq(text, 1, n)
    <3>1. 1 \in 1..Len(text)+1 /\ e \in 1-1..Len(text) /\ n \in e..Len(text)
      BY <1>2, <1>3 DEF n
    <3>2. QED
      BY <3>1, ConcatAdjacentSubSeq
  <2>3. SubSeq(text, 1, n) = text
    BY SubSeqFull DEF n
  <2>4. p = SubSeq(text, 1, f) /\ s = SubSeq(text, f+1, e) /\ q = SubSeq(text, e+1, n)
    BY <1>2 DEF Slice
  <2>5. QED
    BY <2>1, <2>2, <2>3, <2>4
<1> HIDE DEF p, q
<1>7. ~ Says(p) /\ ~ Says(q)
  <2>1. \A i \in 1..f : i \in 1..n /\ ~ (f < i /\ i =< e)
    BY <1>2, <1>3
  <2>2. \A i \in 1..f : p[i] \in Blank
    <3>1. \A i \in 1..f : 0 + i = i
      OBVIOUS
    <3>2. QED
      BY <1>2, <1>5, <2>1, <3>1
  <2>3. \A i \in 1..n-e : e + i \in 1..n /\ ~ (f < e + i /\ e + i =< e)
    BY <1>2, <1>3
  <2>4. \A i \in 1..n-e : q[i] \in Blank
    BY <1>2, <1>5, <2>3
  <2>5. DOMAIN p = 1..f /\ DOMAIN q = 1..n-e
    BY <1>5, LenProperties
  <2>6. QED
    BY <2>2, <2>4, <2>5 DEF Says
<1>8. Ink(s) = Ink(text)
  <2>1. Ink(p) = <<>> /\ Ink(q) = <<>> /\ Ink(s) \in Seq(S)
    BY <1>4, <1>5, <1>7, InkIs
  <2>2. p \o s \in Seq(S)
    BY <1>4, <1>5
  <2>3. Ink(text) = (Ink(p) \o Ink(s)) \o Ink(q)
    <3>1. Ink((p \o s) \o q) = Ink(p \o s) \o Ink(q)
      BY <1>5, <2>2, InkConcat
    <3>2. Ink(p \o s) = Ink(p) \o Ink(s)
      BY <1>4, <1>5, InkConcat
    <3>3. QED
      BY <1>6, <3>1, <3>2
  <2>4. QED
    BY <2>1, <2>3, ConcatEmptySeq
<1>9. Says(s) <=> Says(text)
  BY <1>4, <1>8, InkIs
<1>10. s # <<>> => Says(s) /\ Inked(s)
  <2> SUFFICES ASSUME s # <<>> PROVE Says(s) /\ Inked(s)
    OBVIOUS
  <2>1. Len(s) # 0
    BY <1>4, EmptySeq
  <2>2. f < e
    BY <1>2, <1>4, <2>1
  <2>3. 1 \in 1..e-f /\ DOMAIN s = 1..e-f
    BY <1>2, <1>4, <2>2, LenProperties
  <2>4. s[1] = text[f+1] /\ s[Len(s)] = text[e]
    <3>1. Len(s) \in 1..e-f /\ f + Len(s) = e
      BY <1>2, <1>4, <2>2
    <3>2. QED
      BY <1>4, <2>3, <3>1
  <2>5. QED
    BY <1>2, <2>2, <2>3, <2>4 DEF Says, Inked
<1>11. Says(s) => s # <<>>
  BY DEF Says
<1>12. Len(s) =< n
  BY <1>2, <1>3, <1>4
<1>13. QED
  BY <1>4, <1>8, <1>9, <1>10, <1>11, <1>12 DEF s, n

-----------------------------------------------------------------------------
LEMMA NotEmptyIs ==
  ASSUME NEW T, NEW texts \in Seq(T)
  PROVE  /\ NotEmpty(texts) \in Seq(T)
         /\ ToSet(NotEmpty(texts)) = ToSet(texts) \ {<<>>}
         /\ NotEmpty(texts) = <<>> <=> ToSet(texts) \subseteq {<<>>}
         /\ NotEmpty(texts) # <<>> => NotEmpty(texts)[1] # <<>> /\ NotEmpty(texts)[1] \in ToSet(texts)
         /\ Len(NotEmpty(texts)) =< Len(texts)
<1> DEFINE set == ToSet(texts) \ {<<>>}
<1>1. /\ Those(texts, set) \in Seq(T)
      /\ ToSet(Those(texts, set)) = ToSet(texts) \intersect set
      /\ (Those(texts, set) = <<>> <=> ToSet(texts) \intersect set = {})
      /\ Those(texts, set) # <<>> => Those(texts, set)[1] \in ToSet(texts) \intersect set
  BY ThoseAre
<1>2. Len(Those(texts, set)) =< Len(texts)
  BY ThoseLength
<1>3. NotEmpty(texts) = Those(texts, set) /\ ToSet(texts) \intersect set = ToSet(texts) \ {<<>>}
  BY DEF NotEmpty
<1> HIDE DEF set
<1>4. NotEmpty(texts) = <<>> <=> ToSet(texts) \subseteq {<<>>}
  BY <1>1, <1>3
<1>5. QED
  BY <1>1, <1>2, <1>3, <1>4

LEMMA FirstIs ==
  ASSUME NEW T, NEW texts \in Seq(T)
  PROVE  /\ FirstGiven(texts) = <<>> <=> ToSet(texts) \subseteq {<<>>}
         /\ FirstGiven(texts) # <<>> => FirstGiven(texts) \in ToSet(texts)
<1>1. /\ NotEmpty(texts) = <<>> <=> ToSet(texts) \subseteq {<<>>}
      /\ NotEmpty(texts) # <<>> => NotEmpty(texts)[1] # <<>> /\ NotEmpty(texts)[1] \in ToSet(texts)
  BY NotEmptyIs
<1>2. QED
  BY <1>1 DEF FirstGiven, FirstIn

(* Every member of texts stripped says something, as each that does.       *)
SpokenOf(texts, said, S) ==
  /\ said \in Seq(Seq(S)) /\ Len(said) =< Len(texts)
  /\ \A x \in ToSet(said) : Says(x) /\ Inked(x)
  /\ said = <<>> <=> ~ SaysAny(texts)

LEMMA StrippedOfIs ==
  ASSUME NEW S, NEW texts \in Seq(Seq(S))
  PROVE  SpokenOf(texts, StrippedOf(texts), S)
<1> DEFINE n == Len(texts)
           stripped == [i \in DOMAIN texts |-> Strip(texts[i])]
<1>1. n \in Nat /\ DOMAIN texts = 1..n /\ \A i \in 1..n : texts[i] \in Seq(S)
  BY LenProperties, ElementOfSeq
<1>2. \A i \in 1..n : /\ Strip(texts[i]) \in Seq(S)
                      /\ Strip(texts[i]) # <<>> <=> Says(texts[i])
                      /\ Says(Strip(texts[i])) <=> Says(texts[i])
                      /\ Strip(texts[i]) # <<>> => Inked(Strip(texts[i]))
  BY <1>1, StripIs
<1>3. stripped \in [1..n -> Seq(S)] /\ DOMAIN stripped = 1..n
  BY <1>1, <1>2
<1>s. \A i \in 1..n : stripped[i] = Strip(texts[i])
  BY <1>1
<1> HIDE DEF n, stripped
<1>4. stripped \in Seq(Seq(S)) /\ Len(stripped) = n
  <2>1. stripped \in Seq(Seq(S))
    BY <1>1, <1>3, SeqDef
  <2>2. QED
    BY <1>1, <1>3, <2>1, LenProperties
<1>5. ToSet(stripped) = {Strip(texts[i]) : i \in 1..n}
  BY <1>3, <1>s DEF ToSet
<1>6. /\ NotEmpty(stripped) \in Seq(Seq(S))
      /\ ToSet(NotEmpty(stripped)) = ToSet(stripped) \ {<<>>}
      /\ NotEmpty(stripped) = <<>> <=> ToSet(stripped) \subseteq {<<>>}
      /\ Len(NotEmpty(stripped)) =< n
  BY <1>4, NotEmptyIs
<1>7. StrippedOf(texts) = NotEmpty(stripped)
  BY DEF StrippedOf, stripped
<1>8. \A x \in ToSet(NotEmpty(stripped)) : Says(x) /\ Inked(x)
  BY <1>2, <1>5, <1>6
<1>9. NotEmpty(stripped) = <<>> <=> ~ SaysAny(texts)
  <2>1. ToSet(stripped) \subseteq {<<>>} <=> \A i \in 1..n : Strip(texts[i]) = <<>>
    BY <1>5
  <2>2. QED
    BY <1>1, <1>2, <1>6, <2>1 DEF SaysAny
<1>10. QED
  BY <1>6, <1>7, <1>8, <1>9 DEF SpokenOf, n

-----------------------------------------------------------------------------
LEMMA TopicFound ==
  ASSUME NEW hits, IsList(hits), NEW most \in Nat
  PROVE  Len(TopicEvidence(hits, most).evidence) =< TopicEvidence(hits, most).references
<1> DEFINE m == Min({most, Len(hits)})
           taken == Slice(hits, 0, m)
           parts == [i \in DOMAIN taken |-> StrippedOf(taken[i])]
           T == {StrippedOf(taken[i]) : i \in DOMAIN taken}
<1>1. Len(hits) \in Nat /\ hits \in Seq(ToSet(hits))
  BY DEF IsList
<1>2. m \in Nat /\ 0 =< m /\ m =< Len(hits)
  BY <1>1, MinOfTwo
<1> HIDE DEF m
<1>3. taken \in Seq(ToSet(hits))
  BY <1>1, <1>2, SliceIs
<1> HIDE DEF taken
<1>4. Len(taken) \in Nat /\ DOMAIN taken = 1..Len(taken)
  BY <1>3, LenProperties
<1>5. parts \in [1..Len(taken) -> T] /\ DOMAIN parts = 1..Len(taken)
  BY <1>4
<1> HIDE DEF parts, T
<1>6. parts \in Seq(T)
  BY <1>4, <1>5, SeqDef
<1>7. Len(parts) = Len(taken)
  BY <1>4, <1>5, <1>6, LenProperties
<1>8. Len(NotEmpty(parts)) =< Len(taken)
  BY <1>6, <1>7, NotEmptyIs
<1> DEFINE a == [references |-> Len(taken), evidence |-> NotEmpty(parts)]
<1>9. TopicEvidence(hits, most) = a
  BY DEF TopicEvidence, taken, parts, m
<1>10. a.references = Len(taken) /\ a.evidence = NotEmpty(parts)
  OBVIOUS
<1> HIDE DEF a
<1>11. QED
  BY <1>8, <1>9, <1>10

LEMMA HitsFound ==
  ASSUME NEW results, IsList(results)
  PROVE  \A i \in DOMAIN SearchHits(results) : SearchHits(results)[i].title # <<>>
<1> DEFINE Address(r) == FirstGiven(<<r.url, r.link>>)
           heard == {r \in ToSet(results) : Address(r) # <<>>}
           found == Those(results, heard)
           Title(r) == FirstGiven(<<r.title, r.name, Address(r)>>)
           a == [i \in DOMAIN found |->
                   [title |-> Title(found[i]), snippet |-> FirstGiven(<<found[i].snippet, found[i].description>>)]]
<1>1. SearchHits(results) = a
  BY DEF SearchHits
<1>2. ToSet(found) \subseteq heard
  <2>1. results \in Seq(ToSet(results))
    BY DEF IsList
  <2> HIDE DEF heard
  <2>2. ToSet(Those(results, heard)) = ToSet(results) \intersect heard
    BY <2>1, ThoseAre
  <2>3. QED
    BY <2>2
<1>3. \A i \in DOMAIN found : Address(found[i]) # <<>>
  <2>1. \A i \in DOMAIN found : found[i] \in ToSet(found)
    BY DEF ToSet
  <2> HIDE DEF found
  <2>2. QED
    BY <1>2, <2>1
<1>4. \A x, y, z : z # <<>> => FirstGiven(<<x, y, z>>) # <<>>
  <2> SUFFICES ASSUME NEW x, NEW y, NEW z, z # <<>> PROVE FirstGiven(<<x, y, z>>) # <<>>
    OBVIOUS
  <2>1. <<x, y, z>> \in Seq({x, y, z})
    OBVIOUS
  <2>2. z \in ToSet(<<x, y, z>>)
    <3>1. 3 \in DOMAIN <<x, y, z>> /\ <<x, y, z>>[3] = z
      OBVIOUS
    <3>2. QED
      BY <3>1 DEF ToSet
  <2>3. QED
    BY <2>1, <2>2, FirstIs
<1> HIDE DEF Address, found
<1>5. \A i \in DOMAIN found : Title(found[i]) # <<>>
  BY <1>3, <1>4
<1> HIDE DEF Title
<1>6. DOMAIN a = DOMAIN found /\ \A i \in DOMAIN found : a[i].title = Title(found[i])
  OBVIOUS
<1>7. QED
  BY <1>1, <1>5, <1>6

-----------------------------------------------------------------------------
LengthsRun(F, s) ==
  /\ F \in [0..Len(s) -> Int]
  /\ F[0] = 0 /\ F[Len(s)] = SumOfLengths(s)
  /\ \A k \in 1..Len(s) : F[k] = F[k-1] + Len(s[k])

LEMMA LengthsSteps ==
  ASSUME NEW S, NEW s \in Seq(Seq(S))
  PROVE  \E F : LengthsRun(F, s)
<1> DEFINE n == Len(s)
           G == [p \in (1..n) \X Int |-> p[2] + Len(s[p[1]])]
           Step(z) == [q \in SUBSET DOMAIN s |->
                         IF q = {} THEN 0 ELSE z[q \ {Max(q)}] + Len(s[Max(q)])]
           iter == CHOOSE z : z = Step(z)
<1>1. n \in Nat /\ 0 \in Int /\ DOMAIN s = 1..n /\ \A k \in 1..n : Len(s[k]) \in Int
  <2>1. n \in Nat /\ DOMAIN s = 1..n
    BY LenProperties
  <2>2. \A k \in 1..n : s[k] \in Seq(S)
    BY ElementOfSeq
  <2>3. \A k \in 1..n : Len(s[k]) \in Nat
    BY <2>2, LenProperties
  <2>4. QED
    BY <2>1, <2>3
<1>2. G \in [(1..n) \X Int -> Int] /\ \A k \in 1..n, v \in Int : G[<<k, v>>] = v + Len(s[k])
  <2> DEFINE l == [k \in 1..n |-> Len(s[k])]
  <2>1. l \in [1..n -> Int] /\ \A k \in 1..n : l[k] = Len(s[k])
    BY <1>1
  <2>2. G = [p \in (1..n) \X Int |-> p[2] + l[p[1]]]
    BY <2>1
  <2>3. n \in Nat
    BY <1>1
  <2> HIDE DEF l, n, G
  <2>4. \A p \in (1..n) \X Int : p[1] \in 1..n /\ p[2] \in Int /\ l[p[1]] \in Int
    BY <2>1
  <2>5. \A p \in (1..n) \X Int : p[2] + l[p[1]] \in Int
    <3>1. \A a, b \in Int : a + b \in Int
      OBVIOUS
    <3>2. QED
      BY <2>4, <3>1
  <2>6. G \in [(1..n) \X Int -> Int]
    BY <2>2, <2>5
  <2>7. ASSUME NEW k \in 1..n, NEW v \in Int
        PROVE  G[<<k, v>>] = v + Len(s[k])
    <3>1. <<k, v>> \in (1..n) \X Int /\ <<k, v>>[1] = k /\ <<k, v>>[2] = v
      OBVIOUS
    <3>2. G[<<k, v>>] = v + l[k]
      BY <2>2, <3>1
    <3>3. QED
      BY <2>1, <3>2
  <2>8. QED
    BY <2>6, <2>7
<1>4. iter = Step(iter)
  <2>1. PICK h : Iterates(h, n, Int, 0, G)
    <3> HIDE DEF G, n
    <3>1. QED
      BY <1>1, <1>2, IterationExists
  <2>2. /\ h \in [SUBSET (1..n) -> Int]
        /\ \A q \in SUBSET (1..n) : h[q] = IF q = {} THEN 0 ELSE G[<<Max(q), h[q \ {Max(q)}]>>]
    BY <2>1 DEF Iterates
  <2>3. \A q \in SUBSET (1..n) : q # {} => Max(q) \in 1..n /\ h[q \ {Max(q)}] \in Int
    BY <1>1, <2>2, MaxIn
  <2> HIDE DEF G
  <2>4. ASSUME NEW q \in SUBSET (1..n)
        PROVE  h[q] = Step(h)[q]
    <3>1. CASE q = {}
      BY <1>1, <2>2, <3>1
    <3>2. CASE q # {}
      BY <1>1, <1>2, <2>2, <2>3, <3>2
    <3>3. QED
      BY <3>1, <3>2
  <2>5. h = Step(h)
    BY <1>1, <2>2, <2>4
  <2>6. QED
    BY <2>5
<1>5. SumOfLengths(s) = iter[1..n]
  BY <1>1 DEF SumOfLengths, FoldLeft, MapThenFoldSet
<1> HIDE DEF iter, G
<1>6. iter[{}] = 0
  BY <1>4
<1>7. ASSUME NEW k \in 1..n, iter[1..k-1] \in Int
      PROVE  iter[1..k] = G[<<k, iter[1..k-1]>>]
  <2>1. /\ Max(1..k) = k /\ (1..k) # {} /\ (1..k) \ {Max(1..k)} = 1..k-1
        /\ (1..k) \in SUBSET DOMAIN s
    BY <1>1, MaxOfPrefix
  <2>2. iter[1..k] = Step(iter)[1..k]
    BY <1>4
  <2>3. iter[1..k] = iter[1..k-1] + Len(s[k])
    BY <2>1, <2>2
  <2>4. QED
    BY <1>2, <1>7, <2>3
<1>8. PICK F : IsRun(F, iter, n, Int, 0, G)
  <2>1. n \in Nat /\ 0 \in Int
    BY <1>1
  <2>2. RunsOver(iter, n, Int, 0, G)
    BY <1>6, <1>7 DEF RunsOver
  <2>3. QED
    BY <2>1, <2>2, <1>2, PrefixRuns
<1>9. F \in [0..n -> Int] /\ F[n] = iter[1..n] /\ F[0] = 0 /\ \A k \in 1..n : F[k] = G[<<k, F[k-1]>>]
  BY <1>8 DEF IsRun
<1>10. \A k \in 1..n : F[k-1] \in Int
  <2>1. \A k \in 1..n : k - 1 \in 0..n
    BY <1>1
  <2>2. QED
    BY <1>9, <2>1
<1>11. \A k \in 1..n : F[k] = F[k-1] + Len(s[k])
  BY <1>2, <1>9, <1>10
<1>12. LengthsRun(F, s)
  BY <1>5, <1>9, <1>11 DEF LengthsRun
<1>13. QED
  BY <1>12

LEMMA LengthsAppend ==
  ASSUME NEW S, NEW s \in Seq(Seq(S)), NEW x \in Seq(S)
  PROVE  /\ SumOfLengths(Append(s, x)) = SumOfLengths(s) + Len(x)
         /\ SumOfLengths(s) \in Int /\ SumOfLengths(<<>>) = 0
<1> DEFINE n == Len(s)
           r == Append(s, x)
<1>1. /\ r \in Seq(Seq(S)) /\ n \in Nat /\ Len(r) = n + 1 /\ r[n+1] = x
      /\ \A k \in 1..n : r[k] = s[k]
  BY AppendProperties, LenProperties
<1> HIDE DEF n, r
<1>2. PICK F : LengthsRun(F, s)
  BY LengthsSteps
<1>3. PICK G : LengthsRun(G, r)
  BY <1>1, LengthsSteps
<1>4. /\ F \in [0..n -> Int] /\ F[0] = 0 /\ F[n] = SumOfLengths(s)
      /\ \A k \in 1..n : F[k] = F[k-1] + Len(s[k])
  BY <1>2 DEF LengthsRun, n
<1>5. /\ G[0] = 0 /\ G[n+1] = SumOfLengths(r)
      /\ \A k \in 1..n+1 : G[k] = G[k-1] + Len(r[k])
  BY <1>1, <1>3 DEF LengthsRun
<1> DEFINE T == {k \in Nat : k =< n => G[k] = F[k]}
<1>6. 0 \in T
  BY <1>4, <1>5
<1>7. ASSUME NEW k \in Nat, k \in T
      PROVE  k + 1 \in T
  <2> SUFFICES ASSUME k + 1 =< n PROVE G[k+1] = F[k+1]
    OBVIOUS
  <2>1. k + 1 \in 1..n /\ k + 1 \in 1..n+1 /\ (k + 1) - 1 = k /\ k =< n
    BY <1>1
  <2>2. G[k] = F[k]
    BY <1>7, <2>1
  <2>3. QED
    BY <1>1, <1>4, <1>5, <2>1, <2>2
<1>8. n \in T
  <2> HIDE DEF T
  <2>1. QED
    BY <1>1, <1>6, <1>7, SetInduction
<1>9. n =< n /\ n \in 0..n /\ n + 1 \in 1..n+1 /\ (n + 1) - 1 = n
  BY <1>1
<1>10. G[n] = F[n]
  BY <1>8, <1>9
<1>11. SumOfLengths(r) = SumOfLengths(s) + Len(x)
  BY <1>1, <1>4, <1>5, <1>9, <1>10
<1>12. SumOfLengths(s) \in Int
  BY <1>4, <1>9
<1>13. SumOfLengths(<<>>) = 0
  <2>1. <<>> \in Seq(Seq(S)) /\ Len(<<>>) = 0
    BY EmptySeq
  <2>2. PICK H : LengthsRun(H, <<>>)
    BY <2>1, LengthsSteps
  <2>3. QED
    BY <2>1, <2>2 DEF LengthsRun
<1>14. QED
  BY <1>11, <1>12, <1>13 DEF r

(* The part of a text that fits is its beginning, something if there is    *)
(* room for anything, and all that fits but blanks.                        *)
LEMMA CutIs ==
  ASSUME NEW S, NEW text \in Seq(S), NEW left \in Nat
  PROVE  LET cut == CutTo(text, left) IN
         /\ cut \in Seq(S) /\ Len(cut) \in Nat /\ Len(cut) =< left
         /\ left # 0 /\ Inked(text) => Filled(cut, text, left) /\ Says(cut)
<1> DEFINE n == Len(text)
           m == Min({left, n})
           p == Slice(text, 0, m)
           cut == CutTo(text, left)
<1>1. n \in Nat /\ (text # <<>> => n > 0)
  BY LenProperties, EmptySeq
<1>2. /\ m \in Nat /\ 0 =< m /\ m =< n /\ m =< left /\ (left # 0 /\ n > 0 => m > 0)
      /\ m = n \/ (m = left /\ left < n)
  <2>1. m = IF left =< n THEN left ELSE n
    BY <1>1, MinOfTwo
  <2> HIDE DEF m
  <2>2. QED
    BY <1>1, <2>1
<1> HIDE DEF m
<1>3. p \in Seq(S) /\ Len(p) = m /\ \A i \in 1..m : p[i] = text[i]
  <2>1. m - 0 = m /\ \A i \in 1..m : 0 + i = i
    BY <1>2
  <2>t. 0 \in Nat /\ m =< Len(text)
    BY <1>2 DEF n
  <2>2. p \in Seq(S) /\ Len(p) = m - 0 /\ \A i \in 1..m-0 : p[i] = text[0 + i]
    BY <1>2, <2>t, SliceIs
  <2> HIDE DEF p
  <2>3. QED
    BY <2>1, <2>2
<1>4. cut = Strip(p)
  BY DEF CutTo, m
<1> HIDE DEF p, cut, n
<1>5. /\ cut \in Seq(S) /\ Len(cut) =< Len(p)
      /\ Says(cut) <=> Says(p)
      /\ cut # <<>> <=> Says(p)
  BY <1>3, <1>4, StripIs
<1>6. Len(cut) \in Nat /\ Len(cut) =< left
  <2>1. Len(cut) \in Nat
    BY <1>5, LenProperties
  <2>2. QED
    BY <1>2, <1>3, <1>5, <2>1
<1>7. ASSUME left # 0, Inked(text)
      PROVE  Filled(cut, text, left) /\ Says(cut)
  <2>i. text # <<>> /\ text[1] \notin Blank /\ text[n] \notin Blank
    BY <1>7 DEF Inked, n
  <2>1. m > 0 /\ 1 \in 1..m
    BY <1>1, <1>2, <1>7, <2>i
  <2>2. p[1] \notin Blank /\ DOMAIN p = 1..m
    BY <1>3, <2>i, <2>1, LenProperties
  <2>3. Says(p)
    BY <2>1, <2>2 DEF Says
  <2>4. PICK f, e : Within(p, cut, f, e)
    <3>1. IsList(p)
      BY <1>3 DEF IsList, ToSet
    <3>2. QED
      BY <1>4, <3>1, StripWithin
  <2>5. /\ f \in Nat /\ e \in Nat /\ f =< e /\ e =< m /\ cut = Slice(p, f, e)
        /\ \A i \in 1..m : ~ (f < i /\ i =< e) => p[i] \in Blank
    BY <1>3, <2>4 DEF Within
  <2>6. f = 0
    <3>1. f < 1
      BY <2>1, <2>2, <2>5
    <3>2. QED
      BY <2>5, <3>1
  <2>7. Len(cut) = e /\ \A i \in 1..e : cut[i] = text[i]
    <3>t. p \in Seq(S) /\ 0 \in Nat /\ e \in Nat /\ 0 =< e /\ e =< Len(p)
      BY <1>3, <2>5
    <3>1. Len(Slice(p, 0, e)) = e - 0 /\ \A i \in 1..e-0 : Slice(p, 0, e)[i] = p[0 + i]
      BY <3>t, SliceIs
    <3>2. e - 0 = e /\ \A i \in 1..e : 0 + i = i /\ i \in 1..m
      BY <1>2, <2>5
    <3>3. QED
      BY <1>3, <2>5, <2>6, <3>1, <3>2
  <2>8. e =< n
    BY <1>1, <1>2, <2>5
  <2>9. SubSeq(cut, 1, e) = SubSeq(text, 1, e)
    <3>1. SubSeq(cut, 1, e) = cut
      BY <1>5, <2>7, SubSeqFull
    <3>2. /\ SubSeq(text, 1, e) \in Seq(S) /\ Len(SubSeq(text, 1, e)) = e
          /\ \A i \in 1..e : SubSeq(text, 1, e)[i] = text[i]
      <4>1. 0 \in Nat /\ 0 =< e /\ e - 0 = e /\ 0 + 1 = 1 /\ \A i \in 1..e : 0 + i = i
        BY <2>5
      <4>t. 0 \in Nat /\ e \in Nat /\ 0 =< e /\ e =< Len(text)
        BY <2>5, <2>8 DEF n
      <4>2. /\ Slice(text, 0, e) \in Seq(S) /\ Len(Slice(text, 0, e)) = e - 0
            /\ \A i \in 1..e-0 : Slice(text, 0, e)[i] = text[0 + i]
        BY <4>t, SliceIs
      <4>3. QED
        BY <4>1, <4>2 DEF Slice
    <3>3. SubSeq(text, 1, e) = cut
      BY <1>5, <2>7, <3>2, SeqEqual
    <3>4. QED
      BY <3>1, <3>3
  <2>10. IsPrefix(cut, text)
    BY <2>7, <2>8, <2>9 DEF IsPrefix, n
  <2>11. CASE m = n
    <3>1. n \in 1..m /\ p[n] = text[n]
      BY <1>1, <1>3, <2>1, <2>11
    <3>2. e = n
      BY <1>1, <2>i, <2>1, <2>5, <2>6, <2>11, <3>1
    <3>3. cut = text
      BY <1>5, <2>7, <3>2, SeqEqual DEF n
    <3>4. QED
      BY <1>5, <2>3, <2>10, <3>3 DEF Filled
  <2>12. CASE m = left /\ left < n
    <3>1. ASSUME NEW i \in Len(cut) + 1 .. left
          PROVE  text[i] \in Blank
      <4>1. i \in 1..m /\ ~ (f < i /\ i =< e)
        BY <1>2, <2>5, <2>7, <2>12
      <4>2. QED
        BY <1>3, <2>5, <4>1
    <3>2. QED
      BY <1>5, <2>3, <2>10, <2>12, <3>1 DEF Filled, n
  <2>13. QED
    BY <1>2, <2>11, <2>12
<1>8. QED
  BY <1>5, <1>6, <1>7 DEF cut

-----------------------------------------------------------------------------
Begun(budget) == [evidence |-> <<>>, left |-> budget]
Gathering(S) == [evidence : Seq(Seq(S)), left : Nat]

LEMMA TakeTextIs ==
  ASSUME NEW S, NEW acc \in Gathering(S), NEW text \in Seq(S)
  PROVE  /\ Take(acc, text) \in Gathering(S)
         /\ acc.left = 0 => Take(acc, text) = acc
         /\ acc.left # 0 =>
              /\ Take(acc, text).evidence = Append(acc.evidence, CutTo(text, acc.left))
              /\ Take(acc, text).left = acc.left - Len(CutTo(text, acc.left))
<1> DEFINE cut == CutTo(text, acc.left)
           grown == [evidence |-> Append(acc.evidence, cut), left |-> acc.left - Len(cut)]
<1>1. acc.evidence \in Seq(Seq(S)) /\ acc.left \in Nat
  BY DEF Gathering
<1>2. cut \in Seq(S) /\ Len(cut) \in Nat /\ Len(cut) =< acc.left
  BY <1>1, CutIs
<1>3. Take(acc, text) = IF acc.left = 0 THEN acc ELSE grown
  BY DEF Take
<1> HIDE DEF cut
<1>4. Append(acc.evidence, cut) \in Seq(Seq(S))
  BY <1>1, <1>2, AppendProperties
<1>5. acc.left - Len(cut) \in Nat
  BY <1>1, <1>2
<1>6. grown \in Gathering(S)
  BY <1>4, <1>5 DEF Gathering
<1>7. grown.evidence = Append(acc.evidence, cut) /\ grown.left = acc.left - Len(cut)
  OBVIOUS
<1> HIDE DEF grown
<1>8. QED
  BY <1>3, <1>6, <1>7 DEF cut

GatheringRun(F, sources, budget, S) ==
  /\ F \in [0..Len(sources) -> Gathering(S)]
  /\ F[0] = Begun(budget) /\ F[Len(sources)] = FoldLeft(Take, Begun(budget), sources)
  /\ \A k \in 1..Len(sources) : F[k] = Take(F[k-1], sources[k])

LEMMA GatheringSteps ==
  ASSUME NEW S, NEW sources \in Seq(Seq(S)), NEW budget \in Nat
  PROVE  \E F : GatheringRun(F, sources, budget, S)
<1> DEFINE n == Len(sources)
           A == Gathering(S)
           base == Begun(budget)
           G == [p \in (1..n) \X A |-> Take(p[2], sources[p[1]])]
           Step(z) == [q \in SUBSET DOMAIN sources |->
                         IF q = {} THEN base ELSE Take(z[q \ {Max(q)}], sources[Max(q)])]
           iter == CHOOSE z : z = Step(z)
<1>1. n \in Nat /\ DOMAIN sources = 1..n /\ \A k \in 1..n : sources[k] \in Seq(S)
  BY LenProperties, ElementOfSeq
<1>b. base \in A
  BY DEF Begun, Gathering
<1>t. \A k \in 1..n, v \in A : Take(v, sources[k]) \in A
  BY <1>1, TakeTextIs
<1> HIDE DEF A, base, n
<1>2. G \in [(1..n) \X A -> A] /\ \A k \in 1..n, v \in A : G[<<k, v>>] = Take(v, sources[k])
  <2>1. \A p \in (1..n) \X A : p[1] \in 1..n /\ p[2] \in A
    OBVIOUS
  <2>2. \A p \in (1..n) \X A : Take(p[2], sources[p[1]]) \in A
    BY <1>t, <2>1
  <2>3. G \in [(1..n) \X A -> A]
    BY <2>2
  <2>4. ASSUME NEW k \in 1..n, NEW v \in A
        PROVE  G[<<k, v>>] = Take(v, sources[k])
    <3>1. <<k, v>> \in (1..n) \X A /\ <<k, v>>[1] = k /\ <<k, v>>[2] = v
      OBVIOUS
    <3>2. QED
      BY <3>1
  <2>5. QED
    BY <2>3, <2>4
<1>4. iter = Step(iter)
  <2>1. PICK h : Iterates(h, n, A, base, G)
    <3> HIDE DEF G
    <3>1. QED
      BY <1>1, <1>b, <1>2, IterationExists
  <2>2. /\ h \in [SUBSET (1..n) -> A]
        /\ \A q \in SUBSET (1..n) : h[q] = IF q = {} THEN base ELSE G[<<Max(q), h[q \ {Max(q)}]>>]
    BY <2>1 DEF Iterates
  <2>3. \A q \in SUBSET (1..n) : q # {} => Max(q) \in 1..n /\ h[q \ {Max(q)}] \in A
    BY <1>1, <2>2, MaxIn
  <2> HIDE DEF G
  <2>4. ASSUME NEW q \in SUBSET (1..n)
        PROVE  h[q] = Step(h)[q]
    <3>1. CASE q = {}
      BY <1>1, <2>2, <3>1
    <3>2. CASE q # {}
      BY <1>1, <1>2, <2>2, <2>3, <3>2
    <3>3. QED
      BY <3>1, <3>2
  <2>5. h = Step(h)
    BY <1>1, <2>2, <2>4
  <2>6. QED
    BY <2>5
<1>5. FoldLeft(Take, base, sources) = iter[1..n]
  BY <1>1 DEF FoldLeft, MapThenFoldSet
<1> HIDE DEF iter, G
<1>6. iter[{}] = base
  BY <1>4
<1>7. ASSUME NEW k \in 1..n, iter[1..k-1] \in A
      PROVE  iter[1..k] = G[<<k, iter[1..k-1]>>]
  <2>1. /\ Max(1..k) = k /\ (1..k) # {} /\ (1..k) \ {Max(1..k)} = 1..k-1
        /\ (1..k) \in SUBSET DOMAIN sources
    BY <1>1, MaxOfPrefix
  <2>2. iter[1..k] = Step(iter)[1..k]
    BY <1>4
  <2>3. iter[1..k] = Take(iter[1..k-1], sources[k])
    BY <2>1, <2>2
  <2>4. QED
    BY <1>2, <1>7, <2>3
<1>8. PICK F : IsRun(F, iter, n, A, base, G)
  <2>1. RunsOver(iter, n, A, base, G)
    BY <1>6, <1>7 DEF RunsOver
  <2>2. QED
    BY <1>1, <1>b, <2>1, <1>2, PrefixRuns
<1>9. F \in [0..n -> A] /\ F[n] = iter[1..n] /\ F[0] = base /\ \A k \in 1..n : F[k] = G[<<k, F[k-1]>>]
  BY <1>8 DEF IsRun
<1>10. \A k \in 1..n : F[k-1] \in A
  <2>1. \A k \in 1..n : k - 1 \in 0..n
    BY <1>1
  <2>2. QED
    BY <1>9, <2>1
<1>11. \A k \in 1..n : F[k] = Take(F[k-1], sources[k])
  BY <1>2, <1>9, <1>10
<1>12. GatheringRun(F, sources, budget, S)
  BY <1>5, <1>9, <1>11 DEF GatheringRun, n, A, base
<1>13. QED
  BY <1>12

(* After k texts, as long as there is room, each of them has given as much *)
(* of its beginning as there was room for.                                 *)
Gathered(acc, sources, budget, k) ==
  /\ SumOfLengths(acc.evidence) + acc.left = budget
  /\ Len(acc.evidence) =< k
  /\ acc.left # 0 => Len(acc.evidence) = k
  /\ budget # 0 /\ k # 0 => Len(acc.evidence) # 0
  /\ \A i \in 1..Len(acc.evidence) :
       /\ Filled(acc.evidence[i], sources[i], budget - SumOfLengths(SubSeq(acc.evidence, 1, i - 1)))
       /\ Says(acc.evidence[i])

LEMMA PrefixIs ==
  ASSUME NEW T, NEW s \in Seq(T), NEW n \in Nat, n =< Len(s)
  PROVE  /\ Slice(s, 0, n) \in Seq(T) /\ Len(Slice(s, 0, n)) = n
         /\ \A i \in 1..n : Slice(s, 0, n)[i] = s[i]
<1>1. 0 \in Nat /\ 0 =< n /\ n - 0 = n /\ \A i \in 1..n : 0 + i = i
  OBVIOUS
<1>2. /\ Slice(s, 0, n) \in Seq(T) /\ Len(Slice(s, 0, n)) = n - 0
      /\ \A i \in 1..n-0 : Slice(s, 0, n)[i] = s[0 + i]
  <2>1. IsSliceOf(Slice(s, 0, n), s, 0, n, T)
    BY <1>1, SliceFound
  <2>2. QED
    BY <2>1 DEF IsSliceOf
<1>3. QED
  BY <1>1, <1>2

LEMMA PrefixStays ==
  ASSUME NEW T, NEW s \in Seq(T), NEW x \in T, NEW n \in 0..Len(s)
  PROVE  SubSeq(Append(s, x), 1, n) = SubSeq(s, 1, n)
<1> DEFINE r == Append(s, x)
<1>1. /\ r \in Seq(T) /\ Len(r) = Len(s) + 1 /\ \A i \in 1..Len(s) : r[i] = s[i]
  BY AppendProperties
<1>2. Len(s) \in Nat /\ n \in Nat /\ n =< Len(s) /\ n =< Len(r)
  BY <1>1, LenProperties
<1> HIDE DEF r
<1>3. 0 + 1 = 1 /\ \A i \in 1..n : i \in 1..Len(s)
  BY <1>2
<1>4. /\ Slice(s, 0, n) \in Seq(T) /\ Len(Slice(s, 0, n)) = n
      /\ \A i \in 1..n : Slice(s, 0, n)[i] = s[i]
  BY <1>2, PrefixIs
<1>5. /\ Slice(r, 0, n) \in Seq(T) /\ Len(Slice(r, 0, n)) = n
      /\ \A i \in 1..n : Slice(r, 0, n)[i] = r[i]
  <2>1. r \in Seq(T) /\ n \in Nat /\ n =< Len(r)
    BY <1>1, <1>2
  <2>2. QED
    BY <2>1, PrefixIs
<1>6. Slice(r, 0, n) = Slice(s, 0, n)
  BY <1>1, <1>3, <1>4, <1>5, SeqEqual
<1>7. QED
  BY <1>3, <1>6 DEF Slice, r

LEMMA GatheredOne ==
  ASSUME NEW S, NEW acc \in Gathering(S), NEW sources \in Seq(Seq(S)), NEW budget \in Nat,
         NEW k \in Nat, k + 1 =< Len(sources), Gathered(acc, sources, budget, k),
         Inked(sources[k+1])
  PROVE  Gathered(Take(acc, sources[k+1]), sources, budget, k + 1)
<1> DEFINE text == sources[k+1]
           cut == CutTo(text, acc.left)
           new == Take(acc, text)
           e == acc.evidence
<1>1. e \in Seq(Seq(S)) /\ acc.left \in Nat /\ Len(e) \in Nat
  BY LenProperties DEF Gathering
<1>2. text \in Seq(S)
  <2>1. k + 1 \in 1..Len(sources)
    BY LenProperties
  <2>2. QED
    BY <2>1, ElementOfSeq
<1>g. /\ SumOfLengths(e) + acc.left = budget
      /\ Len(e) =< k
      /\ acc.left # 0 => Len(e) = k
      /\ budget # 0 /\ k # 0 => Len(e) # 0
      /\ \A i \in 1..Len(e) :
           Filled(e[i], sources[i], budget - SumOfLengths(SubSeq(e, 1, i - 1))) /\ Says(e[i])
  BY DEF Gathered
<1>3. CASE acc.left = 0
  <2>1. new = acc
    BY <1>2, <1>3, TakeTextIs
  <2>2. Len(e) =< k + 1
    BY <1>1, <1>g
  <2>3. budget # 0 => Len(e) # 0
    <3> SUFFICES ASSUME budget # 0, Len(e) = 0 PROVE FALSE
      OBVIOUS
    <3>1. e = <<>>
      BY <1>1, EmptySeq
    <3>2. SumOfLengths(e) = 0
      BY <1>1, <1>2, <3>1, LengthsAppend
    <3>3. QED
      BY <1>3, <1>g, <3>2
  <2>4. QED
    BY <1>3, <1>g, <2>1, <2>2, <2>3 DEF Gathered
<1>4. CASE acc.left # 0
  <2>1. cut \in Seq(S) /\ Len(cut) \in Nat /\ Filled(cut, text, acc.left) /\ Says(cut)
    BY <1>1, <1>2, <1>4, CutIs
  <2>2. new.evidence = Append(e, cut) /\ new.left = acc.left - Len(cut)
    BY <1>2, <1>4, TakeTextIs
  <2> HIDE DEF new, cut, text
  <2>3. SumOfLengths(Append(e, cut)) = SumOfLengths(e) + Len(cut) /\ SumOfLengths(e) \in Int
    BY <1>1, <2>1, LengthsAppend
  <2>4. Len(e) = k
    BY <1>4, <1>g
  <2>5. /\ Len(Append(e, cut)) = k + 1 /\ Append(e, cut)[k+1] = cut
        /\ \A i \in 1..k : Append(e, cut)[i] = e[i]
    <3>1. /\ Len(Append(e, cut)) = Len(e) + 1 /\ Append(e, cut)[Len(e)+1] = cut
          /\ \A i \in 1..Len(e) : Append(e, cut)[i] = e[i]
      BY <1>1, <2>1, AppendProperties
    <3>2. QED
      BY <2>4, <3>1
  <2> DEFINE grown == Append(e, cut)
  <2>p. \A j \in 0..k : SubSeq(grown, 1, j) = SubSeq(e, 1, j)
    BY <1>1, <2>1, <2>4, PrefixStays
  <2>e. SubSeq(e, 1, k) = e
    BY <1>1, <2>4, SubSeqFull
  <2> HIDE DEF grown
  <2>6. ASSUME NEW i \in 1..k+1
        PROVE  /\ Filled(grown[i], sources[i], budget - SumOfLengths(SubSeq(grown, 1, i - 1)))
               /\ Says(grown[i])
    <3>1. CASE i = k + 1
      <4>1. i - 1 = k /\ k \in 0..k
        BY <3>1
      <4>2. SubSeq(grown, 1, i - 1) = e
        BY <2>p, <2>e, <4>1
      <4>3. budget - SumOfLengths(e) = acc.left
        <5>1. SumOfLengths(e) + acc.left = budget /\ acc.left \in Int /\ SumOfLengths(e) \in Int
          BY <1>1, <1>g, <2>3
        <5> HIDE DEF e
        <5>2. QED
          BY <5>1
      <4>4. grown[i] = cut /\ sources[i] = text
        BY <2>5, <3>1 DEF grown, text
      <4>5. QED
        BY <2>1, <4>2, <4>3, <4>4
    <3>2. CASE i # k + 1
      <4>1. i \in 1..k /\ i - 1 \in 0..k
        BY <3>2
      <4>2. SubSeq(grown, 1, i - 1) = SubSeq(e, 1, i - 1) /\ grown[i] = e[i]
        BY <2>p, <2>5, <4>1 DEF grown
      <4>3. QED
        BY <1>g, <2>4, <4>1, <4>2
    <3>3. QED
      BY <3>1, <3>2
  <2>7. SumOfLengths(grown) + new.left = budget
    <3>1. \A a, b, c \in Int : (a + b) + (c - b) = a + c
      OBVIOUS
    <3>2. (SumOfLengths(e) + Len(cut)) + (acc.left - Len(cut)) = SumOfLengths(e) + acc.left
      BY <1>1, <2>1, <2>3, <3>1
    <3>3. QED
      BY <1>g, <2>2, <2>3, <3>2 DEF grown
  <2>8. new.evidence = grown /\ Len(grown) = k + 1 /\ k + 1 =< k + 1 /\ k + 1 # 0
    BY <2>2, <2>5 DEF grown
  <2>9. Gathered(new, sources, budget, k + 1)
    BY <2>6, <2>7, <2>8 DEF Gathered
  <2>10. QED
    BY <2>9 DEF new, text
<1>5. QED
  BY <1>3, <1>4

LEMMA GatheredIs ==
  ASSUME NEW S, NEW sources \in Seq(Seq(S)), NEW budget \in Nat,
         \A x \in ToSet(sources) : Inked(x)
  PROVE  LET acc == FoldLeft(Take, Begun(budget), sources)
         IN  acc \in Gathering(S) /\ Gathered(acc, sources, budget, Len(sources))
<1> DEFINE n == Len(sources)
           acc == FoldLeft(Take, Begun(budget), sources)
<1>1. PICK F : GatheringRun(F, sources, budget, S)
  BY GatheringSteps
<1>2. /\ F \in [0..n -> Gathering(S)] /\ F[0] = Begun(budget) /\ F[n] = acc
      /\ \A k \in 1..n : F[k] = Take(F[k-1], sources[k])
  BY <1>1 DEF GatheringRun
<1> HIDE DEF acc
<1> DEFINE T == {k \in Nat : k =< n => Gathered(F[k], sources, budget, k)}
<1>3. n \in Nat /\ DOMAIN sources = 1..n
  BY LenProperties
<1>4. 0 \in T
  <2>1. F[0].evidence = <<>> /\ F[0].left = budget
    BY <1>2 DEF Begun
  <2>2. Len(<<>>) = 0 /\ SumOfLengths(<<>>) = 0 /\ 0 + budget = budget /\ 1..0 = {}
    <3>1. <<>> \in Seq(Seq(S)) /\ <<>> \in Seq(S) /\ Len(<<>>) = 0
      BY EmptySeq
    <3>2. SumOfLengths(<<>>) = 0
      BY <3>1, LengthsAppend
    <3>3. QED
      BY <3>1, <3>2
  <2>3. Gathered(F[0], sources, budget, 0)
    BY <2>1, <2>2 DEF Gathered
  <2>4. QED
    BY <2>3
<1>5. ASSUME NEW k \in Nat, k \in T
      PROVE  k + 1 \in T
  <2> SUFFICES ASSUME k + 1 =< n PROVE Gathered(F[k+1], sources, budget, k + 1)
    OBVIOUS
  <2>1. k + 1 \in 1..n /\ (k + 1) - 1 = k /\ k \in 0..n /\ k =< n
    BY <1>3
  <2>2. Gathered(F[k], sources, budget, k) /\ F[k] \in Gathering(S)
    BY <1>2, <1>5, <2>1
  <2>3. sources[k+1] \in ToSet(sources)
    BY <1>3, <2>1 DEF ToSet
  <2>4. Inked(sources[k+1])
    BY <2>3
  <2>5. Gathered(Take(F[k], sources[k+1]), sources, budget, k + 1)
    BY <2>2, <2>4, GatheredOne
  <2>6. F[k+1] = Take(F[k], sources[k+1])
    BY <1>2, <2>1
  <2>7. QED
    BY <2>5, <2>6
<1>6. n \in T
  <2> HIDE DEF T
  <2>1. QED
    BY <1>3, <1>4, <1>5, SetInduction
<1>7. n =< n /\ n \in 0..n
  BY <1>3
<1>8. QED
  BY <1>2, <1>6, <1>7 DEF acc

LEMMA SourcesSpeak ==
  ASSUME NEW S, NEW files \in Seq(Seq(S)), NEW seed \in Seq(S)
  PROVE  LET sources == UploadSources(files, seed)
         IN  /\ sources \in Seq(Seq(S))
             /\ \A x \in ToSet(sources) : Inked(x)
             /\ sources = <<>> <=> ~ SaysAny(files) /\ ~ Says(seed)
<1>1. SpokenOf(files, StrippedOf(files), S)
  BY StrippedOfIs
<1>2. <<seed>> \in Seq(Seq(S)) /\ DOMAIN <<seed>> = {1} /\ <<seed>>[1] = seed
  OBVIOUS
<1>3. SpokenOf(<<seed>>, StrippedOf(<<seed>>), S)
  BY <1>2, StrippedOfIs
<1>4. SaysAny(<<seed>>) <=> Says(seed)
  BY <1>2 DEF SaysAny
<1>5. CASE StrippedOf(files) # <<>>
  <2>1. UploadSources(files, seed) = StrippedOf(files)
    BY <1>5 DEF UploadSources
  <2>2. QED
    BY <1>1, <1>5, <2>1 DEF SpokenOf
<1>6. CASE StrippedOf(files) = <<>>
  <2>1. UploadSources(files, seed) = StrippedOf(<<seed>>)
    BY <1>6 DEF UploadSources
  <2>2. QED
    BY <1>1, <1>3, <1>4, <1>6, <2>1 DEF SpokenOf
<1>7. QED
  BY <1>5, <1>6

(* What an upload is heard of.                                             *)
LEMMA UploadIs ==
  ASSUME NEW S, NEW files \in Seq(Seq(S)), NEW seed \in Seq(S), NEW budget \in Nat
  PROVE  LET evidence == UploadEvidence(files, seed, budget)
         IN  /\ EvidenceWithinBudget(files, seed, budget, evidence)
             /\ evidence \in Seq(Seq(S)) /\ \A i \in DOMAIN evidence : Says(evidence[i])
             /\ budget # 0 /\ (SaysAny(files) \/ Says(seed)) => evidence # <<>>
<1> DEFINE sources == UploadSources(files, seed)
           acc == FoldLeft(Take, Begun(budget), sources)
           evidence == UploadEvidence(files, seed, budget)
<1>1. /\ sources \in Seq(Seq(S))
      /\ \A x \in ToSet(sources) : Inked(x)
      /\ sources = <<>> <=> ~ SaysAny(files) /\ ~ Says(seed)
  BY SourcesSpeak
<1>2. evidence = acc.evidence
  BY DEF UploadEvidence, Begun
<1> HIDE DEF sources
<1>3. acc \in Gathering(S) /\ Gathered(acc, sources, budget, Len(sources))
  BY <1>1, GatheredIs
<1> HIDE DEF acc, evidence
<1>4. evidence \in Seq(Seq(S)) /\ acc.left \in Nat
  BY <1>2, <1>3 DEF Gathering
<1>5. /\ SumOfLengths(evidence) + acc.left = budget
      /\ Len(evidence) =< Len(sources)
      /\ acc.left # 0 => Len(evidence) = Len(sources)
      /\ budget # 0 /\ Len(sources) # 0 => Len(evidence) # 0
      /\ \A i \in 1..Len(evidence) :
           /\ Filled(evidence[i], sources[i], budget - SumOfLengths(SubSeq(evidence, 1, i - 1)))
           /\ Says(evidence[i])
  BY <1>2, <1>3 DEF Gathered
<1>6. DOMAIN evidence = 1..Len(evidence) /\ Len(evidence) \in Nat /\ Len(sources) \in Nat
  BY <1>1, <1>4, LenProperties
<1>7. SumOfLengths(evidence) \in Int
  <2>1. <<>> \in Seq(S)
    BY EmptySeq
  <2>2. QED
    BY <1>4, <2>1, LengthsAppend
<1>8. /\ SumOfLengths(evidence) =< budget
      /\ Len(evidence) < Len(sources) => SumOfLengths(evidence) = budget
  <2>1. \A a \in Int, b, c \in Nat : a + b = c => a =< c /\ (b = 0 => a = c)
    OBVIOUS
  <2>2. Len(evidence) < Len(sources) => acc.left = 0
    BY <1>5, <1>6
  <2>3. QED
    BY <1>4, <1>5, <1>7, <2>1, <2>2
<1>9. EvidenceWithinBudget(files, seed, budget, evidence)
  BY <1>5, <1>6, <1>8 DEF EvidenceWithinBudget, sources
<1>10. budget # 0 /\ (SaysAny(files) \/ Says(seed)) => evidence # <<>>
  <2> SUFFICES ASSUME budget # 0, SaysAny(files) \/ Says(seed) PROVE evidence # <<>>
    OBVIOUS
  <2>1. sources # <<>>
    BY <1>1
  <2>2. Len(sources) # 0
    BY <1>1, <2>1, EmptySeq
  <2>3. Len(evidence) # 0
    BY <1>5, <2>2
  <2>4. QED
    BY <1>4, <2>3, EmptySeq
<1>11. QED
  BY <1>4, <1>5, <1>6, <1>9, <1>10 DEF evidence

-----------------------------------------------------------------------------
LEMMA QuotientIs ==
  ASSUME NEW a \in Nat, NEW d \in Nat, d > 0
  PROVE  a \div d \in Nat /\ (a \div d) * d =< a /\ a < (a \div d) * d + d
OBVIOUS

LEMMA TimesGrow ==
  ASSUME NEW a \in Nat, NEW b \in Nat, NEW d \in Nat, a < b
  PROVE  a * d + d =< b * d
OBVIOUS

LEMMA TimesOrder ==
  ASSUME NEW a \in Nat, NEW b \in Nat, NEW d \in Nat
  PROVE  a * d \in Nat /\ (a * d < b * d => a < b)
OBVIOUS

(* An episode is at least as long as it is far from the next, and longer   *)
(* by no more than the overlap.                                            *)
LEMMA StepIs ==
  ASSUME NEW size \in Int, NEW overlap \in Int
  PROVE  /\ StepOf(size, overlap) \in Nat /\ StepOf(size, overlap) > 0
         /\ Max({1, size}) \in Nat /\ Max({0, overlap}) \in Nat
         /\ StepOf(size, overlap) =< Max({1, size})
         /\ Max({1, size}) - StepOf(size, overlap) =< Max({0, overlap})
<1> DEFINE big == Max({1, size})
           shared == Max({0, overlap})
           step == Max({1, big - shared})
<1>1. big = IF 1 >= size THEN 1 ELSE size
  BY MaxOfTwo
<1>2. shared = IF 0 >= overlap THEN 0 ELSE overlap
  BY MaxOfTwo
<1>3. StepOf(size, overlap) = step
  BY DEF StepOf
<1> HIDE DEF big, shared
<1>4. big \in Nat /\ shared \in Nat /\ big >= 1
  BY <1>1, <1>2
<1>5. step = IF 1 >= big - shared THEN 1 ELSE big - shared
  BY <1>4, MaxOfTwo
<1> HIDE DEF step
<1>6. QED
  BY <1>3, <1>4, <1>5 DEF big, shared

(* The episode that begins at the from-th character of a text.             *)
LEMMA EpisodeIs ==
  ASSUME NEW text, IsList(text), NEW from \in Nat, NEW big \in Nat, big > 0, from < Len(text)
  PROVE  LET to == Min({from + big, Len(text)})
             c == Stripped(text, from, to)
             ink == InkIn(text, from, to)
         IN  /\ c = [from |-> c.from, to |-> c.to]
             /\ ink = {} => ~ (c.to > c.from)
             /\ ink # {} => /\ c.from \in Nat /\ c.to \in Nat /\ c.to > c.from
                            /\ c.from >= from /\ c.to =< from + big /\ c.to =< Len(text)
                            /\ text[c.from + 1] \notin Blank /\ text[c.to] \notin Blank
                            /\ \A i \in ink : c.from =< i /\ i < c.to
             /\ \A i \in Nat : i \in ink <=>
                  from =< i /\ i < from + big /\ i < Len(text) /\ text[i+1] \notin Blank
<1> DEFINE n == Len(text)
           to == Min({from + big, n})
           c == Stripped(text, from, to)
           ink == InkIn(text, from, to)
<1>1. n \in Nat
  BY DEF IsList
<1>2. to = IF from + big =< n THEN from + big ELSE n
  BY <1>1, MinOfTwo
<1>3. to \in Nat
  BY <1>1, <1>2
<1>4. /\ c = [from |-> c.from, to |-> c.to]
      /\ ink = {} => c.from = from /\ c.to = from
      /\ ink # {} => /\ c.from \in ink /\ c.to - 1 \in ink /\ c.to \in Nat /\ c.from < c.to
                     /\ \A i \in ink : c.from =< i /\ i < c.to
  BY <1>3, StrippedIs
<1>5. \A i \in Nat : i \in ink <=> from =< i /\ i < from + big /\ i < n /\ text[i+1] \notin Blank
  <2>1. \A i : i \in ink <=> i \in from..to-1 /\ text[i+1] \notin Blank
    BY DEF InkIn
  <2> HIDE DEF to, ink, n
  <2>2. QED
    BY <1>1, <1>2, <2>1
<1>6. \A i \in ink : i \in Nat
  BY DEF InkIn
<1> HIDE DEF to, c, ink, n
<1>7. ink = {} => ~ (c.to > c.from)
  BY <1>4
<1>8. ASSUME ink # {}
      PROVE  /\ c.from \in Nat /\ c.to \in Nat /\ c.to > c.from
             /\ c.from >= from /\ c.to =< from + big /\ c.to =< n
             /\ text[c.from + 1] \notin Blank /\ text[c.to] \notin Blank
  <2>1. /\ c.from \in ink /\ c.to - 1 \in ink /\ c.to \in Nat /\ c.from < c.to
        /\ c.from \in Nat /\ c.to - 1 \in Nat
    BY <1>4, <1>6, <1>8
  <2>2. from =< c.from /\ text[c.from + 1] \notin Blank
    BY <1>5, <2>1
  <2>3. c.to - 1 < from + big /\ c.to - 1 < n /\ text[(c.to - 1) + 1] \notin Blank
    BY <1>5, <2>1
  <2>4. (c.to - 1) + 1 = c.to /\ c.to =< from + big /\ c.to =< n /\ c.from >= from /\ c.to > c.from
    BY <1>1, <2>1, <2>2, <2>3
  <2>5. QED
    BY <2>1, <2>2, <2>3, <2>4
<1>9. QED
  BY <1>4, <1>5, <1>7, <1>8 DEF n, to, c, ink

(* The k-th episode, before the blank ones are dropped.                    *)
EpisodeAt(text, size, overlap, k) ==
  LET from == (k - 1) * StepOf(size, overlap)
  IN  Stripped(text, from, Min({from + Max({1, size}), Len(text)}))

HowMany(text, size, overlap) ==
  (Len(text) + StepOf(size, overlap) - 1) \div StepOf(size, overlap)

LEMMA HowManyIs ==
  ASSUME NEW L \in Nat, NEW step \in Nat, step > 0
  PROVE  LET n == (L + step - 1) \div step
         IN  /\ n \in Nat
             /\ \A k \in 1..n : (k - 1) * step \in Nat /\ (k - 1) * step < L
             /\ \A j \in Nat : j < L => \E k \in 1..n : (k - 1) * step =< j /\ j < (k - 1) * step + step
<1> DEFINE a == L + step - 1
           n == a \div step
<1>1. a \in Nat
  OBVIOUS
<1>2. n \in Nat /\ n * step =< a /\ a < n * step + step
  BY <1>1, QuotientIs
<1> HIDE DEF n
<1>3. ASSUME NEW k \in 1..n
      PROVE  (k - 1) * step \in Nat /\ (k - 1) * step < L
  <2>1. k - 1 \in Nat /\ k \in Nat /\ k - 1 < n
    BY <1>2
  <2>2. (k - 1) * step \in Nat /\ n * step \in Nat /\ (k - 1) * step + step =< n * step
    BY <1>2, <2>1, TimesGrow, TimesOrder
  <2> DEFINE x == (k - 1) * step
             y == n * step
  <2> HIDE DEF x, y
  <2>3. x \in Nat /\ y \in Nat /\ x + step =< y /\ y =< a
    BY <1>2, <2>2 DEF x, y
  <2>4. x < L
    BY <2>3
  <2>5. QED
    BY <2>3, <2>4 DEF x
<1>4. ASSUME NEW j \in Nat, j < L
      PROVE  \E k \in 1..n : (k - 1) * step =< j /\ j < (k - 1) * step + step
  <2> DEFINE q == j \div step
  <2>1. q \in Nat /\ q * step =< j /\ j < q * step + step
    BY QuotientIs
  <2> HIDE DEF q
  <2>2. q * step \in Nat /\ n * step \in Nat
    BY <1>2, <2>1, TimesOrder
  <2> DEFINE x == q * step
             y == n * step
  <2> HIDE DEF x, y
  <2>3. x \in Nat /\ y \in Nat /\ x =< j /\ a < y + step
    BY <1>2, <2>1, <2>2 DEF x, y
  <2>4. x < y
    BY <1>4, <2>3
  <2>5. q < n
    BY <1>2, <2>1, <2>4, TimesOrder DEF x, y
  <2>6. q + 1 \in 1..n /\ (q + 1) - 1 = q
    BY <1>2, <2>1, <2>5
  <2>7. ((q + 1) - 1) * step =< j /\ j < ((q + 1) - 1) * step + step
    BY <2>1, <2>6
  <2>8. QED
    BY <2>6, <2>7
<1>5. QED
  BY <1>2, <1>3, <1>4 DEF n

LEMMA EpisodesFound ==
  ASSUME NEW text, IsList(text), NEW size \in Int, NEW overlap \in Int
  PROVE  EpisodesCover(text, size, overlap, EpisodeChunks(text, size, overlap))
<1> DEFINE L == Len(text)
           step == StepOf(size, overlap)
           big == Max({1, size})
           shared == Max({0, overlap})
           n == (L + step - 1) \div step
           at(k) == (k - 1) * step
           all == [k \in 1..n |-> EpisodeAt(text, size, overlap, k)]
           S == {all[k] : k \in 1..n}
           set == {c \in ToSet(all) : c.to > c.from}
           cs == Those(all, set)
<1>1. EpisodeChunks(text, size, overlap) = cs
  BY DEF EpisodeChunks, EpisodeAt
<1>2. /\ step \in Nat /\ step > 0 /\ big \in Nat /\ shared \in Nat /\ step =< big
      /\ big - step =< shared
  BY StepIs
<1>3. L \in Nat /\ DOMAIN text = 1..L
  BY DEF IsList
<1>4. big > 0
  BY <1>2
<1> HIDE DEF step, big, shared, L
<1>5. /\ n \in Nat
      /\ \A k \in 1..n : at(k) \in Nat /\ at(k) < L
      /\ \A j \in Nat : j < L => \E k \in 1..n : at(k) =< j /\ j < at(k) + step
  BY <1>2, <1>3, HowManyIs
<1>6. \A i, j \in 1..n : i < j => at(i) + step =< at(j)
  <2> SUFFICES ASSUME NEW i \in 1..n, NEW j \in 1..n, i < j PROVE at(i) + step =< at(j)
    OBVIOUS
  <2>1. i - 1 \in Nat /\ j - 1 \in Nat /\ i - 1 < j - 1
    BY <1>5
  <2>2. QED
    BY <1>2, <2>1, TimesGrow
<1> HIDE DEF n
<1> DEFINE Here(k, i) == at(k) =< i /\ i < at(k) + big /\ i < L /\ text[i+1] \notin Blank
           EpisodeThere(k, c) == /\ c.from \in Nat /\ c.to \in Nat /\ c.to > c.from
                                 /\ c.from >= at(k) /\ c.to =< at(k) + big /\ c.to =< L
                                 /\ text[c.from + 1] \notin Blank /\ text[c.to] \notin Blank
                                 /\ \A i \in Nat : Here(k, i) => c.from =< i /\ i < c.to
                                 /\ Here(k, c.from)
<1>7. ASSUME NEW k \in 1..n
      PROVE  /\ all[k].to > all[k].from => EpisodeThere(k, all[k])
             /\ \A i \in Nat : Here(k, i) => EpisodeThere(k, all[k])
  <2> DEFINE from == at(k)
             to == Min({from + big, Len(text)})
             c == Stripped(text, from, to)
             ink == InkIn(text, from, to)
  <2>1. all[k] = c
    BY DEF EpisodeAt, step, big
  <2>2. from \in Nat /\ from < Len(text)
    BY <1>5 DEF L
  <2> HIDE DEF from
  <2>3. /\ ink = {} => ~ (c.to > c.from)
        /\ ink # {} => /\ c.from \in Nat /\ c.to \in Nat /\ c.to > c.from
                       /\ c.from >= from /\ c.to =< from + big /\ c.to =< Len(text)
                       /\ text[c.from + 1] \notin Blank /\ text[c.to] \notin Blank
                       /\ \A i \in ink : c.from =< i /\ i < c.to
        /\ \A i \in Nat : i \in ink <=>
             from =< i /\ i < from + big /\ i < Len(text) /\ text[i+1] \notin Blank
    BY <1>2, <1>4, <2>2, EpisodeIs
  <2> HIDE DEF c, ink, to, at, all
  <2>4. \A i \in Nat : i \in ink <=> Here(k, i)
    BY <2>3 DEF from, L
  <2>5. ASSUME ink # {}
        PROVE  EpisodeThere(k, c)
    <3>1. /\ c.from \in Nat /\ c.to \in Nat /\ c.to > c.from
          /\ c.from >= at(k) /\ c.to =< at(k) + big /\ c.to =< L
          /\ text[c.from + 1] \notin Blank /\ text[c.to] \notin Blank
          /\ \A i \in ink : c.from =< i /\ i < c.to
      BY <2>3, <2>5 DEF from, L
    <3>2. at(k) \in Nat
      BY <1>5
    <3>3. c.from < at(k) + big /\ c.from < L
      BY <1>2, <1>3, <3>1, <3>2
    <3>4. Here(k, c.from)
      BY <3>1, <3>3
    <3>5. \A i \in Nat : Here(k, i) => c.from =< i /\ i < c.to
      BY <2>4, <3>1
    <3>6. QED
      BY <3>1, <3>4, <3>5
  <2>6. QED
    BY <2>1, <2>3, <2>4, <2>5
<1>8. all \in [1..n -> S] /\ DOMAIN all = 1..n /\ \A k \in 1..n : all[k] \in ToSet(all)
  BY DEF ToSet
<1> HIDE DEF all, S
<1>9. all \in Seq(S) /\ Len(all) = n
  <2>1. all \in Seq(S)
    BY <1>5, <1>8, SeqDef
  <2>2. QED
    BY <1>5, <1>8, <2>1, LenProperties
<1>10. \A k \in 1..n : all[k] \in set <=> all[k].to > all[k].from
  BY <1>8
<1> HIDE DEF set
<1>11. cs \in Seq(S) /\ \E idx : PlacesOf(idx, cs, all, set, Len(all))
  BY <1>9, ThosePlaces
<1> HIDE DEF cs
<1>12. PICK idx : PlacesOf(idx, cs, all, set, n)
  BY <1>9, <1>11
<1> DEFINE m == Len(cs)
<1>13. /\ idx \in [1..m -> 1..n]
       /\ \A i \in 1..m : cs[i] = all[idx[i]] /\ all[idx[i]] \in set
       /\ \A i, j \in 1..m : i < j => idx[i] < idx[j]
       /\ \A k \in 1..n : all[k] \in set => \E i \in 1..m : idx[i] = k
  BY <1>12 DEF PlacesOf
<1>14. m \in Nat /\ DOMAIN cs = 1..m
  BY <1>11, LenProperties
<1> HIDE DEF m
<1>15. \A i \in 1..m : idx[i] \in 1..n /\ cs[i] = all[idx[i]] /\ EpisodeThere(idx[i], cs[i])
  <2>1. \A i \in 1..m : idx[i] \in 1..n /\ all[idx[i]].to > all[idx[i]].from
    BY <1>10, <1>13
  <2> HIDE DEF EpisodeThere, Here
  <2>2. QED
    BY <1>7, <1>13, <2>1
<1>16. ASSUME NEW i \in 1..L, text[i] \notin Blank
       PROVE  \E k \in 1..m : i \in cs[k].from + 1 .. cs[k].to
  <2>1. i - 1 \in Nat /\ i - 1 < L /\ (i - 1) + 1 = i
    BY <1>3
  <2>2. PICK k \in 1..n : at(k) =< i - 1 /\ i - 1 < at(k) + step
    BY <1>5, <2>1
  <2> HIDE DEF at
  <2>3. at(k) \in Nat
    BY <1>5
  <2>4. i - 1 < at(k) + big
    BY <1>2, <2>1, <2>2, <2>3
  <2>5. Here(k, i - 1)
    BY <1>16, <2>1, <2>2, <2>4
  <2>6. EpisodeThere(k, all[k])
    <3> HIDE DEF EpisodeThere, Here
    <3>1. QED
      BY <1>7, <2>1, <2>5
  <2>7. all[k].to > all[k].from /\ all[k].from =< i - 1 /\ i - 1 < all[k].to
        /\ all[k].from \in Nat /\ all[k].to \in Nat
    BY <2>1, <2>5, <2>6
  <2>8. all[k] \in set
    BY <1>10, <2>7
  <2>9. PICK p \in 1..m : idx[p] = k
    BY <1>13, <2>8
  <2>10. cs[p] = all[k]
    BY <1>13, <2>9
  <2>11. i \in all[k].from + 1 .. all[k].to
    BY <2>1, <2>7
  <2>12. QED
    BY <2>10, <2>11
<1>17. ASSUME NEW k \in 1..m
       PROVE  /\ cs[k].to - cs[k].from \in 1..big
              /\ {text[cs[k].from + 1], text[cs[k].to]} \intersect Blank = {}
  <2>1. idx[k] \in 1..n /\ EpisodeThere(idx[k], cs[k])
    BY <1>15
  <2>2. at(idx[k]) \in Nat
    BY <1>5, <2>1
  <2> HIDE DEF at
  <2>3. /\ cs[k].from \in Nat /\ cs[k].to \in Nat /\ cs[k].to > cs[k].from
        /\ cs[k].from >= at(idx[k]) /\ cs[k].to =< at(idx[k]) + big
        /\ text[cs[k].from + 1] \notin Blank /\ text[cs[k].to] \notin Blank
    BY <2>1
  <2>4. \A f, t, a, b \in Nat : t > f /\ f >= a /\ t =< a + b => t - f \in 1..b
    OBVIOUS
  <2>5. cs[k].to - cs[k].from \in 1..big
    BY <1>2, <2>2, <2>3, <2>4
  <2>6. QED
    BY <2>3, <2>5
<1>18. ASSUME NEW k \in 1..m-1
       PROVE  cs[k].from =< cs[k+1].from /\ cs[k].to - cs[k+1].from =< shared
  <2>1. k \in 1..m /\ k + 1 \in 1..m /\ k < k + 1
    BY <1>14
  <2> DEFINE i == idx[k]
             j == idx[k+1]
             c == cs[k]
             d == cs[k+1]
  <2>2. i \in 1..n /\ j \in 1..n /\ i < j /\ EpisodeThere(i, c) /\ EpisodeThere(j, d)
    BY <1>13, <1>15, <2>1
  <2> HIDE DEF i, j, c, d
  <2>3. at(i) \in Nat /\ at(j) \in Nat /\ at(i) + step =< at(j)
    BY <1>5, <1>6, <2>2
  <2> HIDE DEF at
  <2>4. /\ c.from \in Nat /\ c.to \in Nat /\ c.from >= at(i) /\ c.to =< at(i) + big /\ c.to > c.from
        /\ \A x \in Nat : Here(i, x) => c.from =< x
    <3>1. EpisodeThere(i, c)
      BY <2>2
    <3> HIDE DEF Here
    <3>2. QED
      BY <3>1
  <2>5. d.from \in Nat /\ d.from >= at(j) /\ d.from < L /\ text[d.from + 1] \notin Blank
    <3>1. EpisodeThere(j, d)
      BY <2>2
    <3>2. d.from \in Nat /\ d.from >= at(j) /\ Here(j, d.from)
      <4> HIDE DEF Here
      <4>1. QED
        BY <3>1
    <3>3. QED
      BY <3>2
  <2>6. c.from =< d.from
    <3> SUFFICES ASSUME d.from < c.from PROVE FALSE
      BY <2>4, <2>5
    <3>1. at(i) =< d.from /\ d.from < at(i) + big
      BY <1>2, <2>3, <2>4, <2>5
    <3>2. Here(i, d.from)
      BY <2>5, <3>1
    <3>3. c.from =< d.from
      BY <2>4, <2>5, <3>2
    <3>4. QED
      BY <2>4, <2>5, <3>3
  <2>7. c.to - d.from =< shared
    BY <1>2, <2>3, <2>4, <2>5
  <2>8. QED
    BY <2>6, <2>7 DEF c, d
<1>19. EpisodesCover(text, size, overlap, cs)
  <2>1. \A i \in DOMAIN text : text[i] \notin Blank => \E k \in DOMAIN cs : i \in cs[k].from + 1 .. cs[k].to
    BY <1>3, <1>14, <1>16
  <2>2. \A k \in DOMAIN cs : /\ cs[k].to - cs[k].from \in 1 .. Max({1, size})
                             /\ {text[cs[k].from + 1], text[cs[k].to]} \intersect Blank = {}
    BY <1>14, <1>17 DEF big
  <2>3. \A k \in 1 .. Len(cs) - 1 : /\ cs[k].from =< cs[k+1].from
                                    /\ cs[k].to - cs[k+1].from =< Max({0, overlap})
    BY <1>18 DEF m, shared
  <2>4. QED
    BY <2>1, <2>2, <2>3 DEF EpisodesCover
<1>20. QED
  BY <1>1, <1>19

-----------------------------------------------------------------------------
SeparatorSet == {<<".", " ">>, <<".", "\n">>, <<"\n", "\n">>, <<"\n">>}

LEMMA SeparatorsAre ==
  /\ Separators \in Seq(SeparatorSet) /\ ToSet(Separators) \subseteq SeparatorSet
  /\ \A sep \in SeparatorSet : Len(sep) \in {1, 2} /\ \E i \in DOMAIN Separators : Separators[i] = sep
<1>1. /\ DOMAIN Separators = 1..4
      /\ Separators[1] = <<".", " ">> /\ Separators[2] = <<".", "\n">>
      /\ Separators[3] = <<"\n", "\n">> /\ Separators[4] = <<"\n">>
  <2>1. \A a, b, c, d : LET s == <<a, b, c, d>>
                         IN  DOMAIN s = 1..4 /\ s[1] = a /\ s[2] = b /\ s[3] = c /\ s[4] = d
    OBVIOUS
  <2>2. QED
    BY <2>1 DEF Separators
<1>2. \A i \in 1..4 : i = 1 \/ i = 2 \/ i = 3 \/ i = 4
  OBVIOUS
<1>3. \A i \in 1..4 : Separators[i] \in SeparatorSet
  BY <1>1, <1>2 DEF SeparatorSet
<1>4. Separators \in Seq(SeparatorSet)
  <2>1. Separators \in Seq({<<".", " ">>, <<".", "\n">>, <<"\n", "\n">>, <<"\n">>})
    BY DEF Separators
  <2>2. QED
    BY <2>1 DEF SeparatorSet
<1>5. \A sep \in SeparatorSet : Len(sep) \in {1, 2}
  <2>1. \A a, b : Len(<<a>>) = 1 /\ Len(<<a, b>>) = 2
    OBVIOUS
  <2>2. QED
    BY <2>1 DEF SeparatorSet
<1>6. \A sep \in SeparatorSet : \E i \in 1..4 : Separators[i] = sep
  <2>1. 1 \in 1..4 /\ 2 \in 1..4 /\ 3 \in 1..4 /\ 4 \in 1..4
    OBVIOUS
  <2>2. QED
    BY <1>1, <2>1 DEF SeparatorSet
<1>7. QED
  BY <1>1, <1>3, <1>4, <1>5, <1>6 DEF ToSet

EndsAtSeparator(text, c) ==
  \E i \in DOMAIN Separators :
    LET sep == Separators[i]
    IN  c.to - Len(sep) > c.from /\ Slice(text, c.to - Len(sep), c.to) = sep

PieceOf(text, size, c) ==
  /\ c.from \in Nat /\ c.to \in Nat /\ c.to =< Len(text) /\ c.to - c.from \in 1..size
  /\ c.to = Len(text) \/ c.to - c.from = size \/ EndsAtSeparator(text, c)

LEMMA ChunkEndIs ==
  ASSUME NEW text, IsList(text), NEW size \in Int, NEW start \in Nat, start < Len(text)
  PROVE  LET e == ChunkEnd(text, size, start)
         IN  /\ e > start <=> size > 0
             /\ size > 0 => PieceOf(text, size, [from |-> start, to |-> e])
<1> DEFINE L == Len(text)
           end == Min({start + size, L})
           found == {sep \in ToSet(Separators) : \E i \in Finds(text, sep, start, end) : i > start}
           breaks == Those(Separators, found)
           e == ChunkEnd(text, size, start)
           sep == breaks[1]
           c == [from |-> start, to |-> e]
<1>1. L \in Nat
  BY DEF IsList
<1>2. end = IF start + size =< L THEN start + size ELSE L
  BY <1>1, MinOfTwo
<1>3. e = IF end = L \/ breaks = <<>> THEN end ELSE Max(Finds(text, sep, start, end)) + Len(sep)
  BY DEF ChunkEnd
<1>4. end \in Int /\ end =< L /\ end =< start + size /\ (end = L \/ end = start + size)
  <2> HIDE DEF end
  <2>1. QED
    BY <1>1, <1>2
<1>5. end > start <=> size > 0
  <2> HIDE DEF end
  <2>1. QED
    BY <1>1, <1>2
<1>6. /\ breaks \in Seq(SeparatorSet)
      /\ breaks # <<>> => sep \in SeparatorSet /\ \E i \in Finds(text, sep, start, end) : i > start
  <2> HIDE DEF found
  <2>1. /\ breaks \in Seq(SeparatorSet)
        /\ breaks # <<>> => sep \in ToSet(Separators) \intersect found
    BY SeparatorsAre, ThoseAre
  <2>2. QED
    BY <2>1, SeparatorsAre DEF found
<1>7. \A i : i \in Finds(text, sep, start, end) =>
        i \in start..end - Len(sep) /\ Slice(text, i, i + Len(sep)) = sep
  BY DEF Finds
<1>c. c.from = start /\ c.to = e
  OBVIOUS
<1> HIDE DEF end, breaks, sep, e, c, L
<1>8. CASE end = L \/ breaks = <<>>
  <2>1. e = end
    BY <1>3, <1>8
  <2>2. ASSUME size > 0
        PROVE  PieceOf(text, size, c)
    <3>1. end \in Nat /\ end - start \in 1..size
      BY <1>4, <1>5, <2>2
    <3>2. end = L \/ end - start = size
      BY <1>4
    <3>3. QED
      BY <1>1, <1>4, <1>c, <2>1, <3>1, <3>2 DEF PieceOf, L
  <2>3. QED
    BY <1>5, <2>1, <2>2 DEF e, c
<1>9. CASE end # L /\ breaks # <<>>
  <2> DEFINE F == Finds(text, sep, start, end)
             m == Max(F)
  <2>1. sep \in SeparatorSet /\ Len(sep) \in {1, 2} /\ \E i \in F : i > start
    BY <1>6, <1>9, SeparatorsAre
  <2>2. e = m + Len(sep)
    BY <1>3, <1>9
  <2>3. PICK p \in F : p > start
    BY <2>1
  <2>4. \A i \in F : i \in start..end - Len(sep) /\ Slice(text, i, i + Len(sep)) = sep
    BY <1>7
  <2> HIDE DEF F
  <2>5. \A i \in F : i \in Nat /\ start =< i /\ i =< end - Len(sep)
    BY <1>4, <2>1, <2>4
  <2>6. end \in Nat
    BY <1>4, <2>1, <2>3, <2>5
  <2>7. F \subseteq Nat /\ F # {} /\ \A i \in F : i =< end
    BY <2>1, <2>3, <2>5, <2>6
  <2>8. m \in F /\ \A i \in F : i =< m
    BY <2>6, <2>7, GreatestIs
  <2> HIDE DEF m
  <2>9. /\ m \in Nat /\ m > start /\ m + Len(sep) =< end /\ m + Len(sep) \in Nat
        /\ Slice(text, m, m + Len(sep)) = sep
    BY <2>1, <2>3, <2>4, <2>5, <2>6, <2>8
  <2>10. e \in Nat /\ e > start /\ e =< L /\ e =< end /\ e - Len(sep) = m
    BY <1>1, <1>4, <2>1, <2>2, <2>6, <2>9
  <2>11. size > 0
    BY <1>5, <2>6, <2>10
  <2>12. EndsAtSeparator(text, c)
    <3>1. PICK i \in DOMAIN Separators : Separators[i] = sep
      BY <2>1, SeparatorsAre
    <3>2. c.to - Len(sep) > c.from /\ Slice(text, c.to - Len(sep), c.to) = sep
      BY <1>c, <2>2, <2>9, <2>10
    <3>3. QED
      BY <3>1, <3>2 DEF EndsAtSeparator
  <2>13. e - start \in 1..size
    BY <1>4, <2>6, <2>10
  <2>14. PieceOf(text, size, c)
    BY <1>c, <2>10, <2>12, <2>13 DEF PieceOf, L
  <2>15. QED
    BY <2>10, <2>11, <2>14 DEF e, c
<1>10. QED
  BY <1>8, <1>9

(* The pieces of a text from a place of it to its end.                     *)
PiecesOf(text, size, from, cs) ==
  /\ cs \in Seq([from : Nat, to : Nat])
  /\ from = Len(text) => cs = <<>>
  /\ from < Len(text) => /\ cs # <<>> /\ cs[1].from = from /\ cs[Len(cs)].to = Len(text)
  /\ \A i \in 1..Len(cs) : PieceOf(text, size, cs[i])
  /\ \A i \in 1..Len(cs)-1 :
       cs[i].to = cs[i+1].from /\ (cs[i].to - cs[i].from = size \/ EndsAtSeparator(text, cs[i]))

LEMMA PiecesGrow ==
  ASSUME NEW text, IsList(text), NEW size, NEW from \in Nat, NEW end \in Nat,
         from < Len(text), end =< Len(text), NEW cs, PiecesOf(text, size, end, cs),
         PieceOf(text, size, [from |-> from, to |-> end])
  PROVE  PiecesOf(text, size, from, <<[from |-> from, to |-> end]>> \o cs)
<1> DEFINE c == [from |-> from, to |-> end]
           L == Len(text)
           n == Len(cs)
           P == [from : Nat, to : Nat]
           all == <<c>> \o cs
<1>1. L \in Nat
  BY DEF IsList
<1>2. /\ cs \in Seq(P) /\ n \in Nat
      /\ end = L => cs = <<>>
      /\ end < L => cs # <<>> /\ cs[1].from = end /\ cs[n].to = L
      /\ \A i \in 1..n : PieceOf(text, size, cs[i])
      /\ \A i \in 1..n-1 :
           cs[i].to = cs[i+1].from /\ (cs[i].to - cs[i].from = size \/ EndsAtSeparator(text, cs[i]))
  BY LenProperties DEF PiecesOf
<1>3. c \in P /\ c.from = from /\ c.to = end
  OBVIOUS
<1>p. PieceOf(text, size, c)
  OBVIOUS
<1> HIDE DEF c, P, L
<1>4. /\ all \in Seq(P) /\ Len(all) = n + 1 /\ all[1] = c
      /\ \A i \in 1..n : all[i+1] = cs[i]
  BY <1>2, <1>3
<1>e. n = 0 <=> cs = <<>>
  BY <1>2, EmptySeq
<1> HIDE DEF all, n
<1>5. all # <<>>
  <2>1. Len(all) # 0
    BY <1>2, <1>4
  <2>2. QED
    BY <1>4, <2>1, EmptySeq
<1>6. end = L \/ end < L
  BY <1>1 DEF L
<1>7. all[n+1].to = L
  <2>1. CASE n = 0
    <3>1. end = L
      BY <1>2, <1>6, <1>e, <2>1
    <3>2. QED
      BY <1>3, <1>4, <2>1, <3>1
  <2>2. CASE n # 0
    <3>1. cs # <<>>
      BY <1>e, <2>2
    <3>2. end # L
      BY <1>2, <3>1
    <3>3. cs[n].to = L /\ n \in 1..n
      BY <1>2, <1>6, <2>2, <3>2
    <3>4. QED
      BY <1>4, <3>3
  <2>3. QED
    BY <2>1, <2>2
<1>8. ASSUME NEW i \in 1..n+1
      PROVE  PieceOf(text, size, all[i])
  <2>1. CASE i = 1
    BY <1>4, <1>p, <2>1
  <2>2. CASE i # 1
    <3>1. i - 1 \in 1..n /\ (i - 1) + 1 = i
      BY <1>2, <2>2
    <3>2. all[i] = cs[i-1]
      BY <1>4, <3>1
    <3>3. QED
      BY <1>2, <3>1, <3>2
  <2>3. QED
    BY <2>1, <2>2
<1>9. ASSUME NEW i \in 1..n
      PROVE  all[i].to = all[i+1].from /\ (all[i].to - all[i].from = size \/ EndsAtSeparator(text, all[i]))
  <2>1. all[i+1] = cs[i]
    BY <1>4
  <2>2. CASE i = 1
    <3>1. n # 0
      BY <1>2, <2>2
    <3>2. end # L
      BY <1>2, <1>e, <3>1
    <3>3. cs[1].from = end
      BY <1>2, <1>6, <3>2
    <3>4. c.to - c.from = size \/ EndsAtSeparator(text, c)
      BY <1>3, <1>p, <3>2 DEF PieceOf, L
    <3>5. QED
      BY <1>3, <1>4, <2>1, <2>2, <3>3, <3>4
  <2>3. CASE i # 1
    <3>1. i - 1 \in 1..n-1 /\ i - 1 \in 1..n /\ (i - 1) + 1 = i
      BY <1>2, <2>3
    <3>2. all[i] = cs[i-1]
      BY <1>4, <3>1
    <3>3. /\ cs[i-1].to = cs[i].from
          /\ cs[i-1].to - cs[i-1].from = size \/ EndsAtSeparator(text, cs[i-1])
      BY <1>2, <3>1
    <3>4. QED
      BY <2>1, <3>2, <3>3
  <2>4. QED
    BY <2>2, <2>3
<1>10. (n + 1) - 1 = n /\ from # L
  BY <1>1, <1>2 DEF L
<1>11. PiecesOf(text, size, from, all)
  BY <1>3, <1>4, <1>5, <1>7, <1>8, <1>9, <1>10 DEF PiecesOf, P, L
<1>12. QED
  BY <1>11 DEF all, c

ChunkBody(text, size, h, start) ==
  IF start = Len(text) THEN <<>>
  ELSE <<[from |-> start, to |-> ChunkEnd(text, size, start)]>> \o h[ChunkEnd(text, size, start)]

ChunkStep(text, size, h) == [start \in 0..Len(text) |-> ChunkBody(text, size, h, start)]
ChunksFrom(text, size) == CHOOSE h : h = ChunkStep(text, size, h)

(* A function that says of each place what the pieces from there on are    *)
(* is made from the end of the text backwards.                             *)
LEMMA ChunksRun ==
  ASSUME NEW text, IsList(text), NEW size \in Int, size > 0
  PROVE  /\ ChunksFrom(text, size) = ChunkStep(text, size, ChunksFrom(text, size))
         /\ Chunks(text, size) = ChunksFrom(text, size)[0]
<1> DEFINE L == Len(text)
           E(s) == ChunkEnd(text, size, s)
           Body(h, s) == ChunkBody(text, size, h, s)
           Good(h, m) == h = [s \in 0..L |-> h[s]] /\ \A s \in L-m..L : h[s] = Body(h, s)
           T == {m \in Nat : m =< L => \E h : Good(h, m)}
<1>1. L \in Nat
  BY DEF IsList
<1>2. \A s \in Nat : s < L => E(s) \in Nat /\ E(s) > s /\ E(s) =< L
  <2> SUFFICES ASSUME NEW s \in Nat, s < L PROVE E(s) \in Nat /\ E(s) > s /\ E(s) =< L
    OBVIOUS
  <2>1. E(s) > s /\ PieceOf(text, size, [from |-> s, to |-> E(s)])
    BY ChunkEndIs
  <2>2. QED
    BY <2>1 DEF PieceOf
<1>3. /\ \A h, s : s = L => Body(h, s) = <<>>
      /\ \A h, s : s # L => Body(h, s) = <<[from |-> s, to |-> E(s)]>> \o h[E(s)]
  BY DEF ChunkBody
<1> HIDE DEF E, Body, L
<1>4. 0 \in T
  <2> DEFINE h == [s \in 0..L |-> <<>>]
  <2>1. \A s \in L-0..L : s = L /\ s \in 0..L
    BY <1>1
  <2>2. \A s \in L-0..L : h[s] = Body(h, s)
    BY <1>3, <2>1
  <2>3. h = [s \in 0..L |-> h[s]]
    OBVIOUS
  <2>4. Good(h, 0)
    BY <2>2, <2>3
  <2>5. QED
    BY <2>4
<1>5. ASSUME NEW m \in Nat, m \in T
      PROVE  m + 1 \in T
  <2> SUFFICES ASSUME m + 1 =< L PROVE \E g : Good(g, m + 1)
    OBVIOUS
  <2>1. m =< L /\ m \in Nat
    BY <1>1
  <2>2. PICK h : Good(h, m)
    BY <1>5, <2>1
  <2> DEFINE p == L - (m + 1)
             g == [s \in 0..L |-> IF s = p THEN Body(h, p) ELSE h[s]]
  <2>3. p \in Nat /\ p < L /\ p \in 0..L
    BY <1>1
  <2>4. \A s \in p..L : s = p \/ (s \in L-m..L /\ s > p)
    BY <1>1
  <2>5. \A s \in 0..L : s > p => g[s] = h[s]
    BY <2>3
  <2>6. g[p] = Body(h, p)
    BY <2>3
  <2>7. g = [s \in 0..L |-> g[s]]
    OBVIOUS
  <2> HIDE DEF g
  <2>8. \A s \in p..L : s \in 0..L /\ s \in Nat /\ s =< L
    BY <2>3
  <2>9. ASSUME NEW s \in p..L
        PROVE  Body(g, s) = Body(h, s)
    <3>1. CASE s = L
      BY <1>3, <3>1
    <3>2. CASE s # L
      <4>1. s < L /\ s \in Nat /\ p =< s
        BY <1>1, <2>3, <2>8, <3>2
      <4>2. E(s) \in Nat /\ E(s) > s /\ E(s) =< L
        BY <1>2, <4>1
      <4>3. E(s) \in 0..L /\ E(s) > p
        BY <1>1, <2>3, <4>1, <4>2
      <4>4. g[E(s)] = h[E(s)]
        BY <2>5, <4>3
      <4>5. QED
        BY <1>3, <3>2, <4>4
    <3>3. QED
      BY <3>1, <3>2
  <2>10. ASSUME NEW s \in p..L
         PROVE  g[s] = Body(g, s)
    <3>1. CASE s = p
      BY <2>6, <2>9, <3>1
    <3>2. CASE s # p
      <4>1. s \in L-m..L /\ s > p /\ s \in 0..L
        BY <2>4, <2>8, <3>2
      <4>2. g[s] = h[s] /\ h[s] = Body(h, s)
        BY <2>2, <2>5, <4>1
      <4>3. QED
        BY <2>9, <4>2
    <3>3. QED
      BY <3>1, <3>2
  <2>11. Good(g, m + 1)
    BY <2>7, <2>10
  <2>12. QED
    BY <2>11
<1>6. L \in T
  <2> HIDE DEF T
  <2>1. QED
    BY <1>1, <1>4, <1>5, SetInduction
<1>7. L =< L /\ L - L = 0
  BY <1>1
<1>8. PICK h : Good(h, L)
  BY <1>6, <1>7
<1>9. h = [s \in 0..L |-> Body(h, s)]
  BY <1>7, <1>8
<1>10. h = ChunkStep(text, size, h)
  BY <1>9 DEF ChunkStep, Body, L
<1>11. ChunksFrom(text, size) = ChunkStep(text, size, ChunksFrom(text, size))
  BY <1>10 DEF ChunksFrom
<1>12. Chunks(text, size) = ChunksFrom(text, size)[0]
  BY DEF Chunks, ChunksFrom, ChunkStep, ChunkBody
<1>13. QED
  BY <1>11, <1>12

LEMMA ChunksAre ==
  ASSUME NEW text, IsList(text), NEW size \in Int, size > 0
  PROVE  PiecesOf(text, size, 0, Chunks(text, size))
<1> DEFINE L == Len(text)
           f == ChunksFrom(text, size)
           E(s) == ChunkEnd(text, size, s)
           T == {m \in Nat : m =< L => \A s \in L-m..L : PiecesOf(text, size, s, f[s])}
<1>1. L \in Nat
  BY DEF IsList
<1>2. f = ChunkStep(text, size, f) /\ Chunks(text, size) = f[0]
  BY ChunksRun
<1>3. \A s \in 0..L : f[s] = ChunkBody(text, size, f, s)
  <2> HIDE DEF f
  <2>1. QED
    BY <1>2 DEF ChunkStep
<1>4. /\ f[L] = <<>>
      /\ \A s \in 0..L : s # L => f[s] = <<[from |-> s, to |-> E(s)]>> \o f[E(s)]
  <2>1. L \in 0..L
    BY <1>1
  <2> HIDE DEF f
  <2>2. QED
    BY <1>3, <2>1 DEF ChunkBody
<1> HIDE DEF f, E
<1>5. \A s \in Nat : s < L => /\ E(s) \in Nat /\ E(s) > s /\ E(s) =< L
                              /\ PieceOf(text, size, [from |-> s, to |-> E(s)])
  <2> SUFFICES ASSUME NEW s \in Nat, s < L
               PROVE  /\ E(s) \in Nat /\ E(s) > s /\ E(s) =< L
                      /\ PieceOf(text, size, [from |-> s, to |-> E(s)])
    OBVIOUS
  <2>1. E(s) > s /\ PieceOf(text, size, [from |-> s, to |-> E(s)])
    BY ChunkEndIs DEF E
  <2>2. QED
    BY <2>1 DEF PieceOf
<1>6. PiecesOf(text, size, L, <<>>)
  <2>1. <<>> \in Seq([from : Nat, to : Nat]) /\ Len(<<>>) = 0 /\ 1..0 = {} /\ 1..0-1 = {} /\ ~ (L < L)
    BY <1>1
  <2>2. QED
    BY <2>1 DEF PiecesOf
<1> HIDE DEF L
<1>7. 0 \in T
  <2>1. \A s \in L-0..L : s = L
    BY <1>1
  <2>2. QED
    BY <1>4, <1>6, <2>1
<1>8. ASSUME NEW m \in Nat, m \in T
      PROVE  m + 1 \in T
  <2> SUFFICES ASSUME m + 1 =< L, NEW s \in L-(m+1)..L PROVE PiecesOf(text, size, s, f[s])
    OBVIOUS
  <2>1. m =< L /\ \A t \in L-m..L : PiecesOf(text, size, t, f[t])
    BY <1>1, <1>8
  <2>2. CASE s \in L-m..L
    BY <2>1, <2>2
  <2>3. CASE s \notin L-m..L
    <3>1. s \in Nat /\ s < L /\ s \in 0..L /\ s # L /\ s + 1 = L - m
      BY <1>1, <2>1, <2>3
    <3>2. E(s) \in Nat /\ E(s) > s /\ E(s) =< L /\ PieceOf(text, size, [from |-> s, to |-> E(s)])
      BY <1>5, <3>1
    <3>3. E(s) \in L-m..L
      BY <1>1, <2>1, <3>1, <3>2
    <3>4. PiecesOf(text, size, E(s), f[E(s)])
      BY <2>1, <3>3
    <3>5. PiecesOf(text, size, s, <<[from |-> s, to |-> E(s)]>> \o f[E(s)])
      BY <3>1, <3>2, <3>4, PiecesGrow DEF L
    <3>6. QED
      BY <1>4, <3>1, <3>5
  <2>4. QED
    BY <2>2, <2>3
<1>9. L \in T
  <2> HIDE DEF T
  <2>1. QED
    BY <1>1, <1>7, <1>8, SetInduction
<1>10. 0 \in L-L..L /\ L =< L
  BY <1>1
<1>11. PiecesOf(text, size, 0, f[0])
  BY <1>9, <1>10
<1>12. QED
  BY <1>2, <1>11 DEF f

LEMMA RagChunksFound ==
  ASSUME NEW text, IsList(text), NEW size \in Int
  PROVE  RagChunksCover(text, size, RagChunks(text, size))
<1> DEFINE L == Len(text)
           a == RagChunks(text, size)
<1>1. L \in Nat /\ (L = 0 <=> text = <<>>)
  <2>1. text \in Seq(ToSet(text))
    BY DEF IsList
  <2>2. QED
    BY <2>1, LenProperties, EmptySeq
<1>2. \A s \in Nat : s < L => (ChunkEnd(text, size, s) > s <=> size > 0)
  <2> SUFFICES ASSUME NEW s \in Nat, s < L PROVE ChunkEnd(text, size, s) > s <=> size > 0
    OBVIOUS
  <2>1. QED
    BY ChunkEndIs
<1>3. Advances(text, size) <=> size > 0 \/ text = <<>>
  <2>1. Advances(text, size) <=> \A s \in 0..L-1 : ChunkEnd(text, size, s) > s
    BY DEF Advances
  <2> HIDE DEF L
  <2>2. \A s \in 0..L-1 : s \in Nat /\ s < L
    BY <1>1
  <2>3. Advances(text, size) <=> \A s \in 0..L-1 : size > 0
    BY <1>2, <2>1, <2>2
  <2>4. L # 0 => 0 \in 0..L-1
    BY <1>1
  <2>5. L = 0 => 0..L-1 = {}
    OBVIOUS
  <2>6. QED
    BY <1>1, <2>3, <2>4, <2>5
<1>4. a = IF Advances(text, size) THEN [ends |-> TRUE, chunks |-> Chunks(text, size)]
          ELSE [ends |-> FALSE, chunks |-> <<>>]
  BY DEF RagChunks
<1>5. a.ends <=> size > 0 \/ text = <<>>
  <2> HIDE DEF a
  <2>1. QED
    BY <1>3, <1>4
<1>6. CASE ~ (a.ends /\ text # <<>>)
  BY <1>5, <1>6 DEF RagChunksCover
<1>7. CASE a.ends /\ text # <<>>
  <2> DEFINE cs == a.chunks
             n == Len(cs)
  <2>1. size > 0 /\ cs = Chunks(text, size)
    BY <1>3, <1>4, <1>5, <1>7
  <2>2. PiecesOf(text, size, 0, cs)
    <3> HIDE DEF cs
    <3>1. QED
      BY <2>1, ChunksAre
  <2> HIDE DEF cs, a
  <2>3. 0 < L
    BY <1>1, <1>7
  <2>4. /\ cs \in Seq([from : Nat, to : Nat]) /\ cs # <<>> /\ cs[1].from = 0 /\ cs[n].to = L
        /\ \A i \in 1..n : PieceOf(text, size, cs[i])
        /\ \A i \in 1..n-1 :
             cs[i].to = cs[i+1].from /\ (cs[i].to - cs[i].from = size \/ EndsAtSeparator(text, cs[i]))
    BY <2>2, <2>3 DEF PiecesOf
  <2>5. DOMAIN cs = 1..n
    BY <2>4, LenProperties
  <2>6. \A i \in 1..n : cs[i].to - cs[i].from \in 1..size
    BY <2>4 DEF PieceOf
  <2>7. Last(cs) = cs[n]
    BY DEF Last
  <2>8. RagChunksCover(text, size, a)
    BY <1>5, <1>7, <2>4, <2>5, <2>6, <2>7 DEF RagChunksCover, cs, EndsAtSeparator
  <2>9. QED
    BY <2>8 DEF a
<1>8. QED
  BY <1>6, <1>7

-----------------------------------------------------------------------------
LEMMA SaysConcat ==
  ASSUME NEW S, NEW s \in Seq(S), NEW t \in Seq(S)
  PROVE  Says(s \o t) <=> Says(s) \/ Says(t)
<1>1. Ink(s \o t) = Ink(s) \o Ink(t) /\ Ink(s) \in Seq(S) /\ Ink(t) \in Seq(S) /\ s \o t \in Seq(S)
  <2>1. s \o t \in Seq(S)
    OBVIOUS
  <2>2. QED
    BY <2>1, InkConcat, InkIs
<1>2. \A u, v \in Seq(S) : u \o v = <<>> <=> u = <<>> /\ v = <<>>
  <2> SUFFICES ASSUME NEW u \in Seq(S), NEW v \in Seq(S) PROVE u \o v = <<>> <=> u = <<>> /\ v = <<>>
    OBVIOUS
  <2>1. /\ Len(u \o v) = Len(u) + Len(v) /\ Len(u) \in Nat /\ Len(v) \in Nat
        /\ u \o v \in Seq(S)
    BY LenProperties
  <2>2. /\ Len(u) = 0 <=> u = <<>>
        /\ Len(v) = 0 <=> v = <<>>
        /\ Len(u \o v) = 0 <=> u \o v = <<>>
    BY <2>1, EmptySeq
  <2>3. QED
    BY <2>1, <2>2
<1>3. QED
  BY <1>1, <1>2, InkIs

LEMMA SaysAnyConcat ==
  ASSUME NEW T, NEW s \in Seq(T), NEW t \in Seq(T)
  PROVE  SaysAny(s \o t) <=> SaysAny(s) \/ SaysAny(t)
<1>1. \A u \in Seq(T) : SaysAny(u) <=> \E x \in ToSet(u) : Says(x)
  BY DEF SaysAny, ToSet
<1>2. ToSet(s \o t) = ToSet(s) \union ToSet(t) /\ s \o t \in Seq(T)
  BY ToSetConcat
<1>3. QED
  BY <1>1, <1>2

JoinedRun(F, texts, S) ==
  /\ F \in [0..Len(texts) -> Seq(S)]
  /\ F[0] = <<>> /\ F[Len(texts)] = Joined(texts)
  /\ \A k \in 1..Len(texts) : F[k] = F[k-1] \o texts[k]

LEMMA JoinedSteps ==
  ASSUME NEW S, NEW texts \in Seq(Seq(S))
  PROVE  \E F : JoinedRun(F, texts, S)
<1> DEFINE n == Len(texts)
           A == Seq(S)
           G == [p \in (1..n) \X A |-> p[2] \o texts[p[1]]]
           Step(z) == [q \in SUBSET DOMAIN texts |->
                         IF q = {} THEN <<>> ELSE z[q \ {Max(q)}] \o texts[Max(q)]]
           iter == CHOOSE z : z = Step(z)
<1>1. n \in Nat /\ DOMAIN texts = 1..n /\ \A k \in 1..n : texts[k] \in A
  BY LenProperties, ElementOfSeq
<1>b. <<>> \in A
  OBVIOUS
<1>t. \A k \in 1..n, v \in A : v \o texts[k] \in A
  BY <1>1
<1> HIDE DEF A, n
<1>2. G \in [(1..n) \X A -> A] /\ \A k \in 1..n, v \in A : G[<<k, v>>] = v \o texts[k]
  <2>1. \A p \in (1..n) \X A : p[1] \in 1..n /\ p[2] \in A
    OBVIOUS
  <2>2. \A p \in (1..n) \X A : p[2] \o texts[p[1]] \in A
    BY <1>t, <2>1
  <2>3. G \in [(1..n) \X A -> A]
    BY <2>2
  <2>4. ASSUME NEW k \in 1..n, NEW v \in A
        PROVE  G[<<k, v>>] = v \o texts[k]
    <3>1. <<k, v>> \in (1..n) \X A /\ <<k, v>>[1] = k /\ <<k, v>>[2] = v
      BY Zenon
    <3>2. QED
      BY <3>1, Zenon
  <2>5. QED
    BY <2>3, <2>4
<1>4. iter = Step(iter)
  <2>1. PICK h : Iterates(h, n, A, <<>>, G)
    <3> HIDE DEF G
    <3>1. QED
      BY <1>1, <1>b, <1>2, IterationExists
  <2>2. /\ h \in [SUBSET (1..n) -> A]
        /\ \A q \in SUBSET (1..n) : h[q] = IF q = {} THEN <<>> ELSE G[<<Max(q), h[q \ {Max(q)}]>>]
    BY <2>1 DEF Iterates
  <2>3. \A q \in SUBSET (1..n) : q # {} => Max(q) \in 1..n /\ h[q \ {Max(q)}] \in A
    BY <1>1, <2>2, MaxIn
  <2> HIDE DEF G
  <2>4. ASSUME NEW q \in SUBSET (1..n)
        PROVE  h[q] = Step(h)[q]
    <3>1. CASE q = {}
      BY <1>1, <2>2, <3>1
    <3>2. CASE q # {}
      BY <1>1, <1>2, <2>2, <2>3, <3>2
    <3>3. QED
      BY <3>1, <3>2
  <2>5. h = Step(h)
    BY <1>1, <2>2, <2>4
  <2>6. QED
    BY <2>5, Zenon
<1>5. Joined(texts) = iter[1..n]
  BY <1>1 DEF Joined, FoldLeft, MapThenFoldSet
<1> HIDE DEF iter, G
<1>6. iter[{}] = <<>>
  BY <1>4
<1>7. ASSUME NEW k \in 1..n, iter[1..k-1] \in A
      PROVE  iter[1..k] = G[<<k, iter[1..k-1]>>]
  <2>1. /\ Max(1..k) = k /\ (1..k) # {} /\ (1..k) \ {Max(1..k)} = 1..k-1
        /\ (1..k) \in SUBSET DOMAIN texts
    BY <1>1, MaxOfPrefix
  <2>2. iter[1..k] = Step(iter)[1..k]
    BY <1>4
  <2>3. iter[1..k] = iter[1..k-1] \o texts[k]
    BY <2>1, <2>2
  <2>4. QED
    BY <1>2, <1>7, <2>3
<1>8. PICK F : IsRun(F, iter, n, A, <<>>, G)
  <2>1. RunsOver(iter, n, A, <<>>, G)
    BY <1>6, <1>7 DEF RunsOver
  <2>2. QED
    BY <1>1, <1>b, <2>1, <1>2, PrefixRuns
<1>9. F \in [0..n -> A] /\ F[n] = iter[1..n] /\ F[0] = <<>> /\ \A k \in 1..n : F[k] = G[<<k, F[k-1]>>]
  BY <1>8 DEF IsRun
<1>10. \A k \in 1..n : F[k-1] \in A
  <2>1. \A k \in 1..n : k - 1 \in 0..n
    BY <1>1
  <2>2. QED
    BY <1>9, <2>1
<1>11. \A k \in 1..n : F[k] = F[k-1] \o texts[k]
  BY <1>2, <1>9, <1>10
<1>12. JoinedRun(F, texts, S)
  BY <1>5, <1>9, <1>11 DEF JoinedRun, n, A
<1>13. QED
  BY <1>12

LEMMA JoinedIs ==
  ASSUME NEW S, NEW texts \in Seq(Seq(S))
  PROVE  /\ Joined(texts) \in Seq(S)
         /\ Says(Joined(texts)) <=> SaysAny(texts)
<1> DEFINE n == Len(texts)
<1>1. PICK F : JoinedRun(F, texts, S)
  BY JoinedSteps
<1>2. /\ F \in [0..n -> Seq(S)] /\ F[0] = <<>> /\ F[n] = Joined(texts)
      /\ \A k \in 1..n : F[k] = F[k-1] \o texts[k]
  BY <1>1 DEF JoinedRun
<1>3. n \in Nat /\ DOMAIN texts = 1..n /\ \A k \in 1..n : texts[k] \in Seq(S)
  BY LenProperties, ElementOfSeq
<1> HIDE DEF n
<1> DEFINE T == {k \in Nat : k =< n => (Says(F[k]) <=> \E i \in 1..k : Says(texts[i]))}
<1>4. 0 \in T
  <2>1. ~ Says(<<>>) /\ 1..0 = {}
    BY DEF Says
  <2>2. QED
    BY <1>2, <2>1
<1>5. ASSUME NEW k \in Nat, k \in T
      PROVE  k + 1 \in T
  <2> SUFFICES ASSUME k + 1 =< n PROVE Says(F[k+1]) <=> \E i \in 1..k+1 : Says(texts[i])
    OBVIOUS
  <2>1. k + 1 \in 1..n /\ (k + 1) - 1 = k /\ k \in 0..n /\ k =< n
    BY <1>3
  <2>2. F[k] \in Seq(S) /\ texts[k+1] \in Seq(S) /\ F[k+1] = F[k] \o texts[k+1]
    BY <1>2, <1>3, <2>1
  <2>3. Says(F[k+1]) <=> Says(F[k]) \/ Says(texts[k+1])
    BY <2>2, SaysConcat
  <2>4. Says(F[k]) <=> \E i \in 1..k : Says(texts[i])
    BY <1>5, <2>1
  <2>5. \A i : i \in 1..k+1 <=> i \in 1..k \/ i = k + 1
    OBVIOUS
  <2>6. QED
    BY <2>3, <2>4, <2>5
<1>6. n \in T
  <2> HIDE DEF T
  <2>1. QED
    BY <1>3, <1>4, <1>5, SetInduction
<1>7. n =< n /\ n \in 0..n
  BY <1>3
<1>8. QED
  BY <1>2, <1>3, <1>6, <1>7 DEF SaysAny

LEMMA JoinedAppend ==
  ASSUME NEW S, NEW s \in Seq(Seq(S)), NEW x \in Seq(S)
  PROVE  Joined(Append(s, x)) = Joined(s) \o x /\ Joined(<<>>) = <<>>
<1> DEFINE n == Len(s)
           r == Append(s, x)
<1>1. /\ r \in Seq(Seq(S)) /\ n \in Nat /\ Len(r) = n + 1 /\ r[n+1] = x
      /\ \A k \in 1..n : r[k] = s[k]
  BY AppendProperties, LenProperties
<1> HIDE DEF n, r
<1>2. PICK F : JoinedRun(F, s, S)
  BY JoinedSteps
<1>3. PICK G : JoinedRun(G, r, S)
  BY <1>1, JoinedSteps
<1>4. /\ F \in [0..n -> Seq(S)] /\ F[0] = <<>> /\ F[n] = Joined(s)
      /\ \A k \in 1..n : F[k] = F[k-1] \o s[k]
  BY <1>2 DEF JoinedRun, n
<1>5. /\ G[0] = <<>> /\ G[n+1] = Joined(r)
      /\ \A k \in 1..n+1 : G[k] = G[k-1] \o r[k]
  BY <1>1, <1>3 DEF JoinedRun
<1> DEFINE T == {k \in Nat : k =< n => G[k] = F[k]}
<1>6. 0 \in T
  BY <1>4, <1>5
<1>7. ASSUME NEW k \in Nat, k \in T
      PROVE  k + 1 \in T
  <2> SUFFICES ASSUME k + 1 =< n PROVE G[k+1] = F[k+1]
    OBVIOUS
  <2>1. k + 1 \in 1..n /\ k + 1 \in 1..n+1 /\ (k + 1) - 1 = k /\ k =< n
    BY <1>1
  <2>2. G[k] = F[k]
    BY <1>7, <2>1
  <2>3. QED
    BY <1>1, <1>4, <1>5, <2>1, <2>2
<1>8. n \in T
  <2> HIDE DEF T
  <2>1. QED
    BY <1>1, <1>6, <1>7, SetInduction
<1>9. n =< n /\ n \in 0..n /\ n + 1 \in 1..n+1 /\ (n + 1) - 1 = n
  BY <1>1
<1>10. G[n] = F[n]
  BY <1>8, <1>9
<1>11. Joined(r) = Joined(s) \o x
  BY <1>1, <1>4, <1>5, <1>9, <1>10
<1>12. Joined(<<>>) = <<>>
  <2>1. <<>> \in Seq(Seq(S)) /\ Len(<<>>) = 0
    BY EmptySeq
  <2>2. PICK H : JoinedRun(H, <<>>, S)
    BY <2>1, JoinedSteps
  <2>3. QED
    BY <2>1, <2>2 DEF JoinedRun
<1>13. QED
  BY <1>11, <1>12 DEF r

LEMMA JoinedGiven ==
  ASSUME NEW S, NEW texts \in Seq(Seq(S))
  PROVE  Joined(NotEmpty(texts)) = Joined(texts)
<1> DEFINE n == Len(texts)
           set == ToSet(texts) \ {<<>>}
<1>1. PICK F : JoinedRun(F, texts, S)
  BY JoinedSteps
<1>2. PICK H : ThoseRun(H, texts, set, Seq(S))
  BY ThoseSteps
<1>3. /\ F \in [0..n -> Seq(S)] /\ F[0] = <<>> /\ F[n] = Joined(texts)
      /\ \A k \in 1..n : F[k] = F[k-1] \o texts[k]
  BY <1>1 DEF JoinedRun
<1>4. n \in Nat /\ \A k \in 1..n : texts[k] \in Seq(S) /\ (texts[k] \in set <=> texts[k] # <<>>)
  <2>1. n \in Nat /\ DOMAIN texts = 1..n /\ \A k \in 1..n : texts[k] \in Seq(S)
    BY LenProperties, ElementOfSeq
  <2>2. \A k \in 1..n : texts[k] \in ToSet(texts)
    BY <2>1 DEF ToSet
  <2>3. QED
    BY <2>1, <2>2
<1> HIDE DEF set
<1>5. /\ H \in [0..n -> Seq(Seq(S))] /\ H[0] = <<>> /\ H[n] = Those(texts, set)
      /\ \A k \in 1..n : H[k] = IF texts[k] \in set THEN Append(H[k-1], texts[k]) ELSE H[k-1]
  BY <1>2 DEF ThoseRun
<1>6. NotEmpty(texts) = H[n]
  BY <1>5 DEF NotEmpty, set
<1> HIDE DEF n
<1> DEFINE T == {k \in Nat : k =< n => Joined(H[k]) = F[k]}
<1>7. 0 \in T
  <2>1. <<>> \in Seq(Seq(S)) /\ <<>> \in Seq(S)
    BY EmptySeq
  <2>2. Joined(<<>>) = <<>>
    BY <2>1, JoinedAppend
  <2>3. QED
    BY <1>3, <1>5, <2>2
<1>8. ASSUME NEW k \in Nat, k \in T
      PROVE  k + 1 \in T
  <2> SUFFICES ASSUME k + 1 =< n PROVE Joined(H[k+1]) = F[k+1]
    OBVIOUS
  <2>1. k + 1 \in 1..n /\ (k + 1) - 1 = k /\ k \in 0..n /\ k =< n
    BY <1>4
  <2>2. Joined(H[k]) = F[k] /\ H[k] \in Seq(Seq(S)) /\ F[k] \in Seq(S)
    BY <1>3, <1>5, <1>8, <2>1
  <2>3. F[k+1] = F[k] \o texts[k+1] /\ texts[k+1] \in Seq(S)
    BY <1>3, <1>4, <2>1
  <2>4. CASE texts[k+1] = <<>>
    <3>1. H[k+1] = H[k]
      BY <1>4, <1>5, <2>1, <2>4
    <3>2. F[k+1] = F[k]
      BY <2>2, <2>3, <2>4
    <3>3. QED
      BY <2>2, <3>1, <3>2
  <2>5. CASE texts[k+1] # <<>>
    <3>1. H[k+1] = Append(H[k], texts[k+1])
      BY <1>4, <1>5, <2>1, <2>5
    <3>2. Joined(Append(H[k], texts[k+1])) = Joined(H[k]) \o texts[k+1]
      BY <2>2, <2>3, JoinedAppend
    <3>3. QED
      BY <2>2, <2>3, <3>1, <3>2
  <2>6. QED
    BY <2>4, <2>5
<1>9. n \in T
  <2> HIDE DEF T
  <2>1. QED
    BY <1>4, <1>7, <1>8, SetInduction
<1>10. n =< n
  BY <1>4
<1>11. QED
  BY <1>3, <1>6, <1>9, <1>10

LEMMA JoinedInk ==
  ASSUME NEW S, NEW p \in Seq(Seq(S)), NEW q \in Seq(Seq(S)), Len(p) = Len(q),
         \A i \in 1..Len(p) : Ink(p[i]) = Ink(q[i])
  PROVE  Ink(Joined(p)) = Ink(Joined(q))
<1> DEFINE n == Len(p)
<1>1. PICK F : JoinedRun(F, p, S)
  BY JoinedSteps
<1>2. PICK G : JoinedRun(G, q, S)
  BY JoinedSteps
<1>3. /\ F \in [0..n -> Seq(S)] /\ F[0] = <<>> /\ F[n] = Joined(p)
      /\ \A k \in 1..n : F[k] = F[k-1] \o p[k]
  BY <1>1 DEF JoinedRun
<1>4. /\ G \in [0..n -> Seq(S)] /\ G[0] = <<>> /\ G[n] = Joined(q)
      /\ \A k \in 1..n : G[k] = G[k-1] \o q[k]
  BY <1>2 DEF JoinedRun
<1>5. n \in Nat /\ \A k \in 1..n : p[k] \in Seq(S) /\ q[k] \in Seq(S) /\ Ink(p[k]) = Ink(q[k])
  <2>1. n \in Nat /\ n = Len(q)
    BY LenProperties
  <2>2. QED
    BY <2>1, ElementOfSeq
<1> HIDE DEF n
<1> DEFINE T == {k \in Nat : k =< n => Ink(F[k]) = Ink(G[k])}
<1>6. 0 \in T
  BY <1>3, <1>4
<1>7. ASSUME NEW k \in Nat, k \in T
      PROVE  k + 1 \in T
  <2> SUFFICES ASSUME k + 1 =< n PROVE Ink(F[k+1]) = Ink(G[k+1])
    OBVIOUS
  <2>1. k + 1 \in 1..n /\ (k + 1) - 1 = k /\ k \in 0..n /\ k =< n
    BY <1>5
  <2>2. /\ F[k] \in Seq(S) /\ G[k] \in Seq(S) /\ F[k+1] = F[k] \o p[k+1] /\ G[k+1] = G[k] \o q[k+1]
        /\ p[k+1] \in Seq(S) /\ q[k+1] \in Seq(S) /\ Ink(p[k+1]) = Ink(q[k+1])
    BY <1>3, <1>4, <1>5, <2>1
  <2>3. Ink(F[k]) = Ink(G[k])
    BY <1>7, <2>1
  <2>4. Ink(F[k+1]) = Ink(F[k]) \o Ink(p[k+1])
    BY <2>2, InkConcat
  <2>5. Ink(G[k+1]) = Ink(G[k]) \o Ink(q[k+1])
    BY <2>2, InkConcat
  <2>6. QED
    BY <2>2, <2>3, <2>4, <2>5
<1>8. n \in T
  <2> HIDE DEF T
  <2>1. QED
    BY <1>5, <1>6, <1>7, SetInduction
<1>9. n =< n
  BY <1>5
<1>10. QED
  BY <1>3, <1>4, <1>8, <1>9

-----------------------------------------------------------------------------
(* The pages of a PDF as one text.                                         *)
WithBlankLines(pages) ==
  FoldLeft(LAMBDA acc, page : IF acc = <<>> THEN page ELSE acc \o <<"\n", "\n">> \o page, <<>>, pages)

PageAfter(acc, page) == IF acc = <<>> THEN page ELSE acc \o <<"\n", "\n">> \o page

PagesRun(F, pages, S) ==
  /\ F \in [0..Len(pages) -> Seq(S)]
  /\ F[0] = <<>> /\ F[Len(pages)] = WithBlankLines(pages)
  /\ \A k \in 1..Len(pages) : F[k] = PageAfter(F[k-1], pages[k])

LEMMA PageAfterIs ==
  ASSUME NEW S, "\n" \in S, NEW acc \in Seq(S), NEW page \in Seq(S)
  PROVE  /\ PageAfter(acc, page) \in Seq(S)
         /\ Ink(PageAfter(acc, page)) = Ink(acc) \o Ink(page)
<1> DEFINE nn == <<"\n", "\n">>
<1>1. nn \in Seq(S) /\ Len(nn) = 2 /\ nn[1] = "\n" /\ nn[2] = "\n"
  OBVIOUS
<1>2. Ink(nn) = <<>>
  <2>1. DOMAIN nn = 1..2 /\ \A i \in 1..2 : i = 1 \/ i = 2
    OBVIOUS
  <2>2. \A i \in DOMAIN nn : nn[i] \in Blank
    BY <1>1, <2>1 DEF Blank
  <2>3. ~ Says(nn)
    BY <2>2 DEF Says
  <2>4. QED
    BY <1>1, <2>3, InkIs
<1>3. Ink(acc) \in Seq(S) /\ Ink(page) \in Seq(S)
  BY InkIs
<1> DEFINE mid == acc \o nn
           all == mid \o page
<1>4. PageAfter(acc, page) = IF acc = <<>> THEN page ELSE all
  BY DEF PageAfter
<1> HIDE DEF nn
<1>5. mid \in Seq(S) /\ Ink(mid) = Ink(acc)
  <2>1. mid \in Seq(S)
    BY <1>1
  <2>2. Ink(mid) = Ink(acc) \o Ink(nn)
    BY <1>1, InkConcat
  <2>3. QED
    BY <1>2, <1>3, <2>1, <2>2, ConcatEmptySeq
<1> HIDE DEF mid
<1>6. all \in Seq(S) /\ Ink(all) = Ink(acc) \o Ink(page)
  <2>1. all \in Seq(S)
    BY <1>5
  <2>2. Ink(all) = Ink(mid) \o Ink(page)
    BY <1>5, InkConcat
  <2>3. QED
    BY <1>5, <2>1, <2>2
<1> HIDE DEF all
<1>7. CASE acc = <<>>
  <2>1. ~ Says(acc)
    BY <1>7 DEF Says
  <2>2. Ink(acc) = <<>>
    BY <2>1, InkIs
  <2>3. Ink(acc) \o Ink(page) = Ink(page)
    BY <1>3, <2>2, ConcatEmptySeq
  <2>4. QED
    BY <1>4, <1>7, <2>3
<1>8. CASE acc # <<>>
  BY <1>4, <1>6, <1>8
<1>9. QED
  BY <1>7, <1>8

LEMMA PagesSteps ==
  ASSUME NEW S, "\n" \in S, NEW pages \in Seq(Seq(S))
  PROVE  \E F : PagesRun(F, pages, S)
<1> DEFINE n == Len(pages)
           A == Seq(S)
           G == [p \in (1..n) \X A |-> PageAfter(p[2], pages[p[1]])]
           Step(z) == [q \in SUBSET DOMAIN pages |->
                         IF q = {} THEN <<>> ELSE PageAfter(z[q \ {Max(q)}], pages[Max(q)])]
           iter == CHOOSE z : z = Step(z)
<1>1. n \in Nat /\ DOMAIN pages = 1..n /\ \A k \in 1..n : pages[k] \in A
  BY LenProperties, ElementOfSeq
<1>b. <<>> \in A
  OBVIOUS
<1>t. \A k \in 1..n, v \in A : PageAfter(v, pages[k]) \in A
  BY <1>1, PageAfterIs
<1> HIDE DEF A, n
<1>2. G \in [(1..n) \X A -> A] /\ \A k \in 1..n, v \in A : G[<<k, v>>] = PageAfter(v, pages[k])
  <2>1. \A p \in (1..n) \X A : p[1] \in 1..n /\ p[2] \in A
    OBVIOUS
  <2>2. \A p \in (1..n) \X A : PageAfter(p[2], pages[p[1]]) \in A
    BY <1>t, <2>1
  <2>3. G \in [(1..n) \X A -> A]
    BY <2>2
  <2>4. ASSUME NEW k \in 1..n, NEW v \in A
        PROVE  G[<<k, v>>] = PageAfter(v, pages[k])
    <3>1. <<k, v>> \in (1..n) \X A /\ <<k, v>>[1] = k /\ <<k, v>>[2] = v
      OBVIOUS
    <3>2. QED
      BY <3>1
  <2>5. QED
    BY <2>3, <2>4
<1>4. iter = Step(iter)
  <2>1. PICK h : Iterates(h, n, A, <<>>, G)
    <3> HIDE DEF G
    <3>1. QED
      BY <1>1, <1>b, <1>2, IterationExists
  <2>2. /\ h \in [SUBSET (1..n) -> A]
        /\ \A q \in SUBSET (1..n) : h[q] = IF q = {} THEN <<>> ELSE G[<<Max(q), h[q \ {Max(q)}]>>]
    BY <2>1 DEF Iterates
  <2>3. \A q \in SUBSET (1..n) : q # {} => Max(q) \in 1..n /\ h[q \ {Max(q)}] \in A
    BY <1>1, <2>2, MaxIn
  <2> HIDE DEF G
  <2>4. ASSUME NEW q \in SUBSET (1..n)
        PROVE  h[q] = Step(h)[q]
    <3>1. CASE q = {}
      BY <1>1, <2>2, <3>1
    <3>2. CASE q # {}
      BY <1>1, <1>2, <2>2, <2>3, <3>2
    <3>3. QED
      BY <3>1, <3>2
  <2>5. h = Step(h)
    BY <1>1, <2>2, <2>4
  <2>6. QED
    BY <2>5
<1>5. WithBlankLines(pages) = iter[1..n]
  BY <1>1 DEF WithBlankLines, PageAfter, FoldLeft, MapThenFoldSet
<1> HIDE DEF iter, G
<1>6. iter[{}] = <<>>
  BY <1>4
<1>7. ASSUME NEW k \in 1..n, iter[1..k-1] \in A
      PROVE  iter[1..k] = G[<<k, iter[1..k-1]>>]
  <2>1. /\ Max(1..k) = k /\ (1..k) # {} /\ (1..k) \ {Max(1..k)} = 1..k-1
        /\ (1..k) \in SUBSET DOMAIN pages
    BY <1>1, MaxOfPrefix
  <2>2. iter[1..k] = Step(iter)[1..k]
    BY <1>4
  <2>3. iter[1..k] = PageAfter(iter[1..k-1], pages[k])
    BY <2>1, <2>2
  <2>4. QED
    BY <1>2, <1>7, <2>3
<1>8. PICK F : IsRun(F, iter, n, A, <<>>, G)
  <2>1. RunsOver(iter, n, A, <<>>, G)
    BY <1>6, <1>7 DEF RunsOver
  <2>2. QED
    BY <1>1, <1>b, <2>1, <1>2, PrefixRuns
<1>9. F \in [0..n -> A] /\ F[n] = iter[1..n] /\ F[0] = <<>> /\ \A k \in 1..n : F[k] = G[<<k, F[k-1]>>]
  BY <1>8 DEF IsRun
<1>10. \A k \in 1..n : F[k-1] \in A
  <2>1. \A k \in 1..n : k - 1 \in 0..n
    BY <1>1
  <2>2. QED
    BY <1>9, <2>1
<1>11. \A k \in 1..n : F[k] = PageAfter(F[k-1], pages[k])
  BY <1>2, <1>9, <1>10
<1>12. PagesRun(F, pages, S)
  BY <1>5, <1>9, <1>11 DEF PagesRun, n, A
<1>13. QED
  BY <1>12

LEMMA PagesInk ==
  ASSUME NEW S, "\n" \in S, NEW pages \in Seq(Seq(S))
  PROVE  WithBlankLines(pages) \in Seq(S) /\ Ink(WithBlankLines(pages)) = Ink(Joined(pages))
<1> DEFINE n == Len(pages)
<1>1. PICK F : PagesRun(F, pages, S)
  BY PagesSteps
<1>2. PICK G : JoinedRun(G, pages, S)
  BY JoinedSteps
<1>3. /\ F \in [0..n -> Seq(S)] /\ F[0] = <<>> /\ F[n] = WithBlankLines(pages)
      /\ \A k \in 1..n : F[k] = PageAfter(F[k-1], pages[k])
  BY <1>1 DEF PagesRun
<1>4. /\ G \in [0..n -> Seq(S)] /\ G[0] = <<>> /\ G[n] = Joined(pages)
      /\ \A k \in 1..n : G[k] = G[k-1] \o pages[k]
  BY <1>2 DEF JoinedRun
<1>5. n \in Nat /\ \A k \in 1..n : pages[k] \in Seq(S)
  BY LenProperties, ElementOfSeq
<1> HIDE DEF n
<1> DEFINE T == {k \in Nat : k =< n => Ink(F[k]) = Ink(G[k])}
<1>6. 0 \in T
  BY <1>3, <1>4
<1>7. ASSUME NEW k \in Nat, k \in T
      PROVE  k + 1 \in T
  <2> SUFFICES ASSUME k + 1 =< n PROVE Ink(F[k+1]) = Ink(G[k+1])
    OBVIOUS
  <2>1. k + 1 \in 1..n /\ (k + 1) - 1 = k /\ k \in 0..n /\ k =< n
    BY <1>5
  <2>2. /\ F[k] \in Seq(S) /\ G[k] \in Seq(S) /\ pages[k+1] \in Seq(S)
        /\ F[k+1] = PageAfter(F[k], pages[k+1]) /\ G[k+1] = G[k] \o pages[k+1]
    BY <1>3, <1>4, <1>5, <2>1
  <2>3. Ink(F[k]) = Ink(G[k])
    BY <1>7, <2>1
  <2>4. Ink(PageAfter(F[k], pages[k+1])) = Ink(F[k]) \o Ink(pages[k+1])
    BY <2>2, PageAfterIs
  <2>5. Ink(G[k] \o pages[k+1]) = Ink(G[k]) \o Ink(pages[k+1])
    BY <2>2, InkConcat
  <2>6. QED
    BY <2>2, <2>3, <2>4, <2>5
<1>8. n \in T
  <2> HIDE DEF T
  <2>1. QED
    BY <1>5, <1>6, <1>7, SetInduction
<1>9. n =< n /\ n \in 0..n
  BY <1>5
<1>10. QED
  BY <1>3, <1>4, <1>8, <1>9

(* A file's text has every character of its pages.                         *)
LEMMA ExtractTextIs ==
  ASSUME NEW S, "\n" \in S, NEW file, file.pages \in Seq(Seq(S))
  PROVE  /\ ExtractText(file) \in Seq(S)
         /\ Ink(ExtractText(file)) = Ink(Joined(file.pages))
         /\ Says(ExtractText(file)) <=> SaysAny(file.pages)
<1> DEFINE pages == file.pages
           n == Len(pages)
           stripped == [i \in DOMAIN pages |-> Strip(pages[i])]
           text == ExtractText(file)
<1>j. Joined(pages) \in Seq(S) /\ (Says(Joined(pages)) <=> SaysAny(pages))
  BY JoinedIs
<1>1. text = IF file.suffix # ".pdf" THEN Joined(pages) ELSE WithBlankLines(StrippedOf(pages))
  BY DEF ExtractText, WithBlankLines
<1>2. n \in Nat /\ DOMAIN pages = 1..n /\ \A i \in 1..n : pages[i] \in Seq(S)
  BY LenProperties, ElementOfSeq
<1>3. \A i \in 1..n : Strip(pages[i]) \in Seq(S) /\ Ink(Strip(pages[i])) = Ink(pages[i])
  BY <1>2, StripIs
<1>4. stripped \in [1..n -> Seq(S)] /\ \A i \in 1..n : stripped[i] = Strip(pages[i])
  BY <1>2, <1>3
<1>s. StrippedOf(pages) = NotEmpty(stripped)
  BY DEF StrippedOf
<1> HIDE DEF pages, n, stripped, text
<1>5. stripped \in Seq(Seq(S)) /\ Len(stripped) = n
  <2>1. stripped \in Seq(Seq(S))
    BY <1>2, <1>4, SeqDef
  <2>2. DOMAIN stripped = 1..n
    BY <1>4
  <2>3. QED
    BY <1>2, <2>1, <2>2, LenProperties
<1>6. Ink(Joined(pages)) = Ink(Joined(stripped))
  <2>1. pages \in Seq(Seq(S)) /\ Len(pages) = Len(stripped) /\ \A i \in 1..Len(pages) : Ink(pages[i]) = Ink(stripped[i])
    BY <1>3, <1>4, <1>5 DEF pages, n
  <2>2. QED
    BY <1>5, <2>1, JoinedInk
<1>7. NotEmpty(stripped) \in Seq(Seq(S)) /\ Joined(NotEmpty(stripped)) = Joined(stripped)
  BY <1>5, JoinedGiven, NotEmptyIs
<1>8. text \in Seq(S) /\ Ink(text) = Ink(Joined(pages))
  <2>1. /\ WithBlankLines(NotEmpty(stripped)) \in Seq(S)
        /\ Ink(WithBlankLines(NotEmpty(stripped))) = Ink(Joined(NotEmpty(stripped)))
    BY <1>7, PagesInk
  <2>2. QED
    BY <1>1, <1>6, <1>7, <1>j, <1>s, <2>1
<1>9. Says(text) <=> SaysAny(pages)
  <2>1. Says(text) <=> Says(Joined(pages))
    BY <1>8, <1>j, InkIs
  <2>2. QED
    BY <1>j, <2>1
<1>10. QED
  BY <1>8, <1>9 DEF text, pages

-----------------------------------------------------------------------------
LEMMA FirstTextIs ==
  ASSUME NEW S, NEW texts \in Seq(Seq(S))
  PROVE  FirstText(texts) \in Seq(S) /\ (Says(FirstText(texts)) <=> SaysAny(texts))
         /\ (FirstText(texts) # <<>> <=> SaysAny(texts))
<1> DEFINE said == StrippedOf(texts)
<1>1. SpokenOf(texts, said, S)
  BY StrippedOfIs
<1> HIDE DEF said
<1>2. /\ said \in Seq(Seq(S)) /\ (said = <<>> <=> ~ SaysAny(texts))
      /\ \A x \in ToSet(said) : x # <<>> /\ Says(x)
  BY <1>1 DEF SpokenOf, Inked
<1>3. FirstText(texts) = IF said = <<>> THEN <<>> ELSE said[1]
  BY DEF FirstText, FirstIn, said
<1>4. CASE said = <<>>
  <2>1. ~ Says(<<>>) /\ <<>> \in Seq(S)
    BY DEF Says
  <2>2. QED
    BY <1>2, <1>3, <1>4, <2>1
<1>5. CASE said # <<>>
  <2>1. Len(said) \in Nat /\ Len(said) # 0 /\ DOMAIN said = 1..Len(said)
    BY <1>2, <1>5, LenProperties, EmptySeq
  <2>2. 1 \in DOMAIN said
    BY <2>1
  <2>3. said[1] \in ToSet(said) /\ said[1] \in Seq(S)
    BY <1>2, <2>1, <2>2, ElementOfSeq DEF ToSet
  <2>4. QED
    BY <1>2, <1>3, <1>5, <2>3
<1>6. QED
  BY <1>4, <1>5

LEMMA SaysAnyOf ==
  /\ \A a : SaysAny(<<a>>) <=> Says(a)
  /\ \A a, b : SaysAny(<<a, b>>) <=> Says(a) \/ Says(b)
  /\ \A a, b, c : SaysAny(<<a, b, c>>) <=> Says(a) \/ Says(b) \/ Says(c)
  /\ \A a, b, c, d, e : SaysAny(<<a, b, c, d, e>>) <=> Says(a) \/ Says(b) \/ Says(c) \/ Says(d) \/ Says(e)
<1>1. \A a : SaysAny(<<a>>) <=> Says(a)
  <2> SUFFICES ASSUME NEW a PROVE SaysAny(<<a>>) <=> Says(a)
    OBVIOUS
  <2>1. DOMAIN <<a>> = 1..1 /\ <<a>>[1] = a /\ \A i : i \in 1..1 <=> i = 1
    OBVIOUS
  <2>2. QED
    BY <2>1 DEF SaysAny
<1>2. \A a, b : SaysAny(<<a, b>>) <=> Says(a) \/ Says(b)
  <2> SUFFICES ASSUME NEW a, NEW b PROVE SaysAny(<<a, b>>) <=> Says(a) \/ Says(b)
    OBVIOUS
  <2>1. DOMAIN <<a, b>> = 1..2 /\ <<a, b>>[1] = a /\ <<a, b>>[2] = b
        /\ \A i : i \in 1..2 <=> i = 1 \/ i = 2
    OBVIOUS
  <2>2. QED
    BY <2>1 DEF SaysAny
<1>3. \A a, b, c : SaysAny(<<a, b, c>>) <=> Says(a) \/ Says(b) \/ Says(c)
  <2> SUFFICES ASSUME NEW a, NEW b, NEW c PROVE SaysAny(<<a, b, c>>) <=> Says(a) \/ Says(b) \/ Says(c)
    OBVIOUS
  <2> DEFINE s == <<a, b, c>>
  <2>1. DOMAIN s = 1..3 /\ s[1] = a /\ s[2] = b /\ s[3] = c
    OBVIOUS
  <2>2. \A i : i \in 1..3 <=> i = 1 \/ i = 2 \/ i = 3
    OBVIOUS
  <2> HIDE DEF s
  <2>3. SaysAny(s) <=> Says(a) \/ Says(b) \/ Says(c)
    BY <2>1, <2>2 DEF SaysAny
  <2>4. QED
    BY <2>3 DEF s
<1>4. \A a, b, c, d, e : SaysAny(<<a, b, c, d, e>>) <=> Says(a) \/ Says(b) \/ Says(c) \/ Says(d) \/ Says(e)
  <2> SUFFICES ASSUME NEW a, NEW b, NEW c, NEW d, NEW e
               PROVE SaysAny(<<a, b, c, d, e>>) <=> Says(a) \/ Says(b) \/ Says(c) \/ Says(d) \/ Says(e)
    OBVIOUS
  <2> DEFINE s == <<a, b, c, d, e>>
  <2>1. DOMAIN s = 1..5 /\ s[1] = a /\ s[2] = b /\ s[3] = c /\ s[4] = d /\ s[5] = e
    OBVIOUS
  <2>2. \A i : i \in 1..5 <=> i = 1 \/ i = 2 \/ i = 3 \/ i = 4 \/ i = 5
    OBVIOUS
  <2> HIDE DEF s
  <2>3. SaysAny(s) <=> Says(a) \/ Says(b) \/ Says(c) \/ Says(d) \/ Says(e)
    BY <2>1, <2>2 DEF SaysAny
  <2>4. QED
    BY <2>3 DEF s
<1>5. QED
  BY <1>1, <1>2, <1>3, <1>4

(* What an event says, and what its markets ask.                           *)
EventIn(e, S) ==
  /\ e.title \in Seq(S) /\ e.question \in Seq(S) /\ e.name \in Seq(S)
  /\ e.description \in Seq(S) /\ e.subtitle \in Seq(S) /\ e.outcomes \in Seq(Seq(S))
  /\ IsList(e.markets)
  /\ \A m \in ToSet(e.markets) :
       m.question \in Seq(S) /\ m.title \in Seq(S) /\ m.outcomes \in Seq(Seq(S))

Asks(markets) == \E i \in DOMAIN markets : SaysAny(<<markets[i].question, markets[i].title>>)

Tells(e) ==
  \/ SaysAny(<<e.title, e.question, e.name, e.description, e.subtitle>> \o e.outcomes)
  \/ Asks(e.markets)

LEMMA OutcomesAre ==
  ASSUME NEW S, NEW outcomes \in Seq(Seq(S))
  PROVE  /\ Joined(NormalizeOutcomes(outcomes)) \in Seq(S)
         /\ Says(Joined(NormalizeOutcomes(outcomes))) <=> SaysAny(outcomes)
<1> DEFINE said == StrippedOf(outcomes)
<1>1. SpokenOf(outcomes, said, S) /\ NormalizeOutcomes(outcomes) = said
  BY StrippedOfIs DEF NormalizeOutcomes
<1> HIDE DEF said
<1>2. /\ said \in Seq(Seq(S)) /\ (said = <<>> <=> ~ SaysAny(outcomes))
      /\ \A x \in ToSet(said) : Says(x)
  BY <1>1 DEF SpokenOf
<1>3. SaysAny(said) <=> said # <<>>
  <2>1. \A i \in DOMAIN said : Says(said[i])
    BY <1>2 DEF ToSet
  <2>2. said # <<>> => 1 \in DOMAIN said
    <3>1. Len(said) \in Nat /\ DOMAIN said = 1..Len(said) /\ (said # <<>> => Len(said) # 0)
      BY <1>2, LenProperties, EmptySeq
    <3>2. QED
      BY <3>1
  <2>3. said = <<>> => DOMAIN said = {}
    OBVIOUS
  <2>4. QED
    BY <2>1, <2>2, <2>3 DEF SaysAny
<1>4. QED
  BY <1>1, <1>2, <1>3, JoinedIs

LEMMA MarketsAre ==
  ASSUME NEW S, NEW e, EventIn(e, S)
  PROVE  /\ MarketSummaries(e.markets) \in Seq(Seq(S))
         /\ SaysAny(MarketSummaries(e.markets)) <=> Asks(e.markets)
<1> DEFINE markets == e.markets
           M == ToSet(markets)
           Name(m) == FirstText(<<m.question, m.title>>)
           Said(m) == Name(m) \o Joined(NormalizeOutcomes(m.outcomes))
           asking == {m \in M : Name(m) # <<>>}
           asked == Those(markets, asking)
           a == [i \in DOMAIN asked |-> Said(asked[i])]
<1>1. MarketSummaries(markets) = a
  BY DEF MarketSummaries
<1>2. /\ markets \in Seq(M)
      /\ \A m \in M : m.question \in Seq(S) /\ m.title \in Seq(S) /\ m.outcomes \in Seq(Seq(S))
  BY DEF EventIn, IsList
<1>3. ASSUME NEW m \in M
      PROVE  /\ Name(m) \in Seq(S) /\ (Name(m) # <<>> <=> SaysAny(<<m.question, m.title>>))
             /\ Said(m) \in Seq(S) /\ (m \in asking => Says(Said(m)))
  <2> DEFINE outs == Joined(NormalizeOutcomes(m.outcomes))
  <2>1. <<m.question, m.title>> \in Seq(Seq(S))
    BY <1>2
  <2>2. /\ Name(m) \in Seq(S) /\ (Says(Name(m)) <=> SaysAny(<<m.question, m.title>>))
        /\ (Name(m) # <<>> <=> SaysAny(<<m.question, m.title>>))
    BY <2>1, FirstTextIs
  <2>3. outs \in Seq(S)
    BY <1>2, OutcomesAre
  <2>4. Said(m) = Name(m) \o outs
    OBVIOUS
  <2>5. m \in asking <=> Name(m) # <<>>
    OBVIOUS
  <2> HIDE DEF Said, Name, outs, asking
  <2>6. Said(m) \in Seq(S) /\ (Says(Said(m)) <=> Says(Name(m)) \/ Says(outs))
    BY <2>2, <2>3, <2>4, SaysConcat
  <2>7. QED
    BY <2>2, <2>5, <2>6
<1>4. asking = {m \in M : SaysAny(<<m.question, m.title>>)}
  <2> HIDE DEF Name, Said
  <2>1. QED
    BY <1>3
<1>5. \A m \in M : Said(m) \in Seq(S) /\ (m \in asking => Says(Said(m)))
  BY <1>3
<1> HIDE DEF Said, asking, markets, M
<1>6. asked \in Seq(M) /\ ToSet(asked) = M \intersect asking /\ (asked = <<>> <=> M \intersect asking = {})
  <2>1. markets \in Seq(M)
    BY <1>2
  <2>2. /\ Those(markets, asking) \in Seq(M)
        /\ ToSet(Those(markets, asking)) = ToSet(markets) \intersect asking
        /\ (Those(markets, asking) = <<>> <=> ToSet(markets) \intersect asking = {})
    BY <2>1, ThoseAre
  <2>3. QED
    BY <2>2 DEF M
<1> HIDE DEF asked
<1>7. /\ Len(asked) \in Nat /\ DOMAIN asked = 1..Len(asked) /\ (asked # <<>> => 1 \in DOMAIN asked)
      /\ \A i \in DOMAIN asked : asked[i] \in M /\ asked[i] \in asking
  <2>1. Len(asked) \in Nat /\ DOMAIN asked = 1..Len(asked) /\ (Len(asked) = 0 <=> asked = <<>>)
    BY <1>6, LenProperties, EmptySeq
  <2>2. \A i \in DOMAIN asked : asked[i] \in ToSet(asked)
    BY DEF ToSet
  <2>3. QED
    BY <1>6, <2>1, <2>2
<1>8. a \in [1..Len(asked) -> Seq(S)] /\ \A i \in DOMAIN asked : a[i] = Said(asked[i])
  BY <1>5, <1>7
<1>9. a \in Seq(Seq(S)) /\ DOMAIN a = DOMAIN asked
  BY <1>7, <1>8, SeqDef
<1> HIDE DEF a
<1>10. SaysAny(a) <=> asked # <<>>
  <2>1. \A i \in DOMAIN a : Says(a[i])
    BY <1>5, <1>7, <1>8, <1>9
  <2>2. asked = <<>> => DOMAIN asked = {}
    OBVIOUS
  <2>3. QED
    BY <1>7, <1>9, <2>1, <2>2 DEF SaysAny
<1>11. asked # <<>> <=> Asks(markets)
  <2>1. asked # <<>> <=> \E m \in M : SaysAny(<<m.question, m.title>>)
    BY <1>4, <1>6
  <2>2. QED
    BY <2>1 DEF M, ToSet, Asks
<1>12. QED
  BY <1>1, <1>9, <1>10, <1>11 DEF markets

LEMMA EventIs ==
  ASSUME NEW S, NEW e, EventIn(e, S)
  PROVE  LET n == NormalizeEvent(e)
         IN  /\ n.summary \in Seq(S) /\ n.parts \in Seq(Seq(S))
             /\ Says(n.summary) \/ SaysAny(n.parts) <=> Tells(e)
<1> DEFINE title == FirstText(<<e.title, e.question, e.name>>)
           description == FirstText(<<e.description, e.subtitle>>)
           outs == Joined(NormalizeOutcomes(e.outcomes))
           asked == MarketSummaries(e.markets)
           parts == <<title, description, outs>>
           lines == <<title, description>> \o asked
           n == NormalizeEvent(e)
<1>1. n.summary = Joined(lines) /\ n.parts = parts
  BY DEF NormalizeEvent
<1>2. title \in Seq(S) /\ (Says(title) <=> Says(e.title) \/ Says(e.question) \/ Says(e.name))
  <2>1. <<e.title, e.question, e.name>> \in Seq(Seq(S))
    BY DEF EventIn
  <2>2. title \in Seq(S) /\ (Says(title) <=> SaysAny(<<e.title, e.question, e.name>>))
    BY <2>1, FirstTextIs
  <2>3. SaysAny(<<e.title, e.question, e.name>>) <=> Says(e.title) \/ Says(e.question) \/ Says(e.name)
    BY SaysAnyOf
  <2> HIDE DEF title
  <2>4. QED
    BY <2>2, <2>3
<1>3. description \in Seq(S) /\ (Says(description) <=> Says(e.description) \/ Says(e.subtitle))
  <2>1. <<e.description, e.subtitle>> \in Seq(Seq(S))
    BY DEF EventIn
  <2>2. description \in Seq(S) /\ (Says(description) <=> SaysAny(<<e.description, e.subtitle>>))
    BY <2>1, FirstTextIs
  <2>3. SaysAny(<<e.description, e.subtitle>>) <=> Says(e.description) \/ Says(e.subtitle)
    BY SaysAnyOf
  <2> HIDE DEF description
  <2>4. QED
    BY <2>2, <2>3
<1>4. outs \in Seq(S) /\ (Says(outs) <=> SaysAny(e.outcomes)) /\ e.outcomes \in Seq(Seq(S))
  BY OutcomesAre DEF EventIn
<1>5. asked \in Seq(Seq(S)) /\ (SaysAny(asked) <=> Asks(e.markets))
  BY MarketsAre
<1> HIDE DEF title, description, outs, asked, n
<1>6. parts \in Seq(Seq(S)) /\ (SaysAny(parts) <=> Says(title) \/ Says(description) \/ Says(outs))
  <2>1. parts \in Seq(Seq(S))
    BY <1>2, <1>3, <1>4
  <2>2. QED
    BY <2>1, SaysAnyOf
<1>7. lines \in Seq(Seq(S)) /\ (SaysAny(lines) <=> Says(title) \/ Says(description) \/ SaysAny(asked))
  <2> DEFINE two == <<title, description>>
  <2>1. two \in Seq(Seq(S)) /\ (SaysAny(two) <=> Says(title) \/ Says(description))
    BY <1>2, <1>3, SaysAnyOf
  <2> HIDE DEF two
  <2>2. two \o asked \in Seq(Seq(S)) /\ (SaysAny(two \o asked) <=> SaysAny(two) \/ SaysAny(asked))
    BY <1>5, <2>1, SaysAnyConcat
  <2>3. QED
    BY <2>1, <2>2 DEF two
<1> HIDE DEF parts, lines
<1>8. Joined(lines) \in Seq(S) /\ (Says(Joined(lines)) <=> SaysAny(lines))
  BY <1>7, JoinedIs
<1>9. Tells(e) <=> \/ Says(e.title) \/ Says(e.question) \/ Says(e.name) \/ Says(e.description)
                   \/ Says(e.subtitle) \/ SaysAny(e.outcomes) \/ Asks(e.markets)
  <2> DEFINE five == <<e.title, e.question, e.name, e.description, e.subtitle>>
  <2>1. five \in Seq(Seq(S))
    BY DEF EventIn
  <2>2. SaysAny(five) <=> \/ Says(e.title) \/ Says(e.question) \/ Says(e.name) \/ Says(e.description)
                          \/ Says(e.subtitle)
    BY SaysAnyOf
  <2>3. Tells(e) <=> SaysAny(five \o e.outcomes) \/ Asks(e.markets)
    BY DEF Tells
  <2> HIDE DEF five
  <2>4. SaysAny(five \o e.outcomes) <=> SaysAny(five) \/ SaysAny(e.outcomes)
    BY <1>4, <2>1, SaysAnyConcat
  <2>5. QED
    BY <2>2, <2>3, <2>4
<1>10. QED
  BY <1>1, <1>2, <1>3, <1>4, <1>5, <1>6, <1>7, <1>8, <1>9 DEF n

LEMMA PolymarketIs ==
  ASSUME NEW S, NEW e, EventIn(e, S)
  PROVE  LET evidence == PolymarketEvidence(NormalizeEvent(e))
         IN  /\ evidence \in Seq(Seq(S)) /\ \A i \in DOMAIN evidence : Says(evidence[i])
             /\ evidence # <<>> <=> Tells(e)
<1> DEFINE n == NormalizeEvent(e)
           evidence == PolymarketEvidence(n)
           said == StrippedOf(n.parts)
<1>1. /\ n.summary \in Seq(S) /\ n.parts \in Seq(Seq(S))
      /\ Says(n.summary) \/ SaysAny(n.parts) <=> Tells(e)
  BY EventIs
<1> HIDE DEF n
<1>2. NotBlank(n.summary) <=> Says(n.summary)
  BY <1>1, StripIs DEF NotBlank
<1>3. evidence = IF NotBlank(n.summary) THEN <<Strip(n.summary)>> ELSE said
  BY DEF PolymarketEvidence
<1>4. SpokenOf(n.parts, said, S)
  BY <1>1, StrippedOfIs
<1> HIDE DEF said
<1>5. said \in Seq(Seq(S)) /\ (said = <<>> <=> ~ SaysAny(n.parts)) /\ \A i \in DOMAIN said : Says(said[i])
  BY <1>4 DEF SpokenOf, ToSet
<1> HIDE DEF evidence
<1>6. CASE Says(n.summary)
  <2>1. Strip(n.summary) \in Seq(S) /\ Says(Strip(n.summary))
    BY <1>1, <1>6, StripIs
  <2>2. evidence = <<Strip(n.summary)>>
    BY <1>2, <1>3, <1>6
  <2>3. \A x : x \in Seq(S) => /\ <<x>> \in Seq(Seq(S)) /\ <<x>> # <<>>
                              /\ DOMAIN <<x>> = {1} /\ <<x>>[1] = x
    OBVIOUS
  <2>4. /\ evidence \in Seq(Seq(S)) /\ evidence # <<>> /\ DOMAIN evidence = {1}
        /\ evidence[1] = Strip(n.summary)
    BY <2>1, <2>2, <2>3
  <2>5. QED
    BY <1>1, <1>6, <2>1, <2>4 DEF evidence, n
<1>7. CASE ~ Says(n.summary)
  BY <1>1, <1>2, <1>3, <1>5, <1>7 DEF evidence, n
<1>8. QED
  BY <1>6, <1>7

-----------------------------------------------------------------------------
LEMMA ListIn ==
  ASSUME NEW s, IsList(s), NEW T, ToSet(s) \subseteq T
  PROVE  s \in Seq(T)
<1>1. s \in Seq(ToSet(s))
  BY DEF IsList
<1>2. Len(s) \in Nat /\ DOMAIN s = 1..Len(s) /\ \A i \in 1..Len(s) : s[i] \in ToSet(s)
  BY <1>1, LenProperties, ElementOfSeq
<1>3. s \in [1..Len(s) -> T]
  BY <1>1, <1>2
<1>4. QED
  BY <1>2, <1>3, SeqDef

LEMMA SeqIsList ==
  ASSUME NEW S, NEW s \in Seq(S)
  PROVE  IsList(s)
BY DEF IsList, ToSet

LettersOf(texts) == UNION {ToSet(t) : t \in ToSet(texts)}

LEMMA TextsIn ==
  ASSUME NEW ts, IsTexts(ts), NEW S, LettersOf(ts) \subseteq S
  PROVE  ts \in Seq(Seq(S)) /\ \A t \in ToSet(ts) : t \in Seq(S)
<1>1. ASSUME NEW t \in ToSet(ts)
      PROVE  t \in Seq(S)
  <2>1. IsList(t) /\ ToSet(t) \subseteq S
    BY DEF IsTexts, LettersOf
  <2>2. QED
    BY <2>1, ListIn
<1>2. IsList(ts) /\ ToSet(ts) \subseteq Seq(S)
  BY <1>1 DEF IsTexts
<1>3. QED
  BY <1>1, <1>2, ListIn

(* The characters a request may bring, and blank lines between pages.      *)
Spoken(e) == <<e.title, e.question, e.name, e.description, e.subtitle>> \o e.outcomes
MarketTexts(m) == <<m.question, m.title>> \o m.outcomes

Letters(r) ==
  {"\n"} \union ToSet(r.seed) \union (UNION {LettersOf(f.pages) : f \in ToSet(r.files)})
  \union LettersOf(Spoken(r.event)) \union (UNION {LettersOf(MarketTexts(m)) : m \in ToSet(r.event.markets)})

LEMMA HeadIn ==
  ASSUME NEW head, NEW tail, IsList(head), IsList(tail), NEW T, \A x \in ToSet(head \o tail) : x \in T
  PROVE  head \in Seq(T) /\ tail \in Seq(T)
<1> DEFINE U == ToSet(head) \union ToSet(tail)
<1>1. head \in Seq(U) /\ tail \in Seq(U)
  BY ListIn
<1> HIDE DEF U
<1>2. ToSet(head \o tail) = ToSet(head) \union ToSet(tail)
  BY <1>1, ToSetConcat
<1>3. QED
  BY <1>2, ListIn

LEMMA RequestIn ==
  ASSUME NEW r, IsRequest(r)
  PROVE  /\ r.seed \in Seq(Letters(r)) /\ EventIn(r.event, Letters(r))
         /\ IsList(r.files)
         /\ \A i \in DOMAIN r.files : r.files[i].pages \in Seq(Seq(Letters(r)))
<1> DEFINE S == Letters(r)
           e == r.event
<1>1. /\ IsList(r.seed) /\ IsList(r.files) /\ \A f \in ToSet(r.files) : IsTexts(f.pages)
      /\ IsTexts(Spoken(e)) /\ IsList(e.outcomes) /\ IsList(e.markets)
      /\ \A m \in ToSet(e.markets) : IsTexts(MarketTexts(m)) /\ IsList(m.outcomes)
  BY DEF IsRequest, Spoken, MarketTexts
<1>2. /\ ToSet(r.seed) \subseteq S /\ LettersOf(Spoken(e)) \subseteq S
      /\ \A f \in ToSet(r.files) : LettersOf(f.pages) \subseteq S
      /\ \A m \in ToSet(e.markets) : LettersOf(MarketTexts(m)) \subseteq S
  <2> DEFINE seed == ToSet(r.seed)
             files == UNION {LettersOf(f.pages) : f \in ToSet(r.files)}
             spoken == LettersOf(Spoken(r.event))
             markets == UNION {LettersOf(MarketTexts(m)) : m \in ToSet(r.event.markets)}
  <2>1. S = {"\n"} \union seed \union files \union spoken \union markets
    BY DEF Letters
  <2>2. /\ \A f \in ToSet(r.files) : LettersOf(f.pages) \subseteq files
        /\ \A m \in ToSet(e.markets) : LettersOf(MarketTexts(m)) \subseteq markets
    OBVIOUS
  <2> HIDE DEF S, seed, files, spoken, markets
  <2>3. seed \subseteq S /\ files \subseteq S /\ spoken \subseteq S /\ markets \subseteq S
    BY <2>1
  <2>4. QED
    BY <2>2, <2>3 DEF seed, spoken
<1> HIDE DEF S, e
<1>3. r.seed \in Seq(S)
  BY <1>1, <1>2, ListIn
<1>4. \A i \in DOMAIN r.files : r.files[i].pages \in Seq(Seq(S))
  <2>1. \A i \in DOMAIN r.files : r.files[i] \in ToSet(r.files)
    BY DEF ToSet
  <2>2. QED
    BY <1>1, <1>2, <2>1, TextsIn
<1>5. /\ e.title \in Seq(S) /\ e.question \in Seq(S) /\ e.name \in Seq(S)
      /\ e.description \in Seq(S) /\ e.subtitle \in Seq(S) /\ e.outcomes \in Seq(Seq(S))
  <2> DEFINE five == <<e.title, e.question, e.name, e.description, e.subtitle>>
             T == {e.title, e.question, e.name, e.description, e.subtitle}
  <2>1. \A t \in ToSet(five \o e.outcomes) : t \in Seq(S)
    BY <1>1, <1>2, TextsIn DEF Spoken
  <2>2. five \in Seq(T) /\ five[1] = e.title /\ five[2] = e.question /\ five[3] = e.name
        /\ five[4] = e.description /\ five[5] = e.subtitle /\ Len(five) = 5
    OBVIOUS
  <2> HIDE DEF five, T
  <2>3. IsList(five)
    BY <2>2, SeqIsList
  <2>4. five \in Seq(Seq(S)) /\ e.outcomes \in Seq(Seq(S))
    BY <1>1, <2>1, <2>3, HeadIn
  <2>5. \A i \in 1..5 : five[i] \in Seq(S)
    BY <2>2, <2>4, ElementOfSeq
  <2>6. 1 \in 1..5 /\ 2 \in 1..5 /\ 3 \in 1..5 /\ 4 \in 1..5 /\ 5 \in 1..5
    OBVIOUS
  <2>7. QED
    BY <2>2, <2>4, <2>5, <2>6
<1>6. ASSUME NEW m \in ToSet(e.markets)
      PROVE  m.question \in Seq(S) /\ m.title \in Seq(S) /\ m.outcomes \in Seq(Seq(S))
  <2> DEFINE two == <<m.question, m.title>>
             T == {m.question, m.title}
  <2>0. IsTexts(MarketTexts(m)) /\ IsList(m.outcomes) /\ LettersOf(MarketTexts(m)) \subseteq S
    BY <1>1, <1>2
  <2>1. \A t \in ToSet(two \o m.outcomes) : t \in Seq(S)
    BY <2>0, TextsIn DEF MarketTexts
  <2>2. two \in Seq(T) /\ two[1] = m.question /\ two[2] = m.title /\ Len(two) = 2
    OBVIOUS
  <2> HIDE DEF two, T
  <2>3. IsList(two)
    BY <2>2, SeqIsList
  <2>4. two \in Seq(Seq(S)) /\ m.outcomes \in Seq(Seq(S))
    BY <2>0, <2>1, <2>3, HeadIn
  <2>5. \A i \in 1..2 : two[i] \in Seq(S)
    BY <2>2, <2>4, ElementOfSeq
  <2>6. 1 \in 1..2 /\ 2 \in 1..2
    OBVIOUS
  <2>7. QED
    BY <2>2, <2>4, <2>5, <2>6
<1>7. EventIn(e, S)
  BY <1>1, <1>5, <1>6 DEF EventIn
<1>8. QED
  BY <1>1, <1>3, <1>4, <1>7 DEF S, e

(* Whether a job is created, and of what.                                  *)
Unread(r) ==
  \/ r.body = "broken"
  \/ r.body = "form" /\ r.event.json = "broken"
  \/ r.body = "form" /\ r.mode = "upload" /\ \E i \in DOMAIN r.files : ~ Readable(r.files[i])

Unheard(r, texts) ==
  \/ ~ Complete(r)
  \/ r.mode \notin {"topic_only", "upload", "polymarket"}
  \/ r.event.json = "no object"
  \/ r.mode = "upload" /\ ~ SaysAny(texts) /\ ~ Says(r.seed)
  \/ r.mode = "polymarket" /\ r.event.json \in {"none", "empty"}

LEMMA ValidIs ==
  ASSUME NEW S, NEW r, r.seed \in Seq(S), NEW texts \in Seq(Seq(S))
  PROVE  LET job == ValidateJobCreateRequest(r, texts)
         IN  /\ Unheard(r, texts) => job.code = 422
             /\ ~ Unheard(r, texts) =>
                  /\ job.code = 200 /\ job.mode = r.mode /\ job.seed = r.seed
                  /\ job.texts = texts /\ job.event = r.event
<1> DEFINE all == texts \o <<r.seed>>
           accepted == Accepted(r.mode, r.seed, texts, r.event)
           refused == Refused(422)
<1>1. <<r.seed>> \in Seq(Seq(S)) /\ (SaysAny(<<r.seed>>) <=> Says(r.seed))
  BY SaysAnyOf
<1>2. all \in Seq(Seq(S))
  BY <1>1
<1>3. SaysAny(all) <=> SaysAny(texts) \/ Says(r.seed)
  BY <1>1, SaysAnyConcat
<1>c. ValidateJobCreateRequest(r, texts) =
        IF \/ ~ Complete(r)
           \/ r.mode \notin {"topic_only", "upload", "polymarket"}
           \/ r.event.json = "no object"
           \/ r.mode = "upload" /\ StrippedOf(all) = <<>>
           \/ r.mode = "polymarket" /\ r.event.json \in {"none", "empty"}
        THEN refused ELSE accepted
  BY DEF ValidateJobCreateRequest
<1> HIDE DEF all
<1>4. StrippedOf(all) = <<>> <=> ~ SaysAny(all)
  BY <1>2, StrippedOfIs DEF SpokenOf
<1>5. refused.code = 422
  BY DEF Refused
<1>6. /\ accepted.code = 200 /\ accepted.mode = r.mode /\ accepted.seed = r.seed
      /\ accepted.texts = texts /\ accepted.event = r.event
  BY DEF Accepted
<1> HIDE DEF refused, accepted
<1>7. ValidateJobCreateRequest(r, texts) = IF Unheard(r, texts) THEN refused ELSE accepted
  BY <1>3, <1>4, <1>c DEF Unheard
<1>8. QED
  BY <1>5, <1>6, <1>7

Given(r) == Says(r.seed) \/ \E i \in DOMAIN r.files : SaysAny(r.files[i].pages)

HasTheTexts(r, texts) ==
  /\ DOMAIN texts = DOMAIN r.files
  /\ \A i \in DOMAIN r.files : Ink(texts[i]) = Ink(Joined(r.files[i].pages))
                              /\ (Says(texts[i]) <=> SaysAny(r.files[i].pages))

LEMMA HeardIs ==
  ASSUME NEW r, IsRequest(r), NEW budget \in Nat, budget # 0, NEW texts \in Seq(Seq(Letters(r))),
         r.mode = "upload" => HasTheTexts(r, texts), ~ Unread(r)
  PROVE  RequestIsHeard(r, budget, ValidateJobCreateRequest(r, texts))
<1> DEFINE S == Letters(r)
           job == ValidateJobCreateRequest(r, texts)
           evidence == RequestEvidence(job, budget)
           proper == /\ Complete(r) /\ r.event.json # "no object"
                     /\ \/ r.mode = "topic_only"
                        \/ r.mode = "upload" /\ Given(r)
                        \/ r.mode = "polymarket" /\ r.event.json \notin {"none", "empty"}
<1>1. r.seed \in Seq(S) /\ EventIn(r.event, S)
  BY RequestIn
<1>2. /\ Unheard(r, texts) => job.code = 422
      /\ ~ Unheard(r, texts) =>
           /\ job.code = 200 /\ job.mode = r.mode /\ job.seed = r.seed
           /\ job.texts = texts /\ job.event = r.event
  <2> HIDE DEF S
  <2>1. texts \in Seq(Seq(S))
    BY DEF S
  <2>2. QED
    BY <1>1, <2>1, ValidIs
<1>3. r.mode = "upload" => (Given(r) <=> SaysAny(texts) \/ Says(r.seed))
  BY DEF Given, HasTheTexts, SaysAny
<1>t. texts \in Seq(Seq(S))
  OBVIOUS
<1>e. evidence = IF job.mode = "upload" THEN UploadEvidence(job.texts, job.seed, budget)
                 ELSE IF job.mode = "polymarket" THEN PolymarketEvidence(NormalizeEvent(job.event))
                 ELSE <<>>
  BY DEF RequestEvidence
<1> HIDE DEF S, job, evidence
<1>4. job.code = IF Unread(r) THEN 400 ELSE IF proper THEN 200 ELSE 422
  <2>1. Unheard(r, texts) <=> ~ proper
    BY <1>3 DEF Unheard
  <2> HIDE DEF proper
  <2>2. QED
    BY <1>2, <2>1
<1>5. ASSUME job.code = 200
      PROVE  /\ \A i \in DOMAIN evidence : NotBlank(evidence[i])
             /\ job.mode = "upload" =>
                  /\ evidence # <<>>
                  /\ \A i \in DOMAIN r.files : Ink(job.texts[i]) = Ink(Joined(r.files[i].pages))
             /\ job.mode = "polymarket" => (evidence # <<>> <=> Tells(r.event))
  <2>1. ~ Unheard(r, texts)
        /\ job.mode = r.mode /\ job.seed = r.seed /\ job.texts = texts /\ job.event = r.event
    BY <1>2, <1>5
  <2>2. \A ev \in Seq(Seq(S)) : (\A i \in DOMAIN ev : Says(ev[i])) => \A i \in DOMAIN ev : NotBlank(ev[i])
    <3> SUFFICES ASSUME NEW ev \in Seq(Seq(S)), NEW i \in DOMAIN ev, Says(ev[i]) PROVE NotBlank(ev[i])
      OBVIOUS
    <3>1. ev[i] \in Seq(S)
      BY LenProperties, ElementOfSeq
    <3>2. QED
      BY <3>1, StripIs DEF NotBlank
  <2>3. CASE r.mode = "upload"
    <3>1. evidence = UploadEvidence(texts, r.seed, budget)
      BY <1>e, <2>1, <2>3
    <3>2. /\ evidence \in Seq(Seq(S)) /\ \A i \in DOMAIN evidence : Says(evidence[i])
          /\ budget # 0 /\ (SaysAny(texts) \/ Says(r.seed)) => evidence # <<>>
      BY <1>1, <1>t, <3>1, UploadIs
    <3>3. SaysAny(texts) \/ Says(r.seed)
      BY <2>1, <2>3 DEF Unheard
    <3>4. \A i \in DOMAIN r.files : Ink(job.texts[i]) = Ink(Joined(r.files[i].pages))
      BY <2>1, <2>3 DEF HasTheTexts
    <3>5. QED
      BY <2>1, <2>2, <2>3, <3>2, <3>3, <3>4
  <2>4. CASE r.mode = "polymarket"
    <3>1. evidence = PolymarketEvidence(NormalizeEvent(r.event))
      BY <1>e, <2>1, <2>4
    <3>2. /\ evidence \in Seq(Seq(S)) /\ \A i \in DOMAIN evidence : Says(evidence[i])
          /\ evidence # <<>> <=> Tells(r.event)
      BY <1>1, <3>1, PolymarketIs
    <3>3. QED
      BY <2>1, <2>2, <2>4, <3>2
  <2>5. CASE r.mode \notin {"upload", "polymarket"}
    <3>1. evidence = <<>>
      BY <1>e, <2>1, <2>5
    <3>2. DOMAIN evidence = {}
      BY <3>1
    <3>3. QED
      BY <2>1, <2>5, <3>2
  <2>6. QED
    BY <2>3, <2>4, <2>5
<1>6. RequestIsHeard(r, budget, job)
  BY <1>4, <1>5 DEF RequestIsHeard, Given, Unread, Tells, Asks, evidence
<1>7. QED
  BY <1>6 DEF job

LEMMA RequestFound ==
  ASSUME NEW r, IsRequest(r), NEW budget \in Nat, budget # 0
  PROVE  RequestIsHeard(r, budget, ParseJobCreateRequest(r))
<1> DEFINE S == Letters(r)
           job == ParseJobCreateRequest(r)
           joined == [i \in DOMAIN r.files |-> Joined(r.files[i].pages)]
           read == IF r.mode = "upload" THEN r.files ELSE <<>>
           texts == [i \in DOMAIN read |-> ExtractText(read[i])]
           n == Len(r.files)
           m == Len(read)
<1>1. Unread(r) => RequestIsHeard(r, budget, Refused(400))
  <2> DEFINE refused == Refused(400)
  <2>1. refused.code = 400 /\ refused.code # 200
    BY DEF Refused
  <2> HIDE DEF refused
  <2>2. Unread(r) => RequestIsHeard(r, budget, refused)
    BY <2>1 DEF RequestIsHeard, Unread
  <2>3. QED
    BY <2>2 DEF refused
<1>2. "\n" \in S /\ n \in Nat /\ DOMAIN r.files = 1..n /\ \A i \in 1..n : r.files[i].pages \in Seq(Seq(S))
  <2>1. r.files \in Seq(ToSet(r.files)) /\ \A i \in DOMAIN r.files : r.files[i].pages \in Seq(Seq(S))
    BY RequestIn DEF IsList
  <2>2. n \in Nat /\ DOMAIN r.files = 1..n
    BY <2>1, LenProperties
  <2>3. QED
    BY <2>1, <2>2 DEF Letters
<1>3. m \in Nat /\ DOMAIN read = 1..m /\ \A i \in 1..m : read[i].pages \in Seq(Seq(S))
  <2>1. CASE r.mode = "upload"
    BY <1>2, <2>1
  <2>2. CASE r.mode # "upload"
    <3>1. read = <<>>
      BY <2>2
    <3> HIDE DEF read
    <3>2. m = 0 /\ DOMAIN read = 1..0
      BY <3>1
    <3>3. QED
      BY <3>2
  <2>3. QED
    BY <2>1, <2>2
<1>r. r.mode = "upload" => read = r.files
  OBVIOUS
<1>p. /\ Unread(r) => job = Refused(400)
      /\ ~ Unread(r) => \/ job = ValidateJobCreateRequest(r, joined)
                        \/ job = ValidateJobCreateRequest(r, texts)
  <2>1. Unread(r) <=> (\/ r.body = "broken"
                       \/ r.body = "form" /\ r.event.json = "broken"
                       \/ r.body = "form" /\ \E i \in DOMAIN read : ~ Readable(read[i]))
    BY DEF Unread
  <2> DEFINE refused == Refused(400)
             ofJson == ValidateJobCreateRequest(r, joined)
             ofForm == ValidateJobCreateRequest(r, texts)
             unreadable == \E i \in DOMAIN read : ~ Readable(read[i])
  <2>2. job = CASE r.body = "broken" -> refused
                [] r.body = "json" -> ofJson
                [] r.body = "form" /\ r.event.json = "broken" -> refused
                [] r.body = "form" /\ unreadable -> refused
                [] OTHER -> ofForm
    BY DEF ParseJobCreateRequest
  <2> HIDE DEF job, refused, ofJson, ofForm, unreadable
  <2>3. /\ Unread(r) => job = refused
        /\ ~ Unread(r) => job = ofJson \/ job = ofForm
    <3>1. Unread(r) <=> (\/ r.body = "broken"
                         \/ r.body = "form" /\ r.event.json = "broken"
                         \/ r.body = "form" /\ unreadable)
      BY <2>1 DEF unreadable
    <3>2. QED
      BY <2>2, <3>1
  <2>4. QED
    BY <2>3 DEF refused, ofJson, ofForm
<1> HIDE DEF S, read, n, m
<1>4. /\ joined \in Seq(Seq(S)) /\ DOMAIN joined = DOMAIN r.files
      /\ \A i \in DOMAIN r.files : Ink(joined[i]) = Ink(Joined(r.files[i].pages))
                                  /\ (Says(joined[i]) <=> SaysAny(r.files[i].pages))
  <2>1. \A i \in 1..n : /\ Joined(r.files[i].pages) \in Seq(S)
                        /\ Says(Joined(r.files[i].pages)) <=> SaysAny(r.files[i].pages)
    BY <1>2, JoinedIs
  <2>2. joined \in [1..n -> Seq(S)]
    BY <1>2, <2>1
  <2>3. joined \in Seq(Seq(S))
    BY <1>2, <2>2, SeqDef
  <2>4. QED
    BY <1>2, <2>1, <2>3
<1>5. /\ texts \in Seq(Seq(S)) /\ DOMAIN texts = DOMAIN read
      /\ \A i \in DOMAIN read : Ink(texts[i]) = Ink(Joined(read[i].pages))
                               /\ (Says(texts[i]) <=> SaysAny(read[i].pages))
  <2>1. \A i \in 1..m : /\ ExtractText(read[i]) \in Seq(S)
                        /\ Ink(ExtractText(read[i])) = Ink(Joined(read[i].pages))
                        /\ Says(ExtractText(read[i])) <=> SaysAny(read[i].pages)
    BY <1>2, <1>3, ExtractTextIs
  <2>2. texts \in [1..m -> Seq(S)]
    BY <1>3, <2>1
  <2>3. texts \in Seq(Seq(S))
    BY <1>3, <2>2, SeqDef
  <2>4. QED
    BY <1>3, <2>1, <2>3
<1> HIDE DEF joined, texts, job
<1>6. ~ Unread(r) => RequestIsHeard(r, budget, ValidateJobCreateRequest(r, joined))
  <2>1. joined \in Seq(Seq(Letters(r))) /\ HasTheTexts(r, joined)
    BY <1>4 DEF HasTheTexts, S
  <2>2. QED
    BY <2>1, HeardIs
<1>7. ~ Unread(r) => RequestIsHeard(r, budget, ValidateJobCreateRequest(r, texts))
  <2>1. texts \in Seq(Seq(Letters(r))) /\ (r.mode = "upload" => HasTheTexts(r, texts))
    BY <1>5, <1>r DEF HasTheTexts, S
  <2>2. QED
    BY <2>1, HeardIs
<1>8. QED
  BY <1>1, <1>6, <1>7, <1>p DEF job

LEMMA UploadFound ==
  ASSUME NEW files, IsTexts(files), NEW seed, IsList(seed), NEW budget \in Nat
  PROVE  EvidenceWithinBudget(files, seed, budget, UploadEvidence(files, seed, budget))
<1> DEFINE S == LettersOf(files) \union ToSet(seed)
<1>1. files \in Seq(Seq(S)) /\ seed \in Seq(S)
  <2>1. LettersOf(files) \subseteq S /\ ToSet(seed) \subseteq S
    OBVIOUS
  <2> HIDE DEF S
  <2>2. QED
    BY <2>1, TextsIn, ListIn
<1> HIDE DEF S
<1>2. QED
  BY <1>1, UploadIs

-----------------------------------------------------------------------------
TextChunked == RagChunks(call.text, call.size)
TextInEpisodes == EpisodeChunks(call.text, call.size, call.overlap)
Uploaded == UploadEvidence(call.files, call.seed, call.budget)
TopicTold == TopicEvidence(call.hits, call.most)
ResultsGiven == SearchHits(call.results)
Requested == ParseJobCreateRequest(call.request)

LEMMA CutSteps ==
  ASSUME [Next]_<<call, answer>>
  PROVE  /\ call' = call
         /\ call.op = "rag chunks" => answer' = answer \/ answer' = <<TextChunked>>
         /\ call.op = "episodes" => answer' = answer \/ answer' = <<TextInEpisodes>>
         /\ call.op = "upload" => answer' = answer \/ answer' = <<Uploaded>>
         /\ call.op = "topic" => answer' = answer \/ answer' = <<TopicTold>>
         /\ call.op = "hits" => answer' = answer \/ answer' = <<ResultsGiven>>
         /\ call.op = "request" => answer' = answer \/ answer' = <<Requested>>
BY DEF Next, Traverse, Cut, Evidence, Compile, Read, Extract, Evolve, Remember, Answer,
       TextChunked, TextInEpisodes, Uploaded, TopicTold, ResultsGiven, Requested

(* _chunk_text, chunk_text and what Thinker makes of a request and of what *)
(* it finds, for texts of any length and any number: no chunker loses a    *)
(* character that is no blank or runs over a size; the evidence of an      *)
(* upload is cut and ends only where its budget does, blanks aside; and a  *)
(* request is accepted if and only if it can be read, has what is required *)
(* and, for an upload, says anything.                                      *)
THEOREM TextsAreKept == Spec => []TextIsKept
<1> DEFINE IInv == call \in Calls /\ TextIsKept
<1>1. Init => IInv
  BY DEF Init, TextIsKept, Answered
<1>2. IInv /\ [Next]_<<call, answer>> => IInv'
  <2> SUFFICES ASSUME call \in Calls, TextIsKept, [Next]_<<call, answer>>
               PROVE  IInv'
    OBVIOUS
  <2>0. call' = call
    BY CutSteps
  <2>1. CASE call.op = "rag chunks"
    <3>1. answer' = answer \/ answer' = <<TextChunked>>
      BY <2>1, CutSteps
    <3>2. RagChunksCover(call.text, call.size, TextChunked)
      <4>1. IsList(call.text) /\ call.size \in Int
        BY <2>1, CallsAreSound
      <4>2. QED
        BY <4>1, RagChunksFound DEF TextChunked
    <3>3. <<TextChunked>>[1] = TextChunked
      OBVIOUS
    <3> HIDE DEF TextChunked
    <3>4. QED
      BY <2>0, <2>1, <3>1, <3>2, <3>3 DEF TextIsKept, Answered
  <2>2. CASE call.op = "episodes"
    <3>1. answer' = answer \/ answer' = <<TextInEpisodes>>
      BY <2>2, CutSteps
    <3>2. EpisodesCover(call.text, call.size, call.overlap, TextInEpisodes)
      <4>1. IsList(call.text) /\ call.size \in Int /\ call.overlap \in Int
        BY <2>2, CallsAreSound
      <4>2. QED
        BY <4>1, EpisodesFound DEF TextInEpisodes
    <3>3. <<TextInEpisodes>>[1] = TextInEpisodes
      OBVIOUS
    <3> HIDE DEF TextInEpisodes
    <3>4. QED
      BY <2>0, <2>2, <3>1, <3>2, <3>3 DEF TextIsKept, Answered
  <2>3. CASE call.op = "upload"
    <3>1. answer' = answer \/ answer' = <<Uploaded>>
      BY <2>3, CutSteps
    <3>2. EvidenceWithinBudget(call.files, call.seed, call.budget, Uploaded)
      <4>1. IsTexts(call.files) /\ IsList(call.seed) /\ call.budget \in Nat
        BY <2>3, CallsAreSound
      <4>2. QED
        BY <4>1, UploadFound DEF Uploaded
    <3>3. <<Uploaded>>[1] = Uploaded
      OBVIOUS
    <3> HIDE DEF Uploaded
    <3>4. QED
      BY <2>0, <2>3, <3>1, <3>2, <3>3 DEF TextIsKept, Answered
  <2>4. CASE call.op = "topic"
    <3>1. answer' = answer \/ answer' = <<TopicTold>>
      BY <2>4, CutSteps
    <3>2. Len(TopicTold.evidence) =< TopicTold.references
      <4>1. IsList(call.hits) /\ call.most \in Nat
        BY <2>4, CallsAreSound
      <4>2. QED
        BY <4>1, TopicFound DEF TopicTold
    <3>3. <<TopicTold>>[1] = TopicTold
      OBVIOUS
    <3> HIDE DEF TopicTold
    <3>4. QED
      BY <2>0, <2>4, <3>1, <3>2, <3>3 DEF TextIsKept, Answered
  <2>5. CASE call.op = "hits"
    <3>1. answer' = answer \/ answer' = <<ResultsGiven>>
      BY <2>5, CutSteps
    <3>2. \A i \in DOMAIN ResultsGiven : ResultsGiven[i].title # <<>>
      <4>1. IsList(call.results)
        BY <2>5, CallsAreSound
      <4>2. QED
        BY <4>1, HitsFound DEF ResultsGiven
    <3>3. <<ResultsGiven>>[1] = ResultsGiven
      OBVIOUS
    <3> HIDE DEF ResultsGiven
    <3>4. QED
      BY <2>0, <2>5, <3>1, <3>2, <3>3 DEF TextIsKept, Answered
  <2>6. CASE call.op = "request"
    <3>1. answer' = answer \/ answer' = <<Requested>>
      BY <2>6, CutSteps
    <3>2. RequestIsHeard(call.request, call.budget, Requested)
      <4>1. IsRequest(call.request) /\ call.budget \in Nat /\ call.budget # 0
        BY <2>6, CallsAreSound
      <4>2. QED
        BY <4>1, RequestFound DEF Requested
    <3>3. <<Requested>>[1] = Requested
      OBVIOUS
    <3> HIDE DEF Requested
    <3>4. QED
      BY <2>0, <2>6, <3>1, <3>2, <3>3 DEF TextIsKept, Answered
  <2>7. CASE call.op \notin {"rag chunks", "episodes", "upload", "topic", "hits", "request"}
    BY <2>0, <2>7 DEF TextIsKept, Answered
  <2>8. QED
    BY <2>1, <2>2, <2>3, <2>4, <2>5, <2>6, <2>7
<1>3. IInv => TextIsKept
  OBVIOUS
<1>4. QED
  BY <1>1, <1>2, <1>3, PTL DEF Spec
=============================================================================
