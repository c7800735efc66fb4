-------------------------------- MODULE Lists --------------------------------
(***************************************************************************)
(* Facts about lists that several components need.  How many closures of   *)
(* some kinds are queued: what putting something at the end of a queue and *)
(* taking its head do to the count.  Induction on numbers and lists, from  *)
(* the fact that a set of numbers has a least one, for a set instead of a  *)
(* predicate.  Lists of lists put one behind the other.                    *)
(***************************************************************************)
EXTENDS Integers, SequencesExt, FiniteSets, FiniteSetTheorems, FunctionTheorems, SequenceTheorems,
        WellFoundedInduction, TLAPS

(* How many.                                                               *)

PlacesOf(s, kinds) == {i \in DOMAIN s : s[i] \in kinds}
NumberOf(s, kinds) == Cardinality(PlacesOf(s, kinds))

\* The places of a sequence are finitely many.
LEMMA PlacesFinite ==
    ASSUME NEW S, NEW s \in Seq(S), NEW kinds
    PROVE  IsFiniteSet(PlacesOf(s, kinds)) /\ NumberOf(s, kinds) \in Nat
<1>1. DOMAIN s = 1..Len(s) /\ Len(s) \in Nat
  OBVIOUS
<1>2. IsFiniteSet(1..Len(s))
  BY <1>1, FS_Interval
<1>3. PlacesOf(s, kinds) \in SUBSET (1..Len(s))
  BY <1>1 DEF PlacesOf
<1>4. IsFiniteSet(PlacesOf(s, kinds))
  BY <1>2, <1>3, FS_Subset
<1> QED
  BY <1>4, FS_CardinalityType DEF NumberOf

\* An empty queue, and one that holds a single closure.
LEMMA NumberOfFew ==
    /\ \A kinds : NumberOf(<<>>, kinds) = 0
    /\ \A x, kinds : NumberOf(<<x>>, kinds) = IF x \in kinds THEN 1 ELSE 0
<1>1. ASSUME NEW kinds PROVE NumberOf(<<>>, kinds) = 0
  <2>1. PlacesOf(<<>>, kinds) = {}
    BY DEF PlacesOf
  <2> QED
    BY <2>1, FS_EmptySet DEF NumberOf
<1>2. ASSUME NEW x, NEW kinds
      PROVE  NumberOf(<<x>>, kinds) = IF x \in kinds THEN 1 ELSE 0
  <2>1. DOMAIN <<x>> = {1} /\ <<x>>[1] = x
    OBVIOUS
  <2>2. PlacesOf(<<x>>, kinds) = IF x \in kinds THEN {1} ELSE {}
    BY <2>1 DEF PlacesOf
  <2> QED
    BY <2>2, FS_EmptySet, FS_Singleton DEF NumberOf
<1> QED
  BY <1>1, <1>2

\* A place holds something that is counted.
LEMMA NumberOfNone ==
    ASSUME NEW S, NEW s \in Seq(S), NEW kinds
    PROVE  NumberOf(s, kinds) = 0 <=> \A i \in DOMAIN s : s[i] \notin kinds
<1>1. NumberOf(s, kinds) = 0 <=> PlacesOf(s, kinds) = {}
  BY PlacesFinite, FS_EmptySet DEF NumberOf
<1> QED
  BY <1>1 DEF PlacesOf

\* Two queues one behind the other.
LEMMA NumberOfConcat ==
    ASSUME NEW S, NEW s \in Seq(S), NEW t \in Seq(S), NEW kinds
    PROVE  NumberOf(s \o t, kinds) = NumberOf(s, kinds) + NumberOf(t, kinds)
<1> DEFINE A == PlacesOf(s, kinds)
           B == PlacesOf(t, kinds)
           C == {i \in DOMAIN (s \o t) : i > Len(s) /\ (s \o t)[i] \in kinds}
           f == [i \in B |-> Len(s) + i]
<1>1. /\ Len(s) \in Nat /\ DOMAIN s = 1..Len(s)
      /\ Len(t) \in Nat /\ DOMAIN t = 1..Len(t)
      /\ s \o t \in Seq(S) /\ DOMAIN (s \o t) = 1..(Len(s) + Len(t))
  OBVIOUS
<1>2. \A i \in 1..Len(s) : (s \o t)[i] = s[i]
  OBVIOUS
<1>3. \A i \in 1..Len(t) : (s \o t)[Len(s) + i] = t[i]
  OBVIOUS
<1>4. PlacesOf(s \o t, kinds) = A \cup C
  BY <1>1, <1>2 DEF PlacesOf
<1>5. A \cap C = {}
  BY <1>1 DEF PlacesOf
<1>6. f \in Bijection(B, C)
  <2>1. \A i \in B : f[i] \in C
    BY <1>1, <1>3 DEF PlacesOf
  <2>2. \A i, j \in B : f[i] = f[j] => i = j
    BY <1>1 DEF PlacesOf
  <2>3. ASSUME NEW c \in C PROVE \E i \in B : f[i] = c
    <3>1. c - Len(s) \in 1..Len(t) /\ c = Len(s) + (c - Len(s))
      BY <1>1
    <3>2. t[c - Len(s)] \in kinds
      BY <1>3, <3>1
    <3>3. c - Len(s) \in B
      BY <1>1, <3>1, <3>2 DEF PlacesOf
    <3> QED
      BY <3>1, <3>3
  <2>4. f \in [B -> C]
    BY <2>1
  <2> HIDE DEF B, C, f
  <2> QED
    BY <2>2, <2>3, <2>4, Fun_IsBij
<1>7. ExistsBijection(B, C)
  BY <1>6 DEF ExistsBijection
<1>8. IsFiniteSet(A) /\ IsFiniteSet(B)
  BY PlacesFinite
<1>9. IsFiniteSet(C) /\ Cardinality(C) = Cardinality(B)
  BY <1>7, <1>8, FS_Bijection
<1>10. Cardinality(A \cup C) = Cardinality(A) + Cardinality(C) - Cardinality(A \cap C)
  BY <1>8, <1>9, FS_Union
<1>11. Cardinality(A \cap C) = 0
  BY <1>5, FS_EmptySet
<1>12. Cardinality(A) \in Nat /\ Cardinality(B) \in Nat
  BY <1>8, FS_CardinalityType
<1>13. /\ NumberOf(s, kinds) = Cardinality(A)
       /\ NumberOf(t, kinds) = Cardinality(B)
       /\ NumberOf(s \o t, kinds) = Cardinality(A \cup C)
  BY <1>4 DEF NumberOf
<1> HIDE DEF A, B, C, f
<1> QED
  BY <1>9, <1>10, <1>11, <1>12, <1>13

\* Something is queued.
LEMMA NumberOfAppend ==
    ASSUME NEW S, NEW s \in Seq(S), NEW x \in S, NEW kinds
    PROVE  NumberOf(Append(s, x), kinds) =
              NumberOf(s, kinds) + (IF x \in kinds THEN 1 ELSE 0)
<1>1. Append(s, x) = s \o <<x>> /\ <<x>> \in Seq(S)
  OBVIOUS
<1>2. NumberOf(s \o <<x>>, kinds) = NumberOf(s, kinds) + NumberOf(<<x>>, kinds)
  BY <1>1, NumberOfConcat
<1> QED
  BY <1>1, <1>2, NumberOfFew

\* The head of a queue is taken.
LEMMA NumberOfTail ==
    ASSUME NEW S, NEW s \in Seq(S), s # <<>>, NEW kinds
    PROVE  NumberOf(s, kinds) =
              NumberOf(Tail(s), kinds) + (IF Head(s) \in kinds THEN 1 ELSE 0)
<1>1. <<Head(s)>> \in Seq(S) /\ Tail(s) \in Seq(S)
  OBVIOUS
<1>2. s = <<Head(s)>> \o Tail(s)
  OBVIOUS
<1>3. NumberOf(<<Head(s)>> \o Tail(s), kinds)
        = NumberOf(<<Head(s)>>, kinds) + NumberOf(Tail(s), kinds)
  BY <1>1, NumberOfConcat
<1>4. NumberOf(Tail(s), kinds) \in Nat
  BY <1>1, PlacesFinite
<1>5. NumberOf(s, kinds) = NumberOf(<<Head(s)>>, kinds) + NumberOf(Tail(s), kinds)
  BY <1>2, <1>3
<1> QED
  BY <1>4, <1>5, NumberOfFew

-----------------------------------------------------------------------------
(* Induction.                                                              *)

\* Every set of numbers has a least one.
LEMMA LeastExists ==
    ASSUME NEW T \in SUBSET Nat, T # {} PROVE \E n \in T : \A m \in T : n <= m
<1> DEFINE R == OpToRel(<, Nat)
<1>1. IsWellFoundedOn(R, Nat)
  BY NatLessThanWellFounded
<1>2. \E x \in T : \A y \in T : ~(<<y, x>> \in R)
  <2> HIDE DEF R
  <2> QED
    BY <1>1, WFMin
<1>3. \A x, y \in Nat : y < x => <<y, x>> \in R
  BY DEF OpToRel
<1>4. \E x \in T : \A y \in T : ~(y < x)
  BY <1>2, <1>3, Zenon
<1> QED
  <2> HIDE <1>1, <1>2, <1>3
  <2>1. PICK x \in T : \A y \in T : ~(y < x)
    BY <1>4
  <2> QED
    BY <2>1

\* Induction on numbers, for a set of them.
LEMMA Induction ==
    ASSUME NEW S, 0 \in S, \A n \in Nat : n \in S => n + 1 \in S PROVE Nat \subseteq S
<1> DEFINE T == Nat \ S
<1>1. SUFFICES ASSUME T # {} PROVE FALSE
  OBVIOUS
<1>2. PICK n \in T : \A m \in T : n <= m
  BY <1>1, LeastExists
<1>3. n # 0 /\ n - 1 \in Nat /\ n - 1 \notin T
  BY <1>2
<1> QED
  BY <1>2, <1>3

\* Induction on lists, for a set of them.
LEMMA ListInduction ==
    ASSUME NEW X, NEW S, <<>> \in S,
           \A s \in Seq(X), x \in X : s \in S => Append(s, x) \in S
    PROVE  Seq(X) \subseteq S
<1> DEFINE T == {n \in Nat : \A s \in Seq(X) : Len(s) = n => s \in S}
<1>1. 0 \in T
  BY EmptySeq
<1>2. ASSUME NEW n \in Nat, n \in T PROVE n + 1 \in T
  <2>1. ASSUME NEW s \in Seq(X), Len(s) = n + 1 PROVE s \in S
    <3> DEFINE front == SubSeq(s, 1, n)
    <3>1. front \in Seq(X) /\ Len(front) = n /\ s[n + 1] \in X
      BY <2>1, SubSeqProperties, LenProperties
    <3>2. s = Append(front, s[n + 1])
      BY <2>1
    <3> QED
      BY <1>2, <3>1, <3>2
  <2> QED
    BY <2>1
<1>3. Nat \subseteq T
  <2> HIDE DEF T
  <2> QED
    BY <1>1, <1>2, Induction
<1> QED
  BY <1>3, LenProperties

-----------------------------------------------------------------------------
(* The same, equally often.                                                *)

\* Kinds that have nothing in common, and all of what may be queued.
LEMMA NumberOfUnion ==
    ASSUME NEW S, NEW s \in Seq(S), NEW A, NEW B, A \cap B = {}
    PROVE  NumberOf(s, A \cup B) = NumberOf(s, A) + NumberOf(s, B)
<1> DEFINE P == PlacesOf(s, A)
           Q == PlacesOf(s, B)
<1>1. PlacesOf(s, A \cup B) = P \cup Q /\ P \cap Q = {}
  BY DEF PlacesOf
<1>2. IsFiniteSet(P) /\ IsFiniteSet(Q) /\ Cardinality(P) \in Nat /\ Cardinality(Q) \in Nat
  BY PlacesFinite, FS_CardinalityType
<1> HIDE DEF P, Q
<1>3. Cardinality(P \cup Q) = Cardinality(P) + Cardinality(Q) - Cardinality({})
  BY <1>1, <1>2, FS_Union
<1>4. Cardinality(P \cup Q) = Cardinality(P) + Cardinality(Q)
  BY <1>2, <1>3, FS_EmptySet
<1> QED
  BY <1>1, <1>4 DEF NumberOf, P, Q

LEMMA NumberOfAll ==
    ASSUME NEW S, NEW s \in Seq(S), NEW kinds
    PROVE  NumberOf(s, kinds) = Len(s) <=> \A i \in DOMAIN s : s[i] \in kinds
<1> DEFINE P == PlacesOf(s, kinds)
           D == 1..Len(s)
<1>1. Len(s) \in Nat /\ DOMAIN s = D /\ P \in SUBSET D
  BY DEF PlacesOf
<1>2. IsFiniteSet(D) /\ Cardinality(D) = Len(s)
  <2> DEFINE n == Len(s)
  <2>1. n \in Nat /\ 1 \in Int /\ n \in Int
    BY <1>1
  <2> HIDE DEF n
  <2>2. IsFiniteSet(1..n) /\ Cardinality(1..n) = IF 1 > n THEN 0 ELSE n - 1 + 1
    BY <2>1, FS_Interval
  <2> QED
    BY <2>1, <2>2 DEF n
<1>3. P = D <=> \A i \in DOMAIN s : s[i] \in kinds
  BY <1>1 DEF PlacesOf
<1> HIDE DEF P, D
<1>4. Cardinality(P) = Cardinality(D) <=> P = D
  BY <1>1, <1>2, FS_Subset
<1> QED
  BY <1>2, <1>3, <1>4 DEF NumberOf, P

\* What is labelled alike, and what is labelled like one of the first n.
Alike(S, label, x) == {y \in S : label[y] = label[x]}
LikeFirst(S, label, s, n) == {y \in S : \E i \in 1..n : label[y] = label[s[i]]}

\* Two lists of the same length that have everything in the first equally often
\* have everything equally often.
LEMMA SameCounts ==
    ASSUME NEW S, NEW label, NEW a \in Seq(S), NEW b \in Seq(S), Len(a) = Len(b),
           \A i \in DOMAIN a : NumberOf(a, Alike(S, label, a[i])) = NumberOf(b, Alike(S, label, a[i])),
           NEW K, \A x, y \in S : label[x] = label[y] => (x \in K <=> y \in K)
    PROVE  NumberOf(a, K) = NumberOf(b, K)
<1> DEFINE U(n) == LikeFirst(S, label, a, n)
           Closed(M) == \A x, y \in S : label[x] = label[y] => (x \in M <=> y \in M)
<1>1. Len(a) \in Nat /\ DOMAIN a = 1..Len(a) /\ \A i \in 1..Len(a) : a[i] \in S
  BY ElementOfSeq
<1>2. ASSUME NEW M, Closed(M), NEW n \in Nat, n <= Len(a)
      PROVE  NumberOf(a, U(n) \cap M) = NumberOf(b, U(n) \cap M)
  <2> DEFINE T == {m \in Nat : m <= Len(a) => NumberOf(a, U(m) \cap M) = NumberOf(b, U(m) \cap M)}
  <2>1. 0 \in T
    <3>1. U(0) \cap M = {}
      BY DEF LikeFirst
    <3>2. NumberOf(a, {}) = 0 /\ NumberOf(b, {}) = 0
      BY NumberOfNone
    <3> QED
      BY <3>1, <3>2
  <2>2. ASSUME NEW m \in Nat, m \in T PROVE m + 1 \in T
    <3> SUFFICES ASSUME m + 1 <= Len(a)
                 PROVE  NumberOf(a, U(m + 1) \cap M) = NumberOf(b, U(m + 1) \cap M)
      OBVIOUS
    <3>1. NumberOf(a, U(m) \cap M) = NumberOf(b, U(m) \cap M)
      BY <1>1, <2>2
    <3> DEFINE x == a[m + 1]
               A == Alike(S, label, x)
    <3>2. m + 1 \in DOMAIN a /\ x \in S
      BY <1>1
    <3>3. U(m + 1) = U(m) \cup A
      <4>1. \A i : i \in 1..(m + 1) <=> i \in 1..m \/ i = m + 1
        OBVIOUS
      <4> QED
        BY <4>1 DEF LikeFirst, Alike
    <3>4. NumberOf(a, A) = NumberOf(b, A)
      BY <3>2
    <3>5. CASE x \in U(m) \/ x \notin M
      <4>1. U(m + 1) \cap M = U(m) \cap M
        BY <1>2, <3>2, <3>3, <3>5 DEF LikeFirst, Alike
      <4> QED
        BY <3>1, <4>1
    <3>6. CASE x \notin U(m) /\ x \in M
      <4>1. U(m + 1) \cap M = (U(m) \cap M) \cup A
        BY <1>2, <3>2, <3>3, <3>6 DEF Alike
      <4>2. (U(m) \cap M) \cap A = {}
        BY <3>2, <3>6 DEF LikeFirst, Alike
      <4> DEFINE V == U(m) \cap M
      <4> HIDE DEF V, A
      <4>3. NumberOf(a, V \cup A) = NumberOf(a, V) + NumberOf(a, A)
        BY <4>2, NumberOfUnion DEF V
      <4>4. NumberOf(b, V \cup A) = NumberOf(b, V) + NumberOf(b, A)
        BY <4>2, NumberOfUnion DEF V
      <4> QED
        BY <3>1, <3>4, <4>1, <4>3, <4>4 DEF V
    <3> QED
      BY <3>5, <3>6
  <2>3. Nat \subseteq T
    <3> HIDE DEF T
    <3> QED
      BY <2>1, <2>2, Induction
  <2> QED
    BY <1>2, <2>3
<1> DEFINE W == U(Len(a))
<1>3. \A i \in DOMAIN a : a[i] \in W
  BY <1>1 DEF LikeFirst
<1>4. Closed(K) /\ Closed(S) /\ W \cap S = W
  BY DEF LikeFirst
<1> HIDE DEF Closed
<1>5. \A M : Closed(M) => NumberOf(a, W \cap M) = NumberOf(b, W \cap M)
  <2>1. Len(a) <= Len(a)
    BY <1>1
  <2> HIDE DEF U
  <2>2. ASSUME NEW M, Closed(M) PROVE NumberOf(a, U(Len(a)) \cap M) = NumberOf(b, U(Len(a)) \cap M)
    BY <1>1, <1>2, <2>1, <2>2
  <2> QED
    BY <2>2
<1>6. \A j \in DOMAIN b : b[j] \in W
  <2>1. NumberOf(a, W) = NumberOf(b, W)
    <3> HIDE DEF W
    <3> QED
      BY <1>4, <1>5
  <2> HIDE DEF W
  <2>2. NumberOf(a, W) = Len(a)
    BY <1>3, NumberOfAll
  <2> QED
    BY <2>1, <2>2, NumberOfAll
<1> HIDE DEF W
<1>7. NumberOf(a, W \cap K) = NumberOf(b, W \cap K)
  BY <1>4, <1>5
<1>8. PlacesOf(a, W \cap K) = PlacesOf(a, K) /\ PlacesOf(b, W \cap K) = PlacesOf(b, K)
  BY <1>3, <1>6 DEF PlacesOf
<1> QED
  BY <1>8, <1>7 DEF NumberOf

-----------------------------------------------------------------------------
(* Lists of lists.                                                         *)

\* A list with one more element, by its elements.
LEMMA AppendIs ==
    ASSUME NEW X, NEW s \in Seq(X), NEW x \in X
    PROVE  Append(s, x) = [i \in 1..(Len(s) + 1) |-> IF i = Len(s) + 1 THEN x ELSE s[i]]
<1> DEFINE t == Append(s, x)
<1>1. t \in Seq(X) /\ Len(t) = Len(s) + 1
  OBVIOUS
<1>2. t = [i \in 1..Len(t) |-> t[i]]
  <2> HIDE DEF t
  <2> QED
    BY <1>1
<1>3. \A i \in 1..(Len(s) + 1) : t[i] = IF i = Len(s) + 1 THEN x ELSE s[i]
  OBVIOUS
<1> HIDE DEF t
<1> QED
  BY <1>1, <1>2, <1>3 DEF t

\* The concatenations of the first lists of s, up to k of them.
Partial(f, s, k) == f[0] = <<>> /\ \A n \in 1..k : f[n] = f[n - 1] \o s[n]

LEMMA PartialExists ==
    ASSUME NEW X, NEW s \in Seq(Seq(X)), NEW k \in Nat, k <= Len(s)
    PROVE  \E f \in [0..k -> Seq(X)] : Partial(f, s, k)
<1> DEFINE Reached(n) == n <= Len(s) => \E f \in [0..n -> Seq(X)] : Partial(f, s, n)
           T == {n \in Nat : Reached(n)}
<1>1. Len(s) \in Nat /\ \A i \in 1..Len(s) : s[i] \in Seq(X)
  BY LenProperties, ElementOfSeq
<1>2. Reached(0)
  <2> DEFINE f == [n \in 0..0 |-> <<>>]
  <2>1. f \in [0..0 -> Seq(X)] /\ Partial(f, s, 0)
    BY EmptySeq DEF Partial
  <2> QED
    BY <2>1
<1>3. ASSUME NEW n \in Nat, Reached(n) PROVE Reached(n + 1)
  <2> SUFFICES ASSUME n + 1 <= Len(s)
               PROVE  \E f \in [0..(n + 1) -> Seq(X)] : Partial(f, s, n + 1)
    OBVIOUS
  <2>1. n <= Len(s) /\ n + 1 \in 1..Len(s)
    BY <1>1
  <2>2. PICK f \in [0..n -> Seq(X)] : Partial(f, s, n)
    BY <1>3, <2>1
  <2> DEFINE g == [m \in 0..(n + 1) |-> IF m <= n THEN f[m] ELSE f[n] \o s[n + 1]]
  <2>3. f[n] \o s[n + 1] \in Seq(X)
    BY <1>1, <2>1, <2>2, ConcatProperties
  <2>4. g \in [0..(n + 1) -> Seq(X)]
    BY <2>2, <2>3
  <2>5. g[n + 1] = f[n] \o s[n + 1]
    OBVIOUS
  <2>6. \A m \in 0..n : g[m] = f[m]
    OBVIOUS
  <2> HIDE DEF g
  <2>7. g[0] = <<>>
    BY <2>2, <2>6 DEF Partial
  <2>8. ASSUME NEW m \in 1..(n + 1) PROVE g[m] = g[m - 1] \o s[m]
    <3>1. CASE m \in 1..n
      <4>1. g[m] = f[m] /\ g[m - 1] = f[m - 1]
        BY <2>6, <3>1
      <4> QED
        BY <2>2, <3>1, <4>1 DEF Partial
    <3>2. CASE m = n + 1
      <4>1. g[m - 1] = f[n]
        BY <2>6, <3>2
      <4> QED
        BY <2>5, <3>2, <4>1
    <3>3. m \in 1..n \/ m = n + 1
      BY <2>8
    <3> QED
      BY <3>1, <3>2, <3>3
  <2> QED
    BY <2>4, <2>7, <2>8 DEF Partial
<1> HIDE DEF Reached
<1>4. 0 \in T /\ \A n \in Nat : n \in T => n + 1 \in T
  BY <1>2, <1>3
<1>5. Nat \subseteq T
  <2> HIDE DEF T
  <2> QED
    BY <1>4, Induction
<1>6. Reached(k)
  BY <1>5
<1> QED
  BY <1>6 DEF Reached

\* They are determined.
LEMMA PartialIsUnique ==
    ASSUME NEW s, NEW k \in Nat, NEW f, NEW g, Partial(f, s, k), Partial(g, s, k)
    PROVE  \A n \in 0..k : f[n] = g[n]
<1> DEFINE Same(n) == n <= k => f[n] = g[n]
           T == {n \in Nat : Same(n)}
<1>1. Same(0)
  BY DEF Partial
<1>2. ASSUME NEW n \in Nat, Same(n) PROVE Same(n + 1)
  <2> SUFFICES ASSUME n + 1 <= k PROVE f[n + 1] = g[n + 1]
    OBVIOUS
  <2>1. n + 1 \in 1..k /\ (n + 1) - 1 = n /\ f[n] = g[n]
    BY <1>2
  <2>2. f[n + 1] = f[n] \o s[n + 1] /\ g[n + 1] = g[n] \o s[n + 1]
    <3>1. f[n + 1] = f[(n + 1) - 1] \o s[n + 1] /\ g[n + 1] = g[(n + 1) - 1] \o s[n + 1]
      BY <2>1 DEF Partial
    <3> QED
      BY <2>1, <3>1
  <2> QED
    BY <2>1, <2>2
<1> HIDE DEF Same
<1>3. 0 \in T /\ \A n \in Nat : n \in T => n + 1 \in T
  BY <1>1, <1>2
<1>4. Nat \subseteq T
  <2> HIDE DEF T
  <2> QED
    BY <1>3, Induction
<1>5. \A n \in Nat : Same(n)
  BY <1>4
<1> QED
  BY <1>5 DEF Same

\* What FlattenSeq computes.
LEMMA FlattenIsLast ==
    ASSUME NEW X, NEW s \in Seq(Seq(X)), NEW f \in [0..Len(s) -> Seq(X)], Partial(f, s, Len(s))
    PROVE  FlattenSeq(s) = f[Len(s)]
<1> DEFINE Equation(g) ==
               g = [i \in 1..Len(s) |-> IF i = 1 THEN s[i] ELSE g[i - 1] \o s[i]]
           flat == CHOOSE g : Equation(g)
<1>1. Len(s) \in Nat /\ \A i \in 1..Len(s) : s[i] \in Seq(X)
  BY LenProperties, ElementOfSeq
<1>2. CASE Len(s) = 0
  <2>1. s = <<>> /\ FlattenSeq(s) = s
    BY <1>2, EmptySeq DEF FlattenSeq
  <2> QED
    BY <1>2, <2>1 DEF Partial
<1>3. CASE Len(s) # 0
  <2> DEFINE h == [i \in 1..Len(s) |-> f[i]]
  <2>1. f[1] = s[1]
    <3>1. 1 \in 1..Len(s) /\ s[1] \in Seq(X)
      BY <1>1, <1>3
    <3>2. f[1] = f[1 - 1] \o s[1]
      BY <3>1 DEF Partial
    <3>3. f[1 - 1] = <<>>
      BY DEF Partial
    <3> QED
      BY <3>1, <3>2, <3>3, ConcatEmptySeq
  <2>2. ASSUME NEW i \in 1..Len(s), i # 1 PROVE h[i] = h[i - 1] \o s[i]
    <3>1. i - 1 \in 1..Len(s)
      BY <1>1, <2>2
    <3>2. h[i] = f[i] /\ h[i - 1] = f[i - 1]
      BY <3>1
    <3> QED
      BY <3>2 DEF Partial
  <2>3. h[1] = s[1]
    BY <1>1, <1>3, <2>1
  <2>4. h = [i \in 1..Len(s) |-> IF i = 1 THEN s[i] ELSE h[i - 1] \o s[i]]
    <3>1. h = [i \in 1..Len(s) |-> h[i]]
      OBVIOUS
    <3> HIDE DEF h
    <3>2. \A i \in 1..Len(s) : h[i] = IF i = 1 THEN s[i] ELSE h[i - 1] \o s[i]
      BY <2>2, <2>3
    <3> QED
      BY <3>1, <3>2
  <2>5. Equation(flat)
    <3>1. Equation(h)
      BY <2>4
    <3> HIDE DEF h, Equation
    <3> QED
      BY <3>1
  <2>6. FlattenSeq(s) = flat[Len(s)]
    BY <1>3 DEF FlattenSeq
  <2> HIDE DEF flat
  <2> DEFINE g == [n \in 0..Len(s) |-> IF n = 0 THEN <<>> ELSE flat[n]]
  <2>7. ASSUME NEW n \in 1..Len(s) PROVE g[n] = g[n - 1] \o s[n]
    <3>1. g[n] = flat[n]
      BY <1>1
    <3>2. flat[n] = [i \in 1..Len(s) |-> IF i = 1 THEN s[i] ELSE flat[i - 1] \o s[i]][n]
      BY <2>5
    <3>3. flat[n] = IF n = 1 THEN s[n] ELSE flat[n - 1] \o s[n]
      BY <3>2
    <3>4. CASE n = 1
      <4>1. g[n - 1] = <<>> /\ s[n] \in Seq(X)
        BY <1>1, <3>4
      <4> QED
        BY <3>1, <3>4, <3>3, <4>1, ConcatEmptySeq
    <3>5. CASE n # 1
      <4>1. g[n - 1] = flat[n - 1]
        BY <1>1, <3>5
      <4> QED
        BY <3>1, <3>5, <3>3, <4>1
    <3> QED
      BY <3>4, <3>5
  <2>8. Partial(g, s, Len(s))
    <3>1. g[0] = <<>>
      BY <1>1
    <3> HIDE DEF g
    <3> QED
      BY <2>7, <3>1 DEF Partial
  <2>9. g[Len(s)] = flat[Len(s)]
    BY <1>1, <1>3
  <2> HIDE DEF g
  <2>10. f[Len(s)] = g[Len(s)]
    BY <1>1, <2>8, PartialIsUnique
  <2> QED
    BY <2>6, <2>9, <2>10
<1> QED
  BY <1>2, <1>3

\* One list more behind the others.
LEMMA FlattenAppend ==
    ASSUME NEW X, NEW s \in Seq(Seq(X)), NEW t \in Seq(X)
    PROVE  /\ FlattenSeq(s) \in Seq(X)
           /\ FlattenSeq(Append(s, t)) = FlattenSeq(s) \o t
<1> DEFINE u == Append(s, t)
<1>1. /\ Len(s) \in Nat /\ u \in Seq(Seq(X)) /\ Len(u) = Len(s) + 1 /\ u[Len(u)] = t
      /\ \A i \in 1..Len(s) : u[i] = s[i]
  BY AppendProperties
<1> HIDE DEF u
<1>2. PICK f \in [0..Len(u) -> Seq(X)] : Partial(f, u, Len(u))
  BY <1>1, PartialExists
<1> DEFINE g == [n \in 0..Len(s) |-> f[n]]
<1>3. g \in [0..Len(s) -> Seq(X)] /\ g[Len(s)] = f[Len(s)] /\ g[0] = f[0]
  BY <1>1
<1>4. ASSUME NEW n \in 1..Len(s) PROVE g[n] = g[n - 1] \o s[n]
  <2>1. n \in 1..Len(u) /\ u[n] = s[n] /\ g[n] = f[n] /\ g[n - 1] = f[n - 1]
    BY <1>1
  <2> QED
    BY <1>2, <2>1 DEF Partial
<1> HIDE DEF g
<1>5. Partial(g, s, Len(s))
  BY <1>2, <1>3, <1>4 DEF Partial
<1>6. FlattenSeq(s) = f[Len(s)] /\ FlattenSeq(u) = f[Len(u)]
  BY <1>1, <1>2, <1>3, <1>5, FlattenIsLast
<1>7. f[Len(u)] = f[Len(u) - 1] \o u[Len(u)] /\ Len(u) - 1 = Len(s)
  <2>1. Len(u) \in 1..Len(u)
    BY <1>1
  <2>2. f[Len(u)] = f[Len(u) - 1] \o u[Len(u)]
    BY <1>2, <2>1, Zenon DEF Partial
  <2> QED
    BY <1>1, <2>2
<1>8. f[Len(s)] \in Seq(X)
  BY <1>1, <1>2
<1> QED
  BY <1>1, <1>6, <1>7, <1>8 DEF u

\* No lists, and a single one.
LEMMA FlattenFew ==
    /\ FlattenSeq(<<>>) = <<>>
    /\ \A X : \A t \in Seq(X) : FlattenSeq(<<t>>) = t
<1>1. FlattenSeq(<<>>) = <<>>
  BY EmptySeq DEF FlattenSeq
<1>2. ASSUME NEW X, NEW t \in Seq(X) PROVE FlattenSeq(<<t>>) = t
  <2>1. <<>> \in Seq(Seq(X)) /\ Append(<<>>, t) = <<t>>
    BY EmptySeq
  <2>2. FlattenSeq(Append(<<>>, t)) = FlattenSeq(<<>>) \o t
    BY <2>1, FlattenAppend
  <2> QED
    BY <1>1, <2>1, <2>2, ConcatEmptySeq
<1> QED
  BY <1>1, <1>2

\* Lists of lists one behind the other.
LEMMA FlattenConcat ==
    ASSUME NEW X, NEW s \in Seq(Seq(X)), NEW t \in Seq(Seq(X))
    PROVE  FlattenSeq(s \o t) = FlattenSeq(s) \o FlattenSeq(t)
<1> DEFINE S == {u \in Seq(Seq(X)) : FlattenSeq(s \o u) = FlattenSeq(s) \o FlattenSeq(u)}
<1>1. <<>> \in S
  <2>1. FlattenSeq(s) \in Seq(X) /\ s \o <<>> = s /\ <<>> \in Seq(Seq(X))
    BY FlattenAppend, ConcatEmptySeq, EmptySeq
  <2> QED
    BY <2>1, FlattenFew, ConcatEmptySeq
<1>2. ASSUME NEW u \in Seq(Seq(X)), NEW x \in Seq(X), u \in S PROVE Append(u, x) \in S
  <2>1. s \o Append(u, x) = Append(s \o u, x) /\ s \o u \in Seq(Seq(X)) /\ Append(u, x) \in Seq(Seq(X))
    BY AppendProperties, ConcatProperties
  <2>2. FlattenSeq(s \o Append(u, x)) = (FlattenSeq(s) \o FlattenSeq(u)) \o x
    BY <1>2, <2>1, FlattenAppend
  <2>3. FlattenSeq(Append(u, x)) = FlattenSeq(u) \o x
    BY FlattenAppend
  <2>4. FlattenSeq(s) \in Seq(X) /\ FlattenSeq(u) \in Seq(X)
    BY FlattenAppend
  <2>5. (FlattenSeq(s) \o FlattenSeq(u)) \o x = FlattenSeq(s) \o (FlattenSeq(u) \o x)
    <3>1. ASSUME NEW a \in Seq(X), NEW b \in Seq(X), NEW c \in Seq(X)
          PROVE  (a \o b) \o c = a \o (b \o c)
      OBVIOUS
    <3> QED
      BY <2>4, <3>1, Zenon
  <2> QED
    BY <2>1, <2>2, <2>3, <2>5
<1>3. Seq(Seq(X)) \subseteq S
  <2> HIDE DEF S
  <2> QED
    BY <1>1, <1>2, ListInduction
<1> QED
  BY <1>3
==============================================================================
