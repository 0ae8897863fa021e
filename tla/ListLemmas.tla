------------------------------ MODULE ListLemmas ------------------------------
(***************************************************************************)
(* What the library's operators on sets of numbers and on lists return,    *)
(* as far as the proofs about several components need it.                  *)
(***************************************************************************)
EXTENDS Integers, FiniteSetsExt, SequencesExt, SequenceTheorems, WellFoundedInduction, TLAPS

\* A set of natural numbers has a least element.
LEMMA LeastIn ==
  ASSUME NEW S \in SUBSET Nat, S # {}
  PROVE  \E x \in S : \A y \in S : x <= y
<1> DEFINE Less == { ss \in Nat \X Nat : ss[1] < ss[2] }
<1>1. IsWellFoundedOn(Less, Nat)
  BY NatLessThanWellFounded, Zenon DEF OpToRel
<1>2. PICK x \in S : \A y \in S : ~(<<y, x>> \in Less)
  <2> HIDE DEF Less
  <2> QED
    BY <1>1, WFMin
<1>3. \A y \in S : x <= y
  <2> SUFFICES ASSUME NEW y \in S, y < x PROVE FALSE
    OBVIOUS
  <2>1. <<y, x>> \in Less
    OBVIOUS
  <2> QED
    BY <1>2, <2>1
<1> QED
  BY <1>3

LEMMA MinIn ==
  ASSUME NEW S \in SUBSET Nat, S # {}
  PROVE  Min(S) \in S
BY LeastIn DEF Min

\* The smaller of two numbers.
LEMMA MinOfTwo ==
  ASSUME NEW a \in Nat, NEW b \in Nat
  PROVE  Min({a, b}) = IF a <= b THEN a ELSE b
BY DEF Min

\* A set of numbers up to some number has a greatest element.
LEMMA MaxIn ==
  ASSUME NEW n \in Nat, NEW S \in SUBSET (1 .. n), S # {}
  PROVE  Max(S) \in S
<1> DEFINE D == { n - x : x \in S }
<1>1. D \in SUBSET Nat /\ D # {}
  <2>1. \A x \in S : x \in 1 .. n /\ n - x \in Nat
    OBVIOUS
  <2>2. \A y \in D : \E x \in S : y = n - x
    OBVIOUS
  <2>3. \A y \in D : y \in Nat
    BY <2>1, <2>2
  <2>4. D # {}
    OBVIOUS
  <2> QED
    BY <2>3, <2>4
<1>2. PICK d \in D : \A y \in D : d <= y
  <2> HIDE DEF D
  <2> QED
    BY <1>1, LeastIn
<1>3. PICK x \in S : n - x = d
  OBVIOUS
<1>4. \A y \in S : x >= y
  <2> SUFFICES ASSUME NEW y \in S PROVE x >= y
    OBVIOUS
  <2>1. n - x <= n - y
    BY <1>2, <1>3
  <2> QED
    BY <2>1
<1> QED
  BY <1>4 DEF Max

\* A list without one of its elements: all the others, in their order.
LEMMA RemoveFirstIs ==
  ASSUME NEW S, NEW s \in Seq(S), NEW e \in ToSet(s)
  PROVE  \E m \in 1 .. Len(s) :
           /\ s[m] = e
           /\ RemoveFirst(s, e) \in Seq(S) /\ Len(RemoveFirst(s, e)) = Len(s) - 1
           /\ \A k \in 1 .. (Len(s) - 1) :
                RemoveFirst(s, e)[k] = s[IF k < m THEN k ELSE k + 1]
<1> DEFINE I == { k \in 1..Len(s) : s[k] = e }
<1>1. I \in SUBSET Nat /\ I # {} /\ \E k \in 1..Len(s) : s[k] = e
  BY LenProperties DEF ToSet
<1> DEFINE m == Min(I)
<1>2. m \in I
  BY <1>1, MinIn
<1>3. RemoveFirst(s, e) = SubSeq(s, 1, m - 1) \o SubSeq(s, m + 1, Len(s))
  BY <1>1 DEF RemoveFirst, SelectInSeq, RemoveAt
<1>4. Len(s) \in Nat /\ m \in 1..Len(s) /\ s[m] = e
  BY <1>2, LenProperties
<1> HIDE DEF m
<1> DEFINE a == SubSeq(s, 1, m - 1)
           b == SubSeq(s, m + 1, Len(s))
<1>5. a \in Seq(S) /\ Len(a) = m - 1 /\ \A k \in 1..(m - 1) : a[k] = s[k]
  <2>1. \A k \in 1..(m - 1) : s[k] \in S
    BY <1>4, ElementOfSeq
  <2>2. m - 1 \in Int /\ 1 \in Int
    BY <1>4
  <2>3. /\ a \in Seq(S) /\ Len(a) = IF 1 <= m - 1 THEN (m - 1) - 1 + 1 ELSE 0
        /\ \A k \in 1..((m - 1) - 1 + 1) : a[k] = s[1 + k - 1]
    BY <2>1, <2>2, SubSeqProperties
  <2> QED
    BY <1>4, <2>3
<1>6. b \in Seq(S) /\ Len(b) = Len(s) - m /\ \A k \in 1..(Len(s) - m) : b[k] = s[m + k]
  <2>1. \A k \in (m + 1)..Len(s) : s[k] \in S
    BY <1>4, ElementOfSeq
  <2>2. m + 1 \in Int /\ Len(s) \in Int
    BY <1>4
  <2>3. /\ b \in Seq(S) /\ Len(b) = IF m + 1 <= Len(s) THEN Len(s) - (m + 1) + 1 ELSE 0
        /\ \A k \in 1..(Len(s) - (m + 1) + 1) : b[k] = s[(m + 1) + k - 1]
    BY <2>1, <2>2, SubSeqProperties
  <2> QED
    BY <1>4, <2>3
<1> HIDE DEF a, b
<1> DEFINE t == a \o b
<1>7. t \in Seq(S) /\ Len(t) = Len(s) - 1
  <2>1. t \in Seq(S) /\ Len(t) = Len(a) + Len(b)
    BY <1>5, <1>6, ConcatProperties
  <2>2. (m - 1) + (Len(s) - m) = Len(s) - 1
    BY <1>4
  <2> HIDE DEF t
  <2> QED
    BY <1>5, <1>6, <2>1, <2>2
<1>8. \A k \in 1..(Len(s) - 1) : t[k] = s[IF k < m THEN k ELSE k + 1]
  <2> SUFFICES ASSUME NEW k \in 1..(Len(s) - 1) PROVE t[k] = s[IF k < m THEN k ELSE k + 1]
    OBVIOUS
  <2>1. t[k] = IF k <= Len(a) THEN a[k] ELSE b[k - Len(a)]
    BY <1>4, <1>5, <1>6, ConcatProperties
  <2>2. CASE k < m
    BY <1>4, <1>5, <2>1, <2>2
  <2>3. CASE k >= m
    <3>1. k - Len(a) \in 1..(Len(s) - m) /\ m + (k - Len(a)) = k + 1
      BY <1>4, <1>5, <2>3
    <3> QED
      BY <1>4, <1>5, <1>6, <2>1, <2>3, <3>1
  <2>4. k < m \/ k >= m
    BY <1>4
  <2> QED
    BY <2>2, <2>3, <2>4
<1> HIDE DEF t
<1>9. RemoveFirst(s, e) = t
  BY <1>3 DEF t, a, b
<1> QED
  BY <1>4, <1>7, <1>8, <1>9

\* A list from which an element is removed that is in it once.
LEMMA RemoveFirstGives ==
  ASSUME NEW S, NEW s \in Seq(S), NEW e, IsInjective(s)
  PROVE  /\ RemoveFirst(s, e) \in Seq(S) /\ Len(RemoveFirst(s, e)) <= Len(s)
         /\ IsInjective(RemoveFirst(s, e))
         /\ ToSet(RemoveFirst(s, e)) \subseteq ToSet(s) \ {e}
<1> DEFINE t == RemoveFirst(s, e)
<1>0. Len(s) \in Nat /\ DOMAIN s = 1..Len(s)
  BY LenProperties
<1>1. CASE e \notin ToSet(s)
  <2>1. t = s
    BY <1>0, <1>1 DEF RemoveFirst, ToSet
  <2> QED
    BY <1>0, <1>1, <2>1
<1>2. CASE e \in ToSet(s)
  <2>1. PICK m \in 1..Len(s) :
           /\ s[m] = e /\ t \in Seq(S) /\ Len(t) = Len(s) - 1
           /\ \A k \in 1..(Len(s) - 1) : t[k] = s[IF k < m THEN k ELSE k + 1]
    BY <1>2, RemoveFirstIs
  <2> HIDE DEF t
  <2>2. DOMAIN t = 1..(Len(s) - 1)
    BY <2>1, LenProperties
  <2> DEFINE at(k) == IF k < m THEN k ELSE k + 1
  <2>3. \A k \in 1..(Len(s) - 1) : at(k) \in 1..Len(s) /\ at(k) # m
    BY <1>0
  <2>4. IsInjective(t)
    <3> SUFFICES ASSUME NEW j \in 1..(Len(s) - 1), NEW k \in 1..(Len(s) - 1), t[j] = t[k]
                 PROVE  j = k
      BY <2>2 DEF IsInjective
    <3>1. at(j) = at(k)
      BY <1>0, <2>1, <2>3 DEF IsInjective
    <3> QED
      BY <1>0, <3>1
  <2>5. ToSet(t) \subseteq ToSet(s) \ {e}
    <3> SUFFICES ASSUME NEW k \in 1..(Len(s) - 1) PROVE t[k] \in ToSet(s) \ {e}
      BY <2>2 DEF ToSet
    <3>1. t[k] = s[at(k)] /\ at(k) \in DOMAIN s /\ at(k) # m
      BY <1>0, <2>1, <2>3
    <3>2. s[at(k)] # s[m]
      BY <1>0, <3>1 DEF IsInjective
    <3> QED
      BY <2>1, <3>1, <3>2 DEF ToSet
  <2> QED
    BY <1>0, <2>1, <2>4, <2>5 DEF t
<1> QED
  BY <1>1, <1>2

\* A list with one of its elements moved to its front: the same elements, as many places.
LEMMA MovedToFront ==
  ASSUME NEW S, NEW s \in Seq(S), NEW e \in ToSet(s)
  PROVE  /\ <<e>> \o RemoveFirst(s, e) \in Seq(S)
         /\ Len(<<e>> \o RemoveFirst(s, e)) = Len(s)
         /\ ToSet(<<e>> \o RemoveFirst(s, e)) = ToSet(s)
<1> DEFINE t == RemoveFirst(s, e)
           u == <<e>> \o t
<1>0. Len(s) \in Nat /\ DOMAIN s = 1..Len(s)
  BY LenProperties
<1>1. PICK m \in 1..Len(s) :
         /\ s[m] = e /\ t \in Seq(S) /\ Len(t) = Len(s) - 1
         /\ \A k \in 1..(Len(s) - 1) : t[k] = s[IF k < m THEN k ELSE k + 1]
  BY RemoveFirstIs
<1> HIDE DEF t
<1>2. e \in S
  BY <1>1, ElementOfSeq
<1>3. <<e>> \in Seq(S) /\ Len(<<e>>) = 1 /\ <<e>>[1] = e
  BY <1>2
<1>4. /\ u \in Seq(S) /\ Len(u) = 1 + (Len(s) - 1)
      /\ \A k \in 1..(1 + (Len(s) - 1)) : u[k] = IF k <= 1 THEN <<e>>[k] ELSE t[k - 1]
  BY <1>1, <1>3, ConcatProperties
<1> HIDE DEF u
<1>5. /\ Len(u) = Len(s) /\ DOMAIN u = 1..Len(s)
      /\ u[1] = e /\ \A k \in 1..(Len(s) - 1) : u[k + 1] = t[k]
  <2>1. Len(u) = Len(s) /\ DOMAIN u = 1..Len(s)
    BY <1>0, <1>4, LenProperties
  <2>2. 1 \in 1..(1 + (Len(s) - 1)) /\ u[1] = e
    BY <1>0, <1>1, <1>3, <1>4
  <2>3. ASSUME NEW k \in 1..(Len(s) - 1) PROVE u[k + 1] = t[k]
    <3>1. k + 1 \in 1..(1 + (Len(s) - 1)) /\ ~(k + 1 <= 1) /\ k + 1 - 1 = k
      BY <1>0
    <3> QED
      BY <1>4, <3>1
  <2> QED
    BY <2>1, <2>2, <2>3
<1>6. ToSet(u) \subseteq ToSet(s)
  <2> SUFFICES ASSUME NEW k \in 1..Len(s) PROVE u[k] \in ToSet(s)
    BY <1>5 DEF ToSet
  <2>1. CASE k = 1
    BY <1>5, <2>1
  <2>2. CASE k # 1
    <3>1. k - 1 \in 1..(Len(s) - 1) /\ (k - 1) + 1 = k
      BY <1>0, <2>2
    <3>2. u[k] = t[k - 1]
      BY <1>5, <3>1
    <3>3. \E l \in 1..Len(s) : t[k - 1] = s[l]
      <4>1. (IF k - 1 < m THEN k - 1 ELSE (k - 1) + 1) \in 1..Len(s)
        BY <1>0, <3>1
      <4> QED
        BY <1>1, <3>1, <4>1
    <3> QED
      BY <1>0, <3>2, <3>3 DEF ToSet
  <2> QED
    BY <2>1, <2>2
<1>7. ToSet(s) \subseteq ToSet(u)
  <2> SUFFICES ASSUME NEW l \in 1..Len(s) PROVE s[l] \in ToSet(u)
    BY <1>0 DEF ToSet
  <2>1. CASE l = m
    BY <1>0, <1>1, <1>5, <2>1 DEF ToSet
  <2>2. CASE l < m
    <3>1. l \in 1..(Len(s) - 1) /\ l + 1 \in 1..Len(s)
      BY <1>0, <2>2
    <3>2. u[l + 1] = s[l]
      BY <1>1, <1>5, <2>2, <3>1
    <3> QED
      BY <1>5, <3>1, <3>2 DEF ToSet
  <2>3. CASE l > m
    <3>1. l - 1 \in 1..(Len(s) - 1) /\ (l - 1) + 1 = l /\ ~(l - 1 < m)
      BY <1>0, <2>3
    <3>2. t[l - 1] = s[l]
      BY <1>1, <3>1
    <3>3. u[l] = t[l - 1]
      BY <1>5, <3>1
    <3> QED
      BY <1>5, <3>2, <3>3 DEF ToSet
  <2>4. l = m \/ l < m \/ l > m
    BY <1>0
  <2> QED
    BY <2>1, <2>2, <2>3, <2>4
<1> QED
  BY <1>4, <1>5, <1>6, <1>7 DEF u, t

===============================================================================
