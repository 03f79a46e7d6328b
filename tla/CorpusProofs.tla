----------------------------- MODULE CorpusProofs -----------------------------
(***************************************************************************)
(* Proofs about NewsCollection, for any runs, articles, answers and        *)
(* collections: what the article and the feature file hold when runs share *)
(* them without a lock; and about PilotTask and RelevanceBenchmark, for    *)
(* any corpus and settings: what a run over a corpus publishes, how its    *)
(* articles are clustered, what it samples of them, and how the benchmark  *)
(* is sampled, split and evaluated.                                        *)
(***************************************************************************)
EXTENDS NewsCollection, RelevanceBenchmark, FiniteSetTheorems, SequenceTheorems, WellFoundedInduction, TLAPS

-----------------------------------------------------------------------------
(* Ordered enumerations.                                                   *)

LEMMA LeastNatural ==
    ASSUME NEW T, T \subseteq Nat, T # {}
    PROVE  \E m \in T : \A n \in T : m <= n
<1>1. PICK m \in T : \A n \in T : <<n, m>> \notin OpToRel(<, Nat)
  BY NatLessThanWellFounded, WFMin, Zenon
<1>2. \A n, k \in Nat : n < k => <<n, k>> \in OpToRel(<, Nat)
  BY Zenon DEF OpToRel
<1>3. \A n \in T : ~(n < m)  BY <1>1, <1>2, Zenon
<1>4. QED  BY <1>3

\* A set of pairs that orders the members of S strictly and totally.
Orders(S, before) ==
    /\ \A x \in S : <<x, x>> \notin before
    /\ \A x, y \in S : x = y \/ <<x, y>> \in before \/ <<y, x>> \in before
    /\ \A x, y, z \in S : <<x, y>> \in before /\ <<y, z>> \in before => <<x, z>> \in before

Enumerates(s, S, before) ==
    /\ s \in [1..Cardinality(S) -> S]
    /\ \A i, j \in 1..Cardinality(S) : i < j => <<s[i], s[j]>> \in before

\* One more member goes in behind those that come before it.
LEMMA OneMoreMember ==
    ASSUME NEW S, NEW x \in S, NEW before, IsFiniteSet(S), Orders(S, before),
           NEW s, Enumerates(s, S \ {x}, before)
    PROVE  \E t : Enumerates(t, S, before)
<1> DEFINE n == Cardinality(S \ {x})
           ahead(i) == i \in 1..n /\ <<s[i], x>> \in before
           t == [i \in 1..(n + 1) |-> IF ahead(i) THEN s[i]
                                      ELSE IF i = 1 \/ ahead(i - 1) THEN x ELSE s[i - 1]]
<1>1. n \in Nat /\ Cardinality(S) = n + 1
  <2>1. IsFiniteSet(S \ {x}) /\ n = Cardinality(S) - 1  BY FS_RemoveElement
  <2>2. Cardinality(S) \in Nat /\ n \in Nat  BY <2>1, FS_CardinalityType
  <2>3. QED  BY <2>1, <2>2
<1>2. \A i \in 1..n : s[i] \in S /\ s[i] # x  BY DEF Enumerates
<1>3. \A i, j \in 1..n : i < j => <<s[i], s[j]>> \in before  BY DEF Enumerates
<1>4. \A i, j \in 1..n : i < j /\ ahead(j) => ahead(i)  BY <1>2, <1>3 DEF Orders
<1>5. \A i \in 1..n : ~ahead(i) => <<x, s[i]>> \in before  BY <1>2 DEF Orders
<1> HIDE DEF n
<1>6. t \in [1..(n + 1) -> S]
  <2> SUFFICES ASSUME NEW i \in 1..(n + 1) PROVE t[i] \in S  OBVIOUS
  <2>1. CASE ahead(i)  BY <2>1, <1>1, <1>2
  <2>2. CASE ~ahead(i) /\ (i = 1 \/ ahead(i - 1))  BY <2>2
  <2>3. CASE ~ahead(i) /\ i # 1 /\ ~ahead(i - 1)
    <3>1. i - 1 \in 1..n  BY <2>3, <1>1
    <3>2. QED  BY <2>3, <3>1, <1>2
  <2>4. QED  BY <2>1, <2>2, <2>3
<1>7. ASSUME NEW i \in 1..(n + 1), NEW j \in 1..(n + 1), i < j
      PROVE  <<t[i], t[j]>> \in before
  <2> DEFINE Middle(k) == ~ahead(k) /\ (k = 1 \/ ahead(k - 1))
             Behind(k) == ~ahead(k) /\ k # 1 /\ ~ahead(k - 1)
  <2>1. /\ ahead(i) => t[i] = s[i]
        /\ Middle(i) => t[i] = x
        /\ Behind(i) => t[i] = s[i - 1] /\ i - 1 \in 1..n
    BY <1>1
  <2>2. /\ ahead(j) => t[j] = s[j]
        /\ Middle(j) => t[j] = x
        /\ Behind(j) => t[j] = s[j - 1] /\ j - 1 \in 1..n
    BY <1>1
  <2> HIDE DEF t
  <2>3. i \in 1..n /\ i \in Int /\ j \in Int  BY <1>7, <1>1
  <2>4. CASE ahead(i)
    <3>1. CASE ahead(j)  BY <2>4, <3>1, <2>1, <2>2, <1>3, <1>7
    <3>2. CASE Middle(j)  BY <2>4, <3>2, <2>1, <2>2
    <3>3. CASE Behind(j)
      <4>1. <<x, s[j - 1]>> \in before  BY <3>3, <2>2, <1>5
      <4>2. QED  BY <4>1, <2>4, <3>3, <2>1, <2>2, <1>2 DEF Orders
    <3>4. QED  BY <3>1, <3>2, <3>3
  <2>5. CASE ~ahead(i)
    <3>1. Middle(i) \/ Behind(i)  BY <2>5
    <3>2. ~ahead(j)  BY <2>5, <2>3, <1>4, <1>7
    <3>3. ~ahead(j - 1)  BY <2>5, <2>3, <1>4, <1>7, <1>1
    <3>4. Behind(j)  BY <3>2, <3>3, <2>3, <1>7
    <3>5. CASE Middle(i)  BY <3>5, <3>3, <3>4, <2>1, <2>2, <1>5
    <3>6. CASE Behind(i)  BY <3>6, <3>4, <2>1, <2>2, <1>3, <1>7, <2>3
    <3>7. QED  BY <3>1, <3>5, <3>6
  <2>6. QED  BY <2>4, <2>5
<1>8. QED
  <2> HIDE DEF t
  <2>1. Enumerates(t, S, before)  BY <1>1, <1>6, <1>7 DEF Enumerates
  <2>2. QED  BY <2>1

\* A finite set has an enumeration in every total order: there is no smallest one without.
LEMMA Enumeration ==
    ASSUME NEW S, IsFiniteSet(S), NEW before, Orders(S, before)
    PROVE  Enumerates(Ascending(S, before), S, before)
<1> DEFINE Bad(n) == \E T \in SUBSET S : Cardinality(T) = n /\ ~\E t : Enumerates(t, T, before)
           bad == {n \in Nat : Bad(n)}
<1>1. bad = {}
  <2> SUFFICES ASSUME bad # {} PROVE FALSE  OBVIOUS
  <2>1. PICK n \in bad : \A k \in bad : n <= k
    <3>1. bad \subseteq Nat  OBVIOUS
    <3> HIDE DEF bad
    <3>2. QED  BY <3>1, LeastNatural
  <2>2. PICK T \in SUBSET S : Cardinality(T) = n /\ ~\E t : Enumerates(t, T, before)  OBVIOUS
  <2>3. IsFiniteSet(T) /\ Orders(T, before)  BY FS_Subset DEF Orders
  <2>4. T # {}
    <3>1. SUFFICES ASSUME T = {} PROVE FALSE  OBVIOUS
    <3>2. Cardinality(T) = 0  BY <3>1, FS_EmptySet
    <3>3. Enumerates(<<>>, T, before)  BY <3>1, <3>2 DEF Enumerates
    <3>4. QED  BY <2>2, <3>3
  <2>5. PICK x \in T : TRUE  BY <2>4
  <2>6. n \in Nat /\ Cardinality(T \ {x}) = n - 1 /\ n - 1 \in Nat
    <3>1. IsFiniteSet(T \ {x}) /\ Cardinality(T \ {x}) = n - 1  BY <2>2, <2>3, <2>5, FS_RemoveElement
    <3>2. QED  BY <3>1, FS_CardinalityType
  <2>7. n - 1 \notin bad
    <3> HIDE DEF bad
    <3>1. QED  BY <2>1, <2>6
  <2>8. T \ {x} \in SUBSET S  OBVIOUS
  <2>9. PICK s : Enumerates(s, T \ {x}, before)  BY <2>6, <2>7, <2>8
  <2>10. QED  BY <2>2, <2>3, <2>5, <2>9, OneMoreMember
<1>2. \E t : Enumerates(t, S, before)
  <2>1. Cardinality(S) \in Nat  BY FS_CardinalityType
  <2>2. S \in SUBSET S  OBVIOUS
  <2>3. Cardinality(S) \notin bad  BY <1>1
  <2>4. QED  BY <2>1, <2>2, <2>3
<1>3. QED  BY <1>2 DEF Enumerates, Ascending

LEMMA EnumerationOnto ==
    ASSUME NEW S, IsFiniteSet(S), NEW before, Orders(S, before), NEW s, Enumerates(s, S, before)
    PROVE  \A x \in S : \E i \in 1..Cardinality(S) : s[i] = x
<1> DEFINE n == Cardinality(S)
<1>1. n \in Nat  BY FS_CardinalityType
<1>2. s \in Injection(1..n, S)
  <2>1. \A i, j \in 1..n : i < j => s[i] # s[j]  BY DEF Enumerates, Orders
  <2>2. \A i, j \in 1..n : s[i] = s[j] => i = j  BY <1>1, <2>1
  <2>3. QED  BY <2>2 DEF Enumerates, Injection, IsInjective
<1>3. Cardinality(1..n) = n  BY <1>1, FS_Interval
<1>4. s \in Surjection(1..n, S)  BY <1>2, <1>3, FS_Injection
<1>5. QED  BY <1>4 DEF Surjection

LEMMA NumbersInOrder ==
    ASSUME NEW S, S \subseteq Int
    PROVE  Orders(S, {p \in S \X S : p[1] < p[2]})
<1>1. \A x, y \in S : x \in Int /\ y \in Int  OBVIOUS
<1>2. QED  BY <1>1 DEF Orders

\* The elements of s at some places, in their order.
Picks(t, s, places) ==
    \E o \in [1..Len(t) -> places] :
        /\ \A k \in 1..Len(t) : t[k] = s[o[k]]
        /\ \A i, j \in 1..Len(t) : i < j => o[i] < o[j]
        /\ \A p \in places : \E k \in 1..Len(t) : o[k] = p

LEMMA PickedFacts ==
    ASSUME NEW S, NEW s \in Seq(S), NEW places, places \subseteq DOMAIN s
    PROVE  Picked(s, places) \in Seq(S) /\ Picks(Picked(s, places), s, places)
<1> DEFINE before == {p \in places \X places : p[1] < p[2]}
           o == Ascending(places, before)
           n == Cardinality(places)
<1>1. IsFiniteSet(places) /\ places \subseteq Int
  <2>1. DOMAIN s = 1..Len(s) /\ Len(s) \in Nat  OBVIOUS
  <2>2. IsFiniteSet(1..Len(s))  BY <2>1, FS_Interval
  <2>3. places \in SUBSET (1..Len(s))  BY <2>1
  <2>4. QED  BY <2>2, <2>3, FS_Subset
<1>2. Orders(places, before)  BY <1>1, NumbersInOrder
<1>3. n \in Nat  BY <1>1, FS_CardinalityType
<1>4. Enumerates(o, places, before)
  <2> HIDE DEF before
  <2>1. QED  BY <1>1, <1>2, Enumeration
<1>5. \A p \in places : \E k \in 1..n : o[k] = p
  <2> HIDE DEF before, o
  <2>1. QED  BY <1>1, <1>2, <1>4, EnumerationOnto
<1>6. o \in [1..n -> places] /\ \A i, j \in 1..n : i < j => o[i] < o[j]
  <2> HIDE DEF o
  <2>1. o \in [1..n -> places]  BY <1>4 DEF Enumerates
  <2>2. \A i, j \in 1..n : i < j => <<o[i], o[j]>> \in before  BY <1>4 DEF Enumerates
  <2>3. QED  BY <2>1, <2>2
<1>7. Picked(s, places) = [k \in 1..n |-> s[o[k]]]
  <2>1. Picked(s, places) = [k \in DOMAIN o |-> s[o[k]]]  BY DEF Picked
  <2> HIDE DEF o
  <2>2. QED  BY <2>1, <1>6
<1>8. Picked(s, places) \in Seq(S) /\ Len(Picked(s, places)) = n
  <2> HIDE DEF o, n
  <2>1. \A k \in 1..n : s[o[k]] \in S  BY <1>6
  <2>2. QED  BY <2>1, <1>3, <1>7
<1>9. QED
  <2> HIDE DEF o, n
  <2>1. \A k \in 1..n : Picked(s, places)[k] = s[o[k]]  BY <1>7
  <2>2. QED  BY <2>1, <1>3, <1>5, <1>6, <1>8 DEF Picks

\* What FirstByKey keeps has a new key or none, each key once; what it leaves out has a
\* key that is known or kept.
KeepsFirst(t, s, keys, known) ==
    \E o \in [DOMAIN t -> DOMAIN s] :
        /\ \A n \in DOMAIN t : t[n] = s[o[n]]
        /\ \A n \in DOMAIN t : keys[o[n]] = None \/ keys[o[n]] \notin known
        /\ \A n, m \in DOMAIN t : keys[o[n]] = keys[o[m]] => n = m \/ keys[o[n]] = None
        /\ \A i \in DOMAIN s : keys[i] \in known \/ \E n \in DOMAIN t : keys[o[n]] = keys[i]

LEMMA FirstByKeyFacts ==
    ASSUME NEW S, NEW s \in Seq(S), NEW keys, NEW known
    PROVE  /\ FirstByKey(s, keys, known) \in Seq(S)
           /\ KeepsFirst(FirstByKey(s, keys, known), s, keys, known)
<1> DEFINE First(i) == keys[i] \notin known /\ \A j \in 1..(i - 1) : keys[j] # keys[i]
           places == {i \in DOMAIN s : keys[i] = None \/ First(i)}
           t == FirstByKey(s, keys, known)
<1>1. t = Picked(s, places)  BY DEF FirstByKey
<1>2. t \in Seq(S) /\ Picks(t, s, places)
  <2> HIDE DEF t
  <2>1. places \subseteq DOMAIN s  OBVIOUS
  <2> HIDE DEF places
  <2>2. QED  BY <1>1, <2>1, PickedFacts
<1> HIDE DEF t
<1> DEFINE n == Len(t)
<1>3. PICK o \in [1..n -> places] :
        /\ \A k \in 1..n : t[k] = s[o[k]]
        /\ \A i, j \in 1..n : i < j => o[i] < o[j]
        /\ \A p \in places : \E k \in 1..n : o[k] = p
  BY <1>2 DEF Picks
<1>4. DOMAIN t = 1..n /\ \A k \in 1..n : o[k] \in places  BY <1>2, <1>3
<1>5. o \in [DOMAIN t -> DOMAIN s]  BY <1>4
<1>6. DOMAIN s = 1..Len(s) /\ Len(s) \in Nat  OBVIOUS
<1>7. ASSUME NEW k \in 1..n, NEW m \in 1..n, keys[o[k]] = keys[o[m]], k < m
      PROVE  keys[o[k]] = None
  <2>1. o[k] < o[m] /\ o[k] \in 1..Len(s) /\ o[m] \in 1..Len(s)  BY <1>3, <1>4, <1>6, <1>7
  <2>2. o[k] \in 1..(o[m] - 1)  BY <2>1, <1>6
  <2>3. QED  BY <2>2, <1>4, <1>7
<1>8. ASSUME NEW i \in DOMAIN s, keys[i] \notin known
      PROVE  \E k \in 1..n : keys[o[k]] = keys[i]
  <2> DEFINE same == {j \in DOMAIN s : keys[j] = keys[i]}
  <2>1. PICK j \in same : \A h \in same : j <= h
    <3>1. same \subseteq Nat /\ same # {}  BY <1>6
    <3> HIDE DEF same
    <3>2. QED  BY <3>1, LeastNatural
  <2>2. j \in places
    <3>1. \A h \in 1..(j - 1) : h \in DOMAIN s /\ h \notin same  BY <2>1, <1>6
    <3>2. \A h \in 1..(j - 1) : keys[h] # keys[j]  BY <3>1, <2>1
    <3>3. QED  BY <3>2, <1>8, <2>1
  <2> HIDE DEF places
  <2>3. QED  BY <2>1, <2>2, <1>3
<1>9. \A k, m \in 1..n : keys[o[k]] = keys[o[m]] => k = m \/ keys[o[k]] = None
  <2> SUFFICES ASSUME NEW k \in 1..n, NEW m \in 1..n, keys[o[k]] = keys[o[m]], k # m
               PROVE  keys[o[k]] = None
    OBVIOUS
  <2>1. CASE k < m  BY <2>1, <1>7
  <2>2. CASE m < k  BY <2>2, <1>7
  <2>3. k \in Int /\ m \in Int  OBVIOUS
  <2>4. QED  BY <2>1, <2>2, <2>3
<1>10. \A k \in 1..n : keys[o[k]] = None \/ keys[o[k]] \notin known  BY <1>4
<1>11. QED
  <2> HIDE DEF places
  <2>1. t \in Seq(S) /\ \A k \in DOMAIN t : t[k] = s[o[k]]  BY <1>2, <1>3, <1>4
  <2>2. KeepsFirst(t, s, keys, known)
    <3> HIDE DEF n
    <3>1. \A k \in DOMAIN t : keys[o[k]] = None \/ keys[o[k]] \notin known  BY <1>4, <1>10
    <3>2. \A k, m \in DOMAIN t : keys[o[k]] = keys[o[m]] => k = m \/ keys[o[k]] = None
      BY <1>4, <1>9
    <3>3. \A i \in DOMAIN s : keys[i] \in known \/ \E k \in DOMAIN t : keys[o[k]] = keys[i]
      BY <1>4, <1>8
    <3>4. QED  BY <2>1, <3>1, <3>2, <3>3, <1>5, Zenon DEF KeepsFirst
  <2>3. QED  BY <2>1, <2>2 DEF t

\* The extremes of finitely many numbers.
LEMMA Extremes ==
    ASSUME NEW S, S \subseteq Int, S # {}, IsFiniteSet(S)
    PROVE  /\ Min(S) \in S /\ \A y \in S : Min(S) <= y
           /\ Max(S) \in S /\ \A y \in S : y <= Max(S)
<1> DEFINE before == {p \in S \X S : p[1] < p[2]}
           n == Cardinality(S)
<1>1. PICK s : Enumerates(s, S, before)
  <2>1. Orders(S, before)  BY NumbersInOrder
  <2> HIDE DEF before
  <2>2. QED  BY <2>1, Enumeration
<1>2. \A x \in S : \E i \in 1..n : s[i] = x
  <2>1. Orders(S, before)  BY NumbersInOrder
  <2> HIDE DEF before
  <2>2. QED  BY <1>1, <2>1, EnumerationOnto
<1>3. n \in Nat /\ n # 0  BY FS_CardinalityType, FS_EmptySet
<1>4. \A i \in 1..n : s[i] \in S /\ s[i] \in Int  BY <1>1 DEF Enumerates
<1>5. \A i, j \in 1..n : i < j => s[i] < s[j]
  <2>1. \A i, j \in 1..n : i < j => <<s[i], s[j]>> \in before  BY <1>1 DEF Enumerates
  <2>2. QED  BY <2>1
<1> HIDE DEF n
<1>6. \A i \in 1..n : s[1] <= s[i] /\ s[i] <= s[n]
  <2> SUFFICES ASSUME NEW i \in 1..n PROVE s[1] <= s[i] /\ s[i] <= s[n]  OBVIOUS
  <2>1. 1 \in 1..n /\ n \in 1..n  BY <1>3
  <2>2. s[1] <= s[i]
    <3>1. CASE i = 1  BY <3>1, <1>4, <2>1
    <3>2. CASE 1 < i  BY <3>2, <1>4, <1>5, <2>1
    <3>3. QED  BY <3>1, <3>2
  <2>3. s[i] <= s[n]
    <3>1. CASE i = n  BY <3>1, <1>4, <2>1
    <3>2. CASE i < n  BY <3>2, <1>4, <1>5, <2>1
    <3>3. QED  BY <3>1, <3>2, <1>3
  <2>4. QED  BY <2>2, <2>3
<1>7. s[1] \in S /\ \A y \in S : s[1] <= y  BY <1>2, <1>3, <1>4, <1>6
<1>8. s[n] \in S /\ \A y \in S : y <= s[n]  BY <1>2, <1>3, <1>4, <1>6
<1>9. Min(S) \in S /\ \A y \in S : Min(S) <= y  BY <1>7 DEF Min
<1>10. Max(S) \in S /\ \A y \in S : y <= Max(S)
  <2>1. \E x \in S : \A y \in S : x >= y  BY <1>8
  <2>2. Max(S) \in S /\ \A y \in S : Max(S) >= y  BY <2>1, Zenon DEF Max
  <2>3. QED  BY <2>2
<1>11. QED  BY <1>9, <1>10

-----------------------------------------------------------------------------
(* The text of records.                                                    *)

Pieces(S) == [part : {"head", "rest", "end"}, of : S]

HeadOf(record) == [part |-> "head", of |-> record]
RestOf(record) == [part |-> "rest", of |-> record]
LineEnd == [part |-> "end", of |-> None]

\* Three pieces for each record.
LEMMA TextsFacts ==
    ASSUME NEW R, NEW entries \in Seq(R)
    PROVE  /\ Texts(entries) \in Seq(Pieces(R \cup {None}))
           /\ Len(Texts(entries)) = 3 * Len(entries)
           /\ \A k \in 1..Len(entries) :
                /\ Texts(entries)[3 * k - 2] = HeadOf(entries[k])
                /\ Texts(entries)[3 * k - 1] = RestOf(entries[k])
                /\ Texts(entries)[3 * k] = LineEnd
           /\ \A q \in 1..(3 * Len(entries)) :
                \E k \in 1..Len(entries) : q \in {3 * k - 2, 3 * k - 1, 3 * k}
<1> DEFINE n == Len(entries)
           text == Texts(entries)
<1>1. n \in Nat /\ \A k \in 1..n : entries[k] \in R  OBVIOUS
<1>2. \A q \in 1..(3 * n) : text[q] = Text(entries[(q + 2) \div 3])[1 + ((q - 1) % 3)]
  BY DEF Texts
<1>3. DOMAIN text = 1..(3 * n)  BY DEF Texts
<1>4. ASSUME NEW k \in 1..n
      PROVE  /\ 3 * k - 2 \in 1..(3 * n) /\ 3 * k - 1 \in 1..(3 * n) /\ 3 * k \in 1..(3 * n)
             /\ (3 * k - 2 + 2) \div 3 = k /\ (3 * k - 2 - 1) % 3 = 0
             /\ (3 * k - 1 + 2) \div 3 = k /\ (3 * k - 1 - 1) % 3 = 1
             /\ (3 * k + 2) \div 3 = k /\ (3 * k - 1) % 3 = 2
  BY <1>1
<1>5. \A k \in 1..n : /\ text[3 * k - 2] = HeadOf(entries[k])
                      /\ text[3 * k - 1] = RestOf(entries[k])
                      /\ text[3 * k] = LineEnd
  <2> SUFFICES ASSUME NEW k \in 1..n
               PROVE  /\ text[3 * k - 2] = HeadOf(entries[k])
                      /\ text[3 * k - 1] = RestOf(entries[k])
                      /\ text[3 * k] = LineEnd
    OBVIOUS
  <2> HIDE DEF n, text
  <2>1. text[3 * k - 2] = Text(entries[k])[1 + 0]  BY <1>2, <1>4
  <2>2. text[3 * k - 1] = Text(entries[k])[1 + 1]  BY <1>2, <1>4
  <2>3. text[3 * k] = Text(entries[k])[1 + 2]  BY <1>2, <1>4
  <2>4. QED  BY <2>1, <2>2, <2>3 DEF Text, HeadOf, RestOf, LineEnd
<1>6. ASSUME NEW q \in 1..(3 * n)
      PROVE  \E k \in 1..n : q \in {3 * k - 2, 3 * k - 1, 3 * k}
  <2>1. (q + 2) \div 3 \in 1..n  BY <1>1
  <2>2. q \in {3 * ((q + 2) \div 3) - 2, 3 * ((q + 2) \div 3) - 1, 3 * ((q + 2) \div 3)}
    BY <1>1
  <2>3. QED  BY <2>1, <2>2
<1> HIDE DEF n, text
<1>7. \A q \in 1..(3 * n) : text[q] \in Pieces(R \cup {None})
  <2> SUFFICES ASSUME NEW q \in 1..(3 * n) PROVE text[q] \in Pieces(R \cup {None})  OBVIOUS
  <2>1. PICK k \in 1..n : q \in {3 * k - 2, 3 * k - 1, 3 * k}  BY <1>6
  <2>2. text[q] \in {HeadOf(entries[k]), RestOf(entries[k]), LineEnd}  BY <2>1, <1>5
  <2>3. QED  BY <2>2, <1>1 DEF Pieces, HeadOf, RestOf, LineEnd
<1>8. text \in Seq(Pieces(R \cup {None})) /\ Len(text) = 3 * n
  <2>1. text = [q \in 1..(3 * n) |-> Text(entries[(q + 2) \div 3])[1 + ((q - 1) % 3)]]
    BY DEF text, Texts, n
  <2>2. 3 * n \in Nat  BY <1>1
  <2> DEFINE P == Pieces(R \cup {None})
  <2>3. text \in [1..(3 * n) -> P]  BY <2>1, <1>7
  <2> DEFINE m == 3 * n
  <2>4. m \in Nat /\ text \in [1..m -> P]  BY <2>2, <2>3
  <2> HIDE DEF P, m
  <2>5. text \in Seq(P) /\ Len(text) = m  BY <2>4
  <2>6. QED  BY <2>5 DEF P, m
<1>9. QED  BY <1>5, <1>6, <1>8 DEF n, text

-----------------------------------------------------------------------------
(* What can be read of a text, and what a break in it costs.               *)

KnownIn(f, text) == {Key(f, text[i].of) : i \in Readable(text)} \ {None}

NoneTwice(f, text) ==
    \A i, j \in Readable(text) :
        (Key(f, text[i].of) = Key(f, text[j].of) /\ Key(f, text[i].of) # None) => i = j

\* The second half of a record follows a first half, and ends a line.
RestsFollow(text) ==
    \A i \in 1..Len(text) : text[i].part = "rest" => i > 1 /\ text[i - 1].part = "head"
RestsEnd(text) ==
    \A i \in 1..Len(text) : text[i].part = "rest" => i < Len(text) /\ text[i + 1].part = "end"

\* The places where a line that was not ended is joined by the next record, or the text ends.
Breaks(text) ==
    {p \in 2..(Len(text) + 1) :
        text[p - 1].part # "end" /\ (p = Len(text) + 1 \/ text[p].part = "head")}

\* The keys of the records on both sides of the breaks, as far as the first n pieces go.
Beside(f, text, n) ==
    {Key(f, text[p].of) : p \in {q \in Breaks(text) : q <= n}}
    \cup {Key(f, text[p - 1].of) : p \in {q \in Breaks(text) : q <= n + 1}}

Begins(x, text) == Len(x) <= Len(text) /\ \A i \in 1..Len(x) : x[i] = text[i]

LEMMA ReadableFacts ==
    ASSUME NEW S, NEW text \in Seq(Pieces(S)), NEW i
    PROVE  i \in Readable(text) <=>
              /\ i \in 1..(Len(text) - 1)
              /\ i = 1 \/ text[i - 1].part = "end"
              /\ text[i].part = "head"
              /\ text[i + 1].part = "rest" /\ text[i + 1].of = text[i].of
              /\ i + 1 = Len(text) \/ text[i + 2].part = "end"
<1>1. ASSUME i \in 1..(Len(text) - 1)
      PROVE  text[i + 1] = [text[i] EXCEPT !.part = "rest"] <=>
                text[i + 1].part = "rest" /\ text[i + 1].of = text[i].of
  <2>1. text[i] \in Pieces(S) /\ text[i + 1] \in Pieces(S)  BY <1>1
  <2>2. QED  BY <2>1 DEF Pieces
<1>2. QED  BY <1>1 DEF Readable

\* A key that was known remains known when the text grows, unless its line is joined.
LEMMA KnownOrBeside ==
    ASSUME NEW S, NEW x \in Seq(Pieces(S)), NEW y \in Seq(Pieces(S)), NEW text \in Seq(Pieces(S)),
           NEW f, Begins(x, y), Begins(y, text), RestsFollow(text)
    PROVE  KnownIn(f, x) \subseteq KnownIn(f, y) \cup Beside(f, text, Len(y))
<1> SUFFICES ASSUME NEW i \in Readable(x), Key(f, x[i].of) # None
             PROVE  Key(f, x[i].of) \in KnownIn(f, y) \cup Beside(f, text, Len(y))
  BY DEF KnownIn
<1>1. /\ i \in 1..(Len(x) - 1)
      /\ i = 1 \/ x[i - 1].part = "end"
      /\ x[i].part = "head"
      /\ x[i + 1].part = "rest" /\ x[i + 1].of = x[i].of
      /\ i + 1 = Len(x) \/ x[i + 2].part = "end"
  BY ReadableFacts
<1>2. /\ Len(x) \in Nat /\ Len(y) \in Nat /\ Len(text) \in Nat
      /\ Len(x) <= Len(y) /\ Len(y) <= Len(text)
      /\ \A k \in 1..Len(x) : x[k] = y[k]
      /\ \A k \in 1..Len(y) : y[k] = text[k]
  BY DEF Begins
<1>3. x[i] = y[i] /\ x[i + 1] = y[i + 1] /\ (i > 1 => x[i - 1] = y[i - 1])  BY <1>1, <1>2
<1>4. CASE i + 1 = Len(y) \/ y[i + 2].part = "end"
  <2>1. i \in Readable(y)  BY <1>1, <1>2, <1>3, <1>4, ReadableFacts
  <2>2. QED  BY <2>1, <1>3 DEF KnownIn
<1>5. CASE ~(i + 1 = Len(y) \/ y[i + 2].part = "end")
  <2>1. i + 1 = Len(x) /\ i + 2 \in 1..Len(y)  BY <1>1, <1>2, <1>5
  <2>2. /\ text[i + 2] = y[i + 2] /\ text[i + 1] = y[i + 1] /\ i + 2 \in 1..Len(text)
        /\ i + 2 - 1 = i + 1 /\ i \in Int
    BY <1>1, <1>2, <2>1
  <2>3. text[i + 2].part # "rest"  BY <2>2, <1>1, <1>3 DEF RestsFollow
  <2>4. text[i + 2] \in Pieces(S)  BY <2>2
  <2>5. text[i + 2].part = "head"  BY <2>2, <2>3, <2>4, <1>5 DEF Pieces
  <2>6. i + 2 \in Breaks(text)  BY <2>2, <2>5, <1>1, <1>2, <1>3 DEF Breaks
  <2>7. Key(f, x[i].of) = Key(f, text[(i + 2) - 1].of) /\ i + 2 <= Len(y) + 1
    BY <2>1, <2>2, <1>1, <1>2, <1>3
  <2>8. QED  BY <2>6, <2>7 DEF Beside
<1>6. QED  BY <1>4, <1>5

\* What can be read of the beginning can be read of the whole, if it ends after a line or
\* the line ends there.
LEMMA ReadableAhead ==
    ASSUME NEW S, NEW x \in Seq(Pieces(S)), NEW text \in Seq(Pieces(S)), NEW f, Begins(x, text),
           (Len(x) > 0 /\ x[Len(x)].part = "rest") =>
              Len(x) = Len(text) \/ text[Len(x) + 1].part = "end",
           NoneTwice(f, text)
    PROVE  NoneTwice(f, x)
<1>1. /\ Len(x) \in Nat /\ Len(text) \in Nat /\ Len(x) <= Len(text)
      /\ \A k \in 1..Len(x) : x[k] = text[k]
  BY DEF Begins
<1>2. ASSUME NEW i \in Readable(x) PROVE i \in Readable(text) /\ x[i] = text[i]
  <2>1. /\ i \in 1..(Len(x) - 1)
        /\ i = 1 \/ x[i - 1].part = "end"
        /\ x[i].part = "head"
        /\ x[i + 1].part = "rest" /\ x[i + 1].of = x[i].of
        /\ i + 1 = Len(x) \/ x[i + 2].part = "end"
    BY ReadableFacts
  <2>2. x[i] = text[i] /\ x[i + 1] = text[i + 1] /\ (i > 1 => x[i - 1] = text[i - 1])
    BY <1>1, <2>1
  <2>3. i + 1 = Len(text) \/ text[i + 2].part = "end"
    <3>1. CASE i + 1 = Len(x)
      <4>1. Len(x) + 1 = i + 2  BY <3>1, <1>1, <2>1
      <4>2. QED  BY <4>1, <3>1, <2>1, <1>1
    <3>2. CASE i + 1 # Len(x)  BY <3>2, <1>1, <2>1
    <3>3. QED  BY <3>1, <3>2
  <2>4. /\ i \in 1..(Len(text) - 1)
        /\ i = 1 \/ text[i - 1].part = "end"
        /\ text[i].part = "head"
        /\ text[i + 1].part = "rest" /\ text[i + 1].of = text[i].of
    BY <1>1, <2>1, <2>2
  <2>5. QED  BY <2>2, <2>3, <2>4, ReadableFacts
<1>3. QED  BY <1>2 DEF NoneTwice

\* A run that stops leaves the breaks of what it wanted to write, and one more if it stops
\* within a line.
LEMMA BreaksOfBeginning ==
    ASSUME NEW S, NEW x \in Seq(Pieces(S)), NEW text \in Seq(Pieces(S)), NEW f, Begins(x, text)
    PROVE  /\ Breaks(x) \subseteq Breaks(text) \cup {Len(x) + 1}
           /\ Len(x) + 1 \in Breaks(x) <=> Len(x) > 0 /\ x[Len(x)].part # "end"
           /\ Beside(f, text, Len(x)) \subseteq Beside(f, x, Len(x))
<1>1. /\ Len(x) \in Nat /\ Len(text) \in Nat /\ Len(x) <= Len(text)
      /\ \A k \in 1..Len(x) : x[k] = text[k]
  BY DEF Begins
<1>2. ASSUME NEW p \in Breaks(x), p # Len(x) + 1 PROVE p \in Breaks(text)
  <2>1. p \in 2..Len(x) /\ x[p - 1].part # "end" /\ x[p].part = "head"  BY <1>1, <1>2 DEF Breaks
  <2>2. x[p] = text[p] /\ x[p - 1] = text[p - 1]  BY <1>1, <2>1
  <2>3. QED  BY <1>1, <2>1, <2>2 DEF Breaks
<1>3. Len(x) + 1 \in Breaks(x) <=> Len(x) > 0 /\ x[Len(x)].part # "end"
  <2>1. Len(x) + 1 - 1 = Len(x)  BY <1>1
  <2>2. Len(x) + 1 \in 2..(Len(x) + 1) <=> Len(x) > 0  BY <1>1
  <2>3. QED  BY <2>1, <2>2 DEF Breaks
<1>4. ASSUME NEW p \in Breaks(text), p <= Len(x) + 1 PROVE p \in Breaks(x) /\ p \in 2..(Len(x) + 1)
  <2>1. /\ p \in 2..(Len(text) + 1) /\ text[p - 1].part # "end"
        /\ p = Len(text) + 1 \/ text[p].part = "head"
    BY DEF Breaks
  <2>2. p \in 2..(Len(x) + 1) /\ x[p - 1] = text[p - 1]  BY <1>1, <1>4, <2>1
  <2>3. p = Len(x) + 1 \/ x[p].part = "head"
    <3>1. CASE p = Len(x) + 1  BY <3>1
    <3>2. CASE p # Len(x) + 1
      <4>1. p \in 1..Len(x) /\ p # Len(text) + 1  BY <3>2, <2>2, <1>1
      <4>2. QED  BY <4>1, <2>1, <1>1
    <3>3. QED  BY <3>1, <3>2
  <2>4. QED  BY <2>1, <2>2, <2>3 DEF Breaks
<1>5. Beside(f, text, Len(x)) \subseteq Beside(f, x, Len(x))
  <2> SUFFICES ASSUME NEW v \in Beside(f, text, Len(x)) PROVE v \in Beside(f, x, Len(x))  OBVIOUS
  <2>1. CASE \E p \in Breaks(text) : p <= Len(x) /\ v = Key(f, text[p].of)
    <3>1. PICK p \in Breaks(text) : p <= Len(x) /\ v = Key(f, text[p].of)  BY <2>1
    <3>2. p \in 2..(Len(text) + 1)  BY DEF Breaks
    <3>3. p <= Len(x) + 1  BY <3>1, <3>2, <1>1
    <3>4. p \in Breaks(x) /\ x[p] = text[p]  BY <3>1, <3>2, <3>3, <1>1, <1>4
    <3>5. QED  BY <3>1, <3>4 DEF Beside
  <2>2. CASE \E p \in Breaks(text) : p <= Len(x) + 1 /\ v = Key(f, text[p - 1].of)
    <3>1. PICK p \in Breaks(text) : p <= Len(x) + 1 /\ v = Key(f, text[p - 1].of)  BY <2>2
    <3>2. p \in Breaks(x) /\ x[p - 1] = text[p - 1]  BY <3>1, <1>1, <1>4
    <3>3. QED  BY <3>1, <3>2 DEF Beside
  <2>3. QED  BY <2>1, <2>2 DEF Beside
<1>6. QED  BY <1>2, <1>3, <1>5

\* A function has at most as many values as arguments.
LEMMA ValuesBounded ==
    ASSUME NEW B, IsFiniteSet(B), NEW g, DOMAIN g = B, g = [b \in B |-> g[b]]
    PROVE  IsFiniteSet({g[b] : b \in B}) /\ Cardinality({g[b] : b \in B}) <= Cardinality(B)
<1> DEFINE T == {g[b] : b \in B}
<1>1. g \in Surjection(B, T)  BY DEF Surjection
<1> HIDE DEF T
<1>2. IsFiniteSet(T) /\ Cardinality(T) <= Cardinality(B)  BY <1>1, FS_Surjection
<1>3. QED  BY <1>2 DEF T

LEMMA BreaksFinite ==
    ASSUME NEW S, NEW text \in Seq(Pieces(S))
    PROVE  IsFiniteSet(Breaks(text)) /\ Cardinality(Breaks(text)) \in Nat
<1>1. Len(text) + 1 \in Int  OBVIOUS
<1>2. IsFiniteSet(2..(Len(text) + 1))  BY <1>1, FS_Interval
<1>3. Breaks(text) \in SUBSET (2..(Len(text) + 1))  BY DEF Breaks
<1>4. IsFiniteSet(Breaks(text))  BY <1>2, <1>3, FS_Subset
<1>5. QED  BY <1>4, FS_CardinalityType

\* A break has two sides.
LEMMA TwoSides ==
    ASSUME NEW S, NEW text \in Seq(Pieces(S)), NEW f, NEW n
    PROVE  /\ IsFiniteSet(Beside(f, text, n))
           /\ Cardinality(Beside(f, text, n)) <= 2 * Cardinality(Breaks(text))
<1> DEFINE A == {q \in Breaks(text) : q <= n}
           B == {q \in Breaks(text) : q <= n + 1}
           g == [p \in A |-> Key(f, text[p].of)]
           h == [p \in B |-> Key(f, text[p - 1].of)]
           G == {g[p] : p \in A}
           H == {h[p] : p \in B}
<1>1. IsFiniteSet(Breaks(text)) /\ Cardinality(Breaks(text)) \in Nat  BY BreaksFinite
<1>2. /\ IsFiniteSet(A) /\ Cardinality(A) <= Cardinality(Breaks(text))
      /\ IsFiniteSet(B) /\ Cardinality(B) <= Cardinality(Breaks(text))
  <2>1. A \in SUBSET Breaks(text) /\ B \in SUBSET Breaks(text)  OBVIOUS
  <2> HIDE DEF A, B
  <2>2. QED  BY <2>1, <1>1, FS_Subset
<1>3. Beside(f, text, n) = G \cup H  BY DEF Beside
<1>4. DOMAIN g = A /\ g = [b \in A |-> g[b]] /\ DOMAIN h = B /\ h = [b \in B |-> h[b]]  OBVIOUS
<1> HIDE DEF A, B, g, h
<1>5. IsFiniteSet(G) /\ Cardinality(G) <= Cardinality(A)  BY <1>2, <1>4, ValuesBounded
<1>6. IsFiniteSet(H) /\ Cardinality(H) <= Cardinality(B)  BY <1>2, <1>4, ValuesBounded
<1> HIDE DEF G, H
<1>7. IsFiniteSet(G \cup H) /\ Cardinality(G \cup H) = Cardinality(G) + Cardinality(H) - Cardinality(G \cap H)
  BY <1>5, <1>6, FS_Union
<1>8. IsFiniteSet(G \cap H)  BY <1>5, FS_Intersection
<1>9. /\ Cardinality(G) \in Nat /\ Cardinality(H) \in Nat /\ Cardinality(G \cap H) \in Nat
      /\ Cardinality(A) \in Nat /\ Cardinality(B) \in Nat
  BY <1>2, <1>5, <1>6, <1>8, FS_CardinalityType
<1>10. QED  BY <1>1, <1>2, <1>3, <1>5, <1>6, <1>7, <1>9

-----------------------------------------------------------------------------
(* Records behind a text.                                                  *)

Continues(text, x, new) ==
    /\ Len(text) = Len(x) + 3 * Len(new) /\ Len(x) \in Nat /\ Len(new) \in Nat
    /\ \A i \in 1..Len(x) : x[i] = text[i]
    /\ \A k \in 1..Len(new) :
         /\ text[Len(x) + 3 * k - 2] = HeadOf(new[k])
         /\ text[Len(x) + 3 * k - 1] = RestOf(new[k])
         /\ text[Len(x) + 3 * k] = LineEnd
    /\ \A i \in 1..Len(text) :
         i <= Len(x) \/ \E k \in 1..Len(new) :
             i \in {Len(x) + 3 * k - 2, Len(x) + 3 * k - 1, Len(x) + 3 * k}

LEMMA Appended ==
    ASSUME NEW R, NEW x \in Seq(Pieces(R \cup {None})), NEW new \in Seq(R)
    PROVE  /\ x \o Texts(new) \in Seq(Pieces(R \cup {None}))
           /\ Begins(x, x \o Texts(new))
           /\ Continues(x \o Texts(new), x, new)
<1> DEFINE P == Pieces(R \cup {None})
           p == Texts(new)
           text == x \o p
<1>1. /\ p \in Seq(P) /\ Len(p) = 3 * Len(new) /\ Len(new) \in Nat
      /\ \A k \in 1..Len(new) :
            /\ p[3 * k - 2] = HeadOf(new[k])
            /\ p[3 * k - 1] = RestOf(new[k])
            /\ p[3 * k] = LineEnd
      /\ \A q \in 1..(3 * Len(new)) : \E k \in 1..Len(new) : q \in {3 * k - 2, 3 * k - 1, 3 * k}
  BY TextsFacts
<1> HIDE DEF P, p
<1>2. x \in Seq(P)  BY DEF P
<1>3. /\ text \in Seq(P) /\ Len(text) = Len(x) + Len(p) /\ Len(x) \in Nat
      /\ \A i \in 1..Len(x) : text[i] = x[i]
      /\ \A q \in 1..Len(p) : text[Len(x) + q] = p[q]
  BY <1>1, <1>2
<1> HIDE DEF text
<1>4. ASSUME NEW k \in 1..Len(new)
      PROVE  /\ text[Len(x) + 3 * k - 2] = HeadOf(new[k])
             /\ text[Len(x) + 3 * k - 1] = RestOf(new[k])
             /\ text[Len(x) + 3 * k] = LineEnd
  <2>1. 3 * k - 2 \in 1..Len(p) /\ 3 * k - 1 \in 1..Len(p) /\ 3 * k \in 1..Len(p)  BY <1>1
  <2>2. /\ Len(x) + (3 * k - 2) = Len(x) + 3 * k - 2
        /\ Len(x) + (3 * k - 1) = Len(x) + 3 * k - 1
    BY <1>1, <1>3
  <2>3. QED  BY <1>1, <1>3, <2>1, <2>2
<1>5. ASSUME NEW i \in 1..Len(text), ~(i <= Len(x))
      PROVE  \E k \in 1..Len(new) :
                i \in {Len(x) + 3 * k - 2, Len(x) + 3 * k - 1, Len(x) + 3 * k}
  <2>1. i - Len(x) \in 1..(3 * Len(new))  BY <1>1, <1>3, <1>5
  <2>2. PICK k \in 1..Len(new) : i - Len(x) \in {3 * k - 2, 3 * k - 1, 3 * k}  BY <1>1, <2>1
  <2>3. i \in {Len(x) + 3 * k - 2, Len(x) + 3 * k - 1, Len(x) + 3 * k}  BY <1>1, <1>3, <2>2
  <2>4. QED  BY <2>3
<1>6. Len(text) = Len(x) + 3 * Len(new)  BY <1>1, <1>3
<1>7. Begins(x, text)  BY <1>1, <1>3, <1>6 DEF Begins
<1>8. Continues(text, x, new)  BY <1>1, <1>3, <1>4, <1>5, <1>6 DEF Continues
<1>9. QED  BY <1>3, <1>7, <1>8 DEF text, p, P

LEMMA AppendedShape ==
    ASSUME NEW R, NEW x \in Seq(Pieces(R \cup {None})), NEW new \in Seq(R), RestsFollow(x)
    PROVE  RestsFollow(x \o Texts(new)) /\ RestsEnd(Texts(new))
<1> DEFINE text == x \o Texts(new)
           p == Texts(new)
<1>1. text \in Seq(Pieces(R \cup {None})) /\ Begins(x, text) /\ Continues(text, x, new)
  BY Appended
<1>b. /\ Len(p) = 3 * Len(new)
      /\ \A k \in 1..Len(new) :
            /\ p[3 * k - 2] = HeadOf(new[k])
            /\ p[3 * k - 1] = RestOf(new[k])
            /\ p[3 * k] = LineEnd
      /\ \A q \in 1..(3 * Len(new)) : \E k \in 1..Len(new) : q \in {3 * k - 2, 3 * k - 1, 3 * k}
  BY TextsFacts
<1> HIDE DEF text, p
<1>2. /\ Len(text) = Len(x) + 3 * Len(new) /\ Len(x) \in Nat /\ Len(new) \in Nat
      /\ \A i \in 1..Len(x) : x[i] = text[i]
      /\ \A i \in 1..Len(text) :
           i <= Len(x) \/ \E k \in 1..Len(new) :
               i \in {Len(x) + 3 * k - 2, Len(x) + 3 * k - 1, Len(x) + 3 * k}
  BY <1>1 DEF Continues
<1>a. \A k \in 1..Len(new) :
         /\ text[Len(x) + 3 * k - 2] = HeadOf(new[k])
         /\ text[Len(x) + 3 * k - 1] = RestOf(new[k])
         /\ text[Len(x) + 3 * k] = LineEnd
  BY <1>1 DEF Continues
<1>3. ASSUME NEW i \in 1..Len(text), text[i].part = "rest"
      PROVE  i > 1 /\ text[i - 1].part = "head"
  <2>1. CASE i <= Len(x)
    <3>1. i \in 1..Len(x) /\ x[i] = text[i]  BY <2>1, <1>2
    <3>2. i > 1 /\ x[i - 1].part = "head"  BY <3>1, <1>3 DEF RestsFollow
    <3>3. i - 1 \in 1..Len(x)  BY <3>1, <3>2, <1>2
    <3>4. QED  BY <3>2, <3>3, <1>2
  <2>2. CASE ~(i <= Len(x))
    <3>1. PICK k \in 1..Len(new) : i \in {Len(x) + 3 * k - 2, Len(x) + 3 * k - 1, Len(x) + 3 * k}
      BY <2>2, <1>2
    <3>a. text[Len(x) + 3 * k - 2] = HeadOf(new[k]) /\ text[Len(x) + 3 * k] = LineEnd
      BY <1>a
    <3>2. /\ text[Len(x) + 3 * k - 2].part = "head"
          /\ text[Len(x) + 3 * k].part = "end"
      BY <3>a DEF HeadOf, LineEnd
    <3>3. i = Len(x) + 3 * k - 1  BY <3>1, <3>2, <1>3
    <3>4. i > 1 /\ i - 1 = Len(x) + 3 * k - 2  BY <3>3, <1>2
    <3>5. QED  BY <3>2, <3>4
  <2>3. QED  BY <2>1, <2>2
<1>4. ASSUME NEW q \in 1..Len(p), p[q].part = "rest"
      PROVE  q < Len(p) /\ p[q + 1].part = "end"
  <2>1. PICK k \in 1..Len(new) : q \in {3 * k - 2, 3 * k - 1, 3 * k}  BY <1>b
  <2>a. p[3 * k - 2] = HeadOf(new[k]) /\ p[3 * k] = LineEnd  BY <1>b
  <2>2. p[3 * k - 2].part = "head" /\ p[3 * k].part = "end"  BY <2>a DEF HeadOf, LineEnd
  <2>3. q = 3 * k - 1  BY <2>1, <2>2, <1>4
  <2>4. q < Len(p) /\ q + 1 = 3 * k  BY <2>3, <1>2, <1>b
  <2>5. QED  BY <2>2, <2>4
<1>5. RestsFollow(text)  BY <1>3 DEF RestsFollow
<1>6. RestsEnd(p)  BY <1>4 DEF RestsEnd
<1>7. QED  BY <1>5, <1>6 DEF text, p

LEMMA AppendedBreaks ==
    ASSUME NEW R, NEW x \in Seq(Pieces(R \cup {None})), NEW new \in Seq(R), NEW f
    PROVE  /\ Breaks(x \o Texts(new)) = Breaks(x)
           /\ Beside(f, x, Len(x)) \subseteq Beside(f, x \o Texts(new), Len(x))
<1> DEFINE text == x \o Texts(new)
<1>1. text \in Seq(Pieces(R \cup {None})) /\ Begins(x, text) /\ Continues(text, x, new)
  BY Appended
<1> HIDE DEF text
<1>2. /\ Len(text) = Len(x) + 3 * Len(new) /\ Len(x) \in Nat /\ Len(new) \in Nat
      /\ \A i \in 1..Len(x) : x[i] = text[i]
      /\ \A i \in 1..Len(text) :
           i <= Len(x) \/ \E k \in 1..Len(new) :
               i \in {Len(x) + 3 * k - 2, Len(x) + 3 * k - 1, Len(x) + 3 * k}
  BY <1>1 DEF Continues
<1>a. \A k \in 1..Len(new) :
         /\ text[Len(x) + 3 * k - 2] = HeadOf(new[k])
         /\ text[Len(x) + 3 * k - 1] = RestOf(new[k])
         /\ text[Len(x) + 3 * k] = LineEnd
  BY <1>1 DEF Continues
<1>3. ASSUME NEW p \in Breaks(x) PROVE p \in Breaks(text)
  <2>1. /\ p \in 2..(Len(x) + 1) /\ x[p - 1].part # "end"
        /\ p = Len(x) + 1 \/ x[p].part = "head"
    BY DEF Breaks
  <2>2. p \in 2..(Len(text) + 1) /\ text[p - 1].part # "end"  BY <2>1, <1>2
  <2>3. p = Len(text) + 1 \/ text[p].part = "head"
    <3>1. CASE p # Len(x) + 1  BY <3>1, <2>1, <1>2
    <3>2. CASE p = Len(x) + 1 /\ Len(new) = 0  BY <3>2, <1>2
    <3>3. CASE p = Len(x) + 1 /\ Len(new) # 0
      <4>1. 1 \in 1..Len(new) /\ p = Len(x) + 3 * 1 - 2  BY <3>3, <1>2
      <4>2. text[p] = HeadOf(new[1])  BY <4>1, <1>a
      <4>3. QED  BY <4>2 DEF HeadOf
    <3>4. QED  BY <3>1, <3>2, <3>3
  <2>4. QED  BY <2>2, <2>3 DEF Breaks
<1>4. ASSUME NEW p \in Breaks(text) PROVE p \in Breaks(x)
  <2>1. /\ p \in 2..(Len(text) + 1) /\ text[p - 1].part # "end"
        /\ p = Len(text) + 1 \/ text[p].part = "head"
    BY DEF Breaks
  <2>2. p <= Len(x) + 1
    <3>1. SUFFICES ASSUME p > Len(x) + 1 PROVE FALSE  BY <2>1, <1>2
    <3>2. p - 1 \in 1..Len(text) /\ ~(p - 1 <= Len(x))  BY <2>1, <3>1, <1>2
    <3>3. PICK k \in 1..Len(new) : p - 1 \in {Len(x) + 3 * k - 2, Len(x) + 3 * k - 1, Len(x) + 3 * k}
      BY <3>2, <1>2
    <3>a. text[Len(x) + 3 * k - 1] = RestOf(new[k]) /\ text[Len(x) + 3 * k] = LineEnd
      BY <1>a
    <3>4. text[Len(x) + 3 * k - 1].part = "rest" /\ text[Len(x) + 3 * k].part = "end"
      BY <3>a DEF RestOf, LineEnd
    <3>5. p - 1 # Len(x) + 3 * k  BY <2>1, <3>4
    <3>6. p \in {Len(x) + 3 * k - 1, Len(x) + 3 * k}  BY <3>3, <3>5, <2>1, <1>2
    <3>7. text[p].part # "head"  BY <3>4, <3>6
    <3>8. p # Len(text) + 1  BY <3>6, <1>2
    <3>9. QED  BY <3>7, <3>8, <2>1
  <2>3. x[p - 1].part # "end"  BY <2>1, <2>2, <1>2
  <2>4. p = Len(x) + 1 \/ x[p].part = "head"
    <3>1. CASE p # Len(x) + 1
      <4>1. p \in 1..Len(x) /\ p # Len(text) + 1  BY <3>1, <2>1, <2>2, <1>2
      <4>2. QED  BY <4>1, <2>1, <1>2
    <3>2. QED  BY <3>1
  <2>5. p \in 2..(Len(x) + 1)  BY <2>1, <2>2, <1>2
  <2>6. QED  BY <2>3, <2>4, <2>5 DEF Breaks
<1>5. Breaks(text) = Breaks(x)  BY <1>3, <1>4
<1>6. ASSUME NEW v \in Beside(f, x, Len(x)) PROVE v \in Beside(f, text, Len(x))
  <2>1. CASE \E p \in Breaks(x) : p <= Len(x) /\ v = Key(f, x[p].of)
    <3>1. PICK p \in Breaks(x) : p <= Len(x) /\ v = Key(f, x[p].of)  BY <2>1
    <3>2. p \in 2..(Len(x) + 1)  BY DEF Breaks
    <3>3. x[p] = text[p]  BY <3>1, <3>2, <1>2
    <3>4. QED  BY <3>1, <3>3, <1>5 DEF Beside
  <2>2. CASE \E p \in Breaks(x) : p <= Len(x) + 1 /\ v = Key(f, x[p - 1].of)
    <3>1. PICK p \in Breaks(x) : p <= Len(x) + 1 /\ v = Key(f, x[p - 1].of)  BY <2>2
    <3>2. p \in 2..(Len(x) + 1)  BY DEF Breaks
    <3>3. p - 1 \in 1..Len(x) /\ x[p - 1] = text[p - 1]  BY <3>2, <1>2
    <3>4. QED  BY <3>1, <3>3, <1>5 DEF Beside
  <2>3. QED  BY <2>1, <2>2 DEF Beside
<1>7. QED  BY <1>5, <1>6 DEF text

\* New records whose keys are neither known nor repeated.
FreshKeys(f, x, new) ==
    /\ \A k \in 1..Len(new) : Key(f, new[k]) = None \/ Key(f, new[k]) \notin KnownIn(f, x)
    /\ \A k, m \in 1..Len(new) : Key(f, new[k]) = Key(f, new[m]) => k = m \/ Key(f, new[k]) = None

LEMMA AppendedOnce ==
    ASSUME NEW R, NEW x \in Seq(Pieces(R \cup {None})), NEW new \in Seq(R), NEW f,
           NoneTwice(f, x), FreshKeys(f, x, new)
    PROVE  NoneTwice(f, x \o Texts(new))
<1> DEFINE text == x \o Texts(new)
<1>1. text \in Seq(Pieces(R \cup {None})) /\ Begins(x, text) /\ Continues(text, x, new)
  BY Appended
<1> HIDE DEF text
<1>2. /\ Len(text) = Len(x) + 3 * Len(new) /\ Len(x) \in Nat /\ Len(new) \in Nat
      /\ \A i \in 1..Len(x) : x[i] = text[i]
      /\ \A i \in 1..Len(text) :
           i <= Len(x) \/ \E k \in 1..Len(new) :
               i \in {Len(x) + 3 * k - 2, Len(x) + 3 * k - 1, Len(x) + 3 * k}
  BY <1>1 DEF Continues
<1>a. \A k \in 1..Len(new) :
         /\ text[Len(x) + 3 * k - 2] = HeadOf(new[k])
         /\ text[Len(x) + 3 * k - 1] = RestOf(new[k])
         /\ text[Len(x) + 3 * k] = LineEnd
  BY <1>1 DEF Continues
<1> DEFINE Old(i) == i \in Readable(x) /\ text[i] = x[i]
           Fresh(i, k) == i = Len(x) + 3 * k - 2 /\ text[i] = HeadOf(new[k])
<1>3. ASSUME NEW i \in Readable(text)
      PROVE  Old(i) \/ \E k \in 1..Len(new) : Fresh(i, k)
  <2>1. /\ i \in 1..(Len(text) - 1)
        /\ i = 1 \/ text[i - 1].part = "end"
        /\ text[i].part = "head"
        /\ text[i + 1].part = "rest" /\ text[i + 1].of = text[i].of
        /\ i + 1 = Len(text) \/ text[i + 2].part = "end"
    BY <1>1, ReadableFacts
  <2>2. CASE i + 1 <= Len(x)
    <3>1. i \in 1..(Len(x) - 1) /\ (i > 1 => i - 1 \in 1..Len(x))  BY <2>1, <2>2, <1>2
    <3>2. x[i] = text[i] /\ x[i + 1] = text[i + 1] /\ (i > 1 => x[i - 1] = text[i - 1])
      BY <3>1, <1>2
    <3>3. i + 1 = Len(x) \/ x[i + 2].part = "end"
      <4>1. CASE i + 1 # Len(x)  BY <4>1, <3>1, <2>1, <1>2
      <4>2. QED  BY <4>1
    <3>4. x[i].part = "head" /\ x[i + 1].part = "rest" /\ x[i + 1].of = x[i].of
      BY <2>1, <3>2
    <3>5. i = 1 \/ x[i - 1].part = "end"  BY <2>1, <3>1, <3>2
    <3>6. i \in Readable(x)  BY <3>1, <3>3, <3>4, <3>5, ReadableFacts
    <3>7. QED  BY <3>2, <3>6
  <2>3. CASE i = Len(x)
    <3>1. 1 \in 1..Len(new) /\ i + 1 = Len(x) + 3 * 1 - 2  BY <2>1, <2>3, <1>2
    <3>2. text[i + 1] = HeadOf(new[1])  BY <3>1, <1>a
    <3>3. QED  BY <3>2, <2>1 DEF HeadOf
  <2>4. CASE i > Len(x)
    <3>1. i \in 1..Len(text) /\ ~(i <= Len(x))  BY <2>1, <2>4, <1>2
    <3>2. PICK k \in 1..Len(new) : i \in {Len(x) + 3 * k - 2, Len(x) + 3 * k - 1, Len(x) + 3 * k}
      BY <3>1, <1>2
    <3>a. text[Len(x) + 3 * k - 1] = RestOf(new[k]) /\ text[Len(x) + 3 * k] = LineEnd
      BY <1>a
    <3>3. text[Len(x) + 3 * k - 1].part = "rest" /\ text[Len(x) + 3 * k].part = "end"
      BY <3>a DEF RestOf, LineEnd
    <3>4. i = Len(x) + 3 * k - 2  BY <3>2, <3>3, <2>1
    <3>5. text[Len(x) + 3 * k - 2] = HeadOf(new[k])  BY <1>a
    <3>6. QED  BY <3>4, <3>5
  <2>5. i + 1 <= Len(x) \/ i = Len(x) \/ i > Len(x)  BY <2>1, <1>2
  <2>6. QED  BY <2>2, <2>3, <2>4, <2>5
<1>4. ASSUME NEW i \in Readable(text), NEW j \in Readable(text),
             Key(f, text[i].of) = Key(f, text[j].of), Key(f, text[i].of) # None
      PROVE  i = j
  <2>1. CASE Old(i) /\ Old(j)  BY <2>1, <1>4 DEF NoneTwice
  <2>2. ASSUME NEW a, NEW b, Old(a), NEW k \in 1..Len(new), Fresh(b, k),
               Key(f, text[a].of) = Key(f, text[b].of), Key(f, text[a].of) # None
        PROVE  FALSE
    <3>1. Key(f, x[a].of) \in KnownIn(f, x)  BY <2>2 DEF KnownIn
    <3>2. Key(f, text[b].of) = Key(f, new[k])  BY <2>2 DEF HeadOf
    <3>3. QED  BY <2>2, <3>1, <3>2 DEF FreshKeys
  <2>3. CASE \E k, m \in 1..Len(new) : Fresh(i, k) /\ Fresh(j, m)
    <3>1. PICK k, m \in 1..Len(new) : Fresh(i, k) /\ Fresh(j, m)  BY <2>3
    <3>2. Key(f, new[k]) = Key(f, new[m]) /\ Key(f, new[k]) # None  BY <3>1, <1>4 DEF HeadOf
    <3>3. k = m  BY <3>2 DEF FreshKeys
    <3>4. QED  BY <3>1, <3>3
  <2> HIDE DEF Old, Fresh
  <2>4. QED  BY <2>1, <2>2, <2>3, <1>3, <1>4
<1>5. NoneTwice(f, text)  BY <1>4 DEF NoneTwice
<1>6. QED  BY <1>5 DEF text

\* What is appended can be read, but for the first record if it joins a line.
LEMMA AppendedKnown ==
    ASSUME NEW R, NEW x \in Seq(Pieces(R \cup {None})), NEW new \in Seq(R), NEW f,
           NEW k \in 1..Len(new), Key(f, new[k]) # None
    PROVE  Key(f, new[k]) \in KnownIn(f, x \o Texts(new))
                              \cup Beside(f, x \o Texts(new), Len(x \o Texts(new)))
<1> DEFINE text == x \o Texts(new)
           i == Len(x) + 3 * k - 2
<1>1. text \in Seq(Pieces(R \cup {None})) /\ Begins(x, text) /\ Continues(text, x, new)
  BY Appended
<1> HIDE DEF text
<1>c. Len(text) = Len(x) + 3 * Len(new) /\ Len(x) \in Nat /\ Len(new) \in Nat
  BY <1>1 DEF Continues
<1>a. /\ text[Len(x) + 3 * k - 2] = HeadOf(new[k])
      /\ text[Len(x) + 3 * k - 1] = RestOf(new[k])
      /\ text[Len(x) + 3 * k] = LineEnd
  BY <1>1 DEF Continues
<1>2. /\ i \in 1..(Len(text) - 1) /\ i + 1 = Len(x) + 3 * k - 1 /\ i + 2 = Len(x) + 3 * k
      /\ i + 2 <= Len(text) /\ i \in Int
  BY <1>c
<1>3. text[i] = HeadOf(new[k]) /\ text[i + 1] = RestOf(new[k]) /\ text[i + 2] = LineEnd
  BY <1>a, <1>2
<1>4. Key(f, text[i].of) = Key(f, new[k])  BY <1>3 DEF HeadOf
<1> HIDE DEF i
<1>5. CASE i = 1 \/ text[i - 1].part = "end"
  <2>a. /\ text[i].part = "head" /\ text[i + 1].part = "rest" /\ text[i + 2].part = "end"
        /\ text[i + 1].of = text[i].of
    BY <1>3 DEF HeadOf, RestOf, LineEnd
  <2>b. i \in 1..(Len(text) - 1)  BY <1>2
  <2>1. i \in Readable(text)  BY <1>1, <2>a, <2>b, <1>5, ReadableFacts
  <2>2. QED  BY <2>1, <1>4 DEF KnownIn, text
<1>6. CASE ~(i = 1 \/ text[i - 1].part = "end")
  <2>1. i \in Breaks(text)  BY <1>2, <1>3, <1>6, <1>c DEF Breaks, HeadOf
  <2>2. i <= Len(text)  BY <1>2, <1>c
  <2>3. QED  BY <2>1, <2>2, <1>4 DEF Beside, text
<1>7. QED  BY <1>5, <1>6

-----------------------------------------------------------------------------
(* The rows and records of a run.                                          *)

Rows == [date : Int, topic : Int, count : Nat, earliest : Int \cup {None}, latest : Int \cup {None}]
Records == [article : Articles, query : DOMAIN Tags, topics : Seq(Int)]
Stored(f) == IF f = "features" THEN Rows ELSE Records

LEMMA ToSetFacts ==
    ASSUME NEW S, NEW s \in Seq(S)
    PROVE  /\ IsFiniteSet(ToSet(s)) /\ ToSet(s) \subseteq S
           /\ \A x : x \in ToSet(s) <=> \E i \in 1..Len(s) : s[i] = x
<1>1. DOMAIN s = 1..Len(s) /\ Len(s) \in Nat /\ \A i \in 1..Len(s) : s[i] \in S  OBVIOUS
<1>2. IsFiniteSet(1..Len(s))  BY <1>1, FS_Interval
<1>3. s = [i \in 1..Len(s) |-> s[i]]  OBVIOUS
<1>4. IsFiniteSet({s[i] : i \in 1..Len(s)})  BY <1>1, <1>2, <1>3, ValuesBounded
<1>5. ToSet(s) = {s[i] : i \in 1..Len(s)}  BY <1>1 DEF ToSet
<1>6. QED  BY <1>1, <1>4, <1>5

LEMMA DatesAndTopics ==
    ASSUME NEW c \in Collections, NEW a \in Articles
    PROVE  DateOf(a) \in Int /\ TopicsOf(c, a) \in Seq(Int)
<1>1. DateOf(a) \in Int  BY CollectionAssumption DEF DateOf
<1>2. c.query \in DOMAIN Tags /\ Tags[c.query][a] \in Seq(Int)  BY CollectionAssumption
<1>3. <<Untagged>> \in Seq(Int)  BY CollectionAssumption
<1>4. QED  BY <1>1, <1>2, <1>3 DEF TopicsOf

\* A row of the set covers the article for the topic.
Covered(featured, record, topic) ==
    LET stamp == Kind[record.article].stamp IN
    \E row \in featured :
        /\ row.date = DateOf(record.article) /\ row.topic = topic
        /\ stamp = None \/ (row.earliest <= stamp /\ stamp <= row.latest)

LEMMA RowsFacts ==
    ASSUME NEW c \in Collections, NEW news \in Seq(Articles)
    PROVE  /\ FeatureRows(c, news) \in Seq(Rows)
           /\ \A record \in Records :
                 record.article \in ToSet(news) =>
                    \A topic \in ToSet(TopicsOf(c, record.article)) :
                        Covered(ToSet(FeatureRows(c, news)), record, topic)
<1> DEFINE members(d, t) == {a \in ToSet(news) : DateOf(a) = d /\ t \in ToSet(TopicsOf(c, a))}
           stamps(d, t) == {Kind[a].stamp : a \in members(d, t)} \ {None}
           Row(d, t) == [date |-> d, topic |-> t, count |-> Cardinality(members(d, t)),
                         earliest |-> IF stamps(d, t) = {} THEN None ELSE Min(stamps(d, t)),
                         latest |-> IF stamps(d, t) = {} THEN None ELSE Max(stamps(d, t))]
           of(a) == {<<DateOf(a), t>> : t \in ToSet(TopicsOf(c, a))}
           buckets == UNION {of(a) : a \in ToSet(news)}
           Before(p, q) == p.date < q.date \/ (p.date = q.date /\ p.topic < q.topic)
           featured == {Row(b[1], b[2]) : b \in buckets}
           before == {p \in featured \X featured : Before(p[1], p[2])}
           made == FeatureRows(c, news)
<1>1. made = Ascending(featured, before)  BY DEF FeatureRows
<1>2. /\ IsFiniteSet(ToSet(news)) /\ ToSet(news) \subseteq Articles
      /\ \A x : x \in ToSet(news) <=> \E i \in 1..Len(news) : news[i] = x
  BY ToSetFacts
<1>3. \A a \in ToSet(news) : DateOf(a) \in Int /\ TopicsOf(c, a) \in Seq(Int)
  BY <1>2, DatesAndTopics
<1>4. \A a \in ToSet(news) : IsFiniteSet(ToSet(TopicsOf(c, a))) /\ ToSet(TopicsOf(c, a)) \subseteq Int
  BY <1>3, ToSetFacts
<1>5. IsFiniteSet(buckets)
  <2>1. \A a \in ToSet(news) : IsFiniteSet(of(a))
    <3> SUFFICES ASSUME NEW a \in ToSet(news) PROVE IsFiniteSet(of(a))  OBVIOUS
    <3> DEFINE B == ToSet(TopicsOf(c, a))
               g == [t \in B |-> <<DateOf(a), t>>]
    <3>1. IsFiniteSet(B)  BY <1>4
    <3>2. DOMAIN g = B /\ g = [t \in B |-> g[t]] /\ of(a) = {g[t] : t \in B}  OBVIOUS
    <3> HIDE DEF B, g
    <3>3. IsFiniteSet({g[t] : t \in B})  BY <3>1, <3>2, ValuesBounded
    <3>4. QED  BY <3>2, <3>3
  <2> DEFINE g == [a \in ToSet(news) |-> of(a)]
  <2>2. /\ DOMAIN g = ToSet(news) /\ g = [a \in ToSet(news) |-> g[a]]
        /\ {of(a) : a \in ToSet(news)} = {g[a] : a \in ToSet(news)}
    OBVIOUS
  <2> HIDE DEF g, of
  <2>3. IsFiniteSet({g[a] : a \in ToSet(news)})  BY <1>2, <2>2, ValuesBounded
  <2>4. IsFiniteSet({of(a) : a \in ToSet(news)})  BY <2>2, <2>3
  <2>5. QED  BY <2>1, <2>4, FS_UNION
<1>6. \A b \in buckets : \E a \in ToSet(news) : \E t \in ToSet(TopicsOf(c, a)) : b = <<DateOf(a), t>>
  OBVIOUS
<1>7. \A b \in buckets : b[1] \in Int /\ b[2] \in Int /\ b = <<b[1], b[2]>>
  <2> SUFFICES ASSUME NEW b \in buckets PROVE b[1] \in Int /\ b[2] \in Int /\ b = <<b[1], b[2]>>
    OBVIOUS
  <2>1. PICK a \in ToSet(news) : \E t \in ToSet(TopicsOf(c, a)) : b = <<DateOf(a), t>>  BY <1>6
  <2>a. PICK t \in ToSet(TopicsOf(c, a)) : b = <<DateOf(a), t>>  BY <2>1
  <2>2. DateOf(a) \in Int /\ t \in Int  BY <1>3, <1>4
  <2>3. QED  BY <2>a, <2>2
<1>8. ASSUME NEW d, NEW t
      PROVE  /\ Cardinality(members(d, t)) \in Nat
             /\ IsFiniteSet(stamps(d, t)) /\ stamps(d, t) \subseteq Int
  <2> DEFINE M == members(d, t)
             g == [a \in M |-> Kind[a].stamp]
             all == {g[a] : a \in M}
  <2>1. M \in SUBSET ToSet(news)  OBVIOUS
  <2>2. stamps(d, t) = all \ {None}  OBVIOUS
  <2>3. DOMAIN g = M /\ g = [a \in M |-> g[a]] /\ \A a \in M : g[a] = Kind[a].stamp  OBVIOUS
  <2> HIDE DEF M
  <2>4. IsFiniteSet(M)  BY <2>1, <1>2, FS_Subset
  <2> HIDE DEF g
  <2>5. IsFiniteSet(all)  BY <2>3, <2>4, ValuesBounded
  <2>6. \A a \in M : g[a] = None \/ g[a] \in Int  BY <2>1, <2>3, <1>2, CollectionAssumption
  <2> HIDE DEF stamps
  <2>7. IsFiniteSet(stamps(d, t))
    <3> HIDE DEF all
    <3>1. QED  BY <2>2, <2>5, FS_Difference
  <2>8. stamps(d, t) \subseteq Int  BY <2>2, <2>6
  <2>9. Cardinality(M) \in Nat  BY <2>4, FS_CardinalityType
  <2>10. QED  BY <2>7, <2>8, <2>9 DEF M
<1>9. \A d, t : stamps(d, t) # {} =>
          /\ Min(stamps(d, t)) \in Int /\ Max(stamps(d, t)) \in Int
          /\ \A x \in stamps(d, t) : Min(stamps(d, t)) <= x /\ x <= Max(stamps(d, t))
  <2> HIDE DEF stamps
  <2>1. SUFFICES ASSUME NEW d, NEW t, stamps(d, t) # {}
                 PROVE  /\ Min(stamps(d, t)) \in Int /\ Max(stamps(d, t)) \in Int
                        /\ \A x \in stamps(d, t) :
                              Min(stamps(d, t)) <= x /\ x <= Max(stamps(d, t))
    OBVIOUS
  <2> DEFINE T == stamps(d, t)
  <2>2. T \subseteq Int /\ T # {} /\ IsFiniteSet(T)  BY <1>8, <2>1
  <2> HIDE DEF T
  <2>3. Min(T) \in T /\ (\A y \in T : Min(T) <= y) /\ Max(T) \in T /\ (\A y \in T : y <= Max(T))
    BY <2>2, Extremes
  <2>4. QED  BY <2>2, <2>3 DEF T
<1> HIDE DEF buckets, stamps, members
<1>10. IsFiniteSet(featured)
  <2> DEFINE g == [b \in buckets |-> Row(b[1], b[2])]
  <2>1. DOMAIN g = buckets /\ g = [b \in buckets |-> g[b]] /\ featured = {g[b] : b \in buckets}  OBVIOUS
  <2> HIDE DEF g, featured
  <2>2. IsFiniteSet({g[b] : b \in buckets})  BY <1>5, <2>1, ValuesBounded
  <2>3. QED  BY <2>1, <2>2
<1>11. \A row \in featured : \E b \in buckets : row = Row(b[1], b[2])  OBVIOUS
<1>12. \A b \in buckets : Row(b[1], b[2]) \in Rows /\ Row(b[1], b[2]).date = b[1]
                          /\ Row(b[1], b[2]).topic = b[2]
  BY <1>7, <1>8, <1>9 DEF Rows
<1>13. \A row \in featured : row \in Rows /\ row = Row(row.date, row.topic)
                         /\ row.date \in Int /\ row.topic \in Int
  BY <1>7, <1>11, <1>12
<1> HIDE DEF featured
<1>14. Orders(featured, before)
  <2>1. \A x \in featured : <<x, x>> \notin before  BY <1>13
  <2>2. \A x, y \in featured : x = y \/ <<x, y>> \in before \/ <<y, x>> \in before
    <3> SUFFICES ASSUME NEW x \in featured, NEW y \in featured, ~Before(x, y), ~Before(y, x) PROVE x = y
      OBVIOUS
    <3>1. x.date = y.date /\ x.topic = y.topic  BY <1>13
    <3> HIDE DEF Row, Before
    <3>2. QED  BY <3>1, <1>13
  <2>3. \A x, y, z \in featured : <<x, y>> \in before /\ <<y, z>> \in before => <<x, z>> \in before
    BY <1>13
  <2>4. QED  BY <2>1, <2>2, <2>3 DEF Orders
<1> DEFINE n == Cardinality(featured)
<1>15. n \in Nat /\ made \in [1..n -> featured]
  <2> HIDE DEF before, made
  <2>1. Enumerates(made, featured, before)  BY <1>1, <1>10, <1>14, Enumeration
  <2>2. QED  BY <2>1, <1>10, FS_CardinalityType DEF Enumerates
<1>16. \A row \in featured : \E i \in 1..n : made[i] = row
  <2> HIDE DEF before, made
  <2>1. Enumerates(made, featured, before)  BY <1>1, <1>10, <1>14, Enumeration
  <2>2. QED  BY <2>1, <1>10, <1>14, EnumerationOnto
<1> HIDE DEF made, n
<1>17. made \in Seq(Rows) /\ Len(made) = n
  <2>1. \A i \in 1..n : made[i] \in Rows  BY <1>13, <1>15
  <2>2. QED  BY <2>1, <1>15
<1>18. \A row \in featured : row \in ToSet(made)  BY <1>16, <1>17, ToSetFacts
<1>19. ASSUME NEW record \in Records, record.article \in ToSet(news),
              NEW topic \in ToSet(TopicsOf(c, record.article))
       PROVE  Covered(ToSet(made), record, topic)
  <2> DEFINE a == record.article
             stamp == Kind[a].stamp
             row == Row(DateOf(a), topic)
  <2>1. <<DateOf(a), topic>> \in buckets  BY <1>19 DEF buckets
  <2>2. row \in featured
    <3> HIDE DEF Row
    <3>1. QED  BY <2>1 DEF featured
  <2>3. a \in members(DateOf(a), topic)  BY <1>19 DEF members
  <2>4. stamp = None \/ stamp \in stamps(DateOf(a), topic)  BY <2>3 DEF stamps
  <2>5. stamp = None \/ (row.earliest <= stamp /\ stamp <= row.latest)  BY <2>4, <1>9
  <2>6. row.date = DateOf(a) /\ row.topic = topic  OBVIOUS
  <2> HIDE DEF row
  <2>7. row \in ToSet(made)  BY <2>2, <1>18
  <2>8. QED  BY <2>5, <2>6, <2>7 DEF Covered
<1>20. QED  BY <1>17, <1>19 DEF made

-----------------------------------------------------------------------------
(* What a file owes to its readers, and how each operation keeps it.       *)

TextType(f) == Seq(Pieces(Stored(f) \cup {None}))

\* Every break is one of the stops that were counted, and a key that a run has claimed can be
\* read or lies beside a break.
Accounted(f, text, ahead, known, broken) ==
    /\ Cardinality(Breaks(ahead)) <= broken
    /\ known \subseteq KnownIn(f, text) \cup Beside(f, ahead, Len(text))

\* The text that the file will hold when the run has written the rest of its buffer.
WriterSound(f, text, rest, batch, known, broken) ==
    /\ NoneTwice(f, text \o rest) /\ RestsFollow(text \o rest) /\ RestsEnd(rest)
    /\ Accounted(f, text, text \o rest, known, broken)
    /\ \A i \in 1..Len(batch) :
          Key(f, batch[i]) \in {None} \cup KnownIn(f, text \o rest)
                                      \cup Beside(f, text \o rest, Len(text \o rest))

\* Sequences one after the other, and a part of one.
LEMMA Joined ==
    ASSUME NEW P, NEW x \in Seq(P), NEW y \in Seq(P)
    PROVE  /\ x \o y \in Seq(P) /\ Len(x \o y) = Len(x) + Len(y)
           /\ \A i \in 1..Len(x) : (x \o y)[i] = x[i]
           /\ \A i \in 1..Len(y) : (x \o y)[Len(x) + i] = y[i]
<1> DEFINE z == x \o y
<1>1. /\ z \in Seq(P) /\ Len(z) = Len(x) + Len(y)
      /\ \A i \in 1..(Len(x) + Len(y)) : z[i] = IF i <= Len(x) THEN x[i] ELSE y[i - Len(x)]
  BY ConcatProperties
<1>2. Len(x) \in Nat /\ Len(y) \in Nat  OBVIOUS
<1> HIDE DEF z
<1>3. \A i \in 1..Len(x) : z[i] = x[i]  BY <1>1, <1>2
<1>4. ASSUME NEW i \in 1..Len(y) PROVE z[Len(x) + i] = y[i]
  <2>1. /\ Len(x) + i \in 1..(Len(x) + Len(y)) /\ ~(Len(x) + i <= Len(x))
        /\ (Len(x) + i) - Len(x) = i
    BY <1>2
  <2>2. QED  BY <2>1, <1>1
<1>5. QED  BY <1>1, <1>3, <1>4 DEF z

LEMMA PartOf ==
    ASSUME NEW P, NEW x \in Seq(P), NEW m \in 1..Len(x), NEW n \in m..Len(x)
    PROVE  /\ SubSeq(x, m, n) \in Seq(P) /\ Len(SubSeq(x, m, n)) = n - m + 1
           /\ \A i \in 1..(n - m + 1) : SubSeq(x, m, n)[i] = x[m + i - 1]
<1>1. m \in Int /\ n \in Int /\ m <= n  OBVIOUS
<1>2. \A i \in m..n : x[i] \in P  OBVIOUS
<1>3. QED  BY <1>1, <1>2, SubSeqProperties

\* The part of rest that goes out joins x; y and z together are what x and rest were.
CutInTwo(x, rest, n, y, z, ahead, P) ==
    /\ z \in Seq(P) /\ Len(z) = Len(rest) - n
    /\ \A i \in 1..Len(z) : z[i] = rest[n + i]
    /\ y \in Seq(P) /\ Len(y) = Len(x) + n
    /\ \A i \in 1..Len(x) : y[i] = x[i]
    /\ \A i \in 1..n : y[Len(x) + i] = rest[i]
    /\ ahead \in Seq(P) /\ Len(ahead) = Len(x) + Len(rest)
    /\ \A i \in 1..Len(x) : ahead[i] = x[i]
    /\ \A i \in 1..Len(rest) : ahead[Len(x) + i] = rest[i]
    /\ y \o z = ahead /\ x \o rest = ahead

LEMMA CutFacts ==
    ASSUME NEW P, NEW x \in Seq(P), NEW rest \in Seq(P), NEW n \in 1..(Len(rest) - 1)
    PROVE  CutInTwo(x, rest, n, x \o SubSeq(rest, 1, n), SubSeq(rest, n + 1, Len(rest)),
                    x \o rest, P)
<1>1. Len(x) \in Nat /\ Len(rest) \in Nat /\ n \in Nat /\ n < Len(rest) /\ n > 0  OBVIOUS
<1>2. PICK w : w = SubSeq(rest, 1, n)  OBVIOUS
<1>3. w \in Seq(P) /\ Len(w) = n /\ \A i \in 1..n : w[i] = rest[i]
  <2>1. 1 \in 1..Len(rest) /\ n \in 1..Len(rest)  BY <1>1
  <2>2. w \in Seq(P) /\ Len(w) = n - 1 + 1 /\ \A i \in 1..(n - 1 + 1) : w[i] = rest[1 + i - 1]
    BY <1>2, <2>1, PartOf
  <2>3. n - 1 + 1 = n /\ \A i \in 1..n : 1 + i - 1 = i  BY <1>1
  <2>4. QED  BY <2>2, <2>3
<1>4. PICK z : z = SubSeq(rest, n + 1, Len(rest))  OBVIOUS
<1>5. z \in Seq(P) /\ Len(z) = Len(rest) - n /\ \A i \in 1..Len(z) : z[i] = rest[n + i]
  <2>1. n + 1 \in 1..Len(rest) /\ Len(rest) \in (n + 1)..Len(rest)  BY <1>1
  <2>2. /\ z \in Seq(P) /\ Len(z) = Len(rest) - (n + 1) + 1
        /\ \A i \in 1..(Len(rest) - (n + 1) + 1) : z[i] = rest[n + 1 + i - 1]
    BY <1>4, <2>1, PartOf
  <2>3. Len(rest) - (n + 1) + 1 = Len(rest) - n /\ \A i \in 1..(Len(rest) - n) : n + 1 + i - 1 = n + i
    BY <1>1
  <2>4. QED  BY <2>2, <2>3
<1>6. PICK y : y = x \o w  OBVIOUS
<1>7. /\ y \in Seq(P) /\ Len(y) = Len(x) + n
      /\ \A i \in 1..Len(x) : y[i] = x[i]
      /\ \A i \in 1..n : y[Len(x) + i] = rest[i]
  BY <1>3, <1>6, Joined
<1>8. PICK ahead : ahead = x \o rest  OBVIOUS
<1>9. /\ ahead \in Seq(P) /\ Len(ahead) = Len(x) + Len(rest)
      /\ \A i \in 1..Len(x) : ahead[i] = x[i]
      /\ \A i \in 1..Len(rest) : ahead[Len(x) + i] = rest[i]
  BY <1>8, Joined
<1>10. PICK yz : yz = y \o z  OBVIOUS
<1>11. /\ yz \in Seq(P) /\ Len(yz) = Len(y) + Len(z)
       /\ \A i \in 1..Len(y) : yz[i] = y[i]
       /\ \A i \in 1..Len(z) : yz[Len(y) + i] = z[i]
  <2>1. y \in Seq(P) /\ z \in Seq(P)  BY <1>5, <1>7
  <2>2. QED  BY <2>1, <1>10, Joined
<1>12. Len(yz) = Len(ahead)  BY <1>1, <1>5, <1>7, <1>9, <1>11
<1>13. ASSUME NEW i \in 1..Len(yz) PROVE yz[i] = ahead[i]
  <2>1. CASE i <= Len(x)
    <3>1. i \in 1..Len(x) /\ i \in 1..Len(y)  BY <2>1, <1>1, <1>7
    <3>2. QED  BY <3>1, <1>7, <1>9, <1>11
  <2>2. CASE i > Len(x) /\ i <= Len(y)
    <3>1. i - Len(x) \in 1..n /\ Len(x) + (i - Len(x)) = i /\ i \in 1..Len(y)
      BY <2>2, <1>1, <1>7
    <3>2. i - Len(x) \in 1..Len(rest)  BY <3>1, <1>1
    <3>3. y[i] = rest[i - Len(x)] /\ ahead[i] = rest[i - Len(x)]  BY <3>1, <3>2, <1>7, <1>9
    <3>4. QED  BY <3>1, <3>3, <1>11
  <2>3. CASE i > Len(y)
    <3>1. PICK q \in 1..Len(z) : Len(y) + q = i
      <4>1. i - Len(y) \in 1..Len(z) /\ Len(y) + (i - Len(y)) = i
        BY <2>3, <1>1, <1>5, <1>7, <1>11
      <4>2. QED  BY <4>1
    <3>2. n + q \in 1..Len(rest) /\ Len(x) + (n + q) = i  BY <3>1, <1>1, <1>5, <1>7
    <3>3. yz[i] = z[q] /\ z[q] = rest[n + q] /\ ahead[i] = rest[n + q]
      BY <3>1, <3>2, <1>5, <1>9, <1>11
    <3>4. QED  BY <3>3
  <2>4. QED  BY <2>1, <2>2, <2>3, <1>1, <1>7, <1>11
<1>14. yz = ahead  BY <1>9, <1>11, <1>12, <1>13, SeqEqual
<1>15. CutInTwo(x, rest, n, y, z, ahead, P)
  BY <1>5, <1>7, <1>8, <1>9, <1>10, <1>14 DEF CutInTwo
<1>16. QED  BY <1>2, <1>4, <1>6, <1>8, <1>15

LEMMA BesideGrows ==
    ASSUME NEW f, NEW text, NEW n \in Int, NEW m \in Int, n <= m, Len(text) \in Nat
    PROVE  Beside(f, text, n) \subseteq Beside(f, text, m)
<1>1. \A p \in Breaks(text) : p \in Int  BY DEF Breaks
<1>2. {q \in Breaks(text) : q <= n} \subseteq {q \in Breaks(text) : q <= m}  BY <1>1
<1>3. {q \in Breaks(text) : q <= n + 1} \subseteq {q \in Breaks(text) : q <= m + 1}  BY <1>1
<1>4. QED  BY <1>2, <1>3 DEF Beside

LEMMA BeginsFollow ==
    ASSUME NEW S, NEW x \in Seq(S), NEW text \in Seq(S), Begins(x, text), RestsFollow(text)
    PROVE  RestsFollow(x)
<1>1. \A i \in 1..Len(x) : i \in 1..Len(text) /\ x[i] = text[i] /\ (i > 1 => i - 1 \in 1..Len(x))
  BY DEF Begins
<1>2. QED  BY <1>1 DEF RestsFollow

LEMMA AccountedGrows ==
    ASSUME NEW S, NEW x \in Seq(Pieces(S)), NEW y \in Seq(Pieces(S)), NEW ahead \in Seq(Pieces(S)),
           NEW f, NEW known, NEW broken, Begins(x, y), Begins(y, ahead), RestsFollow(ahead),
           Accounted(f, x, ahead, known, broken)
    PROVE  Accounted(f, y, ahead, known, broken)
<1>1. Len(x) \in Int /\ Len(y) \in Int /\ Len(x) <= Len(y) /\ Len(ahead) \in Nat  BY DEF Begins
<1>2. Beside(f, ahead, Len(x)) \subseteq Beside(f, ahead, Len(y))  BY <1>1, BesideGrows
<1>3. KnownIn(f, x) \subseteq KnownIn(f, y) \cup Beside(f, ahead, Len(y))  BY KnownOrBeside
<1>4. QED  BY <1>2, <1>3 DEF Accounted

LEMMA LoadSound ==
    ASSUME NEW R, NEW x \in Seq(Pieces(R \cup {None})), NEW batch \in Seq(R), NEW f,
           NEW known, NEW broken,
           NoneTwice(f, x), RestsFollow(x), Accounted(f, x, x, known, broken)
    PROVE  WriterSound(f, x, Texts(FirstByKey(batch, Keys(f, batch), KnownIn(f, x))),
                       batch, known, broken)
<1> DEFINE keys == Keys(f, batch)
           new == FirstByKey(batch, keys, KnownIn(f, x))
           rest == Texts(new)
           ahead == x \o rest
<1>1. new \in Seq(R) /\ KeepsFirst(new, batch, keys, KnownIn(f, x))  BY FirstByKeyFacts
<1>2. \A i \in 1..Len(batch) : keys[i] = Key(f, batch[i])  BY DEF Keys
<1> HIDE DEF new, keys
<1>3. DOMAIN new = 1..Len(new) /\ DOMAIN batch = 1..Len(batch)  BY <1>1
<1>4. PICK o \in [DOMAIN new -> DOMAIN batch] :
        /\ \A n \in DOMAIN new : new[n] = batch[o[n]]
        /\ \A n \in DOMAIN new : keys[o[n]] = None \/ keys[o[n]] \notin KnownIn(f, x)
        /\ \A n, m \in DOMAIN new : keys[o[n]] = keys[o[m]] => n = m \/ keys[o[n]] = None
        /\ \A i \in DOMAIN batch :
              keys[i] \in KnownIn(f, x) \/ \E n \in DOMAIN new : keys[o[n]] = keys[i]
  BY <1>1, Zenon DEF KeepsFirst
<1>5. \A n \in 1..Len(new) : keys[o[n]] = Key(f, new[n])
  <2> SUFFICES ASSUME NEW n \in 1..Len(new) PROVE keys[o[n]] = Key(f, new[n])  OBVIOUS
  <2>1. n \in DOMAIN new /\ o[n] \in 1..Len(batch) /\ new[n] = batch[o[n]]  BY <1>3, <1>4
  <2>2. QED  BY <2>1, <1>2
<1>6. FreshKeys(f, x, new)
  <2>1. ASSUME NEW n \in 1..Len(new)
        PROVE  Key(f, new[n]) = None \/ Key(f, new[n]) \notin KnownIn(f, x)
    BY <1>3, <1>4, <1>5
  <2>2. ASSUME NEW n \in 1..Len(new), NEW m \in 1..Len(new), Key(f, new[n]) = Key(f, new[m])
        PROVE  n = m \/ Key(f, new[n]) = None
    <3>1. n \in DOMAIN new /\ m \in DOMAIN new /\ keys[o[n]] = keys[o[m]]
      BY <1>3, <1>5, <2>2
    <3>2. n = m \/ keys[o[n]] = None  BY <3>1, <1>4
    <3>3. QED  BY <3>2, <1>5
  <2>3. QED  BY <2>1, <2>2 DEF FreshKeys
<1>7. NoneTwice(f, ahead)  BY <1>1, <1>6, AppendedOnce
<1>8. RestsFollow(ahead) /\ RestsEnd(rest)  BY <1>1, AppendedShape
<1>9. ahead \in Seq(Pieces(R \cup {None})) /\ Begins(x, ahead)  BY <1>1, Appended
<1>10. Breaks(ahead) = Breaks(x) /\ Beside(f, x, Len(x)) \subseteq Beside(f, ahead, Len(x))
  BY <1>1, AppendedBreaks
<1>11. Accounted(f, x, ahead, known, broken)  BY <1>10 DEF Accounted
<1>12. KnownIn(f, x) \subseteq KnownIn(f, ahead) \cup Beside(f, ahead, Len(ahead))
  <2> HIDE DEF ahead
  <2>1. Begins(ahead, ahead)  BY <1>9 DEF Begins
  <2>2. QED  BY <2>1, <1>8, <1>9, KnownOrBeside
<1>13. ASSUME NEW i \in 1..Len(batch)
       PROVE  Key(f, batch[i]) \in {None} \cup KnownIn(f, ahead) \cup Beside(f, ahead, Len(ahead))
  <2>1. CASE keys[i] \in KnownIn(f, x)  BY <2>1, <1>2, <1>12
  <2>2. CASE \E n \in DOMAIN new : keys[o[n]] = keys[i]
    <3>1. PICK n \in 1..Len(new) : Key(f, new[n]) = Key(f, batch[i])
      BY <2>2, <1>2, <1>3, <1>5
    <3>2. CASE Key(f, new[n]) # None
      <4>1. Key(f, new[n]) \in KnownIn(f, ahead) \cup Beside(f, ahead, Len(ahead))
        BY <1>1, <3>2, AppendedKnown
      <4>2. QED  BY <3>1, <4>1
    <3>3. QED  BY <3>1, <3>2
  <2>3. QED  BY <2>1, <2>2, <1>3, <1>4
<1> HIDE DEF ahead, rest
<1>14. WriterSound(f, x, rest, batch, known, broken)
  BY <1>7, <1>8, <1>11, <1>13 DEF WriterSound, ahead
<1>15. QED  BY <1>14 DEF rest, new, keys

LEMMA SplitSound ==
    ASSUME NEW S, NEW x \in Seq(Pieces(S)), NEW rest \in Seq(Pieces(S)), NEW f,
           NEW batch, NEW known, NEW broken, WriterSound(f, x, rest, batch, known, broken),
           NEW n \in 1..(Len(rest) - 1)
    PROVE  /\ NoneTwice(f, x \o SubSeq(rest, 1, n)) /\ RestsFollow(x \o SubSeq(rest, 1, n))
           /\ WriterSound(f, x \o SubSeq(rest, 1, n), SubSeq(rest, n + 1, Len(rest)),
                          batch, known, broken)
<1> DEFINE y == x \o SubSeq(rest, 1, n)
           z == SubSeq(rest, n + 1, Len(rest))
           ahead == x \o rest
<1>1. Len(x) \in Nat /\ Len(rest) \in Nat /\ n \in Nat /\ n < Len(rest) /\ n > 0  OBVIOUS
<1>2. CutInTwo(x, rest, n, y, z, ahead, Pieces(S))  BY CutFacts
<1> HIDE DEF y, z, ahead
<1>3. z \in Seq(Pieces(S)) /\ Len(z) = Len(rest) - n /\ \A i \in 1..Len(z) : z[i] = rest[n + i]
  BY <1>2 DEF CutInTwo
<1>4. /\ y \in Seq(Pieces(S)) /\ Len(y) = Len(x) + n
      /\ \A i \in 1..Len(x) : y[i] = x[i]
      /\ \A i \in 1..n : y[Len(x) + i] = rest[i]
  BY <1>2 DEF CutInTwo
<1>5. /\ ahead \in Seq(Pieces(S)) /\ Len(ahead) = Len(x) + Len(rest)
      /\ \A i \in 1..Len(x) : ahead[i] = x[i]
      /\ \A i \in 1..Len(rest) : ahead[Len(x) + i] = rest[i]
  BY <1>2 DEF CutInTwo
<1>6. y \o z = ahead  BY <1>2 DEF CutInTwo
<1>7. Begins(x, y)  BY <1>1, <1>4 DEF Begins
<1>8. Begins(y, ahead)
  <2>1. Len(y) <= Len(ahead)  BY <1>1, <1>4, <1>5
  <2>2. ASSUME NEW i \in 1..Len(y) PROVE y[i] = ahead[i]
    <3>1. CASE i <= Len(x)
      <4>1. i \in 1..Len(x)  BY <3>1, <1>1, <1>4
      <4>2. QED  BY <4>1, <1>4, <1>5
    <3>2. CASE i > Len(x)
      <4>1. i - Len(x) \in 1..n /\ Len(x) + (i - Len(x)) = i  BY <3>2, <1>1, <1>4
      <4>2. i - Len(x) \in 1..Len(rest)  BY <4>1, <1>1
      <4>3. QED  BY <4>1, <4>2, <1>4, <1>5
    <3>3. QED  BY <3>1, <3>2, <1>1, <1>4
  <2>3. QED  BY <2>1, <2>2 DEF Begins
<1>9. NoneTwice(f, ahead) /\ RestsFollow(ahead) /\ RestsEnd(rest) /\ Accounted(f, x, ahead, known, broken)
  BY DEF WriterSound, ahead
<1>10. RestsFollow(y)  BY <1>4, <1>5, <1>8, <1>9, BeginsFollow
<1>11. NoneTwice(f, y)
  <2>0. Len(y) = Len(x) + n  BY <1>4
  <2>1. Len(y) + 1 = Len(x) + (n + 1) /\ n + 1 \in 1..Len(rest) /\ n \in 1..Len(rest) /\ n \in 1..n
    BY <1>1, <2>0
  <2>2. y[Len(y)] = rest[n] /\ ahead[Len(y) + 1] = rest[n + 1]  BY <2>0, <2>1, <1>4, <1>5
  <2>3. y[Len(y)].part = "rest" => ahead[Len(y) + 1].part = "end"
    BY <2>1, <2>2, <1>9 DEF RestsEnd
  <2>4. y \in Seq(Pieces(S)) /\ ahead \in Seq(Pieces(S))  BY <1>4, <1>5
  <2>5. QED  BY <2>3, <2>4, <1>8, <1>9, ReadableAhead
<1>12. RestsEnd(z)
  <2> SUFFICES ASSUME NEW i \in 1..Len(z), z[i].part = "rest"
               PROVE  i < Len(z) /\ z[i + 1].part = "end"
    BY DEF RestsEnd
  <2>1. n + i \in 1..Len(rest) /\ rest[n + i].part = "rest"  BY <1>1, <1>3
  <2>2. n + i < Len(rest) /\ rest[n + i + 1].part = "end"  BY <2>1, <1>9, Zenon DEF RestsEnd
  <2>3. i + 1 \in 1..Len(z) /\ n + (i + 1) = n + i + 1  BY <2>2, <1>1, <1>3
  <2>4. z[i + 1] = rest[n + (i + 1)]  BY <2>3, <1>3
  <2>5. i < Len(z)  BY <2>3, <1>3, <1>1
  <2>6. QED  BY <2>2, <2>3, <2>4, <2>5
<1>13. Accounted(f, y, ahead, known, broken)
  <2>1. y \in Seq(Pieces(S)) /\ ahead \in Seq(Pieces(S))  BY <1>4, <1>5
  <2>2. QED  BY <2>1, <1>7, <1>8, <1>9, AccountedGrows
<1>14. WriterSound(f, y, z, batch, known, broken)
  BY <1>6, <1>9, <1>12, <1>13 DEF WriterSound, ahead
<1>15. QED  BY <1>10, <1>11, <1>14 DEF y, z

LEMMA CloseSound ==
    ASSUME NEW S, NEW x \in Seq(Pieces(S)), NEW rest \in Seq(Pieces(S)), NEW f,
           NEW T, NEW batch \in Seq(T), NEW known, NEW broken,
           WriterSound(f, x, rest, batch, known, broken)
    PROVE  /\ NoneTwice(f, x \o rest) /\ RestsFollow(x \o rest)
           /\ Accounted(f, x \o rest, x \o rest, known \cup (ToSet(Keys(f, batch)) \ {None}), broken)
<1> DEFINE ahead == x \o rest
<1>1. ahead \in Seq(Pieces(S)) /\ Begins(x, ahead) /\ Begins(ahead, ahead)
  <2>1. /\ ahead \in Seq(Pieces(S)) /\ Len(ahead) = Len(x) + Len(rest)
        /\ \A i \in 1..Len(x) : ahead[i] = x[i]
    BY Joined
  <2>2. Len(x) \in Nat /\ Len(rest) \in Nat  OBVIOUS
  <2> HIDE DEF ahead
  <2>3. Begins(x, ahead) /\ Begins(ahead, ahead)  BY <2>1, <2>2 DEF Begins
  <2>4. QED  BY <2>1, <2>3
<1>2. NoneTwice(f, ahead) /\ RestsFollow(ahead) /\ Accounted(f, x, ahead, known, broken)
  BY DEF WriterSound
<1>3. \A i \in 1..Len(batch) : Key(f, batch[i]) \in {None} \cup KnownIn(f, ahead)
                                                          \cup Beside(f, ahead, Len(ahead))
  BY DEF WriterSound
<1> HIDE DEF ahead
<1>4. Accounted(f, ahead, ahead, known, broken)  BY <1>1, <1>2, AccountedGrows
<1>5. ASSUME NEW v \in ToSet(Keys(f, batch)), v # None
      PROVE  v \in KnownIn(f, ahead) \cup Beside(f, ahead, Len(ahead))
  <2>0. DOMAIN batch = 1..Len(batch)  OBVIOUS
  <2>1. PICK i \in 1..Len(batch) : v = Key(f, batch[i])  BY <2>0 DEF ToSet, Keys
  <2>2. QED  BY <2>1, <1>3, <1>5
<1>6. QED  BY <1>2, <1>4, <1>5 DEF Accounted, ahead

LEMMA StopSound ==
    ASSUME NEW S, NEW x \in Seq(Pieces(S)), NEW rest \in Seq(Pieces(S)), NEW f,
           NEW batch, NEW known, NEW broken \in Nat, WriterSound(f, x, rest, batch, known, broken)
    PROVE  Accounted(f, x, x, known,
                     IF x # <<>> /\ Last(x).part # "end" THEN broken + 1 ELSE broken)
<1> DEFINE ahead == x \o rest
           B == Breaks(x)
           A == Breaks(ahead)
<1>1. ahead \in Seq(Pieces(S)) /\ Begins(x, ahead)
  <2>1. /\ ahead \in Seq(Pieces(S)) /\ Len(ahead) = Len(x) + Len(rest)
        /\ \A i \in 1..Len(x) : ahead[i] = x[i]
    BY Joined
  <2>2. Len(x) \in Nat /\ Len(rest) \in Nat  OBVIOUS
  <2> HIDE DEF ahead
  <2>3. Begins(x, ahead)  BY <2>1, <2>2 DEF Begins
  <2>4. QED  BY <2>1, <2>3
<1>2. Accounted(f, x, ahead, known, broken)  BY DEF WriterSound
<1> HIDE DEF ahead
<1>3. /\ B \subseteq A \cup {Len(x) + 1}
      /\ Len(x) + 1 \in B <=> Len(x) > 0 /\ x[Len(x)].part # "end"
      /\ Beside(f, ahead, Len(x)) \subseteq Beside(f, x, Len(x))
  BY <1>1, BreaksOfBeginning
<1>4. known \subseteq KnownIn(f, x) \cup Beside(f, x, Len(x))  BY <1>2, <1>3 DEF Accounted
<1>5. /\ IsFiniteSet(A) /\ Cardinality(A) \in Nat /\ Cardinality(A) <= broken
      /\ IsFiniteSet(B) /\ Cardinality(B) \in Nat
  BY <1>1, <1>2, BreaksFinite DEF Accounted
<1>6. x # <<>> <=> Len(x) > 0
  <2>1. x = <<>> => Len(x) = 0  OBVIOUS
  <2>2. Len(x) \in Nat /\ (Len(x) = 0 => x = <<>>)  BY EmptySeq
  <2>3. QED  BY <2>1, <2>2
<1> HIDE DEF A, B
<1>7. CASE Len(x) + 1 \in B
  <2>a. /\ IsFiniteSet(A \cup {Len(x) + 1})
        /\ Cardinality(A \cup {Len(x) + 1}) =
             IF Len(x) + 1 \in A THEN Cardinality(A) ELSE Cardinality(A) + 1
    BY <1>5, FS_AddElement
  <2>1. Cardinality(A \cup {Len(x) + 1}) <= Cardinality(A) + 1 /\ IsFiniteSet(A \cup {Len(x) + 1})
    BY <1>5, <2>a
  <2>2. Cardinality(B) <= Cardinality(A \cup {Len(x) + 1})
    BY <2>1, <1>3, FS_Subset
  <2>3. Cardinality(A \cup {Len(x) + 1}) \in Nat  BY <2>1, FS_CardinalityType
  <2>4. Cardinality(B) <= broken + 1  BY <2>1, <2>2, <2>3, <1>5
  <2>5. x # <<>> /\ Last(x).part # "end"  BY <1>3, <1>6, <1>7 DEF Last
  <2>6. QED  BY <2>4, <2>5, <1>4 DEF Accounted, B
<1>8. CASE Len(x) + 1 \notin B
  <2>1. B \in SUBSET A  BY <1>3, <1>8
  <2>2. Cardinality(B) <= Cardinality(A)  BY <2>1, <1>5, FS_Subset
  <2>3. Cardinality(B) <= broken  BY <2>2, <1>5
  <2>4. ~(x # <<>> /\ Last(x).part # "end")  BY <1>3, <1>6, <1>8 DEF Last
  <2>5. QED  BY <2>3, <2>4, <1>4 DEF Accounted, B
<1>9. QED  BY <1>7, <1>8

-----------------------------------------------------------------------------
(* Types.                                                                  *)

Phases == {"start", "fetch", "save", "process", "load", "append", "done", "failed"}
Batches == {b \in [Files -> UNION {Seq(Stored(f)) : f \in Files}] : \A f \in Files : b[f] \in Seq(Stored(f))}
RunFields == [pc : Phases, of : Collections \cup {None}, attempt : Nat, news : Seq(Articles),
              batch : Batches, pending : UNION {TextType(f) : f \in Files}, into : Files]
RunType == {x \in RunFields : /\ x.pending \in TextType(x.into)
                              /\ x.pc \in {"fetch", "save", "process"} => x.of \in Collections}
KeySpace == UNION {{Key(f, record) : record \in Stored(f)} : f \in Files}

TypeOK ==
    /\ responses \in [DOMAIN Tags -> Seq(Articles) \cup {None}]
    /\ file \in [Files -> UNION {TextType(f) : f \in Files}]
    /\ \A f \in Files : file[f] \in TextType(f)
    /\ run \in [Runs -> RunType]
    /\ claimed \in [Files -> SUBSET KeySpace]
    /\ overlapped \subseteq Files
    /\ torn \in [Files -> Nat]
    /\ stops \in Nat /\ splits \in Nat

LEMMA NewRunTyped == NewRun \in RunType /\ [NewRun EXCEPT !.pc = "failed"] \in RunType
                     /\ [NewRun EXCEPT !.pc = "done"] \in RunType
<1>1. NoBatch \in Batches
  <2>1. \A f \in Files : <<>> \in Seq(Stored(f))  OBVIOUS
  <2>2. NoBatch \in [Files -> UNION {Seq(Stored(f)) : f \in Files}]  BY <2>1 DEF NoBatch
  <2>3. \A f \in Files : NoBatch[f] \in Seq(Stored(f))  BY <2>1 DEF NoBatch
  <2>4. QED  BY <2>2, <2>3 DEF Batches
<1>2. "features" \in Files /\ <<>> \in TextType("features") /\ <<>> \in Seq(Articles)
  BY DEF Files, TextType
<1> HIDE DEF NoBatch
<1>3. QED  BY <1>1, <1>2 DEF NewRun, RunType, RunFields, Phases

\* What the tasks between the fetch and the stores make of a response.
LEMMA BatchFacts ==
    ASSUME NEW c \in Collections, NEW news \in Seq(Articles)
    PROVE  /\ Deduped(c, Filtered(c, news)) \in Seq(Articles)
           /\ ArticleRecords(c, news) \in Seq(Records)
           /\ ToSet(ArticleRecords(c, news)) =
                {[article |-> a, query |-> c.query, topics |-> TopicsOf(c, a)] : a \in ToSet(news)}
<1> DEFINE places == {i \in DOMAIN news : c.language \in {None, Kind[news[i]].language}}
           kept == Filtered(c, news)
           record(a) == [article |-> a, query |-> c.query, topics |-> TopicsOf(c, a)]
<1>1. kept \in Seq(Articles)
  <2>1. places \subseteq DOMAIN news  OBVIOUS
  <2>2. kept = Picked(news, places)  BY DEF Filtered
  <2> HIDE DEF places, kept
  <2>3. Picked(news, places) \in Seq(Articles)  BY <2>1, PickedFacts
  <2>4. QED  BY <2>2, <2>3
<1> HIDE DEF kept
<1>2. Deduped(c, kept) \in Seq(Articles)
  <2> DEFINE keys == [i \in DOMAIN kept |-> DedupeKey(c.strategy, kept[i])]
  <2>1. Deduped(c, kept) = FirstByKey(kept, keys, {})  BY DEF Deduped
  <2> HIDE DEF keys
  <2>2. FirstByKey(kept, keys, {}) \in Seq(Articles)  BY <1>1, FirstByKeyFacts
  <2>3. QED  BY <2>1, <2>2
<1>3. \A a \in Articles : record(a) \in Records
  <2>1. c.query \in DOMAIN Tags  BY CollectionAssumption
  <2>2. \A a \in Articles : TopicsOf(c, a) \in Seq(Int)  BY DatesAndTopics
  <2>3. QED  BY <2>1, <2>2 DEF Records
<1>4. DOMAIN news = 1..Len(news) /\ Len(news) \in Nat /\ \A i \in 1..Len(news) : news[i] \in Articles
  OBVIOUS
<1>5. ArticleRecords(c, news) = [i \in 1..Len(news) |-> record(news[i])]
  BY <1>4 DEF ArticleRecords
<1> DEFINE entries == ArticleRecords(c, news)
<1> HIDE DEF record, entries
<1>6. entries \in Seq(Records) /\ Len(entries) = Len(news)
  <2>1. \A i \in 1..Len(news) : record(news[i]) \in Records  BY <1>3, <1>4
  <2>2. QED  BY <2>1, <1>4, <1>5 DEF entries
<1>7. ToSet(entries) = {record(a) : a \in ToSet(news)}
  <2>1. \A x : x \in ToSet(entries) <=> \E i \in 1..Len(entries) : entries[i] = x  BY <1>6, ToSetFacts
  <2>2. \A x : x \in ToSet(news) <=> \E i \in 1..Len(news) : news[i] = x  BY ToSetFacts
  <2>3. \A i \in 1..Len(news) : entries[i] = record(news[i])  BY <1>5 DEF entries
  <2>4. QED  BY <2>1, <2>2, <2>3, <1>6
<1>8. QED  BY <1>2, <1>6, <1>7 DEF kept, record, entries

LEMMA TypeInitial == Init => TypeOK
<1> SUFFICES ASSUME Init PROVE TypeOK  OBVIOUS
<1>1. \A f \in Files : <<>> \in TextType(f)  BY DEF TextType
<1>2. \A f \in Files : {} \in SUBSET KeySpace  OBVIOUS
<1> HIDE DEF KeySpace, TextType
<1>3. QED  BY <1>1, <1>2, NewRunTyped DEF Init, TypeOK

LEMMA TypeStep == TypeOK /\ [Next]_vars => TypeOK'
<1> SUFFICES ASSUME TypeOK, [Next]_vars PROVE TypeOK'  OBVIOUS
<1> USE DEF TypeOK
<1>1. ASSUME NEW r \in Runs, NEW new \in RunType, Set(r, new) PROVE run' \in [Runs -> RunType]
  BY <1>1 DEF Set
<1>2. \A r \in Runs : run[r] \in RunType  OBVIOUS
<1>3. ASSUME NEW r \in Runs, Start(r) PROVE TypeOK'
  <2>1. PICK c \in Collections :
          Set(r, IF responses[c.query] = None
                 THEN [run[r] EXCEPT !.pc = "fetch", !.of = c, !.attempt = 1]
                 ELSE [run[r] EXCEPT !.pc = "process", !.of = c, !.news = responses[c.query]])
    BY <1>3 DEF Start
  <2>2. responses[c.query] = None \/ responses[c.query] \in Seq(Articles)
    BY CollectionAssumption
  <2>3. run' \in [Runs -> RunType]
    <3>1. run[r] \in RunType  OBVIOUS
    <3>2. CASE responses[c.query] = None
      <4>1. [run[r] EXCEPT !.pc = "fetch", !.of = c, !.attempt = 1] \in RunType
        BY <3>1 DEF RunType, RunFields, Phases
      <4>2. QED  BY <2>1, <3>2, <4>1, <1>1
    <3>3. CASE responses[c.query] # None
      <4>1. [run[r] EXCEPT !.pc = "process", !.of = c, !.news = responses[c.query]] \in RunType
        BY <2>2, <3>1, <3>3 DEF RunType, RunFields, Phases
      <4>2. QED  BY <2>1, <3>3, <4>1, <1>1
    <3>4. QED  BY <3>2, <3>3
  <2>4. QED  BY <2>3, <1>3 DEF Start, stores, bounds, history
<1>4. ASSUME NEW r \in Runs, Retry(r) PROVE TypeOK'
  <2>1. [run[r] EXCEPT !.attempt = @ + 1] \in RunType
    <3>1. run[r] \in RunType  OBVIOUS
    <3> HIDE DEF TypeOK
    <3>2. run[r].attempt + 1 \in Nat  BY <3>1 DEF RunType, RunFields
    <3>3. QED  BY <3>1, <3>2 DEF RunType, RunFields
  <2>2. QED  BY <2>1, <1>1, <1>4 DEF Retry, stores, bounds, history
<1>5. ASSUME NEW r \in Runs, FetchFails(r) \/ LoadFails(r) PROVE TypeOK'
  BY <1>1, <1>5, NewRunTyped DEF FetchFails, LoadFails, Failed, stores, bounds, history
<1>6. ASSUME NEW r \in Runs, Fetch(r) PROVE TypeOK'
  <2>1. run[r].pc = "fetch" /\ run[r].of \in Collections  BY <1>2, <1>6 DEF Fetch, RunType
  <2>2. PICK news \in Answers[run[r].of.query] :
          Set(r, [run[r] EXCEPT !.pc = "save", !.attempt = 0, !.news = news])
    BY <1>6 DEF Fetch
  <2>3. news \in Seq(Articles)  BY <2>1, CollectionAssumption
  <2>4. [run[r] EXCEPT !.pc = "save", !.attempt = 0, !.news = news] \in RunType
    BY <2>1, <2>3, <1>2 DEF RunType, RunFields, Phases
  <2>5. QED  BY <2>2, <2>4, <1>1, <1>6 DEF Fetch, stores, bounds, history
<1>7. ASSUME NEW r \in Runs, Save(r) PROVE TypeOK'
  <2>1. [run[r] EXCEPT !.pc = "process"] \in RunType /\ run[r].news \in Seq(Articles)
    BY <1>2, <1>7 DEF Save, RunType, RunFields, Phases
  <2>2. responses' \in [DOMAIN Tags -> Seq(Articles) \cup {None}]  BY <2>1, <1>7 DEF Save
  <2>3. QED  BY <2>1, <2>2, <1>1, <1>7 DEF Save, stores, bounds, history
<1>8. ASSUME NEW r \in Runs, Process(r) PROVE TypeOK'
  <2> DEFINE c == run[r].of
             news == Deduped(c, Filtered(c, run[r].news))
             featured == FeatureRows(c, news)
             entries == ArticleRecords(c, news)
             made == [f \in Files |-> IF f = "features" THEN featured ELSE entries]
  <2>1. c \in Collections /\ run[r].news \in Seq(Articles)
    BY <1>2, <1>8 DEF Process, RunType, RunFields
  <2>2. Set(r, [run[r] EXCEPT !.pc = "load", !.news = <<>>, !.batch = made])
    BY <1>8 DEF Process
  <2> HIDE DEF c
  <2>3. news \in Seq(Articles)  BY <2>1, BatchFacts
  <2> HIDE DEF news
  <2>4. featured \in Seq(Rows)  BY <2>1, <2>3, RowsFacts
  <2>5. entries \in Seq(Records)  BY <2>1, <2>3, BatchFacts
  <2> HIDE DEF featured, entries
  <2>6. made \in Batches  BY <2>4, <2>5 DEF Batches, Stored, Files
  <2> HIDE DEF made
  <2>7. <<>> \in Seq(Articles)  OBVIOUS
  <2>8. [run[r] EXCEPT !.pc = "load", !.news = <<>>, !.batch = made] \in RunType
    BY <2>6, <2>7, <1>2 DEF RunType, RunFields, Phases
  <2>9. QED  BY <2>2, <2>8, <1>1, <1>8 DEF Process, stores, bounds, history
<1>9. ASSUME NEW r \in Runs, Load(r) PROVE TypeOK'
  <2> DEFINE f == run[r].into
             keys == Keys(f, run[r].batch[f])
             new == FirstByKey(run[r].batch[f], keys, KnownKeys(f))
             rest == Texts(new)
  <2>1. f \in Files /\ run[r].batch[f] \in Seq(Stored(f))
    BY <1>2 DEF RunType, RunFields, Batches
  <2>2. Set(r, [run[r] EXCEPT !.pc = "append", !.pending = rest])  BY <1>9 DEF Load
  <2>3. overlapped' \subseteq Files  BY <2>1, <1>9 DEF Load
  <2>4. new \in Seq(Stored(f))
    <3> HIDE DEF f, keys
    <3>1. QED  BY <2>1, FirstByKeyFacts
  <2> HIDE DEF new
  <2>5. rest \in TextType(f)
    <3> HIDE DEF f
    <3>1. QED  BY <2>4, TextsFacts DEF TextType
  <2> HIDE DEF rest
  <2>6. [run[r] EXCEPT !.pc = "append", !.pending = rest] \in RunType
    <3>1. run[r] \in RunType  OBVIOUS
    <3> HIDE DEF TypeOK
    <3>2. QED  BY <2>1, <2>5, <3>1 DEF RunType, RunFields, Phases
  <2>7. QED  BY <2>2, <2>3, <2>6, <1>1, <1>9 DEF Load, bounds
<1>10. ASSUME NEW r \in Runs, Split(r) PROVE TypeOK'
  <2> DEFINE f == run[r].into
             rest == run[r].pending
             P == Pieces(Stored(f) \cup {None})
  <2>1. f \in Files /\ rest \in Seq(P) /\ file[f] \in Seq(P)
    BY <1>2 DEF RunType, RunFields, TextType
  <2>2. PICK n \in 1..(Len(rest) - 1) :
          /\ file' = [file EXCEPT ![f] = @ \o SubSeq(rest, 1, n)]
          /\ Set(r, [run[r] EXCEPT !.pending = SubSeq(@, n + 1, Len(@))])
    BY <1>10 DEF Split
  <2>3. /\ file[f] \o SubSeq(rest, 1, n) \in TextType(f)
        /\ SubSeq(rest, n + 1, Len(rest)) \in TextType(f)
    <3> DEFINE x == file[f]
               y == x \o SubSeq(rest, 1, n)
               z == SubSeq(rest, n + 1, Len(rest))
               ahead == x \o rest
    <3> HIDE DEF x, f, rest
    <3>1. CutInTwo(x, rest, n, y, z, ahead, P)  BY <2>1, CutFacts DEF x
    <3> HIDE DEF y, z, ahead
    <3>2. y \in Seq(P) /\ z \in Seq(P)  BY <3>1 DEF CutInTwo
    <3>3. QED  BY <3>2 DEF TextType, x, y, z
  <2>4. [run[r] EXCEPT !.pending = SubSeq(@, n + 1, Len(@))] \in RunType
    <3>1. run[r] \in RunType  OBVIOUS
    <3> HIDE DEF TypeOK
    <3>2. QED  BY <2>1, <2>3, <3>1 DEF RunType, RunFields
  <2>5. /\ file' \in [Files -> UNION {TextType(g) : g \in Files}]
        /\ \A g \in Files : file'[g] \in TextType(g)
    <3> HIDE DEF f
    <3>1. QED  BY <2>1, <2>2, <2>3
  <2>6. run' \in [Runs -> RunType]  BY <2>2, <2>4, <1>1
  <2> HIDE DEF f, rest
  <2>7. splits' \in Nat  BY <1>10 DEF Split
  <2>8. UNCHANGED <<responses, claimed, overlapped, torn, stops>>  BY <1>10 DEF Split, history
  <2>9. QED  BY <2>5, <2>6, <2>7, <2>8
<1>11. ASSUME NEW r \in Runs, Close(r) PROVE TypeOK'
  <2> DEFINE f == run[r].into
             rest == run[r].pending
             batch == run[r].batch[f]
             P == Pieces(Stored(f) \cup {None})
  <2>1. f \in Files /\ rest \in Seq(P) /\ file[f] \in Seq(P) /\ batch \in Seq(Stored(f))
    BY <1>2 DEF RunType, RunFields, TextType, Batches
  <2>2. /\ file' = [file EXCEPT ![f] = @ \o rest]
        /\ claimed' = [claimed EXCEPT ![f] = @ \cup (ToSet(Keys(f, batch)) \ {None})]
        /\ Set(r, IF f = "features"
                  THEN [run[r] EXCEPT !.pc = "load", !.into = "articles", !.pending = <<>>]
                  ELSE [NewRun EXCEPT !.pc = "done"])
    BY <1>11 DEF Close
  <2>3. file[f] \o rest \in TextType(f)  BY <2>1 DEF TextType
  <2>4. /\ file' \in [Files -> UNION {TextType(g) : g \in Files}]
        /\ \A g \in Files : file'[g] \in TextType(g)
    <3> HIDE DEF f, rest
    <3>1. QED  BY <2>1, <2>2, <2>3
  <2>5. claimed' \in [Files -> SUBSET KeySpace]
    <3>1. ToSet(Keys(f, batch)) \subseteq KeySpace
      <4>1. \A i \in DOMAIN batch : batch[i] \in Stored(f)  BY <2>1
      <4> HIDE DEF f, batch
      <4>2. QED  BY <4>1, <2>1 DEF ToSet, Keys, KeySpace
    <3> HIDE DEF f, batch
    <3>2. QED  BY <2>1, <2>2, <3>1
  <2>6. run' \in [Runs -> RunType]
    <3>1. run[r] \in RunType /\ <<>> \in TextType("articles") /\ "articles" \in Files
      BY DEF TextType, Files
    <3>2. [run[r] EXCEPT !.pc = "load", !.into = "articles", !.pending = <<>>] \in RunType
      BY <3>1 DEF RunType, RunFields, Phases
    <3> HIDE DEF f
    <3>3. QED  BY <2>2, <3>2, <1>1, NewRunTyped
  <2>7. QED  BY <2>4, <2>5, <2>6, <1>11 DEF Close, bounds
<1>12. ASSUME NEW r \in Runs, Stop(r) PROVE TypeOK'
  <2>1. run[r].into \in Files  BY <1>2 DEF RunType, RunFields
  <2>2. stops' \in Nat  BY <1>12 DEF Stop
  <2>a. torn' \in [Files -> Nat]
    <3>1. torn' = torn \/ torn' = [torn EXCEPT ![run[r].into] = @ + 1]  BY <1>12 DEF Stop
    <3>2. torn \in [Files -> Nat]  OBVIOUS
    <3> HIDE DEF TypeOK
    <3>3. torn[run[r].into] + 1 \in Nat  BY <2>1, <3>2
    <3>4. QED  BY <2>1, <3>1, <3>2, <3>3
  <2>3. run' \in [Runs -> RunType]  BY <1>1, <1>12, NewRunTyped DEF Stop, Failed
  <2>4. QED  BY <2>2, <2>a, <2>3, <1>12 DEF Stop
<1>13. CASE UNCHANGED vars  BY <1>13 DEF vars
<1>14. QED
  BY <1>3, <1>4, <1>5, <1>6, <1>7, <1>8, <1>9, <1>10, <1>11, <1>12, <1>13 DEF Next, RunStep

\* Every variable of the collection pipelines has its type: the runs, the cached responses and
\* the text of the two stores.
THEOREM CollectionTyped == Spec => []TypeOK
<1>1. TypeOK /\ [Next]_vars => TypeOK'  BY TypeStep
<1>2. QED  BY <1>1, TypeInitial, PTL DEF Spec

-----------------------------------------------------------------------------
(* The stores, as long as two runs do not work on one file at a time.      *)

Writes(x, f) == x.pc = "append" /\ x.into = f

OneWriter ==
    \A f \in Files \ overlapped : \A r, s \in Runs :
        Writes(run[r], f) /\ Writes(run[s], f) => r = s
NoRepeats == \A f \in Files \ overlapped : NoneTwice(f, file[f]) /\ RestsFollow(file[f])
AtRest ==
    \A f \in Files \ overlapped :
        (\A r \in Runs : ~Writes(run[r], f)) =>
            Accounted(f, file[f], file[f], claimed[f], torn[f])
Writing ==
    \A f \in Files \ overlapped : \A r \in Runs :
        Writes(run[r], f) =>
            WriterSound(f, file[f], run[r].pending, run[r].batch[f], claimed[f], torn[f])

StoreInv == OneWriter /\ NoRepeats /\ AtRest /\ Writing

LEMMA StoreInitial == Init => StoreInv
<1> SUFFICES ASSUME Init PROVE StoreInv  OBVIOUS
<1>1. /\ \A r \in Runs : run[r].pc = "start"
      /\ \A f \in Files : file[f] = <<>> /\ claimed[f] = {} /\ torn[f] = 0
  BY DEF Init, NewRun
<1>2. \A f \in Files : \A r \in Runs : ~Writes(run[r], f)  BY <1>1 DEF Writes
<1>3. Readable(<<>>) = {}
  <2>1. 1..(Len(<<>>) - 1) = {}  OBVIOUS
  <2>2. QED  BY <2>1 DEF Readable
<1>4. \A f : NoneTwice(f, <<>>) /\ RestsFollow(<<>>)
  <2>1. 1..Len(<<>>) = {}  OBVIOUS
  <2>2. QED  BY <2>1, <1>3 DEF NoneTwice, RestsFollow
<1>5. \A f : Accounted(f, <<>>, <<>>, {}, 0)
  <2>1. 2..(Len(<<>>) + 1) = {}  OBVIOUS
  <2>2. Breaks(<<>>) = {}  BY <2>1 DEF Breaks
  <2>3. Cardinality({}) = 0  BY FS_EmptySet
  <2>4. QED  BY <2>2, <2>3 DEF Accounted
<1>6. QED  BY <1>1, <1>2, <1>4, <1>5 DEF StoreInv, OneWriter, NoRepeats, AtRest, Writing

\* A step of a run that has no file open, and opens none.
LEMMA QuietKeeps ==
    ASSUME TypeOK, StoreInv, NEW r \in Runs, NEW new, Set(r, new),
           run[r].pc # "append", new.pc # "append", UNCHANGED <<file, claimed, overlapped, torn>>
    PROVE  StoreInv'
<1>1. \A s \in Runs : run'[s] = IF s = r THEN new ELSE run[s]  BY DEF Set, TypeOK
<1>2. \A s \in Runs : \A f \in Files : Writes(run'[s], f) <=> s # r /\ Writes(run[s], f)
  BY <1>1 DEF Writes
<1>3. \A s \in Runs : \A f \in Files : Writes(run[s], f) => s # r /\ run'[s] = run[s]
  BY <1>1 DEF Writes
<1>4. OneWriter'  BY <1>2 DEF OneWriter, StoreInv
<1>5. NoRepeats'  BY DEF NoRepeats, StoreInv
<1>6. AtRest'  BY <1>2, <1>3 DEF AtRest, StoreInv
<1>7. Writing'
  <2> SUFFICES ASSUME NEW f \in Files \ overlapped', NEW s \in Runs, Writes(run'[s], f)
               PROVE  WriterSound(f, file'[f], run'[s].pending, run'[s].batch[f], claimed'[f], torn'[f])
    BY DEF Writing
  <2>1. Writes(run[s], f) /\ run'[s] = run[s]  BY <1>2, <1>3
  <2>2. QED  BY <2>1 DEF Writing, StoreInv
<1>8. QED  BY <1>4, <1>5, <1>6, <1>7 DEF StoreInv

\* A step of the run that works on a file: it is enough to look at that file.
LEMMA WriterKeeps ==
    ASSUME TypeOK, StoreInv, NEW r \in Runs, NEW f \in Files, NEW new, Set(r, new),
           run[r].pc \in {"load", "append"}, run[r].into = f, new.pc = "append" => new.into = f,
           overlapped \subseteq overlapped',
           \A g \in Files \ {f} : file'[g] = file[g] /\ claimed'[g] = claimed[g] /\ torn'[g] = torn[g],
           f \notin overlapped' =>
              /\ \A s \in Runs \ {r} : ~Writes(run[s], f)
              /\ NoneTwice(f, file'[f]) /\ RestsFollow(file'[f])
              /\ new.pc # "append" => Accounted(f, file'[f], file'[f], claimed'[f], torn'[f])
              /\ new.pc = "append" =>
                    WriterSound(f, file'[f], new.pending, new.batch[f], claimed'[f], torn'[f])
    PROVE  StoreInv'
<1>1. run'[r] = new /\ \A s \in Runs \ {r} : run'[s] = run[s]  BY DEF Set, TypeOK
<1>2. ASSUME NEW g \in Files \ {f}, NEW s \in Runs
      PROVE  /\ Writes(run'[s], g) <=> Writes(run[s], g)
             /\ Writes(run[s], g) => run'[s] = run[s]
  <2>1. CASE s = r  BY <2>1, <1>1 DEF Writes
  <2>2. CASE s # r  BY <2>2, <1>1
  <2>3. QED  BY <2>1, <2>2
<1>3. f \notin overlapped' => \A s \in Runs : Writes(run'[s], f) => s = r  BY <1>1
<1>4. Writes(run'[r], f) <=> new.pc = "append"  BY <1>1 DEF Writes
<1>5. OneWriter'
  <2> SUFFICES ASSUME NEW g \in Files \ overlapped', NEW s \in Runs, NEW t \in Runs,
                      Writes(run'[s], g), Writes(run'[t], g)
               PROVE  s = t
    BY DEF OneWriter
  <2>1. CASE g = f  BY <2>1, <1>3
  <2>2. CASE g # f
    <3>1. g \in Files \ {f} /\ g \in Files \ overlapped  BY <2>2
    <3>2. QED  BY <3>1, <1>2 DEF OneWriter, StoreInv
  <2>3. QED  BY <2>1, <2>2
<1>6. NoRepeats'
  <2> SUFFICES ASSUME NEW g \in Files \ overlapped'
               PROVE  NoneTwice(g, file'[g]) /\ RestsFollow(file'[g])
    BY DEF NoRepeats
  <2>1. CASE g = f  BY <2>1
  <2>2. CASE g # f
    <3>1. g \in Files \ overlapped /\ file'[g] = file[g]  BY <2>2
    <3>2. QED  BY <3>1 DEF NoRepeats, StoreInv
  <2>3. QED  BY <2>1, <2>2
<1>7. AtRest'
  <2> SUFFICES ASSUME NEW g \in Files \ overlapped', \A s \in Runs : ~Writes(run'[s], g)
               PROVE  Accounted(g, file'[g], file'[g], claimed'[g], torn'[g])
    BY DEF AtRest
  <2>1. CASE g = f  BY <2>1, <1>4
  <2>2. CASE g # f
    <3>1. /\ g \in Files \ overlapped /\ file'[g] = file[g] /\ claimed'[g] = claimed[g]
          /\ torn'[g] = torn[g] /\ g \in Files \ {f}
      BY <2>2
    <3>2. \A s \in Runs : ~Writes(run[s], g)  BY <3>1, <1>2
    <3>3. Accounted(g, file[g], file[g], claimed[g], torn[g])  BY <3>1, <3>2 DEF AtRest, StoreInv
    <3>4. QED  BY <3>1, <3>3
  <2>3. QED  BY <2>1, <2>2
<1>8. Writing'
  <2> SUFFICES ASSUME NEW g \in Files \ overlapped', NEW s \in Runs, Writes(run'[s], g)
               PROVE  WriterSound(g, file'[g], run'[s].pending, run'[s].batch[g], claimed'[g], torn'[g])
    BY DEF Writing
  <2>1. CASE g = f
    <3>1. s = r /\ new.pc = "append" /\ run'[s] = new  BY <2>1, <1>1, <1>3, <1>4
    <3>2. WriterSound(f, file'[f], new.pending, new.batch[f], claimed'[f], torn'[f])
      BY <2>1, <3>1
    <3>3. QED  BY <2>1, <3>1, <3>2
  <2>2. CASE g # f
    <3>1. /\ g \in Files \ overlapped /\ file'[g] = file[g] /\ claimed'[g] = claimed[g]
          /\ torn'[g] = torn[g] /\ g \in Files \ {f}
      BY <2>2
    <3>2. Writes(run[s], g) /\ run'[s] = run[s]  BY <3>1, <1>2
    <3>3. WriterSound(g, file[g], run[s].pending, run[s].batch[g], claimed[g], torn[g])
      BY <3>1, <3>2 DEF Writing, StoreInv
    <3>4. QED  BY <3>1, <3>2, <3>3
  <2>3. QED  BY <2>1, <2>2
<1>9. QED  BY <1>5, <1>6, <1>7, <1>8 DEF StoreInv

LEMMA StoreStep == TypeOK /\ StoreInv /\ [Next]_vars => StoreInv'
<1> SUFFICES ASSUME TypeOK, StoreInv, [Next]_vars PROVE StoreInv'  OBVIOUS
<1>1. ASSUME NEW r \in Runs
      PROVE  /\ run[r].into \in Files /\ run[r].pending \in TextType(run[r].into)
             /\ \A f \in Files : file[f] \in TextType(f) /\ run[r].batch[f] \in Seq(Stored(f))
             /\ run[r] \in RunFields
  BY DEF TypeOK, RunType, RunFields, Batches
<1>2. ASSUME NEW r \in Runs,
             Start(r) \/ Retry(r) \/ FetchFails(r) \/ Fetch(r) \/ Save(r) \/ Process(r) \/ LoadFails(r)
      PROVE  StoreInv'
  <2>0. run[r] \in RunFields  BY <1>1
  <2>1. UNCHANGED <<file, claimed, overlapped, torn>>
    BY <1>2 DEF Start, Retry, FetchFails, Fetch, Save, Process, LoadFails, stores, history
  <2>2. CASE FetchFails(r) \/ LoadFails(r)
    <3>1. run[r].pc # "append" /\ Set(r, [NewRun EXCEPT !.pc = "failed"])
      BY <2>2 DEF FetchFails, LoadFails, Failed
    <3>2. [NewRun EXCEPT !.pc = "failed"].pc # "append"  BY DEF NewRun
    <3> DEFINE new == [NewRun EXCEPT !.pc = "failed"]
    <3> HIDE DEF new
    <3>3. QED  BY <2>1, <3>1, <3>2, QuietKeeps DEF new
  <2>3. CASE Start(r)
    <3>1. PICK c \in Collections :
            Set(r, IF responses[c.query] = None
                   THEN [run[r] EXCEPT !.pc = "fetch", !.of = c, !.attempt = 1]
                   ELSE [run[r] EXCEPT !.pc = "process", !.of = c, !.news = responses[c.query]])
      BY <2>3 DEF Start
    <3> DEFINE new == IF responses[c.query] = None
                      THEN [run[r] EXCEPT !.pc = "fetch", !.of = c, !.attempt = 1]
                      ELSE [run[r] EXCEPT !.pc = "process", !.of = c, !.news = responses[c.query]]
    <3>2. new.pc # "append"  BY <2>0 DEF RunFields
    <3>3. run[r].pc # "append"  BY <2>3 DEF Start
    <3> HIDE DEF new
    <3>4. Set(r, new)  BY <3>1 DEF new
    <3>5. QED  BY <2>1, <3>2, <3>3, <3>4, QuietKeeps
  <2>4. CASE Retry(r)
    <3> DEFINE new == [run[r] EXCEPT !.attempt = @ + 1]
    <3>1. new.pc # "append" /\ run[r].pc # "append"  BY <2>0, <2>4 DEF RunFields, Retry
    <3> HIDE DEF new
    <3>2. Set(r, new)  BY <2>4 DEF Retry, new
    <3>3. QED  BY <2>1, <3>1, <3>2, QuietKeeps
  <2>5. CASE Fetch(r)
    <3>1. PICK news : Set(r, [run[r] EXCEPT !.pc = "save", !.attempt = 0, !.news = news])
      BY <2>5 DEF Fetch
    <3> DEFINE new == [run[r] EXCEPT !.pc = "save", !.attempt = 0, !.news = news]
    <3>2. new.pc # "append" /\ run[r].pc # "append"  BY <2>0, <2>5 DEF RunFields, Fetch
    <3> HIDE DEF new
    <3>3. Set(r, new)  BY <3>1 DEF new
    <3>4. QED  BY <2>1, <3>2, <3>3, QuietKeeps
  <2>6. CASE Save(r)
    <3> DEFINE new == [run[r] EXCEPT !.pc = "process"]
    <3>1. new.pc # "append" /\ run[r].pc # "append"  BY <2>0, <2>6 DEF RunFields, Save
    <3> HIDE DEF new
    <3>2. Set(r, new)  BY <2>6 DEF Save, new
    <3>3. QED  BY <2>1, <3>1, <3>2, QuietKeeps
  <2>7. CASE Process(r)
    <3>1. PICK batch : Set(r, [run[r] EXCEPT !.pc = "load", !.news = <<>>, !.batch = batch])
      BY <2>7 DEF Process
    <3> DEFINE new == [run[r] EXCEPT !.pc = "load", !.news = <<>>, !.batch = batch]
    <3>2. new.pc # "append" /\ run[r].pc # "append"  BY <2>0, <2>7 DEF RunFields, Process
    <3> HIDE DEF new
    <3>3. Set(r, new)  BY <3>1 DEF new
    <3>4. QED  BY <2>1, <3>2, <3>3, QuietKeeps
  <2>8. QED  BY <1>2, <2>2, <2>3, <2>4, <2>5, <2>6, <2>7
<1>3. ASSUME NEW r \in Runs, Load(r) PROVE StoreInv'
  <2> DEFINE f == run[r].into
             batch == run[r].batch[f]
             rest == Texts(FirstByKey(batch, Keys(f, batch), KnownKeys(f)))
             new == [run[r] EXCEPT !.pc = "append", !.pending = rest]
  <2>1. f \in Files /\ batch \in Seq(Stored(f)) /\ file[f] \in TextType(f)  BY <1>1
  <2>2. run[r].pc = "load" /\ Set(r, new) /\ UNCHANGED <<file, claimed, torn>>  BY <1>3 DEF Load
  <2>3. /\ overlapped \subseteq overlapped'
        /\ f \notin overlapped' => /\ f \notin overlapped
                                   /\ \A s \in Runs \ {r} : ~Writes(run[s], f)
    BY <1>3 DEF Load, Writes
  <2>4. new.pc = "append" /\ new.into = f /\ new.pending = rest /\ new.batch[f] = batch
    <3>1. run[r] \in RunFields  BY <1>1
    <3>2. QED  BY <3>1 DEF RunFields
  <2>5. ~Writes(run[r], f)  BY <2>2 DEF Writes
  <2>6. KnownKeys(f) = KnownIn(f, file[f])  BY DEF KnownKeys, KnownIn, KeyAt
  <2>7. ASSUME f \notin overlapped'
        PROVE  /\ NoneTwice(f, file[f]) /\ RestsFollow(file[f])
               /\ WriterSound(f, file[f], rest, batch, claimed[f], torn[f])
    <3> DEFINE x == file[f]
               known == claimed[f]
               broken == torn[f]
    <3> HIDE DEF f, batch
    <3>1. f \in Files \ overlapped /\ \A s \in Runs : ~Writes(run[s], f)  BY <2>1, <2>3, <2>5, <2>7
    <3>2. NoneTwice(f, x) /\ RestsFollow(x)  BY <3>1 DEF StoreInv, NoRepeats
    <3>3. Accounted(f, x, x, known, broken)  BY <3>1 DEF StoreInv, AtRest
    <3>4. x \in Seq(Pieces(Stored(f) \cup {None}))  BY <2>1 DEF TextType
    <3> HIDE DEF x, known, broken
    <3>5. WriterSound(f, x, Texts(FirstByKey(batch, Keys(f, batch), KnownIn(f, x))), batch, known, broken)
      BY <2>1, <3>2, <3>3, <3>4, LoadSound
    <3>6. QED  BY <2>6, <3>2, <3>5 DEF x, known, broken
  <2> HIDE DEF f, batch, rest, new
  <2>8. run[r].into = f  BY DEF f
  <2>9. QED  BY <2>1, <2>2, <2>3, <2>4, <2>7, <2>8, WriterKeeps
<1>4. ASSUME NEW r \in Runs, run[r].pc = "append", run[r].into \notin overlapped
      PROVE  /\ \A s \in Runs \ {r} : ~Writes(run[s], run[r].into)
             /\ WriterSound(run[r].into, file[run[r].into], run[r].pending, run[r].batch[run[r].into],
                            claimed[run[r].into], torn[run[r].into])
  <2>1. run[r].into \in Files \ overlapped /\ Writes(run[r], run[r].into)  BY <1>1, <1>4 DEF Writes
  <2>2. QED  BY <2>1 DEF StoreInv, OneWriter, Writing
<1>5. ASSUME NEW r \in Runs, Split(r) PROVE StoreInv'
  <2> DEFINE f == run[r].into
             batch == run[r].batch[f]
             rest == run[r].pending
             S == Stored(f) \cup {None}
  <2>1. f \in Files /\ batch \in Seq(Stored(f)) /\ file[f] \in TextType(f) /\ rest \in TextType(f)
    BY <1>1
  <2>2. PICK n \in 1..(Len(rest) - 1) :
          /\ file' = [file EXCEPT ![f] = @ \o SubSeq(rest, 1, n)]
          /\ Set(r, [run[r] EXCEPT !.pending = SubSeq(@, n + 1, Len(@))])
    BY <1>5 DEF Split
  <2> DEFINE left == SubSeq(rest, n + 1, Len(rest))
             new == [run[r] EXCEPT !.pending = left]
  <2>3. run[r].pc = "append" /\ UNCHANGED <<claimed, torn, overlapped>> /\ Set(r, new)
    BY <1>5, <2>2 DEF Split, history
  <2>4. new.pc = "append" /\ new.into = f /\ new.pending = left /\ new.batch[f] = batch
    <3>1. run[r] \in RunFields  BY <1>1
    <3>2. QED  BY <3>1, <2>3 DEF RunFields
  <2>5. /\ file'[f] = file[f] \o SubSeq(rest, 1, n)
        /\ \A g \in Files \ {f} : file'[g] = file[g]
    <3> HIDE DEF f, rest
    <3>1. QED  BY <2>1, <2>2 DEF TypeOK
  <2>6. ASSUME f \notin overlapped'
        PROVE  /\ \A s \in Runs \ {r} : ~Writes(run[s], f)
               /\ NoneTwice(f, file'[f]) /\ RestsFollow(file'[f])
               /\ WriterSound(f, file'[f], left, batch, claimed[f], torn[f])
    <3> DEFINE x == file[f]
               known == claimed[f]
               broken == torn[f]
    <3>1. /\ \A s \in Runs \ {r} : ~Writes(run[s], f)
          /\ WriterSound(f, x, rest, batch, known, broken)
      BY <1>4, <2>3, <2>6
    <3>2. x \in Seq(Pieces(S)) /\ rest \in Seq(Pieces(S))  BY <2>1 DEF TextType
    <3> HIDE DEF f, x, rest, batch, known, broken, S
    <3>3. /\ NoneTwice(f, x \o SubSeq(rest, 1, n)) /\ RestsFollow(x \o SubSeq(rest, 1, n))
          /\ WriterSound(f, x \o SubSeq(rest, 1, n), SubSeq(rest, n + 1, Len(rest)), batch, known, broken)
      BY <3>1, <3>2, SplitSound
    <3>4. QED  BY <2>5, <3>1, <3>3 DEF x, known, broken
  <2> HIDE DEF f, batch, rest, left, new
  <2>7. run[r].into = f  BY DEF f
  <2>8. QED  BY <2>1, <2>3, <2>4, <2>5, <2>6, <2>7, WriterKeeps
<1>6. ASSUME NEW r \in Runs, Close(r) PROVE StoreInv'
  <2> DEFINE f == run[r].into
             batch == run[r].batch[f]
             rest == run[r].pending
             S == Stored(f) \cup {None}
             keys == ToSet(Keys(f, batch)) \ {None}
             new == IF f = "features"
                    THEN [run[r] EXCEPT !.pc = "load", !.into = "articles", !.pending = <<>>]
                    ELSE [NewRun EXCEPT !.pc = "done"]
  <2>1. f \in Files /\ batch \in Seq(Stored(f)) /\ file[f] \in TextType(f) /\ rest \in TextType(f)
    BY <1>1
  <2>2. /\ run[r].pc = "append" /\ file' = [file EXCEPT ![f] = @ \o rest]
        /\ claimed' = [claimed EXCEPT ![f] = @ \cup keys] /\ Set(r, new)
        /\ UNCHANGED <<overlapped, torn>>
    BY <1>6 DEF Close
  <2>3. new.pc # "append"
    <3>1. run[r] \in RunFields  BY <1>1
    <3>2. QED  BY <3>1 DEF RunFields, NewRun
  <2>4. /\ file'[f] = file[f] \o rest /\ claimed'[f] = claimed[f] \cup keys
        /\ \A g \in Files \ {f} : file'[g] = file[g] /\ claimed'[g] = claimed[g]
    <3> HIDE DEF f, rest, keys
    <3>1. QED  BY <2>1, <2>2 DEF TypeOK
  <2>5. ASSUME f \notin overlapped'
        PROVE  /\ \A s \in Runs \ {r} : ~Writes(run[s], f)
               /\ NoneTwice(f, file'[f]) /\ RestsFollow(file'[f])
               /\ Accounted(f, file'[f], file'[f], claimed'[f], torn[f])
    <3> DEFINE x == file[f]
               known == claimed[f]
               broken == torn[f]
    <3>1. /\ \A s \in Runs \ {r} : ~Writes(run[s], f)
          /\ WriterSound(f, x, rest, batch, known, broken)
      BY <1>4, <2>2, <2>5
    <3>2. x \in Seq(Pieces(S)) /\ rest \in Seq(Pieces(S))  BY <2>1 DEF TextType
    <3> HIDE DEF f, x, rest, batch, known, broken, S
    <3>3. /\ NoneTwice(f, x \o rest) /\ RestsFollow(x \o rest)
          /\ Accounted(f, x \o rest, x \o rest, known \cup (ToSet(Keys(f, batch)) \ {None}), broken)
      BY <2>1, <3>1, <3>2, CloseSound
    <3>4. QED  BY <2>4, <3>1, <3>3 DEF x, known, broken
  <2> HIDE DEF f, batch, rest, keys, new
  <2>6. run[r].into = f  BY DEF f
  <2>7. QED  BY <2>1, <2>2, <2>3, <2>4, <2>5, <2>6, WriterKeeps
<1>7. ASSUME NEW r \in Runs, Stop(r) PROVE StoreInv'
  <2> DEFINE f == run[r].into
             batch == run[r].batch[f]
             rest == run[r].pending
             S == Stored(f) \cup {None}
             new == [NewRun EXCEPT !.pc = "failed"]
  <2>1. f \in Files /\ batch \in Seq(Stored(f)) /\ file[f] \in TextType(f) /\ rest \in TextType(f)
    BY <1>1
  <2>2. /\ UNCHANGED <<file, claimed, overlapped>> /\ Set(r, new)
        /\ torn' = IF run[r].pc = "append" /\ file[f] # <<>> /\ Last(file[f]).part # "end"
                   THEN [torn EXCEPT ![f] = @ + 1] ELSE torn
    BY <1>7 DEF Stop, Failed
  <2>3. new.pc # "append"  BY DEF NewRun
  <2>4. CASE run[r].pc # "append"
    <3>1. UNCHANGED torn  BY <2>2, <2>4
    <3> HIDE DEF new
    <3>2. QED  BY <2>2, <2>3, <2>4, <3>1, QuietKeeps
  <2>5. CASE run[r].pc = "append"
    <3> DEFINE x == file[f]
               known == claimed[f]
               broken == torn[f]
    <3>1. /\ torn'[f] = (IF x # <<>> /\ Last(x).part # "end" THEN broken + 1 ELSE broken)
          /\ \A g \in Files \ {f} : torn'[g] = torn[g]
      <4> HIDE DEF f
      <4>1. QED  BY <2>1, <2>2, <2>5 DEF TypeOK
    <3>2. ASSUME f \notin overlapped'
          PROVE  /\ \A s \in Runs \ {r} : ~Writes(run[s], f)
                 /\ NoneTwice(f, x) /\ RestsFollow(x)
                 /\ Accounted(f, x, x, known, torn'[f])
      <4>1. f \in Files \ overlapped  BY <2>1, <2>2, <3>2
      <4>2. /\ \A s \in Runs \ {r} : ~Writes(run[s], f)
            /\ WriterSound(f, x, rest, batch, known, broken)
        BY <1>4, <2>5, <4>1
      <4>3. NoneTwice(f, x) /\ RestsFollow(x)  BY <4>1 DEF StoreInv, NoRepeats
      <4>4. x \in Seq(Pieces(S)) /\ rest \in Seq(Pieces(S)) /\ broken \in Nat
        BY <2>1 DEF TextType, TypeOK
      <4> HIDE DEF f, x, rest, batch, known, broken, S
      <4>5. Accounted(f, x, x, known, IF x # <<>> /\ Last(x).part # "end" THEN broken + 1 ELSE broken)
        BY <4>2, <4>4, StopSound
      <4>6. QED  BY <3>1, <4>2, <4>3, <4>5
    <3>3. file'[f] = x /\ claimed'[f] = known  BY <2>2
    <3>4. \A g \in Files \ {f} : file'[g] = file[g] /\ claimed'[g] = claimed[g] /\ torn'[g] = torn[g]
      BY <2>2, <3>1
    <3>5. overlapped \subseteq overlapped'  BY <2>2
    <3>6. f \notin overlapped' => /\ \A s \in Runs \ {r} : ~Writes(run[s], f)
                                  /\ NoneTwice(f, file'[f]) /\ RestsFollow(file'[f])
                                  /\ Accounted(f, file'[f], file'[f], claimed'[f], torn'[f])
      <4> HIDE DEF f, x, known
      <4>1. QED  BY <3>2, <3>3
    <3> HIDE DEF f, x, known, broken, batch, rest, new
    <3>7. run[r].into = f  BY DEF f
    <3>8. QED  BY <2>1, <2>2, <2>3, <2>5, <3>4, <3>5, <3>6, <3>7, WriterKeeps
  <2>6. QED  BY <2>4, <2>5
<1>8. CASE UNCHANGED vars
  <2>1. UNCHANGED <<run, file, claimed, overlapped, torn>>  BY <1>8 DEF vars
  <2>2. QED  BY <2>1 DEF StoreInv, OneWriter, NoRepeats, AtRest, Writing
<1>9. QED  BY <1>2, <1>3, <1>5, <1>6, <1>7, <1>8 DEF Next, RunStep

\* Unless two runs worked on a file at a time, its readers and its only writer find it as they
\* must: no key twice, now and when the writer is done, and no key lost but beside a torn line.
THEOREM StoresSound == Spec => [](TypeOK /\ StoreInv)
<1>1. Init => TypeOK /\ StoreInv  BY TypeInitial, StoreInitial
<1>2. TypeOK /\ StoreInv /\ [Next]_vars => (TypeOK /\ StoreInv)'  BY TypeStep, StoreStep
<1>3. QED  BY <1>1, <1>2, PTL DEF Spec

\* Two lines of a store have one key only if two runs have worked on the file at a time.
THEOREM StoredOnceHolds == Spec => []StoredOnce
<1>1. TypeOK /\ StoreInv => StoredOnce
  BY DEF StoreInv, NoRepeats, NoneTwice, StoredOnce, KeyAt
<1>2. QED  BY <1>1, StoresSound, PTL

\* A run stopped within a line costs at most two keys that were reported as stored.
THEOREM LossIsBounded == Spec => []LossBounded
<1>1. TypeOK /\ StoreInv => LossBounded
  <2> SUFFICES ASSUME TypeOK, StoreInv, NEW f \in Files \ overlapped
               PROVE  Cardinality(claimed[f] \ KnownKeys(f)) <= 2 * torn[f]
    BY DEF LossBounded
  <2> DEFINE lost == claimed[f] \ KnownKeys(f)
  <2>1. KnownKeys(f) = KnownIn(f, file[f])  BY DEF KnownKeys, KnownIn, KeyAt
  <2>2. file[f] \in Seq(Pieces(Stored(f) \cup {None})) /\ torn[f] \in Nat  BY DEF TypeOK, TextType
  <2>3. \E ahead \in Seq(Pieces(Stored(f) \cup {None})) :
           Accounted(f, file[f], ahead, claimed[f], torn[f])
    <3>1. CASE \A r \in Runs : ~Writes(run[r], f)  BY <3>1, <2>2 DEF StoreInv, AtRest
    <3>2. CASE \E r \in Runs : Writes(run[r], f)
      <4>1. PICK r \in Runs : Writes(run[r], f)  BY <3>2
      <4>2. Accounted(f, file[f], file[f] \o run[r].pending, claimed[f], torn[f])
        BY <4>1 DEF StoreInv, Writing, WriterSound
      <4>3. run[r].pending \in Seq(Pieces(Stored(f) \cup {None}))
        BY <4>1 DEF Writes, TypeOK, RunType, TextType
      <4>4. file[f] \o run[r].pending \in Seq(Pieces(Stored(f) \cup {None}))  BY <2>2, <4>3
      <4>5. QED  BY <4>2, <4>4
    <3>3. QED  BY <3>1, <3>2
  <2>4. PICK ahead \in Seq(Pieces(Stored(f) \cup {None})) :
           Accounted(f, file[f], ahead, claimed[f], torn[f])
    BY <2>3
  <2> DEFINE B == Beside(f, ahead, Len(file[f]))
             C == Cardinality(Breaks(ahead))
  <2>5. lost \in SUBSET B /\ C <= torn[f]  BY <2>1, <2>4 DEF Accounted
  <2>6. IsFiniteSet(B) /\ Cardinality(B) <= 2 * C  BY TwoSides
  <2>7. C \in Nat  BY BreaksFinite
  <2> HIDE DEF lost, B, C
  <2>8. IsFiniteSet(lost) /\ Cardinality(lost) <= Cardinality(B)  BY <2>5, <2>6, FS_Subset
  <2>9. Cardinality(lost) \in Nat /\ Cardinality(B) \in Nat  BY <2>6, <2>8, FS_CardinalityType
  <2>10. Cardinality(lost) <= 2 * torn[f]  BY <2>2, <2>5, <2>6, <2>7, <2>8, <2>9
  <2>11. QED  BY <2>10 DEF lost
<1>2. QED  BY <1>1, StoresSound, PTL

-----------------------------------------------------------------------------
(* The two stores together: what has begun to be written.                  *)

Begun(text) == {text[i].of : i \in {j \in 1..Len(text) : text[j].part = "head"}}
HasRows(batch, begun) ==
    \A row \in ToSet(batch) : \E y \in begun : Key("features", row) = Key("features", y)

\* What a run carries fits the rows that the feature store has begun to hold.
RunFits(x, begun) ==
    /\ \A record \in ToSet(x.batch["articles"]) : \A topic \in ToSet(record.topics) :
          Covered(ToSet(x.batch["features"]), record, topic)
    /\ x.into = "articles" => x.pc \in {"load", "append"}
    /\ x.pc = "append" /\ x.into = "features" =>
          HasRows(x.batch["features"], begun \cup Begun(x.pending))
    /\ x.into = "articles" =>
          HasRows(x.batch["features"], begun) /\ Begun(x.pending) \subseteq ToSet(x.batch["articles"])

SpanInv ==
    /\ \A r \in Runs : RunFits(run[r], Begun(file["features"]))
    /\ \A record \in Begun(file["articles"]) : \A topic \in ToSet(record.topics) :
          Covered(Begun(file["features"]), record, topic)

LEMMA RunFitsMore ==
    ASSUME NEW x, NEW begun, NEW more, RunFits(x, begun), begun \subseteq more
    PROVE  RunFits(x, more)
<1>1. \A batch : HasRows(batch, begun) => HasRows(batch, more)  BY DEF HasRows
<1>2. \A batch : HasRows(batch, begun \cup Begun(x.pending)) => HasRows(batch, more \cup Begun(x.pending))
  BY DEF HasRows
<1>3. QED  BY <1>1, <1>2 DEF RunFits

LEMMA CoveredByKeys ==
    ASSUME NEW batch, NEW begun, HasRows(batch, begun), NEW record, NEW topic,
           Covered(ToSet(batch), record, topic)
    PROVE  Covered(begun, record, topic)
<1>1. PICK row \in ToSet(batch) :
        /\ row.date = DateOf(record.article) /\ row.topic = topic
        /\ Kind[record.article].stamp = None
           \/ (row.earliest <= Kind[record.article].stamp /\ Kind[record.article].stamp <= row.latest)
  BY DEF Covered
<1>2. PICK y \in begun : Key("features", row) = Key("features", y)  BY DEF HasRows
<1>3. y.date = row.date /\ y.topic = row.topic /\ y.earliest = row.earliest /\ y.latest = row.latest
  BY <1>2 DEF Key
<1>4. QED  BY <1>1, <1>3 DEF Covered

LEMMA CoveredByMore ==
    ASSUME NEW begun, NEW more, begun \subseteq more, NEW record, NEW topic,
           Covered(begun, record, topic)
    PROVE  Covered(more, record, topic)
  BY DEF Covered

LEMMA BegunJoined ==
    ASSUME NEW P, NEW x \in Seq(P), NEW y \in Seq(P)
    PROVE  Begun(x \o y) = Begun(x) \cup Begun(y)
<1> DEFINE z == x \o y
<1>1. /\ Len(z) = Len(x) + Len(y)
      /\ \A i \in 1..Len(x) : z[i] = x[i]
      /\ \A i \in 1..Len(y) : z[Len(x) + i] = y[i]
  BY Joined
<1>2. Len(x) \in Nat /\ Len(y) \in Nat  OBVIOUS
<1> HIDE DEF z
<1>3. ASSUME NEW v \in Begun(x) PROVE v \in Begun(z)
  <2>1. PICK i \in 1..Len(x) : x[i].part = "head" /\ v = x[i].of  BY <1>3 DEF Begun
  <2>2. i \in 1..Len(z) /\ z[i] = x[i]  BY <1>1, <1>2
  <2>3. QED  BY <2>1, <2>2 DEF Begun
<1>4. ASSUME NEW v \in Begun(y) PROVE v \in Begun(z)
  <2>1. PICK i \in 1..Len(y) : y[i].part = "head" /\ v = y[i].of  BY <1>4 DEF Begun
  <2>2. Len(x) + i \in 1..Len(z) /\ z[Len(x) + i] = y[i]  BY <1>1, <1>2
  <2>3. QED  BY <2>1, <2>2 DEF Begun
<1>5. ASSUME NEW v \in Begun(z) PROVE v \in Begun(x) \cup Begun(y)
  <2>1. PICK i \in 1..Len(z) : z[i].part = "head" /\ v = z[i].of  BY <1>5 DEF Begun
  <2>2. CASE i <= Len(x)
    <3>1. i \in 1..Len(x) /\ z[i] = x[i]  BY <2>2, <1>1, <1>2
    <3>2. QED  BY <2>1, <3>1 DEF Begun
  <2>3. CASE i > Len(x)
    <3>1. i - Len(x) \in 1..Len(y) /\ Len(x) + (i - Len(x)) = i  BY <2>3, <1>1, <1>2
    <3>2. z[i] = y[i - Len(x)]  BY <3>1, <1>1
    <3>3. QED  BY <2>1, <3>1, <3>2 DEF Begun
  <2>4. QED  BY <2>2, <2>3, <1>1, <1>2
<1>6. QED  BY <1>3, <1>4, <1>5 DEF z

LEMMA BegunTexts ==
    ASSUME NEW R, NEW entries \in Seq(R)
    PROVE  Begun(Texts(entries)) = ToSet(entries)
<1> DEFINE text == Texts(entries)
           n == Len(entries)
<1>1. /\ Len(text) = 3 * n
      /\ \A k \in 1..n : /\ text[3 * k - 2] = HeadOf(entries[k])
                         /\ text[3 * k - 1] = RestOf(entries[k])
                         /\ text[3 * k] = LineEnd
      /\ \A q \in 1..(3 * n) : \E k \in 1..n : q \in {3 * k - 2, 3 * k - 1, 3 * k}
  BY TextsFacts
<1>2. n \in Nat  OBVIOUS
<1>3. \A x : x \in ToSet(entries) <=> \E i \in 1..n : entries[i] = x  BY ToSetFacts
<1> HIDE DEF text, n
<1>4. ASSUME NEW v \in Begun(text) PROVE v \in ToSet(entries)
  <2>1. PICK q \in 1..Len(text) : text[q].part = "head" /\ v = text[q].of  BY <1>4 DEF Begun
  <2>2. PICK k \in 1..n : q \in {3 * k - 2, 3 * k - 1, 3 * k}  BY <1>1
  <2>3. /\ text[3 * k - 2] = HeadOf(entries[k]) /\ text[3 * k - 1] = RestOf(entries[k])
        /\ text[3 * k] = LineEnd
    BY <1>1
  <2>4. text[3 * k - 2].of = entries[k] /\ text[3 * k - 1].part = "rest" /\ text[3 * k].part = "end"
    BY <2>3 DEF HeadOf, RestOf, LineEnd
  <2>5. v = entries[k]  BY <2>1, <2>2, <2>4
  <2>6. QED  BY <2>5, <1>3
<1>5. ASSUME NEW v \in ToSet(entries) PROVE v \in Begun(text)
  <2>1. PICK k \in 1..n : entries[k] = v  BY <1>3
  <2>2. text[3 * k - 2] = HeadOf(entries[k]) /\ 3 * k - 2 \in 1..Len(text)  BY <1>1, <1>2
  <2>3. text[3 * k - 2].part = "head" /\ text[3 * k - 2].of = v  BY <2>1, <2>2 DEF HeadOf
  <2>4. QED  BY <2>2, <2>3 DEF Begun
<1>6. QED  BY <1>4, <1>5 DEF text

\* What has begun when the buffer goes out in part.
LEMMA BegunCut ==
    ASSUME NEW P, NEW x \in Seq(P), NEW rest \in Seq(P), NEW n \in 1..(Len(rest) - 1),
           NEW y, NEW z, NEW ahead, CutInTwo(x, rest, n, y, z, ahead, P)
    PROVE  /\ Begun(y) \cup Begun(z) = Begun(x) \cup Begun(rest)
           /\ Begun(x) \subseteq Begun(y) /\ Begun(z) \subseteq Begun(rest)
<1>2. CutInTwo(x, rest, n, y, z, ahead, P)  OBVIOUS
<1>3. y \in Seq(P) /\ z \in Seq(P)  BY DEF CutInTwo
<1>4. Begun(x \o rest) = Begun(x) \cup Begun(rest)  BY BegunJoined
<1>5. Begun(y \o z) = Begun(y) \cup Begun(z)  BY <1>3, BegunJoined
<1>a. Begun(y \o z) = Begun(x \o rest)  BY DEF CutInTwo
<1>6. ASSUME NEW v \in Begun(x) PROVE v \in Begun(y)
  <2>1. PICK i \in 1..Len(x) : x[i].part = "head" /\ v = x[i].of  BY <1>6 DEF Begun
  <2>2. i \in 1..Len(y) /\ y[i] = x[i]  BY <1>2 DEF CutInTwo
  <2>3. QED  BY <2>1, <2>2 DEF Begun
<1>7. ASSUME NEW v \in Begun(z) PROVE v \in Begun(rest)
  <2>1. PICK i \in 1..Len(z) : z[i].part = "head" /\ v = z[i].of  BY <1>7 DEF Begun
  <2>2. z[i] = rest[n + i] /\ Len(z) = Len(rest) - n  BY <1>2 DEF CutInTwo
  <2>3. n + i \in 1..Len(rest)  BY <2>2
  <2>4. QED  BY <2>1, <2>2, <2>3 DEF Begun
<1>8. QED  BY <1>a, <1>4, <1>5, <1>6, <1>7

\* Every row of the batch has begun, or is among what is new.
LEMMA LoadHasRows ==
    ASSUME NEW R, NEW x \in Seq(Pieces(R \cup {None})), NEW batch \in Seq(R), NEW f,
           NEW new \in Seq(R), KeepsFirst(new, batch, Keys(f, batch), KnownIn(f, x))
    PROVE  /\ ToSet(new) \subseteq ToSet(batch)
           /\ f = "features" => HasRows(batch, Begun(x) \cup ToSet(new))
<1> DEFINE keys == Keys(f, batch)
<1>1. new \in Seq(R) /\ KeepsFirst(new, batch, keys, KnownIn(f, x))  OBVIOUS
<1>2. DOMAIN batch = 1..Len(batch) /\ \A i \in DOMAIN batch : keys[i] = Key(f, batch[i])  BY DEF Keys
<1> HIDE DEF keys
<1>3. PICK o \in [DOMAIN new -> DOMAIN batch] :
        /\ \A n \in DOMAIN new : new[n] = batch[o[n]]
        /\ \A n \in DOMAIN new : keys[o[n]] = None \/ keys[o[n]] \notin KnownIn(f, x)
        /\ \A n, m \in DOMAIN new : keys[o[n]] = keys[o[m]] => n = m \/ keys[o[n]] = None
        /\ \A i \in DOMAIN batch :
              keys[i] \in KnownIn(f, x) \/ \E n \in DOMAIN new : keys[o[n]] = keys[i]
  BY <1>1, Zenon DEF KeepsFirst
<1>4. ASSUME NEW v \in ToSet(new) PROVE v \in ToSet(batch)
  <2>1. PICK n \in DOMAIN new : v = new[n]  BY <1>4 DEF ToSet
  <2>2. o[n] \in DOMAIN batch /\ v = batch[o[n]]  BY <2>1, <1>3
  <2>3. QED  BY <2>2 DEF ToSet
<1>5. ASSUME f = "features", NEW row \in ToSet(batch)
      PROVE  \E y \in Begun(x) \cup ToSet(new) : Key(f, row) = Key(f, y)
  <2>1. PICK i \in DOMAIN batch : row = batch[i]  BY DEF ToSet
  <2>2. CASE keys[i] \in KnownIn(f, x)
    <3>1. PICK j \in Readable(x) : Key(f, row) = Key(f, x[j].of)  BY <2>1, <2>2, <1>2 DEF KnownIn
    <3>2. j \in 1..(Len(x) - 1) /\ x[j].part = "head"  BY ReadableFacts
    <3>3. j \in 1..Len(x)  BY <3>2
    <3>4. x[j].of \in Begun(x)  BY <3>2, <3>3 DEF Begun
    <3>5. QED  BY <3>1, <3>4
  <2>3. CASE \E n \in DOMAIN new : keys[o[n]] = keys[i]
    <3>1. PICK n \in DOMAIN new : keys[o[n]] = keys[i]  BY <2>3
    <3>2. o[n] \in DOMAIN batch /\ new[n] = batch[o[n]]  BY <1>3
    <3>3. Key(f, row) = Key(f, new[n])  BY <3>1, <3>2, <2>1, <1>2
    <3>4. new[n] \in ToSet(new)  BY DEF ToSet
    <3>5. QED  BY <3>3, <3>4
  <2>4. QED  BY <2>2, <2>3, <1>3
<1>6. QED  BY <1>4, <1>5 DEF HasRows

LEMMA NewRunFits ==
    ASSUME NEW begun
    PROVE  /\ RunFits(NewRun, begun) /\ RunFits([NewRun EXCEPT !.pc = "failed"], begun)
           /\ RunFits([NewRun EXCEPT !.pc = "done"], begun)
<1>1. NoBatch["features"] = <<>> /\ NoBatch["articles"] = <<>>  BY DEF NoBatch, Files
<1>2. ToSet(<<>>) = {}
  <2>1. DOMAIN <<>> = {}  OBVIOUS
  <2>2. QED  BY <2>1 DEF ToSet
<1>3. ASSUME NEW x, x.batch = NoBatch, x.into = "features", x.pc # "append"
      PROVE  RunFits(x, begun)
  BY <1>1, <1>2, <1>3 DEF RunFits
<1>4. QED  BY <1>3 DEF NewRun

LEMMA SpanInitial == Init => SpanInv
<1> SUFFICES ASSUME Init PROVE SpanInv  OBVIOUS
<1>1. \A r \in Runs : RunFits(run[r], Begun(file["features"]))  BY NewRunFits DEF Init
<1>2. Begun(file["articles"]) = {}
  <2>1. file["articles"] = <<>>  BY DEF Init, Files
  <2>2. 1..Len(<<>>) = {}  OBVIOUS
  <2>3. QED  BY <2>1, <2>2 DEF Begun
<1>3. QED  BY <1>1, <1>2 DEF SpanInv

LEMMA SpanKeeps ==
    ASSUME TypeOK, SpanInv, NEW r \in Runs, NEW new, Set(r, new),
           Begun(file["features"]) \subseteq Begun(file'["features"]),
           RunFits(new, Begun(file'["features"])),
           \A record \in Begun(file'["articles"]) :
              \/ record \in Begun(file["articles"])
              \/ run[r].into = "articles" /\ record \in ToSet(run[r].batch["articles"])
    PROVE  SpanInv'
<1> DEFINE begun == Begun(file["features"])
           more == Begun(file'["features"])
<1>1. \A s \in Runs : run'[s] = IF s = r THEN new ELSE run[s]  BY DEF Set, TypeOK
<1>2. \A s \in Runs : RunFits(run[s], begun)  BY DEF SpanInv
<1>3. begun \subseteq more /\ RunFits(new, more)  OBVIOUS
<1>4. \A record \in Begun(file["articles"]) : \A topic \in ToSet(record.topics) :
         Covered(begun, record, topic)
  BY DEF SpanInv
<1> HIDE DEF begun, more
<1>5. ASSUME NEW s \in Runs PROVE RunFits(run'[s], more)
  <2>1. CASE s = r  BY <2>1, <1>1, <1>3
  <2>2. CASE s # r
    <3>1. RunFits(run[s], more)  BY <1>2, <1>3, RunFitsMore
    <3>2. QED  BY <3>1, <2>2, <1>1
  <2>3. QED  BY <2>1, <2>2
<1>6. ASSUME NEW record \in Begun(file'["articles"]), NEW topic \in ToSet(record.topics)
      PROVE  Covered(more, record, topic)
  <2>1. Covered(begun, record, topic)
    <3>1. CASE record \in Begun(file["articles"])  BY <3>1, <1>4, <1>6
    <3>2. CASE run[r].into = "articles" /\ record \in ToSet(run[r].batch["articles"])
      <4> DEFINE batch == run[r].batch["features"]
      <4>1. HasRows(batch, begun) /\ Covered(ToSet(batch), record, topic)
        BY <3>2, <1>2, <1>6 DEF RunFits
      <4> HIDE DEF batch
      <4>2. QED  BY <4>1, CoveredByKeys
    <3>3. QED  BY <3>1, <3>2
  <2>2. QED  BY <2>1, <1>3, CoveredByMore
<1>7. QED  BY <1>5, <1>6 DEF SpanInv, more

LEMMA SpanStep == TypeOK /\ SpanInv /\ [Next]_vars => SpanInv'
<1> SUFFICES ASSUME TypeOK, SpanInv, [Next]_vars PROVE SpanInv'  OBVIOUS
<1>1. ASSUME NEW r \in Runs
      PROVE  /\ run[r].into \in Files /\ run[r].pending \in TextType(run[r].into)
             /\ \A f \in Files : file[f] \in TextType(f) /\ run[r].batch[f] \in Seq(Stored(f))
             /\ run[r] \in RunFields /\ RunFits(run[r], Begun(file["features"]))
  BY DEF TypeOK, RunType, RunFields, Batches, SpanInv
<1>2. ASSUME NEW r \in Runs, NEW new, Set(r, new), UNCHANGED file,
             RunFits(new, Begun(file["features"]))
      PROVE  SpanInv'
  BY <1>2, SpanKeeps
<1>3. ASSUME NEW r \in Runs, NEW new, Set(r, new), UNCHANGED file, run[r].pc # "append",
             new.pc \notin {"load", "append"}, run[r].pc \notin {"load", "append"},
             new.batch = run[r].batch, new.into = run[r].into, new.pending = run[r].pending
      PROVE  SpanInv'
  <2>1. RunFits(run[r], Begun(file["features"]))  BY <1>1
  <2>2. RunFits(new, Begun(file["features"]))  BY <2>1, <1>3 DEF RunFits
  <2>3. QED  BY <2>2, <1>2, <1>3
<1>4. ASSUME NEW r \in Runs, FetchFails(r) \/ LoadFails(r) \/ Stop(r) PROVE SpanInv'
  <2> DEFINE new == [NewRun EXCEPT !.pc = "failed"]
  <2>1. Set(r, new) /\ UNCHANGED file  BY <1>4 DEF FetchFails, LoadFails, Stop, Failed, stores
  <2>2. RunFits(new, Begun(file["features"]))  BY NewRunFits
  <2> HIDE DEF new
  <2>3. QED  BY <2>1, <2>2, <1>2
<1>5. ASSUME NEW r \in Runs, Start(r) \/ Retry(r) \/ Fetch(r) \/ Save(r) PROVE SpanInv'
  <2>0. run[r] \in RunFields /\ UNCHANGED file /\ run[r].pc \in {"start", "fetch", "save"}
    BY <1>1, <1>5 DEF Start, Retry, Fetch, Save, stores
  <2>1. \E new : /\ Set(r, new) /\ new.pc \notin {"load", "append"}
                 /\ new.batch = run[r].batch /\ new.into = run[r].into /\ new.pending = run[r].pending
    <3>1. CASE Start(r)
      <4>1. PICK c \in Collections :
              Set(r, IF responses[c.query] = None
                     THEN [run[r] EXCEPT !.pc = "fetch", !.of = c, !.attempt = 1]
                     ELSE [run[r] EXCEPT !.pc = "process", !.of = c, !.news = responses[c.query]])
        BY <3>1 DEF Start
      <4> DEFINE new == IF responses[c.query] = None
                        THEN [run[r] EXCEPT !.pc = "fetch", !.of = c, !.attempt = 1]
                        ELSE [run[r] EXCEPT !.pc = "process", !.of = c, !.news = responses[c.query]]
      <4>2. /\ new.pc \notin {"load", "append"}
            /\ new.batch = run[r].batch /\ new.into = run[r].into /\ new.pending = run[r].pending
        BY <2>0 DEF RunFields
      <4> HIDE DEF new
      <4>3. Set(r, new)  BY <4>1 DEF new
      <4>4. QED  BY <4>2, <4>3
    <3>2. CASE Retry(r)
      <4> DEFINE new == [run[r] EXCEPT !.attempt = @ + 1]
      <4>1. /\ new.pc \notin {"load", "append"}
            /\ new.batch = run[r].batch /\ new.into = run[r].into /\ new.pending = run[r].pending
        BY <2>0 DEF RunFields
      <4> HIDE DEF new
      <4>2. Set(r, new)  BY <3>2 DEF Retry, new
      <4>3. QED  BY <4>1, <4>2
    <3>3. CASE Fetch(r)
      <4>1. PICK news : Set(r, [run[r] EXCEPT !.pc = "save", !.attempt = 0, !.news = news])
        BY <3>3 DEF Fetch
      <4> DEFINE new == [run[r] EXCEPT !.pc = "save", !.attempt = 0, !.news = news]
      <4>2. /\ new.pc \notin {"load", "append"}
            /\ new.batch = run[r].batch /\ new.into = run[r].into /\ new.pending = run[r].pending
        BY <2>0 DEF RunFields
      <4> HIDE DEF new
      <4>3. Set(r, new)  BY <4>1 DEF new
      <4>4. QED  BY <4>2, <4>3
    <3>4. CASE Save(r)
      <4> DEFINE new == [run[r] EXCEPT !.pc = "process"]
      <4>1. /\ new.pc \notin {"load", "append"}
            /\ new.batch = run[r].batch /\ new.into = run[r].into /\ new.pending = run[r].pending
        BY <2>0 DEF RunFields
      <4> HIDE DEF new
      <4>2. Set(r, new)  BY <3>4 DEF Save, new
      <4>3. QED  BY <4>1, <4>2
    <3>5. QED  BY <1>5, <3>1, <3>2, <3>3, <3>4
  <2>2. QED  BY <2>0, <2>1, <1>3
<1>6. ASSUME NEW r \in Runs, Process(r) PROVE SpanInv'
  <2> DEFINE c == run[r].of
             news == Deduped(c, Filtered(c, run[r].news))
             featured == FeatureRows(c, news)
             entries == ArticleRecords(c, news)
             made == [f \in Files |-> IF f = "features" THEN featured ELSE entries]
             new == [run[r] EXCEPT !.pc = "load", !.news = <<>>, !.batch = made]
  <2>1. c \in Collections /\ run[r].news \in Seq(Articles)
    BY <1>6 DEF Process, TypeOK, RunType, RunFields
  <2>2. Set(r, new) /\ UNCHANGED file /\ run[r].pc = "process"  BY <1>6 DEF Process, stores
  <2> HIDE DEF c
  <2>3. news \in Seq(Articles)  BY <2>1, BatchFacts
  <2> HIDE DEF news
  <2>4. \A record \in Records :
           record.article \in ToSet(news) =>
              \A topic \in ToSet(TopicsOf(c, record.article)) : Covered(ToSet(featured), record, topic)
    BY <2>1, <2>3, RowsFacts
  <2>5. /\ entries \in Seq(Records)
        /\ ToSet(entries) =
              {[article |-> a, query |-> c.query, topics |-> TopicsOf(c, a)] : a \in ToSet(news)}
    BY <2>1, <2>3, BatchFacts
  <2>6. ToSet(entries) \subseteq Records  BY <2>5, ToSetFacts
  <2> HIDE DEF featured, entries
  <2>7. ASSUME NEW record \in ToSet(entries), NEW topic \in ToSet(record.topics)
        PROVE  Covered(ToSet(featured), record, topic)
    <3>1. PICK a \in ToSet(news) : record = [article |-> a, query |-> c.query, topics |-> TopicsOf(c, a)]
      BY <2>5
    <3>2. record.article = a /\ record.topics = TopicsOf(c, a)  BY <3>1
    <3>3. QED  BY <3>2, <2>4, <2>6, <2>7
  <2>8. made["features"] = featured /\ made["articles"] = entries  BY DEF Files
  <2>9. new.batch = made /\ new.pc = "load" /\ new.into = run[r].into  BY <1>1 DEF RunFields
  <2>10. run[r].into # "articles"  BY <2>2, <1>1 DEF RunFits
  <2> HIDE DEF made, new
  <2>11. RunFits(new, Begun(file["features"]))  BY <2>7, <2>8, <2>9, <2>10 DEF RunFits
  <2>12. QED  BY <2>2, <2>11, <1>2
<1>7. ASSUME NEW r \in Runs, Load(r) PROVE SpanInv'
  <2> DEFINE f == run[r].into
             batch == run[r].batch[f]
             fresh == FirstByKey(batch, Keys(f, batch), KnownKeys(f))
             new == [run[r] EXCEPT !.pc = "append", !.pending = Texts(fresh)]
  <2>1. f \in Files /\ batch \in Seq(Stored(f)) /\ file[f] \in Seq(Pieces(Stored(f) \cup {None}))
    BY <1>1 DEF TextType
  <2>2. Set(r, new) /\ UNCHANGED file  BY <1>7 DEF Load
  <2>3. KnownKeys(f) = KnownIn(f, file[f])  BY DEF KnownKeys, KnownIn, KeyAt
  <2>4. /\ new.pc = "append" /\ new.pending = Texts(fresh) /\ new.into = f
        /\ new.batch = run[r].batch
    <3>1. run[r] \in RunFields  BY <1>1
    <3>2. QED  BY <3>1 DEF RunFields
  <2>5. RunFits(run[r], Begun(file["features"])) /\ run[r].into = f  BY <1>1
  <2> HIDE DEF new
  <2>6. /\ ToSet(fresh) \subseteq ToSet(batch)
        /\ f = "features" => HasRows(batch, Begun(file[f]) \cup ToSet(fresh))
    <3> HIDE DEF f, batch
    <3> DEFINE x == file[f]
    <3>1. fresh = FirstByKey(batch, Keys(f, batch), KnownIn(f, x))  BY <2>3
    <3>2. batch \in Seq(Stored(f)) /\ x \in Seq(Pieces(Stored(f) \cup {None}))  BY <2>1
    <3>a. fresh \in Seq(Stored(f)) /\ KeepsFirst(fresh, batch, Keys(f, batch), KnownIn(f, x))
      BY <3>1, <3>2, FirstByKeyFacts
    <3> HIDE DEF fresh, x
    <3>3. /\ ToSet(fresh) \subseteq ToSet(batch)
          /\ f = "features" => HasRows(batch, Begun(x) \cup ToSet(fresh))
      BY <3>2, <3>a, LoadHasRows
    <3>4. QED  BY <3>3 DEF x
  <2>7. Begun(Texts(fresh)) = ToSet(fresh)
    <3> HIDE DEF f, batch
    <3>1. fresh \in Seq(Stored(f))  BY <2>1, FirstByKeyFacts
    <3> HIDE DEF fresh
    <3>2. QED  BY <3>1, BegunTexts
  <2>8. batch = run[r].batch[f]  OBVIOUS
  <2> HIDE DEF f, batch, fresh
  <2>9. RunFits(new, Begun(file["features"]))
    BY <2>1, <2>4, <2>5, <2>6, <2>7, <2>8 DEF RunFits, Files
  <2>10. QED  BY <2>2, <2>9, <1>2
<1>8. ASSUME NEW r \in Runs, Split(r) PROVE SpanInv'
  <2> DEFINE f == run[r].into
             rest == run[r].pending
             P == Pieces(Stored(f) \cup {None})
  <2>1. f \in Files /\ file[f] \in Seq(P) /\ rest \in Seq(P)  BY <1>1 DEF TextType
  <2>2. PICK n \in 1..(Len(rest) - 1) :
          /\ file' = [file EXCEPT ![f] = @ \o SubSeq(rest, 1, n)]
          /\ Set(r, [run[r] EXCEPT !.pending = SubSeq(@, n + 1, Len(@))])
    BY <1>8 DEF Split
  <2> DEFINE z == SubSeq(rest, n + 1, Len(rest))
             new == [run[r] EXCEPT !.pending = z]
  <2>3. run[r].pc = "append" /\ Set(r, new)  BY <1>8, <2>2 DEF Split
  <2>4. new.pc = "append" /\ new.into = f /\ new.pending = z /\ new.batch = run[r].batch
    <3>1. run[r] \in RunFields  BY <1>1
    <3>2. QED  BY <3>1, <2>3 DEF RunFields
  <2>5. RunFits(run[r], Begun(file["features"])) /\ run[r].into = f /\ run[r].pending = rest
    BY <1>1
  <2> HIDE DEF new, f, rest, z, P
  <2>6. /\ file'[f] = file[f] \o SubSeq(rest, 1, n)
        /\ \A g \in Files \ {f} : file'[g] = file[g]
    BY <2>1, <2>2 DEF TypeOK
  <2>7. /\ Begun(file'[f]) \cup Begun(z) = Begun(file[f]) \cup Begun(rest)
        /\ Begun(file[f]) \subseteq Begun(file'[f]) /\ Begun(z) \subseteq Begun(rest)
    <3> DEFINE x == file[f]
               y == file'[f]
    <3> HIDE DEF x, y
    <3>0. x \in Seq(P) /\ rest \in Seq(P)  BY <2>1 DEF x
    <3>1. y = x \o SubSeq(rest, 1, n) /\ z = SubSeq(rest, n + 1, Len(rest))
      BY <2>6 DEF x, y, z
    <3>a. CutInTwo(x, rest, n, x \o SubSeq(rest, 1, n), SubSeq(rest, n + 1, Len(rest)), x \o rest, P)
      BY <3>0, CutFacts
    <3>b. CutInTwo(x, rest, n, y, z, x \o rest, P)  BY <3>1, <3>a
    <3>2. /\ Begun(y) \cup Begun(z) = Begun(x) \cup Begun(rest)
          /\ Begun(x) \subseteq Begun(y) /\ Begun(z) \subseteq Begun(rest)
      BY <3>0, <3>b, BegunCut
    <3>3. QED  BY <3>2 DEF x, y
  <2>8. /\ Begun(file["features"]) \subseteq Begun(file'["features"])
        /\ RunFits(new, Begun(file'["features"]))
        /\ \A record \in Begun(file'["articles"]) :
              \/ record \in Begun(file["articles"])
              \/ run[r].into = "articles" /\ record \in ToSet(run[r].batch["articles"])
    <3>1. CASE f = "features"
      <4>1. file'["articles"] = file["articles"]  BY <3>1, <2>6 DEF Files
      <4>2. HasRows(run[r].batch["features"], Begun(file["features"]) \cup Begun(rest))
        BY <3>1, <2>3, <2>5 DEF RunFits
      <4>3. RunFits(new, Begun(file'["features"]))  BY <3>1, <4>2, <2>4, <2>5, <2>7 DEF RunFits
      <4>4. QED  BY <3>1, <4>1, <4>3, <2>7
    <3>2. CASE f = "articles"
      <4>1. file'["features"] = file["features"]  BY <3>2, <2>6 DEF Files
      <4>2. Begun(rest) \subseteq ToSet(run[r].batch["articles"])  BY <3>2, <2>5 DEF RunFits
      <4>3. RunFits(new, Begun(file["features"]))  BY <3>2, <4>2, <2>4, <2>5, <2>7 DEF RunFits
      <4>4. QED  BY <3>2, <4>1, <4>2, <4>3, <2>5, <2>7
    <3>3. QED  BY <3>1, <3>2, <2>1 DEF Files
  <2>9. QED  BY <2>3, <2>8, SpanKeeps
<1>9. ASSUME NEW r \in Runs, Close(r) PROVE SpanInv'
  <2> DEFINE f == run[r].into
             rest == run[r].pending
             P == Pieces(Stored(f) \cup {None})
             next == [run[r] EXCEPT !.pc = "load", !.into = "articles", !.pending = <<>>]
             done == [NewRun EXCEPT !.pc = "done"]
             new == IF f = "features" THEN next ELSE done
  <2>1. f \in Files /\ file[f] \in Seq(P) /\ rest \in Seq(P)  BY <1>1 DEF TextType
  <2>2. run[r].pc = "append" /\ file' = [file EXCEPT ![f] = @ \o rest] /\ Set(r, new)
    BY <1>9 DEF Close
  <2>3. /\ next.pc = "load" /\ next.into = "articles" /\ next.pending = <<>>
        /\ next.batch = run[r].batch
    <3>1. run[r] \in RunFields  BY <1>1
    <3>2. QED  BY <3>1 DEF RunFields
  <2>4. RunFits(run[r], Begun(file["features"])) /\ run[r].into = f /\ run[r].pending = rest
    BY <1>1
  <2>5. RunFits(done, Begun(file["features"]))  BY NewRunFits
  <2> HIDE DEF next, done, f, rest, P
  <2>6. file'[f] = file[f] \o rest /\ \A g \in Files \ {f} : file'[g] = file[g]
    BY <2>1, <2>2 DEF TypeOK
  <2>7. Begun(file'[f]) = Begun(file[f]) \cup Begun(rest)
    <3> DEFINE x == file[f]
    <3> HIDE DEF x
    <3>1. x \in Seq(P)  BY <2>1 DEF x
    <3>2. Begun(x \o rest) = Begun(x) \cup Begun(rest)  BY <2>1, <3>1, BegunJoined
    <3>3. QED  BY <3>2, <2>6 DEF x
  <2>8. /\ Begun(file["features"]) \subseteq Begun(file'["features"])
        /\ RunFits(new, Begun(file'["features"]))
        /\ \A record \in Begun(file'["articles"]) :
              \/ record \in Begun(file["articles"])
              \/ run[r].into = "articles" /\ record \in ToSet(run[r].batch["articles"])
    <3>1. CASE f = "features"
      <4>1. file'["articles"] = file["articles"]  BY <3>1, <2>6 DEF Files
      <4>2. HasRows(run[r].batch["features"], Begun(file["features"]) \cup Begun(rest))
        BY <3>1, <2>2, <2>4 DEF RunFits
      <4>3. Begun(<<>>) = {}
        <5>1. 1..Len(<<>>) = {}  OBVIOUS
        <5>2. QED  BY <5>1 DEF Begun
      <4>4. RunFits(next, Begun(file'["features"]))
        BY <3>1, <4>2, <4>3, <2>3, <2>4, <2>7 DEF RunFits
      <4>5. QED  BY <3>1, <4>1, <4>4, <2>7
    <3>2. CASE f = "articles"
      <4>1. file'["features"] = file["features"]  BY <3>2, <2>6 DEF Files
      <4>2. Begun(rest) \subseteq ToSet(run[r].batch["articles"])  BY <3>2, <2>4 DEF RunFits
      <4>3. QED  BY <3>2, <4>1, <4>2, <2>4, <2>5, <2>7
    <3>3. QED  BY <3>1, <3>2, <2>1 DEF Files
  <2> HIDE DEF new
  <2>9. QED  BY <2>2, <2>8, SpanKeeps
<1>10. CASE UNCHANGED vars
  <2>1. UNCHANGED <<run, file>>  BY <1>10 DEF vars
  <2>2. QED  BY <2>1 DEF SpanInv
<1>11. QED  BY <1>4, <1>5, <1>6, <1>7, <1>8, <1>9, <1>10 DEF Next, RunStep

\* Three pieces for each line that can be read: if that is all there is, every record that has
\* begun can be read.
LEMMA WholeFacts ==
    ASSUME NEW S, NEW text \in Seq(Pieces(S)),
           Cardinality(Readable(text)) * 3 \in {Len(text), Len(text) + 1},
           NEW p \in 1..Len(text), text[p].part = "head"
    PROVE  p \in Readable(text)
<1> SUFFICES ASSUME p \notin Readable(text) PROVE FALSE  OBVIOUS
<1> DEFINE A == Readable(text)
           n == Len(text)
           g == [i \in A |-> i + 1]
           B == {g[i] : i \in A}
           h == [i \in A |-> i + 2]
           C == {h[i] : i \in A}
           backB == [i \in B |-> i - 1]
           backC == [i \in C |-> i - 2]
           all == 1..(n + 1)
<1>1. n \in Nat /\ p \in 1..n /\ p \notin A /\ text[p].part = "head"  OBVIOUS
<1>2. \A i \in A : /\ i \in 1..(n - 1) /\ i \in Int
                   /\ i = 1 \/ text[i - 1].part = "end"
                   /\ text[i].part = "head" /\ text[i + 1].part = "rest"
                   /\ i + 1 = n \/ text[i + 2].part = "end"
  BY ReadableFacts
<1>3. IsFiniteSet(all) /\ Cardinality(all) = n + 1
  <2>1. 1 \in Int /\ n + 1 \in Int /\ 1 <= n + 1  BY <1>1
  <2> HIDE DEF n
  <2>2. QED  BY <2>1, FS_Interval
<1> HIDE DEF A, n
<1>4. IsFiniteSet(A)
  <2>1. A \in SUBSET all  BY <1>1, <1>2
  <2> HIDE DEF all
  <2>2. QED  BY <2>1, <1>3, FS_Subset
<1>5. IsFiniteSet(B) /\ IsFiniteSet(C)
  <2>1. DOMAIN g = A /\ g = [i \in A |-> g[i]] /\ DOMAIN h = A /\ h = [i \in A |-> h[i]]  OBVIOUS
  <2> HIDE DEF g, h
  <2>2. IsFiniteSet(B)  BY <2>1, <1>4, ValuesBounded
  <2>3. IsFiniteSet(C)  BY <2>1, <1>4, ValuesBounded
  <2>4. QED  BY <2>2, <2>3
<1>6. Cardinality(A) <= Cardinality(B)
  <2>1. DOMAIN backB = B /\ backB = [i \in B |-> backB[i]]  OBVIOUS
  <2>2. A = {backB[i] : i \in B}
    <3>1. \A i \in A : i + 1 \in B /\ backB[i + 1] = i  BY <1>2
    <3>2. \A i \in B : backB[i] \in A  BY <1>2
    <3> HIDE DEF backB, B
    <3>3. QED  BY <3>1, <3>2
  <2> HIDE DEF backB, B
  <2>3. QED  BY <2>1, <2>2, <1>5, ValuesBounded
<1>7. Cardinality(A) <= Cardinality(C)
  <2>1. DOMAIN backC = C /\ backC = [i \in C |-> backC[i]]  OBVIOUS
  <2>2. A = {backC[i] : i \in C}
    <3>1. \A i \in A : i + 2 \in C /\ backC[i + 2] = i  BY <1>2
    <3>2. \A i \in C : backC[i] \in A  BY <1>2
    <3> HIDE DEF backC, C
    <3>3. QED  BY <3>1, <3>2
  <2> HIDE DEF backC, C
  <2>3. QED  BY <2>1, <2>2, <1>5, ValuesBounded
<1>8. /\ \A b \in B : \E i \in A : b = i + 1
      /\ \A c \in C : \E i \in A : c = i + 2
  OBVIOUS
<1> HIDE DEF B, C
<1>9. A \cap B = {}
  <2> SUFFICES ASSUME NEW i \in A, i \in B PROVE FALSE  OBVIOUS
  <2>1. PICK j \in A : i = j + 1  BY <1>8
  <2>2. QED  BY <2>1, <1>2
<1>10. (A \cup B) \cap C = {}
  <2> SUFFICES ASSUME NEW c \in C, c \in A \cup B PROVE FALSE  OBVIOUS
  <2>1. PICK j \in A : c = j + 2  BY <1>8
  <2>2. c = n + 1 \/ text[c].part = "end"  BY <2>1, <1>1, <1>2
  <2>3. CASE c \in A  BY <2>2, <2>3, <1>1, <1>2
  <2>4. CASE c \in B
    <3>1. PICK k \in A : c = k + 1  BY <2>4, <1>8
    <3>2. c <= n /\ text[c].part = "rest"  BY <3>1, <1>1, <1>2
    <3>3. QED  BY <2>2, <3>2, <1>1
  <2>5. QED  BY <2>3, <2>4
<1> DEFINE D == A \cup B \cup C
<1>11. IsFiniteSet(D) /\ Cardinality(D) = Cardinality(A) + Cardinality(B) + Cardinality(C)
  <2>1. /\ IsFiniteSet(A \cup B)
        /\ Cardinality(A \cup B) = Cardinality(A) + Cardinality(B) - Cardinality(A \cap B)
    BY <1>4, <1>5, FS_Union
  <2>2. /\ IsFiniteSet((A \cup B) \cup C)
        /\ Cardinality((A \cup B) \cup C) =
             Cardinality(A \cup B) + Cardinality(C) - Cardinality((A \cup B) \cap C)
    BY <2>1, <1>5, FS_Union
  <2>3. Cardinality({}) = 0  BY FS_EmptySet
  <2>4. Cardinality(A) \in Nat /\ Cardinality(B) \in Nat /\ Cardinality(C) \in Nat
    BY <1>4, <1>5, FS_CardinalityType
  <2>5. Cardinality(A \cap B) = 0 /\ Cardinality((A \cup B) \cap C) = 0  BY <2>3, <1>9, <1>10
  <2>6. Cardinality(A \cup B) = Cardinality(A) + Cardinality(B)  BY <2>1, <2>4, <2>5
  <2>7. Cardinality((A \cup B) \cup C) = Cardinality(A) + Cardinality(B) + Cardinality(C)
    BY <2>2, <2>4, <2>5, <2>6
  <2>8. QED  BY <2>2, <2>7
<1>12. p \notin D
  <2>1. \A i \in A : p # i + 1 /\ p # i + 2  BY <1>1, <1>2
  <2>2. QED  BY <2>1, <1>1, <1>8
<1>13. p + 1 \notin D
  <2>1. \A i \in A : p + 1 # i /\ p + 1 # i + 1 /\ p + 1 # i + 2
    <3> SUFFICES ASSUME NEW i \in A PROVE p + 1 # i /\ p + 1 # i + 1 /\ p + 1 # i + 2  OBVIOUS
    <3>1. p + 1 # i
      <4>1. SUFFICES ASSUME p + 1 = i PROVE FALSE  OBVIOUS
      <4>2. i # 1 /\ i - 1 = p  BY <4>1, <1>1
      <4>3. QED  BY <4>2, <1>1, <1>2
    <3>2. p + 1 # i + 1  BY <1>1, <1>2
    <3>3. p + 1 # i + 2
      <4>1. SUFFICES ASSUME p + 1 = i + 2 PROVE FALSE  OBVIOUS
      <4>2. p = i + 1  BY <4>1, <1>1, <1>2
      <4>3. QED  BY <4>2, <1>1, <1>2
    <3>4. QED  BY <3>1, <3>2, <3>3
  <2>2. QED  BY <2>1, <1>8
<1>14. D \subseteq all
  <2>1. \A i \in A : i \in all /\ i + 1 \in all /\ i + 2 \in all  BY <1>1, <1>2
  <2>2. QED  BY <2>1, <1>8
<1> HIDE DEF D, all
<1>15. /\ IsFiniteSet(D \cup {p}) /\ Cardinality(D \cup {p}) = Cardinality(D) + 1
       /\ Cardinality(D) \in Nat
  BY <1>11, <1>12, FS_AddElement, FS_CardinalityType
<1> DEFINE E == D \cup {p}
<1>16. p + 1 \notin E  BY <1>1, <1>13
<1>17. IsFiniteSet(E) /\ Cardinality(E) = Cardinality(D) + 1  BY <1>15
<1>18. E \cup {p + 1} \in SUBSET all
  <2>1. p \in all /\ p + 1 \in all  BY <1>1 DEF all
  <2>2. QED  BY <2>1, <1>14
<1> HIDE DEF E
<1>19. IsFiniteSet(E \cup {p + 1}) /\ Cardinality(E \cup {p + 1}) = Cardinality(E) + 1
  BY <1>16, <1>17, FS_AddElement
<1>20. Cardinality(E \cup {p + 1}) <= Cardinality(all)  BY <1>3, <1>18, FS_Subset
<1>21. Cardinality(A) \in Nat /\ Cardinality(B) \in Nat /\ Cardinality(C) \in Nat
  BY <1>4, <1>5, FS_CardinalityType
<1>22. Cardinality(A) + Cardinality(B) + Cardinality(C) + 2 <= n + 1
  BY <1>3, <1>11, <1>15, <1>17, <1>19, <1>20, <1>21
<1>23. Cardinality(A) * 3 \in {n, n + 1}  BY DEF A, n
<1>24. QED  BY <1>1, <1>6, <1>7, <1>21, <1>22, <1>23

\* A stored article lies, for each of its topics, in the span of a stored row, whichever runs
\* overlapped or were stopped between the stores, as long as no line of the features is broken.
THEOREM RowsSpanArticlesHolds == Spec => []RowsSpanArticles
<1>1. TypeOK /\ SpanInv => RowsSpanArticles
  <2> SUFFICES ASSUME TypeOK, SpanInv, Whole("features"), NEW i \in Readable(file["articles"]),
                      NEW topic \in ToSet(file["articles"][i].of.topics)
               PROVE  Spanned(file["articles"][i].of, topic)
    BY DEF RowsSpanArticles
  <2> DEFINE record == file["articles"][i].of
             text == file["features"]
  <2>1. /\ file["articles"] \in Seq(Pieces(Stored("articles") \cup {None}))
        /\ text \in Seq(Pieces(Stored("features") \cup {None}))
    BY DEF TypeOK, TextType, Files
  <2>2. i \in 1..(Len(file["articles"]) - 1) /\ file["articles"][i].part = "head"
    BY <2>1, ReadableFacts
  <2>3. i \in 1..Len(file["articles"])  BY <2>2
  <2>4. record \in Begun(file["articles"])  BY <2>2, <2>3 DEF Begun
  <2>5. Covered(Begun(text), record, topic)  BY <2>4 DEF SpanInv
  <2> HIDE DEF record
  <2>6. PICK row \in Begun(text) :
          /\ row.date = DateOf(record.article) /\ row.topic = topic
          /\ Kind[record.article].stamp = None
             \/ (row.earliest <= Kind[record.article].stamp /\ Kind[record.article].stamp <= row.latest)
    BY <2>5 DEF Covered
  <2>7. PICK p \in 1..Len(text) : text[p].part = "head" /\ row = text[p].of  BY DEF Begun
  <2>8. Cardinality(Readable(text)) * 3 \in {Len(text), Len(text) + 1}  BY DEF Whole
  <2> HIDE DEF text
  <2>9. p \in Readable(text)  BY <2>1, <2>7, <2>8, WholeFacts
  <2>10. Spanned(record, topic)  BY <2>6, <2>7, <2>9 DEF Spanned, text
  <2>11. QED  BY <2>10 DEF record
<1>2. Init => TypeOK /\ SpanInv  BY TypeInitial, SpanInitial
<1>3. TypeOK /\ SpanInv /\ [Next]_vars => (TypeOK /\ SpanInv)'  BY TypeStep, SpanStep
<1>4. QED  BY <1>1, <1>2, <1>3, PTL DEF Spec

-----------------------------------------------------------------------------
(* What the published state of a pilot announces.                          *)

\* The artifacts that are there when a phase begins, whatever came before.
Held(phase) ==
    CASE phase \in {"sampled", "summary", "calibration"} ->
            {"plan", "representative", "challenge", "pairs"}
      [] phase \in {"calibrated", "labels", "blocked"} ->
            {"representative", "challenge", "calibration batch"}
      [] phase = "review" ->
            {"representative", "challenge", "calibration batch", "calibration labels"}
      [] phase = "gate" -> {"representative", "challenge"}
      [] phase = "formal" -> {"representative", "challenge", "formal batch"}
      [] phase = "analysis" -> {"predictions"}
      [] phase = "analyzed" -> {"adjudicated labels", "predictions", "metrics"}
      [] phase \in {"decide", "publish"} -> {"reconciliation"}
      [] OTHER -> {}

\* With them, a run that has adjudicated labels has copied them before it
\* compares its baselines with them, and it has a state once it has begun.
PilotInv ==
    /\ StateBackedByFiles
    /\ Held(pc) \subseteq files
    /\ pc \in {"duplicates", "analysis"} /\ Adjudicated => "adjudicated labels" \in files
    /\ pc \notin {"start", "raised"} => state # Absent

LEMMA PilotInitial == PilotInit => PilotInv
BY PilotAssumption
DEF PilotStates, ReadinessStatuses, PilotInit, PilotInv, StateBackedByFiles, Announced, Held, Adjudicated

\* Writing keeps the invariant when what the next phase relies on is there.
LEMMA WriteKeeps ==
    ASSUME PilotInv, NEW STATE from, NEW to, NEW new, Write(from, to, new),
           Held(to) \subseteq files \cup new, "metadata" \notin new,
           to \in {"duplicates", "analysis"} /\ Adjudicated =>
              "adjudicated labels" \in files \cup new,
           from \notin {"start", "raised"} \/ to = "raised"
    PROVE  PilotInv'
<1>1. files' = files \cup new /\ pc' = to /\ pc = from  BY DEF Write
<1>2. state' = state /\ readiness' = readiness /\ params' = params  BY DEF Write, inputs
<1>3. StateBackedByFiles'  BY <1>1, <1>2 DEF PilotInv, StateBackedByFiles
<1>4. Held(pc)' \subseteq files'  BY <1>1
<1>5. Adjudicated' = Adjudicated  BY <1>2 DEF Adjudicated
<1>6. QED  BY <1>1, <1>2, <1>3, <1>4, <1>5 DEF PilotInv

\* Publishing a state keeps it when what that announces is there.
LEMMA EmitKeeps ==
    ASSUME PilotInv, NEW from, NEW to, NEW s, Emit(from, to, s),
           Held(to) \subseteq files, Announced(s) \subseteq files,
           to = "duplicates" => ~Adjudicated, to # "analysis"
    PROVE  PilotInv'
<1>1. files' = files /\ pc' = to /\ state' = s /\ s # Absent
  BY PilotAssumption DEF Emit
<1>2. readiness' = readiness /\ params' = params  BY DEF Emit, inputs
<1>3. StateBackedByFiles'  BY <1>1, <1>2 DEF PilotInv, StateBackedByFiles
<1>4. Held(pc)' \subseteq files'  BY <1>1
<1>5. Adjudicated' = Adjudicated  BY <1>2 DEF Adjudicated
<1>6. QED  BY <1>1, <1>3, <1>4, <1>5 DEF PilotInv

\* A decision is a status, and READY only with the approval.
LEMMA DecisionFacts ==
    ASSUME NEW STATE available, NEW STATE complete
    PROVE  /\ Decision(available, complete) # Absent
           /\ Decision(available, complete) = "READY" => params.approved
BY PilotAssumption DEF Decision, ReadinessStatuses

\* The run ends with a decision.
LEMMA DecideKeeps ==
    ASSUME PilotInv, NEW from, from # "start", from # "raised", NEW new, NEW STATE status,
           status # Absent, status = "READY" => params.approved,
           Decide(from, "done", status, new)
    PROVE  PilotInv'
<1>1. /\ files' = files \cup {"readiness"} \cup new
      /\ pc' = "done" /\ pc = from /\ readiness' = status
  BY DEF Decide
<1>2. state' = state /\ params' = params  BY DEF Decide, inputs
<1>3. state # Absent  BY <1>1 DEF PilotInv
<1>4. StateBackedByFiles'
  BY <1>1, <1>2, <1>3 DEF PilotInv, StateBackedByFiles
<1>5. Held(pc)' \subseteq files'  BY <1>1 DEF Held
<1>6. QED  BY <1>1, <1>2, <1>3, <1>4, <1>5 DEF PilotInv

LEMMA PilotStep == PilotInv /\ [PilotNext]_pilotVars => PilotInv'
<1> SUFFICES ASSUME PilotInv, [PilotNext]_pilotVars PROVE PilotInv'  OBVIOUS
<1>0. /\ Held(pc) \subseteq files
      /\ pc \in {"duplicates", "analysis"} /\ Adjudicated => "adjudicated labels" \in files
  BY DEF PilotInv
<1>1. CASE MissingCorpus
  BY <1>1, EmitKeeps DEF MissingCorpus, Held, Announced
<1>2. CASE DecideMissingCorpus
  <2>1. Decision(FALSE, FALSE) # Absent /\ (Decision(FALSE, FALSE) = "READY" => params.approved)
    BY DecisionFacts
  <2>2. QED  BY <1>2, <2>1, DecideKeeps DEF DecideMissingCorpus
<1>3. CASE MissingProvenance
  BY <1>3, EmitKeeps DEF MissingProvenance, Held, Announced
<1>4. CASE SummarizeMissingProvenance
  BY <1>4, WriteKeeps DEF SummarizeMissingProvenance, Held
<1>5. CASE Preflight  BY <1>5, EmitKeeps DEF Preflight, Held, Announced
<1>6. CASE Import \/ Cluster \/ BuildFrame \/ Sample \/ FormalBatch
  <2>1. /\ state' = state /\ readiness' = readiness /\ params' = params
        /\ pc # "start" /\ pc # "raised"
    BY <1>6 DEF Import, Cluster, BuildFrame, Sample, FormalBatch, inputs
  <2>2. files \subseteq files' /\ ("metadata" \in files' => "metadata" \in files)
    BY <1>6 DEF Import, Cluster, BuildFrame, Sample, FormalBatch
  <2>3. Held(pc)' \subseteq files'
    BY <1>0, <1>6 DEF Import, Cluster, BuildFrame, Sample, FormalBatch, Held
  <2>4. pc' \notin {"duplicates", "analysis", "start", "raised"}
    BY <1>6 DEF Import, Cluster, BuildFrame, Sample, FormalBatch
  <2>5. StateBackedByFiles'  BY <2>1, <2>2 DEF PilotInv, StateBackedByFiles
  <2>6. QED  BY <2>1, <2>3, <2>4, <2>5 DEF PilotInv
<1>7. CASE EmptyFrame  BY <1>7, EmitKeeps DEF EmptyFrame, Held, Announced
<1>8. CASE DecideEmptyFrame
  <2>1. Decision(FALSE, FALSE) # Absent /\ (Decision(FALSE, FALSE) = "READY" => params.approved)
    BY DecisionFacts
  <2>2. QED  BY <1>8, <2>1, DecideKeeps DEF DecideEmptyFrame
<1>9. CASE PlanReady
  <2>1. Held("sampled") \subseteq files  BY <1>0, <1>9 DEF PlanReady, Emit
  <2>2. QED  BY <1>9, <2>1, EmitKeeps DEF PlanReady, Held, Announced
<1>10. CASE Summarize
  <2>1. Held("summary") \subseteq files  BY <1>0, <1>10 DEF Summarize, Write
  <2>2. QED  BY <1>10, <2>1, WriteKeeps DEF Summarize, Held
<1>11. CASE WriteCalibration
  <2>1. Held("calibration") \subseteq files  BY <1>0, <1>11 DEF WriteCalibration, Write
  <2>2. QED  BY <1>11, <2>1, WriteKeeps DEF WriteCalibration, Held
<1>12. CASE CalibrationReady
  <2>1. Held("calibrated") \subseteq files  BY <1>0, <1>12 DEF CalibrationReady, Emit
  <2>2. QED  BY <1>12, <2>1, EmitKeeps DEF CalibrationReady, Held, Announced
<1>13. CASE CalibrationLabels
  <2>1. Held("labels") \subseteq files  BY <1>0, <1>13 DEF CalibrationLabels, Write
  <2>2. QED  BY <1>13, <2>1, WriteKeeps DEF CalibrationLabels, Held
<1>14. CASE CalibrationReview
  <2>1. Held("review") \subseteq files  BY <1>0, <1>14 DEF CalibrationReview, Emit
  <2>2. QED  BY <1>14, <2>1, EmitKeeps DEF CalibrationReview, Held, Announced
<1>15. CASE CalibrationAdjudicated
  <2>1. Held("review") \subseteq files  BY <1>0, <1>15 DEF CalibrationAdjudicated, Write
  <2>2. QED  BY <1>15, <2>1, WriteKeeps DEF CalibrationAdjudicated, Held
<1>16. CASE CalibrationIncomplete
  <2>1. Held("labels") \subseteq files  BY <1>0, <1>16 DEF CalibrationIncomplete, Emit
  <2>2. QED  BY <1>16, <2>1, EmitKeeps DEF CalibrationIncomplete, Held, Announced
<1>17. CASE DecideCalibration
  <2>1. Held("blocked") \subseteq files  BY <1>0, <1>17 DEF DecideCalibration, Write
  <2>2. QED  BY <1>17, <2>1, WriteKeeps DEF DecideCalibration, Held
<1>18. CASE ApprovalRequired  BY <1>18, EmitKeeps DEF ApprovalRequired, Held, Announced
<1>19. CASE DecideUnapproved
  <2>1. /\ Decision(TRUE, samples.representative # {}) # Absent
        /\ Decision(TRUE, samples.representative # {}) = "READY" => params.approved
    BY DecisionFacts
  <2>2. QED  BY <1>19, <2>1, DecideKeeps DEF DecideUnapproved
<1>20. CASE FormalReady
  <2>1. Held("formal") \subseteq files  BY <1>0, <1>20 DEF FormalReady, Emit
  <2>2. QED  BY <1>20, <2>1, EmitKeeps DEF FormalReady, Held, Announced
<1>21. CASE FormalIncomplete
  <2>1. ~Adjudicated  BY <1>21, PilotAssumption DEF FormalIncomplete, Adjudicated
  <2>2. QED  BY <1>21, <2>1, EmitKeeps DEF FormalIncomplete, Held, Announced
<1>22. CASE FormalLabels  BY <1>22, WriteKeeps DEF FormalLabels, Held
<1>23. CASE AdjudicationRequired
  <2>1. ~Adjudicated  BY <1>23 DEF AdjudicationRequired, Adjudicated
  <2>2. QED  BY <1>23, <2>1, EmitKeeps DEF AdjudicationRequired, Held, Announced
<1>24. CASE LoadAdjudicated  BY <1>24, WriteKeeps DEF LoadAdjudicated, Held
<1>25. CASE WriteBaselines
  <2>1. Adjudicated => "adjudicated labels" \in files  BY <1>0, <1>25 DEF WriteBaselines, Write
  <2>2. QED  BY <1>25, <2>1, WriteKeeps DEF WriteBaselines, Held
<1>26. CASE WriteMetrics
  <2>1. "adjudicated labels" \in files /\ Held("analysis") \subseteq files
    BY <1>0, <1>26 DEF WriteMetrics, Write
  <2>2. QED  BY <1>26, <2>1, WriteKeeps DEF WriteMetrics, Held
<1>27. CASE AnalysisReady
  <2>1. Held("analyzed") \subseteq files  BY <1>0, <1>27 DEF AnalysisReady, Emit
  <2>2. QED  BY <1>27, <2>1, EmitKeeps DEF AnalysisReady, Held, Announced
<1>28. CASE NoAnalysis  BY <1>28, WriteKeeps DEF NoAnalysis, Held
<1>29. CASE Reconcile
  <2>1. /\ files' = files \cup {"reconciliation"} /\ pc' = "decide" /\ pc = "reconcile"
        /\ state' = state \/ state' = "BENCHMARK_BUILD_REVIEW_REQUIRED"
        /\ readiness' = readiness /\ params' = params
    BY <1>29 DEF Reconcile, inputs
  <2>2. state # Absent /\ state' # Absent
    BY <2>1, PilotAssumption DEF PilotInv, PilotStates
  <2>3. Announced(state)' \subseteq files'
    BY <2>1 DEF PilotInv, StateBackedByFiles, Announced
  <2>4. Held(pc)' \subseteq files'  BY <2>1 DEF Held
  <2>5. StateBackedByFiles'  BY <2>1, <2>2, <2>3 DEF PilotInv, StateBackedByFiles
  <2>6. QED  BY <2>1, <2>2, <2>4, <2>5 DEF PilotInv
<1>30. CASE ReviewRequired
  <2>1. Held("decide") \subseteq files  BY <1>0, <1>30 DEF ReviewRequired, Emit
  <2>2. QED  BY <1>30, <2>1, EmitKeeps DEF ReviewRequired, Held, Announced
<1>31. CASE NoReview
  <2>1. Held("decide") \subseteq files  BY <1>0, <1>31 DEF NoReview, Write
  <2>2. QED  BY <1>31, <2>1, WriteKeeps DEF NoReview, Held
<1>32. CASE Publish
  <2>1. FinalDecision # Absent /\ (FinalDecision = "READY" => params.approved)
    BY DecisionFacts DEF FinalDecision
  <2>2. QED  BY <1>32, <2>1, DecideKeeps DEF Publish
<1>33. CASE Raise  BY <1>33, WriteKeeps DEF Raise, Held
<1>34. CASE UNCHANGED pilotVars
  <2>1. /\ pc' = pc /\ state' = state /\ files' = files
        /\ readiness' = readiness /\ params' = params
    BY <1>34 DEF pilotVars, inputs
  <2>2. QED  BY <2>1 DEF PilotInv, StateBackedByFiles, Adjudicated
<1>35. QED
  BY <1>1, <1>2, <1>3, <1>4, <1>5, <1>6, <1>7, <1>8, <1>9, <1>10, <1>11, <1>12, <1>13, <1>14,
     <1>15, <1>16, <1>17, <1>18, <1>19, <1>20, <1>21, <1>22, <1>23, <1>24, <1>25, <1>26, <1>27,
     <1>28, <1>29, <1>30, <1>31, <1>32, <1>33, <1>34
  DEF PilotNext

\* Whenever a pilot stops, wherever a phase raised, the artifacts that its
\* published state announces are written, and no decision is READY without
\* the approval of a person.
THEOREM StateBackedByFilesHolds == PilotSpec => []StateBackedByFiles
<1>1. PilotInv => StateBackedByFiles  BY DEF PilotInv
<1>2. QED  BY <1>1, PilotInitial, PilotStep, PTL DEF PilotSpec

-----------------------------------------------------------------------------
(* The size of a sample.                                                   *)

\* The ranks of a pool under a salt are numbers.
Ranked(pool, salt) == IsFiniteSet(pool) /\ \A u \in pool : Rank(salt, u) \in Int

\* A finite set holds a member of the lowest rank.
LEMMA LowestMember ==
    ASSUME NEW pool, NEW salt, Ranked(pool, salt), pool # {}
    PROVE  \E u \in pool : \A v \in pool : ~(Rank(salt, v) < Rank(salt, u))
<1> DEFINE ranks == {Rank(salt, u) : u \in pool}
<1>1. IsFiniteSet(ranks)
  <2> DEFINE rank == [u \in pool |-> Rank(salt, u)]
  <2>1. rank \in Surjection(pool, ranks)  BY DEF Surjection
  <2>2. QED  BY <2>1, FS_Surjection DEF Ranked
<1>2. ranks \subseteq Int /\ ranks # {}  BY DEF Ranked
<1> HIDE DEF ranks
<1>3. Min(ranks) \in ranks /\ \A y \in ranks : Min(ranks) <= y  BY <1>1, <1>2, Extremes
<1>4. PICK u \in pool : Rank(salt, u) = Min(ranks)  BY <1>3 DEF ranks
<1>5. \A v \in pool : Rank(salt, v) \in ranks  BY DEF ranks
<1>6. \A v \in pool : Rank(salt, u) <= Rank(salt, v)  BY <1>3, <1>4, <1>5
<1>7. QED  BY <1>6 DEF Ranked

\* The k units of the lowest ranks are at least k or the whole pool, whatever
\* ranks are equal: behind the first unit that is not among them are k others.
LEMMA LowestRankedSize ==
    ASSUME NEW pool, NEW salt, NEW k \in Int, Ranked(pool, salt)
    PROVE  /\ LowestRanked(pool, k, salt) \subseteq pool
           /\ \/ LowestRanked(pool, k, salt) = pool
              \/ Cardinality(LowestRanked(pool, k, salt)) >= k
<1> DEFINE lowest == LowestRanked(pool, k, salt)
           Ahead(u) == {v \in pool : Rank(salt, v) < Rank(salt, u)}
           others == pool \ lowest
<1>1. lowest \subseteq pool  BY DEF LowestRanked
<1>2. \A u \in pool : u \notin lowest => ~(Cardinality(Ahead(u)) < k)  BY DEF LowestRanked
<1> HIDE DEF lowest
<1>3. CASE others = {}  BY <1>1, <1>3 DEF lowest
<1>4. CASE others # {}
  <2>1. Ranked(others, salt)
    <3>1. IsFiniteSet(others)  BY FS_Subset DEF Ranked
    <3>2. QED  BY <3>1 DEF Ranked
  <2> HIDE DEF others
  <2>2. PICK u \in others : \A v \in others : ~(Rank(salt, v) < Rank(salt, u))
    BY <1>4, <2>1, LowestMember
  <2>3. u \in pool /\ u \notin lowest  BY DEF others
  <2>4. Ahead(u) \subseteq lowest
    <3> SUFFICES ASSUME NEW v \in Ahead(u), v \notin lowest PROVE FALSE  OBVIOUS
    <3>1. v \in others  BY DEF others
    <3>2. QED  BY <3>1, <2>2
  <2>5. IsFiniteSet(lowest) /\ IsFiniteSet(Ahead(u))
    BY <1>1, FS_Subset, Ahead(u) \subseteq pool DEF Ranked
  <2>6. Cardinality(Ahead(u)) <= Cardinality(lowest)
    <3> HIDE DEF Ahead
    <3>1. QED  BY <2>4, <2>5, FS_Subset
  <2>7. Cardinality(Ahead(u)) \in Nat /\ Cardinality(lowest) \in Nat
    <3> HIDE DEF Ahead
    <3>1. QED  BY <2>5, FS_CardinalityType
  <2>8. ~(Cardinality(Ahead(u)) < k)  BY <1>2, <2>3
  <2> HIDE DEF Ahead
  <2>9. Cardinality(lowest) >= k  BY <2>6, <2>7, <2>8
  <2>10. QED  BY <1>1, <2>9 DEF lowest
<1>5. QED  BY <1>3, <1>4

\* Whatever the allocation gives the strata, the fill makes up for it: the
\* representative sample is as large as its target, or all of the frame.
LEMMA RepresentativeSize ==
    ASSUME NEW f, NEW target \in Int, Ranked(DOMAIN f, <<"main">>)
    PROVE  /\ Representative(f, target).units \subseteq DOMAIN f
           /\ \/ Representative(f, target).units = DOMAIN f
              \/ Cardinality(Representative(f, target).units) >= target
<1> DEFINE n == Allocation(f, target)
           drawnUnits == UNION {LowestRanked(InStratum(f, h), n[h], <<"main">>) : h \in Strata(f)}
           filled == LowestRanked(DOMAIN f \ drawnUnits, target - Cardinality(drawnUnits), <<"main">>)
           units == drawnUnits \cup filled
<1>1. drawnUnits \subseteq DOMAIN f
  <2> SUFFICES ASSUME NEW h \in Strata(f), NEW u \in LowestRanked(InStratum(f, h), n[h], <<"main">>)
               PROVE  u \in DOMAIN f
    OBVIOUS
  <2> HIDE DEF n
  <2>1. QED  BY DEF LowestRanked, InStratum
<1>2. CASE f = << >> \/ target = 0
  <2>1. Representative(f, target).units = {}  BY <1>2, Zenon DEF Representative
  <2>2. f = << >> => DOMAIN f = {}  OBVIOUS
  <2>3. Cardinality({}) = 0  BY FS_EmptySet
  <2>4. QED  BY <1>2, <2>1, <2>2, <2>3
<1>3. CASE ~(f = << >> \/ target = 0)
  <2>1. Representative(f, target).units = units
    <3>1. \E sizes : Representative(f, target) = [units |-> units, sizes |-> sizes]
      BY <1>3 DEF Representative
    <3> HIDE DEF units
    <3>2. QED  BY <3>1
  <2> HIDE DEF drawnUnits
  <2>2. IsFiniteSet(drawnUnits) /\ Cardinality(drawnUnits) \in Nat
    BY <1>1, FS_Subset, FS_CardinalityType DEF Ranked
  <2>3. Ranked(DOMAIN f \ drawnUnits, <<"main">>)
    <3>1. IsFiniteSet(DOMAIN f \ drawnUnits)  BY FS_Subset DEF Ranked
    <3>2. QED  BY <3>1 DEF Ranked
  <2>4. target - Cardinality(drawnUnits) \in Int  BY <2>2
  <2>5. /\ filled \subseteq DOMAIN f \ drawnUnits
        /\ \/ filled = DOMAIN f \ drawnUnits
           \/ Cardinality(filled) >= target - Cardinality(drawnUnits)
    BY <2>3, <2>4, LowestRankedSize
  <2> HIDE DEF filled
  <2>6. units \subseteq DOMAIN f  BY <1>1, <2>5
  <2>7. CASE filled = DOMAIN f \ drawnUnits
    <3>1. units = DOMAIN f  BY <1>1, <2>7
    <3>2. QED  BY <2>1, <3>1
  <2>8. CASE Cardinality(filled) >= target - Cardinality(drawnUnits)
    <3>1. IsFiniteSet(filled)  BY <1>1, <2>5, FS_Subset DEF Ranked
    <3>2. Cardinality(filled) \in Nat  BY <3>1, FS_CardinalityType
    <3>3. Cardinality(units) = Cardinality(drawnUnits) + Cardinality(filled)
      <4>1. drawnUnits \cap filled = {}  BY <2>5
      <4>2. Cardinality(units) =
               Cardinality(drawnUnits) + Cardinality(filled) - Cardinality(drawnUnits \cap filled)
        BY <2>2, <3>1, FS_Union
      <4>3. Cardinality({}) = 0  BY FS_EmptySet
      <4>4. Cardinality(drawnUnits \cap filled) = 0  BY <4>1, <4>3
      <4>5. QED  BY <4>2, <4>4, <2>2, <3>2
    <3>4. Cardinality(units) >= target  BY <3>2, <3>3, <2>2, <2>8
    <3>5. QED  BY <2>1, <2>6, <3>4
  <2>9. QED  BY <2>5, <2>7, <2>8
<1>4. QED  BY <1>2, <1>3


-----------------------------------------------------------------------------
(* The size of the plan.                                                   *)

LEMMA LeastOfTwo ==
    ASSUME NEW a \in Int, NEW b \in Int
    PROVE  AtMost(a, b) \in Int /\ (AtMost(a, b) = a \/ AtMost(a, b) = b)
<1>1. IsFiniteSet({a, b})
  <2>1. IsFiniteSet({}) /\ IsFiniteSet({a}) /\ {a, b} = {a} \cup {b}
    BY FS_EmptySet, FS_Singleton
  <2>2. IsFiniteSet({b})  BY FS_Singleton
  <2>3. QED  BY <2>1, <2>2, FS_Union
<1>2. Min({a, b}) \in {a, b}  BY <1>1, Extremes
<1>3. QED  BY <1>2 DEF AtMost

LEMMA RoundedUp ==
    ASSUME NEW a \in Nat, NEW m \in Nat \ {0}
    PROVE  /\ m * ((a + m - 1) \div m) \in Int
           /\ m * ((a + m - 1) \div m) >= a
<1> DEFINE q == (a + m - 1) \div m
           x == a + m - 1
<1>1. x \in Nat  OBVIOUS
<1> HIDE DEF x
<1>2. x \div m \in Int /\ m * (x \div m) <= x /\ x < m * (x \div m) + m
  BY <1>1
<1>3. m * (x \div m) \in Int  BY <1>2
<1>4. QED  BY <1>2, <1>3 DEF x

Scenario(s) == s.precision \in Nat \ {0} /\ s.positive \in Nat /\ s.negative \in Nat

LEMMA ScenarioFacts ==
    ASSUME NEW s, Scenario(s), NEW n \in Nat \ {0}
    PROVE  /\ ScenarioNeeds(s, n) \in Nat
           /\ ScenarioNeeds(s, n) >= s.positive /\ ScenarioNeeds(s, n) >= s.negative
<1> DEFINE c == Corrected(s.precision, n)
<1>1. c \in Int
  <2> DEFINE up == n * s.precision + (n + s.precision - 2)
             down == n + s.precision - 1
  <2>1. up \in Int /\ down \in Nat \ {0}  BY DEF Scenario
  <2> HIDE DEF up, down
  <2>2. up \div down \in Int  BY <2>1
  <2>3. c = up \div down  BY DEF Corrected, up, down
  <2>4. QED  BY <2>2, <2>3
<1> HIDE DEF c
<1>2. ScenarioNeeds(s, n) = LET least == IF s.positive > s.negative THEN s.positive ELSE s.negative
                            IN  IF c > least THEN c ELSE least
  BY DEF ScenarioNeeds, c
<1>3. QED  BY <1>1, <1>2 DEF Scenario

Scenarios == IsFiniteSet(params.scenarios) /\ \A s \in params.scenarios : Scenario(s)

LEMMA RequiredFacts ==
    ASSUME Scenarios, params.scenarios # {}, NEW n \in Nat \ {0}
    PROVE  /\ Required(n) \in Nat
           /\ \A s \in params.scenarios : ScenarioNeeds(s, n) <= Required(n)
<1> DEFINE needs == {ScenarioNeeds(s, n) : s \in params.scenarios}
<1>1. IsFiniteSet(needs)
  <2> DEFINE need == [s \in params.scenarios |-> ScenarioNeeds(s, n)]
  <2>1. need \in Surjection(params.scenarios, needs)  BY DEF Surjection
  <2>2. QED  BY <2>1, FS_Surjection DEF Scenarios
<1>2. needs \subseteq Nat /\ needs # {}  BY ScenarioFacts DEF Scenarios
<1>3. \E size \in needs : \A s \in params.scenarios : ScenarioNeeds(s, n) <= size
  <2>1. \A s \in params.scenarios : ScenarioNeeds(s, n) \in needs  OBVIOUS
  <2>b. needs \subseteq Int /\ needs # {}  BY <1>2
  <2> HIDE DEF needs
  <2>2. Max(needs) \in needs /\ \A y \in needs : y <= Max(needs)  BY <1>1, <2>b, Extremes
  <2>3. QED  BY <2>1, <2>2
<1>4. Required(n) \in needs /\ \A s \in params.scenarios : ScenarioNeeds(s, n) <= Required(n)
  BY <1>3, Zenon DEF Required
<1> HIDE DEF needs
<1>5. QED  BY <1>2, <1>4

\* Neither the reserve nor the rounding takes a unit, and the cap only those
\* that are not there.
LEMMA OperationalFacts ==
    ASSUME Scenarios, params.scenarios # {}, params.multiple \in Nat \ {0}, NEW n \in Nat \ {0}
    PROVE  /\ Operational(n) \in Int
           /\ Operational(n) >= Required(n) \/ Operational(n) = n
<1> DEFINE r == Required(n)
           reserved == (10 * r + 8) \div 9
           m == params.multiple
           rounded == m * ((reserved + m - 1) \div m)
<1>1. r \in Nat  BY RequiredFacts
<1>2. Operational(n) = AtMost(rounded, n)  BY DEF Operational
<1> HIDE DEF r
<1>3. reserved \in Nat /\ reserved >= r  BY <1>1
<1> HIDE DEF reserved
<1>4. rounded \in Int /\ rounded >= reserved  BY <1>3, RoundedUp
<1> HIDE DEF rounded
<1>n. n \in Int  OBVIOUS
<1>5. AtMost(rounded, n) \in Int /\ (AtMost(rounded, n) = rounded \/ AtMost(rounded, n) = n)
  BY <1>4, <1>n, LeastOfTwo
<1>6. Operational(n) >= r \/ Operational(n) = n  BY <1>1, <1>2, <1>3, <1>4, <1>5
<1>7. QED  BY <1>2, <1>5, <1>6 DEF r

-----------------------------------------------------------------------------
(* The sample and the frame that it was drawn from.                        *)

ArticleIds(lines) == {lines[i].id : i \in 1..Len(lines)}

\* Until the frame is there, nothing has been drawn.
EarlyPhases == {"start", "import", "cluster", "eligibility"}

\* The articles and units are those of the corpus; the representative sample
\* is still the one that was drawn, from the frame that is still there.
SampleInv ==
    /\ \E given \in Given : rows = given.rows /\ params = given.params
    /\ DOMAIN records \subseteq ArticleIds(rows)
    /\ DOMAIN frame \subseteq ArticleIds(rows)
    /\ "representative" \in DOMAIN samples
    /\ pc \in EarlyPhases => "representative" \notin files
    /\ pc = "sample" => DOMAIN frame # {}
    /\ "representative" \in files =>
          /\ DOMAIN frame # {}
          /\ samples.representative = Representative(frame, RepresentativeTarget).units

LEMMA SampleInitial == PilotInit => SampleInv
<1> SUFFICES ASSUME PilotInit PROVE SampleInv  OBVIOUS
<1>1. DOMAIN records = {} /\ DOMAIN frame = {}  BY DEF PilotInit
<1>2. "representative" \in DOMAIN samples  BY DEF PilotInit, NoSamples
<1>3. QED  BY <1>1, <1>2 DEF PilotInit, SampleInv

\* The steps that touch neither the frame nor the representative sample.
LEMMA SampleKept ==
    ASSUME SampleInv, inputs' = inputs, records' = records, frame' = frame,
           "representative" \in DOMAIN samples', samples'.representative = samples.representative,
           "representative" \in files' => "representative" \in files,
           pc' \in EarlyPhases => pc \in EarlyPhases, pc' = "sample" => pc = "sample"
    PROVE  SampleInv'
<1>1. rows' = rows /\ params' = params  BY DEF inputs
<1>2. RepresentativeTarget' = RepresentativeTarget
  BY <1>1 DEF RepresentativeTarget, Underfilled, Operational, Required
<1>3. "representative" \in files' =>
          DOMAIN frame' # {} /\ samples'.representative = Representative(frame', RepresentativeTarget').units
  BY <1>2 DEF SampleInv
<1>4. (\E given \in Given : rows = given.rows /\ params = given.params)'  BY <1>1 DEF SampleInv
<1>5. QED  BY <1>1, <1>3, <1>4 DEF SampleInv

LEMMA FrameWithin ==
    ASSUME NEW corpus, NEW cs, NEW near
    PROVE  /\ DOMAIN Frame(corpus, cs, near) = Canonicals(cs) \cap Eligible(corpus, cs)
           /\ DOMAIN Frame(corpus, cs, near) \subseteq DOMAIN corpus
<1>1. DOMAIN Frame(corpus, cs, near) = Canonicals(cs) \cap Eligible(corpus, cs)  BY DEF Frame
<1>2. Eligible(corpus, cs) \subseteq DOMAIN corpus  BY DEF Eligible, CleanRights
<1>3. QED  BY <1>1, <1>2

LEMMA SampleStep == SampleInv /\ [PilotNext]_pilotVars => SampleInv'
<1> SUFFICES ASSUME SampleInv, [PilotNext]_pilotVars PROVE SampleInv'  OBVIOUS
<1>a. "representative" \in DOMAIN samples  BY DEF SampleInv
<1>1. CASE Import
  <2>1. /\ rows' = rows /\ params' = params /\ frame' = frame /\ samples' = samples
        /\ pc' = "cluster" /\ pc = "import" /\ "representative" \notin files'
        /\ records' = Imported(rows)
    BY <1>1 DEF Import, inputs, SampleInv, EarlyPhases
  <2>2. DOMAIN records' \subseteq ArticleIds(rows)  BY <2>1 DEF Imported, Accepted, ArticleIds
  <2>3. QED  BY <2>1, <2>2 DEF SampleInv
<1>2. CASE BuildFrame
  <2>1. /\ rows' = rows /\ params' = params /\ records' = records /\ samples' = samples
        /\ pc' = "sample" /\ pc = "eligibility" /\ "representative" \notin files'
        /\ frame' = Frame(records, clusters, NearPairs(records, clusters, params.distance))
        /\ Counts.frameUnits # 0
    BY <1>2 DEF BuildFrame, inputs, SampleInv, EarlyPhases
  <2>2. /\ DOMAIN frame' = Canonicals(clusters) \cap Eligible(records, clusters)
        /\ DOMAIN frame' \subseteq DOMAIN records
    BY <2>1, FrameWithin
  <2>3. DOMAIN frame' # {}
    <3> SUFFICES ASSUME DOMAIN frame' = {} PROVE FALSE  OBVIOUS
    <3>1. Counts.frameUnits = Cardinality({cluster \in clusters :
                                             Canonical(cluster) \in Eligible(records, clusters)})
      BY DEF Counts, FlowCounts
    <3>2. {cluster \in clusters : Canonical(cluster) \in Eligible(records, clusters)} = {}
      BY <2>2 DEF Canonicals
    <3>3. QED  BY <2>1, <3>1, <3>2, FS_EmptySet
  <2>4. QED  BY <2>1, <2>2, <2>3 DEF SampleInv
<1>3. CASE Sample
  <2>1. /\ rows' = rows /\ params' = params /\ records' = records /\ frame' = frame
        /\ pc' = "sampled" /\ DOMAIN frame # {}
    BY <1>3 DEF Sample, inputs, SampleInv
  <2>2. /\ "representative" \in DOMAIN samples'
        /\ samples'.representative = Representative(frame, RepresentativeTarget).units
    <3>1. \E c, l, p, z : samples' = [samples EXCEPT
              !.representative = Representative(frame, RepresentativeTarget).units,
              !.sizes = z, !.challenge = c, !.calibration = l, !.pairs = p]
      BY <1>3, Zenon DEF Sample
    <3>2. QED  BY <1>a, <3>1
  <2>3. RepresentativeTarget' = RepresentativeTarget
    BY <2>1 DEF RepresentativeTarget, Underfilled, Operational, Required
  <2>4. QED  BY <2>1, <2>2, <2>3 DEF SampleInv, EarlyPhases
<1>4. CASE FormalBatch
  <2>1. /\ inputs' = inputs /\ records' = records /\ frame' = frame
        /\ pc' = "formal" /\ files' = files \cup {"formal batch"}
    BY <1>4 DEF FormalBatch, inputs
  <2>2. \E u, d : samples' = [samples EXCEPT !.formal = u, !.doubled = d]
    BY <1>4, Zenon DEF FormalBatch
  <2>3. "representative" \in DOMAIN samples' /\ samples'.representative = samples.representative
    BY <1>a, <2>2
  <2>4. QED  BY <2>1, <2>3, SampleKept DEF EarlyPhases
<1>5. CASE Cluster
  BY <1>5, <1>a, SampleKept DEF Cluster, EarlyPhases
<1>6. ASSUME NEW STATE from, NEW to, NEW new, Write(from, to, new),
             to \notin EarlyPhases \cup {"sample"}, "representative" \notin new
      PROVE  SampleInv'
  BY <1>6, <1>a, SampleKept DEF Write, drawn
<1>7. ASSUME NEW from, NEW to, NEW s, Emit(from, to, s),
             to \in EarlyPhases => from \in EarlyPhases, to # "sample"
      PROVE  SampleInv'
  BY <1>7, <1>a, SampleKept DEF Emit, drawn
<1>8. ASSUME NEW from, NEW STATE status, NEW new, Decide(from, "done", status, new),
             "representative" \notin new
      PROVE  SampleInv'
  BY <1>8, <1>a, SampleKept DEF Decide, drawn, EarlyPhases
<1>9. CASE \/ MissingCorpus \/ MissingProvenance \/ Preflight \/ EmptyFrame \/ PlanReady
           \/ CalibrationReady \/ CalibrationReview \/ CalibrationIncomplete \/ ApprovalRequired
           \/ FormalReady \/ FormalIncomplete \/ AdjudicationRequired \/ AnalysisReady
           \/ ReviewRequired
  BY <1>7, <1>9 DEF MissingCorpus, MissingProvenance, Preflight, EmptyFrame, PlanReady,
        CalibrationReady, CalibrationReview, CalibrationIncomplete, ApprovalRequired,
        FormalReady, FormalIncomplete, AdjudicationRequired, AnalysisReady, ReviewRequired,
        EarlyPhases
<1>10. CASE \/ SummarizeMissingProvenance \/ Summarize \/ WriteCalibration \/ CalibrationLabels
            \/ CalibrationAdjudicated \/ DecideCalibration \/ FormalLabels \/ LoadAdjudicated
            \/ WriteBaselines \/ WriteMetrics \/ NoAnalysis \/ NoReview \/ Raise
  BY <1>6, <1>10 DEF SummarizeMissingProvenance, Summarize, WriteCalibration, CalibrationLabels,
        CalibrationAdjudicated, DecideCalibration, FormalLabels, LoadAdjudicated,
        WriteBaselines, WriteMetrics, NoAnalysis, NoReview, Raise, EarlyPhases
<1>11. CASE DecideMissingCorpus \/ DecideEmptyFrame \/ DecideUnapproved \/ Publish
  BY <1>8, <1>11 DEF DecideMissingCorpus, DecideEmptyFrame, DecideUnapproved, Publish
<1>12. CASE Reconcile
  BY <1>12, <1>a, SampleKept DEF Reconcile, drawn, EarlyPhases
<1>13. CASE UNCHANGED pilotVars
  BY <1>13, <1>a, SampleKept DEF pilotVars, drawn
<1>14. QED
  BY <1>1, <1>2, <1>3, <1>4, <1>5, <1>9, <1>10, <1>11, <1>12, <1>13 DEF PilotNext

LEMMA PlanHonestFollows == SampleInv => PlanHonest
<1> SUFFICES ASSUME SampleInv, "representative" \in files, params.override = Absent,
                    ~Underfilled(Size(DOMAIN frame)), NEW s \in params.scenarios
             PROVE  /\ Size(samples.representative) >= s.positive
                    /\ Size(samples.representative) >= s.negative
  BY DEF PlanHonest
<1> DEFINE n == Cardinality(DOMAIN frame)
<1>1. PICK given \in Given : rows = given.rows /\ params = given.params  BY DEF SampleInv
<1>2. Scenarios /\ params.scenarios # {} /\ params.multiple \in Nat \ {0}
  BY <1>1, PilotAssumption DEF Scenarios, Scenario
<1>3. Ranked(DOMAIN frame, <<"main">>)
  <2>1. Len(rows) \in Nat /\ \A i \in 1..Len(rows) : Rank(<<"main">>, rows[i].id) \in Int
    <3>1. <<"main">> \in Salts  BY DEF Salts
    <3>2. QED  BY <1>1, <3>1, PilotAssumption
  <2>2. IsFiniteSet(ArticleIds(rows))
    <3> DEFINE id == [i \in 1..Len(rows) |-> rows[i].id]
    <3>1. id \in Surjection(1..Len(rows), ArticleIds(rows))  BY DEF Surjection, ArticleIds
    <3>2. IsFiniteSet(1..Len(rows))  BY <2>1, FS_Interval
    <3>3. QED  BY <3>1, <3>2, FS_Surjection
  <2>3. DOMAIN frame \subseteq ArticleIds(rows)  BY DEF SampleInv
  <2>4. IsFiniteSet(DOMAIN frame)  BY <2>2, <2>3, FS_Subset
  <2>5. \A u \in ArticleIds(rows) : Rank(<<"main">>, u) \in Int  BY <2>1 DEF ArticleIds
  <2>6. QED  BY <2>3, <2>4, <2>5 DEF Ranked
<1>4. n \in Nat \ {0}
  <2>1. DOMAIN frame # {}  BY DEF SampleInv
  <2>2. QED  BY <1>3, <2>1, FS_CardinalityType, FS_EmptySet DEF Ranked
<1>5. RepresentativeTarget = Operational(n)  BY DEF RepresentativeTarget, Size
<1>6. samples.representative = Representative(frame, Operational(n)).units
  BY <1>5 DEF SampleInv
<1>7. ~(Required(n) > n)  BY DEF Underfilled, Size
<1> HIDE DEF n
<1>8. /\ Operational(n) \in Int
      /\ Operational(n) >= Required(n) \/ Operational(n) = n
  BY <1>2, <1>4, OperationalFacts
<1>9. /\ Required(n) \in Nat
      /\ ScenarioNeeds(s, n) <= Required(n)
  BY <1>2, <1>4, RequiredFacts
<1>10. /\ samples.representative \subseteq DOMAIN frame
       /\ \/ samples.representative = DOMAIN frame
          \/ Cardinality(samples.representative) >= Operational(n)
  BY <1>3, <1>6, <1>8, RepresentativeSize
<1>11. Cardinality(samples.representative) \in Nat
  BY <1>3, <1>10, FS_Subset, FS_CardinalityType DEF Ranked
<1>12. Cardinality(samples.representative) >= Required(n)
  BY <1>4, <1>7, <1>8, <1>9, <1>10, <1>11 DEF n
<1>13. /\ ScenarioNeeds(s, n) \in Nat
       /\ ScenarioNeeds(s, n) >= s.positive /\ ScenarioNeeds(s, n) >= s.negative
       /\ s.positive \in Nat /\ s.negative \in Nat
  BY <1>2, <1>4, ScenarioFacts DEF Scenarios, Scenario
<1>14. QED  BY <1>9, <1>11, <1>12, <1>13 DEF Size

\* A plan that does not say it is underfilled has room for the classes of
\* every scenario, whatever the corpus, the ranks and the strata.
THEOREM PlanHonestHolds == PilotSpec => []PlanHonest
<1>1. QED  BY SampleInitial, SampleStep, PlanHonestFollows, PTL DEF PilotSpec

-----------------------------------------------------------------------------
(* The clusters of exact duplicates.                                       *)

\* The trees over the ids D, and the root g that every id has in them: a
\* parent is smaller than its child and has the same root.
Rooted(D, trees, g) ==
    /\ trees \in [D -> D] /\ g \in [D -> D]
    /\ \A x \in D : /\ trees[x] <= x
                    /\ g[trees[x]] = g[x] /\ trees[g[x]] = g[x]
                    /\ trees[x] = x => g[x] = x

LEMMA RootFound ==
    ASSUME NEW D, D \subseteq Int, IsFiniteSet(D), NEW trees, NEW g, Rooted(D, trees, g), NEW id \in D
    PROVE  Root(trees, id) = g[id]
<1> DEFINE Follows(root) == root = [x \in DOMAIN trees |-> IF trees[x] = x THEN x ELSE root[trees[x]]]
           root == CHOOSE root : Follows(root)
<1>1. DOMAIN trees = D /\ g \in [D -> D]  BY DEF Rooted
<1>2. Follows(g)
  <2>1. \A x \in D : g[x] = IF trees[x] = x THEN x ELSE g[trees[x]]  BY DEF Rooted
  <2>2. QED  BY <1>1, <2>1
<1>3. Follows(root)  BY <1>2, Zenon
<1>4. Root(trees, id) = root[id]  BY DEF Root
<1> HIDE DEF root
<1>5. \A x \in D : root[x] = IF trees[x] = x THEN x ELSE root[trees[x]]  BY <1>1, <1>3
<1> DEFINE Wrong == {x \in D : root[x] # g[x]}
<1>6. Wrong = {}
  <2> SUFFICES ASSUME Wrong # {} PROVE FALSE  OBVIOUS
  <2>1. IsFiniteSet(Wrong) /\ Wrong \subseteq Int  BY FS_Subset
  <2> DEFINE x == Min(Wrong)
  <2>2. x \in Wrong /\ \A y \in Wrong : x <= y  BY <2>1, Extremes
  <2> HIDE DEF x
  <2>3. x \in D /\ root[x] # g[x]  BY <2>2
  <2>a. /\ trees \in [D -> D] /\ trees[x] <= x
        /\ g[trees[x]] = g[x] /\ (trees[x] = x => g[x] = x)
    BY <2>3 DEF Rooted
  <2>4. trees[x] # x  BY <1>5, <2>3, <2>a
  <2>b. trees[x] \in D  BY <2>3, <2>a
  <2>c. x \in Int /\ trees[x] \in Int  BY <2>3, <2>b
  <2>5. trees[x] < x  BY <2>4, <2>a, <2>c
  <2>6. trees[x] \notin Wrong  BY <2>2, <2>5, <2>c
  <2>7. root[trees[x]] = g[trees[x]]  BY <2>b, <2>6
  <2>8. root[x] = g[x]  BY <1>5, <2>3, <2>4, <2>7, <2>a
  <2>9. QED  BY <2>3, <2>8
<1>7. QED  BY <1>4, <1>6

\* The roots after two of them were joined.
JoinedRoots(D, g, x, y) ==
    LET a == IF g[x] < g[y] THEN g[x] ELSE g[y]
        b == IF g[x] < g[y] THEN g[y] ELSE g[x]
    IN  [z \in D |-> IF g[z] = b THEN a ELSE g[z]]

LEMMA UnionRooted ==
    ASSUME NEW D, D \subseteq Int, IsFiniteSet(D), NEW trees, NEW g, Rooted(D, trees, g),
           NEW x \in D, NEW y \in D
    PROVE  Rooted(D, Union(trees, <<x, y>>), JoinedRoots(D, g, x, y))
<1> DEFINE after == Union(trees, <<x, y>>)
           h == JoinedRoots(D, g, x, y)
           a == IF g[x] < g[y] THEN g[x] ELSE g[y]
           b == IF g[x] < g[y] THEN g[y] ELSE g[x]
<1>1. Root(trees, x) = g[x] /\ Root(trees, y) = g[y]  BY RootFound
<1>2. trees \in [D -> D] /\ g \in [D -> D] /\ g[x] \in D /\ g[y] \in D
  BY DEF Rooted
<1>3. after = IF a < b THEN [trees EXCEPT ![b] = a] ELSE trees
  BY <1>1, <1>2 DEF Union
<1>4. a \in D /\ b \in D /\ a <= b /\ trees[a] = a /\ g[a] = a /\ g[b] = b /\ trees[b] = b
  <2>1. trees[g[x]] = g[x] /\ trees[g[y]] = g[y]  BY DEF Rooted
  <2>2. g[g[x]] = g[x] /\ g[g[y]] = g[y]  BY <1>2, <2>1 DEF Rooted
  <2>3. g[x] \in Int /\ g[y] \in Int  BY <1>2
  <2>4. QED  BY <1>2, <2>1, <2>2, <2>3
<1>5. h = [z \in D |-> IF g[z] = b THEN a ELSE g[z]]  BY DEF JoinedRoots
<1> HIDE DEF after, a, b, h
<1>6. CASE a = b
  <2>1. after = trees  BY <1>3, <1>4, <1>6
  <2>2. h = g  BY <1>2, <1>5, <1>6
  <2>3. QED  BY <2>1, <2>2 DEF after, h
<1>7. CASE a < b
  <2>1. after = [trees EXCEPT ![b] = a]  BY <1>3, <1>7
  <2>2. after \in [D -> D] /\ h \in [D -> D]  BY <1>2, <1>4, <1>5, <2>1
  <2>3. ASSUME NEW z \in D
        PROVE  /\ after[z] <= z
               /\ h[after[z]] = h[z] /\ after[h[z]] = h[z]
               /\ after[z] = z => h[z] = z
    <3>1. /\ trees[z] \in D /\ g[z] \in D /\ trees[z] <= z /\ g[trees[z]] = g[z]
          /\ trees[g[z]] = g[z] /\ (trees[z] = z => g[z] = z) /\ z \in Int
      BY <2>3 DEF Rooted
    <3>2. \A w \in D : h[w] = IF g[w] = b THEN a ELSE g[w]  BY <1>5
    <3>3. \A w \in D : after[w] = IF w = b THEN a ELSE trees[w]  BY <1>2, <2>1
    <3>4. CASE z = b  BY <1>4, <1>7, <3>1, <3>2, <3>3, <3>4
    <3>5. CASE z # b  BY <1>4, <1>7, <3>1, <3>2, <3>3, <3>5
    <3>6. QED  BY <3>4, <3>5
  <2>4. Rooted(D, after, h)  BY <2>2, <2>3, Zenon DEF Rooted
  <2>5. QED  BY <2>4 DEF after, h
<1>8. a \in Int /\ b \in Int  BY <1>4
<1>9. QED  BY <1>4, <1>6, <1>7, <1>8

Coarser(D, g, h) == \A x, y \in D : g[x] = g[y] => h[x] = h[y]

\* Nothing splits the members of a root without evidence across.
Tied(D, E, g) ==
    \A P \in SUBSET D : \A x \in P, y \in D \ P :
        g[x] = g[y] => \E a \in P, b \in D \ P : g[a] = g[x] /\ g[b] = g[x] /\ <<a, b>> \in E

LEMMA TiedAcross ==
    ASSUME NEW D, NEW E, NEW g, Tied(D, E, g), NEW P \in SUBSET D, NEW x \in P, NEW y \in D \ P,
           g[x] = g[y]
    PROVE  \E a \in P, b \in D \ P : g[a] = g[x] /\ g[b] = g[x] /\ <<a, b>> \in E
BY Zenon DEF Tied

LEMMA JoinedTied ==
    ASSUME NEW D, NEW E, NEW g \in [D -> D], Tied(D, E, g), NEW x \in D, NEW y \in D,
           <<x, y>> \in E, <<y, x>> \in E
    PROVE  /\ Tied(D, E, JoinedRoots(D, g, x, y))
           /\ JoinedRoots(D, g, x, y)[x] = JoinedRoots(D, g, x, y)[y]
           /\ Coarser(D, g, JoinedRoots(D, g, x, y))
<1> DEFINE h == JoinedRoots(D, g, x, y)
           a == IF g[x] < g[y] THEN g[x] ELSE g[y]
           b == IF g[x] < g[y] THEN g[y] ELSE g[x]
<1>1. \A z \in D : h[z] = IF g[z] = b THEN a ELSE g[z]  BY DEF JoinedRoots
<1>2. {a, b} = {g[x], g[y]}  OBVIOUS
<1> HIDE DEF h, a, b
<1>3. h[x] = a /\ h[y] = a  BY <1>1, <1>2
<1>4. \A u, v \in D : g[u] = g[v] => h[u] = h[v]  BY <1>1
<1>5. \A u \in D : h[u] = a => g[u] = g[x] \/ g[u] = g[y]  BY <1>1, <1>2
<1>6. \A u, v \in D : h[u] = h[v] => g[u] = g[v] \/ h[u] = a  BY <1>1
<1>7. ASSUME NEW P \in SUBSET D, NEW u \in P, NEW v \in D \ P, h[u] = h[v]
      PROVE  \E c \in P, d \in D \ P : h[c] = h[u] /\ h[d] = h[u] /\ <<c, d>> \in E
  <2>0. u \in D /\ v \in D  OBVIOUS
  <2>1. ASSUME NEW s \in P, NEW t \in D \ P, g[s] = g[t], h[s] = h[u]
        PROVE  \E c \in P, d \in D \ P : h[c] = h[u] /\ h[d] = h[u] /\ <<c, d>> \in E
    <3>1. PICK c \in P, d \in D \ P : g[c] = g[s] /\ g[d] = g[s] /\ <<c, d>> \in E
      BY <2>1 DEF Tied
    <3>2. h[c] = h[s] /\ h[d] = h[s]  BY <1>4, <3>1
    <3>3. QED  BY <2>1, <3>1, <3>2
  <2>2. CASE g[u] = g[v]  BY <2>1, <2>2
  <2>3. CASE g[u] # g[v]
    <3>1. h[u] = a /\ h[v] = a  BY <1>6, <1>7, <2>0, <2>3
    <3>2. g[u] \in {g[x], g[y]} /\ g[v] \in {g[x], g[y]}  BY <1>5, <2>0, <3>1
    <3>3. CASE x \in P /\ y \notin P  BY <1>3, <3>1, <3>3
    <3>4. CASE y \in P /\ x \notin P  BY <1>3, <3>1, <3>4
    <3>5. CASE x \in P /\ y \in P
      <4>1. PICK s \in P : s \in {x, y} /\ g[s] = g[v]  BY <3>2, <3>5
      <4>2. h[s] = h[u]  BY <1>3, <3>1, <4>1
      <4>3. QED  BY <2>1, <4>1, <4>2
    <3>6. CASE x \notin P /\ y \notin P
      <4>1. PICK t \in D \ P : t \in {x, y} /\ g[u] = g[t]  BY <3>2, <3>6
      <4>2. QED  BY <2>1, <4>1
    <3>7. QED  BY <3>3, <3>4, <3>5, <3>6
  <2>4. QED  BY <2>2, <2>3
<1>8. Tied(D, E, h)  BY <1>7, Zenon DEF Tied
<1>9. Coarser(D, g, h)  BY <1>4, Zenon DEF Coarser
<1>10. QED  BY <1>3, <1>8, <1>9, Zenon DEF h

\* The trees after each part of the links L, one link after the other.
AnyOf(links) == CHOOSE link \in links : TRUE
OneMore(trees, f, links) ==
    IF links = {} THEN trees ELSE Union(f[links \ {AnyOf(links)}], AnyOf(links))
Linking(trees, L, f) == f = [links \in SUBSET L |-> OneMore(trees, f, links)]

LEMMA LinkingExists ==
    ASSUME NEW L, IsFiniteSet(L), NEW trees
    PROVE  \E f : Linking(trees, L, f)
<1> DEFINE Upto(n) == {links \in SUBSET L : Cardinality(links) <= n}
           Partly(n, f) == f = [links \in Upto(n) |-> OneMore(trees, f, links)]
           Never == {n \in Nat : ~\E f : Partly(n, f)}
<1>1. \A links \in SUBSET L : IsFiniteSet(links) /\ Cardinality(links) \in Nat
  BY FS_Subset, FS_CardinalityType
<1>2. \A links \in SUBSET L : links # {} =>
          /\ AnyOf(links) \in links
          /\ links \ {AnyOf(links)} \in SUBSET L
          /\ Cardinality(links \ {AnyOf(links)}) = Cardinality(links) - 1
  BY <1>1, FS_RemoveElement DEF AnyOf
<1>3. Never = {}
  <2> SUFFICES ASSUME Never # {} PROVE FALSE  OBVIOUS
  <2> HIDE DEF Partly
  <2>1. PICK m \in Never : \A n \in Never : m <= n  BY LeastNatural, Never \subseteq Nat
  <2>2. m \in Nat /\ ~\E f : Partly(m, f)  BY <2>1
  <2>3. m # 0
    <3> DEFINE f == [links \in Upto(0) |-> trees]
    <3>1. \A links \in Upto(0) : links = {}  BY <1>1, FS_EmptySet
    <3>2. \A links \in Upto(0) : f[links] = OneMore(trees, f, links)
      BY <3>1 DEF OneMore
    <3>3. Partly(0, f)  BY <3>2 DEF Partly
    <3>4. QED  BY <2>2, <3>3
  <2>4. m - 1 \in Nat /\ m - 1 \notin Never  BY <2>1, <2>2, <2>3
  <2>5. PICK f : Partly(m - 1, f)  BY <2>4
  <2> DEFINE h == [links \in Upto(m) |-> OneMore(trees, f, links)]
  <2>6. \A links \in Upto(m - 1) : f[links] = OneMore(trees, f, links)  BY <2>5 DEF Partly
  <2>7. \A links \in Upto(m - 1) : links \in Upto(m) /\ h[links] = f[links]
    <3>1. SUFFICES ASSUME NEW links \in Upto(m - 1) PROVE links \in Upto(m)  BY <2>6
    <3>2. QED  BY <1>1, <2>2
  <2>8. \A links \in Upto(m) : h[links] = OneMore(trees, h, links)
    <3> SUFFICES ASSUME NEW links \in Upto(m) PROVE OneMore(trees, f, links) = OneMore(trees, h, links)
      OBVIOUS
    <3>1. CASE links = {}  BY <3>1 DEF OneMore
    <3>2. CASE links # {}
      <4>1. links \ {AnyOf(links)} \in Upto(m - 1)  BY <1>1, <1>2, <2>2, <3>2
      <4>2. h[links \ {AnyOf(links)}] = f[links \ {AnyOf(links)}]  BY <2>7, <4>1, Zenon
      <4>3. QED  BY <4>2 DEF OneMore
    <3>3. QED  BY <3>1, <3>2
  <2>9. Partly(m, h)  BY <2>8 DEF Partly
  <2>10. QED  BY <2>2, <2>9
<1>4. PICK f : Partly(Cardinality(L), f)
  <2>1. Cardinality(L) \in Nat  BY FS_CardinalityType
  <2> HIDE DEF Partly
  <2>2. QED  BY <1>3, <2>1
<1>5. Upto(Cardinality(L)) = SUBSET L  BY FS_Subset
<1>6. QED  BY <1>4, <1>5 DEF Linking

Joins(links, h) == \A link \in links : h[link[1]] = h[link[2]]

\* Linking keeps the trees tied and joins what is linked.
LEMMA LinkedFacts ==
    ASSUME NEW D, D \subseteq Int, IsFiniteSet(D), NEW E, NEW trees, NEW g,
           Rooted(D, trees, g), Tied(D, E, g), NEW L, L \subseteq D \X D,
           \A link \in L : link \in E /\ <<link[2], link[1]>> \in E
    PROVE  \E h : /\ Rooted(D, Linked(trees, L), h) /\ Tied(D, E, h)
                  /\ Coarser(D, g, h) /\ Joins(L, h)
<1> DEFINE Sound(links, tree) ==
              \E h : /\ Rooted(D, tree, h) /\ Tied(D, E, h)
                     /\ Coarser(D, g, h) /\ Joins(links, h)
<1>1. IsFiniteSet(L)  BY FS_Product, FS_Subset
<1>2. \E f : Linking(trees, L, f) /\ Linked(trees, L) = f[L]
  <2>1. \E f : Linking(trees, L, f)  BY <1>1, LinkingExists
  <2> DEFINE f == CHOOSE f : Linking(trees, L, f)
  <2>2. Linking(trees, L, f)  BY <2>1, Zenon
  <2>3. Linked(trees, L) = f[L]
    BY DEF Linked, FoldSet, MapThenFoldSet, Linking, OneMore, AnyOf
  <2>4. QED  BY <2>2, <2>3, Zenon
<1>3. PICK f : Linking(trees, L, f) /\ Linked(trees, L) = f[L]  BY <1>2
<1>4. \A links \in SUBSET L : f[links] = OneMore(trees, f, links)  BY <1>3 DEF Linking
<1>5. \A links \in SUBSET L : IsFiniteSet(links) /\ Cardinality(links) \in Nat
  BY <1>1, FS_Subset, FS_CardinalityType
<1>6. \A links \in SUBSET L : links # {} =>
          /\ AnyOf(links) \in links
          /\ links \ {AnyOf(links)} \in SUBSET L
          /\ Cardinality(links \ {AnyOf(links)}) = Cardinality(links) - 1
  BY <1>5, FS_RemoveElement DEF AnyOf
<1> DEFINE Wrong == {links \in SUBSET L : ~Sound(links, f[links])}
<1> HIDE DEF Sound
<1>7. Wrong = {}
  <2> SUFFICES ASSUME Wrong # {} PROVE FALSE  OBVIOUS
  <2> DEFINE Sizes == {Cardinality(links) : links \in Wrong}
  <2>1. Sizes \subseteq Nat /\ Sizes # {}  BY <1>5
  <2>2. PICK least \in Sizes : \A n \in Sizes : least <= n
    <3> HIDE DEF Sizes
    <3>1. QED  BY <2>1, LeastNatural
  <2>3. PICK links \in Wrong : \A others \in Wrong : Cardinality(links) <= Cardinality(others)
    BY <2>2
  <2>4. links \in SUBSET L /\ ~Sound(links, f[links])  BY <2>3
  <2>5. links # {}
    <3> SUFFICES ASSUME links = {} PROVE Sound(links, f[links])  BY <2>4
    <3>1. f[links] = trees  BY <1>4, <2>4 DEF OneMore
    <3>2. QED  BY <3>1 DEF Sound, Coarser, Joins
  <2> DEFINE link == AnyOf(links)
             before == links \ {link}
  <2>6. link \in links /\ before \in SUBSET L /\ Cardinality(before) = Cardinality(links) - 1
    BY <1>6, <2>4, <2>5
  <2>7. f[links] = Union(f[before], link)  BY <1>4, <2>4, <2>5 DEF OneMore
  <2> HIDE DEF link
  <2>8. Sound(before, f[before])
    <3>1. Cardinality(links) \in Nat  BY <1>5, <2>4
    <3>2. before \notin Wrong  BY <2>3, <2>6, <3>1
    <3>3. QED  BY <2>6, <3>2
  <2>9. PICK h : /\ Rooted(D, f[before], h) /\ Tied(D, E, h)
                 /\ Coarser(D, g, h) /\ Joins(before, h)
    BY <2>8 DEF Sound
  <2>10. PICK x \in D, y \in D : link = <<x, y>> /\ <<x, y>> \in E /\ <<y, x>> \in E
    <3>1. link \in L  BY <2>4, <2>6
    <3>2. link[1] \in D /\ link[2] \in D /\ link = <<link[1], link[2]>>  BY <3>1
    <3>3. link \in E /\ <<link[2], link[1]>> \in E  BY <3>1
    <3>4. QED  BY <3>2, <3>3
  <2> DEFINE k == JoinedRoots(D, h, x, y)
  <2>11. h \in [D -> D]  BY <2>9 DEF Rooted
  <2>12. Tied(D, E, k) /\ k[x] = k[y] /\ Coarser(D, h, k)
    BY <2>9, <2>10, <2>11, JoinedTied, Zenon
  <2>13. Rooted(D, f[links], k)
    <3>1. Rooted(D, Union(f[before], <<x, y>>), k)  BY <2>9, UnionRooted
    <3>2. QED  BY <2>7, <2>10, <3>1
  <2> HIDE DEF k
  <2>14. Coarser(D, g, k)  BY <2>9, <2>12 DEF Coarser
  <2>15. Joins(links, k)
    <3> SUFFICES ASSUME NEW l \in links PROVE k[l[1]] = k[l[2]]  BY DEF Joins
    <3>1. CASE l = link  BY <2>10, <2>12, <3>1
    <3>2. CASE l # link
      <4>1. l \in before /\ l[1] \in D /\ l[2] \in D  BY <2>4, <3>2
      <4>2. QED  BY <2>9, <2>12, <4>1 DEF Joins, Coarser
    <3>3. QED  BY <3>1, <3>2
  <2>16. Sound(links, f[links])  BY <2>12, <2>13, <2>14, <2>15, Zenon DEF Sound
  <2>17. QED  BY <2>4, <2>16
<1>8. Sound(L, f[L])  BY <1>7
<1>9. QED  BY <1>3, <1>8 DEF Sound

\* The links of buckets: each member of a bucket to the least one.
Buckets(D, same) ==
    {link \in D \X D :
        /\ link[1] < link[2] /\ link \in same
        /\ \A id \in D : <<id, link[2]>> \in same => link[1] <= id}

LEMMA BucketsJoin ==
    ASSUME NEW D, D \subseteq Int, IsFiniteSet(D), NEW same, same \subseteq D \X D,
           \A a, b \in D : <<a, b>> \in same => <<b, a>> \in same,
           \A a, b, c \in D : <<a, b>> \in same /\ <<b, c>> \in same => <<a, c>> \in same,
           NEW h, Joins(Buckets(D, same), h)
    PROVE  Joins(same, h)
<1> SUFFICES ASSUME NEW x \in D, NEW y \in D, <<x, y>> \in same PROVE h[x] = h[y]
  <2>1. \A link \in same : link[1] \in D /\ link[2] \in D /\ <<link[1], link[2]>> \in same
    OBVIOUS
  <2>2. QED  BY <2>1 DEF Joins
<1> DEFINE Bucket == {id \in D : <<id, x>> \in same}
           least == Min(Bucket)
<1>1. <<y, x>> \in same /\ <<x, x>> \in same  OBVIOUS
<1>2. least \in Bucket /\ \A id \in Bucket : least <= id
  <2>1. IsFiniteSet(Bucket) /\ Bucket \subseteq Int /\ Bucket # {}  BY <1>1, FS_Subset
  <2>2. QED  BY <2>1, Extremes
<1> HIDE DEF least
<1>3. ASSUME NEW z \in D, <<z, x>> \in same, <<x, z>> \in same
      PROVE  h[least] = h[z]
  <2>1. least <= z /\ least \in D /\ <<least, x>> \in same /\ <<least, z>> \in same  BY <1>2, <1>3
  <2>2. CASE least = z  BY <2>2
  <2>3. CASE least < z
    <3>1. \A id \in D : <<id, z>> \in same => least <= id
      <4>1. \A id \in D : <<id, z>> \in same => <<id, x>> \in same  BY <1>3
      <4>2. QED  BY <1>2, <4>1
    <3>2. <<least, z>> \in Buckets(D, same)  BY <2>1, <2>3, <3>1 DEF Buckets
    <3>3. QED  BY <3>2 DEF Joins
  <2>4. least \in Int /\ z \in Int  BY <2>1
  <2>5. QED  BY <2>1, <2>2, <2>3, <2>4
<1>4. QED  BY <1>1, <1>3

\* What the identity of two articles is inferred from.
RecordPairs(corpus) ==
    {p \in (DOMAIN corpus) \X (DOMAIN corpus) : SameRecord(corpus[p[1]], corpus[p[2]])}
UrlPairs(corpus) ==
    {p \in (DOMAIN corpus) \X (DOMAIN corpus) : SameUrl(corpus[p[1]], corpus[p[2]])}
BodyPairs(corpus) ==
    {p \in (DOMAIN corpus) \X (DOMAIN corpus) : SameBody(corpus[p[1]], corpus[p[2]])}
EvidentPairs(corpus) == RecordPairs(corpus) \cup UrlPairs(corpus) \cup BodyPairs(corpus)

LEMMA EvidentFacts ==
    ASSUME NEW corpus
    PROVE  /\ BucketLinks(corpus, SameRecord) = Buckets(DOMAIN corpus, RecordPairs(corpus))
           /\ BucketLinks(corpus, SameUrl) = Buckets(DOMAIN corpus, UrlPairs(corpus))
           /\ BucketLinks(corpus, SameBody) = Buckets(DOMAIN corpus, BodyPairs(corpus))
           /\ \A p \in EvidentPairs(corpus) : <<p[2], p[1]>> \in EvidentPairs(corpus)
           /\ TitleLinks(corpus) \subseteq EvidentPairs(corpus)
           /\ \A x, y \in DOMAIN corpus : <<x, y>> \in EvidentPairs(corpus) <=>
                  \/ SameRecord(corpus[x], corpus[y]) \/ SameUrl(corpus[x], corpus[y])
                  \/ SameBody(corpus[x], corpus[y])
<1>1. BucketLinks(corpus, SameRecord) = Buckets(DOMAIN corpus, RecordPairs(corpus))
  BY DEF BucketLinks, Buckets, RecordPairs
<1>2. BucketLinks(corpus, SameUrl) = Buckets(DOMAIN corpus, UrlPairs(corpus))
  BY DEF BucketLinks, Buckets, UrlPairs
<1>3. BucketLinks(corpus, SameBody) = Buckets(DOMAIN corpus, BodyPairs(corpus))
  BY DEF BucketLinks, Buckets, BodyPairs
<1>4. \A p \in EvidentPairs(corpus) : <<p[2], p[1]>> \in EvidentPairs(corpus)
  BY DEF EvidentPairs, RecordPairs, UrlPairs, BodyPairs, SameRecord, SameUrl, SameBody
<1>5. TitleLinks(corpus) \subseteq EvidentPairs(corpus)
  BY DEF TitleLinks, SameTitleCorroborated, EvidentPairs, RecordPairs, UrlPairs, BodyPairs
<1>6. \A x, y \in DOMAIN corpus : <<x, y>> \in EvidentPairs(corpus) <=>
          \/ SameRecord(corpus[x], corpus[y]) \/ SameUrl(corpus[x], corpus[y])
          \/ SameBody(corpus[x], corpus[y])
  BY DEF EvidentPairs, RecordPairs, UrlPairs, BodyPairs
<1>7. QED  BY <1>1, <1>2, <1>3, <1>4, <1>5, <1>6

\* The trees after the four rules have one root for each component.
LEMMA ParentsFacts ==
    ASSUME NEW corpus, DOMAIN corpus \subseteq Int, IsFiniteSet(DOMAIN corpus)
    PROVE  \E h : /\ Rooted(DOMAIN corpus, Parents(corpus), h)
                  /\ Tied(DOMAIN corpus, EvidentPairs(corpus), h)
                  /\ \A x, y \in DOMAIN corpus : <<x, y>> \in EvidentPairs(corpus) => h[x] = h[y]
<1> DEFINE D == DOMAIN corpus
           E == EvidentPairs(corpus)
           alone == [id \in D |-> id]
           byRecord == Linked(alone, Buckets(D, RecordPairs(corpus)))
           byUrl == Linked(byRecord, Buckets(D, UrlPairs(corpus)))
           byBody == Linked(byUrl, Buckets(D, BodyPairs(corpus)))
           byTitle == Linked(byBody, TitleLinks(corpus))
<1>1. Parents(corpus) = byTitle  BY EvidentFacts, Zenon DEF Parents
<1>2. /\ Buckets(D, RecordPairs(corpus)) \subseteq D \X D
      /\ Buckets(D, UrlPairs(corpus)) \subseteq D \X D
      /\ Buckets(D, BodyPairs(corpus)) \subseteq D \X D
      /\ TitleLinks(corpus) \subseteq D \X D
  BY DEF Buckets, TitleLinks
<1>3. \A link \in D \X D : link \in E => link \in E /\ <<link[2], link[1]>> \in E
  BY EvidentFacts
<1>4. /\ Buckets(D, RecordPairs(corpus)) \subseteq E
      /\ Buckets(D, UrlPairs(corpus)) \subseteq E
      /\ Buckets(D, BodyPairs(corpus)) \subseteq E
      /\ TitleLinks(corpus) \subseteq E
  BY EvidentFacts DEF Buckets, EvidentPairs
<1>5. Rooted(D, alone, alone)
  <2>1. \A x \in D : x <= x  OBVIOUS
  <2>2. QED  BY <2>1 DEF Rooted
<1>6. Tied(D, E, alone)  BY DEF Tied
<1> HIDE DEF D, E, alone
<1> DEFINE Ready(trees, g) == Rooted(D, trees, g) /\ Tied(D, E, g)
<1>7. ASSUME NEW trees, NEW g, Ready(trees, g), NEW L, L \subseteq D \X D, L \subseteq E
      PROVE  \E h : Ready(Linked(trees, L), h) /\ Coarser(D, g, h) /\ Joins(L, h)
  <2>1. D \subseteq Int /\ IsFiniteSet(D)  BY DEF D
  <2>2. \A link \in L : link \in E /\ <<link[2], link[1]>> \in E  BY <1>3, <1>7
  <2>3. Rooted(D, trees, g) /\ Tied(D, E, g)  BY <1>7
  <2>4. \E h : /\ Rooted(D, Linked(trees, L), h) /\ Tied(D, E, h)
               /\ Coarser(D, g, h) /\ Joins(L, h)
    BY <1>7, <2>1, <2>2, <2>3, LinkedFacts
  <2>5. QED  BY <2>4
<1>8. Ready(alone, alone)  BY <1>5, <1>6
<1> HIDE DEF byRecord, byUrl, byBody, byTitle, Ready
<1>9. PICK g1 : Ready(byRecord, g1) /\ Joins(Buckets(D, RecordPairs(corpus)), g1)
  BY <1>2, <1>4, <1>7, <1>8 DEF byRecord
<1>10. PICK g2 : Ready(byUrl, g2) /\ Coarser(D, g1, g2) /\ Joins(Buckets(D, UrlPairs(corpus)), g2)
  BY <1>2, <1>4, <1>7, <1>9 DEF byUrl
<1>11. PICK g3 : Ready(byBody, g3) /\ Coarser(D, g2, g3) /\ Joins(Buckets(D, BodyPairs(corpus)), g3)
  BY <1>2, <1>4, <1>7, <1>10 DEF byBody
<1>12. PICK h : Ready(byTitle, h) /\ Coarser(D, g3, h)
  BY <1>2, <1>4, <1>7, <1>11 DEF byTitle
<1>r. Joins(RecordPairs(corpus), g1)
  <2> DEFINE same == RecordPairs(corpus)
  <2>1. /\ same \subseteq D \X D
        /\ \A a, b \in D : <<a, b>> \in same => <<b, a>> \in same
        /\ \A a, b, c \in D : <<a, b>> \in same /\ <<b, c>> \in same => <<a, c>> \in same
    BY DEF D, RecordPairs, SameRecord
  <2> HIDE DEF same
  <2>2. Joins(Buckets(D, same), g1)  BY <1>9 DEF same
  <2>3. D \subseteq Int /\ IsFiniteSet(D)  BY DEF D
  <2>4. Joins(same, g1)  BY <2>1, <2>2, <2>3, BucketsJoin
  <2>5. QED  BY <2>4 DEF same
<1>u. Joins(UrlPairs(corpus), g2)
  <2> DEFINE same == UrlPairs(corpus)
  <2>1. /\ same \subseteq D \X D
        /\ \A a, b \in D : <<a, b>> \in same => <<b, a>> \in same
        /\ \A a, b, c \in D : <<a, b>> \in same /\ <<b, c>> \in same => <<a, c>> \in same
    BY DEF D, UrlPairs, SameUrl
  <2> HIDE DEF same
  <2>2. Joins(Buckets(D, same), g2)  BY <1>10 DEF same
  <2>3. D \subseteq Int /\ IsFiniteSet(D)  BY DEF D
  <2>4. Joins(same, g2)  BY <2>1, <2>2, <2>3, BucketsJoin
  <2>5. QED  BY <2>4 DEF same
<1>b. Joins(BodyPairs(corpus), g3)
  <2> DEFINE same == BodyPairs(corpus)
  <2>1. /\ same \subseteq D \X D
        /\ \A a, b \in D : <<a, b>> \in same => <<b, a>> \in same
        /\ \A a, b, c \in D : <<a, b>> \in same /\ <<b, c>> \in same => <<a, c>> \in same
    BY DEF D, BodyPairs, SameBody
  <2> HIDE DEF same
  <2>2. Joins(Buckets(D, same), g3)  BY <1>11 DEF same
  <2>3. D \subseteq Int /\ IsFiniteSet(D)  BY DEF D
  <2>4. Joins(same, g3)  BY <2>1, <2>2, <2>3, BucketsJoin
  <2>5. QED  BY <2>4 DEF same
<1>13. ASSUME NEW x \in D, NEW y \in D, <<x, y>> \in E PROVE h[x] = h[y]
  <2>1. CASE <<x, y>> \in RecordPairs(corpus)
    <3>1. g1[x] = g1[y]  BY <2>1, <1>r DEF Joins
    <3>2. QED  BY <1>10, <1>11, <1>12, <3>1 DEF Coarser
  <2>2. CASE <<x, y>> \in UrlPairs(corpus)
    <3>1. g2[x] = g2[y]  BY <2>2, <1>u DEF Joins
    <3>2. QED  BY <1>11, <1>12, <3>1 DEF Coarser
  <2>3. CASE <<x, y>> \in BodyPairs(corpus)
    <3>1. g3[x] = g3[y]  BY <2>3, <1>b DEF Joins
    <3>2. QED  BY <1>12, <3>1 DEF Coarser
  <2>4. QED  BY <1>13, <2>1, <2>2, <2>3 DEF E, EvidentPairs
<1>14. QED  BY <1>1, <1>12, <1>13 DEF Ready, D, E

LEMMA ExactClustersFacts ==
    ASSUME NEW corpus, DOMAIN corpus \subseteq Int, IsFiniteSet(DOMAIN corpus)
    PROVE  /\ UNION ExactClusters(corpus) = DOMAIN corpus
           /\ \A c, d \in ExactClusters(corpus) : c # d =>
                 c \cap d = {} /\ ~\E a \in c, b \in d : <<a, b>> \in EvidentPairs(corpus)
           /\ \A c \in ExactClusters(corpus) : \A part \in (SUBSET c) \ {{}, c} :
                 \E a \in part, b \in c \ part : <<a, b>> \in EvidentPairs(corpus)
<1> DEFINE D == DOMAIN corpus
<1>1. PICK h : /\ Rooted(D, Parents(corpus), h) /\ Tied(D, EvidentPairs(corpus), h)
               /\ \A x, y \in D : <<x, y>> \in EvidentPairs(corpus) => h[x] = h[y]
  BY ParentsFacts
<1>2. \A id \in D : Root(Parents(corpus), id) = h[id]  BY <1>1, RootFound
<1>3. ExactClusters(corpus) = {{id \in D : h[id] = h[one]} : one \in D}
  BY <1>2 DEF ExactClusters
<1> HIDE DEF D
<1>4. UNION ExactClusters(corpus) = D  BY <1>3
<1>5. \A c \in ExactClusters(corpus) : \E one \in D : c = {id \in D : h[id] = h[one]}  BY <1>3
<1>6. ASSUME NEW c \in ExactClusters(corpus), NEW d \in ExactClusters(corpus), c # d
      PROVE  c \cap d = {} /\ ~\E a \in c, b \in d : <<a, b>> \in EvidentPairs(corpus)
  <2>1. PICK one \in D : c = {id \in D : h[id] = h[one]}  BY <1>5
  <2>2. PICK two \in D : d = {id \in D : h[id] = h[two]}  BY <1>5
  <2>3. h[one] # h[two]  BY <1>6, <2>1, <2>2
  <2>4. \A a \in c, b \in d : a \in D /\ b \in D /\ h[a] # h[b]  BY <2>1, <2>2, <2>3
  <2>5. c \cap d = {}  BY <2>4
  <2>6. QED  BY <1>1, <2>4, <2>5
<1>7. ASSUME NEW c \in ExactClusters(corpus), NEW part \in (SUBSET c) \ {{}, c}
      PROVE  \E a \in part, b \in c \ part : <<a, b>> \in EvidentPairs(corpus)
  <2>1. PICK one \in D : c = {id \in D : h[id] = h[one]}  BY <1>5
  <2>2. part \in SUBSET D  BY <2>1
  <2>a. part \subseteq c /\ part # {} /\ part # c  OBVIOUS
  <2>3. PICK x \in part, y \in c : y \notin part  BY <2>a
  <2>4. h[x] = h[y] /\ h[x] = h[one] /\ y \in D \ part  BY <2>1, <2>3
  <2>5. PICK a \in part, b \in D \ part :
            h[a] = h[x] /\ h[b] = h[x] /\ <<a, b>> \in EvidentPairs(corpus)
    <3> DEFINE E == EvidentPairs(corpus)
    <3>1. Tied(D, E, h) /\ part \in SUBSET D /\ x \in part /\ y \in D \ part /\ h[x] = h[y]
      BY <1>1, <2>2, <2>3, <2>4
    <3> HIDE DEF E
    <3>2. \E a \in part, b \in D \ part : h[a] = h[x] /\ h[b] = h[x] /\ <<a, b>> \in E
      BY <3>1, TiedAcross
    <3>3. QED  BY <3>2 DEF E
  <2>6. b \in c \ part  BY <2>1, <2>4, <2>5
  <2>7. QED  BY <2>5, <2>6
<1>8. QED  BY <1>4, <1>6, <1>7 DEF D

-----------------------------------------------------------------------------
(* The clusters of a run of the pilot.                                     *)

\* Nothing is clustered before it was imported, and the clusters are those of
\* the articles that were.
ClusterInv ==
    /\ \E given \in Given : rows = given.rows
    /\ pc \in {"start", "import"} => records = << >>
    /\ pc \in {"start", "import", "cluster"} => clusters = {}
    /\ records = << >> \/ records = Imported(rows)
    /\ clusters = {} \/ clusters = ExactClusters(records)

LEMMA ClusterInitial == PilotInit => ClusterInv
BY DEF PilotInit, ClusterInv

LEMMA ClusterKept ==
    ASSUME ClusterInv, inputs' = inputs, records' = records, clusters' = clusters,
           pc' \in {"start", "import"} => pc \in {"start", "import"},
           pc' = "cluster" => pc \in {"start", "import", "cluster"}
    PROVE  ClusterInv'
<1>1. rows' = rows  BY DEF inputs
<1>2. QED  BY <1>1 DEF ClusterInv

LEMMA ClusterStep == ClusterInv /\ [PilotNext]_pilotVars => ClusterInv'
<1> SUFFICES ASSUME ClusterInv, [PilotNext]_pilotVars PROVE ClusterInv'  OBVIOUS
<1>1. CASE Import
  BY <1>1 DEF Import, ClusterInv, inputs
<1>2. CASE Cluster
  BY <1>2 DEF Cluster, ClusterInv, inputs
<1>3. CASE EmptyFrame \/ BuildFrame \/ Sample \/ FormalBatch \/ Reconcile
  <2>1. /\ inputs' = inputs /\ records' = records /\ clusters' = clusters
        /\ pc' \notin {"start", "import", "cluster"}
    BY <1>3 DEF EmptyFrame, Emit, BuildFrame, Sample, FormalBatch, Reconcile, drawn
  <2>2. QED  BY <2>1, ClusterKept
<1>4. CASE Raise
  <2>1. inputs' = inputs /\ records' = records /\ clusters' = clusters /\ pc' = "raised"
    BY <1>4 DEF Raise, Write, drawn
  <2>2. QED  BY <2>1, ClusterKept
<1>5. CASE Preflight
  <2>1. inputs' = inputs /\ records' = records /\ clusters' = clusters /\ pc = "start" /\ pc' = "import"
    BY <1>5 DEF Preflight, Emit, drawn
  <2>2. QED  BY <2>1, ClusterKept
<1>6. CASE UNCHANGED pilotVars
  <2>1. inputs' = inputs /\ records' = records /\ clusters' = clusters /\ pc' = pc
    BY <1>6 DEF pilotVars, drawn
  <2>2. QED  BY <2>1, ClusterKept
<1>7. CASE \/ MissingCorpus \/ MissingProvenance \/ PlanReady \/ CalibrationReady \/ CalibrationReview
           \/ CalibrationIncomplete \/ ApprovalRequired \/ FormalReady \/ FormalIncomplete
           \/ AdjudicationRequired \/ AnalysisReady \/ ReviewRequired
  <2>1. /\ inputs' = inputs /\ records' = records /\ clusters' = clusters
        /\ pc' \notin {"start", "import", "cluster"}
    BY <1>7 DEF Emit, drawn, MissingCorpus, MissingProvenance, PlanReady, CalibrationReady,
       CalibrationReview, CalibrationIncomplete, ApprovalRequired, FormalReady, FormalIncomplete,
       AdjudicationRequired, AnalysisReady, ReviewRequired
  <2>2. QED  BY <2>1, ClusterKept
<1>8. CASE \/ SummarizeMissingProvenance \/ Summarize \/ WriteCalibration \/ CalibrationLabels
           \/ CalibrationAdjudicated \/ DecideCalibration \/ FormalLabels \/ LoadAdjudicated
           \/ WriteBaselines \/ WriteMetrics \/ NoAnalysis \/ NoReview
  <2>1. /\ inputs' = inputs /\ records' = records /\ clusters' = clusters
        /\ pc' \notin {"start", "import", "cluster"}
    BY <1>8 DEF Write, drawn, SummarizeMissingProvenance, Summarize, WriteCalibration,
       CalibrationLabels, CalibrationAdjudicated, DecideCalibration, FormalLabels, LoadAdjudicated,
       WriteBaselines, WriteMetrics, NoAnalysis, NoReview
  <2>2. QED  BY <2>1, ClusterKept
<1>9. CASE DecideMissingCorpus \/ DecideEmptyFrame \/ DecideUnapproved \/ Publish
  <2>1. /\ inputs' = inputs /\ records' = records /\ clusters' = clusters /\ pc' = "done"
    BY <1>9 DEF Decide, drawn, DecideMissingCorpus, DecideEmptyFrame, DecideUnapproved, Publish
  <2>2. QED  BY <2>1, ClusterKept
<1>10. QED
  BY <1>1, <1>2, <1>3, <1>4, <1>5, <1>6, <1>7, <1>8, <1>9, Zenon DEF PilotNext

\* The ids of a corpus are finitely many numbers.
LEMMA ImportedIds ==
    ASSUME NEW given \in Given
    PROVE  DOMAIN Imported(given.rows) \subseteq Int /\ IsFiniteSet(DOMAIN Imported(given.rows))
<1> DEFINE lines == given.rows
           ids == {lines[i].id : i \in Accepted(lines)}
<1>1. DOMAIN Imported(lines) = ids  BY DEF Imported
<1>2. Accepted(lines) \subseteq 1..Len(lines)  BY DEF Accepted
<1>3. IsFiniteSet(Accepted(lines))
  <2>1. Len(lines) \in Nat  BY PilotAssumption
  <2>2. IsFiniteSet(1..Len(lines))  BY <2>1, FS_Interval
  <2>3. QED  BY <1>2, <2>2, FS_Subset
<1>4. IsFiniteSet(ids)
  <2> DEFINE f == [i \in Accepted(lines) |-> lines[i].id]
  <2>1. f \in Surjection(Accepted(lines), ids)  BY DEF Surjection
  <2> HIDE DEF f
  <2>2. QED  BY <1>3, <2>1, FS_Surjection
<1>5. ids \subseteq Int  BY <1>2, PilotAssumption
<1>6. QED  BY <1>1, <1>4, <1>5

LEMMA ClusterInvIsEnough == ClusterInv => ClustersAreComponents
<1> SUFFICES ASSUME ClusterInv, clusters # {} PROVE ClustersAreComponents
  BY DEF ClustersAreComponents
<1>1. clusters = ExactClusters(records) /\ (records = << >> \/ records = Imported(rows))
  BY DEF ClusterInv
<1>2. PICK given \in Given : rows = given.rows  BY DEF ClusterInv
<1>3. DOMAIN records \subseteq Int /\ IsFiniteSet(DOMAIN records)
  <2>1. DOMAIN << >> = {}  OBVIOUS
  <2>2. QED  BY <1>1, <1>2, <2>1, ImportedIds, FS_EmptySet
<1>4. /\ UNION clusters = DOMAIN records
      /\ \A c, d \in clusters : c # d =>
            c \cap d = {} /\ ~\E a \in c, b \in d : <<a, b>> \in EvidentPairs(records)
      /\ \A c \in clusters : \A part \in (SUBSET c) \ {{}, c} :
            \E a \in part, b \in c \ part : <<a, b>> \in EvidentPairs(records)
  <2> DEFINE cs == ExactClusters(records)
  <2>1. /\ UNION cs = DOMAIN records
        /\ \A c, d \in cs : c # d =>
              c \cap d = {} /\ ~\E a \in c, b \in d : <<a, b>> \in EvidentPairs(records)
        /\ \A c \in cs : \A part \in (SUBSET c) \ {{}, c} :
              \E a \in part, b \in c \ part : <<a, b>> \in EvidentPairs(records)
    BY <1>3, ExactClustersFacts
  <2>2. clusters = cs  BY <1>1
  <2> HIDE DEF cs
  <2>3. QED  BY <2>1, <2>2
<1>5. \A a, b \in DOMAIN records : <<a, b>> \in EvidentPairs(records) <=> Evidence(a, b)
  BY EvidentFacts DEF Evidence
<1>6. \A c \in clusters : c \subseteq DOMAIN records  BY <1>4
<1>7. ASSUME NEW c \in clusters, NEW d \in clusters, c # d
      PROVE  c \cap d = {} /\ ~\E a \in c, b \in d : Evidence(a, b)
  <2>1. c \subseteq DOMAIN records /\ d \subseteq DOMAIN records  BY <1>6
  <2>2. \A a \in c, b \in d : ~Evidence(a, b)  BY <1>4, <1>5, <1>7, <2>1
  <2>3. QED  BY <1>4, <1>7, <2>2
<1>8. ASSUME NEW c \in clusters, NEW part \in (SUBSET c) \ {{}, c}
      PROVE  \E a \in part, b \in c \ part : Evidence(a, b)
  <2>1. PICK a \in part, b \in c \ part : <<a, b>> \in EvidentPairs(records)  BY <1>4
  <2>2. a \in DOMAIN records /\ b \in DOMAIN records  BY <1>6
  <2>3. QED  BY <1>5, <2>1, <2>2
<1>9. QED  BY <1>4, <1>7, <1>8 DEF ClustersAreComponents

\* For any corpus: the clusters that cluster_exact_duplicates returns partition
\* the articles, no evidence of identity joins two of them, and none can be
\* split without evidence across the split.
THEOREM ClustersAreComponentsHolds == PilotSpec => []ClustersAreComponents
BY ClusterInitial, ClusterStep, ClusterInvIsEnough, PTL DEF PilotSpec

-----------------------------------------------------------------------------
(* Counting what comes before.                                             *)

\* The first m members of an enumeration.
Leading(s, m) == {s[j] : j \in 1..m}

LEMMA LeadingSize ==
    ASSUME NEW S, IsFiniteSet(S), NEW before, Orders(S, before), NEW s, Enumerates(s, S, before),
           NEW m \in 0..Cardinality(S)
    PROVE  Cardinality(Leading(s, m)) = m /\ Leading(s, m) \subseteq S
<1> DEFINE f == [j \in 1..m |-> s[j]]
<1>1. Cardinality(S) \in Nat  BY FS_CardinalityType
<1>2. \A j \in 1..m : j \in 1..Cardinality(S) /\ s[j] \in S  BY <1>1 DEF Enumerates
<1>3. \A i, j \in 1..m : i < j => s[i] # s[j]  BY <1>2 DEF Enumerates, Orders
<1>4. \A i, j \in 1..m : s[i] = s[j] => i = j  BY <1>1, <1>3
<1>5. f \in Surjection(1..m, Leading(s, m))  BY DEF Surjection, Leading
<1>6. f \in Injection(1..m, Leading(s, m))  BY <1>4, <1>5 DEF Injection, IsInjective, Surjection
<1>7. m \in Nat /\ IsFiniteSet(1..m) /\ Cardinality(1..m) = m  BY <1>1, FS_Interval
<1> HIDE DEF f
<1>8. Cardinality(Leading(s, m)) = m  BY <1>5, <1>6, <1>7, FS_Surjection
<1>9. QED  BY <1>2, <1>8 DEF Leading

\* In a finite order, as many members have fewer than k before them as there
\* can be.
Behind(S, before, x) == {y \in S : <<y, x>> \in before}
FirstOf(S, before, k) == {x \in S : Cardinality(Behind(S, before, x)) < k}

LEMMA FirstOfSize ==
    ASSUME NEW S, IsFiniteSet(S), NEW before, Orders(S, before), NEW k \in Int
    PROVE  /\ k < 0 => Cardinality(FirstOf(S, before, k)) = 0
           /\ 0 <= k /\ k <= Cardinality(S) => Cardinality(FirstOf(S, before, k)) = k
           /\ k >= Cardinality(S) => FirstOf(S, before, k) = S
<1> DEFINE n == Cardinality(S)
           s == Ascending(S, before)
<1>1. Enumerates(s, S, before)  BY Enumeration
<1>2. \A x \in S : \E i \in 1..n : s[i] = x  BY <1>1, EnumerationOnto
<1>3. n \in Nat  BY FS_CardinalityType
<1> HIDE DEF s
<1>a. \A i \in 1..n : s[i] \in S  BY <1>1 DEF Enumerates
<1>4. ASSUME NEW i \in 1..n PROVE Cardinality(Behind(S, before, s[i])) = i - 1
  <2>1. i - 1 \in 0..n  BY <1>3
  <2>2. Behind(S, before, s[i]) = Leading(s, i - 1)
    <3>1. ASSUME NEW y \in Behind(S, before, s[i]) PROVE y \in Leading(s, i - 1)
      <4>1. y \in S /\ <<y, s[i]>> \in before  BY DEF Behind
      <4>2. PICK j \in 1..n : s[j] = y  BY <1>2, <4>1
      <4>3. ~(j > i)
        <5> SUFFICES ASSUME i < j PROVE FALSE  BY <1>3
        <5>1. <<s[i], s[j]>> \in before  BY <1>1 DEF Enumerates
        <5>2. <<s[i], s[i]>> \in before  BY <1>a, <4>1, <4>2, <5>1 DEF Orders
        <5>3. QED  BY <1>a, <5>2 DEF Orders
      <4>4. j # i  BY <1>a, <4>1, <4>2 DEF Orders
      <4>5. j \in 1..(i - 1)  BY <1>3, <4>3, <4>4
      <4>6. QED  BY <4>2, <4>5 DEF Leading
    <3>2. ASSUME NEW y \in Leading(s, i - 1) PROVE y \in Behind(S, before, s[i])
      <4>1. PICK j \in 1..(i - 1) : y = s[j]  BY DEF Leading
      <4>2. j \in 1..n /\ j < i  BY <1>3
      <4>3. QED  BY <1>1, <1>a, <4>1, <4>2 DEF Enumerates, Behind
    <3>3. QED  BY <3>1, <3>2
  <2>3. QED  BY <1>1, <2>1, <2>2, LeadingSize
<1>5. \A x \in S : Cardinality(Behind(S, before, x)) \in 0..(n - 1)
  <2>1. \A i \in 1..n : Cardinality(Behind(S, before, s[i])) \in 0..(n - 1)  BY <1>3, <1>4
  <2>2. QED  BY <1>2, <2>1
<1>6. CASE k < 0
  <2>1. FirstOf(S, before, k) = {}  BY <1>3, <1>5, <1>6 DEF FirstOf
  <2>2. QED  BY <1>3, <1>6, <2>1, FS_EmptySet
<1>7. CASE k >= n
  <2>1. FirstOf(S, before, k) = S  BY <1>3, <1>5, <1>7 DEF FirstOf
  <2>2. QED  BY <1>3, <1>7, <2>1
<1>8. CASE 0 <= k /\ k < n
  <2>1. FirstOf(S, before, k) = Leading(s, k)
    <3>1. ASSUME NEW x \in FirstOf(S, before, k) PROVE x \in Leading(s, k)
      <4>1. x \in S /\ Cardinality(Behind(S, before, x)) < k  BY DEF FirstOf
      <4>2. PICK i \in 1..n : s[i] = x  BY <1>2, <4>1
      <4>3. i \in 1..k  BY <1>3, <1>4, <4>1, <4>2
      <4>4. QED  BY <4>2, <4>3 DEF Leading
    <3>2. ASSUME NEW x \in Leading(s, k) PROVE x \in FirstOf(S, before, k)
      <4>1. PICK i \in 1..k : x = s[i]  BY DEF Leading
      <4>2. i \in 1..n /\ i - 1 < k  BY <1>3, <1>8
      <4>3. QED  BY <1>4, <1>a, <4>1, <4>2 DEF FirstOf
    <3>3. QED  BY <3>1, <3>2
  <2>2. Cardinality(Leading(s, k)) = k  BY <1>1, <1>3, <1>8, LeadingSize
  <2>3. QED  BY <1>3, <1>8, <2>1, <2>2
<1>9. QED  BY <1>3, <1>6, <1>7, <1>8

\* The ranks of a pool under a salt differ.
Distinct(pool, salt) ==
    /\ Ranked(pool, salt)
    /\ \A u, v \in pool : Rank(salt, u) = Rank(salt, v) => u = v

\* The k lowest ranks are k, or the whole pool.
LEMMA LowestRankedExact ==
    ASSUME NEW pool, NEW salt, NEW k \in Int, Distinct(pool, salt)
    PROVE  /\ LowestRanked(pool, k, salt) \subseteq pool
           /\ k <= 0 => LowestRanked(pool, k, salt) = {}
           /\ 0 <= k /\ k <= Cardinality(pool) => Cardinality(LowestRanked(pool, k, salt)) = k
           /\ k >= Cardinality(pool) => LowestRanked(pool, k, salt) = pool
<1> DEFINE before == {p \in pool \X pool : Rank(salt, p[1]) < Rank(salt, p[2])}
<1>1. IsFiniteSet(pool)  BY DEF Distinct, Ranked
<1>2. Orders(pool, before)  BY DEF Orders, Distinct, Ranked
<1>3. LowestRanked(pool, k, salt) = FirstOf(pool, before, k)
  <2>1. \A u \in pool : Behind(pool, before, u) = {v \in pool : Rank(salt, v) < Rank(salt, u)}
    BY DEF Behind
  <2> HIDE DEF before
  <2>2. QED  BY <2>1 DEF LowestRanked, FirstOf
<1> HIDE DEF before
<1>4. LowestRanked(pool, k, salt) \subseteq pool  BY DEF LowestRanked
<1>5. /\ k < 0 => Cardinality(FirstOf(pool, before, k)) = 0
      /\ 0 <= k /\ k <= Cardinality(pool) => Cardinality(FirstOf(pool, before, k)) = k
      /\ k >= Cardinality(pool) => FirstOf(pool, before, k) = pool
  BY <1>1, <1>2, FirstOfSize
<1>6. Cardinality(pool) \in Nat  BY <1>1, FS_CardinalityType
<1>7. k <= 0 => LowestRanked(pool, k, salt) = {}
  <2> SUFFICES ASSUME k <= 0 PROVE LowestRanked(pool, k, salt) = {}  OBVIOUS
  <2>1. Cardinality(LowestRanked(pool, k, salt)) = 0
    <3>1. k < 0 \/ k = 0  OBVIOUS
    <3>2. QED  BY <1>3, <1>5, <1>6, <3>1
  <2>2. QED  BY <1>1, <1>4, <2>1, FS_Subset, FS_EmptySet
<1>8. QED  BY <1>3, <1>4, <1>5, <1>7

-----------------------------------------------------------------------------
(* Sums over finite sets.                                                  *)

\* Among sets of members of S there is one from which no member can be taken.
LEMMA SmallestOfSets ==
    ASSUME NEW S, IsFiniteSet(S), NEW sets, sets \subseteq SUBSET S, sets # {}
    PROVE  \E T \in sets : \A x \in T : T \ {x} \notin sets
<1> DEFINE sizes == {Cardinality(T) : T \in sets}
<1>1. \A T \in sets : IsFiniteSet(T) /\ Cardinality(T) \in Nat  BY FS_Subset, FS_CardinalityType
<1>2. sizes \subseteq Nat /\ sizes # {}  BY <1>1
<1>3. PICK least \in sizes : \A n \in sizes : least <= n
  <2> HIDE DEF sizes
  <2>1. QED  BY <1>2, LeastNatural
<1>4. PICK T \in sets : \A U \in sets : Cardinality(T) <= Cardinality(U)  BY <1>3
<1>5. ASSUME NEW x \in T, T \ {x} \in sets PROVE FALSE
  <2>1. Cardinality(T \ {x}) = Cardinality(T) - 1  BY <1>1, FS_RemoveElement
  <2>2. Cardinality(T) <= Cardinality(T \ {x}) /\ Cardinality(T) \in Nat  BY <1>1, <1>4, <1>5
  <2>3. QED  BY <2>1, <2>2
<1>6. QED  BY <1>5

\* f[h] units for each h of T: their number is the sum of f over T.
Units(T, f) == {p \in T \X Nat : p[2] \in 1..f[p[1]]}

LEMMA UnitsOfOne ==
    ASSUME NEW T, NEW f, NEW x \in T, f[x] \in Nat
    PROVE  /\ Units(T, f) = Units(T \ {x}, f) \cup Units({x}, f)
           /\ Units(T \ {x}, f) \cap Units({x}, f) = {}
           /\ IsFiniteSet(Units({x}, f)) /\ Cardinality(Units({x}, f)) = f[x]
<1> DEFINE g == [i \in 1..f[x] |-> <<x, i>>]
<1>1. Units({x}, f) = {<<x, i>> : i \in 1..f[x]}  BY DEF Units
<1>2. g \in Surjection(1..f[x], Units({x}, f))  BY <1>1 DEF Surjection
<1>3. g \in Injection(1..f[x], Units({x}, f))  BY <1>1 DEF Injection, IsInjective
<1>4. IsFiniteSet(1..f[x]) /\ Cardinality(1..f[x]) = f[x]  BY FS_Interval
<1> HIDE DEF g
<1>5. IsFiniteSet(Units({x}, f)) /\ Cardinality(Units({x}, f)) = f[x]
  BY <1>2, <1>3, <1>4, FS_Surjection
<1>6. Units(T, f) = Units(T \ {x}, f) \cup Units({x}, f)  BY DEF Units
<1>7. Units(T \ {x}, f) \cap Units({x}, f) = {}  BY DEF Units
<1>8. QED  BY <1>5, <1>6, <1>7

LEMMA UnitsCounted ==
    ASSUME NEW S, IsFiniteSet(S), NEW f, \A x \in S : f[x] \in Nat
    PROVE  \A T \in SUBSET S :
              /\ IsFiniteSet(Units(T, f)) /\ Cardinality(Units(T, f)) \in Nat
              /\ T = {} => Cardinality(Units(T, f)) = 0
              /\ \A x \in T :
                    Cardinality(Units(T, f)) = f[x] + Cardinality(Units(T \ {x}, f))
<1> DEFINE bad == {T \in SUBSET S : ~IsFiniteSet(Units(T, f))}
<1>1. Units({}, f) = {}  BY DEF Units
<1>2. bad = {}
  <2> SUFFICES ASSUME bad # {} PROVE FALSE  OBVIOUS
  <2>1. PICK T \in bad : \A x \in T : T \ {x} \notin bad
    <3>1. bad \subseteq SUBSET S  OBVIOUS
    <3> HIDE DEF bad
    <3>2. QED  BY <3>1, SmallestOfSets
  <2>2. T # {}  BY <1>1, FS_EmptySet
  <2>3. PICK x \in T : TRUE  BY <2>2
  <2>4. IsFiniteSet(Units(T \ {x}, f))  BY <2>1
  <2>5. f[x] \in Nat  OBVIOUS
  <2>6. /\ Units(T, f) = Units(T \ {x}, f) \cup Units({x}, f)
        /\ IsFiniteSet(Units({x}, f))
    BY <2>5, UnitsOfOne
  <2>7. IsFiniteSet(Units(T, f))  BY <2>4, <2>6, FS_Union
  <2>8. QED  BY <2>7
<1>3. ASSUME NEW T \in SUBSET S
      PROVE  /\ IsFiniteSet(Units(T, f)) /\ Cardinality(Units(T, f)) \in Nat
             /\ T = {} => Cardinality(Units(T, f)) = 0
  BY <1>1, <1>2, FS_CardinalityType, FS_EmptySet
<1>4. ASSUME NEW T \in SUBSET S, NEW x \in T
      PROVE  Cardinality(Units(T, f)) = f[x] + Cardinality(Units(T \ {x}, f))
  <2>1. f[x] \in Nat /\ T \ {x} \in SUBSET S  OBVIOUS
  <2> DEFINE A == Units(T \ {x}, f)
             B == Units({x}, f)
  <2>2. Units(T, f) = A \cup B /\ A \cap B = {} /\ IsFiniteSet(B) /\ Cardinality(B) = f[x]
    BY <2>1, UnitsOfOne
  <2>3. IsFiniteSet(A) /\ Cardinality(A) \in Nat  BY <1>3, <2>1
  <2> HIDE DEF A, B
  <2>4. Cardinality(A \cup B) = Cardinality(A) + Cardinality(B) - Cardinality(A \cap B)
    BY <2>2, <2>3, FS_Union
  <2>5. Cardinality(A \cap B) = 0  BY <2>2, FS_EmptySet
  <2>6. Cardinality(A \cup B) = f[x] + Cardinality(A)  BY <2>1, <2>2, <2>3, <2>4, <2>5
  <2>7. QED  BY <2>2, <2>6 DEF A
<1>5. QED  BY <1>3, <1>4

\* The sum over S, a member after the other.
Adding(S, f, sum) ==
    sum = [T \in SUBSET S |-> IF T = {} THEN 0 ELSE f[AnyOf(T)] + sum[T \ {AnyOf(T)}]]

LEMMA AddingFacts ==
    ASSUME NEW S, IsFiniteSet(S), NEW f, \A x \in S : f[x] \in Nat
    PROVE  /\ Adding(S, f, [T \in SUBSET S |-> Cardinality(Units(T, f))])
           /\ \A sum : Adding(S, f, sum) => sum[S] = Cardinality(Units(S, f))
<1> DEFINE count == [T \in SUBSET S |-> Cardinality(Units(T, f))]
<1>1. \A T \in SUBSET S : T # {} => AnyOf(T) \in T /\ T \ {AnyOf(T)} \in SUBSET S  BY DEF AnyOf
<1>2. \A T \in SUBSET S :
          count[T] = IF T = {} THEN 0 ELSE f[AnyOf(T)] + count[T \ {AnyOf(T)}]
  <2> SUFFICES ASSUME NEW T \in SUBSET S
               PROVE  count[T] = IF T = {} THEN 0 ELSE f[AnyOf(T)] + count[T \ {AnyOf(T)}]
    OBVIOUS
  <2>1. CASE T = {}  BY <2>1, UnitsCounted
  <2>2. CASE T # {}
    <3>1. AnyOf(T) \in T /\ T \ {AnyOf(T)} \in SUBSET S  BY <1>1, <2>2
    <3>2. Cardinality(Units(T, f)) = f[AnyOf(T)] + Cardinality(Units(T \ {AnyOf(T)}, f))
      BY <3>1, UnitsCounted
    <3>3. QED  BY <2>2, <3>1, <3>2
  <2>3. QED  BY <2>1, <2>2
<1>3. Adding(S, f, count)
  <2>1. count = [T \in SUBSET S |-> count[T]]  OBVIOUS
  <2>2. QED  BY <1>2, <2>1 DEF Adding
<1>4. ASSUME NEW sum, Adding(S, f, sum) PROVE sum[S] = Cardinality(Units(S, f))
  <2> DEFINE bad == {T \in SUBSET S : sum[T] # count[T]}
  <2>1. \A T \in SUBSET S : sum[T] = IF T = {} THEN 0 ELSE f[AnyOf(T)] + sum[T \ {AnyOf(T)}]
    BY <1>4 DEF Adding
  <2> HIDE DEF count
  <2>2. bad = {}
    <3> SUFFICES ASSUME bad # {} PROVE FALSE  OBVIOUS
    <3>1. PICK T \in bad : \A x \in T : T \ {x} \notin bad
      <4>1. bad \subseteq SUBSET S  OBVIOUS
      <4> HIDE DEF bad
      <4>2. QED  BY <4>1, SmallestOfSets
    <3>2. T \in SUBSET S /\ sum[T] # count[T]  BY <3>1
    <3>3. T # {}  BY <1>2, <2>1, <3>2
    <3>4. AnyOf(T) \in T /\ T \ {AnyOf(T)} \in SUBSET S  BY <1>1, <3>2, <3>3
    <3>5. sum[T \ {AnyOf(T)}] = count[T \ {AnyOf(T)}]  BY <3>1, <3>4
    <3>6. sum[T] = count[T]  BY <1>2, <2>1, <3>2, <3>3, <3>5
    <3>7. QED  BY <3>2, <3>6
  <2>3. sum[S] = count[S]  BY <2>2
  <2>4. QED  BY <2>3 DEF count
<1>5. QED  BY <1>3, <1>4

LEMMA LesserOfTwo ==
    ASSUME NEW a \in Int, NEW b \in Int
    PROVE  AtMost(a, b) = IF a < b THEN a ELSE b
<1>1. IsFiniteSet({a, b})
  <2>1. IsFiniteSet({}) /\ IsFiniteSet({a}) /\ {a, b} = {a} \cup {b}
    BY FS_EmptySet, FS_Singleton
  <2>2. IsFiniteSet({b})  BY FS_Singleton
  <2>3. QED  BY <2>1, <2>2, FS_Union
<1>2. Min({a, b}) \in {a, b} /\ \A y \in {a, b} : Min({a, b}) <= y  BY <1>1, Extremes
<1>3. QED  BY <1>2 DEF AtMost

-----------------------------------------------------------------------------
(* The representative sample.                                              *)

\* What Allocation computes, a step at a time: the strata that get their first
\* unit, what is left for the shares, the shares, and who gets one more.
Heads(f, target) == {h \in Strata(f) : Cardinality({g \in Strata(f) : g < h}) < target}
Rest(f, target) == target - AtMost(target, Cardinality(Strata(f)))
One(condition) == IF condition THEN 1 ELSE 0
First1(f, target, h) == IF Cardinality({g \in Strata(f) : g < h}) < target THEN 1 ELSE 0
Population(f, h) == Cardinality(InStratum(f, h))
Share(f, target, h) ==
    AtMost((Rest(f, target) * Population(f, h)) \div Cardinality(DOMAIN f),
           Population(f, h) - First1(f, target, h))
Shares(f, target) == [h \in Strata(f) |-> Share(f, target, h)]
Shared(f, target) == Cardinality(Units(Strata(f), Shares(f, target)))
Room(f, target) ==
    {h \in Strata(f) : First1(f, target, h) + Share(f, target, h) < Population(f, h)}
Fraction(f, target, h) == (Rest(f, target) * Population(f, h)) % Cardinality(DOMAIN f)
ByFraction(f, target) ==
    {p \in Room(f, target) \X Room(f, target) :
        \/ Fraction(f, target, p[1]) > Fraction(f, target, p[2])
        \/ Fraction(f, target, p[1]) = Fraction(f, target, p[2]) /\ p[1] > p[2]}
Extras(f, target) ==
    FirstOf(Room(f, target), ByFraction(f, target), Rest(f, target) - Shared(f, target))

\* A frame of ranked units in ordered strata.
Drawable(f) ==
    /\ IsFiniteSet(DOMAIN f) /\ DOMAIN f # {}
    /\ \A u \in DOMAIN f : f[u].stratum \in Int
    /\ Distinct(DOMAIN f, <<"main">>)

LEMMA StrataFacts ==
    ASSUME NEW f, Drawable(f)
    PROVE  /\ IsFiniteSet(Strata(f)) /\ Strata(f) \subseteq Int /\ Strata(f) # {}
           /\ \A h \in Strata(f) :
                 /\ InStratum(f, h) \subseteq DOMAIN f /\ InStratum(f, h) # {}
                 /\ IsFiniteSet(InStratum(f, h)) /\ Population(f, h) \in Nat \ {0}
           /\ Cardinality(Strata(f)) \in Nat /\ Cardinality(DOMAIN f) \in Nat \ {0}
<1> DEFINE of == [u \in DOMAIN f |-> f[u].stratum]
<1>1. of \in Surjection(DOMAIN f, Strata(f))  BY DEF Surjection, Strata
<1>2. IsFiniteSet(Strata(f))  BY <1>1, FS_Surjection DEF Drawable
<1>3. Strata(f) \subseteq Int /\ Strata(f) # {}  BY DEF Strata, Drawable
<1>4. ASSUME NEW h \in Strata(f)
      PROVE  /\ InStratum(f, h) \subseteq DOMAIN f /\ InStratum(f, h) # {}
             /\ IsFiniteSet(InStratum(f, h)) /\ Population(f, h) \in Nat \ {0}
  <2>1. InStratum(f, h) \subseteq DOMAIN f /\ InStratum(f, h) # {}  BY DEF Strata, InStratum
  <2>2. IsFiniteSet(InStratum(f, h))  BY <2>1, FS_Subset DEF Drawable
  <2>3. QED  BY <2>1, <2>2, FS_CardinalityType, FS_EmptySet DEF Population
<1>5. Cardinality(Strata(f)) \in Nat  BY <1>2, FS_CardinalityType
<1>6. Cardinality(DOMAIN f) \in Nat \ {0}  BY FS_CardinalityType, FS_EmptySet DEF Drawable
<1>7. QED  BY <1>2, <1>3, <1>4, <1>5, <1>6

LEMMA SharesFacts ==
    ASSUME NEW f, Drawable(f), NEW target \in Nat
    PROVE  /\ Heads(f, target) \subseteq Strata(f) /\ IsFiniteSet(Heads(f, target))
           /\ Cardinality(Heads(f, target)) = AtMost(target, Cardinality(Strata(f)))
           /\ target >= Cardinality(Strata(f)) => Heads(f, target) = Strata(f)
           /\ Rest(f, target) \in Nat
           /\ target = Cardinality(Heads(f, target)) + Rest(f, target)
           /\ \A h \in Strata(f) :
                 /\ Shares(f, target)[h] \in Nat
                 /\ Cardinality(DOMAIN f) * Shares(f, target)[h] <= Rest(f, target) * Population(f, h)
                 /\ First1(f, target, h) + Shares(f, target)[h] <= Population(f, h)
<1> DEFINE lt == {p \in Strata(f) \X Strata(f) : p[1] < p[2]}
           n == Cardinality(Strata(f))
<1>1. IsFiniteSet(Strata(f)) /\ Strata(f) \subseteq Int /\ n \in Nat  BY StrataFacts
<1>2. Orders(Strata(f), lt)  BY <1>1, NumbersInOrder
<1>3. Heads(f, target) = FirstOf(Strata(f), lt, target)
  <2>1. \A h \in Strata(f) : Behind(Strata(f), lt, h) = {g \in Strata(f) : g < h}  BY DEF Behind
  <2> HIDE DEF lt
  <2>2. QED  BY <2>1 DEF Heads, FirstOf
<1> HIDE DEF lt
<1>4. /\ target <= n => Cardinality(Heads(f, target)) = target
      /\ target >= n => Heads(f, target) = Strata(f)
  BY <1>1, <1>2, <1>3, FirstOfSize
<1>5. Heads(f, target) \subseteq Strata(f) /\ IsFiniteSet(Heads(f, target))
  BY <1>1, FS_Subset DEF Heads
<1>6. AtMost(target, n) = IF target < n THEN target ELSE n  BY <1>1, LesserOfTwo
<1>7. Cardinality(Heads(f, target)) = AtMost(target, n)  BY <1>1, <1>4, <1>6
<1>8. Rest(f, target) \in Nat  BY <1>1, <1>6 DEF Rest
<1>9. target = Cardinality(Heads(f, target)) + Rest(f, target)  BY <1>1, <1>6, <1>7 DEF Rest
<1>10. ASSUME NEW h \in Strata(f)
       PROVE  /\ Shares(f, target)[h] \in Nat
              /\ Cardinality(DOMAIN f) * Shares(f, target)[h] <= Rest(f, target) * Population(f, h)
              /\ First1(f, target, h) + Shares(f, target)[h] <= Population(f, h)
  <2> DEFINE total == Cardinality(DOMAIN f)
             product == Rest(f, target) * Population(f, h)
             room == Population(f, h) - First1(f, target, h)
  <2>1. total \in Nat \ {0} /\ Population(f, h) \in Nat \ {0}  BY StrataFacts
  <2>2. First1(f, target, h) \in {0, 1}  BY DEF First1
  <2>3. product \in Nat  BY <1>8, <2>1
  <2>4. room \in Nat  BY <2>1, <2>2
  <2>5. Shares(f, target)[h] = AtMost(product \div total, room)  BY DEF Shares, Share
  <2> HIDE DEF total, product, room
  <2>6. product \div total \in Nat /\ total * (product \div total) <= product  BY <2>1, <2>3
  <2>7. AtMost(product \div total, room) = IF product \div total < room THEN product \div total ELSE room
    BY <2>4, <2>6, LesserOfTwo
  <2> DEFINE quotient == product \div total
  <2> HIDE DEF quotient
  <2>8. quotient \in Nat /\ total * quotient <= product
        /\ Shares(f, target)[h] = IF quotient < room THEN quotient ELSE room
    BY <2>5, <2>6, <2>7 DEF quotient
  <2>9. Shares(f, target)[h] \in Nat /\ Shares(f, target)[h] <= quotient /\ Shares(f, target)[h] <= room
    BY <2>4, <2>8
  <2>10. total * Shares(f, target)[h] <= total * quotient  BY <2>1, <2>8, <2>9
  <2>11. total * Shares(f, target)[h] <= product  BY <2>1, <2>3, <2>8, <2>9, <2>10
  <2>12. First1(f, target, h) + Shares(f, target)[h] <= Population(f, h)
    BY <2>1, <2>2, <2>9 DEF room
  <2>13. QED  BY <2>9, <2>11, <2>12 DEF total, product
<1>11. QED  BY <1>4, <1>5, <1>7, <1>8, <1>9, <1>10

\* The units of the strata of a set.
Members(f, T) == {u \in DOMAIN f : f[u].stratum \in T}

LEMMA MembersOfOne ==
    ASSUME NEW f, Drawable(f), NEW T \in SUBSET Strata(f)
    PROVE  /\ IsFiniteSet(Members(f, T)) /\ Cardinality(Members(f, T)) \in Nat
           /\ \A x \in T : Cardinality(Members(f, T))
                             = Population(f, x) + Cardinality(Members(f, T \ {x}))
<1>1. \A U : IsFiniteSet(Members(f, U)) /\ Cardinality(Members(f, U)) \in Nat
  BY FS_Subset, FS_CardinalityType DEF Members, Drawable
<1>2. ASSUME NEW x \in T
      PROVE  Cardinality(Members(f, T)) = Population(f, x) + Cardinality(Members(f, T \ {x}))
  <2>1. Members(f, T) \ InStratum(f, x) = Members(f, T \ {x})  BY DEF Members, InStratum
  <2>2. Members(f, T) \cap InStratum(f, x) = InStratum(f, x)  BY DEF Members, InStratum
  <2>3. Cardinality(Members(f, T) \ InStratum(f, x))
           = Cardinality(Members(f, T)) - Cardinality(Members(f, T) \cap InStratum(f, x))
    BY <1>1, FS_Difference
  <2>4. Population(f, x) \in Nat  BY StrataFacts
  <2>5. Cardinality(Members(f, T \ {x})) = Cardinality(Members(f, T)) - Population(f, x)
    BY <2>1, <2>2, <2>3 DEF Population
  <2>6. Cardinality(Members(f, T)) \in Nat /\ Cardinality(Members(f, T \ {x})) \in Nat  BY <1>1
  <2> QED  BY <2>4, <2>5, <2>6
<1>3. QED  BY <1>1, <1>2

\* The shares do not exceed what is left for them.
LEMMA SharedBounded ==
    ASSUME NEW f, Drawable(f), NEW target \in Nat
    PROVE  Shared(f, target) \in Nat /\ Shared(f, target) <= Rest(f, target)
<1> DEFINE total == Cardinality(DOMAIN f)
           rest == Rest(f, target)
           shares == Shares(f, target)
           Sum(T) == Cardinality(Units(T, shares))
           Size1(T) == Cardinality(Members(f, T))
           bad == {T \in SUBSET Strata(f) : ~(total * Sum(T) <= rest * Size1(T))}
<1>1. IsFiniteSet(Strata(f)) /\ total \in Nat \ {0}  BY StrataFacts
<1>2. rest \in Nat /\ \A h \in Strata(f) : shares[h] \in Nat /\ total * shares[h] <= rest * Population(f, h)
  BY SharesFacts
<1>3. \A T \in SUBSET Strata(f) :
          /\ Sum(T) \in Nat /\ (T = {} => Sum(T) = 0)
          /\ \A x \in T : Sum(T) = shares[x] + Sum(T \ {x})
  <2> HIDE DEF shares
  <2>1. QED  BY <1>1, <1>2, UnitsCounted
<1>4. \A T \in SUBSET Strata(f) :
          /\ Size1(T) \in Nat
          /\ \A x \in T : Size1(T) = Population(f, x) + Size1(T \ {x})
  BY MembersOfOne
<1>5. \A h \in Strata(f) : Population(f, h) \in Nat  BY StrataFacts
<1>t. Size1(Strata(f)) = total
  <2>1. Members(f, Strata(f)) = DOMAIN f  BY DEF Members, Strata
  <2>2. QED  BY <2>1
<1>s. Shared(f, target) = Sum(Strata(f))  BY DEF Shared
<1> HIDE DEF total, rest, shares, Sum, Size1
<1>6. bad = {}
  <2> SUFFICES ASSUME bad # {} PROVE FALSE  OBVIOUS
  <2>1. PICK T \in bad : \A x \in T : T \ {x} \notin bad
    <3>1. bad \subseteq SUBSET Strata(f)  OBVIOUS
    <3> HIDE DEF bad
    <3>2. QED  BY <1>1, <3>1, SmallestOfSets
  <2>2. T \in SUBSET Strata(f) /\ ~(total * Sum(T) <= rest * Size1(T))  BY <2>1
  <2>3. T # {}
    <3> SUFFICES ASSUME T = {} PROVE FALSE  OBVIOUS
    <3>1. Sum(T) = 0 /\ Size1(T) \in Nat  BY <1>3, <1>4, <2>2
    <3>2. total * Sum(T) = 0 /\ rest * Size1(T) \in Nat  BY <1>1, <1>2, <3>1
    <3>3. QED  BY <2>2, <3>2
  <2>4. PICK x \in T : TRUE  BY <2>3
  <2>5. T \ {x} \in SUBSET Strata(f) /\ T \ {x} \notin bad /\ x \in Strata(f)  BY <2>1, <2>2
  <2>6. total * Sum(T \ {x}) <= rest * Size1(T \ {x})  BY <2>5
  <2>7. total * shares[x] <= rest * Population(f, x)  BY <1>2, <2>5
  <2>8. Sum(T) = shares[x] + Sum(T \ {x}) /\ Size1(T) = Population(f, x) + Size1(T \ {x})
    BY <1>3, <1>4, <2>2
  <2>9. /\ Sum(T \ {x}) \in Nat /\ Size1(T \ {x}) \in Nat /\ shares[x] \in Nat
        /\ Population(f, x) \in Nat
    BY <1>2, <1>3, <1>4, <1>5, <2>5
  <2>10. total * (shares[x] + Sum(T \ {x})) = total * shares[x] + total * Sum(T \ {x})
    BY <1>1, <2>9
  <2>11. rest * (Population(f, x) + Size1(T \ {x})) = rest * Population(f, x) + rest * Size1(T \ {x})
    BY <1>2, <2>9
  <2>12. /\ total * shares[x] \in Int /\ total * Sum(T \ {x}) \in Int
         /\ rest * Population(f, x) \in Int /\ rest * Size1(T \ {x}) \in Int
    BY <1>1, <1>2, <2>9
  <2>13. QED  BY <2>2, <2>6, <2>7, <2>8, <2>10, <2>11, <2>12
<1>7. total * Sum(Strata(f)) <= rest * total
  <2>1. Strata(f) \notin bad  BY <1>6
  <2>2. QED  BY <1>t, <2>1
<1>8. Sum(Strata(f)) \in Nat  BY <1>3
<1>9. Sum(Strata(f)) <= rest
  <2> SUFFICES ASSUME Sum(Strata(f)) >= rest + 1 PROVE FALSE  BY <1>2, <1>8
  <2>1. total * Sum(Strata(f)) >= total * (rest + 1)  BY <1>1, <1>2, <1>8
  <2>2. total * (rest + 1) = rest * total + total  BY <1>1, <1>2
  <2>3. rest * total \in Int /\ total * Sum(Strata(f)) \in Int  BY <1>1, <1>2, <1>8
  <2>4. QED  BY <1>1, <1>7, <2>1, <2>2, <2>3
<1>10. QED  BY <1>8, <1>9, <1>s DEF rest

\* One step of the sum in Allocation.
Next1(f, target, sum, T) ==
    IF T = {} THEN 0 ELSE Share(f, target, AnyOf(T)) + sum[T \ {AnyOf(T)}]
SumOfShares(f, target, sum) == sum = [T \in SUBSET Strata(f) |-> Next1(f, target, sum, T)]

LEMMA SumOfSharesIs ==
    ASSUME NEW f, Drawable(f), NEW target \in Nat
    PROVE  /\ \E sum : SumOfShares(f, target, sum)
           /\ \A sum : SumOfShares(f, target, sum) => sum[Strata(f)] = Shared(f, target)
<1> DEFINE S == Strata(f)
           shares == Shares(f, target)
<1>1. IsFiniteSet(S) /\ \A h \in S : shares[h] \in Nat  BY StrataFacts, SharesFacts
<1>2. \A T \in SUBSET S : T # {} => shares[AnyOf(T)] = Share(f, target, AnyOf(T))
  BY DEF Shares, AnyOf
<1>3. \A sum : SumOfShares(f, target, sum) <=> Adding(S, shares, sum)
  <2> SUFFICES ASSUME NEW sum PROVE SumOfShares(f, target, sum) <=> Adding(S, shares, sum)  OBVIOUS
  <2> DEFINE a == [T \in SUBSET S |-> Next1(f, target, sum, T)]
             b == [T \in SUBSET S |-> IF T = {} THEN 0 ELSE shares[AnyOf(T)] + sum[T \ {AnyOf(T)}]]
  <2>1. \A T \in SUBSET S : a[T] = b[T]
    <3> HIDE DEF shares
    <3>1. QED  BY <1>2 DEF Next1
  <2>2. DOMAIN a = SUBSET S /\ DOMAIN b = SUBSET S  OBVIOUS
  <2>3. a = [T \in SUBSET S |-> a[T]] /\ b = [T \in SUBSET S |-> b[T]]  OBVIOUS
  <2>4. a = b
    <3> HIDE DEF a, b
    <3>1. QED  BY <2>1, <2>3
  <2>5. (SumOfShares(f, target, sum) <=> sum = a) /\ (Adding(S, shares, sum) <=> sum = b)
    BY Zenon DEF SumOfShares, Adding
  <2> HIDE DEF a, b
  <2>6. QED  BY <2>4, <2>5
<1> HIDE DEF S, shares
<1>4. \E sum : Adding(S, shares, sum)  BY <1>1, AddingFacts, Zenon
<1>5. \A sum : Adding(S, shares, sum) => sum[S] = Cardinality(Units(S, shares))
  BY <1>1, AddingFacts, Zenon
<1>6. QED  BY <1>3, <1>4, <1>5, Zenon DEF S, shares, Shared

LEMMA AllocationIs ==
    ASSUME NEW f, Drawable(f), NEW target \in Nat
    PROVE  Allocation(f, target) =
              [h \in Strata(f) |-> First1(f, target, h) + Shares(f, target)[h]
                                   + One(h \in Extras(f, target))]
<1> DEFINE Base(h) == Share(f, target, h)
           sum == MapThenSumSet(Base, Strata(f))
           iter == CHOOSE it : SumOfShares(f, target, it)
<1>1. sum = iter[Strata(f)]
  BY DEF MapThenSumSet, MapThenFoldSet, SumOfShares, Next1, AnyOf
<1>2. SumOfShares(f, target, iter)  BY SumOfSharesIs, Zenon
<1>3. sum = Shared(f, target)
  <2> HIDE DEF iter, sum
  <2>1. QED  BY <1>1, <1>2, SumOfSharesIs
<1> DEFINE open == Room(f, target)
           left == Rest(f, target) - sum
           Ahead(h) == {g \in open : \/ Fraction(f, target, g) > Fraction(f, target, h)
                                     \/ Fraction(f, target, g) = Fraction(f, target, h) /\ g > h}
<1>4. Allocation(f, target) =
        [h \in Strata(f) |-> First1(f, target, h) + Share(f, target, h)
            + IF h \in open /\ Cardinality(Ahead(h)) < left THEN 1 ELSE 0]
  BY DEF Allocation, First1, Share, Rest, Population, Room, Fraction
<1>5. \A h \in open : Behind(open, ByFraction(f, target), h) = Ahead(h)
  BY DEF Behind, ByFraction
<1> HIDE DEF sum
<1>6. \A h : h \in Extras(f, target) <=> h \in open /\ Cardinality(Ahead(h)) < left
  BY <1>3, <1>5 DEF Extras, FirstOf
<1>7. \A h \in Strata(f) : Shares(f, target)[h] = Share(f, target, h)  BY DEF Shares
<1> HIDE DEF open, left, Ahead
<1>8. \A h : One(h \in Extras(f, target)) = IF h \in open /\ Cardinality(Ahead(h)) < left THEN 1 ELSE 0
  BY <1>6 DEF One
<1>9. QED  BY <1>4, <1>7, <1>8

\* Every stratum gets some of its units, and not more than it has.
LEMMA AllocationFits ==
    ASSUME NEW f, Drawable(f), NEW target \in Nat
    PROVE  /\ \A h \in Strata(f) :
                 /\ Allocation(f, target)[h] \in Nat
                 /\ Allocation(f, target)[h] <= Population(f, h)
                 /\ h \in Heads(f, target) => Allocation(f, target)[h] >= 1
           /\ IsFiniteSet(Extras(f, target)) /\ Cardinality(Extras(f, target)) \in Nat
           /\ Cardinality(Extras(f, target)) <= Rest(f, target) - Shared(f, target)
<1>1. ASSUME NEW h \in Strata(f)
      PROVE  /\ Allocation(f, target)[h] \in Nat
             /\ Allocation(f, target)[h] <= Population(f, h)
             /\ h \in Heads(f, target) => Allocation(f, target)[h] >= 1
  <2>1. Allocation(f, target)[h] = First1(f, target, h) + Shares(f, target)[h]
                                   + One(h \in Extras(f, target))
    BY AllocationIs
  <2>2. /\ Shares(f, target)[h] \in Nat
        /\ First1(f, target, h) + Shares(f, target)[h] <= Population(f, h)
    BY SharesFacts
  <2>3. First1(f, target, h) \in {0, 1} /\ One(h \in Extras(f, target)) \in {0, 1}
    BY DEF First1, One
  <2>4. h \in Heads(f, target) => First1(f, target, h) = 1  BY DEF First1, Heads
  <2>5. Population(f, h) \in Nat  BY StrataFacts
  <2>6. One(h \in Extras(f, target)) = 1 =>
           First1(f, target, h) + Shares(f, target)[h] < Population(f, h)
    <3>1. Shares(f, target)[h] = Share(f, target, h)  BY DEF Shares
    <3>2. h \in Extras(f, target) => h \in Room(f, target)  BY DEF Extras, FirstOf
    <3>3. One(h \in Extras(f, target)) = 1 => h \in Extras(f, target)  BY DEF One
    <3>4. QED  BY <3>1, <3>2, <3>3 DEF Room
  <2>7. QED  BY <2>1, <2>2, <2>3, <2>4, <2>5, <2>6
<1>2. IsFiniteSet(Room(f, target)) /\ Room(f, target) \subseteq Int
  BY StrataFacts, FS_Subset DEF Room
<1>3. \A h \in Room(f, target) : h \in Int /\ Fraction(f, target, h) \in Int
  <2> SUFFICES ASSUME NEW h \in Room(f, target) PROVE h \in Int /\ Fraction(f, target, h) \in Int
    OBVIOUS
  <2>1. h \in Strata(f) /\ h \in Int  BY <1>2 DEF Room
  <2>2. Rest(f, target) \in Nat  BY SharesFacts
  <2>3. Population(f, h) \in Nat /\ Cardinality(DOMAIN f) \in Nat \ {0}  BY <2>1, StrataFacts
  <2>4. Rest(f, target) * Population(f, h) \in Nat  BY <2>2, <2>3
  <2>5. QED  BY <2>1, <2>3, <2>4 DEF Fraction
<1>4. Orders(Room(f, target), ByFraction(f, target))
  <2> DEFINE S == Room(f, target)
             before == ByFraction(f, target)
  <2>1. \A x, y \in S : <<x, y>> \in before <=>
           \/ Fraction(f, target, x) > Fraction(f, target, y)
           \/ Fraction(f, target, x) = Fraction(f, target, y) /\ x > y
    BY DEF ByFraction
  <2> HIDE DEF S, before
  <2>2. \A h \in S : h \in Int /\ Fraction(f, target, h) \in Int  BY <1>3 DEF S
  <2>3. Orders(S, before)  BY <2>1, <2>2 DEF Orders
  <2>4. QED  BY <2>3 DEF S, before
<1>5. Rest(f, target) \in Nat /\ Shared(f, target) \in Nat /\ Shared(f, target) <= Rest(f, target)
  BY SharesFacts, SharedBounded
<1> DEFINE left == Rest(f, target) - Shared(f, target)
<1>6. left \in Nat  BY <1>5
<1>7. Extras(f, target) = FirstOf(Room(f, target), ByFraction(f, target), left)  BY DEF Extras
<1>8. Extras(f, target) \subseteq Room(f, target)  BY DEF Extras, FirstOf
<1>9. Cardinality(Room(f, target)) \in Nat  BY <1>2, FS_CardinalityType
<1>10. IsFiniteSet(Extras(f, target)) /\ Cardinality(Extras(f, target)) \in Nat
  BY <1>2, <1>8, FS_Subset, FS_CardinalityType
<1> HIDE DEF left
<1>11. Cardinality(Extras(f, target)) <= left
  <2>1. /\ 0 <= left /\ left <= Cardinality(Room(f, target)) =>
              Cardinality(Extras(f, target)) = left
        /\ left >= Cardinality(Room(f, target)) => Extras(f, target) = Room(f, target)
    BY <1>2, <1>4, <1>6, <1>7, FirstOfSize
  <2>2. QED  BY <1>6, <1>9, <2>1
<1>12. QED  BY <1>1, <1>10, <1>11 DEF left

\* What is drawn from the strata of a set.
DrawnFrom(f, n, T) == UNION {LowestRanked(InStratum(f, h), n[h], <<"main">>) : h \in T}

LEMMA DrawnFacts ==
    ASSUME NEW f, Drawable(f), NEW target \in Nat
    PROVE  /\ DrawnFrom(f, Allocation(f, target), Strata(f)) \subseteq DOMAIN f
           /\ Cardinality(DrawnFrom(f, Allocation(f, target), Strata(f))) <= target
           /\ \A h \in Strata(f) :
                 Cardinality(DrawnFrom(f, Allocation(f, target), Strata(f)) \cap InStratum(f, h))
                    = Allocation(f, target)[h]
<1> DEFINE n == Allocation(f, target)
           S == Strata(f)
           Part(h) == LowestRanked(InStratum(f, h), n[h], <<"main">>)
           Drawn(T) == DrawnFrom(f, n, T)
           H == Heads(f, target)
           X == Extras(f, target)
           shares == Shares(f, target)
           Bound(T) == Cardinality(T \cap H) + Cardinality(Units(T, shares)) + Cardinality(T \cap X)
           bad == {T \in SUBSET S : ~(Cardinality(Drawn(T)) <= Bound(T))}
<1>1. \A h \in S : n[h] \in Nat /\ n[h] <= Population(f, h)  BY AllocationFits
<1>2. ASSUME NEW h \in S
      PROVE  Part(h) \subseteq InStratum(f, h) /\ Cardinality(Part(h)) = n[h]
  <2>1. Distinct(InStratum(f, h), <<"main">>)
    <3>1. InStratum(f, h) \subseteq DOMAIN f /\ IsFiniteSet(InStratum(f, h))  BY StrataFacts
    <3>2. QED  BY <3>1 DEF Distinct, Ranked, Drawable
  <2>2. n[h] \in Int /\ 0 <= n[h] /\ n[h] <= Cardinality(InStratum(f, h))
    BY <1>1 DEF Population
  <2> HIDE DEF n
  <2>3. QED  BY <2>1, <2>2, LowestRankedExact
<1>a. \A T : Drawn(T) = UNION {Part(h) : h \in T}  BY DEF DrawnFrom
<1> HIDE DEF Part, Drawn
<1>3. \A h, g \in S : h # g => InStratum(f, h) \cap InStratum(f, g) = {}  BY DEF InStratum
<1>4. \A h \in S : InStratum(f, h) \subseteq DOMAIN f  BY StrataFacts
<1>5. ASSUME NEW T \in SUBSET S
      PROVE  Drawn(T) \subseteq DOMAIN f /\ IsFiniteSet(Drawn(T)) /\ Cardinality(Drawn(T)) \in Nat
  <2>1. Drawn(T) \subseteq DOMAIN f  BY <1>2, <1>4, <1>a
  <2>2. QED  BY <2>1, FS_Subset, FS_CardinalityType DEF Drawable
<1>6. ASSUME NEW T \in SUBSET S, NEW x \in T
      PROVE  Cardinality(Drawn(T)) <= n[x] + Cardinality(Drawn(T \ {x}))
  <2>1. Drawn(T) = Part(x) \cup Drawn(T \ {x})  BY <1>a
  <2>2. IsFiniteSet(Part(x))
    <3>1. Part(x) \subseteq DOMAIN f  BY <1>2, <1>4
    <3>2. QED  BY <3>1, FS_Subset DEF Drawable
  <2>3. IsFiniteSet(Drawn(T \ {x})) /\ Cardinality(Drawn(T \ {x})) \in Nat  BY <1>5
  <2>4. Cardinality(Drawn(T)) = Cardinality(Part(x)) + Cardinality(Drawn(T \ {x}))
                                - Cardinality(Part(x) \cap Drawn(T \ {x}))
    BY <2>1, <2>2, <2>3, FS_Union
  <2>5. Cardinality(Part(x) \cap Drawn(T \ {x})) \in Nat
    BY <2>2, FS_Subset, FS_CardinalityType
  <2>6. Cardinality(Part(x)) = n[x] /\ n[x] \in Nat  BY <1>1, <1>2
  <2>7. QED  BY <2>3, <2>4, <2>5, <2>6
<1>7. /\ IsFiniteSet(S)
      /\ IsFiniteSet(H) /\ H \subseteq S /\ IsFiniteSet(X)
      /\ \A h \in S : shares[h] \in Nat
      /\ \A h \in S : n[h] = First1(f, target, h) + shares[h] + One(h \in X)
  <2>1. IsFiniteSet(S)  BY StrataFacts
  <2>2. IsFiniteSet(H) /\ H \subseteq S  BY SharesFacts
  <2>3. IsFiniteSet(X)  BY AllocationFits
  <2>4. \A h \in S : shares[h] \in Nat  BY SharesFacts
  <2>5. \A h \in S : n[h] = First1(f, target, h) + shares[h] + One(h \in X)
    <3>1. n = [h \in S |-> First1(f, target, h) + shares[h] + One(h \in X)]
      BY AllocationIs
    <3> HIDE DEF n, X, shares, S
    <3>2. QED  BY <3>1
  <2>6. QED  BY <2>1, <2>2, <2>3, <2>4, <2>5
<1>8. \A T \in SUBSET S : /\ Cardinality(Units(T, shares)) \in Nat
                          /\ \A x \in T : Cardinality(Units(T, shares))
                                            = shares[x] + Cardinality(Units(T \ {x}, shares))
  <2> HIDE DEF shares
  <2>1. QED  BY <1>7, UnitsCounted
<1>9. ASSUME NEW T \in SUBSET S, NEW A, IsFiniteSet(A), NEW x \in T
      PROVE  /\ Cardinality(T \cap A) \in Nat
             /\ Cardinality(T \cap A) = One(x \in A) + Cardinality((T \ {x}) \cap A)
  <2>1. IsFiniteSet(T \cap A) /\ Cardinality(T \cap A) \in Nat  BY <1>9, FS_Subset, FS_CardinalityType
  <2>2. (T \ {x}) \cap A = (T \cap A) \ {x}  OBVIOUS
  <2>3. Cardinality((T \cap A) \ {x}) =
           IF x \in T \cap A THEN Cardinality(T \cap A) - 1 ELSE Cardinality(T \cap A)
    BY <2>1, FS_RemoveElement
  <2>4. QED  BY <2>1, <2>2, <2>3 DEF One
<1>10. \A h \in S : First1(f, target, h) = One(h \in H)  BY DEF First1, One, Heads
<1>b. \A T \in SUBSET S : Cardinality(T \cap H) \in Nat /\ Cardinality(T \cap X) \in Nat
  BY <1>7, FS_Subset, FS_CardinalityType
<1> HIDE DEF n, S, H, X, shares
<1>c. ASSUME NEW T \in SUBSET S PROVE Bound(T) \in Nat
  <2>1. /\ Cardinality(T \cap H) \in Nat /\ Cardinality(T \cap X) \in Nat
        /\ Cardinality(Units(T, shares)) \in Nat
    BY <1>8, <1>b
  <2>2. QED  BY <2>1
<1>11. bad = {}
  <2> SUFFICES ASSUME bad # {} PROVE FALSE  OBVIOUS
  <2>1. PICK T \in bad : \A x \in T : T \ {x} \notin bad
    <3>1. bad \subseteq SUBSET S  OBVIOUS
    <3> HIDE DEF bad
    <3>2. QED  BY <1>7, <3>1, SmallestOfSets
  <2>2. T \in SUBSET S /\ ~(Cardinality(Drawn(T)) <= Bound(T))  BY <2>1
  <2>3. T # {}
    <3> SUFFICES ASSUME T = {} PROVE FALSE  OBVIOUS
    <3>1. Drawn({}) = {}  BY <1>a
    <3>2. Cardinality(Drawn(T)) = 0  BY <3>1, FS_EmptySet
    <3>3. Bound(T) \in Nat  BY <1>c, <2>2
    <3> HIDE DEF Bound
    <3>4. QED  BY <2>2, <3>2, <3>3
  <2>4. PICK x \in T : TRUE  BY <2>3
  <2>5. T \ {x} \in SUBSET S /\ x \in S  BY <2>2
  <2>6. Cardinality(Drawn(T \ {x})) <= Bound(T \ {x})  BY <2>1, <2>5
  <2>7. Bound(T) = n[x] + Bound(T \ {x})
    <3>1. Cardinality(T \cap H) = One(x \in H) + Cardinality((T \ {x}) \cap H)  BY <1>7, <1>9, <2>2
    <3>2. Cardinality(T \cap X) = One(x \in X) + Cardinality((T \ {x}) \cap X)  BY <1>7, <1>9, <2>2
    <3>3. Cardinality(Units(T, shares)) = shares[x] + Cardinality(Units(T \ {x}, shares))
      BY <1>8, <2>2
    <3>4. /\ Cardinality((T \ {x}) \cap H) \in Nat /\ Cardinality((T \ {x}) \cap X) \in Nat
          /\ Cardinality(Units(T \ {x}, shares)) \in Nat
      BY <1>8, <1>b, <2>5
    <3>5. n[x] = One(x \in H) + shares[x] + One(x \in X)  BY <1>7, <1>10, <2>5
    <3>6. One(x \in H) \in Nat /\ One(x \in X) \in Nat /\ shares[x] \in Nat  BY <1>7, <2>5 DEF One
    <3>7. QED  BY <3>1, <3>2, <3>3, <3>4, <3>5, <3>6
  <2>8. Bound(T \ {x}) \in Nat  BY <1>c, <2>5
  <2>9. n[x] \in Nat /\ Cardinality(Drawn(T)) \in Nat /\ Cardinality(Drawn(T \ {x})) \in Nat
    BY <1>1, <1>5, <2>2, <2>5 DEF S
  <2>10. Cardinality(Drawn(T)) <= n[x] + Cardinality(Drawn(T \ {x}))  BY <1>6, <2>2
  <2> HIDE DEF Bound
  <2>11. QED  BY <2>2, <2>6, <2>7, <2>8, <2>9, <2>10
<1>12. Cardinality(Drawn(S)) <= Bound(S)  BY <1>11
<1>13. Bound(S) <= target
  <2>1. S \cap H = H  BY <1>7
  <2>2. Cardinality(S \cap X) <= Cardinality(X)  BY <1>7, FS_Subset
  <2>3. Cardinality(X) <= Rest(f, target) - Cardinality(Units(S, shares)) /\ Cardinality(X) \in Nat
    BY AllocationFits DEF X, Shared, S, shares
  <2>4. target = Cardinality(H) + Rest(f, target) /\ Rest(f, target) \in Nat  BY SharesFacts DEF H
  <2>5. /\ Cardinality(Units(S, shares)) \in Nat
        /\ Cardinality(S \cap H) \in Nat /\ Cardinality(S \cap X) \in Nat
    BY <1>8, <1>b
  <2>6. Bound(S) = Cardinality(H) + Cardinality(Units(S, shares)) + Cardinality(S \cap X)
    BY <2>1
  <2> HIDE DEF Bound
  <2>7. Cardinality(H) \in Nat  BY <2>1, <2>5
  <2>8. QED  BY <2>2, <2>3, <2>4, <2>5, <2>6, <2>7
<1>14. Cardinality(Drawn(S)) <= target
  <2>1. Bound(S) \in Nat  BY <1>c
  <2>2. Cardinality(Drawn(S)) \in Nat  BY <1>5
  <2> HIDE DEF Bound
  <2>3. QED  BY <1>12, <1>13, <2>1, <2>2
<1>15. ASSUME NEW h \in S PROVE Cardinality(Drawn(S) \cap InStratum(f, h)) = n[h]
  <2>1. \A g \in S : Part(g) \subseteq InStratum(f, g)  BY <1>2 DEF S
  <2>2. Drawn(S) \cap InStratum(f, h) = Part(h)  BY <1>3, <1>a, <2>1 DEF S
  <2>3. QED  BY <1>2, <2>2 DEF S
<1>16. Drawn(S) \subseteq DOMAIN f  BY <1>5
<1>17. QED  BY <1>14, <1>15, <1>16 DEF Drawn, S, n

\* A pool is finite and its ranks differ: so it is of every part.
LEMMA PartDistinct ==
    ASSUME NEW pool, NEW salt, Distinct(pool, salt), NEW part \in SUBSET pool
    PROVE  Distinct(part, salt)
<1>1. IsFiniteSet(part)  BY FS_Subset DEF Distinct, Ranked
<1>2. QED  BY <1>1 DEF Distinct, Ranked

\* What makes a pick of a pool up to a number.
Filled(pool, picked, target, salt) ==
    LowestRanked(pool \ picked, target - Cardinality(picked), salt)

\* Whatever was picked from a pool, if it is not too much already: what ranks
\* lowest among the others makes up for the rest.
LEMMA ToppedUp ==
    ASSUME NEW pool, NEW salt, Distinct(pool, salt), NEW picked \in SUBSET pool,
           NEW target \in Nat, Cardinality(picked) <= target,
           NEW more, more = Filled(pool, picked, target, salt)
    PROVE  /\ more \subseteq pool \ picked
           /\ Cardinality(picked \cup more) = AtMost(target, Cardinality(pool))
           /\ IsFiniteSet(picked) /\ IsFiniteSet(more)
<1> DEFINE rest == pool \ picked
           k == target - Cardinality(picked)
<1>1. IsFiniteSet(pool) /\ IsFiniteSet(picked) /\ IsFiniteSet(rest)
  BY FS_Subset DEF Distinct, Ranked
<1>2. /\ Cardinality(pool) \in Nat /\ Cardinality(picked) \in Nat /\ Cardinality(rest) \in Nat
  BY <1>1, FS_CardinalityType
<1>3. Cardinality(rest) = Cardinality(pool) - Cardinality(picked)
  <2>1. pool \cap picked = picked  OBVIOUS
  <2>2. Cardinality(rest) = Cardinality(pool) - Cardinality(pool \cap picked)
    BY <1>1, FS_Difference
  <2>3. QED  BY <2>1, <2>2
<1>4. Distinct(rest, salt)  BY PartDistinct
<1>5. k \in Nat /\ k = target - Cardinality(picked)  BY <1>2
<1>6. more = LowestRanked(rest, k, salt)  BY DEF Filled
<1>7. picked \cap rest = {}  OBVIOUS
<1>8. picked \cup rest = pool  OBVIOUS
<1> HIDE DEF rest, k
<1>9. /\ more \subseteq rest
      /\ 0 <= k /\ k <= Cardinality(rest) => Cardinality(more) = k
      /\ k >= Cardinality(rest) => more = rest
  BY <1>4, <1>5, <1>6, LowestRankedExact
<1>10. IsFiniteSet(more) /\ Cardinality(more) \in Nat  BY <1>1, <1>9, FS_Subset, FS_CardinalityType
<1>11. Cardinality(picked \cup more) = Cardinality(picked) + Cardinality(more)
  <2>1. picked \cap more = {}  BY <1>7, <1>9
  <2>2. Cardinality(picked \cup more)
           = Cardinality(picked) + Cardinality(more) - Cardinality(picked \cap more)
    BY <1>1, <1>10, FS_Union
  <2>3. Cardinality(picked \cap more) = 0  BY <2>1, FS_EmptySet
  <2>4. QED  BY <1>2, <1>10, <2>2, <2>3
<1>12. AtMost(target, Cardinality(pool)) = IF target < Cardinality(pool) THEN target ELSE Cardinality(pool)
  BY <1>2, LesserOfTwo
<1>13. Cardinality(picked \cup more) = AtMost(target, Cardinality(pool))
  <2>1. CASE k <= Cardinality(rest)  BY <1>2, <1>3, <1>5, <1>9, <1>11, <1>12, <2>1
  <2>2. CASE k >= Cardinality(rest)  BY <1>2, <1>3, <1>5, <1>9, <1>11, <1>12, <2>2
  <2>3. QED  BY <1>2, <1>5, <2>1, <2>2
<1>14. QED  BY <1>1, <1>9, <1>10, <1>13 DEF rest

\* The representative sample is as large as asked for, its bookkeeping is
\* right, and no stratum is left out if each can have a unit.
LEMMA RepresentativeSound ==
    ASSUME NEW f, f = << >> \/ Drawable(f), NEW target \in Nat,
           NEW R, R = Representative(f, target)
    PROVE  /\ R.units \subseteq DOMAIN f
           /\ Cardinality(R.units) = AtMost(target, Cardinality(DOMAIN f))
           /\ \A h \in DOMAIN R.sizes : R.sizes[h] = Cardinality(R.units \cap InStratum(f, h))
           /\ target >= Cardinality(Strata(f)) =>
                 \A h \in Strata(f) : R.units \cap InStratum(f, h) # {}
<1>1. CASE f = << >> \/ target = 0
  <2>1. R = [units |-> {}, sizes |-> << >>]  BY <1>1 DEF Representative
  <2>2. Cardinality({}) = 0  BY FS_EmptySet
  <2>3. AtMost(target, Cardinality(DOMAIN f)) = 0
    <3>1. Cardinality(DOMAIN f) \in Nat
      <4>1. CASE f = << >>  BY <4>1, FS_EmptySet
      <4>2. CASE Drawable(f)  BY <4>2, StrataFacts
      <4>3. QED  BY <4>1, <4>2
    <3>2. target = 0 \/ Cardinality(DOMAIN f) = 0  BY <1>1, FS_EmptySet
    <3>3. AtMost(target, Cardinality(DOMAIN f)) = IF target < Cardinality(DOMAIN f) THEN target ELSE Cardinality(DOMAIN f)
      BY <3>1, LesserOfTwo
    <3>4. QED  BY <3>1, <3>2, <3>3
  <2>4. target >= Cardinality(Strata(f)) => Strata(f) = {}
    <3>1. CASE f = << >>  BY <3>1 DEF Strata
    <3>2. CASE f # << >>
      <4>1. IsFiniteSet(Strata(f)) /\ Cardinality(Strata(f)) \in Nat  BY <3>2, StrataFacts
      <4>2. target = 0  BY <1>1, <3>2
      <4>3. QED  BY <4>1, <4>2, FS_EmptySet
    <3>3. QED  BY <3>1, <3>2
  <2>5. QED  BY <2>1, <2>2, <2>3, <2>4
<1>2. CASE f # << >> /\ target # 0
  <2> DEFINE n == Allocation(f, target)
             taken == DrawnFrom(f, n, Strata(f))
             filled == LowestRanked(DOMAIN f \ taken, target - Cardinality(taken), <<"main">>)
  <2>1. Drawable(f)  BY <1>2
  <2>2. R = [units |-> taken \cup filled,
             sizes |-> [h \in Strata(f) |-> n[h] + Cardinality(filled \cap InStratum(f, h))]]
    BY <1>2 DEF Representative, DrawnFrom
  <2>3. /\ taken \subseteq DOMAIN f /\ Cardinality(taken) <= target
        /\ \A h \in Strata(f) : Cardinality(taken \cap InStratum(f, h)) = n[h]
    BY <2>1, DrawnFacts
  <2>4. /\ \A h \in Strata(f) : n[h] \in Nat
        /\ \A h \in Strata(f) : h \in Heads(f, target) => n[h] >= 1
    BY <2>1, AllocationFits
  <2> HIDE DEF n, taken
  <2>5. /\ filled \subseteq DOMAIN f \ taken
        /\ Cardinality(taken \cup filled) = AtMost(target, Cardinality(DOMAIN f))
        /\ IsFiniteSet(taken) /\ IsFiniteSet(filled)
    <3>1. Distinct(DOMAIN f, <<"main">>)  BY <2>1 DEF Drawable
    <3> DEFINE more == filled
    <3> DEFINE pool == DOMAIN f
               salt == <<"main">>
    <3>a. target \in Nat /\ taken \in SUBSET pool /\ Cardinality(taken) <= target /\ Distinct(pool, salt)
          /\ more = Filled(pool, taken, target, salt)
      BY <2>3, <3>1 DEF Filled
    <3> HIDE DEF pool, salt, filled, more
    <3>b. /\ more \subseteq pool \ taken
          /\ Cardinality(taken \cup more) = AtMost(target, Cardinality(pool))
          /\ IsFiniteSet(taken) /\ IsFiniteSet(more)
      BY <3>a, ToppedUp
    <3>3. /\ more \subseteq DOMAIN f \ taken
          /\ Cardinality(taken \cup more) = AtMost(target, Cardinality(DOMAIN f))
          /\ IsFiniteSet(taken) /\ IsFiniteSet(more)
      BY <3>b DEF pool
    <3>4. QED  BY <3>3 DEF more
  <2> HIDE DEF filled
  <2>6. R.units = taken \cup filled
        /\ R.sizes = [h \in Strata(f) |-> n[h] + Cardinality(filled \cap InStratum(f, h))]
    BY <2>2
  <2>7. ASSUME NEW h \in Strata(f)
        PROVE  R.sizes[h] = Cardinality(R.units \cap InStratum(f, h))
    <3> DEFINE one == taken \cap InStratum(f, h)
               two == filled \cap InStratum(f, h)
    <3>1. R.units \cap InStratum(f, h) = one \cup two  BY <2>6
    <3>2. one \cap two = {}  BY <2>5
    <3>3. IsFiniteSet(one) /\ IsFiniteSet(two)  BY <2>5, FS_Subset
    <3>4. Cardinality(one) = n[h] /\ R.sizes[h] = n[h] + Cardinality(two)  BY <2>3, <2>6
    <3> HIDE DEF one, two
    <3>5. Cardinality(one \cup two) = Cardinality(one) + Cardinality(two) - Cardinality(one \cap two)
      BY <3>3, FS_Union
    <3>6. Cardinality(one) \in Nat /\ Cardinality(two) \in Nat  BY <3>3, FS_CardinalityType
    <3>7. Cardinality(one \cap two) = 0  BY <3>2, FS_EmptySet
    <3>a. Cardinality(R.units \cap InStratum(f, h)) = Cardinality(one \cup two)  BY <3>1
    <3>b. Cardinality(one) = n[h]  BY <3>4
    <3>c. Cardinality(one \cup two) = Cardinality(one) + Cardinality(two)  BY <3>5, <3>6, <3>7
    <3>8. Cardinality(R.units \cap InStratum(f, h)) = n[h] + Cardinality(two)
      BY <3>a, <3>b, <3>c
    <3>9. QED  BY <3>4, <3>8
  <2>8. ASSUME target >= Cardinality(Strata(f)), NEW h \in Strata(f)
        PROVE  R.units \cap InStratum(f, h) # {}
    <3>1. h \in Heads(f, target)  BY <2>1, <2>8, SharesFacts
    <3>2. n[h] >= 1 /\ n[h] \in Nat  BY <2>4, <3>1
    <3>a. Cardinality(taken \cap InStratum(f, h)) = n[h]  BY <2>3
    <3>b. n[h] # 0  BY <3>2
    <3>3. Cardinality(taken \cap InStratum(f, h)) # 0  BY <3>a, <3>b
    <3>4. taken \cap InStratum(f, h) # {}  BY <3>3, FS_EmptySet
    <3>5. QED  BY <2>6, <3>4
  <2>9. DOMAIN R.sizes = Strata(f)  BY <2>6
  <2>10. R.units \subseteq DOMAIN f  BY <2>3, <2>5, <2>6
  <2>11. QED  BY <2>5, <2>6, <2>7, <2>8, <2>9, <2>10
<1>3. QED  BY <1>1, <1>2

-----------------------------------------------------------------------------
(* Folds from the left, as data.                                           *)

LEMMA LastOfInterval ==
    /\ \A i \in Nat \ {0} : 1..i # {} /\ Max(1..i) = i /\ (1..i) \ {i} = 1..(i - 1)
    /\ \A n \in Nat : \A T \in SUBSET (1..n) : T # {} =>
          Max(T) \in T /\ Max(T) \in 1..n /\ T \ {Max(T)} \in SUBSET (1..(Max(T) - 1))
<1>1. \A n \in Nat : \A T \in SUBSET (1..n) : T # {} => Max(T) \in T /\ \A y \in T : y <= Max(T)
  <2> SUFFICES ASSUME NEW n \in Nat, NEW T \in SUBSET (1..n), T # {}
               PROVE  Max(T) \in T /\ \A y \in T : y <= Max(T)
    OBVIOUS
  <2>1. IsFiniteSet(1..n)  BY FS_Interval
  <2>2. IsFiniteSet(T)  BY <2>1, FS_Subset
  <2>3. T \subseteq Int  OBVIOUS
  <2>4. QED  BY <2>2, <2>3, Extremes
<1>2. ASSUME NEW i \in Nat \ {0}
      PROVE  1..i # {} /\ Max(1..i) = i /\ (1..i) \ {i} = 1..(i - 1)
  <2>1. i \in 1..i  OBVIOUS
  <2>2. Max(1..i) \in 1..i /\ \A y \in 1..i : y <= Max(1..i)  BY <1>1, <2>1
  <2>3. Max(1..i) = i  BY <2>1, <2>2
  <2>4. QED  BY <2>1, <2>3
<1>3. ASSUME NEW n \in Nat, NEW T \in SUBSET (1..n), T # {}
      PROVE  Max(T) \in T /\ Max(T) \in 1..n /\ T \ {Max(T)} \in SUBSET (1..(Max(T) - 1))
  <2> DEFINE m == Max(T)
  <2>1. m \in T /\ \A y \in T : y <= m  BY <1>1, <1>3
  <2> HIDE DEF m
  <2>2. m \in 1..n  BY <2>1
  <2>3. ASSUME NEW y \in T \ {m} PROVE y \in 1..(m - 1)
    <3>1. y \in Nat /\ y >= 1 /\ y <= m /\ y # m  BY <2>1
    <3>2. QED  BY <2>2, <3>1
  <2>4. QED  BY <2>1, <2>2, <2>3 DEF m
<1>4. QED  BY <1>2, <1>3

\* What a fold gives for each part of its places: the last place is taken off.
OneFold(base, step, g, T) == IF T = {} THEN base ELSE step[<<g[T \ {Max(T)}], Max(T)>>]

StepsIn(V, n, step) == step \in [V \X (1..n) -> V]
FoldOf(g, n, V, base, step) ==
    /\ g \in [SUBSET (1..n) -> V]
    /\ \A T \in SUBSET (1..n) : g[T] = OneFold(base, step, g, T)

LEMMA FoldingExists ==
    ASSUME NEW n \in Nat, NEW V, NEW base \in V, NEW step, StepsIn(V, n, step)
    PROVE  \E g : FoldOf(g, n, V, base, step)
<1>0. step \in [V \X (1..n) -> V]  BY DEF StepsIn
<1> DEFINE Partly(m, g) == /\ g \in [SUBSET (1..m) -> V]
                           /\ \A T \in SUBSET (1..m) : g[T] = OneFold(base, step, g, T)
           Never == {m \in 0..n : ~\E g : Partly(m, g)}
<1>1. Never = {}
  <2> SUFFICES ASSUME Never # {} PROVE FALSE  OBVIOUS
  <2> HIDE DEF Partly
  <2>1. PICK m \in Never : \A k \in Never : m <= k
    <3>1. Never \subseteq Nat  OBVIOUS
    <3> HIDE DEF Never
    <3>2. QED  BY <3>1, LeastNatural
  <2>2. m \in 0..n /\ ~\E g : Partly(m, g)  BY <2>1
  <2>a. m \in Nat  BY <2>2
  <2>3. m # 0
    <3> SUFFICES ASSUME m = 0 PROVE \E g : Partly(m, g)  BY <2>2
    <3> DEFINE g == [T \in {{}} |-> base]
    <3>1. SUBSET (1..m) = {{}}  OBVIOUS
    <3>2. \A T \in SUBSET (1..m) : g[T] = OneFold(base, step, g, T)  BY <3>1 DEF OneFold
    <3>3. g \in [SUBSET (1..m) -> V]  BY <3>1
    <3>4. Partly(m, g)  BY <3>2, <3>3 DEF Partly
    <3>5. QED  BY <3>4
  <2>4. m - 1 \in 0..n /\ m - 1 \notin Never  BY <2>1, <2>2, <2>3
  <2>5. PICK g : Partly(m - 1, g)  BY <2>4
  <2> DEFINE h == [T \in SUBSET (1..m) |-> OneFold(base, step, g, T)]
  <2>6. /\ g \in [SUBSET (1..(m - 1)) -> V]
        /\ \A T \in SUBSET (1..(m - 1)) : g[T] = OneFold(base, step, g, T)
    BY <2>5 DEF Partly
  <2>7. \A T \in SUBSET (1..(m - 1)) : T \in SUBSET (1..m) /\ h[T] = g[T]
    <3>1. 1..(m - 1) \subseteq 1..m  BY <2>2
    <3>2. QED  BY <2>6, <3>1
  <2>8. ASSUME NEW T \in SUBSET (1..m)
        PROVE  h[T] \in V /\ h[T] = OneFold(base, step, h, T)
    <3>1. CASE T = {}  BY <3>1 DEF OneFold
    <3>2. CASE T # {}
      <4>1. Max(T) \in 1..m /\ T \ {Max(T)} \in SUBSET (1..(Max(T) - 1))
        BY <2>a, <3>2, LastOfInterval
      <4>2. Max(T) \in 1..n /\ 1..(Max(T) - 1) \subseteq 1..(m - 1)  BY <2>2, <4>1
      <4>3. T \ {Max(T)} \in SUBSET (1..(m - 1))  BY <4>1, <4>2
      <4>4. h[T \ {Max(T)}] = g[T \ {Max(T)}] /\ g[T \ {Max(T)}] \in V  BY <2>6, <2>7, <4>3
      <4>5. h[T] = step[<<g[T \ {Max(T)}], Max(T)>>]  BY <3>2 DEF OneFold
      <4>6. OneFold(base, step, h, T) = step[<<h[T \ {Max(T)}], Max(T)>>]  BY <3>2 DEF OneFold
      <4>7. step[<<g[T \ {Max(T)}], Max(T)>>] \in V  BY <1>0, <4>2, <4>4
      <4>8. QED  BY <4>4, <4>5, <4>6, <4>7
    <3>3. QED  BY <3>1, <3>2
  <2>9. Partly(m, h)  BY <2>8 DEF Partly
  <2>10. QED  BY <2>2, <2>9
<1>2. n \in 0..n  OBVIOUS
<1>3. PICK g : Partly(n, g)
  <2> HIDE DEF Partly
  <2>1. QED  BY <1>1, <1>2
<1>4. QED  BY <1>3 DEF FoldOf

\* A fold as the chain of its intermediate results.
Chain(c, n, V, base, step) ==
    /\ c \in [0..n -> V] /\ c[0] = base
    /\ \A i \in 1..n : c[i] = step[<<c[i - 1], i>>]

Iterates(iter, n, V, base, step) ==
    /\ iter[{}] = base
    /\ \A i \in 1..n : iter[1..(i - 1)] \in V => iter[1..i] = step[<<iter[1..(i - 1)], i>>]

LEMMA FoldChain ==
    ASSUME NEW n \in Nat, NEW V, NEW base \in V, NEW step, StepsIn(V, n, step),
           NEW iter, Iterates(iter, n, V, base, step)
    PROVE  \E c : Chain(c, n, V, base, step) /\ c[n] = iter[1..n]
<1> DEFINE bad == {i \in 0..n : iter[1..i] \notin V}
           c == [i \in 0..n |-> iter[1..i]]
<1>0. step \in [V \X (1..n) -> V]  BY DEF StepsIn
<1>00. /\ iter[{}] = base
       /\ \A i \in 1..n : iter[1..(i - 1)] \in V => iter[1..i] = step[<<iter[1..(i - 1)], i>>]
  BY DEF Iterates
<1>1. 1..0 = {}  OBVIOUS
<1>2. bad = {}
  <2> SUFFICES ASSUME bad # {} PROVE FALSE  OBVIOUS
  <2>1. PICK i \in bad : \A j \in bad : i <= j
    <3>1. bad \subseteq Nat  OBVIOUS
    <3> HIDE DEF bad
    <3>2. QED  BY <3>1, LeastNatural
  <2>2. i \in 0..n /\ iter[1..i] \notin V  BY <2>1
  <2>3. i # 0  BY <1>00, <1>1, <2>2
  <2>4. i \in 1..n /\ i - 1 \in 0..n /\ i - 1 \notin bad  BY <2>1, <2>2, <2>3
  <2>5. iter[1..(i - 1)] \in V  BY <2>4
  <2>6. iter[1..i] = step[<<iter[1..(i - 1)], i>>]  BY <1>00, <2>4, <2>5
  <2>7. QED  BY <1>0, <2>2, <2>4, <2>5, <2>6
<1>3. \A i \in 0..n : iter[1..i] \in V  BY <1>2
<1>4. \A i \in 1..n : i - 1 \in 0..n /\ i \in 0..n  OBVIOUS
<1>5. c \in [0..n -> V]  BY <1>3
<1>6. c[0] = base /\ c[n] = iter[1..n]  BY <1>00, <1>1
<1>7. ASSUME NEW i \in 1..n PROVE c[i] = step[<<c[i - 1], i>>]
  <2>1. iter[1..i] = step[<<iter[1..(i - 1)], i>>]  BY <1>00, <1>3, <1>4
  <2>2. c[i] = iter[1..i] /\ c[i - 1] = iter[1..(i - 1)]  BY <1>4
  <2>3. QED  BY <2>1, <2>2
<1> HIDE DEF c
<1>8. Chain(c, n, V, base, step)  BY <1>5, <1>6, <1>7 DEF Chain
<1>9. QED  BY <1>6, <1>8

\* What grows at every step grows altogether.
LEMMA ChainGrows ==
    ASSUME NEW n \in Nat, NEW c, \A i \in 1..n : c[i - 1] \subseteq c[i]
    PROVE  \A i \in 0..n : \A j \in i..n : c[i] \subseteq c[j]
<1> SUFFICES ASSUME NEW i \in 0..n PROVE \A j \in i..n : c[i] \subseteq c[j]  OBVIOUS
<1> DEFINE bad == {j \in i..n : ~(c[i] \subseteq c[j])}
<1>1. bad = {}
  <2> SUFFICES ASSUME bad # {} PROVE FALSE  OBVIOUS
  <2>1. PICK j \in bad : \A k \in bad : j <= k
    <3>1. bad \subseteq Nat  OBVIOUS
    <3> HIDE DEF bad
    <3>2. QED  BY <3>1, LeastNatural
  <2>2. j \in i..n /\ ~(c[i] \subseteq c[j])  BY <2>1
  <2>3. j # i  BY <2>2
  <2>4. j - 1 \in i..n /\ j \in 1..n  BY <2>2, <2>3
  <2>5. j - 1 \notin bad  BY <2>1, <2>2
  <2>6. c[i] \subseteq c[j - 1]  BY <2>4, <2>5
  <2>7. c[j - 1] \subseteq c[j]  BY <2>4
  <2>8. QED  BY <2>2, <2>6, <2>7
<1>2. QED  BY <1>1

-----------------------------------------------------------------------------
(* The round robin over the reasons.                                       *)

\* A frame whose units have known reasons and ranks under each.
Choosable(f, use) ==
    /\ IsFiniteSet(DOMAIN f)
    /\ \A i \in 1..7 : Distinct(DOMAIN f, <<use, Reasons[i]>>)
    /\ \A u \in DOMAIN f : \E i \in 1..7 : Reasons[i] \in ReasonsOf(f, u)
    /\ \A u \in DOMAIN f : \A r \in ReasonsOf(f, u) : \E i \in 1..7 : r = Reasons[i]

\* The units with a reason that are not selected.
With(f, selected, r) == {u \in DOMAIN f \ selected : r \in ReasonsOf(f, u)}

Extended(f, target, selected, i, W) ==
    /\ W \in SUBSET DOMAIN f /\ selected \subseteq W
    /\ IsFiniteSet(W) /\ IsFiniteSet(selected)
    /\ Cardinality(W) \in Nat /\ Cardinality(selected) \in Nat
    /\ Cardinality(W) <= Cardinality(selected) + 1
    /\ Cardinality(selected) <= target => Cardinality(W) <= target
    /\ With(f, selected, Reasons[i]) = {} => W = selected
    /\ With(f, selected, Reasons[i]) # {} /\ Cardinality(selected) < target =>
          /\ Cardinality(W) = Cardinality(selected) + 1
          /\ \E u \in W : Reasons[i] \in ReasonsOf(f, u)

LEMMA WithNextFacts ==
    ASSUME NEW f, NEW use, Choosable(f, use), NEW target \in Nat, NEW selected \in SUBSET DOMAIN f,
           NEW i \in 1..7
    PROVE  Extended(f, target, selected, i, WithNext(f, target, use, selected, Reasons[i]))
<1> DEFINE W == WithNext(f, target, use, selected, Reasons[i])
<1> DEFINE pool == With(f, selected, Reasons[i])
           salt == <<use, Reasons[i]>>
           next == LowestRanked(pool, 1, salt)
<1>1. IsFiniteSet(DOMAIN f) /\ IsFiniteSet(selected) /\ Cardinality(selected) \in Nat
  BY FS_Subset, FS_CardinalityType DEF Choosable
<1>2. W = selected \cup IF Cardinality(selected) >= target THEN {} ELSE next
  BY DEF WithNext, With
<1>3. pool \subseteq DOMAIN f \ selected /\ IsFiniteSet(pool) /\ Cardinality(pool) \in Nat
  BY <1>1, FS_Subset, FS_CardinalityType DEF With
<1>4. Distinct(DOMAIN f, salt)  BY DEF Choosable
<1>5. \A u \in pool : Reasons[i] \in ReasonsOf(f, u)  BY DEF With
<1>6. Distinct(pool, salt)  BY <1>3, <1>4, PartDistinct
<1> HIDE DEF pool, salt, W
<1>7. next \subseteq pool /\ (1 <= Cardinality(pool) => Cardinality(next) = 1)
      /\ (1 >= Cardinality(pool) => next = pool)
  BY <1>6, LowestRankedExact
<1> HIDE DEF next
<1>8. pool = {} => next = {}  BY <1>7
<1>9. pool # {} => Cardinality(next) = 1 /\ next # {}
  <2>1. pool # {} => Cardinality(pool) # 0  BY <1>3, FS_EmptySet
  <2>2. pool # {} => Cardinality(next) = 1  BY <1>3, <1>7, <2>1
  <2>3. Cardinality({}) = 0  BY FS_EmptySet
  <2>4. QED  BY <2>2, <2>3
<1>10. IsFiniteSet(next) /\ Cardinality({}) = 0  BY <1>3, <1>7, FS_Subset, FS_EmptySet
<1>11. Cardinality(selected \cup next) = Cardinality(selected) + Cardinality(next)
       /\ Cardinality(next) \in Nat
  <2>1. selected \cap next = {}  BY <1>3, <1>7
  <2>2. Cardinality(selected \cup next)
           = Cardinality(selected) + Cardinality(next) - Cardinality(selected \cap next)
    BY <1>1, <1>10, FS_Union
  <2>3. Cardinality(next) \in Nat  BY <1>10, FS_CardinalityType
  <2>4. Cardinality(selected \cap next) = 0  BY <1>10, <2>1
  <2>5. QED  BY <1>1, <2>2, <2>3, <2>4
<1>12. Cardinality(next) <= 1
  <2>1. CASE pool = {}  BY <1>8, <1>10, <2>1
  <2>2. CASE pool # {}  BY <1>9, <2>2
  <2>3. QED  BY <2>1, <2>2
<1>13. W \in SUBSET DOMAIN f /\ selected \subseteq W  BY <1>2, <1>3, <1>7
<1>14. ASSUME Cardinality(selected) >= target PROVE Extended(f, target, selected, i, W)
  <2>1. W = selected  BY <1>2, <1>14
  <2>2. ~(Cardinality(selected) < target)  BY <1>1, <1>14
  <2>3. Cardinality(selected) <= Cardinality(selected) + 1  BY <1>1
  <2>4. QED  BY <1>1, <1>13, <2>1, <2>2, <2>3 DEF Extended
<1>15. ASSUME ~(Cardinality(selected) >= target) PROVE Extended(f, target, selected, i, W)
  <2>1. W = selected \cup next  BY <1>2, <1>15
  <2>a. IsFiniteSet(W)  BY <1>1, <1>10, <2>1, FS_Union
  <2>2. IsFiniteSet(W) /\ Cardinality(W) = Cardinality(selected) + Cardinality(next)
        /\ Cardinality(W) \in Nat
    BY <1>1, <1>11, <2>1, <2>a
  <2>3. Cardinality(W) <= Cardinality(selected) + 1 /\ Cardinality(W) <= target
    BY <1>1, <1>11, <1>12, <1>15, <2>2
  <2>4. pool = {} => W = selected  BY <1>8, <2>1
  <2>5. pool # {} => Cardinality(W) = Cardinality(selected) + 1  BY <1>9, <2>2
  <2>6. pool # {} => \E u \in W : Reasons[i] \in ReasonsOf(f, u)  BY <1>5, <1>7, <1>9, <2>1
  <2>7. QED  BY <1>1, <1>13, <2>2, <2>3, <2>4, <2>5, <2>6 DEF pool, Extended
<1>16. QED  BY <1>14, <1>15 DEF W

\* One step of the fold in Round.
OneReason(f, target, use, selected, g, T) ==
    IF T = {} THEN selected ELSE WithNext(f, target, use, g[T \ {Max(T)}], Reasons[Max(T)])
Rounding(f, target, use, selected, g) ==
    g = [T \in SUBSET (DOMAIN Reasons) |-> OneReason(f, target, use, selected, g, T)]

\* A round is a chain of seven selections, one for each reason.
Chosen(c, f, target, use, selected) ==
    /\ c \in [0..7 -> SUBSET DOMAIN f] /\ c[0] = selected
    /\ \A i \in 1..7 : c[i] = WithNext(f, target, use, c[i - 1], Reasons[i])

LEMMA RoundIs ==
    ASSUME NEW f, NEW use, Choosable(f, use), NEW target \in Nat, NEW selected \in SUBSET DOMAIN f
    PROVE  \E c : Chosen(c, f, target, use, selected) /\ c[7] = Round(f, target, use, selected)
<1> DEFINE V == SUBSET DOMAIN f
           step == [p \in V \X (1..7) |-> WithNext(f, target, use, p[1], Reasons[p[2]])]
           iter == CHOOSE g : Rounding(f, target, use, selected, g)
<1>1. Round(f, target, use, selected) = iter[DOMAIN Reasons]
  BY DEF Round, FoldLeft, MapThenFoldSet, Rounding, OneReason
<1>2. DOMAIN Reasons = 1..7  BY DEF Reasons
<1>3. ASSUME NEW s \in V, NEW i \in 1..7
      PROVE  WithNext(f, target, use, s, Reasons[i]) \in V
             /\ step[<<s, i>>] = WithNext(f, target, use, s, Reasons[i])
  <2> DEFINE W == WithNext(f, target, use, s, Reasons[i])
  <2>1. Extended(f, target, s, i, W)  BY WithNextFacts
  <2> HIDE DEF W
  <2>2. W \in V  BY <2>1 DEF Extended
  <2>3. QED  BY <2>2 DEF W
<1>4. StepsIn(V, 7, step)
  <2>1. \A p \in V \X (1..7) : WithNext(f, target, use, p[1], Reasons[p[2]]) \in V  BY <1>3
  <2>2. QED  BY <2>1 DEF StepsIn
<1>a. 7 \in Nat /\ selected \in V  OBVIOUS
<1> HIDE DEF step
<1>b. PICK g : FoldOf(g, 7, V, selected, step)
  <2> HIDE DEF V
  <2>1. QED  BY <1>4, <1>a, FoldingExists
<1>5. /\ g \in [SUBSET (1..7) -> V]
      /\ \A T \in SUBSET (1..7) : g[T] = OneFold(selected, step, g, T)
  BY <1>b DEF FoldOf
<1>6. \A T \in SUBSET (1..7) : g[T] = OneReason(f, target, use, selected, g, T)
  <2> SUFFICES ASSUME NEW T \in SUBSET (1..7)
               PROVE  g[T] = OneReason(f, target, use, selected, g, T)
    OBVIOUS
  <2>1. CASE T = {}  BY <1>5, <2>1 DEF OneFold, OneReason
  <2>2. CASE T # {}
    <3>1. Max(T) \in 1..7 /\ T \ {Max(T)} \in SUBSET (1..7)  BY <2>2, LastOfInterval
    <3>2. g[T \ {Max(T)}] \in V  BY <1>5, <3>1
    <3>3. g[T] = step[<<g[T \ {Max(T)}], Max(T)>>]  BY <1>5, <2>2 DEF OneFold
    <3>4. g[T] = WithNext(f, target, use, g[T \ {Max(T)}], Reasons[Max(T)])
      BY <1>3, <3>1, <3>2, <3>3
    <3>5. QED  BY <2>2, <3>4 DEF OneReason
  <2>3. QED  BY <2>1, <2>2
<1>7. Rounding(f, target, use, selected, g)
  <2>1. g = [T \in SUBSET (1..7) |-> g[T]]  BY <1>5
  <2>2. g = [T \in SUBSET (1..7) |-> OneReason(f, target, use, selected, g, T)]  BY <1>6, <2>1
  <2>3. QED  BY <1>2, <2>2 DEF Rounding
<1>8. Rounding(f, target, use, selected, iter)  BY <1>7, Zenon
<1> HIDE DEF iter
<1>9. \A T \in SUBSET (1..7) : iter[T] = OneReason(f, target, use, selected, iter, T)
  BY <1>2, <1>8 DEF Rounding
<1>10. iter[{}] = selected  BY <1>9 DEF OneReason
<1>11. ASSUME NEW i \in 1..7, iter[1..(i - 1)] \in V
       PROVE  iter[1..i] = step[<<iter[1..(i - 1)], i>>]
  <2>1. 1..i # {} /\ Max(1..i) = i /\ (1..i) \ {i} = 1..(i - 1)  BY LastOfInterval
  <2>2. 1..i \in SUBSET (1..7)  OBVIOUS
  <2>3. iter[1..i] = WithNext(f, target, use, iter[1..(i - 1)], Reasons[i])
    BY <1>9, <2>1, <2>2 DEF OneReason
  <2>4. QED  BY <1>3, <1>11, <2>3
<1>12. PICK c : Chain(c, 7, V, selected, step) /\ c[7] = iter[1..7]
  <2>1. Iterates(iter, 7, V, selected, step)  BY <1>10, <1>11 DEF Iterates
  <2> DEFINE n == 7
  <2>2. n \in Nat /\ selected \in V /\ StepsIn(V, n, step) /\ Iterates(iter, n, V, selected, step)
    BY <1>4, <1>a, <2>1
  <2> HIDE DEF V, n
  <2>3. \E c : Chain(c, n, V, selected, step) /\ c[n] = iter[1..n]  BY <2>2, FoldChain
  <2>4. QED  BY <2>3 DEF n
<1>13. c \in [0..7 -> V] /\ c[0] = selected  BY <1>12 DEF Chain
<1>14. ASSUME NEW i \in 1..7 PROVE c[i] = WithNext(f, target, use, c[i - 1], Reasons[i])
  <2>1. c[i] = step[<<c[i - 1], i>>]  BY <1>12 DEF Chain
  <2>2. c[i - 1] \in V  BY <1>13
  <2>3. QED  BY <1>3, <2>1, <2>2
<1>15. Chosen(c, f, target, use, selected)  BY <1>13, <1>14 DEF Chosen
<1>16. c[7] = Round(f, target, use, selected)  BY <1>1, <1>2, <1>12
<1>17. QED  BY <1>15, <1>16

LEMMA UpTo ==
    ASSUME NEW n \in Nat, NEW S, 0 \in S, \A i \in 1..n : i - 1 \in S => i \in S
    PROVE  \A i \in 0..n : i \in S
<1> DEFINE bad == {i \in 0..n : i \notin S}
<1>1. bad = {}
  <2> SUFFICES ASSUME bad # {} PROVE FALSE  OBVIOUS
  <2>1. PICK i \in bad : \A j \in bad : i <= j
    <3>1. bad \subseteq Nat  OBVIOUS
    <3> HIDE DEF bad
    <3>2. QED  BY <3>1, LeastNatural
  <2>2. i \in 0..n /\ i \notin S  BY <2>1
  <2>3. i \in 1..n /\ i - 1 \in 0..n  BY <2>2
  <2>4. i - 1 \in S  BY <2>1, <2>2, <2>3
  <2>5. QED  BY <2>2, <2>3, <2>4
<1>2. QED  BY <1>1

AllReasons(f) == UNION {ReasonsOf(f, u) : u \in DOMAIN f}
Covers(f, R) == \A r \in AllReasons(f) : \E u \in R : r \in ReasonsOf(f, u)
Seen(f, i) == {r \in AllReasons(f) : \E j \in 1..i : r = Reasons[j]}

LEMMA SeenFacts ==
    ASSUME NEW f, NEW use, Choosable(f, use)
    PROVE  /\ IsFiniteSet(AllReasons(f)) /\ Cardinality(AllReasons(f)) \in Nat
           /\ Seen(f, 0) = {} /\ Seen(f, 7) = AllReasons(f)
           /\ \A i \in 0..7 : /\ Seen(f, i) \subseteq AllReasons(f) /\ Cardinality(Seen(f, i)) \in Nat
                              /\ Cardinality(Seen(f, i)) <= Cardinality(AllReasons(f))
           /\ \A i \in 1..7 :
                 IF Reasons[i] \in AllReasons(f)
                 THEN /\ Seen(f, i) = Seen(f, i - 1) \cup {Reasons[i]}
                      /\ Cardinality(Seen(f, i)) = Cardinality(Seen(f, i - 1)) + 1
                 ELSE Seen(f, i) = Seen(f, i - 1)
<1> DEFINE all == AllReasons(f)
           known == {Reasons[i] : i \in 1..7}
           name == [i \in 1..7 |-> Reasons[i]]
<1>1. \A r \in all : \E i \in 1..7 : r = Reasons[i]  BY DEF AllReasons, Choosable
<1>2. IsFiniteSet(known)
  <2>1. name \in Surjection(1..7, known)  BY DEF Surjection
  <2> DEFINE n == 7
  <2>2. n \in Int  OBVIOUS
  <2> HIDE DEF n
  <2>3. IsFiniteSet(1..n)  BY <2>2, FS_Interval
  <2> HIDE DEF name, known
  <2>4. QED  BY <2>1, <2>3, FS_Surjection DEF n
<1>3. all \subseteq known  BY <1>1
<1>4. IsFiniteSet(all) /\ Cardinality(all) \in Nat
  <2> HIDE DEF known
  <2>1. QED  BY <1>2, <1>3, FS_Subset, FS_CardinalityType
<1>5. \A i \in Nat : Seen(f, i) \subseteq all  BY DEF Seen
<1>6. \A i \in Nat : /\ IsFiniteSet(Seen(f, i)) /\ Cardinality(Seen(f, i)) \in Nat
                     /\ Cardinality(Seen(f, i)) <= Cardinality(all)
  <2> HIDE DEF all
  <2>1. QED  BY <1>4, <1>5, FS_Subset, FS_CardinalityType
<1>7. Seen(f, 0) = {}  BY DEF Seen
<1>8. Seen(f, 7) = all  BY <1>1 DEF Seen
<1>9. \A i, j \in 1..7 : Reasons[i] = Reasons[j] => i = j  BY DEF Reasons
<1>10. ASSUME NEW i \in 1..7, Reasons[i] \in all
       PROVE  /\ Seen(f, i) = Seen(f, i - 1) \cup {Reasons[i]}
              /\ Cardinality(Seen(f, i)) = Cardinality(Seen(f, i - 1)) + 1
  <2>1. \A j : j \in 1..i <=> j \in 1..(i - 1) \/ j = i  OBVIOUS
  <2>2. Seen(f, i) = Seen(f, i - 1) \cup {Reasons[i]}  BY <1>10, <2>1 DEF Seen
  <2>3. Reasons[i] \notin Seen(f, i - 1)
    <3>1. \A j \in 1..(i - 1) : j \in 1..7 /\ j # i  OBVIOUS
    <3>2. QED  BY <1>9, <3>1 DEF Seen
  <2>4. i - 1 \in Nat  OBVIOUS
  <2>5. IsFiniteSet(Seen(f, i - 1))  BY <1>6, <2>4
  <2>6. Cardinality(Seen(f, i - 1) \cup {Reasons[i]}) = Cardinality(Seen(f, i - 1)) + 1
    BY <2>3, <2>5, FS_AddElement
  <2>7. QED  BY <2>2, <2>6
<1>11. ASSUME NEW i \in 1..7, Reasons[i] \notin all PROVE Seen(f, i) = Seen(f, i - 1)
  <2>1. \A j : j \in 1..i <=> j \in 1..(i - 1) \/ j = i  OBVIOUS
  <2>2. QED  BY <1>11, <2>1 DEF Seen
<1> HIDE DEF all
<1>12. \A i \in 0..7 : i \in Nat  OBVIOUS
<1>13. QED  BY <1>4, <1>5, <1>6, <1>7, <1>8, <1>10, <1>11, <1>12 DEF all

Rounded(f, target, selected, R) ==
    /\ R \in SUBSET DOMAIN f /\ selected \subseteq R /\ Cardinality(R) \in Nat
    /\ Cardinality(selected) <= target => Cardinality(R) <= target
    /\ selected # DOMAIN f /\ Cardinality(selected) < target =>
          Cardinality(R) >= Cardinality(selected) + 1
    /\ selected = {} /\ target >= Cardinality(AllReasons(f)) => Covers(f, R)

LEMMA RoundFacts ==
    ASSUME NEW f, NEW use, Choosable(f, use), NEW target \in Nat, NEW selected \in SUBSET DOMAIN f
    PROVE  Rounded(f, target, selected, Round(f, target, use, selected))
<1>1. PICK c : Chosen(c, f, target, use, selected) /\ c[7] = Round(f, target, use, selected)
  BY RoundIs
<1>2. c \in [0..7 -> SUBSET DOMAIN f] /\ c[0] = selected  BY <1>1 DEF Chosen
<1>3. ASSUME NEW i \in 1..7 PROVE Extended(f, target, c[i - 1], i, c[i])
  <2> DEFINE before == c[i - 1]
  <2>1. before \in SUBSET DOMAIN f  BY <1>2
  <2>2. c[i] = WithNext(f, target, use, before, Reasons[i])  BY <1>1 DEF Chosen
  <2> HIDE DEF before
  <2>3. Extended(f, target, before, i, WithNext(f, target, use, before, Reasons[i]))
    BY <2>1, WithNextFacts
  <2>4. QED  BY <2>2, <2>3 DEF before
<1>4. \A i \in 0..7 : c[i] \subseteq DOMAIN f /\ IsFiniteSet(c[i]) /\ Cardinality(c[i]) \in Nat
  <2>1. \A i \in 0..7 : c[i] \subseteq DOMAIN f  BY <1>2
  <2>2. IsFiniteSet(DOMAIN f)  BY DEF Choosable
  <2>3. QED  BY <2>1, <2>2, FS_Subset, FS_CardinalityType
<1>5. \A i \in 0..7 : \A j \in i..7 : c[i] \subseteq c[j]
  <2> DEFINE n == 7
  <2>1. n \in Nat /\ \A i \in 1..n : c[i - 1] \subseteq c[i]  BY <1>3 DEF Extended
  <2> HIDE DEF n
  <2>2. \A i \in 0..n : \A j \in i..n : c[i] \subseteq c[j]  BY <2>1, ChainGrows
  <2>3. QED  BY <2>2 DEF n
<1>6. Cardinality(selected) <= target => Cardinality(c[7]) <= target
  <2> SUFFICES ASSUME Cardinality(selected) <= target PROVE Cardinality(c[7]) <= target  OBVIOUS
  <2> DEFINE S == {i \in 0..7 : Cardinality(c[i]) <= target}
  <2>1. 0 \in S  BY <1>2
  <2>2. \A i \in 1..7 : i - 1 \in S => i \in S  BY <1>3 DEF Extended
  <2> HIDE DEF S
  <2>3. \A i \in 0..7 : i \in S  BY <2>1, <2>2, UpTo
  <2>4. QED  BY <2>3 DEF S
<1>7. ASSUME selected # DOMAIN f, Cardinality(selected) < target
      PROVE  Cardinality(c[7]) >= Cardinality(selected) + 1
  <2>1. PICK u \in DOMAIN f \ selected : TRUE  BY <1>7
  <2>2. PICK k \in 1..7 : Reasons[k] \in ReasonsOf(f, u)  BY DEF Choosable
  <2>3. CASE c[k - 1] = selected
    <3>1. u \in With(f, selected, Reasons[k])  BY <2>2 DEF With
    <3>2. Extended(f, target, selected, k, c[k])  BY <1>3, <2>3
    <3>3. Cardinality(c[k]) = Cardinality(selected) + 1  BY <1>7, <3>1, <3>2 DEF Extended
    <3>4. c[k] \subseteq c[7] /\ IsFiniteSet(c[7])  BY <1>4, <1>5
    <3>5. Cardinality(c[k]) <= Cardinality(c[7])  BY <3>4, FS_Subset
    <3>6. QED  BY <3>3, <3>5
  <2>4. CASE c[k - 1] # selected
    <3>1. k - 1 \in 0..7  OBVIOUS
    <3>2. selected \subseteq c[k - 1] /\ c[k - 1] \subseteq c[7]  BY <1>2, <1>5, <3>1
    <3>a. IsFiniteSet(c[7])  BY <1>4
    <3>3. selected \subseteq c[7] /\ selected # c[7] /\ IsFiniteSet(c[7])  BY <2>4, <3>2, <3>a
    <3>4. IsFiniteSet(selected) /\ Cardinality(selected) \in Nat /\ Cardinality(c[7]) \in Nat
      BY <1>2, <1>4
    <3>5. PICK v \in c[7] : v \notin selected  BY <3>3
    <3>6. Cardinality(selected \cup {v}) = Cardinality(selected) + 1  BY <3>4, <3>5, FS_AddElement
    <3>7. selected \cup {v} \subseteq c[7]  BY <3>3
    <3>8. Cardinality(selected \cup {v}) <= Cardinality(c[7])  BY <3>3, <3>7, FS_Subset
    <3>9. QED  BY <3>6, <3>8
  <2>5. QED  BY <2>3, <2>4
<1>8. ASSUME selected = {}, target >= Cardinality(AllReasons(f)) PROVE Covers(f, c[7])
  <2> DEFINE Met(i) == \A r \in Seen(f, i) : \E u \in c[i] : r \in ReasonsOf(f, u)
             S == {i \in 0..7 : Cardinality(c[i]) <= Cardinality(Seen(f, i)) /\ Met(i)}
  <2>1. 0 \in S
    <3>1. c[0] = {} /\ Seen(f, 0) = {}  BY <1>2, <1>8, SeenFacts
    <3>2. Cardinality({}) = 0  BY FS_EmptySet
    <3>3. QED  BY <3>1, <3>2
  <2>2. ASSUME NEW i \in 1..7, i - 1 \in S PROVE i \in S
    <3>1. /\ i - 1 \in 0..7 /\ i \in 0..7
          /\ Cardinality(c[i - 1]) <= Cardinality(Seen(f, i - 1)) /\ Met(i - 1)
      BY <2>2
    <3>2. /\ Cardinality(Seen(f, i)) \in Nat /\ Cardinality(Seen(f, i - 1)) \in Nat
          /\ Cardinality(Seen(f, i)) <= Cardinality(AllReasons(f))
          /\ Cardinality(AllReasons(f)) \in Nat
      BY <3>1, SeenFacts
    <3>3. Extended(f, target, c[i - 1], i, c[i])  BY <1>3
    <3>4. c[i - 1] \subseteq c[i]  BY <3>3 DEF Extended
    <3>5. Cardinality(c[i - 1]) \in Nat /\ Cardinality(c[i]) \in Nat  BY <1>4, <3>1
    <3>6. CASE Reasons[i] \in AllReasons(f)
      <4>1. /\ Seen(f, i) = Seen(f, i - 1) \cup {Reasons[i]}
            /\ Cardinality(Seen(f, i)) = Cardinality(Seen(f, i - 1)) + 1
        BY <3>6, SeenFacts
      <4>2. Cardinality(c[i - 1]) < target  BY <1>8, <3>1, <3>2, <3>5, <4>1
      <4>3. Cardinality(c[i]) <= Cardinality(c[i - 1]) + 1  BY <3>3 DEF Extended
      <4>4. Cardinality(c[i]) <= Cardinality(Seen(f, i))  BY <3>1, <3>2, <3>5, <4>1, <4>3
      <4>5. \E u \in c[i] : Reasons[i] \in ReasonsOf(f, u)
        <5>1. CASE With(f, c[i - 1], Reasons[i]) # {}  BY <3>3, <4>2, <5>1 DEF Extended
        <5>2. CASE With(f, c[i - 1], Reasons[i]) = {}
          <6>1. PICK u \in DOMAIN f : Reasons[i] \in ReasonsOf(f, u)  BY <3>6 DEF AllReasons
          <6>2. u \in c[i - 1]  BY <5>2, <6>1 DEF With
          <6>3. QED  BY <3>4, <6>1, <6>2
        <5>3. QED  BY <5>1, <5>2
      <4>6. Met(i)  BY <3>1, <3>4, <4>1, <4>5
      <4>7. QED  BY <3>1, <4>4, <4>6
    <3>7. CASE Reasons[i] \notin AllReasons(f)
      <4>1. Seen(f, i) = Seen(f, i - 1)  BY <3>7, SeenFacts
      <4>2. With(f, c[i - 1], Reasons[i]) = {}  BY <3>7 DEF With, AllReasons
      <4>3. c[i] = c[i - 1]  BY <3>3, <4>2 DEF Extended
      <4>4. QED  BY <3>1, <4>1, <4>3
    <3>8. QED  BY <3>6, <3>7
  <2> HIDE DEF S
  <2>3. \A i \in 0..7 : i \in S  BY <2>1, <2>2, UpTo
  <2>4. Met(7) /\ Seen(f, 7) = AllReasons(f)  BY <2>3, SeenFacts DEF S
  <2>5. QED  BY <2>4 DEF Covers
<1>9. selected \subseteq c[7] /\ c[7] \in SUBSET DOMAIN f /\ Cardinality(c[7]) \in Nat
  BY <1>2, <1>4, <1>5
<1>10. QED  BY <1>1, <1>6, <1>7, <1>8, <1>9 DEF Rounded

\* One step of the fold in RoundRobin.
OneRound(f, target, use, g, T) ==
    IF T = {} THEN {} ELSE Round(f, target, use, g[T \ {Max(T)}])
Robin(f, target, use, n, g) == g = [T \in SUBSET (1..n) |-> OneRound(f, target, use, g, T)]

\* The round robin is a chain of rounds.
Rounds(d, n, f, target, use) ==
    /\ d \in [0..n -> SUBSET DOMAIN f] /\ d[0] = {}
    /\ \A i \in 1..n : d[i] = Round(f, target, use, d[i - 1])

LEMMA RoundRobinIs ==
    ASSUME NEW f, NEW use, Choosable(f, use), NEW target \in Nat,
           NEW n, n = Cardinality(DOMAIN f)
    PROVE  \E d : Rounds(d, n, f, target, use) /\ d[n] = RoundRobin(f, target, use)
<1> DEFINE V == SUBSET DOMAIN f
           places == [i \in 1..n |-> i]
           step == [p \in V \X (1..n) |-> Round(f, target, use, p[1])]
           iter == CHOOSE g : Robin(f, target, use, n, g)
<1>0. n \in Nat  BY FS_CardinalityType DEF Choosable
<1>1. RoundRobin(f, target, use) = iter[1..n]
  <2>1. DOMAIN places = 1..n /\ \A i \in 1..n : places[i] = i  OBVIOUS
  <2>2. RoundRobin(f, target, use) = (CHOOSE g : g = [T \in SUBSET DOMAIN places |->
              IF T = {} THEN {} ELSE Round(f, target, use, g[T \ {Max(T)}])])[DOMAIN places]
    BY DEF RoundRobin, FoldLeft, MapThenFoldSet
  <2>3. DOMAIN places = 1..n  OBVIOUS
  <2> HIDE DEF places
  <2>4. QED  BY <2>2, <2>3 DEF Robin, OneRound
<1>3. ASSUME NEW s \in V, NEW i \in 1..n
      PROVE  Round(f, target, use, s) \in V /\ step[<<s, i>>] = Round(f, target, use, s)
  <2> DEFINE R == Round(f, target, use, s)
  <2>1. Rounded(f, target, s, R)  BY RoundFacts
  <2> HIDE DEF R
  <2>2. R \in V  BY <2>1 DEF Rounded
  <2>3. QED  BY <2>2 DEF R
<1>4. StepsIn(V, n, step)
  <2>1. \A p \in V \X (1..n) : Round(f, target, use, p[1]) \in V  BY <1>3
  <2>2. QED  BY <2>1 DEF StepsIn
<1>a. {} \in V  OBVIOUS
<1> HIDE DEF step
<1>b. PICK g : FoldOf(g, n, V, {}, step)
  <2> HIDE DEF V
  <2>1. QED  BY <1>0, <1>4, <1>a, FoldingExists
<1>5. /\ g \in [SUBSET (1..n) -> V]
      /\ \A T \in SUBSET (1..n) : g[T] = OneFold({}, step, g, T)
  BY <1>b DEF FoldOf
<1>6. \A T \in SUBSET (1..n) : g[T] = OneRound(f, target, use, g, T)
  <2> SUFFICES ASSUME NEW T \in SUBSET (1..n)
               PROVE  g[T] = OneRound(f, target, use, g, T)
    OBVIOUS
  <2>1. CASE T = {}  BY <1>5, <2>1 DEF OneFold, OneRound
  <2>2. CASE T # {}
    <3>1. Max(T) \in 1..n /\ Max(T) \in T  BY <1>0, <2>2, LastOfInterval
    <3>2. T \ {Max(T)} \in SUBSET (1..n)  OBVIOUS
    <3>3. g[T \ {Max(T)}] \in V  BY <1>5, <3>2
    <3>4. g[T] = step[<<g[T \ {Max(T)}], Max(T)>>]  BY <1>5, <2>2 DEF OneFold
    <3>5. g[T] = Round(f, target, use, g[T \ {Max(T)}])
      BY <1>3, <3>1, <3>3, <3>4
    <3>6. QED  BY <2>2, <3>5 DEF OneRound
  <2>3. QED  BY <2>1, <2>2
<1>7. Robin(f, target, use, n, g)
  <2>1. g = [T \in SUBSET (1..n) |-> g[T]]  BY <1>5
  <2>2. g = [T \in SUBSET (1..n) |-> OneRound(f, target, use, g, T)]  BY <1>6, <2>1
  <2>3. QED  BY <2>2 DEF Robin
<1>8. Robin(f, target, use, n, iter)  BY <1>7, Zenon
<1> HIDE DEF iter
<1>9. \A T \in SUBSET (1..n) : iter[T] = OneRound(f, target, use, iter, T)
  BY <1>8 DEF Robin
<1>10. iter[{}] = {}  BY <1>9 DEF OneRound
<1>11. ASSUME NEW i \in 1..n, iter[1..(i - 1)] \in V
       PROVE  iter[1..i] = step[<<iter[1..(i - 1)], i>>]
  <2>1. 1..i # {} /\ Max(1..i) = i /\ (1..i) \ {i} = 1..(i - 1)
    <3>1. i \in Nat \ {0}  BY <1>0
    <3>2. QED  BY <3>1, LastOfInterval
  <2>2. 1..i \in SUBSET (1..n)  BY <1>0
  <2>3. iter[1..i] = Round(f, target, use, iter[1..(i - 1)])
    BY <1>9, <2>1, <2>2 DEF OneRound
  <2>4. QED  BY <1>3, <1>11, <2>3
<1>12. PICK d : Chain(d, n, V, {}, step) /\ d[n] = iter[1..n]
  <2>1. Iterates(iter, n, V, {}, step)  BY <1>10, <1>11 DEF Iterates
  <2> HIDE DEF V
  <2>2. QED  BY <1>0, <1>4, <1>a, <2>1, FoldChain
<1>13. d \in [0..n -> V] /\ d[0] = {}  BY <1>12 DEF Chain
<1>14. ASSUME NEW i \in 1..n PROVE d[i] = Round(f, target, use, d[i - 1])
  <2>1. d[i] = step[<<d[i - 1], i>>]  BY <1>12 DEF Chain
  <2>2. i - 1 \in 0..n  BY <1>0
  <2>3. d[i - 1] \in V  BY <1>13, <2>2
  <2>4. QED  BY <1>3, <2>1, <2>3
<1>15. Rounds(d, n, f, target, use)  BY <1>13, <1>14 DEF Rounds
<1>16. d[n] = RoundRobin(f, target, use)  BY <1>1, <1>12
<1>17. QED  BY <1>15, <1>16

\* A round robin selects as many units as it is asked for, or all there are,
\* and a unit for every reason if it may select that many.
LEMMA RoundRobinSound ==
    ASSUME NEW f, NEW use, Choosable(f, use), NEW target \in Nat,
           NEW R, R = RoundRobin(f, target, use)
    PROVE  /\ R \in SUBSET DOMAIN f
           /\ Cardinality(R) = AtMost(target, Cardinality(DOMAIN f))
           /\ Cardinality(R) <= target
           /\ target >= Cardinality(AllReasons(f)) => Covers(f, R)
<1> DEFINE n == Cardinality(DOMAIN f)
<1>0. IsFiniteSet(DOMAIN f) /\ n \in Nat  BY FS_CardinalityType DEF Choosable
<1>1. PICK d : Rounds(d, n, f, target, use) /\ d[n] = R  BY RoundRobinIs
<1>f. n = 0 => DOMAIN f = {}  BY <1>0, FS_EmptySet
<1>g. \A T \in SUBSET DOMAIN f : IsFiniteSet(T) /\ Cardinality(T) \in Nat /\ Cardinality(T) <= n
  BY <1>0, FS_Subset, FS_CardinalityType
<1> HIDE DEF n
<1>2. d \in [0..n -> SUBSET DOMAIN f] /\ d[0] = {}  BY <1>1 DEF Rounds
<1>3. ASSUME NEW i \in 1..n PROVE Rounded(f, target, d[i - 1], d[i])
  <2> DEFINE before == d[i - 1]
  <2>1. i - 1 \in 0..n  BY <1>0
  <2>2. before \in SUBSET DOMAIN f  BY <1>2, <2>1
  <2>3. d[i] = Round(f, target, use, before)  BY <1>1 DEF Rounds
  <2> HIDE DEF before
  <2>4. Rounded(f, target, before, Round(f, target, use, before))  BY <2>2, RoundFacts
  <2>5. QED  BY <2>3, <2>4 DEF before
<1>4. \A i \in 0..n : d[i] \subseteq DOMAIN f /\ Cardinality(d[i]) \in Nat  BY <1>2, <1>g
<1>5. \A i \in 0..n : \A j \in i..n : d[i] \subseteq d[j]
  <2>1. \A i \in 1..n : d[i - 1] \subseteq d[i]  BY <1>3 DEF Rounded
  <2>2. QED  BY <1>0, <2>1, ChainGrows
<1>6. \A i \in 0..n : Cardinality(d[i]) <= target
  <2> DEFINE S == {i \in 0..n : Cardinality(d[i]) <= target}
  <2>1. 0 \in S
    <3>1. Cardinality({}) = 0  BY FS_EmptySet
    <3>2. Cardinality(d[0]) = 0  BY <1>2, <3>1
    <3>3. 0 \in 0..n  BY <1>0
    <3>4. QED  BY <3>2, <3>3
  <2>2. \A i \in 1..n : i - 1 \in S => i \in S  BY <1>0, <1>3 DEF Rounded
  <2> HIDE DEF S
  <2>3. \A i \in 0..n : i \in S  BY <1>0, <2>1, <2>2, UpTo
  <2>4. QED  BY <2>3 DEF S
<1>7. \/ Cardinality(d[n]) >= n \/ Cardinality(d[n]) >= target \/ d[n] = DOMAIN f
  <2> DEFINE S == {i \in 0..n : \/ Cardinality(d[i]) >= i \/ Cardinality(d[i]) >= target
                                \/ d[i] = DOMAIN f}
  <2>1. 0 \in S  BY <1>0, <1>4
  <2>2. ASSUME NEW i \in 1..n, i - 1 \in S PROVE i \in S
    <3>1. i \in 0..n /\ i - 1 \in 0..n  BY <1>0
    <3>2. Cardinality(d[i - 1]) \in Nat /\ Cardinality(d[i]) \in Nat /\ d[i] \subseteq DOMAIN f
      BY <1>4, <3>1
    <3>3. d[i - 1] \subseteq d[i]  BY <1>3 DEF Rounded
    <3>4. Cardinality(d[i - 1]) <= Cardinality(d[i])
      <4>1. IsFiniteSet(d[i])  BY <1>g, <3>2
      <4>2. QED  BY <3>3, <4>1, FS_Subset
    <3>5. CASE d[i - 1] = DOMAIN f
      <4>1. d[i] = DOMAIN f  BY <3>2, <3>3, <3>5
      <4>2. QED  BY <3>1, <4>1
    <3>6. CASE Cardinality(d[i - 1]) >= target
      <4>1. Cardinality(d[i]) >= target  BY <3>2, <3>4, <3>6
      <4>2. QED  BY <3>1, <4>1
    <3>7. CASE d[i - 1] # DOMAIN f /\ Cardinality(d[i - 1]) < target
      <4>1. Cardinality(d[i]) >= Cardinality(d[i - 1]) + 1  BY <1>3, <3>7 DEF Rounded
      <4>2. Cardinality(d[i - 1]) >= i - 1  BY <2>2, <3>2, <3>7
      <4>3. Cardinality(d[i]) >= i  BY <3>1, <3>2, <4>1, <4>2
      <4>4. QED  BY <3>1, <4>3
    <3>8. QED  BY <3>2, <3>5, <3>6, <3>7
  <2> HIDE DEF S
  <2>3. \A i \in 0..n : i \in S  BY <1>0, <2>1, <2>2, UpTo
  <2>4. n \in S  BY <1>0, <2>3
  <2>5. QED  BY <2>4 DEF S
<1>8. n \in 0..n  BY <1>0
<1>9. /\ R \in SUBSET DOMAIN f /\ Cardinality(R) \in Nat
      /\ Cardinality(R) <= n /\ Cardinality(R) <= target
      /\ (Cardinality(R) >= n \/ Cardinality(R) >= target)
  <2>1. R \in SUBSET DOMAIN f  BY <1>1, <1>2, <1>8
  <2>2. Cardinality(R) \in Nat /\ Cardinality(R) <= n  BY <1>g, <2>1
  <2>3. Cardinality(R) <= target  BY <1>1, <1>6, <1>8
  <2>4. R = DOMAIN f => Cardinality(R) >= n  BY <1>0 DEF n
  <2>5. QED  BY <1>1, <1>7, <2>1, <2>2, <2>3, <2>4
<1>10. Cardinality(R) = AtMost(target, n)
  <2>1. AtMost(target, n) = IF target < n THEN target ELSE n  BY <1>0, LesserOfTwo
  <2>2. QED  BY <1>0, <1>9, <2>1
<1>11. ASSUME target >= Cardinality(AllReasons(f)) PROVE Covers(f, R)
  <2>1. CASE n = 0
    <3>1. AllReasons(f) = {}  BY <1>f, <2>1 DEF AllReasons
    <3>2. QED  BY <3>1 DEF Covers
  <2>2. CASE n # 0
    <3>1. 1 \in 1..n /\ 1 \in 0..n /\ n \in 1..n  BY <1>0, <2>2
    <3>2. Rounded(f, target, d[0], d[1])
      <4>1. Rounded(f, target, d[1 - 1], d[1])  BY <1>3, <3>1
      <4>2. 1 - 1 = 0  OBVIOUS
      <4>3. QED  BY <4>1, <4>2
    <3>3. Covers(f, d[1])  BY <1>2, <1>11, <3>2 DEF Rounded
    <3>4. d[1] \subseteq R  BY <1>1, <1>5, <3>1
    <3>5. QED  BY <3>3, <3>4 DEF Covers
  <2>3. QED  BY <2>1, <2>2
<1>12. QED  BY <1>9, <1>10, <1>11 DEF n

-----------------------------------------------------------------------------
(* The calibration sample and the units annotated twice.                   *)

\* Whatever the reasons bring, the calibration sample is filled up.
LEMMA CalibrationSound ==
    ASSUME NEW f, Choosable(f, "calib"), Distinct(DOMAIN f, <<"calib">>), NEW target \in Nat,
           NEW C, C = Calibration(f, target)
    PROVE  /\ C \subseteq DOMAIN f
           /\ Cardinality(C) = AtMost(target, Cardinality(DOMAIN f))
<1> DEFINE R == RoundRobin(f, target, "calib")
           pool == DOMAIN f
           salt == <<"calib">>
           more == Filled(pool, R, target, salt)
           use == "calib"
<1>1. R \in SUBSET pool /\ Cardinality(R) <= target
  <2>1. R = RoundRobin(f, target, use) /\ Choosable(f, use)  OBVIOUS
  <2> HIDE DEF R, use
  <2>2. QED  BY <2>1, RoundRobinSound
<1>2. C = R \cup more  BY DEF Calibration, Filled
<1>3. Distinct(pool, salt)  OBVIOUS
<1> HIDE DEF pool, salt, R
<1>m. more = Filled(pool, R, target, salt)  OBVIOUS
<1> HIDE DEF more
<1>4. /\ more \subseteq pool \ R
      /\ Cardinality(R \cup more) = AtMost(target, Cardinality(pool))
      /\ IsFiniteSet(R) /\ IsFiniteSet(more)
  BY <1>1, <1>3, <1>m, ToppedUp
<1>5. QED  BY <1>1, <1>2, <1>4 DEF pool

\* The units with a role.
InRole(units, role) == {u \in DOMAIN units : role \in units[u]}

\* What DoublyAnnotated takes from the two roles before it makes up for the
\* units that have both.
Preferred(units, target) ==
    AtMost(Cardinality(InRole(units, "representative")), (6 * target + 5) \div 10)
OthersOf(units, target) ==
    AtMost(Cardinality(InRole(units, "challenge")), target - Preferred(units, target))
RepsOf(units, target) ==
    IF Preferred(units, target) + OthersOf(units, target) < target
    THEN AtMost(Cardinality(InRole(units, "representative")), target - OthersOf(units, target))
    ELSE Preferred(units, target)
PickedTwice(units, target) ==
    LowestRanked(InRole(units, "representative"), RepsOf(units, target), <<"double">>)
    \cup LowestRanked(InRole(units, "challenge"), OthersOf(units, target), <<"double">>)

\* At most k of a pool, if k is a number of units.
LEMMA AtMostLowest ==
    ASSUME NEW pool, NEW salt, NEW k \in Nat, Distinct(pool, salt)
    PROVE  /\ LowestRanked(pool, k, salt) \subseteq pool
           /\ IsFiniteSet(LowestRanked(pool, k, salt))
           /\ Cardinality(LowestRanked(pool, k, salt)) \in Nat
           /\ Cardinality(LowestRanked(pool, k, salt)) <= k
<1> DEFINE L == LowestRanked(pool, k, salt)
           n == Cardinality(pool)
<1>1. IsFiniteSet(pool) /\ n \in Nat  BY FS_CardinalityType DEF Distinct, Ranked
<1>2. /\ L \subseteq pool
      /\ 0 <= k /\ k <= n => Cardinality(L) = k
      /\ k >= n => L = pool
  BY LowestRankedExact
<1> HIDE DEF L
<1>3. IsFiniteSet(L) /\ Cardinality(L) \in Nat  BY <1>1, <1>2, FS_Subset, FS_CardinalityType
<1>4. Cardinality(L) <= k
  <2>1. CASE k <= n  BY <1>1, <1>2, <2>1
  <2>2. CASE k >= n  BY <1>1, <1>2, <2>2
  <2>3. QED  BY <1>1, <2>1, <2>2
<1>5. QED  BY <1>2, <1>3, <1>4 DEF L

\* The two counts add up to what is asked for at most.
LEMMA CountsFit ==
    ASSUME NEW r \in Nat, NEW c \in Nat, NEW target \in Nat, NEW p, NEW o, NEW q,
           p = AtMost(r, (6 * target + 5) \div 10), o = AtMost(c, target - p),
           q = IF p + o < target THEN AtMost(r, target - o) ELSE p
    PROVE  o \in Nat /\ q \in Nat /\ q + o <= target
<1> DEFINE share == (6 * target + 5) \div 10
<1>1. share \in Nat /\ share <= target  OBVIOUS
<1> HIDE DEF share
<1>2. p = IF r < share THEN r ELSE share  BY <1>1, LesserOfTwo DEF share
<1>3. p \in Nat /\ p <= target  BY <1>1, <1>2
<1>4. target - p \in Nat  BY <1>3
<1>5. AtMost(c, target - p) = IF c < target - p THEN c ELSE target - p  BY <1>4, LesserOfTwo
<1>6. o \in Nat /\ o <= target - p  BY <1>4, <1>5
<1>7. target - o \in Nat  BY <1>3, <1>6
<1>8. AtMost(r, target - o) = IF r < target - o THEN r ELSE target - o  BY <1>7, LesserOfTwo
<1>9. QED  BY <1>3, <1>6, <1>7, <1>8

\* A unit that has both roles, or is picked for both, makes no difference.
LEMMA DoublyAnnotatedSound ==
    ASSUME NEW units, Distinct(DOMAIN units, <<"double">>), NEW target \in Nat,
           NEW B, B = DoublyAnnotated(units, target)
    PROVE  Cardinality(B) = AtMost(target, Cardinality(DOMAIN units))
<1> DEFINE pool == DOMAIN units
           salt == <<"double">>
           reps == InRole(units, "representative")
           challenges == InRole(units, "challenge")
           q == RepsOf(units, target)
           o == OthersOf(units, target)
           p == Preferred(units, target)
           one == LowestRanked(reps, q, salt)
           two == LowestRanked(challenges, o, salt)
           picked == one \cup two
           more == Filled(pool, picked, target, salt)
<1>1. B = picked \cup more
  BY DEF DoublyAnnotated, InRole, Preferred, OthersOf, RepsOf, Filled
<1>2. reps \subseteq pool /\ challenges \subseteq pool  BY DEF InRole
<1>3. Distinct(pool, salt)  OBVIOUS
<1>a. /\ p = AtMost(Cardinality(reps), (6 * target + 5) \div 10)
      /\ o = AtMost(Cardinality(challenges), target - p)
      /\ q = IF p + o < target THEN AtMost(Cardinality(reps), target - o) ELSE p
  BY DEF RepsOf, OthersOf, Preferred
<1> HIDE DEF pool, salt, reps, challenges, q, o, p
<1>4. Distinct(reps, salt) /\ Distinct(challenges, salt)  BY <1>2, <1>3, PartDistinct
<1>5. Cardinality(reps) \in Nat /\ Cardinality(challenges) \in Nat
  BY <1>4, FS_CardinalityType DEF Distinct, Ranked
<1>6. o \in Nat /\ q \in Nat /\ q + o <= target  BY <1>5, <1>a, CountsFit
<1>7. /\ one \subseteq reps /\ IsFiniteSet(one) /\ Cardinality(one) \in Nat /\ Cardinality(one) <= q
      /\ two \subseteq challenges /\ IsFiniteSet(two) /\ Cardinality(two) \in Nat
      /\ Cardinality(two) <= o
  BY <1>4, <1>6, AtMostLowest
<1> HIDE DEF one, two
<1>8. Cardinality(picked) <= target
  <2>1. IsFiniteSet(one \cap two)  BY <1>7, FS_Subset
  <2>2. Cardinality(one \cap two) \in Nat  BY <2>1, FS_CardinalityType
  <2>3. Cardinality(picked) = Cardinality(one) + Cardinality(two) - Cardinality(one \cap two)
    BY <1>7, FS_Union
  <2> HIDE DEF picked
  <2>4. QED  BY <1>6, <1>7, <2>2, <2>3
<1>9. picked \in SUBSET pool  BY <1>2, <1>7
<1>m. more = Filled(pool, picked, target, salt)  OBVIOUS
<1> HIDE DEF picked, more
<1>10. /\ more \subseteq pool \ picked
       /\ Cardinality(picked \cup more) = AtMost(target, Cardinality(pool))
       /\ IsFiniteSet(picked) /\ IsFiniteSet(more)
  BY <1>3, <1>8, <1>9, <1>m, ToppedUp
<1>11. QED  BY <1>1, <1>10 DEF pool

-----------------------------------------------------------------------------
(* The pairs reviewed.                                                     *)

\* The pairs of a review are pairs of the universe, and those of the universe
\* are comparable.
LEMMA ReviewedPairs ==
    ASSUME NEW corpus, NEW cs, NEW distance, NEW cap, NEW candidates, NEW below,
           NEW pair \in ReviewPairs(PairFrame(corpus, cs, distance, cap), candidates, below)
    PROVE  /\ pair \in Canonicals(cs) \X Canonicals(cs)
           /\ Comparable(corpus, cs, distance, pair[1], pair[2])
<1> DEFINE pairs == PairFrame(corpus, cs, distance, cap)
           all == {p \in Canonicals(cs) \X Canonicals(cs) :
                      Comparable(corpus, cs, distance, p[1], p[2])}
<1>1. DOMAIN pairs \subseteq all
  <2>1. DOMAIN pairs = (IF cap = Absent THEN all ELSE LowestRanked(all, cap, <<"pair">>))
    BY DEF PairFrame
  <2>2. LowestRanked(all, cap, <<"pair">>) \subseteq all  BY DEF LowestRanked
  <2> HIDE DEF all, pairs
  <2>3. QED  BY <2>1, <2>2
<1>2. pair \in DOMAIN pairs
  <2> HIDE DEF pairs
  <2>1. PICK h, k : pair \in LowestRanked(PairsIn(pairs, h), k, <<"pair", h.key>>)
    BY DEF ReviewPairs, pairs
  <2>2. QED  BY <2>1 DEF LowestRanked, PairsIn
<1>3. QED  BY <1>1, <1>2

-----------------------------------------------------------------------------
(* The canonical articles and the frame of a run.                          *)

LEMMA CanonicalFacts ==
    ASSUME NEW corpus, DOMAIN corpus \subseteq Int, IsFiniteSet(DOMAIN corpus),
           NEW cs, cs = ExactClusters(corpus), NEW u \in Canonicals(cs)
    PROVE  /\ u \in DOMAIN corpus
           /\ ClusterOf(cs, u) \in cs /\ u \in ClusterOf(cs, u) /\ u = Canonical(ClusterOf(cs, u))
<1>1. /\ UNION cs = DOMAIN corpus
      /\ \A c, d \in cs : c # d => c \cap d = {}
  <2>1. /\ UNION ExactClusters(corpus) = DOMAIN corpus
        /\ \A c, d \in ExactClusters(corpus) : c # d =>
              c \cap d = {} /\ ~\E a \in c, b \in d : <<a, b>> \in EvidentPairs(corpus)
    BY ExactClustersFacts
  <2>2. QED  BY <2>1
<1>2. PICK c \in cs : u = Canonical(c)  BY DEF Canonicals
<1>3. c # {}  BY DEF ExactClusters
<1>4. c \subseteq DOMAIN corpus  BY <1>1
<1>5. c \subseteq Int /\ IsFiniteSet(c)  BY <1>4, FS_Subset
<1>6. u \in c
  <2>1. Min(c) \in c  BY <1>3, <1>5, Extremes
  <2>2. QED  BY <1>2, <2>1 DEF Canonical
<1>7. ClusterOf(cs, u) \in cs /\ u \in ClusterOf(cs, u)  BY <1>6 DEF ClusterOf
<1>8. ClusterOf(cs, u) = c
  <2> DEFINE d == ClusterOf(cs, u)
  <2>1. d \in cs /\ u \in d  BY <1>7
  <2> HIDE DEF d
  <2>2. d = c  BY <1>1, <1>6, <2>1
  <2>3. QED  BY <2>2 DEF d
<1>9. QED  BY <1>2, <1>4, <1>6, <1>7, <1>8

\* No evidence joins the two articles of a pair that is comparable.
LEMMA ComparableApart ==
    ASSUME NEW corpus, DOMAIN corpus \subseteq Int, IsFiniteSet(DOMAIN corpus),
           NEW cs, cs = ExactClusters(corpus), NEW distance,
           NEW a \in Canonicals(cs), NEW b \in Canonicals(cs),
           Comparable(corpus, cs, distance, a, b)
    PROVE  a \in DOMAIN corpus /\ b \in DOMAIN corpus /\ <<a, b>> \notin EvidentPairs(corpus)
<1>1. \A c, d \in cs : c # d => ~\E x \in c, y \in d : <<x, y>> \in EvidentPairs(corpus)
  <2>1. \A c, d \in ExactClusters(corpus) : c # d =>
              c \cap d = {} /\ ~\E x \in c, y \in d : <<x, y>> \in EvidentPairs(corpus)
    BY ExactClustersFacts
  <2>2. QED  BY <2>1
<1>2. a \in DOMAIN corpus /\ ClusterOf(cs, a) \in cs /\ a \in ClusterOf(cs, a)  BY CanonicalFacts
<1>3. b \in DOMAIN corpus /\ ClusterOf(cs, b) \in cs /\ b \in ClusterOf(cs, b)  BY CanonicalFacts
<1>4. ClusterOf(cs, a) # ClusterOf(cs, b)  BY DEF Comparable
<1>5. QED  BY <1>1, <1>2, <1>3, <1>4

\* An article whose mentions are finitely many numbered entities.
Mentioning(x) == IsFiniteSet(x.mentions) /\ \A m \in x.mentions : m.entity \in Int

LEMMA ImportedMentions ==
    ASSUME NEW given \in Given
    PROVE  \A id \in DOMAIN Imported(given.rows) : Mentioning(Imported(given.rows)[id])
<1> DEFINE lines == given.rows
           ids == {lines[i].id : i \in Accepted(lines)}
<1>1. Imported(lines) = [id \in ids |-> lines[CHOOSE i \in Accepted(lines) : lines[i].id = id].article]
  BY DEF Imported
<1>2. ASSUME NEW id \in ids
      PROVE  Mentioning(Imported(lines)[id])
  <2> DEFINE i == CHOOSE k \in Accepted(lines) : lines[k].id = id
  <2>1. i \in Accepted(lines)  OBVIOUS
  <2>2. Imported(lines)[id] = lines[i].article  BY <1>1
  <2> HIDE DEF i
  <2>3. i \in 1..Len(lines) /\ Valid(lines[i])  BY <2>1 DEF Accepted
  <2>4. Mentioning(lines[i].article)  BY <2>3, PilotAssumption DEF Mentioning
  <2>5. QED  BY <2>2, <2>4
<1>3. QED  BY <1>1, <1>2

LEMMA StratumNumbered ==
    ASSUME NEW x, Mentioning(x)
    PROVE  Stratum(x) \in Int
<1>1. IsFiniteSet(Clear(x)) /\ Clear(x) \subseteq Int
  <2> DEFINE clear == {n \in x.mentions : ~n.ambiguous}
             entity == [m \in clear |-> m.entity]
  <2>1. Clear(x) = {m.entity : m \in clear}  BY DEF Clear
  <2>2. IsFiniteSet(clear)  BY FS_Subset DEF Mentioning
  <2>3. entity \in Surjection(clear, Clear(x))  BY <2>1 DEF Surjection
  <2>4. Clear(x) \subseteq Int  BY <2>1 DEF Mentioning
  <2> HIDE DEF clear, entity
  <2>5. QED  BY <2>2, <2>3, <2>4, FS_Surjection
<1>2. Cardinality(Clear(x)) = 1 => SingleClear(Max(Clear(x))) \in Int
  <2> SUFFICES ASSUME Cardinality(Clear(x)) = 1 PROVE SingleClear(Max(Clear(x))) \in Int
    OBVIOUS
  <2>1. Clear(x) # {}  BY FS_EmptySet
  <2>2. Max(Clear(x)) \in Int  BY <1>1, <2>1, Extremes
  <2>3. QED  BY <2>2 DEF SingleClear
<1>3. QED  BY <1>2 DEF Stratum, IndustryPhraseOnly, AmbiguousAliasOnly, MultipleClear,
              MetadataOnly, OtherCandidate

\* A unit has a reason, and its reasons are among the documented ones.
LEMMA FrameReasons ==
    ASSUME NEW corpus, NEW cs, NEW near, NEW f, f = Frame(corpus, cs, near), NEW u \in DOMAIN f
    PROVE  /\ \E i \in 1..7 : Reasons[i] \in ReasonsOf(f, u)
           /\ \A r \in ReasonsOf(f, u) : \E i \in 1..7 : r = Reasons[i]
<1>1. f[u].flags \subseteq Range(Flags)  BY DEF Frame
<1>2. Range(Flags) = {Flags[i] : i \in 1..6}  BY DEF Range, Flags
<1>3. \A i \in 1..6 : \E j \in 1..7 : Flags[i] = Reasons[j]  BY DEF Flags, Reasons
<1>4. \A r \in f[u].flags : \E i \in 1..7 : r = Reasons[i]  BY <1>1, <1>2, <1>3
<1>5. "OTHER_DOCUMENTED_REASON" = Reasons[5] /\ 5 \in 1..7  BY DEF Reasons
<1>6. CASE f[u].flags = {}  BY <1>5, <1>6 DEF ReasonsOf
<1>7. CASE f[u].flags # {}
  <2>1. ReasonsOf(f, u) = f[u].flags  BY <1>7 DEF ReasonsOf
  <2>2. PICK r : r \in f[u].flags  BY <1>7
  <2>3. QED  BY <1>4, <2>1, <2>2
<1>8. QED  BY <1>6, <1>7

\* The ranks of the articles of a run differ under every salt.
LEMMA ArticlesRanked ==
    ASSUME NEW given \in Given, NEW S \in SUBSET ArticleIds(given.rows), NEW salt \in Salts
    PROVE  Distinct(S, salt)
<1> DEFINE lines == given.rows
<1>1. /\ Len(lines) \in Nat
      /\ \A i, j \in 1..Len(lines) :
            /\ Rank(salt, lines[i].id) \in Int
            /\ Rank(salt, lines[i].id) = Rank(salt, lines[j].id) => lines[i].id = lines[j].id
  BY PilotAssumption
<1>2. IsFiniteSet(ArticleIds(lines))
  <2> DEFINE id == [i \in 1..Len(lines) |-> lines[i].id]
  <2>1. id \in Surjection(1..Len(lines), ArticleIds(lines))  BY DEF Surjection, ArticleIds
  <2>2. IsFiniteSet(1..Len(lines))  BY <1>1, FS_Interval
  <2> HIDE DEF id, lines
  <2>3. QED  BY <2>1, <2>2, FS_Surjection
<1>3. Distinct(ArticleIds(lines), salt)
  <2>1. \A u, v \in ArticleIds(lines) :
            Rank(salt, u) \in Int /\ (Rank(salt, u) = Rank(salt, v) => u = v)
    BY <1>1 DEF ArticleIds
  <2>2. QED  BY <1>2, <2>1 DEF Distinct, Ranked
<1>4. QED  BY <1>3, PartDistinct

LEMMA TheSalts ==
    /\ <<"main">> \in Salts /\ <<"double">> \in Salts /\ <<"calib">> \in Salts
    /\ \A i \in 1..7 : <<"calib", Reasons[i]>> \in Salts /\ <<"challenge", Reasons[i]>> \in Salts
<1>1. Len(Reasons) = 7  BY DEF Reasons
<1>2. QED  BY <1>1 DEF Salts

\* The frame of a run, empty or not, can be sampled.
LEMMA FrameSampled ==
    ASSUME NEW given \in Given, NEW f, NEW cs, NEW near,
           f = << >> \/ f = Frame(Imported(given.rows), cs, near),
           DOMAIN f \subseteq ArticleIds(given.rows)
    PROVE  /\ f = << >> \/ DOMAIN f = {} \/ Drawable(f)
           /\ Choosable(f, "calib") /\ Choosable(f, "challenge")
           /\ Distinct(DOMAIN f, <<"calib">>)
<1> DEFINE D == DOMAIN f
<1>1. \A salt \in Salts : Distinct(D, salt)
  <2>1. D \in SUBSET ArticleIds(given.rows)  OBVIOUS
  <2> HIDE DEF D
  <2>2. QED  BY <2>1, ArticlesRanked
<1>2. IsFiniteSet(D)
  <2>1. <<"main">> \in Salts  BY TheSalts
  <2>2. QED  BY <1>1, <2>1 DEF Distinct, Ranked
<1>3. \A u \in D : /\ \E i \in 1..7 : Reasons[i] \in ReasonsOf(f, u)
                   /\ \A r \in ReasonsOf(f, u) : \E i \in 1..7 : r = Reasons[i]
  <2>1. CASE f = << >>  BY <2>1
  <2>2. CASE f = Frame(Imported(given.rows), cs, near)
    <3> DEFINE corpus == Imported(given.rows)
    <3>1. f = Frame(corpus, cs, near)  BY <2>2
    <3> HIDE DEF corpus
    <3>2. QED  BY <3>1, FrameReasons
  <2>3. QED  BY <2>1, <2>2
<1>4. Choosable(f, "calib") /\ Choosable(f, "challenge")
  BY <1>1, <1>2, <1>3, TheSalts DEF Choosable
<1>5. Distinct(D, <<"calib">>)  BY <1>1, TheSalts
<1>6. ASSUME f # << >>, D # {} PROVE Drawable(f)
  <2> DEFINE corpus == Imported(given.rows)
  <2>1. f = Frame(corpus, cs, near)  BY <1>6
  <2>2. \A id \in DOMAIN corpus : Mentioning(corpus[id])  BY ImportedMentions
  <2>3. DOMAIN f \subseteq DOMAIN corpus
    <3> HIDE DEF corpus
    <3>1. QED  BY <2>1, FrameWithin
  <2>4. \A u \in D : f[u].stratum = Stratum(corpus[u])  BY <2>1 DEF Frame
  <2> HIDE DEF corpus
  <2>5. \A u \in D : f[u].stratum \in Int
    <3> SUFFICES ASSUME NEW u \in D PROVE f[u].stratum \in Int  OBVIOUS
    <3>1. Mentioning(corpus[u])  BY <2>2, <2>3
    <3>2. Stratum(corpus[u]) \in Int  BY <3>1, StratumNumbered
    <3>3. QED  BY <2>4, <3>2
  <2>6. Distinct(D, <<"main">>)  BY <1>1, TheSalts
  <2>7. QED  BY <1>2, <1>6, <2>5, <2>6 DEF Drawable
<1>7. QED  BY <1>4, <1>5, <1>6

-----------------------------------------------------------------------------
(* The samples and what they were drawn from.                              *)

\* The samples are the draws of the code from the frame that is still there,
\* and the frame is that of the clusters that are still there.
SamplesDrawn ==
    /\ samples.representative = Representative(frame, RepresentativeTarget).units
    /\ samples.sizes = Representative(frame, RepresentativeTarget).sizes
    /\ samples.challenge = Challenge(frame, params.challenge)
    /\ samples.calibration = Calibration(frame, params.calibration)
    /\ samples.pairs = ReviewPairs(PairFrame(records, clusters, params.distance, params.cap),
                                   params.candidates, params.below)
FormalDrawn ==
    /\ samples.formal = Merged(samples.representative, samples.challenge)
    /\ samples.doubled = DoublyAnnotated(samples.formal, params.doubled)

Fields == {"representative", "sizes", "challenge", "calibration", "pairs", "formal", "doubled"}

DrawInv ==
    /\ DOMAIN samples = Fields
    /\ pc \in EarlyPhases => frame = << >>
    /\ pc \in EarlyPhases \cup {"sample"} => "representative" \notin files /\ "formal batch" \notin files
    /\ frame = << >> \/ frame = Frame(records, clusters, NearPairs(records, clusters, params.distance))
    /\ "formal batch" \in files => "representative" \in files
    /\ "representative" \in files => SamplesDrawn
    /\ "formal batch" \in files => FormalDrawn

LEMMA DrawInitial == PilotInit => DrawInv
<1> SUFFICES ASSUME PilotInit PROVE DrawInv  OBVIOUS
<1>1. DOMAIN samples = Fields  BY DEF PilotInit, NoSamples, Fields
<1>2. QED  BY <1>1 DEF PilotInit, DrawInv

LEMMA TargetKept ==
    ASSUME params' = params, frame' = frame
    PROVE  RepresentativeTarget' = RepresentativeTarget
BY DEF RepresentativeTarget, Underfilled, Operational, Required

\* The steps that draw nothing.
LEMMA DrawKept ==
    ASSUME DrawInv, inputs' = inputs, drawn' = drawn,
           "representative" \in files' => "representative" \in files,
           "formal batch" \in files' => "formal batch" \in files,
           "representative" \in files => "representative" \in files',
           pc' \in EarlyPhases => pc \in EarlyPhases, pc' = "sample" => pc = "sample"
    PROVE  DrawInv'
<1>1. rows' = rows /\ params' = params /\ records' = records /\ clusters' = clusters
      /\ frame' = frame /\ samples' = samples
  BY DEF inputs, drawn
<1>2. RepresentativeTarget' = RepresentativeTarget
  BY <1>1, TargetKept
<1>3. SamplesDrawn => SamplesDrawn'  BY <1>1, <1>2 DEF SamplesDrawn
<1>4. FormalDrawn => FormalDrawn'  BY <1>1 DEF FormalDrawn
<1>5. QED  BY <1>1, <1>3, <1>4 DEF DrawInv

LEMMA DrawStep == PilotInv /\ DrawInv /\ [PilotNext]_pilotVars => DrawInv'
<1> SUFFICES ASSUME PilotInv, DrawInv, [PilotNext]_pilotVars PROVE DrawInv'  OBVIOUS
<1>a. DOMAIN samples = Fields  BY DEF DrawInv
<1>1. CASE Import \/ Cluster
  <2>1. /\ frame' = frame /\ samples' = samples /\ pc \in EarlyPhases /\ pc' \in EarlyPhases
        /\ "representative" \in files' => "representative" \in files
        /\ "formal batch" \in files' => "formal batch" \in files
    BY <1>1 DEF Import, Cluster, EarlyPhases
  <2>2. frame = << >>  BY <2>1 DEF DrawInv
  <2>3. QED  BY <2>1, <2>2 DEF DrawInv
<1>2. CASE BuildFrame
  <2>1. /\ params' = params /\ records' = records /\ clusters' = clusters /\ samples' = samples
        /\ pc \in EarlyPhases /\ pc' = "sample"
        /\ "representative" \in files' => "representative" \in files
        /\ "formal batch" \in files' => "formal batch" \in files
        /\ frame' = Frame(records, clusters, NearPairs(records, clusters, params.distance))
    BY <1>2 DEF BuildFrame, EarlyPhases, inputs
  <2>2. pc' \notin EarlyPhases  BY <2>1 DEF EarlyPhases
  <2>3. QED  BY <2>1, <2>2 DEF DrawInv
<1>3. CASE Sample
  <2>1. /\ params' = params /\ records' = records /\ clusters' = clusters /\ frame' = frame
        /\ pc = "sample" /\ pc' = "sampled"
        /\ files' = files \cup {"plan", "representative", "challenge", "overlap", "pairs"}
    BY <1>3 DEF Sample, inputs
  <2>2. RepresentativeTarget' = RepresentativeTarget
    BY <2>1, TargetKept
  <2> DEFINE R == Representative(frame, RepresentativeTarget)
             units == R.units
             sizes == R.sizes
             challenge == Challenge(frame, params.challenge)
             calibration == Calibration(frame, params.calibration)
             pairs == ReviewPairs(PairFrame(records, clusters, params.distance, params.cap),
                                  params.candidates, params.below)
  <2>3. samples' = [samples EXCEPT !.representative = units, !.sizes = sizes,
              !.challenge = challenge, !.calibration = calibration, !.pairs = pairs]
    BY <1>3 DEF Sample
  <2>b. (Representative(frame, RepresentativeTarget).units)' = units
        /\ (Representative(frame, RepresentativeTarget).sizes)' = sizes
        /\ (Challenge(frame, params.challenge))' = challenge
        /\ (Calibration(frame, params.calibration))' = calibration
        /\ ReviewPairs(PairFrame(records, clusters, params.distance, params.cap),
                       params.candidates, params.below)' = pairs
    BY <2>1, <2>2
  <2> HIDE DEF units, sizes, challenge, calibration, pairs
  <2>4. /\ DOMAIN samples' = Fields
        /\ samples'.representative = units /\ samples'.sizes = sizes
        /\ samples'.challenge = challenge /\ samples'.calibration = calibration
        /\ samples'.pairs = pairs
    BY <1>a, <2>3 DEF Fields
  <2>5. SamplesDrawn'  BY <2>4, <2>b DEF SamplesDrawn
  <2>6. "formal batch" \notin files'  BY <2>1 DEF DrawInv
  <2>7. pc' \notin EarlyPhases \cup {"sample"}  BY <2>1 DEF EarlyPhases
  <2>8. QED  BY <2>1, <2>4, <2>5, <2>6, <2>7 DEF DrawInv
<1>4. CASE FormalBatch
  <2>1. /\ params' = params /\ records' = records /\ clusters' = clusters /\ frame' = frame
        /\ pc' = "formal" /\ files' = files \cup {"formal batch"}
    BY <1>4 DEF FormalBatch, inputs
  <2>2. RepresentativeTarget' = RepresentativeTarget
    BY <2>1, TargetKept
  <2> DEFINE units == Merged(samples.representative, samples.challenge)
             doubled == DoublyAnnotated(units, params.doubled)
  <2>3. samples' = [samples EXCEPT !.formal = units, !.doubled = doubled]
    BY <1>4 DEF FormalBatch
  <2> HIDE DEF units, doubled
  <2>4. /\ DOMAIN samples' = Fields
        /\ samples'.representative = samples.representative /\ samples'.sizes = samples.sizes
        /\ samples'.challenge = samples.challenge /\ samples'.calibration = samples.calibration
        /\ samples'.pairs = samples.pairs
        /\ samples'.formal = units /\ samples'.doubled = doubled
    BY <1>a, <2>3 DEF Fields
  <2>5. SamplesDrawn => SamplesDrawn'  BY <2>1, <2>2, <2>4 DEF SamplesDrawn
  <2>6. FormalDrawn'  BY <2>1, <2>4 DEF FormalDrawn, units, doubled
  <2>7. "representative" \in files
    BY <1>4 DEF FormalBatch, PilotInv, Held
  <2>8. pc' \notin EarlyPhases \cup {"sample"}  BY <2>1 DEF EarlyPhases
  <2>9. QED  BY <2>1, <2>4, <2>5, <2>6, <2>7, <2>8 DEF DrawInv
<1>6. ASSUME NEW STATE from, NEW to, NEW new, Write(from, to, new),
             to \notin EarlyPhases \cup {"sample"},
             "representative" \notin new, "formal batch" \notin new
      PROVE  DrawInv'
  BY <1>6, DrawKept DEF Write
<1>7. ASSUME NEW from, NEW to, NEW s, Emit(from, to, s),
             to \in EarlyPhases => from \in EarlyPhases, to # "sample"
      PROVE  DrawInv'
  BY <1>7, DrawKept DEF Emit
<1>8. ASSUME NEW from, NEW STATE status, NEW new, Decide(from, "done", status, new),
             "representative" \notin new, "formal batch" \notin new
      PROVE  DrawInv'
  BY <1>8, DrawKept DEF Decide, EarlyPhases
<1>9. CASE \/ MissingCorpus \/ MissingProvenance \/ Preflight \/ EmptyFrame \/ PlanReady
           \/ CalibrationReady \/ CalibrationReview \/ CalibrationIncomplete \/ ApprovalRequired
           \/ FormalReady \/ FormalIncomplete \/ AdjudicationRequired \/ AnalysisReady
           \/ ReviewRequired
  BY <1>7, <1>9 DEF MissingCorpus, MissingProvenance, Preflight, EmptyFrame, PlanReady,
        CalibrationReady, CalibrationReview, CalibrationIncomplete, ApprovalRequired,
        FormalReady, FormalIncomplete, AdjudicationRequired, AnalysisReady, ReviewRequired,
        EarlyPhases
<1>10. CASE \/ SummarizeMissingProvenance \/ Summarize \/ WriteCalibration \/ CalibrationLabels
            \/ CalibrationAdjudicated \/ DecideCalibration \/ FormalLabels \/ LoadAdjudicated
            \/ WriteBaselines \/ WriteMetrics \/ NoAnalysis \/ NoReview \/ Raise
  BY <1>6, <1>10 DEF SummarizeMissingProvenance, Summarize, WriteCalibration, CalibrationLabels,
        CalibrationAdjudicated, DecideCalibration, FormalLabels, LoadAdjudicated,
        WriteBaselines, WriteMetrics, NoAnalysis, NoReview, Raise, EarlyPhases
<1>11. CASE DecideMissingCorpus \/ DecideEmptyFrame \/ DecideUnapproved \/ Publish
  BY <1>8, <1>11 DEF DecideMissingCorpus, DecideEmptyFrame, DecideUnapproved, Publish
<1>12. CASE Reconcile
  BY <1>12, DrawKept DEF Reconcile, EarlyPhases
<1>13. CASE UNCHANGED pilotVars
  BY <1>13, DrawKept DEF pilotVars
<1>14. QED
  BY <1>1, <1>2, <1>3, <1>4, <1>9, <1>10, <1>11, <1>12, <1>13, Zenon DEF PilotNext

\* What is known of a run that has drawn its samples.
Sampled ==
    /\ SampleInv /\ ClusterInv /\ DrawInv /\ "representative" \in files

LEMMA SampledFacts ==
    ASSUME Sampled
    PROVE  /\ DOMAIN frame # {} /\ Drawable(frame)
           /\ Choosable(frame, "calib") /\ Choosable(frame, "challenge")
           /\ Distinct(DOMAIN frame, <<"calib">>) /\ Distinct(DOMAIN frame, <<"double">>)
           /\ DOMAIN records \subseteq Int /\ IsFiniteSet(DOMAIN records)
           /\ DOMAIN frame \subseteq Canonicals(clusters) /\ DOMAIN frame \subseteq CleanRights(records)
           /\ clusters = {} \/ clusters = ExactClusters(records)
<1>1. PICK given \in Given : rows = given.rows /\ params = given.params
  BY DEF Sampled, SampleInv
<1>2. DOMAIN frame # {} /\ DOMAIN frame \subseteq ArticleIds(rows)
  BY DEF Sampled, SampleInv
<1>3. frame = Frame(records, clusters, NearPairs(records, clusters, params.distance))
  <2>1. frame # << >>  BY <1>2
  <2>2. QED  BY <2>1 DEF Sampled, DrawInv
<1>4. DOMAIN frame = Canonicals(clusters) \cap Eligible(records, clusters)
      /\ DOMAIN frame \subseteq DOMAIN records
  BY <1>3, FrameWithin
<1>5. DOMAIN frame \subseteq Canonicals(clusters) /\ DOMAIN frame \subseteq CleanRights(records)
  BY <1>4 DEF Eligible
<1>6. records = Imported(rows)
  <2>1. records # << >>  BY <1>2, <1>4
  <2>2. QED  BY <2>1 DEF Sampled, ClusterInv
<1>7. DOMAIN records \subseteq Int /\ IsFiniteSet(DOMAIN records)  BY <1>1, <1>6, ImportedIds
<1>8. clusters = {} \/ clusters = ExactClusters(records)  BY DEF Sampled, ClusterInv
<1>9. /\ frame = << >> \/ DOMAIN frame = {} \/ Drawable(frame)
      /\ Choosable(frame, "calib") /\ Choosable(frame, "challenge")
      /\ Distinct(DOMAIN frame, <<"calib">>)
  <2> DEFINE f == frame
             near == NearPairs(records, clusters, params.distance)
             cs == clusters
  <2>1. f = Frame(Imported(given.rows), cs, near) /\ DOMAIN f \subseteq ArticleIds(given.rows)
    BY <1>1, <1>2, <1>3, <1>6
  <2> HIDE DEF f, near, cs
  <2>2. /\ f = << >> \/ DOMAIN f = {} \/ Drawable(f)
        /\ Choosable(f, "calib") /\ Choosable(f, "challenge")
        /\ Distinct(DOMAIN f, <<"calib">>)
    BY <2>1, FrameSampled
  <2>3. QED  BY <2>2 DEF f
<1>10. Distinct(DOMAIN frame, <<"double">>)
  <2> DEFINE D == DOMAIN frame
             salt == <<"double">>
  <2>1. D \in SUBSET ArticleIds(given.rows)  BY <1>1, <1>2
  <2>2. salt \in Salts  BY TheSalts
  <2> HIDE DEF D, salt
  <2>3. Distinct(D, salt)  BY <2>1, <2>2, ArticlesRanked
  <2>4. QED  BY <2>3 DEF D, salt
<1>11. Drawable(frame)
  <2>1. frame # << >>  BY <1>2
  <2>2. QED  BY <1>2, <1>9, <2>1
<1>12. QED  BY <1>2, <1>5, <1>7, <1>8, <1>9, <1>10, <1>11

\* The targets of the samples are numbers of units.
LEMMA TargetsFacts ==
    ASSUME Sampled
    PROVE  /\ RepresentativeTarget \in Nat
           /\ params.challenge \in Nat /\ params.calibration \in Nat /\ params.doubled \in Nat
<1> DEFINE n == Cardinality(DOMAIN frame)
<1>1. PICK given \in Given : rows = given.rows /\ params = given.params
  BY DEF Sampled, SampleInv
<1>2. Scenarios /\ params.scenarios # {} /\ params.multiple \in Nat \ {0}
  BY <1>1, PilotAssumption DEF Scenarios, Scenario
<1>3. /\ params.override \in (Nat \ {0}) \cup {Absent}
      /\ params.challenge \in Nat /\ params.calibration \in Nat /\ params.doubled \in Nat
  BY <1>1, PilotAssumption
<1>4. n \in Nat \ {0}
  <2>1. DOMAIN frame # {} /\ IsFiniteSet(DOMAIN frame)  BY SampledFacts DEF Drawable
  <2>2. QED  BY <2>1, FS_CardinalityType, FS_EmptySet
<1>5. CASE params.override # Absent
  <2>1. RepresentativeTarget = params.override  BY <1>5 DEF RepresentativeTarget
  <2>2. QED  BY <1>3, <1>5, <2>1
<1>6. CASE params.override = Absent
  <2>1. RepresentativeTarget = n \/ RepresentativeTarget = Operational(n)
    BY <1>6 DEF RepresentativeTarget
  <2> HIDE DEF n
  <2>2. Required(n) \in Nat  BY <1>2, <1>4, RequiredFacts
  <2>a. Operational(n) \in Int /\ (Operational(n) >= Required(n) \/ Operational(n) = n)
    BY <1>2, <1>4, OperationalFacts
  <2>b. n \in Nat  BY <1>4
  <2>c. Operational(n) \in Nat  BY <2>2, <2>a, <2>b
  <2>3. RepresentativeTarget \in Nat  BY <2>1, <2>b, <2>c
  <2>4. QED  BY <1>3, <2>3
<1>7. QED  BY <1>5, <1>6

LEMMA SamplesFollow == SampleInv /\ ClusterInv /\ DrawInv => SamplesSound
<1> SUFFICES ASSUME Sampled PROVE SamplesSound  BY DEF SamplesSound, Sampled
<1> DEFINE target == RepresentativeTarget
           D == DOMAIN frame
<1>0. SamplesDrawn /\ ("formal batch" \in files => FormalDrawn)  BY DEF Sampled, DrawInv
<1>1. /\ D # {} /\ Drawable(frame)
      /\ Choosable(frame, "calib") /\ Choosable(frame, "challenge")
      /\ Distinct(D, <<"calib">>) /\ Distinct(D, <<"double">>)
      /\ DOMAIN records \subseteq Int /\ IsFiniteSet(DOMAIN records)
      /\ D \subseteq Canonicals(clusters) /\ D \subseteq CleanRights(records)
      /\ clusters = {} \/ clusters = ExactClusters(records)
  BY SampledFacts
<1>2. /\ target \in Nat
      /\ params.challenge \in Nat /\ params.calibration \in Nat /\ params.doubled \in Nat
  BY TargetsFacts
<1>3. /\ samples.representative \subseteq D
      /\ Cardinality(samples.representative) = AtMost(target, Cardinality(D))
      /\ \A h \in DOMAIN samples.sizes :
            samples.sizes[h] = Cardinality(samples.representative \cap InStratum(frame, h))
      /\ target >= Cardinality(Strata(frame)) =>
            \A h \in Strata(frame) : samples.representative \cap InStratum(frame, h) # {}
  <2> DEFINE R == Representative(frame, target)
             f == frame
  <2>1. samples.representative = R.units /\ samples.sizes = R.sizes  BY <1>0 DEF SamplesDrawn
  <2>2. R = Representative(f, target) /\ (f = << >> \/ Drawable(f)) /\ target \in Nat
    BY <1>1, <1>2
  <2> HIDE DEF R, target, f
  <2>3. /\ R.units \subseteq DOMAIN f
        /\ Cardinality(R.units) = AtMost(target, Cardinality(DOMAIN f))
        /\ \A h \in DOMAIN R.sizes : R.sizes[h] = Cardinality(R.units \cap InStratum(f, h))
        /\ target >= Cardinality(Strata(f)) =>
              \A h \in Strata(f) : R.units \cap InStratum(f, h) # {}
    BY <2>2, RepresentativeSound
  <2>4. QED  BY <2>1, <2>3 DEF f
<1>4. /\ samples.challenge \subseteq D
      /\ Cardinality(samples.challenge) = AtMost(params.challenge, Cardinality(D))
      /\ params.challenge >= Cardinality(AllReasons(frame)) => Covers(frame, samples.challenge)
  <2> DEFINE R == samples.challenge
             f == frame
             use == "challenge"
             t == params.challenge
  <2>1. R = RoundRobin(f, t, use) /\ Choosable(f, use) /\ t \in Nat
    BY <1>0, <1>1, <1>2 DEF SamplesDrawn, Challenge
  <2> HIDE DEF R, f, use, t
  <2>2. /\ R \in SUBSET DOMAIN f
        /\ Cardinality(R) = AtMost(t, Cardinality(DOMAIN f))
        /\ Cardinality(R) <= t
        /\ t >= Cardinality(AllReasons(f)) => Covers(f, R)
    BY <2>1, RoundRobinSound
  <2>3. QED  BY <2>2 DEF R, f, t
<1>5. /\ samples.calibration \subseteq D
      /\ Cardinality(samples.calibration) = AtMost(params.calibration, Cardinality(D))
  <2> DEFINE C == samples.calibration
             f == frame
             t == params.calibration
  <2>1. /\ C = Calibration(f, t) /\ Choosable(f, "calib") /\ t \in Nat
        /\ Distinct(DOMAIN f, <<"calib">>)
    BY <1>0, <1>1, <1>2 DEF SamplesDrawn
  <2> HIDE DEF C, f, t
  <2>2. C \subseteq DOMAIN f /\ Cardinality(C) = AtMost(t, Cardinality(DOMAIN f))
    BY <2>1, CalibrationSound
  <2>3. QED  BY <2>2 DEF C, f, t
<1>6. ASSUME NEW u \in samples.representative \cup samples.challenge \cup samples.calibration
      PROVE  u \in CleanRights(records) /\ u = Canonical(ClusterOf(clusters, u))
  <2>1. u \in D  BY <1>3, <1>4, <1>5
  <2>2. u \in Canonicals(clusters) /\ u \in CleanRights(records)  BY <1>1, <2>1
  <2>3. clusters = ExactClusters(records)  BY <1>1, <2>2 DEF Canonicals
  <2>4. u = Canonical(ClusterOf(clusters, u))
    <3> DEFINE cs == clusters
               corpus == records
    <3>1. /\ DOMAIN corpus \subseteq Int /\ IsFiniteSet(DOMAIN corpus)
          /\ cs = ExactClusters(corpus) /\ u \in Canonicals(cs)
      BY <1>1, <2>2, <2>3
    <3> HIDE DEF cs, corpus
    <3>2. u = Canonical(ClusterOf(cs, u))  BY <3>1, CanonicalFacts
    <3>3. QED  BY <3>2 DEF cs
  <2>5. QED  BY <2>2, <2>4
<1>7. ASSUME NEW pair \in samples.pairs
      PROVE  ~Evidence(pair[1], pair[2])
  <2> DEFINE cs == clusters
             corpus == records
             distance == params.distance
             a == pair[1]
             b == pair[2]
  <2>1. pair \in ReviewPairs(PairFrame(corpus, cs, distance, params.cap), params.candidates, params.below)
    BY <1>0 DEF SamplesDrawn
  <2>2. pair \in Canonicals(cs) \X Canonicals(cs) /\ Comparable(corpus, cs, distance, a, b)
    <3> HIDE DEF cs, corpus, distance
    <3>1. QED  BY <2>1, ReviewedPairs
  <2>3. a \in Canonicals(cs) /\ b \in Canonicals(cs)  BY <2>2
  <2>4. /\ cs = ExactClusters(corpus)
        /\ DOMAIN corpus \subseteq Int /\ IsFiniteSet(DOMAIN corpus)
    BY <1>1, <2>3 DEF Canonicals
  <2> HIDE DEF cs, corpus, distance, a, b
  <2>5. a \in DOMAIN corpus /\ b \in DOMAIN corpus /\ <<a, b>> \notin EvidentPairs(corpus)
    BY <2>2, <2>3, <2>4, ComparableApart
  <2>6. ~Evidence(a, b)  BY <2>5, EvidentFacts DEF Evidence, corpus
  <2>7. QED  BY <2>6 DEF a, b
<1>8. ASSUME "formal batch" \in files
      PROVE  /\ DOMAIN samples.formal = samples.representative \cup samples.challenge
             /\ Cardinality(samples.doubled) = AtMost(params.doubled, Cardinality(DOMAIN samples.formal))
  <2> DEFINE units == samples.formal
             t == params.doubled
             B == samples.doubled
  <2>1. DOMAIN units = samples.representative \cup samples.challenge
    BY <1>0, <1>8 DEF FormalDrawn, Merged
  <2>2. B = DoublyAnnotated(units, t) /\ t \in Nat  BY <1>0, <1>2, <1>8 DEF FormalDrawn
  <2>3. DOMAIN units \in SUBSET D  BY <1>3, <1>4, <2>1
  <2> HIDE DEF units, t, B, D
  <2>4. Distinct(DOMAIN units, <<"double">>)
    <3> DEFINE salt == <<"double">>
               part == DOMAIN units
    <3>1. Distinct(D, salt) /\ part \in SUBSET D  BY <1>1, <2>3
    <3> HIDE DEF salt, part
    <3>2. Distinct(part, salt)  BY <3>1, PartDistinct
    <3>3. QED  BY <3>2 DEF salt, part
  <2>5. Cardinality(B) = AtMost(t, Cardinality(DOMAIN units))  BY <2>2, <2>4, DoublyAnnotatedSound
  <2>6. QED  BY <2>1, <2>5 DEF units, t, B
<1>9. params.challenge >= Cardinality(UNION {ReasonsOf(frame, u) : u \in DOMAIN frame}) =>
          \A r \in UNION {ReasonsOf(frame, u) : u \in DOMAIN frame} :
              \E u \in samples.challenge : r \in ReasonsOf(frame, u)
  BY <1>4 DEF AllReasons, Covers
<1>10. QED
  BY <1>3, <1>4, <1>5, <1>6, <1>7, <1>8, <1>9 DEF SamplesSound, Size, Target, D, target

\* For any corpus and targets, as long as ranks differ: the samples are as
\* large as asked for or as what there is, whatever strata, reasons and roles
\* overlap, the bookkeeping of the weights is right, and every unit is the
\* usable canonical article of a cluster of its own.
THEOREM SamplesSoundHolds == PilotSpec => []SamplesSound
<1>1. PilotInit => PilotInv /\ SampleInv /\ ClusterInv /\ DrawInv
  BY PilotInitial, SampleInitial, ClusterInitial, DrawInitial
<1>2. PilotInv /\ SampleInv /\ ClusterInv /\ DrawInv /\ [PilotNext]_pilotVars
         => (PilotInv /\ SampleInv /\ ClusterInv /\ DrawInv)'
  BY PilotStep, SampleStep, ClusterStep, DrawStep
<1>3. QED  BY <1>1, <1>2, SamplesFollow, PTL DEF PilotSpec

-----------------------------------------------------------------------------
(* The sample of the benchmark.                                            *)

\* Units of which no entity has more than its cap.
Holding(corpus, S, e) == {u \in S : e \in EntitiesOf(corpus[u])}
Capped(corpus, S, cap) == \A e : Cardinality(Holding(corpus, S, e)) <= cap
Selections(corpus, U, cap) == {S \in SUBSET U : Capped(corpus, S, cap)}

LEMMA OneMoreCounted ==
    ASSUME NEW H, IsFiniteSet(H), NEW u
    PROVE  Cardinality(H \cup {u}) <= Cardinality(H) + 1 /\ Cardinality(H \cup {u}) \in Nat
<1>1. Cardinality(H) \in Nat  BY FS_CardinalityType
<1>2. CASE u \in H
  <2>1. H \cup {u} = H  BY <1>2
  <2>2. QED  BY <1>1, <2>1
<1>3. CASE u \notin H
  <2>1. Cardinality(H \cup {u}) = Cardinality(H) + 1  BY <1>3, FS_AddElement
  <2>2. QED  BY <1>1, <2>1
<1>4. QED  BY <1>2, <1>3

LEMMA OneMoreUnit ==
    ASSUME NEW corpus, NEW U, IsFiniteSet(U), NEW cap \in Nat, NEW S \in Selections(corpus, U, cap),
           NEW u \in U, ~Blocked(corpus, S, u, cap)
    PROVE  S \cup {u} \in Selections(corpus, U, cap)
<1>1. S \in SUBSET U /\ Capped(corpus, S, cap)  BY DEF Selections
<1>2. IsFiniteSet(S)  BY <1>1, FS_Subset
<1> DEFINE T == S \cup {u}
<1>3. ASSUME NEW e PROVE Cardinality(Holding(corpus, T, e)) <= cap
  <2> DEFINE H == Holding(corpus, S, e)
  <2>1. IsFiniteSet(H)  BY <1>2, FS_Subset DEF Holding
  <2>2. Cardinality(H) \in Nat /\ Cardinality(H) <= cap  BY <1>1, <2>1, FS_CardinalityType DEF Capped
  <2>3. CASE e \in EntitiesOf(corpus[u])
    <3>1. ~(Cardinality(H) >= cap)  BY <2>3 DEF Blocked, Holding
    <3>2. Holding(corpus, T, e) = H \cup {u}  BY <2>3 DEF Holding
    <3> HIDE DEF H
    <3>3. Cardinality(H \cup {u}) <= Cardinality(H) + 1 /\ Cardinality(H \cup {u}) \in Nat
      BY <2>1, OneMoreCounted
    <3>4. QED  BY <2>2, <3>1, <3>2, <3>3
  <2>4. CASE e \notin EntitiesOf(corpus[u])
    <3>1. Holding(corpus, T, e) = H  BY <2>4 DEF Holding
    <3>2. QED  BY <2>2, <3>1
  <2>5. QED  BY <2>3, <2>4
<1>4. T \in SUBSET U  BY <1>1
<1>5. QED  BY <1>3, <1>4 DEF Selections, Capped

\* Neither pass takes a unit of an entity that has as many as it may.
LEMMA WithFirstFacts ==
    ASSUME NEW corpus, NEW U, Distinct(U, <<"main">>), NEW cap \in Nat,
           NEW S \in Selections(corpus, U, cap), NEW pool \in SUBSET U
    PROVE  WithFirst(corpus, S, pool, cap) \in Selections(corpus, U, cap)
<1> DEFINE open == Open(corpus, S, pool, cap)
           salt == <<"main">>
           L == LowestRanked(open, 1, salt)
<1>1. open \subseteq U /\ \A u \in open : ~Blocked(corpus, S, u, cap)  BY DEF Open
<1>2. WithFirst(corpus, S, pool, cap) = S \cup L  BY DEF WithFirst
<1>3. Distinct(U, salt) /\ IsFiniteSet(U)  BY DEF Distinct, Ranked
<1> HIDE DEF open, salt
<1>4. Distinct(open, salt)  BY <1>1, <1>3, PartDistinct
<1>5. IsFiniteSet(open)  BY <1>4 DEF Distinct, Ranked
<1>6. Cardinality(open) \in Nat  BY <1>5, FS_CardinalityType
<1>7. /\ L \subseteq open
      /\ 1 <= Cardinality(open) => Cardinality(L) = 1
      /\ 1 >= Cardinality(open) => L = open
  <2>1. 1 \in Int /\ 0 <= 1  OBVIOUS
  <2>2. QED  BY <1>4, <2>1, LowestRankedExact
<1> HIDE DEF L
<1>8. CASE open = {}
  <2>1. S \cup L = S  BY <1>7, <1>8
  <2>2. QED  BY <1>2, <2>1
<1>9. CASE open # {}
  <2>1. Cardinality(open) # 0  BY <1>5, <1>9, FS_EmptySet
  <2>2. Cardinality(L) = 1  BY <1>6, <1>7, <2>1
  <2>3. IsFiniteSet(L)  BY <1>5, <1>7, FS_Subset
  <2>4. PICK u : L = {u}  BY <2>2, <2>3, FS_Singleton
  <2>5. u \in U /\ ~Blocked(corpus, S, u, cap)  BY <1>1, <1>7, <2>4
  <2>6. S \cup {u} \in Selections(corpus, U, cap)  BY <1>3, <2>5, OneMoreUnit
  <2>7. QED  BY <1>2, <2>4, <2>6
<1>10. QED  BY <1>8, <1>9

LEMMA WithUnitFacts ==
    ASSUME NEW corpus, NEW U, IsFiniteSet(U), NEW cap \in Nat,
           NEW S \in Selections(corpus, U, cap), NEW u \in U, NEW size
    PROVE  WithUnit(corpus, S, u, size, cap) \in Selections(corpus, U, cap)
<1> DEFINE open == Open(corpus, S, {u}, cap)
<1>1. WithUnit(corpus, S, u, size, cap) \in {S, S \cup open}  BY DEF WithUnit
<1>2. CASE open = {}  BY <1>1, <1>2
<1>3. CASE open # {}
  <2>1. open = {u} /\ ~Blocked(corpus, S, u, cap)  BY <1>3 DEF Open
  <2>2. S \cup {u} \in Selections(corpus, U, cap)  BY <2>1, OneMoreUnit
  <2>3. QED  BY <1>1, <2>1, <2>2
<1>4. QED  BY <1>2, <1>3

\* The folds of the two passes.
OneCategory(corpus, cs, near, cap, g, T) ==
    IF T = {} THEN {}
    ELSE WithFirst(corpus, g[T \ {Max(T)}], UnitsOf(corpus, cs, near, Categories[Max(T)]), cap)
Passing(corpus, cs, near, cap, g) ==
    g = [T \in SUBSET (DOMAIN Categories) |-> OneCategory(corpus, cs, near, cap, g, T)]

LEMMA FirstPassSelects ==
    ASSUME NEW corpus, NEW cs, NEW near, NEW cap \in Nat, Distinct(Canonicals(cs), <<"main">>)
    PROVE  FirstPass(corpus, cs, near, cap) \in Selections(corpus, Canonicals(cs), cap)
<1> DEFINE U == Canonicals(cs)
           V == Selections(corpus, U, cap)
           next(s, i) == WithFirst(corpus, s, UnitsOf(corpus, cs, near, Categories[i]), cap)
           step == [p \in V \X (1..9) |-> next(p[1], p[2])]
           iter == CHOOSE g : Passing(corpus, cs, near, cap, g)
<1>1. FirstPass(corpus, cs, near, cap) = iter[DOMAIN Categories]
  BY DEF FirstPass, FoldLeft, MapThenFoldSet, Passing, OneCategory
<1>2. DOMAIN Categories = 1..9  BY DEF Categories
<1>3. ASSUME NEW s \in V, NEW i \in 1..9 PROVE next(s, i) \in V /\ step[<<s, i>>] = next(s, i)
  <2>1. UnitsOf(corpus, cs, near, Categories[i]) \in SUBSET U  BY DEF UnitsOf
  <2>2. Distinct(U, <<"main">>)  OBVIOUS
  <2> HIDE DEF U
  <2>3. next(s, i) \in V  BY <2>1, <2>2, WithFirstFacts
  <2>4. QED  BY <2>3
<1>4. {} \in V
  <2>1. \A e : Holding(corpus, {}, e) = {}  BY DEF Holding
  <2>2. Cardinality({}) = 0  BY FS_EmptySet
  <2>3. QED  BY <2>1, <2>2 DEF Selections, Capped
<1> HIDE DEF V, next
<1>5. StepsIn(V, 9, step)
  <2>1. \A p \in V \X (1..9) : next(p[1], p[2]) \in V  BY <1>3
  <2>2. QED  BY <2>1 DEF StepsIn
<1> DEFINE none == {}
<1>6. PICK g : FoldOf(g, 9, V, none, step)
  <2>1. 9 \in Nat /\ none \in V  BY <1>4
  <2> HIDE DEF step, none
  <2>2. QED  BY <1>5, <2>1, FoldingExists
<1>7. /\ g \in [SUBSET (1..9) -> V]
      /\ \A T \in SUBSET (1..9) : g[T] = OneFold(none, step, g, T)
  BY <1>6 DEF FoldOf
<1>a. \A h, T : OneCategory(corpus, cs, near, cap, h, T)
                  = IF T = {} THEN none ELSE next(h[T \ {Max(T)}], Max(T))
  BY DEF OneCategory, next
<1> HIDE DEF step, none, U
<1>8. \A T \in SUBSET (1..9) : g[T] = OneCategory(corpus, cs, near, cap, g, T)
  <2> SUFFICES ASSUME NEW T \in SUBSET (1..9)
               PROVE  g[T] = OneCategory(corpus, cs, near, cap, g, T)
    OBVIOUS
  <2>1. CASE T = {}  BY <1>7, <1>a, <2>1 DEF OneFold
  <2>2. CASE T # {}
    <3>1. Max(T) \in 1..9 /\ T \ {Max(T)} \in SUBSET (1..9)
      <4> DEFINE n == 9
      <4>1. n \in Nat /\ T \in SUBSET (1..n)  OBVIOUS
      <4> HIDE DEF n
      <4>2. Max(T) \in T /\ Max(T) \in 1..n  BY <2>2, <4>1, LastOfInterval
      <4>3. QED  BY <4>1, <4>2 DEF n
    <3>2. g[T \ {Max(T)}] \in V  BY <1>7, <3>1
    <3>3. g[T] = step[<<g[T \ {Max(T)}], Max(T)>>]  BY <1>7, <2>2 DEF OneFold
    <3>4. g[T] = next(g[T \ {Max(T)}], Max(T))  BY <1>3, <3>1, <3>2, <3>3
    <3>5. QED  BY <1>a, <2>2, <3>4
  <2>3. QED  BY <2>1, <2>2
<1>9. Passing(corpus, cs, near, cap, g)
  <2>1. g = [T \in SUBSET (1..9) |-> g[T]]  BY <1>7
  <2>2. g = [T \in SUBSET (1..9) |-> OneCategory(corpus, cs, near, cap, g, T)]  BY <1>8, <2>1
  <2>3. QED  BY <1>2, <2>2 DEF Passing
<1>10. Passing(corpus, cs, near, cap, iter)  BY <1>9, Zenon
<1> HIDE DEF iter
<1>11. \A T \in SUBSET (1..9) : iter[T] = OneCategory(corpus, cs, near, cap, iter, T)
  BY <1>2, <1>10 DEF Passing
<1>12. iter[{}] = none  BY <1>11, <1>a
<1>13. ASSUME NEW i \in 1..9, iter[1..(i - 1)] \in V
       PROVE  iter[1..i] = step[<<iter[1..(i - 1)], i>>]
  <2>1. 1..i # {} /\ Max(1..i) = i /\ (1..i) \ {i} = 1..(i - 1)  BY LastOfInterval
  <2>2. 1..i \in SUBSET (1..9)  OBVIOUS
  <2>3. iter[1..i] = next(iter[1..(i - 1)], i)  BY <1>11, <1>a, <2>1, <2>2
  <2>4. QED  BY <1>3, <1>13, <2>3
<1>14. PICK c : Chain(c, 9, V, none, step) /\ c[9] = iter[1..9]
  <2>1. Iterates(iter, 9, V, none, step)  BY <1>12, <1>13 DEF Iterates
  <2> DEFINE n == 9
  <2>2. n \in Nat /\ none \in V /\ StepsIn(V, n, step) /\ Iterates(iter, n, V, none, step)
    BY <1>4, <1>5, <2>1 DEF none
  <2> HIDE DEF n
  <2>3. \E c : Chain(c, n, V, none, step) /\ c[n] = iter[1..n]  BY <2>2, FoldChain
  <2>4. QED  BY <2>3 DEF n
<1>15. c[9] \in V  BY <1>14 DEF Chain
<1>16. QED  BY <1>1, <1>2, <1>14, <1>15 DEF V, U

\* The units in the order of their ranks.
LEMMA ByRankFacts ==
    ASSUME NEW U, Distinct(U, <<"main">>)
    PROVE  ByRank(U) \in [1..Cardinality(U) -> U] /\ Cardinality(U) \in Nat
<1> DEFINE before == {p \in U \X U : Rank(<<"main">>, p[1]) < Rank(<<"main">>, p[2])}
<1>1. IsFiniteSet(U) /\ Cardinality(U) \in Nat  BY FS_CardinalityType DEF Distinct, Ranked
<1>2. Orders(U, before)  BY DEF Orders, Distinct, Ranked
<1>3. \A x, y \in U : <<x, y>> \in before => Rank(<<"main">>, x) < Rank(<<"main">>, y)  OBVIOUS
<1> HIDE DEF before
<1> DEFINE s == Ascending(U, before)
<1>4. Enumerates(s, U, before)  BY <1>1, <1>2, Enumeration
<1> HIDE DEF s
<1>5. s \in [1..Cardinality(U) -> U]  BY <1>4 DEF Enumerates
<1>6. \A i, j \in 1..Cardinality(U) : i < j => Rank(<<"main">>, s[i]) < Rank(<<"main">>, s[j])
  BY <1>3, <1>4, <1>5 DEF Enumerates
<1>7. \E t \in [1..Cardinality(U) -> U] :
        \A i, j \in 1..Cardinality(U) : i < j => Rank(<<"main">>, t[i]) < Rank(<<"main">>, t[j])
  BY <1>5, <1>6
<1>8. ByRank(U) \in [1..Cardinality(U) -> U]  BY <1>7, Zenon DEF ByRank
<1>9. QED  BY <1>1, <1>8

OneUnit(corpus, size, cap, start, s, g, T) ==
    IF T = {} THEN start ELSE WithUnit(corpus, g[T \ {Max(T)}], s[Max(T)], size, cap)
Filling(corpus, size, cap, start, s, g) ==
    g = [T \in SUBSET (DOMAIN s) |-> OneUnit(corpus, size, cap, start, s, g, T)]

\* Both passes keep to the caps.
LEMMA SampleSelects ==
    ASSUME NEW corpus, NEW cs, NEW near, NEW size, NEW cap \in Nat,
           Distinct(Canonicals(cs), <<"main">>)
    PROVE  BenchmarkSample(corpus, cs, near, size, cap) \in Selections(corpus, Canonicals(cs), cap)
<1> DEFINE U == Canonicals(cs)
           V == Selections(corpus, U, cap)
           n == Cardinality(U)
           s == ByRank(U)
           start == FirstPass(corpus, cs, near, cap)
           next(S, i) == WithUnit(corpus, S, s[i], size, cap)
           step == [p \in V \X (1..n) |-> next(p[1], p[2])]
           iter == CHOOSE g : Filling(corpus, size, cap, start, s, g)
<1>1. BenchmarkSample(corpus, cs, near, size, cap) = iter[DOMAIN s]
  BY DEF BenchmarkSample, FoldLeft, MapThenFoldSet, Filling, OneUnit
<1>2. s \in [1..n -> U] /\ n \in Nat /\ IsFiniteSet(U)  BY ByRankFacts DEF Distinct, Ranked
<1>b. DOMAIN s = 1..n  BY <1>2
<1>4. start \in V  BY FirstPassSelects
<1> HIDE DEF U, n, s
<1>3. ASSUME NEW S \in V, NEW i \in 1..n PROVE next(S, i) \in V /\ step[<<S, i>>] = next(S, i)
  <2>1. s[i] \in U  BY <1>2
  <2>2. next(S, i) \in V  BY <1>2, <2>1, WithUnitFacts
  <2>3. QED  BY <2>2
<1> HIDE DEF V, next
<1>5. StepsIn(V, n, step)
  <2>1. \A p \in V \X (1..n) : next(p[1], p[2]) \in V  BY <1>3
  <2>2. QED  BY <2>1 DEF StepsIn
<1>a. \A h, T : OneUnit(corpus, size, cap, start, s, h, T)
                  = IF T = {} THEN start ELSE next(h[T \ {Max(T)}], Max(T))
  BY DEF OneUnit, next
<1> HIDE DEF step, start
<1>6. PICK g : FoldOf(g, n, V, start, step)  BY <1>2, <1>4, <1>5, FoldingExists
<1>7. /\ g \in [SUBSET (1..n) -> V]
      /\ \A T \in SUBSET (1..n) : g[T] = OneFold(start, step, g, T)
  BY <1>6 DEF FoldOf
<1>8. \A T \in SUBSET (1..n) : g[T] = OneUnit(corpus, size, cap, start, s, g, T)
  <2> SUFFICES ASSUME NEW T \in SUBSET (1..n)
               PROVE  g[T] = OneUnit(corpus, size, cap, start, s, g, T)
    OBVIOUS
  <2>1. CASE T = {}  BY <1>7, <1>a, <2>1 DEF OneFold
  <2>2. CASE T # {}
    <3>1. Max(T) \in 1..n /\ T \ {Max(T)} \in SUBSET (1..n)
      <4>1. Max(T) \in T /\ Max(T) \in 1..n  BY <1>2, <2>2, LastOfInterval
      <4>2. QED  BY <4>1
    <3>2. g[T \ {Max(T)}] \in V  BY <1>7, <3>1
    <3>3. g[T] = step[<<g[T \ {Max(T)}], Max(T)>>]  BY <1>7, <2>2 DEF OneFold
    <3>4. g[T] = next(g[T \ {Max(T)}], Max(T))  BY <1>3, <3>1, <3>2, <3>3
    <3>5. QED  BY <1>a, <2>2, <3>4
  <2>3. QED  BY <2>1, <2>2
<1>9. Filling(corpus, size, cap, start, s, g)
  <2>1. g = [T \in SUBSET (1..n) |-> g[T]]  BY <1>7
  <2>2. g = [T \in SUBSET (1..n) |-> OneUnit(corpus, size, cap, start, s, g, T)]  BY <1>8, <2>1
  <2>3. QED  BY <1>b, <2>2 DEF Filling
<1>10. Filling(corpus, size, cap, start, s, iter)  BY <1>9, Zenon
<1> HIDE DEF iter
<1>11. \A T \in SUBSET (1..n) : iter[T] = OneUnit(corpus, size, cap, start, s, iter, T)
  BY <1>b, <1>10 DEF Filling
<1>12. iter[{}] = start  BY <1>11, <1>a
<1>13. ASSUME NEW i \in 1..n, iter[1..(i - 1)] \in V
       PROVE  iter[1..i] = step[<<iter[1..(i - 1)], i>>]
  <2>1. 1..i # {} /\ Max(1..i) = i /\ (1..i) \ {i} = 1..(i - 1)  BY LastOfInterval
  <2>2. 1..i \in SUBSET (1..n)  BY <1>2
  <2>3. iter[1..i] = next(iter[1..(i - 1)], i)  BY <1>11, <1>a, <2>1, <2>2
  <2>4. QED  BY <1>3, <1>13, <2>3
<1>14. Iterates(iter, n, V, start, step)  BY <1>12, <1>13 DEF Iterates
<1>15. PICK c : Chain(c, n, V, start, step) /\ c[n] = iter[1..n]
  BY <1>2, <1>4, <1>5, <1>14, FoldChain
<1>16. c[n] \in V  BY <1>2, <1>15 DEF Chain
<1>17. QED  BY <1>1, <1>b, <1>15, <1>16 DEF V, U

-----------------------------------------------------------------------------
(* The periods of the benchmark.                                           *)

LEMMA ClusterDayFacts ==
    ASSUME NEW corpus, NEW cluster, IsFiniteSet(cluster),
           \A id \in cluster : corpus[id].published \in Int \cup {Absent}
    PROVE  ClusterDay(corpus, cluster) \in Int \cup {Absent}
<1> DEFINE all == {corpus[id].published : id \in cluster}
           days == all \ {Absent}
<1>1. days \subseteq Int  OBVIOUS
<1>2. IsFiniteSet(days)
  <2> DEFINE f == [id \in cluster |-> corpus[id].published]
  <2>1. f \in Surjection(cluster, all)  BY DEF Surjection
  <2> HIDE DEF f, all
  <2>2. IsFiniteSet(all)  BY <2>1, FS_Surjection
  <2>3. QED  BY <2>2, FS_Subset
<1>3. ClusterDay(corpus, cluster) = IF days = {} THEN Absent ELSE Min(days)  BY DEF ClusterDay
<1> HIDE DEF days
<1>4. days # {} => Min(days) \in Int  BY <1>1, <1>2, Extremes
<1>5. QED  BY <1>3, <1>4

LEMMA SplitFacts ==
    ASSUME NEW day \in Int \cup {Absent}, NEW setting, setting.development \in Int,
           setting.validation \in Int, setting.holdout \in Int, setting.embargo \in Nat
    PROVE  /\ SplitOf(day, setting) = "development" =>
                day \in Int /\ day <= setting.development
           /\ SplitOf(day, setting) = "validation" =>
                /\ day \in Int /\ day <= setting.validation
                /\ day - setting.development > setting.embargo
           /\ SplitOf(day, setting) = "holdout" =>
                day \in Int /\ day - setting.validation > setting.embargo
<1>1. CASE day = Absent  BY <1>1 DEF SplitOf, Undated
<1>2. CASE day # Absent
  <2>1. day \in Int  BY <1>2
  <2>2. CASE day <= setting.development  BY <1>2, <2>1, <2>2 DEF SplitOf
  <2>3. CASE ~(day <= setting.development)
    <3> DEFINE opens == setting.development + setting.embargo + 1
               reopens == setting.validation + setting.embargo + 1
    <3>1. SplitOf(day, setting) =
            IF day \in opens..setting.validation THEN "validation"
            ELSE IF day \in reopens..setting.holdout THEN "holdout"
            ELSE IF day < opens THEN "embargo_dev_val"
            ELSE IF day > setting.validation /\ day < reopens THEN "embargo_val_holdout"
            ELSE "out_of_range"
      BY <1>2, <2>3 DEF SplitOf
    <3>2. CASE day \in opens..setting.validation
      <4>1. SplitOf(day, setting) = "validation"  BY <3>1, <3>2
      <4>2. day <= setting.validation /\ day - setting.development > setting.embargo  BY <2>1, <3>2
      <4>3. QED  BY <2>1, <4>1, <4>2
    <3>3. CASE day \notin opens..setting.validation /\ day \in reopens..setting.holdout
      <4>1. SplitOf(day, setting) = "holdout"  BY <3>1, <3>3
      <4>2. day - setting.validation > setting.embargo  BY <2>1, <3>3
      <4>3. QED  BY <2>1, <4>1, <4>2
    <3>4. CASE day \notin opens..setting.validation /\ day \notin reopens..setting.holdout
      <4>1. SplitOf(day, setting) \in {"embargo_dev_val", "embargo_val_holdout", "out_of_range"}
        BY <3>1, <3>4
      <4>2. QED  BY <4>1
    <3>5. QED  BY <3>2, <3>3, <3>4
  <2>4. QED  BY <2>2, <2>3
<1>3. QED  BY <1>1, <1>2

\* Articles that say when they were published, or not at all.
Dated(corpus) == \A id \in DOMAIN corpus : corpus[id].published \in Int \cup {Absent}

LEMMA PeriodsAreApart ==
    ASSUME NEW corpus, IsFiniteSet(DOMAIN corpus), Dated(corpus),
           NEW cs, UNION cs \subseteq DOMAIN corpus, NEW sampled, NEW setting,
           setting.development \in Int, setting.validation \in Int,
           setting.holdout \in Int, setting.embargo \in Nat
    PROVE  PeriodsApart(corpus, cs, Splits(corpus, cs, sampled, setting), setting)
<1> DEFINE assigned == Splits(corpus, cs, sampled, setting)
           day(id) == ClusterDay(corpus, ClusterOf(cs, id))
<1>1. ASSUME NEW id \in DOMAIN assigned
      PROVE  assigned[id] = SplitOf(day(id), setting) /\ day(id) \in Int \cup {Absent}
  <2>1. DOMAIN assigned \subseteq UNION cs /\ assigned[id] = SplitOf(day(id), setting)  BY DEF Splits
  <2> DEFINE c == ClusterOf(cs, id)
  <2>2. PICK d \in cs : id \in d  BY <1>1, <2>1
  <2>3. c \in cs  BY <2>2 DEF ClusterOf
  <2> HIDE DEF c
  <2>4. c \subseteq DOMAIN corpus  BY <2>3
  <2>5. IsFiniteSet(c) /\ \A i \in c : corpus[i].published \in Int \cup {Absent}
    BY <2>4, FS_Subset DEF Dated
  <2>6. ClusterDay(corpus, c) \in Int \cup {Absent}  BY <2>5, ClusterDayFacts
  <2>7. QED  BY <2>1, <2>6 DEF c
<1> HIDE DEF assigned, day
<1>2. ASSUME NEW i \in 1..2, NEW a \in DOMAIN assigned, NEW b \in DOMAIN assigned,
             assigned[a] = Periods[i], assigned[b] = Periods[i + 1]
      PROVE  day(b) - day(a) > setting.embargo
  <2>1. /\ SplitOf(day(a), setting) = Periods[i] /\ SplitOf(day(b), setting) = Periods[i + 1]
        /\ day(a) \in Int \cup {Absent} /\ day(b) \in Int \cup {Absent}
    BY <1>1, <1>2
  <2>2. CASE i = 1
    <3>1. Periods[i] = "development" /\ Periods[i + 1] = "validation"  BY <2>2 DEF Periods
    <3>2. day(a) \in Int /\ day(a) <= setting.development  BY <2>1, <3>1, SplitFacts
    <3>3. day(b) \in Int /\ day(b) - setting.development > setting.embargo
      BY <2>1, <3>1, SplitFacts
    <3>4. QED  BY <3>2, <3>3
  <2>3. CASE i = 2
    <3>1. Periods[i] = "validation" /\ Periods[i + 1] = "holdout"  BY <2>3 DEF Periods
    <3>2. day(a) \in Int /\ day(a) <= setting.validation  BY <2>1, <3>1, SplitFacts
    <3>3. day(b) \in Int /\ day(b) - setting.validation > setting.embargo
      BY <2>1, <3>1, SplitFacts
    <3>4. QED  BY <3>2, <3>3
  <2>4. QED  BY <2>2, <2>3
<1>3. QED  BY <1>2 DEF PeriodsApart, assigned, day

-----------------------------------------------------------------------------
(* The holdout of the benchmark.                                           *)

LEMMA ApartCounted ==
    ASSUME NEW S, IsFiniteSet(S), NEW A \in SUBSET S
    PROVE  /\ Cardinality(S) = Cardinality(A) + Cardinality(S \ A)
           /\ Cardinality(A) \in Nat /\ IsFiniteSet(S \ A)
<1> DEFINE B == S \ A
<1>1. IsFiniteSet(A) /\ IsFiniteSet(B)  BY FS_Subset
<1>2. A \cup B = S /\ A \cap B = {}  OBVIOUS
<1> HIDE DEF B
<1>3. Cardinality(A \cup B) = Cardinality(A) + Cardinality(B) - Cardinality(A \cap B)
  BY <1>1, FS_Union
<1>4. Cardinality(A \cap B) = 0  BY <1>2, FS_EmptySet
<1>5. Cardinality(A) \in Nat /\ Cardinality(B) \in Nat  BY <1>1, FS_CardinalityType
<1>6. Cardinality(S) = Cardinality(A) + Cardinality(B)  BY <1>2, <1>3, <1>4, <1>5
<1>7. QED  BY <1>1, <1>5, <1>6 DEF B

\* The cells of the confusion, and what is in one of them.
CellNames == {"tp", "fp", "tn", "fn", "abstained"}
InCell(S, cellOf, cell) == {u \in S : cellOf[u] = cell}

LEMMA CellsCounted ==
    ASSUME NEW S, IsFiniteSet(S), NEW cellOf, \A u \in S : cellOf[u] \in CellNames
    PROVE  Cardinality(InCell(S, cellOf, "tp")) + Cardinality(InCell(S, cellOf, "fp"))
             + Cardinality(InCell(S, cellOf, "tn")) + Cardinality(InCell(S, cellOf, "fn"))
             + Cardinality(InCell(S, cellOf, "abstained"))
               = Cardinality(S)
<1> DEFINE A == InCell(S, cellOf, "tp")
           B == InCell(S, cellOf, "fp")
           C == InCell(S, cellOf, "tn")
           D == InCell(S, cellOf, "fn")
           E == InCell(S, cellOf, "abstained")
           S1 == S \ A
           S2 == S1 \ B
           S3 == S2 \ C
           S4 == S3 \ D
<1>1. A \in SUBSET S /\ B \in SUBSET S1 /\ C \in SUBSET S2 /\ D \in SUBSET S3  BY DEF InCell
<1>2. S4 = E
  <2>1. \A u \in S : cellOf[u] \in {"tp", "fp", "tn", "fn", "abstained"}  BY DEF CellNames
  <2>2. QED  BY <2>1 DEF InCell
<1> HIDE DEF A, B, C, D, E
<1>3. Cardinality(S) = Cardinality(A) + Cardinality(S1) /\ IsFiniteSet(S1) /\ Cardinality(A) \in Nat
  BY <1>1, ApartCounted
<1> HIDE DEF S1
<1>4. Cardinality(S1) = Cardinality(B) + Cardinality(S2) /\ IsFiniteSet(S2) /\ Cardinality(B) \in Nat
  BY <1>1, <1>3, ApartCounted
<1> HIDE DEF S2
<1>5. Cardinality(S2) = Cardinality(C) + Cardinality(S3) /\ IsFiniteSet(S3) /\ Cardinality(C) \in Nat
  BY <1>1, <1>4, ApartCounted
<1> HIDE DEF S3
<1>6. Cardinality(S3) = Cardinality(D) + Cardinality(S4) /\ IsFiniteSet(S4) /\ Cardinality(D) \in Nat
  BY <1>1, <1>5, ApartCounted
<1>7. Cardinality(E) \in Nat  BY <1>2, <1>6, FS_CardinalityType
<1>8. Cardinality(A) + Cardinality(B) + Cardinality(C) + Cardinality(D) + Cardinality(E)
        = Cardinality(S)
  BY <1>2, <1>3, <1>4, <1>5, <1>6, <1>7
<1>9. QED  BY <1>8 DEF A, B, C, D, E

LEMMA CellNamed ==
    ASSUME NEW b \in Baselines, NEW x, NEW label
    PROVE  Cell(Predict(b, x), label) \in CellNames
<1>1. Predict(b, x) \in {TRUE, FALSE, Absent}  BY DEF Predict, StrictTitle, TokenSafe
<1> DEFINE p == Predict(b, x)
<1>2. p = Absent \/ p = TRUE \/ p = FALSE  BY <1>1
<1> HIDE DEF p
<1>3. Cell(p, label) \in CellNames  BY <1>2 DEF Cell, CellNames
<1>4. QED  BY <1>3 DEF p

\* The units that count when the holdout is closed, and the counts of a split.
Counted(sampled, assigned, labels) == {u \in sampled \cap DOMAIN labels : assigned[u] # "holdout"}
OfSplit(S, assigned, split) == {u \in S : assigned[u] = split}
CellOf(corpus, labels, b, S) == [u \in S |-> Cell(Predict(b, corpus[u]), labels[u])]

Count(corpus, assigned, labels, S, b, split, cell) ==
    Cardinality({u \in S : assigned[u] = split /\ Cell(Predict(b, corpus[u]), labels[u]) = cell})
Metrics(corpus, assigned, labels, S) ==
    [b \in Baselines |->
        [split \in {assigned[u] : u \in S} |->
            [cell \in CellNames |-> Count(corpus, assigned, labels, S, b, split, cell)]]]

LEMMA EvaluateIs ==
    ASSUME NEW corpus, NEW sampled, NEW assigned, NEW labels
    PROVE  Evaluate(corpus, sampled, assigned, labels, FALSE)
             = Metrics(corpus, assigned, labels, Counted(sampled, assigned, labels))
<1>1. Counted(sampled, assigned, labels)
        = {u \in sampled \cap DOMAIN labels : assigned[u] = "holdout" => FALSE}
  BY DEF Counted
<1>2. QED  BY <1>1, Zenon DEF Evaluate, CellNames, Metrics, Count

LEMMA HoldoutIsClosed ==
    ASSUME NEW corpus, NEW sampled, IsFiniteSet(sampled), NEW assigned, NEW labels, NEW others
    PROVE  HoldoutClosed(corpus, sampled, assigned, labels, others)
<1> DEFINE merged == [u \in DOMAIN labels |->
                        IF u \in DOMAIN assigned /\ assigned[u] = "holdout" THEN others[u] ELSE labels[u]]
           S == Counted(sampled, assigned, labels)
           metrics == Evaluate(corpus, sampled, assigned, labels, FALSE)
           counts(l, b, split, cell) == Count(corpus, assigned, l, S, b, split, cell)
<1>1. Counted(sampled, assigned, merged) = S  BY DEF Counted
<1>2. \A u \in S : merged[u] = labels[u]  BY DEF Counted
<1>3. IsFiniteSet(S)  BY FS_Subset DEF Counted
<1>a. metrics = Metrics(corpus, assigned, labels, S)  BY EvaluateIs
<1> HIDE DEF S, merged
<1>b. Evaluate(corpus, sampled, assigned, merged, FALSE) = Metrics(corpus, assigned, merged, S)
  BY <1>1, EvaluateIs
<1>4. \A b, split, cell : counts(merged, b, split, cell) = counts(labels, b, split, cell)
  <2> SUFFICES ASSUME NEW b, NEW split, NEW cell
               PROVE  counts(merged, b, split, cell) = counts(labels, b, split, cell)
    OBVIOUS
  <2>1. {u \in S : assigned[u] = split /\ Cell(Predict(b, corpus[u]), merged[u]) = cell}
          = {u \in S : assigned[u] = split /\ Cell(Predict(b, corpus[u]), labels[u]) = cell}
    BY <1>2
  <2>2. QED  BY <2>1 DEF Count
<1>c. Metrics(corpus, assigned, merged, S) = Metrics(corpus, assigned, labels, S)
  <2> DEFINE inner(l, b, split) == [cell \in CellNames |-> Count(corpus, assigned, l, S, b, split, cell)]
             outer(l, b) == [split \in {assigned[u] : u \in S} |-> inner(l, b, split)]
  <2>1. \A b, split : inner(merged, b, split) = inner(labels, b, split)  BY <1>4
  <2>2. \A l : Metrics(corpus, assigned, l, S) = [b \in Baselines |-> outer(l, b)]  BY DEF Metrics
  <2> HIDE DEF inner
  <2>3. \A b : outer(merged, b) = outer(labels, b)  BY <2>1
  <2> HIDE DEF outer
  <2>4. QED  BY <2>2, <2>3
<1> HIDE DEF counts, metrics
<1>5. metrics = Evaluate(corpus, sampled, assigned, merged, FALSE)  BY <1>a, <1>b, <1>c
<1>6. ASSUME NEW b \in Baselines, NEW split \in DOMAIN metrics[b]
      PROVE  metrics[b][split]["tp"] + metrics[b][split]["fp"] + metrics[b][split]["tn"]
               + metrics[b][split]["fn"] + metrics[b][split]["abstained"]
                 = Cardinality({u \in sampled \cap DOMAIN labels : assigned[u] = split})
  <2> DEFINE P == OfSplit(S, assigned, split)
             cellOf == CellOf(corpus, labels, b, P)
  <2>1. split \in {assigned[u] : u \in S}  BY <1>a DEF Metrics
  <2>2. \A cell \in CellNames : metrics[b][split][cell] = counts(labels, b, split, cell)
    BY <1>a, <2>1 DEF Metrics, counts
  <2>3. \A cell : counts(labels, b, split, cell) = Cardinality(InCell(P, cellOf, cell))
    <3> SUFFICES ASSUME NEW cell PROVE counts(labels, b, split, cell) = Cardinality(InCell(P, cellOf, cell))
      OBVIOUS
    <3>1. {u \in S : assigned[u] = split /\ Cell(Predict(b, corpus[u]), labels[u]) = cell}
            = InCell(P, cellOf, cell)
      BY DEF InCell, CellOf, OfSplit
    <3>2. QED  BY <3>1 DEF counts, Count
  <2>4. \A u \in P : cellOf[u] \in CellNames  BY CellNamed DEF CellOf
  <2>5. IsFiniteSet(P)  BY <1>3, FS_Subset DEF OfSplit
  <2>6. split # "holdout"  BY <2>1 DEF S, Counted
  <2>7. {u \in sampled \cap DOMAIN labels : assigned[u] = split} = P
    BY <2>6 DEF OfSplit, S, Counted
  <2> HIDE DEF P, cellOf
  <2>8. Cardinality(InCell(P, cellOf, "tp")) + Cardinality(InCell(P, cellOf, "fp"))
          + Cardinality(InCell(P, cellOf, "tn")) + Cardinality(InCell(P, cellOf, "fn"))
          + Cardinality(InCell(P, cellOf, "abstained")) = Cardinality(P)
    BY <2>4, <2>5, CellsCounted
  <2>9. \A cell \in CellNames : metrics[b][split][cell] = Cardinality(InCell(P, cellOf, cell))
    BY <2>2, <2>3
  <2>10. {"tp", "fp", "tn", "fn", "abstained"} \subseteq CellNames  BY DEF CellNames
  <2>11. QED  BY <2>7, <2>8, <2>9, <2>10
<1>7. QED  BY <1>5, <1>6, Zenon DEF HoldoutClosed, metrics, merged

-----------------------------------------------------------------------------
(* The benchmark of a run.                                                 *)

LEMMA ImportedDates ==
    ASSUME NEW given \in Given
    PROVE  Dated(Imported(given.rows)) /\ DOMAIN Imported(given.rows) \subseteq ArticleIds(given.rows)
<1> DEFINE lines == given.rows
           ids == {lines[i].id : i \in Accepted(lines)}
<1>1. Imported(lines) = [id \in ids |-> lines[CHOOSE i \in Accepted(lines) : lines[i].id = id].article]
  BY DEF Imported
<1>2. ASSUME NEW id \in ids
      PROVE  Imported(lines)[id].published \in Int \cup {Absent} /\ id \in ArticleIds(lines)
  <2> DEFINE i == CHOOSE k \in Accepted(lines) : lines[k].id = id
  <2>1. i \in Accepted(lines) /\ lines[i].id = id  OBVIOUS
  <2>2. Imported(lines)[id] = lines[i].article  BY <1>1
  <2> HIDE DEF i
  <2>3. i \in 1..Len(lines) /\ Valid(lines[i])  BY <2>1 DEF Accepted
  <2>4. lines[i].article.published \in Int \cup {Absent}  BY <2>3, BenchmarkAssumption
  <2>5. id \in ArticleIds(lines)  BY <2>1, <2>3 DEF ArticleIds
  <2>6. QED  BY <2>2, <2>4, <2>5
<1>3. QED  BY <1>1, <1>2 DEF Dated

LEMMA BenchmarkFollows == ClusterInv => BenchmarkSound
<1> DEFINE corpus == records
           cs == clusters
           near == NearPairs(records, clusters, params.distance)
           labels == [id \in DOMAIN records |-> Label(id)]
           others == [id \in DOMAIN records |-> OtherLabel(id)]
           sample(b) == BenchmarkSample(records, clusters, near, b.size, b.cap)
           assigned(b) == Splits(records, clusters, sample(b), b.setting)
<1> SUFFICES ASSUME ClusterInv, NEW b \in Benchmarks
             PROVE  /\ CapRespected(records, sample(b), b.cap)
                    /\ PeriodsApart(records, clusters, assigned(b), b.setting)
                    /\ HoldoutClosed(records, sample(b), assigned(b), labels, others)
  BY DEF BenchmarkSound
<1>1. PICK given \in Given : rows = given.rows  BY DEF ClusterInv
<1>2. /\ records = << >> \/ records = Imported(rows)
      /\ clusters = {} \/ clusters = ExactClusters(records)
  BY DEF ClusterInv
<1>3. /\ Dated(corpus) /\ DOMAIN corpus \subseteq ArticleIds(rows)
      /\ DOMAIN corpus \subseteq Int /\ IsFiniteSet(DOMAIN corpus)
  <2>1. CASE records = << >>
    <3>1. DOMAIN records = {}  BY <2>1
    <3>2. QED  BY <3>1, FS_EmptySet DEF Dated
  <2>2. CASE records = Imported(rows)
    <3>1. records = Imported(given.rows)  BY <1>1, <2>2
    <3>2. QED  BY <1>1, <3>1, ImportedDates, ImportedIds
  <2>3. QED  BY <1>2, <2>1, <2>2
<1>4. cs = {} \/ cs = ExactClusters(corpus)  BY <1>2
<1> HIDE DEF corpus, cs
<1>5. UNION cs \subseteq DOMAIN corpus /\ Canonicals(cs) \subseteq DOMAIN corpus
  <2>1. CASE cs = {}  BY <2>1 DEF Canonicals
  <2>2. CASE cs = ExactClusters(corpus)
    <3>1. UNION ExactClusters(corpus) = DOMAIN corpus  BY <1>3, ExactClustersFacts
    <3>2. \A u \in Canonicals(cs) : u \in DOMAIN corpus  BY <1>3, <2>2, CanonicalFacts
    <3>3. QED  BY <2>2, <3>1, <3>2
  <2>3. QED  BY <1>4, <2>1, <2>2
<1>6. Distinct(Canonicals(cs), <<"main">>)
  <2> DEFINE U == Canonicals(cs)
             salt == <<"main">>
  <2>1. U \in SUBSET ArticleIds(given.rows)  BY <1>1, <1>3, <1>5
  <2>2. salt \in Salts  BY TheSalts
  <2> HIDE DEF U, salt
  <2>3. Distinct(U, salt)  BY <2>1, <2>2, ArticlesRanked
  <2>4. QED  BY <2>3 DEF U, salt
<1>7. /\ b.cap \in Nat
      /\ b.setting.development \in Int /\ b.setting.validation \in Int
      /\ b.setting.holdout \in Int /\ b.setting.embargo \in Nat
  BY BenchmarkAssumption
<1> DEFINE sampled == BenchmarkSample(corpus, cs, near, b.size, b.cap)
<1>8. sampled \in Selections(corpus, Canonicals(cs), b.cap)
  <2> DEFINE cap == b.cap
             size == b.size
  <2>1. cap \in Nat  BY <1>7
  <2> HIDE DEF cap, size, near
  <2>2. BenchmarkSample(corpus, cs, near, size, cap) \in Selections(corpus, Canonicals(cs), cap)
    BY <1>6, <2>1, SampleSelects
  <2>3. QED  BY <2>2 DEF cap, size
<1> HIDE DEF sampled
<1>9. CapRespected(corpus, sampled, b.cap)
  BY <1>8 DEF CapRespected, Selections, Capped, Holding
<1>10. PeriodsApart(corpus, cs, Splits(corpus, cs, sampled, b.setting), b.setting)
  <2> DEFINE setting == b.setting
  <2>1. /\ setting.development \in Int /\ setting.validation \in Int
        /\ setting.holdout \in Int /\ setting.embargo \in Nat
    BY <1>7
  <2> HIDE DEF setting
  <2>2. PeriodsApart(corpus, cs, Splits(corpus, cs, sampled, setting), setting)
    BY <1>3, <1>5, <2>1, PeriodsAreApart
  <2>3. QED  BY <2>2 DEF setting
<1>11. HoldoutClosed(corpus, sampled, Splits(corpus, cs, sampled, b.setting), labels, others)
  <2>1. IsFiniteSet(sampled)  BY <1>3, <1>5, <1>8, FS_Subset DEF Selections
  <2> HIDE DEF labels, others
  <2>2. QED  BY <2>1, HoldoutIsClosed
<1>12. QED  BY <1>9, <1>10, <1>11 DEF sampled, corpus, cs

\* For any corpus, size, cap and periods, as long as ranks differ: no entity
\* has more units in the benchmark sample than its cap, two clusters of
\* successive periods are apart by more than the embargo, the labels of a closed
\* holdout do not show in the metrics, and every evaluated article is counted
\* in one cell.
THEOREM BenchmarkSoundHolds == PilotSpec => []BenchmarkSound
BY ClusterInitial, ClusterStep, BenchmarkFollows, PTL DEF PilotSpec

=============================================================================
