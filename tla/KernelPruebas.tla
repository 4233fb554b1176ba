---------------------------- MODULE KernelPruebas ----------------------------
(***************************************************************************)
(* Lemmas about the lists of modules Procesos and InterfacesKernel, what   *)
(* the helpers that take elements out of a list or reorder them return for *)
(* lists of any length, and then one lemma per function of the kernel.     *)
(***************************************************************************)
EXTENDS Kernel, FiniteSetTheorems, SequenceTheorems, WellFoundedInduction, TLAPS

\* The order < of the naturals as a set of pairs.
Menor == {par \in Nat \X Nat : par[1] < par[2]}

\* The order of the naturals is well founded.
LEMMA MenorBienFundado == IsWellFoundedOn(Menor, Nat)
BY NatLessThanWellFounded DEF OpToRel, Menor

\* A nonempty set of naturals has a minimum, and Min returns it: the searches
\* of Quitar, PosicionEn and Admitidos find the first position.
LEMMA MinimoNat ==
    ASSUME NEW T \in SUBSET Nat, T # {}
    PROVE  Min(T) \in T /\ \A y \in T : Min(T) <= y
<1>1. \E x \in T : \A y \in T : ~ (<<y, x>> \in Menor)
  BY MenorBienFundado, WFMin, Zenon
<1>2. PICK m \in T : \A y \in T : ~ (<<y, m>> \in Menor)
  BY <1>1
<1>3. ASSUME NEW y \in T
      PROVE  m <= y
  <2>1. m \in Nat /\ y \in Nat
    OBVIOUS
  <2>2. ~ (y < m)
    BY <1>2, <2>1 DEF Menor
  <2> QED
    BY <2>1, <2>2
<1>4. \E x \in T : \A y \in T : x <= y
  BY <1>3
<1> QED
  BY <1>4 DEF Min

\* Pids is finite.
LEMMA PidsFinito == IsFiniteSet(Pids)
BY FS_Interval, LimitesAssumption DEF Pids

\* The length of a concatenation.
LEMMA ConcatLargo ==
    ASSUME NEW S, NEW A \in Seq(S), NEW B \in Seq(S), NEW a, NEW b,
           Len(A) = a, Len(B) = b
    PROVE  A \o B \in Seq(S) /\ Len(A \o B) = a + b
BY ConcatProperties

\* Taking position m out of a list leaves the others.
LEMMA RemoveAtTipo ==
    ASSUME NEW S, NEW q \in Seq(S), NEW m \in 1 .. Len(q)
    PROVE  RemoveAt(q, m) \in Seq(S) /\ Len(RemoveAt(q, m)) = Len(q) - 1
<1> DEFINE n == Len(q)
<1>1. n \in Nat /\ m \in 1 .. n
  BY LenProperties
<1>2. \A i \in 1 .. n : q[i] \in S
  BY ElementOfSeq
<1>3. RemoveAt(q, m) = SubSeq(q, 1, m - 1) \o SubSeq(q, m + 1, n)
  BY DEF RemoveAt
<1> HIDE DEF n
<1>4. /\ SubSeq(q, 1, m - 1) \in Seq(S)
      /\ Len(SubSeq(q, 1, m - 1)) = m - 1
  BY <1>1, <1>2, SubSeqProperties
<1>5. /\ SubSeq(q, m + 1, n) \in Seq(S)
      /\ Len(SubSeq(q, m + 1, n)) = n - m
  BY <1>1, <1>2, SubSeqProperties, SMTT(30)
<1>6. (m - 1) + (n - m) = n - 1
  BY <1>1
<1>7. /\ SubSeq(q, 1, m - 1) \o SubSeq(q, m + 1, n) \in Seq(S)
      /\ Len(SubSeq(q, 1, m - 1) \o SubSeq(q, m + 1, n)) = (m - 1) + (n - m)
  BY <1>4, <1>5, ConcatLargo
<1> QED
  BY <1>3, <1>6, <1>7 DEF n

\* list_remove_element on a list that holds the element removes exactly one.
LEMMA QuitarTipo ==
    ASSUME NEW q \in Seq(Pids), NEW p \in Range(q)
    PROVE  Quitar(q, p) \in Seq(Pids) /\ Len(Quitar(q, p)) = Len(q) - 1
<1> DEFINE T == {i \in DOMAIN q : q[i] = p}
<1>1. DOMAIN q = 1 .. Len(q) /\ Len(q) \in Nat
  BY LenProperties
<1>2. Min(T) \in 1 .. Len(q)
  <2>1. T \in SUBSET Nat /\ T # {}
    BY <1>1 DEF Range
  <2> QED
    BY <2>1, <1>1, MinimoNat
<1>3. Quitar(q, p) = RemoveAt(q, Min(T))
  BY DEF Quitar
<1> HIDE DEF T
<1>4. RemoveAt(q, Min(T)) \in Seq(Pids) /\ Len(RemoveAt(q, Min(T))) = Len(q) - 1
  BY <1>1, <1>2, RemoveAtTipo, Zenon
<1> QED
  BY <1>3, <1>4, Zenon

-----------------------------------------------------------------------------

\* The position of a pid in a list that holds it.
LEMMA PosicionEnTipo ==
    ASSUME NEW q \in Seq(Pids), NEW p \in Range(q)
    PROVE  PosicionEn(q, p) \in 1 .. Len(q) /\ q[PosicionEn(q, p)] = p
<1> DEFINE T == {i \in DOMAIN q : q[i] = p}
<1>1. DOMAIN q = 1 .. Len(q) /\ Len(q) \in Nat
  BY LenProperties
<1>2. T \in SUBSET Nat /\ T # {}
  BY <1>1 DEF Range
<1>3. Min(T) \in T
  BY <1>2, MinimoNat
<1> QED
  BY <1>1, <1>3 DEF PosicionEn

\* Filtrar returns the elements of S and of the list, once each: for every j
\* there is an element with j - 1 others before it.  Along n, the number of
\* elements of R at positions up to n grows at most by one.
LEMMA FiltrarTipo ==
    ASSUME NEW q \in Seq(Pids), NEW S
    PROVE  /\ Filtrar(q, S) \in Seq(S \cap Range(q))
           /\ Filtrar(q, S) \in Seq(Pids)
           /\ Range(Filtrar(q, S)) = S \cap Range(q)
           /\ IsInjective(Filtrar(q, S))
<1> DEFINE R == S \cap Range(q)
           Hasta(n) == {x \in R : PosicionEn(q, x) <= n}
<1>1. R \subseteq Pids /\ IsFiniteSet(R)
  <2>1. Range(q) \subseteq Pids
    BY LenProperties, ElementOfSeq DEF Range
  <2> QED
    BY <2>1, PidsFinito, FS_Subset
<1>2. \A x \in R : PosicionEn(q, x) \in Nat \ {0} /\ q[PosicionEn(q, x)] = x
  BY PosicionEnTipo, LenProperties
<1>3. \A n : IsFiniteSet(Hasta(n)) /\ Cardinality(Hasta(n)) \in Nat
  BY <1>1, FS_Subset, FS_CardinalityType
<1>4. Cardinality(R) \in Nat
  BY <1>1, FS_CardinalityType
<1>5. ASSUME NEW j \in 1 .. Cardinality(R)
      PROVE  \E p \in R : Cardinality(Hasta(PosicionEn(q, p))) = j
  <2> DEFINE T == {n \in Nat : Cardinality(Hasta(n)) >= j}
             m == Min(T)
  <2>1. T # {}
    <3>1. Hasta(Len(q)) = R
      <4>1. ASSUME NEW x \in R
            PROVE  PosicionEn(q, x) <= Len(q)
        <5>1. PosicionEn(q, x) \in 1 .. Len(q) /\ Len(q) \in Nat
          BY PosicionEnTipo, LenProperties
        <5> QED
          BY <5>1
      <4> QED
        BY <4>1
    <3>2. Len(q) \in T
      <4>1. Len(q) \in Nat /\ Cardinality(R) >= j
        BY <1>4, LenProperties
      <4> HIDE DEF Hasta, R
      <4> QED
        BY <3>1, <4>1
    <3> QED
      BY <3>2
  <2>2. m \in T /\ \A y \in T : m <= y
    BY <2>1, MinimoNat
  <2> HIDE DEF m
  <2>3. m # 0
    <3>1. Hasta(0) = {}
      BY <1>2
    <3>2. Cardinality(Hasta(0)) = 0
      BY <3>1, FS_EmptySet
    <3>3. Cardinality(Hasta(m)) >= j
      BY <2>2
    <3> HIDE DEF Hasta
    <3> QED
      BY <3>2, <3>3, <1>4
  <2>4. m - 1 \in Nat /\ Cardinality(Hasta(m - 1)) < j
    <3>1. m \in Nat /\ m - 1 \in Nat
      BY <2>2, <2>3
    <3>2. m - 1 \notin T
      BY <2>2, <3>1
    <3>3. Cardinality(Hasta(m - 1)) \in Nat
      BY <1>3
    <3> QED
      BY <3>1, <3>2, <3>3
  <2>5. \E x \in R : PosicionEn(q, x) = m
    <3> SUFFICES ASSUME \A x \in R : PosicionEn(q, x) # m
                 PROVE  FALSE
      OBVIOUS
    <3>1. Hasta(m) = Hasta(m - 1)
      <4>1. \A x \in R : PosicionEn(q, x) <= m <=> PosicionEn(q, x) <= m - 1
        BY <1>2, <2>2, <2>4
      <4> QED
        BY <4>1
    <3> QED
      BY <3>1, <2>2, <2>4, <1>3
  <2>6. PICK p \in R : PosicionEn(q, p) = m
    BY <2>5
  <2>7. Hasta(m) = Hasta(m - 1) \cup {p}
    <3>1. \A x \in R : PosicionEn(q, x) <= m <=>
                       PosicionEn(q, x) <= m - 1 \/ PosicionEn(q, x) = m
      BY <1>2, <2>2, <2>4
    <3>2. \A x \in R : PosicionEn(q, x) = m => x = p
      BY <1>2, <2>6
    <3> QED
      BY <3>1, <3>2, <2>6
  <2>8. Cardinality(Hasta(m)) <= Cardinality(Hasta(m - 1)) + 1
    <3>1. Cardinality(Hasta(m - 1) \cup {p}) =
            IF p \in Hasta(m - 1) THEN Cardinality(Hasta(m - 1))
            ELSE Cardinality(Hasta(m - 1)) + 1
      BY <1>3, FS_AddElement
    <3> HIDE DEF Hasta
    <3> QED
      BY <3>1, <2>7, <1>3
  <2>9. Cardinality(Hasta(m)) = j
    <3>1. Cardinality(Hasta(m)) >= j
      BY <2>2
    <3>2. Cardinality(Hasta(m)) \in Nat /\ Cardinality(Hasta(m - 1)) \in Nat
      BY <1>3
    <3> HIDE DEF Hasta
    <3> QED
      BY <3>1, <3>2, <2>4, <2>8, <1>4
  <2> QED
    BY <2>6, <2>9
<1>6. Filtrar(q, S) = [j \in 1 .. Cardinality(R) |->
                          CHOOSE p \in R : Cardinality(Hasta(PosicionEn(q, p))) = j]
  BY DEF Filtrar
<1>7. ASSUME NEW j \in 1 .. Cardinality(R)
      PROVE  /\ (CHOOSE p \in R : Cardinality(Hasta(PosicionEn(q, p))) = j) \in R
             /\ Cardinality(Hasta(PosicionEn(q,
                    CHOOSE p \in R : Cardinality(Hasta(PosicionEn(q, p))) = j))) = j
  BY <1>5
<1> DEFINE f == Filtrar(q, S)
<1> HIDE DEF R, Hasta, f
<1>8. /\ f \in [1 .. Cardinality(R) -> R]
      /\ \A j \in 1 .. Cardinality(R) : Cardinality(Hasta(PosicionEn(q, f[j]))) = j
  BY <1>6, <1>7 DEF f
<1>9. f \in Seq(R)
  BY <1>8, <1>4
<1>10. IsInjective(f)
  BY <1>8 DEF IsInjective
<1>11. Range(f) = R
  <2>1. f \in Injection(1 .. Cardinality(R), R)
    BY <1>8, <1>10 DEF Injection
  <2>2. Cardinality(1 .. Cardinality(R)) = Cardinality(R)
    BY <1>4, FS_Interval
  <2>3. f \in Surjection(1 .. Cardinality(R), R)
    BY <2>1, <2>2, <1>1, FS_Injection
  <2> QED
    BY <2>3, <1>8 DEF Surjection, Range
<1> QED
  BY <1>1, <1>9, <1>10, <1>11, SeqMonotonic DEF R, f

-----------------------------------------------------------------------------
\* Without repetitions, what is left when the head goes.
LEMMA RangoTail ==
    ASSUME NEW q \in Seq(Pids), q # << >>, IsInjective(q)
    PROVE  Range(Tail(q)) = Range(q) \ {Head(q)} /\ IsInjective(Tail(q))
<1> DEFINE n == Len(q)
<1>1. /\ n \in Nat \ {0}
      /\ DOMAIN q = 1 .. n
      /\ DOMAIN Tail(q) = 1 .. n - 1
      /\ \A i \in 1 .. n - 1 : Tail(q)[i] = q[i + 1]
      /\ Head(q) = q[1]
  BY EmptySeq, LenProperties, HeadTailProperties
<1> HIDE DEF n
<1>2. IsInjective(Tail(q))
  BY <1>1 DEF IsInjective
<1>3. ASSUME NEW i \in 2 .. n
      PROVE  i - 1 \in 1 .. n - 1 /\ Tail(q)[i - 1] = q[i] /\ q[i] # q[1]
  BY <1>1 DEF IsInjective
<1>4. Range(Tail(q)) \subseteq Range(q) \ {Head(q)}
  BY <1>1 DEF Range, IsInjective
<1>5. ASSUME NEW x \in Range(q) \ {Head(q)}
      PROVE  x \in Range(Tail(q))
  <2>1. PICK i \in 1 .. n : q[i] = x
    BY <1>1 DEF Range
  <2>2. i \in 2 .. n
    BY <1>1, <2>1
  <2> QED
    BY <1>1, <1>3, <2>1, <2>2 DEF Range
<1> QED
  BY <1>2, <1>4, <1>5

\* One more at the end.
LEMMA RangoAppend ==
    ASSUME NEW q \in Seq(Pids), NEW p \in Pids
    PROVE  /\ Range(Append(q, p)) = Range(q) \cup {p}
           /\ IsInjective(q) /\ p \notin Range(q) => IsInjective(Append(q, p))
<1> DEFINE n == Len(q)
           a == Append(q, p)
<1>1. /\ n \in Nat
      /\ DOMAIN q = 1 .. n
      /\ DOMAIN a = 1 .. n + 1
      /\ \A i \in 1 .. n : a[i] = q[i]
      /\ a[n + 1] = p
  BY LenProperties, AppendProperties
<1> HIDE DEF n, a
<1>2. Range(a) = Range(q) \cup {p}
  BY <1>1 DEF Range
<1>3. ASSUME IsInjective(q), p \notin Range(q)
      PROVE  IsInjective(a)
  BY <1>1, <1>3 DEF Range, IsInjective
<1> QED
  BY <1>2, <1>3 DEF a

\* Two lists with nothing in common, one after the other.
LEMMA RangoConcat ==
    ASSUME NEW q \in Seq(Pids), NEW o \in Seq(Pids)
    PROVE  /\ Range(q \o o) = Range(q) \cup Range(o)
           /\ IsInjective(q) /\ IsInjective(o) /\ Range(q) \cap Range(o) = {}
                 => IsInjective(q \o o)
<1> DEFINE n == Len(q)
           m == Len(o)
           c == q \o o
<1>1. /\ n \in Nat /\ m \in Nat
      /\ DOMAIN q = 1 .. n /\ DOMAIN o = 1 .. m
      /\ DOMAIN c = 1 .. n + m
      /\ \A i \in 1 .. n + m : c[i] = IF i <= n THEN q[i] ELSE o[i - n]
  BY LenProperties, ConcatProperties
<1> HIDE DEF n, m, c
<1>2. ASSUME IsInjective(q), IsInjective(o), Range(q) \cap Range(o) = {},
             NEW a \in 1 .. n + m, NEW b \in 1 .. n + m, c[a] = c[b], a <= b
      PROVE  a = b
  <2>1. CASE b <= n
    BY <2>1, <1>1, <1>2 DEF IsInjective
  <2>2. CASE a > n
    <3>1. /\ a - n \in DOMAIN o /\ b - n \in DOMAIN o
          /\ o[a - n] = o[b - n]
      BY <2>2, <1>1, <1>2
    <3>2. a - n = b - n
      BY <3>1, <1>2 DEF IsInjective
    <3> QED
      BY <3>2, <1>1
  <2>3. CASE a <= n /\ b > n
    <3>1. a \in 1 .. n /\ b - n \in 1 .. m /\ q[a] = o[b - n]
      BY <2>3, <1>1, <1>2
    <3>2. q[a] \in Range(q) /\ o[b - n] \in Range(o)
      BY <3>1, <1>1 DEF Range
    <3> QED
      BY <3>1, <3>2, <1>2
  <2> QED
    BY <2>1, <2>2, <2>3, <1>1
<1>3. ASSUME IsInjective(q), IsInjective(o), Range(q) \cap Range(o) = {}
      PROVE  IsInjective(c)
  <2>1. ASSUME NEW a \in 1 .. n + m, NEW b \in 1 .. n + m, c[a] = c[b]
        PROVE  a = b
    <3>1. a <= b \/ b <= a
      BY <1>1
    <3> QED
      BY <3>1, <2>1, <1>2, <1>3
  <2> QED
    BY <2>1, <1>1 DEF IsInjective
<1> QED
  BY <1>3, RangeConcatenation DEF c

\* A list cut in two after its first n elements.
LEMMA RangoSubSeq ==
    ASSUME NEW q \in Seq(Pids), IsInjective(q), NEW n \in 0 .. Len(q)
    PROVE  LET a == SubSeq(q, 1, n)
               b == SubSeq(q, n + 1, Len(q))
           IN  /\ a \in Seq(Pids) /\ b \in Seq(Pids)
               /\ Len(a) = n /\ Len(b) = Len(q) - n
               /\ \A i \in 1 .. n : a[i] = q[i]
               /\ \A i \in 1 .. Len(q) - n : b[i] = q[n + i]
               /\ IsInjective(a) /\ IsInjective(b)
               /\ Range(a) \cap Range(b) = {}
               /\ Range(a) \cup Range(b) = Range(q)
<1> DEFINE m == Len(q)
           a == SubSeq(q, 1, n)
           b == SubSeq(q, n + 1, m)
<1>1. m \in Nat /\ DOMAIN q = 1 .. m /\ n \in 0 .. m
  BY LenProperties
<1>2. \A i \in 1 .. m : q[i] \in Pids
  BY ElementOfSeq
<1> HIDE DEF m
<1>3. /\ a \in Seq(Pids) /\ Len(a) = n
      /\ \A i \in 1 .. n : a[i] = q[i]
  <2>1. /\ a \in Seq(Pids)
        /\ Len(a) = IF 1 <= n THEN n - 1 + 1 ELSE 0
        /\ \A i \in 1 .. n - 1 + 1 : a[i] = q[1 + i - 1]
    BY <1>1, <1>2, SubSeqProperties, SMTT(30)
  <2> HIDE DEF a
  <2> QED
    BY <2>1, <1>1
<1>4. /\ b \in Seq(Pids) /\ Len(b) = m - n
      /\ \A i \in 1 .. m - n : b[i] = q[n + i]
  <2>1. /\ b \in Seq(Pids)
        /\ Len(b) = IF n + 1 <= m THEN m - (n + 1) + 1 ELSE 0
        /\ \A i \in 1 .. m - (n + 1) + 1 : b[i] = q[(n + 1) + i - 1]
    BY <1>1, <1>2, SubSeqProperties, SMTT(30)
  <2> HIDE DEF b
  <2>2. /\ m - (n + 1) + 1 = m - n
        /\ (IF n + 1 <= m THEN m - (n + 1) + 1 ELSE 0) = m - n
        /\ \A i \in 1 .. m - n : (n + 1) + i - 1 = n + i
    BY <1>1
  <2> QED
    BY <2>1, <2>2
<1>5. DOMAIN a = 1 .. n /\ DOMAIN b = 1 .. m - n
  BY <1>3, <1>4, LenProperties
<1> HIDE DEF a, b
<1> DEFINE da == 1 .. n
           db == 1 .. m - n
           dq == 1 .. m
<1>0. /\ \A i \in da : i \in dq
      /\ \A j \in db : n + j \in dq
      /\ \A i \in da, j \in db : i # n + j
      /\ \A i, j \in db : n + i = n + j => i = j
  BY <1>1
<1> HIDE DEF da, db, dq
<1>10. /\ DOMAIN a = da /\ DOMAIN b = db /\ DOMAIN q = dq
       /\ \A i \in da : a[i] = q[i]
       /\ \A i \in db : b[i] = q[n + i]
  BY <1>1, <1>3, <1>4, <1>5 DEF da, db, dq
<1>11. \A i, j \in dq : q[i] = q[j] => i = j
  BY <1>10 DEF IsInjective
<1>6. IsInjective(a) /\ IsInjective(b)
  <2>1. \A i, j \in da : a[i] = a[j] => i = j
    BY <1>0, <1>10, <1>11
  <2>2. \A i, j \in db : b[i] = b[j] => i = j
    BY <1>0, <1>10, <1>11
  <2> QED
    BY <2>1, <2>2, <1>10, Zenon DEF IsInjective
<1>7. Range(a) \cap Range(b) = {}
  <2>1. \A i \in da, j \in db : a[i] # b[j]
    BY <1>0, <1>10, <1>11
  <2> QED
    BY <2>1, <1>10 DEF Range
<1>8. Range(a) \cup Range(b) \subseteq Range(q)
  BY <1>0, <1>10 DEF Range
<1>9. ASSUME NEW x \in Range(q)
      PROVE  x \in Range(a) \cup Range(b)
  <2>1. PICK i \in 1 .. m : q[i] = x
    BY <1>1 DEF Range
  <2>2. CASE i <= n
    BY <2>1, <2>2, <1>1, <1>3, <1>5 DEF Range
  <2>3. CASE i > n
    <3>1. i - n \in 1 .. m - n /\ b[i - n] = q[i]
      BY <2>1, <2>3, <1>1, <1>4
    <3> QED
      BY <2>1, <3>1, <1>5 DEF Range
  <2> QED
    BY <2>2, <2>3, <1>1
<1> QED
  BY <1>3, <1>4, <1>6, <1>7, <1>8, <1>9 DEF a, b, m

\* Without repetitions, what is left when p goes.
LEMMA RangoQuitar ==
    ASSUME NEW q \in Seq(Pids), IsInjective(q), NEW p \in Range(q)
    PROVE  Range(Quitar(q, p)) = Range(q) \ {p} /\ IsInjective(Quitar(q, p))
<1> DEFINE T == {i \in DOMAIN q : q[i] = p}
           m == Min(T)
           a == SubSeq(q, 1, m - 1)
           b == SubSeq(q, m + 1, Len(q))
<1>1. DOMAIN q = 1 .. Len(q) /\ Len(q) \in Nat
  BY LenProperties
<1>2. m \in 1 .. Len(q) /\ q[m] = p
  <2>1. T \in SUBSET Nat /\ T # {}
    BY <1>1 DEF Range
  <2> QED
    BY <2>1, <1>1, MinimoNat
<1>3. Quitar(q, p) = a \o b
  BY DEF Quitar, RemoveAt
<1> HIDE DEF T, m
<1> DEFINE c == SubSeq(q, m, Len(q))
<1>4. m - 1 \in 0 .. Len(q) /\ m \in 0 .. Len(q) /\ (m - 1) + 1 = m
  BY <1>1, <1>2
<1>5. /\ a \in Seq(Pids) /\ IsInjective(a)
      /\ Range(a) \cap Range(c) = {}
      /\ Range(a) \cup Range(c) = Range(q)
  BY <1>4, RangoSubSeq
<1> DEFINE d == SubSeq(q, 1, m)
<1>6. /\ b \in Seq(Pids) /\ IsInjective(b)
      /\ Range(d) \cap Range(b) = {}
      /\ Range(d) \cup Range(b) = Range(q)
      /\ d \in Seq(Pids) /\ Len(d) = m /\ \A i \in 1 .. m : d[i] = q[i]
  BY <1>4, RangoSubSeq
<1>7. /\ a \in Seq(Pids) /\ Len(a) = m - 1
      /\ \A i \in 1 .. m - 1 : a[i] = q[i]
  BY <1>4, RangoSubSeq
<1>8. DOMAIN d = 1 .. m /\ DOMAIN a = 1 .. m - 1
  BY <1>6, <1>7, LenProperties
<1> HIDE DEF a, b, c, d
<1>9. Range(d) = Range(a) \cup {p}
  <2>1. /\ 1 .. m = (1 .. m - 1) \cup {m}
        /\ \A i \in 1 .. m - 1 : d[i] = a[i]
        /\ d[m] = p
    BY <1>1, <1>2, <1>6, <1>7
  <2> QED
    BY <2>1, <1>8 DEF Range
<1>10. p \notin Range(a)
  BY <1>1, <1>2, <1>7, <1>8 DEF Range, IsInjective
<1>11. Range(a) \cap Range(b) = {} /\ Range(a) \cup Range(b) = Range(q) \ {p}
  BY <1>6, <1>9, <1>10
<1> QED
  BY <1>3, <1>5, <1>6, <1>11, RangoConcat

-----------------------------------------------------------------------------
(* The functions of the kernel.                                            *)

\* What every function of the kernel does to the lists of processes, for any
\* number of pids, resources and interfaces: it keeps the types of the state,
\* and none but ready_a_exec lengthens EXEC.  Each function of Kernel and of the
\* modules below it has a lemma here; SistemaPruebas applies them to the
\* actions.

\* The state t that a function leaves is typed and its EXEC is no longer
\* than the one of s.
Conserva(s, t) ==
    /\ t \in EstadoKernel
    /\ Len(t.cola["EXEC"]) <= Len(s.cola["EXEC"])

\* Every list of t_diagrama_estados holds pids and has a length.
LEMMA ColaTipo ==
    ASSUME NEW s \in EstadoKernel, NEW e \in Colas
    PROVE  s.cola[e] \in Seq(Pids) /\ Len(s.cola[e]) \in Nat
<1>1. s.cola \in [Colas -> Seq(Pids)]
  BY Zenon DEF EstadoKernel
<1>2. s.cola[e] \in Seq(Pids)
  BY <1>1
<1> QED
  BY <1>2, LenProperties

\* EXEC is one of the lists of the kernel.
LEMMA ExecEsCola == "EXEC" \in Colas
BY DEF Colas

\* A function of the kernel that touches no list preserves Conserva.
LEMMA MismaCola ==
    ASSUME NEW s \in EstadoKernel, NEW t \in EstadoKernel,
           t.cola = s.cola
    PROVE  Conserva(s, t)
<1>1. Len(s.cola["EXEC"]) \in Nat
  BY ColaTipo, ExecEsCola
<1>2. Len(t.cola["EXEC"]) <= Len(s.cola["EXEC"])
  BY <1>1
<1> QED
  BY <1>2 DEF Conserva

\* Two functions called one after the other preserve Conserva together.
LEMMA Transitiva ==
    ASSUME NEW s \in EstadoKernel, NEW t, Conserva(s, t), NEW u, Conserva(t, u)
    PROVE  Conserva(s, u)
<1>1. t \in EstadoKernel /\ u \in EstadoKernel
  BY DEF Conserva
<1>2. Len(s.cola["EXEC"]) \in Nat /\ Len(t.cola["EXEC"]) \in Nat /\ Len(u.cola["EXEC"]) \in Nat
  BY <1>1, ColaTipo, ExecEsCola
<1> QED
  BY <1>1, <1>2 DEF Conserva

\* Writing list e: Conserva holds when the list written is EXEC only if it
\* does not grow.
LEMMA ConCola ==
    ASSUME NEW s \in EstadoKernel, NEW e \in Colas, NEW q \in Seq(Pids),
           e = "EXEC" => Len(q) <= Len(s.cola["EXEC"])
    PROVE  Conserva(s, [s EXCEPT !.cola[e] = q])
<1> DEFINE t == [s EXCEPT !.cola[e] = q]
<1>1. t \in EstadoKernel
  BY Zenon DEF EstadoKernel
<1>2. s.cola \in [Colas -> Seq(Pids)]
  BY Zenon DEF EstadoKernel
<1>3. t.cola = [s.cola EXCEPT ![e] = q]
  BY Zenon DEF EstadoKernel
<1> HIDE DEF t
<1>4. t.cola["EXEC"] = IF e = "EXEC" THEN q ELSE s.cola["EXEC"]
  BY <1>2, <1>3, ExecEsCola
<1>5. Len(s.cola["EXEC"]) \in Nat
  BY ColaTipo, ExecEsCola
<1>6. Len(t.cola["EXEC"]) <= Len(s.cola["EXEC"])
  BY <1>4, <1>5
<1>7. Conserva(s, t)
  BY <1>1, <1>6 DEF Conserva
<1> QED
  BY <1>7 DEF t

\* Writing the autopid counter.
LEMMA ConPid ==
    ASSUME NEW s \in EstadoKernel, NEW x \in Int
    PROVE  Conserva(s, [s EXCEPT !.pid = x])
<1> DEFINE t == [s EXCEPT !.pid = x]
<1>1. t \in EstadoKernel
  BY Zenon DEF EstadoKernel
<1>2. t.cola = s.cola
  BY Zenon DEF EstadoKernel
<1> QED
  BY <1>1, <1>2, MismaCola

\* Writing the entry of a pid in the diccionario_procesos.
LEMMA ConEstado ==
    ASSUME NEW s \in EstadoKernel, NEW p \in Pids, NEW x \in Colas \cup {SinEstado}
    PROVE  Conserva(s, [s EXCEPT !.procesos[p] = x])
<1> DEFINE t == [s EXCEPT !.procesos[p] = x]
<1>1. t \in EstadoKernel
  BY Zenon DEF EstadoKernel
<1>2. t.cola = s.cola
  BY Zenon DEF EstadoKernel
<1> QED
  BY <1>1, <1>2, MismaCola

\* Writing the whole diccionario_procesos (the walk of DesbloquearTodos).
LEMMA ConProcesos ==
    ASSUME NEW s \in EstadoKernel, NEW x \in [Pids -> Colas \cup {SinEstado}]
    PROVE  Conserva(s, [s EXCEPT !.procesos = x])
<1> DEFINE t == [s EXCEPT !.procesos = x]
<1>1. t \in EstadoKernel
  BY Zenon DEF EstadoKernel
<1>2. t.cola = s.cola
  BY Zenon DEF EstadoKernel
<1> QED
  BY <1>1, <1>2, MismaCola

\* Writing one PCB.
LEMMA ConPcb ==
    ASSUME NEW s \in EstadoKernel, NEW p \in Pids, NEW x \in Pcb
    PROVE  Conserva(s, [s EXCEPT !.pcb[p] = x])
<1> DEFINE t == [s EXCEPT !.pcb[p] = x]
<1>1. t \in EstadoKernel
  BY Zenon DEF EstadoKernel
<1>2. t.cola = s.cola
  BY Zenon DEF EstadoKernel
<1> QED
  BY <1>1, <1>2, MismaCola

\* Writing every PCB at once (proceso_crear and proceso_revertir of several
\* pids).
LEMMA ConPcbs ==
    ASSUME NEW s \in EstadoKernel, NEW x \in [Pids -> Pcb]
    PROVE  Conserva(s, [s EXCEPT !.pcb = x])
<1> DEFINE t == [s EXCEPT !.pcb = x]
<1>1. t \in EstadoKernel
  BY Zenon DEF EstadoKernel
<1>2. t.cola = s.cola
  BY Zenon DEF EstadoKernel
<1> QED
  BY <1>1, <1>2, MismaCola

\* Writing one resource.
LEMMA ConRecurso ==
    ASSUME NEW s \in EstadoKernel, NEW r \in Recursos, NEW x \in Recurso
    PROVE  Conserva(s, [s EXCEPT !.recursos[r] = x])
<1> DEFINE t == [s EXCEPT !.recursos[r] = x]
<1>1. t \in EstadoKernel
  BY Zenon DEF EstadoKernel
<1>2. t.cola = s.cola
  BY Zenon DEF EstadoKernel
<1> QED
  BY <1>1, <1>2, MismaCola

\* Writing the table of resources (DevolverTomados).
LEMMA ConRecursos ==
    ASSUME NEW s \in EstadoKernel, NEW x \in [Recursos -> Recurso]
    PROVE  Conserva(s, [s EXCEPT !.recursos = x])
<1> DEFINE t == [s EXCEPT !.recursos = x]
<1>1. t \in EstadoKernel
  BY Zenon DEF EstadoKernel
<1>2. t.cola = s.cola
  BY Zenon DEF EstadoKernel
<1> QED
  BY <1>1, <1>2, MismaCola

\* Writing one entry of the list of interfaces.
LEMMA ConIo ==
    ASSUME NEW s \in EstadoKernel, NEW i \in Interfaces, NEW x \in Interfaz
    PROVE  Conserva(s, [s EXCEPT !.io[i] = x])
<1> DEFINE t == [s EXCEPT !.io[i] = x]
<1>1. t \in EstadoKernel
  BY Zenon DEF EstadoKernel
<1>2. t.cola = s.cola
  BY Zenon DEF EstadoKernel
<1> QED
  BY <1>1, <1>2, MismaCola

\* Writing the count of the planificador_iniciar semaphore.
LEMMA ConFichas ==
    ASSUME NEW s \in EstadoKernel, NEW x \in Nat
    PROVE  Conserva(s, [s EXCEPT !.planificador_iniciar = x])
<1> DEFINE t == [s EXCEPT !.planificador_iniciar = x]
<1>1. t \in EstadoKernel
  BY Zenon DEF EstadoKernel
<1>2. t.cola = s.cola
  BY Zenon DEF EstadoKernel
<1> QED
  BY <1>1, <1>2, MismaCola

\* Writing the flag that DETENER_PLANIFICACION sets.
LEMMA ConDetener ==
    ASSUME NEW s \in EstadoKernel, NEW x \in BOOLEAN
    PROVE  Conserva(s, [s EXCEPT !.detener = x])
<1> DEFINE t == [s EXCEPT !.detener = x]
<1>1. t \in EstadoKernel
  BY Zenon DEF EstadoKernel
<1>2. t.cola = s.cola
  BY Zenon DEF EstadoKernel
<1> QED
  BY <1>1, <1>2, MismaCola

\* Writing the degree of multiprogramming.
LEMMA ConGrado ==
    ASSUME NEW s \in EstadoKernel, NEW x \in Nat
    PROVE  Conserva(s, [s EXCEPT !.grado = x])
<1> DEFINE t == [s EXCEPT !.grado = x]
<1>1. t \in EstadoKernel
  BY Zenon DEF EstadoKernel
<1>2. t.cola = s.cola
  BY Zenon DEF EstadoKernel
<1> QED
  BY <1>1, <1>2, MismaCola

\* Writing the timer of the quantum.
LEMMA ConTimer ==
    ASSUME NEW s \in EstadoKernel, NEW x \in Temporizador
    PROVE  Conserva(s, [s EXCEPT !.timer = x])
<1> DEFINE t == [s EXCEPT !.timer = x]
<1>1. t \in EstadoKernel
  BY Zenon DEF EstadoKernel
<1>2. t.cola = s.cola
  BY Zenon DEF EstadoKernel
<1> QED
  BY <1>1, <1>2, MismaCola

\* Writing the socket to the dispatch port of the CPU.
LEMMA ConACpu ==
    ASSUME NEW s \in EstadoKernel, NEW x \in Seq([pid : Pids, pc : 0 .. MaxPc])
    PROVE  Conserva(s, [s EXCEPT !.a_cpu = x])
<1> DEFINE t == [s EXCEPT !.a_cpu = x]
<1>1. t \in EstadoKernel
  BY Zenon DEF EstadoKernel
<1>2. t.cola = s.cola
  BY Zenon DEF EstadoKernel
<1> QED
  BY <1>1, <1>2, MismaCola

\* Writing the socket to the interrupt port of the CPU.
LEMMA ConAInterrupt ==
    ASSUME NEW s \in EstadoKernel, NEW x \in Seq(Pids)
    PROVE  Conserva(s, [s EXCEPT !.a_interrupt = x])
<1> DEFINE t == [s EXCEPT !.a_interrupt = x]
<1>1. t \in EstadoKernel
  BY Zenon DEF EstadoKernel
<1>2. t.cola = s.cola
  BY Zenon DEF EstadoKernel
<1> QED
  BY <1>1, <1>2, MismaCola

\* Writing the socket to memoria.
LEMMA ConAMemoria ==
    ASSUME NEW s \in EstadoKernel, NEW x \in Seq([op : {"NUEVO_PROCESO", "FINALIZAR_PROCESO"}, pid : Pids])
    PROVE  Conserva(s, [s EXCEPT !.a_memoria = x])
<1> DEFINE t == [s EXCEPT !.a_memoria = x]
<1>1. t \in EstadoKernel
  BY Zenon DEF EstadoKernel
<1>2. t.cola = s.cola
  BY Zenon DEF EstadoKernel
<1> QED
  BY <1>1, <1>2, MismaCola

\* Writing the socket to one interface.
LEMMA ConAIo ==
    ASSUME NEW s \in EstadoKernel, NEW i \in Interfaces, NEW x \in Seq(PaqueteIo)
    PROVE  Conserva(s, [s EXCEPT !.a_io[i] = x])
<1> DEFINE t == [s EXCEPT !.a_io[i] = x]
<1>1. t \in EstadoKernel
  BY Zenon DEF EstadoKernel
<1>2. t.cola = s.cola
  BY Zenon DEF EstadoKernel
<1> QED
  BY <1>1, <1>2, MismaCola

\* Writing the flag of a kernel ended by a NULL dereference.
LEMMA ConCaido ==
    ASSUME NEW s \in EstadoKernel, NEW x \in BOOLEAN
    PROVE  Conserva(s, [s EXCEPT !.caido = x])
<1> DEFINE t == [s EXCEPT !.caido = x]
<1>1. t \in EstadoKernel
  BY Zenon DEF EstadoKernel
<1>2. t.cola = s.cola
  BY Zenon DEF EstadoKernel
<1> QED
  BY <1>1, <1>2, MismaCola


\* Conserva carries the type of the state.
LEMMA Tipado ==
    ASSUME NEW s, NEW t, Conserva(s, t)
    PROVE  t \in EstadoKernel
BY DEF Conserva

\* The PCB and the dictionary entry of a pid have their types.
LEMMA PcbTipo ==
    ASSUME NEW s \in EstadoKernel, NEW p \in Pids
    PROVE  s.pcb[p] \in Pcb /\ s.procesos[p] \in Colas \cup {SinEstado}
<1>1. s.pcb \in [Pids -> Pcb] /\ s.procesos \in [Pids -> Colas \cup {SinEstado}]
  BY Zenon DEF EstadoKernel
<1> QED
  BY <1>1

\* The head of a list that is not empty is a pid.
LEMMA CabezaTipo ==
    ASSUME NEW s \in EstadoKernel, NEW e \in Colas, s.cola[e] # << >>
    PROVE  /\ Head(s.cola[e]) \in Pids
           /\ Tail(s.cola[e]) \in Seq(Pids)
           /\ Len(Tail(s.cola[e])) <= Len(s.cola[e])
BY ColaTipo, HeadTailProperties

\* proceso_push_* on any list but EXEC lets EXEC alone.
LEMMA PushConserva ==
    ASSUME NEW s \in EstadoKernel, NEW e \in Colas, e # "EXEC", NEW p \in Pids
    PROVE  Conserva(s, Push(s, e, p))
<1> DEFINE t == [s EXCEPT !.cola[e] = Append(s.cola[e], p)]
<1>1. Append(s.cola[e], p) \in Seq(Pids)
  BY ColaTipo, AppendProperties
<1>2. Conserva(s, t)
  BY <1>1, ConCola
<1>3. Conserva(t, [t EXCEPT !.procesos[p] = e])
  BY <1>2, Tipado, ConEstado
<1>4. Push(s, e, p) = [t EXCEPT !.procesos[p] = e]
  BY DEF Push
<1> QED
  BY <1>2, <1>3, <1>4, Transitiva

\* proceso_pop_* takes one pid out of a list and adds none.
LEMMA PopConserva ==
    ASSUME NEW s \in EstadoKernel, NEW e \in Colas, s.cola[e] # << >>
    PROVE  Conserva(s, Pop(s, e))
BY CabezaTipo, ConCola DEF Pop

\* A kernel that falls keeps its lists.
LEMMA CaerConserva ==
    ASSUME NEW s \in EstadoKernel
    PROVE  Conserva(s, Caer(s))
BY ConCaido DEF Caer

\* planificador_avisar touches the semaphore only.
LEMMA AvisarConserva ==
    ASSUME NEW s \in EstadoKernel
    PROVE  Conserva(s, Avisar(s))
<1>1. s.planificador_iniciar \in Nat
  BY Zenon DEF EstadoKernel
<1>2. s.planificador_iniciar + 1 \in Nat
  BY <1>1
<1> QED
  BY <1>2, ConFichas DEF Avisar

\* proceso_crear gives a PCB of its type.
LEMMA PcbCrearTipo == PcbCrear \in Pcb
BY LimitesAssumption DEF Pcb, PcbCrear

\* proceso_matar drops a PCB and its dictionary entry and no list grows.
LEMMA MatarConserva ==
    ASSUME NEW s \in EstadoKernel, NEW p \in Pids
    PROVE  Conserva(s, Matar(s, p))
<1> DEFINE estado == s.procesos[p]
           q == Quitar(s.cola[estado], p)
           t == [s EXCEPT !.cola[estado] = q]
           u == [t EXCEPT !.pcb[p] = PcbCrear]
           v == [u EXCEPT !.procesos[p] = "EXIT"]
<1>1. CASE estado \in {"READY_PRIORIDAD", SinEstado}
  BY <1>1, CaerConserva DEF Matar
<1>2. CASE estado \notin {"READY_PRIORIDAD", SinEstado} /\ ~ Esta(s, estado, p)
  <2>1. Conserva(s, s)
    BY MismaCola
  <2> QED
    BY <1>2, <2>1 DEF Matar
<1>3. CASE estado \notin {"READY_PRIORIDAD", SinEstado} /\ Esta(s, estado, p)
  <2>1. estado \in Colas /\ "EXIT" \in Colas
    BY <1>3, PcbTipo DEF Colas
  <2>2. q \in Seq(Pids) /\ Len(q) <= Len(s.cola[estado])
    BY <1>3, <2>1, ColaTipo, QuitarTipo DEF Esta
  <2>3. Conserva(s, t)
    BY <2>1, <2>2, ConCola
  <2>4. Conserva(t, u)
    BY <2>3, PcbCrearTipo, Tipado, ConPcb
  <2>5. Conserva(u, v)
    BY <2>1, <2>4, Tipado, ConEstado
  <2>6. Matar(s, p) = v
    BY <1>3 DEF Matar
  <2>7. Conserva(s, v)
    BY <2>3, <2>4, <2>5, Tipado, Transitiva
  <2> QED
    BY <2>6, <2>7
<1> QED
  BY <1>1, <1>2, <1>3

\* proceso_revertir takes a pid out of NEW and gives its number back: no
\* list grows, whatever element list_remove finds at that index.
LEMMA RevertirConserva ==
    ASSUME NEW s \in EstadoKernel, NEW p \in Pids
    PROVE  Conserva(s, Revertir(s, p))
<1> DEFINE n == s.cola["NEW"]
           q == IF n = << >> THEN n ELSE IF p \in Range(n) THEN Quitar(n, p) ELSE Tail(n)
           t == [s EXCEPT !.cola["NEW"] = q]
           u == [t EXCEPT !.procesos[p] = SinEstado]
<1>1. "NEW" \in Colas /\ n \in Seq(Pids)
  BY ColaTipo DEF Colas
<1>2. q \in Seq(Pids)
  BY <1>1, QuitarTipo, HeadTailProperties
<1>3. Conserva(s, t)
  BY <1>1, <1>2, ConCola
<1>4. Conserva(t, u)
  BY <1>3, Tipado, ConEstado
<1>5. s.pid - 1 \in Int
  <2>1. s.pid \in Int
    BY Zenon DEF EstadoKernel
  <2> QED
    BY <2>1
<1>6. Conserva(u, [u EXCEPT !.pid = s.pid - 1])
  BY <1>4, <1>5, Tipado, ConPid
<1>7. Revertir(s, p) = [u EXCEPT !.pid = s.pid - 1]
  BY DEF Revertir
<1> HIDE DEF t, u
<1> QED
  BY <1>3, <1>4, <1>6, <1>7, Tipado, Transitiva

-----------------------------------------------------------------------------
\* The writes of the kernel to the fields of a PCB keep its type.
LEMMA PcbCampos ==
    ASSUME NEW x \in Pcb
    PROVE  /\ \A v \in BOOLEAN : [x EXCEPT !.quantum_largo = v] \in Pcb
           /\ \A v \in BOOLEAN : [x EXCEPT !.memoria_aceptado = v] \in Pcb
           /\ \A v \in 0 .. MaxPc : [x EXCEPT !.pc = v] \in Pcb
           /\ \A v \in Interfaces \cup {SinIo} : [x EXCEPT !.proxima_io = v] \in Pcb
           /\ \A v \in SUBSET Recursos : [x EXCEPT !.claves_tomados = v] \in Pcb
           /\ \A v \in [Recursos -> Int] : [x EXCEPT !.recursos_tomados = v] \in Pcb
BY Zenon DEF Pcb

\* The fields of the timer keep their types.
LEMMA TemporizadorCampos ==
    ASSUME NEW x \in Temporizador
    PROVE  /\ \A v \in BOOLEAN : [x EXCEPT !.armado = v] \in Temporizador
           /\ \A v \in Nat : [x EXCEPT !.huerfanos = v] \in Temporizador
           /\ \A v \in Nat : [x EXCEPT !.avisos = v] \in Temporizador
           /\ x.armado \in BOOLEAN /\ x.huerfanos \in Nat /\ x.avisos \in Nat
BY Zenon DEF Temporizador

\* kernel_enviar_ejecutar adds a message to the dispatch socket.
LEMMA EnviarEjecutarConserva ==
    ASSUME NEW s \in EstadoKernel, NEW p \in Pids
    PROVE  Conserva(s, EnviarEjecutar(s, p))
<1>1. s.a_cpu \in Seq([pid : Pids, pc : 0 .. MaxPc])
  BY Zenon DEF EstadoKernel
<1>2. [pid |-> p, pc |-> s.pcb[p].pc] \in [pid : Pids, pc : 0 .. MaxPc]
  BY PcbTipo DEF Pcb
<1>3. Append(s.a_cpu, [pid |-> p, pc |-> s.pcb[p].pc])
        \in Seq([pid : Pids, pc : 0 .. MaxPc])
  BY <1>1, <1>2, AppendProperties
<1> QED
  BY <1>3, ConACpu DEF EnviarEjecutar

\* kernel_enviar_interrupcion adds a message to the interrupt socket.
LEMMA InterrumpirCpuConserva ==
    ASSUME NEW s \in EstadoKernel, NEW p \in Pids
    PROVE  Conserva(s, InterrumpirCpu(s, p))
<1>1. s.a_interrupt \in Seq(Pids)
  BY Zenon DEF EstadoKernel
<1>2. Append(s.a_interrupt, p) \in Seq(Pids)
  BY <1>1, AppendProperties
<1> QED
  BY <1>2, ConAInterrupt DEF InterrumpirCpu

\* The notice of an ended process adds a message to the memoria socket.
LEMMA AvisarMemoriaConserva ==
    ASSUME NEW s \in EstadoKernel, NEW p \in Pids
    PROVE  Conserva(s, AvisarMemoriaFinalizacion(s, p))
<1> DEFINE M == [op : {"NUEVO_PROCESO", "FINALIZAR_PROCESO"}, pid : Pids]
           m == [op |-> "FINALIZAR_PROCESO", pid |-> p]
<1>1. s.a_memoria \in Seq(M) /\ m \in M
  BY Zenon DEF EstadoKernel
<1>2. Append(s.a_memoria, m) \in Seq(M)
  BY <1>1, AppendProperties
<1> QED
  BY <1>2, ConAMemoria DEF AvisarMemoriaFinalizacion

\* temporizador_iniciar arms the timer and no list changes.
LEMMA IniciarTemporizadorConserva ==
    ASSUME NEW s \in EstadoKernel
    PROVE  Conserva(s, IniciarTemporizador(s))
<1> DEFINE n == IF s.timer.armado THEN s.timer.huerfanos + 1 ELSE s.timer.huerfanos
           x == [[s.timer EXCEPT !.huerfanos = n] EXCEPT !.armado = TRUE]
<1>1. s.timer \in Temporizador
  BY Zenon DEF EstadoKernel
<1>2. x \in Temporizador
  <2>1. n \in Nat
    BY <1>1, TemporizadorCampos
  <2> HIDE DEF n
  <2> QED
    BY <1>1, <2>1, TemporizadorCampos
<1>3. IniciarTemporizador(s) = [s EXCEPT !.timer = x]
  BY Zenon DEF IniciarTemporizador, EstadoKernel
<1> QED
  BY <1>2, <1>3, ConTimer

\* interrumpir_temporizador disarms the timer and no list changes.
LEMMA InterrumpirTemporizadorConserva ==
    ASSUME NEW s \in EstadoKernel
    PROVE  Conserva(s, InterrumpirTemporizador(s))
<1>1. s.timer \in Temporizador
  BY Zenon DEF EstadoKernel
<1>2. [s.timer EXCEPT !.armado = FALSE] \in Temporizador
  BY <1>1, TemporizadorCampos
<1>3. Conserva(s, [s EXCEPT !.timer.armado = FALSE])
  BY <1>2, ConTimer
<1>4. Conserva(s, s)
  BY MismaCola
<1> QED
  BY <1>3, <1>4 DEF InterrumpirTemporizador

\* Storing the rest of the quantum in the PCB changes no list.
LEMMA GuardarQuantumConserva ==
    ASSUME NEW s \in EstadoKernel, NEW p \in Pids, NEW resto \in BOOLEAN
    PROVE  Conserva(s, GuardarQuantum(s, p, resto))
<1> DEFINE t == InterrumpirTemporizador(s)
           b == QuantumRestante(s, resto)
<1>1. Conserva(s, t)
  BY InterrumpirTemporizadorConserva
<1>2. b \in BOOLEAN
  <2>1. s.timer \in Temporizador
    BY Zenon DEF EstadoKernel
  <2>2. s.timer.armado \in BOOLEAN
    BY <2>1 DEF Temporizador
  <2> QED
    BY <2>2, Zenon DEF QuantumRestante
<1> HIDE DEF t, b
<1>3. [t.pcb[p] EXCEPT !.quantum_largo = b] \in Pcb
  BY <1>1, <1>2, Tipado, PcbTipo, PcbCampos
<1>4. Conserva(t, [t EXCEPT !.pcb[p] = [t.pcb[p] EXCEPT !.quantum_largo = b]])
  BY <1>1, <1>3, Tipado, ConPcb
<1>5. GuardarQuantum(s, p, resto)
        = [t EXCEPT !.pcb[p] = [t.pcb[p] EXCEPT !.quantum_largo = b]]
  BY DEF GuardarQuantum, t, b
<1> QED
  BY <1>1, <1>4, <1>5, Transitiva

-----------------------------------------------------------------------------
\* A transition between two lists never lengthens EXEC unless EXEC is its
\* target.
LEMMA MoverConserva ==
    ASSUME NEW s \in EstadoKernel, NEW de \in Colas, NEW a \in Colas, a # "EXEC"
    PROVE  Conserva(s, Mover(s, de, a))
<1>1. CASE s.cola[de] = << >>
  BY <1>1, MismaCola DEF Mover
<1>2. CASE s.cola[de] # << >>
  <2>1. Conserva(s, Pop(s, de)) /\ Head(s.cola[de]) \in Pids
    BY <1>2, PopConserva, CabezaTipo
  <2>2. Conserva(Pop(s, de), Push(Pop(s, de), a, Head(s.cola[de])))
    BY <2>1, Tipado, PushConserva
  <2> QED
    BY <1>2, <2>1, <2>2, Transitiva DEF Mover
<1> QED
  BY <1>1, <1>2

\* The four transitions that leave EXEC.
LEMMA ExecConserva ==
    ASSUME NEW s \in EstadoKernel
    PROVE  /\ Conserva(s, ExecReady(s))
           /\ Conserva(s, ExecReadyMayorPrioridad(s))
           /\ Conserva(s, ExecBlock(s))
           /\ Conserva(s, ExecExit(s))
<1>1. \A a \in Colas \ {"EXEC"} : Conserva(s, Mover(s, "EXEC", a))
  BY MoverConserva DEF Colas
<1>2. Conserva(s, Mover(s, "EXEC", "EXIT"))
  BY <1>1 DEF Colas
<1>3. Conserva(s, Avisar(Mover(s, "EXEC", "EXIT")))
  BY <1>2, Tipado, AvisarConserva, Transitiva
<1>4. Conserva(s, s)
  BY MismaCola
<1> QED
  BY <1>1, <1>3, <1>4 DEF ExecReady, ExecReadyMayorPrioridad, ExecBlock, ExecExit, Colas

\* Taking a pid out of BLOCK into a list other than EXEC.
LEMMA SacarDeBlockConserva ==
    ASSUME NEW s \in EstadoKernel, NEW p \in Pids, NEW a \in Colas, a # "EXEC"
    PROVE  Conserva(s, SacarDeBlock(s, p, a))
<1>1. CASE ~ Esta(s, "BLOCK", p)
  BY <1>1, MismaCola DEF SacarDeBlock
<1>2. CASE Esta(s, "BLOCK", p)
  <2> DEFINE t == [s EXCEPT !.cola["BLOCK"] = Quitar(s.cola["BLOCK"], p)]
  <2>1. "BLOCK" \in Colas
    BY DEF Colas
  <2>2. Quitar(s.cola["BLOCK"], p) \in Seq(Pids)
    BY <1>2, <2>1, ColaTipo, QuitarTipo DEF Esta
  <2>3. Conserva(s, t)
    BY <2>1, <2>2, ConCola
  <2>4. Conserva(t, Push(t, a, p))
    BY <2>3, Tipado, PushConserva
  <2>5. SacarDeBlock(s, p, a) = Push(t, a, p)
    BY <1>2 DEF SacarDeBlock
  <2> QED
    BY <2>3, <2>4, <2>5, Transitiva
<1> QED
  BY <1>1, <1>2

\* The four transitions that leave BLOCK.
LEMMA BlockConserva ==
    ASSUME NEW s \in EstadoKernel, NEW p \in Pids
    PROVE  /\ Conserva(s, BlockReady(s, p))
           /\ Conserva(s, BlockReadyMayorPrioridad(s, p))
           /\ Conserva(s, BlockExit(s, p))
           /\ Conserva(s, ManejarBlockReady(s, p))
<1>1. \A a \in Colas \ {"EXEC"} : Conserva(s, SacarDeBlock(s, p, a))
  BY SacarDeBlockConserva
<1> QED
  BY <1>1 DEF BlockReady, BlockReadyMayorPrioridad, BlockExit, ManejarBlockReady, Colas

\* kernel_manejar_exec_a_ready, with the interrupted timer and either READY
\* list.
LEMMA ManejarExecReadyConserva ==
    ASSUME NEW s \in EstadoKernel, NEW p \in Pids, NEW resto \in BOOLEAN
    PROVE  Conserva(s, ManejarExecReady(s, p, resto))
<1> DEFINE t == InterrumpirTemporizador(s)
           u == [t EXCEPT !.pcb[p] = [t.pcb[p] EXCEPT !.quantum_largo = TRUE]]
<1>1. Conserva(s, t)
  BY InterrumpirTemporizadorConserva
<1> HIDE DEF t
<1>2. [t.pcb[p] EXCEPT !.quantum_largo = TRUE] \in Pcb
  BY <1>1, Tipado, PcbTipo, PcbCampos
<1>3. Conserva(s, u)
  <2>1. Conserva(t, u)
    BY <1>1, <1>2, Tipado, ConPcb
  <2> QED
    BY <1>1, <2>1, Transitiva
<1>4. Conserva(s, ExecReadyMayorPrioridad(u))
  BY <1>3, Tipado, ExecConserva, Transitiva
<1>5. Conserva(s, ExecReady(t))
  BY <1>1, Tipado, ExecConserva, Transitiva
<1>6. Conserva(s, s) /\ Conserva(s, ExecReady(s))
  BY MismaCola, ExecConserva
<1>7. \/ ManejarExecReady(s, p, resto) = s
      \/ ManejarExecReady(s, p, resto) = ExecReady(s)
      \/ ManejarExecReady(s, p, resto) = ExecReady(t)
      \/ ManejarExecReady(s, p, resto) = ExecReadyMayorPrioridad(u)
  BY DEF ManejarExecReady, t
<1> QED
  BY <1>4, <1>5, <1>6, <1>7

-----------------------------------------------------------------------------
\* Ending a process that memoria must forget as well.
LEMMA MatarEnMemoriaConserva ==
    ASSUME NEW s \in EstadoKernel, NEW p \in Pids
    PROVE  Conserva(s, MatarEnMemoria(s, p))
BY AvisarMemoriaConserva, MatarConserva, Tipado, Transitiva DEF MatarEnMemoria

\* The endings of a process that the CPU reports over dispatch.
LEMMA FinalizarConserva ==
    ASSUME NEW s \in EstadoKernel, NEW p \in Pids
    PROVE  /\ Conserva(s, FinalizarExito(s, p))
           /\ Conserva(s, FinalizarSinMemoria(s, p))
<1>1. Conserva(s, s)
  BY MismaCola
<1>2. Conserva(s, SalirDeExec(s, p))
  BY <1>1, ExecConserva DEF SalirDeExec
<1>3. Conserva(s, MatarEnMemoria(SalirDeExec(s, p), p))
  BY <1>2, MatarEnMemoriaConserva, Tipado, Transitiva
<1> QED
  BY <1>1, <1>3 DEF FinalizarExito, FinalizarSinMemoria

\* The ending INVALID_INTERFACE.
LEMMA FinalizarInterfazInvalidaConserva ==
    ASSUME NEW s \in EstadoKernel, NEW p \in Pids
    PROVE  Conserva(s, FinalizarInterfazInvalida(s, p))
<1>1. Conserva(s, s) /\ Conserva(s, Caer(s))
  BY MismaCola, CaerConserva
<1>2. CASE s.cola["EXEC"] # << >>
  <2> DEFINE cabeza == Head(s.cola["EXEC"])
             t == AvisarMemoriaFinalizacion(ExecExit(s), p)
  <2>1. cabeza \in Pids
    BY <1>2, CabezaTipo, ExecEsCola
  <2>2. Conserva(s, t)
    BY ExecConserva, AvisarMemoriaConserva, Tipado, Transitiva
  <2>3. Conserva(s, Matar(t, cabeza))
    BY <2>1, <2>2, MatarConserva, Tipado, Transitiva
  <2> QED
    BY <1>1, <1>2, <2>3 DEF FinalizarInterfazInvalida
<1>3. CASE s.cola["EXEC"] = << >>
  BY <1>1, <1>3 DEF FinalizarInterfazInvalida
<1> QED
  BY <1>2, <1>3

\* The ending INVALID_RESOURCE, with the fall through into the next case.
LEMMA FinalizarRecursoInvalidoConserva ==
    ASSUME NEW s \in EstadoKernel, NEW p \in Pids
    PROVE  Conserva(s, FinalizarRecursoInvalido(s, p))
<1> DEFINE salido == IF s.procesos[p] = "EXEC" THEN ExecExit(s) ELSE BlockExit(s, p)
<1>1. Conserva(s, s)
  BY MismaCola
<1>2. Conserva(s, salido)
  BY ExecConserva, BlockConserva
<1> HIDE DEF salido
<1>3. Conserva(s, Matar(salido, p))
  BY <1>2, MatarConserva, Tipado, Transitiva
<1>4. Conserva(s, MatarEnMemoria(Matar(salido, p), p))
  BY <1>3, MatarEnMemoriaConserva, Tipado, Transitiva
<1> QED
  BY <1>1, <1>4 DEF FinalizarRecursoInvalido, salido

-----------------------------------------------------------------------------
\* A resource has its type: instances and the two lists of pids.
LEMMA RecursoTipo ==
    ASSUME NEW s \in EstadoKernel, NEW r \in Recursos
    PROVE  /\ s.recursos[r] \in Recurso
           /\ s.recursos[r].instancias \in Int
           /\ s.recursos[r].bloqueados \in Seq(Pids)
<1>1. s.recursos \in [Recursos -> Recurso]
  BY Zenon DEF EstadoKernel
<1>2. s.recursos[r] \in Recurso
  BY <1>1
<1> QED
  BY <1>2 DEF Recurso

\* The writes to the fields of a resource keep its type.
LEMMA RecursoCampos ==
    ASSUME NEW x \in Recurso
    PROVE  /\ \A v \in Int : [x EXCEPT !.instancias = v] \in Recurso
           /\ \A v \in Seq(Pids) : [x EXCEPT !.bloqueados = v] \in Recurso
BY Zenon DEF Recurso

\* Taking an instance of a resource for a pid changes no process list.
LEMMA TomarConserva ==
    ASSUME NEW s \in EstadoKernel, NEW p \in Pids, NEW r \in Recursos
    PROVE  Conserva(s, Tomar(s, p, r))
<1> DEFINE claves == s.pcb[p].claves_tomados \cup {r}
           tomados == [s.pcb[p].recursos_tomados EXCEPT ![r] = @ + 1]
           x == [s.pcb[p] EXCEPT !.claves_tomados = claves]
           y == [x EXCEPT !.recursos_tomados = tomados]
<1>1. s.pcb[p] \in Pcb
  BY PcbTipo
<1>2. claves \in SUBSET Recursos /\ tomados \in [Recursos -> Int]
  BY <1>1 DEF Pcb
<1> HIDE DEF claves, tomados
<1>3. x \in Pcb
  BY <1>1, <1>2, PcbCampos
<1>4. y \in Pcb
  BY <1>2, <1>3, PcbCampos
<1>5. Tomar(s, p, r) = [s EXCEPT !.pcb[p] = y]
  <2>1. s.pcb \in [Pids -> Pcb]
    BY Zenon DEF EstadoKernel
  <2> QED
    BY <1>1, <2>1 DEF Tomar, EstadoKernel, Pcb, claves, tomados
<1> QED
  BY <1>4, <1>5, ConPcb

\* Giving an instance back changes no process list.
LEMMA DevolverConserva ==
    ASSUME NEW s \in EstadoKernel, NEW p \in Pids, NEW r \in Recursos
    PROVE  Conserva(s, Devolver(s, p, r))
<1> DEFINE tomados == [s.pcb[p].recursos_tomados EXCEPT ![r] = @ - 1]
           x == [s.pcb[p] EXCEPT !.recursos_tomados = tomados]
<1>1. s.pcb[p] \in Pcb
  BY PcbTipo
<1>2. tomados \in [Recursos -> Int]
  BY <1>1 DEF Pcb
<1>3. Conserva(s, [s EXCEPT !.pcb[p] = x])
  BY <1>1, <1>2, PcbCampos, ConPcb
<1>4. Conserva(s, s)
  BY MismaCola
<1> QED
  BY <1>3, <1>4 DEF Devolver

\* Taking a pid out of the waiting list of a resource changes no process list.
LEMMA LiberarConserva ==
    ASSUME NEW s \in EstadoKernel, NEW p \in Pids, NEW r \in Recursos
    PROVE  Conserva(s, Liberar(s, p, r))
<1> DEFINE t == Devolver(s, p, r)
           x == [t.recursos[r] EXCEPT !.instancias = @ + 1]
<1>1. Conserva(s, t)
  BY DevolverConserva
<1> HIDE DEF t
<1>2. x \in Recurso
  <2>1. t.recursos[r] \in Recurso /\ t.recursos[r].instancias \in Int
    BY <1>1, Tipado, RecursoTipo
  <2>2. t.recursos[r].instancias + 1 \in Int
    BY <2>1
  <2> QED
    BY <2>1, <2>2, RecursoCampos, Zenon
<1>3. Conserva(t, [t EXCEPT !.recursos[r] = x])
  BY <1>1, <1>2, Tipado, ConRecurso
<1>4. Liberar(s, p, r) = [t EXCEPT !.recursos[r] = x]
  BY DEF Liberar, t
<1> QED
  BY <1>1, <1>3, <1>4, Transitiva

\* The blocking branch of WAIT takes its pid out of EXEC.
LEMMA BloquearEnRecursoConserva ==
    ASSUME NEW s \in EstadoKernel, NEW p \in Pids, NEW r \in Recursos,
           NEW resto \in BOOLEAN
    PROVE  Conserva(s, BloquearEnRecurso(s, p, r, resto))
<1> DEFINE t == GuardarQuantum(s, p, resto)
           x == [t.recursos[r] EXCEPT !.bloqueados = Append(@, p)]
           u == [t EXCEPT !.recursos[r] = x]
<1>1. Conserva(s, t)
  BY GuardarQuantumConserva
<1> HIDE DEF t
<1>2. x \in Recurso
  BY <1>1, Tipado, RecursoTipo, RecursoCampos, AppendProperties
<1>3. Conserva(t, u)
  BY <1>1, <1>2, Tipado, ConRecurso
<1>4. Conserva(s, u)
  BY <1>1, <1>3, Transitiva
<1>5. Conserva(s, ExecBlock(u))
  BY <1>4, Tipado, ExecConserva, Transitiva
<1>6. BloquearEnRecurso(s, p, r, resto) = ExecBlock(u)
  BY DEF BloquearEnRecurso, t
<1> QED
  BY <1>5, <1>6

\* kernel_wait, in each of its branches.
LEMMA WaitConserva ==
    ASSUME NEW s \in EstadoKernel, NEW p \in Pids, NEW r, NEW resto \in BOOLEAN
    PROVE  Conserva(s, Wait(s, p, r, resto))
<1>1. CASE r \notin Recursos
  <2>1. Conserva(s, GuardarQuantum(s, p, resto))
    BY GuardarQuantumConserva
  <2>2. Conserva(s, FinalizarRecursoInvalido(GuardarQuantum(s, p, resto), p))
    BY <2>1, FinalizarRecursoInvalidoConserva, Tipado, Transitiva
  <2> QED
    BY <1>1, <2>2 DEF Wait
<1>2. CASE r \in Recursos
  <2> DEFINE t == Tomar(s, p, r)
             x == [t.recursos[r] EXCEPT !.instancias = @ - 1]
             u == [t EXCEPT !.recursos[r] = x]
  <2>1. Conserva(s, t)
    BY <1>2, TomarConserva
  <2>2. Wait(s, p, r, resto) =
            IF t.recursos[r].instancias < 0 THEN BloquearEnRecurso(t, p, r, resto)
            ELSE IF u.recursos[r].instancias < 0 THEN BloquearEnRecurso(u, p, r, resto)
            ELSE ManejarExecReady(u, p, resto)
    BY <1>2 DEF Wait
  <2> HIDE DEF t
  <2>3. x \in Recurso
    <3>1. t.recursos[r] \in Recurso /\ t.recursos[r].instancias \in Int
      BY <1>2, <2>1, Tipado, RecursoTipo
    <3>2. t.recursos[r].instancias - 1 \in Int
      BY <3>1
    <3> QED
      BY <3>1, <3>2, RecursoCampos, Zenon
  <2>4. Conserva(t, u)
    BY <1>2, <2>1, <2>3, Tipado, ConRecurso
  <2>5. Conserva(s, u)
    BY <2>1, <2>4, Transitiva
  <2> HIDE DEF u
  <2>6. Conserva(s, BloquearEnRecurso(t, p, r, resto))
    BY <1>2, <2>1, BloquearEnRecursoConserva, Tipado, Transitiva
  <2>7. Conserva(s, BloquearEnRecurso(u, p, r, resto))
    BY <1>2, <2>5, BloquearEnRecursoConserva, Tipado, Transitiva
  <2>8. Conserva(s, ManejarExecReady(u, p, resto))
    BY <2>5, ManejarExecReadyConserva, Tipado, Transitiva
  <2> QED
    BY <2>2, <2>6, <2>7, <2>8
<1> QED
  BY <1>1, <1>2

\* Popping the waiting list of a resource changes no process list.
LEMMA SinCabezaConserva ==
    ASSUME NEW s \in EstadoKernel, NEW r \in Recursos, s.recursos[r].bloqueados # << >>
    PROVE  /\ Conserva(s, SinCabeza(s, r))
           /\ Head(s.recursos[r].bloqueados) \in Pids
<1>1. /\ Tail(s.recursos[r].bloqueados) \in Seq(Pids)
      /\ Head(s.recursos[r].bloqueados) \in Pids
  BY RecursoTipo, HeadTailProperties
<1>2. [s.recursos[r] EXCEPT !.bloqueados = Tail(@)] \in Recurso
  BY <1>1, RecursoTipo, RecursoCampos
<1> QED
  BY <1>1, <1>2, ConRecurso DEF SinCabeza

\* kernel_signal for a SIGNAL instruction, whatever its read of a freed head
\* gives.
LEMMA SignalConserva ==
    ASSUME NEW s \in EstadoKernel, NEW p \in Pids, NEW r, NEW resto \in BOOLEAN,
           NEW cabeza \in 0 .. MaxPid
    PROVE  Conserva(s, Signal(s, p, r, resto, cabeza))
<1>1. CASE r \notin Recursos
  BY <1>1, FinalizarRecursoInvalidoConserva DEF Signal
<1>2. CASE r \in Recursos
  <2> DEFINE t == Liberar(s, p, r)
             u == SinCabeza(t, r)
             v == IF u.procesos[cabeza] = "BLOCK" THEN ManejarBlockReady(u, cabeza) ELSE u
  <2>1. Conserva(s, t)
    BY <1>2, LiberarConserva
  <2>2. Signal(s, p, r, resto, cabeza) =
            IF ~ HayQueDesbloquear(t, r) THEN ManejarExecReady(t, p, resto)
            ELSE IF cabeza = 0 \/ t.procesos[cabeza] = SinEstado THEN Caer(t)
            ELSE ManejarExecReady(v, p, resto)
    BY <1>2 DEF Signal, SinCabeza
  <2> HIDE DEF t
  <2>3. CASE ~ HayQueDesbloquear(t, r)
    BY <2>1, <2>2, <2>3, ManejarExecReadyConserva, Tipado, Transitiva
  <2>4. CASE HayQueDesbloquear(t, r) /\ (cabeza = 0 \/ t.procesos[cabeza] = SinEstado)
    BY <2>1, <2>2, <2>4, CaerConserva, Tipado, Transitiva
  <2>5. CASE HayQueDesbloquear(t, r) /\ ~ (cabeza = 0 \/ t.procesos[cabeza] = SinEstado)
    <3>1. cabeza \in Pids
      BY <2>5, LimitesAssumption DEF Pids
    <3>2. Conserva(t, u)
      BY <1>2, <2>1, <2>5, Tipado, SinCabezaConserva DEF HayQueDesbloquear
    <3>3. Conserva(s, u)
      BY <2>1, <3>2, Transitiva
    <3> HIDE DEF u
    <3>4. Conserva(s, v)
      BY <3>1, <3>3, BlockConserva, Tipado, Transitiva
    <3> HIDE DEF v
    <3>5. Conserva(s, ManejarExecReady(v, p, resto))
      BY <3>4, ManejarExecReadyConserva, Tipado, Transitiva
    <3> QED
      BY <2>2, <2>5, <3>5
  <2> QED
    BY <2>3, <2>4, <2>5
<1> QED
  BY <1>1, <1>2

-----------------------------------------------------------------------------
\* The elements of a list of pids are pids.
LEMMA RangoTipo ==
    ASSUME NEW q \in Seq(Pids)
    PROVE  Range(q) \subseteq Pids
BY LenProperties, ElementOfSeq DEF Range

\* Sending an operation to an interface changes no process list.
LEMMA EnviarIoConserva ==
    ASSUME NEW s \in EstadoKernel, NEW i \in Interfaces, NEW p \in Pids,
           NEW op \in {"IO_GEN_SLEEP", "IO_INTERRUPCION"}
    PROVE  Conserva(s, EnviarIo(s, i, op, p))
<1>1. s.a_io \in [Interfaces -> Seq(PaqueteIo)]
  BY Zenon DEF EstadoKernel
<1>2. [op |-> op, pid |-> p] \in PaqueteIo
  BY DEF PaqueteIo
<1>3. Append(s.a_io[i], [op |-> op, pid |-> p]) \in Seq(PaqueteIo)
  BY <1>1, <1>2, AppendProperties
<1> QED
  BY <1>3, ConAIo DEF EnviarIo

\* proceso_actualizar_registros changes the PCB only.
LEMMA ActualizarConserva ==
    ASSUME NEW s \in EstadoKernel, NEW p \in Pids, NEW pc \in 0 .. MaxPc
    PROVE  Conserva(s, ActualizarRegistros(s, p, pc))
<1>1. [s.pcb[p] EXCEPT !.pc = pc] \in Pcb
  BY PcbTipo, PcbCampos
<1> QED
  BY <1>1, ConPcb DEF ActualizarRegistros

\* An entry of the list of interfaces has its type.
LEMMA InterfazTipo ==
    ASSUME NEW p \in Pids
    PROVE  /\ [ocupado |-> TRUE, pid |-> p] \in Interfaz
           /\ [ocupado |-> FALSE, pid |-> 0] \in Interfaz
BY LimitesAssumption DEF Interfaz, Pids

\* kernel_proximo_io_generic serves the waiting processes and moves none
\* into EXEC.
LEMMA ProximoIoConserva ==
    ASSUME NEW s \in EstadoKernel, NEW i \in Interfaces
    PROVE  Conserva(s, ProximoIoGeneric(s, i))
<1> DEFINE orden == Filtrar(s.cola["BLOCK"], EsperanInterfaz(s, i))
           x == [ocupado |-> TRUE, pid |-> orden[Len(orden)]]
           paquetes == [j \in DOMAIN orden |-> [op |-> "IO_GEN_SLEEP", pid |-> orden[j]]]
           pcbs == [p \in Pids |-> IF p \in EsperanInterfaz(s, i)
                                   THEN [s.pcb[p] EXCEPT !.proxima_io = SinIo]
                                   ELSE s.pcb[p]]
           t == [s EXCEPT !.io[i] = x]
           u == [t EXCEPT !.a_io[i] = s.a_io[i] \o paquetes]
           v == [u EXCEPT !.pcb = pcbs]
<1>1. orden \in Seq(Pids)
  BY ColaTipo, FiltrarTipo DEF Colas
<1>2. CASE orden = << >>
  BY <1>2, MismaCola DEF ProximoIoGeneric
<1>3. CASE orden # << >>
  <2>1. pcbs \in [Pids -> Pcb]
    <3>1. \A p \in Pids : [s.pcb[p] EXCEPT !.proxima_io = SinIo] \in Pcb
      BY PcbTipo, PcbCampos
    <3> QED
      BY <3>1, PcbTipo
  <2>2. ProximoIoGeneric(s, i) = v
    BY <1>3 DEF ProximoIoGeneric
  <2> HIDE DEF orden, pcbs
  <2>3. x \in Interfaz
    <3>1. Len(orden) \in 1 .. Len(orden)
      BY <1>1, <1>3, EmptySeq, LenProperties
    <3>2. orden[Len(orden)] \in Pids
      BY <1>1, <3>1, ElementOfSeq
    <3> QED
      BY <3>2, InterfazTipo
  <2>4. paquetes \in Seq(PaqueteIo)
    <3>1. Len(orden) \in Nat /\ DOMAIN orden = 1 .. Len(orden)
      BY <1>1, LenProperties
    <3>2. \A j \in 1 .. Len(orden) : [op |-> "IO_GEN_SLEEP", pid |-> orden[j]] \in PaqueteIo
      BY <1>1, ElementOfSeq DEF PaqueteIo
    <3>3. paquetes \in [1 .. Len(orden) -> PaqueteIo]
      BY <3>1, <3>2
    <3> QED
      BY <3>1, <3>3
  <2>5. s.a_io[i] \o paquetes \in Seq(PaqueteIo)
    <3>1. s.a_io \in [Interfaces -> Seq(PaqueteIo)]
      BY Zenon DEF EstadoKernel
    <3> HIDE DEF paquetes
    <3> QED
      BY <3>1, <2>4, ConcatProperties
  <2> HIDE DEF x, paquetes
  <2>6. Conserva(s, t)
    BY <2>3, ConIo
  <2>7. Conserva(t, u)
    BY <2>5, <2>6, Tipado, ConAIo
  <2>8. Conserva(u, v)
    BY <2>1, <2>7, Tipado, ConPcbs
  <2> HIDE DEF t, u, v
  <2> QED
    BY <2>2, <2>6, <2>7, <2>8, Tipado, Transitiva
<1> QED
  BY <1>2, <1>3

\* The handler of IO_GEN_SLEEP on the interrupt connection, in each branch.
LEMMA PedirConserva ==
    ASSUME NEW s \in EstadoKernel, NEW p \in Pids, NEW pc \in 0 .. MaxPc, NEW i,
           NEW resto \in BOOLEAN
    PROVE  Conserva(s, PedirIoGenSleep(s, p, pc, i, resto))
<1> DEFINE t == GuardarQuantum(s, p, resto)
           u == ExecBlock(ActualizarRegistros(t, p, pc))
           v == [u EXCEPT !.pcb[p] = [u.pcb[p] EXCEPT !.proxima_io = i]]
           w == [u EXCEPT !.io[i] = [ocupado |-> TRUE, pid |-> p]]
<1>1. Conserva(s, s)
  BY MismaCola
<1>2. Conserva(s, t)
  BY GuardarQuantumConserva
<1>3. \/ PedirIoGenSleep(s, p, pc, i, resto) = s
      \/ PedirIoGenSleep(s, p, pc, i, resto) = FinalizarInterfazInvalida(t, p)
      \/ /\ i \in Interfaces
         /\ \/ PedirIoGenSleep(s, p, pc, i, resto) = Avisar(v)
            \/ PedirIoGenSleep(s, p, pc, i, resto)
                 = Avisar(EnviarIo(w, i, "IO_GEN_SLEEP", p))
  BY DEF PedirIoGenSleep
<1> HIDE DEF t
<1>4. Conserva(s, FinalizarInterfazInvalida(t, p))
  BY <1>2, FinalizarInterfazInvalidaConserva, Tipado, Transitiva
<1>5. Conserva(s, u)
  <2>1. Conserva(s, ActualizarRegistros(t, p, pc))
    BY <1>2, ActualizarConserva, Tipado, Transitiva
  <2> QED
    BY <2>1, ExecConserva, Tipado, Transitiva
<1> HIDE DEF u
<1>6. ASSUME i \in Interfaces
      PROVE  Conserva(s, Avisar(v))
  <2>1. [u.pcb[p] EXCEPT !.proxima_io = i] \in Pcb
    BY <1>5, <1>6, Tipado, PcbTipo, PcbCampos
  <2>2. Conserva(u, v)
    BY <1>5, <2>1, Tipado, ConPcb
  <2> HIDE DEF v
  <2> QED
    BY <1>5, <2>2, AvisarConserva, Tipado, Transitiva
<1>7. ASSUME i \in Interfaces
      PROVE  Conserva(s, Avisar(EnviarIo(w, i, "IO_GEN_SLEEP", p)))
  <2>1. Conserva(u, w)
    BY <1>5, <1>7, Tipado, InterfazTipo, ConIo
  <2> HIDE DEF w
  <2>2. Conserva(s, w)
    BY <1>5, <2>1, Transitiva
  <2>3. Conserva(s, EnviarIo(w, i, "IO_GEN_SLEEP", p))
    BY <1>7, <2>2, EnviarIoConserva, Tipado, Transitiva
  <2> QED
    BY <2>3, AvisarConserva, Tipado, Transitiva
<1> QED
  BY <1>1, <1>3, <1>4, <1>6, <1>7

\* The handler of a finished IO_GEN_SLEEP, in each branch.
LEMMA CompletarConserva ==
    ASSUME NEW s \in EstadoKernel, NEW i \in Interfaces, NEW p \in Pids,
           NEW registrada \in Interfaces
    PROVE  Conserva(s, CompletarIoGenSleep(s, i, p, registrada))
<1> DEFINE t == ManejarBlockReady(s, p)
           u == [t EXCEPT !.io[i] = [ocupado |-> FALSE, pid |-> 0]]
<1>1. Conserva(s, Avisar(s))
  BY AvisarConserva
<1>2. Conserva(s, MatarEnExit(s, p))
  <2>1. Conserva(s, Matar(InterrumpirTemporizador(s), p))
    BY InterrumpirTemporizadorConserva, MatarConserva, Tipado, Transitiva
  <2> QED
    BY <2>1, AvisarConserva, Tipado, Transitiva DEF MatarEnExit
<1>3. Conserva(s, t)
  BY BlockConserva
<1>4. \/ CompletarIoGenSleep(s, i, p, registrada) = Avisar(s)
      \/ CompletarIoGenSleep(s, i, p, registrada) = MatarEnExit(s, p)
      \/ CompletarIoGenSleep(s, i, p, registrada) = Avisar(ProximoIoGeneric(u, registrada))
  BY DEF CompletarIoGenSleep
<1> HIDE DEF t
<1>5. Conserva(t, u)
  BY <1>3, Tipado, InterfazTipo, ConIo
<1> HIDE DEF u
<1>6. Conserva(s, u)
  BY <1>3, <1>5, Transitiva
<1>7. Conserva(s, ProximoIoGeneric(u, registrada))
  BY <1>6, ProximoIoConserva, Tipado, Transitiva
<1>8. Conserva(s, Avisar(ProximoIoGeneric(u, registrada)))
  BY <1>7, AvisarConserva, Tipado, Transitiva
<1> QED
  BY <1>1, <1>2, <1>4, <1>8

-----------------------------------------------------------------------------
\* Unblocking every process of an order of pids moves none into EXEC.
LEMMA DesbloquearConserva ==
    ASSUME NEW s \in EstadoKernel, NEW o \in Seq(Pids)
    PROVE  Conserva(s, DesbloquearTodos(s, o))
<1> DEFINE prioritarios == {p \in Range(o) : TienePrioridad(s.pcb[p].quantum_largo)}
           comunes == Range(o) \ prioritarios
           block == Filtrar(s.cola["BLOCK"], Pids \ Range(o))
           ready == s.cola["READY"] \o Filtrar(o, comunes)
           prioridad == s.cola["READY_PRIORIDAD"] \o Filtrar(o, prioritarios)
           estados == [p \in Pids |-> IF p \in prioritarios THEN "READY_PRIORIDAD"
                                      ELSE IF p \in comunes THEN "READY"
                                      ELSE s.procesos[p]]
           t == [s EXCEPT !.cola["BLOCK"] = block]
           u == [t EXCEPT !.cola["READY"] = ready]
           v == [u EXCEPT !.cola["READY_PRIORIDAD"] = prioridad]
<1>1. {"BLOCK", "READY", "READY_PRIORIDAD"} \subseteq Colas
  BY DEF Colas
<1>2. block \in Seq(Pids) /\ ready \in Seq(Pids) /\ prioridad \in Seq(Pids)
  <2>1. \A S : Filtrar(o, S) \in Seq(Pids)
    BY FiltrarTipo
  <2>2. block \in Seq(Pids)
    BY <1>1, ColaTipo, FiltrarTipo
  <2>3. s.cola["READY"] \in Seq(Pids) /\ s.cola["READY_PRIORIDAD"] \in Seq(Pids)
    BY <1>1, ColaTipo
  <2> HIDE DEF prioritarios, comunes, block
  <2> QED
    BY <2>1, <2>2, <2>3, ConcatProperties
<1>3. estados \in [Pids -> Colas \cup {SinEstado}]
  BY <1>1, PcbTipo
<1>4. DesbloquearTodos(s, o) = [v EXCEPT !.procesos = estados]
  <2>1. s.cola \in [Colas -> Seq(Pids)]
    BY Zenon DEF EstadoKernel
  <2> QED
    BY <1>1, <2>1 DEF DesbloquearTodos, EstadoKernel
<1> HIDE DEF block, ready, prioridad, estados
<1>5. Conserva(s, t)
  BY <1>1, <1>2, ConCola
<1>6. Conserva(t, u)
  BY <1>1, <1>2, <1>5, Tipado, ConCola
<1>7. Conserva(u, v)
  BY <1>1, <1>2, <1>6, Tipado, ConCola
<1>8. Conserva(v, [v EXCEPT !.procesos = estados])
  BY <1>3, <1>7, Tipado, ConProcesos
<1> HIDE DEF t, u, v
<1> QED
  BY <1>4, <1>5, <1>6, <1>7, <1>8, Tipado, Transitiva

\* The lists the walk of kernel_signal goes through are finite.
LEMMA EntradasFinitas ==
    ASSUME NEW s \in EstadoKernel, NEW K \in SUBSET Recursos
    PROVE  /\ IsFiniteSet(EntradasRecorridas(s, K))
           /\ Cardinality(EntradasRecorridas(s, K)) \in Nat
<1> DEFINE Entradas(r) == {<<r, j>> : j \in DOMAIN s.recursos[r].bloqueados}
           T == {Entradas(r) : r \in K}
<1>1. ASSUME NEW r \in K
      PROVE  IsFiniteSet(Entradas(r))
  <2> DEFINE n == Len(s.recursos[r].bloqueados)
             f == [j \in 1 .. n |-> <<r, j>>]
  <2>1. n \in Nat /\ DOMAIN s.recursos[r].bloqueados = 1 .. n
    BY RecursoTipo, LenProperties
  <2>2. Entradas(r) = {<<r, j>> : j \in 1 .. n}
    BY <2>1
  <2> HIDE DEF n
  <2>3. f \in Surjection(1 .. n, Entradas(r))
    BY <2>2 DEF Surjection
  <2> QED
    BY <2>1, <2>3, FS_Interval, FS_Surjection
<1>2. IsFiniteSet(T)
  <2> DEFINE f == [r \in K |-> Entradas(r)]
  <2>1. f \in Surjection(K, T)
    BY DEF Surjection
  <2>2. IsFiniteSet(K)
    BY InstanciasAssumption, FS_Subset
  <2> QED
    BY <2>1, <2>2, FS_Surjection
<1>3. IsFiniteSet(UNION T)
  BY <1>1, <1>2, FS_UNION
<1>4. EntradasRecorridas(s, K) = UNION T
  BY DEF EntradasRecorridas
<1> QED
  BY <1>3, <1>4, FS_CardinalityType

\* The walk of kernel_signal over the taken instances of an ended process.
LEMMA DevolverTomadosConserva ==
    ASSUME NEW s \in EstadoKernel, NEW c \in Pids, NEW o \in Seq(Pids)
    PROVE  Conserva(s, DevolverTomados(s, c, o))
<1> DEFINE t == DesbloquearTodos(s, o)
           n == Cardinality(EntradasRecorridas(s, RecursosDevueltos(s, c)))
           recursos == [r \in Recursos |->
                [s.recursos[r] EXCEPT !.instancias = @ + s.pcb[c].recursos_tomados[r]]]
           u == [t EXCEPT !.recursos = recursos]
           fichas == u.planificador_iniciar + n
<1>1. Conserva(s, t)
  BY DesbloquearConserva
<1>2. DevolverTomados(s, c, o) = [u EXCEPT !.planificador_iniciar = fichas]
  BY DEF DevolverTomados
<1>3. s.pcb[c].claves_tomados \in SUBSET Recursos
      /\ s.pcb[c].recursos_tomados \in [Recursos -> Int]
  BY PcbTipo DEF Pcb
<1>4. n \in Nat
  BY <1>3, EntradasFinitas DEF RecursosDevueltos
<1> HIDE DEF t, n
<1>5. recursos \in [Recursos -> Recurso]
  <2>1. ASSUME NEW r \in Recursos
        PROVE  [s.recursos[r] EXCEPT !.instancias = @ + s.pcb[c].recursos_tomados[r]]
                 \in Recurso
    <3>1. s.recursos[r] \in Recurso /\ s.recursos[r].instancias \in Int
      BY RecursoTipo
    <3>2. s.recursos[r].instancias + s.pcb[c].recursos_tomados[r] \in Int
      BY <1>3, <3>1
    <3> QED
      BY <3>1, <3>2, RecursoCampos, Zenon
  <2> QED
    BY <2>1
<1> HIDE DEF recursos
<1>6. Conserva(t, u)
  BY <1>1, <1>5, Tipado, ConRecursos
<1> HIDE DEF u
<1>7. u \in EstadoKernel
  BY <1>6, Tipado
<1>8. fichas \in Nat
  <2>1. u.planificador_iniciar \in Nat
    BY <1>7, Zenon DEF EstadoKernel
  <2> QED
    BY <1>4, <2>1
<1>9. Conserva(u, [u EXCEPT !.planificador_iniciar = fichas])
  BY <1>7, <1>8, ConFichas
<1> QED
  BY <1>1, <1>2, <1>6, <1>9, Tipado, Transitiva

\* kernel_signal with INTERRUPCION: no path of it lengthens EXEC.
LEMMA SignalInterrupcionConserva ==
    ASSUME NEW s \in EstadoKernel, NEW p \in Pids, NEW r \in Recursos,
           NEW o \in Seq(Pids), NEW falla \in BOOLEAN
    PROVE  Conserva(s, SignalInterrupcion(s, p, r, o, falla))
<1> DEFINE t == Liberar(s, p, r)
           cabeza == Head(t.recursos[r].bloqueados)
           u == SinCabeza(t, r)
<1>1. Conserva(s, t)
  BY LiberarConserva
<1>2. SignalInterrupcion(s, p, r, o, falla) =
        IF ~ HayQueDesbloquear(t, r) THEN t
        ELSE IF Buscar(t, cabeza) THEN DevolverTomados(u, cabeza, o)
        ELSE IF falla THEN Caer(u) ELSE u
  BY DEF SignalInterrupcion
<1> HIDE DEF t
<1>3. CASE ~ HayQueDesbloquear(t, r)
  BY <1>1, <1>2, <1>3
<1>4. CASE HayQueDesbloquear(t, r)
  <2>1. Conserva(t, u) /\ cabeza \in Pids
    BY <1>1, <1>4, Tipado, SinCabezaConserva DEF HayQueDesbloquear
  <2>2. Conserva(s, u)
    BY <1>1, <2>1, Transitiva
  <2> HIDE DEF u, cabeza
  <2>3. Conserva(s, DevolverTomados(u, cabeza, o))
    BY <2>1, <2>2, DevolverTomadosConserva, Tipado, Transitiva
  <2>4. Conserva(s, Caer(u))
    BY <2>2, CaerConserva, Tipado, Transitiva
  <2> QED
    BY <1>2, <1>4, <2>2, <2>3, <2>4
<1> QED
  BY <1>3, <1>4

\* Every order in which the dictionary may list the pids to unblock is a
\* list of pids.
LEMMA OrdenesTipo ==
    ASSUME NEW s \in EstadoKernel, NEW p \in Pids, NEW r \in Recursos,
           NEW o \in OrdenesAlInterrumpir(s, p, r)
    PROVE  o \in Seq(Pids)
<1> DEFINE t == Liberar(BlockExit(s, p), p, r)
           u == SinCabeza(t, r)
           K == RecursosDevueltos(u, Head(t.recursos[r].bloqueados))
           D == Desbloqueables(u, K)
<1>1. << >> \in Seq(Pids)
  OBVIOUS
<1>2. CASE HayQueDesbloquear(t, r) /\ Buscar(t, Head(t.recursos[r].bloqueados))
  <2>1. t \in EstadoKernel
    BY BlockConserva, LiberarConserva, Tipado
  <2>2. u \in EstadoKernel
    BY <1>2, <2>1, SinCabezaConserva, Tipado DEF HayQueDesbloquear
  <2>3. D \subseteq Pids
    <3>1. Range(u.cola["BLOCK"]) \subseteq Pids
      BY <2>2, ColaTipo, RangoTipo DEF Colas
    <3> QED
      BY <3>1 DEF Desbloqueables
  <2>4. Cardinality(D) \in Nat
    BY <2>3, PidsFinito, FS_Subset, FS_CardinalityType
  <2>5. o \in [1 .. Cardinality(D) -> D]
    BY <1>2 DEF OrdenesAlInterrumpir, OrdenesDeDesbloqueo
  <2> HIDE DEF D
  <2>6. o \in Seq(D)
    BY <2>4, <2>5
  <2> QED
    BY <2>3, <2>6, SeqMonotonic
<1>3. CASE ~ (HayQueDesbloquear(t, r) /\ Buscar(t, Head(t.recursos[r].bloqueados)))
  BY <1>1, <1>3 DEF OrdenesAlInterrumpir
<1> QED
  BY <1>2, <1>3

\* FINALIZAR_PROCESO in each of its five states.
LEMMA FinalizarUsuarioConserva ==
    ASSUME NEW s \in EstadoKernel, NEW p \in Pids
    PROVE  /\ Conserva(s, FinalizarEnExec(s, p))
           /\ \A r \in Recursos, o \in Seq(Pids), falla \in BOOLEAN :
                 Conserva(s, FinalizarEnRecurso(s, p, r, o, falla))
           /\ \A i \in Interfaces : Conserva(s, FinalizarEnInterfaz(s, p, i))
           /\ Conserva(s, FinalizarEnEspera(s, p))
           /\ Conserva(s, FinalizarEnCola(s, p))
<1>1. Conserva(s, FinalizarEnExec(s, p))
  <2> DEFINE t == InterrumpirCpu(InterrumpirTemporizador(s), p)
             u == AvisarMemoriaFinalizacion(t, p)
  <2>1. Conserva(s, t)
    BY InterrumpirTemporizadorConserva, InterrumpirCpuConserva, Tipado, Transitiva
  <2>2. FinalizarEnExec(s, p) = Avisar(Matar(ExecExit(u), p))
    BY DEF FinalizarEnExec
  <2> HIDE DEF t
  <2>3. Conserva(s, u)
    BY <2>1, AvisarMemoriaConserva, Tipado, Transitiva
  <2> HIDE DEF u
  <2>4. Conserva(s, ExecExit(u))
    BY <2>3, ExecConserva, Tipado, Transitiva
  <2>5. Conserva(s, Matar(ExecExit(u), p))
    BY <2>4, MatarConserva, Tipado, Transitiva
  <2> QED
    BY <2>2, <2>5, AvisarConserva, Tipado, Transitiva
<1>2. ASSUME NEW r \in Recursos, NEW o \in Seq(Pids), NEW falla \in BOOLEAN
      PROVE  Conserva(s, FinalizarEnRecurso(s, p, r, o, falla))
  <2>1. Conserva(s, SignalInterrupcion(BlockExit(s, p), p, r, o, falla))
    BY BlockConserva, SignalInterrupcionConserva, Tipado, Transitiva
  <2> QED
    BY <2>1, MatarEnMemoriaConserva, Tipado, Transitiva DEF FinalizarEnRecurso
<1>3. ASSUME NEW i \in Interfaces
      PROVE  Conserva(s, FinalizarEnInterfaz(s, p, i))
  <2> DEFINE t == BlockExit(s, p)
             u == [t EXCEPT !.io[i] = [ocupado |-> FALSE, pid |-> 0]]
             v == EnviarIo(u, i, "IO_INTERRUPCION", p)
  <2>1. Conserva(s, t)
    BY BlockConserva
  <2>2. FinalizarEnInterfaz(s, p, i) = MatarEnMemoria(ProximoIoGeneric(v, i), p)
    BY DEF FinalizarEnInterfaz
  <2> HIDE DEF t
  <2>3. Conserva(t, u)
    BY <2>1, Tipado, InterfazTipo, ConIo
  <2> HIDE DEF u
  <2>4. Conserva(s, u)
    BY <2>1, <2>3, Transitiva
  <2>5. Conserva(s, v)
    BY <2>4, EnviarIoConserva, Tipado, Transitiva
  <2> HIDE DEF v
  <2>6. Conserva(s, ProximoIoGeneric(v, i))
    BY <2>5, ProximoIoConserva, Tipado, Transitiva
  <2> QED
    BY <2>2, <2>6, MatarEnMemoriaConserva, Tipado, Transitiva
<1>4. Conserva(s, FinalizarEnEspera(s, p))
  BY BlockConserva, MatarEnMemoriaConserva, Tipado, Transitiva DEF FinalizarEnEspera
<1>5. Conserva(s, FinalizarEnCola(s, p))
  <2>1. Conserva(s, MatarEnMemoria(s, p))
    BY MatarEnMemoriaConserva
  <2>2. Conserva(s, AvisarMemoriaFinalizacion(MatarEnMemoria(s, p), p))
    BY <2>1, AvisarMemoriaConserva, Tipado, Transitiva
  <2> QED
    BY <2>1, <2>2 DEF FinalizarEnCola
<1> QED
  BY <1>1, <1>2, <1>3, <1>4, <1>5

-----------------------------------------------------------------------------
(* The planner                                                             *)

\* The state of the kernel while at most one process has the turn.
EnTurno(s) == s \in EstadoKernel /\ Len(s.cola["EXEC"]) <= 1

\* The long-term planner admits between none and all of NEW.
LEMMA AdmitidosTipo ==
    ASSUME NEW s \in EstadoKernel
    PROVE  Admitidos(s) \in 0 .. Len(s.cola["NEW"])
<1> DEFINE nuevos == s.cola["NEW"]
           T == {n \in 0 .. Len(nuevos) :
                    \/ n = Len(nuevos)
                    \/ Concurrentes(s) + n >= s.grado
                    \/ ~ s.pcb[nuevos[n + 1]].memoria_aceptado}
<1>1. Len(nuevos) \in Nat
  BY ColaTipo DEF Colas
<1>2. T \in SUBSET Nat /\ T # {}
  BY <1>1
<1>3. Min(T) \in T
  BY <1>2, MinimoNat
<1> QED
  BY <1>3 DEF Admitidos

\* planificacion_largo_plazo moves processes of NEW to READY only.
LEMMA LargoPlazoConserva ==
    ASSUME NEW s \in EstadoKernel
    PROVE  Conserva(s, LargoPlazo(s))
<1> DEFINE nuevos == s.cola["NEW"]
           n == Admitidos(s)
           listos == SubSeq(nuevos, 1, n)
           resto == SubSeq(nuevos, n + 1, Len(nuevos))
           ready == s.cola["READY"] \o listos
           estados == [p \in Pids |-> IF p \in Range(listos) THEN "READY"
                                      ELSE s.procesos[p]]
           t == [s EXCEPT !.cola["NEW"] = resto]
           u == [t EXCEPT !.cola["READY"] = ready]
<1>1. {"NEW", "READY"} \subseteq Colas
  BY DEF Colas
<1>2. nuevos \in Seq(Pids) /\ s.cola["READY"] \in Seq(Pids) /\ Len(nuevos) \in Nat
  BY <1>1, ColaTipo
<1>3. n \in 0 .. Len(nuevos)
  BY AdmitidosTipo
<1> HIDE DEF n
<1>4. \A j \in 1 .. Len(nuevos) : nuevos[j] \in Pids
  BY <1>2, ElementOfSeq
<1>5. LargoPlazo(s) = [u EXCEPT !.procesos = estados]
  <2>1. s.cola \in [Colas -> Seq(Pids)]
    BY Zenon DEF EstadoKernel
  <2> QED
    BY <1>1, <2>1 DEF LargoPlazo, NewReady, EstadoKernel, n
<1> HIDE DEF nuevos
<1>6. listos \in Seq(Pids)
  BY <1>2, <1>3, <1>4, SubSeqProperties
<1>7. resto \in Seq(Pids)
  <2> DEFINE l == Len(nuevos)
  <2>1. l \in Nat /\ n \in 0 .. l /\ \A j \in 1 .. l : nuevos[j] \in Pids
    BY <1>2, <1>3, <1>4
  <2> HIDE DEF l
  <2>2. SubSeq(nuevos, n + 1, l) \in Seq(Pids)
    BY <2>1, SubSeqProperties
  <2> QED
    BY <2>2 DEF l
<1> HIDE DEF listos, resto
<1>8. ready \in Seq(Pids)
  BY <1>2, <1>6, ConcatProperties
<1>9. estados \in [Pids -> Colas \cup {SinEstado}]
  BY <1>1, PcbTipo
<1> HIDE DEF ready, estados
<1>10. Conserva(s, t)
  BY <1>1, <1>7, ConCola
<1>11. Conserva(t, u)
  BY <1>1, <1>8, <1>10, Tipado, ConCola
<1>12. Conserva(u, [u EXCEPT !.procesos = estados])
  BY <1>9, <1>11, Tipado, ConProcesos
<1> HIDE DEF t, u
<1> QED
  BY <1>5, <1>10, <1>11, <1>12, Tipado, Transitiva

\* What preserves Conserva preserves the turn: EXEC holds at most one process.
LEMMA EnTurnoConserva ==
    ASSUME NEW s, EnTurno(s), NEW t, Conserva(s, t)
    PROVE  EnTurno(t)
<1>1. s \in EstadoKernel /\ t \in EstadoKernel
  BY DEF EnTurno, Conserva
<1>2. Len(s.cola["EXEC"]) \in Nat /\ Len(t.cola["EXEC"]) \in Nat
  BY <1>1, ColaTipo, ExecEsCola
<1> QED
  BY <1>1, <1>2 DEF EnTurno, Conserva

\* An empty EXEC receives one process.
LEMMA MoverAExec ==
    ASSUME NEW s \in EstadoKernel, NEW de \in Colas, de # "EXEC",
           s.cola["EXEC"] = << >>, s.cola[de] # << >>
    PROVE  EnTurno(Mover(s, de, "EXEC")) /\ Head(s.cola[de]) \in Pids
<1> DEFINE p == Head(s.cola[de])
           t == Pop(s, de)
           q == Append(t.cola["EXEC"], p)
           u == [t EXCEPT !.cola["EXEC"] = q]
           v == [u EXCEPT !.procesos[p] = "EXEC"]
<1>1. p \in Pids /\ t \in EstadoKernel
  BY CabezaTipo, PopConserva, Tipado
<1>2. t.cola["EXEC"] = << >>
  <2>1. s.cola \in [Colas -> Seq(Pids)]
    BY Zenon DEF EstadoKernel
  <2>2. t.cola = [s.cola EXCEPT ![de] = Tail(@)]
    BY Zenon DEF EstadoKernel, Pop
  <2> HIDE DEF t
  <2> QED
    BY <2>1, <2>2, ExecEsCola
<1>3. Mover(s, de, "EXEC") = v
  BY DEF Mover, Push
<1> HIDE DEF p, t
<1>4. q \in Seq(Pids) /\ Len(q) = 1
  BY <1>1, <1>2, AppendProperties
<1> HIDE DEF q
<1>5. u \in EstadoKernel
  BY <1>1, <1>4, ExecEsCola, Zenon DEF EstadoKernel
<1>6. Len(u.cola["EXEC"]) = 1
  <2>1. t.cola \in [Colas -> Seq(Pids)]
    BY <1>1, Zenon DEF EstadoKernel
  <2>2. u.cola = [t.cola EXCEPT !["EXEC"] = q]
    BY <1>1, Zenon DEF EstadoKernel
  <2> HIDE DEF u
  <2> QED
    BY <1>4, <2>1, <2>2, ExecEsCola
<1> HIDE DEF u
<1>7. EnTurno(u)
  BY <1>5, <1>6 DEF EnTurno
<1>8. Conserva(u, v)
  BY <1>1, <1>5, ExecEsCola, ConEstado
<1>9. EnTurno(v)
  BY <1>7, <1>8, EnTurnoConserva
<1> QED
  BY <1>1, <1>3, <1>9 DEF p

\* kernel_desalojar_proceso sends the interrupt and touches no list.
LEMMA DesalojarConserva ==
    ASSUME NEW s \in EstadoKernel, NEW p
    PROVE  Conserva(s, Desalojar(s, p))
BY IniciarTemporizadorConserva, MismaCola DEF Desalojar

\* ready_a_exec on an empty EXEC leaves one process in it.
LEMMA ReadyExecEnTurno ==
    ASSUME NEW s, EnTurno(s), s.cola["EXEC"] = << >>
    PROVE  /\ EnTurno(ReadyExec(s))
           /\ EnTurno(ReadyExecMayorPrioridad(s))
<1>1. s \in EstadoKernel /\ "READY" \in Colas /\ "READY_PRIORIDAD" \in Colas
  BY DEF EnTurno, Colas
<1>2. ASSUME NEW de \in {"READY", "READY_PRIORIDAD"}, s.cola[de] # << >>
      PROVE  EnTurno(EnviarEjecutar(Mover(s, de, "EXEC"), Head(s.cola[de])))
  <2>1. EnTurno(Mover(s, de, "EXEC")) /\ Head(s.cola[de]) \in Pids
    BY <1>1, <1>2, MoverAExec
  <2>2. Mover(s, de, "EXEC") \in EstadoKernel
    BY <2>1 DEF EnTurno
  <2> QED
    BY <2>1, <2>2, EnviarEjecutarConserva, EnTurnoConserva
<1> QED
  BY <1>2 DEF ReadyExec, ReadyExecMayorPrioridad

\* Whatever the algorithm, the short term planner leaves at most one process
\* in EXEC.
LEMMA CortoPlazoEnTurno ==
    ASSUME NEW s, EnTurno(s)
    PROVE  EnTurno(CortoPlazo(s))
<1>1. EnTurno(Fifo(s))
  BY ReadyExecEnTurno DEF Fifo
<1>2. \A p : s.cola["EXEC"] = << >> =>
          /\ EnTurno(Desalojar(ReadyExec(s), p))
          /\ EnTurno(Desalojar(ReadyExecMayorPrioridad(s), p))
  BY ReadyExecEnTurno, DesalojarConserva, EnTurnoConserva DEF EnTurno
<1>3. EnTurno(RoundRobin(s))
  BY <1>2 DEF RoundRobin
<1>4. EnTurno(VirtualRoundRobin(s))
  BY <1>2, <1>3 DEF VirtualRoundRobin
<1> QED
  BY <1>1, <1>3, <1>4, AlgoritmoAssumption DEF CortoPlazo

-----------------------------------------------------------------------------
(* The handlers of the console, of memoria's answers and of the CPU's      *)
(* packets.                                                                *)

\* INICIAR_PROCESO puts the new process in NEW.
LEMMA NuevoProcesoConserva ==
    ASSUME NEW s \in EstadoKernel, NEW p \in Pids
    PROVE  Conserva(s, NuevoProceso(s, p))
<1> DEFINE M == [op : {"NUEVO_PROCESO", "FINALIZAR_PROCESO"}, pid : Pids]
           m == [op |-> "NUEVO_PROCESO", pid |-> p]
           t == [s EXCEPT !.pid = p]
           u == [t EXCEPT !.pcb[p] = PcbCrear]
           v == Push(u, "NEW", p)
<1>1. Conserva(s, t)
  BY ConPid DEF Pids
<1>2. Conserva(t, u)
  BY <1>1, Tipado, PcbCrearTipo, ConPcb
<1>3. NuevoProceso(s, p) = [v EXCEPT !.a_memoria = Append(@, m)]
  BY DEF NuevoProceso
<1> HIDE DEF t, u
<1>4. Conserva(u, v)
  BY <1>2, Tipado, PushConserva DEF Colas
<1> HIDE DEF v
<1>5. v \in EstadoKernel
  BY <1>4, Tipado
<1>6. v.a_memoria \in Seq(M) /\ m \in M
  BY <1>5, Zenon DEF EstadoKernel
<1>7. Append(v.a_memoria, m) \in Seq(M)
  BY <1>6, AppendProperties
<1>8. Conserva(v, [v EXCEPT !.a_memoria = Append(@, m)])
  BY <1>5, <1>7, ConAMemoria
<1> QED
  BY <1>1, <1>2, <1>3, <1>4, <1>8, Tipado, Transitiva

\* The answer of memoria to a new process never moves it into EXEC.
LEMMA ResponderConserva ==
    ASSUME NEW s \in EstadoKernel, NEW p \in Pids, NEW leido \in BOOLEAN
    PROVE  Conserva(s, ResponderNuevoProceso(s, p, leido))
<1>1. Conserva(s, s) /\ Conserva(s, Caer(s)) /\ Conserva(s, Revertir(s, p))
  BY MismaCola, CaerConserva, RevertirConserva
<1>2. [s.pcb[p] EXCEPT !.memoria_aceptado = TRUE] \in Pcb
  BY PcbTipo, PcbCampos
<1>3. Conserva(s, [s EXCEPT !.pcb[p].memoria_aceptado = TRUE])
  BY <1>2, ConPcb
<1>4. Conserva(s, Avisar([s EXCEPT !.pcb[p].memoria_aceptado = TRUE]))
  BY <1>3, AvisarConserva, Tipado, Transitiva
<1> QED
  BY <1>1, <1>4 DEF ResponderNuevoProceso

\* The fields of a message of the CPU have their types.
LEMMA MensajeTipo ==
    ASSUME NEW m \in Mensaje
    PROVE  m.pid \in Pids /\ m.pc \in 0 .. MaxPc /\ m.dato \in Datos
BY DEF Mensaje

\* The handler of a process the CPU returns, for every reason of its return.
LEMMA AtenderProcesoConserva ==
    ASSUME NEW s \in EstadoKernel, NEW m \in Mensaje, NEW resto \in BOOLEAN
    PROVE  Conserva(s, AtenderProceso(s, m, resto))
<1> DEFINE t == InterrumpirTemporizador(s)
           u == ActualizarRegistros(s, m.pid, m.pc)
<1>1. Conserva(s, Caer(s)) /\ Conserva(s, s) /\ Conserva(s, Avisar(s))
  BY CaerConserva, MismaCola, AvisarConserva
<1>2. Conserva(s, Avisar(FinalizarExito(t, m.pid)))
  <2>1. Conserva(s, FinalizarExito(t, m.pid))
    BY MensajeTipo, InterrumpirTemporizadorConserva, FinalizarConserva, Tipado, Transitiva
  <2> QED
    BY <2>1, AvisarConserva, Tipado, Transitiva
<1>3. Conserva(s, Avisar(ManejarExecReady(u, m.pid, resto)))
  <2>1. Conserva(s, u)
    BY MensajeTipo, ActualizarConserva
  <2>2. Conserva(s, ManejarExecReady(u, m.pid, resto))
    BY <2>1, MensajeTipo, ManejarExecReadyConserva, Tipado, Transitiva
  <2> QED
    BY <2>2, AvisarConserva, Tipado, Transitiva
<1> QED
  BY <1>1, <1>2, <1>3 DEF AtenderProceso

\* The handler of the answer of RESIZE.
LEMMA AtenderResizeConserva ==
    ASSUME NEW s \in EstadoKernel, NEW m \in Mensaje, NEW resto \in BOOLEAN
    PROVE  Conserva(s, AtenderResize(s, m, resto))
<1>1. Conserva(s, FinalizarSinMemoria(InterrumpirTemporizador(s), m.pid))
  BY MensajeTipo, InterrumpirTemporizadorConserva, FinalizarConserva, Tipado, Transitiva
<1>2. Conserva(s, FinalizarSinMemoria(GuardarQuantum(s, m.pid, resto), m.pid))
  BY MensajeTipo, GuardarQuantumConserva, FinalizarConserva, Tipado, Transitiva
<1>3. Conserva(s, Avisar(FinalizarSinMemoria(GuardarQuantum(s, m.pid, resto), m.pid)))
  BY <1>2, AvisarConserva, Tipado, Transitiva
<1> QED
  BY <1>1, <1>3, AvisarConserva DEF AtenderResize

\* The handlers of WAIT and SIGNAL.
LEMMA AtenderRecursoConserva ==
    ASSUME NEW s \in EstadoKernel, NEW m \in Mensaje, NEW resto \in BOOLEAN
    PROVE  /\ Conserva(s, AtenderWait(s, m, resto))
           /\ \A cabeza \in 0 .. MaxPid : Conserva(s, AtenderSignal(s, m, resto, cabeza))
<1> DEFINE t == ActualizarRegistros(s, m.pid, m.pc)
<1>1. Conserva(s, t)
  BY MensajeTipo, ActualizarConserva
<1>2. Conserva(s, Caer(s))
  BY CaerConserva
<1>3. Conserva(s, Avisar(Wait(t, m.pid, m.dato, resto)))
  <2>1. Conserva(s, Wait(t, m.pid, m.dato, resto))
    BY <1>1, MensajeTipo, WaitConserva, Tipado, Transitiva
  <2> QED
    BY <2>1, AvisarConserva, Tipado, Transitiva
<1>4. ASSUME NEW cabeza \in 0 .. MaxPid
      PROVE  Conserva(s, Avisar(Signal(t, m.pid, m.dato, resto, cabeza)))
  <2>1. Conserva(s, Signal(t, m.pid, m.dato, resto, cabeza))
    BY <1>1, MensajeTipo, SignalConserva, Tipado, Transitiva
  <2> QED
    BY <2>1, AvisarConserva, Tipado, Transitiva
<1> QED
  BY <1>2, <1>3, <1>4 DEF AtenderWait, AtenderSignal

\* What the freed head of a waiting list may read as is 0 or a pid.
LEMMA CabezasTipo ==
    ASSUME NEW s \in EstadoKernel, NEW p, NEW r
    PROVE  CabezasLeidas(s, p, r) \subseteq 0 .. MaxPid
<1>1. ASSUME NEW c, Buscar(s, c)
      PROVE  c \in 0 .. MaxPid
  <2>1. PICK e \in Colas : c \in Range(s.cola[e])
    BY <1>1 DEF Buscar, Esta
  <2>2. c \in Pids
    BY <2>1, ColaTipo, RangoTipo
  <2> QED
    BY <2>2 DEF Pids
<1>2. 0 \in 0 .. MaxPid
  BY LimitesAssumption
<1> QED
  BY <1>1, <1>2 DEF CabezasLeidas, PidLeido

\* The rest of the quantum is told apart by one boolean.
LEMMA RestosTipo == Restos \subseteq BOOLEAN
BY DEF Restos
=============================================================================
