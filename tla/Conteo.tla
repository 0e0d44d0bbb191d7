-------------------------------- MODULE Conteo --------------------------------
(***************************************************************************)
(* Lemmas about counting, for the proofs of the properties that say how    *)
(* many there are of something: how often an element is in a list, and how *)
(* the size of a set changes when one element changes sides.               *)
(***************************************************************************)
EXTENDS Integers, FiniteSets, Sequences, SequencesExt, SequenceTheorems, FiniteSetTheorems,
        TLAPS

\* The places of a list where p is.
Apariciones(l, p) == {i \in DOMAIN l : l[i] = p}

\* A and B are subsets of T that agree on all but x.
DifierenEn(T, A, B, x) ==
    /\ A \subseteq T
    /\ B \subseteq T
    /\ \A y \in T : y # x => (y \in A <=> y \in B)

\* r is l without its i-th element.
SinEl(i, l, r) ==
    /\ Len(r) = Len(l) - 1
    /\ \A j \in 1 .. i - 1 : r[j] = l[j]
    /\ \A j \in i .. Len(r) : r[j] = l[j + 1]

-----------------------------------------------------------------------------
\* Sets.

\* Of two finite sets that agree on all but x, the size of the second is that of the
\* first, less x if it leaves and plus x if it comes.
LEMMA CambiaUno ==
    ASSUME NEW T, IsFiniteSet(T), NEW A, NEW B, NEW x, DifierenEn(T, A, B, x)
    PROVE  /\ IsFiniteSet(A) /\ IsFiniteSet(B)
           /\ Cardinality(A) \in Nat /\ Cardinality(B) \in Nat
           /\ Cardinality(B) = Cardinality(A) + (IF x \in B THEN 1 ELSE 0)
                                              - (IF x \in A THEN 1 ELSE 0)
<1>1. IsFiniteSet(A) /\ IsFiniteSet(B)
  BY FS_Subset DEF DifierenEn
<1>2. Cardinality(A) \in Nat /\ Cardinality(B) \in Nat
  BY <1>1, FS_CardinalityType
<1>3. Cardinality(A \ {x}) = IF x \in A THEN Cardinality(A) - 1 ELSE Cardinality(A)
  BY <1>1, FS_RemoveElement
<1>4. Cardinality(B \ {x}) = IF x \in B THEN Cardinality(B) - 1 ELSE Cardinality(B)
  BY <1>1, FS_RemoveElement
<1>5. Cardinality(A \ {x}) = Cardinality(B \ {x})
  <2>1. A \ {x} = B \ {x}
    BY DEF DifierenEn
  <2>. QED
    BY <2>1
<1>. QED
  BY <1>1, <1>2, <1>3, <1>4, <1>5

\* A finite set has no elements, or one, or two at least.
LEMMA AlMenosUno ==
    ASSUME NEW A, IsFiniteSet(A)
    PROVE  /\ Cardinality(A) \in Nat
           /\ Cardinality(A) = 0 <=> A = {}
           /\ \A x \in A : Cardinality(A) >= 1
           /\ \A x, y \in A : x # y => Cardinality(A) >= 2
<1>1. Cardinality(A) \in Nat /\ (Cardinality(A) = 0 <=> A = {})
  BY FS_CardinalityType, FS_EmptySet
<1>2. ASSUME NEW x \in A  PROVE Cardinality(A) >= 1
  BY <1>1
<1>3. ASSUME NEW x \in A, NEW y \in A, x # y  PROVE Cardinality(A) >= 2
  <2>1. Cardinality(A \ {x}) = Cardinality(A) - 1 /\ IsFiniteSet(A \ {x})
    BY FS_RemoveElement
  <2>2. Cardinality(A \ {x}) \in Nat /\ Cardinality(A \ {x}) # 0
    BY <1>3, <2>1, FS_CardinalityType, FS_EmptySet
  <2>. QED
    BY <1>1, <2>1, <2>2
<1>. QED
  BY <1>1, <1>2, <1>3

\* A sum of a rest and three counts does not change when the rest and the three
\* shares of whoever moves, together, do not.
LEMMA Balance ==
    ASSUME NEW r \in Nat, NEW q \in Nat, NEW g,
           NEW n1 \in Nat, NEW n2 \in Nat, NEW n3 \in Nat,
           NEW a1 \in Nat, NEW a2 \in Nat, NEW a3 \in Nat,
           NEW b1 \in Nat, NEW b2 \in Nat, NEW b3 \in Nat,
           r + a1 + a2 + a3 = q + b1 + b2 + b3,
           r + n1 + n2 + n3 = g,
           NEW m1, m1 = n1 + b1 - a1,
           NEW m2, m2 = n2 + b2 - a2,
           NEW m3, m3 = n3 + b3 - a3
    PROVE  q + m1 + m2 + m3 = g
OBVIOUS

-----------------------------------------------------------------------------
\* Lists.

\* The places of p in a list are finitely many, and none when p is not in it.
LEMMA AparicionesTipo ==
    ASSUME NEW S, NEW l \in Seq(S), NEW p
    PROVE  /\ IsFiniteSet(Apariciones(l, p))
           /\ Cardinality(Apariciones(l, p)) \in Nat
           /\ Cardinality(Apariciones(l, p)) = 0 <=> p \notin ToSet(l)
<1>1. DOMAIN l = 1 .. Len(l) /\ Len(l) \in Nat
  BY LenProperties
<1>2. IsFiniteSet(1 .. Len(l))
  BY <1>1, FS_Interval
<1>3. IsFiniteSet(Apariciones(l, p))
  BY <1>1, <1>2, FS_Subset DEF Apariciones
<1>4. Apariciones(l, p) = {} <=> p \notin ToSet(l)
  BY DEF Apariciones, ToSet
<1>. QED
  BY <1>3, <1>4, AlMenosUno

\* The empty list has nobody.
LEMMA AparicionesVacia == \A p : Cardinality(Apariciones(<<>>, p)) = 0
<1>1. \A p : Apariciones(<<>>, p) = {}
  BY DEF Apariciones
<1>. QED
  BY <1>1, FS_EmptySet

\* Without its i-th element a list has that one less, and no other.
LEMMA UnoMenos ==
    ASSUME NEW S, NEW l \in Seq(S), NEW r \in Seq(S), NEW i \in 1 .. Len(l), SinEl(i, l, r),
           NEW e, e = l[i], NEW p
    PROVE  Cardinality(Apariciones(l, p))
             = Cardinality(Apariciones(r, p)) + (IF e = p THEN 1 ELSE 0)
<1>. DEFINE A == Apariciones(l, p) \ {i}
            B == Apariciones(r, p)
            f == [j \in A |-> IF j < i THEN j ELSE j - 1]
<1>1. /\ Len(l) \in Nat /\ Len(r) \in Nat /\ Len(r) = Len(l) - 1
      /\ DOMAIN l = 1 .. Len(l) /\ DOMAIN r = 1 .. Len(r)
  BY LenProperties DEF SinEl
<1>2. ASSUME NEW j \in A  PROVE f[j] \in B
  <2>1. j \in 1 .. Len(l) /\ l[j] = p /\ j # i
    BY <1>1 DEF Apariciones
  <2>2. CASE j < i
    <3>1. f[j] = j /\ j \in 1 .. i - 1 /\ j \in 1 .. Len(r)
      BY <1>1, <2>1, <2>2
    <3>. QED
      BY <1>1, <2>1, <3>1 DEF SinEl, Apariciones
  <2>3. CASE ~(j < i)
    <3>1. f[j] = j - 1 /\ j - 1 \in i .. Len(r) /\ j - 1 \in 1 .. Len(r) /\ (j - 1) + 1 = j
      BY <1>1, <2>1, <2>3
    <3>2. r[j - 1] = l[j]
      BY <3>1 DEF SinEl
    <3>. QED
      BY <1>1, <2>1, <3>1, <3>2 DEF Apariciones
  <2>. QED
    BY <2>2, <2>3
<1>3. ASSUME NEW j \in A, NEW k \in A, f[j] = f[k]  PROVE j = k
  <2>1. j \in Int /\ k \in Int /\ j # i /\ k # i
    BY <1>1 DEF Apariciones
  <2>. QED
    BY <1>3, <2>1
<1>4. ASSUME NEW b \in B  PROVE \E j \in A : f[j] = b
  <2>1. b \in 1 .. Len(r) /\ r[b] = p
    BY <1>1 DEF Apariciones
  <2>2. CASE b < i
    <3>1. b \in 1 .. i - 1 /\ b \in 1 .. Len(l) /\ b # i
      BY <1>1, <2>1, <2>2
    <3>2. l[b] = p
      BY <2>1, <3>1 DEF SinEl
    <3>3. b \in A
      BY <1>1, <3>1, <3>2 DEF Apariciones
    <3>. QED
      BY <2>2, <3>3
  <2>3. CASE ~(b < i)
    <3>1. b \in i .. Len(r) /\ b + 1 \in 1 .. Len(l) /\ b + 1 # i /\ ~(b + 1 < i)
          /\ (b + 1) - 1 = b
      BY <1>1, <2>1, <2>3
    <3>2. l[b + 1] = p
      BY <2>1, <3>1 DEF SinEl
    <3>3. b + 1 \in A
      BY <1>1, <3>1, <3>2 DEF Apariciones
    <3>. QED
      BY <3>1, <3>3
  <2>. QED
    BY <2>2, <2>3
<1>5. f \in Bijection(A, B)
  <2>1. f \in [A -> B]
    BY <1>2
  <2>. HIDE DEF f, A, B
  <2>. QED
    BY <2>1, <1>3, <1>4 DEF Bijection, Injection, Surjection, IsInjective
<1>6. IsFiniteSet(Apariciones(l, p)) /\ IsFiniteSet(B)
  BY AparicionesTipo
<1>7. IsFiniteSet(A)
  BY <1>6, FS_RemoveElement
<1>8. Cardinality(A) = Cardinality(B)
  <2>. HIDE DEF f, A, B
  <2>1. ExistsBijection(A, B)
    BY <1>5 DEF ExistsBijection
  <2>. QED
    BY <1>7, <2>1, FS_Bijection
<1>9. i \in Apariciones(l, p) <=> l[i] = p
  BY <1>1 DEF Apariciones
<1>10. Cardinality(Apariciones(l, p)) \in Nat
  BY <1>6, FS_CardinalityType
<1>11. Cardinality(A) = IF i \in Apariciones(l, p) THEN Cardinality(Apariciones(l, p)) - 1
                        ELSE Cardinality(Apariciones(l, p))
  BY <1>6, FS_RemoveElement
<1>. QED
  BY <1>8, <1>9, <1>10, <1>11

\* list_add.
LEMMA ContarAppend ==
    ASSUME NEW S, NEW l \in Seq(S), NEW e \in S, NEW p
    PROVE  Cardinality(Apariciones(Append(l, e), p))
             = Cardinality(Apariciones(l, p)) + (IF e = p THEN 1 ELSE 0)
<1>1. /\ Append(l, e) \in Seq(S) /\ Len(Append(l, e)) = Len(l) + 1 /\ Len(l) \in Nat
      /\ \A j \in 1 .. Len(l) : Append(l, e)[j] = l[j]
      /\ Append(l, e)[Len(l) + 1] = e
  BY AppendProperties, LenProperties
<1>2. SinEl(Len(l) + 1, Append(l, e), l) /\ Len(l) + 1 \in 1 .. Len(Append(l, e))
  BY <1>1 DEF SinEl
<1>. DEFINE a == Append(l, e)
            n == Len(l) + 1
<1>3. a \in Seq(S) /\ n \in 1 .. Len(a) /\ SinEl(n, a, l) /\ e = a[n]
  BY <1>1, <1>2
<1>4. Cardinality(Apariciones(a, p)) = Cardinality(Apariciones(l, p)) + (IF e = p THEN 1 ELSE 0)
  <2>. HIDE DEF a, n
  <2>. QED
    BY <1>3, UnoMenos
<1>. QED
  BY <1>4

\* list_remove at 0.
LEMMA ContarTail ==
    ASSUME NEW S, NEW l \in Seq(S), l # <<>>, NEW p
    PROVE  Cardinality(Apariciones(l, p))
             = Cardinality(Apariciones(Tail(l), p)) + (IF Head(l) = p THEN 1 ELSE 0)
<1>1. /\ Tail(l) \in Seq(S) /\ Len(Tail(l)) = Len(l) - 1
      /\ \A j \in 1 .. Len(Tail(l)) : Tail(l)[j] = l[j + 1]
  BY HeadTailProperties
<1>2. Len(l) \in Nat /\ Len(l) # 0 /\ Head(l) = l[1]
  BY EmptySeq, LenProperties
<1>3. SinEl(1, l, Tail(l)) /\ 1 \in 1 .. Len(l)
  BY <1>1, <1>2 DEF SinEl
<1>. DEFINE r == Tail(l)
            e == Head(l)
<1>4. r \in Seq(S) /\ 1 \in 1 .. Len(l) /\ SinEl(1, l, r) /\ e = l[1]
  BY <1>1, <1>2, <1>3
<1>5. Cardinality(Apariciones(l, p)) = Cardinality(Apariciones(r, p)) + (IF e = p THEN 1 ELSE 0)
  <2>. HIDE DEF r, e
  <2>. QED
    BY <1>4, UnoMenos
<1>. QED
  BY <1>5

\* list_remove at the end.
LEMMA ContarFront ==
    ASSUME NEW S, NEW l \in Seq(S), l # <<>>, NEW p
    PROVE  /\ Front(l) \in Seq(S) /\ Len(Front(l)) = Len(l) - 1
           /\ Last(l) \in S
           /\ Cardinality(Apariciones(l, p))
                = Cardinality(Apariciones(Front(l), p)) + (IF Last(l) = p THEN 1 ELSE 0)
<1>1. Len(l) \in Nat /\ Len(l) # 0 /\ Last(l) = l[Len(l)] /\ \A j \in 1 .. Len(l) : l[j] \in S
  BY EmptySeq, LenProperties, ElementOfSeq DEF Last
<1>2. /\ Front(l) \in Seq(S) /\ Len(Front(l)) = Len(l) - 1
      /\ \A j \in 1 .. Len(l) - 1 : Front(l)[j] = l[j]
  <2>. DEFINE n == Len(l) - 1
  <2>0. n \in Nat /\ n = Len(l) - 1 /\ n - 1 + 1 = n
    BY <1>1
  <2>1. \A j \in 1 .. n : l[j] \in S
    BY <1>1
  <2>2. /\ SubSeq(l, 1, n) \in Seq(S)
        /\ Len(SubSeq(l, 1, n)) = IF 1 <= n THEN n - 1 + 1 ELSE 0
        /\ \A j \in 1 .. n - 1 + 1 : SubSeq(l, 1, n)[j] = l[1 + j - 1]
    <3>. HIDE DEF n
    <3>. QED
      BY <2>0, <2>1, SubSeqProperties
  <2>3. Front(l) = SubSeq(l, 1, n)
    BY DEF Front
  <2>. HIDE DEF n
  <2>4. Len(Front(l)) = n
    BY <2>0, <2>2, <2>3
  <2>5. ASSUME NEW j \in 1 .. n  PROVE Front(l)[j] = l[j]
    <3>1. j \in 1 .. n - 1 + 1 /\ 1 + j - 1 = j
      BY <2>0
    <3>2. SubSeq(l, 1, n)[j] = l[1 + j - 1]
      BY <2>2, <3>1
    <3>. QED
      BY <2>3, <3>1, <3>2
  <2>. QED
    BY <2>0, <2>2, <2>3, <2>4, <2>5
<1>3. SinEl(Len(l), l, Front(l)) /\ Len(l) \in 1 .. Len(l)
  BY <1>1, <1>2 DEF SinEl
<1>4. Cardinality(Apariciones(l, p))
        = Cardinality(Apariciones(Front(l), p)) + (IF Last(l) = p THEN 1 ELSE 0)
  BY <1>1, <1>2, <1>3, UnoMenos
<1>5. Last(l) \in S
  BY <1>1
<1>. QED
  BY <1>1, <1>2, <1>4, <1>5

\* list_remove at any place.
LEMMA ContarRemoveAt ==
    ASSUME NEW S, NEW l \in Seq(S), NEW i \in 1 .. Len(l), NEW p
    PROVE  /\ RemoveAt(l, i) \in Seq(S)
           /\ SinEl(i, l, RemoveAt(l, i))
           /\ Cardinality(Apariciones(l, p))
                = Cardinality(Apariciones(RemoveAt(l, i), p)) + (IF l[i] = p THEN 1 ELSE 0)
<1>. DEFINE a == SubSeq(l, 1, i - 1)
            b == SubSeq(l, i + 1, Len(l))
<1>1. Len(l) \in Nat /\ i \in Int /\ \A j \in 1 .. Len(l) : l[j] \in S
  BY LenProperties, ElementOfSeq
<1>2. a \in Seq(S) /\ Len(a) = i - 1 /\ \A j \in 1 .. i - 1 : a[j] = l[j]
  <2>1. \A j \in 1 .. i - 1 : l[j] \in S
    BY <1>1
  <2>. QED
    BY <1>1, <2>1, SubSeqProperties
<1>3. b \in Seq(S) /\ Len(b) = Len(l) - i /\ \A j \in 1 .. Len(l) - i : b[j] = l[i + j]
  <2>1. \A j \in i + 1 .. Len(l) : l[j] \in S
    BY <1>1
  <2>2. /\ b \in Seq(S)
        /\ Len(b) = IF i + 1 <= Len(l) THEN Len(l) - (i + 1) + 1 ELSE 0
        /\ \A j \in 1 .. Len(l) - (i + 1) + 1 : b[j] = l[(i + 1) + j - 1]
    BY <1>1, <2>1, SubSeqProperties
  <2>. HIDE DEF b
  <2>3. Len(b) = Len(l) - i
    BY <1>1, <2>2
  <2>4. ASSUME NEW j \in 1 .. Len(l) - i  PROVE b[j] = l[i + j]
    <3>1. j \in 1 .. Len(l) - (i + 1) + 1 /\ (i + 1) + j - 1 = i + j
      BY <1>1
    <3>2. b[j] = l[(i + 1) + j - 1]
      BY <2>2, <3>1
    <3>. QED
      BY <3>1, <3>2
  <2>. QED
    BY <2>2, <2>3, <2>4
<1>4. RemoveAt(l, i) = a \o b
  BY DEF RemoveAt
<1>. HIDE DEF a, b
<1>5. /\ a \o b \in Seq(S) /\ Len(a \o b) = Len(a) + Len(b)
      /\ \A j \in 1 .. Len(a) + Len(b) : (a \o b)[j] = IF j <= Len(a) THEN a[j] ELSE b[j - Len(a)]
  BY <1>2, <1>3, ConcatProperties
<1>6. Len(a \o b) = Len(l) - 1
  BY <1>1, <1>2, <1>3, <1>5
<1>7. ASSUME NEW j \in 1 .. i - 1  PROVE (a \o b)[j] = l[j]
  <2>1. j \in 1 .. Len(a) + Len(b) /\ j <= Len(a)
    BY <1>1, <1>2, <1>3
  <2>. QED
    BY <1>2, <1>5, <2>1
<1>8. ASSUME NEW j \in i .. Len(l) - 1  PROVE (a \o b)[j] = l[j + 1]
  <2>1. j \in 1 .. Len(a) + Len(b) /\ ~(j <= Len(a)) /\ j - Len(a) = j - i + 1
        /\ j - i + 1 \in 1 .. Len(l) - i /\ i + (j - i + 1) = j + 1
    BY <1>1, <1>2, <1>3
  <2>2. (a \o b)[j] = b[j - i + 1]
    BY <1>5, <2>1
  <2>. QED
    BY <1>3, <2>1, <2>2
<1>9. SinEl(i, l, a \o b)
  BY <1>6, <1>7, <1>8 DEF SinEl
<1>10. Cardinality(Apariciones(l, p))
        = Cardinality(Apariciones(a \o b, p)) + (IF l[i] = p THEN 1 ELSE 0)
  <2>. DEFINE r == a \o b
              e == l[i]
  <2>1. r \in Seq(S) /\ SinEl(i, l, r) /\ e = l[i]
    BY <1>5, <1>9
  <2>2. Cardinality(Apariciones(l, p)) = Cardinality(Apariciones(r, p)) + (IF e = p THEN 1 ELSE 0)
    <3>. HIDE DEF r, e
    <3>. QED
      BY <2>1, UnoMenos
  <2>. QED
    BY <2>2
<1>. QED
  BY <1>4, <1>5, <1>9, <1>10

\* The members of a list with one more, and of one with one less.
LEMMA MiembrosAppend ==
    ASSUME NEW S, NEW l \in Seq(S), NEW e \in S
    PROVE  ToSet(Append(l, e)) = ToSet(l) \cup {e}
<1>1. /\ Append(l, e) \in Seq(S) /\ Len(Append(l, e)) = Len(l) + 1 /\ Len(l) \in Nat
      /\ \A j \in 1 .. Len(l) : Append(l, e)[j] = l[j]
      /\ Append(l, e)[Len(l) + 1] = e
  BY AppendProperties, LenProperties
<1>2. DOMAIN l = 1 .. Len(l) /\ DOMAIN Append(l, e) = 1 .. Len(l) + 1
  BY <1>1, LenProperties
<1>3. 1 .. Len(l) + 1 = (1 .. Len(l)) \cup {Len(l) + 1}
  BY <1>1
<1>. QED
  BY <1>1, <1>2, <1>3 DEF ToSet

\* Without one element, the members are the rest and that one.
LEMMA MiembrosSinEl ==
    ASSUME NEW S, NEW l \in Seq(S), NEW r \in Seq(S), NEW i \in 1 .. Len(l), SinEl(i, l, r)
    PROVE  ToSet(l) = ToSet(r) \cup {l[i]}
<1>1. /\ Len(l) \in Nat /\ Len(r) \in Nat /\ Len(r) = Len(l) - 1
      /\ DOMAIN l = 1 .. Len(l) /\ DOMAIN r = 1 .. Len(r)
  BY LenProperties DEF SinEl
<1>2. ASSUME NEW j \in 1 .. Len(l), j # i  PROVE \E k \in 1 .. Len(r) : r[k] = l[j]
  <2>1. CASE j < i
    <3>1. j \in 1 .. i - 1 /\ j \in 1 .. Len(r)
      BY <1>1, <2>1
    <3>. QED
      BY <3>1 DEF SinEl
  <2>2. CASE ~(j < i)
    <3>1. j - 1 \in i .. Len(r) /\ j - 1 \in 1 .. Len(r) /\ (j - 1) + 1 = j
      BY <1>1, <1>2, <2>2
    <3>2. r[j - 1] = l[j]
      BY <3>1 DEF SinEl
    <3>. QED
      BY <3>1, <3>2
  <2>. QED
    BY <2>1, <2>2
<1>3. ASSUME NEW k \in 1 .. Len(r)  PROVE \E j \in 1 .. Len(l) : r[k] = l[j]
  <2>1. CASE k < i
    <3>1. k \in 1 .. i - 1 /\ k \in 1 .. Len(l)
      BY <1>1, <2>1
    <3>. QED
      BY <3>1 DEF SinEl
  <2>2. CASE ~(k < i)
    <3>1. k \in i .. Len(r) /\ k + 1 \in 1 .. Len(l)
      BY <1>1, <2>2
    <3>. QED
      BY <3>1 DEF SinEl
  <2>. QED
    BY <2>1, <2>2
<1>4. ToSet(l) \subseteq ToSet(r) \cup {l[i]}
  BY <1>1, <1>2 DEF ToSet
<1>5. ToSet(r) \cup {l[i]} \subseteq ToSet(l)
  BY <1>1, <1>3 DEF ToSet
<1>. QED
  BY <1>4, <1>5
-----------------------------------------------------------------------------
\* The least number.

MenorQue == {par \in Nat \X Nat : par[1] < par[2]}

\* The least of some numbers is one of them, and there is none before.
LEMMA MinimoExiste ==
  ASSUME NEW I, I \subseteq Nat, I # {}
  PROVE  Min(I) \in I /\ \A i \in I : Min(I) <= i
<1>1. IsWellFoundedOn(MenorQue, Nat)
  <2>1. OpToRel(<, Nat) = MenorQue
    BY DEF OpToRel, MenorQue
  <2>. QED
    BY <2>1, NatLessThanWellFounded
<1>2. PICK m \in I : \A i \in I : <<i, m>> \notin MenorQue
  BY <1>1, WFMin
<1>3. ASSUME NEW i \in I  PROVE m <= i
  <2>1. i \in Nat /\ m \in Nat
    OBVIOUS
  <2>2. <<i, m>> \notin MenorQue
    BY <1>2
  <2>3. ~(i < m)
    BY <2>1, <2>2 DEF MenorQue
  <2>. QED
    BY <2>1, <2>3
<1>. QED
  BY <1>2, <1>3 DEF Min
=============================================================================
