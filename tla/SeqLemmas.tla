----------------------------- MODULE SeqLemmas ------------------------------
(***************************************************************************)
(* What Append and the removals of SequencesExt do to the elements of a    *)
(* sequence without repetitions, such as Conn.subs and Conn.pending, and   *)
(* what Min chooses.                                                       *)
(***************************************************************************)
EXTENDS SequencesExt, SequenceTheorems, FiniteSetTheorems,
        WellFoundedInduction, TLAPS

\* RemoveAt drops one position and shifts the ones behind it.
LEMMA RemoveAtShape ==
    ASSUME NEW S, NEW q \in Seq(S), NEW i \in 1 .. Len(q)
    PROVE  /\ RemoveAt(q, i) \in Seq(S)
           /\ Len(RemoveAt(q, i)) = Len(q) - 1
           /\ \A j \in 1 .. Len(q) - 1 :
                 RemoveAt(q, i)[j] = IF j < i THEN q[j] ELSE q[j + 1]
<1> DEFINE front == SubSeq(q, 1, i - 1)
           back == SubSeq(q, i + 1, Len(q))
<1>1. /\ Len(q) \in Nat
      /\ \A j \in 1 .. Len(q) : q[j] \in S
  BY LenProperties, ElementOfSeq
<1>2. /\ front \in Seq(S)
      /\ Len(front) = i - 1
      /\ \A j \in 1 .. i - 1 : front[j] = q[j]
  <2>1. \A j \in 1 .. i - 1 : q[j] \in S
    BY <1>1
  <2> QED
    BY <1>1, <2>1, SubSeqProperties
<1>3. /\ back \in Seq(S)
      /\ Len(back) = Len(q) - i
      /\ \A j \in 1 .. Len(q) - i : back[j] = q[i + j]
  <2>1. \A j \in i + 1 .. Len(q) : q[j] \in S
    BY <1>1
  <2>2. i + 1 \in Int /\ Len(q) \in Int
    BY <1>1
  <2>3. /\ back \in Seq(S)
        /\ Len(back) = IF i + 1 <= Len(q) THEN Len(q) - (i + 1) + 1 ELSE 0
        /\ \A j \in 1 .. Len(q) - (i + 1) + 1 : back[j] = q[i + 1 + j - 1]
    BY <2>1, <2>2, SubSeqProperties
  <2> QED
    BY <1>1, <2>3
<1>4. RemoveAt(q, i) = front \o back
  BY DEF RemoveAt
<1> HIDE DEF front, back
<1>5. /\ front \o back \in Seq(S)
      /\ Len(front \o back) = Len(front) + Len(back)
      /\ \A j \in 1 .. Len(front) + Len(back) :
            (front \o back)[j] = IF j <= Len(front) THEN front[j]
                                 ELSE back[j - Len(front)]
  BY <1>2, <1>3, ConcatProperties
<1>6. ASSUME NEW j \in 1 .. Len(q) - 1
      PROVE  (front \o back)[j] = IF j < i THEN q[j] ELSE q[j + 1]
  <2>1. CASE j < i
    BY <1>1, <1>2, <1>3, <1>5, <2>1
  <2>2. CASE ~(j < i)
    <3> DEFINE k == j - Len(front)
    <3>1. /\ k \in 1 .. Len(q) - i
          /\ i + k = j + 1
          /\ j \in 1 .. Len(front) + Len(back)
          /\ ~(j <= Len(front))
      BY <1>1, <1>2, <1>3, <2>2
    <3>2. (front \o back)[j] = back[k]
      BY <1>5, <3>1
    <3> HIDE DEF k
    <3>3. back[k] = q[i + k]
      BY <1>3, <3>1
    <3> QED
      BY <2>2, <3>1, <3>2, <3>3
  <2> QED
    BY <2>1, <2>2
<1> QED
  BY <1>1, <1>2, <1>3, <1>4, <1>5, <1>6

\* From a sequence without repetitions RemoveAt removes exactly one element.
LEMMA RemoveAtOnce ==
    ASSUME NEW S, NEW q \in Seq(S), NEW i \in DOMAIN q, IsInjective(q)
    PROVE  /\ RemoveAt(q, i) \in Seq(S)
           /\ IsInjective(RemoveAt(q, i))
           /\ \A x : Contains(RemoveAt(q, i), x) <=> Contains(q, x) /\ x # q[i]
<1> DEFINE r == RemoveAt(q, i)
<1>1. /\ Len(q) \in Nat
      /\ DOMAIN q = 1 .. Len(q)
      /\ i \in 1 .. Len(q)
  BY LenProperties
<1>2. /\ r \in Seq(S)
      /\ Len(r) = Len(q) - 1
      /\ \A j \in 1 .. Len(q) - 1 : r[j] = IF j < i THEN q[j] ELSE q[j + 1]
  BY <1>1, RemoveAtShape
<1>3. DOMAIN r = 1 .. Len(q) - 1
  BY <1>2, LenProperties
<1>4. \A j, k \in 1 .. Len(q) : q[j] = q[k] => j = k
  BY <1>1 DEF IsInjective
<1> HIDE DEF r
<1>5. \A j, k \in 1 .. Len(q) - 1 : r[j] = r[k] => j = k
  BY <1>1, <1>2, <1>4
<1>6. IsInjective(r)
  BY <1>3, <1>5 DEF IsInjective
<1>7. ASSUME NEW x, Contains(r, x)
      PROVE  Contains(q, x) /\ x # q[i]
  <2>1. PICK j \in 1 .. Len(q) - 1 : r[j] = x
    BY <1>2, <1>7 DEF Contains
  <2>2. PICK k \in 1 .. Len(q) : q[k] = x /\ k # i
    BY <1>1, <1>2, <2>1
  <2> QED
    BY <1>1, <1>4, <2>2 DEF Contains
<1>8. ASSUME NEW x, Contains(q, x), x # q[i]
      PROVE  Contains(r, x)
  <2>1. PICK k \in 1 .. Len(q) : q[k] = x /\ k # i
    BY <1>8 DEF Contains
  <2>2. CASE k < i
    BY <1>1, <1>2, <2>1, <2>2 DEF Contains
  <2>3. CASE k > i
    <3>1. k - 1 \in 1 .. Len(q) - 1 /\ ~(k - 1 < i) /\ (k - 1) + 1 = k
      BY <1>1, <2>3
    <3>2. r[k - 1] = x
      BY <1>2, <2>1, <3>1
    <3> QED
      BY <1>2, <3>1, <3>2 DEF Contains
  <2> QED
    BY <1>1, <2>1, <2>2, <2>3
<1> QED
  BY <1>2, <1>6, <1>7, <1>8 DEF r

\* RemoveFirst removes the position of the element, if there is one.
LEMMA RemoveFirstIsRemoveAt ==
    ASSUME NEW S, NEW q \in Seq(S), NEW e, IsInjective(q), Contains(q, e)
    PROVE  \E i \in 1 .. Len(q) : q[i] = e /\ RemoveFirst(q, e) = RemoveAt(q, i)
<1>1. PICK i \in 1 .. Len(q) : q[i] = e
  BY DEF Contains
<1>2. DOMAIN q = 1 .. Len(q)
  BY LenProperties
<1>3. {k \in 1 .. Len(q) : q[k] = e} = {i}
  BY <1>1, <1>2 DEF IsInjective
<1>4. Min({i}) = i
  BY DEF Min
<1>5. SelectInSeq(q, LAMBDA v : v = e) = i
  BY <1>3, <1>4 DEF SelectInSeq
<1> QED
  BY <1>1, <1>5 DEF RemoveFirst

\* RemoveFirst takes its element, and nothing else, out of a sequence
\* without repetitions.
LEMMA RemoveFirstOnce ==
    ASSUME NEW S, NEW q \in Seq(S), NEW e, IsInjective(q)
    PROVE  /\ RemoveFirst(q, e) \in Seq(S)
           /\ IsInjective(RemoveFirst(q, e))
           /\ \A x : Contains(RemoveFirst(q, e), x) <=> Contains(q, x) /\ x # e
<1>1. CASE ~Contains(q, e)
  <2>1. RemoveFirst(q, e) = q
    BY <1>1 DEF RemoveFirst, Contains
  <2> QED
    BY <1>1, <2>1
<1>2. CASE Contains(q, e)
  <2>1. PICK i \in 1 .. Len(q) : q[i] = e /\ RemoveFirst(q, e) = RemoveAt(q, i)
    BY <1>2, RemoveFirstIsRemoveAt
  <2>2. DOMAIN q = 1 .. Len(q)
    BY LenProperties
  <2> QED
    BY <2>1, <2>2, RemoveAtOnce
<1> QED
  BY <1>1, <1>2

\* The elements that RemoveFirst leaves keep their order.
LEMMA RemoveFirstInOrder ==
    ASSUME NEW S, NEW q \in Seq(S), NEW e, IsInjective(q)
    PROVE  \A i, j \in DOMAIN q, k, l \in DOMAIN RemoveFirst(q, e) :
              /\ i < j
              /\ q[i] = RemoveFirst(q, e)[k] /\ q[j] = RemoveFirst(q, e)[l]
              => k < l
<1> DEFINE r == RemoveFirst(q, e)
<1>1. /\ Len(q) \in Nat
      /\ DOMAIN q = 1 .. Len(q)
      /\ \A i, j \in 1 .. Len(q) : q[i] = q[j] => i = j
  BY LenProperties DEF IsInjective
<1>2. CASE ~Contains(q, e)
  <2>1. r = q
    BY <1>2 DEF RemoveFirst, Contains
  <2> HIDE DEF r
  <2>2. \A i, j, k, l \in 1 .. Len(q) :
           i < j /\ q[i] = q[k] /\ q[j] = q[l] => k < l
    BY <1>1
  <2>3. \A i, j \in DOMAIN q, k, l \in DOMAIN r :
           i < j /\ q[i] = r[k] /\ q[j] = r[l] => k < l
    BY <1>1, <2>1, <2>2
  <2> QED
    BY <2>3 DEF r
<1>3. CASE Contains(q, e)
  <2>1. PICK n \in 1 .. Len(q) : r = RemoveAt(q, n)
    BY <1>3, RemoveFirstIsRemoveAt
  <2> HIDE DEF r
  <2>2. /\ r \in Seq(S) /\ Len(r) = Len(q) - 1
        /\ \A m \in 1 .. Len(q) - 1 :
              r[m] = IF m < n THEN q[m] ELSE q[m + 1]
    BY <2>1, RemoveAtShape
  <2>3. DOMAIN r = 1 .. Len(q) - 1
    BY <2>2, LenProperties
  <2>4. ASSUME NEW i \in 1 .. Len(q), NEW j \in 1 .. Len(q),
               NEW k \in 1 .. Len(q) - 1, NEW l \in 1 .. Len(q) - 1,
               i < j, q[i] = r[k], q[j] = r[l]
        PROVE  k < l
    <3>1. i = IF k < n THEN k ELSE k + 1
      BY <1>1, <2>2, <2>4
    <3>2. j = IF l < n THEN l ELSE l + 1
      BY <1>1, <2>2, <2>4
    <3> QED
      BY <1>1, <2>4, <3>1, <3>2
  <2>5. \A i, j \in DOMAIN q, k, l \in DOMAIN r :
           i < j /\ q[i] = r[k] /\ q[j] = r[l] => k < l
    BY <1>1, <2>3, <2>4
  <2> QED
    BY <2>5 DEF r
<1> QED
  BY <1>2, <1>3

\* Append adds its element and keeps a sequence without it repetition-free.
LEMMA AppendOnce ==
    ASSUME NEW S, NEW q \in Seq(S), NEW e \in S
    PROVE  /\ Append(q, e) \in Seq(S)
           /\ IsInjective(q) /\ ~Contains(q, e) => IsInjective(Append(q, e))
           /\ \A x : Contains(Append(q, e), x) <=> Contains(q, x) \/ x = e
<1> DEFINE r == Append(q, e)
<1>1. /\ Len(q) \in Nat
      /\ DOMAIN q = 1 .. Len(q)
  BY LenProperties
<1>2. /\ r \in Seq(S)
      /\ Len(r) = Len(q) + 1
      /\ \A i \in 1 .. Len(q) : r[i] = q[i]
      /\ r[Len(q) + 1] = e
  BY AppendProperties
<1>3. DOMAIN r = 1 .. Len(q) + 1
  BY <1>2, LenProperties
<1> HIDE DEF r
<1>4. ASSUME IsInjective(q), ~Contains(q, e)
      PROVE  IsInjective(r)
  BY <1>1, <1>2, <1>3, <1>4 DEF IsInjective, Contains
<1>5. \A x : Contains(r, x) <=> Contains(q, x) \/ x = e
  BY <1>1, <1>2 DEF Contains
<1> QED
  BY <1>2, <1>4, <1>5 DEF r

\* An element appended comes after all the others.
LEMMA AppendInOrder ==
    ASSUME NEW S, NEW q \in Seq(S), NEW e \in S, IsInjective(q)
    PROVE  ~Contains(q, e) =>
              \A i, j \in DOMAIN q, k, l \in DOMAIN Append(q, e) :
                 i < j /\ q[i] = Append(q, e)[k] /\ q[j] = Append(q, e)[l]
                    => k < l
<1> DEFINE r == Append(q, e)
<1>1. /\ Len(q) \in Nat
      /\ DOMAIN q = 1 .. Len(q)
      /\ \A i, j \in 1 .. Len(q) : q[i] = q[j] => i = j
  BY LenProperties DEF IsInjective
<1>2. /\ r \in Seq(S)
      /\ Len(r) = Len(q) + 1
      /\ \A i \in 1 .. Len(q) : r[i] = q[i]
      /\ r[Len(q) + 1] = e
  BY AppendProperties
<1>3. DOMAIN r = 1 .. Len(q) + 1
  BY <1>2, LenProperties
<1> HIDE DEF r
<1>4. ASSUME ~Contains(q, e),
             NEW i \in 1 .. Len(q), NEW k \in 1 .. Len(q) + 1, q[i] = r[k]
      PROVE  k = i
  <2>1. q[i] # e
    BY <1>4 DEF Contains
  <2>2. k \in 1 .. Len(q)
    BY <1>1, <1>2, <1>4, <2>1
  <2> QED
    BY <1>1, <1>2, <1>4, <2>2
<1>5. ASSUME ~Contains(q, e)
      PROVE  \A i, j \in DOMAIN q, k, l \in DOMAIN r :
                i < j /\ q[i] = r[k] /\ q[j] = r[l] => k < l
  BY <1>1, <1>3, <1>4, <1>5
<1> QED
  BY <1>5 DEF r

\* Every set of natural numbers has a least element, which Min chooses: of
\* What a sequence contains is its head or in its tail.
LEMMA HeadOrTail ==
    ASSUME NEW S, NEW q \in Seq(S), NEW x, Contains(q, x)
    PROVE  q # <<>> /\ (x = Head(q) \/ Contains(Tail(q), x))
<1>1. PICK i \in 1 .. Len(q) : q[i] = x
  BY DEF Contains
<1>2. Len(q) \in Nat /\ q # <<>>
  BY <1>1, LenProperties, EmptySeq
<1>3. /\ Head(q) = q[1] /\ Len(Tail(q)) = Len(q) - 1
      /\ \A j \in 1 .. Len(q) - 1 : Tail(q)[j] = q[j + 1]
  BY <1>2, HeadTailProperties
<1>4. CASE i = 1
  BY <1>1, <1>2, <1>3, <1>4
<1>5. CASE i # 1
  <2>1. i - 1 \in 1 .. Len(q) - 1 /\ (i - 1) + 1 = i
    BY <1>2, <1>5
  <2>2. Tail(q)[i - 1] = x
    BY <1>1, <1>3, <2>1
  <2> QED
    BY <1>2, <1>3, <2>1, <2>2 DEF Contains
<1> QED
  BY <1>4, <1>5

\* the intervals below its elements one contains no other.
LEMMA MinIsLeast ==
    ASSUME NEW T \in SUBSET Nat, T # {}
    PROVE  Min(T) \in T /\ \A y \in T : Min(T) <= y
<1> DEFINE Below == {0 .. x : x \in T}
<1>1. Below \subseteq FiniteSubsetsOf(Nat)
  <2>1. \A x \in T : 0 .. x \in SUBSET Nat /\ IsFiniteSet(0 .. x)
    BY FS_Interval
  <2> QED
    BY <2>1 DEF FiniteSubsetsOf
<1>2. \E u \in Below : \A v \in Below :
         <<v, u>> \notin StrictSubsetOrdering(Nat)
  <2>1. Below # {}
    OBVIOUS
  <2> HIDE DEF Below
  <2> QED
    BY <1>1, <2>1, FS_StrictSubsetOrderingWellFounded, WFMin
<1>3. PICK x \in T : \A y \in T :
         <<0 .. y, 0 .. x>> \notin StrictSubsetOrdering(Nat)
  BY <1>2
<1>4. ASSUME NEW y \in T, y < x
      PROVE  FALSE
  <2>1. /\ 0 .. y \subseteq 0 .. x /\ 0 .. x \subseteq Nat
        /\ x \in 0 .. x /\ x \notin 0 .. y
    BY <1>4
  <2>2. <<0 .. y, 0 .. x>> \in StrictSubsetOrdering(Nat)
    BY <2>1 DEF StrictSubsetOrdering
  <2> QED
    BY <1>3, <2>2
<1>5. \A y \in T : x <= y
  BY <1>4
<1> QED
  BY <1>5 DEF Min

=============================================================================
