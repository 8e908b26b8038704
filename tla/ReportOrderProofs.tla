-------------------------- MODULE ReportOrderProofs --------------------------
(***************************************************************************)
(* Proofs about ReportOrder, for any regions, names and spellings and any   *)
(* number of records that sort.Slice sorts by insertion.                    *)
(*                                                                          *)
(* The comparator is no order. Before is what a sorted prefix promises      *)
(* nevertheless: ascending keys, and the comparator itself where no two     *)
(* names differ in case alone.                                              *)
(***************************************************************************)
EXTENDS ReportOrder, FiniteSetTheorems, SequenceTheorems, WellFoundedInduction, TLAPS

-----------------------------------------------------------------------------
(* Least positions, permutations and insertion.                             *)

\* Every set of numbers that is not empty has a least element.
LEMMA Least == \A T \in SUBSET Nat : T # {} => \E x \in T : \A y \in T : x <= y
<1> SUFFICES ASSUME NEW T \in SUBSET Nat, T # {} PROVE \E x \in T : \A y \in T : x <= y
  OBVIOUS
<1> DEFINE R == OpToRel(<, Nat)
<1>1. IsWellFoundedOn(R, Nat)
  BY NatLessThanWellFounded
<1> HIDE DEF R
<1>2. \E x \in T : \A y \in T : ~ (<<y, x>> \in R)
  BY <1>1, WFMin
<1>3. \A x, y \in T : ~ (<<y, x>> \in R) => x <= y
  BY DEF R, OpToRel
<1>4. QED  BY <1>2, <1>3

\* Two orders that agree everywhere are one.
LEMMA SameOrder ==
    \A s, t \in [1..Count -> Ids] : (\A i \in 1..Count : s[i] = t[i]) => s = t
<1> SUFFICES ASSUME NEW s \in [1..Count -> Ids], NEW t \in [1..Count -> Ids],
                    \A i \in 1..Count : s[i] = t[i]
             PROVE  s = t
  OBVIOUS
<1>1. s = [i \in 1..Count |-> s[i]] /\ t = [i \in 1..Count |-> t[i]]
  OBVIOUS
<1>2. [i \in 1..Count |-> s[i]] = [i \in 1..Count |-> t[i]]
  OBVIOUS
<1>3. QED  BY <1>1, <1>2, Zenon

LEMMA CountFacts == Count \in Nat /\ 1 <= Count
BY CountAssumption

\* The orders of arrival are the permutations of the records.
LEMMA Arrivals ==
    \A s : s \in SetToSeqs(Ids) <=>
               /\ s \in [1..Count -> Ids]
               /\ \A i, j \in 1..Count : i # j => s[i] # s[j]
<1>1. Cardinality(Ids) = Count
  BY CountFacts, FS_Interval DEF Ids
<1>2. QED  BY <1>1 DEF SetToSeqs

\* A permutation has every record.
LEMMA EveryRecord ==
    \A s \in SetToSeqs(Ids) : \A a \in Ids : \E i \in 1..Count : s[i] = a
<1> SUFFICES ASSUME NEW s \in SetToSeqs(Ids) PROVE \A a \in Ids : \E i \in 1..Count : s[i] = a
  OBVIOUS
<1>1. s \in Injection(Ids, Ids)
  BY Arrivals DEF Ids, Injection, IsInjective
<1>2. IsFiniteSet(Ids)
  BY CountFacts, FS_Interval DEF Ids
<1>3. s \in Surjection(Ids, Ids)
  BY <1>1, <1>2, FS_Injection
<1>4. QED  BY <1>3 DEF Surjection, Ids

\* The list with its n-th element moved down to position k.
Moved(s, n, k) == [i \in 1..Count |-> IF i < k \/ i > n THEN s[i]
                                      ELSE IF i = k THEN s[n] ELSE s[i - 1]]

LEMMA InsertionMoves ==
    \A s \in [1..Count -> Ids], n \in 1..Count : \A k \in 1..n :
        InsertAt(RemoveAt(s, n), k, s[n]) = Moved(s, n, k)
<1> SUFFICES ASSUME NEW s \in [1..Count -> Ids], NEW n \in 1..Count, NEW k \in 1..n
             PROVE  InsertAt(RemoveAt(s, n), k, s[n]) = Moved(s, n, k)
  OBVIOUS
<1> DEFINE left  == SubSeq(s, 1, n - 1)
           right == SubSeq(s, n + 1, Count)
           rest  == left \o right
           low   == SubSeq(rest, 1, k - 1)
           high  == SubSeq(rest, k, Count - 1)
           mid   == low \o <<s[n]>>
<1>0. Count \in Nat /\ n \in Nat /\ k \in Nat /\ k <= n /\ 1 <= k /\ n <= Count
  BY CountFacts
<1>1. s \in Seq(Ids) /\ Len(s) = Count
  BY <1>0
<1>2. /\ left \in Seq(Ids) /\ Len(left) = n - 1
      /\ \A i \in 1..(n - 1) : left[i] = s[i]
  BY <1>0
<1>3. /\ right \in Seq(Ids) /\ Len(right) = Count - n
      /\ \A i \in 1..(Count - n) : right[i] = s[n + i]
  BY <1>0
<1> HIDE DEF left, right
<1>4. /\ rest \in Seq(Ids) /\ Len(rest) = Count - 1
      /\ \A i \in 1..(Count - 1) : rest[i] = IF i < n THEN s[i] ELSE s[i + 1]
  <2>1. /\ left \o right \in Seq(Ids) /\ Len(left \o right) = Len(left) + Len(right)
        /\ \A i \in 1..(Len(left) + Len(right)) :
               (left \o right)[i] = IF i <= Len(left) THEN left[i] ELSE right[i - Len(left)]
    BY <1>2, <1>3, ConcatProperties
  <2>2. Len(rest) = Count - 1
    BY <1>0, <1>2, <1>3, <2>1
  <2>3. ASSUME NEW i \in 1..(Count - 1)
        PROVE  rest[i] = IF i < n THEN s[i] ELSE s[i + 1]
    <3>1. CASE i < n
      BY <1>0, <1>2, <1>3, <2>1, <3>1
    <3>2. CASE ~(i < n)
      <4>1. i - (n - 1) \in 1..(Count - n) /\ n + (i - (n - 1)) = i + 1
        BY <1>0, <3>2
      <4>2. rest[i] = right[i - (n - 1)]
        BY <1>0, <1>2, <1>3, <2>1, <3>2
      <4>3. QED  BY <1>3, <3>2, <4>1, <4>2
    <3>3. QED  BY <3>1, <3>2
  <2>4. QED  BY <2>1, <2>2, <2>3
<1>5. RemoveAt(s, n) = rest
  BY <1>1 DEF RemoveAt, left, right
<1> HIDE DEF rest
<1>6. /\ low \in Seq(Ids) /\ Len(low) = k - 1
      /\ \A i \in 1..(k - 1) : low[i] = s[i]
  BY <1>0, <1>4
<1>7. /\ high \in Seq(Ids) /\ Len(high) = Count - k
      /\ \A i \in 1..(Count - k) : high[i] = rest[k + i - 1]
  BY <1>0, <1>4
<1> HIDE DEF low, high
<1>8. /\ mid \in Seq(Ids) /\ Len(mid) = k
      /\ \A i \in 1..k : mid[i] = IF i < k THEN s[i] ELSE s[n]
  BY <1>0, <1>6
<1> HIDE DEF mid
<1>9. /\ mid \o high \in Seq(Ids) /\ Len(mid \o high) = Count
      /\ \A i \in 1..Count : (mid \o high)[i] = IF i <= k THEN mid[i] ELSE high[i - k]
  <2>1. /\ mid \o high \in Seq(Ids) /\ Len(mid \o high) = Len(mid) + Len(high)
        /\ \A i \in 1..(Len(mid) + Len(high)) :
               (mid \o high)[i] = IF i <= Len(mid) THEN mid[i] ELSE high[i - Len(mid)]
    BY <1>7, <1>8, ConcatProperties
  <2>2. Len(mid) + Len(high) = Count
    BY <1>0, <1>7, <1>8
  <2>3. QED  BY <1>8, <2>1, <2>2
<1>10. \A i \in 1..Count : (mid \o high)[i] = Moved(s, n, k)[i]
  <2> SUFFICES ASSUME NEW i \in 1..Count PROVE (mid \o high)[i] = Moved(s, n, k)[i]
    OBVIOUS
  <2>1. CASE i <= k
    BY <1>0, <1>8, <1>9, <2>1 DEF Moved
  <2>2. CASE ~(i <= k)
    <3>1. i - k \in 1..(Count - k) /\ k + (i - k) - 1 = i - 1 /\ i - 1 \in 1..(Count - 1)
      BY <1>0, <2>2
    <3>2. (mid \o high)[i] = rest[i - 1]
      BY <1>7, <1>9, <2>2, <3>1
    <3>3. rest[i - 1] = IF i - 1 < n THEN s[i - 1] ELSE s[i]
      BY <1>0, <1>4, <3>1
    <3>4. Moved(s, n, k)[i] = IF i > n THEN s[i] ELSE s[i - 1]
      BY <1>0, <2>2 DEF Moved
    <3>5. i - 1 < n <=> ~(i > n)
      BY <1>0, <2>2
    <3>6. QED  BY <3>2, <3>3, <3>4, <3>5
  <2>3. QED  BY <2>1, <2>2
<1>11. mid \o high = Moved(s, n, k)
  <2>1. Moved(s, n, k) \in [1..Count -> Ids]
    BY <1>0 DEF Moved
  <2>2. Moved(s, n, k) \in Seq(Ids) /\ Len(Moved(s, n, k)) = Count
    BY <1>0, <2>1
  <2>3. QED  BY <1>9, <1>10, <2>2, SeqEqual
<1>12. InsertAt(rest, k, s[n]) = mid \o high
  BY <1>4 DEF InsertAt, mid, low, high
<1>13. QED  BY <1>5, <1>11, <1>12
-----------------------------------------------------------------------------
(* The comparator.                                                          *)

\* What the sorted prefix promises of an element before another.
Before(a, b) == KeyLeq(a, b) /\ (~CaseVariants => Less(a, b))

LEMMA AttributesTyped ==
    attributes \in [Ids -> Attributes] =>
        \A a \in Ids : a \in Nat /\ attributes[a].region \in Nat /\ attributes[a].lower \in Nat
<1> SUFFICES ASSUME attributes \in [Ids -> Attributes], NEW a \in Ids
             PROVE  a \in Nat /\ attributes[a].region \in Nat /\ attributes[a].lower \in Nat
  OBVIOUS
<1>1. a \in Nat
  BY CountFacts DEF Ids
<1>2. attributes[a] \in [region : Region, lower : Lower, spelling : Spelling]
  BY DEF Attributes
<1>3. attributes[a].region \in Region /\ attributes[a].lower \in Lower
  BY <1>2
<1>4. QED  BY <1>1, <1>3, RankAssumption

\* Keys are preordered, and Less is a total order of the records without variants.
LEMMA BeforeOrders ==
    attributes \in [Ids -> Attributes] =>
        /\ \A a, b \in Ids : Less(a, b) => Before(a, b)
        /\ \A a, b \in Ids : a # b /\ ~Less(a, b) => Before(b, a)
        /\ \A a, b, c \in Ids : Before(a, b) /\ Before(b, c) => Before(a, c)
        /\ \A a, b \in Ids : ~(Less(a, b) /\ Less(b, a))
<1> SUFFICES ASSUME attributes \in [Ids -> Attributes]
             PROVE  /\ \A a, b \in Ids : Less(a, b) => Before(a, b)
                    /\ \A a, b \in Ids : a # b /\ ~Less(a, b) => Before(b, a)
                    /\ \A a, b, c \in Ids : Before(a, b) /\ Before(b, c) => Before(a, c)
                    /\ \A a, b \in Ids : ~(Less(a, b) /\ Less(b, a))
  OBVIOUS
<1>0. \A a \in Ids : a \in Nat /\ attributes[a].region \in Nat /\ attributes[a].lower \in Nat
  BY AttributesTyped
<1>1. \A a, b \in Ids : Name(a) = Name(b) => attributes[a].lower = attributes[b].lower
  BY DEF Name
<1>2. ~CaseVariants => \A a, b \in Ids :
          /\ attributes[a].region = attributes[b].region
          /\ attributes[a].lower = attributes[b].lower
          => Name(a) = Name(b)
  BY DEF CaseVariants, Key
<1> DEFINE region(a) == attributes[a].region
           lower(a)  == attributes[a].lower
<1>3. \A a, b \in Ids : KeyLeq(a, b) <=> \/ region(a) < region(b)
                                         \/ region(a) = region(b) /\ lower(a) <= lower(b)
  BY DEF KeyLeq, Key
<1>4. \A a, b \in Ids : Less(a, b) <=>
          \/ region(a) < region(b)
          \/ /\ region(a) = region(b)
             /\ \/ Name(a) # Name(b) /\ lower(a) < lower(b)
                \/ Name(a) = Name(b) /\ a < b
  BY DEF Less
<1>5. ~CaseVariants => \A a, b \in Ids : Less(a, b) <=>
          \/ region(a) < region(b)
          \/ /\ region(a) = region(b)
             /\ \/ lower(a) < lower(b)
                \/ lower(a) = lower(b) /\ a < b
  BY <1>0, <1>1, <1>2, <1>4
<1>6. \A a \in Ids : a \in Nat /\ region(a) \in Nat /\ lower(a) \in Nat
  BY <1>0
<1>7. \A a, b \in Ids : Name(a) = Name(b) => lower(a) = lower(b)
  BY <1>1
<1> HIDE DEF region, lower
<1>8. \A a, b \in Ids : Less(a, b) => Before(a, b)
  BY <1>3, <1>4, <1>6, <1>7 DEF Before
<1>9. \A a, b \in Ids : a # b /\ ~Less(a, b) => Before(b, a)
  <2> SUFFICES ASSUME NEW a \in Ids, NEW b \in Ids, a # b, ~Less(a, b) PROVE Before(b, a)
    OBVIOUS
  <2>1. KeyLeq(b, a)
    BY <1>3, <1>4, <1>6, <1>7
  <2>2. ~CaseVariants => Less(b, a)
    BY <1>5, <1>6
  <2>3. QED  BY <2>1, <2>2 DEF Before
<1>10. \A a, b, c \in Ids : Before(a, b) /\ Before(b, c) => Before(a, c)
  <2> SUFFICES ASSUME NEW a \in Ids, NEW b \in Ids, NEW c \in Ids, Before(a, b), Before(b, c)
               PROVE  Before(a, c)
    OBVIOUS
  <2>1. KeyLeq(a, c)
    BY <1>3, <1>6 DEF Before
  <2>2. ~CaseVariants => Less(a, c)
    BY <1>5, <1>6 DEF Before
  <2>3. QED  BY <2>1, <2>2 DEF Before
<1>11. \A a, b \in Ids : ~(Less(a, b) /\ Less(b, a))
  BY <1>4, <1>6
<1>12. QED  BY <1>8, <1>9, <1>10, <1>11

\* An element is swapped down past those it is less than, to the first or behind one
\* it is not less than.
LEMMA PlaceFound ==
    \A s, n : n \in Nat /\ 1 <= n =>
        /\ Place(s, n) \in 1..n
        /\ \A m \in Place(s, n)..(n - 1) : Less(s[n], s[m])
        /\ Place(s, n) = 1 \/ ~Less(s[n], s[Place(s, n) - 1])
<1> SUFFICES ASSUME NEW s, NEW n \in Nat, 1 <= n
             PROVE  /\ Place(s, n) \in 1..n
                    /\ \A m \in Place(s, n)..(n - 1) : Less(s[n], s[m])
                    /\ Place(s, n) = 1 \/ ~Less(s[n], s[Place(s, n) - 1])
  OBVIOUS
<1> DEFINE past == {k \in 1..n : \A m \in k..(n - 1) : Less(s[n], s[m])}
<1>1. past \in SUBSET Nat /\ n \in past
  OBVIOUS
<1>2. PICK k \in past : \A j \in past : k <= j
  BY <1>1, Least
<1>3. k \in 1..n /\ \A m \in k..(n - 1) : Less(s[n], s[m])
  OBVIOUS
<1>4. k = 1 \/ ~Less(s[n], s[k - 1])
  <2> SUFFICES ASSUME k # 1, Less(s[n], s[k - 1]) PROVE FALSE
    OBVIOUS
  <2>1. \A m \in (k - 1)..(n - 1) : Less(s[n], s[m])
    BY <1>3
  <2>2. k - 1 \in past
    BY <1>3, <2>1
  <2>3. QED  BY <1>2, <1>3, <2>2
<1>5. \E j \in 1..n : /\ \A m \in j..(n - 1) : Less(s[n], s[m])
                      /\ j = 1 \/ ~Less(s[n], s[j - 1])
  BY <1>3, <1>4
<1>6. QED  BY <1>5 DEF Place

-----------------------------------------------------------------------------
(* The inductive invariant and its step.                                    *)

\* The first n elements of s come one before the other.
PrefixOrdered(s, n) == \A i, j \in 1..n : i < j => Before(s[i], s[j])

IInv == TypeOK /\ \A r \in Run : PrefixOrdered(list[r], sorted[r])

\* Moving an element leaves a permutation of the records.
LEMMA MovedArrival ==
    \A s \in SetToSeqs(Ids), n \in 1..Count : \A k \in 1..n :
        Moved(s, n, k) \in SetToSeqs(Ids)
<1> SUFFICES ASSUME NEW s \in SetToSeqs(Ids), NEW n \in 1..Count, NEW k \in 1..n
             PROVE  Moved(s, n, k) \in SetToSeqs(Ids)
  OBVIOUS
<1> DEFINE from(i) == IF i < k \/ i > n THEN i ELSE IF i = k THEN n ELSE i - 1
<1>0. Count \in Nat /\ n \in Nat /\ k \in Nat /\ k <= n /\ 1 <= k /\ n <= Count
  BY CountFacts
<1>1. /\ \A i \in 1..Count : from(i) \in 1..Count
      /\ \A i, j \in 1..Count : i # j => from(i) # from(j)
  BY <1>0
<1>2. \A i \in 1..Count : Moved(s, n, k)[i] = s[from(i)]
  BY DEF Moved
<1> HIDE DEF from
<1>3. s \in [1..Count -> Ids] /\ \A i, j \in 1..Count : i # j => s[i] # s[j]
  BY Arrivals
<1>4. Moved(s, n, k) \in [1..Count -> Ids]
  BY <1>1, <1>2, <1>3 DEF Moved
<1>5. \A i, j \in 1..Count : i # j => Moved(s, n, k)[i] # Moved(s, n, k)[j]
  BY <1>1, <1>2, <1>3
<1>6. QED  BY <1>4, <1>5, Arrivals

\* An element moved to its place lengthens the ordered prefix.
LEMMA MovedOrdered ==
    \A s \in SetToSeqs(Ids), n \in 2..Count :
        attributes \in [Ids -> Attributes] /\ PrefixOrdered(s, n - 1) =>
            PrefixOrdered(Moved(s, n, Place(s, n)), n)
<1> SUFFICES ASSUME NEW s \in SetToSeqs(Ids), NEW n \in 2..Count,
                    attributes \in [Ids -> Attributes], PrefixOrdered(s, n - 1)
             PROVE  PrefixOrdered(Moved(s, n, Place(s, n)), n)
  OBVIOUS
<1> DEFINE k == Place(s, n)
           t == Moved(s, n, k)
<1>0. n \in Nat /\ 1 <= n /\ n <= Count /\ Count \in Nat
  BY CountFacts
<1>1. /\ k \in 1..n
      /\ \A m \in k..(n - 1) : Less(s[n], s[m])
      /\ k = 1 \/ ~Less(s[n], s[k - 1])
  BY <1>0, PlaceFound
<1> HIDE DEF k
<1>2. s \in [1..Count -> Ids] /\ \A i, j \in 1..Count : i # j => s[i] # s[j]
  BY Arrivals
<1>3. \A i, j \in 1..(n - 1) : i < j => Before(s[i], s[j])
  BY DEF PrefixOrdered
<1>4. \A i \in 1..n : /\ i < k => t[i] = s[i]
                      /\ i = k => t[i] = s[n]
                      /\ i > k => t[i] = s[i - 1]
  BY <1>0, <1>1 DEF Moved
<1> HIDE DEF t
<1>5. \A m \in k..(n - 1) : Before(s[n], s[m])
  <2> SUFFICES ASSUME NEW m \in k..(n - 1) PROVE Before(s[n], s[m])
    OBVIOUS
  <2>1. s[n] \in Ids /\ s[m] \in Ids
    BY <1>0, <1>1, <1>2
  <2>2. QED  BY <1>1, <2>1, BeforeOrders
<1>6. \A m \in 1..(k - 1) : Before(s[m], s[n])
  <2> SUFFICES ASSUME NEW m \in 1..(k - 1) PROVE Before(s[m], s[n])
    OBVIOUS
  <2>1. /\ k - 1 \in 1..(n - 1) /\ m \in 1..(n - 1) /\ (m < k - 1 \/ m = k - 1) /\ k # 1
        /\ s[n] \in Ids /\ s[m] \in Ids /\ s[k - 1] \in Ids /\ s[n] # s[k - 1]
    BY <1>0, <1>1, <1>2
  <2>2. Before(s[k - 1], s[n])
    BY <1>1, <2>1, BeforeOrders
  <2>3. m < k - 1 => Before(s[m], s[k - 1])
    BY <1>3, <2>1
  <2>4. QED  BY <2>1, <2>2, <2>3, BeforeOrders
<1>7. ASSUME NEW i \in 1..n, NEW j \in 1..n, i < j PROVE Before(t[i], t[j])
  <2>1. CASE j < k
    BY <1>0, <1>1, <1>3, <1>4, <1>7, <2>1
  <2>2. CASE j = k
    <3>1. t[i] = s[i] /\ t[j] = s[n] /\ i \in 1..(k - 1)
      BY <1>0, <1>1, <1>4, <1>7, <2>2
    <3>2. QED  BY <1>6, <3>1
  <2>3. CASE j > k /\ i < k
    <3>1. t[i] = s[i] /\ t[j] = s[j - 1] /\ i \in 1..(n - 1) /\ j - 1 \in 1..(n - 1) /\ i < j - 1
      BY <1>0, <1>1, <1>4, <1>7, <2>3
    <3>2. QED  BY <1>3, <3>1
  <2>4. CASE j > k /\ i = k
    <3>1. t[i] = s[n] /\ t[j] = s[j - 1] /\ j - 1 \in k..(n - 1)
      BY <1>0, <1>1, <1>4, <1>7, <2>4
    <3>2. QED  BY <1>5, <3>1
  <2>5. CASE j > k /\ i > k
    <3>1. /\ t[i] = s[i - 1] /\ t[j] = s[j - 1]
          /\ i - 1 \in 1..(n - 1) /\ j - 1 \in 1..(n - 1) /\ i - 1 < j - 1
      BY <1>0, <1>1, <1>4, <1>7, <2>5
    <3>2. QED  BY <1>3, <3>1
  <2>6. QED  BY <1>0, <1>1, <1>7, <2>1, <2>2, <2>3, <2>4, <2>5
<1>8. QED  BY <1>7 DEF PrefixOrdered, t, k

LEMMA InitInvariant == Init => IInv
<1> SUFFICES ASSUME Init PROVE IInv
  OBVIOUS
<1>1. TypeOK
  BY CountFacts DEF Init, TypeOK
<1>2. \A r \in Run : PrefixOrdered(list[r], sorted[r])
  BY DEF Init, PrefixOrdered
<1>3. QED  BY <1>1, <1>2 DEF IInv

LEMMA StepInvariant == IInv /\ [Next]_vars => IInv'
<1>0. SUFFICES ASSUME IInv, [Next]_vars PROVE IInv'
  OBVIOUS
<1>1. ASSUME NEW r \in Run, Insert(r) PROVE IInv'
  <2> DEFINE n == sorted[r] + 1
             t == Moved(list[r], n, Place(list[r], n))
  <2>0. /\ attributes \in [Ids -> Attributes] /\ attributes' = attributes
        /\ list \in [Run -> SetToSeqs(Ids)] /\ sorted \in [Run -> 1..Count]
        /\ list[r] \in SetToSeqs(Ids) /\ list[r] \in [1..Count -> Ids]
    BY <1>0, <1>1, Arrivals DEF IInv, TypeOK, Insert
  <2>1. n \in 2..Count /\ n \in 1..Count /\ n \in Nat /\ 1 <= n
    BY <1>1, <2>0, CountFacts DEF Insert
  <2>2. Place(list[r], n) \in 1..n
    BY <2>1, PlaceFound
  <2>3. list' = [list EXCEPT ![r] = t] /\ sorted' = [sorted EXCEPT ![r] = n]
    BY <1>1, <2>0, <2>1, <2>2, InsertionMoves DEF Insert
  <2>4. t \in SetToSeqs(Ids)
    BY <2>0, <2>1, <2>2, MovedArrival
  <2>5. PrefixOrdered(t, n)
    <3>1. PrefixOrdered(list[r], n - 1)
      BY <1>0, <2>0, CountFacts DEF IInv
    <3>2. QED  BY <2>0, <2>1, <3>1, MovedOrdered
  <2> HIDE DEF t, n
  <2>6. TypeOK'
    BY <2>0, <2>1, <2>3, <2>4 DEF TypeOK
  <2>7. ASSUME NEW q \in Run PROVE PrefixOrdered(list'[q], sorted'[q])
    <3>1. CASE q = r
      BY <2>0, <2>3, <2>5, <3>1
    <3>2. CASE q # r
      BY <1>0, <2>0, <2>3, <3>2 DEF IInv
    <3>3. QED  BY <3>1, <3>2
  <2>8. \A a, b : Before(a, b)' <=> Before(a, b)
    BY <2>0 DEF Before, KeyLeq, Key, Less, Name, CaseVariants
  <2>9. \A q \in Run : PrefixOrdered(list[q], sorted[q])'
    BY <2>7, <2>8 DEF PrefixOrdered
  <2>10. QED  BY <2>6, <2>9 DEF IInv
<1>2. CASE UNCHANGED vars
  BY <1>0, <1>2 DEF vars, IInv, TypeOK, PrefixOrdered, Before, KeyLeq, Key, Less, Name,
                    CaseVariants
<1>3. QED  BY <1>0, <1>1, <1>2 DEF Next

-----------------------------------------------------------------------------
(* The theorems.                                                            *)

\* The sorted prefix stays ordered, whatever the orders of arrival.
THEOREM Invariant == Spec => []IInv
BY InitInvariant, StepInvariant, PTL DEF Spec

\* The lists stay permutations of the records: none is lost or doubled by the sort
\* (model.go:191-210).
THEOREM TypeCorrect == Spec => []TypeOK
<1>1. IInv => TypeOK
  BY DEF IInv
<1>2. QED  BY Invariant, <1>1, PTL

\* A finalised report goes from region to region and from name to name without regard
\* to case (model.go:191-210).
THEOREM ReportAscends == Spec => []NamesAscending
<1>1. IInv => NamesAscending
  <2> SUFFICES ASSUME IInv, NEW r \in Run, Sorted(r), NEW i \in 1..(Count - 1)
               PROVE  KeyLeq(list[r][i], list[r][i + 1])
    BY DEF NamesAscending
  <2>1. i \in 1..Count /\ i + 1 \in 1..Count /\ i < i + 1
    BY CountFacts
  <2>2. Before(list[r][i], list[r][i + 1])
    BY <2>1 DEF IInv, Sorted, PrefixOrdered
  <2>3. QED  BY <2>2 DEF Before
<1>2. QED  BY Invariant, <1>1, PTL

\* Two runs over the same records write them in the same order, unless two names in
\* a region differ in case alone (model.go:191-210, docs/SDD.md:26).
THEOREM DeterministicOrder == Spec => []DeterministicWithoutCaseVariants
<1>1. IInv => DeterministicWithoutCaseVariants
  <2>0. SUFFICES ASSUME IInv, ~CaseVariants, \A r \in Run : Sorted(r), list[1] # list[2]
                 PROVE  FALSE
    BY DEF DeterministicWithoutCaseVariants, SameReport
  <2>1. ASSUME NEW r \in Run
        PROVE  /\ list[r] \in SetToSeqs(Ids) /\ list[r] \in [1..Count -> Ids]
               /\ \A i, j \in 1..Count : i # j => list[r][i] # list[r][j]
               /\ \A a \in Ids : \E i \in 1..Count : list[r][i] = a
               /\ \A i, j \in 1..Count : i < j => Less(list[r][i], list[r][j])
    <3>1. list[r] \in SetToSeqs(Ids)
      BY <2>0 DEF IInv, TypeOK
    <3>2. \A i, j \in 1..Count : i < j => Less(list[r][i], list[r][j])
      BY <2>0 DEF IInv, Sorted, PrefixOrdered, Before
    <3>3. QED  BY <3>1, <3>2, Arrivals, EveryRecord
  <2>2. 1 \in Run /\ 2 \in Run
    BY DEF Run
  <2> DEFINE different == {i \in 1..Count : list[1][i] # list[2][i]}
  <2>3. different \in SUBSET Nat /\ different # {}
    <3>1. list[1] \in [1..Count -> Ids] /\ list[2] \in [1..Count -> Ids]
      BY <2>1, <2>2
    <3>2. \E i \in 1..Count : list[1][i] # list[2][i]
      BY <2>0, <3>1, SameOrder
    <3>3. QED  BY <3>2, CountFacts
  <2>4. PICK i \in different : \A j \in different : i <= j
    BY <2>3, Least
  <2>5. i \in 1..Count /\ i \in Nat /\ list[1][i] # list[2][i]
    BY CountFacts
  <2>6. \A j \in 1..Count : j < i => list[1][j] = list[2][j]
    BY <2>4, <2>5, CountFacts
  <2>7. Less(list[1][i], list[2][i])
    <3>1. PICK j \in 1..Count : list[1][j] = list[2][i]
      BY <2>1, <2>2, <2>5
    <3>2. j # i /\ ~(j < i)
      BY <2>1, <2>2, <2>5, <2>6, <3>1
    <3>3. i < j
      BY <2>5, <3>2, CountFacts
    <3>4. Less(list[1][i], list[1][j])
      BY <2>1, <2>2, <2>5, <3>3
    <3>5. QED  BY <3>1, <3>4
  <2>8. Less(list[2][i], list[1][i])
    <3>1. PICK j \in 1..Count : list[2][j] = list[1][i]
      BY <2>1, <2>2, <2>5
    <3>2. j # i /\ ~(j < i)
      BY <2>1, <2>2, <2>5, <2>6, <3>1
    <3>3. i < j
      BY <2>5, <3>2, CountFacts
    <3>4. Less(list[2][i], list[2][j])
      BY <2>1, <2>2, <2>5, <3>3
    <3>5. QED  BY <3>1, <3>4
  <2>9. list[1][i] \in Ids /\ list[2][i] \in Ids /\ attributes \in [Ids -> Attributes]
    BY <2>0, <2>1, <2>2, <2>5 DEF IInv, TypeOK
  <2>10. QED  BY <2>7, <2>8, <2>9, BeforeOrders
<1>2. QED  BY Invariant, <1>1, PTL
=============================================================================
