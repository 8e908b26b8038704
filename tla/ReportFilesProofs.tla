-------------------------- MODULE ReportFilesProofs --------------------------
(***************************************************************************)
(* Proofs about ReportFiles, for any regions and listings and any number of *)
(* records and errors.                                                      *)
(*                                                                          *)
(* The counts, the rows and the totals are folds over the same lists. The   *)
(* first half of the module says what folds compute: sums may be taken in   *)
(* any order and class by class, and a flattened list has its elements as   *)
(* often as its lists have them together.                                   *)
(***************************************************************************)
EXTENDS ReportFiles, FiniteSetTheorems, SequenceTheorems, WellFoundedInduction, TLAPS

-----------------------------------------------------------------------------
(* Induction over finite sets and numbers, as the least counterexample.     *)

\* Of some subsets of a finite set, one has no smaller one among them.
LEMMA Smallest ==
    \A S : IsFiniteSet(S) =>
        \A B \in SUBSET SUBSET S : B # {} =>
            \E T \in B : \A U \in B : U \subseteq T => U = T
<1> SUFFICES ASSUME NEW S, IsFiniteSet(S), NEW B \in SUBSET SUBSET S, B # {}
             PROVE  \E T \in B : \A U \in B : U \subseteq T => U = T
  OBVIOUS
<1> DEFINE R == StrictSubsetOrdering(S)
<1>1. IsWellFoundedOn(R, FiniteSubsetsOf(S))
  BY FS_StrictSubsetOrderingWellFounded
<1>2. FiniteSubsetsOf(S) = SUBSET S
  BY FS_FiniteSubsetsOfFinite
<1>3. B \subseteq FiniteSubsetsOf(S)
  BY <1>2
<1> HIDE DEF R
<1>4. PICK T \in B : \A U \in B : ~ (<<U, T>> \in R)
  BY <1>1, <1>3, WFMin
<1>5. ASSUME NEW U \in B, U \subseteq T PROVE U = T
  <2>1. ~ (<<U, T>> \in R)
    BY <1>4
  <2>2. QED  BY <1>5, <2>1 DEF R, StrictSubsetOrdering
<1>6. QED  BY <1>5

\* What holds of the empty set and is kept by adding an element holds of a finite set.
LEMMA BySubsets ==
    \A S : IsFiniteSet(S) =>
        \A G \in SUBSET SUBSET S :
            {} \in G /\ (\A T \in G : \A x \in S \ T : T \cup {x} \in G) => S \in G
<1> SUFFICES ASSUME NEW S, IsFiniteSet(S), NEW G \in SUBSET SUBSET S, {} \in G,
                    \A T \in G : \A x \in S \ T : T \cup {x} \in G, S \notin G
             PROVE  FALSE
  OBVIOUS
<1> DEFINE B == (SUBSET S) \ G
<1>1. B \in SUBSET SUBSET S /\ B # {}
  OBVIOUS
<1> HIDE DEF B
<1>2. PICK T \in B : \A U \in B : U \subseteq T => U = T
  BY <1>1, Smallest
<1> USE DEF B
<1>3. PICK x : x \in T
  BY <1>2
<1>4. T \ {x} \in G
  BY <1>2, <1>3
<1>5. (T \ {x}) \cup {x} = T
  BY <1>3
<1>6. x \in S \ (T \ {x}) /\ T \notin G
  BY <1>3
<1>7. (T \ {x}) \cup {x} \in G
  BY <1>4, <1>6
<1>8. QED  BY <1>5, <1>6, <1>7, Zenon

\* Every set of numbers that is not empty has a least element.
LEMMA Least == \A T \in SUBSET Nat : T # {} => \E x \in T : \A y \in T : x <= y
<1> SUFFICES ASSUME NEW T \in SUBSET Nat, T # {} PROVE \E x \in T : \A y \in T : x <= y
  OBVIOUS
<1> DEFINE R == OpToRel(<, Nat)
<1>1. IsWellFoundedOn(R, Nat)
  BY NatLessThanWellFounded
<1> HIDE DEF R
<1>2. \E x \in T : \A y \in T : ~ (<<y, x>> \in R)
  BY <1>1, WFMin
<1>3. \A x, y \in T : ~ (<<y, x>> \in R) => x <= y
  BY DEF R, OpToRel
<1>4. QED  BY <1>2, <1>3

\* What holds of 0 and is kept by counting up to n holds up to n.
LEMMA UpTo ==
    \A n \in Nat : \A G \in SUBSET Nat :
        0 \in G /\ (\A i \in G : i < n => i + 1 \in G) => \A i \in 0..n : i \in G
<1> SUFFICES ASSUME NEW n \in Nat, NEW G \in SUBSET Nat, 0 \in G,
                    \A i \in G : i < n => i + 1 \in G, NEW j \in 0..n, j \notin G
             PROVE  FALSE
  OBVIOUS
<1> DEFINE B == {i \in 0..n : i \notin G}
<1>1. B \in SUBSET Nat /\ B # {}
  OBVIOUS
<1>2. PICK i \in B : \A k \in B : i <= k
  BY <1>1, Least
<1>3. i # 0 /\ i - 1 \in 0..n /\ i - 1 < n /\ (i - 1) + 1 = i
  BY <1>2
<1>4. i - 1 \in G
  BY <1>2, <1>3
<1>5. QED  BY <1>2, <1>3, <1>4

-----------------------------------------------------------------------------
(* Sums.                                                                    *)

\* The element a fold takes next.
Taken(T) == CHOOSE x \in T : TRUE

Adds(f, S, h) ==
    h = [T \in SUBSET S |-> IF T = {} THEN 0 ELSE f[Taken(T)] + h[T \ {Taken(T)}]]

Partial(f, S) == CHOOSE h : Adds(f, S, h)

LEMMA SumIsPartial == \A f, S : SumFunctionOnSet(f, S) = Partial(f, S)[S]
BY DEF SumFunctionOnSet, FoldFunctionOnSet, MapThenFoldSet, Partial, Adds, Taken

LEMMA NextIn == \A T : T # {} => Taken(T) \in T
BY DEF Taken

\* The recursion of a fold over a finite set has a solution.
LEMMA PartialExists == \A f, S : IsFiniteSet(S) => Adds(f, S, Partial(f, S))
<1> SUFFICES ASSUME NEW f, NEW S, IsFiniteSet(S) PROVE \E h : Adds(f, S, h)
  BY DEF Partial
<1> DEFINE Small(n) == {T \in SUBSET S : Cardinality(T) <= n}
           Body(h, T) == IF T = {} THEN 0 ELSE f[Taken(T)] + h[T \ {Taken(T)}]
           Solved(n, h) == h = [T \in Small(n) |-> Body(h, T)]
           G == {n \in Nat : \E h : Solved(n, h)}
<1>0. \A T \in SUBSET S : /\ IsFiniteSet(T) /\ Cardinality(T) \in Nat
                          /\ Cardinality(T) <= Cardinality(S)
                          /\ T # {} => /\ T \ {Taken(T)} \in SUBSET S
                                       /\ Cardinality(T \ {Taken(T)}) = Cardinality(T) - 1
                          /\ Cardinality(T) = 0 => T = {}
  <2> SUFFICES ASSUME NEW T \in SUBSET S
               PROVE  /\ IsFiniteSet(T) /\ Cardinality(T) \in Nat
                      /\ Cardinality(T) <= Cardinality(S)
                      /\ T # {} => /\ T \ {Taken(T)} \in SUBSET S
                                   /\ Cardinality(T \ {Taken(T)}) = Cardinality(T) - 1
                      /\ Cardinality(T) = 0 => T = {}
    OBVIOUS
  <2>1. IsFiniteSet(T) /\ Cardinality(T) <= Cardinality(S)
    BY FS_Subset
  <2>2. Cardinality(T) \in Nat
    BY <2>1, FS_CardinalityType
  <2>3. Cardinality(T) = 0 => T = {}
    BY <2>1, FS_EmptySet
  <2>4. T # {} => Cardinality(T \ {Taken(T)}) = Cardinality(T) - 1
    BY <2>1, NextIn, FS_RemoveElement
  <2>5. QED  BY <2>1, <2>2, <2>3, <2>4
<1>1. 0 \in G
  <2> DEFINE h == [T \in Small(0) |-> 0]
  <2>1. ASSUME NEW T \in Small(0) PROVE T = {}
    <3>1. T \in SUBSET S /\ Cardinality(T) <= 0
      OBVIOUS
    <3>2. Cardinality(T) \in Nat /\ (Cardinality(T) = 0 => T = {})
      BY <1>0, <3>1
    <3>3. QED  BY <3>1, <3>2
  <2>2. [T \in Small(0) |-> Body(h, T)] = h
    BY <2>1
  <2>3. QED  BY <2>2
<1>2. ASSUME NEW n \in G PROVE n + 1 \in G
  <2>1. PICK h : Solved(n, h)
    OBVIOUS
  <2> DEFINE k == [T \in Small(n + 1) |-> Body(h, T)]
  <2>2. ASSUME NEW T \in Small(n + 1) PROVE Body(k, T) = Body(h, T)
    <3>1. CASE T = {}
      BY <3>1
    <3>2. CASE T # {}
      <4> DEFINE U == T \ {Taken(T)}
      <4>1. U \in Small(n) /\ U \in Small(n + 1)
        BY <1>0, <3>2
      <4>2. h[U] = Body(h, U) /\ k[U] = Body(h, U)
        <5> HIDE DEF U
        <5>1. k[U] = Body(h, U)
          BY <4>1
        <5>2. [T1 \in Small(n) |-> Body(h, T1)][U] = Body(h, U)
          BY <4>1
        <5> HIDE DEF Body, Small
        <5>3. h[U] = Body(h, U)
          BY <2>1, <5>2
        <5>4. QED  BY <5>1, <5>3
      <4>3. QED  BY <3>2, <4>2
    <3>3. QED  BY <3>1, <3>2
  <2>3. [T \in Small(n + 1) |-> Body(k, T)] = k
    BY <2>2
  <2>4. Solved(n + 1, k)
    BY <2>3
  <2>5. n + 1 \in Nat
    OBVIOUS
  <2> HIDE DEF k, Solved
  <2>6. \E h1 : Solved(n + 1, h1)
    BY <2>4
  <2>7. QED  BY <2>5, <2>6
<1>3. Cardinality(S) \in Nat /\ Cardinality(S) \in 0..Cardinality(S)
  BY FS_CardinalityType
<1>4. Cardinality(S) \in G
  <2> HIDE DEF G
  <2>1. G \in SUBSET Nat
    BY DEF G
  <2>2. QED  BY <1>1, <1>2, <1>3, <2>1, UpTo
<1>5. PICK h : Solved(Cardinality(S), h)
  BY <1>4
<1>6. Small(Cardinality(S)) = SUBSET S
  BY <1>0
<1>7. Adds(f, S, h)
  BY <1>5, <1>6 DEF Adds
<1>8. QED  BY <1>7

\* A sum does not look beyond the set it is over.
LEMMA PartialLocal ==
    \A f, S : IsFiniteSet(S) =>
        \A T \in SUBSET S : Partial(f, S)[T] = SumFunctionOnSet(f, T)
<1> SUFFICES ASSUME NEW f, NEW S, IsFiniteSet(S), NEW T \in SUBSET S
             PROVE  Partial(f, S)[T] = SumFunctionOnSet(f, T)
  OBVIOUS
<1> DEFINE p == Partial(f, S)
           q == Partial(f, T)
           B == {U \in SUBSET T : p[U] # q[U]}
<1>1. IsFiniteSet(T)
  BY FS_Subset
<1>2. Adds(f, S, p) /\ Adds(f, T, q)
  BY <1>1, PartialExists
<1> HIDE DEF p, q
<1>3. \A U \in SUBSET S : p[U] = IF U = {} THEN 0 ELSE f[Taken(U)] + p[U \ {Taken(U)}]
  BY <1>2 DEF Adds
<1>4. \A U \in SUBSET T : q[U] = IF U = {} THEN 0 ELSE f[Taken(U)] + q[U \ {Taken(U)}]
  BY <1>2 DEF Adds
<1>5. ASSUME B # {} PROVE FALSE
  <2>1. B \in SUBSET SUBSET T
    OBVIOUS
  <2> HIDE DEF B
  <2>2. PICK U \in B : \A V \in B : V \subseteq U => V = U
    BY <1>1, <1>5, <2>1, Smallest
  <2>3. U \in SUBSET T /\ U \in SUBSET S /\ p[U] # q[U]
    BY <2>1 DEF B
  <2>4. U # {}
    BY <1>3, <1>4, <2>3
  <2> DEFINE V == U \ {Taken(U)}
  <2>5. V \in SUBSET T /\ V \subseteq U /\ V # U
    BY <2>3, <2>4, NextIn
  <2>6. p[V] = q[V]
    BY <2>2, <2>5 DEF B
  <2>7. QED  BY <1>3, <1>4, <2>3, <2>4, <2>6
<1>6. p[T] = q[T]
  BY <1>5
<1>7. QED  BY <1>6, SumIsPartial DEF p, q

LEMMA SumEmpty == \A f : SumFunctionOnSet(f, {}) = 0
<1> SUFFICES ASSUME NEW f PROVE SumFunctionOnSet(f, {}) = 0
  OBVIOUS
<1>1. Adds(f, {}, Partial(f, {}))
  BY PartialExists, FS_EmptySet
<1>2. Partial(f, {})[{}] = 0
  BY <1>1 DEF Adds
<1>3. QED  BY <1>2, SumIsPartial

LEMMA SumTakes ==
    \A f, S : IsFiniteSet(S) /\ S # {} =>
        SumFunctionOnSet(f, S) = f[Taken(S)] + SumFunctionOnSet(f, S \ {Taken(S)})
<1> SUFFICES ASSUME NEW f, NEW S, IsFiniteSet(S), S # {}
             PROVE  SumFunctionOnSet(f, S)
                        = f[Taken(S)] + SumFunctionOnSet(f, S \ {Taken(S)})
  OBVIOUS
<1> DEFINE p == Partial(f, S)
<1>1. Adds(f, S, p)
  BY PartialExists
<1> HIDE DEF p
<1>2. p[S] = f[Taken(S)] + p[S \ {Taken(S)}]
  BY <1>1 DEF Adds
<1>3. p[S \ {Taken(S)}] = SumFunctionOnSet(f, S \ {Taken(S)})
  BY PartialLocal DEF p
<1>4. QED  BY <1>2, <1>3, SumIsPartial DEF p

\* A sum of natural numbers is one, and may be taken from any element on.
LEMMA SumStep ==
    \A D : \A f \in [D -> Nat], S \in SUBSET D : IsFiniteSet(S) =>
        /\ SumFunctionOnSet(f, S) \in Nat
        /\ \A x \in S : SumFunctionOnSet(f, S) = f[x] + SumFunctionOnSet(f, S \ {x})
<1> SUFFICES ASSUME NEW D, NEW f \in [D -> Nat], NEW S \in SUBSET D, IsFiniteSet(S)
             PROVE  /\ SumFunctionOnSet(f, S) \in Nat
                    /\ \A x \in S : SumFunctionOnSet(f, S)
                                        = f[x] + SumFunctionOnSet(f, S \ {x})
  OBVIOUS
<1> DEFINE sum(T) == SumFunctionOnSet(f, T)
           Good(T) == /\ sum(T) \in Nat
                      /\ \A x \in T : sum(T) = f[x] + sum(T \ {x})
           B == {T \in SUBSET S : ~Good(T)}
<1>1. ASSUME B # {} PROVE FALSE
  <2>1. B \in SUBSET SUBSET S
    OBVIOUS
  <2> HIDE DEF B
  <2>2. PICK T \in B : \A U \in B : U \subseteq T => U = T
    BY <1>1, <2>1, Smallest
  <2>3. T \in SUBSET S /\ ~Good(T) /\ IsFiniteSet(T)
    BY <2>1, FS_Subset DEF B
  <2>4. ASSUME NEW U \in SUBSET T, U # T PROVE Good(U)
    <3>1. U \in SUBSET S /\ U \notin B
      BY <2>2, <2>3, <2>4
    <3>2. QED  BY <3>1 DEF B
  <2>5. T # {}
    BY <2>3, SumEmpty
  <2> DEFINE c == Taken(T)
  <2>6. c \in T /\ sum(T) = f[c] + sum(T \ {c}) /\ f[c] \in Nat
    BY <2>3, <2>5, NextIn, SumTakes
  <2>7. sum(T) \in Nat
    BY <2>4, <2>6
  <2> HIDE DEF c
  <2>8. ASSUME NEW x \in T PROVE sum(T) = f[x] + sum(T \ {x})
    <3>1. CASE x = c
      BY <2>6, <3>1
    <3>2. CASE x # c
      <4>1. x \in T \ {c} /\ c \in T \ {x} /\ (T \ {c}) \ {x} = (T \ {x}) \ {c}
        BY <2>6, <3>2
      <4>2. sum(T \ {c}) = f[x] + sum((T \ {c}) \ {x})
        BY <2>4, <2>6, <4>1
      <4>3. sum(T \ {x}) = f[c] + sum((T \ {x}) \ {c})
        BY <2>4, <4>1
      <4>4. /\ sum((T \ {x}) \ {c}) = sum((T \ {c}) \ {x})
            /\ sum(T \ {c}) \in Nat /\ sum(T \ {x}) \in Nat
            /\ f[x] \in Nat /\ f[c] \in Nat
        BY <2>3, <2>4, <2>6, <4>1
      <4>5. sum((T \ {x}) \ {c}) \in Nat
        BY <2>4, <4>1
      <4>6. QED  BY <2>6, <4>2, <4>3, <4>4, <4>5
    <3>3. QED  BY <3>1, <3>2
  <2>9. QED  BY <2>3, <2>7, <2>8
<1>2. Good(S)
  BY <1>1
<1>3. QED  BY <1>2

LEMMA SumAdd ==
    \A D : \A f \in [D -> Nat], T \in SUBSET D : \A x \in D \ T : IsFiniteSet(T) =>
        SumFunctionOnSet(f, T \cup {x}) = f[x] + SumFunctionOnSet(f, T)
<1> SUFFICES ASSUME NEW D, NEW f \in [D -> Nat], NEW T \in SUBSET D, NEW x \in D \ T,
                    IsFiniteSet(T)
             PROVE  SumFunctionOnSet(f, T \cup {x}) = f[x] + SumFunctionOnSet(f, T)
  OBVIOUS
<1>1. T \cup {x} \in SUBSET D /\ x \in T \cup {x} /\ (T \cup {x}) \ {x} = T
  OBVIOUS
<1>2. IsFiniteSet(T \cup {x})
  BY FS_AddElement
<1>3. QED  BY <1>1, <1>2, SumStep

LEMMA SumAgrees ==
    \A D, E : \A f \in [D -> Nat], g \in [E -> Nat], S \in SUBSET (D \cap E) :
        IsFiniteSet(S) /\ (\A x \in S : f[x] = g[x])
            => SumFunctionOnSet(f, S) = SumFunctionOnSet(g, S)
<1> SUFFICES ASSUME NEW D, NEW E, NEW f \in [D -> Nat], NEW g \in [E -> Nat],
                    NEW S \in SUBSET (D \cap E), IsFiniteSet(S), \A x \in S : f[x] = g[x]
             PROVE  SumFunctionOnSet(f, S) = SumFunctionOnSet(g, S)
  OBVIOUS
<1> DEFINE G == {T \in SUBSET S : SumFunctionOnSet(f, T) = SumFunctionOnSet(g, T)}
<1>1. {} \in G
  BY SumEmpty
<1>2. ASSUME NEW T \in G, NEW x \in S \ T PROVE T \cup {x} \in G
  <2>1. IsFiniteSet(T)
    BY FS_Subset
  <2>2. /\ SumFunctionOnSet(f, T \cup {x}) = f[x] + SumFunctionOnSet(f, T)
        /\ SumFunctionOnSet(g, T \cup {x}) = g[x] + SumFunctionOnSet(g, T)
    <3>1. T \in SUBSET D /\ T \in SUBSET E /\ x \in D \ T /\ x \in E \ T
      OBVIOUS
    <3>2. QED  BY <2>1, <3>1, SumAdd
  <2>3. QED  BY <2>2
<1>3. G \in SUBSET SUBSET S
  OBVIOUS
<1>4. S \in G
  <2> HIDE DEF G
  <2>1. QED  BY <1>1, <1>2, <1>3, BySubsets
<1>5. QED  BY <1>4

LEMMA SumOfZeros ==
    \A D : \A f \in [D -> Nat], S \in SUBSET D :
        IsFiniteSet(S) /\ (\A x \in S : f[x] = 0) => SumFunctionOnSet(f, S) = 0
<1> SUFFICES ASSUME NEW D, NEW f \in [D -> Nat], NEW S \in SUBSET D, IsFiniteSet(S),
                    \A x \in S : f[x] = 0
             PROVE  SumFunctionOnSet(f, S) = 0
  OBVIOUS
<1> DEFINE G == {T \in SUBSET S : SumFunctionOnSet(f, T) = 0}
<1>1. {} \in G
  BY SumEmpty
<1>2. ASSUME NEW T \in G, NEW x \in S \ T PROVE T \cup {x} \in G
  <2>1. IsFiniteSet(T) /\ T \in SUBSET D /\ x \in D \ T
    BY FS_Subset
  <2>2. SumFunctionOnSet(f, T \cup {x}) = f[x] + SumFunctionOnSet(f, T)
    BY <2>1, SumAdd
  <2>3. QED  BY <2>2
<1>3. G \in SUBSET SUBSET S
  OBVIOUS
<1>4. S \in G
  <2> HIDE DEF G
  <2>1. QED  BY <1>1, <1>2, <1>3, BySubsets
<1>5. QED  BY <1>4

\* A sum with one term that is not 0 is that term.
LEMMA SumOfOne ==
    \A D : \A f \in [D -> Nat], S \in SUBSET D : \A k \in S :
        IsFiniteSet(S) /\ (\A x \in S \ {k} : f[x] = 0) => SumFunctionOnSet(f, S) = f[k]
<1> SUFFICES ASSUME NEW D, NEW f \in [D -> Nat], NEW S \in SUBSET D, NEW k \in S,
                    IsFiniteSet(S), \A x \in S \ {k} : f[x] = 0
             PROVE  SumFunctionOnSet(f, S) = f[k]
  OBVIOUS
<1>1. SumFunctionOnSet(f, S) = f[k] + SumFunctionOnSet(f, S \ {k})
  BY SumStep
<1>2. IsFiniteSet(S \ {k}) /\ S \ {k} \in SUBSET D
  BY FS_Subset
<1>3. SumFunctionOnSet(f, S \ {k}) = 0
  BY <1>2, SumOfZeros
<1>4. f[k] \in Nat
  OBVIOUS
<1>5. QED  BY <1>1, <1>3, <1>4

\* A sum of ones is the number of its terms.
LEMMA SumOfOnes ==
    \A D : \A f \in [D -> Nat], S \in SUBSET D :
        IsFiniteSet(S) /\ (\A x \in S : f[x] = 1) => SumFunctionOnSet(f, S) = Cardinality(S)
<1> SUFFICES ASSUME NEW D, NEW f \in [D -> Nat], NEW S \in SUBSET D, IsFiniteSet(S),
                    \A x \in S : f[x] = 1
             PROVE  SumFunctionOnSet(f, S) = Cardinality(S)
  OBVIOUS
<1> DEFINE G == {T \in SUBSET S : SumFunctionOnSet(f, T) = Cardinality(T)}
<1>1. {} \in G
  BY SumEmpty, FS_EmptySet
<1>2. ASSUME NEW T \in G, NEW x \in S \ T PROVE T \cup {x} \in G
  <2>1. IsFiniteSet(T) /\ T \in SUBSET D /\ x \in D \ T
    BY FS_Subset
  <2>2. SumFunctionOnSet(f, T \cup {x}) = f[x] + SumFunctionOnSet(f, T)
    BY <2>1, SumAdd
  <2>3. Cardinality(T \cup {x}) = Cardinality(T) + 1 /\ Cardinality(T) \in Nat
    BY <2>1, FS_AddElement, FS_CardinalityType
  <2>4. QED  BY <2>2, <2>3
<1>3. G \in SUBSET SUBSET S
  OBVIOUS
<1>4. S \in G
  <2> HIDE DEF G
  <2>1. QED  BY <1>1, <1>2, <1>3, BySubsets
<1>5. QED  BY <1>4

\* A sum may be taken class by class.
LEMMA SumByClass ==
    \A D, R : IsFiniteSet(D) /\ IsFiniteSet(R) =>
        \A f \in [D -> Nat], g \in [D -> R] :
            SumFunctionOnSet([r \in R |-> SumFunctionOnSet(f, {x \in D : g[x] = r})], R)
                = SumFunctionOnSet(f, D)
<1> SUFFICES ASSUME NEW D, NEW R, IsFiniteSet(D), IsFiniteSet(R),
                    NEW f \in [D -> Nat], NEW g \in [D -> R]
             PROVE  SumFunctionOnSet([r \in R |-> SumFunctionOnSet(f, {x \in D : g[x] = r})], R)
                        = SumFunctionOnSet(f, D)
  OBVIOUS
<1> DEFINE class(T, r) == {x \in T : g[x] = r}
           part(T) == [r \in R |-> SumFunctionOnSet(f, class(T, r))]
           G == {T \in SUBSET D : SumFunctionOnSet(part(T), R) = SumFunctionOnSet(f, T)}
<1>0. ASSUME NEW T \in SUBSET D PROVE part(T) \in [R -> Nat]
  <2>1. ASSUME NEW r \in R PROVE SumFunctionOnSet(f, class(T, r)) \in Nat
    <3>1. class(T, r) \in SUBSET D /\ IsFiniteSet(class(T, r))
      BY FS_Subset
    <3> HIDE DEF class
    <3>2. QED  BY <3>1, SumStep
  <2>2. QED  BY <2>1
<1>1. {} \in G
  <2>1. \A r \in R : part({})[r] = 0
    <3>1. \A r \in R : class({}, r) = {}
      OBVIOUS
    <3>2. QED  BY <3>1, SumEmpty
  <2>2. part({}) \in [R -> Nat]
    BY <1>0
  <2> HIDE DEF part
  <2>3. SumFunctionOnSet(part({}), R) = 0
    BY <2>1, <2>2, SumOfZeros
  <2>4. QED  BY <2>3, SumEmpty
<1>2. ASSUME NEW T \in G, NEW x \in D \ T PROVE T \cup {x} \in G
  <2> DEFINE U == T \cup {x}
             k == g[x]
             p == part(T)
             q == part(U)
  <2>1. T \in SUBSET D /\ IsFiniteSet(T) /\ U \in SUBSET D /\ k \in R
    BY FS_Subset
  <2>2. p \in [R -> Nat] /\ q \in [R -> Nat]
    BY <1>0, <2>1
  <2>3. \A r \in R \ {k} : p[r] = q[r]
    <3>1. \A r \in R \ {k} : class(U, r) = class(T, r)
      OBVIOUS
    <3>2. QED  BY <3>1
  <2>4. q[k] = f[x] + p[k]
    <3>1. class(U, k) = class(T, k) \cup {x}
      OBVIOUS
    <3> DEFINE c == class(T, k)
    <3>2. c \in SUBSET D /\ IsFiniteSet(c) /\ x \in D \ c
      BY <2>1, FS_Subset
    <3> HIDE DEF c
    <3>3. SumFunctionOnSet(f, c \cup {x}) = f[x] + SumFunctionOnSet(f, c)
      BY <3>2, SumAdd
    <3>4. q[k] = SumFunctionOnSet(f, class(U, k)) /\ p[k] = SumFunctionOnSet(f, c)
      BY <2>1 DEF c
    <3>5. class(U, k) = c \cup {x}
      BY <3>1 DEF c
    <3> HIDE DEF class, p, q
    <3>6. QED  BY <3>3, <3>4, <3>5
  <2>5. SumFunctionOnSet(p, R) = SumFunctionOnSet(f, T)
    OBVIOUS
  <2> HIDE DEF p, q, k
  <2>6. /\ SumFunctionOnSet(p, R) = p[k] + SumFunctionOnSet(p, R \ {k})
        /\ SumFunctionOnSet(q, R) = q[k] + SumFunctionOnSet(q, R \ {k})
    BY <2>1, <2>2, SumStep
  <2>7. IsFiniteSet(R \ {k}) /\ R \ {k} \in SUBSET R /\ R \ {k} \in SUBSET (R \cap R)
    BY FS_Subset
  <2>8. SumFunctionOnSet(p, R \ {k}) = SumFunctionOnSet(q, R \ {k})
    BY <2>2, <2>3, <2>7, SumAgrees
  <2>9. /\ SumFunctionOnSet(p, R \ {k}) \in Nat /\ p[k] \in Nat /\ f[x] \in Nat
    BY <2>1, <2>2, <2>7, SumStep
  <2>10. SumFunctionOnSet(f, U) = f[x] + SumFunctionOnSet(f, T)
    BY <2>1, SumAdd
  <2>11. SumFunctionOnSet(q, R) = SumFunctionOnSet(f, U)
    BY <2>4, <2>5, <2>6, <2>8, <2>9, <2>10
  <2>12. QED  BY <2>1, <2>11 DEF q
<1>3. G \in SUBSET SUBSET D
  OBVIOUS
<1>4. D \in G
  <2> HIDE DEF G
  <2>1. QED  BY <1>1, <1>2, <1>3, BySubsets
<1>5. QED  BY <1>4

LEMMA SumMore ==
    \A D : \A f \in [D -> Nat], T \in SUBSET D : \A x \in T : IsFiniteSet(T) =>
        SumFunctionOnSet(f, T) = SumFunctionOnSet(f, T \ {x}) + f[x]
<1> SUFFICES ASSUME NEW D, NEW f \in [D -> Nat], NEW T \in SUBSET D, NEW x \in T,
                    IsFiniteSet(T)
             PROVE  SumFunctionOnSet(f, T) = SumFunctionOnSet(f, T \ {x}) + f[x]
  OBVIOUS
<1>1. SumFunctionOnSet(f, T) = f[x] + SumFunctionOnSet(f, T \ {x})
  BY SumStep
<1>2. IsFiniteSet(T \ {x}) /\ T \ {x} \in SUBSET D
  BY FS_Subset
<1>3. SumFunctionOnSet(f, T \ {x}) \in Nat /\ f[x] \in Nat
  BY <1>2, SumStep
<1>4. QED  BY <1>1, <1>3

\* The sum of the first terms of a sequence, one more at a time.
LEMMA SumUp ==
    \A n \in Nat : \A f \in [1..n -> Nat] :
        /\ SumFunctionOnSet(f, 1..0) = 0
        /\ \A i \in 0..(n - 1) :
               SumFunctionOnSet(f, 1..(i + 1)) = SumFunctionOnSet(f, 1..i) + f[i + 1]
<1> SUFFICES ASSUME NEW n \in Nat, NEW f \in [1..n -> Nat]
             PROVE  /\ SumFunctionOnSet(f, 1..0) = 0
                    /\ \A i \in 0..(n - 1) :
                           SumFunctionOnSet(f, 1..(i + 1))
                               = SumFunctionOnSet(f, 1..i) + f[i + 1]
  OBVIOUS
<1>1. 1..0 = {}
  OBVIOUS
<1>2. ASSUME NEW i \in 0..(n - 1)
      PROVE  SumFunctionOnSet(f, 1..(i + 1)) = SumFunctionOnSet(f, 1..i) + f[i + 1]
  <2>1. 1..(i + 1) \in SUBSET (1..n) /\ i + 1 \in 1..(i + 1)
    OBVIOUS
  <2>2. IsFiniteSet(1..(i + 1))
    BY FS_Interval
  <2>3. SumFunctionOnSet(f, 1..(i + 1))
            = SumFunctionOnSet(f, (1..(i + 1)) \ {i + 1}) + f[i + 1]
    BY <2>1, <2>2, SumMore, Zenon
  <2>4. (1..(i + 1)) \ {i + 1} = 1..i
    OBVIOUS
  <2>5. QED  BY <2>3, <2>4, Zenon
<1>3. QED  BY <1>1, <1>2, SumEmpty

-----------------------------------------------------------------------------
(* Lists.                                                                   *)

LEMMA PlacesFinite ==
    \A R : \A s \in Seq(R) : \A x :
        /\ IsFiniteSet({n \in DOMAIN s : s[n] = x})
        /\ Times(x, s) \in Nat
        /\ Times(x, s) = 0 <=> x \notin ToSet(s)
<1> SUFFICES ASSUME NEW R, NEW s \in Seq(R), NEW x
             PROVE  /\ IsFiniteSet({n \in DOMAIN s : s[n] = x})
                    /\ Times(x, s) \in Nat
                    /\ Times(x, s) = 0 <=> x \notin ToSet(s)
  OBVIOUS
<1>1. DOMAIN s = 1..Len(s) /\ Len(s) \in Nat
  OBVIOUS
<1>2. IsFiniteSet(1..Len(s))
  BY <1>1, FS_Interval
<1>3. IsFiniteSet({n \in DOMAIN s : s[n] = x})
  BY <1>1, <1>2, FS_Subset
<1>4. Times(x, s) \in Nat /\ (Times(x, s) = 0 <=> {n \in DOMAIN s : s[n] = x} = {})
  BY <1>3, FS_CardinalityType, FS_EmptySet DEF Times
<1>5. QED  BY <1>3, <1>4 DEF ToSet

\* In a list that has no element twice each stands once.
LEMMA OnceIfInjective ==
    \A R : \A s \in Seq(R) :
        (\A m, n \in DOMAIN s : s[m] = s[n] => m = n) => \A x \in ToSet(s) : Times(x, s) = 1
<1> SUFFICES ASSUME NEW R, NEW s \in Seq(R), \A m, n \in DOMAIN s : s[m] = s[n] => m = n,
                    NEW x \in ToSet(s)
             PROVE  Times(x, s) = 1
  OBVIOUS
<1>1. PICK k \in DOMAIN s : s[k] = x
  BY DEF ToSet
<1>2. {n \in DOMAIN s : s[n] = x} = {k}
  BY <1>1
<1>3. QED  BY <1>2, FS_Singleton DEF Times

LEMMA ConcatCounts ==
    \A R : \A s, t \in Seq(R) :
        /\ Len(s \o t) = Len(s) + Len(t)
        /\ ToSet(s \o t) = ToSet(s) \cup ToSet(t)
        /\ \A x : Times(x, s \o t) = Times(x, s) + Times(x, t)
<1> SUFFICES ASSUME NEW R, NEW s \in Seq(R), NEW t \in Seq(R)
             PROVE  /\ Len(s \o t) = Len(s) + Len(t)
                    /\ ToSet(s \o t) = ToSet(s) \cup ToSet(t)
                    /\ \A x : Times(x, s \o t) = Times(x, s) + Times(x, t)
  OBVIOUS
<1>1. /\ DOMAIN s = 1..Len(s) /\ DOMAIN t = 1..Len(t)
      /\ Len(s) \in Nat /\ Len(t) \in Nat
  OBVIOUS
<1>2. /\ DOMAIN (s \o t) = 1..(Len(s) + Len(t)) /\ Len(s \o t) = Len(s) + Len(t)
      /\ \A n \in 1..Len(s) : (s \o t)[n] = s[n]
      /\ \A n \in 1..Len(t) : (s \o t)[n + Len(s)] = t[n]
  OBVIOUS
<1>3. \A n \in DOMAIN (s \o t) :
          n \in 1..Len(s) \/ (n - Len(s) \in 1..Len(t) /\ (n - Len(s)) + Len(s) = n)
  BY <1>1, <1>2
<1>4. \A n \in 1..Len(t) : n + Len(s) \in DOMAIN (s \o t) /\ n + Len(s) \notin 1..Len(s)
  BY <1>1, <1>2
<1>5. ToSet(s \o t) = ToSet(s) \cup ToSet(t)
  <2>1. ASSUME NEW n \in DOMAIN (s \o t) PROVE (s \o t)[n] \in ToSet(s) \cup ToSet(t)
    BY <1>1, <1>2, <1>3 DEF ToSet
  <2>2. ASSUME NEW n \in DOMAIN s PROVE s[n] \in ToSet(s \o t)
    BY <1>1, <1>2 DEF ToSet
  <2>3. ASSUME NEW n \in DOMAIN t PROVE t[n] \in ToSet(s \o t)
    BY <1>1, <1>2, <1>4 DEF ToSet
  <2>4. QED  BY <2>1, <2>2, <2>3 DEF ToSet
<1>6. ASSUME NEW x PROVE Times(x, s \o t) = Times(x, s) + Times(x, t)
  <2> DEFINE A == {n \in DOMAIN s : s[n] = x}
             B == {n \in DOMAIN t : t[n] = x}
             C == {n \in DOMAIN (s \o t) : (s \o t)[n] = x /\ n \notin 1..Len(s)}
             move == [n \in B |-> n + Len(s)]
  <2>1. IsFiniteSet(A) /\ IsFiniteSet(B)
    BY PlacesFinite
  <2>2. {n \in DOMAIN (s \o t) : (s \o t)[n] = x} = A \cup C /\ A \cap C = {}
    BY <1>1, <1>2
  <2>3. move \in [B -> C]
    BY <1>1, <1>2, <1>4
  <2>4. \A m, n \in B : move[m] = move[n] => m = n
    BY <1>1
  <2>5. \A c \in C : \E n \in B : move[n] = c
    <3>1. ASSUME NEW c \in C PROVE c - Len(s) \in B /\ move[c - Len(s)] = c
      <4>1. c - Len(s) \in 1..Len(t) /\ (c - Len(s)) + Len(s) = c
        BY <1>3
      <4>2. t[c - Len(s)] = x
        BY <1>2, <4>1
      <4>3. QED  BY <1>1, <4>1, <4>2
    <3>2. QED  BY <3>1
  <2>6. ExistsBijection(B, C)
    <3> HIDE DEF move, B, C
    <3>1. move \in Bijection(B, C)
      BY <2>3, <2>4, <2>5 DEF Bijection, Injection, Surjection, IsInjective
    <3>2. QED  BY <3>1 DEF ExistsBijection
  <2> HIDE DEF A, B, C
  <2>7. IsFiniteSet(C) /\ Cardinality(C) = Cardinality(B)
    BY <2>1, <2>6, FS_Bijection
  <2>8. Cardinality(A \cup C) = Cardinality(A) + Cardinality(C) - Cardinality(A \cap C)
    BY <2>1, <2>7, FS_Union
  <2>9. Cardinality(A \cap C) = 0 /\ Cardinality(A) \in Nat /\ Cardinality(C) \in Nat
    BY <2>1, <2>2, <2>7, FS_EmptySet, FS_CardinalityType
  <2>10. Cardinality(A \cup C) = Cardinality(A) + Cardinality(B)
    BY <2>7, <2>8, <2>9
  <2>11. QED  BY <2>2, <2>10 DEF Times, A, B
<1>7. QED  BY <1>2, <1>5, <1>6

\* A list of lists flattened is the last of its flattened prefixes.
LEMMA Flattening ==
    \A R : \A s \in Seq(Seq(R)) : \E h \in [0..Len(s) -> Seq(R)] :
        /\ h[0] = <<>>
        /\ \A i \in 1..Len(s) : h[i] = h[i - 1] \o s[i]
        /\ FlattenSeq(s) = h[Len(s)]
<1> SUFFICES ASSUME NEW R, NEW s \in Seq(Seq(R))
             PROVE  \E h \in [0..Len(s) -> Seq(R)] :
                        /\ h[0] = <<>>
                        /\ \A i \in 1..Len(s) : h[i] = h[i - 1] \o s[i]
                        /\ FlattenSeq(s) = h[Len(s)]
  OBVIOUS
<1> DEFINE n == Len(s)
           Grows(m, h) == h[0] = <<>> /\ \A i \in 1..m : h[i] = h[i - 1] \o s[i]
           G == {m \in 0..n : \E h \in [0..m -> Seq(R)] : Grows(m, h)}
<1>0. n \in Nat /\ \A i \in 1..n : s[i] \in Seq(R)
  OBVIOUS
<1> HIDE DEF n
<1>1. 0 \in G
  <2> DEFINE e == [i \in 0..0 |-> <<>>]
  <2>1. e \in [0..0 -> Seq(R)] /\ Grows(0, e)
    OBVIOUS
  <2>2. 0 \in 0..n
    BY <1>0
  <2> HIDE DEF Grows, e
  <2>3. \E h \in [0..0 -> Seq(R)] : Grows(0, h)
    BY <2>1
  <2>4. QED  BY <2>2, <2>3
<1>2. ASSUME NEW m \in G, m < n PROVE m + 1 \in G
  <2>1. PICK h \in [0..m -> Seq(R)] : Grows(m, h)
    OBVIOUS
  <2> DEFINE k == [i \in 0..(m + 1) |-> IF i <= m THEN h[i] ELSE h[m] \o s[m + 1]]
  <2>2. m \in Nat /\ m + 1 \in 0..n /\ m + 1 \in 1..n /\ m \in 0..m
    BY <1>0, <1>2
  <2>3. h[m] \o s[m + 1] \in Seq(R)
    <3>1. h[m] \in Seq(R) /\ s[m + 1] \in Seq(R)
      BY <1>0, <2>2
    <3>2. QED  BY <3>1
  <2>4. k \in [0..(m + 1) -> Seq(R)]
    BY <2>2, <2>3
  <2>5. k[0] = <<>>
    BY <2>1, <2>2
  <2>6. ASSUME NEW i \in 1..(m + 1) PROVE k[i] = k[i - 1] \o s[i]
    <3>1. i - 1 \in 0..(m + 1) /\ i - 1 <= m /\ i \in 0..(m + 1)
      BY <2>2
    <3>2. k[i - 1] = h[i - 1]
      BY <3>1
    <3>3. CASE i <= m
      <4>1. i \in 1..m /\ k[i] = h[i]
        BY <2>2, <3>1, <3>3
      <4>2. h[i] = h[i - 1] \o s[i]
        BY <2>1, <4>1
      <4>3. QED  BY <3>2, <4>1, <4>2
    <3>4. CASE ~(i <= m)
      <4>1. i = m + 1 /\ i - 1 = m
        BY <2>2, <3>4
      <4>2. k[m + 1] = h[m] \o s[m + 1]
        BY <2>2
      <4>3. QED  BY <3>2, <4>1, <4>2
    <3>5. QED  BY <3>3, <3>4
  <2> HIDE DEF k
  <2>7. Grows(m + 1, k)
    BY <2>5, <2>6
  <2> HIDE DEF Grows
  <2>8. QED  BY <2>2, <2>4, <2>7
<1>3. n \in G
  <2>1. G \in SUBSET Nat
    <3>1. 0..n \in SUBSET Nat
      BY <1>0
    <3> HIDE DEF Grows
    <3>2. QED  BY <3>1
  <2> HIDE DEF G
  <2>2. n \in 0..n
    BY <1>0
  <2>3. \A i \in 0..n : i \in G
    BY <1>0, <1>1, <1>2, <2>1, UpTo
  <2>4. QED  BY <2>2, <2>3
<1>4. PICK h \in [0..n -> Seq(R)] : Grows(n, h)
  BY <1>3
<1> HIDE DEF G
<1>5. CASE n = 0
  <2>1. s = <<>>
    BY <1>5 DEF n
  <2>2. FlattenSeq(s) = <<>>
    BY <1>5, <2>1 DEF FlattenSeq, n
  <2>3. QED  BY <1>4, <1>5, <2>2 DEF n
<1>6. CASE n # 0
  <2> DEFINE Flat(g) == g = [i \in 1..n |-> IF i = 1 THEN s[i] ELSE g[i - 1] \o s[i]]
             p == CHOOSE g : Flat(g)
             q == [i \in 1..n |-> h[i]]
  <2>1. FlattenSeq(s) = p[n]
    BY <1>6 DEF FlattenSeq, n
  <2>2. ASSUME NEW i \in 1..n
        PROVE  q[i] = IF i = 1 THEN s[i] ELSE q[i - 1] \o s[i]
    <3>1. q[i] = h[i - 1] \o s[i] /\ s[i] \in Seq(R)
      BY <1>0, <1>4
    <3>2. CASE i = 1
      <4>1. i - 1 = 0 /\ h[i - 1] = <<>>
        BY <1>4, <3>2
      <4>2. <<>> \o s[i] = s[i]
        BY <3>1
      <4>3. QED  BY <3>1, <3>2, <4>1, <4>2
    <3>3. CASE i # 1
      <4>1. i - 1 \in 1..n
        BY <1>0, <3>3
      <4>2. q[i - 1] = h[i - 1]
        BY <4>1
      <4>3. QED  BY <3>1, <3>3, <4>2
    <3>4. QED  BY <3>2, <3>3
  <2>3. Flat(q)
    <3>1. [i \in 1..n |-> IF i = 1 THEN s[i] ELSE q[i - 1] \o s[i]] = q
      BY <2>2
    <3>2. QED  BY <3>1
  <2> HIDE DEF q
  <2>4. Flat(p)
    BY <2>3
  <2> HIDE DEF p
  <2> DEFINE E == {i \in 0..n : i = 0 \/ p[i] = h[i]}
  <2>5. ASSUME NEW i \in E, i < n PROVE i + 1 \in E
    <3>1. i + 1 \in 1..n /\ i \in Nat
      BY <1>0, <2>5
    <3>2. p[i + 1] = IF i + 1 = 1 THEN s[i + 1] ELSE p[(i + 1) - 1] \o s[i + 1]
      BY <2>4, <3>1
    <3>3. h[i + 1] = h[(i + 1) - 1] \o s[i + 1]
      BY <1>4, <3>1
    <3>4. (i + 1) - 1 = i
      BY <3>1
    <3>5. CASE i = 0
      <4>1. h[i] = <<>> /\ s[i + 1] \in Seq(R)
        BY <1>0, <1>4, <3>1, <3>5
      <4>2. <<>> \o s[i + 1] = s[i + 1]
        BY <4>1
      <4>3. h[i + 1] = s[i + 1]
        BY <3>3, <3>4, <4>1, <4>2
      <4>4. p[i + 1] = s[i + 1]
        BY <3>2, <3>5
      <4>5. QED  BY <3>1, <4>3, <4>4
    <3>6. CASE i # 0
      <4>1. p[i] = h[i] /\ i + 1 # 1
        BY <3>1, <3>6
      <4>2. p[i + 1] = p[i] \o s[i + 1] /\ h[i + 1] = h[i] \o s[i + 1]
        BY <3>2, <3>3, <3>4, <4>1
      <4>3. p[i + 1] = h[i + 1] /\ i + 1 \in 0..n
        BY <3>1, <4>1, <4>2
      <4>4. QED  BY <4>3
    <3>7. QED  BY <3>5, <3>6
  <2>6. E \in SUBSET Nat /\ 0 \in E
    BY <1>0
  <2>7. \A i \in 0..n : i \in E
    <3> HIDE DEF E
    <3>1. QED  BY <1>0, <2>5, <2>6, UpTo
  <2>8. p[n] = h[n]
    BY <1>0, <1>6, <2>7
  <2>9. QED  BY <1>4, <2>1, <2>8 DEF n
<1>7. QED  BY <1>5, <1>6

\* Flattening adds lengths, and how often each element stands in the lists.
LEMMA FlattenCounts ==
    \A R : \A s \in Seq(Seq(R)) :
        /\ FlattenSeq(s) \in Seq(R)
        /\ Len(FlattenSeq(s))
               = SumFunctionOnSet([n \in 1..Len(s) |-> Len(s[n])], 1..Len(s))
        /\ \A x : Times(x, FlattenSeq(s))
                      = SumFunctionOnSet([n \in 1..Len(s) |-> Times(x, s[n])], 1..Len(s))
<1> SUFFICES ASSUME NEW R, NEW s \in Seq(Seq(R)), NEW x
             PROVE  /\ FlattenSeq(s) \in Seq(R)
                    /\ Len(FlattenSeq(s))
                           = SumFunctionOnSet([n \in 1..Len(s) |-> Len(s[n])], 1..Len(s))
                    /\ Times(x, FlattenSeq(s))
                           = SumFunctionOnSet([n \in 1..Len(s) |-> Times(x, s[n])], 1..Len(s))
  OBVIOUS
<1> DEFINE c == Len(s)
           lens == [n \in 1..c |-> Len(s[n])]
           times == [n \in 1..c |-> Times(x, s[n])]
<1>1. c \in Nat /\ \A n \in 1..c : s[n] \in Seq(R)
  OBVIOUS
<1> HIDE DEF c
<1>2. lens \in [1..c -> Nat]
  BY <1>1
<1>3. times \in [1..c -> Nat]
  <2>1. \A n \in 1..c : Times(x, s[n]) \in Nat
    BY <1>1, PlacesFinite
  <2>2. QED  BY <2>1
<1>4. PICK h \in [0..c -> Seq(R)] : /\ h[0] = <<>>
                                    /\ \A i \in 1..c : h[i] = h[i - 1] \o s[i]
                                    /\ FlattenSeq(s) = h[c]
  BY Flattening DEF c
<1> DEFINE G == {i \in 0..c : /\ Len(h[i]) = SumFunctionOnSet(lens, 1..i)
                              /\ Times(x, h[i]) = SumFunctionOnSet(times, 1..i)}
<1>5. 0 \in G
  <2>1. Len(h[0]) = 0 /\ Times(x, h[0]) = 0
    <3>1. DOMAIN <<>> = {} /\ Len(<<>>) = 0
      OBVIOUS
    <3>2. {n \in DOMAIN <<>> : <<>>[n] = x} = {}
      BY <3>1
    <3>3. QED  BY <1>4, <3>1, <3>2, FS_EmptySet DEF Times
  <2>2. SumFunctionOnSet(lens, 1..0) = 0 /\ SumFunctionOnSet(times, 1..0) = 0
    <3> HIDE DEF lens, times
    <3>1. QED  BY <1>1, <1>2, <1>3, SumUp
  <2> HIDE DEF lens, times
  <2>3. QED  BY <1>1, <2>1, <2>2
<1>6. ASSUME NEW i \in G, i < c PROVE i + 1 \in G
  <2>1. i \in 0..c /\ i + 1 \in 1..c /\ i \in 0..(c - 1) /\ (i + 1) - 1 = i
    BY <1>1, <1>6
  <2>2. lens[i + 1] = Len(s[i + 1]) /\ times[i + 1] = Times(x, s[i + 1])
    BY <2>1
  <2> HIDE DEF lens, times
  <2>3. /\ SumFunctionOnSet(lens, 1..(i + 1)) = SumFunctionOnSet(lens, 1..i) + lens[i + 1]
        /\ SumFunctionOnSet(times, 1..(i + 1)) = SumFunctionOnSet(times, 1..i) + times[i + 1]
    BY <1>1, <1>2, <1>3, <2>1, SumUp
  <2>4. h[i + 1] = h[i] \o s[i + 1] /\ h[i] \in Seq(R) /\ s[i + 1] \in Seq(R)
    BY <1>1, <1>4, <2>1
  <2>5. /\ Len(h[i + 1]) = Len(h[i]) + Len(s[i + 1])
        /\ Times(x, h[i + 1]) = Times(x, h[i]) + Times(x, s[i + 1])
    BY <2>4, ConcatCounts
  <2>6. QED  BY <1>1, <1>6, <2>1, <2>2, <2>3, <2>5
<1>7. G \in SUBSET Nat
  <2> HIDE DEF lens, times
  <2>1. 0..c \in SUBSET Nat
    BY <1>1
  <2>2. QED  BY <2>1
<1>8. c \in G
  <2> HIDE DEF G
  <2>1. c \in 0..c
    BY <1>1
  <2>2. QED  BY <1>1, <1>5, <1>6, <1>7, <2>1, UpTo
<1>9. /\ FlattenSeq(s) \in Seq(R)
      /\ Len(FlattenSeq(s)) = SumFunctionOnSet(lens, 1..c)
      /\ Times(x, FlattenSeq(s)) = SumFunctionOnSet(times, 1..c)
  <2> HIDE DEF lens, times
  <2>1. QED  BY <1>1, <1>4, <1>8
<1>10. QED  BY <1>9 DEF c

\* An element that stands in one of the lists only stands as often in all of them.
LEMMA FlattenOne ==
    \A R : \A s \in Seq(Seq(R)) : \A x : \A k \in 1..Len(s) :
        (\A n \in (1..Len(s)) \ {k} : x \notin ToSet(s[n]))
            => Times(x, FlattenSeq(s)) = Times(x, s[k])
<1> SUFFICES ASSUME NEW R, NEW s \in Seq(Seq(R)), NEW x, NEW k \in 1..Len(s),
                    \A n \in (1..Len(s)) \ {k} : x \notin ToSet(s[n])
             PROVE  Times(x, FlattenSeq(s)) = Times(x, s[k])
  OBVIOUS
<1> DEFINE D == 1..Len(s)
           times == [n \in D |-> Times(x, s[n])]
<1>1. ASSUME NEW n \in D
      PROVE  Times(x, s[n]) \in Nat /\ (n # k => Times(x, s[n]) = 0)
  <2>1. s[n] \in Seq(R)
    OBVIOUS
  <2>2. QED  BY <2>1, PlacesFinite
<1>2. IsFiniteSet(D) /\ D \in SUBSET D /\ k \in D
  BY FS_Interval
<1>3. Times(x, FlattenSeq(s)) = SumFunctionOnSet(times, D)
  BY FlattenCounts
<1> HIDE DEF D
<1>4. times \in [D -> Nat] /\ (\A n \in D \ {k} : times[n] = 0) /\ times[k] = Times(x, s[k])
  BY <1>1, <1>2
<1> HIDE DEF times
<1>5. SumFunctionOnSet(times, D) = times[k]
  BY <1>2, <1>4, SumOfOne
<1>6. QED  BY <1>3, <1>4, <1>5

LEMMA FlattenHas ==
    \A R : \A s \in Seq(Seq(R)) : \A x \in ToSet(FlattenSeq(s)) :
        \E n \in 1..Len(s) : x \in ToSet(s[n])
<1> SUFFICES ASSUME NEW R, NEW s \in Seq(Seq(R)), NEW x \in ToSet(FlattenSeq(s)),
                    \A n \in 1..Len(s) : x \notin ToSet(s[n])
             PROVE  FALSE
  OBVIOUS
<1> DEFINE D == 1..Len(s)
           times == [n \in D |-> Times(x, s[n])]
<1>1. ASSUME NEW n \in D PROVE Times(x, s[n]) = 0
  <2>1. s[n] \in Seq(R)
    OBVIOUS
  <2>2. QED  BY <2>1, PlacesFinite
<1>2. IsFiniteSet(D) /\ D \in SUBSET D
  BY FS_Interval
<1>3. Times(x, FlattenSeq(s)) = SumFunctionOnSet(times, D) /\ FlattenSeq(s) \in Seq(R)
  BY FlattenCounts
<1> HIDE DEF D
<1>4. times \in [D -> Nat] /\ (\A n \in D : times[n] = 0)
  BY <1>1
<1> HIDE DEF times
<1>5. SumFunctionOnSet(times, D) = 0
  BY <1>2, <1>4, SumOfZeros
<1>6. QED  BY <1>3, <1>5, PlacesFinite

\* Counting the elements of a list one by one counts them all.
LEMMA TimesAddUp ==
    \A R, S : \A s \in Seq(S) : IsFiniteSet(R) /\ ToSet(s) \subseteq R =>
        SumFunctionOnSet([r \in R |-> Times(r, s)], R) = Len(s)
<1> SUFFICES ASSUME NEW R, NEW S, NEW s \in Seq(S), IsFiniteSet(R), ToSet(s) \subseteq R
             PROVE  SumFunctionOnSet([r \in R |-> Times(r, s)], R) = Len(s)
  OBVIOUS
<1> DEFINE D == DOMAIN s
           ones == [n \in D |-> 1]
           class(r) == {n \in D : s[n] = r}
<1>1. /\ IsFiniteSet(D) /\ Cardinality(D) = Len(s)
      /\ s \in [D -> R]
  <2>1. D = 1..Len(s) /\ Len(s) \in Nat
    OBVIOUS
  <2>2. IsFiniteSet(D) /\ Cardinality(D) = Len(s)
    BY <2>1, FS_Interval
  <2>3. \A n \in D : s[n] \in R
    BY DEF ToSet
  <2>4. s = [n \in D |-> s[n]]
    BY <2>1
  <2>5. QED  BY <2>2, <2>3, <2>4
<1> HIDE DEF D
<1>2. ones \in [D -> Nat] /\ \A n \in D : ones[n] = 1
  OBVIOUS
<1> HIDE DEF ones
<1>3. SumFunctionOnSet([r \in R |-> SumFunctionOnSet(ones, class(r))], R)
          = SumFunctionOnSet(ones, D)
  BY <1>1, <1>2, SumByClass
<1>4. SumFunctionOnSet(ones, D) = Len(s)
  BY <1>1, <1>2, SumOfOnes
<1>5. ASSUME NEW r \in R PROVE SumFunctionOnSet(ones, class(r)) = Times(r, s)
  <2>1. class(r) \in SUBSET D /\ IsFiniteSet(class(r)) /\ \A n \in class(r) : ones[n] = 1
    BY <1>1, <1>2, FS_Subset
  <2>2. Times(r, s) = Cardinality(class(r))
    BY DEF Times, D
  <2> HIDE DEF class
  <2>3. QED  BY <1>2, <2>1, <2>2, SumOfOnes
<1>6. [r \in R |-> SumFunctionOnSet(ones, class(r))] = [r \in R |-> Times(r, s)]
  BY <1>5
<1>7. QED  BY <1>3, <1>4, <1>6

-----------------------------------------------------------------------------
(* The inductive invariant.                                                 *)

\* The report's lists are lists of their kinds.
ListsKept == /\ databases \in Seq(scanned) /\ errors \in Seq(scanned)
             /\ instances \in Seq(Record)

\* The counts are those of the lists once Finalize has run, and the files those of
\* the lists once they are marshalled.
CountsKept == stage \in {"marshal", "done"} => counts = Counts
FilesKept  == stage = "done" => files = Files

IInv == TypeOK /\ ListsKept /\ CountsKept /\ FilesKept

-----------------------------------------------------------------------------
(* Rows.                                                                    *)

Listing   == BootListing \cup BlockListing
VolumeIds == UNION {Ids(l) : l \in Listing}
Row       == [instance : Nat, volume : VolumeIds \cup {None}]

LEMMA ListingFacts ==
    \A l \in Listing :
        /\ l.complete \in BOOLEAN
        /\ l.volumes \in Seq(ToSet(l.volumes))
        /\ Len(l.volumes) \in Nat /\ DOMAIN l.volumes = 1..Len(l.volumes)
        /\ \A m \in DOMAIN l.volumes :
               /\ l.volumes[m].id \in Ids(l) /\ l.volumes[m].id \in VolumeIds
               /\ l.volumes[m].id # None
               /\ l.volumes[m].size \in Nat \cup {NoSize}
        /\ \A m, n \in DOMAIN l.volumes : l.volumes[m].id = l.volumes[n].id => m = n
<1> SUFFICES ASSUME NEW l \in Listing
             PROVE  /\ l.complete \in BOOLEAN
                    /\ l.volumes \in Seq(ToSet(l.volumes))
                    /\ Len(l.volumes) \in Nat /\ DOMAIN l.volumes = 1..Len(l.volumes)
                    /\ \A m \in DOMAIN l.volumes :
                           /\ l.volumes[m].id \in Ids(l) /\ l.volumes[m].id \in VolumeIds
                           /\ l.volumes[m].id # None
                           /\ l.volumes[m].size \in Nat \cup {NoSize}
                    /\ \A m, n \in DOMAIN l.volumes :
                           l.volumes[m].id = l.volumes[n].id => m = n
  OBVIOUS
<1>1. /\ l.complete \in BOOLEAN
      /\ l.volumes \in Seq(ToSet(l.volumes))
      /\ \A v \in ToSet(l.volumes) : v.size \in Nat \cup {NoSize} /\ v.id # None
      /\ \A m, n \in DOMAIN l.volumes : l.volumes[m].id = l.volumes[n].id => m = n
  BY ListingAssumption DEF Listing
<1> DEFINE s == l.volumes
<1> HIDE DEF s
<1>2. Len(s) \in Nat /\ DOMAIN s = 1..Len(s)
  BY <1>1 DEF s
<1>3. ASSUME NEW m \in DOMAIN l.volumes
      PROVE  /\ l.volumes[m].id \in Ids(l) /\ l.volumes[m].id \in VolumeIds
             /\ l.volumes[m].id # None /\ l.volumes[m].size \in Nat \cup {NoSize}
  <2>1. l.volumes[m] \in ToSet(l.volumes)
    BY DEF ToSet
  <2>2. QED  BY <1>1, <2>1 DEF Ids, VolumeIds
<1>4. QED  BY <1>1, <1>2, <1>3 DEF s

\* The rows of a listing: one per volume, all of the same instance.
LEMMA VolumeRowsFacts ==
    \A n \in Nat, l \in Listing :
        /\ VolumeRows(n, l.volumes) \in Seq(Row)
        /\ Len(VolumeRows(n, l.volumes)) = Len(l.volumes)
        /\ \A row \in ToSet(VolumeRows(n, l.volumes)) :
               row.instance = n /\ row.volume \in Ids(l) /\ row.volume # None
        /\ \A row \in ToSet(VolumeRows(n, l.volumes)) :
               Times(row, VolumeRows(n, l.volumes)) = 1
<1> SUFFICES ASSUME NEW n \in Nat, NEW l \in Listing
             PROVE  /\ VolumeRows(n, l.volumes) \in Seq(Row)
                    /\ Len(VolumeRows(n, l.volumes)) = Len(l.volumes)
                    /\ \A row \in ToSet(VolumeRows(n, l.volumes)) :
                           row.instance = n /\ row.volume \in Ids(l) /\ row.volume # None
                    /\ \A row \in ToSet(VolumeRows(n, l.volumes)) :
                           Times(row, VolumeRows(n, l.volumes)) = 1
  OBVIOUS
<1> DEFINE c == Len(l.volumes)
           id == [m \in 1..c |-> l.volumes[m].id]
           rows == [m \in 1..c |-> [instance |-> n, volume |-> id[m]]]
<1>1. /\ c \in Nat /\ DOMAIN l.volumes = 1..c
      /\ \A m \in 1..c : id[m] \in Ids(l) /\ id[m] \in VolumeIds /\ id[m] # None
      /\ \A j, k \in 1..c : id[j] = id[k] => j = k
  BY ListingFacts
<1>2. VolumeRows(n, l.volumes) = rows
  BY <1>1 DEF VolumeRows
<1> HIDE DEF c, id
<1>3. rows \in Seq(Row) /\ Len(rows) = c
  <2>1. \A m \in 1..c : rows[m] \in Row
    BY <1>1 DEF Row
  <2>2. QED  BY <1>1, <2>1
<1>4. DOMAIN rows = 1..c /\ \A m \in 1..c : rows[m].instance = n /\ rows[m].volume = id[m]
  OBVIOUS
<1> HIDE DEF rows
<1>5. \A row \in ToSet(rows) : row.instance = n /\ row.volume \in Ids(l) /\ row.volume # None
  BY <1>1, <1>4 DEF ToSet
<1>6. \A row \in ToSet(rows) : Times(row, rows) = 1
  <2>1. \A j, k \in DOMAIN rows : rows[j] = rows[k] => j = k
    BY <1>1, <1>4
  <2>2. QED  BY <1>3, <2>1, OnceIfInjective
<1>7. QED  BY <1>2, <1>3, <1>5, <1>6 DEF c

\* The rows of one instance.
RowsOf(n, kind) == VolumeRows(n, instances[n][kind].volumes)

ComputeRowsOf(n) == LET volumes == instances[n].boot.volumes \o instances[n].block.volumes
                    IN  IF volumes = <<>> THEN <<[instance |-> n, volume |-> None]>>
                        ELSE VolumeRows(n, volumes)

\* The combined rows of an instance are those of its boot and its block volumes, or one
\* that names none.
LEMMA Combined ==
    ListsKept => \A n \in DOMAIN instances :
        ComputeRowsOf(n) = IF RowsOf(n, "boot") \o RowsOf(n, "block") = <<>>
                           THEN <<[instance |-> n, volume |-> None]>>
                           ELSE RowsOf(n, "boot") \o RowsOf(n, "block")
<1> SUFFICES ASSUME ListsKept, NEW n \in DOMAIN instances
             PROVE  ComputeRowsOf(n) = IF RowsOf(n, "boot") \o RowsOf(n, "block") = <<>>
                                       THEN <<[instance |-> n, volume |-> None]>>
                                       ELSE RowsOf(n, "boot") \o RowsOf(n, "block")
  OBVIOUS
<1> DEFINE u == instances[n].boot.volumes
           v == instances[n].block.volumes
           row(x) == [instance |-> n, volume |-> x.id]
<1>1. instances[n] \in Record
  BY DEF ListsKept
<1>2. instances[n].boot \in Listing /\ instances[n].block \in Listing
  BY <1>1 DEF Record, Listing
<1>3. /\ u \in Seq(ToSet(u) \cup ToSet(v)) /\ v \in Seq(ToSet(u) \cup ToSet(v))
  <2>1. u \in Seq(ToSet(u)) /\ v \in Seq(ToSet(v))
    BY <1>2, ListingFacts
  <2> HIDE DEF u, v
  <2>2. QED  BY <2>1
<1>4. RowsOf(n, "boot") = VolumeRows(n, u) /\ RowsOf(n, "block") = VolumeRows(n, v)
  BY DEF RowsOf
<1>5. ComputeRowsOf(n) = IF u \o v = <<>> THEN <<[instance |-> n, volume |-> None]>>
                         ELSE VolumeRows(n, u \o v)
  BY DEF ComputeRowsOf
<1> HIDE DEF u, v
<1>6. /\ Len(u) \in Nat /\ DOMAIN u = 1..Len(u) /\ Len(v) \in Nat /\ DOMAIN v = 1..Len(v)
      /\ u \o v \in Seq(ToSet(u) \cup ToSet(v)) /\ Len(u \o v) = Len(u) + Len(v)
      /\ DOMAIN (u \o v) = 1..(Len(u) + Len(v))
  BY <1>3
<1>7. VolumeRows(n, u \o v) = VolumeRows(n, u) \o VolumeRows(n, v)
  <2> DEFINE a == VolumeRows(n, u)
             b == VolumeRows(n, v)
             R == {row(x) : x \in ToSet(u) \cup ToSet(v)}
             both == VolumeRows(n, u \o v)
  <2>1. /\ a = [m \in 1..Len(u) |-> row(u[m])] /\ b = [m \in 1..Len(v) |-> row(v[m])]
        /\ both = [m \in 1..(Len(u) + Len(v)) |-> row((u \o v)[m])]
    BY <1>6 DEF VolumeRows
  <2>2. /\ \A m \in 1..Len(u) : u[m] \in ToSet(u) /\ (u \o v)[m] = u[m]
        /\ \A m \in 1..Len(v) : v[m] \in ToSet(v)
        /\ \A m \in 1..(Len(u) + Len(v)) : m \notin 1..Len(u) =>
               m - Len(u) \in 1..Len(v) /\ (u \o v)[m] = v[m - Len(u)]
    BY <1>3, <1>6 DEF ToSet
  <2> HIDE DEF row
  <2>3. a \in Seq(R) /\ b \in Seq(R) /\ Len(a) = Len(u) /\ Len(b) = Len(v)
    BY <1>6, <2>1, <2>2
  <2> HIDE DEF a, b, R, both
  <2>4. /\ DOMAIN (a \o b) = 1..(Len(u) + Len(v))
        /\ \A m \in 1..(Len(u) + Len(v)) :
               (a \o b)[m] = IF m \in 1..Len(u) THEN a[m] ELSE b[m - Len(u)]
        /\ a \o b = [m \in 1..(Len(u) + Len(v)) |-> (a \o b)[m]]
    <3>1. /\ a \o b \in Seq(R) /\ Len(a \o b) = Len(a) + Len(b)
          /\ \A m \in 1..(Len(a) + Len(b)) :
                 (a \o b)[m] = IF m <= Len(a) THEN a[m] ELSE b[m - Len(a)]
      BY <2>3, ConcatProperties
    <3>2. DOMAIN (a \o b) = 1..(Len(u) + Len(v))
      BY <2>3, <3>1
    <3>3. a \o b = [m \in DOMAIN (a \o b) |-> (a \o b)[m]]
      <4> DEFINE s == a \o b
      <4>1. s \in Seq(R)
        BY <3>1
      <4> HIDE DEF s
      <4>2. s = [m \in DOMAIN s |-> s[m]]
        BY <4>1
      <4>3. QED  BY <4>2 DEF s
    <3>4. \A m \in 1..(Len(u) + Len(v)) :
              (a \o b)[m] = IF m \in 1..Len(u) THEN a[m] ELSE b[m - Len(u)]
      BY <1>6, <2>3, <3>1
    <3>5. QED  BY <3>2, <3>3, <3>4, Zenon
  <2>5. ASSUME NEW m \in 1..(Len(u) + Len(v)) PROVE (a \o b)[m] = row((u \o v)[m])
    <3>1. CASE m \in 1..Len(u)
      BY <2>1, <2>2, <2>4, <3>1
    <3>2. CASE m \notin 1..Len(u)
      <4>1. m - Len(u) \in 1..Len(v) /\ (u \o v)[m] = v[m - Len(u)]
        BY <2>2, <3>2
      <4>2. b[m - Len(u)] = row(v[m - Len(u)])
        BY <2>1, <4>1
      <4>3. QED  BY <2>4, <3>2, <4>1, <4>2
    <3>3. QED  BY <3>1, <3>2
  <2>6. [m \in 1..(Len(u) + Len(v)) |-> (a \o b)[m]]
            = [m \in 1..(Len(u) + Len(v)) |-> row((u \o v)[m])]
    BY <2>5
  <2>7. both = a \o b
    BY <2>1, <2>4, <2>6, Zenon
  <2>8. QED  BY <2>7 DEF a, b, both
<1>8. u \o v = <<>> <=> VolumeRows(n, u) \o VolumeRows(n, v) = <<>>
  <2> DEFINE both == VolumeRows(n, u \o v)
  <2>1. both = [m \in 1..(Len(u) + Len(v)) |-> row((u \o v)[m])]
    BY <1>6 DEF VolumeRows
  <2>2. both = <<>> <=> Len(u) + Len(v) = 0
    <3>1. Len(u) + Len(v) # 0 => 1 \in DOMAIN both
      BY <1>6, <2>1
    <3>2. DOMAIN <<>> = {}
      OBVIOUS
    <3>3. Len(u) + Len(v) = 0 => both = <<>>
      BY <1>6, <2>1
    <3>4. QED  BY <3>1, <3>2, <3>3
  <2>3. u \o v = <<>> <=> Len(u) + Len(v) = 0
    BY <1>6
  <2> HIDE DEF both
  <2>4. QED  BY <1>7, <2>2, <2>3 DEF both
<1>9. QED  BY <1>4, <1>5, <1>7, <1>8

\* A file of attached volumes has the rows of the instances one after the other.
LEMMA AttachedCounts ==
    ListsKept => \A kind \in {"boot", "block"} :
        /\ AttachedRows(kind) \in Seq(Row)
        /\ Len(AttachedRows(kind))
               = SumFunction([n \in DOMAIN instances |-> Len(instances[n][kind].volumes)])
        /\ \A row \in ToSet(AttachedRows(kind)) :
               /\ row.instance \in DOMAIN instances
               /\ row \in ToSet(RowsOf(row.instance, kind))
        /\ \A row \in Row : row.instance \in DOMAIN instances =>
               Times(row, AttachedRows(kind)) = Times(row, RowsOf(row.instance, kind))
<1> SUFFICES ASSUME ListsKept, NEW kind \in {"boot", "block"}
             PROVE  /\ AttachedRows(kind) \in Seq(Row)
                    /\ Len(AttachedRows(kind))
                           = SumFunction([n \in DOMAIN instances |->
                                             Len(instances[n][kind].volumes)])
                    /\ \A row \in ToSet(AttachedRows(kind)) :
                           /\ row.instance \in DOMAIN instances
                           /\ row \in ToSet(RowsOf(row.instance, kind))
                    /\ \A row \in Row : row.instance \in DOMAIN instances =>
                           Times(row, AttachedRows(kind))
                               = Times(row, RowsOf(row.instance, kind))
  OBVIOUS
<1> DEFINE c == Len(instances)
           s == [n \in 1..c |-> RowsOf(n, kind)]
<1>1. c \in Nat /\ DOMAIN instances = 1..c /\ \A n \in 1..c : instances[n] \in Record
  BY DEF ListsKept
<1> HIDE DEF c
<1>2. \A n \in 1..c : n \in Nat /\ instances[n][kind] \in Listing
  BY <1>1 DEF Record, Listing
<1>3. ASSUME NEW n \in 1..c
      PROVE  /\ s[n] \in Seq(Row) /\ Len(s[n]) = Len(instances[n][kind].volumes)
             /\ \A row \in ToSet(s[n]) : row.instance = n
             /\ s[n] = RowsOf(n, kind)
  <2>1. s[n] = RowsOf(n, kind)
    OBVIOUS
  <2>2. /\ RowsOf(n, kind) \in Seq(Row)
        /\ Len(RowsOf(n, kind)) = Len(instances[n][kind].volumes)
        /\ \A row \in ToSet(RowsOf(n, kind)) : row.instance = n
    BY <1>2, VolumeRowsFacts DEF RowsOf
  <2> HIDE DEF s
  <2>3. QED  BY <2>1, <2>2
<1>4. AttachedRows(kind) = FlattenSeq(s)
  BY <1>1 DEF AttachedRows, RowsOf
<1>5. DOMAIN s = 1..c /\ s \in Seq(Seq(Row)) /\ Len(s) = c
  <2>1. \A n \in 1..c : RowsOf(n, kind) \in Seq(Row)
    BY <1>3
  <2>2. QED  BY <1>1, <2>1
<1> HIDE DEF s
<1>6. AttachedRows(kind) \in Seq(Row)
  BY <1>4, <1>5, FlattenCounts
<1>7. Len(AttachedRows(kind))
          = SumFunction([n \in DOMAIN instances |-> Len(instances[n][kind].volumes)])
  <2> DEFINE f == [n \in 1..c |-> Len(s[n])]
             g == [n \in 1..c |-> Len(instances[n][kind].volumes)]
  <2>1. Len(FlattenSeq(s)) = SumFunctionOnSet(f, 1..c)
    BY <1>5, FlattenCounts
  <2>2. f = g
    BY <1>3
  <2>3. SumFunction(g) = SumFunctionOnSet(g, 1..c)
    BY DEF SumFunction, SumFunctionOnSet
  <2> HIDE DEF f, g
  <2>4. Len(AttachedRows(kind)) = SumFunction(g)
    BY <1>4, <2>1, <2>2, <2>3
  <2>5. QED  BY <1>1, <2>4 DEF g
<1>8. ASSUME NEW row \in ToSet(AttachedRows(kind))
      PROVE  row.instance \in DOMAIN instances /\ row \in ToSet(RowsOf(row.instance, kind))
  <2>1. PICK n \in 1..c : row \in ToSet(s[n])
    BY <1>4, <1>5, FlattenHas
  <2>2. row.instance = n /\ s[n] = RowsOf(n, kind)
    BY <1>3, <2>1
  <2>3. QED  BY <1>1, <2>1, <2>2
<1>9. ASSUME NEW row \in Row, row.instance \in DOMAIN instances
      PROVE  Times(row, AttachedRows(kind)) = Times(row, RowsOf(row.instance, kind))
  <2> DEFINE k == row.instance
  <2>1. k \in 1..c /\ k \in 1..Len(s)
    BY <1>1, <1>5, <1>9
  <2>2. \A n \in (1..Len(s)) \ {k} : row \notin ToSet(s[n])
    BY <1>3, <1>5
  <2> HIDE DEF k
  <2>3. Times(row, FlattenSeq(s)) = Times(row, s[k])
    BY <1>5, <2>1, <2>2, FlattenOne
  <2>4. s[k] = RowsOf(k, kind)
    BY <1>3, <2>1
  <2>5. QED  BY <1>4, <2>3, <2>4 DEF k
<1>10. QED  BY <1>6, <1>7, <1>8, <1>9

\* The combined file has for each instance its boot and its block volumes, each once,
\* or one row that names none.
LEMMA CombinedRows ==
    ListsKept => \A n \in DOMAIN instances :
        /\ RowsOf(n, "boot") \in Seq(Row) /\ RowsOf(n, "block") \in Seq(Row)
        /\ ComputeRowsOf(n) \in Seq(Row)
        /\ \A row \in ToSet(RowsOf(n, "boot")) \cup ToSet(RowsOf(n, "block")) :
               /\ row.instance = n /\ row.volume # None
               /\ Times(row, RowsOf(n, "boot")) + Times(row, RowsOf(n, "block")) = 1
               /\ Times(row, ComputeRowsOf(n)) = 1
        /\ \A row \in ToSet(ComputeRowsOf(n)) :
               /\ row.instance = n
               /\ row.volume # None =>
                      row \in ToSet(RowsOf(n, "boot")) \cup ToSet(RowsOf(n, "block"))
        /\ Times([instance |-> n, volume |-> None], ComputeRowsOf(n))
               = IF ToSet(RowsOf(n, "boot")) \cup ToSet(RowsOf(n, "block")) # {}
                 THEN 0 ELSE 1
<1>0. SUFFICES ASSUME ListsKept, NEW n \in DOMAIN instances
      PROVE  /\ RowsOf(n, "boot") \in Seq(Row) /\ RowsOf(n, "block") \in Seq(Row)
             /\ ComputeRowsOf(n) \in Seq(Row)
             /\ \A row \in ToSet(RowsOf(n, "boot")) \cup ToSet(RowsOf(n, "block")) :
                    /\ row.instance = n /\ row.volume # None
                    /\ Times(row, RowsOf(n, "boot")) + Times(row, RowsOf(n, "block")) = 1
                    /\ Times(row, ComputeRowsOf(n)) = 1
             /\ \A row \in ToSet(ComputeRowsOf(n)) :
                    /\ row.instance = n
                    /\ row.volume # None =>
                           row \in ToSet(RowsOf(n, "boot")) \cup ToSet(RowsOf(n, "block"))
             /\ Times([instance |-> n, volume |-> None], ComputeRowsOf(n))
                    = IF ToSet(RowsOf(n, "boot")) \cup ToSet(RowsOf(n, "block")) # {}
                      THEN 0 ELSE 1
  OBVIOUS
<1> DEFINE a == RowsOf(n, "boot")
           b == RowsOf(n, "block")
           all == ComputeRowsOf(n)
           none == [instance |-> n, volume |-> None]
<1>1. /\ n \in Nat /\ instances[n].boot \in BootListing /\ instances[n].block \in BlockListing
      /\ instances[n].boot \in Listing /\ instances[n].block \in Listing
  <2>1. n \in Nat /\ instances[n] \in Record
    BY <1>0 DEF ListsKept
  <2>2. QED  BY <2>1 DEF Record, Listing
<1>2. a \in Seq(Row) /\ b \in Seq(Row)
  BY <1>1, VolumeRowsFacts DEF RowsOf
<1>3. /\ \A row \in ToSet(a) : row.instance = n /\ row.volume # None
                               /\ row.volume \in Ids(instances[n].boot) /\ Times(row, a) = 1
      /\ \A row \in ToSet(b) : row.instance = n /\ row.volume # None
                               /\ row.volume \in Ids(instances[n].block) /\ Times(row, b) = 1
  <2>1. ASSUME NEW l \in Listing, NEW row \in ToSet(VolumeRows(n, l.volumes))
        PROVE  /\ row.instance = n /\ row.volume # None /\ row.volume \in Ids(l)
               /\ Times(row, VolumeRows(n, l.volumes)) = 1
    BY <1>1, VolumeRowsFacts
  <2>2. /\ a = VolumeRows(n, instances[n].boot.volumes)
        /\ b = VolumeRows(n, instances[n].block.volumes)
    BY DEF RowsOf
  <2> HIDE DEF a, b
  <2>3. QED  BY <1>1, <2>1, <2>2
<1>4. ToSet(a) \cap ToSet(b) = {}
  <2>1. Ids(instances[n].boot) \cap Ids(instances[n].block) = {}
    BY <1>1, ListingAssumption
  <2>2. QED  BY <1>3, <2>1
<1>5. all = IF a \o b = <<>> THEN <<none>> ELSE a \o b
  BY <1>0, Combined
<1>6. none \in Row
  BY <1>1 DEF Row
<1> HIDE DEF a, b, all, none
<1>7. /\ a \o b \in Seq(Row) /\ ToSet(a \o b) = ToSet(a) \cup ToSet(b)
      /\ \A x : Times(x, a \o b) = Times(x, a) + Times(x, b)
  BY <1>2, ConcatCounts
<1>8. a \o b = <<>> <=> ToSet(a) \cup ToSet(b) = {}
  <2> DEFINE s == a \o b
  <2>1. s \in Seq(Row)
    BY <1>7
  <2> HIDE DEF s
  <2>2. s = <<>> <=> ToSet(s) = {}
    <3>1. s = <<>> => ToSet(s) = {}
      BY DEF ToSet
    <3>2. s # <<>> => s[1] \in ToSet(s)
      BY <2>1 DEF ToSet
    <3>3. QED  BY <3>1, <3>2
  <2>3. QED  BY <1>7, <2>2 DEF s
<1>9. ASSUME NEW row \in ToSet(a) \cup ToSet(b) PROVE Times(row, a) + Times(row, b) = 1
  <2>1. CASE row \in ToSet(a)
    <3>1. Times(row, a) = 1 /\ row \notin ToSet(b)
      BY <1>3, <1>4, <2>1
    <3>2. Times(row, b) = 0
      BY <1>2, <3>1, PlacesFinite
    <3>3. QED  BY <3>1, <3>2
  <2>2. CASE row \in ToSet(b)
    <3>1. Times(row, b) = 1 /\ row \notin ToSet(a)
      BY <1>3, <1>4, <2>2
    <3>2. Times(row, a) = 0
      BY <1>2, <3>1, PlacesFinite
    <3>3. QED  BY <3>1, <3>2
  <2>3. QED  BY <2>1, <2>2
<1>10. none.instance = n /\ none.volume = None
  BY DEF none
<1>11. /\ <<none>> \in Seq(Row) /\ ToSet(<<none>>) = {none}
       /\ Times(none, <<none>>) = 1
  <2>1. <<none>> \in Seq(Row) /\ DOMAIN <<none>> = 1..1 /\ <<none>>[1] = none
    BY <1>6
  <2>2. ToSet(<<none>>) = {none}
    BY <2>1 DEF ToSet
  <2>3. \A j, k \in DOMAIN <<none>> : <<none>>[j] = <<none>>[k] => j = k
    BY <2>1
  <2>4. QED  BY <2>1, <2>2, <2>3, OnceIfInjective
<1>12. all \in Seq(Row)
  BY <1>5, <1>7, <1>11
<1>13. ASSUME NEW row \in ToSet(a) \cup ToSet(b)
       PROVE  row.instance = n /\ row.volume # None /\ Times(row, all) = 1
  BY <1>3, <1>5, <1>7, <1>8, <1>9
<1>14. ASSUME NEW row \in ToSet(all)
       PROVE  row.instance = n /\ (row.volume # None => row \in ToSet(a) \cup ToSet(b))
  <2>1. CASE a \o b = <<>>
    <3>1. row = none
      BY <1>5, <1>11, <2>1
    <3>2. QED  BY <1>10, <3>1
  <2>2. CASE a \o b # <<>>
    <3>1. row \in ToSet(a) \cup ToSet(b)
      BY <1>5, <1>7, <2>2
    <3>2. QED  BY <1>3, <3>1
  <2>3. QED  BY <2>1, <2>2
<1>15. Times(none, all) = IF ToSet(a) \cup ToSet(b) # {} THEN 0 ELSE 1
  <2>1. CASE a \o b = <<>>
    BY <1>5, <1>8, <1>11, <2>1
  <2>2. CASE a \o b # <<>>
    <3>1. none \notin ToSet(a \o b)
      BY <1>3, <1>7, <1>10
    <3>2. Times(none, a \o b) = 0
      BY <1>7, <3>1, PlacesFinite
    <3>3. QED  BY <1>5, <1>8, <2>2, <3>2
  <2>3. QED  BY <2>1, <2>2
<1>16. QED  BY <1>2, <1>9, <1>12, <1>13, <1>14, <1>15 DEF a, b, all, none

LEMMA ComputeCounts ==
    ListsKept =>
        /\ ComputeRows \in Seq(Row)
        /\ \A row \in ToSet(ComputeRows) :
               /\ row.instance \in DOMAIN instances
               /\ row \in ToSet(ComputeRowsOf(row.instance))
        /\ \A row \in Row : row.instance \in DOMAIN instances =>
               Times(row, ComputeRows) = Times(row, ComputeRowsOf(row.instance))
<1>0. SUFFICES ASSUME ListsKept
      PROVE  /\ ComputeRows \in Seq(Row)
             /\ \A row \in ToSet(ComputeRows) :
                    /\ row.instance \in DOMAIN instances
                    /\ row \in ToSet(ComputeRowsOf(row.instance))
             /\ \A row \in Row : row.instance \in DOMAIN instances =>
                    Times(row, ComputeRows) = Times(row, ComputeRowsOf(row.instance))
  OBVIOUS
<1> DEFINE c == Len(instances)
           s == [n \in 1..c |-> ComputeRowsOf(n)]
<1>1. c \in Nat /\ DOMAIN instances = 1..c
  BY <1>0 DEF ListsKept
<1> HIDE DEF c
<1>2. ASSUME NEW n \in 1..c
      PROVE  /\ s[n] \in Seq(Row) /\ s[n] = ComputeRowsOf(n)
             /\ \A row \in ToSet(s[n]) : row.instance = n
  <2>1. s[n] = ComputeRowsOf(n)
    OBVIOUS
  <2>2. /\ ComputeRowsOf(n) \in Seq(Row)
        /\ \A row \in ToSet(ComputeRowsOf(n)) : row.instance = n
    BY <1>0, <1>1, CombinedRows
  <2> HIDE DEF s
  <2>3. QED  BY <2>1, <2>2
<1>3. ComputeRows = FlattenSeq(s)
  BY <1>1 DEF ComputeRows, ComputeRowsOf
<1>4. DOMAIN s = 1..c /\ s \in Seq(Seq(Row)) /\ Len(s) = c
  <2>1. \A n \in 1..c : ComputeRowsOf(n) \in Seq(Row)
    BY <1>2
  <2>2. QED  BY <1>1, <2>1
<1> HIDE DEF s
<1>5. ComputeRows \in Seq(Row)
  BY <1>3, <1>4, FlattenCounts
<1>6. ASSUME NEW row \in ToSet(ComputeRows)
      PROVE  row.instance \in DOMAIN instances /\ row \in ToSet(ComputeRowsOf(row.instance))
  <2>1. PICK n \in 1..c : row \in ToSet(s[n])
    BY <1>3, <1>4, FlattenHas
  <2>2. row.instance = n /\ s[n] = ComputeRowsOf(n)
    BY <1>2, <2>1
  <2>3. QED  BY <1>1, <2>1, <2>2
<1>7. ASSUME NEW row \in Row, row.instance \in DOMAIN instances
      PROVE  Times(row, ComputeRows) = Times(row, ComputeRowsOf(row.instance))
  <2> DEFINE k == row.instance
  <2>1. k \in 1..c /\ k \in 1..Len(s)
    BY <1>1, <1>4, <1>7
  <2>2. \A n \in (1..Len(s)) \ {k} : row \notin ToSet(s[n])
    BY <1>2, <1>4
  <2> HIDE DEF k
  <2>3. Times(row, FlattenSeq(s)) = Times(row, s[k])
    BY <1>4, <2>1, <2>2, FlattenOne
  <2>4. s[k] = ComputeRowsOf(k)
    BY <1>2, <2>1
  <2>5. QED  BY <1>3, <2>3, <2>4 DEF k
<1>8. QED  BY <1>5, <1>6, <1>7

-----------------------------------------------------------------------------
(* Totals.                                                                  *)

LEMMA RegionsFinite ==
    TypeOK /\ ListsKept =>
        /\ Regions \subseteq Region /\ IsFiniteSet(Regions)
        /\ ToSet(databases) \subseteq Regions /\ ToSet(errors) \subseteq Regions
        /\ \A n \in DOMAIN instances : instances[n].region \in Regions
<1> SUFFICES ASSUME TypeOK, ListsKept
             PROVE  /\ Regions \subseteq Region /\ IsFiniteSet(Regions)
                    /\ ToSet(databases) \subseteq Regions /\ ToSet(errors) \subseteq Regions
                    /\ \A n \in DOMAIN instances : instances[n].region \in Regions
  OBVIOUS
<1>1. /\ ToSet(databases) \subseteq scanned /\ ToSet(errors) \subseteq scanned
      /\ scanned \subseteq Region
  BY DEF TypeOK, ListsKept, ToSet
<1>2. {i.region : i \in ToSet(instances)} \subseteq Region
  <2>1. \A i \in ToSet(instances) : i \in Record
    BY DEF TypeOK
  <2>2. QED  BY <2>1 DEF Record
<1>3. Regions \subseteq Region
  BY <1>1, <1>2 DEF Regions
<1>4. IsFiniteSet(Regions)
  BY <1>3, RegionAssumption, FS_Subset
<1>5. \A n \in DOMAIN instances : instances[n] \in ToSet(instances)
  BY DEF ToSet
<1>6. \A n \in DOMAIN instances : instances[n].region \in Regions
  BY <1>5 DEF Regions
<1>7. QED  BY <1>3, <1>4, <1>6 DEF Regions

\* The volumes of a kind add up over the regions.
LEMMA VolumesAddUp ==
    TypeOK /\ ListsKept => \A kind \in {"boot", "block"} :
        SumFunction([r \in Regions |->
                        SumFunction([n \in In(r) |-> Len(instances[n][kind].volumes)])])
            = SumFunction([n \in DOMAIN instances |-> Len(instances[n][kind].volumes)])
<1>0. SUFFICES ASSUME TypeOK, ListsKept, NEW kind \in {"boot", "block"}
      PROVE  SumFunction([r \in Regions |->
                             SumFunction([n \in In(r) |-> Len(instances[n][kind].volumes)])])
                 = SumFunction([n \in DOMAIN instances |-> Len(instances[n][kind].volumes)])
  OBVIOUS
<1> DEFINE D == DOMAIN instances
           f == [n \in D |-> Len(instances[n][kind].volumes)]
           g == [n \in D |-> instances[n].region]
           class(r) == {n \in D : g[n] = r}
           part(r) == [n \in In(r) |-> Len(instances[n][kind].volumes)]
<1>1. IsFiniteSet(D)
  <2>1. D = 1..Len(instances) /\ Len(instances) \in Nat
    BY <1>0 DEF ListsKept
  <2>2. QED  BY <2>1, FS_Interval
<1>2. ASSUME NEW n \in D PROVE Len(instances[n][kind].volumes) \in Nat
  <2>1. instances[n] \in Record
    BY <1>0 DEF ListsKept
  <2>2. instances[n][kind] \in Listing
    BY <2>1 DEF Record, Listing
  <2>3. QED  BY <2>2, ListingFacts
<1>3. f \in [D -> Nat]
  BY <1>2
<1>4. g \in [D -> Regions] /\ IsFiniteSet(Regions)
  BY <1>0, RegionsFinite
<1>5. SumFunctionOnSet([r \in Regions |-> SumFunctionOnSet(f, class(r))], Regions)
          = SumFunctionOnSet(f, D)
  <2> HIDE DEF f, g, D
  <2>1. QED  BY <1>1, <1>3, <1>4, SumByClass
<1>6. ASSUME NEW r \in Regions PROVE SumFunction(part(r)) = SumFunctionOnSet(f, class(r))
  <2> DEFINE S == In(r)
             p == [n \in S |-> Len(instances[n][kind].volumes)]
  <2>1. S = class(r) /\ S \subseteq D
    BY DEF In
  <2>2. IsFiniteSet(S)
    BY <1>1, <2>1, FS_Subset
  <2>3. p \in [S -> Nat] /\ \A n \in S : p[n] = f[n]
    BY <1>2, <2>1
  <2>4. S \in SUBSET (S \cap D)
    BY <2>1
  <2>5. SumFunction(p) = SumFunctionOnSet(p, S)
    BY DEF SumFunction, SumFunctionOnSet
  <2>6. SumFunctionOnSet(p, S) = SumFunctionOnSet(f, S)
    <3> HIDE DEF S, p, f, D
    <3>1. QED  BY <1>3, <2>2, <2>3, <2>4, SumAgrees
  <2>7. SumFunctionOnSet(f, S) = SumFunctionOnSet(f, class(r))
    <3> HIDE DEF f, D
    <3>1. QED  BY <2>1, Zenon
  <2>8. SumFunction(p) = SumFunctionOnSet(f, class(r))
    <3> HIDE DEF p, f, D
    <3>1. QED  BY <2>5, <2>6, <2>7
  <2>9. QED  BY <2>8
<1>7. [r \in Regions |-> SumFunction(part(r))]
          = [r \in Regions |-> SumFunctionOnSet(f, class(r))]
  <2> HIDE DEF part, f, class
  <2>1. QED  BY <1>6
<1>8. /\ SumFunction([r \in Regions |-> SumFunction(part(r))])
             = SumFunctionOnSet([r \in Regions |-> SumFunction(part(r))], Regions)
      /\ SumFunction(f) = SumFunctionOnSet(f, D)
  BY DEF SumFunction, SumFunctionOnSet
<1> HIDE DEF D
<1>9. SumFunction([r \in Regions |-> SumFunction(part(r))]) = SumFunction(f)
  <2> HIDE DEF f, part, class
  <2>1. QED  BY <1>5, <1>7, <1>8
<1>10. QED  BY <1>9 DEF D

-----------------------------------------------------------------------------
(* The invariant.                                                           *)

LEMMA ListsAreSeqs == \A S : \A max \in Nat : \A s \in Lists(S, max) : s \in Seq(S)
<1> SUFFICES ASSUME NEW S, NEW max \in Nat, NEW s \in Lists(S, max) PROVE s \in Seq(S)
  OBVIOUS
<1>1. PICK n \in 0..max : s \in [1..n -> S]
  BY DEF Lists
<1>2. QED  BY <1>1

LEMMA InSet == \A S : \A s \in Seq(S) : ToSet(s) \subseteq S
BY DEF ToSet

LEMMA SumNatural ==
    \A n \in Nat : \A f \in [1..n -> Nat] : SumFunction(f) \in Nat
<1> SUFFICES ASSUME NEW n \in Nat, NEW f \in [1..n -> Nat] PROVE SumFunction(f) \in Nat
  OBVIOUS
<1>1. IsFiniteSet(1..n)
  BY FS_Interval
<1>2. SumFunction(f) = SumFunctionOnSet(f, 1..n)
  BY DEF SumFunction, SumFunctionOnSet
<1>3. 1..n \in SUBSET (1..n)
  OBVIOUS
<1>4. SumFunctionOnSet(f, 1..n) \in Nat
  BY <1>1, <1>3, SumStep, Zenon
<1>5. QED  BY <1>2, <1>4

\* A summary that says its storage is complete has a total.
LEMMA StorageTyped ==
    \A i \in Record : StorageComplete(i) => StorageTotal(i) \in Nat
<1>1. ASSUME NEW l \in Listing, KindTotal(l) # NoSize PROVE KindTotal(l) \in Nat
  <2> DEFINE c == Len(l.volumes)
             sizes == [n \in DOMAIN l.volumes |-> l.volumes[n].size]
  <2>1. KindTotal(l) = SumFunction(sizes) /\ NoSize \notin ToSet(sizes)
    BY <1>1 DEF KindTotal
  <2>2. /\ c \in Nat /\ DOMAIN l.volumes = 1..c
        /\ \A n \in DOMAIN l.volumes : l.volumes[n].size \in Nat \cup {NoSize}
    BY ListingFacts
  <2>3. \A n \in DOMAIN l.volumes : l.volumes[n].size \in ToSet(sizes)
    BY DEF ToSet
  <2>4. sizes \in [1..c -> Nat]
    BY <2>1, <2>2, <2>3
  <2> HIDE DEF sizes, c
  <2>5. QED  BY <2>1, <2>2, <2>4, SumNatural
<1>2. ASSUME NEW i \in Record, StorageComplete(i) PROVE StorageTotal(i) \in Nat
  <2>1. i.boot \in Listing /\ i.block \in Listing
    BY DEF Record, Listing
  <2>2. KindTotal(i.boot) # NoSize /\ KindTotal(i.block) # NoSize
    BY <1>2 DEF StorageComplete
  <2>3. KindTotal(i.boot) \in Nat /\ KindTotal(i.block) \in Nat
    BY <1>1, <2>1, <2>2
  <2>4. StorageTotal(i) = KindTotal(i.boot) + KindTotal(i.block)
    BY <2>2 DEF StorageTotal
  <2>5. QED  BY <2>3, <2>4
<1>3. QED  BY <1>2

LEMMA CountsTyped ==
    ListsKept => \A x \in DOMAIN Counts : Counts[x] \in Nat
<1> SUFFICES ASSUME ListsKept PROVE \A x \in DOMAIN Counts : Counts[x] \in Nat
  OBVIOUS
<1>1. /\ DOMAIN instances = 1..Len(instances) /\ Len(instances) \in Nat
      /\ Len(databases) \in Nat /\ Len(errors) \in Nat
  BY DEF ListsKept
<1>2. ASSUME NEW kind \in {"boot", "block"}
      PROVE  SumFunction([n \in DOMAIN instances |-> Len(instances[n][kind].volumes)]) \in Nat
  <2>1. ASSUME NEW n \in DOMAIN instances PROVE Len(instances[n][kind].volumes) \in Nat
    <3>1. instances[n] \in Record
      BY DEF ListsKept
    <3>2. instances[n][kind] \in Listing
      BY <3>1 DEF Record, Listing
    <3>3. QED  BY <3>2, ListingFacts
  <2> DEFINE f == [n \in DOMAIN instances |-> Len(instances[n][kind].volumes)]
  <2>2. f \in [1..Len(instances) -> Nat]
    BY <1>1, <2>1
  <2> HIDE DEF f
  <2>3. SumFunction(f) \in Nat
    BY <1>1, <2>2, SumNatural
  <2>4. QED  BY <2>3 DEF f
<1>3. /\ SumFunction([n \in DOMAIN instances |-> Len(instances[n].boot.volumes)]) \in Nat
      /\ SumFunction([n \in DOMAIN instances |-> Len(instances[n].block.volumes)]) \in Nat
  BY <1>2
<1>4. QED  BY <1>1, <1>3 DEF Counts

LEMMA ErrorsTyped ==
    \A S : \A list \in Seq(Record) :
        (\A n \in DOMAIN list : list[n].region \in S) => ErrorsOf(list) \in Seq(S)
<1> SUFFICES ASSUME NEW S, NEW list \in Seq(Record),
                    \A n \in DOMAIN list : list[n].region \in S
             PROVE  ErrorsOf(list) \in Seq(S)
  OBVIOUS
<1> DEFINE s == [n \in DOMAIN list |-> ListingErrors(list[n])]
<1>1. DOMAIN list = 1..Len(list) /\ Len(list) \in Nat
  OBVIOUS
<1>2. ASSUME NEW n \in DOMAIN list PROVE ListingErrors(list[n]) \in Seq(S)
  <2> DEFINE one(l) == IF l.complete THEN <<>> ELSE <<list[n].region>>
  <2>1. one(list[n].boot) \in Seq(S) /\ one(list[n].block) \in Seq(S)
    OBVIOUS
  <2>2. ListingErrors(list[n]) = one(list[n].boot) \o one(list[n].block)
    BY DEF ListingErrors
  <2> HIDE DEF one
  <2>3. QED  BY <2>1, <2>2
<1>3. s \in Seq(Seq(S))
  BY <1>1, <1>2
<1>4. ErrorsOf(list) = FlattenSeq(s)
  BY DEF ErrorsOf
<1> HIDE DEF s
<1>5. QED  BY <1>3, <1>4, FlattenCounts

LEMMA SameFiles ==
    UNCHANGED <<scanned, databases, instances, errors>> => Counts' = Counts /\ Files' = Files
BY DEF Counts, Files, ComputeRows, AttachedRows, Regions, RegionTotal, In

LEMMA InitInvariant == Init => IInv
<1> SUFFICES ASSUME Init PROVE IInv
  OBVIOUS
<1>1. databases = <<>> /\ instances = <<>> /\ errors = <<>>
  BY DEF Init
<1>2. databases \in Lists(scanned, MaxDatabases)
  <2>1. 0 \in 0..MaxDatabases /\ databases \in [1..0 -> scanned]
    BY <1>1, BoundsAssumption
  <2>2. QED  BY <2>1 DEF Lists
<1>3. ToSet(instances) = {} /\ ToSet(errors) = {}
  BY <1>1 DEF ToSet
<1>4. \A x \in DOMAIN counts : counts[x] \in Nat
  BY DEF Init
<1>5. DOMAIN files.totals \subseteq Region
  BY DEF Init
<1>6. TypeOK
  BY <1>2, <1>3, <1>4, <1>5 DEF Init, TypeOK
<1>7. ListsKept
  BY <1>1 DEF ListsKept
<1>8. QED  BY <1>6, <1>7 DEF Init, IInv, CountsKept, FilesKept

LEMMA StepInvariant == IInv /\ [Next]_vars => IInv'
<1>0. SUFFICES ASSUME IInv, [Next]_vars PROVE IInv'
  OBVIOUS
<1>a. TypeOK /\ ListsKept /\ CountsKept /\ FilesKept
  BY <1>0 DEF IInv
<1>b. MaxDatabases \in Nat /\ MaxInstances \in Nat /\ MaxErrors \in Nat
  BY BoundsAssumption
<1>1. CASE AppendDatabases
  <2>1. databases' \in Seq(scanned) /\ errors' \in Seq(scanned)
    BY <1>1, <1>b, ListsAreSeqs DEF AppendDatabases
  <2>2. ToSet(errors') \subseteq scanned
    BY <2>1, InSet
  <2>3. TypeOK'
    BY <1>1, <1>a, <2>2 DEF AppendDatabases, TypeOK
  <2>4. ListsKept'
    BY <1>1, <1>a, <2>1 DEF AppendDatabases, ListsKept
  <2>5. QED  BY <1>1, <2>3, <2>4 DEF AppendDatabases, IInv, CountsKept, FilesKept
<1>2. CASE AppendInstances
  <2>1. PICK list \in Instances, more \in Lists(scanned, MaxErrors) :
            /\ \A n \in DOMAIN list : list[n].region \in scanned
            /\ instances' = list
            /\ errors' = errors \o ErrorsOf(list) \o more
    BY <1>2 DEF AppendInstances
  <2>2. list \in Seq(Record) /\ more \in Seq(scanned)
    BY <1>b, ListsAreSeqs DEF Instances
  <2>3. ErrorsOf(list) \in Seq(scanned)
    BY <2>1, <2>2, ErrorsTyped
  <2>4. errors' \in Seq(scanned)
    <3>1. errors \in Seq(scanned)
      BY <1>a DEF ListsKept
    <3>2. errors \o ErrorsOf(list) \in Seq(scanned)
      BY <2>3, <3>1
    <3>3. QED  BY <2>1, <2>2, <3>2
  <2>5. ToSet(errors') \subseteq scanned /\ ToSet(instances') \subseteq Record
    BY <2>1, <2>2, <2>4, InSet
  <2>6. \A i \in ToSet(instances') : StorageComplete(i) => StorageTotal(i) \in Nat
    BY <2>5, StorageTyped
  <2>7. TypeOK'
    BY <1>2, <1>a, <2>5, <2>6 DEF AppendInstances, TypeOK
  <2>8. ListsKept'
    BY <1>2, <1>a, <2>1, <2>2, <2>4 DEF AppendInstances, ListsKept
  <2>9. QED  BY <1>2, <2>7, <2>8 DEF AppendInstances, IInv, CountsKept, FilesKept
<1>3. CASE Finalize
  <2>1. counts' = Counts /\ \A x \in DOMAIN Counts : Counts[x] \in Nat
    BY <1>3, <1>a, CountsTyped DEF Finalize
  <2>2. TypeOK'
    <3> HIDE DEF Counts
    <3>1. QED  BY <1>3, <1>a, <2>1 DEF Finalize, TypeOK
  <2>3. ListsKept'
    BY <1>3, <1>a DEF Finalize, ListsKept
  <2>4. CountsKept'
    <3>1. Counts' = Counts
      BY <1>3, SameFiles DEF Finalize
    <3>2. QED  BY <2>1, <3>1 DEF CountsKept
  <2>5. QED  BY <1>3, <2>2, <2>3, <2>4 DEF Finalize, IInv, FilesKept
<1>4. CASE Marshal
  <2>1. Counts' = Counts /\ Files' = Files
    BY <1>4, SameFiles DEF Marshal
  <2>2. DOMAIN files'.totals \subseteq Region
    <3>1. files'.totals = [r \in Regions |-> RegionTotal(r)]
      BY <1>4 DEF Marshal, Files
    <3>2. DOMAIN files'.totals = Regions
      BY <3>1
    <3>3. QED  BY <1>a, <3>2, RegionsFinite
  <2>3. TypeOK'
    BY <1>4, <1>a, <2>2 DEF Marshal, TypeOK
  <2>4. ListsKept'
    BY <1>4, <1>a DEF Marshal, ListsKept
  <2>5. CountsKept'
    BY <1>4, <1>a, <2>1 DEF Marshal, CountsKept
  <2>6. FilesKept'
    BY <1>4, <2>1 DEF Marshal, FilesKept
  <2>7. QED  BY <2>3, <2>4, <2>5, <2>6 DEF IInv
<1>5. CASE UNCHANGED vars
  <2>1. Counts' = Counts /\ Files' = Files
    BY <1>5, SameFiles DEF vars
  <2>2. TypeOK' /\ ListsKept'
    BY <1>5, <1>a DEF vars, TypeOK, ListsKept
  <2>3. CountsKept' /\ FilesKept'
    BY <1>5, <1>a, <2>1 DEF vars, CountsKept, FilesKept
  <2>4. QED  BY <2>2, <2>3 DEF IInv
<1>6. QED  BY <1>0, <1>1, <1>2, <1>3, <1>4, <1>5 DEF Next

-----------------------------------------------------------------------------
(* The theorems.                                                            *)

\* The counts and the files are those of the lists, whatever they hold.
THEOREM Invariant == Spec => []IInv
BY InitInvariant, StepInvariant, PTL DEF Spec

\* A summary that says its storage is complete has a total to go through
\* (compute.go:177-187, writer.go:530-531).
THEOREM TypeCorrect == Spec => []TypeOK
<1>1. IInv => TypeOK
  BY DEF IInv
<1>2. QED  BY Invariant, <1>1, PTL

\* The rows of the CSV files are those that the counts tell, each volume of an
\* instance once in the file of its kind and once in the combined file
\* (writer.go:277-297, 400-415).
THEOREM RowsAgree == Spec => []RowsMatchRecords
<1>1. IInv => RowsMatchRecords
  <2>0. SUFFICES ASSUME IInv, stage = "done" PROVE RowsMatchRecords
    BY DEF RowsMatchRecords
  <2>1. TypeOK /\ ListsKept /\ counts = Counts /\ files = Files
    BY <2>0 DEF IInv, CountsKept, FilesKept
  <2>2. /\ files.databases = databases /\ files.failed = errors
        /\ files.boot = AttachedRows("boot") /\ files.block = AttachedRows("block")
        /\ files.compute = ComputeRows
    BY <2>1 DEF Files
  <2>3. /\ counts.databases = Len(databases) /\ counts.errors = Len(errors)
        /\ counts.instances = Len(instances)
        /\ counts.boots = SumFunction([n \in DOMAIN instances |->
                                          Len(instances[n].boot.volumes)])
        /\ counts.blocks = SumFunction([n \in DOMAIN instances |->
                                           Len(instances[n].block.volumes)])
    BY <2>1 DEF Counts
  <2>4. /\ Len(AttachedRows("boot")) = counts.boots
        /\ Len(AttachedRows("block")) = counts.blocks
    BY <2>1, <2>3, AttachedCounts
  <2>5. /\ ComputeRows \in Seq(Row)
        /\ AttachedRows("boot") \in Seq(Row) /\ AttachedRows("block") \in Seq(Row)
    BY <2>1, AttachedCounts, ComputeCounts
  <2> DEFINE a == AttachedRows("boot")
             b == AttachedRows("block")
             volumes(n) == ToSet(RowsOf(n, "boot")) \cup ToSet(RowsOf(n, "block"))
  <2>6. /\ ToSet(a \o b) = ToSet(a) \cup ToSet(b)
        /\ ToSet(ComputeRows \o a \o b) = ToSet(ComputeRows) \cup ToSet(a) \cup ToSet(b)
        /\ \A x : Times(x, a \o b) = Times(x, a) + Times(x, b)
    <3> HIDE DEF a, b
    <3>1. a \in Seq(Row) /\ b \in Seq(Row)
      BY <2>5 DEF a, b
    <3>2. /\ ToSet(a \o b) = ToSet(a) \cup ToSet(b)
          /\ \A x : Times(x, a \o b) = Times(x, a) + Times(x, b)
      BY <3>1, ConcatCounts
    <3>3. /\ ComputeRows \o a \in Seq(Row)
          /\ ToSet(ComputeRows \o a) = ToSet(ComputeRows) \cup ToSet(a)
      BY <2>5, <3>1, ConcatCounts
    <3>4. ToSet((ComputeRows \o a) \o b) = ToSet(ComputeRows \o a) \cup ToSet(b)
      <4> DEFINE s == ComputeRows \o a
      <4>1. s \in Seq(Row)
        BY <3>3
      <4> HIDE DEF s
      <4>2. ToSet(s \o b) = ToSet(s) \cup ToSet(b)
        BY <3>1, <4>1, ConcatCounts
      <4>3. QED  BY <4>2 DEF s
    <3>5. QED  BY <3>2, <3>3, <3>4
  <2>7. \A row \in ToSet(a) \cup ToSet(b) :
            row.instance \in DOMAIN instances /\ row \in volumes(row.instance)
    BY <2>1, AttachedCounts
  <2>8. ASSUME NEW n \in DOMAIN instances, NEW row \in volumes(n)
        PROVE  /\ row \in Row /\ row.instance = n
               /\ Times(row, ComputeRows) = 1
               /\ Times(row, a \o b) = 1
               /\ row \in ToSet(a) \cup ToSet(b)
    <3>1. /\ RowsOf(n, "boot") \in Seq(Row) /\ RowsOf(n, "block") \in Seq(Row)
          /\ row.instance = n
          /\ Times(row, RowsOf(n, "boot")) + Times(row, RowsOf(n, "block")) = 1
          /\ Times(row, ComputeRowsOf(n)) = 1
      BY <2>1, CombinedRows
    <3>2. row \in Row
      BY <3>1, InSet
    <3>3. /\ Times(row, ComputeRows) = 1
          /\ Times(row, a) = Times(row, RowsOf(n, "boot"))
          /\ Times(row, b) = Times(row, RowsOf(n, "block"))
      BY <2>1, <3>1, <3>2, AttachedCounts, ComputeCounts
    <3>4. Times(row, a \o b) = 1 /\ Times(row, a) + Times(row, b) = 1
      BY <2>6, <3>1, <3>3
    <3>5. row \in ToSet(a) \cup ToSet(b)
      <4>1. /\ Times(row, a) \in Nat /\ Times(row, a) = 0 <=> row \notin ToSet(a)
            /\ Times(row, b) \in Nat /\ Times(row, b) = 0 <=> row \notin ToSet(b)
        BY <2>5, PlacesFinite
      <4>2. QED  BY <3>4, <4>1
    <3>6. QED  BY <3>1, <3>2, <3>3, <3>4, <3>5
  <2>9. ASSUME NEW row \in ToSet(files.compute \o files.boot \o files.block),
               row.volume # None
        PROVE  Times(row, files.compute) = 1 /\ Times(row, files.boot \o files.block) = 1
    <3>1. row \in ToSet(ComputeRows) \cup ToSet(a) \cup ToSet(b)
      BY <2>2, <2>6
    <3>2. row.instance \in DOMAIN instances /\ row \in volumes(row.instance)
      <4>1. CASE row \in ToSet(ComputeRows)
        <5>1. /\ row.instance \in DOMAIN instances
              /\ row \in ToSet(ComputeRowsOf(row.instance))
          BY <2>1, <4>1, ComputeCounts
        <5>2. QED  BY <2>1, <2>9, <5>1, CombinedRows
      <4>2. CASE row \in ToSet(a) \cup ToSet(b)
        BY <2>7, <4>2
      <4>3. QED  BY <3>1, <4>1, <4>2
    <3>3. QED  BY <2>2, <2>8, <3>2
  <2>10. ASSUME NEW n \in 1..counts.instances
         PROVE  Times([instance |-> n, volume |-> None], files.compute)
                    = IF \E row \in ToSet(files.boot \o files.block) : row.instance = n
                      THEN 0 ELSE 1
    <3> DEFINE none == [instance |-> n, volume |-> None]
    <3>1. n \in DOMAIN instances /\ none \in Row /\ none.instance = n
      <4>1. DOMAIN instances = 1..Len(instances)
        BY <2>1 DEF ListsKept
      <4>2. QED  BY <2>3, <4>1 DEF Row
    <3>2. Times(none, ComputeRows) = IF volumes(n) # {} THEN 0 ELSE 1
      <4>1. Times(none, ComputeRowsOf(n)) = IF volumes(n) # {} THEN 0 ELSE 1
        BY <2>1, <3>1, CombinedRows
      <4> HIDE DEF none
      <4>2. Times(none, ComputeRows) = Times(none, ComputeRowsOf(n))
        BY <2>1, <3>1, ComputeCounts
      <4>3. QED  BY <4>1, <4>2
    <3>3. volumes(n) # {} <=> \E row \in ToSet(a \o b) : row.instance = n
      BY <2>6, <2>7, <2>8, <3>1
    <3>4. QED  BY <2>2, <3>2, <3>3
  <2>11. QED  BY <2>2, <2>3, <2>4, <2>9, <2>10 DEF RowsMatchRecords
<1>2. QED  BY Invariant, <1>1, PTL

\* The lines of the regional totals add up to the counts of the report
\* (writer.go:498-545, model.go:211-240).
THEOREM TotalsAddUp == Spec => []RegionsAddUp
<1>1. IInv => RegionsAddUp
  <2>0. SUFFICES ASSUME IInv, stage = "done", NEW c \in DOMAIN counts
                 PROVE  Column(c) = counts[c]
    BY DEF RegionsAddUp
  <2>1. TypeOK /\ ListsKept /\ counts = Counts /\ files = Files
    BY <2>0 DEF IInv, CountsKept, FilesKept
  <2>2. /\ IsFiniteSet(Regions)
        /\ ToSet(databases) \subseteq Regions /\ ToSet(errors) \subseteq Regions
        /\ \A n \in DOMAIN instances : instances[n].region \in Regions
    BY <2>1, RegionsFinite
  <2>3. Column(c) = SumFunction([r \in Regions |-> RegionTotal(r)[c]])
    <3>1. files.totals = [r \in Regions |-> RegionTotal(r)]
      BY <2>1 DEF Files
    <3>2. /\ DOMAIN files.totals = Regions
          /\ \A r \in Regions : files.totals[r] = RegionTotal(r)
      BY <3>1
    <3>3. [r \in DOMAIN files.totals |-> files.totals[r][c]]
              = [r \in Regions |-> RegionTotal(r)[c]]
      BY <3>2
    <3>4. QED  BY <3>3, Zenon DEF Column
  <2>4. c \in {"databases", "instances", "boots", "blocks", "errors"}
    BY <2>0, <2>1 DEF Counts
  <2>5. CASE c = "databases"
    <3>1. [r \in Regions |-> RegionTotal(r)[c]] = [r \in Regions |-> Times(r, databases)]
      BY <2>5 DEF RegionTotal
    <3>2. databases \in Seq(scanned) /\ counts[c] = Len(databases)
      BY <2>1, <2>5 DEF ListsKept, Counts
    <3>3. SumFunctionOnSet([r \in Regions |-> Times(r, databases)], Regions) = Len(databases)
      BY <2>2, <3>2, TimesAddUp
    <3>4. SumFunction([r \in Regions |-> Times(r, databases)])
              = SumFunctionOnSet([r \in Regions |-> Times(r, databases)], Regions)
      BY DEF SumFunction, SumFunctionOnSet
    <3>5. QED  BY <2>3, <3>1, <3>2, <3>3, <3>4
  <2>6. CASE c = "errors"
    <3>1. [r \in Regions |-> RegionTotal(r)[c]] = [r \in Regions |-> Times(r, errors)]
      BY <2>6 DEF RegionTotal
    <3>2. errors \in Seq(scanned) /\ counts[c] = Len(errors)
      BY <2>1, <2>6 DEF ListsKept, Counts
    <3>3. SumFunctionOnSet([r \in Regions |-> Times(r, errors)], Regions) = Len(errors)
      BY <2>2, <3>2, TimesAddUp
    <3>4. SumFunction([r \in Regions |-> Times(r, errors)])
              = SumFunctionOnSet([r \in Regions |-> Times(r, errors)], Regions)
      BY DEF SumFunction, SumFunctionOnSet
    <3>5. QED  BY <2>3, <3>1, <3>2, <3>3, <3>4
  <2>7. CASE c = "instances"
    <3> DEFINE s == [n \in DOMAIN instances |-> instances[n].region]
    <3>1. /\ s \in Seq(Regions) /\ Len(s) = Len(instances) /\ ToSet(s) \subseteq Regions
          /\ DOMAIN s = DOMAIN instances
      <4>1. DOMAIN instances = 1..Len(instances) /\ Len(instances) \in Nat
        BY <2>1 DEF ListsKept
      <4>2. s \in Seq(Regions) /\ Len(s) = Len(instances)
        BY <2>2, <4>1
      <4>3. QED  BY <4>2, InSet
    <3>2. \A r \in Regions : RegionTotal(r)[c] = Times(r, s)
      BY <2>7 DEF RegionTotal, In, Times
    <3> HIDE DEF s
    <3>3. [r \in Regions |-> RegionTotal(r)[c]] = [r \in Regions |-> Times(r, s)]
      BY <3>2
    <3>4. SumFunctionOnSet([r \in Regions |-> Times(r, s)], Regions) = Len(s)
      BY <2>2, <3>1, TimesAddUp
    <3>5. SumFunction([r \in Regions |-> Times(r, s)])
              = SumFunctionOnSet([r \in Regions |-> Times(r, s)], Regions)
      BY DEF SumFunction, SumFunctionOnSet
    <3>6. counts[c] = Len(instances)
      BY <2>1, <2>7 DEF Counts
    <3>7. QED  BY <2>3, <3>1, <3>3, <3>4, <3>5, <3>6
  <2>8. CASE c = "boots"
    <3>1. [r \in Regions |-> RegionTotal(r)[c]]
              = [r \in Regions |-> SumFunction([n \in In(r) |-> Len(instances[n].boot.volumes)])]
      BY <2>8 DEF RegionTotal
    <3>2. counts[c] = SumFunction([n \in DOMAIN instances |-> Len(instances[n].boot.volumes)])
      BY <2>1, <2>8 DEF Counts
    <3>3. SumFunction([r \in Regions |->
                          SumFunction([n \in In(r) |-> Len(instances[n].boot.volumes)])])
              = SumFunction([n \in DOMAIN instances |-> Len(instances[n].boot.volumes)])
      BY <2>1, VolumesAddUp
    <3>4. QED  BY <2>3, <3>1, <3>2, <3>3, Zenon
  <2>9. CASE c = "blocks"
    <3>1. [r \in Regions |-> RegionTotal(r)[c]]
              = [r \in Regions |-> SumFunction([n \in In(r) |-> Len(instances[n].block.volumes)])]
      BY <2>9 DEF RegionTotal
    <3>2. counts[c] = SumFunction([n \in DOMAIN instances |-> Len(instances[n].block.volumes)])
      BY <2>1, <2>9 DEF Counts
    <3>3. SumFunction([r \in Regions |->
                          SumFunction([n \in In(r) |-> Len(instances[n].block.volumes)])])
              = SumFunction([n \in DOMAIN instances |-> Len(instances[n].block.volumes)])
      BY <2>1, VolumesAddUp
    <3>4. QED  BY <2>3, <3>1, <3>2, <3>3, Zenon
  <2>10. QED  BY <2>4, <2>5, <2>6, <2>7, <2>8, <2>9
<1>2. QED  BY Invariant, <1>1, PTL
=============================================================================
