-------------------------- MODULE ClientCacheProofs --------------------------
(***************************************************************************)
(* Proofs about ClientCache, for any workers, regions and clients.          *)
(***************************************************************************)
EXTENDS ClientCache, TLAPS

-----------------------------------------------------------------------------
(* The inductive invariant. Exclusion follows from the mutex alone; what the *)
(* holder knows of the map stays true because nobody else can change it.     *)

\* The mutex is held by the worker that is past Lock, and by no other.
HolderInside == \A w \in Worker : pc[w] \in Holding <=> mutex = w

\* A worker that found no client for its region still finds none until it stores.
StillMissing ==
    \A w \in Worker : pc[w] \in {"create", "set", "store"} => clients[asked[w]] = None

\* A created client has no region until it is set, then its creator's.
FreshTarget ==
    \A w \in Worker :
        /\ pc[w] = "set" => target[fresh[w]] = None
        /\ pc[w] = "store" => target[fresh[w]] = asked[w]

\* A client in the map talks to the region it is kept for.
KeptForItsRegion ==
    \A r \in Region : clients[r] # None => target[clients[r]] = r

\* A call has its result when it unlocks, and not before: what the map holds.
ResultFromTheMap ==
    \A w \in Worker :
        /\ pc[w] \in {"lock", "lookup", "create", "set", "store"} => got[w] = None
        /\ pc[w] = "unlock" => got[w] = clients[asked[w]]

IInv == /\ TypeOK
        /\ HolderInside
        /\ StillMissing
        /\ FreshTarget
        /\ KeptForItsRegion
        /\ ResultFromTheMap

-----------------------------------------------------------------------------
LEMMA InitInvariant == Init => IInv
<1> SUFFICES ASSUME Init PROVE IInv
  OBVIOUS
<1>1. TypeOK
  BY DEF Init, TypeOK
<1>2. HolderInside
  BY NoneAssumption DEF Init, HolderInside, Holding
<1>3. StillMissing /\ FreshTarget /\ KeptForItsRegion /\ ResultFromTheMap
  BY DEF Init, StillMissing, FreshTarget, KeptForItsRegion, ResultFromTheMap
<1>4. QED  BY <1>1, <1>2, <1>3 DEF IInv

LEMMA StepTyped == IInv /\ [Next]_vars => TypeOK'
<1> SUFFICES ASSUME IInv, [Next]_vars PROVE TypeOK'
  OBVIOUS
<1> USE NoneAssumption DEF TypeOK, Holding, Goto, local, shared
<1>0. TypeOK
  BY DEF IInv
<1>1. ASSUME NEW w \in Worker, NEW r \in Region, Ask(w, r) PROVE TypeOK'
  BY <1>0, <1>1 DEF Ask
<1>2. ASSUME NEW w \in Worker, Lock(w) PROVE TypeOK'
  BY <1>0, <1>2 DEF Lock
<1>3. ASSUME NEW w \in Worker, Lookup(w) PROVE TypeOK'
  BY <1>0, <1>3 DEF Lookup
<1>4. ASSUME NEW w \in Worker, Create(w) PROVE TypeOK'
  BY <1>0, <1>4 DEF Create
<1>5. ASSUME NEW w \in Worker, CreateFails(w) PROVE TypeOK'
  BY <1>0, <1>5 DEF CreateFails
<1>6. ASSUME NEW w \in Worker, SetRegion(w) PROVE TypeOK'
  BY <1>0, <1>6 DEF SetRegion
<1>7. ASSUME NEW w \in Worker, Store(w) PROVE TypeOK'
  BY <1>0, <1>7 DEF Store
<1>8. ASSUME NEW w \in Worker, Unlock(w) PROVE TypeOK'
  BY <1>0, <1>8 DEF Unlock
<1>9. CASE UNCHANGED vars
  BY <1>0, <1>9 DEF vars
<1>10. QED
  BY <1>1, <1>2, <1>3, <1>4, <1>5, <1>6, <1>7, <1>8, <1>9 DEF Next, Inside

\* Only the worker that holds the mutex moves inside, so what another one knows
\* is not disturbed: a step of w leaves every other worker outside.
LEMMA StepInside ==
    IInv /\ [Next]_vars => HolderInside' /\ StillMissing' /\ FreshTarget'
                           /\ KeptForItsRegion' /\ ResultFromTheMap'
<1> DEFINE Known == /\ HolderInside /\ StillMissing /\ FreshTarget
                    /\ KeptForItsRegion /\ ResultFromTheMap
<1> SUFFICES ASSUME IInv, [Next]_vars PROVE Known'
  OBVIOUS
<1> USE NoneAssumption DEF TypeOK, Holding, Goto, local, shared, HolderInside,
        StillMissing, FreshTarget, KeptForItsRegion, ResultFromTheMap
<1>0. TypeOK /\ Known
  BY DEF IInv
<1>1. ASSUME NEW w \in Worker, NEW r \in Region, Ask(w, r) PROVE Known'
  BY <1>0, <1>1 DEF Ask
<1>2. ASSUME NEW w \in Worker, Lock(w) PROVE Known'
  BY <1>0, <1>2 DEF Lock
<1>3. ASSUME NEW w \in Worker, Lookup(w) PROVE Known'
  BY <1>0, <1>3 DEF Lookup
<1>4. ASSUME NEW w \in Worker, Create(w) PROVE Known'
  BY <1>0, <1>4 DEF Create, Created
<1>5. ASSUME NEW w \in Worker, CreateFails(w) PROVE Known'
  BY <1>0, <1>5 DEF CreateFails
<1>6. ASSUME NEW w \in Worker, SetRegion(w) PROVE Known'
  BY <1>0, <1>6 DEF SetRegion
<1>7. ASSUME NEW w \in Worker, Store(w) PROVE Known'
  BY <1>0, <1>7 DEF Store
<1>8. ASSUME NEW w \in Worker, Unlock(w) PROVE Known'
  BY <1>0, <1>8 DEF Unlock
<1>9. CASE UNCHANGED vars
  BY <1>0, <1>9 DEF vars
<1>10. QED
  BY <1>1, <1>2, <1>3, <1>4, <1>5, <1>6, <1>7, <1>8, <1>9 DEF Next, Inside

LEMMA Invariant == Spec => []IInv
<1>1. IInv /\ [Next]_vars => IInv'
  BY StepTyped, StepInside DEF IInv
<1>2. QED  BY InitInvariant, <1>1, PTL DEF Spec

-----------------------------------------------------------------------------
\* The state of a cache keeps its types: a worker in a call has a region, and one
\* about to store has a client (collector.go:777-789).
THEOREM TypeCorrect == Spec => []TypeOK
<1>1. IInv => TypeOK
  BY DEF IInv
<1>2. QED  BY Invariant, <1>1, PTL

\* No two workers are at the map of a cache at once (collector.go:778-779).
THEOREM Exclusion == Spec => []MapAccessExclusive
<1>1. IInv => MapAccessExclusive
  BY DEF IInv, HolderInside, MapAccessExclusive
<1>2. QED  BY Invariant, <1>1, PTL

-----------------------------------------------------------------------------
(* The refinement. Store is where the region gets its client, Unlock where   *)
(* the worker gets its answer; nobody sees the steps before.                 *)

LEMMA StepMemoizes == IInv /\ [Next]_vars => [Memo!Next]_(Memo!vars)
<1> SUFFICES ASSUME IInv, [Next]_vars PROVE [Memo!Next]_(Memo!vars)
  OBVIOUS
<1> USE NoneAssumption DEF Holding, Goto, local, shared, Memo!vars
<1>0. IInv
  OBVIOUS
<1>1. ASSUME NEW w \in Worker, NEW r \in Region, Ask(w, r) PROVE Memo!Next
  <2>1. Memo!Ask(w, r)
    BY <1>0, <1>1 DEF IInv, TypeOK, Ask, Memo!Ask
  <2>2. QED  BY <2>1 DEF Memo!Next
<1>2. ASSUME NEW w \in Worker, Lock(w) PROVE UNCHANGED Memo!vars
  BY <1>2 DEF Lock
<1>3. ASSUME NEW w \in Worker, Lookup(w) PROVE UNCHANGED Memo!vars
  BY <1>0, <1>3 DEF IInv, TypeOK, Lookup
<1>4. ASSUME NEW w \in Worker, Create(w) PROVE UNCHANGED Memo!vars
  BY <1>4 DEF Create
<1>5. ASSUME NEW w \in Worker, CreateFails(w) PROVE UNCHANGED Memo!vars
  BY <1>5 DEF CreateFails
<1>6. ASSUME NEW w \in Worker, SetRegion(w) PROVE UNCHANGED Memo!vars
  <2>1. fresh[w] \in Client /\ target[fresh[w]] = None
    BY <1>0, <1>6 DEF IInv, TypeOK, FreshTarget, SetRegion
  <2>2. \A r \in Region : clients[r] # None => clients[r] # fresh[w]
    BY <1>0, <2>1 DEF IInv, KeptForItsRegion
  <2>3. \A r \in Region : clients[r] # None => target'[clients[r]] = target[clients[r]]
    BY <1>0, <1>6, <2>2 DEF IInv, TypeOK, SetRegion
  <2>4. QED  BY <1>6, <2>3 DEF SetRegion
<1>7. ASSUME NEW w \in Worker, Store(w) PROVE Memo!Next
  <2>1. /\ asked[w] \in Region /\ fresh[w] \in Client
        /\ clients[asked[w]] = None /\ target[fresh[w]] = asked[w]
    BY <1>0, <1>7 DEF IInv, TypeOK, StillMissing, FreshTarget, Store
  <2>2. \A q \in Region : clients[q] # None => clients[q] # fresh[w]
    BY <1>0, <2>1 DEF IInv, KeptForItsRegion
  <2> DEFINE entry(r) == [id |-> clients[r], region |-> target[clients[r]]]
             memo == [r \in Region |-> IF clients[r] = None THEN None ELSE entry(r)]
             own == [v \in Worker |-> IF asked[v] = None THEN got[v] ELSE None]
  <2>3. PICK c \in Client : c = fresh[w]
    BY <2>1
  <2>4. /\ clients' = [clients EXCEPT ![asked[w]] = c]
        /\ got' = [got EXCEPT ![w] = c]
        /\ UNCHANGED <<asked, target>>
    BY <1>7, <2>3 DEF Store
  <2>5. memo' = [memo EXCEPT ![asked[w]] = [id |-> c, region |-> asked[w]]]
    <3>1. clients \in [Region -> Client \cup {None}] /\ c # None
      BY <1>0, <2>3 DEF IInv, TypeOK
    <3>2. \A r \in Region : clients'[r] = IF r = asked[w] THEN c ELSE clients[r]
      BY <2>1, <2>4, <3>1
    <3>3. \A r \in Region : memo'[r] = IF r = asked[w] THEN [id |-> c, region |-> asked[w]]
                                                      ELSE memo[r]
      BY <2>1, <2>3, <2>4, <3>1, <3>2
    <3>4. QED  BY <2>1, <3>3
  <2>6. own' = own
    <3>1. asked[w] # None /\ got \in [Worker -> Client \cup {None}]
      BY <1>0, <2>1 DEF IInv, TypeOK
    <3>2. QED  BY <2>4, <3>1
  <2>7. memo[asked[w]] = None /\ asked[w] # None
    BY <2>1
  <2>8. \A q \in Region : memo[q] # [id |-> c, region |-> q]
    BY <2>2, <2>3
  <2>9. Memo!Make(w, c)
    BY <2>4, <2>5, <2>6, <2>7, <2>8 DEF Memo!Make
  <2>10. QED  BY <2>9 DEF Memo!Next
<1>8. ASSUME NEW w \in Worker, Unlock(w) PROVE Memo!Next
  <2>1. asked[w] \in Region /\ got[w] = clients[asked[w]]
    BY <1>0, <1>8 DEF IInv, TypeOK, ResultFromTheMap, Unlock
  <2>2. CASE clients[asked[w]] = None
    <3>1. Memo!Refuse(w)
      BY <1>0, <1>8, <2>1, <2>2 DEF IInv, TypeOK, Unlock, Memo!Refuse
    <3>2. QED  BY <3>1 DEF Memo!Next
  <2>3. CASE clients[asked[w]] # None
    <3> DEFINE c == clients[asked[w]]
               entry == [id |-> c, region |-> target[c]]
               ownAnswer == [v \in Worker |-> IF asked[v] = None THEN got[v] ELSE None]
    <3>a. c \in Client /\ target[c] \in Region /\ asked \in [Worker -> Region \cup {None}]
      BY <1>0, <2>1, <2>3 DEF IInv, TypeOK, KeptForItsRegion
    <3>b. entry # None /\ entry.id = got[w]
      BY <2>1, <3>a
    <3>c. asked' = [asked EXCEPT ![w] = None] /\ UNCHANGED <<got, clients, target>>
      BY <1>8 DEF Unlock
    <3>d. ownAnswer' = [ownAnswer EXCEPT ![w] = got[w]]
      BY <3>a, <3>c
    <3>1. Memo!Answer(w)
      BY <2>1, <2>3, <3>b, <3>c, <3>d DEF Memo!Answer
    <3>2. QED  BY <3>1 DEF Memo!Next
  <2>4. QED  BY <2>2, <2>3
<1>9. CASE UNCHANGED vars
  BY <1>9 DEF vars
<1>10. QED
  BY <1>1, <1>2, <1>3, <1>4, <1>5, <1>6, <1>7, <1>8, <1>9 DEF Next, Inside

\* Whatever the interleaving of the workers, the mutex and the map keep the
\* promise: one client per region, for that region, shared by all who ask, and no
\* error once it is there (collector.go:707-789).
THEOREM CacheImplementsMemo == Spec => ImplementsMemo
<1>1. Init => Memo!Init
  BY DEF Init, Memo!Init
<1>2. QED  BY <1>1, StepMemoizes, Invariant, PTL DEF Spec, ImplementsMemo, Memo!Spec
==============================================================================
