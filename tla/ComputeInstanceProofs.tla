------------------------ MODULE ComputeInstanceProofs ------------------------
(***************************************************************************)
(* Proofs about ComputeInstance, for any listings, page size and sizes, and *)
(* any number of attachments and detachments during the call.               *)
(*                                                                          *)
(* The inductive invariant says which kinds the call still has ahead, that  *)
(* no page loses a volume that stays attached, and that the storage total   *)
(* is the one drawn from the records.                                       *)
(***************************************************************************)
EXTENDS ComputeInstance, TLAPS

-----------------------------------------------------------------------------
(* The inductive invariant.                                                 *)

\* The kinds whose inventory has not ended.
Ahead == IF stage \in {"totals", "done"} THEN {}
         ELSE IF kind = "boot" THEN Kind ELSE {"block"}

\* A kind ahead has no record before its volumes are looked up; one that has ended is
\* complete unless its listing failed.
InOrder ==
    /\ stage \in {"instance", "failed"} => kind = "boot"
    /\ stage = "instance" => cursor = 0
    /\ stage \notin {"list", "get"} => pending = {}
    /\ \A k \in Ahead : /\ ~complete[k] /\ <<k, "listing">> \notin errors
                        /\ records[k] # {} => stage = "get" /\ k = kind
    /\ \A k \in Kind \ Ahead : ~complete[k] <=> <<k, "listing">> \in errors

\* A volume is looked up once, and was attached; one that could not be read keeps a
\* record without a size.
RecordsKept ==
    /\ pending \cap records[kind] = {}
    /\ pending \subseteq seen /\ Counted \subseteq seen /\ sized \subseteq Counted
    /\ \A k \in Kind, v \in Volume : <<k, v>> \in errors => v \in records[k] \ sized

\* What stays attached is on the pages read so far, then among the volumes to look up
\* or the records, then among the records.
Covered ==
    /\ \A k \in Kind : complete[k] => stable \cap VolumeOf(k) \subseteq records[k]
    /\ stage = "list" => \A i \in DOMAIN Listing[kind] :
           i <= cursor /\ Listing[kind][i] \in stable => Listing[kind][i] \in pending
    /\ stage = "get" => stable \cap VolumeOf(kind) \subseteq pending \cup records[kind]

StorageTotal == <<KindTotal("boot")[1] + KindTotal("block")[1]>>

Summed == storage = IF stage = "done" /\ \A k \in Kind : KindTotal(k) # NoTotal
                    THEN StorageTotal ELSE NoTotal

IInv == TypeOK /\ InOrder /\ RecordsKept /\ Covered /\ Summed

-----------------------------------------------------------------------------
(* Listings, pages and totals.                                              *)

\* The attachments of a kind are volumes of that kind, and no others.
LEMMA Listings ==
    \A k \in Kind :
        /\ Len(Listing[k]) \in Nat /\ DOMAIN Listing[k] = 1..Len(Listing[k])
        /\ \A i \in DOMAIN Listing[k] : Listing[k][i] \in VolumeOf(k)
        /\ \A v \in VolumeOf(k) : \E i \in DOMAIN Listing[k] : v = Listing[k][i]
        /\ VolumeOf(k) \subseteq Volume
<1> SUFFICES ASSUME NEW k \in Kind
             PROVE  /\ Len(Listing[k]) \in Nat /\ DOMAIN Listing[k] = 1..Len(Listing[k])
                    /\ \A i \in DOMAIN Listing[k] : Listing[k][i] \in VolumeOf(k)
                    /\ \A v \in VolumeOf(k) : \E i \in DOMAIN Listing[k] : v = Listing[k][i]
                    /\ VolumeOf(k) \subseteq Volume
  OBVIOUS
<1>1. Listing[k] \in Seq(Volume)
  BY ListingAssumption
<1>2. Len(Listing[k]) \in Nat /\ DOMAIN Listing[k] = 1..Len(Listing[k])
  BY <1>1
<1>3. VolumeOf(k) = {Listing[k][i] : i \in DOMAIN Listing[k]}
  BY DEF VolumeOf, Range
<1>4. VolumeOf(k) \subseteq Volume
  BY DEF Volume, Kind
<1>5. QED  BY <1>2, <1>3, <1>4

\* A page has the attachments of its positions.
LEMMA Pages ==
    TypeOK => /\ Page \subseteq VolumeOf(kind)
              /\ \A i \in DOMAIN Listing[kind] :
                     cursor < i /\ i <= cursor + PageSize => Listing[kind][i] \in Page
BY Listings DEF TypeOK, Page

\* A kind has a total exactly if its inventory is complete and every size known.
LEMMA Totals ==
    \A k \in Kind : KindTotal(k) # NoTotal <=> complete[k] /\ records[k] \subseteq sized
<1>1. \A x : <<x>> # <<>>
  OBVIOUS
<1>2. QED  BY <1>1 DEF KindTotal, NoTotal

-----------------------------------------------------------------------------
(* The steps.                                                               *)

LEMMA InitInvariant == Init => IInv
<1>1. ASSUME Init PROVE TypeOK
  <2>1. changes \in 0..MaxChanges /\ cursor \in Nat /\ cursor = 0
    BY <1>1, MaxChangesAssumption DEF Init
  <2>2. /\ stage = "instance" /\ kind \in Kind
        /\ pending = {} /\ sized = {} /\ errors = {}
        /\ records = [k \in Kind |-> {}] /\ complete = [k \in Kind |-> FALSE]
        /\ attached \subseteq Volume /\ stable = attached /\ seen = attached
    BY <1>1 DEF Init, Kind
  <2>3. QED  BY <2>1, <2>2 DEF TypeOK
<1>2. ASSUME Init PROVE InOrder
  BY <1>2 DEF Init, InOrder, Ahead, Kind
<1>3. ASSUME Init PROVE RecordsKept
  BY <1>3 DEF Init, RecordsKept, Counted, Kind
<1>4. ASSUME Init PROVE Covered /\ Summed
  BY <1>4 DEF Init, Covered, Summed, Kind
<1>5. QED  BY <1>1, <1>2, <1>3, <1>4 DEF IInv

\* Every step keeps the types: a page lists volumes of the kind being inventoried.
LEMMA StepTyped == IInv /\ [Next]_vars => TypeOK'
<1>0. SUFFICES ASSUME IInv, [Next]_vars PROVE TypeOK'
  OBVIOUS
<1>a. TypeOK /\ InOrder
  BY <1>0 DEF IInv
<1> USE DEF TypeOK, call, sums, cloud
<1>1. CASE GetInstance
  BY <1>a, <1>1 DEF GetInstance
<1>2. CASE ListPage
  <2>1. pending' \subseteq VolumeOf(kind)
    BY <1>a, <1>2, Pages DEF ListPage
  <2>2. cursor' \in Nat /\ (cursor' = 0 \/ cursor' < Len(Listing[kind]))
    BY <1>a, <1>2, Listings, PageSizeAssumption DEF ListPage, LastPage
  <2>3. stage' \in {"list", "get"}
    BY <1>a, <1>2 DEF ListPage
  <2>4. UNCHANGED <<kind, records, sized, complete, errors, attached, stable, seen, changes>>
    BY <1>2 DEF ListPage
  <2>5. QED  BY <1>a, <2>1, <2>2, <2>3, <2>4
<1>3. CASE ListFails
  <2>1. kind' \in Kind /\ cursor' = 0 /\ pending' = {} /\ stage' \in {"list", "totals"}
    BY <1>a, <1>3 DEF ListFails, NextKind, Kind
  <2>2. errors' \subseteq Kind \X (Volume \cup {"listing"})
    BY <1>a, <1>3 DEF ListFails
  <2>3. UNCHANGED <<records, sized, complete, attached, stable, seen, changes>>
    BY <1>3 DEF ListFails
  <2>4. QED  BY <1>a, <2>1, <2>2, <2>3
<1>4. ASSUME NEW v \in Volume, GetVolume(v) PROVE TypeOK'
  <2>1. pending' \subseteq VolumeOf(kind)
    BY <1>a, <1>4 DEF GetVolume
  <2>2. records' \in [Kind -> SUBSET Volume]
        /\ \A k \in Kind : records'[k] \subseteq VolumeOf(k)
    BY <1>a, <1>4 DEF GetVolume
  <2>3. sized' \subseteq Volume /\ errors' \subseteq Kind \X (Volume \cup {"listing"})
    BY <1>a, <1>4 DEF GetVolume
  <2>4. UNCHANGED <<stage, kind, cursor, complete, attached, stable, seen, changes>>
    BY <1>4 DEF GetVolume
  <2>5. QED  BY <1>a, <2>1, <2>2, <2>3, <2>4
<1>5. CASE VolumesDone
  <2>1. kind' \in Kind /\ cursor' = 0 /\ pending' = {} /\ stage' \in {"list", "totals"}
    BY <1>a, <1>5 DEF VolumesDone, NextKind, Kind
  <2>2. complete' \in [Kind -> BOOLEAN]
    BY <1>a, <1>5 DEF VolumesDone
  <2>3. UNCHANGED <<records, sized, errors, attached, stable, seen, changes>>
    BY <1>5 DEF VolumesDone
  <2>4. QED  BY <1>a, <2>1, <2>2, <2>3
<1>6. CASE Summarise
  BY <1>a, <1>6 DEF Summarise
<1>7. ASSUME NEW v \in Volume, Attach(v) PROVE TypeOK'
  <2>1. changes' \in 0..MaxChanges
    BY <1>a, <1>7, MaxChangesAssumption DEF Attach
  <2>2. QED  BY <1>a, <1>7, <2>1 DEF Attach
<1>8. ASSUME NEW v \in Volume, Detach(v) PROVE TypeOK'
  <2>1. changes' \in 0..MaxChanges
    BY <1>a, <1>8, MaxChangesAssumption DEF Detach
  <2>2. QED  BY <1>a, <1>8, <2>1 DEF Detach
<1>9. CASE UNCHANGED vars
  BY <1>a, <1>9 DEF vars
<1>10. QED
  BY <1>0, <1>1, <1>2, <1>3, <1>4, <1>5, <1>6, <1>7, <1>8, <1>9 DEF Next, Call, Tenancy

\* The kinds are inventoried in order, each once.
LEMMA StepOrder == IInv /\ [Next]_vars => InOrder'
<1>0. SUFFICES ASSUME IInv, [Next]_vars PROVE InOrder'
  OBVIOUS
<1>a. InOrder /\ TypeOK
  BY <1>0 DEF IInv
<1> USE DEF InOrder, Ahead, Kind, TypeOK, call, sums, cloud
<1>1. CASE GetInstance
  BY <1>a, <1>1 DEF GetInstance
<1>2. CASE ListPage
  BY <1>a, <1>2 DEF ListPage
<1>3. CASE ListFails
  BY <1>a, <1>3 DEF ListFails, NextKind
<1>4. ASSUME NEW v \in Volume, GetVolume(v) PROVE InOrder'
  <2>1. stage = "get" /\ stage' = "get" /\ UNCHANGED <<kind, cursor, complete>>
    BY <1>4 DEF GetVolume
  <2>2. \A k \in Kind : k # kind => records'[k] = records[k]
    BY <1>a, <1>4 DEF GetVolume
  <2>3. \A k \in Kind : <<k, "listing">> \in errors' <=> <<k, "listing">> \in errors
    BY <1>4, ErrorAssumption DEF GetVolume
  <2>4. QED  BY <1>a, <2>1, <2>2, <2>3
<1>5. CASE VolumesDone
  BY <1>a, <1>5 DEF VolumesDone, NextKind
<1>6. CASE Summarise
  BY <1>a, <1>6 DEF Summarise
<1>7. ASSUME NEW v \in Volume, Attach(v) PROVE InOrder'
  BY <1>a, <1>7 DEF Attach
<1>8. ASSUME NEW v \in Volume, Detach(v) PROVE InOrder'
  BY <1>a, <1>8 DEF Detach
<1>9. CASE UNCHANGED vars
  BY <1>a, <1>9 DEF vars
<1>10. QED
  BY <1>0, <1>1, <1>2, <1>3, <1>4, <1>5, <1>6, <1>7, <1>8, <1>9 DEF Next, Call, Tenancy

\* A volume is looked up once, and has a record whatever the answer.
LEMMA StepRecords == IInv /\ [Next]_vars => RecordsKept'
<1>0. SUFFICES ASSUME IInv, [Next]_vars PROVE RecordsKept'
  OBVIOUS
<1>a. RecordsKept /\ InOrder /\ TypeOK
  BY <1>0 DEF IInv
<1> USE DEF RecordsKept, Counted, call, sums, cloud
<1>1. CASE GetInstance
  BY <1>a, <1>1 DEF GetInstance
<1>2. CASE ListPage
  <2>1. stage = "list" /\ kind \in Ahead /\ records[kind] = {}
    BY <1>a, <1>2 DEF ListPage, InOrder, Ahead, TypeOK, Kind
  <2>2. pending' \subseteq seen
    BY <1>a, <1>2 DEF ListPage, TypeOK
  <2>3. UNCHANGED <<kind, records, sized, errors, seen>>
    BY <1>2 DEF ListPage
  <2>4. QED  BY <1>a, <2>1, <2>2, <2>3
<1>3. CASE ListFails
  <2>1. pending' = {} /\ UNCHANGED <<records, sized, seen>>
    BY <1>3 DEF ListFails
  <2>2. \A k \in Kind, v \in Volume : <<k, v>> \in errors' => <<k, v>> \in errors
    BY <1>3, ErrorAssumption DEF ListFails
  <2>3. QED  BY <1>a, <2>1, <2>2
<1>4. ASSUME NEW v \in Volume, GetVolume(v) PROVE RecordsKept'
  <2>1. /\ v \in pending /\ pending' = pending \ {v} /\ kind \in Kind
        /\ records' = [records EXCEPT ![kind] = @ \cup {v}]
        /\ UNCHANGED <<kind, seen>>
    BY <1>a, <1>4 DEF GetVolume, TypeOK
  <2>2. /\ records'[kind] = records[kind] \cup {v}
        /\ \A k \in Kind \ {kind} : records'[k] = records[k]
    BY <1>a, <2>1 DEF TypeOK
  <2>3. \A k \in Kind : v \notin records[k]
    <3>1. v \notin records[kind]
      BY <1>a, <2>1
    <3>2. \A k \in Kind : k # kind => v \notin records[k]
      BY <1>a, <2>1, ListingAssumption DEF TypeOK, Kind
    <3>3. QED  BY <3>1, <3>2
  <2>4. v \notin sized /\ \A k \in Kind : <<k, v>> \notin errors
    BY <1>a, <2>3 DEF Kind
  <2>5. Counted' = Counted \cup {v} /\ v \in seen
    BY <1>a, <2>1, <2>2 DEF Kind
  <2>6. pending' \cap records'[kind] = {}
    BY <1>a, <2>1, <2>2
  <2>7. sized' \subseteq sized \cup {v} /\ (<<kind, v>> \in errors' => sized' = sized)
    BY <1>4, <2>4, <2>1 DEF GetVolume
  <2>8. ASSUME NEW k \in Kind, NEW u \in Volume, <<k, u>> \in errors'
        PROVE  u \in records'[k] \ sized'
    <3>1. CASE <<k, u>> \in errors
      BY <1>a, <2>2, <2>4, <2>7, <3>1
    <3>2. CASE <<k, u>> \notin errors
      <4>1. k = kind /\ u = v
        BY <1>4, <2>8, <3>2 DEF GetVolume
      <4>2. QED  BY <2>2, <2>4, <2>7, <2>8, <4>1
    <3>3. QED  BY <3>1, <3>2
  <2>9. QED  BY <1>a, <2>1, <2>5, <2>6, <2>7, <2>8
<1>5. CASE VolumesDone
  BY <1>a, <1>5 DEF VolumesDone
<1>6. CASE Summarise
  BY <1>a, <1>6 DEF Summarise
<1>7. ASSUME NEW v \in Volume, Attach(v) PROVE RecordsKept'
  BY <1>a, <1>7 DEF Attach, TypeOK
<1>8. ASSUME NEW v \in Volume, Detach(v) PROVE RecordsKept'
  BY <1>a, <1>8 DEF Detach, TypeOK
<1>9. CASE UNCHANGED vars
  BY <1>a, <1>9 DEF vars
<1>10. QED
  BY <1>0, <1>1, <1>2, <1>3, <1>4, <1>5, <1>6, <1>7, <1>8, <1>9 DEF Next, Call, Tenancy

\* A page keeps what is attached when it is read, and the last page ends the
\* listing.
LEMMA StepCovered == IInv /\ [Next]_vars => Covered'
<1>0. SUFFICES ASSUME IInv, [Next]_vars PROVE Covered'
  OBVIOUS
<1>a. Covered /\ InOrder /\ TypeOK
  BY <1>0 DEF IInv
<1> USE DEF Covered, call, sums, cloud
<1>1. CASE GetInstance
  <2>1. cursor' = 0 /\ kind' = kind /\ kind \in Kind /\ stage' # "get"
        /\ UNCHANGED <<records, complete, stable>>
    BY <1>a, <1>1 DEF GetInstance, InOrder, TypeOK
  <2>2. \A i \in DOMAIN Listing[kind] : ~(i <= 0)
    BY <2>1, Listings
  <2>3. QED  BY <1>a, <2>1, <2>2
<1>2. CASE ListPage
  <2>1. stage = "list" /\ UNCHANGED <<kind, records, complete, stable>>
    BY <1>2 DEF ListPage
  <2>2. kind \in Kind /\ stable \subseteq attached /\ cursor \in Nat
    BY <1>a DEF TypeOK
  <2>3. \A i \in DOMAIN Listing[kind] :
            i <= cursor + PageSize /\ Listing[kind][i] \in stable => Listing[kind][i] \in pending'
    <3> SUFFICES ASSUME NEW i \in DOMAIN Listing[kind], i <= cursor + PageSize,
                        Listing[kind][i] \in stable
                 PROVE  Listing[kind][i] \in pending'
      OBVIOUS
    <3>1. CASE i <= cursor
      BY <1>a, <1>2, <2>1, <3>1 DEF ListPage
    <3>2. CASE ~(i <= cursor)
      <4>1. i \in Nat
        BY <2>2, Listings
      <4>2. Listing[kind][i] \in Page
        BY <1>a, <2>2, <3>2, <4>1, Pages
      <4>3. QED  BY <1>2, <2>2, <4>2 DEF ListPage
    <3>3. QED  BY <3>1, <3>2
  <2>4. CASE LastPage
    <3>1. stage' = "get"
      BY <1>2, <2>4 DEF ListPage
    <3>2. \A i \in DOMAIN Listing[kind] : i <= cursor + PageSize
      BY <2>2, <2>4, Listings, PageSizeAssumption DEF LastPage
    <3>3. stable \cap VolumeOf(kind) \subseteq pending'
      BY <2>2, <2>3, <3>2, Listings
    <3>4. QED  BY <1>a, <2>1, <3>1, <3>3
  <2>5. CASE ~LastPage
    <3>1. stage' = "list" /\ cursor' = cursor + PageSize
      BY <1>2, <2>1, <2>5 DEF ListPage
    <3>2. QED  BY <1>a, <2>1, <2>3, <3>1
  <2>6. QED  BY <2>4, <2>5
<1>3. CASE ListFails
  <2>1. stage' \in {"list", "totals"} /\ cursor' = 0 /\ kind' \in Kind
        /\ UNCHANGED <<records, complete, stable>>
    BY <1>3 DEF ListFails, NextKind, Kind
  <2>2. \A i \in DOMAIN Listing[kind'] : ~(i <= 0)
    BY <2>1, Listings
  <2>3. QED  BY <1>a, <2>1, <2>2
<1>4. ASSUME NEW v \in Volume, GetVolume(v) PROVE Covered'
  <2>1. /\ stage = "get" /\ v \in pending /\ pending' = pending \ {v}
        /\ records' = [records EXCEPT ![kind] = @ \cup {v}]
        /\ UNCHANGED <<stage, kind, complete, stable>>
    BY <1>4 DEF GetVolume
  <2>2. records'[kind] = records[kind] \cup {v} /\ \A k \in Kind : records[k] \subseteq records'[k]
    BY <1>a, <2>1 DEF TypeOK
  <2>3. QED  BY <1>a, <2>1, <2>2
<1>5. CASE VolumesDone
  <2>1. /\ stage = "get" /\ pending = {} /\ kind \in Kind
        /\ complete' = [complete EXCEPT ![kind] = TRUE]
        /\ stage' \in {"list", "totals"} /\ cursor' = 0 /\ kind' \in Kind
        /\ UNCHANGED <<records, stable>>
    BY <1>a, <1>5 DEF VolumesDone, NextKind, Kind, TypeOK
  <2>2. \A k \in Kind : complete'[k] => complete[k] \/ k = kind
    BY <1>a, <2>1 DEF TypeOK
  <2>3. \A i \in DOMAIN Listing[kind'] : ~(i <= 0)
    BY <2>1, Listings
  <2>4. \A k \in Kind : complete'[k] => stable \cap VolumeOf(k) \subseteq records[k]
    BY <1>a, <2>1, <2>2
  <2>5. QED  BY <2>1, <2>3, <2>4
<1>6. CASE Summarise
  BY <1>a, <1>6 DEF Summarise
<1>7. ASSUME NEW v \in Volume, Attach(v) PROVE Covered'
  BY <1>a, <1>7 DEF Attach
<1>8. ASSUME NEW v \in Volume, Detach(v) PROVE Covered'
  BY <1>a, <1>8 DEF Detach
<1>9. CASE UNCHANGED vars
  BY <1>a, <1>9 DEF vars
<1>10. QED
  BY <1>0, <1>1, <1>2, <1>3, <1>4, <1>5, <1>6, <1>7, <1>8, <1>9 DEF Next, Call, Tenancy

\* The storage total is drawn once, from records that do not change any more.
LEMMA StepSummed == IInv /\ [Next]_vars => Summed'
<1>0. SUFFICES ASSUME IInv, [Next]_vars PROVE Summed'
  OBVIOUS
<1>a. Summed
  BY <1>0 DEF IInv
<1> USE DEF Summed, call, sums, cloud
<1>1. CASE GetInstance
  BY <1>a, <1>1 DEF GetInstance
<1>2. CASE ListPage
  BY <1>a, <1>2 DEF ListPage
<1>3. CASE ListFails
  BY <1>a, <1>3 DEF ListFails, NextKind
<1>4. ASSUME NEW v \in Volume, GetVolume(v) PROVE Summed'
  BY <1>a, <1>4 DEF GetVolume
<1>5. CASE VolumesDone
  BY <1>a, <1>5 DEF VolumesDone, NextKind
<1>6. CASE Summarise
  <2>1. \A k \in Kind : KindTotal(k)' = KindTotal(k)
    BY <1>6 DEF Summarise, KindTotal
  <2>2. stage' = "done" /\ storage' = IF \A k \in Kind : KindTotal(k) # NoTotal
                                      THEN StorageTotal ELSE NoTotal
    BY <1>6 DEF Summarise, StorageTotal
  <2>3. StorageTotal' = StorageTotal
    BY <2>1 DEF StorageTotal, Kind
  <2>4. QED  BY <2>1, <2>2, <2>3
<1>7. ASSUME NEW v \in Volume, Attach(v) PROVE Summed'
  BY <1>a, <1>7 DEF Attach, StorageTotal, KindTotal
<1>8. ASSUME NEW v \in Volume, Detach(v) PROVE Summed'
  BY <1>a, <1>8 DEF Detach, StorageTotal, KindTotal
<1>9. CASE UNCHANGED vars
  BY <1>a, <1>9 DEF vars, KindTotal, StorageTotal
<1>10. QED
  BY <1>0, <1>1, <1>2, <1>3, <1>4, <1>5, <1>6, <1>7, <1>8, <1>9 DEF Next, Call, Tenancy

-----------------------------------------------------------------------------
(* The theorems.                                                            *)

\* The invariant holds however volumes come and go and whatever request fails.
THEOREM Invariant == Spec => []IInv
<1>1. IInv /\ [Next]_vars => IInv'
  BY StepTyped, StepOrder, StepRecords, StepCovered, StepSummed DEF IInv
<1>2. QED  BY InitInvariant, <1>1, PTL DEF Spec

\* Every variable keeps its type; the listing ends with its last page
\* (collector.go:490-518, 582-585).
THEOREM TypeCorrect == Spec => []TypeOK
<1>1. IInv => TypeOK
  BY DEF IInv
<1>2. QED  BY Invariant, <1>1, PTL

\* A storage total covers what stayed attached and nothing that never was, over any
\* number of pages and changes (collector.go:490-518, compute.go:177-187).
THEOREM TotalCovers == Spec => []TotalIsExact
<1>1. IInv => TotalIsExact
  <2>0. SUFFICES ASSUME IInv, storage # NoTotal
                 PROVE  /\ stable \subseteq Counted /\ Counted \subseteq seen
                        /\ Counted \subseteq sized
                        /\ storage = <<Sum(records["boot"]) + Sum(records["block"])>>
    BY DEF TotalIsExact
  <2>1. storage = StorageTotal /\ \A k \in Kind : KindTotal(k) # NoTotal
    BY <2>0 DEF IInv, Summed
  <2>2. \A k \in Kind : complete[k] /\ records[k] \subseteq sized
    BY <2>1, Totals
  <2>3. Counted \subseteq sized
    BY <2>2 DEF Counted, Kind
  <2>4. stable \subseteq Counted
    BY <2>0, <2>2 DEF IInv, Covered, TypeOK, Counted, Volume, Kind
  <2>5. Counted \subseteq seen
    BY <2>0 DEF IInv, RecordsKept
  <2>6. KindTotal("boot")[1] = Sum(records["boot"])
        /\ KindTotal("block")[1] = Sum(records["block"])
    BY <2>2 DEF KindTotal, Kind
  <2>7. QED  BY <2>1, <2>3, <2>4, <2>5, <2>6 DEF StorageTotal
<1>2. QED  BY Invariant, <1>1, PTL

\* An instance with an error of its own shows no storage total (collector.go:456-469,
\* compute.go:177-187).
THEOREM NoTotalWithErrors == Spec => []ErrorsHideTheTotal
<1>1. IInv => ErrorsHideTheTotal
  <2>0. SUFFICES ASSUME IInv, stage = "done", NEW e \in errors PROVE storage = NoTotal
    BY DEF ErrorsHideTheTotal
  <2>1. PICK k \in Kind, x \in Volume \cup {"listing"} : e = <<k, x>>
    BY <2>0 DEF IInv, TypeOK
  <2>2. ~(complete[k] /\ records[k] \subseteq sized)
    <3>1. CASE x = "listing"
      BY <2>0, <2>1, <3>1 DEF IInv, InOrder, Ahead
    <3>2. CASE x \in Volume
      BY <2>0, <2>1, <3>2 DEF IInv, RecordsKept
    <3>3. QED  BY <3>1, <3>2
  <2>3. QED  BY <2>0, <2>2, Totals DEF IInv, Summed
<1>2. QED  BY Invariant, <1>1, PTL

\* A missing total has its error or its volume without a size, and a kind is complete
\* unless its listing failed (collector.go:456-458).
THEOREM MissingExplained == Spec => []MissingTotalIsExplained
<1>1. IInv => MissingTotalIsExplained
  <2>0. SUFFICES ASSUME IInv, stage = "done"
                 PROVE  /\ storage = NoTotal => errors # {} \/ ~(Counted \subseteq sized)
                        /\ \A k \in Kind : ~complete[k] <=> <<k, "listing">> \in errors
    BY DEF MissingTotalIsExplained
  <2>1. \A k \in Kind : ~complete[k] <=> <<k, "listing">> \in errors
    BY <2>0 DEF IInv, InOrder, Ahead
  <2>2. ASSUME storage = NoTotal, errors = {}, Counted \subseteq sized PROVE FALSE
    <3>1. \A k \in Kind : KindTotal(k) # NoTotal
      BY <2>1, <2>2, Totals DEF Counted, Kind
    <3>2. storage = StorageTotal
      BY <2>0, <3>1 DEF IInv, Summed
    <3>3. \A x : <<x>> # <<>>
      OBVIOUS
    <3>4. QED  BY <2>2, <3>2, <3>3 DEF StorageTotal, NoTotal
  <2>3. QED  BY <2>1, <2>2
<1>2. QED  BY Invariant, <1>1, PTL

\* A complete inventory keeps what stayed attached, and an unreadable volume keeps a
\* record without a size (collector.go:528-532, 596-600).
THEOREM AttachmentsRetained == Spec => []KnownAttachmentRetained
<1>1. IInv => KnownAttachmentRetained
  BY DEF IInv, Covered, RecordsKept, KnownAttachmentRetained
<1>2. QED  BY Invariant, <1>1, PTL
=============================================================================
