--------------------------- MODULE ComputeInstance ---------------------------
(***************************************************************************)
(* One call of getComputeInstance of internal/oci/collector.go: the lookup  *)
(* of an instance, the paginated listing of its boot and then of its block  *)
(* volume attachments, the lookup of each attached volume, and the storage  *)
(* totals NewComputeInstanceRecord draws from them. Meanwhile volumes are   *)
(* attached to the instance and detached from it.                           *)
(*                                                                          *)
(* getBootVolumes and getBlockVolumes are the same code over two kinds of   *)
(* volume. A call that fails, for whatever reason, has an error; the reason *)
(* may be the deadline.                                                     *)
(***************************************************************************)
EXTENDS Naturals, Sequences, FiniteSetsExt, Functions

CONSTANTS
    Listing,     \* for each kind, the attachments in the order they are listed
    PageSize,    \* attachments per page (1000 in the requests)
    Size,        \* SizeInGBs of each volume
    MaxChanges   \* bound on the attachments and detachments during the call

Kind      == {"boot", "block"}
VolumeOf(k) == Range(Listing[k])
Volume    == VolumeOf("boot") \cup VolumeOf("block")

ASSUME ListingAssumption ==
    /\ Listing \in [Kind -> Seq(Volume)]
    /\ \A k \in Kind : IsInjective(Listing[k])
    /\ VolumeOf("boot") \cap VolumeOf("block") = {}
ASSUME ErrorAssumption == "listing" \notin Volume
ASSUME PageSizeAssumption == PageSize \in Nat \ {0}
ASSUME SizeAssumption == Size \in [Volume -> Nat]
ASSUME MaxChangesAssumption == MaxChanges \in Nat

VARIABLES
    stage,       \* "instance", "list", "get", "totals", "done" or "failed"
    kind,        \* the kind being inventoried
    cursor,      \* how many attachments the pages read so far have listed
    pending,     \* the attached volumes still to be looked up
    records,     \* for each kind, the volumes that have a record
    sized,       \* the volumes whose record has a size
    complete,    \* for each kind, VolumeInventoryComplete
    errors,      \* the errors: <<kind, "listing">> or <<kind, volume>>
    total,       \* for each kind, the pointer to the total of the summary
    storage,     \* AttachedStorageTotalSizeInGBs, a pointer too
    attached,    \* the volumes attached to the instance now
    stable,      \* those attached at every moment since the call began
    seen,        \* those attached at some moment since the call began
    changes      \* attachments and detachments so far

call == <<stage, kind, cursor, pending, records, sized, complete, errors>>
sums == <<total, storage>>
cloud == <<attached, stable, seen, changes>>
vars == <<call, sums, cloud>>

\* A pointer is nil or has one number.
NoTotal == <<>>

Sum(S) == MapThenSumSet(LAMBDA v : Size[v], S)

Init == /\ stage = "instance"
        /\ kind = "boot"
        /\ cursor = 0
        /\ pending = {}
        /\ records = [k \in Kind |-> {}]
        /\ sized = {}
        /\ complete = [k \in Kind |-> FALSE]
        /\ errors = {}
        /\ total = [k \in Kind |-> NoTotal]
        /\ storage = NoTotal
        /\ attached \in SUBSET Volume
        /\ stable = attached
        /\ seen = attached
        /\ changes = 0

-----------------------------------------------------------------------------
(* The call.                                                                *)

\* GetInstance; its failure is the "fatal" result of the pool.
GetInstance == /\ stage = "instance"
               /\ stage' \in {"list", "failed"}
               /\ UNCHANGED <<kind, cursor, pending, records, sized, complete, errors,
                              sums, cloud>>

NextKindAgain == /\ kind' = "block"
                 /\ cursor' = 0
                 /\ stage' = "list"

\* getBlockVolumes follows getBootVolumes, whatever the outcome of the latter.
NextKind == /\ kind' = "block"
            /\ cursor' = 0
            /\ stage' = IF kind = "boot" THEN "list" ELSE "totals"

LastPageOffByOne == cursor + PageSize > Len(Listing[kind])

LastPage == cursor + PageSize >= Len(Listing[kind])

Page == {Listing[kind][i] : i \in {j \in DOMAIN Listing[kind] :
                                       cursor < j /\ j <= cursor + PageSize}}

ListFirstPage ==
    /\ stage = "list"
    /\ pending' = pending \cup (Page \cap attached)
    /\ stage' = "get"
    /\ UNCHANGED <<kind, cursor, records, sized, complete, errors, sums, cloud>>

\* A page: the attachments on it that are ATTACHED are kept.
ListPage ==
    /\ stage = "list"
    /\ pending' = pending \cup (Page \cap attached)
    /\ IF LastPage THEN stage' = "get" /\ UNCHANGED cursor
                   ELSE cursor' = cursor + PageSize /\ UNCHANGED stage
    /\ UNCHANGED <<kind, records, sized, complete, errors, sums, cloud>>

ListFailsSilently ==
    /\ stage = "list"
    /\ pending' = {}
    /\ NextKind
    /\ UNCHANGED <<records, sized, complete, errors, sums, cloud>>

\* A client or a page that fails: nil, false and the error, without what the
\* pages before it listed.
ListFails ==
    /\ stage = "list"
    /\ pending' = {}
    /\ errors' = errors \cup {<<kind, "listing">>}
    /\ NextKind
    /\ UNCHANGED <<records, sized, complete, sums, cloud>>

GetVolumeDroppingFailed(v) ==
    /\ stage = "get"
    /\ v \in pending
    /\ pending' = pending \ {v}
    /\ \/ /\ records' = [records EXCEPT ![kind] = @ \cup {v}]
          /\ sized' \in {sized, sized \cup {v}}
          /\ UNCHANGED errors
       \/ errors' = errors \cup {<<kind, v>>} /\ UNCHANGED <<records, sized>>
    /\ UNCHANGED <<stage, kind, cursor, complete, sums, cloud>>

\* An attachment has a record even if its volume cannot be read: an unavailable
\* one, with no size. The service may also give a volume without a size.
GetVolume(v) ==
    /\ stage = "get"
    /\ v \in pending
    /\ pending' = pending \ {v}
    /\ records' = [records EXCEPT ![kind] = @ \cup {v}]
    /\ \/ sized' \in {sized, sized \cup {v}} /\ UNCHANGED errors
       \/ errors' = errors \cup {<<kind, v>>} /\ UNCHANGED sized
    /\ UNCHANGED <<stage, kind, cursor, complete, sums, cloud>>

VolumesDone ==
    /\ stage = "get"
    /\ pending = {}
    /\ complete' = [complete EXCEPT ![kind] = TRUE]
    /\ NextKind
    /\ UNCHANGED <<pending, records, sized, errors, sums, cloud>>

KindTotalOfKnown(k) == IF complete[k] THEN <<Sum(records[k] \cap sized)>> ELSE NoTotal

\* sumBootVolumeSizes, sumBlockVolumeSizes: nil unless every size is known.
KindTotal(k) == IF complete[k] /\ records[k] \subseteq sized
                THEN <<Sum(records[k])>> ELSE NoTotal

\* NewComputeInstanceRecord.
Summarise ==
    /\ stage = "totals"
    /\ total' = [k \in Kind |-> KindTotal(k)]
    /\ storage' = IF \A k \in Kind : KindTotal(k) # NoTotal
                  THEN <<KindTotal("boot")[1] + KindTotal("block")[1]>> ELSE NoTotal
    /\ stage' = "done"
    /\ UNCHANGED <<kind, cursor, pending, records, sized, complete, errors, cloud>>

-----------------------------------------------------------------------------
(* The tenancy.                                                             *)

Attach(v) == /\ changes < MaxChanges
             /\ v \notin attached
             /\ attached' = attached \cup {v}
             /\ seen' = seen \cup {v}
             /\ changes' = changes + 1
             /\ UNCHANGED <<call, sums, stable>>

Detach(v) == /\ changes < MaxChanges
             /\ v \in attached
             /\ attached' = attached \ {v}
             /\ stable' = stable \ {v}
             /\ changes' = changes + 1
             /\ UNCHANGED <<call, sums, seen>>

Call == \/ GetInstance
        \/ ListPage \/ ListFails
        \/ \E v \in Volume : GetVolume(v)
        \/ VolumesDone
        \/ Summarise

Tenancy == \E v \in Volume : Attach(v) \/ Detach(v)

Next == Call \/ Tenancy

Spec == Init /\ [][Next]_vars

\* Every request ends; nothing is assumed of the tenancy.
FairSpec == Spec /\ WF_vars(Call)

-----------------------------------------------------------------------------
TypeOK ==
    /\ stage \in {"instance", "list", "get", "totals", "done", "failed"}
    /\ kind \in Kind
    /\ cursor \in Nat /\ (cursor = 0 \/ cursor < Len(Listing[kind]))
    /\ pending \subseteq VolumeOf(kind)
    /\ records \in [Kind -> SUBSET Volume]
    /\ \A k \in Kind : records[k] \subseteq VolumeOf(k)
    /\ sized \subseteq Volume
    /\ complete \in [Kind -> BOOLEAN]
    /\ errors \subseteq Kind \X (Volume \cup {"listing"})
    /\ attached \subseteq Volume /\ stable \subseteq attached /\ attached \subseteq seen
    /\ seen \subseteq Volume
    /\ changes \in 0..MaxChanges

Counted == records["boot"] \cup records["block"]

\* A storage total covers every volume that stayed attached during the call and
\* none that never was, over every page, however volumes come and go meanwhile;
\* it is the sum of their sizes (collector.go:490-518, compute.go:177-187).
TotalIsExact ==
    storage # NoTotal =>
        /\ stable \subseteq Counted /\ Counted \subseteq seen
        /\ Counted \subseteq sized
        /\ storage = <<Sum(records["boot"]) + Sum(records["block"])>>

\* An instance with an error of its own shows no storage total: strict mode, which
\* counts errors, and the summary, which hides totals, agree (docs/SDD.md "Never
\* present a partial storage total as complete").
ErrorsHideTheTotal == stage = "done" /\ errors # {} => storage = NoTotal

\* A missing total is explained: by a recorded error, or by a volume for which
\* the service gave no size; and a kind whose inventory is not complete has its
\* listing error, whatever happened to the other kind (collector.go:456-458).
MissingTotalIsExplained ==
    stage = "done" =>
        /\ storage = NoTotal => errors # {} \/ ~(Counted \subseteq sized)
        /\ \A k \in Kind : ~complete[k] <=> <<k, "listing">> \in errors

\* A complete inventory has a record for each volume attached throughout, and a
\* volume that could not be read keeps a record without a size (README
\* "Compute and Block Volume"; collector.go:528-532, 596-600).
KnownAttachmentRetained ==
    /\ \A k \in Kind : complete[k] => stable \cap VolumeOf(k) \subseteq records[k]
    /\ \A k \in Kind, v \in Volume :
           <<k, v>> \in errors => v \in records[k] \ sized

\* The call ends, whatever the service answers.
CallEnds == <>(stage \in {"done", "failed"})
==============================================================================
