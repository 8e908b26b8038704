----------------------------- MODULE ReportFiles -----------------------------
(***************************************************************************)
(* From records to files: what Collect appends to the report, the counts of *)
(* Finalize (internal/model/model.go), the summary of an instance           *)
(* (internal/model/compute.go), and the rows that internal/report/writer.go *)
(* makes of them for the five CSV files and the regional totals of the      *)
(* Markdown. The numbers reach the files along different ways: counts from  *)
(* Finalize, volume counts from the summaries, rows from the records.       *)
(*                                                                          *)
(* A listing is what getBootVolumes or getBlockVolumes returned: whether it *)
(* is complete, and its volumes, each with its size or NoSize. The order of *)
(* the records is the business of ReportOrder.                              *)
(***************************************************************************)
EXTENDS Integers, Sequences, FiniteSets, Functions, SequencesExt

CONSTANTS
    Region,
    BootListing, BlockListing,  \* the listings a lookup may return
    MaxDatabases, MaxInstances, \* bounds on the records of a report,
    MaxErrors                   \* and on the errors of each half of Collect

NoSize == -1
None   == "none"

Ids(listing) == {v.id : v \in ToSet(listing.volumes)}

ASSUME RegionAssumption == IsFiniteSet(Region)
ASSUME BoundsAssumption == MaxDatabases \in Nat /\ MaxInstances \in Nat /\ MaxErrors \in Nat

\* A listing names each attached volume once, and a boot volume is no block volume.
ASSUME ListingAssumption ==
    /\ \A l \in BootListing \cup BlockListing :
           /\ l.complete \in BOOLEAN
           /\ l.volumes \in Seq(ToSet(l.volumes))
           /\ \A v \in ToSet(l.volumes) : v.size \in Nat \cup {NoSize} /\ v.id # None
           /\ \A m, n \in DOMAIN l.volumes : l.volumes[m].id = l.volumes[n].id => m = n
    /\ \A boot \in BootListing, block \in BlockListing : Ids(boot) \cap Ids(block) = {}

VARIABLES
    stage,      \* the next step: "databases", "instances", "finalize", "marshal", "done"
    scanned,    \* the regions scanned
    databases,  \* the region of each database record
    instances,  \* the instance records
    errors,     \* the region of each collection error: each has one
    counts,     \* the counts of the report
    files       \* the rows of the files

vars == <<stage, scanned, databases, instances, errors, counts, files>>

Lists(S, max)   == UNION {[1..n -> S] : n \in 0..max}
Times(x, list)  == Cardinality({n \in DOMAIN list : list[n] = x})

Record == [region : Region, boot : BootListing, block : BlockListing]

\* A boot volume boots one instance; a block volume may be shared in its region.
Instances == {list \in Lists(Record, MaxInstances) :
    \A i, j \in DOMAIN list : i # j =>
        /\ Ids(list[i].boot) \cap Ids(list[j].boot) = {}
        /\ Ids(list[i].block) \cap Ids(list[j].block) # {} => list[i].region = list[j].region}

Init == /\ stage = "databases"
        /\ scanned \in SUBSET Region \ {{}}
        /\ databases = <<>> /\ instances = <<>> /\ errors = <<>>
        /\ counts = [databases |-> 0, instances |-> 0, boots |-> 0, blocks |-> 0, errors |-> 0]
        /\ files = [databases |-> <<>>, compute |-> <<>>, boot |-> <<>>, block |-> <<>>,
                    failed |-> <<>>, totals |-> <<>>]

-----------------------------------------------------------------------------
(* Collect.                                                                 *)

AppendDatabases ==
    /\ stage = "databases"
    /\ databases' \in Lists(scanned, MaxDatabases)
    /\ errors' \in Lists(scanned, MaxErrors)
    /\ stage' = "instances"
    /\ UNCHANGED <<scanned, instances, counts, files>>

\* The errors of a lookup that yields a record: one for each listing that failed.
ListingErrors(i) == (IF i.boot.complete  THEN <<>> ELSE <<i.region>>) \o
                    (IF i.block.complete THEN <<>> ELSE <<i.region>>)

ErrorsOf(list) == FlattenSeq([n \in DOMAIN list |-> ListingErrors(list[n])])

\* Volumes that could not be read, lookups and searches that failed add more.
AppendInstances ==
    /\ stage = "instances"
    /\ \E list \in Instances, more \in Lists(scanned, MaxErrors) :
           /\ \A n \in DOMAIN list : list[n].region \in scanned
           /\ instances' = list
           /\ errors' = errors \o ErrorsOf(list) \o more
    /\ stage' = "finalize"
    /\ UNCHANGED <<scanned, databases, counts, files>>

Counts ==
    [databases |-> Len(databases),
     instances |-> Len(instances),
     boots     |-> SumFunction([n \in DOMAIN instances |-> Len(instances[n].boot.volumes)]),
     blocks    |-> SumFunction([n \in DOMAIN instances |-> Len(instances[n].block.volumes)]),
     errors    |-> Len(errors)]

Finalize == /\ stage = "finalize"
            /\ counts' = Counts
            /\ stage' = "marshal"
            /\ UNCHANGED <<scanned, databases, instances, errors, files>>

-----------------------------------------------------------------------------
(* The summary of an instance.                                              *)

KindTotal(listing) ==
    LET sizes == [n \in DOMAIN listing.volumes |-> listing.volumes[n].size]
    IN  IF listing.complete /\ NoSize \notin ToSet(sizes) THEN SumFunction(sizes) ELSE NoSize

StorageCompleteOfListings(i) == i.boot.complete /\ i.block.complete

StorageComplete(i) == KindTotal(i.boot) # NoSize /\ KindTotal(i.block) # NoSize

\* Where the storage is not complete the total is nil.
StorageTotal(i) == IF KindTotal(i.boot) # NoSize /\ KindTotal(i.block) # NoSize
                   THEN KindTotal(i.boot) + KindTotal(i.block) ELSE NoSize

-----------------------------------------------------------------------------
(* The files. A row names the instance and the volume it is about.          *)

VolumeRows(n, volumes) ==
    [m \in DOMAIN volumes |-> [instance |-> n, volume |-> volumes[m].id]]

ComputeRowsByBoot ==
    FlattenSeq([n \in DOMAIN instances |->
        LET i == instances[n] IN
        IF i.boot.volumes = <<>> THEN <<[instance |-> n, volume |-> None]>>
        ELSE VolumeRows(n, i.boot.volumes \o i.block.volumes)])

\* The combined CSV: a row per volume, or one for an instance that has none.
ComputeRows ==
    FlattenSeq([n \in DOMAIN instances |->
        LET volumes == instances[n].boot.volumes \o instances[n].block.volumes IN
        IF volumes = <<>> THEN <<[instance |-> n, volume |-> None]>>
        ELSE VolumeRows(n, volumes)])

AttachedRows(kind) ==
    FlattenSeq([n \in DOMAIN instances |-> VolumeRows(n, instances[n][kind].volumes)])

In(r) == {n \in DOMAIN instances : instances[n].region = r}

\* A line of the regional totals.
RegionTotal(r) ==
    [databases |-> Times(r, databases),
     instances |-> Cardinality(In(r)),
     boots     |-> SumFunction([n \in In(r) |-> Len(instances[n].boot.volumes)]),
     blocks    |-> SumFunction([n \in In(r) |-> Len(instances[n].block.volumes)]),
     storage   |-> IF \A n \in In(r) : StorageComplete(instances[n])
                   THEN SumFunction([n \in In(r) |-> StorageTotal(instances[n])]) ELSE NoSize,
     errors    |-> Times(r, errors)]

RegionsWithRecords == ToSet(databases) \cup {i.region : i \in ToSet(instances)}

\* The regions that have a line: scanned, or those of a record or of an error.
Regions == scanned \cup ToSet(databases) \cup {i.region : i \in ToSet(instances)}
                   \cup ToSet(errors)

Files == [databases |-> databases,
          compute   |-> ComputeRows,
          boot      |-> AttachedRows("boot"),
          block     |-> AttachedRows("block"),
          failed    |-> errors,
          totals    |-> [r \in Regions |-> RegionTotal(r)]]

Marshal == /\ stage = "marshal"
           /\ files' = Files
           /\ stage' = "done"
           /\ UNCHANGED <<scanned, databases, instances, errors, counts>>

Next == AppendDatabases \/ AppendInstances \/ Finalize \/ Marshal

Spec == Init /\ [][Next]_vars

-----------------------------------------------------------------------------
\* A summary that says its storage is complete has a total: marshalMarkdown goes
\* through the pointer without another look (writer.go:530-531).
TypeOK ==
    /\ stage \in {"databases", "instances", "finalize", "marshal", "done"}
    /\ scanned \subseteq Region
    /\ databases \in Lists(scanned, MaxDatabases)
    /\ ToSet(instances) \subseteq Record
    /\ ToSet(errors) \subseteq scanned
    /\ \A x \in DOMAIN counts : counts[x] \in Nat
    /\ DOMAIN files.totals \subseteq Region
    /\ \A i \in ToSet(instances) : StorageComplete(i) => StorageTotal(i) \in Nat

\* The CSV files tell what the counts tell: a row per database and per error;
\* each volume of an instance once in the file of its kind and once in the
\* combined file, which has one more row for an instance without volumes and for
\* no other (README.md "CSV files"; writer.go:277-297, 400-415).
RowsMatchRecords ==
    stage = "done" =>
        /\ Len(files.databases) = counts.databases
        /\ Len(files.failed) = counts.errors
        /\ Len(files.boot) = counts.boots
        /\ Len(files.block) = counts.blocks
        /\ \A row \in ToSet(files.compute \o files.boot \o files.block) :
               row.volume # None => Times(row, files.compute) = 1
                                    /\ Times(row, files.boot \o files.block) = 1
        /\ \A n \in 1..counts.instances :
               Times([instance |-> n, volume |-> None], files.compute) =
                   IF \E row \in ToSet(files.boot \o files.block) : row.instance = n
                   THEN 0 ELSE 1

Column(c) == SumFunction([r \in DOMAIN files.totals |-> files.totals[r][c]])

\* The lines of the regional totals add up to the counts above them: no record
\* and no error is in a region without a line, or in two (writer.go:498-545).
RegionsAddUp ==
    stage = "done" => \A c \in DOMAIN counts : Column(c) = counts[c]

\* Each of the two attached-volume files has one row per volume (README.md:499:
\* "dedicated one-row-per-volume inventories").
OneRowPerVolume ==
    \A kind \in {"boot", "block"} :
        \A m, n \in DOMAIN files[kind] :
            files[kind][m].volume = files[kind][n].volume => m = n
=============================================================================
