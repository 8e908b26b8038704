# Verification of oci-adb-inventory

TLA+ specifications of the collector in this repository, the TLC runs that check
them on small instances, and proofs that hold for every size. All definitions are
translated from the Go sources; `PROJECT.json` gives, for each definition, the
lines it stands for.

## The system

`oci-adb-inventory` is a command that runs once. It finds the Autonomous
Databases and Compute instances of a tenancy region by region, reads each one's
details, and writes a timestamped set of reports.

| Component | State | Operations | Interaction |
|---|---|---|---|
| CLI (`cmd/oci-adb-inventory/main.go`) | configuration, context with deadline, exit status | `run` | calls the collector, then the writer; checks the deadline after the write |
| Configuration (`internal/config`) | `Config` | `Parse`, `Validate`, `parseRegions` | read by all |
| Authentication (`internal/oci/provider.go`) | none | `configurationProvider` | gives provider and tenancy to the collector |
| Collector (`internal/oci/collector.go`) | the report under construction | `Collect`, `listRegions`, `selectRegions` | runs four pools one after the other |
| Worker pools (same file) | goroutines, channel `jobs`, channel `results`, wait group | `searchAllRegions`, `getAllDatabases`, `getAllComputeInstances` | goroutines share the channels; the caller consumes |
| Regional search | pages | `searchRegion` | job of a search pool |
| Enrichment | attachments, volume records | `getDatabase`, `getComputeInstance`, `getBootVolumes`, `getBlockVolumes` | jobs of the detail pools |
| Client caches | mutex and map per service | `client` | shared by the workers |
| Errors | none | `collectionError`, `diagnoseServiceError` | entries of the report |
| Model (`internal/model`) | the report | summaries, storage totals, tag audit, `Finalize` | pure functions of the service's answers |
| Writer (`internal/report/writer.go`) | seven files, temporary files | `Write`, `writeFileAtomically`, `marshalMarkdown` | the file system |

What is hard here: the shutdown of the pools, where the order of four kinds of
goroutine keeps a send from a closed channel; the deadline, which stops the
producers and leaves everything else running; failures that must stay local to
a region, a resource or a volume and still be visible in the totals and in the
exit status; volumes that come and go between two calls about them; a report of
seven files that are published one at a time, and whose numbers come from
separate loops over the same records; maps of tags, which Go visits in any
order; caches that all workers of a pool share. `PROJECT.json` lists these hazards
with their lines and the properties that watch them.

What makes each part correct:

* a pool answers each job once, answers all of them unless the deadline passed,
  and returns with no goroutine left;
* a run never reports success for an incomplete inventory in strict mode, nor
  after losing references to the deadline; a resource is never lost in silence;
* a storage total is the sum over volumes that were attached, or is absent;
* each published file is whole and every link of a published summary resolves; a
  set is one report's unless two runs report within one second, when it may mix
  both; the rows, counts and totals of a report agree;
* workers that share a client cache share one client per region, and none of them
  waits for good;
* attribution names the tag it comes from, and an age counts complete days.

## Modules

| Module | Models | State and actions |
|---|---|---|
| `JobSettlement` | what a pool promises its caller | the jobs, which of them have a record or a failure; `Record`, `Fail`, `Return`, `Expire` |
| `WorkerPool` | the pool itself | one `pc` per worker, the producer's position, the two channels, the caller's slices; an action for each channel operation or call |
| `WorkerPoolProofs` | | the inductive invariant and the theorems about `WorkerPool` |
| `Inventory` | `run` and `Collect` | `stage` is the point of the program; the report and the references; the current pool, used through `JobSettlement` |
| `InventoryProofs` | | the inductive invariant and the theorems about `Inventory` |
| `ComputeInstance` | `getComputeInstance` and the totals of `NewComputeInstanceRecord` | the point of the call, the volumes pending and recorded; the tenancy that attaches and detaches volumes meanwhile |
| `ComputeInstanceProofs` | | the inductive invariant and the theorems about `ComputeInstance` |
| `ReportWriter` | `Write` and `writeFileAtomically` | one `pc` per run that reports into the directory in the same second, its temporary file, the directory; an action per file operation, `Kill` |
| `ReportWriterProofs` | | the inductive invariant and the theorems about `ReportWriter` |
| `ReportOrder` | the comparators of `Finalize` | two runs with the same records in two orders of arrival; `Insert` is a round of `sort.Slice`'s insertion sort |
| `ReportOrderProofs` | | lemmas about insertion and the comparator, the inductive invariant and the theorems about `ReportOrder` |
| `ClientMemo` | what a client cache promises its workers | the client of each region, who asks, what was answered; `Ask`, `Make`, `Answer`, `Refuse` |
| `ClientCache` | `client` of the three caches | one `pc` per worker, the mutex, the map, the region each client is set to; an action for each step that another worker could come between |
| `ClientCacheProofs` | | the inductive invariant and the theorems about `ClientCache` |
| `ReportFiles` | the counts of `Finalize`, the summary's totals, the rows of the five CSV files, the regional totals | the records of a report, the counts, the files; `AppendDatabases`, `AppendInstances`, `Finalize`, `Marshal` |
| `ReportFilesProofs` | | lemmas about sums, multiplicities and flattened lists, the inductive invariant and the theorems about `ReportFiles` |
| `TagAudit` | `NewOracleTagAuditFromTags` | the tags of a resource, the variables of the function; `FindNamespace`, `FallBack`, `Parse` |
| `TagAuditProofs` | | lemmas about the division of a `Duration`, the inductive invariant and the theorems about `TagAudit` |
| `MCWorkerPool`, `MCInventory`, `MCComputeInstance`, `MCReportWriter`, `MCReportOrder`, `MCClientCache`, `MCReportFiles`, `MCTagAudit` | the constants of the TLC runs | |

**WorkerPool.** The three pool functions differ in what a job is, in the capacity
of `results` (a slot per region for the searches, one per worker for the
lookups) and in what they do with a result. `Init` chooses the number of jobs and
either capacity. A job is its position in the slice. `jobs` is unbuffered, so
`Dispatch` is the producer's send and the worker's receive in one step; the
producer's `select` may pick either case when both are ready, so `Dispatch` stays
possible after the deadline. `returned` is the end of the function. Operators
named for a defect, such as `CloseResultsEarly`, are mutated forms of the
definition that follows them; they belong to no specification and show that the
properties tell such a change apart.

**Inventory.** The steps of `Collect` run one after the other, so the end of a
pool, what `Collect` appends, and the start of the next pool are `PoolReturns`
and one action such as `DatabasesSearched`. References are elements of a set
because `searchAllRegions` deduplicates them by region and OCID. The services
are external: a search that succeeds lists every resource of its region, one that
fails has listed any of them; any lookup may fail. `Expire` may happen at any
time from `context.WithTimeout` to the end; calls after it may still succeed, an
over-approximation of answers already on their way. An instance is `partial` if
its storage total is missing and `degraded` if it has errors too; that the second
is a subset of the first is what `ComputeInstance` checks as `ErrorsHideTheTotal`.

**ComputeInstance.** Boot and block volumes go through copies of the same code,
so the actions take the kind from `kind`. Attachments are listed in a fixed
order, a page at a time; `Attach` and `Detach` change which of them are ATTACHED.
`stable` and `seen` record which volumes stayed, or were ever, attached, to say
what a total should cover. A total is a Go pointer: `NoTotal`, the empty tuple,
is nil, and a tuple holds the number.

**ReportWriter.** Writers in one directory collide because file names have the
resolution of a second; writers of other seconds use other names and need no
model. Everything that can fail before the first file is `Prepare`. `RemoveTemp`,
the deferred `os.Remove`, may fail and its error is dropped: a directory in which
a rename fails may keep the temporary file as well, so a write that fails, like
one that is killed, can leave it. `Kill` may
strike between any two steps and runs no deferred call. A rename is atomic, as
the file system makes it; power loss is not modelled.

**ReportOrder.** Databases and instances have comparators of the same text. A
display name is a lower-case form and a spelling. `sort.Slice` is part of Go's
library: up to twelve elements it inserts each into the sorted prefix by swapping
it down while it is less than its neighbour, which `Place` states. The runs share
nothing but the records, so that a property can compare them.

**ClientCache.** The Database, Compute and Block Storage caches are copies of one
text, share nothing, and are never asked one inside another, so one of them
stands for each. The steps between `Lock` and `Unlock` stay apart, so that
exclusion is a property of the mutex and not of the model. A deferred `Unlock`
runs on every return, with the result already set. `target` is the region a
client was set to; `ClientMemo` sees a region with its client and that target.

**ReportFiles.** A record is its region and what the two listings returned, each
with its completeness and its volumes with or without a size. A volume that
could not be read has no size and comes with an error, one of those
`AppendInstances` adds. The counts come from `Finalize`, the volumes of a region
from the summaries, the rows from the records: the properties compare the ways.
Rows keep the instance and the volume they are about, not their columns. Sums
are `SumFunction` over positions of a list, so that the proofs need one set of
lemmas about sums. The constants are assumed to be what the service returns: a
listing names each volume once, a size is a natural number or missing, and no
boot volume is a block volume. The first of these is the service's doing and not
the code's, which does not look for duplicates (`collector.go:496`, a hazard).

**TagAudit.** A range over a Go map is a choice among the matches. Spellings that
the code normalises to the same name are members of one constant set, and a
namespace has each key at most once. The clock has a few ticks to the day, and a
`Duration` ends within the horizon, so that `Sub` saturates in the run as it does
beyond 292 years. `WholeDays` is also the age of `NewSummaryAt`, which has the same
expression.

## Runs

| Run | Bounds | Shows |
|---|---|---|
| `worker_pool` | 2 workers, 0 to 4 jobs, both capacities, deadline at any moment or never | `AccountedOnce`, `OnlyTailLost`, `NoSendOnClosedChannel`, `NoGoroutineLeft`, `ImplementsSettlement`, `Terminates` |
| `inventory` | 2 regions (one with 1 database and 2 instances, one with 1 database), every subscription status, every selection, strict or not | `AllAccountedFor`, `StrictSuccessIsComplete`, `NoContradiction`, `ReportStaysInScope`, `FailuresStillPublish`, `SilentLossNeverSucceeds`, `Exits` |
| `inventory_discovery` | as `inventory` | finding: `EveryDiscoveryVisible` fails |
| `inventory_totals` | as `inventory` | finding: `PartialRegionTotalNeverShown` fails |
| `compute_instance` | 2 boot volumes, 3 block volumes, pages of 2, at most 2 attachments or detachments | `TotalIsExact`, `ErrorsHideTheTotal`, `MissingTotalIsExplained`, `KnownAttachmentRetained`, `CallEnds` |
| `report_writer` | 2 runs within a second, all seven files, any failure or kill | `NoPartialFileVisible`, `LinksResolve`, `SuccessMeansWholeSet`, `FailedWriteIsAPrefix`, `Ends` |
| `report_order` | 3 records, 2 regions, 2 names in 2 spellings, every pair of arrival orders | `NamesAscending`, `DeterministicWithoutCaseVariants` |
| `report_order_deterministic` | as `report_order` | finding: `Deterministic` fails |
| `client_cache` | 3 workers, 2 regions, 3 clients, any creation may fail, no end to the calls | `MapAccessExclusive`, `ImplementsMemo`, `CallsReturn` |
| `report_files` | 2 regions, at most 1 database, 2 instances and 1 further error per half; boot and block listings that failed, are empty, or have volumes with and without sizes | `RowsMatchRecords`, `RegionsAddUp` |
| `report_files_rows` | as `report_files` | finding: `OneRowPerVolume` fails |
| `tag_audit` | 1 canonical namespace and 2 variants, 2 free-form keys for each name, 2 users, a day of 2 ticks, `Duration` of 5, dates up to 7 from the report | `SourceIsTrue`, `AgeIsCompleteDays` |

Why the bounds are enough. Four jobs and two workers give an empty list, fewer
jobs than workers, a full results buffer with a worker waiting on it, and a
second round for each worker; the workers and the jobs are otherwise alike, and
the safety properties are proved for every number. Two regions let one fail
while the other goes on, and a region with two instances can be half retrieved.
Two boot attachments fill a page of two and three block attachments need a
second one; two changes let a volume
leave and come back. Two writers suffice to rename over each other at every pair
of points. Three records are the fewest where a variant of a name can stand
between two equal ones. Three workers let two compete for one region while the
third is in another; a client more than regions is there for a cache that makes
one too many. Two instances are the fewest that can share a volume, and two
regions let one have nothing but errors. Two variants of the namespace, or two
free-form keys, give the map's order something to decide.

Deadlock checking is on in `client_cache`, whose workers go on asking. It is off
in the other runs because the modelled call or process ends; stopping anywhere
else violates `Terminates`, `CallEnds`, `Exits` or `Ends` where there is a choice, and
`report_order`, `report_files` and `tag_audit` are sequences of steps of which
each is enabled by the one before.

Fairness. The Go scheduler runs every goroutine that can run, so each is weakly
fair. Calls of the service return: the context bounds them and the SDK honours
it, which is why `CallReturns` is fair. File operations return too, with success
or an error; kills need not happen. The deadline itself is never assumed to
pass, and nothing is assumed of the tenancy. In `ClientCache` a worker at `Lock`
is strongly fair: `sync.Mutex` hands itself to a goroutine that has waited for a
millisecond, so nobody is passed over for ever. The steps inside are weakly
fair: creating a client reads the provider's configuration and does not wait for
a service.

## What the four findings say

* After the deadline the producers return with references still in their slice.
  These are neither records nor errors of the report that is then published.
  `SilentLossNeverSucceeds` shows that the exit status still tells.
* The Markdown's regional totals show a storage total for a region whose instances
  are not in the report, since only an instance record can clear
  `ComputeStorageComplete`. In the run's trace the deadline passed before the
  region was searched; a search or a `GetInstance` that fails does the same.
* Display names that differ in case alone compare equal without a look at the
  OCID, so they stand in the order in which workers happened to answer. The run's
  trace has two runs that receive the same three records, one with a variant of
  the name of the other two, and end with it in different places. Without such
  names `DeterministicWithoutCaseVariants` holds.
* A block volume that two instances share has a row for each of them in the file
  that `README.md` of the repository calls a one-row-per-volume inventory, and is
  counted twice in the totals: the file has a row per attachment.

One more disagreement needs no run: `README.md:416-417` says that attribution is
taken only from the defined tags, while `compute.go:108-117` falls back to
free-form tags, as `README.md:447-452` and `docs/SDD.md:103-106` say. `SourceIsTrue` shows that
`created_by_source` tells the two apart.

## Proofs

`WorkerPoolProofs` proves for every `Workers` in 1..128 and every `MaxJobs`, the
assumptions of `WorkerPool`: the type invariant, `AccountedOnce`, `OnlyTailLost`,
`NoSendOnClosedChannel`, `NoGoroutineLeft`, and that the pool implements
`JobSettlement`.

Hardly any of these is inductive alone: `NoSendOnClosedChannel` nearly is, being
close to the guard of `CloseResults`, given that a worker that is done stays so. But
`AccountedOnce` does not say that a worker with
a job holds a real one (`BusyHaveJobs`), and `OnlyTailLost` needs to know that
the goroutines end in their order (`ShutdownOrder`): the producer closes `jobs`
having offered the whole list or seen the deadline, a worker that was started
ends only after that, `results` is closed only after all workers ended, and the
call returns only when it is closed and empty. The conjunction, `IInv`, is
inductive; one lemma per conjunct goes through the actions. The refinement maps
`Consume` to `Record` or `Fail`, `Return` to `Return`, `Expire` to `Expire`, and
everything else to a step that changes nothing; `AccountedOnce` gives that a
consumed job was not answered before, `OnlyTailLost` the guard of `Return`.

Two more theorems are what `Terminates` adds, but for fairness, for a pool of any
size. `NeverStuck`: until the pool returns, one of its goroutines has its guard
satisfied, deadline or not; the guards are written out as `CanStep`, since
ENABLED is beyond the prover (TLC finds `CanStep` to be ENABLED of the pool's own
steps in every state of `worker_pool`). `StepsRunOut`: every step decreases `Left`,
which counts four steps for each job with the producer, three for one in a call,
and so on. So no fair pool can stop or run for ever before it returns.

`ClientCacheProofs` proves for any workers, regions and clients: the type
invariant, `MapAccessExclusive`, and that the cache implements `ClientMemo`. The
only assumption is that `None` is none of these. Exclusion follows from
`HolderInside`: the mutex is held by the one worker that is past `Lock`. The
refinement needs more of what the holder knows: that the region it found without
a client still has none when it stores (`StillMissing`), that its own client is
set to that region (`FreshTarget`), that whatever is in the map talks to the
region it is kept for (`KeptForItsRegion`), and that a call unlocks with what the
map holds (`ResultFromTheMap`). `Store` maps to `Make`, `Unlock` to `Answer` or
`Refuse`, `Ask` to `Ask`, and the steps between to none.

`TagAuditProofs` proves `TypeOK`, `SourceIsTrue` and `AgeIsCompleteDays` for any
sets of spellings, keys and users, any length of a day and of a `Duration`. It
assumes that these lengths are natural numbers, a day is not empty, and no tag has
an empty name (else a namespace that was found would look like none). The lemmas
`Quotient`, `SubTyped` and `AgeOfSub` do the arithmetic: a `Duration` divided by a
day, towards zero, and cut short where it saturates. The invariant says, for each
step of the function, which namespace was found (`NamespaceFound`), where
`createdBy` is from (`SourceKnown`), and that the age is that of the date
(`AgeKnown`); each step of the function needs what the one before left.

`InventoryProofs` proves all six safety properties of `inventory` for any regions,
resources and subscription states, and for any selection of regions. It assumes that a
resource is a database or an instance and not both, lies in one region, and is
not itself a region. The pools come in
through `JobSettlement`: `PoolSettled` is what a pool promises. `JobsByStage`
says what the jobs of each pool are, `SearchesKept` that a search which returned
has left what it listed, `ErrorsKept` to whom each kind of error belongs and that
no subject has a record as well, and `Accounted`, the heart of `AllAccountedFor`,
that before the deadline every resource of a scanned region is, at every stage,
among the references, or its record or its error exists already, or its search
has failed. `ExitKept` carries the deadline and strict mode into the exit status.

`ComputeInstanceProofs` proves the four safety properties of `compute_instance`
for any listings, any page size of at least one and any number of attachments and
detachments. `Covered` is the argument about pages: an attachment
that stays is behind the cursor and pending, or pending, or recorded, as the
stage goes on. `InOrder` says which kinds are still ahead of the call. The one
assumption on names, `ErrorAssumption`, is that no volume is called "listing",
which would make its error look like that of a listing. What `Sum` adds up is
left opaque in these proofs: they show which volumes a total is drawn from, and
that it is the sum of those; TLC evaluates the number.

`ReportWriterProofs` proves the four safety properties of `report_writer` for any
number of runs that report into one directory. It assumes that none of them is
called "nobody", the publisher of a file that is absent. `NoPartialFileVisible` and
`LinksResolve` are conjuncts of the invariant. They need `TempByPlace` (a run that
is about to rename has written all of its file) and `PublishedInOrder` (the files
before a run's position are visible, whoever wrote them last; nobody removes one).
`SuccessMeansWholeSet` says more of a run that meets no other, hence `OwnWhileAlone`.
`FailedWriteIsAPrefix` needs the opposite of `PublishedInOrder`, `NothingAhead`: from
its position on, nothing is a run's own until it is done.

`ReportOrderProofs` proves `NamesAscending` and `DeterministicWithoutCaseVariants`
for any number of records up to the twelve that `sort.Slice` sorts by insertion.
`RankAssumption` takes regions and lower-case names as
numbers, an order like that of strings. The comparator is no
strict order: names that differ in case alone compare equal whatever their
OCIDs. `BeforeOrders` shows that it is one on region and lower-case name, which is
all that `NamesAscending` says, and a total one where there are no such names.
Insertion keeps the prefix ordered (`PlaceFound`, `MovedOrdered`) and the list a
permutation of its records (`MovedArrival`). `SameOrder` ends the argument: two
permutations of the same records that both ascend strictly are the same list,
for at the least position where they differ one of them would have skipped a
record.

`ReportFilesProofs` proves `RowsMatchRecords` and `RegionsAddUp` for any finite set
of regions, any listings that satisfy `ListingAssumption`, and any bounds on the
records and errors. The invariant is simple, since each action computes its
results at once: the lists are lists of their kinds, and counts and files are
those of the lists once they were made. The work is in
what the folds compute. `PartialExists` shows that the function by which the
community modules define a fold exists for a finite domain, and with it
`SumStep`: a sum is an element and the sum of the rest. From this follow
`SumByClass` (a sum may be taken class by class, here region by region),
`Flattening` and `FlattenCounts` (a flattened list is as long as its lists
together, and has an element as often as they have it together), and
`TimesAddUp` (the occurrences of the members of a set in a list of them are as
many as the list is long). `RegionsAddUp` is `SumByClass` over the regions with a
line, and needs that no record and no error is in a region without one.
`RowsMatchRecords` counts occurrences of a row per instance: the rows of an
instance name it, so that only one of the flattened lists has them.

The library's induction rules take an operator as a parameter, which no
available prover can instantiate. Where a proof goes by induction over numbers
or finite sets, it takes a least counterexample instead: `Least`, from the
well-foundedness of the numbers, and `Smallest`, from that of the subsets of a
finite set.

With these every safety invariant and the two refinements that the runs check
are proved. Each inductive invariant was also checked by TLC at the bounds of
its run. Model-checked only: liveness (`Terminates` of the pool, `CallEnds` of the
instance, `Exits`, `Ends`, `CallsReturn`), which needs ENABLED and is beyond the
prover, and the four findings, which are counterexamples.

## Not modelled

Option texts, logging, the wording of errors and diagnoses, the columns of the
CSV files and the layout of the Markdown, the fields of a summary that are copied
from the service's answer, sums of CPUs and of database storage (optional floats),
credentials, the SDK's retries, build scripts and containers: no property of ours
depends on them. That leaves no component with a state of its own out. The `oci`
search index is taken to list what a region holds; `docs/SDD.md` notes that it
may lag.

## Plan

Done: all modules, their runs, and proofs of all safety properties and
refinements. Left, in order:

1. what `NeverStuck` and `StepsRunOut` say of the pool, for `ComputeInstance`, `ReportWriter`
   and `Inventory`, and for `ClientCache` that whoever holds the mutex can go on;
2. lemmas about `ComputeInstance`'s `Sum` like those of `ReportFilesProofs`, so that a total
   is proved to be at least the sizes of the volumes that stayed attached.
