------------------------------ MODULE Inventory ------------------------------
(***************************************************************************)
(* One run of oci-adb-inventory: run of cmd/oci-adb-inventory/main.go and   *)
(* Collect of internal/oci/collector.go, which calls four worker pools one  *)
(* after the other. A pool is used through its promise, JobSettlement.      *)
(*                                                                          *)
(* The tenancy holds the resources of Database and Instance; a regional     *)
(* search that ends without an error lists those of its region, one that    *)
(* fails between two pages lists some of them.                              *)
(***************************************************************************)
EXTENDS Naturals

CONSTANTS
    Region,    \* region names
    Database,  \* Autonomous Databases, as (region, OCID) references
    Instance,  \* Compute instances, likewise
    Location   \* the region of each resource

Resource == Database \cup Instance

ASSUME ResourceAssumption == Database \cap Instance = {} /\ Region \cap Resource = {}
ASSUME LocationAssumption == Location \in [Resource -> Region]

VARIABLES
    stage,         \* where the run is
    strict,        \* cfg.Strict
    requested,     \* cfg.Regions
    subscription,  \* the status of each region in the list of subscriptions
    scanned,       \* the regions selected
    jobs, retrieved, failed, expired, returned,  \* the current pool
    found,         \* the references the current search has met
    partial,       \* the instances whose attached storage is not known in full
    degraded,      \* those of partial with collection errors of their own
    refs,          \* the references of both searches that have ended
    databases,     \* report.Databases
    instances,     \* report.ComputeInstances
    errors,        \* report.Errors
    published,     \* Write has published the report
    message,       \* the error line on stderr
    exitCode

Pool == INSTANCE JobSettlement

pool   == <<jobs, retrieved, failed, expired, returned>>
config == <<strict, requested, subscription, scanned>>
local  == <<found, partial, degraded, refs>>
report == <<databases, instances, errors>>
exit   == <<published, message, exitCode>>
vars   == <<stage, config, pool, local, report, exit>>

Searching == stage \in {"search_db", "search_vm"}

\* What a search of region r lists at this stage.
Listed(r) == {x \in IF stage = "search_db" THEN Database ELSE Instance :
                  Location[x] = r}

\* A CollectionError: its stage, and the region or the resource it is about.
Errors(s, subjects) == {[stage |-> s, subject |-> x] : x \in subjects}

Init == /\ stage = "parse"
        /\ strict \in BOOLEAN
        /\ requested \in SUBSET Region
        /\ subscription = [r \in Region |-> "NONE"]
        /\ scanned = {}
        /\ Pool!Idle
        /\ expired = FALSE
        /\ found = {} /\ partial = {} /\ degraded = {} /\ refs = {}
        /\ databases = {} /\ instances = {} /\ errors = {}
        /\ published = FALSE /\ message = "none" /\ exitCode = 0

Stop(code, line) == /\ stage' = "exited"
                    /\ exitCode' = code
                    /\ message' = line

-----------------------------------------------------------------------------
(* Before the collection.                                                   *)

\* config.Parse: --help and --version end the run, as does a wrong option.
Parse == /\ stage = "parse"
         /\ \/ /\ stage' = "collector"
               /\ UNCHANGED <<message, exitCode>>
            \/ Stop(0, "none")
            \/ Stop(2, "usage")
         /\ UNCHANGED <<config, pool, local, report, published>>

\* NewCollector: the provider and the tenancy OCID.
NewCollector == /\ stage = "collector"
                /\ \/ /\ stage' = "regions"
                      /\ UNCHANGED <<message, exitCode>>
                   \/ Stop(1, "provider")
                /\ UNCHANGED <<config, pool, local, report, published>>

ListRegions ==
    /\ stage = "regions"
    /\ \/ /\ \E status \in [Region -> {"READY", "NOT_READY", "NONE"}] :
                 subscription' = status
          /\ stage' = "select"
          /\ UNCHANGED <<message, exitCode>>
       \/ /\ Stop(1, "regions")
          /\ UNCHANGED subscription
    /\ UNCHANGED <<strict, requested, scanned, pool, local, report, published>>

Ready == {r \in Region : subscription[r] = "READY"}

SelectionIgnoringStatus == IF requested = {} THEN Ready ELSE requested

\* The regions selectRegions returns; none where it returns an error.
Selection == IF requested = {} THEN Ready
             ELSE IF requested \subseteq Ready THEN requested
             ELSE {}

SelectRegions ==
    /\ stage = "select"
    /\ \/ /\ Selection # {}
          /\ scanned' = Selection
          /\ Pool!Start(Selection)
          /\ stage' = "search_db"
          /\ UNCHANGED <<message, exitCode>>
       \/ /\ Selection = {}
          /\ Stop(1, "regions")
          /\ UNCHANGED <<scanned, pool>>
    /\ UNCHANGED <<strict, requested, subscription, local, report, published>>

-----------------------------------------------------------------------------
(* The jobs of the pools.                                                   *)

\* searchRegion: an error keeps the references of the pages already read.
SearchRegion(r) ==
    /\ Searching
    /\ \/ /\ Pool!Record(r)
          /\ found' = found \cup Listed(r)
       \/ /\ Pool!Fail(r)
          /\ \E pages \in SUBSET Listed(r) : found' = found \cup pages
    /\ UNCHANGED <<stage, config, partial, degraded, refs, report, exit>>

GetDatabase(d) ==
    /\ stage = "get_db"
    /\ Pool!Record(d) \/ Pool!Fail(d)
    /\ UNCHANGED <<stage, config, local, report, exit>>

\* An instance that is retrieved may lack volumes: with errors of their own, or
\* only because the service gave no size for one.
GetComputeInstance(i) ==
    /\ stage = "get_vm"
    /\ \/ /\ Pool!Record(i)
          /\ \/ UNCHANGED <<partial, degraded>>
             \/ /\ partial' = partial \cup {i}
                /\ degraded' \in {degraded, degraded \cup {i}}
       \/ /\ Pool!Fail(i)
          /\ UNCHANGED <<partial, degraded>>
    /\ UNCHANGED <<stage, config, found, refs, report, exit>>

PoolReturns ==
    /\ Pool!Return
    /\ UNCHANGED <<stage, config, local, report, exit>>

\* context.WithTimeout: the timer runs from after NewCollector until run ends.
Expire == /\ stage \notin {"parse", "collector", "exited"}
          /\ Pool!Expire
          /\ UNCHANGED <<stage, config, local, report, exit>>

-----------------------------------------------------------------------------
(* Collect between two pools: append what the last returned, start the next. *)

DatabasesSearchedQuietly ==
    /\ stage = "search_db" /\ returned
    /\ refs' = refs \cup found
    /\ errors' = errors
    /\ Pool!Start(found)
    /\ found' = {}
    /\ stage' = "get_db"
    /\ UNCHANGED <<config, partial, degraded, databases, instances, exit>>

DatabasesSearched ==
    /\ stage = "search_db" /\ returned
    /\ refs' = refs \cup found
    /\ errors' = errors \cup Errors("search_autonomous_database", failed)
    /\ Pool!Start(found)
    /\ found' = {}
    /\ stage' = "get_db"
    /\ UNCHANGED <<config, partial, degraded, databases, instances, exit>>

DatabasesRetrievedNoContinue ==
    /\ stage = "get_db" /\ returned
    /\ databases' = retrieved \cup failed
    /\ errors' = errors \cup Errors("get_autonomous_database", failed)
    /\ Pool!Start(scanned)
    /\ stage' = "search_vm"
    /\ UNCHANGED <<config, local, instances, exit>>

DatabasesRetrieved ==
    /\ stage = "get_db" /\ returned
    /\ databases' = retrieved
    /\ errors' = errors \cup Errors("get_autonomous_database", failed)
    /\ Pool!Start(scanned)
    /\ stage' = "search_vm"
    /\ UNCHANGED <<config, local, instances, exit>>

InstancesSearchedIfAny ==
    /\ stage = "search_vm" /\ returned
    /\ found # {}
    /\ refs' = refs \cup found
    /\ errors' = errors \cup Errors("search_compute_instance", failed)
    /\ Pool!Start(found)
    /\ found' = {}
    /\ stage' = "get_vm"
    /\ UNCHANGED <<config, partial, degraded, databases, instances, exit>>

InstancesSearched ==
    /\ stage = "search_vm" /\ returned
    /\ refs' = refs \cup found
    /\ errors' = errors \cup Errors("search_compute_instance", failed)
    /\ Pool!Start(found)
    /\ found' = {}
    /\ stage' = "get_vm"
    /\ UNCHANGED <<config, partial, degraded, databases, instances, exit>>

InstancesRetrievedFatalOnly ==
    /\ stage = "get_vm" /\ returned
    /\ instances' = retrieved
    /\ errors' = errors \cup Errors("get_compute_instance", failed)
    /\ stage' = "write"
    /\ UNCHANGED <<config, pool, local, databases, exit>>

InstancesRetrievedAsDatabases ==
    /\ stage = "get_vm" /\ returned
    /\ databases' = databases \cup retrieved
    /\ errors' = errors \cup Errors("get_compute_instance", failed)
                        \cup Errors("volumes", degraded)
    /\ stage' = "write"
    /\ UNCHANGED <<config, pool, local, instances, exit>>

InstancesRetrieved ==
    /\ stage = "get_vm" /\ returned
    /\ instances' = retrieved
    /\ errors' = errors \cup Errors("get_compute_instance", failed)
                        \cup Errors("volumes", degraded)
    /\ stage' = "write"
    /\ UNCHANGED <<config, pool, local, databases, exit>>

-----------------------------------------------------------------------------
(* After the collection.                                                    *)

WriteUnlessStrict ==
    /\ stage = "write"
    /\ \/ /\ ~(strict /\ errors # {})
          /\ published' = TRUE
          /\ stage' = "status"
          /\ UNCHANGED <<message, exitCode>>
       \/ /\ strict /\ errors # {}
          /\ Stop(1, "strict")
          /\ UNCHANGED published
       \/ /\ Stop(1, "write")
          /\ UNCHANGED published
    /\ UNCHANGED <<config, pool, local, report>>

\* report.Write takes no context: the deadline does not stop it.
Write == /\ stage = "write"
         /\ \/ /\ published' = TRUE
               /\ stage' = "status"
               /\ UNCHANGED <<message, exitCode>>
            \/ /\ Stop(1, "write")
               /\ UNCHANGED published
         /\ UNCHANGED <<config, pool, local, report>>

StatusIgnoringDeadline ==
    /\ stage = "status"
    /\ \/ strict /\ errors # {} /\ Stop(1, "strict")
       \/ ~(strict /\ errors # {}) /\ Stop(0, "none")
    /\ UNCHANGED <<config, pool, local, report, published>>

Status == /\ stage = "status"
          /\ \/ expired /\ Stop(1, "timeout")
             \/ ~expired /\ strict /\ errors # {} /\ Stop(1, "strict")
             \/ ~expired /\ ~(strict /\ errors # {}) /\ Stop(0, "none")
          /\ UNCHANGED <<config, pool, local, report, published>>

-----------------------------------------------------------------------------
Collect == \/ ListRegions \/ SelectRegions
           \/ \E j \in jobs : SearchRegion(j) \/ GetDatabase(j) \/ GetComputeInstance(j)
           \/ PoolReturns
           \/ DatabasesSearched \/ DatabasesRetrieved
           \/ InstancesSearched \/ InstancesRetrieved

Run == Parse \/ NewCollector \/ Collect \/ Write \/ Status

Next == Run \/ Expire

Spec == Init /\ [][Next]_vars

\* The run goes on as long as it can: WorkerPool!Terminates is why a pool's
\* steps may be assumed to come to their end. The deadline need not pass.
FairSpec == Spec /\ WF_vars(Run)

-----------------------------------------------------------------------------
Stages == {"parse", "collector", "regions", "select", "search_db", "get_db",
           "search_vm", "get_vm", "write", "status", "exited"}

ErrorStages == {"search_autonomous_database", "get_autonomous_database",
                "search_compute_instance", "get_compute_instance", "volumes"}

TypeOK ==
    /\ stage \in Stages
    /\ strict \in BOOLEAN
    /\ requested \subseteq Region /\ scanned \subseteq Region
    /\ subscription \in [Region -> {"READY", "NOT_READY", "NONE"}]
    /\ jobs \subseteq Region \cup Resource
    /\ retrieved \subseteq jobs /\ failed \subseteq jobs
    /\ expired \in BOOLEAN /\ returned \in BOOLEAN
    /\ found \subseteq Resource /\ refs \subseteq Resource
    /\ degraded \subseteq partial /\ partial \subseteq Instance
    /\ databases \subseteq Database /\ instances \subseteq Instance
    /\ errors \subseteq [stage : ErrorStages, subject : Region \cup Resource]
    /\ published \in BOOLEAN
    /\ message \in {"none", "usage", "provider", "regions", "write", "timeout", "strict"}
    /\ exitCode \in 0..2

SearchError(x) ==
    [stage |-> IF x \in Database THEN "search_autonomous_database"
               ELSE "search_compute_instance",
     subject |-> Location[x]]

GetError(x) ==
    [stage |-> IF x \in Database THEN "get_autonomous_database"
               ELSE "get_compute_instance",
     subject |-> x]

Records == databases \cup instances

\* Unless the deadline passed, a published report accounts for the whole
\* tenancy: a resource that a search has met, even in a region whose search
\* fails later, has its record or its own error, and one that no search met is
\* in a region whose failed search is recorded (README "Failure behavior";
\* collector.go:91-117, 226-235).
AllAccountedFor ==
    published /\ ~expired =>
        \A x \in {y \in Resource : Location[y] \in scanned} :
            IF x \in refs THEN x \in Records \/ GetError(x) \in errors
                          ELSE SearchError(x) \in errors

\* Exit status 0 in strict mode certifies the report: it holds every resource of
\* the regions scanned, and no instance of it has errors (main.go:70-78).
StrictSuccessIsComplete ==
    stage = "exited" /\ published /\ exitCode = 0 /\ strict =>
        /\ Records = {x \in Resource : Location[x] \in scanned}
        /\ degraded = {}

\* No resource is in the report both as a record and as a failed lookup, and an
\* instance with errors of its own has its record (collector.go:345-355, 423-434).
NoContradiction ==
    /\ \A x \in Records : GetError(x) \notin errors
    /\ \A i \in Instance : [stage |-> "volumes", subject |-> i] \in errors
                              => i \in instances /\ i \in partial

\* The collection stays within the READY regions asked for: every record and
\* every error is about one of them (collector.go:150-182).
ReportStaysInScope ==
    /\ scanned \subseteq Ready
    /\ requested # {} => scanned \subseteq requested
    /\ \A x \in Records : Location[x] \in scanned
    /\ \A e \in errors : IF e.subject \in Region THEN e.subject \in scanned
                         ELSE Location[e.subject] \in scanned

\* Once the regions are selected nothing but a failed write keeps the report
\* from being published: no regional or resource failure, no strict mode and no
\* deadline does (docs/SDD.md section 9, "partial reports are still written").
FailuresStillPublish ==
    stage = "exited" /\ scanned # {} /\ message # "write" => published

\* A run that publishes a report and exits with success has a record or an error
\* for every reference it found. The deadline can leave some without either, so the
\* status is all that tells the caller (collector.go:330-339, main.go:70-73).
SilentLossNeverSucceeds ==
    /\ stage = "exited" /\ exitCode = 0 /\ published
    => \A x \in refs : x \in Records \/ GetError(x) \in errors

\* The run ends, with or without the deadline.
Exits == <>(stage = "exited")

-----------------------------------------------------------------------------
(* What the documents say and the code does not do.                         *)

\* Every resource a search discovered is visible in the published report, as a
\* record or as an error.
EveryDiscoveryVisible ==
    published => \A x \in refs : x \in Records \/ GetError(x) \in errors

\* marshalMarkdown: the rows of the regional totals that show a storage total.
StorageTotalShown == {r \in scanned : \A i \in instances \cap partial : Location[i] # r}

\* A region's storage total is shown only if it covers the region's instances.
PartialRegionTotalNeverShown ==
    published => \A i \in Instance :
                     Location[i] \in StorageTotalShown => i \in instances \ partial
==============================================================================
