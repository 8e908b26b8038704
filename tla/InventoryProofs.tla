--------------------------- MODULE InventoryProofs ---------------------------
(***************************************************************************)
(* Proofs about Inventory, for any tenancy, any set of regions asked for,   *)
(* and a deadline that may pass at any moment of the run.                   *)
(*                                                                          *)
(* The inductive invariant says, stage by stage, what the current pool is   *)
(* given, what the searches have met, which errors exist and whom they are  *)
(* about, and, while the deadline has not passed, that nothing is missing.  *)
(***************************************************************************)
EXTENDS Inventory, TLAPS

-----------------------------------------------------------------------------
(* The inductive invariant.                                                 *)

\* The stages at which no region is selected, no database is in the report yet,
\* no instance is.
Early == {"parse", "collector", "regions", "select"}
DatabasesPending == Early \cup {"search_db", "get_db"}
InstancesPending == DatabasesPending \cup {"search_vm", "get_vm"}

InScope == {x \in Resource : Location[x] \in scanned}

\* The regions or resources that the errors of stage s are about.
Subjects(s) == {x \in Region \cup Resource : [stage |-> s, subject |-> x] \in errors}

\* What JobSettlement promises of the current pool.
PoolSettled == /\ retrieved \cap failed = {}
               /\ returned => expired \/ retrieved \cup failed = jobs

\* Nothing is collected before the regions are selected, and they are READY ones
\* of those asked for.
SelectionKept ==
    /\ stage \in Early => /\ scanned = {} /\ found = {} /\ partial = {}
    /\ stage \in Early \cup {"search_db"} => refs = {} /\ errors = {}
    /\ scanned \subseteq Ready
    /\ requested # {} => scanned \subseteq requested

\* A search pool has the regions selected, the pool of lookups what the search
\* has met.
JobsByStage ==
    /\ Searching => jobs = scanned
    /\ stage = "search_db" => found \subseteq Database
    /\ stage = "search_vm" => found \subseteq Instance
    /\ ~Searching => found = {}
    /\ stage \in {"get_db", "search_vm"} => refs \subseteq Database
    /\ stage = "get_db" => jobs = refs
    /\ stage = "get_vm" => jobs = refs \cap Instance

\* A search meets resources of the regions selected only, and all those of a region
\* it has searched to the end.
SearchesKept == /\ found \subseteq InScope /\ refs \subseteq InScope
                /\ Searching => \A r \in retrieved : Listed(r) \subseteq found

\* An instance with an incomplete storage total has a record; one with errors of
\* its own has them in the report, once it is there.
PartialKept ==
    /\ stage \in InstancesPending \ {"get_vm"} => partial = {}
    /\ stage = "get_vm" => partial \subseteq retrieved
    /\ stage \notin InstancesPending => /\ partial \subseteq instances
                                        /\ degraded \subseteq Subjects("volumes")

\* The records and the errors of the report, stage by stage: a failed lookup is of
\* a resource met that has no record.
ErrorsKept ==
    /\ Subjects("search_autonomous_database") \subseteq scanned
    /\ Subjects("search_compute_instance") \subseteq scanned
    /\ databases \subseteq refs /\ instances \subseteq refs
    /\ Subjects("get_autonomous_database") \subseteq (refs \cap Database) \ databases
    /\ Subjects("get_compute_instance") \subseteq (refs \cap Instance) \ instances
    /\ Subjects("volumes") \subseteq instances \cap degraded
    /\ stage \in DatabasesPending =>
           databases = {} /\ Subjects("get_autonomous_database") = {}
    /\ stage \in InstancesPending =>
           /\ instances = {} /\ Subjects("get_compute_instance") = {}
           /\ Subjects("volumes") = {}

\* While the deadline has not passed, what a finished search has not met is in a
\* region with a search error, and what it has met and a finished pool has looked
\* up has a record or an error.
Accounted ==
    ~expired =>
        /\ stage \notin Early \cup {"search_db"} =>
               \A x \in Database \cap InScope :
                   x \in refs \/ Location[x] \in Subjects("search_autonomous_database")
        /\ stage \notin DatabasesPending \cup {"search_vm"} =>
               \A x \in Instance \cap InScope :
                   x \in refs \/ Location[x] \in Subjects("search_compute_instance")
        /\ stage \notin DatabasesPending =>
               refs \cap Database \subseteq databases \cup Subjects("get_autonomous_database")
        /\ stage \notin InstancesPending =>
               refs \cap Instance \subseteq instances \cup Subjects("get_compute_instance")

\* A report is published late, and exit status 0 is decided before the deadline.
ExitKept ==
    /\ published => stage \in {"status", "exited"}
    /\ stage = "status" => published
    /\ stage = "exited" /\ published /\ exitCode = 0 =>
           ~expired /\ ~(strict /\ errors # {})

IInv == /\ TypeOK
        /\ PoolSettled
        /\ SelectionKept
        /\ JobsByStage
        /\ SearchesKept
        /\ PartialKept
        /\ ErrorsKept
        /\ Accounted
        /\ ExitKept
        /\ FailuresStillPublish

-----------------------------------------------------------------------------
(* Errors and the resources of a region.                                    *)

\* What Listed returns is in its region, and of the kind the search is for.
LEMMA ListedKind ==
    \A r \in Region : /\ Listed(r) \subseteq Resource
                      /\ \A x \in Listed(r) : Location[x] = r
                      /\ stage = "search_db" => Listed(r) \subseteq Database
                      /\ stage = "search_vm" => Listed(r) \subseteq Instance
BY DEF Listed, Resource

LEMMA ErrorMember ==
    \A s, t, x, X : [stage |-> t, subject |-> x] \in Errors(s, X) <=> t = s /\ x \in X
<1> SUFFICES ASSUME NEW s, NEW t, NEW x, NEW X
             PROVE  [stage |-> t, subject |-> x] \in Errors(s, X) <=> t = s /\ x \in X
  OBVIOUS
<1>1. \A y : [stage |-> t, subject |-> x] = [stage |-> s, subject |-> y] <=> t = s /\ x = y
  OBVIOUS
<1>2. QED  BY <1>1 DEF Errors

\* Errors of one stage are appended, about the subjects of X.
Appended(s, X) == /\ Subjects(s)' = Subjects(s) \cup X
                  /\ \A t \in ErrorStages \ {s} : Subjects(t)' = Subjects(t)

\* Appending errors of one stage adds their subjects to that stage alone.
LEMMA ErrorsAppended ==
    \A s \in ErrorStages, X \in SUBSET (Region \cup Resource) :
        errors' = errors \cup Errors(s, X) => Appended(s, X)
<1> SUFFICES ASSUME NEW s \in ErrorStages, NEW X \in SUBSET (Region \cup Resource),
                    errors' = errors \cup Errors(s, X)
             PROVE  Appended(s, X)
  OBVIOUS
<1>1. \A t, x : [stage |-> t, subject |-> x] \in errors' <=>
                    [stage |-> t, subject |-> x] \in errors \/ (t = s /\ x \in X)
  BY ErrorMember
<1>2. Subjects(s)' = Subjects(s) \cup X
  BY <1>1 DEF Subjects
<1>3. ASSUME NEW t \in ErrorStages \ {s} PROVE Subjects(t)' = Subjects(t)
  BY <1>1 DEF Subjects
<1>4. QED  BY <1>2, <1>3 DEF Appended

\* The last step of Collect appends two kinds of errors.
LEMMA InstanceErrorsAppended ==
    TypeOK /\ InstancesRetrieved =>
        /\ Subjects("get_compute_instance")' = Subjects("get_compute_instance") \cup failed
        /\ Subjects("volumes")' = Subjects("volumes") \cup degraded
        /\ \A t \in ErrorStages \ {"get_compute_instance", "volumes"} :
               Subjects(t)' = Subjects(t)
<1> SUFFICES ASSUME TypeOK, InstancesRetrieved
             PROVE  /\ Subjects("get_compute_instance")' =
                           Subjects("get_compute_instance") \cup failed
                    /\ Subjects("volumes")' = Subjects("volumes") \cup degraded
                    /\ \A t \in ErrorStages \ {"get_compute_instance", "volumes"} :
                           Subjects(t)' = Subjects(t)
  OBVIOUS
<1>1. \A t, x : [stage |-> t, subject |-> x] \in errors' <=>
                    \/ [stage |-> t, subject |-> x] \in errors
                    \/ t = "get_compute_instance" /\ x \in failed
                    \/ t = "volumes" /\ x \in degraded
  BY ErrorMember DEF InstancesRetrieved
<1>2. failed \subseteq Region \cup Resource /\ degraded \subseteq Region \cup Resource
  BY DEF TypeOK, Resource
<1>3. Subjects("get_compute_instance")' = Subjects("get_compute_instance") \cup failed
  BY <1>1, <1>2 DEF Subjects
<1>4. Subjects("volumes")' = Subjects("volumes") \cup degraded
  BY <1>1, <1>2 DEF Subjects
<1>5. ASSUME NEW t \in ErrorStages \ {"get_compute_instance", "volumes"}
      PROVE  Subjects(t)' = Subjects(t)
  BY <1>1 DEF Subjects
<1>6. QED  BY <1>3, <1>4, <1>5

\* An appended list of errors has the type of the list.
LEMMA ErrorsTyped ==
    \A s \in ErrorStages, X \in SUBSET (Region \cup Resource) :
        Errors(s, X) \subseteq [stage : ErrorStages, subject : Region \cup Resource]
BY DEF Errors

\* What does not touch the list of errors leaves their subjects.
LEMMA ErrorsUnchanged ==
    UNCHANGED errors => \A t \in ErrorStages : Subjects(t)' = Subjects(t)
BY DEF Subjects

-----------------------------------------------------------------------------
(* The steps.                                                               *)

\* A search adds what it lists; a region searched to the end has everything listed.
LEMMA SearchEffect ==
    TypeOK /\ JobsByStage => \A j \in jobs : SearchRegion(j) =>
        /\ Searching /\ j \in scanned /\ j \in Region
        /\ found \subseteq found' /\ found' \subseteq found \cup Listed(j)
        /\ retrieved' \subseteq retrieved \cup {j}
        /\ j \in retrieved' => Listed(j) \subseteq found'
        /\ retrieved' \subseteq jobs /\ failed' \subseteq jobs
        /\ UNCHANGED <<stage, jobs, scanned, refs>>
BY DEF TypeOK, JobsByStage, SearchRegion, Pool!Record, Pool!Fail, Pool!settled, config

LEMMA InitInvariant == Init => IInv
<1>1. ASSUME Init PROVE TypeOK
  <2>1. /\ stage \in Stages /\ strict \in BOOLEAN /\ requested \subseteq Region
        /\ subscription \in [Region -> {"READY", "NOT_READY", "NONE"}]
    BY <1>1 DEF Init, Stages
  <2>2. /\ scanned = {} /\ jobs = {} /\ retrieved = {} /\ failed = {}
        /\ expired = FALSE /\ returned = TRUE
        /\ found = {} /\ partial = {} /\ degraded = {} /\ refs = {}
        /\ databases = {} /\ instances = {} /\ errors = {}
        /\ published = FALSE /\ message = "none" /\ exitCode = 0
    BY <1>1 DEF Init, Pool!Idle
  <2>3. exitCode \in 0..2 /\ message \in {"none", "usage", "provider", "regions", "write",
                                          "timeout", "strict"}
    BY <2>2
  <2>4. errors \subseteq [stage : ErrorStages, subject : Region \cup Resource]
    BY <2>2
  <2>5. QED  BY <2>1, <2>2, <2>3, <2>4 DEF TypeOK
<1>2. ASSUME Init PROVE PoolSettled /\ SelectionKept /\ JobsByStage /\ SearchesKept
  BY <1>2 DEF Init, Pool!Idle, PoolSettled, SelectionKept, JobsByStage, SearchesKept,
              Early, Searching
<1>3. ASSUME Init PROVE PartialKept /\ ErrorsKept
  BY <1>3 DEF Init, PartialKept, ErrorsKept, Subjects, Early, DatabasesPending,
              InstancesPending
<1>4. ASSUME Init PROVE Accounted /\ ExitKept /\ FailuresStillPublish
  BY <1>4 DEF Init, Accounted, ExitKept, FailuresStillPublish, Early, DatabasesPending,
              InstancesPending
<1>5. QED  BY <1>1, <1>2, <1>3, <1>4 DEF IInv

\* Every step keeps the types: what a search meets, and so what the lookups return,
\* is of the kind searched for.
LEMMA StepTyped == IInv /\ [Next]_vars => TypeOK'
<1>0. SUFFICES ASSUME IInv, [Next]_vars PROVE TypeOK'
  OBVIOUS
<1>a. TypeOK /\ JobsByStage /\ SearchesKept
  BY <1>0 DEF IInv
<1> USE DEF TypeOK, Stages, config, pool, local, report, exit
<1>1. CASE Parse
  BY <1>a, <1>1 DEF Parse, Stop
<1>2. CASE NewCollector
  BY <1>a, <1>2 DEF NewCollector, Stop
<1>3. CASE ListRegions
  BY <1>a, <1>3 DEF ListRegions, Stop
<1>4. CASE SelectRegions
  <2>1. Selection \subseteq Region
    BY <1>a DEF Selection, Ready
  <2>2. scanned' \subseteq Region /\ jobs' \subseteq Region \cup Resource
    BY <1>a, <1>4, <2>1 DEF SelectRegions, Stop, Pool!Start
  <2>3. /\ retrieved' \subseteq jobs' /\ failed' \subseteq jobs'
        /\ returned' \in BOOLEAN /\ expired' \in BOOLEAN
    BY <1>a, <1>4 DEF SelectRegions, Stop, Pool!Start
  <2>4. exitCode' \in 0..2
    BY <1>a, <1>4 DEF SelectRegions, Stop
  <2>5. message' \in {"none", "usage", "provider", "regions", "write", "timeout", "strict"}
    BY <1>a, <1>4 DEF SelectRegions, Stop
  <2>6. stage' \in Stages /\ published' \in BOOLEAN
    BY <1>a, <1>4 DEF SelectRegions, Stop
  <2>7. UNCHANGED <<strict, requested, subscription, local, report>>
    BY <1>4 DEF SelectRegions
  <2>8. QED  BY <1>a, <2>2, <2>3, <2>4, <2>5, <2>6, <2>7
<1>5. ASSUME NEW j \in jobs, SearchRegion(j) PROVE TypeOK'
  <2>1. /\ found' \subseteq Resource
        /\ retrieved' \subseteq jobs /\ failed' \subseteq jobs
    BY <1>a, <1>5, SearchEffect, ListedKind
  <2>2. /\ UNCHANGED <<stage, config, jobs, expired, returned, partial, degraded, refs>>
        /\ UNCHANGED <<report, exit>>
    BY <1>5 DEF SearchRegion, Pool!Record, Pool!Fail
  <2>3. QED  BY <1>a, <2>1, <2>2
<1>6. ASSUME NEW j \in jobs, GetDatabase(j) PROVE TypeOK'
  BY <1>a, <1>6 DEF GetDatabase, Pool!Record, Pool!Fail, Pool!settled
<1>7. ASSUME NEW j \in jobs, GetComputeInstance(j) PROVE TypeOK'
  BY <1>a, <1>7 DEF GetComputeInstance, Pool!Record, Pool!Fail, Pool!settled,
     JobsByStage
<1>8. CASE PoolReturns
  BY <1>a, <1>8 DEF PoolReturns, Pool!Return, Pool!settled
<1>9. CASE DatabasesSearched
  <2>1. errors' \subseteq [stage : ErrorStages, subject : Region \cup Resource]
    BY <1>a, <1>9, ErrorsTyped DEF DatabasesSearched, ErrorStages
  <2>2. QED  BY <1>a, <1>9, <2>1 DEF DatabasesSearched, Pool!Start
<1>10. CASE DatabasesRetrieved
  <2>1. errors' \subseteq [stage : ErrorStages, subject : Region \cup Resource]
    BY <1>a, <1>10, ErrorsTyped DEF DatabasesRetrieved, ErrorStages
  <2>2. retrieved \subseteq Database
    BY <1>a, <1>10 DEF JobsByStage, DatabasesRetrieved
  <2>3. QED  BY <1>a, <1>10, <2>1, <2>2 DEF DatabasesRetrieved, Pool!Start
<1>11. CASE InstancesSearched
  <2>1. errors' \subseteq [stage : ErrorStages, subject : Region \cup Resource]
    BY <1>a, <1>11, ErrorsTyped DEF InstancesSearched, ErrorStages
  <2>2. QED  BY <1>a, <1>11, <2>1 DEF InstancesSearched, Pool!Start
<1>12. CASE InstancesRetrieved
  <2>1. errors' \subseteq [stage : ErrorStages, subject : Region \cup Resource]
    BY <1>a, <1>12, ErrorsTyped DEF InstancesRetrieved, ErrorStages, Resource
  <2>2. retrieved \subseteq Instance
    BY <1>a, <1>12 DEF JobsByStage, InstancesRetrieved
  <2>3. QED  BY <1>a, <1>12, <2>1, <2>2 DEF InstancesRetrieved
<1>13. CASE Write
  <2>1. UNCHANGED <<config, pool, local, report>>
    BY <1>13 DEF Write
  <2>2. exitCode' \in 0..2
    BY <1>a, <1>13 DEF Write, Stop
  <2>3. message' \in {"none", "usage", "provider", "regions", "write", "timeout", "strict"}
    BY <1>a, <1>13 DEF Write, Stop
  <2>4. stage' \in Stages /\ published' \in BOOLEAN
    BY <1>a, <1>13 DEF Write, Stop
  <2>5. QED  BY <1>a, <2>1, <2>2, <2>3, <2>4
<1>14. CASE Status
  BY <1>a, <1>14 DEF Status, Stop
<1>15. CASE Expire
  BY <1>a, <1>15 DEF Expire, Pool!Expire
<1>16. CASE UNCHANGED vars
  BY <1>a, <1>16 DEF vars
<1>17. QED
  BY <1>0, <1>1, <1>2, <1>3, <1>4, <1>5, <1>6, <1>7, <1>8, <1>9, <1>10, <1>11, <1>12,
     <1>13, <1>14, <1>15, <1>16
  DEF Next, Run, Collect

\* No step answers a job twice, and none returns early before the deadline.
LEMMA StepPool == IInv /\ [Next]_vars => PoolSettled'
<1>0. SUFFICES ASSUME IInv, [Next]_vars PROVE PoolSettled'
  OBVIOUS
<1>a. PoolSettled /\ TypeOK
  BY <1>0 DEF IInv
<1> USE DEF PoolSettled, config, pool, local, report, exit
<1>1. CASE Parse
  BY <1>a, <1>1 DEF Parse, Stop
<1>2. CASE NewCollector
  BY <1>a, <1>2 DEF NewCollector, Stop
<1>3. CASE ListRegions
  BY <1>a, <1>3 DEF ListRegions, Stop
<1>4. CASE SelectRegions
  BY <1>a, <1>4 DEF SelectRegions, Stop, Pool!Start
<1>5. ASSUME NEW j \in jobs, SearchRegion(j) PROVE PoolSettled'
  BY <1>a, <1>5 DEF SearchRegion, Pool!Record, Pool!Fail, Pool!settled
<1>6. ASSUME NEW j \in jobs, GetDatabase(j) PROVE PoolSettled'
  BY <1>a, <1>6 DEF GetDatabase, Pool!Record, Pool!Fail, Pool!settled
<1>7. ASSUME NEW j \in jobs, GetComputeInstance(j) PROVE PoolSettled'
  BY <1>a, <1>7 DEF GetComputeInstance, Pool!Record, Pool!Fail, Pool!settled
<1>8. CASE PoolReturns
  BY <1>a, <1>8 DEF PoolReturns, Pool!Return, Pool!settled
<1>9. CASE DatabasesSearched
  BY <1>a, <1>9 DEF DatabasesSearched, Pool!Start
<1>10. CASE DatabasesRetrieved
  BY <1>a, <1>10 DEF DatabasesRetrieved, Pool!Start
<1>11. CASE InstancesSearched
  BY <1>a, <1>11 DEF InstancesSearched, Pool!Start
<1>12. CASE InstancesRetrieved
  BY <1>a, <1>12 DEF InstancesRetrieved
<1>13. CASE Write
  BY <1>a, <1>13 DEF Write, Stop
<1>14. CASE Status
  BY <1>a, <1>14 DEF Status, Stop
<1>15. CASE Expire
  BY <1>a, <1>15 DEF Expire, Pool!Expire
<1>16. CASE UNCHANGED vars
  BY <1>a, <1>16 DEF vars
<1>17. QED
  BY <1>0, <1>1, <1>2, <1>3, <1>4, <1>5, <1>6, <1>7, <1>8, <1>9, <1>10, <1>11, <1>12,
     <1>13, <1>14, <1>15, <1>16
  DEF Next, Run, Collect

\* The regions are selected once, from a list of subscriptions that does not change
\* any more.
LEMMA StepSelection == IInv /\ [Next]_vars => SelectionKept'
<1>0. SUFFICES ASSUME IInv, [Next]_vars PROVE SelectionKept'
  OBVIOUS
<1>a. SelectionKept /\ TypeOK /\ JobsByStage
  BY <1>0 DEF IInv
<1> USE DEF SelectionKept, Early, Ready, Searching, config, pool, local, report, exit
<1>1. CASE Parse
  BY <1>a, <1>1 DEF Parse, Stop
<1>2. CASE NewCollector
  BY <1>a, <1>2 DEF NewCollector, Stop
<1>3. CASE ListRegions
  BY <1>a, <1>3 DEF ListRegions, Stop
<1>4. CASE SelectRegions
  BY <1>a, <1>4 DEF SelectRegions, Stop, Pool!Start, Selection
<1>5. ASSUME NEW j \in jobs, SearchRegion(j) PROVE SelectionKept'
  BY <1>a, <1>5 DEF SearchRegion, Pool!Record, Pool!Fail, Pool!settled
<1>6. ASSUME NEW j \in jobs, GetDatabase(j) PROVE SelectionKept'
  BY <1>a, <1>6 DEF GetDatabase, Pool!Record, Pool!Fail, Pool!settled
<1>7. ASSUME NEW j \in jobs, GetComputeInstance(j) PROVE SelectionKept'
  BY <1>a, <1>7 DEF GetComputeInstance, Pool!Record, Pool!Fail, Pool!settled
<1>8. CASE PoolReturns
  BY <1>a, <1>8 DEF PoolReturns, Pool!Return, Pool!settled
<1>9. CASE DatabasesSearched
  BY <1>a, <1>9 DEF DatabasesSearched, Pool!Start
<1>10. CASE DatabasesRetrieved
  BY <1>a, <1>10 DEF DatabasesRetrieved, Pool!Start
<1>11. CASE InstancesSearched
  BY <1>a, <1>11 DEF InstancesSearched, Pool!Start
<1>12. CASE InstancesRetrieved
  BY <1>a, <1>12 DEF InstancesRetrieved
<1>13. CASE Write
  BY <1>a, <1>13 DEF Write, Stop
<1>14. CASE Status
  BY <1>a, <1>14 DEF Status, Stop
<1>15. CASE Expire
  BY <1>a, <1>15 DEF Expire, Pool!Expire
<1>16. CASE UNCHANGED vars
  BY <1>a, <1>16 DEF vars
<1>17. QED
  BY <1>0, <1>1, <1>2, <1>3, <1>4, <1>5, <1>6, <1>7, <1>8, <1>9, <1>10, <1>11, <1>12,
     <1>13, <1>14, <1>15, <1>16
  DEF Next, Run, Collect

\* Each pool is started with the jobs of its stage, and keeps them.
LEMMA StepJobs == IInv /\ [Next]_vars => JobsByStage'
<1>0. SUFFICES ASSUME IInv, [Next]_vars PROVE JobsByStage'
  OBVIOUS
<1>a. JobsByStage /\ SelectionKept /\ TypeOK
  BY <1>0 DEF IInv
<1> USE DEF JobsByStage, Searching, config, pool, local, report, exit
<1>1. CASE Parse
  BY <1>a, <1>1 DEF Parse, Stop
<1>2. CASE NewCollector
  BY <1>a, <1>2 DEF NewCollector, Stop
<1>3. CASE ListRegions
  BY <1>a, <1>3 DEF ListRegions, Stop
<1>4. CASE SelectRegions
  BY <1>a, <1>4 DEF SelectRegions, Stop, Pool!Start, SelectionKept, Early
<1>5. ASSUME NEW j \in jobs, SearchRegion(j) PROVE JobsByStage'
  <2>1. /\ Searching /\ found' \subseteq found \cup Listed(j) /\ j \in Region
        /\ UNCHANGED <<stage, jobs, scanned, refs>>
    BY <1>a, <1>5, SearchEffect
  <2>2. QED  BY <1>a, <2>1, ListedKind
<1>6. ASSUME NEW j \in jobs, GetDatabase(j) PROVE JobsByStage'
  BY <1>a, <1>6 DEF GetDatabase, Pool!Record, Pool!Fail, Pool!settled
<1>7. ASSUME NEW j \in jobs, GetComputeInstance(j) PROVE JobsByStage'
  BY <1>a, <1>7 DEF GetComputeInstance, Pool!Record, Pool!Fail, Pool!settled
<1>8. CASE PoolReturns
  BY <1>a, <1>8 DEF PoolReturns, Pool!Return, Pool!settled
<1>9. CASE DatabasesSearched
  BY <1>a, <1>9 DEF DatabasesSearched, Pool!Start, SelectionKept, Early, Resource
<1>10. CASE DatabasesRetrieved
  BY <1>a, <1>10 DEF DatabasesRetrieved, Pool!Start
<1>11. CASE InstancesSearched
  BY <1>a, <1>11, ResourceAssumption DEF InstancesSearched, Pool!Start
<1>12. CASE InstancesRetrieved
  BY <1>a, <1>12 DEF InstancesRetrieved
<1>13. CASE Write
  BY <1>a, <1>13 DEF Write, Stop
<1>14. CASE Status
  BY <1>a, <1>14 DEF Status, Stop
<1>15. CASE Expire
  BY <1>a, <1>15 DEF Expire, Pool!Expire
<1>16. CASE UNCHANGED vars
  BY <1>a, <1>16 DEF vars
<1>17. QED
  BY <1>0, <1>1, <1>2, <1>3, <1>4, <1>5, <1>6, <1>7, <1>8, <1>9, <1>10, <1>11, <1>12,
     <1>13, <1>14, <1>15, <1>16
  DEF Next, Run, Collect

\* What a search lists is in scope, and a region searched to the end is listed whole.
LEMMA StepSearches == IInv /\ [Next]_vars => SearchesKept'
<1>0. SUFFICES ASSUME IInv, [Next]_vars PROVE SearchesKept'
  OBVIOUS
<1>a. SearchesKept /\ JobsByStage /\ TypeOK /\ SelectionKept
  BY <1>0 DEF IInv
<1> USE DEF SearchesKept, Searching, InScope, config, pool, local, report, exit
<1>1. CASE Parse
  BY <1>a, <1>1 DEF Parse, Stop
<1>2. CASE NewCollector
  BY <1>a, <1>2 DEF NewCollector, Stop
<1>3. CASE ListRegions
  BY <1>a, <1>3 DEF ListRegions, Stop
<1>4. CASE SelectRegions
  BY <1>a, <1>4 DEF SelectRegions, Stop, Pool!Start, SelectionKept, Early
<1>5. ASSUME NEW j \in jobs, SearchRegion(j) PROVE SearchesKept'
  <2>1. /\ Searching /\ j \in Region /\ j \in scanned
        /\ found \subseteq found' /\ found' \subseteq found \cup Listed(j)
        /\ retrieved' \subseteq retrieved \cup {j}
        /\ j \in retrieved' => Listed(j) \subseteq found'
        /\ UNCHANGED <<stage, jobs, scanned, refs>>
    BY <1>a, <1>5, SearchEffect
  <2>2. found' \subseteq InScope' /\ refs' \subseteq InScope'
    BY <1>a, <2>1, ListedKind
  <2>3. \A r \in retrieved' : Listed(r)' \subseteq found'
    BY <1>a, <2>1 DEF Listed
  <2>4. QED  BY <2>2, <2>3
<1>6. ASSUME NEW j \in jobs, GetDatabase(j) PROVE SearchesKept'
  BY <1>a, <1>6 DEF GetDatabase, Pool!Record, Pool!Fail, Pool!settled
<1>7. ASSUME NEW j \in jobs, GetComputeInstance(j) PROVE SearchesKept'
  BY <1>a, <1>7 DEF GetComputeInstance, Pool!Record, Pool!Fail, Pool!settled
<1>8. CASE PoolReturns
  BY <1>a, <1>8 DEF PoolReturns, Pool!Return, Pool!settled, Listed
<1>9. CASE DatabasesSearched
  BY <1>a, <1>9 DEF DatabasesSearched, Pool!Start
<1>10. CASE DatabasesRetrieved
  BY <1>a, <1>10 DEF DatabasesRetrieved, Pool!Start
<1>11. CASE InstancesSearched
  BY <1>a, <1>11 DEF InstancesSearched, Pool!Start
<1>12. CASE InstancesRetrieved
  BY <1>a, <1>12 DEF InstancesRetrieved
<1>13. CASE Write
  BY <1>a, <1>13 DEF Write, Stop
<1>14. CASE Status
  BY <1>a, <1>14 DEF Status, Stop
<1>15. CASE Expire
  BY <1>a, <1>15 DEF Expire, Pool!Expire, Listed
<1>16. CASE UNCHANGED vars
  BY <1>a, <1>16 DEF vars, Listed
<1>17. QED
  BY <1>0, <1>1, <1>2, <1>3, <1>4, <1>5, <1>6, <1>7, <1>8, <1>9, <1>10, <1>11, <1>12,
     <1>13, <1>14, <1>15, <1>16
  DEF Next, Run, Collect

\* An instance is found incomplete with its record, and its errors are appended with
\* the records.
LEMMA StepPartial == IInv /\ [Next]_vars => PartialKept'
<1>0. SUFFICES ASSUME IInv, [Next]_vars PROVE PartialKept'
  OBVIOUS
<1>a. PartialKept /\ ErrorsKept /\ TypeOK /\ JobsByStage /\ SelectionKept
  BY <1>0 DEF IInv
<1> USE DEF PartialKept, SelectionKept, Early, DatabasesPending, InstancesPending,
            config, pool, local, report, exit
<1>1. CASE Parse
  BY <1>a, <1>1 DEF Parse, Stop, TypeOK, Subjects
<1>2. CASE NewCollector
  BY <1>a, <1>2 DEF NewCollector, Stop, TypeOK, Subjects
<1>3. CASE ListRegions
  BY <1>a, <1>3 DEF ListRegions, Stop, TypeOK, Subjects
<1>4. CASE SelectRegions
  BY <1>a, <1>4 DEF SelectRegions, Stop, Pool!Start, TypeOK, Subjects
<1>5. ASSUME NEW j \in jobs, SearchRegion(j) PROVE PartialKept'
  BY <1>a, <1>5 DEF SearchRegion, Pool!Record, Pool!Fail, Pool!settled, Searching
<1>6. ASSUME NEW j \in jobs, GetDatabase(j) PROVE PartialKept'
  BY <1>a, <1>6 DEF GetDatabase, Pool!Record, Pool!Fail, Pool!settled
<1>7. ASSUME NEW j \in jobs, GetComputeInstance(j) PROVE PartialKept'
  BY <1>a, <1>7 DEF GetComputeInstance, Pool!Record, Pool!Fail, Pool!settled
<1>8. CASE PoolReturns
  BY <1>a, <1>8 DEF PoolReturns, Pool!Return, Pool!settled, Subjects
<1>9. CASE DatabasesSearched
  BY <1>a, <1>9 DEF DatabasesSearched, Pool!Start
<1>10. CASE DatabasesRetrieved
  BY <1>a, <1>10 DEF DatabasesRetrieved, Pool!Start
<1>11. CASE InstancesSearched
  BY <1>a, <1>11 DEF InstancesSearched, Pool!Start
<1>12. CASE InstancesRetrieved
  <2>1. degraded' \subseteq Subjects("volumes")'
    BY <1>a, <1>12, InstanceErrorsAppended DEF InstancesRetrieved
  <2>2. partial' \subseteq instances'
    BY <1>a, <1>12 DEF InstancesRetrieved
  <2>3. stage' = "write"
    BY <1>12 DEF InstancesRetrieved
  <2>4. QED  BY <2>1, <2>2, <2>3
<1>13. CASE Write
  BY <1>a, <1>13 DEF Write, Stop, Subjects
<1>14. CASE Status
  BY <1>a, <1>14 DEF Status, Stop, Subjects
<1>15. CASE Expire
  BY <1>a, <1>15 DEF Expire, Pool!Expire, Subjects
<1>16. CASE UNCHANGED vars
  BY <1>a, <1>16 DEF vars, Subjects
<1>17. QED
  BY <1>0, <1>1, <1>2, <1>3, <1>4, <1>5, <1>6, <1>7, <1>8, <1>9, <1>10, <1>11, <1>12,
     <1>13, <1>14, <1>15, <1>16
  DEF Next, Run, Collect

\* Collect appends the records and the errors of a pool together.
LEMMA StepErrors == IInv /\ [Next]_vars => ErrorsKept'
<1>0. SUFFICES ASSUME IInv, [Next]_vars PROVE ErrorsKept'
  OBVIOUS
<1>a. ErrorsKept /\ TypeOK /\ JobsByStage /\ PoolSettled /\ PartialKept /\ SelectionKept
  BY <1>0 DEF IInv
<1> USE DEF ErrorsKept, Early, DatabasesPending, InstancesPending, config, pool,
            local, report, exit
<1>1. CASE Parse
  BY <1>a, <1>1, ErrorsUnchanged DEF Parse, Stop, ErrorStages
<1>2. CASE NewCollector
  BY <1>a, <1>2, ErrorsUnchanged DEF NewCollector, Stop, ErrorStages
<1>3. CASE ListRegions
  BY <1>a, <1>3, ErrorsUnchanged DEF ListRegions, Stop, ErrorStages
<1>4. CASE SelectRegions
  BY <1>a, <1>4, ErrorsUnchanged DEF SelectRegions, Stop, Pool!Start, ErrorStages,
     SelectionKept
<1>5. ASSUME NEW j \in jobs, SearchRegion(j) PROVE ErrorsKept'
  BY <1>a, <1>5, ErrorsUnchanged DEF SearchRegion, Pool!Record, Pool!Fail,
     Pool!settled, ErrorStages, Searching
<1>6. ASSUME NEW j \in jobs, GetDatabase(j) PROVE ErrorsKept'
  BY <1>a, <1>6, ErrorsUnchanged DEF GetDatabase, Pool!Record, Pool!Fail,
     Pool!settled, ErrorStages
<1>7. ASSUME NEW j \in jobs, GetComputeInstance(j) PROVE ErrorsKept'
  BY <1>a, <1>7, ErrorsUnchanged DEF GetComputeInstance, Pool!Record, Pool!Fail,
     Pool!settled, ErrorStages
<1>8. CASE PoolReturns
  BY <1>a, <1>8, ErrorsUnchanged DEF PoolReturns, Pool!Return, Pool!settled, ErrorStages
<1>9. CASE DatabasesSearched
  <2>1. Appended("search_autonomous_database", failed)
    BY <1>a, <1>9, ErrorsAppended DEF DatabasesSearched, TypeOK, ErrorStages
  <2>2. failed \subseteq scanned
    BY <1>a, <1>9 DEF DatabasesSearched, TypeOK, JobsByStage, Searching
  <2>3. /\ refs' = refs \cup found /\ UNCHANGED <<scanned, databases, instances, degraded>>
        /\ stage = "search_db" /\ stage' = "get_db"
    BY <1>9 DEF DatabasesSearched
  <2>4. QED  BY <1>a, <2>1, <2>2, <2>3 DEF Appended, ErrorStages
<1>10. CASE DatabasesRetrieved
  <2>1. Appended("get_autonomous_database", failed)
    BY <1>a, <1>10, ErrorsAppended DEF DatabasesRetrieved, TypeOK, ErrorStages
  <2>2. jobs = refs /\ refs \subseteq Database /\ retrieved \cap failed = {}
        /\ retrieved \subseteq jobs /\ failed \subseteq jobs
    BY <1>a, <1>10 DEF DatabasesRetrieved, TypeOK, JobsByStage, PoolSettled
  <2>3. /\ databases' = retrieved /\ UNCHANGED <<scanned, refs, instances, degraded>>
        /\ stage = "get_db" /\ stage' = "search_vm"
    BY <1>10 DEF DatabasesRetrieved
  <2>4. QED  BY <1>a, <2>1, <2>2, <2>3 DEF Appended, ErrorStages
<1>11. CASE InstancesSearched
  <2>1. Appended("search_compute_instance", failed)
    BY <1>a, <1>11, ErrorsAppended DEF InstancesSearched, TypeOK, ErrorStages
  <2>2. failed \subseteq scanned
    BY <1>a, <1>11 DEF InstancesSearched, TypeOK, JobsByStage, Searching
  <2>3. /\ refs' = refs \cup found /\ UNCHANGED <<scanned, databases, instances, degraded>>
        /\ stage = "search_vm" /\ stage' = "get_vm"
    BY <1>11 DEF InstancesSearched
  <2>4. QED  BY <1>a, <2>1, <2>2, <2>3 DEF Appended, ErrorStages
<1>12. CASE InstancesRetrieved
  <2>1. /\ jobs = refs \cap Instance /\ retrieved \cap failed = {}
        /\ retrieved \subseteq jobs /\ failed \subseteq jobs
        /\ degraded \subseteq retrieved
    BY <1>a, <1>12 DEF InstancesRetrieved, TypeOK, JobsByStage, PoolSettled, PartialKept
  <2>2. /\ instances' = retrieved /\ UNCHANGED <<scanned, refs, databases, degraded>>
        /\ stage = "get_vm" /\ stage' = "write"
    BY <1>12 DEF InstancesRetrieved
  <2>3. /\ Subjects("get_compute_instance")' = failed /\ Subjects("volumes")' = degraded
        /\ \A t \in ErrorStages \ {"get_compute_instance", "volumes"} :
               Subjects(t)' = Subjects(t)
    BY <1>a, <1>12, <2>2, InstanceErrorsAppended
  <2>4. QED  BY <1>a, <2>1, <2>2, <2>3 DEF ErrorStages
<1>13. CASE Write
  BY <1>a, <1>13, ErrorsUnchanged DEF Write, Stop, ErrorStages
<1>14. CASE Status
  BY <1>a, <1>14, ErrorsUnchanged DEF Status, Stop, ErrorStages
<1>15. CASE Expire
  BY <1>a, <1>15, ErrorsUnchanged DEF Expire, Pool!Expire, ErrorStages
<1>16. CASE UNCHANGED vars
  BY ErrorsUnchanged, <1>a, <1>16 DEF vars, ErrorStages
<1>17. QED
  BY <1>0, <1>1, <1>2, <1>3, <1>4, <1>5, <1>6, <1>7, <1>8, <1>9, <1>10, <1>11, <1>12,
     <1>13, <1>14, <1>15, <1>16
  DEF Next, Run, Collect

\* A pool that returns before the deadline has answered every job, so nothing goes
\* missing between two pools.
LEMMA StepAccounted == IInv /\ [Next]_vars => Accounted'
<1>0. SUFFICES ASSUME IInv, [Next]_vars PROVE Accounted'
  OBVIOUS
<1>a. Accounted /\ ErrorsKept /\ TypeOK /\ JobsByStage /\ PoolSettled /\ SearchesKept
     /\ SelectionKept
  BY <1>0 DEF IInv
<1> USE DEF Accounted, Early, DatabasesPending, InstancesPending, config, pool, local,
            report, exit
<1>1. CASE Parse
  <2>1. stage' \in Early \cup {"search_db"} \/ (scanned' = {} /\ refs' = {})
    BY <1>a, <1>1 DEF Parse, Stop, SelectionKept
  <2>2. QED  BY <1>a, <2>1 DEF InScope, TypeOK
<1>2. CASE NewCollector
  <2>1. stage' \in Early \cup {"search_db"} \/ (scanned' = {} /\ refs' = {})
    BY <1>a, <1>2 DEF NewCollector, Stop, SelectionKept
  <2>2. QED  BY <1>a, <2>1 DEF InScope, TypeOK
<1>3. CASE ListRegions
  <2>1. stage' \in Early \cup {"search_db"} \/ (scanned' = {} /\ refs' = {})
    BY <1>a, <1>3 DEF ListRegions, Stop, SelectionKept
  <2>2. QED  BY <1>a, <2>1 DEF InScope, TypeOK
<1>4. CASE SelectRegions
  <2>1. stage' \in Early \cup {"search_db"} \/ (scanned' = {} /\ refs' = {})
    BY <1>a, <1>4 DEF SelectRegions, Stop, SelectionKept
  <2>2. QED  BY <1>a, <2>1 DEF InScope, TypeOK
<1>5. ASSUME NEW j \in jobs, SearchRegion(j) PROVE Accounted'
  BY <1>a, <1>5, ErrorsUnchanged DEF SearchRegion, Pool!Record, Pool!Fail,
     Pool!settled, ErrorStages, Searching, InScope
<1>6. ASSUME NEW j \in jobs, GetDatabase(j) PROVE Accounted'
  BY <1>a, <1>6, ErrorsUnchanged DEF GetDatabase, Pool!Record, Pool!Fail,
     Pool!settled, ErrorStages, InScope
<1>7. ASSUME NEW j \in jobs, GetComputeInstance(j) PROVE Accounted'
  BY <1>a, <1>7, ErrorsUnchanged DEF GetComputeInstance, Pool!Record, Pool!Fail,
     Pool!settled, ErrorStages, InScope
<1>8. CASE PoolReturns
  BY <1>a, <1>8, ErrorsUnchanged DEF PoolReturns, Pool!Return, Pool!settled,
     ErrorStages, InScope
<1>9. CASE DatabasesSearched
  <2>1. Appended("search_autonomous_database", failed)
    BY <1>a, <1>9, ErrorsAppended DEF DatabasesSearched, TypeOK, ErrorStages
  <2>2. /\ refs' = refs \cup found /\ UNCHANGED <<expired, scanned>>
        /\ stage = "search_db" /\ returned /\ stage' = "get_db"
    BY <1>9 DEF DatabasesSearched, Pool!Start
  <2>3. ASSUME ~expired, NEW x \in Database \cap InScope
        PROVE  x \in found \/ Location[x] \in failed
    <3>1. Location[x] \in retrieved \cup failed
      BY <1>a, <2>2, <2>3 DEF PoolSettled, JobsByStage, Searching, InScope
    <3>2. x \in Listed(Location[x])
      BY <2>2, <2>3 DEF Listed
    <3>3. QED  BY <1>a, <2>2, <3>1, <3>2 DEF SearchesKept, Searching
  <2>4. QED  BY <1>a, <2>1, <2>2, <2>3 DEF Appended, InScope, SelectionKept, ErrorStages
<1>10. CASE DatabasesRetrieved
  <2>1. Appended("get_autonomous_database", failed)
    BY <1>a, <1>10, ErrorsAppended DEF DatabasesRetrieved, TypeOK, ErrorStages
  <2>2. /\ databases' = retrieved /\ UNCHANGED <<expired, scanned, refs, instances>>
        /\ stage = "get_db" /\ returned /\ stage' = "search_vm"
    BY <1>10 DEF DatabasesRetrieved, Pool!Start
  <2>3. ~expired => refs \subseteq retrieved \cup failed
    BY <1>a, <2>2 DEF PoolSettled, JobsByStage
  <2>4. QED  BY <1>a, <2>1, <2>2, <2>3 DEF Appended, InScope, ErrorStages
<1>11. CASE InstancesSearched
  <2>1. Appended("search_compute_instance", failed)
    BY <1>a, <1>11, ErrorsAppended DEF InstancesSearched, TypeOK, ErrorStages
  <2>2. /\ refs' = refs \cup found /\ UNCHANGED <<expired, scanned, databases>>
        /\ stage = "search_vm" /\ returned /\ stage' = "get_vm"
    BY <1>11 DEF InstancesSearched, Pool!Start
  <2>3. ASSUME ~expired, NEW x \in Instance \cap InScope
        PROVE  x \in found \/ Location[x] \in failed
    <3>1. Location[x] \in retrieved \cup failed
      BY <1>a, <2>2, <2>3 DEF PoolSettled, JobsByStage, Searching, InScope
    <3>2. x \in Listed(Location[x])
      BY <2>2, <2>3 DEF Listed
    <3>3. QED  BY <1>a, <2>2, <3>1, <3>2 DEF SearchesKept, Searching
  <2>4. found \cap Database = {}
    BY <1>a, <2>2, ResourceAssumption DEF JobsByStage
  <2>5. QED  BY <1>a, <2>1, <2>2, <2>3, <2>4 DEF Appended, InScope, ErrorStages
<1>12. CASE InstancesRetrieved
  <2>1. /\ instances' = retrieved /\ UNCHANGED <<expired, scanned, refs, databases>>
        /\ stage = "get_vm" /\ returned /\ stage' = "write"
    BY <1>12 DEF InstancesRetrieved
  <2>2. /\ Subjects("get_compute_instance")' = Subjects("get_compute_instance") \cup failed
        /\ \A t \in ErrorStages \ {"get_compute_instance", "volumes"} :
               Subjects(t)' = Subjects(t)
    BY <1>a, <1>12, InstanceErrorsAppended
  <2>3. ~expired => refs \cap Instance \subseteq retrieved \cup failed
    BY <1>a, <2>1 DEF PoolSettled, JobsByStage
  <2>4. QED  BY <1>a, <2>1, <2>2, <2>3 DEF InScope, ErrorStages
<1>13. CASE Write
  BY <1>a, <1>13, ErrorsUnchanged DEF Write, Stop, ErrorStages, InScope
<1>14. CASE Status
  BY <1>a, <1>14, ErrorsUnchanged DEF Status, Stop, ErrorStages, InScope
<1>15. CASE Expire
  BY <1>a, <1>15, ErrorsUnchanged DEF Expire, Pool!Expire, ErrorStages, InScope
<1>16. CASE UNCHANGED vars
  BY ErrorsUnchanged, <1>a, <1>16 DEF vars, InScope, ErrorStages
<1>17. QED
  BY <1>0, <1>1, <1>2, <1>3, <1>4, <1>5, <1>6, <1>7, <1>8, <1>9, <1>10, <1>11, <1>12,
     <1>13, <1>14, <1>15, <1>16
  DEF Next, Run, Collect

\* The exit status is decided after the report is published, and then kept.
LEMMA StepExit == IInv /\ [Next]_vars => ExitKept'
<1>0. SUFFICES ASSUME IInv, [Next]_vars PROVE ExitKept'
  OBVIOUS
<1>a. ExitKept /\ TypeOK
  BY <1>0 DEF IInv
<1> USE DEF ExitKept, config, pool, local, report, exit
<1>1. CASE Parse
  BY <1>a, <1>1 DEF Parse, Stop
<1>2. CASE NewCollector
  BY <1>a, <1>2 DEF NewCollector, Stop
<1>3. CASE ListRegions
  BY <1>a, <1>3 DEF ListRegions, Stop
<1>4. CASE SelectRegions
  BY <1>a, <1>4 DEF SelectRegions, Stop, Pool!Start
<1>5. ASSUME NEW j \in jobs, SearchRegion(j) PROVE ExitKept'
  BY <1>a, <1>5 DEF SearchRegion, Pool!Record, Pool!Fail, Pool!settled, Searching
<1>6. ASSUME NEW j \in jobs, GetDatabase(j) PROVE ExitKept'
  BY <1>a, <1>6 DEF GetDatabase, Pool!Record, Pool!Fail, Pool!settled
<1>7. ASSUME NEW j \in jobs, GetComputeInstance(j) PROVE ExitKept'
  BY <1>a, <1>7 DEF GetComputeInstance, Pool!Record, Pool!Fail, Pool!settled
<1>8. CASE PoolReturns
  BY <1>a, <1>8 DEF PoolReturns, Pool!Return, Pool!settled
<1>9. CASE DatabasesSearched
  BY <1>a, <1>9 DEF DatabasesSearched, Pool!Start
<1>10. CASE DatabasesRetrieved
  BY <1>a, <1>10 DEF DatabasesRetrieved, Pool!Start
<1>11. CASE InstancesSearched
  BY <1>a, <1>11 DEF InstancesSearched, Pool!Start
<1>12. CASE InstancesRetrieved
  BY <1>a, <1>12 DEF InstancesRetrieved
<1>13. CASE Write
  BY <1>a, <1>13 DEF Write, Stop
<1>14. CASE Status
  BY <1>a, <1>14 DEF Status, Stop
<1>15. CASE Expire
  BY <1>a, <1>15 DEF Expire, Pool!Expire
<1>16. CASE UNCHANGED vars
  BY <1>a, <1>16 DEF vars
<1>17. QED
  BY <1>0, <1>1, <1>2, <1>3, <1>4, <1>5, <1>6, <1>7, <1>8, <1>9, <1>10, <1>11, <1>12,
     <1>13, <1>14, <1>15, <1>16
  DEF Next, Run, Collect

\* Only a failed write leads past the selection to an exit without a report.
LEMMA StepPublish == IInv /\ [Next]_vars => FailuresStillPublish'
<1>0. SUFFICES ASSUME IInv, [Next]_vars PROVE FailuresStillPublish'
  OBVIOUS
<1>a. FailuresStillPublish /\ ExitKept /\ SelectionKept
  BY <1>0 DEF IInv
<1> USE DEF FailuresStillPublish, ExitKept, SelectionKept, Early, config, pool, local,
            report, exit
<1>1. CASE Parse
  BY <1>a, <1>1 DEF Parse, Stop
<1>2. CASE NewCollector
  BY <1>a, <1>2 DEF NewCollector, Stop
<1>3. CASE ListRegions
  BY <1>a, <1>3 DEF ListRegions, Stop
<1>4. CASE SelectRegions
  BY <1>a, <1>4 DEF SelectRegions, Stop, Pool!Start
<1>5. ASSUME NEW j \in jobs, SearchRegion(j) PROVE FailuresStillPublish'
  BY <1>a, <1>5 DEF SearchRegion, Pool!Record, Pool!Fail, Pool!settled, Searching
<1>6. ASSUME NEW j \in jobs, GetDatabase(j) PROVE FailuresStillPublish'
  BY <1>a, <1>6 DEF GetDatabase, Pool!Record, Pool!Fail, Pool!settled
<1>7. ASSUME NEW j \in jobs, GetComputeInstance(j) PROVE FailuresStillPublish'
  BY <1>a, <1>7 DEF GetComputeInstance, Pool!Record, Pool!Fail, Pool!settled
<1>8. CASE PoolReturns
  BY <1>a, <1>8 DEF PoolReturns, Pool!Return, Pool!settled
<1>9. CASE DatabasesSearched
  BY <1>a, <1>9 DEF DatabasesSearched, Pool!Start
<1>10. CASE DatabasesRetrieved
  BY <1>a, <1>10 DEF DatabasesRetrieved, Pool!Start
<1>11. CASE InstancesSearched
  BY <1>a, <1>11 DEF InstancesSearched, Pool!Start
<1>12. CASE InstancesRetrieved
  BY <1>a, <1>12 DEF InstancesRetrieved
<1>13. CASE Write
  BY <1>a, <1>13 DEF Write, Stop
<1>14. CASE Status
  BY <1>a, <1>14 DEF Status, Stop
<1>15. CASE Expire
  BY <1>a, <1>15 DEF Expire, Pool!Expire
<1>16. CASE UNCHANGED vars
  BY <1>a, <1>16 DEF vars
<1>17. QED
  BY <1>0, <1>1, <1>2, <1>3, <1>4, <1>5, <1>6, <1>7, <1>8, <1>9, <1>10, <1>11, <1>12,
     <1>13, <1>14, <1>15, <1>16
  DEF Next, Run, Collect

-----------------------------------------------------------------------------
(* The theorems.                                                            *)

\* The invariant holds wherever the deadline falls and whatever fails.
THEOREM Invariant == Spec => []IInv
<1>1. IInv /\ [Next]_vars => IInv'
  BY StepTyped, StepPool, StepSelection, StepJobs, StepSearches, StepPartial,
     StepErrors, StepAccounted, StepExit, StepPublish DEF IInv
<1>2. QED  BY InitInvariant, <1>1, PTL DEF Spec

\* Every variable keeps its type, the report's lists among them (model.go, collector.go).
THEOREM TypeCorrect == Spec => []TypeOK
<1>1. IInv => TypeOK
  BY DEF IInv
<1>2. QED  BY Invariant, <1>1, PTL

\* The error a search, or a lookup, leaves of a resource, in terms of Subjects.
LEMMA ErrorsOfResource ==
    ASSUME TypeOK, NEW x \in Resource
    PROVE  /\ x \in Database =>
                  /\ GetError(x) \in errors <=> x \in Subjects("get_autonomous_database")
                  /\ SearchError(x) \in errors <=>
                         Location[x] \in Subjects("search_autonomous_database")
           /\ x \notin Database =>
                  /\ x \in Instance
                  /\ GetError(x) \in errors <=> x \in Subjects("get_compute_instance")
                  /\ SearchError(x) \in errors <=>
                         Location[x] \in Subjects("search_compute_instance")
<1>1. Location[x] \in Region
  BY LocationAssumption
<1>2. QED  BY <1>1 DEF GetError, SearchError, Subjects, Resource

\* A report that is late enough, and not too late, accounts for every resource in
\* scope.
LEMMA Complete ==
    ASSUME IInv, ~expired, stage \notin InstancesPending, NEW x \in Resource,
           Location[x] \in scanned
    PROVE  IF x \in refs THEN x \in Records \/ GetError(x) \in errors
                         ELSE SearchError(x) \in errors
<1>1. TypeOK /\ Accounted
  BY DEF IInv
<1>2. stage \notin Early \cup {"search_db"} /\ stage \notin DatabasesPending
      /\ stage \notin DatabasesPending \cup {"search_vm"}
  BY DEF InstancesPending, DatabasesPending
<1>3. CASE x \in Database
  BY <1>1, <1>2, <1>3, ErrorsOfResource DEF Accounted, InScope, Records
<1>4. CASE x \notin Database
  <2>1. x \in Instance
    BY <1>4 DEF Resource
  <2>2. QED  BY <1>1, <1>2, <1>4, <2>1, ErrorsOfResource DEF Accounted, InScope, Records
<1>5. QED  BY <1>3, <1>4

\* A report published before the deadline accounts for every resource of the regions
\* scanned: by its record, by its own error, or by the error of its region's search
\* (collector.go:91-117, 226-235).
THEOREM NothingUnaccounted == Spec => []AllAccountedFor
<1>1. IInv => AllAccountedFor
  <2> SUFFICES ASSUME IInv, published, ~expired, NEW x \in Resource, Location[x] \in scanned
               PROVE  IF x \in refs THEN x \in Records \/ GetError(x) \in errors
                                    ELSE SearchError(x) \in errors
    BY DEF AllAccountedFor
  <2>1. stage \notin InstancesPending
    BY DEF IInv, ExitKept, InstancesPending, DatabasesPending, Early
  <2>2. QED  BY <2>1, Complete
<1>2. QED  BY Invariant, <1>1, PTL

\* Exit status 0 in strict mode certifies a complete report (main.go:70-78).
THEOREM StrictCertifies == Spec => []StrictSuccessIsComplete
<1>1. IInv => StrictSuccessIsComplete
  <2>0. SUFFICES ASSUME IInv, stage = "exited", published, exitCode = 0, strict
                 PROVE  /\ Records = {x \in Resource : Location[x] \in scanned}
                        /\ degraded = {}
    BY DEF StrictSuccessIsComplete
  <2>1. errors = {} /\ ~expired
    BY <2>0 DEF IInv, ExitKept
  <2>2. stage \notin InstancesPending
    BY <2>0 DEF InstancesPending, DatabasesPending, Early
  <2>3. \A x \in Resource : Location[x] \in scanned => x \in Records
    BY <2>0, <2>1, <2>2, Complete
  <2>4. \A x \in Records : x \in Resource /\ Location[x] \in scanned
    BY <2>0 DEF IInv, ErrorsKept, SearchesKept, InScope, Records
  <2>5. degraded = {}
    BY <2>0, <2>1, <2>2 DEF IInv, PartialKept, Subjects
  <2>6. QED  BY <2>3, <2>4, <2>5
<1>2. QED  BY Invariant, <1>1, PTL

\* No resource is both retrieved and failed (collector.go:345-355, 423-434).
THEOREM NeverBoth == Spec => []NoContradiction
<1>1. IInv => NoContradiction
  <2>0. SUFFICES ASSUME IInv PROVE NoContradiction
    OBVIOUS
  <2>1. TypeOK /\ ErrorsKept
    BY <2>0 DEF IInv
  <2>2. ASSUME NEW x \in Records PROVE GetError(x) \notin errors
    <3>1. CASE x \in databases
      BY <2>1, <3>1, ErrorsOfResource DEF ErrorsKept, TypeOK, Resource
    <3>2. CASE x \in instances
      <4>1. x \in Instance /\ x \notin Database
        BY <2>1, <3>2, ResourceAssumption DEF TypeOK
      <4>2. QED  BY <2>1, <3>2, <4>1, ErrorsOfResource DEF ErrorsKept, Resource
    <3>3. QED  BY <2>2, <3>1, <3>2 DEF Records
  <2>3. ASSUME NEW i \in Instance, [stage |-> "volumes", subject |-> i] \in errors
        PROVE  i \in instances /\ i \in partial
    <3>1. i \in Subjects("volumes")
      BY <2>3 DEF Subjects, Resource
    <3>2. QED  BY <2>1, <3>1 DEF ErrorsKept, TypeOK
  <2>4. QED  BY <2>2, <2>3 DEF NoContradiction
<1>2. QED  BY Invariant, <1>1, PTL

\* Every record and every error is about a READY region that was asked for
\* (collector.go:150-182).
THEOREM StaysInScope == Spec => []ReportStaysInScope
<1>1. IInv => ReportStaysInScope
  <2>0. SUFFICES ASSUME IInv PROVE ReportStaysInScope
    OBVIOUS
  <2>1. TypeOK /\ ErrorsKept /\ SearchesKept /\ SelectionKept
    BY <2>0 DEF IInv
  <2>2. \A x \in Records : Location[x] \in scanned
    BY <2>1 DEF ErrorsKept, SearchesKept, InScope, Records
  <2>3. ASSUME NEW e \in errors
        PROVE  IF e.subject \in Region THEN e.subject \in scanned
               ELSE Location[e.subject] \in scanned
    <3>1. /\ e.stage \in ErrorStages /\ e.subject \in Region \cup Resource
          /\ e = [stage |-> e.stage, subject |-> e.subject]
      BY <2>1 DEF TypeOK
    <3>2. e.subject \in Subjects(e.stage)
      BY <3>1 DEF Subjects
    <3>3. e.subject \in scanned \/ e.subject \in InScope
      BY <2>1, <3>1, <3>2 DEF ErrorsKept, SearchesKept, ErrorStages
    <3>4. CASE e.subject \in Region
      BY <3>3, <3>4, ResourceAssumption DEF InScope
    <3>5. CASE e.subject \notin Region
      BY <2>1, <3>3, <3>5 DEF InScope, TypeOK
    <3>6. QED  BY <3>4, <3>5
  <2>4. QED  BY <2>1, <2>2, <2>3 DEF SelectionKept, ReportStaysInScope
<1>2. QED  BY Invariant, <1>1, PTL

\* After the selection only a failed write keeps the report from being published
\* (docs/SDD.md section 9, main.go:61-78).
THEOREM PartialReportPublished == Spec => []FailuresStillPublish
<1>1. IInv => FailuresStillPublish
  BY DEF IInv
<1>2. QED  BY Invariant, <1>1, PTL

\* A run that exits with success has not lost what it found (collector.go:330-339,
\* main.go:70-73).
THEOREM LossNeverSilent == Spec => []SilentLossNeverSucceeds
<1>1. IInv => SilentLossNeverSucceeds
  <2>0. SUFFICES ASSUME IInv, stage = "exited", exitCode = 0, published, NEW x \in refs
                 PROVE  x \in Records \/ GetError(x) \in errors
    BY DEF SilentLossNeverSucceeds
  <2>1. ~expired
    BY <2>0 DEF IInv, ExitKept
  <2>2. stage \notin InstancesPending
    BY <2>0 DEF InstancesPending, DatabasesPending, Early
  <2>3. x \in Resource /\ Location[x] \in scanned
    BY <2>0 DEF IInv, SearchesKept, InScope
  <2>4. QED  BY <2>0, <2>1, <2>2, <2>3, Complete
<1>2. QED  BY Invariant, <1>1, PTL
=============================================================================
