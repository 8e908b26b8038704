--------------------------- MODULE JobSettlement ---------------------------
(***************************************************************************)
(* What one worker pool of the collector promises its caller, without the  *)
(* goroutines and channels: of the jobs it is given, each is answered at    *)
(* most once, with a record or with a failure, and the call returns with    *)
(* all of them answered unless the collection deadline passed.              *)
(*                                                                          *)
(* searchAllRegions, getAllDatabases and getAllComputeInstances of          *)
(* internal/oci/collector.go each make this promise. WorkerPool implements  *)
(* it; Inventory composes four such calls.                                  *)
(***************************************************************************)

VARIABLES
    jobs,       \* the regions or resource references handed to the pool
    retrieved,  \* the jobs answered by a record
    failed,     \* the jobs answered by an error
    expired,    \* the deadline of the collection context has passed
    returned    \* the pool has returned to its caller

vars == <<jobs, retrieved, failed, expired, returned>>

settled == retrieved \cup failed

\* The pool of an empty list of jobs: nothing answered, nothing to answer.
Idle == /\ jobs = {}
        /\ retrieved = {}
        /\ failed = {}
        /\ returned = TRUE

\* The caller hands the pool the jobs of S.
Start(S) == /\ returned
            /\ jobs' = S
            /\ retrieved' = {}
            /\ failed' = {}
            /\ returned' = FALSE
            /\ UNCHANGED expired

Init == /\ retrieved = {}
        /\ failed = {}
        /\ returned = FALSE
        /\ expired \in BOOLEAN

Record(j) == /\ ~returned
             /\ j \in jobs \ settled
             /\ retrieved' = retrieved \cup {j}
             /\ UNCHANGED <<jobs, failed, expired, returned>>

Fail(j) == /\ ~returned
           /\ j \in jobs \ settled
           /\ failed' = failed \cup {j}
           /\ UNCHANGED <<jobs, retrieved, expired, returned>>

\* Only the deadline lets the pool leave a job without an answer.
Return == /\ ~returned
          /\ expired \/ settled = jobs
          /\ returned' = TRUE
          /\ UNCHANGED <<jobs, retrieved, failed, expired>>

Expire == /\ ~expired
          /\ expired' = TRUE
          /\ UNCHANGED <<jobs, retrieved, failed, returned>>

Step == \/ \E j \in jobs : Record(j) \/ Fail(j)
        \/ Return

Next == Step \/ Expire

Spec == Init /\ [][Next]_vars
=============================================================================
