----------------------------- MODULE ClientCache -----------------------------
(***************************************************************************)
(* The client caches of internal/oci/collector.go: a mutex and a map from   *)
(* regions to clients, shared by the workers of a pool. The caches for      *)
(* Database, Compute and Block Storage clients have the same code and share *)
(* nothing, and no call is made to one inside another, so this is any of    *)
(* them.                                                                    *)
(*                                                                          *)
(* A worker calls client once or more per job, for any region. Within one   *)
(* call its steps are those that other workers could come between if the    *)
(* mutex were not there.                                                    *)
(***************************************************************************)
CONSTANTS
    Worker,   \* goroutines that share the cache
    Region,
    Client,   \* the clients the SDK may create
    None      \* nil, and "no worker", "no region"

ASSUME NoneAssumption == /\ None \notin Worker \cup Region \cup Client
                         /\ None \notin [id : Client, region : Region]

VARIABLES
    pc,        \* where each worker is in client
    asked,     \* the region of its call, or None
    fresh,     \* the client it has created, or None
    got,       \* what its last call returned: a client, or None
    mutex,     \* the worker that holds mu, or None
    clients,   \* the map: the client of each region, or None
    target     \* the region each created client has been set to, or None

local  == <<asked, fresh, got>>
shared == <<mutex, clients, target>>
vars   == <<pc, local, shared>>

Init == /\ pc = [w \in Worker |-> "idle"]
        /\ asked = [w \in Worker |-> None]
        /\ fresh = [w \in Worker |-> None]
        /\ got = [w \in Worker |-> None]
        /\ mutex = None
        /\ clients = [r \in Region |-> None]
        /\ target = [c \in Client |-> None]

Goto(w, label) == pc' = [pc EXCEPT ![w] = label]

\* The clients that exist: created by someone, or in the map.
Created == {c \in Client : (\E w \in Worker : fresh[w] = c)
                           \/ target[c] # None}

-----------------------------------------------------------------------------
Ask(w, r) == /\ pc[w] = "idle"
             /\ Goto(w, "lock")
             /\ asked' = [asked EXCEPT ![w] = r]
             /\ got' = [got EXCEPT ![w] = None]
             /\ UNCHANGED <<fresh, shared>>

LockNothing(w) == /\ pc[w] = "lock"
                  /\ mutex' = w
                  /\ Goto(w, "lookup")
                  /\ UNCHANGED <<local, clients, target>>

Lock(w) == /\ pc[w] = "lock"
           /\ mutex = None
           /\ mutex' = w
           /\ Goto(w, "lookup")
           /\ UNCHANGED <<local, clients, target>>

LookupReleasing(w) ==
    /\ pc[w] = "lookup"
    /\ IF clients[asked[w]] # None
       THEN got' = [got EXCEPT ![w] = clients[asked[w]]] /\ Goto(w, "unlock") /\ UNCHANGED mutex
       ELSE mutex' = None /\ Goto(w, "create") /\ UNCHANGED got
    /\ UNCHANGED <<asked, fresh, clients, target>>

\* A hit is a client that is not nil.
Lookup(w) == /\ pc[w] = "lookup"
             /\ IF clients[asked[w]] # None
                THEN /\ got' = [got EXCEPT ![w] = clients[asked[w]]]
                     /\ Goto(w, "unlock")
                ELSE Goto(w, "create") /\ UNCHANGED got
             /\ UNCHANGED <<asked, fresh, shared>>

CreateFailsHoldingTheLock(w) ==
    /\ pc[w] = "create"
    /\ Goto(w, "idle")
    /\ asked' = [asked EXCEPT ![w] = None]
    /\ UNCHANGED <<fresh, got, shared>>

CreateFailsUnchecked(w) == /\ pc[w] = "create"
                           /\ Goto(w, "store")
                           /\ UNCHANGED <<local, shared>>

CreateFails(w) == /\ pc[w] = "create"
                  /\ Goto(w, "unlock")
                  /\ UNCHANGED <<local, shared>>

Create(w) == /\ pc[w] = "create"
             /\ \E c \in Client \ Created : fresh' = [fresh EXCEPT ![w] = c]
             /\ Goto(w, "set")
             /\ UNCHANGED <<asked, got, shared>>

SetRegion(w) == /\ pc[w] = "set"
                /\ target' = [target EXCEPT ![fresh[w]] = asked[w]]
                /\ Goto(w, "store")
                /\ UNCHANGED <<local, mutex, clients>>

Store(w) == /\ pc[w] = "store"
            /\ clients' = [clients EXCEPT ![asked[w]] = fresh[w]]
            /\ got' = [got EXCEPT ![w] = fresh[w]]
            /\ fresh' = [fresh EXCEPT ![w] = None]
            /\ Goto(w, "unlock")
            /\ UNCHANGED <<asked, mutex, target>>

\* The deferred Unlock runs on every return, the call's result already set.
Unlock(w) == /\ pc[w] = "unlock"
             /\ mutex' = None
             /\ asked' = [asked EXCEPT ![w] = None]
             /\ Goto(w, "idle")
             /\ UNCHANGED <<fresh, got, clients, target>>

Inside(w) == \/ Lookup(w) \/ Create(w) \/ CreateFails(w)
             \/ SetRegion(w) \/ Store(w) \/ Unlock(w)

Next == \E w \in Worker : \/ \E r \in Region : Ask(w, r)
                          \/ Lock(w) \/ Inside(w)

Spec == Init /\ [][Next]_vars

\* Creating a client makes no call; sync.Mutex hands itself to a worker that has
\* waited for long, so a worker that can lock again and again does lock.
FairSpec == /\ Spec
            /\ \A w \in Worker : SF_vars(Lock(w)) /\ WF_vars(Inside(w))

-----------------------------------------------------------------------------
Holding == {"lookup", "create", "set", "store", "unlock"}

TypeOK ==
    /\ pc \in [Worker -> {"idle", "lock"} \cup Holding]
    /\ asked \in [Worker -> Region \cup {None}]
    /\ fresh \in [Worker -> Client \cup {None}]
    /\ got \in [Worker -> Client \cup {None}]
    /\ mutex \in Worker \cup {None}
    /\ clients \in [Region -> Client \cup {None}]
    /\ target \in [Client -> Region \cup {None}]
    /\ \A w \in Worker : /\ asked[w] = None <=> pc[w] = "idle"
                         /\ fresh[w] = None <=> pc[w] \notin {"set", "store"}

\* No two workers are at the map at once: Go ends the program when it sees a map
\* written while it is read or written (collector.go:777-788).
MapAccessExclusive ==
    \A w, v \in Worker : pc[w] \in Holding /\ pc[v] \in Holding => w = v

Memo == INSTANCE ClientMemo WITH
            client <- [r \in Region |->
                          IF clients[r] = None THEN None
                          ELSE [id |-> clients[r], region |-> target[clients[r]]]],
            asking <- asked,
            answer <- [w \in Worker |-> IF asked[w] = None THEN got[w] ELSE None]

\* Workers that ask for the same region at the same time share one client, which
\* talks to that region; a failed creation is not kept, and no worker gets an
\* error once the region has its client (collector.go:707-789).
ImplementsMemo == Memo!Spec

\* Every call returns, also when clients cannot be created (collector.go:778).
CallsReturn == \A w \in Worker : pc[w] = "lock" ~> pc[w] = "idle"
==============================================================================
