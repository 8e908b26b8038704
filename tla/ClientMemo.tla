----------------------------- MODULE ClientMemo -----------------------------
(***************************************************************************)
(* What a client cache of internal/oci/collector.go promises the workers    *)
(* that share it: a region gets at most one client, for good; a worker that *)
(* asks for the client of a region gets that one, and is refused only while *)
(* the region has none.                                                     *)
(***************************************************************************)
CONSTANTS Worker, Region, Client, None

VARIABLES
    client,   \* the client of each region, with the region it talks to, or None
    asking,   \* the region each worker is asking about, or None
    answer    \* what the worker's last call returned

vars == <<client, asking, answer>>

Init == /\ client = [r \in Region |-> None]
        /\ asking = [w \in Worker |-> None]
        /\ answer = [w \in Worker |-> None]

Ask(w, r) == /\ asking[w] = None
             /\ asking' = [asking EXCEPT ![w] = r]
             /\ answer' = [answer EXCEPT ![w] = None]
             /\ UNCHANGED client

\* Only for someone who asks, and as a client of no other region.
Make(w, c) == LET r == asking[w] IN
    /\ r # None
    /\ client[r] = None
    /\ \A q \in Region : client[q] # [id |-> c, region |-> q]
    /\ client' = [client EXCEPT ![r] = [id |-> c, region |-> r]]
    /\ UNCHANGED <<asking, answer>>

Answer(w) == /\ asking[w] # None
             /\ client[asking[w]] # None
             /\ answer' = [answer EXCEPT ![w] = client[asking[w]].id]
             /\ asking' = [asking EXCEPT ![w] = None]
             /\ UNCHANGED client

Refuse(w) == /\ asking[w] # None
             /\ client[asking[w]] = None
             /\ asking' = [asking EXCEPT ![w] = None]
             /\ UNCHANGED <<client, answer>>

Next == \E w \in Worker :
            \/ \E r \in Region : Ask(w, r)
            \/ \E c \in Client : Make(w, c)
            \/ Answer(w) \/ Refuse(w)

Spec == Init /\ [][Next]_vars
=============================================================================
