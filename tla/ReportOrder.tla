----------------------------- MODULE ReportOrder -----------------------------
(***************************************************************************)
(* The order Finalize of internal/model/model.go gives the records of a     *)
(* report. The pools return the records in the order of arrival (WorkerPool *)
(* appends them so); here two runs over the same tenancy receive the same   *)
(* records in orders of their own and sort them, side by side.              *)
(*                                                                          *)
(* sort.Slice sorts up to 12 elements by insertion: each is swapped down    *)
(* while it is less than its neighbour. Strings are their ranks; a display  *)
(* name is the rank of its lower-case form and a spelling.                  *)
(***************************************************************************)
EXTENDS Naturals, Sequences, SequencesExt

CONSTANTS
    Region,    \* ranks of regions
    Lower,     \* ranks of lower-cased display names
    Spelling,  \* ways to write a name
    Count      \* number of records

ASSUME RankAssumption == Region \subseteq Nat /\ Lower \subseteq Nat
ASSUME CountAssumption == Count \in 1..12

Run == 1..2
Ids == 1..Count

VARIABLES
    attributes,  \* region and display name of each record, by OCID
    list,        \* for each run, the slice of OCIDs
    sorted       \* for each run, how long the sorted prefix is

vars == <<attributes, list, sorted>>

Attributes == [region : Region, lower : Lower, spelling : Spelling]

Name(a) == <<attributes[a].lower, attributes[a].spelling>>

LessByName(a, b) ==
    \/ Name(a) # Name(b) /\ attributes[a].lower < attributes[b].lower
    \/ Name(a) = Name(b) /\ a < b

LessWithoutId(a, b) ==
    \/ attributes[a].region < attributes[b].region
    \/ attributes[a].region = attributes[b].region
       /\ attributes[a].lower < attributes[b].lower

\* The comparator of the databases and of the instances: region, then names that
\* differ by their lower-case forms, then OCIDs.
Less(a, b) ==
    \/ attributes[a].region < attributes[b].region
    \/ /\ attributes[a].region = attributes[b].region
       /\ \/ Name(a) # Name(b) /\ attributes[a].lower < attributes[b].lower
          \/ Name(a) = Name(b) /\ a < b

Init == /\ attributes \in [Ids -> Attributes]
        /\ list \in [Run -> SetToSeqs(Ids)]
        /\ sorted = [r \in Run |-> 1]

\* The place the element at position n is swapped down to.
Place(s, n) == CHOOSE k \in 1..n :
                   /\ \A m \in k..(n - 1) : Less(s[n], s[m])
                   /\ k = 1 \/ ~Less(s[n], s[k - 1])

InsertCopying(r) ==
    /\ sorted[r] < Count
    /\ LET n == sorted[r] + 1
           k == Place(list[r], n)
       IN list' = [list EXCEPT ![r][k] = list[r][n]]
    /\ sorted' = [sorted EXCEPT ![r] = @ + 1]
    /\ UNCHANGED attributes

Insert(r) ==
    /\ sorted[r] < Count
    /\ LET n == sorted[r] + 1
           k == Place(list[r], n)
       IN list' = [list EXCEPT ![r] = InsertAt(RemoveAt(@, n), k, list[r][n])]
    /\ sorted' = [sorted EXCEPT ![r] = @ + 1]
    /\ UNCHANGED attributes

Next == \E r \in Run : Insert(r)

Spec == Init /\ [][Next]_vars

-----------------------------------------------------------------------------
TypeOK == /\ attributes \in [Ids -> Attributes]
          /\ list \in [Run -> SetToSeqs(Ids)]
          /\ sorted \in [Run -> 1..Count]

Sorted(r) == sorted[r] = Count

Key(a) == <<attributes[a].region, attributes[a].lower>>

KeyLeq(a, b) == \/ Key(a)[1] < Key(b)[1]
                \/ Key(a)[1] = Key(b)[1] /\ Key(a)[2] <= Key(b)[2]

\* A finalised report goes from region to region and within a region from name
\* to name without regard to case, although the comparator is no order: names
\* that differ in case alone are not comparable while equal names are
\* (model.go:191-210).
NamesAscending ==
    \A r \in Run : Sorted(r) =>
        \A i \in 1..(Count - 1) : KeyLeq(list[r][i], list[r][i + 1])

SameReport == (\A r \in Run : Sorted(r)) => list[1] = list[2]

CaseVariants == \E a, b \in Ids : Key(a) = Key(b) /\ Name(a) # Name(b)

\* Without two names in a region that differ in case alone, the order of arrival
\* leaves no trace: the OCID decides between equal names (model.go:191-210).
DeterministicWithoutCaseVariants == ~CaseVariants => SameReport

\* Two runs that receive the same records write them in the same order
\* (docs/SDD.md:26: "Write deterministic timestamped reports"; model.go:195-198).
Deterministic == SameReport
=============================================================================
