------------------------------ MODULE TagAudit ------------------------------
(***************************************************************************)
(* NewOracleTagAuditFromTags of internal/model/compute.go, applied to one   *)
(* resource: the namespace that is looked for among the defined tags, the   *)
(* two keys in it, the free-form tags that stand in for a missing key, and  *)
(* the age of CreatedOn. A range over a Go map visits the keys in any order,*)
(* so the first match is any match.                                         *)
(*                                                                          *)
(* Canonical are the spellings of Oracle-Tags that differ in case alone,    *)
(* Variant those that differ in separators, such as Oracle_Tags; FreeOn and *)
(* FreeBy are the free-form keys that normalise to Oracle-Tags.CreatedOn    *)
(* and .CreatedBy. Other tags match nothing and are left out.               *)
(***************************************************************************)
EXTENDS Integers

CONSTANTS
    Canonical, Variant,  \* namespaces
    FreeOn, FreeBy,      \* free-form keys
    User,                \* values of CreatedBy
    Day,                 \* ticks of the clock in 24 hours
    Longest,             \* the longest Duration, in ticks; shorter than the history
    Horizon              \* bound on the distance of CreatedOn from the report, in ticks

ASSUME ClockAssumption == Day \in Nat \ {0} /\ Longest \in Nat /\ Horizon \in Nat

\* No tag has an empty name.
ASSUME NameAssumption == "" \notin Canonical \cup Variant

Namespace == Canonical \cup Variant

\* "" is an absent key, and an empty or nil value, which the code takes for one. A
\* text is a date in RFC 3339 or it is not.
Text     == {"", "date", "text"}
UserText == {""} \cup User
Nobody   == <<"", "">>

VARIABLES
    step,       \* the next step
    defined,    \* the defined tags: namespace -> CreatedOn and CreatedBy
    freeform,   \* the free-form tags
    namespace,  \* what findTagNamespace returned, or ""
    on, by,     \* createdOn and createdBy
    source,     \* createdBySource: the kind of tag and its namespace or key
    elapsed,    \* from the date of CreatedOn to the report, or 0
    status,     \* CreatedOnTagStatus
    age         \* AgeDaysAsOfReport, where status is "parsed"

tags  == <<defined, freeform>>
vars  == <<step, tags, namespace, on, by, source, elapsed, status, age>>

Init == /\ step = "namespace"
        /\ defined \in UNION {[N -> [on : Text, by : UserText]] : N \in SUBSET Namespace}
        /\ freeform \in [on : [FreeOn -> Text], by : [FreeBy -> UserText]]
        /\ namespace = "" /\ on = "" /\ by = ""
        /\ source = Nobody
        /\ elapsed = 0 /\ status = "missing" /\ age = 0

-----------------------------------------------------------------------------
FirstNamespaceAnySpelling(N) == N

\* The namespaces findTagNamespace may return.
FirstNamespace(N) == IF N \cap Canonical # {} THEN N \cap Canonical ELSE N

FindNamespace ==
    /\ step = "namespace"
    /\ \/ /\ FirstNamespace(DOMAIN defined) = {}
          /\ UNCHANGED <<namespace, on, by, source>>
       \/ \E n \in FirstNamespace(DOMAIN defined) :
              /\ namespace' = n
              /\ on' = defined[n].on
              /\ by' = defined[n].by
              /\ source' = IF by' = "" THEN Nobody ELSE <<"defined", n>>
    /\ step' = "freeform"
    /\ UNCHANGED <<tags, elapsed, status, age>>

\* findFreeformTagValue: any key that normalises to the name and has a value.
Matches(values) == {k \in DOMAIN values : values[k] # ""}

FallBack ==
    /\ step = "freeform"
    /\ IF on = "" /\ Matches(freeform.on) # {}
       THEN \E k \in Matches(freeform.on) : on' = freeform.on[k]
       ELSE UNCHANGED on
    /\ IF by = "" /\ Matches(freeform.by) # {}
       THEN \E k \in Matches(freeform.by) :
                by' = freeform.by[k] /\ source' = <<"freeform", k>>
       ELSE UNCHANGED <<by, source>>
    /\ step' = "parse"
    /\ UNCHANGED <<tags, namespace, elapsed, status, age>>

\* Time.Sub saturates.
Sub(distance) == IF distance > Longest THEN Longest
                 ELSE IF distance < -Longest THEN -Longest ELSE distance

WholeDaysFloor(duration) == duration \div Day

\* Go's division truncates towards zero.
WholeDays(duration) == IF duration >= 0 THEN duration \div Day
                       ELSE -((-duration) \div Day)

ParseLeavingStatus ==
    /\ step = "parse"
    /\ \E distance \in -Horizon..Horizon :
          /\ elapsed' = distance
          /\ age' = WholeDays(Sub(distance))
    /\ status' = IF on = "" THEN "missing" ELSE "parsed"
    /\ step' = "done"
    /\ UNCHANGED <<tags, namespace, on, by, source>>

\* A date is any date; one that no time.Parse accepts has no age.
Parse ==
    /\ step = "parse"
    /\ \/ /\ on = ""
          /\ UNCHANGED <<elapsed, status, age>>
       \/ /\ on = "text"
          /\ status' = "invalid"
          /\ UNCHANGED <<elapsed, age>>
       \/ /\ on = "date"
          /\ \E distance \in -Horizon..Horizon :
                /\ elapsed' = distance
                /\ age' = WholeDays(Sub(distance))
          /\ status' = "parsed"
    /\ step' = "done"
    /\ UNCHANGED <<tags, namespace, on, by, source>>

Next == FindNamespace \/ FallBack \/ Parse

Spec == Init /\ [][Next]_vars

-----------------------------------------------------------------------------
\* A status other than "parsed" comes without an age, and the status is true of
\* the text that is kept.
TypeOK ==
    /\ step \in {"namespace", "freeform", "parse", "done"}
    /\ namespace \in Namespace \cup {""}
    /\ on \in Text /\ by \in UserText
    /\ elapsed \in -Horizon..Horizon /\ age \in Int
    /\ step = "done" =>
           status = CASE on = "" -> "missing" [] on = "text" -> "invalid" [] on = "date" -> "parsed"
    /\ status # "parsed" => age = 0

\* CreatedBy and the source recorded for it agree. A canonical namespace has
\* precedence over its variants, whatever their order in the map, and a defined
\* tag over free-form ones; the tag named holds the value; and nothing is named
\* only when no tag that may be used has a value (docs/SDD.md:97-106;
\* compute.go:102-117).
SourceIsTrue ==
    step = "done" =>
        LET own == IF namespace = "" THEN "" ELSE defined[namespace].by IN
        /\ DOMAIN defined # {} => namespace # ""
        /\ DOMAIN defined \cap Canonical # {} => namespace \in Canonical
        /\ \/ own # "" /\ by = own /\ source = <<"defined", namespace>>
           \/ own = "" /\ by # "" /\ \E k \in FreeBy : by = freeform.by[k]
                                                   /\ source = <<"freeform", k>>
           \/ own = "" /\ by = "" /\ source = Nobody
                 /\ \A k \in FreeBy : freeform.by[k] = ""

\* An age is the number of complete periods of 24 hours since CreatedOn, less
\* only where the time since then is longer than a Duration; for a date after the
\* report it is not positive (README.md:425-426; compute.go:135-136).
AgeIsCompleteDays ==
    step = "done" /\ status = "parsed" =>
        /\ elapsed >= 0 => /\ age >= 0 /\ age * Day <= elapsed
                           /\ elapsed < (age + 1) * Day \/ elapsed > Longest
        /\ elapsed < 0 => age <= 0 /\ (-elapsed < Day => age = 0)
=============================================================================
