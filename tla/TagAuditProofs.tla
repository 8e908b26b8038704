--------------------------- MODULE TagAuditProofs ---------------------------
(***************************************************************************)
(* Proofs about TagAudit, for any tags, users, days and Durations.          *)
(***************************************************************************)
EXTENDS TagAudit, TLAPS

-----------------------------------------------------------------------------
(* Arithmetic: Go's division of a Duration by a day, and Time.Sub.          *)

LEMMA DayIsPositive == Day \in Nat /\ Day > 0
BY ClockAssumption

\* The quotient of a time that has passed is its number of complete days.
LEMMA Quotient ==
    ASSUME NEW x \in Nat
    PROVE  /\ x \div Day \in Nat
           /\ (x \div Day) * Day <= x
           /\ x < (x \div Day + 1) * Day
<1> DEFINE q == x \div Day
           m == x % Day
<1>1. q \in Int /\ m \in 0..(Day - 1) /\ x = Day * q + m
  BY DayIsPositive
<1>2. q * Day = Day * q /\ (q + 1) * Day = Day * q + Day
  BY <1>1, DayIsPositive
<1>3. q >= 0
  BY <1>1, DayIsPositive
<1>4. QED  BY <1>1, <1>2, <1>3, DayIsPositive

LEMMA SubTyped ==
    ASSUME NEW d \in Int
    PROVE  /\ Sub(d) \in Int
           /\ d >= 0 => Sub(d) >= 0 /\ Sub(d) <= d /\ (Sub(d) = d \/ d > Longest)
           /\ d < 0 => Sub(d) <= 0 /\ Sub(d) >= d
BY ClockAssumption DEF Sub

LEMMA WholeDaysTyped == \A d \in Int : WholeDays(d) \in Int
BY Quotient DEF WholeDays

\* What an age says of the time it was made from, when that was cut short as well.
LEMMA AgeOfSub ==
    ASSUME NEW d \in Int
    PROVE  LET a == WholeDays(Sub(d)) IN
           /\ d >= 0 => /\ a >= 0 /\ a * Day <= d
                        /\ d < (a + 1) * Day \/ d > Longest
           /\ d < 0 => a <= 0 /\ (-d < Day => a = 0)
<1> DEFINE s == Sub(d)
           a == WholeDays(s)
<1>0. s \in Int
  BY SubTyped
<1>1. CASE d >= 0
  <2>1. s \in Nat /\ s <= d /\ (s = d \/ d > Longest)
    BY <1>0, <1>1, SubTyped
  <2>2. a = s \div Day
    BY <2>1 DEF WholeDays
  <2>3. a \in Nat /\ a * Day <= s /\ s < (a + 1) * Day
    BY <2>1, <2>2, Quotient
  <2>4. a * Day \in Int /\ (a + 1) * Day \in Int
    BY <2>3, DayIsPositive
  <2> HIDE DEF a, s
  <2>5. a >= 0 /\ a * Day <= d /\ (d < (a + 1) * Day \/ d > Longest)
    BY <2>1, <2>3, <2>4, DayIsPositive
  <2>6. QED  BY <1>1, <2>5 DEF a, s
<1>2. CASE d < 0
  <2>1. -s \in Nat /\ s >= d /\ s <= 0
    BY <1>0, <1>2, SubTyped
  <2>2. a = -((-s) \div Day)
    <3>1. CASE s = 0
      <4>1. 0 \div Day = 0
        BY DayIsPositive
      <4>2. QED  BY <3>1, <4>1 DEF WholeDays
    <3>2. CASE s # 0
      BY <1>0, <2>1, <3>2 DEF WholeDays
    <3>3. QED  BY <3>1, <3>2
  <2>3. PICK q \in Nat : q = (-s) \div Day /\ q * Day <= -s
    BY <2>1, Quotient
  <2>4. ASSUME -d < Day PROVE q = 0
    <3>1. q >= 1 => q * Day >= Day
      BY DayIsPositive
    <3>2. q * Day \in Int
      BY DayIsPositive
    <3> HIDE DEF s
    <3>3. QED  BY <1>0, <2>1, <2>3, <2>4, <3>1, <3>2, DayIsPositive
  <2> HIDE DEF a, s
  <2>5. a <= 0 /\ (-d < Day => a = 0)
    BY <2>2, <2>3, <2>4
  <2>6. QED  BY <1>2, <2>5 DEF a, s
<1>3. QED  BY <1>1, <1>2

-----------------------------------------------------------------------------
(* The inductive invariant: what each step has made of the tags.            *)

Typed ==
    /\ step \in {"namespace", "freeform", "parse", "done"}
    /\ DOMAIN defined \subseteq Namespace
    /\ \A n \in DOMAIN defined : defined[n].on \in Text /\ defined[n].by \in UserText
    /\ freeform.on \in [FreeOn -> Text]
    /\ freeform.by \in [FreeBy -> UserText]
    /\ namespace \in Namespace \cup {""}
    /\ on \in Text /\ by \in UserText
    /\ elapsed \in -Horizon..Horizon
    /\ age \in Int

OwnBy == IF namespace = "" THEN "" ELSE defined[namespace].by

\* The namespace that was found, before the free-form tags are looked at and after.
NamespaceFound ==
    IF step = "namespace" THEN namespace = ""
    ELSE IF FirstNamespace(DOMAIN defined) = {} THEN namespace = ""
         ELSE namespace \in FirstNamespace(DOMAIN defined)

\* Where createdBy is from: nowhere yet, the namespace, or else a free-form tag.
SourceKnown ==
    /\ step = "namespace" => by = "" /\ source = Nobody
    /\ step = "freeform" => /\ by = OwnBy
                            /\ source = IF by = "" THEN Nobody ELSE <<"defined", namespace>>
    /\ step \in {"parse", "done"} =>
           \/ OwnBy # "" /\ by = OwnBy /\ source = <<"defined", namespace>>
           \/ OwnBy = "" /\ by # "" /\ \E k \in FreeBy : by = freeform.by[k]
                                                     /\ source = <<"freeform", k>>
           \/ OwnBy = "" /\ by = "" /\ source = Nobody
                 /\ \A k \in FreeBy : freeform.by[k] = ""

\* The age is that of the date, and the status that of the text.
AgeKnown ==
    /\ step # "done" => status = "missing"
    /\ step = "done" => /\ on = "" => status = "missing"
                        /\ on = "text" => status = "invalid"
                        /\ on = "date" => status = "parsed"
    /\ status # "parsed" => age = 0
    /\ status = "parsed" => age = WholeDays(Sub(elapsed))

IInv == Typed /\ NamespaceFound /\ SourceKnown /\ AgeKnown

-----------------------------------------------------------------------------
LEMMA InitInvariant == Init => IInv
<1>1. ASSUME Init PROVE Typed
  <2>1. PICK N \in SUBSET Namespace : defined \in [N -> [on : Text, by : UserText]]
    BY <1>1 DEF Init
  <2>2. /\ DOMAIN defined \subseteq Namespace
        /\ \A n \in DOMAIN defined : defined[n].on \in Text /\ defined[n].by \in UserText
    BY <2>1
  <2>3. freeform.on \in [FreeOn -> Text] /\ freeform.by \in [FreeBy -> UserText]
    BY <1>1 DEF Init
  <2>4. elapsed \in -Horizon..Horizon /\ age \in Int
    <3>1. 0 \in -Horizon..Horizon /\ 0 \in Int
      BY ClockAssumption
    <3>2. elapsed = 0 /\ age = 0
      BY <1>1 DEF Init
    <3>3. QED  BY <3>1, <3>2, Zenon
  <2>5. /\ step \in {"namespace", "freeform", "parse", "done"}
        /\ namespace \in Namespace \cup {""}
        /\ on \in Text /\ by \in UserText
    BY <1>1 DEF Init, Text, UserText
  <2>6. QED  BY <2>2, <2>3, <2>4, <2>5, Zenon DEF Typed
<1>2. Init => NamespaceFound /\ SourceKnown /\ AgeKnown
  BY DEF Init, NamespaceFound, SourceKnown, AgeKnown
<1>3. QED  BY <1>1, <1>2 DEF IInv

LEMMA StepTyped == IInv /\ [Next]_vars => Typed'
<1> SUFFICES ASSUME IInv, [Next]_vars PROVE Typed'
  OBVIOUS
<1>0. Typed
  BY DEF IInv
<1>1. CASE FindNamespace
  <2>1. FirstNamespace(DOMAIN defined) \subseteq DOMAIN defined
    BY DEF FirstNamespace
  <2>2. namespace' \in Namespace \cup {""} /\ on' \in Text /\ by' \in UserText
    BY <1>0, <1>1, <2>1 DEF FindNamespace, Typed
  <2>3. QED  BY <1>0, <1>1, <2>2 DEF FindNamespace, Typed, tags
<1>2. CASE FallBack
  <2>1. on' \in Text
    BY <1>0, <1>2 DEF FallBack, Typed, Matches
  <2>2. by' \in UserText
    BY <1>0, <1>2 DEF FallBack, Typed, Matches
  <2>3. QED  BY <1>0, <1>2, <2>1, <2>2 DEF FallBack, Typed, tags
<1>3. CASE Parse
  <2>1. \A d \in -Horizon..Horizon : WholeDays(Sub(d)) \in Int
    BY ClockAssumption, SubTyped, WholeDaysTyped
  <2>2. elapsed' \in -Horizon..Horizon /\ age' \in Int
    BY <1>0, <1>3, <2>1 DEF Parse, Typed
  <2>3. QED  BY <1>0, <1>3, <2>2 DEF Parse, Typed, tags
<1>4. CASE UNCHANGED vars
  BY <1>0, <1>4 DEF vars, tags, Typed
<1>5. QED  BY <1>1, <1>2, <1>3, <1>4 DEF Next

LEMMA StepNamespace == IInv /\ [Next]_vars => NamespaceFound'
<1> SUFFICES ASSUME IInv, [Next]_vars PROVE NamespaceFound'
  OBVIOUS
<1>0. Typed /\ NamespaceFound /\ SourceKnown
  BY DEF IInv
<1>1. CASE FindNamespace
  <2>1. CASE FirstNamespace(DOMAIN defined) = {}
    <3>1. namespace = ""
      BY <1>0, <1>1 DEF FindNamespace, NamespaceFound
    <3>2. QED  BY <1>1, <2>1, <3>1 DEF FindNamespace, NamespaceFound, tags
  <2>2. CASE FirstNamespace(DOMAIN defined) # {}
    BY <1>1, <2>2 DEF FindNamespace, NamespaceFound, tags
  <2>3. QED  BY <2>1, <2>2
<1>2. CASE FallBack
  BY <1>0, <1>2 DEF FallBack, NamespaceFound, tags
<1>3. CASE Parse
  BY <1>0, <1>3 DEF Parse, NamespaceFound, tags
<1>4. CASE UNCHANGED vars
  BY <1>0, <1>4 DEF vars, tags, NamespaceFound
<1>5. QED  BY <1>1, <1>2, <1>3, <1>4 DEF Next

LEMMA StepSource == IInv /\ [Next]_vars => SourceKnown'
<1> SUFFICES ASSUME IInv, [Next]_vars PROVE SourceKnown'
  OBVIOUS
<1>0. Typed /\ NamespaceFound /\ SourceKnown
  BY DEF IInv
<1>1. CASE FindNamespace
  <2>0. step' = "freeform" /\ defined' = defined
    BY <1>1 DEF FindNamespace, tags
  <2>1. CASE FirstNamespace(DOMAIN defined) = {}
    <3>1. namespace = "" /\ by = "" /\ source = Nobody
      BY <1>0, <1>1 DEF FindNamespace, NamespaceFound, SourceKnown
    <3>2. UNCHANGED <<namespace, by, source>>
      BY <1>1, <2>1 DEF FindNamespace
    <3>3. QED  BY <2>0, <3>1, <3>2 DEF SourceKnown, OwnBy
  <2>2. CASE FirstNamespace(DOMAIN defined) # {}
    <3>1. PICK n \in FirstNamespace(DOMAIN defined) :
              /\ namespace' = n
              /\ by' = defined[n].by
              /\ source' = IF by' = "" THEN Nobody ELSE <<"defined", n>>
      BY <1>1, <2>2 DEF FindNamespace
    <3>2. n # ""
      BY <1>0, NameAssumption DEF FirstNamespace, Typed, Namespace
    <3>3. OwnBy' = defined[n].by
      BY <2>0, <3>1, <3>2 DEF OwnBy
    <3>4. QED  BY <2>0, <3>1, <3>3 DEF SourceKnown
  <2>3. QED  BY <2>1, <2>2
<1>2. CASE FallBack
  <2>1. /\ by = OwnBy /\ step' = "parse" /\ OwnBy' = OwnBy /\ freeform' = freeform
        /\ source = IF by = "" THEN Nobody ELSE <<"defined", namespace>>
        /\ namespace' = namespace
    BY <1>0, <1>2 DEF FallBack, SourceKnown, OwnBy, tags
  <2>2. CASE by = "" /\ Matches(freeform.by) # {}
    <3>1. PICK k \in Matches(freeform.by) :
              by' = freeform.by[k] /\ source' = <<"freeform", k>>
      BY <1>2, <2>2 DEF FallBack
    <3>2. k \in FreeBy /\ by' # ""
      BY <1>0, <3>1 DEF Matches, Typed
    <3>3. QED  BY <2>1, <2>2, <3>1, <3>2 DEF SourceKnown
  <2>3. CASE by # ""
    <3>1. UNCHANGED <<by, source>>
      BY <1>2, <2>3 DEF FallBack
    <3>2. QED  BY <2>1, <2>3, <3>1 DEF SourceKnown
  <2>4. CASE by = "" /\ Matches(freeform.by) = {}
    <3>1. UNCHANGED <<by, source>>
      BY <1>2, <2>4 DEF FallBack
    <3>2. \A k \in FreeBy : freeform.by[k] = ""
      BY <1>0, <2>4 DEF Matches, Typed
    <3>3. QED  BY <2>1, <2>4, <3>1, <3>2 DEF SourceKnown
  <2>5. QED  BY <2>2, <2>3, <2>4
<1>3. CASE Parse
  <2>1. /\ step = "parse" /\ step' = "done"
        /\ UNCHANGED <<defined, freeform, namespace, by, source>>
    BY <1>3 DEF Parse, tags
  <2>2. OwnBy' = OwnBy
    BY <2>1 DEF OwnBy
  <2>3. QED  BY <1>0, <2>1, <2>2 DEF SourceKnown
<1>4. CASE UNCHANGED vars
  <2>1. UNCHANGED <<step, defined, freeform, namespace, by, source>>
    BY <1>4 DEF vars, tags
  <2>2. OwnBy' = OwnBy
    BY <2>1 DEF OwnBy
  <2>3. QED  BY <1>0, <2>1, <2>2 DEF SourceKnown
<1>5. QED  BY <1>1, <1>2, <1>3, <1>4 DEF Next

LEMMA StepAge == IInv /\ [Next]_vars => AgeKnown'
<1> SUFFICES ASSUME IInv, [Next]_vars PROVE AgeKnown'
  OBVIOUS
<1>0. Typed /\ AgeKnown
  BY DEF IInv
<1>1. CASE FindNamespace
  BY <1>0, <1>1 DEF FindNamespace, AgeKnown
<1>2. CASE FallBack
  BY <1>0, <1>2 DEF FallBack, AgeKnown
<1>3. CASE Parse
  <2>1. step = "parse" /\ step' = "done" /\ on' = on /\ status = "missing" /\ age = 0
    BY <1>0, <1>3 DEF Parse, AgeKnown
  <2>2. \/ on = "" /\ status' = "missing" /\ age' = 0
        \/ on = "text" /\ status' = "invalid" /\ age' = 0
        \/ on = "date" /\ status' = "parsed" /\ age' = WholeDays(Sub(elapsed'))
    BY <1>3, <2>1 DEF Parse
  <2>3. QED  BY <2>1, <2>2 DEF AgeKnown
<1>4. CASE UNCHANGED vars
  BY <1>0, <1>4 DEF vars, AgeKnown
<1>5. QED  BY <1>1, <1>2, <1>3, <1>4 DEF Next

LEMMA Invariant == Spec => []IInv
<1>1. IInv /\ [Next]_vars => IInv'
  BY StepTyped, StepNamespace, StepSource, StepAge DEF IInv
<1>2. QED  BY InitInvariant, <1>1, PTL DEF Spec

-----------------------------------------------------------------------------
\* The audit keeps its types, and its status is true of the text that is kept: a
\* status other than "parsed" comes without an age (compute.go:118-138).
THEOREM TypeCorrect == Spec => []TypeOK
<1>1. IInv => TypeOK
  BY DEF IInv, Typed, AgeKnown, TypeOK, Text
<1>2. QED  BY Invariant, <1>1, PTL

\* Whatever the order in which the maps are visited, CreatedBy has the source that
\* is recorded for it, the canonical namespace wins over its variants, and a
\* defined tag over free-form ones (compute.go:101-117, 306-354).
THEOREM SourceNamed == Spec => []SourceIsTrue
<1>1. IInv => SourceIsTrue
  <2> SUFFICES ASSUME IInv, step = "done" PROVE SourceIsTrue
    BY DEF SourceIsTrue
  <2>0. Typed /\ NamespaceFound /\ SourceKnown
    BY DEF IInv
  <2>1. ASSUME DOMAIN defined # {} PROVE namespace \in FirstNamespace(DOMAIN defined)
    BY <2>0, <2>1 DEF NamespaceFound, FirstNamespace
  <2>2. DOMAIN defined # {} => namespace # ""
    BY <2>0, <2>1, NameAssumption DEF FirstNamespace, Typed, Namespace
  <2>3. DOMAIN defined \cap Canonical # {} => namespace \in Canonical
    BY <2>1 DEF FirstNamespace
  <2>4. QED  BY <2>0, <2>2, <2>3 DEF SourceIsTrue, SourceKnown, OwnBy
<1>2. QED  BY Invariant, <1>1, PTL

\* For a day and a Duration of any length, an age counts the complete days since
\* CreatedOn, and is never positive for a date in the future (compute.go:135).
THEOREM AgeCounted == Spec => []AgeIsCompleteDays
<1>1. IInv => AgeIsCompleteDays
  <2> SUFFICES ASSUME IInv, step = "done", status = "parsed" PROVE AgeIsCompleteDays
    BY DEF AgeIsCompleteDays
  <2>1. elapsed \in -Horizon..Horizon
    BY DEF IInv, Typed
  <2>2. elapsed \in Int
    BY <2>1, ClockAssumption
  <2>3. age = WholeDays(Sub(elapsed))
    BY DEF IInv, AgeKnown
  <2>4. /\ elapsed >= 0 => /\ age >= 0 /\ age * Day <= elapsed
                           /\ elapsed < (age + 1) * Day \/ elapsed > Longest
        /\ elapsed < 0 => age <= 0 /\ (-elapsed < Day => age = 0)
    BY <2>2, <2>3, AgeOfSub
  <2>5. QED  BY <2>4, Zenon DEF AgeIsCompleteDays
<1>2. QED  BY Invariant, <1>1, PTL
=============================================================================
