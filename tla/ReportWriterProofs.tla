------------------------- MODULE ReportWriterProofs -------------------------
(***************************************************************************)
(* Proofs about ReportWriter, for any number of writers in a directory.     *)
(***************************************************************************)
EXTENDS ReportWriter, TLAPS

-----------------------------------------------------------------------------
(* The files and their positions.                                           *)

Final == Len(Files)

LEMMA FinalIsSeven == Final = 7
BY DEF Final, Files

\* Positions and files correspond, and the Markdown comes last.
LEMMA Positions ==
    /\ \A n \in 1..Final : Files[n] \in File
    /\ \A f \in File : \E n \in 1..Final : f = Files[n]
    /\ \A m, n \in 1..Final : Files[m] = Files[n] => m = n
    /\ "md" \in File
    /\ \A n \in 1..Final : Files[n] = "md" <=> n = Final
<1>1. DOMAIN Files = 1..7
  BY DEF Files
<1>2. File = {Files[n] : n \in 1..7}
  BY <1>1 DEF File, ToSet
<1>3. \A m, n \in 1..7 : Files[m] = Files[n] => m = n
  BY DEF Files
<1>4. Files[7] = "md" /\ 7 \in 1..7
  BY DEF Files
<1>5. QED  BY <1>2, <1>3, <1>4, FinalIsSeven

-----------------------------------------------------------------------------
(* The inductive invariant.                                                 *)

\* Between two files, and after the last, a writer has no temporary file; what it is
\* about to rename is whole.
TempByPlace ==
    \A w \in Writer : /\ pc[w] = "close" => temp[w] = "all"
                      /\ pc[w] \in {"start", "create", "done"} => temp[w] = "none"

\* A writer publishes in the order of Files, and nothing is ever removed: what it
\* is past is visible, whoever's it is by now.
PublishedInOrder ==
    \A w \in Writer : /\ \A n \in 1..Final : n < at[w] => Visible(Files[n])
                      /\ pc[w] = "done" => \A n \in 1..Final : Visible(Files[n])

\* What a writer is past is its own while the others have not begun.
OwnWhileAlone ==
    \A w \in Writer : (\A v \in Writer \ {w} : pc[v] = "start") =>
        /\ \A n \in 1..Final : n < at[w] => dir[Files[n]].by = w
        /\ pc[w] = "done" => \A n \in 1..Final : dir[Files[n]].by = w

\* Until it is done, nothing from a writer's position on is its own.
NothingAhead ==
    \A w \in Writer : pc[w] # "done" =>
        \A n \in 1..Final : at[w] <= n => dir[Files[n]].by # w

IInv == /\ TypeOK
        /\ TempByPlace
        /\ NoPartialFileVisible
        /\ PublishedInOrder
        /\ LinksResolve
        /\ OwnWhileAlone
        /\ NothingAhead

-----------------------------------------------------------------------------
LEMMA InitInvariant == Init => IInv
<1> SUFFICES ASSUME Init PROVE IInv
  OBVIOUS
<1>1. TypeOK
  BY FinalIsSeven DEF Init, TypeOK, Ended, Absent, Final
<1>2. NoPartialFileVisible /\ LinksResolve
  BY Positions DEF Init, NoPartialFileVisible, LinksResolve, Visible
<1>3. TempByPlace
  BY DEF Init, TempByPlace
<1>4. PublishedInOrder /\ OwnWhileAlone
  BY FinalIsSeven DEF Init, PublishedInOrder, OwnWhileAlone
<1>5. NothingAhead
  BY Positions, WriterAssumption DEF Init, NothingAhead, Absent
<1>6. QED  BY <1>1, <1>2, <1>3, <1>4, <1>5 DEF IInv

LEMMA StepTyped == TypeOK /\ [Next]_vars => TypeOK'
<1> SUFFICES ASSUME TypeOK, [Next]_vars PROVE TypeOK'
  OBVIOUS
<1> USE FinalIsSeven DEF TypeOK, Ended, Goto, SetTemp, RemoveTemp, Final
<1>1. ASSUME NEW w \in Writer, Prepare(w) PROVE TypeOK'
  BY <1>1 DEF Prepare
<1>2. ASSUME NEW w \in Writer, CreateTemp(w) PROVE TypeOK'
  BY <1>2 DEF CreateTemp
<1>3. ASSUME NEW w \in Writer, FillPart(w) PROVE TypeOK'
  BY <1>3 DEF FillPart
<1>4. ASSUME NEW w \in Writer, FillAll(w) PROVE TypeOK'
  BY <1>4 DEF FillAll
<1>5. ASSUME NEW w \in Writer, FillFails(w) PROVE TypeOK'
  BY <1>5 DEF FillFails
<1>6. ASSUME NEW w \in Writer, Rename(w) PROVE TypeOK'
  <2>1. pc' \in [Writer -> {"start", "create", "write", "close"} \cup Ended]
        /\ at' \in [Writer -> 1..Len(Files)]
    BY <1>6 DEF Rename, Advance
  <2>2. temp' \in [Writer -> {"none", "empty", "part", "all"}]
    BY <1>6 DEF Rename
  <2>3. [by |-> w, data |-> temp[w]] \in
            [by : Writer \cup {"nobody"}, data : {"none", "empty", "part", "all"}]
    OBVIOUS
  <2>4. dir' \in [File -> [by : Writer \cup {"nobody"},
                           data : {"none", "empty", "part", "all"}]]
    BY <1>6, <2>3 DEF Rename
  <2>5. QED  BY <2>1, <2>2, <2>4
<1>7. ASSUME NEW w \in Writer, RenameFails(w) PROVE TypeOK'
  BY <1>7 DEF RenameFails
<1>8. ASSUME NEW w \in Writer, Kill(w) PROVE TypeOK'
  BY <1>8 DEF Kill
<1>9. CASE UNCHANGED vars
  BY <1>9 DEF vars
<1>10. QED
  BY <1>1, <1>2, <1>3, <1>4, <1>5, <1>6, <1>7, <1>8, <1>9 DEF Next, Write

LEMMA StepTemp == TypeOK /\ TempByPlace /\ [Next]_vars => TempByPlace'
<1> SUFFICES ASSUME TypeOK, TempByPlace, [Next]_vars PROVE TempByPlace'
  OBVIOUS
<1> USE DEF TypeOK, TempByPlace, Ended, Goto, SetTemp, RemoveTemp
<1>1. ASSUME NEW w \in Writer, Prepare(w) PROVE TempByPlace'
  BY <1>1 DEF Prepare
<1>2. ASSUME NEW w \in Writer, CreateTemp(w) PROVE TempByPlace'
  BY <1>2 DEF CreateTemp
<1>3. ASSUME NEW w \in Writer, FillPart(w) PROVE TempByPlace'
  BY <1>3 DEF FillPart
<1>4. ASSUME NEW w \in Writer, FillAll(w) PROVE TempByPlace'
  BY <1>4 DEF FillAll
<1>5. ASSUME NEW w \in Writer, FillFails(w) PROVE TempByPlace'
  BY <1>5 DEF FillFails
<1>6. ASSUME NEW w \in Writer, Rename(w) PROVE TempByPlace'
  <2>1. pc'[w] \in {"done", "create"} /\ \A v \in Writer \ {w} : pc'[v] = pc[v]
    BY <1>6 DEF Rename, Advance
  <2>2. temp'[w] = "none" /\ \A v \in Writer \ {w} : temp'[v] = temp[v]
    BY <1>6 DEF Rename
  <2>3. QED  BY <2>1, <2>2
<1>7. ASSUME NEW w \in Writer, RenameFails(w) PROVE TempByPlace'
  BY <1>7 DEF RenameFails
<1>8. ASSUME NEW w \in Writer, Kill(w) PROVE TempByPlace'
  BY <1>8 DEF Kill
<1>9. CASE UNCHANGED vars
  BY <1>9 DEF vars
<1>10. QED
  BY <1>1, <1>2, <1>3, <1>4, <1>5, <1>6, <1>7, <1>8, <1>9 DEF Next, Write

\* The directory, and how far writers have come, change by Rename alone; nobody
\* finishes, leaves the end or goes back to the start otherwise.
Quiet == /\ UNCHANGED <<at, dir>>
         /\ \A w \in Writer : /\ pc'[w] = "done" <=> pc[w] = "done"
                              /\ pc'[w] = "start" => pc[w] = "start"

LEMMA OnlyRenamePublishes == TypeOK /\ [Next]_vars => Quiet \/ \E w \in Writer : Rename(w)
<1> SUFFICES ASSUME TypeOK, [Next]_vars, \A w \in Writer : ~Rename(w) PROVE Quiet
  OBVIOUS
<1> USE DEF TypeOK, Goto, Quiet, Ended
<1>1. ASSUME NEW w \in Writer, Prepare(w) PROVE Quiet
  BY <1>1 DEF Prepare
<1>2. ASSUME NEW w \in Writer, CreateTemp(w) PROVE Quiet
  BY <1>2 DEF CreateTemp
<1>3. ASSUME NEW w \in Writer, FillPart(w) PROVE Quiet
  BY <1>3 DEF FillPart
<1>4. ASSUME NEW w \in Writer, FillAll(w) PROVE Quiet
  BY <1>4 DEF FillAll
<1>5. ASSUME NEW w \in Writer, FillFails(w) PROVE Quiet
  BY <1>5 DEF FillFails
<1>6. ASSUME NEW w \in Writer, RenameFails(w) PROVE Quiet
  BY <1>6 DEF RenameFails
<1>7. ASSUME NEW w \in Writer, Kill(w) PROVE Quiet
  BY <1>7 DEF Kill
<1>8. CASE UNCHANGED vars
  BY <1>8 DEF vars
<1>9. QED  BY <1>1, <1>2, <1>3, <1>4, <1>5, <1>6, <1>7, <1>8 DEF Next, Write

\* What a rename does: one file becomes the whole file of its writer, who goes on
\* to the next one, or is done if it was the last.
Renamed(w) ==
    /\ at[w] \in 1..Final
    /\ dir'[Files[at[w]]] = [by |-> w, data |-> "all"]
    /\ \A n \in 1..Final : n # at[w] => dir'[Files[n]] = dir[Files[n]]
    /\ \/ at[w] = Final /\ pc'[w] = "done" /\ at'[w] = at[w]
       \/ at[w] < Final /\ pc'[w] = "create" /\ at'[w] = at[w] + 1
    /\ pc[w] = "close"
    /\ \A v \in Writer \ {w} : pc'[v] = pc[v] /\ at'[v] = at[v]

LEMMA RenameEffect == IInv => \A w \in Writer : Rename(w) => Renamed(w)
<1> SUFFICES ASSUME IInv, NEW w \in Writer, Rename(w) PROVE Renamed(w)
  OBVIOUS
<1> USE DEF Final
<1>1. pc[w] = "close" /\ at[w] \in 1..Final /\ temp[w] = "all"
  BY DEF IInv, TypeOK, TempByPlace, Rename
<1>2. Files[at[w]] \in File /\ dir \in [File -> [by : Writer \cup {"nobody"},
                                       data : {"none", "empty", "part", "all"}]]
  BY <1>1, Positions DEF IInv, TypeOK
<1>3. dir' = [dir EXCEPT ![Files[at[w]]] = [by |-> w, data |-> "all"]]
  BY <1>1 DEF Rename
<1>4. \A n \in 1..Final : n # at[w] => dir'[Files[n]] = dir[Files[n]]
  BY <1>1, <1>2, <1>3, Positions
<1>5. /\ \/ at[w] = Final /\ pc'[w] = "done" /\ at'[w] = at[w]
         \/ at[w] < Final /\ pc'[w] = "create" /\ at'[w] = at[w] + 1
      /\ \A v \in Writer \ {w} : pc'[v] = pc[v] /\ at'[v] = at[v]
  BY <1>1, FinalIsSeven DEF IInv, TypeOK, Rename, Advance, Goto
<1>6. QED  BY <1>1, <1>2, <1>3, <1>4, <1>5 DEF Renamed

LEMMA StepWhole == IInv /\ [Next]_vars => NoPartialFileVisible'
<1>0. SUFFICES ASSUME IInv, [Next]_vars PROVE NoPartialFileVisible'
  OBVIOUS
<1>1. NoPartialFileVisible
  BY <1>0 DEF IInv
<1>2. ASSUME NEW w \in Writer, Rename(w) PROVE NoPartialFileVisible'
  <2>1. Renamed(w)
    BY <1>0, <1>2, RenameEffect
  <2>2. \A n \in 1..Final : dir'[Files[n]] # Absent => dir'[Files[n]].data = "all"
    BY <1>1, <2>1, Positions DEF Renamed, NoPartialFileVisible, Visible
  <2>3. QED  BY <2>2, Positions DEF NoPartialFileVisible, Visible
<1>3. CASE Quiet
  BY <1>1, <1>3 DEF Quiet, NoPartialFileVisible, Visible
<1>4. QED  BY <1>0, <1>2, <1>3, OnlyRenamePublishes DEF IInv

\* A file that is visible stays visible.
LEMMA StepVisible ==
    IInv /\ [Next]_vars => \A n \in 1..Final : dir[Files[n]] # Absent => dir'[Files[n]] # Absent
<1>0. SUFFICES ASSUME IInv, [Next]_vars, NEW n \in 1..Final, dir[Files[n]] # Absent
               PROVE  dir'[Files[n]] # Absent
  OBVIOUS
<1>1. ASSUME NEW w \in Writer, Rename(w) PROVE dir'[Files[n]] # Absent
  <2>1. Renamed(w)
    BY <1>0, <1>1, RenameEffect
  <2>2. QED  BY <1>0, <2>1 DEF Renamed, Absent
<1>2. CASE Quiet
  BY <1>0, <1>2 DEF Quiet
<1>3. QED  BY <1>0, <1>1, <1>2, OnlyRenamePublishes DEF IInv

LEMMA StepPublished == IInv /\ [Next]_vars => PublishedInOrder' /\ LinksResolve'
<1>0. SUFFICES ASSUME IInv, [Next]_vars PROVE PublishedInOrder' /\ LinksResolve'
  OBVIOUS
<1>1. PublishedInOrder /\ LinksResolve
  BY <1>0 DEF IInv
<1>2. ASSUME NEW w \in Writer, Rename(w) PROVE PublishedInOrder' /\ LinksResolve'
  <2>1. Renamed(w) /\ \A n \in 1..Final : dir[Files[n]] # Absent => dir'[Files[n]] # Absent
    BY <1>0, <1>2, RenameEffect, StepVisible
  <2>2. at \in [Writer -> 1..Final]
    BY <1>0 DEF IInv, TypeOK, Final
  <2>3. \A n \in 1..Final : n < at[w] \/ n = at[w] => dir'[Files[n]] # Absent
    BY <1>1, <2>1 DEF PublishedInOrder, Visible, Renamed, Absent
  <2>4. ASSUME NEW v \in Writer
        PROVE  /\ \A n \in 1..Final : n < at'[v] => dir'[Files[n]] # Absent
               /\ pc'[v] = "done" => \A n \in 1..Final : dir'[Files[n]] # Absent
    <3>1. CASE v = w
      BY <2>1, <2>2, <2>3, <3>1, FinalIsSeven DEF Renamed
    <3>2. CASE v # w
      BY <1>1, <2>1, <3>2 DEF PublishedInOrder, Visible, Renamed
    <3>3. QED  BY <3>1, <3>2
  <2>5. PublishedInOrder'
    BY <2>4 DEF PublishedInOrder, Visible
  <2>6. dir'["md"] # Absent => \A n \in 1..Final : dir'[Files[n]] # Absent
    <3>1. CASE at[w] = Final
      BY <2>2, <2>3, <3>1, FinalIsSeven
    <3>2. CASE at[w] # Final
      <4>1. dir'["md"] = dir["md"]
        BY <2>1, <3>2, Positions, FinalIsSeven DEF Renamed
      <4>2. QED  BY <1>1, <2>1, <4>1, Positions DEF LinksResolve, Visible
    <3>3. QED  BY <3>1, <3>2
  <2>7. LinksResolve'
    BY <2>6, Positions DEF LinksResolve, Visible
  <2>8. QED  BY <2>5, <2>7
<1>3. CASE Quiet
  BY <1>1, <1>3 DEF Quiet, PublishedInOrder, LinksResolve, Visible
<1>4. QED  BY <1>0, <1>2, <1>3, OnlyRenamePublishes DEF IInv

LEMMA StepOwn == IInv /\ [Next]_vars => OwnWhileAlone'
<1>0. SUFFICES ASSUME IInv, [Next]_vars PROVE OwnWhileAlone'
  OBVIOUS
<1>1. OwnWhileAlone
  BY <1>0 DEF IInv
<1>2. ASSUME NEW w \in Writer, Rename(w) PROVE OwnWhileAlone'
  <2>1. Renamed(w)
    BY <1>0, <1>2, RenameEffect
  <2>2. at \in [Writer -> 1..Final]
    BY <1>0 DEF IInv, TypeOK, Final
  <2>3. ASSUME NEW v \in Writer, \A u \in Writer \ {v} : pc'[u] = "start"
        PROVE  /\ \A n \in 1..Final : n < at'[v] => dir'[Files[n]].by = v
               /\ pc'[v] = "done" => \A n \in 1..Final : dir'[Files[n]].by = v
    <3>1. v = w
      BY <2>1, <2>3 DEF Renamed
    <3>2. \A u \in Writer \ {w} : pc[u] = "start"
      BY <2>1, <2>3, <3>1 DEF Renamed
    <3>3. \A n \in 1..Final : n < at[w] \/ n = at[w] => dir'[Files[n]].by = w
      BY <1>1, <2>1, <3>2 DEF OwnWhileAlone, Renamed
    <3>4. QED  BY <2>1, <2>2, <3>1, <3>3, FinalIsSeven DEF Renamed
  <2>4. QED  BY <2>3 DEF OwnWhileAlone
<1>3. CASE Quiet
  <2> SUFFICES ASSUME NEW w \in Writer, \A v \in Writer \ {w} : pc'[v] = "start"
               PROVE  /\ \A n \in 1..Final : n < at'[w] => dir'[Files[n]].by = w
                      /\ pc'[w] = "done" => \A n \in 1..Final : dir'[Files[n]].by = w
    BY DEF OwnWhileAlone
  <2>1. \A v \in Writer \ {w} : pc[v] = "start"
    BY <1>3 DEF Quiet
  <2>2. QED  BY <1>1, <1>3, <2>1 DEF OwnWhileAlone, Quiet
<1>4. QED  BY <1>0, <1>2, <1>3, OnlyRenamePublishes DEF IInv

LEMMA StepAhead == IInv /\ [Next]_vars => NothingAhead'
<1>0. SUFFICES ASSUME IInv, [Next]_vars PROVE NothingAhead'
  OBVIOUS
<1>1. NothingAhead /\ at \in [Writer -> 1..Final]
  BY <1>0 DEF IInv, TypeOK, Final
<1>2. ASSUME NEW w \in Writer, Rename(w) PROVE NothingAhead'
  <2>1. Renamed(w)
    BY <1>0, <1>2, RenameEffect
  <2>2. ASSUME NEW v \in Writer, pc'[v] # "done", NEW n \in 1..Final, at'[v] <= n
        PROVE  dir'[Files[n]].by # v
    <3>1. CASE v = w
      BY <1>1, <2>1, <2>2, <3>1, FinalIsSeven DEF Renamed, NothingAhead
    <3>2. CASE v # w
      BY <1>1, <2>1, <2>2, <3>2 DEF Renamed, NothingAhead
    <3>3. QED  BY <3>1, <3>2
  <2>3. QED  BY <2>2 DEF NothingAhead
<1>3. CASE Quiet
  BY <1>1, <1>3 DEF Quiet, NothingAhead
<1>4. QED  BY <1>0, <1>2, <1>3, OnlyRenamePublishes DEF IInv

-----------------------------------------------------------------------------
\* The invariant holds whatever fails and whenever a writer is killed.
THEOREM Invariant == Spec => []IInv
<1>1. IInv /\ [Next]_vars => IInv'
  BY StepTyped, StepTemp, StepWhole, StepPublished, StepOwn, StepAhead DEF IInv
<1>2. QED  BY InitInvariant, <1>1, PTL DEF Spec

\* Every variable keeps its type (writer.go:719-748).
THEOREM TypeCorrect == Spec => []TypeOK
<1>1. IInv => TypeOK
  BY DEF IInv
<1>2. QED  BY Invariant, <1>1, PTL

\* However many runs report into a directory, and wherever one fails or is killed,
\* a report file visible under its final name is whole (writer.go:723-746).
THEOREM WholeFilesOnly == Spec => []NoPartialFileVisible
<1>1. IInv => NoPartialFileVisible
  BY DEF IInv
<1>2. QED  BY Invariant, <1>1, PTL

\* A Markdown summary never links a file that is not there (writer.go:78-93).
THEOREM LinksAlwaysResolve == Spec => []LinksResolve
<1>1. IInv => LinksResolve
  BY DEF IInv
<1>2. QED  BY Invariant, <1>1, PTL

\* A write that succeeds leaves seven files, its own unless another writer of the
\* same second has begun, and no temporary file (writer.go:89-94, 730, 742).
THEOREM SuccessIsWholeSet == Spec => []SuccessMeansWholeSet
<1>1. IInv => SuccessMeansWholeSet
  <2> SUFFICES ASSUME TempByPlace, PublishedInOrder, OwnWhileAlone
               PROVE  SuccessMeansWholeSet
    BY DEF IInv
  <2>1. QED
    BY Positions DEF TempByPlace, PublishedInOrder, OwnWhileAlone, SuccessMeansWholeSet
<1>2. QED  BY Invariant, <1>1, PTL

\* However many runs report into a directory, one whose write returns an error has
\* published the files before the one it failed at and no other (writer.go:89-94,
\* 727-746).
THEOREM ErrorLeavesPrefix == Spec => []FailedWriteIsAPrefix
<1>1. IInv => FailedWriteIsAPrefix
  <2> SUFFICES ASSUME TypeOK, PublishedInOrder, NothingAhead PROVE FailedWriteIsAPrefix
    BY DEF IInv
  <2>1. QED
    BY FinalIsSeven DEF TypeOK, Final, PublishedInOrder, NothingAhead, FailedWriteIsAPrefix
<1>2. QED  BY Invariant, <1>1, PTL
=============================================================================
