---------------------------- MODULE ReportWriter ----------------------------
(***************************************************************************)
(* report.Write of internal/report/writer.go: the seven files of a report,  *)
(* each through writeFileAtomically, which fills a temporary file in the    *)
(* output directory and renames it.                                         *)
(*                                                                          *)
(* The writers are the runs that report into one directory in the same      *)
(* second, so that their files have the same names: the name has a stamp of *)
(* that resolution (32-33). A writer may be killed between any two steps.   *)
(* The random name of a temporary file is taken to be its own.              *)
(***************************************************************************)
EXTENDS Naturals, Sequences, SequencesExt

CONSTANT Writer

\* Files that nobody has published are told apart from those of a writer.
ASSUME WriterAssumption == "nobody" \notin Writer

\* The files, in the order in which Write publishes them.
FilesMarkdownFirst ==
    <<"md", "json", "databases", "compute", "boot", "block", "failed">>

Files == <<"json", "databases", "compute", "boot", "block", "failed", "md">>

File == ToSet(Files)

VARIABLES
    pc,     \* where each writer is
    at,     \* the position in Files of the file it writes
    temp,   \* its temporary file: how much of the data it holds, or "none"
    dir     \* for each file, who published it and how much of it, or Absent

vars == <<pc, at, temp, dir>>

Absent  == [by |-> "nobody", data |-> "none"]
Ended   == {"done", "failed", "killed"}

Init == /\ pc = [w \in Writer |-> "start"]
        /\ at = [w \in Writer |-> 1]
        /\ temp = [w \in Writer |-> "none"]
        /\ dir = [f \in File |-> Absent]

Goto(w, label) == pc' = [pc EXCEPT ![w] = label]
SetTemp(w, data) == temp' = [temp EXCEPT ![w] = data]

\* The deferred os.Remove, whose error is dropped: what made the write fail may
\* keep the temporary file from being removed.
RemoveTemp(w) == SetTemp(w, "none") \/ UNCHANGED temp

-----------------------------------------------------------------------------
\* MkdirAll and all the marshalling come before the first file.
Prepare(w) == /\ pc[w] = "start"
              /\ Goto(w, "create") \/ Goto(w, "failed")
              /\ UNCHANGED <<at, temp, dir>>

CreateTemp(w) == /\ pc[w] = "create"
                 /\ \/ Goto(w, "write") /\ SetTemp(w, "empty")
                    \/ Goto(w, "failed") /\ UNCHANGED temp
                 /\ UNCHANGED <<at, dir>>

\* Chmod or Write fails, perhaps after some of the data: temp.Close, and the
\* deferred os.Remove. Close may fail too.
FillFails(w) == /\ pc[w] \in {"write", "close"}
                /\ Goto(w, "failed")
                /\ RemoveTemp(w)
                /\ UNCHANGED <<at, dir>>

\* Write hands the data to the system in one or more parts.
FillPart(w) == /\ pc[w] = "write"
               /\ temp[w] = "empty"
               /\ SetTemp(w, "part")
               /\ UNCHANGED <<pc, at, dir>>

FillAll(w) == /\ pc[w] = "write"
              /\ SetTemp(w, "all")
              /\ Goto(w, "close")
              /\ UNCHANGED <<at, dir>>

AdvancePastEnd(w) == Goto(w, "create") /\ at' = [at EXCEPT ![w] = @ + 1]

AdvanceOnlyAtEnd(w) == /\ Goto(w, IF at[w] = Len(Files) THEN "done" ELSE "create")
                       /\ UNCHANGED at

\* The loop of Write: the next file, or the end.
Advance(w) == \/ /\ at[w] = Len(Files)
                 /\ Goto(w, "done")
                 /\ UNCHANGED at
              \/ /\ at[w] < Len(Files)
                 /\ Goto(w, "create")
                 /\ at' = [at EXCEPT ![w] = @ + 1]

RenameUnclosed(w) ==
    /\ pc[w] \in {"write", "close"}
    /\ dir' = [dir EXCEPT ![Files[at[w]]] = [by |-> w, data |-> temp[w]]]
    /\ SetTemp(w, "none")
    /\ Advance(w)

\* Close, then Rename over whatever has the name. The deferred Remove finds no
\* temporary file and fails, which is no error of the write. The loop goes on
\* with the next file.
Rename(w) ==
    /\ pc[w] = "close"
    /\ dir' = [dir EXCEPT ![Files[at[w]]] = [by |-> w, data |-> temp[w]]]
    /\ SetTemp(w, "none")
    /\ Advance(w)

SkipFailedFile(w) == /\ pc[w] = "close"
                     /\ SetTemp(w, "none")
                     /\ Advance(w)
                     /\ UNCHANGED dir

RenameReportingRemove(w) ==
    /\ pc[w] = "close"
    /\ dir' = [dir EXCEPT ![Files[at[w]]] = [by |-> w, data |-> temp[w]]]
    /\ SetTemp(w, "none")
    /\ Goto(w, "failed")
    /\ UNCHANGED at

\* Rename fails: the deferred Remove, and Write returns the error of Rename.
RenameFails(w) == /\ pc[w] = "close"
                  /\ Goto(w, "failed")
                  /\ RemoveTemp(w)
                  /\ UNCHANGED <<at, dir>>

\* The process is killed: no deferred call runs.
Kill(w) == /\ pc[w] \notin Ended
           /\ Goto(w, "killed")
           /\ UNCHANGED <<at, temp, dir>>

Write(w) == \/ Prepare(w) \/ CreateTemp(w)
            \/ FillPart(w) \/ FillAll(w) \/ FillFails(w)
            \/ Rename(w) \/ RenameFails(w)

Next == \E w \in Writer : Write(w) \/ Kill(w)

Spec == Init /\ [][Next]_vars

\* File operations return; nothing is killed of necessity.
FairSpec == Spec /\ \A w \in Writer : WF_vars(Write(w))

-----------------------------------------------------------------------------
TypeOK ==
    /\ pc \in [Writer -> {"start", "create", "write", "close"} \cup Ended]
    /\ at \in [Writer -> 1..Len(Files)]
    /\ temp \in [Writer -> {"none", "empty", "part", "all"}]
    /\ dir \in [File -> [by : Writer \cup {"nobody"}, data : {"none", "empty", "part", "all"}]]

Visible(f) == dir[f] # Absent

\* A file that is visible under its final name is whole, whoever published it
\* and whatever failed or was killed meanwhile (README.md:859, docs/SDD.md:138;
\* writer.go:723-746).
NoPartialFileVisible == \A f \in File : Visible(f) => dir[f].data = "all"

\* A Markdown summary that is visible links six files that are visible too, even
\* after a crash between two files: it is published last and nothing is removed
\* (writer.go:78-93; the links are those of marshalMarkdown, 563-573).
LinksResolve == Visible("md") => \A f \in File : Visible(f)

\* A write that succeeds leaves all seven files, whatever the others of its second
\* do, they are its own unless another has begun, and no temporary file of its own
\* is left (writer.go:89-94, 730, 742).
SuccessMeansWholeSet ==
    \A w \in Writer : pc[w] = "done" =>
        /\ temp[w] = "none"
        /\ \A f \in File : Visible(f)
        /\ (\A v \in Writer \ {w} : pc[v] = "start") => \A f \in File : dir[f].by = w

\* A write that returns an error has published the files before the one it failed
\* at, which stay, and neither that one nor any after it: never its Markdown index,
\* whatever the others of its second do (writer.go:89-94, 727-746).
FailedWriteIsAPrefix ==
    \A w \in Writer : pc[w] = "failed" =>
        \A n \in 1..Len(Files) : IF n < at[w] THEN Visible(Files[n])
                                              ELSE dir[Files[n]].by # w

\* Every write ends: with all files published, an error, or the process killed.
Ends == \A w \in Writer : <>(pc[w] \in Ended)
=============================================================================
