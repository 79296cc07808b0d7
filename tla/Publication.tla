---------------------------- MODULE Publication ----------------------------
(***************************************************************************)
(* How the report (src/analysis/monad_execbench_report/cli.py) and the gas *)
(* attribution (src/analysis/monad_execbench_attribution/cli.py) publish,  *)
(* several of them at once on the same paths, around a results file that   *)
(* may be written meanwhile.                                               *)
(*                                                                         *)
(* A process writes its outputs one after the other: a temporary file in   *)
(* the same directory, published by a hard link, which fails if the path   *)
(* exists, or, for a report with --force, by a rename, which replaces it.  *)
(***************************************************************************)
EXTENDS Results

CONSTANTS
  Processes,    \* processes that publish
  Jobs,         \* what a process may be started as: [tool, outputs, force]
  Paths,        \* the paths of all outputs
  Before        \* what the paths may hold at first

Absent == [by |-> "nobody", whole |-> FALSE, report |-> NoReport]

\* A path may be a symbolic link, dangling or not, or name the results file or the
\* comparison manifest, by another hard link perhaps.
Symlink == [by |-> "symlink", whole |-> TRUE, report |-> NoReport]
Input == [by |-> "input", whole |-> TRUE, report |-> NoReport]

AllSamples(r, c) == {Sample(r, c, i) : i \in 0 .. RunOf[r].repetitions - 1}

\* A sample that a run which agrees with the context measured, and did not fail.
Measured(context, c, sample) ==
  \E r \in Runs :
    /\ RunOf[r].mode = RunOf[context].mode
    /\ RunOf[r].repetitions = RunOf[context].repetitions
    /\ c \notin RunOf[r].failing
    /\ sample \in AllSamples(r, c)

\* The samples of a case are one of each repetition, alike in what was executed.
WholeCase(context, c, samples) ==
  /\ \A s \in samples : Measured(context, c, s)
  /\ \A i \in 0 .. RunOf[context].repetitions - 1 : \E s \in samples : s.index = i
  /\ \A s, t \in samples : s.counters = t.counters /\ (s.index = t.index => s = t)

\* A report of a file nobody edited has every case, with one run's samples.
Complete(report) ==
  /\ \A c \in DOMAIN report.cases : WholeCase(report.context, c, report.cases[c])
  /\ ~report.edited =>
       /\ DOMAIN report.cases = Range(Cases)
       /\ \A c \in Range(Cases) : report.cases[c] = AllSamples(report.context, c)

\* What stands there at first is whole, complete and nobody's of these processes.
\* Outputs are different paths; only a report, which has one, can be forced.
ASSUME PublicationAssumption ==
  /\ Processes \cap {"nobody", "symlink", "input"} = {}
  /\ \A b \in Before :
       /\ b \in [Paths -> Range(b)]
       /\ \A path \in Paths : b[path] # Absent => b[path].whole /\ b[path].by \notin Processes
       /\ \A path \in Paths : Complete(b[path].report)
  /\ \A j \in Jobs :
       /\ j.outputs \in Seq(Paths) \ {<< >>} /\ j.force \in BOOLEAN
       /\ \A m, n \in DOMAIN j.outputs : j.outputs[m] = j.outputs[n] => m = n
       /\ j.force => j.tool = "report"

VARIABLES
  disk,      \* path -> what is there
  job,       \* process -> its job; outputs are its paths, in order
  process    \* process -> [at, output, temporary, report]

publication == <<disk, job, process>>

Nothing == "nothing"
Outputs(p) == job[p].outputs
Path(p) == Outputs(p)[process[p].output]
Active(p) == process[p].at \notin {"start", "done", "failed", "left", "killed"}

Goto(p, place) == process' = [process EXCEPT ![p].at = place]

-----------------------------------------------------------------------------
(* One process.                                                            *)

\* A symbolic link and an input are no outputs; nor, unless forced, is what exists.
Refused(p, path) == disk[path] \in {Symlink, Input} \/ (~job[p].force /\ disk[path] # Absent)

\* The outputs are looked at before anything is read.
CheckOutputs(p) ==
  /\ process[p].at = "start"
  /\ Goto(p, IF \E path \in Range(Outputs(p)) : Refused(p, path) THEN "failed" ELSE "load")
  /\ UNCHANGED <<disk, job>>

\* load_run and rendering; attribute may refuse its inputs.
Load(p) ==
  /\ process[p].at = "load"
  /\ \/ /\ job[p].tool = "report" => LoadRun
        /\ process' = [process EXCEPT ![p].at = "create",
                         ![p].report = IF job[p].tool = "report" THEN Loaded ELSE NoReport]
     \/ Goto(p, "failed")
  /\ UNCHANGED <<disk, job>>

\* NamedTemporaryFile(delete=False) in the output's directory.
CreateTemporary(p) ==
  /\ process[p].at = "create"
  /\ \/ process' = [process EXCEPT ![p].at = "write", ![p].temporary = "partial"]
     \/ Goto(p, "failed")
  /\ UNCHANGED <<disk, job>>

WriteTemporary(p) ==
  /\ process[p].at = "write"
  /\ \/ process' = [process EXCEPT ![p].at = "publish", ![p].temporary = "whole"]
     \/ Goto(p, "abandon")
  /\ UNCHANGED <<disk, job>>

Published(p) == [by |-> p, whole |-> process[p].temporary = "whole", report |-> process[p].report]

\* Seeded fault: whatever stands there is replaced, as with --force.
FaultyPublish(p) ==
  /\ process[p].at = "publish"
  /\ \/ disk' = [disk EXCEPT ![Path(p)] = Published(p)] /\ Goto(p, "unlink")
     \/ disk' = disk /\ Goto(p, "abandon")
  /\ UNCHANGED job

\* os.link fails on a path that exists; os.replace takes its place, and the
\* temporary's name is gone.
Publish(p) ==
  /\ process[p].at = "publish"
  /\ \/ /\ ~job[p].force /\ disk[Path(p)] = Absent
        /\ disk' = [disk EXCEPT ![Path(p)] = Published(p)]
        /\ Goto(p, "unlink")
     \/ /\ job[p].force
        /\ disk' = [disk EXCEPT ![Path(p)] = Published(p)]
        /\ process' = [process EXCEPT ![p].at = "unlink", ![p].temporary = Nothing]
     \/ disk' = disk /\ Goto(p, "abandon")
  /\ UNCHANGED job

\* Seeded fault: a failure skips the cleaning.
FaultyUnlink(p) ==
  /\ process[p].at \in {"unlink", "abandon"}
  /\ IF process[p].at = "abandon" THEN Goto(p, "failed")
     ELSE IF process[p].output < Len(Outputs(p))
     THEN process' = [process EXCEPT ![p].at = "create", ![p].temporary = Nothing, ![p].output = @ + 1]
     ELSE process' = [process EXCEPT ![p].at = "done", ![p].temporary = Nothing]
  /\ UNCHANGED <<disk, job>>

\* The finally block, and the next output.  A removal that fails is an error too.
Unlink(p) ==
  /\ process[p].at \in {"unlink", "abandon"}
  /\ \/ LET cleaned == [process EXCEPT ![p].temporary = Nothing] IN
        process' =
          IF process[p].at = "abandon" THEN [cleaned EXCEPT ![p].at = "failed"]
          ELSE IF process[p].output < Len(Outputs(p))
               THEN [cleaned EXCEPT ![p].at = "create", ![p].output = @ + 1]
          ELSE [cleaned EXCEPT ![p].at = "done"]
     \/ process[p].temporary # Nothing /\ Goto(p, "left")
  /\ UNCHANGED <<disk, job>>

\* What a killed process was writing stays in the directory.
Kill(p) ==
  /\ Active(p)
  /\ Goto(p, "killed")
  /\ UNCHANGED <<disk, job>>

Run(p) ==
  \/ CheckOutputs(p) \/ Load(p)
  \/ CreateTemporary(p) \/ WriteTemporary(p) \/ Publish(p) \/ Unlink(p)
  \/ Kill(p)

-----------------------------------------------------------------------------
Idle == [p \in Processes |-> [at |-> "start", output |-> 1, temporary |-> Nothing, report |-> NoReport]]

Init == ResultsInit /\ disk \in Before /\ job \in [Processes -> Jobs] /\ process = Idle

Next ==
  \/ ResultsStep /\ UNCHANGED publication
  \/ \E p \in Processes : Run(p) /\ UNCHANGED results

Spec == Init /\ [][Next]_<<results, publication>>

-----------------------------------------------------------------------------
(* Properties.                                                             *)

\* A published report has every case of the suite, each with all samples of the one
\* run its context names, although the file is truncated and rewritten under it.  If
\* somebody edited or merged the file, cases may be missing and reruns that say the
\* same of themselves mixed, yet each case shown has one sample of each repetition,
\* measured for it in the context's mode and count, none of a failed case and all of
\* one execution ("Every present case must have exactly its requested raw
\* repetitions, unique indexes covering 0..N-1, ... and consistent status, metadata,
\* and execution counters", docs/reporting.md:171-173).
ReportsShowCompleteRuns == \A path \in Paths : Complete(disk[path].report)

\* What stands at an output path stays, whatever appeared there since it was looked
\* at, unless a forced report replaces it; an input and a symbolic link stay even then
\* ("Existing output is preserved unless --force is supplied. ... Even with --force,
\* the command refuses to overwrite an input or comparison manifest, including
\* hard-link aliases; output symlinks are rejected", docs/reporting.md:63-66; "never
\* replaces existing output files", docs/attribution.md:96).
ExistingOutputKept ==
  [][\A path \in Paths :
       disk[path] # Absent /\ disk'[path] # disk[path] =>
         /\ disk[path] \notin {Symlink, Input}
         /\ \E p \in Processes : job[p].force /\ disk'[path].by = p]_disk

\* Readers see whole files only; a Markdown attribution stands beside the JSON of
\* its own process; a process that was not killed leaves no temporary file, however
\* it fails, unless its removal fails ("Each report file is published atomically; the
\* optional JSON and Markdown pair is not a multi-file transaction, so an I/O failure
\* publishing the second file can leave the first complete report in place",
\* docs/attribution.md:97-100).
OutputsAreWhole ==
  /\ \A path \in Paths : disk[path] # Absent => disk[path].whole
  /\ \A p \in Processes : \A i \in DOMAIN Outputs(p) :
       disk[Outputs(p)[i]].by = p =>
         \A j \in 1 .. i : job[p].tool = "attribution" => disk[Outputs(p)[j]].by = p
  /\ \A p \in Processes : process[p].at \in {"done", "failed"} => process[p].temporary = Nothing

=============================================================================
