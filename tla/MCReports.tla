----------------------------- MODULE MCReports -----------------------------
(***************************************************************************)
(* Publication for TLC: runs that write one results file one after the     *)
(* other, two publishing processes of any kind.                            *)
(***************************************************************************)
EXTENDS Publication

\* "rerun" is the first run once more, and says the same of itself; "again" is the same
\* benchmark after a change of the fixture, one case of which fails; "summary" is
\* another mode with aggregates only.
MCRuns == {"first", "rerun", "again", "summary"}
MCRunOf ==
  [r \in MCRuns |->
     CASE r \in {"first", "rerun"} -> [mode |-> "dual-hot", repetitions |-> 2, counters |-> "g1", failing |-> {},
                                     aggregatesOnly |-> FALSE]
       [] r = "again" -> [mode |-> "dual-hot", repetitions |-> 2, counters |-> "g2", failing |-> {"c2"},
                          aggregatesOnly |-> FALSE]
       [] r = "summary" -> [mode |-> "interpreter-hot", repetitions |-> 2, counters |-> "g1",
                            failing |-> {}, aggregatesOnly |-> TRUE]]
MCCases == <<"c1", "c2">>

Report(force) == [tool |-> "report", outputs |-> <<"report.md">>, force |-> force]
Attribution(outputs) == [tool |-> "attribution", outputs |-> outputs, force |-> FALSE]
MCJobs == {Report(TRUE), Report(FALSE), Attribution(<<"gas.json", "gas.md">>), Attribution(<<"gas.md">>)}
MCPaths == {"report.md", "gas.json", "gas.md"}

Older == [by |-> "earlier", whole |-> TRUE, report |-> NoReport]
MCBefore ==
  {b \in [MCPaths -> {Absent, Older, Symlink, Input}] :
     b["gas.json"] \in {Absent, Older} /\ b["gas.md"] \in {Absent, Symlink}}

\* One report beside all that can happen to the results file, or two processes
\* beside a finished file that one more run rewrites.
CONSTANTS p1, p2

MCInit ==
  /\ disk \in Before /\ job \in [Processes -> Jobs]
  /\ \/ /\ ResultsInit
        /\ job[p1] = Report(FALSE) /\ disk = [path \in Paths |-> Absent]
        /\ process = [Idle EXCEPT ![p2].at = "done"] /\ job[p2] = job[p1]
     \/ /\ writing = NoRun /\ pending = {"again"} /\ edits = MaxEdits
        /\ file = [exists |-> TRUE, whole |-> TRUE, edited |-> FALSE, context |-> "first",
                   rows |-> RowsOf("first", "c1") \o RowsOf("first", "c2")]
        /\ process = Idle

MCSpec == MCInit /\ [][Next]_<<results, publication>>

=============================================================================
