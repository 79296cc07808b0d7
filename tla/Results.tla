------------------------------ MODULE Results ------------------------------
(***************************************************************************)
(* The results file of `monad-execbench run`, as Google Benchmark writes   *)
(* it, a person edits it and load_run of                                   *)
(* src/analysis/monad_execbench_report/results.py reads it.                *)
(*                                                                         *)
(* A row keeps what load_run looks at, and `run` beside it: the run that   *)
(* measured it, which no reader can see: two runs may say the same of      *)
(* themselves.  Status, metadata and counters of a row are its case's in   *)
(* its run (RunOf[run].counters).                                          *)
(***************************************************************************)
EXTENDS Integers, FiniteSets, Sequences, SequencesExt

CONSTANTS
  Runs,        \* runs of the benchmark that write this file, one after another
  RunOf,       \* run -> [mode, repetitions, counters, failing, aggregatesOnly]
  Cases,       \* the cases, in one order in which they may be finished
  MaxEdits     \* bound: edits of a finished file

ASSUME ResultsAssumption == \A r \in Runs : RunOf[r].repetitions \in Nat \ {0}

VARIABLES
  file,      \* [exists, whole, context, rows], and whether it was edited
  writing,   \* the run that has the file open, or NoRun
  pending,   \* the runs still to come
  edits      \* how often the file was edited

results == <<file, writing, pending, edits>>

NoRun == "no run"
NoFile == [exists |-> FALSE, whole |-> FALSE, edited |-> FALSE, context |-> NoRun, rows |-> << >>]

Sample(r, c, i) ==
  [run |-> r, kind |-> "iteration", mode |-> RunOf[r].mode, case |-> c,
   repetitions |-> RunOf[r].repetitions, index |-> i,
   counters |-> RunOf[r].counters, failed |-> c \in RunOf[r].failing]
Aggregate(r, c) == [Sample(r, c, 0) EXCEPT !.kind = "aggregate"]

\* The rows of a case: all repetitions, then the aggregates, which there are of
\* more than one repetition.
RowsOf(r, c) ==
  (IF RunOf[r].aggregatesOnly /\ RunOf[r].repetitions > 1 THEN << >>
   ELSE [i \in 1 .. RunOf[r].repetitions |-> Sample(r, c, i - 1)])
  \o (IF RunOf[r].repetitions > 1 THEN <<Aggregate(r, c)>> ELSE << >>)

-----------------------------------------------------------------------------
(* The benchmark.                                                          *)

\* The file is truncated when it is opened; its context comes first.
OpenResults ==
  /\ writing = NoRun
  /\ \E r \in pending :
       /\ file' = [exists |-> TRUE, whole |-> FALSE, edited |-> FALSE, context |-> r, rows |-> << >>]
       /\ writing' = r /\ pending' = pending \ {r}
  /\ UNCHANGED edits

Finished == {c \in Range(Cases) : \E i \in DOMAIN file.rows : file.rows[i].case = c}

\* The repetitions of the cases are interleaved, their rows are written when the
\* last of a case is done, in any order of the cases.
WriteCase ==
  /\ writing # NoRun
  /\ \E c \in Range(Cases) \ Finished : file' = [file EXCEPT !.rows = @ \o RowsOf(writing, c)]
  /\ UNCHANGED <<writing, pending, edits>>

\* Only now is the document closed, and JSON.
CloseResults ==
  /\ writing # NoRun /\ Finished = Range(Cases)
  /\ file' = [file EXCEPT !.whole = TRUE]
  /\ writing' = NoRun
  /\ UNCHANGED <<pending, edits>>

\* A kill, or a disk that is full: the text ends where it ends.
StopWriting ==
  /\ writing # NoRun
  /\ writing' = NoRun
  /\ UNCHANGED <<file, pending, edits>>

-----------------------------------------------------------------------------
(* A person, with a JSON tool.                                             *)

\* Rows that stand together are removed, or a row is added, of any run.
ForeignRows == UNION {Range(RowsOf(r, c)) : r \in Runs, c \in Range(Cases)}

Edit ==
  /\ writing = NoRun /\ file.whole /\ edits < MaxEdits
  /\ edits' = edits + 1
  /\ \/ \E i, j \in DOMAIN file.rows :
          /\ i <= j
          /\ file' = [file EXCEPT !.rows = SubSeq(@, 1, i - 1) \o SubSeq(@, j + 1, Len(@)),
                                 !.edited = TRUE]
     \/ \E row \in Range(file.rows) \cup ForeignRows :
          file' = [file EXCEPT !.rows = Append(@, row), !.edited = TRUE]
  /\ UNCHANGED <<writing, pending>>

ResultsInit == file = NoFile /\ writing = NoRun /\ pending = Runs /\ edits = 0

ResultsStep == OpenResults \/ WriteCase \/ CloseResults \/ StopWriting \/ Edit

-----------------------------------------------------------------------------
(* load_run.                                                               *)

Requested == RunOf[file.context].repetitions
RawRows(c) == {i \in DOMAIN file.rows : file.rows[i].kind = "iteration" /\ file.rows[i].case = c}
Grouped == {file.rows[i].case : i \in {j \in DOMAIN file.rows : file.rows[j].kind = "iteration"}}
AggregateNames == {file.rows[i].case : i \in {j \in DOMAIN file.rows : file.rows[j].kind = "aggregate"}}

\* What is asked of every entry: no failure, and the mode and count of the context.
EntryFits(row) ==
  /\ ~row.failed
  /\ row.mode = RunOf[file.context].mode /\ row.repetitions = Requested

\* Seeded fault: indexes are not compared with each other.
FaultyCase(rows) ==
  /\ Cardinality(rows) = Requested
  /\ \A i \in rows : file.rows[i].index < Requested
  /\ \A i, j \in rows : file.rows[i].counters = file.rows[j].counters

\* _case, of a case's positions in the file: as many samples as requested, distinct
\* indexes, one set of counters and metadata.
Case(rows) ==
  /\ Cardinality(rows) = Requested
  /\ \A i \in rows : file.rows[i].index < Requested
  /\ \A i, j \in rows : /\ i # j => file.rows[i].index # file.rows[j].index
                         /\ file.rows[i].counters = file.rows[j].counters

\* What load_run returns, or raises.
LoadRun ==
  /\ file.exists /\ file.whole
  /\ file.rows # << >> /\ \A i \in DOMAIN file.rows : EntryFits(file.rows[i])
  /\ Grouped # {} /\ AggregateNames \subseteq Grouped
  /\ \A c \in Grouped : Case(RawRows(c))

\* What is reported: the context, and the samples of each case.
Loaded ==
  [context |-> file.context, edited |-> file.edited,
   cases |-> [c \in Grouped |-> {file.rows[i] : i \in RawRows(c)}]]
NoReport == [context |-> NoRun, edited |-> TRUE, cases |-> << >>]

=============================================================================
