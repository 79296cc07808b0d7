------------------------- MODULE PublicationProofs -------------------------
(***************************************************************************)
(* That publishing keeps what stands at an output path, and leaves whole   *)
(* files only, in order, and no temporary ones, and that the reports show  *)
(* complete cases only, of one run if nobody edited the file: for all sets *)
(* of processes, jobs and paths, and for every results file.               *)
(***************************************************************************)
EXTENDS Publication, FiniteSetTheorems, TLAPS

vars == <<results, publication>>

\* No forced report is given an output of an attribution.
ForcedApart ==
    \A j, k \in Jobs :
        j.force /\ k.tool = "attribution" => Range(j.outputs) \cap Range(k.outputs) = {}

IsProcess(r) == r = [at |-> r.at, output |-> r.output, temporary |-> r.temporary, report |-> r.report]

\* The disk and the jobs.
Typed ==
    /\ disk = [path \in Paths |-> disk[path]]
    /\ job \in [Processes -> Jobs]
    /\ process = [p \in Processes |-> process[p]]
    /\ \A p \in Processes : IsProcess(process[p])

\* An output is under way; its temporary file is there from its creation to its
\* removal, whole once written.
Local(p) ==
    /\ process[p].output \in 1 .. Len(Outputs(p))
    /\ process[p].at \in {"start", "load", "create", "done", "failed"} => process[p].temporary = Nothing
    /\ process[p].at = "publish" => process[p].temporary = "whole"

WholeFiles == \A path \in Paths : disk[path] # Absent => disk[path].whole

\* The outputs before the one under way are published.
Progress(p) ==
    /\ process[p].at \in {"start", "load"} => process[p].output = 1
    /\ process[p].at \in {"create", "write", "publish", "unlink"} =>
         \A j \in 1 .. process[p].output - 1 : disk[Outputs(p)[j]].by = p
    /\ process[p].at = "unlink" => disk[Path(p)].by = p

\* A later output stands beside all earlier ones.
InTurn(p) ==
    \A i \in DOMAIN Outputs(p) :
        disk[Outputs(p)[i]].by = p => \A j \in 1 .. i : disk[Outputs(p)[j]].by = p

InOrder == \A p \in Processes : job[p].tool = "attribution" => Progress(p) /\ InTurn(p)

IInv == Typed /\ (\A p \in Processes : Local(p)) /\ WholeFiles /\ InOrder

-----------------------------------------------------------------------------
(* Steps.                                                                  *)

\* What a step of p does to the processes and the disk, other than publishing.
Moves(p) ==
    /\ disk' = disk /\ job' = job
    /\ process' = [process EXCEPT ![p] = process'[p]] /\ IsProcess(process'[p])

\* A step that publishes nothing keeps the invariant if p itself is in order.
LEMMA MovesPreserve ==
    ASSUME IInv, NEW p \in Processes, Moves(p), Local(p)',
           job[p].tool = "attribution" => Progress(p)'
    PROVE  IInv'
<1>1. Typed'
    BY DEF IInv, Typed, Moves
<1>2. \A q \in Processes \ {p} : process'[q] = process[q]
    BY DEF IInv, Typed, Moves
<1>3. \A q \in Processes : Local(q)'
    BY <1>2 DEF IInv, Local, Outputs, Moves
<1>4. WholeFiles'
    BY DEF IInv, WholeFiles, Moves
<1>5. InOrder'
    <2> SUFFICES ASSUME NEW q \in Processes, job[q].tool = "attribution"
                 PROVE  Progress(q)' /\ InTurn(q)'
        BY DEF InOrder, Moves
    <2>1. InTurn(q)'
        BY DEF IInv, InOrder, InTurn, Outputs, Moves
    <2>2. CASE q = p
        BY <2>1, <2>2
    <2>3. CASE q # p
        BY <1>2, <2>1, <2>3 DEF IInv, InOrder, Progress, Path, Outputs, Moves
    <2> QED BY <2>2, <2>3
<1> QED BY <1>1, <1>3, <1>4, <1>5 DEF IInv

\* Changing a field of a process changes that field.
LEMMA FieldAt ==
    ASSUME NEW r, IsProcess(r), NEW place
    PROVE  LET t == [r EXCEPT !.at = place] IN
           /\ IsProcess(t) /\ t.at = place
           /\ t.output = r.output /\ t.temporary = r.temporary /\ t.report = r.report
<1> DEFINE t == [at |-> place, output |-> r.output, temporary |-> r.temporary, report |-> r.report]
<1>1. [r EXCEPT !.at = place] = t
    BY DEF IsProcess
<1>2. IsProcess(t)
    BY DEF IsProcess
<1> QED BY <1>1, <1>2

LEMMA FieldOutput ==
    ASSUME NEW r, IsProcess(r), NEW k
    PROVE  LET t == [r EXCEPT !.output = k] IN
           /\ IsProcess(t) /\ t.output = k
           /\ t.at = r.at /\ t.temporary = r.temporary /\ t.report = r.report
<1> DEFINE t == [at |-> r.at, output |-> k, temporary |-> r.temporary, report |-> r.report]
<1>1. [r EXCEPT !.output = k] = t
    BY DEF IsProcess
<1>2. IsProcess(t)
    BY DEF IsProcess
<1> QED BY <1>1, <1>2

LEMMA FieldTemporary ==
    ASSUME NEW r, IsProcess(r), NEW x
    PROVE  LET t == [r EXCEPT !.temporary = x] IN
           /\ IsProcess(t) /\ t.temporary = x
           /\ t.at = r.at /\ t.output = r.output /\ t.report = r.report
<1> DEFINE t == [at |-> r.at, output |-> r.output, temporary |-> x, report |-> r.report]
<1>1. [r EXCEPT !.temporary = x] = t
    BY DEF IsProcess
<1>2. IsProcess(t)
    BY DEF IsProcess
<1> QED BY <1>1, <1>2

\* The jobs' assumptions, for a process.
LEMMA JobOf ==
    ASSUME Typed, NEW p \in Processes
    PROVE  /\ Outputs(p) \in Seq(Paths) /\ Len(Outputs(p)) \in Nat \ {0}
           /\ DOMAIN Outputs(p) = 1 .. Len(Outputs(p))
           /\ \A i \in DOMAIN Outputs(p) : Outputs(p)[i] \in Paths
           /\ \A m, n \in DOMAIN Outputs(p) : Outputs(p)[m] = Outputs(p)[n] => m = n
           /\ job[p].force \in BOOLEAN /\ (job[p].force => job[p].tool = "report")
BY PublicationAssumption DEF Typed, Outputs

LEMMA InitInvariant == Init => IInv
<1> SUFFICES ASSUME Init PROVE IInv
    OBVIOUS
<1>1. Typed
    BY PublicationAssumption DEF Init, Typed, IsProcess, Idle
<1>2. WholeFiles
    BY PublicationAssumption DEF Init, WholeFiles
<1>3. \A p \in Processes : Local(p)
    BY <1>1, JobOf DEF Init, Idle, Local
<1>4. InOrder
    <2> SUFFICES ASSUME NEW p \in Processes PROVE Progress(p) /\ InTurn(p)
        BY DEF InOrder
    <2>1. Progress(p)
        BY <1>1, JobOf DEF Init, Idle, Progress
    <2>2. \A path \in Paths : disk[path].by # p
        BY PublicationAssumption DEF Init, Absent
    <2>3. InTurn(p)
        BY <1>1, <2>2, JobOf DEF InTurn
    <2> QED BY <2>1, <2>3
<1> QED BY <1>1, <1>2, <1>3, <1>4 DEF IInv

\* The steps that publish nothing.
LEMMA QuietSteps ==
    ASSUME IInv, NEW p \in Processes,
           CheckOutputs(p) \/ Load(p) \/ CreateTemporary(p) \/ WriteTemporary(p) \/ Unlink(p) \/ Kill(p)
    PROVE  IInv'
<1> USE DEF Goto
<1>1. /\ process = [q \in Processes |-> process[q]] /\ IsProcess(process[p]) /\ Local(p)
      /\ job[p].tool = "attribution" => Progress(p)
    BY DEF IInv, Typed, InOrder
<1>2. Len(Outputs(p)) \in Nat \ {0}
    BY JobOf DEF IInv
<1>3. CASE CheckOutputs(p)
    <2>1. Moves(p)
        BY <1>1, <1>3 DEF CheckOutputs, Moves, IsProcess
    <2>2. Local(p)' /\ (job[p].tool = "attribution" => Progress(p)')
        BY <1>1, <1>3 DEF CheckOutputs, Local, Progress, Path, Outputs, IsProcess
    <2> QED BY <2>1, <2>2, MovesPreserve
<1>4. CASE Load(p)
    <2>1. Moves(p)
        BY <1>1, <1>4 DEF Load, Moves, IsProcess
    <2>2. Local(p)'
        BY <1>1, <1>4 DEF Load, Local, Path, Outputs, IsProcess
    <2>3. job[p].tool = "attribution" => Progress(p)'
        BY <1>1, <1>4 DEF Load, Local, Progress, Path, Outputs, IsProcess
    <2> QED BY <2>1, <2>2, <2>3, MovesPreserve
<1>5. CASE CreateTemporary(p)
    <2>1. Moves(p)
        BY <1>1, <1>5 DEF CreateTemporary, Moves, IsProcess
    <2>2. Local(p)'
        BY <1>1, <1>5 DEF CreateTemporary, Local, Path, Outputs, IsProcess
    <2>3. job[p].tool = "attribution" => Progress(p)'
        BY <1>1, <1>5 DEF CreateTemporary, Local, Progress, Path, Outputs, IsProcess
    <2> QED BY <2>1, <2>2, <2>3, MovesPreserve
<1>6. CASE WriteTemporary(p)
    <2> DEFINE r == process[p]
               c == [r EXCEPT !.at = "publish"]
               t == [c EXCEPT !.temporary = "whole"]
               u == [r EXCEPT !.at = "abandon"]
    <2>1. /\ IsProcess(t) /\ t.at = "publish" /\ t.temporary = "whole" /\ t.output = r.output
          /\ IsProcess(u) /\ u.at = "abandon" /\ u.output = r.output
        <3>1. IsProcess(c) /\ c.at = "publish" /\ c.output = r.output
            BY <1>1, FieldAt
        <3>2. IsProcess(t) /\ t.at = "publish" /\ t.temporary = "whole" /\ t.output = r.output
            <4> HIDE DEF c
            <4> QED BY <3>1, FieldTemporary
        <3>3. IsProcess(u) /\ u.at = "abandon" /\ u.output = r.output
            BY <1>1, FieldAt, ZenonT(40)
        <3> QED BY <3>2, <3>3
    <2>2. process' = [process EXCEPT ![p] = t] \/ process' = [process EXCEPT ![p] = u]
        BY <1>1, <1>6 DEF WriteTemporary
    <2>3. r.at = "write" /\ disk' = disk /\ job' = job
        BY <1>6 DEF WriteTemporary
    <2> HIDE DEF t, u
    <2>4. Moves(p)
        BY <1>1, <2>1, <2>2, <2>3 DEF Moves
    <2>5. Local(p)' /\ (job[p].tool = "attribution" => Progress(p)')
        BY <1>1, <2>1, <2>2, <2>3 DEF Local, Progress, Path, Outputs
    <2> QED BY <2>4, <2>5, MovesPreserve
<1>9. CASE UNCHANGED <<disk, job>> /\ Goto(p, "left")
    <2>1. Moves(p)
        BY <1>1, <1>9 DEF Moves, IsProcess
    <2>2. Local(p)' /\ (job[p].tool = "attribution" => Progress(p)')
        BY <1>1, <1>9 DEF Local, Progress, Path, Outputs, IsProcess
    <2> QED BY <2>1, <2>2, MovesPreserve
<1>7. CASE Unlink(p) /\ ~Goto(p, "left")
    <2> DEFINE r == process[p]
               s == [r EXCEPT !.temporary = Nothing]
    <2>1. IsProcess(s) /\ s.temporary = Nothing /\ s.at = r.at /\ s.output = r.output
        BY <1>1, FieldTemporary
    <2>2. CASE r.at = "abandon"
        <3>1. process' = [process EXCEPT ![p] = [s EXCEPT !.at = "failed"]]
            BY <1>1, <1>7, <2>2 DEF Unlink
        <3>2. LET t == [s EXCEPT !.at = "failed"] IN
              IsProcess(t) /\ t.at = "failed" /\ t.temporary = Nothing /\ t.output = r.output
            <4> HIDE DEF s
            <4> QED BY <2>1, FieldAt
        <3>3. Moves(p)
            BY <1>1, <1>7, <3>1, <3>2 DEF Unlink, Moves
        <3>4. Local(p)' /\ (job[p].tool = "attribution" => Progress(p)')
            BY <1>1, <3>1, <3>2, <3>3 DEF Local, Progress, Path, Outputs, Moves
        <3> QED BY <3>3, <3>4, MovesPreserve
    <2>3. CASE r.at = "unlink" /\ r.output < Len(Outputs(p))
        <3>1. process' = [process EXCEPT ![p] = [[s EXCEPT !.at = "create"] EXCEPT !.output = r.output + 1]]
            BY <1>1, <1>7, <2>1, <2>3 DEF Unlink
        <3>2. LET t == [[s EXCEPT !.at = "create"] EXCEPT !.output = r.output + 1] IN
              IsProcess(t) /\ t.at = "create" /\ t.temporary = Nothing /\ t.output = r.output + 1
            <4> DEFINE c == [s EXCEPT !.at = "create"]
            <4>1. IsProcess(c) /\ c.at = "create" /\ c.temporary = Nothing
                <5> HIDE DEF s
                <5> QED BY <2>1, FieldAt
            <4> HIDE DEF s, c
            <4> QED BY <4>1, FieldOutput, ZenonT(40) DEF c
        <3>3. Moves(p)
            BY <1>1, <1>7, <3>1, <3>2 DEF Unlink, Moves
        <3>4. /\ process'[p].at = "create" /\ process'[p].output = r.output + 1
              /\ process'[p].temporary = Nothing /\ disk' = disk /\ job' = job
            <4> HIDE DEF s
            <4> QED BY <1>1, <3>1, <3>2, <3>3 DEF Moves
        <3>5. Local(p)'
            BY <1>1, <1>2, <2>3, <3>4 DEF Local, Outputs
        <3>6. ASSUME job[p].tool = "attribution" PROVE Progress(p)'
            <4>1. \A j \in 1 .. r.output : disk[Outputs(p)[j]].by = p
                BY <1>1, <1>2, <2>3, <3>6 DEF Local, Progress, Path
            <4> QED BY <1>1, <1>2, <2>3, <3>4, <4>1 DEF Local, Progress, Outputs
        <3> QED BY <3>3, <3>5, <3>6, MovesPreserve
    <2>4. CASE r.at = "unlink" /\ ~(r.output < Len(Outputs(p)))
        <3>1. process' = [process EXCEPT ![p] = [s EXCEPT !.at = "done"]]
            BY <1>1, <1>7, <2>4 DEF Unlink
        <3>2. LET t == [s EXCEPT !.at = "done"] IN
              IsProcess(t) /\ t.at = "done" /\ t.temporary = Nothing /\ t.output = r.output
            <4> HIDE DEF s
            <4> QED BY <2>1, FieldAt
        <3>3. Moves(p)
            BY <1>1, <1>7, <3>1, <3>2 DEF Unlink, Moves
        <3>4. Local(p)' /\ (job[p].tool = "attribution" => Progress(p)')
            BY <1>1, <3>1, <3>2, <3>3 DEF Local, Progress, Path, Outputs, Moves
        <3> QED BY <3>3, <3>4, MovesPreserve
    <2> QED BY <1>7, <2>2, <2>3, <2>4 DEF Unlink
<1>8. CASE Kill(p)
    <2>1. Moves(p)
        BY <1>1, <1>8 DEF Kill, Moves, IsProcess
    <2>2. Local(p)' /\ (job[p].tool = "attribution" => Progress(p)')
        BY <1>1, <1>8 DEF Kill, Local, Progress, Path, Outputs, IsProcess
    <2> QED BY <2>1, <2>2, MovesPreserve
<1> QED BY <1>3, <1>4, <1>5, <1>6, <1>7, <1>8, <1>9 DEF Unlink

\* What Publish does: nothing to the disk, or a file of p stands where there was none
\* or p is forced.
LEMMA Publishes ==
    ASSUME Typed, NEW p \in Processes, Publish(p)
    PROVE  /\ job' = job /\ process[p].at = "publish"
           /\ process' = [process EXCEPT ![p] = process'[p]] /\ IsProcess(process'[p])
           /\ process'[p].output = process[p].output
           /\ \/ disk' = disk /\ process'[p].at = "abandon"
              \/ /\ disk' = [disk EXCEPT ![Path(p)] = Published(p)] /\ process'[p].at = "unlink"
                 /\ job[p].force \/ disk[Path(p)] = Absent
<1> DEFINE r == process[p]
<1>1. process = [q \in Processes |-> process[q]] /\ IsProcess(r) /\ r.at = "publish" /\ job' = job
    BY DEF Publish, Typed
<1>2. CASE disk' = disk /\ Goto(p, "abandon")
    <2>1. LET t == [r EXCEPT !.at = "abandon"] IN
          IsProcess(t) /\ t.at = "abandon" /\ t.output = r.output
        BY <1>1, FieldAt, ZenonT(40)
    <2> QED BY <1>1, <1>2, <2>1 DEF Goto
<1>3. CASE disk' = [disk EXCEPT ![Path(p)] = Published(p)] /\ Goto(p, "unlink") /\ disk[Path(p)] = Absent
    <2>1. LET t == [r EXCEPT !.at = "unlink"] IN
          IsProcess(t) /\ t.at = "unlink" /\ t.output = r.output
        BY <1>1, FieldAt
    <2> QED BY <1>1, <1>3, <2>1 DEF Goto
<1>4. CASE /\ disk' = [disk EXCEPT ![Path(p)] = Published(p)] /\ job[p].force
           /\ process' = [process EXCEPT ![p].at = "unlink", ![p].temporary = Nothing]
    <2> DEFINE t == [[r EXCEPT !.at = "unlink"] EXCEPT !.temporary = Nothing]
    <2>1. IsProcess(t) /\ t.at = "unlink" /\ t.output = r.output
        <3>1. LET u == [r EXCEPT !.at = "unlink"] IN
              IsProcess(u) /\ u.at = "unlink" /\ u.output = r.output
            BY <1>1, FieldAt
        <3> QED BY <3>1, FieldTemporary, ZenonT(40)
    <2>2. process' = [process EXCEPT ![p] = t]
        BY <1>1, <1>4
    <2> HIDE DEF t
    <2> QED BY <1>1, <1>4, <2>1, <2>2
<1> QED BY <1>2, <1>3, <1>4 DEF Publish

\* A published file is whole, in its process's order, and no other's.
LEMMA PublishPreserves ==
    ASSUME IInv, ForcedApart, NEW p \in Processes, Publish(p)
    PROVE  IInv'
<1> DEFINE put == [disk EXCEPT ![Path(p)] = Published(p)]
<1>1. Typed /\ Local(p) /\ job' = job
    BY Publishes DEF IInv
<1>9. /\ process[p].at = "publish"
      /\ process' = [process EXCEPT ![p] = process'[p]] /\ IsProcess(process'[p])
      /\ process'[p].output = process[p].output
      /\ \/ disk' = disk /\ process'[p].at = "abandon"
         \/ disk' = put /\ process'[p].at = "unlink" /\ (job[p].force \/ disk[Path(p)] = Absent)
    BY <1>1, Publishes
<1>8. /\ \A path \in Paths : path # Path(p) => disk'[path] = disk[path]
      /\ (disk' # disk \/ process'[p].at = "unlink") /\ Path(p) \in Paths => disk'[Path(p)] = Published(p)
    BY <1>1, <1>9 DEF Typed
<1>7. Published(p).whole /\ Published(p).by = p
    BY <1>1, <1>9 DEF Published, Local
<1>2. \A q \in Processes \ {p} : process'[q] = process[q]
    BY <1>1, <1>9 DEF Typed
<1>3. Typed'
    BY <1>1, <1>2, <1>9 DEF Typed
<1>4. \A q \in Processes : Local(q)'
    <2>1. Local(p)'
        BY <1>1, <1>9 DEF Local, Outputs
    <2> QED BY <1>1, <1>2, <2>1 DEF IInv, Local, Outputs
<1>5. WholeFiles'
    BY <1>7, <1>8 DEF IInv, WholeFiles
<1>6. InOrder'
    <2> SUFFICES ASSUME NEW q \in Processes, job[q].tool = "attribution"
                 PROVE  Progress(q)' /\ InTurn(q)'
        BY <1>1 DEF InOrder
    <2> DEFINE O == Outputs(q)
    <2>1. Progress(q) /\ InTurn(q) /\ Outputs(q)' = O
        BY <1>1 DEF IInv, InOrder, Outputs
    <2>2. /\ Len(O) \in Nat /\ DOMAIN O = 1 .. Len(O) /\ \A i \in 1 .. Len(O) : O[i] \in Paths
          /\ \A m, n \in 1 .. Len(O) : O[m] = O[n] => m = n
        BY <1>1, JobOf
    <2>3. CASE disk' = disk /\ ~(q = p /\ process'[p].at = "unlink")
        <3>1. InTurn(q)'
            BY <2>1, <2>3 DEF InTurn
        <3>2. Progress(q)'
            BY <1>2, <1>9, <2>1, <2>3 DEF Progress, Path
        <3> QED BY <3>1, <3>2
    <2>4. CASE q # p /\ disk' # disk
        <3>1. \A i \in 1 .. Len(O) : disk'[O[i]].by = q <=> disk[O[i]].by = q
            <4> SUFFICES ASSUME NEW i \in 1 .. Len(O), O[i] = Path(p)
                         PROVE  disk'[O[i]].by # q /\ disk[O[i]].by # q
                BY <1>8, <2>2
            <4>1. ~job[p].force
                <5>1. Path(p) \in Range(job[p].outputs)
                    BY <1>1, JobOf DEF Local, Path, Outputs, Range
                <5>2. Path(p) \in Range(job[q].outputs)
                    BY <2>2 DEF Outputs, Range
                <5>3. job[p] \in Jobs /\ job[q] \in Jobs
                    BY <1>1 DEF Typed
                <5> QED BY <5>1, <5>2, <5>3 DEF ForcedApart
            <4>2. disk[O[i]] = Absent /\ disk'[O[i]].by = p
                BY <1>7, <1>8, <1>9, <2>2, <2>4, <4>1
            <4> QED BY <2>4, <4>2, PublicationAssumption DEF Absent
        <3>2. InTurn(q)'
            BY <2>1, <2>2, <3>1 DEF InTurn
        <3>3. Progress(q)'
            <4>1. process'[q] = process[q] /\ process[q].output \in 1 .. Len(O)
                BY <1>2, <2>4 DEF IInv, Local
            <4>2. \A j \in 1 .. process[q].output : j \in 1 .. Len(O)
                BY <2>2, <4>1
            <4> QED BY <2>1, <3>1, <4>1, <4>2 DEF Progress, Path
        <3> QED BY <3>2, <3>3
    <2>5. CASE q = p /\ process'[p].at = "unlink"
        <3> DEFINE k == process[p].output
        <3>1. /\ k \in 1 .. Len(O) /\ Path(p) = O[k]
              /\ \A j \in 1 .. k - 1 : disk[O[j]].by = p
            BY <1>1, <1>9, <2>1, <2>5 DEF Local, Progress, Path
        <3>2. disk'[O[k]].by = p /\ \A j \in 1 .. Len(O) \ {k} : disk'[O[j]] = disk[O[j]]
            BY <1>7, <1>8, <2>2, <2>5, <3>1
        <3>3. \A j \in 1 .. k : disk'[O[j]].by = p
            BY <3>1, <3>2, <2>2
        <3>4. InTurn(q)'
            BY <2>1, <2>2, <2>5, <3>1, <3>2, <3>3 DEF InTurn
        <3>5. Progress(q)'
            <4>1. process'[p].at = "unlink" /\ process'[p].output = k
                BY <1>9, <2>5
            <4> QED BY <2>1, <2>5, <3>1, <3>3, <4>1 DEF Progress, Path
        <3> QED BY <3>4, <3>5
    <2> QED BY <1>9, <2>3, <2>4, <2>5
<1> QED BY <1>3, <1>4, <1>5, <1>6 DEF IInv

LEMMA NextPreserves ==
    ASSUME ForcedApart
    PROVE  IInv /\ [Next]_vars => IInv'
<1> SUFFICES ASSUME IInv, [Next]_vars PROVE IInv'
    OBVIOUS
<1>1. CASE UNCHANGED publication
    BY <1>1, ZenonT(40) DEF publication, IInv, Typed, Local, WholeFiles, InOrder, Progress, InTurn, Outputs, Path
<1>2. CASE \E p \in Processes : Run(p)
    BY <1>2, QuietSteps, PublishPreserves DEF Run
<1> QED BY <1>1, <1>2 DEF Next, vars

-----------------------------------------------------------------------------
(* Theorems.                                                               *)

\* Readers see whole files, attributions in order, and no temporary file after a
\* process that was not killed and could remove its own, if no forced report is given
\* an attribution's output (write_report, write_new and their callers).
THEOREM WholeOutputs ==
    ASSUME ForcedApart
    PROVE  Spec => []OutputsAreWhole
<1>1. IInv => OutputsAreWhole
    <2> SUFFICES ASSUME IInv PROVE OutputsAreWhole
        OBVIOUS
    <2>1. \A p \in Processes : \A i \in DOMAIN Outputs(p) :
            disk[Outputs(p)[i]].by = p =>
              \A j \in 1 .. i : job[p].tool = "attribution" => disk[Outputs(p)[j]].by = p
        BY DEF IInv, InOrder, InTurn
    <2>2. \A p \in Processes : process[p].at \in {"done", "failed"} => process[p].temporary = Nothing
        BY DEF IInv, Local
    <2> QED BY <2>1, <2>2 DEF OutputsAreWhole, IInv, WholeFiles
<1> QED BY <1>1, InitInvariant, NextPreserves, PTL DEF Spec, vars

-----------------------------------------------------------------------------
(* Complete cases.  A row in the file is one that some run wrote, and as    *)
(* many distinct indexes below N as there are indexes below N are all of    *)
(* them.  A file that nobody edited has what its run has written so far.    *)

SampleRows == UNION {{Sample(r, c, i) : i \in 0 .. RunOf[r].repetitions - 1} : r \in Runs, c \in Range(Cases)}
AggregateRows == {Aggregate(r, c) : r \in Runs, c \in Range(Cases)}
MeasuredRows == SampleRows \cup AggregateRows

\* The results file is what runs wrote and edits left of it.
Written ==
    /\ file = [exists |-> file.exists, whole |-> file.whole, edited |-> file.edited,
                context |-> file.context, rows |-> file.rows]
    /\ file.rows \in Seq(MeasuredRows)
    /\ file.exists => file.context \in Runs
    /\ writing \in Runs \cup {NoRun} /\ pending \subseteq Runs

\* The samples of a run are written unless it reports aggregates only.
HasSamples(r) == ~(RunOf[r].aggregatesOnly /\ RunOf[r].repetitions > 1)

\* A file nobody edited has the rows of its run's finished cases.
OneRun ==
    ~file.edited /\ file.exists =>
      /\ \A j \in DOMAIN file.rows :
           /\ file.rows[j].case \in Range(Cases)
           /\ file.rows[j].kind = "iteration" =>
                /\ HasSamples(file.context)
                /\ file.rows[j] \in AllSamples(file.context, file.rows[j].case)
      /\ \A c \in Finished :
           HasSamples(file.context) => AllSamples(file.context, c) \subseteq Range(file.rows)
      /\ file.whole => Finished = Range(Cases)

WritingOwn == writing # NoRun => file.exists /\ ~file.edited /\ file.context = writing

FileInv == Written /\ OneRun /\ WritingOwn

\* What was read and what was published is complete.
CompleteReports ==
    /\ \A p \in Processes : Complete(process[p].report)
    /\ \A path \in Paths : Complete(disk[path].report)

CInv == Typed /\ FileInv /\ CompleteReports

\* What is known of a row by its kind.
LEMMA SampleFields ==
    ASSUME NEW row \in MeasuredRows, row.kind = "iteration"
    PROVE  \E r \in Runs : \E i \in 0 .. RunOf[r].repetitions - 1 :
             /\ row = Sample(r, row.case, i)
             /\ row.mode = RunOf[r].mode /\ row.repetitions = RunOf[r].repetitions
             /\ row.counters = RunOf[r].counters /\ row.index = i
             /\ row.failed = (row.case \in RunOf[r].failing)
<1>1. row \notin AggregateRows
    <2>1. \A r, c : Aggregate(r, c).kind = "aggregate"
        BY DEF Aggregate, Sample
    <2> QED BY <2>1 DEF AggregateRows
<1>2. PICK r \in Runs, c \in Range(Cases) :
        \E i \in 0 .. RunOf[r].repetitions - 1 : row = Sample(r, c, i)
    BY <1>1 DEF MeasuredRows, SampleRows
<1>4. PICK i \in 0 .. RunOf[r].repetitions - 1 : row = Sample(r, c, i)
    BY <1>2
<1>3. /\ row.case = c /\ row.mode = RunOf[r].mode /\ row.repetitions = RunOf[r].repetitions
      /\ row.counters = RunOf[r].counters /\ row.index = i
      /\ row.failed = (c \in RunOf[r].failing)
    BY <1>4 DEF Sample
<1> QED BY <1>4, <1>3

\* The rows of a case are measured rows.
LEMMA RowsAreMeasured ==
    ASSUME NEW r \in Runs, NEW c \in Range(Cases)
    PROVE  RowsOf(r, c) \in Seq(MeasuredRows)
<1> DEFINE n == RunOf[r].repetitions
           samples == [i \in 1 .. n |-> Sample(r, c, i - 1)]
<1>1. n \in Nat \ {0}
    BY ResultsAssumption
<1>2. \A i \in 0 .. n - 1 : Sample(r, c, i) \in MeasuredRows
    <2> SUFFICES ASSUME NEW i \in 0 .. n - 1 PROVE Sample(r, c, i) \in SampleRows
        BY DEF MeasuredRows
    <2> DEFINE these == {Sample(r, c, k) : k \in 0 .. n - 1}
    <2>1. Sample(r, c, i) \in these
        OBVIOUS
    <2>2. these \in {{Sample(q, d, k) : k \in 0 .. RunOf[q].repetitions - 1} : q \in Runs, d \in Range(Cases)}
        OBVIOUS
    <2> HIDE DEF these
    <2> QED BY <2>1, <2>2 DEF SampleRows
<1>3. \A i \in 1 .. n : i - 1 \in 0 .. n - 1
    BY <1>1
<1>4. samples \in Seq(MeasuredRows)
    BY <1>1, <1>2, <1>3
<1>5. Aggregate(r, c) \in MeasuredRows
    BY DEF MeasuredRows, AggregateRows
<1>6. << >> \in Seq(MeasuredRows) /\ <<Aggregate(r, c)>> \in Seq(MeasuredRows)
    BY <1>5
<1> DEFINE first == IF RunOf[r].aggregatesOnly /\ n > 1 THEN << >> ELSE samples
           second == IF n > 1 THEN <<Aggregate(r, c)>> ELSE << >>
<1>7. first \in Seq(MeasuredRows) /\ second \in Seq(MeasuredRows) /\ RowsOf(r, c) = first \o second
    BY <1>4, <1>6 DEF RowsOf
<1> HIDE DEF first, second
<1> QED BY <1>7

\* load_run accepts whole cases only (_case, and the checks of every entry).
LEMMA AcceptedAreWhole ==
    ASSUME Written, LoadRun, NEW c \in Grouped
    PROVE  WholeCase(file.context, c, Loaded.cases[c])
<1> DEFINE R == Requested  rows == file.rows  P == RawRows(c)
<1>1. /\ rows \in Seq(MeasuredRows) /\ file.context \in Runs /\ R \in Nat \ {0}
      /\ \A j \in DOMAIN rows : rows[j] \in MeasuredRows
    BY ResultsAssumption DEF Written, LoadRun, Requested
<1>2. Cardinality(P) = R /\ \A i \in P : rows[i].index < R
    BY DEF LoadRun, Case
<1>3. \A i, j \in P : (i # j => rows[i].index # rows[j].index) /\ rows[i].counters = rows[j].counters
    BY DEF LoadRun, Case
<1>4. \A j \in P : /\ j \in DOMAIN rows /\ rows[j] \in MeasuredRows
                   /\ rows[j].kind = "iteration" /\ rows[j].case = c
                   /\ ~rows[j].failed /\ rows[j].mode = RunOf[file.context].mode
                   /\ rows[j].repetitions = R
    BY <1>1 DEF RawRows, LoadRun, EntryFits
<1>5. R = RunOf[file.context].repetitions
    BY DEF Requested
<1>6. \A j \in P : rows[j].index \in 0 .. R - 1 /\ Measured(file.context, c, rows[j])
    <2> SUFFICES ASSUME NEW j \in P
                 PROVE  rows[j].index \in 0 .. R - 1 /\ Measured(file.context, c, rows[j])
        OBVIOUS
    <2>1. PICK r \in Runs : \E i \in 0 .. RunOf[r].repetitions - 1 :
             /\ rows[j] = Sample(r, c, i)
             /\ rows[j].mode = RunOf[r].mode /\ rows[j].repetitions = RunOf[r].repetitions
             /\ rows[j].index = i
             /\ rows[j].failed = (c \in RunOf[r].failing)
        BY <1>4, SampleFields
    <2>2. /\ RunOf[r].mode = RunOf[file.context].mode /\ RunOf[r].repetitions = R
          /\ c \notin RunOf[r].failing
        BY <1>4, <2>1
    <2>3. rows[j] \in AllSamples(r, c)
        BY <2>1 DEF AllSamples
    <2>4. rows[j].index \in 0 .. R - 1
        BY <2>1, <2>2
    <2> HIDE DEF R, rows, P
    <2> QED BY <1>5, <2>2, <2>3, <2>4 DEF Measured
<1> DEFINE N == 0 .. R - 1  f == [j \in P |-> rows[j].index]
<1>9. IsFiniteSet(N) /\ Cardinality(N) = R
    BY <1>1, FS_Interval
<1>10. f \in Injection(P, N)
    <2>1. f \in [P -> N]
        BY <1>6
    <2>2. \A i, j \in P : f[i] = f[j] => i = j
        BY <1>3
    <2> QED BY <2>1, <2>2 DEF Injection, IsInjective
<1>11. f \in Surjection(P, N)
    BY <1>2, <1>9, <1>10, FS_Injection
<1>12. \A i \in N : \E j \in P : rows[j].index = i
    BY <1>11 DEF Surjection
<1>13. Loaded.cases[c] = {rows[j] : j \in P}
    BY DEF Loaded
<1> DEFINE samples == {rows[j] : j \in P}
<1>14. \A s \in samples : Measured(file.context, c, s)
    BY <1>6
<1>15. \A i \in 0 .. RunOf[file.context].repetitions - 1 : \E s \in samples : s.index = i
    BY <1>5, <1>12
<1>16. \A s, t \in samples : s.counters = t.counters /\ (s.index = t.index => s = t)
    <2> HIDE DEF P, rows
    <2> QED BY <1>3
<1> HIDE DEF samples, P, rows, N, R
<1>17. WholeCase(file.context, c, samples)
    BY <1>14, <1>15, <1>16 DEF WholeCase
<1>18. Loaded.cases[c] = samples
    BY <1>13 DEF samples
<1> QED BY <1>17, <1>18

\* Of a file nobody edited, load_run returns every case of the one run.
LEMMA UneditedIsOneRun ==
    ASSUME FileInv, LoadRun, ~file.edited
    PROVE  /\ Grouped = Range(Cases)
           /\ \A c \in Range(Cases) : Loaded.cases[c] = AllSamples(file.context, c)
<1> DEFINE rows == file.rows  r == file.context
<1>1. /\ file.exists /\ Finished = Range(Cases) /\ r \in Runs
      /\ \A j \in DOMAIN rows :
           /\ rows[j].case \in Range(Cases)
           /\ rows[j].kind = "iteration" => HasSamples(r) /\ rows[j] \in AllSamples(r, rows[j].case)
      /\ \A c \in Finished : HasSamples(r) => AllSamples(r, c) \subseteq Range(rows)
    BY DEF FileInv, OneRun, Written, LoadRun
<1>2. HasSamples(r)
    <2>1. PICK j \in DOMAIN rows : rows[j].kind = "iteration"
        BY DEF LoadRun, Grouped
    <2> QED BY <1>1, <2>1
<1>3. \A c \in Range(Cases) : \A s \in AllSamples(r, c) :
        \E j \in RawRows(c) : rows[j] = s
    <2> SUFFICES ASSUME NEW c \in Range(Cases), NEW s \in AllSamples(r, c)
                 PROVE  \E j \in RawRows(c) : rows[j] = s
        OBVIOUS
    <2>1. PICK j \in DOMAIN rows : rows[j] = s
        BY <1>1, <1>2 DEF Range
    <2>2. s.kind = "iteration" /\ s.case = c
        BY DEF AllSamples, Sample
    <2> QED BY <2>1, <2>2 DEF RawRows
<1>4. \A c \in Range(Cases) : AllSamples(r, c) # {}
    <2> SUFFICES ASSUME NEW c \in Range(Cases) PROVE Sample(r, c, 0) \in AllSamples(r, c)
        OBVIOUS
    <2>1. 0 \in 0 .. RunOf[r].repetitions - 1
        BY <1>1, ResultsAssumption
    <2> QED BY <2>1 DEF AllSamples
<1>5. Grouped = Range(Cases)
    <2>1. Grouped \subseteq Range(Cases)
        BY <1>1 DEF Grouped
    <2>2. ASSUME NEW c \in Range(Cases) PROVE c \in Grouped
        <3>1. PICK j \in RawRows(c) : TRUE
            BY <1>3, <1>4
        <3> QED BY <3>1 DEF RawRows, Grouped
    <2> QED BY <2>1, <2>2
<1>6. ASSUME NEW c \in Range(Cases)
      PROVE  Loaded.cases[c] = AllSamples(r, c)
    <2>1. Loaded.cases[c] = {rows[j] : j \in RawRows(c)}
        BY <1>5 DEF Loaded
    <2>2. \A j \in RawRows(c) : rows[j] \in AllSamples(r, c)
        BY <1>1 DEF RawRows
    <2> HIDE DEF rows, r
    <2> QED BY <1>3, <2>1, <2>2
<1> QED BY <1>5, <1>6

LEMMA AcceptedAreComplete ==
    ASSUME FileInv, LoadRun
    PROVE  Complete(Loaded)
<1>1. /\ Loaded.context = file.context /\ Loaded.edited = file.edited
      /\ DOMAIN Loaded.cases = Grouped
    BY DEF Loaded
<1>2. \A c \in DOMAIN Loaded.cases : WholeCase(Loaded.context, c, Loaded.cases[c])
    BY <1>1, AcceptedAreWhole DEF FileInv
<1> QED BY <1>1, <1>2, UneditedIsOneRun DEF Complete

\* The file keeps measured rows, whoever writes it.
LEMMA MeasuredPreserved ==
    ASSUME Written, ResultsStep
    PROVE  Written'
<1>1. CASE OpenResults
    BY <1>1 DEF OpenResults, Written
<1>2. CASE WriteCase
    <2>1. writing \in Runs
        BY <1>2 DEF WriteCase, Written
    <2>2. PICK c \in Range(Cases) : file' = [file EXCEPT !.rows = file.rows \o RowsOf(writing, c)]
        BY <1>2 DEF WriteCase
    <2>3. RowsOf(writing, c) \in Seq(MeasuredRows)
        BY <2>1, RowsAreMeasured
    <2>4. file.rows \o RowsOf(writing, c) \in Seq(MeasuredRows)
        BY <2>3 DEF Written
    <2> QED BY <1>2, <2>2, <2>4 DEF WriteCase, Written
<1>3. CASE CloseResults
    BY <1>3 DEF CloseResults, Written
<1>4. CASE StopWriting
    BY <1>4 DEF StopWriting, Written
<1>5. CASE Edit
    <2> DEFINE Left(i, j) == SubSeq(file.rows, 1, i - 1) \o SubSeq(file.rows, j + 1, Len(file.rows))
    <2>1. CASE \E i, j \in DOMAIN file.rows :
                 i <= j /\ file' = [file EXCEPT !.rows = Left(i, j), !.edited = TRUE]
        <3>1. PICK i, j \in DOMAIN file.rows :
                 i <= j /\ file' = [file EXCEPT !.rows = Left(i, j), !.edited = TRUE]
            BY <2>1
        <3>2. Left(i, j) \in Seq(MeasuredRows)
            <4> DEFINE rows == file.rows
            <4>1. rows \in Seq(MeasuredRows) /\ Len(rows) \in Nat /\ i \in 1 .. Len(rows) /\ j \in 1 .. Len(rows)
                BY DEF Written
            <4>2. SubSeq(rows, 1, i - 1) \in Seq(MeasuredRows)
                BY <4>1
            <4>3. SubSeq(rows, j + 1, Len(rows)) \in Seq(MeasuredRows)
                BY <4>1
            <4> QED BY <4>2, <4>3
        <3> HIDE DEF Left
        <3> QED BY <1>5, <3>1, <3>2 DEF Edit, Written
    <2>2. CASE \E row \in Range(file.rows) \cup ForeignRows :
                 file' = [file EXCEPT !.rows = Append(file.rows, row), !.edited = TRUE]
        <3>1. PICK row \in Range(file.rows) \cup ForeignRows :
                 file' = [file EXCEPT !.rows = Append(file.rows, row), !.edited = TRUE]
            BY <2>2
        <3>2. Range(file.rows) \subseteq MeasuredRows
            BY DEF Written, Range
        <3>3. ForeignRows \subseteq MeasuredRows
            <4> SUFFICES ASSUME NEW r \in Runs, NEW c \in Range(Cases)
                         PROVE  Range(RowsOf(r, c)) \subseteq MeasuredRows
                BY DEF ForeignRows
            <4> QED BY RowsAreMeasured DEF Range
        <3>4. Append(file.rows, row) \in Seq(MeasuredRows)
            BY <3>1, <3>2, <3>3 DEF Written
        <3> QED BY <1>5, <3>1, <3>4 DEF Edit, Written
    <2> QED BY <1>5, <2>1, <2>2 DEF Edit
<1> QED BY <1>1, <1>2, <1>3, <1>4, <1>5 DEF ResultsStep

\* What stands in two sequences that are put together.
LEMMA ConcatRange ==
    ASSUME NEW S, NEW s \in Seq(S), NEW t \in Seq(S)
    PROVE  /\ \A j \in DOMAIN (s \o t) : \/ \E i \in DOMAIN s : (s \o t)[j] = s[i]
                                        \/ \E i \in DOMAIN t : (s \o t)[j] = t[i]
           /\ Range(s) \subseteq Range(s \o t) /\ Range(t) \subseteq Range(s \o t)
<1>1. /\ Len(s) \in Nat /\ Len(t) \in Nat
      /\ DOMAIN s = 1 .. Len(s) /\ DOMAIN t = 1 .. Len(t)
      /\ DOMAIN (s \o t) = 1 .. (Len(s) + Len(t))
    OBVIOUS
<1>2. \A i \in 1 .. Len(s) : (s \o t)[i] = s[i]
    OBVIOUS
<1>3. \A i \in 1 .. Len(t) : (s \o t)[Len(s) + i] = t[i]
    OBVIOUS
<1>4. ASSUME NEW j \in DOMAIN (s \o t), j \notin DOMAIN s
      PROVE  \E i \in DOMAIN t : (s \o t)[j] = t[i]
    <2>1. j - Len(s) \in 1 .. Len(t) /\ Len(s) + (j - Len(s)) = j
        BY <1>1, <1>4
    <2> QED BY <1>1, <1>3, <2>1
<1>5. Range(s) \subseteq Range(s \o t)
    <2>1. \A i \in DOMAIN s : i \in DOMAIN (s \o t) /\ (s \o t)[i] = s[i]
        BY <1>1, <1>2
    <2> QED BY <2>1 DEF Range
<1>6. Range(t) \subseteq Range(s \o t)
    <2>1. \A i \in DOMAIN t : Len(s) + i \in DOMAIN (s \o t) /\ (s \o t)[Len(s) + i] = t[i]
        BY <1>1, <1>3
    <2> QED BY <2>1 DEF Range
<1> QED BY <1>1, <1>2, <1>4, <1>5, <1>6

\* What the rows of a case are.
LEMMA RowsContents ==
    ASSUME NEW r \in Runs, NEW c \in Range(Cases)
    PROVE  /\ \A j \in DOMAIN RowsOf(r, c) :
                /\ RowsOf(r, c)[j].case = c
                /\ RowsOf(r, c)[j].kind = "iteration" =>
                     HasSamples(r) /\ RowsOf(r, c)[j] \in AllSamples(r, c)
           /\ HasSamples(r) => AllSamples(r, c) \subseteq Range(RowsOf(r, c))
<1> DEFINE n == RunOf[r].repetitions
           samples == [i \in 1 .. n |-> Sample(r, c, i - 1)]
           first == IF HasSamples(r) THEN samples ELSE << >>
           second == IF n > 1 THEN <<Aggregate(r, c)>> ELSE << >>
<1>1. n \in Nat \ {0}
    BY ResultsAssumption
<1>2. RowsOf(r, c) = first \o second
    BY DEF RowsOf, HasSamples
<1>3. \A i \in 1 .. n : /\ samples[i].case = c /\ samples[i] \in AllSamples(r, c)
                         /\ samples[i] = Sample(r, c, i - 1)
    <2> SUFFICES ASSUME NEW i \in 1 .. n
                 PROVE  Sample(r, c, i - 1).case = c /\ Sample(r, c, i - 1) \in AllSamples(r, c)
        OBVIOUS
    <2>1. i - 1 \in 0 .. n - 1
        BY <1>1
    <2>2. Sample(r, c, i - 1).case = c
        BY DEF Sample
    <2> QED BY <2>1, <2>2 DEF AllSamples
<1>4. Aggregate(r, c).case = c /\ Aggregate(r, c).kind = "aggregate"
    BY DEF Aggregate, Sample
<1>5. \A j \in DOMAIN first : /\ first[j].case = c
                              /\ HasSamples(r) /\ first[j] \in AllSamples(r, c)
    <2> HIDE DEF samples
    <2>1. DOMAIN samples = 1 .. n
        BY DEF samples
    <2> QED BY <1>3, <2>1
<1>6. \A j \in DOMAIN second : second[j].case = c /\ second[j].kind = "aggregate"
    <2>1. \A x : \A i \in DOMAIN <<x>> : <<x>>[i] = x
        OBVIOUS
    <2> QED BY <1>4, <2>1
<1>7. HasSamples(r) => AllSamples(r, c) \subseteq Range(first)
    <2> SUFFICES ASSUME HasSamples(r), NEW i \in 0 .. n - 1
                 PROVE  Sample(r, c, i) \in Range(first)
        BY DEF AllSamples
    <2>1. i + 1 \in 1 .. n /\ (i + 1) - 1 = i
        BY <1>1
    <2>2. samples[i + 1] = Sample(r, c, i) /\ i + 1 \in DOMAIN samples
        BY <1>3, <2>1
    <2> QED BY <2>2 DEF Range
<1>8. \E S : first \in Seq(S) /\ second \in Seq(S)
    <2> DEFINE S == {Sample(r, c, i) : i \in 0 .. n - 1} \cup {Aggregate(r, c)}
    <2>1. \A i \in 1 .. n : Sample(r, c, i - 1) \in S
        BY <1>1
    <2>2. samples \in Seq(S)
        <3> HIDE DEF S
        <3> QED BY <1>1, <2>1
    <2>3. <<Aggregate(r, c)>> \in Seq(S) /\ << >> \in Seq(S)
        OBVIOUS
    <2> HIDE DEF S, samples
    <2> QED BY <2>2, <2>3
<1>9. PICK S : first \in Seq(S) /\ second \in Seq(S)
    BY <1>8
<1> HIDE DEF first, second
<1>10. /\ \A j \in DOMAIN (first \o second) :
            \/ \E i \in DOMAIN first : (first \o second)[j] = first[i]
            \/ \E i \in DOMAIN second : (first \o second)[j] = second[i]
       /\ Range(first) \subseteq Range(first \o second)
    BY <1>9, ConcatRange
<1> QED BY <1>2, <1>5, <1>6, <1>7, <1>10

\* The benchmark keeps what it has written, and an edit shows.
LEMMA OneRunPreserved ==
    ASSUME FileInv, ResultsStep
    PROVE  OneRun' /\ WritingOwn'
<1> USE DEF FileInv
<1>1. CASE OpenResults
    <2>1. PICK r \in pending :
            /\ file' = [exists |-> TRUE, whole |-> FALSE, edited |-> FALSE, context |-> r, rows |-> << >>]
            /\ writing' = r
        BY <1>1 DEF OpenResults
    <2>2. file'.rows = << >> /\ ~file'.whole
        BY <2>1
    <2>3. DOMAIN file'.rows = {}
        BY <2>2
    <2>4. OneRun'
        BY <2>2, <2>3 DEF OneRun, Finished
    <2> QED BY <2>1, <2>4 DEF WritingOwn
<1>2. CASE WriteCase
    <2> DEFINE r == writing
    <2>1. /\ r \in Runs /\ file.exists /\ ~file.edited /\ file.context = r
        BY <1>2 DEF WriteCase, Written, WritingOwn
    <2>2. PICK c \in Range(Cases) \ Finished : file' = [file EXCEPT !.rows = file.rows \o RowsOf(r, c)]
        BY <1>2 DEF WriteCase
    <2> DEFINE old == file.rows  more == RowsOf(r, c)  new == old \o more
    <2>3. /\ file'.rows = new /\ file'.exists /\ ~file'.edited /\ file'.context = r
          /\ file'.whole = file.whole /\ writing' = writing
        BY <1>2, <2>1, <2>2 DEF WriteCase, Written
    <2>4. old \in Seq(MeasuredRows) /\ more \in Seq(MeasuredRows)
        BY <2>1, <2>2, RowsAreMeasured DEF Written
    <2>5. /\ \A j \in DOMAIN more :
               /\ more[j].case = c
               /\ more[j].kind = "iteration" => HasSamples(r) /\ more[j] \in AllSamples(r, c)
          /\ HasSamples(r) => AllSamples(r, c) \subseteq Range(more)
        BY <2>1, <2>2, RowsContents
    <2>6. /\ \A j \in DOMAIN old :
               /\ old[j].case \in Range(Cases)
               /\ old[j].kind = "iteration" => HasSamples(r) /\ old[j] \in AllSamples(r, old[j].case)
          /\ \A d \in Finished : HasSamples(r) => AllSamples(r, d) \subseteq Range(old)
          /\ ~file.whole
        BY <2>1, <2>2 DEF OneRun
    <2> HIDE DEF r, old, more, new
    <2>7. /\ \A j \in DOMAIN new : \/ \E i \in DOMAIN old : new[j] = old[i]
                                  \/ \E i \in DOMAIN more : new[j] = more[i]
          /\ Range(old) \subseteq Range(new) /\ Range(more) \subseteq Range(new)
        BY <2>4, ConcatRange DEF new
    <2>8. Finished' \subseteq Finished \cup {c}
        BY <2>3, <2>5, <2>7 DEF Finished, old
    <2>9. \A j \in DOMAIN new :
            /\ new[j].case \in Range(Cases)
            /\ new[j].kind = "iteration" => HasSamples(r) /\ new[j] \in AllSamples(r, new[j].case)
        BY <2>2, <2>5, <2>6, <2>7
    <2>10. \A d \in Finished' : HasSamples(r) => AllSamples(r, d) \subseteq Range(new)
        BY <2>5, <2>6, <2>7, <2>8
    <2>11. OneRun'
        BY <2>3, <2>6, <2>9, <2>10 DEF OneRun
    <2>12. WritingOwn'
        BY <2>3 DEF WritingOwn, r
    <2> QED BY <2>11, <2>12
<1>3. CASE CloseResults
    <2>1. /\ file'.exists = file.exists /\ file'.edited = file.edited /\ file'.context = file.context
          /\ file'.rows = file.rows /\ Finished = Range(Cases) /\ writing' = NoRun
        BY <1>3 DEF CloseResults, Written
    <2>2. Finished' = Finished
        BY <2>1 DEF Finished
    <2>3. OneRun'
        BY <2>1, <2>2 DEF OneRun
    <2> QED BY <2>1, <2>3 DEF WritingOwn
<1>4. CASE StopWriting
    <2>1. file' = file /\ writing' = NoRun
        BY <1>4 DEF StopWriting
    <2> QED BY <2>1 DEF OneRun, WritingOwn, Finished
<1>5. CASE Edit
    <2>1. \A rows : file' = [file EXCEPT !.rows = rows, !.edited = TRUE] => file'.edited
        BY DEF Written
    <2>2. file'.edited /\ writing' = NoRun
        BY <1>5, <2>1 DEF Edit
    <2> QED BY <2>2 DEF OneRun, WritingOwn
<1> QED BY <1>1, <1>2, <1>3, <1>4, <1>5 DEF ResultsStep

LEMMA ResultsPreserve ==
    ASSUME FileInv, ResultsStep
    PROVE  FileInv'
BY MeasuredPreserved, OneRunPreserved DEF FileInv

\* One output is done.
NextOutput(p) ==
    process'[p].output = process[p].output + 1 /\ process[p].output < Len(Outputs(p))

\* A process reads one report, publishes what it read, and goes on to the next output.
LEMMA ReportsMove ==
    ASSUME Typed, NEW p \in Processes, Run(p)
    PROVE  /\ Typed' /\ job' = job
           /\ \A q \in Processes \ {p} : process'[q] = process[q]
           /\ process'[p].output # process[p].output => NextOutput(p)
           /\ \/ process'[p].report = process[p].report
              \/ process'[p].report = NoReport
              \/ LoadRun /\ process'[p].report = Loaded
           /\ disk' = disk \/ disk' = [disk EXCEPT ![Path(p)] = Published(p)]
<1> DEFINE r == process[p]
           New(t) == /\ process' = [process EXCEPT ![p] = t] /\ IsProcess(t)
                     /\ t.output = r.output
                          \/ (t.output = r.output + 1 /\ r.output < Len(Outputs(p)))
                     /\ \/ t.report = r.report
                        \/ t.report = NoReport
                        \/ LoadRun /\ t.report = Loaded
           Puts == \/ disk' = disk
                   \/ disk' = [disk EXCEPT ![Path(p)] = Published(p)]
<1>1. /\ disk = [path \in Paths |-> disk[path]] /\ process = [q \in Processes |-> process[q]]
      /\ IsProcess(r)
    BY DEF Typed
<1>2. ASSUME NEW t, New(t), Puts, job' = job
      PROVE  /\ Typed' /\ job' = job
             /\ \A q \in Processes \ {p} : process'[q] = process[q]
             /\ process'[p].output # process[p].output => NextOutput(p)
             /\ \/ process'[p].report = process[p].report
                \/ process'[p].report = NoReport
                \/ LoadRun /\ process'[p].report = Loaded
             /\ disk' = disk \/ disk' = [disk EXCEPT ![Path(p)] = Published(p)]
    <2>1. process'[p] = t /\ \A q \in Processes \ {p} : process'[q] = process[q]
        BY <1>1, <1>2
    <2>3. process'[p].output # r.output => NextOutput(p)
        BY <1>2, <2>1 DEF NextOutput
    <2>4. /\ disk' = [path \in Paths |-> disk'[path]] /\ process' = [q \in Processes |-> process'[q]]
          /\ \A q \in Processes : IsProcess(process'[q])
        BY <1>1, <1>2, <2>1 DEF Typed
    <2> QED BY <1>2, <2>1, <2>3, <2>4 DEF Typed
<1>3. \A place : /\ IsProcess([r EXCEPT !.at = place]) /\ [r EXCEPT !.at = place].report = r.report
                  /\ [r EXCEPT !.at = place].output = r.output
    BY <1>1, FieldAt
<1>4. ASSUME NEW place, Goto(p, place)
      PROVE  New([r EXCEPT !.at = place])
    BY <1>3, <1>4 DEF Goto
<1>5. CASE CheckOutputs(p) \/ Kill(p)
    BY <1>2, <1>4, <1>5 DEF CheckOutputs, Kill
<1>6. CASE Load(p)
    <2>1. CASE /\ job[p].tool = "report" => LoadRun
               /\ process' = [process EXCEPT ![p].at = "create",
                                ![p].report = IF job[p].tool = "report" THEN Loaded ELSE NoReport]
        <3> DEFINE x == IF job[p].tool = "report" THEN Loaded ELSE NoReport
                   t == [at |-> "create", output |-> r.output, temporary |-> r.temporary, report |-> x]
        <3>1. process' = [process EXCEPT ![p] = t]
            <4> HIDE DEF x
            <4>1. [[r EXCEPT !.at = "create"] EXCEPT !.report = x] = t
                <5> DEFINE c == [r EXCEPT !.at = "create"]
                <5>1. c.at = "create" /\ c.output = r.output /\ c.temporary = r.temporary /\ IsProcess(c)
                    BY <1>1, FieldAt
                <5> HIDE DEF c
                <5>2. [c EXCEPT !.report = x] = t
                    BY <5>1 DEF IsProcess
                <5> QED BY <5>2 DEF c
            <4>2. process' = [process EXCEPT ![p] = [[r EXCEPT !.at = "create"] EXCEPT !.report = x]]
                BY <1>1, <2>1 DEF x
            <4> QED BY <4>1, <4>2
        <3>2. IsProcess(t) /\ t.report = x /\ t.output = r.output
            BY DEF IsProcess
        <3>3. New(t)
            BY <2>1, <3>1, <3>2
        <3> HIDE DEF t
        <3> QED BY <1>2, <1>6, <3>3 DEF Load
    <2>2. CASE Goto(p, "failed")
        BY <1>2, <1>4, <1>6, <2>2 DEF Load
    <2> QED BY <1>6, <2>1, <2>2 DEF Load
<1>7. CASE CreateTemporary(p) \/ WriteTemporary(p) \/ Publish(p)
    <2>1. ASSUME NEW place, NEW temporary,
                 process' = [process EXCEPT ![p].at = place, ![p].temporary = temporary]
          PROVE  \E t : New(t)
        <3> DEFINE c == [r EXCEPT !.at = place]
                   t == [c EXCEPT !.temporary = temporary]
        <3>1. process' = [process EXCEPT ![p] = t]
            BY <1>1, <2>1
        <3>2. IsProcess(c) /\ c.report = r.report /\ c.output = r.output
            BY <1>3
        <3>3. IsProcess(t) /\ t.report = r.report /\ t.output = r.output
            <4> HIDE DEF c
            <4> QED BY <3>2, FieldTemporary
        <3> HIDE DEF t
        <3> QED BY <3>1, <3>3
    <2>2. \E t : New(t)
        BY <1>4, <1>7, <2>1 DEF CreateTemporary, WriteTemporary, Publish
    <2>3. Puts /\ job' = job
        BY <1>7 DEF CreateTemporary, WriteTemporary, Publish
    <2> HIDE DEF New, Puts
    <2> QED BY <1>2, <2>2, <2>3
<1>9. CASE UNCHANGED <<disk, job>> /\ Goto(p, "left")
    BY <1>2, <1>4, <1>9
<1>8. CASE Unlink(p) /\ ~Goto(p, "left")
    <2> DEFINE s == [r EXCEPT !.temporary = Nothing]
               cleaned == [process EXCEPT ![p].temporary = Nothing]
               o == s.output + 1
    <2>1. IsProcess(s) /\ s.report = r.report /\ s.output = r.output /\ o = r.output + 1
        BY <1>1, FieldTemporary
    <2>2. \A place : /\ IsProcess([s EXCEPT !.at = place]) /\ [s EXCEPT !.at = place].report = r.report
                     /\ [s EXCEPT !.at = place].output = r.output
                     /\ IsProcess([[s EXCEPT !.at = place] EXCEPT !.output = o])
                     /\ [[s EXCEPT !.at = place] EXCEPT !.output = o].report = r.report
                     /\ [[s EXCEPT !.at = place] EXCEPT !.output = o].output = o
        <3> HIDE DEF s, o
        <3> SUFFICES ASSUME NEW place
                     PROVE  /\ IsProcess([s EXCEPT !.at = place]) /\ [s EXCEPT !.at = place].report = r.report
                            /\ [s EXCEPT !.at = place].output = r.output
                            /\ IsProcess([[s EXCEPT !.at = place] EXCEPT !.output = o])
                            /\ [[s EXCEPT !.at = place] EXCEPT !.output = o].report = r.report
                            /\ [[s EXCEPT !.at = place] EXCEPT !.output = o].output = o
            OBVIOUS
        <3> DEFINE c == [s EXCEPT !.at = place]
        <3>1. IsProcess(c) /\ c.report = r.report /\ c.output = r.output
            BY <2>1, FieldAt
        <3>2. /\ IsProcess([c EXCEPT !.output = o]) /\ [c EXCEPT !.output = o].report = r.report
              /\ [c EXCEPT !.output = o].output = o
            <4> HIDE DEF c
            <4> QED BY <3>1, FieldOutput
        <3> QED BY <3>1, <3>2
    <2>3. cleaned = [process EXCEPT ![p] = s] /\ cleaned[p] = s
        BY <1>1
    <2>4. \E place :
            \/ process' = [process EXCEPT ![p] = [s EXCEPT !.at = place]]
            \/ /\ process' = [process EXCEPT ![p] = [[s EXCEPT !.at = place] EXCEPT !.output = o]]
               /\ r.output < Len(Outputs(p))
        <3>1. \A place : /\ [cleaned EXCEPT ![p].at = place] = [process EXCEPT ![p] = [s EXCEPT !.at = place]]
                         /\ [cleaned EXCEPT ![p].at = place, ![p].output = @ + 1]
                              = [process EXCEPT ![p] = [[s EXCEPT !.at = place] EXCEPT !.output = o]]
            BY <1>1, <2>1, <2>3 DEF IsProcess
        <3>2. \/ \E place : process' = [cleaned EXCEPT ![p].at = place]
              \/ r.output < Len(Outputs(p)) /\ \E place :
                   process' = [cleaned EXCEPT ![p].at = place, ![p].output = @ + 1]
            <4>1. CASE r.at = "abandon"
                BY <1>8, <4>1 DEF Unlink
            <4>2. CASE r.at # "abandon" /\ r.output < Len(Outputs(p))
                BY <1>8, <4>2 DEF Unlink
            <4>3. CASE r.at # "abandon" /\ ~(r.output < Len(Outputs(p)))
                BY <1>8, <4>3 DEF Unlink
            <4> QED BY <4>1, <4>2, <4>3
        <3>3. CASE \E place : process' = [cleaned EXCEPT ![p].at = place]
            <4>1. PICK place : process' = [cleaned EXCEPT ![p].at = place]
                BY <3>3
            <4>2. process' = [process EXCEPT ![p] = [s EXCEPT !.at = place]]
                BY <3>1, <4>1
            <4> QED BY <4>2
        <3>4. CASE r.output < Len(Outputs(p)) /\ \E place :
                   process' = [cleaned EXCEPT ![p].at = place, ![p].output = @ + 1]
            <4>1. PICK place : process' = [cleaned EXCEPT ![p].at = place, ![p].output = @ + 1]
                BY <3>4
            <4>2. process' = [process EXCEPT ![p] = [[s EXCEPT !.at = place] EXCEPT !.output = o]]
                BY <3>1, <4>1
            <4> QED BY <3>4, <4>2
        <3> QED BY <3>2, <3>3, <3>4
    <2>5. disk' = disk /\ job' = job
        BY <1>8 DEF Unlink
    <2>6. \E t : New(t)
        <3> HIDE DEF s, o
        <3>1. CASE \E place : process' = [process EXCEPT ![p] = [s EXCEPT !.at = place]]
            <4>1. PICK place : process' = [process EXCEPT ![p] = [s EXCEPT !.at = place]]
                BY <3>1
            <4> DEFINE t == [s EXCEPT !.at = place]
            <4>2. IsProcess(t) /\ t.report = r.report /\ t.output = r.output
                BY <2>2
            <4>3. process' = [process EXCEPT ![p] = t]
                BY <4>1
            <4> HIDE DEF t
            <4> QED BY <4>2, <4>3
        <3>2. CASE \E place : /\ process' = [process EXCEPT ![p] = [[s EXCEPT !.at = place] EXCEPT !.output = o]]
                              /\ r.output < Len(Outputs(p))
            <4>1. PICK place : process' = [process EXCEPT ![p] = [[s EXCEPT !.at = place] EXCEPT !.output = o]]
                BY <3>2
            <4> DEFINE t == [[s EXCEPT !.at = place] EXCEPT !.output = o]
            <4>2. IsProcess(t) /\ t.report = r.report /\ t.output = r.output + 1
                BY <2>1, <2>2
            <4>3. r.output < Len(Outputs(p)) /\ process' = [process EXCEPT ![p] = t]
                BY <3>2, <4>1
            <4> HIDE DEF t
            <4> QED BY <4>2, <4>3
        <3> QED BY <2>4, <3>1, <3>2
    <2> HIDE DEF New
    <2> QED BY <1>2, <2>5, <2>6
<1> QED BY <1>5, <1>6, <1>7, <1>8, <1>9 DEF Run, Unlink

LEMMA CompleteInvariant == Spec => []CInv
<1> USE DEF CompleteReports
<1>1. Init => CInv
    <2> SUFFICES ASSUME Init PROVE CInv
        OBVIOUS
    <2>1. Typed
        BY InitInvariant DEF IInv
    <2>2. FileInv
        BY DEF Init, ResultsInit, NoFile, FileInv, Written, OneRun, WritingOwn
    <2>3. \A p \in Processes : process[p].report = NoReport
        BY DEF Init, Idle
    <2>4. Complete(NoReport)
        BY DEF Complete, NoReport
    <2>5. \A path \in Paths : Complete(disk[path].report)
        BY PublicationAssumption DEF Init
    <2> QED BY <2>1, <2>2, <2>3, <2>4, <2>5 DEF CInv
<1>2. CInv /\ [Next]_vars => CInv'
    <2> SUFFICES ASSUME CInv, [Next]_vars PROVE CInv'
        OBVIOUS
    <2>1. CASE ResultsStep /\ UNCHANGED publication
        <3>1. FileInv'
            BY <2>1, ResultsPreserve DEF CInv
        <3>2. Typed' /\ CompleteReports'
            BY <2>1 DEF CInv, Typed, publication, Complete
        <3> QED BY <3>1, <3>2 DEF CInv
    <2>2. ASSUME NEW p \in Processes, Run(p), UNCHANGED results PROVE CInv'
        <3>1. FileInv'
            BY <2>2 DEF CInv, FileInv, Written, OneRun, WritingOwn, Finished, results
        <3>2. LoadRun => Complete(Loaded)
            BY AcceptedAreComplete DEF CInv
        <3>3. Complete(NoReport)
            BY DEF Complete, NoReport
        <3>4. /\ Typed'
              /\ \A q \in Processes \ {p} : process'[q] = process[q]
              /\ \/ process'[p].report = process[p].report
                 \/ process'[p].report = NoReport
                 \/ LoadRun /\ process'[p].report = Loaded
              /\ disk' = disk \/ disk' = [disk EXCEPT ![Path(p)] = Published(p)]
            BY <2>2, ReportsMove DEF CInv
        <3>5. \A q \in Processes : Complete(process'[q].report)
            BY <3>2, <3>3, <3>4 DEF CInv
        <3>6. \A path \in Paths : Complete(disk'[path].report)
            <4>1. Published(p).report = process[p].report
                BY DEF Published
            <4>2. \A path \in Paths : disk'[path] = disk[path] \/ disk'[path].report = process[p].report
                BY <3>4, <4>1 DEF CInv, Typed
            <4> QED BY <4>2 DEF CInv
        <3>7. CompleteReports'
            BY <3>5, <3>6 DEF Complete
        <3> QED BY <3>1, <3>4, <3>7 DEF CInv
    <2>3. CASE UNCHANGED vars
        BY <2>3 DEF vars, publication, results, CInv, Typed, FileInv, Written, OneRun, WritingOwn,
                    Finished, Complete
    <2> QED BY <2>1, <2>2, <2>3 DEF Next
<1> QED BY <1>1, <1>2, PTL DEF Spec, vars

\* A published report has one sample of each repetition of every case shown, measured
\* in the context's mode and count, none failed, however the file was cut off, rewritten,
\* edited or merged; and if nobody edited it, every case with the samples of one run
\* (load_run).
THEOREM CompleteRuns == Spec => []ReportsShowCompleteRuns
<1>1. CInv => ReportsShowCompleteRuns
    BY DEF CInv, CompleteReports, ReportsShowCompleteRuns
<1> QED BY <1>1, CompleteInvariant, PTL

-----------------------------------------------------------------------------
(* Existing outputs.  A process that has looked at its outputs found        *)
(* neither an input nor a symbolic link there, and nobody puts one there.   *)

Looked(p) ==
    /\ process[p].output \in 1 .. Len(Outputs(p))
    /\ Active(p) => \A i \in DOMAIN Outputs(p) : disk[Outputs(p)[i]] \notin {Symlink, Input}

Aimed == Typed /\ \A p \in Processes : Looked(p)

LEMMA PublishedIsOwn ==
    ASSUME NEW p \in Processes
    PROVE  Published(p).by = p /\ Published(p) \notin {Symlink, Input}
<1>1. Published(p).by = p
    BY DEF Published
<1>2. Symlink.by = "symlink" /\ Input.by = "input"
    BY DEF Symlink, Input
<1> QED BY <1>1, <1>2, PublicationAssumption

\* Only CheckOutputs activates a process, and it refuses inputs and links.
LEMMA Activates ==
    ASSUME Typed, NEW p \in Processes, Run(p), Active(p)', ~Active(p)
    PROVE  \A i \in DOMAIN Outputs(p) : disk[Outputs(p)[i]] \notin {Symlink, Input}
<1>1. CheckOutputs(p)
    BY DEF Run, Active, Load, CreateTemporary, WriteTemporary, Publish, Unlink, Kill
<1>2. ~ \E path \in Range(Outputs(p)) : Refused(p, path)
    <2> SUFFICES ASSUME Goto(p, "failed") PROVE FALSE
        BY <1>1 DEF CheckOutputs
    <2>1. process'[p].at = "failed"
        BY DEF Goto, Typed, IsProcess
    <2> QED BY <2>1 DEF Active
<1> QED BY <1>2 DEF Refused, Range

LEMMA AimedPreserved == Aimed /\ [Next]_vars => Aimed'
<1> SUFFICES ASSUME Aimed, [Next]_vars PROVE Aimed'
    OBVIOUS
<1>1. CASE UNCHANGED publication
    BY <1>1 DEF publication, Aimed, Typed, Looked, Active, Outputs
<1>2. ASSUME NEW p \in Processes, Run(p) PROVE Aimed'
    <2>1. /\ Typed' /\ job' = job
          /\ \A q \in Processes \ {p} : process'[q] = process[q]
          /\ process'[p].output # process[p].output => NextOutput(p)
          /\ disk' = disk \/ disk' = [disk EXCEPT ![Path(p)] = Published(p)]
        BY <1>2, ReportsMove DEF Aimed
    <2>2. \A path \in Paths : disk[path] \notin {Symlink, Input} => disk'[path] \notin {Symlink, Input}
        BY <2>1, PublishedIsOwn DEF Aimed, Typed
    <2>3. ASSUME NEW q \in Processes PROVE Looked(q)'
        <3>1. /\ Outputs(q)' = Outputs(q) /\ Len(Outputs(q)) \in Nat
              /\ \A i \in DOMAIN Outputs(q) : Outputs(q)[i] \in Paths
            BY <2>1, JobOf DEF Outputs, Aimed
        <3>2. process'[q].output \in 1 .. Len(Outputs(q))
            <4>1. CASE process'[q].output = process[q].output
                BY <4>1 DEF Aimed, Looked
            <4>2. CASE process'[q].output # process[q].output
                <5>1. q = p /\ NextOutput(q)
                    BY <2>1, <4>2
                <5> QED BY <3>1, <5>1 DEF Aimed, Looked, NextOutput
            <4> QED BY <4>1, <4>2
        <3>3. ASSUME Active(q)'
              PROVE  \A i \in DOMAIN Outputs(q) : disk[Outputs(q)[i]] \notin {Symlink, Input}
            <4>1. CASE Active(q)
                BY <4>1 DEF Aimed, Looked
            <4>2. CASE ~Active(q)
                <5>1. q = p
                    BY <2>1, <3>3, <4>2 DEF Active
                <5> QED BY <1>2, <3>3, <4>2, <5>1, Activates DEF Aimed
            <4> QED BY <4>1, <4>2
        <3> QED BY <2>2, <3>1, <3>2, <3>3 DEF Looked
    <2> QED BY <2>1, <2>3 DEF Aimed
<1> QED BY <1>1, <1>2 DEF Next, vars

\* What stands at an output path stays unless a forced report replaces it, whatever
\* the processes do between looking and publishing, and an input or a symbolic link
\* stays even then (os.link, os.replace and the checks of main).
THEOREM OutputsKept == Spec => ExistingOutputKept
<1> DEFINE Keeps ==
             \A path \in Paths :
               disk[path] # Absent /\ disk'[path] # disk[path] =>
                 /\ disk[path] \notin {Symlink, Input}
                 /\ \E p \in Processes : job[p].force /\ disk'[path].by = p
<1>1. Init => Aimed
    <2> SUFFICES ASSUME Init PROVE Aimed
        OBVIOUS
    <2>1. Typed
        BY InitInvariant DEF IInv
    <2>2. \A p \in Processes : Looked(p)
        BY <2>1, JobOf DEF Init, Idle, Looked, Active
    <2> QED BY <2>1, <2>2 DEF Aimed
<1>2. ASSUME Aimed, [Next]_vars
      PROVE  [Keeps]_disk
    <2> SUFFICES ASSUME disk' # disk PROVE Keeps
        OBVIOUS
    <2>1. PICK p \in Processes : Publish(p)
        BY <1>2 DEF Next, vars, publication, Run, CheckOutputs, Load, CreateTemporary,
                    WriteTemporary, Unlink, Kill
    <2>2. /\ disk' = [disk EXCEPT ![Path(p)] = Published(p)]
          /\ job[p].force \/ disk[Path(p)] = Absent
        BY <2>1 DEF Publish
    <2>3. ASSUME NEW path \in Paths, disk[path] # Absent, disk'[path] # disk[path]
          PROVE  disk[path] \notin {Symlink, Input} /\ job[p].force /\ disk'[path].by = p
        <3>1. disk = [q \in Paths |-> disk[q]]
            BY <1>2 DEF Aimed, Typed
        <3>2. path = Path(p) /\ disk'[path] = Published(p)
            BY <2>2, <2>3, <3>1
        <3>3. job[p].force /\ disk'[path].by = p
            BY <2>2, <2>3, <3>2, PublishedIsOwn
        <3>4. Active(p)
            BY <2>1 DEF Publish, Active
        <3>5. process[p].output \in DOMAIN Outputs(p)
            BY <1>2, JobOf DEF Aimed, Looked
        <3>6. disk[path] \notin {Symlink, Input}
            BY <1>2, <3>2, <3>4, <3>5 DEF Aimed, Looked, Path
        <3> QED BY <3>3, <3>6
    <2> QED BY <2>3
<1> QED BY <1>1, <1>2, AimedPreserved, PTL DEF Spec, ExistingOutputKept, vars

=============================================================================
