---------------------------- MODULE BundleStore ----------------------------
(***************************************************************************)
(* One fixture directory shared by captures that publish into it           *)
(* (write_bundle in capture.py), a runner that loads it                    *)
(* (load_fixture_suite in fixture.cpp) and a person who edits its files.   *)
(*                                                                         *)
(* A directory is an identity; `output' says which one the path names now. *)
(* A capture fills a directory of its own under a temporary name and       *)
(* renames it; with --force it first removes what the path names.  The     *)
(* loader opens every file anew through the path, so it may see files of   *)
(* several directories.  A payload is a value: its hash names it.          *)
(***************************************************************************)
EXTENDS Naturals, FiniteSets, Sequences

CONSTANTS
    Captures,     \* runs of the capture tool
    Original,     \* the directory that may be there before them
    Payload,      \* [Bundles -> [Payloads -> values]]: the payloads of a bundle
    BlockOf,      \* [manifests -> blocks]: chain, number and hash in a manifest
    Commit,       \* [Bundles -> commits]: the Monad commit it names
    RunnerCommit, \* the commit the runner was built from
    Edited,       \* payloads nobody captured
    Malformed,    \* those among them that do not parse
    MaxLoads, MaxEdits   \* bounds: loads and edits in a behaviour

Payloads == {"manifest.json", "state.json.zst", "cases.json"}
Files == Payloads \cup {"provenance.json"}
Bundles == Captures \cup {Original}

WriteOrder == <<"manifest.json", "cases.json", "state.json.zst", "provenance.json">>
ReadOrder == <<"manifest.json", "state.json.zst", "cases.json", "provenance.json">>

Nowhere == "nowhere"      \* the path does not exist
PlainFile == "plain file" \* the path names a file, not a directory

ASSUME StoreAssumption ==
    /\ Original \notin Captures
    /\ {Nowhere, PlainFile} \cap Bundles = {}
    /\ DOMAIN Payload = Bundles
    /\ \A b \in Bundles : DOMAIN Payload[b] = Payloads
    /\ MaxLoads \in Nat /\ MaxEdits \in Nat

VARIABLES
    force,    \* the captures started with --force
    output,   \* what the path names: a bundle's directory, or none
    files,    \* [Bundles -> a function from the files in it to contents]
    staged,   \* captures whose temporary name still exists
    pc,       \* where each capture is
    victim,   \* the directory a forced capture is emptying
    listing,  \* the names it has listed and not yet removed
    load,     \* the load in progress: [at, seen]
    loads, edits,
    witnessed \* history: bundles whole at the path since the load began

disk == <<output, files>>
removing == <<victim, listing>>
loading == <<load, loads>>
vars == <<force, disk, staged, pc, removing, loading, edits, witnessed>>

Empty == <<>>
With(f, n, v) == [k \in DOMAIN f \cup {n} |-> IF k = n THEN v ELSE f[k]]
Without(f, n) == [k \in DOMAIN f \ {n} |-> f[k]]

\* provenance.json binds the hashes of the payloads, the block and the commit.
Provenance(b) == [payload |-> Payload[b], source |-> BlockOf[Payload[b]["manifest.json"]],
                   commit |-> Commit[b]]
Content(b, n) == IF n = "provenance.json" THEN Provenance(b) ELSE Payload[b][n]
Whole(b) == [n \in Files |-> Content(b, n)]

Goto(w, loc) == pc' = [pc EXCEPT ![w] = loc]

(***************************************************************************)
(* write_bundle                                                            *)
(***************************************************************************)
\* An existing output is refused without --force.
Check(w) ==
    /\ pc[w] = "check"
    /\ Goto(w, IF output = Nowhere THEN "stage"
               ELSE IF w \in force THEN "open" ELSE "failed")
    /\ UNCHANGED <<disk, staged, removing, loading, edits>>

\* With it a file is unlinked, and a directory opened and listed.
Open(w) ==
    /\ pc[w] = "open"
    /\ \/ /\ output \in Bundles
          /\ victim' = [victim EXCEPT ![w] = output]
          /\ listing' = [listing EXCEPT ![w] = DOMAIN files[output]]
          /\ Goto(w, "remove")
          /\ UNCHANGED output
       \/ /\ output = PlainFile
          /\ output' = Nowhere
          /\ Goto(w, "stage")
          /\ UNCHANGED removing
       \/ /\ output = Nowhere
          /\ Goto(w, "failed")
          /\ UNCHANGED <<output, removing>>
    /\ UNCHANGED <<files, staged, loading, edits>>

\* shutil.rmtree removes the listed names from the open directory.  A name
\* that is gone is an error or, in later versions of the library, skipped.
Remove(w) ==
    /\ pc[w] = "remove" /\ listing[w] # {}
    /\ \E n \in listing[w] :
         /\ listing' = [listing EXCEPT ![w] = @ \ {n}]
         /\ files' = [files EXCEPT ![victim[w]] = Without(@, n)]
         /\ \/ UNCHANGED pc
            \/ n \notin DOMAIN files[victim[w]] /\ Goto(w, "failed")
    /\ UNCHANGED <<output, staged, victim, loading, edits>>

\* It then removes what the path names now, which must be empty.
RemoveDirectory(w) ==
    /\ pc[w] = "remove" /\ listing[w] = {}
    /\ IF output \in Bundles /\ files[output] = Empty
       THEN output' = Nowhere /\ Goto(w, "stage")
       ELSE UNCHANGED output /\ Goto(w, "failed")
    /\ UNCHANGED <<files, staged, removing, loading, edits>>

Stage(w) ==
    /\ pc[w] = "stage"
    /\ staged' = staged \cup {w}
    /\ Goto(w, "write")
    /\ UNCHANGED <<disk, removing, loading, edits>>

Unwritten(w) == {i \in DOMAIN WriteOrder : WriteOrder[i] \notin DOMAIN files[w]}

FaultyWrite(w) ==
    /\ pc[w] = "write"
    /\ \E i \in Unwritten(w) :
         /\ \A j \in Unwritten(w) : i <= j
         /\ files' = [files EXCEPT ![w] =
                        With(@, WriteOrder[i], Content(w, WriteOrder[i]))]
         /\ Goto(w, IF i = Len(WriteOrder) - 1 THEN "rename" ELSE "write")
    /\ UNCHANGED <<output, staged, removing, loading, edits>>

Write(w) ==
    /\ pc[w] = "write"
    /\ \E i \in Unwritten(w) :
         /\ \A j \in Unwritten(w) : i <= j
         /\ files' = [files EXCEPT ![w] =
                        With(@, WriteOrder[i], Content(w, WriteOrder[i]))]
         /\ Goto(w, IF i = Len(WriteOrder) THEN "rename" ELSE "write")
    /\ UNCHANGED <<output, staged, removing, loading, edits>>

\* Any exception while the files are written removes the temporary directory.
FaultyWriteFails(w) ==
    /\ pc[w] = "write"
    /\ Goto(w, "failed")
    /\ UNCHANGED <<disk, staged, removing, loading, edits>>

WriteFails(w) ==
    /\ pc[w] = "write"
    /\ Goto(w, "cleanup")
    /\ UNCHANGED <<disk, staged, removing, loading, edits>>

FaultyRename(w) ==
    /\ pc[w] = "rename"
    /\ output' = w /\ staged' = staged \ {w} /\ Goto(w, "done")
    /\ UNCHANGED <<files, removing, loading, edits>>

\* rename(2) replaces nothing or an empty directory, and fails otherwise.
Rename(w) ==
    /\ pc[w] = "rename"
    /\ IF output = Nowhere \/ (output \in Bundles /\ files[output] = Empty)
       THEN output' = w /\ staged' = staged \ {w} /\ Goto(w, "done")
       ELSE UNCHANGED <<output, staged>> /\ Goto(w, "cleanup")
    /\ UNCHANGED <<files, removing, loading, edits>>

\* rmtree(ignore_errors=True): what cannot be removed stays, and the directory
\* with it.
Cleanup(w) ==
    /\ pc[w] = "cleanup"
    /\ \E kept \in SUBSET DOMAIN files[w] :
         files' = [files EXCEPT ![w] = [n \in kept |-> @[n]]]
    /\ \/ files'[w] = Empty /\ staged' = staged \ {w} /\ Goto(w, "failed")
       \/ UNCHANGED staged /\ Goto(w, "uncleaned")
    /\ UNCHANGED <<output, removing, loading, edits>>

\* The process is killed: nothing is cleaned up.
Crash(w) ==
    /\ pc[w] \notin {"done", "failed", "uncleaned", "crashed"}
    /\ Goto(w, "crashed")
    /\ UNCHANGED <<disk, staged, removing, loading, edits>>

WriteBundle(w) ==
    \/ Check(w) \/ Open(w) \/ Remove(w) \/ RemoveDirectory(w) \/ Stage(w)
    \/ Write(w) \/ WriteFails(w) \/ Rename(w) \/ Cleanup(w)

(***************************************************************************)
(* load_fixture_suite                                                      *)
(***************************************************************************)
Reject == load' = [load EXCEPT !.at = "rejected"]

BeginLoad ==
    /\ loads < MaxLoads /\ load.at \notin {"read", "validate"}
    /\ loads' = loads + 1
    /\ load' = [at |-> IF output \in Bundles THEN "read" ELSE "rejected", seen |-> Empty]
    /\ UNCHANGED <<disk, staged, pc, removing, edits>>

\* What the loader's own parsing of a payload can reject: its schema, its
\* ranges, its conflicts.
Parses(n, content) == n \in Payloads => content \notin Malformed

\* Read and parse the next file.
ReadFile ==
    /\ load.at = "read"
    /\ LET i == Cardinality(DOMAIN load.seen) + 1
           n == ReadOrder[i]
       IN IF /\ output \in Bundles /\ n \in DOMAIN files[output]
             /\ Parses(n, files[output][n])
          THEN load' = [at |-> IF i = Len(ReadOrder) THEN "validate" ELSE "read",
                        seen |-> With(load.seen, n, files[output][n])]
          ELSE Reject
    /\ UNCHANGED <<disk, staged, pc, removing, loads, edits>>

FaultyBinds(provenance, seen) ==
    \A n \in Payloads \ {"cases.json"} : provenance.payload[n] = seen[n]

\* The hashes of provenance.json are those of the payloads read.
Binds(provenance, seen) == \A n \in Payloads : provenance.payload[n] = seen[n]

\* validate_provenance
Valid(provenance, seen) ==
    /\ provenance.commit = RunnerCommit
    /\ provenance.source = BlockOf[seen["manifest.json"]]
    /\ Binds(provenance, seen)

ValidateProvenance ==
    /\ load.at = "validate"
    /\ IF Valid(load.seen["provenance.json"], load.seen)
       THEN load' = [load EXCEPT !.at = "accepted"]
       ELSE Reject
    /\ UNCHANGED <<disk, staged, pc, removing, loads, edits>>

LoadSuite == BeginLoad \/ ReadFile \/ ValidateProvenance

(***************************************************************************)
(* The person replaces a file by one of another bundle, or edits it.       *)
(***************************************************************************)
Edit ==
    /\ edits < MaxEdits /\ output \in Bundles
    /\ \E n \in DOMAIN files[output] :
         \E v \in {Content(b, n) : b \in Bundles}
                     \cup (IF n \in Payloads THEN Edited ELSE {}) :
             files' = [files EXCEPT ![output][n] = v]
    /\ edits' = edits + 1
    /\ UNCHANGED <<output, staged, pc, removing, loading>>

Init ==
    /\ force \in SUBSET Captures
    /\ output \in {Nowhere, PlainFile, Original}
    /\ files = [b \in Bundles |-> IF b = output THEN Whole(b) ELSE Empty]
    /\ staged = {}
    /\ pc = [w \in Captures |-> "check"]
    /\ victim = [w \in Captures |-> Nowhere]
    /\ listing = [w \in Captures |-> {}]
    /\ load = [at |-> "idle", seen |-> Empty]
    /\ loads = 0 /\ edits = 0
    /\ witnessed = {}

Standing == {b \in Bundles : output = b /\ files[b] = Whole(b)}

Step ==
    \/ \E w \in Captures : WriteBundle(w) \/ Crash(w)
    \/ LoadSuite
    \/ Edit

Next ==
    /\ Step
    /\ UNCHANGED force
    /\ witnessed' = IF loads' # loads THEN Standing'
                    ELSE witnessed \cup Standing'

Spec == Init /\ [][Next]_vars

(***************************************************************************)
(* Properties.                                                             *)
(***************************************************************************)
\* docs/fixture-format.md:179-180: "A modified, partially replaced, or
\* differently pinned fixture is rejected before execution."  A load that
\* accepts has read one bundle for the runner's commit; unless somebody
\* edited files, that bundle stood whole at the path at one moment of the
\* load, although its four files were opened one after the other.
LoadsAreAtomic ==
    load.at = "accepted" =>
        \E b \in Bundles :
            /\ Commit[b] = RunnerCommit
            /\ \A n \in Payloads : load.seen[n] = Payload[b][n]
            /\ edits = 0 => b \in witnessed

\* A directory a capture published is whole, unless a forced capture is
\* removing it or somebody edited it: a failure or a kill between two steps
\* never leaves half a bundle at the path.
PublishedBundlesAreWhole ==
    output \in Captures /\ edits = 0 =>
        \/ files[output] = Whole(output)
        \/ \E w \in force : victim[w] = output

\* A capture that ended on its own left no temporary directory behind, unless
\* the file system refused to remove it; one that was left behind, by such a
\* refusal or a kill, is not what the path names.
NothingLeftBehind ==
    \A w \in Captures : w \in staged =>
        pc[w] \notin {"done", "failed"} /\ output # w

\* docs/capture.md:84-85: "Existing output is preserved unless `--force' is
\* explicitly supplied", also when it appears after the check: only a step of a
\* forced capture's removal changes or takes away what the path names.
Occupied == output = PlainFile \/ (output \in Bundles /\ files[output] # Empty)

Steps(w) == <<pc[w], listing[w]>>' # <<pc[w], listing[w]>>

PreservedUnlessForced ==
    [][ Occupied /\ edits' = edits
            /\ (output' # output
                  \/ (output \in Bundles /\ files'[output] # files[output]))
        => \E w \in force : pc[w] \in {"open", "remove"} /\ Steps(w) ]_vars
=============================================================================
