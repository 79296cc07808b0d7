---------------------------- MODULE StoreProofs ----------------------------
(***************************************************************************)
(* That captures, loads and edits that interleave in one directory keep    *)
(* its bundles whole and preserved, leave nothing behind, and let a load   *)
(* accept one bundle only: for all captures, payloads, loads and edits.    *)
(***************************************************************************)
EXTENDS BundleStore, FiniteSetTheorems, TLAPS

IsFunction(f) == f = [n \in DOMAIN f |-> f[n]]

Typed ==
    /\ force \in SUBSET Captures
    /\ output \in Bundles \cup {Nowhere, PlainFile}
    /\ files = [b \in Bundles |-> files[b]]
    /\ \A b \in Bundles : IsFunction(files[b]) /\ DOMAIN files[b] \subseteq Files
    /\ pc = [w \in Captures |-> pc[w]]
    /\ victim \in [Captures -> Bundles \cup {Nowhere}]
    /\ edits \in Nat

\* Only a forced capture removes anything, and it removes a bundle.
Forced ==
    \A w \in Captures :
        /\ pc[w] \in {"open", "remove"} \/ victim[w] # Nowhere => w \in force
        /\ pc[w] = "remove" => victim[w] \in Bundles
        /\ pc[w] \in {"check", "open"} => victim[w] = Nowhere

\* What the path names, now or when a forced capture looked, was published.
Settled ==
    /\ output \in Captures => pc[output] = "done"
    /\ \A w \in Captures : victim[w] \in Captures => pc[victim[w]] = "done"

\* A bundle is complete from the last write until a forced capture removes it.
Filled ==
    \A w \in Captures :
        pc[w] \in {"rename", "done"} =>
            DOMAIN files[w] = Files \/ \E u \in force : victim[u] = w

Temporary ==
    \A w \in Captures : w \in staged => pc[w] \in {"write", "rename", "cleanup", "uncleaned", "crashed"}

\* Contents are the bundle's own unless edited, and each provenance was captured.
Genuine ==
    \A b \in Bundles :
        /\ edits = 0 => \A n \in DOMAIN files[b] : files[b][n] = Content(b, n)
        /\ "provenance.json" \in DOMAIN files[b] =>
             \E c \in Bundles : files[b]["provenance.json"] = Provenance(c)

Store == Typed /\ Forced /\ Settled /\ Filled /\ Temporary /\ Genuine

-----------------------------------------------------------------------------
(* Functions and orders.                                                   *)

LEMMA Outside == Nowhere \notin Bundles /\ PlainFile \notin Bundles /\ Captures \subseteq Bundles
BY StoreAssumption DEF Bundles

LEMMA EmptyFunction == IsFunction(Empty) /\ DOMAIN Empty = {}
BY DEF IsFunction, Empty

LEMMA WithoutFunction ==
    ASSUME NEW f, NEW n
    PROVE  /\ IsFunction(Without(f, n)) /\ DOMAIN Without(f, n) = DOMAIN f \ {n}
           /\ \A m \in DOMAIN f \ {n} : Without(f, n)[m] = f[m]
BY DEF IsFunction, Without

LEMMA WriteOrders ==
    /\ Len(WriteOrder) = 4 /\ DOMAIN WriteOrder = 1 .. 4
    /\ Files = {WriteOrder[1], WriteOrder[2], WriteOrder[3], WriteOrder[4]}
    /\ \A i \in 1 .. 4 : WriteOrder[i] \in Files
BY DEF WriteOrder, Files, Payloads

LEMMA WholeFunction ==
    ASSUME NEW b \in Bundles
    PROVE  IsFunction(Whole(b)) /\ DOMAIN Whole(b) = Files
           /\ \A n \in Files : Whole(b)[n] = Content(b, n)
BY DEF IsFunction, Whole

LEMMA IsWhole ==
    ASSUME NEW b \in Bundles, IsFunction(files[b]), DOMAIN files[b] = Files,
           \A n \in Files : files[b][n] = Content(b, n)
    PROVE  files[b] = Whole(b)
BY DEF IsFunction, Whole

LEMMA GenuineProvenance == \A b \in Bundles : Content(b, "provenance.json") = Provenance(b)
BY DEF Content

-----------------------------------------------------------------------------
(* The invariant of the store.                                             *)

LEMMA InitStore == Init => Store
<1> SUFFICES ASSUME Init PROVE Store
    OBVIOUS
<1>1. output \in Bundles \cup {Nowhere, PlainFile} /\ output \notin Captures
    BY Outside, StoreAssumption DEF Init, Bundles
<1>2. \A b \in Bundles : \/ b = output /\ files[b] = Whole(b)
                         \/ IsFunction(files[b]) /\ DOMAIN files[b] = {}
    BY EmptyFunction DEF Init
<1>3. Typed
    BY <1>1, <1>2, WholeFunction DEF Init, Typed
<1>4. Forced /\ Settled /\ Filled /\ Temporary
    BY <1>1, Outside DEF Init, Forced, Settled, Filled, Temporary
<1>5. Genuine
    BY <1>2, WholeFunction, GenuineProvenance DEF Genuine
<1> QED BY <1>3, <1>4, <1>5 DEF Store

\* Steps of a capture that change where it is and, perhaps, what the path names or
\* what it is about to remove, but no file.
LEMMA NoFileChanges ==
    ASSUME Store, NEW w \in Captures, NEW place, Goto(w, place), pc[w] # "done",
           files' = files, edits' = edits, force' = force,
           output' = output \/ output' = Nowhere \/ (output' = w /\ place = "done"),
           victim' = victim \/ \E b \in Bundles : /\ victim' = [victim EXCEPT ![w] = b]
                                                  /\ b = output /\ w \in force /\ victim[w] = Nowhere,
           place # "check", place = "open" => victim'[w] = Nowhere,
           place \in {"open", "remove"} => w \in force,
           place = "remove" => victim'[w] \in Bundles,
           place \in {"rename", "done"} => pc[w] = "rename",
           staged' \subseteq staged \cup {w},
           w \in staged' => place \in {"write", "rename", "cleanup", "uncleaned", "crashed"}
    PROVE  Store'
<1>1. pc'[w] = place /\ \A u \in Captures \ {w} : pc'[u] = pc[u]
    BY DEF Goto, Store, Typed
<1>2. \A u \in Captures : victim'[u] = victim[u] \/ (u = w /\ w \in force /\ victim'[u] = output)
    BY DEF Store, Typed
<1>3. Typed'
    BY Outside DEF Store, Typed, Goto
<1>4. Forced'
    BY <1>1, <1>2, <1>3 DEF Store, Forced, Typed
<1>5. Settled'
    BY <1>1, <1>2, Outside DEF Store, Settled
<1>6. Filled'
    <2> SUFFICES ASSUME NEW u \in Captures, pc'[u] \in {"rename", "done"}
                 PROVE  DOMAIN files[u] = Files \/ \E v \in force : victim'[v] = u
        BY DEF Filled
    <2>1. pc[u] \in {"rename", "done"}
        BY <1>1
    <2>2. CASE DOMAIN files[u] = Files
        BY <2>2
    <2>3. CASE \E v \in force : victim[v] = u
        <3>1. PICK v \in force : victim[v] = u
            BY <2>3
        <3>2. v \in Captures /\ u # Nowhere
            BY Outside DEF Store, Typed
        <3>3. victim'[v] = u
            BY <3>1, <3>2 DEF Store, Typed
        <3> QED BY <3>3
    <2> QED BY <2>1, <2>2, <2>3 DEF Store, Filled
<1>7. Temporary'
    BY <1>1 DEF Store, Temporary
<1>8. Genuine'
    BY DEF Store, Genuine, Content, Provenance
<1> QED BY <1>3, <1>4, <1>5, <1>6, <1>7, <1>8 DEF Store

\* A step of a capture that writes its own directory, or empties it.
LEMMA OwnFileChanges ==
    ASSUME Store, NEW w \in Captures, NEW place, Goto(w, place), pc[w] \in {"write", "cleanup"},
           NEW f, files' = [files EXCEPT ![w] = f], IsFunction(f), DOMAIN f \subseteq Files,
           edits = 0 => \A n \in DOMAIN f : f[n] = Content(w, n),
           "provenance.json" \in DOMAIN f => \E c \in Bundles : f["provenance.json"] = Provenance(c),
           UNCHANGED <<force, output, victim, edits>>,
           place \in {"write", "rename", "failed", "uncleaned"}, place = "rename" => DOMAIN f = Files,
           staged' \subseteq staged, place = "failed" => w \notin staged'
    PROVE  Store'
<1>1. pc'[w] = place /\ \A u \in Captures \ {w} : pc'[u] = pc[u]
    BY DEF Goto, Store, Typed
<1>2. files'[w] = f /\ \A b \in Bundles \ {w} : files'[b] = files[b]
    BY Outside DEF Store, Typed
<1>3. Typed'
    BY <1>2, Outside DEF Store, Typed, Goto
<1>4. Forced' /\ Settled'
    BY <1>1, Outside DEF Store, Forced, Settled
<1>5. Filled'
    BY <1>1, <1>2, Outside DEF Store, Filled
<1>6. Temporary'
    BY <1>1 DEF Store, Temporary
<1>7. Genuine'
    BY <1>2 DEF Store, Genuine, Content, Provenance
<1> QED BY <1>3, <1>4, <1>5, <1>6, <1>7 DEF Store

\* A forced capture removes one file of its victim.
LEMMA RemoveStore ==
    ASSUME Store, NEW w \in Captures, Remove(w), force' = force
    PROVE  Store'
<1>1. PICK n \in listing[w] :
        /\ files' = [files EXCEPT ![victim[w]] = Without(@, n)]
        /\ UNCHANGED pc \/ Goto(w, "failed")
    BY DEF Remove
<1>2. pc[w] = "remove" /\ victim[w] \in Bundles /\ w \in force
    BY DEF Remove, Store, Forced
<1>3. pc'[w] \in {"remove", "failed"} /\ \A u \in Captures \ {w} : pc'[u] = pc[u]
    BY <1>1, <1>2 DEF Goto, Store, Typed
<1>4. UNCHANGED <<output, staged, victim, edits>>
    BY DEF Remove, loading
<1>5. /\ files'[victim[w]] = Without(files[victim[w]], n)
      /\ \A b \in Bundles \ {victim[w]} : files'[b] = files[b]
    BY <1>1, <1>2 DEF Store, Typed
<1>6. \A b \in Bundles : /\ IsFunction(files'[b]) /\ DOMAIN files'[b] \subseteq DOMAIN files[b]
                         /\ \A m \in DOMAIN files'[b] : files'[b][m] = files[b][m]
    <2> SUFFICES ASSUME NEW b \in Bundles
                 PROVE  /\ IsFunction(files'[b]) /\ DOMAIN files'[b] \subseteq DOMAIN files[b]
                        /\ \A m \in DOMAIN files'[b] : files'[b][m] = files[b][m]
        OBVIOUS
    <2>1. CASE b = victim[w]
        <3>1. files'[b] = Without(files[b], n)
            BY <1>5, <2>1
        <3>2. /\ IsFunction(Without(files[b], n)) /\ DOMAIN Without(files[b], n) = DOMAIN files[b] \ {n}
              /\ \A m \in DOMAIN files[b] \ {n} : Without(files[b], n)[m] = files[b][m]
            BY WithoutFunction
        <3> QED BY <3>1, <3>2
    <2>2. CASE b # victim[w]
        BY <1>5, <2>2 DEF Store, Typed
    <2> QED BY <2>1, <2>2
<1>7. Typed'
    BY <1>1, <1>2, <1>4, <1>6 DEF Store, Typed, Goto
<1>8. Forced' /\ Settled'
    BY <1>2, <1>3, <1>4, Outside DEF Store, Forced, Settled
<1>9. Filled'
    <2> SUFFICES ASSUME NEW u \in Captures, pc'[u] \in {"rename", "done"}
                 PROVE  DOMAIN files'[u] = Files \/ \E v \in force : victim[v] = u
        BY <1>4 DEF Filled
    <2>1. pc[u] \in {"rename", "done"} /\ u \in Bundles
        BY <1>3, Outside
    <2>2. CASE u = victim[w]
        BY <1>2, <2>2
    <2>3. CASE u # victim[w]
        BY <1>5, <2>1, <2>3 DEF Store, Filled
    <2> QED BY <2>2, <2>3
<1>10. Temporary'
    BY <1>2, <1>3, <1>4 DEF Store, Temporary
<1>11. Genuine'
    BY <1>4, <1>6 DEF Store, Genuine, Content, Provenance
<1> QED BY <1>7, <1>8, <1>9, <1>10, <1>11 DEF Store

\* A person exchanges or edits one file.
LEMMA EditStore ==
    ASSUME Store, Edit, force' = force
    PROVE  Store'
<1>1. PICK n \in DOMAIN files[output] :
        \E v \in {Content(b, n) : b \in Bundles} \cup (IF n \in Payloads THEN Edited ELSE {}) :
            files' = [files EXCEPT ![output][n] = v]
    BY DEF Edit
<1>2. PICK v \in {Content(b, n) : b \in Bundles} \cup (IF n \in Payloads THEN Edited ELSE {}) :
        files' = [files EXCEPT ![output][n] = v]
    BY <1>1
<1>3. output \in Bundles /\ edits' = edits + 1 /\ edits' # 0
      /\ UNCHANGED <<output, staged, pc, victim>>
    BY DEF Edit, removing, Store, Typed
<1>4. \A b \in Bundles : /\ IsFunction(files'[b]) /\ DOMAIN files'[b] = DOMAIN files[b]
                         /\ \A m \in DOMAIN files[b] :
                              files'[b][m] = files[b][m] \/ (m = n /\ files'[b][m] = v)
    BY <1>2, <1>3 DEF Store, Typed, IsFunction
<1>5. Typed'
    <2>1. files' = [b \in Bundles |-> files'[b]]
        BY <1>2 DEF Store, Typed
    <2>2. edits' \in Nat
        BY <1>3 DEF Store, Typed
    <2>3. UNCHANGED <<force, output, pc, victim>>
        BY <1>3
    <2> QED BY <1>4, <2>1, <2>2, <2>3 DEF Store, Typed
<1>6. Forced' /\ Settled' /\ Temporary'
    BY <1>3 DEF Store, Forced, Settled, Temporary
<1>7. Filled'
    BY <1>3, <1>4, Outside DEF Store, Filled
<1>8. n = "provenance.json" => \E c \in Bundles : v = Provenance(c)
    BY <1>2, GenuineProvenance DEF Payloads
<1>9. Genuine'
    <2> SUFFICES ASSUME NEW b \in Bundles, "provenance.json" \in DOMAIN files'[b]
                 PROVE  \E c \in Bundles : files'[b]["provenance.json"] = Provenance(c)
        BY <1>3 DEF Genuine, Provenance
    <2> QED BY <1>4, <1>8 DEF Store, Genuine
<1> QED BY <1>5, <1>6, <1>7, <1>9 DEF Store

LEMMA WriteStore ==
    ASSUME Store, NEW w \in Captures, Write(w), force' = force
    PROVE  Store'
<1>1. PICK i \in Unwritten(w) :
        /\ \A j \in Unwritten(w) : i <= j
        /\ files' = [files EXCEPT ![w] = With(@, WriteOrder[i], Content(w, WriteOrder[i]))]
        /\ Goto(w, IF i = Len(WriteOrder) THEN "rename" ELSE "write")
    BY DEF Write
<1> DEFINE n == WriteOrder[i]
           f == With(files[w], n, Content(w, n))
           place == IF i = 4 THEN "rename" ELSE "write"
<1>2. /\ pc[w] = "write" /\ UNCHANGED <<output, staged, victim, edits>>
      /\ w \in Bundles /\ files' = [files EXCEPT ![w] = f] /\ Goto(w, place)
    BY <1>1, WriteOrders, Outside DEF Write, removing, Store, Typed
<1>3. i \in 1 .. 4 /\ n \in Files
    BY WriteOrders DEF Unwritten
<1>4. /\ IsFunction(f) /\ DOMAIN f = DOMAIN files[w] \cup {n} /\ f[n] = Content(w, n)
      /\ \A m \in DOMAIN files[w] \ {n} : f[m] = files[w][m]
    <2> DEFINE old == files[w]
               new == Content(w, n)
    <2>1. f = With(old, n, new)
        OBVIOUS
    <2> HIDE DEF f, old, new, n
    <2>2. /\ IsFunction(With(old, n, new)) /\ DOMAIN With(old, n, new) = DOMAIN old \cup {n}
          /\ With(old, n, new)[n] = new
          /\ \A m \in DOMAIN old \ {n} : With(old, n, new)[m] = old[m]
        BY DEF With, IsFunction
    <2> QED BY <2>1, <2>2 DEF old, new
<1>5. i = 4 => \A j \in 1 .. 3 : WriteOrder[j] \in DOMAIN files[w]
    BY <1>1, WriteOrders DEF Unwritten
<1>6. i = 4 => DOMAIN f = Files
    <2>1. DOMAIN files[w] \subseteq Files
        BY <1>2 DEF Store, Typed
    <2> QED BY <1>4, <1>5, <2>1, WriteOrders
<1> HIDE DEF f, n
<1>7. DOMAIN f \subseteq Files
    BY <1>2, <1>3, <1>4 DEF Store, Typed
<1>8. edits = 0 => \A m \in DOMAIN f : f[m] = Content(w, m)
    BY <1>2, <1>4 DEF Store, Genuine
<1>9. "provenance.json" \in DOMAIN f => \E c \in Bundles : f["provenance.json"] = Provenance(c)
    BY <1>2, <1>4, GenuineProvenance DEF Store, Genuine
<1>10. /\ place \in {"write", "rename", "failed", "uncleaned"} /\ place # "failed"
       /\ place = "rename" => DOMAIN f = Files
    BY <1>6
<1> HIDE DEF place
<1> QED BY <1>2, <1>4, <1>7, <1>8, <1>9, <1>10, OwnFileChanges

LEMMA CleanupStore ==
    ASSUME Store, NEW w \in Captures, Cleanup(w), force' = force
    PROVE  Store'
<1>1. pc[w] = "cleanup" /\ UNCHANGED <<output, victim, edits>>
    BY DEF Cleanup, removing
<1>2. PICK kept \in SUBSET DOMAIN files[w] :
        files' = [files EXCEPT ![w] = [n \in kept |-> @[n]]]
    BY DEF Cleanup
<1>3. PICK place \in {"failed", "uncleaned"} :
        Goto(w, place) /\ staged' \subseteq staged /\ (place = "failed" => w \notin staged')
    BY DEF Cleanup
<1> DEFINE f == [n \in kept |-> files[w][n]]
<1>4. /\ files' = [files EXCEPT ![w] = f]
      /\ IsFunction(f) /\ DOMAIN f = kept /\ \A n \in kept : f[n] = files[w][n]
    BY <1>2, Outside DEF IsFunction, Store, Typed
<1> HIDE DEF f
<1>5. DOMAIN f \subseteq Files
    BY <1>4, Outside DEF Store, Typed
<1>6. edits = 0 => \A n \in DOMAIN f : f[n] = Content(w, n)
    BY <1>4, Outside DEF Store, Genuine
<1>7. "provenance.json" \in DOMAIN f => \E c \in Bundles : f["provenance.json"] = Provenance(c)
    BY <1>4, Outside DEF Store, Genuine
<1> QED BY <1>1, <1>3, <1>4, <1>5, <1>6, <1>7, OwnFileChanges

\* The steps of a capture that change no file.
LEMMA QuietStore ==
    ASSUME Store, NEW w \in Captures, force' = force,
           \/ Check(w) \/ Open(w) \/ RemoveDirectory(w) \/ Stage(w)
           \/ WriteFails(w) \/ Rename(w) \/ Crash(w)
    PROVE  Store'
<1> USE DEF disk, removing
<1>0. /\ pc[w] \in {"check", "open"} => victim[w] = Nowhere
      /\ pc[w] = "open" => w \in force
      /\ w \in staged => pc[w] \in {"write", "rename", "cleanup", "uncleaned", "crashed"}
    BY DEF Store, Forced, Temporary
<1>1. CASE Check(w)
    <2> DEFINE place == IF output = Nowhere THEN "stage" ELSE IF w \in force THEN "open" ELSE "failed"
    <2>1. pc[w] = "check" /\ Goto(w, place) /\ UNCHANGED <<output, files, staged, victim, edits>>
        BY <1>1 DEF Check
    <2> QED BY <1>0, <2>1, NoFileChanges
<1>2. CASE Open(w)
    <2>1. pc[w] = "open" /\ UNCHANGED <<files, staged, edits>>
        BY <1>2 DEF Open
    <2>2. CASE output \in Bundles /\ victim' = [victim EXCEPT ![w] = output] /\ Goto(w, "remove")
               /\ UNCHANGED output
        <3>1. victim'[w] = output
            BY <2>2 DEF Store, Typed
        <3> QED BY <1>0, <2>1, <2>2, <3>1, NoFileChanges
    <2>3. CASE output' = Nowhere /\ Goto(w, "stage") /\ UNCHANGED removing
        BY <1>0, <2>1, <2>3, NoFileChanges
    <2>4. CASE Goto(w, "failed") /\ UNCHANGED <<output, removing>>
        BY <1>0, <2>1, <2>4, NoFileChanges
    <2> QED BY <1>2, <2>2, <2>3, <2>4 DEF Open
<1>3. CASE RemoveDirectory(w)
    <2>1. pc[w] = "remove" /\ UNCHANGED <<files, staged, victim, edits>>
        BY <1>3 DEF RemoveDirectory
    <2>2. CASE output' = Nowhere /\ Goto(w, "stage")
        BY <1>0, <2>1, <2>2, NoFileChanges
    <2>3. CASE UNCHANGED output /\ Goto(w, "failed")
        BY <1>0, <2>1, <2>3, NoFileChanges
    <2> QED BY <1>3, <2>2, <2>3 DEF RemoveDirectory
<1>4. CASE Stage(w)
    <2>1. pc[w] = "stage" /\ Goto(w, "write") /\ staged' = staged \cup {w}
          /\ UNCHANGED <<output, files, victim, edits>>
        BY <1>4 DEF Stage
    <2> QED BY <2>1, NoFileChanges
<1>5. CASE WriteFails(w)
    <2>1. pc[w] = "write" /\ Goto(w, "cleanup") /\ UNCHANGED <<output, files, staged, victim, edits>>
        BY <1>5 DEF WriteFails
    <2> QED BY <2>1, NoFileChanges
<1>6. CASE Rename(w)
    <2>1. pc[w] = "rename" /\ UNCHANGED <<files, victim, edits>>
        BY <1>6 DEF Rename
    <2>2. CASE output' = w /\ staged' = staged \ {w} /\ Goto(w, "done")
        BY <2>1, <2>2, NoFileChanges
    <2>3. CASE UNCHANGED <<output, staged>> /\ Goto(w, "cleanup")
        BY <2>1, <2>3, NoFileChanges
    <2> QED BY <1>6, <2>2, <2>3 DEF Rename
<1>7. CASE Crash(w)
    <2>1. pc[w] # "done" /\ Goto(w, "crashed") /\ UNCHANGED <<output, files, staged, victim, edits>>
        BY <1>7 DEF Crash
    <2> QED BY <2>1, NoFileChanges
<1> QED BY <1>1, <1>2, <1>3, <1>4, <1>5, <1>6, <1>7

\* Steps of a load leave the store alone.
LEMMA LoadStore ==
    ASSUME Store, LoadSuite \/ UNCHANGED vars, force' = force
    PROVE  Store'
<1>1. UNCHANGED <<disk, staged, pc, victim, edits>>
    BY DEF LoadSuite, BeginLoad, ReadFile, ValidateProvenance, vars, removing
<1>2. Typed' /\ Forced' /\ Settled' /\ Filled'
    BY <1>1 DEF disk, Store, Typed, Forced, Settled, Filled
<1>3. Temporary'
    BY <1>1 DEF Store, Temporary
<1>4. Genuine'
    BY <1>1 DEF disk, Store, Genuine, Content, Provenance
<1> QED BY <1>2, <1>3, <1>4 DEF Store

LEMMA NextStore == Store /\ [Next]_vars => Store'
<1> SUFFICES ASSUME Store, [Next]_vars PROVE Store'
    OBVIOUS
<1>1. force' = force
    BY DEF Next, vars
<1> QED BY <1>1, WriteStore, CleanupStore, QuietStore, RemoveStore, EditStore, LoadStore
        DEF Next, Step, WriteBundle

-----------------------------------------------------------------------------
(* The invariant of a load.                                                *)

\* The files seen are the first ones in the order of reading.
Progress ==
    load.at = "read" =>
        \E k \in 0 .. 3 : DOMAIN load.seen = {ReadOrder[j] : j \in 1 .. k}

\* Without edits, a directory at the path that was not whole there since the load
\* began lacks a file the load has yet to read.
Lacking ==
    load.at = "read" /\ edits = 0 /\ output \in Bundles /\ output \notin witnessed =>
        \E n \in Files \ DOMAIN load.seen : n \notin DOMAIN files[output]

\* A provenance was read, of a bundle that stood whole unless there were edits.
Bound ==
    load.at \in {"validate", "accepted"} =>
        \E b \in Bundles : /\ load.seen["provenance.json"] = Provenance(b)
                           /\ edits = 0 => b \in witnessed

Loading ==
    /\ load = [at |-> load.at, seen |-> load.seen] /\ loads \in Nat
    /\ Progress /\ Lacking /\ Bound
    /\ load.at = "accepted" => Valid(load.seen["provenance.json"], load.seen)

\* The file to read next.
LEMMA NextFile ==
    ASSUME Progress, load.at = "read", NEW i, i = Cardinality(DOMAIN load.seen) + 1
    PROVE  /\ i \in 1 .. 4 /\ ReadOrder[i] \in Files
           /\ DOMAIN load.seen = {ReadOrder[j] : j \in 1 .. i - 1}
           /\ i = 4 => /\ ReadOrder[i] = "provenance.json"
                       /\ Files \ DOMAIN load.seen = {"provenance.json"}
<1> DEFINE m == "manifest.json"
           s == "state.json.zst"
           c == "cases.json"
           seen == DOMAIN load.seen
<1>1. /\ ReadOrder[1] = m /\ ReadOrder[2] = s /\ ReadOrder[3] = c
      /\ ReadOrder[4] = "provenance.json" /\ Files = {m, s, c, "provenance.json"}
    BY DEF ReadOrder, Files, Payloads
<1>2. /\ Cardinality({}) = 0 /\ Cardinality({m}) = 1
      /\ Cardinality({m, s}) = 2 /\ Cardinality({m, s, c}) = 3
    <2>1. IsFiniteSet({m}) /\ Cardinality({m}) = 1
        BY FS_Singleton
    <2>2. IsFiniteSet({m} \cup {s}) /\ Cardinality({m} \cup {s}) = Cardinality({m}) + 1
        BY <2>1, FS_AddElement
    <2>3. Cardinality({m, s} \cup {c}) = Cardinality({m, s}) + 1
        <3>1. {m, s} = {m} \cup {s}
            OBVIOUS
        <3> QED BY <2>2, <3>1, FS_AddElement, SMTT(30)
    <2>4. {m} \cup {s} = {m, s} /\ {m, s} \cup {c} = {m, s, c}
        OBVIOUS
    <2> QED BY <2>1, <2>2, <2>3, <2>4, FS_EmptySet
<1>3. PICK k \in 0 .. 3 : seen = {ReadOrder[j] : j \in 1 .. k}
    BY DEF Progress
<1>4. \/ k = 0 /\ seen = {}
      \/ k = 1 /\ seen = {m}
      \/ k = 2 /\ seen = {m, s}
      \/ k = 3 /\ seen = {m, s, c}
    <2>1. k \in {0, 1, 2, 3}
        OBVIOUS
    <2>2. /\ 1 .. 0 = {} /\ 1 .. 1 = {1} /\ 1 .. 2 = {1, 2} /\ 1 .. 3 = {1, 2, 3}
        OBVIOUS
    <2>3. CASE k = 0
        BY <1>3, <2>2, <2>3
    <2>4. CASE k = 1
        BY <1>1, <1>3, <2>2, <2>4
    <2>5. CASE k = 2
        BY <1>1, <1>3, <2>2, <2>5
    <2>6. CASE k = 3
        BY <1>1, <1>3, <2>2, <2>6
    <2> QED BY <2>1, <2>3, <2>4, <2>5, <2>6
<1>5. Cardinality(seen) = k
    <2> HIDE DEF seen
    <2>1. CASE k = 0 /\ seen = {}
        BY <1>2, <2>1
    <2>2. CASE k = 1 /\ seen = {m}
        BY <1>2, <2>2
    <2>3. CASE k = 2 /\ seen = {m, s}
        BY <1>2, <2>3
    <2>4. CASE k = 3 /\ seen = {m, s, c}
        BY <1>2, <2>4
    <2> QED BY <1>4, <2>1, <2>2, <2>3, <2>4
<1>6. i = k + 1 /\ k = i - 1 /\ i \in 1 .. 4
    <2> HIDE DEF seen
    <2>1. i = Cardinality(seen) + 1
        BY DEF seen
    <2> QED BY <1>5, <2>1
<1>7. ReadOrder[i] \in Files
    <2>1. i = 1 \/ i = 2 \/ i = 3 \/ i = 4
        BY <1>6
    <2> QED BY <1>1, <2>1
<1>8. ASSUME i = 4
      PROVE  ReadOrder[i] = "provenance.json" /\ Files \ seen = {"provenance.json"}
    <2>1. seen = {m, s, c}
        BY <1>4, <1>6, <1>8
    <2>2. {m, s, c, "provenance.json"} \ {m, s, c} = {"provenance.json"}
        OBVIOUS
    <2> QED BY <1>1, <1>8, <2>1, <2>2
<1> QED BY <1>3, <1>6, <1>7, <1>8

\* What the path names after a step that is no edit: a bundle that stands whole, or
\* what it named before with no file more.
LEMMA PathMoves ==
    ASSUME Store, [Next]_vars, edits' = 0
    PROVE  /\ edits = 0
           /\ output' \in Bundles =>
                \/ output' \in Standing'
                \/ output' = output /\ DOMAIN files'[output] \subseteq DOMAIN files[output]
<1>1. CASE UNCHANGED <<disk, edits>>
    BY <1>1 DEF disk
<1>2. CASE Edit
    BY <1>2 DEF Edit, Store, Typed
<1>3. ASSUME NEW w \in Captures, WriteBundle(w) \/ Crash(w)
      PROVE  /\ edits = 0
             /\ output' \in Bundles =>
                  \/ output' \in Standing'
                  \/ output' = output /\ DOMAIN files'[output] \subseteq DOMAIN files[output]
    <2>1. edits = 0
        BY <1>3 DEF WriteBundle, Check, Open, Remove, RemoveDirectory, Stage, Write,
                    WriteFails, Rename, Cleanup, Crash
    <2>2. CASE Check(w) \/ Stage(w) \/ WriteFails(w) \/ Crash(w)
        BY <2>1, <2>2 DEF Check, Stage, WriteFails, Crash, disk
    <2>3. CASE Open(w) \/ RemoveDirectory(w)
        BY <2>1, <2>3, Outside DEF Open, RemoveDirectory
    <2>4. CASE Remove(w)
        <3>1. PICK n \in listing[w] : files' = [files EXCEPT ![victim[w]] = Without(@, n)]
            BY <2>4 DEF Remove
        <3>2. output' = output
            BY <2>4 DEF Remove
        <3>3. ASSUME output \in Bundles
              PROVE  DOMAIN files'[output] \subseteq DOMAIN files[output]
            <4>1. files'[output] = files[output] \/ files'[output] = Without(files[output], n)
                BY <3>1, <3>3 DEF Store, Typed
            <4>2. DOMAIN Without(files[output], n) \subseteq DOMAIN files[output]
                BY DEF Without
            <4> QED BY <4>1, <4>2
        <3> QED BY <2>1, <3>2, <3>3
    <2>5. CASE Write(w) \/ Cleanup(w)
        <3>1. output' = output /\ output # w
            BY <2>5 DEF Write, Cleanup, Store, Settled
        <3>2. output \in Bundles => files'[output] = files[output]
            BY <2>5, <3>1 DEF Write, Cleanup, Store, Typed
        <3> QED BY <2>1, <3>1, <3>2
    <2>6. CASE Rename(w)
        <3>1. files' = files /\ pc[w] = "rename" /\ w \in Bundles
            BY <2>6, Outside DEF Rename
        <3>2. DOMAIN files[w] = Files
            <4>1. \A v \in force : victim[v] # w
                BY <3>1 DEF Store, Typed, Settled
            <4> QED BY <3>1, <4>1 DEF Store, Filled
        <3>3. files[w] = Whole(w)
            BY <2>1, <3>1, <3>2, IsWhole DEF Store, Typed, Genuine
        <3>4. Whole(w)' = Whole(w)
            BY DEF Whole, Content, Provenance
        <3>5. output' = output \/ (output' = w /\ w \in Standing')
            BY <2>6, <3>1, <3>3, <3>4 DEF Rename, Standing
        <3> QED BY <2>1, <3>1, <3>5
    <2> QED BY <1>3, <2>2, <2>3, <2>4, <2>5, <2>6 DEF WriteBundle
<1>4. LoadSuite \/ UNCHANGED vars => UNCHANGED <<disk, edits>>
    BY DEF LoadSuite, BeginLoad, ReadFile, ValidateProvenance, vars, disk
<1> QED BY <1>1, <1>2, <1>3, <1>4 DEF Next, Step

\* Steps that are not a load's.
LEMMA OthersLoading ==
    ASSUME Store, Loading, [Next]_vars, UNCHANGED loading
    PROVE  Loading'
<1>1. witnessed \subseteq witnessed' /\ (witnessed' = witnessed \cup Standing' \/ UNCHANGED vars)
    BY DEF Next, vars, loading
<1>2. load' = load /\ loads' = loads
    BY DEF loading
<1>3. edits' = 0 => edits = 0
    BY PathMoves
<1>4. Progress'
    BY <1>2 DEF Loading, Progress
<1>5. Lacking'
    <2> SUFFICES ASSUME load.at = "read", edits' = 0, output' \in Bundles, output' \notin witnessed'
                 PROVE  \E n \in Files \ DOMAIN load.seen : n \notin DOMAIN files'[output']
        BY <1>2 DEF Lacking
    <2>1. output' = output /\ DOMAIN files'[output] \subseteq DOMAIN files[output]
        <3>1. CASE UNCHANGED vars
            BY <3>1 DEF vars, disk
        <3>2. CASE witnessed' = witnessed \cup Standing'
            BY <3>2, PathMoves
        <3> QED BY <1>1, <3>1, <3>2
    <2>2. output \notin witnessed /\ edits = 0
        BY <1>1, <1>3, <2>1
    <2> QED BY <2>1, <2>2 DEF Loading, Lacking
<1>6. Bound'
    BY <1>1, <1>2, <1>3 DEF Loading, Bound, Provenance
<1>7. load'.at = "accepted" => Valid(load'.seen["provenance.json"], load'.seen)
    BY <1>2 DEF Loading
<1> QED BY <1>2, <1>4, <1>5, <1>6, <1>7 DEF Loading, Valid, Binds

LEMMA BeginLoading ==
    ASSUME Store, Loading, Next, BeginLoad
    PROVE  Loading'
<1>1. /\ loads' = loads + 1 /\ loads \in Nat /\ UNCHANGED <<disk, edits>>
      /\ load' = [at |-> IF output \in Bundles THEN "read" ELSE "rejected", seen |-> Empty]
    BY DEF BeginLoad, Loading
<1>2. witnessed' = Standing'
    BY <1>1 DEF Next
<1>3. Progress'
    <2>1. DOMAIN load'.seen = {ReadOrder[j] : j \in 1 .. 0}
        BY <1>1, EmptyFunction
    <2> QED BY <2>1 DEF Progress
<1>4. Lacking'
    <2> SUFFICES ASSUME edits = 0, output \in Bundles, output \notin Standing'
                 PROVE  \E n \in Files : n \notin DOMAIN files[output]
        BY <1>1, <1>2, EmptyFunction DEF Lacking, disk
    <2>1. files[output] # Whole(output)
        BY <1>1 DEF Standing, disk, Whole, Content, Provenance
    <2>2. DOMAIN files[output] # Files
        BY <2>1, IsWhole DEF Store, Typed, Genuine
    <2> QED BY <2>2 DEF Store, Typed
<1>5. Bound' /\ load'.at # "accepted"
    BY <1>1 DEF Bound
<1> QED BY <1>1, <1>3, <1>4, <1>5 DEF Loading

LEMMA Rejecting ==
    ASSUME Loading, Reject, loads' = loads
    PROVE  Loading'
<1>1. load' = [at |-> "rejected", seen |-> load.seen]
    BY DEF Loading, Reject
<1> QED BY <1>1 DEF Loading, Progress, Lacking, Bound

LEMMA ReadLoading ==
    ASSUME Store, Loading, Next, ReadFile
    PROVE  Loading'
<1> DEFINE i == Cardinality(DOMAIN load.seen) + 1
           n == ReadOrder[i]
           seen == With(load.seen, n, files[output][n])
<1>1. load.at = "read" /\ UNCHANGED <<disk, loads, edits>>
    BY DEF ReadFile
<1>2. witnessed \subseteq witnessed'
    BY <1>1 DEF Next
<1>3. /\ i \in 1 .. 4 /\ n \in Files /\ DOMAIN load.seen = {ReadOrder[j] : j \in 1 .. i - 1}
      /\ i = 4 => n = "provenance.json" /\ Files \ DOMAIN load.seen = {"provenance.json"}
    BY <1>1, NextFile DEF Loading
<1>4. CASE Reject
    BY <1>1, <1>4, Rejecting
<1>5. CASE /\ output \in Bundles /\ n \in DOMAIN files[output]
           /\ load' = [at |-> IF i = Len(ReadOrder) THEN "validate" ELSE "read", seen |-> seen]
    <2>1. load' = [at |-> IF i = 4 THEN "validate" ELSE "read", seen |-> seen]
        BY <1>5 DEF ReadOrder
    <2>2. /\ DOMAIN seen = DOMAIN load.seen \cup {n}
          /\ seen[n] = files[output][n]
        BY DEF With
    <2> HIDE DEF seen, n, i
    <2>3. Progress'
        <3>1. 1 .. i = (1 .. i - 1) \cup {i}
            BY <1>3
        <3>2. DOMAIN seen = {ReadOrder[j] : j \in 1 .. i - 1} \cup {ReadOrder[i]}
            BY <1>3, <2>2 DEF n
        <3>3. DOMAIN seen = {ReadOrder[j] : j \in 1 .. i}
            BY <3>1, <3>2
        <3>4. load'.at = "read" => i \in 0 .. 3
            BY <1>3, <2>1
        <3>5. load'.seen = seen
            BY <2>1
        <3> QED BY <3>3, <3>4, <3>5 DEF Progress
    <2>4. Lacking'
        <3> SUFFICES ASSUME edits = 0, output \notin witnessed, i # 4
                     PROVE  \E m \in Files \ DOMAIN seen : m \notin DOMAIN files[output]
            BY <1>1, <1>2, <2>1 DEF Lacking, disk
        <3> QED BY <1>1, <1>5, <2>2 DEF Loading, Lacking
    <2>5. Bound'
        <3> SUFFICES ASSUME i = 4
                     PROVE  \E b \in Bundles : /\ seen["provenance.json"] = Provenance(b)
                                               /\ edits = 0 => b \in witnessed
            BY <1>1, <1>2, <2>1 DEF Bound, Provenance
        <3>1. n = "provenance.json" /\ seen["provenance.json"] = files[output]["provenance.json"]
            BY <1>3, <2>2
        <3>2. CASE edits = 0
            <4>1. seen["provenance.json"] = Provenance(output)
                BY <1>5, <3>1, <3>2, GenuineProvenance DEF Store, Genuine
            <4>2. output \in witnessed
                BY <1>1, <1>3, <1>5, <3>1, <3>2 DEF Loading, Lacking
            <4> QED BY <1>5, <4>1, <4>2
        <3>3. CASE edits # 0
            BY <1>5, <3>1, <3>3 DEF Store, Genuine
        <3> QED BY <3>2, <3>3
    <2>6. load'.at # "accepted" /\ load' = [at |-> load'.at, seen |-> load'.seen]
        BY <2>1
    <2> QED BY <1>1, <2>3, <2>4, <2>5, <2>6 DEF Loading
<1> QED BY <1>4, <1>5 DEF ReadFile

LEMMA ValidateLoading ==
    ASSUME Store, Loading, Next, ValidateProvenance
    PROVE  Loading'
<1>1. load.at = "validate" /\ UNCHANGED <<disk, loads, edits>>
    BY DEF ValidateProvenance
<1>2. witnessed \subseteq witnessed'
    BY <1>1 DEF Next
<1>3. CASE Reject
    BY <1>1, <1>3, Rejecting
<1>4. CASE Valid(load.seen["provenance.json"], load.seen) /\ load' = [load EXCEPT !.at = "accepted"]
    <2>1. load' = [at |-> "accepted", seen |-> load.seen]
        BY <1>4 DEF Loading
    <2>2. Bound'
        BY <1>1, <1>2, <2>1 DEF Loading, Bound, Provenance
    <2> QED BY <1>1, <1>4, <2>1, <2>2 DEF Loading, Progress, Lacking, Valid, Binds
<1> QED BY <1>3, <1>4 DEF ValidateProvenance

LEMMA NextLoading == Store /\ Loading /\ [Next]_vars => Loading'
<1> SUFFICES ASSUME Store, Loading, [Next]_vars PROVE Loading'
    OBVIOUS
<1>1. CASE UNCHANGED loading
    BY <1>1, OthersLoading
<1>2. CASE Next /\ LoadSuite
    BY <1>2, BeginLoading, ReadLoading, ValidateLoading DEF LoadSuite
<1>3. \A w \in Captures : WriteBundle(w) \/ Crash(w) => UNCHANGED loading
    BY DEF WriteBundle, Check, Open, Remove, RemoveDirectory, Stage, Write, WriteFails, Rename,
           Cleanup, Crash
<1>4. Edit \/ UNCHANGED vars => UNCHANGED loading
    BY DEF Edit, vars
<1> QED BY <1>1, <1>2, <1>3, <1>4 DEF Next, Step

LEMMA Invariant == Spec => [](Store /\ Loading)
<1>1. Init => Loading
    BY DEF Init, Loading, Progress, Lacking, Bound
<1> QED BY <1>1, InitStore, NextStore, NextLoading, PTL DEF Spec

\* The names listed, capture by capture.
Listed == listing = [w \in Captures |-> listing[w]]

LEMMA ListedInvariant == Spec => []Listed
<1>1. Init => Listed
    BY DEF Init, Listed
<1>2. Listed /\ [Next]_vars => Listed'
    <2> SUFFICES ASSUME Listed, [Next]_vars PROVE Listed'
        OBVIOUS
    <2>1. CASE listing' = listing
        BY <2>1 DEF Listed
    <2>2. ASSUME NEW w \in Captures, NEW names, listing' = [listing EXCEPT ![w] = names]
          PROVE  Listed'
        BY <2>2 DEF Listed
    <2>3. ASSUME NEW w \in Captures, WriteBundle(w) \/ Crash(w)
          PROVE  Listed'
        <3>1. CASE Open(w) \/ Remove(w)
            BY <2>1, <2>2, <3>1 DEF Open, Remove, removing
        <3>2. CASE ~(Open(w) \/ Remove(w))
            BY <2>1, <2>3, <3>2 DEF WriteBundle, Check, RemoveDirectory, Stage, Write, WriteFails,
                                    Rename, Cleanup, Crash, removing
        <3> QED BY <3>1, <3>2
    <2>4. LoadSuite \/ Edit \/ UNCHANGED vars => listing' = listing
        BY DEF LoadSuite, BeginLoad, ReadFile, ValidateProvenance, Edit, vars, removing
    <2> QED BY <2>1, <2>3, <2>4 DEF Next, Step
<1> QED BY <1>1, <1>2, PTL DEF Spec

-----------------------------------------------------------------------------
(* Theorems.                                                               *)

\* A load that accepts has read one bundle for the runner's commit, which stood whole
\* at the path during the load unless files were edited (load_fixture_suite beside
\* write_bundle).
THEOREM AtomicLoads == Spec => []LoadsAreAtomic
<1>1. ASSUME Loading, load.at = "accepted"
      PROVE  \E b \in Bundles :
               /\ Commit[b] = RunnerCommit
               /\ \A n \in Payloads : load.seen[n] = Payload[b][n]
               /\ edits = 0 => b \in witnessed
    <2>1. PICK b \in Bundles : load.seen["provenance.json"] = Provenance(b)
                              /\ (edits = 0 => b \in witnessed)
        BY <1>1 DEF Loading, Bound
    <2>2. Provenance(b).commit = RunnerCommit /\ Binds(Provenance(b), load.seen)
        BY <1>1, <2>1 DEF Loading, Valid, Binds
    <2>3. Provenance(b).commit = Commit[b] /\ Provenance(b).payload = Payload[b]
        BY DEF Provenance
    <2>4. Commit[b] = RunnerCommit /\ \A n \in Payloads : load.seen[n] = Payload[b][n]
        BY <2>2, <2>3 DEF Binds
    <2> QED BY <2>1, <2>4
<1>2. Loading => LoadsAreAtomic
    BY <1>1 DEF LoadsAreAtomic
<1> QED BY <1>2, Invariant, PTL

\* What a capture published is whole unless a forced capture is removing it or it was
\* edited (the staging directory and the rename in write_bundle).
THEOREM WholeBundles == Spec => []PublishedBundlesAreWhole
<1>1. ASSUME Store PROVE PublishedBundlesAreWhole
    <2> SUFFICES ASSUME output \in Captures, edits = 0, ~ \E w \in force : victim[w] = output
                 PROVE  files[output] = Whole(output)
        BY DEF PublishedBundlesAreWhole
    <2>1. DOMAIN files[output] = Files
        BY <1>1 DEF Store, Settled, Filled
    <2> QED BY <1>1, <2>1, IsWhole, Outside DEF Store, Typed, Genuine
<1> QED BY <1>1, Invariant, PTL

\* A capture that ended by itself has removed or renamed its temporary directory,
\* unless the file system kept it, and no directory that is left is what the path
\* names (the rename and the exception handler of write_bundle).
THEOREM NoTemporaryLeft == Spec => []NothingLeftBehind
<1>1. Store => NothingLeftBehind
    BY DEF Store, Settled, Temporary, NothingLeftBehind
<1> QED BY <1>1, Invariant, PTL

\* Only a step of a forced capture's removal takes away or changes what the path names,
\* edits apart (the check and the rename in write_bundle).
THEOREM OutputPreserved == Spec => PreservedUnlessForced
<1> DEFINE Changed == /\ Occupied /\ edits' = edits
                      /\ \/ output' # output
                         \/ output \in Bundles /\ files'[output] # files[output]
           Kept == Changed => \E w \in force : pc[w] \in {"open", "remove"} /\ Steps(w)
<1>1. ASSUME Store, Listed, [Next]_vars PROVE Kept
    <2> SUFFICES ASSUME Changed
                 PROVE  \E w \in force : pc[w] \in {"open", "remove"} /\ Steps(w)
        OBVIOUS
    <2>1. ~(UNCHANGED disk) /\ edits \in Nat /\ edits' # edits + 1
        BY <1>1 DEF disk, Store, Typed
    <2>2. PICK w \in Captures : WriteBundle(w) \/ Crash(w)
        BY <1>1, <2>1 DEF Next, Step, vars, Edit, LoadSuite, BeginLoad, ReadFile, ValidateProvenance
    <2>3. ~(Check(w) \/ Stage(w) \/ WriteFails(w) \/ Crash(w))
        BY <2>1 DEF Check, Stage, WriteFails, Crash
    <2>4. CASE Open(w) \/ Remove(w) \/ RemoveDirectory(w)
        <3>1. pc[w] \in {"open", "remove"} /\ w \in force
            BY <1>1, <2>4 DEF Open, Remove, RemoveDirectory, Store, Forced
        <3>2. Steps(w)
            <4>1. CASE Open(w) \/ RemoveDirectory(w)
                <5>1. pc'[w] # pc[w]
                    BY <1>1, <4>1 DEF Open, RemoveDirectory, Goto, Store, Typed
                <5> QED BY <5>1 DEF Steps
            <4>2. CASE Remove(w)
                <5>1. listing'[w] # listing[w]
                    BY <1>1, <4>2 DEF Remove, Listed
                <5> QED BY <5>1 DEF Steps
            <4> QED BY <2>4, <4>1, <4>2
        <3> QED BY <3>1, <3>2
    <2>5. ~(Write(w) \/ Cleanup(w))
        <3> SUFFICES ASSUME Write(w) \/ Cleanup(w) PROVE FALSE
            OBVIOUS
        <3>1. output' = output /\ output # w
            BY <1>1 DEF Write, Cleanup, Store, Settled
        <3> QED BY <1>1, <3>1 DEF Write, Cleanup, Store, Typed
    <2>6. ~Rename(w)
        <3>1. ~(output = Nowhere \/ (output \in Bundles /\ files[output] = Empty))
            BY Outside DEF Occupied, Nowhere, PlainFile
        <3> QED BY <2>1, <3>1 DEF Rename, disk
    <2> QED BY <2>2, <2>3, <2>4, <2>5, <2>6 DEF WriteBundle
<1>2. Store /\ Listed /\ [Next]_vars => [Kept]_vars
    BY <1>1
<1> QED BY <1>2, Invariant, ListedInvariant, PTL DEF Spec, PreservedUnlessForced
=============================================================================
