------------------------------- MODULE Loader -------------------------------
(***************************************************************************)
(* load_fixture_suite of src/src/fixture.cpp: from the documents of a      *)
(* bundle to the suite the replay engine is given.                         *)
(*                                                                         *)
(* A document is what its JSON says.  A JSON scalar is a record: its type, *)
(* whether its text starts with 0x, which digits follow and how many, and  *)
(* the number they spell; one number has several spellings.  A string that *)
(* is only compared is itself, or Malformed if it is no string.  A field   *)
(* that may be absent is a set of at most one.  JSON objects are sequences *)
(* of entries in the order the parser visits them.  Each loop of the code  *)
(* is an action that takes one entry per turn; what throws in the code     *)
(* leads to "rejected".  A payload stands for its own hash.                *)
(***************************************************************************)
EXTENDS Integers, Sequences, SequencesExt

CONSTANTS
  Malformed,                        \* what is not a string
  MaxInt64, MaxUint64, MaxUint256,  \* the integer ranges, made small
  AddressBytes, HashBytes,          \* 20 and 32, made small
  MaxFile,                          \* max_fixture_file_size, made small
  RunnerCommit,                     \* MONAD_EXECBENCH_MONAD_COMMIT
  InvalidKeys                       \* keys that are no metadata names

ASSUME LoaderAssumption ==
  /\ MaxInt64 \in Nat \ {0} /\ MaxUint64 \in Nat /\ MaxUint256 \in Nat
  /\ MaxInt64 < MaxUint64 /\ MaxUint64 < MaxUint256
  /\ AddressBytes \in Nat \ {0} /\ HashBytes \in Nat \ {0} /\ AddressBytes < HashBytes
  /\ MaxFile \in Nat \ {0}

VARIABLES
  document,  \* [manifest, state, cases, provenance]: what the bundle says
  stage,     \* where load_fixture_suite is; "idle" before it is called
  next,      \* the next entry of the loop under way
  suite      \* the FixtureSuite built so far

loader == <<document, stage, next, suite>>

Undeclared == -1   \* a size that is not there to be read
FixtureSchema == "monad-execbench/v1"
ProvenanceSchema == "monad-execbench/provenance-v1"
Reserved == {"execution_gas", "return_data_bytes", "log_count"}

EmptySuite == [chain |-> 0, env |-> Malformed, number |-> 0, hash |-> 0,
               hashes |-> << >>, accounts |-> << >>, absent |-> << >>, cases |-> << >>]

Reject == stage' = "rejected" /\ next' = 1 /\ suite' = EmptySuite
Continue(to, built) == stage' = to /\ next' = 1 /\ suite' = built
Turn(built) == stage' = stage /\ next' = next + 1 /\ suite' = built
InLoop(loop, entries) == stage = loop /\ next <= Len(entries)
-----------------------------------------------------------------------------
(* Fields.                                                                 *)

\* A scalar v: v.type is "string", "unsigned", "other" or, for a field that is not
\* there, "missing"; v.digits is "decimal", "hex" or "other", v.size their number.

\* from_hex and from_chars read digits only; decimal digits are hex digits.
Digits(v) == IF v.prefix THEN v.digits \in {"decimal", "hex"} ELSE v.digits = "decimal"

FixedHex(v, bytes) == v.type = "string" /\ v.prefix /\ v.size = 2 * bytes /\ Digits(v)
Address(v) == FixedHex(v, AddressBytes)
Bytes32(v) == FixedHex(v, HashBytes)
Bytes(v) == v.type = "string" /\ v.prefix /\ v.size % 2 = 0 /\ (v.size > 0 => Digits(v))

\* JSON integers are unsigned 64-bit; a text is decimal or, after 0x, hexadecimal.
Uint64(v) ==
  \/ v.type = "unsigned"
  \/ v.type = "string" /\ v.size > 0 /\ Digits(v) /\ v.value <= MaxUint64

\* monad::from_string does the reading here.
Uint256(v) ==
  \/ v.type = "unsigned"
  \/ v.type = "string" /\ Digits(v) /\ v.value <= MaxUint256

MessageGas(v) == Uint64(v) /\ v.value <= MaxInt64

Storage(entries) == \A i \in DOMAIN entries : Bytes32(entries[i].key) /\ Bytes32(entries[i].value)

AccessList(entries) ==
  \A i \in DOMAIN entries :
    /\ Address(entries[i].address)
    /\ \A j \in DOMAIN entries[i].storageKeys : Bytes32(entries[i].storageKeys[j])

Logs(entries) ==
  \A i \in DOMAIN entries :
    /\ Address(entries[i].address) /\ Bytes(entries[i].data)
    /\ \A j \in DOMAIN entries[i].topics : Bytes32(entries[i].topics[j])

-----------------------------------------------------------------------------
(* Files.                                                                  *)

\* read_json.  The size is asked for first and must be what is then read; a
\* compressed payload must declare its size and decompress to it.
Reads(file) ==
  /\ file.size \in 0 .. MaxFile /\ file.found = file.size
  /\ file.compressed => file.declared \in 0 .. MaxFile /\ file.content = file.declared
  /\ file.json

\* referenced_file: the path stays in the suite's directory.
Inside(path) == path = "inside"

-----------------------------------------------------------------------------
(* The manifest.                                                           *)

\* Block number - 1 has the parent's hash; block 0 has no parent.
ParentHashes(m) ==
  IF m.number.value > 0 THEN <<[number |-> m.number.value - 1, hash |-> m.parentHash.value]>>
  ELSE << >>

\* The header's other fields.
HeaderParses(m) ==
  /\ Uint64(m.timestamp) /\ Uint64(m.gasLimit) /\ Uint256(m.baseFee)
  /\ Address(m.beneficiary) /\ Bytes32(m.prevRandao)

ReadManifest ==
  /\ stage = "manifest"
  /\ LET m == document.manifest IN
     IF /\ document.directory /\ Reads(m.file) /\ m.schema = FixtureSchema
        /\ Uint256(m.chainId) /\ m.env # Malformed
        /\ Uint64(m.number) /\ Bytes32(m.hash) /\ Bytes32(m.parentHash) /\ HeaderParses(m)
     THEN Continue("hashes", [EmptySuite EXCEPT !.chain = m.chainId.value, !.env = m.env,
                                !.number = m.number.value, !.hash = m.hash.value,
                                !.hashes = ParentHashes(m)])
     ELSE Reject
  /\ UNCHANGED document

BlockHashes == document.manifest.hashes
Meaning(entry) == [number |-> entry.number.value, hash |-> entry.hash.value]
Known(number) == {h \in Range(suite.hashes) : h.number = number}

\* Seeded fault: a number that is known already is skipped, whatever its hash.
FaultyAddBlockHash ==
  /\ InLoop("hashes", BlockHashes)
  /\ LET entry == BlockHashes[next] IN
     IF ~(Uint64(entry.number) /\ Bytes32(entry.hash)) THEN Reject
     ELSE IF Known(entry.number.value) = {}
          THEN Turn([suite EXCEPT !.hashes = Append(@, Meaning(entry))])
     ELSE Turn(suite)
  /\ UNCHANGED document

\* One entry of blockHashes.
AddBlockHash ==
  /\ InLoop("hashes", BlockHashes)
  /\ LET entry == BlockHashes[next]  known == Known(entry.number.value) IN
     IF ~(Uint64(entry.number) /\ Bytes32(entry.hash)) THEN Reject
     ELSE IF known = {} THEN Turn([suite EXCEPT !.hashes = Append(@, Meaning(entry))])
     ELSE IF Meaning(entry) \in known THEN Turn(suite)
     ELSE Reject
  /\ UNCHANGED document

-----------------------------------------------------------------------------
(* The state.                                                              *)

ReadState ==
  /\ stage = "hashes" /\ next > Len(BlockHashes)
  /\ IF Inside(document.manifest.statePath) /\ Reads(document.state.file)
     THEN Continue("accounts", suite)
     ELSE Reject
  /\ UNCHANGED document

Accounts == document.state.accounts

\* A code is its own hash.
AccountParses(a) ==
  /\ Address(a.address) /\ Uint256(a.balance) /\ Uint64(a.nonce)
  /\ Bytes(a.code) /\ Storage(a.storage)
  /\ Bytes32(a.codeHash)

\* One account: codeHash is checked against its code.
AddAccount ==
  /\ InLoop("accounts", Accounts)
  /\ LET a == Accounts[next] IN
     IF AccountParses(a) /\ a.codeHash.value = a.code.value
     THEN Turn([suite EXCEPT !.accounts = Append(@, a.address.value)])
     ELSE Reject
  /\ UNCHANGED document

FinishAccounts ==
  /\ stage = "accounts" /\ next > Len(Accounts)
  /\ Continue("absent", suite)
  /\ UNCHANGED document

Absent == document.state.absent

\* Seeded fault: the list is compared with itself, not with the accounts.
FaultyAddAbsent ==
  /\ InLoop("absent", Absent)
  /\ IF Address(Absent[next]) /\ Absent[next].value \notin Range(suite.absent)
     THEN Turn([suite EXCEPT !.absent = Append(@, Absent[next].value)])
     ELSE Reject
  /\ UNCHANGED document

\* One absent account, which must not be present.
AddAbsent ==
  /\ InLoop("absent", Absent)
  /\ IF Address(Absent[next]) /\ Absent[next].value \notin Range(suite.accounts)
     THEN Turn([suite EXCEPT !.absent = Append(@, Absent[next].value)])
     ELSE Reject
  /\ UNCHANGED document

-----------------------------------------------------------------------------
(* The cases.                                                              *)

ReadCases ==
  /\ stage = "absent" /\ next > Len(Absent)
  /\ IF /\ Inside(document.manifest.casesPath) /\ Reads(document.cases.file)
        /\ document.cases.list # << >>
     THEN Continue("cases", suite)
     ELSE Reject
  /\ UNCHANGED document

\* expected_state: every account listed asserts something; an empty storage
\* object asserts nothing.
ExpectedAccount(e) ==
  /\ Address(e.address)
  /\ \A v \in e.balance : Uint256(v)
  /\ \A v \in e.nonce : Uint64(v)
  /\ \A v \in e.code : Bytes(v)
  /\ Storage(e.storage)
  /\ e.balance # {} \/ e.nonce # {} \/ e.code # {} \/ e.storage # << >>

ValidKey(key) == key \notin InvalidKeys

Labels(labels) ==
  labels # {} /\ \A label \in labels : ValidKey(label.key) /\ label.text # Malformed

\* A counter is a JSON integer or decimal digits that fit 256 bits; every such
\* number is a finite double.
Counter(counter) ==
  LET v == counter.value IN
  /\ ValidKey(counter.key) /\ counter.key \notin Reserved
  /\ \/ v.type = "unsigned"
     \/ v.type = "string" /\ ~v.prefix /\ v.size > 0 /\ v.digits = "decimal"
  /\ Uint256(v)

\* metadata: labels and counters are each absent or not empty, not both are absent,
\* and there is nothing else.
ValidMetadata(m) ==
  /\ \A labels \in m.labels : Labels(labels)
  /\ \A counters \in m.counters : counters # {} /\ \A counter \in counters : Counter(counter)
  /\ m.labels # {} \/ m.counters # {}
  /\ ~m.unknown

MessageParses(c) ==
  /\ Address(c.from) /\ Address(c.to) /\ Bytes(c.input) /\ Uint256(c.value)
  /\ MessageGas(c.gas)
  /\ \A price \in c.gasPrice : Uint256(price)
  /\ \A entries \in c.accessList : AccessList(entries)

ExpectedParses(c) ==
  /\ c.status # Malformed /\ Bytes(c.output) /\ Uint64(c.gasUsed)
  /\ \A entries \in c.logs : Logs(entries)
  /\ \A e \in c.state : ExpectedAccount(e)

\* What the loop refuses of one case.
WellFormed(c) ==
  /\ c.name # Malformed /\ MessageParses(c) /\ ExpectedParses(c)
  /\ \A m \in c.metadata : ValidMetadata(m)
  /\ c.name # ""
  /\ c.gas.value \in 1 .. MaxInt64 /\ c.gasUsed.value <= c.gas.value
  /\ c.status \in {"success", "revert"}

Cases == document.cases.list
Named(name) == {c \in Range(suite.cases) : c.name = name}

\* One case; names are unique.
AddCase ==
  /\ InLoop("cases", Cases)
  /\ LET c == Cases[next] IN
     IF WellFormed(c) /\ Named(c.name) = {}
     THEN Turn([suite EXCEPT !.cases = Append(@, c)])
     ELSE Reject
  /\ UNCHANGED document

-----------------------------------------------------------------------------
(* The provenance.                                                         *)

\* What validate_provenance hashes: the files as read, and the state as decoded.
Payloads == {"manifest", "cases", "state file", "state"}
HashOf(p) == document.payloads[p]

\* validate_provenance.  The bundle's digest covers the manifest's, the cases'
\* and the decoded state's.
Binds(p) ==
  /\ p.schema = ProvenanceSchema /\ p.createdAt \notin {Malformed, ""} /\ p.commit = RunnerCommit
  /\ Uint256(p.chainId) /\ p.chainId.value = suite.chain
  /\ Uint64(p.number) /\ p.number.value = suite.number
  /\ Bytes32(p.hash) /\ p.hash.value = suite.hash
  /\ p.env = suite.env
  /\ p.tool \notin {Malformed, ""} /\ p.version \notin {Malformed, ""}
  /\ \A f \in {"manifest", "cases", "state file"} : p.files[f] = HashOf(f)
  /\ \A f \in {"manifest", "cases", "state"} : p.normalized[f] = HashOf(f)
  /\ p.bundle = <<HashOf("manifest"), HashOf("cases"), HashOf("state")>>

ReadProvenance ==
  /\ stage = "cases" /\ next > Len(Cases)
  /\ IF Reads(document.provenance.file) /\ Binds(document.provenance)
     THEN Continue("loaded", suite)
     ELSE Reject
  /\ UNCHANGED document

LoadFixtureSuite ==
  \/ ReadManifest \/ AddBlockHash
  \/ ReadState \/ AddAccount \/ FinishAccounts \/ AddAbsent
  \/ ReadCases \/ AddCase
  \/ ReadProvenance

\* The parser returns finite arrays and objects; a block number is not negative.
Listed(s) == s \in Seq(Range(s))
Parsed(d) ==
  /\ Listed(d.manifest.hashes) /\ Listed(d.state.accounts) /\ Listed(d.state.absent)
  /\ Listed(d.cases.list) /\ d.manifest.number.value \in Nat

LoaderInit == Parsed(document) /\ stage = "idle" /\ next = 1 /\ suite = EmptySuite

-----------------------------------------------------------------------------
(* What docs/fixture-format.md asks of a bundle, said without an order.    *)

\* Everything the manifest states about block hashes, however it is spelled.
StatedHashes(m) ==
  {Meaning(e) : e \in Range(m.hashes)}
    \cup {[number |-> n - 1, hash |-> m.parentHash.value] : n \in {m.number.value} \ {0}}

Unambiguous(stated) == \A p, q \in stated : p.number = q.number => p = q

SoundFiles(d) ==
  /\ d.directory /\ Inside(d.manifest.statePath) /\ Inside(d.manifest.casesPath)
  /\ \A file \in {d.manifest.file, d.state.file, d.cases.file, d.provenance.file} : Reads(file)

SoundManifest(m) ==
  /\ m.schema = FixtureSchema /\ m.env # Malformed /\ HeaderParses(m)
  /\ Uint256(m.chainId) /\ Uint64(m.number) /\ Bytes32(m.hash) /\ Bytes32(m.parentHash)
  /\ \A e \in Range(m.hashes) : Uint64(e.number) /\ Bytes32(e.hash)
  /\ Unambiguous(StatedHashes(m))

SoundState(s) ==
  /\ \A a \in Range(s.accounts) : AccountParses(a) /\ a.codeHash.value = a.code.value
  /\ \A b \in Range(s.absent) :
       Address(b) /\ \A a \in Range(s.accounts) : a.address.value # b.value

SoundCases(cases) ==
  /\ cases # << >>
  /\ \A c \in Range(cases) : WellFormed(c)
  /\ \A i, j \in DOMAIN cases : cases[i].name = cases[j].name => i = j

SoundProvenance(d) ==
  LET p == d.provenance  m == d.manifest IN
  /\ p.schema = ProvenanceSchema /\ p.commit = RunnerCommit
  /\ {"", Malformed} \cap {p.createdAt, p.tool, p.version} = {}
  /\ Uint256(p.chainId) /\ Uint64(p.number) /\ Bytes32(p.hash)
  /\ p.chainId.value = m.chainId.value /\ p.number.value = m.number.value
  /\ p.hash.value = m.hash.value /\ p.env = m.env
  /\ \A f \in Payloads \ {"state"} : p.files[f] = d.payloads[f]
  /\ \A f \in Payloads \ {"state file"} : p.normalized[f] = d.payloads[f]
  /\ p.bundle = <<d.payloads["manifest"], d.payloads["cases"], d.payloads["state"]>>

Valid(d) ==
  /\ SoundFiles(d) /\ SoundManifest(d.manifest) /\ SoundState(d.state)
  /\ SoundCases(d.cases.list) /\ SoundProvenance(d)

\* The parts of a suite that a reader of the document expects.
Means(d) ==
  /\ suite.cases = d.cases.list
  /\ Range(suite.accounts) = {a.address.value : a \in Range(d.state.accounts)}
  /\ Range(suite.absent) = {b.value : b \in Range(d.state.absent)}

-----------------------------------------------------------------------------
(* Properties.                                                             *)

\* A bundle is loaded exactly if all of it is valid, whatever order its parts
\* are looked at, and the suite then holds what it says ("A modified, partially
\* replaced, or differently pinned fixture is rejected before execution",
\* docs/fixture-format.md:179-180).
AcceptsExactlyTheValid ==
  /\ stage = "loaded" => Valid(document) /\ Means(document)
  /\ stage = "rejected" => ~Valid(document)

\* FixtureBlockHashBuffer::get: the first entry with the number.
Answer(number) == SelectInSeq(suite.hashes, LAMBDA e : e.number = number)

\* The lookups of the replay engine are unambiguous in a loaded suite.
\* BLOCKHASH finds for each number the one hash the manifest states, the parent's
\* for the last block; an account is never both captured and absent, and a case
\* is found by its name (fixture.cpp:717-743, 790-800, 910-918).
LookupsAreUnambiguous ==
  stage = "loaded" =>
    /\ \A stated \in StatedHashes(document.manifest) :
         Answer(stated.number) # 0 /\ suite.hashes[Answer(stated.number)] = stated
    /\ \A i, j \in DOMAIN suite.hashes : suite.hashes[i].number = suite.hashes[j].number => i = j
    /\ Range(suite.accounts) \cap Range(suite.absent) = {}
    /\ \A i, j \in DOMAIN suite.cases : suite.cases[i].name = suite.cases[j].name => i = j

=============================================================================
