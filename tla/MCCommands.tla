----------------------------- MODULE MCCommands -----------------------------
(***************************************************************************)
(* CommandLine for TLC: every short command line on a good bundle, and     *)
(* `verify suite` on every bundle that departs from it in one section.     *)
(***************************************************************************)
EXTENDS CommandLine

MCModes == {"dual-hot", "interpreter-hot"}
MCRepetitions == {"2", "50"}
MCLibraryFlags ==
  [takesValue |-> {"--benchmark_out", "--benchmark_out_format", "--benchmark_repetitions",
                   "--benchmark_filter", "--benchmark_min_time"},
   noValue |-> {"--benchmark_enable_random_interleaving", "--benchmark_report_aggregates_only"}]
MCSelected(filter) == filter # "nothing"

-----------------------------------------------------------------------------
(* Command lines.                                                          *)

\* Up to MaxVerify words after verify and smoke.  For run, any MaxWords words, or up
\* to MaxTurns options with their values and up to MaxFlags words after "--".
CONSTANTS MaxVerify, MaxWords, MaxTurns, MaxFlags

VerifyWords == {Word("--help"), Word("--execution-env"), Word("MONAD_TEN"), Word("OTHER")}
RunWords == {Word("--output"), Word("out"), Word("--"), Word("--help"), Word("--repetitions"), Word("2")}

Turns ==
  {<<Word("--output"), Word("out")>>, <<Word("--output"), Word("")>>, <<Word("--output"), Word("--")>>,
   <<Word("--filter"), Word("nothing")>>, <<Word("--filter"), Word("c*")>>,
   <<Word("--mode"), Word("interpreter-hot")>>, <<Word("--mode"), Word("2")>>,
   <<Word("--repetitions"), Word("2")>>, <<Word("--repetitions"), Word("0")>>,
   <<Word("--execution-env"), Word("MONAD_TEN")>>, <<Word("--execution-env"), Word("OTHER")>>}
Flags ==
  {<<"--benchmark_out", "=x">>, <<"--benchmark_min_time", "=1">>, Word("--help"), Word("--other"),
   Word("--benchmark_enable_random_interleaving"), Word("--benchmark_report_aggregates_only")}

SeqsUpTo(S, n) == UNION {[1 .. k -> S] : k \in 0 .. n}

Lines ==
  {<< >>, <<Word("--version")>>, <<Word("other")>>, <<Word("run"), Word("--help")>>}
  \cup {<<Word(c)>> \o tail : c \in {"verify", "smoke"}, tail \in SeqsUpTo(VerifyWords, MaxVerify)}
  \cup {<<Word("run"), Word("suite")>> \o tail : tail \in SeqsUpTo(RunWords, MaxWords)}
  \cup {<<Word("run"), Word("suite")>> \o FlattenSeq(turns) \o flags :
           turns \in SeqsUpTo(Turns, MaxTurns),
           flags \in {<< >>} \cup {<<Word("--")>> \o fs : fs \in SeqsUpTo(Flags, MaxFlags)}}

-----------------------------------------------------------------------------
(* Scalars and the other ways to write one.                                *)

Spelled(prefix, size, n) ==
  [type |-> "string", prefix |-> prefix, digits |-> "hex", size |-> size, value |-> n]
Hex(n) == Spelled(TRUE, 1, n)
Addr(n) == Spelled(TRUE, 2 * AddressBytes, n)
Hash(n) == Spelled(TRUE, 2 * HashBytes, n)
Blob(n) == Spelled(TRUE, 2, n)
Dec(n) == [Hex(n) EXCEPT !.prefix = FALSE, !.digits = "decimal"]
Num(n) == [Dec(n) EXCEPT !.type = "unsigned"]

\* Absent, no text, with or without 0x, no digits at all, one digit more, none.
Variants(v) ==
  {v} \cup {[v EXCEPT !.type = t] : t \in {"missing", "other"}}
  \cup {[v EXCEPT !.prefix = ~@], [v EXCEPT !.digits = "other"], [v EXCEPT !.size = @ + 1],
        [v EXCEPT !.size = 0, !.digits = "decimal", !.value = 0]}

\* A record with one of its scalar fields written in another way.
Rewritten(r, fields) == UNION {{[r EXCEPT ![f] = v] : v \in Variants(r[f])} : f \in fields}

-----------------------------------------------------------------------------
(* Bundles.                                                                *)

File == [size |-> 1, found |-> 1, compressed |-> FALSE, declared |-> Undeclared, content |-> 1,
         json |-> TRUE]
Compressed == [File EXCEPT !.compressed = TRUE, !.declared = 1]
Files == {File, Compressed}
  \cup {[File EXCEPT !.size = s] : s \in {Undeclared, 0, MaxFile + 1}}
  \cup {[File EXCEPT !.size = MaxFile + 1, !.found = MaxFile + 1], [File EXCEPT !.json = FALSE],
        [File EXCEPT !.found = 2], [File EXCEPT !.found = 0]}
  \cup {[Compressed EXCEPT !.declared = n] : n \in {Undeclared, 0, MaxFile + 1}}

H(number, hash) == [number |-> number, hash |-> Hash(hash)]
Slot(key, value) == [key |-> key, value |-> value]
Slots == {<<Slot(k, v)>> : k \in Variants(Hash(1)), v \in Variants(Hash(2))}
Account(address, code) ==
  [address |-> Addr(address), balance |-> Num(1), nonce |-> Hex(0), code |-> Blob(code),
   storage |-> <<Slot(Hash(1), Hash(2))>>, codeHash |-> Hash(code)]

Plain ==
  [name |-> "c1", from |-> Addr(1), to |-> Addr(2), input |-> Blob(1), value |-> Hex(0),
   gas |-> Num(MaxInt64), gasPrice |-> {}, accessList |-> {}, status |-> "success",
   output |-> Blob(1), gasUsed |-> Hex(1), logs |-> {}, state |-> {}, metadata |-> {}]
Other == [Plain EXCEPT !.name = "c2"]

Good ==
  [directory |-> TRUE,
   manifest |->
     [file |-> File, schema |-> FixtureSchema, chainId |-> Num(1), env |-> "MONAD_TEN",
      number |-> Hex(2), hash |-> Hash(2), parentHash |-> Hash(1), timestamp |-> Hex(1),
      gasLimit |-> Hex(1), baseFee |-> Hex(0), beneficiary |-> Addr(0), prevRandao |-> Hash(0),
      hashes |-> <<H(Dec(0), 0)>>, statePath |-> "inside", casesPath |-> "inside"],
   state |-> [file |-> Compressed, accounts |-> <<Account(1, 1)>>, absent |-> <<Addr(2)>>],
   cases |-> [file |-> File, list |-> <<Plain>>],
   payloads |-> [manifest |-> "M", cases |-> "C", state |-> "S"] @@ ("state file" :> "Z"),
   provenance |->
     [file |-> File, schema |-> ProvenanceSchema, createdAt |-> "2026", commit |-> RunnerCommit,
      chainId |-> Dec(1), number |-> Dec(2), hash |-> Hash(2), env |-> "MONAD_TEN",
      tool |-> "t", version |-> "v",
      files |-> [manifest |-> "M", cases |-> "C"] @@ ("state file" :> "Z"),
      normalized |-> [manifest |-> "M", cases |-> "C", state |-> "S"],
      bundle |-> <<"M", "C", "S">>]]

\* The provenance stays bound to a manifest that changes.
WithManifest(m) ==
  [Good EXCEPT !.manifest = m, !.provenance.chainId = m.chainId, !.provenance.number = m.number,
               !.provenance.hash = m.hash, !.provenance.env = m.env]

BadFiles ==
  {[Good EXCEPT !.directory = FALSE]}
  \cup {[Good EXCEPT !.manifest.file = f] : f \in Files} \cup {[Good EXCEPT !.state.file = f] : f \in Files}
  \cup {[Good EXCEPT !.cases.file = f] : f \in Files} \cup {[Good EXCEPT !.provenance.file = f] : f \in Files}
  \cup {[Good EXCEPT !.manifest.statePath = "outside"], [Good EXCEPT !.manifest.casesPath = "outside"]}

\* Up to two entries of blockHashes, the parent's number spelled in two ways.
Manifests ==
  {WithManifest([Good.manifest EXCEPT !.number = Hex(n), !.hashes = hs]) :
     n \in 0 .. 2, hs \in SeqsUpTo({H(n, h) : n \in {Dec(0), Dec(1), Hex(1)}, h \in 0 .. 1}, 2)}
  \cup {WithManifest([Good.manifest EXCEPT !.hashes = <<e>>]) :
          e \in Rewritten(H(Dec(0), 0), {"number", "hash"})}
  \cup {WithManifest(m) :
          m \in Rewritten(Good.manifest,
                 {"chainId", "number", "hash", "parentHash", "timestamp", "gasLimit", "baseFee",
                  "beneficiary", "prevRandao"})}
  \cup {WithManifest([Good.manifest EXCEPT ![f] = Hex(n)]) :
          f \in {"chainId", "number", "gasLimit", "baseFee"},
          n \in {MaxUint64, MaxUint64 + 1, MaxUint256, MaxUint256 + 1}}
  \cup {WithManifest([Good.manifest EXCEPT ![f] = s]) : f \in {"schema", "env"}, s \in {Malformed, "OTHER"}}

States ==
  {[Good EXCEPT !.state.accounts = as, !.state.absent = ab] :
     as \in SeqsUpTo({Account(1, 1), Account(2, 1), [Account(1, 1) EXCEPT !.codeHash = Hash(2)]}, 2),
     ab \in SeqsUpTo({Addr(1), Addr(2)}, 2)}
  \cup {[Good EXCEPT !.state.accounts = <<a>>] :
          a \in Rewritten(Account(1, 1), {"address", "balance", "nonce", "code", "codeHash"})}
  \cup {[Good EXCEPT !.state.accounts = <<[Account(1, 1) EXCEPT !.storage = s]>>] : s \in Slots}
  \cup {[Good EXCEPT !.state.absent = <<v>>] : v \in Variants(Addr(2))}

Messages ==
  Rewritten(Other, {"from", "to", "input", "value", "gas", "output", "gasUsed"})
  \cup {[Other EXCEPT !.gas = Hex(g), !.gasUsed = Hex(u)] :
          g \in {0, 1, MaxInt64, MaxInt64 + 1, MaxUint64 + 1},
          u \in {0, 1, MaxInt64, MaxUint64, MaxUint64 + 1}}
  \cup {[Other EXCEPT !.gasPrice = {p}] : p \in Variants(Hex(1))}
  \cup {[Other EXCEPT !.accessList = {<<e>>}] :
          e \in {[address |-> a, storageKeys |-> <<k>>] : a \in Variants(Addr(1)), k \in Variants(Hash(1))}}

Expectations ==
  {[Other EXCEPT !.status = s] : s \in {"revert", "failure", Malformed}}
  \cup {[Other EXCEPT !.logs = {<<e>>}] :
          e \in {[address |-> Addr(1), data |-> d, topics |-> <<t>>] :
                   d \in Variants(Blob(1)), t \in Variants(Hash(1))}}
  \cup {[Other EXCEPT !.state = {e}] :
          e \in [address : {Addr(1), Blob(1), Hex(1)}, balance : {{}, {Hex(1)}, {Hex(MaxUint256 + 1)}},
                 nonce : {{}, {Dec(1)}, {Hex(MaxUint64 + 1)}}, code : {{}, {Blob(1)}, {Hex(1)}},
                 storage : {<< >>, <<Slot(Hash(1), Hash(2))>>, <<Slot(Hex(1), Hash(2))>>}]}

Label(key, text) == {{[key |-> key, text |-> text]}}
CounterEntries ==
  {[key |-> k, value |-> v] :
     k \in {"n", "0k", "log_count"}, v \in Variants(Dec(1)) \cup {Num(1), Dec(MaxUint256 + 1)}}
Metadata ==
  {[Other EXCEPT !.metadata = {m}] :
     m \in [labels : {{}, {{}}, Label("k1", "text"), Label("0k", "text"), Label("k1", Malformed)},
            counters : {{}, {{}}} \cup {{{e}} : e \in CounterEntries}, unknown : BOOLEAN]}

CaseTexts ==
  {[Plain EXCEPT !.name = n] : n \in {"", "c1", "c2", Malformed}} \cup Messages \cup Expectations \cup Metadata

\* Before, after and without a plain case.
CaseLists ==
  {[Good EXCEPT !.cases.list = << >>]}
  \cup UNION {{[Good EXCEPT !.cases.list = <<c>>], [Good EXCEPT !.cases.list = <<c, Plain>>],
               [Good EXCEPT !.cases.list = <<Plain, c>>]} : c \in CaseTexts}

Provenances ==
  {[Good EXCEPT !.provenance[f] = "other"] : f \in {"schema", "commit", "env"}}
  \cup {[Good EXCEPT !.provenance[f] = s] : f \in {"createdAt", "tool", "version"}, s \in {"", Malformed}}
  \cup {[Good EXCEPT !.provenance = p] : p \in Rewritten(Good.provenance, {"chainId", "number", "hash"})}
  \cup {[Good EXCEPT !.provenance.chainId = Dec(2)], [Good EXCEPT !.provenance.number = Dec(1)],
        [Good EXCEPT !.provenance.hash = Hash(1)], [Good EXCEPT !.provenance.bundle = <<"M", "C", "Z">>]}
  \cup {[Good EXCEPT !.provenance.files[f] = "X"] : f \in DOMAIN Good.provenance.files}
  \cup {[Good EXCEPT !.provenance.normalized[f] = "X"] : f \in DOMAIN Good.provenance.normalized}
  \* a payload replaced after the capture
  \cup {[Good EXCEPT !.payloads[f] = "X"] : f \in Payloads}

Documents == BadFiles \cup Manifests \cup States \cup CaseLists \cup Provenances

-----------------------------------------------------------------------------
MCInit ==
  /\ \/ document = Good /\ argv \in Lines
     \/ document \in Documents /\ argv = <<Word("verify"), Word("suite")>>
  /\ CommandInit

MCSpec == MCInit /\ [][Next]_<<loader, command>>

=============================================================================
