---------------------------- MODULE LoaderProofs ----------------------------
(***************************************************************************)
(* That load_fixture_suite, one entry at a time, accepts exactly the valid *)
(* bundles, that what the replay engine looks up in an accepted suite is   *)
(* unambiguous, that what is measured is what the command line says, and   *)
(* that exit status 0 means what it should: for every bundle, every        *)
(* command line and all sizes.                                             *)
(***************************************************************************)
EXTENDS CommandLine, SequenceTheorems, TLAPS

-----------------------------------------------------------------------------
(* Sequences and suites.                                                   *)

\* What a sequence holds after an entry is added.
LEMMA RangeOfAppend ==
    ASSUME NEW s, Listed(s), NEW e
    PROVE  /\ Listed(Append(s, e))
           /\ Range(Append(s, e)) = Range(s) \cup {e}
           /\ Len(Append(s, e)) = Len(s) + 1
           /\ \A i \in 1 .. Len(s) : Append(s, e)[i] = s[i]
           /\ Append(s, e)[Len(s) + 1] = e
<1> DEFINE t == Append(s, e)  R == Range(s) \cup {e}
<1>1. s \in Seq(R) /\ e \in R
    BY DEF Listed
<1>2. t \in Seq(R) /\ Len(t) = Len(s) + 1
    BY <1>1
<1>3. \A i \in 1 .. Len(s) : t[i] = s[i]
    BY <1>1
<1>4. t[Len(s) + 1] = e
    BY <1>1
<1>5. DOMAIN s = 1 .. Len(s) /\ DOMAIN t = 1 .. Len(s) + 1 /\ Len(s) \in Nat
    BY <1>1, <1>2
<1>6. Range(t) = R
    BY <1>3, <1>4, <1>5 DEF Range
<1> QED BY <1>2, <1>3, <1>4, <1>6 DEF Listed

IsSuite(s) ==
    s = [chain |-> s.chain, env |-> s.env, number |-> s.number, hash |-> s.hash,
         hashes |-> s.hashes, accounts |-> s.accounts, absent |-> s.absent, cases |-> s.cases]

\* The empty list.
LEMMA EmptyList == Listed(<< >>) /\ Range(<< >>) = {}
BY DEF Listed, Range

-----------------------------------------------------------------------------
(* The invariant.                                                          *)

\* The manifest's part, without its block hashes.
ManifestRead ==
    LET m == document.manifest IN
    /\ document.directory /\ Reads(m.file) /\ m.schema = FixtureSchema
    /\ Uint256(m.chainId) /\ m.env # Malformed
    /\ Uint64(m.number) /\ Bytes32(m.hash) /\ Bytes32(m.parentHash) /\ HeaderParses(m)
    /\ suite.chain = m.chainId.value /\ suite.env = m.env
    /\ suite.number = m.number.value /\ suite.hash = m.hash.value

\* After n entries of blockHashes the list is what they and the parent say, and
\* has each number once.
HashesTo(n) ==
    /\ \A i \in 1 .. n : Uint64(BlockHashes[i].number) /\ Bytes32(BlockHashes[i].hash)
    /\ Listed(suite.hashes)
    /\ Range(suite.hashes) =
         {Meaning(BlockHashes[i]) : i \in 1 .. n} \cup Range(ParentHashes(document.manifest))
    /\ \A i, j \in DOMAIN suite.hashes : suite.hashes[i].number = suite.hashes[j].number => i = j

StateRead == Inside(document.manifest.statePath) /\ Reads(document.state.file)

AccountsTo(n) ==
    /\ \A i \in 1 .. n : AccountParses(Accounts[i]) /\ Accounts[i].codeHash.value = Accounts[i].code.value
    /\ Listed(suite.accounts)
    /\ Range(suite.accounts) = {Accounts[i].address.value : i \in 1 .. n}

AbsentTo(n) ==
    /\ \A i \in 1 .. n : Address(Absent[i]) /\ Absent[i].value \notin Range(suite.accounts)
    /\ Listed(suite.absent)
    /\ Range(suite.absent) = {Absent[i].value : i \in 1 .. n}

CasesRead ==
    /\ Inside(document.manifest.casesPath) /\ Reads(document.cases.file)
    /\ Cases # << >>

CasesTo(n) ==
    /\ \A i \in 1 .. n : WellFormed(Cases[i])
    /\ \A i, j \in 1 .. n : Cases[i].name = Cases[j].name => i = j
    /\ Listed(suite.cases) /\ Len(suite.cases) = n
    /\ \A i \in 1 .. n : suite.cases[i] = Cases[i]

Stages == {"idle", "manifest", "hashes", "accounts", "absent", "cases", "loaded", "rejected"}

\* What each stage knows.
IInv ==
    /\ Parsed(document) /\ IsSuite(suite) /\ stage \in Stages /\ next \in Nat \ {0}
    /\ stage \notin {"idle", "manifest", "rejected"} => ManifestRead
    /\ stage = "hashes" => next <= Len(BlockHashes) + 1 /\ HashesTo(next - 1)
    /\ stage \in {"accounts", "absent", "cases", "loaded"} => StateRead /\ HashesTo(Len(BlockHashes))
    /\ stage = "accounts" => next <= Len(Accounts) + 1 /\ AccountsTo(next - 1)
    /\ stage \in {"absent", "cases", "loaded"} => AccountsTo(Len(Accounts))
    /\ stage = "absent" => next <= Len(Absent) + 1 /\ AbsentTo(next - 1)
    /\ stage \in {"cases", "loaded"} => CasesRead /\ AbsentTo(Len(Absent))
    /\ stage = "cases" => next <= Len(Cases) + 1 /\ CasesTo(next - 1)
    /\ stage = "loaded" =>
         /\ CasesTo(Len(Cases))
         /\ Reads(document.provenance.file) /\ Binds(document.provenance)
    /\ stage \in {"hashes"} => suite.accounts = << >>
    /\ stage \in {"hashes", "accounts"} => suite.absent = << >>
    /\ stage \in {"hashes", "accounts", "absent"} => suite.cases = << >>
    /\ stage = "rejected" => ~Valid(document)

\* The initial state.
LEMMA InitInvariant == CommandInit => IInv
BY DEF CommandInit, LoaderInit, IInv, IsSuite, EmptySuite, Stages

\* The document's lists are lists.
LEMMA Lists ==
    ASSUME Parsed(document)
    PROVE  /\ Len(BlockHashes) \in Nat /\ DOMAIN BlockHashes = 1 .. Len(BlockHashes)
           /\ Len(Accounts) \in Nat /\ DOMAIN Accounts = 1 .. Len(Accounts)
           /\ Len(Absent) \in Nat /\ DOMAIN Absent = 1 .. Len(Absent)
           /\ Len(Cases) \in Nat /\ DOMAIN Cases = 1 .. Len(Cases)
BY DEF Parsed, Listed, BlockHashes, Accounts, Absent, Cases

\* The parent's entry.
LEMMA Parent ==
    ASSUME Parsed(document)
    PROVE  LET hashes == ParentHashes(document.manifest) IN
           /\ Listed(hashes)
           /\ \A i, j \in DOMAIN hashes : i = j
           /\ Range(hashes) = {[number |-> n - 1, hash |-> document.manifest.parentHash.value] :
                                 n \in {document.manifest.number.value} \ {0}}
<1> DEFINE m == document.manifest
<1>1. m.number.value \in Nat
    BY DEF Parsed
<1>2. CASE m.number.value = 0
    <2>1. ParentHashes(m) = << >>
        BY <1>2 DEF ParentHashes
    <2> QED BY <1>2, <2>1 DEF Listed, Range
<1>3. CASE m.number.value > 0
    <2>1. ParentHashes(m) = <<[number |-> m.number.value - 1, hash |-> m.parentHash.value]>>
        BY <1>3 DEF ParentHashes
    <2> QED BY <1>1, <1>3, <2>1 DEF Listed, Range
<1> QED BY <1>1, <1>2, <1>3

-----------------------------------------------------------------------------
(* The steps.                                                              *)

\* A rejection is right if the bundle is not valid.
LEMMA Rejection ==
    ASSUME IInv, Reject, UNCHANGED document, ~Valid(document)
    PROVE  IInv'
BY DEF IInv, Reject, Parsed, Valid, IsSuite, EmptySuite, Stages

\* The manifest.
LEMMA ReadManifestPreserves ==
    ASSUME IInv, ReadManifest
    PROVE  IInv'
<1> DEFINE m == document.manifest
           Fine == /\ document.directory /\ Reads(m.file) /\ m.schema = FixtureSchema
                   /\ Uint256(m.chainId) /\ m.env # Malformed
                   /\ Uint64(m.number) /\ Bytes32(m.hash) /\ Bytes32(m.parentHash) /\ HeaderParses(m)
           Built == [EmptySuite EXCEPT !.chain = m.chainId.value, !.env = m.env,
                       !.number = m.number.value, !.hash = m.hash.value, !.hashes = ParentHashes(m)]
<1>1. document' = document /\ Parsed(document)
    BY DEF ReadManifest, IInv
<1>2. CASE Fine
    <2>1. stage' = "hashes" /\ next' = 1 /\ suite' = Built
        BY <1>2 DEF ReadManifest, Continue
    <2>2. /\ IsSuite(suite') /\ suite'.hashes = ParentHashes(m)
          /\ suite'.chain = m.chainId.value /\ suite'.env = m.env
          /\ suite'.number = m.number.value /\ suite'.hash = m.hash.value
          /\ suite'.accounts = << >> /\ suite'.absent = << >> /\ suite'.cases = << >>
        BY <2>1 DEF EmptySuite, IsSuite
    <2>3. ManifestRead'
        BY <1>1, <1>2, <2>2 DEF ManifestRead
    <2>4. HashesTo(0)'
        <3>1. Listed(suite'.hashes) /\ \A i, j \in DOMAIN suite'.hashes : i = j
            BY <1>1, <2>2, Parent
        <3> QED BY <1>1, <2>2, <3>1 DEF HashesTo
    <2>5. Len(BlockHashes) \in Nat /\ BlockHashes' = BlockHashes
        BY <1>1, Lists DEF BlockHashes
    <2>6. next' - 1 = 0 /\ next' <= Len(BlockHashes') + 1 /\ next' \in Nat \ {0}
        BY <2>1, <2>5
    <2>7. HashesTo(next - 1)'
        BY <2>4, <2>6
    <2> QED BY <1>1, <2>1, <2>2, <2>3, <2>6, <2>7 DEF IInv, Parsed, Stages
<1>3. CASE ~Fine
    <2>1. Reject
        BY <1>3 DEF ReadManifest
    <2>2. ~Valid(document)
        BY <1>3 DEF Valid, SoundFiles, SoundManifest
    <2> QED BY <1>1, <2>1, <2>2, Rejection
<1> QED BY <1>2, <1>3

\* One block hash.
LEMMA AddBlockHashPreserves ==
    ASSUME IInv, AddBlockHash
    PROVE  IInv'
<1> DEFINE m == document.manifest  entry == BlockHashes[next]  n == next - 1
           known == Known(entry.number.value)
           Parses == Uint64(entry.number) /\ Bytes32(entry.hash)
<1>1. /\ document' = document /\ Parsed(document) /\ BlockHashes' = BlockHashes
      /\ stage = "hashes" /\ next \in 1 .. Len(BlockHashes) /\ Len(BlockHashes) \in Nat
      /\ ManifestRead /\ HashesTo(n) /\ IsSuite(suite)
      /\ suite.accounts = << >> /\ suite.absent = << >> /\ suite.cases = << >>
    BY Lists DEF AddBlockHash, InLoop, IInv, BlockHashes
<1>2. n \in Nat /\ 1 .. next = (1 .. n) \cup {next} /\ (next + 1) - 1 = next /\ next + 1 \in Nat \ {0}
    BY <1>1
<1>3. \A h \in Range(suite.hashes) : h \in StatedHashes(m)
    <2>1. \A i \in 1 .. n : BlockHashes[i] \in Range(m.hashes)
        BY <1>1, <1>2, Lists DEF BlockHashes, Range
    <2> QED BY <1>1, <2>1, Parent DEF HashesTo, StatedHashes
<1>4. Meaning(entry) \in StatedHashes(m)
    <2>1. BlockHashes[next] \in Range(m.hashes)
        BY <1>1, Lists DEF BlockHashes, Range
    <2> QED BY <2>1 DEF StatedHashes
<1>5. ASSUME stage' = stage, next' = next + 1, IsSuite(suite'), Parses,
             suite'.accounts = << >>, suite'.absent = << >>, suite'.cases = << >>,
             suite'.chain = suite.chain, suite'.env = suite.env, suite'.number = suite.number,
             suite'.hash = suite.hash, Listed(suite'.hashes),
             Range(suite'.hashes) = Range(suite.hashes) \cup {Meaning(entry)},
             \A i, j \in DOMAIN suite'.hashes : suite'.hashes[i].number = suite'.hashes[j].number => i = j
      PROVE  IInv'
    <2>2. ManifestRead'
        BY <1>1, <1>5 DEF ManifestRead
    <2>3. \A i \in 1 .. next : Uint64(BlockHashes[i].number) /\ Bytes32(BlockHashes[i].hash)
        BY <1>1, <1>2, <1>5 DEF HashesTo
    <2>4. Range(suite'.hashes) =
            {Meaning(BlockHashes[i]) : i \in 1 .. next} \cup Range(ParentHashes(m))
        BY <1>1, <1>2, <1>5 DEF HashesTo
    <2>5. next' - 1 = next
        BY <1>2, <1>5
    <2>6. HashesTo(next - 1)'
        BY <1>1, <1>5, <2>3, <2>4, <2>5 DEF HashesTo
    <2>7. next' <= Len(BlockHashes') + 1 /\ next' \in Nat \ {0} /\ stage' = "hashes"
        BY <1>1, <1>5
    <2> QED BY <1>1, <1>5, <2>2, <2>6, <2>7 DEF IInv, Stages
<1>6. CASE ~Parses
    <2>1. Reject
        BY <1>6 DEF AddBlockHash
    <2>2. entry \in Range(m.hashes)
        BY <1>1, Lists DEF BlockHashes, Range
    <2>3. ~Valid(document)
        BY <1>6, <2>2 DEF Valid, SoundManifest
    <2> QED BY <1>1, <2>1, <2>3, Rejection
<1>7. CASE Parses /\ known = {}
    <2>1. /\ stage' = stage /\ next' = next + 1
          /\ suite' = [suite EXCEPT !.hashes = Append(suite.hashes, Meaning(entry))]
        BY <1>7 DEF AddBlockHash, Turn
    <2>2. \A i \in DOMAIN suite.hashes : suite.hashes[i].number # Meaning(entry).number
        BY <1>7 DEF Known, Meaning, Range
    <2>3. Listed(suite.hashes) /\ suite'.hashes = Append(suite.hashes, Meaning(entry))
        BY <1>1, <2>1 DEF HashesTo, IsSuite
    <2>4. /\ Listed(suite'.hashes) /\ Range(suite'.hashes) = Range(suite.hashes) \cup {Meaning(entry)}
          /\ Len(suite'.hashes) = Len(suite.hashes) + 1
          /\ \A i \in 1 .. Len(suite.hashes) : suite'.hashes[i] = suite.hashes[i]
          /\ suite'.hashes[Len(suite.hashes) + 1] = Meaning(entry)
        BY <2>3, RangeOfAppend
    <2>5. /\ DOMAIN suite.hashes = 1 .. Len(suite.hashes) /\ Len(suite.hashes) \in Nat
          /\ DOMAIN suite'.hashes = 1 .. Len(suite.hashes) + 1
        BY <2>3, <2>4 DEF Listed
    <2>6. \A i, j \in DOMAIN suite'.hashes : suite'.hashes[i].number = suite'.hashes[j].number => i = j
        <3> DEFINE l == Len(suite.hashes)
        <3>1. \A i, j \in 1 .. l : suite.hashes[i].number = suite.hashes[j].number => i = j
            BY <1>1, <2>5 DEF HashesTo
        <3>2. \A i \in 1 .. l : suite'.hashes[i].number # suite'.hashes[l + 1].number
            BY <2>2, <2>4, <2>5
        <3>3. \A i, j \in 1 .. l : suite'.hashes[i].number = suite'.hashes[j].number => i = j
            BY <2>4, <3>1
        <3>4. \A i \in DOMAIN suite'.hashes : i \in 1 .. l \/ i = l + 1
            BY <2>5
        <3> QED BY <3>2, <3>3, <3>4
    <2>7. /\ IsSuite(suite') /\ suite'.accounts = suite.accounts /\ suite'.absent = suite.absent
          /\ suite'.cases = suite.cases /\ suite'.chain = suite.chain /\ suite'.env = suite.env
          /\ suite'.number = suite.number /\ suite'.hash = suite.hash
        BY <1>1, <2>1 DEF IsSuite
    <2> QED BY <1>1, <1>5, <1>7, <2>1, <2>4, <2>6, <2>7
<1>8. CASE Parses /\ known # {} /\ Meaning(entry) \in known
    <2>1. stage' = stage /\ next' = next + 1 /\ suite' = suite
        BY <1>8 DEF AddBlockHash, Turn
    <2>2. Meaning(entry) \in Range(suite.hashes)
        BY <1>8 DEF Known
    <2> QED BY <1>1, <1>5, <1>8, <2>1, <2>2 DEF HashesTo
<1>9. CASE Parses /\ known # {} /\ Meaning(entry) \notin known
    <2>1. Reject
        BY <1>9 DEF AddBlockHash
    <2>2. PICK h \in Range(suite.hashes) : h.number = entry.number.value
        BY <1>9 DEF Known
    <2>3. h \in StatedHashes(m) /\ h # Meaning(entry) /\ h.number = Meaning(entry).number
        BY <1>3, <1>9, <2>2 DEF Known, Meaning
    <2>4. ~Valid(document)
        BY <1>4, <2>3 DEF Valid, SoundManifest, Unambiguous
    <2> QED BY <1>1, <2>1, <2>4, Rejection
<1> QED BY <1>6, <1>7, <1>8, <1>9

\* What a step leaves alone stays true of the suite.
LEMMA Kept ==
    ASSUME IInv, UNCHANGED document
    PROVE  /\ /\ suite'.chain = suite.chain /\ suite'.env = suite.env
              /\ suite'.number = suite.number /\ suite'.hash = suite.hash
              => (ManifestRead => ManifestRead')
           /\ suite'.hashes = suite.hashes
              => (HashesTo(Len(BlockHashes)) => HashesTo(Len(BlockHashes))')
           /\ suite'.accounts = suite.accounts
              => (AccountsTo(Len(Accounts)) => AccountsTo(Len(Accounts))')
           /\ suite'.accounts = suite.accounts /\ suite'.absent = suite.absent
              => (AbsentTo(Len(Absent)) => AbsentTo(Len(Absent))')
           /\ suite'.cases = suite.cases
              => (CasesTo(Len(Cases)) => CasesTo(Len(Cases))')
           /\ StateRead => StateRead'
           /\ CasesRead => CasesRead'
           /\ Parsed(document')
<1>1. /\ suite'.chain = suite.chain /\ suite'.env = suite.env
      /\ suite'.number = suite.number /\ suite'.hash = suite.hash
      => (ManifestRead => ManifestRead')
  BY DEF ManifestRead
<1>2. suite'.hashes = suite.hashes
      => (HashesTo(Len(BlockHashes)) => HashesTo(Len(BlockHashes))')
  BY DEF HashesTo, BlockHashes
<1>3. suite'.accounts = suite.accounts
      => (AccountsTo(Len(Accounts)) => AccountsTo(Len(Accounts))')
  BY DEF AccountsTo, Accounts
<1>4. suite'.accounts = suite.accounts /\ suite'.absent = suite.absent
      => (AbsentTo(Len(Absent)) => AbsentTo(Len(Absent))')
  BY DEF AbsentTo, Absent, Accounts
<1>5. suite'.cases = suite.cases
      => (CasesTo(Len(Cases)) => CasesTo(Len(Cases))')
  BY DEF CasesTo, Cases
<1>6. (StateRead => StateRead') /\ (CasesRead => CasesRead')
  BY DEF StateRead, CasesRead, Cases
<1>7. Parsed(document')
  BY DEF IInv
<1> QED BY <1>1, <1>2, <1>3, <1>4, <1>5, <1>6, <1>7

\* The state file.
LEMMA ReadStatePreserves ==
    ASSUME IInv, ReadState
    PROVE  IInv'
<1>1. /\ document' = document /\ stage = "hashes" /\ ManifestRead /\ HashesTo(Len(BlockHashes))
      /\ suite.accounts = << >> /\ suite.absent = << >> /\ suite.cases = << >> /\ IsSuite(suite)
      /\ Parsed(document)
    <2>1. next <= Len(BlockHashes) + 1 /\ next > Len(BlockHashes) /\ next \in Nat /\ HashesTo(next - 1)
        BY DEF ReadState, IInv
    <2>2. next - 1 = Len(BlockHashes)
        BY <2>1, Lists DEF IInv
    <2> QED BY <2>1, <2>2 DEF ReadState, IInv
<1>2. CASE Inside(document.manifest.statePath) /\ Reads(document.state.file)
    <2>1. stage' = "accounts" /\ next' = 1 /\ suite' = suite
        BY <1>2 DEF ReadState, Continue
    <2>2. StateRead
        BY <1>2 DEF StateRead
    <2>3. AccountsTo(0)'
        BY <1>1, <2>1, EmptyList DEF AccountsTo
    <2>4. next' - 1 = 0 /\ next' \in Nat \ {0} /\ next' <= Len(Accounts') + 1
        BY <1>1, <2>1, Lists DEF Accounts
    <2>5. AccountsTo(next - 1)'
        BY <2>3, <2>4
    <2> QED BY <1>1, <2>1, <2>2, <2>4, <2>5, Kept DEF IInv, Stages
<1>3. CASE ~(Inside(document.manifest.statePath) /\ Reads(document.state.file))
    <2>1. Reject
        BY <1>3 DEF ReadState
    <2>2. ~Valid(document)
        BY <1>3 DEF Valid, SoundFiles
    <2> QED BY <1>1, <2>1, <2>2, Rejection
<1> QED BY <1>2, <1>3

\* One account.
LEMMA AddAccountPreserves ==
    ASSUME IInv, AddAccount
    PROVE  IInv'
<1> DEFINE a == Accounts[next]  n == next - 1
           Fine == AccountParses(a) /\ a.codeHash.value = a.code.value
<1>1. /\ document' = document /\ stage = "accounts" /\ ManifestRead /\ StateRead
      /\ HashesTo(Len(BlockHashes)) /\ AccountsTo(n) /\ IsSuite(suite) /\ Parsed(document)
      /\ suite.absent = << >> /\ suite.cases = << >>
      /\ next \in 1 .. Len(Accounts) /\ Len(Accounts) \in Nat /\ Accounts' = Accounts
      /\ a \in Range(document.state.accounts)
    BY Lists DEF AddAccount, InLoop, IInv, Accounts, Range
<1>2. n \in Nat /\ 1 .. next = (1 .. n) \cup {next} /\ (next + 1) - 1 = next /\ next + 1 \in Nat \ {0}
    BY <1>1
<1>3. CASE Fine
    <2>1. /\ stage' = "accounts" /\ next' = next + 1
          /\ suite' = [suite EXCEPT !.accounts = Append(suite.accounts, a.address.value)]
        BY <1>1, <1>3 DEF AddAccount, Turn
    <2>2. /\ IsSuite(suite') /\ suite'.hashes = suite.hashes /\ suite'.absent = suite.absent
          /\ suite'.cases = suite.cases /\ suite'.chain = suite.chain /\ suite'.env = suite.env
          /\ suite'.number = suite.number /\ suite'.hash = suite.hash
          /\ suite'.accounts = Append(suite.accounts, a.address.value)
        BY <1>1, <2>1 DEF IsSuite
    <2>3. Listed(suite.accounts)
        BY <1>1 DEF AccountsTo
    <2>4. /\ Listed(suite'.accounts)
          /\ Range(suite'.accounts) = Range(suite.accounts) \cup {a.address.value}
        BY <2>2, <2>3, RangeOfAppend
    <2>5. next' - 1 = next /\ next' \in Nat \ {0} /\ next' <= Len(Accounts') + 1
        BY <1>1, <1>2, <2>1
    <2>6. Range(suite'.accounts) = {Accounts[i].address.value : i \in 1 .. next}
        BY <1>1, <1>2, <2>4 DEF AccountsTo
    <2>7. \A i \in 1 .. next : /\ AccountParses(Accounts[i])
                               /\ Accounts[i].codeHash.value = Accounts[i].code.value
        BY <1>1, <1>2, <1>3 DEF AccountsTo
    <2>8. AccountsTo(next - 1)'
        BY <1>1, <2>4, <2>5, <2>6, <2>7 DEF AccountsTo
    <2> QED BY <1>1, <2>1, <2>2, <2>5, <2>8, Kept DEF IInv, Stages
<1>4. CASE ~Fine
    <2>1. Reject
        BY <1>4 DEF AddAccount
    <2>2. ~Valid(document)
        BY <1>1, <1>4 DEF Valid, SoundState
    <2> QED BY <1>1, <2>1, <2>2, Rejection
<1> QED BY <1>3, <1>4

\* The end of the accounts.
LEMMA FinishAccountsPreserves ==
    ASSUME IInv, FinishAccounts
    PROVE  IInv'
<1>1. /\ document' = document /\ stage = "accounts" /\ ManifestRead /\ StateRead
      /\ HashesTo(Len(BlockHashes)) /\ AccountsTo(Len(Accounts)) /\ IsSuite(suite) /\ Parsed(document)
      /\ suite.absent = << >> /\ suite.cases = << >>
      /\ stage' = "absent" /\ next' = 1 /\ suite' = suite
    <2>1. next <= Len(Accounts) + 1 /\ next > Len(Accounts) /\ next \in Nat /\ AccountsTo(next - 1)
        BY DEF FinishAccounts, IInv
    <2>2. next - 1 = Len(Accounts)
        BY <2>1, Lists DEF IInv
    <2> QED BY <2>1, <2>2 DEF FinishAccounts, Continue, IInv
<1>2. AbsentTo(0)'
    BY <1>1, EmptyList DEF AbsentTo
<1>3. next' - 1 = 0 /\ next' \in Nat \ {0} /\ next' <= Len(Absent') + 1
    BY <1>1, Lists DEF Absent
<1>4. AbsentTo(next - 1)'
    BY <1>2, <1>3
<1> QED BY <1>1, <1>3, <1>4, Kept DEF IInv, Stages

\* One absent account.
LEMMA AddAbsentPreserves ==
    ASSUME IInv, AddAbsent
    PROVE  IInv'
<1> DEFINE b == Absent[next]  n == next - 1
           Fine == Address(b) /\ b.value \notin Range(suite.accounts)
<1>1. /\ document' = document /\ stage = "absent" /\ ManifestRead /\ StateRead
      /\ HashesTo(Len(BlockHashes)) /\ AccountsTo(Len(Accounts)) /\ AbsentTo(n)
      /\ IsSuite(suite) /\ Parsed(document) /\ suite.cases = << >>
      /\ next \in 1 .. Len(Absent) /\ Len(Absent) \in Nat /\ Absent' = Absent
      /\ b \in Range(document.state.absent)
    BY Lists DEF AddAbsent, InLoop, IInv, Absent, Range
<1>2. n \in Nat /\ 1 .. next = (1 .. n) \cup {next} /\ (next + 1) - 1 = next /\ next + 1 \in Nat \ {0}
    BY <1>1
<1>3. CASE Fine
    <2>1. /\ stage' = "absent" /\ next' = next + 1
          /\ suite' = [suite EXCEPT !.absent = Append(suite.absent, b.value)]
        BY <1>1, <1>3 DEF AddAbsent, Turn
    <2>2. /\ IsSuite(suite') /\ suite'.hashes = suite.hashes /\ suite'.accounts = suite.accounts
          /\ suite'.cases = suite.cases /\ suite'.chain = suite.chain /\ suite'.env = suite.env
          /\ suite'.number = suite.number /\ suite'.hash = suite.hash
          /\ suite'.absent = Append(suite.absent, b.value)
        BY <1>1, <2>1 DEF IsSuite
    <2>3. Listed(suite.absent)
        BY <1>1 DEF AbsentTo
    <2>4. Listed(suite'.absent) /\ Range(suite'.absent) = Range(suite.absent) \cup {b.value}
        BY <2>2, <2>3, RangeOfAppend
    <2>5. next' - 1 = next /\ next' \in Nat \ {0} /\ next' <= Len(Absent') + 1
        BY <1>1, <1>2, <2>1
    <2>6. Range(suite'.absent) = {Absent[i].value : i \in 1 .. next}
        BY <1>1, <1>2, <2>4 DEF AbsentTo
    <2>7. \A i \in 1 .. next : Address(Absent[i]) /\ Absent[i].value \notin Range(suite.accounts)
        BY <1>1, <1>2, <1>3 DEF AbsentTo
    <2>8. AbsentTo(next - 1)'
        BY <1>1, <2>2, <2>4, <2>5, <2>6, <2>7 DEF AbsentTo
    <2> QED BY <1>1, <2>1, <2>2, <2>5, <2>8, Kept DEF IInv, Stages
<1>4. CASE ~Fine
    <2>1. Reject
        BY <1>4 DEF AddAbsent
    <2>2. ASSUME b.value \in Range(suite.accounts)
          PROVE  \E a \in Range(document.state.accounts) : a.address.value = b.value
        <3>1. PICK i \in 1 .. Len(Accounts) : Accounts[i].address.value = b.value
            BY <1>1, <2>2 DEF AccountsTo
        <3> QED BY <1>1, <3>1, Lists DEF Accounts, Range
    <2>3. ~Valid(document)
        BY <1>1, <1>4, <2>2 DEF Valid, SoundState
    <2> QED BY <1>1, <2>1, <2>3, Rejection
<1> QED BY <1>3, <1>4

\* The case file.
LEMMA ReadCasesPreserves ==
    ASSUME IInv, ReadCases
    PROVE  IInv'
<1> DEFINE Fine == /\ Inside(document.manifest.casesPath) /\ Reads(document.cases.file)
                   /\ document.cases.list # << >>
<1>1. /\ document' = document /\ stage = "absent" /\ ManifestRead /\ StateRead
      /\ HashesTo(Len(BlockHashes)) /\ AccountsTo(Len(Accounts)) /\ AbsentTo(Len(Absent))
      /\ IsSuite(suite) /\ Parsed(document) /\ suite.cases = << >>
    <2>1. next <= Len(Absent) + 1 /\ next > Len(Absent) /\ next \in Nat /\ AbsentTo(next - 1)
        BY DEF ReadCases, IInv
    <2>2. next - 1 = Len(Absent)
        BY <2>1, Lists DEF IInv
    <2> QED BY <2>1, <2>2 DEF ReadCases, IInv
<1>2. CASE Fine
    <2>1. stage' = "cases" /\ next' = 1 /\ suite' = suite
        BY <1>2 DEF ReadCases, Continue
    <2>2. CasesRead
        BY <1>2 DEF CasesRead, Cases
    <2>3. CasesTo(0)'
        BY <1>1, <2>1, EmptyList DEF CasesTo
    <2>4. next' - 1 = 0 /\ next' \in Nat \ {0} /\ next' <= Len(Cases') + 1
        BY <1>1, <2>1, Lists DEF Cases
    <2>5. CasesTo(next - 1)'
        BY <2>3, <2>4
    <2> QED BY <1>1, <2>1, <2>2, <2>4, <2>5, Kept DEF IInv, Stages
<1>3. CASE ~Fine
    <2>1. Reject
        BY <1>3 DEF ReadCases
    <2>2. ~Valid(document)
        BY <1>3 DEF Valid, SoundFiles, SoundCases
    <2> QED BY <1>1, <2>1, <2>2, Rejection
<1> QED BY <1>2, <1>3

\* One case.
LEMMA AddCasePreserves ==
    ASSUME IInv, AddCase
    PROVE  IInv'
<1> DEFINE c == Cases[next]  n == next - 1
           Fine == WellFormed(c) /\ Named(c.name) = {}
<1>1. /\ document' = document /\ stage = "cases" /\ ManifestRead /\ StateRead /\ CasesRead
      /\ HashesTo(Len(BlockHashes)) /\ AccountsTo(Len(Accounts)) /\ AbsentTo(Len(Absent))
      /\ CasesTo(n) /\ IsSuite(suite) /\ Parsed(document)
      /\ next \in 1 .. Len(Cases) /\ Len(Cases) \in Nat /\ Cases' = Cases
      /\ c \in Range(document.cases.list)
    BY Lists DEF AddCase, InLoop, IInv, Cases, Range
<1>2. n \in Nat /\ 1 .. next = (1 .. n) \cup {next} /\ (next + 1) - 1 = next
      /\ next + 1 \in Nat \ {0} /\ n + 1 = next
    BY <1>1
<1>3. /\ Listed(suite.cases) /\ Len(suite.cases) = n /\ DOMAIN suite.cases = 1 .. n
      /\ \A i \in 1 .. n : suite.cases[i] = Cases[i]
    BY <1>1 DEF CasesTo, Listed
<1>4. CASE Fine
    <2>1. /\ stage' = "cases" /\ next' = next + 1
          /\ suite' = [suite EXCEPT !.cases = Append(suite.cases, c)]
        BY <1>1, <1>4 DEF AddCase, Turn
    <2>2. /\ IsSuite(suite') /\ suite'.hashes = suite.hashes /\ suite'.accounts = suite.accounts
          /\ suite'.absent = suite.absent /\ suite'.chain = suite.chain /\ suite'.env = suite.env
          /\ suite'.number = suite.number /\ suite'.hash = suite.hash
          /\ suite'.cases = Append(suite.cases, c)
        BY <1>1, <2>1 DEF IsSuite
    <2>3. /\ Listed(suite'.cases) /\ Len(suite'.cases) = next
          /\ \A i \in 1 .. n : suite'.cases[i] = suite.cases[i]
          /\ suite'.cases[next] = c
        BY <1>2, <1>3, <2>2, RangeOfAppend
    <2>4. next' - 1 = next /\ next' \in Nat \ {0} /\ next' <= Len(Cases') + 1
        BY <1>1, <1>2, <2>1
    <2>5. \A i \in 1 .. next : WellFormed(Cases[i]) /\ suite'.cases[i] = Cases[i]
        BY <1>1, <1>2, <1>3, <1>4, <2>3 DEF CasesTo
    <2>6. \A i \in 1 .. n : Cases[i].name # c.name
        BY <1>3, <1>4 DEF Named, Range
    <2>7. \A i, j \in 1 .. next : Cases[i].name = Cases[j].name => i = j
        BY <1>1, <1>2, <2>6 DEF CasesTo
    <2>8. CasesTo(next - 1)'
        BY <1>1, <2>3, <2>4, <2>5, <2>7 DEF CasesTo
    <2> QED BY <1>1, <2>1, <2>2, <2>4, <2>8, Kept DEF IInv, Stages
<1>5. CASE ~Fine
    <2>1. Reject
        BY <1>5 DEF AddCase
    <2>2. ASSUME Named(c.name) # {}
          PROVE  \E i \in 1 .. n : Cases[i].name = c.name
        BY <1>3, <2>2 DEF Named, Range
    <2>3. ASSUME NEW i \in 1 .. n, Cases[i].name = c.name
          PROVE  ~SoundCases(document.cases.list)
        <3>1. i \in DOMAIN Cases /\ next \in DOMAIN Cases /\ i # next
            BY <1>1, <1>2, Lists
        <3> QED BY <2>3, <3>1 DEF SoundCases, Cases
    <2>4. ~Valid(document)
        BY <1>1, <1>5, <2>2, <2>3 DEF Valid, SoundCases
    <2> QED BY <1>1, <2>1, <2>4, Rejection
<1> QED BY <1>4, <1>5

\* Provenance is compared with the suite, which by then says what the manifest does.
LEMMA BindsIsSound ==
    ASSUME ManifestRead
    PROVE  Binds(document.provenance) <=> SoundProvenance(document)
<1> DEFINE p == document.provenance  m == document.manifest
<1>1. /\ p.createdAt \notin {Malformed, ""} /\ p.tool \notin {Malformed, ""}
      /\ p.version \notin {Malformed, ""}
      <=> {"", Malformed} \cap {p.createdAt, p.tool, p.version} = {}
    OBVIOUS
<1>2. /\ Payloads \ {"state"} = {"manifest", "cases", "state file"}
      /\ Payloads \ {"state file"} = {"manifest", "cases", "state"}
    BY DEF Payloads
<1>3. /\ suite.chain = m.chainId.value /\ suite.env = m.env
      /\ suite.number = m.number.value /\ suite.hash = m.hash.value
    BY DEF ManifestRead
<1> QED BY <1>1, <1>2, <1>3 DEF Binds, SoundProvenance, HashOf

\* The provenance.
LEMMA ReadProvenancePreserves ==
    ASSUME IInv, ReadProvenance
    PROVE  IInv'
<1> DEFINE Fine == Reads(document.provenance.file) /\ Binds(document.provenance)
<1>1. /\ document' = document /\ stage = "cases" /\ ManifestRead /\ StateRead /\ CasesRead
      /\ HashesTo(Len(BlockHashes)) /\ AccountsTo(Len(Accounts)) /\ AbsentTo(Len(Absent))
      /\ CasesTo(Len(Cases)) /\ IsSuite(suite) /\ Parsed(document)
    <2>1. next <= Len(Cases) + 1 /\ next > Len(Cases) /\ next \in Nat /\ CasesTo(next - 1)
        BY DEF ReadProvenance, IInv
    <2>2. next - 1 = Len(Cases)
        BY <2>1, Lists DEF IInv
    <2> QED BY <2>1, <2>2 DEF ReadProvenance, IInv
<1>2. CASE Fine
    <2>1. stage' = "loaded" /\ next' = 1 /\ suite' = suite
        BY <1>2 DEF ReadProvenance, Continue
    <2>2. (Reads(document.provenance.file) /\ Binds(document.provenance))'
        BY <1>1, <1>2, <2>1 DEF Binds, HashOf
    <2> QED BY <1>1, <2>1, <2>2, Kept DEF IInv, Stages
<1>3. CASE ~Fine
    <2>1. Reject
        BY <1>3 DEF ReadProvenance
    <2>2. ~Valid(document)
        BY <1>1, <1>3, BindsIsSound DEF Valid, SoundFiles
    <2> QED BY <1>1, <2>1, <2>2, Rejection
<1> QED BY <1>2, <1>3

\* The rest of the program leaves the loader alone or starts it.
LEMMA CommandPreserves ==
    ASSUME IInv, UNCHANGED loader \/ StartLoading
    PROVE  IInv'
<1>1. CASE UNCHANGED loader
    <2>1. document' = document /\ stage' = stage /\ next' = next /\ suite' = suite
        BY <1>1 DEF loader
    <2>2. /\ BlockHashes' = BlockHashes /\ Accounts' = Accounts /\ Absent' = Absent /\ Cases' = Cases
        BY <2>1 DEF BlockHashes, Accounts, Absent, Cases
    <2>3. /\ HashesTo(next - 1) => HashesTo(next - 1)'
          /\ AccountsTo(next - 1) => AccountsTo(next - 1)'
          /\ AbsentTo(next - 1) => AbsentTo(next - 1)'
          /\ CasesTo(next - 1) => CasesTo(next - 1)'
        BY <2>1, <2>2 DEF HashesTo, AccountsTo, AbsentTo, CasesTo
    <2>4. Binds(document.provenance) => Binds(document.provenance)'
        BY <2>1 DEF Binds, HashOf
    <2> QED BY <2>1, <2>2, <2>3, <2>4, Kept DEF IInv
<1>2. CASE StartLoading
    BY <1>2 DEF IInv, StartLoading, Stages
<1> QED BY <1>1, <1>2

\* Every step preserves the invariant.
LEMMA NextPreserves ==
    ASSUME IInv, [Next]_<<loader, command>>
    PROVE  IInv'
<1>1. CASE LoadFixtureSuite
    BY <1>1, ReadManifestPreserves, AddBlockHashPreserves, ReadStatePreserves, AddAccountPreserves,
       FinishAccountsPreserves, AddAbsentPreserves, ReadCasesPreserves, AddCasePreserves,
       ReadProvenancePreserves DEF LoadFixtureSuite
<1>2. CASE UNCHANGED loader
    BY <1>2, CommandPreserves
<1>3. CASE StartLoading
    BY <1>3, CommandPreserves
<1> QED BY <1>1, <1>2, <1>3 DEF Next

-----------------------------------------------------------------------------
(* The theorems.                                                           *)

\* The names of the lists' entries and the entries' own.
LEMMA LoadedIsValid ==
    ASSUME IInv, stage = "loaded"
    PROVE  Valid(document) /\ Means(document)
<1> DEFINE m == document.manifest
<1>1. /\ Parsed(document) /\ ManifestRead /\ StateRead /\ CasesRead
      /\ HashesTo(Len(BlockHashes)) /\ AccountsTo(Len(Accounts)) /\ AbsentTo(Len(Absent))
      /\ CasesTo(Len(Cases))
      /\ Reads(document.provenance.file) /\ Binds(document.provenance)
    BY DEF IInv
<1>2. SoundFiles(document)
    BY <1>1 DEF SoundFiles, ManifestRead, StateRead, CasesRead
<1>3. SoundManifest(m)
    <2>1. \A e \in Range(m.hashes) : Uint64(e.number) /\ Bytes32(e.hash)
        BY <1>1, Lists DEF HashesTo, BlockHashes, Range
    <2>2. Range(suite.hashes) = StatedHashes(m)
        <3>1. {Meaning(BlockHashes[i]) : i \in 1 .. Len(BlockHashes)} = {Meaning(e) : e \in Range(m.hashes)}
            BY <1>1, Lists DEF BlockHashes, Range
        <3> QED BY <1>1, <3>1, Parent DEF HashesTo, StatedHashes
    <2>3. Unambiguous(Range(suite.hashes))
        BY <1>1 DEF HashesTo, Unambiguous, Range
    <2> QED BY <1>1, <2>1, <2>2, <2>3 DEF SoundManifest, ManifestRead
<1>4. SoundState(document.state)
    <2>1. \A a \in Range(document.state.accounts) :
            /\ AccountParses(a) /\ a.codeHash.value = a.code.value
            /\ a.address.value \in Range(suite.accounts)
        BY <1>1, Lists DEF AccountsTo, Accounts, Range
    <2>2. \A b \in Range(document.state.absent) : Address(b) /\ b.value \notin Range(suite.accounts)
        BY <1>1, Lists DEF AbsentTo, Absent, Range
    <2> QED BY <2>1, <2>2 DEF SoundState
<1>5. SoundCases(document.cases.list)
    BY <1>1, Lists DEF CasesTo, CasesRead, SoundCases, Cases, Range
<1>6. SoundProvenance(document)
    BY <1>1, BindsIsSound
<1>7. Means(document)
    <2>1. suite.cases = document.cases.list
        <3> DEFINE S == Range(suite.cases) \cup Range(Cases)
        <3>1. suite.cases \in Seq(S) /\ Cases \in Seq(S)
            <4>1. suite.cases \in Seq(Range(suite.cases)) /\ Cases \in Seq(Range(Cases))
                BY <1>1 DEF CasesTo, Cases, Listed, Parsed
            <4> QED BY <4>1, SeqMonotonic
        <3>2. Len(suite.cases) = Len(Cases) /\ \A i \in 1 .. Len(Cases) : suite.cases[i] = Cases[i]
            BY <1>1 DEF CasesTo
        <3>3. suite.cases = Cases
            <4> HIDE DEF S
            <4> QED BY <3>1, <3>2, SeqEqual
        <3> QED BY <3>3 DEF Cases
    <2>2. /\ Range(suite.accounts) = {a.address.value : a \in Range(document.state.accounts)}
          /\ Range(suite.absent) = {b.value : b \in Range(document.state.absent)}
        <3>1. /\ {Accounts[i].address.value : i \in 1 .. Len(Accounts)} =
                   {a.address.value : a \in Range(document.state.accounts)}
              /\ {Absent[i].value : i \in 1 .. Len(Absent)} =
                   {b.value : b \in Range(document.state.absent)}
            BY <1>1, Lists DEF Accounts, Absent, Range
        <3> QED BY <1>1, <3>1 DEF AccountsTo, AbsentTo
    <2> QED BY <2>1, <2>2 DEF Means
<1> QED BY <1>2, <1>3, <1>4, <1>5, <1>6, <1>7 DEF Valid

\* A bundle is loaded exactly if it is valid, and the suite then means what the
\* bundle says: for every bundle and command line (load_fixture_suite).
THEOREM LoadsExactlyTheValid == Spec => []AcceptsExactlyTheValid
<1>1. IInv => AcceptsExactlyTheValid
    BY LoadedIsValid DEF AcceptsExactlyTheValid, IInv
<1> QED BY <1>1, InitInvariant, NextPreserves, PTL DEF Spec

\* The first entry with a number is the only one.
LEMMA OneAnswer ==
    ASSUME NEW i \in 1 .. Len(suite.hashes), Len(suite.hashes) \in Nat,
           \A j \in 1 .. Len(suite.hashes) : suite.hashes[j].number = suite.hashes[i].number => j = i
    PROVE  Answer(suite.hashes[i].number) = i
<1> DEFINE I == {j \in 1 .. Len(suite.hashes) : suite.hashes[j].number = suite.hashes[i].number}
<1>1. I = {i}
    OBVIOUS
<1>2. Min(I) = i
    BY <1>1 DEF Min
<1> QED BY <1>1, <1>2 DEF Answer, SelectInSeq

\* In every accepted suite BLOCKHASH, the accounts and the cases have one answer
\* each (FixtureBlockHashBuffer, find_account, the case names).
THEOREM Lookups == Spec => []LookupsAreUnambiguous
<1>1. ASSUME IInv, stage = "loaded"
      PROVE  LookupsAreUnambiguous
    <2> DEFINE m == document.manifest
    <2>1. /\ Parsed(document) /\ HashesTo(Len(BlockHashes)) /\ AbsentTo(Len(Absent)) /\ CasesTo(Len(Cases))
        BY <1>1 DEF IInv
    <2>2. \A i, j \in DOMAIN suite.hashes : suite.hashes[i].number = suite.hashes[j].number => i = j
        BY <2>1 DEF HashesTo
    <2>3. DOMAIN suite.hashes = 1 .. Len(suite.hashes) /\ Len(suite.hashes) \in Nat
        BY <2>1 DEF HashesTo, Listed
    <2>4. Range(suite.hashes) = StatedHashes(m)
        <3>1. {Meaning(BlockHashes[i]) : i \in 1 .. Len(BlockHashes)} = {Meaning(e) : e \in Range(m.hashes)}
            BY <2>1, Lists DEF BlockHashes, Range
        <3> QED BY <2>1, <3>1, Parent DEF HashesTo, StatedHashes
    <2>5. ASSUME NEW stated \in StatedHashes(m)
          PROVE  Answer(stated.number) # 0 /\ suite.hashes[Answer(stated.number)] = stated
        <3>1. PICK i \in DOMAIN suite.hashes : suite.hashes[i] = stated
            BY <2>4, <2>5 DEF Range
        <3>2. Answer(stated.number) = i
            BY <2>2, <2>3, <3>1, OneAnswer
        <3> QED BY <2>3, <3>1, <3>2
    <2>6. Range(suite.accounts) \cap Range(suite.absent) = {}
        BY <2>1 DEF AbsentTo
    <2>7. \A i, j \in DOMAIN suite.cases : suite.cases[i].name = suite.cases[j].name => i = j
        BY <2>1, Lists DEF CasesTo, Listed
    <2> QED BY <2>2, <2>5, <2>6, <2>7 DEF LookupsAreUnambiguous
<1>2. IInv => LookupsAreUnambiguous
    BY <1>1 DEF LookupsAreUnambiguous
<1> QED BY <1>2, InitInvariant, NextPreserves, PTL DEF Spec

-----------------------------------------------------------------------------
(* What the options say.                                                   *)

\* The option positions the loop has passed, and what they mean.
Below(k) == {i \in 3 .. Len(argv) : i % 2 = 1 /\ i < k}
Given(option, k) == {i \in Below(k) : argv[i] = Word(option)}
LastOf(S) == CHOOSE i \in S : \A j \in S : j <= i
Value(option, S) == IF S = {} THEN Defaults[Field[option]] ELSE Text(argv[1 + LastOf(S)])
ReadTo(k) == \A option \in DOMAIN Field : options[Field[option]] = Value(option, Given(option, k))
Configured == \A option \in DOMAIN Field : options[Field[option]] = Meant(option)

Free == {a \in Arguments : a[1] \notin Owned}

IsOptions(o) ==
    o = [env |-> o.env, mode |-> o.mode, repetitions |-> o.repetitions, filter |-> o.filter,
         output |-> o.output, passthrough |-> o.passthrough]

Settings == [flag \in LibraryFlags.takesValue \cup LibraryFlags.noValue |-> Setting(BenchmarkArguments, flag)]

\* Where the program is and which command it runs, and what the options hold there.
AInv ==
    /\ argv \in Seq(Arguments) /\ index \in Nat \ {0}
    /\ IsOptions(options) /\ options.passthrough \in Seq(Free)
    /\ at \in {"run", "run-options", "passthrough", "load", "library", "measure"} =>
         argv # << >> /\ argv[1] = Word("run")
    /\ at \in {"verify", "verify-options"} => argv # << >> /\ argv[1] = Word("verify")
    /\ at \in {"smoke", "smoke-options"} => argv # << >> /\ argv[1] = Word("smoke")
    /\ at \in {"loading", "verifying"} => argv # << >> /\ argv[1] \in {Word("run"), Word("verify")}
    /\ at = "main" => index = 1
    /\ at \in {"main", "run"} => options = Defaults
    /\ at = "run-options" =>
         /\ index % 2 = 1 /\ 3 <= index /\ index <= Len(argv) + 1
         /\ \A i \in Below(index) : argv[i] # Word("--")
         /\ ReadTo(index)
    /\ at = "verify-options" => index % 2 = 1 /\ 3 <= index
    /\ at = "smoke-options" => index % 2 = 0 /\ 2 <= index
    /\ at \in {"passthrough", "load", "loading", "verifying", "library", "measure"}
       /\ argv[1] = Word("run") => Configured
    /\ at = "measure" =>
         settings = Settings /\ \A i \in DOMAIN BenchmarkArguments : Recognised(BenchmarkArguments[i])

LEMMA PairIs ==
    ASSUME NEW S, NEW T, NEW a \in S \X T
    PROVE  a = <<a[1], a[2]>>
OBVIOUS

LEMMA ArgumentIs == \A a \in Arguments : a = <<a[1], a[2]>>
BY PairIs DEF Arguments

LEMMA Fields ==
    /\ DOMAIN Field = {"--execution-env", "--mode", "--repetitions", "--filter", "--output"}
    /\ Field["--execution-env"] = "env" /\ Field["--mode"] = "mode"
    /\ Field["--repetitions"] = "repetitions" /\ Field["--filter"] = "filter"
    /\ Field["--output"] = "output"
BY DEF Field

\* The last element of a set of positions that has one.
LEMMA LastIs ==
    ASSUME NEW S, S \subseteq Nat, NEW k \in S, \A j \in S : j <= k
    PROVE  LastOf(S) = k
<1>1. \A i \in S : (\A j \in S : j <= i) => i = k
    BY SMT
<1> QED BY <1>1 DEF LastOf

\* The option positions are those below the first "--" that stands at one.
LEMMA PositionsAre ==
    ASSUME argv \in Seq(Arguments), NEW k \in Nat, k % 2 = 1, 3 <= k, k <= Len(argv) + 1,
           \A i \in Below(k) : argv[i] # Word("--"),
           k <= Len(argv) => argv[k] = Word("--")
    PROVE  OptionPositions = Below(k)
<1> DEFINE turns == {i \in 3 .. Len(argv) : i % 2 = 1}
           ends == {i \in turns : argv[i] = Word("--")}
<1>1. Len(argv) \in Nat
    OBVIOUS
<1>2. \A e \in ends : k <= e
    BY <1>1 DEF Below
<1>3. k <= Len(argv) => k \in ends
    BY <1>1
<1>4. OptionPositions = {i \in turns : \A e \in ends : i < e}
    BY DEF OptionPositions
<1>5. ASSUME NEW i \in turns PROVE (\A e \in ends : i < e) <=> i < k
    <2>1. i \in Nat /\ i <= Len(argv) /\ \A e \in ends : e \in Nat
        BY <1>1
    <2> HIDE DEF ends, turns
    <2> QED BY <1>1, <1>2, <1>3, <2>1
<1> QED BY <1>4, <1>5 DEF Below

LEMMA MeantIs ==
    ASSUME argv \in Seq(Arguments), NEW k \in Nat, k % 2 = 1, 3 <= k, k <= Len(argv) + 1,
           \A i \in Below(k) : argv[i] # Word("--"),
           k <= Len(argv) => argv[k] = Word("--"), ReadTo(k)
    PROVE  Configured
<1>1. OptionPositions = Below(k)
    BY PositionsAre
<1>2. \A option \in DOMAIN Field : Meant(option) = Value(option, Given(option, k))
    BY <1>1 DEF Meant, Value, Given, LastOf
<1> QED BY <1>2 DEF Configured, ReadTo

\* One more option is read.
LEMMA ReadOneMore ==
    ASSUME argv \in Seq(Arguments), NEW k \in Nat, k % 2 = 1, 3 <= k, k < Len(argv),
           ReadTo(k), IsOptions(options), NEW o \in DOMAIN Field, argv[k] = Word(o),
           UNCHANGED argv, options' = [options EXCEPT ![Field[o]] = Text(argv[k + 1])]
    PROVE  ReadTo(k + 2)'
<1>1. Len(argv) \in Nat
    OBVIOUS
<1>2. \A i \in 3 .. Len(argv) : i % 2 = 1 => (i < k + 2 <=> i < k \/ i = k)
    <2> SUFFICES ASSUME NEW i \in 3 .. Len(argv), i % 2 = 1, i < k + 2, ~(i < k), i # k PROVE FALSE
        BY <1>1
    <2>1. i = k + 1
        BY <1>1
    <2> QED BY <2>1
<1>3. Below(k + 2) = Below(k) \cup {k}
    BY <1>1, <1>2 DEF Below
<1> SUFFICES ASSUME NEW p \in DOMAIN Field
             PROVE  options'[Field[p]] = Value(p, Given(p, k + 2))
    BY DEF ReadTo, Value, Given, Below
<1>4. options[Field[p]] = Value(p, Given(p, k))
    BY DEF ReadTo
<1>5. CASE p = o
    <2>1. Given(p, k + 2) = Given(p, k) \cup {k}
        BY <1>3, <1>5 DEF Given
    <2>2. \A j \in Given(p, k) : j \in Nat /\ j <= k
        BY <1>1 DEF Given, Below
    <2>3. LastOf(Given(p, k + 2)) = k
        <3> DEFINE S == Given(p, k + 2)
        <3>1. S \subseteq Nat /\ k \in S /\ \A j \in S : j <= k
            BY <2>1, <2>2
        <3> HIDE DEF S
        <3>2. LastOf(S) = k
            BY <3>1, LastIs
        <3> QED BY <3>2 DEF S
    <2>4. Value(p, Given(p, k + 2)) = Text(argv[1 + k])
        BY <2>1, <2>3 DEF Value
    <2>5. options'[Field[p]] = Text(argv[k + 1])
        <3> DEFINE v == Text(argv[k + 1])
        <3>1. options' = [options EXCEPT ![Field[o]] = v]
            OBVIOUS
        <3> HIDE DEF v
        <3>2. options'[Field[o]] = v
            BY <3>1, Fields DEF IsOptions
        <3> QED BY <1>5, <3>2 DEF v
    <2>6. 1 + k = k + 1
        OBVIOUS
    <2> QED BY <2>4, <2>5, <2>6
<1>6. CASE p # o
    <2>1. Given(p, k + 2) = Given(p, k)
        <3>1. Word(p) # Word(o)
            BY <1>6 DEF Word
        <3> QED BY <1>3, <3>1 DEF Given
    <2>2. options'[Field[p]] = options[Field[p]]
        <3> DEFINE v == Text(argv[k + 1])
        <3>1. options' = [options EXCEPT ![Field[o]] = v]
            OBVIOUS
        <3>2. Field[p] # Field[o] /\ Field[p] \in {"env", "mode", "repetitions", "filter", "output"}
            BY <1>6, Fields
        <3> HIDE DEF v
        <3> QED BY <3>1, <3>2 DEF IsOptions
    <2> QED BY <1>4, <2>1, <2>2
<1> QED BY <1>5, <1>6

\* What the arguments and options mean depends on them only.
LEMMA SameMeaning ==
    ASSUME UNCHANGED <<argv, options>>
    PROVE  /\ \A k : Below(k)' = Below(k) /\ ReadTo(k)' = ReadTo(k)
           /\ Configured' = Configured /\ Settings' = Settings
           /\ BenchmarkArguments' = BenchmarkArguments
BY DEF Below, ReadTo, Given, Value, Configured, Meant, OptionPositions, Settings, BenchmarkArguments

\* The program ends, or goes on, with what it knows.
LEMMA ExitKeeps ==
    ASSUME AInv, NEW code, Exit(code)
    PROVE  AInv'
BY SameMeaning DEF AInv, Exit

LEMMA MovesKeep ==
    ASSUME AInv, UNCHANGED <<argv, options, index>>,
           at' \in {"verify", "run", "load", "loading", "verifying", "smoke", "library", "succeed"},
           at' \in {"run", "load", "library"} => argv # << >> /\ argv[1] = Word("run"),
           at' = "verify" => argv # << >> /\ argv[1] = Word("verify"),
           at' = "smoke" => argv # << >> /\ argv[1] = Word("smoke"),
           at' \in {"loading", "verifying"} => argv # << >> /\ argv[1] \in {Word("run"), Word("verify")},
           at' = "run" => options = Defaults,
           at' \in {"load", "loading", "verifying", "library"} /\ argv[1] = Word("run") => Configured
    PROVE  AInv'
BY SameMeaning DEF AInv

LEMMA Words == \A a, b : a # b => Word(a) # Word(b)
BY DEF Word

\* The first steps of each command.
LEMMA StartsKeep ==
    ASSUME AInv, Main \/ RunVerify \/ RunBenchmarkCommand
    PROVE  AInv'
<1>1. CASE Main
    <2>1. CASE \E code : Exit(code)
        BY <2>1, ExitKeeps
    <2>2. CASE /\ argv # << >> /\ argv[1] \in {Word("verify"), Word("run")}
               /\ Goto(IF argv[1] = Word("verify") THEN "verify" ELSE "run")
        <3>1. CASE argv[1] = Word("verify")
            BY <1>1, <2>2, <3>1, MovesKeep DEF Goto, Main, AInv
        <3>2. CASE argv[1] # Word("verify")
            BY <1>1, <2>2, <3>2, MovesKeep DEF Goto, Main, AInv
        <3> QED BY <3>1, <3>2
    <2>3. CASE /\ argv # << >> /\ argv[1] = Word("smoke")
               /\ at' = "smoke-options" /\ index' = 2 /\ UNCHANGED <<argv, options, settings>>
        BY <2>3, SameMeaning DEF AInv
    <2> QED BY <1>1, <2>1, <2>2, <2>3, Words DEF Main
<1>2. CASE RunVerify
    <2>1. CASE \E code : Exit(code)
        BY <2>1, ExitKeeps
    <2>2. CASE Enter("verify-options")
        BY <1>2, <2>2, SameMeaning DEF Enter, RunVerify, AInv
    <2> QED BY <1>2, <2>1, <2>2 DEF RunVerify
<1>3. CASE RunBenchmarkCommand
    <2>1. CASE \E code : Exit(code)
        BY <2>1, ExitKeeps
    <2>2. CASE Enter("run-options") /\ ~(Len(argv) < 2)
        <3>1. /\ at' = "run-options" /\ index' = 3 /\ UNCHANGED <<argv, options, settings>>
              /\ Len(argv) \in Nat /\ 3 <= Len(argv) + 1 /\ options = Defaults
              /\ argv # << >> /\ argv[1] = Word("run")
            BY <1>3, <2>2 DEF Enter, RunBenchmarkCommand, AInv
        <3>2. Below(3) = {}
            BY <3>1 DEF Below
        <3>3. ReadTo(3)
            BY <3>1, <3>2 DEF ReadTo, Given, Value
        <3> QED BY <3>1, <3>2, <3>3, SameMeaning DEF AInv
    <2> QED BY <1>3, <2>1, <2>2 DEF RunBenchmarkCommand
<1> QED BY <1>1, <1>2, <1>3

\* The options of verify and smoke.
LEMMA EnvironmentKeeps ==
    ASSUME AInv, EnvironmentOption \/ SmokeEnvironment \/ RunMonadTenSmoke
    PROVE  AInv'
<1>1. CASE \E code : Exit(code)
    BY <1>1, ExitKeeps
<1>2. CASE EnvironmentOption /\ at' = at
    <2>1. /\ at \in {"verify-options", "smoke-options"} /\ at' = at /\ UNCHANGED argv
          /\ options' = [options EXCEPT !.env = Text(argv[index + 1])] /\ index' = index + 2
        BY <1>2 DEF EnvironmentOption, Exit
    <2>2. IsOptions(options') /\ options'.passthrough = options.passthrough
        BY <2>1 DEF AInv, IsOptions
    <2>3. index' \in Nat \ {0} /\ (index % 2 = 1 => index' % 2 = 1) /\ (index % 2 = 0 => index' % 2 = 0)
          /\ (3 <= index => 3 <= index') /\ (2 <= index => 2 <= index')
        BY <2>1 DEF AInv
    <2> QED BY <2>1, <2>2, <2>3 DEF AInv
<1>3. CASE SmokeEnvironment /\ Goto("smoke")
    BY <1>3, MovesKeep DEF SmokeEnvironment, Goto, AInv
<1>4. CASE RunMonadTenSmoke /\ Achieve("smoked", "succeed")
    BY <1>4, MovesKeep DEF Achieve
<1> QED BY <1>1, <1>2, <1>3, <1>4 DEF EnvironmentOption, SmokeEnvironment, RunMonadTenSmoke

\* The options of run.
LEMMA ParseKeeps ==
    ASSUME AInv, ParseOption
    PROVE  AInv'
<1>1. /\ at = "run-options" /\ index \in Nat \ {0} /\ index % 2 = 1 /\ 3 <= index /\ index <= Len(argv)
      /\ \A i \in Below(index) : argv[i] # Word("--")
      /\ ReadTo(index) /\ argv \in Seq(Arguments) /\ Len(argv) \in Nat
      /\ argv # << >> /\ argv[1] = Word("run") /\ IsOptions(options) /\ options.passthrough \in Seq(Free)
    BY DEF ParseOption, AInv, More
<1>2. CASE \E code : Exit(code)
    BY <1>2, ExitKeeps
<1>3. CASE /\ argv[index] = Word("--")
           /\ at' = "passthrough" /\ index' = index + 1 /\ UNCHANGED <<argv, options, settings>>
    <2>1. Configured
        BY <1>1, <1>3, MeantIs
    <2> QED BY <1>1, <1>3, <2>1, SameMeaning DEF AInv
<1>4. CASE /\ argv[index] # Word("--") /\ IsOption(argv[index]) /\ index < Len(argv)
           /\ options' = [options EXCEPT ![Field[argv[index][1]]] = Text(argv[index + 1])]
           /\ index' = index + 2 /\ UNCHANGED <<argv, at, settings>>
    <2> DEFINE o == argv[index][1]  v == Text(argv[index + 1])
    <2>1. o \in DOMAIN Field /\ argv[index] = Word(o)
        <3>1. argv[index] = <<argv[index][1], argv[index][2]>>
            BY <1>1, ArgumentIs
        <3> QED BY <1>4, <3>1 DEF IsOption, Word
    <2> PICK k \in Nat : k = index
        BY <1>1
    <2>2. ReadTo(k + 2)'
        <3>1. /\ k % 2 = 1 /\ 3 <= k /\ k < Len(argv) /\ ReadTo(k) /\ argv[k] = Word(o)
              /\ options' = [options EXCEPT ![Field[o]] = Text(argv[k + 1])]
            BY <1>1, <1>4, <2>1
        <3> HIDE DEF v, o
        <3> QED BY <1>1, <1>4, <2>1, <3>1, ReadOneMore
    <2>3. Field[o] \in {"env", "mode", "repetitions", "filter", "output"}
        BY <2>1, Fields
    <2>4. options' = [options EXCEPT ![Field[o]] = v]
        BY <1>4
    <2>5. IsOptions(options') /\ options'.passthrough = options.passthrough
        <3> HIDE DEF o, v
        <3> QED BY <1>1, <2>3, <2>4 DEF IsOptions
    <2>6. \A i \in Below(index + 2) : i \in Below(index) \/ i = index
        <3> SUFFICES ASSUME NEW i \in Below(index + 2), i \notin Below(index), i # index PROVE FALSE
            OBVIOUS
        <3>1. i \in Nat /\ i % 2 = 1 /\ i < index + 2 /\ ~(i < index)
            BY <1>1 DEF Below
        <3>2. i = index + 1
            BY <1>1, <3>1
        <3> QED BY <1>1, <3>1, <3>2
    <2>7. \A i \in Below(index + 2) : argv[i] # Word("--")
        BY <1>1, <1>4, <2>6
    <2>8. Below(k + 2)' = Below(k + 2)
        BY <1>4 DEF Below
    <2>9. index' \in Nat \ {0} /\ index' % 2 = 1 /\ 3 <= index' /\ index' <= Len(argv') + 1
        BY <1>1, <1>4
    <2>10. ReadTo(index)' /\ \A i \in Below(index)' : argv'[i] # Word("--")
        <3>1. index' = k + 2
            BY <1>4
        <3>2. \A i \in Below(k + 2) : argv[i] # Word("--")
            BY <2>7
        <3>3. Below(index)' = Below(k + 2)' /\ (ReadTo(index)' <=> ReadTo(k + 2)')
            BY <3>1 DEF ReadTo, Value, Given, Below
        <3> QED BY <1>4, <2>2, <2>8, <3>2, <3>3
    <2> HIDE DEF o, v
    <2> QED BY <1>1, <1>4, <2>5, <2>9, <2>10 DEF AInv
<1> QED BY <1>2, <1>3, <1>4 DEF ParseOption

LEMMA PassthroughKeeps ==
    ASSUME AInv, ParsePassthrough
    PROVE  AInv'
<1>1. CASE \E code : Exit(code)
    BY <1>1, ExitKeeps
<1>2. CASE /\ argv[index][1] \notin Owned
           /\ options' = [options EXCEPT !.passthrough = Append(@, argv[index])]
           /\ index' = index + 1 /\ UNCHANGED <<argv, at, settings>>
    <2>1. /\ at = "passthrough" /\ index \in Nat \ {0} /\ index <= Len(argv) /\ Len(argv) \in Nat
          /\ argv # << >> /\ argv[1] = Word("run") /\ Configured /\ argv \in Seq(Arguments)
          /\ IsOptions(options) /\ options.passthrough \in Seq(Free)
        BY DEF ParsePassthrough, AInv, More
    <2>2. argv[index] \in Free
        BY <1>2, <2>1 DEF Free
    <2> DEFINE longer == Append(options.passthrough, argv[index])
    <2>3. longer \in Seq(Free)
        BY <2>1, <2>2
    <2>4. options' = [options EXCEPT !.passthrough = longer]
        BY <1>2
    <2> HIDE DEF longer
    <2>5. /\ IsOptions(options') /\ options'.passthrough \in Seq(Free)
          /\ \A f \in {"env", "mode", "repetitions", "filter", "output"} : options'[f] = options[f]
        BY <2>1, <2>3, <2>4 DEF IsOptions
    <2>6. Configured'
        <3>1. \A option \in DOMAIN Field : Meant(option)' = Meant(option)
            BY <1>2 DEF Meant, OptionPositions
        <3>2. \A option \in DOMAIN Field : options'[Field[option]] = options[Field[option]]
            BY <2>5, Fields
        <3> QED BY <2>1, <3>1, <3>2 DEF Configured
    <2> QED BY <1>2, <2>1, <2>5, <2>6 DEF AInv
<1> QED BY <1>1, <1>2 DEF ParsePassthrough, OwnedBenchmarkOption

LEMMA CheckKeeps ==
    ASSUME AInv, CheckOptions
    PROVE  AInv'
<1>1. CASE \E code : Exit(code)
    BY <1>1, ExitKeeps
<1>2. CASE Goto("load")
    <2>1. /\ at \in {"run-options", "passthrough"} /\ ~(index <= Len(argv)) /\ argv # << >>
          /\ argv[1] = Word("run")
        BY DEF CheckOptions, More, AInv
    <2>2. Configured
        <3>1. CASE at = "passthrough"
            BY <2>1, <3>1 DEF AInv
        <3>2. CASE at = "run-options"
            BY <2>1, <3>2, MeantIs DEF AInv
        <3> QED BY <2>1, <3>1, <3>2
    <2> QED BY <1>2, <2>1, <2>2, MovesKeep DEF Goto
<1> QED BY <1>1, <1>2 DEF CheckOptions

\* Loading, verifying and measuring.
LEMMA WorkKeeps ==
    ASSUME AInv, StartLoading \/ Loaded \/ VerifySuite \/ Initialize \/ Measure \/ Succeed
    PROVE  AInv'
<1>1. CASE \E code : Exit(code)
    BY <1>1, ExitKeeps
<1>2. CASE StartLoading
    BY <1>2, MovesKeep, Words DEF StartLoading, AInv
<1>3. CASE Loaded /\ Goto("verifying")
    BY <1>3, MovesKeep DEF Loaded, Goto, AInv
<1>4. CASE VerifySuite /\ Achieve("verified", IF argv[1] = Word("run") THEN "library" ELSE "succeed")
    BY <1>4, MovesKeep DEF VerifySuite, Achieve, AInv
<1>5. CASE /\ at = "library" /\ at' = "measure" /\ UNCHANGED <<argv, index, options>>
           /\ \A i \in DOMAIN BenchmarkArguments : Recognised(BenchmarkArguments[i])
           /\ settings' = Settings
    BY <1>5, SameMeaning DEF AInv
<1>6. CASE Measure /\ Achieve("measured", "succeed")
    BY <1>6, MovesKeep DEF Achieve
<1> QED BY <1>1, <1>2, <1>3, <1>4, <1>5, <1>6 DEF Loaded, VerifySuite, Initialize, Measure, Succeed, Settings

LEMMA ArgumentsInvariant == Spec => []AInv
<1>1. CommandInit => AInv
    <2> SUFFICES ASSUME CommandInit PROVE AInv
        OBVIOUS
    <2>1. /\ argv \in Seq(Arguments) /\ index = 1 /\ at = "main" /\ options = Defaults
        BY DEF CommandInit
    <2>2. IsOptions(options) /\ options.passthrough = << >>
        BY <2>1 DEF Defaults, IsOptions
    <2>3. << >> \in Seq(Free)
        OBVIOUS
    <2> QED BY <2>1, <2>2, <2>3 DEF AInv
<1>2. AInv /\ [Next]_<<loader, command>> => AInv'
    <2> SUFFICES ASSUME AInv, [Next]_<<loader, command>> PROVE AInv'
        OBVIOUS
    <2>1. CASE UNCHANGED command
        BY <2>1, SameMeaning DEF AInv, command
    <2>2. CASE Command \/ StartLoading
        BY <2>2, StartsKeep, EnvironmentKeeps, ParseKeeps, PassthroughKeeps, CheckKeeps, WorkKeeps
        DEF Command
    <2> QED BY <2>1, <2>2 DEF Next
<1> QED BY <1>1, <1>2, PTL DEF Spec

\* The program's own arguments come first, then those passed to the library.
LEMMA ArgumentsAre ==
    ASSUME options.passthrough \in Seq(Free)
    PROVE  LET P == options.passthrough  args == BenchmarkArguments IN
           /\ DOMAIN args = 1 .. 3 + Len(P) /\ Len(P) \in Nat
           /\ args[1] = <<"--benchmark_out", "=" \o options.output>>
           /\ args[2] = <<"--benchmark_out_format", "=json">>
           /\ args[3] = <<"--benchmark_enable_random_interleaving", "=true">>
           /\ \A i \in 4 .. 3 + Len(P) : args[i] = P[i - 3]
<1> DEFINE P == options.passthrough
           out == "=" \o options.output
           first == <<<<"--benchmark_out", out>>, <<"--benchmark_out_format", "=json">>,
                      <<"--benchmark_enable_random_interleaving", "=true">>>>
           args == BenchmarkArguments
<1>1. args = first \o P
    BY DEF BenchmarkArguments
<1> HIDE DEF out
<1>2. /\ DOMAIN args = 1 .. 3 + Len(P) /\ Len(P) \in Nat
      /\ args[1] = <<"--benchmark_out", out>>
      /\ args[2] = <<"--benchmark_out_format", "=json">>
      /\ args[3] = <<"--benchmark_enable_random_interleaving", "=true">>
      /\ \A i \in 4 .. 3 + Len(P) : args[i] = P[i - 3]
    <2>1. first \in Seq({first[1], first[2], first[3]}) /\ Len(first) = 3
        OBVIOUS
    <2>2. P \in Seq(Free) /\ Len(P) \in Nat
        OBVIOUS
    <2>3. /\ first[1] = <<"--benchmark_out", out>>
          /\ first[2] = <<"--benchmark_out_format", "=json">>
          /\ first[3] = <<"--benchmark_enable_random_interleaving", "=true">>
        OBVIOUS
    <2> DEFINE All == {first[1], first[2], first[3]} \cup Free
    <2>4. first \in Seq(All) /\ P \in Seq(All)
        <3>1. {first[1], first[2], first[3]} \subseteq All /\ Free \subseteq All
            OBVIOUS
        <3> HIDE DEF All
        <3> QED BY <2>1, <2>2, <3>1, SeqMonotonic
    <2> HIDE DEF All, first, P, args
    <2>7. /\ args \in Seq(All) /\ Len(args) = Len(first) + Len(P)
          /\ \A i \in 1 .. Len(first) + Len(P) :
               args[i] = IF i <= Len(first) THEN first[i] ELSE P[i - Len(first)]
        BY <1>1, <2>4, ConcatProperties, Zenon
    <2>5. \A i \in 1 .. 3 + Len(P) : args[i] = IF i <= 3 THEN first[i] ELSE P[i - 3]
        BY <2>1, <2>7
    <2>6. DOMAIN args = 1 .. 3 + Len(P)
        BY <2>1, <2>7
    <2> QED BY <2>2, <2>3, <2>5, <2>6
<1> QED BY <1>2 DEF out

LEMMA HelpIsPassed ==
    ASSUME options.passthrough \in Seq(Free), NEW i \in DOMAIN BenchmarkArguments,
           BenchmarkArguments[i] = Word("--help")
    PROVE  \E j \in DOMAIN options.passthrough : options.passthrough[j] = Word("--help")
<1> DEFINE P == options.passthrough  args == BenchmarkArguments  out == "=" \o options.output
<1>1. /\ DOMAIN args = 1 .. 3 + Len(P) /\ Len(P) \in Nat
      /\ args[1] = <<"--benchmark_out", out>>
      /\ args[2] = <<"--benchmark_out_format", "=json">>
      /\ args[3] = <<"--benchmark_enable_random_interleaving", "=true">>
      /\ \A k \in 4 .. 3 + Len(P) : args[k] = P[k - 3]
    BY ArgumentsAre
<1> HIDE DEF out
<1>2. i \notin {1, 2, 3}
    <2>1. /\ args[1][1] = "--benchmark_out" /\ args[2][1] = "--benchmark_out_format"
          /\ args[3][1] = "--benchmark_enable_random_interleaving"
        BY <1>1
    <2>2. args[i][1] = "--help"
        <3>1. Word("--help")[1] = "--help"
            BY DEF Word
        <3> QED BY <3>1
    <2> HIDE DEF args
    <2> QED BY <2>1, <2>2
<1>3. i - 3 \in 1 .. Len(P) /\ i \in 4 .. 3 + Len(P)
    BY <1>1, <1>2
<1>4. DOMAIN P = 1 .. Len(P)
    OBVIOUS
<1> QED BY <1>1, <1>3, <1>4

\* What the library is told about a flag of the program's own is what the program says.
LEMMA OwnedSettings ==
    ASSUME options.passthrough \in Seq(Free),
           \A i \in DOMAIN BenchmarkArguments : Recognised(BenchmarkArguments[i])
    PROVE  /\ Settings["--benchmark_out"] = "=" \o options.output
           /\ Settings["--benchmark_out_format"] = "=json"
           /\ Settings["--benchmark_enable_random_interleaving"] = "=true"
           /\ Settings["--benchmark_filter"] = DefaultSetting
           /\ Settings["--benchmark_repetitions"] = DefaultSetting
<1> DEFINE P == options.passthrough
           out == "=" \o options.output
           args == BenchmarkArguments
           Of(flag) == {i \in DOMAIN args : Recognised(args[i]) /\ args[i][1] = flag}
<1>2. /\ DOMAIN args = 1 .. 3 + Len(P) /\ Len(P) \in Nat
      /\ args[1] = <<"--benchmark_out", out>>
      /\ args[2] = <<"--benchmark_out_format", "=json">>
      /\ args[3] = <<"--benchmark_enable_random_interleaving", "=true">>
      /\ \A i \in 4 .. 3 + Len(P) : args[i] = P[i - 3]
    BY ArgumentsAre
<1> HIDE DEF out
<1>3. \A i \in 4 .. 3 + Len(P) : args[i][1] \notin Owned
    <2>1. \A i \in 4 .. 3 + Len(P) : P[i - 3] \in Free
        BY <1>2
    <2> QED BY <1>2, <2>1 DEF Free
<1> HIDE DEF P, args
<1>4. \A flag \in Owned : Of(flag) = {i \in 1 .. 3 : args[i][1] = flag}
    <2> SUFFICES ASSUME NEW flag \in Owned PROVE Of(flag) = {i \in 1 .. 3 : args[i][1] = flag}
        OBVIOUS
    <2>1. \A i \in DOMAIN args : Recognised(args[i])
        BY DEF args
    <2>2. \A i \in DOMAIN args : i \in 1 .. 3 \/ i \in 4 .. 3 + Len(P)
        BY <1>2
    <2>3. \A i \in 1 .. 3 : i \in DOMAIN args
        BY <1>2
    <2> QED BY <1>3, <2>1, <2>2, <2>3
<1>5. args[1][1] = "--benchmark_out" /\ args[1][2] = out
    BY <1>2
<1>6. args[2][1] = "--benchmark_out_format" /\ args[2][2] = "=json"
    BY <1>2
<1>7. args[3][1] = "--benchmark_enable_random_interleaving" /\ args[3][2] = "=true"
    BY <1>2
<1>8. \A i \in 1 .. 3 : i = 1 \/ i = 2 \/ i = 3
    OBVIOUS
<1>9. /\ Of("--benchmark_out") = {1} /\ Of("--benchmark_out_format") = {2}
      /\ Of("--benchmark_enable_random_interleaving") = {3}
      /\ Of("--benchmark_filter") = {} /\ Of("--benchmark_repetitions") = {}
    BY <1>4, <1>5, <1>6, <1>7, <1>8 DEF Owned
<1> HIDE DEF Of
<1>10. out # ""
    <2>1. Recognised(args[1])
        BY <1>2 DEF args
    <2> QED BY <1>5, <2>1, CommandAssumption DEF Recognised, Owned
<1>11. \A flag : Setting(args, flag) =
          IF Of(flag) = {} THEN DefaultSetting
          ELSE IF args[LastOf(Of(flag))][2] = "" THEN "=true" ELSE args[LastOf(Of(flag))][2]
    BY DEF Setting, Of, LastOf
<1>12. LastOf({1}) = 1 /\ LastOf({2}) = 2 /\ LastOf({3}) = 3
    <2> SUFFICES ASSUME NEW k \in Nat PROVE LastOf({k}) = k
        OBVIOUS
    <2>1. {k} \subseteq Nat /\ k \in {k} /\ \A j \in {k} : j <= k
        OBVIOUS
    <2> DEFINE S == {k}
    <2> HIDE DEF S
    <2>2. LastOf(S) = k
        BY <2>1, LastIs DEF S
    <2> QED BY <2>2 DEF S
<1>13. /\ Setting(args, "--benchmark_out") = out
       /\ Setting(args, "--benchmark_out_format") = "=json"
       /\ Setting(args, "--benchmark_enable_random_interleaving") = "=true"
       /\ Setting(args, "--benchmark_filter") = DefaultSetting
       /\ Setting(args, "--benchmark_repetitions") = DefaultSetting
    BY <1>5, <1>6, <1>7, <1>9, <1>10, <1>11, <1>12, ZenonT(40)
<1>14. \A flag \in Owned : Settings[flag] = Setting(args, flag)
    BY CommandAssumption DEF Settings, args
<1> QED BY <1>13, <1>14 DEF Owned, out

\* What is measured is what the command line says, whatever is passed to the library
\* (parse_options, owned_benchmark_option and the arguments put before its own).
THEOREM Configuration == Spec => []RunAsConfigured
<1>1. AInv => RunAsConfigured
    <2> SUFFICES ASSUME AInv, at = "measure" PROVE RunAsConfigured
        BY DEF RunAsConfigured
    <2>1. /\ options.passthrough \in Seq(Free) /\ Configured /\ settings = Settings
          /\ \A i \in DOMAIN BenchmarkArguments : Recognised(BenchmarkArguments[i])
        BY DEF AInv
    <2>2. options.output = Meant("--output")
        BY <2>1, Fields DEF Configured
    <2> DEFINE m == Meant("--output")
    <2>3. "=" \o options.output = "=" \o m
        <3> HIDE DEF m
        <3> QED BY <2>2 DEF m
    <2>4. settings["--benchmark_out"] = "=" \o m
        BY <2>1, <2>3, OwnedSettings
    <2> QED BY <2>1, <2>4, OwnedSettings DEF RunAsConfigured, Configured
<1> QED BY <1>1, ArgumentsInvariant, PTL

-----------------------------------------------------------------------------
(* The exit status.                                                        *)

Early == {"main", "verify", "run", "verify-options", "smoke-options", "smoke", "run-options",
          "passthrough", "load"}
Places == Early \cup {"loading", "verifying", "library", "measure", "succeed", "exit"}

\* What a command has done when it succeeds.
Worked ==
    /\ argv[1] = Word("smoke") => achieved = {"smoked"}
    /\ argv[1] = Word("verify") => achieved = {"verified"}
    /\ argv[1] = Word("run") => achieved = {"verified", "measured"}
    /\ argv[1] # Word("smoke") => stage = "loaded" /\ suite.env = Environment

\* What has been done where the program is.
OInv ==
    /\ at \in Places /\ (at # "exit" => status = Running)
    /\ at # "loading" => stage \in {"idle", "loaded", "rejected"}
    /\ at \in Early => stage = "idle" /\ achieved = {}
    /\ at \in {"loading", "verifying"} => achieved = {}
    /\ at \in {"verifying", "library", "measure"} => stage = "loaded"
    /\ at \in {"library", "measure"} => achieved = {"verified"} /\ suite.env = Environment
    /\ at = "succeed" => Worked
    /\ at = "exit" =>
         /\ status = 0 => AsksForHelp \/ Worked
         /\ status = 2 => stage = "idle" /\ argv[1] # Word("run")

\* The loader does nothing outside its stages.
LEMMA LoaderIsBusy ==
    ASSUME LoadFixtureSuite
    PROVE  stage \notin {"idle", "loaded", "rejected"}
BY DEF LoadFixtureSuite, ReadManifest, AddBlockHash, ReadState, AddAccount, FinishAccounts, AddAbsent,
       ReadCases, AddCase, ReadProvenance, InLoop

\* Where the program ends with a status, or goes on.
LEMMA Ends ==
    ASSUME OInv, UNCHANGED loader, at # "loading" \/ stage \in {"loaded", "rejected"}, NEW code, Exit(code),
           code = 0 => AsksForHelp \/ Worked,
           code = 2 => at \in Early /\ argv[1] # Word("run")
    PROVE  OInv'
<1>1. /\ at' = "exit" /\ status' = code /\ UNCHANGED <<argv, options, achieved, stage, suite>>
    BY DEF Exit, loader
<1>2. AsksForHelp' = AsksForHelp /\ Worked' = Worked
    BY <1>1 DEF AsksForHelp, Worked
<1>3. stage' \in {"idle", "loaded", "rejected"}
    BY <1>1 DEF OInv
<1> QED BY <1>1, <1>2, <1>3 DEF OInv, Early, Places

LEMMA GoesOn ==
    ASSUME OInv, UNCHANGED <<loader, argv, achieved, status>>, at \in Early, at' \in Early
    PROVE  OInv'
BY DEF OInv, Early, Places, loader

LEMMA EarlyOutcome ==
    ASSUME AInv, OInv, UNCHANGED loader,
           \/ Main \/ RunVerify \/ RunBenchmarkCommand \/ EnvironmentOption \/ SmokeEnvironment
           \/ ParseOption \/ ParsePassthrough \/ CheckOptions
    PROVE  OInv'
<1>1. CASE Main
    <2>1. at = "main" /\ at \in Early
        BY <1>1 DEF Main, Early
    <2>2. CASE (argv = << >> \/ IsHelp(argv[1]) \/ argv[1] = Word("--version")) /\ Exit(0)
        BY <2>1, <2>2, Ends DEF AsksForHelp
    <2>3. CASE Exit(2) /\ argv[1] # Word("run")
        BY <2>1, <2>3, Ends
    <2>4. CASE Goto("verify") \/ Goto("run") \/ (at' = "smoke-options" /\ UNCHANGED <<argv, achieved, status>>)
        BY <2>1, <2>4, GoesOn DEF Goto, Early
    <2> QED BY <1>1, <2>2, <2>3, <2>4 DEF Main
<1>2. CASE RunVerify
    <2>1. at = "verify" /\ at \in Early /\ argv[1] = Word("verify") /\ argv[1] # Word("run")
        BY <1>2, Words DEF RunVerify, Early, AInv
    <2>2. CASE Len(argv) = 2 /\ IsHelp(argv[2]) /\ Exit(0)
        BY <2>1, <2>2, Ends DEF AsksForHelp
    <2>3. CASE Exit(2)
        BY <2>1, <2>3, Ends
    <2>4. CASE Enter("verify-options")
        BY <2>1, <2>4, GoesOn DEF Enter, Early
    <2> QED BY <1>2, <2>2, <2>3, <2>4 DEF RunVerify
<1>3. CASE RunBenchmarkCommand
    <2>1. at = "run" /\ at \in Early /\ argv[1] = Word("run")
        BY <1>3 DEF RunBenchmarkCommand, Early, AInv
    <2>2. CASE Len(argv) = 2 /\ IsHelp(argv[2]) /\ Exit(0)
        BY <2>1, <2>2, Ends DEF AsksForHelp
    <2>3. CASE Exit(1)
        BY <2>1, <2>3, Ends
    <2>4. CASE Enter("run-options")
        BY <2>1, <2>4, GoesOn DEF Enter, Early
    <2> QED BY <1>3, <2>2, <2>3, <2>4 DEF RunBenchmarkCommand
<1>4. CASE EnvironmentOption
    <2>1. /\ at \in {"verify-options", "smoke-options"} /\ at \in Early /\ index <= Len(argv)
          /\ index \in Nat /\ Len(argv) \in Nat
          /\ at = "verify-options" => argv[1] = Word("verify") /\ index % 2 = 1 /\ 3 <= index
          /\ at = "smoke-options" => argv[1] = Word("smoke") /\ index % 2 = 0 /\ 2 <= index
        BY <1>4 DEF EnvironmentOption, More, Early, AInv
    <2>2. argv[1] # Word("run")
        BY <2>1, Words
    <2>3. CASE IsHelp(argv[index]) /\ Exit(0)
        <3>1. AsksForHelp
            <4>1. at = "verify-options" => index \in 3 .. Len(argv)
                BY <2>1
            <4>2. at = "smoke-options" => index \in 2 .. Len(argv)
                BY <2>1
            <4> QED BY <2>1, <2>3, <4>1, <4>2 DEF AsksForHelp
        <3> QED BY <2>1, <2>3, <3>1, Ends
    <2>4. CASE Exit(2)
        BY <2>1, <2>2, <2>4, Ends
    <2>5. CASE UNCHANGED <<argv, at, achieved, status>>
        BY <2>1, <2>5, GoesOn
    <2> QED BY <1>4, <2>3, <2>4, <2>5 DEF EnvironmentOption
<1>5. CASE SmokeEnvironment
    <2>1. at = "smoke-options" /\ at \in Early /\ argv[1] # Word("run")
        BY <1>5, Words DEF SmokeEnvironment, Early, AInv
    <2>2. CASE Goto("smoke")
        BY <2>1, <2>2, GoesOn DEF Goto, Early
    <2>3. CASE Exit(2)
        BY <2>1, <2>3, Ends
    <2> QED BY <1>5, <2>2, <2>3 DEF SmokeEnvironment
<1>6. CASE ParseOption \/ ParsePassthrough \/ CheckOptions
    <2>1. at \in {"run-options", "passthrough"} /\ at \in Early
        BY <1>6 DEF ParseOption, ParsePassthrough, CheckOptions, Early
    <2>2. CASE Exit(1)
        BY <2>1, <2>2, Ends DEF Early
    <2>3. CASE at' \in {"run-options", "passthrough", "load"} /\ UNCHANGED <<argv, achieved, status>>
        BY <2>1, <2>3, GoesOn DEF Early
    <2> QED BY <1>6, <2>1, <2>2, <2>3 DEF ParseOption, ParsePassthrough, CheckOptions, Goto
<1> QED BY <1>1, <1>2, <1>3, <1>4, <1>5, <1>6

LEMMA LateOutcome ==
    ASSUME AInv, OInv, UNCHANGED loader,
           RunMonadTenSmoke \/ Loaded \/ VerifySuite \/ Initialize \/ Measure \/ Succeed
    PROVE  OInv'
<1>1. CASE Exit(1) /\ (at # "loading" \/ stage \in {"loaded", "rejected"})
    BY <1>1, Ends
<1>2. CASE RunMonadTenSmoke /\ Achieve("smoked", "succeed")
    <2>1. /\ argv[1] = Word("smoke") /\ argv' = argv /\ achieved' = {"smoked"} /\ at' = "succeed"
          /\ status' = Running /\ stage' = "idle"
        BY <1>2 DEF RunMonadTenSmoke, Achieve, AInv, OInv, Early, loader
    <2>2. Worked'
        BY <2>1, Words DEF Worked
    <2> QED BY <2>1, <2>2 DEF OInv, Early, Places
<1>3. CASE Loaded /\ Goto("verifying") /\ stage = "loaded"
    BY <1>3 DEF Loaded, Goto, OInv, Early, Places, loader
<1>4. CASE VerifySuite /\ FitsEnvironment /\ Achieve("verified", IF argv[1] = Word("run") THEN "library" ELSE "succeed")
    <2>1. /\ argv' = argv /\ achieved' = {"verified"} /\ status' = Running /\ stage' = "loaded"
          /\ suite'.env = Environment /\ argv[1] \in {Word("run"), Word("verify")}
          /\ at' = IF argv[1] = Word("run") THEN "library" ELSE "succeed"
        BY <1>4 DEF VerifySuite, FitsEnvironment, Achieve, AInv, OInv, Places, loader
    <2>2. argv[1] # Word("run") => Worked'
        BY <2>1, Words DEF Worked
    <2> QED BY <2>1, <2>2 DEF OInv, Early, Places
<1>5. CASE Initialize /\ at' = "measure"
    BY <1>5 DEF Initialize, Exit, OInv, Early, Places, loader
<1>6. CASE Initialize /\ Exit(0) /\ \E i \in DOMAIN BenchmarkArguments : BenchmarkArguments[i] = Word("--help")
    <2>1. /\ at = "library" /\ argv[1] = Word("run") /\ options.passthrough \in Seq(Free)
        BY <1>6 DEF Initialize, AInv
    <2>2. PICK i \in DOMAIN BenchmarkArguments : BenchmarkArguments[i] = Word("--help")
        BY <1>6
    <2>3. \E j \in DOMAIN options.passthrough : options.passthrough[j] = Word("--help")
        BY <2>1, <2>2, HelpIsPassed
    <2>4. AsksForHelp
        BY <2>1, <2>3 DEF AsksForHelp, IsHelp
    <2> QED BY <1>6, <2>1, <2>4, Ends
<1>7. CASE Measure /\ Achieve("measured", "succeed")
    <2>1. /\ argv' = argv /\ achieved' = {"verified", "measured"} /\ status' = Running /\ stage' = "loaded"
          /\ suite'.env = Environment /\ argv[1] = Word("run") /\ at' = "succeed"
        BY <1>7 DEF Measure, Achieve, AInv, OInv, Places, loader
    <2>2. Worked'
        BY <2>1, Words DEF Worked
    <2> QED BY <2>1, <2>2 DEF OInv, Early, Places
<1>8. CASE Succeed
    BY <1>8, Ends DEF Succeed, OInv
<1> QED BY <1>1, <1>2, <1>3, <1>4, <1>5, <1>6, <1>7, <1>8
        DEF RunMonadTenSmoke, Loaded, VerifySuite, Initialize, Measure

\* Every step keeps what has been done where the program is.
LEMMA OutcomeInvariant == Spec => []OInv
<1>1. CommandInit => OInv
    BY DEF CommandInit, LoaderInit, OInv, Early, Places
<1>2. AInv /\ OInv /\ [Next]_<<loader, command>> => OInv'
    <2> SUFFICES ASSUME AInv, OInv, [Next]_<<loader, command>> PROVE OInv'
        OBVIOUS
    <2>1. CASE Command /\ UNCHANGED loader
        BY <2>1, EarlyOutcome, LateOutcome DEF Command
    <2>2. CASE StartLoading
        BY <2>2 DEF StartLoading, OInv, Early, Places
    <2>3. CASE LoadFixtureSuite /\ UNCHANGED command
        <3>1. at = "loading" /\ at' = "loading" /\ status' = status /\ achieved' = achieved
            BY <2>3, LoaderIsBusy DEF OInv, command
        <3> QED BY <3>1 DEF OInv, Early, Places
    <2>4. CASE UNCHANGED <<loader, command>>
        <3>1. /\ UNCHANGED <<argv, at, options, achieved, status, stage, suite>>
            BY <2>4 DEF command, loader
        <3>2. AsksForHelp' = AsksForHelp /\ Worked' = Worked
            BY <3>1 DEF AsksForHelp, Worked
        <3> QED BY <3>1, <3>2 DEF OInv
    <2> QED BY <2>1, <2>2, <2>3, <2>4 DEF Next
<1> QED BY <1>1, <1>2, ArgumentsInvariant, PTL DEF Spec

\* Exit status 0 means that help was asked for or that what was asked for was done, on a
\* valid bundle of the build's environment, and 2 that nothing was read: for every command
\* line and bundle (main, run_verify, run_smoke, run_benchmark_command).
THEOREM ExitStatus == Spec => []ZeroMeansDone
<1>1. IInv /\ OInv => ZeroMeansDone
    <2> SUFFICES ASSUME IInv, OInv PROVE ZeroMeansDone
        OBVIOUS
    <2>1. CASE status = 0 /\ ~AsksForHelp
        <3>1. at = "exit"
            BY <2>1 DEF OInv, Running
        <3>2. Worked
            BY <2>1, <3>1 DEF OInv
        <3>3. argv[1] # Word("smoke") => Valid(document) /\ suite.env = document.manifest.env
            BY <3>2, LoadedIsValid DEF Worked, IInv, ManifestRead
        <3> QED BY <2>1, <3>2, <3>3 DEF ZeroMeansDone, Worked
    <2>2. CASE status = 2
        BY <2>2 DEF OInv, Running, ZeroMeansDone
    <2> QED BY <2>1, <2>2 DEF ZeroMeansDone
<1>2. Spec => []IInv
    BY InitInvariant, NextPreserves, PTL DEF Spec
<1> QED BY <1>1, <1>2, OutcomeInvariant, PTL

=============================================================================
