-------------------------------- MODULE Glob --------------------------------
(***************************************************************************)
(* glob_match of src/src/benchmark.cpp: the loop by which --filter selects *)
(* cases by name, one action per branch, and what the documentation says a *)
(* pattern matches.                                                        *)
(***************************************************************************)
EXTENDS Naturals, Sequences

CONSTANTS
  Characters,      \* of which patterns and names are made
  Any, Many,       \* '?' and '*'
  MaxPattern, MaxValue,   \* bounds on the lengths tried
  NoStar           \* std::string_view::npos

ASSUME GlobAssumption ==
  /\ Any \in Characters /\ Many \in Characters /\ Any # Many
  /\ MaxPattern \in Nat /\ MaxValue \in Nat
  /\ NoStar \notin Nat

VARIABLES
  pattern, value,            \* the arguments
  patternIndex, valueIndex,  \* how much of each is consumed
  star,                      \* index of the last '*' passed, or NoStar
  retryValue,                \* where that star's match ends for now
  result                     \* "running", "match" or "no match"

vars == <<pattern, value, patternIndex, valueIndex, star, retryValue, result>>

Words(n) == UNION {[1 .. k -> Characters] : k \in 0 .. n}

Here == pattern[patternIndex + 1]

InPattern == patternIndex < Len(pattern)
InValue == valueIndex < Len(value)

\* Seeded fault: '?' is taken for an ordinary character.
FaultyConsumes == InPattern /\ Here = value[valueIndex + 1]

Consumes == InPattern /\ Here \in {Any, value[valueIndex + 1]}

AtStar == InPattern /\ Here = Many

Literal ==
  /\ result = "running" /\ InValue /\ Consumes
  /\ patternIndex' = patternIndex + 1
  /\ valueIndex' = valueIndex + 1
  /\ UNCHANGED <<pattern, value, star, retryValue, result>>

Star ==
  /\ result = "running" /\ InValue /\ ~Consumes /\ AtStar
  /\ star' = patternIndex
  /\ patternIndex' = patternIndex + 1
  /\ retryValue' = valueIndex
  /\ UNCHANGED <<pattern, value, valueIndex, result>>

\* Seeded fault: value_index = retry_value++, so the star never grows.
FaultyBacktrack ==
  /\ result = "running" /\ InValue /\ ~Consumes /\ ~AtStar /\ star # NoStar
  /\ patternIndex' = star + 1
  /\ valueIndex' = retryValue
  /\ UNCHANGED <<pattern, value, star, retryValue, result>>

Backtrack ==
  /\ result = "running" /\ InValue /\ ~Consumes /\ ~AtStar /\ star # NoStar
  /\ patternIndex' = star + 1
  /\ retryValue' = retryValue + 1
  /\ valueIndex' = retryValue + 1
  /\ UNCHANGED <<pattern, value, star, result>>

Reject ==
  /\ result = "running" /\ InValue /\ ~Consumes /\ ~AtStar /\ star = NoStar
  /\ result' = "no match"
  /\ UNCHANGED <<pattern, value, patternIndex, valueIndex, star, retryValue>>

SkipStar ==
  /\ result = "running" /\ ~InValue /\ AtStar
  /\ patternIndex' = patternIndex + 1
  /\ UNCHANGED <<pattern, value, valueIndex, star, retryValue, result>>

\* Seeded fault: what is left of the pattern is ignored.
FaultyFinish ==
  /\ result = "running" /\ ~InValue /\ ~AtStar
  /\ result' = "match"
  /\ UNCHANGED <<pattern, value, patternIndex, valueIndex, star, retryValue>>

Finish ==
  /\ result = "running" /\ ~InValue /\ ~AtStar
  /\ result' = IF InPattern THEN "no match" ELSE "match"
  /\ UNCHANGED <<pattern, value, patternIndex, valueIndex, star, retryValue>>

Init ==
  /\ pattern \in Words(MaxPattern) /\ value \in Words(MaxValue)
  /\ patternIndex = 0 /\ valueIndex = 0
  /\ star = NoStar /\ retryValue = 0
  /\ result = "running"

Next == Literal \/ Star \/ Backtrack \/ Reject \/ SkipStar \/ Finish

\* A sequential loop: it takes every step it can.
Spec == Init /\ [][Next]_vars /\ WF_vars(Next)

-----------------------------------------------------------------------------
(* What a pattern matches: the name can be cut into one piece per pattern  *)
(* character, of any length for '*', one character for '?', and the        *)
(* character itself for any other.                                         *)

Cuts(p, v) ==
  {cut \in [0 .. Len(p) -> 0 .. Len(v)] :
     /\ cut[0] = 0
     /\ \A i \in 1 .. Len(p) :
          \/ p[i] = Many /\ cut[i - 1] <= cut[i]
          \/ p[i] = Any /\ cut[i] = cut[i - 1] + 1
          \/ /\ p[i] \notin {Many, Any}
             /\ cut[i] = cut[i - 1] + 1 /\ p[i] = v[cut[i]]}

Matches(p, v) == \E cut \in Cuts(p, v) : cut[Len(p)] = Len(v)

\* benchmarking.md: "`*` matches any sequence and `?` matches one character."
MatchesAsDocumented ==
  result # "running" => (result = "match" <=> Matches(pattern, value))

\* For names without a '*' of their own, the loop's single remembered star is
\* enough: it decides exactly what the documentation says.
PlainNamesMatch ==
  (\A i \in 1 .. Len(value) : value[i] # Many) => MatchesAsDocumented

\* Whatever the name, no case is selected that the pattern does not describe.
SelectsOnlyMatches == result = "match" => Matches(pattern, value)

\* The loop ends, although a backtrack moves both indices back.
Terminates == <>(result # "running")
=============================================================================
