----------------------------- MODULE GlobProofs -----------------------------
(***************************************************************************)
(* That the filter selects only what the documentation says, and for names *)
(* without an asterisk exactly that: for all patterns and names.           *)
(***************************************************************************)
EXTENDS Glob, Integers, TLAPS

Results == {"running", "match", "no match"}

Typed ==
    /\ pattern \in Seq(Characters) /\ value \in Seq(Characters) /\ result \in Results
    /\ patternIndex \in 0 .. Len(pattern) /\ valueIndex \in 0 .. Len(value)
    /\ star # NoStar => star \in 0 .. patternIndex - 1 /\ pattern[star + 1] = Many
    /\ retryValue \in 0 .. valueIndex

\* Piece k of a cut is one its pattern character allows.
Piece(cut, k) ==
    \/ pattern[k] = Many /\ cut[k - 1] <= cut[k]
    \/ pattern[k] = Any /\ cut[k] = cut[k - 1] + 1
    \/ pattern[k] \notin {Many, Any} /\ cut[k] = cut[k - 1] + 1 /\ pattern[k] = value[cut[k]]

-----------------------------------------------------------------------------
(* Soundness: there is always a way to have come here.                     *)

\* The first i pattern characters describe the first j characters of the name.
Reached(i, j) ==
    \E cut \in [0 .. i -> 0 .. j] :
        cut[0] = 0 /\ cut[i] = j /\ \A k \in 1 .. i : Piece(cut, k)

Sound ==
    /\ Typed
    /\ Reached(patternIndex, valueIndex)
    /\ star # NoStar => Reached(star + 1, retryValue)
    /\ result = "match" => Matches(pattern, value)

\* One more pattern character.
LEMMA Extend ==
    ASSUME NEW i \in Nat, NEW j \in Nat, NEW k \in Nat, Reached(i, j),
           \/ pattern[i + 1] = Many /\ j <= k
           \/ pattern[i + 1] \in {Any, value[k]} /\ k = j + 1
    PROVE  Reached(i + 1, k)
<1>1. PICK cut \in [0 .. i -> 0 .. j] :
        cut[0] = 0 /\ cut[i] = j /\ \A n \in 1 .. i : Piece(cut, n)
    BY DEF Reached
<1> DEFINE longer == [n \in 0 .. i + 1 |-> IF n <= i THEN cut[n] ELSE k]
<1>2. longer \in [0 .. i + 1 -> 0 .. k] /\ longer[0] = 0 /\ longer[i + 1] = k /\ longer[i] = j
    BY <1>1
<1>3. ASSUME NEW n \in 1 .. i + 1 PROVE Piece(longer, n)
    <2>1. CASE n <= i
        <3>1. longer[n] = cut[n] /\ longer[n - 1] = cut[n - 1] /\ Piece(cut, n)
            BY <1>1, <2>1
        <3> QED BY <3>1 DEF Piece
    <2>2. CASE n = i + 1
        <3>1. longer[n] = k /\ longer[n - 1] = j
            BY <1>2, <2>2
        <3> QED BY <2>2, <3>1 DEF Piece
    <2> QED BY <2>1, <2>2
<1> QED BY <1>2, <1>3 DEF Reached

\* A star may describe more.
LEMMA Widen ==
    ASSUME NEW i \in Nat, NEW j \in Nat, Reached(i + 1, j), pattern[i + 1] = Many
    PROVE  Reached(i + 1, j + 1)
<1>1. PICK cut \in [0 .. i + 1 -> 0 .. j] :
        cut[0] = 0 /\ cut[i + 1] = j /\ \A n \in 1 .. i + 1 : Piece(cut, n)
    BY DEF Reached
<1> DEFINE wider == [n \in 0 .. i + 1 |-> IF n <= i THEN cut[n] ELSE j + 1]
<1>2. wider \in [0 .. i + 1 -> 0 .. j + 1] /\ wider[0] = 0 /\ wider[i + 1] = j + 1
    BY <1>1
<1>3. ASSUME NEW n \in 1 .. i + 1 PROVE Piece(wider, n)
    <2>1. CASE n <= i
        <3>1. wider[n] = cut[n] /\ wider[n - 1] = cut[n - 1] /\ Piece(cut, n)
            BY <1>1, <2>1
        <3> QED BY <3>1 DEF Piece
    <2>2. CASE n = i + 1
        <3>1. wider[n - 1] = cut[i] /\ cut[i] \in 0 .. j
            BY <1>1, <2>2
        <3> QED BY <1>2, <2>2, <3>1 DEF Piece
    <2> QED BY <2>1, <2>2
<1> QED BY <1>2, <1>3 DEF Reached

\* All of the pattern describes all of the name.
LEMMA ReachedAll ==
    ASSUME Typed, Reached(Len(pattern), Len(value))
    PROVE  Matches(pattern, value)
<1>1. PICK cut \in [0 .. Len(pattern) -> 0 .. Len(value)] :
        /\ cut[0] = 0 /\ cut[Len(pattern)] = Len(value)
        /\ \A k \in 1 .. Len(pattern) : Piece(cut, k)
    BY DEF Reached
<1>2. cut \in Cuts(pattern, value)
    BY <1>1 DEF Cuts, Piece
<1> QED BY <1>1, <1>2 DEF Matches

LEMMA SoundInit == Init => Sound
<1> SUFFICES ASSUME Init PROVE Sound
    OBVIOUS
<1>1. Typed
    BY GlobAssumption DEF Init, Typed, Words, Results
<1>2. Reached(0, 0)
    <2> DEFINE nothing == [k \in 0 .. 0 |-> 0]
    <2>1. nothing \in [0 .. 0 -> 0 .. 0] /\ nothing[0] = 0 /\ \A k \in 1 .. 0 : Piece(nothing, k)
        OBVIOUS
    <2> HIDE DEF nothing
    <2> QED BY <2>1 DEF Reached
<1> QED BY <1>1, <1>2 DEF Init, Sound

LEMMA SoundNext == Sound /\ [Next]_vars => Sound'
<1> SUFFICES ASSUME Sound, [Next]_vars PROVE Sound'
    OBVIOUS
<1> USE DEF Sound, Typed, InPattern, InValue, AtStar, Consumes, Here, Results
<1>a. ASSUME pattern' = pattern, value' = value
      PROVE  /\ \A i, j : Reached(i, j)' <=> Reached(i, j)
             /\ Matches(pattern, value)' <=> Matches(pattern, value)
    <2>1. \A cut, k : Piece(cut, k)' <=> Piece(cut, k)
        BY <1>a DEF Piece
    <2> QED BY <1>a, <2>1 DEF Reached
<1>1. CASE Literal
    <2>1. Reached(patternIndex + 1, valueIndex + 1)
        BY <1>1, Extend DEF Literal
    <2> QED BY <1>1, <1>a, <2>1 DEF Literal
<1>2. CASE Star
    <2>1. Reached(patternIndex + 1, valueIndex)
        BY <1>2, Extend DEF Star
    <2> QED BY <1>2, <1>a, <2>1, GlobAssumption DEF Star
<1>3. CASE Backtrack
    <2>1. Reached(star + 1, retryValue + 1)
        <3>1. star \in Nat /\ retryValue \in Nat /\ pattern[star + 1] = Many /\ Reached(star + 1, retryValue)
            BY <1>3 DEF Backtrack
        <3> QED BY <3>1, Widen
    <2> QED BY <1>3, <1>a, <2>1 DEF Backtrack
<1>4. CASE Reject
    BY <1>4, <1>a DEF Reject
<1>5. CASE SkipStar
    <2>1. Reached(patternIndex + 1, valueIndex)
        <3>1. /\ patternIndex \in Nat /\ valueIndex \in Nat /\ Reached(patternIndex, valueIndex)
              /\ pattern[patternIndex + 1] = Many /\ valueIndex <= valueIndex
            BY <1>5 DEF SkipStar
        <3> QED BY <3>1, Extend
    <2> QED BY <1>5, <1>a, <2>1 DEF SkipStar
<1>6. CASE Finish
    <2>1. CASE InPattern
        BY <1>6, <1>a, <2>1 DEF Finish
    <2>2. CASE ~InPattern
        <3>1. Matches(pattern, value)
            BY <1>6, <2>2, ReachedAll DEF Finish
        <3> QED BY <1>6, <1>a, <2>2, <3>1 DEF Finish
    <2> QED BY <2>1, <2>2
<1>7. CASE UNCHANGED vars
    BY <1>7, <1>a DEF vars
<1> QED BY <1>1, <1>2, <1>3, <1>4, <1>5, <1>6, <1>7 DEF Next

\* A case is selected only if the pattern describes its name, whatever the pattern
\* and the name (glob_match).
THEOREM SelectsSoundly == Spec => []SelectsOnlyMatches
<1>1. Sound => SelectsOnlyMatches
    BY DEF Sound, SelectsOnlyMatches
<1> QED BY <1>1, SoundInit, SoundNext, PTL DEF Spec

-----------------------------------------------------------------------------
(* Completeness, for a name without an asterisk: every way to match is still *)
(* ahead.  Up to the last star passed it has used at least as much of the    *)
(* name as the loop; after that star both have used one character each.      *)

Plain == \A i \in 1 .. Len(value) : value[i] # Many

Full == {cut \in Cuts(pattern, value) : cut[Len(pattern)] = Len(value)}

Ahead(cut) ==
    /\ cut[patternIndex] >= valueIndex
    /\ star = NoStar => cut[patternIndex] = valueIndex
    /\ star # NoStar => cut[star + 1] >= retryValue
    /\ star # NoStar /\ InValue => cut[patternIndex] - cut[star + 1] = patternIndex - star - 1

Complete ==
    Plain =>
      /\ \A cut \in Full : Ahead(cut)
      /\ star # NoStar /\ InValue => valueIndex - retryValue = patternIndex - star - 1
      /\ result = "no match" => Full = {}

\* What a full match looks like.
LEMMA FullMatch ==
    ASSUME Typed, NEW cut \in Full
    PROVE  /\ cut \in [0 .. Len(pattern) -> 0 .. Len(value)] /\ cut[0] = 0
           /\ cut[Len(pattern)] = Len(value)
           /\ \A k \in 1 .. Len(pattern) : Piece(cut, k)
BY DEF Full, Cuts, Piece

\* Its next piece.
LEMMA NextPiece ==
    ASSUME Typed, InPattern, NEW cut \in Full
    PROVE  LET here == cut[patternIndex]  there == cut[patternIndex + 1] IN
           /\ here \in 0 .. Len(value) /\ there \in 0 .. Len(value) /\ here <= there
           /\ pattern[patternIndex + 1] # Many => there = here + 1
           /\ pattern[patternIndex + 1] \notin {Many, Any} => pattern[patternIndex + 1] = value[here + 1]
<1>1. /\ patternIndex \in Nat /\ patternIndex + 1 \in 1 .. Len(pattern)
      /\ patternIndex \in 0 .. Len(pattern) /\ patternIndex + 1 \in 0 .. Len(pattern)
    BY DEF Typed, InPattern
<1>2. /\ cut[patternIndex] \in 0 .. Len(value) /\ cut[patternIndex + 1] \in 0 .. Len(value)
      /\ Piece(cut, patternIndex + 1)
    BY <1>1, FullMatch
<1>3. (patternIndex + 1) - 1 = patternIndex /\ Len(value) \in Nat
    BY <1>1 DEF Typed
<1> QED BY <1>2, <1>3 DEF Piece

\* If a full match stands exactly here, the next characters fit each other.
LEMMA FitsHere ==
    ASSUME Typed, InValue, ~AtStar, NEW cut \in Full, cut[patternIndex] = valueIndex
    PROVE  Consumes
<1>1. cut[Len(pattern)] = Len(value)
    BY FullMatch
<1>2. InPattern
    BY <1>1 DEF Typed, InPattern, InValue
<1>3. pattern[patternIndex + 1] \notin {Many, Any} => pattern[patternIndex + 1] = value[valueIndex + 1]
    BY <1>2, NextPiece
<1> QED BY <1>2, <1>3 DEF Consumes, AtStar, Here

\* One character more on both sides.
LEMMA OneMore ==
    ASSUME NEW here \in Int, NEW there \in Int, NEW after \in Int, NEW i \in Int, NEW j \in Int,
           there = here + 1, here >= j, NEW n \in Int, here - after = i - n - 1
    PROVE  there >= j + 1 /\ there - after = i + 1 - n - 1
OBVIOUS

LEMMA CompleteInit == Init => Complete
<1> SUFFICES ASSUME Init PROVE Complete
    OBVIOUS
<1>1. Typed
    BY SoundInit DEF Sound
<1> QED BY <1>1, FullMatch DEF Init, Complete, Ahead

LEMMA CompleteNext == Typed /\ Typed' /\ Complete /\ [Next]_vars => Complete'
<1> SUFFICES ASSUME Typed, Typed', Complete, [Next]_vars, Plain PROVE Complete'
    BY DEF Complete, Plain, Next, vars, Literal, Star, Backtrack, Reject, SkipStar, Finish
<1> USE DEF InPattern, InValue, AtStar, Here
<1>a. pattern' = pattern /\ value' = value /\ Full' = Full
    BY DEF Next, vars, Literal, Star, Backtrack, Reject, SkipStar, Finish, Full
<1>b. /\ \A cut \in Full : Ahead(cut)
      /\ star # NoStar /\ InValue => valueIndex - retryValue = patternIndex - star - 1
      /\ result = "no match" => Full = {}
    BY DEF Complete
<1>1. CASE Literal
    <2>1. InPattern /\ pattern[patternIndex + 1] # Many
        BY <1>1, GlobAssumption DEF Literal, Consumes, Plain, Typed
    <2>2. ASSUME NEW cut \in Full PROVE Ahead(cut)'
        <3>1. Ahead(cut) /\ cut[patternIndex + 1] = cut[patternIndex] + 1
            BY <1>b, <2>1, NextPiece
        <3>2. cut[patternIndex] \in Int /\ (star # NoStar => star + 1 \in 0 .. Len(pattern))
            BY <2>1, NextPiece, SMTT(30) DEF Typed
        <3>3. star # NoStar => cut[star + 1] \in Int
            BY <3>2, FullMatch
        <3>4. /\ patternIndex' = patternIndex + 1 /\ valueIndex' = valueIndex + 1
              /\ star' = star /\ retryValue' = retryValue /\ InValue
              /\ patternIndex \in Int /\ valueIndex \in Int /\ retryValue \in Int
            BY <1>1 DEF Literal, Typed
        <3>5. CASE star = NoStar
            BY <3>1, <3>2, <3>4, <3>5 DEF Ahead
        <3>6. CASE star # NoStar
            <4>1. star \in Int
                BY <3>6 DEF Typed
            <4>2. /\ cut[patternIndex] >= valueIndex /\ cut[star + 1] >= retryValue
                  /\ cut[patternIndex] - cut[star + 1] = patternIndex - star - 1
                BY <3>1, <3>4, <3>6 DEF Ahead
            <4>3. /\ cut[patternIndex + 1] >= valueIndex + 1
                  /\ cut[patternIndex + 1] - cut[star + 1] = patternIndex + 1 - star - 1
                <5>1. cut[star + 1] \in Int /\ cut[patternIndex + 1] \in Int /\ cut[patternIndex] \in Int
                    BY <3>1, <3>2, <3>3, <3>6
                <5> QED BY <3>1, <3>4, <4>1, <4>2, <5>1, OneMore, SMTT(30)
            <4>4. star' # NoStar /\ cut[star' + 1] >= retryValue'
                BY <3>4, <3>6, <4>2
            <4>5. /\ cut[patternIndex'] >= valueIndex'
                  /\ cut[patternIndex'] - cut[star' + 1] = patternIndex' - star' - 1
                BY <3>4, <4>1, <4>3
            <4> QED BY <4>4, <4>5 DEF Ahead
        <3> QED BY <3>5, <3>6
    <2> QED BY <1>1, <1>a, <1>b, <2>2 DEF Literal, Complete, Typed
<1>2. CASE Star
    <2>1. ASSUME NEW cut \in Full PROVE Ahead(cut)'
        <3>1. /\ Ahead(cut) /\ cut[patternIndex] <= cut[patternIndex + 1]
              /\ cut[patternIndex] \in Int /\ cut[patternIndex + 1] \in Int
            BY <1>2, <1>b, NextPiece DEF Star
        <3> QED BY <1>2, <1>a, <3>1, GlobAssumption, SMTT(30) DEF Star, Ahead, Typed
    <2> QED BY <1>2, <1>a, <1>b, <2>1 DEF Star, Complete, Typed
<1>3. CASE Backtrack
    <2>1. ASSUME NEW cut \in Full PROVE Ahead(cut)'
        <3>1. Ahead(cut) /\ cut[patternIndex] # valueIndex
            BY <1>3, <1>b, FitsHere DEF Backtrack
        <3>2. star + 1 \in 0 .. Len(pattern) /\ patternIndex \in 0 .. Len(pattern)
            BY <1>3 DEF Backtrack, Typed
        <3>3. cut[star + 1] \in Int /\ cut[patternIndex] \in Int
            BY <3>2, FullMatch
        <3>4. /\ star \in Int /\ patternIndex \in Int /\ valueIndex \in Int /\ retryValue \in Int
              /\ star # NoStar /\ InValue
            BY <1>3 DEF Backtrack, Typed
        <3>5. /\ cut[star + 1] >= retryValue
              /\ cut[patternIndex] - cut[star + 1] = valueIndex - retryValue
            BY <1>b, <3>1, <3>4 DEF Ahead
        <3>6. cut[star + 1] >= retryValue + 1
            BY <3>1, <3>3, <3>4, <3>5
        <3>7. patternIndex' = star + 1 /\ valueIndex' = retryValue + 1 /\ retryValue' = retryValue + 1 /\ star' = star
            BY <1>3 DEF Backtrack
        <3> QED BY <3>3, <3>4, <3>6, <3>7 DEF Ahead
    <2> QED BY <1>3, <1>a, <1>b, <2>1 DEF Backtrack, Complete, Typed
<1>4. CASE Reject
    <2>1. Full = {}
        <3> SUFFICES ASSUME NEW cut \in Full PROVE FALSE
            OBVIOUS
        <3> QED BY <1>4, <1>b, FitsHere DEF Reject, Ahead
    <2> QED BY <1>4, <1>a, <2>1 DEF Reject, Complete, Typed
<1>5. CASE SkipStar
    <2>1. ASSUME NEW cut \in Full PROVE Ahead(cut)'
        <3>1. /\ Ahead(cut) /\ cut[patternIndex] <= cut[patternIndex + 1]
              /\ cut[patternIndex] \in 0 .. Len(value) /\ cut[patternIndex + 1] \in 0 .. Len(value)
            BY <1>5, <1>b, NextPiece DEF SkipStar
        <3>2. valueIndex = Len(value)
            BY <1>5 DEF SkipStar, Typed
        <3> QED BY <1>5, <1>a, <3>1, <3>2 DEF SkipStar, Ahead, Typed
    <2> QED BY <1>5, <1>a, <1>b, <2>1 DEF SkipStar, Complete, Typed
<1>6. CASE Finish
    <2>1. ASSUME InPattern, NEW cut \in Full PROVE FALSE
        <3>1. Ahead(cut) /\ cut[patternIndex + 1] = cut[patternIndex] + 1
            BY <1>6, <1>b, <2>1, NextPiece DEF Finish
        <3>2. cut[patternIndex] \in 0 .. Len(value) /\ cut[patternIndex + 1] \in 0 .. Len(value)
            BY <2>1, NextPiece
        <3>3. valueIndex = Len(value) /\ Len(value) \in Nat
            <4>1. Len(value) \in Nat /\ valueIndex \in 0 .. Len(value)
                BY DEF Typed
            <4>2. ~(valueIndex < Len(value))
                BY <1>6 DEF Finish
            <4> QED BY <4>1, <4>2
        <3> QED BY <3>1, <3>2, <3>3 DEF Ahead
    <2> QED BY <1>6, <1>a, <1>b, <2>1 DEF Finish, Complete, Typed, Ahead
<1>7. CASE UNCHANGED vars
    BY <1>7, <1>a, <1>b DEF vars, Complete, Ahead
<1> QED BY <1>1, <1>2, <1>3, <1>4, <1>5, <1>6, <1>7 DEF Next

\* For a name without an asterisk the loop decides exactly what the documentation
\* says, although it remembers one star only (glob_match).
THEOREM DecidesPlainNames == Spec => []PlainNamesMatch
<1>1. Sound /\ Complete => PlainNamesMatch
    <2> SUFFICES ASSUME Sound, Complete, Plain, result # "running"
                 PROVE  result = "match" <=> Matches(pattern, value)
        BY DEF PlainNamesMatch, MatchesAsDocumented, Plain
    <2>1. result = "no match" => ~Matches(pattern, value)
        BY DEF Complete, Full, Matches
    <2> QED BY <2>1 DEF Sound, Typed, Results
<1>2. Sound => Typed
    BY DEF Sound
<1> QED BY <1>1, <1>2, SoundInit, SoundNext, CompleteInit, CompleteNext, PTL DEF Spec

=============================================================================
