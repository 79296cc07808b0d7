-------------------------- MODULE DiagnosticsProofs --------------------------
(***************************************************************************)
(* Theorems about Diagnostics, for every code, every gas limit and every   *)
(* limit of the collector: what the hooks infer from the gas they are told *)
(* is what the interpreter charged, a case is turned down exactly when it  *)
(* exceeds a limit, and what is published the attribution accepts.         *)
(***************************************************************************)
EXTENDS Diagnostics, FiniteSetTheorems, WellFoundedInduction, TLAPS

-----------------------------------------------------------------------------
(* Sums over finite sets.                                                  *)

\* Every non-empty set of naturals has a least element, from which proofs by
\* contradiction over a size start.
LEMMA LeastNumber ==
    ASSUME NEW T, T \subseteq Nat, T # {}
    PROVE  \E n \in T : \A m \in T : n <= m
<1>1. \E R : IsWellFoundedOn(R, Nat) /\ \A j, k \in Nat : j < k => <<j, k>> \in R
    <2>1. \A j, k \in Nat : j < k => <<j, k>> \in OpToRel(<, Nat)
        BY DEF OpToRel
    <2> QED BY <2>1, NatLessThanWellFounded
<1>2. PICK R : IsWellFoundedOn(R, Nat) /\ \A j, k \in Nat : j < k => <<j, k>> \in R
    BY <1>1
<1>3. IsWellFoundedOn(R, Nat)
    BY <1>2
<1>4. PICK n \in T : \A m \in T : ~ (<<m, n>> \in R)
    BY <1>3, WFMin, Zenon
<1>5. ASSUME NEW m \in T PROVE n <= m
    <2>1. m \in Nat /\ n \in Nat /\ ~ (m < n)
        BY <1>2, <1>4
    <2> QED BY <2>1
<1> QED BY <1>5

\* The element a sum takes next, and the equation its fold satisfies.
Chosen(s) == CHOOSE x \in s : TRUE
Rest(s) == s \ {Chosen(s)}
Unfolds(h, g, D) == h = [s \in D |-> IF s = {} THEN 0 ELSE g[Chosen(s)] + h[Rest(s)]]

LEMMA ChosenIn == ASSUME NEW s, s # {} PROVE Chosen(s) \in s
BY DEF Chosen

LEMMA RestSmaller ==
    ASSUME NEW s, IsFiniteSet(s), s # {}
    PROVE  /\ Rest(s) \subseteq s /\ IsFiniteSet(Rest(s)) /\ Cardinality(s) \in Nat \ {0}
           /\ Cardinality(Rest(s)) = Cardinality(s) - 1
BY ChosenIn, FS_RemoveElement, FS_CardinalityType, FS_EmptySet DEF Rest

Small(S, n) == {s \in SUBSET S : Cardinality(s) <= n}

LEMMA UnfoldsSmall ==
    ASSUME NEW S, IsFiniteSet(S), NEW g
    PROVE  \A n \in Nat : \E h : Unfolds(h, g, Small(S, n))
<1> SUFFICES ASSUME \E n \in Nat : ~ \E h : Unfolds(h, g, Small(S, n)) PROVE FALSE
    OBVIOUS
<1> DEFINE Bad == {n \in Nat : ~ \E h : Unfolds(h, g, Small(S, n))}
<1>1. PICK n \in Bad : \A m \in Bad : n <= m
    <2>1. Bad # {} /\ Bad \subseteq Nat
        OBVIOUS
    <2> HIDE DEF Bad
    <2> QED BY <2>1, LeastNumber
<1>2. \A s \in SUBSET S : IsFiniteSet(s) /\ Cardinality(s) \in Nat
    BY FS_Subset, FS_CardinalityType
<1>3. CASE n = 0
    <2>1. \A s \in Small(S, 0) : s = {}
        BY <1>2, FS_EmptySet DEF Small
    <2>2. Unfolds([s \in Small(S, 0) |-> 0], g, Small(S, 0))
        BY <2>1 DEF Unfolds
    <2> QED BY <1>3, <2>2
<1>4. CASE n # 0
    <2>1. n - 1 \in Nat /\ n - 1 \notin Bad
        BY <1>1, <1>4
    <2>2. PICK h : Unfolds(h, g, Small(S, n - 1))
        BY <2>1
    <2> DEFINE k == [s \in Small(S, n) |-> IF s = {} THEN 0 ELSE g[Chosen(s)] + h[Rest(s)]]
    <2>3. \A s \in Small(S, n) : s # {} => Rest(s) \in Small(S, n - 1)
        BY <1>2, RestSmaller DEF Small
    <2>4. \A s \in Small(S, n - 1) : s \in Small(S, n)
        BY <1>2, <2>1 DEF Small
    <2>5. \A s \in Small(S, n - 1) : k[s] = h[s]
        BY <2>2, <2>4 DEF Unfolds
    <2>6. Unfolds(k, g, Small(S, n))
        BY <2>3, <2>5 DEF Unfolds
    <2> QED BY <2>6, <1>1
<1> QED BY <1>3, <1>4

\* Two folds agree where both are defined.
LEMMA UnfoldsAgree ==
    ASSUME NEW S, IsFiniteSet(S), NEW T, T \subseteq S, NEW g, NEW h, NEW k,
           Unfolds(h, g, SUBSET S), Unfolds(k, g, SUBSET T)
    PROVE  h[T] = k[T]
<1> SUFFICES ASSUME h[T] # k[T] PROVE FALSE
    OBVIOUS
<1>1. \A s \in SUBSET T : IsFiniteSet(s) /\ Cardinality(s) \in Nat
    BY FS_Subset, FS_CardinalityType
<1> DEFINE Bad == {Cardinality(s) : s \in {u \in SUBSET T : h[u] # k[u]}}
<1>2. PICK n \in Bad : \A m \in Bad : n <= m
    <2>1. Bad # {} /\ Bad \subseteq Nat
        BY <1>1
    <2> HIDE DEF Bad
    <2> QED BY <2>1, LeastNumber
<1>3. PICK s \in SUBSET T : h[s] # k[s] /\ Cardinality(s) = n
    BY <1>2
<1>4. s # {} /\ s \in SUBSET S
    BY <1>3 DEF Unfolds
<1>5. Rest(s) \in SUBSET T /\ Rest(s) \in SUBSET S /\ Cardinality(Rest(s)) = n - 1 /\ n \in Nat
    BY <1>1, <1>3, <1>4, RestSmaller
<1>6. h[Rest(s)] = k[Rest(s)]
    <2> SUFFICES ASSUME h[Rest(s)] # k[Rest(s)] PROVE FALSE
        OBVIOUS
    <2>1. n - 1 \in Bad
        BY <1>5
    <2> QED BY <1>2, <1>5, <2>1
<1>7. h[s] = g[Chosen(s)] + h[Rest(s)] /\ k[s] = g[Chosen(s)] + k[Rest(s)]
    BY <1>4 DEF Unfolds
<1> QED BY <1>3, <1>6, <1>7

\* The sum of the values of g over a finite set is what its fold says.
LEMMA SumFold ==
    ASSUME NEW g, NEW S, IsFiniteSet(S)
    PROVE  \E h : Unfolds(h, g, SUBSET S) /\ SumFunctionOnSet(g, S) = h[S]
<1>1. \E h : Unfolds(h, g, SUBSET S)
    <2>1. Cardinality(S) \in Nat /\ Small(S, Cardinality(S)) = SUBSET S
        BY FS_Subset, FS_CardinalityType DEF Small
    <2> QED BY <2>1, UnfoldsSmall
<1> DEFINE H == CHOOSE h : h = [s \in SUBSET S |-> IF s = {} THEN 0 ELSE
                   g[CHOOSE x \in s : TRUE] + h[s \ {CHOOSE x \in s : TRUE}]]
<1>2. H = [s \in SUBSET S |-> IF s = {} THEN 0 ELSE
                   g[CHOOSE x \in s : TRUE] + H[s \ {CHOOSE x \in s : TRUE}]]
    BY <1>1 DEF Unfolds, Chosen, Rest
<1>3. SumFunctionOnSet(g, S) = H[S]
    BY DEF SumFunctionOnSet, FoldFunctionOnSet, MapThenFoldSet
<1> HIDE DEF H
<1> QED BY <1>2, <1>3 DEF Unfolds, Chosen, Rest

LEMMA SumEmpty == ASSUME NEW g PROVE SumFunctionOnSet(g, {}) = 0
<1>1. PICK h : Unfolds(h, g, SUBSET {}) /\ SumFunctionOnSet(g, {}) = h[{}]
    BY SumFold, FS_EmptySet
<1> QED BY <1>1 DEF Unfolds

LEMMA SumChosen ==
    ASSUME NEW g, NEW S, IsFiniteSet(S), S # {}
    PROVE  SumFunctionOnSet(g, S) = g[Chosen(S)] + SumFunctionOnSet(g, Rest(S))
<1>1. PICK h : Unfolds(h, g, SUBSET S) /\ SumFunctionOnSet(g, S) = h[S]
    BY SumFold
<1>2. Rest(S) \subseteq S /\ IsFiniteSet(Rest(S))
    BY RestSmaller
<1>3. PICK k : Unfolds(k, g, SUBSET Rest(S)) /\ SumFunctionOnSet(g, Rest(S)) = k[Rest(S)]
    BY <1>2, SumFold
<1>4. h[Rest(S)] = k[Rest(S)]
    <2>1. ASSUME NEW D, D \subseteq S, NEW l, Unfolds(l, g, SUBSET D) PROVE h[D] = l[D]
        BY <1>1, <2>1, UnfoldsAgree
    <2> QED BY <1>2, <1>3, <2>1
<1>5. h[S] = g[Chosen(S)] + h[Rest(S)]
    BY <1>1 DEF Unfolds
<1> QED BY <1>1, <1>3, <1>4, <1>5

\* A statement about sums over finite subsets follows by their size.
LEMMA SumInt ==
    ASSUME NEW S, IsFiniteSet(S), NEW g, \A x \in S : g[x] \in Int
    PROVE  SumFunctionOnSet(g, S) \in Int
<1> SUFFICES ASSUME SumFunctionOnSet(g, S) \notin Int PROVE FALSE
    OBVIOUS
<1>1. \A s \in SUBSET S : IsFiniteSet(s) /\ Cardinality(s) \in Nat
    BY FS_Subset, FS_CardinalityType
<1> DEFINE Bad == {Cardinality(s) : s \in {u \in SUBSET S : SumFunctionOnSet(g, u) \notin Int}}
<1>2. PICK n \in Bad : \A m \in Bad : n <= m
    <2>1. Bad # {} /\ Bad \subseteq Nat
        BY <1>1
    <2> HIDE DEF Bad
    <2> QED BY <2>1, LeastNumber
<1>3. PICK s \in SUBSET S : SumFunctionOnSet(g, s) \notin Int /\ Cardinality(s) = n
    BY <1>2
<1>4. s # {}
    BY <1>3, SumEmpty
<1>5. Rest(s) \in SUBSET S /\ Cardinality(Rest(s)) = n - 1 /\ n \in Nat
    BY <1>1, <1>3, <1>4, RestSmaller
<1>6. SumFunctionOnSet(g, Rest(s)) \in Int
    <2> SUFFICES ASSUME SumFunctionOnSet(g, Rest(s)) \notin Int PROVE FALSE
        OBVIOUS
    <2>1. n - 1 \in Bad
        BY <1>5
    <2> QED BY <1>2, <1>5, <2>1
<1>7. SumFunctionOnSet(g, s) = g[Chosen(s)] + SumFunctionOnSet(g, Rest(s))
    BY <1>1, <1>4, SumChosen
<1>8. g[Chosen(s)] \in Int
    BY <1>4, ChosenIn
<1> QED BY <1>3, <1>6, <1>7, <1>8

\* A sum may take its elements in any order.
LEMMA SumTake ==
    ASSUME NEW S, IsFiniteSet(S), NEW g, \A y \in S : g[y] \in Int, NEW x \in S
    PROVE  SumFunctionOnSet(g, S) = g[x] + SumFunctionOnSet(g, S \ {x})
<1> DEFINE Total(s) == SumFunctionOnSet(g, s)
           Differs(s) == \E y \in s : Total(s) # g[y] + Total(s \ {y})
<1> SUFFICES ASSUME Differs(S) PROVE FALSE
    OBVIOUS
<1>1. \A s \in SUBSET S : IsFiniteSet(s) /\ Cardinality(s) \in Nat
    BY FS_Subset, FS_CardinalityType
<1> DEFINE Bad == {Cardinality(s) : s \in {u \in SUBSET S : Differs(u)}}
<1>2. PICK n \in Bad : \A m \in Bad : n <= m
    <2>1. Bad # {} /\ Bad \subseteq Nat
        BY <1>1
    <2> HIDE DEF Bad
    <2> QED BY <2>1, LeastNumber
<1>3. PICK s \in SUBSET S : Differs(s) /\ Cardinality(s) = n
    BY <1>2
<1>4. PICK y \in s : Total(s) # g[y] + Total(s \ {y})
    BY <1>3
<1> DEFINE c == Chosen(s)
<1>5. /\ c \in s /\ IsFiniteSet(s \ {c}) /\ Cardinality(s \ {c}) = n - 1 /\ n \in Nat
      /\ Total(s) = g[c] + Total(s \ {c})
    BY <1>1, <1>3, <1>4, ChosenIn, RestSmaller, SumChosen DEF Rest
<1>6. /\ IsFiniteSet(s \ {y}) /\ Cardinality(s \ {y}) = n - 1
    BY <1>1, <1>3, <1>4, FS_RemoveElement
<1> HIDE DEF c
<1>7. c # y
    BY <1>4, <1>5
<1>8. ~Differs(s \ {c}) /\ ~Differs(s \ {y})
    <2>1. n - 1 \notin Bad
        BY <1>2, <1>5
    <2>2. s \ {c} \in SUBSET S /\ s \ {y} \in SUBSET S
        OBVIOUS
    <2> HIDE DEF Differs
    <2> QED BY <1>5, <1>6, <2>1, <2>2
<1>9. /\ Total(s \ {c}) = g[y] + Total((s \ {c}) \ {y})
      /\ Total(s \ {y}) = g[c] + Total((s \ {y}) \ {c})
    <2>1. y \in s \ {c} /\ c \in s \ {y}
        BY <1>4, <1>5, <1>7
    <2> HIDE DEF Total
    <2> QED BY <1>8, <2>1
<1>10. (s \ {c}) \ {y} = (s \ {y}) \ {c}
    OBVIOUS
<1>11. Total((s \ {c}) \ {y}) \in Int /\ g[c] \in Int /\ g[y] \in Int
    <2>1. IsFiniteSet((s \ {c}) \ {y})
        BY <1>1
    <2> QED BY <1>4, <1>5, <2>1, SumInt
<1>12. Total(s \ {y}) = g[c] + Total((s \ {c}) \ {y})
    BY <1>9, <1>10
<1> HIDE DEF Total, Differs, Bad
<1>13. Total(s) = g[c] + (g[y] + Total((s \ {c}) \ {y}))
    BY <1>5, <1>9
<1>14. g[y] + Total(s \ {y}) = g[c] + (g[y] + Total((s \ {c}) \ {y}))
    BY <1>11, <1>12
<1> QED BY <1>4, <1>13, <1>14

\* Sums of functions that agree on the set.
LEMMA SumAgree ==
    ASSUME NEW S, IsFiniteSet(S), NEW g, NEW h, \A x \in S : g[x] = h[x]
    PROVE  SumFunctionOnSet(g, S) = SumFunctionOnSet(h, S)
<1> DEFINE Same(s) == SumFunctionOnSet(g, s) = SumFunctionOnSet(h, s)
<1> SUFFICES ASSUME ~Same(S) PROVE FALSE
    OBVIOUS
<1>1. \A s \in SUBSET S : IsFiniteSet(s) /\ Cardinality(s) \in Nat
    BY FS_Subset, FS_CardinalityType
<1> DEFINE Bad == {Cardinality(s) : s \in {u \in SUBSET S : ~Same(u)}}
<1>2. PICK n \in Bad : \A m \in Bad : n <= m
    <2>1. Bad # {} /\ Bad \subseteq Nat
        BY <1>1
    <2> HIDE DEF Bad
    <2> QED BY <2>1, LeastNumber
<1>3. PICK s \in SUBSET S : ~Same(s) /\ Cardinality(s) = n
    BY <1>2
<1>4. s # {}
    BY <1>3, SumEmpty
<1>5. Rest(s) \in SUBSET S /\ Cardinality(Rest(s)) = n - 1 /\ n \in Nat
    BY <1>1, <1>3, <1>4, RestSmaller
<1>6. Same(Rest(s))
    <2>1. n - 1 \notin Bad
        BY <1>2, <1>5
    <2> HIDE DEF Same
    <2> QED BY <1>5, <2>1
<1>7. /\ SumFunctionOnSet(g, s) = g[Chosen(s)] + SumFunctionOnSet(g, Rest(s))
      /\ SumFunctionOnSet(h, s) = h[Chosen(s)] + SumFunctionOnSet(h, Rest(s))
    BY <1>1, <1>4, SumChosen
<1>8. g[Chosen(s)] = h[Chosen(s)]
    BY <1>4, ChosenIn
<1> QED BY <1>3, <1>6, <1>7, <1>8

\* The sum of differences is the difference of the sums.
LEMMA SumMinus ==
    ASSUME NEW S, IsFiniteSet(S), NEW f, NEW g, NEW h,
           \A x \in S : g[x] \in Int /\ h[x] \in Int /\ f[x] = g[x] - h[x]
    PROVE  SumFunctionOnSet(f, S) = SumFunctionOnSet(g, S) - SumFunctionOnSet(h, S)
<1> DEFINE Same(s) == SumFunctionOnSet(f, s) = SumFunctionOnSet(g, s) - SumFunctionOnSet(h, s)
<1> SUFFICES ASSUME ~Same(S) PROVE FALSE
    OBVIOUS
<1>1. \A s \in SUBSET S : IsFiniteSet(s) /\ Cardinality(s) \in Nat
    BY FS_Subset, FS_CardinalityType
<1> DEFINE Bad == {Cardinality(s) : s \in {u \in SUBSET S : ~Same(u)}}
<1>2. PICK n \in Bad : \A m \in Bad : n <= m
    <2>1. Bad # {} /\ Bad \subseteq Nat
        BY <1>1
    <2> HIDE DEF Bad
    <2> QED BY <2>1, LeastNumber
<1>3. PICK s \in SUBSET S : ~Same(s) /\ Cardinality(s) = n
    BY <1>2
<1>4. s # {}
    <2>1. /\ SumFunctionOnSet(f, {}) = 0 /\ SumFunctionOnSet(g, {}) = 0
          /\ SumFunctionOnSet(h, {}) = 0
        BY SumEmpty
    <2>2. Same({})
        BY <2>1
    <2> HIDE DEF Same
    <2> QED BY <1>3, <2>2
<1>5. /\ Rest(s) \in SUBSET S /\ Cardinality(Rest(s)) = n - 1 /\ n \in Nat
      /\ IsFiniteSet(Rest(s))
    BY <1>1, <1>3, <1>4, RestSmaller
<1>6. Same(Rest(s))
    <2>1. n - 1 \notin Bad
        BY <1>2, <1>5
    <2> HIDE DEF Same
    <2> QED BY <1>5, <2>1
<1>7. /\ SumFunctionOnSet(f, s) = f[Chosen(s)] + SumFunctionOnSet(f, Rest(s))
      /\ SumFunctionOnSet(g, s) = g[Chosen(s)] + SumFunctionOnSet(g, Rest(s))
      /\ SumFunctionOnSet(h, s) = h[Chosen(s)] + SumFunctionOnSet(h, Rest(s))
    BY <1>1, <1>4, SumChosen
<1>8. SumFunctionOnSet(g, Rest(s)) \in Int /\ SumFunctionOnSet(h, Rest(s)) \in Int
    BY <1>5, SumInt
<1>9. /\ g[Chosen(s)] \in Int /\ h[Chosen(s)] \in Int
      /\ f[Chosen(s)] = g[Chosen(s)] - h[Chosen(s)]
    BY <1>4, ChosenIn
<1> QED BY <1>3, <1>6, <1>7, <1>8, <1>9

\* Changing one value changes the sum by as much.
Changed(g, h, S, x, d) ==
  /\ IsFiniteSet(S) /\ x \in S /\ d \in Int
  /\ \A y \in S : g[y] \in Int
  /\ h[x] = g[x] + d /\ \A y \in S \ {x} : h[y] = g[y]

LEMMA SumChange ==
    ASSUME NEW S, NEW g, NEW h, NEW x, NEW d, Changed(g, h, S, x, d)
    PROVE  SumFunctionOnSet(h, S) = SumFunctionOnSet(g, S) + d
<1> USE DEF Changed
<1>1. IsFiniteSet(S \ {x})
    BY FS_RemoveElement
<1>2. \A y \in S : h[y] \in Int
    OBVIOUS
<1>3. /\ SumFunctionOnSet(g, S) = g[x] + SumFunctionOnSet(g, S \ {x})
      /\ SumFunctionOnSet(h, S) = h[x] + SumFunctionOnSet(h, S \ {x})
    BY <1>2, SumTake
<1>4. SumFunctionOnSet(h, S \ {x}) = SumFunctionOnSet(g, S \ {x})
    BY <1>1, SumAgree
<1>5. SumFunctionOnSet(g, S \ {x}) \in Int
    BY <1>1, SumInt
<1> QED BY <1>3, <1>4, <1>5

\* A new element adds its value.
Added(g, h, S, x) ==
  /\ IsFiniteSet(S) /\ x \notin S /\ h[x] \in Int
  /\ \A y \in S : g[y] \in Int /\ h[y] = g[y]

LEMMA SumAdd ==
    ASSUME NEW S, NEW g, NEW h, NEW x, Added(g, h, S, x)
    PROVE  SumFunctionOnSet(h, S \cup {x}) = SumFunctionOnSet(g, S) + h[x]
<1> USE DEF Added
<1>1. IsFiniteSet(S \cup {x}) /\ (S \cup {x}) \ {x} = S
    BY FS_AddElement
<1>2. SumFunctionOnSet(h, S \cup {x}) = h[x] + SumFunctionOnSet(h, (S \cup {x}) \ {x})
    <2> DEFINE T == S \cup {x}
    <2>1. IsFiniteSet(T) /\ x \in T /\ \A y \in T : h[y] \in Int
        BY <1>1
    <2> HIDE DEF T
    <2>2. SumFunctionOnSet(h, T) = h[x] + SumFunctionOnSet(h, T \ {x})
        BY <2>1, SumTake
    <2> QED BY <2>2 DEF T
<1>3. SumFunctionOnSet(h, S) = SumFunctionOnSet(g, S)
    BY SumAgree
<1>4. SumFunctionOnSet(g, S) \in Int
    BY SumInt
<1>5. SumFunctionOnSet(h, (S \cup {x}) \ {x}) = SumFunctionOnSet(h, S)
    BY <1>1
<1> QED BY <1>2, <1>3, <1>4, <1>5

\* Elements of value 0 may be left out.
LEMMA SumSupport ==
    ASSUME NEW S, IsFiniteSet(S), NEW T, T \subseteq S, NEW g,
           \A x \in S : g[x] \in Int, \A x \in S \ T : g[x] = 0
    PROVE  SumFunctionOnSet(g, S) = SumFunctionOnSet(g, T)
<1> DEFINE With(s) == SumFunctionOnSet(g, T \cup s)
           Same(s) == With(s) = SumFunctionOnSet(g, T)
<1>a. S = T \cup (S \ T)
    OBVIOUS
<1> SUFFICES ASSUME ~Same(S \ T) PROVE FALSE
    BY <1>a
<1>1. \A s \in SUBSET (S \ T) : IsFiniteSet(s) /\ Cardinality(s) \in Nat /\ IsFiniteSet(T \cup s)
    BY FS_Subset, FS_CardinalityType
<1> DEFINE Bad == {Cardinality(s) : s \in {u \in SUBSET (S \ T) : ~Same(u)}}
<1>2. PICK n \in Bad : \A m \in Bad : n <= m
    <2>1. Bad # {} /\ Bad \subseteq Nat
        BY <1>1
    <2> HIDE DEF Bad
    <2> QED BY <2>1, LeastNumber
<1>3. PICK s \in SUBSET (S \ T) : ~Same(s) /\ Cardinality(s) = n
    BY <1>2
<1>4. s # {}
    <2>1. T \cup {} = T
        OBVIOUS
    <2> QED BY <1>3, <2>1
<1> DEFINE c == Chosen(s)
<1>5. /\ c \in s /\ Rest(s) \in SUBSET (S \ T) /\ Cardinality(Rest(s)) = n - 1 /\ n \in Nat
      /\ Rest(s) = s \ {c}
    BY <1>1, <1>3, <1>4, RestSmaller, ChosenIn DEF Rest
<1>6. Same(Rest(s))
    <2>1. n - 1 \notin Bad
        <3> HIDE DEF Bad
        <3> QED BY <1>2, <1>5
    <2> HIDE DEF Same
    <2> QED BY <1>5, <2>1
<1>7. SumFunctionOnSet(g, T \cup s) = g[c] + SumFunctionOnSet(g, (T \cup s) \ {c})
    <2> DEFINE u == T \cup s
    <2>1. IsFiniteSet(u) /\ c \in u /\ \A y \in u : g[y] \in Int
        BY <1>1, <1>5
    <2> HIDE DEF u, c
    <2>2. SumFunctionOnSet(g, u) = g[c] + SumFunctionOnSet(g, u \ {c})
        BY <2>1, SumTake
    <2> QED BY <2>2 DEF u
<1>8. (T \cup s) \ {c} = T \cup Rest(s)
    BY <1>5
<1>9. g[c] = 0 /\ SumFunctionOnSet(g, T) \in Int
    <2>1. IsFiniteSet(T)
        BY FS_Subset
    <2> QED BY <1>5, <2>1, SumInt
<1>10. With(s) = g[c] + With(Rest(s))
    BY <1>7, <1>8
<1> HIDE DEF c, With
<1> QED BY <1>3, <1>6, <1>9, <1>10

\* A sum of naturals is a natural, and no less than any of them.
LEMMA SumNat ==
    ASSUME NEW S, IsFiniteSet(S), NEW g, \A x \in S : g[x] \in Nat
    PROVE  SumFunctionOnSet(g, S) \in Nat
<1> SUFFICES ASSUME SumFunctionOnSet(g, S) \notin Nat PROVE FALSE
    OBVIOUS
<1>1. \A s \in SUBSET S : IsFiniteSet(s) /\ Cardinality(s) \in Nat
    BY FS_Subset, FS_CardinalityType
<1> DEFINE Bad == {Cardinality(s) : s \in {u \in SUBSET S : SumFunctionOnSet(g, u) \notin Nat}}
<1>2. PICK n \in Bad : \A m \in Bad : n <= m
    <2>1. Bad # {} /\ Bad \subseteq Nat
        BY <1>1
    <2> HIDE DEF Bad
    <2> QED BY <2>1, LeastNumber
<1>3. PICK s \in SUBSET S : SumFunctionOnSet(g, s) \notin Nat /\ Cardinality(s) = n
    BY <1>2
<1>4. s # {}
    BY <1>3, SumEmpty
<1>5. Rest(s) \in SUBSET S /\ Cardinality(Rest(s)) = n - 1 /\ n \in Nat
    BY <1>1, <1>3, <1>4, RestSmaller
<1>6. SumFunctionOnSet(g, Rest(s)) \in Nat
    <2> SUFFICES ASSUME SumFunctionOnSet(g, Rest(s)) \notin Nat PROVE FALSE
        OBVIOUS
    <2>1. n - 1 \in Bad
        BY <1>5
    <2> QED BY <1>2, <1>5, <2>1
<1>7. SumFunctionOnSet(g, s) = g[Chosen(s)] + SumFunctionOnSet(g, Rest(s))
    BY <1>1, <1>4, SumChosen
<1>8. g[Chosen(s)] \in Nat
    BY <1>4, ChosenIn
<1> QED BY <1>3, <1>6, <1>7, <1>8

-----------------------------------------------------------------------------
(* The counters of a frame.                                                *)

Counters == [Pcs -> [count : Nat, gas : Nat]]

LEMMA SumsOfCounters ==
    ASSUME NEW f, f.pcs \in Counters
    PROVE  SelfGas(f) \in Nat /\ Visited(f) \in Nat
<1> DEFINE gs == [p \in DOMAIN f.pcs |-> f.pcs[p].gas]
           cs == [p \in DOMAIN f.pcs |-> f.pcs[p].count]
<1>1. /\ DOMAIN f.pcs = Pcs /\ IsFiniteSet(Pcs) /\ DOMAIN gs = Pcs /\ DOMAIN cs = Pcs
      /\ \A p \in Pcs : gs[p] \in Nat /\ cs[p] \in Nat
    BY DiagnosticsAssumption DEF Counters
<1> HIDE DEF gs, cs
<1>2. SumFunctionOnSet(gs, Pcs) \in Nat /\ SumFunctionOnSet(cs, Pcs) \in Nat
    BY <1>1, SumNat
<1> QED BY <1>1, <1>2 DEF SelfGas, Visited, SumFunction, gs, cs

\* Charging one opcode charges the frame as much.
LEMMA SelfGasChange ==
    ASSUME NEW f, NEW g, NEW pc \in Pcs, NEW d \in Int,
           f.pcs \in Counters, g.pcs \in Counters, g.pcs[pc].gas = f.pcs[pc].gas + d,
           \A p \in Pcs \ {pc} : g.pcs[p].gas = f.pcs[p].gas
    PROVE  SelfGas(g) = SelfGas(f) + d
<1> DEFINE fs == [p \in DOMAIN f.pcs |-> f.pcs[p].gas]
           gs == [p \in DOMAIN g.pcs |-> g.pcs[p].gas]
<1>1. /\ IsFiniteSet(Pcs) /\ DOMAIN fs = Pcs /\ DOMAIN gs = Pcs
      /\ \A p \in Pcs : fs[p] \in Int
      /\ gs[pc] = fs[pc] + d /\ \A p \in Pcs \ {pc} : gs[p] = fs[p]
    BY DiagnosticsAssumption DEF Counters
<1> HIDE DEF fs, gs
<1>2. SumFunctionOnSet(gs, Pcs) = SumFunctionOnSet(fs, Pcs) + d
    BY <1>1, SumChange DEF Changed
<1> QED BY <1>1, <1>2 DEF SelfGas, SumFunction, fs, gs

LEMMA VisitedChange ==
    ASSUME NEW f, NEW g, NEW pc \in Pcs, NEW d \in Int,
           f.pcs \in Counters, g.pcs \in Counters, g.pcs[pc].count = f.pcs[pc].count + d,
           \A p \in Pcs \ {pc} : g.pcs[p].count = f.pcs[p].count
    PROVE  Visited(g) = Visited(f) + d
<1> DEFINE fs == [p \in DOMAIN f.pcs |-> f.pcs[p].count]
           gs == [p \in DOMAIN g.pcs |-> g.pcs[p].count]
<1>1. /\ IsFiniteSet(Pcs) /\ DOMAIN fs = Pcs /\ DOMAIN gs = Pcs
      /\ \A p \in Pcs : fs[p] \in Int
      /\ gs[pc] = fs[pc] + d /\ \A p \in Pcs \ {pc} : gs[p] = fs[p]
    BY DiagnosticsAssumption DEF Counters
<1> HIDE DEF fs, gs
<1>2. SumFunctionOnSet(gs, Pcs) = SumFunctionOnSet(fs, Pcs) + d
    BY <1>1, SumChange DEF Changed
<1> QED BY <1>1, <1>2 DEF Visited, SumFunction, fs, gs

\* A frame whose opcodes are charged the same is charged the same.
LEMMA SelfGasSame ==
    ASSUME NEW f, NEW g, f.pcs \in Counters, g.pcs \in Counters,
           \A p \in Pcs : g.pcs[p].gas = f.pcs[p].gas
    PROVE  SelfGas(g) = SelfGas(f)
<1> DEFINE fs == [p \in DOMAIN f.pcs |-> f.pcs[p].gas]
           gs == [p \in DOMAIN g.pcs |-> g.pcs[p].gas]
<1>1. gs = fs
    BY DEF Counters
<1> QED BY <1>1 DEF SelfGas

\* A frame whose opcodes are counted the same is visited the same.
LEMMA VisitedSame ==
    ASSUME NEW f, NEW g, f.pcs \in Counters, g.pcs \in Counters,
           \A p \in Pcs : g.pcs[p].count = f.pcs[p].count
    PROVE  Visited(g) = Visited(f)
<1> DEFINE fs == [p \in DOMAIN f.pcs |-> f.pcs[p].count]
           gs == [p \in DOMAIN g.pcs |-> g.pcs[p].count]
<1>1. gs = fs
    BY DEF Counters
<1> QED BY <1>1 DEF Visited

\* A frame that has visited nothing has been charged nothing.
LEMMA NothingVisited ==
    ASSUME NEW f, f.pcs = [p \in Pcs |-> NoCounter]
    PROVE  SelfGas(f) = 0 /\ Visited(f) = 0
<1> DEFINE z == [p \in Pcs |-> 0]
<1>1. /\ [p \in DOMAIN f.pcs |-> f.pcs[p].gas] = z
      /\ [p \in DOMAIN f.pcs |-> f.pcs[p].count] = z /\ DOMAIN z = Pcs
    BY DEF NoCounter
<1>2. IsFiniteSet(Pcs) /\ {} \subseteq Pcs /\ \A p \in Pcs : z[p] = 0
    BY DiagnosticsAssumption
<1> HIDE DEF z
<1>3. SumFunctionOnSet(z, Pcs) = SumFunctionOnSet(z, {})
    BY <1>2, SumSupport
<1>4. SumFunctionOnSet(z, Pcs) = 0
    BY <1>3, SumEmpty
<1> QED BY <1>1, <1>4 DEF SelfGas, Visited, SumFunction

LEMMA NewFrame ==
    ASSUME NEW parent \in Nat, NEW depth \in Nat, NEW code \in Hashes, NEW creation \in BOOLEAN,
           NEW supplied \in Nat
    PROVE  Frame(parent, depth, code, creation, supplied) \in Frames
BY DEF Frame, Frames, NoCounter, Statuses, Opcodes

\* What settling a frame's pending opcode changes.
LEMMA Settling ==
    ASSUME NEW f \in Frames, NEW left \in Nat, f.pendingPc = NoPc \/ Cost(f, left) >= 0
    PROVE  LET g == Settle(f, left) IN
           /\ g \in Frames /\ g.pendingChildren = 0
           /\ g.parent = f.parent /\ g.depth = f.depth /\ g.code = f.code
           /\ g.creation = f.creation /\ g.opcodes = f.opcodes
           /\ g.supplied = f.supplied /\ g.used = f.used /\ g.childGas = f.childGas
           /\ g.status = f.status /\ g.pendingPc = f.pendingPc /\ g.pendingGas = f.pendingGas
           /\ \A p \in Pcs : g.pcs[p].count = f.pcs[p].count
           /\ \A p \in Pcs \ {f.pendingPc} : g.pcs[p].gas = f.pcs[p].gas
           /\ f.pendingPc = NoPc => g.pcs = f.pcs
           /\ f.pendingPc # NoPc =>
                /\ g.pcs[f.pendingPc].gas = f.pcs[f.pendingPc].gas + Cost(f, left)
                /\ SelfGas(g) = SelfGas(f) + Cost(f, left)
<1> DEFINE g == Settle(f, left)
<1>1. Cost(f, left) \in Int /\ f.pcs \in Counters
    BY DEF Cost, Frames, Counters
<1>2. CASE f.pendingPc = NoPc
    BY <1>2 DEF Settle, Frames
<1>3. CASE f.pendingPc # NoPc
    <2>1. f.pendingPc \in Pcs /\ Cost(f, left) \in Nat
        BY <1>1, <1>3 DEF Frames
    <2>2. g = [f EXCEPT !.pcs[f.pendingPc].gas = @ + Cost(f, left), !.pendingChildren = 0]
        BY <1>3 DEF Settle
    <2> HIDE DEF g
    <2>3. /\ g.pendingChildren = 0
          /\ g.parent = f.parent /\ g.depth = f.depth /\ g.code = f.code
           /\ g.creation = f.creation /\ g.opcodes = f.opcodes
          /\ g.supplied = f.supplied /\ g.used = f.used /\ g.childGas = f.childGas
          /\ g.status = f.status /\ g.pendingPc = f.pendingPc /\ g.pendingGas = f.pendingGas
          /\ g.pcs = [f.pcs EXCEPT ![f.pendingPc].gas = @ + Cost(f, left)]
        BY <2>2 DEF Frames
    <2>4. /\ g.pcs \in Counters
          /\ \A p \in Pcs : g.pcs[p].count = f.pcs[p].count
          /\ \A p \in Pcs \ {f.pendingPc} : g.pcs[p].gas = f.pcs[p].gas
          /\ g.pcs[f.pendingPc].gas = f.pcs[f.pendingPc].gas + Cost(f, left)
        <3> HIDE DEF Cost
        <3> QED BY <1>1, <2>1, <2>3 DEF Counters
    <2>5. SelfGas(g) = SelfGas(f) + Cost(f, left)
        BY <1>1, <2>1, <2>4, SelfGasChange
    <2>6. g \in Frames
        BY <2>2, <2>4 DEF Frames, Counters
    <2> QED BY <1>3, <2>3, <2>4, <2>5, <2>6 DEF g
<1> QED BY <1>2, <1>3

-----------------------------------------------------------------------------
(* Sums over the frames of a case.                                         *)

UsedOf(frames) == [i \in DOMAIN frames |-> frames[i].used]
Net(frames) == [i \in DOMAIN frames |-> frames[i].used - frames[i].childGas]
VisitsOf(frames) == [i \in DOMAIN frames |-> Visited(frames[i])]

\* A frame's children are accounted for, all frames but the root have a parent that
\* accounts for them, and every step is some frame's.
Sums(frames, steps) ==
  /\ \A i \in DOMAIN frames : frames[i].childGas = ChildrenUsed(frames, i)
  /\ SumFunction(Net(frames)) = IF frames = << >> THEN 0 ELSE frames[1].used
  /\ SumFunction(VisitsOf(frames)) = steps

LEMMA FramesFinite ==
    ASSUME NEW F \in Seq(Frames)
    PROVE  /\ DOMAIN F = 1 .. Len(F) /\ Len(F) \in Nat /\ IsFiniteSet(DOMAIN F)
           /\ DOMAIN UsedOf(F) = DOMAIN F /\ DOMAIN Net(F) = DOMAIN F
           /\ DOMAIN VisitsOf(F) = DOMAIN F
           /\ \A i \in DOMAIN F : /\ F[i] \in Frames /\ F[i].used \in Nat /\ F[i].childGas \in Nat
                                  /\ F[i].parent \in Nat /\ F[i].pcs \in Counters
                                  /\ UsedOf(F)[i] = F[i].used /\ UsedOf(F)[i] \in Int
                                  /\ Net(F)[i] = F[i].used - F[i].childGas /\ Net(F)[i] \in Int
                                  /\ VisitsOf(F)[i] = Visited(F[i]) /\ VisitsOf(F)[i] \in Int
           /\ \A i \in Int : IsFiniteSet(Children(F, i)) /\ Children(F, i) \subseteq DOMAIN F
<1>1. /\ DOMAIN F = 1 .. Len(F) /\ Len(F) \in Nat
      /\ \A i \in DOMAIN F : F[i] \in Frames
    OBVIOUS
<1>2. IsFiniteSet(DOMAIN F)
    BY <1>1, FS_Interval
<1>3. \A f \in Frames : f.used \in Nat /\ f.childGas \in Nat /\ f.parent \in Nat /\ f.pcs \in Counters
    BY DEF Frames, Counters
<1>4. \A f \in Frames : Visited(f) \in Int
    BY <1>3, SumsOfCounters
<1>5. \A i \in Int : IsFiniteSet(Children(F, i)) /\ Children(F, i) \subseteq DOMAIN F
    BY <1>2, FS_Subset DEF Children
<1> HIDE DEF Frames
<1> QED BY <1>1, <1>2, <1>3, <1>4, <1>5 DEF UsedOf, Net, VisitsOf

\* A step in frame i.
LEMMA SumsStep ==
    ASSUME NEW F \in Seq(Frames), NEW i \in DOMAIN F, NEW g \in Frames, NEW n \in Nat,
           g.parent = F[i].parent, g.used = F[i].used, g.childGas = F[i].childGas,
           Visited(g) = Visited(F[i]) + 1, Sums(F, n)
    PROVE  Sums([F EXCEPT ![i] = g], n + 1)
<1> DEFINE G == [F EXCEPT ![i] = g]
<1>1. G \in Seq(Frames) /\ DOMAIN G = DOMAIN F /\ (G = << >> <=> F = << >>)
    <2> HIDE DEF Frames
    <2> QED OBVIOUS
<1>2. \A j \in DOMAIN F : /\ G[j].parent = F[j].parent /\ G[j].used = F[j].used
                          /\ G[j].childGas = F[j].childGas
    OBVIOUS
<1>3. G[i] = g /\ \A j \in DOMAIN F \ {i} : G[j] = F[j]
    OBVIOUS
<1> HIDE DEF G
<1>4. UsedOf(G) = UsedOf(F) /\ Net(G) = Net(F) /\ \A j : Children(G, j) = Children(F, j)
    BY <1>1, <1>2 DEF UsedOf, Net, Children
<1>5. \A j : ChildrenUsed(G, j) = ChildrenUsed(F, j)
    BY <1>4 DEF ChildrenUsed, UsedOf
<1>6. SumFunction(VisitsOf(G)) = SumFunction(VisitsOf(F)) + 1
    <2> DEFINE S == DOMAIN F
               v == VisitsOf(F)
               w == VisitsOf(G)
    <2>1. /\ IsFiniteSet(S) /\ DOMAIN v = S /\ DOMAIN w = S /\ i \in S
          /\ \A j \in S : v[j] \in Int
          /\ w[i] = v[i] + 1 /\ \A j \in S \ {i} : w[j] = v[j]
        BY <1>1, <1>3, FramesFinite DEF VisitsOf
    <2> HIDE DEF S, v, w
    <2>2. SumFunctionOnSet(w, S) = SumFunctionOnSet(v, S) + 1
        BY <2>1, SumChange DEF Changed
    <2> QED BY <2>1, <2>2 DEF SumFunction, v, w
<1> QED BY <1>1, <1>2, <1>4, <1>5, <1>6, 1 \in DOMAIN F \/ F = << >> DEF Sums, G

\* A frame is entered.
LEMMA SumsEnter ==
    ASSUME NEW F \in Seq(Frames), NEW f \in Frames, NEW n \in Nat,
           f.parent <= Len(F), f.used = 0, f.childGas = 0, Visited(f) = 0,
           \A i \in DOMAIN F : F[i].parent < i, Sums(F, n)
    PROVE  Sums(Append(F, f), n)
<1> DEFINE G == Append(F, f)
           L == Len(F) + 1
<1>1. /\ G \in Seq(Frames) /\ DOMAIN G = DOMAIN F \cup {L} /\ L \notin DOMAIN F /\ L \in Nat
      /\ G # << >> /\ G[L] = f /\ \A j \in DOMAIN F : G[j] = F[j]
      /\ F # << >> => 1 \in DOMAIN F
      /\ F = << >> => L = 1
    <2> HIDE DEF Frames
    <2> QED OBVIOUS
<1>2. IsFiniteSet(DOMAIN F) /\ DOMAIN F = 1 .. Len(F) /\ Len(F) \in Nat /\ f.parent \in Nat
    BY FramesFinite DEF Frames
<1> HIDE DEF G
<1>3. SumFunction(VisitsOf(G)) = SumFunction(VisitsOf(F))
    <2> DEFINE S == DOMAIN F
               v == VisitsOf(F)
               w == VisitsOf(G)
    <2>1. /\ IsFiniteSet(S) /\ DOMAIN v = S /\ DOMAIN w = S \cup {L} /\ L \notin S
          /\ \A j \in S : v[j] \in Int /\ w[j] = v[j]
          /\ w[L] = 0
        BY <1>1, FramesFinite DEF VisitsOf
    <2> HIDE DEF S, v, w, L
    <2>2. SumFunctionOnSet(w, S \cup {L}) = SumFunctionOnSet(v, S) + w[L]
        BY <2>1, SumAdd DEF Added
    <2>3. SumFunctionOnSet(v, S) \in Int
        BY <2>1, SumInt
    <2> QED BY <2>1, <2>2, <2>3 DEF SumFunction, v, w
<1>4. SumFunction(Net(G)) = SumFunction(Net(F))
    <2> DEFINE S == DOMAIN F
               v == Net(F)
               w == Net(G)
    <2>1. /\ IsFiniteSet(S) /\ DOMAIN v = S /\ DOMAIN w = S \cup {L} /\ L \notin S
          /\ \A j \in S : v[j] \in Int /\ w[j] = v[j]
          /\ w[L] = 0
        BY <1>1, FramesFinite DEF Net
    <2> HIDE DEF S, v, w, L
    <2>2. SumFunctionOnSet(w, S \cup {L}) = SumFunctionOnSet(v, S) + w[L]
        BY <2>1, SumAdd DEF Added
    <2>3. SumFunctionOnSet(v, S) \in Int
        BY <2>1, SumInt
    <2> QED BY <2>1, <2>2, <2>3 DEF SumFunction, v, w
<1>5. \A j \in DOMAIN F : ChildrenUsed(G, j) = ChildrenUsed(F, j)
    <2> SUFFICES ASSUME NEW j \in DOMAIN F PROVE ChildrenUsed(G, j) = ChildrenUsed(F, j)
        OBVIOUS
    <2> DEFINE S == Children(F, j)
               v == UsedOf(F)
               w == UsedOf(G)
    <2>1. /\ IsFiniteSet(S) /\ S \subseteq DOMAIN F /\ L \notin S
          /\ \A k \in S : v[k] \in Int /\ w[k] = v[k]
          /\ w[L] = 0
        BY <1>1, <1>2, FramesFinite DEF UsedOf
    <2>2. CASE f.parent = j
        <3>1. Children(G, j) = S \cup {L}
            BY <1>1, <2>2 DEF Children
        <3>0. Added(v, w, S, L)
            BY <2>1 DEF Added
        <3> HIDE DEF S, v, w, L
        <3>2. SumFunctionOnSet(w, S \cup {L}) = SumFunctionOnSet(v, S) + w[L]
            BY <3>0, SumAdd
        <3>3. SumFunctionOnSet(v, S) \in Int
            BY <2>1, SumInt
        <3> QED BY <2>1, <3>1, <3>2, <3>3 DEF ChildrenUsed, UsedOf, S, v, w
    <2>3. CASE f.parent # j
        <3>1. Children(G, j) = S
            BY <1>1, <2>3 DEF Children
        <3> HIDE DEF S, v, w
        <3>2. SumFunctionOnSet(v, S) = SumFunctionOnSet(w, S)
            BY <2>1, SumAgree
        <3> QED BY <3>1, <3>2 DEF ChildrenUsed, UsedOf, S, v, w
    <2> QED BY <2>2, <2>3
<1>6. ChildrenUsed(G, L) = 0
    <2>1. \A j \in DOMAIN F : F[j].parent # L
        BY <1>2, FramesFinite
    <2>2. Children(G, L) = {}
        BY <1>1, <1>2, <2>1 DEF Children
    <2> QED BY <2>2, SumEmpty DEF ChildrenUsed
<1> QED BY <1>1, <1>3, <1>4, <1>5, <1>6 DEF Sums, G

\* Frame i, of parent p, ends having used u: F becomes G.
Ends(F, G, i, p, u) ==
  /\ F[i].parent = p /\ p < i /\ (p = 0 => i = 1)
  /\ F[i].used = 0 /\ G[i].used = u
  /\ \A j \in DOMAIN F : /\ G[j].parent = F[j].parent /\ Visited(G[j]) = Visited(F[j])
                         /\ j # i => G[j].used = F[j].used
                         /\ G[j].childGas = IF j = p THEN F[j].childGas + u ELSE F[j].childGas

LEMMA SumsLeave ==
    ASSUME NEW F \in Seq(Frames), NEW G \in Seq(Frames), Len(G) = Len(F), NEW n \in Nat,
           NEW i \in DOMAIN F, NEW p, NEW u \in Nat, Ends(F, G, i, p, u), Sums(F, n)
    PROVE  Sums(G, n)
<1>0. /\ F[i].parent = p /\ p < i /\ (p = 0 => i = 1)
      /\ F[i].used = 0 /\ G[i].used = u
      /\ \A j \in DOMAIN F : /\ G[j].parent = F[j].parent /\ Visited(G[j]) = Visited(F[j])
                             /\ j # i => G[j].used = F[j].used
                             /\ G[j].childGas = IF j = p THEN F[j].childGas + u ELSE F[j].childGas
    BY DEF Ends
<1>1. /\ DOMAIN G = DOMAIN F /\ IsFiniteSet(DOMAIN F) /\ DOMAIN F = 1 .. Len(F) /\ Len(F) \in Nat
      /\ p \in Nat /\ i \in Nat /\ i # p
      /\ \A j \in DOMAIN F : /\ F[j].used \in Nat /\ G[j].used \in Nat
                             /\ F[j].childGas \in Nat /\ G[j].childGas \in Nat
    <2> HIDE DEF Frames
    <2>1. DOMAIN G = 1 .. Len(G)
        BY FramesFinite
    <2> QED BY <1>0, <2>1, FramesFinite, SMTT(30)
<1>2. VisitsOf(G) = VisitsOf(F)
    BY <1>0, <1>1 DEF VisitsOf
<1>3. \A j \in DOMAIN F : Children(G, j) = Children(F, j)
    BY <1>0, <1>1 DEF Children
<1>4. \A j \in DOMAIN F : G[j].childGas = ChildrenUsed(G, j)
    <2> SUFFICES ASSUME NEW j \in DOMAIN F PROVE G[j].childGas = ChildrenUsed(G, j)
        OBVIOUS
    <2> DEFINE S == Children(F, j)
               v == UsedOf(F)
               w == UsedOf(G)
    <2>1. /\ IsFiniteSet(S) /\ S \subseteq DOMAIN F
          /\ \A k \in S : v[k] \in Int
          /\ w[i] = v[i] + u /\ \A k \in DOMAIN F \ {i} : w[k] = v[k]
        BY <1>0, <1>1, FramesFinite, SMTT(30) DEF UsedOf
    <2>2. /\ F[j].childGas = SumFunctionOnSet(v, S) /\ ChildrenUsed(G, j) = SumFunctionOnSet(w, S)
          /\ F[j].childGas \in Nat
        BY <1>0, <1>1, <1>3 DEF Sums, ChildrenUsed, UsedOf
    <2>3. CASE p = j
        <3>1. Changed(v, w, S, i, u)
            BY <1>0, <2>1, <2>3 DEF Children, Changed
        <3> HIDE DEF S, v, w
        <3>2. SumFunctionOnSet(w, S) = SumFunctionOnSet(v, S) + u
            BY <3>1, SumChange
        <3> QED BY <1>0, <2>2, <2>3, <3>2
    <2>4. CASE p # j
        <3>1. i \notin S
            BY <1>0, <2>4 DEF Children
        <3> HIDE DEF S, v, w
        <3>2. \A k \in S : v[k] = w[k]
            BY <2>1, <3>1
        <3>3. SumFunctionOnSet(v, S) = SumFunctionOnSet(w, S)
            BY <2>1, <3>2, SumAgree
        <3> QED BY <1>0, <2>2, <2>4, <3>3
    <2> QED BY <2>3, <2>4
<1>5. SumFunction(Net(G)) = G[1].used
    <2> DEFINE S == DOMAIN F
               v == Net(F)
               w == Net(G)
               m == [v EXCEPT ![i] = @ + u]
    <2>1. /\ IsFiniteSet(S) /\ DOMAIN v = S /\ DOMAIN w = S /\ i \in S /\ DOMAIN m = S
          /\ \A j \in S : v[j] \in Int
          /\ \A j \in S : w[j] = G[j].used - G[j].childGas
          /\ m[i] = v[i] + u /\ \A j \in S \ {i} : m[j] = v[j]
          /\ v[i] = F[i].used - F[i].childGas /\ \A j \in S : v[j] = F[j].used - F[j].childGas
        BY <1>0, <1>1, FramesFinite DEF Net
    <2>2. /\ 1 \in S /\ F # << >>
        BY <1>0, <1>1
    <2>3. SumFunctionOnSet(v, S) = F[1].used /\ F[1].used \in Nat
        BY <1>0, <1>1, <2>1, <2>2 DEF Sums, SumFunction
    <2>4. m[i] = w[i] /\ \A j \in S \ {p} : w[j] = m[j]
        BY <1>0, <1>1, <2>1, SMTT(30)
    <2>5. p # 0 => p \in S /\ w[p] = m[p] - u
        <3> SUFFICES ASSUME p # 0 PROVE p \in S /\ w[p] = m[p] - u
            OBVIOUS
        <3>1. p \in DOMAIN F
            BY <1>0, <1>1
        <3>2. G[p].childGas = F[p].childGas + u /\ G[p].used = F[p].used
            BY <1>0, <1>1, <3>1
        <3>3. w[p] = G[p].used - G[p].childGas /\ m[p] = F[p].used - F[p].childGas
            BY <1>0, <1>1, <2>1, <3>1
        <3> HIDE DEF w, m
        <3> QED BY <1>0, <1>1, <3>1, <3>2, <3>3
    <2>6. \A j \in S : m[j] \in Int
        BY <2>1
    <2> HIDE DEF S, v, w, m
    <2>10. Changed(v, m, S, i, u)
        BY <2>1 DEF Changed
    <2>7. SumFunctionOnSet(m, S) = SumFunctionOnSet(v, S) + u
        BY <2>10, SumChange
    <2>8. CASE p = 0
        <3>1. \A j \in S : m[j] = w[j]
            BY <1>0, <1>1, <2>4, <2>8 DEF S
        <3>2. SumFunctionOnSet(m, S) = SumFunctionOnSet(w, S)
            BY <2>1, <3>1, SumAgree
        <3> QED BY <1>0, <2>1, <2>3, <2>7, <2>8, <3>2 DEF SumFunction, w
    <2>9. CASE p # 0
        <3> DEFINE d == 0 - u
        <3>1. Changed(m, w, S, p, d)
            BY <2>1, <2>4, <2>5, <2>6, <2>9 DEF Changed
        <3> HIDE DEF d
        <3>2. SumFunctionOnSet(w, S) = SumFunctionOnSet(m, S) + d
            BY <3>1, SumChange
        <3>3. i # 1
            BY <1>0, <1>1, <2>9
        <3>4. G[1].used = F[1].used
            BY <1>0, <2>2, <3>3 DEF S
        <3>5. SumFunctionOnSet(w, S) = F[1].used
            BY <2>3, <2>7, <3>2 DEF d
        <3> QED BY <2>1, <3>4, <3>5 DEF SumFunction, w
    <2> QED BY <2>8, <2>9
<1> QED BY <1>0, <1>1, <1>2, <1>4, <1>5 DEF Sums

-----------------------------------------------------------------------------
(* The inductive invariant.                                                *)

Live == phase \in {"running", "ended"}

\* What activation k has given to the frame above it.
Lent(k) == IF k = Len(activations) THEN 0 ELSE truth[activations[k + 1].id].supplied

\* The interpreter's stack: a chain of callers, each suspended in a calling
\* opcode, which holds no more gas than its root was given.
Stacked ==
  /\ phase = "running" <=> activations # << >>
  /\ activations # << >> => activations[1].id = 1
  /\ truth # << >> => truth[1].supplied = GasLimit
  /\ \A k \in DOMAIN activations :
       /\ activations[k].id \in DOMAIN truth
       /\ truth[activations[k].id].parent = IF k = 1 THEN 0 ELSE activations[k - 1].id
       /\ activations[k].busy => activations[k].pc \in Pcs
       /\ k < Len(activations) => activations[k].busy
       /\ activations[k].gas + Lent(k) <= truth[activations[k].id].supplied
  /\ \A k, l \in DOMAIN activations : k < l => activations[k].id < activations[l].id
  /\ \A id \in DOMAIN truth : truth[id].parent < id
  /\ Live /\ truth # << >> /\ activations = << >> => gas <= truth[1].left

\* A case under way is one the suite has left, and the collector has failed just
\* when it exceeds a limit.
Limited ==
  /\ cases < NumCases /\ collector.active
  /\ collector.failed <=> visits > MaxSteps \/ Len(truth) > MaxFrames

\* What is recorded of any activation.
Records(f, t) ==
  /\ f.parent = t.parent /\ f.code = Keccak(t.code) /\ f.creation = t.creation
  /\ f.supplied = t.supplied
  /\ \A pc \in Pcs : f.pcs[pc].count = t.pcs[pc].count
  /\ \A pc \in Pcs : f.pcs[pc].count > 0 => f.opcodes[pc] = OpcodeAt(t.code, pc)
  /\ \A pc \in Pcs : f.pcs[pc].count = 0 => f.pcs[pc].gas = 0

\* What is recorded of one that has ended.
Closed(f, t) ==
  /\ f.used = t.supplied - t.left /\ f.used >= 0 /\ f.status = t.status /\ f.status # "running"
  /\ f.pcs = t.pcs /\ FrameReconciles(f)

\* What is recorded of one under way.
Fresh(f, a, lent) ==
  /\ f.pcs = [p \in Pcs |-> NoCounter] /\ f.childGas = 0 /\ f.pendingChildren = 0
  /\ a.gas = f.supplied /\ lent = 0

Owed(f, a, lent) == Cost(f, a.gas) - lent

InOpcode(f, t, a, lent) ==
  /\ f.pcs[a.pc].count > 0
  /\ f.supplied - f.childGas - SelfGas(f) = f.pendingGas - f.pendingChildren
  /\ Owed(f, a, lent) >= 0
  /\ f.pcs[a.pc].gas + Owed(f, a, lent) = t.pcs[a.pc].gas

Open(f, t, a, lent) ==
  /\ f.used = 0 /\ f.pendingPc = a.pc
  /\ \A pc \in Pcs \ {a.pc} : f.pcs[pc].gas = t.pcs[pc].gas
  /\ IF a.pc = NoPc THEN Fresh(f, a, lent) ELSE InOpcode(f, t, a, lent)

OnStack(id) == \E k \in DOMAIN activations : activations[k].id = id

Nested ==
  /\ collector.stack = [k \in DOMAIN activations |-> activations[k].id]
  /\ \A k \in DOMAIN activations : collector.frames[activations[k].id].depth = k - 1
  /\ \A id \in DOMAIN truth :
       truth[id].parent # 0 =>
         collector.frames[id].depth = collector.frames[truth[id].parent].depth + 1

Follows ==
  /\ collector.steps = visits /\ Len(collector.frames) = Len(truth)
  /\ \A id \in DOMAIN truth : Records(collector.frames[id], truth[id])
  /\ \A id \in DOMAIN truth : ~OnStack(id) => Closed(collector.frames[id], truth[id])
  /\ \A k \in DOMAIN activations :
       Open(collector.frames[activations[k].id], truth[activations[k].id], activations[k], Lent(k))
  /\ Nested
  /\ Sums(collector.frames, collector.steps)

IInv ==
  /\ TypeOK /\ Stacked
  /\ Live => Limited
  /\ Live /\ ~collector.failed => Follows

-----------------------------------------------------------------------------
(* The interpreter's stack and what it charges.                            *)

LEMMA ActiveFacts ==
    ASSUME TypeOK, Stacked, Running
    PROVE  /\ Len(activations) \in Nat \ {0} /\ Len(activations) \in DOMAIN activations
           /\ DOMAIN activations = 1 .. Len(activations)
           /\ Active = activations[Len(activations)] /\ Active \in ActivationType
           /\ Active.id \in DOMAIN truth /\ Active.id \in Nat
           /\ Active.busy => Active.pc \in Pcs /\ Active.pc # NoPc
           /\ Lent(Len(activations)) = 0 /\ Active.gas <= truth[Active.id].supplied
           /\ \A k \in DOMAIN activations :
                /\ activations[k] \in ActivationType /\ activations[k].id \in DOMAIN truth
                /\ k # Len(activations) => activations[k].id # Active.id
           /\ truth \in Seq(TruthType) /\ DOMAIN truth = 1 .. Len(truth)
           /\ OnStack(Active.id)
<1>1. /\ Len(activations) \in Nat \ {0} /\ Len(activations) \in DOMAIN activations
      /\ DOMAIN activations = 1 .. Len(activations)
      /\ Active = activations[Len(activations)]
      /\ truth \in Seq(TruthType) /\ DOMAIN truth = 1 .. Len(truth)
    BY DEF TypeOK, Running, Active, Last
<1>2. \A k \in DOMAIN activations :
        activations[k] \in ActivationType /\ activations[k].id \in DOMAIN truth
    BY DEF TypeOK, Stacked
<1>3. Active.busy => Active.pc \in Pcs /\ Active.pc # NoPc
    BY <1>1, DiagnosticsAssumption DEF Stacked, NoPc
<1>4. Lent(Len(activations)) = 0
    BY DEF Lent
<1>5. Active.gas <= truth[Active.id].supplied
    <2>1. Active.gas \in Nat
        BY <1>1, <1>2 DEF ActivationType
    <2> QED BY <1>1, <1>4, <2>1 DEF Stacked
<1>6. \A k \in DOMAIN activations : k # Len(activations) => activations[k].id # Active.id
    <2> SUFFICES ASSUME NEW k \in DOMAIN activations, k # Len(activations)
                 PROVE  activations[k].id # Active.id
        OBVIOUS
    <2>1. k < Len(activations)
        BY <1>1
    <2>2. activations[k].id < Active.id
        BY <1>1, <2>1 DEF Stacked
    <2>3. activations[k].id \in Nat /\ Active.id \in Nat
        BY <1>1, <1>2 DEF ActivationType
    <2> QED BY <2>2, <2>3
<1>7. Active.id \in Nat /\ OnStack(Active.id)
    BY <1>1, <1>2 DEF OnStack, ActivationType
<1> QED BY <1>1, <1>2, <1>3, <1>4, <1>5, <1>6, <1>7

\* What the truth about an activation keeps when an opcode of it is charged.
LEMMA Charging ==
    ASSUME NEW t \in Seq(TruthType), NEW id \in DOMAIN t, NEW pc \in Pcs, NEW amount \in Nat
    PROVE  LET u == Charged(t, id, pc, amount) IN
           /\ u \in Seq(TruthType) /\ Len(u) = Len(t) /\ DOMAIN u = DOMAIN t
           /\ \A j \in DOMAIN t \ {id} : u[j] = t[j]
           /\ u[id].parent = t[id].parent /\ u[id].code = t[id].code
           /\ u[id].creation = t[id].creation
           /\ u[id].supplied = t[id].supplied /\ u[id].left = t[id].left
           /\ u[id].status = t[id].status
           /\ \A p \in Pcs : u[id].pcs[p].count = t[id].pcs[p].count
           /\ \A p \in Pcs \ {pc} : u[id].pcs[p].gas = t[id].pcs[p].gas
           /\ u[id].pcs[pc].gas = t[id].pcs[pc].gas + amount
<1> DEFINE u == Charged(t, id, pc, amount)
           h == [t[id] EXCEPT !.pcs[pc].gas = @ + amount]
<1>1. t[id] \in TruthType
    OBVIOUS
<1>2. /\ h \in TruthType
      /\ h.parent = t[id].parent /\ h.code = t[id].code /\ h.creation = t[id].creation
      /\ h.supplied = t[id].supplied /\ h.left = t[id].left
      /\ h.status = t[id].status
      /\ \A p \in Pcs : h.pcs[p].count = t[id].pcs[p].count
      /\ \A p \in Pcs \ {pc} : h.pcs[p].gas = t[id].pcs[p].gas
      /\ h.pcs[pc].gas = t[id].pcs[pc].gas + amount
    <2>1. t[id].pcs \in Counters
        BY <1>1 DEF TruthType, Counters
    <2>2. /\ h.parent = t[id].parent /\ h.code = t[id].code /\ h.creation = t[id].creation
          /\ h.supplied = t[id].supplied /\ h.left = t[id].left
          /\ h.status = t[id].status
          /\ h.pcs = [t[id].pcs EXCEPT ![pc].gas = @ + amount]
        BY <1>1 DEF TruthType
    <2>3. /\ h.pcs \in Counters
          /\ \A p \in Pcs : h.pcs[p].count = t[id].pcs[p].count
          /\ \A p \in Pcs \ {pc} : h.pcs[p].gas = t[id].pcs[p].gas
          /\ h.pcs[pc].gas = t[id].pcs[pc].gas + amount
        <3> HIDE DEF h
        <3> QED BY <2>1, <2>2, SMTT(30) DEF Counters
    <2>4. h \in TruthType
        BY <1>1, <2>3 DEF TruthType, Counters
    <2> HIDE DEF h
    <2> QED BY <2>2, <2>3, <2>4
<1>3. u = [t EXCEPT ![id] = h]
    BY DEF Charged
<1> HIDE DEF u, h, TruthType
<1>4. u \in Seq(TruthType) /\ Len(u) = Len(t) /\ DOMAIN u = DOMAIN t /\ u[id] = h
      /\ \A j \in DOMAIN t \ {id} : u[j] = t[j]
    BY <1>2, <1>3
<1> QED BY <1>2, <1>4 DEF u

\* ... and when one is visited.
Counted(t, id, pc) == [t EXCEPT ![id].pcs[pc].count = @ + 1]

LEMMA Visiting ==
    ASSUME NEW t \in Seq(TruthType), NEW id \in DOMAIN t, NEW pc \in Pcs
    PROVE  LET u == Counted(t, id, pc) IN
           /\ u \in Seq(TruthType) /\ Len(u) = Len(t) /\ DOMAIN u = DOMAIN t
           /\ \A j \in DOMAIN t \ {id} : u[j] = t[j]
           /\ u[id].parent = t[id].parent /\ u[id].code = t[id].code
           /\ u[id].creation = t[id].creation
           /\ u[id].supplied = t[id].supplied /\ u[id].left = t[id].left
           /\ u[id].status = t[id].status
           /\ \A p \in Pcs : u[id].pcs[p].gas = t[id].pcs[p].gas
           /\ \A p \in Pcs \ {pc} : u[id].pcs[p].count = t[id].pcs[p].count
           /\ u[id].pcs[pc].count = t[id].pcs[pc].count + 1
<1> DEFINE u == Counted(t, id, pc)
           h == [t[id] EXCEPT !.pcs[pc].count = @ + 1]
<1>1. t[id] \in TruthType
    OBVIOUS
<1>2. /\ h \in TruthType
      /\ h.parent = t[id].parent /\ h.code = t[id].code /\ h.creation = t[id].creation
      /\ h.supplied = t[id].supplied /\ h.left = t[id].left
      /\ h.status = t[id].status
      /\ \A p \in Pcs : h.pcs[p].gas = t[id].pcs[p].gas
      /\ \A p \in Pcs \ {pc} : h.pcs[p].count = t[id].pcs[p].count
      /\ h.pcs[pc].count = t[id].pcs[pc].count + 1
    <2>1. t[id].pcs \in Counters
        BY <1>1 DEF TruthType, Counters
    <2>2. /\ h.parent = t[id].parent /\ h.code = t[id].code /\ h.creation = t[id].creation
          /\ h.supplied = t[id].supplied /\ h.left = t[id].left
          /\ h.status = t[id].status
          /\ h.pcs = [t[id].pcs EXCEPT ![pc].count = @ + 1]
        BY <1>1 DEF TruthType
    <2>3. /\ h.pcs \in Counters
          /\ \A p \in Pcs : h.pcs[p].gas = t[id].pcs[p].gas
          /\ \A p \in Pcs \ {pc} : h.pcs[p].count = t[id].pcs[p].count
          /\ h.pcs[pc].count = t[id].pcs[pc].count + 1
        <3> HIDE DEF h
        <3>1. t[id].pcs[pc] \in [count : Nat, gas : Nat]
            BY <2>1 DEF Counters
        <3>2. /\ [t[id].pcs[pc] EXCEPT !.count = @ + 1] \in [count : Nat, gas : Nat]
              /\ [t[id].pcs[pc] EXCEPT !.count = @ + 1].gas = t[id].pcs[pc].gas
              /\ [t[id].pcs[pc] EXCEPT !.count = @ + 1].count = t[id].pcs[pc].count + 1
            BY <3>1
        <3> QED BY <2>1, <2>2, <3>2 DEF Counters
    <2>4. h \in TruthType
        BY <1>1, <2>3 DEF TruthType, Counters
    <2> HIDE DEF h
    <2> QED BY <2>2, <2>3, <2>4
<1>3. u = [t EXCEPT ![id] = h]
    BY DEF Counted
<1> HIDE DEF u, h, TruthType
<1>4. u \in Seq(TruthType) /\ Len(u) = Len(t) /\ DOMAIN u = DOMAIN t /\ u[id] = h
      /\ \A j \in DOMAIN t \ {id} : u[j] = t[j]
    BY <1>2, <1>3
<1> QED BY <1>2, <1>4 DEF u

\* The stack keeps its shape when only its top changes and has no more gas.
LEMMA StackedActive ==
    ASSUME TypeOK, Stacked, Running, phase' = phase,
           NEW b \in ActivationType, b.id = Active.id, b.gas <= Active.gas,
           b.busy => b.pc \in Pcs, activations' = SetActive(b),
           truth' \in Seq(TruthType), DOMAIN truth' = DOMAIN truth,
           \A id \in DOMAIN truth : /\ truth'[id].parent = truth[id].parent
                                    /\ truth'[id].supplied = truth[id].supplied
    PROVE  /\ Stacked' /\ DOMAIN activations' = DOMAIN activations
           /\ activations' \in Seq(ActivationType) /\ Len(activations') = Len(activations)
           /\ \A k \in DOMAIN activations : /\ activations'[k].id = activations[k].id
                                            /\ Lent(k)' = Lent(k)
           /\ activations'[Len(activations)] = b
           /\ \A k \in DOMAIN activations \ {Len(activations)} : activations'[k] = activations[k]
           /\ \A id : OnStack(id)' <=> OnStack(id)
<1> DEFINE n == Len(activations)
<1>1. /\ n \in Nat \ {0} /\ DOMAIN activations = 1 .. n /\ n \in DOMAIN activations
      /\ Active = activations[n]
      /\ \A k \in DOMAIN activations : activations[k].id \in DOMAIN truth
      /\ activations[n].gas \in Nat /\ b.gas \in Nat
    BY ActiveFacts DEF ActivationType
<1>2. activations' = [activations EXCEPT ![n] = b]
    BY DEF SetActive
<1>3. /\ DOMAIN activations' = DOMAIN activations /\ activations' \in Seq(ActivationType)
      /\ Len(activations') = n /\ activations'[n] = b
      /\ \A k \in DOMAIN activations \ {n} : activations'[k] = activations[k]
      /\ activations' # << >>
    <2> HIDE DEF n
    <2> QED BY <1>1, <1>2 DEF TypeOK, ActivationType
<1> HIDE DEF n
<1>4. \A k \in DOMAIN activations : activations'[k].id = activations[k].id
    BY <1>1, <1>3
<1>5. \A k \in DOMAIN activations : Lent(k)' = Lent(k)
    <2> SUFFICES ASSUME NEW k \in DOMAIN activations PROVE Lent(k)' = Lent(k)
        OBVIOUS
    <2>1. CASE k = n
        BY <1>3, <2>1 DEF Lent, n
    <2>2. CASE k # n
        <3>1. k + 1 \in DOMAIN activations
            BY <1>1, <2>2
        <3> QED BY <1>1, <1>3, <1>4, <2>2, <3>1 DEF Lent, n
    <2> QED BY <2>1, <2>2
<1>6. \A id : OnStack(id)' <=> OnStack(id)
    BY <1>3, <1>4 DEF OnStack
<1>7. Stacked'
    <2>1. /\ phase' = "running" <=> activations' # << >>
          /\ activations' # << >> => activations'[1].id = 1
          /\ truth' # << >> => truth'[1].supplied = GasLimit
          /\ \A k, l \in DOMAIN activations' : k < l => activations'[k].id < activations'[l].id
          /\ \A id \in DOMAIN truth' : truth'[id].parent < id
        <3>1. phase' = "running" /\ activations' # << >>
            BY <1>3 DEF Running
        <3>2. activations[1].id = 1 /\ activations'[1].id = 1
            BY <1>1, <1>4 DEF Stacked, Running
        <3>3. 1 \in DOMAIN truth /\ truth # << >>
            BY <1>1, <3>2
        <3>4. truth'[1].supplied = GasLimit
            BY <3>3 DEF Stacked
        <3>5. \A k, l \in DOMAIN activations' : k < l => activations'[k].id < activations'[l].id
            BY <1>3, <1>4 DEF Stacked
        <3>6. \A id \in DOMAIN truth' : truth'[id].parent < id
            BY DEF Stacked
        <3> QED BY <3>1, <3>2, <3>4, <3>5, <3>6
    <2>2. ASSUME NEW k \in DOMAIN activations'
          PROVE  /\ activations'[k].id \in DOMAIN truth'
                 /\ truth'[activations'[k].id].parent = IF k = 1 THEN 0 ELSE activations'[k - 1].id
                 /\ activations'[k].busy => activations'[k].pc \in Pcs
                 /\ k < Len(activations') => activations'[k].busy
                 /\ activations'[k].gas + Lent(k)' <= truth'[activations'[k].id].supplied
        <3>1. k \in DOMAIN activations /\ activations'[k].id = activations[k].id
            BY <1>3, <1>4, <2>2
        <3>2. k # 1 => k - 1 \in DOMAIN activations
            BY <1>1, <3>1
        <3>3. /\ activations[k].id \in DOMAIN truth
              /\ truth[activations[k].id].parent = IF k = 1 THEN 0 ELSE activations[k - 1].id
              /\ activations[k].busy => activations[k].pc \in Pcs
              /\ k < Len(activations) => activations[k].busy
              /\ activations[k].gas + Lent(k) <= truth[activations[k].id].supplied
            BY <3>1 DEF Stacked
        <3>4. truth[activations[k].id].supplied \in Nat
            <4>1. truth[activations[k].id] \in TruthType
                BY <3>3, ActiveFacts
            <4> QED BY <4>1 DEF TruthType
        <3>5. activations'[k].gas + Lent(k)' <= truth'[activations'[k].id].supplied
            <4>1. CASE k = n
                <5>1. Lent(k) = 0
                    BY <4>1, ActiveFacts DEF n
                <5> QED BY <1>1, <1>3, <1>5, <3>1, <3>3, <3>4, <4>1, <5>1, SMTT(30)
            <4>2. CASE k # n
                BY <1>3, <1>5, <3>1, <3>3, <4>2
            <4> QED BY <4>1, <4>2
        <3>6. k < Len(activations') => activations'[k].busy
            BY <1>1, <1>3, <3>1, <3>3 DEF n
        <3>7. activations'[k].busy => activations'[k].pc \in Pcs
            BY <1>3, <3>1, <3>3
        <3> QED BY <1>4, <3>1, <3>2, <3>3, <3>5, <3>6, <3>7
    <2>3. Live' /\ truth' # << >> /\ activations' = << >> => gas' <= truth'[1].left
        BY <1>3
    <2> QED BY <2>1, <2>2, <2>3 DEF Stacked, Lent
<1> QED BY <1>3, <1>4, <1>5, <1>6, <1>7 DEF n

-----------------------------------------------------------------------------
(* What each operation does to what is recorded of one activation: its     *)
(* frame f, the truth t about it and the activation a itself.              *)

\* The truth t, but for pc, which was charged amount more.
ChargedMore(u, t, pc, amount) ==
  /\ u \in TruthType
  /\ u.parent = t.parent /\ u.code = t.code /\ u.creation = t.creation
  /\ u.supplied = t.supplied
  /\ \A p \in Pcs : u.pcs[p].count = t.pcs[p].count
  /\ \A p \in Pcs \ {pc} : u.pcs[p].gas = t.pcs[p].gas
  /\ u.pcs[pc].gas = t.pcs[pc].gas + amount

\* An opcode is charged amount, all but what is lent out of the activation's gas.
LEMMA OpenCharged ==
    ASSUME NEW f \in Frames, NEW t \in TruthType, NEW a \in ActivationType, NEW lent \in Nat,
           Records(f, t), Open(f, t, a, lent), a.pc \in Pcs,
           NEW u, NEW b \in ActivationType, NEW amount \in Nat, NEW lending \in Nat,
           ChargedMore(u, t, a.pc, amount), b.pc = a.pc,
           b.gas + lending = a.gas + lent - amount
    PROVE  Records(f, u) /\ Open(f, u, b, lending)
<1>1. a.pc # NoPc
    BY DiagnosticsAssumption DEF NoPc
<1>2. Records(f, u)
    BY DEF Records, ChargedMore
<1>3. /\ f.pendingGas \in Nat /\ f.pendingChildren \in Nat /\ f.pcs[a.pc].gas \in Nat
      /\ a.gas \in Nat /\ b.gas \in Nat /\ t.pcs[a.pc].gas \in Nat
    BY DEF Frames, ActivationType, TruthType
<1>4. InOpcode(f, t, a, lent)
    BY <1>1 DEF Open
<1>5. Owed(f, b, lending) = Owed(f, a, lent) + amount
    BY <1>3 DEF Owed, Cost
<1>6. Owed(f, a, lent) \in Int
    BY <1>3 DEF Owed, Cost
<1>7. InOpcode(f, u, b, lending)
    <2>1. Owed(f, b, lending) >= 0
        BY <1>4, <1>5, <1>6 DEF InOpcode
    <2>2. f.pcs[a.pc].gas + Owed(f, b, lending) = u.pcs[a.pc].gas
        BY <1>3, <1>4, <1>5, <1>6 DEF InOpcode, ChargedMore
    <2> QED BY <1>4, <2>1, <2>2 DEF InOpcode
<1> QED BY <1>1, <1>2, <1>7 DEF Open, ChargedMore

\* A child that had been lent its supply ends and gives back left.
LEMMA OpenAddChild ==
    ASSUME NEW f \in Frames, NEW t \in TruthType, NEW a \in ActivationType, NEW lent \in Nat,
           Records(f, t), Open(f, t, a, lent), a.pc \in Pcs,
           NEW left \in 0 .. lent, NEW b \in ActivationType, b.pc = a.pc, b.gas = a.gas + left
    PROVE  LET g == AddChild(f, lent - left) IN
           /\ g \in Frames /\ g.childGas = f.childGas + (lent - left) /\ g.used = f.used
           /\ g.parent = f.parent /\ g.depth = f.depth /\ g.pcs = f.pcs
           /\ Records(g, t) /\ Open(g, t, b, 0)
<1> DEFINE d == lent - left
           g == AddChild(f, d)
<1>0. d \in Nat /\ d = lent - left
    OBVIOUS
<1> HIDE DEF d
<1>1. a.pc # NoPc
    BY DiagnosticsAssumption DEF NoPc
<1>2. /\ g \in Frames /\ g.childGas = f.childGas + d /\ g.used = f.used
      /\ g.pendingChildren = f.pendingChildren + d
      /\ g.parent = f.parent /\ g.depth = f.depth /\ g.pcs = f.pcs /\ g.creation = f.creation
      /\ g.code = f.code /\ g.opcodes = f.opcodes
      /\ g.supplied = f.supplied /\ g.pendingPc = f.pendingPc /\ g.pendingGas = f.pendingGas
    <2>1. g = [f EXCEPT !.childGas = f.childGas + d, !.pendingChildren = f.pendingChildren + d]
        BY DEF AddChild, Frames
    <2>2. f.childGas + d \in Nat /\ f.pendingChildren + d \in Nat
        BY <1>0 DEF Frames
    <2> HIDE DEF g
    <2> QED BY <2>1, <2>2 DEF Frames
<1> HIDE DEF g
<1>3. /\ f.pendingGas \in Nat /\ f.pendingChildren \in Nat /\ f.pcs[a.pc].gas \in Nat
      /\ a.gas \in Nat /\ b.gas \in Nat /\ f.supplied \in Nat /\ f.childGas \in Nat
      /\ f.pcs \in Counters
    BY DEF Frames, ActivationType, Counters
<1>4. InOpcode(f, t, a, lent)
    BY <1>1 DEF Open
<1>5. SelfGas(g) = SelfGas(f) /\ SelfGas(f) \in Nat
    BY <1>2, <1>3, SumsOfCounters DEF SelfGas
<1>6. Owed(g, b, 0) = Owed(f, a, lent)
    <2>1. Owed(g, b, 0) = f.pendingGas - (a.gas + left) - (f.pendingChildren + (lent - left)) - 0
        BY <1>0, <1>2 DEF Owed, Cost
    <2>2. Owed(f, a, lent) = f.pendingGas - a.gas - f.pendingChildren - lent
        BY DEF Owed, Cost
    <2>3. /\ f.pendingGas \in Int /\ a.gas \in Int /\ f.pendingChildren \in Int
          /\ lent \in Int /\ left \in Int
        BY <1>3
    <2> QED BY <2>1, <2>2, <2>3
<1>7. InOpcode(g, t, b, 0)
    <2>1. g.supplied - g.childGas - SelfGas(g) = g.pendingGas - g.pendingChildren
        BY <1>0, <1>2, <1>3, <1>4, <1>5 DEF InOpcode
    <2> QED BY <1>2, <1>4, <1>6, <2>1 DEF InOpcode
<1> QED BY <1>0, <1>1, <1>2, <1>7 DEF Open, Records, g

\* Settling never overdraws: what is owed is not negative.
LEMMA NotOverdrawn ==
    ASSUME NEW f \in Frames, NEW t, NEW a \in ActivationType, Open(f, t, a, 0)
    PROVE  /\ ~Overdrawn(f, a.gas)
           /\ f.pendingPc # NoPc => Cost(f, a.gas) >= 0 /\ Cost(f, a.gas) = Owed(f, a, 0)
<1>1. Cost(f, a.gas) \in Int /\ Owed(f, a, 0) = Cost(f, a.gas)
    BY DEF Frames, ActivationType, Cost, Owed
<1>2. f.pendingPc # NoPc => Cost(f, a.gas) >= 0
    BY <1>1 DEF Open, InOpcode
<1> QED BY <1>1, <1>2 DEF Overdrawn

\* What is left of a frame's supply once its pending opcode is settled.
LEMMA SettledOpen ==
    ASSUME NEW f \in Frames, NEW t \in TruthType, NEW a \in ActivationType,
           Records(f, t), Open(f, t, a, 0)
    PROVE  LET g == Settle(f, a.gas) IN
           /\ \A p \in Pcs : g.pcs[p] = t.pcs[p]
           /\ SelfGas(g) \in Nat /\ f.supplied - f.childGas - SelfGas(g) = a.gas
           /\ Visited(g) = Visited(f) /\ Records(g, t)
<1> DEFINE g == Settle(f, a.gas)
<1>1. f.pendingPc # NoPc => Cost(f, a.gas) >= 0 /\ Cost(f, a.gas) = Owed(f, a, 0)
    BY NotOverdrawn
<1>2. a.gas \in Nat /\ f.pcs \in Counters /\ t.pcs \in Counters /\ f.pendingPc = a.pc
      /\ f.supplied \in Nat /\ f.childGas \in Nat /\ f.pendingGas \in Nat /\ f.pendingChildren \in Nat
      /\ (f.pendingPc = NoPc \/ f.pendingPc \in Pcs)
    BY DEF ActivationType, Frames, TruthType, Counters, Open
<1>3. /\ g \in Frames /\ g.pendingChildren = 0
      /\ g.parent = f.parent /\ g.depth = f.depth /\ g.code = f.code
      /\ g.creation = f.creation /\ g.opcodes = f.opcodes
      /\ g.supplied = f.supplied /\ g.used = f.used /\ g.childGas = f.childGas
      /\ \A p \in Pcs : g.pcs[p].count = f.pcs[p].count
      /\ \A p \in Pcs \ {f.pendingPc} : g.pcs[p].gas = f.pcs[p].gas
      /\ f.pendingPc = NoPc => g.pcs = f.pcs
      /\ f.pendingPc # NoPc =>
           /\ g.pcs[f.pendingPc].gas = f.pcs[f.pendingPc].gas + Cost(f, a.gas)
           /\ SelfGas(g) = SelfGas(f) + Cost(f, a.gas)
    BY <1>1, <1>2, Settling
<1> HIDE DEF g
<1>4. g.pcs \in Counters /\ SelfGas(g) \in Nat /\ SelfGas(f) \in Nat
    BY <1>2, <1>3, SumsOfCounters DEF Frames, Counters
<1>5. Visited(g) = Visited(f)
    BY <1>2, <1>3, <1>4, VisitedSame
<1>6. \A p \in Pcs : g.pcs[p].gas = t.pcs[p].gas
    <2> SUFFICES ASSUME NEW p \in Pcs PROVE g.pcs[p].gas = t.pcs[p].gas
        OBVIOUS
    <2>1. CASE p # f.pendingPc
        BY <1>2, <1>3, <2>1 DEF Open
    <2>2. CASE p = f.pendingPc
        <3>1. a.pc # NoPc
            BY <1>2, <2>2, DiagnosticsAssumption DEF NoPc
        <3> QED BY <1>1, <1>2, <1>3, <2>2, <3>1 DEF Open, InOpcode
    <2> QED BY <2>1, <2>2
<1>7. \A p \in Pcs : g.pcs[p] = t.pcs[p]
    <2> SUFFICES ASSUME NEW p \in Pcs PROVE g.pcs[p] = t.pcs[p]
        OBVIOUS
    <2>1. g.pcs[p] \in [count : Nat, gas : Nat] /\ t.pcs[p] \in [count : Nat, gas : Nat]
        BY <1>2, <1>4 DEF Counters
    <2>2. g.pcs[p].gas = t.pcs[p].gas /\ g.pcs[p].count = t.pcs[p].count
        BY <1>3, <1>6 DEF Records
    <2> QED BY <2>1, <2>2
<1>8. f.supplied - f.childGas - SelfGas(g) = a.gas
    <2>1. CASE a.pc = NoPc
        <3>1. Fresh(f, a, 0)
            BY <2>1 DEF Open
        <3>2. SelfGas(f) = 0 /\ SelfGas(g) = SelfGas(f)
            BY <1>2, <1>3, <2>1, <3>1, NothingVisited DEF Fresh, SelfGas
        <3>3. a.gas = f.supplied /\ f.childGas = 0
            BY <3>1 DEF Fresh
        <3> QED BY <1>2, <3>2, <3>3
    <2>2. CASE a.pc # NoPc
        <3>1. f.supplied - f.childGas - SelfGas(f) = f.pendingGas - f.pendingChildren
            BY <2>2 DEF Open, InOpcode
        <3>2. SelfGas(g) = SelfGas(f) + (f.pendingGas - a.gas - f.pendingChildren)
            BY <1>2, <1>3, <2>2 DEF Cost
        <3>3. /\ f.supplied \in Int /\ f.childGas \in Int /\ f.pendingGas \in Int
              /\ f.pendingChildren \in Int /\ a.gas \in Int /\ SelfGas(f) \in Int
            BY <1>2, <1>4
        <3> QED BY <3>1, <3>2, <3>3
    <2> QED BY <2>1, <2>2
<1>9. Records(g, t)
    <2>1. \A p \in Pcs : g.pcs[p].count = 0 => g.pcs[p].gas = 0
        <3> SUFFICES ASSUME NEW p \in Pcs, g.pcs[p].count = 0 PROVE g.pcs[p].gas = 0
            OBVIOUS
        <3>1. CASE p # f.pendingPc
            BY <1>3, <3>1 DEF Records
        <3>2. CASE p = f.pendingPc
            <4>1. a.pc # NoPc
                BY <1>2, <3>2, DiagnosticsAssumption DEF NoPc
            <4>2. f.pcs[p].count > 0
                BY <1>2, <3>2, <4>1 DEF Open, InOpcode
            <4> QED BY <1>3, <4>2
        <3> QED BY <3>1, <3>2
    <2> QED BY <1>3, <2>1 DEF Records
<1> QED BY <1>4, <1>5, <1>7, <1>8, <1>9 DEF g

\* A frame ends with left gas.
Done(f, left, status) ==
  [Settle(f, left) EXCEPT !.used = f.supplied - left, !.status = status]

LEMMA LeaveClosed ==
    ASSUME NEW f \in Frames, NEW t \in TruthType, NEW a \in ActivationType,
           Records(f, t), Open(f, t, a, 0), a.pc \in Pcs, a.gas <= t.supplied,
           NEW left \in 0 .. a.gas, NEW status \in Statuses \ {"running"},
           NEW u, ChargedMore(u, t, a.pc, a.gas - left), u.left = left, u.status = status
    PROVE  LET used == f.supplied - left
               g == Done(f, left, status)
           IN /\ ~Overdrawn(f, left)
              /\ used \in Nat /\ g \in Frames /\ g.used = used /\ g.childGas = f.childGas
              /\ g.parent = f.parent /\ g.depth = f.depth /\ Visited(g) = Visited(f)
              /\ Records(g, u) /\ Closed(g, u)
<1> DEFINE used == f.supplied - left
           s == Settle(f, left)
           g == [s EXCEPT !.used = used, !.status = status]
           b == [a EXCEPT !.gas = left]
<1>1. /\ a.gas \in Nat /\ left \in Nat /\ a.gas - left \in Nat /\ f.supplied = t.supplied
      /\ f.supplied \in Nat /\ f.childGas \in Nat /\ u \in TruthType /\ u.supplied = f.supplied
    BY DEF ActivationType, Frames, Records, ChargedMore
<1>2. b \in ActivationType /\ b.pc = a.pc /\ b.gas = left
    BY <1>1 DEF ActivationType
<1> HIDE DEF b
<1>3. Records(f, u) /\ Open(f, u, b, 0)
    <2>1. b.gas + 0 = a.gas + 0 - (a.gas - left)
        BY <1>1, <1>2
    <2> QED BY <1>1, <1>2, <2>1, OpenCharged
<1>4. ~Overdrawn(f, left) /\ (f.pendingPc = NoPc \/ Cost(f, left) >= 0)
    BY <1>2, <1>3, NotOverdrawn
<1>5. /\ \A p \in Pcs : s.pcs[p] = u.pcs[p]
      /\ SelfGas(s) \in Nat /\ f.supplied - f.childGas - SelfGas(s) = left
      /\ Visited(s) = Visited(f) /\ Records(s, u)
    BY <1>1, <1>2, <1>3, SettledOpen
<1>6. /\ s \in Frames /\ s.parent = f.parent /\ s.depth = f.depth /\ s.childGas = f.childGas
    BY <1>1, <1>4, Settling
<1>7. used \in Nat
    BY <1>1
<1> HIDE DEF s, used
<1>8. /\ g \in Frames /\ g.used = used /\ g.status = status /\ g.childGas = f.childGas
      /\ g.parent = f.parent /\ g.depth = f.depth /\ g.pcs = s.pcs /\ g.creation = s.creation
      /\ g.code = s.code /\ g.opcodes = s.opcodes
      /\ g.supplied = s.supplied
    BY <1>6, <1>7 DEF Frames
<1> HIDE DEF g
<1>9. SelfGas(g) = SelfGas(s) /\ Visited(g) = Visited(s)
    BY <1>8 DEF SelfGas, Visited
<1>10. Records(g, u)
    BY <1>5, <1>6, <1>8 DEF Records
<1>11. g.pcs = u.pcs
    <2>1. s.pcs \in Counters /\ u.pcs \in Counters
        BY <1>1, <1>6 DEF Frames, TruthType, Counters
    <2> QED BY <1>5, <1>8, <2>1 DEF Counters
<1>12. FrameReconciles(g)
    BY <1>1, <1>5, <1>8, <1>9 DEF FrameReconciles, used
<1>13. Closed(g, u)
    BY <1>1, <1>7, <1>8, <1>11, <1>12 DEF Closed, used
<1> QED BY <1>4, <1>5, <1>7, <1>8, <1>9, <1>10, <1>13 DEF g, s, used, Done

\* Its next opcode is visited.
Stepped(f, left, pc, opcode) ==
  [Settle(f, left) EXCEPT !.pendingPc = pc, !.pendingGas = left, !.pcs[pc].count = @ + 1,
                          !.opcodes[pc] = opcode]

LEMMA StepOpen ==
    ASSUME NEW f \in Frames, NEW t \in TruthType, NEW a \in ActivationType,
           Records(f, t), Open(f, t, a, 0), NEW pc \in Pcs,
           NEW b \in ActivationType, b.pc = pc, b.gas = a.gas,
           NEW u \in TruthType, u.parent = t.parent, u.code = t.code, u.creation = t.creation,
           u.supplied = t.supplied,
           NEW opcode \in Opcodes, opcode = OpcodeAt(t.code, pc),
           \A p \in Pcs : u.pcs[p].gas = t.pcs[p].gas,
           \A p \in Pcs \ {pc} : u.pcs[p].count = t.pcs[p].count,
           u.pcs[pc].count = t.pcs[pc].count + 1
    PROVE  LET g == Stepped(f, a.gas, pc, opcode)
           IN /\ g \in Frames /\ g.parent = f.parent /\ g.depth = f.depth
              /\ g.used = f.used /\ g.childGas = f.childGas
              /\ Visited(g) = Visited(f) + 1
              /\ Records(g, u) /\ Open(g, u, b, 0)
<1> DEFINE s == Settle(f, a.gas)
           g == [s EXCEPT !.pendingPc = pc, !.pendingGas = a.gas, !.pcs[pc].count = @ + 1,
                     !.opcodes[pc] = opcode]
<1>1. /\ a.gas \in Nat /\ f.supplied \in Nat /\ f.childGas \in Nat
      /\ f.parent = t.parent /\ f.code = Keccak(t.code) /\ f.creation = t.creation /\ f.supplied = t.supplied
      /\ f.used = 0 /\ t.pcs \in Counters /\ u.pcs \in Counters
    BY DEF ActivationType, Frames, Records, Open, TruthType, Counters
<1>2. f.pendingPc = NoPc \/ Cost(f, a.gas) >= 0
    BY NotOverdrawn
<1>3. /\ \A p \in Pcs : s.pcs[p] = t.pcs[p]
      /\ SelfGas(s) \in Nat /\ f.supplied - f.childGas - SelfGas(s) = a.gas
      /\ Visited(s) = Visited(f) /\ Records(s, t)
    BY SettledOpen
<1>4. /\ s \in Frames /\ s.pendingChildren = 0 /\ s.parent = f.parent /\ s.depth = f.depth
      /\ s.code = f.code /\ s.opcodes = f.opcodes /\ s.creation = f.creation /\ s.supplied = f.supplied /\ s.used = f.used
      /\ s.childGas = f.childGas
    BY <1>1, <1>2, Settling
<1> HIDE DEF s
<1>5. s.pcs \in Counters
    BY <1>4 DEF Frames, Counters
<1>6. /\ g.pendingPc = pc /\ g.pendingGas = a.gas /\ g.pendingChildren = 0
      /\ g.parent = f.parent /\ g.depth = f.depth /\ g.code = f.code
      /\ g.creation = f.creation /\ g.opcodes = [s.opcodes EXCEPT ![pc] = opcode]
      /\ g.supplied = f.supplied /\ g.used = f.used /\ g.childGas = f.childGas
      /\ g.pcs = [s.pcs EXCEPT ![pc].count = @ + 1]
    BY <1>4 DEF Frames
<1>7. /\ g.pcs \in Counters /\ \A p \in Pcs : g.pcs[p].gas = s.pcs[p].gas
      /\ \A p \in Pcs \ {pc} : g.pcs[p].count = s.pcs[p].count
      /\ g.pcs[pc].count = s.pcs[pc].count + 1
    <2> HIDE DEF g
    <2>1. s.pcs[pc] \in [count : Nat, gas : Nat]
        BY <1>5 DEF Counters
    <2>2. /\ [s.pcs[pc] EXCEPT !.count = @ + 1] \in [count : Nat, gas : Nat]
          /\ [s.pcs[pc] EXCEPT !.count = @ + 1].gas = s.pcs[pc].gas
          /\ [s.pcs[pc] EXCEPT !.count = @ + 1].count = s.pcs[pc].count + 1
        BY <2>1
    <2> QED BY <1>5, <1>6, <2>2 DEF Counters
<1>8. g \in Frames
    BY <1>1, <1>4, <1>7 DEF Frames, Counters
<1> HIDE DEF g
<1>9. SelfGas(g) = SelfGas(s)
    BY <1>5, <1>7, SelfGasSame
<1>10. Visited(g) = Visited(f) + 1
    BY <1>3, <1>5, <1>7, VisitedChange
<1>11. /\ \A p \in Pcs : g.pcs[p].gas = u.pcs[p].gas
       /\ \A p \in Pcs : g.pcs[p].count = u.pcs[p].count
    <2>1. \A p \in Pcs \ {pc} : g.pcs[p].count = u.pcs[p].count
        BY <1>3, <1>7
    <2>2. g.pcs[pc].count = u.pcs[pc].count
        BY <1>3, <1>7
    <2> QED BY <1>3, <1>7, <2>1, <2>2
<1>12. \A p \in Pcs : g.pcs[p].count \in Nat /\ u.pcs[p].gas \in Nat /\ s.pcs[p].count \in Nat
    BY <1>1, <1>5, <1>7 DEF Counters
<1>13. Records(g, u)
    <2>1. ASSUME NEW p \in Pcs, g.pcs[p].count = 0 PROVE g.pcs[p].gas = 0
        BY <1>3, <1>7, <1>12, <2>1 DEF Records
    <2>2. g.opcodes[pc] = OpcodeAt(u.code, pc)
              /\ \A p \in Pcs \ {pc} : g.opcodes[p] = s.opcodes[p]
        BY <1>4, <1>6 DEF Frames
    <2>3. \A p \in Pcs : s.pcs[p].count > 0 => s.opcodes[p] = OpcodeAt(u.code, p)
        BY <1>3 DEF Records
    <2>4. ASSUME NEW p \in Pcs, g.pcs[p].count > 0 PROVE g.opcodes[p] = OpcodeAt(u.code, p)
        BY <1>7, <2>2, <2>3, <2>4
    <2>5. \A p \in Pcs : g.pcs[p].count = u.pcs[p].count
        BY <1>11
    <2>6. /\ g.parent = u.parent /\ g.code = Keccak(u.code) /\ g.creation = u.creation
          /\ g.supplied = u.supplied
        BY <1>1, <1>6
    <2> QED BY <2>1, <2>4, <2>5, <2>6 DEF Records
<1>14. pc # NoPc
    BY DiagnosticsAssumption DEF NoPc
<1>15. InOpcode(g, u, b, 0)
    <2>1. Owed(g, b, 0) = 0
        BY <1>1, <1>6 DEF Owed, Cost
    <2>2. g.pcs[pc].count > 0
        BY <1>7, <1>12
    <2>3. g.supplied - g.childGas - SelfGas(g) = g.pendingGas - g.pendingChildren
        BY <1>1, <1>3, <1>6, <1>9
    <2>4. g.pcs[pc].gas + Owed(g, b, 0) = u.pcs[pc].gas
        BY <1>11, <1>12, <2>1
    <2> QED BY <2>1, <2>2, <2>3, <2>4 DEF InOpcode
<1>16. Open(g, u, b, 0)
    BY <1>1, <1>6, <1>11, <1>14, <1>15 DEF Open
<1> QED BY <1>6, <1>8, <1>10, <1>13, <1>16 DEF g, s, Stepped

\* It is entered.
LEMMA NewOpen ==
    ASSUME NEW parent \in Nat, NEW depth \in Nat, NEW code \in Codes, NEW creation \in BOOLEAN,
           NEW supplied \in Nat, NEW t, t.parent = parent, t.code = code, t.creation = creation, t.supplied = supplied,
           t.pcs = [p \in Pcs |-> NoCounter],
           NEW a, a.gas = supplied, a.pc = NoPc
    PROVE  LET f == Frame(parent, depth, Keccak(code), creation, supplied) IN
           /\ f \in Frames /\ f.parent = parent /\ f.depth = depth
           /\ f.used = 0 /\ f.childGas = 0 /\ Visited(f) = 0
           /\ Records(f, t) /\ Open(f, t, a, 0)
<1> DEFINE f == Frame(parent, depth, Keccak(code), creation, supplied)
<1>1. /\ f.parent = parent /\ f.depth = depth /\ f.code = Keccak(code) /\ f.creation = creation /\ f.supplied = supplied
      /\ f.used = 0 /\ f.childGas = 0 /\ f.pendingPc = NoPc /\ f.pendingChildren = 0
      /\ f.pcs = [p \in Pcs |-> NoCounter]
    BY DEF Frame
<1>2. f \in Frames
    BY NewFrame DEF Hashes
<1> HIDE DEF f
<1>3. Visited(f) = 0
    BY <1>1, NothingVisited
<1>4. Records(f, t)
    BY <1>1 DEF Records, NoCounter
<1>5. Open(f, t, a, 0)
    BY <1>1 DEF Open, Fresh
<1> QED BY <1>1, <1>2, <1>3, <1>4, <1>5 DEF f

-----------------------------------------------------------------------------
(* Every operation keeps the invariant.                                    *)

\* When only the activation on top changes, and what is recorded of it still holds.
LEMMA FollowsActive ==
    ASSUME TypeOK, Stacked, Running, Follows,
           DOMAIN activations' = DOMAIN activations, Len(activations') = Len(activations),
           \A k \in DOMAIN activations : activations'[k].id = activations[k].id,
           \A k \in DOMAIN activations : Lent(k)' = Lent(k),
           \A k \in DOMAIN activations \ {Len(activations)} : activations'[k] = activations[k],
           DOMAIN truth' = DOMAIN truth, Len(truth') = Len(truth),
           \A id \in DOMAIN truth \ {Active.id} : truth'[id] = truth[id],
           truth'[Active.id].parent = truth[Active.id].parent,
           Len(collector'.frames) = Len(collector.frames),
           \A id \in DOMAIN truth \ {Active.id} : collector'.frames[id] = collector.frames[id],
           collector'.frames[Active.id].depth = collector.frames[Active.id].depth,
           collector'.stack = collector.stack, collector'.steps = visits',
           Records(collector'.frames[Active.id], truth'[Active.id]),
           Open(collector'.frames[Active.id], truth'[Active.id], activations'[Len(activations)], 0),
           Sums(collector'.frames, collector'.steps)
    PROVE  Follows'
<1>1. /\ \A k \in DOMAIN activations : k # Len(activations) => activations[k].id # Active.id
      /\ Active = activations[Len(activations)] /\ Len(activations) \in DOMAIN activations
      /\ Lent(Len(activations)) = 0 /\ OnStack(Active.id) /\ Active.id \in DOMAIN truth
      /\ \A k \in DOMAIN activations : activations[k].id \in DOMAIN truth
    BY ActiveFacts
<1>2. \A id : OnStack(id)' <=> OnStack(id)
    BY DEF OnStack
<1>3. Len(collector'.frames) = Len(truth')
    BY DEF Follows
<1>4. \A id \in DOMAIN truth' : Records(collector'.frames[id], truth'[id])
    BY DEF Follows
<1>5. \A id \in DOMAIN truth' : ~OnStack(id)' => Closed(collector'.frames[id], truth'[id])
    BY <1>1, <1>2 DEF Follows
<1>6. \A k \in DOMAIN activations' :
        Open(collector'.frames[activations'[k].id], truth'[activations'[k].id],
             activations'[k], Lent(k)')
    <2> SUFFICES ASSUME NEW k \in DOMAIN activations
                 PROVE  Open(collector'.frames[activations'[k].id], truth'[activations'[k].id],
                             activations'[k], Lent(k)')
        OBVIOUS
    <2>1. CASE k = Len(activations)
        BY <1>1, <2>1
    <2>2. CASE k # Len(activations)
        <3>1. activations[k].id \in DOMAIN truth \ {Active.id} /\ activations'[k] = activations[k]
            BY <1>1, <2>2
        <3>2. Open(collector.frames[activations[k].id], truth[activations[k].id],
                   activations[k], Lent(k))
            BY DEF Follows
        <3> QED BY <3>1, <3>2
    <2> QED BY <2>1, <2>2
<1>7. Nested'
    <2>1. \A id \in DOMAIN truth : /\ collector'.frames[id].depth = collector.frames[id].depth
                                   /\ truth'[id].parent = truth[id].parent
        OBVIOUS
    <2>2. collector'.stack = [k \in DOMAIN activations' |-> activations'[k].id]
        BY DEF Follows, Nested
    <2>3. \A k \in DOMAIN activations' : collector'.frames[activations'[k].id].depth = k - 1
        BY <1>1, <2>1, SMTT(30) DEF Follows, Nested
    <2>4. ASSUME NEW id \in DOMAIN truth', truth'[id].parent # 0
          PROVE  collector'.frames[id].depth = collector'.frames[truth'[id].parent].depth + 1
        <3>1. truth[id].parent \in DOMAIN truth
            <4>1. truth[id] \in TruthType /\ DOMAIN truth = 1 .. Len(truth) /\ Len(truth) \in Nat
                BY <2>4 DEF TypeOK
            <4>2. truth[id].parent \in Nat /\ truth[id].parent < id /\ truth[id].parent # 0
                BY <2>1, <2>4, <4>1 DEF Stacked, TruthType
            <4> QED BY <2>4, <4>1, <4>2
        <3> QED BY <2>1, <2>4, <3>1 DEF Follows, Nested
    <2> QED BY <2>2, <2>3, <2>4 DEF Nested
<1> QED BY <1>3, <1>4, <1>5, <1>6, <1>7 DEF Follows

\* The frame on top of a collector that follows is the active one's.
LEMMA TopFrame ==
    ASSUME TypeOK, Stacked, Running, Follows
    PROVE  /\ collector.stack # << >> /\ Top(collector) = Active.id
           /\ Len(collector.stack) = Len(activations)
           /\ collector.frames \in Seq(Frames) /\ DOMAIN collector.frames = DOMAIN truth
           /\ \A id \in DOMAIN truth : collector.frames[id] \in Frames /\ truth[id] \in TruthType
           /\ Records(collector.frames[Active.id], truth[Active.id])
           /\ Open(collector.frames[Active.id], truth[Active.id], Active, 0)
<1>1. /\ Len(activations) \in Nat \ {0} /\ Len(activations) \in DOMAIN activations
      /\ DOMAIN activations = 1 .. Len(activations) /\ Active = activations[Len(activations)]
      /\ Lent(Len(activations)) = 0 /\ Active.id \in DOMAIN truth
    BY ActiveFacts
<1>2. collector.stack = [k \in DOMAIN activations |-> activations[k].id]
    BY DEF Follows, Nested
<1>3. /\ collector.stack # << >> /\ Len(collector.stack) = Len(activations)
      /\ Top(collector) = Active.id
    <2>1. collector.stack \in Seq(Nat)
        BY DEF TypeOK, CollectorType
    <2>2. Len(collector.stack) = Len(activations)
        BY <1>1, <1>2, <2>1
    <2> QED BY <1>1, <1>2, <2>1, <2>2 DEF Top, Last
<1>4. /\ collector.frames \in Seq(Frames) /\ DOMAIN collector.frames = DOMAIN truth
      /\ \A id \in DOMAIN truth : collector.frames[id] \in Frames /\ truth[id] \in TruthType
    BY DEF TypeOK, CollectorType, Follows
<1> QED BY <1>1, <1>3, <1>4 DEF Follows

\* What a code holds is an opcode.
LEMMA OpcodeTyped ==
    ASSUME NEW code \in Codes, NEW pc \in Nat
    PROVE  OpcodeAt(code, pc) \in Opcodes
<1>1. code \in Seq(Opcodes) /\ "stop" \in Opcodes
    BY DiagnosticsAssumption DEF Opcodes
<1>2. pc < Len(code) => pc + 1 \in DOMAIN code
    BY <1>1
<1> HIDE DEF Opcodes
<1> QED BY <1>1, <1>2 DEF OpcodeAt

LEMMA SpendKeeps ==
    ASSUME IInv, NEW amount \in Charges, Spend(amount)
    PROVE  IInv'
<1> DEFINE n == Len(activations)
           b == [Active EXCEPT !.gas = @ - amount, !.busy = FALSE]
<1>1. /\ TypeOK /\ Stacked /\ Running /\ amount \in Nat /\ amount <= Active.gas /\ Active.busy
      /\ activations' = SetActive(b) /\ truth' = Charged(truth, Active.id, Active.pc, amount)
      /\ UNCHANGED <<phase, cases, gas, visits, collector>>
    BY DiagnosticsAssumption DEF IInv, Spend, Charges
<1>2. /\ Active \in ActivationType /\ Active.id \in DOMAIN truth /\ Active.pc \in Pcs
      /\ truth \in Seq(TruthType) /\ n \in DOMAIN activations /\ Active = activations[n]
      /\ Lent(n) = 0
    BY <1>1, ActiveFacts
<1>3. /\ b \in ActivationType /\ b.id = Active.id /\ b.gas = Active.gas - amount /\ b.gas <= Active.gas
      /\ b.pc = Active.pc /\ ~b.busy
    <2>1. Active.gas \in Nat /\ amount \in Nat /\ amount <= Active.gas
        BY <1>1, <1>2 DEF ActivationType
    <2>2. Active.gas - amount \in Nat /\ Active.gas - amount <= Active.gas
        BY <2>1
    <2> QED BY <1>2, <2>2 DEF ActivationType
<1> HIDE DEF b
<1>4. /\ truth' \in Seq(TruthType) /\ Len(truth') = Len(truth) /\ DOMAIN truth' = DOMAIN truth
      /\ \A id \in DOMAIN truth \ {Active.id} : truth'[id] = truth[id]
      /\ truth'[Active.id].parent = truth[Active.id].parent
      /\ truth'[Active.id].supplied = truth[Active.id].supplied
      /\ ChargedMore(truth'[Active.id], truth[Active.id], Active.pc, amount)
    <2>1. DOMAIN truth' = DOMAIN truth /\ truth' \in Seq(TruthType)
        BY <1>1, <1>2, Charging
    <2>2. truth'[Active.id] \in TruthType
        BY <1>2, <2>1
    <2> QED BY <1>1, <1>2, <2>2, Charging, SMTT(30) DEF ChargedMore
<1>5. /\ Stacked' /\ DOMAIN activations' = DOMAIN activations
      /\ activations' \in Seq(ActivationType) /\ Len(activations') = n
      /\ \A k \in DOMAIN activations : activations'[k].id = activations[k].id
      /\ \A k \in DOMAIN activations : Lent(k)' = Lent(k)
      /\ activations'[n] = b
      /\ \A k \in DOMAIN activations \ {n} : activations'[k] = activations[k]
    <2>1. \A id \in DOMAIN truth : /\ truth'[id].parent = truth[id].parent
                                   /\ truth'[id].supplied = truth[id].supplied
        BY <1>4
    <2> QED BY <1>1, <1>3, <1>4, <2>1, StackedActive
<1>6. TypeOK'
    BY <1>1, <1>4, <1>5 DEF TypeOK
<1>7. Live' => Limited'
    BY <1>1, <1>4 DEF IInv, Live, Limited
<1>8. ASSUME Live', ~collector'.failed PROVE Follows'
    <2>1. Follows
        BY <1>1, <1>8 DEF IInv, Live
    <2> DEFINE f == collector.frames[Active.id]
               t == truth[Active.id]
               u == truth'[Active.id]
    <2>2. f \in Frames /\ t \in TruthType /\ Records(f, t) /\ Open(f, t, Active, 0)
        BY <1>1, <1>2, <2>1, TopFrame
    <2>3. ChargedMore(u, t, Active.pc, amount)
        BY <1>4
    <2>4. b.gas + 0 = Active.gas + 0 - amount
        BY <1>1, <1>2, <1>3 DEF ActivationType
    <2> DEFINE a == Active
    <2>8. /\ a \in ActivationType /\ a.pc \in Pcs /\ b \in ActivationType /\ b.pc = a.pc
          /\ Open(f, t, a, 0) /\ ChargedMore(u, t, a.pc, amount) /\ b.gas + 0 = a.gas + 0 - amount
          /\ amount \in Nat
        BY <1>1, <1>2, <1>3, <2>2, <2>3, <2>4
    <2> HIDE DEF f, t, u, a
    <2>5. Records(f, u) /\ Open(f, u, b, 0)
        BY <2>2, <2>8, OpenCharged
    <2>6. /\ collector' = collector /\ Records(collector'.frames[Active.id], truth'[Active.id])
          /\ Open(collector'.frames[Active.id], truth'[Active.id], activations'[n], 0)
        BY <1>1, <1>5, <2>5 DEF f, u
    <2>7. Sums(collector'.frames, collector'.steps) /\ collector'.steps = visits'
        BY <1>1, <2>1, <2>6 DEF Follows
    <2> QED BY <1>1, <1>4, <1>5, <2>1, <2>6, <2>7, FollowsActive
<1> QED BY <1>5, <1>6, <1>7, <1>8 DEF IInv

\* A hook that finds a limit exceeded only latches the failure.
LEMMA FailedFields ==
    ASSUME NEW col \in CollectorType
    PROVE  /\ Failed(col) \in CollectorType /\ Failed(col).failed
           /\ Failed(col).active = col.active /\ Failed(col).steps = col.steps
           /\ Failed(col).frames = col.frames /\ Failed(col).stack = col.stack
           /\ Failed(col).codes = col.codes
BY DEF Failed, CollectorType

\* A step of a collector that follows fails only at the limit.
LEMMA StepRecords ==
    ASSUME TypeOK, Stacked, Running, Follows, Recording(collector), NEW pc \in Pcs,
           NEW opcode
    PROVE  LET f == collector.frames[Active.id]
               g == Stepped(f, Active.gas, pc, opcode)
               new == Step(collector, pc, opcode, Active.gas)
           IN IF collector.steps + 1 > MaxSteps THEN new = Failed(collector)
              ELSE new = [collector EXCEPT !.steps = @ + 1, !.frames[Active.id] = g]
<1>1. /\ collector.stack # << >> /\ Top(collector) = Active.id
      /\ collector.frames[Active.id] \in Frames
      /\ Open(collector.frames[Active.id], truth[Active.id], Active, 0)
    BY TopFrame, ActiveFacts
<1>2. ~Overdrawn(collector.frames[Active.id], Active.gas)
    BY <1>1, ActiveFacts, NotOverdrawn
<1> QED BY <1>1, <1>2 DEF Step, Stepped

LEMMA VisitKeeps ==
    ASSUME IInv, NEW pc \in Pcs, Visit(pc)
    PROVE  IInv'
<1> DEFINE n == Len(activations)
           b == [Active EXCEPT !.pc = pc, !.busy = TRUE]
           id == Active.id
           opcode == OpcodeAt(truth[id].code, pc)
<1>1. /\ TypeOK /\ Stacked /\ Running /\ visits < MaxVisits
      /\ activations' = SetActive(b) /\ truth' = [truth EXCEPT ![id].pcs[pc].count = @ + 1]
      /\ visits' = visits + 1 /\ collector' = Step(collector, pc, opcode, Active.gas)
      /\ UNCHANGED <<phase, cases, gas>>
    BY DEF IInv, Visit
<1>2. /\ Active \in ActivationType /\ id \in DOMAIN truth
      /\ truth \in Seq(TruthType) /\ n \in DOMAIN activations /\ Active = activations[n]
      /\ Lent(n) = 0 /\ Active.gas \in Nat
    BY <1>1, ActiveFacts DEF ActivationType
<1>0. opcode \in Opcodes /\ opcode = OpcodeAt(truth[id].code, pc)
    <2>1. truth[id] \in TruthType /\ pc \in Nat
        BY <1>2, DiagnosticsAssumption
    <2> QED BY <2>1, OpcodeTyped DEF TruthType
<1> HIDE DEF opcode
<1>3. /\ b \in ActivationType /\ b.id = Active.id /\ b.gas = Active.gas /\ b.gas <= Active.gas
      /\ b.pc = pc
    <2>1. /\ b \in ActivationType /\ b.id = Active.id /\ b.gas = Active.gas /\ b.pc = pc
        BY <1>2 DEF ActivationType
    <2> HIDE DEF b
    <2> QED BY <1>2, <2>1
<1> HIDE DEF b
<1>4. /\ truth' \in Seq(TruthType) /\ Len(truth') = Len(truth) /\ DOMAIN truth' = DOMAIN truth
      /\ \A j \in DOMAIN truth \ {id} : truth'[j] = truth[j]
      /\ truth'[id].parent = truth[id].parent /\ truth'[id].code = truth[id].code
      /\ truth'[id].creation = truth[id].creation
      /\ truth'[id].supplied = truth[id].supplied /\ truth'[id] \in TruthType
      /\ \A p \in Pcs : truth'[id].pcs[p].gas = truth[id].pcs[p].gas
      /\ \A p \in Pcs \ {pc} : truth'[id].pcs[p].count = truth[id].pcs[p].count
      /\ truth'[id].pcs[pc].count = truth[id].pcs[pc].count + 1
    <2>1. id \in DOMAIN truth /\ truth \in Seq(TruthType)
          /\ truth' = Counted(truth, id, pc)
        BY <1>1, <1>2 DEF Counted
    <2> HIDE DEF id
    <2>2. /\ truth' \in Seq(TruthType) /\ Len(truth') = Len(truth) /\ DOMAIN truth' = DOMAIN truth
          /\ \A j \in DOMAIN truth \ {id} : truth'[j] = truth[j]
          /\ truth'[id].parent = truth[id].parent /\ truth'[id].code = truth[id].code
          /\ truth'[id].creation = truth[id].creation
          /\ truth'[id].supplied = truth[id].supplied
          /\ \A p \in Pcs : truth'[id].pcs[p].gas = truth[id].pcs[p].gas
          /\ \A p \in Pcs \ {pc} : truth'[id].pcs[p].count = truth[id].pcs[p].count
          /\ truth'[id].pcs[pc].count = truth[id].pcs[pc].count + 1
        BY <2>1, Visiting
    <2>3. truth'[id] \in TruthType
        BY <2>1, <2>2
    <2> QED BY <2>2, <2>3
<1>5. /\ Stacked' /\ DOMAIN activations' = DOMAIN activations
      /\ activations' \in Seq(ActivationType) /\ Len(activations') = n
      /\ \A k \in DOMAIN activations : activations'[k].id = activations[k].id
      /\ \A k \in DOMAIN activations : Lent(k)' = Lent(k)
      /\ activations'[n] = b
      /\ \A k \in DOMAIN activations \ {n} : activations'[k] = activations[k]
    <2>1. \A j \in DOMAIN truth : /\ truth'[j].parent = truth[j].parent
                                  /\ truth'[j].supplied = truth[j].supplied
        BY <1>4
    <2> QED BY <1>1, <1>3, <1>4, <2>1, StackedActive
<1>6. Live /\ Live' /\ Limited
    BY <1>1 DEF IInv, Live, Running
<1>7. visits' \in 0 .. MaxVisits /\ visits \in Nat
    BY <1>1, DiagnosticsAssumption, SMTT(30) DEF TypeOK
<1>8. collector \in CollectorType /\ Len(collector.frames) <= MaxFrames
      /\ collector.stack \in Seq(1 .. Len(collector.frames)) /\ collector.steps \in Nat
      /\ MaxSteps \in Nat
    BY <1>1, DiagnosticsAssumption DEF TypeOK, CollectorType
<1>9. CASE collector.failed
    <2>1. collector' = collector
        BY <1>1, <1>9 DEF Step, Recording
    <2>2. TypeOK'
        BY <1>1, <1>4, <1>5, <1>7, <2>1 DEF TypeOK
    <2>3. Limited'
        <3>1. cases' = cases /\ collector' = collector /\ Len(truth') = Len(truth)
            BY <1>1, <1>4, <2>1
        <3>2. visits > MaxSteps => visits' > MaxSteps
            BY <1>1, <1>7, <1>8
        <3> QED BY <1>6, <1>9, <3>1, <3>2 DEF Limited
    <2> QED BY <1>5, <1>6, <1>9, <2>1, <2>2, <2>3 DEF IInv
<1>10. CASE ~collector.failed
    <2>1. Follows /\ Recording(collector) /\ collector.steps = visits
        BY <1>6, <1>10 DEF IInv, Recording, Limited, Follows
    <2>2. ~(visits > MaxSteps) /\ ~(Len(truth) > MaxFrames)
        BY <1>6, <1>10 DEF Limited
    <2> DEFINE f == collector.frames[id]
               g == Stepped(f, Active.gas, pc, opcode)
    <2>3. IF collector.steps + 1 > MaxSteps THEN collector' = Failed(collector)
          ELSE collector' = [collector EXCEPT !.steps = @ + 1, !.frames[id] = g]
        BY <1>1, <2>1, StepRecords
    <2>4. CASE collector.steps + 1 > MaxSteps
        <3>1. /\ collector' \in CollectorType /\ collector'.failed /\ collector'.active
              /\ collector'.frames = collector.frames /\ collector'.stack = collector.stack
            BY <1>6, <1>8, <2>3, <2>4, FailedFields DEF Limited
        <3>2. TypeOK'
            BY <1>1, <1>4, <1>5, <1>7, <1>8, <3>1 DEF TypeOK
        <3>3. Limited'
            BY <1>1, <1>6, <2>1, <2>4, <3>1 DEF Limited
        <3> QED BY <1>5, <1>6, <3>1, <3>2, <3>3 DEF IInv
    <2>5. CASE ~(collector.steps + 1 > MaxSteps)
        <3>1. /\ collector.frames \in Seq(Frames) /\ DOMAIN collector.frames = DOMAIN truth
              /\ f \in Frames /\ truth[id] \in TruthType
              /\ Records(f, truth[id]) /\ Open(f, truth[id], Active, 0)
            BY <1>1, <1>2, <2>1, TopFrame
        <3>2. /\ g \in Frames /\ g.parent = f.parent /\ g.depth = f.depth
              /\ g.used = f.used /\ g.childGas = f.childGas
              /\ Visited(g) = Visited(f) + 1
              /\ Records(g, truth'[id]) /\ Open(g, truth'[id], b, 0)
            <4> DEFINE t == truth[id]
                       u == truth'[id]
                       a == Active
            <4>1. /\ t \in TruthType /\ u \in TruthType /\ a \in ActivationType
                  /\ Records(f, t) /\ Open(f, t, a, 0)
                  /\ opcode \in Opcodes /\ opcode = OpcodeAt(t.code, pc)
                  /\ u.parent = t.parent /\ u.code = t.code /\ u.creation = t.creation /\ u.supplied = t.supplied
                  /\ \A p \in Pcs : u.pcs[p].gas = t.pcs[p].gas
                  /\ \A p \in Pcs \ {pc} : u.pcs[p].count = t.pcs[p].count
                  /\ u.pcs[pc].count = t.pcs[pc].count + 1
                  /\ b.gas = a.gas
                BY <1>0, <1>2, <1>3, <1>4, <3>1
            <4>2. g = Stepped(f, a.gas, pc, opcode)
                OBVIOUS
            <4> HIDE DEF t, u, a, f, g
            <4>3. /\ g \in Frames /\ g.parent = f.parent /\ g.depth = f.depth
                  /\ g.used = f.used /\ g.childGas = f.childGas
                  /\ Visited(g) = Visited(f) + 1
                  /\ Records(g, u) /\ Open(g, u, b, 0)
                BY <1>3, <3>1, <4>1, <4>2, StepOpen
            <4> QED BY <4>3 DEF u
        <3> HIDE DEF g, f
        <3>3. collector' = [collector EXCEPT !.steps = @ + 1, !.frames[id] = g]
            BY <2>3, <2>5
        <3>4. /\ collector'.frames = [collector.frames EXCEPT ![id] = g]
              /\ collector'.steps = collector.steps + 1 /\ collector'.stack = collector.stack
              /\ collector'.active /\ ~collector'.failed
              /\ collector' = [collector EXCEPT !.steps = collector.steps + 1,
                                                !.frames = [collector.frames EXCEPT ![id] = g]]
            BY <1>6, <1>8, <1>10, <3>3 DEF CollectorType, Limited
        <3>5. /\ collector'.frames \in Seq(Frames)
              /\ Len(collector'.frames) = Len(collector.frames)
              /\ collector'.frames[id] = g
              /\ \A j \in DOMAIN truth \ {id} : collector'.frames[j] = collector.frames[j]
            <4> HIDE DEF id
            <4> QED BY <1>2, <3>1, <3>2, <3>4 DEF id
        <3>6. collector'.steps \in 0 .. MaxSteps
            BY <1>8, <2>5, <3>4
        <3>7. collector' \in CollectorType
            BY <1>8, <3>4, <3>5, <3>6 DEF CollectorType
        <3>8. TypeOK'
            BY <1>1, <1>4, <1>5, <1>7, <1>8, <3>4, <3>5, <3>7 DEF TypeOK
        <3>9. Limited'
            BY <1>1, <1>6, <1>4, <2>1, <2>2, <2>5, <3>4 DEF Limited
        <3>10. Sums(collector'.frames, collector'.steps)
            <4>1. Sums(collector.frames, collector.steps)
                BY <2>1 DEF Follows
            <4>2. id \in DOMAIN collector.frames /\ f = collector.frames[id]
                BY <1>2, <3>1 DEF f
            <4> DEFINE F == collector.frames
                       m == collector.steps
            <4>3. /\ F \in Seq(Frames) /\ id \in DOMAIN F /\ g \in Frames /\ m \in Nat
                  /\ g.parent = F[id].parent /\ g.used = F[id].used /\ g.childGas = F[id].childGas
                  /\ Visited(g) = Visited(F[id]) + 1 /\ Sums(F, m)
                BY <1>8, <3>1, <3>2, <4>1, <4>2
            <4> HIDE DEF F, m, id
            <4>4. Sums([F EXCEPT ![id] = g], m + 1)
                BY <4>3, SumsStep
            <4> QED BY <3>4, <4>4 DEF F, m
        <3>11. Follows'
            <4>1. /\ collector'.frames[id].depth = collector.frames[id].depth
                  /\ collector'.steps = visits'
                  /\ Records(collector'.frames[id], truth'[id])
                  /\ Open(collector'.frames[id], truth'[id], activations'[n], 0)
                BY <1>1, <1>5, <2>1, <3>2, <3>4, <3>5 DEF f
            <4> QED BY <1>1, <1>4, <1>5, <2>1, <3>4, <3>5, <3>10, <4>1, FollowsActive
        <3> QED BY <1>5, <3>8, <3>9, <3>11 DEF IInv
    <2> QED BY <2>4, <2>5
<1> QED BY <1>9, <1>10

\* The stack of a call: the caller lends its callee what it supplies it with.
CallEffect(code, amount, stipend, forwarded) ==
  LET n == Len(activations)
      L == Len(truth) + 1
      id == Active.id
      supplied == forwarded + stipend
  IN /\ Running /\ n \in Nat \ {0} /\ L \in Nat /\ supplied \in Nat /\ Active.pc \in Pcs
     /\ amount - stipend \in Nat
     /\ Stacked' /\ phase' = phase /\ UNCHANGED <<cases, gas, visits>>
     /\ activations' \in Seq(ActivationType) /\ DOMAIN activations' = 1 .. (n + 1)
     /\ Len(activations') = n + 1
     /\ \A k \in 1 .. (n - 1) : activations'[k] = activations[k]
     /\ \A k \in 1 .. (n + 1) :
          Lent(k)' = IF k < n THEN Lent(k) ELSE IF k = n THEN supplied ELSE 0
     /\ activations'[n].pc = Active.pc /\ activations'[n].id = id
     /\ activations'[n].gas + supplied = Active.gas - (amount - stipend)
     /\ activations'[n + 1] = Activation(L, supplied)
     /\ truth' \in Seq(TruthType) /\ DOMAIN truth' = DOMAIN truth \cup {L}
     /\ DOMAIN truth = 1 .. Len(truth)
     /\ Len(truth') = L /\ id \in DOMAIN truth
     /\ \A j \in DOMAIN truth \ {id} : truth'[j] = truth[j]
     /\ ChargedMore(truth'[id], truth[id], Active.pc, amount - stipend)
     /\ truth'[L] = NewTruth(id, code, supplied)
     /\ collector' = Enter(collector, code, n, supplied)

LEMMA CallStack ==
    ASSUME TypeOK, Stacked, NEW code \in Codes, NEW amount \in Charges, NEW stipend \in Charges,
           NEW forwarded \in 0 .. GasLimit, Call(code, amount, forwarded, stipend)
    PROVE  CallEffect(code, amount, stipend, forwarded)
<1> DEFINE n == Len(activations)
           L == Len(truth) + 1
           id == Active.id
           supplied == forwarded + stipend
           caller == [Active EXCEPT !.gas = @ - amount - forwarded]
           t == Charged(truth, id, Active.pc, amount - stipend)
           new == NewTruth(id, code, supplied)
           callee == Activation(L, supplied)
           s == SetActive(caller)
<1>1. /\ Running /\ Active.busy /\ amount + forwarded <= Active.gas /\ stipend <= amount
      /\ amount \in Nat /\ forwarded \in Nat /\ stipend \in Nat
      /\ activations' = Append(s, callee) /\ truth' = Append(t, new)
      /\ collector' = Enter(collector, code, n, supplied)
      /\ UNCHANGED <<phase, cases, gas, visits>>
    BY DiagnosticsAssumption DEF Call, Charges
<1>2. /\ n \in Nat \ {0} /\ DOMAIN activations = 1 .. n /\ Active = activations[n]
      /\ Active \in ActivationType /\ Active.gas \in Nat /\ id \in DOMAIN truth /\ id \in Nat
      /\ Active.pc \in Pcs /\ Active.gas <= truth[id].supplied
      /\ \A k \in DOMAIN activations : /\ activations[k].id \in DOMAIN truth
                                       /\ activations[k] \in ActivationType
      /\ truth \in Seq(TruthType) /\ DOMAIN truth = 1 .. Len(truth) /\ Len(truth) \in Nat
      /\ \A k \in DOMAIN activations : k # n => activations[k].id # id
    BY <1>1, ActiveFacts, SMTT(30) DEF ActivationType
<1>3. /\ supplied \in Nat /\ amount - stipend \in Nat /\ L \in Nat /\ L \notin DOMAIN truth
      /\ Active.gas - amount - forwarded \in Nat
    <2>1. supplied \in Nat /\ amount - stipend \in Nat
        BY <1>1
    <2>2. L \in Nat /\ L \notin DOMAIN truth
        BY <1>2
    <2>3. Active.gas \in Nat /\ amount + forwarded <= Active.gas
        BY <1>1, <1>2
    <2>4. Active.gas - amount - forwarded \in Nat
        BY <1>1, <2>3, SMTT(30)
    <2> QED BY <2>1, <2>2, <2>4
<1>4. /\ caller \in ActivationType /\ caller.id = id /\ caller.pc = Active.pc /\ caller.busy
      /\ caller.gas = Active.gas - amount - forwarded
    BY <1>1, <1>2, <1>3 DEF ActivationType
<1>5. callee \in ActivationType /\ callee.id = L /\ callee.gas = supplied /\ ~callee.busy
    BY <1>3 DEF Activation, ActivationType
<1>6. /\ new \in TruthType /\ new.parent = id /\ new.supplied = supplied
    BY <1>2, <1>3 DEF NewTruth, TruthType, NoCounter, Statuses
<1>7. /\ t \in Seq(TruthType) /\ Len(t) = Len(truth) /\ DOMAIN t = DOMAIN truth
      /\ \A j \in DOMAIN truth \ {id} : t[j] = truth[j]
      /\ ChargedMore(t[id], truth[id], Active.pc, amount - stipend)
    <2> DEFINE d == amount - stipend
    <2>1. d \in Nat /\ id \in DOMAIN truth /\ Active.pc \in Pcs /\ truth \in Seq(TruthType)
          /\ t = Charged(truth, id, Active.pc, d)
        BY <1>2, <1>3
    <2> HIDE DEF d, t, id
    <2>2. t \in Seq(TruthType) /\ DOMAIN t = DOMAIN truth /\ t[id] \in TruthType
        BY <2>1, Charging
    <2>3. ChargedMore(t[id], truth[id], Active.pc, d)
        BY <2>1, <2>2, Charging DEF ChargedMore
    <2>4. /\ Len(t) = Len(truth) /\ \A j \in DOMAIN truth \ {id} : t[j] = truth[j]
        BY <2>1, Charging
    <2> QED BY <2>2, <2>3, <2>4 DEF d
<1>8. /\ s \in Seq(ActivationType) /\ Len(s) = n /\ DOMAIN s = 1 .. n /\ s[n] = caller
      /\ \A k \in 1 .. (n - 1) : s[k] = activations[k]
    <2>1. s = [activations EXCEPT ![n] = caller] /\ activations \in Seq(ActivationType)
        BY DEF SetActive, TypeOK
    <2> HIDE DEF s, caller, n, ActivationType
    <2>2. DOMAIN activations = 1 .. n /\ n \in 1 .. n /\ Len(activations) = n
        BY <1>2 DEF n
    <2> QED BY <1>4, <2>1, <2>2
<1> HIDE DEF caller, callee, new, t, s, n, supplied, L
<1>9. /\ activations' \in Seq(ActivationType) /\ Len(activations') = n + 1
      /\ DOMAIN activations' = 1 .. (n + 1) /\ activations' # << >>
      /\ \A k \in 1 .. (n - 1) : activations'[k] = activations[k]
      /\ activations'[n] = caller /\ activations'[n + 1] = callee
    BY <1>1, <1>2, <1>5, <1>8
<1>10. /\ truth' \in Seq(TruthType) /\ Len(truth') = L /\ DOMAIN truth' = DOMAIN truth \cup {L}
       /\ \A j \in DOMAIN truth : truth'[j] = t[j]
       /\ truth'[L] = new
    BY <1>1, <1>2, <1>6, <1>7 DEF L
<1>11. \A j \in DOMAIN truth : truth'[j].parent = truth[j].parent /\ truth'[j].supplied = truth[j].supplied
    BY <1>7, <1>10 DEF ChargedMore
<1>12. /\ \A k \in 1 .. n : activations'[k].id = activations[k].id
    BY <1>2, <1>4, <1>9
<1>13. \A k \in 1 .. (n + 1) :
         Lent(k)' = IF k < n THEN Lent(k) ELSE IF k = n THEN supplied ELSE 0
    <2> SUFFICES ASSUME NEW k \in 1 .. (n + 1)
                 PROVE  Lent(k)' = IF k < n THEN Lent(k) ELSE IF k = n THEN supplied ELSE 0
        OBVIOUS
    <2>1. CASE k < n
        <3>1. k \in 1 .. (n - 1) /\ k + 1 \in 1 .. n /\ k # n /\ k # n + 1 /\ k \in Int
            BY <1>2, <2>1
        <3>2. Lent(k)' = truth'[activations'[k + 1].id].supplied
            BY <1>9, <3>1 DEF Lent
        <3>3. Lent(k) = truth[activations[k + 1].id].supplied
            BY <3>1 DEF Lent, n
        <3>4. activations[k + 1].id \in DOMAIN truth
            BY <1>2, <3>1
        <3> QED BY <1>11, <1>12, <2>1, <3>1, <3>2, <3>3, <3>4
    <2>2. CASE k = n
        <3>1. k # n + 1 /\ ~(k < n) /\ k + 1 = n + 1
            BY <1>2, <2>2
        <3>2. Lent(k)' = truth'[activations'[k + 1].id].supplied
            BY <1>9, <3>1 DEF Lent
        <3> QED BY <1>5, <1>6, <1>9, <1>10, <2>2, <3>1, <3>2
    <2>3. CASE k = n + 1
        <3>1. k # n /\ ~(k < n)
            BY <1>2, <2>3
        <3> QED BY <1>9, <2>3, <3>1 DEF Lent
    <2> QED BY <1>2, <2>1, <2>2, <2>3
<1>14. caller.gas + supplied = Active.gas - (amount - stipend)
    <2>1. /\ amount \in Nat /\ stipend \in Nat /\ forwarded \in Nat /\ Active.gas \in Nat
          /\ caller.gas = Active.gas - amount - forwarded
        BY <1>1, <1>2, <1>4, DiagnosticsAssumption DEF Charges
    <2> QED BY <2>1 DEF supplied
<1>15. Stacked'
    <2>1. phase' = "running" <=> activations' # << >>
        BY <1>1, <1>9 DEF Running
    <2>2. activations'[1].id = 1 /\ 1 \in DOMAIN truth
        BY <1>1, <1>2, <1>12, SMTT(30) DEF Stacked, Running
    <2>3. truth'[1].supplied = GasLimit
        BY <1>11, <2>2, <1>2 DEF Stacked
    <2>4. ASSUME NEW k \in DOMAIN activations'
          PROVE  /\ activations'[k].id \in DOMAIN truth'
                 /\ truth'[activations'[k].id].parent = IF k = 1 THEN 0 ELSE activations'[k - 1].id
                 /\ activations'[k].busy => activations'[k].pc \in Pcs
                 /\ k < Len(activations') => activations'[k].busy
                 /\ activations'[k].gas + Lent(k)' <= truth'[activations'[k].id].supplied
        <3>1. CASE k = n + 1
            <4>1. activations'[k].id = L /\ activations'[k].gas = supplied /\ ~activations'[k].busy
                BY <1>5, <1>9, <3>1
            <4>2. L \in DOMAIN truth' /\ truth'[L].parent = id /\ truth'[L].supplied = supplied
                BY <1>6, <1>10
            <4>3. k # 1 /\ k - 1 = n /\ ~(k < Len(activations'))
                BY <1>2, <1>9, <3>1
            <4>4. activations'[n].id = id
                BY <1>4, <1>9
            <4>5. Lent(k)' = 0 /\ supplied + 0 <= supplied
                BY <1>2, <1>3, <1>9, <1>13, <3>1
            <4> QED BY <4>1, <4>2, <4>3, <4>4, <4>5
        <3>2. CASE k = n
            <4>1. activations'[k - 1].id = activations[k - 1].id \/ k = 1
                BY <1>2, <1>12, <3>2
            <4>2. /\ activations'[k].id = id /\ activations'[k].busy /\ activations'[k].pc \in Pcs
                  /\ id \in DOMAIN truth'
                BY <1>2, <1>4, <1>9, <1>10, <3>2
            <4>3. truth'[id].parent = IF k = 1 THEN 0 ELSE activations[k - 1].id
                BY <1>2, <1>11, <3>2 DEF Stacked
            <4>4. caller.gas + supplied <= truth'[id].supplied
                <5>1. truth'[id].supplied = truth[id].supplied /\ truth[id].supplied \in Nat
                    <6>1. truth[id] \in TruthType
                        BY <1>2
                    <6> QED BY <1>2, <1>11, <6>1 DEF TruthType
                <5>2. Active.gas \in Nat /\ amount - stipend \in Nat /\ Active.gas <= truth[id].supplied
                    BY <1>2, <1>3
                <5>3. Active.gas - (amount - stipend) <= truth[id].supplied
                    BY <5>1, <5>2
                <5> QED BY <1>14, <5>1, <5>3
            <4>5. activations'[k].gas + Lent(k)' <= truth'[id].supplied
                <5>1. Lent(k)' = supplied
                    BY <1>2, <1>9, <1>13, <3>2
                <5> QED BY <1>9, <3>2, <4>4, <5>1
            <4> QED BY <4>1, <4>2, <4>3, <4>5
        <3>3. CASE k \in 1 .. (n - 1)
            <4>0. k \in DOMAIN activations /\ k < n /\ (k # 1 => k - 1 \in 1 .. (n - 1))
                BY <1>2, <3>3
            <4>1. /\ k \in DOMAIN activations /\ activations'[k] = activations[k]
                  /\ Lent(k)' = Lent(k) /\ k < n
                  /\ k # 1 => activations'[k - 1] = activations[k - 1]
                BY <1>2, <1>9, <1>13, <3>3, <4>0
            <4>2. /\ activations[k].id \in DOMAIN truth
                  /\ truth[activations[k].id].parent = IF k = 1 THEN 0 ELSE activations[k - 1].id
                  /\ activations[k].busy => activations[k].pc \in Pcs
                  /\ activations[k].busy
                  /\ activations[k].gas + Lent(k) <= truth[activations[k].id].supplied
                BY <4>1 DEF Stacked, n
            <4> QED BY <1>10, <1>11, <4>1, <4>2
        <3> QED BY <1>2, <1>9, <3>1, <3>2, <3>3
    <2>5. ASSUME NEW k \in DOMAIN activations', NEW l \in DOMAIN activations', k < l
          PROVE  activations'[k].id < activations'[l].id
        <3>1. k \in 1 .. n /\ (l \in 1 .. n \/ l = n + 1)
            BY <1>2, <1>9, <2>5
        <3>2. activations'[k].id = activations[k].id /\ activations[k].id \in DOMAIN truth
            BY <1>2, <1>12, <3>1
        <3>3. CASE l \in 1 .. n
            BY <1>2, <1>12, <2>5, <3>1, <3>3 DEF Stacked
        <3>4. CASE l = n + 1
            BY <1>2, <1>5, <1>9, <3>2, <3>4 DEF L
        <3> QED BY <3>1, <3>3, <3>4
    <2>6. \A j \in DOMAIN truth' : truth'[j].parent < j
        BY <1>2, <1>6, <1>10, <1>11 DEF Stacked, L
    <2> QED BY <1>9, <2>1, <2>2, <2>3, <2>4, <2>5, <2>6 DEF Stacked, Lent
<1>16. ChargedMore(truth'[id], truth[id], Active.pc, amount - stipend)
    BY <1>2, <1>7, <1>10
<1>17. \A j \in DOMAIN truth \ {id} : truth'[j] = truth[j]
    BY <1>7, <1>10
<1>18. activations'[n].pc = Active.pc /\ activations'[n].id = id
       /\ activations'[n].gas + supplied = Active.gas - (amount - stipend)
    BY <1>4, <1>9, <1>14
<1>19. activations'[n + 1] = Activation(L, supplied) /\ truth'[L] = NewTruth(id, code, supplied)
    BY <1>9, <1>10 DEF callee, new
<1> QED BY <1>1, <1>2, <1>3, <1>9, <1>10, <1>13, <1>15, <1>16, <1>17, <1>18, <1>19, Zenon
        DEF CallEffect, n, L, supplied

Pushed(col, f, code) ==
  [col EXCEPT !.stack = Append(@, Len(col.frames) + 1), !.frames = Append(@, f),
              !.codes = Learned(@, code)]

\* A code is added to those known under its hash.
LEMMA Learning ==
    ASSUME NEW codes \in CodeMaps, NEW code \in Codes
    PROVE  /\ Learned(codes, code) \in CodeMaps
           /\ DOMAIN Learned(codes, code) = DOMAIN codes \cup {Keccak(code)}
           /\ \A hash \in DOMAIN codes : Learned(codes, code)[hash] = codes[hash]
           /\ Keccak(code) \notin DOMAIN codes => Learned(codes, code)[Keccak(code)] = code
<1> DEFINE h == Keccak(code)
           D == DOMAIN codes \cup {h}
           L == [k \in D |-> IF k \in DOMAIN codes THEN codes[k] ELSE code]
<1>1. PICK H \in SUBSET Hashes : codes \in [H -> Codes]
    BY DEF CodeMaps
<1>2. Learned(codes, code) = L
    BY DEF Learned
<1>3. h \in Hashes
    BY DEF Hashes
<1>4. D \in SUBSET Hashes /\ L \in [D -> Codes]
    BY <1>1, <1>3
<1> HIDE DEF L, D, h
<1>5. L \in CodeMaps
    BY <1>4 DEF CodeMaps
<1>6. /\ DOMAIN L = D /\ \A hash \in DOMAIN codes : L[hash] = codes[hash]
      /\ h \notin DOMAIN codes => L[h] = code
    BY DEF L, D
<1> QED BY <1>2, <1>5, <1>6 DEF D, h

\* A hook that enters a frame of a collector that follows fails only at the limit.
LEMMA EnterRecords ==
    ASSUME TypeOK, Stacked, Running, Follows, Recording(collector), Active.pc \in Pcs,
           NEW code, NEW depth, NEW supplied
    PROVE  LET f == Frame(Active.id, depth, Keccak(code), Executing(Active) = "create", supplied)
               new == Enter(collector, code, depth, supplied)
           IN IF Len(truth) = MaxFrames THEN new = Failed(collector)
              ELSE new = Pushed(collector, f, code)
<1>1. /\ collector.stack # << >> /\ Top(collector) = Active.id
      /\ collector.frames[Active.id].pendingPc = Active.pc
      /\ Len(collector.frames) = Len(truth) /\ Active.id # 0
    <2>1. Open(collector.frames[Active.id], truth[Active.id], Active, 0)
        BY TopFrame
    <2>2. Active.id \in 1 .. Len(truth)
        BY ActiveFacts
    <2> QED BY <2>1, <2>2, TopFrame DEF Open, Follows
<1>2. Active.pc # NoPc
    BY DiagnosticsAssumption DEF NoPc
<1>3. collector.frames[Active.id].opcodes[Active.pc] = Executing(Active)
    <2> DEFINE f == collector.frames[Active.id]
               t == truth[Active.id]
    <2>1. f.pcs[Active.pc].count > 0
        BY <1>2, TopFrame DEF Open, InOpcode
    <2>2. Records(f, t)
        BY TopFrame
    <2> HIDE DEF f, t
    <2>3. f.opcodes[Active.pc] = OpcodeAt(t.code, Active.pc)
        BY <2>1, <2>2 DEF Records
    <2> QED BY <2>3 DEF f, t, Executing
<1> QED BY <1>1, <1>2, <1>3 DEF Enter, Entered, Pushed, Learned

LEMMA CallKeeps ==
    ASSUME IInv, NEW code \in Codes, NEW amount \in Charges, NEW stipend \in Charges,
           NEW forwarded \in 0 .. GasLimit, Call(code, amount, forwarded, stipend)
    PROVE  IInv'
<1> DEFINE n == Len(activations)
           L == Len(truth) + 1
           id == Active.id
           supplied == forwarded + stipend
           d == amount - stipend
           new == NewTruth(id, code, supplied)
           callee == Activation(L, supplied)
<1>1. /\ TypeOK /\ Stacked /\ Running
      /\ n \in Nat \ {0} /\ L \in Nat /\ supplied \in Nat /\ Active.pc \in Pcs /\ d \in Nat
      /\ Stacked' /\ phase' = phase /\ UNCHANGED <<cases, gas, visits>>
      /\ activations' \in Seq(ActivationType) /\ DOMAIN activations' = 1 .. (n + 1)
      /\ Len(activations') = n + 1
      /\ \A k \in 1 .. (n - 1) : activations'[k] = activations[k]
      /\ \A k \in 1 .. (n + 1) :
           Lent(k)' = IF k < n THEN Lent(k) ELSE IF k = n THEN supplied ELSE 0
      /\ activations'[n].pc = Active.pc /\ activations'[n].id = id
      /\ activations'[n].gas + supplied = Active.gas - d
      /\ activations'[n + 1] = callee
      /\ truth' \in Seq(TruthType) /\ DOMAIN truth' = DOMAIN truth \cup {L}
      /\ DOMAIN truth = 1 .. Len(truth)
      /\ Len(truth') = L /\ id \in DOMAIN truth
      /\ \A j \in DOMAIN truth \ {id} : truth'[j] = truth[j]
      /\ ChargedMore(truth'[id], truth[id], Active.pc, d)
      /\ truth'[L] = new
      /\ collector' = Enter(collector, code, n, supplied)
    <2>1. TypeOK /\ Stacked
        BY DEF IInv
    <2>2. CallEffect(code, amount, stipend, forwarded)
        BY <2>1, CallStack
    <2> QED BY <2>1, <2>2 DEF CallEffect
<1>2. /\ DOMAIN activations = 1 .. n /\ Active = activations[n] /\ Active \in ActivationType
      /\ \A k \in DOMAIN activations : activations[k].id \in DOMAIN truth
      /\ \A k \in DOMAIN activations : k # n => activations[k].id # id
      /\ id \in Nat
    BY <1>1, ActiveFacts
<1> HIDE DEF supplied, d
<1>3. Live /\ Live' /\ Limited
    BY <1>1 DEF IInv, Live, Running
<1>4. /\ collector \in CollectorType /\ Len(collector.frames) <= MaxFrames
      /\ collector.stack \in Seq(1 .. Len(collector.frames)) /\ collector.frames \in Seq(Frames)
      /\ collector.steps \in Nat /\ MaxFrames \in Nat /\ Len(truth) \in Nat
    BY <1>1, DiagnosticsAssumption DEF TypeOK, CollectorType
<1>5. CASE collector.failed
    <2>1. collector' = collector
        BY <1>1, <1>5 DEF Enter, Recording
    <2>2. TypeOK'
        BY <1>1, <2>1 DEF TypeOK
    <2>3. Limited'
        BY <1>1, <1>3, <1>4, <1>5, <2>1 DEF Limited
    <2> QED BY <1>1, <1>3, <1>5, <2>1, <2>2, <2>3 DEF IInv
<1>6. CASE ~collector.failed
    <2>1. Follows /\ Recording(collector) /\ Len(collector.frames) = Len(truth)
        BY <1>3, <1>6 DEF IInv, Recording, Limited, Follows
    <2>2. ~(visits > MaxSteps) /\ ~(Len(truth) > MaxFrames)
        BY <1>3, <1>6 DEF Limited
    <2> DEFINE g == Frame(id, n, Keccak(code), Executing(Active) = "create", supplied)
    <2>3. IF Len(truth) = MaxFrames THEN collector' = Failed(collector)
          ELSE collector' = Pushed(collector, g, code)
        <3> DEFINE e == Enter(collector, code, n, supplied)
        <3>1. IF Len(truth) = MaxFrames THEN e = Failed(collector)
              ELSE e = Pushed(collector, g, code)
            BY <1>1, <2>1, EnterRecords
        <3> QED BY <1>1, <3>1
    <2>4. CASE Len(truth) = MaxFrames
        <3>1. /\ collector' \in CollectorType /\ collector'.failed /\ collector'.active
              /\ collector'.frames = collector.frames /\ collector'.stack = collector.stack
            BY <1>3, <1>4, <2>3, <2>4, FailedFields DEF Limited
        <3>2. TypeOK'
            BY <1>1, <1>4, <3>1 DEF TypeOK
        <3>3. Limited'
            BY <1>1, <1>3, <1>4, <2>4, <3>1 DEF Limited
        <3> QED BY <1>1, <1>3, <3>1, <3>2, <3>3 DEF IInv
    <2>5. CASE Len(truth) # MaxFrames
        <3> DEFINE F == collector.frames
                   f == F[id]
                   t == truth[id]
                   u == truth'[id]
                   a == Active
                   b == activations'[n]
        <3>1. /\ F \in Seq(Frames) /\ DOMAIN F = DOMAIN truth /\ f \in Frames /\ t \in TruthType
              /\ Records(f, t) /\ Open(f, t, a, 0)
              /\ collector.stack = [k \in DOMAIN activations |-> activations[k].id]
            BY <1>1, <2>1, TopFrame DEF Follows, Nested
        <3>2. Records(f, u) /\ Open(f, u, b, supplied)
            <4>1. /\ a \in ActivationType /\ a.pc \in Pcs /\ b \in ActivationType /\ b.pc = a.pc
                  /\ ChargedMore(u, t, a.pc, d) /\ b.gas + supplied = a.gas + 0 - d
                  /\ d \in Nat /\ supplied \in Nat /\ 0 \in Nat
                <5>1. n \in DOMAIN activations' /\ b \in ActivationType
                    BY <1>1
                <5>2. a.gas + 0 = a.gas
                    BY <1>2 DEF ActivationType
                <5>3. ChargedMore(u, t, a.pc, d) /\ b.gas + supplied = a.gas - d
                    BY <1>1
                <5>4. b.gas + supplied = a.gas + 0 - d
                    <6>1. a.gas \in Nat /\ d \in Nat
                        BY <1>1, <1>2 DEF ActivationType
                    <6> HIDE DEF a
                    <6>2. a.gas + 0 - d = a.gas - d
                        BY <6>1
                    <6> QED BY <5>3, <6>2
                <5> QED BY <1>1, <1>2, <5>1, <5>3, <5>4
            <4> HIDE DEF f, t, u, a, b
            <4> QED BY <3>1, <4>1, OpenCharged
        <3>3. /\ g \in Frames /\ g.parent = id /\ g.depth = n
              /\ g.used = 0 /\ g.childGas = 0 /\ Visited(g) = 0
              /\ Records(g, new) /\ Open(g, new, callee, 0)
            <4> DEFINE c == Executing(Active) = "create"
            <4>1. c \in BOOLEAN /\ id \in Nat /\ n \in Nat /\ supplied \in Nat
                BY <1>1, <1>2
            <4>2. /\ new.parent = id /\ new.code = code /\ new.supplied = supplied /\ new.pcs = [p \in Pcs |-> NoCounter]
                BY DEF NewTruth
            <4>3. new.creation = c
                <5>1. new.creation = (id # 0 /\ Executing(Last(activations)) = "create")
                    BY DEF NewTruth
                <5>2. id # 0
                    BY <1>1
                <5> QED BY <5>1, <5>2 DEF Active
            <4>4. callee.gas = supplied /\ callee.pc = NoPc
                BY DEF Activation
            <4> HIDE DEF c, new, callee, id, n
            <4>5. g = Frame(id, n, Keccak(code), c, supplied)
                BY DEF c
            <4> HIDE DEF g
            <4> QED BY <4>1, <4>2, <4>3, <4>4, <4>5, NewOpen
        <3> HIDE DEF g, new, callee
        <3>4. /\ collector'.frames = Append(F, g) /\ collector'.stack = Append(collector.stack, L)
              /\ collector'.steps = collector.steps /\ collector'.active /\ ~collector'.failed
              /\ collector' = [collector EXCEPT !.stack = Append(collector.stack, L),
                                                !.frames = Append(F, g),
                                                !.codes = Learned(collector.codes, code)]
            BY <1>3, <1>4, <1>6, <2>1, <2>3, <2>5 DEF CollectorType, Limited, Pushed
        <3>5. /\ Append(F, g) \in Seq(Frames) /\ Len(Append(F, g)) = L
              /\ Append(F, g)[L] = g /\ \A j \in DOMAIN truth : Append(F, g)[j] = F[j]
            BY <1>1, <2>1, <3>1, <3>3
        <3>6. /\ Append(collector.stack, L) \in Seq(1 .. L) /\ Append(collector.stack, L) \in Seq(Nat)
            <4>1. collector.stack \in Seq(1 .. L) /\ L \in 1 .. L
                BY <1>1, <1>4, <2>1
            <4>2. collector.stack \in Seq(Nat)
                BY <1>4 DEF CollectorType
            <4> QED BY <1>1, <4>1, <4>2
        <3>7. collector' \in CollectorType
            <4>1. Learned(collector.codes, code) \in CodeMaps
                BY <1>4, Learning DEF CollectorType
            <4> QED BY <1>4, <3>4, <3>5, <3>6, <4>1 DEF CollectorType
        <3>8. TypeOK'
            <4>1. L <= MaxFrames
                BY <1>4, <2>2, <2>5
            <4> QED BY <1>1, <3>4, <3>5, <3>6, <3>7, <4>1 DEF TypeOK
        <3>9. Limited'
            BY <1>1, <1>3, <1>4, <2>2, <2>5, <3>4 DEF Limited
        <3>10. Sums(collector'.frames, collector'.steps)
            <4>1. Sums(F, collector.steps) /\ \A j \in DOMAIN F : F[j].parent < j
                BY <1>1, <2>1, <3>1 DEF Follows, Stacked, Records
            <4>2. id <= Len(F)
                BY <1>1, <2>1
            <4> DEFINE m == collector.steps
            <4>3. m \in Nat /\ g.parent <= Len(F)
                BY <1>4, <3>3, <4>2
            <4> HIDE DEF F, m, id
            <4>4. Sums(Append(F, g), m)
                BY <3>1, <3>3, <4>1, <4>3, SumsEnter DEF m
            <4> QED BY <3>4, <4>4 DEF m
        <3>11. Follows'
            <4>1. collector'.steps = visits' /\ Len(collector'.frames) = Len(truth')
                BY <1>1, <2>1, <3>4, <3>5 DEF Follows
            <4>2. ASSUME NEW j \in DOMAIN truth' PROVE Records(collector'.frames[j], truth'[j])
                <5>1. CASE j = L
                    BY <1>1, <3>3, <3>4, <3>5, <5>1
                <5>2. CASE j = id
                    BY <1>1, <3>2, <3>4, <3>5, <5>2, SMTT(30)
                <5>3. CASE j \in DOMAIN truth \ {id}
                    BY <1>1, <2>1, <3>4, <3>5, <5>3 DEF Follows
                <5> QED BY <1>1, <5>1, <5>2, <5>3
            <4>3. ASSUME NEW j \in DOMAIN truth', ~OnStack(j)'
                  PROVE  Closed(collector'.frames[j], truth'[j])
                <5>1. j # L /\ j # id
                    BY <1>1, <4>3, SMTT(30) DEF OnStack, Activation, callee
                <5>2. ~OnStack(j)
                    <6> SUFFICES ASSUME NEW k \in DOMAIN activations, activations[k].id = j
                                 PROVE  FALSE
                        BY DEF OnStack
                    <6>1. k # n
                        BY <1>2, <5>1
                    <6>2. k \in 1 .. (n - 1) /\ k \in DOMAIN activations'
                        <7>1. n \in Nat /\ k \in 1 .. n /\ DOMAIN activations' = 1 .. (n + 1)
                            BY <1>1, <1>2
                        <7> HIDE DEF n
                        <7> QED BY <6>1, <7>1
                    <6> QED BY <1>1, <4>3, <6>2 DEF OnStack
                <5> QED BY <1>1, <2>1, <3>4, <3>5, <5>1, <5>2 DEF Follows
            <4>4. ASSUME NEW k \in DOMAIN activations'
                  PROVE  Open(collector'.frames[activations'[k].id], truth'[activations'[k].id],
                              activations'[k], Lent(k)')
                <5>1. CASE k = n + 1
                    <6>1. Lent(k)' = 0 /\ activations'[k] = callee /\ callee.id = L
                        BY <1>1, <5>1 DEF Activation, callee
                    <6> QED BY <1>1, <3>3, <3>4, <3>5, <6>1
                <5>2. CASE k = n
                    <6>1. Lent(k)' = supplied /\ activations'[k].id = id
                        BY <1>1, <5>2
                    <6> QED BY <1>1, <3>2, <3>4, <3>5, <5>2, <6>1
                <5>3. CASE k \in 1 .. (n - 1)
                    <6>3. k \in 1 .. n /\ k # n /\ k < n /\ k \in 1 .. (n + 1)
                        <7>1. n \in Nat
                            BY <1>1
                        <7> HIDE DEF n
                        <7> QED BY <5>3, <7>1
                    <6>1. /\ k \in DOMAIN activations /\ k # n /\ k < n /\ Lent(k)' = Lent(k)
                          /\ activations'[k] = activations[k]
                        BY <1>1, <1>2, <5>3, <6>3
                    <6>2. activations[k].id \in DOMAIN truth \ {id}
                        BY <1>2, <6>1
                    <6> QED BY <1>1, <2>1, <3>4, <3>5, <6>1, <6>2, SMTT(30) DEF Follows
                <5> QED BY <1>1, <5>1, <5>2, <5>3
            <4>5. Nested'
                <5>1. collector'.stack = [k \in DOMAIN activations' |-> activations'[k].id]
                    <6>1. Len(collector.stack) = n /\ collector.stack \in Seq(Nat)
                        BY <1>1, <2>1, TopFrame DEF TypeOK, CollectorType
                    <6>2. DOMAIN collector'.stack = DOMAIN activations'
                        <7>1. DOMAIN Append(collector.stack, L) = 1 .. (n + 1)
                            BY <6>1
                        <7> QED BY <1>1, <3>4, <7>1
                    <6>3. ASSUME NEW k \in DOMAIN activations'
                          PROVE  collector'.stack[k] = activations'[k].id
                        <7>1. CASE k = n + 1
                            BY <1>1, <3>4, <6>1, <7>1 DEF Activation, callee
                        <7>2. CASE k \in 1 .. n
                            <8>1. collector'.stack[k] = collector.stack[k]
                                BY <1>1, <3>4, <6>1, <7>2
                            <8>2. collector.stack[k] = activations[k].id
                                BY <1>2, <3>1, <7>2
                            <8>3. k = n \/ k \in 1 .. (n - 1)
                                BY <1>1, <7>2
                            <8> QED BY <1>1, <1>2, <8>1, <8>2, <8>3
                        <7> QED BY <1>1, <7>1, <7>2
                    <6>4. collector'.stack \in Seq(Nat)
                        BY <3>4, <3>6
                    <6> QED BY <6>2, <6>3, <6>4
                <5>2. ASSUME NEW k \in DOMAIN activations'
                      PROVE  collector'.frames[activations'[k].id].depth = k - 1
                    <6>1. CASE k = n + 1
                        BY <1>1, <3>3, <3>4, <3>5, <6>1, SMTT(30) DEF Activation, callee
                    <6>2. CASE k \in 1 .. n
                        <7>1. k = n \/ k \in 1 .. (n - 1)
                            BY <1>1, <6>2
                        <7>2. activations'[k].id = activations[k].id /\ activations[k].id \in DOMAIN truth
                            BY <1>1, <1>2, <6>2, <7>1
                        <7>3. F[activations[k].id].depth = k - 1
                            BY <1>2, <2>1, <6>2 DEF Follows, Nested
                        <7> QED BY <3>4, <3>5, <7>2, <7>3
                    <6> QED BY <1>1, <6>1, <6>2
                <5>3. ASSUME NEW j \in DOMAIN truth', truth'[j].parent # 0
                      PROVE  collector'.frames[j].depth = collector'.frames[truth'[j].parent].depth + 1
                    <6>1. CASE j = L
                        <7>1. truth'[j].parent = id
                            BY <1>1, <6>1 DEF NewTruth, new
                        <7>2. F[id].depth = n - 1 /\ F[id].depth \in Nat
                            <8>0. F[id] \in Frames
                                BY <3>1
                            <8>1. n \in DOMAIN activations
                                <9>1. n \in Nat \ {0} /\ DOMAIN activations = 1 .. n
                                    BY <1>1, <1>2
                                <9> HIDE DEF n
                                <9> QED BY <9>1
                            <8>2. F[activations[n].id].depth = n - 1
                                BY <2>1, <8>1 DEF Follows, Nested
                            <8> QED BY <1>2, <8>0, <8>2 DEF Frames
                        <7>3. collector'.frames[j] = g /\ collector'.frames[id] = F[id]
                            BY <1>1, <3>4, <3>5, <6>1, SMTT(30)
                        <7>4. n = F[id].depth + 1
                            BY <1>1, <7>2
                        <7> QED BY <3>3, <7>1, <7>3, <7>4
                    <6>2. CASE j \in DOMAIN truth
                        <7>1. truth'[j].parent = truth[j].parent
                            BY <1>1, <6>2 DEF ChargedMore
                        <7>2. truth[j] \in TruthType /\ truth[j].parent < j
                            BY <1>1, <6>2, SMTT(30) DEF TypeOK, Stacked
                        <7>3. truth[j].parent \in DOMAIN truth
                            <8>1. truth[j].parent \in Nat /\ truth[j].parent # 0 /\ j \in 1 .. Len(truth)
                                BY <1>1, <5>3, <6>2, <7>1, <7>2 DEF TruthType
                            <8>2. truth[j].parent \in 1 .. Len(truth)
                                BY <1>4, <7>2, <8>1
                            <8> QED BY <1>1, <8>2
                        <7>4. F[j].depth = F[truth[j].parent].depth + 1
                            BY <2>1, <5>3, <6>2, <7>1 DEF Follows, Nested
                        <7> QED BY <3>4, <3>5, <6>2, <7>1, <7>3, <7>4
                    <6> QED BY <1>1, <6>1, <6>2
                <5> QED BY <5>1, <5>2, <5>3 DEF Nested
            <4> QED BY <3>10, <4>1, <4>2, <4>3, <4>4, <4>5 DEF Follows, Lent
        <3> QED BY <1>1, <3>8, <3>9, <3>11 DEF IInv
    <2> QED BY <2>4, <2>5
<1> QED BY <1>5, <1>6

\* What Leave makes of the collector when it does not fail.
Leaving(frames, id, left, status) ==
  LET f == frames[id] IN
  [i \in DOMAIN frames |->
     IF i = id THEN Done(f, left, status)
     ELSE IF i = f.parent THEN AddChild(frames[i], f.supplied - left)
     ELSE frames[i]]

Popped(col, id, left, status) ==
  [col EXCEPT !.stack = Front(@), !.frames = Leaving(@, id, left, status)]

\* A frame of a collector that follows always ends.
LEMMA LeaveRecords ==
    ASSUME Recording(collector), collector.stack # << >>, NEW id, Top(collector) = id,
           NEW left, NEW status, ~Overdrawn(collector.frames[id], left)
    PROVE  Leave(collector, status, left) = Popped(collector, id, left, status)
<1>1. Leave(collector, status, left) =
        [collector EXCEPT !.stack = Front(@),
                          !.frames = [i \in DOMAIN @ |->
                             IF i = id THEN Done(collector.frames[id], left, status)
                             ELSE IF i = collector.frames[id].parent
                                  THEN AddChild(@[i], collector.frames[id].supplied - left)
                             ELSE @[i]]]
    BY DEF Leave, Done
<1> QED BY <1>1 DEF Popped, Leaving

\* The truth about an activation that ends with left gas.
Finished(t, id, left, status) == [t EXCEPT ![id].left = left, ![id].status = status]

LEMMA Finishing ==
    ASSUME NEW t \in Seq(TruthType), NEW id \in DOMAIN t, NEW left \in Nat, NEW status \in Statuses
    PROVE  LET u == Finished(t, id, left, status) IN
           /\ u \in Seq(TruthType) /\ Len(u) = Len(t) /\ DOMAIN u = DOMAIN t
           /\ \A j \in DOMAIN t \ {id} : u[j] = t[j]
           /\ u[id].parent = t[id].parent /\ u[id].code = t[id].code
           /\ u[id].creation = t[id].creation
           /\ u[id].supplied = t[id].supplied /\ u[id].left = left
           /\ u[id].status = status /\ u[id].pcs = t[id].pcs
<1> DEFINE u == Finished(t, id, left, status)
           h == [t[id] EXCEPT !.left = left, !.status = status]
<1>1. t[id] \in TruthType
    OBVIOUS
<1>2. /\ h \in TruthType
      /\ h.parent = t[id].parent /\ h.code = t[id].code /\ h.creation = t[id].creation
      /\ h.supplied = t[id].supplied /\ h.left = left
      /\ h.status = status /\ h.pcs = t[id].pcs
    BY <1>1 DEF TruthType
<1>3. u = [t EXCEPT ![id] = h]
    <2> HIDE DEF TruthType
    <2> QED BY DEF Finished
<1> HIDE DEF u, h, TruthType
<1>4. u \in Seq(TruthType) /\ Len(u) = Len(t) /\ DOMAIN u = DOMAIN t /\ u[id] = h
      /\ \A j \in DOMAIN t \ {id} : u[j] = t[j]
    BY <1>2, <1>3
<1> QED BY <1>2, <1>4 DEF u

\* What a frame's end records of it and of its caller, but for a code deposit.
LEMMA Ending ==
    ASSUME IInv, Running, Active.busy, NEW left \in 0 .. Active.gas,
           NEW status \in Statuses \ {"running"}
    PROVE  LET id == Active.id
               t == Finished(Charged(truth, id, Active.pc, Active.gas - left), id, left, status)
           IN /\ t \in Seq(TruthType) /\ Len(t) = Len(truth) /\ DOMAIN t = DOMAIN truth
              /\ \A j \in DOMAIN truth \ {id} : t[j] = truth[j]
              /\ ChargedMore(t[id], truth[id], Active.pc, Active.gas - left)
              /\ t[id].left = left /\ t[id].status = status
<1> DEFINE id == Active.id
           d == Active.gas - left
           u == Charged(truth, id, Active.pc, d)
           t == Finished(u, id, left, status)
<1>1. /\ id \in DOMAIN truth /\ truth \in Seq(TruthType) /\ Active.pc \in Pcs
      /\ Active.gas \in Nat
    BY ActiveFacts DEF IInv, ActivationType
<1>2. d \in Nat /\ left \in Nat
    BY <1>1
<1> HIDE DEF d, u, id
<1>3. /\ u \in Seq(TruthType) /\ Len(u) = Len(truth) /\ DOMAIN u = DOMAIN truth
      /\ \A j \in DOMAIN truth \ {id} : u[j] = truth[j]
      /\ u[id].parent = truth[id].parent /\ u[id].code = truth[id].code
      /\ u[id].creation = truth[id].creation /\ u[id].supplied = truth[id].supplied
      /\ \A p \in Pcs : u[id].pcs[p].count = truth[id].pcs[p].count
      /\ \A p \in Pcs \ {Active.pc} : u[id].pcs[p].gas = truth[id].pcs[p].gas
      /\ u[id].pcs[Active.pc].gas = truth[id].pcs[Active.pc].gas + d
    <2> DEFINE pc == Active.pc
    <2>1. pc \in Pcs /\ u = Charged(truth, id, pc, d)
        BY <1>1 DEF u
    <2> HIDE DEF pc
    <2> QED BY <1>1, <1>2, <2>1, Charging DEF pc
<1>4. /\ t \in Seq(TruthType) /\ Len(t) = Len(u) /\ DOMAIN t = DOMAIN u
      /\ \A j \in DOMAIN u \ {id} : t[j] = u[j]
      /\ t[id].parent = u[id].parent /\ t[id].code = u[id].code
      /\ t[id].creation = u[id].creation /\ t[id].supplied = u[id].supplied
      /\ t[id].left = left
      /\ t[id].status = status /\ t[id].pcs = u[id].pcs
    <2>1. u \in Seq(TruthType) /\ id \in DOMAIN u /\ left \in Nat /\ status \in Statuses
        BY <1>1, <1>2, <1>3
    <2> QED BY <2>1, Finishing
<1> HIDE DEF t
<1>5. t[id] \in TruthType
    BY <1>1, <1>3, <1>4
<1>6. ChargedMore(t[id], truth[id], Active.pc, d)
    BY <1>3, <1>4, <1>5 DEF ChargedMore
<1>7. /\ Len(t) = Len(truth) /\ DOMAIN t = DOMAIN truth
      /\ \A j \in DOMAIN truth \ {id} : t[j] = truth[j]
    BY <1>3, <1>4
<1>8. /\ t \in Seq(TruthType) /\ Len(t) = Len(truth) /\ DOMAIN t = DOMAIN truth
      /\ \A j \in DOMAIN truth \ {id} : t[j] = truth[j]
      /\ ChargedMore(t[id], truth[id], Active.pc, d)
      /\ t[id].left = left /\ t[id].status = status
    BY <1>4, <1>6, <1>7
<1> QED BY <1>8, Zenon DEF t, u, id, d

\* What the collector records when it does not fail.
LEMMA Recorded ==
    ASSUME IInv, Running, Active.busy, ~collector.failed, NEW left \in 0 .. Active.gas,
           NEW status \in Statuses \ {"running"},
           NEW u, ChargedMore(u, truth[Active.id], Active.pc, Active.gas - left),
           u.left = left, u.status = status
    PROVE  LET F == collector.frames
               id == Active.id
               f == F[id]
               g == Done(f, left, status)
               new == Leave(collector, status, left)
           IN /\ Follows /\ F \in Seq(Frames) /\ DOMAIN F = DOMAIN truth /\ f \in Frames
              /\ f.parent = truth[id].parent /\ f.supplied = truth[id].supplied
              /\ f.used = 0
              /\ f.supplied - left \in Nat /\ g \in Frames /\ g.used = f.supplied - left
              /\ g.childGas = f.childGas /\ g.parent = f.parent /\ g.depth = f.depth
              /\ Visited(g) = Visited(f) /\ Records(g, u) /\ Closed(g, u)
              /\ new = Popped(collector, id, left, status)
              /\ new.frames = Leaving(F, id, left, status)
              /\ new.stack = Front(collector.stack) /\ new.steps = collector.steps
              /\ new.active = collector.active /\ new.failed = collector.failed
<1> DEFINE F == collector.frames
           id == Active.id
           f == F[id]
           t == truth[id]
           a == Active
           g == Done(f, left, status)
           new == Leave(collector, status, left)
<1>1. /\ TypeOK /\ Stacked /\ Follows /\ Recording(collector) /\ collector \in CollectorType
    BY DEF IInv, Live, Running, Limited, Recording, TypeOK
<1>2. /\ a \in ActivationType /\ id \in DOMAIN truth /\ a.pc \in Pcs /\ a.gas <= t.supplied
      /\ truth \in Seq(TruthType)
    BY <1>1, ActiveFacts
<1>3. /\ collector.stack # << >> /\ Top(collector) = id
      /\ F \in Seq(Frames) /\ DOMAIN F = DOMAIN truth /\ f \in Frames /\ t \in TruthType
      /\ Records(f, t) /\ Open(f, t, a, 0)
    BY <1>1, <1>2, TopFrame
<1>4. ChargedMore(u, t, a.pc, a.gas - left)
    OBVIOUS
<1> HIDE DEF F, id, f, t, a, g, new
<1>5. /\ ~Overdrawn(f, left)
      /\ f.supplied - left \in Nat /\ g \in Frames /\ g.used = f.supplied - left
      /\ g.childGas = f.childGas /\ g.parent = f.parent /\ g.depth = f.depth
      /\ Visited(g) = Visited(f) /\ Records(g, u) /\ Closed(g, u)
    <2>1. left \in 0 .. a.gas
        BY DEF a
    <2> QED BY <1>2, <1>3, <1>4, <2>1, LeaveClosed DEF g
<1>6. new = Popped(collector, id, left, status)
    <2>1. ~Overdrawn(collector.frames[id], left)
        BY <1>5 DEF f, F
    <2> QED BY <1>1, <1>3, <2>1, LeaveRecords DEF new
<1>7. /\ new.frames = Leaving(F, id, left, status)
      /\ new.stack = Front(collector.stack) /\ new.steps = collector.steps
      /\ new.active = collector.active /\ new.failed = collector.failed
    BY <1>1, <1>6 DEF Popped, CollectorType, F
<1>8. f.parent = t.parent /\ f.supplied = t.supplied /\ f.used = 0
    BY <1>3 DEF Records, Open
<1> QED BY <1>1, <1>3, <1>5, <1>6, <1>7, <1>8 DEF F, id, f, t, g, new

\* The root's frame ends, and with it the case.
LEMMA EndRoot ==
    ASSUME IInv, Running, Active.busy, NEW left \in 0 .. Active.gas,
           NEW status \in Statuses \ {"running"}, NEW deposit \in Nat,
           EndFrame(status, left, deposit), Len(activations) = 1
    PROVE  IInv'
<1> DEFINE id == Active.id
           t == Finished(Charged(truth, id, Active.pc, Active.gas - left), id, left, status)
<1>1. /\ TypeOK /\ Stacked /\ deposit <= left /\ phase' = "ended" /\ gas' = left - deposit
      /\ activations' = << >> /\ truth' = t /\ collector' = Leave(collector, status, left)
      /\ UNCHANGED <<cases, visits>>
    BY DEF IInv, EndFrame, Finished
<1>2. /\ Active = activations[1] /\ id = 1 /\ 1 \in DOMAIN truth /\ Active.gas \in Nat
      /\ Active.gas <= truth[1].supplied /\ DOMAIN activations = {1}
      /\ truth \in Seq(TruthType) /\ DOMAIN truth = 1 .. Len(truth) /\ Len(truth) \in Nat
    <2>1. /\ Active = activations[1] /\ DOMAIN activations = 1 .. 1 /\ Active.gas \in Nat
          /\ Active.gas <= truth[id].supplied /\ id \in DOMAIN truth
          /\ truth \in Seq(TruthType) /\ DOMAIN truth = 1 .. Len(truth)
        BY <1>1, ActiveFacts DEF ActivationType
    <2>2. id = 1
        BY <2>1 DEF IInv, Stacked, Running
    <2> QED BY <2>1, <2>2
<1>3. truth[1].supplied = GasLimit /\ truth[1].parent = 0
    BY <1>1, <1>2 DEF Stacked
<1>4. /\ truth' \in Seq(TruthType) /\ Len(truth') = Len(truth) /\ DOMAIN truth' = DOMAIN truth
      /\ \A j \in DOMAIN truth \ {1} : truth'[j] = truth[j]
      /\ ChargedMore(truth'[1], truth[1], Active.pc, Active.gas - left)
      /\ truth'[1].left = left /\ truth'[1].status = status
    BY <1>1, <1>2, Ending
<1> HIDE DEF t, id
<1>5. gas' \in 0 .. GasLimit /\ gas' <= truth'[1].left
    <2>1. left \in Nat /\ left <= GasLimit /\ GasLimit \in Nat
        BY <1>2, <1>3, DiagnosticsAssumption
    <2> QED BY <1>1, <1>4, <2>1
<1>6. Stacked'
    <2>1. truth'[1].supplied = truth[1].supplied /\ \A j \in DOMAIN truth : truth'[j].parent < j
        BY <1>1, <1>4 DEF ChargedMore, Stacked
    <2> QED BY <1>1, <1>3, <1>4, <1>5, <2>1 DEF Stacked
<1>7. /\ collector \in CollectorType /\ Len(collector.frames) <= MaxFrames /\ Limited /\ Live
      /\ collector.stack \in Seq(1 .. Len(collector.frames)) /\ Live'
    BY <1>1 DEF TypeOK, IInv, Live, Running
<1>8. CASE collector.failed
    <2>1. collector' = collector
        BY <1>1, <1>8 DEF Leave, Recording
    <2>2. TypeOK'
        BY <1>1, <1>4, <1>5, <2>1 DEF TypeOK
    <2>3. Limited'
        BY <1>1, <1>4, <1>7, <2>1 DEF Limited
    <2> QED BY <1>6, <1>8, <2>1, <2>2, <2>3 DEF IInv
<1>9. CASE ~collector.failed
    <2> DEFINE F == collector.frames
               f == F[1]
               g == Done(f, left, status)
               u == truth'[1]
               G == Leaving(F, 1, left, status)
    <2>1. /\ Follows /\ F \in Seq(Frames) /\ DOMAIN F = DOMAIN truth /\ f \in Frames
          /\ f.parent = 0 /\ f.used = 0
          /\ f.supplied - left \in Nat /\ g \in Frames /\ g.used = f.supplied - left
          /\ g.childGas = f.childGas /\ g.parent = f.parent /\ g.depth = f.depth
          /\ Visited(g) = Visited(f) /\ Records(g, u) /\ Closed(g, u)
          /\ collector' = Popped(collector, 1, left, status)
          /\ collector'.frames = G
          /\ collector'.stack = Front(collector.stack) /\ collector'.steps = collector.steps
          /\ collector'.active = collector.active /\ collector'.failed = collector.failed
        <3>1. /\ ChargedMore(u, truth[Active.id], Active.pc, Active.gas - left)
              /\ u.left = left /\ u.status = status /\ Active.id = 1
            BY <1>2, <1>4 DEF id
        <3> HIDE DEF u
        <3> QED BY <1>1, <1>3, <1>9, <3>1, Recorded
    <2>2. G = [F EXCEPT ![1] = g]
        BY <1>2, <2>1 DEF Leaving
    <2> HIDE DEF G, g
    <2>3. /\ G \in Seq(Frames) /\ Len(G) = Len(F) /\ G[1] = g /\ DOMAIN G = DOMAIN F
          /\ \A j \in DOMAIN F \ {1} : G[j] = F[j]
        <3> HIDE DEF F
        <3>1. 1 \in DOMAIN F
            BY <1>2, <2>1
        <3> QED BY <2>1, <2>2, <3>1
    <2>4. collector'.stack = << >>
        <3> DEFINE s == collector.stack
        <3>1. s \in Seq(Nat) /\ Len(s) = 1
            BY <1>1, <1>7, <2>1, TopFrame DEF CollectorType
        <3> HIDE DEF s
        <3>2. SubSeq(s, 1, Len(s) - 1) = << >>
            BY <3>1
        <3>3. collector'.stack = Front(s)
            BY <2>1 DEF s
        <3> QED BY <3>2, <3>3 DEF Front
    <2>5. collector' \in CollectorType
        <3>1. collector' = [collector EXCEPT !.stack = collector'.stack, !.frames = G]
            BY <1>7, <2>1 DEF Popped, CollectorType
        <3>2. << >> \in Seq(Nat) /\ << >> \in Seq(1 .. Len(G))
            OBVIOUS
        <3> QED BY <1>7, <2>3, <2>4, <3>1, <3>2 DEF CollectorType
    <2>6. TypeOK'
        <3>1. << >> \in Seq(1 .. Len(collector'.frames)) /\ << >> \in Seq(ActivationType)
            OBVIOUS
        <3>2. Len(collector'.frames) <= MaxFrames
            BY <1>7, <2>1, <2>3
        <3> QED BY <1>1, <1>4, <1>5, <2>4, <2>5, <3>1, <3>2 DEF TypeOK
    <2>7. Limited'
        BY <1>1, <1>4, <1>7, <2>1 DEF Limited
    <2>8. Sums(collector'.frames, collector'.steps)
        <3>1. Sums(F, collector.steps)
            BY <2>1 DEF Follows
        <3> DEFINE m == collector.steps
                   d == g.used
        <3>2. Ends(F, G, 1, 0, d)
            BY <1>2, <2>1, <2>3 DEF Ends
        <3>3. /\ 1 \in DOMAIN F /\ d \in Nat /\ m \in Nat /\ Sums(F, m)
              /\ F \in Seq(Frames) /\ G \in Seq(Frames) /\ Len(G) = Len(F)
            BY <1>2, <1>7, <2>1, <2>3, <3>1 DEF CollectorType
        <3> HIDE DEF F, m, d
        <3>4. Sums(G, m)
            BY <3>2, <3>3, SumsLeave
        <3> QED BY <2>1, <3>4 DEF m
    <2>9. Follows'
        <3>1. collector'.steps = visits' /\ Len(collector'.frames) = Len(truth')
            BY <1>1, <1>4, <2>1, <2>3 DEF Follows
        <3>2. ASSUME NEW j \in DOMAIN truth' PROVE Records(collector'.frames[j], truth'[j])
            <4>1. CASE j = 1
                BY <2>1, <2>3, <4>1
            <4>2. CASE j # 1
                BY <1>4, <2>1, <2>3, <4>2 DEF Follows
            <4> QED BY <4>1, <4>2
        <3>3. ASSUME NEW j \in DOMAIN truth' PROVE Closed(collector'.frames[j], truth'[j])
            <4>1. CASE j = 1
                BY <2>1, <2>3, <4>1
            <4>2. CASE j # 1
                <5>1. ~OnStack(j)
                    BY <1>2, <4>2 DEF OnStack, id
                <5> QED BY <1>4, <2>1, <2>3, <4>2, <5>1 DEF Follows
            <4> QED BY <4>1, <4>2
        <3>4. Nested'
            <4>1. collector'.stack = [k \in DOMAIN activations' |-> activations'[k].id]
                BY <1>1, <2>4
            <4>2. \A j \in DOMAIN F : G[j].depth = F[j].depth
                BY <2>1, <2>3
            <4>3. ASSUME NEW j \in DOMAIN truth', truth'[j].parent # 0
                  PROVE  collector'.frames[j].depth = collector'.frames[truth'[j].parent].depth + 1
                <5>1. truth'[j].parent = truth[j].parent
                    BY <1>4 DEF ChargedMore
                <5>2. truth[j] \in TruthType /\ truth[j].parent < j /\ j \in 1 .. Len(truth)
                    BY <1>1, <1>2, <1>4, <4>3 DEF Stacked
                <5>3. truth[j].parent \in Nat /\ truth[j].parent # 0
                    BY <4>3, <5>1, <5>2 DEF TruthType
                <5>4. truth[j].parent \in DOMAIN truth
                    BY <1>2, <5>2, <5>3
                <5>5. F[j].depth = F[truth[j].parent].depth + 1
                    BY <1>4, <2>1, <4>3, <5>1 DEF Follows, Nested
                <5> QED BY <1>4, <2>1, <4>2, <5>1, <5>4, <5>5
            <4> QED BY <1>1, <4>1, <4>3 DEF Nested
        <3> QED BY <1>1, <2>8, <3>1, <3>2, <3>3, <3>4 DEF Follows
    <2> QED BY <1>6, <2>6, <2>7, <2>9 DEF IInv
<1> QED BY <1>8, <1>9

\* A frame ends below the root: its caller gets back what is left, but for what the
\* host charges it.
LEMMA EndStack ==
    ASSUME IInv, Running, Active.busy, NEW left \in 0 .. Active.gas,
           NEW status \in Statuses \ {"running"}, NEW deposit \in Nat,
           EndFrame(status, left, deposit), Len(activations) # 1
    PROVE  LET m == Len(activations) - 1
               id == Active.id
               caller == activations[m]
               cid == caller.id
               lent == truth[id].supplied
           IN /\ m \in Nat \ {0} /\ DOMAIN activations = 1 .. (m + 1)
              /\ Active = activations[m + 1] /\ caller \in ActivationType /\ caller.pc \in Pcs
              /\ id \in DOMAIN truth /\ cid \in DOMAIN truth /\ cid # id
              /\ truth[id].parent = cid /\ cid < id /\ cid # 0
              /\ lent \in Nat /\ Lent(m) = lent /\ left <= lent
              /\ Stacked' /\ phase' = phase /\ UNCHANGED <<cases, gas, visits>>
              /\ activations' \in Seq(ActivationType) /\ Len(activations') = m
              /\ DOMAIN activations' = 1 .. m
              /\ \A k \in 1 .. (m - 1) : activations'[k] = activations[k]
              /\ \A k \in 1 .. m : Lent(k)' = IF k = m THEN 0 ELSE Lent(k)
              /\ activations'[m] \in ActivationType /\ activations'[m].id = cid
              /\ activations'[m].pc = caller.pc
              /\ activations'[m].gas = caller.gas + left - deposit
              /\ truth' \in Seq(TruthType) /\ Len(truth') = Len(truth) /\ DOMAIN truth' = DOMAIN truth
              /\ \A j \in DOMAIN truth \ {id, cid} : truth'[j] = truth[j]
              /\ ChargedMore(truth'[id], truth[id], Active.pc, Active.gas - left)
              /\ truth'[id].left = left /\ truth'[id].status = status
              /\ ChargedMore(truth'[cid], truth[cid], caller.pc, deposit)
              /\ collector' = Leave(collector, status, left)
<1> DEFINE n == Len(activations)
           m == n - 1
           id == Active.id
           caller == activations[m]
           cid == caller.id
           lent == truth[id].supplied
           back == [caller EXCEPT !.gas = @ + left - deposit, !.busy = FALSE]
           t == Finished(Charged(truth, id, Active.pc, Active.gas - left), id, left, status)
<1>1. /\ TypeOK /\ Stacked /\ deposit <= left /\ collector' = Leave(collector, status, left)
      /\ activations' = [Front(activations) EXCEPT ![m] = back]
      /\ truth' = Charged(t, cid, caller.pc, deposit)
      /\ UNCHANGED <<phase, gas, cases, visits>>
    BY DEF IInv, EndFrame, Finished
<1>2. /\ n \in Nat /\ n > 1 /\ m \in Nat \ {0} /\ n = m + 1 /\ m < n /\ m # n
      /\ DOMAIN activations = 1 .. n
      /\ Active = activations[n] /\ Active.gas \in Nat /\ Active.pc \in Pcs
      /\ Active.gas <= lent /\ id \in DOMAIN truth
      /\ \A k \in 1 .. n : activations[k] \in ActivationType /\ activations[k].id \in DOMAIN truth
      /\ \A k \in 1 .. n : k # n => activations[k].id # id
      /\ truth \in Seq(TruthType) /\ DOMAIN truth = 1 .. Len(truth) /\ Len(truth) \in Nat
    <2>1. /\ n \in Nat \ {0} /\ DOMAIN activations = 1 .. n
          /\ Active = activations[n] /\ Active.gas \in Nat /\ Active.pc \in Pcs
          /\ Active.gas <= lent /\ id \in DOMAIN truth
          /\ \A k \in DOMAIN activations :
               activations[k] \in ActivationType /\ activations[k].id \in DOMAIN truth
          /\ \A k \in DOMAIN activations : k # n => activations[k].id # id
          /\ truth \in Seq(TruthType) /\ DOMAIN truth = 1 .. Len(truth)
        BY <1>1, ActiveFacts DEF ActivationType
    <2>2. n # 1
        OBVIOUS
    <2> HIDE DEF n
    <2>3. n > 1 /\ m \in Nat \ {0} /\ n = m + 1 /\ m < n /\ m # n
        BY <2>1, <2>2
    <2> QED BY <2>1, <2>3, SMTT(30)
<1> HIDE DEF n, m
<1>3. m \in 1 .. n /\ m \in DOMAIN activations
    BY <1>2
<1>4. /\ caller \in ActivationType /\ cid \in DOMAIN truth /\ cid # id /\ cid \in Nat /\ cid # 0
      /\ caller.gas \in Nat /\ caller.pc \in Pcs
    <2>1. caller \in ActivationType /\ cid \in DOMAIN truth /\ cid # id
        BY <1>2, <1>3
    <2>2. caller.busy /\ caller.pc \in Pcs
        BY <1>1, <1>2, <1>3 DEF Stacked, n
    <2> QED BY <1>2, <2>1, <2>2 DEF ActivationType
<1>5. truth[id].parent = cid /\ cid < id
    <2>1. activations[n].id = id /\ n \in DOMAIN activations /\ n # 1
        BY <1>2
    <2>2. truth[id].parent = activations[n - 1].id
        BY <1>1, <2>1 DEF Stacked
    <2>3. cid < id
        BY <1>1, <1>2, <1>3, <2>1 DEF Stacked
    <2> QED BY <2>2, <2>3 DEF m
<1>6. lent \in Nat /\ left \in Nat /\ left <= lent /\ Lent(m) = lent
    <2>1. truth[id] \in TruthType
        BY <1>2
    <2>2. lent \in Nat
        BY <2>1 DEF TruthType
    <2>3. left \in Nat /\ left <= Active.gas
        BY <1>2
    <2>4. Lent(m) = truth[activations[m + 1].id].supplied
        BY <1>2 DEF Lent, n
    <2>5. activations[m + 1].id = id
        BY <1>2
    <2> QED BY <1>2, <2>2, <2>3, <2>4, <2>5
<1>7. /\ t \in Seq(TruthType) /\ Len(t) = Len(truth) /\ DOMAIN t = DOMAIN truth
      /\ \A j \in DOMAIN truth \ {id} : t[j] = truth[j]
      /\ ChargedMore(t[id], truth[id], Active.pc, Active.gas - left)
      /\ t[id].left = left /\ t[id].status = status
    BY Ending
<1> HIDE DEF t, id, caller, back, lent, cid
<1>8. /\ truth' \in Seq(TruthType) /\ Len(truth') = Len(truth) /\ DOMAIN truth' = DOMAIN truth
      /\ \A j \in DOMAIN truth \ {id, cid} : truth'[j] = truth[j]
      /\ truth'[id] = t[id]
      /\ ChargedMore(truth'[cid], truth[cid], caller.pc, deposit)
    <2> DEFINE pc == caller.pc
    <2>1. /\ t \in Seq(TruthType) /\ cid \in DOMAIN t /\ pc \in Pcs
          /\ truth' = Charged(t, cid, pc, deposit)
        BY <1>1, <1>4, <1>7
    <2> HIDE DEF pc
    <2>2. /\ truth' \in Seq(TruthType) /\ Len(truth') = Len(t) /\ DOMAIN truth' = DOMAIN t
          /\ \A j \in DOMAIN t \ {cid} : truth'[j] = t[j]
        BY <2>1, Charging
    <2>3. truth'[cid] \in TruthType
        BY <2>1, <2>2
    <2>4. ChargedMore(truth'[cid], t[cid], pc, deposit)
        BY <2>1, <2>3, Charging DEF ChargedMore
    <2>5. t[cid] = truth[cid]
        BY <1>4, <1>7
    <2> QED BY <1>2, <1>4, <1>7, <2>2, <2>4, <2>5 DEF pc
<1>9. /\ back \in ActivationType /\ back.id = cid /\ back.pc = caller.pc /\ ~back.busy
      /\ back.gas = caller.gas + left - deposit
    <2>1. caller.gas + left - deposit \in Nat
        BY <1>1, <1>4, <1>6
    <2> QED BY <1>4, <2>1 DEF back, cid, ActivationType
<1>10. /\ activations' \in Seq(ActivationType) /\ Len(activations') = m
       /\ DOMAIN activations' = 1 .. m /\ activations' # << >>
       /\ \A k \in 1 .. (m - 1) : activations'[k] = activations[k]
       /\ activations'[m] = back
    <2> DEFINE s == Front(activations)
    <2>1. s = SubSeq(activations, 1, m)
        BY DEF Front, m, n
    <2>2. activations \in Seq(ActivationType) /\ Len(activations) = n
        BY <1>1 DEF TypeOK, n
    <2> HIDE DEF s, ActivationType
    <2>3. /\ s \in Seq(ActivationType) /\ Len(s) = m /\ DOMAIN s = 1 .. m
          /\ \A k \in 1 .. m : s[k] = activations[k]
        BY <1>2, <2>1, <2>2
    <2>4. activations' = [s EXCEPT ![m] = back] /\ m \in 1 .. m
        BY <1>1, <1>2 DEF s
    <2> QED BY <1>2, <1>9, <2>3, <2>4
<1>11. \A j \in DOMAIN truth : /\ truth'[j].parent = truth[j].parent
                               /\ truth'[j].supplied = truth[j].supplied
    BY <1>7, <1>8 DEF ChargedMore
<1>12. \A k \in 1 .. m : activations'[k].id = activations[k].id
    <2>1. \A k \in 1 .. m : k = m \/ k \in 1 .. (m - 1)
        BY <1>2
    <2>2. back.id = activations[m].id
        BY <1>9 DEF cid, caller
    <2> QED BY <1>10, <2>1, <2>2
<1>13. \A k \in 1 .. m : Lent(k)' = IF k = m THEN 0 ELSE Lent(k)
    <2> SUFFICES ASSUME NEW k \in 1 .. m PROVE Lent(k)' = IF k = m THEN 0 ELSE Lent(k)
        OBVIOUS
    <2>1. CASE k = m
        BY <1>10, <2>1 DEF Lent
    <2>2. CASE k # m
        <3>1. k + 1 \in 1 .. m /\ k # n /\ k + 1 \in 1 .. n
            BY <1>2, <2>2
        <3>2. Lent(k)' = truth'[activations'[k + 1].id].supplied
            BY <1>10, <2>2 DEF Lent
        <3>3. Lent(k) = truth[activations[k + 1].id].supplied
            BY <3>1 DEF Lent, n
        <3> QED BY <1>2, <1>11, <1>12, <2>2, <3>1, <3>2, <3>3
    <2> QED BY <2>1, <2>2
<1>14. Stacked'
    <2>1. phase' = "running" <=> activations' # << >>
        BY <1>1, <1>10 DEF Running
    <2>2. activations'[1].id = 1 /\ (truth' # << >> => truth'[1].supplied = GasLimit)
        <3>1. 1 \in 1 .. m /\ activations # << >>
            BY <1>2
        <3>2. activations'[1].id = 1 /\ activations[1].id \in DOMAIN truth
            BY <1>1, <1>2, <1>12, <3>1 DEF Stacked
        <3>3. 1 \in DOMAIN truth /\ truth # << >>
            BY <1>1, <1>2, <1>12, <3>1, <3>2 DEF Stacked
        <3> QED BY <1>1, <1>11, <3>2, <3>3 DEF Stacked
    <2>3. ASSUME NEW k \in DOMAIN activations'
          PROVE  /\ activations'[k].id \in DOMAIN truth'
                 /\ truth'[activations'[k].id].parent = IF k = 1 THEN 0 ELSE activations'[k - 1].id
                 /\ activations'[k].busy => activations'[k].pc \in Pcs
                 /\ k < Len(activations') => activations'[k].busy
                 /\ activations'[k].gas + Lent(k)' <= truth'[activations'[k].id].supplied
        <3>1. k \in 1 .. m /\ k \in DOMAIN activations /\ k < n /\ (k # 1 => k - 1 \in 1 .. m)
            BY <1>2, <1>10
        <3>2. activations'[k].id \in DOMAIN truth'
            BY <1>2, <1>8, <1>12, <3>1
        <3>3. truth'[activations'[k].id].parent = IF k = 1 THEN 0 ELSE activations'[k - 1].id
            <4>1. truth[activations[k].id].parent = IF k = 1 THEN 0 ELSE activations[k - 1].id
                BY <1>1, <3>1 DEF Stacked
            <4>2. activations'[k].id = activations[k].id /\ activations[k].id \in DOMAIN truth
                BY <1>2, <1>12, <3>1
            <4>3. k # 1 => activations'[k - 1].id = activations[k - 1].id
                BY <1>12, <3>1
            <4> QED BY <1>11, <4>1, <4>2, <4>3
        <3>4. /\ activations[k].busy /\ activations[k].pc \in Pcs
              /\ activations[k].gas + Lent(k) <= truth[activations[k].id].supplied
            BY <1>1, <3>1 DEF Stacked, n
        <3>5. truth'[activations'[k].id].supplied = truth[activations[k].id].supplied
            BY <1>2, <1>11, <1>12, <3>1
        <3>6. CASE k = m
            <4>1. activations'[k] = back /\ ~(k < Len(activations')) /\ Lent(k)' = 0
                BY <1>10, <1>13, <1>2, <3>1, <3>6
            <4>2. caller.gas + lent <= truth[activations[k].id].supplied
                BY <1>6, <3>4, <3>6 DEF caller
            <4>3. truth[activations[k].id].supplied \in Nat
                <5>1. truth[activations[k].id] \in TruthType
                    BY <1>2, <3>1
                <5> QED BY <5>1 DEF TruthType
            <4>4. back.gas + 0 <= truth[activations[k].id].supplied
                BY <1>1, <1>4, <1>6, <1>9, <4>2, <4>3
            <4> QED BY <1>9, <3>2, <3>3, <3>5, <4>1, <4>4
        <3>7. CASE k # m
            <4>1. k \in 1 .. (m - 1)
                BY <1>2, <3>1, <3>7
            <4>2. activations'[k] = activations[k] /\ Lent(k)' = Lent(k)
                BY <1>10, <1>13, <3>1, <3>7, <4>1
            <4> QED BY <3>2, <3>3, <3>4, <3>5, <4>2
        <3> QED BY <3>6, <3>7
    <2>4. ASSUME NEW k \in DOMAIN activations', NEW l \in DOMAIN activations', k < l
          PROVE  activations'[k].id < activations'[l].id
        <3>1. k \in 1 .. m /\ l \in 1 .. m /\ k \in DOMAIN activations /\ l \in DOMAIN activations
            BY <1>2, <1>10
        <3> QED BY <1>1, <1>12, <2>4, <3>1 DEF Stacked
    <2>5. \A j \in DOMAIN truth' : truth'[j].parent < j
        BY <1>1, <1>8, <1>11 DEF Stacked
    <2> QED BY <1>10, <2>1, <2>2, <2>3, <2>4, <2>5 DEF Stacked, Lent
<1>15. DOMAIN activations = 1 .. (m + 1) /\ Active = activations[m + 1]
    BY <1>2
<1>16. activations'[m].gas = caller.gas + left - deposit
    BY <1>9, <1>10
<1>17. /\ ChargedMore(truth'[id], truth[id], Active.pc, Active.gas - left)
       /\ truth'[id].left = left /\ truth'[id].status = status
    BY <1>7, <1>8
<1>18. activations'[m] \in ActivationType /\ activations'[m].id = cid /\ activations'[m].pc = caller.pc
    BY <1>9, <1>10
<1> QED BY <1>1, <1>2, <1>4, <1>5, <1>6, <1>8, <1>10, <1>13, <1>14, <1>15, <1>16, <1>17, <1>18, Zenon
        DEF n, m, id, caller, cid, lent

\* What a caller's frame records when its child, lent that much, has ended with left
\* and the host has charged the caller.
LEMMA CallerOpen ==
    ASSUME NEW f \in Frames, NEW t \in TruthType, NEW a \in ActivationType, NEW lent \in Nat,
           Records(f, t), Open(f, t, a, lent), a.pc \in Pcs,
           NEW left \in 0 .. lent, NEW deposit \in Nat, NEW u, ChargedMore(u, t, a.pc, deposit),
           NEW b \in ActivationType, b.pc = a.pc, b.gas = a.gas + left - deposit
    PROVE  LET h == AddChild(f, lent - left) IN
           /\ h \in Frames /\ h.childGas = f.childGas + (lent - left) /\ h.used = f.used
           /\ h.parent = f.parent /\ h.depth = f.depth /\ Visited(h) = Visited(f)
           /\ Records(h, u) /\ Open(h, u, b, 0)
<1> DEFINE h == AddChild(f, lent - left)
           c == [a EXCEPT !.gas = @ + left]
<1>1. c \in ActivationType /\ c.pc = a.pc /\ c.gas = a.gas + left /\ a.gas \in Nat /\ left \in Nat
    BY DEF ActivationType
<1> HIDE DEF h, c
<1>2. /\ h \in Frames /\ h.childGas = f.childGas + (lent - left) /\ h.used = f.used
      /\ h.parent = f.parent /\ h.depth = f.depth /\ h.pcs = f.pcs
      /\ Records(h, t) /\ Open(h, t, c, 0)
    BY <1>1, OpenAddChild DEF h
<1>3. b.gas + 0 = c.gas + 0 - deposit
    BY <1>1
<1>4. Records(h, u) /\ Open(h, u, b, 0)
    BY <1>1, <1>2, <1>3, OpenCharged
<1>5. Visited(h) = Visited(f)
    BY <1>2 DEF Visited
<1> QED BY <1>2, <1>4, <1>5 DEF h

LEMMA EndChild ==
    ASSUME IInv, Running, Active.busy, NEW left \in 0 .. Active.gas,
           NEW status \in Statuses \ {"running"}, NEW deposit \in Nat,
           EndFrame(status, left, deposit), Len(activations) # 1
    PROVE  IInv'
<1> DEFINE m == Len(activations) - 1
           id == Active.id
           caller == activations[m]
           cid == caller.id
           lent == truth[id].supplied
           b == activations'[m]
<1>1. /\ m \in Nat \ {0} /\ DOMAIN activations = 1 .. (m + 1)
      /\ Active = activations[m + 1] /\ caller \in ActivationType /\ caller.pc \in Pcs
      /\ id \in DOMAIN truth /\ cid \in DOMAIN truth /\ cid # id
      /\ truth[id].parent = cid /\ cid < id /\ cid # 0
      /\ lent \in Nat /\ Lent(m) = lent /\ left <= lent
      /\ Stacked' /\ phase' = phase /\ UNCHANGED <<cases, gas, visits>>
      /\ activations' \in Seq(ActivationType) /\ Len(activations') = m
      /\ DOMAIN activations' = 1 .. m
      /\ \A k \in 1 .. (m - 1) : activations'[k] = activations[k]
      /\ \A k \in 1 .. m : Lent(k)' = IF k = m THEN 0 ELSE Lent(k)
      /\ b \in ActivationType /\ b.id = cid
      /\ b.pc = caller.pc
      /\ b.gas = caller.gas + left - deposit
      /\ truth' \in Seq(TruthType) /\ Len(truth') = Len(truth) /\ DOMAIN truth' = DOMAIN truth
      /\ \A j \in DOMAIN truth \ {id, cid} : truth'[j] = truth[j]
      /\ ChargedMore(truth'[id], truth[id], Active.pc, Active.gas - left)
      /\ truth'[id].left = left /\ truth'[id].status = status
      /\ ChargedMore(truth'[cid], truth[cid], caller.pc, deposit)
      /\ collector' = Leave(collector, status, left)
    BY EndStack
<1>2. /\ TypeOK /\ Stacked /\ collector \in CollectorType /\ Len(collector.frames) <= MaxFrames
      /\ collector.stack \in Seq(1 .. Len(collector.frames)) /\ Limited /\ Live /\ Live'
      /\ collector.steps \in Nat
    <2>1. TypeOK /\ Stacked /\ Live /\ Limited /\ Live'
        BY <1>1 DEF IInv, Live, Running
    <2> QED BY <2>1, DiagnosticsAssumption DEF TypeOK, CollectorType
<1>3. /\ \A k \in 1 .. m : k \in DOMAIN activations /\ (k = m \/ k \in 1 .. (m - 1))
      /\ \A k \in DOMAIN activations : k # m + 1 => activations[k].id # id /\ k \in 1 .. m
      /\ m \in 1 .. m /\ m # m + 1 /\ m \in DOMAIN activations
      /\ \A k \in 1 .. (m - 1) : k \in DOMAIN activations /\ k < m /\ k # m + 1
    <2>1. \A k \in DOMAIN activations : k # Len(activations) => activations[k].id # id
        BY <1>2, ActiveFacts
    <2>2. Len(activations) = m + 1
        BY <1>2, ActiveFacts
    <2> HIDE DEF m, id
    <2> QED BY <1>1, <2>1, <2>2
<1>4. /\ \A k \in 1 .. m : activations'[k].id = activations[k].id
      /\ \A k \in 1 .. (m - 1) : activations[k].id # cid /\ activations[k].id # id
      /\ \A k \in DOMAIN activations : activations[k].id \in DOMAIN truth
    <2>1. ASSUME NEW k \in 1 .. (m - 1) PROVE activations[k].id # cid
        <3>1. k \in DOMAIN activations /\ m \in DOMAIN activations /\ k < m
            BY <1>3
        <3>2. activations[k].id < cid
            BY <1>2, <3>1 DEF Stacked
        <3>3. activations[k].id \in Nat /\ cid \in Nat
            BY <1>1, <1>2, <3>1, ActiveFacts DEF ActivationType
        <3> HIDE DEF cid
        <3> QED BY <3>2, <3>3
    <2>2. \A k \in 1 .. (m - 1) : k \in DOMAIN activations /\ k # m + 1
        BY <1>3
    <2>3. \A k \in DOMAIN activations : activations[k].id \in DOMAIN truth
        BY <1>2 DEF Stacked
    <2>4. activations'[m].id = activations[m].id
        BY <1>1
    <2> QED BY <1>1, <1>3, <2>1, <2>2, <2>3, <2>4
<1> HIDE DEF m, id, cid, caller, lent, b
<1>5. CASE collector.failed
    <2>1. collector' = collector
        BY <1>1, <1>5 DEF Leave, Recording
    <2>2. TypeOK'
        BY <1>1, <1>2, <2>1 DEF TypeOK
    <2>3. Limited'
        BY <1>1, <1>2, <2>1 DEF Limited
    <2> QED BY <1>1, <1>2, <1>5, <2>1, <2>2, <2>3 DEF IInv
<1>6. CASE ~collector.failed
    <2> DEFINE F == collector.frames
               f == F[id]
               c == F[cid]
               g == Done(f, left, status)
               h == AddChild(c, lent - left)
               u == truth'[id]
               G == Leaving(F, id, left, status)
    <2>1. /\ Follows /\ F \in Seq(Frames) /\ DOMAIN F = DOMAIN truth /\ f \in Frames
          /\ f.parent = cid /\ f.used = 0 /\ f.supplied = lent
          /\ f.supplied - left \in Nat /\ g \in Frames /\ g.used = f.supplied - left
          /\ g.childGas = f.childGas /\ g.parent = f.parent /\ g.depth = f.depth
          /\ Visited(g) = Visited(f) /\ Records(g, u) /\ Closed(g, u)
          /\ collector' = Popped(collector, id, left, status)
          /\ collector'.frames = G
          /\ collector'.stack = Front(collector.stack) /\ collector'.steps = collector.steps
          /\ collector'.active = collector.active /\ collector'.failed = collector.failed
        <3>1. /\ ChargedMore(u, truth[Active.id], Active.pc, Active.gas - left)
              /\ u.left = left /\ u.status = status /\ Active.id = id
            BY <1>1 DEF id
        <3> HIDE DEF u
        <3> QED BY <1>1, <1>6, <3>1, Recorded DEF lent
    <2>2. /\ c \in Frames /\ h \in Frames /\ h.childGas = c.childGas + (lent - left) /\ h.used = c.used
          /\ h.parent = c.parent /\ h.depth = c.depth /\ Visited(h) = Visited(c)
          /\ Records(h, truth'[cid]) /\ Open(h, truth'[cid], b, 0)
        <3> DEFINE t == truth[cid]
                   v == truth'[cid]
                   a == caller
        <3>1. m \in DOMAIN activations /\ activations[m] = a /\ a.id = cid
            BY <1>3 DEF cid, caller
        <3>2. Records(c, t) /\ Open(c, t, a, lent)
            BY <1>1, <2>1, <3>1 DEF Follows
        <3>3. c \in Frames /\ t \in TruthType
            <4>1. truth \in Seq(TruthType)
                BY <1>2 DEF TypeOK
            <4> HIDE DEF Frames, TruthType, F
            <4> QED BY <1>1, <2>1, <4>1
        <3>4. /\ left \in 0 .. lent /\ ChargedMore(v, t, a.pc, deposit)
              /\ b \in ActivationType /\ b.pc = a.pc /\ b.gas = a.gas + left - deposit
              /\ a \in ActivationType /\ a.pc \in Pcs /\ lent \in Nat
            <4>1. Active.gas \in Nat
                BY <1>2, ActiveFacts DEF ActivationType
            <4> QED BY <1>1, <4>1
        <3> HIDE DEF c, t, v, a, h
        <3>5. /\ h \in Frames /\ h.childGas = c.childGas + (lent - left) /\ h.used = c.used
              /\ h.parent = c.parent /\ h.depth = c.depth /\ Visited(h) = Visited(c)
              /\ Records(h, v) /\ Open(h, v, b, 0)
            BY <3>2, <3>3, <3>4, CallerOpen DEF h
        <3> QED BY <3>3, <3>5 DEF v
    <2>3. /\ DOMAIN G = DOMAIN F /\ G[id] = g /\ G[cid] = h
          /\ \A j \in DOMAIN F \ {id, cid} : G[j] = F[j]
        BY <1>1, <2>1 DEF Leaving
    <2>4. G \in Seq(Frames) /\ Len(G) = Len(F)
        <3>1. G = [j \in DOMAIN F |-> G[j]]
            BY DEF Leaving
        <3>2. \A j \in DOMAIN F : G[j] \in Frames
            <4>1. \A j \in DOMAIN F : F[j] \in Frames
                BY <2>1
            <4> HIDE DEF Frames, F, G, g, h
            <4> QED BY <2>1, <2>2, <2>3, <4>1
        <3> HIDE DEF G, F, Frames
        <3>3. DOMAIN F = 1 .. Len(F) /\ Len(F) \in Nat
            BY <2>1
        <3> QED BY <3>1, <3>2, <3>3
    <2> HIDE DEF G, g, h, c
    <2>5. /\ collector'.stack \in Seq(Nat) /\ collector'.stack \in Seq(1 .. Len(G))
          /\ Len(collector'.stack) = m /\ \A k \in 1 .. m : collector'.stack[k] = activations[k].id
        <3> DEFINE s == collector.stack
                   N == Len(F)
        <3>1. /\ s \in Seq(Nat) /\ Len(s) = m + 1 /\ s \in Seq(1 .. N)
              /\ \A k \in DOMAIN activations : s[k] = activations[k].id
            <4>1. /\ s \in Seq(Nat) /\ s \in Seq(1 .. N)
                  /\ s = [k \in DOMAIN activations |-> activations[k].id]
                BY <1>2, <2>1 DEF CollectorType, Follows, Nested
            <4>2. Len(s) = Len(activations)
                BY <1>2, <2>1, TopFrame
            <4>3. Len(activations) = m + 1
                BY <1>2, ActiveFacts DEF m
            <4> QED BY <4>1, <4>2, <4>3
        <3> HIDE DEF s, N
        <3>2. Front(s) = SubSeq(s, 1, m)
            BY <1>1, <3>1 DEF Front
        <3>3. Front(s) \in Seq(Nat) /\ Front(s) \in Seq(1 .. N) /\ Len(Front(s)) = m
              /\ \A k \in 1 .. m : Front(s)[k] = s[k]
            <4>1. m \in Nat /\ m <= Len(s)
                BY <1>1, <3>1
            <4> DEFINE T == 1 .. N
            <4>2. s \in Seq(T)
                BY <3>1
            <4> HIDE DEF T
            <4>3. Front(s) \in Seq(T) /\ Len(Front(s)) = m /\ \A k \in 1 .. m : Front(s)[k] = s[k]
                BY <3>2, <4>1, <4>2
            <4>4. Front(s) \in Seq(Nat)
                BY <3>1, <3>2, <4>1
            <4> QED BY <4>3, <4>4 DEF T
        <3>4. collector'.stack = Front(s) /\ Len(G) = N
            BY <2>1, <2>4 DEF s, N
        <3> QED BY <1>3, <3>1, <3>3, <3>4
    <2>6. collector' \in CollectorType
        <3>1. collector' = [collector EXCEPT !.stack = collector'.stack, !.frames = G]
            BY <1>2, <2>1 DEF Popped, CollectorType, G
        <3> QED BY <1>2, <2>4, <2>5, <3>1 DEF CollectorType
    <2>7. TypeOK'
        <3>1. Len(collector'.frames) <= MaxFrames
            BY <1>2, <2>1, <2>4
        <3> QED BY <1>1, <1>2, <2>1, <2>5, <2>6, <3>1 DEF TypeOK
    <2>8. Limited'
        BY <1>1, <1>2, <2>1 DEF Limited
    <2>9. Sums(collector'.frames, collector'.steps)
        <3> DEFINE n == collector.steps
                   d == g.used
        <3>1. Ends(F, G, id, cid, d)
            <4>1. lent - left = d
                BY <2>1
            <4>2. ASSUME NEW j \in DOMAIN F
                  PROVE  /\ G[j].parent = F[j].parent /\ Visited(G[j]) = Visited(F[j])
                         /\ j # id => G[j].used = F[j].used
                         /\ G[j].childGas = IF j = cid THEN F[j].childGas + d ELSE F[j].childGas
                <5>1. CASE j = id
                    BY <1>1, <2>1, <2>3, <5>1
                <5>2. CASE j = cid
                    BY <1>1, <2>2, <2>3, <4>1, <5>2 DEF c
                <5>3. CASE j # id /\ j # cid
                    BY <2>3, <5>3
                <5> QED BY <5>1, <5>2, <5>3
            <4> QED BY <1>1, <2>1, <2>3, <4>2 DEF Ends
        <3>2. /\ id \in DOMAIN F /\ d \in Nat /\ n \in Nat /\ Sums(F, n)
              /\ F \in Seq(Frames) /\ G \in Seq(Frames) /\ Len(G) = Len(F)
            BY <1>1, <1>2, <2>1, <2>4 DEF Follows
        <3> HIDE DEF F, n, d
        <3>3. Sums(G, n)
            BY <3>1, <3>2, SumsLeave
        <3> QED BY <2>1, <3>3 DEF n
    <2>10. Follows'
        <3>1. collector'.steps = visits' /\ Len(collector'.frames) = Len(truth')
            BY <1>1, <2>1, <2>4 DEF Follows
        <3>2. ASSUME NEW j \in DOMAIN truth' PROVE Records(collector'.frames[j], truth'[j])
            <4>1. CASE j = id
                BY <2>1, <2>3, <4>1
            <4>2. CASE j = cid
                BY <2>1, <2>2, <2>3, <4>2
            <4>3. CASE j # id /\ j # cid
                BY <1>1, <2>1, <2>3, <4>3 DEF Follows
            <4> QED BY <4>1, <4>2, <4>3
        <3>3. ASSUME NEW j \in DOMAIN truth', ~OnStack(j)'
              PROVE  Closed(collector'.frames[j], truth'[j])
            <4>1. CASE j = id
                BY <2>1, <2>3, <4>1
            <4>2. CASE j # id
                <5>1. \A k \in 1 .. m : activations[k].id # j
                    BY <1>1, <1>4, <3>3 DEF OnStack
                <5>2. ~OnStack(j)
                    <6>1. activations[m + 1].id = id
                        BY <1>1 DEF id
                    <6> QED BY <1>3, <4>2, <5>1, <6>1 DEF OnStack
                <5>3. j # cid
                    BY <1>3, <5>1 DEF cid, caller
                <5> QED BY <1>1, <2>1, <2>3, <4>2, <5>2, <5>3 DEF Follows
            <4> QED BY <4>1, <4>2
        <3>4. ASSUME NEW k \in DOMAIN activations'
              PROVE  Open(collector'.frames[activations'[k].id], truth'[activations'[k].id],
                          activations'[k], Lent(k)')
            <4>1. CASE k = m
                <5>1. activations'[k] = b /\ b.id = cid /\ Lent(k)' = 0
                    BY <1>1, <1>3, <4>1 DEF b
                <5> QED BY <2>1, <2>2, <2>3, <5>1
            <4>2. CASE k \in 1 .. (m - 1)
                <5>1. k \in 1 .. m /\ k # m /\ k \in DOMAIN activations
                    BY <1>1, <1>3, <4>2
                <5>2. activations'[k] = activations[k] /\ Lent(k)' = Lent(k)
                    BY <1>1, <4>2, <5>1
                <5>3. activations[k].id \in DOMAIN truth \ {id, cid}
                    BY <1>4, <4>2, <5>1
                <5>4. Open(F[activations[k].id], truth[activations[k].id], activations[k], Lent(k))
                    BY <2>1, <5>1 DEF Follows
                <5> QED BY <1>1, <2>1, <2>3, <5>2, <5>3, <5>4
            <4> QED BY <1>1, <1>3, <4>1, <4>2
        <3>5. Nested'
            <4>1. collector'.stack = [k \in DOMAIN activations' |-> activations'[k].id]
                <5>1. DOMAIN collector'.stack = DOMAIN activations'
                    BY <1>1, <2>5
                <5>2. \A k \in DOMAIN activations' : collector'.stack[k] = activations'[k].id
                    BY <1>1, <1>4, <2>5
                <5>3. collector'.stack \in Seq(Nat)
                    BY <2>5
                <5> QED BY <5>1, <5>2, <5>3
            <4>2. \A j \in DOMAIN F : G[j].depth = F[j].depth
                BY <2>1, <2>2, <2>3 DEF c
            <4>3. ASSUME NEW k \in DOMAIN activations'
                  PROVE  collector'.frames[activations'[k].id].depth = k - 1
                <5>1. k \in DOMAIN activations /\ activations'[k].id = activations[k].id
                    BY <1>1, <1>3, <1>4
                <5>2. F[activations[k].id].depth = k - 1 /\ activations[k].id \in DOMAIN F
                    BY <1>4, <2>1, <5>1 DEF Follows, Nested
                <5> QED BY <2>1, <4>2, <5>1, <5>2
            <4>4. ASSUME NEW j \in DOMAIN truth', truth'[j].parent # 0
                  PROVE  collector'.frames[j].depth = collector'.frames[truth'[j].parent].depth + 1
                <5>1. truth'[j].parent = truth[j].parent
                    BY <1>1 DEF ChargedMore
                <5>2. /\ truth[j] \in TruthType /\ truth[j].parent < j
                      /\ DOMAIN truth = 1 .. Len(truth) /\ Len(truth) \in Nat
                    BY <1>1, <1>2, SMTT(30) DEF Stacked, TypeOK
                <5>3. truth[j].parent \in Nat /\ truth[j].parent # 0
                    BY <4>4, <5>1, <5>2 DEF TruthType
                <5>4. truth[j].parent \in DOMAIN truth
                    BY <1>1, <5>2, <5>3
                <5>5. F[j].depth = F[truth[j].parent].depth + 1
                    BY <1>1, <2>1, <4>4, <5>1 DEF Follows, Nested
                <5>6. j \in DOMAIN F /\ truth[j].parent \in DOMAIN F
                    BY <1>1, <2>1, <5>4
                <5>7. G[j].depth = F[j].depth /\ G[truth[j].parent].depth = F[truth[j].parent].depth
                    BY <4>2, <5>6
                <5> QED BY <2>1, <5>1, <5>5, <5>7
            <4> QED BY <4>1, <4>3, <4>4 DEF Nested
        <3> QED BY <2>9, <3>1, <3>2, <3>3, <3>4, <3>5 DEF Follows, Lent
    <2> QED BY <1>1, <2>7, <2>8, <2>10 DEF IInv
<1> QED BY <1>5, <1>6

LEMMA EndKeeps ==
    ASSUME IInv, Running, Active.busy, NEW left \in 0 .. Active.gas,
           NEW status \in Statuses \ {"running"}, NEW deposit \in Nat,
           EndFrame(status, left, deposit)
    PROVE  IInv'
BY EndRoot, EndChild

LEMMA StopKeeps ==
    ASSUME IInv, NEW status \in {"success", "revert"}, NEW amount \in Charges,
           NEW deposit \in Charges, Stop(status, amount, deposit)
    PROVE  IInv'
<1> DEFINE left == Active.gas - amount
<1>1. /\ Running /\ Active.busy /\ amount <= Active.gas /\ EndFrame(status, left, deposit)
      /\ status \in Statuses \ {"running"} /\ amount \in Nat /\ deposit \in Nat
    BY DiagnosticsAssumption DEF Stop, Statuses, Charges
<1>2. Active.gas \in Nat
    BY <1>1, ActiveFacts DEF IInv, ActivationType
<1>3. left \in 0 .. Active.gas
    BY <1>1, <1>2
<1> HIDE DEF left
<1> QED BY <1>1, <1>3, EndKeeps

LEMMA FaultKeeps == ASSUME IInv, Fault PROVE IInv'
<1>1. Running /\ Active.busy /\ EndFrame("error", 0, 0) /\ "error" \in Statuses \ {"running"}
    BY DEF Fault, Statuses
<1>2. Active.gas \in Nat
    BY <1>1, ActiveFacts DEF IInv, ActivationType
<1>3. 0 \in 0 .. Active.gas /\ 0 \in Nat
    BY <1>2
<1> QED BY <1>1, <1>3, EndKeeps

-----------------------------------------------------------------------------
(* The steps of diagnose_fixture_suite.                                    *)

LEMMA NewCollectorType ==
    /\ NewCollector \in CollectorType /\ NewCollector.active /\ ~NewCollector.failed
    /\ NewCollector.steps = 0 /\ NewCollector.frames = << >> /\ NewCollector.stack = << >>
    /\ NewCollector.codes = << >>
<1>1. << >> \in [{} -> Codes] /\ {} \in SUBSET Hashes
    OBVIOUS
<1>2. << >> \in CodeMaps
    BY <1>1 DEF CodeMaps
<1> QED BY <1>2, DiagnosticsAssumption DEF NewCollector, CollectorType

LEMMA NoSums == Sums(<< >>, 0)
<1>1. DOMAIN << >> = {}
    OBVIOUS
<1>2. DOMAIN Net(<< >>) = {} /\ DOMAIN VisitsOf(<< >>) = {}
    BY <1>1 DEF Net, VisitsOf
<1> QED BY <1>1, <1>2, SumEmpty DEF Sums, SumFunction

\* The first frame of a case.
LEMMA FirstFrame ==
    ASSUME NEW code \in Codes
    PROVE  LET g == Frame(0, 0, Keccak(code), FALSE, GasLimit)
               t == NewTruth(0, code, GasLimit)
               a == Activation(1, GasLimit)
           IN
       /\ g \in Frames /\ g.depth = 0 /\ g.parent = 0 /\ t \in TruthType /\ a \in ActivationType
       /\ Records(g, t) /\ Open(g, t, a, 0) /\ Sums(<<g>>, 0)
       /\ t.parent = 0 /\ t.supplied = GasLimit /\ a.id = 1 /\ a.gas = GasLimit /\ ~a.busy
<1> DEFINE g == Frame(0, 0, Keccak(code), FALSE, GasLimit)
           t == NewTruth(0, code, GasLimit)
           a == Activation(1, GasLimit)
<1>1. GasLimit \in Nat /\ FALSE \in BOOLEAN /\ 0 \in Nat
    BY DiagnosticsAssumption
<1>2. /\ t.parent = 0 /\ t.code = code /\ t.creation = FALSE /\ t.supplied = GasLimit /\ t.pcs = [p \in Pcs |-> NoCounter]
      /\ t \in TruthType
    BY <1>1 DEF NewTruth, TruthType, Statuses, NoCounter
<1>3. a.gas = GasLimit /\ a.pc = NoPc /\ a.id = 1 /\ ~a.busy /\ a \in ActivationType
    BY <1>1 DEF Activation, ActivationType
<1> HIDE DEF t, a
<1>4. /\ g \in Frames /\ g.parent = 0 /\ g.depth = 0 /\ g.used = 0 /\ g.childGas = 0
      /\ Visited(g) = 0 /\ Records(g, t) /\ Open(g, t, a, 0)
    <2> DEFINE c == FALSE
    <2>1. c \in BOOLEAN /\ t.creation = c /\ g = Frame(0, 0, Keccak(code), c, GasLimit)
        BY <1>2
    <2> HIDE DEF c, g
    <2> QED BY <1>1, <1>2, <1>3, <2>1, NewOpen
<1> HIDE DEF g
<1>5. Sums(<<g>>, 0)
    <2> DEFINE F == << >>
    <2>1. F \in Seq(Frames) /\ Len(F) = 0 /\ DOMAIN F = {} /\ Append(F, g) = <<g>> /\ Sums(F, 0)
        BY <1>4, NoSums
    <2>2. /\ F \in Seq(Frames) /\ g \in Frames /\ g.parent <= Len(F) /\ g.used = 0 /\ g.childGas = 0
          /\ Visited(g) = 0 /\ \A i \in DOMAIN F : F[i].parent < i
        BY <1>4, <2>1
    <2> HIDE DEF F
    <2>3. Sums(Append(F, g), 0)
        BY <2>1, <2>2, SumsEnter
    <2> QED BY <2>1, <2>3
<1> QED BY <1>2, <1>3, <1>4, <1>5 DEF g, t, a

LEMMA BeginBytecodeKeeps == ASSUME IInv, NEW code \in Codes, BeginBytecode(code) PROVE IInv'
<1> DEFINE g == Frame(0, 0, Keccak(code), FALSE, GasLimit)
           t == NewTruth(0, code, GasLimit)
           a == Activation(1, GasLimit)
<1>1. /\ TypeOK /\ cases < NumCases /\ phase' = "running" /\ activations' = <<a>> /\ truth' = <<t>>
      /\ visits' = 0 /\ collector' = Enter(NewCollector, code, 0, GasLimit) /\ UNCHANGED <<cases, gas>>
    BY DEF IInv, BeginBytecode, DiagnosticBegin
<1>2. /\ g \in Frames /\ g.depth = 0 /\ t \in TruthType /\ a \in ActivationType
      /\ Records(g, t) /\ Open(g, t, a, 0) /\ Sums(<<g>>, 0)
      /\ t.parent = 0 /\ t.supplied = GasLimit /\ a.id = 1 /\ a.gas = GasLimit /\ ~a.busy
    BY FirstFrame
<1> HIDE DEF g, t, a
<1>3. /\ activations' \in Seq(ActivationType) /\ DOMAIN activations' = {1} /\ Len(activations') = 1
      /\ activations'[1] = a /\ activations' # << >>
      /\ truth' \in Seq(TruthType) /\ DOMAIN truth' = {1} /\ Len(truth') = 1 /\ truth'[1] = t
    BY <1>1, <1>2
<1>4. \A k \in DOMAIN activations' : Lent(k)' = 0
    BY <1>3 DEF Lent
<1>5. Stacked'
    BY <1>1, <1>2, <1>3, <1>4, DiagnosticsAssumption DEF Stacked
<1>6. visits' \in 0 .. MaxVisits /\ MaxFrames \in Nat /\ MaxSteps \in Nat
    BY <1>1, DiagnosticsAssumption
<1>7. IF MaxFrames = 0 THEN collector' = Failed(NewCollector)
      ELSE collector' = [NewCollector EXCEPT !.stack = <<1>>, !.frames = <<g>>,
                                             !.codes = Learned(<< >>, code)]
    <2> DEFINE c == NewCollector
    <2>1. Len(<< >>) = 0 /\ Append(<< >>, 0 + 1) = <<1>> /\ Append(<< >>, g) = <<g>>
        OBVIOUS
    <2>2. Recording(c) /\ c.frames = << >> /\ c.stack = << >>
        BY NewCollectorType DEF Recording
    <2>3. CASE MaxFrames = 0
        BY <1>1, <2>1, <2>2, <2>3 DEF Enter
    <2>4. CASE MaxFrames # 0
        <3>1. collector' = [c EXCEPT !.stack = Append(c.stack, Len(c.frames) + 1),
                                     !.frames = Append(c.frames, Frame(0, 0, Keccak(code), FALSE, GasLimit)),
                                     !.codes = Learned(c.codes, code)]
            BY <1>1, <2>1, <2>2, <2>4, NewCollectorType DEF Enter, Entered, Learned, CollectorType
        <3> QED BY <2>1, <2>2, <2>4, <3>1, NewCollectorType DEF g
    <2> QED BY <2>3, <2>4
<1>8. CASE MaxFrames = 0
    <2>1. /\ collector' \in CollectorType /\ collector'.failed /\ collector'.active
          /\ collector'.frames = << >> /\ collector'.stack = << >>
        BY <1>7, <1>8, NewCollectorType, FailedFields
    <2>2. TypeOK'
        BY <1>1, <1>3, <1>6, <1>8, <2>1 DEF TypeOK
    <2>3. Limited'
        BY <1>1, <1>3, <1>8, <2>1 DEF Limited
    <2> QED BY <1>5, <2>1, <2>2, <2>3 DEF IInv
<1>9. CASE MaxFrames # 0
    <2>1. /\ collector'.frames = <<g>> /\ collector'.stack = <<1>> /\ collector'.steps = 0
          /\ collector'.active /\ ~collector'.failed
          /\ collector' = [NewCollector EXCEPT !.stack = <<1>>, !.frames = <<g>>,
                                             !.codes = Learned(<< >>, code)]
        BY <1>7, <1>9 DEF NewCollector
    <2>2. /\ <<g>> \in Seq(Frames) /\ Len(<<g>>) = 1 /\ <<1>> \in Seq(Nat) /\ <<1>> \in Seq(1 .. 1)
          /\ DOMAIN <<1>> = {1}
        BY <1>2
    <2>3. collector' \in CollectorType
        <3>1. Learned(<< >>, code) \in CodeMaps
            BY NewCollectorType, Learning DEF CollectorType
        <3> QED BY <2>1, <2>2, <3>1, NewCollectorType DEF CollectorType
    <2>4. TypeOK'
        <3>1. Len(collector'.frames) <= MaxFrames /\ collector'.stack \in Seq(1 .. Len(collector'.frames))
            BY <1>6, <1>9, <2>1, <2>2
        <3> QED BY <1>1, <1>3, <1>6, <2>3, <3>1 DEF TypeOK
    <2>5. Limited'
        BY <1>1, <1>3, <1>6, <1>9, <2>1 DEF Limited
    <2>6. Nested'
        <3>1. collector'.stack = [k \in DOMAIN activations' |-> activations'[k].id]
            BY <1>2, <1>3, <2>1, <2>2
        <3>2. \A k \in DOMAIN activations' : collector'.frames[activations'[k].id].depth = k - 1
            BY <1>2, <1>3, <2>1
        <3>3. \A j \in DOMAIN truth' : truth'[j].parent = 0
            BY <1>2, <1>3
        <3> QED BY <3>1, <3>2, <3>3 DEF Nested
    <2>7. \A j \in DOMAIN truth' : OnStack(j)'
        BY <1>2, <1>3 DEF OnStack
    <2>8. Follows'
        <3>1. collector'.steps = visits' /\ Len(collector'.frames) = Len(truth')
            BY <1>1, <1>3, <2>1, <2>2
        <3>2. \A j \in DOMAIN truth' : Records(collector'.frames[j], truth'[j])
            BY <1>2, <1>3, <2>1
        <3>3. \A k \in DOMAIN activations' :
                Open(collector'.frames[activations'[k].id], truth'[activations'[k].id],
                     activations'[k], Lent(k)')
            BY <1>2, <1>3, <1>4, <2>1
        <3>4. Sums(collector'.frames, collector'.steps)
            BY <1>2, <2>1
        <3> QED BY <2>6, <2>7, <3>1, <3>2, <3>3, <3>4 DEF Follows, Lent
    <2> QED BY <1>5, <2>4, <2>5, <2>8 DEF IInv
<1> QED BY <1>8, <1>9

LEMMA BeginPrecompileKeeps == ASSUME IInv, BeginPrecompile PROVE IInv'
<1>1. /\ TypeOK /\ cases < NumCases /\ phase' = "ended" /\ gas' \in 0 .. GasLimit
      /\ activations' = << >> /\ truth' = << >> /\ visits' = 0 /\ collector' = NewCollector
      /\ cases' = cases
    BY DEF IInv, BeginPrecompile, DiagnosticBegin
<1>2. << >> \in Seq(ActivationType) /\ << >> \in Seq(TruthType) /\ << >> \in Seq(1 .. 0)
      /\ Len(<< >>) = 0 /\ DOMAIN << >> = {}
    OBVIOUS
<1>3. MaxFrames \in Nat /\ MaxSteps \in Nat /\ 0 \in 0 .. MaxVisits
    BY DiagnosticsAssumption
<1>4. TypeOK'
    BY <1>1, <1>2, <1>3, NewCollectorType DEF TypeOK
<1>5. Stacked'
    BY <1>1, <1>2 DEF Stacked
<1>6. Limited'
    BY <1>1, <1>2, <1>3, NewCollectorType DEF Limited
<1>7. Nested'
    BY <1>1, <1>2, NewCollectorType DEF Nested
<1>8. Follows'
    BY <1>1, <1>2, <1>7, NoSums, NewCollectorType DEF Follows
<1> QED BY <1>4, <1>5, <1>6, <1>8 DEF IInv

\* Between cases the collector and the machine only have to keep their types.
LEMMA IdleKeeps ==
    ASSUME IInv, phase' \in {"idle", "published", "rejected"}, phase # "running",
           UNCHANGED machine, cases' \in 0 .. NumCases, collector' \in CollectorType,
           collector'.frames = collector.frames, collector'.stack = collector.stack
    PROVE  IInv'
<1>1. TypeOK'
    BY DEF IInv, TypeOK, machine
<1>2. Stacked'
    BY DEF IInv, Stacked, Live, Lent, machine
<1> QED BY <1>1, <1>2 DEF IInv, Live

LEMMA SuiteKeeps == ASSUME IInv, CaseFails \/ Finish \/ Publish PROVE IInv'
<1>1. collector \in CollectorType /\ cases \in 0 .. NumCases /\ NumCases \in Nat
    BY DiagnosticsAssumption DEF IInv, TypeOK
<1>2. CASE CaseFails
    BY <1>1, <1>2, IdleKeeps DEF CaseFails
<1>3. CASE Publish
    BY <1>1, <1>3, IdleKeeps DEF Publish
<1>4. CASE Finish
    <2>1. phase = "ended" /\ UNCHANGED machine /\ phase' \in {"idle", "rejected"}
        BY <1>4 DEF Finish
    <2>2. cases < NumCases
        BY <2>1 DEF IInv, Live, Limited
    <2>3. cases' \in 0 .. NumCases
        BY <1>1, <1>4, <2>2 DEF Finish
    <2>4. /\ collector' \in CollectorType
          /\ collector'.frames = collector.frames /\ collector'.stack = collector.stack
        BY <1>1, <1>4 DEF Finish, CollectorType
    <2> QED BY <2>1, <2>3, <2>4, IdleKeeps
<1> QED BY <1>2, <1>3, <1>4

LEMMA InitIInv == Init => IInv
<1> SUFFICES ASSUME Init PROVE IInv
    OBVIOUS
<1>1. << >> \in Seq(ActivationType) /\ << >> \in Seq(TruthType) /\ << >> \in Seq(1 .. 0)
      /\ Len(<< >>) = 0 /\ DOMAIN << >> = {}
    OBVIOUS
<1>2. collector \in CollectorType /\ collector.frames = << >> /\ collector.stack = << >>
    <2> DEFINE c == NewCollector
    <2>1. c \in CollectorType /\ c.frames = << >> /\ c.stack = << >>
        BY NewCollectorType
    <2>2. collector = [c EXCEPT !.active = FALSE]
        BY DEF Init
    <2> HIDE DEF c
    <2> QED BY <2>1, <2>2 DEF CollectorType
<1>3. TypeOK
    <2>1. /\ phase = "idle" /\ cases = 0 /\ gas = 0 /\ activations = << >> /\ truth = << >>
          /\ visits = 0
        BY DEF Init
    <2>2. 0 \in 0 .. NumCases /\ 0 \in 0 .. GasLimit /\ 0 \in 0 .. MaxVisits /\ 0 <= MaxFrames
        BY DiagnosticsAssumption
    <2>3. collector.stack \in Seq(1 .. Len(collector.frames)) /\ Len(collector.frames) <= MaxFrames
        BY <1>1, <1>2, <2>2
    <2> QED BY <1>1, <1>2, <2>1, <2>2, <2>3 DEF TypeOK
<1>4. Stacked
    BY <1>1 DEF Init, Stacked
<1> QED BY <1>3, <1>4 DEF Init, IInv, Live

LEMMA NextIInv == IInv /\ [Next]_vars => IInv'
<1> SUFFICES ASSUME IInv, [Next]_vars PROVE IInv'
    OBVIOUS
<1>1. CASE \E pc \in Pcs : Visit(pc)
    BY <1>1, VisitKeeps
<1>2. CASE \E amount \in Charges : Spend(amount)
    BY <1>2, SpendKeeps
<1>3. CASE \E code \in Codes, amount, stipend \in Charges, forwarded \in 0 .. GasLimit :
             Call(code, amount, forwarded, stipend)
    BY <1>3, CallKeeps
<1>4. CASE \E status \in {"success", "revert"}, amount, deposit \in Charges :
             Stop(status, amount, deposit)
    BY <1>4, StopKeeps
<1>5. CASE Fault
    BY <1>5, FaultKeeps
<1>6. CASE \E code \in Codes : BeginBytecode(code)
    BY <1>6, BeginBytecodeKeeps
<1>7. CASE BeginPrecompile
    BY <1>7, BeginPrecompileKeeps
<1>8. CASE CaseFails \/ Finish \/ Publish
    BY <1>8, SuiteKeeps
<1>9. CASE UNCHANGED vars
    BY <1>9 DEF vars, machine, IInv, TypeOK, Stacked, Live, Lent, Limited, Follows, Nested, OnStack
<1> QED BY <1>1, <1>2, <1>3, <1>4, <1>5, <1>6, <1>7, <1>8, <1>9 DEF Next, Interpreter

\* In every reachable state the interpreter's stack is a chain of suspended callers,
\* the collector has failed just when a limit is exceeded, and what a collector that
\* has not failed holds of each frame agrees with what the interpreter really did.
THEOREM Invariant == Spec => []IInv
BY InitIInv, NextIInv, PTL DEF Spec

\* Every variable keeps its type, and the limits bound what a collector holds.
THEOREM TypeCorrect == Spec => []TypeOK
<1>1. IInv => TypeOK
    BY DEF IInv
<1> QED BY <1>1, Invariant, PTL

-----------------------------------------------------------------------------
(* What a case leaves behind.                                              *)

LEMMA EndedCase ==
    ASSUME IInv, phase = "ended", ~collector.failed
    PROVE  LET F == collector.frames IN
           /\ collector.stack = << >> /\ collector.steps = visits
           /\ F \in Seq(Frames) /\ DOMAIN F = DOMAIN truth /\ DOMAIN truth = 1 .. Len(truth)
           /\ Len(F) = Len(truth) /\ Len(truth) \in Nat
           /\ \A i \in DOMAIN truth : /\ F[i] \in Frames /\ truth[i] \in TruthType
                                      /\ Records(F[i], truth[i]) /\ Closed(F[i], truth[i])
                                      /\ truth[i].parent < i
                                      /\ truth[i].parent # 0 =>
                                           F[i].depth = F[truth[i].parent].depth + 1
           /\ Sums(F, visits)
           /\ gas \in 0 .. GasLimit
           /\ F # << >> => /\ F[1].used = GasLimit - truth[1].left
                           /\ truth[1].left \in Nat /\ gas <= truth[1].left
<1> DEFINE F == collector.frames
<1>1. TypeOK /\ Stacked /\ Follows /\ activations = << >>
    BY DEF IInv, Live, Stacked
<1>2. /\ F \in Seq(Frames) /\ Len(F) = Len(truth) /\ truth \in Seq(TruthType) /\ gas \in 0 .. GasLimit
      /\ collector.steps = visits
    BY <1>1 DEF TypeOK, CollectorType, Follows
<1>3. collector.stack = << >>
    <2>1. DOMAIN activations = {}
        BY <1>1
    <2> DEFINE s == collector.stack
    <2>2. s \in Seq(Nat) /\ DOMAIN s = {}
        BY <1>1, <2>1 DEF TypeOK, CollectorType, Follows, Nested
    <2> HIDE DEF s
    <2>3. DOMAIN s = 1 .. Len(s) /\ Len(s) \in Nat
        BY <2>2
    <2>4. Len(s) = 0
        BY <2>2, <2>3
    <2> QED BY <2>2, <2>4 DEF s
<1>4. /\ DOMAIN F = DOMAIN truth /\ DOMAIN truth = 1 .. Len(truth) /\ Len(truth) \in Nat
      /\ \A i \in DOMAIN truth : F[i] \in Frames /\ truth[i] \in TruthType
    <2> HIDE DEF F, Frames, TruthType
    <2> QED BY <1>2
<1>5. \A i \in DOMAIN truth : ~OnStack(i)
    BY <1>1 DEF OnStack
<1>6. \A i \in DOMAIN truth : /\ Records(F[i], truth[i]) /\ Closed(F[i], truth[i])
                              /\ truth[i].parent < i
                              /\ truth[i].parent # 0 => F[i].depth = F[truth[i].parent].depth + 1
    BY <1>1, <1>5 DEF Follows, Nested, Stacked
<1>7. F # << >> => /\ F[1].used = GasLimit - truth[1].left
                   /\ truth[1].left \in Nat /\ gas <= truth[1].left
    <2> SUFFICES ASSUME F # << >>
                 PROVE  /\ F[1].used = GasLimit - truth[1].left
                        /\ truth[1].left \in Nat /\ gas <= truth[1].left
        OBVIOUS
    <2>1. 1 \in DOMAIN truth /\ truth # << >>
        BY <1>2, <1>4
    <2>2. truth[1].supplied = GasLimit /\ gas <= truth[1].left
        BY <1>1, <2>1 DEF Stacked, Live
    <2>3. truth[1].left \in Nat
        BY <1>4, <2>1 DEF TruthType
    <2> QED BY <1>6, <2>1, <2>2, <2>3 DEF Closed
<1>8. Sums(F, visits)
    BY <1>1, <1>2 DEF Follows
<1> QED BY <1>2, <1>3, <1>4, <1>6, <1>7, <1>8

\* The gas attributed to frames is what the root used, never more than was verified.
LEMMA EndedGas ==
    ASSUME IInv, phase = "ended", ~collector.failed
    PROVE  LET F == collector.frames IN
           /\ \A i \in DOMAIN F : FrameReconciles(F[i])
           /\ Attributed(F) = IF F = << >> THEN 0 ELSE F[1].used
           /\ Attributed(F) \in 0 .. VerifiedGas
           /\ \A i \in DOMAIN F : F[i].childGas = ChildrenUsed(F, i)
<1> DEFINE F == collector.frames
<1>1. \A i \in DOMAIN F : FrameReconciles(F[i])
    BY EndedCase DEF Closed
<1>2. [i \in DOMAIN F |-> SelfGas(F[i])] = Net(F)
    BY <1>1 DEF FrameReconciles, Net
<1>3. Attributed(F) = IF F = << >> THEN 0 ELSE F[1].used
    BY <1>2, EndedCase DEF Attributed, Sums
<1>4. Attributed(F) \in 0 .. VerifiedGas
    <2>1. GasLimit \in Nat /\ gas \in Nat /\ gas <= GasLimit
        BY EndedCase, DiagnosticsAssumption
    <2>2. CASE F = << >>
        BY <1>3, <2>1, <2>2 DEF VerifiedGas
    <2>3. CASE F # << >>
        <3>1. /\ F[1].used = GasLimit - truth[1].left /\ truth[1].left \in Nat
              /\ gas <= truth[1].left
            BY <2>3, EndedCase
        <3>2. F[1].used \in Nat
            <4>1. F \in Seq(Frames) /\ 1 \in DOMAIN F
                BY <2>3, EndedCase
            <4> HIDE DEF F
            <4> QED BY <4>1, FramesFinite
        <3> QED BY <1>3, <2>1, <2>3, <3>1, <3>2 DEF VerifiedGas
    <2> QED BY <2>2, <2>3
<1>5. \A i \in DOMAIN F : F[i].childGas = ChildrenUsed(F, i)
    BY EndedCase DEF Sums
<1> QED BY <1>1, <1>3, <1>4, <1>5

\* A case is turned down exactly when it exceeds max_steps or max_frames: at its end
\* no cost has come out negative, no hook has missed its frame, every frame
\* reconciles and no more is attributed than was verified.
THEOREM LimitsReject == Spec => []RejectsExactlyOverLimits
<1>1. IInv => RejectsExactlyOverLimits
    <2> SUFFICES ASSUME IInv, phase = "ended"
                 PROVE  Throws(collector, VerifiedGas) <=> visits > MaxSteps \/ Len(truth) > MaxFrames
        BY DEF RejectsExactlyOverLimits
    <2>1. collector.failed <=> visits > MaxSteps \/ Len(truth) > MaxFrames
        BY DEF IInv, Live, Limited
    <2>2. CASE collector.failed
        BY <2>1, <2>2 DEF Throws
    <2>3. CASE ~collector.failed
        BY <2>1, <2>3, EndedCase, EndedGas DEF Throws
    <2> QED BY <2>2, <2>3
<1> QED BY <1>1, Invariant, PTL

\* The report of a case within the limits says exactly what the interpreter did.
THEOREM Exact == Spec => []AttributesExactly
<1>1. IInv => AttributesExactly
    <2> SUFFICES ASSUME IInv, phase = "ended", ~collector.failed
                 PROVE  /\ Len(collector.frames) = Len(truth)
                        /\ \A i \in DOMAIN truth :
                             LET f == collector.frames[i]
                                 t == truth[i]
                             IN /\ f.parent = t.parent /\ f.code = Keccak(t.code)
                                /\ f.creation = t.creation
                                /\ f.supplied = t.supplied /\ f.used = t.supplied - t.left
                                /\ f.status = t.status /\ f.pcs = t.pcs
                                /\ \A p \in Pcs : t.pcs[p].count > 0 =>
                                     f.opcodes[p] = OpcodeAt(t.code, p)
        BY DEF AttributesExactly
    <2> QED BY EndedCase DEF Records, Closed
<1> QED BY <1>1, Invariant, PTL

\* In a published case a frame's self gas and its children's add up to its own, and
\* all self gas to what the root used.
THEOREM Identities == Spec => []ReportIdentities
<1>1. IInv => ReportIdentities
    <2> SUFFICES ASSUME IInv, phase = "ended", ~collector.failed
                 PROVE  LET frames == collector.frames
                        IN /\ \A i \in DOMAIN frames :
                                SelfGas(frames[i]) + ChildrenUsed(frames, i) = frames[i].used
                           /\ Attributed(frames) = IF frames = << >> THEN 0 ELSE frames[1].used
                           /\ Attributed(frames) <= VerifiedGas
        BY DEF ReportIdentities, Throws
    <2> DEFINE F == collector.frames
    <2>1. ASSUME NEW i \in DOMAIN F PROVE SelfGas(F[i]) + ChildrenUsed(F, i) = F[i].used
        <3>1. SelfGas(F[i]) = F[i].used - F[i].childGas /\ F[i].childGas = ChildrenUsed(F, i)
            BY EndedGas DEF FrameReconciles
        <3>2. F[i].used \in Nat /\ F[i].childGas \in Nat
            BY EndedCase, FramesFinite
        <3> HIDE DEF F
        <3> QED BY <3>1, <3>2
    <2> QED BY <2>1, EndedGas
<1> QED BY <1>1, Invariant, PTL

-----------------------------------------------------------------------------
(* Where a frame's opcodes stand in its code.                              *)

\* A position of the code, or the one stop past its end.
Boundary(code, pc) ==
  pc \in Instructions(code) \/ (pc = Terminal(code) /\ pc >= Len(code))

\* The scan finds the least set with the first position that is closed.
LEMMA Scanning ==
    ASSUME NEW code \in Codes
    PROVE  /\ Len(code) \in Nat /\ Instructions(code) \subseteq Nat
           /\ \A pc \in Instructions(code) : pc < Len(code)
           /\ code # << >> => 0 \in Instructions(code)
           /\ \A pc \in Nat : Following(code, pc) \in Nat /\ Following(code, pc) > pc
           /\ \A pc \in Instructions(code) :
                Following(code, pc) < Len(code) => Following(code, pc) \in Instructions(code)
           /\ \A pcs : pcs \subseteq Instructions(code) /\ Scanned(code, pcs) =>
                         Instructions(code) \subseteq pcs
<1> DEFINE B == Instructions(code)
           P == Positions(code)
<1>1. code \in Seq(Opcodes) /\ Len(code) \in Nat /\ PushSize \in Nat \ {0}
    BY DiagnosticsAssumption
<1>2. B \subseteq P /\ \A pc \in P : pc \in Nat /\ pc < Len(code)
    BY <1>1 DEF Instructions, Positions
<1>3. code # << >> => 0 \in P
    BY <1>1 DEF Positions
<1>4. \A pc \in Nat : Following(code, pc) \in Nat /\ Following(code, pc) > pc
    BY <1>1 DEF Following
<1>5. \A pc \in B, pcs \in SUBSET P : Scanned(code, pcs) => pc \in pcs
    BY DEF Instructions
<1>6. \A pc \in P : (\A pcs \in SUBSET P : Scanned(code, pcs) => pc \in pcs) => pc \in B
    BY DEF Instructions
<1>7. code # << >> => 0 \in B
    BY <1>3, <1>6 DEF Scanned
<1>8. ASSUME NEW pc \in B, Following(code, pc) < Len(code) PROVE Following(code, pc) \in B
    <2>1. Following(code, pc) \in P
        BY <1>1, <1>2, <1>4, <1>8 DEF Positions
    <2>2. \A pcs \in SUBSET P : Scanned(code, pcs) => Following(code, pc) \in pcs
        BY <1>5, <1>8 DEF Scanned
    <2> QED BY <1>6, <2>1, <2>2
<1>9. \A pcs : pcs \subseteq B /\ Scanned(code, pcs) => B \subseteq pcs
    BY <1>2, <1>5
<1> QED BY <1>1, <1>2, <1>4, <1>7, <1>8, <1>9

\* No instruction begins in the data of another.
LEMMA NoOverlap ==
    ASSUME NEW code \in Codes, NEW q \in Instructions(code), NEW r \in Instructions(code), r < q
    PROVE  Following(code, r) <= q
<1> DEFINE B == Instructions(code)
           F(pc) == Following(code, pc)
           S == {pc \in B : \A p \in B : p < pc => F(p) <= pc}
<1>1. /\ Len(code) \in Nat /\ B \subseteq Nat /\ (code # << >> => 0 \in B)
      /\ \A pc \in B : F(pc) \in Nat /\ F(pc) > pc
      /\ \A pc \in B : F(pc) < Len(code) => F(pc) \in B
      /\ \A pcs : pcs \subseteq B /\ Scanned(code, pcs) => B \subseteq pcs
    BY Scanning
<1> HIDE DEF B, F
<1>2. code # << >> => 0 \in S
    <2>1. \A p \in B : ~ (p < 0)
        BY <1>1
    <2> QED BY <1>1, <2>1
<1>3. ASSUME NEW pc \in S, F(pc) < Len(code) PROVE F(pc) \in S
    <2> DEFINE next == F(pc)
               T == {p \in B : p <= pc \/ next <= p}
    <2>1. /\ pc \in B /\ pc \in Nat /\ next \in B /\ next \in Nat /\ pc < next
          /\ \A p \in B : p < pc => F(p) <= pc
        BY <1>1, <1>3
    <2> HIDE DEF next
    <2>2. F(pc) = next
        BY DEF next
    <2>3. Scanned(code, T)
        <3>1. code # << >> => 0 \in T
            BY <1>1, <2>1
        <3>2. ASSUME NEW p \in T, F(p) < Len(code) PROVE F(p) \in T
            <4>1. F(p) \in B /\ F(p) \in Nat /\ p \in Nat /\ F(p) > p /\ p \in B
                BY <1>1, <3>2
            <4>2. CASE p < pc
                BY <2>1, <4>1, <4>2
            <4>3. CASE p = pc
                BY <2>1, <2>2, <4>1, <4>3
            <4>4. CASE next <= p
                BY <2>1, <4>1, <4>4
            <4> QED BY <2>1, <3>2, <4>1, <4>2, <4>3, <4>4
        <3> QED BY <3>1, <3>2 DEF Scanned, F
    <2>4. B \subseteq T
        BY <1>1, <2>3
    <2>5. ASSUME NEW p \in B, p < next PROVE F(p) <= next
        <3>1. p <= pc /\ p \in Nat /\ F(p) \in Nat
            BY <1>1, <2>1, <2>4, <2>5
        <3>2. CASE p < pc
            BY <2>1, <3>1, <3>2
        <3>3. CASE p = pc
            BY <2>1, <2>2, <3>3
        <3> QED BY <2>1, <3>1, <3>2, <3>3
    <2> QED BY <2>1, <2>2, <2>5
<1>4. Scanned(code, S)
    BY <1>2, <1>3 DEF Scanned, F
<1>5. q \in S /\ r \in B
    BY <1>1, <1>4 DEF B
<1> QED BY <1>5 DEF F

\* From one boundary the interpreter goes to another.
LEMMA NextBoundary ==
    ASSUME NEW code \in Codes, NEW pc \in Pcs \cup {NoPc}, NEW next \in NextPcs(code, pc),
           pc # NoPc => Boundary(code, pc) /\ OpcodeAt(code, pc) # "stop"
    PROVE  Boundary(code, next)
<1>1. /\ Len(code) \in Nat /\ Instructions(code) \subseteq Nat
      /\ \A p \in Instructions(code) : p < Len(code)
      /\ code # << >> => 0 \in Instructions(code)
      /\ \A p \in Nat : Following(code, p) \in Nat /\ Following(code, p) > p
      /\ \A p \in Instructions(code) :
           Following(code, p) < Len(code) => Following(code, p) \in Instructions(code)
    BY Scanning
<1>2. CASE pc = NoPc
    <2>1. next = 0
        BY <1>2 DEF NextPcs
    <2>2. CASE code # << >>
        BY <1>1, <2>1, <2>2 DEF Boundary
    <2>3. CASE code = << >>
        <3>1. Len(code) = 0 /\ Instructions(code) = {}
            BY <1>1, <2>3
        <3> QED BY <2>1, <3>1 DEF Boundary, Terminal
    <2> QED BY <2>2, <2>3
<1>3. CASE pc # NoPc
    <2>1. pc \in Instructions(code) /\ pc \in Nat /\ pc < Len(code)
        <3>1. pc \in Nat
            BY <1>3, DiagnosticsAssumption
        <3>2. pc < Len(code)
            BY <1>1, <1>3, <3>1 DEF OpcodeAt
        <3> QED BY <1>1, <1>3, <3>1, <3>2 DEF Boundary
    <2>2. CASE next \in Instructions(code)
        BY <2>2 DEF Boundary
    <2>3. CASE next \notin Instructions(code)
        <3>1. next = Following(code, pc) /\ next >= Len(code) /\ next \in Nat
            BY <1>1, <1>3, <2>1, <2>3 DEF NextPcs
        <3>2. \A p \in Instructions(code) : p <= pc
            <4> SUFFICES ASSUME NEW p \in Instructions(code), ~ (p <= pc) PROVE FALSE
                OBVIOUS
            <4>1. p \in Nat /\ pc < p /\ p < Len(code)
                BY <1>1, <2>1
            <4>2. Following(code, pc) <= p
                BY <2>1, <4>1, NoOverlap
            <4> QED BY <1>1, <3>1, <4>1, <4>2
        <3>3. ASSUME NEW last \in Instructions(code), \A p \in Instructions(code) : p <= last
              PROVE  last = pc
            BY <1>1, <2>1, <3>2, <3>3
        <3> DEFINE L == CHOOSE last \in Instructions(code) : \A p \in Instructions(code) : p <= last
        <3>4. L = pc
            <4>1. L \in Instructions(code) /\ \A p \in Instructions(code) : p <= L
                BY <2>1, <3>2
            <4> HIDE DEF L
            <4> QED BY <3>3, <4>1
        <3>5. Terminal(code) = Following(code, pc)
            BY <2>1, <3>4 DEF Terminal
        <3> QED BY <3>1, <3>5 DEF Boundary
    <2> QED BY <2>2, <2>3
<1> QED BY <1>2, <1>3

\* Every opcode visited stood at a boundary, and what is not the last of its frame
\* is not a stop.
Going(k) == k < Len(activations) \/ ~activations[k].busy

Placed ==
  /\ \A id \in DOMAIN truth : \A pc \in Pcs :
       truth[id].pcs[pc].count > 0 => Boundary(truth[id].code, pc)
  /\ \A k \in DOMAIN activations :
       activations[k].pc # NoPc =>
         /\ truth[activations[k].id].pcs[activations[k].pc].count > 0
         /\ Going(k) => Executing(activations[k]) # "stop"

Kept(u, t) == u.code = t.code /\ \A pc \in Pcs : u.pcs[pc].count = t.pcs[pc].count

Resumed(k) ==
  /\ activations'[k].id = activations[k].id /\ activations'[k].pc = activations[k].pc
  /\ activations[k].pc # NoPc /\ Going(k)' => Executing(activations[k]) # "stop"

\* A step that visits nothing and starts no frame.
LEMMA PlacedKept ==
    ASSUME IInv, Placed, DOMAIN truth' = DOMAIN truth,
           \A id \in DOMAIN truth : Kept(truth'[id], truth[id]),
           DOMAIN activations' \subseteq DOMAIN activations,
           \A k \in DOMAIN activations' : Resumed(k)
    PROVE  Placed'
<1>1. ASSUME NEW id \in DOMAIN truth', NEW pc \in Pcs, truth'[id].pcs[pc].count > 0
      PROVE  Boundary(truth'[id].code, pc)
    <2>1. truth'[id].code = truth[id].code /\ truth'[id].pcs[pc].count = truth[id].pcs[pc].count
        BY DEF Kept
    <2> QED BY <1>1, <2>1 DEF Placed
<1>2. ASSUME NEW k \in DOMAIN activations', activations'[k].pc # NoPc
      PROVE  /\ truth'[activations'[k].id].pcs[activations'[k].pc].count > 0
             /\ Going(k)' => Executing(activations[k])' # "stop"
    <2> DEFINE a == activations[k]
               b == activations'[k]
    <2>1. /\ k \in DOMAIN activations /\ b.id = a.id /\ b.pc = a.pc /\ a.pc # NoPc
          /\ Going(k)' => Executing(a) # "stop"
        BY <1>2 DEF Resumed
    <2>2. a.id \in DOMAIN truth /\ a.pc \in Pcs /\ truth[a.id].pcs[a.pc].count > 0
        <3>1. a \in ActivationType
            BY <2>1 DEF IInv, TypeOK
        <3> QED BY <2>1, <3>1 DEF ActivationType, IInv, Stacked, Placed
    <2> HIDE DEF a, b
    <2>3. truth'[a.id].code = truth[a.id].code /\ truth'[a.id].pcs[a.pc].count > 0
        BY <2>2 DEF Kept
    <2>4. OpcodeAt(truth'[b.id].code, b.pc) = Executing(a)
        BY <2>1, <2>3 DEF Executing
    <2>5. /\ truth'[b.id].pcs[b.pc].count > 0
          /\ Going(k)' => OpcodeAt(truth'[b.id].code, b.pc) # "stop"
        BY <2>1, <2>3, <2>4
    <2> QED BY <2>5 DEF b, Executing
<1> QED BY <1>1, <1>2 DEF Placed

LEMMA SpendPlaced ==
    ASSUME IInv, Placed, NEW amount \in Charges, Spend(amount)
    PROVE  Placed'
<1> DEFINE n == Len(activations)
           id == Active.id
           b == [Active EXCEPT !.gas = @ - amount, !.busy = FALSE]
<1>1. /\ TypeOK /\ Stacked /\ Running /\ Active.busy /\ amount \in Nat
      /\ Executing(Active) # "stop"
      /\ activations' = SetActive(b) /\ truth' = Charged(truth, id, Active.pc, amount)
    BY DiagnosticsAssumption DEF IInv, Spend, Charges
<1>2. /\ n \in Nat \ {0} /\ DOMAIN activations = 1 .. n /\ Active = activations[n]
      /\ n = Len(activations)
      /\ Active \in ActivationType /\ id \in DOMAIN truth /\ Active.pc \in Pcs
      /\ truth \in Seq(TruthType) /\ activations \in Seq(ActivationType)
    BY <1>1, ActiveFacts DEF TypeOK
<1>3. b.id = Active.id /\ b.pc = Active.pc
    BY <1>2 DEF ActivationType
<1> HIDE DEF b
<1>4. /\ DOMAIN activations' = 1 .. n /\ Len(activations') = n /\ activations'[n] = b
      /\ \A k \in 1 .. n : k # n => activations'[k] = activations[k]
    BY <1>1, <1>2 DEF SetActive
<1> HIDE DEF n, id
<1>a. /\ n \in Nat \ {0} /\ DOMAIN activations = 1 .. n /\ n = Len(activations)
      /\ Active = activations[n] /\ DOMAIN activations' = 1 .. n
    BY <1>2, <1>4
<1>5. ASSUME NEW k \in DOMAIN activations'
      PROVE  Resumed(k)
    <2>1. CASE k = n
        <3>1. activations'[n].id = activations[n].id /\ activations'[n].pc = activations[n].pc
            BY <1>a, <1>3, <1>4
        <3>2. Executing(activations[n]) # "stop"
            BY <1>1, <1>a
        <3> QED BY <2>1, <3>1, <3>2 DEF Resumed
    <2>2. CASE k # n
        <3>0. k \in 1 .. n
            BY <1>a
        <3>3. k < n /\ k \in DOMAIN activations
            <4>1. n \in Nat /\ DOMAIN activations = 1 .. n
                BY <1>a
            <4> QED BY <2>2, <3>0, <4>1
        <3>1. k < n /\ k \in DOMAIN activations /\ activations'[k] = activations[k]
            BY <1>4, <2>2, <3>0, <3>3
        <3>2. activations[k].pc # NoPc => Executing(activations[k]) # "stop"
            BY <1>a, <3>1 DEF Placed, Going
        <3> QED BY <3>1, <3>2 DEF Resumed
    <2> QED BY <2>1, <2>2
<1>6. /\ DOMAIN truth' = DOMAIN truth /\ Kept(truth'[id], truth[id])
      /\ \A j \in DOMAIN truth \ {id} : truth'[j] = truth[j]
    <2> HIDE DEF id
    <2> QED BY <1>1, <1>2, Charging DEF Kept
<1>7. \A j \in DOMAIN truth : Kept(truth'[j], truth[j])
    BY <1>6 DEF Kept
<1>8. DOMAIN activations' \subseteq DOMAIN activations /\ DOMAIN truth' = DOMAIN truth
    BY <1>a, <1>6
<1> QED BY <1>5, <1>7, <1>8, PlacedKept

LEMMA EndPlaced ==
    ASSUME IInv, Placed, Running, Active.busy, NEW left \in 0 .. Active.gas,
           NEW status \in Statuses \ {"running"}, NEW deposit \in Nat,
           EndFrame(status, left, deposit)
    PROVE  Placed'
<1> DEFINE n == Len(activations)
           id == Active.id
<1>1. CASE n = 1
    <2> DEFINE t == Finished(Charged(truth, id, Active.pc, Active.gas - left), id, left, status)
    <2>1. activations' = << >> /\ truth' = t
        BY <1>1 DEF EndFrame, Finished
    <2>2. /\ DOMAIN t = DOMAIN truth /\ \A j \in DOMAIN truth \ {id} : t[j] = truth[j]
          /\ ChargedMore(t[id], truth[id], Active.pc, Active.gas - left)
        BY Ending
    <2> HIDE DEF t, id
    <2>3. \A j \in DOMAIN truth : Kept(t[j], truth[j])
        BY <2>2 DEF Kept, ChargedMore
    <2>4. DOMAIN activations' = {}
        BY <2>1
    <2> QED BY <2>1, <2>2, <2>3, <2>4, PlacedKept
<1>2. CASE n # 1
    <2> DEFINE m == n - 1
               caller == activations[m]
               cid == caller.id
    <2>1. /\ m \in Nat \ {0} /\ DOMAIN activations = 1 .. (m + 1) /\ n = m + 1
          /\ Len(activations') = m /\ DOMAIN activations' = 1 .. m
          /\ \A k \in 1 .. (m - 1) : activations'[k] = activations[k]
          /\ activations'[m].id = cid /\ activations'[m].pc = caller.pc
          /\ DOMAIN truth' = DOMAIN truth
          /\ \A j \in DOMAIN truth \ {id, cid} : truth'[j] = truth[j]
          /\ ChargedMore(truth'[id], truth[id], Active.pc, Active.gas - left)
          /\ ChargedMore(truth'[cid], truth[cid], caller.pc, deposit)
        <3>1. n \in Nat \ {0} /\ DOMAIN activations = 1 .. n
            BY ActiveFacts DEF IInv
        <3>2. n = m + 1
            BY <3>1
        <3> QED BY <1>2, <3>2, EndStack
    <2>2. \A j \in DOMAIN truth : Kept(truth'[j], truth[j])
        <3> HIDE DEF n, m, id, cid, caller
        <3> SUFFICES ASSUME NEW j \in DOMAIN truth
                     PROVE  Kept(truth'[j], truth[j])
            OBVIOUS
        <3>1. CASE j = id
            BY <2>1, <3>1 DEF Kept, ChargedMore
        <3>2. CASE j = cid
            BY <2>1, <3>2 DEF Kept, ChargedMore
        <3>3. CASE j \notin {id, cid}
            BY <2>1, <3>3 DEF Kept
        <3> QED BY <3>1, <3>2, <3>3
    <2>3. ASSUME NEW k \in DOMAIN activations'
          PROVE  Resumed(k)
        <3>1. k \in DOMAIN activations /\ k < Len(activations)
            BY <2>1, <2>3
        <3>2. activations[k].pc # NoPc => Executing(activations[k]) # "stop"
            BY <3>1 DEF Placed, Going
        <3>3. CASE k = m
            BY <2>1, <3>2, <3>3 DEF Resumed
        <3>4. CASE k # m
            <4>1. k \in 1 .. (m - 1)
                BY <2>1, <2>3, <3>4
            <4> QED BY <2>1, <3>2, <4>1 DEF Resumed
        <3> QED BY <3>3, <3>4
    <2>4. DOMAIN activations' \subseteq DOMAIN activations
        BY <2>1
    <2> HIDE DEF m, n, id
    <2> QED BY <2>1, <2>2, <2>3, <2>4, PlacedKept
<1> QED BY <1>1, <1>2

LEMMA VisitPlaced ==
    ASSUME IInv, Placed, NEW pc \in Pcs, Visit(pc)
    PROVE  Placed'
<1> DEFINE n == Len(activations)
           id == Active.id
           b == [Active EXCEPT !.pc = pc, !.busy = TRUE]
<1>1. /\ TypeOK /\ Stacked /\ Running /\ ~Active.busy /\ pc \in NextPcs(truth[id].code, Active.pc)
      /\ activations' = SetActive(b) /\ truth' = Counted(truth, id, pc)
    BY DEF IInv, Visit, Counted
<1>2. /\ n \in Nat \ {0} /\ DOMAIN activations = 1 .. n /\ Active = activations[n]
      /\ n = Len(activations)
    BY <1>1, ActiveFacts
<1>3. /\ Active \in ActivationType /\ id \in DOMAIN truth /\ Active.pc \in Pcs \cup {NoPc}
      /\ truth \in Seq(TruthType) /\ activations \in Seq(ActivationType)
      /\ \A k \in DOMAIN activations : k # n => activations[k].id # id
      /\ \A k \in DOMAIN activations : activations[k].id \in DOMAIN truth
    BY <1>1, ActiveFacts DEF TypeOK, ActivationType
<1>4. b.id = id /\ b.pc = pc /\ b.busy
    BY <1>3 DEF ActivationType
<1> HIDE DEF b
<1>5. /\ DOMAIN activations' = 1 .. n /\ Len(activations') = n /\ activations'[n] = b
      /\ \A k \in 1 .. n : k # n => activations'[k] = activations[k]
    BY <1>1, <1>2, <1>3 DEF SetActive
<1>6. /\ DOMAIN truth' = DOMAIN truth
      /\ \A j \in DOMAIN truth \ {id} : truth'[j] = truth[j]
      /\ truth'[id].code = truth[id].code
      /\ \A p \in Pcs \ {pc} : truth'[id].pcs[p].count = truth[id].pcs[p].count
      /\ truth'[id].pcs[pc].count = truth[id].pcs[pc].count + 1
    <2> HIDE DEF id
    <2> QED BY <1>1, <1>3, Visiting
<1> HIDE DEF n, id
<1>7. truth[id].code \in Codes /\ truth[id].pcs \in Counters
    <2>1. truth[id] \in TruthType
        BY <1>3
    <2> QED BY <2>1 DEF TruthType, Counters
<1>8. truth'[id].pcs[pc].count > 0
    BY <1>6, <1>7 DEF Counters
<1>9. Boundary(truth[id].code, pc)
    <2>1. ASSUME Active.pc # NoPc
          PROVE  /\ Boundary(truth[id].code, Active.pc)
                 /\ OpcodeAt(truth[id].code, Active.pc) # "stop"
        <3>1. n \in DOMAIN activations /\ ~activations[n].busy /\ activations[n].pc # NoPc
            BY <1>1, <1>2, <2>1
        <3>2. /\ truth[activations[n].id].pcs[activations[n].pc].count > 0
              /\ Executing(activations[n]) # "stop"
            BY <3>1 DEF Placed, Going
        <3>3. /\ truth[id].pcs[Active.pc].count > 0 /\ OpcodeAt(truth[id].code, Active.pc) # "stop"
            BY <1>2, <3>2 DEF Executing, id
        <3>4. Active.pc \in Pcs
            BY <1>3, <2>1
        <3> QED BY <1>3, <3>3, <3>4 DEF Placed
    <2> DEFINE code == truth[id].code
               a == Active.pc
    <2>2. /\ code \in Codes /\ a \in Pcs \cup {NoPc} /\ pc \in NextPcs(code, a)
          /\ a # NoPc => Boundary(code, a) /\ OpcodeAt(code, a) # "stop"
        BY <1>1, <1>3, <1>7, <2>1
    <2> HIDE DEF code, a
    <2>3. Boundary(code, pc)
        BY <2>2, NextBoundary
    <2> QED BY <2>3 DEF code
<1>10. ASSUME NEW j \in DOMAIN truth', NEW p \in Pcs, truth'[j].pcs[p].count > 0
       PROVE  Boundary(truth'[j].code, p)
    <2>1. CASE j # id
        <3>1. truth'[j] = truth[j] /\ j \in DOMAIN truth
            BY <1>6, <2>1
        <3> QED BY <1>10, <3>1 DEF Placed
    <2>2. CASE j = id /\ p = pc
        BY <1>6, <1>9, <2>2
    <2>3. CASE j = id /\ p # pc
        <3>1. truth[id].pcs[p].count > 0
            BY <1>6, <1>10, <2>3
        <3>2. Boundary(truth[id].code, p)
            BY <1>3, <3>1 DEF Placed
        <3> QED BY <1>6, <2>3, <3>2
    <2> QED BY <2>1, <2>2, <2>3
<1>11. ASSUME NEW k \in DOMAIN activations', activations'[k].pc # NoPc
       PROVE  /\ truth'[activations'[k].id].pcs[activations'[k].pc].count > 0
              /\ Going(k)' => Executing(activations[k])' # "stop"
    <2>1. CASE k = n
        <3>1. activations'[k].id = id /\ activations'[k].pc = pc /\ activations'[k].busy
            BY <1>4, <1>5, <2>1
        <3>2. ~Going(k)'
            <4>1. ~ (n < n)
                BY <1>2
            <4> QED BY <1>5, <2>1, <3>1, <4>1 DEF Going
        <3> QED BY <1>8, <3>1, <3>2
    <2>2. CASE k # n
        <3>0. k \in 1 .. n
            BY <1>5
        <3>1. k < n /\ k \in DOMAIN activations
            <4>1. n \in Nat /\ DOMAIN activations = 1 .. n
                BY <1>2
            <4> QED BY <2>2, <3>0, <4>1
        <3>2. activations'[k] = activations[k] /\ activations[k].id # id
              /\ activations[k].id \in DOMAIN truth
            BY <1>3, <1>5, <2>2, <3>0, <3>1
        <3>3. truth'[activations[k].id] = truth[activations[k].id]
            BY <1>6, <3>2
        <3>4. /\ truth[activations[k].id].pcs[activations[k].pc].count > 0
              /\ Executing(activations[k]) # "stop"
            BY <1>2, <1>11, <3>1, <3>2 DEF Placed, Going
        <3> QED BY <3>2, <3>3, <3>4 DEF Executing
    <2> QED BY <2>1, <2>2
<1> QED BY <1>10, <1>11 DEF Placed

LEMMA CallPlaced ==
    ASSUME IInv, Placed, NEW code \in Codes, NEW amount \in Charges, NEW stipend \in Charges,
           NEW forwarded \in 0 .. GasLimit, Call(code, amount, forwarded, stipend)
    PROVE  Placed'
<1> DEFINE n == Len(activations)
           id == Active.id
           L == Len(truth) + 1
           supplied == forwarded + stipend
<1>1. /\ TypeOK /\ Stacked /\ Running /\ Active.busy /\ Executing(Active) # "stop"
    BY DEF IInv, Call
<1>2. CallEffect(code, amount, stipend, forwarded)
    BY <1>1, CallStack
<1>3. /\ n \in Nat \ {0} /\ DOMAIN activations = 1 .. n /\ Active = activations[n]
      /\ n = Len(activations)
      /\ id \in DOMAIN truth
      /\ \A k \in DOMAIN activations : k # n => activations[k].id # id
      /\ \A k \in DOMAIN activations : activations[k].id \in DOMAIN truth
    BY <1>1, ActiveFacts
<1>4. /\ DOMAIN activations' = 1 .. (n + 1) /\ Len(activations') = n + 1
      /\ \A k \in 1 .. (n - 1) : activations'[k] = activations[k]
      /\ activations'[n].pc = Active.pc /\ activations'[n].id = id
      /\ activations'[n + 1] = Activation(L, supplied)
      /\ DOMAIN truth' = DOMAIN truth \cup {L} /\ L \notin DOMAIN truth
      /\ \A j \in DOMAIN truth \ {id} : truth'[j] = truth[j]
      /\ truth'[L] = NewTruth(id, code, supplied)
    <2>1. L \notin DOMAIN truth
        BY <1>1 DEF TypeOK
    <2> QED BY <1>2, <2>1 DEF CallEffect
<1>5. Kept(truth'[id], truth[id])
    BY <1>2 DEF CallEffect, ChargedMore, Kept
<1> HIDE DEF n, id, L, supplied
<1>6. \A j \in DOMAIN truth : Kept(truth'[j], truth[j])
    BY <1>4, <1>5 DEF Kept
<1>7. activations'[n + 1].pc = NoPc /\ \A p \in Pcs : truth'[L].pcs[p].count = 0
    BY <1>4 DEF Activation, NewTruth, NoCounter
<1>8. ASSUME NEW j \in DOMAIN truth', NEW p \in Pcs, truth'[j].pcs[p].count > 0
      PROVE  Boundary(truth'[j].code, p)
    <2>1. j # L
        BY <1>7, <1>8
    <2>2. j \in DOMAIN truth /\ truth'[j].code = truth[j].code
          /\ truth[j].pcs[p].count > 0
        BY <1>4, <1>6, <1>8, <2>1 DEF Kept
    <2> QED BY <2>2 DEF Placed
<1>9. ASSUME NEW k \in DOMAIN activations', activations'[k].pc # NoPc
      PROVE  /\ truth'[activations'[k].id].pcs[activations'[k].pc].count > 0
             /\ Executing(activations[k])' # "stop"
    <2>1. k \in 1 .. n /\ k # n + 1
        <3>1. n \in Nat /\ k \in 1 .. (n + 1) /\ k # n + 1
            BY <1>3, <1>4, <1>7, <1>9
        <3> QED BY <3>1
    <2> DEFINE a == activations[k]
               c == activations'[k]
    <2>2. /\ a.id \in DOMAIN truth /\ c.id = a.id /\ c.pc = a.pc /\ a.pc # NoPc
          /\ a \in ActivationType
        <3>1. k \in DOMAIN activations /\ a \in ActivationType
            BY <1>1, <1>3, <2>1 DEF TypeOK
        <3>2. CASE k = n
            BY <1>3, <1>4, <1>9, <3>1, <3>2 DEF id
        <3>3. CASE k # n
            <4>1. k \in 1 .. (n - 1)
                <5>1. n \in Nat
                    BY <1>3
                <5> QED BY <2>1, <3>3, <5>1
            <4> QED BY <1>3, <1>4, <1>9, <3>1, <4>1
        <3> QED BY <3>2, <3>3
    <2>3. truth[a.id].pcs[a.pc].count > 0 /\ Executing(a) # "stop"
        <3>1. k \in DOMAIN activations
            BY <1>3, <2>1
        <3>2. CASE k = n
            BY <1>1, <1>3, <2>2, <3>1, <3>2 DEF Placed
        <3>3. CASE k # n
            <4>1. Going(k)
                <5>1. n \in Nat /\ n = Len(activations)
                    BY <1>3
                <5> QED BY <2>1, <3>3, <5>1 DEF Going
            <4> QED BY <2>2, <3>1, <4>1 DEF Placed
        <3> QED BY <3>2, <3>3
    <2>4. a.pc \in Pcs
        BY <2>2 DEF ActivationType
    <2> HIDE DEF a, c
    <2>5. truth'[a.id].code = truth[a.id].code /\ truth'[a.id].pcs[a.pc].count > 0
        BY <1>6, <2>2, <2>3, <2>4 DEF Kept
    <2>6. truth'[c.id].pcs[c.pc].count > 0 /\ OpcodeAt(truth'[c.id].code, c.pc) # "stop"
        BY <2>2, <2>3, <2>5 DEF Executing
    <2> QED BY <2>6 DEF c, Executing
<1> QED BY <1>8, <1>9 DEF Placed

LEMMA BeginPlaced ==
    ASSUME NEW code \in Codes, BeginBytecode(code)
    PROVE  Placed'
<1> DEFINE t == NewTruth(0, code, GasLimit)
           a == Activation(1, GasLimit)
<1>1. /\ \A p \in Pcs : t.pcs[p].count = 0
      /\ a.pc = NoPc
    BY DEF NewTruth, NoCounter, Activation
<1>2. truth' = <<t>> /\ activations' = <<a>>
    BY DEF BeginBytecode
<1> HIDE DEF t, a
<1>3. /\ \A id \in DOMAIN truth' : truth'[id] = t
      /\ \A k \in DOMAIN activations' : activations'[k] = a
    <2>1. \A x : \A i \in DOMAIN <<x>> : <<x>>[i] = x
        OBVIOUS
    <2> QED BY <1>2, <2>1, Zenon
<1>4. \A id \in DOMAIN truth', pc \in Pcs : ~ (truth'[id].pcs[pc].count > 0)
    BY <1>1, <1>3
<1>5. \A k \in DOMAIN activations' : activations'[k].pc = NoPc
    BY <1>1, <1>3
<1> QED BY <1>4, <1>5 DEF Placed

LEMMA PlacedStep == ASSUME IInv, Placed, [Next]_vars PROVE Placed'
<1>1. CASE \E pc \in Pcs : Visit(pc)
    BY <1>1, VisitPlaced
<1>2. CASE \E amount \in Charges : Spend(amount)
    BY <1>2, SpendPlaced
<1>3. CASE \E code \in Codes, amount, stipend \in Charges, forwarded \in 0 .. GasLimit :
             Call(code, amount, forwarded, stipend)
    BY <1>3, CallPlaced
<1>4. ASSUME NEW status \in {"success", "revert"}, NEW amount \in Charges, NEW deposit \in Charges,
             Stop(status, amount, deposit)
      PROVE  Placed'
    <2> DEFINE left == Active.gas - amount
    <2>1. /\ Running /\ Active.busy /\ amount <= Active.gas /\ EndFrame(status, left, deposit)
          /\ status \in Statuses \ {"running"} /\ amount \in Nat /\ deposit \in Nat
        BY <1>4, DiagnosticsAssumption DEF Stop, Statuses, Charges
    <2>2. Active.gas \in Nat
        BY <2>1, ActiveFacts DEF IInv, ActivationType
    <2>3. left \in 0 .. Active.gas
        BY <2>1, <2>2
    <2> HIDE DEF left
    <2> QED BY <2>1, <2>3, EndPlaced
<1>5. CASE Fault
    <2>1. Running /\ Active.busy /\ EndFrame("error", 0, 0) /\ "error" \in Statuses \ {"running"}
        BY <1>5 DEF Fault, Statuses
    <2>2. Active.gas \in Nat
        BY <2>1, ActiveFacts DEF IInv, ActivationType
    <2>3. 0 \in 0 .. Active.gas /\ 0 \in Nat
        BY <2>2
    <2> QED BY <2>1, <2>3, EndPlaced
<1>6. CASE \E code \in Codes : BeginBytecode(code)
    BY <1>6, BeginPlaced
<1>7. CASE BeginPrecompile
    <2>1. DOMAIN activations' = {} /\ DOMAIN truth' = {}
        BY <1>7 DEF BeginPrecompile
    <2> QED BY <2>1 DEF Placed
<1>8. CASE CaseFails \/ Finish \/ Publish \/ UNCHANGED vars
    <2>1. activations' = activations /\ truth' = truth
        BY <1>8 DEF CaseFails, Finish, Publish, vars, machine
    <2> QED BY <2>1 DEF Placed, Going, Executing
<1> QED BY <1>1, <1>2, <1>3, <1>4, <1>5, <1>6, <1>7, <1>8 DEF Next, Interpreter

-----------------------------------------------------------------------------
(* The code of a frame is among the codes of the report.                   *)

CodesKnown(col) ==
  /\ \A hash \in DOMAIN col.codes : hash = Keccak(col.codes[hash])
  /\ \A i \in DOMAIN col.frames : col.frames[i].code \in DOMAIN col.codes

SameCodes(new, col) ==
  /\ new.codes = col.codes /\ DOMAIN new.frames = DOMAIN col.frames
  /\ \A i \in DOMAIN col.frames : new.frames[i].code = col.frames[i].code

LEMMA KnownSame ==
    ASSUME NEW col, NEW new, CodesKnown(col), SameCodes(new, col)
    PROVE  CodesKnown(new)
BY DEF CodesKnown, SameCodes

LEMMA FailedSame == ASSUME NEW col \in CollectorType PROVE SameCodes(Failed(col), col)
<1> DEFINE new == Failed(col)
<1>1. new.codes = col.codes /\ new.frames = col.frames
    BY DEF Failed, CollectorType
<1> HIDE DEF new
<1> QED BY <1>1 DEF SameCodes, new

LEMMA EnterKnows ==
    ASSUME NEW col \in CollectorType, CodesKnown(col), NEW code \in Codes, NEW depth, NEW supplied
    PROVE  CodesKnown(Enter(col, code, depth, supplied))
<1> DEFINE parent == IF col.stack = << >> THEN 0 ELSE Top(col)
           caller == col.frames[parent]
           creation == parent # 0 /\ caller.opcodes[caller.pendingPc] = "create"
           f == Frame(parent, depth, Keccak(code), creation, supplied)
           new == Entered(col, code, depth, supplied)
<1>1. CodesKnown(new)
    <2>1. f.code = Keccak(code)
        BY DEF Frame
    <2> HIDE DEF f, creation, caller, parent
    <2>2. /\ new.frames = Append(col.frames, f) /\ new.codes = Learned(col.codes, code)
          /\ col.frames \in Seq(Frames)
        BY DEF Entered, CollectorType, f, creation, caller, parent
    <2>3. /\ DOMAIN new.codes = DOMAIN col.codes \cup {Keccak(code)}
          /\ \A hash \in DOMAIN col.codes : new.codes[hash] = col.codes[hash]
          /\ Keccak(code) \notin DOMAIN col.codes => new.codes[Keccak(code)] = code
        BY <2>2 DEF Learned
    <2> HIDE DEF new
    <2>4. \A i \in DOMAIN new.frames :
            IF i \in DOMAIN col.frames THEN new.frames[i] = col.frames[i] ELSE new.frames[i] = f
        <3> DEFINE F == col.frames
                   n == Len(F)
        <3>1. /\ n \in Nat /\ DOMAIN F = 1 .. n /\ DOMAIN Append(F, f) = 1 .. (n + 1)
              /\ Append(F, f)[n + 1] = f /\ \A i \in 1 .. n : Append(F, f)[i] = F[i]
            <4> HIDE DEF F
            <4>1. F \in Seq(Frames)
                BY <2>2 DEF F
            <4> HIDE DEF Frames
            <4> QED BY <4>1
        <3> HIDE DEF F, n
        <3>2. \A i \in 1 .. (n + 1) : i \in 1 .. n \/ i = n + 1
            BY <3>1
        <3> QED BY <2>2, <3>1, <3>2 DEF F
    <2>5. \A i \in DOMAIN new.frames : new.frames[i].code \in DOMAIN new.codes
        BY <2>1, <2>3, <2>4 DEF CodesKnown
    <2>6. \A hash \in DOMAIN new.codes : hash = Keccak(new.codes[hash])
        BY <2>3 DEF CodesKnown
    <2> QED BY <2>5, <2>6 DEF CodesKnown
<1>2. CodesKnown(Failed(col))
    BY FailedSame, KnownSame
<1> HIDE DEF new
<1> QED BY <1>1, <1>2 DEF Enter, new

LEMMA StepKnows ==
    ASSUME NEW col \in CollectorType, CodesKnown(col),
           NEW pc \in Pcs, NEW opcode \in Opcodes, NEW left \in Nat
    PROVE  CodesKnown(Step(col, pc, opcode, left))
<1> DEFINE f == col.frames[Top(col)]
           g == [Settle(f, left) EXCEPT !.pendingPc = pc, !.pendingGas = left,
                                        !.pcs[pc].count = @ + 1, !.opcodes[pc] = opcode]
           new == [col EXCEPT !.steps = @ + 1, !.frames[Top(col)] = g]
<1>1. CodesKnown(new)
    <2>1. f \in Frames => g.code = f.code
        BY DEF Settle, Frames
    <2> HIDE DEF f, g
    <2>2. new.codes = col.codes /\ new.frames = [col.frames EXCEPT ![Top(col)] = g]
          /\ col.frames \in Seq(Frames)
        BY DEF CollectorType
    <2> HIDE DEF new
    <2>3. \A i \in DOMAIN col.frames : col.frames[i] \in Frames
        <3> HIDE DEF Frames
        <3> QED BY <2>2
    <2>4. SameCodes(new, col)
        BY <2>1, <2>2, <2>3 DEF SameCodes, f
    <2> QED BY <2>4, KnownSame
<1>2. CodesKnown(Failed(col))
    BY FailedSame, KnownSame
<1>3. Step(col, pc, opcode, left) \in {col, Failed(col), new}
    BY DEF Step
<1> HIDE DEF new
<1> QED BY <1>1, <1>2, <1>3

LEMMA LeaveKnows ==
    ASSUME NEW col \in CollectorType, CodesKnown(col), NEW status, NEW left \in Nat
    PROVE  CodesKnown(Leave(col, status, left))
<1> DEFINE f == col.frames[Top(col)]
           used == f.supplied - left
           done == [Settle(f, left) EXCEPT !.used = used, !.status = status]
           F == [i \in DOMAIN col.frames |->
                   IF i = Top(col) THEN done
                   ELSE IF i = f.parent THEN AddChild(col.frames[i], used)
                   ELSE col.frames[i]]
           new == [col EXCEPT !.stack = Front(@), !.frames = F]
<1>1. CodesKnown(new)
    <2>1. f \in Frames => done.code = f.code
        BY DEF Settle, Frames
    <2>2. \A g \in Frames : AddChild(g, used).code = g.code
        BY DEF AddChild, Frames
    <2>3. \A i \in DOMAIN col.frames : col.frames[i] \in Frames
        <3>1. col.frames \in Seq(Frames)
            BY DEF CollectorType
        <3> HIDE DEF Frames
        <3> QED BY <3>1
    <2> HIDE DEF done, used
    <2>4. DOMAIN F = DOMAIN col.frames /\ \A i \in DOMAIN col.frames : F[i].code = col.frames[i].code
        BY <2>1, <2>2, <2>3
    <2> HIDE DEF F, f
    <2>5. new.codes = col.codes /\ new.frames = F
        BY DEF CollectorType
    <2> HIDE DEF new
    <2>6. SameCodes(new, col)
        BY <2>4, <2>5 DEF SameCodes
    <2> QED BY <2>6, KnownSame
<1>2. CodesKnown(Failed(col))
    BY FailedSame, KnownSame
<1>3. Leave(col, status, left) \in {col, Failed(col), new}
    BY DEF Leave
<1> HIDE DEF new
<1> QED BY <1>1, <1>2, <1>3

LEMMA NewKnows == CodesKnown(NewCollector)
<1> DEFINE c == NewCollector
<1>1. DOMAIN c.codes = {} /\ DOMAIN c.frames = {}
    BY DEF NewCollector
<1> HIDE DEF c
<1>2. CodesKnown(c)
    BY <1>1 DEF CodesKnown
<1> QED BY <1>2 DEF c

LEMMA KnownStep == ASSUME IInv, CodesKnown(collector), [Next]_vars PROVE CodesKnown(collector)'
<1>1. collector \in CollectorType
    BY DEF IInv, TypeOK
<1>2. ASSUME NEW pc \in Pcs, Visit(pc) PROVE CodesKnown(collector)'
    <2> DEFINE opcode == OpcodeAt(truth[Active.id].code, pc)
    <2>1. Running /\ collector' = Step(collector, pc, opcode, Active.gas)
        BY <1>2 DEF Visit
    <2>2. Active.gas \in Nat /\ truth[Active.id] \in TruthType /\ pc \in Nat
        BY <2>1, ActiveFacts, DiagnosticsAssumption DEF IInv, ActivationType
    <2>3. opcode \in Opcodes
        BY <2>2, OpcodeTyped DEF TruthType
    <2> HIDE DEF opcode
    <2> QED BY <1>1, <2>1, <2>2, <2>3, StepKnows
<1>3. CASE \E code \in Codes, amount, stipend \in Charges, forwarded \in 0 .. GasLimit :
             Call(code, amount, forwarded, stipend)
    <2>1. PICK code, depth, supplied :
            code \in Codes /\ collector' = Enter(collector, code, depth, supplied)
        BY <1>3 DEF Call
    <2> QED BY <1>1, <2>1, EnterKnows
<1>4. ASSUME NEW status, NEW left \in Nat, NEW deposit, EndFrame(status, left, deposit)
      PROVE  CodesKnown(collector)'
    <2>1. collector' = Leave(collector, status, left)
        BY <1>4 DEF EndFrame
    <2> QED BY <1>1, <2>1, LeaveKnows
<1>5. ASSUME NEW status \in {"success", "revert"}, NEW amount \in Charges, NEW deposit \in Charges,
             Stop(status, amount, deposit)
      PROVE  CodesKnown(collector)'
    <2>1. /\ Running /\ amount <= Active.gas /\ EndFrame(status, Active.gas - amount, deposit)
          /\ amount \in Nat
        BY <1>5, DiagnosticsAssumption DEF Stop, Charges
    <2>2. Active.gas \in Nat
        BY <2>1, ActiveFacts DEF IInv, ActivationType
    <2>3. Active.gas - amount \in Nat
        BY <2>1, <2>2
    <2> QED BY <1>4, <2>1, <2>3
<1>6. CASE Fault
    BY <1>4, <1>6 DEF Fault
<1>7. CASE \E code \in Codes : BeginBytecode(code)
    <2>1. PICK code \in Codes : collector' = Enter(NewCollector, code, 0, GasLimit)
        BY <1>7 DEF BeginBytecode, DiagnosticBegin
    <2>2. NewCollector \in CollectorType
        BY NewCollectorType
    <2> QED BY <2>1, <2>2, NewKnows, EnterKnows
<1>8. CASE BeginPrecompile
    BY <1>8, NewKnows DEF BeginPrecompile, DiagnosticBegin
<1>9. CASE Finish
    <2> DEFINE new == [collector EXCEPT !.active = FALSE]
    <2>1. new.codes = collector.codes /\ new.frames = collector.frames /\ collector' = new
        BY <1>1, <1>9 DEF Finish, CollectorType
    <2> HIDE DEF new
    <2> QED BY <2>1 DEF CodesKnown
<1>10. CASE (\E amount \in Charges : Spend(amount)) \/ CaseFails \/ Publish \/ UNCHANGED vars
    <2>1. collector' = collector
        BY <1>10 DEF Spend, CaseFails, Publish, vars
    <2> QED BY <2>1
<1> QED BY <1>2, <1>3, <1>5, <1>6, <1>7, <1>8, <1>9, <1>10 DEF Next, Interpreter

\* In every reachable state each opcode visited stood at a boundary of its code, and the
\* collector holds the code of every frame.
LEMMA Accountable == Spec => [](IInv /\ Placed /\ CodesKnown(collector))
<1>1. Init => Placed /\ CodesKnown(collector)
    <2> SUFFICES ASSUME Init PROVE Placed /\ CodesKnown(collector)
        OBVIOUS
    <2>1. DOMAIN truth = {} /\ DOMAIN activations = {}
        BY DEF Init
    <2>2. collector.codes = NewCollector.codes /\ collector.frames = NewCollector.frames
        BY DEF Init, NewCollector
    <2>3. CodesKnown(collector)
        BY <2>2, NewKnows DEF CodesKnown
    <2> QED BY <2>1, <2>3 DEF Placed
<1>2. IInv /\ Placed /\ CodesKnown(collector) /\ [Next]_vars => (Placed /\ CodesKnown(collector))'
    BY PlacedStep, KnownStep
<1> QED BY <1>1, <1>2, InitIInv, NextIInv, PTL DEF Spec

-----------------------------------------------------------------------------
(* The report that the attribution reads.                                  *)

Entries(f) ==
  {[pc |-> p, opcode |-> f.opcodes[p], count |-> f.pcs[p].count, gas |-> f.pcs[p].gas] :
     p \in {q \in Pcs : f.pcs[q] # NoCounter}}

\* Leaving out the opcodes that were never visited leaves out no gas and no visit.
LEMMA Reported ==
    ASSUME NEW f \in Frames, \A p \in Pcs : f.pcs[p].count = 0 => f.pcs[p].gas = 0,
           NEW entries, entries = Entries(f), NEW g, g.pcs = ByPc(entries)
    PROVE  /\ SelfGas(g) = SelfGas(f) /\ Visited(g) = Visited(f)
           /\ \A e \in entries : /\ e.pc \in Pcs /\ e.opcode = f.opcodes[e.pc]
                                  /\ f.pcs[e.pc].count > 0 /\ e.count >= 1 /\ e.gas >= 0
           /\ \A d, e \in entries : d.pc = e.pc => d = e
<1> DEFINE T == {p \in Pcs : f.pcs[p] # NoCounter}
           entry(p) == [pc |-> p, opcode |-> f.opcodes[p], count |-> f.pcs[p].count,
                        gas |-> f.pcs[p].gas]
           gasOf == [p \in DOMAIN f.pcs |-> f.pcs[p].gas]
           countOf == [p \in DOMAIN f.pcs |-> f.pcs[p].count]
           gasIn == [p \in DOMAIN g.pcs |-> g.pcs[p].gas]
           countIn == [p \in DOMAIN g.pcs |-> g.pcs[p].count]
<1>1. /\ DOMAIN f.pcs = Pcs /\ IsFiniteSet(Pcs)
      /\ \A p \in Pcs : /\ f.pcs[p].count \in Nat /\ f.pcs[p].gas \in Nat
                        /\ f.pcs[p] = [count |-> f.pcs[p].count, gas |-> f.pcs[p].gas]
    BY DiagnosticsAssumption DEF Frames
<1>e. /\ entries = {entry(p) : p \in T}
      /\ \A p \in T : /\ entry(p).pc = p /\ entry(p).opcode = f.opcodes[p]
                       /\ entry(p).count = f.pcs[p].count /\ entry(p).gas = f.pcs[p].gas
    BY DEF Entries
<1> HIDE DEF entry
<1>2. /\ DOMAIN g.pcs = T /\ T \subseteq Pcs
      /\ \A p \in T : g.pcs[p].count = f.pcs[p].count /\ g.pcs[p].gas = f.pcs[p].gas
    <2>1. {e.pc : e \in entries} = T
        BY <1>e
    <2>2. T \subseteq Pcs
        OBVIOUS
    <2> HIDE DEF T
    <2>3. ASSUME NEW p \in T PROVE (CHOOSE e \in entries : e.pc = p) = entry(p)
        <3>1. entry(p) \in entries /\ entry(p).pc = p
            BY <1>e
        <3>2. \A e \in entries : e.pc = p => e = entry(p)
            BY <1>e
        <3> QED BY <3>1, <3>2
    <2>4. DOMAIN g.pcs = T /\ \A p \in T : g.pcs[p] = entry(p)
        BY <2>1, <2>3 DEF ByPc
    <2> QED BY <1>e, <2>2, <2>4
<1>3. \A p \in Pcs \ T : f.pcs[p].count = 0 /\ f.pcs[p].gas = 0
    BY DEF NoCounter
<1>4. \A p \in T : f.pcs[p].count >= 1 /\ f.pcs[p].gas >= 0
    <2> SUFFICES ASSUME NEW p \in T PROVE f.pcs[p].count >= 1 /\ f.pcs[p].gas >= 0
        OBVIOUS
    <2>1. p \in Pcs /\ f.pcs[p] # NoCounter
        OBVIOUS
    <2>2. f.pcs[p].count # 0
        BY <1>1, <2>1 DEF NoCounter
    <2>3. f.pcs[p].count \in Nat /\ f.pcs[p].gas \in Nat
        BY <1>1, <2>1
    <2> QED BY <2>2, <2>3
<1>5. IsFiniteSet(T)
    BY <1>1, <1>2, FS_Subset
<1> HIDE DEF T
<1>a. \A e \in entries : /\ e.pc \in Pcs /\ e.opcode = f.opcodes[e.pc]
                          /\ f.pcs[e.pc].count > 0 /\ e.count >= 1 /\ e.gas >= 0
    <2> SUFFICES ASSUME NEW e \in entries
                 PROVE  /\ e.pc \in Pcs /\ e.opcode = f.opcodes[e.pc]
                        /\ f.pcs[e.pc].count > 0 /\ e.count >= 1 /\ e.gas >= 0
        OBVIOUS
    <2>1. PICK p \in T : e = entry(p)
        BY <1>e
    <2>2. p \in Pcs /\ f.pcs[p].count \in Nat /\ f.pcs[p].count >= 1 /\ f.pcs[p].gas >= 0
        BY <1>1, <1>2, <1>4
    <2> QED BY <1>e, <2>1, <2>2
<1>b. \A d, e \in entries : d.pc = e.pc => d = e
    BY <1>e
<1>6. /\ \A p \in Pcs : /\ gasOf[p] = f.pcs[p].gas /\ gasOf[p] \in Int
                        /\ countOf[p] = f.pcs[p].count /\ countOf[p] \in Int
      /\ \A p \in T : gasIn[p] = gasOf[p] /\ countIn[p] = countOf[p]
      /\ \A p \in Pcs \ T : gasOf[p] = 0 /\ countOf[p] = 0
      /\ DOMAIN gasOf = Pcs /\ DOMAIN countOf = Pcs /\ DOMAIN gasIn = T /\ DOMAIN countIn = T
    <2>1. \A p \in Pcs : /\ gasOf[p] = f.pcs[p].gas /\ gasOf[p] \in Int
                          /\ countOf[p] = f.pcs[p].count /\ countOf[p] \in Int
        <3>1. \A p \in Pcs : gasOf[p] = f.pcs[p].gas
            BY <1>1
        <3>2. \A p \in Pcs : countOf[p] = f.pcs[p].count
            BY <1>1
        <3> HIDE DEF gasOf, countOf
        <3>3. \A p \in Pcs : f.pcs[p].count \in Int /\ f.pcs[p].gas \in Int
            <4> SUFFICES ASSUME NEW p \in Pcs PROVE f.pcs[p].count \in Int /\ f.pcs[p].gas \in Int
                OBVIOUS
            <4>1. f.pcs[p].count \in Nat /\ f.pcs[p].gas \in Nat
                BY <1>1
            <4> QED BY <4>1
        <3> QED BY <3>1, <3>2, <3>3
    <2>2. \A p \in T : gasIn[p] = gasOf[p] /\ countIn[p] = countOf[p]
        BY <1>1, <1>2
    <2>3. \A p \in Pcs \ T : gasOf[p] = 0 /\ countOf[p] = 0
        BY <1>3, <2>1
    <2>4. DOMAIN gasOf = Pcs /\ DOMAIN countOf = Pcs /\ DOMAIN gasIn = T /\ DOMAIN countIn = T
        BY <1>1, <1>2
    <2> QED BY <2>1, <2>2, <2>3, <2>4
<1>7. SelfGas(g) = SelfGas(f)
    <2>1. SelfGas(f) = SumFunctionOnSet(gasOf, Pcs) /\ SelfGas(g) = SumFunctionOnSet(gasIn, T)
        BY <1>6 DEF SelfGas, SumFunction
    <2> HIDE DEF gasOf, gasIn
    <2>2. SumFunctionOnSet(gasOf, Pcs) = SumFunctionOnSet(gasOf, T)
        BY <1>1, <1>2, <1>6, SumSupport
    <2>3. SumFunctionOnSet(gasIn, T) = SumFunctionOnSet(gasOf, T)
        BY <1>5, <1>6, SumAgree
    <2> QED BY <2>1, <2>2, <2>3
<1>8. Visited(g) = Visited(f)
    <2>1. Visited(f) = SumFunctionOnSet(countOf, Pcs) /\ Visited(g) = SumFunctionOnSet(countIn, T)
        BY <1>6 DEF Visited, SumFunction
    <2> HIDE DEF countOf, countIn
    <2>2. SumFunctionOnSet(countOf, Pcs) = SumFunctionOnSet(countOf, T)
        BY <1>1, <1>2, <1>6, SumSupport
    <2>3. SumFunctionOnSet(countIn, T) = SumFunctionOnSet(countOf, T)
        BY <1>5, <1>6, SumAgree
    <2> QED BY <2>1, <2>2, <2>3
<1> QED BY <1>a, <1>b, <1>7, <1>8

\* The report of a case within the limits passes every check that the attribution
\* makes on the report alone: every code is under its hash, every opcode at a boundary
\* of its frame's code or the stop past its end, no position twice in a frame, and
\* frames, gas and steps fit together (diagnostics.cpp:169-222, report.py:46-142).
THEOREM Attributable == Spec => []ReportsAreAttributable
<1>1. IInv /\ Placed /\ CodesKnown(collector) => ReportsAreAttributable
    <2> SUFFICES ASSUME IInv, Placed, CodesKnown(collector), phase = "ended", ~collector.failed
                 PROVE  Attribute(CaseReport(collector, VerifiedGas))
        BY DEF ReportsAreAttributable, Throws
    <2> DEFINE F == collector.frames
               R == CaseReport(collector, VerifiedGas)
               G == R.frames
               H(i) == [pcs |-> ByPc(G[i].entries)]
    <2>1. /\ R.gasUsed = VerifiedGas /\ R.outside = VerifiedGas - Attributed(F) /\ R.steps = visits
          /\ DOMAIN G = DOMAIN F /\ R.codes = collector.codes
          /\ \A i \in DOMAIN F :
               /\ G[i].id = i /\ G[i].parent = F[i].parent /\ G[i].depth = F[i].depth
               /\ G[i].status = F[i].status /\ G[i].used = F[i].used
               /\ G[i].supplied = F[i].supplied /\ G[i].self = SelfGas(F[i])
               /\ G[i].code = F[i].code /\ G[i].kind \in {"creation", "runtime"}
               /\ G[i].entries = Entries(F[i])
        BY EndedCase DEF CaseReport, Entries
    <2>2. /\ F \in Seq(Frames) /\ DOMAIN F = DOMAIN truth /\ DOMAIN truth = 1 .. Len(truth)
          /\ Sums(F, visits)
          /\ \A i \in DOMAIN F : /\ F[i] \in Frames /\ truth[i] \in TruthType
                                 /\ Records(F[i], truth[i]) /\ Closed(F[i], truth[i])
                                 /\ F[i].parent = truth[i].parent /\ F[i].parent < i
                                 /\ F[i].parent # 0 => F[i].depth = F[F[i].parent].depth + 1
        BY EndedCase DEF Records
    <2>3. /\ Attributed(F) \in 0 .. VerifiedGas
          /\ \A i \in DOMAIN F : /\ SelfGas(F[i]) = F[i].used - F[i].childGas
                                 /\ F[i].childGas = ChildrenUsed(F, i)
        BY EndedGas DEF FrameReconciles
    <2>4. VerifiedGas \in Int
        BY EndedCase, DiagnosticsAssumption DEF VerifiedGas
    <2> HIDE DEF F, R
    <2>5. ASSUME NEW i \in DOMAIN F
          PROVE  /\ SelfGas(H(i)) = SelfGas(F[i]) /\ Visited(H(i)) = Visited(F[i])
                 /\ \A e \in G[i].entries :
                      /\ e.pc \in Pcs /\ e.opcode = F[i].opcodes[e.pc]
                      /\ F[i].pcs[e.pc].count > 0 /\ e.count >= 1 /\ e.gas >= 0
                 /\ \A d, e \in G[i].entries : d.pc = e.pc => d = e
        <3> DEFINE f == F[i]
                   g == H(i)
                   E == G[i].entries
        <3>1. /\ f \in Frames /\ \A p \in Pcs : f.pcs[p].count = 0 => f.pcs[p].gas = 0
              /\ E = Entries(f) /\ g.pcs = ByPc(E)
            BY <2>1, <2>2 DEF Records
        <3> HIDE DEF f, g, E
        <3>2. /\ SelfGas(g) = SelfGas(f) /\ Visited(g) = Visited(f)
              /\ \A e \in E : /\ e.pc \in Pcs /\ e.opcode = f.opcodes[e.pc]
                               /\ f.pcs[e.pc].count > 0 /\ e.count >= 1 /\ e.gas >= 0
              /\ \A d, e \in E : d.pc = e.pc => d = e
            BY <3>1, Reported
        <3> QED BY <3>2 DEF f, g, E
    <2>a. ASSUME NEW i \in DOMAIN F
          PROVE  /\ F[i].code \in DOMAIN R.codes
                 /\ \A e \in G[i].entries : EntryAccepted(R.codes[F[i].code], e)
        <3> DEFINE t == truth[i]
                   code == R.codes[F[i].code]
        <3>1. /\ F[i].code \in DOMAIN R.codes /\ F[i].code = Keccak(code)
            BY <2>1 DEF CodesKnown, F
        <3>2. F[i].code = Keccak(t.code)
            BY <2>2 DEF Records
        <3> HIDE DEF code, t
        <3>3. code = t.code
            BY <3>1, <3>2 DEF Keccak
        <3>4. ASSUME NEW e \in G[i].entries PROVE EntryAccepted(code, e)
            <4>1. /\ e.pc \in Pcs /\ e.opcode = F[i].opcodes[e.pc] /\ F[i].pcs[e.pc].count > 0
                  /\ e.count >= 1 /\ e.gas >= 0
                BY <2>5
            <4>2. t.pcs[e.pc].count > 0 /\ e.opcode = OpcodeAt(t.code, e.pc)
                BY <2>2, <4>1 DEF Records, t
            <4>3. Boundary(t.code, e.pc)
                BY <2>2, <4>1, <4>2 DEF Placed, t
            <4>4. CASE e.pc \in Instructions(code)
                BY <3>3, <4>1, <4>2, <4>4 DEF EntryAccepted
            <4>5. CASE e.pc = Terminal(code) /\ e.pc >= Len(code)
                <5>1. ~ (e.pc < Len(code))
                    <6>1. t.code \in Codes
                        BY <2>2 DEF t, TruthType
                    <6>2. e.pc \in Nat /\ Len(code) \in Nat
                        BY <3>3, <4>1, <6>1, Scanning, DiagnosticsAssumption
                    <6> QED BY <4>5, <6>2
                <5>2. e.opcode = "stop"
                    BY <3>3, <4>2, <5>1 DEF OpcodeAt
                <5> QED BY <4>1, <4>5, <5>2 DEF EntryAccepted
            <4> QED BY <3>3, <4>3, <4>4, <4>5 DEF Boundary
        <3> QED BY <3>1, <3>4 DEF code
    <2>6. ASSUME NEW i \in DOMAIN F PROVE FrameAccepted(R, i)
        <3>1. F[i].depth \in Nat /\ F[i].supplied \in Nat /\ F[i].parent \in Nat /\ F[i].pcs \in Counters
              /\ F[i].used \in Nat
            BY <2>2 DEF Frames, Counters
        <3>2. F[i].status \in {"success", "revert", "error"}
            BY <2>2 DEF Closed, Frames, Statuses
        <3>3. F[i].used \in 0 .. F[i].supplied
            <4>1. truth[i].left \in Nat /\ F[i].used = F[i].supplied - truth[i].left
                BY <2>2 DEF Closed, Records, TruthType
            <4> QED BY <3>1, <4>1
        <3>4. SelfGas(F[i]) \in Nat
            BY <3>1, SumsOfCounters
        <3>5. F[i].parent # 0 => G[i].depth = G[F[i].parent].depth + 1
            <4> SUFFICES ASSUME F[i].parent # 0 PROVE G[i].depth = G[F[i].parent].depth + 1
                OBVIOUS
            <4>1. F[i].parent \in DOMAIN F
                <5>1. i \in 1 .. Len(truth) /\ F[i].parent < i
                    BY <2>2
                <5> QED BY <2>2, <3>1, <5>1
            <4> QED BY <2>1, <2>2, <4>1
        <3>6. G[i].id = i /\ G[i].parent < i /\ (G[i].parent # 0 => G[i].depth = G[G[i].parent].depth + 1)
            BY <2>1, <2>2, <3>5
        <3>7. G[i].depth >= 0 /\ G[i].self >= 0 /\ SelfGas(H(i)) = G[i].self
            <4>1. G[i].depth \in Nat /\ G[i].self \in Nat
                BY <2>1, <3>1, <3>4
            <4>2. SelfGas(H(i)) = G[i].self
                BY <2>1, <2>5
            <4> QED BY <4>1, <4>2
        <3>8. /\ G[i].code \in DOMAIN R.codes /\ G[i].kind \in {"creation", "runtime"}
              /\ \A e \in G[i].entries : EntryAccepted(R.codes[G[i].code], e)
              /\ \A d, e \in G[i].entries : d.pc = e.pc => d = e
            BY <2>1, <2>5, <2>a
        <3>9. G[i].status \in {"success", "revert", "error"} /\ G[i].used \in 0 .. G[i].supplied
            BY <2>1, <3>2, <3>3
        <3> QED BY <3>6, <3>7, <3>8, <3>9 DEF FrameAccepted
    <2>7. ASSUME NEW i \in DOMAIN F PROVE G[i].used = G[i].self + ChildrenUsed(G, i)
        <3>1. ChildrenUsed(G, i) = ChildrenUsed(F, i)
            <4>1. Children(G, i) = Children(F, i)
                BY <2>1 DEF Children
            <4>2. [j \in DOMAIN G |-> G[j].used] = [j \in DOMAIN F |-> F[j].used]
                BY <2>1
            <4> QED BY <4>1, <4>2 DEF ChildrenUsed
        <3>2. F[i].used \in Nat /\ F[i].childGas \in Nat
            BY <2>2, FramesFinite
        <3>3. G[i].self = F[i].used - F[i].childGas /\ G[i].used = F[i].used
              /\ ChildrenUsed(G, i) = F[i].childGas
            BY <2>1, <2>3, <3>1
        <3> HIDE DEF G
        <3> QED BY <3>2, <3>3
    <2>8. R.steps = SumFunction([i \in DOMAIN G |-> Visited(H(i))])
        <3>1. [i \in DOMAIN G |-> Visited(H(i))] = VisitsOf(F)
            BY <2>1, <2>5 DEF VisitsOf
        <3> QED BY <2>1, <2>2, <3>1 DEF Sums
    <2>9. SumFunction([i \in DOMAIN G |-> G[i].self]) + R.outside = R.gasUsed
        <3>1. [i \in DOMAIN G |-> G[i].self] = [i \in DOMAIN F |-> SelfGas(F[i])]
            BY <2>1
        <3>2. SumFunction([i \in DOMAIN G |-> G[i].self]) = Attributed(F)
            BY <3>1 DEF Attributed
        <3>3. Attributed(F) \in Int
            BY <2>3, <2>4
        <3> HIDE DEF G
        <3> QED BY <2>1, <2>4, <3>2, <3>3
    <2>10. R.outside >= 0
        BY <2>1, <2>3, <2>4
    <2>11. \A hash \in DOMAIN R.codes : hash = Keccak(R.codes[hash])
        BY <2>1 DEF CodesKnown
    <2> QED BY <2>1, <2>6, <2>7, <2>8, <2>9, <2>10, <2>11 DEF Attribute, R
<1> QED BY <1>1, Accountable, PTL

==============================================================================
