--------------------------------- MODULE Sums ---------------------------------
(***************************************************************************)
(* What the models' sums over ids are (SumFunction of the community module *)
(* Functions, which folds + over the values of a function in an order it   *)
(* does not say): the facts the proofs about money rest on.                *)
(*                                                                         *)
(* They are inductions over finite sets.  Each is an argument about a      *)
(* smallest counterexample, which exists because strict inclusion is well  *)
(* founded on the finite subsets of a set.                                 *)
(***************************************************************************)
EXTENDS Functions, FiniteSetTheorems, WellFoundedInduction, TLAPS

\* g folds + over f, for every subset of S.
IsFold(f, S, g) ==
  g = [s \in SUBSET S |->
         IF s = {} THEN 0 ELSE LET x == CHOOSE x \in s : TRUE IN f[x] + g[s \ {x}]]

\* f has integer values on the finite set S.
Summable(f, S) == IsFiniteSet(S) /\ \A x \in S : f[x] \in Int

\* Of the subsets of a finite set that are counterexamples to something, one contains no other.
LEMMA SmallestSubset ==
  ASSUME NEW S, IsFiniteSet(S), NEW T, T \subseteq SUBSET S, T # {}
  PROVE  \E U \in T : \A V \in T : V \subseteq U => V = U
<1>1. T \subseteq FiniteSubsetsOf(S)
  BY FS_Subset DEF FiniteSubsetsOf
<1>2. PICK U \in T : \A V \in T : ~ (<<V, U>> \in StrictSubsetOrdering(S))
  BY <1>1, FS_StrictSubsetOrderingWellFounded, WFMin
<1>3. \A V \in T : V \subseteq U => V = U
  BY <1>2 DEF StrictSubsetOrdering
<1> QED BY <1>3

\* The equation of a fold, unfolded once.
LEMMA FoldStep ==
  ASSUME NEW f, NEW S, NEW g, IsFold(f, S, g), NEW s \in SUBSET S
  PROVE  g[s] = IF s = {} THEN 0 ELSE f[CHOOSE x \in s : TRUE] + g[s \ {CHOOSE x \in s : TRUE}]
BY Zenon DEF IsFold

LEMMA FoldOfNone == ASSUME NEW f, NEW S, NEW g, IsFold(f, S, g) PROVE g[{}] = 0
BY Zenon DEF IsFold

\* Two folds agree on a set on which the functions folded agree.
LEMMA FoldsAgree ==
  ASSUME NEW s, IsFiniteSet(s), NEW f, NEW A, NEW g, IsFold(f, A, g),
         NEW e, NEW B, NEW h, IsFold(e, B, h), s \subseteq A, s \subseteq B,
         \A x \in s : f[x] = e[x]
  PROVE  g[s] = h[s]
<1> DEFINE T == {t \in SUBSET s : g[t] # h[t]}
<1> SUFFICES ASSUME T # {} PROVE FALSE
  OBVIOUS
<1>1. PICK t \in T : \A v \in T : v \subseteq t => v = t
  <2>1. T \subseteq SUBSET s
    OBVIOUS
  <2> HIDE DEF T
  <2> QED BY <2>1, SmallestSubset
<1>2. t \in SUBSET A /\ t \in SUBSET B
  OBVIOUS
<1>3. t # {}
  <2>1. g[{}] = 0 /\ h[{}] = 0
    BY FoldOfNone
  <2> QED BY <2>1
<1> DEFINE x == CHOOSE y \in t : TRUE
<1>4. x \in t
  BY <1>3
<1>5. t \ {x} \notin T /\ t \ {x} \in SUBSET s
  BY <1>1, <1>4
<1>6. g[t \ {x}] = h[t \ {x}]
  BY <1>5
<1>7. f[x] = e[x]
  BY <1>4
<1>8. g[t] = f[x] + g[t \ {x}] /\ h[t] = e[x] + h[t \ {x}]
  BY <1>2, <1>3, FoldStep
<1> QED BY <1>6, <1>7, <1>8

LEMMA FoldExists ==
  ASSUME NEW f, NEW S, IsFiniteSet(S) PROVE \E g : IsFold(f, S, g)
<1> DEFINE Bad == {s \in SUBSET S : ~ \E g : IsFold(f, s, g)}
<1> SUFFICES ASSUME Bad # {} PROVE FALSE
  OBVIOUS
<1>1. PICK u \in Bad : \A v \in Bad : v \subseteq u => v = u
  <2>1. Bad \subseteq SUBSET S
    OBVIOUS
  <2> HIDE DEF Bad
  <2> QED BY <2>1, SmallestSubset
<1> DEFINE Of(s) == CHOOSE g : IsFold(f, s, g)
           First(s) == CHOOSE x \in s : TRUE
           h == [s \in SUBSET u |-> IF s = {} THEN 0 ELSE f[First(s)] + Of(s \ {First(s)})[s \ {First(s)}]]
<1>2. \A s \in SUBSET u : s # u => IsFold(f, s, Of(s))
  BY <1>1
<1>3. \A s \in SUBSET u : IsFiniteSet(s)
  BY FS_Subset
<1>4. ASSUME NEW s \in SUBSET u, s # u PROVE h[s] = Of(s)[s]
  <2>1. CASE s = {}
    BY <2>1, <1>2, <1>4, FoldStep
  <2>2. CASE s # {}
    <3>1. First(s) \in s
      BY <2>2
    <3> DEFINE r == s \ {First(s)}
    <3>2. r \in SUBSET u /\ r # u /\ r \subseteq s
      BY <1>4, <3>1
    <3>3. IsFold(f, r, Of(r)) /\ IsFold(f, s, Of(s))
      BY <1>2, <1>4, <3>2
    <3>4. Of(r)[r] = Of(s)[r]
      BY <1>3, <3>2, <3>3, FoldsAgree
    <3>5. Of(s)[s] = f[First(s)] + Of(s)[r]
      BY <3>3, <2>2, FoldStep
    <3> QED BY <3>4, <3>5, <2>2
  <2> QED BY <2>1, <2>2
<1>5. ASSUME NEW s \in SUBSET u, s # {} PROVE Of(s \ {First(s)})[s \ {First(s)}] = h[s \ {First(s)}]
  <2>1. First(s) \in s
    BY <1>5
  <2>2. s \ {First(s)} \in SUBSET u /\ s \ {First(s)} # u
    BY <2>1
  <2> QED BY <2>2, <1>4
<1>6. h = [s \in SUBSET u |-> IF s = {} THEN 0 ELSE f[First(s)] + h[s \ {First(s)}]]
  <2> HIDE DEF Of, First
  <2>1. \A s \in SUBSET u : h[s] = IF s = {} THEN 0 ELSE f[First(s)] + h[s \ {First(s)}]
    BY <1>5
  <2> QED BY <2>1
<1>7. IsFold(f, u, h)
  BY <1>6 DEF IsFold
<1> QED BY <1>7

\* A sum is the value of any fold that has the set among its subsets.
LEMMA SumIsFold ==
  ASSUME NEW f, NEW S, IsFiniteSet(S)
  PROVE  \E g : IsFold(f, S, g) /\ \A s \in SUBSET S : SumFunctionOnSet(f, s) = g[s]
<1>1. \A s \in SUBSET S : IsFiniteSet(s)
  BY FS_Subset
<1>2. PICK g : IsFold(f, S, g)
  BY FoldExists
<1>3. ASSUME NEW s \in SUBSET S PROVE SumFunctionOnSet(f, s) = g[s]
  <2> DEFINE h == CHOOSE h : IsFold(f, s, h)
  <2>1. SumFunctionOnSet(f, s) = h[s]
    BY DEF SumFunctionOnSet, FoldFunctionOnSet, MapThenFoldSet, IsFold
  <2>2. IsFold(f, s, h)
    BY <1>1, FoldExists
  <2> QED BY <1>1, <1>2, <2>1, <2>2, FoldsAgree
<1> QED BY <1>2, <1>3

-------------------------------------------------------------------------------
(* What a sum does, one element and then one set at a time *)

\* The sum over no id is 0.
LEMMA SumOfNone == ASSUME NEW f PROVE SumFunctionOnSet(f, {}) = 0
<1>1. IsFiniteSet({})
  BY FS_EmptySet
<1>2. PICK g : IsFold(f, {}, g) /\ \A s \in SUBSET {} : SumFunctionOnSet(f, s) = g[s]
  BY <1>1, SumIsFold
<1> QED BY <1>2, FoldOfNone

\* A sum looks at the values in its set only.
LEMMA SumOfSame ==
  ASSUME NEW S, IsFiniteSet(S), NEW f, NEW e, \A x \in S : f[x] = e[x]
  PROVE  SumFunctionOnSet(f, S) = SumFunctionOnSet(e, S)
<1>1. PICK g : IsFold(f, S, g) /\ \A s \in SUBSET S : SumFunctionOnSet(f, s) = g[s]
  BY SumIsFold
<1>2. PICK h : IsFold(e, S, h) /\ \A s \in SUBSET S : SumFunctionOnSet(e, s) = h[s]
  BY SumIsFold
<1>3. g[S] = h[S]
  BY <1>1, <1>2, FoldsAgree
<1> QED BY <1>1, <1>2, <1>3

\* In the order of the fold, the chosen element comes out first.
LEMMA SumOfChosen ==
  ASSUME NEW S, IsFiniteSet(S), S # {}, NEW f
  PROVE  \E x \in S : SumFunctionOnSet(f, S) = f[x] + SumFunctionOnSet(f, S \ {x})
<1>1. PICK g : IsFold(f, S, g) /\ \A s \in SUBSET S : SumFunctionOnSet(f, s) = g[s]
  BY SumIsFold
<1> DEFINE x == CHOOSE y \in S : TRUE
<1>2. x \in S
  OBVIOUS
<1>3. S \in SUBSET S /\ S \ {x} \in SUBSET S
  OBVIOUS
<1>4. IsFold(f, S, g)
  BY <1>1
<1>5. g[S] = f[x] + g[S \ {x}]
  <2>1. ASSUME NEW s \in SUBSET S, s = S
        PROVE  g[s] = f[CHOOSE y \in s : TRUE] + g[s \ {CHOOSE y \in s : TRUE}]
    BY <1>4, <2>1, FoldStep
  <2> QED BY <2>1, <1>3
<1> QED BY <1>1, <1>2, <1>3, <1>5

\* A sum of integers is one.
LEMMA SumIsInteger ==
  ASSUME NEW S, NEW f, Summable(f, S) PROVE SumFunctionOnSet(f, S) \in Int
<1> USE DEF Summable
<1> DEFINE T == {s \in SUBSET S : SumFunctionOnSet(f, s) \notin Int}
<1> SUFFICES ASSUME T # {} PROVE FALSE
  OBVIOUS
<1>1. PICK t \in T : \A v \in T : v \subseteq t => v = t
  <2>1. T \subseteq SUBSET S
    OBVIOUS
  <2> HIDE DEF T
  <2> QED BY <2>1, SmallestSubset
<1>2. IsFiniteSet(t) /\ t # {}
  <2>1. SumFunctionOnSet(f, {}) \in Int
    BY SumOfNone
  <2>2. IsFiniteSet(t)
    BY FS_Subset
  <2> QED BY <2>1, <2>2
<1>3. PICK x \in t : SumFunctionOnSet(f, t) = f[x] + SumFunctionOnSet(f, t \ {x})
  BY <1>2, SumOfChosen
<1>4. t \ {x} \notin T /\ t \ {x} \in SUBSET S
  BY <1>1
<1> QED BY <1>3, <1>4

\* Any element may come out first.
LEMMA SumTakesOut ==
  ASSUME NEW S, NEW f, Summable(f, S), NEW x \in S
  PROVE  SumFunctionOnSet(f, S) = f[x] + SumFunctionOnSet(f, S \ {x})
<1> USE DEF Summable
<1> DEFINE T == {s \in SUBSET S : \E y \in s : SumFunctionOnSet(f, s) # f[y] + SumFunctionOnSet(f, s \ {y})}
<1> SUFFICES ASSUME T # {} PROVE FALSE
  BY S \in SUBSET S
<1>1. PICK t \in T : \A v \in T : v \subseteq t => v = t
  <2>1. T \subseteq SUBSET S
    OBVIOUS
  <2> HIDE DEF T
  <2> QED BY <2>1, SmallestSubset
<1>2. \A s \in SUBSET S : IsFiniteSet(s) /\ SumFunctionOnSet(f, s) \in Int
  BY FS_Subset, SumIsInteger
<1>3. PICK y \in t : SumFunctionOnSet(f, t) # f[y] + SumFunctionOnSet(f, t \ {y})
  OBVIOUS
<1>4. PICK z \in t : SumFunctionOnSet(f, t) = f[z] + SumFunctionOnSet(f, t \ {z})
  BY <1>2, <1>3, SumOfChosen
<1>5. y # z
  BY <1>3, <1>4
<1>6. t \ {y} \notin T /\ t \ {z} \notin T /\ t \ {y} \in SUBSET S /\ t \ {z} \in SUBSET S
  BY <1>1
<1>7. SumFunctionOnSet(f, t \ {z}) = f[y] + SumFunctionOnSet(f, (t \ {z}) \ {y})
  BY <1>5, <1>6
<1>8. SumFunctionOnSet(f, t \ {y}) = f[z] + SumFunctionOnSet(f, (t \ {y}) \ {z})
  BY <1>5, <1>6
<1>9. (t \ {z}) \ {y} = (t \ {y}) \ {z} /\ (t \ {z}) \ {y} \in SUBSET S
  OBVIOUS
<1> DEFINE rest == SumFunctionOnSet(f, (t \ {z}) \ {y})
<1>10. f[y] \in Int /\ f[z] \in Int /\ rest \in Int
  BY <1>2, <1>9
<1>11. SumFunctionOnSet(f, t \ {y}) = f[z] + rest
  BY <1>8, <1>9
<1>12. SumFunctionOnSet(f, t) = f[z] + (f[y] + rest)
  BY <1>4, <1>7
<1>13. SumFunctionOnSet(f, t) # f[y] + (f[z] + rest)
  BY <1>3, <1>11
<1> HIDE DEF rest, T, Summable
<1> QED BY <1>10, <1>12, <1>13

\* A sum is that of a part and of the rest.
LEMMA SumSplits ==
  ASSUME NEW S, NEW f, Summable(f, S), NEW A \in SUBSET S
  PROVE  SumFunctionOnSet(f, S) = SumFunctionOnSet(f, A) + SumFunctionOnSet(f, S \ A)
<1> USE DEF Summable
<1> DEFINE T == {s \in SUBSET A : SumFunctionOnSet(f, S) # SumFunctionOnSet(f, s) + SumFunctionOnSet(f, S \ s)}
<1> SUFFICES ASSUME T # {} PROVE FALSE
  BY A \in SUBSET A
<1>0. IsFiniteSet(A)
  BY FS_Subset
<1>1. PICK t \in T : \A v \in T : v \subseteq t => v = t
  <2>1. T \subseteq SUBSET A
    OBVIOUS
  <2> HIDE DEF T
  <2> QED BY <1>0, <2>1, SmallestSubset
<1>2. \A s \in SUBSET S : Summable(f, s) /\ SumFunctionOnSet(f, s) \in Int
  BY FS_Subset, SumIsInteger
<1>3. t # {}
  <2>1. SumFunctionOnSet(f, {}) = 0 /\ S \ {} = S /\ SumFunctionOnSet(f, S) \in Int
    BY SumOfNone, <1>2
  <2>2. SumFunctionOnSet(f, S) = SumFunctionOnSet(f, {}) + SumFunctionOnSet(f, S \ {})
    BY <2>1
  <2> QED BY <2>2
<1>4. PICK x \in t : TRUE
  BY <1>3
<1> DEFINE r == t \ {x}
<1>5. r \notin T /\ r \in SUBSET A
  BY <1>1
<1>6. SumFunctionOnSet(f, S) = SumFunctionOnSet(f, r) + SumFunctionOnSet(f, S \ r)
  BY <1>5
<1>7. SumFunctionOnSet(f, t) = f[x] + SumFunctionOnSet(f, r)
  BY <1>2, SumTakesOut
<1>8. x \in S \ r /\ (S \ r) \ {x} = S \ t /\ S \ r \in SUBSET S
  OBVIOUS
<1>9. SumFunctionOnSet(f, S \ r) = f[x] + SumFunctionOnSet(f, S \ t)
  <2>1. Summable(f, S \ r)
    BY <1>2, <1>8
  <2> HIDE DEF r, Summable
  <2> QED BY <1>8, <2>1, SumTakesOut
<1>10. f[x] \in Int /\ SumFunctionOnSet(f, r) \in Int /\ SumFunctionOnSet(f, S \ t) \in Int
  BY <1>2
<1> QED BY <1>6, <1>7, <1>9, <1>10

-------------------------------------------------------------------------------
(* What is seen of a sum when its values change *)

\* The sum of the sums of the values.
LEMMA SumAdds ==
  ASSUME NEW S, NEW f, NEW e, NEW h, Summable(f, S), Summable(e, S), \A x \in S : h[x] = f[x] + e[x]
  PROVE  SumFunctionOnSet(h, S) = SumFunctionOnSet(f, S) + SumFunctionOnSet(e, S)
<1> DEFINE T == {s \in SUBSET S : SumFunctionOnSet(h, s) # SumFunctionOnSet(f, s) + SumFunctionOnSet(e, s)}
<1> SUFFICES ASSUME T # {} PROVE FALSE
  BY S \in SUBSET S
<1>1. PICK t \in T : \A v \in T : v \subseteq t => v = t
  <2>1. T \subseteq SUBSET S /\ IsFiniteSet(S)
    BY DEF Summable
  <2> HIDE DEF T
  <2> QED BY <2>1, SmallestSubset
<1>2. \A s \in SUBSET S : Summable(f, s) /\ Summable(e, s) /\ Summable(h, s)
  BY FS_Subset DEF Summable
<1>3. t # {}
  <2>1. SumFunctionOnSet(h, {}) = 0 /\ SumFunctionOnSet(f, {}) = 0 /\ SumFunctionOnSet(e, {}) = 0
    BY SumOfNone
  <2> QED BY <2>1
<1>4. PICK x \in t : TRUE
  BY <1>3
<1> DEFINE r == t \ {x}
<1>5. r \notin T /\ r \in SUBSET S /\ t \in SUBSET S /\ x \in S
  BY <1>1
<1>6. SumFunctionOnSet(h, r) = SumFunctionOnSet(f, r) + SumFunctionOnSet(e, r)
  BY <1>5
<1>7. SumFunctionOnSet(h, t) = h[x] + SumFunctionOnSet(h, r)
  BY <1>2, <1>5, SumTakesOut
<1>8. SumFunctionOnSet(f, t) = f[x] + SumFunctionOnSet(f, r)
  BY <1>2, <1>5, SumTakesOut
<1>9. SumFunctionOnSet(e, t) = e[x] + SumFunctionOnSet(e, r)
  BY <1>2, <1>5, SumTakesOut
<1>10. SumFunctionOnSet(f, r) \in Int /\ SumFunctionOnSet(e, r) \in Int /\ SumFunctionOnSet(h, r) \in Int
  BY <1>2, <1>5, SumIsInteger
<1>11. f[x] \in Int /\ e[x] \in Int /\ h[x] = f[x] + e[x]
  BY <1>5 DEF Summable
<1>12. SumFunctionOnSet(h, t) # SumFunctionOnSet(f, t) + SumFunctionOnSet(e, t)
  OBVIOUS
<1> HIDE DEF T, r
<1> QED BY <1>6, <1>7, <1>8, <1>9, <1>10, <1>11, <1>12

\* The sum of the differences of the values.
LEMMA SumSubtracts ==
  ASSUME NEW S, NEW f, NEW e, NEW h, Summable(f, S), Summable(e, S), \A x \in S : h[x] = f[x] - e[x]
  PROVE  SumFunctionOnSet(h, S) = SumFunctionOnSet(f, S) - SumFunctionOnSet(e, S)
<1>1. Summable(h, S) /\ \A x \in S : f[x] = h[x] + e[x]
  BY DEF Summable
<1>2. SumFunctionOnSet(f, S) = SumFunctionOnSet(h, S) + SumFunctionOnSet(e, S)
  BY <1>1, SumAdds
<1>3. SumFunctionOnSet(h, S) \in Int /\ SumFunctionOnSet(e, S) \in Int
  BY <1>1, SumIsInteger
<1> QED BY <1>2, <1>3

\* A sum of zeros is 0.
LEMMA SumOfZeros ==
  ASSUME NEW S, IsFiniteSet(S), NEW f, \A x \in S : f[x] = 0
  PROVE  SumFunctionOnSet(f, S) = 0
<1>1. Summable(f, S) /\ \A x \in S : f[x] = f[x] - f[x]
  BY DEF Summable
<1>2. SumFunctionOnSet(f, S) = SumFunctionOnSet(f, S) - SumFunctionOnSet(f, S)
  BY <1>1, SumSubtracts
<1>3. SumFunctionOnSet(f, S) \in Int
  BY <1>1, SumIsInteger
<1> QED BY <1>2, <1>3

\* A sum of amounts that are not negative is not negative.
LEMMA SumIsNatural ==
  ASSUME NEW S, IsFiniteSet(S), NEW f, \A x \in S : f[x] \in Nat
  PROVE  SumFunctionOnSet(f, S) \in Nat
<1> DEFINE T == {s \in SUBSET S : SumFunctionOnSet(f, s) \notin Nat}
<1> SUFFICES ASSUME T # {} PROVE FALSE
  BY S \in SUBSET S
<1>1. PICK t \in T : \A v \in T : v \subseteq t => v = t
  <2>1. T \subseteq SUBSET S
    OBVIOUS
  <2> HIDE DEF T
  <2> QED BY <2>1, SmallestSubset
<1>2. IsFiniteSet(t)
  BY FS_Subset
<1>3. t # {}
  <2>1. SumFunctionOnSet(f, {}) \in Nat
    BY SumOfNone
  <2> QED BY <2>1
<1>4. PICK x \in t : SumFunctionOnSet(f, t) = f[x] + SumFunctionOnSet(f, t \ {x})
  BY <1>2, <1>3, SumOfChosen
<1>5. t \ {x} \notin T /\ t \ {x} \in SUBSET S
  BY <1>1
<1> QED BY <1>4, <1>5

\* A sum of more is not less.
LEMMA SumIsMonotone ==
  ASSUME NEW S, NEW f, NEW e, Summable(f, S), Summable(e, S), \A x \in S : f[x] <= e[x]
  PROVE  SumFunctionOnSet(f, S) <= SumFunctionOnSet(e, S)
<1> DEFINE h == [x \in S |-> e[x] - f[x]]
<1>1. IsFiniteSet(S) /\ \A x \in S : h[x] \in Nat /\ h[x] = e[x] - f[x]
  BY DEF Summable
<1> HIDE DEF h
<1>2. SumFunctionOnSet(h, S) = SumFunctionOnSet(e, S) - SumFunctionOnSet(f, S)
  BY <1>1, SumSubtracts
<1>3. SumFunctionOnSet(h, S) \in Nat
  BY <1>1, SumIsNatural
<1>4. SumFunctionOnSet(f, S) \in Int /\ SumFunctionOnSet(e, S) \in Int
  BY SumIsInteger
<1> QED BY <1>2, <1>3, <1>4

\* A sum of amounts is not less than that of a part of them.
LEMMA SumOfPart ==
  ASSUME NEW S, IsFiniteSet(S), NEW f, \A x \in S : f[x] \in Nat, NEW A \in SUBSET S
  PROVE  SumFunctionOnSet(f, A) <= SumFunctionOnSet(f, S)
<1>1. IsFiniteSet(S \ A) /\ IsFiniteSet(A) /\ Summable(f, S)
  BY FS_Subset DEF Summable
<1>2. SumFunctionOnSet(f, S) = SumFunctionOnSet(f, A) + SumFunctionOnSet(f, S \ A)
  BY <1>1, SumSplits
<1>3. SumFunctionOnSet(f, A) \in Nat /\ SumFunctionOnSet(f, S \ A) \in Nat
  BY <1>1, SumIsNatural
<1> QED BY <1>2, <1>3

\* One value changes: so does the sum, by as much.
LEMMA SumChanges ==
  ASSUME NEW S, NEW f, NEW e, Summable(f, S), Summable(e, S), NEW x \in S, \A y \in S \ {x} : f[y] = e[y]
  PROVE  SumFunctionOnSet(e, S) = SumFunctionOnSet(f, S) + (e[x] - f[x])
<1>1. Summable(f, S \ {x}) /\ Summable(e, S \ {x})
  BY FS_Subset DEF Summable
<1>2. SumFunctionOnSet(f, S \ {x}) = SumFunctionOnSet(e, S \ {x}) /\ SumFunctionOnSet(f, S \ {x}) \in Int
  BY <1>1, SumOfSame, SumIsInteger DEF Summable
<1>3. SumFunctionOnSet(f, S) = f[x] + SumFunctionOnSet(f, S \ {x})
  BY SumTakesOut
<1>4. SumFunctionOnSet(e, S) = e[x] + SumFunctionOnSet(e, S \ {x})
  BY SumTakesOut
<1>5. f[x] \in Int /\ e[x] \in Int
  BY DEF Summable
<1> QED BY <1>2, <1>3, <1>4, <1>5

\* A sum that is 0 outside a part is that of the part.
LEMMA SumOfTheRest ==
  ASSUME NEW S, NEW f, Summable(f, S), NEW A \in SUBSET S, \A x \in S \ A : f[x] = 0
  PROVE  SumFunctionOnSet(f, S) = SumFunctionOnSet(f, A)
<1>1. IsFiniteSet(S \ A) /\ Summable(f, A)
  BY FS_Subset DEF Summable
<1>2. SumFunctionOnSet(f, S) = SumFunctionOnSet(f, A) + SumFunctionOnSet(f, S \ A)
  BY SumSplits
<1>3. SumFunctionOnSet(f, S \ A) = 0 /\ SumFunctionOnSet(f, A) \in Int
  BY <1>1, SumOfZeros, SumIsInteger
<1> QED BY <1>2, <1>3

\* A sum over some ids is one over all of them, the others being given 0.
LEMMA SumOfSome ==
  ASSUME NEW S, IsFiniteSet(S), NEW A \in SUBSET S, NEW f, \A x \in A : f[x] \in Int,
         NEW e, \A x \in S : e[x] = IF x \in A THEN f[x] ELSE 0
  PROVE  SumFunctionOnSet(f, A) = SumFunctionOnSet(e, S)
<1>1. Summable(e, S) /\ IsFiniteSet(A)
  BY FS_Subset DEF Summable
<1>2. SumFunctionOnSet(e, S) = SumFunctionOnSet(e, A)
  BY <1>1, SumOfTheRest
<1>3. SumFunctionOnSet(f, A) = SumFunctionOnSet(e, A)
  BY <1>1, SumOfSame
<1> QED BY <1>2, <1>3

\* h lists the elements of I, each once.
OneToOne(h, S, I) ==
  /\ \A x \in S : h[x] \in I
  /\ \A z \in I : \E x \in S : h[x] = z
  /\ \A x, y \in S : h[x] = h[y] => x = y

\* e takes f's values along h.
Follows(e, S, f, h) == \A x \in S : e[x] = f[h[x]]

\* A sum along a list that has every element once is the sum over the elements.
LEMMA SumMoves ==
  ASSUME NEW S, IsFiniteSet(S), NEW I, NEW h, OneToOne(h, S, I), NEW f, Summable(f, I), NEW e, Follows(e, S, f, h)
  PROVE  SumFunctionOnSet(e, S) = SumFunctionOnSet(f, I)
<1> USE DEF OneToOne, Follows, Summable
<1> DEFINE Image(s) == {h[x] : x \in s}
           T == {s \in SUBSET S : ~(IsFiniteSet(Image(s)) /\ SumFunctionOnSet(e, s) = SumFunctionOnSet(f, Image(s)))}
<1> SUFFICES ASSUME T # {} PROVE FALSE
  <2>1. Image(S) = I
    OBVIOUS
  <2>2. S \in SUBSET S
    OBVIOUS
  <2> QED BY <2>1, <2>2
<1>1. PICK t \in T : \A v \in T : v \subseteq t => v = t
  <2>1. T \subseteq SUBSET S
    OBVIOUS
  <2> HIDE DEF T
  <2> QED BY <2>1, SmallestSubset
<1>2. t \in SUBSET S /\ IsFiniteSet(t) /\ Summable(e, t)
  BY FS_Subset DEF Summable
<1>3. t # {}
  <2> SUFFICES ASSUME t = {} PROVE FALSE
    OBVIOUS
  <2>1. Image(t) = {} /\ IsFiniteSet({})
    BY FS_EmptySet
  <2> QED BY <2>1, SumOfNone
<1>4. PICK x \in t : TRUE
  BY <1>3
<1> DEFINE u == t \ {x}
<1>5. IsFiniteSet(Image(u)) /\ SumFunctionOnSet(e, u) = SumFunctionOnSet(f, Image(u))
  <2>1. u \notin T
    BY <1>1, <1>4
  <2> QED BY <2>1, <1>2
<1>6. Image(t) = Image(u) \cup {h[x]} /\ Image(t) \ {h[x]} = Image(u) /\ h[x] \in Image(t)
  BY <1>2, <1>4
<1>7. IsFiniteSet(Image(t)) /\ \A z \in Image(t) : f[z] \in Int
  <2>1. \A z \in Image(t) : f[z] \in Int
    BY <1>2
  <2>2. IsFiniteSet(Image(u) \cup {h[x]})
    <3> HIDE DEF Image, u
    <3> QED BY <1>5, FS_AddElement
  <2> QED BY <2>1, <2>2, <1>6
<1> HIDE DEF Image, u
<1>8. SumFunctionOnSet(f, Image(t)) = f[h[x]] + SumFunctionOnSet(f, Image(u))
  <2>1. Summable(f, Image(t))
    BY <1>7 DEF Summable
  <2> QED BY <2>1, <1>6, SumTakesOut
<1>9. SumFunctionOnSet(e, t) = e[x] + SumFunctionOnSet(e, u)
  BY <1>2, <1>4, SumTakesOut DEF u
<1> QED BY <1>2, <1>4, <1>5, <1>7, <1>8, <1>9

\* The sum of the values before a place, and how it grows.
LEMMA PrefixSums ==
  ASSUME NEW n \in Nat, NEW v, \A m \in 1..n : v[m] \in Nat
  PROVE  /\ \A k \in 0..n : SumFunctionOnSet(v, 1..k) \in Nat
         /\ SumFunctionOnSet(v, 1..0) = 0
         /\ \A k \in 1..n : SumFunctionOnSet(v, 1..k) = SumFunctionOnSet(v, 1..(k - 1)) + v[k]
         /\ \A k, l \in 0..n : k <= l => SumFunctionOnSet(v, 1..k) <= SumFunctionOnSet(v, 1..l)
<1>1. ASSUME NEW k \in 0..n
      PROVE  IsFiniteSet(1..k) /\ Summable(v, 1..k) /\ (\A m \in 1..k : v[m] \in Nat) /\ SumFunctionOnSet(v, 1..k) \in Nat
  <2>1. IsFiniteSet(1..k)
    BY FS_Interval
  <2>2. \A m \in 1..k : v[m] \in Nat
    OBVIOUS
  <2> QED BY <2>1, <2>2, SumIsNatural DEF Summable
<1>2. SumFunctionOnSet(v, 1..0) = 0
  <2>1. 1..0 = {}
    OBVIOUS
  <2> QED BY <2>1, SumOfNone
<1>3. ASSUME NEW k \in 1..n PROVE SumFunctionOnSet(v, 1..k) = SumFunctionOnSet(v, 1..(k - 1)) + v[k]
  <2>1. k \in 0..n /\ k - 1 \in 0..n /\ k \in 1..k /\ (1..k) \ {k} = 1..(k - 1)
    OBVIOUS
  <2>2. SumFunctionOnSet(v, 1..k) = v[k] + SumFunctionOnSet(v, (1..k) \ {k})
    BY <2>1, <1>1, SumTakesOut
  <2>3. SumFunctionOnSet(v, 1..(k - 1)) \in Nat /\ v[k] \in Nat
    BY <2>1, <1>1
  <2>4. SumFunctionOnSet(v, 1..k) = v[k] + SumFunctionOnSet(v, 1..(k - 1))
    BY <2>1, <2>2
  <2>5. PICK below : below = SumFunctionOnSet(v, 1..(k - 1))
    OBVIOUS
  <2> QED BY <2>3, <2>4, <2>5
<1>4. ASSUME NEW k \in 0..n, NEW l \in 0..n, k <= l
      PROVE  SumFunctionOnSet(v, 1..k) <= SumFunctionOnSet(v, 1..l)
  <2>1. (1..k) \in SUBSET (1..l)
    BY <1>4
  <2> QED BY <2>1, <1>1, SumOfPart
<1> QED BY <1>1, <1>2, <1>3, <1>4

\* A sum with one more element.
LEMMA SumOfOneMore ==
  ASSUME NEW A, IsFiniteSet(A), NEW e, NEW h, NEW m, m \notin A, \A n \in A : h[n] = e[n] /\ e[n] \in Nat, h[m] \in Nat
  PROVE  /\ SumFunctionOnSet(h, A) = SumFunctionOnSet(e, A)
         /\ SumFunctionOnSet(h, A \cup {m}) = SumFunctionOnSet(e, A) + h[m]
<1>1. SumFunctionOnSet(h, A) = SumFunctionOnSet(e, A) /\ SumFunctionOnSet(e, A) \in Nat
  BY SumOfSame, SumIsNatural
<1>2. IsFiniteSet(A \cup {m}) /\ Summable(h, A \cup {m}) /\ m \in A \cup {m} /\ (A \cup {m}) \ {m} = A
  BY FS_AddElement DEF Summable
<1>3. SumFunctionOnSet(h, A \cup {m}) = h[m] + SumFunctionOnSet(h, A)
  BY <1>2, SumTakesOut
<1> QED BY <1>1, <1>3

===============================================================================
