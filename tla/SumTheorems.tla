---------------------------- MODULE SumTheorems ----------------------------
(***************************************************************************)
(* What SumFunctionOnSet of the community modules computes on a finite     *)
(* set.  The sum is defined by a recursive function on the subsets of the  *)
(* set; that this function exists, and that the sum does not depend on the *)
(* order in which elements are picked, is proved by taking a minimal       *)
(* counterexample among the subsets of a finite set.  LeastNumber serves   *)
(* other recursive functions in the same way.                              *)
(***************************************************************************)
EXTENDS Integers, FiniteSets, Functions, FiniteSetTheorems, TLAPS

\* The recursion that defines the sum of f over S.
Pick(s) == CHOOSE x \in s : TRUE
Sums(f, S, g) ==
    g = [s \in SUBSET S |-> IF s = {} THEN 0 ELSE f[Pick(s)] + g[s \ {Pick(s)}]]

\* The value of the library's sum is that of the recursive function in its definition.
LEMMA Unfolded ==
    ASSUME NEW f, NEW S
    PROVE  SumFunctionOnSet(f, S) = (CHOOSE g : Sums(f, S, g))[S]
BY DEF SumFunctionOnSet, FoldFunctionOnSet, MapThenFoldSet, Sums, Pick

\* A set of subsets of a finite set has a minimal element.
LEMMA MinimalSet ==
    ASSUME NEW S, IsFiniteSet(S), NEW T \in SUBSET SUBSET S, T # {}
    PROVE  \E U \in T : IsFiniteSet(U) /\ \A V \in T : V \subseteq U => V = U
<1>1. IsWellFoundedOn(StrictSubsetOrdering(S), FiniteSubsetsOf(S))
  BY FS_StrictSubsetOrderingWellFounded
<1>2. \A U \in T : IsFiniteSet(U)
  BY FS_Subset
<1>3. T \subseteq FiniteSubsetsOf(S)
  BY <1>2 DEF FiniteSubsetsOf
<1>4. PICK U \in T : \A V \in T : <<V, U>> \notin StrictSubsetOrdering(S)
  BY <1>1, <1>3, WFMin
<1>5. QED
  BY <1>2, <1>4 DEF StrictSubsetOrdering

\* A set of naturals with a bound has a least element.
LEMMA LeastNumber ==
    ASSUME NEW n \in Nat, NEW B \in SUBSET (0..n), B # {}
    PROVE  \E k \in B : \A j \in B : k <= j
<1> DEFINE S == 0..n
           T == {0..k : k \in B}
<1>1. IsFiniteSet(S)
  BY FS_Interval
<1>2. T \in SUBSET SUBSET S /\ T # {}
  <2>1. \A k \in B : 0..k \subseteq S
    OBVIOUS
  <2>2. \A V \in T : V \in SUBSET S
    BY <2>1
  <2>3. T # {}
    OBVIOUS
  <2> QED
    BY <2>2, <2>3
<1>3. PICK U \in T : \A V \in T : V \subseteq U => V = U
  <2> HIDE DEF S, T
  <2> QED BY <1>1, <1>2, MinimalSet
<1>4. PICK k \in B : U = 0..k
  BY <1>3
<1>5. ASSUME NEW j \in B PROVE k <= j
  <2>1. ASSUME j < k PROVE FALSE
    <3>1. 0..j \in T /\ 0..j \subseteq U /\ k \in U /\ k \notin 0..j
      BY <1>4, <2>1
    <3> QED
      BY <1>3, <3>1
  <2> QED
    BY <2>1
<1> QED
  BY <1>5

-----------------------------------------------------------------------------
(* The recursion has one solution. *)

\* Two solutions agree.
LEMMA OneSolution ==
    ASSUME NEW f, NEW S, IsFiniteSet(S), NEW g, NEW h, Sums(f, S, g), Sums(f, S, h)
    PROVE  \A s \in SUBSET S : g[s] = h[s]
<1> DEFINE differ == {s \in SUBSET S : g[s] # h[s]}
<1>1. ASSUME differ # {} PROVE FALSE
  <2>1. differ \in SUBSET SUBSET S
    OBVIOUS
  <2>2. PICK U \in differ : \A V \in differ : V \subseteq U => V = U
    <3> HIDE DEF differ
    <3> QED BY <1>1, <2>1, MinimalSet
  <2>3. U # {}
    BY <2>2 DEF Sums
  <2>4. Pick(U) \in U
    BY <2>3 DEF Pick
  <2>5. U \ {Pick(U)} \in SUBSET S /\ U \ {Pick(U)} \notin differ
    BY <2>2, <2>4
  <2>6. QED
    BY <2>2, <2>3, <2>5 DEF Sums
<1>2. QED
  BY <1>1

\* A solution for a set is one for its subsets.
LEMMA SmallerSolution ==
    ASSUME NEW f, NEW S, NEW g, Sums(f, S, g), NEW U \in SUBSET S
    PROVE  Sums(f, U, [s \in SUBSET U |-> g[s]])
<1> DEFINE h == [s \in SUBSET U |-> g[s]]
<1>1. ASSUME NEW s \in SUBSET U
      PROVE  h[s] = IF s = {} THEN 0 ELSE f[Pick(s)] + h[s \ {Pick(s)}]
  <2>1. s \in SUBSET S /\ s \ {Pick(s)} \in SUBSET U
    OBVIOUS
  <2>2. QED
    BY <2>1 DEF Sums
<1>2. QED
  BY <1>1 DEF Sums

\* There is a solution for every finite set, and its value is the sum.
LEMMA Solved ==
    ASSUME NEW f, NEW S, IsFiniteSet(S)
    PROVE  \E g : Sums(f, S, g)
<1> DEFINE unsolved == {s \in SUBSET S : ~ \E g : Sums(f, s, g)}
<1>1. ASSUME unsolved # {} PROVE FALSE
  <2>1. unsolved \in SUBSET SUBSET S
    OBVIOUS
  <2>2. PICK U \in unsolved : IsFiniteSet(U) /\ \A V \in unsolved : V \subseteq U => V = U
    <3> HIDE DEF unsolved
    <3> QED BY <1>1, <2>1, MinimalSet
  <2> DEFINE solution(V) == CHOOSE g : Sums(f, V, g)
             value(V) == solution(V)[V]
             h == [s \in SUBSET U |-> IF s = {} THEN 0 ELSE f[Pick(s)] + value(s \ {Pick(s)})]
  <2>3. ASSUME NEW V \in SUBSET U, V # U
        PROVE  Sums(f, V, solution(V))
    BY <2>2, <2>3
  <2>4. ASSUME NEW V \in SUBSET U, V # U, NEW s \in SUBSET V
        PROVE  solution(V)[s] = value(s)
    <3>1. Sums(f, s, [t \in SUBSET s |-> solution(V)[t]])
      BY <2>3, <2>4, SmallerSolution
    <3>2. s # U /\ IsFiniteSet(s)
      BY <2>2, <2>4, FS_Subset
    <3>3. Sums(f, s, solution(s))
      BY <2>3, <3>2
    <3>4. [t \in SUBSET s |-> solution(V)[t]][s] = solution(s)[s]
      <4> HIDE DEF solution
      <4> QED BY <3>1, <3>2, <3>3, OneSolution
    <3>5. QED
      BY <3>4
  <2>5. ASSUME NEW V \in SUBSET U, V # U
        PROVE  h[V] = value(V)
    <3>1. CASE V = {}
      <4>1. solution(V)[V] = 0
        <5> HIDE DEF solution
        <5> QED BY <2>3, <2>5, <3>1 DEF Sums
      <4>2. QED
        BY <3>1, <4>1
    <3>2. CASE V # {}
      <4>1. solution(V)[V] = f[Pick(V)] + solution(V)[V \ {Pick(V)}]
        <5> HIDE DEF solution
        <5> QED BY <2>3, <2>5, <3>2 DEF Sums
      <4>2. solution(V)[V \ {Pick(V)}] = value(V \ {Pick(V)})
        BY <2>4, <2>5
      <4>3. QED
        BY <3>2, <4>1, <4>2
    <3>3. QED
      BY <3>1, <3>2
  <2>6. ASSUME NEW s \in SUBSET U
        PROVE  h[s] = IF s = {} THEN 0 ELSE f[Pick(s)] + h[s \ {Pick(s)}]
    <3>1. CASE s = {}
      BY <3>1
    <3>2. CASE s # {}
      <4>1. Pick(s) \in s
        BY <3>2 DEF Pick
      <4>2. h[s \ {Pick(s)}] = value(s \ {Pick(s)})
        <5>1. s \ {Pick(s)} \in SUBSET U /\ s \ {Pick(s)} # U
          BY <4>1
        <5> HIDE DEF h, value
        <5> QED BY <5>1, <2>5
      <4>3. QED
        <5> HIDE DEF value
        <5> QED BY <3>2, <4>2
    <3>3. QED
      <4> HIDE DEF h
      <4> QED BY <3>1, <3>2
  <2>7. Sums(f, U, h)
    <3> HIDE DEF value
    <3> QED BY <2>6 DEF Sums
  <2>8. QED
    <3> HIDE DEF h
    <3> QED BY <2>2, <2>7
<1>2. QED
  BY <1>1, FS_Subset

-----------------------------------------------------------------------------
(* The sum, one element at a time. *)

\* The value of any solution, on any subset, is the sum over that subset.
LEMMA SumPicked ==
    ASSUME NEW f, NEW S, IsFiniteSet(S)
    PROVE  SumFunctionOnSet(f, S) =
             IF S = {} THEN 0 ELSE f[Pick(S)] + SumFunctionOnSet(f, S \ {Pick(S)})
<1> DEFINE solution(V) == CHOOSE g : Sums(f, V, g)
           rest == S \ {Pick(S)}
<1>1. /\ SumFunctionOnSet(f, S) = solution(S)[S]
      /\ SumFunctionOnSet(f, rest) = solution(rest)[rest]
  BY Unfolded
<1>2. Sums(f, S, solution(S)) /\ Sums(f, rest, solution(rest)) /\ IsFiniteSet(rest)
  BY Solved, FS_Subset
<1>3. Sums(f, rest, [s \in SUBSET rest |-> solution(S)[s]])
  <2> HIDE DEF solution
  <2> QED BY <1>2, SmallerSolution
<1>4. solution(S)[rest] = solution(rest)[rest]
  <2> HIDE DEF solution
  <2> QED BY <1>2, <1>3, OneSolution
<1>5. solution(S)[S] = IF S = {} THEN 0 ELSE f[Pick(S)] + solution(S)[rest]
  <2> HIDE DEF solution
  <2> QED BY <1>2 DEF Sums
<1>6. QED
  <2> HIDE DEF solution
  <2> QED BY <1>1, <1>4, <1>5

\* The sum over no elements is zero.
THEOREM SumEmpty == \A f : SumFunctionOnSet(f, {}) = 0
BY SumPicked, FS_EmptySet

\* A sum of integers is an integer, a sum of naturals a natural.
THEOREM SumInt ==
    ASSUME NEW f, NEW S, IsFiniteSet(S), \A x \in S : f[x] \in Int
    PROVE  SumFunctionOnSet(f, S) \in Int
<1> DEFINE bad == {s \in SUBSET S : SumFunctionOnSet(f, s) \notin Int}
<1>1. ASSUME bad # {} PROVE FALSE
  <2>1. PICK U \in bad : IsFiniteSet(U) /\ \A V \in bad : V \subseteq U => V = U
    <3>1. bad \in SUBSET SUBSET S
      OBVIOUS
    <3> HIDE DEF bad
    <3> QED BY <1>1, <3>1, MinimalSet
  <2>2. U # {}
    <3>1. SumFunctionOnSet(f, {}) \in Int
      BY SumEmpty
    <3>2. QED
      BY <2>1, <3>1
  <2>3. Pick(U) \in U
    BY <2>2 DEF Pick
  <2>4. SumFunctionOnSet(f, U \ {Pick(U)}) \in Int
    BY <2>1, <2>3
  <2>5. QED
    BY <2>1, <2>2, <2>3, <2>4, SumPicked
<1>2. QED
  BY <1>1

\* Any element may be taken out first.
THEOREM SumRemove ==
    ASSUME NEW f, NEW S, IsFiniteSet(S), \A x \in S : f[x] \in Int, NEW e \in S
    PROVE  SumFunctionOnSet(f, S) = f[e] + SumFunctionOnSet(f, S \ {e})
<1> DEFINE bad == {s \in SUBSET S : \E x \in s :
                      SumFunctionOnSet(f, s) # f[x] + SumFunctionOnSet(f, s \ {x})}
<1>1. ASSUME bad # {} PROVE FALSE
  <2>1. PICK U \in bad : IsFiniteSet(U) /\ \A V \in bad : V \subseteq U => V = U
    <3>1. bad \in SUBSET SUBSET S
      OBVIOUS
    <3> HIDE DEF bad
    <3> QED BY <1>1, <3>1, MinimalSet
  <2>2. PICK x \in U : SumFunctionOnSet(f, U) # f[x] + SumFunctionOnSet(f, U \ {x})
    BY <2>1
  <2> DEFINE p == Pick(U)
             rest == (U \ {x}) \ {p}
  <2>3. p \in U
    BY <2>2 DEF Pick
  <2>4. SumFunctionOnSet(f, U) = f[p] + SumFunctionOnSet(f, U \ {p})
    BY <2>1, <2>3, SumPicked
  <2>5. x # p
    BY <2>2, <2>4
  <2>6. U \ {p} \notin bad /\ U \ {x} \notin bad /\ rest = (U \ {p}) \ {x}
    BY <2>1, <2>2, <2>3
  <2>7. SumFunctionOnSet(f, U \ {p}) = f[x] + SumFunctionOnSet(f, rest)
    BY <2>2, <2>5, <2>6
  <2>8. SumFunctionOnSet(f, U \ {x}) = f[p] + SumFunctionOnSet(f, rest)
    BY <2>3, <2>5, <2>6
  <2>9. SumFunctionOnSet(f, rest) \in Int /\ f[x] \in Int /\ f[p] \in Int
    BY <2>1, <2>2, <2>3, SumInt, FS_Subset
  <2>10. QED
    <3> HIDE DEF p, rest
    <3> QED BY <2>2, <2>4, <2>7, <2>8, <2>9
<1>2. QED
  BY <1>1

\* One more element adds its value.
THEOREM SumAdd ==
    ASSUME NEW f, NEW S, IsFiniteSet(S), NEW e, e \notin S, \A x \in S \cup {e} : f[x] \in Int
    PROVE  SumFunctionOnSet(f, S \cup {e}) = f[e] + SumFunctionOnSet(f, S)
<1>1. IsFiniteSet(S \cup {e}) /\ (S \cup {e}) \ {e} = S
  BY FS_AddElement
<1>2. QED
  BY <1>1, SumRemove

\* Only the values on the set count.
THEOREM SumSame ==
    ASSUME NEW f, NEW g, NEW S, IsFiniteSet(S), \A x \in S : f[x] = g[x]
    PROVE  SumFunctionOnSet(f, S) = SumFunctionOnSet(g, S)
<1> DEFINE bad == {s \in SUBSET S : SumFunctionOnSet(f, s) # SumFunctionOnSet(g, s)}
<1>1. ASSUME bad # {} PROVE FALSE
  <2>1. PICK U \in bad : IsFiniteSet(U) /\ \A V \in bad : V \subseteq U => V = U
    <3>1. bad \in SUBSET SUBSET S
      OBVIOUS
    <3> HIDE DEF bad
    <3> QED BY <1>1, <3>1, MinimalSet
  <2>2. U # {}
    BY <2>1, SumEmpty
  <2>3. Pick(U) \in U
    BY <2>2 DEF Pick
  <2>4. SumFunctionOnSet(f, U \ {Pick(U)}) = SumFunctionOnSet(g, U \ {Pick(U)})
    BY <2>1, <2>3
  <2>5. QED
    BY <2>1, <2>2, <2>3, <2>4, SumPicked
<1>2. QED
  BY <1>1

\* One value changes.
THEOREM SumChange ==
    ASSUME NEW f, NEW g, NEW S, IsFiniteSet(S), NEW e \in S,
           \A x \in S : f[x] \in Int /\ g[x] \in Int,
           \A x \in S \ {e} : f[x] = g[x]
    PROVE  SumFunctionOnSet(g, S) = SumFunctionOnSet(f, S) - f[e] + g[e]
<1>1. IsFiniteSet(S \ {e})
  BY FS_Subset
<1>2. SumFunctionOnSet(f, S \ {e}) = SumFunctionOnSet(g, S \ {e})
  BY <1>1, SumSame
<1>3. SumFunctionOnSet(f, S \ {e}) \in Int
  BY <1>1, SumInt
<1>4. /\ SumFunctionOnSet(f, S) = f[e] + SumFunctionOnSet(f, S \ {e})
      /\ SumFunctionOnSet(g, S) = g[e] + SumFunctionOnSet(g, S \ {e})
  BY SumRemove
<1>5. QED
  BY <1>2, <1>3, <1>4

-----------------------------------------------------------------------------
(* Comparing sums. *)

\* Smaller terms, smaller sum.
THEOREM SumMonotone ==
    ASSUME NEW f, NEW g, NEW S, IsFiniteSet(S),
           \A x \in S : f[x] \in Int /\ g[x] \in Int /\ f[x] <= g[x]
    PROVE  SumFunctionOnSet(f, S) <= SumFunctionOnSet(g, S)
<1> DEFINE bad == {s \in SUBSET S : ~(SumFunctionOnSet(f, s) <= SumFunctionOnSet(g, s))}
<1>1. ASSUME bad # {} PROVE FALSE
  <2>1. PICK U \in bad : IsFiniteSet(U) /\ \A V \in bad : V \subseteq U => V = U
    <3>1. bad \in SUBSET SUBSET S
      OBVIOUS
    <3> HIDE DEF bad
    <3> QED BY <1>1, <3>1, MinimalSet
  <2>2. U # {}
    <3>1. SumFunctionOnSet(f, {}) = 0 /\ SumFunctionOnSet(g, {}) = 0
      BY SumEmpty
    <3>2. SumFunctionOnSet(f, {}) <= SumFunctionOnSet(g, {})
      BY <3>1
    <3>3. QED
      BY <2>1, <3>2
  <2>3. Pick(U) \in U
    BY <2>2 DEF Pick
  <2>4. SumFunctionOnSet(f, U \ {Pick(U)}) <= SumFunctionOnSet(g, U \ {Pick(U)})
    BY <2>1, <2>3
  <2>5. /\ SumFunctionOnSet(f, U \ {Pick(U)}) \in Int
        /\ SumFunctionOnSet(g, U \ {Pick(U)}) \in Int
    BY <2>1, SumInt, FS_Subset
  <2>6. /\ SumFunctionOnSet(f, U) = f[Pick(U)] + SumFunctionOnSet(f, U \ {Pick(U)})
        /\ SumFunctionOnSet(g, U) = g[Pick(U)] + SumFunctionOnSet(g, U \ {Pick(U)})
    BY <2>1, <2>2, SumPicked
  <2>7. ~(SumFunctionOnSet(f, U) <= SumFunctionOnSet(g, U)) /\ U \subseteq S
    BY <2>1
  <2>8. f[Pick(U)] \in Int /\ g[Pick(U)] \in Int /\ f[Pick(U)] <= g[Pick(U)]
    BY <2>3, <2>7
  <2>9. QED
    BY <2>4, <2>5, <2>6, <2>7, <2>8
<1>2. QED
  BY <1>1

\* Terms that are zero add up to zero.
THEOREM SumZero ==
    ASSUME NEW f, NEW S, IsFiniteSet(S), \A x \in S : f[x] = 0
    PROVE  SumFunctionOnSet(f, S) = 0
<1> DEFINE bad == {s \in SUBSET S : SumFunctionOnSet(f, s) # 0}
<1>1. ASSUME bad # {} PROVE FALSE
  <2>1. PICK U \in bad : IsFiniteSet(U) /\ \A V \in bad : V \subseteq U => V = U
    <3>1. bad \in SUBSET SUBSET S
      OBVIOUS
    <3> HIDE DEF bad
    <3> QED BY <1>1, <3>1, MinimalSet
  <2>2. U # {}
    BY <2>1, SumEmpty
  <2>3. Pick(U) \in U
    BY <2>2 DEF Pick
  <2>4. SumFunctionOnSet(f, U \ {Pick(U)}) = 0
    BY <2>1, <2>3
  <2>5. QED
    BY <2>1, <2>2, <2>3, <2>4, SumPicked
<1>2. QED
  BY <1>1

\* Naturals add up to a natural.
THEOREM SumNat ==
    ASSUME NEW f, NEW S, IsFiniteSet(S), \A x \in S : f[x] \in Nat
    PROVE  SumFunctionOnSet(f, S) \in Nat
<1> DEFINE zero == [x \in S |-> 0]
<1>1. SumFunctionOnSet(zero, S) = 0
  BY SumZero
<1>2. SumFunctionOnSet(f, S) \in Int
  BY SumInt
<1>3. SumFunctionOnSet(zero, S) <= SumFunctionOnSet(f, S)
  <2>1. \A x \in S : zero[x] \in Int /\ f[x] \in Int /\ zero[x] <= f[x]
    OBVIOUS
  <2> HIDE DEF zero
  <2> QED BY <2>1, SumMonotone
<1>4. QED
  BY <1>1, <1>2, <1>3

\* A sum of sums.
THEOREM SumTermwise ==
    ASSUME NEW f, NEW g, NEW h, NEW S, IsFiniteSet(S),
           \A x \in S : f[x] \in Int /\ g[x] \in Int /\ h[x] = f[x] + g[x]
    PROVE  SumFunctionOnSet(h, S) = SumFunctionOnSet(f, S) + SumFunctionOnSet(g, S)
<1> DEFINE bad == {s \in SUBSET S : SumFunctionOnSet(h, s)
                                      # SumFunctionOnSet(f, s) + SumFunctionOnSet(g, s)}
<1>1. ASSUME bad # {} PROVE FALSE
  <2>1. PICK U \in bad : IsFiniteSet(U) /\ \A V \in bad : V \subseteq U => V = U
    <3>1. bad \in SUBSET SUBSET S
      OBVIOUS
    <3> HIDE DEF bad
    <3> QED BY <1>1, <3>1, MinimalSet
  <2>2. U # {}
    <3>1. SumFunctionOnSet(f, {}) = 0 /\ SumFunctionOnSet(g, {}) = 0 /\ SumFunctionOnSet(h, {}) = 0
      BY SumEmpty
    <3>2. {} \notin bad
      BY <3>1
    <3>3. QED
      BY <3>2
  <2>3. Pick(U) \in U
    BY <2>2 DEF Pick
  <2> DEFINE rest == U \ {Pick(U)}
  <2>4. SumFunctionOnSet(h, rest) = SumFunctionOnSet(f, rest) + SumFunctionOnSet(g, rest)
    BY <2>1, <2>3
  <2>5. SumFunctionOnSet(f, rest) \in Int /\ SumFunctionOnSet(g, rest) \in Int
    BY <2>1, SumInt, FS_Subset
  <2>6. /\ SumFunctionOnSet(f, U) = f[Pick(U)] + SumFunctionOnSet(f, rest)
        /\ SumFunctionOnSet(g, U) = g[Pick(U)] + SumFunctionOnSet(g, rest)
        /\ SumFunctionOnSet(h, U) = h[Pick(U)] + SumFunctionOnSet(h, rest)
    BY <2>1, <2>2, SumPicked
  <2>7. SumFunctionOnSet(h, U) # SumFunctionOnSet(f, U) + SumFunctionOnSet(g, U) /\ U \subseteq S
    BY <2>1
  <2>8. /\ f[Pick(U)] \in Int /\ g[Pick(U)] \in Int
        /\ h[Pick(U)] = f[Pick(U)] + g[Pick(U)]
    BY <2>3, <2>7
  <2>9. QED
    <3> HIDE DEF rest
    <3> QED BY <2>4, <2>5, <2>6, <2>7, <2>8
<1>2. QED
  BY <1>1

\* Splitting the set in two.
THEOREM SumSplit ==
    ASSUME NEW f, NEW S, IsFiniteSet(S), \A x \in S : f[x] \in Int, NEW T \in SUBSET S
    PROVE  SumFunctionOnSet(f, S) = SumFunctionOnSet(f, T) + SumFunctionOnSet(f, S \ T)
<1> DEFINE R == S \ T
           bad == {s \in SUBSET T : SumFunctionOnSet(f, s \cup R)
                                      # SumFunctionOnSet(f, s) + SumFunctionOnSet(f, R)}
<1>1. IsFiniteSet(T) /\ IsFiniteSet(R)
  BY FS_Subset
<1>2. SumFunctionOnSet(f, R) \in Int
  BY <1>1, SumInt
<1>3. ASSUME bad # {} PROVE FALSE
  <2>1. PICK U \in bad : IsFiniteSet(U) /\ \A V \in bad : V \subseteq U => V = U
    <3>1. bad \in SUBSET SUBSET T
      OBVIOUS
    <3> HIDE DEF bad
    <3> QED BY <1>1, <1>3, <3>1, MinimalSet
  <2>2. U # {}
    <3>1. SumFunctionOnSet(f, {}) = 0 /\ {} \cup R = R
      BY SumEmpty
    <3>2. SumFunctionOnSet(f, {} \cup R) = SumFunctionOnSet(f, {}) + SumFunctionOnSet(f, R)
      <4> HIDE DEF R
      <4> QED BY <1>2, <3>1
    <3>3. QED
      BY <2>1, <3>2
  <2>3. PICK p : p \in U
    BY <2>2
  <2> DEFINE rest == U \ {p}
  <2>4. /\ U \subseteq T /\ rest \subseteq T /\ rest \notin bad
        /\ SumFunctionOnSet(f, U \cup R) # SumFunctionOnSet(f, U) + SumFunctionOnSet(f, R)
    BY <2>1, <2>3
  <2>5. SumFunctionOnSet(f, rest \cup R) = SumFunctionOnSet(f, rest) + SumFunctionOnSet(f, R)
    BY <2>4
  <2>6. SumFunctionOnSet(f, U) = f[p] + SumFunctionOnSet(f, rest)
    BY <2>1, <2>3, <2>4, SumRemove
  <2>7. SumFunctionOnSet(f, U \cup R) = f[p] + SumFunctionOnSet(f, rest \cup R)
    <3>1. IsFiniteSet(U \cup R) /\ U \cup R \subseteq S /\ p \in U \cup R
      BY <2>3, <2>4, FS_Subset
    <3>2. (U \cup R) \ {p} = rest \cup R
      BY <2>3, <2>4
    <3>3. \A x \in U \cup R : f[x] \in Int
      BY <3>1
    <3> HIDE DEF R, rest
    <3> QED BY <3>1, <3>2, <3>3, SumRemove
  <2>8. SumFunctionOnSet(f, rest) \in Int /\ f[p] \in Int
    BY <2>1, <2>3, <2>4, SumInt, FS_Subset
  <2>9. QED
    <3> HIDE DEF R, rest
    <3> QED BY <1>2, <2>4, <2>5, <2>6, <2>7, <2>8
<1>4. SumFunctionOnSet(f, T \cup R) = SumFunctionOnSet(f, T) + SumFunctionOnSet(f, R)
  BY <1>3
<1>5. T \cup R = S
  OBVIOUS
<1>6. QED
  <2> HIDE DEF R
  <2>1. QED BY <1>4, <1>5 DEF R

\* A part of the set has a part of the sum.
THEOREM SumSubset ==
    ASSUME NEW f, NEW S, IsFiniteSet(S), \A x \in S : f[x] \in Nat, NEW T \in SUBSET S
    PROVE  SumFunctionOnSet(f, T) <= SumFunctionOnSet(f, S)
<1>1. IsFiniteSet(T) /\ IsFiniteSet(S \ T)
  BY FS_Subset
<1>2. SumFunctionOnSet(f, T) \in Nat /\ SumFunctionOnSet(f, S \ T) \in Nat
  BY <1>1, SumNat
<1>3. SumFunctionOnSet(f, S) = SumFunctionOnSet(f, T) + SumFunctionOnSet(f, S \ T)
  BY SumSplit
<1>4. QED
  BY <1>2, <1>3

\* Summing over the images of a one-to-one map sums over the elements.
THEOREM SumReindex ==
    ASSUME NEW f, NEW h, NEW g, NEW S, IsFiniteSet(S),
           \A x \in S : f[x] \in Int /\ f[x] = h[g[x]],
           \A x, y \in S : g[x] = g[y] => x = y
    PROVE  SumFunctionOnSet(h, {g[x] : x \in S}) = SumFunctionOnSet(f, S)
<1> DEFINE Image(s) == {g[x] : x \in s}
           bad == {s \in SUBSET S : SumFunctionOnSet(h, Image(s)) # SumFunctionOnSet(f, s)}
<1>1. ASSUME bad # {} PROVE FALSE
  <2>1. PICK U \in bad : IsFiniteSet(U) /\ \A V \in bad : V \subseteq U => V = U
    <3>1. bad \in SUBSET SUBSET S
      OBVIOUS
    <3> HIDE DEF bad
    <3> QED BY <1>1, <3>1, MinimalSet
  <2>2. U # {}
    <3>1. Image({}) = {}
      OBVIOUS
    <3> QED
      BY <2>1, <3>1, SumEmpty
  <2>3. PICK p : p \in U
    BY <2>2
  <2> DEFINE rest == U \ {p}
  <2>4. U \subseteq S /\ rest \subseteq S /\ SumFunctionOnSet(h, Image(U)) # SumFunctionOnSet(f, U)
    BY <2>1
  <2>5. SumFunctionOnSet(h, Image(rest)) = SumFunctionOnSet(f, rest)
    <3>1. rest \notin bad
      BY <2>1, <2>3
    <3> QED
      BY <2>4, <3>1
  <2>6. SumFunctionOnSet(f, U) = f[p] + SumFunctionOnSet(f, rest)
    BY <2>1, <2>3, <2>4, SumRemove
  <2>7. SumFunctionOnSet(h, Image(U)) = h[g[p]] + SumFunctionOnSet(h, Image(rest))
    <3>1. IsFiniteSet(Image(U)) /\ g[p] \in Image(U) /\ \A y \in Image(U) : h[y] \in Int
      <4>1. [x \in U |-> g[x]] \in Surjection(U, Image(U))
        BY DEF Surjection
      <4>2. IsFiniteSet(Image(U))
        BY <2>1, <4>1, FS_Surjection
      <4> QED
        BY <2>3, <2>4, <4>2
    <3>2. Image(U) \ {g[p]} = Image(rest)
      BY <2>3, <2>4
    <3> HIDE DEF Image, rest
    <3> QED
      BY <3>1, <3>2, SumRemove
  <2> QED
    BY <2>3, <2>4, <2>5, <2>6, <2>7
<1> QED
  BY <1>1

\* Terms that are zero may be left out.
THEOREM SumNonzero ==
    ASSUME NEW f, NEW S, IsFiniteSet(S), NEW T \in SUBSET S,
           \A x \in T : f[x] \in Int, \A x \in S \ T : f[x] = 0
    PROVE  SumFunctionOnSet(f, S) = SumFunctionOnSet(f, T)
<1>1. IsFiniteSet(T) /\ IsFiniteSet(S \ T)
  BY FS_Subset
<1>2. SumFunctionOnSet(f, S \ T) = 0
  BY <1>1, SumZero
<1>3. SumFunctionOnSet(f, T) \in Int
  BY <1>1, SumInt
<1>4. \A x \in S : f[x] \in Int
  OBVIOUS
<1>5. SumFunctionOnSet(f, S) = SumFunctionOnSet(f, T) + SumFunctionOnSet(f, S \ T)
  BY <1>4, SumSplit
<1> QED
  BY <1>2, <1>3, <1>5

\* What two parts of the set have in common is counted in both.
THEOREM SumOverlap ==
    ASSUME NEW f, NEW S, IsFiniteSet(S), \A x \in S : f[x] \in Int,
           NEW A \in SUBSET S, NEW B \in SUBSET S
    PROVE  SumFunctionOnSet(f, A) + SumFunctionOnSet(f, B)
             = SumFunctionOnSet(f, A \cup B) + SumFunctionOnSet(f, A \cap B)
<1>1. IsFiniteSet(A) /\ IsFiniteSet(B) /\ IsFiniteSet(A \cup B) /\ IsFiniteSet(A \cap B)
      /\ IsFiniteSet(B \ A)
  BY FS_Subset
<1>2. SumFunctionOnSet(f, A \cup B) = SumFunctionOnSet(f, A) + SumFunctionOnSet(f, B \ A)
  <2>1. A \in SUBSET (A \cup B) /\ (A \cup B) \ A = B \ A /\ \A x \in A \cup B : f[x] \in Int
    OBVIOUS
  <2> QED
    BY <1>1, <2>1, SumSplit
<1>3. SumFunctionOnSet(f, B) = SumFunctionOnSet(f, A \cap B) + SumFunctionOnSet(f, B \ A)
  <2>1. A \cap B \in SUBSET B /\ B \ (A \cap B) = B \ A /\ \A x \in B : f[x] \in Int
    OBVIOUS
  <2> QED
    BY <1>1, <2>1, SumSplit
<1>4. /\ SumFunctionOnSet(f, A) \in Int /\ SumFunctionOnSet(f, B \ A) \in Int
      /\ SumFunctionOnSet(f, A \cap B) \in Int
  BY <1>1, SumInt
<1> QED
  BY <1>2, <1>3, <1>4

=============================================================================
