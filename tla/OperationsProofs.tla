-------------------------- MODULE OperationsProofs --------------------------
(***************************************************************************)
(* Theorems about what the scripts, the deployer, the Sentinel's people    *)
(* and the governance's voters can do together, for every session: the     *)
(* Sentinel's mode is what its guards say, and once the governance owns a  *)
(* contract only a vote does what an owner may do.                         *)
(***************************************************************************)
EXTENDS Operations, SumTheorems, SequenceTheorems

GuardStates == {"None", "Guarded", "Relaxed"}

\* The guards a loop works on, or the contract holds.
GuardsExact(list, states, num) ==
    /\ list \in Seq(Accounts) /\ states \in [Accounts -> GuardStates]
    /\ IsInjective(list)
    /\ ToSet(list) = {a \in Accounts : states[a] # "None"}
    /\ num = Cardinality({a \in Accounts : states[a] = "Relaxed"})

ListExact(list) ==
    /\ list = [ok |-> list.ok, guards |-> list.guards, states |-> list.states, num |-> list.num]
    /\ GuardsExact(list.guards, list.states, list.num)

SentinelInv ==
    /\ GuardsExact(guards, guardStates, numRelaxedGuards)
    /\ relaxThreshold <= Len(guards)
    /\ relaxed = (numRelaxedGuards >= relaxThreshold)

-----------------------------------------------------------------------------
(* One round of the loops of updateGuards *)

\* Adding an account to a set of accounts, or taking it out, counts by one.
LEMMA CountAccounts ==
    ASSUME NEW S \in SUBSET Accounts, NEW a \in Accounts
    PROVE  /\ Cardinality(S) \in Nat
           /\ a \in S => Cardinality(S) = Cardinality(S \ {a}) + 1
           /\ a \notin S => Cardinality(S \cup {a}) = Cardinality(S) + 1
<1>1. IsFiniteSet(S) /\ IsFiniteSet(S \ {a})
  BY OperationsAssumption, FS_Subset
<1>2. Cardinality(S) \in Nat /\ Cardinality(S \ {a}) \in Nat
  BY <1>1, FS_CardinalityType
<1>3. a \notin S => Cardinality(S \cup {a}) = Cardinality(S) + 1
  BY <1>1, FS_AddElement
<1>4. a \in S => Cardinality(S) = Cardinality(S \ {a}) + 1
  <2>1. a \in S => (S \ {a}) \cup {a} = S /\ a \notin S \ {a}
    OBVIOUS
  <2>2. a \notin S \ {a} => Cardinality((S \ {a}) \cup {a}) = Cardinality(S \ {a}) + 1
    BY <1>1, FS_AddElement
  <2> QED
    BY <2>1, <2>2
<1> QED
  BY <1>2, <1>3, <1>4

LEMMA AddKeepsExact ==
    ASSUME NEW list, ListExact(list), NEW account \in Accounts
    PROVE  ListExact(AddGuard(list, account))
<1>1. CASE ~list.ok \/ list.states[account] # "None"
  BY <1>1 DEF AddGuard, ListExact
<1>2. CASE list.ok /\ list.states[account] = "None"
  <2> DEFINE G == list.guards
             longer == Append(G, account)
             states == [list.states EXCEPT ![account] = "Guarded"]
             added == AddGuard(list, account)
  <2>1. added = [list EXCEPT !.guards = longer, !.states = states]
    BY <1>2 DEF AddGuard
  <2>2. /\ added = [ok |-> added.ok, guards |-> added.guards, states |-> added.states,
                    num |-> added.num]
        /\ added.guards = longer /\ added.states = states /\ added.num = list.num
    BY <2>1 DEF ListExact
  <2>3. G \in Seq(Accounts) /\ Len(G) \in Nat /\ DOMAIN G = 1..Len(G)
    BY LenProperties DEF ListExact, GuardsExact
  <2>4. /\ longer \in Seq(Accounts) /\ Len(longer) = Len(G) + 1
        /\ DOMAIN longer = 1..(Len(G) + 1)
        /\ longer[Len(G) + 1] = account /\ \A i \in 1..Len(G) : longer[i] = G[i]
    BY <2>3, AppendProperties, LenProperties
  <2>5. states \in [Accounts -> GuardStates]
    BY DEF ListExact, GuardsExact, GuardStates
  <2>6. account \notin ToSet(G)
    BY <1>2 DEF ListExact, GuardsExact
  <2>7. IsInjective(longer)
    BY <2>3, <2>4, <2>6 DEF IsInjective, ToSet, ListExact, GuardsExact
  <2>8. ToSet(longer) = {a \in Accounts : states[a] # "None"}
    <3>1. ToSet(longer) = ToSet(G) \cup {account}
      BY <2>3, <2>4 DEF ToSet
    <3> QED
      BY <3>1, <2>5 DEF ListExact, GuardsExact
  <2>9. {a \in Accounts : states[a] = "Relaxed"} = {a \in Accounts : list.states[a] = "Relaxed"}
    BY <1>2 DEF ListExact, GuardsExact
  <2> HIDE DEF added, longer, states, G
  <2>10. ListExact(added)
    BY <2>2, <2>4, <2>5, <2>7, <2>8, <2>9 DEF ListExact, GuardsExact
  <2> QED
    BY <2>10 DEF added
<1> QED
  BY <1>1, <1>2

\* Taking out the k-th element as the contract does keeps the others.
LEMMA SwapAndPopEffect ==
    ASSUME NEW G \in Seq(Accounts), NEW k \in 1..Len(G), IsInjective(G)
    PROVE  /\ SwapAndPop(G, k) \in Seq(Accounts) /\ IsInjective(SwapAndPop(G, k))
           /\ ToSet(SwapAndPop(G, k)) = ToSet(G) \ {G[k]}
           /\ Len(SwapAndPop(G, k)) = Len(G) - 1
<1> DEFINE n == Len(G)
           swapped == [G EXCEPT ![k] = G[n]]
           shorter == SwapAndPop(G, k)
<1>1. n \in Nat \ {0} /\ DOMAIN G = 1..n /\ k \in 1..n /\ n \in 1..n
      /\ \A i \in 1..n : G[i] \in Accounts
  BY LenProperties, ElementOfSeq
<1>2. /\ swapped \in Seq(Accounts) /\ Len(swapped) = n
      /\ \A i \in 1..n : swapped[i] = IF i = k THEN G[n] ELSE G[i]
  <2>1. swapped \in [1..n -> Accounts]
    BY <1>1
  <2>2. swapped \in Seq(Accounts)
    BY <1>1, <2>1, SeqDef
  <2> QED
    BY <1>1, <2>1, <2>2, LenProperties
<1>3. shorter = SubSeq(swapped, 1, n - 1)
  BY <1>2 DEF SwapAndPop, Front, Last
<1> HIDE DEF swapped, n
<1>4. /\ shorter \in Seq(Accounts) /\ Len(shorter) = n - 1 /\ DOMAIN shorter = 1..(n - 1)
      /\ \A i \in 1..(n - 1) : shorter[i] = swapped[i]
  BY <1>1, <1>2, <1>3, SubSeqProperties, LenProperties
<1> HIDE DEF shorter
<1>5. \A i \in 1..(n - 1) : shorter[i] = IF i = k THEN G[n] ELSE G[i]
  BY <1>1, <1>2, <1>4
<1>6. \A i, j \in 1..n : G[i] = G[j] => i = j
  BY <1>1 DEF IsInjective
<1>7. IsInjective(shorter)
  BY <1>1, <1>4, <1>5, <1>6 DEF IsInjective
<1>8. ToSet(shorter) = ToSet(G) \ {G[k]}
  <2>1. ASSUME NEW i \in 1..(n - 1)
        PROVE  shorter[i] \in ToSet(G) \ {G[k]}
    BY <1>1, <1>5, <1>6 DEF ToSet
  <2>2. ASSUME NEW i \in 1..n, i # k
        PROVE  \E j \in 1..(n - 1) : shorter[j] = G[i]
    <3>1. CASE i = n
      <4>1. k \in 1..(n - 1)
        BY <1>1, <2>2, <3>1
      <4>2. shorter[k] = G[i]
        BY <1>5, <3>1, <4>1
      <4> QED
        BY <4>1, <4>2
    <3>2. CASE i # n
      <4>1. i \in 1..(n - 1)
        BY <1>1, <3>2
      <4>2. shorter[i] = G[i]
        BY <1>5, <2>2, <4>1
      <4> QED
        BY <4>1, <4>2
    <3> QED
      BY <3>1, <3>2
  <2>3. ToSet(shorter) = {shorter[i] : i \in 1..(n - 1)} /\ ToSet(G) = {G[i] : i \in 1..n}
    BY <1>1, <1>4 DEF ToSet
  <2>4. ToSet(shorter) \subseteq ToSet(G) \ {G[k]}
    BY <2>1, <2>3
  <2>5. ASSUME NEW x \in ToSet(G) \ {G[k]} PROVE x \in ToSet(shorter)
    <3>1. PICK i \in 1..n : x = G[i]
      BY <2>3
    <3>2. i # k
      BY <3>1
    <3> QED
      BY <2>2, <2>3, <3>1, <3>2
  <2> QED
    BY <2>4, <2>5
<1> QED
  BY <1>4, <1>7, <1>8 DEF shorter, n

LEMMA RemoveKeepsExact ==
    ASSUME NEW list, ListExact(list), NEW account \in Accounts
    PROVE  ListExact(RemoveGuard(list, account))
<1>1. CASE ~list.ok \/ list.states[account] = "None"
  BY <1>1 DEF RemoveGuard, ListExact
<1>2. CASE list.ok /\ list.states[account] # "None"
  <2> DEFINE G == list.guards
             At0(i) == G[i] = account /\ \A j \in 1..(i - 1) : G[j] # account
             k == CHOOSE i \in DOMAIN G : At0(i)
             shorter == SwapAndPop(G, k)
             num == IF list.states[account] = "Relaxed" THEN list.num - 1 ELSE list.num
             states == [list.states EXCEPT ![account] = "None"]
             removed == RemoveGuard(list, account)
  <2>1. removed = [list EXCEPT !.num = num, !.guards = shorter, !.states = states]
    BY <1>2 DEF RemoveGuard
  <2>2. /\ removed = [ok |-> removed.ok, guards |-> removed.guards,
                      states |-> removed.states, num |-> removed.num]
        /\ removed.guards = shorter /\ removed.states = states /\ removed.num = num
    BY <2>1 DEF ListExact
  <2>3. /\ G \in Seq(Accounts) /\ Len(G) \in Nat /\ DOMAIN G = 1..Len(G) /\ IsInjective(G)
        /\ ToSet(G) = {a \in Accounts : list.states[a] # "None"}
        /\ list.states \in [Accounts -> GuardStates]
        /\ list.num = Cardinality({a \in Accounts : list.states[a] = "Relaxed"})
    BY LenProperties DEF ListExact, GuardsExact
  <2>4. k \in DOMAIN G /\ G[k] = account
    <3>1. PICK i \in DOMAIN G : G[i] = account
      BY <1>2, <2>3 DEF ToSet
    <3>2. At0(i)
      BY <2>3, <3>1 DEF IsInjective
    <3> HIDE DEF At0
    <3>3. At0(k)
      BY <3>1, <3>2
    <3> QED
      BY <3>1, <3>2, <3>3 DEF At0
  <2> HIDE DEF k
  <2>5. /\ shorter \in Seq(Accounts) /\ IsInjective(shorter)
        /\ ToSet(shorter) = ToSet(G) \ {account}
    BY <2>3, <2>4, SwapAndPopEffect
  <2> HIDE DEF shorter
  <2>6. states \in [Accounts -> GuardStates]
        /\ \A a \in Accounts : states[a] = IF a = account THEN "None" ELSE list.states[a]
    BY <2>3 DEF GuardStates
  <2> HIDE DEF states
  <2>7. ToSet(shorter) = {a \in Accounts : states[a] # "None"}
    BY <2>3, <2>5, <2>6
  <2>8. num = Cardinality({a \in Accounts : states[a] = "Relaxed"})
    <3> DEFINE R == {a \in Accounts : list.states[a] = "Relaxed"}
    <3>1. {a \in Accounts : states[a] = "Relaxed"} = R \ {account}
      BY <2>6
    <3>2. account \in R => Cardinality(R) = Cardinality(R \ {account}) + 1
                           /\ Cardinality(R \ {account}) \in Nat
      BY CountAccounts
    <3>3. account \notin R => R \ {account} = R
      OBVIOUS
    <3>4. account \in R <=> list.states[account] = "Relaxed"
      OBVIOUS
    <3>5. list.num = Cardinality(R)
      BY <2>3
    <3> HIDE DEF R
    <3>6. CASE account \in R
      <4>1. num = list.num - 1
        BY <3>4, <3>6 DEF num
      <4>2. num = Cardinality(R \ {account})
        BY <3>2, <3>5, <3>6, <4>1
      <4> QED
        BY <3>1, <4>2
    <3>7. CASE account \notin R
      <4>1. num = list.num
        BY <3>4, <3>7 DEF num
      <4> QED
        BY <3>1, <3>3, <3>5, <3>7, <4>1
    <3> QED
      BY <3>6, <3>7
  <2> HIDE DEF removed, num, G
  <2>9. ListExact(removed)
    BY <2>2, <2>5, <2>6, <2>7, <2>8 DEF ListExact, GuardsExact
  <2> QED
    BY <2>9 DEF removed
<1> QED
  BY <1>1, <1>2

-----------------------------------------------------------------------------
(* The loops *)

LEMMA GreatestNumber ==
    ASSUME NEW n \in Nat, NEW s \in SUBSET (1..n), s # {}
    PROVE  Max(s) \in s /\ \A y \in s : y <= Max(s)
<1> DEFINE B == {k \in 0..n : \A y \in s : y <= k}
<1>1. n \in B
  OBVIOUS
<1>2. PICK k \in B : \A j \in B : k <= j
  <2>1. B \in SUBSET (0..n) /\ B # {}
    BY <1>1
  <2> HIDE DEF B
  <2> QED
    BY <2>1, LeastNumber
<1>3. k \in s
  <2> SUFFICES ASSUME k \notin s PROVE FALSE
    OBVIOUS
  <2>1. k \in 0..n /\ \A y \in s : y \in 1..n /\ y <= k /\ y # k
    OBVIOUS
  <2>2. PICK y0 \in s : TRUE
    OBVIOUS
  <2>3. k \in 1..n /\ k - 1 \in 0..n
    BY <2>1, <2>2
  <2>4. ASSUME NEW y \in s PROVE y <= k - 1
    <3>1. y \in Int /\ k \in Int /\ y <= k /\ y # k
      BY <2>1
    <3> QED
      BY <3>1
  <2>5. k - 1 \in B
    BY <2>3, <2>4
  <2> QED
    BY <1>2, <2>3, <2>5
<1>4. \E x \in s : \A y \in s : x >= y
  <2>1. \A y \in s : k \in Nat /\ y \in Nat /\ y <= k
    BY <1>2
  <2> QED
    BY <1>3, <2>1
<1>5. Max(s) \in s /\ \A y \in s : Max(s) >= y
  BY <1>4 DEF Max
<1>6. \A y \in s : y \in Nat
  OBVIOUS
<1> QED
  BY <1>5, <1>6

\* What the fold of a loop computes: the list after the rounds of any set of positions.
Removing(g, base, seq, n) ==
    g = [s \in SUBSET (1..n) |->
            IF s = {} THEN base ELSE RemoveGuard(g[s \ {Max(s)}], seq[Max(s)])]
Adding(g, base, seq, n) ==
    g = [s \in SUBSET (1..n) |->
            IF s = {} THEN base ELSE AddGuard(g[s \ {Max(s)}], seq[Max(s)])]

LEMMA RemovingUnfolded ==
    ASSUME NEW base, NEW n, NEW seq, DOMAIN seq = 1..n
    PROVE  FoldLeft(RemoveGuard, base, seq) = (CHOOSE g : Removing(g, base, seq, n))[1..n]
BY DEF FoldLeft, MapThenFoldSet, Removing

LEMMA AddingUnfolded ==
    ASSUME NEW base, NEW n, NEW seq, DOMAIN seq = 1..n
    PROVE  FoldLeft(AddGuard, base, seq) = (CHOOSE g : Adding(g, base, seq, n))[1..n]
BY DEF FoldLeft, MapThenFoldSet, Adding

LEMMA RemovingExists ==
    ASSUME NEW base, NEW seq, NEW n \in Nat
    PROVE  \E g : Removing(g, base, seq, n)
<1> DEFINE B == {m \in 0..n : ~ \E g : Removing(g, base, seq, m)}
<1>1. ASSUME B # {} PROVE FALSE
  <2>1. PICK m \in B : \A j \in B : m <= j
    <3>1. B \in SUBSET (0..n)
      OBVIOUS
    <3> HIDE DEF B
    <3> QED
      BY <1>1, <3>1, LeastNumber
  <2>2. m \in 0..n /\ ~ \E g : Removing(g, base, seq, m)
    OBVIOUS
  <2>3. m # 0
    <3> DEFINE g0 == [s \in SUBSET (1..0) |-> base]
    <3>1. \A s \in SUBSET (1..0) : s = {}
      OBVIOUS
    <3>2. Removing(g0, base, seq, 0)
      BY <3>1 DEF Removing
    <3> HIDE DEF g0
    <3> QED
      BY <2>2, <3>2
  <2>4. m \in 1..n /\ m - 1 \in 0..n /\ m - 1 \notin B
    BY <2>1, <2>2, <2>3
  <2>5. PICK h : Removing(h, base, seq, m - 1)
    BY <2>4
  <2> DEFINE g == [s \in SUBSET (1..m) |-> IF m \in s THEN RemoveGuard(h[s \ {m}], seq[m])
                                           ELSE h[s]]
  <2>6. ASSUME NEW s \in SUBSET (1..m)
        PROVE  g[s] = IF s = {} THEN base ELSE RemoveGuard(g[s \ {Max(s)}], seq[Max(s)])
    <3>1. CASE m \in s
      <4>1. Max(s) = m
        <5>1. m \in Nat /\ s # {}
          BY <2>4, <3>1
        <5>2. Max(s) \in s /\ m <= Max(s)
          BY <3>1, <5>1, GreatestNumber
        <5>3. Max(s) \in 1..m
          BY <5>2
        <5> QED
          BY <5>1, <5>2, <5>3
      <4>2. s \ {m} \in SUBSET (1..m) /\ m \notin s \ {m} /\ s # {}
        BY <3>1
      <4>3. g[s] = RemoveGuard(h[s \ {m}], seq[m]) /\ g[s \ {m}] = h[s \ {m}]
        BY <3>1, <4>2
      <4> HIDE DEF g
      <4> QED
        BY <4>1, <4>2, <4>3
    <3>2. CASE m \notin s
      <4>1. s \in SUBSET (1..(m - 1)) /\ m - 1 \in Nat
        BY <2>4, <3>2
      <4>2. h[s] = IF s = {} THEN base ELSE RemoveGuard(h[s \ {Max(s)}], seq[Max(s)])
        BY <2>5, <4>1 DEF Removing
      <4>3. s \ {Max(s)} \in SUBSET (1..m) /\ m \notin s \ {Max(s)}
        BY <3>2
      <4>4. g[s] = h[s] /\ g[s \ {Max(s)}] = h[s \ {Max(s)}]
        BY <3>2, <4>3
      <4> HIDE DEF g
      <4> QED
        BY <4>2, <4>4
    <3> QED
      BY <3>1, <3>2
  <2>7. Removing(g, base, seq, m)
    <3>1. g = [s \in SUBSET (1..m) |-> g[s]]
      OBVIOUS
    <3> HIDE DEF g
    <3> QED
      BY <2>6, <3>1 DEF Removing
  <2> HIDE DEF g
  <2> QED
    BY <2>2, <2>7
<1>2. n \in 0..n
  OBVIOUS
<1> QED
  BY <1>1, <1>2

\* The loop keeps the list of guards exact.
LEMMA RemovingKeeps ==
    ASSUME NEW base, ListExact(base), NEW seq \in Seq(Accounts)
    PROVE  ListExact(FoldLeft(RemoveGuard, base, seq))
<1> DEFINE n == Len(seq)
           fold == CHOOSE g : Removing(g, base, seq, n)
           wrong == {s \in SUBSET (1..n) : ~ListExact(fold[s])}
<1>1. n \in Nat /\ DOMAIN seq = 1..n /\ \A i \in 1..n : seq[i] \in Accounts
  BY LenProperties, ElementOfSeq
<1> HIDE DEF n
<1>2. Removing(fold, base, seq, n)
  BY <1>1, RemovingExists
<1>3. FoldLeft(RemoveGuard, base, seq) = fold[1..n]
  BY <1>1, RemovingUnfolded
<1> HIDE DEF fold
<1>4. ASSUME wrong # {} PROVE FALSE
  <2>1. PICK s \in wrong : \A t \in wrong : t \subseteq s => t = s
    <3> DEFINE S == 1..n
    <3>1. wrong \in SUBSET SUBSET S /\ IsFiniteSet(S)
      BY <1>1, FS_Interval
    <3> HIDE DEF wrong, S
    <3>2. \E U \in wrong : IsFiniteSet(U) /\ \A V \in wrong : V \subseteq U => V = U
      BY <1>4, <3>1, MinimalSet
    <3> QED
      BY <3>2
  <2>2. s # {}
    BY <1>2, <2>1 DEF Removing
  <2>3. Max(s) \in s /\ Max(s) \in 1..n
    BY <1>1, <2>2, GreatestNumber
  <2>4. s \ {Max(s)} \in SUBSET (1..n) /\ s \ {Max(s)} \notin wrong
    BY <2>1, <2>3
  <2>5. ListExact(fold[s \ {Max(s)}])
    BY <2>4
  <2>6. fold[s] = RemoveGuard(fold[s \ {Max(s)}], seq[Max(s)])
    BY <1>2, <2>2 DEF Removing
  <2> QED
    BY <1>1, <2>3, <2>5, <2>6, RemoveKeepsExact
<1>5. 1..n \in SUBSET (1..n)
  OBVIOUS
<1> QED
  BY <1>3, <1>4, <1>5

LEMMA AddingExists ==
    ASSUME NEW base, NEW seq, NEW n \in Nat
    PROVE  \E g : Adding(g, base, seq, n)
<1> DEFINE B == {m \in 0..n : ~ \E g : Adding(g, base, seq, m)}
<1>1. ASSUME B # {} PROVE FALSE
  <2>1. PICK m \in B : \A j \in B : m <= j
    <3>1. B \in SUBSET (0..n)
      OBVIOUS
    <3> HIDE DEF B
    <3> QED
      BY <1>1, <3>1, LeastNumber
  <2>2. m \in 0..n /\ ~ \E g : Adding(g, base, seq, m)
    OBVIOUS
  <2>3. m # 0
    <3> DEFINE g0 == [s \in SUBSET (1..0) |-> base]
    <3>1. \A s \in SUBSET (1..0) : s = {}
      OBVIOUS
    <3>2. Adding(g0, base, seq, 0)
      BY <3>1 DEF Adding
    <3> HIDE DEF g0
    <3> QED
      BY <2>2, <3>2
  <2>4. m \in 1..n /\ m - 1 \in 0..n /\ m - 1 \notin B
    BY <2>1, <2>2, <2>3
  <2>5. PICK h : Adding(h, base, seq, m - 1)
    BY <2>4
  <2> DEFINE g == [s \in SUBSET (1..m) |-> IF m \in s THEN AddGuard(h[s \ {m}], seq[m])
                                           ELSE h[s]]
  <2>6. ASSUME NEW s \in SUBSET (1..m)
        PROVE  g[s] = IF s = {} THEN base ELSE AddGuard(g[s \ {Max(s)}], seq[Max(s)])
    <3>1. CASE m \in s
      <4>1. Max(s) = m
        <5>1. m \in Nat /\ s # {}
          BY <2>4, <3>1
        <5>2. Max(s) \in s /\ m <= Max(s)
          BY <3>1, <5>1, GreatestNumber
        <5>3. Max(s) \in 1..m
          BY <5>2
        <5> QED
          BY <5>1, <5>2, <5>3
      <4>2. s \ {m} \in SUBSET (1..m) /\ m \notin s \ {m} /\ s # {}
        BY <3>1
      <4>3. g[s] = AddGuard(h[s \ {m}], seq[m]) /\ g[s \ {m}] = h[s \ {m}]
        BY <3>1, <4>2
      <4> HIDE DEF g
      <4> QED
        BY <4>1, <4>2, <4>3
    <3>2. CASE m \notin s
      <4>1. s \in SUBSET (1..(m - 1)) /\ m - 1 \in Nat
        BY <2>4, <3>2
      <4>2. h[s] = IF s = {} THEN base ELSE AddGuard(h[s \ {Max(s)}], seq[Max(s)])
        BY <2>5, <4>1 DEF Adding
      <4>3. s \ {Max(s)} \in SUBSET (1..m) /\ m \notin s \ {Max(s)}
        BY <3>2
      <4>4. g[s] = h[s] /\ g[s \ {Max(s)}] = h[s \ {Max(s)}]
        BY <3>2, <4>3
      <4> HIDE DEF g
      <4> QED
        BY <4>2, <4>4
    <3> QED
      BY <3>1, <3>2
  <2>7. Adding(g, base, seq, m)
    <3>1. g = [s \in SUBSET (1..m) |-> g[s]]
      OBVIOUS
    <3> HIDE DEF g
    <3> QED
      BY <2>6, <3>1 DEF Adding
  <2> HIDE DEF g
  <2> QED
    BY <2>2, <2>7
<1>2. n \in 0..n
  OBVIOUS
<1> QED
  BY <1>1, <1>2

\* The loop keeps the list of guards exact.
LEMMA AddingKeeps ==
    ASSUME NEW base, ListExact(base), NEW seq \in Seq(Accounts)
    PROVE  ListExact(FoldLeft(AddGuard, base, seq))
<1> DEFINE n == Len(seq)
           fold == CHOOSE g : Adding(g, base, seq, n)
           wrong == {s \in SUBSET (1..n) : ~ListExact(fold[s])}
<1>1. n \in Nat /\ DOMAIN seq = 1..n /\ \A i \in 1..n : seq[i] \in Accounts
  BY LenProperties, ElementOfSeq
<1> HIDE DEF n
<1>2. Adding(fold, base, seq, n)
  BY <1>1, AddingExists
<1>3. FoldLeft(AddGuard, base, seq) = fold[1..n]
  BY <1>1, AddingUnfolded
<1> HIDE DEF fold
<1>4. ASSUME wrong # {} PROVE FALSE
  <2>1. PICK s \in wrong : \A t \in wrong : t \subseteq s => t = s
    <3> DEFINE S == 1..n
    <3>1. wrong \in SUBSET SUBSET S /\ IsFiniteSet(S)
      BY <1>1, FS_Interval
    <3> HIDE DEF wrong, S
    <3>2. \E U \in wrong : IsFiniteSet(U) /\ \A V \in wrong : V \subseteq U => V = U
      BY <1>4, <3>1, MinimalSet
    <3> QED
      BY <3>2
  <2>2. s # {}
    BY <1>2, <2>1 DEF Adding
  <2>3. Max(s) \in s /\ Max(s) \in 1..n
    BY <1>1, <2>2, GreatestNumber
  <2>4. s \ {Max(s)} \in SUBSET (1..n) /\ s \ {Max(s)} \notin wrong
    BY <2>1, <2>3
  <2>5. ListExact(fold[s \ {Max(s)}])
    BY <2>4
  <2>6. fold[s] = AddGuard(fold[s \ {Max(s)}], seq[Max(s)])
    BY <1>2, <2>2 DEF Adding
  <2> QED
    BY <1>1, <2>3, <2>5, <2>6, AddKeepsExact
<1>5. 1..n \in SUBSET (1..n)
  OBVIOUS
<1> QED
  BY <1>3, <1>4, <1>5

-----------------------------------------------------------------------------
(* The Sentinel's mode *)

GuardsChange(from, call) == Guard(from, call) \/ Relax(from, call) \/ UpdateGuards(from, call)

LEMMA CallsThatGuard ==
    ASSUME NEW from, NEW call, ContractCall(from, call)
    PROVE  UNCHANGED guardVars \/ GuardsChange(from, call)
<1>1. CASE call.to # SentinelAddress /\ AdminCall(from, call) /\ UNCHANGED sentinelVars
  BY <1>1 DEF sentinelVars
<1>2. CASE SentinelCall(from, call)
  BY <1>2 DEF SentinelCall, GuardsChange, PauseTargets, UpdatePausers, AddSentinelGovernors,
              RemoveSentinelGovernors, RelaySet, sentinelVars
<1> QED
  BY <1>1, <1>2 DEF ContractCall

LEMMA StepsThatGuard ==
    ASSUME [Next]_vars
    PROVE  UNCHANGED guardVars \/ \E from, call : GuardsChange(from, call)
<1>1. CASE Start \/ Reuse \/ SendTransaction \/ Reject \/ ThrowError \/ VerifySource
           \/ FindLog \/ Finish \/ Kill \/ MineRevert
  BY <1>1 DEF Start, Reuse, SendTransaction, Reject, ThrowError, VerifySource, FindLog, Finish,
              Kill, MineRevert, chainVars, sentinelVars
<1>2. CASE MineSuccess
  BY <1>2, CallsThatGuard DEF MineSuccess, Effect, sentinelVars
<1>3. CASE PersonCalls
  BY <1>3, CallsThatGuard DEF PersonCalls
<1>4. CASE SomeonePropose \/ SomeoneVotes \/ TimePasses
  BY <1>4 DEF SomeonePropose, SomeoneVotes, TimePasses, Propose, ProposeThroughProxy,
              CreateProposal, VoteProposal, Tick, sentinelVars
<1>5. CASE SomeoneExecutes
  <2>1. PICK voter, id : ExecuteProposal(voter, id)
    BY <1>5 DEF SomeoneExecutes
  <2>2. ContractCall(GovAddress, proposals[id].call) \/ UNCHANGED sentinelVars
    BY <2>1 DEF ExecuteProposal
  <2> QED
    BY <2>2, CallsThatGuard DEF sentinelVars
<1>6. CASE UNCHANGED vars
  BY <1>6 DEF vars, sentinelVars
<1> QED
  BY <1>1, <1>2, <1>3, <1>4, <1>5, <1>6 DEF Next

LEMMA GuardKeepsMode ==
    ASSUME SentinelInv, NEW from, NEW call, Guard(from, call) \/ Relax(from, call)
    PROVE  SentinelInv'
<1> DEFINE R == {a \in Accounts : guardStates[a] = "Relaxed"}
<1>1. /\ guards \in Seq(Accounts) /\ guardStates \in [Accounts -> GuardStates]
      /\ IsInjective(guards) /\ ToSet(guards) = {a \in Accounts : guardStates[a] # "None"}
      /\ numRelaxedGuards = Cardinality(R)
  BY DEF SentinelInv, GuardsExact
<1>2. /\ guards' = guards /\ relaxThreshold' = relaxThreshold
      /\ relaxed' = (numRelaxedGuards' >= relaxThreshold') /\ from \in Accounts
  BY DEF Guard, Relax, UpdateRelaxed
<1>3. /\ guardStates' \in [Accounts -> GuardStates]
      /\ \A a \in Accounts : guardStates'[a] # "None" <=> guardStates[a] # "None"
  BY <1>1 DEF Guard, Relax, GuardStates
<1>4. numRelaxedGuards' = Cardinality({a \in Accounts : guardStates'[a] = "Relaxed"})
  <2>1. CASE Guard(from, call)
    <3>1. {a \in Accounts : guardStates'[a] = "Relaxed"} = R \ {from} /\ from \in R
      BY <1>1, <2>1 DEF Guard
    <3>2. R \ {from} \in SUBSET Accounts /\ R \in SUBSET Accounts
      OBVIOUS
    <3> HIDE DEF R
    <3>3. Cardinality(R) = Cardinality(R \ {from}) + 1 /\ Cardinality(R \ {from}) \in Nat
      BY <1>2, <3>1, <3>2, CountAccounts
    <3>4. numRelaxedGuards' = Cardinality(R) - 1
      BY <1>1, <2>1 DEF Guard
    <3>5. numRelaxedGuards' = Cardinality(R \ {from})
      BY <3>3, <3>4
    <3> QED
      BY <3>1, <3>5
  <2>2. CASE Relax(from, call)
    <3>1. {a \in Accounts : guardStates'[a] = "Relaxed"} = R \cup {from} /\ from \notin R
      BY <1>1, <2>2 DEF Relax
    <3>2. R \in SUBSET Accounts
      OBVIOUS
    <3> HIDE DEF R
    <3>3. Cardinality(R \cup {from}) = Cardinality(R) + 1
      BY <1>2, <3>1, <3>2, CountAccounts
    <3>4. numRelaxedGuards' = Cardinality(R) + 1
      BY <1>1, <2>2 DEF Relax
    <3> QED
      BY <3>1, <3>3, <3>4
  <2> QED
    BY <2>1, <2>2
<1>5. ToSet(guards') = {a \in Accounts : guardStates'[a] # "None"}
  BY <1>1, <1>2, <1>3
<1>6. relaxThreshold' <= Len(guards')
  BY <1>2 DEF SentinelInv
<1> QED
  BY <1>1, <1>2, <1>3, <1>4, <1>5, <1>6 DEF SentinelInv, GuardsExact

LEMMA UpdateKeepsMode ==
    ASSUME SentinelInv, NEW from, NEW call, UpdateGuards(from, call)
    PROVE  SentinelInv'
<1> DEFINE removed == FoldLeft(RemoveGuard, GuardList, call.values)
           updated == FoldLeft(AddGuard, removed, call.keys)
<1>1. ListExact(GuardList)
  BY DEF ListExact, GuardList, SentinelInv
<1>2. call.keys \in Seq(Accounts) /\ call.values \in Seq(Accounts)
  BY DEF UpdateGuards
<1>3. ListExact(removed)
  BY <1>1, <1>2, RemovingKeeps
<1>4. /\ guards' = updated.guards /\ guardStates' = updated.states
      /\ numRelaxedGuards' = updated.num /\ relaxThreshold' = call.threshold
      /\ relaxed' = (updated.num >= call.threshold) /\ call.threshold <= Len(updated.guards)
  BY DEF UpdateGuards, UpdateRelaxed
<1> HIDE DEF removed
<1>5. ListExact(updated)
  BY <1>2, <1>3, AddingKeeps
<1> HIDE DEF updated
<1> QED
  BY <1>4, <1>5 DEF SentinelInv, GuardsExact, ListExact

LEMMA SentinelInitially == Init => SentinelInv
<1> SUFFICES ASSUME Init PROVE SentinelInv
  OBVIOUS
<1> DEFINE list == Here.guards
<1>1. list \in Seq(Accounts) /\ IsInjective(list)
  BY OperationsAssumption DEF Init, Here
<1>2. /\ guards = list /\ numRelaxedGuards = 0 /\ relaxThreshold = Len(list)
      /\ guardStates = [a \in Accounts |-> IF a \in ToSet(list) THEN "Guarded" ELSE "None"]
      /\ relaxed = (Len(list) = 0)
  BY DEF Init, InitSentinel
<1> HIDE DEF list
<1>3. Len(list) \in Nat /\ \A i \in DOMAIN list : list[i] \in Accounts
  BY <1>1, LenProperties, ElementOfSeq
<1>4. ToSet(list) \subseteq Accounts
  BY <1>3 DEF ToSet
<1>5. guardStates \in [Accounts -> GuardStates]
  BY <1>2 DEF GuardStates
<1>6. ToSet(list) = {a \in Accounts : guardStates[a] # "None"}
  BY <1>2, <1>4
<1>7. {a \in Accounts : guardStates[a] = "Relaxed"} = {}
  BY <1>2
<1>8. numRelaxedGuards = Cardinality({a \in Accounts : guardStates[a] = "Relaxed"})
  BY <1>2, <1>7, FS_EmptySet
<1>9. relaxed = (numRelaxedGuards >= relaxThreshold) /\ relaxThreshold <= Len(guards)
  BY <1>2, <1>3
<1> QED
  BY <1>1, <1>2, <1>5, <1>6, <1>8, <1>9 DEF SentinelInv, GuardsExact

\* The Sentinel's cached mode says whether enough of its guards have relaxed, in
\* every session: whatever accounts are added, removed, guarded and relaxed, in
\* lists of any length, and whoever else acts.
THEOREM RelaxedExactCorrect == Spec => []RelaxedExact
<1>1. SentinelInv => RelaxedExact
  BY DEF SentinelInv, GuardsExact, RelaxedExact
<1>2. SentinelInv /\ [Next]_vars => SentinelInv'
  <2> SUFFICES ASSUME SentinelInv, [Next]_vars PROVE SentinelInv'
    OBVIOUS
  <2>1. CASE UNCHANGED guardVars
    BY <2>1 DEF guardVars, SentinelInv, GuardsExact, IsInjective, ToSet
  <2> QED
    BY <2>1, StepsThatGuard, GuardKeepsMode, UpdateKeepsMode DEF GuardsChange
<1> QED
  BY <1>1, <1>2, SentinelInitially, PTL DEF Spec

-----------------------------------------------------------------------------
(* What only the owner of a contract can do to it *)

\* An account of a role is a record of four fields.
AccessTyped ==
    \A a \in DOMAIN access :
        access[a] = [owner |-> access[a].owner, pausers |-> access[a].pausers,
                     governors |-> access[a].governors, paused |-> access[a].paused]

RolesGranted(a) ==
    \/ access'[a].owner # access[a].owner
    \/ ~(access'[a].pausers \subseteq access[a].pausers)
    \/ ~(access'[a].governors \subseteq access[a].governors)

OwnerOnly(a) == OwnerSetters(NameOf(a)) \cup {"resetSigners", "resetTime"}

SettingUsed(a) ==
    \E k \in DOMAIN settings' :
        /\ k[1] = a /\ k[2] \in OwnerOnly(a)
        /\ k \in DOMAIN settings => settings'[k] # settings[k]

GuardsUsed == ToSet(guards') # ToSet(guards) \/ relaxThreshold' # relaxThreshold

LEMMA OwnerPowerParts ==
    ASSUME NEW a
    PROVE  OwnerPowerUsed(a) <=>
               RolesGranted(a) \/ SettingUsed(a) \/ (a = SentinelAddress /\ GuardsUsed)
BY DEF OwnerPowerUsed, RolesGranted, SettingUsed, GuardsUsed, OwnerOnly

\* No setter is both an owner's and a governor's, and neither is initGov.
LEMMA SettersDiffer ==
    ASSUME NEW a
    PROVE  /\ GovernorSetters(NameOf(a)) \cap OwnerOnly(a) = {}
           /\ "initGov" \notin OwnerOnly(a)
<1> DEFINE name == NameOf(a)
<1> HIDE DEF name
<1>1. /\ GovernorSetters(name) \cap (OwnerSetters(name) \cup {"resetSigners", "resetTime"}) = {}
      /\ "initGov" \notin OwnerSetters(name) \cup {"resetSigners", "resetTime"}
  BY DEF GovernorSetters, OwnerSetters, SafeguardSetters, BusSetters
<1> QED
  BY <1>1 DEF OwnerOnly, name

LEMMA EntryChange ==
    ASSUME NEW f, NEW key, NEW value, NEW k \in DOMAIN WithEntry(f, key, value),
           k \in DOMAIN f => WithEntry(f, key, value)[k] # f[k]
    PROVE  k = key
BY DEF WithEntry

LEMMA SetByOwner ==
    ASSUME NEW from, NEW call, Set(from, call), NEW a, SettingUsed(a)
    PROVE  access[a].owner = from
<1>1. PICK k \in DOMAIN settings' :
          /\ k[1] = a /\ k[2] \in OwnerOnly(a)
          /\ k \in DOMAIN settings => settings'[k] # settings[k]
  BY DEF SettingUsed
<1>2. PICK i \in DOMAIN call.keys : k = <<call.target, call.method, call.keys[i]>>
  BY <1>1 DEF Set, Written
<1>4. call.target = a /\ call.method \in OwnerOnly(a)
  BY <1>1, <1>2
<1>5. call.method \notin GovernorSetters(NameOf(a))
  BY <1>4, SettersDiffer
<1> QED
  BY <1>4, <1>5 DEF Set, MayCall, OnlyOwner

LEMMA SignersByOwner ==
    ASSUME NEW from, NEW call, NEW a, SettingUsed(a),
           NotifyResetSigners(from, call) \/ ResetSigners(from, call) \/ InitGov(from, call)
    PROVE  access[a].owner = from
<1> DEFINE resetTime == <<call.target, "resetTime", Only>>
           reset == <<call.target, "resetSigners", Only>>
           gov == <<call.target, "initGov", Only>>
<1>1. PICK k \in DOMAIN settings' :
          /\ k[1] = a /\ k[2] \in OwnerOnly(a)
          /\ k \in DOMAIN settings => settings'[k] # settings[k]
  BY DEF SettingUsed
<1>2. CASE NotifyResetSigners(from, call)
  <2>1. settings' = WithEntry(settings, resetTime, "noticed")
    BY <1>2 DEF NotifyResetSigners
  <2>2. k = resetTime
    <3> HIDE DEF resetTime
    <3> QED BY <1>1, <2>1, EntryChange
  <2> QED
    BY <1>1, <1>2, <2>2 DEF NotifyResetSigners, OnlyOwner
<1>3. CASE ResetSigners(from, call)
  <2>1. settings' = WithEntry(WithEntry(settings, reset, <<call.keys, call.values>>),
                              resetTime, "never")
    BY <1>3 DEF ResetSigners
  <2>2. k \in {resetTime, reset}
    <3> HIDE DEF resetTime, reset
    <3> QED BY <1>1, <2>1 DEF WithEntry
  <2> QED
    BY <1>1, <1>3, <2>2 DEF ResetSigners, OnlyOwner
<1>4. CASE InitGov(from, call)
  <2>1. settings' = WithEntry(settings, gov, call.values[1])
    BY <1>4 DEF InitGov
  <2>2. k = gov
    <3> HIDE DEF gov
    <3> QED BY <1>1, <2>1, EntryChange
  <2> QED
    BY <1>1, <2>2, SettersDiffer
<1> QED
  BY <1>2, <1>3, <1>4

\* Whoever grants roles or hands over a contract by a call owns it.
LEMMA RolesByOwner ==
    ASSUME AccessTyped, NEW from, NEW call, AdminCall(from, call),
           NEW a \in DOMAIN access, RolesGranted(a)
    PROVE  access[a].owner = from
<1>1. CASE TransferOwnership(from, call) \/ AddPauser(from, call) \/ AddGovernor(from, call)
  BY <1>1 DEF TransferOwnership, AddPauser, AddGovernor, OnlyOwner, RolesGranted, AccessTyped
<1>2. CASE RemovePauser(from, call) \/ RemoveGovernor(from, call) \/ Pause(from, call)
  BY <1>2 DEF RemovePauser, RemoveGovernor, Pause, RolesGranted, AccessTyped
<1>3. CASE UNCHANGED access
  BY <1>3 DEF RolesGranted
<1>4. CASE CreateStandardERC20(from, call)
  BY <1>4 DEF CreateStandardERC20, Unused, WithEntry, RolesGranted
<1> QED
  BY <1>1, <1>2, <1>3, <1>4 DEF AdminCall, Set, NotifyResetSigners, ResetSigners, InitGov

LEMMA SettingsByOwner ==
    ASSUME NEW from, NEW call, AdminCall(from, call), NEW a, SettingUsed(a)
    PROVE  access[a].owner = from
<1>1. CASE UNCHANGED settings
  BY <1>1 DEF SettingUsed
<1>2. CASE ~UNCHANGED settings
  BY <1>2, SetByOwner, SignersByOwner
  DEF AdminCall, TransferOwnership, AddPauser, RemovePauser, AddGovernor, RemoveGovernor, Pause,
      CreateStandardERC20
<1> QED
  BY <1>1, <1>2

LEMMA RelaysByOwner ==
    ASSUME AccessTyped, NEW from, NEW call, SentinelCall(from, call),
           NEW a \in DOMAIN access, OwnerPowerUsed(a)
    PROVE  access[a].owner \in {from, SentinelAddress}
<1>1. CASE UNCHANGED <<access, settings, guards, relaxThreshold>>
  BY <1>1, OwnerPowerParts DEF RolesGranted, SettingUsed, GuardsUsed
<1>2. CASE UpdateGuards(from, call)
  BY <1>2, OwnerPowerParts
  DEF UpdateGuards, adminVars, OnlyOwner, RolesGranted, SettingUsed
<1>3. CASE PauseTargets(from, call)
  <2>1. access'[a] = access[a] \/ access'[a] = [access[a] EXCEPT !.paused = call.method = "pause"]
    BY <1>3 DEF PauseTargets
  <2>2. ~RolesGranted(a)
    BY <2>1 DEF RolesGranted, AccessTyped
  <2> QED
    BY <1>3, <2>2, OwnerPowerParts
    DEF PauseTargets, sentinelVars, guardVars, SettingUsed, GuardsUsed
<1>4. CASE RelaySet(from, call)
  <2>1. Set(SentinelAddress, call) /\ UNCHANGED <<access, guards, relaxThreshold>>
    BY <1>4 DEF RelaySet, Set, sentinelVars, guardVars
  <2> QED
    BY <2>1, SetByOwner, OwnerPowerParts DEF RolesGranted, GuardsUsed
<1>5. CASE TransferOwnership(from, call) /\ UNCHANGED sentinelVars
  <2>1. AdminCall(from, call) /\ UNCHANGED <<guards, relaxThreshold>>
    BY <1>5 DEF AdminCall, sentinelVars, guardVars
  <2> QED
    BY <2>1, RolesByOwner, SettingsByOwner, OwnerPowerParts DEF GuardsUsed
<1> QED
  BY <1>1, <1>2, <1>3, <1>4, <1>5
  DEF SentinelCall, Guard, Relax, UpdatePausers, AddSentinelGovernors, RemoveSentinelGovernors,
      adminVars, guardVars

\* A call by which an owner's power is used on a contract comes from its owner,
\* if not from the Sentinel.
LEMMA CallsByOwner ==
    ASSUME AccessTyped, NEW from, NEW call, ContractCall(from, call),
           NEW a \in DOMAIN access, OwnerPowerUsed(a)
    PROVE  access[a].owner \in {from, SentinelAddress}
<1>1. CASE AdminCall(from, call) /\ UNCHANGED sentinelVars
  BY <1>1, RolesByOwner, SettingsByOwner, OwnerPowerParts DEF sentinelVars, guardVars, GuardsUsed
<1> QED
  BY <1>1, RelaysByOwner DEF ContractCall

LEMMA DeploymentsGrantNothing ==
    ASSUME NEW tx, Create(tx) \/ CreateProxy(tx) \/ UpgradeProxy(tx), UNCHANGED sentinelVars,
           NEW a \in DOMAIN access
    PROVE  ~OwnerPowerUsed(a)
<1>1. UNCHANGED <<settings, guards, relaxThreshold>>
  BY DEF Create, CreateProxy, UpgradeProxy, sentinelVars, guardVars
<1>2. access'[a] = access[a]
  BY DEF Create, CreateProxy, UpgradeProxy, Unused, WithEntry
<1> QED
  BY <1>1, <1>2, OwnerPowerParts DEF RolesGranted, SettingUsed, GuardsUsed

LEMMA AccessTypedInitially == Init => AccessTyped
<1> SUFFICES ASSUME Init, NEW a \in DOMAIN access
             PROVE  access[a] = [owner |-> access[a].owner, pausers |-> access[a].pausers,
                                 governors |-> access[a].governors, paused |-> access[a].paused]
  BY DEF AccessTyped
<1>1. PICK name, owner : access[a] = PresetAccess(name, owner)
  BY DEF Init, InitContracts
<1> QED
  BY <1>1 DEF PresetAccess, ConstructorAccess

LEMMA CreatedTyped ==
    ASSUME AccessTyped, NEW address, NEW name, NEW creator,
           \/ access' = WithEntry(access, address, ConstructorAccess(name, creator))
           \/ access' = WithEntry(access, address, InitAccess(creator))
    PROVE  AccessTyped'
<1> SUFFICES ASSUME NEW a \in DOMAIN access'
             PROVE  access'[a] = [owner |-> access'[a].owner, pausers |-> access'[a].pausers,
                                  governors |-> access'[a].governors, paused |-> access'[a].paused]
  BY DEF AccessTyped
<1>1. CASE a = address
  BY <1>1 DEF WithEntry, ConstructorAccess, InitAccess
<1>2. CASE a # address
  BY <1>2 DEF WithEntry, AccessTyped
<1> QED
  BY <1>1, <1>2

LEMMA CallsKeepAccessTyped ==
    ASSUME AccessTyped, NEW from, NEW call, ContractCall(from, call)
    PROVE  AccessTyped'
<1>1. CASE UNCHANGED access
  BY <1>1 DEF AccessTyped
<1>2. CASE TransferOwnership(from, call)
  BY <1>2 DEF TransferOwnership, AccessTyped
<1>3. CASE AddPauser(from, call) \/ RemovePauser(from, call)
  BY <1>3 DEF AddPauser, RemovePauser, AccessTyped
<1>4. CASE AddGovernor(from, call) \/ RemoveGovernor(from, call)
  BY <1>4 DEF AddGovernor, RemoveGovernor, AccessTyped
<1>5. CASE Pause(from, call)
  BY <1>5 DEF Pause, AccessTyped
<1>6. CASE PauseTargets(from, call)
  BY <1>6 DEF PauseTargets, AccessTyped
<1>7. CASE CreateStandardERC20(from, call)
  BY <1>7, CreatedTyped DEF CreateStandardERC20
<1>8. AdminCall(from, call) \/ SentinelCall(from, call)
  BY DEF ContractCall
<1> QED
  BY <1>1, <1>2, <1>3, <1>4, <1>5, <1>6, <1>7, <1>8
  DEF AdminCall, SentinelCall, Set, NotifyResetSigners, ResetSigners, InitGov, Guard, Relax,
      UpdateGuards, UpdatePausers, AddSentinelGovernors, RemoveSentinelGovernors, RelaySet,
      adminVars

-----------------------------------------------------------------------------
(* The steps, by who takes them *)

Outsiders == {Deployer} \cup {move.from : move \in Here.moves}

LEMMA ScriptSteps ==
    ASSUME \/ Start \/ Reuse \/ SendTransaction \/ Reject \/ ThrowError \/ VerifySource
           \/ FindLog \/ Finish \/ Kill \/ MineRevert
    PROVE  UNCHANGED chainVars
<1>1. CASE Start
  <2>1. UNCHANGED <<session, pool, store, crashes, chainVars>>
    BY <1>1, Zenon DEF Start
  <2> QED
    BY <2>1
<1>2. CASE Reuse \/ SendTransaction \/ Reject
  BY <1>2 DEF Reuse, SendTransaction, Reject
<1>3. CASE ThrowError \/ VerifySource \/ FindLog
  BY <1>3 DEF ThrowError, VerifySource, FindLog
<1>4. CASE Finish \/ Kill \/ MineRevert
  BY <1>4 DEF Finish, Kill, MineRevert
<1> QED
  BY <1>1, <1>2, <1>3, <1>4

LEMMA EveryStep ==
    ASSUME [Next]_vars
    PROVE  \/ UNCHANGED <<adminVars, sentinelVars>>
           \/ \E from \in Outsiders : \E call : ContractCall(from, call)
           \/ /\ UNCHANGED sentinelVars
              /\ \E tx : Create(tx) \/ CreateProxy(tx) \/ UpgradeProxy(tx)
           \/ \E voter \in Voters, id \in DOMAIN proposals : ExecuteProposal(voter, id)
<1>1. CASE Start \/ Reuse \/ SendTransaction \/ Reject \/ ThrowError \/ VerifySource
           \/ FindLog \/ Finish \/ Kill \/ MineRevert
  BY <1>1, ScriptSteps DEF chainVars
<1>2. CASE MineSuccess
  BY <1>2 DEF MineSuccess, Effect, Outsiders
<1>3. CASE PersonCalls
  BY <1>3 DEF PersonCalls, Outsiders
<1>4. CASE SomeonePropose \/ SomeoneVotes \/ TimePasses
  BY <1>4 DEF SomeonePropose, SomeoneVotes, TimePasses, Propose, ProposeThroughProxy,
              CreateProposal, VoteProposal, Tick
<1>5. CASE SomeoneExecutes
  BY <1>5 DEF SomeoneExecutes
<1>6. CASE UNCHANGED vars
  BY <1>6 DEF vars
<1> QED
  BY <1>1, <1>2, <1>3, <1>4, <1>5, <1>6 DEF Next

LEMMA StepsKeepAccessTyped ==
    ASSUME AccessTyped, [Next]_vars
    PROVE  AccessTyped'
<1>1. CASE UNCHANGED access
  BY <1>1 DEF AccessTyped
<1>2. ASSUME NEW from, NEW call, ContractCall(from, call) PROVE AccessTyped'
  BY <1>2, CallsKeepAccessTyped
<1>3. ASSUME NEW tx, Create(tx) \/ CreateProxy(tx) PROVE AccessTyped'
  BY <1>3, CreatedTyped DEF Create, CreateProxy
<1>4. ASSUME NEW tx, UpgradeProxy(tx) PROVE AccessTyped'
  BY <1>1, <1>4 DEF UpgradeProxy
<1>5. ASSUME NEW voter, NEW id, ExecuteProposal(voter, id) PROVE AccessTyped'
  BY <1>1, <1>2, <1>5 DEF ExecuteProposal, adminVars
<1> QED
  BY <1>1, <1>2, <1>3, <1>4, <1>5, EveryStep DEF adminVars

-----------------------------------------------------------------------------
(* The state of the governance *)

Proposal ==
    [type : {"Internal", "Default", "FastPass"}, call : Here.proposals, deadline : Nat,
     votes : SUBSET Accounts]

\* Only the owner proxy makes a fast pass, and only of what it may propose as one.
ProposalsFitType ==
    \A id \in DOMAIN proposals :
        proposals[id].type = "FastPass" => proposals[id].call.method \in FastPassMethods

GovernanceInv ==
    /\ session \in DOMAIN Sessions /\ now \in Nat
    /\ voterPowers \in [Accounts -> Nat]
    /\ params \in [ActivePeriod : Nat, QuorumThreshold : Nat, FastPassThreshold : Nat]
    /\ params.QuorumThreshold >= params.FastPassThreshold
    /\ proposals \in Seq(Proposal)
    /\ ProposalsFitType

LEMMA GovernanceInitially == Init => GovernanceInv
<1> SUFFICES ASSUME Init PROVE GovernanceInv
  OBVIOUS
<1>1. /\ session \in DOMAIN Sessions
      /\ \A a \in DOMAIN Here.powers : Here.powers[a] \in Nat
      /\ Here.period \in Nat /\ Here.quorum \in Nat /\ Here.fastPass \in Nat
      /\ Here.quorum >= Here.fastPass
  BY OperationsAssumption DEF Init, Here
<1>2. InitGovernance(Here.powers, Here.proxies, Here.period, Here.quorum, Here.fastPass)
  BY DEF Init
<1>3. now \in Nat /\ voterPowers \in [Accounts -> Nat]
  BY <1>1, <1>2 DEF InitGovernance
<1>4. /\ params \in [ActivePeriod : Nat, QuorumThreshold : Nat, FastPassThreshold : Nat]
      /\ params.QuorumThreshold >= params.FastPassThreshold
  BY <1>1, <1>2 DEF InitGovernance
<1>5. proposals \in Seq(Proposal) /\ DOMAIN proposals = {}
  BY <1>2, EmptySeq DEF InitGovernance
<1> QED
  BY <1>1, <1>3, <1>4, <1>5 DEF GovernanceInv, ProposalsFitType

LEMMA StepsThatGovern ==
    ASSUME [Next]_vars
    PROVE  /\ session' = session
           /\ \/ UNCHANGED <<govVars, now>>
              \/ SomeonePropose \/ SomeoneVotes \/ SomeoneExecutes \/ TimePasses
<1>1. CASE Start \/ Reuse \/ SendTransaction \/ Reject \/ ThrowError \/ VerifySource
           \/ FindLog \/ Finish \/ Kill \/ MineRevert
  <2>1. UNCHANGED chainVars
    BY <1>1, ScriptSteps
  <2>2. session' = session
    BY <1>1, Zenon DEF Start, Reuse, SendTransaction, Reject, ThrowError, VerifySource, FindLog,
                       Finish, Kill, MineRevert
  <2> QED
    BY <2>1, <2>2 DEF chainVars
<1>2. CASE MineSuccess
  BY <1>2 DEF MineSuccess
<1>3. CASE PersonCalls
  BY <1>3 DEF PersonCalls, ByOthers
<1>4. CASE SomeonePropose \/ SomeoneVotes \/ SomeoneExecutes \/ TimePasses
  BY <1>4 DEF SomeonePropose, SomeoneVotes, SomeoneExecutes, TimePasses, ByOthers, operatorVars
<1>5. CASE UNCHANGED vars
  BY <1>5 DEF vars, operatorVars
<1> QED
  BY <1>1, <1>2, <1>3, <1>4, <1>5 DEF Next

LEMMA ProposalsChange ==
    ASSUME GovernanceInv, session' = session, NEW id \in DOMAIN proposals, NEW q \in Proposal,
           q.type = proposals[id].type, q.call = proposals[id].call,
           proposals' = [proposals EXCEPT ![id] = q]
    PROVE  proposals' \in Seq(Proposal)' /\ ProposalsFitType'
<1>1. Proposal' = Proposal
  BY DEF Proposal, Here
<1>2. proposals \in Seq(Proposal) /\ ProposalsFitType
  BY DEF GovernanceInv
<1>3. id \in 1..Len(proposals) /\ DOMAIN proposals = 1..Len(proposals)
  BY <1>2, LenProperties
<1> HIDE DEF Proposal
<1>4. proposals' \in Seq(Proposal)
  BY <1>2, <1>3, ExceptSeq
<1>5. ProposalsFitType'
  BY <1>2, <1>3 DEF ProposalsFitType
<1> QED
  BY <1>1, <1>4, <1>5

LEMMA ProposingKeeps ==
    ASSUME GovernanceInv, session' = session, SomeonePropose
    PROVE  GovernanceInv'
<1>1. PICK voter \in Voters, call \in Here.proposals :
          \/ Propose(voter, call)
          \/ \E proxy \in proposerProxies : ProposeThroughProxy(voter, proxy, call)
  BY DEF SomeonePropose
<1>2. PICK type \in {"Internal", "Default", "FastPass"} :
          /\ CreateProposal(voter, call, type)
          /\ type = "FastPass" => call.method \in FastPassMethods
  BY <1>1 DEF Propose, ProposeThroughProxy
<1> DEFINE p == [type |-> type, call |-> call, deadline |-> now + params.ActivePeriod,
                 votes |-> {voter}]
<1>3. p \in Proposal
  BY DEF GovernanceInv, Proposal, Voters
<1>4. p.type = type /\ p.call = call
  OBVIOUS
<1>5. proposals' = Append(proposals, p) /\ UNCHANGED <<now, voterPowers, params>>
  BY <1>2 DEF CreateProposal
<1>6. Proposal' = Proposal
  BY DEF Proposal, Here
<1>7. proposals \in Seq(Proposal) /\ ProposalsFitType
  BY DEF GovernanceInv
<1> HIDE DEF p
<1>8. /\ proposals' \in Seq(Proposal) /\ Len(proposals') = Len(proposals) + 1
      /\ \A i \in 1..Len(proposals) : proposals'[i] = proposals[i]
      /\ proposals'[Len(proposals) + 1] = p
  BY <1>3, <1>5, <1>7, AppendProperties
<1>9. ProposalsFitType'
  <2>1. /\ DOMAIN proposals = 1..Len(proposals) /\ DOMAIN proposals' = 1..Len(proposals')
        /\ Len(proposals) \in Nat
    BY <1>7, <1>8, LenProperties
  <2> SUFFICES ASSUME NEW i \in DOMAIN proposals', proposals'[i].type = "FastPass"
               PROVE  proposals'[i].call.method \in FastPassMethods
    BY DEF ProposalsFitType
  <2>2. CASE i \in DOMAIN proposals
    BY <1>7, <1>8, <2>1, <2>2 DEF ProposalsFitType
  <2>3. CASE i = Len(proposals) + 1
    BY <1>2, <1>4, <1>8, <2>3
  <2> QED
    BY <1>8, <2>1, <2>2, <2>3
<1> QED
  BY <1>5, <1>6, <1>8, <1>9 DEF GovernanceInv

LEMMA VotingKeeps ==
    ASSUME GovernanceInv, session' = session, NEW voter \in Voters, NEW id \in DOMAIN proposals,
           NEW vote, VoteProposal(voter, id, vote)
    PROVE  GovernanceInv'
<1> DEFINE p == proposals[id]
           q == [p EXCEPT !.votes = IF vote THEN @ \cup {voter} ELSE @ \ {voter}]
<1>1. p \in Proposal /\ voter \in Accounts
  BY ElementOfSeq, LenProperties DEF GovernanceInv, Voters
<1>2. q \in Proposal /\ q.type = p.type /\ q.call = p.call
  BY <1>1 DEF Proposal
<1>3. proposals' = [proposals EXCEPT ![id] = q] /\ UNCHANGED <<now, voterPowers, params>>
  BY DEF VoteProposal
<1>4. proposals' \in Seq(Proposal)' /\ ProposalsFitType'
  <2> HIDE DEF q
  <2> QED BY <1>2, <1>3, ProposalsChange
<1> QED
  BY <1>3, <1>4 DEF GovernanceInv

\* The internal proposals keep the thresholds in order and the powers numbers.
LEMMA InternalKeeps ==
    ASSUME GovernanceInv, NEW call \in Here.proposals,
           ChangeParam(call) \/ UpdateVoters(call) \/ UpdateProxies(call) \/ TransferToken(call)
    PROVE  /\ voterPowers' \in [Accounts -> Nat]
           /\ params' \in [ActivePeriod : Nat, QuorumThreshold : Nat, FastPassThreshold : Nat]
           /\ params'.QuorumThreshold >= params'.FastPassThreshold
<1>1. /\ voterPowers \in [Accounts -> Nat]
      /\ params \in [ActivePeriod : Nat, QuorumThreshold : Nat, FastPassThreshold : Nat]
      /\ params.QuorumThreshold >= params.FastPassThreshold
  BY DEF GovernanceInv
<1>2. /\ call.method = "voters" => \A i \in DOMAIN call.keys : call.values[i] \in Nat
      /\ call.method = "params" =>
             /\ call.keys[1] \in {"ActivePeriod", "QuorumThreshold", "FastPassThreshold"}
             /\ call.values[1] \in Nat
  BY OperationsAssumption DEF GovernanceInv, Here
<1>3. CASE ChangeParam(call)
  <2> DEFINE name == call.keys[1]
             value == call.values[1]
  <2>1. name \in {"ActivePeriod", "QuorumThreshold", "FastPassThreshold"} /\ value \in Nat
    BY <1>2, <1>3 DEF ChangeParam
  <2>2. /\ params' = [params EXCEPT ![name] = value] /\ voterPowers' = voterPowers
        /\ name # "ActivePeriod" => params'.QuorumThreshold >= params'.FastPassThreshold
    BY <1>3 DEF ChangeParam
  <2> HIDE DEF name, value
  <2>3. params' \in [ActivePeriod : Nat, QuorumThreshold : Nat, FastPassThreshold : Nat]
    BY <1>1, <2>1, <2>2
  <2>4. params'.QuorumThreshold >= params'.FastPassThreshold
    BY <1>1, <2>2
  <2> QED
    BY <1>1, <2>2, <2>3, <2>4
<1>4. CASE UpdateVoters(call)
  <2>1. /\ voterPowers' = [a \in Accounts |->
                IF \E i \in DOMAIN call.keys : call.keys[i] = a
                THEN call.values[CHOOSE i \in DOMAIN call.keys : call.keys[i] = a]
                ELSE voterPowers[a]]
        /\ call.method = "voters" /\ params' = params
    BY <1>4 DEF UpdateVoters
  <2> QED
    BY <1>1, <1>2, <2>1
<1>5. CASE UpdateProxies(call) \/ TransferToken(call)
  BY <1>1, <1>5 DEF UpdateProxies, TransferToken
<1> QED
  BY <1>3, <1>4, <1>5

LEMMA ExecutingKeeps ==
    ASSUME GovernanceInv, session' = session, NEW voter \in Voters, NEW id \in DOMAIN proposals,
           ExecuteProposal(voter, id)
    PROVE  GovernanceInv'
<1> DEFINE p == proposals[id]
           q == [p EXCEPT !.deadline = 0, !.votes = @ \cup {voter}]
<1>1. p \in Proposal /\ voter \in Accounts
  BY ElementOfSeq, LenProperties DEF GovernanceInv, Voters
<1>2. q \in Proposal /\ q.type = p.type /\ q.call = p.call
  BY <1>1 DEF Proposal
<1>3. proposals' = [proposals EXCEPT ![id] = q] /\ now' = now
  BY DEF ExecuteProposal
<1>4. proposals' \in Seq(Proposal)' /\ ProposalsFitType'
  <2> HIDE DEF q
  <2> QED BY <1>2, <1>3, ProposalsChange
<1>5. /\ voterPowers' \in [Accounts -> Nat]
      /\ params' \in [ActivePeriod : Nat, QuorumThreshold : Nat, FastPassThreshold : Nat]
      /\ params'.QuorumThreshold >= params'.FastPassThreshold
  <2>1. p.call \in Here.proposals
    BY <1>1 DEF Proposal
  <2>2. CASE UNCHANGED <<voterPowers, params>>
    BY <2>2 DEF GovernanceInv
  <2> QED
    BY <2>1, <2>2, InternalKeeps DEF ExecuteProposal
<1> QED
  BY <1>3, <1>4, <1>5 DEF GovernanceInv

LEMMA StepsKeepGovernance ==
    ASSUME GovernanceInv, [Next]_vars
    PROVE  GovernanceInv'
<1>1. CASE session' = session /\ UNCHANGED <<govVars, now>>
  BY <1>1 DEF govVars, GovernanceInv, ProposalsFitType, Proposal, Here
<1>2. CASE session' = session /\ TimePasses
  BY <1>2 DEF TimePasses, Tick, govVars, GovernanceInv, ProposalsFitType, Proposal, Here
<1> QED
  BY <1>1, <1>2, StepsThatGovern, ProposingKeeps, VotingKeeps, ExecutingKeeps
  DEF SomeoneVotes, SomeoneExecutes

-----------------------------------------------------------------------------
(* Votes *)

\* Rounding the share down loses less than one unit of power.
LEMMA ShareReached ==
    ASSUME NEW P \in Nat, NEW T \in Nat, NEW share \in Nat, P >= (T * share) \div 100
    PROVE  100 * (P + 1) > T * share
<1> DEFINE x == T * share
<1>1. x \in Nat
  OBVIOUS
<1>2. P >= x \div 100
  OBVIOUS
<1> HIDE DEF x
<1>3. 100 * (P + 1) > x
  BY <1>1, <1>2
<1> QED
  BY <1>3 DEF x

LEMMA LowerShare ==
    ASSUME NEW T \in Nat, NEW high \in Nat, NEW low \in Nat, high >= low
    PROVE  T * high >= T * low
<1>1. PICK d \in Nat : high = low + d
  <2>1. high - low \in Nat /\ high = low + (high - low)
    OBVIOUS
  <2> QED BY <2>1
<1>2. T * high = T * low + T * d /\ T * d \in Nat /\ T * low \in Nat
  BY <1>1
<1> QED
  BY <1>2

\* Executing a proposal takes the votes its method asks for.
LEMMA ExecutionIsByVote ==
    ASSUME GovernanceInv, NEW voter \in Voters, NEW id \in DOMAIN proposals,
           ExecuteProposal(voter, id)
    PROVE  ExecutedByVote
<1> DEFINE p == proposals[id]
           votes == p.votes \cup {voter}
           asked == IF p.call.method \in FastPassMethods
                    THEN params.FastPassThreshold ELSE params.QuorumThreshold
<1>1. proposals \in Seq(Proposal) /\ p \in Proposal /\ voter \in Accounts
  BY ElementOfSeq, LenProperties DEF GovernanceInv, Voters
<1>2. votes \in SUBSET Accounts /\ p.deadline \in Nat /\ now \in Nat
  BY <1>1 DEF Proposal, GovernanceInv
<1>3. proposals'[id].votes = votes /\ proposals'[id].deadline = 0
  <2>1. proposals' = [proposals EXCEPT ![id] = [p EXCEPT !.deadline = 0, !.votes = votes]]
    BY DEF ExecuteProposal
  <2> QED
    BY <1>1, <2>1 DEF Proposal
<1>4. now < p.deadline /\ CountVotes(votes, p.type)
  BY DEF ExecuteProposal
<1>5. Power(votes) \in Nat /\ Power(Accounts) \in Nat
  <2>1. IsFiniteSet(votes) /\ IsFiniteSet(Accounts)
    BY <1>2, OperationsAssumption, FS_Subset
  <2>2. \A a \in votes \cup Accounts : voterPowers[a] \in Nat
    BY <1>2 DEF GovernanceInv
  <2> HIDE DEF votes
  <2> QED
    BY <2>1, <2>2, SumNat DEF Power
<1>6. Threshold(p.type) \in Nat /\ asked \in Nat /\ Threshold(p.type) >= asked
  BY <1>1 DEF GovernanceInv, ProposalsFitType, Threshold
<1>7. 100 * (Power(votes) + 1) > Power(Accounts) * Threshold(p.type)
  BY <1>4, <1>5, <1>6, ShareReached DEF CountVotes
<1>8. Power(Accounts) * Threshold(p.type) >= Power(Accounts) * asked
  BY <1>5, <1>6, LowerShare
<1>9. 100 * (Power(votes) + 1) > Power(Accounts) * asked
  <2> DEFINE weight == 100 * (Power(votes) + 1)
             needed == Power(Accounts) * Threshold(p.type)
             least == Power(Accounts) * asked
  <2>1. weight \in Nat /\ needed \in Nat /\ least \in Nat
    BY <1>5, <1>6
  <2> HIDE DEF weight, needed, least
  <2>2. weight > least
    BY <1>7, <1>8, <2>1 DEF weight, needed, least
  <2> QED
    BY <2>2 DEF weight, least
<1>10. p.deadline > now
  BY <1>2, <1>4
<1> QED
  BY <1>3, <1>9, <1>10 DEF ExecutedByVote

LEMMA OutsidersAreNotGovernance ==
    ASSUME session \in DOMAIN Sessions
    PROVE  GovAddress \notin Outsiders \cup {SentinelAddress}
BY OperationsAssumption DEF Outsiders, Here

LEMMA PowersByVote ==
    ASSUME AccessTyped, GovernanceInv, [Next]_vars, NEW a \in DOMAIN access,
           access[a].owner = GovAddress, OwnerPowerUsed(a)
    PROVE  ExecutedByVote
<1>1. CASE UNCHANGED <<adminVars, sentinelVars>>
  BY <1>1, OwnerPowerParts
  DEF adminVars, sentinelVars, guardVars, RolesGranted, SettingUsed, GuardsUsed
<1>2. ASSUME NEW from \in Outsiders, NEW call, ContractCall(from, call) PROVE FALSE
  BY <1>2, CallsByOwner, OutsidersAreNotGovernance DEF GovernanceInv
<1>3. ASSUME NEW tx, Create(tx) \/ CreateProxy(tx) \/ UpgradeProxy(tx), UNCHANGED sentinelVars
      PROVE  FALSE
  BY <1>3, DeploymentsGrantNothing
<1> QED
  BY <1>1, <1>2, <1>3, EveryStep, ExecutionIsByVote

\* Once the governance owns a contract, only executing an open proposal that
\* enough of the voting power wants does to it what an owner may do, whatever
\* the sessions' contracts, scripts, people and voters, and however the
\* deployer's transactions, killed runs and votes interleave.
THEOREM OwnerPowersByVoteCorrect == Spec => OwnerPowersByVote
<1>1. Init => AccessTyped /\ GovernanceInv
  BY AccessTypedInitially, GovernanceInitially
<1>2. AccessTyped /\ GovernanceInv /\ [Next]_vars => AccessTyped' /\ GovernanceInv'
  BY StepsKeepAccessTyped, StepsKeepGovernance
<1>3. AccessTyped /\ GovernanceInv /\ [Next]_vars =>
          [\A a \in DOMAIN access :
              access[a].owner = GovAddress /\ OwnerPowerUsed(a) => ExecutedByVote]_
            <<adminVars, sentinelVars, govVars, now>>
  BY PowersByVote
<1> QED
  BY <1>1, <1>2, <1>3, PTL DEF Spec, OwnerPowersByVote

=============================================================================
