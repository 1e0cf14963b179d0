------------------------ MODULE DataSetFactory_proofs ------------------------
(***************************************************************************)
(* That makeDistinctDataSet steers evaluation to where its arguments lead, *)
(* in every perfect tree whose nodes read a feature each, and that it      *)
(* returns for argument lists of the tree's length only.                   *)
(***************************************************************************)
EXTENDS DataSetFactory, DecisionTree_proofs

\* The nodes that a list of arguments leads through, from the root on.
Way(args) ==
  LET at[i \in 0..Len(args)] == IF i = 0 THEN Root ELSE Child(at[i - 1], args[i])
  IN  at

(* A list of arguments is as long as it says, and holds outcomes.          *)
LEMMA Arguments ==
  ASSUME NEW args \in ArgumentLists \cup {<<>>}
  PROVE  /\ Len(args) \in Nat /\ DOMAIN args = 1..Len(args)
         /\ \A i \in 1..Len(args) : args[i] \in BOOLEAN
<1>1. CASE args = <<>>
  BY <1>1
<1>2. CASE args \in ArgumentLists
  <2>1. PICK length \in 1..MaxEvals : args \in [1..length -> BOOLEAN]
    BY <1>2 DEF ArgumentLists
  <2>2. args \in Seq(BOOLEAN) /\ Len(args) = length
    BY <2>1, MaxEvalsAssumption
  <2> QED BY <2>1, <2>2, MaxEvalsAssumption
<1> QED BY <1>1, <1>2

(* The way starts in the root and takes the child that its argument says:  *)
(* longer and longer ways exist, so that the function is what it says.     *)
LEMMA WayEquation ==
  ASSUME NEW args \in ArgumentLists \cup {<<>>}
  PROVE  /\ Way(args)[0] = Root
         /\ \A i \in 1..Len(args) : Way(args)[i] = Child(Way(args)[i - 1], args[i])
<1> DEFINE N == Len(args)
           Along(f, m) == f = [i \in 0..m |-> IF i = 0 THEN Root ELSE Child(f[i - 1], args[i])]
           S == {m \in 0..N : \E f : Along(f, m)}
<1>1. N \in Nat
  BY Arguments
<1>2. 0 \in S
  <2>1. Along([i \in 0..0 |-> Root], 0)
    OBVIOUS
  <2> HIDE DEF Along, N
  <2> QED BY <1>1, <2>1
<1>3. ASSUME NEW m \in 0..N - 1, m \in S
      PROVE  m + 1 \in S
  <2>1. PICK f : Along(f, m)
    BY <1>3
  <2> DEFINE g == [i \in 0..m + 1 |-> IF i <= m THEN f[i] ELSE Child(f[m], args[m + 1])]
  <2>2. m \in Nat /\ m + 1 \in 0..N
    BY <1>1
  <2>3. \A i \in 0..m : f[i] = IF i = 0 THEN Root ELSE Child(f[i - 1], args[i])
    BY <2>1, Zenon
  <2>4. ASSUME NEW i \in 0..m + 1
        PROVE  g[i] = IF i = 0 THEN Root ELSE Child(g[i - 1], args[i])
    <3>1. CASE i = 0
      BY <2>2, <2>3, <3>1
    <3>2. CASE i \in 1..m
      <4>1. g[i] = f[i] /\ g[i - 1] = f[i - 1]
        BY <2>2, <3>2
      <4> QED BY <2>2, <2>3, <3>2, <4>1
    <3>3. CASE i = m + 1
      <4>1. g[i] = Child(f[m], args[m + 1]) /\ g[i - 1] = f[m] /\ i # 0
        BY <2>2, <3>3
      <4> QED BY <3>3, <4>1
    <3> QED BY <2>2, <3>1, <3>2, <3>3
  <2>5. g = [i \in 0..m + 1 |-> g[i]]
    OBVIOUS
  <2> HIDE DEF g, N
  <2>6. Along(g, m + 1)
    BY <2>4, <2>5
  <2> HIDE DEF Along
  <2> QED BY <2>2, <2>6
<1> HIDE DEF N
<1>4. S = 0..N
  <2>1. S \in SUBSET (0..N)
    OBVIOUS
  <2> HIDE DEF S
  <2> QED BY <1>1, <1>2, <1>3, <2>1, IntervalInduction
<1>5. PICK way : Along(way, N)
  BY <1>1, <1>4
<1>6. Way(args) = CHOOSE f : Along(f, N)
  BY DEF Way, N
<1> HIDE DEF S
<1>7. Along(Way(args), N)
  <2> HIDE DEF Along
  <2> QED BY <1>5, <1>6
<1>8. \A i \in 0..N : Way(args)[i] = IF i = 0 THEN Root ELSE Child(Way(args)[i - 1], args[i])
  BY <1>7, Zenon
<1> QED BY <1>1, <1>8 DEF N

-----------------------------------------------------------------------------
\* What is left of the arguments is given to the node their way has led to,
\* and the data set answers every question on the way as it was asked to.
OnTheWay(i) == Way(evals)[i] \in Nodes /\ Depth[Way(evals)[i]] = i

Answered(i) ==
  LET n == Way(evals)[i]
  IN  ds[Tree[n].feature] = AdjustedBias(n, evals[i + 1])

FactoryInv ==
  /\ evals \in ArgumentLists \cup {<<>>}
  /\ taken \in 0..Len(evals) /\ taken <= Levels
  /\ \A i \in 0..taken : OnTheWay(i)
  /\ \A i \in 0..taken - 1 : Answered(i)
  /\ ds = None \/ DOMAIN ds = 0..Features - 1
  /\ node # None => /\ node = Way(evals)[taken] /\ outcome = None
                    /\ DOMAIN ds = 0..Features - 1
  /\ outcome \in {None, "returned", "aborted", "undefined"}
  /\ outcome = "returned" => taken = Len(evals)
  /\ LengthDecides

(* The next node on the way is a level deeper.                             *)
LEMMA NextOnTheWay ==
  ASSUME FactoryInv, taken < Len(evals), ~IsImplicit(Way(evals)[taken])
  PROVE  /\ Way(evals)[taken + 1] = Child(Way(evals)[taken], evals[taken + 1])
         /\ OnTheWay(taken + 1) /\ taken + 1 <= Levels /\ taken + 1 \in 0..Len(evals)
<1> DEFINE n == Way(evals)[taken]
           m == Way(evals)[taken + 1]
<1>1. /\ Len(evals) \in Nat /\ taken \in Nat /\ taken + 1 \in 1..Len(evals)
      /\ n \in Nodes /\ Depth[n] = taken /\ (taken + 1) - 1 = taken
  BY Arguments DEF FactoryInv, OnTheWay
<1>2. m = Child(n, evals[taken + 1])
  BY <1>1, WayEquation DEF FactoryInv
<1> HIDE DEF n, m
<1>3. m \in Nodes /\ Depth[m] = taken + 1
  BY <1>1, <1>2, ChildLevel DEF n
<1>4. Depth[m] <= Levels
  BY <1>3, ImplicitLevel, TreeAssumption DEF IsPerfect
<1> QED BY <1>1, <1>2, <1>3, <1>4 DEF OnTheWay, n, m

(* Writing the feature of the node reached, one of its own, leaves what    *)
(* the nodes above it read alone.                                          *)
LEMMA FillDataSetKeeps ==
  ASSUME FactoryInv, FillDataSet
  PROVE  FactoryInv'
<1> DEFINE n == Way(evals)[taken]
           feature == Tree[n].feature
<1>1. /\ node # None /\ taken < Len(evals) /\ feature \in DOMAIN ds
      /\ ds' = [ds EXCEPT ![feature] = AdjustedBias(n, evals[taken + 1])]
      /\ taken' = taken + 1 /\ node' = Child(n, evals[taken + 1])
      /\ evals' = evals /\ outcome' = outcome /\ node = n
      /\ DOMAIN ds = 0..Features - 1 /\ outcome = None
  BY DEF FillDataSet, FactoryInv
<1>2. n \in Nodes /\ Depth[n] = taken /\ taken \in Nat /\ Len(evals) \in Nat
  BY Arguments DEF FactoryInv, OnTheWay
<1>3. ~IsImplicit(n) /\ Depth[n] < Levels
  <2>1. Tree[n].feature # NoFeature
    BY <1>1, DistinctAssumption
  <2>2. ~IsImplicit(n)
    BY <2>1 DEF IsImplicit
  <2> QED BY <1>2, <2>2, ImplicitLevel, TreeAssumption DEF IsPerfect
<1>4. /\ node' = Way(evals)[taken + 1] /\ OnTheWay(taken + 1)
      /\ taken + 1 <= Levels /\ taken + 1 \in 0..Len(evals)
  BY <1>1, <1>3, NextOnTheWay
<1>5. ASSUME NEW i \in 0..taken - 1
      PROVE  Answered(i)'
  <2> DEFINE m == Way(evals)[i]
  <2>1. m \in Nodes /\ Depth[m] = i /\ i # taken /\ i < taken
    BY <1>2 DEF FactoryInv, OnTheWay
  <2>2. Depth[m] < Levels /\ m # n
    BY <1>2, <1>3, <2>1, TreeAssumption DEF IsPerfect
  <2>3. Tree[m].feature # feature /\ Tree[m].feature \in DOMAIN ds
    BY <1>1, <1>2, <1>3, <2>1, <2>2, DistinctAssumption
  <2>4. ds[Tree[m].feature] = AdjustedBias(m, evals[i + 1])
    BY DEF FactoryInv, Answered
  <2> HIDE DEF m, feature, n
  <2>5. ds'[Tree[m].feature] = AdjustedBias(m, evals[i + 1])
    BY <1>1, <2>3, <2>4
  <2> QED BY <1>1, <2>5 DEF Answered, m
<1>6. ASSUME NEW i, i = taken PROVE Answered(i)'
  <2> HIDE DEF n, feature
  <2>1. ds'[feature] = AdjustedBias(n, evals[taken + 1])
    BY <1>1
  <2> QED BY <1>1, <1>6, <2>1 DEF Answered, n, feature
<1>7. \A i \in 0..taken' - 1 : Answered(i)'
  <2> SUFFICES ASSUME NEW i \in 0..taken' - 1 PROVE Answered(i)'
    OBVIOUS
  <2>1. i \in 0..taken - 1 \/ i = taken
    BY <1>1, <1>2
  <2> QED BY <1>5, <1>6, <2>1
<1>8. \A i \in 0..taken' : OnTheWay(i)'
  <2> SUFFICES ASSUME NEW i \in 0..taken' PROVE OnTheWay(i)'
    OBVIOUS
  <2>1. i \in 0..taken \/ i = taken + 1
    BY <1>1, <1>2
  <2>2. OnTheWay(i)
    BY <1>4, <2>1 DEF FactoryInv
  <2> QED BY <1>1, <2>2 DEF OnTheWay
<1>9. DOMAIN ds' = 0..Features - 1
  BY <1>1
<1> HIDE DEF n, feature
<1> QED BY <1>1, <1>4, <1>7, <1>8, <1>9, NoneAssumption DEF FactoryInv, LengthDecides

(* How a call ends is decided by the level that it has got to.             *)
LEMMA EndKeeps ==
  ASSUME FactoryInv, WriteOutside \/ EndRecursion
  PROVE  FactoryInv'
<1> DEFINE n == Way(evals)[taken]
<1>1. /\ node # None /\ node = n /\ n \in Nodes /\ Depth[n] = taken
      /\ DOMAIN ds = 0..Features - 1
      /\ taken \in 0..Len(evals) /\ Len(evals) \in Nat
  BY Arguments DEF WriteOutside, EndRecursion, FactoryInv, OnTheWay
<1>2. node' = None /\ UNCHANGED <<evals, taken, ds>>
  BY DEF WriteOutside, EndRecursion, Done
<1>3. (IsImplicit(n) <=> taken = Levels) /\ taken <= Levels /\ Levels \in Nat
  BY <1>1, ImplicitLevel, TreeAssumption DEF IsPerfect, FactoryInv
<1>4. CASE WriteOutside
  <2>1. outcome' = "undefined" /\ taken < Len(evals) /\ Tree[n].feature \notin DOMAIN ds
    BY <1>1, <1>4 DEF WriteOutside, Done
  <2>2. taken = Levels
    <3>1. ~(Depth[n] < Levels)
      BY <1>1, <2>1, DistinctAssumption
    <3> QED BY <1>1, <1>3, <3>1
  <2>3. Len(evals) > Levels
    BY <1>1, <2>1, <2>2
  <2> QED BY <1>2, <2>1, <2>3, NoneAssumption DEF FactoryInv, LengthDecides, OnTheWay, Answered
<1>5. CASE EndRecursion
  <2>1. /\ taken = Len(evals)
        /\ outcome' = IF IsImplicit(n) THEN "returned" ELSE "aborted"
    BY <1>1, <1>5 DEF EndRecursion, Done
  <2>2. CASE IsImplicit(n)
    <3>1. outcome' = "returned" /\ Len(evals) = Levels
      BY <1>3, <2>1, <2>2
    <3> QED BY <1>2, <2>1, <3>1 DEF FactoryInv, LengthDecides, OnTheWay, Answered
  <2>3. CASE ~IsImplicit(n)
    <3>1. outcome' = "aborted" /\ Len(evals) < Levels
      BY <1>1, <1>3, <2>1, <2>3
    <3> QED BY <1>2, <2>1, <3>1 DEF FactoryInv, LengthDecides, OnTheWay, Answered
  <2> QED BY <2>2, <2>3
<1> QED BY <1>4, <1>5

(* A call starts with an empty way, whose only node is the root.           *)
LEMMA StartsRight ==
  ASSUME NEW args \in ArgumentLists \cup {<<>>}
  PROVE  0 \in 0..Len(args) /\ Way(args)[0] = Root /\ Root \in Nodes /\ Depth[Root] = 0
         /\ 0 <= Levels
BY Arguments, WayEquation, TreeAssumption DEF IsPerfect

(* Every step of a call keeps the invariant.                               *)
LEMMA FactoryStep ==
  ASSUME FactoryInv, [Next]_vars
  PROVE  FactoryInv'
<1>1. CASE \E args \in ArgumentLists : MakeDistinctDataSet(args)
  <2>1. PICK args \in ArgumentLists : MakeDistinctDataSet(args)
    BY <1>1
  <2>2. /\ evals' = args /\ taken' = 0 /\ node' = Root /\ outcome' = None
        /\ ds' = [feature \in 0..Features - 1 |-> 0]
    BY <2>1 DEF MakeDistinctDataSet
  <2>3. OnTheWay(0)' /\ node' = Way(evals')[0] /\ 0 \in 0..Len(evals') /\ 0 <= Levels
    BY <2>2, StartsRight DEF OnTheWay
  <2>4. LengthDecides'
    BY <2>2, NoneAssumption DEF LengthDecides
  <2> QED BY <2>2, <2>3, <2>4, NoneAssumption DEF FactoryInv
<1>2. CASE FillDataSet
  BY <1>2, FillDataSetKeeps
<1>3. CASE WriteOutside \/ EndRecursion
  BY <1>3, EndKeeps
<1>4. CASE UNCHANGED vars
  BY <1>4 DEF vars, FactoryInv, LengthDecides, OnTheWay, Answered
<1> QED BY <1>1, <1>2, <1>3, <1>4 DEF Next

(* While arguments are consumed, the data set steers as they say.          *)
THEOREM FactoryInvariant == Spec => []FactoryInv
<1>1. Init => FactoryInv
  <2> SUFFICES ASSUME Init PROVE FactoryInv
    OBVIOUS
  <2>1. evals = <<>> /\ taken = 0 /\ node = None /\ ds = None /\ outcome = None
    BY DEF Init
  <2>2. OnTheWay(0) /\ 0 \in 0..Len(evals) /\ 0 <= Levels
    BY <2>1, StartsRight DEF OnTheWay
  <2> QED BY <2>1, <2>2, NoneAssumption DEF FactoryInv, LengthDecides
<1> QED BY <1>1, FactoryStep, PTL DEF Spec

(* The recursion never leaves the tree, and its level is the number of     *)
(* arguments it has consumed.                                              *)
THEOREM FactoryTypeCorrect == Spec => []TypeOK
<1>1. FactoryInv => TypeOK
  <2> SUFFICES ASSUME FactoryInv PROVE TypeOK
    OBVIOUS
  <2>1. node # None => node \in Nodes /\ Depth[node] = taken
    BY Arguments DEF FactoryInv, OnTheWay
  <2> QED BY <2>1 DEF FactoryInv, TypeOK
<1> QED BY <1>1, FactoryInvariant, PTL

(* Only an argument list of the tree's length makes a data set; a shorter  *)
(* one aborts, a longer one writes outside of the data set.                *)
THEOREM LengthAlwaysDecides == Spec => []LengthDecides
<1>1. FactoryInv => LengthDecides
  BY DEF FactoryInv
<1> QED BY <1>1, FactoryInvariant, PTL

(* A data set that is returned takes evaluation to the node its arguments  *)
(* lead to, on every perfect tree whose nodes read a feature each.         *)
THEOREM DataSetsSteer == Spec => []SteersToDestination
<1>1. FactoryInv => SteersToDestination
  <2> SUFFICES ASSUME FactoryInv, outcome = "returned" PROVE Evaluate(ds) = Destination
    BY DEF SteersToDestination
  <2>1. taken = Levels /\ Len(evals) = Levels /\ Levels \in Nat
    BY TreeAssumption DEF FactoryInv, LengthDecides, IsPerfect
  <2> DEFINE n(i) == Way(evals)[i]
             S == {i \in 0..Levels : Walk(ds)[n(i)] = Walk(ds)[Root]}
  <2>2. ASSUME NEW i \in 0..Levels - 1
        PROVE  /\ n(i) \in Nodes /\ ~IsImplicit(n(i)) /\ n(i + 1) = Child(n(i), evals[i + 1])
               /\ GoesRight(n(i), ds) = evals[i + 1]
    <3>1. i \in 0..taken /\ i \in 0..taken - 1 /\ i + 1 \in 1..Len(evals) /\ (i + 1) - 1 = i
      BY <2>1
    <3>2. n(i) \in Nodes /\ Depth[n(i)] = i /\ i < Levels
      BY <2>1, <3>1 DEF FactoryInv, OnTheWay
    <3>3. n(i + 1) = Child(n(i), evals[i + 1]) /\ evals[i + 1] \in BOOLEAN
      BY <3>1, WayEquation, Arguments DEF FactoryInv
    <3>4. ds[Tree[n(i)].feature] = AdjustedBias(n(i), evals[i + 1])
      BY <3>1 DEF FactoryInv, Answered
    <3> HIDE DEF n
    <3>5. Tree[n(i)].bias \in Int /\ NaN \notin Int
      BY <3>2, DistinctAssumption
    <3>6. GoesRight(n(i), ds) = evals[i + 1]
      <4> DEFINE bias == Tree[n(i)].bias
      <4>1. ds[Tree[n(i)].feature] = IF evals[i + 1] THEN bias + 1 ELSE bias - 1
        BY <3>4 DEF AdjustedBias
      <4>2. GoesRight(n(i), ds) = Greater(ds[Tree[n(i)].feature], bias)
        BY DEF GoesRight
      <4>3. bias \in Int
        BY <3>5
      <4> HIDE DEF bias
      <4>4. Greater(bias + 1, bias) /\ ~Greater(bias - 1, bias)
        BY <3>5, <4>3 DEF Greater
      <4>5. CASE evals[i + 1] = TRUE
        BY <4>1, <4>2, <4>4, <4>5 DEF Greater
      <4>6. CASE evals[i + 1] = FALSE
        BY <4>1, <4>2, <4>4, <4>6 DEF Greater
      <4> QED BY <3>3, <4>5, <4>6
    <3>7. ~IsImplicit(n(i))
      BY <3>2, ImplicitLevel, TreeAssumption DEF IsPerfect
    <3> QED BY <3>2, <3>3, <3>6, <3>7
  <2>3. n(0) = Root
    BY WayEquation DEF FactoryInv
  <2>4. n(Levels) \in Nodes /\ IsImplicit(n(Levels))
    <3>1. n(Levels) \in Nodes /\ Depth[n(Levels)] = Levels
      BY <2>1 DEF FactoryInv, OnTheWay
    <3> HIDE DEF n
    <3> QED BY <3>1, ImplicitLevel
  <2> HIDE DEF n
  <2>5. S = 0..Levels
    <3>1. 0 \in S
      BY <2>1, <2>3
    <3>2. ASSUME NEW i \in 0..Levels - 1, i \in S PROVE i + 1 \in S
      <4>1. Walk(ds)[n(i + 1)] = Walk(ds)[n(i)]
        BY <2>2, WalkStep
      <4> QED BY <2>1, <3>2, <4>1
    <3>3. S \in SUBSET (0..Levels)
      OBVIOUS
    <3> HIDE DEF S
    <3> QED BY <2>1, <3>1, <3>2, <3>3, IntervalInduction
  <2>6. Walk(ds)[n(Levels)] = Walk(ds)[Root]
    BY <2>1, <2>5
  <2>7. Walk(ds)[n(Levels)] = n(Levels)
    BY <2>4, WalkStep
  <2>8. Destination = n(Levels)
    BY <2>1 DEF Destination, Way, n
  <2> QED BY <2>6, <2>7, <2>8 DEF Evaluate
<1> QED BY <1>1, FactoryInvariant, PTL
=============================================================================
