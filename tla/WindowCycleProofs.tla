-------------------------- MODULE WindowCycleProofs --------------------------
(***************************************************************************)
(* Proofs about window cycling, for any windows, displays and timeout:     *)
(* type correctness; a press aims at a window of the active display that   *)
(* is not in front already; going on in one direction skips no window; and *)
(* turning back returns.                                                   *)
(***************************************************************************)
EXTENDS WindowCycle, FiniteSetTheorems, SequenceTheorems, TLAPS

-----------------------------------------------------------------------------
(***************************************************************************)
(* Sequences: the elements at some positions, in their order.              *)
(***************************************************************************)
RankIn(I, i) == Cardinality({j \in I : j <= i})

(* Positions have the ranks from 1 to their number, each a different one.  *)
LEMMA Ranks ==
  ASSUME NEW n \in Nat, NEW I \in SUBSET (1 .. n)
  PROVE  /\ Cardinality(I) \in Nat
         /\ \A i \in I : RankIn(I, i) \in 1 .. Cardinality(I)
         /\ \A i, j \in I : RankIn(I, i) = RankIn(I, j) => i = j
         /\ \A k \in 1 .. Cardinality(I) : \E i \in I : RankIn(I, i) = k
<1> DEFINE m == Cardinality(I)
           Below(i) == {j \in I : j <= i}
<1>1. IsFiniteSet(1 .. n)
  BY FS_Interval
<1>2. IsFiniteSet(I) /\ m \in Nat
  BY <1>1, FS_Subset, FS_CardinalityType
<1>3. ASSUME NEW i \in I
      PROVE  /\ IsFiniteSet(Below(i))
             /\ RankIn(I, i) \in 1 .. m
  <2>1. IsFiniteSet(Below(i)) /\ Cardinality(Below(i)) <= m
    BY <1>2, FS_Subset
  <2>2. Cardinality(Below(i)) \in Nat
    BY <2>1, FS_CardinalityType
  <2>3. i \in Below(i)
    OBVIOUS
  <2>4. Cardinality(Below(i)) # 0
    BY <2>1, <2>3, FS_EmptySet
  <2> QED
    BY <1>2, <2>1, <2>2, <2>4 DEF RankIn
<1>4. ASSUME NEW i \in I, NEW j \in I, i < j
      PROVE  RankIn(I, i) # RankIn(I, j)
  <2>1. Below(i) \subseteq Below(j)
    <3>1. \A k \in I : k <= i => k <= j
      <4>1. i \in Int /\ j \in Int /\ \A k \in I : k \in Int
        OBVIOUS
      <4> QED
        BY <1>4, <4>1
    <3> QED
      BY <3>1
  <2>2. j \in Below(j) /\ j \notin Below(i)
    BY <1>4
  <2>3. IsFiniteSet(Below(j))
    BY <1>3
  <2>4. Cardinality(Below(i)) = Cardinality(Below(j)) => Below(i) = Below(j)
    BY <2>1, <2>3, FS_Subset
  <2> QED
    BY <2>2, <2>4 DEF RankIn
<1>5. \A i, j \in I : RankIn(I, i) = RankIn(I, j) => i = j
  <2> SUFFICES ASSUME NEW i \in I, NEW j \in I, RankIn(I, i) = RankIn(I, j)
               PROVE  i = j
    OBVIOUS
  <2>1. i \in Int /\ j \in Int
    OBVIOUS
  <2>2. ~(i < j) /\ ~(j < i)
    BY <1>4
  <2> QED
    BY <2>1, <2>2
<1>6. \A k \in 1 .. m : \E i \in I : RankIn(I, i) = k
  <2> DEFINE f == [i \in I |-> RankIn(I, i)]
  <2>1. f \in Injection(I, 1 .. m)
    BY <1>3, <1>5 DEF Injection, IsInjective
  <2>2. IsFiniteSet(1 .. m) /\ Cardinality(1 .. m) = m
    BY <1>2, FS_Interval
  <2>3. f \in Surjection(I, 1 .. m)
    BY <2>1, <2>2, FS_Injection
  <2>4. \A k \in 1 .. m : \E i \in I : f[i] = k
    BY <2>3 DEF Surjection
  <2> QED
    BY <2>4
<1> QED
  BY <1>2, <1>3, <1>5, <1>6

LEMMA AtPositionsProperties ==
  ASSUME NEW S, NEW seq \in Seq(S), NEW I \in SUBSET DOMAIN seq
  PROVE  LET t == AtPositions(seq, I)
         IN  /\ t \in Seq(S)
             /\ Range(t) = {seq[i] : i \in I}
             /\ IsInjective(seq) => IsInjective(t)
             /\ 1 \in I => t # <<>> /\ Head(t) = Head(seq)
             /\ I = {} => t = <<>>
<1> DEFINE t == AtPositions(seq, I)
           m == Cardinality(I)
           At(k) == CHOOSE i \in I : RankIn(I, i) = k
<1>1. Len(seq) \in Nat /\ DOMAIN seq = 1 .. Len(seq) /\ \A i \in DOMAIN seq : seq[i] \in S
  OBVIOUS
<1>2. /\ m \in Nat
      /\ \A i \in I : RankIn(I, i) \in 1 .. m
      /\ \A i, j \in I : RankIn(I, i) = RankIn(I, j) => i = j
      /\ \A k \in 1 .. m : \E i \in I : RankIn(I, i) = k
  <2>1. I \in SUBSET (1 .. Len(seq))
    BY <1>1
  <2> QED
    BY <1>1, <2>1, Ranks
<1>3. \A k \in 1 .. m : At(k) \in I /\ RankIn(I, At(k)) = k
  BY <1>2
<1>4. t = [k \in 1 .. m |-> seq[At(k)]]
  BY DEF AtPositions, RankIn
<1>5. \A i \in I : At(RankIn(I, i)) = i
  BY <1>2, <1>3
<1> HIDE DEF At, t, m
<1>6. t \in [1 .. m -> S]
  BY <1>1, <1>3, <1>4
<1>7. t \in Seq(S) /\ Len(t) = m /\ DOMAIN t = 1 .. m
  BY <1>2, <1>6
<1>8. Range(t) = {seq[i] : i \in I}
  <2>1. ASSUME NEW x \in Range(t) PROVE x \in {seq[i] : i \in I}
    BY <1>3, <1>4, <1>7 DEF Range
  <2>2. ASSUME NEW i \in I PROVE seq[i] \in Range(t)
    <3>1. RankIn(I, i) \in DOMAIN t /\ t[RankIn(I, i)] = seq[i]
      BY <1>2, <1>4, <1>5, <1>7
    <3> QED
      BY <3>1 DEF Range
  <2> QED
    BY <2>1, <2>2
<1>9. ASSUME IsInjective(seq) PROVE IsInjective(t)
  <2> SUFFICES ASSUME NEW j \in 1 .. m, NEW k \in 1 .. m, t[j] = t[k]
               PROVE  j = k
    BY <1>7 DEF IsInjective
  <2>1. seq[At(j)] = seq[At(k)] /\ At(j) \in DOMAIN seq /\ At(k) \in DOMAIN seq
    BY <1>3, <1>4
  <2>2. At(j) = At(k)
    BY <1>9, <2>1 DEF IsInjective
  <2> QED
    BY <1>3, <2>2
<1>10. ASSUME 1 \in I PROVE t # <<>> /\ Head(t) = Head(seq)
  <2>1. {j \in I : j <= 1} = {1}
    BY <1>1, <1>10
  <2>2. RankIn(I, 1) = 1
    BY <2>1, FS_Singleton DEF RankIn
  <2>3. 1 \in 1 .. m /\ At(1) = 1
    BY <1>2, <1>5, <1>10, <2>2
  <2>4. t[1] = seq[1]
    BY <1>4, <2>3
  <2> QED
    BY <1>1, <1>7, <1>10, <2>3, <2>4
<1>11. ASSUME I = {} PROVE t = <<>>
  <2>1. m = 0
    BY <1>11, FS_EmptySet DEF m
  <2> QED
    BY <1>7, <2>1, EmptySeq
<1> QED
  BY <1>7, <1>8, <1>9, <1>10, <1>11 DEF t

(* Appending the elements at some positions of a second sequence keeps the *)
(* first sequence as it was, at the same positions.                        *)
LEMMA Joined ==
  ASSUME NEW S, NEW s \in Seq(S), NEW t \in Seq(S)
  PROVE  LET u == s \o t
         IN  /\ u \in Seq(S)
             /\ Len(u) = Len(s) + Len(t)
             /\ \A i \in 1 .. Len(s) : u[i] = s[i]
             /\ Range(u) = Range(s) \cup Range(t)
             /\ (/\ IsInjective(s) /\ IsInjective(t)
                 /\ Range(s) \cap Range(t) = {}) => IsInjective(u)
<1> DEFINE u == s \o t
<1>1. /\ u \in Seq(S) /\ Len(u) = Len(s) + Len(t)
      /\ Len(s) \in Nat /\ Len(t) \in Nat
      /\ DOMAIN s = 1 .. Len(s) /\ DOMAIN t = 1 .. Len(t) /\ DOMAIN u = 1 .. Len(u)
  OBVIOUS
<1>2. /\ \A i \in 1 .. Len(s) : u[i] = s[i]
      /\ \A i \in 1 .. Len(t) : u[Len(s) + i] = t[i]
  OBVIOUS
<1>3. \A i \in 1 .. Len(u) : i \in 1 .. Len(s) \/ i - Len(s) \in 1 .. Len(t)
  BY <1>1
<1>4. \A i \in 1 .. Len(u) : i \notin 1 .. Len(s) => u[i] = t[i - Len(s)]
  <2>1. \A i \in 1 .. Len(u) : i \notin 1 .. Len(s) =>
           i - Len(s) \in 1 .. Len(t) /\ i = Len(s) + (i - Len(s))
    BY <1>1
  <2> QED
    BY <1>2, <2>1
<1> HIDE DEF u
<1>5. Range(u) = Range(s) \cup Range(t)
  <2>1. ASSUME NEW x \in Range(u) PROVE x \in Range(s) \cup Range(t)
    BY <1>1, <1>2, <1>3, <1>4 DEF Range
  <2>2. ASSUME NEW x \in Range(s) PROVE x \in Range(u)
    BY <1>1, <1>2 DEF Range
  <2>3. ASSUME NEW x \in Range(t) PROVE x \in Range(u)
    <3>1. PICK i \in 1 .. Len(t) : x = t[i]
      BY <1>1 DEF Range
    <3>2. Len(s) + i \in 1 .. Len(u)
      BY <1>1
    <3> QED
      BY <1>1, <1>2, <3>1, <3>2 DEF Range
  <2> QED
    BY <2>1, <2>2, <2>3
<1>6. ASSUME IsInjective(s), IsInjective(t), Range(s) \cap Range(t) = {}
      PROVE  IsInjective(u)
  <2> SUFFICES ASSUME NEW i \in 1 .. Len(u), NEW j \in 1 .. Len(u), u[i] = u[j]
               PROVE  i = j
    BY <1>1 DEF IsInjective
  <2>1. CASE i \in 1 .. Len(s) /\ j \in 1 .. Len(s)
    BY <1>1, <1>2, <1>6, <2>1 DEF IsInjective
  <2>2. CASE i \in 1 .. Len(s) /\ j \notin 1 .. Len(s)
    BY <1>1, <1>2, <1>3, <1>4, <1>6, <2>2 DEF Range
  <2>3. CASE i \notin 1 .. Len(s) /\ j \in 1 .. Len(s)
    BY <1>1, <1>2, <1>3, <1>4, <1>6, <2>3 DEF Range
  <2>4. CASE i \notin 1 .. Len(s) /\ j \notin 1 .. Len(s)
    <3>1. t[i - Len(s)] = t[j - Len(s)]
      BY <1>4, <2>4
    <3>2. i - Len(s) = j - Len(s)
      BY <1>1, <1>3, <1>6, <2>4, <3>1 DEF IsInjective
    <3> QED
      BY <1>1, <3>2
  <2> QED
    BY <2>1, <2>2, <2>3, <2>4
<1> QED
  BY <1>1, <1>2, <1>5, <1>6 DEF u

(* A stack without a window, and with that window brought to its front.    *)
LEMMA WithoutProperties ==
  ASSUME NEW s \in Seq(Windows), NEW w \in Windows
  PROVE  LET t == Without(s, w)
         IN  /\ t \in Seq(Windows)
             /\ Range(t) = Range(s) \ {w}
             /\ IsInjective(s) => IsInjective(t)
             /\ s # <<>> /\ Head(s) # w => Head(t) = Head(s)
<1> DEFINE I == {i \in DOMAIN s : s[i] # w}
           t == Without(s, w)
<1>1. I \in SUBSET DOMAIN s
  OBVIOUS
<1>2. t = AtPositions(s, I)
  BY DEF Without
<1>3. s # <<>> /\ Head(s) # w => 1 \in I
  OBVIOUS
<1> HIDE DEF t
<1>4. Range(s) \ {w} = {s[i] : i \in I}
  BY DEF Range
<1> HIDE DEF I
<1> QED
  BY <1>1, <1>2, <1>3, <1>4, AtPositionsProperties DEF t

LEMMA RaisedStack ==
  ASSUME NEW s \in Seq(Windows), NEW w \in Windows, NEW t, t = <<w>> \o s,
         IsInjective(s), w \notin Range(s)
  PROVE  /\ t \in Seq(Windows)
         /\ IsInjective(t)
         /\ Range(t) = Range(s) \cup {w}
         /\ Head(t) = w
<1>1. <<w>> \in Seq(Windows) /\ Len(<<w>>) = 1 /\ <<w>>[1] = w
  OBVIOUS
<1>2. IsInjective(<<w>>) /\ Range(<<w>>) = {w}
  BY DEF IsInjective, Range
<1>3. /\ t \in Seq(Windows) /\ Len(t) = 1 + Len(s) /\ t[1] = w
      /\ Range(t) = Range(s) \cup {w} /\ IsInjective(t)
  <2> DEFINE e == <<w>>
  <2>1. e \in Seq(Windows) /\ Len(e) = 1 /\ e[1] = w /\ IsInjective(e) /\ Range(e) = {w}
    BY <1>1, <1>2
  <2>2. t = e \o s /\ Range(e) \cap Range(s) = {} /\ 1 \in 1 .. Len(e)
    BY <2>1
  <2> HIDE DEF e
  <2> QED
    BY <2>1, <2>2, Joined
<1> QED
  BY <1>3


-----------------------------------------------------------------------------
(***************************************************************************)
(* Positions round a cycle.                                                *)
(***************************************************************************)
LEMMA StepIs ==
  ASSUME NEW n \in Nat, NEW i \in 1 .. n, NEW dir \in Directions
  PROVE  /\ Step(i, dir, n) \in 1 .. n
         /\ dir = "next" => Step(i, dir, n) = IF i < n THEN i + 1 ELSE 1
         /\ dir = "previous" => Step(i, dir, n) = IF i = 1 THEN n ELSE i - 1
         /\ dir = "next" \/ dir = "previous"
<1>1. i < n => i % n = i
  OBVIOUS
<1>2. n % n = 0
  OBVIOUS
<1>3. dir = "next" \/ dir = "previous"
  BY DEF Directions
<1>4. CASE dir = "next"
  <2>1. Step(i, dir, n) = (i % n) + 1
    BY <1>4 DEF Step
  <2>2. CASE i < n
    BY <1>1, <1>4, <2>1, <2>2
  <2>3. CASE i = n
    BY <1>2, <1>4, <2>1, <2>3
  <2> QED
    BY <2>2, <2>3
<1>5. CASE dir = "previous"
  BY <1>5 DEF Step
<1> QED
  BY <1>3, <1>4, <1>5

LEMMA StepMoves ==
  ASSUME NEW n \in Nat, n > 1, NEW i \in 1 .. n, NEW dir \in Directions
  PROVE  Step(i, dir, n) # i
BY StepIs

LEMMA StepBack ==
  ASSUME NEW n \in Nat, NEW i \in 1 .. n,
         NEW dir \in Directions, NEW other \in Directions \ {dir}
  PROVE  Step(Step(i, dir, n), other, n) = i
<1> DEFINE j == Step(i, dir, n)
<1>1. /\ j \in 1 .. n
      /\ dir = "next" => j = IF i < n THEN i + 1 ELSE 1
      /\ dir = "previous" => j = IF i = 1 THEN n ELSE i - 1
  BY StepIs
<1>2. /\ dir = "next" => other = "previous"
      /\ dir = "previous" => other = "next"
      /\ dir = "next" \/ dir = "previous"
  BY DEF Directions
<1> HIDE DEF j
<1>3. /\ other = "next" => Step(j, other, n) = IF j < n THEN j + 1 ELSE 1
      /\ other = "previous" => Step(j, other, n) = IF j = 1 THEN n ELSE j - 1
  BY <1>1, StepIs
<1>4. CASE dir = "next"
  BY <1>1, <1>2, <1>3, <1>4 DEF j
<1>5. CASE dir = "previous"
  BY <1>1, <1>2, <1>3, <1>5 DEF j
<1> QED
  BY <1>2, <1>4, <1>5

(* How many steps in a direction lead from position i to position q.       *)
Distance(dir, i, n, q) ==
  IF dir = "next" THEN IF q > i THEN q - i ELSE q - i + n
                  ELSE IF q < i THEN i - q ELSE i - q + n

(* A step keeps the order in which the other positions come, those that    *)
(* have just been added at the end or not, and goes to the nearest.        *)
LEMMA StepKeepsDistances ==
  ASSUME NEW n \in Nat, NEW m \in Nat, n <= m, NEW i \in 1 .. n,
         NEW dir \in Directions, NEW p \in 1 .. n, NEW q \in 1 .. n,
         Distance(dir, i, n, q) < Distance(dir, i, n, p)
  PROVE  LET j == Step(i, dir, m)
         IN  /\ p # j
             /\ q # j => Distance(dir, j, m, q) < Distance(dir, j, m, p)
<1>1. i \in 1 .. m
  OBVIOUS
<1>2. CASE dir = "next"
  <2>1. Step(i, dir, m) = IF i < m THEN i + 1 ELSE 1
    BY <1>1, <1>2, StepIs
  <2> QED
    BY <1>2, <2>1 DEF Distance
<1>3. CASE dir = "previous"
  <2>1. Step(i, dir, m) = IF i = 1 THEN m ELSE i - 1
    BY <1>1, <1>3, StepIs
  <2> QED
    BY <1>3, <2>1 DEF Distance
<1> QED
  BY <1>2, <1>3 DEF Directions

LEMMA FarthestIsHere ==
  ASSUME NEW n \in Nat, NEW i \in 1 .. n, NEW q \in 1 .. n, q # i,
         NEW dir \in Directions
  PROVE  Distance(dir, i, n, q) < Distance(dir, i, n, i)
BY DEF Distance

-----------------------------------------------------------------------------
(***************************************************************************)
(* The layout of the windows, and what a press plans.                      *)
(***************************************************************************)
Disjoint ==
  \A d, e \in Displays : d # e => Range(stacks[d]) \cap Range(stacks[e]) = {}

Layout == TypeOK /\ Disjoint

LEMMA IdsFacts ==
  ASSUME TypeOK
  PROVE  /\ active \in Displays
         /\ Ids \in Seq(Windows) /\ IsInjective(Ids)
         /\ Len(Ids) \in Nat /\ DOMAIN Ids = 1 .. Len(Ids)
         /\ Range(Ids) \subseteq Windows
<1>1. active \in Displays /\ Ids \in Seq(Windows) /\ IsInjective(Ids)
  BY DEF TypeOK, Ids
<1>2. \A s \in Seq(Windows) : Len(s) \in Nat /\ DOMAIN s = 1 .. Len(s)
                                /\ Range(s) \subseteq Windows
  BY DEF Range
<1> QED
  BY <1>1, <1>2

LEMMA CycleFacts ==
  ASSUME TypeOK, cycle # NoCycle
  PROVE  /\ cycle \in Cycles
         /\ cycle.order \in Seq(Windows) /\ IsInjective(cycle.order)
         /\ Len(cycle.order) \in Nat /\ DOMAIN cycle.order = 1 .. Len(cycle.order)
         /\ cycle.index \in 1 .. Len(cycle.order)
         /\ cycle.age \in Ages
         /\ Aim(cycle) \in Range(cycle.order)
<1>1. cycle \in Cycles /\ cycle.index \in 1 .. Len(cycle.order) /\ IsInjective(cycle.order)
  BY DEF TypeOK
<1>2. cycle.order \in Seq(Windows) /\ cycle.age \in Ages
  BY <1>1 DEF Cycles
<1>3. Len(cycle.order) \in Nat /\ DOMAIN cycle.order = 1 .. Len(cycle.order)
  BY <1>2
<1> QED
  BY <1>1, <1>2, <1>3 DEF Aim, Range

(* The windows that joined follow those of the cycle.                      *)
LEMMA ExtendedFacts ==
  ASSUME TypeOK, CanContinue
  PROVE  /\ Extended \in Seq(Windows)
         /\ Len(Extended) \in Nat /\ Len(cycle.order) <= Len(Extended)
         /\ \A i \in 1 .. Len(cycle.order) : Extended[i] = cycle.order[i]
         /\ Range(Extended) = Range(Ids)
         /\ IsInjective(Extended)
         /\ Newcomers = {} => Extended = cycle.order
<1> DEFINE t == AtPositions(Ids, Newcomers)
<1>1. cycle # NoCycle /\ Range(cycle.order) \subseteq Range(Ids)
  BY DEF CanContinue
<1>2. /\ cycle.order \in Seq(Windows) /\ IsInjective(cycle.order)
      /\ Len(cycle.order) \in Nat
  BY <1>1, CycleFacts
<1>3. Ids \in Seq(Windows) /\ IsInjective(Ids) /\ Newcomers \in SUBSET DOMAIN Ids
  BY IdsFacts DEF Newcomers
<1>4. /\ t \in Seq(Windows) /\ IsInjective(t)
      /\ Range(t) = {Ids[i] : i \in Newcomers}
      /\ Newcomers = {} => t = <<>>
  BY <1>3, AtPositionsProperties
<1>5. Extended = cycle.order \o t
  BY DEF Extended
<1> HIDE DEF t
<1>6. Range(t) = Range(Ids) \ Range(cycle.order)
  <2>1. {Ids[i] : i \in Newcomers} = Range(Ids) \ Range(cycle.order)
    BY DEF Newcomers, Range
  <2> QED
    BY <1>4, <2>1
<1>7. /\ Extended \in Seq(Windows)
      /\ Len(Extended) = Len(cycle.order) + Len(t)
      /\ \A i \in 1 .. Len(cycle.order) : Extended[i] = cycle.order[i]
      /\ Range(Extended) = Range(cycle.order) \cup Range(t)
      /\ IsInjective(Extended)
  <2>1. Range(cycle.order) \cap Range(t) = {}
    BY <1>6
  <2> QED
    BY <1>2, <1>4, <1>5, <2>1, Joined
<1>8. Len(t) \in Nat
  BY <1>4
<1>9. Newcomers = {} => Extended = cycle.order
  BY <1>2, <1>4, <1>5
<1> QED
  BY <1>1, <1>2, <1>6, <1>7, <1>8, <1>9

(* What any order of the windows that are here makes of a plan.            *)
LEMMA PlanShape ==
  ASSUME TypeOK, Len(Ids) > 1, 0 \in Ages,
         NEW order \in Seq(Windows), IsInjective(order), Range(order) = Range(Ids),
         NEW index \in 1 .. Len(order),
         NEW plan, plan = [order |-> order, index |-> index, age |-> 0]
  PROVE  /\ plan \in Cycles
         /\ plan.age = 0
         /\ Len(plan.order) \in Nat /\ Len(plan.order) > 1
         /\ DOMAIN plan.order = 1 .. Len(plan.order)
         /\ plan.index \in 1 .. Len(plan.order)
         /\ IsInjective(plan.order)
         /\ Range(plan.order) = Range(Ids)
         /\ Aim(plan) \in Range(Ids)
         /\ plan # NoCycle
<1>1. Len(order) \in Nat /\ DOMAIN order = 1 .. Len(order)
  OBVIOUS
<1>2. Len(order) > 1
  <2>1. /\ Ids \in Seq(Windows) /\ IsInjective(Ids) /\ Len(Ids) \in Nat
        /\ DOMAIN Ids = 1 .. Len(Ids)
    BY IdsFacts
  <2>2. Ids[1] \in Range(Ids) /\ Ids[2] \in Range(Ids) /\ Ids[1] # Ids[2]
    BY <2>1 DEF IsInjective, Range
  <2>3. PICK i, j \in 1 .. Len(order) : order[i] = Ids[1] /\ order[j] = Ids[2]
    BY <1>1, <2>2 DEF Range
  <2>4. i # j
    BY <2>2, <2>3
  <2> QED
    BY <1>1, <2>4
<1>3. plan.order = order /\ plan.index = index /\ plan.age = 0
  OBVIOUS
<1>4. plan \in Cycles
  BY <1>1 DEF Cycles
<1>5. plan # NoCycle
  BY <1>4, CycleAssumption DEF Cycles, Ages
<1>6. Aim(plan) \in Range(Ids)
  <2>1. order[index] \in Range(order)
    BY <1>1 DEF Range
  <2> QED
    BY <1>3, <2>1 DEF Aim
<1> QED
  BY <1>1, <1>2, <1>3, <1>4, <1>5, <1>6

LEMMA PlanFacts ==
  ASSUME TypeOK, Len(Ids) > 1, NEW dir \in Directions
  PROVE  LET plan == Plan(dir)
         IN  /\ plan \in Cycles
             /\ plan.age = 0
             /\ Len(plan.order) \in Nat /\ Len(plan.order) > 1
             /\ DOMAIN plan.order = 1 .. Len(plan.order)
             /\ plan.index \in 1 .. Len(plan.order)
             /\ IsInjective(plan.order)
             /\ Range(plan.order) = Range(Ids)
             /\ Aim(plan) \in Range(Ids)
             /\ plan # NoCycle
<1> DEFINE plan == Plan(dir)
<1>1. /\ active \in Displays
      /\ Ids \in Seq(Windows) /\ IsInjective(Ids)
      /\ Len(Ids) \in Nat /\ DOMAIN Ids = 1 .. Len(Ids)
  BY IdsFacts
<1>2. 0 \in Ages
  BY CycleAssumption DEF Ages
<1>3. CASE CanContinue
  <2>1. plan = [order |-> Extended,
                index |-> Step(cycle.index, dir, Len(Extended)), age |-> 0]
    BY <1>3 DEF Plan, Continued
  <2>2. cycle # NoCycle
    BY <1>3 DEF CanContinue
  <2>3. cycle.index \in 1 .. Len(cycle.order)
    BY <2>2, CycleFacts
  <2>4. /\ Extended \in Seq(Windows)
        /\ Len(Extended) \in Nat /\ Len(cycle.order) <= Len(Extended)
        /\ Range(Extended) = Range(Ids)
        /\ IsInjective(Extended)
    BY <1>3, ExtendedFacts
  <2>5. Len(cycle.order) \in Nat /\ cycle.index \in 1 .. Len(Extended)
    BY <2>2, <2>3, <2>4, CycleFacts
  <2>6. Step(cycle.index, dir, Len(Extended)) \in 1 .. Len(Extended)
    BY <2>4, <2>5, StepIs
  <2> HIDE DEF plan
  <2> QED
    BY <1>2, <2>1, <2>4, <2>6, PlanShape DEF plan
<1>4. CASE ~CanContinue
  <2>1. plan = [order |-> Ids, index |-> IF dir = "next" THEN 2 ELSE Len(Ids), age |-> 0]
    BY <1>4 DEF Plan, Fresh
  <2>2. (IF dir = "next" THEN 2 ELSE Len(Ids)) \in 1 .. Len(Ids)
    BY <1>1
  <2> HIDE DEF plan
  <2> QED
    BY <1>1, <1>2, <2>1, <2>2, PlanShape DEF plan
<1> QED
  BY <1>3, <1>4

-----------------------------------------------------------------------------
(***************************************************************************)
(* What the actions do to the stacks.                                      *)
(***************************************************************************)
Arranged(st) ==
  /\ DOMAIN st = Displays
  /\ \A d \in Displays : st[d] \in Seq(Windows) /\ IsInjective(st[d])
  /\ \A d, e \in Displays : d # e => Range(st[d]) \cap Range(st[e]) = {}

LEMMA LayoutIsArranged ==
  Layout <=> TypeOK /\ Arranged(stacks)
BY DEF Layout, Arranged, Disjoint, TypeOK

LEMMA HomeFacts ==
  ASSUME Layout, NEW w \in Open
  PROVE  /\ w \in Windows
         /\ HomeOf(w) \in Displays
         /\ w \in Range(stacks[HomeOf(w)])
         /\ \A d \in Displays : w \in Range(stacks[d]) => d = HomeOf(w)
<1>1. \E d \in Displays : w \in Range(stacks[d])
  BY DEF Open
<1>2. HomeOf(w) \in Displays /\ w \in Range(stacks[HomeOf(w)])
  BY <1>1 DEF HomeOf
<1>3. stacks[HomeOf(w)] \in Seq(Windows)
  BY <1>2 DEF Layout, TypeOK
<1>4. w \in Windows
  BY <1>2, <1>3 DEF Range
<1> QED
  BY <1>2, <1>4 DEF Layout, Disjoint

LEMMA RaisedArranged ==
  ASSUME Layout, NEW w \in Open
  PROVE  /\ Arranged(Raised(w))
         /\ \A d \in Displays : Range(Raised(w)[d]) = Range(stacks[d])
         /\ Head(Raised(w)[HomeOf(w)]) = w
<1> DEFINE h == HomeOf(w)
           rest == Without(stacks[h], w)
           top == <<w>> \o rest
<1>1. /\ w \in Windows /\ h \in Displays /\ w \in Range(stacks[h])
      /\ Arranged(stacks)
  BY HomeFacts, LayoutIsArranged
<1>2. stacks[h] \in Seq(Windows) /\ IsInjective(stacks[h])
  BY <1>1 DEF Arranged
<1>3. /\ rest \in Seq(Windows) /\ IsInjective(rest)
      /\ Range(rest) = Range(stacks[h]) \ {w}
  BY <1>1, <1>2, WithoutProperties
<1> HIDE DEF rest
<1>4. /\ top \in Seq(Windows) /\ IsInjective(top) /\ Head(top) = w
      /\ Range(top) = Range(rest) \cup {w}
  BY <1>1, <1>3, RaisedStack
<1>5. Raised(w) = [stacks EXCEPT ![h] = top]
  BY DEF Raised, rest
<1> HIDE DEF top, h
<1>6. /\ DOMAIN Raised(w) = Displays /\ Raised(w)[h] = top
      /\ \A d \in Displays \ {h} : Raised(w)[d] = stacks[d]
  BY <1>1, <1>5 DEF Arranged
<1>7. \A d \in Displays : Range(Raised(w)[d]) = Range(stacks[d])
  BY <1>1, <1>3, <1>4, <1>6
<1>8. Arranged(Raised(w))
  BY <1>1, <1>4, <1>6, <1>7 DEF Arranged
<1> QED
  BY <1>4, <1>6, <1>7, <1>8 DEF h

LEMMA ClosedArranged ==
  ASSUME Layout, NEW w \in Open,
         NEW st, st = [stacks EXCEPT ![HomeOf(w)] = Without(@, w)]
  PROVE  /\ Arranged(st)
         /\ \A d \in Displays \ {HomeOf(w)} : st[d] = stacks[d]
         /\ Range(st[HomeOf(w)]) = Range(stacks[HomeOf(w)]) \ {w}
         /\ Head(stacks[HomeOf(w)]) # w
              => Head(st[HomeOf(w)]) = Head(stacks[HomeOf(w)])
<1> DEFINE h == HomeOf(w)
           rest == Without(stacks[h], w)
<1>1. /\ w \in Windows /\ h \in Displays /\ w \in Range(stacks[h])
      /\ Arranged(stacks)
  BY HomeFacts, LayoutIsArranged
<1>2. /\ stacks[h] \in Seq(Windows) /\ IsInjective(stacks[h])
      /\ stacks[h] # <<>>
  BY <1>1 DEF Arranged, Range
<1>3. /\ rest \in Seq(Windows) /\ IsInjective(rest)
      /\ Range(rest) = Range(stacks[h]) \ {w}
      /\ Head(stacks[h]) # w => Head(rest) = Head(stacks[h])
  BY <1>1, <1>2, WithoutProperties
<1>4. st = [stacks EXCEPT ![h] = rest]
  OBVIOUS
<1> HIDE DEF rest, h
<1>5. /\ DOMAIN st = Displays /\ st[h] = rest
      /\ \A d \in Displays \ {h} : st[d] = stacks[d]
  BY <1>1, <1>4 DEF Arranged
<1>6. \A d \in Displays : Range(st[d]) \subseteq Range(stacks[d])
  BY <1>1, <1>3, <1>5
<1>7. Arranged(st)
  <2>1. \A d \in Displays : st[d] \in Seq(Windows) /\ IsInjective(st[d])
    BY <1>1, <1>3, <1>5 DEF Arranged
  <2>2. \A d, e \in Displays : d # e => Range(st[d]) \cap Range(st[e]) = {}
    BY <1>1, <1>6 DEF Arranged
  <2> QED
    BY <1>5, <2>1, <2>2 DEF Arranged
<1> QED
  BY <1>3, <1>5, <1>7 DEF h

(* A window that is on no display goes to the front of one.                *)
LEMMA OpenedArranged ==
  ASSUME NEW st, Arranged(st), NEW w \in Windows, NEW d \in Displays,
         \A e \in Displays : w \notin Range(st[e]),
         NEW new, new = [st EXCEPT ![d] = <<w>> \o @]
  PROVE  Arranged(new)
<1> DEFINE top == <<w>> \o st[d]
<1>1. st[d] \in Seq(Windows) /\ IsInjective(st[d])
  BY DEF Arranged
<1>2. /\ top \in Seq(Windows) /\ IsInjective(top)
      /\ Range(top) = Range(st[d]) \cup {w}
  BY <1>1, RaisedStack
<1>3. new = [st EXCEPT ![d] = top]
  OBVIOUS
<1> HIDE DEF top
<1>4. /\ DOMAIN new = Displays /\ new[d] = top
      /\ \A e \in Displays \ {d} : new[e] = st[e]
  BY <1>3 DEF Arranged
<1>5. \A e \in Displays : new[e] \in Seq(Windows) /\ IsInjective(new[e])
  BY <1>2, <1>4 DEF Arranged
<1>6. \A e, f \in Displays : e # f => Range(new[e]) \cap Range(new[f]) = {}
  <2>1. \A e \in Displays : \A x \in Range(new[e]) :
           x \in Range(st[e]) \/ (e = d /\ x = w)
    BY <1>2, <1>4
  <2> SUFFICES ASSUME NEW e \in Displays, NEW f \in Displays, e # f,
                      NEW x \in Range(new[e]), x \in Range(new[f])
               PROVE  FALSE
    OBVIOUS
  <2>2. ~(x \in Range(st[e]) /\ x \in Range(st[f]))
    BY DEF Arranged
  <2> QED
    BY <2>1, <2>2
<1> QED
  BY <1>4, <1>5, <1>6 DEF Arranged

LEMMA MovedArranged ==
  ASSUME Layout, NEW w \in Open, NEW d \in Displays, d # HomeOf(w),
         NEW new,
         new = [stacks EXCEPT ![HomeOf(w)] = Without(@, w), ![d] = <<w>> \o @]
  PROVE  Arranged(new)
<1> DEFINE h == HomeOf(w)
           st == [stacks EXCEPT ![h] = Without(@, w)]
<1>1. /\ Arranged(st)
      /\ \A e \in Displays \ {h} : st[e] = stacks[e]
      /\ Range(st[h]) = Range(stacks[h]) \ {w}
  BY ClosedArranged
<1>2. /\ w \in Windows
      /\ \A e \in Displays : w \in Range(stacks[e]) => e = h
  BY HomeFacts
<1>3. \A e \in Displays : w \notin Range(st[e])
  BY <1>1, <1>2
<1>4. new = [st EXCEPT ![d] = <<w>> \o @]
  OBVIOUS
<1> HIDE DEF st
<1> QED
  BY <1>1, <1>2, <1>3, <1>4, OpenedArranged

LEMMA AimIsHome ==
  ASSUME Layout, Len(Ids) > 1, NEW dir \in Directions
  PROVE  /\ Aim(Plan(dir)) \in Open
         /\ HomeOf(Aim(Plan(dir))) = active
<1>1. active \in Displays /\ Aim(Plan(dir)) \in Range(stacks[active])
  BY IdsFacts, PlanFacts DEF Layout, Ids
<1>2. Aim(Plan(dir)) \in Open
  BY <1>1 DEF Open
<1> QED
  BY <1>1, <1>2, HomeFacts

-----------------------------------------------------------------------------
(***************************************************************************)
(* Type correctness.                                                       *)
(***************************************************************************)
LEMMA LayoutInit == Init => Layout
<1> SUFFICES ASSUME Init PROVE Layout
  OBVIOUS
<1>1. \A s \in Orders : s \in Seq(Windows) /\ IsInjective(s)
  <2>1. Cardinality(Windows) \in Nat
    BY CycleAssumption, FS_CardinalityType
  <2>2. \A n \in 0 .. Cardinality(Windows) : n \in Nat
    BY <2>1
  <2>3. SeqOf(Windows, Cardinality(Windows)) \subseteq Seq(Windows)
    BY <2>2, SeqDef DEF SeqOf
  <2> QED
    BY <2>3 DEF Orders
<1>2. stacks \in [Displays -> Orders]
  BY DEF Init
<1>3. DOMAIN stacks = Displays /\ \A d \in Displays : stacks[d] \in Orders
  BY <1>2
<1>4. owed \in [Windows -> SUBSET Windows]
  BY DEF Init, NothingOwed
<1> QED
  BY <1>1, <1>3, <1>4 DEF Init, Layout, TypeOK, Disjoint

(* What a press does, when there is somewhere to go.                       *)
LEMMA PressOf ==
  ASSUME NEW dir \in Directions, Cycle(dir), Len(Ids) > 1, Layout
  PROVE  \E took \in BOOLEAN :
           LET plan == Plan(dir)
               w == Aim(plan)
           IN  /\ cycle' = plan
               /\ heading' = dir
               /\ before' = IF CanContinue THEN Aim(cycle) ELSE Head(Ids)
               /\ owed' = [v \in Windows |->
                             IF v = w THEN Range(Ids) \ {w}
                             ELSE IF CanContinue /\ heading = dir THEN owed[v] \ {w}
                             ELSE {}]
               /\ settled' = took
               /\ stacks' = IF took THEN Raised(w) ELSE stacks
               /\ active' = active
<1>1. ~(Len(Ids) <= 1)
  BY IdsFacts DEF Layout
<1>2. HomeOf(Aim(Plan(dir))) = active
  BY AimIsHome
<1>3. PICK took \in BOOLEAN :
        /\ RecordPlan(Plan(dir), took)
        /\ stacks' = IF took THEN Raised(Aim(Plan(dir))) ELSE stacks
        /\ active' = IF took THEN HomeOf(Aim(Plan(dir))) ELSE active
        /\ Chronicle(dir, Plan(dir), took)
  BY <1>1 DEF Cycle, FocusWindow
<1>4. active' = active
  BY <1>2, <1>3
<1>5. /\ heading' = dir
      /\ before' = IF CanContinue THEN Aim(cycle) ELSE Head(Ids)
      /\ owed' = [v \in Windows |->
                    IF v = Aim(Plan(dir)) THEN Range(Ids) \ {Aim(Plan(dir))}
                    ELSE IF CanContinue /\ heading = dir
                         THEN owed[v] \ {Aim(Plan(dir))}
                    ELSE {}]
      /\ settled' = took
  BY <1>3 DEF Chronicle
<1>6. cycle' = Plan(dir)
  BY <1>3 DEF RecordPlan
<1> QED
  BY <1>3, <1>4, <1>5, <1>6

(* And when there is not.                                                  *)
LEMMA NoPress ==
  ASSUME NEW dir \in Directions, Cycle(dir), ~(Len(Ids) > 1)
  PROVE  /\ cycle' = NoCycle
         /\ heading' = "none"
         /\ before' = NoWindow
         /\ owed' = NothingOwed
         /\ UNCHANGED <<stacks, active, settled>>
BY DEF Cycle

LEMMA LayoutPress ==
  ASSUME Layout, NEW dir \in Directions, Cycle(dir)
  PROVE  Layout'
<1>1. CASE Len(Ids) > 1
  <2> DEFINE plan == Plan(dir)
             w == Aim(plan)
  <2>1. PICK took \in BOOLEAN :
          /\ cycle' = plan
          /\ heading' = dir
          /\ before' = IF CanContinue THEN Aim(cycle) ELSE Head(Ids)
          /\ owed' = [v \in Windows |->
                        IF v = w THEN Range(Ids) \ {w}
                        ELSE IF CanContinue /\ heading = dir THEN owed[v] \ {w}
                        ELSE {}]
          /\ settled' = took
          /\ stacks' = IF took THEN Raised(w) ELSE stacks
          /\ active' = active
    BY <1>1, PressOf
  <2>2. /\ plan \in Cycles /\ plan.index \in 1 .. Len(plan.order)
        /\ IsInjective(plan.order)
        /\ w \in Open
    BY <1>1, PlanFacts, AimIsHome DEF Layout
  <2> HIDE DEF plan, w
  <2>3. Arranged(stacks')
    BY <2>1, <2>2, RaisedArranged, LayoutIsArranged
  <2>4. before' \in Windows
    <3>1. CASE CanContinue
      <4>1. Aim(cycle) \in Range(Ids)
        BY <3>1, CycleFacts DEF CanContinue, Layout
      <4> QED
        BY <2>1, <3>1, <4>1, IdsFacts DEF Layout
    <3>2. CASE ~CanContinue
      <4>1. Head(Ids) \in Windows
        BY <1>1, IdsFacts DEF Layout
      <4> QED
        BY <2>1, <3>2, <4>1
    <3> QED
      BY <3>1, <3>2
  <2>5. owed' \in [Windows -> SUBSET Windows]
    <3>1. Range(Ids) \subseteq Windows /\ owed \in [Windows -> SUBSET Windows]
      BY IdsFacts DEF Layout, TypeOK
    <3> QED
      BY <2>1, <3>1
  <2> QED
    BY <2>1, <2>2, <2>3, <2>4, <2>5 DEF Layout, TypeOK, Arranged, Disjoint
<1>2. CASE ~(Len(Ids) > 1)
  <2>1. NothingOwed \in [Windows -> SUBSET Windows]
    BY DEF NothingOwed
  <2> QED
    BY <1>2, <2>1, NoPress DEF Layout, TypeOK, Disjoint
<1> QED
  BY <1>1, <1>2

LEMMA LayoutNext == Layout /\ [Next]_vars => Layout'
<1> SUFFICES ASSUME Layout, [Next]_vars PROVE Layout'
  OBVIOUS
<1>1. ASSUME NEW dir \in Directions, Cycle(dir) PROVE Layout'
  BY <1>1, LayoutPress
<1>2. ASSUME NEW w \in Windows, Click(w) PROVE Layout'
  <2>1. Arranged(stacks') /\ HomeOf(w) \in Displays
    BY <1>2, RaisedArranged, HomeFacts DEF Click
  <2> QED
    BY <1>2, <2>1 DEF Click, Layout, TypeOK, Arranged, Disjoint
<1>3. ASSUME NEW w \in Windows, CloseWindow(w) PROVE Layout'
  <2>1. Arranged(stacks')
    BY <1>3, ClosedArranged DEF CloseWindow
  <2> QED
    BY <1>3, <2>1 DEF CloseWindow, Layout, TypeOK, Arranged, Disjoint
<1>4. ASSUME NEW w \in Windows, NEW d \in Displays, OpenWindow(w, d) PROVE Layout'
  <2>1. Arranged(stacks) /\ \A e \in Displays : w \notin Range(stacks[e])
    BY <1>4, LayoutIsArranged DEF OpenWindow, Open
  <2>2. Arranged(stacks')
    BY <1>4, <2>1, OpenedArranged DEF OpenWindow
  <2> QED
    BY <1>4, <2>2 DEF OpenWindow, Layout, TypeOK, Arranged, Disjoint
<1>5. ASSUME NEW w \in Windows, NEW d \in Displays, MoveWindow(w, d) PROVE Layout'
  <2>1. Arranged(stacks')
    BY <1>5, MovedArranged DEF MoveWindow
  <2> QED
    BY <1>5, <2>1 DEF MoveWindow, Layout, TypeOK, Arranged, Disjoint
<1>6. ASSUME NEW d \in Displays, SwitchDisplay(d) PROVE Layout'
  BY <1>6 DEF SwitchDisplay, Layout, TypeOK, Disjoint
<1>7. ASSUME Tick PROVE Layout'
  <2>1. cycle \in Cycles /\ cycle' = [cycle EXCEPT !.age = cycle.age + 1]
    BY <1>7, CycleFacts DEF Tick, Layout
  <2>2. cycle.age + 1 \in Ages
    BY <1>7, CycleFacts, CycleAssumption DEF Tick, Ages, Layout
  <2>3. cycle' \in Cycles /\ cycle'.order = cycle.order /\ cycle'.index = cycle.index
    BY <2>1, <2>2 DEF Cycles
  <2> QED
    BY <1>7, <2>3 DEF Tick, Layout, TypeOK, Disjoint
<1>8. ASSUME UNCHANGED vars PROVE Layout'
  BY <1>8 DEF vars, Layout, TypeOK, Disjoint
<1> QED
  BY <1>1, <1>2, <1>3, <1>4, <1>5, <1>6, <1>7, <1>8 DEF Next

LEMMA LayoutAlways == Spec => []Layout
<1>1. Init => Layout
  BY LayoutInit
<1>2. Layout /\ [Next]_vars => Layout'
  BY LayoutNext
<1> QED
  BY <1>1, <1>2, PTL DEF Spec

(* Type correctness: an order is a sequence of different windows with its  *)
(* index in range (display_switch.cpp:99-103, 730-766).                    *)
THEOREM TypeCorrect == Spec => []TypeOK
<1>1. Layout => TypeOK
  BY DEF Layout
<1> QED
  BY <1>1, LayoutAlways, PTL

(***************************************************************************)
(* The window the next press would focus is open and on the active display *)
(* whatever happened to the windows in between.                            *)
(***************************************************************************)
THEOREM AimIsAlwaysHere == Spec => []AimIsHere
<1>1. TypeOK => AimIsHere
  BY PlanFacts DEF AimIsHere
<1> QED
  BY <1>1, TypeCorrect, PTL

-----------------------------------------------------------------------------
(***************************************************************************)
(* A press moves.  While nothing else raises a window, the one the last    *)
(* press aimed at is in front of its display, as long as all the windows   *)
(* of its cycle are there; so the next of them is not the one in front.    *)
(***************************************************************************)
FrontIsAim ==
  settled /\ cycle # NoCycle =>
    \A d \in Displays :
      Range(cycle.order) \subseteq Range(stacks[d]) => Head(stacks[d]) = Aim(cycle)

LEMMA FrontIsAimPress ==
  ASSUME Layout, FrontIsAim, NEW dir \in Directions, Cycle(dir)
  PROVE  FrontIsAim'
<1>1. CASE Len(Ids) > 1
  <2> DEFINE plan == Plan(dir)
             w == Aim(plan)
  <2>1. PICK took \in BOOLEAN :
          /\ cycle' = plan
          /\ settled' = took
          /\ stacks' = IF took THEN Raised(w) ELSE stacks
    BY <1>1, PressOf
  <2>2. /\ w \in Open /\ HomeOf(w) = active /\ w \in Range(Ids)
        /\ Range(plan.order) = Range(Ids)
    BY <1>1, PlanFacts, AimIsHome DEF Layout
  <2> HIDE DEF plan, w
  <2> SUFFICES ASSUME took, NEW d \in Displays,
                      Range(plan.order) \subseteq Range(stacks'[d])
               PROVE  Head(stacks'[d]) = Aim(plan)
    BY <2>1 DEF FrontIsAim, Aim
  <2>3. /\ stacks' = Raised(w)
        /\ Range(Raised(w)[d]) = Range(stacks[d])
        /\ Head(Raised(w)[active]) = w
    BY <2>1, <2>2, RaisedArranged
  <2>4. w \in Range(stacks[d])
    BY <2>2, <2>3
  <2>5. d = active
    BY <2>2, <2>4, HomeFacts
  <2> QED
    BY <2>3, <2>5 DEF w
<1>2. CASE ~(Len(Ids) > 1)
  BY <1>2, NoPress DEF FrontIsAim
<1> QED
  BY <1>1, <1>2

LEMMA FrontIsAimNext == Layout /\ FrontIsAim /\ [Next]_vars => FrontIsAim'
<1> SUFFICES ASSUME Layout, FrontIsAim, [Next]_vars PROVE FrontIsAim'
  OBVIOUS
<1>1. ASSUME NEW dir \in Directions, Cycle(dir) PROVE FrontIsAim'
  BY <1>1, FrontIsAimPress
<1>2. ASSUME settled' = FALSE PROVE FrontIsAim'
  BY <1>2 DEF FrontIsAim
<1>3. ASSUME NEW w \in Windows, CloseWindow(w) PROVE FrontIsAim'
  <2> DEFINE h == HomeOf(w)
  <2>1. /\ w \in Open
        /\ stacks' = [stacks EXCEPT ![h] = Without(@, w)]
        /\ UNCHANGED <<cycle, settled>>
    BY <1>3 DEF CloseWindow
  <2>2. /\ h \in Displays
        /\ \A d \in Displays \ {h} : stacks'[d] = stacks[d]
        /\ Range(stacks'[h]) = Range(stacks[h]) \ {w}
        /\ Head(stacks[h]) # w => Head(stacks'[h]) = Head(stacks[h])
    <3> DEFINE st == [stacks EXCEPT ![HomeOf(w)] = Without(@, w)]
    <3>1. /\ \A d \in Displays \ {HomeOf(w)} : st[d] = stacks[d]
          /\ Range(st[HomeOf(w)]) = Range(stacks[HomeOf(w)]) \ {w}
          /\ Head(stacks[HomeOf(w)]) # w
               => Head(st[HomeOf(w)]) = Head(stacks[HomeOf(w)])
      <4> HIDE DEF st
      <4> QED
        BY <2>1, ClosedArranged DEF st
    <3>2. stacks' = st
      BY <2>1
    <3> HIDE DEF st
    <3> QED
      BY <2>1, <3>1, <3>2, HomeFacts
  <2> HIDE DEF h
  <2> SUFFICES ASSUME settled, cycle # NoCycle, NEW d \in Displays,
                      Range(cycle.order) \subseteq Range(stacks'[d])
               PROVE  Head(stacks'[d]) = Aim(cycle)
    BY <2>1 DEF FrontIsAim, Aim
  <2>3. CASE d = h
    <3>1. Head(stacks[h]) = Aim(cycle)
      BY <2>2, <2>3 DEF FrontIsAim
    <3>2. Aim(cycle) # w
      BY <2>2, <2>3, CycleFacts DEF Layout
    <3> QED
      BY <2>2, <2>3, <3>1, <3>2
  <2>4. CASE d # h
    BY <2>2, <2>4 DEF FrontIsAim
  <2> QED
    BY <2>3, <2>4
<1>4. ASSUME NEW d \in Displays, SwitchDisplay(d) PROVE FrontIsAim'
  BY <1>4 DEF SwitchDisplay, FrontIsAim, Aim
<1>5. ASSUME Tick PROVE FrontIsAim'
  <2>1. cycle \in Cycles
    BY <1>5, CycleFacts DEF Tick, Layout
  <2>2. cycle'.order = cycle.order /\ cycle'.index = cycle.index
    BY <1>5, <2>1 DEF Tick, Cycles
  <2> QED
    BY <1>5, <2>2 DEF Tick, FrontIsAim, Aim
<1>6. ASSUME UNCHANGED vars PROVE FrontIsAim'
  BY <1>6 DEF vars, FrontIsAim, Aim
<1> QED
  BY <1>1, <1>2, <1>3, <1>4, <1>5, <1>6 DEF Next, Click, OpenWindow, MoveWindow

LEMMA SettledPressMoves ==
  ASSUME Layout, FrontIsAim, settled, Len(Ids) > 1, NEW dir \in Directions
  PROVE  Aim(Plan(dir)) # Head(Ids)
<1> DEFINE plan == Plan(dir)
<1>1. /\ plan.index \in 1 .. Len(plan.order) /\ IsInjective(plan.order)
      /\ DOMAIN plan.order = 1 .. Len(plan.order)
      /\ Len(plan.order) \in Nat /\ Len(plan.order) > 1
  BY PlanFacts DEF Layout
<1>2. /\ active \in Displays /\ Ids \in Seq(Windows) /\ Len(Ids) \in Nat
      /\ Head(Ids) = Ids[1]
  BY IdsFacts DEF Layout
<1>3. CASE CanContinue
  <2>1. /\ plan.order = Extended
        /\ plan.index = Step(cycle.index, dir, Len(plan.order))
    BY <1>3 DEF Plan, Continued
  <2>2. Head(Ids) = Aim(cycle)
    BY <1>2, <1>3 DEF FrontIsAim, CanContinue, Ids
  <2>3. /\ cycle.index \in 1 .. Len(cycle.order) /\ Len(cycle.order) \in Nat
        /\ Len(cycle.order) <= Len(Extended)
        /\ \A i \in 1 .. Len(cycle.order) : Extended[i] = cycle.order[i]
    BY <1>3, CycleFacts, ExtendedFacts DEF Layout, CanContinue
  <2>4. cycle.index \in 1 .. Len(plan.order)
    BY <1>1, <2>1, <2>3
  <2>5. Head(Ids) = plan.order[cycle.index]
    BY <2>1, <2>2, <2>3 DEF Aim
  <2> HIDE DEF plan
  <2>6. plan.index # cycle.index
    BY <1>1, <2>1, <2>4, StepMoves
  <2> QED
    BY <1>1, <2>4, <2>5, <2>6 DEF Aim, IsInjective, plan
<1>4. CASE ~CanContinue
  <2>1. plan.order = Ids /\ plan.index # 1
    <3>1. plan = Fresh(dir)
      BY <1>4 DEF Plan
    <3>2. /\ Fresh(dir).order = Ids
          /\ Fresh(dir).index = IF dir = "next" THEN 2 ELSE Len(Ids)
      BY DEF Fresh
    <3>3. 2 # 1
      OBVIOUS
    <3>4. \A n \in Nat : n > 1 => n # 1
      OBVIOUS
    <3>5. Len(Ids) # 1
      BY <1>2, <3>4
    <3> HIDE DEF plan
    <3> QED
      BY <3>1, <3>2, <3>3, <3>5
  <2>2. 1 \in 1 .. Len(plan.order)
    BY <1>1
  <2> HIDE DEF plan
  <2> QED
    BY <1>1, <1>2, <2>1, <2>2 DEF Aim, IsInjective, plan
<1> QED
  BY <1>3, <1>4

(* After a press that took, and until something else raises a window, the  *)
(* next press never aims at the window that is already in front            *)
(* (display_switch.cpp:720-744).                                           *)
THEOREM EveryPressAlwaysMoves == Spec => []EveryPressMoves
<1>1. Init => FrontIsAim
  BY DEF Init, FrontIsAim
<1>2. Layout /\ FrontIsAim /\ [Next]_vars => FrontIsAim'
  BY FrontIsAimNext
<1>3. Layout /\ FrontIsAim => EveryPressMoves
  BY SettledPressMoves DEF EveryPressMoves
<1> QED
  BY <1>1, <1>2, <1>3, LayoutAlways, PTL DEF Spec

-----------------------------------------------------------------------------
(***************************************************************************)
(* Turning back.  A step in the other direction undoes the last one.       *)
(***************************************************************************)
WayBack ==
  cycle # NoCycle =>
    /\ heading \in Directions
    /\ \A dir \in Directions \ {heading} :
         cycle.order[Step(cycle.index, dir, Len(cycle.order))] = before

LEMMA WayBackPress ==
  ASSUME Layout, NEW dir \in Directions, Cycle(dir)
  PROVE  WayBack'
<1>1. CASE Len(Ids) > 1
  <2> DEFINE plan == Plan(dir)
             n == Len(plan.order)
  <2>1. /\ cycle' = plan
        /\ heading' = dir
        /\ before' = IF CanContinue THEN Aim(cycle) ELSE Head(Ids)
    BY <1>1, PressOf
  <2>2. n \in Nat /\ n > 1
    BY <1>1, PlanFacts DEF Layout
  <2> SUFFICES ASSUME NEW other \in Directions \ {dir}
               PROVE  plan.order[Step(plan.index, other, n)] = before'
    <3> HIDE DEF plan
    <3> QED
      BY <2>1 DEF WayBack
  <2>3. CASE CanContinue
    <3>1. plan.order = Extended /\ plan.index = Step(cycle.index, dir, n)
      BY <2>3 DEF Plan, Continued
    <3>2. /\ cycle.index \in 1 .. Len(cycle.order) /\ Len(cycle.order) \in Nat
          /\ Len(cycle.order) <= Len(Extended)
          /\ \A i \in 1 .. Len(cycle.order) : Extended[i] = cycle.order[i]
      BY <2>3, CycleFacts, ExtendedFacts DEF Layout, CanContinue
    <3>3. cycle.index \in 1 .. n
      BY <2>2, <3>1, <3>2
    <3> HIDE DEF plan, n
    <3>4. Step(plan.index, other, n) = cycle.index
      BY <2>2, <3>1, <3>3, StepBack
    <3> QED
      BY <2>1, <2>3, <3>1, <3>2, <3>4 DEF Aim
  <2>4. CASE ~CanContinue
    <3>1. plan = Fresh(dir)
      BY <2>4 DEF Plan
    <3>2. /\ plan.order = Ids /\ n = Len(Ids)
          /\ plan.index = IF dir = "next" THEN 2 ELSE n
      BY <3>1 DEF Fresh
    <3> HIDE DEF plan, n
    <3>3. plan.index = Step(1, dir, n)
      <4>1. 1 \in 1 .. n
        BY <2>2
      <4>2. /\ dir = "next" => Step(1, dir, n) = 2
            /\ dir = "previous" => Step(1, dir, n) = n
            /\ dir = "next" \/ dir = "previous"
        BY <2>2, <4>1, StepIs
      <4> QED
        BY <3>2, <4>2
    <3>4. Step(plan.index, other, n) = 1
      <4>1. 1 \in 1 .. n
        BY <2>2
      <4> QED
        BY <2>2, <3>3, <4>1, StepBack
    <3>5. Head(Ids) = Ids[1]
      BY IdsFacts DEF Layout
    <3> QED
      BY <2>1, <2>4, <3>2, <3>4, <3>5
  <2> QED
    BY <2>3, <2>4
<1>2. CASE ~(Len(Ids) > 1)
  BY <1>2, NoPress DEF WayBack
<1> QED
  BY <1>1, <1>2

(* Between presses nothing changes the order, the index or the history.    *)
LEMMA BetweenPresses ==
  ASSUME Layout, [Next]_vars
  PROVE  \/ \E dir \in Directions : Cycle(dir)
         \/ /\ UNCHANGED <<heading, before, owed>>
            /\ cycle' # NoCycle =>
                 /\ cycle # NoCycle
                 /\ cycle'.order = cycle.order
                 /\ cycle'.index = cycle.index
<1>1. ASSUME Tick
      PROVE  /\ UNCHANGED <<heading, before, owed>>
             /\ cycle # NoCycle
             /\ cycle'.order = cycle.order
             /\ cycle'.index = cycle.index
  <2>1. cycle \in Cycles
    BY <1>1, CycleFacts DEF Tick, Layout
  <2> QED
    BY <1>1, <2>1 DEF Tick, Cycles
<1>2. ASSUME NEW w \in Windows, Click(w) \/ CloseWindow(w)
      PROVE  UNCHANGED <<cycle, heading, before, owed>>
  BY <1>2 DEF Click, CloseWindow
<1>3. ASSUME NEW w \in Windows, NEW d \in Displays,
             OpenWindow(w, d) \/ MoveWindow(w, d)
      PROVE  UNCHANGED <<cycle, heading, before, owed>>
  BY <1>3 DEF OpenWindow, MoveWindow
<1>4. ASSUME NEW d \in Displays, SwitchDisplay(d)
      PROVE  UNCHANGED <<cycle, heading, before, owed>>
  BY <1>4 DEF SwitchDisplay
<1>5. ASSUME UNCHANGED vars
      PROVE  UNCHANGED <<cycle, heading, before, owed>>
  BY <1>5 DEF vars
<1> QED
  BY <1>1, <1>2, <1>3, <1>4, <1>5 DEF Next

LEMMA WayBackNext == Layout /\ WayBack /\ [Next]_vars => WayBack'
<1> SUFFICES ASSUME Layout, WayBack, [Next]_vars PROVE WayBack'
  OBVIOUS
<1>1. CASE \E dir \in Directions : Cycle(dir)
  BY <1>1, WayBackPress
<1>2. CASE /\ UNCHANGED <<heading, before, owed>>
           /\ cycle' # NoCycle =>
                /\ cycle # NoCycle
                /\ cycle'.order = cycle.order
                /\ cycle'.index = cycle.index
  BY <1>2 DEF WayBack
<1> QED
  BY <1>1, <1>2, BetweenPresses

LEMMA TurningBack ==
  ASSUME Layout, WayBack, NEW dir \in Directions, CanContinue, heading # dir,
         Range(Ids) = Range(cycle.order)
  PROVE  Aim(Plan(dir)) = before
<1>1. Newcomers = {}
  BY DEF Newcomers, Range
<1>2. Extended = cycle.order
  BY <1>1, ExtendedFacts DEF Layout
<1>3. Plan(dir) = [order |-> cycle.order,
                   index |-> Step(cycle.index, dir, Len(cycle.order)), age |-> 0]
  BY <1>2 DEF Plan, Continued
<1>4. cycle # NoCycle
  BY DEF CanContinue
<1> QED
  BY <1>3, <1>4 DEF WayBack, Aim

(* A press against the direction of the cycle aims at the window that the  *)
(* last press left, unless windows joined (display_switch.cpp:730-760).    *)
THEOREM TurningBackAlwaysReturns == Spec => TurningBackReturns
<1>1. Init => WayBack
  BY DEF Init, WayBack
<1>2. Layout /\ WayBack /\ [Next]_vars => WayBack'
  BY WayBackNext
<1>3. Layout /\ WayBack =>
        \A dir \in Directions :
          (Cycle(dir) /\ Len(Ids) > 1 /\ CanContinue /\ heading # dir
             /\ Range(Ids) = Range(cycle.order))
             => Aim(Plan(dir)) = before
  BY TurningBack
<1> QED
  BY <1>1, <1>2, <1>3, LayoutAlways, PTL DEF Spec, TurningBackReturns

-----------------------------------------------------------------------------
(***************************************************************************)
(* Turns.  A window that has not been aimed at since another one was is    *)
(* reached before that one is reached again.                               *)
(***************************************************************************)
Ahead(q) == Distance(heading, cycle.index, Len(cycle.order), q)

OwedAhead ==
  cycle # NoCycle =>
    /\ \A v \in Windows : owed[v] # {} =>
         v \in Range(cycle.order) /\ owed[v] \subseteq Range(cycle.order)
    /\ \A p, q \in DOMAIN cycle.order :
         cycle.order[q] \in owed[cycle.order[p]] => Ahead(q) < Ahead(p)

(* What goes on in the same direction is the nearest of the cycle, or has  *)
(* just joined it.                                                         *)
LEMMA NothingIsOwed ==
  ASSUME Layout, OwedAhead, NEW dir \in Directions,
         CanContinue, heading = dir, Len(Ids) > 1
  PROVE  owed[Aim(Plan(dir))] = {}
<1> DEFINE n == Len(cycle.order)
           m == Len(Extended)
           j == Step(cycle.index, dir, m)
           w == Aim(Plan(dir))
<1>1. /\ cycle # NoCycle
      /\ cycle.order \in Seq(Windows) /\ n \in Nat /\ DOMAIN cycle.order = 1 .. n
      /\ cycle.index \in 1 .. n
  BY CycleFacts DEF Layout, CanContinue
<1>2. /\ m \in Nat /\ n <= m /\ IsInjective(Extended)
      /\ Extended \in Seq(Windows) /\ DOMAIN Extended = 1 .. m
      /\ \A i \in 1 .. n : Extended[i] = cycle.order[i]
  BY ExtendedFacts DEF Layout
<1>3. cycle.index \in 1 .. m
  BY <1>1, <1>2
<1>4. j \in 1 .. m
  BY <1>2, <1>3, StepIs
<1>5. w = Extended[j]
  BY DEF Plan, Continued, Aim
<1>6. w \in Windows
  BY PlanFacts, IdsFacts DEF Layout
<1> HIDE DEF n, m, j, w
<1> SUFFICES ASSUME NEW v \in owed[w] PROVE FALSE
  BY DEF w
<1>7. w \in Range(cycle.order) /\ v \in Range(cycle.order)
  BY <1>1, <1>6 DEF OwedAhead
<1>8. PICK p \in 1 .. n, q \in 1 .. n : w = cycle.order[p] /\ v = cycle.order[q]
  BY <1>1, <1>7 DEF Range
<1>9. p = j
  <2>1. Extended[p] = Extended[j] /\ p \in 1 .. m
    BY <1>1, <1>2, <1>5, <1>8
  <2> QED
    BY <1>2, <1>4, <2>1 DEF IsInjective
<1>10. Distance(dir, cycle.index, n, q) < Distance(dir, cycle.index, n, p)
  BY <1>1, <1>8 DEF OwedAhead, Ahead, n
<1>11. p # j
  BY <1>1, <1>2, <1>10, StepKeepsDistances DEF j
<1> QED
  BY <1>9, <1>11

LEMMA OwedAheadPress ==
  ASSUME Layout, OwedAhead, NEW dir \in Directions, Cycle(dir)
  PROVE  OwedAhead'
<1>1. CASE Len(Ids) > 1
  <2> DEFINE plan == Plan(dir)
             w == Aim(plan)
             m == Len(plan.order)
             j == plan.index
             still(v) == IF CanContinue /\ heading = dir THEN owed[v] \ {w} ELSE {}
  <2>1. /\ cycle' = plan
        /\ heading' = dir
        /\ owed' = [v \in Windows |-> IF v = w THEN Range(Ids) \ {w} ELSE still(v)]
    BY <1>1, PressOf
  <2>2. /\ m \in Nat /\ DOMAIN plan.order = 1 .. m /\ j \in 1 .. m
        /\ IsInjective(plan.order) /\ Range(plan.order) = Range(Ids)
        /\ w \in Range(Ids) /\ w = plan.order[j]
    BY <1>1, PlanFacts DEF Layout, Aim
  <2>3. Range(Ids) \subseteq Windows
    BY IdsFacts DEF Layout
  (* What is still owed was owed before, in the cycle that goes on. *)
  <2>4. ASSUME NEW v \in Windows, still(v) # {}
        PROVE  /\ CanContinue /\ heading = dir /\ still(v) = owed[v] \ {w}
               /\ v \in Range(cycle.order) /\ owed[v] \subseteq Range(cycle.order)
               /\ Range(cycle.order) \subseteq Range(Ids)
    <3>1. CanContinue /\ heading = dir /\ still(v) = owed[v] \ {w} /\ owed[v] # {}
      BY <2>4
    <3> HIDE DEF still
    <3> QED
      BY <3>1 DEF OwedAhead, CanContinue
  <2> HIDE DEF still
  <2>5. \A v \in Windows : owed'[v] # {} =>
          v \in Range(plan.order) /\ owed'[v] \subseteq Range(plan.order)
    <3> HIDE DEF plan, w
    <3> SUFFICES ASSUME NEW v \in Windows, owed'[v] # {}
                 PROVE  v \in Range(Ids) /\ owed'[v] \subseteq Range(Ids)
      BY <2>2
    <3>1. CASE v = w
      BY <2>1, <2>2, <3>1
    <3>2. CASE v # w
      BY <2>1, <2>4, <3>2
    <3> QED
      BY <3>1, <3>2
  <2>6. ASSUME NEW p \in 1 .. m, NEW q \in 1 .. m,
               plan.order[q] \in owed'[plan.order[p]]
        PROVE  Distance(dir, j, m, q) < Distance(dir, j, m, p)
    <3>1. /\ plan.order[p] \in Windows
          /\ plan.order[q] # w
      <4>1. plan.order[p] \in Range(plan.order)
        BY <2>2 DEF Range
      <4>2. plan.order[p] \in Windows
        BY <2>2, <2>3, <4>1
      <4>3. w \notin still(plan.order[p])
        BY DEF still
      <4> HIDE DEF plan, w
      <4> QED
        BY <2>1, <2>6, <4>2, <4>3
    <3>2. q # j
      BY <2>2, <3>1
    <3>3. CASE p = j
      BY <2>2, <3>2, <3>3, FarthestIsHere
    <3>4. CASE p # j
      <4> DEFINE n == Len(cycle.order)
                 v == plan.order[p]
                 u == plan.order[q]
      <4>1. v # w
        BY <2>2, <3>4 DEF IsInjective
      <4>2. u \in still(v)
        <5> HIDE DEF plan, w, u, v
        <5>1. owed'[v] = still(v)
          BY <2>1, <3>1, <4>1 DEF v
        <5> QED
          BY <2>6, <5>1 DEF u, v
      <4>3. /\ CanContinue /\ heading = dir
            /\ u \in owed[v] /\ v \in Range(cycle.order) /\ u \in Range(cycle.order)
        <5> HIDE DEF plan, w, u
        <5> QED
          BY <2>4, <3>1, <4>2 DEF v
      <4>4. /\ cycle # NoCycle
            /\ cycle.order \in Seq(Windows) /\ n \in Nat
            /\ DOMAIN cycle.order = 1 .. n
            /\ cycle.index \in 1 .. n
        BY <4>3, CycleFacts DEF Layout, CanContinue
      <4>5. /\ plan.order = Extended /\ j = Step(cycle.index, dir, m)
        BY <4>3 DEF Plan, Continued
      <4>6. /\ n <= m
            /\ \A i \in 1 .. n : Extended[i] = cycle.order[i]
        BY <4>3, <4>5, ExtendedFacts DEF Layout
      <4> HIDE DEF plan, w, m, j, n
      <4>7. PICK a \in 1 .. n, b \in 1 .. n : v = cycle.order[a] /\ u = cycle.order[b]
        BY <4>3, <4>4 DEF Range
      <4>8. a \in 1 .. m /\ b \in 1 .. m
        BY <2>2, <4>4, <4>6
      <4>9. p = a /\ q = b
        BY <2>2, <4>5, <4>6, <4>7, <4>8 DEF IsInjective
      <4>10. Distance(dir, cycle.index, n, q) < Distance(dir, cycle.index, n, p)
        BY <4>3, <4>4, <4>7, <4>9 DEF OwedAhead, Ahead, n
      <4> QED
        BY <2>2, <3>2, <4>4, <4>5, <4>6, <4>7, <4>9, <4>10, StepKeepsDistances
    <3> QED
      BY <3>3, <3>4
  <2> HIDE DEF plan, w
  <2> QED
    BY <2>1, <2>2, <2>5, <2>6 DEF OwedAhead, Ahead
<1>2. CASE ~(Len(Ids) > 1)
  BY <1>2, NoPress DEF OwedAhead
<1> QED
  BY <1>1, <1>2

LEMMA OwedAheadNext == Layout /\ OwedAhead /\ [Next]_vars => OwedAhead'
<1> SUFFICES ASSUME Layout, OwedAhead, [Next]_vars PROVE OwedAhead'
  OBVIOUS
<1>1. CASE \E dir \in Directions : Cycle(dir)
  BY <1>1, OwedAheadPress
<1>2. CASE /\ UNCHANGED <<heading, before, owed>>
           /\ cycle' # NoCycle =>
                /\ cycle # NoCycle
                /\ cycle'.order = cycle.order
                /\ cycle'.index = cycle.index
  BY <1>2 DEF OwedAhead, Ahead
<1> QED
  BY <1>1, <1>2, BetweenPresses

(* No window is skipped and none comes round early, although each focus    *)
(* reorders the windows, some fail, and others are opened or clicked       *)
(* meanwhile (display_switch.cpp:742-766, 923-941).                        *)
THEOREM EveryWindowAlwaysHasItsTurn == Spec => EveryWindowHasItsTurn
<1>1. Init => OwedAhead
  BY DEF Init, OwedAhead
<1>2. Layout /\ OwedAhead /\ [Next]_vars => OwedAhead'
  BY OwedAheadNext
<1>3. Layout /\ OwedAhead =>
        \A dir \in Directions :
          (Cycle(dir) /\ Len(Ids) > 1 /\ CanContinue /\ heading = dir)
             => owed[Aim(Plan(dir))] = {}
  BY NothingIsOwed
<1> QED
  BY <1>1, <1>2, <1>3, LayoutAlways, PTL DEF Spec, EveryWindowHasItsTurn
=============================================================================
