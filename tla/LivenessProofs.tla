--------------------------- MODULE LivenessProofs ---------------------------
(***************************************************************************)
(* Liveness for every control flow graph: the sets BlockLevelLivenessAnalyse*)
(* ends with are the least solution of the data flow equations, no round   *)
(* takes back what an earlier one found, and a variable is in them just    *)
(* when a path reads it before writing it.                                 *)
(***************************************************************************)
EXTENDS Liveness, FiniteSetTheorems, TLAPS

(***************************************************************************)
(* Solved and BelowEverySolution are inductive once the types are known.   *)
(* That the sets grow needs one more fact about the state between two      *)
(* rounds: the next round cannot lose anything.                            *)
(***************************************************************************)
NothingLost ==
    \A b \in Blocks : /\ live_in[b] \subseteq LiveIn(live_in, b)
                     /\ live_out[b] \subseteq LiveOut(live_in, b)

IInv == TypeOK /\ Solved /\ BelowEverySolution /\ NothingLost

(* The transfer functions of a block stay within the variables. *)
LEMMA TransferType ==
    ASSUME TypeOK, NEW in \in VarSets, NEW b \in Blocks
    PROVE  LiveOut(in, b) \subseteq Var /\ LiveIn(in, b) \subseteq Var
BY DEF TypeOK, VarSets, LiveOut, LiveIn

(* The transfer functions are monotone: with more live at the successors   *)
(* at least as much is live in the block.                                  *)
LEMMA TransferMonotone ==
    ASSUME TypeOK, NEW small \in VarSets, NEW large \in VarSets,
           \A b \in Blocks : small[b] \subseteq large[b]
    PROVE  \A b \in Blocks : /\ LiveOut(small, b) \subseteq LiveOut(large, b)
                            /\ LiveIn(small, b) \subseteq LiveIn(large, b)
<1> TAKE b \in Blocks
<1>1. succ[b] \subseteq Blocks
  BY DEF TypeOK
<1>2. LiveOut(small, b) \subseteq LiveOut(large, b)
  BY <1>1 DEF LiveOut
<1> QED
  BY <1>2 DEF LiveIn

(* The loop starts from empty sets, which lie below every solution. *)
LEMMA InitIInv == Init => IInv
<1> SUFFICES ASSUME Init
             PROVE  IInv
  OBVIOUS
<1>1. TypeOK
  BY DEF Init, TypeOK, VarSets
<1>2. \A b \in Blocks : live_in[b] = {} /\ live_out[b] = {}
  BY DEF Init
<1> QED
  BY <1>1, <1>2 DEF Init, IInv, Solved, BelowEverySolution, NothingLost

(* A round computes LiveIn and LiveOut of the sets before it and keeps     *)
(* the types.                                                              *)
LEMMA IterateFacts ==
    ASSUME TypeOK, Iterate
    PROVE  /\ \A b \in Blocks : /\ live_in'[b] = LiveIn(live_in, b)
                               /\ live_out'[b] = LiveOut(live_in, b)
           /\ TypeOK'
<1>1. \A b \in Blocks : /\ live_in'[b] = LiveIn(live_in, b)
                       /\ live_out'[b] = LiveOut(live_in, b)
  BY DEF Iterate
<1>2. live_in \in VarSets
  BY DEF TypeOK
<1>3. live_in' \in VarSets /\ live_out' \in VarSets
  BY <1>2, TransferType DEF Iterate, VarSets
<1>4. TypeOK'
  BY <1>3 DEF TypeOK, Iterate, input, VarSets
<1> QED
  BY <1>1, <1>4

(* Nothing a round computes is more than any solution has. *)
LEMMA IterateBelow ==
    ASSUME IInv, Iterate
    PROVE  BelowEverySolution'
<1> SUFFICES ASSUME NEW in \in VarSets, IsSolution(in)
             PROVE  \A b \in Blocks : /\ live_in'[b] \subseteq in[b]
                                     /\ live_out'[b] \subseteq LiveOut(in, b)
  BY DEF BelowEverySolution, IsSolution, LiveIn, LiveOut, VarSets, Iterate,
         input
<1>1. TypeOK /\ live_in \in VarSets
  BY DEF IInv, TypeOK
<1>2. \A b \in Blocks : live_in[b] \subseteq in[b]
  BY DEF IInv, BelowEverySolution
<1>3. \A b \in Blocks : /\ LiveOut(live_in, b) \subseteq LiveOut(in, b)
                       /\ LiveIn(live_in, b) \subseteq LiveIn(in, b)
  BY <1>1, <1>2, TransferMonotone
<1> QED
  BY <1>1, <1>3, IterateFacts DEF IsSolution

(* After a round the next one cannot lose anything either. *)
LEMMA IterateNothingLost ==
    ASSUME IInv, Iterate
    PROVE  NothingLost'
<1>1. TypeOK /\ live_in \in VarSets /\ live_in' \in VarSets
  BY IterateFacts DEF IInv, TypeOK, VarSets
<1>2. \A b \in Blocks : live_in[b] \subseteq live_in'[b]
  BY <1>1, IterateFacts DEF IInv, NothingLost
<1>3. \A b \in Blocks : /\ LiveOut(live_in, b) \subseteq LiveOut(live_in', b)
                       /\ LiveIn(live_in, b) \subseteq LiveIn(live_in', b)
  BY <1>1, <1>2, TransferMonotone
<1>4. \A b \in Blocks : /\ live_in'[b] \subseteq LiveIn(live_in', b)
                       /\ live_out'[b] \subseteq LiveOut(live_in', b)
  BY <1>1, <1>3, IterateFacts
<1> QED
  BY <1>4 DEF NothingLost, LiveIn, LiveOut, Iterate, input

(* The round that changes nothing has solved the equations. *)
LEMMA IterateSolved ==
    ASSUME IInv, Iterate
    PROVE  Solved'
<1> SUFFICES ASSUME ~changed'
             PROVE  \A b \in Blocks : /\ live_in'[b] = LiveIn(live_in', b)
                                     /\ live_out'[b] = LiveOut(live_in', b)
  BY DEF Solved, LiveIn, LiveOut, Iterate, input
<1>1. live_in' = live_in /\ live_out' = live_out
  BY DEF Iterate
<1> QED
  BY <1>1, IterateFacts DEF IInv

(* A round of the loop, or no round, preserves the inductive invariant. *)
LEMMA NextIInv == IInv /\ [Next]_vars => IInv'
<1> SUFFICES ASSUME IInv, [Next]_vars
             PROVE  IInv'
  OBVIOUS
<1>1. CASE Next
  BY <1>1, IterateFacts, IterateBelow, IterateNothingLost, IterateSolved
     DEF Next, IInv
<1>2. CASE UNCHANGED vars
  BY <1>2 DEF vars, IInv, TypeOK, Solved, BelowEverySolution, NothingLost,
              IsSolution, LiveIn, LiveOut, VarSets
<1> QED
  BY <1>1, <1>2

-----------------------------------------------------------------------------
(* The inductive invariant holds before and after every round. *)
THEOREM InductiveInvariant == Spec => []IInv
BY InitIInv, NextIInv, PTL DEF Spec

(* The sets of every round are sets of the function's variables. *)
THEOREM TypeCorrect == Spec => []TypeOK
<1>1. IInv => TypeOK
  BY DEF IInv
<1> QED
  BY <1>1, InductiveInvariant, PTL

(* When BlockLevelLivenessAnalyse stops, live_in and live_out satisfy the  *)
(* data flow equations, for every graph and all use and def sets.          *)
THEOREM EndsSolved == Spec => []Solved
<1>1. IInv => Solved
  BY DEF IInv
<1> QED
  BY <1>1, InductiveInvariant, PTL

(* No solution of the equations has less: what the analysis ends with is   *)
(* the least one, no variable is kept alive without a reason.              *)
THEOREM IsLeast == Spec => []BelowEverySolution
<1>1. IInv => BelowEverySolution
  BY DEF IInv
<1> QED
  BY <1>1, InductiveInvariant, PTL

(* No round takes a variable out of a set: the loop climbs, so it cannot   *)
(* oscillate.                                                              *)
THEOREM RoundsGrow == Spec => Growing
<1>1. IInv /\ [Next]_vars =>
          [\A b \in Blocks : /\ live_in[b] \subseteq live_in'[b]
                            /\ live_out[b] \subseteq live_out'[b]]_vars
  BY IterateFacts DEF IInv, NothingLost, Next
<1> QED
  BY <1>1, InductiveInvariant, PTL DEF Spec, Growing

-----------------------------------------------------------------------------
(***************************************************************************)
(* LiveMeansRead: the equations speak of one step, the property of paths.  *)
(* Reading(p, n, b, v) is a path of n blocks whose last one reads v and    *)
(* whose others hand v through; n is not bounded.                          *)
(***************************************************************************)
Reading(p, n, b, v) ==
    /\ n \in Nat \ {0}
    /\ p \in [1 .. n -> Blocks]
    /\ p[1] = b
    /\ \A k \in 1 .. n - 1 : p[k + 1] \in succ[p[k]] /\ v \notin def[p[k]]
    /\ v \in use[p[n]]

LEMMA LeastNatural ==
    ASSUME NEW T \in SUBSET Nat, T # {}
    PROVE  \E m \in T : \A k \in T : m <= k
<1> DEFINE Less == {mk \in Nat \X Nat : mk[1] < mk[2]}
<1>1. IsWellFoundedOn(Less, Nat)
  BY NatLessThanWellFounded DEF OpToRel
<1>2. \E m \in T : \A k \in T : <<k, m>> \notin Less
  <2> HIDE DEF Less
  <2>1. QED
    BY <1>1, WFMin
<1>3. PICK m \in T : \A k \in T : <<k, m>> \notin Less
  BY <1>2
<1>4. \A k \in T : ~ (k < m)
  BY <1>3
<1>5. QED
  BY <1>4

\* A path that comes twice to one block is not the shortest one.
LEMMA CutLoop ==
    ASSUME NEW p, NEW n, NEW b, NEW v, Reading(p, n, b, v),
           NEW i \in 1 .. n, NEW j \in 1 .. n, i < j, p[i] = p[j]
    PROVE  \E q, m : Reading(q, m, b, v) /\ m < n
<1> DEFINE m == n - (j - i)
           q == [k \in 1 .. m |-> IF k <= i THEN p[k] ELSE p[k + (j - i)]]
<1>1. n \in Nat /\ i \in Nat /\ j \in Nat /\ m \in Nat \ {0} /\ m < n /\ i <= m
  BY DEF Reading
<1>2. q \in [1 .. m -> Blocks]
  BY <1>1 DEF Reading
<1>3. q[1] = b
  BY <1>1 DEF Reading
<1>4. ASSUME NEW k \in 1 .. m - 1
      PROVE  q[k + 1] \in succ[q[k]] /\ v \notin def[q[k]]
  <2>1. CASE k < i
    <3>1. q[k] = p[k] /\ q[k + 1] = p[k + 1] /\ k \in 1 .. n - 1
      BY <1>1, <2>1
    <3>2. QED
      BY <3>1 DEF Reading
  <2>2. CASE i <= k
    <3>1. /\ q[k] = p[k + (j - i)] /\ q[k + 1] = p[(k + (j - i)) + 1]
          /\ k + (j - i) \in 1 .. n - 1
      BY <1>1, <2>2
    <3>2. QED
      BY <3>1 DEF Reading
  <2>3. QED
    BY <1>1, <2>1, <2>2
<1>5. v \in use[q[m]]
  <2>1. q[m] = p[n]
    BY <1>1
  <2>2. QED
    BY <2>1 DEF Reading
<1>6. Reading(q, m, b, v)
  BY <1>1, <1>2, <1>3, <1>4, <1>5 DEF Reading
<1>7. QED
  BY <1>1, <1>6

\* The shortest one repeats no block, so it is among Paths(b).
LEMMA ShortestPath ==
    ASSUME TypeOK, NEW p, NEW n, NEW b, NEW v, Reading(p, n, b, v)
    PROVE  \E q \in Paths(b) : ReadAlong(q, v)
<1> DEFINE T == {m \in Nat : \E q : Reading(q, m, b, v)}
<1>1. PICK m \in T : \A k \in T : m <= k
  <2>1. n \in T
    BY DEF Reading
  <2>2. QED
    BY <2>1, LeastNatural
<1>2. PICK q : Reading(q, m, b, v)
  BY <1>1
<1>3. m \in Nat \ {0} /\ q \in [1 .. m -> Blocks]
  BY <1>2 DEF Reading
<1>4. ASSUME NEW i \in 1 .. m, NEW j \in 1 .. m, q[i] = q[j], i < j
      PROVE  FALSE
  <2>1. PICK r, k : Reading(r, k, b, v) /\ k < m
    BY <1>2, <1>4, CutLoop
  <2>2. k \in T
    BY <2>1 DEF Reading
  <2>3. QED
    BY <1>1, <1>3, <2>1, <2>2
<1>5. q \in Injection(1 .. m, Blocks)
  <2>1. \A i, j \in 1 .. m : q[i] = q[j] => i = j
    <3>1. SUFFICES ASSUME NEW i \in 1 .. m, NEW j \in 1 .. m, q[i] = q[j], i # j
                   PROVE  FALSE
      OBVIOUS
    <3>2. i < j \/ j < i
      BY <3>1
    <3>3. QED
      BY <1>4, <3>1, <3>2
  <2>2. QED
    BY <1>3, <2>1 DEF Injection, IsInjective
<1>6. m <= Cardinality(Blocks) /\ Cardinality(Blocks) \in Nat
  <2>1. Cardinality(1 .. m) = m
    BY <1>3, FS_Interval
  <2>2. Cardinality(1 .. m) <= Cardinality(Blocks)
    BY <1>5, BlocksAssumption, FS_Injection
  <2>3. QED
    BY <2>1, <2>2, BlocksAssumption, FS_CardinalityType
<1>7. q \in Paths(b)
  <2>1. m \in 1 .. Cardinality(Blocks) /\ DOMAIN q = 1 .. m
    BY <1>3, <1>6
  <2>2. \A k \in DOMAIN q : k + 1 \in DOMAIN q => q[k + 1] \in succ[q[k]]
    BY <1>2, <1>3, <2>1 DEF Reading
  <2>3. q[1] = b
    BY <1>2 DEF Reading
  <2>4. QED
    BY <1>3, <2>1, <2>2, <2>3 DEF Paths
<1>8. ReadAlong(q, v)
  <2>1. m \in DOMAIN q /\ v \in use[q[m]] /\ \A j \in 1 .. m - 1 : v \notin def[q[j]]
    BY <1>2, <1>3 DEF Reading
  <2>2. QED
    BY <2>1 DEF ReadAlong
<1>9. QED
  BY <1>7, <1>8

\* The variables read on some path solve the equations.
LEMMA ReadSolves ==
    ASSUME TypeOK
    PROVE  LET in == [b \in Blocks |-> {v \in Var : \E p, n : Reading(p, n, b, v)}]
           IN  in \in VarSets /\ IsSolution(in)
<1> DEFINE in == [b \in Blocks |-> {v \in Var : \E p, n : Reading(p, n, b, v)}]
<1>1. in \in VarSets
  BY DEF VarSets
<1>2. ASSUME NEW b \in Blocks, NEW v \in LiveIn(in, b)
      PROVE  v \in in[b]
  <2>1. v \in Var
    BY <1>1, TransferType
  <2>2. CASE v \in use[b]
    <3> DEFINE p == [k \in 1 .. 1 |-> b]
    <3>1. Reading(p, 1, b, v)
      BY <2>2 DEF Reading
    <3> HIDE DEF p
    <3>2. QED
      BY <2>1, <3>1
  <2>3. CASE v \notin use[b]
    <3>1. v \in LiveOut(in, b) /\ v \notin def[b]
      BY <2>3 DEF LiveIn
    <3>2. PICK s \in succ[b] : v \in in[s]
      BY <3>1 DEF LiveOut
    <3>3. s \in Blocks
      BY DEF TypeOK
    <3>4. PICK p, n : Reading(p, n, s, v)
      BY <3>2, <3>3
    <3> DEFINE q == [k \in 1 .. n + 1 |-> IF k = 1 THEN b ELSE p[k - 1]]
    <3>5. n \in Nat \ {0} /\ p \in [1 .. n -> Blocks] /\ p[1] = s
      BY <3>4 DEF Reading
    <3>6. n + 1 \in Nat \ {0} /\ q \in [1 .. n + 1 -> Blocks] /\ q[1] = b
      BY <3>5
    <3>7. ASSUME NEW k \in 1 .. (n + 1) - 1
          PROVE  q[k + 1] \in succ[q[k]] /\ v \notin def[q[k]]
      <4>1. CASE k = 1
        <5>1. q[k] = b /\ q[k + 1] = s
          BY <3>5, <4>1
        <5>2. QED
          BY <3>1, <3>2, <5>1
      <4>2. CASE k # 1
        <5>1. q[k] = p[k - 1] /\ q[k + 1] = p[(k - 1) + 1] /\ k - 1 \in 1 .. n - 1
          BY <3>5, <4>2
        <5>2. QED
          BY <3>4, <5>1 DEF Reading
      <4>3. QED
        BY <4>1, <4>2
    <3>8. v \in use[q[n + 1]]
      <4>1. q[n + 1] = p[n]
        BY <3>5
      <4>2. QED
        BY <3>4, <4>1 DEF Reading
    <3> HIDE DEF q
    <3>9. Reading(q, n + 1, b, v)
      BY <3>6, <3>7, <3>8 DEF Reading
    <3>10. QED
      BY <2>1, <3>9
  <2>4. QED
    BY <2>2, <2>3
<1> HIDE DEF in
<1>3. IsSolution(in)
  BY <1>2 DEF IsSolution
<1>4. QED
  BY <1>1, <1>3 DEF in

\* In a solution, what a path reads is live all the way back to its start.
LEMMA ReadIsLive ==
    ASSUME TypeOK, Solved, ~changed, NEW b \in Blocks, NEW v,
           NEW p \in Paths(b), ReadAlong(p, v)
    PROVE  v \in live_in[b]
<1>1. PICK n \in 1 .. Cardinality(Blocks) : p \in [1 .. n -> Blocks]
  BY DEF Paths
<1>2. n \in Nat \ {0} /\ DOMAIN p = 1 .. n
  <2>1. Cardinality(Blocks) \in Nat
    BY BlocksAssumption, FS_CardinalityType
  <2>2. QED
    BY <1>1, <2>1
<1>3. PICK k \in 1 .. n : v \in use[p[k]] /\ \A j \in 1 .. k - 1 : v \notin def[p[j]]
  BY <1>2 DEF ReadAlong
<1>4. /\ p[1] = b
      /\ \A i \in 1 .. n : i + 1 \in 1 .. n => p[i + 1] \in succ[p[i]]
  BY <1>2 DEF Paths
<1> DEFINE Dead == {d \in 0 .. k - 1 : v \notin live_in[p[k - d]]}
<1>5. \A c \in Blocks : live_in[c] = LiveIn(live_in, c)
  BY DEF Solved
<1>6. Dead = {}
  <2>1. SUFFICES ASSUME Dead # {} PROVE FALSE
    OBVIOUS
  <2>2. PICK d \in Dead : \A e \in Dead : d <= e
    <3>1. Dead \in SUBSET Nat
      BY <1>2
    <3>2. QED
      BY <2>1, <3>1, LeastNatural
  <2>3. k - d \in 1 .. n /\ p[k - d] \in Blocks /\ d \in Nat /\ k \in Nat
    BY <1>1, <1>2
  <2>4. CASE d = 0
    <3>1. p[k - d] = p[k]
      BY <2>3, <2>4
    <3>2. v \in LiveIn(live_in, p[k])
      BY <1>3 DEF LiveIn
    <3>3. QED
      BY <1>5, <2>2, <2>3, <3>1, <3>2
  <2>5. CASE d # 0
    <3>1. d - 1 \in 0 .. k - 1 /\ k - (d - 1) = (k - d) + 1 /\ ~ (d <= d - 1)
          /\ (k - d) + 1 \in 1 .. n /\ k - d \in 1 .. k - 1
      BY <2>2, <2>3, <2>5
    <3>2. v \in live_in[p[(k - d) + 1]]
      BY <2>2, <3>1
    <3>3. p[(k - d) + 1] \in succ[p[k - d]] /\ v \notin def[p[k - d]]
      BY <1>3, <1>4, <2>3, <3>1
    <3>4. v \in LiveIn(live_in, p[k - d])
      BY <3>2, <3>3 DEF LiveIn, LiveOut
    <3>5. QED
      BY <1>5, <2>2, <2>3, <3>4
  <2>6. QED
    BY <2>4, <2>5
<1>7. k - 1 \in 0 .. k - 1 /\ k - (k - 1) = 1
  BY <1>2
<1>8. QED
  BY <1>4, <1>6, <1>7

(***************************************************************************)
(* What BlockLevelLivenessAnalyse ends with means what it should: v is     *)
(* live at the start of a block just when some path from there reads it    *)
(* before writing it.  The paths of Paths are long enough.                 *)
(***************************************************************************)
THEOREM LiveIsRead == Spec => []LiveMeansRead
<1>1. IInv => LiveMeansRead
  <2>1. SUFFICES ASSUME IInv, ~changed, NEW b \in Blocks, NEW v \in Var
                 PROVE  v \in live_in[b] <=> \E p \in Paths(b) : ReadAlong(p, v)
    BY DEF LiveMeansRead
  <2> DEFINE in == [c \in Blocks |-> {w \in Var : \E p, n : Reading(p, n, c, w)}]
  <2>2. in \in VarSets /\ IsSolution(in)
    BY <2>1, ReadSolves DEF IInv
  <2>3. ASSUME v \in live_in[b] PROVE \E p \in Paths(b) : ReadAlong(p, v)
    <3>1. v \in in[b]
      BY <2>1, <2>2, <2>3 DEF IInv, BelowEverySolution
    <3>2. PICK p, n : Reading(p, n, b, v)
      BY <3>1
    <3>3. QED
      BY <2>1, <3>2, ShortestPath DEF IInv
  <2>4. QED
    BY <2>1, <2>3, ReadIsLive DEF IInv
<1>2. QED
  BY <1>1, InductiveInvariant, PTL

=============================================================================
