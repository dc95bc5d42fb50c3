-------------------------- MODULE DefAnalysisProofs --------------------------
(***************************************************************************)
(* The definite assignment analysis for every number of blocks, every      *)
(* graph and every set of variables: at no point of the iteration does it  *)
(* claim an assignment that some path does not make (Sound), and on the    *)
(* graphs of structured programs it overlooks none (Exact).                *)
(*                                                                         *)
(* The argument for Sound is about one step of a path: the first time a    *)
(* path without an assignment to v gets to b, it comes from a block that b *)
(* does not dominate, so from one that the analysis looks at.  Exact needs *)
(* the fixed point: a reachable block is in the worklist, or its equations *)
(* hold.                                                                   *)
(***************************************************************************)
EXTENDS DefAnalysis, ControlFlowGraphProofs

InputOK ==
    /\ succ \in [1 .. NBlocks -> Seq(2 .. NBlocks)]
    /\ def \in [1 .. NBlocks -> SUBSET Var]
    /\ reachable = MarkReachableBlocks(succ)
    /\ dominated = BuildDominatorTree(succ)

TypeOK ==
    /\ InputOK
    /\ worklist \in Seq(1 .. NBlocks)
    /\ def_in \in [1 .. NBlocks -> SUBSET Var]
    /\ def_out \in [1 .. NBlocks -> SUBSET Var]

\* What leaves a block that some path enters without v is the block's own.
OutSound ==
    \A b \in reachable : \A v \in def_out[b] :
        b \in MayLack(v) => v \in def[b]

Pending(b) == \E i \in 1 .. Len(worklist) : worklist[i] = b

\* The equations of a block hold unless the block is to be looked at.
Settled ==
    \A b \in reachable :
        Pending(b) \/ (def_in[b] = NewIn(b) /\ def_out[b] = NewOut(b))

IInv == TypeOK /\ OutSound /\ Sound /\ Settled

-----------------------------------------------------------------------------
(***************************************************************************)
(* The input.                                                              *)
(***************************************************************************)

LEMMA ConcatType ==
    ASSUME NEW t \in 2 .. NBlocks, NEW b \in 1 .. NBlocks, b < NBlocks
    PROVE  <<t>> \o <<b + 1>> \in Seq(2 .. NBlocks)
BY NBlocksAssumption

LEMMA EndsType ==
    ASSUME NEW b \in 1 .. NBlocks
    PROVE  Ends(b) \subseteq Seq(2 .. NBlocks)
<1> DEFINE next == IF b < NBlocks THEN <<b + 1>> ELSE << >>
<1>1. next \in Seq(2 .. NBlocks) /\ << >> \in Seq(2 .. NBlocks)
  <2>1. << >> \in Seq(2 .. NBlocks)
    OBVIOUS
  <2>2. b < NBlocks => b + 1 \in 2 .. NBlocks
    BY NBlocksAssumption
  <2>3. b < NBlocks => <<b + 1>> \in Seq(2 .. NBlocks)
    BY <2>2
  <2>4. QED
    BY <2>1, <2>3
<1>2. \A t \in 2 .. NBlocks : <<t>> \in Seq(2 .. NBlocks)
  OBVIOUS
<1>3. \A t \in 2 .. NBlocks : <<t>> \o next \in Seq(2 .. NBlocks)
  BY <1>1, <1>2
<1> HIDE DEF next
<1>4. Ends(b) = {<< >>, next} \cup {<<t>> : t \in 2 .. NBlocks}
                              \cup {<<t>> \o next : t \in 2 .. NBlocks}
  BY DEF Ends, next
<1>5. QED
  BY <1>1, <1>2, <1>3, <1>4

LEMMA InputInit == Init => InputOK
<1> SUFFICES ASSUME Init PROVE InputOK
  OBVIOUS
<1>1. succ \in [1 .. NBlocks -> Seq(2 .. NBlocks)]
  BY EndsType DEF Init
<1>2. Block = 1 .. NBlocks
  BY <1>1 DEF Block
<1>3. QED
  BY <1>1, <1>2 DEF Init, InputOK

LEMMA SeqElement ==
    ASSUME NEW S, NEW q \in Seq(S)
    PROVE  ToSet(q) \subseteq S
BY DEF ToSet

\* The graph, seen as the functions that ReachFrom takes.
LEMMA GraphFacts ==
    ASSUME InputOK
    PROVE  /\ Block = 1 .. NBlocks /\ IsFiniteSet(Block)
           /\ 1 \in Block
           /\ \A b \in Block : Successors(succ, b) \in SUBSET (2 .. NBlocks)
           /\ Edges(succ) \in [Block -> SUBSET Block]
           /\ \A b \in Block : Edges(succ)[b] = Successors(succ, b)
           /\ \A b \in Block : Without(succ, b) \in [Block -> SUBSET Block]
<1>1. Block = 1 .. NBlocks /\ 1 \in Block
  BY NBlocksAssumption DEF InputOK, Block
<1>2. IsFiniteSet(Block)
  BY <1>1, NBlocksAssumption, FS_Interval
<1>3. \A b \in Block : Successors(succ, b) \in SUBSET (2 .. NBlocks)
  <2>1. \A b \in Block : succ[b] \in Seq(2 .. NBlocks)
    BY <1>1 DEF InputOK
  <2>2. QED
    BY <2>1, SeqElement DEF Successors
<1>4. 2 .. NBlocks \subseteq Block
  BY <1>1, NBlocksAssumption
<1>5. QED
  BY <1>1, <1>2, <1>3, <1>4 DEF Edges, Without, Block

\* ReachFromFacts for the blocks reached from the entry.
LEMMA FromEntry ==
    ASSUME InputOK, NEW next \in [Block -> SUBSET Block]
    PROVE  /\ ReachFrom(next, {1}) \in SUBSET Block
           /\ 1 \in ReachFrom(next, {1})
           /\ \A b \in ReachFrom(next, {1}) : next[b] \subseteq ReachFrom(next, {1})
           /\ \A T \in SUBSET Block : 1 \in T /\ (\A b \in T : next[b] \subseteq T)
                                          => ReachFrom(next, {1}) \subseteq T
<1>1. IsFiniteSet(Block) /\ {1} \in SUBSET Block
  BY GraphFacts
<1>2. QED
  BY <1>1, ReachFromFacts DEF Closed

LEMMA ReachableFacts ==
    ASSUME InputOK
    PROVE  /\ reachable \in SUBSET Block
           /\ 1 \in reachable
           /\ \A b \in reachable : Successors(succ, b) \subseteq reachable
<1>1. reachable = ReachFrom(Edges(succ), {1})
  BY DEF InputOK, MarkReachableBlocks
<1>2. QED
  <2> DEFINE next == Edges(succ)
  <2>1. next \in [Block -> SUBSET Block]
    BY GraphFacts
  <2> HIDE DEF next
  <2>2. /\ ReachFrom(next, {1}) \in SUBSET Block
        /\ 1 \in ReachFrom(next, {1})
        /\ \A b \in ReachFrom(next, {1}) : next[b] \subseteq ReachFrom(next, {1})
    BY <2>1, FromEntry
  <2>3. QED
    BY <1>1, <2>2, GraphFacts DEF next

LEMMA DominatedFacts ==
    ASSUME InputOK, NEW b \in reachable
    PROVE  dominated[b] =
               {u \in reachable : u = b \/ u \notin ReachFrom(Without(succ, b), {1})}
<1>1. b \in DOMAIN succ
  BY ReachableFacts, GraphFacts DEF Block
<1>2. QED
  BY <1>1 DEF InputOK, BuildDominatorTree, Dominated

(***************************************************************************)
(* A block other than the entry that is reached by the edges next, some of *)
(* the edges of the graph, is entered by one of them from a block that it  *)
(* does not dominate.                                                      *)
(***************************************************************************)
LEMMA EnteredFromOutside ==
    ASSUME InputOK,
           NEW next \in [Block -> SUBSET Block],
           \A c \in Block : next[c] \subseteq Successors(succ, c),
           NEW b \in ReachFrom(next, {1}), b # 1
    PROVE  /\ b \in reachable
           /\ \E p \in RealPreds(b) : p \in ReachFrom(next, {1}) /\ b \in next[p]
<1> DEFINE R == ReachFrom(next, {1})
           others == ReachFrom(Without(succ, b), {1})
           T == {c \in R : c # b /\ c \in others}
<1>1. /\ R \in SUBSET Block /\ 1 \in R
      /\ \A c \in R : next[c] \subseteq R
      /\ \A S \in SUBSET Block : 1 \in S /\ (\A c \in S : next[c] \subseteq S)
                                     => R \subseteq S
  BY FromEntry
<1>2. R \subseteq reachable
  BY <1>1, ReachableFacts
<1>3. /\ others \in SUBSET Block /\ 1 \in others
      /\ \A c \in others : Without(succ, b)[c] \subseteq others
  <2>1. b \in Block
    BY <1>1
  <2>2. QED
    BY <2>1, GraphFacts, FromEntry
<1> HIDE DEF R, others
<1>4. b \in reachable
  BY <1>2 DEF R
<1>5. SUFFICES ASSUME \A p \in RealPreds(b) : p \in R => b \notin next[p]
               PROVE  FALSE
  BY <1>4 DEF R
<1>6. \A c \in T : next[c] \subseteq T
  <2>1. SUFFICES ASSUME NEW c \in T, NEW s \in next[c] PROVE s \in T
    OBVIOUS
  <2>2. c \in Block /\ s \in Successors(succ, c) /\ s \in R
    BY <1>1
  <2>3. CASE s = b
    <3>1. c \in RealPreds(b)
      BY <1>2, <1>4, <2>2, <2>3, DominatedFacts
      DEF RealPreds, Predecessors, Block, others
    <3>2. QED
      BY <1>5, <2>3, <3>1
  <2>4. CASE s # b
    <3>1. s \in Without(succ, b)[c]
      BY <2>2, <2>4 DEF Without, Block
    <3>2. QED
      BY <1>3, <2>2, <2>4, <3>1
  <2>5. QED
    BY <2>3, <2>4
<1>7. T \in SUBSET Block /\ 1 \in T
  BY <1>1, <1>3
<1>8. R \subseteq T
  BY <1>1, <1>6, <1>7
<1>9. QED
  BY <1>8 DEF R

-----------------------------------------------------------------------------
(***************************************************************************)
(* The paths without an assignment.                                        *)
(***************************************************************************)

\* The edges that leave the blocks that do not assign v.
Lacking(v) == [b \in Block |-> IF v \in def[b] THEN {} ELSE Successors(succ, b)]

LEMMA MayLackFacts ==
    ASSUME InputOK, NEW v
    PROVE  /\ MayLack(v) \in SUBSET Block
           /\ 1 \in MayLack(v)
           /\ \A b \in MayLack(v) : v \notin def[b]
                                        => Successors(succ, b) \subseteq MayLack(v)
           /\ Lacking(v) \in [Block -> SUBSET Block]
<1>1. MayLack(v) = ReachFrom(Lacking(v), {1})
  BY DEF MayLack, Lacking
<1>2. /\ Lacking(v) \in [Block -> SUBSET Block]
      /\ \A b \in Block : v \notin def[b] => Lacking(v)[b] = Successors(succ, b)
  BY GraphFacts DEF Lacking
<1>3. QED
  BY <1>1, <1>2, FromEntry

\* A path without v comes to b from a block that the analysis looks at.
LEMMA LackedBefore ==
    ASSUME InputOK, NEW v, NEW b \in MayLack(v), b # 1
    PROVE  \E p \in RealPreds(b) : p \in MayLack(v) /\ v \notin def[p]
<1>1. MayLack(v) = ReachFrom(Lacking(v), {1})
  BY DEF MayLack, Lacking
<1>2. \A c \in Block : Lacking(v)[c] \subseteq Successors(succ, c)
  BY DEF Lacking
<1>3. PICK p \in RealPreds(b) : p \in MayLack(v) /\ b \in Lacking(v)[p]
  BY <1>1, <1>2, MayLackFacts, EnteredFromOutside
<1>4. p \in Block
  BY <1>3, MayLackFacts
<1>5. QED
  BY <1>3, <1>4 DEF Lacking

\* The analysis looks at a block before every reachable one but the entry.
LEMMA RealPredsFacts ==
    ASSUME InputOK, NEW b \in reachable
    PROVE  /\ RealPreds(b) \in SUBSET reachable
           /\ b \notin RealPreds(b)
           /\ \A p \in RealPreds(b) : b \in Successors(succ, p)
           /\ RealPreds(b) = {} <=> b = 1
<1>1. RealPreds(b) \in SUBSET reachable
  BY DEF RealPreds
<1>2. b \notin RealPreds(b)
  BY DominatedFacts DEF RealPreds
<1>3. \A p \in RealPreds(b) : b \in Successors(succ, p)
  BY DEF RealPreds, Predecessors
<1>4. ASSUME b = 1 PROVE RealPreds(b) = {}
  <2>1. SUFFICES ASSUME NEW p \in RealPreds(b) PROVE FALSE
    OBVIOUS
  <2>2. p \in Block /\ 1 \in Successors(succ, p)
    BY <1>1, <1>3, <1>4, ReachableFacts
  <2>3. 1 \in 2 .. NBlocks
    BY <2>2, GraphFacts
  <2>4. QED
    BY <2>3, NBlocksAssumption
<1>5. ASSUME b # 1 PROVE RealPreds(b) # {}
  <2> DEFINE next == Edges(succ)
  <2>1. next \in [Block -> SUBSET Block] /\ \A c \in Block : next[c] \subseteq Successors(succ, c)
    BY GraphFacts
  <2>2. b \in ReachFrom(next, {1})
    BY DEF InputOK, MarkReachableBlocks
  <2> HIDE DEF next
  <2>3. QED
    BY <1>5, <2>1, <2>2, EnteredFromOutside
<1>6. QED
  BY <1>1, <1>2, <1>3, <1>4, <1>5

LEMMA EquationTypes ==
    ASSUME TypeOK, NEW b \in reachable
    PROVE  NewIn(b) \in SUBSET Var /\ NewOut(b) \in SUBSET Var
<1>1. b \in 1 .. NBlocks /\ RealPreds(b) \in SUBSET (1 .. NBlocks)
  BY RealPredsFacts, ReachableFacts, GraphFacts DEF TypeOK
<1>2. def[b] \in SUBSET Var /\ \A p \in RealPreds(b) : def_out[p] \in SUBSET Var
  BY <1>1 DEF TypeOK, InputOK
<1>3. NewIn(b) \in SUBSET Var
  BY <1>2 DEF NewIn
<1>4. QED
  BY <1>2, <1>3 DEF NewOut

\* The equations never claim an assignment that a path does not make.
LEMMA EquationsSound ==
    ASSUME TypeOK, OutSound, NEW b \in reachable, NEW v, b \in MayLack(v)
    PROVE  /\ b # 1 => v \notin NewIn(b)
           /\ v \in NewOut(b) => v \in def[b]
<1>1. CASE b = 1
  BY <1>1, RealPredsFacts DEF TypeOK, NewIn, NewOut
<1>2. CASE b # 1
  <2>1. PICK p \in RealPreds(b) : p \in MayLack(v) /\ v \notin def[p]
    BY <1>2, LackedBefore DEF TypeOK
  <2>2. v \notin def_out[p]
    BY <2>1, RealPredsFacts DEF TypeOK, OutSound
  <2>3. QED
    BY <2>2 DEF NewIn, NewOut
<1>3. QED
  BY <1>1, <1>2

-----------------------------------------------------------------------------
(***************************************************************************)
(* The inductive invariant.                                                *)
(***************************************************************************)

LEMMA InitIInv == Init => IInv
<1> SUFFICES ASSUME Init PROVE IInv
  OBVIOUS
<1>1. InputOK
  BY InputInit
<1>2. Block = 1 .. NBlocks /\ reachable \in SUBSET Block
  BY <1>1, GraphFacts, ReachableFacts
<1>3. TypeOK
  <2>1. worklist \in [1 .. NBlocks -> 1 .. NBlocks]
    BY <1>2 DEF Init
  <2>2. worklist \in Seq(1 .. NBlocks)
    BY <2>1, NBlocksAssumption
  <2>3. def \in [1 .. NBlocks -> SUBSET Var]
    BY <1>1 DEF InputOK
  <2>4. QED
    BY <1>1, <1>2, <2>2, <2>3 DEF Init, TypeOK
<1>4. OutSound
  BY DEF Init, OutSound
<1>5. Sound
  BY <1>2 DEF Init, Sound
<1>6. \A b \in Block : Pending(b)
  <2>1. \A b \in Block : worklist[b] = b
    BY DEF Init
  <2>2. Len(worklist) = NBlocks
    BY <1>2, NBlocksAssumption DEF Init
  <2>3. QED
    BY <1>2, <2>1, <2>2 DEF Pending
<1>7. Settled
  BY <1>2, <1>6 DEF Settled
<1>8. QED
  BY <1>3, <1>4, <1>5, <1>7 DEF IInv

\* What the properties see of the input does not change.
LEMMA SameInput ==
    ASSUME UNCHANGED input
    PROVE  /\ Block' = Block
           /\ \A v : MayLack(v)' = MayLack(v)
           /\ \A b : /\ Successors(succ, b)' = Successors(succ, b)
                     /\ RealPreds(b)' = RealPreds(b)
           /\ InputOK => InputOK'
BY DEF input, Block, MayLack, Successors, RealPreds, Predecessors, InputOK

LEMMA HeadTail ==
    ASSUME NEW S, NEW q \in Seq(S), q # << >>
    PROVE  Head(q) \in S /\ Tail(q) \in Seq(S)
OBVIOUS

\* A queue without its head.
LEMMA TailFacts ==
    ASSUME TypeOK, worklist # << >>
    PROVE  /\ Head(worklist) \in 1 .. NBlocks
           /\ Tail(worklist) \in Seq(1 .. NBlocks)
           /\ \A b : (b # Head(worklist) /\ Pending(b))
                  => \E i \in 1 .. Len(Tail(worklist)) : Tail(worklist)[i] = b
<1>1. worklist \in Seq(1 .. NBlocks)
  BY DEF TypeOK
<1>2. ASSUME NEW b, b # Head(worklist), Pending(b)
      PROVE  \E i \in 1 .. Len(Tail(worklist)) : Tail(worklist)[i] = b
  <2>1. PICK i \in 1 .. Len(worklist) : worklist[i] = b
    BY <1>2 DEF Pending
  <2>2. i # 1
    BY <1>1, <1>2, <2>1
  <2>3. i - 1 \in 1 .. Len(Tail(worklist)) /\ Tail(worklist)[i - 1] = b
    BY <1>1, <2>1, <2>2
  <2>4. QED
    BY <2>3
<1>3. Head(worklist) \in 1 .. NBlocks /\ Tail(worklist) \in Seq(1 .. NBlocks)
  BY <1>1, HeadTail
<1>4. QED
  BY <1>2, <1>3

LEMMA NewInSame ==
    ASSUME UNCHANGED input, NEW b,
           \A p \in RealPreds(b) : def_out'[p] = def_out[p]
    PROVE  NewIn(b)' = NewIn(b) /\ NewOut(b)' = NewOut(b)
<1>1. RealPreds(b)' = RealPreds(b) /\ def' = def
  BY SameInput DEF input
<1>2. {def_out[p] : p \in RealPreds(b)}' = {def_out[p] : p \in RealPreds(b)}
  BY <1>1
<1>3. NewIn(b)' = NewIn(b)
  BY <1>1, <1>2 DEF NewIn
<1>4. QED
  BY <1>1, <1>3 DEF NewOut

\* The head is dropped and nothing else changes.
LEMMA DropIInv ==
    ASSUME IInv, worklist # << >>,
           worklist' = Tail(worklist), UNCHANGED <<input, def_in, def_out>>,
           Head(worklist) \in reachable
               => /\ NewIn(Head(worklist)) = def_in[Head(worklist)]
                  /\ NewOut(Head(worklist)) = def_out[Head(worklist)]
    PROVE  IInv'
<1>1. TypeOK'
  BY SameInput, TailFacts DEF IInv, TypeOK
<1>2. OutSound' /\ Sound'
  BY SameInput DEF IInv, OutSound, Sound, input
<1>3. Settled'
  <2>1. SUFFICES ASSUME NEW b \in reachable, ~ Pending(b)'
                 PROVE  def_in[b] = NewIn(b) /\ def_out[b] = NewOut(b)
    BY NewInSame DEF Settled, input
  <2>2. CASE b = Head(worklist)
    BY <2>2
  <2>3. CASE b # Head(worklist)
    <3>1. ~ Pending(b)
      BY <2>1, <2>3, TailFacts DEF IInv, Pending
    <3>2. QED
      BY <3>1 DEF IInv, Settled
  <2>4. QED
    BY <2>2, <2>3
<1>4. QED
  BY <1>1, <1>2, <1>3 DEF IInv

LEMMA UpdateIInv == IInv /\ Update => IInv'
<1> SUFFICES ASSUME IInv, Update PROVE IInv'
  OBVIOUS
<1> DEFINE h == Head(worklist)
<1>1. /\ TypeOK /\ InputOK /\ OutSound /\ Sound /\ Settled
      /\ h \in reachable /\ h \in 1 .. NBlocks /\ h \in Block
      /\ UNCHANGED input
  BY TailFacts, GraphFacts DEF IInv, TypeOK, Update
<1>2. /\ def_in' = [def_in EXCEPT ![h] = NewIn(h)]
      /\ def_out' = [def_out EXCEPT ![h] = NewOut(h)]
      /\ worklist' = Tail(worklist) \o succ[h]
  BY DEF Update
<1>3. /\ Tail(worklist) \in Seq(1 .. NBlocks) /\ succ[h] \in Seq(1 .. NBlocks)
      /\ worklist' \in Seq(1 .. NBlocks)
  <2>1. succ[h] \in Seq(2 .. NBlocks)
    BY <1>1 DEF InputOK
  <2>2. succ[h] \in Seq(1 .. NBlocks)
    BY <2>1, NBlocksAssumption
  <2>3. Tail(worklist) \in Seq(1 .. NBlocks)
    BY <1>1, TailFacts DEF Update
  <2>4. QED
    BY <1>2, <2>2, <2>3
<1> HIDE DEF h
<1>4. reachable \in SUBSET Block /\ Block = 1 .. NBlocks /\ reachable' = reachable
      /\ def' = def
  BY <1>1, ReachableFacts, GraphFacts DEF input
<1>5. TypeOK'
  BY <1>1, <1>2, <1>3, EquationTypes, SameInput DEF TypeOK
<1>6. \A b \in Block : /\ b # h => def_in'[b] = def_in[b] /\ def_out'[b] = def_out[b]
                       /\ b = h => def_in'[b] = NewIn(h) /\ def_out'[b] = NewOut(h)
  BY <1>1, <1>2, <1>4 DEF TypeOK
<1>7. OutSound'
  <2>1. SUFFICES ASSUME NEW b \in reachable, NEW v \in def_out'[b], b \in MayLack(v)
                 PROVE  v \in def[b]
    BY <1>1, <1>4, SameInput DEF OutSound
  <2>2. QED
    BY <1>1, <1>4, <1>6, <2>1, EquationsSound DEF OutSound
<1>8. Sound'
  <2>1. SUFFICES ASSUME NEW b \in reachable \ {1}, NEW v \in def_in'[b]
                 PROVE  b \notin MayLack(v)
    BY <1>1, <1>4, SameInput DEF Sound
  <2>2. QED
    BY <1>1, <1>4, <1>6, <2>1, EquationsSound DEF Sound
<1>9. Settled'
  <2>1. SUFFICES ASSUME NEW b \in reachable, ~ Pending(b)'
                 PROVE  def_in'[b] = NewIn(b)' /\ def_out'[b] = NewOut(b)'
    BY <1>4 DEF Settled
  <2>2. b \notin Successors(succ, h)
    <3>1. SUFFICES ASSUME b \in Successors(succ, h) PROVE Pending(b)'
      BY <2>1
    <3>2. PICK i \in 1 .. Len(succ[h]) : succ[h][i] = b
      BY <1>3, <3>1 DEF Successors, ToSet
    <3>3. /\ Len(Tail(worklist)) + i \in 1 .. Len(worklist')
          /\ worklist'[Len(Tail(worklist)) + i] = b
      BY <1>2, <1>3, <3>2
    <3>4. QED
      BY <3>3 DEF Pending
  <2>3. h \notin RealPreds(b)
    BY <1>1, <2>2, RealPredsFacts
  <2>4. \A p \in RealPreds(b) : def_out'[p] = def_out[p]
    BY <1>1, <1>4, <1>6, <2>3, RealPredsFacts
  <2>5. NewIn(b)' = NewIn(b) /\ NewOut(b)' = NewOut(b)
    BY <1>1, <2>4, NewInSame
  <2>6. CASE b = h
    BY <1>4, <1>6, <2>5, <2>6
  <2>7. CASE b # h
    <3>1. ~ Pending(b)
      <4>1. SUFFICES ASSUME Pending(b) PROVE Pending(b)'
        BY <2>1
      <4>2. PICK i \in 1 .. Len(Tail(worklist)) : Tail(worklist)[i] = b
        BY <1>1, <2>7, <4>1, TailFacts DEF Update, h
      <4>3. i \in 1 .. Len(worklist') /\ worklist'[i] = b
        BY <1>2, <1>3, <4>2
      <4>4. QED
        BY <4>3 DEF Pending
    <3>2. QED
      BY <1>1, <1>4, <1>6, <2>5, <2>7, <3>1 DEF Settled
  <2>8. QED
    BY <2>6, <2>7
<1>10. QED
  BY <1>5, <1>7, <1>8, <1>9 DEF IInv

LEMMA NextIInv == IInv /\ [Next]_vars => IInv'
<1> SUFFICES ASSUME IInv, [Next]_vars PROVE IInv'
  OBVIOUS
<1>1. CASE SkipUnreachable
  BY <1>1, DropIInv DEF SkipUnreachable
<1>2. CASE NoChange
  BY <1>2, DropIInv DEF NoChange
<1>3. CASE Update
  BY <1>3, UpdateIInv
<1>4. CASE UNCHANGED vars
  <2>1. UNCHANGED input /\ worklist' = worklist /\ def_in' = def_in /\ def_out' = def_out
    BY <1>4 DEF vars
  <2>2. TypeOK'
    BY <2>1, SameInput DEF IInv, TypeOK
  <2>3. OutSound' /\ Sound'
    BY <2>1, SameInput DEF IInv, OutSound, Sound, input
  <2>4. Settled'
    BY <2>1, NewInSame DEF IInv, Settled, Pending, input
  <2>5. QED
    BY <2>2, <2>3, <2>4 DEF IInv
<1>5. QED
  BY <1>1, <1>2, <1>3, <1>4 DEF Next

(***************************************************************************)
(* Every state of the analysis satisfies the inductive invariant.          *)
(***************************************************************************)
THEOREM InductiveInvariant == Spec => []IInv
<1>1. Init => IInv
  BY InitIInv
<1>2. IInv /\ [Next]_vars => IInv'
  BY NextIInv
<1>3. QED
  BY <1>1, <1>2, PTL DEF Spec

(***************************************************************************)
(* Type correctness: the worklist holds blocks of the function, and the    *)
(* result gives every block a set of its variables.                        *)
(***************************************************************************)
THEOREM TypeCorrect == Spec => []TypeOK
<1>1. IInv => TypeOK
  BY DEF IInv
<1>2. QED
  BY <1>1, InductiveInvariant, PTL

(***************************************************************************)
(* Sound, for every graph: def_in never claims an assignment that a path   *)
(* to the block does not make, neither at the end nor on the way there.    *)
(***************************************************************************)
THEOREM AlwaysSound == Spec => []Sound
<1>1. IInv => Sound
  BY DEF IInv
<1>2. QED
  BY <1>1, InductiveInvariant, PTL

-----------------------------------------------------------------------------
(***************************************************************************)
(* The fixed point is the greatest one where the forward edges have no     *)
(* cycle.  Overlooked(v) are the blocks of a counterexample: each one has  *)
(* another one before it on a forward edge.                                *)
(***************************************************************************)
Overlooked(v) == {b \in reachable : b \notin MayLack(v) /\ v \notin def_in[b]}

ForwardEdges == [c \in Block |-> Forward(c)]

LEMMA ForwardFacts ==
    ASSUME InputOK, NEW b \in Block
    PROVE  /\ ForwardEdges \in [Block -> SUBSET Block]
           /\ ReachFrom(ForwardEdges, Forward(b)) \in SUBSET Block
           /\ Forward(b) \subseteq ReachFrom(ForwardEdges, Forward(b))
           /\ \A c \in ReachFrom(ForwardEdges, Forward(b)) :
                  ReachFrom(ForwardEdges, Forward(c))
                      \subseteq ReachFrom(ForwardEdges, Forward(b))
<1>1. \A c \in Block : Forward(c) \in SUBSET Block
  <2>1. SUFFICES ASSUME NEW c \in Block PROVE Forward(c) \subseteq Block
    OBVIOUS
  <2>2. Successors(succ, c) \in SUBSET Block
    BY GraphFacts, NBlocksAssumption
  <2>3. QED
    BY <2>2 DEF Forward
<1>2. ForwardEdges \in [Block -> SUBSET Block] /\ IsFiniteSet(Block)
  BY <1>1, GraphFacts DEF ForwardEdges
<1>3. \A c \in Block :
          /\ ReachFrom(ForwardEdges, Forward(c)) \in SUBSET Block
          /\ Forward(c) \subseteq ReachFrom(ForwardEdges, Forward(c))
          /\ Closed(ForwardEdges, ReachFrom(ForwardEdges, Forward(c)))
          /\ \A T \in SUBSET Block : Forward(c) \subseteq T /\ Closed(ForwardEdges, T)
                 => ReachFrom(ForwardEdges, Forward(c)) \subseteq T
  BY <1>1, <1>2, ReachFromFacts
<1>4. ASSUME NEW c \in ReachFrom(ForwardEdges, Forward(b))
      PROVE  ReachFrom(ForwardEdges, Forward(c))
                 \subseteq ReachFrom(ForwardEdges, Forward(b))
  <2>1. c \in Block
    BY <1>3
  <2>2. Forward(c) \subseteq ReachFrom(ForwardEdges, Forward(b))
    BY <1>3, <2>1 DEF Closed, ForwardEdges
  <2>3. QED
    BY <1>3, <2>1, <2>2
<1>5. QED
  BY <1>2, <1>3, <1>4

LEMMA OverlookedBefore ==
    ASSUME IInv, Done, NEW v \in Var, NEW b \in Overlooked(v)
    PROVE  \E p \in Overlooked(v) : b \in Forward(p)
<1>1. InputOK /\ TypeOK /\ Settled
  BY DEF IInv, TypeOK
<1>2. \A c \in reachable : def_in[c] = NewIn(c) /\ def_out[c] = NewOut(c)
  <2>1. Len(worklist) = 0
    BY DEF Done
  <2>2. QED
    BY <1>1, <2>1 DEF Settled, Pending
<1>3. b \in reachable /\ b \notin MayLack(v) /\ v \notin NewIn(b)
  BY <1>2 DEF Overlooked
<1>4. b # 1
  BY <1>1, <1>3, MayLackFacts
<1>5. RealPreds(b) # {}
  BY <1>1, <1>3, <1>4, RealPredsFacts
<1>6. PICK p \in RealPreds(b) : v \notin def_out[p]
  BY <1>3, <1>5 DEF NewIn
<1>7. p \in reachable /\ b \in Successors(succ, p)
  BY <1>1, <1>3, RealPredsFacts
<1>8. v \notin def_in[p] /\ v \notin def[p]
  BY <1>2, <1>6, <1>7 DEF NewOut
<1>9. p \notin MayLack(v)
  BY <1>1, <1>3, <1>7, <1>8, MayLackFacts
<1>10. p \notin dominated[b]
  BY DEF RealPreds
<1>11. QED
  BY <1>7, <1>8, <1>9, <1>10 DEF Overlooked, Forward

\* The overlooked blocks before b, with the forward edges between them.
Before(v, b) == {c \in Overlooked(v) : b \in ReachFrom(ForwardEdges, Forward(c))}

LEMMA NothingOverlooked ==
    ASSUME IInv, Done, Reducible, NEW v \in Var
    PROVE  Overlooked(v) = {}
<1> SUFFICES ASSUME Overlooked(v) # {} PROVE FALSE
  OBVIOUS
<1>1. InputOK /\ Overlooked(v) \subseteq reachable /\ reachable \subseteq Block
  BY ReachableFacts DEF IInv, TypeOK, Overlooked
<1> DEFINE Sets == {Before(v, b) : b \in Overlooked(v)}
<1>2. Sets # {} /\ Sets \subseteq SUBSET Block
  BY <1>1 DEF Before
<1>3. IsWellFoundedOn(StrictSubsetOrdering(Block), SUBSET Block)
  BY <1>1, GraphFacts, FS_StrictSubsetOrderingWellFounded, FS_FiniteSubsetsOfFinite
<1>4. PICK X \in Sets : \A Y \in Sets : <<Y, X>> \notin StrictSubsetOrdering(Block)
  BY <1>2, <1>3, WFMin
<1>5. PICK b \in Overlooked(v) : X = Before(v, b)
  OBVIOUS
<1>6. PICK p \in Overlooked(v) : b \in Forward(p)
  BY OverlookedBefore
<1>7. p \in Block /\ p \in reachable
  BY <1>1
<1>8. p \in Before(v, b)
  BY <1>1, <1>6, <1>7, ForwardFacts DEF Before
<1>9. p \notin Before(v, p)
  BY <1>7 DEF Reducible, Before, ForwardEdges
<1>10. Before(v, p) \subseteq Before(v, b)
  <2>1. SUFFICES ASSUME NEW c \in Before(v, p) PROVE c \in Before(v, b)
    OBVIOUS
  <2>2. c \in Overlooked(v) /\ c \in Block /\ p \in ReachFrom(ForwardEdges, Forward(c))
    BY <1>1 DEF Before
  <2>3. b \in ReachFrom(ForwardEdges, Forward(p))
    BY <1>1, <1>6, <1>7, ForwardFacts
  <2>4. b \in ReachFrom(ForwardEdges, Forward(c))
    BY <1>1, <2>2, <2>3, ForwardFacts
  <2>5. QED
    BY <2>2, <2>4 DEF Before
<1>11. <<Before(v, p), X>> \in StrictSubsetOrdering(Block)
  BY <1>2, <1>5, <1>8, <1>9, <1>10 DEF StrictSubsetOrdering
<1>12. QED
  BY <1>4, <1>11

(***************************************************************************)
(* Exact, for every reducible graph: when the worklist is empty, def_in    *)
(* has every variable that all the paths to the block assign.              *)
(***************************************************************************)
THEOREM AlwaysExact == Spec => []Exact
<1>1. IInv => Exact
  <2>1. SUFFICES ASSUME IInv, Done, Reducible, NEW b \in reachable \ {1}, NEW v
                 PROVE  v \in def_in[b] <=> v \in Var /\ b \notin MayLack(v)
    BY DEF Exact
  <2>2. ASSUME v \in def_in[b] PROVE v \in Var /\ b \notin MayLack(v)
    <3>1. b \in 1 .. NBlocks
      BY <2>1, GraphFacts, ReachableFacts DEF IInv, TypeOK
    <3>2. QED
      BY <2>1, <2>2, <3>1 DEF IInv, TypeOK, Sound
  <2>3. ASSUME v \in Var, b \notin MayLack(v) PROVE v \in def_in[b]
    BY <2>1, <2>3, NothingOverlooked DEF Overlooked
  <2>4. QED
    BY <2>2, <2>3
<1>2. QED
  BY <1>1, InductiveInvariant, PTL

=============================================================================
