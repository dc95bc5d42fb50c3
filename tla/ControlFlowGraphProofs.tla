----------------------- MODULE ControlFlowGraphProofs -----------------------
(***************************************************************************)
(* Facts about the graph operators of ControlFlowGraph, for graphs of any  *)
(* size: ReachFrom, a recursive function, is the least set that holds the  *)
(* blocks it starts from and is closed under the edges.  Every use of      *)
(* reachability and of dominance in a proof rests on that.                 *)
(***************************************************************************)
EXTENDS ControlFlowGraph, FiniteSetTheorems, TLAPS

Closed(next, T) == \A b \in T : next[b] \subseteq T

\* The least closed superset of R.
Closure(next, R) ==
    {x \in DOMAIN next : \A T \in SUBSET DOMAIN next :
                             R \subseteq T /\ Closed(next, T) => x \in T}

More(next, R) == R \cup UNION {next[b] : b \in R}

\* A step of the loop does not change the closure.
LEMMA ClosureOfMore ==
    ASSUME NEW D, NEW next \in [D -> SUBSET D], NEW R \in SUBSET D
    PROVE  /\ More(next, R) \in SUBSET D
           /\ Closure(next, More(next, R)) = Closure(next, R)
           /\ More(next, R) = R => Closure(next, R) = R
<1>1. More(next, R) \in SUBSET D
  BY DEF More
<1>2. ASSUME NEW T \in SUBSET D, Closed(next, T)
      PROVE  R \subseteq T <=> More(next, R) \subseteq T
  BY <1>2 DEF More, Closed
<1>3. Closure(next, More(next, R)) = Closure(next, R)
  BY <1>2 DEF Closure
<1>4. ASSUME More(next, R) = R
      PROVE  Closure(next, R) = R
  <2>1. Closed(next, R)
    BY <1>4 DEF More, Closed
  <2>2. QED
    BY <2>1 DEF Closure
<1>5. QED
  BY <1>1, <1>3, <1>4

\* The recursive function has one solution, and it is the closure.
LEMMA ReachFromIsClosure ==
    ASSUME NEW D, IsFiniteSet(D), NEW next \in [D -> SUBSET D],
           NEW S \in SUBSET D
    PROVE  ReachFrom(next, S) = Closure(next, S)
<1> DEFINE Body(f) == [R \in SUBSET D |-> IF More(next, R) = R
                                          THEN R ELSE f[More(next, R)]]
           reach == CHOOSE f : f = Body(f)
<1>1. ReachFrom(next, S) = reach[S]
  BY DEF ReachFrom, More
<1>2. reach = Body(reach)
  <2> DEFINE g == [R \in SUBSET D |-> Closure(next, R)]
  <2>1. g = Body(g)
    BY ClosureOfMore
  <2> HIDE DEF g
  <2>2. \E f : f = Body(f)
    BY <2>1
  <2>3. QED
    BY <2>2
<1> HIDE DEF reach
<1>3. \A R \in SUBSET D : reach[R] = Closure(next, R)
  <2> DEFINE Wrong == {R \in SUBSET D : reach[R] # Closure(next, R)}
             Rest == {D \ R : R \in Wrong}
  <2>1. SUFFICES ASSUME Wrong # {} PROVE FALSE
    OBVIOUS
  <2>2. IsWellFoundedOn(StrictSubsetOrdering(D), SUBSET D)
    BY FS_StrictSubsetOrderingWellFounded, FS_FiniteSubsetsOfFinite
  <2>3. Rest # {} /\ Rest \subseteq SUBSET D
    BY <2>1
  <2>4. PICK X \in Rest : \A Y \in Rest : <<Y, X>> \notin StrictSubsetOrdering(D)
    BY <2>2, <2>3, WFMin
  <2>5. PICK R \in Wrong : X = D \ R
    OBVIOUS
  <2>6. reach[R] = IF More(next, R) = R THEN R ELSE reach[More(next, R)]
    BY <1>2
  <2>7. CASE More(next, R) = R
    BY <2>5, <2>6, <2>7, ClosureOfMore
  <2>8. CASE More(next, R) # R
    <3>1. /\ More(next, R) \in SUBSET D
          /\ R \subseteq More(next, R)
      BY ClosureOfMore DEF More
    <3>2. <<D \ More(next, R), X>> \in StrictSubsetOrdering(D)
      BY <2>5, <2>8, <3>1 DEF StrictSubsetOrdering
    <3>3. More(next, R) \notin Wrong
      BY <2>4, <3>2
    <3>4. QED
      BY <2>5, <2>6, <2>8, <3>1, <3>3, ClosureOfMore
  <2>9. QED
    BY <2>7, <2>8
<1>4. QED
  BY <1>1, <1>3

(***************************************************************************)
(* What a proof uses of ReachFrom.                                         *)
(***************************************************************************)
THEOREM ReachFromFacts ==
    ASSUME NEW D, IsFiniteSet(D), NEW next \in [D -> SUBSET D],
           NEW S \in SUBSET D
    PROVE  /\ ReachFrom(next, S) \in SUBSET D
           /\ S \subseteq ReachFrom(next, S)
           /\ Closed(next, ReachFrom(next, S))
           /\ \A T \in SUBSET D : S \subseteq T /\ Closed(next, T)
                                      => ReachFrom(next, S) \subseteq T
<1>1. ReachFrom(next, S) = Closure(next, S)
  BY ReachFromIsClosure
<1>2. Closed(next, Closure(next, S))
  BY DEF Closed, Closure
<1>3. QED
  BY <1>1, <1>2 DEF Closure

=============================================================================
