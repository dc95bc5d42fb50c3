----------------------------- MODULE DefAnalysis -----------------------------
(***************************************************************************)
(* BlockLevelDefAnalyse (model/ControlFlowGraphAlgos.cpp): which variables *)
(* are assigned when a block is entered.  The definite assignment check    *)
(* (CFSemanticAnalyzer) rests on def_in.                                   *)
(*                                                                         *)
(* The analysis is a worklist that starts from def_out = def and leaves    *)
(* out the predecessors a block dominates (the back edges of its loop).    *)
(* The graph and the sets def are the input: block b ends in a return, a   *)
(* jump, a conditional jump or by falling through to b + 1, and nothing    *)
(* jumps to the function's own label in block 1.                           *)
(***************************************************************************)
EXTENDS ControlFlowGraph, FiniteSets

CONSTANTS
    NBlocks,            \* number of basic blocks
    Var                 \* the variables

ASSUME NBlocksAssumption == NBlocks \in Nat \ {0}

VARIABLES
    succ,               \* input: the edges
    def,                \* input: the variables every block writes
    reachable,          \* the blocks marked reachable
    dominated,          \* the dominator tree: the blocks each one dominates
    worklist,           \* queue of blocks
    def_in, def_out     \* the result

input == <<succ, def, reachable, dominated>>
vars == <<input, worklist, def_in, def_out>>

Block == DOMAIN succ

\* The edges BuildControlFlowEdges can give to block b of NBlocks.
Ends(b) ==
    LET next == IF b < NBlocks THEN <<b + 1>> ELSE << >>
    IN  {<< >>, next} \cup {<<t>> : t \in 2 .. NBlocks}
                      \cup {<<t>> \o next : t \in 2 .. NBlocks}

Init ==
    /\ succ \in {s \in [1 .. NBlocks -> UNION {Ends(b) : b \in 1 .. NBlocks}] :
                     \A b \in 1 .. NBlocks : s[b] \in Ends(b)}
    /\ def \in [Block -> SUBSET Var]
    /\ reachable = MarkReachableBlocks(succ)
    /\ dominated = BuildDominatorTree(succ)
    /\ worklist = [b \in Block |-> b]
    /\ def_in = [b \in Block |-> {}]
    /\ def_out = def

\* The reachable predecessors that are not dominated by the block itself.
RealPreds(b) ==
    (Predecessors(succ, b) \cap reachable) \ dominated[b]

\* Faulty variant of NewIn: defined on some way instead of on all of them.
NewInSomeWay(b) == UNION {def_out[p] : p \in RealPreds(b)}

\* new_in: defined at the end of every real predecessor.
NewIn(b) ==
    IF RealPreds(b) = {}
    THEN def[b]
    ELSE {v \in UNION {def_out[p] : p \in RealPreds(b)} :
              \A p \in RealPreds(b) : v \in def_out[p]}

NewOut(b) == NewIn(b) \cup def[b]

SkipUnreachable ==
    /\ worklist # << >>
    /\ Head(worklist) \notin reachable
    /\ worklist' = Tail(worklist)
    /\ UNCHANGED <<input, def_in, def_out>>

\* Faulty variant of NoChange: the successors are pushed all the same.
NoChangeRequeue ==
    /\ worklist # << >>
    /\ LET b == Head(worklist)
       IN  /\ b \in reachable
           /\ NewIn(b) = def_in[b] /\ NewOut(b) = def_out[b]
           /\ worklist' = Tail(worklist) \o succ[b]
    /\ UNCHANGED <<input, def_in, def_out>>

NoChange ==
    /\ worklist # << >>
    /\ LET b == Head(worklist)
       IN  /\ b \in reachable
           /\ NewIn(b) = def_in[b] /\ NewOut(b) = def_out[b]
    /\ worklist' = Tail(worklist)
    /\ UNCHANGED <<input, def_in, def_out>>

\* Faulty variant of Update: the successors are not looked at again.
UpdateOnce ==
    /\ worklist # << >>
    /\ LET b == Head(worklist)
       IN  /\ b \in reachable
           /\ NewIn(b) # def_in[b] \/ NewOut(b) # def_out[b]
           /\ def_in' = [def_in EXCEPT ![b] = NewIn(b)]
           /\ def_out' = [def_out EXCEPT ![b] = NewOut(b)]
    /\ worklist' = Tail(worklist)
    /\ UNCHANGED input

\* The successors of a block that changed are looked at again.
Update ==
    /\ worklist # << >>
    /\ LET b == Head(worklist)
       IN  /\ b \in reachable
           /\ NewIn(b) # def_in[b] \/ NewOut(b) # def_out[b]
           /\ def_in' = [def_in EXCEPT ![b] = NewIn(b)]
           /\ def_out' = [def_out EXCEPT ![b] = NewOut(b)]
           /\ worklist' = Tail(worklist) \o succ[b]
    /\ UNCHANGED input

Next == SkipUnreachable \/ NoChange \/ Update

\* A plain loop: it goes on as long as the worklist has elements.
Spec == Init /\ [][Next]_vars /\ WF_vars(Next)

Done == worklist = << >>

-----------------------------------------------------------------------------
(***************************************************************************)
(* The blocks that some path enters with v not yet assigned.               *)
(***************************************************************************)
MayLack(v) ==
    ReachFrom([b \in Block |-> IF v \in def[b] THEN {} ELSE Successors(succ, b)], {1})

(***************************************************************************)
(* At no point of the iteration does the analysis say of a reachable block *)
(* that a variable is assigned on entry when some path reaches the block   *)
(* without an assignment to it: leaving out the back edges is sound.  The  *)
(* entry block, where def_in is the block's own def, is the exception.     *)
(***************************************************************************)
Sound ==
    \A b \in reachable \ {1} : \A v \in def_in[b] : b \notin MayLack(v)

(***************************************************************************)
(* On the graphs that structured programs have (every cycle goes through a *)
(* back edge to a block that dominates its source) the result is exact: no *)
(* program is rejected because an assignment was overlooked.               *)
(***************************************************************************)
Forward(b) == {s \in Successors(succ, b) : b \notin dominated[s]}

Reducible ==
    \A b \in reachable :
        b \notin ReachFrom([c \in Block |-> Forward(c)], Forward(b))

Exact ==
    Done /\ Reducible =>
        \A b \in reachable \ {1} :
            def_in[b] = {v \in Var : b \notin MayLack(v)}

\* The worklist runs empty, whatever the graph.
Termination == <>Done

=============================================================================
