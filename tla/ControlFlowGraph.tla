-------------------------- MODULE ControlFlowGraph --------------------------
(***************************************************************************)
(* Basic blocks, control flow edges and the per block sets the analyses    *)
(* start from (model/ControlFlowGraph.cpp, ControlFlowGraphAlgos.cpp).     *)
(* A block is a sequence of instructions; block ids are 1 .. n where the   *)
(* code counts from 0.  The edges are a function from a block to the       *)
(* sequence of its successors, in the order in which they were added.      *)
(***************************************************************************)
EXTENDS IR, SequencesExt

StartsBlock(need_new_block, ins) == need_new_block \/ ins.op = "label"

(***************************************************************************)
(* SplitToBasicBlocks: a label begins a block, a jump or a return ends one. *)
(***************************************************************************)
SplitToBasicBlocks(ir) ==
    LET Place(acc, ins) ==
            [blocks |->
                IF StartsBlock(acc.need, ins)
                THEN Append(acc.blocks, <<ins>>)
                ELSE [acc.blocks EXCEPT ![Len(acc.blocks)] = Append(@, ins)],
             need |-> IsJump(ins.op) \/ ins.op = "rtn"]
    IN  FoldLeft(Place, [blocks |-> << >>, need |-> TRUE], ir).blocks

HasReturn(bb) == \E k \in DOMAIN bb : bb[k].op = "rtn"

\* label2block, for one label: no block when nothing carries it, and the last
\* one when several do.
LabelBlock(blocks, label) ==
    LET carriers == {b \in DOMAIN blocks : /\ blocks[b][1].op = "label"
                                           /\ blocks[b][1].srcs[1] = label}
    IN  IF carriers = {} THEN << >> ELSE <<Max(carriers)>>

\* Faulty variant of SuccessorsOf: the last block falls through as well.
SuccessorsOfUnbounded(blocks, b) ==
    LET ins  == Last(blocks[b])
    IN  CASE HasReturn(blocks[b]) -> << >>
          [] ins.op = "jmp"       -> LabelBlock(blocks, ins.srcs[1])
          [] IsCondJump(ins.op)   -> LabelBlock(blocks, ins.srcs[2]) \o <<b + 1>>
          [] OTHER                -> <<b + 1>>

(***************************************************************************)
(* BuildControlFlowEdges, seen from the last instruction of block b: the   *)
(* target of a jump comes before the block that follows.                   *)
(***************************************************************************)
SuccessorsOf(blocks, b) ==
    LET ins  == Last(blocks[b])
        next == IF b < Len(blocks) THEN <<b + 1>> ELSE << >>
    IN  CASE HasReturn(blocks[b]) -> << >>
          [] ins.op = "jmp"       -> LabelBlock(blocks, ins.srcs[1])
          [] IsCondJump(ins.op)   -> LabelBlock(blocks, ins.srcs[2]) \o next
          [] OTHER                -> next

BuildControlFlowEdges(blocks) ==
    [b \in DOMAIN blocks |-> SuccessorsOf(blocks, b)]

\* ControlFlowGraph::Successors and Predecessors, as sets.
Successors(succ, b)   == ToSet(succ[b])
Predecessors(succ, b) == {p \in DOMAIN succ : b \in Successors(succ, p)}

(***************************************************************************)
(* AnalyzeUseDefForBlocks: def is what the block writes, use what it reads  *)
(* before it has written it.                                               *)
(***************************************************************************)
UseDef(bb) ==
    LET Visit(acc, ins) ==
            IF ins.op = "label" THEN acc
            ELSE [use |-> acc.use \cup (Use(ins) \ acc.def),
                  def |-> acc.def \cup Def(ins)]
    IN  FoldLeft(Visit, [use |-> {}, def |-> {}], bb)

\* The blocks reachable from the blocks in S by the edges next.
ReachFrom(next, S) ==
    LET reach[R \in SUBSET DOMAIN next] ==
            LET more == R \cup UNION {next[b] : b \in R}
            IN  IF more = R THEN R ELSE reach[more]
    IN  reach[S]

Edges(succ) == [b \in DOMAIN succ |-> Successors(succ, b)]

MarkReachableBlocks(succ) == ReachFrom(Edges(succ), {1})

\* The edges that do not touch block b.
Without(succ, b) ==
    [c \in DOMAIN succ |-> IF c = b THEN {} ELSE Successors(succ, c) \ {b}]

(***************************************************************************)
(* The blocks u with Dominates(u, v).  The code walks from u up the tree   *)
(* of immediate dominators and looks for v: it finds v when every path     *)
(* from the entry to u goes through v.  The tree itself is boost's.        *)
(***************************************************************************)
Dominated(succ, v) ==
    LET others == ReachFrom(Without(succ, v), {1})
    IN  {u \in MarkReachableBlocks(succ) : u = v \/ u \notin others}

BuildDominatorTree(succ) ==
    LET reachable == MarkReachableBlocks(succ)
    IN  [v \in DOMAIN succ |-> IF v \in reachable THEN Dominated(succ, v) ELSE {}]

=============================================================================
