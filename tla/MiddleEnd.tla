----------------------------- MODULE MiddleEnd -----------------------------
(***************************************************************************)
(* One function on its way from IR3 to the interference graph              *)
(* (driver/API.cpp): liveness of IR3, live ranges and slots of             *)
(* IRVariableOptimizer, IR2Generator, liveness of IR2 and the edges of     *)
(* ASMGenerator::build_inf_graph.                                          *)
(*                                                                         *)
(* Then the function is run, IR3 and IR2 in step, all branches free.  A    *)
(* value is the place of the instruction that computed it, and whether     *)
(* that was the last time or an earlier one.  IR2 runs with the worst      *)
(* registers its interference graph allows: a write to a slot destroys     *)
(* every slot that does not interfere with it.                             *)
(***************************************************************************)
EXTENDS IRGenerator, FiniteSets

CONSTANTS
    Names,              \* the variables of the function, all parameters too
    Params,             \* its parameters
    Bodies,             \* the function bodies
    MaxBlocks,          \* at most so many basic blocks
    MaxTmp              \* and temporaries up to this number

VARIABLES
    body,               \* input: the function body
    phase,              \* step of the compiler, "run" or "done"
    blocks,             \* the basic blocks of IR3
    code,               \* of IR2: a sequence for every instruction of IR3
    blocks2,            \* the basic blocks of IR2
    edges, use, def, live_in, live_out, changed,        \* Liveness
    live_ranges, pending, it, itr, active, free_slots, slot_count,
    var_to_slot,                                        \* SlotAllocator
    interferes,         \* the edges of the interference graph
    pc,                 \* block and instruction of IR3
    val3, val2,         \* the values of the variables and of the slots
    lost                \* the slots whose value may have been destroyed

liveness == <<edges, use, def, live_in, live_out, changed>>
slots == <<live_ranges, pending, it, itr, active, free_slots, slot_count,
           var_to_slot>>
machine == <<pc, val3, val2, lost>>
ir == <<blocks, code, blocks2>>
vars == <<body, phase, ir, liveness, slots, interferes, machine>>

\* Blocks that do not exist have no edges and no variables.
BlockIds == 1 .. MaxBlocks
Symbols == {User(n) : n \in Names} \cup {Tmp(n) : n \in 0 .. MaxTmp}
Slots   == {Slot(n) : n \in 0 .. Cardinality(Symbols) - 1}

L == INSTANCE Liveness
         WITH Blocks <- BlockIds, Var <- Symbols \cup Slots, succ <- edges
S == INSTANCE SlotAllocator
         WITH Var <- Symbols, MaxIndex <- 0, NoItem <- NoSym

Undefined == <<0, 0, "last">>      \* no value yet

Init ==
    /\ body \in Bodies
    /\ phase = "ir"
    /\ blocks = << >> /\ code = << >> /\ blocks2 = << >>
    /\ edges = << >> /\ use = << >> /\ def = << >>
    /\ live_in = << >> /\ live_out = << >> /\ changed = FALSE
    /\ live_ranges = << >> /\ pending = {} /\ it = NoSym /\ itr = 1
    /\ active = << >> /\ free_slots = << >> /\ slot_count = 0
    /\ var_to_slot = << >>
    /\ interferes = {}
    /\ pc = <<1, 1>>
    /\ val3 = [v \in Symbols |-> Undefined]
    /\ val2 = [v \in Slots |-> Undefined]
    /\ lost = {}

\* IRGenerator: instructions and basic blocks.
Generate ==
    /\ phase = "ir"
    /\ phase' = "cfg"
    /\ blocks' = SplitToBasicBlocks(Optimums(FunctionIR(Params, Names, body)))
    /\ UNCHANGED <<body, code, blocks2, liveness, slots, interferes, machine>>

\* Edges and the use and def sets of the blocks bbs, ready for Liveness.
Prepare(bbs, succ) ==
    /\ edges' = [b \in BlockIds |-> IF b \in DOMAIN bbs THEN ToSet(succ[b]) ELSE {}]
    /\ use' = [b \in BlockIds |-> IF b \in DOMAIN bbs THEN UseDef(bbs[b]).use ELSE {}]
    /\ def' = [b \in BlockIds |-> IF b \in DOMAIN bbs THEN UseDef(bbs[b]).def ELSE {}]
    /\ live_in' = [b \in BlockIds |-> {}]
    /\ live_out' = [b \in BlockIds |-> {}]
    /\ changed' = TRUE

BuildCfg ==
    /\ phase = "cfg"
    /\ phase' = "live"
    /\ Prepare(blocks, BuildControlFlowEdges(blocks))
    /\ UNCHANGED <<body, ir, slots, interferes, machine>>

\* A round of BlockLevelLivenessAnalyse, of IR3 and of IR2.
Iterate ==
    /\ phase \in {"live", "live2"}
    /\ L!Iterate
    /\ UNCHANGED <<body, phase, ir, slots, interferes, machine>>

-----------------------------------------------------------------------------
\* The index of an instruction in the function, from 0.
Index(b, k) == FoldLeftDomain(LAMBDA n, c : n + (IF c < b THEN Len(blocks[c]) ELSE 0),
                              k - 1, blocks)

\* Faulty variant of Touches: what is live at the end of a block is left out.
TouchesNoLiveOut(v, b, k) ==
    \/ v \in Use(blocks[b][k]) \cup Def(blocks[b][k])
    \/ k = 1 /\ v \in live_in[b]

\* The instructions that extend the live range of v in AnalyzeLiveRanges.
Touches(v, b, k) ==
    \/ v \in Use(blocks[b][k]) \cup Def(blocks[b][k])
    \/ k = 1 /\ v \in live_in[b]
    \/ k = Len(blocks[b]) /\ v \in live_out[b]

Places == UNION {{<<b, k>> : k \in DOMAIN blocks[b]} : b \in DOMAIN blocks}

AnalyzeLiveRanges ==
    LET touched(v) == {Index(p[1], p[2]) : p \in {q \in Places : Touches(v, q[1], q[2])}}
        ranged == {v \in Symbols : touched(v) # {}}
    IN  /\ live_ranges' = [v \in ranged |-> [start |-> Min(touched(v)),
                                             end |-> Max(touched(v))]]
        /\ pending' = ranged

Ranges ==
    /\ phase = "live" /\ ~changed
    /\ phase' = "slots"
    /\ AnalyzeLiveRanges
    /\ var_to_slot' = [v \in Symbols |-> S!NoSlot]
    /\ UNCHANGED <<body, ir, liveness, it, itr, active, free_slots,
                   slot_count, interferes, machine>>

AllocateSlots ==
    /\ phase = "slots"
    /\ S!Next
    /\ UNCHANGED <<body, phase, ir, liveness, interferes, machine>>

-----------------------------------------------------------------------------
\* RewriteInstructions: every variable by its slot.
Renamed(s) == IF IsVariable(s) THEN Slot(var_to_slot[s]) ELSE s

\* convert_ira3_2_ira2 for one instruction.
Convert(i) ==
    LET d == Renamed(i.dst)
        a == Renamed(i.srcs[1])
        b == Renamed(i.srcs[2])
        mov == IF d = a THEN << >> ELSE <<InsA2("mov", d, a, NoSym)>>
    IN  CASE i.op \in BinOps  -> Append(mov, InsA2(i.op, d, b, NoSym))
          [] i.op = "mov"     -> mov
          [] OTHER            -> <<InsA2(i.op, d, a, b)>>

RewriteInstructions ==
    /\ phase = "slots" /\ pending = {}
    /\ phase' = "ir2"
    /\ code' = [b \in DOMAIN blocks |->
                    [k \in DOMAIN blocks[b] |-> Convert(blocks[b][k])]]
    /\ UNCHANGED <<body, blocks, blocks2, liveness, slots, interferes, machine>>

\* The blocks with the flag reachable, by the edges of the graph at hand.
Reachable == ReachFrom(edges, {1})

\* ControlFlowGraph::Instructions leaves the unreachable blocks out.
Kept == [b \in DOMAIN blocks |-> IF b \in Reachable THEN FlattenSeq(code[b]) ELSE << >>]

\* IR2Generator::build_cfg.
SplitIR2 ==
    /\ phase = "ir2"
    /\ phase' = "cfg2"
    /\ blocks2' = SplitToBasicBlocks(FlattenSeq(Kept))
    /\ UNCHANGED <<body, blocks, code, liveness, slots, interferes, machine>>

BuildCfg2 ==
    /\ phase = "cfg2"
    /\ phase' = "live2"
    /\ Prepare(blocks2, BuildControlFlowEdges(blocks2))
    /\ UNCHANGED <<body, ir, slots, interferes, machine>>

\* InstructionLevelLivenessAnalyse: what is live after instruction k of a block.
LiveAfter(bb, out, k) ==
    FoldRight(LAMBDA i, live : Use(i) \cup (live \ Def(i)),
              SubSeq(bb, k + 1, Len(bb)), out)

\* The edges that instruction k of block b gives rise to.
EdgesOf(b, k) ==
    UNION {{{d, w} : w \in LiveAfter(blocks2[b], live_out[b], k) \ {d}} :
           d \in Def(blocks2[b][k])}

\* build_inf_graph, for the instructions of the reachable blocks.
BuildInfGraph ==
    /\ phase = "live2" /\ ~changed
    /\ phase' = "run"
    /\ interferes' = UNION {UNION {EdgesOf(b, k) : k \in DOMAIN blocks2[b]} :
                            b \in Reachable}
    /\ UNCHANGED <<body, ir, liveness, slots, machine>>

-----------------------------------------------------------------------------
(***************************************************************************)
(* The program.  The operands an instruction takes values from, in the     *)
(* order of the sources of IR3; store reads its address, the destination.  *)
(***************************************************************************)
Operands(i) ==
    CASE i.op = "store"                      -> <<i.dst, i.srcs[1]>>
      [] i.form = "A2" /\ i.op \in BinOps    -> <<i.dst, i.srcs[1]>>
      [] OTHER                               -> i.srcs

Writes(i) == IF i.op = "store" THEN {} ELSE Def(i)

\* What an instruction computes at place p when variables have the values val.
Result(i, p, val) ==
    IF i.op = "mov" /\ IsVariable(i.srcs[1]) THEN val[i.srcs[1]] ELSE p

\* Place p is about to compute anew: its value so far becomes an earlier one.
Aged(val, p) == [v \in DOMAIN val |-> IF val[v] = p THEN <<p[1], p[2], "earlier">>
                                                   ELSE val[v]]

Execute(i, p, val) == [v \in DOMAIN val |-> IF v \in Writes(i) THEN Result(i, p, val)
                                                             ELSE val[v]]

Here == blocks[pc[1]][pc[2]]
Now  == <<pc[1], pc[2], "last">>

\* The operands of instruction i of IR2 that do not hold what IR3 reads.
Misread(i, val, gone) ==
    {n \in {1, 2} :
        LET v == Operands(Here)[n]
            s == Operands(i)[n]
        IN  /\ IsVariable(v) /\ val3[v] # Undefined
            /\ IsVariable(s)
            /\ s \in gone \/ val[s] # Aged(val3, Now)[v]}

\* The IR2 made from the instruction at pc.
Group ==
    LET Step(acc, i) ==
            [val  |-> Execute(i, Now, acc.val),
             lost |-> (acc.lost \cup {s \in Slots : \E d \in Writes(i) :
                                          s # d /\ {d, s} \notin interferes})
                        \ Writes(i),
             misread |-> acc.misread \cup Misread(i, acc.val, acc.lost)]
    IN  FoldLeft(Step, [val |-> Aged(val2, Now), lost |-> lost, misread |-> {}],
                 code[pc[1]][pc[2]])

Goto(p) ==
    /\ pc' = p
    /\ val3' = Execute(Here, Now, Aged(val3, Now))
    /\ val2' = Group.val
    /\ lost' = Group.lost
    /\ UNCHANGED <<body, phase, ir, liveness, slots, interferes>>

Inside == pc[2] < Len(blocks[pc[1]])

Step   == /\ phase = "run" /\ Inside
          /\ Goto(<<pc[1], pc[2] + 1>>)
Branch == /\ phase = "run" /\ ~Inside
          /\ \E b \in ToSet(SuccessorsOf(blocks, pc[1])) : Goto(<<b, 1>>)

Next ==
    \/ Generate \/ BuildCfg \/ Iterate \/ Ranges \/ AllocateSlots
    \/ RewriteInstructions \/ SplitIR2 \/ BuildCfg2 \/ BuildInfGraph
    \/ Step \/ Branch

Spec == Init /\ [][Next]_vars

-----------------------------------------------------------------------------
(***************************************************************************)
(* Whatever path the function takes, each instruction of IR2 reads the     *)
(* values the instruction of IR3 it was made from reads: coalescing, the   *)
(* two address form (mov d, a; op d, b) and registers chosen by the        *)
(* interference graph never destroy an operand that is still needed.       *)
(***************************************************************************)
OperandsKept == phase = "run" => Group.misread = {}

=============================================================================
