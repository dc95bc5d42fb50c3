------------------------------ MODULE Liveness ------------------------------
(***************************************************************************)
(* BlockLevelLivenessAnalyse (model/ControlFlowGraphAlgos.cpp): the        *)
(* backward data flow analysis whose result the live ranges of IR3 and the *)
(* interference graph of IR2 are made from.                                *)
(*                                                                         *)
(* Every round computes the sets of all the blocks from those of the round *)
(* before (next_in, next_out) and then installs them; the loop ends with   *)
(* the round that changes nothing.  The graph and the sets use and def are *)
(* the input.                                                              *)
(***************************************************************************)
EXTENDS Naturals, FiniteSets

CONSTANTS
    Blocks,             \* the basic blocks of one function
    Var                 \* its variables

ASSUME BlocksAssumption == IsFiniteSet(Blocks)

VARIABLES
    succ,               \* input: the successors of every block
    use, def,           \* input: read before written, written
    live_in, live_out,  \* the result
    changed             \* the loop goes on

input == <<succ, use, def>>
vars == <<succ, use, def, live_in, live_out, changed>>

VarSets == [Blocks -> SUBSET Var]

\* A jump, a conditional jump or falling through: at most two successors.
Init ==
    /\ succ \in [Blocks -> {S \in SUBSET Blocks : Cardinality(S) <= 2}]
    /\ use \in VarSets
    /\ def \in VarSets
    /\ live_in = [b \in Blocks |-> {}]
    /\ live_out = [b \in Blocks |-> {}]
    /\ changed = TRUE

\* new_out: what some successor needs.
LiveOut(in, b) == UNION {in[s] : s \in succ[b]}

\* Faulty variant of LiveIn: the definitions are not taken away.
LiveInNoKill(in, b) == use[b] \cup LiveOut(in, b)

\* new_in: what the block reads and what it hands through.
LiveIn(in, b) == use[b] \cup (LiveOut(in, b) \ def[b])

\* Faulty variant of Iterate: exit blocks are passed over.
IterateInnerBlocks ==
    LET inner == {b \in Blocks : succ[b] # {}}
    IN  /\ changed
        /\ live_in'  = [b \in inner |-> LiveIn(live_in, b)]
        /\ live_out' = [b \in inner |-> LiveOut(live_in, b)]
        /\ changed'  = (live_in' # live_in \/ live_out' # live_out)
        /\ UNCHANGED input

\* Faulty variant of Iterate: only live_out is compared.
IterateOutOnly ==
    /\ changed
    /\ live_in'  = [b \in Blocks |-> LiveIn(live_in, b)]
    /\ live_out' = [b \in Blocks |-> LiveOut(live_in, b)]
    /\ changed'  = (live_out' # live_out)
    /\ UNCHANGED input

\* Faulty variant of Iterate: the definitions are not taken away.
IterateNoKill ==
    /\ changed
    /\ live_in'  = [b \in Blocks |-> use[b] \cup LiveOut(live_in, b)]
    /\ live_out' = [b \in Blocks |-> LiveOut(live_in, b)]
    /\ changed'  = (live_in' # live_in \/ live_out' # live_out)
    /\ UNCHANGED input

\* Faulty variant of Iterate: the flag is not reset.
IterateForever ==
    /\ changed
    /\ live_in'  = [b \in Blocks |-> LiveIn(live_in, b)]
    /\ live_out' = [b \in Blocks |-> LiveOut(live_in, b)]
    /\ UNCHANGED <<succ, use, def, changed>>

\* One round over all the blocks.
Iterate ==
    /\ changed
    /\ live_in'  = [b \in Blocks |-> LiveIn(live_in, b)]
    /\ live_out' = [b \in Blocks |-> LiveOut(live_in, b)]
    /\ changed'  = (live_in' # live_in \/ live_out' # live_out)
    /\ UNCHANGED input

Next == Iterate

\* A plain loop: it goes on as long as its condition holds.
Spec == Init /\ [][Next]_vars /\ WF_vars(Next)

-----------------------------------------------------------------------------
TypeOK ==
    /\ succ \in [Blocks -> SUBSET Blocks]
    /\ use \in VarSets
    /\ def \in VarSets
    /\ live_in \in VarSets
    /\ live_out \in VarSets
    /\ changed \in BOOLEAN

(***************************************************************************)
(* When the loop stops both families of sets satisfy the data flow         *)
(* equations: the round that changed nothing was computed from the final   *)
(* sets, not from those of a round before.                                 *)
(***************************************************************************)
Solved ==
    ~changed => \A b \in Blocks : /\ live_in[b] = LiveIn(live_in, b)
                                 /\ live_out[b] = LiveOut(live_in, b)

(***************************************************************************)
(* Never, in no round, is a variable taken to be live that some solution   *)
(* of the equations does without.  With Solved: the result is the least    *)
(* solution.                                                               *)
(***************************************************************************)
IsSolution(in) == \A b \in Blocks : LiveIn(in, b) \subseteq in[b]

BelowEverySolution ==
    \A in \in VarSets : IsSolution(in) =>
        \A b \in Blocks : /\ live_in[b] \subseteq in[b]
                         /\ live_out[b] \subseteq LiveOut(in, b)

(***************************************************************************)
(* What the sets mean for the program: in the end v is in live_in[b]       *)
(* exactly when a path from b reads v before any block on it has written   *)
(* it.  Paths longer than the number of blocks repeat one.                 *)
(***************************************************************************)
Paths(b) ==
    {p \in UNION {[1 .. n -> Blocks] : n \in 1 .. Cardinality(Blocks)} :
        /\ p[1] = b
        /\ \A k \in DOMAIN p : k + 1 \in DOMAIN p => p[k + 1] \in succ[p[k]]}

ReadAlong(p, v) ==
    \E k \in DOMAIN p : /\ v \in use[p[k]]
                        /\ \A j \in 1 .. k - 1 : v \notin def[p[j]]

LiveMeansRead ==
    ~changed => \A b \in Blocks, v \in Var :
        v \in live_in[b] <=> \E p \in Paths(b) : ReadAlong(p, v)

\* A round never takes away what an earlier one found.
Growing ==
    [][\A b \in Blocks : /\ live_in[b] \subseteq live_in'[b]
                        /\ live_out[b] \subseteq live_out'[b]]_vars

\* The iteration comes to an end, whatever the graph.
Termination == <>~changed

=============================================================================
