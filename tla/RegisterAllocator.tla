------------------------- MODULE RegisterAllocator -------------------------
(***************************************************************************)
(* Register allocation: ASMGenerator::Generate and alloc_register,         *)
(* InterferenceGraph::MCSOrder and Coloring, GraphColorRegisterAlloc and   *)
(* the stack slots of X86Translator::GenerateTextSection.                  *)
(*                                                                         *)
(* The functions of a program are allocated one after the other, and only  *)
(* then is the text of all of them emitted.  The location of a slot is     *)
(* metadata of its symbol, and the symbol ir_slot_k of all functions is    *)
(* one and the same.  The vertices of a graph are visited in the order of  *)
(* a std::set<SymbolPtr>, that is, of the addresses of the symbols.        *)
(*                                                                         *)
(* The input is, for every function, its slots 0 .. n - 1 and the edges    *)
(* that build_inf_graph found.                                             *)
(***************************************************************************)
EXTENDS Integers, Sequences, FiniteSets

CONSTANTS
    NFuncs,             \* number of functions
    NSlots,             \* number of slots of the function with most
    NRegs,              \* number of allocatable registers
    Programs            \* for every function the interference graph it may have

ASSUME NFuncsAssumption == NFuncs \in Nat \ {0}
ASSUME NSlotsAssumption == NSlots \in Nat
ASSUME NRegsAssumption == NRegs \in Nat

Slot == 0 .. NSlots - 1
Func == 1 .. NFuncs

\* A graph on n slots; an edge is a set of two of them.
Graph == [n : 0 .. NSlots, edges : SUBSET (SUBSET Slot)]

ASSUME ProgramsAssumption ==
    /\ Programs \subseteq [Func -> Graph]
    /\ \A p \in Programs : \A f \in Func : \A e \in p[f].edges :
           \E u, v \in 0 .. p[f].n - 1 : u # v /\ e = {u, v}

VARIABLES
    graph,              \* input: the interference graph of every function
    addr,               \* input: the place of every slot symbol in memory
    fn,                 \* the function at work
    phase,              \* "order", "color", "emit" or "done"
    weights, order,     \* of MCSOrder
    color,              \* of Coloring, NoColor for an uncoloured slot
    location,           \* metadata kLOCATION of the slot symbols
    is_spilled,         \* metadata kIS_SPILLED
    al_regs,            \* the registers allocated to every function
    emitted             \* the locations in the text of every function

vars == <<graph, addr, fn, phase, weights, order, color, location, is_spilled,
          al_regs, emitted>>

NoColor  == -1
NoLoc    == <<"none", 0>>
Reg(c)   == <<"register", c>>
Stack(k) == <<"stack", k>>

Vertices(f) == 0 .. graph[f].n - 1
Adjacent(f, u, v) == {u, v} \in graph[f].edges

Visited == {order[k] : k \in DOMAIN order}

Init ==
    /\ graph \in Programs
    /\ addr \in {a \in [Slot -> Slot] : \A u, v \in Slot : a[u] = a[v] => u = v}
    /\ fn = 1
    /\ phase = "order"
    /\ weights = [s \in Slot |-> 0]
    /\ order = << >>
    /\ color = [s \in Slot |-> NoColor]
    /\ location = [s \in Slot |-> NoLoc]
    /\ is_spilled = {}
    /\ al_regs = [f \in Func |-> {}]
    /\ emitted = [f \in Func |-> [s \in Slot |-> NoLoc]]

\* Faulty variant of MaxNode: the node with the least weight.
MinNode(v) ==
    /\ v \in Vertices(fn) \ Visited
    /\ \A w \in Vertices(fn) \ Visited :
           \/ weights[v] < weights[w]
           \/ weights[v] = weights[w] /\ addr[v] <= addr[w]

\* Faulty variant of MaxNode: >= for >, the last such node.
MaxNodeLast(v) ==
    /\ v \in Vertices(fn) \ Visited
    /\ \A w \in Vertices(fn) \ Visited :
           \/ weights[v] > weights[w]
           \/ weights[v] = weights[w] /\ addr[v] >= addr[w]

\* The first unvisited node, in vertex order, with the greatest weight.
MaxNode(v) ==
    /\ v \in Vertices(fn) \ Visited
    /\ \A w \in Vertices(fn) \ Visited :
           \/ weights[v] > weights[w]
           \/ weights[v] = weights[w] /\ addr[v] <= addr[w]

\* One turn of the loop of MCSOrder.
Visit(v) ==
    /\ phase = "order"
    /\ MaxNode(v)
    /\ order' = Append(order, v)
    /\ weights' = [w \in Slot |->
                       IF /\ w \in Vertices(fn) \ (Visited \cup {v})
                          /\ Adjacent(fn, v, w)
                       THEN weights[w] + 1 ELSE weights[w]]
    /\ UNCHANGED <<graph, addr, fn, phase, color, location, is_spilled,
                   al_regs, emitted>>

Ordered ==
    /\ phase = "order"
    /\ Vertices(fn) \subseteq Visited
    /\ phase' = "color"
    /\ UNCHANGED <<graph, addr, fn, weights, order, color, location,
                   is_spilled, al_regs, emitted>>

\* Faulty variant of NeighborColors: the edges have a direction.
NeighborColorsBelow(v) ==
    {color[w] : w \in {u \in Vertices(fn) : u < v /\ Adjacent(fn, u, v)}}

NeighborColors(v) == {color[w] : w \in {u \in Vertices(fn) : Adjacent(fn, u, v)}}

\* boost::sequential_vertex_coloring: the least colour no neighbour has.
Smallest(c, v) ==
    /\ c \notin NeighborColors(v)
    /\ \A d \in 0 .. c - 1 : d \in NeighborColors(v)

Coloured == {s \in Slot : color[s] # NoColor}

\* The next vertex in the order takes the least free colour.
Color(v) ==
    /\ phase = "color"
    /\ \E k \in DOMAIN order :
           /\ order[k] = v
           /\ v \notin Coloured
           /\ \A j \in 1 .. k - 1 : order[j] \in Coloured
    /\ \E c \in Slot : /\ Smallest(c, v)
                       /\ color' = [color EXCEPT ![v] = c]
    /\ UNCHANGED <<graph, addr, fn, phase, weights, order, location,
                   is_spilled, al_regs, emitted>>

\* GraphColorRegisterAlloc: the slots whose colour names a register.
InRegister(v) == color[v] < NRegs

\* The working state of the next function, or of the emission.
Proceed ==
    /\ IF fn < NFuncs
       THEN fn' = fn + 1 /\ phase' = "order"
       ELSE fn' = 1 /\ phase' = "emit"
    /\ weights' = [s \in Slot |-> 0]
    /\ order' = << >>
    /\ color' = [s \in Slot |-> NoColor]

\* Faulty variant of AllocRegister: spilled slots are not marked.
AllocRegisterNoSpill ==
    /\ phase = "color"
    /\ Vertices(fn) \subseteq Coloured
    /\ location' = [s \in Slot |->
                        IF s \in Vertices(fn) /\ InRegister(s)
                        THEN Reg(color[s]) ELSE location[s]]
    /\ al_regs' = [al_regs EXCEPT ![fn] =
                       {color[s] : s \in {v \in Vertices(fn) : InRegister(v)}}]
    /\ Proceed
    /\ UNCHANGED <<graph, addr, is_spilled, emitted>>

\* Faulty variant of AllocRegister: the first location a slot got stays.
AllocRegisterKeeping ==
    /\ phase = "color"
    /\ Vertices(fn) \subseteq Coloured
    /\ location' = [s \in Slot |->
                        IF /\ s \in Vertices(fn) /\ InRegister(s)
                           /\ location[s] = NoLoc
                        THEN Reg(color[s]) ELSE location[s]]
    /\ is_spilled' = is_spilled \cup {s \in Vertices(fn) :
                                          ~InRegister(s) /\ location[s] = NoLoc}
    /\ al_regs' = [al_regs EXCEPT ![fn] =
                       {color[s] : s \in {v \in Vertices(fn) : InRegister(v)}}]
    /\ Proceed
    /\ UNCHANGED <<graph, addr, emitted>>

(***************************************************************************)
(* alloc_register writes the result into the symbols: a slot in a register *)
(* gets that location, a spilled one is marked unless it has a location    *)
(* already, from whichever function.                                       *)
(***************************************************************************)
AllocRegister ==
    /\ phase = "color"
    /\ Vertices(fn) \subseteq Coloured
    /\ location' = [s \in Slot |->
                        IF s \in Vertices(fn) /\ InRegister(s)
                        THEN Reg(color[s]) ELSE location[s]]
    /\ is_spilled' = is_spilled \cup {s \in Vertices(fn) :
                                          ~InRegister(s) /\ location[s] = NoLoc}
    /\ al_regs' = [al_regs EXCEPT ![fn] =
                       {color[s] : s \in {v \in Vertices(fn) : InRegister(v)}}]
    /\ Proceed
    /\ UNCHANGED <<graph, addr, emitted>>

\* Faulty variant of StackIndex: the offset is moved after its use, so the
\* first slot lies on the saved frame pointer.
StackIndexFromZero(v) ==
    Cardinality({s \in Vertices(fn) \cap is_spilled : addr[s] < addr[v]})

\* Stack slots go to the spilled variables in the order of the set vars_.
StackIndex(v) ==
    Cardinality({s \in Vertices(fn) \cap is_spilled : addr[s] <= addr[v]})

\* GenerateTextSection for one function: stack slots, then the text.
Emit ==
    /\ phase = "emit"
    /\ location' = [s \in Slot |->
                        IF s \in Vertices(fn) \cap is_spilled
                        THEN Stack(StackIndex(s)) ELSE location[s]]
    /\ emitted' = [emitted EXCEPT ![fn] =
                       [s \in Slot |-> IF s \in Vertices(fn) THEN location'[s]
                                                             ELSE NoLoc]]
    /\ IF fn < NFuncs THEN fn' = fn + 1 /\ UNCHANGED phase
                      ELSE phase' = "done" /\ UNCHANGED fn
    /\ UNCHANGED <<graph, addr, weights, order, color, is_spilled, al_regs>>

Next ==
    \/ \E v \in Slot : Visit(v)
    \/ Ordered
    \/ \E v \in Slot : Color(v)
    \/ AllocRegister
    \/ Emit

Spec == Init /\ [][Next]_vars

-----------------------------------------------------------------------------
Location == {NoLoc} \cup {Reg(c) : c \in Slot} \cup {Stack(k) : k \in 1 .. NSlots}

TypeOK ==
    /\ graph \in Programs
    /\ addr \in [Slot -> Slot]
    /\ fn \in Func
    /\ phase \in {"order", "color", "emit", "done"}
    /\ weights \in [Slot -> Nat]
    /\ order \in Seq(Slot)
    /\ color \in [Slot -> Slot \cup {NoColor}]
    /\ location \in [Slot -> Location]
    /\ is_spilled \in SUBSET Slot
    /\ al_regs \in [Func -> SUBSET Slot]
    /\ emitted \in [Func -> [Slot -> Location]]

(***************************************************************************)
(* At no point of the colouring of a function do two interfering slots     *)
(* have the same colour.                                                   *)
(***************************************************************************)
ProperColoring ==
    \A u, v \in Coloured : Adjacent(fn, u, v) => color[u] # color[v]

(***************************************************************************)
(* On a chordal graph the order of MCSOrder makes the greedy colouring     *)
(* optimal: it uses as many colours as the largest clique has slots, so no *)
(* slot is spilled that need not be.                                       *)
(***************************************************************************)
Cliques(f) ==
    {S \in SUBSET Vertices(f) : \A u, v \in S : u = v \/ Adjacent(f, u, v)}

Chordal(f) ==
    \A S \in SUBSET Vertices(f) : S # {} =>
        \E v \in S : {u \in S : u = v \/ Adjacent(f, u, v)} \in Cliques(f)

FewestColors ==
    phase = "color" /\ Vertices(fn) \subseteq Coloured /\ Chordal(fn) =>
        \E S \in Cliques(fn) :
            Cardinality(S) = Cardinality({color[v] : v \in Vertices(fn)})

(***************************************************************************)
(* In the text of function f every slot has a place, slots that interfere  *)
(* have different ones, and the registers are among those that             *)
(* GenerateTextSection knows of when it saves the callee saved ones.       *)
(***************************************************************************)
Emitted(f) == phase = "done" \/ (phase = "emit" /\ f < fn)

SafeText(f) ==
    /\ \A v \in Vertices(f) : emitted[f][v] # NoLoc
    /\ \A u, v \in Vertices(f) :
           Adjacent(f, u, v) => emitted[f][u] # emitted[f][v]
    /\ \A v \in Vertices(f) : \A c \in Slot :
           emitted[f][v] = Reg(c) => c \in al_regs[f]

EmittedSafe == \A f \in Func : Emitted(f) => SafeText(f)

(***************************************************************************)
(* A function that is the only one to have slots is emitted safely, spills *)
(* included, whatever its graph: the metadata is wrong only where it is    *)
(* shared (alloc_register, GenerateTextSection).                           *)
(***************************************************************************)
Alone(f) == \A g \in Func \ {f} : graph[g].n = 0

AloneSafe == \A f \in Func : Alone(f) /\ Emitted(f) => SafeText(f)

(***************************************************************************)
(* As long as all slots of every function interfere with one another and   *)
(* the slot symbols lie in memory in the order they were made, slot k has  *)
(* colour k in every function: what one function writes into the symbols   *)
(* is right for the others.                                                *)
(***************************************************************************)
InOrder == \A u, v \in Slot : u < v => addr[u] < addr[v]

Uniform ==
    /\ \A f \in Func : \A u, v \in Vertices(f) : u # v => Adjacent(f, u, v)
    /\ InOrder

UniformSafe == Uniform => EmittedSafe

(***************************************************************************)
(* The function allocated last is emitted with the registers chosen for    *)
(* it, if it needed no more of them than there are.                        *)
(***************************************************************************)
LastSafe ==
    Emitted(NFuncs) /\ graph[NFuncs].n <= NRegs /\ is_spilled = {}
        => SafeText(NFuncs)

(***************************************************************************)
(* What a graph colouring allocator promises of the whole program, with    *)
(* the slot symbols in memory in the order they were made.                 *)
(***************************************************************************)
ProgramSafe == InOrder => EmittedSafe

=============================================================================
