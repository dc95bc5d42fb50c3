---------------------- MODULE RegisterAllocatorProofs ----------------------
(***************************************************************************)
(* RegisterAllocator for any number of functions, slots and registers and  *)
(* any interference graphs: the greedy colouring is proper whatever the    *)
(* order of the vertices, and the text keeps interfering slots apart, in   *)
(* registers and on the stack, in the three cases where sharing the slot   *)
(* symbols does no harm: a function that has all the slots (AloneSafe), the*)
(* last function if nothing is spilled (LastSafe), and functions all of    *)
(* whose slots interfere (UniformSafe).  The last part shows that the      *)
(* order of MCSOrder makes the colouring of chordal graphs optimal         *)
(* (FewestColors).                                                         *)
(***************************************************************************)
EXTENDS RegisterAllocator, FiniteSetTheorems, WellFoundedInduction, TLAPS

(***************************************************************************)
(* What AloneSafe rests on, for a function f that is alone: no metadata    *)
(* before alloc_register comes to f; after it every slot has a register of *)
(* its own among its neighbours or is marked as spilled.                   *)
(***************************************************************************)
Allocated(f, v) == \E c \in Slot : location[v] = Reg(c) /\ c \in al_regs[f]

Allocating == phase \in {"order", "color"}

Before(f)  == Allocating /\ fn <= f
Between(f) == (Allocating /\ f < fn) \/ (phase = "emit" /\ fn <= f)

Clean == is_spilled = {} /\ \A s \in Slot : location[s] = NoLoc

InSymbols(f) ==
    /\ \A v \in Vertices(f) : v \in is_spilled \/ Allocated(f, v)
    /\ \A u, v \in Vertices(f) \ is_spilled :
           Adjacent(f, u, v) => location[u] # location[v]

Metadata(f) ==
    /\ Before(f)  => Clean
    /\ Between(f) => InSymbols(f)
    /\ Emitted(f) => SafeText(f)

AddrInjective == \A u, v \in Slot : addr[u] = addr[v] => u = v

\* Outside of Coloring no slot has a colour left from another function.
NoStaleColor == phase # "color" => Coloured = {}

IInv == TypeOK /\ ProperColoring /\ AddrInjective /\ NoStaleColor

AloneInv == IInv /\ \A f \in Func : Alone(f) => Metadata(f)

-----------------------------------------------------------------------------
(* The edges of a function join two different slots of the function. *)
LEMMA EdgeFacts ==
    ASSUME TypeOK, NEW f \in Func, NEW u \in Slot, NEW v \in Slot,
           Adjacent(f, u, v)
    PROVE  u # v /\ u \in Vertices(f) /\ v \in Vertices(f)
<1>1. graph \in Programs
  BY DEF TypeOK
<1>2. PICK a \in Vertices(f), b \in Vertices(f) : a # b /\ {u, v} = {a, b}
  BY <1>1, ProgramsAssumption DEF Adjacent, Vertices
<1> QED
  BY <1>2

(* The slots of a function are among the slots of the program. *)
LEMMA VertexFacts ==
    ASSUME TypeOK, NEW f \in Func
    PROVE  Vertices(f) \subseteq Slot
<1>1. graph[f] \in Graph
  BY ProgramsAssumption DEF TypeOK
<1>2. graph[f].n \in 0 .. NSlots
  BY <1>1 DEF Graph
<1> QED
  BY <1>2, NSlotsAssumption DEF Vertices, Slot

(* Any set of slots is finite and has no more elements than there are.     *)
LEMMA SlotSets ==
    ASSUME NEW S \in SUBSET Slot
    PROVE  /\ IsFiniteSet(S)
           /\ Cardinality(S) \in 0 .. NSlots
           /\ S # {} => Cardinality(S) # 0
<1>1. IsFiniteSet(Slot) /\ Cardinality(Slot) = NSlots
  BY FS_Interval, NSlotsAssumption DEF Slot
<1>2. IsFiniteSet(S) /\ Cardinality(S) <= Cardinality(Slot)
  BY <1>1, FS_Subset
<1>3. Cardinality(S) \in Nat
  BY <1>2, FS_CardinalityType
<1>4. S # {} => Cardinality(S) # 0
  BY <1>2, FS_EmptySet
<1> QED
  BY <1>1, <1>2, <1>3, <1>4, NSlotsAssumption

(* Two spilled slots of a function never get the same place on the stack. *)
LEMMA StackFacts ==
    ASSUME TypeOK, AddrInjective
    PROVE  /\ \A v \in Vertices(fn) \cap is_spilled : StackIndex(v) \in 1 .. NSlots
           /\ \A u, v \in Vertices(fn) \cap is_spilled :
                  u # v => StackIndex(u) # StackIndex(v)
<1> DEFINE Sp == Vertices(fn) \cap is_spilled
           Upto(v) == {s \in Sp : addr[s] <= addr[v]}
<1>1. Sp \subseteq Slot /\ \A v \in Slot : addr[v] \in Nat
  <2>1. Slot \subseteq Nat
    BY NSlotsAssumption DEF Slot
  <2>2. is_spilled \subseteq Slot /\ addr \in [Slot -> Slot]
    BY DEF TypeOK
  <2> QED
    BY <2>1, <2>2
<1>2. \A v \in Sp : v \in Upto(v) /\ Upto(v) \subseteq Slot
  BY <1>1
<1>3. \A v \in Sp : StackIndex(v) = Cardinality(Upto(v))
  BY DEF StackIndex
<1>4. \A v \in Sp : StackIndex(v) \in 1 .. NSlots
  <2> TAKE v \in Sp
  <2>1. Cardinality(Upto(v)) \in 0 .. NSlots /\ Cardinality(Upto(v)) # 0
    BY <1>2, SlotSets
  <2> QED
    BY <2>1, <1>3, NSlotsAssumption
<1>5. ASSUME NEW u \in Sp, NEW v \in Sp, addr[u] < addr[v]
      PROVE  StackIndex(u) # StackIndex(v)
  <2>1. Upto(u) \subseteq Upto(v) /\ Upto(u) # Upto(v)
    BY <1>1, <1>2, <1>5
  <2>2. IsFiniteSet(Upto(v))
    BY <1>2, SlotSets
  <2>3. Cardinality(Upto(u)) # Cardinality(Upto(v))
    <3> HIDE DEF Upto
    <3> QED
      BY <2>1, <2>2, FS_Subset
  <2> QED
    BY <2>3, <1>3
<1>6. ASSUME NEW u \in Sp, NEW v \in Sp, u # v
      PROVE  StackIndex(u) # StackIndex(v)
  <2>1. addr[u] # addr[v]
    BY <1>1, <1>6 DEF AddrInjective
  <2>2. addr[u] < addr[v] \/ addr[v] < addr[u]
    BY <2>1, <1>1
  <2> QED
    BY <2>2, <1>5
<1> QED
  BY <1>4, <1>6

-----------------------------------------------------------------------------
(* The generator starts with no metadata and no colours. *)
LEMMA InitIInv == Init => IInv
<1> SUFFICES ASSUME Init
             PROVE  IInv
  OBVIOUS
<1>1. TypeOK
  BY NFuncsAssumption DEF Init, TypeOK, Func, Location
<1>2. ProperColoring
  BY DEF Init, ProperColoring, Coloured
<1>3. AddrInjective
  BY DEF Init, AddrInjective
<1>4. NoStaleColor
  BY DEF Init, NoStaleColor, Coloured
<1> QED
  BY <1>1, <1>2, <1>3, <1>4 DEF IInv

(* Visiting a vertex changes the order and the weights only. *)
LEMMA VisitIInv ==
    ASSUME IInv, NEW v \in Slot, Visit(v)
    PROVE  IInv'
<1>1. order' \in Seq(Slot) /\ weights' \in [Slot -> Nat]
  BY DEF IInv, TypeOK, Visit
<1>2. TypeOK'
  BY <1>1 DEF IInv, TypeOK, Visit
<1>3. ProperColoring' /\ AddrInjective' /\ NoStaleColor'
  BY DEF IInv, Visit, ProperColoring, Coloured, Adjacent, AddrInjective,
         NoStaleColor
<1> QED
  BY <1>2, <1>3 DEF IInv

(* Ending the order changes the phase only. *)
LEMMA OrderedIInv ==
    ASSUME IInv, Ordered
    PROVE  IInv'
BY DEF IInv, TypeOK, Ordered, ProperColoring, Coloured, Adjacent, AddrInjective,
       NoStaleColor

(* The least free colour is free: the colouring stays proper. *)
LEMMA ColorIInv ==
    ASSUME IInv, NEW v \in Slot, Color(v)
    PROVE  IInv'
<1>1. PICK c \in Slot : Smallest(c, v) /\ color' = [color EXCEPT ![v] = c]
  BY DEF Color
<1>2. TypeOK /\ color \in [Slot -> Slot \cup {NoColor}] /\ fn \in Func
  BY DEF IInv, TypeOK
<1>3. TypeOK'
  BY <1>1 DEF IInv, TypeOK, Color
<1>4. color'[v] = c /\ \A w \in Slot : w # v => color'[w] = color[w]
  BY <1>1, <1>2
<1>5. \A w \in Slot : Adjacent(fn, w, v) => color[w] # c
  BY <1>1, <1>2, EdgeFacts DEF Smallest, NeighborColors
<1>6. ProperColoring'
  <2> SUFFICES ASSUME NEW a \in Slot, NEW b \in Slot,
                      color'[a] # NoColor, color'[b] # NoColor,
                      Adjacent(fn, a, b)
               PROVE  color'[a] # color'[b]
    BY DEF ProperColoring, Coloured, Adjacent, Color
  <2>1. Adjacent(fn, b, a)
    <3>1. {a, b} = {b, a}
      OBVIOUS
    <3> QED
      BY <3>1 DEF Adjacent
  <2>2. a # b
    BY <1>2, EdgeFacts
  <2>3. CASE a = v
    BY <2>1, <2>2, <2>3, <1>4, <1>5
  <2>4. CASE b = v
    BY <2>2, <2>4, <1>4, <1>5
  <2>5. CASE a # v /\ b # v
    BY <2>5, <1>4 DEF IInv, ProperColoring, Coloured
  <2> QED
    BY <2>3, <2>4, <2>5
<1>7. AddrInjective' /\ NoStaleColor'
  BY DEF IInv, Color, AddrInjective, NoStaleColor
<1> QED
  BY <1>3, <1>6, <1>7 DEF IInv

(* Writing the metadata keeps the types and clears the colours. *)
LEMMA AllocRegisterIInv ==
    ASSUME IInv, AllocRegister
    PROVE  IInv'
<1>1. TypeOK /\ fn \in Func /\ Vertices(fn) \subseteq Slot
  BY VertexFacts DEF IInv, TypeOK
<1>2. \A s \in Vertices(fn) : color[s] \in Slot
  BY <1>1 DEF TypeOK, AllocRegister, Coloured
<1>3. location' \in [Slot -> Location]
  BY <1>1, <1>2 DEF TypeOK, AllocRegister, Location
<1>4. is_spilled' \in SUBSET Slot
  BY <1>1 DEF TypeOK, AllocRegister
<1>5. al_regs' \in [Func -> SUBSET Slot]
  BY <1>1, <1>2 DEF TypeOK, AllocRegister
<1>6. fn' \in Func /\ phase' \in {"order", "color", "emit", "done"}
  BY <1>1, NFuncsAssumption DEF AllocRegister, Proceed, Func
<1>7. /\ weights' \in [Slot -> Nat] /\ order' \in Seq(Slot)
      /\ color' \in [Slot -> Slot \cup {NoColor}]
  BY DEF AllocRegister, Proceed
<1>8. TypeOK'
  BY <1>1, <1>3, <1>4, <1>5, <1>6, <1>7 DEF TypeOK, AllocRegister
<1>9. ProperColoring' /\ AddrInjective' /\ NoStaleColor'
  BY DEF IInv, AllocRegister, Proceed, ProperColoring, Coloured, AddrInjective,
         NoStaleColor
<1> QED
  BY <1>8, <1>9 DEF IInv

(* Emitting a function gives the spilled slots places on the stack. *)
LEMMA EmitIInv ==
    ASSUME IInv, Emit
    PROVE  IInv'
<1>1. TypeOK /\ fn \in Func /\ Vertices(fn) \subseteq Slot
  BY VertexFacts DEF IInv, TypeOK
<1>2. \A v \in Vertices(fn) \cap is_spilled : StackIndex(v) \in 1 .. NSlots
  BY StackFacts DEF IInv
<1>3. location' \in [Slot -> Location]
  BY <1>1, <1>2 DEF TypeOK, Emit, Location
<1>4. emitted' \in [Func -> [Slot -> Location]]
  <2>1. [s \in Slot |-> IF s \in Vertices(fn) THEN location'[s] ELSE NoLoc]
            \in [Slot -> Location]
    BY <1>3 DEF Location
  <2> QED
    BY <2>1, <1>1 DEF TypeOK, Emit
<1>5. fn' \in Func /\ phase' \in {"order", "color", "emit", "done"}
  BY <1>1, NFuncsAssumption DEF Emit, Func, TypeOK
<1>6. TypeOK'
  BY <1>1, <1>3, <1>4, <1>5 DEF TypeOK, Emit
<1>7. ProperColoring' /\ AddrInjective' /\ NoStaleColor'
  BY DEF IInv, Emit, ProperColoring, Coloured, AddrInjective, NoStaleColor
<1> QED
  BY <1>6, <1>7 DEF IInv

(* Every step of the generator preserves the inductive invariant. *)
LEMMA NextIInv == IInv /\ [Next]_vars => IInv'
<1> SUFFICES ASSUME IInv, [Next]_vars
             PROVE  IInv'
  OBVIOUS
<1>1. CASE \E v \in Slot : Visit(v)
  BY <1>1, VisitIInv
<1>2. CASE Ordered
  BY <1>2, OrderedIInv
<1>3. CASE \E v \in Slot : Color(v)
  BY <1>3, ColorIInv
<1>4. CASE AllocRegister
  BY <1>4, AllocRegisterIInv
<1>5. CASE Emit
  BY <1>5, EmitIInv
<1>6. CASE UNCHANGED vars
  BY <1>6 DEF vars, IInv, TypeOK, ProperColoring, Coloured, Adjacent,
              AddrInjective, NoStaleColor
<1> QED
  BY <1>1, <1>2, <1>3, <1>4, <1>5, <1>6 DEF Next

-----------------------------------------------------------------------------
(* The inductive invariant holds throughout code generation. *)
THEOREM InductiveInvariant == Spec => []IInv
BY InitIInv, NextIInv, PTL DEF Spec

(* The generator's state is well typed; in particular every place on the   *)
(* stack lies below the frame pointer and within the spill area.           *)
THEOREM TypeCorrect == Spec => []TypeOK
<1>1. IInv => TypeOK
  BY DEF IInv
<1> QED
  BY <1>1, InductiveInvariant, PTL

(* Coloring never gives two interfering slots of the function at work the  *)
(* same colour, whatever the graph, the order of the symbols in memory and *)
(* the number of functions before.                                         *)
THEOREM ColoringIsProper == Spec => []ProperColoring
<1>1. IInv => ProperColoring
  BY DEF IInv
<1> QED
  BY <1>1, InductiveInvariant, PTL

-----------------------------------------------------------------------------
(* The facts about a function that is alone that every step uses. *)
LEMMA AloneFacts ==
    ASSUME TypeOK, NEW f \in Func, Alone(f)
    PROVE  /\ fn \in Func /\ f \in 1 .. NFuncs /\ fn \in 1 .. NFuncs
           /\ Vertices(f) \subseteq Slot
           /\ fn # f => Vertices(fn) = {}
<1>1. fn \in Func /\ Vertices(f) \subseteq Slot
  BY VertexFacts DEF TypeOK
<1>2. fn # f => Vertices(fn) = {}
  BY <1>1 DEF Alone, Vertices
<1> QED
  BY <1>1, <1>2 DEF Func

(* alloc_register finds no metadata and gives every slot of f a register   *)
(* no neighbour has, or marks it as spilled; for the others it does nothing*)
LEMMA AllocRegisterMetadata ==
    ASSUME AloneInv, NEW f \in Func, Alone(f), AllocRegister
    PROVE  Metadata(f)'
<1>1. /\ TypeOK /\ Metadata(f) /\ fn \in 1 .. NFuncs /\ f \in 1 .. NFuncs
      /\ Vertices(f) \subseteq Slot /\ fn \in Func /\ NFuncs \in Nat \ {0}
  BY AloneFacts, NFuncsAssumption DEF AloneInv, IInv
<1>2. /\ graph' = graph /\ emitted' = emitted /\ phase = "color"
      /\ \/ fn < NFuncs /\ fn' = fn + 1 /\ phase' = "order"
         \/ fn = NFuncs /\ fn' = 1 /\ phase' = "emit"
  BY <1>1 DEF AllocRegister, Proceed
<1>3. ~Emitted(f)'
  BY <1>1, <1>2 DEF Emitted
<1>4. CASE fn # f
  <2>1. Vertices(fn) = {}
    BY <1>1, <1>4, AloneFacts
  <2>2. /\ is_spilled' = is_spilled
        /\ \A s \in Slot : location'[s] = location[s]
        /\ al_regs'[f] = al_regs[f]
    BY <1>1, <1>4, <2>1 DEF AllocRegister, TypeOK
  <2>3. Before(f)' => Before(f)
    BY <1>1, <1>2 DEF Before, Allocating
  <2>4. Between(f)' => Between(f)
    BY <1>1, <1>2, <1>4 DEF Between, Allocating
  <2>5. Clean => Clean'
    BY <2>2 DEF Clean
  <2>6. InSymbols(f) => InSymbols(f)'
    BY <1>1, <1>2, <2>2 DEF InSymbols, Allocated, Vertices, Adjacent
  <2> QED
    BY <1>1, <1>3, <2>3, <2>4, <2>5, <2>6 DEF Metadata
<1>5. CASE fn = f
  <2>1. Clean
    BY <1>1, <1>2, <1>5 DEF Metadata, Before, Allocating
  <2>2. \A v \in Vertices(f) : color[v] \in Slot /\ v \in Coloured
    BY <1>1, <1>5 DEF TypeOK, AllocRegister, Coloured
  <2>3. \A v \in Vertices(f) :
            InRegister(v) => location'[v] = Reg(color[v]) /\ color[v] \in al_regs'[f]
    BY <1>1, <1>5 DEF AllocRegister, TypeOK
  <2>4. \A v \in Vertices(f) : ~InRegister(v) => v \in is_spilled'
    BY <1>1, <1>5, <2>1 DEF AllocRegister, Clean
  <2>5. \A v \in Vertices(f) : v \in is_spilled' \/ Allocated(f, v)'
    BY <2>2, <2>3, <2>4 DEF Allocated
  <2>6. ASSUME NEW u \in Vertices(f) \ is_spilled', NEW v \in Vertices(f) \ is_spilled',
               Adjacent(f, u, v)
        PROVE  location'[u] # location'[v]
    <3>1. location'[u] = Reg(color[u]) /\ location'[v] = Reg(color[v])
      BY <2>3, <2>4
    <3>2. color[u] # color[v]
      BY <2>2, <2>6, <1>5 DEF AloneInv, IInv, ProperColoring
    <3> QED
      BY <3>1, <3>2 DEF Reg
  <2>7. InSymbols(f)'
    BY <1>2, <2>5, <2>6 DEF InSymbols, Vertices, Adjacent
  <2>8. ~Before(f)'
    BY <1>1, <1>2, <1>5 DEF Before, Allocating
  <2> QED
    BY <1>3, <2>7, <2>8 DEF Metadata
<1> QED
  BY <1>4, <1>5

(* The text of f keeps interfering slots apart; the other functions have   *)
(* no slot to give a place on the stack.                                   *)
LEMMA EmitMetadata ==
    ASSUME AloneInv, NEW f \in Func, Alone(f), Emit
    PROVE  Metadata(f)'
<1>1. /\ TypeOK /\ Metadata(f) /\ fn \in 1 .. NFuncs /\ f \in 1 .. NFuncs
      /\ Vertices(f) \subseteq Slot /\ fn \in Func /\ NFuncs \in Nat \ {0}
  BY AloneFacts, NFuncsAssumption DEF AloneInv, IInv
<1>2. /\ graph' = graph /\ is_spilled' = is_spilled /\ al_regs' = al_regs /\ phase = "emit"
      /\ \/ fn < NFuncs /\ fn' = fn + 1 /\ phase' = "emit"
         \/ fn = NFuncs /\ fn' = fn /\ phase' = "done"
  BY <1>1 DEF Emit
<1>3. ~Before(f)'
  BY <1>2 DEF Before, Allocating
<1>4. CASE fn # f
  <2>1. Vertices(fn) = {}
    BY <1>1, <1>4, AloneFacts
  <2>2. /\ \A s \in Slot : location'[s] = location[s]
        /\ emitted'[f] = emitted[f]
    BY <1>1, <1>4, <2>1 DEF Emit, TypeOK
  <2>3. Between(f)' => Between(f)
    BY <1>1, <1>2 DEF Between, Allocating
  <2>4. Emitted(f)' => Emitted(f)
    BY <1>1, <1>2, <1>4 DEF Emitted
  <2>5. InSymbols(f) => InSymbols(f)'
    BY <1>1, <1>2, <2>2 DEF InSymbols, Allocated, Vertices, Adjacent
  <2>6. SafeText(f) => SafeText(f)'
    BY <1>2, <2>2 DEF SafeText, Vertices, Adjacent
  <2> QED
    BY <1>1, <1>3, <2>3, <2>4, <2>5, <2>6 DEF Metadata
<1>5. CASE fn = f
  <2> DEFINE Sp == Vertices(f) \cap is_spilled
  <2>1. InSymbols(f)
    BY <1>1, <1>2, <1>5 DEF Metadata, Between
  <2>2. \A v \in Sp : location'[v] = Stack(StackIndex(v))
    BY <1>1, <1>5 DEF Emit
  <2>3. \A v \in Vertices(f) \ is_spilled : location'[v] = location[v]
    BY <1>1, <1>5 DEF Emit
  <2>4. \A v \in Vertices(f) \ is_spilled :
            \E c \in Slot : location'[v] = Reg(c) /\ c \in al_regs[f]
    BY <2>1, <2>3 DEF InSymbols, Allocated
  <2>5. \A v \in Vertices(f) : emitted'[f][v] = location'[v]
    BY <1>1, <1>5 DEF Emit, TypeOK
  <2>6. \A v \in Vertices(f) : location'[v] # NoLoc
    BY <2>2, <2>4 DEF NoLoc, Stack, Reg
  <2>7. ASSUME NEW u \in Vertices(f), NEW v \in Vertices(f), Adjacent(f, u, v)
        PROVE  location'[u] # location'[v]
    <3>1. u # v
      BY <1>1, <2>7, EdgeFacts
    <3>2. CASE u \in Sp /\ v \in Sp
      BY <3>1, <3>2, <1>5, <2>2, StackFacts DEF AloneInv, IInv, Stack
    <3>3. CASE u \in Sp /\ v \notin Sp
      BY <3>3, <2>2, <2>4 DEF Stack, Reg
    <3>4. CASE u \notin Sp /\ v \in Sp
      BY <3>4, <2>2, <2>4 DEF Stack, Reg
    <3>5. CASE u \notin Sp /\ v \notin Sp
      BY <3>5, <2>1, <2>3, <2>7 DEF InSymbols
    <3> QED
      BY <3>2, <3>3, <3>4, <3>5
  <2>8. ASSUME NEW v \in Vertices(f), NEW c \in Slot, location'[v] = Reg(c)
        PROVE  c \in al_regs[f]
    BY <2>2, <2>4, <2>8 DEF Stack, Reg
  <2>9. SafeText(f)'
    BY <1>2, <2>5, <2>6, <2>7, <2>8 DEF SafeText, Vertices, Adjacent
  <2>10. ~Between(f)'
    BY <1>1, <1>2, <1>5 DEF Between, Allocating
  <2> QED
    BY <1>3, <2>9, <2>10 DEF Metadata
<1> QED
  BY <1>4, <1>5

(* A step that touches neither the symbols nor the text keeps what is      *)
(* known of them.                                                          *)
LEMMA OtherMetadata ==
    ASSUME AloneInv, NEW f \in Func, Alone(f),
           UNCHANGED <<graph, fn, location, is_spilled, al_regs, emitted>>,
           phase' = phase \/ (phase = "order" /\ phase' = "color")
    PROVE  Metadata(f)'
<1>1. Metadata(f) /\ (Before(f)' => Before(f)) /\ (Between(f)' => Between(f))
                  /\ (Emitted(f)' => Emitted(f))
  BY DEF AloneInv, Before, Between, Allocating, Emitted
<1>2. Clean => Clean'
  BY DEF Clean
<1>3. InSymbols(f) => InSymbols(f)'
  BY DEF InSymbols, Allocated, Vertices, Adjacent
<1>4. SafeText(f) => SafeText(f)'
  BY DEF SafeText, Vertices, Adjacent
<1> QED
  BY <1>1, <1>2, <1>3, <1>4 DEF Metadata

(* The text of a function that has all the slots of the program gives each *)
(* a place, interfering ones different places, in registers the translator *)
(* saves, for every graph, any number of registers and of functions before *)
(* and after it: spilling is right as long as metadata is not shared.      *)
THEOREM AloneIsSafe == Spec => []AloneSafe
<1>1. Init => AloneInv
  <2> SUFFICES ASSUME Init, NEW f \in Func
               PROVE  Metadata(f)
    BY InitIInv DEF AloneInv
  <2>1. Clean /\ ~Between(f) /\ ~Emitted(f)
    BY DEF Init, Clean, Between, Emitted, Allocating, Func
  <2> QED
    BY <2>1 DEF Metadata
<1>2. AloneInv /\ [Next]_vars => AloneInv'
  <2> SUFFICES ASSUME AloneInv, [Next]_vars, NEW f \in Func, Alone(f)'
               PROVE  Metadata(f)'
    BY NextIInv DEF AloneInv
  <2>1. Alone(f)
    <3>1. graph' = graph
      BY DEF Next, vars, Visit, Ordered, Color, AllocRegister, Emit
    <3> QED
      BY <3>1 DEF Alone
  <2>2. CASE \E v \in Slot : Visit(v)
    BY <2>1, <2>2, OtherMetadata DEF Visit
  <2>3. CASE Ordered
    BY <2>1, <2>3, OtherMetadata DEF Ordered
  <2>4. CASE \E v \in Slot : Color(v)
    BY <2>1, <2>4, OtherMetadata DEF Color
  <2>5. CASE AllocRegister
    BY <2>1, <2>5, AllocRegisterMetadata
  <2>6. CASE Emit
    BY <2>1, <2>6, EmitMetadata
  <2>7. CASE UNCHANGED vars
    BY <2>1, <2>7, OtherMetadata DEF vars
  <2> QED
    BY <2>2, <2>3, <2>4, <2>5, <2>6, <2>7 DEF Next
<1>3. AloneInv => AloneSafe
  BY DEF AloneInv, AloneSafe, Metadata
<1> QED
  BY <1>1, <1>2, <1>3, PTL DEF Spec

-----------------------------------------------------------------------------
(***************************************************************************)
(* Colours.  The slots in the order are slots of the function, and a slot  *)
(* has fewer neighbours than there are slots, so no colour is beyond them. *)
(***************************************************************************)
OrderOfFunction ==
    /\ \A k \in DOMAIN order : order[k] \in Vertices(fn)
    /\ ~ Allocating => order = << >>

ColorBound ==
    \A v \in Coloured : v \in Vertices(fn) /\ color[v] < graph[fn].n

ColorInv == IInv /\ OrderOfFunction /\ ColorBound

LEMMA SmallestBound ==
    ASSUME TypeOK, NEW v \in Vertices(fn), NEW c \in Slot, Smallest(c, v)
    PROVE  c < graph[fn].n
<1> DEFINE n == graph[fn].n
           Others == Vertices(fn) \ {v}
           Below == 0 .. c - 1
           Takers == {u \in Others : color[u] \in Below}
           taken == [u \in Takers |-> color[u]]
<1>1. fn \in Func /\ Vertices(fn) \subseteq Slot /\ c \in Nat /\ v \in Slot
  <2>1. fn \in Func
    BY DEF TypeOK
  <2>2. Vertices(fn) \subseteq Slot
    BY <2>1, VertexFacts
  <2>3. c \in Nat
    BY NSlotsAssumption DEF Slot
  <2>4. QED
    BY <2>1, <2>2, <2>3
<1>2. n \in Nat
  <2>1. graph[fn] \in Graph
    BY <1>1, ProgramsAssumption DEF TypeOK
  <2>2. QED
    BY <2>1, NSlotsAssumption DEF Graph
<1>3. IsFiniteSet(Others) /\ Cardinality(Others) = n - 1
  <2> HIDE DEF n
  <2>1. Vertices(fn) = 0 .. n - 1
    BY DEF Vertices, n
  <2>2. IsFiniteSet(Vertices(fn)) /\ Cardinality(Vertices(fn)) = n
    BY <1>2, <2>1, FS_Interval
  <2>3. QED
    BY <2>2, FS_RemoveElement
<1>4. IsFiniteSet(Takers) /\ Cardinality(Takers) <= Cardinality(Others)
  BY <1>3, FS_Subset
<1>5. taken \in Surjection(Takers, Below)
  <2>1. taken \in [Takers -> Below]
    OBVIOUS
  <2>2. ASSUME NEW d \in Below PROVE \E u \in Takers : taken[u] = d
    <3>1. d \in NeighborColors(v)
      BY DEF Smallest
    <3>2. PICK u \in Vertices(fn) : Adjacent(fn, u, v) /\ color[u] = d
      BY <3>1 DEF NeighborColors
    <3>3. u # v
      BY <1>1, <3>2, EdgeFacts
    <3>4. QED
      BY <3>2, <3>3
  <2>3. QED
    BY <2>1, <2>2 DEF Surjection
<1>6. Cardinality(Below) = c
  BY <1>1, FS_Interval
<1> HIDE DEF Takers, taken, Below
<1>7. Cardinality(Below) <= Cardinality(Takers) /\ Cardinality(Takers) \in Nat
  BY <1>4, <1>5, FS_Surjection, FS_CardinalityType
<1>8. QED
  BY <1>1, <1>2, <1>3, <1>4, <1>6, <1>7

LEMMA ColorInvInit == Init => ColorInv
BY InitIInv DEF Init, ColorInv, OrderOfFunction, ColorBound, Coloured, Allocating

LEMMA ColorInvStep ==
    ASSUME ColorInv, [Next]_vars
    PROVE  ColorInv'
<1>1. IInv' /\ TypeOK /\ graph' = graph
  BY NextIInv DEF ColorInv, IInv, Next, vars, Visit, Ordered, Color,
                  AllocRegister, Emit
<1>2. CASE UNCHANGED <<fn, order, color>> /\ Allocating' = Allocating
  BY <1>1, <1>2 DEF ColorInv, OrderOfFunction, ColorBound, Coloured, Vertices
<1>3. CASE \E v \in Slot : Visit(v)
  <2>1. PICK v \in Slot : Visit(v)
    BY <1>3
  <2>2. /\ order \in Seq(Slot) /\ order' = Append(order, v) /\ v \in Vertices(fn)
        /\ UNCHANGED <<fn, color>> /\ Allocating'
    BY <2>1 DEF Visit, Allocating, MaxNode, ColorInv, IInv, TypeOK
  <2>3. OrderOfFunction'
    BY <1>1, <2>2 DEF ColorInv, OrderOfFunction, Vertices
  <2>4. QED
    BY <1>1, <2>2, <2>3 DEF ColorInv, ColorBound, Coloured, Vertices
<1>4. CASE \E v \in Slot : Color(v)
  <2>1. PICK v \in Slot : Color(v)
    BY <1>4
  <2>2. v \in Vertices(fn) /\ UNCHANGED <<fn, order>> /\ Allocating'
    BY <2>1 DEF Color, ColorInv, OrderOfFunction, Allocating
  <2>3. PICK c \in Slot : Smallest(c, v) /\ color' = [color EXCEPT ![v] = c]
    BY <2>1 DEF Color
  <2>4. c < graph[fn].n
    BY <1>1, <2>2, <2>3, SmallestBound
  <2>5. ColorBound'
    BY <1>1, <2>2, <2>3, <2>4 DEF TypeOK, ColorInv, ColorBound, Coloured, Vertices
  <2>6. QED
    BY <1>1, <2>2, <2>5 DEF ColorInv, OrderOfFunction, Vertices
<1>5. CASE AllocRegister
  <2>1. order' = << >> /\ Coloured' = {}
    BY <1>5 DEF AllocRegister, Proceed, Coloured
  <2>2. QED
    BY <1>1, <2>1 DEF ColorInv, OrderOfFunction, ColorBound
<1>6. CASE Emit
  <2>1. order' = << >> /\ Coloured' = {}
    BY <1>6 DEF Emit, ColorInv, OrderOfFunction, Allocating, IInv, NoStaleColor,
                Coloured
  <2>2. QED
    BY <1>1, <2>1 DEF ColorInv, OrderOfFunction, ColorBound
<1>7. QED
  BY <1>2, <1>3, <1>4, <1>5, <1>6 DEF Next, Ordered, vars, Allocating

-----------------------------------------------------------------------------
(***************************************************************************)
(* LastSafe.  The symbols still hold what was chosen for the function      *)
(* allocated last; nothing is spilled at the end only if nothing ever was. *)
(***************************************************************************)
LastMetadata ==
    graph[NFuncs].n <= NRegs /\ is_spilled = {} =>
        /\ phase = "emit" => InSymbols(NFuncs)
        /\ Emitted(NFuncs) => SafeText(NFuncs)

LastInv == ColorInv /\ LastMetadata

\* A step that touches neither the symbols nor the text.
LEMMA LastOther ==
    ASSUME LastInv, UNCHANGED <<graph, fn, location, is_spilled, al_regs, emitted>>,
           phase' = phase \/ phase' = "color"
    PROVE  LastMetadata'
<1>1. (phase' = "emit" => phase = "emit") /\ (Emitted(NFuncs)' => Emitted(NFuncs))
  BY DEF Emitted
<1>2. InSymbols(NFuncs) => InSymbols(NFuncs)'
  BY DEF InSymbols, Allocated, Vertices, Adjacent
<1>3. SafeText(NFuncs) => SafeText(NFuncs)'
  BY DEF SafeText, Vertices, Adjacent
<1>4. QED
  BY <1>1, <1>2, <1>3 DEF LastInv, LastMetadata

LEMMA LastAllocRegister ==
    ASSUME LastInv, AllocRegister
    PROVE  LastMetadata'
<1> DEFINE last == NFuncs
<1>1. /\ TypeOK /\ fn \in Func /\ fn \in 1 .. NFuncs /\ NFuncs \in Nat \ {0}
      /\ last \in Func /\ graph' = graph /\ phase = "color"
      /\ \/ fn < NFuncs /\ phase' = "order"
         \/ fn = NFuncs /\ fn' = 1 /\ phase' = "emit"
  BY NFuncsAssumption DEF LastInv, ColorInv, IInv, TypeOK, Func, AllocRegister, Proceed
<1>2. ~ Emitted(last)'
  BY <1>1 DEF Emitted
<1>3. SUFFICES ASSUME fn = last, graph[last].n <= NRegs, is_spilled' = {}
               PROVE  InSymbols(last)'
  BY <1>1, <1>2 DEF LastMetadata
<1>4. Vertices(last) \subseteq Slot
  BY <1>1, VertexFacts
<1>5. \A v \in Vertices(last) : v \in Coloured /\ color[v] \in Slot /\ InRegister(v)
  <2>1. SUFFICES ASSUME NEW v \in Vertices(last)
                 PROVE  v \in Coloured /\ color[v] \in Slot /\ InRegister(v)
    OBVIOUS
  <2>2. v \in Slot /\ v \in Coloured /\ color[v] \in Slot
    BY <1>1, <1>3, <1>4 DEF AllocRegister, Coloured, TypeOK
  <2>3. color[v] < graph[last].n
    BY <1>3, <2>2 DEF LastInv, ColorInv, ColorBound
  <2>4. graph[last].n \in Nat /\ color[v] \in Nat
    <3>1. graph[last] \in Graph
      BY <1>1, ProgramsAssumption DEF TypeOK
    <3>2. QED
      BY <2>2, <3>1, NSlotsAssumption DEF Graph, Slot
  <2>5. color[v] < NRegs
    BY <1>3, <2>3, <2>4, NRegsAssumption
  <2>6. QED
    BY <2>2, <2>5 DEF InRegister
<1>6. \A v \in Vertices(last) : location'[v] = Reg(color[v]) /\ color[v] \in al_regs'[last]
  BY <1>1, <1>3, <1>4, <1>5 DEF AllocRegister, TypeOK
<1>7. \A v \in Vertices(last) : Allocated(last, v)'
  BY <1>5, <1>6 DEF Allocated
<1>8. ASSUME NEW u \in Vertices(last), NEW v \in Vertices(last), Adjacent(last, u, v)
      PROVE  location'[u] # location'[v]
  <2>1. color[u] # color[v]
    BY <1>3, <1>5, <1>8 DEF LastInv, ColorInv, IInv, ProperColoring
  <2>2. QED
    BY <1>6, <2>1 DEF Reg
<1>9. QED
  BY <1>1, <1>7, <1>8 DEF InSymbols, Vertices, Adjacent

LEMMA LastEmit ==
    ASSUME LastInv, Emit
    PROVE  LastMetadata'
<1> DEFINE last == NFuncs
<1>1. /\ TypeOK /\ fn \in Func /\ fn \in 1 .. NFuncs /\ NFuncs \in Nat \ {0}
      /\ last \in Func /\ UNCHANGED <<graph, is_spilled, al_regs>> /\ phase = "emit"
      /\ \/ fn < NFuncs /\ fn' = fn + 1 /\ phase' = "emit"
         \/ fn = NFuncs /\ fn' = fn /\ phase' = "done"
  BY NFuncsAssumption DEF LastInv, ColorInv, IInv, TypeOK, Func, Emit
<1>2. SUFFICES ASSUME graph[last].n <= NRegs, is_spilled = {}
               PROVE  /\ phase' = "emit" => InSymbols(last)'
                      /\ Emitted(last)' => SafeText(last)'
  BY <1>1 DEF LastMetadata
<1>3. InSymbols(last)
  BY <1>1, <1>2 DEF LastInv, LastMetadata
<1>4. location' = location
  BY <1>2 DEF Emit, LastInv, ColorInv, IInv, TypeOK
<1>5. InSymbols(last)'
  BY <1>1, <1>3, <1>4 DEF InSymbols, Allocated, Vertices, Adjacent
<1>6. CASE fn = last
  <2>1. \A v \in Vertices(last) : v \in Slot /\ emitted'[last][v] = location[v]
    <3>1. Vertices(last) \subseteq Slot
      BY <1>1, VertexFacts
    <3>2. QED
      BY <1>1, <1>4, <1>6, <3>1 DEF Emit, TypeOK
  <2>2. \A v \in Vertices(last) : \E c \in Slot : location[v] = Reg(c) /\ c \in al_regs[last]
    BY <1>2, <1>3 DEF InSymbols, Allocated
  <2>3. \A u, v \in Vertices(last) : Adjacent(last, u, v) => location[u] # location[v]
    BY <1>2, <1>3 DEF InSymbols
  <2>4. SafeText(last)'
    BY <1>1, <2>1, <2>2, <2>3 DEF SafeText, Vertices, Adjacent, Reg, NoLoc
  <2>5. QED
    BY <1>5, <2>4
<1>7. CASE fn # last
  <2>1. ~ Emitted(last)'
    BY <1>1, <1>7 DEF Emitted
  <2>2. QED
    BY <1>5, <2>1
<1>8. QED
  BY <1>6, <1>7

(***************************************************************************)
(* The function allocated last is emitted with the registers chosen for    *)
(* it, whatever the functions before it did to the symbols they share, as  *)
(* long as it has no more slots than there are registers and no function   *)
(* spilled one.                                                            *)
(***************************************************************************)
THEOREM LastIsSafe == Spec => []LastSafe
<1>1. Init => LastInv
  BY ColorInvInit DEF Init, LastInv, LastMetadata, Emitted
<1>2. LastInv /\ [Next]_vars => LastInv'
  <2>1. SUFFICES ASSUME LastInv, [Next]_vars PROVE LastMetadata'
    BY ColorInvStep DEF LastInv
  <2>2. CASE \E v \in Slot : Visit(v)
    BY <2>1, <2>2, LastOther DEF Visit
  <2>3. CASE Ordered
    BY <2>1, <2>3, LastOther DEF Ordered
  <2>4. CASE \E v \in Slot : Color(v)
    BY <2>1, <2>4, LastOther DEF Color
  <2>5. CASE AllocRegister
    BY <2>1, <2>5, LastAllocRegister
  <2>6. CASE Emit
    BY <2>1, <2>6, LastEmit
  <2>7. CASE UNCHANGED vars
    BY <2>1, <2>7, LastOther DEF vars
  <2>8. QED
    BY <2>1, <2>2, <2>3, <2>4, <2>5, <2>6, <2>7 DEF Next
<1>3. LastInv => LastSafe
  BY DEF LastInv, LastMetadata, LastSafe
<1>4. QED
  BY <1>1, <1>2, <1>3, PTL DEF Spec

-----------------------------------------------------------------------------
(***************************************************************************)
(* UniformSafe.  With complete graphs and the symbols in order, the slots  *)
(* are visited in order and slot k gets colour k, in every function: what  *)
(* one function writes into a symbol is what every other would write.      *)
(***************************************************************************)
UniformOrder ==
    /\ \A k \in DOMAIN order : order[k] = k - 1
    /\ phase = "order" =>
           \A w \in Vertices(fn) \ Visited : weights[w] = Len(order)

UniformColor == \A v \in Coloured : color[v] = v

UniformSymbols ==
    \A s \in Slot :
        /\ s < NRegs => s \notin is_spilled /\ location[s] \in {NoLoc, Reg(s)}
        /\ ~ (s < NRegs) /\ Allocating => location[s] = NoLoc

UniformMetadata(f) ==
    /\ Between(f) => \A v \in Vertices(f) :
           /\ v < NRegs => location[v] = Reg(v) /\ v \in al_regs[f]
           /\ ~ (v < NRegs) => v \in is_spilled
    /\ Emitted(f) => SafeText(f)

UniformInv ==
    /\ ColorInv
    /\ Uniform => /\ UniformOrder /\ UniformColor /\ UniformSymbols
                  /\ \A f \in Func : UniformMetadata(f)

\* The types of what is at work on the function fn, one by one.
LEMMA WorkFacts ==
    ASSUME TypeOK
    PROVE  /\ fn \in Func /\ Vertices(fn) \subseteq Slot /\ Slot \subseteq Nat
           /\ graph[fn].n \in Nat
           /\ addr \in [Slot -> Slot] /\ weights \in [Slot -> Nat]
           /\ color \in [Slot -> Slot \cup {NoColor}] /\ NoColor \notin Nat
           /\ order \in Seq(Slot)
           /\ Len(order) \in Nat /\ DOMAIN order = 1 .. Len(order)
<1>1. fn \in Func
  BY DEF TypeOK
<1>2. Vertices(fn) \subseteq Slot
  BY <1>1, VertexFacts
<1>3. graph[fn].n \in Nat
  <2>1. graph[fn] \in Graph
    BY <1>1, ProgramsAssumption DEF TypeOK
  <2>2. QED
    BY <2>1, NSlotsAssumption DEF Graph
<1>4. Slot \subseteq Nat
  BY NSlotsAssumption DEF Slot
<1>5. NoColor \notin Nat
  BY DEF NoColor
<1>6. /\ addr \in [Slot -> Slot] /\ weights \in [Slot -> Nat] /\ order \in Seq(Slot)
      /\ color \in [Slot -> Slot \cup {NoColor}]
  BY DEF TypeOK
<1>7. Len(order) \in Nat /\ DOMAIN order = 1 .. Len(order)
  BY <1>6
<1>8. QED
  BY <1>1, <1>2, <1>3, <1>4, <1>5, <1>6, <1>7

LEMMA UniformVisit ==
    ASSUME UniformInv, Uniform, NEW v \in Slot, Visit(v)
    PROVE  UniformOrder'
<1>1. /\ TypeOK /\ fn \in Func /\ Vertices(fn) \subseteq Slot /\ Slot \subseteq Nat
      /\ order \in Seq(Slot) /\ addr \in [Slot -> Slot] /\ weights \in [Slot -> Nat]
      /\ Len(order) \in Nat /\ DOMAIN order = 1 .. Len(order)
  BY WorkFacts DEF UniformInv, ColorInv, IInv
<1>2. /\ \A k \in DOMAIN order : order[k] = k - 1
      /\ \A w \in Vertices(fn) \ Visited : weights[w] = Len(order)
  BY DEF UniformInv, UniformOrder, Visit
<1>3. /\ v \in Vertices(fn) \ Visited
      /\ \A w \in Vertices(fn) \ Visited : addr[v] <= addr[w]
  <2>1. v \in Vertices(fn) \ Visited
    BY DEF Visit, MaxNode
  <2>2. ASSUME NEW w \in Vertices(fn) \ Visited PROVE addr[v] <= addr[w]
    <3>1. weights[v] = weights[w] /\ weights[v] \in Nat
      BY <1>1, <1>2, <2>1
    <3>2. ~ (weights[v] > weights[w])
      BY <3>1
    <3>3. QED
      BY <3>2 DEF Visit, MaxNode
  <2>3. QED
    BY <2>1, <2>2
<1>4. \A m \in Nat : m < Len(order) => m \in Visited
  <2>1. SUFFICES ASSUME NEW m \in Nat, m < Len(order) PROVE m \in Visited
    OBVIOUS
  <2>2. m + 1 \in DOMAIN order /\ order[m + 1] = m
    BY <1>1, <1>2, <2>1
  <2>3. QED
    BY <2>2 DEF Visited
<1>5. Len(order) \notin Visited
  BY <1>1, <1>2 DEF Visited
<1>6. Len(order) <= v
  BY <1>1, <1>3, <1>4
<1>7. Len(order) \in Vertices(fn)
  <2>1. graph[fn].n \in Nat
    BY <1>1, WorkFacts
  <2>2. QED
    BY <1>1, <1>3, <1>6, <2>1 DEF Vertices
<1>8. v = Len(order)
  <2>1. addr[v] <= addr[Len(order)]
    BY <1>3, <1>5, <1>7
  <2>2. Len(order) < v => addr[Len(order)] < addr[v]
    BY <1>1, <1>7 DEF Uniform, InOrder
  <2>3. addr[v] \in Nat /\ addr[Len(order)] \in Nat /\ v \in Nat
    BY <1>1, <1>7
  <2>4. ~ (Len(order) < v)
    BY <2>1, <2>2, <2>3
  <2>5. QED
    <3>1. \A m \in Nat : m <= v /\ ~ (m < v) => v = m
      BY <2>3
    <3>2. Len(order) \in Nat
      BY <1>1
    <3>3. QED
      BY <1>6, <2>4, <3>1, <3>2
<1>9. /\ order' = Append(order, v) /\ fn' = fn /\ graph' = graph /\ phase' = phase
      /\ \A w \in Slot : weights'[w] =
             IF w \in Vertices(fn) \ (Visited \cup {v}) /\ Adjacent(fn, v, w)
             THEN weights[w] + 1 ELSE weights[w]
  BY DEF Visit
<1>10. /\ Len(order') = Len(order) + 1
       /\ \A k \in DOMAIN order' : order'[k] = k - 1
       /\ Visited' = Visited \cup {v}
  <2>1. /\ Len(order') = Len(order) + 1 /\ DOMAIN order' = 1 .. Len(order) + 1
        /\ \A k \in 1 .. Len(order) : order'[k] = order[k]
        /\ order'[Len(order) + 1] = v
    BY <1>1, <1>9
  <2>2. \A k \in DOMAIN order' : order'[k] = k - 1
    BY <1>1, <1>2, <1>8, <2>1
  <2>3. Visited' = {order'[k] : k \in DOMAIN order'}
    BY DEF Visited
  <2>4. Visited' = Visited \cup {v}
    BY <1>1, <2>1, <2>3 DEF Visited
  <2>5. QED
    BY <2>1, <2>2, <2>4
<1>11. ASSUME NEW w \in Vertices(fn) \ (Visited \cup {v})
       PROVE  weights'[w] = Len(order) + 1
  <2>1. Adjacent(fn, v, w)
    BY <1>1, <1>3, <1>11 DEF Uniform
  <2>2. QED
    BY <1>1, <1>2, <1>9, <1>11, <2>1
<1>12. QED
  BY <1>9, <1>10, <1>11 DEF UniformOrder, Vertices

LEMMA UniformColorStep ==
    ASSUME UniformInv, Uniform, NEW v \in Slot, Color(v)
    PROVE  UniformColor'
<1>1. /\ TypeOK /\ fn \in Func /\ Vertices(fn) \subseteq Slot /\ Slot \subseteq Nat
      /\ color \in [Slot -> Slot \cup {NoColor}] /\ order \in Seq(Slot)
      /\ v \in Vertices(fn) /\ NoColor \notin Nat
  <2>1. TypeOK
    BY DEF UniformInv, ColorInv, IInv
  <2>2. v \in Vertices(fn)
    BY DEF Color, UniformInv, ColorInv, OrderOfFunction
  <2>3. QED
    BY <2>1, <2>2, WorkFacts
<1>2. PICK c \in Slot : Smallest(c, v) /\ color' = [color EXCEPT ![v] = c]
  BY DEF Color
<1>3. \A u \in Coloured : color[u] = u
  BY DEF UniformInv, UniformColor
<1>4. \A u \in 0 .. v - 1 : u \in Coloured /\ u \in Vertices(fn) /\ Adjacent(fn, u, v)
  <2>1. PICK k \in DOMAIN order : order[k] = v /\ \A j \in 1 .. k - 1 : order[j] \in Coloured
    BY DEF Color
  <2>2. \A j \in DOMAIN order : order[j] = j - 1
    BY DEF UniformInv, UniformOrder
  <2>3. DOMAIN order = 1 .. Len(order) /\ Len(order) \in Nat /\ k - 1 = v
    BY <1>1, <2>1, <2>2
  <2>4. ASSUME NEW u \in 0 .. v - 1
        PROVE  u \in Coloured /\ u \in Vertices(fn) /\ Adjacent(fn, u, v)
    <3>1. u + 1 \in 1 .. k - 1 /\ order[u + 1] = u /\ u # v
      BY <1>1, <2>1, <2>2, <2>3
    <3>2. u \in Coloured /\ u \in Vertices(fn)
      BY <2>1, <3>1 DEF UniformInv, ColorInv, ColorBound
    <3>3. QED
      BY <1>1, <3>1, <3>2 DEF Uniform
  <2>5. QED
    BY <2>4
<1>5. \A u \in 0 .. v - 1 : u \in NeighborColors(v)
  BY <1>3, <1>4 DEF NeighborColors
<1>6. v \notin NeighborColors(v)
  <2>1. SUFFICES ASSUME NEW u \in Vertices(fn), Adjacent(fn, u, v), color[u] = v
                 PROVE  FALSE
    BY DEF NeighborColors
  <2>2. u # v
    BY <1>1, <2>1, EdgeFacts
  <2>3. u \in Slot /\ color[u] # NoColor
    BY <1>1, <2>1
  <2>4. color[u] = u
    BY <1>3, <2>3 DEF Coloured
  <2>5. QED
    BY <2>1, <2>2, <2>4
<1>7. c = v
  <2>1. v \in Nat /\ c \in Nat
    BY <1>1
  <2>2. c \notin 0 .. v - 1
    BY <1>2, <1>5 DEF Smallest
  <2>3. v \notin 0 .. c - 1
    BY <1>2, <1>6 DEF Smallest
  <2>4. QED
    BY <2>1, <2>2, <2>3
<1>8. QED
  BY <1>1, <1>2, <1>3, <1>7 DEF UniformColor, Coloured

(* alloc_register writes Reg(k) or a spill mark into the symbol of slot k, *)
(* which is what it holds already if another function had such a slot.     *)
LEMMA UniformAllocRegister ==
    ASSUME UniformInv, Uniform, AllocRegister
    PROVE  UniformSymbols' /\ \A f \in Func : UniformMetadata(f)'
<1>1. /\ TypeOK /\ fn \in 1 .. NFuncs /\ NFuncs \in Nat \ {0} /\ graph' = graph
      /\ Vertices(fn) \subseteq Slot /\ Slot \subseteq Nat /\ Allocating
      /\ \/ fn < NFuncs /\ fn' = fn + 1 /\ phase' = "order"
         \/ fn = NFuncs /\ fn' = 1 /\ phase' = "emit"
  <2>1. TypeOK
    BY DEF UniformInv, ColorInv, IInv
  <2>2. QED
    BY <2>1, WorkFacts, NFuncsAssumption DEF Func, AllocRegister, Proceed, Allocating
<1>2. \A s \in Vertices(fn) : color[s] = s
  <2>1. \A s \in Vertices(fn) : s \in Coloured
    BY DEF AllocRegister
  <2>2. QED
    BY <2>1 DEF UniformInv, UniformColor
<1>3. \A s \in Slot : location'[s] = IF s \in Vertices(fn) /\ s < NRegs
                                     THEN Reg(s) ELSE location[s]
  BY <1>2 DEF AllocRegister, InRegister
<1>4. is_spilled' = is_spilled \cup {s \in Vertices(fn) : ~ (s < NRegs)}
  <2>1. \A s \in Vertices(fn) : ~ (s < NRegs) => location[s] = NoLoc
    BY <1>1 DEF UniformInv, UniformSymbols
  <2>2. \A s \in Vertices(fn) : InRegister(s) <=> s < NRegs
    BY <1>2 DEF InRegister
  <2>3. is_spilled' = is_spilled \cup {s \in Vertices(fn) :
                                          ~InRegister(s) /\ location[s] = NoLoc}
    BY DEF AllocRegister
  <2>4. QED
    BY <2>1, <2>2, <2>3
<1>5. /\ al_regs'[fn] = {s \in Vertices(fn) : s < NRegs}
      /\ \A f \in Func : f # fn => al_regs'[f] = al_regs[f]
  <2>1. /\ al_regs'[fn] = {color[s] : s \in {v \in Vertices(fn) : InRegister(v)}}
        /\ \A f \in Func : f # fn => al_regs'[f] = al_regs[f]
    BY <1>1 DEF AllocRegister, TypeOK
  <2>2. QED
    BY <1>2, <2>1 DEF InRegister
<1>6. UniformSymbols
  BY DEF UniformInv
<1>7. UniformSymbols'
  <2>1. SUFFICES ASSUME NEW s \in Slot
                 PROVE  /\ s < NRegs => s \notin is_spilled' /\ location'[s] \in {NoLoc, Reg(s)}
                        /\ ~ (s < NRegs) => location'[s] = NoLoc
    BY DEF UniformSymbols
  <2>2. s < NRegs => s \notin is_spilled'
    BY <1>4, <1>6, <2>1 DEF UniformSymbols
  <2>3. s < NRegs => location'[s] \in {NoLoc, Reg(s)}
    BY <1>3, <1>6, <2>1 DEF UniformSymbols
  <2>4. ~ (s < NRegs) => location'[s] = NoLoc
    BY <1>1, <1>3, <1>6, <2>1 DEF UniformSymbols
  <2>5. QED
    BY <2>2, <2>3, <2>4
<1>8. ASSUME NEW f \in Func
      PROVE  UniformMetadata(f)'
  <2>1. Vertices(f)' = Vertices(f) /\ Vertices(f) \subseteq Slot /\ f \in 1 .. NFuncs
    BY <1>1, VertexFacts DEF Vertices, Func
  <2>2. ~ Emitted(f)'
    BY <1>1, <2>1 DEF Emitted
  <2>3. CASE f = fn
    <3>1. \A v \in Vertices(f) :
              /\ v < NRegs => location'[v] = Reg(v) /\ v \in al_regs'[f]
              /\ ~ (v < NRegs) => v \in is_spilled'
      BY <1>3, <1>4, <1>5, <2>1, <2>3
    <3>2. QED
      BY <2>1, <2>2, <3>1 DEF UniformMetadata
  <2>4. CASE f # fn
    <3>1. Between(f)' => Between(f)
      BY <1>1, <2>1, <2>4 DEF Between, Allocating
    <3>2. Between(f) => \A v \in Vertices(f) :
              /\ v < NRegs => location[v] = Reg(v) /\ v \in al_regs[f]
              /\ ~ (v < NRegs) => v \in is_spilled
      BY DEF UniformInv, UniformMetadata
    <3>3. Between(f) => \A v \in Vertices(f) :
              /\ v < NRegs => location'[v] = Reg(v) /\ v \in al_regs'[f]
              /\ ~ (v < NRegs) => v \in is_spilled'
      BY <1>3, <1>4, <1>5, <2>1, <2>4, <3>2
    <3>4. QED
      BY <2>1, <2>2, <3>1, <3>3 DEF UniformMetadata
  <2>5. QED
    BY <2>3, <2>4
<1>9. QED
  BY <1>7, <1>8

LEMMA UniformEmit ==
    ASSUME UniformInv, Uniform, Emit
    PROVE  UniformSymbols' /\ \A f \in Func : UniformMetadata(f)'
<1>1. /\ TypeOK /\ fn \in 1 .. NFuncs /\ NFuncs \in Nat \ {0}
      /\ UNCHANGED <<graph, is_spilled, al_regs>>
      /\ Vertices(fn) \subseteq Slot /\ Slot \subseteq Nat /\ ~ Allocating'
      /\ \/ fn < NFuncs /\ fn' = fn + 1 /\ phase' = "emit"
         \/ fn = NFuncs /\ fn' = fn /\ phase' = "done"
      /\ phase = "emit"
  <2>1. TypeOK
    BY DEF UniformInv, ColorInv, IInv
  <2>2. QED
    BY <2>1, WorkFacts, NFuncsAssumption DEF Func, Emit, Allocating
<1>2. UniformSymbols
  BY DEF UniformInv
<1>3. \A s \in Slot : location'[s] = IF s \in Vertices(fn) \cap is_spilled
                                     THEN Stack(StackIndex(s)) ELSE location[s]
  BY DEF Emit
<1>4. \A s \in Slot : s < NRegs => location'[s] = location[s]
  BY <1>2, <1>3 DEF UniformSymbols
<1>5. UniformSymbols'
  BY <1>1, <1>2, <1>4 DEF UniformSymbols
<1>6. ASSUME NEW f \in Func
      PROVE  UniformMetadata(f)'
  <2>1. Vertices(f)' = Vertices(f) /\ Vertices(f) \subseteq Slot /\ f \in 1 .. NFuncs
    BY <1>1, VertexFacts DEF Vertices, Func
  <2>2. Between(f) => \A v \in Vertices(f) :
            /\ v < NRegs => location[v] = Reg(v) /\ v \in al_regs[f]
            /\ ~ (v < NRegs) => v \in is_spilled
    BY DEF UniformInv, UniformMetadata
  <2>3. Between(f)' => Between(f)
    BY <1>1, <2>1 DEF Between, Allocating
  <2>4. Between(f)' => \A v \in Vertices(f) :
            /\ v < NRegs => location'[v] = Reg(v) /\ v \in al_regs'[f]
            /\ ~ (v < NRegs) => v \in is_spilled'
    BY <1>1, <1>4, <2>1, <2>2, <2>3
  <2>5. CASE f # fn
    <3>1. Emitted(f)' => Emitted(f)
      BY <1>1, <2>1, <2>5 DEF Emitted
    <3>2. emitted'[f] = emitted[f]
      BY <2>5 DEF Emit, TypeOK, UniformInv, ColorInv, IInv
    <3>3. SafeText(f) => SafeText(f)'
      BY <1>1, <3>2 DEF SafeText, Vertices, Adjacent
    <3>4. Emitted(f) => SafeText(f)
      BY DEF UniformInv, UniformMetadata
    <3>5. QED
      BY <2>1, <2>4, <3>1, <3>3, <3>4 DEF UniformMetadata
  <2>6. CASE f = fn
    <3>1. \A v \in Vertices(f) : emitted'[f][v] = location'[v]
      BY <1>1, <2>1, <2>6 DEF Emit, TypeOK
    <3>2. \A v \in Vertices(f) :
              /\ v < NRegs => location'[v] = Reg(v) /\ v \in al_regs[f]
              /\ ~ (v < NRegs) => location'[v] = Stack(StackIndex(v)) /\ v \in is_spilled
      <4>1. Between(f) /\ Vertices(f) = Vertices(fn)
        BY <1>1, <2>6 DEF Between
      <4>2. SUFFICES ASSUME NEW v \in Vertices(f)
                     PROVE  /\ v < NRegs => location'[v] = Reg(v) /\ v \in al_regs[f]
                            /\ ~ (v < NRegs) => /\ location'[v] = Stack(StackIndex(v))
                                                /\ v \in is_spilled
        OBVIOUS
      <4>3. v \in Slot
        BY <2>1, <4>2
      <4>4. v < NRegs => location'[v] = Reg(v) /\ v \in al_regs[f]
        BY <1>4, <2>2, <4>1, <4>2, <4>3
      <4>5. ~ (v < NRegs) => v \in is_spilled
        BY <2>2, <4>1, <4>2
      <4>6. v \in is_spilled => location'[v] = Stack(StackIndex(v))
        BY <1>3, <4>1, <4>2, <4>3
      <4>7. QED
        BY <4>4, <4>5, <4>6
    <3>3. \A v \in Vertices(f) : location'[v] # NoLoc
      BY <3>2 DEF NoLoc, Reg, Stack
    <3>4. ASSUME NEW u \in Vertices(f), NEW v \in Vertices(f), Adjacent(f, u, v)
          PROVE  location'[u] # location'[v]
      <4>1. u # v
        BY <1>1, <2>1, <3>4, EdgeFacts
      <4>2. CASE ~ (u < NRegs) /\ ~ (v < NRegs)
        <5>1. StackIndex(u) # StackIndex(v)
          BY <1>1, <2>6, <3>2, <4>1, <4>2, StackFacts DEF UniformInv, ColorInv, IInv
        <5>2. QED
          BY <3>2, <4>2, <5>1 DEF Stack
      <4>3. QED
        BY <3>2, <4>1, <4>2 DEF Stack, Reg
    <3>5. ASSUME NEW v \in Vertices(f), NEW c \in Slot, location'[v] = Reg(c)
          PROVE  c \in al_regs[f]
      BY <3>2, <3>5 DEF Stack, Reg
    <3>6. SafeText(f)'
      BY <1>1, <2>1, <3>1, <3>3, <3>4, <3>5 DEF SafeText, Adjacent, Vertices
    <3>7. QED
      BY <2>1, <2>4, <3>6 DEF UniformMetadata
  <2>7. QED
    BY <2>5, <2>6
<1>7. QED
  BY <1>5, <1>6

\* A step of the ordering or the colouring leaves the symbols and texts alone.
LEMMA UniformOther ==
    ASSUME UniformInv, Uniform,
           UNCHANGED <<graph, fn, location, is_spilled, al_regs, emitted>>,
           phase' = phase \/ (phase = "order" /\ phase' = "color")
    PROVE  UniformSymbols' /\ \A f \in Func : UniformMetadata(f)'
<1>1. Allocating' => Allocating
  BY DEF Allocating
<1>2. UniformSymbols'
  BY <1>1 DEF UniformInv, UniformSymbols
<1>3. ASSUME NEW f \in Func
      PROVE  UniformMetadata(f)'
  <2>1. (Between(f)' => Between(f)) /\ (Emitted(f)' => Emitted(f))
    BY DEF Between, Allocating, Emitted
  <2>2. SafeText(f) => SafeText(f)'
    BY DEF SafeText, Vertices, Adjacent
  <2>3. UniformMetadata(f)
    BY DEF UniformInv
  <2>4. Vertices(f)' = Vertices(f)
    BY DEF Vertices
  <2>5. QED
    BY <2>1, <2>2, <2>3, <2>4 DEF UniformMetadata
<1>4. QED
  BY <1>2, <1>3

LEMMA UniformInit ==
    ASSUME Init
    PROVE  UniformInv
<1>1. ColorInv
  BY ColorInvInit
<1>2. UniformOrder /\ UniformColor
  <2>1. Vertices(fn) \subseteq Slot
    BY <1>1, WorkFacts DEF ColorInv, IInv
  <2>2. order = << >> /\ weights = [s \in Slot |-> 0] /\ Len(<< >>) = 0
    BY DEF Init
  <2>3. \A w \in Vertices(fn) : weights[w] = Len(order)
    BY <2>1, <2>2
  <2>4. UniformOrder
    BY <2>2, <2>3 DEF UniformOrder
  <2>5. QED
    BY <2>4 DEF Init, UniformColor, Coloured
<1>3. UniformSymbols
  BY DEF Init, UniformSymbols
<1>4. ASSUME NEW f \in Func PROVE UniformMetadata(f)
  BY NFuncsAssumption DEF Init, UniformMetadata, Between, Emitted, Allocating, Func
<1>5. QED
  BY <1>1, <1>2, <1>3, <1>4 DEF UniformInv

(***************************************************************************)
(* If all slots of every function interfere with one another and the slot  *)
(* symbols lie in memory in the order they were made, the text of every    *)
(* function is safe, spills included: the symbols the functions share are  *)
(* given the same location by all of them.                                 *)
(***************************************************************************)
THEOREM UniformIsSafe == Spec => []UniformSafe
<1>1. Init => UniformInv
  BY UniformInit
<1>2. UniformInv /\ [Next]_vars => UniformInv'
  <2>1. SUFFICES ASSUME UniformInv, [Next]_vars, Uniform
                 PROVE  UniformOrder' /\ UniformColor' /\ UniformSymbols'
                        /\ \A f \in Func : UniformMetadata(f)'
    <3>1. UniformInv /\ [Next]_vars => ColorInv'
      BY ColorInvStep DEF UniformInv
    <3>2. [Next]_vars => (Uniform' => Uniform)
      <4>1. [Next]_vars => graph' = graph /\ addr' = addr
        BY DEF Next, vars, Visit, Ordered, Color, AllocRegister, Emit
      <4>2. QED
        BY <4>1 DEF Uniform, InOrder, Vertices, Adjacent
    <3>3. QED
      BY <2>1, <3>1, <3>2 DEF UniformInv
  <2>2. /\ UniformOrder /\ UniformColor /\ UniformSymbols
        /\ \A f \in Func : UniformMetadata(f)
    BY <2>1 DEF UniformInv
  <2>3. CASE \E v \in Slot : Visit(v)
    <3>1. PICK v \in Slot : Visit(v)
      BY <2>3
    <3>2. UniformOrder'
      BY <2>1, <3>1, UniformVisit
    <3>3. UniformColor'
      BY <2>2, <3>1 DEF Visit, UniformColor, Coloured
    <3>4. QED
      BY <2>1, <3>1, <3>2, <3>3, UniformOther DEF Visit
  <2>4. CASE Ordered
    <3>1. UniformOrder' /\ UniformColor'
      BY <2>2, <2>4 DEF Ordered, UniformOrder, UniformColor, Coloured
    <3>2. QED
      BY <2>1, <2>4, <3>1, UniformOther DEF Ordered
  <2>5. CASE \E v \in Slot : Color(v)
    <3>1. PICK v \in Slot : Color(v)
      BY <2>5
    <3>2. UniformColor'
      BY <2>1, <3>1, UniformColorStep
    <3>3. UniformOrder'
      BY <2>2, <3>1 DEF Color, UniformOrder
    <3>4. QED
      BY <2>1, <3>1, <3>2, <3>3, UniformOther DEF Color
  <2>6. CASE AllocRegister
    <3>1. /\ order' = << >> /\ weights' = [s \in Slot |-> 0]
          /\ color' = [s \in Slot |-> NoColor]
      BY <2>6 DEF AllocRegister, Proceed
    <3>2. \A w \in Vertices(fn)' : w \in Slot
      <4>1. TypeOK'
        BY <2>1, ColorInvStep DEF UniformInv, ColorInv, IInv
      <4>2. fn' \in Func
        BY <4>1 DEF TypeOK
      <4>3. graph' = graph /\ TypeOK
        BY <2>1, <2>6 DEF AllocRegister, UniformInv, ColorInv, IInv
      <4>4. Vertices(fn') \subseteq Slot
        BY <4>2, <4>3, VertexFacts
      <4>5. QED
        BY <4>3, <4>4 DEF Vertices
    <3>3. UniformOrder' /\ UniformColor'
      BY <3>1, <3>2 DEF UniformOrder, UniformColor, Coloured
    <3>4. QED
      BY <2>1, <2>6, <3>3, UniformAllocRegister
  <2>7. CASE Emit
    <3>1. phase' # "order" /\ UNCHANGED <<order, color>>
      BY <2>7 DEF Emit
    <3>2. UniformOrder' /\ UniformColor'
      BY <2>2, <3>1 DEF UniformOrder, UniformColor, Coloured
    <3>3. QED
      BY <2>1, <2>7, <3>2, UniformEmit
  <2>8. CASE UNCHANGED vars
    <3>1. UniformOrder' /\ UniformColor'
      BY <2>2, <2>8 DEF vars, UniformOrder, UniformColor, Coloured, Visited, Vertices
    <3>2. QED
      BY <2>1, <2>8, <3>1, UniformOther DEF vars
  <2>9. QED
    BY <2>1, <2>3, <2>4, <2>5, <2>6, <2>7, <2>8 DEF Next
<1>3. UniformInv => UniformSafe
  BY DEF UniformInv, UniformMetadata, UniformSafe, EmittedSafe
<1>4. QED
  BY <1>1, <1>2, <1>3, PTL DEF Spec

-----------------------------------------------------------------------------
(***************************************************************************)
(* FewestColors.  In the order of MCSOrder on a chordal graph the earlier  *)
(* neighbours of a slot are a clique, so a slot gets colour c only where   *)
(* there is a clique of c + 1 slots.                                       *)
(*                                                                         *)
(* Joined is adjacency of positions in the order.  A path has no edges but *)
(* those between consecutive positions.  It hangs when the positions       *)
(* between its ends come after both of them.                               *)
(***************************************************************************)
Joined(a, b) == Adjacent(fn, order[a], order[b])

Path(p, n) ==
    /\ p \in [0 .. n -> DOMAIN order]
    /\ \A i, j \in 0 .. n : p[i] = p[j] => i = j
    /\ \A i, j \in 0 .. n : Joined(p[i], p[j]) <=> (i = j + 1 \/ j = i + 1)

Hangs(p, n) == p[n] < p[0] /\ \A i \in 1 .. n - 1 : p[0] < p[i]

(* No slot twice, and only slots of the function. *)
OrderDistinct ==
    /\ \A k \in DOMAIN order : order[k] \in Vertices(fn)
    /\ \A j, k \in DOMAIN order : order[j] = order[k] => j = k

(* What MCSOrder chooses, next to a slot w that it does not: where w has   *)
(* an earlier neighbour and the chosen one not, there is one for which it  *)
(* is the other way round.                                                 *)
Preferred(b, w) ==
    \A a \in 1 .. b - 1 : Adjacent(fn, order[a], w) /\ ~Joined(a, b) =>
        \E d \in 1 .. b - 1 : Joined(d, b) /\ ~Adjacent(fn, order[d], w)

OrderPrefers ==
    \A b \in DOMAIN order : \A w \in Vertices(fn) :
        (\A c \in 1 .. b : order[c] # w) => Preferred(b, w)

(* A set of natural numbers that is not empty has a least one. *)
LEMMA LeastNumber ==
    ASSUME NEW S \in SUBSET Nat, S # {}
    PROVE  \E a \in S : \A b \in S : a <= b
<1> DEFINE Less == {ab \in Nat \X Nat : ab[1] < ab[2]}
<1>1. IsWellFoundedOn(Less, Nat)
  BY NatLessThanWellFounded DEF OpToRel
<1> HIDE DEF Less
<1>2. PICK a \in S : \A b \in S : <<b, a>> \notin Less
  BY <1>1, WFMin
<1> USE DEF Less
<1>3. \A b \in S : ~ (b < a)
  BY <1>2
<1> QED
  BY <1>3

(* Edges have no direction, and no slot is adjacent to itself. *)
LEMMA JoinedFacts ==
    ASSUME TypeOK, OrderDistinct
    PROVE  /\ \A a, b \in DOMAIN order : Joined(a, b) <=> Joined(b, a)
           /\ \A a \in DOMAIN order : ~Joined(a, a)
           /\ Len(order) \in Nat /\ DOMAIN order = 1 .. Len(order)
           /\ Vertices(fn) \subseteq Slot /\ fn \in Func
<1>1. /\ Len(order) \in Nat /\ DOMAIN order = 1 .. Len(order)
      /\ Vertices(fn) \subseteq Slot /\ fn \in Func
  BY WorkFacts
<1>2. \A a, b \in DOMAIN order : Joined(a, b) <=> Joined(b, a)
  <2> SUFFICES ASSUME NEW a \in DOMAIN order, NEW b \in DOMAIN order
               PROVE  Joined(a, b) <=> Joined(b, a)
    OBVIOUS
  <2>1. {order[a], order[b]} = {order[b], order[a]}
    OBVIOUS
  <2> QED
    BY <2>1 DEF Joined, Adjacent
<1>3. \A a \in DOMAIN order : ~Joined(a, a)
  <2> SUFFICES ASSUME NEW a \in DOMAIN order, Joined(a, a) PROVE FALSE
    OBVIOUS
  <2>1. order[a] \in Slot
    BY <1>1 DEF OrderDistinct
  <2> QED
    BY <1>1, <2>1, EdgeFacts DEF Joined
<1> QED
  BY <1>1, <1>2, <1>3

(* A chordal graph has no cycle of four or more without a chord: a path    *)
(* and a position joined to its two ends only.                             *)
LEMMA NoCycle ==
    ASSUME TypeOK, OrderDistinct, Chordal(fn), NEW n \in Nat, n >= 2, NEW p, Path(p, n),
           NEW z \in DOMAIN order, \A i \in 0 .. n : p[i] # z,
           Joined(z, p[0]), Joined(z, p[n]), \A i \in 1 .. n - 1 : ~Joined(z, p[i])
    PROVE  FALSE
<1> DEFINE P == {p[i] : i \in 0 .. n} \cup {z}
           S == {order[k] : k \in P}
<1>1. /\ P \subseteq DOMAIN order
      /\ \A a, b \in DOMAIN order : Joined(a, b) <=> Joined(b, a)
      /\ \A a, b \in DOMAIN order : order[a] = order[b] => a = b
  BY JoinedFacts DEF Path, OrderDistinct
<1>2. S \in SUBSET Vertices(fn) /\ S # {}
  BY <1>1 DEF OrderDistinct
<1>3. PICK v \in S : {u \in S : u = v \/ Adjacent(fn, u, v)} \in Cliques(fn)
  BY <1>2 DEF Chordal
<1>4. PICK k \in P : v = order[k]
  BY <1>3
<1>5. \A a, b \in P : Joined(a, k) /\ Joined(b, k) /\ a # b => Joined(a, b)
  <2> SUFFICES ASSUME NEW a \in P, NEW b \in P, Joined(a, k), Joined(b, k), a # b
               PROVE  Joined(a, b)
    OBVIOUS
  <2>1. order[a] \in S /\ order[b] \in S /\ order[a] # order[b]
    BY <1>1
  <2>2. Adjacent(fn, order[a], order[k]) /\ Adjacent(fn, order[b], order[k])
    BY DEF Joined
  <2> HIDE DEF S, P
  <2> QED
    BY <1>3, <1>4, <2>1, <2>2 DEF Cliques, Joined
<1>6. /\ \A i \in 0 .. n : p[i] \in P
      /\ \A i, j \in 0 .. n : p[i] = p[j] => i = j
      /\ \A i, j \in 0 .. n : Joined(p[i], p[j]) <=> (i = j + 1 \/ j = i + 1)
  BY DEF Path
<1>7. z \in P
  OBVIOUS
<1>8. k = z \/ \E i \in 0 .. n : k = p[i]
  OBVIOUS
<1>9. Joined(p[0], z) /\ Joined(p[n], z)
  BY <1>1, <1>6
<1> HIDE DEF P, S
<1>10. CASE k = z
  BY <1>5, <1>6, <1>9, <1>10
<1>11. CASE k = p[0]
  BY <1>1, <1>5, <1>6, <1>7, <1>11
<1>12. CASE k = p[n]
  BY <1>1, <1>5, <1>6, <1>7, <1>12
<1>13. ASSUME NEW i \in 1 .. n - 1, k = p[i] PROVE FALSE
  <2>1. /\ i - 1 \in 0 .. n /\ i + 1 \in 0 .. n /\ i \in 0 .. n
        /\ ~(i - 1 = i + 1 + 1) /\ ~(i + 1 = i - 1 + 1) /\ i - 1 # i + 1
    OBVIOUS
  <2>2. Joined(p[i - 1], k) /\ Joined(p[i + 1], k) /\ p[i - 1] # p[i + 1] /\ ~Joined(p[i - 1], p[i + 1])
    BY <1>6, <1>13, <2>1
  <2> QED
    BY <1>5, <1>6, <2>1, <2>2
<1> QED
  BY <1>8, <1>10, <1>11, <1>12, <1>13

(* A path from one of its positions on. *)
LEMMA PathEnd ==
    ASSUME NEW n \in Nat, NEW p, Path(p, n), NEW j \in 0 .. n
    PROVE  Path([i \in 0 .. n - j |-> p[i + j]], n - j)
<1>1. \A i \in 0 .. n - j : i + j \in 0 .. n
  OBVIOUS
<1>2. /\ p \in [0 .. n -> DOMAIN order]
      /\ \A i, k \in 0 .. n : p[i] = p[k] => i = k
      /\ \A i, k \in 0 .. n : Joined(p[i], p[k]) <=> (i = k + 1 \/ k = i + 1)
  BY DEF Path
<1> DEFINE r == [i \in 0 .. n - j |-> p[i + j]]
<1>3. r \in [0 .. n - j -> DOMAIN order] /\ \A i \in 0 .. n - j : r[i] = p[i + j]
  BY <1>1, <1>2
<1>4. \A i, k \in 0 .. n - j : r[i] = r[k] => i = k
  BY <1>1, <1>2, <1>3
<1>5. \A i, k \in 0 .. n - j : i + j = k + j + 1 <=> i = k + 1
  OBVIOUS
<1>6. \A i, k \in 0 .. n - j : Joined(r[i], r[k]) <=> (i = k + 1 \/ k = i + 1)
  BY <1>1, <1>2, <1>3, <1>5
<1> QED
  BY <1>3, <1>4, <1>6 DEF Path

(* A position joined to the first one of a path and to no other. *)
LEMMA PathFront ==
    ASSUME TypeOK, OrderDistinct, NEW n \in Nat, NEW p, Path(p, n),
           NEW z \in DOMAIN order, \A i \in 0 .. n : p[i] # z,
           Joined(z, p[0]), \A i \in 1 .. n : ~Joined(z, p[i])
    PROVE  Path([i \in 0 .. n + 1 |-> IF i = 0 THEN z ELSE p[i - 1]], n + 1)
<1> DEFINE r == [i \in 0 .. n + 1 |-> IF i = 0 THEN z ELSE p[i - 1]]
<1>1. /\ p \in [0 .. n -> DOMAIN order]
      /\ \A i, k \in 0 .. n : p[i] = p[k] => i = k
      /\ \A i, k \in 0 .. n : Joined(p[i], p[k]) <=> (i = k + 1 \/ k = i + 1)
      /\ \A a, b \in DOMAIN order : Joined(a, b) <=> Joined(b, a)
      /\ ~Joined(z, z)
  BY JoinedFacts DEF Path
<1>2. \A i \in 0 .. n + 1 : i = 0 \/ i - 1 \in 0 .. n
  OBVIOUS
<1>3. r \in [0 .. n + 1 -> DOMAIN order] /\ r[0] = z /\ \A i \in 0 .. n + 1 : i # 0 => r[i] = p[i - 1]
  BY <1>1, <1>2
<1> HIDE DEF r
<1>4. ASSUME NEW i \in 0 .. n + 1, NEW k \in 0 .. n + 1
      PROVE  (r[i] = r[k] => i = k) /\ (Joined(r[i], r[k]) <=> (i = k + 1 \/ k = i + 1))
  <2>1. CASE i = 0 /\ k = 0
    BY <1>1, <1>3, <2>1
  <2>2. CASE i = 0 /\ k # 0
    <3>1. k - 1 \in 0 .. n /\ r[k] = p[k - 1] /\ r[i] = z
      BY <1>2, <1>3, <2>2
    <3>2. Joined(z, p[k - 1]) <=> k - 1 = 0
      BY <3>1
    <3> QED
      BY <2>2, <3>1, <3>2
  <2>3. CASE i # 0 /\ k = 0
    <3>1. i - 1 \in 0 .. n /\ r[i] = p[i - 1] /\ r[k] = z
      BY <1>2, <1>3, <2>3
    <3>2. Joined(z, p[i - 1]) <=> i - 1 = 0
      BY <3>1
    <3>3. Joined(p[i - 1], z) <=> i - 1 = 0
      BY <1>1, <3>1, <3>2
    <3> QED
      BY <2>3, <3>1, <3>3
  <2>4. CASE i # 0 /\ k # 0
    <3>1. i - 1 \in 0 .. n /\ r[i] = p[i - 1] /\ k - 1 \in 0 .. n /\ r[k] = p[k - 1]
      BY <1>2, <1>3, <2>4
    <3>2. (i - 1 = k - 1 => i = k) /\ (i - 1 = k - 1 + 1 <=> i = k + 1) /\ (k - 1 = i - 1 + 1 <=> k = i + 1)
      OBVIOUS
    <3> QED
      BY <1>1, <3>1, <3>2
  <2> QED
    BY <2>1, <2>2, <2>3, <2>4
<1>5. Path(r, n + 1)
  BY <1>3, <1>4 DEF Path
<1> QED
  BY <1>5 DEF r

(* The path from the other end. *)
LEMMA PathBack ==
    ASSUME NEW n \in Nat, NEW p, Path(p, n)
    PROVE  Path([i \in 0 .. n |-> p[n - i]], n)
<1>1. \A i \in 0 .. n : n - i \in 0 .. n
  OBVIOUS
<1>2. /\ p \in [0 .. n -> DOMAIN order]
      /\ \A i, k \in 0 .. n : p[i] = p[k] => i = k
      /\ \A i, k \in 0 .. n : Joined(p[i], p[k]) <=> (i = k + 1 \/ k = i + 1)
  BY DEF Path
<1> DEFINE r == [i \in 0 .. n |-> p[n - i]]
<1>3. r \in [0 .. n -> DOMAIN order] /\ \A i \in 0 .. n : r[i] = p[n - i]
  BY <1>1, <1>2
<1>4. \A i, k \in 0 .. n : (n - i = n - k => i = k) /\ (n - i = n - k + 1 <=> k = i + 1)
  OBVIOUS
<1>5. \A i, k \in 0 .. n : r[i] = r[k] => i = k
  BY <1>1, <1>2, <1>3, <1>4
<1>6. \A i, k \in 0 .. n : Joined(r[i], r[k]) <=> (i = k + 1 \/ k = i + 1)
  BY <1>1, <1>2, <1>3, <1>4
<1> QED
  BY <1>3, <1>5, <1>6 DEF Path


(* A path of positions hangs from its later end; from one that does, MCS   *)
(* has a path that hangs from an earlier position. So there is none.       *)
LEMMA NothingHangs ==
    ASSUME TypeOK, OrderDistinct, OrderPrefers, Chordal(fn),
           NEW n0 \in Nat, n0 >= 2, NEW p0, Path(p0, n0), Hangs(p0, n0)
    PROVE  FALSE
<1> DEFINE Tops == {a \in Nat : \E n \in Nat : \E p \in [0 .. n -> DOMAIN order] :
                        n >= 2 /\ Path(p, n) /\ Hangs(p, n) /\ p[0] = a}
<1>1. /\ Len(order) \in Nat /\ DOMAIN order = 1 .. Len(order)
      /\ \A a, b \in DOMAIN order : Joined(a, b) <=> Joined(b, a)
      /\ \A a \in DOMAIN order : ~Joined(a, a)
  BY JoinedFacts
<1>2. Tops \in SUBSET Nat /\ Tops # {}
  <2>1. p0 \in [0 .. n0 -> DOMAIN order] /\ p0[0] \in Nat
    BY <1>1 DEF Path
  <2> QED
    BY <2>1
<1>3. PICK top \in Tops : \A a \in Tops : top <= a
  <2> HIDE DEF Tops
  <2> QED
    BY <1>2, LeastNumber
<1>4. PICK n \in Nat : \E p \in [0 .. n -> DOMAIN order] :
          n >= 2 /\ Path(p, n) /\ Hangs(p, n) /\ p[0] = top
  BY <1>3
<1>5. PICK p \in [0 .. n -> DOMAIN order] : n >= 2 /\ Path(p, n) /\ Hangs(p, n) /\ p[0] = top
  BY <1>4
<1>6. /\ \A i \in 0 .. n : p[i] \in DOMAIN order /\ p[i] \in Nat
      /\ \A i, j \in 0 .. n : p[i] = p[j] => i = j
      /\ \A i, j \in 0 .. n : Joined(p[i], p[j]) <=> (i = j + 1 \/ j = i + 1)
      /\ p[n] < p[0] /\ \A i \in 1 .. n - 1 : p[0] < p[i]
  BY <1>1, <1>5 DEF Path, Hangs
<1>7. ASSUME NEW m \in Nat, NEW r, m >= 2, Path(r, m), Hangs(r, m) PROVE top <= r[0]
  <2>1. r \in [0 .. m -> DOMAIN order] /\ r[0] \in Nat
    BY <1>1, <1>7 DEF Path
  <2>2. r[0] \in Tops
    BY <1>7, <2>1
  <2> HIDE DEF Tops
  <2> QED
    BY <1>3, <2>2
<1> HIDE DEF Tops
<1>8. /\ 0 \in 0 .. n /\ n \in 0 .. n /\ n - 1 \in 1 .. n - 1 /\ n - 1 \in 0 .. n
      /\ ~(0 = n + 1) /\ ~(n = 0 + 1)
  BY <1>5
<1>9. Joined(p[n], p[n - 1]) /\ ~Joined(p[n], p[0])
  BY <1>6, <1>8
<1>10. PICK z \in 1 .. p[0] - 1 : Joined(z, p[0]) /\ ~Joined(z, p[n - 1])
  <2> DEFINE w == order[p[n - 1]]
  <2>1. w \in Vertices(fn) /\ p[0] \in DOMAIN order
    BY <1>6, <1>8 DEF OrderDistinct
  <2>2. \A c \in 1 .. p[0] : order[c] # w
    <3> SUFFICES ASSUME NEW c \in 1 .. p[0], order[c] = w PROVE FALSE
      OBVIOUS
    <3>1. c \in DOMAIN order
      BY <1>1, <1>6, <1>8
    <3>2. c = p[n - 1]
      BY <1>6, <1>8, <3>1 DEF OrderDistinct
    <3> QED
      BY <1>6, <1>8, <3>2
  <2>3. Preferred(p[0], w)
    BY <2>1, <2>2 DEF OrderPrefers
  <2>4. p[n] \in 1 .. p[0] - 1
    BY <1>1, <1>6, <1>8
  <2>5. Adjacent(fn, order[p[n]], w)
    BY <1>9 DEF Joined
  <2>6. PICK d \in 1 .. p[0] - 1 : Joined(d, p[0]) /\ ~Adjacent(fn, order[d], w)
    BY <1>9, <2>3, <2>4, <2>5 DEF Preferred
  <2> QED
    BY <2>6 DEF Joined
<1>11. /\ z \in DOMAIN order /\ z \in Nat /\ z < p[0]
       /\ \A i \in 0 .. n : p[i] # z
  <2>1. z \in DOMAIN order /\ z \in Nat /\ z < p[0]
    BY <1>1, <1>6, <1>8, <1>10
  <2>2. z # p[n]
    BY <1>9, <1>10
  <2>3. \A i \in 1 .. n - 1 : p[i] # z
    BY <1>6, <1>8, <2>1
  <2>4. \A i \in 0 .. n : i = 0 \/ i = n \/ i \in 1 .. n - 1
    OBVIOUS
  <2> QED
    BY <2>1, <2>2, <2>3, <2>4
<1> DEFINE J == {t \in Nat : t \in 0 .. n - 1 /\ Joined(z, p[n - 1 - t])}
<1>12. J \in SUBSET Nat /\ J # {}
  <2>1. n - 1 \in 0 .. n - 1 /\ n - 1 - (n - 1) = 0 /\ n - 1 \in Nat
    BY <1>5
  <2>2. Joined(z, p[n - 1 - (n - 1)])
    BY <1>10, <2>1
  <2>3. n - 1 \in J
    BY <2>1, <2>2
  <2> QED
    BY <2>3
<1>13. PICK t \in J : \A u \in J : t <= u
  <2> HIDE DEF J
  <2> QED
    BY <1>12, LeastNumber
<1> DEFINE j == n - 1 - t
           m == n - j
           r == [i \in 0 .. m |-> p[i + j]]
<1>14. /\ t \in 0 .. n - 1 /\ t \in Nat /\ Joined(z, p[j])
       /\ \A u \in 0 .. n - 1 : u < t => ~Joined(z, p[n - 1 - u])
  <2>1. t \in 0 .. n - 1 /\ t \in Nat /\ Joined(z, p[j])
    BY <1>13
  <2>2. ASSUME NEW u \in 0 .. n - 1, u < t, Joined(z, p[n - 1 - u]) PROVE FALSE
    <3>1. u \in J
      BY <2>2
    <3>2. t <= u
      BY <1>13, <3>1
    <3> QED
      BY <2>1, <2>2, <3>2
  <2> QED
    BY <2>1, <2>2
<1> HIDE DEF J
<1>15. t # 0
  <2>1. t = 0 => n - 1 - t = n - 1
    BY <1>5
  <2> QED
    BY <1>10, <1>14, <2>1
<1>16. j \in 0 .. n - 2 /\ j \in 0 .. n /\ m \in Nat /\ m >= 2 /\ j + m = n /\ n \in Nat
  BY <1>5, <1>14, <1>15
<1>17. \A i \in j + 1 .. n - 1 : ~Joined(z, p[i])
  <2> SUFFICES ASSUME NEW i \in j + 1 .. n - 1 PROVE ~Joined(z, p[i])
    OBVIOUS
  <2>1. n - 1 - i \in 0 .. n - 1 /\ n - 1 - i < t /\ n - 1 - (n - 1 - i) = i
    BY <1>5, <1>14
  <2> QED
    BY <1>14, <2>1
<1>18. Path(r, m)
  BY <1>5, <1>16, PathEnd
<1>19. /\ Joined(z, p[j])
       /\ j + 1 \in Nat
  BY <1>14, <1>16
<1> HIDE DEF j, m
<1>20. /\ r[0] = p[j] /\ r[m] = p[n] /\ \A i \in 0 .. m : r[i] = p[i + j] /\ i + j \in 0 .. n
       /\ \A i \in 1 .. m - 1 : i + j \in j + 1 .. n - 1
       /\ \A i \in 0 .. m - 1 : i + j \in 0 .. n - 1
  <2>1. /\ 0 \in 0 .. m /\ m \in 0 .. m /\ 0 + j = j /\ m + j = n
        /\ \A i \in 0 .. m : i + j \in 0 .. n
        /\ \A i \in 1 .. m - 1 : i + j \in j + 1 .. n - 1
        /\ \A i \in 0 .. m - 1 : i + j \in 0 .. n - 1
    BY <1>16
  <2>2. \A i \in 0 .. m : r[i] = p[i + j]
    OBVIOUS
  <2> HIDE DEF r
  <2>3. r[0] = p[0 + j] /\ r[m] = p[m + j]
    BY <2>1, <2>2
  <2> QED
    BY <2>1, <2>2, <2>3
<1> HIDE DEF r
<1>21. /\ \A i \in 1 .. m - 1 : ~Joined(z, r[i])
       /\ \A i \in 0 .. m : r[i] # z
       /\ \A i \in 0 .. m - 1 : p[0] <= r[i] /\ r[i] \in Nat
       /\ Joined(z, r[0])
  <2>1. \A i \in 1 .. m - 1 : ~Joined(z, r[i])
    <3> SUFFICES ASSUME NEW i \in 1 .. m - 1 PROVE ~Joined(z, r[i])
      OBVIOUS
    <3>1. i \in 0 .. m
      BY <1>16
    <3> QED
      BY <1>17, <1>20, <3>1
  <2>2. \A i \in 0 .. m : r[i] # z
    BY <1>11, <1>20
  <2>3. \A i \in 0 .. m - 1 : p[0] <= r[i] /\ r[i] \in Nat
    <3> SUFFICES ASSUME NEW i \in 0 .. m - 1 PROVE p[0] <= r[i] /\ r[i] \in Nat
      OBVIOUS
    <3>1. i \in 0 .. m /\ i + j \in 0 .. n - 1 /\ r[i] = p[i + j] /\ i + j \in 0 .. n
      BY <1>16, <1>20
    <3>2. i + j = 0 \/ i + j \in 1 .. n - 1
      BY <3>1, <1>5
    <3> QED
      BY <1>6, <1>8, <3>1, <3>2
  <2> QED
    BY <1>19, <1>20, <2>1, <2>2, <2>3
<1>22. CASE Joined(z, r[m])
  BY <1>11, <1>16, <1>18, <1>21, <1>22, NoCycle
<1>23. CASE ~Joined(z, r[m])
  <2> DEFINE e == m + 1
             f == [i \in 0 .. e |-> IF i = 0 THEN z ELSE r[i - 1]]
             b == [i \in 0 .. e |-> f[e - i]]
  <2>1. \A i \in 1 .. m : i = m \/ i \in 1 .. m - 1
    BY <1>16
  <2>2. Path(f, e)
    <3>1. \A i \in 1 .. m : ~Joined(z, r[i])
      BY <1>21, <1>23, <2>1
    <3> QED
      BY <1>11, <1>16, <1>18, <1>21, <3>1, PathFront
  <2>3. e \in Nat /\ e >= 2 /\ e - 1 = m
    BY <1>16
  <2> HIDE DEF e
  <2>4. f[0] = z /\ f[e] = p[n]
    <3>1. 0 \in 0 .. e /\ e \in 0 .. e /\ e # 0
      BY <2>3
    <3>2. f[e] = r[m]
      BY <2>3, <3>1
    <3>3. f[0] = z
      BY <3>1
    <3> QED
      BY <1>20, <3>2, <3>3
  <2>5. \A i \in 1 .. e - 1 : p[0] <= f[i] /\ f[i] \in Nat
    <3> SUFFICES ASSUME NEW i \in 1 .. e - 1 PROVE p[0] <= f[i] /\ f[i] \in Nat
      OBVIOUS
    <3>1. i \in 0 .. e /\ i # 0 /\ i - 1 \in 0 .. m - 1
      BY <1>16, <2>3
    <3>2. f[i] = r[i - 1]
      BY <3>1
    <3> HIDE DEF f
    <3> QED
      BY <1>21, <3>1, <3>2
  <2> HIDE DEF f
  <2>6. Path(b, e)
    BY <2>2, <2>3, PathBack
  <2>7. b[0] = p[n] /\ b[e] = z
    <3>1. 0 \in 0 .. e /\ e \in 0 .. e /\ e - 0 = e /\ e - e = 0
      BY <2>3
    <3> QED
      BY <2>4, <3>1
  <2>8. \A i \in 1 .. e - 1 : p[0] <= b[i] /\ b[i] \in Nat
    <3> SUFFICES ASSUME NEW i \in 1 .. e - 1 PROVE p[0] <= b[i] /\ b[i] \in Nat
      OBVIOUS
    <3>1. i \in 0 .. e /\ e - i \in 1 .. e - 1
      BY <2>3
    <3>2. b[i] = f[e - i]
      BY <3>1
    <3> HIDE DEF b
    <3> QED
      BY <2>5, <3>1, <3>2
  <2> HIDE DEF b
  <2>9. /\ p[n] \in Nat /\ p[0] \in Nat /\ z \in Nat /\ z < p[0] /\ p[n] < p[0] /\ z # p[n]
    BY <1>6, <1>8, <1>11
  <2>10. CASE p[n] < z
    <3>1. \A i \in 1 .. e - 1 : f[0] < f[i]
      BY <2>4, <2>5, <2>9
    <3>2. Hangs(f, e)
      BY <2>4, <2>10, <3>1 DEF Hangs
    <3>3. top <= z
      BY <1>7, <2>2, <2>3, <2>4, <3>2
    <3> QED
      BY <1>5, <2>9, <3>3
  <2>11. CASE z < p[n]
    <3>1. \A i \in 1 .. e - 1 : b[0] < b[i]
      BY <2>7, <2>8, <2>9
    <3>2. Hangs(b, e)
      BY <2>7, <2>11, <3>1 DEF Hangs
    <3>3. top <= p[n]
      BY <1>7, <2>3, <2>6, <2>7, <3>2
    <3> QED
      BY <1>5, <2>9, <3>3
  <2> QED
    BY <2>9, <2>10, <2>11
<1> QED
  BY <1>22, <1>23

(***************************************************************************)
(* The earlier neighbours of a slot are neighbours of one another.         *)
(***************************************************************************)
LEMMA EarlierNeighboursMeet ==
    ASSUME TypeOK, OrderDistinct, OrderPrefers, Chordal(fn),
           NEW k \in DOMAIN order, NEW a \in 1 .. k - 1, NEW b \in 1 .. k - 1, a # b,
           Joined(a, k), Joined(b, k)
    PROVE  Joined(a, b)
<1>1. /\ Len(order) \in Nat /\ DOMAIN order = 1 .. Len(order)
      /\ \A x, y \in DOMAIN order : Joined(x, y) <=> Joined(y, x)
      /\ \A x \in DOMAIN order : ~Joined(x, x)
  BY JoinedFacts
<1>2. ASSUME NEW x \in 1 .. k - 1, NEW y \in 1 .. k - 1, y < x, Joined(x, k), Joined(y, k), ~Joined(x, y)
      PROVE  FALSE
  <2> DEFINE p == [i \in 0 .. 2 |-> IF i = 0 THEN x ELSE IF i = 1 THEN k ELSE y]
  <2>1. x \in DOMAIN order /\ y \in DOMAIN order /\ x < k /\ x \in Nat /\ y \in Nat /\ k \in Nat
    BY <1>1
  <2>2. p[0] = x /\ p[1] = k /\ p[2] = y /\ p \in [0 .. 2 -> DOMAIN order]
    BY <2>1
  <2> HIDE DEF p
  <2>3. \A i \in 0 .. 2 : i = 0 \/ i = 1 \/ i = 2
    OBVIOUS
  <2>4. Joined(k, x) /\ Joined(k, y) /\ ~Joined(y, x) /\ ~Joined(x, x) /\ ~Joined(y, y) /\ ~Joined(k, k)
    BY <1>1, <1>2, <2>1
  <2>5. \A i, j \in 0 .. 2 : p[i] = p[j] => i = j
    BY <1>2, <2>1, <2>2, <2>3
  <2>6. \A i, j \in 0 .. 2 : Joined(p[i], p[j]) <=> (i = j + 1 \/ j = i + 1)
    <3> SUFFICES ASSUME NEW i \in 0 .. 2, NEW j \in 0 .. 2
                 PROVE  Joined(p[i], p[j]) <=> (i = j + 1 \/ j = i + 1)
      OBVIOUS
    <3>1. CASE i = 0
      BY <1>2, <2>2, <2>3, <2>4, <3>1
    <3>2. CASE i = 1
      BY <1>2, <2>2, <2>3, <2>4, <3>2
    <3>3. CASE i = 2
      BY <1>2, <2>2, <2>3, <2>4, <3>3
    <3> QED
      BY <2>3, <3>1, <3>2, <3>3
  <2>7. Path(p, 2)
    BY <2>2, <2>5, <2>6 DEF Path
  <2>8. Hangs(p, 2)
    BY <1>2, <2>1, <2>2 DEF Hangs
  <2> QED
    BY <2>7, <2>8, NothingHangs
<1>3. a \in DOMAIN order /\ b \in DOMAIN order /\ (a < b \/ b < a)
  BY <1>1
<1>4. CASE a < b
  BY <1>1, <1>2, <1>3, <1>4
<1>5. CASE b < a
  BY <1>1, <1>2, <1>3, <1>5
<1> QED
  BY <1>3, <1>4, <1>5

(***************************************************************************)
(* The order has this form because the weight of a slot is the number of   *)
(* its neighbours that were visited; and a slot with a colour has in front *)
(* of it a neighbour of every smaller colour.                              *)
(***************************************************************************)
Earlier(w) == {k \in DOMAIN order : Adjacent(fn, order[k], w)}

OrderWeights ==
    phase = "order" => \A w \in Vertices(fn) \ Visited : weights[w] = Cardinality(Earlier(w))

OrderFull == phase = "color" => Vertices(fn) \subseteq Visited

ColorsInFront ==
    \A k \in DOMAIN order : order[k] \in Coloured =>
        /\ \A j \in 1 .. k - 1 : order[j] \in Coloured
        /\ \A d \in Nat : d < color[order[k]] =>
               \E j \in 1 .. k - 1 : Joined(j, k) /\ color[order[j]] = d

OrderInv ==
    ColorInv /\ OrderDistinct /\ OrderPrefers /\ OrderWeights /\ OrderFull /\ ColorsInFront

(* A slot has finitely many earlier neighbours. *)
LEMMA EarlierFinite ==
    ASSUME TypeOK, NEW w
    PROVE  IsFiniteSet(Earlier(w)) /\ Cardinality(Earlier(w)) \in Nat
<1>1. Len(order) \in Nat /\ DOMAIN order = 1 .. Len(order)
  BY WorkFacts
<1>2. IsFiniteSet(1 .. Len(order))
  BY <1>1, FS_Interval
<1>3. IsFiniteSet(Earlier(w))
  BY <1>1, <1>2, FS_Subset DEF Earlier
<1> QED
  BY <1>3, FS_CardinalityType

(* What is chosen is adjacent to no less than what is not. *)
LEMMA ChosenIsPreferred ==
    ASSUME OrderInv, NEW v \in Slot, Visit(v),
           NEW w \in Vertices(fn) \ Visited, NEW a \in Earlier(w), a \notin Earlier(v)
    PROVE  \E d \in Earlier(v) : d \notin Earlier(w)
<1>1. TypeOK
  BY DEF OrderInv, ColorInv, IInv
<1>2. SUFFICES ASSUME Earlier(v) \subseteq Earlier(w) PROVE FALSE
  OBVIOUS
<1>3. /\ IsFiniteSet(Earlier(w)) /\ Cardinality(Earlier(w)) \in Nat
      /\ IsFiniteSet(Earlier(v)) /\ Cardinality(Earlier(v)) \in Nat
  BY <1>1, EarlierFinite
<1>4. IsFiniteSet(Earlier(w) \ {a}) /\ Cardinality(Earlier(w) \ {a}) = Cardinality(Earlier(w)) - 1
  BY <1>3, FS_RemoveElement
<1>5. Earlier(v) \subseteq Earlier(w) \ {a}
  BY <1>2
<1>6. Cardinality(Earlier(v)) <= Cardinality(Earlier(w) \ {a})
  BY <1>4, <1>5, FS_Subset
<1>7. /\ weights[v] = Cardinality(Earlier(v)) /\ weights[w] = Cardinality(Earlier(w))
      /\ weights[v] > weights[w] \/ weights[v] = weights[w]
  BY DEF OrderInv, OrderWeights, Visit, MaxNode
<1> QED
  BY <1>3, <1>4, <1>6, <1>7

(* What a turn of the loop of MCSOrder does to the order. *)
LEMMA VisitOrder ==
    ASSUME OrderInv, NEW v \in Slot, Visit(v)
    PROVE  /\ Len(order) \in Nat /\ DOMAIN order = 1 .. Len(order)
           /\ DOMAIN order' = 1 .. Len(order) + 1
           /\ \A k \in 1 .. Len(order) : order'[k] = order[k]
           /\ order'[Len(order) + 1] = v
           /\ v \in Vertices(fn) /\ v \notin Visited /\ Visited' = Visited \cup {v}
           /\ graph' = graph /\ fn' = fn /\ phase' = phase /\ phase = "order"
           /\ color' = color /\ Coloured = {}
<1>1. /\ TypeOK /\ order \in Seq(Slot) /\ Len(order) \in Nat /\ DOMAIN order = 1 .. Len(order)
  BY WorkFacts DEF OrderInv, ColorInv, IInv
<1>2. /\ order' = Append(order, v) /\ v \in Vertices(fn) \ Visited
      /\ graph' = graph /\ fn' = fn /\ phase' = phase /\ phase = "order" /\ color' = color
  BY DEF Visit, MaxNode
<1>3. /\ DOMAIN order' = 1 .. Len(order) + 1
      /\ \A k \in 1 .. Len(order) : order'[k] = order[k]
      /\ order'[Len(order) + 1] = v
  BY <1>1, <1>2
<1>4. Visited' = Visited \cup {v}
  <2>1. Visited' = {order'[k] : k \in DOMAIN order'}
    BY DEF Visited
  <2> QED
    BY <1>1, <1>3, <2>1 DEF Visited
<1>5. Coloured = {}
  BY <1>2 DEF OrderInv, ColorInv, IInv, NoStaleColor
<1> QED
  BY <1>1, <1>2, <1>3, <1>4, <1>5

(* It adds to the weights just where it adds an earlier neighbour. *)
LEMMA VisitWeights ==
    ASSUME OrderInv, NEW v \in Slot, Visit(v)
    PROVE  OrderWeights'
<1> DEFINE L == Len(order)
<1>1. /\ L \in Nat /\ DOMAIN order = 1 .. L /\ DOMAIN order' = 1 .. L + 1
      /\ \A k \in 1 .. L : order'[k] = order[k]
      /\ order'[L + 1] = v /\ Visited' = Visited \cup {v}
      /\ graph' = graph /\ fn' = fn /\ phase = "order"
  BY VisitOrder
<1>2. TypeOK /\ Vertices(fn) \subseteq Slot
  BY WorkFacts DEF OrderInv, ColorInv, IInv
<1> HIDE DEF L
<1>3. ASSUME NEW w \in Vertices(fn) \ (Visited \cup {v})
      PROVE  weights'[w] = Cardinality({k \in 1 .. L + 1 : Adjacent(fn, order'[k], w)})
  <2> DEFINE E == {k \in 1 .. L + 1 : Adjacent(fn, order'[k], w)}
  <2>1. weights[w] = Cardinality(Earlier(w)) /\ IsFiniteSet(Earlier(w))
    BY <1>1, <1>2, EarlierFinite DEF OrderInv, OrderWeights
  <2>2. weights'[w] = IF Adjacent(fn, v, w) THEN weights[w] + 1 ELSE weights[w]
    BY <1>2 DEF Visit
  <2>3. L + 1 \notin Earlier(w)
    BY <1>1 DEF Earlier
  <2>4. \A k \in 1 .. L + 1 : k \in 1 .. L \/ k = L + 1
    BY <1>1
  <2>5. 1 .. L \subseteq 1 .. L + 1 /\ L + 1 \in 1 .. L + 1
    BY <1>1
  <2>6. CASE Adjacent(fn, v, w)
    <3>1. E = Earlier(w) \cup {L + 1}
      BY <1>1, <2>4, <2>5, <2>6 DEF Earlier
    <3>2. Cardinality(E) = Cardinality(Earlier(w)) + 1
      BY <2>1, <2>3, <3>1, FS_AddElement
    <3> QED
      BY <2>1, <2>2, <2>6, <3>2
  <2>7. CASE ~Adjacent(fn, v, w)
    <3>1. E = Earlier(w)
      BY <1>1, <2>4, <2>5, <2>7 DEF Earlier
    <3> QED
      BY <2>1, <2>2, <2>7, <3>1
  <2> QED
    BY <2>6, <2>7
<1> QED
  <2>1. \A w : Earlier(w)' = {k \in 1 .. L + 1 : Adjacent(fn, order'[k], w)}
    BY <1>1 DEF Earlier, Adjacent
  <2>2. Vertices(fn)' = Vertices(fn)
    BY <1>1 DEF Vertices
  <2> QED
    BY <1>1, <1>3, <2>1, <2>2 DEF OrderWeights

(* The order with one slot more is still of the form OrderPrefers. *)
LEMMA VisitPrefers ==
    ASSUME OrderInv, NEW v \in Slot, Visit(v)
    PROVE  OrderDistinct' /\ OrderPrefers'
<1> DEFINE L == Len(order)
<1>1. /\ L \in Nat /\ DOMAIN order = 1 .. L /\ DOMAIN order' = 1 .. L + 1
      /\ \A k \in 1 .. L : order'[k] = order[k]
      /\ order'[L + 1] = v /\ v \in Vertices(fn) /\ v \notin Visited
      /\ graph' = graph /\ fn' = fn
  BY VisitOrder
<1> HIDE DEF L
<1>2. \A k \in 1 .. L + 1 : k \in 1 .. L \/ k = L + 1
  BY <1>1
<1>3. \A k \in 1 .. L : order[k] # v
  BY <1>1 DEF Visited
<1>4. OrderDistinct'
  <2>1. \A k \in 1 .. L + 1 : order'[k] \in Vertices(fn)
    BY <1>1, <1>2 DEF OrderInv, OrderDistinct
  <2>2. \A j, k \in 1 .. L + 1 : order'[j] = order'[k] => j = k
    BY <1>1, <1>2, <1>3 DEF OrderInv, OrderDistinct
  <2> QED
    BY <1>1, <2>1, <2>2 DEF OrderDistinct, Vertices
<1>5. ASSUME NEW b \in 1 .. L + 1, NEW w \in Vertices(fn), \A c \in 1 .. b : order'[c] # w,
             NEW a \in 1 .. b - 1, Adjacent(fn, order'[a], w), ~Adjacent(fn, order'[a], order'[b])
      PROVE  \E d \in 1 .. b - 1 : Adjacent(fn, order'[d], order'[b]) /\ ~Adjacent(fn, order'[d], w)
  <2>1. CASE b \in 1 .. L
    <3>1. \A c \in 1 .. b : c \in 1 .. L
      BY <1>1, <2>1
    <3>2. \A c \in 1 .. b - 1 : c \in 1 .. L
      BY <1>1, <2>1
    <3>3. Preferred(b, w)
      BY <1>1, <1>5, <2>1, <3>1 DEF OrderInv, OrderPrefers
    <3>4. Adjacent(fn, order[a], w) /\ ~Joined(a, b)
      BY <1>1, <1>5, <2>1, <3>2 DEF Joined
    <3>5. PICK d \in 1 .. b - 1 : Joined(d, b) /\ ~Adjacent(fn, order[d], w)
      BY <3>3, <3>4 DEF Preferred
    <3> QED
      BY <1>1, <2>1, <3>2, <3>5 DEF Joined
  <2>2. CASE b = L + 1
    <3>1. b - 1 = L /\ order'[b] = v /\ \A c \in 1 .. L : c \in 1 .. b
      BY <1>1, <2>2
    <3>2. w \notin Visited
      BY <1>1, <1>5, <3>1 DEF Visited
    <3>3. a \in Earlier(w) /\ a \notin Earlier(v)
      BY <1>1, <1>5, <3>1 DEF Earlier
    <3>4. PICK d \in Earlier(v) : d \notin Earlier(w)
      BY <3>2, <3>3, ChosenIsPreferred
    <3>5. d \in 1 .. L /\ Adjacent(fn, order[d], v) /\ ~Adjacent(fn, order[d], w)
      BY <1>1, <3>4 DEF Earlier
    <3> QED
      BY <1>1, <3>1, <3>5
  <2> QED
    BY <1>2, <2>1, <2>2
<1>6. OrderPrefers'
  BY <1>1, <1>5 DEF OrderPrefers, Preferred, Joined, Adjacent, Vertices
<1> QED
  BY <1>4, <1>6

(* A step that keeps the order keeps what is defined by it. *)
LEMMA SameFacts ==
    ASSUME UNCHANGED <<graph, fn, order>>
    PROVE  /\ \A u, w : Adjacent(fn, u, w)' <=> Adjacent(fn, u, w)
           /\ Vertices(fn)' = Vertices(fn)
           /\ Visited' = Visited
           /\ \A a, b : Joined(a, b)' <=> Joined(a, b)
           /\ \A b, w : Preferred(b, w)' <=> Preferred(b, w)
           /\ \A w : Earlier(w)' = Earlier(w)
<1>1. \A u, w : Adjacent(fn, u, w)' <=> Adjacent(fn, u, w)
  BY DEF Adjacent
<1>2. Vertices(fn)' = Vertices(fn)
  BY DEF Vertices
<1>3. Visited' = Visited
  BY DEF Visited
<1>4. \A a, b : Joined(a, b)' <=> Joined(a, b)
  BY DEF Joined, Adjacent
<1>5. \A b, w : Preferred(b, w)' <=> Preferred(b, w)
  BY DEF Preferred, Joined, Adjacent
<1>6. \A w : Earlier(w)' = Earlier(w)
  BY DEF Earlier, Adjacent
<1> QED
  BY <1>1, <1>2, <1>3, <1>4, <1>5, <1>6

(* The other steps keep the order or start one anew. *)
LEMMA SameOrder ==
    ASSUME OrderInv, UNCHANGED <<graph, fn, order, weights, color>>, ColorInv',
           phase' = phase \/ (phase = "order" /\ phase' = "color" /\ Vertices(fn) \subseteq Visited)
    PROVE  OrderInv'
<1>1. /\ Vertices(fn)' = Vertices(fn) /\ Visited' = Visited
      /\ \A a, b : Joined(a, b)' <=> Joined(a, b)
      /\ \A b, w : Preferred(b, w)' <=> Preferred(b, w)
      /\ \A w : Earlier(w)' = Earlier(w)
  BY SameFacts
<1>2. Coloured' = Coloured
  BY DEF Coloured
<1>3. OrderDistinct' /\ OrderFull'
  BY <1>1 DEF OrderInv, OrderDistinct, OrderFull
<1>4. OrderPrefers'
  BY <1>1 DEF OrderInv, OrderPrefers
<1>5. OrderWeights'
  BY <1>1 DEF OrderInv, OrderWeights
<1>6. ColorsInFront'
  BY <1>1, <1>2 DEF OrderInv, ColorsInFront
<1> QED
  BY <1>3, <1>4, <1>5, <1>6 DEF OrderInv

(* An empty order, of a function that MCSOrder begins or of none at all. *)
LEMMA NoOrder ==
    ASSUME order' = << >>, \A w \in Slot : phase' = "order" => weights'[w] = 0,
           phase' # "color", ColorInv'
    PROVE  OrderInv'
<1>1. DOMAIN order' = {}
  OBVIOUS
<1>2. OrderDistinct' /\ OrderPrefers' /\ OrderFull' /\ ColorsInFront'
  BY <1>1 DEF OrderDistinct, OrderPrefers, OrderFull, ColorsInFront
<1>3. OrderWeights'
  <2>1. graph' \in Programs /\ fn' \in Func
    BY DEF ColorInv, IInv, TypeOK
  <2>2. (Vertices(fn) \subseteq Slot)'
    <3>1. graph'[fn'] \in Graph
      BY <2>1, ProgramsAssumption
    <3>2. graph'[fn'].n \in 0 .. NSlots
      BY <3>1 DEF Graph
    <3> QED
      BY <3>2, NSlotsAssumption DEF Vertices, Slot
  <2>3. \A w : Earlier(w)' = {}
    BY <1>1 DEF Earlier
  <2> QED
    BY <2>2, <2>3, FS_EmptySet DEF OrderWeights
<1> QED
  BY <1>2, <1>3 DEF OrderInv

(* The least free colour of a slot is taken up to it by earlier neighbours. *)
LEMMA ColorOrder ==
    ASSUME OrderInv, NEW v \in Slot, Color(v), ColorInv'
    PROVE  OrderInv'
<1>1. /\ TypeOK /\ Len(order) \in Nat /\ DOMAIN order = 1 .. Len(order)
      /\ color \in [Slot -> Slot \cup {NoColor}] /\ NoColor \notin Nat
      /\ Vertices(fn) \subseteq Slot /\ Slot \subseteq Nat
  BY WorkFacts DEF OrderInv, ColorInv, IInv
<1>2. /\ UNCHANGED <<graph, fn, order, weights, phase>> /\ phase = "color"
      /\ v \notin Coloured
  BY DEF Color
<1>3. PICK k \in DOMAIN order : order[k] = v /\ \A j \in 1 .. k - 1 : order[j] \in Coloured
  BY DEF Color
<1>4. PICK c \in Slot : Smallest(c, v) /\ color' = [color EXCEPT ![v] = c]
  BY DEF Color
<1>5. /\ \A s \in Slot : s # v => color'[s] = color[s]
      /\ color'[v] = c /\ c \in Nat
      /\ Coloured' = Coloured \cup {v}
  <2>1. /\ \A s \in Slot : s # v => color'[s] = color[s]
        /\ color'[v] = c /\ c \in Nat /\ c # NoColor
    BY <1>1, <1>4
  <2>2. Coloured' = {s \in Slot : color'[s] # NoColor}
    BY DEF Coloured
  <2> QED
    BY <2>1, <2>2 DEF Coloured
<1>6. \A l \in DOMAIN order : order[l] \in Coloured => l < k
  <2> SUFFICES ASSUME NEW l \in DOMAIN order, order[l] \in Coloured, ~(l < k) PROVE FALSE
    OBVIOUS
  <2>1. l = k \/ k \in 1 .. l - 1
    BY <1>1
  <2>2. order[k] \in Coloured
    BY <2>1 DEF OrderInv, ColorsInFront
  <2> QED
    BY <1>2, <1>3, <2>2
<1>7. ASSUME NEW d \in Nat, d < c
      PROVE  \E j \in 1 .. k - 1 : Joined(j, k) /\ color[order[j]] = d
  <2>1. d \in NeighborColors(v)
    BY <1>5, <1>4, <1>7 DEF Smallest
  <2>2. PICK u \in Vertices(fn) : Adjacent(fn, u, v) /\ color[u] = d
    BY <2>1 DEF NeighborColors
  <2>3. u \in Coloured /\ u \in Visited
    BY <1>1, <1>2, <2>2 DEF Coloured, OrderInv, OrderFull
  <2>4. PICK j \in DOMAIN order : u = order[j]
    BY <2>3 DEF Visited
  <2>5. j \in 1 .. k - 1
    BY <1>1, <1>6, <2>3, <2>4
  <2> QED
    BY <1>3, <2>2, <2>4, <2>5 DEF Joined
<1>8. \A l \in DOMAIN order : order[l] = v => l = k
  BY <1>3 DEF OrderInv, OrderDistinct
<1>9. ASSUME NEW l \in DOMAIN order, order[l] \in Coloured \cup {v}
      PROVE  /\ \A j \in 1 .. l - 1 : order[j] \in Coloured \cup {v}
             /\ \A d \in Nat : d < color'[order[l]] =>
                    \E j \in 1 .. l - 1 : Joined(j, l) /\ color'[order[j]] = d
  <2>1. \A j \in 1 .. l - 1 : j \in DOMAIN order /\ order[j] \in Slot
    BY <1>1 DEF OrderInv, OrderDistinct
  <2>2. CASE order[l] = v
    <3>1. l = k
      BY <1>8, <2>2
    <3>2. \A j \in 1 .. k - 1 : order[j] # v
      BY <1>2, <1>3
    <3>3. \A j \in 1 .. l - 1 : color'[order[j]] = color[order[j]]
      BY <1>5, <2>1, <3>1, <3>2
    <3> QED
      BY <1>3, <1>5, <1>7, <2>2, <3>1, <3>3
  <2>3. CASE order[l] \in Coloured
    <3>1. /\ \A j \in 1 .. l - 1 : order[j] \in Coloured
          /\ \A d \in Nat : d < color[order[l]] =>
                 \E j \in 1 .. l - 1 : Joined(j, l) /\ color[order[j]] = d
      BY <2>3 DEF OrderInv, ColorsInFront
    <3>2. \A s \in Coloured : color'[s] = color[s]
      BY <1>2, <1>5 DEF Coloured
    <3> QED
      BY <2>3, <3>1, <3>2
  <2> QED
    BY <1>9, <2>2, <2>3
<1>10. /\ Vertices(fn)' = Vertices(fn) /\ Visited' = Visited
       /\ \A a, b : Joined(a, b)' <=> Joined(a, b)
       /\ \A b, w : Preferred(b, w)' <=> Preferred(b, w)
       /\ \A w : Earlier(w)' = Earlier(w)
  BY <1>2, SameFacts
<1>11. ColorsInFront'
  BY <1>2, <1>5, <1>9, <1>10 DEF ColorsInFront
<1>12. OrderDistinct' /\ OrderFull'
  BY <1>2, <1>10 DEF OrderInv, OrderDistinct, OrderFull
<1>13. OrderPrefers'
  BY <1>2, <1>10 DEF OrderInv, OrderPrefers
<1>14. OrderWeights'
  BY <1>2, <1>10 DEF OrderInv, OrderWeights
<1> QED
  BY <1>11, <1>12, <1>13, <1>14 DEF OrderInv

(* OrderInv is inductive. *)
LEMMA OrderInvInit == Init => OrderInv
<1> SUFFICES ASSUME Init PROVE OrderInv
  OBVIOUS
<1>1. ColorInv /\ TypeOK
  BY ColorInvInit, InitIInv DEF IInv
<1>2. order = << >> /\ DOMAIN order = {} /\ phase = "order"
  BY DEF Init
<1>3. OrderDistinct /\ OrderPrefers /\ OrderFull /\ ColorsInFront
  BY <1>2 DEF OrderDistinct, OrderPrefers, OrderFull, ColorsInFront
<1>4. OrderWeights
  <2>1. \A w : Earlier(w) = {}
    BY <1>2 DEF Earlier
  <2>2. \A w \in Vertices(fn) : weights[w] = 0
    BY <1>1, WorkFacts DEF Init
  <2> QED
    BY <2>1, <2>2, FS_EmptySet DEF OrderWeights
<1> QED
  BY <1>1, <1>3, <1>4 DEF OrderInv

LEMMA OrderInvStep == OrderInv /\ [Next]_vars => OrderInv'
<1> SUFFICES ASSUME OrderInv, [Next]_vars PROVE OrderInv'
  OBVIOUS
<1>1. ColorInv'
  BY ColorInvStep DEF OrderInv
<1>2. CASE \E v \in Slot : Visit(v)
  <2>1. PICK v \in Slot : Visit(v)
    BY <1>2
  <2>2. OrderWeights' /\ OrderDistinct' /\ OrderPrefers'
    BY <2>1, VisitWeights, VisitPrefers
  <2>3. phase' = "order" /\ Coloured = {} /\ color' = color
    BY <2>1, VisitOrder
  <2>4. OrderFull' /\ ColorsInFront'
    BY <2>3 DEF OrderFull, ColorsInFront, Coloured
  <2> QED
    BY <1>1, <2>2, <2>4 DEF OrderInv
<1>3. CASE Ordered
  BY <1>1, <1>3, SameOrder DEF Ordered
<1>4. CASE \E v \in Slot : Color(v)
  BY <1>1, <1>4, ColorOrder
<1>5. CASE AllocRegister
  BY <1>1, <1>5, NoOrder DEF AllocRegister, Proceed
<1>6. CASE Emit
  <2>1. order = << >> /\ order' = order /\ phase' \in {"emit", "done"}
    BY <1>6 DEF Emit, OrderInv, ColorInv, OrderOfFunction, Allocating
  <2> QED
    BY <1>1, <2>1, NoOrder
<1>7. CASE UNCHANGED vars
  BY <1>1, <1>7, SameOrder DEF vars
<1> QED
  BY <1>2, <1>3, <1>4, <1>5, <1>6, <1>7 DEF Next

(* A bounded set of natural numbers that is not empty has a greatest one. *)
LEMMA GreatestNumber ==
    ASSUME NEW S \in SUBSET Nat, S # {}, NEW n \in Nat, \A a \in S : a < n
    PROVE  \E a \in S : \A b \in S : b <= a
<1> DEFINE U == {u \in Nat : \A b \in S : b <= u}
<1>1. n \in U /\ U \in SUBSET Nat /\ U # {}
  <2>1. n \in U
    OBVIOUS
  <2> QED
    BY <2>1
<1> HIDE DEF U
<1>2. PICK u \in U : \A w \in U : u <= w
  BY <1>1, LeastNumber
<1>3. u \in Nat /\ \A b \in S : b <= u
  BY DEF U
<1>4. ASSUME u \notin S PROVE FALSE
  <2>1. \A b \in S : b \in Nat /\ b < u
    BY <1>3, <1>4
  <2>2. PICK b \in S : TRUE
    OBVIOUS
  <2> DEFINE w == u - 1
  <2>3. w \in Nat /\ w < u /\ \A a \in S : a <= w
    BY <1>3, <2>1, <2>2
  <2>4. w \in U
    BY <2>3 DEF U
  <2> QED
    BY <1>2, <1>3, <2>3, <2>4
<1> QED
  BY <1>3, <1>4

(***************************************************************************)
(* The clique that FewestColors asks for: the slot with the greatest       *)
(* colour and in front of it one neighbour of every other colour.          *)
(***************************************************************************)
LEMMA CliqueOfAllColors ==
    ASSUME OrderInv, phase = "color", Vertices(fn) \subseteq Coloured, Chordal(fn),
           NEW k \in DOMAIN order,
           \A v \in Vertices(fn) : color[v] <= color[order[k]]
    PROVE  \E S \in Cliques(fn) :
               Cardinality(S) = Cardinality({color[v] : v \in Vertices(fn)})
<1> DEFINE m == color[order[k]]
<1>1. /\ TypeOK /\ OrderDistinct /\ OrderPrefers
      /\ Len(order) \in Nat /\ DOMAIN order = 1 .. Len(order)
      /\ color \in [Slot -> Slot \cup {NoColor}]
      /\ Vertices(fn) \subseteq Slot /\ Slot \subseteq Nat
      /\ \A a \in DOMAIN order : order[a] \in Vertices(fn)
  BY WorkFacts DEF OrderInv, ColorInv, IInv, OrderDistinct
<1>2. \A v \in Vertices(fn) : color[v] \in Nat
  BY <1>1 DEF Coloured
<1>3. m \in Nat /\ \A v \in Vertices(fn) : color[v] <= m
  BY <1>1, <1>2
<1>4. \A d \in Nat : d < m => \E j \in 1 .. k - 1 : Joined(j, k) /\ color[order[j]] = d
  BY <1>1 DEF OrderInv, ColorsInFront
<1> HIDE DEF m
<1> DEFINE h == [d \in 0 .. m |-> IF d = m THEN k
                    ELSE CHOOSE j \in 1 .. k - 1 : Joined(j, k) /\ color[order[j]] = d]
           C == {order[h[d]] : d \in 0 .. m}
           f == [d \in 0 .. m |-> order[h[d]]]
<1>5. /\ h[m] = k
      /\ \A d \in 0 .. m : d # m =>
             h[d] \in 1 .. k - 1 /\ Joined(h[d], k) /\ color[order[h[d]]] = d
  <2>1. h[m] = k
    BY <1>3
  <2>2. ASSUME NEW d \in 0 .. m, d # m
        PROVE  h[d] \in 1 .. k - 1 /\ Joined(h[d], k) /\ color[order[h[d]]] = d
    <3>1. \E j \in 1 .. k - 1 : Joined(j, k) /\ color[order[j]] = d
      BY <1>3, <1>4, <2>2
    <3>2. h[d] = CHOOSE j \in 1 .. k - 1 : Joined(j, k) /\ color[order[j]] = d
      BY <2>2
    <3> QED
      BY <3>1, <3>2
  <2> QED
    BY <2>1, <2>2
<1> HIDE DEF h
<1>6. \A d \in 0 .. m : h[d] \in DOMAIN order /\ color[order[h[d]]] = d
  BY <1>1, <1>5 DEF m
<1>7. \A d, e \in 0 .. m : d # e => Joined(h[d], h[e])
  <2> SUFFICES ASSUME NEW d \in 0 .. m, NEW e \in 0 .. m, d # e
               PROVE  Joined(h[d], h[e])
    OBVIOUS
  <2>1. h[d] # h[e]
    BY <1>6
  <2>2. CASE d # m /\ e # m
    BY <1>1, <1>5, <2>1, <2>2, EarlierNeighboursMeet
  <2>3. CASE d = m
    <3>1. Joined(h[e], k) /\ h[d] = k
      BY <1>5, <2>3
    <3> QED
      BY <1>1, <1>6, <3>1, JoinedFacts
  <2>4. CASE e = m
    <3>1. Joined(h[d], k) /\ h[e] = k
      BY <1>5, <2>4
    <3> QED
      BY <3>1
  <2> QED
    BY <2>2, <2>3, <2>4
<1>8. C \in Cliques(fn)
  <2>1. C \in SUBSET Vertices(fn)
    BY <1>1, <1>6
  <2>2. \A d, e \in 0 .. m : order[h[d]] = order[h[e]] \/ Adjacent(fn, order[h[d]], order[h[e]])
    BY <1>7 DEF Joined
  <2>3. \A u, v \in C : u = v \/ Adjacent(fn, u, v)
    BY <2>2
  <2> QED
    BY <2>1, <2>3 DEF Cliques
<1>9. {color[v] : v \in Vertices(fn)} = 0 .. m
  <2>1. \A d \in 0 .. m : d \in {color[v] : v \in Vertices(fn)}
    BY <1>1, <1>6
  <2>2. \A v \in Vertices(fn) : color[v] \in 0 .. m
    BY <1>2, <1>3
  <2> QED
    BY <2>1, <2>2
<1>10. f \in Bijection(0 .. m, C)
  <2>1. \A d, e \in 0 .. m : f[d] = f[e] => d = e
    BY <1>6
  <2>2. f \in [0 .. m -> C] /\ \A u \in C : \E d \in 0 .. m : f[d] = u
    OBVIOUS
  <2> HIDE DEF f, C
  <2> QED
    BY <2>1, <2>2 DEF Bijection, Injection, Surjection, IsInjective
<1>11. IsFiniteSet(0 .. m)
  BY <1>3, FS_Interval
<1> HIDE DEF f, C
<1>12. Cardinality(C) = Cardinality(0 .. m)
  BY <1>10, <1>11, FS_Bijection DEF ExistsBijection
<1> QED
  BY <1>8, <1>9, <1>12

(* Without slots the clique is the empty one. *)
LEMMA OrderInvFewest == OrderInv => FewestColors
<1> SUFFICES ASSUME OrderInv, phase = "color", Vertices(fn) \subseteq Coloured, Chordal(fn)
             PROVE  \E S \in Cliques(fn) :
                        Cardinality(S) = Cardinality({color[v] : v \in Vertices(fn)})
  BY DEF FewestColors
<1>1. /\ color \in [Slot -> Slot \cup {NoColor}]
      /\ Vertices(fn) \subseteq Slot /\ Slot \subseteq Nat
  BY WorkFacts DEF OrderInv, ColorInv, IInv
<1>2. CASE Vertices(fn) = {}
  <2>1. {} \in Cliques(fn) /\ {color[v] : v \in Vertices(fn)} = {}
    BY <1>2 DEF Cliques
  <2> QED
    BY <2>1
<1>3. CASE Vertices(fn) # {}
  <2> DEFINE D == {color[v] : v \in Vertices(fn)}
  <2>1. \A v \in Vertices(fn) : color[v] \in Slot
    BY <1>1 DEF Coloured
  <2>2. D \in SUBSET Nat /\ D # {} /\ \A d \in D : d < NSlots
    BY <1>1, <1>3, <2>1, NSlotsAssumption DEF Slot
  <2>3. PICK d \in D : \A e \in D : e <= d
    <3> HIDE DEF D
    <3> QED
      BY <2>2, GreatestNumber, NSlotsAssumption
  <2>4. PICK v \in Vertices(fn) : color[v] = d
    OBVIOUS
  <2>5. PICK k \in DOMAIN order : v = order[k]
    BY DEF OrderInv, OrderFull, Visited
  <2>6. \A w \in Vertices(fn) : color[w] <= color[order[k]]
    BY <2>3, <2>4, <2>5
  <2> QED
    BY <2>6, CliqueOfAllColors
<1> QED
  BY <1>2, <1>3

(***************************************************************************)
(* Whatever the number of functions and slots, the interference graphs and *)
(* the places of the symbols in memory: when Coloring is through with a    *)
(* chordal graph there are as many colours as the largest clique has       *)
(* slots.                                                                  *)
(***************************************************************************)
THEOREM FewestAlways == Spec => []FewestColors
<1>1. Init => OrderInv
  BY OrderInvInit
<1>2. OrderInv /\ [Next]_vars => OrderInv'
  BY OrderInvStep
<1>3. OrderInv => FewestColors
  BY OrderInvFewest
<1> QED
  BY <1>1, <1>2, <1>3, PTL DEF Spec

=============================================================================
