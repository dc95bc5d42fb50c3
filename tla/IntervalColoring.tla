-------------------------- MODULE IntervalColoring --------------------------
(***************************************************************************)
(* What slot coalescing promises, with no word on how: variables receive   *)
(* slots one after the other, a variable never receives a slot that a      *)
(* variable with an overlapping live range holds, and what was handed out  *)
(* is never changed.                                                       *)
(*                                                                         *)
(* IRVariableOptimizer::AllocateSlots is one way to do it; the module      *)
(* SlotAllocator models that one and implements this specification.        *)
(***************************************************************************)
EXTENDS Integers

CONSTANT Var            \* the IR variables of one function

VARIABLES
    ranges,             \* the live range of every variable, fixed
    slot                \* the slot of every variable, NoSlot before it has one

icvars == <<ranges, slot>>

NoSlot == -1

Overlap(r, v, w) ==
    /\ r[v].start <= r[w].end
    /\ r[w].start <= r[v].end

Init ==
    /\ ranges \in [Var -> [start : Nat, end : Nat]]
    /\ slot = [v \in Var |-> NoSlot]

(***************************************************************************)
(* v receives a slot that no variable overlapping v has.                   *)
(***************************************************************************)
Assign(v) ==
    /\ slot[v] = NoSlot
    /\ slot'[v] \in Nat
    /\ \A w \in Var : slot[w] = slot'[v] => ~Overlap(ranges, v, w)
    /\ slot' = [slot EXCEPT ![v] = slot'[v]]
    /\ UNCHANGED ranges

Next == \E v \in Var : Assign(v)

Spec == Init /\ [][Next]_icvars

=============================================================================
