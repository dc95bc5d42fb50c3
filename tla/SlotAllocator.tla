--------------------------- MODULE SlotAllocator ---------------------------
(***************************************************************************)
(* IRVariableOptimizer::AllocateSlots (core/IRVariableOptimizer.cpp): the  *)
(* linear scan that coalesces the variables of one function into slots.    *)
(*                                                                         *)
(* The live ranges are the input.  The items are taken in the order of     *)
(* (start, end); std::sort leaves items with equal keys in an unspecified  *)
(* order and they come from an unordered_map, so any of them may be next.  *)
(* For every item the scan walks over the active list, moving the slots    *)
(* whose range has ended to the back of the free queue, and then takes the *)
(* front of that queue or a new slot.                                      *)
(***************************************************************************)
EXTENDS Integers, Sequences, FiniteSets

CONSTANTS
    Var,                \* the variables with a live range
    MaxIndex,           \* the index of the last instruction
    NoItem              \* no item is being processed

ASSUME VarAssumption == IsFiniteSet(Var)
ASSUME MaxIndexAssumption == MaxIndex \in Nat
ASSUME NoItemAssumption == NoItem \notin Var

VARIABLES
    live_ranges,        \* input: [start, end] of every variable
    pending,            \* items the outer loop has not finished
    it,                 \* the item of the current iteration, or NoItem
    itr,                \* position of the inner loop in active
    active,             \* sequence of [sym, end]
    free_slots,         \* queue of slots
    slot_count,         \* slots created so far: 0 .. slot_count - 1
    var_to_slot         \* the result, NoSlot for a variable without one

vars == <<live_ranges, pending, it, itr, active, free_slots, slot_count,
          var_to_slot>>

IC == INSTANCE IntervalColoring WITH ranges <- live_ranges, slot <- var_to_slot

NoSlot == -1

LiveRange == {r \in [start : 0 .. MaxIndex, end : 0 .. MaxIndex] :
                  r.start <= r.end}

\* Faulty variant of NotAfter: the items are ordered by their end alone.
NotAfterByEnd(a, b) == live_ranges[a].end <= live_ranges[b].end

ActiveSlot == [sym : Nat, end : Nat]

(***************************************************************************)
(* The comparison std::sort is given: a may be taken before b.             *)
(***************************************************************************)
NotAfter(a, b) ==
    \/ live_ranges[a].start < live_ranges[b].start
    \/ /\ live_ranges[a].start = live_ranges[b].start
       /\ live_ranges[a].end <= live_ranges[b].end

now == live_ranges[it].start

Init ==
    /\ live_ranges \in [Var -> LiveRange]
    /\ pending = Var
    /\ it = NoItem
    /\ itr = 1
    /\ active = << >>
    /\ free_slots = << >>
    /\ slot_count = 0
    /\ var_to_slot = [v \in Var |-> NoSlot]

\* Faulty variant of NextItem: the inner loop does not start over.
NextItemKeepingItr(v) ==
    /\ it = NoItem
    /\ v \in pending
    /\ \A w \in pending : NotAfter(v, w)
    /\ it' = v
    /\ UNCHANGED <<live_ranges, pending, itr, active, free_slots, slot_count,
                   var_to_slot>>

(***************************************************************************)
(* The outer loop takes the next item of the sorted list.                  *)
(***************************************************************************)
NextItem(v) ==
    /\ it = NoItem
    /\ v \in pending
    /\ \A w \in pending : NotAfter(v, w)
    /\ it' = v
    /\ itr' = 1
    /\ UNCHANGED <<live_ranges, pending, active, free_slots, slot_count,
                   var_to_slot>>

Erase(s, k) == [i \in 1 .. Len(s) - 1 |-> IF i < k THEN s[i] ELSE s[i + 1]]

\* Faulty variant of Expired: a range that ends at the current index is over.
ExpiredEarly(a) == a.end <= now

\* The range of an active slot is over when the current item starts.
Expired(a) == a.end < now

InExpireLoop == it # NoItem /\ itr <= Len(active)

ExpireSlot ==
    /\ InExpireLoop
    /\ Expired(active[itr])
    /\ free_slots' = Append(free_slots, active[itr].sym)
    /\ active' = Erase(active, itr)
    /\ UNCHANGED <<live_ranges, pending, it, itr, slot_count, var_to_slot>>

KeepSlot ==
    /\ InExpireLoop
    /\ ~Expired(active[itr])
    /\ itr' = itr + 1
    /\ UNCHANGED <<live_ranges, pending, it, active, free_slots, slot_count,
                   var_to_slot>>

\* Faulty variant of GiveSlot: the item stays in the list.
GiveSlotTwice(s) ==
    /\ var_to_slot' = [var_to_slot EXCEPT ![it] = s]
    /\ active' = Append(active, [sym |-> s, end |-> live_ranges[it].end])
    /\ pending' = pending
    /\ it' = NoItem

(***************************************************************************)
(* The item receives slot s, and its range becomes active.                 *)
(***************************************************************************)
GiveSlot(s) ==
    /\ var_to_slot' = [var_to_slot EXCEPT ![it] = s]
    /\ active' = Append(active, [sym |-> s, end |-> live_ranges[it].end])
    /\ pending' = pending \ {it}
    /\ it' = NoItem

\* Faulty variant of ReuseSlot: the slot stays in the free queue.
ReuseSlotNoPop ==
    /\ it # NoItem /\ itr > Len(active)
    /\ free_slots # << >>
    /\ GiveSlot(Head(free_slots))
    /\ UNCHANGED <<live_ranges, itr, free_slots, slot_count>>

ReuseSlot ==
    /\ it # NoItem /\ itr > Len(active)
    /\ free_slots # << >>
    /\ GiveSlot(Head(free_slots))
    /\ free_slots' = Tail(free_slots)
    /\ UNCHANGED <<live_ranges, itr, slot_count>>

NewSlot ==
    /\ it # NoItem /\ itr > Len(active)
    /\ free_slots = << >>
    /\ GiveSlot(slot_count)
    /\ slot_count' = slot_count + 1
    /\ UNCHANGED <<live_ranges, itr, free_slots>>

Next ==
    \/ \E v \in Var : NextItem(v)
    \/ ExpireSlot
    \/ KeepSlot
    \/ ReuseSlot
    \/ NewSlot

Spec == Init /\ [][Next]_vars

Done == pending = {}

-----------------------------------------------------------------------------
ActiveSyms == {active[k].sym : k \in DOMAIN active}
FreeSyms   == {free_slots[k] : k \in DOMAIN free_slots}

TypeOK ==
    /\ live_ranges \in [Var -> LiveRange]
    /\ pending \in SUBSET Var
    /\ it \in pending \cup {NoItem}
    /\ itr \in Nat \ {0}
    /\ active \in Seq(ActiveSlot)
    /\ free_slots \in Seq(Nat)
    /\ slot_count \in Nat
    /\ var_to_slot \in [Var -> Nat \cup {NoSlot}]
    /\ \A v \in Var : var_to_slot[v] = NoSlot <=> v \in pending

(***************************************************************************)
(* Two variables whose live ranges share an instruction index never share  *)
(* a slot: coalescing (AllocateSlots) cannot make one clobber the other.   *)
(* Ranges that touch at one index overlap: the instruction there reads one *)
(* variable and writes the other.                                          *)
(***************************************************************************)
SlotSafety ==
    \A v, w \in Var \ pending :
        v # w /\ IC!Overlap(live_ranges, v, w)
            => var_to_slot[v] # var_to_slot[w]

(***************************************************************************)
(* No slot is lost or in two places: each of the slots created so far is   *)
(* exactly once in the active list or in the free queue.                   *)
(***************************************************************************)
SlotsPartitioned ==
    /\ ActiveSyms \cup FreeSyms = 0 .. slot_count - 1
    /\ Len(active) + Len(free_slots) = slot_count

(***************************************************************************)
(* A new slot is only made when every existing one is busy: in the end     *)
(* there are as many slots as ranges that meet in one index, the fewest    *)
(* any allocation can do with.                                             *)
(***************************************************************************)
RangesAt(i) == {v \in Var : /\ live_ranges[v].start <= i
                            /\ i <= live_ranges[v].end}
FewestSlots ==
    Done /\ Var # {} =>
        /\ \A i \in 0 .. MaxIndex : Cardinality(RangesAt(i)) <= slot_count
        /\ \E i \in 0 .. MaxIndex : Cardinality(RangesAt(i)) = slot_count

\* AllocateSlots implements the abstract interval colouring.
ImplementsIntervalColoring == IC!Spec

=============================================================================
