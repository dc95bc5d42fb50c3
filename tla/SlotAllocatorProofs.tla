------------------------ MODULE SlotAllocatorProofs ------------------------
(***************************************************************************)
(* SlotAllocator for every set of variables and every live range: the      *)
(* linear scan of AllocateSlots never gives overlapping ranges one slot,   *)
(* never loses a slot, implements IntervalColoring, and opens a slot only  *)
(* when ranges meet in one index that need it.                             *)
(***************************************************************************)
EXTENDS SlotAllocator, FiniteSetTheorems, TLAPS

(***************************************************************************)
(* SlotSafety is not inductive: it does not say why the slot about to be   *)
(* taken is not held by a range that is still open.  The strengthening:    *)
(***************************************************************************)

\* The slots in the active list and the free queue exist, once each.
SlotsDistinct ==
    /\ \A k \in DOMAIN active : active[k].sym < slot_count
    /\ \A k \in DOMAIN free_slots : free_slots[k] < slot_count
    /\ \A j, k \in DOMAIN active : active[j].sym = active[k].sym => j = k
    /\ \A j, k \in DOMAIN free_slots : free_slots[j] = free_slots[k] => j = k
    /\ \A j \in DOMAIN active, k \in DOMAIN free_slots :
           active[j].sym # free_slots[k]

\* A variable whose slot has left the active list ended before every item
\* that is still to come.
Covered(v) ==
    \/ \E k \in DOMAIN active : /\ active[k].sym = var_to_slot[v]
                                /\ active[k].end = live_ranges[v].end
    \/ \A w \in pending : live_ranges[v].end < live_ranges[w].start

Tracked == \A v \in Var \ pending : Covered(v)

\* The items come in the order of their start.
ItemIsFirst ==
    it # NoItem => \A w \in pending : live_ranges[it].start <= live_ranges[w].start

IInv == TypeOK /\ SlotsDistinct /\ Tracked /\ ItemIsFirst /\ SlotSafety

-----------------------------------------------------------------------------
(* What vector::erase leaves of a sequence: every element but the k-th, in *)
(* its old order and at a place of its own.                                *)
LEMMA EraseFacts ==
    ASSUME NEW S, NEW s \in Seq(S), NEW k \in 1 .. Len(s)
    PROVE  /\ Erase(s, k) \in Seq(S)
           /\ DOMAIN Erase(s, k) = 1 .. Len(s) - 1
           /\ \A i \in DOMAIN Erase(s, k) :
                  \E m \in DOMAIN s : m # k /\ Erase(s, k)[i] = s[m]
           /\ \A m \in DOMAIN s : m # k =>
                  \E i \in DOMAIN Erase(s, k) : Erase(s, k)[i] = s[m]
           /\ \A i, j \in DOMAIN Erase(s, k) : i # j =>
                  \E m, n \in DOMAIN s : /\ m # n
                                         /\ Erase(s, k)[i] = s[m]
                                         /\ Erase(s, k)[j] = s[n]
<1> DEFINE e == Erase(s, k)
<1>1. Len(s) \in Nat /\ Len(s) >= 1 /\ DOMAIN s = 1 .. Len(s)
  OBVIOUS
<1>2. e \in Seq(S)
  BY <1>1 DEF Erase
<1>3. DOMAIN e = 1 .. Len(s) - 1
  BY DEF Erase
<1>4. \A i \in DOMAIN e : e[i] = s[IF i < k THEN i ELSE i + 1]
  BY DEF Erase
<1> HIDE DEF e
<1>5. \A i \in DOMAIN e : \E m \in DOMAIN s : m # k /\ e[i] = s[m]
  <2> TAKE i \in DOMAIN e
  <2> DEFINE m == IF i < k THEN i ELSE i + 1
  <2>1. m \in DOMAIN s /\ m # k
    BY <1>1, <1>3
  <2> QED
    BY <2>1, <1>4
<1>6. \A m \in DOMAIN s : m # k => \E i \in DOMAIN e : e[i] = s[m]
  <2> SUFFICES ASSUME NEW m \in DOMAIN s, m # k
               PROVE  \E i \in DOMAIN e : e[i] = s[m]
    OBVIOUS
  <2> DEFINE i == IF m < k THEN m ELSE m - 1
  <2>1. i \in DOMAIN e /\ m = (IF i < k THEN i ELSE i + 1)
    BY <1>1, <1>3
  <2>2. e[i] = s[m]
    BY <2>1, <1>4
  <2> QED
    BY <2>1, <2>2
<1>7. \A i, j \in DOMAIN e : i # j =>
          \E m, n \in DOMAIN s : m # n /\ e[i] = s[m] /\ e[j] = s[n]
  <2> SUFFICES ASSUME NEW i \in DOMAIN e, NEW j \in DOMAIN e, i # j
               PROVE  \E m, n \in DOMAIN s :
                          m # n /\ e[i] = s[m] /\ e[j] = s[n]
    OBVIOUS
  <2> DEFINE m == IF i < k THEN i ELSE i + 1
             n == IF j < k THEN j ELSE j + 1
  <2>1. m \in DOMAIN s /\ n \in DOMAIN s /\ m # n
    BY <1>1, <1>3
  <2>2. e[i] = s[m] /\ e[j] = s[n]
    BY <1>4
  <2> QED
    BY <2>1, <2>2
<1> QED
  BY <1>2, <1>3, <1>5, <1>6, <1>7 DEF e

(* Appending to a sequence keeps its elements in place. *)
LEMMA AppendFacts ==
    ASSUME NEW S, NEW s \in Seq(S), NEW x \in S
    PROVE  /\ Append(s, x) \in Seq(S)
           /\ Len(s) \in Nat
           /\ DOMAIN s = 1 .. Len(s)
           /\ DOMAIN Append(s, x) = DOMAIN s \cup {Len(s) + 1}
           /\ Len(s) + 1 \notin DOMAIN s
           /\ \A i \in DOMAIN s : Append(s, x)[i] = s[i]
           /\ Append(s, x)[Len(s) + 1] = x
OBVIOUS

(* Popping the front of a queue keeps the other elements, one place down. *)
LEMMA TailFacts ==
    ASSUME NEW S, NEW s \in Seq(S), s # << >>
    PROVE  /\ Head(s) \in S
           /\ Tail(s) \in Seq(S)
           /\ 1 \in DOMAIN s
           /\ Head(s) = s[1]
           /\ \A i \in DOMAIN Tail(s) : /\ i + 1 \in DOMAIN s
                                         /\ i + 1 # 1
                                         /\ Tail(s)[i] = s[i + 1]
           /\ \A i, j \in DOMAIN Tail(s) : i + 1 = j + 1 => i = j
OBVIOUS

(* The live ranges are pairs of instruction indices, start before end. *)
LEMMA RangeFacts ==
    ASSUME TypeOK
    PROVE  \A v \in Var : /\ live_ranges[v].start \in Nat
                          /\ live_ranges[v].end \in Nat
                          /\ live_ranges[v].start <= live_ranges[v].end
<1> SUFFICES ASSUME NEW v \in Var
             PROVE  /\ live_ranges[v].start \in Nat
                    /\ live_ranges[v].end \in Nat
                    /\ live_ranges[v].start <= live_ranges[v].end
  OBVIOUS
<1>1. live_ranges[v] \in LiveRange
  BY DEF TypeOK
<1> QED
  BY <1>1, MaxIndexAssumption DEF LiveRange

(* In the initial states of the scan the inductive invariant holds. *)
LEMMA InitIInv == Init => IInv
BY NoItemAssumption
   DEF Init, IInv, TypeOK, SlotsDistinct, Tracked, Covered, ItemIsFirst,
       SlotSafety, NoSlot

(* Taking the next item disturbs only ItemIsFirst. *)
LEMMA NextItemIInv ==
    ASSUME IInv, NEW v \in Var, NextItem(v)
    PROVE  IInv'
<1> USE DEF IInv, NextItem
<1>1. TypeOK'
  BY DEF TypeOK
<1>2. SlotsDistinct'
  BY DEF SlotsDistinct
<1>3. Tracked'
  BY DEF Tracked, Covered
<1>4. ItemIsFirst'
  <2>1. \A w \in pending : live_ranges[v].start <= live_ranges[w].start
    <3>1. pending \subseteq Var /\ \A w \in pending : NotAfter(v, w)
      BY DEF TypeOK
    <3>2. \A w \in Var : live_ranges[w].start \in Nat
      BY RangeFacts
    <3> QED
      BY <3>1, <3>2 DEF NotAfter
  <2> QED
    BY <2>1 DEF ItemIsFirst
<1>5. SlotSafety'
  BY DEF SlotSafety, IC!Overlap
<1> QED
  BY <1>1, <1>2, <1>3, <1>4, <1>5

(* Keeping an active slot only moves the iterator. *)
LEMMA KeepSlotIInv ==
    ASSUME IInv, KeepSlot
    PROVE  IInv'
<1> USE DEF IInv, KeepSlot
<1>1. TypeOK'
  BY DEF TypeOK
<1>2. SlotsDistinct' /\ Tracked' /\ ItemIsFirst' /\ SlotSafety'
  BY DEF SlotsDistinct, Tracked, Covered, ItemIsFirst, SlotSafety, IC!Overlap
<1> QED
  BY <1>1, <1>2

(* An expired slot moves to the free queue: the variable that held it ended *)
(* before the current item, hence before all items to come.                 *)
LEMMA ExpireSlotIInv ==
    ASSUME IInv, ExpireSlot
    PROVE  IInv'
<1>1. /\ active \in Seq(ActiveSlot)
      /\ free_slots \in Seq(Nat)
      /\ it \in pending
  BY DEF IInv, TypeOK, ExpireSlot, InExpireLoop
<1>2. itr \in 1 .. Len(active) /\ itr \in DOMAIN active
  <2>1. itr \in Nat \ {0} /\ itr <= Len(active)
    BY DEF IInv, TypeOK, ExpireSlot, InExpireLoop
  <2> QED
    BY <1>1, <2>1
<1>3. active[itr].sym \in Nat
  <2>1. active[itr] \in ActiveSlot
    BY <1>1, <1>2
  <2> QED
    BY <2>1 DEF ActiveSlot
<1>4. active' = Erase(active, itr)
  BY DEF ExpireSlot
<1>5. /\ active' \in Seq(ActiveSlot)
      /\ \A i \in DOMAIN active' :
             \E m \in DOMAIN active : m # itr /\ active'[i] = active[m]
      /\ \A m \in DOMAIN active : m # itr =>
             \E i \in DOMAIN active' : active'[i] = active[m]
      /\ \A i, j \in DOMAIN active' : i # j =>
             \E m, n \in DOMAIN active : /\ m # n
                                         /\ active'[i] = active[m]
                                         /\ active'[j] = active[n]
  BY <1>1, <1>2, <1>4, EraseFacts
<1>6. /\ free_slots' \in Seq(Nat)
      /\ \A k \in DOMAIN free_slots' :
             \/ k \in DOMAIN free_slots /\ free_slots'[k] = free_slots[k]
             \/ k = Len(free_slots) + 1 /\ free_slots'[k] = active[itr].sym
  BY <1>1, <1>3, AppendFacts DEF ExpireSlot
<1>7. TypeOK'
  BY <1>5, <1>6 DEF IInv, TypeOK, ExpireSlot
<1>8. SlotsDistinct'
  <2>1. slot_count' = slot_count
    BY DEF ExpireSlot
  <2>2. \A k \in DOMAIN active' : active'[k].sym < slot_count'
    BY <2>1, <1>5 DEF IInv, SlotsDistinct
  <2>3. \A k \in DOMAIN free_slots' : free_slots'[k] < slot_count'
    BY <2>1, <1>2, <1>6 DEF IInv, SlotsDistinct
  <2>4. \A j, k \in DOMAIN active' : active'[j].sym = active'[k].sym => j = k
    BY <1>5 DEF IInv, SlotsDistinct
  <2>5. \A j, k \in DOMAIN free_slots' :
            free_slots'[j] = free_slots'[k] => j = k
    BY <1>2, <1>6 DEF IInv, SlotsDistinct
  <2>6. \A j \in DOMAIN active', k \in DOMAIN free_slots' :
            active'[j].sym # free_slots'[k]
    BY <1>2, <1>5, <1>6 DEF IInv, SlotsDistinct
  <2> QED
    BY <2>2, <2>3, <2>4, <2>5, <2>6 DEF SlotsDistinct
<1>9. Tracked'
  <2> SUFFICES ASSUME NEW v \in Var \ pending
               PROVE  Covered(v)'
    BY DEF Tracked, ExpireSlot
  <2>1. CASE \A w \in pending : live_ranges[v].end < live_ranges[w].start
    BY <2>1 DEF Covered, ExpireSlot
  <2>2. CASE \E k \in DOMAIN active :
                /\ active[k].sym = var_to_slot[v]
                /\ active[k].end = live_ranges[v].end
    <3>1. PICK k \in DOMAIN active :
              /\ active[k].sym = var_to_slot[v]
              /\ active[k].end = live_ranges[v].end
      BY <2>2
    <3>2. CASE k = itr
      <4>1. live_ranges[v].end < live_ranges[it].start
        BY <3>1, <3>2 DEF ExpireSlot, Expired, now
      <4>2. \A w \in pending : live_ranges[v].end < live_ranges[w].start
        BY <4>1, <1>1, NoItemAssumption, RangeFacts
           DEF IInv, ItemIsFirst, TypeOK
      <4> QED
        BY <4>2 DEF Covered, ExpireSlot
    <3>3. CASE k # itr
      BY <3>1, <3>3, <1>5 DEF Covered, ExpireSlot
    <3> QED
      BY <3>2, <3>3
  <2> QED
    BY <2>1, <2>2 DEF IInv, Tracked, Covered
<1>10. ItemIsFirst' /\ SlotSafety'
  BY DEF IInv, ExpireSlot, ItemIsFirst, SlotSafety, IC!Overlap
<1> QED
  BY <1>7, <1>8, <1>9, <1>10 DEF IInv

(* A slot that is not in the active list is safe for the current item: any *)
(* variable that has it ended before the item starts.                      *)
LEMMA SlotIsFree ==
    ASSUME IInv, it # NoItem, NEW s \in Nat,
           \A k \in DOMAIN active : active[k].sym # s,
           NEW w \in Var, var_to_slot[w] = s
    PROVE  /\ w \in Var \ pending
           /\ ~IC!Overlap(live_ranges, it, w)
           /\ ~IC!Overlap(live_ranges, w, it)
<1>1. w \in Var \ pending /\ it \in pending /\ it \in Var
  BY DEF IInv, TypeOK, NoSlot
<1>2. Covered(w)
  BY <1>1 DEF IInv, Tracked
<1>3. live_ranges[w].end < live_ranges[it].start
  BY <1>1, <1>2 DEF Covered
<1>4. live_ranges[w].end \in Nat /\ live_ranges[it].start \in Nat
  BY <1>1, RangeFacts DEF IInv
<1> QED
  BY <1>1, <1>3, <1>4 DEF IC!Overlap

(* Giving the current item a slot that is in neither list preserves the    *)
(* invariant, wherever the slot comes from.                                *)
LEMMA GiveSlotIInv ==
    ASSUME IInv, it # NoItem, NEW s \in Nat, GiveSlot(s),
           UNCHANGED <<live_ranges, itr>>,
           \A k \in DOMAIN active : active[k].sym # s,
           free_slots' \in Seq(Nat),
           slot_count' \in Nat, slot_count <= slot_count', s < slot_count',
           \A k \in DOMAIN free_slots' :
               /\ free_slots'[k] < slot_count'
               /\ free_slots'[k] # s
               /\ \A j \in DOMAIN active : active[j].sym # free_slots'[k],
           \A j, k \in DOMAIN free_slots' :
               free_slots'[j] = free_slots'[k] => j = k
    PROVE  IInv'
<1> DEFINE entry == [sym |-> s, end |-> live_ranges[it].end]
<1>1. /\ active \in Seq(ActiveSlot)
      /\ it \in pending /\ it \in Var /\ pending \subseteq Var
      /\ slot_count \in Nat
  BY DEF IInv, TypeOK
<1>2. entry \in ActiveSlot
  BY <1>1, RangeFacts DEF IInv, ActiveSlot
<1>3. entry.sym = s /\ entry.end = live_ranges[it].end
  OBVIOUS
<1>4. active' = Append(active, entry)
  BY DEF GiveSlot
<1> HIDE DEF entry
<1>5. /\ active' \in Seq(ActiveSlot)
      /\ DOMAIN active' = DOMAIN active \cup {Len(active) + 1}
      /\ \A k \in DOMAIN active : active'[k] = active[k]
      /\ active'[Len(active) + 1] = entry
  BY <1>1, <1>2, <1>4, AppendFacts
<1>6. /\ var_to_slot' = [var_to_slot EXCEPT ![it] = s]
      /\ pending' = pending \ {it}
      /\ it' = NoItem
      /\ live_ranges' = live_ranges
  BY DEF GiveSlot
<1>7. /\ var_to_slot'[it] = s
      /\ \A v \in Var : v # it => var_to_slot'[v] = var_to_slot[v]
  BY <1>1, <1>6 DEF IInv, TypeOK
<1>8. TypeOK'
  <2>1. var_to_slot' \in [Var -> Nat \cup {NoSlot}]
    BY <1>1, <1>6 DEF IInv, TypeOK
  <2>2. \A v \in Var : var_to_slot'[v] = NoSlot <=> v \in pending'
    BY <1>1, <1>6, <1>7 DEF IInv, TypeOK, NoSlot
  <2> QED
    BY <2>1, <2>2, <1>5, <1>6 DEF IInv, TypeOK
<1>9. SlotsDistinct'
  <2>1. \A k \in DOMAIN active : active[k].sym \in Nat
    <3>1. \A k \in DOMAIN active : active[k] \in ActiveSlot
      BY <1>1
    <3> QED
      BY <3>1 DEF ActiveSlot
  <2>2. \A k \in DOMAIN active' : active'[k].sym < slot_count'
    BY <2>1, <1>1, <1>3, <1>5 DEF IInv, SlotsDistinct
  <2>3. \A j, k \in DOMAIN active' : active'[j].sym = active'[k].sym => j = k
    BY <1>3, <1>5 DEF IInv, SlotsDistinct
  <2>4. \A j \in DOMAIN active', k \in DOMAIN free_slots' :
            active'[j].sym # free_slots'[k]
    BY <1>3, <1>5
  <2> QED
    BY <2>2, <2>3, <2>4 DEF SlotsDistinct
<1>10. Tracked'
  <2> SUFFICES ASSUME NEW v \in Var \ pending'
               PROVE  Covered(v)'
    BY DEF Tracked
  <2>1. CASE v = it
    BY <2>1, <1>3, <1>5, <1>6, <1>7 DEF Covered
  <2>2. CASE v # it
    <3>1. Covered(v)
      BY <2>2, <1>6 DEF IInv, Tracked
    <3>2. CASE \E k \in DOMAIN active :
                   /\ active[k].sym = var_to_slot[v]
                   /\ active[k].end = live_ranges[v].end
      BY <3>2, <2>2, <1>5, <1>6, <1>7 DEF Covered
    <3>3. CASE \A w \in pending : live_ranges[v].end < live_ranges[w].start
      BY <3>3, <1>6 DEF Covered
    <3> QED
      BY <3>1, <3>2, <3>3 DEF Covered
  <2> QED
    BY <2>1, <2>2
<1>11. ItemIsFirst'
  BY <1>6 DEF ItemIsFirst
<1>12. SlotSafety'
  <2> SUFFICES ASSUME NEW v \in Var \ pending', NEW w \in Var \ pending',
                      v # w, IC!Overlap(live_ranges, v, w)
               PROVE  var_to_slot'[v] # var_to_slot'[w]
    BY <1>6 DEF SlotSafety, IC!Overlap
  <2>1. CASE v = it
    BY <2>1, <1>7, SlotIsFree
  <2>2. CASE w = it
    BY <2>2, <1>7, SlotIsFree
  <2>3. CASE v # it /\ w # it
    BY <2>3, <1>6, <1>7 DEF IInv, SlotSafety
  <2> QED
    BY <2>1, <2>2, <2>3
<1> QED
  BY <1>8, <1>9, <1>10, <1>11, <1>12 DEF IInv

(* The slots ReuseSlot and NewSlot give are in neither list. *)
LEMMA ReuseSlotIInv ==
    ASSUME IInv, ReuseSlot
    PROVE  /\ IInv'
           /\ Head(free_slots) \in Nat
           /\ \A k \in DOMAIN active : active[k].sym # Head(free_slots)
<1> DEFINE s == Head(free_slots)
<1>1. /\ free_slots \in Seq(Nat) /\ free_slots # << >>
      /\ slot_count \in Nat
      /\ it # NoItem /\ GiveSlot(s)
      /\ free_slots' = Tail(free_slots)
      /\ slot_count' = slot_count
      /\ UNCHANGED <<live_ranges, itr>>
  BY DEF IInv, TypeOK, ReuseSlot
<1>2. /\ s \in Nat /\ 1 \in DOMAIN free_slots /\ s = free_slots[1]
      /\ free_slots' \in Seq(Nat)
      /\ \A i \in DOMAIN free_slots' :
             /\ i + 1 \in DOMAIN free_slots /\ i + 1 # 1
             /\ free_slots'[i] = free_slots[i + 1]
      /\ \A i, j \in DOMAIN free_slots' : i + 1 = j + 1 => i = j
  BY <1>1, TailFacts
<1> HIDE DEF s
<1>3. s < slot_count /\ \A k \in DOMAIN active : active[k].sym # s
  BY <1>2 DEF IInv, SlotsDistinct
<1>4. \A k \in DOMAIN free_slots' :
          /\ free_slots'[k] < slot_count'
          /\ free_slots'[k] # s
          /\ \A j \in DOMAIN active : active[j].sym # free_slots'[k]
  BY <1>1, <1>2 DEF IInv, SlotsDistinct
<1>5. \A j, k \in DOMAIN free_slots' : free_slots'[j] = free_slots'[k] => j = k
  BY <1>2 DEF IInv, SlotsDistinct
<1>6. IInv'
  BY <1>1, <1>2, <1>3, <1>4, <1>5, GiveSlotIInv
<1> QED
  BY <1>2, <1>3, <1>6 DEF s

LEMMA NewSlotIInv ==
    ASSUME IInv, NewSlot
    PROVE  /\ IInv'
           /\ slot_count \in Nat
           /\ \A k \in DOMAIN active : active[k].sym # slot_count
<1>1. /\ free_slots = << >> /\ free_slots' = << >>
      /\ slot_count \in Nat /\ slot_count' = slot_count + 1
      /\ it # NoItem /\ GiveSlot(slot_count)
      /\ UNCHANGED <<live_ranges, itr>>
  BY DEF IInv, TypeOK, NewSlot
<1>2. \A k \in DOMAIN active : active[k].sym # slot_count
  BY <1>1 DEF IInv, SlotsDistinct
<1>3. free_slots' \in Seq(Nat) /\ DOMAIN free_slots' = {}
  BY <1>1
<1>4. IInv'
  BY <1>1, <1>2, <1>3, GiveSlotIInv
<1> QED
  BY <1>1, <1>2, <1>4

-----------------------------------------------------------------------------
(* The inductive invariant holds in every reachable state of the scan. *)
LEMMA NextIInv == IInv /\ [Next]_vars => IInv'
<1> SUFFICES ASSUME IInv, [Next]_vars
             PROVE  IInv'
  OBVIOUS
<1>1. CASE \E v \in Var : NextItem(v)
  BY <1>1, NextItemIInv
<1>2. CASE ExpireSlot
  BY <1>2, ExpireSlotIInv
<1>3. CASE KeepSlot
  BY <1>3, KeepSlotIInv
<1>4. CASE ReuseSlot
  BY <1>4, ReuseSlotIInv
<1>5. CASE NewSlot
  BY <1>5, NewSlotIInv
<1>6. CASE UNCHANGED vars
  BY <1>6 DEF vars, IInv, TypeOK, SlotsDistinct, Tracked, Covered,
              ItemIsFirst, SlotSafety, IC!Overlap
<1> QED
  BY <1>1, <1>2, <1>3, <1>4, <1>5, <1>6 DEF Next

THEOREM InductiveInvariant == Spec => []IInv
<1>1. Init => IInv
  BY InitIInv
<1>2. IInv /\ [Next]_vars => IInv'
  BY NextIInv
<1> QED
  BY <1>1, <1>2, PTL DEF Spec

(* Every state of AllocateSlots is well typed: in particular exactly the   *)
(* items that are no longer pending have a slot.                           *)
THEOREM TypeCorrect == Spec => []TypeOK
<1>1. IInv => TypeOK
  BY DEF IInv
<1> QED
  BY <1>1, InductiveInvariant, PTL

(* AllocateSlots never lets two variables with overlapping live ranges     *)
(* share a slot, for any number of variables and any live ranges.          *)
THEOREM SlotsAreSafe == Spec => []SlotSafety
<1>1. IInv => SlotSafety
  BY DEF IInv
<1> QED
  BY <1>1, InductiveInvariant, PTL

(* Every step of the scan is a step of the abstract colouring or leaves it *)
(* alone.                                                                  *)
LEMMA GiveSlotAssigns ==
    ASSUME IInv, it # NoItem, NEW s \in Nat, GiveSlot(s),
           \A k \in DOMAIN active : active[k].sym # s,
           UNCHANGED live_ranges
    PROVE  IC!Next
<1>1. it \in Var /\ it \in pending
  BY DEF IInv, TypeOK
<1>2. var_to_slot[it] = IC!NoSlot
  BY <1>1 DEF IInv, TypeOK, NoSlot, IC!NoSlot
<1>3. var_to_slot' = [var_to_slot EXCEPT ![it] = s] /\ var_to_slot'[it] = s
  BY <1>1 DEF GiveSlot, IInv, TypeOK
<1>4. \A w \in Var : var_to_slot[w] = var_to_slot'[it]
                         => ~IC!Overlap(live_ranges, it, w)
  BY <1>3, SlotIsFree
<1>5. IC!Assign(it)
  BY <1>2, <1>3, <1>4 DEF IC!Assign
<1> QED
  BY <1>1, <1>5 DEF IC!Next

(* AllocateSlots implements the abstract interval colouring.               *)
THEOREM Refinement == Spec => ImplementsIntervalColoring
<1>1. Init => IC!Init
  <2> SUFFICES ASSUME Init
               PROVE  IC!Init
    OBVIOUS
  <2>1. LiveRange \subseteq [start : Nat, end : Nat]
    BY MaxIndexAssumption DEF LiveRange
  <2>2. live_ranges \in [Var -> [start : Nat, end : Nat]]
    BY <2>1 DEF Init
  <2> QED
    BY <2>2 DEF Init, IC!Init, NoSlot, IC!NoSlot
<1>2. IInv /\ [Next]_vars => [IC!Next]_(IC!icvars)
  <2> SUFFICES ASSUME IInv, [Next]_vars
               PROVE  IC!Next \/ UNCHANGED IC!icvars
    OBVIOUS
  <2>1. CASE \E v \in Var : NextItem(v)
    BY <2>1 DEF NextItem, IC!icvars
  <2>2. CASE ExpireSlot
    BY <2>2 DEF ExpireSlot, IC!icvars
  <2>3. CASE KeepSlot
    BY <2>3 DEF KeepSlot, IC!icvars
  <2>4. CASE ReuseSlot
    BY <2>4, ReuseSlotIInv, GiveSlotAssigns DEF ReuseSlot
  <2>5. CASE NewSlot
    BY <2>5, NewSlotIInv, GiveSlotAssigns DEF NewSlot
  <2>6. CASE UNCHANGED vars
    BY <2>6 DEF vars, IC!icvars
  <2> QED
    BY <2>1, <2>2, <2>3, <2>4, <2>5, <2>6 DEF Next
<1> QED
  BY <1>1, <1>2, InductiveInvariant, PTL
     DEF Spec, ImplementsIntervalColoring, IC!Spec

-----------------------------------------------------------------------------
(***************************************************************************)
(* SlotsPartitioned.  Erase and Tail lose one element, Append gains one.   *)
(***************************************************************************)

ElementsOf(s) == {s[k] : k \in DOMAIN s}

SymsOf(s) == {s[k].sym : k \in DOMAIN s}

LEMMA AppendElements ==
    ASSUME NEW S, NEW s \in Seq(S), NEW x \in S
    PROVE  /\ Len(Append(s, x)) = Len(s) + 1
           /\ ElementsOf(Append(s, x)) = ElementsOf(s) \cup {x}
           /\ SymsOf(Append(s, x)) = SymsOf(s) \cup {x.sym}
<1>1. Len(Append(s, x)) = Len(s) + 1
  OBVIOUS
<1>2. QED
  BY <1>1, AppendFacts DEF ElementsOf, SymsOf

LEMMA EraseElements ==
    ASSUME NEW S, NEW s \in Seq(S), NEW k \in 1 .. Len(s)
    PROVE  /\ Len(Erase(s, k)) = Len(s) - 1
           /\ SymsOf(Erase(s, k)) \cup {s[k].sym} = SymsOf(s)
<1>1. DOMAIN s = 1 .. Len(s) /\ Len(s) \in Nat /\ Len(s) - 1 \in Nat
  OBVIOUS
<1>2. Erase(s, k) \in Seq(S) /\ DOMAIN Erase(s, k) = 1 .. Len(s) - 1
  BY EraseFacts
<1>3. Len(Erase(s, k)) = Len(s) - 1
  BY <1>1 DEF Erase
<1>4. SymsOf(Erase(s, k)) \subseteq SymsOf(s)
  BY EraseFacts DEF SymsOf
<1>5. \A m \in DOMAIN s : s[m].sym \in SymsOf(Erase(s, k)) \cup {s[k].sym}
  <2>1. SUFFICES ASSUME NEW m \in DOMAIN s, m # k
                 PROVE  s[m].sym \in SymsOf(Erase(s, k))
    OBVIOUS
  <2>2. PICK i \in DOMAIN Erase(s, k) : Erase(s, k)[i] = s[m]
    BY <2>1, EraseFacts
  <2>3. QED
    BY <2>2 DEF SymsOf
<1>6. s[k].sym \in SymsOf(s)
  BY <1>1 DEF SymsOf
<1>7. QED
  BY <1>3, <1>4, <1>5, <1>6 DEF SymsOf

LEMMA TailElements ==
    ASSUME NEW S, NEW s \in Seq(S), s # << >>
    PROVE  /\ Len(Tail(s)) = Len(s) - 1
           /\ ElementsOf(Tail(s)) \cup {Head(s)} = ElementsOf(s)
<1>1. /\ Len(Tail(s)) = Len(s) - 1
      /\ DOMAIN s = 1 .. Len(s) /\ DOMAIN Tail(s) = 1 .. Len(s) - 1
      /\ Len(s) \in Nat
  OBVIOUS
<1>2. \A m \in DOMAIN s : s[m] \in ElementsOf(Tail(s)) \cup {Head(s)}
  <2>1. SUFFICES ASSUME NEW m \in DOMAIN s, m # 1
                 PROVE  s[m] \in ElementsOf(Tail(s))
    BY TailFacts
  <2>2. m - 1 \in DOMAIN Tail(s) /\ (m - 1) + 1 = m
    BY <1>1, <2>1
  <2>3. Tail(s)[m - 1] = s[m]
    BY <2>2, TailFacts
  <2>4. QED
    BY <2>2, <2>3 DEF ElementsOf
<1>3. \A i \in DOMAIN Tail(s) : Tail(s)[i] \in ElementsOf(s)
  BY TailFacts DEF ElementsOf
<1>4. Head(s) \in ElementsOf(s)
  BY TailFacts DEF ElementsOf
<1>5. QED
  BY <1>1, <1>2, <1>3, <1>4 DEF ElementsOf

LEMMA PartitionInit == Init => SlotsPartitioned
<1> SUFFICES ASSUME Init PROVE SlotsPartitioned
  OBVIOUS
<1>1. ActiveSyms = {} /\ FreeSyms = {} /\ Len(active) = 0 /\ Len(free_slots) = 0
  BY DEF Init, ActiveSyms, FreeSyms
<1>2. 0 .. slot_count - 1 = {} /\ slot_count = 0
  BY DEF Init
<1>3. QED
  BY <1>1, <1>2 DEF SlotsPartitioned

LEMMA PartitionStep ==
    ASSUME IInv, SlotsPartitioned, [Next]_vars
    PROVE  SlotsPartitioned'
<1>1. /\ active \in Seq(ActiveSlot) /\ free_slots \in Seq(Nat) /\ slot_count \in Nat
      /\ it \in pending \cup {NoItem} /\ itr \in Nat \ {0} /\ pending \subseteq Var
  BY DEF IInv, TypeOK
<1>2. /\ ActiveSyms = SymsOf(active) /\ FreeSyms = ElementsOf(free_slots)
      /\ ActiveSyms' = SymsOf(active') /\ FreeSyms' = ElementsOf(free_slots')
  BY DEF ActiveSyms, FreeSyms, SymsOf, ElementsOf
<1>3. /\ SymsOf(active) \cup ElementsOf(free_slots) = 0 .. slot_count - 1
      /\ Len(active) + Len(free_slots) = slot_count
      /\ Len(active) \in Nat /\ Len(free_slots) \in Nat
  BY <1>1, <1>2 DEF SlotsPartitioned
<1>4. SUFFICES
        /\ SymsOf(active') \cup ElementsOf(free_slots') = 0 .. slot_count' - 1
        /\ Len(active') + Len(free_slots') = slot_count'
  BY <1>2 DEF SlotsPartitioned
<1>5. CASE UNCHANGED <<active, free_slots, slot_count>>
  BY <1>3, <1>5
<1>6. CASE ExpireSlot
  <2>1. /\ itr \in 1 .. Len(active)
        /\ active' = Erase(active, itr)
        /\ free_slots' = Append(free_slots, active[itr].sym)
        /\ slot_count' = slot_count
    BY <1>1, <1>3, <1>6 DEF ExpireSlot, InExpireLoop
  <2>2. active[itr].sym \in Nat
    <3>1. active[itr] \in ActiveSlot
      BY <1>1, <2>1
    <3>2. QED
      BY <3>1 DEF ActiveSlot
  <2>3. /\ Len(active') = Len(active) - 1
        /\ SymsOf(active') \cup {active[itr].sym} = SymsOf(active)
    BY <1>1, <2>1, EraseElements
  <2>4. /\ Len(free_slots') = Len(free_slots) + 1
        /\ ElementsOf(free_slots') = ElementsOf(free_slots) \cup {active[itr].sym}
    BY <1>1, <2>1, <2>2, AppendElements
  <2>5. Len(active') + Len(free_slots') = slot_count'
    BY <1>3, <2>1, <2>3, <2>4
  <2>6. SymsOf(active') \cup ElementsOf(free_slots') = SymsOf(active) \cup ElementsOf(free_slots)
    BY <2>3, <2>4
  <2>7. QED
    BY <1>3, <2>1, <2>5, <2>6
<1>7. ASSUME NEW s \in Nat, it # NoItem, GiveSlot(s)
      PROVE  /\ Len(active') = Len(active) + 1
             /\ SymsOf(active') = SymsOf(active) \cup {s}
  <2> DEFINE entry == [sym |-> s, end |-> live_ranges[it].end]
  <2>1. entry \in ActiveSlot /\ entry.sym = s
    BY <1>1, <1>7, RangeFacts DEF IInv, ActiveSlot
  <2>2. active' = Append(active, entry)
    BY <1>7 DEF GiveSlot
  <2> HIDE DEF entry
  <2>3. QED
    BY <1>1, <2>1, <2>2, AppendElements
<1>8. CASE ReuseSlot
  <2> DEFINE s == Head(free_slots)
  <2>1. /\ free_slots # << >> /\ free_slots' = Tail(free_slots)
        /\ slot_count' = slot_count /\ it # NoItem /\ GiveSlot(s)
    BY <1>8 DEF ReuseSlot
  <2>2. s \in Nat
    BY <1>1, <2>1, TailFacts
  <2>3. /\ Len(free_slots') = Len(free_slots) - 1
        /\ ElementsOf(free_slots') \cup {s} = ElementsOf(free_slots)
    BY <1>1, <2>1, TailElements
  <2> HIDE DEF s
  <2>4. /\ Len(active') = Len(active) + 1
        /\ SymsOf(active') = SymsOf(active) \cup {s}
    BY <1>7, <2>1, <2>2
  <2>5. Len(active') + Len(free_slots') = slot_count'
    BY <1>3, <2>1, <2>3, <2>4
  <2>6. SymsOf(active') \cup ElementsOf(free_slots') = SymsOf(active) \cup ElementsOf(free_slots)
    BY <2>3, <2>4
  <2>7. QED
    BY <1>3, <2>1, <2>5, <2>6
<1>9. CASE NewSlot
  <2>1. /\ free_slots' = free_slots /\ slot_count' = slot_count + 1
        /\ it # NoItem /\ GiveSlot(slot_count)
    BY <1>9 DEF NewSlot
  <2>2. /\ Len(active') = Len(active) + 1
        /\ SymsOf(active') = SymsOf(active) \cup {slot_count}
    BY <1>1, <1>7, <2>1
  <2>3. (0 .. slot_count - 1) \cup {slot_count} = 0 .. slot_count' - 1
    BY <1>1, <2>1
  <2>4. Len(active') + Len(free_slots') = slot_count'
    BY <1>3, <2>1, <2>2
  <2>5. SymsOf(active') \cup ElementsOf(free_slots')
            = (SymsOf(active) \cup ElementsOf(free_slots)) \cup {slot_count}
    BY <2>1, <2>2
  <2>6. QED
    BY <1>3, <2>3, <2>4, <2>5
<1>10. QED
  BY <1>5, <1>6, <1>8, <1>9 DEF Next, NextItem, KeepSlot, vars

(***************************************************************************)
(* No slot of AllocateSlots is ever lost, or in the active list and the    *)
(* free queue at once, for any variables and live ranges.                  *)
(***************************************************************************)
THEOREM NoSlotIsLost == Spec => []SlotsPartitioned
<1>1. Init => SlotsPartitioned
  BY PartitionInit
<1>2. IInv /\ SlotsPartitioned /\ [Next]_vars => SlotsPartitioned'
  BY PartitionStep
<1>3. QED
  BY <1>1, <1>2, InductiveInvariant, PTL DEF Spec

-----------------------------------------------------------------------------
(***************************************************************************)
(* FewestSlots.  That no fewer slots would do follows from SlotSafety.     *)
(* That the scan makes no more rests on what is active when it makes one:  *)
(* nothing but the ranges that hold the index where the item starts.       *)
(***************************************************************************)

\* What the inner loop has passed is not over.
Kept == it # NoItem => \A k \in DOMAIN active : k < itr => ~ Expired(active[k])

Holds(v, k) ==
    /\ var_to_slot[v] = active[k].sym
    /\ live_ranges[v].end = active[k].end
    /\ \A w \in pending : live_ranges[v].start <= live_ranges[w].start

\* An active slot is the slot of an item that started before all that come.
Held == \A k \in DOMAIN active : \E v \in Var \ pending : Holds(v, k)

SlotBound == \A v \in Var \ pending : var_to_slot[v] \in 0 .. slot_count - 1

\* As many ranges as there are slots meet somewhere.
Crowded == slot_count = 0 \/ \E i \in 0 .. MaxIndex : slot_count <= Cardinality(RangesAt(i))

FewInv == Kept /\ Held /\ SlotBound /\ Crowded

LEMMA FewInit == Init => FewInv
<1> SUFFICES ASSUME Init PROVE FewInv
  OBVIOUS
<1>1. DOMAIN active = {} /\ Var \ pending = {}
  BY DEF Init
<1>2. QED
  BY <1>1 DEF Init, FewInv, Kept, Held, SlotBound, Crowded

\* When the inner loop is over, the active ranges hold the current index.
LEMMA ActiveHere ==
    ASSUME IInv, FewInv, it # NoItem, itr > Len(active), NEW s \in ActiveSyms
    PROVE  \E v \in RangesAt(now) : v \in Var \ pending /\ var_to_slot[v] = s
<1>1. /\ active \in Seq(ActiveSlot) /\ it \in pending /\ it \in Var
      /\ itr \in Nat /\ Len(active) \in Nat /\ DOMAIN active = 1 .. Len(active)
  BY DEF IInv, TypeOK
<1>2. PICK k \in DOMAIN active : active[k].sym = s
  BY DEF ActiveSyms
<1>3. ~ (active[k].end < now)
  BY <1>1 DEF FewInv, Kept, Expired
<1>4. PICK v \in Var \ pending : Holds(v, k)
  BY DEF FewInv, Held
<1>5. live_ranges[v].start <= now /\ ~ (live_ranges[v].end < now)
  BY <1>1, <1>3, <1>4 DEF Holds, now
<1>6. live_ranges[v].end \in Nat /\ now \in Nat
  BY <1>1, RangeFacts DEF IInv, now
<1>7. QED
  BY <1>2, <1>4, <1>5, <1>6 DEF Holds, RangesAt

\* A new slot is made for one range more than there are slots.
LEMMA NewSlotCrowded ==
    ASSUME IInv, SlotsPartitioned, FewInv, NewSlot
    PROVE  /\ now \in 0 .. MaxIndex
           /\ slot_count + 1 <= Cardinality(RangesAt(now))
<1>1. /\ it # NoItem /\ itr > Len(active) /\ free_slots = << >>
      /\ it \in pending /\ it \in Var /\ slot_count \in Nat
      /\ live_ranges \in [Var -> LiveRange]
      /\ \A v \in Var : var_to_slot[v] = NoSlot <=> v \in pending
  BY DEF NewSlot, IInv, TypeOK
<1>2. now \in 0 .. MaxIndex /\ it \in RangesAt(now)
  <2>1. live_ranges[it] \in LiveRange
    BY <1>1
  <2>2. QED
    BY <1>1, <2>1, MaxIndexAssumption DEF LiveRange, now, RangesAt
<1>3. ActiveSyms = 0 .. slot_count - 1
  <2>1. FreeSyms = {}
    BY <1>1 DEF FreeSyms
  <2>2. QED
    BY <2>1 DEF SlotsPartitioned
<1> DEFINE Slots == 0 .. slot_count
           W == {v \in RangesAt(now) : v = it \/ (v \notin pending /\ var_to_slot[v] \in Slots)}
           slot == [v \in W |-> IF v = it THEN slot_count ELSE var_to_slot[v]]
<1>4. IsFiniteSet(RangesAt(now))
  BY VarAssumption, FS_Subset DEF RangesAt
<1>5. IsFiniteSet(W) /\ Cardinality(W) <= Cardinality(RangesAt(now))
      /\ Cardinality(W) \in Nat /\ Cardinality(RangesAt(now)) \in Nat
  BY <1>4, FS_Subset, FS_CardinalityType
<1>6. slot \in Surjection(W, Slots)
  <2>1. slot \in [W -> Slots]
    BY <1>1
  <2>2. ASSUME NEW s \in Slots PROVE \E v \in W : slot[v] = s
    <3>1. CASE s = slot_count
      BY <1>2, <3>1
    <3>2. CASE s # slot_count
      <4>1. s \in ActiveSyms
        BY <1>1, <1>3, <3>2
      <4>2. PICK v \in RangesAt(now) : v \in Var \ pending /\ var_to_slot[v] = s
        BY <1>1, <4>1, ActiveHere
      <4>3. v \in W /\ slot[v] = s
        BY <1>1, <4>2
      <4>4. QED
        BY <4>3
    <3>3. QED
      BY <3>1, <3>2
  <2>3. QED
    BY <2>1, <2>2 DEF Surjection
<1>7. Cardinality(Slots) = slot_count + 1
  BY <1>1, FS_Interval
<1> HIDE DEF Slots, W, slot
<1>8. Cardinality(Slots) <= Cardinality(W)
  BY <1>5, <1>6, FS_Surjection
<1>9. QED
  BY <1>1, <1>2, <1>5, <1>7, <1>8

LEMMA GiveSlotFew ==
    ASSUME IInv, FewInv, it # NoItem, NEW s \in Nat, GiveSlot(s),
           UNCHANGED live_ranges,
           slot_count' \in Nat, slot_count <= slot_count', s < slot_count'
    PROVE  Kept' /\ Held' /\ SlotBound'
<1> DEFINE entry == [sym |-> s, end |-> live_ranges[it].end]
<1>1. /\ active \in Seq(ActiveSlot)
      /\ it \in pending /\ it \in Var /\ pending \subseteq Var
      /\ slot_count \in Nat /\ var_to_slot \in [Var -> Nat \cup {NoSlot}]
      /\ pending' = pending \ {it}
  BY DEF IInv, TypeOK, GiveSlot
<1>2. entry \in ActiveSlot
  BY <1>1, RangeFacts DEF IInv, ActiveSlot
<1>3. active' = Append(active, entry)
  BY DEF GiveSlot
<1>4. Kept'
  BY DEF Kept, GiveSlot
<1>5. /\ var_to_slot'[it] = s
      /\ \A v \in Var : v # it => var_to_slot'[v] = var_to_slot[v]
  BY <1>1 DEF GiveSlot
<1>6. /\ DOMAIN active' = DOMAIN active \cup {Len(active) + 1}
      /\ \A k \in DOMAIN active : active'[k] = active[k]
      /\ active'[Len(active) + 1] = entry
  <2> HIDE DEF entry
  <2>1. QED
    BY <1>1, <1>2, <1>3, AppendFacts
<1>7. Held'
  <2>1. SUFFICES ASSUME NEW k \in DOMAIN active'
                 PROVE  \E v \in Var \ pending' : Holds(v, k)'
    BY DEF Held
  <2>2. CASE k \in DOMAIN active
    <3>1. PICK v \in Var \ pending : Holds(v, k)
      BY <2>2 DEF FewInv, Held
    <3>2. v # it
      BY <1>1
    <3>3. Holds(v, k)'
      BY <1>1, <1>5, <1>6, <2>2, <3>1, <3>2 DEF Holds
    <3>4. QED
      BY <1>1, <3>3
  <2>3. CASE k = Len(active) + 1
    <3>1. active'[k] = entry
      BY <1>6, <2>3
    <3>2. \A w \in pending : live_ranges[it].start <= live_ranges[w].start
      BY DEF IInv, ItemIsFirst
    <3>3. PICK v \in Var : v = it
      BY <1>1
    <3>4. Holds(v, k)'
      BY <1>1, <1>5, <3>1, <3>2, <3>3 DEF Holds
    <3>5. QED
      BY <1>1, <3>3, <3>4
  <2>4. QED
    BY <1>6, <2>1, <2>2, <2>3
<1>8. SlotBound'
  <2>1. SUFFICES ASSUME NEW v \in Var \ pending'
                 PROVE  var_to_slot'[v] \in 0 .. slot_count' - 1
    BY DEF SlotBound
  <2>2. CASE v = it
    BY <1>5, <2>2
  <2>3. CASE v # it
    <3>1. var_to_slot[v] \in 0 .. slot_count - 1
      BY <1>1, <2>3 DEF FewInv, SlotBound
    <3>2. QED
      BY <1>1, <1>5, <2>3, <3>1
  <2>4. QED
    BY <2>2, <2>3
<1>9. QED
  BY <1>4, <1>7, <1>8

LEMMA FewStep ==
    ASSUME IInv, SlotsPartitioned, FewInv, [Next]_vars
    PROVE  FewInv'
<1>1. /\ active \in Seq(ActiveSlot) /\ free_slots \in Seq(Nat) /\ slot_count \in Nat
      /\ it \in pending \cup {NoItem} /\ itr \in Nat \ {0} /\ pending \subseteq Var
      /\ Len(active) \in Nat /\ DOMAIN active = 1 .. Len(active)
  BY DEF IInv, TypeOK
<1>2. ASSUME UNCHANGED <<live_ranges, slot_count>> PROVE Crowded'
  BY <1>2 DEF FewInv, Crowded, RangesAt
<1>3. ASSUME NEW v \in Var, NextItem(v) PROVE FewInv'
  <2>1. Kept'
    BY <1>1, <1>3 DEF Kept, NextItem
  <2>2. Held' /\ SlotBound'
    BY <1>3 DEF FewInv, Held, Holds, SlotBound, NextItem
  <2>3. QED
    BY <1>2, <1>3, <2>1, <2>2 DEF FewInv, NextItem
<1>4. CASE KeepSlot
  <2>1. Kept'
    <3>1. SUFFICES ASSUME NEW k \in DOMAIN active, k < itr + 1
                   PROVE  ~ Expired(active[k])
      BY <1>4 DEF Kept, KeepSlot, Expired, now
    <3>2. it # NoItem /\ (k < itr \/ k = itr)
      BY <1>1, <1>4, <3>1 DEF KeepSlot, InExpireLoop
    <3>3. QED
      BY <1>4, <3>2 DEF KeepSlot, FewInv, Kept
  <2>2. Held' /\ SlotBound'
    BY <1>4 DEF FewInv, Held, Holds, SlotBound, KeepSlot
  <2>3. QED
    BY <1>2, <1>4, <2>1, <2>2 DEF FewInv, KeepSlot
<1>5. CASE ExpireSlot
  <2>1. /\ itr \in 1 .. Len(active) /\ active' = Erase(active, itr)
        /\ it # NoItem /\ UNCHANGED <<live_ranges, pending, it, itr, slot_count, var_to_slot>>
    BY <1>1, <1>5 DEF ExpireSlot, InExpireLoop
  <2>2. DOMAIN active' = 1 .. Len(active) - 1
    BY <1>1, <2>1, EraseFacts
  <2>3. Kept'
    <3>1. SUFFICES ASSUME NEW k \in DOMAIN active', k < itr
                   PROVE  ~ Expired(active'[k])
      BY <2>1 DEF Kept, Expired, now
    <3>2. k \in DOMAIN active /\ active'[k] = active[k]
      BY <1>1, <2>1, <2>2, <3>1 DEF Erase
    <3>3. QED
      BY <2>1, <3>1, <3>2 DEF FewInv, Kept
  <2>4. Held'
    <3>1. \A k \in DOMAIN active' : \E m \in DOMAIN active : active'[k] = active[m]
      <4>1. \A i \in DOMAIN Erase(active, itr) :
                \E m \in DOMAIN active : m # itr /\ Erase(active, itr)[i] = active[m]
        BY <1>1, <2>1, EraseFacts
      <4>2. QED
        BY <2>1, <4>1
    <3>2. SUFFICES ASSUME NEW k \in DOMAIN active'
                   PROVE  \E v \in Var \ pending : Holds(v, k)'
      BY <2>1 DEF Held
    <3>3. PICK m \in DOMAIN active : active'[k] = active[m]
      BY <3>1
    <3>4. PICK v \in Var \ pending : Holds(v, m)
      BY DEF FewInv, Held
    <3>5. QED
      BY <2>1, <3>3, <3>4 DEF Holds
  <2>5. SlotBound'
    BY <2>1 DEF FewInv, SlotBound
  <2>6. QED
    BY <1>2, <2>1, <2>3, <2>4, <2>5 DEF FewInv
<1>6. CASE ReuseSlot
  <2>1. /\ Head(free_slots) \in Nat /\ Head(free_slots) < slot_count
        /\ it # NoItem /\ GiveSlot(Head(free_slots))
        /\ UNCHANGED <<live_ranges, slot_count>>
    BY <1>1, <1>6, TailFacts DEF ReuseSlot, IInv, SlotsDistinct
  <2>2. Kept' /\ Held' /\ SlotBound'
    BY <1>1, <2>1, GiveSlotFew
  <2>3. QED
    BY <1>2, <2>1, <2>2 DEF FewInv
<1>7. CASE NewSlot
  <2>1. /\ it # NoItem /\ GiveSlot(slot_count)
        /\ slot_count' = slot_count + 1 /\ live_ranges' = live_ranges
    BY <1>7 DEF NewSlot
  <2>2. Kept' /\ Held' /\ SlotBound'
    BY <1>1, <2>1, GiveSlotFew
  <2>3. Crowded'
    BY <1>7, <2>1, NewSlotCrowded DEF Crowded, RangesAt
  <2>4. QED
    BY <2>2, <2>3 DEF FewInv
<1>8. CASE UNCHANGED vars
  BY <1>8 DEF vars, FewInv, Kept, Held, Holds, SlotBound, Crowded, RangesAt,
              Expired, now
<1>9. QED
  BY <1>3, <1>4, <1>5, <1>6, <1>7, <1>8 DEF Next

\* No fewer slots would do: the ranges that meet have slots of their own.
LEMMA EnoughSlots ==
    ASSUME IInv, FewInv, Done, NEW i \in 0 .. MaxIndex
    PROVE  Cardinality(RangesAt(i)) <= slot_count
<1> DEFINE Slots == 0 .. slot_count - 1
           slot == [v \in RangesAt(i) |-> var_to_slot[v]]
<1>1. /\ pending = {} /\ slot_count \in Nat /\ TypeOK
  BY DEF Done, IInv, TypeOK
<1>2. slot \in [RangesAt(i) -> Slots]
  BY <1>1 DEF RangesAt, FewInv, SlotBound
<1>3. ASSUME NEW v \in RangesAt(i), NEW w \in RangesAt(i), slot[v] = slot[w]
      PROVE  v = w
  <2>1. IC!Overlap(live_ranges, v, w)
    BY <1>1, RangeFacts, MaxIndexAssumption DEF RangesAt, IC!Overlap
  <2>2. var_to_slot[v] = var_to_slot[w]
    BY <1>3
  <2>3. QED
    BY <1>1, <2>1, <2>2 DEF IInv, SlotSafety, RangesAt
<1>4. slot \in Injection(RangesAt(i), Slots)
  BY <1>2, <1>3 DEF Injection, IsInjective
<1>5. IsFiniteSet(Slots) /\ Cardinality(Slots) = slot_count
  BY <1>1, FS_Interval
<1> HIDE DEF Slots, slot
<1>6. QED
  BY <1>4, <1>5, FS_Injection

(***************************************************************************)
(* AllocateSlots makes as many slots as live ranges meet in one index and  *)
(* no allocation can do with fewer, for any variables and live ranges.     *)
(***************************************************************************)
THEOREM NoSlotTooMany == Spec => []FewestSlots
<1>1. Init => SlotsPartitioned /\ FewInv
  BY PartitionInit, FewInit
<1>2. IInv /\ SlotsPartitioned /\ FewInv /\ [Next]_vars => SlotsPartitioned' /\ FewInv'
  BY PartitionStep, FewStep
<1>3. IInv /\ FewInv => FewestSlots
  <2>1. SUFFICES ASSUME IInv, FewInv, Done, Var # {}
                 PROVE  \E i \in 0 .. MaxIndex : Cardinality(RangesAt(i)) = slot_count
    BY EnoughSlots DEF FewestSlots
  <2>2. slot_count \in Nat /\ slot_count # 0
    BY <2>1 DEF IInv, TypeOK, Done, FewInv, SlotBound
  <2>3. PICK i \in 0 .. MaxIndex : slot_count <= Cardinality(RangesAt(i))
    BY <2>1, <2>2 DEF FewInv, Crowded
  <2>4. Cardinality(RangesAt(i)) \in Nat /\ Cardinality(RangesAt(i)) <= slot_count
    <3>1. RangesAt(i) \in SUBSET Var
      BY DEF RangesAt
    <3>2. QED
      BY <2>1, <3>1, VarAssumption, EnoughSlots, FS_Subset, FS_CardinalityType
  <2>5. QED
    BY <2>2, <2>3, <2>4
<1>4. QED
  BY <1>1, <1>2, <1>3, InductiveInvariant, PTL DEF Spec

=============================================================================
