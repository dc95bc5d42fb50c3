------------------------ MODULE MCRegisterAllocator ------------------------
(***************************************************************************)
(* Instances of RegisterAllocator.                                         *)
(***************************************************************************)
EXTENDS RegisterAllocator

Pairs(n) == {{u, v} : u \in 0 .. n - 1, v \in 0 .. n - 1} \ {{u} : u \in Slot}

\* Every graph on at most n slots.
AllGraphs(n) == UNION {[n : {k}, edges : SUBSET Pairs(k)] : k \in 0 .. n}

\* A function without slots: int main() { return 0; }
NoSlots == [n |-> 0, edges |-> {}]

\* Every function alone, before or after one without slots, and every pair of
\* functions that leave one slot out.
OneOrTwo ==
    {<<g, NoSlots>> : g \in AllGraphs(NSlots)} \cup {<<NoSlots, g>> : g \in AllGraphs(NSlots)}
    \cup (AllGraphs(NSlots - 1) \X AllGraphs(NSlots - 1))

(***************************************************************************)
(* Graphs of real functions.  A straight line function keeps all its slots *)
(* busy at once: an operand of IR2 counts as read where it is written, so  *)
(* a slot is live from the entry to its last occurrence.  The star is      *)
(*   int f(bool c) { int v; if (c) { v = 1; } else { int w = 2; return w; }*)
(*                   if (c) return v; return 3; }                          *)
(* where v (slot 1) and w (slot 2) are on different branches.              *)
(***************************************************************************)
Clique(n) == [n |-> n, edges |-> Pairs(n)]
Star == [n |-> 3, edges |-> {{0, 1}, {0, 2}}]
RealPrograms == [Func -> {Clique(1), Clique(2), Clique(3), Star}]

=============================================================================
