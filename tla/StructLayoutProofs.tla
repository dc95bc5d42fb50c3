------------------------- MODULE StructLayoutProofs -------------------------
(***************************************************************************)
(* The layout of structs for every program, every order of the queue and   *)
(* every limit on the turns: fields lie apart, no struct is lost, sizes    *)
(* keep the alignment, the check rejects just the structs that contain     *)
(* themselves, and the others get a layout unless the limit is too small.  *)
(***************************************************************************)
EXTENDS StructLayout, FiniteSetTheorems, WellFoundedInduction, TLAPS

(***************************************************************************)
(* FieldsApart needs two more facts: the fields of a struct with a size    *)
(* have types with a size, so that no later step moves their ends, and     *)
(* what the loop over the fields of s has so far is apart below offset.    *)
(***************************************************************************)
FieldsSized == \A c \in completed : \A k \in DOMAIN fields[c] : Known(fields[c][k])

WorkApart ==
    s # NoStruct =>
        /\ s \notin completed
        /\ DOMAIN at = 1 .. i - 1
        /\ \A k \in DOMAIN at : Known(fields[s][k])
        /\ Apart(fields[s], at, offset)

IInv == TypeOK /\ FieldsSized /\ FieldsApart /\ WorkApart

(* Rounding up to a multiple never goes below the number. *)
LEMMA RoundUpAbove ==
    ASSUME NEW n \in Nat, NEW d \in Nat \ {0}
    PROVE  RoundUp(n, d) \in Nat /\ RoundUp(n, d) >= n
<1>1. n % d \in 0 .. d - 1
  OBVIOUS
<1> QED
  BY <1>1 DEF RoundUp

(* The size of a type is a number. *)
LEMMA SizeOfNat ==
    ASSUME TypeOK, NEW t \in Basic \cup Structs
    PROVE  SizeOf(t) \in Nat
BY TypesAssumption DEF TypeOK, SizeOf

LEMMA InitIInv == Init => IInv
<1> SUFFICES ASSUME Init PROVE IInv
  OBVIOUS
<1>1. fields \in [Structs -> Seq(Types)]
  BY InputAssumption DEF Init, Types
<1>2. << >> \in Seq(Structs) /\ << >> \in Seq(Nat) /\ offsets \in [Structs -> Seq(Nat)]
  BY DEF Init
<1>3. size \in [Structs -> Nat] /\ completed \in SUBSET Structs /\ s = NoStruct
      /\ i \in Nat \ {0} /\ align \in Nat \ {0} /\ offset \in Nat /\ turns \in Nat
  BY DEF Init
<1>4. phase \in Phases /\ failed \in BOOLEAN /\ q = << >> /\ at = << >>
  BY DEF Init, Phases
<1>5. TypeOK
  BY <1>1, <1>2, <1>3, <1>4 DEF TypeOK
<1> QED
  BY <1>5 DEF Init, IInv, FieldsSized, FieldsApart, WorkApart

(* Steps that change neither results nor the loop over fields. *)
LEMMA OtherSteps ==
    ASSUME IInv, UNCHANGED <<fields, result, work>>, TypeOK'
    PROVE  IInv'
BY DEF IInv, FieldsSized, FieldsApart, WorkApart, Apart, SizeOf, Known, result, work

(* Steps that leave the loop over fields, or start it. *)
LEMMA LeaveLoop ==
    ASSUME IInv, UNCHANGED <<fields, result>>, TypeOK',
           s' = NoStruct \/ (s' \notin completed /\ at' = << >> /\ i' = 1)
    PROVE  IInv'
<1>1. FieldsSized' /\ FieldsApart'
  BY DEF IInv, FieldsSized, FieldsApart, Apart, SizeOf, Known, result
<1>2. WorkApart'
  BY DEF WorkApart, Apart, result
<1> QED
  BY <1>1, <1>2 DEF IInv

LEMMA PlaceKeeps == IInv /\ PlaceField => IInv'
<1> SUFFICES ASSUME IInv, PlaceField PROVE IInv'
  OBVIOUS
<1> DEFINE n == SizeOf(FieldType)
           o == RoundUp(offset, n)
<1>1. /\ s \in Structs /\ s # NoStruct /\ i \in DOMAIN fields[s] /\ fields[s] \in Seq(Types)
      /\ n \in Nat \ {0} /\ Known(FieldType) /\ fields' = fields
  BY SizeOfNat DEF input, PlaceField, AtField, IInv, TypeOK, Known
<1>2. o \in Nat /\ o >= offset
  BY <1>1, RoundUpAbove DEF IInv, TypeOK
<1>3. at' = Append(at, o) /\ offset' = o + n /\ i' = i + 1 /\ s' = s
  BY DEF PlaceField
<1>4. Len(at) = i - 1 /\ at \in Seq(Nat) /\ i \in Nat \ {0} /\ DOMAIN at = 1 .. i - 1
  BY <1>1 DEF IInv, TypeOK
<1>5. /\ DOMAIN at' = 1 .. i /\ at' \in Seq(Nat) /\ Len(at') = i
      /\ \A k \in 1 .. i - 1 : at'[k] = at[k]
      /\ at'[i] = o
  BY <1>2, <1>3, <1>4
<1>6. TypeOK'
  <2>1. align' \in Nat \ {0} /\ offset' \in Nat
    BY <1>1, <1>2, <1>3 DEF PlaceField, IInv, TypeOK
  <2>2. i' \in 1 .. Len(fields'[s']) + 1 /\ Len(at') = i' - 1 /\ i' \in Nat \ {0}
    BY <1>1, <1>3, <1>4, <1>5 DEF PlaceField
  <2> QED
    BY <1>1, <1>5, <2>1, <2>2 DEF PlaceField, IInv, TypeOK, result, input
<1>7. FieldsSized' /\ FieldsApart'
  BY DEF PlaceField, IInv, FieldsSized, FieldsApart, Apart, SizeOf, Known, result, input
<1>8. WorkApart'
  <2>1. \A k \in 1 .. i - 1 : /\ SizeOf(fields[s][k]) \in Nat /\ at[k] \in Nat
                             /\ at[k] + SizeOf(fields[s][k]) <= offset
    <3> SUFFICES ASSUME NEW k \in 1 .. i - 1
                 PROVE  /\ SizeOf(fields[s][k]) \in Nat /\ at[k] \in Nat
                        /\ at[k] + SizeOf(fields[s][k]) <= offset
      OBVIOUS
    <3>1. k \in DOMAIN at /\ at[k] \in Nat
      BY <1>4
    <3>2. Known(fields[s][k]) /\ at[k] + SizeOf(fields[s][k]) <= offset
      BY <3>1, <1>1 DEF IInv, WorkApart, Apart
    <3>3. fields[s][k] \in Basic \cup Structs
      BY <3>2 DEF Known, IInv, TypeOK
    <3> QED
      BY <3>1, <3>2, <3>3, SizeOfNat DEF IInv
  <2>2. \A k, l \in 1 .. i - 1 : k < l => at[k] + SizeOf(fields[s][k]) <= at[l]
    BY <1>1, <1>4 DEF IInv, WorkApart, Apart
  <2>3. Apart(fields[s], at', o + n)
    <3> SUFFICES ASSUME NEW k \in 1 .. i
                 PROVE  /\ at'[k] + SizeOf(fields[s][k]) <= o + n
                        /\ \A l \in 1 .. i : k < l => at'[k] + SizeOf(fields[s][k]) <= at'[l]
      BY <1>5 DEF Apart
    <3>1. CASE k = i
      BY <3>1, <1>1, <1>2, <1>4, <1>5 DEF FieldType
    <3>2. CASE k < i
      <4>1. k \in 1 .. i - 1
        BY <3>2, <1>4
      <4>2. at[k] + SizeOf(fields[s][k]) <= o
        BY <4>1, <2>1, <1>2 DEF IInv, TypeOK
      <4>3. ASSUME NEW l \in 1 .. i, k < l
            PROVE  at'[k] + SizeOf(fields[s][k]) <= at'[l]
        <5>1. CASE l = i
          BY <5>1, <4>1, <4>2, <1>5
        <5>2. CASE l < i
          BY <5>2, <4>1, <4>3, <2>2, <1>4, <1>5
        <5> QED
          BY <5>1, <5>2, <1>4
      <4> QED
        BY <4>1, <4>2, <4>3, <2>1, <1>1, <1>2, <1>5
    <3> QED
      BY <3>1, <3>2, <1>4
  <2>4. size' = size /\ completed' = completed
    BY DEF PlaceField, result
  <2>5. Apart(fields[s], at, offset)'
    BY <2>3, <2>4, <1>1, <1>3 DEF Apart, SizeOf
  <2>6. \A k \in DOMAIN at' : Known(fields[s][k])'
    <3>1. \A k \in 1 .. i - 1 : Known(fields[s][k])
      BY <1>1, <1>4 DEF IInv, WorkApart
    <3>2. \A k \in 1 .. i : Known(fields[s][k])
      BY <3>1, <1>1, <1>4 DEF FieldType
    <3> QED
      BY <3>2, <2>4, <1>1, <1>3, <1>5 DEF Known
  <2>7. DOMAIN at' = 1 .. i' - 1 /\ s' \notin completed'
    BY <2>4, <1>1, <1>3, <1>4, <1>5 DEF IInv, WorkApart
  <2> QED
    BY <2>5, <2>6, <2>7, <1>1, <1>3 DEF WorkApart
<1> QED
  BY <1>6, <1>7, <1>8 DEF IInv

LEMMA CompleteKeeps == IInv /\ Complete => IInv'
<1> SUFFICES ASSUME IInv, Complete PROVE IInv'
  OBVIOUS
<1>1. /\ s \in Structs /\ s # NoStruct /\ s \notin completed /\ i = Len(fields[s]) + 1
      /\ fields[s] \in Seq(Types) /\ DOMAIN at = DOMAIN fields[s] /\ at \in Seq(Nat)
      /\ completed \subseteq Structs /\ fields' = fields
  BY DEF input, Complete, IInv, TypeOK, WorkApart
<1>2. FinalSize \in Nat /\ FinalSize >= offset /\ offset \in Nat
  BY RoundUpAbove DEF FinalSize, IInv, TypeOK
<1>3. TypeOK'
  BY <1>1, <1>2 DEF Complete, IInv, TypeOK, input
<1>4. /\ \A c \in completed : size'[c] = size[c] /\ offsets'[c] = offsets[c]
      /\ size'[s] = FinalSize /\ offsets'[s] = at
      /\ completed' = completed \cup {s} /\ fields' = fields
  BY <1>1 DEF Complete, IInv, TypeOK
<1>5. \A t : Known(t) => Known(t)' /\ SizeOf(t)' = SizeOf(t)
  BY <1>1, <1>4 DEF Known, SizeOf
<1>6. FieldsSized'
  BY <1>1, <1>4, <1>5 DEF IInv, FieldsSized, WorkApart, Complete
<1>7. ASSUME NEW c \in completed
      PROVE  DOMAIN offsets'[c] = DOMAIN fields[c] /\ Apart(fields[c], offsets[c], size[c])'
  <2>1. /\ DOMAIN offsets[c] = DOMAIN fields[c]
        /\ \A k \in DOMAIN offsets[c] : Known(fields[c][k])
        /\ Apart(fields[c], offsets[c], size[c])
    BY DEF IInv, FieldsSized, FieldsApart
  <2>2. \A k \in DOMAIN offsets[c] : SizeOf(fields[c][k])' = SizeOf(fields[c][k])
    BY <2>1, <1>4, <1>5, <1>1 DEF SizeOf, Known
  <2> QED
    BY <2>1, <2>2, <1>4 DEF Apart
<1>8. ASSUME NEW c, c = s
      PROVE  DOMAIN offsets'[c] = DOMAIN fields[c] /\ Apart(fields[c], offsets[c], size[c])'
  <2>1. \A k \in DOMAIN at : Known(fields[s][k]) /\ SizeOf(fields[s][k]) \in Nat /\ at[k] \in Nat
    BY <1>1, SizeOfNat DEF IInv, WorkApart, Known
  <2>2. Apart(fields[s], at, offset)
    BY <1>1 DEF IInv, WorkApart
  <2> QED
    <3>1. \A k \in DOMAIN at : SizeOf(fields[c][k])' = SizeOf(fields[c][k])
      BY <2>1, <1>8, <1>4, <1>1 DEF SizeOf, Known
    <3> QED
      BY <3>1, <1>8, <1>1, <1>2, <1>4, <2>1, <2>2 DEF Apart
<1>9. FieldsApart'
  BY <1>1, <1>4, <1>7, <1>8 DEF FieldsApart
<1>10. WorkApart'
  BY DEF Complete, WorkApart
<1> QED
  BY <1>3, <1>6, <1>9, <1>10 DEF IInv

LEMMA NextIInv == IInv /\ [Next]_vars => IInv'
<1> SUFFICES ASSUME IInv, [Next]_vars PROVE IInv'
  OBVIOUS
<1> USE DEF IInv
<1>1. CASE Analyse
  <2>1. TypeOK'
    BY <1>1 DEF Analyse, TypeOK, Phases, input, result, work
  <2> QED
    BY <1>1, <2>1, OtherSteps DEF Analyse, input
<1>2. CASE Queue
  <2>1. TypeOK'
    BY <1>2, InputAssumption DEF Queue, TypeOK, Phases, input, result, work
  <2> QED
    BY <1>2, <2>1, OtherSteps DEF Queue, input
<1>3. CASE GiveUp
  <2>1. TypeOK'
    BY <1>3 DEF GiveUp, TypeOK, Phases, input, result, work
  <2> QED
    BY <1>3, <2>1, OtherSteps DEF GiveUp, input
<1>4. CASE Throw
  <2>1. TypeOK'
    BY <1>4 DEF Throw, TypeOK, Phases, input, result, work
  <2> QED
    BY <1>4, <2>1, OtherSteps DEF Throw, input
<1>5. CASE Finish
  <2>1. TypeOK'
    BY <1>5 DEF Finish, TypeOK, Phases, input, result, work
  <2> QED
    BY <1>5, <2>1, OtherSteps DEF Finish, input
<1>6. CASE Take
  <2>1. Head(q) \in Structs /\ Tail(q) \in Seq(Structs) /\ fields[Head(q)] \in Seq(Types)
    BY <1>6 DEF Take, TypeOK
  <2>2. CASE Head(q) \in completed
    <3>1. TypeOK'
      BY <1>6, <2>1, <2>2 DEF Take, InLoop, NextTurn, TypeOK, Phases, input, result, work
    <3> QED
      BY <1>6, <2>2, <3>1, OtherSteps DEF Take, input
  <2>3. CASE Head(q) \notin completed
    <3>1. TypeOK'
      BY <1>6, <2>1, <2>3 DEF Take, Open, NextTurn, TypeOK, Phases, input, result
    <3> QED
      BY <1>6, <2>3, <3>1, LeaveLoop DEF Take, Open, input
  <2> QED
    BY <2>2, <2>3
<1>7. CASE Postpone \/ ZeroSize
  <2>1. s \in Structs /\ Append(q, s) \in Seq(Structs)
    BY <1>7 DEF Postpone, ZeroSize, AtField, TypeOK
  <2>2. TypeOK'
    BY <1>7, <2>1 DEF Postpone, ZeroSize, Requeue, TypeOK, Phases, input, result
  <2> QED
    BY <1>7, <2>2, LeaveLoop DEF Postpone, ZeroSize, Requeue, input
<1>8. CASE PlaceField
  BY <1>8, PlaceKeeps
<1>9. CASE Complete
  BY <1>9, CompleteKeeps
<1>10. CASE UNCHANGED vars
  <2>1. TypeOK'
    BY <1>10 DEF vars, TypeOK, input, result, work
  <2> QED
    BY <1>10, <2>1, OtherSteps DEF vars, input
<1> QED
  BY <1>1, <1>2, <1>3, <1>4, <1>5, <1>6, <1>7, <1>8, <1>9, <1>10 DEF Next

(***************************************************************************)
(* ComputeStructuresInfo keeps its variables within their types.           *)
(***************************************************************************)
THEOREM TypeCorrect == Spec => []TypeOK
<1>1. IInv => TypeOK
  BY DEF IInv
<1> QED
  BY <1>1, InitIInv, NextIInv, PTL DEF Spec

(***************************************************************************)
(* The fields of every struct with a size do not overlap and lie inside,   *)
(* with the final sizes of nested structs (ComputeStructuresInfo).         *)
(***************************************************************************)
THEOREM FieldsNeverOverlap == Spec => []FieldsApart
<1>1. IInv => FieldsApart
  BY DEF IInv
<1> QED
  BY <1>1, InitIInv, NextIInv, PTL DEF Spec

(***************************************************************************)
(* NoneLost is inductive once it is known that nothing has a size before   *)
(* the loop.                                                               *)
(***************************************************************************)
Once(w) == \A j, k \in DOMAIN w : j # k => w[j] # w[k]

NotYet == phase \in {"analyse", "rejected", "queue"} => s = NoStruct /\ completed = {}

QInv == TypeOK /\ NotYet /\ NoneLost

(* Taking the head of a queue without repetitions. *)
LEMMA TakeHead ==
    ASSUME NEW w \in Seq(Structs), w # << >>, Once(w)
    PROVE  /\ Once(Tail(w))
           /\ ToSet(w) = {Head(w)} \cup ToSet(Tail(w))
           /\ Head(w) \notin ToSet(Tail(w))
<1>1. /\ Len(w) \in Nat \ {0} /\ Head(w) = w[1] /\ DOMAIN w = 1 .. Len(w)
      /\ DOMAIN Tail(w) = 1 .. Len(w) - 1
      /\ \A k \in 1 .. Len(w) - 1 : Tail(w)[k] = w[k + 1]
  OBVIOUS
<1>2. \A k \in 1 .. Len(w) : k = 1 \/ (k - 1 \in 1 .. Len(w) - 1 /\ Tail(w)[k - 1] = w[k])
  BY <1>1
<1>3. ToSet(w) = {Head(w)} \cup ToSet(Tail(w))
  <2>1. \A x \in ToSet(w) : x \in {Head(w)} \cup ToSet(Tail(w))
    <3> SUFFICES ASSUME NEW k \in 1 .. Len(w) PROVE w[k] \in {Head(w)} \cup ToSet(Tail(w))
      BY <1>1 DEF ToSet
    <3>1. CASE k = 1
      BY <3>1, <1>1
    <3>2. CASE k # 1
      BY <3>2, <1>1, <1>2 DEF ToSet
    <3> QED
      BY <3>1, <3>2
  <2>2. Head(w) \in ToSet(w)
    BY <1>1 DEF ToSet
  <2>3. \A x \in ToSet(Tail(w)) : x \in ToSet(w)
    BY <1>1 DEF ToSet
  <2> QED
    BY <2>1, <2>2, <2>3
<1>4. Once(Tail(w))
  BY <1>1 DEF Once
<1>5. Head(w) \notin ToSet(Tail(w))
  BY <1>1 DEF Once, ToSet
<1> QED
  BY <1>3, <1>4, <1>5

(* Appending a new element to such a queue. *)
LEMMA AppendNew ==
    ASSUME NEW w \in Seq(Structs), NEW c \in Structs, Once(w), c \notin ToSet(w)
    PROVE  Once(Append(w, c)) /\ ToSet(Append(w, c)) = ToSet(w) \cup {c}
<1>1. /\ Len(w) \in Nat /\ DOMAIN w = 1 .. Len(w) /\ DOMAIN Append(w, c) = 1 .. Len(w) + 1
      /\ \A k \in 1 .. Len(w) : Append(w, c)[k] = w[k]
      /\ Append(w, c)[Len(w) + 1] = c
  OBVIOUS
<1>2. \A k \in 1 .. Len(w) + 1 : k \in 1 .. Len(w) \/ k = Len(w) + 1
  BY <1>1
<1>3. \A k \in DOMAIN w : w[k] # c
  BY DEF ToSet
<1>4. Once(Append(w, c))
  BY <1>1, <1>2, <1>3 DEF Once
<1>5. ToSet(Append(w, c)) = ToSet(w) \cup {c}
  BY <1>1, <1>2 DEF ToSet
<1> QED
  BY <1>4, <1>5

LEMMA InitQInv == Init => QInv
<1>1. Init => TypeOK
  BY InitIInv DEF IInv
<1> QED
  BY <1>1 DEF Init, QInv, NotYet, NoneLost

LEMMA NextQInv == QInv /\ TypeOK' /\ [Next]_vars => QInv'
<1> SUFFICES ASSUME QInv, TypeOK', [Next]_vars PROVE QInv'
  OBVIOUS
<1> USE DEF QInv, NotYet, NoneLost
<1>1. CASE Analyse
  BY <1>1 DEF Analyse, result, work
<1>2. CASE Queue
  BY <1>2, InputAssumption, TypesAssumption DEF Queue, result, work
<1>3. CASE GiveUp
  BY <1>3 DEF GiveUp, InLoop, result, work
<1>4. CASE Throw
  BY <1>4 DEF Throw, AtField, result, work
<1>5. CASE Finish
  BY <1>5 DEF Finish, InLoop, result, work
<1>6. CASE Take
  <2>1. /\ q \in Seq(Structs) /\ q # << >> /\ Once(q) /\ s = NoStruct /\ phase = "layout"
        /\ q' = Tail(q) /\ phase' = phase /\ completed' = completed
    BY <1>6 DEF Take, InLoop, TypeOK, Once, result
  <2>2. Head(q) \in ToSet(q) /\ Head(q) \notin completed
    BY <2>1, TakeHead
  <2>3. s' = Head(q) /\ s' \in Structs
    BY <1>6, <2>1, <2>2 DEF Take, Open
  <2>4. Once(q') /\ ToSet(q) = {s'} \cup ToSet(q') /\ s' \notin ToSet(q')
    BY <2>1, <2>3, TakeHead
  <2> QED
    BY <2>1, <2>2, <2>3, <2>4, TypesAssumption DEF Once
<1>7. CASE Postpone \/ ZeroSize
  <2>1. /\ s \in Structs /\ q \in Seq(Structs) /\ Once(q) /\ s \notin ToSet(q)
        /\ phase = "layout" /\ q' = Append(q, s) /\ s' = NoStruct
        /\ phase' = phase /\ completed' = completed
    BY <1>7 DEF Postpone, ZeroSize, AtField, Requeue, TypeOK, Once, result
  <2>2. Once(q') /\ ToSet(q') = ToSet(q) \cup {s}
    BY <2>1, AppendNew
  <2>3. NoStruct \notin ToSet(q') \cup completed'
    BY <2>1, <2>2, TypesAssumption DEF TypeOK, ToSet
  <2> QED
    BY <2>1, <2>2, <2>3 DEF Once
<1>8. CASE PlaceField
  BY <1>8 DEF PlaceField, result
<1>9. CASE Complete
  <2>1. /\ s \in Structs /\ q' = q /\ phase' = phase /\ phase = "layout"
        /\ completed' = completed \cup {s} /\ s' = NoStruct
    BY <1>9 DEF Complete, TypeOK
  <2>2. NoStruct \notin ToSet(q') \cup completed'
    BY <2>1, TypesAssumption DEF TypeOK, ToSet
  <2> QED
    BY <2>1, <2>2
<1>10. CASE UNCHANGED vars
  BY <1>10 DEF vars, result, work
<1> QED
  BY <1>1, <1>2, <1>3, <1>4, <1>5, <1>6, <1>7, <1>8, <1>9, <1>10 DEF Next

(***************************************************************************)
(* In the loop every struct waits once, is at work or has its size         *)
(* (ComputeStructuresInfo).                                                *)
(***************************************************************************)
THEOREM NoStructLost == Spec => []NoneLost
<1>1. QInv => NoneLost
  BY DEF QInv
<1> QED
  BY <1>1, InitQInv, NextQInv, TypeCorrect, PTL DEF Spec

-----------------------------------------------------------------------------
(***************************************************************************)
(* SizeKeepsAlignment.  While the fields of s are placed, align is the     *)
(* size of the largest field so far: at least that of each of them, and    *)
(* that of one of them unless there are none.                              *)
(***************************************************************************)
Largest ==
    s # NoStruct =>
        /\ \A k \in 1 .. i - 1 : SizeOf(fields[s][k]) <= align
        /\ i # 1 => \E k \in 1 .. i - 1 : SizeOf(fields[s][k]) = align
        /\ i = 1 => align = 1

AlignInv == IInv /\ Largest /\ SizeKeepsAlignment

(* Rounding up gives a multiple. *)
LEMMA RoundUpMultiple ==
    ASSUME NEW n \in Nat, NEW d \in Nat \ {0}
    PROVE  RoundUp(n, d) % d = 0
<1> DEFINE r == n + (d - (n % d))
<1>1. r % d = 0
  BY SMTT(30)
<1>2. CASE n % d = 0
  <2>1. RoundUp(n, d) = n
    BY <1>2 DEF RoundUp
  <2>2. QED
    BY <1>2, <2>1
<1>3. CASE n % d # 0
  <2>1. RoundUp(n, d) = r
    BY <1>3 DEF RoundUp
  <2> HIDE DEF r
  <2>2. QED
    BY <1>1, <2>1
<1>4. QED
  BY <1>2, <1>3

(* The sizes of the fields that are placed are numbers. *)
LEMMA PlacedSizes ==
    ASSUME IInv, s # NoStruct
    PROVE  /\ \A k \in 1 .. i - 1 : SizeOf(fields[s][k]) \in Nat /\ Known(fields[s][k])
           /\ s \in Structs /\ i \in Nat \ {0} /\ align \in Nat \ {0}
           /\ 1 .. i - 1 \subseteq DOMAIN fields[s]
<1>1. /\ s \in Structs /\ i \in 1 .. Len(fields[s]) + 1 /\ fields[s] \in Seq(Types)
      /\ DOMAIN at = 1 .. i - 1 /\ i \in Nat \ {0} /\ align \in Nat \ {0}
  BY DEF IInv, TypeOK, WorkApart
<1>2. \A k \in 1 .. i - 1 : Known(fields[s][k])
  BY <1>1 DEF IInv, WorkApart
<1>3. \A k \in 1 .. i - 1 : fields[s][k] \in Basic \cup Structs
  BY <1>2 DEF Known, IInv, TypeOK
<1>4. \A k \in 1 .. i - 1 : SizeOf(fields[s][k]) \in Nat
  BY <1>3, SizeOfNat DEF IInv
<1>5. 1 .. i - 1 \subseteq DOMAIN fields[s]
  BY <1>1
<1>6. QED
  BY <1>1, <1>2, <1>4, <1>5

LEMMA AlignPlace == AlignInv /\ PlaceField => Largest'
<1> SUFFICES ASSUME AlignInv, PlaceField PROVE Largest'
  OBVIOUS
<1> DEFINE n == SizeOf(FieldType)
           Sz(k) == SizeOf(fields[s][k])
<1>1. /\ s # NoStruct /\ i \in Nat \ {0} /\ align \in Nat \ {0} /\ n \in Nat \ {0}
      /\ \A k \in 1 .. i - 1 : Sz(k) \in Nat
  <2>1. s # NoStruct /\ Known(FieldType) /\ n # 0
    BY DEF PlaceField, AtField
  <2>2. FieldType \in Basic \cup Structs
    BY <2>1 DEF Known, AlignInv, IInv, TypeOK
  <2>3. n \in Nat
    BY <2>2, SizeOfNat DEF AlignInv, IInv
  <2>4. /\ i \in Nat \ {0} /\ align \in Nat \ {0}
        /\ \A k \in 1 .. i - 1 : Sz(k) \in Nat
    BY <2>1, PlacedSizes DEF AlignInv
  <2> HIDE DEF n, Sz
  <2>5. QED
    BY <2>1, <2>3, <2>4
<1>2. /\ UNCHANGED <<fields, s, size>> /\ i' = i + 1
      /\ align' = IF align < n THEN n ELSE align
      /\ Sz(i) = n
  BY DEF PlaceField, result, input, FieldType
<1>3. \A k \in 1 .. i - 1 : Sz(k) <= align
  BY <1>1 DEF AlignInv, Largest
<1>4. i # 1 => \E k \in 1 .. i - 1 : Sz(k) = align
  BY <1>1 DEF AlignInv, Largest
<1> HIDE DEF n, Sz
<1>5. \A k \in 1 .. i : Sz(k) <= align'
  <2>1. SUFFICES ASSUME NEW k \in 1 .. i PROVE Sz(k) <= align'
    OBVIOUS
  <2>2. CASE k = i
    BY <1>1, <1>2, <2>2
  <2>3. CASE k \in 1 .. i - 1
    BY <1>1, <1>2, <1>3, <2>3
  <2>4. QED
    BY <1>1, <2>2, <2>3
<1>6. \E k \in 1 .. i : Sz(k) = align'
  <2>1. CASE align' = n
    BY <1>1, <1>2, <2>1
  <2>2. CASE align' # n
    <3>1. align' = align /\ n <= align /\ n # align
      BY <1>1, <1>2, <2>2
    <3>2. i # 1
      <4>1. SUFFICES ASSUME i = 1 PROVE FALSE
        OBVIOUS
      <4>2. align = 1
        BY <1>1, <4>1 DEF AlignInv, Largest
      <4>3. QED
        BY <1>1, <3>1, <4>2
    <3>3. QED
      BY <1>1, <1>4, <3>1, <3>2
  <2>3. QED
    BY <2>1, <2>2
<1>7. \A k \in 1 .. i : SizeOf(fields[s][k])' = Sz(k)
  BY <1>2 DEF Sz, SizeOf
<1>8. QED
  BY <1>1, <1>2, <1>5, <1>6, <1>7 DEF Largest

LEMMA AlignComplete == AlignInv /\ Complete => SizeKeepsAlignment'
<1> SUFFICES ASSUME AlignInv, Complete PROVE SizeKeepsAlignment'
  OBVIOUS
<1> DEFINE New(t) == IF t \in Basic THEN BasicSize[t] ELSE size'[t]
           Old(c, k) == SizeOf(fields[c][k])
<1>1. /\ s # NoStruct /\ s \in Structs /\ s \notin completed /\ completed \subseteq Structs
      /\ i = Len(fields[s]) + 1 /\ fields[s] \in Seq(Types)
      /\ DOMAIN fields[s] = 1 .. i - 1 /\ fields' = fields
      /\ completed' = completed \cup {s} /\ size' = [size EXCEPT ![s] = FinalSize]
      /\ size \in [Structs -> Nat] /\ offset \in Nat /\ align \in Nat \ {0}
  BY DEF AlignInv, IInv, TypeOK, WorkApart, Complete, input
<1>2. \A t : Known(t) => New(t) = SizeOf(t)
  BY <1>1 DEF Known, SizeOf
<1>3. SUFFICES ASSUME NEW c \in completed \cup {s}, NEW k \in DOMAIN fields[c],
                      \A l \in DOMAIN fields[c] : New(fields[c][l]) <= New(fields[c][k])
               PROVE  size'[c] % New(fields[c][k]) = 0
  BY <1>1 DEF SizeKeepsAlignment, SizeOf
<1>4. \A l \in DOMAIN fields[c] : Known(fields[c][l])
  BY <1>1, <1>3, PlacedSizes DEF AlignInv, IInv, FieldsSized
<1>5. \A l \in DOMAIN fields[c] : New(fields[c][l]) = Old(c, l)
  BY <1>2, <1>4
<1> HIDE DEF New
<1>6. \A l \in DOMAIN fields[c] : Old(c, l) <= Old(c, k)
  BY <1>3, <1>5
<1>7. CASE c \in completed
  <2>1. size[c] % Old(c, k) = 0
    BY <1>6, <1>7 DEF AlignInv, SizeKeepsAlignment
  <2>2. QED
    BY <1>1, <1>5, <1>7, <2>1
<1>8. CASE c = s
  <2>1. k \in 1 .. i - 1 /\ i \in Nat /\ i # 1
    BY <1>1, <1>3, <1>8, PlacedSizes DEF AlignInv
  <2>2. PICK l \in 1 .. i - 1 : Old(s, l) = align
    BY <1>1, <2>1 DEF AlignInv, Largest
  <2>3. Old(s, l) <= Old(s, k)
    BY <1>1, <1>6, <1>8, <2>2
  <2>4. Old(s, k) <= align
    BY <1>1, <2>1 DEF AlignInv, Largest
  <2>5. Old(s, k) \in Nat
    BY <1>1, <2>1, PlacedSizes DEF AlignInv
  <2> HIDE DEF Old
  <2>6. Old(s, k) = align
    BY <1>1, <2>2, <2>3, <2>4, <2>5
  <2>7. size'[s] % align = 0
    BY <1>1, RoundUpMultiple DEF FinalSize
  <2>8. QED
    BY <1>3, <1>5, <1>8, <2>6, <2>7
<1>9. QED
  BY <1>3, <1>7, <1>8

(***************************************************************************)
(* The size of every struct is a multiple of the size of its largest       *)
(* field, whatever the structs and the order of the queue, so that an      *)
(* array of structs keeps the alignment (ComputeStructuresInfo).           *)
(***************************************************************************)
THEOREM SizeAlwaysAligned == Spec => []SizeKeepsAlignment
<1>1. Init => AlignInv
  BY InitIInv DEF Init, AlignInv, Largest, SizeKeepsAlignment
<1>2. AlignInv /\ [Next]_vars => AlignInv'
  <2>1. SUFFICES ASSUME AlignInv, [Next]_vars PROVE Largest' /\ SizeKeepsAlignment'
    BY NextIInv DEF AlignInv
  <2>2. ASSUME UNCHANGED <<fields, result>> PROVE SizeKeepsAlignment'
    BY <2>1, <2>2 DEF AlignInv, SizeKeepsAlignment, SizeOf, result
  <2>3. ASSUME UNCHANGED <<fields, result, work>> PROVE Largest'
    BY <2>1, <2>3 DEF AlignInv, Largest, SizeOf, result, work
  <2>4. CASE Analyse \/ Queue \/ GiveUp \/ Throw \/ Finish \/ UNCHANGED vars
    BY <2>2, <2>3, <2>4 DEF Analyse, Queue, GiveUp, Throw, Finish, vars, input
  <2>5. CASE Take
    <3>1. SizeKeepsAlignment'
      BY <2>2, <2>5 DEF Take, input
    <3>2. CASE Head(q) \in completed
      BY <2>3, <2>5, <3>1, <3>2 DEF Take, input
    <3>3. CASE Head(q) \notin completed
      BY <2>5, <3>1, <3>3 DEF Take, Open, Largest
    <3>4. QED
      BY <3>2, <3>3
  <2>6. CASE Postpone \/ ZeroSize
    BY <2>2, <2>6 DEF Postpone, ZeroSize, Requeue, Largest, input
  <2>7. CASE PlaceField
    BY <2>1, <2>2, <2>7, AlignPlace DEF PlaceField, input
  <2>8. CASE Complete
    BY <2>1, <2>8, AlignComplete DEF Complete, Largest
  <2>9. QED
    BY <2>1, <2>4, <2>5, <2>6, <2>7, <2>8 DEF Next
<1>3. AlignInv => SizeKeepsAlignment
  BY DEF AlignInv
<1>4. QED
  BY <1>1, <1>2, <1>3, PTL DEF Spec

-----------------------------------------------------------------------------
(***************************************************************************)
(* StructContainsType.  The search goes into fewer and fewer structs, so   *)
(* that its equation has one solution: it finds target just when target    *)
(* is among the types that can be reached.                                 *)
(***************************************************************************)
(* A set of natural numbers that is not empty has a least one. *)
LEMMA LeastNumber ==
    ASSUME NEW S \in SUBSET Nat, S # {}
    PROVE  \E a \in S : \A b \in S : a <= b
<1> DEFINE Less == {ab \in Nat \X Nat : ab[1] < ab[2]}
<1>1. IsWellFoundedOn(Less, Nat)
  BY NatLessThanWellFounded DEF OpToRel
<1> HIDE DEF Less
<1>2. PICK a \in S : \A b \in S : <<b, a>> \notin Less
  BY <1>1, WFMin
<1> USE DEF Less
<1>3. \A b \in S : ~ (b < a)
  BY <1>2
<1> QED
  BY <1>3

(***************************************************************************)
(* The search finds target from some types unless it misses it: there are  *)
(* structs that are closed, up to those already visited, under the types   *)
(* of their fields and have target nowhere.                                *)
(***************************************************************************)
Closed(target, f, V, visited) ==
    \A c \in V : target \notin ToSet(f[c]) /\ ToSet(f[c]) \cap Structs \subseteq V \cup visited

Misses(target, f, from, visited) ==
    /\ target \notin from
    /\ \E V \in SUBSET Structs :
          from \cap Structs \subseteq V \cup visited /\ Closed(target, f, V, visited)

(* The equation of the search. *)
Call(g, target, f, todo, visited) ==
    IF todo = << >> THEN FALSE
    ELSE IF Head(todo) = target THEN TRUE
    ELSE IF Head(todo) \in Structs \ visited
    THEN g[<<f[Head(todo)] \o Tail(todo), visited \cup {Head(todo)}>>]
    ELSE g[<<Tail(todo), visited>>]

Body(g, target, f) ==
    [call \in Seq(Types) \X SUBSET Structs |-> Call(g, target, f, call[1], call[2])]

LEMMA SolutionStep ==
    ASSUME NEW target, NEW f, NEW g, g = Body(g, target, f)
    PROVE  \A x \in Seq(Types), y \in SUBSET Structs : g[<<x, y>>] = Call(g, target, f, x, y)
BY DEF Body

Found(target, f) == CHOOSE g : g = Body(g, target, f)

LEMMA ContainsTypeIsFound ==
    ASSUME NEW target, NEW f
    PROVE  ContainsType(target, f) = {t \in Structs : Found(target, f)[<< <<t>>, {} >>]}
BY DEF ContainsType, Found, Body, Call

(* What a list has to look at: its head and its tail. *)
LEMMA HeadTail ==
    ASSUME NEW w \in Seq(Types), w # << >>
    PROVE  /\ Head(w) \in Types /\ Tail(w) \in Seq(Types) /\ Len(Tail(w)) = Len(w) - 1
           /\ Len(w) \in Nat \ {0}
           /\ ToSet(w) = {Head(w)} \cup ToSet(Tail(w))
<1>1. /\ Len(w) \in Nat \ {0} /\ Head(w) = w[1] /\ DOMAIN w = 1 .. Len(w)
      /\ Tail(w) \in Seq(Types) /\ Len(Tail(w)) = Len(w) - 1
      /\ DOMAIN Tail(w) = 1 .. Len(w) - 1 /\ Head(w) \in Types
      /\ \A k \in 1 .. Len(w) - 1 : Tail(w)[k] = w[k + 1]
  OBVIOUS
<1>2. \A k \in 1 .. Len(w) : k = 1 \/ (k - 1 \in 1 .. Len(w) - 1 /\ Tail(w)[k - 1] = w[k])
  BY <1>1
<1>3. \A x \in ToSet(w) : x \in {Head(w)} \cup ToSet(Tail(w))
  <2> SUFFICES ASSUME NEW k \in 1 .. Len(w) PROVE w[k] \in {Head(w)} \cup ToSet(Tail(w))
    BY <1>1 DEF ToSet
  <2>1. CASE k = 1
    BY <2>1, <1>1
  <2>2. CASE k # 1
    BY <2>2, <1>1, <1>2 DEF ToSet
  <2> QED
    BY <2>1, <2>2
<1>4. Head(w) \in ToSet(w)
  BY <1>1 DEF ToSet
<1>5. \A x \in ToSet(Tail(w)) : x \in ToSet(w)
  BY <1>1 DEF ToSet
<1> QED
  BY <1>1, <1>3, <1>4, <1>5

LEMMA Concatenated ==
    ASSUME NEW v \in Seq(Types), NEW w \in Seq(Types)
    PROVE  v \o w \in Seq(Types) /\ ToSet(v \o w) = ToSet(v) \cup ToSet(w)
<1> DEFINE z == v \o w
<1>1. /\ Len(v) \in Nat /\ Len(w) \in Nat /\ Len(z) = Len(v) + Len(w) /\ z \in Seq(Types)
      /\ DOMAIN v = 1 .. Len(v) /\ DOMAIN w = 1 .. Len(w) /\ DOMAIN z = 1 .. Len(z)
      /\ \A k \in 1 .. Len(v) : z[k] = v[k]
      /\ \A k \in 1 .. Len(w) : z[Len(v) + k] = w[k]
  OBVIOUS
<1> HIDE DEF z
<1>2. \A k \in 1 .. Len(z) : k \in 1 .. Len(v) \/ (k - Len(v) \in 1 .. Len(w) /\ Len(v) + (k - Len(v)) = k)
  BY <1>1
<1>3. \A k \in 1 .. Len(w) : Len(v) + k \in 1 .. Len(z)
  BY <1>1
<1>4. \A k \in 1 .. Len(v) : k \in 1 .. Len(z)
  BY <1>1
<1>5. \A x \in ToSet(z) : x \in ToSet(v) \cup ToSet(w)
  <2> SUFFICES ASSUME NEW k \in 1 .. Len(z) PROVE z[k] \in ToSet(v) \cup ToSet(w)
    BY <1>1 DEF ToSet
  <2>1. CASE k \in 1 .. Len(v)
    BY <2>1, <1>1 DEF ToSet
  <2>2. CASE k - Len(v) \in 1 .. Len(w) /\ Len(v) + (k - Len(v)) = k
    <3>1. z[k] = w[k - Len(v)]
      BY <2>2, <1>1
    <3> QED
      BY <2>2, <3>1, <1>1 DEF ToSet
  <2> QED
    BY <2>1, <2>2, <1>2
<1>6. \A x \in ToSet(v) : x \in ToSet(z)
  BY <1>1, <1>4 DEF ToSet
<1>7. \A x \in ToSet(w) : x \in ToSet(z)
  BY <1>1, <1>3 DEF ToSet
<1>8. z \in Seq(Types) /\ ToSet(z) = ToSet(v) \cup ToSet(w)
  BY <1>1, <1>5, <1>6, <1>7
<1> QED
  BY <1>8 DEF z

(* Looking into a struct misses target just when looking at it does. *)
LEMMA MissesInside ==
    ASSUME NEW f, NEW target, NEW visited \in SUBSET Structs,
           NEW h \in Structs \ visited, h # target, NEW rest
    PROVE  Misses(target, f, {h} \cup rest, visited)
               <=> Misses(target, f, ToSet(f[h]) \cup rest, visited \cup {h})
<1>1. ASSUME Misses(target, f, {h} \cup rest, visited)
      PROVE  Misses(target, f, ToSet(f[h]) \cup rest, visited \cup {h})
  <2>1. PICK V \in SUBSET Structs :
           ({h} \cup rest) \cap Structs \subseteq V \cup visited /\ Closed(target, f, V, visited)
    BY <1>1 DEF Misses
  <2>2. h \in V
    BY <2>1
  <2>3. target \notin ToSet(f[h]) /\ ToSet(f[h]) \cap Structs \subseteq V \cup visited
    BY <2>1, <2>2 DEF Closed
  <2>4. Closed(target, f, V, visited \cup {h})
    BY <2>1 DEF Closed
  <2> QED
    BY <1>1, <2>1, <2>3, <2>4 DEF Misses
<1>2. ASSUME Misses(target, f, ToSet(f[h]) \cup rest, visited \cup {h})
      PROVE  Misses(target, f, {h} \cup rest, visited)
  <2>1. PICK V \in SUBSET Structs :
           /\ (ToSet(f[h]) \cup rest) \cap Structs \subseteq V \cup (visited \cup {h})
           /\ Closed(target, f, V, visited \cup {h})
    BY <1>2 DEF Misses
  <2>2. Closed(target, f, V \cup {h}, visited)
    BY <1>2, <2>1 DEF Closed, Misses
  <2>3. V \cup {h} \in SUBSET Structs /\ ({h} \cup rest) \cap Structs \subseteq (V \cup {h}) \cup visited
    BY <2>1
  <2> QED
    BY <1>2, <2>2, <2>3 DEF Misses
<1> QED
  BY <1>1, <1>2

(* Looking on, past a type that is no struct or was visited. *)
LEMMA MissesPast ==
    ASSUME NEW f, NEW target, NEW visited \in SUBSET Structs,
           NEW h, h \notin Structs \ visited, h # target, NEW rest
    PROVE  Misses(target, f, {h} \cup rest, visited) <=> Misses(target, f, rest, visited)
BY DEF Misses

LEMMA MissesNothing ==
    ASSUME NEW f, NEW target, NEW visited \in SUBSET Structs
    PROVE  Misses(target, f, ToSet(<< >>), visited)
<1>1. ToSet(<< >>) = {}
  BY DEF ToSet
<1>2. Closed(target, f, {}, visited)
  BY DEF Closed
<1> QED
  BY <1>1, <1>2 DEF Misses

Answer(target, f) ==
    [call \in Seq(Types) \X SUBSET Structs |->
        IF Misses(target, f, ToSet(call[1]), call[2]) THEN FALSE ELSE TRUE]

(* One call of the search, in terms of the types it looks at. *)
LEMMA SearchStep ==
    ASSUME NEW f \in [Structs -> Seq(Types)], NEW target,
           NEW todo \in Seq(Types), NEW visited \in SUBSET Structs,
           todo # << >>, Head(todo) # target
    PROVE  /\ Head(todo) \in Structs \ visited =>
                 /\ f[Head(todo)] \o Tail(todo) \in Seq(Types)
                 /\ visited \cup {Head(todo)} \in SUBSET Structs
                 /\ Misses(target, f, ToSet(todo), visited)
                       <=> Misses(target, f, ToSet(f[Head(todo)] \o Tail(todo)),
                                  visited \cup {Head(todo)})
           /\ Head(todo) \notin Structs \ visited =>
                 /\ Tail(todo) \in Seq(Types)
                 /\ Misses(target, f, ToSet(todo), visited)
                       <=> Misses(target, f, ToSet(Tail(todo)), visited)
<1>1. /\ Tail(todo) \in Seq(Types)
      /\ ToSet(todo) = {Head(todo)} \cup ToSet(Tail(todo))
  BY HeadTail
<1>2. CASE Head(todo) \in Structs \ visited
  <2>1. f[Head(todo)] \in Seq(Types)
    BY <1>2
  <2>2. /\ f[Head(todo)] \o Tail(todo) \in Seq(Types)
        /\ ToSet(f[Head(todo)] \o Tail(todo)) = ToSet(f[Head(todo)]) \cup ToSet(Tail(todo))
    BY <1>1, <2>1, Concatenated
  <2>3. Misses(target, f, {Head(todo)} \cup ToSet(Tail(todo)), visited)
          <=> Misses(target, f, ToSet(f[Head(todo)]) \cup ToSet(Tail(todo)), visited \cup {Head(todo)})
    BY <1>2, MissesInside
  <2> QED
    BY <1>1, <1>2, <2>2, <2>3
<1>3. CASE Head(todo) \notin Structs \ visited
  <2>1. Misses(target, f, {Head(todo)} \cup ToSet(Tail(todo)), visited)
          <=> Misses(target, f, ToSet(Tail(todo)), visited)
    BY <1>3, MissesPast
  <2> QED
    BY <1>1, <1>3, <2>1
<1> QED
  BY <1>2, <1>3

LEMMA AnswerSolves ==
    ASSUME NEW f \in [Structs -> Seq(Types)], NEW target
    PROVE  Answer(target, f) = Body(Answer(target, f), target, f)
<1> DEFINE g == Answer(target, f)
<1>1. \A todo \in Seq(Types), visited \in SUBSET Structs :
         g[<<todo, visited>>] = IF Misses(target, f, ToSet(todo), visited) THEN FALSE ELSE TRUE
  BY DEF Answer
<1> HIDE DEF g
<1>2. ASSUME NEW todo \in Seq(Types), NEW visited \in SUBSET Structs
      PROVE  Call(g, target, f, todo, visited) = IF Misses(target, f, ToSet(todo), visited) THEN FALSE ELSE TRUE
  <2>1. CASE todo = << >>
    BY <2>1, MissesNothing DEF Call
  <2>2. CASE todo # << >> /\ Head(todo) = target
    <3>1. target \in ToSet(todo)
      BY <2>2, HeadTail
    <3> QED
      BY <2>2, <3>1 DEF Misses, Call
  <2>3. CASE todo # << >> /\ Head(todo) # target /\ Head(todo) \in Structs \ visited
    <3> DEFINE more == f[Head(todo)] \o Tail(todo)
               seen == visited \cup {Head(todo)}
    <3>1. /\ more \in Seq(Types) /\ seen \in SUBSET Structs
          /\ Misses(target, f, ToSet(todo), visited) <=> Misses(target, f, ToSet(more), seen)
      <4>1. /\ f[Head(todo)] \o Tail(todo) \in Seq(Types)
            /\ visited \cup {Head(todo)} \in SUBSET Structs
        BY <2>3, SearchStep
      <4>2. Misses(target, f, ToSet(todo), visited)
               <=> Misses(target, f, ToSet(f[Head(todo)] \o Tail(todo)), visited \cup {Head(todo)})
        BY <2>3, SearchStep, Zenon
      <4> QED
        BY <4>1, <4>2
    <3>2. Call(g, target, f, todo, visited) = g[<<more, seen>>]
      BY <2>3 DEF Call
    <3> HIDE DEF more, seen
    <3> QED
      BY <1>1, <3>1, <3>2
  <2>4. CASE todo # << >> /\ Head(todo) # target /\ Head(todo) \notin Structs \ visited
    <3>1. /\ Tail(todo) \in Seq(Types)
          /\ Misses(target, f, ToSet(todo), visited) <=> Misses(target, f, ToSet(Tail(todo)), visited)
      BY <2>4, SearchStep
    <3>2. Call(g, target, f, todo, visited) = g[<<Tail(todo), visited>>]
      BY <2>4 DEF Call
    <3> QED
      BY <1>1, <3>1, <3>2
  <2> QED
    BY <2>1, <2>2, <2>3, <2>4
<1>3. Body(g, target, f) = [call \in Seq(Types) \X SUBSET Structs |-> Call(g, target, f, call[1], call[2])]
  BY DEF Body
<1>4. Body(g, target, f) = [call \in Seq(Types) \X SUBSET Structs |->
                               IF Misses(target, f, ToSet(call[1]), call[2]) THEN FALSE ELSE TRUE]
  BY <1>2, <1>3
<1>5. g = Body(g, target, f)
  BY <1>4 DEF g, Answer
<1> QED
  BY <1>5 DEF g

LEMMA FoundSolves ==
    ASSUME NEW f \in [Structs -> Seq(Types)], NEW target
    PROVE  Found(target, f) = Body(Found(target, f), target, f)
BY AnswerSolves DEF Found

(* There is one solution: where the search goes, less is left to visit, or *)
(* as much and fewer types to look at.                                     *)
LEMMA FoundIsAnswer ==
    ASSUME NEW f \in [Structs -> Seq(Types)], NEW target,
           NEW todo \in Seq(Types), NEW visited \in SUBSET Structs
    PROVE  Found(target, f)[<<todo, visited>>] = Answer(target, f)[<<todo, visited>>]
<1> DEFINE g == Found(target, f)
           a == Answer(target, f)
           Left(v) == Cardinality(Structs \ v)
           Wrong(x, y) == g[<<x, y>>] # a[<<x, y>>]
           Lefts == {m \in Nat : \E x \in Seq(Types), y \in SUBSET Structs :
                                    Wrong(x, y) /\ Left(y) = m}
<1>1. /\ \A x \in Seq(Types), y \in SUBSET Structs : g[<<x, y>>] = Call(g, target, f, x, y)
      /\ \A x \in Seq(Types), y \in SUBSET Structs : a[<<x, y>>] = Call(a, target, f, x, y)
  <2>1. g = Body(g, target, f) /\ a = Body(a, target, f)
    BY FoundSolves, AnswerSolves
  <2> HIDE DEF g, a
  <2> QED
    BY <2>1, SolutionStep
<1>2. \A v \in SUBSET Structs : Left(v) \in Nat
  <2>1. \A v \in SUBSET Structs : IsFiniteSet(Structs \ v)
    BY TypesAssumption, FS_Difference
  <2> QED
    BY <2>1, FS_CardinalityType
<1>3. \A v \in SUBSET Structs, h \in Structs : h \notin v => Left(v \cup {h}) < Left(v)
  <2> SUFFICES ASSUME NEW v \in SUBSET Structs, NEW h \in Structs, h \notin v
               PROVE  Left(v \cup {h}) < Left(v)
    OBVIOUS
  <2>1. IsFiniteSet(Structs \ v)
    BY TypesAssumption, FS_Difference
  <2>2. Structs \ (v \cup {h}) = (Structs \ v) \ {h} /\ h \in Structs \ v
    OBVIOUS
  <2>3. Cardinality((Structs \ v) \ {h}) = Cardinality(Structs \ v) - 1
    BY <2>1, <2>2, FS_RemoveElement
  <2>4. Left(v \cup {h}) = Left(v) - 1
    BY <2>2, <2>3
  <2> HIDE DEF Left
  <2> QED
    BY <1>2, <2>4
<1> HIDE DEF g, a, Left
<1>4. SUFFICES ASSUME Wrong(todo, visited) PROVE FALSE
  BY DEF g, a
<1>5. Lefts \in SUBSET Nat /\ Lefts # {}
  BY <1>2, <1>4
<1>6. PICK n \in Lefts : \A b \in Lefts : n <= b
  <2> HIDE DEF Lefts
  <2> QED
    BY <1>5, LeastNumber
<1> DEFINE Lens == {m \in Nat : \E x \in Seq(Types), y \in SUBSET Structs :
                                   Wrong(x, y) /\ Left(y) = n /\ Len(x) = m}
<1>7. Lens \in SUBSET Nat /\ Lens # {}
  <2>1. PICK x \in Seq(Types), y \in SUBSET Structs : Wrong(x, y) /\ Left(y) = n
    BY <1>6
  <2>2. Len(x) \in Nat
    OBVIOUS
  <2> QED
    BY <2>1, <2>2
<1>8. PICK l \in Lens : \A b \in Lens : l <= b
  <2> HIDE DEF Lens
  <2> QED
    BY <1>7, LeastNumber
<1>9. PICK w \in Seq(Types), v \in SUBSET Structs :
         Wrong(w, v) /\ Left(v) = n /\ Len(w) = l
  BY <1>8
<1>10. n \in Nat /\ l \in Nat
  BY <1>5, <1>6, <1>7, <1>8
<1>11. \A x \in Seq(Types), y \in SUBSET Structs :
         Wrong(x, y) => n <= Left(y) /\ (Left(y) = n => l <= Len(x))
  <2> SUFFICES ASSUME NEW x \in Seq(Types), NEW y \in SUBSET Structs, Wrong(x, y)
               PROVE  n <= Left(y) /\ (Left(y) = n => l <= Len(x))
    OBVIOUS
  <2>1. Left(y) \in Lefts
    BY <1>2
  <2>2. Len(x) \in Nat
    OBVIOUS
  <2>3. Left(y) = n => Len(x) \in Lens
    BY <2>2
  <2> HIDE DEF Lefts, Lens, Wrong
  <2> QED
    BY <2>1, <2>3, <1>6, <1>8
<1> HIDE DEF Lefts, Lens
<1>12. w # << >> /\ Head(w) # target
  BY <1>1, <1>9 DEF Call
<1>13. CASE Head(w) \in Structs \ v
  <2> DEFINE more == f[Head(w)] \o Tail(w)
             seen == v \cup {Head(w)}
  <2>1. more \in Seq(Types) /\ seen \in SUBSET Structs
    BY <1>12, <1>13, SearchStep
  <2>2. Left(seen) < Left(v) /\ Left(seen) \in Nat
    BY <1>2, <1>3, <1>13, <2>1
  <2>3. g[<<w, v>>] = g[<<more, seen>>] /\ a[<<w, v>>] = a[<<more, seen>>]
    BY <1>1, <1>12, <1>13 DEF Call
  <2> HIDE DEF more, seen
  <2>4. n <= Left(seen)
    BY <1>9, <1>11, <2>1, <2>3
  <2> QED
    BY <1>9, <1>10, <2>2, <2>4
<1>14. CASE Head(w) \notin Structs \ v
  <2>1. Tail(w) \in Seq(Types) /\ Len(Tail(w)) = Len(w) - 1
    BY <1>12, HeadTail
  <2>2. g[<<w, v>>] = g[<<Tail(w), v>>] /\ a[<<w, v>>] = a[<<Tail(w), v>>]
    BY <1>1, <1>12, <1>14 DEF Call
  <2>3. l <= Len(Tail(w))
    BY <1>9, <1>11, <2>1, <2>2
  <2> QED
    BY <1>9, <1>10, <2>1, <2>3
<1> QED
  BY <1>13, <1>14

(***************************************************************************)
(* The search finds target from t just when it does not miss it.           *)
(***************************************************************************)
LEMMA ContainsTypeMeans ==
    ASSUME NEW f \in [Structs -> Seq(Types)], NEW target, NEW t \in Structs
    PROVE  t \in ContainsType(target, f) <=> ~Misses(target, f, {t}, {})
<1>1. <<t>> \in Seq(Types) /\ ToSet(<<t>>) = {t}
  BY DEF Types, ToSet
<1>2. Found(target, f)[<< <<t>>, {} >>] = Answer(target, f)[<< <<t>>, {} >>]
  BY <1>1, FoundIsAnswer
<1>3. Answer(target, f)[<< <<t>>, {} >>]
        = IF Misses(target, f, ToSet(<<t>>), {}) THEN FALSE ELSE TRUE
  BY <1>1 DEF Answer
<1>4. t \in ContainsType(target, f) <=> Found(target, f)[<< <<t>>, {} >>]
  BY ContainsTypeIsFound
<1>5. Found(target, f)[<< <<t>>, {} >>] = IF Misses(target, f, {t}, {}) THEN FALSE ELSE TRUE
  BY <1>1, <1>2, <1>3
<1> QED
  BY <1>4, <1>5

-----------------------------------------------------------------------------
(***************************************************************************)
(* RejectsJustTheInfinite.  FiniteFor is Finite for the field types f.     *)
(***************************************************************************)
FiniteFor(f) ==
    \E depth \in [Structs -> 0 .. Cardinality(Structs)] :
        \A c \in Structs : \A t \in ToSet(f[c]) \cap Structs : depth[t] < depth[c]

(* Below the depth of c no search finds c.                                 *)
LEMMA FiniteIsAccepted ==
    ASSUME NEW f \in [Structs -> Seq(Types)], FiniteFor(f)
    PROVE  SelfContaining(f) = {}
<1>1. SUFFICES ASSUME NEW c \in Structs, NEW t \in ToSet(f[c]), t \in ContainsType(c, f)
               PROVE  FALSE
  BY DEF SelfContaining
<1>2. PICK depth \in [Structs -> 0 .. Cardinality(Structs)] :
         \A x \in Structs : \A y \in ToSet(f[x]) \cap Structs : depth[y] < depth[x]
  BY DEF FiniteFor
<1>3. Cardinality(Structs) \in Nat
  BY TypesAssumption, FS_CardinalityType
<1>4. \A x \in Structs : depth[x] \in Nat
  BY <1>2, <1>3
<1>5. t \in Structs
  BY <1>1 DEF ContainsType
<1> DEFINE V == {x \in Structs : depth[x] < depth[c]}
<1>6. t \in V /\ c # t
  BY <1>1, <1>2, <1>4, <1>5
<1>7. ASSUME NEW x \in V PROVE c \notin ToSet(f[x]) /\ ToSet(f[x]) \cap Structs \subseteq V
  <2>1. \A y \in ToSet(f[x]) \cap Structs : depth[y] < depth[x] /\ depth[x] < depth[c]
    BY <1>2
  <2>2. \A y \in ToSet(f[x]) \cap Structs : depth[y] < depth[c]
    BY <1>4, <2>1
  <2> QED
    BY <1>4, <2>2
<1>8. Closed(c, f, V, {})
  BY <1>7 DEF Closed
<1>9. Misses(c, f, {t}, {})
  BY <1>6, <1>8 DEF Misses
<1> QED
  BY <1>1, <1>5, <1>9, ContainsTypeMeans

(* When no struct contains itself, the number of structs inside of a       *)
(* struct is a depth.                                                      *)
LEMMA AcceptedIsFinite ==
    ASSUME NEW f \in [Structs -> Seq(Types)], SelfContaining(f) = {}
    PROVE  FiniteFor(f)
<1> DEFINE Kids(c) == ToSet(f[c]) \cap Structs
           Full(U) == U \in SUBSET Structs /\ \A x \in U : Kids(x) \subseteq U
           Inside(c) == {y \in Structs : \A U \in SUBSET Structs :
                                            Full(U) /\ Kids(c) \subseteq U => y \in U}
           depth == [c \in Structs |-> Cardinality(Inside(c))]
<1>1. ASSUME NEW c \in Structs, NEW t \in Kids(c)
      PROVE  \E U \in SUBSET Structs : Full(U) /\ t \in U /\ c \notin U
  <2>1. t \notin ContainsType(c, f)
    BY DEF SelfContaining
  <2>2. Misses(c, f, {t}, {})
    BY <2>1, ContainsTypeMeans
  <2>3. PICK V \in SUBSET Structs : t \in V /\ Closed(c, f, V, {}) /\ c # t
    BY <2>2 DEF Misses
  <2>4. Full(V \ {c})
    BY <2>3 DEF Closed
  <2> QED
    BY <2>3, <2>4
<1>2. ASSUME NEW c \in Structs PROVE c \notin Inside(c)
  <2> DEFINE W == UNION {U \in SUBSET Structs : Full(U) /\ c \notin U}
  <2>1. Full(W) /\ c \notin W /\ W \in SUBSET Structs
    <3>1. \A x \in W : Kids(x) \subseteq W
      <4> SUFFICES ASSUME NEW x \in W PROVE Kids(x) \subseteq W
        OBVIOUS
      <4>1. PICK U \in SUBSET Structs : Full(U) /\ c \notin U /\ x \in U
        OBVIOUS
      <4>2. Kids(x) \subseteq U
        BY <4>1
      <4> HIDE DEF Kids, Full
      <4> QED
        BY <4>1, <4>2
    <3> QED
      BY <3>1
  <2>2. Kids(c) \subseteq W
    <3> SUFFICES ASSUME NEW t \in Kids(c) PROVE t \in W
      OBVIOUS
    <3> HIDE DEF Kids, Full
    <3> QED
      BY <1>1
  <2> HIDE DEF W, Kids, Full
  <2> QED
    BY <2>1, <2>2
<1>3. ASSUME NEW c \in Structs, NEW t \in Kids(c)
      PROVE  t \in Inside(c) /\ Inside(t) \subseteq Inside(c)
  OBVIOUS
<1>4. \A c \in Structs : Inside(c) \in SUBSET Structs
  OBVIOUS
<1> HIDE DEF Inside
<1>5. \A c \in Structs : IsFiniteSet(Inside(c)) /\ Cardinality(Inside(c)) \in 0 .. Cardinality(Structs)
  <2> SUFFICES ASSUME NEW c \in Structs
               PROVE  IsFiniteSet(Inside(c)) /\ Cardinality(Inside(c)) \in 0 .. Cardinality(Structs)
    OBVIOUS
  <2>1. IsFiniteSet(Inside(c)) /\ Cardinality(Inside(c)) <= Cardinality(Structs)
    BY <1>4, TypesAssumption, FS_Subset
  <2>2. Cardinality(Inside(c)) \in Nat /\ Cardinality(Structs) \in Nat
    BY <2>1, TypesAssumption, FS_CardinalityType
  <2> QED
    BY <2>1, <2>2
<1>6. ASSUME NEW c \in Structs, NEW t \in Kids(c) PROVE depth[t] < depth[c]
  <2>1. t \in Structs /\ t \notin Inside(t) /\ t \in Inside(c) /\ Inside(t) \subseteq Inside(c) \ {t}
    BY <1>2, <1>3
  <2>2. IsFiniteSet(Inside(c) \ {t}) /\ Cardinality(Inside(c) \ {t}) = Cardinality(Inside(c)) - 1
    BY <1>5, <2>1, FS_RemoveElement
  <2>3. Cardinality(Inside(t)) <= Cardinality(Inside(c) \ {t})
    BY <2>1, <2>2, FS_Subset
  <2>4. Cardinality(Inside(t)) \in Nat /\ Cardinality(Inside(c)) \in Nat
    BY <1>5, <2>1
  <2>5. Cardinality(Inside(t)) < Cardinality(Inside(c))
    BY <2>2, <2>3, <2>4
  <2> QED
    BY <2>1, <2>5
<1>7. depth \in [Structs -> 0 .. Cardinality(Structs)]
  BY <1>5
<1> HIDE DEF depth
<1> QED
  BY <1>6, <1>7 DEF FiniteFor

Judged ==
    /\ phase = "rejected" => SelfContaining(fields) # {}
    /\ phase \notin {"analyse", "rejected"} => SelfContaining(fields) = {}

(***************************************************************************)
(* The search rejects a program just when a struct contains itself over    *)
(* any number of others, for every program (StructContainsType).           *)
(***************************************************************************)
THEOREM AlwaysRejectsJustTheInfinite == Spec => []RejectsJustTheInfinite
<1>1. Init => Judged
  BY DEF Init, Judged
<1>2. Judged /\ [Next]_vars => Judged'
  <2> SUFFICES ASSUME Judged, [Next]_vars PROVE Judged'
    OBVIOUS
  <2>1. CASE Analyse
    BY <2>1 DEF Analyse, Judged, input
  <2>2. CASE fields' = fields /\ phase \notin {"analyse", "rejected"} /\ phase' \notin {"analyse", "rejected"}
    BY <2>2 DEF Judged
  <2>3. CASE UNCHANGED vars
    BY <2>3 DEF vars, Judged, input
  <2>4. CASE Queue \/ Take \/ GiveUp \/ Finish
    BY <2>2, <2>4 DEF Queue, Take, GiveUp, Finish, InLoop, input
  <2>5. CASE Postpone \/ Throw \/ ZeroSize
    BY <2>2, <2>5 DEF Postpone, Throw, ZeroSize, AtField, input
  <2>6. CASE PlaceField \/ Complete
    BY <2>2, <2>6 DEF PlaceField, Complete, AtField, input
  <2> QED
    BY <2>1, <2>3, <2>4, <2>5, <2>6 DEF Next
<1>3. TypeOK /\ Judged => RejectsJustTheInfinite
  <2> SUFFICES ASSUME TypeOK, Judged PROVE RejectsJustTheInfinite
    OBVIOUS
  <2>1. fields \in [Structs -> Seq(Types)]
    BY DEF TypeOK
  <2>2. Finite <=> FiniteFor(fields)
    BY DEF Finite, FiniteFor
  <2> QED
    BY <2>1, <2>2, FiniteIsAccepted, AcceptedIsFinite DEF Judged, RejectsJustTheInfinite
<1> QED
  BY <1>1, <1>2, <1>3, TypeCorrect, PTL DEF Spec

-----------------------------------------------------------------------------
(***************************************************************************)
(* LaidOut.  The turns are bounded by what is to come: Left structs have   *)
(* no size, and behind the first u of the queue every struct is known to   *)
(* have to wait for another.  A turn makes u smaller; only a struct that   *)
(* gets its size sets it back, to the length of the queue.                 *)
(***************************************************************************)
Blocked(c) == \E k \in DOMAIN fields[c] : fields[c][k] \in Structs \ completed

N == Cardinality(Structs)

Left == Cardinality(Structs \ completed)

Within(u) ==
    /\ \A k \in DOMAIN q : k > u => Blocked(q[k])
    /\ 2 * turns + 2 * u + Left * (Left - 1) <= N * (N + 1)

TurnsBounded ==
    /\ phase \in {"analyse", "rejected", "queue"} => turns = 0
    /\ phase = "layout" /\ WellFormed => \E u \in 0 .. Len(q) : Within(u)

(* A struct with fields gets a size that is not zero. *)
Filled ==
    /\ \A c \in completed : fields[c] # << >> => size[c] # 0
    /\ s # NoStruct /\ i # 1 => offset # 0

(* The error of a field of size zero is not reported without one. *)
Errorless == failed /\ phase \in {"analyse", "rejected", "queue", "layout"} => ~WellFormed

Base == IInv /\ QInv /\ (phase \notin {"analyse", "rejected"} => Finite)

LayInv == Filled /\ Errorless /\ TurnsBounded /\ LaidOut

(* A list without repetitions is as long as it has elements. *)
LEMMA OnceLength ==
    ASSUME NEW w \in Seq(Structs), Once(w)
    PROVE  Len(w) \in Nat /\ Len(w) = Cardinality(ToSet(w))
<1>1. Len(w) \in Nat /\ DOMAIN w = 1 .. Len(w) /\ w \in [1 .. Len(w) -> ToSet(w)]
  BY DEF ToSet
<1>2. w \in Bijection(1 .. Len(w), ToSet(w))
  BY <1>1 DEF Once, ToSet, Bijection, Injection, Surjection, IsInjective
<1>3. ExistsBijection(1 .. Len(w), ToSet(w))
  BY <1>2 DEF ExistsBijection
<1>4. IsFiniteSet(1 .. Len(w)) /\ Cardinality(1 .. Len(w)) = Len(w)
  BY <1>1, FS_Interval
<1> QED
  BY <1>1, <1>3, <1>4, FS_Bijection

(* Who waits in the queue is who has no size and is not at work. *)
LEMMA Waiting ==
    ASSUME QInv, phase = "layout"
    PROVE  /\ N \in Nat /\ Left \in Nat /\ Len(q) \in Nat /\ IsFiniteSet(Structs \ completed)
           /\ s = NoStruct => ToSet(q) = Structs \ completed /\ Len(q) = Left
           /\ s # NoStruct => /\ s \in Structs \ completed
                              /\ ToSet(q) = (Structs \ completed) \ {s}
                              /\ Len(q) = Left - 1
<1>1. /\ q \in Seq(Structs) /\ Once(q) /\ ToSet(q) \subseteq Structs
      /\ s \in Structs \cup {NoStruct} /\ completed \subseteq Structs
      /\ ToSet(q) \cup {s} \cup completed = Structs \cup {s}
      /\ ToSet(q) \cap completed = {} /\ s \notin ToSet(q) \cup completed
  BY DEF QInv, NoneLost, TypeOK, Once, ToSet
<1>2. Len(q) \in Nat /\ Len(q) = Cardinality(ToSet(q))
  BY <1>1, OnceLength
<1>3. IsFiniteSet(Structs \ completed)
  BY TypesAssumption, FS_Difference
<1>4. N \in Nat /\ Left \in Nat
  BY <1>3, TypesAssumption, FS_CardinalityType DEF N, Left
<1>5. CASE s = NoStruct
  <2>1. ToSet(q) = Structs \ completed
    BY <1>1, <1>5, TypesAssumption
  <2> QED
    BY <1>2, <1>3, <1>4, <1>5, <2>1 DEF Left
<1>6. CASE s # NoStruct
  <2>1. s \in Structs \ completed /\ ToSet(q) = (Structs \ completed) \ {s}
    BY <1>1, <1>6
  <2>2. Cardinality((Structs \ completed) \ {s}) = Left - 1
    BY <1>3, <2>1, FS_RemoveElement DEF Left
  <2> QED
    BY <1>2, <1>3, <1>4, <1>6, <2>1, <2>2
<1> QED
  BY <1>5, <1>6

(* Not all structs without size wait for others. *)
LEMMA SomeIsFree ==
    ASSUME TypeOK, Finite, Structs \ completed # {}
    PROVE  \E c \in Structs \ completed : ~Blocked(c)
<1>1. PICK depth \in [Structs -> 0 .. N] :
         \A c \in Structs : \A t \in ToSet(fields[c]) \cap Structs : depth[t] < depth[c]
  BY DEF Finite, N
<1>2. N \in Nat
  BY TypesAssumption, FS_CardinalityType DEF N
<1> DEFINE D == {d \in Nat : \E c \in Structs \ completed : depth[c] = d}
<1>3. D \in SUBSET Nat /\ D # {}
  <2>1. PICK c \in Structs \ completed : TRUE
    OBVIOUS
  <2>2. depth[c] \in Nat
    BY <1>1, <1>2
  <2> QED
    BY <2>2
<1>4. PICK d \in D : \A e \in D : d <= e
  <2> HIDE DEF D
  <2> QED
    BY <1>3, LeastNumber
<1>5. PICK c \in Structs \ completed : depth[c] = d
  BY <1>4
<1>6. SUFFICES ASSUME Blocked(c) PROVE FALSE
  BY <1>5
<1>7. PICK k \in DOMAIN fields[c] : fields[c][k] \in Structs \ completed
  BY <1>6 DEF Blocked
<1>8. depth[fields[c][k]] < depth[c]
  BY <1>1, <1>5, <1>7 DEF ToSet
<1>9. depth[fields[c][k]] \in D /\ depth[fields[c][k]] \in Nat /\ depth[c] \in Nat
  BY <1>1, <1>2, <1>7
<1>10. d <= depth[fields[c][k]]
  BY <1>4, <1>9
<1> QED
  BY <1>5, <1>8, <1>9, <1>10

(* With structs in the queue, one of the first u is there and the limit is *)
(* not reached.                                                            *)
LEMMA TurnLeft ==
    ASSUME Base, InLoop, q # << >>, NEW u \in 0 .. Len(q), Within(u)
    PROVE  u \in Nat \ {0} /\ turns \in Nat /\ turns + 1 <= WorstTurns
<1>1. /\ N \in Nat /\ Left \in Nat /\ Len(q) \in Nat /\ Len(q) = Left /\ turns \in Nat
      /\ ToSet(q) = Structs \ completed /\ q \in Seq(Structs)
  BY Waiting DEF Base, QInv, InLoop, TypeOK
<1>2. Structs \ completed # {}
  BY <1>1 DEF ToSet
<1>3. u # 0
  <2> SUFFICES ASSUME u = 0 PROVE FALSE
    OBVIOUS
  <2>1. PICK c \in Structs \ completed : ~Blocked(c)
    BY <1>2, SomeIsFree DEF Base, QInv, InLoop
  <2>2. PICK k \in DOMAIN q : q[k] = c
    BY <1>1 DEF ToSet
  <2>3. k > u
    BY <1>1, <2>2
  <2> QED
    BY <2>1, <2>2, <2>3 DEF Within
<1>4. Left * (Left - 1) >= 0
  <2> DEFINE m == Left
  <2>1. m \in Nat
    BY <1>1
  <2> HIDE DEF m
  <2>2. m * (m - 1) >= 0
    BY <2>1
  <2> QED
    BY <2>2 DEF m
<1>5. 2 * turns + 2 <= N * (N + 1)
  <2> DEFINE x == Left * (Left - 1)
             y == N * (N + 1)
  <2>1. 2 * turns + 2 * u + x <= y /\ x >= 0 /\ x \in Int /\ y \in Int /\ u \in Nat \ {0}
    BY <1>1, <1>3, <1>4 DEF Within
  <2> HIDE DEF x, y
  <2>2. 2 * turns + 2 <= y
    BY <1>1, <2>1
  <2> QED
    BY <2>2 DEF y
<1>6. turns + 1 <= (N * (N + 1)) \div 2
  <2> DEFINE y == N * (N + 1)
  <2>1. y \in Nat
    BY <1>1
  <2> HIDE DEF y
  <2>2. turns + 1 <= y \div 2
    BY <1>1, <1>5, <2>1 DEF y
  <2> QED
    BY <2>2 DEF y
<1> QED
  BY <1>1, <1>3, <1>6 DEF WorstTurns, N

(* The size of a field that is known is zero only for an empty struct. *)
LEMMA ZeroOnlyEmpty ==
    ASSUME IInv, Filled, ZeroSize
    PROVE  ~WellFormed
<1>1. /\ s \in Structs /\ i \in DOMAIN fields[s] /\ Known(fields[s][i])
      /\ SizeOf(fields[s][i]) = 0
  BY DEF ZeroSize, AtField, FieldType, IInv, TypeOK
<1>2. fields[s][i] \notin Basic
  <2>1. \A t \in Basic : BasicSize[t] # 0
    BY TypesAssumption
  <2> QED
    BY <1>1, <2>1 DEF SizeOf
<1>3. fields[s][i] \in completed /\ size[fields[s][i]] = 0
  BY <1>1, <1>2 DEF Known, SizeOf
<1>4. fields[s][i] \in Structs /\ fields[fields[s][i]] = << >>
  BY <1>3 DEF Filled, IInv, TypeOK
<1> QED
  BY <1>1, <1>4 DEF WellFormed

LEMMA FilledKeeps == IInv /\ Filled /\ [Next]_vars => Filled'
<1> SUFFICES ASSUME IInv, Filled, [Next]_vars PROVE Filled'
  OBVIOUS
<1> USE DEF Filled
<1>1. CASE Analyse \/ Queue \/ GiveUp \/ Throw \/ Finish
  BY <1>1 DEF Analyse, Queue, GiveUp, Throw, Finish, input, result, work
<1>2. CASE Take
  BY <1>2 DEF Take, Open, input, result, work
<1>3. CASE Postpone \/ ZeroSize
  BY <1>3 DEF Postpone, ZeroSize, Requeue, input, result
<1>4. CASE PlaceField
  <2> DEFINE n == SizeOf(FieldType)
             o == RoundUp(offset, n)
  <2>1. n \in Nat \ {0} /\ offset \in Nat
    BY <1>4, SizeOfNat DEF PlaceField, IInv, TypeOK, Known
  <2>2. offset' = o + n /\ o \in Nat
    BY <1>4, <2>1, RoundUpAbove DEF PlaceField
  <2> HIDE DEF n, o
  <2>3. offset' # 0
    BY <2>1, <2>2
  <2>4. UNCHANGED <<fields, size, completed, s>>
    BY <1>4 DEF PlaceField, input, result
  <2> QED
    BY <2>3, <2>4
<1>5. CASE Complete
  <2>1. /\ s \in Structs /\ s # NoStruct /\ i = Len(fields[s]) + 1 /\ fields[s] \in Seq(Types)
        /\ fields' = fields /\ completed' = completed \cup {s} /\ s' = NoStruct
        /\ size' = [size EXCEPT ![s] = FinalSize] /\ size \in [Structs -> Nat]
        /\ completed \subseteq Structs /\ offset \in Nat /\ align \in Nat \ {0}
    BY <1>5 DEF Complete, IInv, TypeOK, input
  <2>2. FinalSize \in Nat /\ FinalSize >= offset
    BY <2>1, RoundUpAbove DEF FinalSize
  <2>3. fields[s] # << >> => FinalSize # 0
    <3>1. fields[s] # << >> => i # 1
      BY <2>1
    <3>2. fields[s] # << >> => offset # 0
      BY <2>1, <3>1
    <3> HIDE DEF Filled
    <3> QED
      BY <2>1, <2>2, <3>2
  <2>4. ASSUME NEW c \in completed \cup {s}, fields[c] # << >> PROVE size'[c] # 0
    <3>1. CASE c = s
      BY <2>1, <2>3, <2>4, <3>1
    <3>2. CASE c # s
      BY <2>1, <2>4, <3>2
    <3> QED
      BY <3>1, <3>2
  <2> QED
    BY <2>1, <2>4
<1>6. CASE UNCHANGED vars
  BY <1>6 DEF vars, input, result, work
<1> QED
  BY <1>1, <1>2, <1>3, <1>4, <1>5, <1>6 DEF Next

LEMMA ErrorlessKeeps == IInv /\ Filled /\ Errorless /\ [Next]_vars => Errorless'
<1> SUFFICES ASSUME IInv, Filled, Errorless, [Next]_vars PROVE Errorless'
  OBVIOUS
<1>1. fields' = fields /\ (WellFormed' <=> WellFormed)
  <2>1. fields' = fields
    BY DEF Next, Analyse, Queue, Take, GiveUp, Postpone, Throw, ZeroSize, PlaceField, Complete,
           Finish, vars, input
  <2> QED
    BY <2>1 DEF WellFormed
<1> USE DEF Errorless
<1>2. CASE Analyse \/ Queue \/ Take \/ Complete
  BY <1>1, <1>2 DEF Analyse, Queue, Take, Complete, InLoop
<1>3. CASE GiveUp \/ Throw \/ Finish
  BY <1>3 DEF GiveUp, Throw, Finish
<1>4. CASE Postpone \/ PlaceField
  BY <1>1, <1>4 DEF Postpone, PlaceField, AtField
<1>5. CASE ZeroSize
  BY <1>1, <1>5, ZeroOnlyEmpty
<1>6. CASE UNCHANGED vars
  BY <1>1, <1>6 DEF vars
<1> QED
  BY <1>2, <1>3, <1>4, <1>5, <1>6 DEF Next

LEMMA TurnsKeep == Base /\ Filled /\ TurnsBounded /\ TypeOK' /\ [Next]_vars => TurnsBounded'
<1>0. ASSUME Base, TurnsBounded, [Next]_vars, phase' \in {"analyse", "rejected", "queue"}
      PROVE  turns' = 0
  <2>1. phase \in {"analyse", "rejected", "queue"} /\ turns' = turns
    BY <1>0 DEF Next, Analyse, Queue, Take, GiveUp, Postpone, Throw, ZeroSize, PlaceField,
                Complete, Finish, vars, InLoop, AtField
  <2> QED
    BY <1>0, <2>1 DEF TurnsBounded
<1> SUFFICES ASSUME Base, Filled, TurnsBounded, TypeOK', [Next]_vars, phase' = "layout", WellFormed'
             PROVE  \E u \in 0 .. Len(q') : Within(u)'
  BY <1>0 DEF TurnsBounded
<1>1. fields' = fields /\ WellFormed
  <2>1. fields' = fields
    BY DEF Next, Analyse, Queue, Take, GiveUp, Postpone, Throw, ZeroSize, PlaceField, Complete,
           Finish, vars, input
  <2> QED
    BY <2>1 DEF WellFormed
<1>2. CASE Analyse \/ GiveUp \/ Throw \/ Finish
  BY <1>2 DEF Analyse, GiveUp, Throw, Finish
<1>3. CASE UNCHANGED <<q, turns, completed>> /\ phase = "layout"
  <2>1. PICK u \in 0 .. Len(q) : Within(u)
    BY <1>1, <1>3 DEF TurnsBounded
  <2>2. Within(u)'
    BY <1>1, <1>3, <2>1 DEF Within, Blocked, Left
  <2> QED
    BY <1>3, <2>2
<1>4. CASE UNCHANGED vars
  BY <1>3, <1>4 DEF vars, result
<1>5. CASE PlaceField
  BY <1>3, <1>5 DEF PlaceField, AtField, result
<1>6. CASE ZeroSize
  BY <1>1, <1>6, ZeroOnlyEmpty DEF Base
<1>7. CASE Queue
  <2>1. q' \in Seq(Structs) /\ Once(q') /\ ToSet(q') = Structs
    BY <1>7, InputAssumption DEF Queue, Once
  <2>2. completed = {} /\ turns = 0 /\ turns' = turns /\ completed' = completed
    BY <1>7 DEF Queue, Base, QInv, NotYet, TurnsBounded, result
  <2>3. Len(q') \in Nat /\ Len(q') = N /\ DOMAIN q' = 1 .. Len(q')
    BY <2>1, OnceLength DEF N
  <2>4. Left' = N
    <3>1. Structs \ completed' = Structs
      BY <2>2
    <3> QED
      BY <3>1 DEF Left, N
  <2>5. 2 * turns' + 2 * N + N * (N - 1) <= N * (N + 1)
    <3> DEFINE m == N
    <3>1. m \in Nat
      BY <2>3
    <3> HIDE DEF m
    <3>2. 2 * m + m * (m - 1) <= m * (m + 1)
      BY <3>1
    <3>3. turns' = 0
      BY <2>2
    <3> QED
      BY <3>1, <3>2, <3>3 DEF m
  <2>6. Within(N)'
    BY <2>3, <2>4, <2>5 DEF Within
  <2>7. N' \in 0 .. Len(q') /\ N' = N
    BY <2>3 DEF N
  <2> QED
    BY <2>3, <2>6, <2>7
<1>8. CASE Take
  <2>1. InLoop /\ q # << >> /\ q' = Tail(q) /\ turns' = turns + 1 /\ completed' = completed
        /\ q \in Seq(Structs) /\ phase = "layout"
    BY <1>8 DEF Take, InLoop, NextTurn, Base, QInv, TypeOK, result
  <2>2. PICK u \in 0 .. Len(q) : Within(u)
    BY <1>1, <2>1 DEF TurnsBounded
  <2>3. u \in Nat \ {0} /\ turns \in Nat
    BY <2>1, <2>2, TurnLeft
  <2>4. /\ Len(q) \in Nat \ {0} /\ DOMAIN q = 1 .. Len(q) /\ Len(q') = Len(q) - 1
        /\ DOMAIN q' = 1 .. Len(q) - 1
        /\ \A k \in 1 .. Len(q) - 1 : q'[k] = q[k + 1]
    BY <2>1
  <2>5. \A k \in DOMAIN q' : k > u - 1 => Blocked(q[k + 1]) /\ q'[k] = q[k + 1]
    BY <2>2, <2>3, <2>4 DEF Within
  <2>6. Left' = Left
    BY <2>1 DEF Left
  <2> DEFINE x == Left * (Left - 1)
             y == N * (N + 1)
  <2>7. 2 * turns' + 2 * (u - 1) + x <= y
    <3>1. 2 * turns + 2 * u + x <= y
      BY <2>2 DEF Within
    <3>2. x \in Int /\ y \in Int
      BY <2>1, Waiting DEF Base
    <3> HIDE DEF x, y
    <3> QED
      BY <2>1, <2>3, <3>1, <3>2
  <2>8. Within(u - 1)'
    <3>1. \A k \in DOMAIN q' : k > u - 1 => Blocked(q'[k])
      BY <2>5
    <3>2. 2 * turns' + 2 * (u - 1) + Left' * (Left' - 1) <= N * (N + 1)
      BY <2>6, <2>7
    <3> QED
      BY <1>1, <2>1, <3>1, <3>2 DEF Within, Blocked, N
  <2>9. u - 1 \in 0 .. Len(q')
    BY <2>2, <2>3, <2>4
  <2> QED
    BY <2>8, <2>9
<1>9. CASE Postpone
  <2>1. /\ s \in Structs /\ s # NoStruct /\ q' = Append(q, s) /\ turns' = turns
        /\ completed' = completed /\ q \in Seq(Structs) /\ phase = "layout"
        /\ i \in DOMAIN fields[s] /\ fields[s][i] \in Structs \ completed
    BY <1>9 DEF Postpone, AtField, Requeue, FieldType, Known, Base, QInv, TypeOK, result
  <2>2. PICK u \in 0 .. Len(q) : Within(u)
    BY <1>1, <2>1 DEF TurnsBounded
  <2>3. Blocked(s)
    BY <2>1 DEF Blocked
  <2>4. /\ Len(q) \in Nat /\ DOMAIN q = 1 .. Len(q) /\ Len(q') = Len(q) + 1
        /\ DOMAIN q' = 1 .. Len(q) + 1
        /\ \A k \in 1 .. Len(q) : q'[k] = q[k]
        /\ q'[Len(q) + 1] = s
    BY <2>1
  <2>5. \A k \in DOMAIN q' : k > u => Blocked(q'[k])
    <3> SUFFICES ASSUME NEW k \in 1 .. Len(q) + 1, k > u PROVE Blocked(q'[k])
      BY <2>4
    <3>1. CASE k = Len(q) + 1
      BY <2>3, <2>4, <3>1
    <3>2. CASE k \in 1 .. Len(q)
      <4>1. Blocked(q[k]) /\ q'[k] = q[k]
        BY <2>2, <2>4, <3>2 DEF Within
      <4> QED
        BY <4>1
    <3> QED
      BY <2>4, <3>1, <3>2
  <2>6. Left' = Left
    BY <2>1 DEF Left
  <2>7. Within(u)'
    <3>1. 2 * turns' + 2 * u + Left' * (Left' - 1) <= N * (N + 1)
      BY <2>1, <2>2, <2>6 DEF Within
    <3> QED
      BY <1>1, <2>1, <2>5, <3>1 DEF Within, Blocked, N
  <2> QED
    BY <2>2, <2>4, <2>7
<1>10. CASE Complete
  <2>1. /\ s \in Structs /\ s # NoStruct /\ q' = q /\ turns' = turns
        /\ completed' = completed \cup {s} /\ phase = "layout" /\ turns \in Nat
    BY <1>10 DEF Complete, Base, QInv, TypeOK
  <2>2. PICK u \in 0 .. Len(q) : Within(u)
    BY <1>1, <2>1 DEF TurnsBounded
  <2>3. /\ Left \in Nat /\ N \in Nat /\ Len(q) \in Nat /\ Len(q) = Left - 1
        /\ s \in Structs \ completed /\ IsFiniteSet(Structs \ completed)
    BY <2>1, Waiting DEF Base
  <2>4. Left' = Left - 1
    <3>1. Structs \ completed' = (Structs \ completed) \ {s}
      BY <2>1
    <3> QED
      BY <2>3, <3>1, FS_RemoveElement DEF Left
  <2>5. 2 * turns + 2 * u + Left * (Left - 1) <= N * (N + 1)
    BY <2>2 DEF Within
  <2>6. 2 * turns + 2 * (Left - 1) + (Left - 1) * (Left - 1 - 1) <= N * (N + 1)
    <3> DEFINE m == Left
               y == N * (N + 1)
    <3>1. m \in Nat /\ y \in Int /\ u \in Nat
      BY <2>2, <2>3
    <3> HIDE DEF m, y
    <3>2. 2 * (m - 1) + (m - 1) * (m - 1 - 1) = m * (m - 1)
      BY <3>1
    <3>3. m * (m - 1) \in Int /\ 2 * turns + 2 * u + m * (m - 1) <= y
      BY <2>5, <3>1 DEF m, y
    <3>4. 2 * turns + m * (m - 1) <= y
      <4> DEFINE x == m * (m - 1)
      <4>1. x \in Int /\ 2 * turns + 2 * u + x <= y
        BY <3>3
      <4> HIDE DEF x
      <4>2. 2 * turns + x <= y
        BY <2>1, <3>1, <4>1
      <4> QED
        BY <4>2 DEF x
    <3>5. 2 * turns + 2 * (m - 1) + (m - 1) * (m - 1 - 1) <= y
      BY <2>1, <3>1, <3>2, <3>4
    <3> QED
      BY <3>5 DEF m, y
  <2>7. Within(Len(q))'
    <3>1. \A k \in DOMAIN q' : ~(k > Len(q))
      BY <2>1, <2>3 DEF Base, QInv, TypeOK
    <3>2. 2 * turns' + 2 * Len(q') + Left' * (Left' - 1) <= N * (N + 1)
      BY <2>1, <2>3, <2>4, <2>6
    <3> QED
      BY <2>1, <3>1, <3>2 DEF Within, N
  <2> QED
    BY <2>1, <2>3, <2>7
<1> QED
  BY <1>2, <1>4, <1>5, <1>6, <1>7, <1>8, <1>9, <1>10 DEF Next

LEMMA LaidOutKeeps ==
    Base /\ Errorless /\ TurnsBounded /\ LaidOut /\ TypeOK' /\ [Next]_vars => LaidOut'
<1> SUFFICES ASSUME Base, Errorless, TurnsBounded, LaidOut, TypeOK', [Next]_vars PROVE LaidOut'
  OBVIOUS
<1>1. fields' = fields /\ (WellFormed' <=> WellFormed) /\ (NamesDeclared' <=> NamesDeclared)
  <2>1. fields' = fields
    BY DEF Next, Analyse, Queue, Take, GiveUp, Postpone, Throw, ZeroSize, PlaceField, Complete,
           Finish, vars, input
  <2> QED
    BY <2>1 DEF WellFormed, NamesDeclared
<1>2. CASE phase' \notin {"failed", "thrown", "done"}
  BY <1>2 DEF LaidOut
<1>3. CASE Analyse \/ Queue \/ Take \/ Complete
  BY <1>2, <1>3 DEF Analyse, Queue, Take, Complete, InLoop
<1>4. CASE Postpone \/ PlaceField \/ ZeroSize
  BY <1>2, <1>4 DEF Postpone, PlaceField, ZeroSize, AtField
<1>5. CASE GiveUp
  <2>1. phase = "layout" /\ phase' = "failed" /\ InLoop /\ q # << >> /\ turns + 1 >= MaxIterations
    BY <1>5 DEF GiveUp, InLoop, LastTurn
  <2>2. ASSUME WellFormed PROVE ~ (WorstTurns < MaxIterations)
    <3>1. PICK u \in 0 .. Len(q) : Within(u)
      BY <2>1, <2>2 DEF TurnsBounded
    <3>2. turns \in Nat /\ turns + 1 <= WorstTurns
      BY <2>1, <3>1, TurnLeft
    <3>3. WorstTurns \in Int
      <4>1. N \in Nat
        BY TypesAssumption, FS_CardinalityType DEF N
      <4> QED
        BY <4>1 DEF WorstTurns, N
    <3> QED
      BY <2>1, <3>2, <3>3, InputAssumption
  <2>3. WorstTurns' = WorstTurns
    BY DEF WorstTurns
  <2> QED
    BY <1>1, <2>1, <2>2, <2>3 DEF LaidOut
<1>6. CASE Throw
  <2>1. s \in Structs /\ i \in DOMAIN fields[s] /\ fields[s][i] = Undeclared /\ phase' = "thrown"
    BY <1>6 DEF Throw, AtField, FieldType, Base, QInv, TypeOK
  <2>2. ~NamesDeclared
    BY <2>1 DEF NamesDeclared, ToSet
  <2> QED
    BY <1>1, <2>1, <2>2 DEF LaidOut
<1>7. CASE Finish
  <2>1. /\ phase = "layout" /\ s = NoStruct /\ q = << >> /\ completed' = completed
        /\ phase' = IF failed THEN "failed" ELSE "done"
    BY <1>7 DEF Finish, InLoop, result
  <2>2. completed = Structs
    <3>1. ToSet(q) = {}
      BY <2>1 DEF ToSet
    <3>2. Structs \ completed = {}
      BY <2>1, <3>1, Waiting DEF Base
    <3> QED
      BY <3>2 DEF Base, QInv, TypeOK
  <2>3. CASE failed
    BY <1>1, <2>1, <2>3 DEF Errorless, LaidOut
  <2>4. CASE ~failed
    BY <1>1, <2>1, <2>2, <2>4 DEF LaidOut
  <2> QED
    BY <2>3, <2>4
<1>8. CASE UNCHANGED vars
  <2>1. phase' = phase /\ completed' = completed /\ WorstTurns' = WorstTurns
    BY <1>8 DEF vars, result, WorstTurns
  <2> QED
    BY <1>1, <2>1 DEF LaidOut
<1> QED
  BY <1>3, <1>4, <1>5, <1>6, <1>7, <1>8 DEF Next

LEMMA BaseHolds == Spec => []Base
<1>1. RejectsJustTheInfinite => (phase \notin {"analyse", "rejected"} => Finite)
  BY DEF RejectsJustTheInfinite
<1>2. IInv => TypeOK
  BY DEF IInv
<1>3. IInv /\ QInv /\ (phase \notin {"analyse", "rejected"} => Finite) => Base
  BY DEF Base
<1> QED
  BY <1>1, <1>2, <1>3, InitIInv, NextIInv, InitQInv, NextQInv, AlwaysRejectsJustTheInfinite, PTL
     DEF Spec

(***************************************************************************)
(* A program that passes the check of its structs gets a size for every    *)
(* struct, in whatever order the map yields them, unless it has a field of *)
(* an empty or an undeclared struct or more structs than the limit on the  *)
(* turns is enough for (ComputeStructuresInfo).                            *)
(***************************************************************************)
THEOREM AlwaysLaidOut == Spec => []LaidOut
<1>1. Init => LayInv
  BY DEF Init, LayInv, Filled, Errorless, TurnsBounded, LaidOut
<1>2. Base /\ LayInv /\ Base' /\ [Next]_vars => LayInv'
  BY FilledKeeps, ErrorlessKeeps, TurnsKeep, LaidOutKeeps DEF LayInv, Base, IInv
<1>3. LayInv => LaidOut
  BY DEF LayInv
<1> QED
  BY <1>1, <1>2, <1>3, BaseHolds, PTL DEF Spec

=============================================================================
