------------------------ MODULE X86TranslatorProofs ------------------------
(***************************************************************************)
(* The translator for all programs, places of slots and both widths: what  *)
(* a function keeps in its frame never meets, every line of text has a form*)
(* x86 knows, rsp is aligned at every call, and a function that returns    *)
(* gives its caller back what it found.                                    *)
(***************************************************************************)
EXTENDS X86Translator, FiniteSetTheorems, FunctionTheorems, TLAPS

(***************************************************************************)
(* Folds.  The library defines a fold by a recursive function on the       *)
(* subsets of the domain of the sequence, which takes the greatest index   *)
(* off a set.                                                              *)
(***************************************************************************)
LEMMA LeastNumber ==
    ASSUME NEW S \in SUBSET Nat, S # {}
    PROVE  \E a \in S : \A b \in S : a <= b
<1> DEFINE Less == {ab \in Nat \X Nat : ab[1] < ab[2]}
<1>1. IsWellFoundedOn(Less, Nat)
  BY NatLessThanWellFounded DEF OpToRel
<1> HIDE DEF Less
<1>2. PICK a \in S : \A b \in S : <<b, a>> \notin Less
  BY <1>1, WFMin
<1> USE DEF Less
<1>3. \A b \in S : ~ (b < a)
  BY <1>2
<1> QED
  BY <1>3

LEMMA GreatestIndex ==
    ASSUME NEW n \in Nat, NEW t \in SUBSET (1 .. n), t # {}
    PROVE  /\ Max(t) \in t
           /\ t \ {Max(t)} \in SUBSET (1 .. Max(t) - 1)
           /\ Max(t) \in 1 .. n
<1> DEFINE Bounds == {b \in Nat : \A x \in t : x <= b}
<1>1. PICK b \in Bounds : \A c \in Bounds : b <= c
  <2>1. n \in Bounds
    OBVIOUS
  <2> HIDE DEF Bounds
  <2>2. Bounds \in SUBSET Nat
    BY DEF Bounds
  <2> QED
    BY <2>1, <2>2, LeastNumber
<1>2. b \in t
  <2>1. SUFFICES ASSUME b \notin t PROVE FALSE
    OBVIOUS
  <2>2. \A x \in t : x <= b - 1
    BY <1>1, <2>1
  <2>3. b - 1 \in Nat
    <3>1. PICK x \in t : TRUE
      OBVIOUS
    <3>2. x \in 1 .. n /\ b \in Nat /\ x <= b
      BY <1>1
    <3> QED
      BY <3>2
  <2>4. b - 1 \in Bounds
    BY <2>2, <2>3
  <2> QED
    BY <1>1, <2>4
<1>3. \A x \in t : b >= x
  BY <1>1
<1>4. Max(t) \in t /\ \A x \in t : Max(t) >= x
  BY <1>2, <1>3 DEF Max
<1>5. Max(t) \in 1 .. n
  BY <1>4
<1>6. \A x \in t \ {Max(t)} : x \in 1 .. Max(t) - 1
  BY <1>4, <1>5
<1> QED
  BY <1>4, <1>5, <1>6

(* The first n indices without the last. *)
LEMMA InitialIndices ==
    ASSUME NEW n \in Nat \ {0}
    PROVE  /\ 1 .. n # {} /\ Max(1 .. n) = n
           /\ (1 .. n) \ {Max(1 .. n)} = 1 .. n - 1
<1>1. Max(1 .. n) \in 1 .. n /\ (1 .. n) \ {Max(1 .. n)} \in SUBSET (1 .. Max(1 .. n) - 1)
  BY GreatestIndex
<1>2. Max(1 .. n) = n
  BY <1>1
<1> QED
  BY <1>2

LEMMA SeqElement ==
    ASSUME NEW E, NEW w \in Seq(E), NEW k \in DOMAIN w
    PROVE  w[k] \in E
OBVIOUS

(* A sequence without its last element. *)
LEMMA FrontAndLast ==
    ASSUME NEW E, NEW w \in Seq(E), w # << >>
    PROVE  Front(w) \in Seq(E) /\ Last(w) \in E
<1>1. Len(w) \in Nat /\ Len(w) # 0
  OBVIOUS
<1>2. Len(w) \in 1 .. Len(w) /\ DOMAIN w = 1 .. Len(w)
  BY <1>1
<1>3. Last(w) \in E
  BY <1>2 DEF Last
<1>4. \A k \in 1 .. Len(w) - 1 : w[k] \in E
  BY <1>1, <1>2
<1>5. SubSeq(w, 1, Len(w) - 1) \in Seq(E)
  BY <1>1, <1>4
<1> QED
  BY <1>3, <1>5 DEF Front

-----------------------------------------------------------------------------
(***************************************************************************)
(* Optimums.  What it makes are instructions of its input, or a compare    *)
(* and its branch; the operations that give an immediate a place are       *)
(* among those of the input.                                               *)
(***************************************************************************)
MulDivOps == {"mul", "div", "mod"}

Compare == [op : {"cmp"}, dst : Operand, src : Operand, src2 : {None}]
Branch  == [op : {"jn"}, dst : {None}, src : {None}, src2 : {<<"op", c>> : c \in CmpOps}]

Made(f) == {i \in Instruction \cup Compare \cup Branch :
                /\ i.op \in MulDivOps => \E k \in DOMAIN f : f[k] = i
                /\ \A s \in Slots : SlotOf(s) \in Operands(i) => s \in SlotsOf(f)}

LEMMA OptimumsMade ==
    ASSUME NEW f \in Seq(Instruction)
    PROVE  Optimums(f) \in Seq([ins : Made(f), upto : Nat])
<1> DEFINE S == [ins : Made(f), upto : Nat]
           w == Tagged(f)
           Add(acc, t) ==
            IF acc # << >> /\ FusesCmp(Last(acc).ins, t.ins)
            THEN LET c == Last(acc).ins
                 IN  Front(acc) \o
                     <<[ins |-> Ins("cmp", c.src, c.src2, None), upto |-> 0],
                       [ins |-> Ins("jn", None, None, <<"op", c.op>>), upto |-> t.upto]>>
            ELSE IF acc # << >> /\ FusesNot(Last(acc).ins, t.ins)
            THEN Append(Front(acc),
                     [ins |-> Ins("brnz", None, Last(acc).ins.dst, None), upto |-> t.upto])
            ELSE IF t.ins.op = "mov" /\ t.ins.dst = t.ins.src THEN acc
            ELSE Append(acc, t)
           Value1(it, t) == IF t = {} THEN << >> ELSE Add(it[t \ {Max(t)}], w[Max(t)])
           Body(it, n) == [t \in SUBSET (1 .. n) |-> Value1(it, t)]
           iter == CHOOSE it : it = Body(it, Len(f))
<1>1. DOMAIN w = 1 .. Len(f) /\ Len(f) \in Nat
  BY DEF Tagged
<1>2. Optimums(f) = iter[1 .. Len(f)]
  BY <1>1 DEF Optimums, FoldLeft, MapThenFoldSet
(* The recursion has a solution. *)
<1>3. \A n \in Nat : \E it : it = Body(it, n)
  <2> DEFINE Bad == {n \in Nat : ~ \E it : it = Body(it, n)}
  <2>1. SUFFICES ASSUME Bad # {} PROVE FALSE
    OBVIOUS
  <2>2. PICK n \in Bad : \A k \in Bad : n <= k
    <3> HIDE DEF Bad
    <3>1. Bad \in SUBSET Nat
      BY DEF Bad
    <3> QED
      BY <2>1, <3>1, LeastNumber
  <2> HIDE DEF Value1
  <2>3. CASE n = 0
    <3> DEFINE it == [t \in {{}} |-> << >>]
    <3>1. SUBSET (1 .. n) = {{}}
      BY <2>3
    <3>2. it = Body(it, n)
      BY <3>1 DEF Value1
    <3> QED
      BY <2>2, <3>2
  <2>4. CASE n # 0
    <3>1. n - 1 \in Nat /\ n - 1 \notin Bad
      <4>1. n \in Nat
        BY <2>2
      <4> HIDE DEF Bad
      <4> QED
        BY <2>2, <2>4, <4>1
    <3>2. PICK it : it = Body(it, n - 1)
      BY <3>1
    <3> DEFINE next == Body(it, n)
    <3>3. ASSUME NEW t \in SUBSET (1 .. n) PROVE Value1(next, t) = Value1(it, t)
      <4>1. CASE t = {}
        BY <4>1 DEF Value1
      <4>2. CASE t # {}
        <5> DEFINE r == t \ {Max(t)}
        <5>1. r \in SUBSET (1 .. n - 1) /\ r \in SUBSET (1 .. n)
          BY <4>2, GreatestIndex
        <5>2. next[r] = Value1(it, r) /\ it[r] = Value1(it, r)
          BY <3>2, <5>1
        <5> QED
          BY <4>2, <5>2 DEF Value1
      <4> QED
        BY <4>1, <4>2
    <3>4. next = Body(next, n)
      BY <3>3
    <3> QED
      BY <2>2, <3>4
  <2> QED
    BY <2>3, <2>4
<1>4. iter = Body(iter, Len(f))
  BY <1>1, <1>3
<1> HIDE DEF iter
<1>5. iter[1 .. 0] = << >> /\ \A k \in 1 .. Len(f) : iter[1 .. k] = Add(iter[1 .. k - 1], w[k])
  <2>1. \A t \in SUBSET (1 .. Len(f)) : iter[t] = Value1(iter, t)
    BY <1>4
  <2>2. iter[1 .. 0] = << >>
    <3>1. 1 .. 0 = {} /\ {} \in SUBSET (1 .. Len(f))
      OBVIOUS
    <3>2. iter[{}] = Value1(iter, {})
      BY <2>1, <3>1
    <3> QED
      BY <3>1, <3>2
  <2>3. ASSUME NEW k \in 1 .. Len(f)
        PROVE  iter[1 .. k] = Add(iter[1 .. k - 1], w[k])
    <3>1. 1 .. k \in SUBSET (1 .. Len(f)) /\ k \in Nat \ {0}
      BY <1>1
    <3>2. /\ 1 .. k # {} /\ Max(1 .. k) = k
          /\ (1 .. k) \ {Max(1 .. k)} = 1 .. k - 1
      BY <3>1, InitialIndices
    <3> HIDE DEF Add
    <3> QED
      BY <2>1, <3>1, <3>2
  <2> QED
    BY <2>2, <2>3
<1>6. ASSUME NEW acc \in Seq(S), NEW k \in 1 .. Len(f)
      PROVE  Add(acc, w[k]) \in Seq(S)
  <2> DEFINE t == w[k]
             last == Last(acc).ins
  <2> SUFFICES Add(acc, t) \in Seq(S)
    OBVIOUS
  <2>1. /\ t = [ins |-> f[k], upto |-> k] /\ f[k] \in Instruction
        /\ k \in Nat /\ f[k] \in Made(f)
    BY <1>1 DEF Tagged, Made, SlotsOf
  <2>2. t \in S
    BY <2>1
  <2>3. ASSUME acc # << >>
        PROVE  Front(acc) \in Seq(S) /\ last \in Made(f)
    <3>1. Front(acc) \in Seq(S) /\ Last(acc) \in S
      <4> HIDE DEF S
      <4> QED
        BY <2>3, FrontAndLast
    <3> QED
      BY <3>1
  <2>4. CASE acc # << >> /\ FusesCmp(last, t.ins)
    <3>1. last \in Instruction /\ last.op \in CmpOps
      BY <2>3, <2>4 DEF FusesCmp, Made, Compare, Branch, CmpOps
    <3>2. /\ Ins("cmp", last.src, last.src2, None) \in Made(f)
          /\ Ins("jn", None, None, <<"op", last.op>>) \in Made(f)
      <4>1. \A s \in Slots : SlotOf(s) \in {last.src, last.src2} => s \in SlotsOf(f)
        BY <2>3, <2>4 DEF Made, Operands
      <4>2. \A s, c : SlotOf(s) # None /\ SlotOf(s) # <<"op", c>>
        BY DEF SlotOf, None
      <4> QED
        BY <3>1, <4>1, <4>2
           DEF Ins, Made, Compare, Branch, Instruction, MulDivOps, Operands
    <3> DEFINE pair == <<[ins |-> Ins("cmp", last.src, last.src2, None), upto |-> 0],
                         [ins |-> Ins("jn", None, None, <<"op", last.op>>), upto |-> t.upto]>>
    <3>3. pair \in Seq(S)
      BY <2>1, <3>2
    <3>4. Add(acc, t) = Front(acc) \o pair
      BY <2>4
    <3> HIDE DEF pair, S, Add, t
    <3> QED
      BY <2>3, <2>4, <3>3, <3>4
  <2>5. CASE acc # << >> /\ ~ FusesCmp(last, t.ins) /\ FusesNot(last, t.ins)
    <3>1. last \in Instruction
      BY <2>3, <2>5 DEF FusesNot, Made, Compare, Branch, CmpOps
    <3>2. Ins("brnz", None, last.dst, None) \in Made(f)
      <4>1. \A s \in Slots : SlotOf(s) = last.dst => s \in SlotsOf(f)
        BY <2>3, <2>5 DEF Made, Operands
      <4>2. \A s : SlotOf(s) # None
        BY DEF SlotOf, None
      <4> QED
        BY <3>1, <4>1, <4>2
           DEF Ins, Made, Instruction, MulDivOps, Operand, Result, Ops, Operands
    <3> DEFINE one == [ins |-> Ins("brnz", None, last.dst, None), upto |-> t.upto]
    <3>3. one \in S
      BY <2>1, <3>2
    <3>4. Add(acc, t) = Append(Front(acc), one)
      BY <2>5
    <3> HIDE DEF one, S, Add, t
    <3> QED
      BY <2>3, <2>5, <3>3, <3>4
  <2>6. CASE ~ (acc # << >> /\ (FusesCmp(last, t.ins) \/ FusesNot(last, t.ins)))
    <3>1. Add(acc, t) \in {acc, Append(acc, t)}
      BY <2>6
    <3> HIDE DEF S, Add, t
    <3> QED
      BY <2>2, <3>1
  <2> HIDE DEF Add
  <2> QED
    BY <2>4, <2>5, <2>6
<1>7. \A k \in 0 .. Len(f) : iter[1 .. k] \in Seq(S)
  <2> HIDE DEF Add, S
  <2> DEFINE Bad == {k \in 0 .. Len(f) : iter[1 .. k] \notin Seq(S)}
  <2>1. SUFFICES ASSUME Bad # {} PROVE FALSE
    OBVIOUS
  <2>2. PICK k \in Bad : \A j \in Bad : k <= j
    <3> HIDE DEF Bad
    <3>1. Bad \in SUBSET Nat
      BY <1>1 DEF Bad
    <3> QED
      BY <2>1, <3>1, LeastNumber
  <2>3. k # 0
    <3>1. << >> \in Seq(S)
      OBVIOUS
    <3>2. 0 \notin Bad
      BY <1>5, <3>1
    <3> QED
      BY <2>2, <3>2
  <2>4. k \in 1 .. Len(f) /\ k - 1 \in 0 .. Len(f) /\ k - 1 \notin Bad
    <3>1. k \in 0 .. Len(f)
      BY <2>2
    <3> HIDE DEF Bad
    <3> QED
      BY <1>1, <2>2, <2>3, <3>1
  <2> QED
    BY <1>5, <1>6, <2>4
<1>8. Len(f) \in 0 .. Len(f)
  BY <1>1
<1>9. iter[1 .. Len(f)] \in Seq(S)
  BY <1>7, <1>8
<1> QED
  BY <1>2, <1>9
-----------------------------------------------------------------------------
(***************************************************************************)
(* What the translator works on.                                           *)
(***************************************************************************)
(* What the location of a slot may be. *)
Locs == {None} \cup {Reg(r) : r \in Regs} \cup {Mem(n) : n \in Int}

InputInv ==
    /\ width \in {4, 8} /\ program \in Programs /\ place \in Places
    /\ code = [n \in DOMAIN program |-> Optimums(program[n])]
    /\ fn \in 1 .. Len(program)
    /\ location \in [Slots -> Locs]

LEMMA InputFacts ==
    ASSUME InputInv, NEW n \in 1 .. Len(program)
    PROVE  /\ Len(program) \in Nat /\ DOMAIN program = 1 .. Len(program)
           /\ program[n] \in Seq(Instruction)
           /\ code[n] \in Seq([ins : Made(program[n]), upto : Nat])
<1>1. program \in Seq(Seq(Instruction))
  BY ProgramsAssumption DEF InputInv
<1>2. /\ Len(program) \in Nat /\ DOMAIN program = 1 .. Len(program)
      /\ program[n] \in Seq(Instruction)
  BY <1>1
<1>3. code[n] = Optimums(program[n])
  BY <1>2 DEF InputInv
<1> QED
  BY <1>2, <1>3, OptimumsMade

(* The instruction that is translated. *)
LEMMA CurrentFacts ==
    ASSUME InputInv, NEW ops, Handles(ops)
    PROVE  /\ Current \in Made(program[fn]) /\ Current.op \in ops
           /\ pc \in DOMAIN code[fn] /\ phase = "translate"
<1>1. code[fn] \in Seq([ins : Made(program[fn]), upto : Nat])
  BY InputFacts DEF InputInv
<1>2. pc \in DOMAIN code[fn] /\ Current.op \in ops /\ phase = "translate"
  BY DEF Handles
<1>3. code[fn][pc] \in [ins : Made(program[fn]), upto : Nat]
  BY <1>1, <1>2, SeqElement
<1> QED
  BY <1>2, <1>3 DEF Current

LEMMA InputInit == Init => InputInv
<1> SUFFICES ASSUME Init PROVE InputInv
  OBVIOUS
<1>1. program \in Seq(Seq(Instruction)) /\ program # << >>
  BY ProgramsAssumption DEF Init
<1>2. 1 \in 1 .. Len(program)
  BY <1>1
<1> QED
  BY <1>2, WidthsAssumption DEF Init, InputInv, Locs

LEMMA InputNext == InputInv /\ [Next]_vars => InputInv'
<1> SUFFICES ASSUME InputInv, [Next]_vars PROVE InputInv'
  OBVIOUS
<1>1. UNCHANGED <<width, program, place, code>>
  BY DEF Next, vars, inputs, emitter, BeginFunction, EndFunction, EmitMovOp, EmitBinaryOp,
         EmitMulDiv, EmitCmpOp, EmitLogicOp, EmitRtn, EmitParam, EmitCall, EmitArg, Enter,
         Run, Put
<1>2. SUFFICES fn' \in 1 .. Len(program) /\ location' \in [Slots -> Locs]
  BY <1>1 DEF InputInv
<1>3. CASE BeginFunction
  <2>1. fn' = fn
    BY <1>3 DEF BeginFunction
  <2>2. ASSUME NEW s \in Slots
        PROVE  location'[s] \in Locs
    <3> DEFINE spilled == SpilledSlots(program[fn])
               c == Cardinality({t \in spilled : t <= s})
    <3>1. location'[s] = IF s \in spilled THEN Mem(Below(c))
                         ELSE IF IsReg(place[s]) THEN place[s] ELSE location[s]
      BY <1>3 DEF BeginFunction
    <3>2. IsReg(place[s]) => place[s] \in {Reg(r) : r \in Regs}
      BY ProgramsAssumption DEF InputInv, IsReg, Spilled
    <3>3. Below(c) \in Int
      <4>1. {t \in spilled : t <= s} \subseteq Slots
        BY DEF SpilledSlots, SlotsOf
      <4>2. c \in Nat
        BY <4>1, NumbersAssumption, FS_Subset, FS_CardinalityType
      <4> QED
        BY <4>2 DEF Below, InputInv
    <3>4. location[s] \in Locs
      BY DEF InputInv
    <3> QED
      BY <3>1, <3>2, <3>3, <3>4 DEF Locs
  <2>3. location' = [s \in Slots |-> location'[s]]
    BY <1>3 DEF BeginFunction
  <2> QED
    BY <2>1, <2>2, <2>3 DEF InputInv
<1>4. CASE EndFunction
  <2>1. ((fn < Len(program) /\ fn' = fn + 1) \/ fn' = fn) /\ location' = location
    BY <1>4 DEF EndFunction
  <2>2. Len(program) \in Nat
    BY InputFacts DEF InputInv
  <2> QED
    BY <2>1, <2>2 DEF InputInv
<1>5. CASE Enter
  <2>1. fn' \in DOMAIN program /\ location' = location
    BY <1>5 DEF Enter, emitter
  <2> QED
    BY <2>1, InputFacts DEF InputInv
<1>6. CASE fn' = fn /\ location' = location
  BY <1>6 DEF InputInv
<1> QED
  BY <1>3, <1>4, <1>5, <1>6 DEF Next, vars, emitter, EmitMovOp, EmitBinaryOp,
         EmitMulDiv, EmitCmpOp, EmitLogicOp, EmitRtn, EmitParam, EmitCall, EmitArg,
         Run, Put

-----------------------------------------------------------------------------
(***************************************************************************)
(* FrameApart.  Below rbp lie the cells of the spilled slots, those of the *)
(* caller saved registers, the place of rsp, and then, one below the       *)
(* other, the places that immediates of this function get.  An immediate   *)
(* that an earlier function used has its place in the frame of that one.   *)
(***************************************************************************)
Sp == SpilledSlots(program[fn])

Rank(s) == Cardinality({x \in Sp : x <= s})

NCells == Cardinality(Sp) + Len(CallerSaved)

Top == RspOffset(NCells)

Index(r) == CHOOSE k \in DOMAIN CallerSaved : CallerSaved[k] = r

Foreign(l) == \E n \in 1 .. fn - 1 : Imm(l[1]) \in Placed(program[n])

Own == {l \in imm_loc : ~ Foreign(l)}

Cells ==
    /\ \A s \in Sp : location[s] = Mem(Below(Rank(s)))
    /\ \A r \in ToSet(CallerSaved) : f_regs_loc[r] = Mem(Below(Cardinality(Sp) + Index(r)))
    /\ f_regs_loc["rsp"] = Mem(Top)

OwnApart ==
    /\ stack_offset \in Int /\ stack_offset <= Top
    /\ \A l \in Own : /\ Imm(l[1]) \in Placed(program[fn])
                      /\ l[2] \in Int /\ stack_offset <= l[2] /\ l[2] + width <= Top
    /\ \A k, l \in Own : k # l => k[2] + width <= l[2] \/ l[2] + width <= k[2]

FrameInv ==
    /\ InputInv
    /\ IsFiniteSet(imm_loc) /\ \A l \in imm_loc : l[2] \in Int
    /\ phase = "begin" => Own = {}
    /\ phase = "translate" => Cells /\ OwnApart

(* The caller saved registers are eight different ones. *)
LEMMA CallerSavedFacts ==
    /\ Len(CallerSaved) = 8 /\ DOMAIN CallerSaved = 1 .. 8
    /\ \A j, k \in 1 .. 8 : CallerSaved[j] = CallerSaved[k] => j = k
    /\ \A r \in ToSet(CallerSaved) : Index(r) \in 1 .. 8 /\ CallerSaved[Index(r)] = r
    /\ \A k \in 1 .. 8 : CallerSaved[k] \in ToSet(CallerSaved) /\ Index(CallerSaved[k]) = k
    /\ "rsp" \notin ToSet(CallerSaved)
<1>1. Len(CallerSaved) = 8 /\ DOMAIN CallerSaved = 1 .. 8
  BY DEF CallerSaved
<1>2. /\ CallerSaved[1] = "r10" /\ CallerSaved[2] = "r11" /\ CallerSaved[3] = "r8"
      /\ CallerSaved[4] = "r9" /\ CallerSaved[5] = "rcx" /\ CallerSaved[6] = "rdi"
      /\ CallerSaved[7] = "rdx" /\ CallerSaved[8] = "rsi"
  BY DEF CallerSaved
<1>3. \A k \in 1 .. 8 : k \in {1, 2, 3, 4, 5, 6, 7, 8}
  OBVIOUS
<1>4. \A j, k \in 1 .. 8 : CallerSaved[j] = CallerSaved[k] => j = k
  BY <1>2, <1>3
<1>5. \A k \in 1 .. 8 : CallerSaved[k] # "rsp"
  BY <1>2, <1>3
<1>6. \A r : r \in ToSet(CallerSaved) <=> \E k \in 1 .. 8 : CallerSaved[k] = r
  BY <1>1 DEF ToSet
<1>7. ASSUME NEW r \in ToSet(CallerSaved)
      PROVE  Index(r) \in 1 .. 8 /\ CallerSaved[Index(r)] = r
  BY <1>1, <1>6 DEF Index
<1>8. ASSUME NEW k \in 1 .. 8
      PROVE  CallerSaved[k] \in ToSet(CallerSaved) /\ Index(CallerSaved[k]) = k
  <2>1. CallerSaved[k] \in ToSet(CallerSaved)
    BY <1>6
  <2> QED
    BY <2>1, <1>4, <1>7
<1> QED
  BY <1>1, <1>4, <1>5, <1>6, <1>7, <1>8

(* Spilled slots are numbered in order from one on. *)
LEMMA RankFacts ==
    /\ Sp \subseteq Slots /\ IsFiniteSet(Sp) /\ Cardinality(Sp) \in Nat
    /\ \A s \in Sp : Rank(s) \in 1 .. Cardinality(Sp)
    /\ \A s, t \in Sp : Rank(s) = Rank(t) => s = t
<1> DEFINE Upto(s) == {x \in Sp : x <= s}
<1>1. Sp \subseteq Slots /\ Sp \subseteq Nat
  BY NumbersAssumption DEF Sp, SpilledSlots, SlotsOf
<1>2. IsFiniteSet(Sp) /\ Cardinality(Sp) \in Nat
  BY <1>1, NumbersAssumption, FS_Subset, FS_CardinalityType
<1>3. \A s \in Sp : /\ IsFiniteSet(Upto(s)) /\ Cardinality(Upto(s)) <= Cardinality(Sp)
                    /\ Cardinality(Upto(s)) \in Nat /\ s \in Upto(s)
                    /\ Cardinality(Upto(s)) # 0
  <2> SUFFICES ASSUME NEW s \in Sp
               PROVE  /\ IsFiniteSet(Upto(s)) /\ Cardinality(Upto(s)) <= Cardinality(Sp)
                      /\ Cardinality(Upto(s)) \in Nat /\ s \in Upto(s)
                      /\ Cardinality(Upto(s)) # 0
    OBVIOUS
  <2>1. s \in Upto(s) /\ Upto(s) \subseteq Sp
    BY <1>1
  <2> HIDE DEF Upto
  <2>2. IsFiniteSet(Upto(s)) /\ Cardinality(Upto(s)) <= Cardinality(Sp)
    BY <1>2, <2>1, FS_Subset
  <2> QED
    BY <2>1, <2>2, FS_EmptySet, FS_CardinalityType
<1>4. ASSUME NEW s \in Sp, NEW t \in Sp, s < t
      PROVE  Cardinality(Upto(s)) # Cardinality(Upto(t))
  <2>1. Upto(s) \subseteq Upto(t) /\ t \in Upto(t) /\ t \notin Upto(s)
    <3>1. s \in Nat /\ t \in Nat /\ \A x \in Sp : x \in Nat
      BY <1>1
    <3>2. \A x \in Sp : x <= s => x <= t
      BY <1>4, <3>1
    <3>3. t <= t /\ ~ (t <= s)
      BY <1>4, <3>1
    <3> QED
      BY <3>2, <3>3
  <2>2. IsFiniteSet(Upto(t))
    BY <1>3
  <2> HIDE DEF Upto
  <2> QED
    BY <2>1, <2>2, FS_Subset
<1>5. ASSUME NEW s \in Sp, NEW t \in Sp, Cardinality(Upto(s)) = Cardinality(Upto(t))
      PROVE  s = t
  <2>1. s \in Nat /\ t \in Nat
    BY <1>1
  <2> HIDE DEF Upto
  <2>2. ~ (s < t) /\ ~ (t < s)
    BY <1>4, <1>5
  <2> QED
    BY <2>1, <2>2
<1>6. \A s \in Sp : Rank(s) = Cardinality(Upto(s))
  BY DEF Rank
<1> HIDE DEF Upto
<1>7. \A s \in Sp : Rank(s) \in 1 .. Cardinality(Sp)
  BY <1>2, <1>3, <1>6
<1>8. \A s, t \in Sp : Rank(s) = Rank(t) => s = t
  BY <1>5, <1>6
<1> QED
  BY <1>1, <1>2, <1>7, <1>8

(* The n cells lie one below the other above the place of rsp. *)
LEMMA CellFacts ==
    ASSUME InputInv
    PROVE  /\ NCells \in Nat /\ Top \in Int
           /\ Top = Below(NCells) - 8
           /\ \A j \in 1 .. NCells :
                  /\ Below(j) \in Int /\ Below(j) + width <= 0 /\ Top + 8 <= Below(j)
           /\ \A j, k \in 1 .. NCells :
                  j < k => Below(k) + width <= Below(j)
           /\ Top + 8 <= 0 /\ width \in {4, 8}
<1>1. NCells \in Nat /\ width \in {4, 8}
  BY RankFacts, CallerSavedFacts DEF NCells, InputInv
<1>2. Top = Below(NCells) - 8
  BY DEF Top, RspOffset
<1>3. CASE width = 4
  BY <1>1, <1>2, <1>3 DEF Below
<1>4. CASE width = 8
  BY <1>1, <1>2, <1>4 DEF Below
<1> QED
  BY <1>1, <1>3, <1>4

(* Every area of a frame is a cell, the place of rsp or that of an own     *)
(* immediate.                                                              *)
LEMMA AreaKinds ==
    ASSUME FrameInv, phase = "translate", NEW a \in FrameAreas
    PROVE  \/ \E j \in 1 .. NCells : a = <<Below(j), width>>
           \/ a = <<Top, 8>>
           \/ \E l \in Own : a = <<l[2], width>>
<1>1. Cells
  BY DEF FrameInv
<1>2. \/ \E s \in Sp : a = <<location[s][2], width>>
      \/ \E r \in ToSet(CallerSaved) : a = <<f_regs_loc[r][2], width>>
      \/ a = <<f_regs_loc["rsp"][2], 8>>
      \/ \E l \in Own : a = <<l[2], width>>
  BY DEF FrameAreas, Sp, Own, Foreign
<1>3. ASSUME NEW s \in Sp, a = <<location[s][2], width>>
      PROVE  \E j \in 1 .. NCells : a = <<Below(j), width>>
  <2>1. Rank(s) \in 1 .. NCells
    BY RankFacts, CallerSavedFacts DEF NCells
  <2>2. location[s][2] = Below(Rank(s))
    BY <1>1 DEF Cells, Mem
  <2> QED
    BY <1>3, <2>1, <2>2
<1>4. ASSUME NEW r \in ToSet(CallerSaved), a = <<f_regs_loc[r][2], width>>
      PROVE  \E j \in 1 .. NCells : a = <<Below(j), width>>
  <2>1. Cardinality(Sp) + Index(r) \in 1 .. NCells
    BY RankFacts, CallerSavedFacts DEF NCells
  <2>2. f_regs_loc[r][2] = Below(Cardinality(Sp) + Index(r))
    BY <1>1 DEF Cells, Mem
  <2> QED
    BY <1>4, <2>1, <2>2
<1>5. f_regs_loc["rsp"][2] = Top
  BY <1>1 DEF Cells, Mem
<1> QED
  BY <1>2, <1>3, <1>4, <1>5

(* The cells of slots and registers and the place of rsp are all different. *)
LEMMA AreaCount ==
    ASSUME FrameInv, phase = "translate"
    PROVE  /\ IsFiniteSet(FrameAreas)
           /\ Cardinality(FrameAreas) >= Cardinality(Sp) + Len(CallerSaved) + 1
<1> DEFINE SlotAreas == {<<location[s][2], width>> : s \in Sp}
           RegAreas  == {<<f_regs_loc[r][2], width>> : r \in ToSet(CallerSaved)}
           RspArea   == <<f_regs_loc["rsp"][2], 8>>
           OwnAreas  == {<<l[2], width>> : l \in Own}
           Known     == (SlotAreas \cup RegAreas) \cup {RspArea}
<1>1. Cells /\ InputInv /\ IsFiniteSet(imm_loc)
  BY DEF FrameInv
<1>2. FrameAreas = Known \cup OwnAreas
  BY DEF FrameAreas, Sp, Own, Foreign
<1>3. IsFiniteSet(OwnAreas)
  <2> DEFINE h == [l \in Own |-> <<l[2], width>>]
  <2>1. IsFiniteSet(Own)
    BY <1>1, FS_Subset DEF Own
  <2>2. h \in Surjection(Own, OwnAreas)
    BY Fun_IsSurj
  <2> HIDE DEF h, OwnAreas
  <2> QED
    BY <2>1, <2>2, FS_Surjection
<1>4. \A s \in Sp : location[s][2] = Below(Rank(s)) /\ Rank(s) \in 1 .. Cardinality(Sp)
  BY <1>1, RankFacts DEF Cells, Mem
<1>5. \A r \in ToSet(CallerSaved) :
          f_regs_loc[r][2] = Below(Cardinality(Sp) + Index(r)) /\ Index(r) \in 1 .. 8
  BY <1>1, CallerSavedFacts DEF Cells, Mem
<1>6. f_regs_loc["rsp"][2] = Top
  BY <1>1 DEF Cells, Mem
<1>7. /\ Cardinality(Sp) \in Nat /\ NCells = Cardinality(Sp) + 8
      /\ IsFiniteSet(Sp)
  BY RankFacts, CallerSavedFacts DEF NCells
<1>8. \A j, k \in 1 .. NCells : Below(j) = Below(k) => j = k
  <2>1. SUFFICES ASSUME NEW j \in 1 .. NCells, NEW k \in 1 .. NCells, Below(j) = Below(k),
                        j < k
                 PROVE  FALSE
    BY <1>7
  <2>2. Below(k) + width <= Below(j) /\ Below(j) \in Int /\ width \in {4, 8}
    BY <1>1, <2>1, CellFacts
  <2> QED
    BY <2>1, <2>2
<1>9. IsFiniteSet(SlotAreas) /\ Cardinality(SlotAreas) = Cardinality(Sp)
  <2> DEFINE h == [s \in Sp |-> <<location[s][2], width>>]
  <2>1. ASSUME NEW s \in Sp, NEW t \in Sp, h[s] = h[t]
        PROVE  s = t
    <3>1. Below(Rank(s)) = Below(Rank(t))
      BY <1>4, <2>1
    <3>2. Rank(s) \in 1 .. NCells /\ Rank(t) \in 1 .. NCells
      BY <1>4, <1>7
    <3> QED
      BY <1>8, <3>1, <3>2, RankFacts
  <2>2. h \in Bijection(Sp, SlotAreas)
    BY <2>1, Fun_IsBij
  <2> HIDE DEF h, SlotAreas
  <2>3. ExistsBijection(Sp, SlotAreas)
    BY <2>2 DEF ExistsBijection
  <2> QED
    BY <1>7, <2>3, FS_Bijection
<1>10. IsFiniteSet(RegAreas) /\ Cardinality(RegAreas) = 8
  <2> DEFINE h == [k \in 1 .. 8 |-> <<f_regs_loc[CallerSaved[k]][2], width>>]
  <2>1. \A k \in 1 .. 8 : h[k] = <<Below(Cardinality(Sp) + k), width>> /\ h[k] \in RegAreas
    BY <1>5, CallerSavedFacts
  <2>2. ASSUME NEW j \in 1 .. 8, NEW k \in 1 .. 8, h[j] = h[k]
        PROVE  j = k
    <3>1. Below(Cardinality(Sp) + j) = Below(Cardinality(Sp) + k)
      BY <2>1, <2>2
    <3>2. Cardinality(Sp) + j \in 1 .. NCells /\ Cardinality(Sp) + k \in 1 .. NCells
      BY <1>7
    <3>3. Cardinality(Sp) + j = Cardinality(Sp) + k
      BY <1>8, <3>1, <3>2
    <3> QED
      BY <1>7, <3>3
  <2>3. \A a \in RegAreas : \E k \in 1 .. 8 : h[k] = a
    BY CallerSavedFacts
  <2>4. h \in Bijection(1 .. 8, RegAreas)
    BY <2>1, <2>2, <2>3, Fun_IsBij
  <2>5. IsFiniteSet(1 .. 8) /\ Cardinality(1 .. 8) = 8
    <3>1. ASSUME NEW n \in Nat, n >= 1
          PROVE  IsFiniteSet(1 .. n) /\ Cardinality(1 .. n) = n
      BY <3>1, FS_Interval
    <3>2. Len(CallerSaved) \in Nat /\ Len(CallerSaved) >= 1 /\ Len(CallerSaved) = 8
      BY CallerSavedFacts
    <3>3. /\ IsFiniteSet(1 .. Len(CallerSaved))
          /\ Cardinality(1 .. Len(CallerSaved)) = Len(CallerSaved)
      BY <3>1, <3>2
    <3> QED
      BY <3>2, <3>3, Zenon
  <2> HIDE DEF h, RegAreas
  <2>6. ExistsBijection(1 .. 8, RegAreas)
    BY <2>4 DEF ExistsBijection
  <2> QED
    BY <2>5, <2>6, FS_Bijection
<1>11. SlotAreas \cap RegAreas = {}
  <2>1. SUFFICES ASSUME NEW s \in Sp, NEW r \in ToSet(CallerSaved),
                        location[s][2] = f_regs_loc[r][2]
                 PROVE  FALSE
    OBVIOUS
  <2>2. /\ Rank(s) \in 1 .. NCells /\ Cardinality(Sp) + Index(r) \in 1 .. NCells
        /\ Rank(s) # Cardinality(Sp) + Index(r)
    BY <1>4, <1>5, <1>7
  <2> QED
    BY <1>4, <1>5, <1>8, <2>1, <2>2
<1>12. RspArea \notin SlotAreas \cup RegAreas
  <2>1. SUFFICES ASSUME NEW j \in 1 .. NCells, Below(j) = Top PROVE FALSE
    <3>1. \A s \in Sp : Rank(s) \in 1 .. NCells
      BY <1>4, <1>7
    <3>2. \A r \in ToSet(CallerSaved) : Cardinality(Sp) + Index(r) \in 1 .. NCells
      BY <1>5, <1>7
    <3> QED
      BY <1>4, <1>5, <1>6, <3>1, <3>2
  <2>2. Top + 8 <= Below(j) /\ Top \in Int
    BY <1>1, CellFacts
  <2> QED
    BY <2>1, <2>2
<1> HIDE DEF SlotAreas, RegAreas, RspArea, OwnAreas
<1>13. /\ IsFiniteSet(SlotAreas \cup RegAreas)
       /\ Cardinality(SlotAreas \cup RegAreas) = Cardinality(Sp) + 8
  <2>1. Cardinality(SlotAreas \cap RegAreas) = 0
    BY <1>11, FS_EmptySet
  <2>2. /\ IsFiniteSet(SlotAreas \cup RegAreas)
        /\ Cardinality(SlotAreas \cup RegAreas) =
               Cardinality(SlotAreas) + Cardinality(RegAreas) - Cardinality(SlotAreas \cap RegAreas)
    BY <1>9, <1>10, FS_Union
  <2> QED
    BY <1>7, <1>9, <1>10, <2>1, <2>2
<1>14. IsFiniteSet(Known) /\ Cardinality(Known) = Cardinality(Sp) + 8 + 1
  BY <1>7, <1>12, <1>13, FS_AddElement
<1> HIDE DEF Known
<1>15. IsFiniteSet(FrameAreas) /\ Cardinality(Known) <= Cardinality(FrameAreas)
  <2>1. IsFiniteSet(FrameAreas)
    BY <1>2, <1>3, <1>14, FS_Union
  <2> QED
    BY <1>2, <2>1, FS_Subset
<1>16. Cardinality(FrameAreas) \in Nat /\ Len(CallerSaved) = 8
  BY <1>15, FS_CardinalityType, CallerSavedFacts
<1> QED
  BY <1>7, <1>14, <1>15, <1>16

LEMMA FrameInvApart ==
    ASSUME FrameInv
    PROVE  FrameApart
<1> SUFFICES ASSUME phase = "translate" PROVE FrameApart
  BY DEF FrameApart
<1>1. /\ InputInv /\ OwnApart /\ stack_offset \in Int /\ stack_offset <= Top
      /\ NCells \in Nat /\ Top \in Int /\ Top + 8 <= 0 /\ width \in {4, 8}
  BY CellFacts DEF FrameInv, OwnApart
<1>2. /\ \A j \in 1 .. NCells : Below(j) \in Int /\ Below(j) + width <= 0 /\ Top + 8 <= Below(j)
      /\ \A j, k \in 1 .. NCells : j < k => Below(k) + width <= Below(j)
  BY <1>1, CellFacts
<1>3. \A l \in Own : l[2] \in Int /\ stack_offset <= l[2] /\ l[2] + width <= Top
  BY <1>1 DEF OwnApart
<1>4. \A a \in FrameAreas : stack_offset <= a[1] /\ a[1] + a[2] <= 0
  <2> SUFFICES ASSUME NEW a \in FrameAreas
               PROVE  stack_offset <= a[1] /\ a[1] + a[2] <= 0
    OBVIOUS
  <2>1. ASSUME NEW j \in 1 .. NCells, a = <<Below(j), width>>
        PROVE  stack_offset <= a[1] /\ a[1] + a[2] <= 0
    BY <1>1, <1>2, <2>1
  <2>2. ASSUME a = <<Top, 8>>
        PROVE  stack_offset <= a[1] /\ a[1] + a[2] <= 0
    BY <1>1, <2>2
  <2>3. ASSUME NEW l \in Own, a = <<l[2], width>>
        PROVE  stack_offset <= a[1] /\ a[1] + a[2] <= 0
    BY <1>1, <1>3, <2>3
  <2> QED
    BY <2>1, <2>2, <2>3, AreaKinds
<1>5. ASSUME NEW a \in FrameAreas, NEW b \in FrameAreas, a # b
      PROVE  a[1] + a[2] <= b[1] \/ b[1] + b[2] <= a[1]
  <2>1. ASSUME NEW j \in 1 .. NCells, a = <<Below(j), width>>
        PROVE  a[1] + a[2] <= b[1] \/ b[1] + b[2] <= a[1]
    <3>1. ASSUME NEW k \in 1 .. NCells, b = <<Below(k), width>>
          PROVE  a[1] + a[2] <= b[1] \/ b[1] + b[2] <= a[1]
      <4>1. j < k \/ k < j
        BY <1>1, <1>5, <2>1, <3>1
      <4> QED
        BY <1>2, <2>1, <3>1, <4>1
    <3>2. ASSUME b = <<Top, 8>> PROVE b[1] + b[2] <= a[1]
      BY <1>1, <1>2, <2>1, <3>2
    <3>3. ASSUME NEW l \in Own, b = <<l[2], width>> PROVE b[1] + b[2] <= a[1]
      BY <1>1, <1>2, <1>3, <2>1, <3>3
    <3> QED
      BY <3>1, <3>2, <3>3, AreaKinds
  <2>2. ASSUME a = <<Top, 8>>
        PROVE  a[1] + a[2] <= b[1] \/ b[1] + b[2] <= a[1]
    <3>1. ASSUME NEW k \in 1 .. NCells, b = <<Below(k), width>> PROVE a[1] + a[2] <= b[1]
      BY <1>1, <1>2, <2>2, <3>1
    <3>2. ASSUME NEW l \in Own, b = <<l[2], width>> PROVE b[1] + b[2] <= a[1]
      BY <1>1, <1>3, <2>2, <3>2
    <3> QED
      BY <1>5, <2>2, <3>1, <3>2, AreaKinds
  <2>3. ASSUME NEW l \in Own, a = <<l[2], width>>
        PROVE  a[1] + a[2] <= b[1] \/ b[1] + b[2] <= a[1]
    <3>1. ASSUME NEW k \in 1 .. NCells, b = <<Below(k), width>> PROVE a[1] + a[2] <= b[1]
      BY <1>1, <1>2, <1>3, <2>3, <3>1
    <3>2. ASSUME b = <<Top, 8>> PROVE a[1] + a[2] <= b[1]
      BY <1>1, <1>3, <2>3, <3>2
    <3>3. ASSUME NEW k \in Own, b = <<k[2], width>>
          PROVE  a[1] + a[2] <= b[1] \/ b[1] + b[2] <= a[1]
      <4>1. k # l
        BY <1>5, <2>3, <3>3
      <4> QED
        BY <1>1, <2>3, <3>3, <4>1 DEF OwnApart
    <3> QED
      BY <3>1, <3>2, <3>3, AreaKinds
  <2> QED
    BY <2>1, <2>2, <2>3, AreaKinds
<1>6. Cardinality(FrameAreas) >= Cardinality(SpilledSlots(program[fn])) + Len(CallerSaved) + 1
  BY AreaCount DEF Sp
<1> QED
  BY <1>4, <1>5, <1>6 DEF FrameApart

LEMMA FrameBegin ==
    ASSUME FrameInv, BeginFunction, InputInv'
    PROVE  FrameInv'
<1>1. /\ UNCHANGED <<width, program, place, fn, imm_loc>>
      /\ phase = "begin" /\ phase' = "translate" /\ stack_offset' = Top
  BY DEF BeginFunction, inputs, Top, NCells, Sp
<1>2. Sp' = Sp /\ Own' = Own
  BY <1>1 DEF Sp, SpilledSlots, SlotsOf, Operands, Own, Foreign, Placed
<1>3. Top' = Top
  BY <1>1, <1>2 DEF Top, NCells, RspOffset, Below
<1>4. \A s \in Sp : location'[s] = Mem(Below(Rank(s)))
  <2>1. Sp \subseteq Slots
    BY RankFacts
  <2> QED
    BY <2>1 DEF BeginFunction, Rank, Sp
<1>5. \A r \in ToSet(CallerSaved) : f_regs_loc'[r] = Mem(Below(Cardinality(Sp) + Index(r)))
  BY CallerSavedFacts DEF BeginFunction, Index, Sp
<1>6. f_regs_loc'["rsp"] = Mem(Top)
  BY DEF BeginFunction, Top, NCells, Sp
<1>7. Cells'
  BY <1>1, <1>2, <1>3, <1>4, <1>5, <1>6 DEF Cells, Rank, Below, Mem
<1>8. OwnApart'
  <2>1. Own = {} /\ Top \in Int
    BY <1>1, CellFacts DEF FrameInv
  <2> QED
    BY <1>1, <1>2, <1>3, <2>1 DEF OwnApart
<1> QED
  BY <1>1, <1>7, <1>8 DEF FrameInv

(* An emitter other than that of mul and div. *)
LEMMA FrameKept ==
    ASSUME FrameInv, InputInv', phase' = phase,
           UNCHANGED <<width, program, place, fn, stack_offset, location, imm_loc, f_regs_loc>>
    PROVE  FrameInv'
<1>1. Sp' = Sp /\ Own' = Own
  BY DEF Sp, SpilledSlots, SlotsOf, Operands, Own, Foreign, Placed
<1>2. Top' = Top
  BY <1>1 DEF Top, NCells, RspOffset, Below
<1>3. Cells => Cells'
  BY <1>1, <1>2 DEF Cells, Rank, Below, Mem
<1>4. OwnApart => OwnApart'
  BY <1>1, <1>2 DEF OwnApart, Placed
<1> QED
  BY <1>1, <1>3, <1>4 DEF FrameInv

(* The immediate of mul, div or mod is one of the function. *)
LEMMA PlacedFacts ==
    ASSUME InputInv, Handles(MulDivOps), IsImm(Opd(Current.src))
    PROVE  Imm(Opd(Current.src)[2]) \in Placed(program[fn])
<1>1. Current \in Made(program[fn]) /\ Current.op \in MulDivOps
  BY CurrentFacts
<1>2. \E k \in DOMAIN program[fn] : program[fn][k] = Current
  BY <1>1 DEF Made, MulDivOps
<1>3. Current \in Instruction
  <2>1. program[fn] \in Seq(Instruction)
    BY InputFacts DEF InputInv
  <2> QED
    BY <1>2, <2>1, SeqElement
<1>4. Current.src \in Operand
  BY <1>3 DEF Instruction
<1>5. ~ \E s \in Slots : Current.src = SlotOf(s)
  <2> SUFFICES ASSUME NEW s \in Slots, Current.src = SlotOf(s) PROVE FALSE
    OBVIOUS
  <2>1. Opd(Current.src) = location[s]
    BY DEF Opd, SlotOf
  <2>2. location[s] \in Locs
    BY DEF InputInv
  <2>3. ~ IsImm(location[s])
    BY <2>2 DEF Locs, IsImm, None, Reg, Mem
  <2> QED
    BY <2>1, <2>3
<1>6. \E n \in Immediates : Current.src = Imm(n)
  <2>1. CASE Current.src = None
    BY <2>1 DEF Opd, IsImm, None
  <2> QED
    BY <1>4, <1>5, <2>1 DEF Operand, Result
<1>7. Opd(Current.src) = Current.src /\ Imm(Current.src[2]) = Current.src
  BY <1>6 DEF Opd, Imm
<1> QED
  BY <1>1, <1>2, <1>7 DEF Placed, MulDivOps

LEMMA FrameMulDiv ==
    ASSUME FrameInv, EmitMulDiv, InputInv'
    PROVE  FrameInv'
<1> DEFINE s   == Opd(Current.src)
           new == stack_offset - width
           l0  == <<s[2], new>>
<1>1. /\ UNCHANGED <<width, program, place, fn, location, f_regs_loc>>
      /\ phase = "translate" /\ phase' = phase
  BY DEF EmitMulDiv, Put, Handles, inputs
<1>2. CASE Unallocated
  BY <1>1, <1>2, FrameKept DEF Unallocated
<1>3. CASE /\ IsImm(s)
           /\ stack_offset' = new /\ imm_loc' = imm_loc \cup {l0}
  <2>1. Sp' = Sp /\ Own' \subseteq Own \cup {l0}
    BY <1>1, <1>3 DEF Sp, SpilledSlots, SlotsOf, Operands, Own, Foreign, Placed
  <2>2. Top' = Top
    BY <1>1, <2>1 DEF Top, NCells, RspOffset, Below
  <2>3. Cells'
    BY <1>1, <2>1, <2>2 DEF FrameInv, Cells, Rank, Below, Mem
  <2>4. Imm(l0[1]) \in Placed(program[fn])
    BY <1>3, PlacedFacts DEF EmitMulDiv, MulDivOps, FrameInv
  <2>5. /\ stack_offset \in Int /\ stack_offset <= Top
        /\ \A l \in Own : /\ Imm(l[1]) \in Placed(program[fn])
                          /\ l[2] \in Int /\ stack_offset <= l[2] /\ l[2] + width <= Top
        /\ \A k, l \in Own : k # l => k[2] + width <= l[2] \/ l[2] + width <= k[2]
        /\ Top \in Int /\ width \in {4, 8}
    BY <1>1, CellFacts DEF FrameInv, OwnApart
  <2>6. /\ new \in Int /\ new <= stack_offset /\ new + width = stack_offset
        /\ l0[2] = new
    BY <2>5
  <2> HIDE DEF new, l0
  <2>7. \A l \in Own' : /\ Imm(l[1]) \in Placed(program[fn])
                        /\ l[2] \in Int /\ new <= l[2] /\ l[2] + width <= Top
    BY <2>1, <2>4, <2>5, <2>6
  <2>8. ASSUME NEW k \in Own', NEW l \in Own', k # l
        PROVE  k[2] + width <= l[2] \/ l[2] + width <= k[2]
    BY <2>1, <2>5, <2>6, <2>8
  <2>9. OwnApart'
    <3>1. new <= Top
      BY <2>5, <2>6
    <3> QED
      BY <1>1, <1>3, <2>2, <2>6, <2>7, <2>8, <3>1 DEF OwnApart, Placed
  <2>10. IsFiniteSet(imm_loc') /\ \A l \in imm_loc' : l[2] \in Int
    BY <1>3, <2>6, FS_AddElement DEF FrameInv
  <2> QED
    BY <1>1, <2>3, <2>9, <2>10 DEF FrameInv
<1> QED
  BY <1>2, <1>3 DEF EmitMulDiv

(* The immediates of a function that is done are those of an earlier one. *)
LEMMA FrameEnd ==
    ASSUME FrameInv, EndFunction, InputInv'
    PROVE  FrameInv'
<1>1. /\ UNCHANGED <<program, imm_loc>> /\ phase = "translate"
      /\ phase' \in {"begin", "emitted"}
      /\ phase' = "begin" => fn' = fn + 1
  BY DEF EndFunction, inputs
<1>2. phase' = "begin" => Own' = {}
  <2> SUFFICES ASSUME phase' = "begin", NEW l \in imm_loc
               PROVE  \E n \in 1 .. fn' - 1 : Imm(l[1]) \in Placed(program[n])
    BY <1>1 DEF Own, Foreign, Placed
  <2>1. fn \in Nat /\ fn >= 1 /\ fn' - 1 = fn
    BY <1>1, InputFacts DEF InputInv, FrameInv
  <2>2. CASE Foreign(l)
    BY <2>1, <2>2 DEF Foreign
  <2>3. CASE l \in Own
    BY <1>1, <2>1, <2>3 DEF FrameInv, OwnApart
  <2> QED
    BY <2>2, <2>3 DEF Own
<1> QED
  BY <1>1, <1>2 DEF FrameInv

LEMMA FrameNext == FrameInv /\ [Next]_vars => FrameInv'
<1> SUFFICES ASSUME FrameInv, [Next]_vars PROVE FrameInv'
  OBVIOUS
<1>1. InputInv'
  BY InputNext DEF FrameInv
<1>2. CASE BeginFunction
  BY <1>1, <1>2, FrameBegin
<1>3. CASE EndFunction
  BY <1>1, <1>3, FrameEnd
<1>4. CASE EmitMulDiv
  BY <1>1, <1>4, FrameMulDiv
<1>5. CASE EmitMovOp \/ EmitBinaryOp \/ EmitCmpOp \/ EmitLogicOp \/ EmitRtn \/ EmitParam
           \/ EmitCall \/ EmitArg
  <2>1. /\ UNCHANGED <<width, program, place, fn, stack_offset, location, imm_loc, f_regs_loc>>
        /\ phase' = phase
    BY <1>5 DEF EmitMovOp, EmitBinaryOp, EmitCmpOp, EmitLogicOp, EmitRtn, EmitParam, EmitCall,
                EmitArg, Put, Unallocated, inputs
  <2> QED
    BY <1>1, <2>1, FrameKept
<1>6. CASE Enter \/ Run
  <2>1. phase' \in {"run", "returned"} /\ imm_loc' = imm_loc
    BY <1>6 DEF Enter, Run, emitter
  <2> QED
    BY <1>1, <2>1 DEF FrameInv
<1>7. CASE UNCHANGED vars
  <2>1. /\ UNCHANGED <<width, program, place, fn, stack_offset, location, imm_loc, f_regs_loc>>
        /\ phase' = phase
    BY <1>7 DEF vars, inputs, emitter
  <2> QED
    BY <1>1, <2>1, FrameKept
<1> QED
  BY <1>2, <1>3, <1>4, <1>5, <1>6, <1>7 DEF Next

(* For every program, every assignment of its slots and both widths, the   *)
(* spilled slots, the saved registers, rsp and the immediates of the       *)
(* function that is translated lie inside of its frame, and no two of them *)
(* meet (alloc_stack, alloc_stack_64, alloc_stack_for_immediate).          *)
THEOREM FrameNeverMeets == Spec => []FrameApart
<1>1. Init => FrameInv
  <2> SUFFICES ASSUME Init PROVE FrameInv
    OBVIOUS
  <2>1. imm_loc = {} /\ phase = "begin"
    BY DEF Init
  <2> QED
    BY <2>1, InputInit, FS_EmptySet DEF FrameInv, Own
<1>2. FrameInv => FrameApart
  BY FrameInvApart
<1> QED
  BY <1>1, <1>2, FrameNext, PTL DEF Spec

-----------------------------------------------------------------------------
(***************************************************************************)
(* The text.  Every emitter writes instructions the machine knows.         *)
(***************************************************************************)
Numbers == {Imm(n) : n \in Int}
Opds    == Locs \cup Numbers
Tests   == {<<"op", c>> : c \in CmpOps \cup {"lnot"}}
Args    == Opds \cup {Reg("rsp")} \cup {Ind(o) : o \in Opds} \cup Tests

MachineOps == {"mov", "movq", "push", "pop", "subsp", "alignsp", "enter", "leave", "ret",
               "add", "shl", "imul", "cltd", "idiv", "neg", "both", "cmp", "set", "jz", "jnz",
               "jn", "call"}

Lines == {t \in [op : MachineOps, s : Args, d : Args] :
             /\ t.op \in {"subsp", "call"} => t.s \in Numbers
             /\ t.op = "set" => t.s \in Tests}

(* No call, and of a form that x86 has. *)
Plain  == {t \in Lines : t.op # "call"}
Proper == {t \in Plain : Encodable(t)}

LEMMA OperandForms ==
    /\ \A o \in Locs : o \in Opds /\ ~ IsImm(o)
    /\ \A o \in Opds : /\ o \in Args /\ Ind(o) \in Args /\ (InMemory(o) <=> IsMem(o))
                       /\ IsImm(o) => o \in Numbers
                       /\ ~ IsImm(o) => o \in Locs
                       /\ IsMem(o) => ~ IsReg(o)
                       /\ InMemory(Ind(o)) /\ ~ IsImm(Ind(o))
    /\ \A o \in Tests : o \in Args /\ ~ InMemory(o)
    /\ \A n \in Int : Imm(n) \in Numbers /\ Mem(n) \in Locs /\ IsMem(Mem(n)) /\ IsImm(Imm(n))
    /\ \A o \in Numbers : o \in Opds /\ IsImm(o) /\ ~ IsMem(o) /\ ~ IsReg(o)
    /\ \A r \in Regs : Reg(r) \in Locs /\ ~ IsMem(Reg(r))
    /\ Acc \in Locs /\ Rem \in Locs /\ Count \in Locs /\ None \in Locs
    /\ ~ IsMem(Acc) /\ ~ IsMem(Rem) /\ ~ IsMem(Count) /\ ~ IsMem(None)
    /\ Reg("rsp") \in Args /\ ~ InMemory(Reg("rsp")) /\ ~ IsImm(Reg("rsp"))
<1>1. \A n : Imm(n)[1] = "imm" /\ Mem(n)[1] = "mem" /\ Reg(n)[1] = "reg" /\ Ind(n)[1] = "ind"
  BY DEF Imm, Mem, Reg, Ind
<1>2. None[1] = "none" /\ \A o \in Tests : o[1] = "op"
  BY DEF None, Tests
<1>3. \A o \in Locs : o[1] \in {"none", "reg", "mem"}
  BY <1>1, <1>2 DEF Locs
<1>4. \A o \in Numbers : o[1] = "imm"
  BY <1>1 DEF Numbers
<1>5. "rax" \in Regs /\ "rdx" \in Regs /\ "rcx" \in Regs
  <2>1. CallerSaved[5] = "rcx" /\ CallerSaved[7] = "rdx"
    BY DEF CallerSaved
  <2>2. 5 \in 1 .. 8 /\ 7 \in 1 .. 8
    OBVIOUS
  <2>3. "rcx" \in ToSet(CallerSaved) /\ "rdx" \in ToSet(CallerSaved)
    BY <2>1, <2>2, CallerSavedFacts
  <2> QED
    BY <2>3 DEF Regs
<1>6. \A r \in Regs : Reg(r) \in Locs
  BY DEF Locs
<1>7. \A o \in Opds : o \in Locs \/ o \in Numbers
  BY DEF Opds
<1>8. \A o \in Opds : o \in Args /\ Ind(o) \in Args
  BY DEF Args
<1>9. \A n \in Int : Imm(n) \in Numbers /\ Mem(n) \in Locs
  BY DEF Numbers, Locs
<1>10. None \in Locs /\ Reg("rsp") \in Args /\ \A o \in Tests : o \in Args
  BY DEF Locs, Args
<1>11. \A o \in Locs \cup Numbers : o \in Opds
  BY DEF Opds
<1> QED
  BY <1>1, <1>2, <1>3, <1>4, <1>5, <1>6, <1>7, <1>8, <1>9, <1>10, <1>11
     DEF IsImm, IsMem, IsReg, InMemory, Acc, Rem, Count

LEMMA LineForms ==
    /\ \A s, d \in Args : \A op \in MachineOps \ {"call", "subsp", "set", "shl", "imul", "idiv"} :
           ~ (InMemory(s) /\ InMemory(d)) /\ ~ IsImm(d) => T(op, s, d) \in Proper
    /\ \A s, d \in Args : ~ (InMemory(s) /\ InMemory(d)) /\ ~ IsImm(d)
           => /\ MovT(s, d) \in Proper
              /\ ~ IsImm(s) => T("imul", s, d) \in Proper /\ T("idiv", s, d) \in Proper
              /\ IsImm(s) \/ s = Count => T("shl", s, d) \in Proper
    /\ \A s \in Tests : T("set", s, Acc) \in Proper
    /\ \A n \in Int : T("subsp", Imm(n), None) \in Proper
<1>1. \A op, s, d : T(op, s, d).op = op /\ T(op, s, d).s = s /\ T(op, s, d).d = d
  BY DEF T
<1>2. \A s, d \in Args : \A op \in MachineOps \ {"call", "subsp", "set"} :
          T(op, s, d) \in Plain
  BY DEF T, Plain, Lines
<1>3. \A s, d : MovT(s, d) = T("mov", s, d)
  BY DEF MovT
<1>4. {"mov", "imul", "idiv", "shl"} \subseteq MachineOps
  BY DEF MachineOps
<1>5. \A s \in Tests : T("set", s, Acc) \in Plain
  BY OperandForms DEF T, Plain, Lines, MachineOps
<1>6. \A n \in Int : T("subsp", Imm(n), None) \in Plain
  BY OperandForms DEF T, Plain, Lines, MachineOps
<1>7. ASSUME NEW s \in Args, NEW d \in Args, ~ (InMemory(s) /\ InMemory(d)), ~ IsImm(d)
      PROVE  /\ \A op \in MachineOps \ {"call", "subsp", "set", "shl", "imul", "idiv"} :
                    T(op, s, d) \in Proper
             /\ MovT(s, d) \in Proper
             /\ ~ IsImm(s) => T("imul", s, d) \in Proper /\ T("idiv", s, d) \in Proper
             /\ IsImm(s) \/ s = Count => T("shl", s, d) \in Proper
  BY <1>1, <1>2, <1>3, <1>4, <1>7 DEF Proper, Encodable
<1>8. \A s \in Tests : T("set", s, Acc) \in Proper
  BY <1>1, <1>5, OperandForms DEF Proper, Encodable
<1>9. \A n \in Int : T("subsp", Imm(n), None) \in Proper
  BY <1>1, <1>6, OperandForms DEF Proper, Encodable
<1> QED
  BY <1>7, <1>8, <1>9

LEMMA Tuples ==
    ASSUME NEW E
    PROVE  /\ << >> \in Seq(E)
           /\ \A a \in E : <<a>> \in Seq(E)
           /\ \A a, b \in E : <<a, b>> \in Seq(E)
           /\ \A a, b, c \in E : <<a, b, c>> \in Seq(E)
           /\ \A a, b, c, d \in E : <<a, b, c, d>> \in Seq(E)
           /\ \A s \in Seq(E) : \A a \in E : Append(s, a) \in Seq(E)
           /\ \A s, t \in Seq(E) : s \o t \in Seq(E)
           /\ \A n \in Nat : \A f \in [1 .. n -> E] : f \in Seq(E)
<1>1. \A a, b, c, d \in E : <<a, b, c, d>> \in Seq(E)
  OBVIOUS
<1>2. \A a, b, c \in E : <<a, b, c>> \in Seq(E)
  OBVIOUS
<1>3. \A a, b \in E : <<a, b>> \in Seq(E)
  OBVIOUS
<1>4. \A a \in E : <<a>> \in Seq(E)
  OBVIOUS
<1>5. /\ << >> \in Seq(E)
      /\ \A s \in Seq(E) : \A a \in E : Append(s, a) \in Seq(E)
      /\ \A s, t \in Seq(E) : s \o t \in Seq(E)
      /\ \A n \in Nat : \A f \in [1 .. n -> E] : f \in Seq(E)
  OBVIOUS
<1> QED
  BY <1>1, <1>2, <1>3, <1>4, <1>5

(* The texts of single instructions, for any operands.  s and d stand for  *)
(* the source and the destination.                                         *)
LEMMA MoveForms ==
    ASSUME NEW s \in Opds, NEW d \in Locs
    PROVE  MoveText(s, d) \in Seq(Proper) /\ LoadText(s, d) \in Seq(Proper)
<1>1. /\ s \in Args /\ d \in Opds /\ d \in Args /\ ~ IsImm(d) /\ Acc \in Args /\ Rem \in Args
      /\ (InMemory(s) <=> IsMem(s)) /\ (InMemory(d) <=> IsMem(d))
      /\ Acc \in Opds /\ Rem \in Opds /\ ~ InMemory(Acc) /\ ~ InMemory(Rem)
      /\ ~ IsImm(Acc) /\ ~ IsImm(Rem)
  BY OperandForms
<1>2. \A p \in Opds : Ind(p) \in Args
  BY OperandForms
<1>3. MoveText(s, d) \in Seq(Proper)
  <2>1. CASE MemToMem(s, d)
    <3>1. MoveText(s, d) = Append(<<MovT(s, Acc)>>, MovT(Acc, d))
      BY <2>1 DEF MoveText, ViaAcc
    <3>2. MovT(s, Acc) \in Proper /\ MovT(Acc, d) \in Proper
      BY <1>1, LineForms
    <3> QED
      BY <3>1, <3>2, Tuples
  <2>2. CASE ~ MemToMem(s, d)
    <3>1. MoveText(s, d) = Append(<< >>, MovT(s, d))
      BY <2>2 DEF MoveText, ViaAcc
    <3>2. MovT(s, d) \in Proper
      BY <1>1, <2>2, LineForms DEF MemToMem
    <3> QED
      BY <3>1, <3>2, Tuples
  <2> QED
    BY <2>1, <2>2
<1>4. LoadText(s, d) \in Seq(Proper)
  <2> DEFINE p == IF IsMem(s) THEN Rem ELSE s
             first == IF IsMem(s) THEN <<MovT(s, Rem)>> ELSE << >>
             rest == IF IsMem(d) THEN <<MovT(Ind(p), Acc), MovT(Acc, d)>>
                                 ELSE <<MovT(Ind(p), d)>>
  <2>1. p \in Opds /\ Ind(p) \in Args
    BY <1>1, <1>2
  <2>2. first \in Seq(Proper)
    <3>1. MovT(s, Rem) \in Proper
      BY <1>1, LineForms
    <3> QED
      BY <3>1, Tuples
  <2>3. rest \in Seq(Proper)
    <3>1. MovT(Ind(p), Acc) \in Proper /\ MovT(Acc, d) \in Proper
      BY <1>1, <2>1, LineForms
    <3>2. ~ IsMem(d) => MovT(Ind(p), d) \in Proper
      BY <1>1, <2>1, LineForms
    <3> HIDE DEF p
    <3> QED
      BY <3>1, <3>2, Tuples
  <2>4. LoadText(s, d) = first \o rest
    BY DEF LoadText
  <2> HIDE DEF first, rest
  <2> QED
    BY <2>2, <2>3, <2>4, Tuples
<1> QED
  BY <1>3, <1>4

LEMMA StoreForms ==
    ASSUME NEW s \in Opds, NEW d \in Opds
    PROVE  /\ StoreText(s, d) \in Seq(Plain)
           /\ ~ IsMem(s) /\ ~ IsMem(d) => StoreText(s, d) \in Seq(Proper)
<1>1. /\ s \in Args /\ d \in Args /\ Acc \in Args /\ Ind(d) \in Args /\ Ind(Acc) \in Args
      /\ (InMemory(s) <=> IsMem(s)) /\ ~ IsImm(Ind(d))
  BY OperandForms
<1>2. MovT(d, Acc) \in Plain /\ MovT(s, Ind(Acc)) \in Plain /\ MovT(s, Ind(d)) \in Plain
  BY <1>1 DEF MovT, T, Plain, Lines, MachineOps
<1>3. StoreText(s, d) \in Seq(Plain)
  BY <1>2, Tuples DEF StoreText
<1>4. ASSUME ~ IsMem(s), ~ IsMem(d) PROVE StoreText(s, d) \in Seq(Proper)
  <2>1. MovT(s, Ind(d)) \in Proper
    BY <1>1, <1>4, LineForms
  <2> QED
    BY <1>4, <2>1, Tuples DEF StoreText
<1> QED
  BY <1>3, <1>4

LEMMA BinaryForms ==
    ASSUME NEW s \in Opds, NEW d \in Locs
    PROVE  /\ ShiftText(s, d) \in Seq(Proper)
           /\ Append(ViaAcc(s, d).pre, T("add", ViaAcc(s, d).s, d)) \in Seq(Proper)
           /\ LogicText(s, d) \in Seq(Proper)
<1>1. /\ s \in Args /\ d \in Opds /\ d \in Args /\ ~ IsImm(d)
      /\ Acc \in Args /\ Rem \in Args /\ Count \in Args /\ None \in Args
      /\ (InMemory(s) <=> IsMem(s)) /\ (InMemory(d) <=> IsMem(d))
      /\ ~ InMemory(Acc) /\ ~ InMemory(Rem) /\ ~ InMemory(Count) /\ ~ InMemory(None)
      /\ ~ IsImm(Acc) /\ ~ IsImm(Rem) /\ ~ IsImm(Count) /\ ~ IsImm(None)
  BY OperandForms
<1>2. IsImm(s) => ~ InMemory(s)
  BY DEF IsImm, InMemory
<1>3. ShiftText(s, d) \in Seq(Proper)
  <2>1. IsImm(s) => T("shl", s, d) \in Proper
    BY <1>1, <1>2, LineForms
  <2>2. /\ T("shl", Count, d) \in Proper /\ T("shl", Count, Rem) \in Proper
        /\ MovT(d, Rem) \in Proper /\ MovT(s, Count) \in Proper /\ MovT(Rem, d) \in Proper
    BY <1>1, LineForms
  <2>3. T("push", Count, None) \in Proper /\ T("pop", None, Count) \in Proper
    BY <1>1, LineForms DEF MachineOps
  <2> QED
    BY <2>1, <2>2, <2>3, Tuples DEF ShiftText
<1>4. Append(ViaAcc(s, d).pre, T("add", ViaAcc(s, d).s, d)) \in Seq(Proper)
  <2>1. /\ T("add", Acc, d) \in Proper /\ MovT(s, Acc) \in Proper
        /\ ~ MemToMem(s, d) => T("add", s, d) \in Proper
    BY <1>1, LineForms DEF MachineOps, MemToMem
  <2>2. CASE MemToMem(s, d)
    <3>1. ViaAcc(s, d).pre = <<MovT(s, Acc)>> /\ ViaAcc(s, d).s = Acc
      BY <2>2 DEF ViaAcc
    <3> QED
      BY <2>1, <3>1, Tuples
  <2>3. CASE ~ MemToMem(s, d)
    <3>1. ViaAcc(s, d).pre = << >> /\ ViaAcc(s, d).s = s
      BY <2>3 DEF ViaAcc
    <3> QED
      BY <2>1, <2>3, <3>1, Tuples
  <2> QED
    BY <2>2, <2>3
<1>5. LogicText(s, d) \in Seq(Proper)
  <2>1. /\ MovT(s, Acc) \in Proper /\ MovT(d, Rem) \in Proper /\ MovT(Acc, d) \in Proper
        /\ T("both", Rem, Acc) \in Proper
    BY <1>1, LineForms DEF MachineOps
  <2> QED
    BY <2>1, Tuples DEF LogicText
<1> QED
  BY <1>3, <1>4, <1>5

LEMMA MulDivForms ==
    ASSUME NEW op, NEW s \in Opds, NEW p \in Locs, NEW d \in Locs, IsMem(p) \/ p = s
    PROVE  (IF IsImm(s) THEN <<MovT(s, p)>> ELSE << >>) \o MulDivText(op, p, d) \in Seq(Proper)
<1>1. /\ s \in Args /\ p \in Args /\ d \in Args /\ ~ IsImm(d) /\ ~ IsImm(p)
      /\ Acc \in Args /\ Rem \in Args /\ None \in Args
      /\ ~ InMemory(Acc) /\ ~ InMemory(Rem) /\ ~ InMemory(None)
      /\ ~ IsImm(Acc) /\ ~ IsImm(Rem) /\ ~ IsImm(None)
  BY OperandForms
<1>2. IsImm(s) => ~ InMemory(s)
  BY DEF IsImm, InMemory
<1> DEFINE first == IF IsImm(s) THEN <<MovT(s, p)>> ELSE << >>
<1>3. first \in Seq(Proper)
  <2>1. IsImm(s) => MovT(s, p) \in Proper
    BY <1>1, <1>2, LineForms
  <2> QED
    BY <2>1, Tuples
<1>4. MulDivText(op, p, d) \in Seq(Proper)
  <2>1. /\ MovT(d, Acc) \in Proper /\ MovT(Acc, d) \in Proper /\ MovT(Rem, d) \in Proper
        /\ T("imul", p, None) \in Proper /\ T("idiv", p, None) \in Proper
    BY <1>1, LineForms
  <2>2. T("cltd", None, None) \in Proper
    BY <1>1, LineForms DEF MachineOps
  <2>3. MovT(IF op = "mod" THEN Rem ELSE Acc, d) \in Proper
    BY <2>1
  <2> QED
    BY <2>1, <2>2, <2>3, Tuples DEF MulDivText
<1> HIDE DEF first
<1>5. first \o MulDivText(op, p, d) \in Seq(Proper)
  BY <1>3, <1>4, Tuples
<1> QED
  BY <1>5 DEF first

LEMMA CompareForms ==
    ASSUME NEW s \in Opds
    PROVE  /\ \A op \in CmpOps : \A b \in Opds : \A d \in Locs :
                  CompareText(op, s, b, d) \in Seq(Proper)
           /\ \A d \in Opds : CmpText(s, d) \in Seq(Proper)
           /\ BrzText(s) \in Seq(Proper) /\ BrnzText(s) \in Seq(Proper)
           /\ \A t \in Args : ~ InMemory(t) => <<T("jn", t, None)>> \in Seq(Proper)
<1>1. /\ s \in Args /\ Acc \in Args /\ None \in Args /\ Imm(0) \in Args
      /\ ~ InMemory(Acc) /\ ~ InMemory(None) /\ ~ IsImm(Acc) /\ ~ IsImm(None)
      /\ (InMemory(s) <=> IsMem(s))
  BY OperandForms
<1>2. ~ InMemory(Imm(0))
  BY DEF Imm, InMemory
<1>3. MovT(s, Acc) \in Proper /\ T("cmp", s, Acc) \in Proper /\ T("cmp", Imm(0), Acc) \in Proper
  BY <1>1, <1>2, LineForms DEF MachineOps
<1>4. ~ IsImm(s) => T("cmp", Imm(0), s) \in Proper
  BY <1>1, <1>2, LineForms DEF MachineOps
<1>5. ASSUME NEW op \in CmpOps, NEW b \in Opds, NEW d \in Locs
      PROVE  CompareText(op, s, b, d) \in Seq(Proper)
  <2>1. <<"op", op>> \in Tests /\ b \in Args /\ d \in Args /\ ~ IsImm(d)
    BY OperandForms DEF Tests
  <2>2. /\ T("cmp", b, Acc) \in Proper /\ T("set", <<"op", op>>, Acc) \in Proper
        /\ MovT(Acc, d) \in Proper
    BY <1>1, <2>1, LineForms DEF MachineOps
  <2> QED
    BY <1>3, <2>2, Tuples DEF CompareText
<1>6. ASSUME NEW d \in Opds PROVE CmpText(s, d) \in Seq(Proper)
  <2>1. d \in Args /\ (InMemory(d) <=> IsMem(d))
    BY OperandForms
  <2>2. MovT(d, Acc) \in Proper
    BY <1>1, <2>1, LineForms
  <2>3. ~ IsImm(d) /\ ~ MemToMem(s, d) => T("cmp", s, d) \in Proper
    BY <1>1, <2>1, LineForms DEF MachineOps, MemToMem
  <2> QED
    BY <1>3, <2>2, <2>3, Tuples DEF CmpText
<1>7. BrzText(s) \in Seq(Proper)
  <2>1. T("jz", None, None) \in Proper
    BY <1>1, LineForms DEF MachineOps
  <2>2. CASE IsImm(s)
    BY <1>3, <2>1, <2>2, Tuples DEF BrzText
  <2>3. CASE ~ IsImm(s)
    BY <1>4, <2>1, <2>3, Tuples DEF BrzText
  <2> QED
    BY <2>2, <2>3
<1>8. BrnzText(s) \in Seq(Proper)
  <2>1. T("jnz", None, None) \in Proper
    BY <1>1, LineForms DEF MachineOps
  <2>2. CASE IsReg(s)
    <3>1. ~ IsImm(s)
      BY <2>2 DEF IsReg, IsImm
    <3> QED
      BY <1>4, <2>1, <2>2, <3>1, Tuples DEF BrnzText
  <2>3. CASE ~ IsReg(s)
    BY <1>3, <2>1, <2>3, Tuples DEF BrnzText
  <2> QED
    BY <2>2, <2>3
<1>9. \A t \in Args : ~ InMemory(t) => <<T("jn", t, None)>> \in Seq(Proper)
  <2>1. \A t \in Args : ~ InMemory(t) => T("jn", t, None) \in Proper
    BY <1>1, LineForms DEF MachineOps
  <2> QED
    BY <2>1, Tuples
<1> QED
  BY <1>5, <1>6, <1>7, <1>8, <1>9

LEMMA UnaryForms ==
    ASSUME NEW op, NEW d \in Locs
    PROVE  UnaryText(op, d) \in Seq(Proper)
<1>1. /\ d \in Args /\ ~ IsImm(d) /\ Acc \in Args /\ None \in Args /\ Imm(0) \in Args
      /\ ~ InMemory(Acc) /\ ~ InMemory(None)
  BY OperandForms
<1>2. ~ InMemory(Imm(0))
  BY DEF Imm, InMemory
<1>3. <<"op", "lnot">> \in Tests
  BY DEF Tests
<1>4. /\ T("neg", None, d) \in Proper /\ T("cmp", Imm(0), d) \in Proper
      /\ T("set", <<"op", "lnot">>, Acc) \in Proper /\ MovT(Acc, d) \in Proper
  BY <1>1, <1>2, <1>3, LineForms DEF MachineOps
<1> QED
  BY <1>4, Tuples DEF UnaryText

LEMMA RtnForms ==
    ASSUME NEW s \in Opds, NEW q \in Seq(Regs)
    PROVE  RtnText(s, q) \in Seq(Proper)
<1> DEFINE pops == [k \in 1 .. Len(q) |-> T("pop", None, Reg(q[Len(q) + 1 - k]))]
           ends == <<T("leave", None, None), T("ret", None, None)>>
<1>1. /\ s \in Args /\ Acc \in Args /\ None \in Args /\ ~ IsImm(None)
      /\ ~ InMemory(Acc) /\ ~ InMemory(None) /\ ~ IsImm(Acc)
  BY OperandForms
<1>2. MovT(s, Acc) \in Proper
  BY <1>1, LineForms
<1>3. pops \in Seq(Proper)
  <2>1. ASSUME NEW k \in 1 .. Len(q)
        PROVE  T("pop", None, Reg(q[Len(q) + 1 - k])) \in Proper
    <3> DEFINE r == q[Len(q) + 1 - k]
    <3>1. r \in Regs
      OBVIOUS
    <3> HIDE DEF r
    <3>2. Reg(r) \in Args /\ ~ IsImm(Reg(r))
      BY <3>1, OperandForms
    <3>3. T("pop", None, Reg(r)) \in Proper
      BY <1>1, <3>2, LineForms DEF MachineOps
    <3> QED
      BY <3>3 DEF r
  <2>2. pops \in [1 .. Len(q) -> Proper] /\ Len(q) \in Nat
    BY <2>1
  <2> HIDE DEF pops
  <2> QED
    BY <2>2, Tuples
<1>4. ends \in Seq(Proper)
  <2>1. T("leave", None, None) \in Proper /\ T("ret", None, None) \in Proper
    BY <1>1, LineForms DEF MachineOps
  <2> QED
    BY <2>1, Tuples
<1>5. RtnText(s, q) = <<MovT(s, Acc)>> \o pops \o ends
  BY DEF RtnText
<1> HIDE DEF pops, ends
<1> QED
  BY <1>2, <1>3, <1>4, <1>5, Tuples

-----------------------------------------------------------------------------
(***************************************************************************)
(* The texts of parameters, calls and returns.                             *)
(***************************************************************************)
LEMMA SetSequence ==
    ASSUME NEW S, IsFiniteSet(S)
    PROVE  SetToSeq(S) \in Seq(S)
<1>1. PICK n \in Nat : ExistsBijection(1 .. n, S)
  BY FS_NatBijection
<1>2. Cardinality(S) = n
  BY <1>1, FS_CountingElements
<1>3. PICK f : f \in Bijection(1 .. n, S)
  BY <1>1 DEF ExistsBijection
<1>4. f \in [1 .. n -> S] /\ IsInjective(f)
  BY <1>3 DEF Bijection, Injection, IsInjective
<1>5. SetToSeq(S) \in [1 .. n -> S]
  BY <1>2, <1>4 DEF SetToSeq
<1> QED
  BY <1>1, <1>5, Tuples

LEMMA SavedSequences ==
    ASSUME InputInv
    PROVE  ToSave \in Seq(ToSet(CallerSaved)) /\ NeedSave(program[fn]) \in Seq(Regs)
<1> DEFINE f    == program[fn]
           Used == {t \in SlotsOf(f) : IsReg(place[t])}
           h    == [s \in Used |-> place[s][2]]
<1>1. IsFiniteSet(Used)
  <2>1. Used \subseteq Slots
    BY DEF SlotsOf
  <2> QED
    BY <2>1, NumbersAssumption, FS_Subset
<1>2. IsFiniteSet(AlRegs(f))
  <2>1. AlRegs(f) = {place[s][2] : s \in Used}
    BY DEF AlRegs
  <2>2. h \in Surjection(Used, AlRegs(f))
    BY <2>1, Fun_IsSurj
  <2> HIDE DEF h, Used, f
  <2> QED
    BY <1>1, <2>2, FS_Surjection
<1> HIDE DEF f
<1>3. ASSUME NEW S \in SUBSET AlRegs(f), NEW R, S \subseteq R
      PROVE  SetToSeq(S) \in Seq(R)
  <2>1. IsFiniteSet(S)
    BY <1>2, FS_Subset
  <2>2. SetToSeq(S) \in Seq(S)
    BY <2>1, SetSequence
  <2> QED
    BY <1>3, <2>2
<1>4. ToSave \in Seq(ToSet(CallerSaved))
  <2>1. AlRegs(f) \cap ToSet(CallerSaved) \in SUBSET AlRegs(f)
    OBVIOUS
  <2> QED
    BY <1>3, <2>1 DEF ToSave, f
<1>5. NeedSave(f) \in Seq(Regs)
  <2>1. /\ AlRegs(f) \cap CalleeSaved \in SUBSET AlRegs(f)
        /\ AlRegs(f) \cap CalleeSaved \subseteq Regs
    BY DEF Regs
  <2> QED
    BY <1>3, <2>1 DEF NeedSave
<1> QED
  BY <1>4, <1>5 DEF f

(* Registers are kept in memory, and those of parameters are among them. *)
LEMMA KeptPlaces ==
    ASSUME FrameInv, phase = "translate"
    PROVE  /\ \A r \in ToSet(CallerSaved) \cup {"rsp"} :
                  f_regs_loc[r] \in Locs /\ IsMem(f_regs_loc[r])
           /\ \A k \in 1 .. 6 : FRegs[k] \in ToSet(CallerSaved)
           /\ DOMAIN FRegs = 1 .. 6 /\ ToSet(FRegs) \subseteq ToSet(CallerSaved)
           /\ ToSet(CallerSaved) \subseteq Regs
<1>1. Cells /\ InputInv
  BY DEF FrameInv
<1>2. \A n : Mem(n)[1] = "mem"
  BY DEF Mem
<1>3. ASSUME NEW r \in ToSet(CallerSaved)
      PROVE  f_regs_loc[r] \in Locs /\ IsMem(f_regs_loc[r])
  <2>1. Cardinality(Sp) + Index(r) \in 1 .. NCells
    BY RankFacts, CallerSavedFacts DEF NCells
  <2>2. Below(Cardinality(Sp) + Index(r)) \in Int
    BY <1>1, <2>1, CellFacts
  <2>3. f_regs_loc[r] = Mem(Below(Cardinality(Sp) + Index(r)))
    BY <1>1 DEF Cells
  <2> QED
    BY <2>2, <2>3, OperandForms
<1>4. f_regs_loc["rsp"] \in Locs /\ IsMem(f_regs_loc["rsp"])
  BY <1>1, CellFacts, OperandForms DEF Cells
<1>5. \A k \in 1 .. 6 : FRegs[k] \in ToSet(CallerSaved)
  <2>1. /\ FRegs[1] = CallerSaved[6] /\ FRegs[2] = CallerSaved[8] /\ FRegs[3] = CallerSaved[7]
        /\ FRegs[4] = CallerSaved[5] /\ FRegs[5] = CallerSaved[3] /\ FRegs[6] = CallerSaved[4]
    BY DEF FRegs, CallerSaved
  <2>2. \A k \in 1 .. 6 : k \in {1, 2, 3, 4, 5, 6}
    OBVIOUS
  <2>3. \A k \in {3, 4, 5, 6, 7, 8} : CallerSaved[k] \in ToSet(CallerSaved)
    BY CallerSavedFacts
  <2> QED
    BY <2>1, <2>2, <2>3
<1>6. DOMAIN FRegs = 1 .. 6
  BY DEF FRegs
<1>7. ToSet(FRegs) \subseteq ToSet(CallerSaved)
  <2>1. \A r \in ToSet(FRegs) : \E k \in 1 .. 6 : r = FRegs[k]
    BY <1>6 DEF ToSet
  <2> QED
    BY <1>5, <2>1
<1>8. ToSet(CallerSaved) \subseteq Regs
  BY DEF Regs
<1> QED
  BY <1>3, <1>4, <1>5, <1>6, <1>7, <1>8

LEMMA KeptForms ==
    ASSUME FrameInv, phase = "translate", NEW o \in Opds
    PROVE  Kept(o) \in Opds
<1>1. CASE IsReg(o) /\ o[2] \in ToSet(FRegs)
  BY <1>1, KeptPlaces, OperandForms DEF Kept
<1>2. CASE ~ (IsReg(o) /\ o[2] \in ToSet(FRegs))
  BY <1>2 DEF Kept
<1> QED
  BY <1>1, <1>2

(* Registers are moved to their places, and back. *)
LEMMA SavesForms ==
    ASSUME FrameInv, phase = "translate", NEW q \in Seq(ToSet(CallerSaved))
    PROVE  /\ [k \in DOMAIN q |-> MovT(Reg(q[k]), f_regs_loc[q[k]])] \in Seq(Proper)
           /\ [k \in DOMAIN q |-> MovT(f_regs_loc[q[k]], Reg(q[k]))] \in Seq(Proper)
<1> DEFINE out  == [k \in DOMAIN q |-> MovT(Reg(q[k]), f_regs_loc[q[k]])]
           back == [k \in DOMAIN q |-> MovT(f_regs_loc[q[k]], Reg(q[k]))]
<1>1. ASSUME NEW r \in ToSet(CallerSaved)
      PROVE  MovT(Reg(r), f_regs_loc[r]) \in Proper /\ MovT(f_regs_loc[r], Reg(r)) \in Proper
  <2>1. /\ Reg(r) \in Args /\ ~ InMemory(Reg(r)) /\ ~ IsImm(Reg(r))
        /\ f_regs_loc[r] \in Args /\ ~ IsImm(f_regs_loc[r])
    BY KeptPlaces, OperandForms
  <2> QED
    BY <2>1, LineForms
<1>2. DOMAIN q = 1 .. Len(q) /\ Len(q) \in Nat /\ \A k \in DOMAIN q : q[k] \in ToSet(CallerSaved)
  BY SeqElement
<1>3. out \in [1 .. Len(q) -> Proper] /\ back \in [1 .. Len(q) -> Proper]
  BY <1>1, <1>2
<1> HIDE DEF out, back
<1>4. out \in Seq(Proper) /\ back \in Seq(Proper)
  BY <1>2, <1>3, Tuples
<1> QED
  BY <1>4 DEF out, back

Operations == [saved : Seq(ToSet(CallerSaved)), stack_args : Seq(Opds), param_index : Nat,
               req_args : Seq(ToSet(FRegs))]

(* Before a call rsp is aligned, and what is then taken off is a multiple  *)
(* of 16 bytes.                                                            *)
Padded(q) ==
    \A k \in DOMAIN q : q[k].op = "call" =>
        \E j \in 1 .. k - 2 : \E p \in Int :
            /\ q[j].op = "alignsp" /\ q[j + 1].op = "subsp" /\ q[j + 1].s = Imm(p)
            /\ \A i \in j + 2 .. k - 1 : q[i].op = "push"
            /\ (p + 8 * (k - j - 2)) % 16 = 0

Forms == {t \in Lines : Encodable(t)}

LEMMA PlainPadded ==
    ASSUME NEW q \in Seq(Plain)
    PROVE  Padded(q) /\ q \in Seq(Lines)
<1>1. \A k \in DOMAIN q : q[k] \in Plain
  BY SeqElement
<1>2. Padded(q)
  BY <1>1 DEF Padded, Plain
<1>3. \A t \in Plain : t \in Lines
  BY DEF Plain
<1> QED
  BY <1>2, <1>3

LEMMA ProperPlain ==
    ASSUME NEW q \in Seq(Proper)
    PROVE  q \in Seq(Plain) /\ q \in Seq(Forms)
<1>1. \A t \in Proper : t \in Plain /\ t \in Forms
  BY DEF Proper, Plain, Forms
<1> QED
  BY <1>1

LEMMA ParamForms ==
    ASSUME FrameInv, phase = "translate", tr \in Operations, NEW o \in Opds,
           tr.param_index < 6
    PROVE  ParamText(o) \in Seq(Proper)
<1> DEFINE r == FRegs[tr.param_index + 1]
<1>1. tr.param_index + 1 \in 1 .. 6
  BY DEF Operations
<1>2. r \in Regs
  BY <1>1, KeptPlaces
<1> HIDE DEF r
<1>3. Reg(r) \in Args /\ ~ InMemory(Reg(r)) /\ ~ IsImm(Reg(r)) /\ Kept(o) \in Args
  BY <1>2, KeptForms, OperandForms
<1>4. MovT(Kept(o), Reg(r)) \in Proper
  BY <1>3, LineForms
<1> QED
  BY <1>4, Tuples DEF ParamText, r

(* The text of a call: what is done before it, the call, and the rest.     *)
LEMMA AroundCall ==
    ASSUME NEW before \in Seq(Proper), NEW c \in Forms, NEW x \in Proper, NEW y \in Proper,
           NEW back \in Seq(Proper), NEW z \in Proper
    PROVE  LET q == (before \o <<c, x, y>>) \o back \o <<z>>
               n == Len(before)
           IN  /\ q \in Seq(Forms) /\ n \in Nat
               /\ \A k \in 1 .. n : q[k] = before[k]
               /\ \A k \in DOMAIN q : k # n + 1 => q[k] \in Proper
<1> DEFINE n == Len(before)
           first == before \o <<c, x, y>>
           second == back \o <<z>>
           q == first \o back \o <<z>>
<1>1. x \in Forms /\ y \in Forms /\ z \in Forms /\ before \in Seq(Forms) /\ back \in Seq(Forms)
  BY ProperPlain DEF Proper, Plain, Forms
<1>2. first \in Seq(Forms) /\ Len(first) = n + 3 /\ n \in Nat
  <2>1. <<c, x, y>> \in Seq(Forms) /\ Len(<<c, x, y>>) = 3
    BY <1>1, Tuples
  <2> QED
    BY <1>1, <2>1
<1>3. \A k \in 1 .. n : first[k] = before[k]
  OBVIOUS
<1>4. first[n + 2] = x /\ first[n + 3] = y
  OBVIOUS
<1>5. second \in Seq(Proper)
  OBVIOUS
<1>6. q \in Seq(Forms) /\ Len(q) = n + 3 + Len(second)
  <2>1. first \o back \in Seq(Forms) /\ Len(first \o back) = n + 3 + Len(back)
    <3> HIDE DEF first
    <3> QED
      BY <1>1, <1>2
  <2> HIDE DEF first
  <2>2. q \in Seq(Forms) /\ Len(q) = n + 3 + Len(back) + 1
    BY <1>1, <2>1
  <2> QED
    BY <2>2
<1> HIDE DEF first
<1>7. \A k \in 1 .. n + 3 : q[k] = first[k]
  BY <1>1, <1>2
<1>8. \A k \in n + 4 .. Len(q) : q[k] = second[k - (n + 3)] /\ k - (n + 3) \in DOMAIN second
  BY <1>1, <1>2, <1>6
<1> HIDE DEF q, second
<1>9. ASSUME NEW k \in DOMAIN q, k # n + 1
      PROVE  q[k] \in Proper
  <2>1. k \in 1 .. Len(q) /\ Len(q) \in Nat
    BY <1>6
  <2>2. CASE k \in 1 .. n
    <3>1. q[k] = before[k] /\ k \in DOMAIN before
      BY <1>2, <1>3, <1>7, <2>2
    <3> QED
      BY <3>1, SeqElement
  <2>3. CASE k = n + 2 \/ k = n + 3
    BY <1>2, <1>4, <1>7, <2>3
  <2>4. CASE k \in n + 4 .. Len(q)
    BY <1>5, <1>8, <2>4, SeqElement
  <2> QED
    BY <1>2, <1>9, <2>1, <2>2, <2>3, <2>4
<1> QED
  BY <1>2, <1>3, <1>6, <1>7, <1>9 DEF q, first

(* The stack arguments and the padding below an aligned rsp.               *)
LEMMA PaddingFits ==
    ASSUME NEW n \in Nat
    PROVE  ((IF n % 2 = 1 THEN 8 ELSE 0) + 8 * n) % 16 = 0
<1>1. n % 2 \in {0, 1} /\ n = 2 * (n \div 2) + (n % 2) /\ n \div 2 \in Nat
  OBVIOUS
<1>2. PICK h \in Nat : n = 2 * h + (n % 2)
  BY <1>1
<1>3. CASE n % 2 = 0
  <2>1. 8 * n = 16 * h
    BY <1>2, <1>3
  <2>2. (16 * h) % 16 = 0
    OBVIOUS
  <2> QED
    BY <1>3, <2>1, <2>2
<1>4. CASE n % 2 = 1
  <2>1. 8 + 8 * n = 16 * (h + 1)
    BY <1>2, <1>4
  <2>2. (16 * (h + 1)) % 16 = 0
    OBVIOUS
  <2> QED
    BY <1>4, <2>1, <2>2
<1> QED
  BY <1>1, <1>3, <1>4

LEMMA Concatenation ==
    ASSUME NEW E, NEW s \in Seq(E), NEW t \in Seq(E)
    PROVE  /\ s \o t \in Seq(E) /\ Len(s \o t) = Len(s) + Len(t)
           /\ Len(s) \in Nat /\ Len(t) \in Nat
           /\ \A i \in 1 .. Len(s) : (s \o t)[i] = s[i]
           /\ \A i \in 1 .. Len(t) : (s \o t)[Len(s) + i] = t[i]
OBVIOUS

LEMMA ThreeParts ==
    ASSUME NEW E, NEW r \in Seq(E), NEW s \in Seq(E), NEW t \in Seq(E), NEW q, q = r \o s \o t
    PROVE  /\ q \in Seq(E)
           /\ Len(q) = Len(r) + Len(s) + Len(t)
           /\ \A i \in 1 .. Len(s) : q[Len(r) + i] = s[i]
           /\ \A i \in 1 .. Len(t) : q[Len(r) + Len(s) + i] = t[i]
<1>1. \A u \in Seq(E), v \in Seq(E) :
          /\ u \o v \in Seq(E) /\ Len(u \o v) = Len(u) + Len(v)
          /\ Len(u) \in Nat /\ Len(v) \in Nat
          /\ \A i \in 1 .. Len(u) : (u \o v)[i] = u[i]
          /\ \A i \in 1 .. Len(v) : (u \o v)[Len(u) + i] = v[i]
  BY Concatenation
<1>2. PICK two \in Seq(E) : two = r \o s
  BY <1>1
<1>3. /\ Len(two) = Len(r) + Len(s) /\ Len(r) \in Nat /\ Len(s) \in Nat
      /\ \A i \in 1 .. Len(s) : two[Len(r) + i] = s[i]
  BY <1>1, <1>2
<1>4. q = two \o t
  BY <1>2
<1>5. /\ q \in Seq(E) /\ Len(q) = Len(two) + Len(t) /\ Len(t) \in Nat
      /\ \A i \in 1 .. Len(two) : q[i] = two[i]
      /\ \A i \in 1 .. Len(t) : q[Len(two) + i] = t[i]
  BY <1>1, <1>4
<1>6. \A i \in 1 .. Len(s) : Len(r) + i \in 1 .. Len(two)
  BY <1>3
<1> QED
  BY <1>3, <1>5, <1>6

CallChunk ==
    LET late  == tr.saved = << >>
        saved == IF late THEN ToSave ELSE tr.saved
        args  == tr.stack_args
        pad   == IF NeedPad(args) THEN 8 ELSE 0
    IN  (IF late THEN SaveText ELSE << >>)
        \o <<T("movq", Reg("rsp"), f_regs_loc["rsp"]), T("alignsp", None, None),
             T("subsp", Imm(pad), None)>>
        \o [k \in DOMAIN args |-> T("push", Kept(args[Len(args) + 1 - k]), None)]
        \o <<T("call", Imm(tr.param_index), None),
             T("subsp", Imm(-(8 * Len(args) + pad)), None),
             T("movq", f_regs_loc["rsp"], Reg("rsp"))>>
        \o [k \in DOMAIN saved |-> MovT(f_regs_loc[saved[k]], Reg(saved[k]))]
        \o <<MovT(Acc, Opd(Current.dst))>>

LEMMA CallForms ==
    ASSUME FrameInv, phase = "translate", tr \in Operations, Opd(Current.dst) \in Locs
    PROVE  CallChunk \in Seq(Forms) /\ Padded(CallChunk)
<1> DEFINE late   == tr.saved = << >>
           saved  == IF late THEN ToSave ELSE tr.saved
           args   == tr.stack_args
           pad    == IF NeedPad(args) THEN 8 ELSE 0
           pre    == IF late THEN SaveText ELSE << >>
           rsp    == T("movq", Reg("rsp"), f_regs_loc["rsp"])
           align  == T("alignsp", None, None)
           below  == T("subsp", Imm(pad), None)
           head   == <<rsp, align, below>>
           pushes == [k \in DOMAIN args |-> T("push", Kept(args[Len(args) + 1 - k]), None)]
           c      == T("call", Imm(tr.param_index), None)
           above  == T("subsp", Imm(-(8 * Len(args) + pad)), None)
           again  == T("movq", f_regs_loc["rsp"], Reg("rsp"))
           back   == [k \in DOMAIN saved |-> MovT(f_regs_loc[saved[k]], Reg(saved[k]))]
           result == MovT(Acc, Opd(Current.dst))
           before == pre \o head \o pushes
           n      == Len(before)
<1>1. /\ InputInv /\ tr.param_index \in Nat /\ args \in Seq(Opds)
      /\ tr.saved \in Seq(ToSet(CallerSaved)) /\ ToSave \in Seq(ToSet(CallerSaved))
  BY SavedSequences DEF FrameInv, Operations
<1>2. args \in Seq(Opds) /\ Len(args) \in Nat /\ DOMAIN args = 1 .. Len(args) /\ pad \in Int
  BY <1>1
<1>3. pre \in Seq(Proper)
  <2>1. SaveText \in Seq(Proper)
    BY <1>1, SavesForms DEF SaveText
  <2> QED
    BY <2>1, Tuples
<1>4. /\ None \in Args /\ ~ InMemory(None) /\ ~ IsImm(None)
      /\ Reg("rsp") \in Args /\ ~ InMemory(Reg("rsp")) /\ ~ IsImm(Reg("rsp"))
      /\ f_regs_loc["rsp"] \in Args /\ ~ IsImm(f_regs_loc["rsp"])
      /\ Acc \in Args /\ ~ InMemory(Acc)
  BY KeptPlaces, OperandForms
<1>5. /\ rsp \in Proper /\ align \in Proper /\ below \in Proper /\ above \in Proper
      /\ again \in Proper
  <2>1. pad \in Int /\ -(8 * Len(args) + pad) \in Int
    BY <1>2
  <2> HIDE DEF pad
  <2> QED
    BY <1>4, <2>1, LineForms DEF MachineOps
<1>6. result \in Proper
  <2>1. Opd(Current.dst) \in Args /\ ~ IsImm(Opd(Current.dst))
    BY OperandForms
  <2> QED
    BY <1>4, <2>1, LineForms
<1>7. pushes \in Seq(Proper) /\ Len(pushes) = Len(args)
      /\ \A k \in 1 .. Len(args) : pushes[k].op = "push"
  <2>1. ASSUME NEW k \in 1 .. Len(args)
        PROVE  T("push", Kept(args[Len(args) + 1 - k]), None) \in Proper
    <3> DEFINE o == args[Len(args) + 1 - k]
    <3>1. o \in Opds
      BY <1>2
    <3> HIDE DEF o
    <3>2. Kept(o) \in Args
      BY <3>1, KeptForms, OperandForms
    <3>3. T("push", Kept(o), None) \in Proper
      BY <1>4, <3>2, LineForms DEF MachineOps
    <3> QED
      BY <3>3 DEF o
  <2>2. pushes \in [1 .. Len(args) -> Proper] /\ DOMAIN pushes = 1 .. Len(args)
    BY <1>2, <2>1
  <2>3. \A k \in 1 .. Len(args) : pushes[k].op = "push"
    BY <1>2 DEF T
  <2> HIDE DEF pushes, args
  <2>4. pushes \in Seq(Proper)
    BY <1>2, <2>2, Tuples
  <2> QED
    BY <1>2, <2>2, <2>3, <2>4
<1>8. back \in Seq(Proper)
  <2>1. saved \in Seq(ToSet(CallerSaved))
    BY <1>1
  <2> HIDE DEF saved
  <2> QED
    BY <2>1, SavesForms
<1>9. c \in Forms
  BY <1>1, <1>4, OperandForms DEF T, Forms, Lines, MachineOps, Encodable, Imm, InMemory
<1>10. head \in Seq(Proper) /\ Len(head) = 3
       /\ head[2].op = "alignsp" /\ head[3].op = "subsp" /\ head[3].s = Imm(pad)
  <2>1. align.op = "alignsp" /\ below.op = "subsp" /\ below.s = Imm(pad)
    BY DEF T
  <2> HIDE DEF rsp, align, below
  <2> QED
    BY <1>5, <2>1, Tuples
<1> HIDE DEF pre, head, pushes, back, c, above, again, result
<1> DEFINE a == Len(pre)
           b == Len(args)
<1>11. /\ before \in Seq(Proper) /\ n = a + 3 + b /\ a \in Nat /\ b \in Nat
       /\ \A i \in 1 .. 3 : before[a + i] = head[i]
       /\ \A i \in 1 .. b : before[a + 3 + i] = pushes[i]
  <2>1. /\ before \in Seq(Proper) /\ Len(before) = Len(pre) + Len(head) + Len(pushes)
        /\ \A i \in 1 .. Len(head) : before[Len(pre) + i] = head[i]
        /\ \A i \in 1 .. Len(pushes) : before[Len(pre) + Len(head) + i] = pushes[i]
    <3>1. before = pre \o head \o pushes
      OBVIOUS
    <3> HIDE DEF before
    <3>2. \A r, s, t \in Seq(Proper) : before = r \o s \o t =>
              /\ before \in Seq(Proper) /\ Len(before) = Len(r) + Len(s) + Len(t)
              /\ \A i \in 1 .. Len(s) : before[Len(r) + i] = s[i]
              /\ \A i \in 1 .. Len(t) : before[Len(r) + Len(s) + i] = t[i]
      BY ThreeParts
    <3> QED
      BY <1>3, <1>7, <1>10, <3>1, <3>2
  <2>2. Len(pre) \in Nat /\ Len(head) = 3 /\ Len(pushes) = Len(args)
    BY <1>3, <1>7, <1>10
  <2> HIDE DEF before, args
  <2> QED
    BY <1>2, <2>1, <2>2
<1> DEFINE q == (before \o <<c, above, again>>) \o back \o <<result>>
<1>12. CallChunk = q
  BY DEF CallChunk, pre, head, pushes, c, above, again, back, result
<1> HIDE DEF before
<1>13. /\ q \in Seq(Forms) /\ n \in Nat
       /\ \A k \in 1 .. n : q[k] = before[k]
       /\ \A k \in DOMAIN q : k # n + 1 => q[k] \in Proper
  BY <1>5, <1>6, <1>8, <1>9, <1>11, AroundCall
<1> HIDE DEF q, n, a, b
<1>14. Padded(q)
  <2> SUFFICES ASSUME NEW k \in DOMAIN q, q[k].op = "call"
               PROVE  \E j \in 1 .. k - 2 : \E p \in Int :
                         /\ q[j].op = "alignsp" /\ q[j + 1].op = "subsp" /\ q[j + 1].s = Imm(p)
                         /\ \A i \in j + 2 .. k - 1 : q[i].op = "push"
                         /\ (p + 8 * (k - j - 2)) % 16 = 0
    BY DEF Padded
  <2>1. k = n + 1
    BY <1>13 DEF Proper, Plain
  <2> DEFINE j == a + 2
  <2>2. /\ j \in 1 .. k - 2 /\ j \in 1 .. n /\ j + 1 \in 1 .. n /\ j + 1 = a + 3
        /\ k - j - 2 = b
    <3>1. a \in Nat /\ b \in Nat /\ n = a + 3 + b /\ k = n + 1
      BY <1>11, <2>1
    <3> QED
      BY <3>1
  <2>3. q[j].op = "alignsp" /\ q[j + 1].op = "subsp" /\ q[j + 1].s = Imm(pad)
    <3>1. before[a + 2] = head[2] /\ before[a + 3] = head[3]
      BY <1>11
    <3>2. q[a + 2] = before[a + 2] /\ q[a + 3] = before[a + 3]
      BY <1>13, <2>2
    <3>3. q[j] = head[2] /\ q[j + 1] = head[3]
      BY <2>2, <3>1, <3>2
    <3> QED
      BY <1>10, <3>3
  <2>4. ASSUME NEW i \in j + 2 .. k - 1 PROVE q[i].op = "push"
    <3> DEFINE l == i - (a + 3)
    <3>1. a \in Nat /\ b \in Nat /\ n = a + 3 + b /\ k = n + 1
      BY <1>11, <2>1
    <3>2. l \in 1 .. b /\ i \in 1 .. n /\ i = a + 3 + l
      BY <3>1
    <3> HIDE DEF l
    <3>3. q[i] = pushes[l]
      BY <1>11, <1>13, <3>2
    <3> QED
      BY <1>7, <3>2, <3>3 DEF b
  <2>5. (pad + 8 * (k - j - 2)) % 16 = 0
    <3>1. k - j - 2 = Len(args)
      BY <2>2 DEF b
    <3>2. pad = IF Len(args) % 2 = 1 THEN 8 ELSE 0
      BY DEF NeedPad
    <3> HIDE DEF pad, args, j
    <3>3. (pad + 8 * Len(args)) % 16 = 0
      BY <1>2, <3>2, PaddingFits
    <3> QED
      BY <3>1, <3>3
  <2> HIDE DEF j, pad
  <2> QED
    BY <1>2, <2>2, <2>3, <2>4, <2>5
<1> QED
  BY <1>12, <1>13, <1>14

LEMMA ArgForms ==
    ASSUME FrameInv, Handles({"arg"})
    PROVE  LET idx == Current.src[2]
               d   == Opd(Current.dst)
           IN  /\ (IF idx < 6
                   THEN IF IsReg(d) THEN <<MovT(f_regs_loc[FRegs[idx + 1]], d)>>
                                    ELSE <<MovT(Reg(FRegs[idx + 1]), d)>>
                   ELSE MoveText(Mem(16 + 8 * (idx - 6)), d)) \in Seq(Proper)
               /\ idx < 6 => FRegs[idx + 1] \in ToSet(FRegs)
<1> DEFINE idx == Current.src[2]
           d   == Opd(Current.dst)
<1>1. InputInv /\ phase = "translate" /\ Current \in Made(program[fn]) /\ Current.op = "arg"
  BY CurrentFacts DEF FrameInv
<1>2. Current \in Instruction
  BY <1>1 DEF Made, Compare, Branch
<1>3. idx \in Nat
  <2>1. Current.src \in Operand /\ IsImm(Current.src)
    BY <1>1, <1>2 DEF Instruction
  <2>2. \E n \in Immediates : Current.src = Imm(n)
    BY <2>1 DEF Operand, Result, IsImm, None, SlotOf
  <2> QED
    BY <2>2, NumbersAssumption DEF Imm
<1>4. d \in Locs
  <2>1. Current.dst = None \/ \E s \in Slots : Current.dst = SlotOf(s)
    BY <1>2 DEF Instruction, Result
  <2>2. ASSUME NEW s \in Slots, Current.dst = SlotOf(s) PROVE d = location[s]
    BY <2>2 DEF Opd, SlotOf
  <2>3. Current.dst = None => d = None
    BY DEF Opd, None
  <2> QED
    BY <1>1, <2>1, <2>2, <2>3, OperandForms DEF InputInv
<1>5. CASE idx < 6
  <2> DEFINE r == FRegs[idx + 1]
  <2>1. idx + 1 \in 1 .. 6
    BY <1>3, <1>5
  <2>2. r \in ToSet(CallerSaved) /\ r \in ToSet(FRegs)
    BY <1>1, <2>1, KeptPlaces DEF ToSet
  <2> HIDE DEF r
  <2>3. /\ Reg(r) \in Args /\ ~ InMemory(Reg(r)) /\ f_regs_loc[r] \in Args
        /\ d \in Args /\ ~ IsImm(d) /\ (IsReg(d) => ~ InMemory(d))
    BY <1>1, <1>4, <2>2, KeptPlaces, OperandForms
  <2>4. MovT(Reg(r), d) \in Proper /\ (IsReg(d) => MovT(f_regs_loc[r], d) \in Proper)
    BY <2>3, LineForms
  <2> QED
    BY <1>5, <2>2, <2>4, Tuples DEF r
<1>6. CASE ~ (idx < 6)
  <2>1. 16 + 8 * (idx - 6) \in Int
    BY <1>3
  <2>2. Mem(16 + 8 * (idx - 6)) \in Opds
    BY <2>1, OperandForms
  <2> QED
    BY <1>4, <1>6, <2>2, MoveForms
<1> QED
  BY <1>5, <1>6

-----------------------------------------------------------------------------
(***************************************************************************)
(* FormsEncodable.  What has been written stands for the instructions that *)
(* have been translated, one chunk for each of them.                       *)
(***************************************************************************)
Chunk == {c \in [ins : Seq(Lines), upto : Nat] : Padded(c.ins)}

Texts == [prologue : Seq(Plain), body : Seq(Chunk), slots : [Slots -> Locs]]

Exempt(i) == i.op = "store" /\ \E o \in {i.src, i.dst} : IsMem(Opd(o))

WellFormed(n, k) ==
    \/ Exempt(code[n][k].ins)
    \/ \A t \in ToSet(text[n].body[k].ins) : Encodable(t)

TextInv ==
    /\ FrameInv
    /\ tr \in Operations
    /\ text \in [1 .. Len(program) -> Texts]
    /\ \A s \in Slots : IsMem(location[s]) => place[s] = Spilled
    /\ \A n \in 1 .. Len(program) : \A k \in DOMAIN text[n].body :
           k \in DOMAIN code[n] /\ WellFormed(n, k)
    /\ phase \in {"begin", "translate"} =>
           \A n \in fn + 1 .. Len(program) : text[n].body = << >>
    /\ phase = "begin" => text[fn].body = << >>
    /\ phase = "translate" => pc \in Nat \ {0} /\ Len(text[fn].body) = pc - 1

LEMMA OperandPlaces ==
    ASSUME InputInv
    PROVE  /\ \A o \in Result : Opd(o) \in Locs
           /\ \A o \in Operand : Opd(o) \in Opds
           /\ \A o \in Tests : Opd(o) = o
<1>1. ASSUME NEW s \in Slots PROVE Opd(SlotOf(s)) \in Locs
  <2>1. Opd(SlotOf(s)) = location[s]
    BY DEF Opd, SlotOf
  <2> QED
    BY <2>1 DEF InputInv
<1>2. Opd(None) \in Locs
  <2>1. Opd(None) = None
    BY DEF Opd, None
  <2> QED
    BY <2>1, OperandForms
<1>3. \A o \in Result : Opd(o) \in Locs
  BY <1>1, <1>2 DEF Result
<1>4. ASSUME NEW n \in Immediates PROVE Opd(Imm(n)) \in Opds
  <2>1. Opd(Imm(n)) = Imm(n)
    BY DEF Opd, Imm
  <2> QED
    BY <2>1, OperandForms, NumbersAssumption
<1>5. \A o \in Tests : Opd(o) = o
  BY DEF Opd, Tests
<1> QED
  BY <1>3, <1>4, <1>5, OperandForms DEF Operand

LEMMA CurrentOperands ==
    ASSUME InputInv, NEW ops, Handles(ops)
    PROVE  /\ Current.op \notin {"cmp", "jn"} =>
                  /\ Opd(Current.src) \in Opds /\ Opd(Current.src2) \in Opds
                  /\ Opd(Current.dst) \in Locs
           /\ Current.op = "cmp" => Opd(Current.src) \in Opds /\ Opd(Current.dst) \in Opds
           /\ Current.op = "jn" => Current.src2 \in Tests
<1>1. Current \in Made(program[fn])
  BY CurrentFacts
<1>2. ASSUME Current.op \notin {"cmp", "jn"}
      PROVE  Current.src \in Operand /\ Current.src2 \in Operand /\ Current.dst \in Result
  BY <1>1, <1>2 DEF Made, Compare, Branch, Instruction
<1>3. ASSUME Current.op = "cmp"
      PROVE  Current.src \in Operand /\ Current.dst \in Operand
  BY <1>1, <1>3 DEF Made, Compare, Branch, Instruction, Ops
<1>4. ASSUME Current.op = "jn"
      PROVE  Current.src2 \in Tests
  BY <1>1, <1>4 DEF Made, Compare, Branch, Instruction, Ops, Tests
<1> QED
  BY <1>2, <1>3, <1>4, OperandPlaces

LEMMA PutText ==
    ASSUME TextInv, FrameInv', NEW ops, Handles(ops), NEW q \in Seq(Lines), Padded(q),
           Exempt(Current) \/ q \in Seq(Forms), Put(q), tr' \in Operations
    PROVE  TextInv'
<1> DEFINE c == [ins |-> q, upto |-> code[fn][pc].upto]
<1>1. /\ UNCHANGED <<width, program, place, code, phase, fn, location>>
      /\ pc' = pc + 1 /\ phase = "translate"
      /\ text' = [text EXCEPT ![fn].body = Append(@, c)]
  BY DEF Put, Handles, inputs
<1>2. /\ InputInv /\ pc \in Nat \ {0} /\ Len(text[fn].body) = pc - 1
      /\ pc \in DOMAIN code[fn] /\ fn \in 1 .. Len(program) /\ Len(program) \in Nat
  BY <1>1, CurrentFacts, InputFacts DEF TextInv, FrameInv, InputInv
<1>3. c \in Chunk
  <2>1. code[fn] \in Seq([ins : Made(program[fn]), upto : Nat])
    BY <1>2, InputFacts
  <2>2. code[fn][pc] \in [ins : Made(program[fn]), upto : Nat]
    BY <1>2, <2>1, SeqElement
  <2> QED
    BY <2>2 DEF Chunk
<1> HIDE DEF c
<1>4. text \in [1 .. Len(program) -> Texts] /\ text[fn] \in Texts
  BY <1>2 DEF TextInv
<1>5. /\ \A n \in 1 .. Len(program) : n # fn => text'[n] = text[n]
      /\ text'[fn] = [text[fn] EXCEPT !.body = Append(@, c)]
      /\ DOMAIN text' = 1 .. Len(program) /\ text' = [n \in 1 .. Len(program) |-> text'[n]]
  BY <1>1, <1>2, <1>4
<1>6. /\ text'[fn].body = Append(text[fn].body, c) /\ text'[fn] \in Texts
  <2>1. text[fn].body \in Seq(Chunk)
    BY <1>4 DEF Texts
  <2>2. Append(text[fn].body, c) \in Seq(Chunk)
    BY <1>3, <2>1
  <2> QED
    BY <1>4, <1>5, <2>2 DEF Texts
<1>7. text' \in [1 .. Len(program) -> Texts]
  BY <1>4, <1>5, <1>6
<1>8. /\ Len(text'[fn].body) = pc /\ text'[fn].body[pc] = c
      /\ \A k \in 1 .. pc - 1 : text'[fn].body[k] = text[fn].body[k]
      /\ DOMAIN text[fn].body = 1 .. pc - 1 /\ DOMAIN text'[fn].body = 1 .. pc
  <2>1. text[fn].body \in Seq(Chunk)
    BY <1>4 DEF Texts
  <2> QED
    BY <1>2, <1>3, <1>6, <2>1
<1>9. ASSUME NEW n \in 1 .. Len(program), NEW k \in DOMAIN text'[n].body
      PROVE  k \in DOMAIN code[n] /\ WellFormed(n, k)'
  <2>1. CASE n # fn \/ k # pc
    <3>1. k \in DOMAIN text[n].body /\ text'[n].body[k] = text[n].body[k]
      <4>1. CASE n # fn
        BY <1>5, <4>1
      <4>2. CASE n = fn
        <5>1. k \in 1 .. pc - 1
          BY <1>2, <1>8, <2>1, <4>2
        <5> QED
          BY <1>8, <4>2, <5>1
      <4> QED
        BY <4>1, <4>2
    <3>2. k \in DOMAIN code[n] /\ WellFormed(n, k)
      BY <3>1 DEF TextInv
    <3> QED
      BY <1>1, <3>1, <3>2 DEF WellFormed, Exempt, Opd
  <2>2. CASE n = fn /\ k = pc
    <3>1. text'[n].body[k].ins = q
      BY <1>8, <2>2 DEF c
    <3>2. q \in Seq(Forms) => \A t \in ToSet(q) : Encodable(t)
      <4>1. ASSUME q \in Seq(Forms), NEW t \in ToSet(q) PROVE t \in Forms
        BY <4>1, SeqElement DEF ToSet
      <4> QED
        BY <4>1 DEF Forms
    <3>3. Exempt(Current) => Exempt(code[n][k].ins)'
      BY <1>1, <2>2 DEF Exempt, Opd, Current
    <3> QED
      BY <1>1, <1>2, <2>2, <3>1, <3>2, <3>3 DEF WellFormed
  <2> QED
    BY <2>1, <2>2
<1>10. \A n \in fn + 1 .. Len(program) : text'[n].body = << >>
  <2>1. \A n \in fn + 1 .. Len(program) : n \in 1 .. Len(program) /\ n # fn
    BY <1>2
  <2> QED
    BY <1>1, <1>5, <2>1 DEF TextInv
<1> QED
  BY <1>1, <1>2, <1>7, <1>8, <1>9, <1>10 DEF TextInv

(* Every emitter but that of calls and stores writes proper instructions. *)
LEMMA TextEmitters ==
    ASSUME TextInv, FrameInv',
           EmitMovOp \/ EmitBinaryOp \/ EmitMulDiv \/ EmitCmpOp \/ EmitLogicOp \/ EmitRtn
    PROVE  TextInv'
<1>1. InputInv /\ FrameInv /\ tr \in Operations
  BY DEF TextInv, FrameInv
<1>2. tr' = tr
  BY DEF EmitMovOp, EmitBinaryOp, EmitMulDiv, EmitCmpOp, EmitLogicOp, EmitRtn
<1> DEFINE s == Opd(Current.src)
           d == Opd(Current.dst)
<1>3. ASSUME NEW ops, Handles(ops), NEW q \in Seq(Proper), Put(q)
      PROVE  TextInv'
  <2>1. q \in Seq(Plain) /\ q \in Seq(Forms)
    BY ProperPlain
  <2>2. q \in Seq(Lines) /\ Padded(q)
    BY <2>1, PlainPadded
  <2> QED
    BY <1>1, <1>2, <1>3, <2>1, <2>2, PutText
<1>4. CASE EmitMovOp
  <2> DEFINE ops == {"mov", "load", "store"}
  <2>1. Handles(ops) /\ Current.op \in ops
    BY <1>4 DEF EmitMovOp, Handles
  <2>2. s \in Opds /\ d \in Locs /\ d \in Opds
    BY <1>1, <2>1, CurrentOperands, OperandForms
  <2>3. CASE Current.op = "mov"
    <3>1. Put(MoveText(s, d))
      BY <1>4, <2>3 DEF EmitMovOp
    <3> QED
      BY <1>3, <2>1, <2>2, <3>1, MoveForms
  <2>4. CASE Current.op = "load"
    <3>1. Put(LoadText(s, d))
      BY <1>4, <2>4 DEF EmitMovOp
    <3> QED
      BY <1>3, <2>1, <2>2, <3>1, MoveForms
  <2>5. CASE Current.op = "store"
    <3>1. Put(StoreText(s, d))
      BY <1>4, <2>5 DEF EmitMovOp
    <3>2. StoreText(s, d) \in Seq(Plain)
      BY <2>2, StoreForms
    <3>3. StoreText(s, d) \in Seq(Lines) /\ Padded(StoreText(s, d))
      BY <3>2, PlainPadded
    <3>4. Exempt(Current) \/ StoreText(s, d) \in Seq(Forms)
      <4>1. CASE IsMem(s) \/ IsMem(d)
        BY <2>5, <4>1 DEF Exempt
      <4>2. CASE ~ IsMem(s) /\ ~ IsMem(d)
        BY <2>2, <4>2, StoreForms, ProperPlain
      <4> QED
        BY <4>1, <4>2
    <3> QED
      BY <1>1, <1>2, <2>1, <3>1, <3>3, <3>4, PutText
  <2> QED
    BY <2>1, <2>3, <2>4, <2>5
<1>5. CASE EmitBinaryOp
  <2> DEFINE v == ViaAcc(s, d)
             q == IF Current.op = "shl" THEN ShiftText(s, d)
                  ELSE Append(v.pre, T("add", v.s, d))
  <2>1. Handles({"add", "shl"}) /\ Put(q) /\ Current.op \in {"add", "shl"}
    BY <1>5 DEF EmitBinaryOp, Handles
  <2>2. s \in Opds /\ d \in Locs
    BY <1>1, <2>1, CurrentOperands
  <2>3. q \in Seq(Proper)
    BY <2>2, BinaryForms
  <2> HIDE DEF q
  <2> QED
    BY <1>3, <2>1, <2>3
<1>6. CASE EmitMulDiv
  <2> DEFINE new == stack_offset - width
             p == IF ~ IsImm(s) THEN s
                  ELSE IF HasPlace(s[2]) THEN PlaceOf(s[2]) ELSE Mem(new)
             q == (IF IsImm(s) THEN <<MovT(s, p)>> ELSE << >>) \o MulDivText(Current.op, p, d)
  <2>1. Handles({"mul", "div", "mod"}) /\ Put(q) /\ Current.op \in {"mul", "div", "mod"}
    BY <1>6 DEF EmitMulDiv, Handles
  <2>2. s \in Opds /\ d \in Locs
    BY <1>1, <2>1, CurrentOperands
  <2>3. p \in Locs /\ (IsMem(p) \/ p = s)
    <3>1. CASE ~ IsImm(s)
      BY <2>2, <3>1, OperandForms
    <3>2. CASE IsImm(s) /\ ~ HasPlace(s[2])
      <4>1. new \in Int
        BY <2>1 DEF Handles, TextInv, FrameInv, OwnApart, InputInv
      <4>2. p = Mem(new)
        BY <3>2
      <4> QED
        BY <4>1, <4>2, OperandForms
    <3>3. CASE IsImm(s) /\ HasPlace(s[2])
      <4> DEFINE l == CHOOSE i \in imm_loc : i[1] = s[2]
      <4>1. l \in imm_loc
        BY <3>3 DEF HasPlace
      <4>2. p = Mem(l[2])
        BY <3>3 DEF PlaceOf
      <4>3. l[2] \in Int
        BY <1>1, <4>1 DEF FrameInv
      <4> HIDE DEF l, p
      <4> QED
        BY <4>2, <4>3, OperandForms
    <3> QED
      BY <3>1, <3>2, <3>3
  <2> HIDE DEF p
  <2>4. q \in Seq(Proper)
    BY <2>2, <2>3, MulDivForms
  <2> HIDE DEF q
  <2> QED
    BY <1>3, <2>1, <2>4
<1>7. CASE EmitCmpOp
  <2> DEFINE ops == CmpOps \cup {"cmp", "jn", "brz", "brnz"}
  <2>1. Handles(ops) /\ Current.op \in ops
    BY <1>7 DEF EmitCmpOp, Handles
  <2>2. CASE Current.op \in CmpOps
    <3>1. Put(CompareText(Current.op, s, Opd(Current.src2), d))
      BY <1>7, <2>2 DEF EmitCmpOp, CmpOps
    <3>2. Current.op \notin {"cmp", "jn"}
      BY <2>2 DEF CmpOps
    <3>3. CompareText(Current.op, s, Opd(Current.src2), d) \in Seq(Proper)
      BY <1>1, <2>1, <2>2, <3>2, CurrentOperands, CompareForms
    <3> QED
      BY <1>3, <2>1, <3>1, <3>3
  <2>3. CASE Current.op = "cmp"
    <3>1. Put(CmpText(s, d))
      BY <1>7, <2>3 DEF EmitCmpOp, CmpOps
    <3>2. CmpText(s, d) \in Seq(Proper)
      BY <1>1, <2>1, <2>3, CurrentOperands, CompareForms
    <3> QED
      BY <1>3, <2>1, <3>1, <3>2
  <2>4. CASE Current.op = "jn"
    <3>1. Put(<<T("jn", Current.src2, None)>>)
      BY <1>7, <2>4 DEF EmitCmpOp, CmpOps
    <3>2. Current.src2 \in Args /\ ~ InMemory(Current.src2)
      BY <1>1, <2>1, <2>4, CurrentOperands, OperandForms
    <3>3. <<T("jn", Current.src2, None)>> \in Seq(Proper)
      BY <3>2, CompareForms, OperandForms
    <3> QED
      BY <1>3, <2>1, <3>1, <3>3
  <2>5. CASE Current.op = "brz"
    <3>1. Put(BrzText(s))
      BY <1>7, <2>5 DEF EmitCmpOp, CmpOps
    <3>2. BrzText(s) \in Seq(Proper)
      BY <1>1, <2>1, <2>5, CurrentOperands, CompareForms
    <3> QED
      BY <1>3, <2>1, <3>1, <3>2
  <2>6. CASE Current.op = "brnz"
    <3>1. Put(BrnzText(s))
      BY <1>7, <2>6 DEF EmitCmpOp, CmpOps
    <3>2. BrnzText(s) \in Seq(Proper)
      BY <1>1, <2>1, <2>6, CurrentOperands, CompareForms
    <3> QED
      BY <1>3, <2>1, <3>1, <3>2
  <2> QED
    BY <2>1, <2>2, <2>3, <2>4, <2>5, <2>6
<1>8. CASE EmitLogicOp
  <2> DEFINE q == IF Current.op = "land" THEN LogicText(s, d) ELSE UnaryText(Current.op, d)
  <2>1. Handles({"land", "neg", "lnot"}) /\ Put(q) /\ Current.op \in {"land", "neg", "lnot"}
    BY <1>8 DEF EmitLogicOp, Handles
  <2>2. s \in Opds /\ d \in Locs
    BY <1>1, <2>1, CurrentOperands
  <2>3. q \in Seq(Proper)
    BY <2>2, BinaryForms, UnaryForms
  <2> HIDE DEF q
  <2> QED
    BY <1>3, <2>1, <2>3
<1>9. CASE EmitRtn
  <2> DEFINE q == RtnText(s, NeedSave(program[fn]))
  <2>1. Handles({"rtn"}) /\ Put(q) /\ Current.op = "rtn"
    BY <1>9 DEF EmitRtn, Handles
  <2>2. s \in Opds
    BY <1>1, <2>1, CurrentOperands
  <2>3. q \in Seq(Proper)
    BY <1>1, <2>2, SavedSequences, RtnForms
  <2> HIDE DEF q
  <2> QED
    BY <1>3, <2>1, <2>3
<1> QED
  BY <1>4, <1>5, <1>6, <1>7, <1>8, <1>9

LEMMA OperationsKept ==
    ASSUME NEW t \in Operations, NEW n \in Nat, NEW a \in Seq(Opds),
           NEW r \in Seq(ToSet(CallerSaved))
    PROVE  /\ [t EXCEPT !.param_index = n, !.saved = r, !.stack_args = a] \in Operations
           /\ [t EXCEPT !.param_index = n, !.stack_args = a, !.saved = r] \in Operations
<1> DEFINE A == Seq(Opds)
           R == Seq(ToSet(CallerSaved))
           Q == Seq(ToSet(FRegs))
<1>1. t \in [saved : R, stack_args : A, param_index : Nat, req_args : Q] /\ a \in A /\ r \in R
  BY DEF Operations
<1>2. Operations = [saved : R, stack_args : A, param_index : Nat, req_args : Q]
  BY DEF Operations
<1> HIDE DEF A, R, Q
<1> QED
  BY <1>1, <1>2

LEMMA TextCalls ==
    ASSUME TextInv, FrameInv', EmitParam \/ EmitCall \/ EmitArg
    PROVE  TextInv'
<1>1. InputInv /\ FrameInv /\ tr \in Operations
  BY DEF TextInv, FrameInv
<1> DEFINE s == Opd(Current.src)
           d == Opd(Current.dst)
<1>2. ASSUME NEW ops, Handles(ops), NEW q \in Seq(Proper), Put(q), tr' \in Operations
      PROVE  TextInv'
  <2>1. q \in Seq(Plain) /\ q \in Seq(Forms)
    BY ProperPlain
  <2>2. q \in Seq(Lines) /\ Padded(q)
    BY <2>1, PlainPadded
  <2> QED
    BY <1>1, <1>2, <2>1, <2>2, PutText
<1>3. ToSave \in Seq(ToSet(CallerSaved))
  BY <1>1, SavedSequences
<1>4. CASE EmitParam
  <2> DEFINE first == tr.param_index = 0
             in_reg == tr.param_index < 6
             pre == IF first THEN SaveText ELSE << >>
             rest == IF in_reg THEN ParamText(s) ELSE << >>
  <2>1. /\ Handles({"param"}) /\ Put(pre \o rest) /\ Current.op = "param"
        /\ phase = "translate"
    BY <1>4 DEF EmitParam, Handles
  <2>2. s \in Opds
    BY <1>1, <2>1, CurrentOperands
  <2>3. pre \in Seq(Proper)
    BY <1>1, <1>3, <2>1, SavesForms, Tuples DEF SaveText
  <2>4. rest \in Seq(Proper)
    BY <1>1, <2>1, <2>2, ParamForms, Tuples
  <2> HIDE DEF pre, rest
  <2>5. pre \o rest \in Seq(Proper)
    BY <2>3, <2>4, Tuples
  <2>6. tr' \in Operations
    <3>1. tr' = [tr EXCEPT !.param_index = @ + 1,
                           !.saved = IF first THEN @ \o ToSave ELSE @,
                           !.stack_args = IF in_reg THEN @ ELSE Append(@, s)]
      BY <1>4 DEF EmitParam
    <3>2. tr.saved \o ToSave \in Seq(ToSet(CallerSaved))
      BY <1>1, <1>3, Tuples DEF Operations
    <3>3. Append(tr.stack_args, s) \in Seq(Opds)
      BY <1>1, <2>2, Tuples DEF Operations
    <3>4. tr.param_index + 1 \in Nat /\ tr.saved \in Seq(ToSet(CallerSaved))
          /\ tr.stack_args \in Seq(Opds)
      BY <1>1 DEF Operations
    <3> DEFINE saved == IF first THEN tr.saved \o ToSave ELSE tr.saved
               args  == IF in_reg THEN tr.stack_args ELSE Append(tr.stack_args, s)
    <3>5. saved \in Seq(ToSet(CallerSaved)) /\ args \in Seq(Opds)
      BY <3>2, <3>3, <3>4
    <3>6. tr' = [tr EXCEPT !.param_index = tr.param_index + 1, !.saved = saved,
                           !.stack_args = args]
      BY <3>1
    <3> HIDE DEF saved, args
    <3> QED
      BY <1>1, <3>4, <3>5, <3>6, OperationsKept
  <2> QED
    BY <1>2, <2>1, <2>5, <2>6
<1>5. CASE EmitCall
  <2>1. /\ Handles({"call"}) /\ Put(CallChunk) /\ tr' = Sent(tr) /\ Current.op = "call"
        /\ phase = "translate"
    BY <1>5 DEF EmitCall, CallChunk, Handles
  <2>2. d \in Locs
    BY <1>1, <2>1, CurrentOperands
  <2>3. CallChunk \in Seq(Forms) /\ Padded(CallChunk)
    BY <1>1, <2>1, <2>2, CallForms
  <2>4. CallChunk \in Seq(Lines)
    BY <2>3 DEF Forms
  <2>5. tr' \in Operations
    <3>1. << >> \in Seq(ToSet(CallerSaved)) /\ << >> \in Seq(Opds)
      BY Tuples
    <3> QED
      BY <1>1, <2>1, <3>1, OperationsKept DEF Sent
  <2> QED
    BY <1>1, <2>1, <2>3, <2>4, <2>5, PutText
<1>6. CASE EmitArg
  <2> DEFINE idx == Current.src[2]
             q == IF idx < 6
                  THEN IF IsReg(d) THEN <<MovT(f_regs_loc[FRegs[idx + 1]], d)>>
                                   ELSE <<MovT(Reg(FRegs[idx + 1]), d)>>
                  ELSE MoveText(Mem(16 + 8 * (idx - 6)), d)
  <2>1. /\ Handles({"arg"}) /\ Put(q)
        /\ tr' = IF idx < 6 /\ IsReg(d)
                 THEN [tr EXCEPT !.req_args = Append(@, FRegs[idx + 1])] ELSE tr
    BY <1>6 DEF EmitArg
  <2>2. q \in Seq(Proper) /\ (idx < 6 => FRegs[idx + 1] \in ToSet(FRegs))
    BY <1>1, <2>1, ArgForms
  <2> HIDE DEF q
  <2>3. tr' \in Operations
    <3>1. idx < 6 => Append(tr.req_args, FRegs[idx + 1]) \in Seq(ToSet(FRegs))
      BY <1>1, <2>2, Tuples DEF Operations
    <3> QED
      BY <1>1, <2>1, <3>1 DEF Operations
  <2> QED
    BY <1>2, <2>1, <2>2, <2>3
<1> QED
  BY <1>4, <1>5, <1>6

LEMMA TextBegin ==
    ASSUME TextInv, FrameInv', BeginFunction
    PROVE  TextInv'
<1>1. /\ UNCHANGED <<width, program, place, code, fn, text, tr>>
      /\ phase = "begin" /\ phase' = "translate" /\ pc' = 1
  BY DEF BeginFunction, inputs
<1>2. /\ place \in Places /\ InputInv /\ fn \in 1 .. Len(program) /\ Len(program) \in Nat
  BY InputFacts DEF TextInv, FrameInv, InputInv
<1>3. ASSUME NEW s \in Slots
      PROVE  /\ IsMem(location'[s]) => place[s] = Spilled
             /\ IsMem(location[s]) => IsMem(location'[s])
  <2> DEFINE spilled == SpilledSlots(program[fn])
             c == Cardinality({t \in spilled : t <= s})
  <2>1. location'[s] = IF s \in spilled THEN Mem(Below(c))
                       ELSE IF IsReg(place[s]) THEN place[s] ELSE location[s]
    BY DEF BeginFunction
  <2>2. s \in spilled => place[s] = Spilled
    BY DEF SpilledSlots
  <2>3. ~ (IsReg(place[s]) /\ IsMem(place[s])) /\ ~ IsReg(Spilled)
    BY DEF IsReg, IsMem, Spilled
  <2>4. IsMem(location[s]) => place[s] = Spilled
    BY DEF TextInv
  <2>5. IsMem(Mem(Below(c)))
    BY DEF IsMem, Mem
  <2> QED
    BY <2>1, <2>2, <2>3, <2>4, <2>5
<1>4. ASSUME NEW o \in Operand, IsMem(Opd(o)) PROVE IsMem(Opd(o)')
  <2>1. CASE \E s \in Slots : o = SlotOf(s)
    <3>1. PICK s \in Slots : o = SlotOf(s)
      BY <2>1
    <3>2. Opd(o) = location[s] /\ Opd(o)' = location'[s]
      BY <3>1 DEF Opd, SlotOf
    <3> QED
      BY <1>3, <1>4, <3>2
  <2>2. CASE o = None \/ \E n \in Immediates : o = Imm(n)
    <3>1. Opd(o) = o
      BY <2>2 DEF Opd, None, Imm
    <3> QED
      BY <1>4, <2>2, <3>1 DEF IsMem, None, Imm
  <2> QED
    BY <2>1, <2>2 DEF Operand, Result
<1>5. ASSUME NEW n \in 1 .. Len(program), NEW k \in DOMAIN text[n].body
      PROVE  k \in DOMAIN code[n] /\ WellFormed(n, k)'
  <2>1. k \in DOMAIN code[n] /\ WellFormed(n, k)
    BY DEF TextInv
  <2> DEFINE i == code[n][k].ins
  <2>2. CASE Exempt(i)
    <3>1. i.op = "store"
      BY <2>2 DEF Exempt
    <3>2. PICK o \in {i.src, i.dst} : IsMem(Opd(o))
      BY <2>2 DEF Exempt
    <3>3. IsMem(Opd(o)')
      <4>1. i \in Made(program[n])
        <5>1. code[n] \in Seq([ins : Made(program[n]), upto : Nat])
          BY <1>2, InputFacts
        <5>2. code[n][k] \in [ins : Made(program[n]), upto : Nat]
          BY <2>1, <5>1, SeqElement
        <5> QED
          BY <5>2
      <4>2. i \in Instruction
        BY <3>1, <4>1 DEF Made, Compare, Branch
      <4>3. o \in Operand
        BY <4>2 DEF Instruction, Operand
      <4> QED
        BY <1>4, <3>2, <4>3
    <3>4. Exempt(i)'
      BY <1>1, <3>1, <3>2, <3>3 DEF Exempt, Opd
    <3> QED
      BY <1>1, <2>1, <3>4 DEF WellFormed
  <2>3. CASE \A t \in ToSet(text[n].body[k].ins) : Encodable(t)
    BY <1>1, <2>1, <2>3 DEF WellFormed
  <2> QED
    BY <2>1, <2>2, <2>3 DEF WellFormed
<1>6. text[fn].body = << >>
  BY <1>1 DEF TextInv
<1> QED
  BY <1>1, <1>2, <1>3, <1>5, <1>6 DEF TextInv

LEMMA PrologueForms ==
    ASSUME FrameInv, phase = "translate", tr \in Operations
    PROVE  <<T("enter", None, None), T("subsp", Imm(-stack_offset), None)>>
           \o [k \in DOMAIN tr.req_args |->
                  MovT(Reg(tr.req_args[k]), f_regs_loc[tr.req_args[k]])]
           \o [k \in DOMAIN NeedSave(program[fn]) |->
                  T("push", Reg(NeedSave(program[fn])[k]), None)] \in Seq(Plain)
<1> DEFINE need == NeedSave(program[fn])
           head == <<T("enter", None, None), T("subsp", Imm(-stack_offset), None)>>
           args == [k \in DOMAIN tr.req_args |->
                       MovT(Reg(tr.req_args[k]), f_regs_loc[tr.req_args[k]])]
           saves == [k \in DOMAIN need |-> T("push", Reg(need[k]), None)]
<1>1. InputInv /\ stack_offset \in Int
  BY DEF FrameInv, OwnApart
<1>2. None \in Args /\ ~ InMemory(None) /\ ~ IsImm(None)
  BY OperandForms
<1>3. head \in Seq(Proper)
  <2>1. T("enter", None, None) \in Proper /\ T("subsp", Imm(-stack_offset), None) \in Proper
    BY <1>1, <1>2, LineForms DEF MachineOps
  <2> QED
    BY <2>1, Tuples
<1>4. args \in Seq(Proper)
  <2>1. tr.req_args \in Seq(ToSet(CallerSaved))
    BY KeptPlaces DEF Operations
  <2> QED
    BY <2>1, SavesForms
<1>5. saves \in Seq(Proper)
  <2>1. need \in Seq(Regs)
    BY <1>1, SavedSequences
  <2> HIDE DEF need
  <2>2. ASSUME NEW r \in Regs PROVE T("push", Reg(r), None) \in Proper
    <3>1. Reg(r) \in Args
      BY OperandForms
    <3> QED
      BY <1>2, <3>1, LineForms DEF MachineOps
  <2>3. /\ DOMAIN need = 1 .. Len(need) /\ Len(need) \in Nat
        /\ \A k \in DOMAIN need : need[k] \in Regs
    BY <2>1, SeqElement
  <2>4. saves \in [1 .. Len(need) -> Proper]
    BY <2>2, <2>3
  <2> HIDE DEF saves
  <2> QED
    BY <2>3, <2>4, Tuples
<1> HIDE DEF head, args, saves
<1>6. head \o args \o saves \in Seq(Proper)
  BY <1>3, <1>4, <1>5, Tuples
<1>7. head \o args \o saves \in Seq(Plain)
  BY <1>6, ProperPlain
<1> QED
  BY <1>7 DEF head, args, saves, need

LEMMA TextEnd ==
    ASSUME TextInv, FrameInv', EndFunction
    PROVE  TextInv'
<1> DEFINE need == NeedSave(program[fn])
           start == <<T("enter", None, None), T("subsp", Imm(-stack_offset), None)>>
                    \o [k \in DOMAIN tr.req_args |->
                           MovT(Reg(tr.req_args[k]), f_regs_loc[tr.req_args[k]])]
                    \o [k \in DOMAIN need |-> T("push", Reg(need[k]), None)]
<1>1. /\ UNCHANGED <<width, program, place, code, location>>
      /\ phase = "translate"
      /\ text' = [text EXCEPT ![fn].slots = location, ![fn].prologue = start]
      /\ tr' = [NoCalls EXCEPT !.saved = tr.saved, !.stack_args = tr.stack_args]
      /\ \/ fn < Len(program) /\ fn' = fn + 1 /\ phase' = "begin"
         \/ fn' = fn /\ phase' = "emitted"
  BY DEF EndFunction, inputs
<1>2. /\ InputInv /\ FrameInv /\ fn \in 1 .. Len(program) /\ Len(program) \in Nat
      /\ tr \in Operations /\ location \in [Slots -> Locs]
  BY InputFacts DEF TextInv, FrameInv, InputInv
<1>3. start \in Seq(Plain)
  BY <1>1, <1>2, PrologueForms
<1> HIDE DEF start
<1>4. text \in [1 .. Len(program) -> Texts] /\ text[fn] \in Texts
  BY <1>2 DEF TextInv
<1>5. /\ \A n \in 1 .. Len(program) : n # fn => text'[n] = text[n]
      /\ text'[fn] = [text[fn] EXCEPT !.slots = location, !.prologue = start]
      /\ DOMAIN text' = 1 .. Len(program) /\ text' = [n \in 1 .. Len(program) |-> text'[n]]
  BY <1>1, <1>2, <1>4
<1>6. text'[fn] \in Texts /\ text'[fn].body = text[fn].body
  BY <1>2, <1>3, <1>4, <1>5 DEF Texts
<1>7. text' \in [1 .. Len(program) -> Texts]
  BY <1>4, <1>5, <1>6
<1>8. \A n \in 1 .. Len(program) : text'[n].body = text[n].body
  BY <1>5, <1>6
<1>9. tr' \in Operations
  <2>1. /\ tr.saved \in Seq(ToSet(CallerSaved)) /\ tr.stack_args \in Seq(Opds)
        /\ << >> \in Seq(ToSet(CallerSaved)) /\ << >> \in Seq(Opds) /\ << >> \in Seq(ToSet(FRegs))
    BY <1>2, Tuples DEF Operations
  <2>2. tr' = [saved |-> tr.saved, stack_args |-> tr.stack_args, param_index |-> 0,
               req_args |-> << >>]
    BY <1>1 DEF NoCalls
  <2> QED
    BY <2>1, <2>2 DEF Operations
<1>10. ASSUME NEW n \in 1 .. Len(program), NEW k \in DOMAIN text[n].body
       PROVE  k \in DOMAIN code[n] /\ WellFormed(n, k)'
  <2>1. k \in DOMAIN code[n] /\ WellFormed(n, k)
    BY DEF TextInv
  <2> QED
    BY <1>1, <1>8, <2>1 DEF WellFormed, Exempt, Opd
<1>11. ASSUME phase' = "begin"
       PROVE  /\ \A n \in fn' + 1 .. Len(program) : text'[n].body = << >>
              /\ text'[fn'].body = << >>
  <2>1. fn' = fn + 1 /\ fn + 1 \in 1 .. Len(program)
    BY <1>1, <1>2, <1>11
  <2>2. \A n \in fn + 1 .. Len(program) : text[n].body = << >> /\ n \in 1 .. Len(program)
    BY <1>1, <1>2 DEF TextInv
  <2>3. fn + 1 \in fn + 1 .. Len(program) /\ \A n \in fn' + 1 .. Len(program) :
            n \in fn + 1 .. Len(program)
    BY <1>2, <2>1
  <2> QED
    BY <1>8, <2>1, <2>2, <2>3
<1> QED
  BY <1>1, <1>2, <1>7, <1>8, <1>9, <1>10, <1>11 DEF TextInv

LEMMA TextInit == Init => TextInv
<1> SUFFICES ASSUME Init PROVE TextInv
  OBVIOUS
<1>1. InputInv
  BY InputInit
<1>2. FrameInv
  <2>1. imm_loc = {} /\ phase = "begin"
    BY DEF Init
  <2> QED
    BY <1>1, <2>1, FS_EmptySet DEF FrameInv, Own
<1>3. /\ fn = 1 /\ phase = "begin" /\ tr = NoCalls /\ Len(program) \in Nat
      /\ DOMAIN program = 1 .. Len(program) /\ 1 \in 1 .. Len(program)
      /\ location = [s \in Slots |-> None]
  BY <1>1, InputFacts DEF Init, InputInv
<1>4. text = [n \in 1 .. Len(program) |->
                 [prologue |-> << >>, body |-> << >>, slots |-> location]]
  BY <1>3 DEF Init
<1>5. tr \in Operations
  <2>1. /\ << >> \in Seq(ToSet(CallerSaved)) /\ << >> \in Seq(Opds) /\ << >> \in Seq(ToSet(FRegs))
    BY Tuples
  <2> QED
    BY <1>3, <2>1 DEF NoCalls, Operations
<1>6. text \in [1 .. Len(program) -> Texts]
  <2>1. << >> \in Seq(Plain) /\ << >> \in Seq(Chunk) /\ location \in [Slots -> Locs]
    BY <1>1, Tuples DEF InputInv
  <2>2. [prologue |-> << >>, body |-> << >>, slots |-> location] \in Texts
    BY <2>1 DEF Texts
  <2> QED
    BY <1>4, <2>2
<1>7. \A n \in 1 .. Len(program) : text[n].body = << >> /\ DOMAIN text[n].body = {}
  BY <1>4
<1>8. \A s \in Slots : ~ IsMem(location[s])
  BY <1>3 DEF IsMem, None
<1>9. \A n \in fn + 1 .. Len(program) : n \in 1 .. Len(program)
  BY <1>3
<1> QED
  BY <1>2, <1>3, <1>5, <1>6, <1>7, <1>8, <1>9 DEF TextInv

LEMMA TextKept ==
    ASSUME TextInv, FrameInv', UNCHANGED <<program, place, code, location, text, tr>>,
           UNCHANGED <<phase, fn, pc>> \/ phase' \in {"run", "returned"}
    PROVE  TextInv'
<1>1. \A n \in 1 .. Len(program) : \A k \in DOMAIN text[n].body :
          k \in DOMAIN code[n] /\ WellFormed(n, k)'
  BY DEF TextInv, WellFormed, Exempt, Opd
<1> QED
  BY <1>1 DEF TextInv

LEMMA TextNext == TextInv /\ [Next]_vars => TextInv'
<1> SUFFICES ASSUME TextInv, [Next]_vars PROVE TextInv'
  OBVIOUS
<1>1. FrameInv'
  BY FrameNext DEF TextInv
<1>2. CASE BeginFunction
  BY <1>1, <1>2, TextBegin
<1>3. CASE EndFunction
  BY <1>1, <1>3, TextEnd
<1>4. CASE EmitMovOp \/ EmitBinaryOp \/ EmitMulDiv \/ EmitCmpOp \/ EmitLogicOp \/ EmitRtn
  BY <1>1, <1>4, TextEmitters
<1>5. CASE EmitParam \/ EmitCall \/ EmitArg
  BY <1>1, <1>5, TextCalls
<1>6. CASE Enter \/ Run
  <2>1. /\ UNCHANGED <<program, place, code, location, text, tr>>
        /\ phase' \in {"run", "returned"}
    BY <1>6 DEF Enter, Run, inputs, emitter
  <2> QED
    BY <1>1, <2>1, TextKept
<1>7. CASE UNCHANGED vars
  <2>1. UNCHANGED <<program, place, code, location, text, tr, phase, fn, pc>>
    BY <1>7 DEF vars, inputs, emitter
  <2> QED
    BY <1>1, <2>1, TextKept
<1> QED
  BY <1>2, <1>3, <1>4, <1>5, <1>6, <1>7 DEF Next

(* For every program, every instruction that is written is of a form x86   *)
(* has: at most one operand in memory, and none into an immediate          *)
(* (check_move_src_2_reg, emit_mov_op, emit_cmp_op).  The text of a store  *)
(* with an operand in memory is the only one that is not.                  *)
THEOREM AllFormsEncodable == Spec => []FormsEncodable
<1>1. TextInv => FormsEncodable
  <2> SUFFICES ASSUME TextInv, phase = "emitted", NEW c \in Chunks
               PROVE  \/ ChunkIns(c).op = "store"
                         /\ \E o \in {ChunkIns(c).src, ChunkIns(c).dst} : IsMem(Opd(o))
                      \/ \A t \in ToSet(text[c[1]].body[c[2]].ins) : Encodable(t)
    BY DEF FormsEncodable
  <2>1. DOMAIN program = 1 .. Len(program)
    BY InputFacts DEF TextInv, FrameInv, InputInv
  <2>2. c[1] \in 1 .. Len(program) /\ c[2] \in DOMAIN text[c[1]].body
    BY <2>1 DEF Chunks
  <2>3. WellFormed(c[1], c[2])
    BY <2>2 DEF TextInv
  <2> QED
    BY <2>3 DEF WellFormed, Exempt, ChunkIns
<1> QED
  BY <1>1, TextInit, TextNext, PTL DEF Spec

-----------------------------------------------------------------------------
(***************************************************************************)
(* CallsAligned.  The machine keeps a number in rsp: the only addresses    *)
(* among its values are those it made from rsp and rbp.                    *)
(***************************************************************************)
Clean(v) == v[1] = "address" => v[2] \in Int

Pair(p) == Clean(p[1]) /\ Clean(p[2])

Fields == {"regs", "mem", "rsp", "rbp", "flags", "aligned", "returned", "events"}

Tame(k) ==
    /\ DOMAIN k = Fields /\ k.rsp \in Int /\ Clean(k.rbp)
    /\ DOMAIN k.regs = Regs /\ \A r \in Regs : Pair(k.regs[r])
    /\ \A a \in DOMAIN k.mem : Clean(k.mem[a])

LEMMA CleanTerms ==
    /\ \A v : v[1] # "address" => Clean(v)
    /\ \A v : Clean(v) => Pair(Full(v)) /\ Pair(Halves(v))
    /\ \A n \in Int : Clean(Address(n))
    /\ \A p : Pair(p) => Clean(Join(p)) /\ Pair(<<p[1], Zero>>)
<1>1. \A v : v[1] # "address" => Clean(v)
  BY DEF Clean
<1>2. Clean(Zero)
  BY DEF Clean, Zero
<1>3. \A v : Clean(v) => Pair(Full(v)) /\ Pair(Halves(v))
  BY <1>2 DEF Pair, Full, Halves
<1>4. \A n \in Int : Clean(Address(n))
  BY DEF Clean, Address
<1>5. ASSUME NEW p, Pair(p) PROVE Clean(Join(p)) /\ Pair(<<p[1], Zero>>)
  <2>1. Join(p) = p[1] \/ Join(p)[1] = "torn"
    BY DEF Join
  <2> QED
    BY <1>1, <1>2, <1>5, <2>1 DEF Pair
<1> QED
  BY <1>1, <1>3, <1>4, <1>5

LEMMA FetchClean ==
    ASSUME NEW k, Tame(k), NEW o \in Args
    PROVE  Pair(Fetch(k, o))
<1>1. CASE IsImm(o)
  <2>1. Fetch(k, o) = Full(o) /\ o[1] = "imm"
    BY <1>1 DEF Fetch, IsImm, IsReg, IsMem
  <2> QED
    BY <2>1, CleanTerms
<1>2. CASE IsReg(o)
  <2>1. Fetch(k, o) = IF o[2] = "rsp" THEN Full(Address(k.rsp)) ELSE k.regs[o[2]]
    BY <1>2 DEF Fetch, IsImm, IsReg, IsMem
  <2>2. o[2] = "rsp" \/ o[2] \in Regs
    BY <1>2 DEF Args, Opds, Locs, Numbers, Tests, IsReg, Reg, Mem, Imm, Ind, None
  <2> QED
    BY <2>1, <2>2, CleanTerms DEF Tame
<1>3. \A a : Pair(At(k, a))
  <2>1. \A a : Clean(Cell(k, a))
    BY CleanTerms DEF Cell, Tame
  <2> QED
    BY <2>1 DEF At, Pair
<1>4. CASE IsMem(o)
  <2>1. Fetch(k, o) = At(k, Base + o[2])
    BY <1>4 DEF Fetch, IsImm, IsReg, IsMem
  <2> QED
    BY <1>3, <2>1
<1>5. CASE ~ IsImm(o) /\ ~ IsReg(o) /\ ~ IsMem(o)
  <2> DEFINE v == <<"load", Value(k.regs[o[2][2]]), Len(k.events)>>
  <2>1. Fetch(k, o) = Halves(v)
    BY <1>5 DEF Fetch
  <2>2. v[1] # "address"
    OBVIOUS
  <2> HIDE DEF v
  <2> QED
    BY <2>1, <2>2, CleanTerms
<1> QED
  BY <1>1, <1>2, <1>4, <1>5

(* What a step on the machine keeps. *)
Steady(k, h) == Tame(h) /\ h.aligned = k.aligned

LEMMA PokeSteady ==
    ASSUME NEW k, Tame(k), NEW a, NEW p, Pair(p), NEW bytes
    PROVE  Steady(k, Poke(k, a, p, bytes)) /\ Poke(k, a, p, bytes).rsp = k.rsp
<1> DEFINE h == Poke(k, a, p, bytes)
           area == DOMAIN k.mem \cup {a} \cup (IF bytes = 8 THEN {a + 4} ELSE {})
           mem == [c \in area |->
                      IF c = a THEN p[1]
                      ELSE IF c = a + 4 /\ bytes = 8 THEN p[2] ELSE k.mem[c]]
<1>1. h = [k EXCEPT !.mem = mem]
  BY DEF Poke
<1>2. \A c \in DOMAIN mem : Clean(mem[c])
  <2> SUFFICES ASSUME NEW c \in area PROVE Clean(mem[c])
    OBVIOUS
  <2>1. c = a \/ (c = a + 4 /\ bytes = 8) \/ c \in DOMAIN k.mem
    OBVIOUS
  <2> QED
    BY <2>1 DEF Pair, Tame
<1> HIDE DEF mem, h
<1>3. /\ DOMAIN h = Fields /\ h.mem = mem
      /\ h.rsp = k.rsp /\ h.rbp = k.rbp /\ h.regs = k.regs /\ h.aligned = k.aligned
  BY <1>1 DEF Tame, Fields
<1>4. Tame(h)
  BY <1>2, <1>3 DEF Tame
<1> QED
  BY <1>3, <1>4 DEF Steady, h

LEMMA SetSteady ==
    ASSUME NEW k, Tame(k), NEW x
    PROVE  /\ x \in Int => /\ Steady(k, [k EXCEPT !.rsp = x])
                           /\ [k EXCEPT !.rsp = x].rsp = x
           /\ Steady(k, [k EXCEPT !.flags = x])
           /\ Steady(k, [k EXCEPT !.events = x])
           /\ \A r : Pair(x) => Steady(k, [k EXCEPT !.regs[r] = x])
<1>1. x \in Int => Tame([k EXCEPT !.rsp = x])
  <2> DEFINE h == [k EXCEPT !.rsp = x]
  <2>1. /\ DOMAIN h = Fields /\ h.rsp = x /\ h.mem = k.mem /\ h.rbp = k.rbp /\ h.regs = k.regs
    BY DEF Tame, Fields
  <2> HIDE DEF h
  <2>2. x \in Int => Tame(h)
    BY <2>1 DEF Tame
  <2> QED
    BY <2>2 DEF h
<1>2. Tame([k EXCEPT !.flags = x])
  <2> DEFINE h == [k EXCEPT !.flags = x]
  <2>1. /\ DOMAIN h = Fields /\ h.rsp = k.rsp /\ h.mem = k.mem /\ h.rbp = k.rbp
        /\ h.regs = k.regs
    BY DEF Tame, Fields
  <2> HIDE DEF h
  <2>2. Tame(h)
    BY <2>1 DEF Tame
  <2> QED
    BY <2>2 DEF h
<1>3. Tame([k EXCEPT !.events = x])
  <2> DEFINE h == [k EXCEPT !.events = x]
  <2>1. /\ DOMAIN h = Fields /\ h.rsp = k.rsp /\ h.mem = k.mem /\ h.rbp = k.rbp
        /\ h.regs = k.regs
    BY DEF Tame, Fields
  <2> HIDE DEF h
  <2>2. Tame(h)
    BY <2>1 DEF Tame
  <2> QED
    BY <2>2 DEF h
<1>4. ASSUME NEW r, Pair(x) PROVE Tame([k EXCEPT !.regs[r] = x])
  <2> DEFINE h == [k EXCEPT !.regs[r] = x]
  <2>1. /\ DOMAIN h = Fields /\ h.rsp = k.rsp /\ h.mem = k.mem /\ h.rbp = k.rbp
        /\ h.regs = [k.regs EXCEPT ![r] = x]
    BY DEF Tame, Fields
  <2>2. DOMAIN h.regs = Regs /\ \A s \in Regs : Pair(h.regs[s])
    BY <1>4, <2>1 DEF Tame
  <2> HIDE DEF h
  <2>3. Tame(h)
    BY <2>1, <2>2 DEF Tame
  <2> QED
    BY <2>3 DEF h
<1>5. /\ [k EXCEPT !.rsp = x].aligned = k.aligned /\ [k EXCEPT !.flags = x].aligned = k.aligned
      /\ [k EXCEPT !.events = x].aligned = k.aligned
      /\ \A r : [k EXCEPT !.regs[r] = x].aligned = k.aligned
      /\ [k EXCEPT !.rsp = x].rsp = x
  BY DEF Tame, Fields
<1> QED
  BY <1>1, <1>2, <1>3, <1>4, <1>5 DEF Steady

LEMMA DeliverSteady ==
    ASSUME NEW k, Tame(k), NEW o \in Args, NEW p, Pair(p), NEW bytes
    PROVE  Steady(k, Deliver(k, o, p, bytes))
<1>1. CASE o = Reg("rsp")
  <2> DEFINE x == IF Join(p)[1] = "address" THEN Join(p)[2] ELSE Lost
  <2>1. Deliver(k, o, p, bytes) = [k EXCEPT !.rsp = x]
    BY <1>1 DEF Deliver, IsReg, IsMem, Reg
  <2>2. x \in Int
    <3>1. Clean(Join(p))
      BY CleanTerms
    <3> QED
      BY <3>1 DEF Clean, Lost
  <2>3. \A y : y \in Int => Steady(k, [k EXCEPT !.rsp = y])
    BY SetSteady
  <2> HIDE DEF x
  <2> QED
    BY <2>1, <2>2, <2>3
<1>2. CASE IsReg(o) /\ o # Reg("rsp")
  <2> DEFINE x == IF bytes = 8 THEN p ELSE <<p[1], Zero>>
  <2>1. Deliver(k, o, p, bytes) = [k EXCEPT !.regs[o[2]] = x]
    BY <1>2 DEF Deliver, IsReg, IsMem
  <2>2. Pair(x)
    BY CleanTerms
  <2>3. \A y, r : Pair(y) => Steady(k, [k EXCEPT !.regs[r] = y])
    BY SetSteady
  <2> HIDE DEF x
  <2> QED
    BY <2>1, <2>2, <2>3
<1>3. CASE IsMem(o)
  <2>1. Deliver(k, o, p, bytes) = Poke(k, Base + o[2], p, bytes)
    BY <1>3 DEF Deliver, IsReg, IsMem, Reg
  <2> QED
    BY <2>1, PokeSteady
<1>4. CASE o # Reg("rsp") /\ ~ IsReg(o) /\ ~ IsMem(o)
  <2> DEFINE e == <<"store", Value(k.regs[o[2][2]]), Value(p)>>
  <2>1. Deliver(k, o, p, bytes) = [k EXCEPT !.events = Append(k.events, e)]
    BY <1>4 DEF Deliver, Event
  <2>2. \A y : Steady(k, [k EXCEPT !.events = y])
    BY SetSteady
  <2> QED
    BY <2>1, <2>2
<1> QED
  BY <1>1, <1>2, <1>3, <1>4


LEMMA PutSteady ==
    ASSUME NEW k, Tame(k), NEW o \in Args, NEW v, v[1] # "address"
    PROVE  Steady(k, PutW(k, o, v))
<1>1. Pair(Halves(v))
  BY CleanTerms
<1>2. \A p, bytes : Pair(p) => Steady(k, Deliver(k, o, p, bytes))
  BY DeliverSteady
<1> QED
  BY <1>1, <1>2 DEF PutW

LEMMA SteadySteps ==
    ASSUME NEW k, NEW h, NEW j, Steady(k, h), Steady(h, j)
    PROVE  Steady(k, j)
BY DEF Steady

(* Both pointers of the stack, or rsp and the result of ret.               *)
LEMMA PointersSteady ==
    ASSUME NEW k, Tame(k), NEW x \in Int, NEW v, Clean(v)
    PROVE  /\ Steady(k, [k EXCEPT !.rsp = x, !.rbp = v])
           /\ Steady(k, [k EXCEPT !.rsp = x, !.returned = v])
<1>1. Steady(k, [k EXCEPT !.rsp = x, !.rbp = v])
  <2> DEFINE h == [k EXCEPT !.rsp = x, !.rbp = v]
  <2>1. /\ DOMAIN h = Fields /\ h.rsp = x /\ h.mem = k.mem /\ h.rbp = v /\ h.regs = k.regs
        /\ h.aligned = k.aligned
    BY DEF Tame, Fields
  <2> HIDE DEF h
  <2>2. Steady(k, h)
    BY <2>1 DEF Tame, Steady
  <2> QED
    BY <2>2 DEF h
<1>2. Steady(k, [k EXCEPT !.rsp = x, !.returned = v])
  <2> DEFINE h == [k EXCEPT !.rsp = x, !.returned = v]
  <2>1. /\ DOMAIN h = Fields /\ h.rsp = x /\ h.mem = k.mem /\ h.rbp = k.rbp /\ h.regs = k.regs
        /\ h.aligned = k.aligned
    BY DEF Tame, Fields
  <2> HIDE DEF h
  <2>2. Steady(k, h)
    BY <2>1 DEF Tame, Steady
  <2> QED
    BY <2>2 DEF h
<1> QED
  BY <1>1, <1>2

(* Moves, and the instructions that work on rsp and rbp.                   *)
LEMMA StackSteady ==
    ASSUME NEW k, Tame(k), NEW t \in Lines,
           t.op \in {"mov", "movq", "push", "pop", "subsp", "alignsp", "enter", "leave", "ret"}
    PROVE  /\ Steady(k, Exec(k, t))
           /\ t.op = "push" => Exec(k, t).rsp = k.rsp - 8
           /\ t.op = "alignsp" => Exec(k, t).rsp = k.rsp - (k.rsp % 16)
           /\ \A p \in Int : t.op = "subsp" /\ t.s = Imm(p) => Exec(k, t).rsp = k.rsp - p
<1>1. t.s \in Args /\ t.d \in Args /\ k.rsp \in Int /\ Clean(k.rbp)
  BY DEF Lines, Tame
<1>2. Pair(Fetch(k, t.s))
  BY <1>1, FetchClean
<1>3. \A a : Pair(At(k, a)) /\ Clean(Join(At(k, a)))
  <2>1. \A a : Clean(Cell(k, a))
    BY CleanTerms DEF Cell, Tame
  <2>2. \A a : Pair(At(k, a))
    BY <2>1 DEF At, Pair
  <2> QED
    BY <2>2, CleanTerms
<1>4. \A x \in Int : /\ Steady(k, [k EXCEPT !.rsp = x]) /\ [k EXCEPT !.rsp = x].rsp = x
                     /\ Tame([k EXCEPT !.rsp = x])
  <2>1. \A x : x \in Int => Steady(k, [k EXCEPT !.rsp = x]) /\ [k EXCEPT !.rsp = x].rsp = x
    BY SetSteady
  <2> QED
    BY <2>1 DEF Steady
<1>5. CASE t.op \in {"mov", "movq"}
  <2>1. \/ Exec(k, t) = Deliver(k, t.d, Fetch(k, t.s), width)
        \/ Exec(k, t) = Deliver(k, t.d, Fetch(k, t.s), 8)
    BY <1>5 DEF Exec
  <2>2. \A p, bytes : Pair(p) => Steady(k, Deliver(k, t.d, p, bytes))
    BY <1>1, DeliverSteady
  <2> QED
    BY <1>2, <1>5, <2>1, <2>2
<1>6. CASE t.op = "push"
  <2> DEFINE h == [k EXCEPT !.rsp = k.rsp - 8]
  <2>1. Exec(k, t) = Poke(h, k.rsp - 8, Fetch(k, t.s), 8)
    BY <1>6 DEF Exec
  <2>2. Steady(k, h) /\ Tame(h) /\ h.rsp = k.rsp - 8
    <3>1. k.rsp - 8 \in Int
      BY <1>1
    <3> QED
      BY <1>4, <3>1
  <2> HIDE DEF h
  <2>3. \A a, p : Pair(p) => Steady(h, Poke(h, a, p, 8)) /\ Poke(h, a, p, 8).rsp = h.rsp
    BY <2>2, PokeSteady
  <2>4. Steady(h, Exec(k, t)) /\ Exec(k, t).rsp = k.rsp - 8
    BY <1>2, <2>1, <2>2, <2>3
  <2>5. Steady(k, Exec(k, t))
    BY <2>2, <2>4, SteadySteps
  <2> QED
    BY <1>6, <2>4, <2>5
<1>7. CASE t.op = "pop"
  <2> DEFINE h == [k EXCEPT !.rsp = k.rsp + 8]
  <2>1. Exec(k, t) = Deliver(h, t.d, At(k, k.rsp), 8)
    BY <1>7 DEF Exec
  <2>2. Steady(k, h) /\ Tame(h)
    <3>1. k.rsp + 8 \in Int
      BY <1>1
    <3> QED
      BY <1>4, <3>1
  <2> HIDE DEF h
  <2>3. \A p, bytes : Pair(p) => Steady(h, Deliver(h, t.d, p, bytes))
    BY <1>1, <2>2, DeliverSteady
  <2>4. Steady(h, Exec(k, t))
    BY <1>3, <2>1, <2>3
  <2>5. Steady(k, Exec(k, t))
    BY <2>2, <2>4, SteadySteps
  <2> QED
    BY <1>7, <2>5
<1>8. CASE t.op = "subsp"
  <2>1. PICK n \in Int : t.s = Imm(n)
    BY <1>8 DEF Lines, Numbers
  <2>2. t.s[2] = n /\ \A p : t.s = Imm(p) => p = n
    BY <2>1 DEF Imm
  <2>3. Exec(k, t) = [k EXCEPT !.rsp = k.rsp - n]
    BY <1>8, <2>2 DEF Exec
  <2>4. k.rsp - n \in Int
    BY <1>1
  <2>5. Steady(k, Exec(k, t)) /\ Exec(k, t).rsp = k.rsp - n
    BY <1>4, <2>3, <2>4
  <2> QED
    BY <1>8, <2>2, <2>5
<1>9. CASE t.op = "alignsp"
  <2>1. Exec(k, t) = [k EXCEPT !.rsp = k.rsp - (k.rsp % 16)]
    BY <1>9 DEF Exec
  <2>2. k.rsp - (k.rsp % 16) \in Int
    BY <1>1
  <2> QED
    BY <1>4, <1>9, <2>1, <2>2
<1>10. CASE t.op = "enter"
  <2> DEFINE h == Poke(k, k.rsp - 8, Full(k.rbp), 8)
  <2>1. Exec(k, t) = [h EXCEPT !.rsp = k.rsp - 8, !.rbp = Address(Base)]
    BY <1>10 DEF Exec
  <2>2. \A a, p : Pair(p) => Steady(k, Poke(k, a, p, 8))
    BY PokeSteady
  <2>3. Pair(Full(k.rbp)) /\ k.rsp - 8 \in Int /\ Clean(Address(Base))
    BY <1>1, CleanTerms DEF Base
  <2>4. Steady(k, h) /\ Tame(h)
    BY <2>2, <2>3 DEF Steady
  <2> HIDE DEF h
  <2>5. \A x \in Int : \A v : Clean(v) => Steady(h, [h EXCEPT !.rsp = x, !.rbp = v])
    BY <2>4, PointersSteady
  <2>6. Steady(h, Exec(k, t))
    <3>1. Steady(h, [h EXCEPT !.rsp = k.rsp - 8, !.rbp = Address(Base)])
      BY <2>3, <2>5
    <3> QED
      BY <2>1, <3>1
  <2>7. Steady(k, Exec(k, t))
    BY <2>4, <2>6, SteadySteps
  <2> QED
    BY <1>10, <2>7
<1>11. CASE t.op \in {"leave", "ret"}
  <2>1. \/ Exec(k, t) = [k EXCEPT !.rsp = Base + 8, !.rbp = Join(At(k, Base))]
        \/ Exec(k, t) = [k EXCEPT !.rsp = k.rsp + 8, !.returned = Join(At(k, k.rsp))]
    BY <1>11 DEF Exec
  <2>2. Base + 8 \in Int /\ k.rsp + 8 \in Int
    BY <1>1 DEF Base
  <2>3. \A x \in Int : \A v : Clean(v) => /\ Steady(k, [k EXCEPT !.rsp = x, !.rbp = v])
                                          /\ Steady(k, [k EXCEPT !.rsp = x, !.returned = v])
    BY PointersSteady
  <2> QED
    BY <1>3, <1>11, <2>1, <2>2, <2>3
<1> QED
  BY <1>5, <1>6, <1>7, <1>8, <1>9, <1>10, <1>11

(* The instructions that compute make terms, never addresses.              *)
LEMMA TermsSteady ==
    ASSUME NEW k, Tame(k), NEW t \in Lines,
           t.op \notin {"mov", "movq", "push", "pop", "subsp", "alignsp", "enter", "leave",
                        "ret", "call"}
    PROVE  Steady(k, Exec(k, t))
<1>1. t.s \in Args /\ t.d \in Args /\ Acc \in Args /\ Rem \in Args
  BY OperandForms DEF Lines
<1>2. \A o \in Args : \A v : v[1] # "address" => Steady(k, PutW(k, o, v))
  BY PutSteady
<1>3. \A o, q \in Args : \A u, v : u[1] # "address" /\ v[1] # "address"
          => Steady(k, PutW(PutW(k, o, u), q, v))
  <2> SUFFICES ASSUME NEW o \in Args, NEW q \in Args, NEW u, NEW v,
                      u[1] # "address", v[1] # "address"
               PROVE  Steady(k, PutW(PutW(k, o, u), q, v))
    OBVIOUS
  <2> DEFINE h == PutW(k, o, u)
  <2>1. Steady(k, h) /\ Tame(h)
    BY <1>2 DEF Steady
  <2> HIDE DEF h
  <2>2. Steady(h, PutW(h, q, v))
    BY <2>1, PutSteady
  <2>3. Steady(k, PutW(h, q, v))
    BY <2>1, <2>2, SteadySteps
  <2> QED
    BY <2>3 DEF h
<1>4. \A y : Steady(k, [k EXCEPT !.flags = y]) /\ Steady(k, Event(k, y))
  <2>1. \A y : Steady(k, [k EXCEPT !.flags = y]) /\ Steady(k, [k EXCEPT !.events = y])
    BY SetSteady
  <2> QED
    BY <2>1 DEF Event
<1>5. CASE t.op \in {"add", "shl", "cltd", "neg", "both"}
  <2>1. \E o \in Args : \E v : v[1] # "address" /\ Exec(k, t) = PutW(k, o, v)
    <3>1. CASE t.op \in {"add", "shl"}
      <4> DEFINE v == <<t.op, ValueOf(k, t.d), ValueOf(k, t.s)>>
      <4>1. Exec(k, t) = PutW(k, t.d, v) /\ v[1] # "address"
        BY <3>1 DEF Exec
      <4> QED
        BY <1>1, <4>1
    <3>2. CASE t.op = "cltd"
      <4> DEFINE v == <<"sign", ValueOf(k, Acc)>>
      <4>1. Exec(k, t) = PutW(k, Rem, v) /\ v[1] # "address"
        BY <3>2 DEF Exec
      <4> QED
        BY <1>1, <4>1
    <3>3. CASE t.op = "neg"
      <4> DEFINE v == <<"neg", ValueOf(k, t.d)>>
      <4>1. Exec(k, t) = PutW(k, t.d, v) /\ v[1] # "address"
        BY <3>3 DEF Exec
      <4> QED
        BY <1>1, <4>1
    <3>4. CASE t.op = "both"
      <4> DEFINE v == <<"land", ValueOf(k, t.s), ValueOf(k, t.d)>>
      <4>1. Exec(k, t) = PutW(k, t.d, v) /\ v[1] # "address"
        BY <3>4 DEF Exec
      <4> QED
        BY <1>1, <4>1
    <3> QED
      BY <1>5, <3>1, <3>2, <3>3, <3>4
  <2> QED
    BY <1>2, <2>1
<1>6. CASE t.op = "imul"
  <2> DEFINE u == <<"high", ValueOf(k, Acc), ValueOf(k, t.s)>>
             v == <<"mul", ValueOf(k, Acc), ValueOf(k, t.s)>>
  <2>1. Exec(k, t) = PutW(PutW(k, Rem, u), Acc, v) /\ u[1] # "address" /\ v[1] # "address"
    BY <1>6 DEF Exec
  <2> HIDE DEF u, v
  <2> QED
    BY <1>1, <1>3, <2>1
<1>7. CASE t.op = "idiv"
  <2> DEFINE a == ValueOf(k, Acc)
             ok == ValueOf(k, Rem) = <<"sign", a>>
             u == <<IF ok THEN "div" ELSE "trap", a, ValueOf(k, t.s)>>
             v == <<"mod", a, ValueOf(k, t.s)>>
  <2>1. Exec(k, t) = PutW(PutW(k, Acc, u), Rem, v) /\ u[1] # "address" /\ v[1] # "address"
    BY <1>7 DEF Exec, Divided
  <2> HIDE DEF u, v
  <2> QED
    BY <1>1, <1>3, <2>1
<1>8. CASE t.op = "set"
  <2> DEFINE v == IF t.s[2] = "lnot" THEN <<"lnot", k.flags[1]>>
                  ELSE <<t.s[2], k.flags[1], k.flags[2]>>
  <2>1. Exec(k, t) = PutW(k, t.d, v)
    BY <1>8 DEF Exec
  <2>2. t.s[2] \in {"lt", "eq", "lnot"}
    BY <1>8 DEF Lines, Tests, CmpOps
  <2>3. v[1] # "address"
    BY <2>2
  <2> HIDE DEF v
  <2> QED
    BY <1>1, <1>2, <2>1, <2>3
<1>9. CASE t.op = "cmp"
  <2>1. Exec(k, t) = [k EXCEPT !.flags = <<ValueOf(k, t.d), ValueOf(k, t.s)>>]
    BY <1>9 DEF Exec
  <2> QED
    BY <1>4, <2>1
<1>10. CASE t.op \in {"jz", "jnz", "jn"}
  <2>1. \E y : Exec(k, t) = Event(k, y)
    BY <1>10 DEF Exec
  <2> QED
    BY <1>4, <2>1
<1> QED
  BY <1>5, <1>6, <1>7, <1>8, <1>9, <1>10 DEF Lines, MachineOps

LEMMA ExecSteady ==
    ASSUME NEW k, Tame(k), NEW t \in Lines, t.op # "call"
    PROVE  /\ Steady(k, Exec(k, t))
           /\ t.op = "push" => Exec(k, t).rsp = k.rsp - 8
           /\ t.op = "alignsp" => Exec(k, t).rsp = k.rsp - (k.rsp % 16)
           /\ \A p \in Int : t.op = "subsp" /\ t.s = Imm(p) => Exec(k, t).rsp = k.rsp - p
BY StackSteady, TermsSteady

(* A call that finds rsp aligned.                                          *)
LEMMA CallTame ==
    ASSUME NEW k, Tame(k), NEW t \in Lines, t.op = "call", k.aligned = TRUE, k.rsp % 16 = 0
    PROVE  Tame(Exec(k, t)) /\ Exec(k, t).aligned = TRUE
<1> DEFINE n == t.s[2]
           args == IF n > 6 THEN 8 * (n - 6) ELSE 0
           old == Event(k, <<"call", Arguments(k, n)>>)
           mem == [a \in {c \in DOMAIN old.mem : c >= k.rsp + args} |-> old.mem[a]]
           regs == [r \in Regs |->
                       IF r \in CalleeSaved THEN old.regs[r]
                       ELSE IF r = "rax" THEN Full(<<"result", Len(k.events)>>)
                       ELSE Full(<<"junk", Len(k.events)>>)]
           h == Exec(k, t)
<1>1. h = [old EXCEPT !.aligned = @ /\ k.rsp % 16 = 0, !.mem = mem, !.regs = regs]
  BY DEF Exec, AfterCall
<1>2. Tame(old) /\ old.aligned = TRUE
  <2>1. \A y : Steady(k, [k EXCEPT !.events = y])
    BY SetSteady
  <2> QED
    BY <2>1 DEF Steady, Event
<1> HIDE DEF old
<1>3. \A a \in DOMAIN mem : Clean(mem[a])
  BY <1>2 DEF Tame
<1>4. DOMAIN regs = Regs /\ \A r \in Regs : Pair(regs[r])
  <2>1. \A e : Pair(Full(<<"result", e>>)) /\ Pair(Full(<<"junk", e>>))
    <3>1. \A e : Clean(<<"result", e>>) /\ Clean(<<"junk", e>>)
      BY DEF Clean
    <3> QED
      BY <3>1, CleanTerms
  <2> QED
    BY <1>2, <2>1 DEF Tame
<1> HIDE DEF h, mem, regs
<1>5. /\ DOMAIN h = Fields /\ h.rsp = old.rsp /\ h.rbp = old.rbp /\ h.mem = mem /\ h.regs = regs
      /\ h.aligned = (old.aligned /\ k.rsp % 16 = 0)
  BY <1>1, <1>2 DEF Tame, Fields
<1>6. Tame(h)
  BY <1>2, <1>3, <1>4, <1>5 DEF Tame
<1> QED
  BY <1>2, <1>5, <1>6 DEF h

After(k, w) == FoldLeft(Exec, k, w)

(* A run of the machine over a text, state by state.                       *)
LEMMA ExecFold ==
    ASSUME NEW k, NEW w \in Seq(Lines)
    PROVE  \E K : /\ K[0] = k /\ After(k, w) = K[Len(w)]
                  /\ \A i \in 1 .. Len(w) : K[i] = Exec(K[i - 1], w[i])
<1> DEFINE Value1(it, t) == IF t = {} THEN k ELSE Exec(it[t \ {Max(t)}], w[Max(t)])
           Body(it, n) == [t \in SUBSET (1 .. n) |-> Value1(it, t)]
           iter == CHOOSE it : it = Body(it, Len(w))
<1>1. DOMAIN w = 1 .. Len(w) /\ Len(w) \in Nat
  OBVIOUS
<1>2. After(k, w) = iter[1 .. Len(w)]
  BY <1>1 DEF After, FoldLeft, MapThenFoldSet
<1>3. \A n \in Nat : \E it : it = Body(it, n)
  <2> DEFINE Bad == {n \in Nat : ~ \E it : it = Body(it, n)}
  <2>1. SUFFICES ASSUME Bad # {} PROVE FALSE
    OBVIOUS
  <2>2. PICK n \in Bad : \A j \in Bad : n <= j
    <3> HIDE DEF Bad
    <3>1. Bad \in SUBSET Nat
      BY DEF Bad
    <3> QED
      BY <2>1, <3>1, LeastNumber
  <2> HIDE DEF Value1
  <2>3. CASE n = 0
    <3> DEFINE it == [t \in {{}} |-> k]
    <3>1. SUBSET (1 .. n) = {{}}
      BY <2>3
    <3>2. it = Body(it, n)
      BY <3>1 DEF Value1
    <3> QED
      BY <2>2, <3>2
  <2>4. CASE n # 0
    <3>1. n - 1 \in Nat /\ n - 1 \notin Bad
      <4>1. n \in Nat
        BY <2>2
      <4> HIDE DEF Bad
      <4> QED
        BY <2>2, <2>4, <4>1
    <3>2. PICK it : it = Body(it, n - 1)
      BY <3>1
    <3> DEFINE next == Body(it, n)
    <3>3. ASSUME NEW t \in SUBSET (1 .. n) PROVE Value1(next, t) = Value1(it, t)
      <4>1. CASE t = {}
        BY <4>1 DEF Value1
      <4>2. CASE t # {}
        <5> DEFINE r == t \ {Max(t)}
        <5>1. r \in SUBSET (1 .. n - 1) /\ r \in SUBSET (1 .. n)
          BY <4>2, GreatestIndex
        <5>2. next[r] = Value1(it, r) /\ it[r] = Value1(it, r)
          BY <3>2, <5>1
        <5> QED
          BY <4>2, <5>2 DEF Value1
      <4> QED
        BY <4>1, <4>2
    <3>4. next = Body(next, n)
      BY <3>3
    <3> QED
      BY <2>2, <3>4
  <2> QED
    BY <2>3, <2>4
<1>4. iter = Body(iter, Len(w))
  BY <1>1, <1>3
<1> HIDE DEF iter
<1>5. \A t \in SUBSET (1 .. Len(w)) : iter[t] = Value1(iter, t)
  BY <1>4
<1> DEFINE K == [i \in 0 .. Len(w) |-> iter[1 .. i]]
<1>6. K[0] = k
  <2>1. 1 .. 0 = {} /\ {} \in SUBSET (1 .. Len(w)) /\ 0 \in 0 .. Len(w)
    BY <1>1
  <2>2. iter[{}] = k
    BY <1>5, <2>1
  <2> QED
    BY <2>1, <2>2
<1>7. ASSUME NEW i \in 1 .. Len(w)
      PROVE  K[i] = Exec(K[i - 1], w[i])
  <2>1. 1 .. i \in SUBSET (1 .. Len(w)) /\ i \in Nat \ {0}
    BY <1>1
  <2>2. 1 .. i # {} /\ Max(1 .. i) = i /\ (1 .. i) \ {Max(1 .. i)} = 1 .. i - 1
    BY <2>1, InitialIndices
  <2>3. iter[1 .. i] = Exec(iter[1 .. i - 1], w[i])
    BY <1>5, <2>1, <2>2
  <2>4. i \in 0 .. Len(w) /\ i - 1 \in 0 .. Len(w)
    BY <1>1
  <2> QED
    BY <2>3, <2>4
<1>8. K[Len(w)] = iter[1 .. Len(w)]
  BY <1>1
<1> HIDE DEF K
<1> QED
  BY <1>2, <1>6, <1>7, <1>8

(* What is taken off an aligned rsp before a call.                         *)
LEMMA AlignedLess ==
    ASSUME NEW a \in Int, NEW b \in Int, a % 16 = 0, b % 16 = 0
    PROVE  (a - b) % 16 = 0
<1>1. a = 16 * (a \div 16) /\ b = 16 * (b \div 16) /\ a \div 16 \in Int /\ b \div 16 \in Int
  OBVIOUS
<1>2. PICK x \in Int, y \in Int : a = 16 * x /\ b = 16 * y
  BY <1>1
<1>3. a - b = 16 * (x - y) /\ x - y \in Int
  BY <1>2
<1>4. \A z \in Int : (16 * z) % 16 = 0
  OBVIOUS
<1> QED
  BY <1>3, <1>4

(* Over a padded text every call finds rsp aligned.                        *)
LEMMA FoldTame ==
    ASSUME NEW k, Tame(k), k.aligned = TRUE, NEW w \in Seq(Lines), Padded(w)
    PROVE  Tame(After(k, w)) /\ After(k, w).aligned = TRUE
<1> DEFINE n == Len(w)
<1>1. PICK K : /\ K[0] = k /\ After(k, w) = K[n]
               /\ \A i \in 1 .. n : K[i] = Exec(K[i - 1], w[i])
  BY ExecFold
<1>2. n \in Nat /\ DOMAIN w = 1 .. n /\ \A i \in 1 .. n : w[i] \in Lines
  BY SeqElement
<1> HIDE DEF n
<1> DEFINE Good(i) == Tame(K[i]) /\ K[i].aligned = TRUE
           Bad == {i \in 0 .. n : ~ Good(i)}
<1>3. Bad = {}
  <2>1. SUFFICES ASSUME Bad # {} PROVE FALSE
    OBVIOUS
  <2>2. PICK x \in Bad : \A j \in Bad : x <= j
    <3> HIDE DEF Bad
    <3>1. Bad \in SUBSET Nat
      BY <1>2 DEF Bad
    <3> QED
      BY <2>1, <3>1, LeastNumber
  <2>3. x \in 0 .. n /\ ~ Good(x) /\ \A j \in 0 .. n : j < x => Good(j)
    <3>1. \A j \in 0 .. n : j < x => ~ (x <= j)
      BY <1>2, <2>2
    <3> HIDE DEF Good
    <3> QED
      BY <2>2, <3>1
  <2>4. x \in 1 .. n /\ x - 1 \in 0 .. n /\ x - 1 < x
    <3>1. Good(0)
      BY <1>1
    <3>2. x # 0
      BY <2>3, <3>1
    <3> HIDE DEF Good, Bad
    <3> QED
      BY <1>2, <2>3, <3>2
  <2>5. Good(x - 1)
    <3> HIDE DEF Good
    <3> QED
      BY <2>3, <2>4
  <2>6. K[x] = Exec(K[x - 1], w[x]) /\ w[x] \in Lines /\ Tame(K[x - 1]) /\ K[x - 1].aligned = TRUE
    BY <1>1, <1>2, <2>4, <2>5
  <2>7. CASE w[x].op # "call"
    <3>1. \A h : Tame(h) => Steady(h, Exec(h, w[x]))
      BY <2>6, <2>7, ExecSteady
    <3>2. Steady(K[x - 1], K[x])
      BY <2>6, <3>1
    <3> QED
      BY <2>3, <2>6, <3>2 DEF Steady
  <2>8. CASE w[x].op = "call"
    <3>1. PICK j \in 1 .. x - 2, p \in Int :
              /\ w[j].op = "alignsp" /\ w[j + 1].op = "subsp" /\ w[j + 1].s = Imm(p)
              /\ \A i \in j + 2 .. x - 1 : w[i].op = "push"
              /\ (p + 8 * (x - j - 2)) % 16 = 0
      BY <1>2, <2>4, <2>8 DEF Padded
    <3>2. /\ j \in 1 .. n /\ j + 1 \in 1 .. n /\ j - 1 \in 0 .. n /\ j \in 0 .. n
          /\ j + 1 \in 0 .. n /\ j - 1 < x /\ j < x /\ j + 1 < x /\ x \in Int /\ j \in Int
          /\ (j + 1) - 1 = j
      BY <1>2, <2>4
    <3>3. \A i \in 0 .. n : i < x => Tame(K[i]) /\ K[i].rsp \in Int
      BY <2>3 DEF Tame
    <3>4. K[j].rsp = K[j - 1].rsp - (K[j - 1].rsp % 16) /\ K[j - 1].rsp \in Int /\ K[j].rsp \in Int
      <4>1. w[j] \in Lines /\ w[j].op # "call" /\ Tame(K[j - 1]) /\ K[j] = Exec(K[j - 1], w[j])
        BY <1>1, <1>2, <3>1, <3>2, <3>3
      <4>2. \A h : Tame(h) => Exec(h, w[j]).rsp = h.rsp - (h.rsp % 16)
        BY <3>1, <4>1, ExecSteady
      <4> QED
        BY <3>2, <3>3, <4>1, <4>2
    <3>5. K[j].rsp % 16 = 0
      <4>1. \A r \in Int : (r - (r % 16)) % 16 = 0
        <5> SUFFICES ASSUME NEW r \in Int PROVE (r - (r % 16)) % 16 = 0
          OBVIOUS
        <5>1. r = 16 * (r \div 16) + (r % 16) /\ r \div 16 \in Int
          OBVIOUS
        <5>2. PICK q \in Int : r - (r % 16) = 16 * q
          BY <5>1
        <5>3. \A z \in Int : (16 * z) % 16 = 0
          OBVIOUS
        <5> QED
          BY <5>2, <5>3
      <4> QED
        BY <3>4, <4>1
    <3>6. K[j + 1].rsp = K[j].rsp - p
      <4>1. /\ w[j + 1] \in Lines /\ w[j + 1].op # "call" /\ Tame(K[j])
            /\ K[j + 1] = Exec(K[j], w[j + 1])
        BY <1>1, <1>2, <3>1, <3>2, <3>3
      <4>2. \A h : Tame(h) => Exec(h, w[j + 1]).rsp = h.rsp - p
        BY <3>1, <4>1, ExecSteady
      <4> QED
        BY <4>1, <4>2
    <3>7. \A i \in j + 1 .. x - 1 : K[i].rsp = K[j].rsp - p - 8 * (i - j - 1)
      <4> DEFINE Off == {i \in j + 1 .. x - 1 : K[i].rsp # K[j].rsp - p - 8 * (i - j - 1)}
      <4>1. SUFFICES ASSUME Off # {} PROVE FALSE
        OBVIOUS
      <4>2. PICK i \in Off : \A l \in Off : i <= l
        <5>1. Off \in SUBSET Nat
          BY <3>2
        <5> HIDE DEF Off
        <5> QED
          BY <4>1, <5>1, LeastNumber
      <4>3. i \in j + 1 .. x - 1 /\ K[i].rsp # K[j].rsp - p - 8 * (i - j - 1)
        BY <4>2
      <4>4. i # j + 1
        BY <3>2, <3>4, <3>6, <4>3
      <4>5. /\ i - 1 \in j + 1 .. x - 1 /\ i \in j + 2 .. x - 1 /\ i \in 1 .. n
            /\ i - 1 \in 0 .. n /\ i - 1 < x /\ i \in Int
        <5>1. i \in Int /\ j + 1 <= i /\ i <= x - 1 /\ i # j + 1
          BY <3>2, <4>3, <4>4
        <5>2. x \in Int /\ j \in Int /\ n \in Int /\ x <= n /\ 1 <= j
          BY <1>2, <2>4, <3>2
        <5> HIDE DEF Off, Bad
        <5> QED
          BY <5>1, <5>2
      <4>6. K[i - 1].rsp = K[j].rsp - p - 8 * ((i - 1) - j - 1)
        <5>1. i - 1 \notin Off
          <6> HIDE DEF Off
          <6> QED
            BY <4>2, <4>5
        <5> QED
          BY <4>5, <5>1
      <4>7. K[i].rsp = K[i - 1].rsp - 8
        <5>1. w[i] \in Lines /\ w[i].op = "push" /\ Tame(K[i - 1]) /\ K[i] = Exec(K[i - 1], w[i])
          BY <1>1, <1>2, <3>1, <3>3, <4>5
        <5>2. \A h : Tame(h) => Exec(h, w[i]).rsp = h.rsp - 8
          BY <5>1, ExecSteady
        <5> QED
          BY <5>1, <5>2
      <4>8. \A r \in Int : (r - p - 8 * ((i - 1) - j - 1)) - 8 = r - p - 8 * (i - j - 1)
        <5>1. i \in Int /\ j \in Int /\ p \in Int
          BY <3>2, <4>5
        <5> HIDE DEF Off, Bad
        <5> QED
          BY <5>1
      <4>9. K[i].rsp = K[j].rsp - p - 8 * (i - j - 1)
        BY <3>4, <4>6, <4>7, <4>8
      <4> QED
        BY <4>3, <4>9
    <3>8. K[x - 1].rsp = K[j].rsp - (p + 8 * (x - j - 2))
      <4>1. x - 1 \in j + 1 .. x - 1
        BY <3>1, <3>2
      <4>2. K[x - 1].rsp = K[j].rsp - p - 8 * ((x - 1) - j - 1)
        BY <3>7, <4>1
      <4>3. \A r \in Int : r - p - 8 * ((x - 1) - j - 1) = r - (p + 8 * (x - j - 2))
        <5>1. x \in Int /\ j \in Int /\ p \in Int
          BY <3>2
        <5> HIDE DEF Bad
        <5> QED
          BY <5>1
      <4> QED
        BY <3>4, <4>2, <4>3
    <3>9. K[x - 1].rsp % 16 = 0
      <4> DEFINE b == p + 8 * (x - j - 2)
      <4>1. b \in Int /\ b % 16 = 0
        BY <3>1, <3>2
      <4> HIDE DEF b
      <4>2. (K[j].rsp - b) % 16 = 0
        BY <3>4, <3>5, <4>1, AlignedLess
      <4> QED
        BY <3>8, <4>2 DEF b
    <3>10. \A h : Tame(h) /\ h.aligned = TRUE /\ h.rsp % 16 = 0
              => Tame(Exec(h, w[x])) /\ Exec(h, w[x]).aligned = TRUE
      BY <2>6, <2>8, CallTame
    <3> QED
      BY <2>3, <2>6, <3>9, <3>10
  <2> QED
    BY <2>7, <2>8
<1>4. n \in 0 .. n
  BY <1>2
<1>5. Good(n)
  BY <1>3, <1>4
<1> QED
  BY <1>1, <1>5

LEMMA EntryTame ==
    ASSUME NEW f
    PROVE  Tame(Entry(f)) /\ Entry(f).aligned = TRUE
<1> DEFINE regs == [r \in Regs |->
                       IF \E i \in DOMAIN FRegs : FRegs[i] = r /\ i <= NParams(f)
                       THEN Full(<<"param", (CHOOSE i \in DOMAIN FRegs : FRegs[i] = r) - 1>>)
                       ELSE Full(<<"entry", r>>)]
           mem == [a \in {-8, -4} \cup {4 * c : c \in 0 .. 2 * NParams(f)} |->
                      IF a < 0 THEN <<"caller">>
                      ELSE IF width = 8 \/ a % 8 = 0 THEN <<"param", 6 + a \div 8>>
                      ELSE <<"junk", a>>]
           h == Entry(f)
<1>1. \A e : /\ Clean(<<"param", e>>) /\ Clean(<<"entry", e>>) /\ Clean(<<"junk", e>>)
             /\ Clean(<<"caller">>)
  BY DEF Clean
<1>2. \A e : Pair(Full(<<"param", e>>)) /\ Pair(Full(<<"entry", e>>))
  BY <1>1, CleanTerms
<1>3. DOMAIN regs = Regs /\ \A r \in Regs : Pair(regs[r])
  BY <1>2
<1>4. \A a \in DOMAIN mem : Clean(mem[a])
  <2>1. \A a \in DOMAIN mem : mem[a] = <<"caller">> \/ \E e : mem[a] \in {<<"param", e>>, <<"junk", e>>}
    OBVIOUS
  <2> HIDE DEF mem
  <2> QED
    BY <1>1, <2>1
<1>5. h = [regs |-> regs, mem |-> mem, rsp |-> -8, rbp |-> <<"entry", "rbp">>,
           flags |-> <<Zero, Zero>>, aligned |-> TRUE, returned |-> None, events |-> << >>]
  BY DEF Entry
<1> HIDE DEF h, regs, mem
<1>6. /\ DOMAIN h = Fields /\ h.rsp = -8 /\ h.rbp = <<"entry", "rbp">> /\ h.mem = mem
      /\ h.regs = regs /\ h.aligned = TRUE
  BY <1>5 DEF Fields
<1>7. h.rsp \in Int /\ Clean(h.rbp)
  <2>1. Clean(<<"entry", "rbp">>)
    BY <1>1
  <2>2. h.rbp = <<"entry", "rbp">> /\ h.rsp = -8
    BY <1>6
  <2>3. h.rsp \in Int
    BY <2>2
  <2> QED
    BY <2>1, <2>2, <2>3
<1>8. Tame(h)
  BY <1>3, <1>4, <1>6, <1>7 DEF Tame
<1> QED
  BY <1>6, <1>8 DEF h

RunInv ==
    /\ TextInv
    /\ phase \in {"run", "returned"} => Tame(m) /\ m.aligned = TRUE

LEMMA RunNext == RunInv /\ [Next]_vars => RunInv'
<1> SUFFICES ASSUME RunInv, [Next]_vars PROVE RunInv'
  OBVIOUS
<1>1. TextInv'
  BY TextNext DEF RunInv
<1>2. TextInv
  BY DEF RunInv
<1>3. CASE Enter
  <2>1. PICK n \in DOMAIN program : m' = FoldLeft(Exec, Entry(program[n]), text[n].prologue)
    BY <1>3 DEF Enter
  <2> DEFINE k == Entry(program[n])
             w == text[n].prologue
  <2>2. Tame(k) /\ k.aligned = TRUE
    BY EntryTame
  <2>3. w \in Seq(Lines) /\ Padded(w)
    <3>1. n \in 1 .. Len(program)
      BY <1>2, InputFacts DEF TextInv, FrameInv, InputInv
    <3>2. w \in Seq(Plain)
      BY <1>2, <3>1 DEF TextInv, Texts
    <3> HIDE DEF w
    <3> QED
      BY <3>2, PlainPadded
  <2>4. m' = After(k, w)
    BY <2>1 DEF After
  <2> HIDE DEF k, w
  <2>5. Tame(After(k, w)) /\ After(k, w).aligned = TRUE
    BY <2>2, <2>3, FoldTame
  <2> QED
    BY <1>1, <2>4, <2>5 DEF RunInv
<1>4. CASE Run
  <2> DEFINE w == text[fn].body[pc].ins
  <2>1. /\ phase = "run" /\ pc \in DOMAIN text[fn].body
        /\ m' = FoldLeft(Exec, m, w)
    BY <1>4 DEF Run
  <2>2. Tame(m) /\ m.aligned = TRUE
    BY <2>1 DEF RunInv
  <2>3. w \in Seq(Lines) /\ Padded(w)
    <3>1. fn \in 1 .. Len(program)
      BY <1>2 DEF TextInv, FrameInv, InputInv
    <3>2. text[fn].body \in Seq(Chunk)
      BY <1>2, <3>1 DEF TextInv, Texts
    <3>3. text[fn].body[pc] \in Chunk
      <4> HIDE DEF w
      <4> QED
        BY <2>1, <3>2, SeqElement
    <3> QED
      BY <3>3 DEF Chunk
  <2>4. m' = After(m, w)
    BY <2>1 DEF After
  <2> HIDE DEF w
  <2>5. Tame(After(m, w)) /\ After(m, w).aligned = TRUE
    BY <2>2, <2>3, FoldTame
  <2> QED
    BY <1>1, <2>4, <2>5 DEF RunInv
<1>5. CASE UNCHANGED vars
  <2>1. UNCHANGED <<phase, m>>
    BY <1>5 DEF vars
  <2> QED
    BY <1>1, <2>1 DEF RunInv
<1>6. CASE phase' \notin {"run", "returned"}
  BY <1>1, <1>6 DEF RunInv
<1>7. ASSUME Next, ~ Enter, ~ Run PROVE phase' \notin {"run", "returned"}
  BY <1>7 DEF Next, BeginFunction, EndFunction, EmitMovOp, EmitBinaryOp, EmitMulDiv,
              EmitCmpOp, EmitLogicOp, EmitRtn, EmitParam, EmitCall, EmitArg, Put, Handles, inputs
<1> QED
  BY <1>3, <1>4, <1>5, <1>6, <1>7

(* For every program, every function of it that is called and every call   *)
(* it makes, rsp is a multiple of 16 when the call is executed: the `and'  *)
(* and the padding of emit_func_op, whatever the frame, what was pushed    *)
(* and the number of stack arguments.                                      *)
THEOREM CallsAlwaysAligned == Spec => []CallsAligned
<1>1. Init => RunInv
  BY TextInit DEF Init, RunInv
<1>2. RunInv => CallsAligned
  BY DEF RunInv, CallsAligned
<1> QED
  BY <1>1, <1>2, RunNext, PTL DEF Spec

-----------------------------------------------------------------------------
(***************************************************************************)
(* ReturnsToCaller.  What a function has to give back lies in registers it *)
(* does not use and in cells outside of the part of its frame where values *)
(* are kept: above rbp, and between that part and rsp, where the registers *)
(* it uses were pushed.  A calm instruction writes neither and leaves rsp  *)
(* alone.  The numbers are b, the bytes of a value, and F, those of the    *)
(* frame; S are the registers a function does not use.                     *)
(***************************************************************************)
Dst(b, F, S) ==
    {None} \cup {Reg(r) : r \in Regs \ S}
           \cup {Mem(a) : a \in {x \in Int : -F <= x /\ x + b <= 0}}

\* Where it may write at all.
Writable(b, F, S) == Dst(b, F, S) \cup {Ind(o) : o \in Opds}

CalmOps == {"mov", "add", "shl", "imul", "cltd", "idiv", "neg", "both", "cmp", "set", "jz",
            "jnz", "jn"}

Calm(b, F, S) ==
    {t \in Lines : /\ t.op \in CalmOps
                   /\ t.op = "cmp" \/ t.d \in Writable(b, F, S)}

Whole(k) == DOMAIN k = Fields /\ k.rsp \in Int /\ DOMAIN k.regs = Regs

\* From k to h the registers S and the cells C keep what they hold.
Spares(k, h, C, S) ==
    /\ Whole(h)
    /\ \A r \in S : h.regs[r] = k.regs[r]
    /\ \A a \in C : Cell(h, a) = Cell(k, a)

Outside(F, low) == {a \in Int : a >= Base \/ (low <= a /\ a < Base - F)}

Above(low) == {a \in Int : a >= low}

LEMMA SparesSteps ==
    ASSUME NEW k, NEW h, NEW j, NEW C, NEW D \in SUBSET C, NEW S,
           Spares(k, h, C, S), Spares(h, j, D, S)
    PROVE  Spares(k, j, D, S)
BY DEF Spares

LEMMA PokeSpares ==
    ASSUME NEW k, Whole(k), NEW a \in Int, NEW p, NEW bytes, NEW C, NEW S,
           a \notin C, bytes = 8 => a + 4 \notin C
    PROVE  Spares(k, Poke(k, a, p, bytes), C, S) /\ Poke(k, a, p, bytes).rsp = k.rsp
<1> DEFINE h == Poke(k, a, p, bytes)
           area == DOMAIN k.mem \cup {a} \cup (IF bytes = 8 THEN {a + 4} ELSE {})
           mem == [c \in area |->
                      IF c = a THEN p[1]
                      ELSE IF c = a + 4 /\ bytes = 8 THEN p[2] ELSE k.mem[c]]
<1>1. h = [k EXCEPT !.mem = mem]
  BY DEF Poke
<1>2. /\ a \in DOMAIN mem /\ mem[a] = p[1]
      /\ bytes = 8 => a + 4 \in DOMAIN mem /\ mem[a + 4] = p[2]
  OBVIOUS
<1>3. \A c \in C : /\ c \in DOMAIN mem <=> c \in DOMAIN k.mem
                   /\ c \in DOMAIN mem => mem[c] = k.mem[c]
  OBVIOUS
<1> HIDE DEF mem, h
<1>4. /\ DOMAIN h = Fields /\ h.mem = mem /\ h.rsp = k.rsp /\ h.rbp = k.rbp /\ h.regs = k.regs
  BY <1>1 DEF Whole, Fields
<1>5. \A c \in C : Cell(h, c) = Cell(k, c)
  BY <1>3, <1>4 DEF Cell
<1> QED
  BY <1>4, <1>5 DEF Whole, Spares, h

LEMMA PokeStores ==
    ASSUME NEW k, Whole(k), NEW a \in Int, NEW p
    PROVE  /\ Poke(k, a, p, 8).regs = k.regs /\ Poke(k, a, p, 8).rbp = k.rbp
           /\ At(Poke(k, a, p, 8), a) = <<p[1], p[2]>>
<1> DEFINE h == Poke(k, a, p, 8)
           area == DOMAIN k.mem \cup {a} \cup {a + 4}
           mem == [c \in area |->
                      IF c = a THEN p[1]
                      ELSE IF c = a + 4 THEN p[2] ELSE k.mem[c]]
<1>1. h = [k EXCEPT !.mem = mem]
  BY DEF Poke
<1>2. /\ a \in DOMAIN mem /\ mem[a] = p[1]
      /\ a + 4 \in DOMAIN mem /\ mem[a + 4] = p[2]
  OBVIOUS
<1> HIDE DEF mem, h
<1>3. h.mem = mem /\ h.rbp = k.rbp /\ h.regs = k.regs
  BY <1>1 DEF Whole, Fields
<1>4. At(h, a) = <<p[1], p[2]>>
  BY <1>2, <1>3 DEF At, Cell
<1> QED
  BY <1>3, <1>4 DEF h

LEMMA FieldSpares ==
    ASSUME NEW k, Whole(k), NEW x, NEW C, NEW S
    PROVE  /\ x \in Int => /\ Spares(k, [k EXCEPT !.rsp = x], C, S)
                           /\ [k EXCEPT !.rsp = x].rsp = x
           /\ Spares(k, [k EXCEPT !.flags = x], C, S) /\ [k EXCEPT !.flags = x].rsp = k.rsp
           /\ Spares(k, [k EXCEPT !.events = x], C, S) /\ [k EXCEPT !.events = x].rsp = k.rsp
<1>1. x \in Int => Spares(k, [k EXCEPT !.rsp = x], C, S)
  <2> DEFINE h == [k EXCEPT !.rsp = x]
  <2>1. DOMAIN h = Fields /\ h.rsp = x /\ h.mem = k.mem /\ h.regs = k.regs
    BY DEF Whole, Fields
  <2> HIDE DEF h
  <2>2. x \in Int => Spares(k, h, C, S)
    BY <2>1 DEF Whole, Spares, Cell
  <2> QED
    BY <2>2 DEF h
<1>2. Spares(k, [k EXCEPT !.flags = x], C, S)
  <2> DEFINE h == [k EXCEPT !.flags = x]
  <2>1. DOMAIN h = Fields /\ h.rsp = k.rsp /\ h.mem = k.mem /\ h.regs = k.regs
    BY DEF Whole, Fields
  <2> HIDE DEF h
  <2>2. Spares(k, h, C, S)
    BY <2>1 DEF Whole, Spares, Cell
  <2> QED
    BY <2>2 DEF h
<1>3. Spares(k, [k EXCEPT !.events = x], C, S)
  <2> DEFINE h == [k EXCEPT !.events = x]
  <2>1. DOMAIN h = Fields /\ h.rsp = k.rsp /\ h.mem = k.mem /\ h.regs = k.regs
    BY DEF Whole, Fields
  <2> HIDE DEF h
  <2>2. Spares(k, h, C, S)
    BY <2>1 DEF Whole, Spares, Cell
  <2> QED
    BY <2>2 DEF h
<1>4. /\ [k EXCEPT !.rsp = x].rsp = x /\ [k EXCEPT !.flags = x].rsp = k.rsp
      /\ [k EXCEPT !.events = x].rsp = k.rsp
  BY DEF Whole, Fields
<1> QED
  BY <1>1, <1>2, <1>3, <1>4

SetRegister(k, r, x) == [k EXCEPT !.regs[r] = x]

LEMMA RegisterSpares ==
    ASSUME NEW k, Whole(k), NEW r, NEW x, NEW C, NEW S, r \notin S
    PROVE  /\ Spares(k, SetRegister(k, r, x), C, S) /\ SetRegister(k, r, x).rsp = k.rsp
           /\ r \in Regs => SetRegister(k, r, x).regs[r] = x
           /\ SetRegister(k, r, x).mem = k.mem
<1> DEFINE h == SetRegister(k, r, x)
<1>1. /\ DOMAIN h = Fields /\ h.rsp = k.rsp /\ h.mem = k.mem
      /\ h.regs = [k.regs EXCEPT ![r] = x]
  BY DEF Whole, Fields, SetRegister
<1>2. /\ DOMAIN h.regs = Regs /\ \A s \in S : h.regs[s] = k.regs[s]
      /\ r \in Regs => h.regs[r] = x
      /\ \A s \in Regs \ {r} : h.regs[s] = k.regs[s]
  BY <1>1 DEF Whole
<1> HIDE DEF h
<1>3. Spares(k, h, C, S)
  BY <1>1, <1>2 DEF Whole, Spares, Cell
<1> QED
  BY <1>1, <1>2, <1>3 DEF h

(* A value goes to a place where the function may write.                   *)
LEMMA DeliverSpares ==
    ASSUME NEW k, Whole(k), NEW b \in {4, 8}, NEW F \in Int, NEW low \in Int, NEW S,
           NEW o \in Writable(b, F, S), NEW p
    PROVE  Spares(k, Deliver(k, o, p, b), Outside(F, low), S) /\ Deliver(k, o, p, b).rsp = k.rsp
<1> DEFINE C == Outside(F, low)
<1>1. CASE o \in {Reg(r) : r \in Regs \ S}
  <2> DEFINE x == IF b = 8 THEN p ELSE <<p[1], Zero>>
  <2>1. PICK r \in Regs \ S : o = Reg(r)
    BY <1>1
  <2>2. "rsp" \notin Regs
    BY CallerSavedFacts DEF Regs, CalleeSaved
  <2>3. IsReg(o) /\ o # Reg("rsp") /\ o[2] = r /\ ~ IsMem(o)
    BY <2>1, <2>2 DEF IsReg, IsMem, Reg
  <2>4. Deliver(k, o, p, b) = SetRegister(k, r, x)
    BY <2>3 DEF Deliver, SetRegister
  <2> HIDE DEF x, C
  <2>5. Spares(k, SetRegister(k, r, x), C, S) /\ SetRegister(k, r, x).rsp = k.rsp
    <3>1. r \notin S
      BY <2>1
    <3> QED
      BY <3>1, RegisterSpares
  <2> QED
    BY <2>4, <2>5 DEF C
<1>2. CASE o \in {Mem(a) : a \in {x \in Int : -F <= x /\ x + b <= 0}}
  <2>1. PICK a \in Int : -F <= a /\ a + b <= 0 /\ o = Mem(a)
    BY <1>2
  <2>2. IsMem(o) /\ ~ IsReg(o) /\ o # Reg("rsp") /\ o[2] = a
    BY <2>1 DEF IsReg, IsMem, Reg, Mem
  <2>3. Deliver(k, o, p, b) = Poke(k, Base + a, p, b)
    BY <2>2 DEF Deliver
  <2> DEFINE e == Base + a
  <2>4. e \in Int /\ e \notin C /\ (b = 8 => e + 4 \notin C)
    BY <2>1 DEF Outside, Base
  <2> HIDE DEF C, e
  <2>5. Spares(k, Poke(k, e, p, b), C, S) /\ Poke(k, e, p, b).rsp = k.rsp
    <3>1. \A x \in Int : \A y : x \notin C /\ (y = 8 => x + 4 \notin C)
             => Spares(k, Poke(k, x, p, y), C, S) /\ Poke(k, x, p, y).rsp = k.rsp
      BY PokeSpares
    <3> QED
      BY <2>4, <3>1
  <2> QED
    BY <2>3, <2>5 DEF C, e
<1>3. CASE o = None \/ o \in {Ind(q) : q \in Opds}
  <2> DEFINE e == <<"store", Value(k.regs[o[2][2]]), Value(p)>>
  <2>1. ~ IsMem(o) /\ ~ IsReg(o) /\ o # Reg("rsp")
    BY <1>3 DEF IsReg, IsMem, Reg, None, Ind
  <2>2. Deliver(k, o, p, b) = [k EXCEPT !.events = Append(k.events, e)]
    BY <2>1 DEF Deliver, Event
  <2>3. \A y : Spares(k, [k EXCEPT !.events = y], C, S) /\ [k EXCEPT !.events = y].rsp = k.rsp
    BY FieldSpares
  <2> HIDE DEF e, C
  <2> QED
    BY <2>2, <2>3 DEF C
<1> QED
  BY <1>1, <1>2, <1>3 DEF Dst, Writable

LEMMA Scratch ==
    ASSUME NEW b, NEW F, NEW S \in SUBSET CalleeSaved
    PROVE  /\ Acc \in Dst(b, F, S) /\ Rem \in Dst(b, F, S) /\ Count \in Dst(b, F, S)
           /\ \A r \in ToSet(CallerSaved) : Reg(r) \in Dst(b, F, S)
           /\ \A o \in Dst(b, F, S) : o \in Writable(b, F, S)
           /\ \A o \in Opds : Ind(o) \in Writable(b, F, S)
<1>1. "rax" \in Regs \ S
  BY DEF Regs, CalleeSaved
<1>2. ASSUME NEW r \in ToSet(CallerSaved) PROVE r \in Regs \ S
  <2>1. \E k \in 1 .. 8 : r = CallerSaved[k]
    BY CallerSavedFacts
  <2>2. r \in {"r10", "r11", "r8", "r9", "rcx", "rdi", "rdx", "rsi"}
    BY <2>1 DEF CallerSaved
  <2> QED
    BY <2>2 DEF Regs, CalleeSaved
<1>3. "rdx" \in ToSet(CallerSaved) /\ "rcx" \in ToSet(CallerSaved)
  <2>1. CallerSaved[5] = "rcx" /\ CallerSaved[7] = "rdx"
    BY DEF CallerSaved
  <2>2. 5 \in 1 .. 8 /\ 7 \in 1 .. 8
    OBVIOUS
  <2> QED
    BY <2>1, <2>2, CallerSavedFacts
<1> QED
  BY <1>1, <1>2, <1>3 DEF Dst, Acc, Rem, Count, Writable

LEMMA PutSpares ==
    ASSUME NEW k, Whole(k), width \in {4, 8}, NEW F \in Int, NEW low \in Int, NEW S,
           NEW o \in Writable(width, F, S), NEW v
    PROVE  Spares(k, PutW(k, o, v), Outside(F, low), S) /\ PutW(k, o, v).rsp = k.rsp
BY DeliverSpares DEF PutW

(* A calm instruction.                                                     *)
LEMMA CalmStep ==
    ASSUME NEW k, Whole(k), width \in {4, 8}, NEW F \in Int, NEW low \in Int,
           NEW S \in SUBSET CalleeSaved, NEW t \in Calm(width, F, S)
    PROVE  Spares(k, Exec(k, t), Outside(F, low), S) /\ Exec(k, t).rsp = k.rsp
<1> DEFINE C == Outside(F, low)
           D == Writable(width, F, S)
<1>1. Acc \in D /\ Rem \in D
  BY Scratch
<1>2. t.op # "cmp" => t.d \in D
  BY DEF Calm
<1>3. \A o \in D : \A v : Spares(k, PutW(k, o, v), C, S) /\ PutW(k, o, v).rsp = k.rsp
  BY PutSpares
<1>4. \A o, q \in D : \A u, v : /\ Spares(k, PutW(PutW(k, o, u), q, v), C, S)
                                /\ PutW(PutW(k, o, u), q, v).rsp = k.rsp
  <2> SUFFICES ASSUME NEW o \in D, NEW q \in D, NEW u, NEW v
               PROVE  /\ Spares(k, PutW(PutW(k, o, u), q, v), C, S)
                      /\ PutW(PutW(k, o, u), q, v).rsp = k.rsp
    OBVIOUS
  <2> DEFINE h == PutW(k, o, u)
  <2>1. Spares(k, h, C, S) /\ h.rsp = k.rsp /\ Whole(h)
    BY <1>3 DEF Spares
  <2> HIDE DEF h
  <2>2. Spares(h, PutW(h, q, v), C, S) /\ PutW(h, q, v).rsp = h.rsp
    BY <2>1, PutSpares
  <2>3. Spares(k, PutW(h, q, v), C, S)
    BY <2>1, <2>2, SparesSteps
  <2> QED
    BY <2>1, <2>2, <2>3 DEF h
<1>5. \A y : /\ Spares(k, [k EXCEPT !.flags = y], C, S) /\ [k EXCEPT !.flags = y].rsp = k.rsp
             /\ Spares(k, Event(k, y), C, S) /\ Event(k, y).rsp = k.rsp
  BY FieldSpares DEF Event
<1> HIDE DEF C, D
<1>6. CASE t.op = "mov"
  <2>1. Exec(k, t) = Deliver(k, t.d, Fetch(k, t.s), width)
    BY <1>6 DEF Exec
  <2> QED
    BY <1>2, <1>6, <2>1, DeliverSpares DEF C, D
<1>7. CASE t.op \in {"add", "shl", "neg", "both", "set"}
  <2>1. \E v : Exec(k, t) = PutW(k, t.d, v)
    BY <1>7 DEF Exec
  <2> QED
    BY <1>2, <1>3, <1>7, <2>1 DEF C
<1>8. CASE t.op = "cltd"
  <2>1. \E v : Exec(k, t) = PutW(k, Rem, v)
    BY <1>8 DEF Exec
  <2> QED
    BY <1>1, <1>3, <2>1 DEF C
<1>9. CASE t.op = "imul"
  <2>1. \E u, v : Exec(k, t) = PutW(PutW(k, Rem, u), Acc, v)
    BY <1>9 DEF Exec
  <2> QED
    BY <1>1, <1>4, <2>1 DEF C
<1>10. CASE t.op = "idiv"
  <2>1. \E u, v : Exec(k, t) = PutW(PutW(k, Acc, u), Rem, v)
    BY <1>10 DEF Exec, Divided
  <2> QED
    BY <1>1, <1>4, <2>1 DEF C
<1>11. CASE t.op = "cmp"
  <2>1. Exec(k, t) = [k EXCEPT !.flags = <<ValueOf(k, t.d), ValueOf(k, t.s)>>]
    BY <1>11 DEF Exec
  <2> QED
    BY <1>5, <2>1 DEF C
<1>12. CASE t.op \in {"jz", "jnz", "jn"}
  <2>1. \E y : Exec(k, t) = Event(k, y)
    BY <1>12 DEF Exec
  <2> QED
    BY <1>5, <2>1 DEF C
<1> QED
  BY <1>6, <1>7, <1>8, <1>9, <1>10, <1>11, <1>12 DEF Calm, CalmOps

(* Counting up to n.                                                       *)
LEMMA CountUp ==
    ASSUME NEW n \in Nat, NEW P, 0 \in P, \A i \in 1 .. n : i - 1 \in P => i \in P
    PROVE  \A i \in 0 .. n : i \in P
<1> DEFINE Bad == {i \in 0 .. n : i \notin P}
<1>1. SUFFICES ASSUME Bad # {} PROVE FALSE
  OBVIOUS
<1>2. PICK i \in Bad : \A j \in Bad : i <= j
  <2>1. Bad \in SUBSET Nat
    OBVIOUS
  <2> HIDE DEF Bad
  <2> QED
    BY <1>1, <2>1, LeastNumber
<1>3. i \in 1 .. n /\ i - 1 \in 0 .. n /\ i - 1 \notin Bad
  <2>1. i \in 0 .. n /\ i # 0
    OBVIOUS
  <2> HIDE DEF Bad
  <2> QED
    BY <1>2, <2>1
<1> QED
  BY <1>3

(* K are the states the machine goes through.                              *)
Trace(K, k, w) ==
    /\ K[0] = k /\ After(k, w) = K[Len(w)]
    /\ \A i \in 1 .. Len(w) : K[i] = Exec(K[i - 1], w[i])

LEMMA Traced ==
    ASSUME NEW k, NEW w \in Seq(Lines)
    PROVE  \E K : Trace(K, k, w)
BY ExecFold DEF Trace

(* The text of a part after that of another.                               *)
LEMMA AfterParts ==
    ASSUME NEW k
    PROVE  /\ After(k, << >>) = k
           /\ \A t \in Lines : After(k, <<t>>) = Exec(k, t)
           /\ \A v, w \in Seq(Lines) : After(k, v \o w) = After(After(k, v), w)
<1>1. After(k, << >>) = k
  <2> DEFINE w == << >>
  <2>1. w \in Seq(Lines) /\ Len(w) = 0
    OBVIOUS
  <2> HIDE DEF w
  <2>2. PICK K : Trace(K, k, w)
    BY <2>1, Traced
  <2> QED
    BY <2>1, <2>2 DEF Trace, w
<1>2. ASSUME NEW t \in Lines PROVE After(k, <<t>>) = Exec(k, t)
  <2> DEFINE w == <<t>>
  <2>1. w \in Seq(Lines) /\ Len(w) = 1 /\ w[1] = t
    OBVIOUS
  <2> HIDE DEF w
  <2>2. PICK K : Trace(K, k, w)
    BY <2>1, Traced
  <2>3. K[1] = Exec(K[0], w[1])
    <3>1. 1 \in 1 .. Len(w) /\ 1 - 1 = 0
      BY <2>1
    <3>2. K[1] = Exec(K[1 - 1], w[1])
      BY <2>2, <3>1 DEF Trace
    <3> QED
      BY <3>1, <3>2
  <2> QED
    BY <2>1, <2>2, <2>3 DEF w, Trace
<1>3. ASSUME NEW v \in Seq(Lines), NEW w \in Seq(Lines)
      PROVE  After(k, v \o w) = After(After(k, v), w)
  <2> DEFINE q == v \o w
             h == After(k, v)
  <2>1. /\ q \in Seq(Lines) /\ Len(q) = Len(v) + Len(w) /\ Len(v) \in Nat /\ Len(w) \in Nat
        /\ \A i \in 1 .. Len(v) : q[i] = v[i]
        /\ \A i \in 1 .. Len(w) : q[Len(v) + i] = w[i]
    BY Concatenation
  <2> HIDE DEF q
  <2>2. PICK K : Trace(K, k, q)
    BY <2>1, Traced
  <2>3. PICK L : Trace(L, k, v)
    BY Traced
  <2> HIDE DEF h
  <2>4. PICK M : Trace(M, h, w)
    BY Traced
  <2>5. \A i \in 0 .. Len(v) : K[i] = L[i]
    <3> DEFINE P == {i \in 0 .. Len(v) : K[i] = L[i]}
    <3>1. 0 \in P
      BY <2>1, <2>2, <2>3 DEF Trace
    <3>2. ASSUME NEW i \in 1 .. Len(v), i - 1 \in P PROVE i \in P
      <4>1. i \in 1 .. Len(q) /\ i \in 0 .. Len(v)
        BY <2>1
      <4>2. K[i] = Exec(K[i - 1], v[i]) /\ L[i] = Exec(L[i - 1], v[i])
        BY <2>1, <2>2, <2>3, <4>1 DEF Trace
      <4> QED
        BY <3>2, <4>1, <4>2
    <3> HIDE DEF P
    <3>3. \A i \in 0 .. Len(v) : i \in P
      BY <2>1, <3>1, <3>2, CountUp
    <3> QED
      BY <3>3 DEF P
  <2>6. K[Len(v)] = h
    <3>1. Len(v) \in 0 .. Len(v)
      BY <2>1
    <3>2. h = L[Len(v)]
      BY <2>3 DEF Trace, h
    <3> QED
      BY <2>5, <3>1, <3>2
  <2>7. \A i \in 0 .. Len(w) : K[Len(v) + i] = M[i]
    <3> DEFINE P == {i \in 0 .. Len(w) : K[Len(v) + i] = M[i]}
    <3>1. 0 \in P
      BY <2>1, <2>4, <2>6 DEF Trace
    <3>2. ASSUME NEW i \in 1 .. Len(w), i - 1 \in P PROVE i \in P
      <4>1. Len(v) + i \in 1 .. Len(q) /\ i \in 0 .. Len(w)
            /\ (Len(v) + i) - 1 = Len(v) + (i - 1)
        BY <2>1
      <4>2. K[Len(v) + i] = Exec(K[(Len(v) + i) - 1], q[Len(v) + i])
        BY <2>2, <4>1 DEF Trace
      <4>3. M[i] = Exec(M[i - 1], w[i]) /\ q[Len(v) + i] = w[i]
        BY <2>1, <2>4 DEF Trace
      <4> QED
        BY <3>2, <4>1, <4>2, <4>3
    <3> HIDE DEF P
    <3>3. \A i \in 0 .. Len(w) : i \in P
      BY <2>1, <3>1, <3>2, CountUp
    <3> QED
      BY <3>3 DEF P
  <2>8. K[Len(q)] = M[Len(w)]
    BY <2>1, <2>7
  <2> QED
    BY <2>2, <2>4, <2>8 DEF q, h, Trace
<1> QED
  BY <1>1, <1>2, <1>3

LEMMA CalmRun ==
    ASSUME NEW k, Whole(k), width \in {4, 8}, NEW F \in Int, NEW low \in Int,
           NEW S \in SUBSET CalleeSaved, NEW w \in Seq(Calm(width, F, S))
    PROVE  /\ Spares(k, After(k, w), Outside(F, low), S) /\ After(k, w).rsp = k.rsp
           /\ Whole(After(k, w))
<1> DEFINE C == Outside(F, low)
<1>1. w \in Seq(Lines)
  BY DEF Calm
<1>2. PICK K : Trace(K, k, w)
  BY <1>1, Traced
<1>3. Len(w) \in Nat /\ \A i \in 1 .. Len(w) : w[i] \in Calm(width, F, S)
  OBVIOUS
<1> HIDE DEF C
<1> DEFINE P == {i \in 0 .. Len(w) : Spares(k, K[i], C, S) /\ K[i].rsp = k.rsp}
<1>4. 0 \in P
  BY <1>2, <1>3 DEF Spares, Trace
<1>5. ASSUME NEW i \in 1 .. Len(w), i - 1 \in P PROVE i \in P
  <2>1. Spares(k, K[i - 1], C, S) /\ K[i - 1].rsp = k.rsp /\ Whole(K[i - 1])
    BY <1>5 DEF Spares
  <2>2. K[i] = Exec(K[i - 1], w[i]) /\ w[i] \in Calm(width, F, S) /\ i \in 0 .. Len(w)
    BY <1>2, <1>3 DEF Trace
  <2>3. Spares(K[i - 1], K[i], C, S) /\ K[i].rsp = K[i - 1].rsp
    <3>1. \A h : Whole(h) => Spares(h, Exec(h, w[i]), C, S) /\ Exec(h, w[i]).rsp = h.rsp
      BY <2>2, CalmStep DEF C
    <3> QED
      BY <2>1, <2>2, <3>1
  <2>4. Spares(k, K[i], C, S)
    BY <2>1, <2>3, SparesSteps
  <2> QED
    BY <2>1, <2>2, <2>3, <2>4
<1> HIDE DEF P
<1>6. \A i \in 0 .. Len(w) : i \in P
  BY <1>3, <1>4, <1>5, CountUp
<1>7. Len(w) \in P
  BY <1>3, <1>6
<1> QED
  BY <1>2, <1>7 DEF P, C, Spares, Trace

LEMMA FarPokes ==
    ASSUME NEW k, Whole(k), NEW a \in Int, NEW p, NEW C, NEW S, a \notin C, a + 4 \notin C
    PROVE  Spares(k, Poke(k, a, p, 8), C, S) /\ Poke(k, a, p, 8).rsp = k.rsp
<1> DEFINE b == 8
<1>1. b = 8 => a + 4 \notin C
  OBVIOUS
<1> HIDE DEF b
<1>2. Spares(k, Poke(k, a, p, b), C, S) /\ Poke(k, a, p, b).rsp = k.rsp
  BY <1>1, PokeSpares
<1> QED
  BY <1>2 DEF b

(* Registers are pushed one below the other.                               *)
LEMMA PushRun ==
    ASSUME NEW k, Whole(k), NEW w \in Seq(Lines), \A j \in 1 .. Len(w) : w[j].op = "push"
    PROVE  /\ After(k, w).rsp = k.rsp - 8 * Len(w)
           /\ After(k, w).regs = k.regs
           /\ Spares(k, After(k, w), Above(k.rsp), Regs)
           /\ \A j \in 1 .. Len(w) : \A r \in Regs :
                  w[j].s = Reg(r)
                      => At(After(k, w), k.rsp - 8 * j) = <<k.regs[r][1], k.regs[r][2]>>
<1> DEFINE n == Len(w)
<1>1. n \in Nat /\ \A i \in 1 .. n : w[i] \in Lines /\ w[i].op = "push"
  OBVIOUS
<1>2. PICK K : Trace(K, k, w)
  BY Traced
<1> HIDE DEF n
<1> DEFINE Good(i) == /\ K[i].rsp = k.rsp - 8 * i /\ K[i].regs = k.regs
                      /\ Spares(k, K[i], Above(k.rsp), Regs)
                      /\ \A j \in 1 .. i : \A r \in Regs :
                            w[j].s = Reg(r)
                              => At(K[i], k.rsp - 8 * j) = <<k.regs[r][1], k.regs[r][2]>>
           P == {i \in 0 .. n : Good(i)}
<1>3. K[0] = k /\ After(k, w) = K[n] /\ \A i \in 1 .. n : K[i] = Exec(K[i - 1], w[i])
  BY <1>2 DEF Trace, n
<1>4. 0 \in P
  BY <1>1, <1>3 DEF Spares, Whole
<1>5. ASSUME NEW i \in 1 .. n, i - 1 \in P PROVE i \in P
  <2> DEFINE h == K[i - 1]
             p == Fetch(h, w[i].s)
             e == h.rsp - 8
             y == [h EXCEPT !.rsp = e]
  <2>1. Good(i - 1) /\ i - 1 \in 0 .. n
    BY <1>5
  <2>2. Whole(h) /\ h.rsp \in Int /\ k.rsp \in Int /\ e = k.rsp - 8 * i /\ e \in Int
    BY <1>1, <2>1 DEF Spares, Whole
  <2>3. K[i] = Poke(y, e, p, 8)
    BY <1>1, <1>3 DEF Exec
  <2>4. y.rsp = e /\ Whole(y) /\ y.regs = h.regs /\ \A C : Spares(h, y, C, Regs)
    <3>1. y.rsp = e /\ DOMAIN y = Fields /\ y.regs = h.regs /\ y.mem = h.mem
      BY <2>2 DEF Whole, Fields
    <3> HIDE DEF y, e, h
    <3> QED
      BY <2>2, <3>1 DEF Whole, Spares, Cell
  <2> HIDE DEF p, e, y, h
  <2> DEFINE C == Above(h.rsp)
  <2>5. e \notin C /\ e + 4 \notin C
    BY <2>2 DEF Above, e
  <2> HIDE DEF C
  <2>6. Spares(y, K[i], C, Regs) /\ K[i].rsp = e
    <3>1. \A q, X, S : \A x \in Int : Whole(q) /\ x \notin X /\ x + 4 \notin X
             => Spares(q, Poke(q, x, p, 8), X, S) /\ Poke(q, x, p, 8).rsp = q.rsp
      BY FarPokes
    <3> QED
      BY <2>2, <2>3, <2>4, <2>5, <3>1
  <2>7. K[i].regs = h.regs /\ At(K[i], e) = <<p[1], p[2]>>
    <3>1. \A q, x : Whole(q) /\ x \in Int => /\ Poke(q, x, p, 8).regs = q.regs
                                             /\ At(Poke(q, x, p, 8), x) = <<p[1], p[2]>>
      BY PokeStores
    <3> QED
      BY <2>2, <2>3, <2>4, <3>1
  <2>8. Spares(h, K[i], C, Regs)
    BY <2>4, <2>6, SparesSteps
  <2>9. Spares(k, K[i], Above(k.rsp), Regs)
    <3>1. Above(k.rsp) \subseteq C
      BY <2>1, <2>2 DEF Above, C, h
    <3>2. Spares(k, h, Above(k.rsp), Regs)
      BY <2>1 DEF h
    <3>3. Spares(h, K[i], Above(k.rsp), Regs)
      BY <2>8, <3>1 DEF Spares
    <3> QED
      BY <3>2, <3>3, SparesSteps
  <2>10. ASSUME NEW j \in 1 .. i, NEW r \in Regs, w[j].s = Reg(r)
         PROVE  At(K[i], k.rsp - 8 * j) = <<k.regs[r][1], k.regs[r][2]>>
    <3>1. CASE j = i
      <4>1. r # "rsp"
        BY CallerSavedFacts DEF Regs, CalleeSaved
      <4>2. IsReg(Reg(r)) /\ ~ IsImm(Reg(r)) /\ ~ IsMem(Reg(r)) /\ Reg(r)[2] = r
        BY DEF IsReg, IsImm, IsMem, Reg
      <4>3. p = h.regs[r]
        <5>1. p = Fetch(h, Reg(r))
          BY <2>10, <3>1 DEF p
        <5> QED
          BY <4>1, <4>2, <5>1 DEF Fetch
      <4>4. p = k.regs[r]
        BY <2>1, <4>3 DEF h
      <4> QED
        BY <2>2, <2>7, <3>1, <4>4
    <3>2. CASE j # i
      <4> DEFINE a == k.rsp - 8 * j
      <4>1. j \in 1 .. i - 1
        BY <3>2
      <4>2. At(h, a) = <<k.regs[r][1], k.regs[r][2]>>
        BY <2>1, <2>10, <4>1 DEF h
      <4>3. a \in C /\ a + 4 \in C
        BY <2>1, <2>2, <4>1 DEF C, Above, h
      <4> HIDE DEF a
      <4>4. At(K[i], a) = At(h, a)
        BY <2>8, <4>3 DEF Spares, At
      <4> QED
        BY <4>2, <4>4 DEF a
    <3> QED
      BY <3>1, <3>2
  <2>11. K[i].rsp = k.rsp - 8 * i /\ K[i].regs = k.regs /\ i \in 0 .. n
    BY <2>1, <2>2, <2>6, <2>7 DEF h
  <2> QED
    BY <2>9, <2>10, <2>11
<1> HIDE DEF P
<1>6. n \in P
  <2>1. \A i \in 0 .. n : i \in P
    BY <1>1, <1>4, <1>5, CountUp
  <2> QED
    BY <1>1, <2>1
<1> QED
  BY <1>3, <1>6 DEF P, n

LEMMA AfterTwo ==
    ASSUME NEW k, NEW x \in Lines, NEW y \in Lines
    PROVE  After(k, <<x, y>>) = Exec(Exec(k, x), y)
<1> DEFINE w == <<x, y>>
<1>1. w \in Seq(Lines) /\ Len(w) = 2 /\ w[1] = x /\ w[2] = y
  OBVIOUS
<1> HIDE DEF w
<1>2. PICK K : Trace(K, k, w)
  BY <1>1, Traced
<1>3. K[1 - 1] = k
  BY <1>2 DEF Trace
<1>4. K[1] = Exec(K[1 - 1], w[1]) /\ K[2] = Exec(K[2 - 1], w[2]) /\ After(k, w) = K[2]
  <2>1. 1 \in 1 .. 2 /\ 2 \in 1 .. 2
    OBVIOUS
  <2> QED
    BY <1>1, <1>2, <2>1 DEF Trace
<1>5. 2 - 1 = 1
  OBVIOUS
<1> QED
  BY <1>1, <1>3, <1>4, <1>5 DEF w

LEMMA AfterThree ==
    ASSUME NEW k, NEW x \in Lines, NEW y \in Lines, NEW z \in Lines
    PROVE  After(k, <<x, y, z>>) = Exec(Exec(Exec(k, x), y), z)
<1> DEFINE w == <<x, y, z>>
<1>1. w \in Seq(Lines) /\ Len(w) = 3 /\ w[1] = x /\ w[2] = y /\ w[3] = z
  OBVIOUS
<1> HIDE DEF w
<1>2. PICK K : Trace(K, k, w)
  BY <1>1, Traced
<1>3. K[1 - 1] = k
  BY <1>2 DEF Trace
<1>4. /\ K[1] = Exec(K[1 - 1], w[1]) /\ K[2] = Exec(K[2 - 1], w[2])
      /\ K[3] = Exec(K[3 - 1], w[3]) /\ After(k, w) = K[3]
  <2>1. 1 \in 1 .. 3 /\ 2 \in 1 .. 3 /\ 3 \in 1 .. 3
    OBVIOUS
  <2> QED
    BY <1>1, <1>2, <2>1 DEF Trace
<1>5. 2 - 1 = 1 /\ 3 - 1 = 2
  OBVIOUS
<1> QED
  BY <1>1, <1>3, <1>4, <1>5 DEF w

LEMMA SpMoves ==
    ASSUME NEW k, Whole(k), NEW C, NEW S, NEW p \in Int
    PROVE  /\ Exec(k, T("alignsp", None, None)).rsp <= k.rsp
           /\ Spares(k, Exec(k, T("alignsp", None, None)), C, S)
           /\ Exec(k, T("subsp", Imm(p), None)).rsp = k.rsp - p
           /\ Spares(k, Exec(k, T("subsp", Imm(p), None)), C, S)
<1>1. \A x \in Int : Spares(k, [k EXCEPT !.rsp = x], C, S) /\ [k EXCEPT !.rsp = x].rsp = x
  BY FieldSpares
<1>2. k.rsp \in Int
  BY DEF Whole
<1>3. k.rsp % 16 \in 0 .. 15
  BY <1>2
<1>4. k.rsp - (k.rsp % 16) \in Int /\ k.rsp - (k.rsp % 16) <= k.rsp /\ k.rsp - p \in Int
  BY <1>2, <1>3
<1>5. Exec(k, T("alignsp", None, None)) = [k EXCEPT !.rsp = k.rsp - (k.rsp % 16)]
  BY DEF Exec, T
<1>6. Exec(k, T("subsp", Imm(p), None)) = [k EXCEPT !.rsp = k.rsp - p]
  BY DEF Exec, T, Imm
<1> QED
  BY <1>1, <1>4, <1>5, <1>6

(* A function that is called keeps what lies above its arguments.          *)
LEMMA CallSpares ==
    ASSUME NEW k, Whole(k), NEW n \in Int, NEW low \in Int,
           n <= 6 => k.rsp <= low, n > 6 => k.rsp + 8 * (n - 6) <= low
    PROVE  Spares(k, AfterCall(k, n), Above(low), CalleeSaved)
<1> DEFINE args == IF n > 6 THEN 8 * (n - 6) ELSE 0
           old  == Event(k, <<"call", Arguments(k, n)>>)
           al   == old.aligned /\ k.rsp % 16 = 0
           mem  == [a \in {c \in DOMAIN old.mem : c >= k.rsp + args} |-> old.mem[a]]
           regs == [r \in Regs |->
                         IF r \in CalleeSaved THEN old.regs[r]
                         ELSE IF r = "rax" THEN Full(<<"result", Len(k.events)>>)
                         ELSE Full(<<"junk", Len(k.events)>>)]
           h == AfterCall(k, n)
<1>1. DOMAIN old = Fields /\ old.mem = k.mem /\ old.regs = k.regs /\ old.rsp = k.rsp
  BY DEF Event, Whole, Fields
<1>2. \A r \in CalleeSaved : regs[r] = k.regs[r]
  BY <1>1 DEF Regs
<1>3. \A a \in Above(low) : /\ a \in DOMAIN mem <=> a \in DOMAIN k.mem
                            /\ a \in DOMAIN mem => mem[a] = k.mem[a]
  <2>1. args \in Int /\ k.rsp \in Int /\ k.rsp + args <= low
    BY DEF Whole
  <2>2. \A a \in Above(low) : a >= k.rsp + args
    BY <2>1 DEF Above
  <2> QED
    BY <1>1, <2>2
<1>4. h = [old EXCEPT !.aligned = al, !.mem = mem, !.regs = regs]
  BY DEF AfterCall
<1>5. DOMAIN regs = Regs
  OBVIOUS
<1> HIDE DEF old, al, mem, regs, h
<1>6. DOMAIN h = Fields /\ h.mem = mem /\ h.regs = regs /\ h.rsp = k.rsp
  BY <1>1, <1>4 DEF Fields
<1> QED
  BY <1>2, <1>3, <1>5, <1>6 DEF Spares, Whole, Cell, h

(* A call: rsp is kept at top, the arguments u are pushed below.           *)
CallText(top, p, u, n, q) ==
    <<T("movq", Reg("rsp"), Mem(top)), T("alignsp", None, None), T("subsp", Imm(p), None)>>
    \o u
    \o <<T("call", Imm(n), None), T("subsp", Imm(q), None), T("movq", Mem(top), Reg("rsp"))>>

LEMMA StackLines ==
    ASSUME NEW a \in Int
    PROVE  /\ T("movq", Reg("rsp"), Mem(a)) \in Lines /\ T("movq", Mem(a), Reg("rsp")) \in Lines
           /\ T("alignsp", None, None) \in Lines
           /\ T("subsp", Imm(a), None) \in Lines /\ T("call", Imm(a), None) \in Lines
<1>1. Imm(a) \in Args /\ Imm(a) \in Numbers /\ Mem(a) \in Args /\ None \in Args /\ Reg("rsp") \in Args
  BY OperandForms
<1>2. \A op \in MachineOps : \A s, d \in Args :
          op \notin {"subsp", "call", "set"} => T(op, s, d) \in Lines
  BY DEF T, Lines
<1>3. \A op \in {"subsp", "call"} : \A s \in Numbers : T(op, s, None) \in Lines
  BY <1>1, OperandForms DEF T, Lines, MachineOps
<1> QED
  BY <1>1, <1>2, <1>3 DEF MachineOps

AllPushed(u) == \A j \in 1 .. Len(u) : u[j].op = "push"

LEMMA CallKeeps ==
    ASSUME NEW k, Whole(k), NEW F \in Int, NEW top \in Int, -F <= top, top + 8 <= 0,
           k.rsp <= Base - F, NEW p \in Nat, NEW n \in Int, NEW q \in Int,
           NEW u \in Seq(Lines), AllPushed(u), n - 6 <= Len(u)
    PROVE  /\ Spares(k, After(k, CallText(top, p, u, n, q)), Outside(F, k.rsp), CalleeSaved)
           /\ After(k, CallText(top, p, u, n, q)).rsp = k.rsp
<1> DEFINE t1 == T("movq", Reg("rsp"), Mem(top))
           t2 == T("alignsp", None, None)
           t3 == T("subsp", Imm(p), None)
           t4 == T("call", Imm(n), None)
           t5 == T("subsp", Imm(q), None)
           t6 == T("movq", Mem(top), Reg("rsp"))
           k1 == Exec(k, t1)
           k2 == Exec(k1, t2)
           k3 == Exec(k2, t3)
           k4 == After(k3, u)
           k5 == Exec(k4, t4)
           k6 == Exec(k5, t5)
           k7 == Exec(k6, t6)
           low == k.rsp
           C == Above(low)
           a == Base + top
<1> HIDE DEF k1, k2, k3, k4, k5, k6, k7, t1, t2, t3, t4, t5, t6
<1>1. After(k, CallText(top, p, u, n, q)) = k7
  <2> DEFINE x == <<t1, t2, t3>>
             y == <<t4, t5, t6>>
  <2>1. /\ t1 \in Lines /\ t2 \in Lines /\ t3 \in Lines
        /\ t4 \in Lines /\ t5 \in Lines /\ t6 \in Lines
    <3>1. \A e \in Int :
              /\ T("movq", Reg("rsp"), Mem(e)) \in Lines /\ T("movq", Mem(e), Reg("rsp")) \in Lines
              /\ T("alignsp", None, None) \in Lines
              /\ T("subsp", Imm(e), None) \in Lines /\ T("call", Imm(e), None) \in Lines
      BY StackLines
    <3> QED
      BY <3>1 DEF t1, t2, t3, t4, t5, t6
  <2>2. CallText(top, p, u, n, q) = x \o u \o y
    BY DEF CallText, t1, t2, t3, t4, t5, t6
  <2>3. x \in Seq(Lines) /\ y \in Seq(Lines) /\ x \o u \in Seq(Lines)
    BY <2>1, Tuples
  <2>8. \A h : \A a1, a2, a3 \in Lines :
            After(h, <<a1, a2, a3>>) = Exec(Exec(Exec(h, a1), a2), a3)
    BY AfterThree
  <2>9. \A h : \A v, w \in Seq(Lines) : After(h, v \o w) = After(After(h, v), w)
    BY AfterParts
  <2>4. After(k, x) = k3
    BY <2>1, <2>8 DEF k1, k2, k3
  <2>5. After(k4, y) = k7
    BY <2>1, <2>8 DEF k5, k6, k7
  <2> HIDE DEF x, y
  <2>6. After(k, x \o u) = k4
    BY <2>3, <2>4, <2>9 DEF k4
  <2>7. After(k, x \o u \o y) = After(After(k, x \o u), y)
    BY <2>3, <2>9
  <2> QED
    BY <2>2, <2>5, <2>6, <2>7
<1>2. low \in Int /\ a \in Int /\ a >= low /\ a < Base /\ Base - F <= a /\ a + 4 < Base
      /\ a \in C /\ a + 4 \in C
  BY DEF Base, Above, Whole
<1>3. /\ Spares(k, k1, Outside(F, low), CalleeSaved) /\ k1.rsp = low /\ Whole(k1)
      /\ At(k1, a) = <<Address(low), Address(low)>>
  <2> DEFINE v == Full(Address(low))
  <2>1. k1 = Poke(k, a, v, 8)
    <3>1. /\ IsReg(Reg("rsp")) /\ ~ IsImm(Reg("rsp")) /\ ~ IsMem(Reg("rsp"))
          /\ Reg("rsp")[2] = "rsp"
      BY DEF IsReg, IsImm, IsMem, Reg
    <3>2. Fetch(k, Reg("rsp")) = v
      BY <3>1 DEF Fetch
    <3>3. IsMem(Mem(top)) /\ ~ IsReg(Mem(top)) /\ Mem(top) # Reg("rsp") /\ Mem(top)[2] = top
      BY DEF IsReg, IsMem, Mem, Reg
    <3>4. \A y : Deliver(k, Mem(top), y, 8) = Poke(k, a, y, 8)
      BY <3>3 DEF Deliver
    <3>5. k1 = Deliver(k, Mem(top), Fetch(k, Reg("rsp")), 8)
      BY DEF Exec, T, k1, t1
    <3> QED
      BY <3>2, <3>4, <3>5
  <2>2. a \notin Outside(F, low) /\ a + 4 \notin Outside(F, low)
    <3> HIDE DEF a
    <3> QED
      BY <1>2 DEF Outside, Base
  <2>3. v[1] = Address(low) /\ v[2] = Address(low)
    BY DEF Full
  <2> HIDE DEF a, v
  <2>4. Spares(k, Poke(k, a, v, 8), Outside(F, low), CalleeSaved) /\ Poke(k, a, v, 8).rsp = k.rsp
    BY <1>2, <2>2, FarPokes
  <2>5. At(Poke(k, a, v, 8), a) = <<v[1], v[2]>>
    BY <1>2, PokeStores
  <2> QED
    BY <2>1, <2>3, <2>4, <2>5 DEF Spares
<1> HIDE DEF a
<1>4. Spares(k1, k2, C, CalleeSaved) /\ k2.rsp <= low /\ Whole(k2)
  <2>1. \A X, S : /\ Exec(k1, T("alignsp", None, None)).rsp <= k1.rsp
                  /\ Spares(k1, Exec(k1, T("alignsp", None, None)), X, S)
    BY <1>3, SpMoves
  <2> QED
    BY <1>3, <2>1 DEF Spares, k2, t2
<1>5. Spares(k2, k3, C, CalleeSaved) /\ k3.rsp = k2.rsp - p /\ Whole(k3)
  <2>1. \A X, S : /\ Exec(k2, T("subsp", Imm(p), None)).rsp = k2.rsp - p
                  /\ Spares(k2, Exec(k2, T("subsp", Imm(p), None)), X, S)
    BY <1>4, SpMoves
  <2> QED
    BY <2>1 DEF Spares, k3, t3
<1>6. k2.rsp \in Int /\ k3.rsp \in Int /\ k3.rsp <= low
  BY <1>2, <1>4, <1>5 DEF Whole
<1>7. Spares(k3, k4, C, CalleeSaved) /\ k4.rsp = k3.rsp - 8 * Len(u) /\ Whole(k4)
  <2>1. k4.rsp = k3.rsp - 8 * Len(u) /\ Spares(k3, k4, Above(k3.rsp), Regs)
    BY <1>5, PushRun DEF k4, AllPushed
  <2>2. C \subseteq Above(k3.rsp) /\ CalleeSaved \subseteq Regs
    BY <1>2, <1>6 DEF Above, Regs
  <2> QED
    BY <2>1, <2>2 DEF Spares
<1>8. Spares(k4, k5, C, CalleeSaved) /\ Whole(k5)
  <2>1. k5 = AfterCall(k4, n)
    BY DEF Exec, T, Imm, k5, t4
  <2>2. n <= 6 => k4.rsp <= low
    BY <1>2, <1>6, <1>7
  <2>3. n > 6 => k4.rsp + 8 * (n - 6) <= low
    BY <1>2, <1>6, <1>7
  <2>4. Spares(k4, AfterCall(k4, n), Above(low), CalleeSaved)
    BY <1>2, <1>7, <2>2, <2>3, CallSpares
  <2> QED
    BY <2>1, <2>4 DEF Spares
<1>9. Spares(k5, k6, C, CalleeSaved) /\ Whole(k6)
  <2>1. \A X, S : Spares(k5, Exec(k5, T("subsp", Imm(q), None)), X, S)
    BY <1>8, SpMoves
  <2> QED
    BY <2>1 DEF Spares, k6, t5
<1>10. Spares(k1, k6, C, CalleeSaved)
  <2>1. Spares(k1, k3, C, CalleeSaved)
    BY <1>4, <1>5, SparesSteps
  <2>2. Spares(k1, k4, C, CalleeSaved)
    BY <1>7, <2>1, SparesSteps
  <2>3. Spares(k1, k5, C, CalleeSaved)
    BY <1>8, <2>2, SparesSteps
  <2> QED
    BY <1>9, <2>3, SparesSteps
<1>11. k7 = [k6 EXCEPT !.rsp = low]
  <2>1. At(k6, a) = <<Address(low), Address(low)>>
    BY <1>2, <1>3, <1>10 DEF Spares, At
  <2>2. IsMem(Mem(top)) /\ ~ IsReg(Mem(top)) /\ ~ IsImm(Mem(top)) /\ Mem(top)[2] = top
    BY DEF IsReg, IsMem, IsImm, Mem
  <2>3. Fetch(k6, Mem(top)) = At(k6, a)
    BY <2>2 DEF Fetch, a
  <2>4. Join(At(k6, a)) = Address(low)
    BY <2>1 DEF Join
  <2>5. Address(low)[1] = "address" /\ Address(low)[2] = low
    BY DEF Address
  <2>6. \A x : Deliver(k6, Reg("rsp"), x, 8) =
                   [k6 EXCEPT !.rsp = IF Join(x)[1] = "address" THEN Join(x)[2] ELSE Lost]
    <3>1. Reg("rsp") = Reg("rsp") /\ ~ IsMem(Reg("rsp"))
      BY DEF IsMem, Reg
    <3> QED
      BY <3>1 DEF Deliver
  <2>7. k7 = Deliver(k6, Reg("rsp"), Fetch(k6, Mem(top)), 8)
    BY DEF Exec, T, k7, t6
  <2> QED
    BY <2>3, <2>4, <2>5, <2>6, <2>7
<1>12. Spares(k6, k7, C, CalleeSaved) /\ k7.rsp = low
  <2>1. \A X, S : /\ Spares(k6, [k6 EXCEPT !.rsp = low], X, S)
                  /\ [k6 EXCEPT !.rsp = low].rsp = low
    <3>1. \A h, X, S : \A x \in Int : Whole(h) => /\ Spares(h, [h EXCEPT !.rsp = x], X, S)
                                                  /\ [h EXCEPT !.rsp = x].rsp = x
      BY FieldSpares
    <3> QED
      BY <1>2, <1>9, <3>1
  <2> QED
    BY <1>11, <2>1
<1>13. Spares(k1, k7, C, CalleeSaved)
  BY <1>10, <1>12, SparesSteps
<1>14. Outside(F, low) \subseteq C
  BY <1>2 DEF Outside, Above, Base
<1>15. Spares(k1, k7, Outside(F, low), CalleeSaved)
  BY <1>13, <1>14 DEF Spares
<1>16. Spares(k, k7, Outside(F, low), CalleeSaved)
  BY <1>3, <1>15, SparesSteps
<1> QED
  BY <1>1, <1>12, <1>16

Pops(q)   == [j \in 1 .. Len(q) |-> T("pop", None, Reg(q[Len(q) + 1 - j]))]
Pushes(q) == [j \in 1 .. Len(q) |-> T("push", Reg(q[j]), None)]

LEMMA SavedLines ==
    ASSUME NEW q \in Seq(CalleeSaved)
    PROVE  /\ Pops(q) \in Seq(Lines) /\ Len(Pops(q)) = Len(q)
           /\ Pushes(q) \in Seq(Lines) /\ Len(Pushes(q)) = Len(q) /\ Len(q) \in Nat
           /\ \A j \in 1 .. Len(q) : /\ Pops(q)[j] = T("pop", None, Reg(q[Len(q) + 1 - j]))
                                     /\ Pushes(q)[j] = T("push", Reg(q[j]), None)
                                     /\ q[j] \in CalleeSaved /\ q[Len(q) + 1 - j] \in CalleeSaved
<1>1. \A r \in CalleeSaved : T("pop", None, Reg(r)) \in Lines /\ T("push", Reg(r), None) \in Lines
  <2>1. \A r \in CalleeSaved : r \in Regs /\ Reg(r) \in Args
    BY OperandForms DEF Regs
  <2> QED
    BY <2>1, OperandForms DEF T, Lines, MachineOps
<1>2. Len(q) \in Nat /\ \A j \in 1 .. Len(q) : q[j] \in CalleeSaved /\ q[Len(q) + 1 - j] \in CalleeSaved
  OBVIOUS
<1>3. Pops(q) \in [1 .. Len(q) -> Lines] /\ Pushes(q) \in [1 .. Len(q) -> Lines]
  BY <1>1, <1>2 DEF Pops, Pushes
<1>4. \A f \in [1 .. Len(q) -> Lines] : f \in Seq(Lines) /\ Len(f) = Len(q)
  BY <1>2
<1>5. \A j \in 1 .. Len(q) : /\ Pops(q)[j] = T("pop", None, Reg(q[Len(q) + 1 - j]))
                             /\ Pushes(q)[j] = T("push", Reg(q[j]), None)
  BY DEF Pops, Pushes
<1> QED
  BY <1>2, <1>3, <1>4, <1>5

(* A register that is popped.                                              *)
LEMMA PopStep ==
    ASSUME NEW k, Whole(k), NEW r \in CalleeSaved
    PROVE  LET h == Exec(k, T("pop", None, Reg(r)))
           IN  /\ Whole(h) /\ h.rsp = k.rsp + 8 /\ h.mem = k.mem
               /\ h.regs[r] = At(k, k.rsp)
               /\ \A s \in Regs \ {r} : h.regs[s] = k.regs[s]
<1> DEFINE h == Exec(k, T("pop", None, Reg(r)))
           x == k.rsp + 8
           y == [k EXCEPT !.rsp = x]
           p == At(k, k.rsp)
<1>1. r \in Regs /\ r # "rsp"
  BY DEF Regs, CalleeSaved
<1>2. IsReg(Reg(r)) /\ ~ IsMem(Reg(r)) /\ Reg(r)[2] = r /\ Reg(r) # Reg("rsp")
  BY <1>1 DEF IsReg, IsMem, Reg
<1>3. h = SetRegister(y, r, p)
  <2>1. h = Deliver(y, Reg(r), p, 8)
    BY DEF Exec, T
  <2> HIDE DEF h, y, p
  <2> QED
    BY <1>2, <2>1 DEF Deliver, SetRegister
<1>4. x \in Int
  BY DEF Whole
<1>5. Whole(y) /\ y.rsp = x /\ y.mem = k.mem /\ y.regs = k.regs
  <2>1. y.rsp = x /\ DOMAIN y = Fields /\ y.regs = k.regs /\ y.mem = k.mem
    BY DEF Whole, Fields
  <2> HIDE DEF y, x
  <2> QED
    BY <1>4, <2>1 DEF Whole
<1> HIDE DEF h, y, p, x
<1> DEFINE S == Regs \ {r}
<1>6. r \notin S
  OBVIOUS
<1> HIDE DEF S
<1>7. /\ Spares(y, SetRegister(y, r, p), {}, S) /\ SetRegister(y, r, p).rsp = y.rsp
      /\ r \in Regs => SetRegister(y, r, p).regs[r] = p
      /\ SetRegister(y, r, p).mem = y.mem
  <2>1. \A e, t, u, C, X : Whole(e) /\ t \notin X =>
            /\ Spares(e, SetRegister(e, t, u), C, X) /\ SetRegister(e, t, u).rsp = e.rsp
            /\ t \in Regs => SetRegister(e, t, u).regs[t] = u
            /\ SetRegister(e, t, u).mem = e.mem
    BY RegisterSpares
  <2>2. Whole(y) /\ r \notin S
    BY <1>5, <1>6
  <2> DEFINE C == {}
  <2> HIDE DEF C
  <2>3. /\ Spares(y, SetRegister(y, r, p), C, S) /\ SetRegister(y, r, p).rsp = y.rsp
        /\ r \in Regs => SetRegister(y, r, p).regs[r] = p
        /\ SetRegister(y, r, p).mem = y.mem
    BY <2>1, <2>2
  <2> QED
    BY <2>3 DEF C
<1> QED
  BY <1>1, <1>3, <1>5, <1>7 DEF Spares, h, x, p, S

LEMMA PopRun ==
    ASSUME NEW k, Whole(k), NEW q \in Seq(CalleeSaved),
           \A j \in 1 .. Len(q) :
               At(k, k.rsp + 8 * (j - 1)) = Full(<<"entry", q[Len(q) + 1 - j]>>)
    PROVE  LET h == After(k, Pops(q))
           IN  /\ Whole(h) /\ h.mem = k.mem
               /\ \A r \in CalleeSaved :
                      k.regs[r] = Full(<<"entry", r>>) \/ (\E j \in 1 .. Len(q) : q[j] = r)
                          => h.regs[r] = Full(<<"entry", r>>)
<1> DEFINE n == Len(q)
           w == Pops(q)
<1>1. /\ w \in Seq(Lines) /\ Len(w) = n /\ n \in Nat
      /\ \A j \in 1 .. n : w[j] = T("pop", None, Reg(q[n + 1 - j])) /\ q[n + 1 - j] \in CalleeSaved
  BY SavedLines
<1> HIDE DEF n, w
<1>2. PICK K : Trace(K, k, w)
  BY <1>1, Traced
<1>3. K[0] = k /\ After(k, w) = K[n] /\ \A i \in 1 .. n : K[i] = Exec(K[i - 1], w[i])
  BY <1>1, <1>2 DEF Trace
<1> DEFINE Good(i) ==
               /\ Whole(K[i]) /\ K[i].rsp = k.rsp + 8 * i /\ K[i].mem = k.mem
               /\ \A r \in CalleeSaved :
                      k.regs[r] = Full(<<"entry", r>>) \/ (\E j \in 1 .. i : q[n + 1 - j] = r)
                          => K[i].regs[r] = Full(<<"entry", r>>)
           P == {i \in 0 .. n : Good(i)}
<1>4. 0 \in P
  BY <1>1, <1>3 DEF Whole
<1>5. ASSUME NEW i \in 1 .. n, i - 1 \in P PROVE i \in P
  <2> DEFINE h == K[i - 1]
             s == q[n + 1 - i]
  <2>1. Good(i - 1) /\ i - 1 \in 0 .. n
    BY <1>5
  <2>2. s \in CalleeSaved /\ K[i] = Exec(h, T("pop", None, Reg(s))) /\ Whole(h)
    BY <1>1, <1>3, <2>1
  <2>3. At(h, h.rsp) = Full(<<"entry", s>>)
    <3>1. At(k, k.rsp + 8 * (i - 1)) = Full(<<"entry", s>>)
      BY DEF n
    <3>2. h.rsp = k.rsp + 8 * (i - 1) /\ h.mem = k.mem
      BY <2>1
    <3> HIDE DEF h, s
    <3> QED
      BY <3>1, <3>2 DEF At, Cell
  <2> HIDE DEF h, s
  <2>4. /\ Whole(K[i]) /\ K[i].rsp = h.rsp + 8 /\ K[i].mem = h.mem
        /\ K[i].regs[s] = At(h, h.rsp) /\ \A r \in Regs \ {s} : K[i].regs[r] = h.regs[r]
    <3>1. \A e : \A r \in CalleeSaved :
              Whole(e) => LET j == Exec(e, T("pop", None, Reg(r)))
                          IN  /\ Whole(j) /\ j.rsp = e.rsp + 8 /\ j.mem = e.mem
                              /\ j.regs[r] = At(e, e.rsp)
                              /\ \A t \in Regs \ {r} : j.regs[t] = e.regs[t]
      BY PopStep
    <3> QED
      BY <2>2, <3>1
  <2>5. K[i].rsp = k.rsp + 8 * i /\ K[i].mem = k.mem /\ i \in 0 .. n
    <3>1. h.rsp = k.rsp + 8 * (i - 1) /\ h.mem = k.mem /\ k.rsp \in Int
      BY <2>1 DEF h, Whole
    <3> QED
      BY <1>1, <2>4, <3>1
  <2>6. ASSUME NEW r \in CalleeSaved,
               k.regs[r] = Full(<<"entry", r>>) \/ (\E j \in 1 .. i : q[n + 1 - j] = r)
        PROVE  K[i].regs[r] = Full(<<"entry", r>>)
    <3>1. CASE r = s
      BY <2>3, <2>4, <3>1
    <3>2. CASE r # s
      <4>1. r \in Regs \ {s}
        BY <3>2 DEF Regs
      <4>2. k.regs[r] = Full(<<"entry", r>>) \/ (\E j \in 1 .. i - 1 : q[n + 1 - j] = r)
        BY <1>1, <2>6, <3>2 DEF s
      <4>3. h.regs[r] = Full(<<"entry", r>>)
        BY <2>1, <4>2 DEF h
      <4> QED
        BY <2>4, <4>1, <4>3
    <3> QED
      BY <3>1, <3>2
  <2> QED
    BY <2>4, <2>5, <2>6
<1> HIDE DEF P
<1>6. n \in P
  <2>1. \A i \in 0 .. n : i \in P
    BY <1>1, <1>4, <1>5, CountUp
  <2> QED
    BY <1>1, <2>1
<1>7. Good(n)
  BY <1>6 DEF P
<1>8. \A r : (\E j \in 1 .. n : q[j] = r) => \E j \in 1 .. n : q[n + 1 - j] = r
  <2> SUFFICES ASSUME NEW j \in 1 .. n PROVE \E i \in 1 .. n : q[n + 1 - i] = q[j]
    OBVIOUS
  <2>1. n + 1 - j \in 1 .. n /\ n + 1 - (n + 1 - j) = j
    BY <1>1
  <2> QED
    BY <2>1
<1> QED
  BY <1>3, <1>7, <1>8 DEF n, w

(* What holds while a function runs: F are the bytes of its frame, q the   *)
(* registers it has pushed, S those it does not use, e what it was called  *)
(* with.                                                                   *)
Held(k, F, q, S, e) ==
    /\ Whole(k) /\ k.rsp = Base - F - 8 * Len(q)
    /\ \A r \in S : k.regs[r] = Full(<<"entry", r>>)
    /\ \A j \in 1 .. Len(q) : At(k, Base - F - 8 * j) = Full(<<"entry", q[j]>>)
    /\ At(k, Base) = Full(<<"entry", "rbp">>)
    /\ \A a \in Above(Base + 8) : Cell(k, a) = Cell(e, a)

(* What holds when it has returned.                                        *)
Back(k, e) ==
    /\ \A r \in CalleeSaved : k.regs[r] = Full(<<"entry", r>>)
    /\ k.rsp = 0 /\ k.rbp = <<"entry", "rbp">> /\ k.returned = <<"caller">>
    /\ \A a \in Above(Base + 8) : Cell(k, a) = Cell(e, a)

LEMMA HeldSpares ==
    ASSUME NEW k, NEW h, NEW F \in Nat, NEW q \in Seq(CalleeSaved), NEW S, NEW e,
           Held(k, F, q, S, e), Spares(k, h, Outside(F, k.rsp), S), h.rsp = k.rsp
    PROVE  Held(h, F, q, S, e)
<1>1. Base = -16 /\ F \in Nat /\ Len(q) \in Nat /\ k.rsp = Base - F - 8 * Len(q)
  BY DEF Base, Held
<1>2. ASSUME NEW a \in Int, a >= Base \/ (k.rsp <= a /\ a < Base - F)
      PROVE  Cell(h, a) = Cell(k, a)
  <2>1. a \in Outside(F, k.rsp)
    BY <1>2 DEF Outside
  <2> QED
    BY <2>1 DEF Spares
<1>3. ASSUME NEW j \in 1 .. Len(q)
      PROVE  At(h, Base - F - 8 * j) = At(k, Base - F - 8 * j)
  <2> DEFINE a == Base - F - 8 * j
  <2>1. /\ a \in Int /\ k.rsp <= a /\ a < Base - F
        /\ a + 4 \in Int /\ k.rsp <= a + 4 /\ a + 4 < Base - F
    BY <1>1
  <2> HIDE DEF a
  <2>2. At(h, a) = At(k, a)
    BY <1>2, <2>1 DEF At
  <2> QED
    BY <2>2 DEF a
<1>4. At(h, Base) = At(k, Base)
  <2>1. Base \in Int /\ Base + 4 \in Int /\ Base >= Base /\ Base + 4 >= Base
    BY <1>1
  <2> QED
    BY <1>2, <2>1 DEF At
<1>5. ASSUME NEW a \in Above(Base + 8) PROVE Cell(h, a) = Cell(k, a)
  <2>1. a \in Int /\ a >= Base
    BY <1>1 DEF Above
  <2> QED
    BY <1>2, <2>1
<1>6. Whole(h) /\ \A r \in S : h.regs[r] = k.regs[r]
  BY DEF Spares
<1> QED
  BY <1>3, <1>4, <1>5, <1>6 DEF Held

(* The end of a function.                                                  *)
LEMMA RtnRun ==
    ASSUME width \in {4, 8}, NEW k, NEW F \in Nat, NEW q \in Seq(CalleeSaved),
           NEW S \in SUBSET CalleeSaved, NEW e, Held(k, F, q, S, e),
           \A r \in CalleeSaved : r \in S \/ \E j \in 1 .. Len(q) : q[j] = r,
           \A a \in {-8, -4} : Cell(e, a) = <<"caller">>,
           NEW t \in Calm(width, F, S), NEW x \in Lines, NEW y \in Lines,
           x.op = "leave", y.op = "ret"
    PROVE  Back(After(k, <<t>> \o Pops(q) \o <<x, y>>), e)
<1> DEFINE k1 == Exec(k, t)
           k2 == After(k1, Pops(q))
           k3 == Exec(k2, x)
           k4 == Exec(k3, y)
<1> HIDE DEF k1, k2, k3, k4
<1>1. After(k, <<t>> \o Pops(q) \o <<x, y>>) = k4
  <2> DEFINE u == <<t>>
             v == Pops(q)
             w == <<x, y>>
  <2>1. t \in Lines
    BY DEF Calm
  <2>2. v \in Seq(Lines)
    BY SavedLines
  <2>3. u \in Seq(Lines) /\ w \in Seq(Lines) /\ u \o v \in Seq(Lines)
    <3> HIDE DEF v
    <3> QED
      BY <2>1, <2>2, Tuples
  <2>4. \A h : \A a, c \in Seq(Lines) : After(h, a \o c) = After(After(h, a), c)
    BY AfterParts
  <2>5. \A h : \A a \in Lines : After(h, <<a>>) = Exec(h, a)
    BY AfterParts
  <2>6. \A h : \A a, c \in Lines : After(h, <<a, c>>) = Exec(Exec(h, a), c)
    BY AfterTwo
  <2>7. After(k, u) = k1
    BY <2>1, <2>5 DEF k1
  <2>8. After(k2, w) = k4
    BY <2>6 DEF k3, k4
  <2>9. After(k1, v) = k2
    BY DEF k2
  <2> HIDE DEF u, v, w
  <2>10. After(k, u \o v) = k2
    BY <2>2, <2>3, <2>4, <2>7, <2>9
  <2>11. After(k, u \o v \o w) = k4
    BY <2>3, <2>4, <2>8, <2>10
  <2> QED
    BY <2>11 DEF u, v, w
<1>2. Held(k1, F, q, S, e)
  <2>1. Whole(k) /\ k.rsp \in Int
    BY DEF Held, Whole
  <2>2. Spares(k, k1, Outside(F, k.rsp), S) /\ k1.rsp = k.rsp
    BY <2>1, CalmStep DEF k1
  <2> QED
    BY <2>2, HeldSpares
<1>3. /\ Whole(k2) /\ k2.mem = k1.mem
      /\ \A r \in CalleeSaved :
             k1.regs[r] = Full(<<"entry", r>>) \/ (\E j \in 1 .. Len(q) : q[j] = r)
                 => k2.regs[r] = Full(<<"entry", r>>)
  <2>1. ASSUME NEW j \in 1 .. Len(q)
        PROVE  At(k1, k1.rsp + 8 * (j - 1)) = Full(<<"entry", q[Len(q) + 1 - j]>>)
    <3> DEFINE i == Len(q) + 1 - j
    <3>1. k1.rsp = Base - F - 8 * Len(q) /\ Base = -16 /\ F \in Nat /\ Len(q) \in Nat
      BY <1>2 DEF Held, Base
    <3>2. i \in 1 .. Len(q) /\ k1.rsp + 8 * (j - 1) = Base - F - 8 * i
      BY <3>1
    <3> HIDE DEF i
    <3>3. At(k1, Base - F - 8 * i) = Full(<<"entry", q[i]>>)
      BY <1>2, <3>2 DEF Held
    <3> QED
      BY <3>2, <3>3 DEF i
  <2>2. Whole(k1)
    BY <1>2 DEF Held
  <2> QED
    BY <2>1, <2>2, PopRun DEF k2
<1>4. \A a : Cell(k2, a) = Cell(k1, a)
  BY <1>3 DEF Cell
<1>5. \A r \in CalleeSaved : k2.regs[r] = Full(<<"entry", r>>)
  BY <1>2, <1>3 DEF Held
<1>6. /\ DOMAIN k3 = Fields /\ k3.mem = k2.mem /\ k3.regs = k2.regs /\ k3.rsp = -8
      /\ k3.rbp = <<"entry", "rbp">>
  <2>1. At(k2, Base) = Full(<<"entry", "rbp">>)
    BY <1>2, <1>4 DEF Held, At
  <2>2. Join(At(k2, Base)) = <<"entry", "rbp">>
    BY <2>1 DEF Join, Full
  <2>3. k3 = [k2 EXCEPT !.rsp = Base + 8, !.rbp = Join(At(k2, Base))]
    BY DEF Exec, k3
  <2>4. Base + 8 = -8
    BY DEF Base
  <2> QED
    BY <1>3, <2>2, <2>3, <2>4 DEF Whole, Fields
<1>7. /\ k4.mem = k2.mem /\ k4.regs = k2.regs /\ k4.rsp = 0
      /\ k4.rbp = <<"entry", "rbp">> /\ k4.returned = <<"caller">>
  <2>1. At(k3, -8) = <<Cell(e, -8), Cell(e, -4)>>
    <3>1. Cell(k3, -8) = Cell(k1, -8) /\ Cell(k3, -4) = Cell(k1, -4)
      BY <1>4, <1>6 DEF Cell
    <3>2. -8 \in Above(Base + 8) /\ -4 \in Above(Base + 8)
      BY DEF Above, Base
    <3>3. Cell(k1, -8) = Cell(e, -8) /\ Cell(k1, -4) = Cell(e, -4)
      BY <1>2, <3>2 DEF Held
    <3>4. (-8) + 4 = -4
      OBVIOUS
    <3> QED
      BY <3>1, <3>3, <3>4 DEF At
  <2>2. Join(At(k3, k3.rsp)) = <<"caller">>
    <3>1. Cell(e, -8) = <<"caller">> /\ Cell(e, -4) = <<"caller">>
      OBVIOUS
    <3> QED
      BY <1>6, <2>1, <3>1 DEF Join
  <2>3. k4 = [k3 EXCEPT !.rsp = k3.rsp + 8, !.returned = Join(At(k3, k3.rsp))]
    BY DEF Exec, k4
  <2>4. k3.rsp + 8 = 0
    BY <1>6
  <2> QED
    BY <1>6, <2>2, <2>3, <2>4 DEF Fields
<1>8. \A a \in Above(Base + 8) : Cell(k4, a) = Cell(e, a)
  BY <1>2, <1>4, <1>7 DEF Held, Cell
<1> QED
  BY <1>1, <1>5, <1>7, <1>8 DEF Back

(* The beginning of a function.                                            *)
LEMMA PrologueRun ==
    ASSUME width \in {4, 8}, NEW k, Whole(k), k.rsp = -8, k.rbp = <<"entry", "rbp">>,
           \A r \in CalleeSaved : k.regs[r] = Full(<<"entry", r>>),
           NEW F \in Nat, NEW q \in Seq(CalleeSaved), NEW v \in Seq(Calm(width, F, CalleeSaved)),
           NEW x \in Lines, x.op = "enter"
    PROVE  Held(After(k, <<x, T("subsp", Imm(F), None)>> \o v \o Pushes(q)), F, q, CalleeSaved, k)
<1> DEFINE y  == T("subsp", Imm(F), None)
           S  == CalleeSaved
           k1 == Exec(k, x)
           k2 == Exec(k1, y)
           k3 == After(k2, v)
           k4 == After(k3, Pushes(q))
           C  == Above(Base + 8)
<1> HIDE DEF k1, k2, k3, k4, y, C, S
<1>1. After(k, <<x, y>> \o v \o Pushes(q)) = k4
  <2> DEFINE u == <<x, y>>
             w == Pushes(q)
  <2>1. F \in Int /\ y \in Lines /\ v \in Seq(Lines)
    <3>1. \A a \in Int : T("subsp", Imm(a), None) \in Lines
      BY StackLines
    <3>2. \A t \in Calm(width, F, CalleeSaved) : t \in Lines
      BY DEF Calm
    <3> QED
      BY <3>1, <3>2 DEF y
  <2>2. w \in Seq(Lines)
    BY SavedLines
  <2>3. u \in Seq(Lines) /\ u \o v \in Seq(Lines)
    <3> HIDE DEF w
    <3> QED
      BY <2>1, Tuples
  <2>4. \A h : \A a, c \in Seq(Lines) : After(h, a \o c) = After(After(h, a), c)
    BY AfterParts
  <2>5. \A h : \A a, c \in Lines : After(h, <<a, c>>) = Exec(Exec(h, a), c)
    BY AfterTwo
  <2>6. After(k, u) = k2
    BY <2>1, <2>5 DEF k1, k2
  <2>7. After(k3, w) = k4
    BY DEF k4
  <2> HIDE DEF u, w
  <2>8. After(k, u \o v) = k3
    BY <2>1, <2>3, <2>4, <2>6 DEF k3
  <2>9. After(k, u \o v \o w) = k4
    BY <2>2, <2>3, <2>4, <2>7, <2>8
  <2> QED
    BY <2>9 DEF u, w
<1>2. /\ Spares(k, k1, C, S) /\ k1.rsp = Base /\ At(k1, Base) = Full(<<"entry", "rbp">>)
  <2> DEFINE p == Full(<<"entry", "rbp">>)
             h == Poke(k, Base, p, 8)
  <2>1. k.rsp - 8 = Base /\ Base \in Int /\ Base \notin C /\ Base + 4 \notin C
    BY DEF Base, Above, C
  <2>2. k1 = [h EXCEPT !.rsp = Base, !.rbp = Address(Base)]
    BY <2>1 DEF Exec, k1
  <2>3. p[1] = <<"entry", "rbp">> /\ p[2] = <<"entry", "rbp">>
    BY DEF Full
  <2> HIDE DEF p
  <2>4. Spares(k, Poke(k, Base, p, 8), C, S) /\ Poke(k, Base, p, 8).rsp = k.rsp
    BY <2>1, FarPokes
  <2>5. At(Poke(k, Base, p, 8), Base) = <<p[1], p[2]>>
    BY <2>1, PokeStores
  <2> HIDE DEF h
  <2>6. DOMAIN h = Fields
    BY <2>4 DEF h, Spares, Whole
  <2>7. DOMAIN k1 = Fields /\ k1.rsp = Base /\ k1.mem = h.mem /\ k1.regs = h.regs
    BY <2>2, <2>6 DEF Fields
  <2>8. Spares(k, k1, C, S)
    BY <2>1, <2>4, <2>7 DEF Spares, Whole, Cell, h
  <2>9. At(k1, Base) = At(h, Base)
    BY <2>7 DEF At, Cell
  <2> QED
    BY <2>3, <2>5, <2>7, <2>8, <2>9 DEF h, Full
<1>3. /\ Whole(k2) /\ k2.rsp = Base - F /\ k2.rsp \in Int
      /\ \A X : Spares(k1, k2, X, S)
  <2>1. Whole(k1) /\ F \in Int
    BY <1>2 DEF Spares
  <2>2. \A X, Z : /\ Exec(k1, T("subsp", Imm(F), None)).rsp = k1.rsp - F
                  /\ Spares(k1, Exec(k1, T("subsp", Imm(F), None)), X, Z)
    BY <2>1, SpMoves
  <2> QED
    BY <1>2, <2>2 DEF Spares, Whole, k2, y
<1>4. Spares(k2, k3, Outside(F, k2.rsp), S) /\ k3.rsp = Base - F /\ Whole(k3)
  <2>1. S \in SUBSET CalleeSaved
    BY DEF S
  <2>2. v \in Seq(Calm(width, F, S)) /\ F \in Int
    BY DEF S
  <2>3. \A low \in Int : /\ Spares(k2, After(k2, v), Outside(F, low), S)
                         /\ After(k2, v).rsp = k2.rsp /\ Whole(After(k2, v))
    BY <1>3, <2>1, <2>2, CalmRun
  <2> QED
    BY <1>3, <2>3 DEF k3
<1>5. /\ k4.rsp = k3.rsp - 8 * Len(q) /\ k4.regs = k3.regs
      /\ Spares(k3, k4, Above(k3.rsp), Regs)
      /\ \A j \in 1 .. Len(q) : At(k4, k3.rsp - 8 * j) = <<k3.regs[q[j]][1], k3.regs[q[j]][2]>>
  <2> DEFINE w == Pushes(q)
  <2>1. /\ w \in Seq(Lines) /\ Len(w) = Len(q)
        /\ \A j \in 1 .. Len(q) : w[j] = T("push", Reg(q[j]), None) /\ q[j] \in CalleeSaved
    BY SavedLines
  <2> HIDE DEF w
  <2>2. \A j \in 1 .. Len(w) : w[j].op = "push" /\ w[j].s = Reg(q[j]) /\ q[j] \in Regs
    <3>1. \A a : T("push", a, None).op = "push" /\ T("push", a, None).s = a
      BY DEF T
    <3>2. \A r \in CalleeSaved : r \in Regs
      BY DEF Regs
    <3> QED
      BY <2>1, <3>1, <3>2
  <2>3. /\ After(k3, w).rsp = k3.rsp - 8 * Len(w)
        /\ After(k3, w).regs = k3.regs
        /\ Spares(k3, After(k3, w), Above(k3.rsp), Regs)
        /\ \A j \in 1 .. Len(w) : \A r \in Regs :
               w[j].s = Reg(r)
                   => At(After(k3, w), k3.rsp - 8 * j) = <<k3.regs[r][1], k3.regs[r][2]>>
    BY <1>4, <2>1, <2>2, PushRun
  <2> QED
    BY <2>1, <2>2, <2>3 DEF k4, w
<1>6. /\ Spares(k, k4, C, S) /\ Spares(k1, k4, {Base, Base + 4}, S)
  <2>1. C \subseteq Outside(F, k2.rsp) /\ C \subseteq Above(k3.rsp)
    BY <1>4 DEF C, Above, Outside, Base
  <2>2. {Base, Base + 4} \subseteq Outside(F, k2.rsp) /\ {Base, Base + 4} \subseteq Above(k3.rsp)
    BY <1>4 DEF Above, Outside, Base
  <2>3. S \subseteq Regs
    BY DEF Regs, S
  <2>4. \A X : X \subseteq Outside(F, k2.rsp) /\ X \subseteq Above(k3.rsp)
          => Spares(k2, k3, X, S) /\ Spares(k3, k4, X, S)
    BY <1>4, <1>5, <2>3 DEF Spares
  <2>5. \A X : X \subseteq Outside(F, k2.rsp) /\ X \subseteq Above(k3.rsp) => Spares(k1, k4, X, S)
    BY <1>3, <2>4 DEF Spares
  <2>6. Spares(k1, k4, C, S) /\ Spares(k1, k4, {Base, Base + 4}, S)
    BY <2>1, <2>2, <2>5
  <2> QED
    BY <1>2, <2>6 DEF Spares
<1>7. /\ Whole(k4) /\ k4.rsp = Base - F - 8 * Len(q)
      /\ \A a \in Above(Base + 8) : Cell(k4, a) = Cell(k, a)
      /\ \A r \in CalleeSaved : k4.regs[r] = Full(<<"entry", r>>)
  BY <1>4, <1>5, <1>6 DEF Spares, S, C
<1>8. At(k4, Base) = Full(<<"entry", "rbp">>)
  BY <1>2, <1>6 DEF Spares, At
<1>9. ASSUME NEW j \in 1 .. Len(q) PROVE At(k4, Base - F - 8 * j) = Full(<<"entry", q[j]>>)
  <2>1. q[j] \in CalleeSaved
    OBVIOUS
  <2>2. q[j] \in Regs
    BY <2>1 DEF Regs
  <2>3. k3.regs[q[j]] = Full(<<"entry", q[j]>>)
    BY <1>5, <1>7, <2>1
  <2> QED
    BY <1>4, <1>5, <2>3 DEF Full
<1> QED
  BY <1>1, <1>7, <1>8, <1>9 DEF Held, y

(***************************************************************************)
(* The texts of instructions: all calm, a shift that borrows the count     *)
(* register, a call among calm ones, the end of a function; and the text   *)
(* before them.                                                            *)
(***************************************************************************)
Borrows(b, F, S, c) ==
    \E x, y \in Calm(b, F, S) : c = <<T("push", Count, None), x, y, T("pop", None, Count)>>

Calls(b, F, S, c) ==
    \E v, w \in Seq(Calm(b, F, S)) : \E u \in Seq(Lines) : \E top, n, q \in Int : \E p \in Nat :
        /\ -F <= top /\ top + 8 <= 0 /\ n - 6 <= Len(u)
        /\ AllPushed(u)
        /\ c = v \o CallText(top, p, u, n, q) \o w

Quiet(b, F, S, c) == c \in Seq(Calm(b, F, S)) \/ Borrows(b, F, S, c) \/ Calls(b, F, S, c)

Leaves(b, F, S, q, c) ==
    \E t \in Calm(b, F, S) : \E x, y \in Lines :
        x.op = "leave" /\ y.op = "ret" /\ c = <<t>> \o Pops(q) \o <<x, y>>

Opens(b, F, q, c) ==
    \E x \in Lines : \E v \in Seq(Calm(b, F, CalleeSaved)) :
        x.op = "enter" /\ c = <<x, T("subsp", Imm(F), None)>> \o v \o Pushes(q)

LEMMA BorrowRun ==
    ASSUME width \in {4, 8}, NEW k, Whole(k), NEW F \in Nat, k.rsp <= Base - F,
           NEW S \in SUBSET CalleeSaved,
           NEW x \in Calm(width, F, S), NEW y \in Calm(width, F, S)
    PROVE  LET h == After(k, <<T("push", Count, None), x, y, T("pop", None, Count)>>)
           IN  Spares(k, h, Outside(F, k.rsp), S) /\ h.rsp = k.rsp
<1> DEFINE s == T("push", Count, None)
           t == T("pop", None, Count)
           w == <<s, x, y, t>>
           C == Outside(F, k.rsp)
           k1 == Exec(k, s)
           k2 == Exec(k1, x)
           k3 == Exec(k2, y)
           k4 == Exec(k3, t)
<1> HIDE DEF s, t, C, k1, k2, k3, k4
<1>1. s \in Lines /\ t \in Lines /\ x \in Lines /\ y \in Lines
  <2>1. Count \in Args /\ None \in Args
    BY OperandForms
  <2>2. s \in Lines /\ t \in Lines
    BY <2>1 DEF T, Lines, MachineOps, s, t
  <2> QED
    BY <2>2 DEF Calm
<1>2. After(k, w) = k4
  <2>1. w \in Seq(Lines) /\ Len(w) = 4 /\ w[1] = s /\ w[2] = x /\ w[3] = y /\ w[4] = t
    BY <1>1
  <2> HIDE DEF w
  <2>2. PICK K : Trace(K, k, w)
    BY <2>1, Traced
  <2>3. K[1 - 1] = k
    BY <2>2 DEF Trace
  <2>4. /\ K[1] = Exec(K[1 - 1], w[1]) /\ K[2] = Exec(K[2 - 1], w[2])
        /\ K[3] = Exec(K[3 - 1], w[3]) /\ K[4] = Exec(K[4 - 1], w[4]) /\ After(k, w) = K[4]
    <3>1. 1 \in 1 .. 4 /\ 2 \in 1 .. 4 /\ 3 \in 1 .. 4 /\ 4 \in 1 .. 4
      OBVIOUS
    <3> QED
      BY <2>1, <2>2, <3>1 DEF Trace
  <2>5. 2 - 1 = 1 /\ 3 - 1 = 2 /\ 4 - 1 = 3
    OBVIOUS
  <2> QED
    BY <2>1, <2>3, <2>4, <2>5 DEF k1, k2, k3, k4
<1>3. k.rsp \in Int /\ Base = -16 /\ F \in Int
  BY DEF Whole, Base
<1>4. Spares(k, k1, C, S) /\ k1.rsp = k.rsp - 8 /\ Whole(k1)
  <2> DEFINE e == k.rsp - 8
             z == [k EXCEPT !.rsp = e]
             p == Fetch(k, Count)
  <2>1. k1 = Poke(z, e, p, 8)
    BY DEF Exec, T, k1, s
  <2>2. e \in Int /\ e \notin C /\ e + 4 \notin C
    BY <1>3 DEF C, Outside
  <2> HIDE DEF e, p
  <2>3. Spares(k, z, C, S) /\ z.rsp = e
    BY <2>2, FieldSpares
  <2> HIDE DEF z
  <2>4. Spares(z, Poke(z, e, p, 8), C, S) /\ Poke(z, e, p, 8).rsp = z.rsp
    <3>1. Whole(z)
      BY <2>3 DEF Spares
    <3> QED
      BY <2>2, <3>1, FarPokes
  <2>5. Spares(k, k1, C, S)
    BY <2>1, <2>3, <2>4, SparesSteps
  <2> QED
    BY <2>1, <2>3, <2>4, <2>5 DEF e, Spares
<1>5. Spares(k1, k2, C, S) /\ k2.rsp = k1.rsp /\ Whole(k2)
  <2>1. \A low \in Int : Spares(k1, Exec(k1, x), Outside(F, low), S) /\ Exec(k1, x).rsp = k1.rsp
    BY <1>3, <1>4, CalmStep
  <2> QED
    BY <1>3, <2>1 DEF k2, C, Spares
<1>6. Spares(k2, k3, C, S) /\ k3.rsp = k2.rsp /\ Whole(k3)
  <2>1. \A low \in Int : Spares(k2, Exec(k2, y), Outside(F, low), S) /\ Exec(k2, y).rsp = k2.rsp
    BY <1>3, <1>5, CalmStep
  <2> QED
    BY <1>3, <2>1 DEF k3, C, Spares
<1>7. Spares(k3, k4, C, S) /\ k4.rsp = k3.rsp + 8
  <2> DEFINE e == k3.rsp + 8
             z == [k3 EXCEPT !.rsp = e]
             p == At(k3, k3.rsp)
  <2>1. k4 = SetRegister(z, "rcx", p)
    <3>1. IsReg(Count) /\ ~ IsMem(Count) /\ Count[2] = "rcx" /\ Count # Reg("rsp")
      BY DEF IsReg, IsMem, Reg, Count
    <3>2. k4 = Deliver(z, Count, p, 8)
      BY DEF Exec, T, k4, t
    <3> HIDE DEF z, p
    <3> QED
      BY <3>1, <3>2 DEF Deliver, SetRegister
  <2>2. e \in Int
    BY <1>6 DEF Whole
  <2> HIDE DEF e, p
  <2>3. Spares(k3, z, C, S) /\ z.rsp = e
    BY <1>6, <2>2, FieldSpares
  <2> HIDE DEF z
  <2>4. Spares(z, SetRegister(z, "rcx", p), C, S) /\ SetRegister(z, "rcx", p).rsp = z.rsp
    <3>1. Whole(z) /\ "rcx" \notin S
      BY <2>3 DEF Spares, CalleeSaved
    <3>2. \A i, a, c, D, X : Whole(i) /\ a \notin X =>
              Spares(i, SetRegister(i, a, c), D, X) /\ SetRegister(i, a, c).rsp = i.rsp
      BY RegisterSpares
    <3> QED
      BY <3>1, <3>2
  <2>5. Spares(k3, k4, C, S)
    BY <2>1, <2>3, <2>4, SparesSteps
  <2> QED
    BY <2>1, <2>3, <2>4, <2>5 DEF e
<1>8. k4.rsp = k.rsp
  BY <1>3, <1>4, <1>5, <1>6, <1>7
<1>9. Spares(k, k2, C, S)
  BY <1>4, <1>5, SparesSteps
<1>10. Spares(k, k3, C, S)
  BY <1>6, <1>9, SparesSteps
<1>11. Spares(k, k4, C, S)
  BY <1>7, <1>10, SparesSteps
<1> QED
  BY <1>2, <1>8, <1>11 DEF C, s, t

LEMMA CallsRun ==
    ASSUME width \in {4, 8}, NEW k, Whole(k), NEW F \in Nat, k.rsp <= Base - F,
           NEW S \in SUBSET CalleeSaved, NEW c, Calls(width, F, S, c)
    PROVE  Spares(k, After(k, c), Outside(F, k.rsp), S) /\ After(k, c).rsp = k.rsp
<1>1. PICK v \in Seq(Calm(width, F, S)), w \in Seq(Calm(width, F, S)), u \in Seq(Lines),
           top \in Int, n \in Int, q \in Int, p \in Nat :
           /\ -F <= top /\ top + 8 <= 0 /\ n - 6 <= Len(u)
           /\ AllPushed(u)
           /\ c = v \o CallText(top, p, u, n, q) \o w
  BY DEF Calls
<1> DEFINE x  == CallText(top, p, u, n, q)
           k1 == After(k, v)
           k2 == After(k1, x)
           k3 == After(k2, w)
           C  == Outside(F, k.rsp)
<1> HIDE DEF k1, k2, k3, C
<1>2. v \in Seq(Lines) /\ w \in Seq(Lines) /\ x \in Seq(Lines)
  <2>1. \A e \in Calm(width, F, S) : e \in Lines
    BY DEF Calm
  <2>2. \A a \in Int :
            /\ T("movq", Reg("rsp"), Mem(a)) \in Lines /\ T("movq", Mem(a), Reg("rsp")) \in Lines
            /\ T("alignsp", None, None) \in Lines
            /\ T("subsp", Imm(a), None) \in Lines /\ T("call", Imm(a), None) \in Lines
    BY StackLines
  <2>3. /\ <<T("movq", Reg("rsp"), Mem(top)), T("alignsp", None, None), T("subsp", Imm(p), None)>>
               \in Seq(Lines)
        /\ <<T("call", Imm(n), None), T("subsp", Imm(q), None), T("movq", Mem(top), Reg("rsp"))>>
               \in Seq(Lines)
    BY <2>2, Tuples
  <2>4. x \in Seq(Lines)
    BY <2>3, Tuples DEF CallText
  <2> QED
    BY <2>1, <2>4
<1> HIDE DEF x
<1>3. After(k, c) = k3
  <2>1. \A h : \A a, b \in Seq(Lines) : After(h, a \o b) = After(After(h, a), b)
    BY AfterParts
  <2>2. v \o x \in Seq(Lines)
    BY <1>2, Tuples
  <2>3. After(k, v \o x) = k2
    BY <1>2, <2>1 DEF k1, k2
  <2>4. c = v \o x \o w
    BY <1>1 DEF x
  <2> QED
    BY <1>2, <2>1, <2>2, <2>3, <2>4 DEF k3
<1>4. k.rsp \in Int /\ F \in Int
  BY DEF Whole
<1>5. Spares(k, k1, C, S) /\ k1.rsp = k.rsp /\ Whole(k1)
  <2>1. \A low \in Int : /\ Spares(k, After(k, v), Outside(F, low), S) /\ After(k, v).rsp = k.rsp
                         /\ Whole(After(k, v))
    BY <1>4, CalmRun
  <2> QED
    BY <1>4, <2>1 DEF k1, C
<1>6. Spares(k1, k2, C, S) /\ k2.rsp = k1.rsp /\ Whole(k2)
  <2>1. k1.rsp <= Base - F
    BY <1>5
  <2>2. /\ Spares(k1, After(k1, CallText(top, p, u, n, q)), Outside(F, k1.rsp), CalleeSaved)
        /\ After(k1, CallText(top, p, u, n, q)).rsp = k1.rsp
    BY <1>1, <1>4, <1>5, <2>1, CallKeeps
  <2> QED
    BY <1>5, <2>2 DEF Spares, k2, x, C
<1>7. Spares(k2, k3, C, S) /\ k3.rsp = k2.rsp
  <2>1. \A low \in Int : /\ Spares(k2, After(k2, w), Outside(F, low), S) /\ After(k2, w).rsp = k2.rsp
                         /\ Whole(After(k2, w))
    BY <1>4, <1>6, CalmRun
  <2> QED
    BY <1>4, <2>1 DEF k3, C
<1>8. Spares(k, k2, C, S)
  BY <1>5, <1>6, SparesSteps
<1>9. Spares(k, k3, C, S)
  BY <1>7, <1>8, SparesSteps
<1> QED
  BY <1>3, <1>5, <1>6, <1>7, <1>9 DEF C

LEMMA QuietRun ==
    ASSUME width \in {4, 8}, NEW k, NEW F \in Nat, NEW q \in Seq(CalleeSaved),
           NEW S \in SUBSET CalleeSaved, NEW e, Held(k, F, q, S, e),
           NEW c, Quiet(width, F, S, c)
    PROVE  Held(After(k, c), F, q, S, e)
<1>1. Whole(k) /\ k.rsp \in Int /\ k.rsp <= Base - F /\ F \in Int
  <2>1. k.rsp = Base - F - 8 * Len(q) /\ Len(q) \in Nat /\ F \in Nat /\ Base \in Int
    BY DEF Held, Base
  <2> QED
    BY <2>1 DEF Held, Whole
<1>2. SUFFICES Spares(k, After(k, c), Outside(F, k.rsp), S) /\ After(k, c).rsp = k.rsp
  BY HeldSpares
<1>3. CASE c \in Seq(Calm(width, F, S))
  <2>1. \A low \in Int : /\ Spares(k, After(k, c), Outside(F, low), S) /\ After(k, c).rsp = k.rsp
                         /\ Whole(After(k, c))
    BY <1>1, <1>3, CalmRun
  <2> QED
    BY <1>1, <2>1
<1>4. CASE Borrows(width, F, S, c)
  <2>1. PICK x \in Calm(width, F, S), y \in Calm(width, F, S) :
            c = <<T("push", Count, None), x, y, T("pop", None, Count)>>
    BY <1>4 DEF Borrows
  <2>2. LET h == After(k, <<T("push", Count, None), x, y, T("pop", None, Count)>>)
        IN  Spares(k, h, Outside(F, k.rsp), S) /\ h.rsp = k.rsp
    BY <1>1, BorrowRun
  <2> QED
    BY <2>1, <2>2
<1>5. CASE Calls(width, F, S, c)
  BY <1>1, <1>5, CallsRun
<1> QED
  BY <1>3, <1>4, <1>5 DEF Quiet

Returns(c) == \E t \in ToSet(c) : t.op = "ret"

(* Only the end of a function returns.                                     *)
LEMMA PartsReturn ==
    /\ \A v \in Seq({t \in Lines : t.op # "ret"}) : ~ Returns(v)
    /\ \A u, v \in Seq(Lines) : \A x, y \in Lines :
           y.op = "ret" => Returns(u \o v \o <<x, y>>)
<1>1. ASSUME NEW v \in Seq({t \in Lines : t.op # "ret"}) PROVE ~ Returns(v)
  <2>1. \A k \in DOMAIN v : v[k] \in {t \in Lines : t.op # "ret"}
    BY SeqElement
  <2> QED
    BY <2>1 DEF Returns, ToSet
<1>2. ASSUME NEW u \in Seq(Lines), NEW v \in Seq(Lines), NEW x \in Lines, NEW y \in Lines,
             y.op = "ret"
      PROVE  Returns(u \o v \o <<x, y>>)
  <2> DEFINE w == <<x, y>>
             c == u \o v \o w
  <2>1. w \in Seq(Lines) /\ Len(w) = 2 /\ w[2] = y
    OBVIOUS
  <2> HIDE DEF w
  <2>4. c = u \o v \o w
    OBVIOUS
  <2> HIDE DEF c
  <2>2. /\ c \in Seq(Lines) /\ Len(c) = Len(u) + Len(v) + Len(w)
        /\ \A i \in 1 .. Len(w) : c[Len(u) + Len(v) + i] = w[i]
    <3>1. \A r, s, t \in Seq(Lines) : c = r \o s \o t =>
              /\ c \in Seq(Lines) /\ Len(c) = Len(r) + Len(s) + Len(t)
              /\ \A i \in 1 .. Len(s) : c[Len(r) + i] = s[i]
              /\ \A i \in 1 .. Len(t) : c[Len(r) + Len(s) + i] = t[i]
      BY ThreeParts
    <3>2. u \in Seq(Lines) /\ v \in Seq(Lines) /\ w \in Seq(Lines)
      BY <2>1
    <3> HIDE DEF Lines
    <3> QED
      BY <2>4, <3>1, <3>2, Zenon
  <2>3. /\ Len(u) + Len(v) + 2 \in DOMAIN c
        /\ c[Len(u) + Len(v) + 2] = y
    <3>1. Len(u) \in Nat /\ Len(v) \in Nat /\ DOMAIN c = 1 .. Len(c) /\ 2 \in 1 .. 2
      BY <2>2
    <3> QED
      BY <2>1, <2>2, <3>1
  <2>5. y \in ToSet(c)
    BY <2>3 DEF ToSet
  <2> QED
    BY <1>2, <2>5 DEF Returns, c, w
<1> QED
  BY <1>1, <1>2

LEMMA ShapesReturn ==
    ASSUME NEW b, NEW F, NEW S, NEW c
    PROVE  /\ Quiet(b, F, S, c) => ~ Returns(c)
           /\ \A q \in Seq(CalleeSaved) : Leaves(b, F, S, q, c) => Returns(c)
<1> DEFINE E == {t \in Lines : t.op # "ret"}
<1>1. \A t \in Calm(b, F, S) : t \in E
  BY DEF Calm, CalmOps
<1>2. \A v \in Seq(Calm(b, F, S)) : v \in Seq(E)
  BY <1>1
<1>3. \A v \in Seq(E) : ~ Returns(v)
  BY PartsReturn
<1>4. T("push", Count, None) \in E /\ T("pop", None, Count) \in E
  BY OperandForms DEF T, Lines, MachineOps
<1>5. \A a \in Int :
          /\ T("movq", Reg("rsp"), Mem(a)) \in E /\ T("movq", Mem(a), Reg("rsp")) \in E
          /\ T("alignsp", None, None) \in E
          /\ T("subsp", Imm(a), None) \in E /\ T("call", Imm(a), None) \in E
  <2>1. \A a \in Int :
            /\ T("movq", Reg("rsp"), Mem(a)) \in Lines /\ T("movq", Mem(a), Reg("rsp")) \in Lines
            /\ T("alignsp", None, None) \in Lines
            /\ T("subsp", Imm(a), None) \in Lines /\ T("call", Imm(a), None) \in Lines
    BY StackLines
  <2>2. \A op, s, d : T(op, s, d).op = op
    BY DEF T
  <2> QED
    BY <2>1, <2>2
<1> HIDE DEF E
<1>6. ASSUME Quiet(b, F, S, c) PROVE c \in Seq(E)
  <2>1. CASE c \in Seq(Calm(b, F, S))
    BY <1>2, <2>1
  <2>2. CASE Borrows(b, F, S, c)
    <3>1. PICK x \in Calm(b, F, S), y \in Calm(b, F, S) :
              c = <<T("push", Count, None), x, y, T("pop", None, Count)>>
      BY <2>2 DEF Borrows
    <3>2. x \in E /\ y \in E
      BY <1>1
    <3> QED
      BY <1>4, <3>1, <3>2, Tuples
  <2>3. CASE Calls(b, F, S, c)
    <3>1. PICK v \in Seq(Calm(b, F, S)), w \in Seq(Calm(b, F, S)), u \in Seq(Lines),
               top \in Int, n \in Int, q \in Int, p \in Nat :
                   AllPushed(u) /\ c = v \o CallText(top, p, u, n, q) \o w
      BY <2>3 DEF Calls
    <3>2. u \in Seq(E)
      BY <3>1 DEF AllPushed, E
    <3>3. v \in Seq(E) /\ w \in Seq(E) /\ p \in Int
      BY <1>2
    <3>4. /\ <<T("movq", Reg("rsp"), Mem(top)), T("alignsp", None, None),
               T("subsp", Imm(p), None)>> \in Seq(E)
          /\ <<T("call", Imm(n), None), T("subsp", Imm(q), None),
               T("movq", Mem(top), Reg("rsp"))>> \in Seq(E)
      BY <1>5, <3>3, Tuples
    <3>5. CallText(top, p, u, n, q) \in Seq(E)
      BY <3>2, <3>4, Tuples DEF CallText
    <3> QED
      BY <3>1, <3>3, <3>5, Tuples
  <2> QED
    BY <1>6, <2>1, <2>2, <2>3 DEF Quiet
<1>7. ASSUME NEW q \in Seq(CalleeSaved), Leaves(b, F, S, q, c) PROVE Returns(c)
  <2>1. PICK t \in Calm(b, F, S), x \in Lines, y \in Lines :
            y.op = "ret" /\ c = <<t>> \o Pops(q) \o <<x, y>>
    BY <1>7 DEF Leaves
  <2>2. Pops(q) \in Seq(Lines)
    BY SavedLines
  <2>3. <<t>> \in Seq(Lines)
    <3>1. t \in Lines
      BY DEF Calm
    <3> QED
      BY <3>1, Tuples
  <2> QED
    BY <2>1, <2>2, <2>3, PartsReturn
<1> QED
  BY <1>3, <1>6, <1>7

(* A greater frame.                                                        *)
LEMMA ShapesGrow ==
    ASSUME NEW b \in {4, 8}, NEW F \in Int, NEW G \in Int, F <= G, NEW S, NEW c
    PROVE  /\ Quiet(b, F, S, c) => Quiet(b, G, S, c)
           /\ \A q : Leaves(b, F, S, q, c) => Leaves(b, G, S, q, c)
<1>1. \A o \in Dst(b, F, S) : o \in Dst(b, G, S)
  BY DEF Dst
<1>2. \A t \in Calm(b, F, S) : t \in Calm(b, G, S)
  BY <1>1 DEF Calm, Writable
<1>3. \A v \in Seq(Calm(b, F, S)) : v \in Seq(Calm(b, G, S))
  BY <1>2
<1>4. Borrows(b, F, S, c) => Borrows(b, G, S, c)
  BY <1>2 DEF Borrows
<1>5. Calls(b, F, S, c) => Calls(b, G, S, c)
  <2> SUFFICES ASSUME Calls(b, F, S, c) PROVE Calls(b, G, S, c)
    OBVIOUS
  <2>1. PICK v \in Seq(Calm(b, F, S)), w \in Seq(Calm(b, F, S)), u \in Seq(Lines),
             top \in Int, n \in Int, q \in Int, p \in Nat :
                 /\ -F <= top /\ top + 8 <= 0 /\ n - 6 <= Len(u)
                 /\ AllPushed(u)
                 /\ c = v \o CallText(top, p, u, n, q) \o w
    BY DEF Calls
  <2>2. v \in Seq(Calm(b, G, S)) /\ w \in Seq(Calm(b, G, S)) /\ -G <= top
    BY <1>3, <2>1
  <2> QED
    BY <2>1, <2>2 DEF Calls
<1>6. \A q : Leaves(b, F, S, q, c) => Leaves(b, G, S, q, c)
  BY <1>2 DEF Leaves
<1> QED
  BY <1>3, <1>4, <1>5, <1>6 DEF Quiet

(***************************************************************************)
(* What the emitters write has one of these shapes.                        *)
(***************************************************************************)
LEMMA SetSequenceAll ==
    ASSUME NEW S, IsFiniteSet(S)
    PROVE  /\ SetToSeq(S) \in Seq(S)
           /\ \A r \in S : \E j \in 1 .. Len(SetToSeq(S)) : SetToSeq(S)[j] = r
<1>1. PICK n \in Nat : ExistsBijection(1 .. n, S)
  BY FS_NatBijection
<1>2. Cardinality(S) = n
  BY <1>1, FS_CountingElements
<1>3. PICK f : f \in Bijection(1 .. n, S)
  BY <1>1 DEF ExistsBijection
<1>4. f \in [1 .. n -> S] /\ IsInjective(f)
  BY <1>3 DEF Bijection, Injection, IsInjective
<1> DEFINE h == SetToSeq(S)
<1>5. h \in [1 .. n -> S] /\ IsInjective(h)
  BY <1>2, <1>4 DEF SetToSeq
<1> HIDE DEF h
<1>6. h \in Injection(1 .. n, S)
  BY <1>5 DEF Injection, IsInjective
<1>7. Cardinality(1 .. n) = n
  BY FS_Interval
<1>8. h \in Surjection(1 .. n, S)
  BY <1>2, <1>6, <1>7, FS_Injection
<1>9. \A r \in S : \E j \in 1 .. n : h[j] = r
  BY <1>8 DEF Surjection
<1>10. h \in Seq(S) /\ Len(h) = n
  BY <1>5
<1> QED
  BY <1>9, <1>10 DEF h

\* The registers a function has to give back and does not use.
Spare(n) == CalleeSaved \ AlRegs(program[n])

LEMMA NeedSaveAll ==
    ASSUME InputInv, NEW n \in 1 .. Len(program)
    PROVE  /\ NeedSave(program[n]) \in Seq(CalleeSaved)
           /\ Spare(n) \in SUBSET CalleeSaved
           /\ \A r \in CalleeSaved :
                  r \in Spare(n) \/ \E j \in 1 .. Len(NeedSave(program[n])) :
                                        NeedSave(program[n])[j] = r
<1> DEFINE f == program[n]
           Used == {t \in SlotsOf(f) : IsReg(place[t])}
           h    == [s \in Used |-> place[s][2]]
           need == AlRegs(f) \cap CalleeSaved
<1>1. IsFiniteSet(Used)
  <2>1. Used \subseteq Slots
    BY DEF SlotsOf
  <2> QED
    BY <2>1, NumbersAssumption, FS_Subset
<1>2. IsFiniteSet(AlRegs(f))
  <2>1. AlRegs(f) = {place[s][2] : s \in Used}
    BY DEF AlRegs
  <2>2. h \in Surjection(Used, AlRegs(f))
    BY <2>1, Fun_IsSurj
  <2> HIDE DEF h, Used, f
  <2> QED
    BY <1>1, <2>2, FS_Surjection
<1>3. IsFiniteSet(need)
  BY <1>2, FS_Subset
<1>4. NeedSave(f) = SetToSeq(need)
  BY DEF NeedSave
<1> HIDE DEF need
<1>5. /\ SetToSeq(need) \in Seq(need)
      /\ \A r \in need : \E j \in 1 .. Len(SetToSeq(need)) : SetToSeq(need)[j] = r
  BY <1>3, SetSequenceAll
<1>6. SetToSeq(need) \in Seq(CalleeSaved)
  <2>1. need \subseteq CalleeSaved
    BY DEF need
  <2> QED
    BY <1>5, <2>1
<1>7. \A r \in CalleeSaved : r \in Spare(n) \/ r \in need
  BY DEF Spare, need
<1> QED
  BY <1>4, <1>5, <1>6, <1>7 DEF Spare

LEMMA CalmLines ==
    ASSUME NEW b, NEW F \in Int, NEW S \in SUBSET CalleeSaved
    PROVE  /\ \A d \in Writable(b, F, S) : d \in Args
           /\ \A d \in Dst(b, F, S) : d \in Locs /\ d \in Opds /\ d \in Writable(b, F, S)
           /\ \A s \in Args : \A d \in Writable(b, F, S) : \A op \in CalmOps \ {"set"} :
                  T(op, s, d) \in Calm(b, F, S) /\ MovT(s, d) \in Calm(b, F, S)
           /\ \A s, d \in Args : T("cmp", s, d) \in Calm(b, F, S)
           /\ \A s \in Tests : T("set", s, Acc) \in Calm(b, F, S)
<1>1. \A d \in Dst(b, F, S) : d \in Locs /\ d \in Opds
  BY OperandForms DEF Dst
<1>2. \A d \in Writable(b, F, S) : d \in Args
  BY <1>1, OperandForms DEF Writable
<1>3. \A d \in Dst(b, F, S) : d \in Writable(b, F, S)
  BY DEF Writable
<1>4. \A op \in CalmOps : op \in MachineOps /\ op \notin {"subsp", "call"}
  BY DEF CalmOps, MachineOps
<1>5. \A op, s, d : T(op, s, d).op = op /\ T(op, s, d).s = s /\ T(op, s, d).d = d
  BY DEF T
<1>6. \A s, d \in Args : \A op \in CalmOps \ {"set"} : T(op, s, d) \in Lines
  BY <1>4 DEF T, Lines
<1>7. \A s \in Args : \A d \in Writable(b, F, S) : \A op \in CalmOps \ {"set"} :
          T(op, s, d) \in Calm(b, F, S)
  BY <1>2, <1>5, <1>6 DEF Calm
<1>8. \A s \in Args : \A d \in Writable(b, F, S) : MovT(s, d) \in Calm(b, F, S)
  BY <1>7 DEF MovT, CalmOps
<1>9. \A s, d \in Args : T("cmp", s, d) \in Calm(b, F, S)
  BY <1>5, <1>6 DEF Calm, CalmOps
<1>10. \A s \in Tests : T("set", s, Acc) \in Calm(b, F, S)
  <2>1. Acc \in Dst(b, F, S) /\ Acc \in Args
    BY Scratch, OperandForms
  <2>2. \A s \in Tests : T("set", s, Acc) \in Lines
    BY OperandForms, <2>1 DEF T, Lines, MachineOps
  <2> QED
    BY <1>3, <1>5, <2>1, <2>2 DEF Calm, CalmOps
<1> QED
  BY <1>1, <1>2, <1>3, <1>7, <1>8, <1>9, <1>10

LEMMA MoveCalm ==
    ASSUME NEW b, NEW F \in Int, NEW S \in SUBSET CalleeSaved, NEW s \in Opds,
           NEW d \in Dst(b, F, S)
    PROVE  /\ MoveText(s, d) \in Seq(Calm(b, F, S))
           /\ LoadText(s, d) \in Seq(Calm(b, F, S))
           /\ StoreText(s, d) \in Seq(Calm(b, F, S))
           /\ Append(ViaAcc(s, d).pre, T("add", ViaAcc(s, d).s, d)) \in Seq(Calm(b, F, S))
<1> DEFINE E == Calm(b, F, S)
           v == ViaAcc(s, d)
<1>1. /\ \A o \in Dst(b, F, S) : o \in Opds /\ o \in Writable(b, F, S)
      /\ \A r \in Args : \A w \in Writable(b, F, S) :
             MovT(r, w) \in E /\ T("add", r, w) \in E
  BY CalmLines DEF CalmOps
<1>2. /\ Acc \in Writable(b, F, S) /\ Rem \in Writable(b, F, S)
      /\ \A o \in Opds : Ind(o) \in Writable(b, F, S)
  BY Scratch
<1>3. /\ \A o \in Opds : o \in Args /\ Ind(o) \in Args
      /\ Acc \in Opds /\ Rem \in Opds
  BY OperandForms DEF Opds
<1>4. d \in Writable(b, F, S) /\ d \in Opds
  BY <1>1
<1> HIDE DEF E
<1>5. v.pre \in Seq(E) /\ v.s \in Opds
  <2>1. CASE MemToMem(s, d)
    <3>1. v.pre = <<MovT(s, Acc)>> /\ v.s = Acc
      BY <2>1 DEF ViaAcc
    <3>2. MovT(s, Acc) \in E
      BY <1>1, <1>2, <1>3
    <3> QED
      BY <1>3, <3>1, <3>2, Tuples
  <2>2. CASE ~ MemToMem(s, d)
    <3>1. v.pre = << >> /\ v.s = s
      BY <2>2 DEF ViaAcc
    <3> QED
      BY <3>1, Tuples
  <2> QED
    BY <2>1, <2>2
<1> HIDE DEF v
<1>6. MoveText(s, d) \in Seq(E)
  <2>1. MovT(v.s, d) \in E
    BY <1>1, <1>3, <1>4, <1>5
  <2>2. MoveText(s, d) = Append(v.pre, MovT(v.s, d))
    BY DEF MoveText, v
  <2> QED
    BY <1>5, <2>1, <2>2, Tuples
<1>7. Append(v.pre, T("add", v.s, d)) \in Seq(E)
  <2>1. T("add", v.s, d) \in E
    BY <1>1, <1>3, <1>4, <1>5
  <2> QED
    BY <1>5, <2>1, Tuples
<1>8. LoadText(s, d) \in Seq(E)
  <2> DEFINE p == IF IsMem(s) THEN Rem ELSE s
             u == IF IsMem(s) THEN <<MovT(s, Rem)>> ELSE << >>
             w == IF IsMem(d) THEN <<MovT(Ind(p), Acc), MovT(Acc, d)>> ELSE <<MovT(Ind(p), d)>>
  <2>1. p \in Opds
    BY <1>3
  <2> HIDE DEF p
  <2>2. MovT(s, Rem) \in E /\ MovT(Ind(p), Acc) \in E /\ MovT(Acc, d) \in E /\ MovT(Ind(p), d) \in E
    BY <1>1, <1>2, <1>3, <1>4, <2>1
  <2>3. u \in Seq(E)
    BY <2>2, Tuples
  <2>4. w \in Seq(E)
    BY <2>2, Tuples
  <2>5. LoadText(s, d) = u \o w
    BY DEF LoadText, p
  <2> HIDE DEF u, w
  <2> QED
    BY <2>3, <2>4, <2>5, Tuples
<1>9. StoreText(s, d) \in Seq(E)
  <2>1. MovT(d, Acc) \in E /\ MovT(s, Ind(Acc)) \in E /\ MovT(s, Ind(d)) \in E
    BY <1>1, <1>2, <1>3, <1>4
  <2>2. <<MovT(d, Acc), MovT(s, Ind(Acc))>> \in Seq(E) /\ <<MovT(s, Ind(d))>> \in Seq(E)
    BY <2>1, Tuples
  <2> QED
    BY <2>2 DEF StoreText
<1> QED
  BY <1>6, <1>7, <1>8, <1>9 DEF E, v

LEMMA ShiftQuiet ==
    ASSUME NEW b, NEW F \in Int, NEW S \in SUBSET CalleeSaved, NEW s \in Opds,
           NEW d \in Dst(b, F, S)
    PROVE  Quiet(b, F, S, ShiftText(s, d))
<1> DEFINE E == Calm(b, F, S)
<1>1. /\ \A o \in Dst(b, F, S) : o \in Opds /\ o \in Writable(b, F, S)
      /\ \A r \in Args : \A w \in Writable(b, F, S) :
             MovT(r, w) \in E /\ T("shl", r, w) \in E
  BY CalmLines DEF CalmOps
<1>2. /\ Acc \in Writable(b, F, S) /\ Rem \in Writable(b, F, S) /\ Count \in Writable(b, F, S)
      /\ d \in Writable(b, F, S) /\ d \in Opds
  BY Scratch, <1>1
<1>3. s \in Args /\ d \in Args /\ Count \in Args /\ Rem \in Args
  BY <1>2, OperandForms
<1> HIDE DEF E
<1>4. /\ T("shl", s, d) \in E /\ MovT(d, Rem) \in E /\ MovT(s, Count) \in E
      /\ T("shl", Count, Rem) \in E /\ MovT(Rem, d) \in E /\ T("shl", Count, d) \in E
  BY <1>1, <1>2, <1>3
<1>5. CASE IsImm(s)
  <2>1. ShiftText(s, d) = <<T("shl", s, d)>>
    BY <1>5 DEF ShiftText
  <2>2. ShiftText(s, d) \in Seq(E)
    BY <1>4, <2>1, Tuples
  <2> QED
    BY <2>2 DEF Quiet, E
<1>6. CASE ~ IsImm(s) /\ d = Count
  <2>1. ShiftText(s, d) =
            <<MovT(d, Rem), MovT(s, Count), T("shl", Count, Rem), MovT(Rem, d)>>
    BY <1>6 DEF ShiftText
  <2>2. ShiftText(s, d) \in Seq(E)
    BY <1>4, <2>1, Tuples
  <2> QED
    BY <2>2 DEF Quiet, E
<1>7. CASE ~ IsImm(s) /\ d # Count
  <2>1. ShiftText(s, d) = <<T("push", Count, None), MovT(s, Count), T("shl", Count, d),
                            T("pop", None, Count)>>
    BY <1>7 DEF ShiftText
  <2>2. Borrows(b, F, S, ShiftText(s, d))
    BY <1>4, <2>1 DEF Borrows, E
  <2> QED
    BY <2>2 DEF Quiet
<1> QED
  BY <1>5, <1>6, <1>7

LEMMA TestsCalm ==
    ASSUME NEW b, NEW F \in Int, NEW S \in SUBSET CalleeSaved, NEW s \in Opds, NEW e \in Opds
    PROVE  /\ CmpText(s, e) \in Seq(Calm(b, F, S))
           /\ BrzText(s) \in Seq(Calm(b, F, S)) /\ BrnzText(s) \in Seq(Calm(b, F, S))
           /\ \A t \in Tests : <<T("jn", t, None)>> \in Seq(Calm(b, F, S))
<1> DEFINE E == Calm(b, F, S)
<1>1. /\ \A r \in Args : \A w \in Writable(b, F, S) :
             /\ MovT(r, w) \in E /\ T("jz", r, w) \in E /\ T("jnz", r, w) \in E
             /\ T("jn", r, w) \in E
      /\ \A r, w \in Args : T("cmp", r, w) \in E
  BY CalmLines DEF CalmOps
<1>2. Acc \in Writable(b, F, S) /\ None \in Writable(b, F, S)
  BY Scratch DEF Writable, Dst
<1>3. /\ s \in Args /\ e \in Args /\ Acc \in Args /\ None \in Args /\ Imm(0) \in Args
      /\ \A t \in Tests : t \in Args
  <2>1. Imm(0) \in Numbers
    BY OperandForms
  <2> QED
    BY <2>1, OperandForms
<1> HIDE DEF E
<1>4. /\ MovT(s, Acc) \in E /\ MovT(e, Acc) \in E /\ T("cmp", s, Acc) \in E /\ T("cmp", s, e) \in E
      /\ T("cmp", Imm(0), Acc) \in E /\ T("cmp", Imm(0), s) \in E
      /\ T("jz", None, None) \in E /\ T("jnz", None, None) \in E
      /\ \A t \in Tests : T("jn", t, None) \in E
  BY <1>1, <1>2, <1>3
<1>5. CmpText(s, e) \in Seq(E)
  <2>1. <<MovT(e, Acc), T("cmp", s, Acc)>> \in Seq(E) /\ <<T("cmp", s, e)>> \in Seq(E)
    BY <1>4, Tuples
  <2> QED
    BY <2>1 DEF CmpText
<1>6. BrzText(s) \in Seq(E) /\ BrnzText(s) \in Seq(E)
  <2> DEFINE u == <<MovT(s, Acc), T("cmp", Imm(0), Acc)>>
             v == <<T("cmp", Imm(0), s)>>
             x == <<T("jz", None, None)>>
             y == <<T("jnz", None, None)>>
  <2>1. u \in Seq(E) /\ v \in Seq(E) /\ x \in Seq(E) /\ y \in Seq(E)
    BY <1>4, Tuples
  <2>2. /\ BrzText(s) = (IF IsImm(s) THEN u ELSE v) \o x
        /\ BrnzText(s) = (IF IsReg(s) THEN v ELSE u) \o y
    BY DEF BrzText, BrnzText
  <2> HIDE DEF u, v, x, y
  <2>3. (IF IsImm(s) THEN u ELSE v) \in Seq(E) /\ (IF IsReg(s) THEN v ELSE u) \in Seq(E)
    BY <2>1
  <2> QED
    BY <2>1, <2>2, <2>3, Tuples
<1>7. \A t \in Tests : <<T("jn", t, None)>> \in Seq(E)
  BY <1>4, Tuples
<1> QED
  BY <1>5, <1>6, <1>7 DEF E

LEMMA ArithmeticCalm ==
    ASSUME NEW b, NEW F \in Int, NEW S \in SUBSET CalleeSaved, NEW s \in Opds, NEW a \in Opds,
           NEW d \in Dst(b, F, S)
    PROVE  /\ \A op \in MulDivOps : MulDivText(op, s, d) \in Seq(Calm(b, F, S))
           /\ \A op \in CmpOps : CompareText(op, s, a, d) \in Seq(Calm(b, F, S))
           /\ LogicText(s, d) \in Seq(Calm(b, F, S))
           /\ \A op \in {"neg", "lnot"} : UnaryText(op, d) \in Seq(Calm(b, F, S))
<1> DEFINE E == Calm(b, F, S)
<1>1. /\ \A r \in Args : \A w \in Writable(b, F, S) :
             /\ MovT(r, w) \in E /\ T("imul", r, w) \in E /\ T("idiv", r, w) \in E
             /\ T("cltd", r, w) \in E /\ T("both", r, w) \in E /\ T("neg", r, w) \in E
      /\ \A r, w \in Args : T("cmp", r, w) \in E
      /\ \A t \in Tests : T("set", t, Acc) \in E
  BY CalmLines DEF CalmOps
<1>2. /\ Acc \in Writable(b, F, S) /\ Rem \in Writable(b, F, S) /\ None \in Writable(b, F, S)
      /\ d \in Writable(b, F, S)
  BY Scratch DEF Writable, Dst
<1>3. s \in Args /\ a \in Args /\ d \in Args /\ Acc \in Args /\ Rem \in Args /\ None \in Args
      /\ Imm(0) \in Args
  <2>1. Imm(0) \in Numbers
    BY OperandForms
  <2>2. d \in Args
    BY <1>2, CalmLines
  <2> QED
    BY <2>1, <2>2, OperandForms
<1>4. <<"op", "lnot">> \in Tests /\ \A op \in CmpOps : <<"op", op>> \in Tests
  BY DEF Tests
<1> HIDE DEF E
<1>5. ASSUME NEW op \in MulDivOps PROVE MulDivText(op, s, d) \in Seq(E)
  <2> DEFINE r == IF op = "mod" THEN Rem ELSE Acc
  <2>1. r \in Args
    BY <1>3
  <2> HIDE DEF r
  <2>2. /\ MovT(d, Acc) \in E /\ T("imul", s, None) \in E /\ MovT(Acc, d) \in E
        /\ T("cltd", None, None) \in E /\ T("idiv", s, None) \in E /\ MovT(r, d) \in E
    BY <1>1, <1>2, <1>3, <2>1
  <2>3. /\ <<MovT(d, Acc), T("imul", s, None), MovT(Acc, d)>> \in Seq(E)
        /\ <<MovT(d, Acc), T("cltd", None, None), T("idiv", s, None), MovT(r, d)>> \in Seq(E)
    BY <2>2, Tuples
  <2> QED
    BY <2>3 DEF MulDivText, r
<1>6. ASSUME NEW op \in CmpOps PROVE CompareText(op, s, a, d) \in Seq(E)
  <2>1. /\ MovT(s, Acc) \in E /\ T("cmp", a, Acc) \in E /\ T("set", <<"op", op>>, Acc) \in E
        /\ MovT(Acc, d) \in E
    BY <1>1, <1>2, <1>3, <1>4
  <2> QED
    BY <2>1, Tuples DEF CompareText
<1>7. LogicText(s, d) \in Seq(E)
  <2>1. MovT(s, Acc) \in E /\ MovT(d, Rem) \in E /\ T("both", Rem, Acc) \in E /\ MovT(Acc, d) \in E
    BY <1>1, <1>2, <1>3
  <2> QED
    BY <2>1, Tuples DEF LogicText
<1>8. ASSUME NEW op \in {"neg", "lnot"} PROVE UnaryText(op, d) \in Seq(E)
  <2>1. /\ T("neg", None, d) \in E /\ T("cmp", Imm(0), d) \in E
        /\ T("set", <<"op", "lnot">>, Acc) \in E /\ MovT(Acc, d) \in E
    BY <1>1, <1>2, <1>3, <1>4
  <2>2. /\ <<T("neg", None, d)>> \in Seq(E)
        /\ <<T("cmp", Imm(0), d), T("set", <<"op", "lnot">>, Acc), MovT(Acc, d)>> \in Seq(E)
    BY <2>1, Tuples
  <2> QED
    BY <2>2 DEF UnaryText
<1> QED
  BY <1>5, <1>6, <1>7, <1>8 DEF E

LEMMA RtnLeaves ==
    ASSUME NEW b, NEW F \in Int, NEW S \in SUBSET CalleeSaved, NEW s \in Opds,
           NEW q \in Seq(CalleeSaved)
    PROVE  Leaves(b, F, S, q, RtnText(s, q))
<1> DEFINE x == T("leave", None, None)
           y == T("ret", None, None)
           t == MovT(s, Acc)
<1>1. t \in Calm(b, F, S)
  <2>1. \A o \in Args : \A d \in Writable(b, F, S) : MovT(o, d) \in Calm(b, F, S)
    BY CalmLines DEF CalmOps
  <2>2. Acc \in Writable(b, F, S) /\ s \in Args
    BY Scratch, OperandForms
  <2> QED
    BY <2>1, <2>2
<1>2. x \in Lines /\ y \in Lines /\ x.op = "leave" /\ y.op = "ret"
  BY OperandForms DEF T, Lines, MachineOps
<1>3. RtnText(s, q) = <<t>> \o Pops(q) \o <<x, y>>
  BY DEF RtnText, Pops
<1> HIDE DEF x, y, t
<1> QED
  BY <1>1, <1>2, <1>3 DEF Leaves

-----------------------------------------------------------------------------
(* The slots of a function that have a register are where the allocator    *)
(* put them.                                                               *)
Homes == \A s \in SlotsOf(program[fn]) : IsReg(place[s]) => location[s] = place[s]

(* The places of a frame of F bytes or more.                               *)
LEMMA KeptDst ==
    ASSUME FrameInv, phase = "translate", NEW F \in Int, -F <= stack_offset, NEW S
    PROVE  /\ \A r \in ToSet(CallerSaved) : f_regs_loc[r] \in Dst(width, F, S)
           /\ \E top \in Int : f_regs_loc["rsp"] = Mem(top) /\ -F <= top /\ top + 8 <= 0
           /\ \A s \in Sp : location[s] \in Dst(width, F, S)
           /\ \A l \in Own : Mem(l[2]) \in Dst(width, F, S)
<1>1. Cells /\ OwnApart /\ InputInv
  BY DEF FrameInv
<1>2. /\ stack_offset \in Int /\ Top \in Int /\ NCells \in Nat /\ stack_offset <= Top
      /\ Top + 8 <= 0 /\ width \in {4, 8}
  BY <1>1, CellFacts DEF OwnApart
<1>3. \A a \in Int : -F <= a /\ a + width <= 0 => Mem(a) \in Dst(width, F, S)
  BY DEF Dst
<1>4. ASSUME NEW j \in 1 .. NCells PROVE Mem(Below(j)) \in Dst(width, F, S)
  <2>1. Below(j) \in Int /\ Below(j) + width <= 0 /\ Top + 8 <= Below(j)
    BY <1>1, CellFacts
  <2>2. -F <= Below(j)
    BY <1>2, <2>1
  <2> QED
    BY <1>3, <2>1, <2>2
<1>5. ASSUME NEW r \in ToSet(CallerSaved) PROVE f_regs_loc[r] \in Dst(width, F, S)
  <2>1. Cardinality(Sp) + Index(r) \in 1 .. NCells
    BY RankFacts, CallerSavedFacts DEF NCells
  <2> QED
    BY <1>1, <1>4, <2>1 DEF Cells
<1>6. ASSUME NEW s \in Sp PROVE location[s] \in Dst(width, F, S)
  <2>1. Rank(s) \in 1 .. NCells
    BY RankFacts, CallerSavedFacts DEF NCells
  <2> QED
    BY <1>1, <1>4, <2>1 DEF Cells
<1>7. -F <= Top
  BY <1>2
<1>8. ASSUME NEW l \in Own PROVE Mem(l[2]) \in Dst(width, F, S)
  <2>1. l[2] \in Int /\ stack_offset <= l[2] /\ l[2] + width <= Top
    BY <1>1 DEF OwnApart
  <2>2. -F <= l[2] /\ l[2] + width <= 0
    BY <1>2, <2>1
  <2> QED
    BY <1>3, <2>1, <2>2
<1> QED
  BY <1>1, <1>2, <1>5, <1>6, <1>7, <1>8 DEF Cells

(* The place of a result.                                                  *)
LEMMA ResultDst ==
    ASSUME FrameInv, Homes, NEW ops, Handles(ops), Current.op \notin {"cmp", "jn"},
           NEW F \in Int, -F <= stack_offset
    PROVE  Opd(Current.dst) \in Dst(width, F, Spare(fn))
<1> DEFINE D == Dst(width, F, Spare(fn))
<1>1. InputInv /\ phase = "translate" /\ Current \in Made(program[fn])
  BY CurrentFacts DEF FrameInv
<1>2. Current \in Instruction
  BY <1>1 DEF Made, Compare, Branch
<1>3. Current.dst = None \/ \E s \in Slots : Current.dst = SlotOf(s)
  BY <1>2 DEF Instruction, Result
<1>4. CASE Current.dst = None
  <2>1. Opd(Current.dst) = None
    BY <1>4 DEF Opd, None
  <2> QED
    BY <2>1 DEF Dst
<1>5. ASSUME NEW s \in Slots, Current.dst = SlotOf(s) PROVE Opd(Current.dst) \in D
  <2>1. Opd(Current.dst) = location[s]
    BY <1>5 DEF Opd, SlotOf
  <2>2. s \in SlotsOf(program[fn])
    BY <1>1, <1>5 DEF Made, Operands
  <2>3. place[s] = Spilled \/ \E r \in Regs : place[s] = Reg(r)
    <3>1. place \in [Slots -> {Reg(r) : r \in Regs} \cup {Spilled}]
      BY <1>1, ProgramsAssumption DEF InputInv
    <3> QED
      BY <3>1
  <2>4. CASE place[s] = Spilled
    <3>1. s \in Sp
      BY <2>2, <2>4 DEF Sp, SpilledSlots
    <3> QED
      BY <1>1, <2>1, <3>1, KeptDst
  <2>5. ASSUME NEW r \in Regs, place[s] = Reg(r) PROVE location[s] \in D
    <3>1. IsReg(place[s]) /\ place[s][2] = r
      BY <2>5 DEF IsReg, Reg
    <3>2. location[s] = Reg(r)
      BY <2>2, <2>5, <3>1 DEF Homes
    <3>3. r \in AlRegs(program[fn])
      BY <2>2, <3>1 DEF AlRegs
    <3>4. r \in Regs \ Spare(fn)
      BY <3>3 DEF Spare
    <3> QED
      BY <3>2, <3>4 DEF Dst
  <2> QED
    BY <2>1, <2>3, <2>4, <2>5
<1> QED
  BY <1>3, <1>4, <1>5

(* A text of function n in a frame of F bytes.                             *)
Shaped(n, F, c) == \/ Quiet(width, F, Spare(n), c)
                   \/ Leaves(width, F, Spare(n), NeedSave(program[n]), c)

LEMMA ShapedEmitters ==
    ASSUME FrameInv, FrameInv', Homes, ~ StaleImmediate(fn),
           EmitMovOp \/ EmitBinaryOp \/ EmitMulDiv \/ EmitCmpOp \/ EmitLogicOp \/ EmitRtn
    PROVE  \E c : Put(c) /\ Shaped(fn, -stack_offset', c)
<1> DEFINE s == Opd(Current.src)
           d == Opd(Current.dst)
           F == -stack_offset'
           S == Spare(fn)
           E == Calm(width, F, S)
<1>1. /\ InputInv /\ fn \in 1 .. Len(program) /\ phase = "translate" /\ phase' = "translate"
      /\ width \in {4, 8}
  BY DEF FrameInv, InputInv, EmitMovOp, EmitBinaryOp, EmitMulDiv, EmitCmpOp, EmitLogicOp,
         EmitRtn, Handles, Put
<1>2. stack_offset \in Int /\ stack_offset' \in Int /\ stack_offset' <= stack_offset
  <2>1. stack_offset \in Int
    BY <1>1 DEF FrameInv, OwnApart
  <2>2. stack_offset' = stack_offset \/ stack_offset' = stack_offset - width
    BY DEF EmitMovOp, EmitBinaryOp, EmitMulDiv, EmitCmpOp, EmitLogicOp, EmitRtn, Unallocated
  <2> QED
    BY <1>1, <2>1, <2>2
<1>3. F \in Int /\ -F = stack_offset' /\ -F <= stack_offset
  <2>1. \A x, y \in Int : y <= x => -y \in Int /\ -(-y) = y /\ -(-y) <= x
    OBVIOUS
  <2> QED
    BY <1>2, <2>1
<1>4. S \in SUBSET CalleeSaved /\ NeedSave(program[fn]) \in Seq(CalleeSaved)
  BY <1>1, NeedSaveAll
<1> HIDE DEF F, S, E
<1>5. ASSUME NEW ops, Handles(ops), Current.op \notin {"cmp", "jn"}
      PROVE  s \in Opds /\ Opd(Current.src2) \in Opds /\ d \in Dst(width, F, S)
  <2>1. s \in Opds /\ Opd(Current.src2) \in Opds
    BY <1>1, <1>5, CurrentOperands
  <2>2. \A o, z : Handles(o) /\ Current.op \notin {"cmp", "jn"} /\ z \in Int /\ -z <= stack_offset
                     => d \in Dst(width, z, Spare(fn))
    BY ResultDst
  <2> QED
    BY <1>3, <1>5, <2>1, <2>2 DEF S
<1>6. ASSUME NEW c, Put(c), Quiet(width, F, S, c) PROVE \E e : Put(e) /\ Shaped(fn, F, e)
  BY <1>6 DEF Shaped, S
<1>7. ASSUME NEW c, Put(c), c \in Seq(E) PROVE \E e : Put(e) /\ Shaped(fn, F, e)
  BY <1>6, <1>7 DEF Quiet, E
<1>8. CASE EmitMovOp
  <2> DEFINE ops == {"mov", "load", "store"}
  <2>1. Handles(ops) /\ Current.op \in ops
    BY <1>8 DEF EmitMovOp, Handles
  <2>2. s \in Opds /\ d \in Dst(width, F, S)
    BY <1>5, <2>1
  <2>3. MoveText(s, d) \in Seq(E) /\ LoadText(s, d) \in Seq(E) /\ StoreText(s, d) \in Seq(E)
    BY <1>3, <1>4, <2>2, MoveCalm DEF E
  <2>4. Put(MoveText(s, d)) \/ Put(LoadText(s, d)) \/ Put(StoreText(s, d))
    BY <1>8, <2>1 DEF EmitMovOp
  <2> QED
    BY <1>7, <2>3, <2>4 DEF F
<1>9. CASE EmitBinaryOp
  <2> DEFINE v == ViaAcc(s, d)
             add == Append(v.pre, T("add", v.s, d))
  <2>1. Handles({"add", "shl"}) /\ Current.op \in {"add", "shl"}
    BY <1>9 DEF EmitBinaryOp, Handles
  <2>2. s \in Opds /\ d \in Dst(width, F, S)
    BY <1>5, <2>1
  <2>3. Quiet(width, F, S, ShiftText(s, d)) /\ add \in Seq(E)
    BY <1>3, <1>4, <2>2, ShiftQuiet, MoveCalm DEF E
  <2>4. Put(ShiftText(s, d)) \/ Put(add)
    BY <1>9, <2>1 DEF EmitBinaryOp
  <2> HIDE DEF add
  <2> QED
    BY <1>6, <1>7, <2>3, <2>4 DEF F
<1>10. CASE EmitMulDiv
  <2> DEFINE new == stack_offset - width
             p == IF ~ IsImm(s) THEN s
                  ELSE IF HasPlace(s[2]) THEN PlaceOf(s[2]) ELSE Mem(new)
             t == MulDivText(Current.op, p, d)
             c == (IF IsImm(s) THEN <<MovT(s, p)>> ELSE << >>) \o t
  <2>1. Handles(MulDivOps) /\ Put(c) /\ Current.op \in MulDivOps
    BY <1>10 DEF EmitMulDiv, Handles, MulDivOps
  <2>2. s \in Opds /\ d \in Dst(width, F, S)
    BY <1>5, <2>1 DEF MulDivOps
  <2>3. (p = s /\ ~ IsImm(s)) \/ p \in Dst(width, F, S)
    <3>1. CASE ~ IsImm(s)
      BY <3>1
    <3>2. CASE IsImm(s) /\ ~ HasPlace(s[2])
      <4>1. stack_offset' = new
        BY <1>10, <3>2 DEF EmitMulDiv
      <4>2. new \in Int /\ -F = new /\ new + width <= 0
        <5>1. stack_offset <= Top /\ Top + 8 <= 0 /\ Top \in Int
          BY <1>1, CellFacts DEF FrameInv, OwnApart
        <5> QED
          BY <1>1, <1>2, <1>3, <4>1, <5>1
      <4>3. p = Mem(new)
        BY <3>2
      <4> HIDE DEF new, p
      <4> QED
        BY <4>2, <4>3 DEF Dst
    <3>3. CASE IsImm(s) /\ HasPlace(s[2])
      <4> DEFINE l == CHOOSE i \in imm_loc : i[1] = s[2]
      <4>1. l \in imm_loc /\ l[1] = s[2]
        BY <3>3 DEF HasPlace
      <4>2. p = Mem(l[2])
        BY <3>3 DEF PlaceOf
      <4> HIDE DEF l, p
      <4>3. Imm(l[1]) \in Placed(program[fn])
        BY <1>1, <2>1, <3>3, <4>1, PlacedFacts
      <4>4. ~ Foreign(l)
        BY <4>3 DEF Foreign, StaleImmediate
      <4>5. l \in Own
        BY <4>1, <4>4 DEF Own
      <4>6. \A z \in Int : \A X : -z <= stack_offset =>
                \A i \in Own : Mem(i[2]) \in Dst(width, z, X)
        BY <1>1, KeptDst
      <4> QED
        BY <1>3, <4>2, <4>5, <4>6
    <3> QED
      BY <3>1, <3>2, <3>3
  <2>4. ~ IsImm(s) => p = s
    OBVIOUS
  <2>5. \A o \in Dst(width, F, S) : o \in Opds /\ o \in Writable(width, F, S)
    BY <1>3, <1>4, CalmLines
  <2> HIDE DEF p
  <2>6. p \in Opds
    BY <2>2, <2>3, <2>5
  <2>7. t \in Seq(E)
    <3>1. \A op \in MulDivOps : MulDivText(op, p, d) \in Seq(E)
      BY <1>3, <1>4, <2>2, <2>6, ArithmeticCalm DEF E
    <3> QED
      BY <2>1, <3>1
  <2>8. IsImm(s) => MovT(s, p) \in E
    <3>1. \A o \in Args : \A w \in Writable(width, F, S) : MovT(o, w) \in E
      BY <1>3, <1>4, CalmLines DEF E, CalmOps
    <3>2. s \in Args
      BY <2>2, OperandForms
    <3> QED
      BY <2>3, <2>5, <3>1, <3>2
  <2> HIDE DEF t
  <2>9. c \in Seq(E)
    BY <2>7, <2>8, Tuples
  <2> HIDE DEF c
  <2> QED
    BY <1>7, <2>1, <2>9 DEF F
<1>11. CASE EmitCmpOp
  <2> DEFINE ops == CmpOps \cup {"cmp", "jn", "brz", "brnz"}
  <2>1. Handles(ops) /\ Current.op \in ops
    BY <1>11 DEF EmitCmpOp, Handles
  <2>2. CASE Current.op \in CmpOps
    <3>1. Put(CompareText(Current.op, s, Opd(Current.src2), d))
      BY <1>11, <2>2 DEF EmitCmpOp, CmpOps
    <3>2. s \in Opds /\ Opd(Current.src2) \in Opds /\ d \in Dst(width, F, S)
      BY <1>5, <2>1, <2>2 DEF CmpOps
    <3>3. \A op \in CmpOps : CompareText(op, s, Opd(Current.src2), d) \in Seq(E)
      BY <1>3, <1>4, <3>2, ArithmeticCalm DEF E
    <3> QED
      BY <1>7, <2>2, <3>1, <3>3 DEF F
  <2>3. CASE Current.op = "cmp"
    <3>1. Put(CmpText(s, d))
      BY <1>11, <2>3 DEF EmitCmpOp, CmpOps
    <3>2. s \in Opds /\ d \in Opds
      BY <1>1, <2>1, <2>3, CurrentOperands
    <3>3. CmpText(s, d) \in Seq(E)
      BY <1>3, <1>4, <3>2, TestsCalm DEF E
    <3> QED
      BY <1>7, <3>1, <3>3 DEF F
  <2>4. CASE Current.op = "jn"
    <3>1. Put(<<T("jn", Current.src2, None)>>)
      BY <1>11, <2>4 DEF EmitCmpOp, CmpOps
    <3>2. Current.src2 \in Tests
      BY <1>1, <2>1, <2>4, CurrentOperands
    <3>3. \A t \in Tests : <<T("jn", t, None)>> \in Seq(E)
      <4>1. None \in Opds
        BY OperandForms
      <4> QED
        BY <1>3, <1>4, <4>1, TestsCalm DEF E
    <3> QED
      BY <1>7, <3>1, <3>2, <3>3 DEF F
  <2>5. CASE Current.op \in {"brz", "brnz"}
    <3>1. Put(BrzText(s)) \/ Put(BrnzText(s))
      BY <1>11, <2>5 DEF EmitCmpOp, CmpOps
    <3>2. s \in Opds
      BY <1>5, <2>1, <2>5
    <3>3. BrzText(s) \in Seq(E) /\ BrnzText(s) \in Seq(E)
      BY <1>3, <1>4, <3>2, TestsCalm DEF E
    <3> QED
      BY <1>7, <3>1, <3>3 DEF F
  <2> QED
    BY <2>1, <2>2, <2>3, <2>4, <2>5
<1>12. CASE EmitLogicOp
  <2>1. Handles({"land", "neg", "lnot"}) /\ Current.op \in {"land", "neg", "lnot"}
    BY <1>12 DEF EmitLogicOp, Handles
  <2>2. Put(LogicText(s, d)) \/ \E op \in {"neg", "lnot"} : Put(UnaryText(op, d))
    BY <1>12, <2>1 DEF EmitLogicOp
  <2>3. s \in Opds /\ d \in Dst(width, F, S)
    BY <1>5, <2>1
  <2>4. LogicText(s, d) \in Seq(E) /\ \A op \in {"neg", "lnot"} : UnaryText(op, d) \in Seq(E)
    BY <1>3, <1>4, <2>3, ArithmeticCalm DEF E
  <2> QED
    BY <1>7, <2>2, <2>4 DEF F
<1>13. CASE EmitRtn
  <2> DEFINE c == RtnText(s, NeedSave(program[fn]))
  <2>1. Handles({"rtn"}) /\ Put(c) /\ Current.op = "rtn"
    BY <1>13 DEF EmitRtn, Handles
  <2>2. s \in Opds
    BY <1>5, <2>1
  <2>3. Leaves(width, F, S, NeedSave(program[fn]), c)
    BY <1>3, <1>4, <2>2, RtnLeaves
  <2> HIDE DEF c
  <2> QED
    BY <2>1, <2>3 DEF Shaped, S, F
<1> QED
  BY <1>8, <1>9, <1>10, <1>11, <1>12, <1>13

LEMMA SavesCalm ==
    ASSUME FrameInv, phase = "translate", NEW F \in Int, -F <= stack_offset,
           NEW S \in SUBSET CalleeSaved, NEW q \in Seq(ToSet(CallerSaved))
    PROVE  /\ [k \in DOMAIN q |-> MovT(Reg(q[k]), f_regs_loc[q[k]])] \in Seq(Calm(width, F, S))
           /\ [k \in DOMAIN q |-> MovT(f_regs_loc[q[k]], Reg(q[k]))] \in Seq(Calm(width, F, S))
<1> DEFINE out  == [k \in DOMAIN q |-> MovT(Reg(q[k]), f_regs_loc[q[k]])]
           back == [k \in DOMAIN q |-> MovT(f_regs_loc[q[k]], Reg(q[k]))]
           E == Calm(width, F, S)
<1>1. ASSUME NEW r \in ToSet(CallerSaved)
      PROVE  MovT(Reg(r), f_regs_loc[r]) \in E /\ MovT(f_regs_loc[r], Reg(r)) \in E
  <2>1. Reg(r) \in Dst(width, F, S) /\ f_regs_loc[r] \in Dst(width, F, S)
    BY Scratch, KeptDst
  <2>2. \A o \in Dst(width, F, S) : o \in Writable(width, F, S) /\ o \in Args
    BY CalmLines
  <2>3. \A o \in Args : \A w \in Writable(width, F, S) : MovT(o, w) \in E
    BY CalmLines DEF CalmOps
  <2> QED
    BY <2>1, <2>2, <2>3
<1>2. DOMAIN q = 1 .. Len(q) /\ Len(q) \in Nat /\ \A k \in DOMAIN q : q[k] \in ToSet(CallerSaved)
  BY SeqElement
<1> HIDE DEF E
<1>3. out \in [1 .. Len(q) -> E] /\ back \in [1 .. Len(q) -> E]
  BY <1>1, <1>2
<1> HIDE DEF out, back
<1>4. out \in Seq(E) /\ back \in Seq(E)
  BY <1>2, <1>3, Tuples
<1> QED
  BY <1>4 DEF out, back, E

LEMMA ParamShaped ==
    ASSUME FrameInv, tr \in Operations, EmitParam
    PROVE  \E c : Put(c) /\ Shaped(fn, -stack_offset, c)
<1> DEFINE s == Opd(Current.src)
           F == -stack_offset
           S == Spare(fn)
           E == Calm(width, F, S)
           pre == IF tr.param_index = 0 THEN SaveText ELSE << >>
           rest == IF tr.param_index < 6 THEN ParamText(s) ELSE << >>
<1>1. /\ Handles({"param"}) /\ Put(pre \o rest) /\ Current.op = "param" /\ phase = "translate"
      /\ InputInv /\ fn \in 1 .. Len(program)
  BY DEF EmitParam, Handles, FrameInv, InputInv
<1>2. stack_offset \in Int
  BY <1>1 DEF FrameInv, OwnApart
<1>3. F \in Int /\ -F <= stack_offset
  BY <1>2
<1>4. S \in SUBSET CalleeSaved
  BY <1>1, NeedSaveAll
<1> HIDE DEF F, S
<1>5. SaveText \in Seq(E)
  <2>1. ToSave \in Seq(ToSet(CallerSaved))
    BY <1>1, SavedSequences
  <2> QED
    BY <1>1, <1>3, <1>4, <2>1, SavesCalm DEF SaveText
<1>6. tr.param_index < 6 => ParamText(s) \in Seq(E)
  <2> SUFFICES ASSUME tr.param_index < 6 PROVE ParamText(s) \in Seq(E)
    OBVIOUS
  <2> DEFINE r == FRegs[tr.param_index + 1]
  <2>1. tr.param_index + 1 \in 1 .. 6
    BY DEF Operations
  <2>2. r \in ToSet(CallerSaved)
    BY <1>1, <2>1, KeptPlaces
  <2> HIDE DEF r
  <2>3. Reg(r) \in Writable(width, F, S)
    BY <1>4, <2>2, Scratch
  <2>4. Kept(s) \in Args
    <3>1. s \in Opds
      BY <1>1, CurrentOperands
    <3> HIDE DEF s
    <3> QED
      BY <1>1, <3>1, KeptForms, OperandForms
  <2>5. \A o \in Args : \A w \in Writable(width, F, S) : MovT(o, w) \in E
    BY <1>3, <1>4, CalmLines DEF CalmOps
  <2>6. MovT(Kept(s), Reg(r)) \in E
    BY <2>3, <2>4, <2>5
  <2> HIDE DEF E
  <2> QED
    BY <2>6, Tuples DEF ParamText, r
<1> HIDE DEF E
<1>7. pre \in Seq(E) /\ rest \in Seq(E)
  BY <1>5, <1>6, Tuples
<1> HIDE DEF pre, rest
<1>8. pre \o rest \in Seq(E)
  BY <1>7, Tuples
<1> QED
  BY <1>1, <1>8 DEF Shaped, Quiet, E, F, S

LEMMA ArgShaped ==
    ASSUME FrameInv, Homes, EmitArg
    PROVE  \E c : Put(c) /\ Shaped(fn, -stack_offset, c)
<1> DEFINE idx == Current.src[2]
           d == Opd(Current.dst)
           F == -stack_offset
           S == Spare(fn)
           E == Calm(width, F, S)
           c == IF idx < 6
                THEN IF IsReg(d) THEN <<MovT(f_regs_loc[FRegs[idx + 1]], d)>>
                                 ELSE <<MovT(Reg(FRegs[idx + 1]), d)>>
                ELSE MoveText(Mem(16 + 8 * (idx - 6)), d)
<1>1. /\ Handles({"arg"}) /\ Put(c) /\ Current.op = "arg" /\ phase = "translate"
      /\ InputInv /\ fn \in 1 .. Len(program) /\ Current \in Made(program[fn])
  BY CurrentFacts DEF EmitArg, Handles, FrameInv, InputInv
<1>2. stack_offset \in Int
  BY <1>1 DEF FrameInv, OwnApart
<1>3. F \in Int /\ -F <= stack_offset
  BY <1>2
<1>4. S \in SUBSET CalleeSaved
  BY <1>1, NeedSaveAll
<1>5. idx \in Nat
  <2>1. Current \in Instruction
    BY <1>1 DEF Made, Compare, Branch
  <2>2. Current.src \in Operand /\ IsImm(Current.src)
    BY <1>1, <2>1 DEF Instruction
  <2>3. \E n \in Immediates : Current.src = Imm(n)
    BY <2>2 DEF Operand, Result, IsImm, None, SlotOf
  <2> QED
    BY <2>3, NumbersAssumption DEF Imm
<1>6. d \in Dst(width, F, S)
  BY <1>1, <1>3, ResultDst
<1> HIDE DEF F, S, d, idx
<1>7. \A o \in Args : MovT(o, d) \in E
  <2>1. \A o \in Args : \A w \in Writable(width, F, S) : MovT(o, w) \in E
    BY <1>3, <1>4, CalmLines DEF CalmOps
  <2>2. d \in Writable(width, F, S)
    BY <1>3, <1>4, <1>6, CalmLines
  <2> QED
    BY <2>1, <2>2
<1>8. CASE idx < 6
  <2> DEFINE r == FRegs[idx + 1]
  <2>1. idx + 1 \in 1 .. 6
    BY <1>5, <1>8
  <2>2. r \in ToSet(CallerSaved)
    BY <1>1, <2>1, KeptPlaces
  <2> HIDE DEF r
  <2>3. f_regs_loc[r] \in Args /\ Reg(r) \in Args
    BY <1>1, <2>2, KeptPlaces, OperandForms
  <2>4. MovT(f_regs_loc[r], d) \in E /\ MovT(Reg(r), d) \in E
    BY <1>7, <2>3
  <2> HIDE DEF E
  <2>5. c \in Seq(E)
    BY <1>8, <2>4, Tuples DEF r
  <2> HIDE DEF c
  <2> QED
    BY <1>1, <2>5 DEF Shaped, Quiet, E, F, S
<1>9. CASE ~ (idx < 6)
  <2>1. 16 + 8 * (idx - 6) \in Int
    BY <1>5
  <2>2. Mem(16 + 8 * (idx - 6)) \in Opds
    BY <2>1, OperandForms
  <2>3. MoveText(Mem(16 + 8 * (idx - 6)), d) \in Seq(E)
    BY <1>3, <1>4, <1>6, <2>2, MoveCalm
  <2>4. c \in Seq(E)
    BY <1>9, <2>3
  <2> HIDE DEF c
  <2> QED
    BY <1>1, <2>4 DEF Shaped, Quiet, E, F, S
<1> QED
  BY <1>8, <1>9

Joined(q, a, b, c, d, e, f) == q = a \o b \o c \o d \o e \o f
Parted(q, a, b, c, d, e, f) == q = a \o (b \o c \o d) \o (e \o f)

(* The text of a call in three parts, the call in the middle.              *)
LEMMA Regrouped ==
    ASSUME NEW E, NEW v \in Seq(E), NEW x \in Seq(E), NEW u \in Seq(E), NEW y \in Seq(E),
           NEW w \in Seq(E), NEW z \in Seq(E), NEW q, Joined(q, v, x, u, y, w, z)
    PROVE  Parted(q, v, x, u, y, w, z)
<1> DEFINE a == x \o u
           b == a \o y
           c == v \o b
<1>1. (v \o x) \o u = v \o a /\ a \in Seq(E)
  OBVIOUS
<1> HIDE DEF a
<1>2. (v \o a) \o y = v \o b /\ b \in Seq(E)
  BY <1>1
<1> HIDE DEF b
<1>3. c \in Seq(E)
  BY <1>2
<1> HIDE DEF c
<1>4. (c \o w) \o z = c \o (w \o z)
  BY <1>3
<1>5. q = v \o x \o u \o y \o w \o z
  BY DEF Joined
<1> QED
  BY <1>1, <1>2, <1>4, <1>5 DEF a, b, c, Parted

LEMMA CallShaped ==
    ASSUME FrameInv, Homes, tr \in Operations, tr.param_index - 6 <= Len(tr.stack_args), EmitCall
    PROVE  \E c : Put(c) /\ Shaped(fn, -stack_offset, c)
<1> DEFINE late   == tr.saved = << >>
           saved  == IF late THEN ToSave ELSE tr.saved
           args   == tr.stack_args
           pad    == IF NeedPad(args) THEN 8 ELSE 0
           n      == tr.param_index
           less   == -(8 * Len(args) + pad)
           v      == IF late THEN SaveText ELSE << >>
           u      == [k \in DOMAIN args |-> T("push", Kept(args[Len(args) + 1 - k]), None)]
           back   == [k \in DOMAIN saved |-> MovT(f_regs_loc[saved[k]], Reg(saved[k]))]
           result == MovT(Acc, Opd(Current.dst))
           F      == -stack_offset
           S      == Spare(fn)
           E      == Calm(width, F, S)
<1>1. /\ Handles({"call"}) /\ Put(CallChunk) /\ Current.op = "call" /\ phase = "translate"
      /\ InputInv /\ fn \in 1 .. Len(program)
  BY DEF EmitCall, CallChunk, Handles, FrameInv, InputInv
<1>2. stack_offset \in Int
  BY <1>1 DEF FrameInv, OwnApart
<1>3. F \in Int /\ -F <= stack_offset
  BY <1>2
<1>4. S \in SUBSET CalleeSaved
  BY <1>1, NeedSaveAll
<1>5. result \in E
  <2>1. Opd(Current.dst) \in Dst(width, F, S)
    BY <1>1, <1>3, ResultDst
  <2> HIDE DEF F, S
  <2>2. Opd(Current.dst) \in Writable(width, F, S)
    BY <1>3, <1>4, <2>1, CalmLines
  <2>3. \A o \in Args : \A d \in Writable(width, F, S) : MovT(o, d) \in E
    BY <1>3, <1>4, CalmLines DEF CalmOps
  <2>4. Acc \in Args
    BY OperandForms
  <2> QED
    BY <2>2, <2>3, <2>4
<1> HIDE DEF F, S
<1>6. /\ ToSave \in Seq(ToSet(CallerSaved)) /\ tr.saved \in Seq(ToSet(CallerSaved))
      /\ args \in Seq(Opds) /\ n \in Nat /\ n - 6 <= Len(args)
  BY <1>1, SavedSequences DEF Operations
<1>7. Len(args) \in Nat /\ DOMAIN args = 1 .. Len(args) /\ pad \in Nat /\ less \in Int
  BY <1>6
<1>8. v \in Seq(E)
  <2>1. SaveText \in Seq(E)
    BY <1>1, <1>3, <1>4, <1>6, SavesCalm DEF SaveText
  <2> HIDE DEF E
  <2> QED
    BY <2>1, Tuples
<1>9. back \in Seq(E)
  <2>1. saved \in Seq(ToSet(CallerSaved))
    BY <1>6
  <2> HIDE DEF saved
  <2> QED
    BY <1>1, <1>3, <1>4, <2>1, SavesCalm
<1>10. u \in Seq(Lines) /\ Len(u) = Len(args) /\ AllPushed(u)
  <2>1. ASSUME NEW k \in 1 .. Len(args)
        PROVE  T("push", Kept(args[Len(args) + 1 - k]), None) \in Lines
    <3> DEFINE o == args[Len(args) + 1 - k]
    <3>1. o \in Opds
      BY <1>6, <1>7
    <3> HIDE DEF o
    <3>2. Kept(o) \in Args /\ None \in Args
      BY <1>1, <3>1, KeptForms, OperandForms
    <3>3. T("push", Kept(o), None) \in Lines
      BY <3>2 DEF T, Lines, MachineOps
    <3> QED
      BY <3>3 DEF o
  <2>2. u \in [1 .. Len(args) -> Lines] /\ DOMAIN u = 1 .. Len(args)
    BY <1>7, <2>1
  <2>3. \A k \in 1 .. Len(args) : u[k].op = "push"
    BY <1>7 DEF T
  <2> HIDE DEF u, args
  <2>4. u \in Seq(Lines) /\ Len(u) = Len(args)
    BY <1>7, <2>2, Tuples
  <2> QED
    BY <2>3, <2>4 DEF AllPushed
<1>11. PICK top \in Int : f_regs_loc["rsp"] = Mem(top) /\ -F <= top /\ top + 8 <= 0
  BY <1>1, <1>3, KeptDst
<1> DEFINE x == <<T("movq", Reg("rsp"), Mem(top)), T("alignsp", None, None),
                  T("subsp", Imm(pad), None)>>
           y == <<T("call", Imm(n), None), T("subsp", Imm(less), None),
                  T("movq", Mem(top), Reg("rsp"))>>
           w == back \o <<result>>
<1>12. CallChunk = v \o x \o u \o y \o back \o <<result>>
  BY <1>11 DEF CallChunk
<1> HIDE DEF v, u, back, result, E, args, pad, less, n, late, saved
<1>13. CallText(top, pad, u, n, less) = x \o u \o y
  BY DEF CallText
<1>14. x \in Seq(Lines) /\ y \in Seq(Lines)
  <2>1. \A a \in Int :
            /\ T("movq", Reg("rsp"), Mem(a)) \in Lines /\ T("movq", Mem(a), Reg("rsp")) \in Lines
            /\ T("alignsp", None, None) \in Lines
            /\ T("subsp", Imm(a), None) \in Lines /\ T("call", Imm(a), None) \in Lines
    BY StackLines
  <2>2. top \in Int /\ pad \in Int /\ n \in Int /\ less \in Int
    BY <1>6, <1>7, <1>11
  <2>3. /\ T("movq", Reg("rsp"), Mem(top)) \in Lines /\ T("movq", Mem(top), Reg("rsp")) \in Lines
        /\ T("alignsp", None, None) \in Lines
        /\ T("subsp", Imm(pad), None) \in Lines /\ T("call", Imm(n), None) \in Lines
        /\ T("subsp", Imm(less), None) \in Lines
    BY <2>1, <2>2
  <2> QED
    BY <2>3, Tuples
<1>15. /\ v \in Seq(Lines) /\ back \in Seq(Lines) /\ <<result>> \in Seq(Lines)
       /\ w \in Seq(E)
  <2>1. \A t \in E : t \in Lines
    BY DEF E, Calm
  <2>2. w \in Seq(E)
    BY <1>5, <1>9, Tuples
  <2> QED
    BY <1>5, <1>8, <1>9, <2>1, <2>2, Tuples
<1> HIDE DEF x, y
<1>16. CallChunk = v \o CallText(top, pad, u, n, less) \o w
  <2> DEFINE z == <<result>>
             q == CallChunk
  <2>1. Joined(q, v, x, u, y, back, z)
    BY <1>12 DEF Joined
  <2>2. z \in Seq(Lines)
    BY <1>15
  <2> HIDE DEF z, q
  <2>3. Parted(q, v, x, u, y, back, z)
    BY <1>10, <1>14, <1>15, <2>1, <2>2, Regrouped
  <2> QED
    BY <1>13, <2>3 DEF z, q, Parted
<1> HIDE DEF w
<1>17. Calls(width, F, S, CallChunk)
  <2>1. n \in Int /\ n - 6 <= Len(u) /\ pad \in Nat /\ less \in Int
    BY <1>6, <1>7, <1>10
  <2> QED
    BY <1>8, <1>10, <1>11, <1>15, <1>16, <2>1 DEF Calls, E
<1> QED
  BY <1>1, <1>17 DEF Shaped, Quiet, F, S

(* The text of a function: its body works in a frame of F bytes, and the   *)
(* prologue makes one.                                                     *)
ShapedBody(n, F) == \A k \in DOMAIN text[n].body : Shaped(n, F, text[n].body[k].ins)

Framed(n) == \E F \in Nat : /\ Opens(width, F, NeedSave(program[n]), text[n].prologue)
                            /\ ShapedBody(n, F)

Done(n) == n < fn \/ phase \notin {"begin", "translate"}

ShapeInv ==
    /\ TextInv
    /\ tr.param_index - 6 <= Len(tr.stack_args)
    /\ phase = "translate" => Homes /\ (~ StaleImmediate(fn) => ShapedBody(fn, -stack_offset))
    /\ \A n \in 1 .. Len(program) : ~ StaleImmediate(n) /\ Done(n) => Framed(n)

LEMMA ShapeInit == Init => ShapeInv
<1> SUFFICES ASSUME Init PROVE ShapeInv
  OBVIOUS
<1>1. TextInv
  BY TextInit
<1>2. /\ phase = "begin" /\ fn = 1 /\ tr = NoCalls
  BY DEF Init
<1>3. Len(program) \in Nat
  BY <1>1, <1>2, InputFacts DEF TextInv, FrameInv, InputInv
<1>4. tr.param_index - 6 <= Len(tr.stack_args)
  BY <1>2 DEF NoCalls
<1>5. \A n \in 1 .. Len(program) : ~ Done(n)
  BY <1>2, <1>3 DEF Done
<1> QED
  BY <1>1, <1>2, <1>4, <1>5 DEF ShapeInv

(* What a step that leaves the text alone keeps.                           *)
LEMMA FramedKept ==
    ASSUME UNCHANGED <<width, program, place>>, NEW n, text'[n] = text[n]
    PROVE  /\ Framed(n) => Framed(n)'
           /\ \A F : ShapedBody(n, F) => ShapedBody(n, F)'
           /\ StaleImmediate(n)' <=> StaleImmediate(n)
<1>1. Spare(n)' = Spare(n) /\ NeedSave(program[n])' = NeedSave(program[n])
  BY DEF Spare, NeedSave, AlRegs, SlotsOf, Operands
<1>2. \A F, c : Shaped(n, F, c)' <=> Shaped(n, F, c)
  BY <1>1 DEF Shaped
<1>3. \A F : ShapedBody(n, F) => ShapedBody(n, F)'
  BY <1>2 DEF ShapedBody
<1>4. Framed(n) => Framed(n)'
  BY <1>1, <1>3 DEF Framed
<1>5. StaleImmediate(n)' <=> StaleImmediate(n)
  BY DEF StaleImmediate, Placed
<1> QED
  BY <1>3, <1>4, <1>5

LEMMA ShapeBegin ==
    ASSUME ShapeInv, TextInv', BeginFunction
    PROVE  ShapeInv'
<1>1. /\ UNCHANGED <<width, program, place, code, fn, text, tr>>
      /\ phase = "begin" /\ phase' = "translate"
  BY DEF BeginFunction, inputs
<1>2. ASSUME NEW s \in SlotsOf(program[fn]), IsReg(place[s]) PROVE location'[s] = place[s]
  <2>1. s \in Slots
    BY DEF SlotsOf
  <2>2. s \notin SpilledSlots(program[fn])
    BY <1>2 DEF SpilledSlots, IsReg, Spilled
  <2> QED
    BY <1>2, <2>1, <2>2 DEF BeginFunction
<1>3. Homes'
  BY <1>1, <1>2 DEF Homes, SlotsOf, Operands
<1>4. text[fn].body = << >>
  BY <1>1 DEF ShapeInv, TextInv
<1>5. \A F : ShapedBody(fn, F)'
  BY <1>1, <1>4 DEF ShapedBody
<1>6. \A n \in 1 .. Len(program) : ~ StaleImmediate(n)' /\ Done(n)' => Framed(n)'
  <2>1. \A n : Done(n)' => Done(n)
    BY <1>1 DEF Done
  <2> QED
    BY <1>1, <2>1, FramedKept DEF ShapeInv
<1> QED
  BY <1>1, <1>3, <1>5, <1>6 DEF ShapeInv

(* Nothing is written.                                                     *)
LEMMA ShapeKept ==
    ASSUME ShapeInv, TextInv', UNCHANGED <<width, program, place, text, tr>>,
           \/ UNCHANGED <<phase, fn, location, stack_offset>>
           \/ phase \notin {"begin", "translate"} /\ phase' # "translate"
    PROVE  ShapeInv'
<1>1. \A n \in 1 .. Len(program) : ~ StaleImmediate(n)' /\ Done(n)' => Framed(n)'
  <2>1. \A n : Done(n)' => Done(n)
    BY DEF Done
  <2> QED
    BY <2>1, FramedKept DEF ShapeInv
<1>2. phase' = "translate" =>
          Homes' /\ (~ StaleImmediate(fn)' => ShapedBody(fn, -stack_offset)')
  <2> SUFFICES ASSUME phase' = "translate"
               PROVE  Homes' /\ (~ StaleImmediate(fn)' => ShapedBody(fn, -stack_offset)')
    OBVIOUS
  <2>1. UNCHANGED <<phase, fn, location, stack_offset>>
    OBVIOUS
  <2>2. Homes'
    BY <2>1 DEF ShapeInv, Homes, SlotsOf, Operands
  <2>3. \A F : ShapedBody(fn, F) => ShapedBody(fn, F)'
    BY <2>1 DEF ShapedBody, Shaped, Spare, NeedSave, AlRegs, SlotsOf, Operands
  <2>4. StaleImmediate(fn)' <=> StaleImmediate(fn)
    BY <2>1 DEF StaleImmediate, Placed
  <2> QED
    BY <2>1, <2>2, <2>3, <2>4 DEF ShapeInv
<1> QED
  BY <1>1, <1>2 DEF ShapeInv

(* The text of one more instruction.                                       *)
LEMMA ShapePut ==
    ASSUME ShapeInv, TextInv', NEW ops, Handles(ops), NEW c, Put(c),
           ~ StaleImmediate(fn) => Shaped(fn, -stack_offset', c),
           stack_offset' \in Int, stack_offset' <= stack_offset,
           tr'.param_index - 6 <= Len(tr'.stack_args)
    PROVE  ShapeInv'
<1> DEFINE e == [ins |-> c, upto |-> code[fn][pc].upto]
           F == -stack_offset
           G == -stack_offset'
<1>1. /\ UNCHANGED <<width, program, place, code, phase, fn, location>>
      /\ phase = "translate"
      /\ text' = [text EXCEPT ![fn].body = Append(@, e)]
  BY DEF Put, Handles, inputs
<1>2. /\ fn \in 1 .. Len(program) /\ Len(program) \in Nat /\ text \in [1 .. Len(program) -> Texts]
      /\ width \in {4, 8} /\ FrameInv
  BY InputFacts DEF ShapeInv, TextInv, FrameInv, InputInv
<1>3. F \in Int /\ G \in Int /\ F <= G
  <2>1. stack_offset \in Int
    BY <1>1, <1>2 DEF FrameInv, OwnApart
  <2>2. \A x, y \in Int : y <= x => -x \in Int /\ -y \in Int /\ -x <= -y
    OBVIOUS
  <2> QED
    BY <2>1, <2>2
<1>4. /\ \A n \in 1 .. Len(program) : n # fn => text'[n] = text[n]
      /\ text'[fn].body = Append(text[fn].body, e)
      /\ text[fn].body \in Seq(Chunk)
  <2>1. text[fn] \in Texts
    BY <1>2
  <2> HIDE DEF e
  <2> QED
    BY <1>1, <1>2, <2>1 DEF Texts
<1>5. ASSUME NEW n \in 1 .. Len(program), ~ StaleImmediate(n)', Done(n)' PROVE Framed(n)'
  <2>1. Done(n) /\ n # fn /\ text'[n] = text[n]
    BY <1>1, <1>2, <1>4, <1>5 DEF Done
  <2> QED
    BY <1>1, <1>5, <2>1, FramedKept DEF ShapeInv
<1>6. Homes'
  BY <1>1 DEF ShapeInv, Homes, SlotsOf, Operands
<1>7. ASSUME ~ StaleImmediate(fn)' PROVE ShapedBody(fn, -stack_offset)'
  <2>1. ~ StaleImmediate(fn)
    BY <1>1, <1>7 DEF StaleImmediate, Placed
  <2>2. /\ Spare(fn)' = Spare(fn)
        /\ NeedSave(program[fn])' = NeedSave(program[fn])
    BY <1>1 DEF Spare, NeedSave, AlRegs, SlotsOf, Operands
  <2> HIDE DEF F, G, e
  <2>3. ASSUME NEW d, Shaped(fn, F, d) PROVE Shaped(fn, G, d)
    <3>1. \A x, y \in Int : \A X : \A q : x <= y =>
              /\ Quiet(width, x, X, d) => Quiet(width, y, X, d)
              /\ Leaves(width, x, X, q, d) => Leaves(width, y, X, q, d)
      BY <1>2, ShapesGrow
    <3> QED
      BY <1>3, <2>3, <3>1 DEF Shaped
  <2>4. ASSUME NEW k \in DOMAIN text'[fn].body PROVE Shaped(fn, G, text'[fn].body[k].ins)
    <3>1. \/ text'[fn].body[k] = e
          \/ k \in DOMAIN text[fn].body /\ text'[fn].body[k] = text[fn].body[k]
      BY <1>4
    <3>2. e.ins = c
      BY DEF e
    <3>3. k \in DOMAIN text[fn].body => Shaped(fn, F, text[fn].body[k].ins)
      BY <1>1, <2>1 DEF ShapeInv, ShapedBody, F
    <3> QED
      BY <2>1, <2>3, <3>1, <3>2, <3>3 DEF G
  <2>5. \A k \in DOMAIN text'[fn].body :
            \/ Quiet(width, G, Spare(fn), text'[fn].body[k].ins)
            \/ Leaves(width, G, Spare(fn), NeedSave(program[fn]), text'[fn].body[k].ins)
    BY <2>4 DEF Shaped
  <2> QED
    BY <1>1, <2>2, <2>5 DEF ShapedBody, Shaped, G
<1> QED
  BY <1>1, <1>5, <1>6, <1>7 DEF ShapeInv

LEMMA ShapeEmit ==
    ASSUME ShapeInv, TextInv',
           \/ EmitMovOp \/ EmitBinaryOp \/ EmitMulDiv \/ EmitCmpOp \/ EmitLogicOp \/ EmitRtn
           \/ EmitParam \/ EmitCall \/ EmitArg
    PROVE  ShapeInv'
<1>1. /\ FrameInv /\ FrameInv' /\ tr \in Operations /\ phase = "translate" /\ Homes
      /\ width \in {4, 8} /\ tr.param_index - 6 <= Len(tr.stack_args)
  BY DEF ShapeInv, TextInv, FrameInv, InputInv, EmitMovOp, EmitBinaryOp, EmitMulDiv, EmitCmpOp,
         EmitLogicOp, EmitRtn, EmitParam, EmitCall, EmitArg, Handles
<1>2. stack_offset \in Int
  BY <1>1 DEF FrameInv, OwnApart
<1>3. PICK ops : Handles(ops)
  BY DEF EmitMovOp, EmitBinaryOp, EmitMulDiv, EmitCmpOp, EmitLogicOp, EmitRtn, EmitParam,
         EmitCall, EmitArg
<1>4. CASE EmitMovOp \/ EmitBinaryOp \/ EmitMulDiv \/ EmitCmpOp \/ EmitLogicOp \/ EmitRtn
  <2>1. tr' = tr
    BY <1>4 DEF EmitMovOp, EmitBinaryOp, EmitMulDiv, EmitCmpOp, EmitLogicOp, EmitRtn
  <2>2. stack_offset' = stack_offset \/ stack_offset' = stack_offset - width
    BY <1>4 DEF EmitMovOp, EmitBinaryOp, EmitMulDiv, EmitCmpOp, EmitLogicOp, EmitRtn,
                Unallocated
  <2>3. stack_offset' \in Int /\ stack_offset' <= stack_offset
    BY <1>1, <1>2, <2>2
  <2>4. \E c : Put(c) /\ (~ StaleImmediate(fn) => Shaped(fn, -stack_offset', c))
    <3>1. \E c : Put(c)
      BY <1>4 DEF EmitMovOp, EmitBinaryOp, EmitMulDiv, EmitCmpOp, EmitLogicOp, EmitRtn
    <3>2. ~ StaleImmediate(fn) => \E c : Put(c) /\ Shaped(fn, -stack_offset', c)
      BY <1>1, <1>4, ShapedEmitters
    <3> QED
      BY <3>1, <3>2
  <2> QED
    BY <1>1, <1>3, <2>1, <2>3, <2>4, ShapePut
<1>5. CASE EmitParam \/ EmitCall \/ EmitArg
  <2>1. stack_offset' = stack_offset
    BY <1>5 DEF EmitParam, EmitCall, EmitArg, Unallocated
  <2>2. \E c : Put(c) /\ Shaped(fn, -stack_offset, c)
    BY <1>1, <1>5, ParamShaped, CallShaped, ArgShaped
  <2>3. stack_offset' \in Int /\ stack_offset' <= stack_offset
    BY <1>2, <2>1
  <2>4. tr'.param_index - 6 <= Len(tr'.stack_args)
    <3>1. /\ tr.param_index \in Nat /\ tr.stack_args \in Seq(Opds) /\ Len(tr.stack_args) \in Nat
          /\ DOMAIN tr = {"saved", "stack_args", "param_index", "req_args"}
      BY <1>1 DEF Operations
    <3>2. CASE EmitParam
      <4>1. /\ tr'.param_index = tr.param_index + 1
            /\ tr'.stack_args = IF tr.param_index < 6 THEN tr.stack_args
                                ELSE Append(tr.stack_args, Opd(Current.src))
        BY <3>1, <3>2 DEF EmitParam
      <4>2. CASE tr.param_index < 6
        BY <3>1, <4>1, <4>2
      <4>3. CASE ~ (tr.param_index < 6)
        <5>1. Handles({"param"}) /\ Current.op = "param" /\ InputInv
          BY <1>1, <3>2 DEF EmitParam, Handles, FrameInv
        <5>2. Opd(Current.src) \in Opds
          BY <5>1, CurrentOperands
        <5>3. Len(tr'.stack_args) = Len(tr.stack_args) + 1
          BY <3>1, <4>1, <4>3, <5>2
        <5> QED
          BY <1>1, <3>1, <4>1, <5>3
      <4> QED
        BY <4>2, <4>3
    <3>3. CASE EmitCall
      <4>1. tr'.param_index = 0 /\ tr'.stack_args = << >>
        BY <3>1, <3>3 DEF EmitCall, Sent
      <4> QED
        BY <4>1
    <3>4. CASE EmitArg
      <4>1. tr'.param_index = tr.param_index /\ tr'.stack_args = tr.stack_args
        BY <3>1, <3>4 DEF EmitArg
      <4> QED
        BY <1>1, <4>1
    <3> QED
      BY <1>5, <3>2, <3>3, <3>4
  <2> QED
    BY <1>1, <1>3, <2>1, <2>2, <2>3, <2>4, ShapePut
<1> QED
  BY <1>4, <1>5

LEMMA PrologueOpens ==
    ASSUME FrameInv, phase = "translate", tr \in Operations
    PROVE  LET need == NeedSave(program[fn])
           IN  Opens(width, -stack_offset, need,
                     <<T("enter", None, None), T("subsp", Imm(-stack_offset), None)>>
                     \o [k \in DOMAIN tr.req_args |->
                            MovT(Reg(tr.req_args[k]), f_regs_loc[tr.req_args[k]])]
                     \o [k \in DOMAIN need |-> T("push", Reg(need[k]), None)])
<1> DEFINE need == NeedSave(program[fn])
           F == -stack_offset
           x == T("enter", None, None)
           args == [k \in DOMAIN tr.req_args |->
                       MovT(Reg(tr.req_args[k]), f_regs_loc[tr.req_args[k]])]
           saves == [k \in DOMAIN need |-> T("push", Reg(need[k]), None)]
<1>1. InputInv /\ stack_offset \in Int /\ fn \in 1 .. Len(program)
  BY DEF FrameInv, OwnApart, InputInv
<1>2. F \in Int /\ -F <= stack_offset
  BY <1>1
<1>3. args \in Seq(Calm(width, F, CalleeSaved))
  <2>1. tr.req_args \in Seq(ToSet(CallerSaved))
    BY KeptPlaces DEF Operations
  <2>2. CalleeSaved \in SUBSET CalleeSaved
    OBVIOUS
  <2> HIDE DEF F
  <2> QED
    BY <1>2, <2>1, <2>2, SavesCalm
<1>4. saves = Pushes(need)
  <2>1. need \in Seq(CalleeSaved)
    BY <1>1, NeedSaveAll
  <2>2. DOMAIN need = 1 .. Len(need)
    BY <2>1
  <2> HIDE DEF need
  <2> QED
    BY <2>2 DEF Pushes
<1>5. x \in Lines /\ x.op = "enter"
  BY OperandForms DEF T, Lines, MachineOps
<1> DEFINE q == <<x, T("subsp", Imm(F), None)>> \o args \o saves
<1>6. q = <<x, T("subsp", Imm(F), None)>> \o args \o Pushes(need)
  BY <1>4
<1> HIDE DEF q, x, args, saves, F, need
<1>7. Opens(width, F, need, q)
  BY <1>3, <1>5, <1>6 DEF Opens
<1> QED
  BY <1>7 DEF q, x, args, saves, F, need

LEMMA ShapeEnd ==
    ASSUME ShapeInv, TextInv', EndFunction
    PROVE  ShapeInv'
<1> DEFINE need == NeedSave(program[fn])
           start == <<T("enter", None, None), T("subsp", Imm(-stack_offset), None)>>
                    \o [k \in DOMAIN tr.req_args |->
                           MovT(Reg(tr.req_args[k]), f_regs_loc[tr.req_args[k]])]
                    \o [k \in DOMAIN need |-> T("push", Reg(need[k]), None)]
<1>1. /\ UNCHANGED <<width, program, place, code, location>>
      /\ phase = "translate"
      /\ text' = [text EXCEPT ![fn].slots = location, ![fn].prologue = start]
      /\ tr' = [NoCalls EXCEPT !.saved = tr.saved, !.stack_args = tr.stack_args]
      /\ \/ fn < Len(program) /\ fn' = fn + 1 /\ phase' = "begin"
         \/ fn' = fn /\ phase' = "emitted" /\ ~ (fn < Len(program))
  BY DEF EndFunction, inputs
<1>2. /\ InputInv /\ FrameInv /\ fn \in 1 .. Len(program) /\ Len(program) \in Nat
      /\ tr \in Operations /\ text \in [1 .. Len(program) -> Texts]
  BY InputFacts DEF ShapeInv, TextInv, FrameInv, InputInv
<1>3. Opens(width, -stack_offset, need, start)
  BY <1>1, <1>2, PrologueOpens
<1> HIDE DEF start
<1>4. /\ \A n \in 1 .. Len(program) : n # fn => text'[n] = text[n]
      /\ text'[fn].prologue = start /\ text'[fn].body = text[fn].body
  <2>1. text[fn] \in Texts
    BY <1>2
  <2> QED
    BY <1>1, <1>2, <2>1 DEF Texts
<1>5. tr'.param_index = 0 /\ Len(tr'.stack_args) \in Nat
  <2>1. tr.stack_args \in Seq(Opds)
    BY <1>2 DEF Operations
  <2>2. tr'.param_index = 0 /\ tr'.stack_args = tr.stack_args
    BY <1>1 DEF NoCalls
  <2> QED
    BY <2>1, <2>2
<1>6. ASSUME NEW n \in 1 .. Len(program), ~ StaleImmediate(n)', Done(n)' PROVE Framed(n)'
  <2>1. ~ StaleImmediate(n)
    BY <1>1, <1>6 DEF StaleImmediate, Placed
  <2>2. CASE n # fn
    <3>1. text'[n] = text[n] /\ Done(n)
      BY <1>1, <1>2, <1>4, <1>6, <2>2 DEF Done
    <3> QED
      BY <1>1, <2>1, <3>1, FramedKept DEF ShapeInv
  <2>3. CASE n = fn
    <3> DEFINE F == -stack_offset
    <3>1. F \in Nat
      <4>1. stack_offset <= Top /\ Top + 8 <= 0 /\ Top \in Int /\ stack_offset \in Int
        BY <1>1, <1>2, CellFacts DEF FrameInv, OwnApart
      <4> QED
        BY <4>1
    <3>2. ShapedBody(n, F)
      BY <1>1, <2>1, <2>3 DEF ShapeInv
    <3> HIDE DEF F
    <3>3. Spare(n)' = Spare(n) /\ NeedSave(program[n])' = NeedSave(program[n])
      BY <1>1 DEF Spare, NeedSave, AlRegs, SlotsOf, Operands
    <3>4. text'[n].body = text[n].body /\ text'[n].prologue = start
      BY <1>4, <2>3
    <3>5. \A y : ShapedBody(n, y) => ShapedBody(n, y)'
      BY <1>1, <3>3, <3>4 DEF ShapedBody, Shaped
    <3>6. \E y \in Nat : Opens(width, y, NeedSave(program[n]), start) /\ ShapedBody(n, y)
      BY <1>3, <2>3, <3>1, <3>2 DEF F
    <3> QED
      BY <1>1, <3>3, <3>4, <3>5, <3>6 DEF Framed
  <2> QED
    BY <2>2, <2>3
<1>7. tr'.param_index - 6 <= Len(tr'.stack_args)
  BY <1>5
<1>8. phase' # "translate"
  BY <1>1
<1> QED
  BY <1>1, <1>6, <1>7, <1>8 DEF ShapeInv

LEMMA ShapeNext == ShapeInv /\ [Next]_vars => ShapeInv'
<1> SUFFICES ASSUME ShapeInv, [Next]_vars PROVE ShapeInv'
  OBVIOUS
<1>1. TextInv'
  BY TextNext DEF ShapeInv
<1>2. CASE BeginFunction
  BY <1>1, <1>2, ShapeBegin
<1>3. CASE EndFunction
  BY <1>1, <1>3, ShapeEnd
<1>4. CASE \/ EmitMovOp \/ EmitBinaryOp \/ EmitMulDiv \/ EmitCmpOp \/ EmitLogicOp \/ EmitRtn
           \/ EmitParam \/ EmitCall \/ EmitArg
  BY <1>1, <1>4, ShapeEmit
<1>5. CASE Enter \/ Run
  <2>1. /\ UNCHANGED <<width, program, place, text, tr>>
        /\ phase \notin {"begin", "translate"} /\ phase' # "translate"
    BY <1>5 DEF Enter, Run, inputs, emitter
  <2> QED
    BY <1>1, <2>1, ShapeKept
<1>6. CASE UNCHANGED vars
  <2>1. UNCHANGED <<width, program, place, text, tr, phase, fn, location, stack_offset>>
    BY <1>6 DEF vars, inputs, emitter
  <2> QED
    BY <1>1, <2>1, ShapeKept
<1> QED
  BY <1>2, <1>3, <1>4, <1>5, <1>6 DEF Next

(* What the caller of a function leaves.                                   *)
LEMMA EntryFacts ==
    ASSUME NEW f \in Seq(Instruction)
    PROVE  LET e == Entry(f)
           IN  /\ Whole(e) /\ e.rsp = -8 /\ e.rbp = <<"entry", "rbp">>
               /\ \A r \in CalleeSaved : e.regs[r] = Full(<<"entry", r>>)
               /\ \A a \in {-8, -4} : Cell(e, a) = <<"caller">>
               /\ \A a \in DOMAIN e.mem : a \in Above(Base + 8) /\ Cell(e, a) = e.mem[a]
<1> DEFINE n == NParams(f)
           regs == [r \in Regs |->
                       IF \E i \in DOMAIN FRegs : FRegs[i] = r /\ i <= n
                       THEN Full(<<"param", (CHOOSE i \in DOMAIN FRegs : FRegs[i] = r) - 1>>)
                       ELSE Full(<<"entry", r>>)]
           area == {-8, -4} \cup {4 * c : c \in 0 .. 2 * n}
           mem == [a \in area |->
                      IF a < 0 THEN <<"caller">>
                      ELSE IF width = 8 \/ a % 8 = 0 THEN <<"param", 6 + a \div 8>>
                      ELSE <<"junk", a>>]
           e == Entry(f)
<1>1. n \in Nat
  <2>1. {k \in DOMAIN f : f[k].op = "arg"} \subseteq 1 .. Len(f) /\ Len(f) \in Nat
    OBVIOUS
  <2>2. IsFiniteSet(1 .. Len(f))
    BY <2>1, FS_Interval
  <2> QED
    BY <2>1, <2>2, FS_Subset, FS_CardinalityType DEF NParams
<1>2. e = [regs |-> regs, mem |-> mem, rsp |-> -8, rbp |-> <<"entry", "rbp">>,
           flags |-> <<Zero, Zero>>, aligned |-> TRUE, returned |-> None, events |-> << >>]
  BY DEF Entry
<1>3. \A r \in CalleeSaved : r \in Regs /\ regs[r] = Full(<<"entry", r>>)
  <2>1. DOMAIN FRegs = 1 .. 6
    BY DEF FRegs
  <2>2. /\ FRegs[1] = "rdi" /\ FRegs[2] = "rsi" /\ FRegs[3] = "rdx"
        /\ FRegs[4] = "rcx" /\ FRegs[5] = "r8" /\ FRegs[6] = "r9"
    BY DEF FRegs
  <2>3. \A i \in 1 .. 6 : i \in {1, 2, 3, 4, 5, 6}
    OBVIOUS
  <2>4. \A i \in 1 .. 6 : FRegs[i] \notin CalleeSaved
    BY <2>2, <2>3 DEF CalleeSaved
  <2>5. CalleeSaved \subseteq Regs
    BY DEF Regs
  <2> HIDE DEF n
  <2> QED
    BY <2>1, <2>4, <2>5
<1>4. \A a \in area : a \in Above(Base + 8)
  BY <1>1 DEF Above, Base
<1>5. /\ -8 \in area /\ -4 \in area /\ mem[-8] = <<"caller">> /\ mem[-4] = <<"caller">>
      /\ DOMAIN mem = area
  <2> HIDE DEF n
  <2> QED
    OBVIOUS
<1>6. DOMAIN regs = Regs
  OBVIOUS
<1> HIDE DEF e, regs, mem, area
<1>7. /\ DOMAIN e = Fields /\ e.rsp = -8 /\ e.rbp = <<"entry", "rbp">> /\ e.mem = mem
      /\ e.regs = regs
  BY <1>2 DEF Fields
<1>8. Whole(e)
  <2>1. e.rsp \in Int
    BY <1>7
  <2> QED
    BY <1>6, <1>7, <2>1 DEF Whole
<1>9. \A a \in area : Cell(e, a) = mem[a]
  BY <1>5, <1>7 DEF Cell
<1> QED
  BY <1>3, <1>4, <1>5, <1>7, <1>8, <1>9 DEF e

(* A function that has run returns to its caller.                          *)
ReturnInv ==
    /\ ShapeInv
    /\ phase = "run" /\ ~ StaleImmediate(fn)
           => \E F \in Nat : /\ ShapedBody(fn, F)
                             /\ Held(m, F, NeedSave(program[fn]), Spare(fn), Entry(program[fn]))
    /\ phase = "returned" /\ ~ StaleImmediate(fn) => Back(m, Entry(program[fn]))

LEMMA ReturnEnter ==
    ASSUME ReturnInv, ShapeInv', Enter
    PROVE  ReturnInv'
<1>1. /\ UNCHANGED <<width, program, place, text>> /\ phase = "emitted" /\ phase' = "run"
      /\ width \in {4, 8} /\ InputInv
  BY DEF Enter, inputs, emitter, ReturnInv, ShapeInv, TextInv, FrameInv, InputInv
<1>2. PICK n \in DOMAIN program : fn' = n /\ m' = FoldLeft(Exec, Entry(program[n]), text[n].prologue)
  BY DEF Enter
<1>3. n \in 1 .. Len(program) /\ program[n] \in Seq(Instruction)
  BY <1>1, InputFacts DEF InputInv
<1> DEFINE e == Entry(program[n])
           q == NeedSave(program[n])
<1>4. SUFFICES ASSUME ~ StaleImmediate(n)
               PROVE  \E F \in Nat : ShapedBody(n, F) /\ Held(m', F, q, Spare(n), e)
  <2>1. StaleImmediate(n)' <=> StaleImmediate(n)
    BY <1>1 DEF StaleImmediate, Placed
  <2>2. \A F : ShapedBody(n, F) => ShapedBody(n, F)'
    BY <1>1, FramedKept
  <2>3. Spare(n)' = Spare(n) /\ q' = q /\ e' = e
    BY <1>1 DEF Spare, NeedSave, AlRegs, SlotsOf, Operands, Entry
  <2> HIDE DEF e, q
  <2> QED
    BY <1>1, <1>2, <2>1, <2>2, <2>3 DEF ReturnInv, e, q
<1>5. Framed(n)
  BY <1>1, <1>3, <1>4 DEF ReturnInv, ShapeInv, Done
<1>6. PICK F \in Nat : Opens(width, F, q, text[n].prologue) /\ ShapedBody(n, F)
  BY <1>5 DEF Framed
<1>7. PICK x \in Lines, v \in Seq(Calm(width, F, CalleeSaved)) :
          x.op = "enter" /\ text[n].prologue = <<x, T("subsp", Imm(F), None)>> \o v \o Pushes(q)
  BY <1>6 DEF Opens
<1>8. /\ Whole(e) /\ e.rsp = -8 /\ e.rbp = <<"entry", "rbp">>
      /\ \A r \in CalleeSaved : e.regs[r] = Full(<<"entry", r>>)
  BY <1>3, EntryFacts
<1>9. q \in Seq(CalleeSaved) /\ Spare(n) \in SUBSET CalleeSaved
  BY <1>1, <1>3, NeedSaveAll
<1> HIDE DEF e, q
<1>10. m' = After(e, <<x, T("subsp", Imm(F), None)>> \o v \o Pushes(q))
  BY <1>2, <1>7 DEF After, e
<1>11. Held(m', F, q, CalleeSaved, e)
  <2>1. Held(After(e, <<x, T("subsp", Imm(F), None)>> \o v \o Pushes(q)), F, q, CalleeSaved, e)
    BY <1>1, <1>7, <1>8, <1>9, PrologueRun
  <2> QED
    BY <1>10, <2>1
<1>12. Held(m', F, q, Spare(n), e)
  BY <1>9, <1>11 DEF Held
<1> QED
  BY <1>6, <1>12

LEMMA FunctionKept ==
    ASSUME UNCHANGED <<width, program, place, fn, text>>
    PROVE  /\ StaleImmediate(fn)' <=> StaleImmediate(fn)
           /\ \A F : ShapedBody(fn, F) => ShapedBody(fn, F)'
           /\ Spare(fn)' = Spare(fn) /\ NeedSave(program[fn])' = NeedSave(program[fn])
           /\ Entry(program[fn])' = Entry(program[fn])
<1>1. StaleImmediate(fn)' <=> StaleImmediate(fn)
  BY DEF StaleImmediate, Placed
<1>2. Spare(fn)' = Spare(fn) /\ NeedSave(program[fn])' = NeedSave(program[fn])
  BY DEF Spare, NeedSave, AlRegs, SlotsOf, Operands
<1>3. \A F : ShapedBody(fn, F) => ShapedBody(fn, F)'
  BY <1>2 DEF ShapedBody, Shaped
<1>4. Entry(program[fn])' = Entry(program[fn])
  BY DEF Entry
<1> QED
  BY <1>1, <1>2, <1>3, <1>4

LEMMA ReturnRun ==
    ASSUME ReturnInv, ShapeInv', Run
    PROVE  ReturnInv'
<1> DEFINE c == text[fn].body[pc].ins
           e == Entry(program[fn])
           q == NeedSave(program[fn])
           S == Spare(fn)
<1>1. /\ UNCHANGED <<width, program, place, fn, text>> /\ phase = "run"
      /\ pc \in DOMAIN text[fn].body /\ m' = After(m, c)
      /\ phase' = IF Returns(c) THEN "returned" ELSE "run"
      /\ width \in {4, 8} /\ InputInv /\ fn \in 1 .. Len(program)
  BY DEF Run, inputs, emitter, After, Returns, ReturnInv, ShapeInv, TextInv, FrameInv, InputInv
<1>2. /\ StaleImmediate(fn)' <=> StaleImmediate(fn)
      /\ \A F : ShapedBody(fn, F) => ShapedBody(fn, F)'
      /\ S' = S /\ q' = q /\ e' = e
  BY <1>1, FunctionKept
<1>3. SUFFICES ASSUME ~ StaleImmediate(fn)
               PROVE  \/ Returns(c) /\ Back(m', e)
                      \/ /\ ~ Returns(c)
                         /\ \E F \in Nat : ShapedBody(fn, F) /\ Held(m', F, q, S, e)
  <2> HIDE DEF c, e, q, S
  <2>1. phase' = "returned" /\ ~ StaleImmediate(fn)' => Back(m', e')
    BY <1>1, <1>2, <1>3
  <2>2. phase' = "run" /\ ~ StaleImmediate(fn)' =>
            \E F \in Nat : ShapedBody(fn, F)' /\ Held(m', F, q', S', e')
    BY <1>1, <1>2, <1>3
  <2> QED
    BY <2>1, <2>2 DEF ReturnInv, e, q, S
<1>4. PICK F \in Nat : ShapedBody(fn, F) /\ Held(m, F, q, S, e)
  BY <1>1, <1>3 DEF ReturnInv
<1>5. /\ q \in Seq(CalleeSaved) /\ S \in SUBSET CalleeSaved
      /\ \A r \in CalleeSaved : r \in S \/ \E j \in 1 .. Len(q) : q[j] = r
  BY <1>1, NeedSaveAll
<1>6. \A a \in {-8, -4} : Cell(e, a) = <<"caller">>
  <2>1. program[fn] \in Seq(Instruction)
    BY <1>1, InputFacts
  <2> QED
    BY <2>1, EntryFacts
<1>7. Quiet(width, F, S, c) \/ Leaves(width, F, S, q, c)
  BY <1>1, <1>4 DEF ShapedBody, Shaped
<1> HIDE DEF c, e, q, S
<1>8. CASE Quiet(width, F, S, c)
  <2>1. ~ Returns(c)
    BY <1>8, ShapesReturn
  <2>2. Held(After(m, c), F, q, S, e)
    BY <1>1, <1>4, <1>5, <1>8, QuietRun
  <2> QED
    BY <1>1, <1>4, <2>1, <2>2
<1>9. CASE Leaves(width, F, S, q, c)
  <2>1. Returns(c)
    BY <1>5, <1>9, ShapesReturn
  <2>2. PICK t \in Calm(width, F, S), x \in Lines, y \in Lines :
            x.op = "leave" /\ y.op = "ret" /\ c = <<t>> \o Pops(q) \o <<x, y>>
    BY <1>9 DEF Leaves
  <2>3. Back(After(m, <<t>> \o Pops(q) \o <<x, y>>), e)
    BY <1>1, <1>4, <1>5, <1>6, <2>2, RtnRun
  <2> QED
    BY <1>1, <2>1, <2>2, <2>3
<1> QED
  BY <1>7, <1>8, <1>9

LEMMA ReturnNext == ReturnInv /\ [Next]_vars => ReturnInv'
<1> SUFFICES ASSUME ReturnInv, [Next]_vars PROVE ReturnInv'
  OBVIOUS
<1>1. ShapeInv'
  BY ShapeNext DEF ReturnInv
<1>2. CASE Enter
  BY <1>1, <1>2, ReturnEnter
<1>3. CASE Run
  BY <1>1, <1>3, ReturnRun
<1>4. CASE UNCHANGED vars
  <2>1. UNCHANGED <<width, program, place, phase, fn, text, m>>
    BY <1>4 DEF vars, inputs, emitter
  <2> QED
    BY <1>1, <2>1, FunctionKept DEF ReturnInv
<1>5. CASE phase' \notin {"run", "returned"}
  BY <1>1, <1>5 DEF ReturnInv
<1>6. ASSUME Next, ~ Enter, ~ Run PROVE phase' \notin {"run", "returned"}
  BY <1>6 DEF Next, BeginFunction, EndFunction, EmitMovOp, EmitBinaryOp, EmitMulDiv,
              EmitCmpOp, EmitLogicOp, EmitRtn, EmitParam, EmitCall, EmitArg, Put, Handles, inputs
<1> QED
  BY <1>2, <1>3, <1>4, <1>5, <1>6

(* For every program, every assignment of its slots, both widths and every *)
(* function that is called: when it returns, the registers of its caller   *)
(* that it must save, rsp, rbp and the memory above are as they were, over *)
(* its frame, its calls and the registers it borrowed (GenerateTextSection,*)
(* emit_func_op, emit_spz_op).                                             *)
THEOREM AlwaysReturnsToCaller == Spec => []ReturnsToCaller
<1>1. Init => ReturnInv
  <2>1. Init => phase = "begin"
    BY DEF Init
  <2> QED
    BY <2>1, ShapeInit DEF ReturnInv
<1>2. ReturnInv => ReturnsToCaller
  <2> SUFFICES ASSUME ReturnInv, phase = "returned", Sound(fn)
               PROVE  /\ CalleeSavedIntact
                      /\ m.rsp = 0 /\ m.rbp = <<"entry", "rbp">> /\ m.returned = <<"caller">>
                      /\ \A a \in DOMAIN Entry(program[fn]).mem :
                             Cell(m, a) = Entry(program[fn]).mem[a]
    BY DEF ReturnsToCaller
  <2> DEFINE e == Entry(program[fn])
  <2>1. Back(m, e)
    BY DEF ReturnInv, Sound
  <2>2. program[fn] \in Seq(Instruction)
    BY InputFacts DEF ReturnInv, ShapeInv, TextInv, FrameInv, InputInv
  <2>3. \A a \in DOMAIN e.mem : a \in Above(Base + 8) /\ Cell(e, a) = e.mem[a]
    BY <2>2, EntryFacts
  <2> HIDE DEF e
  <2>4. CalleeSavedIntact
    <3>1. \A v : Join(Full(v)) = v
      BY DEF Join, Full
    <3> QED
      BY <2>1, <3>1 DEF Back, CalleeSavedIntact
  <2>5. \A a \in DOMAIN e.mem : Cell(m, a) = e.mem[a]
    BY <2>1, <2>3 DEF Back
  <2> QED
    BY <2>1, <2>4, <2>5 DEF Back, e
<1> QED
  BY <1>1, <1>2, ReturnNext, PTL DEF Spec

=============================================================================
