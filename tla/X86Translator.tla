--------------------------- MODULE X86Translator ---------------------------
(***************************************************************************)
(* Translation of two address code to x86 text (handlers/X86Translator.cpp)*)
(* and the run of that text.                                               *)
(*                                                                         *)
(* The functions of a program are translated one after the other by one    *)
(* translator; what it writes into the symbols of immediates stays there.  *)
(* Then one function is called with arbitrary values in all registers and  *)
(* its text runs beside its two address code.                              *)
(*                                                                         *)
(* The code is straight: a branch reports the value it tests, and its      *)
(* target, which changes no place, is left out.  "add" stands for add, sub,*)
(* band, bor and bxor, "shl" for the shifts, "div" for div and mod, "land" *)
(* for land and lor, "neg" for neg and bnot: they are emitted alike.       *)
(***************************************************************************)
EXTENDS FiniteSets, X86Machine

CONSTANTS
    Widths,             \* the widths a program may be compiled for
    Programs,           \* sequences of functions, each a sequence of Ins
    Slots,              \* the slots of all programs
    Immediates,         \* the numbers in them
    Places              \* the assignments of slots to registers or Spilled

ASSUME WidthsAssumption == Widths \subseteq {4, 8}

ASSUME NumbersAssumption ==
    Slots \subseteq Nat /\ IsFiniteSet(Slots) /\ Immediates \subseteq Nat

SlotOf(s) == <<"slot", s>>
Spilled   == <<"spilled">>

Ins(op, dst, src, src2) == [op |-> op, dst |-> dst, src |-> src, src2 |-> src2]

Ops == {"arg", "mov", "load", "store", "add", "shl", "mul", "div", "mod", "lt", "eq",
        "land", "neg", "lnot", "brz", "brnz", "param", "call", "rtn"}

\* A result is a slot, an operand a slot or a number, that of arg a number.
Result  == {None} \cup {SlotOf(s) : s \in Slots}
Operand == Result \cup {Imm(n) : n \in Immediates}
Instruction == {i \in [op : Ops, dst : Result, src : Operand, src2 : Operand] :
                    i.op = "arg" => IsImm(i.src)}

ASSUME ProgramsAssumption ==
    /\ Programs \subseteq Seq(Seq(Instruction)) \ {<< >>}
    /\ Places \subseteq [Slots -> {Reg(r) : r \in Regs} \cup {Spilled}]

VARIABLES
    program, place,     \* input: the functions; where every slot lives
    code,               \* the functions after Optimums
    phase,              \* "begin", "translate", "emitted", "run", "returned"
    fn, pc,             \* the function and the instruction at work
    stack_offset,       \* lowest offset in use below rbp
    location,           \* kLOCATION of the slots
    imm_loc,            \* kLOCATION of the immediates: pairs <<n, offset>>
    f_regs_loc,         \* where a caller saved register and rsp are kept
    tr,                 \* saved_f_regs_, stack_args_, param_index_, req_args_regs_
    text,               \* per function: prologue and a chunk per instruction
    m,                  \* the machine
    g                   \* the two address code it should agree with

inputs  == <<width, program, place, code>>
emitter == <<stack_offset, location, imm_loc, f_regs_loc, tr, text>>
vars    == <<inputs, phase, fn, pc, emitter, m, g>>

Operands(i) == {i.dst, i.src, i.src2}
SlotsOf(f)  == {s \in Slots : \E k \in DOMAIN f : SlotOf(s) \in Operands(f[k])}

\* The registers the allocator gave to a function.
AlRegs(f) == {place[s][2] : s \in {t \in SlotsOf(f) : IsReg(place[t])}}

-----------------------------------------------------------------------------
(***************************************************************************)
(* Optimums.  An instruction of its result names the last instruction of   *)
(* its input that it stands for.                                           *)
(***************************************************************************)
CmpOps == {"lt", "eq"}

Tagged(f) == [k \in DOMAIN f |-> [ins |-> f[k], upto |-> k]]

\* A compare and the brz on its result: cmp and a conditional jump.
FusesCmp(last, i) == i.op = "brz" /\ last.op \in CmpOps /\ last.dst = i.src

\* Faulty variant of FusesNot: the operand of brz is not looked at.
FusesAnyNot(last, i) == i.op = "brz" /\ last.op = "lnot"

\* lnot and the brz on its result: brnz.
FusesNot(last, i) == i.op = "brz" /\ last.op = "lnot" /\ last.dst = i.src

Optimums(f) ==
    LET Add(acc, t) ==
            IF acc # << >> /\ FusesCmp(Last(acc).ins, t.ins)
            THEN LET c == Last(acc).ins
                 IN  Front(acc) \o
                     <<[ins |-> Ins("cmp", c.src, c.src2, None), upto |-> 0],
                       [ins |-> Ins("jn", None, None, <<"op", c.op>>), upto |-> t.upto]>>
            ELSE IF acc # << >> /\ FusesNot(Last(acc).ins, t.ins)
            THEN Append(Front(acc),
                     [ins |-> Ins("brnz", None, Last(acc).ins.dst, None), upto |-> t.upto])
            ELSE IF t.ins.op = "mov" /\ t.ins.dst = t.ins.src THEN acc
            ELSE Append(acc, t)
    IN  FoldLeft(Add, << >>, Tagged(f))

-----------------------------------------------------------------------------
(***************************************************************************)
(* The emitters.  An instruction of the text is its operation, source and  *)
(* destination.  "mov" moves a value, "movq" always eight bytes.           *)
(***************************************************************************)
MovT(s, d)   == T("mov", s, d)

\* format_operand
Opd(o) == IF o[1] = "slot" THEN location[o[2]] ELSE o

MemToMem(s, d) == IsMem(s) /\ IsMem(d)

\* Faulty variant of ViaAcc: the destination is read into the accumulator.
ViaAccSwapped(s, d) ==
    IF MemToMem(s, d) THEN [pre |-> <<MovT(d, Acc)>>, s |-> Acc]
                      ELSE [pre |-> << >>, s |-> s]

\* check_move_src_2_reg
ViaAcc(s, d) ==
    IF MemToMem(s, d) THEN [pre |-> <<MovT(s, Acc)>>, s |-> Acc]
                      ELSE [pre |-> << >>, s |-> s]

MoveText(s, d) == LET v == ViaAcc(s, d) IN Append(v.pre, MovT(v.s, d))

LoadText(s, d) ==
    LET p == IF IsMem(s) THEN Rem ELSE s
    IN  (IF IsMem(s) THEN <<MovT(s, Rem)>> ELSE << >>)
        \o (IF IsMem(d) THEN <<MovT(Ind(p), Acc), MovT(Acc, d)>>
                        ELSE <<MovT(Ind(p), d)>>)

\* Through a pointer in memory the text lacks the blank after the mnemonic
\* (:255), so that no assembler takes it; here it runs as it is meant.
StoreText(s, d) ==
    IF IsMem(d) THEN <<MovT(d, Acc), MovT(s, Ind(Acc))>>
                ELSE <<MovT(s, Ind(d))>>

\* Faulty variant of ShiftText: the count register is not brought back.
ShiftTextNoPop(s, d) ==
    IF IsImm(s) THEN <<T("shl", s, d)>>
    ELSE IF d = Count
         THEN <<MovT(d, Rem), MovT(s, Count), T("shl", Count, Rem), MovT(Rem, d)>>
         ELSE <<MovT(s, Count), T("shl", Count, d)>>

ShiftText(s, d) ==
    IF IsImm(s) THEN <<T("shl", s, d)>>
    ELSE IF d = Count
         THEN <<MovT(d, Rem), MovT(s, Count), T("shl", Count, Rem), MovT(Rem, d)>>
         ELSE <<T("push", Count, None), MovT(s, Count), T("shl", Count, d),
                T("pop", None, Count)>>

\* mul and div, after their immediate has been put in place.
MulDivText(op, s, d) ==
    IF op = "mul" THEN <<MovT(d, Acc), T("imul", s, None), MovT(Acc, d)>>
    ELSE <<MovT(d, Acc), T("cltd", None, None), T("idiv", s, None),
           MovT(IF op = "mod" THEN Rem ELSE Acc, d)>>

CompareText(op, a, b, d) ==
    <<MovT(a, Acc), T("cmp", b, Acc), T("set", <<"op", op>>, Acc), MovT(Acc, d)>>

\* Faulty variant of CmpText: two operands in memory are compared.
CmpTextDirect(s, d) ==
    IF IsImm(d) THEN <<MovT(d, Acc), T("cmp", s, Acc)>> ELSE <<T("cmp", s, d)>>

CmpText(s, d) ==
    IF IsImm(d) \/ MemToMem(s, d) THEN <<MovT(d, Acc), T("cmp", s, Acc)>>
                                  ELSE <<T("cmp", s, d)>>

BrzText(s) ==
    (IF IsImm(s) THEN <<MovT(s, Acc), T("cmp", Imm(0), Acc)>>
                 ELSE <<T("cmp", Imm(0), s)>>) \o <<T("jz", None, None)>>

BrnzText(s) ==
    (IF IsReg(s) THEN <<T("cmp", Imm(0), s)>>
                 ELSE <<MovT(s, Acc), T("cmp", Imm(0), Acc)>>)
    \o <<T("jnz", None, None)>>

LogicText(s, d) ==
    <<MovT(s, Acc), MovT(d, Rem), T("both", Rem, Acc), MovT(Acc, d)>>

UnaryText(op, d) ==
    IF op = "neg" THEN <<T("neg", None, d)>>
    ELSE <<T("cmp", Imm(0), d), T("set", <<"op", "lnot">>, Acc), MovT(Acc, d)>>

\* Faulty variant of RtnText: the registers are popped as they were pushed.
RtnTextInOrder(s, need_save) ==
    <<MovT(s, Acc)>>
    \o [k \in 1 .. Len(need_save) |-> T("pop", None, Reg(need_save[k]))]
    \o <<T("leave", None, None), T("ret", None, None)>>

\* rtn; the callee saved registers are popped before every leave.
RtnText(s, need_save) ==
    <<MovT(s, Acc)>>
    \o [k \in 1 .. Len(need_save) |-> T("pop", None, Reg(need_save[Len(need_save) + 1 - k]))]
    \o <<T("leave", None, None), T("ret", None, None)>>

-----------------------------------------------------------------------------
(***************************************************************************)
(* Translation of a function: GenerateTextSection and translate().         *)
(***************************************************************************)
NoCalls == [saved |-> << >>, stack_args |-> << >>, param_index |-> 0, req_args |-> << >>]

Init ==
    /\ width \in Widths
    /\ program \in Programs
    /\ place \in Places
    /\ code = [n \in DOMAIN program |-> Optimums(program[n])]
    /\ phase = "begin" /\ fn = 1 /\ pc = 1
    /\ stack_offset = 0
    /\ location = [s \in Slots |-> None]
    /\ imm_loc = {}
    /\ f_regs_loc = [r \in {} |-> None]
    /\ tr = NoCalls
    /\ text = [n \in DOMAIN program |->
                   [prologue |-> << >>, body |-> << >>, slots |-> location]]
    /\ m = None /\ g = None

SpilledSlots(f) == {s \in SlotsOf(f) : place[s] = Spilled}

\* The n-th cell below rbp.
Below(n) == -(width * n)

\* Faulty variant of RspOffset: rsp is given a cell of an ordinary value.
RspOffsetNarrow(n) == Below(n + 1)

\* alloc_stack_64: eight bytes for rsp below n other cells.
RspOffset(n) == Below(n) - 8

\* Cells for the spilled slots, the caller saved registers and rsp.
BeginFunction ==
    LET spilled == SpilledSlots(program[fn])
        n_spilled == Cardinality(spilled)
        top == RspOffset(n_spilled + Len(CallerSaved))
    IN  /\ phase = "begin"
        /\ phase' = "translate" /\ pc' = 1
        /\ location' = [s \in Slots |->
               IF s \in spilled
               THEN Mem(Below(Cardinality({t \in spilled : t <= s})))
               ELSE IF IsReg(place[s]) THEN place[s] ELSE location[s]]
        /\ f_regs_loc' = [r \in ToSet(CallerSaved) \cup {"rsp"} |->
               IF r = "rsp" THEN Mem(top)
               ELSE Mem(Below(n_spilled +
                              CHOOSE k \in DOMAIN CallerSaved : CallerSaved[k] = r))]
        /\ stack_offset' = top
        /\ UNCHANGED <<inputs, fn, imm_loc, tr, text, m, g>>

Current == code[fn][pc].ins

Handles(ops) == phase = "translate" /\ pc \in DOMAIN code[fn] /\ Current.op \in ops

Put(chunk) ==
    /\ text' = [text EXCEPT ![fn].body =
                    Append(@, [ins |-> chunk, upto |-> code[fn][pc].upto])]
    /\ pc' = pc + 1
    /\ UNCHANGED <<inputs, phase, fn, location, f_regs_loc, m, g>>

Unallocated == UNCHANGED <<stack_offset, imm_loc>>

\* emit_mov_op
EmitMovOp ==
    LET s == Opd(Current.src)  d == Opd(Current.dst)
    IN  /\ Handles({"mov", "load", "store"})
        /\ Put(CASE Current.op = "mov"   -> MoveText(s, d)
                 [] Current.op = "load"  -> LoadText(s, d)
                 [] Current.op = "store" -> StoreText(s, d))
        /\ Unallocated /\ UNCHANGED tr

\* emit_binary_op, the operations without a place for an immediate.
EmitBinaryOp ==
    LET s == Opd(Current.src)  d == Opd(Current.dst)  v == ViaAcc(s, d)
    IN  /\ Handles({"add", "shl"})
        /\ Put(IF Current.op = "shl" THEN ShiftText(s, d)
               ELSE Append(v.pre, T("add", v.s, d)))
        /\ Unallocated /\ UNCHANGED tr

HasPlace(n) == \E l \in imm_loc : l[1] = n
PlaceOf(n)  == Mem((CHOOSE l \in imm_loc : l[1] = n)[2])

\* alloc_stack_for_immediate: a place that is not taken back.
EmitMulDiv ==
    LET s == Opd(Current.src)  d == Opd(Current.dst)
        new == stack_offset - width
    IN  /\ Handles({"mul", "div", "mod"})
        /\ IF IsImm(s) /\ ~HasPlace(s[2])
           THEN stack_offset' = new /\ imm_loc' = imm_loc \cup {<<s[2], new>>}
           ELSE Unallocated
        /\ LET p == IF ~IsImm(s) THEN s ELSE IF HasPlace(s[2]) THEN PlaceOf(s[2]) ELSE Mem(new)
           IN  Put((IF IsImm(s) THEN <<MovT(s, p)>> ELSE << >>)
                   \o MulDivText(Current.op, p, d))
        /\ UNCHANGED tr

\* emit_cmp_op and the conditional jumps.
EmitCmpOp ==
    LET s == Opd(Current.src)  d == Opd(Current.dst)
    IN  /\ Handles(CmpOps \cup {"cmp", "jn", "brz", "brnz"})
        /\ Put(CASE Current.op \in CmpOps -> CompareText(Current.op, s, Opd(Current.src2), d)
                 [] Current.op = "cmp"  -> CmpText(Opd(Current.src), d)
                 [] Current.op = "jn"   -> <<T("jn", Current.src2, None)>>
                 [] Current.op = "brz"  -> BrzText(s)
                 [] Current.op = "brnz" -> BrnzText(s))
        /\ Unallocated /\ UNCHANGED tr

\* emit_logic_op and emit_unary_op
EmitLogicOp ==
    LET s == Opd(Current.src)  d == Opd(Current.dst)
    IN  /\ Handles({"land", "neg", "lnot"})
        /\ Put(IF Current.op = "land" THEN LogicText(s, d) ELSE UnaryText(Current.op, d))
        /\ Unallocated /\ UNCHANGED tr

NeedSave(f) == SetToSeq(AlRegs(f) \cap CalleeSaved)

\* emit_spz_op
EmitRtn ==
    /\ Handles({"rtn"})
    /\ Put(RtnText(Opd(Current.src), NeedSave(program[fn])))
    /\ Unallocated /\ UNCHANGED tr

\* The caller saved registers of the function, in any order: each is moved to
\* a place of its own.
ToSave == SetToSeq(AlRegs(program[fn]) \cap ToSet(CallerSaved))

\* store_allocated_function_args
SaveText == [k \in DOMAIN ToSave |-> MovT(Reg(ToSave[k]), f_regs_loc[ToSave[k]])]

\* Where the value of an operand is while parameters are set up.
Kept(o) == IF IsReg(o) /\ o[2] \in ToSet(FRegs) THEN f_regs_loc[o[2]] ELSE o

\* Faulty variant of ParamText: the register is read, not where it was kept.
ParamTextDirect(o) == <<MovT(o, Reg(FRegs[tr.param_index + 1]))>>

ParamText(o) == <<MovT(Kept(o), Reg(FRegs[tr.param_index + 1]))>>

EmitParam ==
    LET first == tr.param_index = 0
        in_reg == tr.param_index < 6
    IN  /\ Handles({"param"})
        /\ Put((IF first THEN SaveText ELSE << >>)
               \o (IF in_reg THEN ParamText(Opd(Current.src)) ELSE << >>))
        /\ tr' = [tr EXCEPT !.param_index = @ + 1,
                            !.saved = IF first THEN @ \o ToSave ELSE @,
                            !.stack_args = IF in_reg THEN @ ELSE Append(@, Opd(Current.src))]
        /\ Unallocated

\* Faulty variant of NeedPad: no padding.
NoPad(args) == FALSE

NeedPad(args) == Len(args) % 2 = 1

\* What a call leaves in the translator.
Sent(t) == [t EXCEPT !.param_index = 0, !.stack_args = << >>, !.saved = << >>]

EmitCall ==
    LET late  == tr.saved = << >>
        saved == IF late THEN ToSave ELSE tr.saved
        args  == tr.stack_args
        pad   == IF NeedPad(args) THEN 8 ELSE 0
    IN  /\ Handles({"call"})
        /\ Put((IF late THEN SaveText ELSE << >>)
               \o <<T("movq", Reg("rsp"), f_regs_loc["rsp"]), T("alignsp", None, None),
                    T("subsp", Imm(pad), None)>>
               \o [k \in DOMAIN args |-> T("push", Kept(args[Len(args) + 1 - k]), None)]
               \o <<T("call", Imm(tr.param_index), None),
                    T("subsp", Imm(-(8 * Len(args) + pad)), None),
                    T("movq", f_regs_loc["rsp"], Reg("rsp"))>>
               \o [k \in DOMAIN saved |-> MovT(f_regs_loc[saved[k]], Reg(saved[k]))]
               \o <<MovT(Acc, Opd(Current.dst))>>)
        /\ tr' = Sent(tr)
        /\ Unallocated

EmitArg ==
    LET idx == Current.src[2]
        d == Opd(Current.dst)
    IN  /\ Handles({"arg"})
        /\ Put(IF idx < 6
               THEN IF IsReg(d) THEN <<MovT(f_regs_loc[FRegs[idx + 1]], d)>>
                                ELSE <<MovT(Reg(FRegs[idx + 1]), d)>>
               ELSE MoveText(Mem(16 + 8 * (idx - 6)), d))
        /\ tr' = IF idx < 6 /\ IsReg(d)
                 THEN [tr EXCEPT !.req_args = Append(@, FRegs[idx + 1])] ELSE tr
        /\ Unallocated

\* The text before the body, and Reset.
EndFunction ==
    LET need_save == NeedSave(program[fn])
    IN  /\ phase = "translate" /\ pc = Len(code[fn]) + 1
        /\ text' = [text EXCEPT ![fn].slots = location, ![fn].prologue =
               <<T("enter", None, None), T("subsp", Imm(-stack_offset), None)>>
               \o [k \in DOMAIN tr.req_args |->
                      MovT(Reg(tr.req_args[k]), f_regs_loc[tr.req_args[k]])]
               \o [k \in DOMAIN need_save |-> T("push", Reg(need_save[k]), None)]]
        /\ IF fn < Len(program) THEN fn' = fn + 1 /\ phase' = "begin"
                                ELSE fn' = fn /\ phase' = "emitted"
        /\ tr' = [NoCalls EXCEPT !.saved = tr.saved, !.stack_args = tr.stack_args]
        /\ stack_offset' = 0 /\ pc' = 1
        /\ f_regs_loc' = [r \in {} |-> None]
        /\ UNCHANGED <<inputs, location, imm_loc, m, g>>

-----------------------------------------------------------------------------
NParams(f) == Cardinality({k \in DOMAIN f : f[k].op = "arg"})

\* The caller of function n: its parameters, and its own values elsewhere.
Entry(f) ==
    [regs |-> [r \in Regs |->
        IF \E i \in DOMAIN FRegs : FRegs[i] = r /\ i <= NParams(f)
        THEN Full(<<"param", (CHOOSE i \in DOMAIN FRegs : FRegs[i] = r) - 1>>)
        ELSE Full(<<"entry", r>>)],
     mem |-> [a \in {-8, -4} \cup {4 * c : c \in 0 .. 2 * NParams(f)} |->
        IF a < 0 THEN <<"caller">>
        ELSE IF width = 8 \/ a % 8 = 0 THEN <<"param", 6 + a \div 8>> ELSE <<"junk", a>>],
     rsp |-> -8, rbp |-> <<"entry", "rbp">>, flags |-> <<Zero, Zero>>,
     aligned |-> TRUE, returned |-> None, events |-> << >>]

-----------------------------------------------------------------------------
(***************************************************************************)
(* What the two address code means.                                        *)
(***************************************************************************)
NoValue(s) == <<"none", s>>

Start == [val |-> [s \in Slots |-> NoValue(s)], params |-> << >>, events |-> << >>,
          result |-> None, upto |-> 0]

V(c, o) == IF o[1] = "slot" THEN c.val[o[2]] ELSE o

Assign(c, o, v) == [c EXCEPT !.val[o[2]] = v]

Meaning(c, i) ==
    CASE i.op = "arg"  -> Assign(c, i.dst, <<"param", i.src[2]>>)
      [] i.op = "mov"  -> Assign(c, i.dst, V(c, i.src))
      [] i.op = "load" -> Assign(c, i.dst, <<"load", V(c, i.src), Len(c.events)>>)
      [] i.op = "store" -> Event(c, <<"store", V(c, i.dst), V(c, i.src)>>)
      [] i.op \in {"add", "shl", "mul", "div", "mod", "land"} ->
             Assign(c, i.dst, <<i.op, V(c, i.dst), V(c, i.src)>>)
      [] i.op \in CmpOps -> Assign(c, i.dst, <<i.op, V(c, i.src), V(c, i.src2)>>)
      [] i.op \in {"neg", "lnot"} -> Assign(c, i.dst, <<i.op, V(c, i.dst)>>)
      [] i.op = "brz"  -> Event(c, OnZero(V(c, i.src)))
      [] i.op = "brnz" -> Event(c, OnNonZero(V(c, i.src)))
      [] i.op = "param" -> [c EXCEPT !.params = Append(@, V(c, i.src))]
      [] i.op = "call" ->
             [Event(Assign(c, i.dst, <<"result", Len(c.events)>>), <<"call", c.params>>)
                 EXCEPT !.params = << >>]
      [] i.op = "rtn"  -> [c EXCEPT !.result = V(c, i.src)]

\* The instructions up to number n of the function.
Advance(c, f, n) ==
    IF n = 0 THEN c
    ELSE [FoldLeft(Meaning, c, SubSeq(f, c.upto + 1, n)) EXCEPT !.upto = n]

Enter ==
    /\ phase = "emitted"
    /\ phase' = "run" /\ pc' = 1
    /\ \E n \in DOMAIN program :
           /\ fn' = n
           /\ m' = FoldLeft(Exec, Entry(program[n]), text[n].prologue)
    /\ g' = Start
    /\ UNCHANGED <<inputs, emitter>>

\* The text of one instruction, and what it stands for.
Run ==
    LET chunk == text[fn].body[pc]
    IN  /\ phase = "run" /\ pc \in DOMAIN text[fn].body
        /\ m' = FoldLeft(Exec, m, chunk.ins)
        /\ g' = Advance(g, program[fn], chunk.upto)
        /\ pc' = pc + 1
        /\ phase' = IF \E t \in ToSet(chunk.ins) : t.op = "ret" THEN "returned" ELSE "run"
        /\ UNCHANGED <<inputs, fn, emitter>>

Next == \/ BeginFunction \/ EndFunction
        \/ EmitMovOp \/ EmitBinaryOp \/ EmitMulDiv \/ EmitCmpOp \/ EmitLogicOp \/ EmitRtn
        \/ EmitParam \/ EmitCall \/ EmitArg
        \/ Enter \/ Run

Spec == Init /\ [][Next]_vars

-----------------------------------------------------------------------------
(***************************************************************************)
(* Properties.                                                             *)
(***************************************************************************)
DstRead == {"add", "shl", "mul", "div", "mod", "land", "neg", "lnot", "store"}

Reads(i) == {s \in Slots : \/ SlotOf(s) \in {i.src, i.src2}
                           \/ SlotOf(s) = i.dst /\ i.op \in DstRead}

Writes(i) == {s \in Slots : SlotOf(s) = i.dst /\ i.op # "store"}

\* The slots whose value after instruction n is read later.
NeededAfter(f, n) ==
    {s \in Slots : \E j \in n + 1 .. Len(f) :
        /\ s \in Reads(f[j])
        /\ \A l \in n + 1 .. j - 1 : s \notin Writes(f[l])}

\* A parameter goes to memory straight from its register, after an earlier
\* parameter has been moved into that register.
ParameterOverwritten(f) ==
    \E i, j \in DOMAIN f :
        /\ i < j /\ f[i].op = "arg" /\ f[j].op = "arg" /\ f[j].src[2] < 6
        /\ place[f[j].dst[2]] = Spilled
        /\ place[f[i].dst[2]] = Reg(FRegs[f[j].src[2] + 1])

\* The immediates that get a place in memory.
Placed(f) == {i \in {f[k].src : k \in {l \in DOMAIN f : f[l].op \in {"mul", "div", "mod"}}} :
                 IsImm(i)}

\* An immediate of function n has its place in the frame of an earlier one.
StaleImmediate(n) == \E l \in 1 .. n - 1 : Placed(program[n]) \cap Placed(program[l]) # {}

Sound(n) == ~ParameterOverwritten(program[n]) /\ ~StaleImmediate(n)

AllHold == \A s \in NeededAfter(program[fn], g.upto) :
               ValueOf(m, text[fn].slots[s]) = g.val[s]

\* Between any two instructions the place of every slot that is read later
\* holds the value the two address code gives it: over calls, borrowed
\* registers, accumulators and parameters (translate, emit_func_op); only
\* between the parameters and their call it may be in the saved registers.
ValuesKept == phase = "run" /\ Sound(fn) /\ g.params = << >> => AllHold

\* Branches test, stores write and calls receive the values the two address
\* code says, in its order, also where Optimums merged two instructions, and
\* rtn leaves the result in the accumulator.
SameEffects ==
    phase \in {"run", "returned"} /\ Sound(fn)
        => /\ IsPrefix(g.events, m.events)
           /\ \/ m.events = g.events
              \/ pc > 1 /\ text[fn].body[pc - 1].upto = 0
           /\ phase = "returned" => ValueOf(m, Acc) = g.result

CalleeSavedIntact == \A r \in CalleeSaved : Join(m.regs[r]) = <<"entry", r>>

\* The caller gets back its callee saved registers, its stack pointer, its
\* frame pointer and the memory above (GenerateTextSection, emit_spz_op).
ReturnsToCaller ==
    phase = "returned" /\ Sound(fn)
        => /\ CalleeSavedIntact
           /\ m.rsp = 0 /\ m.rbp = <<"entry", "rbp">> /\ m.returned = <<"caller">>
           /\ \A a \in DOMAIN Entry(program[fn]).mem :
                  Cell(m, a) = Entry(program[fn]).mem[a]

\* rsp is a multiple of 16 at every call, whatever the frame and the number
\* of stack arguments (the `and' and the padding of emit_func_op).
CallsAligned == phase \in {"run", "returned"} => m.aligned

\* The areas of a frame as <<lowest byte, size>>.
FrameAreas ==
    {<<location[s][2], width>> : s \in SpilledSlots(program[fn])}
    \cup {<<f_regs_loc[r][2], width>> : r \in ToSet(CallerSaved)}
    \cup {<<f_regs_loc["rsp"][2], 8>>}
    \cup {<<l[2], width>> : l \in {i \in imm_loc :
             ~\E n \in 1 .. fn - 1 : Imm(i[1]) \in Placed(program[n])}}

\* What a function keeps in its frame lies inside of it, and no two of these
\* areas meet (alloc_stack, alloc_stack_64, alloc_stack_for_immediate).
FrameApart ==
    phase = "translate"
        => /\ \A a \in FrameAreas : stack_offset <= a[1] /\ a[1] + a[2] <= 0
           /\ \A a, b \in FrameAreas :
                  a # b => a[1] + a[2] <= b[1] \/ b[1] + b[2] <= a[1]
           /\ Cardinality(FrameAreas) >=
                  Cardinality(SpilledSlots(program[fn])) + Len(CallerSaved) + 1

InMemory(o) == o[1] \in {"mem", "ind"}

Encodable(t) ==
    /\ ~(InMemory(t.s) /\ InMemory(t.d))
    /\ ~IsImm(t.d)
    /\ t.op \in {"imul", "idiv"} => ~IsImm(t.s)
    /\ t.op = "shl" => IsImm(t.s) \/ t.s = Count

Chunks == UNION {{n} \X DOMAIN text[n].body : n \in DOMAIN program}

ChunkIns(c) == code[c[1]][c[2]].ins

\* An instruction of the text has at most one operand in memory, none into an
\* immediate (check_move_src_2_reg, emit_mov_op, emit_cmp_op): true of all but
\* a store of which an operand is in memory.
FormsEncodable ==
    phase = "emitted"
        => \A c \in Chunks :
               \/ ChunkIns(c).op = "store"
                  /\ \E o \in {ChunkIns(c).src, ChunkIns(c).dst} : IsMem(Opd(o))
               \/ \A t \in ToSet(text[c[1]].body[c[2]].ins) : Encodable(t)

\* A function restores the callee saved registers (kCalleeSavedReg,
\* X86Translator.cpp:65) it writes, whatever was translated before it.
CalleeSavedKept == phase = "returned" => CalleeSavedIntact

=============================================================================
