--------------------------- MODULE MCX86Translator ---------------------------
(***************************************************************************)
(* Functions and places for the model of the translator.                   *)
(***************************************************************************)
EXTENDS X86Translator, TLC

CONSTANT Pool           \* registers for the slots 1 to 4

S(n) == SlotOf(n)
Arg(s, n)      == Ins("arg", S(s), Imm(n), None)
Op2(op, s, o)  == Ins(op, S(s), o, None)
Cmp3(op, s, a, b) == Ins(op, S(s), a, b)
Param(o)       == Ins("param", None, o, None)
CallTo(s)      == Ins("call", S(s), None, None)
Test(op, s)    == Ins(op, None, S(s), None)
Rtn(o)         == Ins("rtn", None, o, None)

\* Arithmetic that needs the accumulator, rdx, rcx and places for immediates.
Arithmetic ==
    <<Arg(1, 0), Arg(2, 1), Op2("mul", 1, Imm(5)), Op2("div", 2, S(1)),
      Op2("mov", 3, S(2)), Op2("shl", 1, S(2)), Op2("mod", 3, Imm(7)),
      Op2("shl", 2, S(2)), Op2("add", 3, S(1)), Op2("mul", 3, Imm(5)),
      Op2("add", 3, S(2)), Rtn(S(3))>>

\* A call in the middle, then a call without parameters.
Calling ==
    <<Arg(1, 0), Arg(2, 1), Arg(3, 2), Param(S(3)), Param(S(1)), Param(Imm(5)),
      Param(S(2)), CallTo(4), Op2("add", 4, S(1)), CallTo(1),
      Op2("add", 4, S(1)), Op2("add", 4, S(3)), Rtn(S(4))>>

\* More parameters than registers, in and out.
Stacked(n) ==
    <<Arg(1, 0), Arg(2, 1), Arg(3, 2), Arg(5, 3), Arg(6, 4), Arg(7, 5), Arg(4, 6),
      Arg(8, 7)>>
    \o [k \in 1 .. n |-> Param(S(9 - k))]
    \o <<CallTo(3), Op2("add", 3, S(8)), Op2("add", 3, S(1)), Op2("add", 3, S(4)), Rtn(S(3))>>

\* Compares and negations with and without a branch after them.
Branching ==
    <<Arg(1, 0), Arg(2, 1), Cmp3("lt", 3, S(1), S(2)), Test("brz", 3),
      Op2("mov", 3, S(1)), Ins("lnot", S(3), None, None), Test("brz", 3),
      Cmp3("eq", 4, Imm(5), S(2)), Test("brz", 4),
      Op2("mov", 4, S(1)), Ins("lnot", S(4), None, None), Test("brz", 2),
      Cmp3("lt", 3, S(2), S(1)), Test("brnz", 3),
      Op2("land", 3, S(2)), Ins("neg", S(4), None, None), Op2("add", 4, S(3)), Rtn(S(4))>>

Memory ==
    <<Arg(1, 0), Arg(2, 1), Op2("load", 3, S(1)), Op2("store", 1, S(2)),
      Op2("load", 2, S(2)), Op2("store", 2, Imm(5)), Op2("add", 2, S(3)), Rtn(S(2))>>

\* A function that multiplies by 5 and by 7 and keeps a slot over it.
Scaling ==
    <<Arg(1, 0), Op2("mul", 1, Imm(5)), Op2("mul", 1, Imm(7)), Rtn(S(1))>>

OwnFrames ==
    {<<Calling, Arithmetic>>, <<Stacked(7)>>, <<Stacked(8)>>,
     <<Branching>>, <<Memory, Scaling>>, <<Scaling, Scaling>>}

SharedImmediates == {<<Scaling, Scaling>>}

\* Different slots have different registers; 5 to 8 complete a full frame.
AllPlaces ==
    {[s \in Slots |-> IF s <= 4 THEN p[s]
                      ELSE (5 :> Reg("r8") @@ 6 :> Reg("r12") @@ 7 :> Spilled @@ 8 :> Reg("r11"))[s]] :
        p \in {q \in [1 .. 4 -> {Reg(r) : r \in Pool} \cup {Spilled}] :
                  \A s, t \in 1 .. 4 : s # t /\ q[s] = q[t] => q[s] = Spilled}}

=============================================================================
