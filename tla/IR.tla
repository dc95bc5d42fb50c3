--------------------------------- MODULE IR ---------------------------------
(***************************************************************************)
(* The three address instructions of the intermediate representation       *)
(* (model/IRInstruction.cpp).  A symbol is a pair of a kind and a number;  *)
(* what the immediates and the operators compute is left out.              *)
(***************************************************************************)
EXTENDS Naturals, Sequences

NoSym   == <<"none", 0>>
Imm     == <<"imm", 0>>
User(n) == <<"user", n>>        \* a declared variable or a parameter
Tmp(n)  == <<"tmp", n>>         \* tmp_ir_<n>
Lab(n)  == <<"label", n>>       \* label_ir_<n>
Unknown(n) == <<"unknown", n>>  \* an immediate made of an undeclared name
Func    == <<"function", 0>>
Callee  == <<"function", 1>>
Slot(n) == <<"slot", n>>        \* ir_slot_<n>

\* IsVariable tests the value "variable" of an IR symbol.
IsVariable(s) == s[1] \in {"user", "tmp", "slot"}

\* An instruction with one destination and two sources: an IRInstructionA3, or
\* an IRInstructionA2, whose destination is also its first operand.
Ins(op, dst, src1, src2) ==
    [form |-> "A3", op |-> op, dst |-> dst, srcs |-> <<src1, src2>>]
InsA2(op, dst, src, src_2) ==
    [form |-> "A2", op |-> op, dst |-> dst, srcs |-> <<src, src_2>>]

BinOps   == {"add", "sub", "mul"}
CmpOps   == {"lt", "ge"}
CondJump == {"brz", "brnz"}

IsCondJump(op) == op \in CondJump
IsJump(op)     == op = "jmp" \/ IsCondJump(op)

Vars(S) == {s \in S : IsVariable(s)}

\* IRInstructionA3::Use is the sources; IRInstructionA2::Use the destination too.
Use(i) == Vars({i.srcs[1], i.srcs[2]} \cup (IF i.form = "A2" THEN {i.dst} ELSE {}))
Def(i) == Vars({i.dst})

=============================================================================
