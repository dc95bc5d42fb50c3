---------------------------- MODULE IRGenerator ----------------------------
(***************************************************************************)
(* Lowering of one function body to three address code                     *)
(* (handlers/IRHandlers.cpp) and the peephole pass IRGenerator::optimums.  *)
(*                                                                         *)
(* The environment of a node: the labels of the innermost loop, which      *)
(* Symbol::Inheritance hands down the tree, the names its scope sees, and  *)
(* all names the semantic analysis recorded.                               *)
(***************************************************************************)
EXTENDS AST, ControlFlowGraph

Env(visible, known) ==
    [cont |-> NoSym, brk |-> NoSym, visible |-> visible, known |-> known]

\* The lookup goes by scope alone: a declaration further down counts.
EnterScope(env, ss) ==
    [env EXCEPT !.visible = @ \cup (DeclaredIn(ss) \cap env.known)]

\* MapSymbol: a name that is not in the symbol table becomes an immediate.
MapSymbol(env, n) == IF n \in env.visible THEN User(n) ELSE Unknown(n)

(***************************************************************************)
(* The lowering state: the instructions so far, the counter tmp_var_idx_   *)
(* shared by temporaries and labels, the value of the last expression, and *)
(* the symbols with the metadata kIS_ADDRESS.                              *)
(***************************************************************************)
Ctx(ins, idx) == [ins |-> ins, idx |-> idx, val |-> NoSym, is_address |-> {}]

Emit(c, is)    == [c EXCEPT !.ins = @ \o is]
Fresh(c, n)    == [c EXCEPT !.idx = @ + n]
Yield(c, sym)  == [c EXCEPT !.val = sym]
Address(c, syms) == [c EXCEPT !.is_address = @ \cup syms]
LabelIns(l)    == Ins("label", NoSym, l, NoSym)
JmpIns(l)      == Ins("jmp", NoSym, l, NoSym)
BrzIns(s, l)   == Ins("brz", NoSym, s, l)
BrnzIns(s, l)  == Ins("brnz", NoSym, s, l)

\* An expression as a value, and as a place (is_lhs).
RECURSIVE Exp(_, _, _)
RECURSIVE Place(_, _, _)

\* IRBinOpHandler: the temporary is made between the two operands.
BinOp(e, env, c) ==
    LET l == Exp(e.l, env, c)
        t == Tmp(l.idx)
        r == Exp(e.r, env, Fresh(l, 1))
        op == IF e.k = "bin" THEN "add" ELSE "lt"
    IN  Yield(Emit(r, <<Ins(op, t, l.val, r.val)>>), t)

\* IRBinOpHandler for &&: false unless both operands let it pass.
AndOp(e, env, c) ==
    LET l == Exp(e.l, env, c)
        t == Tmp(l.idx)
        end == Lab(l.idx + 1)
        r == Exp(e.r, env, Emit(Fresh(l, 2), <<Ins("mov", t, Imm, NoSym),
                                               BrzIns(l.val, end)>>))
    IN  Yield(Emit(r, <<BrzIns(r.val, end), Ins("mov", t, Imm, NoSym),
                        LabelIns(end)>>), t)

\* IRBinOpHandler for ||: true unless both operands let it pass.
OrOp(e, env, c) ==
    LET l == Exp(e.l, env, c)
        t == Tmp(l.idx)
        end == Lab(l.idx + 1)
        r == Exp(e.r, env, Emit(Fresh(l, 2), <<Ins("mov", t, Imm, NoSym),
                                               BrnzIns(l.val, end)>>))
    IN  Yield(Emit(r, <<BrnzIns(r.val, end), Ins("mov", t, Imm, NoSym),
                        LabelIns(end)>>), t)

\* IRCondHandler: the else part is evaluated twice.
CondExp(e, env, c) ==
    LET c0 == Exp(e.c, env, c)
        then == Lab(c0.idx)
        else == Lab(c0.idx + 1)
        end  == Lab(c0.idx + 2)
        t    == Tmp(c0.idx + 3)
        c1 == Exp(e.t, env, Emit(Fresh(c0, 4), <<BrzIns(c0.val, else),
                                                 LabelIns(then)>>))
        c2 == Emit(c1, <<Ins("mov", t, c1.val, NoSym), JmpIns(end),
                         LabelIns(else)>>)
        c3 == Exp(e.e, env, Exp(e.e, env, c2))
    IN  Yield(Emit(c3, <<Ins("mov", t, c3.val, NoSym), LabelIns(end)>>), t)

\* IRUnOpExpHandler for *, after its operand: the value, or with is_lhs the address.
DerefOp(is_lhs, c) ==
    LET t  == Tmp(c.idx)
        t1 == Tmp(c.idx + 1)
        op == IF is_lhs THEN "mov" ELSE "load"
        c1 == Emit(Fresh(c, 2), <<Ins("mov", t, c.val, NoSym), Ins(op, t1, t, NoSym)>>)
    IN  Yield(Address(c1, IF is_lhs THEN {t1} ELSE {}), t1)

\* abort is called, and returned.
AbortIns(abort, t) ==
    <<LabelIns(abort), Ins("call", t, Callee, NoSym), Ins("rtn", NoSym, t, NoSym)>>

(***************************************************************************)
(* IRArrayAccessHandler, for elements of more than one byte: the subscript *)
(* is compared with zero and with the length in front of the elements.     *)
(* The symbol a of the array is marked as an address, for good.  c is the  *)
(* state after the array and the subscript were lowered.                   *)
(***************************************************************************)
ArrayAccess(a, is_lhs, c) ==
    LET i == c.val
        n == c.idx
        abort == Lab(n)
        after == Lab(n + 1)
        p_arr_length == Tmp(n + 3)
        addr  == Tmp(n + 7)
        value == Tmp(n + 8)
        op == IF is_lhs THEN "mov" ELSE "load"
        ins == <<Ins("lt", Tmp(n + 2), i, Imm), BrnzIns(Tmp(n + 2), abort),
                 Ins("mov", p_arr_length, a, NoSym),
                 Ins("sub", p_arr_length, p_arr_length, Imm),
                 Ins("load", Tmp(n + 4), p_arr_length, NoSym),
                 Ins("ge", Tmp(n + 5), i, Tmp(n + 4)), BrnzIns(Tmp(n + 5), abort),
                 Ins("mul", Tmp(n + 6), i, Imm),
                 Ins("add", addr, a, Tmp(n + 6)),
                 Ins(op, value, addr, NoSym), JmpIns(after)>>
               \o AbortIns(abort, Tmp(n + 9)) \o <<LabelIns(after)>>
    IN  Yield(Address(Emit(Fresh(c, 10), ins),
                      {a, p_arr_length, addr} \cup IF is_lhs THEN {value} ELSE {}), value)

\* IRFieldAccessHandler: the struct is a place, whether the field is or not.
FieldAccess(is_lhs, c) ==
    LET addr == Tmp(c.idx)
        value == Tmp(c.idx + 1)
        c1 == Address(Emit(Fresh(c, 1), <<Ins("add", addr, c.val, Imm)>>), {addr})
    IN  IF is_lhs THEN Yield(c1, addr)
        ELSE Yield(Emit(Fresh(c1, 1), <<Ins("load", value, addr, NoSym)>>), value)

\* IRCallHandler, for a function of one parameter: the arguments are evaluated
\* before the first of them is passed.
CallExp(e, env, c) ==
    LET a == Exp(e.a, env, c)
        t == Tmp(a.idx)
    IN  Yield(Emit(Fresh(a, 1), <<Ins("param", NoSym, a.val, NoSym),
                                  Ins("call", t, Callee, NoSym)>>), t)

\* IRCallHandler for alloc_array: a negative length aborts; one element more is
\* allocated, in front, to hold the length.
AllocArrayExp(c) ==
    LET n   == c.idx
        ret == Tmp(n)
        abort == Lab(n + 1)
        after == Lab(n + 2)
    IN  Yield(Emit(Fresh(c, 6),
            <<Ins("lt", Tmp(n + 3), c.val, Imm), BrnzIns(Tmp(n + 3), abort), JmpIns(after)>>
            \o AbortIns(abort, Tmp(n + 4))
            \o <<LabelIns(after), Ins("add", Tmp(n + 5), c.val, Imm),
                 Ins("param", NoSym, Tmp(n + 5), NoSym), Ins("param", NoSym, Imm, NoSym),
                 Ins("call", ret, Callee, NoSym), Ins("store", ret, c.val, NoSym),
                 Ins("add", ret, ret, Imm)>>), ret)

\* The array has been lowered, its subscript not yet.
ElementOf(e, is_lhs, env, ident) == ArrayAccess(ident.val, is_lhs, Exp(e.i, env, ident))

Exp(e, env, c) ==
    CASE e.k = "imm"             -> Yield(c, Imm)
      [] e.k = "ident"           -> Yield(c, MapSymbol(env, e.v))
      [] e.k \in {"bin", "cmp"} -> BinOp(e, env, c)
      [] e.k = "and"             -> AndOp(e, env, c)
      [] e.k = "or"              -> OrOp(e, env, c)
      [] e.k = "cond"            -> CondExp(e, env, c)
      [] e.k = "deref"           -> DerefOp(FALSE, Exp(e.e, env, c))
      [] e.k = "index"           -> ElementOf(e, FALSE, env, Exp(e.a, env, c))
      [] e.k = "field"           -> FieldAccess(FALSE, Place(e.e, env, c))
      [] e.k = "call"            -> CallExp(e, env, c)
      [] e.k = "alloc_array"     -> AllocArrayExp(Exp(e.a, env, c))

Place(e, env, c) ==
    CASE e.k = "ident" -> Yield(c, MapSymbol(env, e.v))
      [] e.k = "deref" -> DerefOp(TRUE, Exp(e.e, env, c))
      [] e.k = "index" -> ElementOf(e, TRUE, env, Exp(e.a, env, c))
      [] e.k = "field" -> FieldAccess(TRUE, Place(e.e, env, c))

\* IRAssignExpHandler: the value, then the place.  It is the symbol of the
\* place that says whether the value is moved to it or stored where it points.
AssignIns(s, env, c) ==
    LET rhs == Exp(s.e, env, c)
        To(lhs, value) ==
            LET op == IF lhs.val \in lhs.is_address THEN "store" ELSE "mov"
            IN  Emit(lhs, <<Ins(op, lhs.val, value, NoSym)>>)
    IN  To(Place(s.lhs, env, rhs), rhs.val)

\* IRContinueBreakHandler: nothing without an enclosing loop.
JumpOut(label, c) == IF label = NoSym THEN c ELSE Emit(c, <<JmpIns(label)>>)

\* Faulty variant of LoopEnv: continue does not run the step of a for.
LoopEnvToCond(env, cond, step, end) == [env EXCEPT !.cont = cond, !.brk = end]

\* continue goes to the step of a loop, break to its end.
LoopEnv(env, cond, step, end) == [env EXCEPT !.cont = step, !.brk = end]

RECURSIVE Stmt(_, _, _)

\* IRMeaninglessHandler.
BlockStmt(s, env, c) ==
    LET inner == EnterScope(env, s.body)
        Step(acc, child) == Stmt(child, inner, acc)
    IN  FoldLeft(Step, c, s.body)

\* IRReturnHandler.
ReturnStmt(s, env, c) ==
    LET v == Exp(s.e, env, c)
    IN  Emit(v, <<Ins("rtn", NoSym, v.val, NoSym)>>)

\* IRIfHandler without and with an else.
IfStmt(s, env, c) ==
    LET c0 == Exp(s.c, env, c)
        then == Lab(c0.idx)
        end  == Lab(c0.idx + 1)
    IN  Emit(Stmt(s.t, env, Emit(Fresh(c0, 2), <<BrzIns(c0.val, end),
                                                 LabelIns(then)>>)),
             <<LabelIns(end)>>)

IfElseStmt(s, env, c) ==
    LET c0 == Exp(s.c, env, c)
        then == Lab(c0.idx)
        else == Lab(c0.idx + 1)
        end  == Lab(c0.idx + 2)
        c1 == Stmt(s.t, env, Emit(Fresh(c0, 3), <<BrzIns(c0.val, else),
                                                  LabelIns(then)>>))
        c2 == Stmt(s.e, env, Emit(c1, <<JmpIns(end), LabelIns(else)>>))
    IN  Emit(c2, <<LabelIns(end)>>)

\* IRWhileHandler, for both loops.
LoopStmt(s, env, c) ==
    LET cond == Lab(c.idx)
        body == Lab(c.idx + 1)
        step == Lab(c.idx + 2)
        end  == Lab(c.idx + 3)
        scope == IF s.k = "for" THEN EnterScope(env, <<s.init, s.step, s.b>>)
                                ELSE env
        inner == LoopEnv(scope, cond, step, end)
        c1 == Stmt(s.init, scope, Fresh(c, 4))
        c2 == Exp(s.c, scope, Emit(c1, <<LabelIns(cond)>>))
        c3 == Stmt(s.b, inner, Emit(c2, <<BrzIns(c2.val, end), LabelIns(body)>>))
        c4 == Stmt(s.step, inner, Emit(c3, <<LabelIns(step)>>))
    IN  Emit(c4, <<JmpIns(cond), LabelIns(end)>>)

Stmt(s, env, c) ==
    CASE s.k \in {"none", "decl"} -> c
      [] s.k = "assign"   -> AssignIns(s, env, c)
      [] s.k = "compound" -> AssignIns(Expanded(s), env, c)
      [] s.k = "continue" -> JumpOut(env.cont, c)
      [] s.k = "break"    -> JumpOut(env.brk, c)
      [] s.k = "return"   -> ReturnStmt(s, env, c)
      [] s.k = "block"    -> BlockStmt(s, env, c)
      [] s.k = "if"       -> IfStmt(s, env, c)
      [] s.k = "ifelse"   -> IfElseStmt(s, env, c)
      [] s.k \in {"while", "for"} -> LoopStmt(s, env, c)

\* IRFunctionHandler: the function's label, its parameters, its body.
FunctionIR(params, known, body) ==
    Stmt(body, Env(params, known),
         Ctx(<<LabelIns(Func)>> \o SetToSeq({Ins("arg", User(p), Imm, NoSym) : p \in params}),
             0)).ins

(***************************************************************************)
(* IRGenerator::optimums: a binary operation into a temporary that is then *)
(* moved onto the first operand writes the operand directly.               *)
(***************************************************************************)
Fuses(last, i) ==
    /\ i.op = "mov" /\ last.op \in BinOps
    /\ i.srcs[1] = last.dst
    /\ i.dst = last.srcs[1]

Optimums(ir) ==
    LET Visit(acc, i) ==
            IF acc # << >> /\ Fuses(Last(acc), i)
            THEN [acc EXCEPT ![Len(acc)].dst = i.dst]
            ELSE Append(acc, i)
    IN  FoldLeft(Visit, << >>, ir)

=============================================================================
