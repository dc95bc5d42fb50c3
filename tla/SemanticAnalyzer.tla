-------------------------- MODULE SemanticAnalyzer --------------------------
(***************************************************************************)
(* The semantic analysis of one function (handlers/SemanticHandlers.cpp):  *)
(* declared and initialised variables, breaks outside of loops, and that a *)
(* function returns.  Types are left out.                                  *)
(*                                                                         *)
(* The state of the traversal:                                             *)
(*   visible  the variables the current scope sees                         *)
(*   known    all variables recorded in the symbol table                   *)
(*   has_init the variables with the metadata kHAS_INIT                    *)
(*   ok       no error so far (succ_)                                      *)
(*   ret, brk kWILL_RETURN and kWILL_BREAK of the statement just visited   *)
(***************************************************************************)
EXTENDS AST

Plain(st) == [st EXCEPT !.ret = FALSE, !.brk = FALSE]

\* SMIdentHandler for every identifier of the expression.
SMIdent(e, st) ==
    [st EXCEPT !.ok = @ /\ Idents(e) \subseteq st.visible \cap st.has_init]

\* The subscripts of a left value.
RECURSIVE Subscripts(_)
Subscripts(lhs) ==
    CASE lhs.k = "ident"              -> {}
      [] lhs.k \in {"deref", "field"} -> Subscripts(lhs.e)
      [] lhs.k = "index"              -> Subscripts(lhs.a) \cup {lhs.i}

(***************************************************************************)
(* SMAssignHandler.  The variable a left value begins with needs a         *)
(* declaration but no value, also below a dereference, as an array, and    *)
(* where a compound assignment reads the place.                            *)
(***************************************************************************)
SMAssign(s, st) ==
    LET read == Idents(s.e) \cup UNION {Idents(i) : i \in Subscripts(s.lhs)}
        init == IF s.lhs.k = "ident" THEN {s.lhs.v} ELSE {}
    IN  Plain([st EXCEPT
            !.ok = @ /\ read \subseteq st.visible \cap st.has_init
                     /\ Idents(s.lhs) \subseteq st.visible,
            !.has_init = @ \cup init])

\* A variable that is both read and assigned is in the tree as two nodes.
SMCompound(s, st) == SMAssign(IF s.lhs.k = "ident" THEN Expanded(s) ELSE s, st)

\* SMDeclareHandler: no shadowing.
SMDeclare(s, st) ==
    Plain([st EXCEPT !.ok = @ /\ s.v \notin st.visible,
                     !.visible = @ \cup {s.v},
                     !.known = @ \cup {s.v}])

\* SMReturnHandler: what follows is not reached, so all counts as initialised.
SMReturn(s, st) ==
    [SMIdent(s.e, st) EXCEPT !.has_init = @ \cup st.visible,
                             !.ret = TRUE, !.brk = FALSE]

SMContinueBreak(s, in_loop, st) ==
    [st EXCEPT !.ok = @ /\ in_loop, !.ret = FALSE, !.brk = (s.k = "break")]

\* Faulty variant of IfReturns: one branch is enough.
IfReturnsEither(then, else) == then.ret \/ else.ret

\* SMIfHandler with an else: both branches must return.
IfReturns(then, else) == then.ret /\ else.ret

\* The else branch is not asked for kWILL_BREAK.
IfBreaks(then, else) == then.brk

RECURSIVE SMVisit(_, _, _)

\* SMMeaninglessHandler: a block stops after a child that will break.
SMBlock(s, in_loop, st) ==
    LET Child(acc, c) ==
            IF acc.brk THEN acc
            ELSE LET v == SMVisit(c, in_loop, acc)
                 IN  [v EXCEPT !.ret = @ \/ acc.ret]
    IN  [FoldLeft(Child, Plain(st), s.body) EXCEPT !.visible = st.visible]

\* SMIfHandler.
SMIf(s, in_loop, st) == Plain(SMVisit(s.t, in_loop, SMIdent(s.c, st)))

SMIfElse(s, in_loop, st) ==
    LET then == SMVisit(s.t, in_loop, SMIdent(s.c, st))
        else == SMVisit(s.e, in_loop, then)
    IN  [else EXCEPT !.ret = IfReturns(then, else), !.brk = IfBreaks(then, else)]

(***************************************************************************)
(* SMWhileHandler with fewer than three children: a while, and also a for  *)
(* that has only a condition and a body.  What the body initialised is     *)
(* forgotten, here only.                                                   *)
(***************************************************************************)
TwoChildren(s) == s.init = NoStmt /\ s.step = NoStmt

SMWhile(s, st) ==
    LET body == SMVisit(s.b, TRUE, SMIdent(s.c, st))
    IN  Plain([body EXCEPT !.has_init = @ \ (st.visible \ st.has_init),
                           !.visible = IF s.k = "for" THEN st.visible ELSE @])

SMFor(s, st) ==
    LET init == SMVisit(s.init, TRUE, st)
        body == SMVisit(s.b, TRUE, SMIdent(s.c, init))
        step == SMVisit(s.step, TRUE, body)
    IN  Plain([step EXCEPT !.ok = @ /\ s.step.k # "decl", !.visible = st.visible])

SMVisit(s, in_loop, st) ==
    CASE s.k = "none"   -> Plain(st)
      [] s.k = "decl"   -> SMDeclare(s, st)
      [] s.k = "assign" -> SMAssign(s, st)
      [] s.k = "compound" -> SMCompound(s, st)
      [] s.k = "return" -> SMReturn(s, st)
      [] s.k \in {"break", "continue"} -> SMContinueBreak(s, in_loop, st)
      [] s.k = "block"  -> SMBlock(s, in_loop, st)
      [] s.k = "if"     -> SMIf(s, in_loop, st)
      [] s.k = "ifelse" -> SMIfElse(s, in_loop, st)
      [] s.k \in {"while", "for"} -> IF TwoChildren(s) THEN SMWhile(s, st)
                                                       ELSE SMFor(s, st)

\* SMProgramHandler records the parameters, SMFunctionHandler visits the body.
SMFunction(params, body) ==
    SMVisit(body, FALSE,
            [visible |-> params, known |-> params, has_init |-> params,
             ok |-> TRUE, ret |-> FALSE, brk |-> FALSE])

\* What Analyze says of the function.
SMAccepts(r) == r.ok /\ r.ret

=============================================================================
