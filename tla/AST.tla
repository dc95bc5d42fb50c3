-------------------------------- MODULE AST --------------------------------
(***************************************************************************)
(* The syntax tree of a function body (core/Parser.y, model/AST.cpp).      *)
(* Types are left out and all operators of one shape are one operator.     *)
(* A name is a number; no name is declared twice in a body.                *)
(***************************************************************************)
EXTENDS Naturals, Sequences, SequencesExt

ImmE           == [k |-> "imm"]
Ident(n)       == [k |-> "ident", v |-> n]
Bin(l, r)      == [k |-> "bin", l |-> l, r |-> r]
Cmp(l, r)      == [k |-> "cmp", l |-> l, r |-> r]
And(l, r)      == [k |-> "and", l |-> l, r |-> r]
Or(l, r)       == [k |-> "or", l |-> l, r |-> r]
CondE(c, t, e) == [k |-> "cond", c |-> c, t |-> t, e |-> e]
Deref(e)       == [k |-> "deref", e |-> e]
Field(e)       == [k |-> "field", e |-> e]
Element(a, i)  == [k |-> "index", a |-> a, i |-> i]
Call(a)        == [k |-> "call", a |-> a]
AllocArray(n)  == [k |-> "alloc_array", a |-> n]

NoStmt          == [k |-> "none"]       \* an absent part of a for
Decl(n)         == [k |-> "decl", v |-> n]
Assign(lhs, e)  == [k |-> "assign", lhs |-> lhs, e |-> e]
Compound(lhs, e) == [k |-> "compound", lhs |-> lhs, e |-> e]      \* lhs op= e
Return(e)       == [k |-> "return", e |-> e]
Break           == [k |-> "break"]
Continue        == [k |-> "continue"]
Block(ss)       == [k |-> "block", body |-> ss]
If(c, t)        == [k |-> "if", c |-> c, t |-> t, e |-> NoStmt]
IfElse(c, t, e) == [k |-> "ifelse", c |-> c, t |-> t, e |-> e]

\* Both loops are nodes of type kWHILE; only a for has a scope of its own.
For(i, c, s, b) == [k |-> "for", init |-> i, c |-> c, step |-> s, b |-> b]
While(c, b)     == [For(NoStmt, c, NoStmt, b) EXCEPT !.k = "while"]

\* The tree of a compound assignment has its place twice.
Expanded(s) == Assign(s.lhs, Bin(s.lhs, s.e))

\* The operands of an expression, in the order in which they are evaluated.
Parts(e) ==
    CASE e.k \in {"imm", "ident"}               -> << >>
      [] e.k \in {"deref", "field"}             -> <<e.e>>
      [] e.k \in {"call", "alloc_array"}        -> <<e.a>>
      [] e.k = "index"                          -> <<e.a, e.i>>
      [] e.k \in {"bin", "cmp", "and", "or"}    -> <<e.l, e.r>>
      [] e.k = "cond"                           -> <<e.c, e.t, e.e>>

\* An expression and all those in it.
RECURSIVE Within(_)
Within(e) == {e} \cup UNION {Within(o) : o \in ToSet(Parts(e))}

\* The variables an expression reads.
Idents(e) == {i.v : i \in {o \in Within(e) : o.k = "ident"}}

(***************************************************************************)
(* The declarations a statement puts into the scope around it: a block and *)
(* a for open a scope of their own (EnterScope, LeaveScope).               *)
(***************************************************************************)
RECURSIVE Declares(_)
Declares(s) ==
    CASE s.k = "decl"             -> {s.v}
      [] s.k \in {"if", "ifelse"} -> Declares(s.t) \cup Declares(s.e)
      [] s.k = "while"            -> Declares(s.b)
      [] OTHER                    -> {}

\* The names a sequence of statements declares in its scope.
DeclaredIn(ss) == UNION {Declares(ss[i]) : i \in DOMAIN ss}

\* How many declarations a statement holds, in all scopes.
RECURSIVE Declarations(_)
Declarations(s) ==
    CASE s.k = "decl"             -> 1
      [] s.k \in {"if", "ifelse"} -> Declarations(s.t) + Declarations(s.e)
      [] s.k \in {"while", "for"} ->
            Declarations(s.init) + Declarations(s.step) + Declarations(s.b)
      [] s.k = "block"            ->
            FoldLeft(LAMBDA n, t : n + Declarations(t), 0, s.body)
      [] OTHER                    -> 0

\* What a statement evaluates, in the order of the text: its assignments and
\* returns, and the conditions.
RECURSIVE Text(_)
Text(s) ==
    CASE s.k \in {"none", "decl", "break", "continue"} -> << >>
      [] s.k \in {"if", "ifelse"} -> <<[k |-> "test", e |-> s.c]>> \o Text(s.t) \o Text(s.e)
      [] s.k \in {"while", "for"} ->
            Text(s.init) \o <<[k |-> "test", e |-> s.c]>> \o Text(s.b) \o Text(s.step)
      [] s.k = "block" -> FoldLeft(LAMBDA text, child : text \o Text(child), << >>, s.body)
      [] OTHER         -> <<s>>

=============================================================================
