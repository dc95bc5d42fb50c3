----------------------------- MODULE MCFrontEnd -----------------------------
(***************************************************************************)
(* Function bodies for FrontEnd: a parameter c (0) that every condition    *)
(* reads, a variable x (1) and a parameter a (2) that is an array.         *)
(***************************************************************************)
EXTENDS FrontEnd

C == Ident(0)
X == Ident(1)
A == Ident(2)

DeclX   == Decl(1)
SetX    == Assign(X, ImmE)
UseX    == Assign(C, X)
IncX    == Assign(X, Bin(X, ImmE))
Ret     == Return(ImmE)
Simple  == {DeclX, SetX, UseX, IncX, Ret, Break, Continue}

Branch == {Block(<<s>>) : s \in Simple} \cup {Block(<< >>), SetX}

Ifs     == {If(C, b) : b \in Branch} \cup {IfElse(C, b, e) : b, e \in Branch}
Loops(bodies) ==
    {While(C, b) : b \in bodies}
      \cup {For(i, C, s, b) : i \in {NoStmt, SetX}, s \in {NoStmt, IncX}, b \in bodies}

Flat   == {Block(<<DeclX, s, t, u>>) :
               s \in Simple \cup Ifs \cup Loops(Branch), t \in Simple \cup {If(C, b) : b \in Branch}, u \in {Ret, UseX}}
Nested == {Block(<<DeclX, l, s, Ret>>) :
               l \in Loops({Block(<<t, u>>) : t \in Simple \cup Ifs, u \in {SetX, UseX, Continue}}),
               s \in {SetX, UseX, IncX}}
Inner  == {Block(<<w, Ret>>) : w \in Loops({Block(<<t, DeclX, SetX, UseX>>) : t \in Simple \cup Ifs})}

\* Expressions that branch and call; the last two have an else part that acts.
Exps   == {And(C, Call(ImmE)), Or(Call(C), C), And(Or(C, X), Call(C)), Or(And(C, C), X),
           CondE(C, Call(X), X), CondE(And(C, C), X, ImmE), Call(Call(C)), Bin(Call(X), X),
           CondE(C, X, Call(X)), CondE(C, ImmE, Or(C, X))}
Acting == UNION {{Assign(X, e), If(e, SetX), IfElse(e, SetX, Ret), Return(e),
                  While(e, IfElse(C, Break, IncX)),
                  For(SetX, e, IncX, If(C, Continue))} : e \in Exps}
Valued == {Block(<<DeclX, SetX, s, Return(e)>>) : s \in Acting, e \in Exps \cup {X}}

\* Elements and their fields, read, written and both; a new array; a place that
\* calls.
E(i)     == Element(A, i)
Elements == {Assign(E(X), E(E(X))), Assign(X, Field(E(Call(X)))), Compound(E(X), Call(X)),
             Compound(Field(E(E(X))), E(X)), Assign(Deref(E(X)), CondE(C, X, Deref(E(X)))),
             Assign(A, AllocArray(X)), Assign(A, AllocArray(E(X))), Compound(X, E(X)),
             Compound(E(Call(X)), X), Return(E(X))}
Around(s) == {s, If(C, s), IfElse(Cmp(E(X), X), s, IncX), While(C, s),
              For(SetX, Cmp(X, E(X)), IncX, Block(<<s, If(C, Continue)>>))}
Arrays   == {Block(<<DeclX, SetX, s, t, Return(X)>>) :
                 s \in UNION {Around(e) : e \in Elements},
                 t \in {Assign(A, AllocArray(X)), Assign(E(ImmE), X), If(C, Assign(A, A))}}

Once(S) == {b \in S : Declarations(b) = 1}

AllBodies == Once(Flat \cup Nested \cup Inner \cup Valued \cup Arrays)

=============================================================================
