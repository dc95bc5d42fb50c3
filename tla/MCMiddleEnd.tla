---------------------------- MODULE MCMiddleEnd ----------------------------
(***************************************************************************)
(* Function bodies for MiddleEnd: a parameter p (0), variables x (1) and   *)
(* y (2).                                                                  *)
(***************************************************************************)
EXTENDS MiddleEnd

P == Ident(0)
X == Ident(1)
Y == Ident(2)

Plain == {Assign(X, Bin(Y, P)), Assign(X, Bin(P, X)), Assign(Y, X),
          Assign(Y, Bin(X, Bin(Y, X))), Assign(Deref(P), Bin(Y, ImmE)),
          Assign(X, Deref(Bin(P, Y))), Assign(Y, And(X, Y)),
          Assign(X, CondE(P, Y, Bin(X, P))), Assign(X, X),
          Assign(Y, Bin(Call(X), Or(P, X)))}

\* Elements and fields; each takes up to twenty temporaries.
Memory == {Assign(X, Bin(Element(P, Y), X)), Compound(Element(P, Y), X),
           Assign(Field(Deref(P)), Bin(Field(Element(P, X)), Y))}

Ctl == {If(Cmp(X, Y), s) : s \in Plain}
         \cup {If(Cmp(X, Y), Block(<<Return(X), s>>)) : s \in Plain}
         \cup {While(Cmp(Y, P), Block(<<s, t>>)) : s, t \in Plain \cup {If(X, Break)}}
         \cup {For(Assign(Y, P), Cmp(Y, P), Assign(Y, Bin(X, Bin(Y, X))),
                   Block(<<If(X, Continue), s>>)) : s \in Plain}

AllBodies == {Block(<<Assign(X, ImmE), Assign(Y, Bin(X, P)), s, t, Return(Bin(X, Y))>>) :
                 s \in Ctl, t \in Plain}
             \cup {Block(<<Assign(X, P), Assign(Y, Bin(X, P)), s, Return(Bin(X, Y))>>) :
                 s \in Memory \cup {While(Cmp(Y, P), m) : m \in Memory}}

=============================================================================
