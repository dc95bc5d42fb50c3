------------------------------ MODULE MCScoping ------------------------------
(***************************************************************************)
(* Programs for Scoping.                                                   *)
(***************************************************************************)
EXTENDS Scoping

Tok(k, n) == [kind |-> k, name |-> n]
Open  == Tok("open", "")
Close == Tok("close", "")

Leaves(names) == {Tok(k, n) : k \in {"decl", "use"}, n \in names}

\* Statements on at most n tokens: leaves and nested blocks, in any order.
Bodies(n, names) ==
    LET opens(s, k)  == Cardinality({j \in 1 .. k : s[j] = Open})
        closes(s, k) == Cardinality({j \in 1 .. k : s[j] = Close})
    IN  {s \in UNION {[1 .. k -> Leaves(names) \cup {Open, Close}] : k \in 0 .. n} :
            /\ \A k \in DOMAIN s : closes(s, k) <= opens(s, k)
            /\ closes(s, Len(s)) = opens(s, Len(s))}

Function(f, params, body) ==
    <<Tok("func", f)>> \o params \o <<Open>> \o body \o <<Close, Tok("end", "")>>

Params == {<< >>, <<Tok("param", "x")>>, <<Tok("param", "x"), Tok("param", "x")>>}

Calls(f) == {Append(b, Tok("call", f)) : b \in Bodies(1, {"x"})}

\* One function; main before or after another one that it calls, whose name
\* may be taken; a function of the runtime called.
AllPrograms ==
    {Function("main", << >>, b) : b \in Bodies(7, {"x"}) \cup Bodies(4, {"x", "y"})}
    \cup UNION {{m \o f, f \o m} :
              m \in {Function("main", << >>, b) : b \in Calls("f") \cup Calls("print")},
              f \in {Function(n, p, b) : n \in {"main", "f", "print"}, p \in Params,
                                        b \in Bodies(2, {"x"})}}

=============================================================================
