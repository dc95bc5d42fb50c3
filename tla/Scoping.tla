------------------------------- MODULE Scoping -------------------------------
(***************************************************************************)
(* Names, scopes and symbols: SymbolTable, ScopedSymbolTable and the three *)
(* passes that use them.  The parser opens and closes scopes and gives     *)
(* every node the scope it was made in; the semantic pass records the      *)
(* functions and all parameters of the program, then goes through the      *)
(* bodies recording declarations and looking names up; the IR pass looks   *)
(* the names up again, when the declarations of the whole program are      *)
(* there, and turns them into IR symbols that all functions share.         *)
(*                                                                         *)
(* A program is the sequence of what these passes see: "func" and "end"    *)
(* stand round a function, "open" and "close" round a block or a for       *)
(* statement; "param", "decl", "use" and "call" bear a name.  The order is *)
(* that of analysis, with the step of a for behind its body.  Nothing      *)
(* stands behind a return: what analysis leaves out is in FrontEnd.        *)
(* Structs, which are recorded as functions are, are left out.             *)
(***************************************************************************)
EXTENDS Integers, Sequences, FiniteSets

CONSTANTS
    Programs,           \* sequences of tokens
    Predefined          \* names of functions of the runtime

Token == [kind : {"func", "end", "open", "close", "param", "decl", "use", "call"},
          name : STRING]

\* The scopes that the first k tokens of p open and do not close.
Level(p, k) == Cardinality({j \in 1 .. k : p[j].kind \in {"func", "open"}})
               - Cardinality({j \in 1 .. k : p[j].kind \in {"end", "close"}})

\* What the grammar makes of a program: functions one behind the other, all
\* else inside of them, their parameters first.
IsProgram(p) ==
    \A t \in DOMAIN p :
        /\ Level(p, t) >= 0
        /\ p[t].kind = "func" => Level(p, t - 1) = 0
        /\ p[t].kind \in {"param", "decl", "use", "call"} => Level(p, t) >= 1
        /\ p[t].kind = "param" => t > 1 /\ p[t - 1].kind \in {"func", "param"}

ASSUME ProgramsAssumption == Programs \subseteq {p \in Seq(Token) : IsProgram(p)}

\* print, read, flush, alloc
ASSUME PredefinedAssumption == "main" \notin Predefined

VARIABLES
    tokens,             \* input: the program
    phase,              \* "parse", "predefined", "functions", "bodies",
                        \* "check", "main", "others" or "done"
    pos,                \* the token at work
    scopes_stack,       \* of ScopedSymbolTable; a scope is its chain of ids
    next_scope_index,   \* of SymbolTable
    scope,              \* the scope in the AST symbol of every node
    defs,               \* the symbols of type kDEFINE
    inner_var_index,    \* of SemanticAnalyzer
    def_of,             \* the kDEFINE symbol the semantic pass found
    succ,               \* succ_ of SemanticAnalyzer
    ir_of,              \* the IR symbol the IR pass found
    def_symbol          \* metadata kDEF_SYMBOL of the IR symbols

vars == <<tokens, phase, pos, scopes_stack, next_scope_index, scope, defs,
          inner_var_index, def_of, succ, ir_of, def_symbol>>

parser   == <<scopes_stack, next_scope_index, scope>>
analyzer == <<defs, inner_var_index, def_of, succ>>
ir       == <<ir_of, def_symbol>>

Kind(t) == tokens[t].kind
Nodes   == {t \in DOMAIN tokens : Kind(t) \in {"func", "param", "decl", "use", "call"}}

\* Functions are named __func_..., a prefix no variable is taken to have.
Func(n) == <<"__func_", n>>

Name(t) == IF Kind(t) \in {"func", "call"} THEN Func(tokens[t].name)
                                           ELSE <<"var", tokens[t].name>>

Symbol(s, name, value) == [scope |-> s, name |-> name, value |-> value]

\* nullptr, as a symbol and as an IR symbol.
NoSymbol == Symbol(<< >>, <<"none", "none">>, <<"none">>)
NoIR     == <<"none">>

-----------------------------------------------------------------------------
(***************************************************************************)
(* The tables.  The parent of a scope is the scope without its last id.    *)
(***************************************************************************)
RootScope == <<0>>

Encloses(s, t) == Len(s) <= Len(t) /\ \A k \in DOMAIN s : s[k] = t[k]

\* Faulty variant of LookupSymbol: the scope itself only.
LookupSymbolInScope(s, name) ==
    IF \E d \in defs : d.name = name /\ d.scope = s
    THEN CHOOSE d \in defs : d.name = name /\ d.scope = s
    ELSE NoSymbol

\* LookupSymbol: the scope, then its parent, and so on up to the root.
Visible(s, name) == {d \in defs : d.name = name /\ Encloses(d.scope, s)}

LookupSymbol(s, name) ==
    IF Visible(s, name) = {} THEN NoSymbol
    ELSE CHOOSE d \in Visible(s, name) :
             \A e \in Visible(s, name) : Len(e.scope) <= Len(d.scope)

\* ins_<scope>_<index>
InnerVar(s) == <<"ins", s[Len(s)], inner_var_index>>

Init ==
    /\ tokens \in Programs
    /\ phase = "parse"
    /\ pos = 1
    /\ scopes_stack = RootScope
    /\ next_scope_index = 1
    /\ scope = [t \in DOMAIN tokens |-> RootScope]
    /\ defs = {}
    /\ inner_var_index = 0
    /\ def_of = [t \in DOMAIN tokens |-> NoSymbol]
    /\ succ = TRUE
    /\ ir_of = [t \in DOMAIN tokens |-> NoIR]
    /\ def_symbol = [i \in {} |-> NoSymbol]

\* The next token, or the first one of the next pass.
Advance(next_phase) ==
    IF pos < Len(tokens)
    THEN pos' = pos + 1 /\ phase' = phase
    ELSE pos' = 1 /\ phase' = next_phase

At(p, kinds) == phase = p /\ pos \in DOMAIN tokens /\ Kind(pos) \in kinds

-----------------------------------------------------------------------------
(* The parser. *)
EnterScope ==
    /\ At("parse", {"func", "open"})
    /\ scopes_stack' = Append(scopes_stack, next_scope_index)
    /\ next_scope_index' = next_scope_index + 1
    /\ scope' = [scope EXCEPT ![pos] = scopes_stack']
    /\ Advance("predefined")
    /\ UNCHANGED <<tokens, analyzer, ir>>

LeaveScope ==
    /\ At("parse", {"end", "close"})
    /\ scopes_stack' = IF scopes_stack # << >>
                       THEN SubSeq(scopes_stack, 1, Len(scopes_stack) - 1)
                       ELSE scopes_stack
    /\ Advance("predefined")
    /\ UNCHANGED <<tokens, next_scope_index, scope, analyzer, ir>>

\* MakeASTTreeNode: the symbol of a node is in the current scope.
MakeNode ==
    /\ At("parse", {"param", "decl", "use", "call"})
    /\ scope' = [scope EXCEPT ![pos] = scopes_stack]
    /\ Advance("predefined")
    /\ UNCHANGED <<tokens, scopes_stack, next_scope_index, analyzer, ir>>

-----------------------------------------------------------------------------
(* The semantic pass. *)
RecordPredefined ==
    /\ phase = "predefined"
    /\ phase' = "functions"
    /\ defs' = defs \cup {Symbol(RootScope, Func(n), Func(n)) : n \in Predefined}
    /\ UNCHANGED <<tokens, pos, parser, inner_var_index, def_of, succ, ir>>

\* Faulty variant of RecordSymbol: a name may be declared again further in.
RecordSymbolShadowing ==
    LET found == LookupSymbolInScope(scope[pos], Name(pos))
        new   == Symbol(scope[pos], Name(pos), InnerVar(scope[pos]))
    IN  IF found # NoSymbol
        THEN /\ succ' = FALSE
             /\ def_of' = [def_of EXCEPT ![pos] = found]
             /\ UNCHANGED <<defs, inner_var_index>>
        ELSE /\ defs' = defs \cup {new}
             /\ def_of' = [def_of EXCEPT ![pos] = new]
             /\ inner_var_index' = inner_var_index + 1
             /\ UNCHANGED succ

\* Faulty variant of RecordSymbol: the index stays.
RecordSymbolSameIndex ==
    LET found == LookupSymbol(scope[pos], Name(pos))
        new   == Symbol(scope[pos], Name(pos), InnerVar(scope[pos]))
    IN  IF found # NoSymbol
        THEN /\ succ' = FALSE
             /\ def_of' = [def_of EXCEPT ![pos] = found]
             /\ UNCHANGED <<defs, inner_var_index>>
        ELSE /\ defs' = defs \cup {new}
             /\ def_of' = [def_of EXCEPT ![pos] = new]
             /\ UNCHANGED <<inner_var_index, succ>>

\* RecordSymbol: a name that is visible may not be declared again.
RecordSymbol ==
    LET found == LookupSymbol(scope[pos], Name(pos))
        new   == Symbol(scope[pos], Name(pos), InnerVar(scope[pos]))
    IN  IF found # NoSymbol
        THEN /\ succ' = FALSE
             /\ def_of' = [def_of EXCEPT ![pos] = found]
             /\ UNCHANGED <<defs, inner_var_index>>
        ELSE /\ defs' = defs \cup {new}
             /\ def_of' = [def_of EXCEPT ![pos] = new]
             /\ inner_var_index' = inner_var_index + 1
             /\ UNCHANGED succ

\* RecordRealSymbol: a function, under its own name, in the root scope.
RecordRealSymbol ==
    LET found == LookupSymbol(RootScope, Name(pos))
        new   == Symbol(RootScope, Name(pos), Name(pos))
    IN  /\ IF found # NoSymbol
           THEN /\ succ' = FALSE
                /\ def_of' = [def_of EXCEPT ![pos] = found]
                /\ UNCHANGED defs
           ELSE /\ defs' = defs \cup {new}
                /\ def_of' = [def_of EXCEPT ![pos] = new]
                /\ UNCHANGED succ
        /\ UNCHANGED inner_var_index

RecordFunction ==
    /\ At("functions", {"func"})
    /\ RecordRealSymbol
    /\ Advance("bodies")
    /\ UNCHANGED <<tokens, parser, ir>>

RecordParam ==
    /\ At("functions", {"param"})
    /\ RecordSymbol
    /\ Advance("bodies")
    /\ UNCHANGED <<tokens, parser, ir>>

Declare ==
    /\ At("bodies", {"decl"})
    /\ RecordSymbol
    /\ Advance("check")
    /\ UNCHANGED <<tokens, parser, ir>>

\* SMIdentHandler, SMFuncCallHandler: a name must be known.
Ident ==
    /\ At("bodies", {"use", "call"})
    /\ LET found == LookupSymbol(scope[pos], Name(pos))
       IN  /\ def_of' = [def_of EXCEPT ![pos] = found]
           /\ succ' = (succ /\ found # NoSymbol)
    /\ Advance("check")
    /\ UNCHANGED <<tokens, parser, defs, inner_var_index, ir>>

\* What a pass finds nothing to do for.
Pass ==
    /\ \/ At("functions", {"end", "open", "close", "decl", "use", "call"}) /\ Advance("bodies")
       \/ At("bodies", {"func", "end", "open", "close", "param"}) /\ Advance("check")
    /\ UNCHANGED <<tokens, parser, analyzer, ir>>

MainFound == \E d \in defs : d.scope = RootScope /\ d.name = Func("main")

CheckMain ==
    /\ phase = "check"
    /\ phase' = "main"
    /\ succ' = (succ /\ MainFound)
    /\ UNCHANGED <<tokens, pos, parser, defs, inner_var_index, def_of, ir>>

-----------------------------------------------------------------------------
(* The IR pass; it only runs when the semantic pass found no error. *)
IsMain(t) ==
    \E f \in DOMAIN tokens :
        /\ f <= t /\ Kind(f) = "func" /\ tokens[f].name = "main"
        /\ \A g \in f + 1 .. t : Kind(g) # "func"

\* IRProgramHandler goes to main first and then to the others.
Turn == /\ phase \in {"main", "others"} /\ succ
        /\ pos \in DOMAIN tokens
        /\ Advance(IF phase = "main" THEN "others" ELSE "done")
        /\ UNCHANGED <<tokens, parser, analyzer>>

InTurn == Kind(pos) # "func" /\ pos \in Nodes /\ (phase = "main" <=> IsMain(pos))

\* MapSymbol: AST symbol to kDEFINE symbol to IR symbol, or to an immediate.
MapSymbol ==
    /\ Turn /\ InTurn
    /\ LET def == LookupSymbol(scope[pos], Name(pos))
       IN  IF def = NoSymbol
           THEN /\ ir_of' = [ir_of EXCEPT ![pos] = <<"immediate", Name(pos)>>]
                /\ UNCHANGED def_symbol
           ELSE /\ ir_of' = [ir_of EXCEPT ![pos] = def.value]
                /\ def_symbol' = [i \in DOMAIN def_symbol \cup {def.value} |->
                                      IF i = def.value THEN def ELSE def_symbol[i]]

PassOver == Turn /\ ~InTurn /\ UNCHANGED ir

Next == \/ EnterScope \/ LeaveScope \/ MakeNode
        \/ RecordPredefined \/ RecordFunction \/ RecordParam
        \/ Declare \/ Ident \/ Pass \/ CheckMain
        \/ MapSymbol \/ PassOver

Spec == Init /\ [][Next]_vars

-----------------------------------------------------------------------------
(***************************************************************************)
(* Lexical scoping, said of the program without any table: a declaration   *)
(* reaches from where it stands to the end of the scope around it.         *)
(***************************************************************************)
Depth(t) == Level(tokens, t)

Reaches(d, t) ==
    /\ d < t /\ Kind(d) \in {"param", "decl"} /\ Name(d) = Name(t)
    /\ \A k \in d .. t : Depth(k) >= Depth(d)

Bindings(t) ==
    IF Kind(t) \in {"func", "call"}
    THEN {d \in DOMAIN tokens : d # t /\ Kind(d) = "func" /\ Name(d) = Name(t)}
    ELSE {d \in DOMAIN tokens : Reaches(d, t)}

Runtime(t) == \E n \in Predefined : Name(t) = Func(n)

WellScoped ==
    /\ \A t \in Nodes : Kind(t) \in {"func", "param", "decl"}
                            => Bindings(t) = {} /\ ~Runtime(t)
    /\ \A t \in Nodes : Kind(t) \in {"use", "call"} => Bindings(t) # {} \/ Runtime(t)
    /\ \E t \in Nodes : Kind(t) = "func" /\ tokens[t].name = "main"

Analysed == phase \in {"main", "others", "done"}

\* The semantic pass accepts exactly the programs in which no name is declared
\* where it is visible, every name used is declared and there is a main, and it
\* finds for each use the declaration that lexical scoping gives it
\* (LookupSymbol, RecordSymbol, the order of SMProgramHandler and the scopes of
\* the parser).
ResolvesLexically ==
    Analysed => /\ succ <=> WellScoped
                /\ succ => \A t \in Nodes : \A d \in Bindings(t) : def_of[t] = def_of[d]

\* The IR pass, which sees all declarations of the program, those behind the
\* use too, gives every name the variable of the declaration that the semantic
\* pass found for it (IRGenerator::lookup_variable, RecordSymbol).
StableResolution ==
    \A t \in DOMAIN tokens :
        ir_of[t] # NoIR => def_of[t] # NoSymbol /\ ir_of[t] = def_of[t].value

\* An IR symbol never comes to stand for another declaration, in whichever
\* function (kDEF_SYMBOL, from which types are read; AddSymbol, unique).
OwnVariables ==
    [][\A i \in DOMAIN def_symbol : def_symbol'[i] = def_symbol[i]]_vars

=============================================================================
