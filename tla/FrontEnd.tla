------------------------------ MODULE FrontEnd ------------------------------
(***************************************************************************)
(* One function on its way through the front end (driver/API.cpp):         *)
(* semantic analysis, lowering and control flow graph, the worklist of     *)
(* BlockLevelDefAnalyse, and the definite assignment check.  An accepted   *)
(* function is then run: the source and the instructions made from it side *)
(* by side, from one observable event to the next, all branch conditions   *)
(* free.                                                                   *)
(*                                                                         *)
(* An event is a condition that is tested, also one within an expression,  *)
(* a bound of a subscript that is tested, a call, a store into memory, an  *)
(* assignment to a variable or a return.                                   *)
(***************************************************************************)
EXTENDS SemanticAnalyzer, IRGenerator, FiniteSets

CONSTANTS
    Params,             \* the parameters of the function
    Bodies              \* the function bodies

VARIABLES
    body,               \* input: the function body
    phase,              \* of the compiler, or "run", "done", "rejected"
    known,              \* the names the semantic analysis recorded
    blocks,             \* the basic blocks
    succ, def, reachable, dominated, worklist, def_in, def_out,
    todo,               \* the rest of the source program
    pc,                 \* block and instruction of the next event
    assigned            \* the variables that have a value

analysis == <<succ, def, reachable, dominated, worklist, def_in, def_out>>
vars == <<body, phase, known, blocks, analysis, todo, pc, assigned>>

DA == INSTANCE DefAnalysis WITH NBlocks <- 1, Var <- {}

Init ==
    /\ body \in Bodies
    /\ phase = "semantic"
    /\ known = {}
    /\ blocks = << >>
    /\ reachable = {}
    /\ succ = << >> /\ def = << >> /\ dominated = << >>
    /\ worklist = << >> /\ def_in = << >> /\ def_out = << >>
    /\ todo = << >>
    /\ pc = <<1, 1>>
    /\ assigned = {}

\* SemanticAnalyzer::Analyze.
Analyze ==
    /\ phase = "semantic"
    /\ LET r == SMFunction(Params, body)
       IN  /\ known' = r.known
           /\ phase' = IF SMAccepts(r) THEN "ir" ELSE "rejected"
    /\ UNCHANGED <<body, blocks, analysis, todo, pc, assigned>>

\* IRGenerator: the instructions of the function, cut into basic blocks.
Generate ==
    /\ phase = "ir"
    /\ phase' = "cfg"
    /\ blocks' = SplitToBasicBlocks(Optimums(FunctionIR(Params, known, body)))
    /\ UNCHANGED <<body, known, analysis, todo, pc, assigned>>

\* BuildControlFlowEdges and AnalyzeUseDefForBlocks.
BuildCfg ==
    /\ phase = "cfg"
    /\ phase' = "mark"
    /\ succ' = BuildControlFlowEdges(blocks)
    /\ def' = [b \in DOMAIN blocks |-> UseDef(blocks[b]).def]
    /\ UNCHANGED <<body, known, blocks, reachable, dominated, worklist, def_in,
                   def_out, todo, pc, assigned>>

\* MarkReachableBlocks, and BlockLevelDefAnalyse up to its loop.
Mark ==
    /\ phase = "mark"
    /\ phase' = "def"
    /\ reachable' = MarkReachableBlocks(succ)
    /\ dominated' = BuildDominatorTree(succ)
    /\ worklist' = [b \in DOMAIN succ |-> b]
    /\ def_in' = [b \in DOMAIN succ |-> {}]
    /\ def_out' = def
    /\ UNCHANGED <<body, known, blocks, succ, def, todo, pc, assigned>>

DefAnalyse ==
    /\ phase = "def"
    /\ DA!Next
    /\ UNCHANGED <<body, phase, known, blocks, todo, pc, assigned>>

(***************************************************************************)
(* check_definite_assignment: a variable the block uses must be assigned   *)
(* on entry or be defined by the block, at whatever place.                 *)
(***************************************************************************)
MayBeUninitialized(b) == UseDef(blocks[b]).use \ (def_in[b] \cup def[b])

CheckFails == \E b \in reachable : MayBeUninitialized(b) # {}

-----------------------------------------------------------------------------
(***************************************************************************)
(* The source program: what is left to do is a sequence of statements and  *)
(* of frames: the test of the condition of a loop and its step, the calls  *)
(* and choices of an expression, and what is ready when its expression has *)
(* been evaluated.                                                         *)
(***************************************************************************)
TestFrame(s) == [k |-> "test", s |-> s, c |-> s.c]
StepFrame(s) == [k |-> "step", s |-> s]
CallFrame(a) == [k |-> "call", c |-> a]
StoreFrame   == [k |-> "store", c |-> ImmE]
Ready(s, e)  == [k |-> "ready", s |-> s, c |-> e]
Choice(c, then, else) == [k |-> "choice", c |-> c, then |-> then, else |-> else]

\* Both bounds of a subscript are tested; out of bounds abort is called.
Abort     == <<CallFrame(ImmE), Ready(Return(ImmE), ImmE)>>
Bounds(e) == <<Choice(e.i, Abort, << >>), Choice(e, Abort, << >>)>>

\* The frames of an expression, by the rules of C.
RECURSIVE Evaluation(_)
Evaluation(e) ==
    CASE e.k \in {"imm", "ident"} -> << >>
      [] e.k \in {"deref", "field"} -> Evaluation(e.e)
      [] e.k = "index" -> Evaluation(e.a) \o Evaluation(e.i) \o Bounds(e)
      [] e.k = "call"  -> Append(Evaluation(e.a), CallFrame(e.a))
      [] e.k = "alloc_array" ->
             Evaluation(e.a) \o <<Choice(e.a, Abort, << >>), CallFrame(e.a), StoreFrame>>
      [] e.k \in {"bin", "cmp"} -> Evaluation(e.l) \o Evaluation(e.r)
      [] e.k = "and"   -> Append(Evaluation(e.l),
                                 Choice(e.l, Append(Evaluation(e.r), Choice(e.r, << >>, << >>)), << >>))
      [] e.k = "or"    -> Append(Evaluation(e.l),
                                 Choice(e.l, << >>, Append(Evaluation(e.r), Choice(e.r, << >>, << >>))))
      [] e.k = "cond"  -> Append(Evaluation(e.c),
                                 Choice(e.c, Evaluation(e.t), Evaluation(e.e)))

\* A compound assignment evaluates its place once, but tests the bounds of its
\* subscripts where it reads and where it writes.
CompoundEvaluation(s) ==
    Evaluation(s.lhs) \o Evaluation(s.e)
        \o SelectSeq(Evaluation(s.lhs), LAMBDA f : f.k = "choice")

\* The variables read when an expression has been evaluated down to what
\* follows its last choice or call.
RECURSIVE Reads(_)
Reads(e) ==
    CASE e.k \in {"bin", "cmp"}     -> Reads(e.l) \cup Reads(e.r)
      [] e.k = "index"              -> Reads(e.a) \cup Reads(e.i)
      [] e.k = "ident"              -> {e.v}
      [] e.k \in {"deref", "field"} -> Reads(e.e)
      [] OTHER                      -> {}

\* What an assignment reads, the place in memory it goes to included.
Assigned(s) == IF s.k = "assign" /\ s.lhs.k = "ident" THEN s.e ELSE Bin(s.lhs, s.e)

\* The rest from the step frame of the innermost loop on.
FromStep(rest) ==
    LET at == CHOOSE i \in DOMAIN rest :
                  /\ rest[i].k = "step"
                  /\ \A j \in 1 .. i - 1 : rest[j].k # "step"
    IN  SubSeq(rest, at, Len(rest))

\* Up to the next event.
RECURSIVE Settle(_)
Settle(rest) ==
    IF rest = << >> THEN rest
    ELSE LET s == Head(rest)
             next == Tail(rest)
         IN  CASE s.k \in {"none", "decl"} -> Settle(next)
               [] s.k = "block"    -> Settle(s.body \o next)
               [] s.k = "continue" -> Settle(FromStep(next))
               [] s.k = "break"    -> Settle(Tail(FromStep(next)))
               [] s.k = "step"     -> Settle(<<s.s.step, TestFrame(s.s)>> \o next)
               [] s.k \in {"while", "for"} ->
                                      Settle(<<s.init, TestFrame(s)>> \o next)
               [] s.k = "return"   -> Settle(Evaluation(s.e) \o <<Ready(s, s.e)>> \o next)
               [] s.k = "assign"   -> Settle(Evaluation(s.e) \o Evaluation(s.lhs)
                                             \o <<Ready(s, Assigned(s))>> \o next)
               [] s.k = "compound" -> Settle(CompoundEvaluation(s)
                                             \o <<Ready(s, Assigned(s))>> \o next)
               [] s.k \in {"test", "if", "ifelse"} ->
                      Settle(Evaluation(s.c) \o <<Ready(s, s.c)>> \o next)
               [] OTHER            -> rest

\* The event the source comes to next, with the variables it reads.
SourceEvent ==
    IF todo = << >> THEN [kind |-> "end", var |-> NoSym, reads |-> {}]
    ELSE LET f == Head(todo)
             Event(kind, var) == [kind |-> kind, var |-> var, reads |-> Reads(f.c)]
         IN  CASE f.k \in {"call", "store"} -> Event(f.k, NoSym)
               [] f.k = "choice"     -> Event("test", NoSym)
               [] f.s.k \in {"assign", "compound"} ->
                      IF f.s.lhs.k = "ident" THEN Event("assign", <<"var", f.s.lhs.v>>)
                                             ELSE Event("store", NoSym)
               [] f.s.k = "return"   -> Event("return", NoSym)
               [] OTHER              -> Event("test", NoSym)

\* The source after its event; taken is the outcome of a test.
AfterSource(taken) ==
    LET f == Head(todo)
        next == Tail(todo)
    IN  Settle((CASE f.k \in {"call", "store"} -> << >>
                  [] f.k = "choice" -> IF taken THEN f.then ELSE f.else
                  [] f.s.k = "test" -> IF taken THEN <<f.s.s.b, StepFrame(f.s.s)>> ELSE << >>
                  [] f.s.k \in {"if", "ifelse"} -> IF taken THEN <<f.s.t>> ELSE <<f.s.e>>
                  [] OTHER -> << >>) \o next)

-----------------------------------------------------------------------------
(***************************************************************************)
(* The instructions.  A position past the last block is the end.           *)
(***************************************************************************)
AtEnd(p) == p[1] > Len(blocks)

InsAt(p) == blocks[p[1]][p[2]]

Named(sym) == sym[1] \in {"user", "unknown"}

IsEvent(i) == \/ i.op \in {"rtn", "call", "store"} \/ IsCondJump(i.op)
              \/ i.op # "arg" /\ Named(i.dst)

\* The position after p, and the entry of the block a label names.
After(p) == IF p[2] < Len(blocks[p[1]]) THEN <<p[1], p[2] + 1>>
                                          ELSE <<p[1] + 1, 1>>
Target(label) == LET b == LabelBlock(blocks, label)
                 IN  IF b = << >> THEN <<Len(blocks) + 1, 1>> ELSE <<b[1], 1>>

\* Up to the next event.
RECURSIVE Advance(_)
Advance(p) ==
    IF AtEnd(p) \/ IsEvent(InsAt(p)) THEN p
    ELSE Advance(IF InsAt(p).op = "jmp" THEN Target(InsAt(p).srcs[1]) ELSE After(p))

IREvent ==
    IF AtEnd(pc) THEN [kind |-> "end", var |-> NoSym]
    ELSE LET i == InsAt(pc)
         IN  CASE i.op = "rtn"      -> [kind |-> "return", var |-> NoSym]
               [] i.op \in {"call", "store"} -> [kind |-> i.op, var |-> NoSym]
               [] IsCondJump(i.op)  -> [kind |-> "test", var |-> NoSym]
               [] OTHER             -> [kind |-> "assign", var |-> <<"var", i.dst[2]>>]

-----------------------------------------------------------------------------
\* CFSemanticAnalyzer::Analyse; an accepted function starts to run.
Check ==
    /\ phase = "def"
    /\ worklist = << >>
    /\ IF CheckFails
       THEN phase' = "rejected" /\ UNCHANGED <<todo, pc, assigned>>
       ELSE /\ phase' = "run"
            /\ todo' = Settle(<<body>>)
            /\ pc' = Advance(<<1, 1>>)
            /\ assigned' = Params
    /\ UNCHANGED <<body, known, blocks, analysis>>

Static == <<body, known, blocks, analysis>>

Test(taken) ==
    /\ phase = "run" /\ SourceEvent.kind = "test" /\ IREvent.kind = "test"
    /\ todo' = AfterSource(taken)
    /\ pc' = Advance(IF taken = (InsAt(pc).op = "brz") THEN After(pc)
                                                       ELSE Target(InsAt(pc).srcs[2]))
    /\ UNCHANGED <<Static, phase, assigned>>

Assignment ==
    /\ phase = "run" /\ SourceEvent.kind = "assign" /\ IREvent.kind = "assign"
    /\ todo' = AfterSource(TRUE)
    /\ pc' = Advance(After(pc))
    /\ assigned' = assigned \cup {SourceEvent.var[2]}
    /\ UNCHANGED <<Static, phase>>

\* A call or a store.
Effect(kind) ==
    /\ phase = "run" /\ SourceEvent.kind = kind /\ IREvent.kind = kind
    /\ todo' = AfterSource(TRUE)
    /\ pc' = Advance(After(pc))
    /\ UNCHANGED <<Static, phase, assigned>>

Returning ==
    /\ phase = "run" /\ SourceEvent.kind = "return" /\ IREvent.kind = "return"
    /\ phase' = "done"
    /\ UNCHANGED <<Static, todo, pc, assigned>>

Next ==
    \/ Analyze \/ Generate \/ BuildCfg \/ Mark \/ DefAnalyse \/ Check
    \/ \E taken \in BOOLEAN : Test(taken)
    \/ Assignment \/ Effect("call") \/ Effect("store") \/ Returning

Spec == Init /\ [][Next]_vars

-----------------------------------------------------------------------------
Phases == {"semantic", "ir", "cfg", "mark", "def", "run", "done",
           "rejected"}

\* The phases, and what each of them has at hand.
TypeOK ==
    /\ phase \in Phases
    /\ phase \in {"mark", "def", "run", "done"} =>
           /\ DOMAIN succ = DOMAIN blocks
           /\ \A b \in DOMAIN blocks : Successors(succ, b) \subseteq DOMAIN blocks
    /\ phase = "run" => pc[1] \in 1 .. Len(blocks) + 1

\* The expressions and places of the body.
Evaluated == UNION {{e.e} \cup (IF e.k \in {"assign", "compound"} THEN {e.lhs} ELSE {}) :
                    e \in ToSet(Text(body))}

\* What is lowered twice is executed twice, where it does more than to yield a
\* value: the else part of a conditional expression (IRCondHandler), the place of
\* a compound assignment that calls (the grammar puts it into the tree twice).
DoneTwice ==
    \/ \E e \in Evaluated : \E o \in Within(e) : o.k = "cond" /\ Evaluation(o.e) # << >>
    \/ \E s \in ToSet(Text(body)) :
           s.k = "compound" /\ \E o \in Within(s.lhs) : o.k \in {"call", "alloc_array"}

\* The array variables an expression accesses.
Accessed(e) == {o.a.v : o \in {p \in Within(e) : p.k = "index" /\ p.a.k = "ident"}}

\* A variable is assigned further down in the text than an element of it is
\* accessed: IRArrayAccessHandler has marked it as an address by then, and the
\* value is stored where the old one points.
Redirected ==
    \E j \in DOMAIN Text(body) : \E i \in 1 .. j :
        LET s == Text(body)[j]
            t == Text(body)[i]
        IN  /\ s.k \in {"assign", "compound"} /\ s.lhs.k = "ident"
            /\ \/ s.lhs.v \in Accessed(t.e)
               \/ t.k \in {"assign", "compound"} /\ s.lhs.v \in Accessed(t.lhs)

(***************************************************************************)
(* The instructions do what the source says, but for the functions above:  *)
(* at every event both test, call, store, assign the same variable or      *)
(* return, wherever break, continue, the branches, the short circuits and  *)
(* the bounds of arrays have taken them.                                   *)
(***************************************************************************)
SameEvents ==
    phase = "run" /\ ~DoneTwice /\ ~Redirected
        => /\ IREvent.kind = SourceEvent.kind
           /\ IREvent.var = SourceEvent.var

(***************************************************************************)
(* No path through an accepted function runs off its end without a return: *)
(* the flags kWILL_RETURN and kWILL_BREAK are sound for this.              *)
(***************************************************************************)
Returns == phase = "run" => SourceEvent.kind # "end"

Uninitialized == SourceEvent.reads \ assigned

(***************************************************************************)
(* The two initialisation checks together let a read of a variable without *)
(* a value pass only in one case: the basic block that reads it also       *)
(* writes it.                                                              *)
(***************************************************************************)
UninitializedOnlyIfDefined ==
    phase = "run" => \A v \in Uninitialized :
                         MapSymbol(Env(known, known), v) \in def[pc[1]] \cup {Unknown(v)}

\* Every name the reachable code mentions has been declared.
NoUndeclaredName ==
    phase = "run" =>
        \A b \in reachable : \A i \in ToSet(blocks[b]) :
            \A sym \in {i.dst, i.srcs[1], i.srcs[2]} : sym[1] # "unknown"

=============================================================================
