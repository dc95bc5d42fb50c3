# Verification of the L4 compiler

L4Compiler is a compiler from L4, a small C, to x86 assembly, written in C++17.
This directory models the parts that decide whether a compiled program computes
what its source says: scopes and names, semantic analysis, struct layout,
lowering, the data flow analyses, slot coalescing, the two address form, register
allocation and the translation to x86. The modules are model-checked with TLC on
small instances; for seven components (slot coalescing, liveness, definite
assignment, register allocation, struct layout, scoping, translation to x86) the
key properties are proved with TLAPS for all values of the constants.

The compiler is one sequential program. Nothing runs concurrently and nothing is
persisted, so what is hard here is not interleaving but *order and staleness*:
iterations that must reach a fixpoint, sets computed from an earlier round,
results of one stage that a later one relies on without looking, metadata written
into symbols that functions share, and orders that depend on addresses in memory
or on the layout of a hash table.

## Inventory

Paths are relative to `src/src`. The stages run in the order of
`driver/API.cpp` (`CompileSourceCode`); each reads what the stages before left in
the syntax tree, the symbol table (shared by all) or the control flow graphs.

| component | state it keeps | operations | what is hard | what makes it correct |
|---|---|---|---|---|
| Lexer, grammar (`core/Lexer.l`, `core/Parser.y`, `core/Driver.cpp`) | the tree, the stack of scopes | one rule per construct; `EnterScope`, `LeaveScope` | absent children shift positions; one node put twice into the tree | the tree has the shape the handlers expect |
| Symbol tables (`core/SymbolTable.cpp`, `core/ScopedSymbolTable.cpp`) | symbols by kind, scope and name; metadata of each | `AddSymbol`, lookups, `AddScope` | names of IR symbols are shared by all functions; the IR pass looks up again when more is recorded | a name means the declaration lexical scoping gives it, in both passes; no two declarations share a variable |
| Semantic analysis (`core/SemanticAnalyzer.cpp`, `handlers/SemanticHandlers.cpp`) | metadata: type, initialised, will return, will break, in a loop | one handler per node | flags combined over branches and loops | accepted functions return, mention declared names only, read no variable without a value |
| IR generation (`core/IRGenerator.cpp`, `handlers/IRHandlers.cpp`) | instructions per function, counter of temporaries | one handler per node, `optimums`, `build_cfg` | labels inherited down the tree | the instructions do what the source says |
| Control flow graph (`model/ControlFlowGraph*.cpp`) | blocks, edges, flags, dominator tree | split, edges, use/def, reachability, dominance | edges at the end of the code | edges are the ways the program can go |
| Liveness (`model/ControlFlowGraphAlgos.cpp`) | `live_in`, `live_out` | one round over all blocks, until nothing changes | old and new sets | the least solution |
| Definite assignment (`model/ControlFlowGraphAlgos.cpp`, `core/CFSemanticAnalyzer.cpp`) | `def_in`, `def_out`, worklist | one turn of the worklist, the check | optimistic start, back edges | sound; exact |
| Slot coalescing (`core/IRVariableOptimizer.cpp`) | ranges, active list, free queue, slots | the linear scan, renaming | ranges that touch, ties in the order | overlapping ranges have different slots; fewest slots |
| IR2 generation (`core/IR2Generator.cpp`) | two address instructions, their graphs | one conversion per instruction | `mov d, a; op d, b` | every operand is still there when it is read |
| Register allocation (`core/ASMGenerator.cpp`, `model/InterferenceGraph*.cpp`) | interference graphs, locations in the slot symbols | order, colour, allocate, emit | symbols shared by functions, address order | interfering slots have different places in the text |
| X86 translation (`handlers/X86Translator.cpp`) | frame offset, saved registers, pending stack arguments | one emitter per instruction | caller and callee saved registers, places cached in symbols | values survive calls, borrowed registers and fused branches; the caller gets its registers and its stack back |
| Struct layout (`handlers/IRHandlers.cpp:444-525`) | queue of structs, sizes, offsets | one turn of the queue | limit of 1000 turns | every struct laid out, aligned, with disjoint fields; ends |
| Pipeline (`driver/API.cpp`, `core/BinaryGenerator.cpp`) | exit code | the stages in order | results that are not looked at | the exit code tells what happened |

Generated code (`Parser.cpp`, `Lexer.yy.cpp`), the vendored headers under
`include/` and the tests are not modelled.

## Modules

```
IntervalColoring  <--implements--  SlotAllocator --- SlotAllocatorProofs
                                        |
AST -- IRGenerator -- MiddleEnd --------+           Liveness ---- LivenessProofs
 |         |              |_________________________|
 |    ControlFlowGraph -- IR ------ ControlFlowGraphProofs
 |         |        \_ DefAnalysis ---- DefAnalysisProofs
 SemanticAnalyzer         |                  RegisterAllocator --- RegisterAllocatorProofs
      \_ FrontEnd ________|                  StructLayout ------- StructLayoutProofs
                                             Scoping ------------ ScopingProofs
X86Machine -- X86Translator ----------------- X86TranslatorProofs
```

* **IntervalColoring** is the abstract specification of coalescing: variables
  receive slots one by one, never one that a variable with an overlapping range
  holds, and a slot once given stays.
* **SlotAllocator** is `AllocateSlots`: `NextItem` (outer loop, in the order of
  `std::sort`, ties open), `ExpireSlot`/`KeepSlot` (inner loop with its iterator
  into `active`), `ReuseSlot` (front of `free_slots`), `NewSlot`.
* **Liveness** is `BlockLevelLivenessAnalyse`: `Iterate` is a round of the
  `while` loop, `next_in` and `next_out` computed from the old sets.
* **IR**, **ControlFlowGraph** are instructions (a destination and two sources),
  `SplitToBasicBlocks`, `BuildControlFlowEdges`, `AnalyzeUseDefForBlocks`,
  `MarkReachableBlocks` and `Dominates`, as operators. Block ids start from 1
  where the code counts from 0. Successor lists keep their order and repeat a
  block when the code adds an edge twice. The dominator tree is boost's; it is
  stated by what it means (every path from the entry goes through the block).
* **DefAnalysis** is `BlockLevelDefAnalyse`: a turn of the worklist is
  `SkipUnreachable`, `NoChange` or `Update`.
* **AST**, **SemanticAnalyzer**, **IRGenerator** are the handlers of both passes
  as operators over the syntax tree. The metadata of the semantic handlers is the
  record the traversal carries; labels of the innermost loop, which
  `Symbol::Inheritance` copies down the tree, are part of the environment.
* **FrontEnd** composes semantic analysis, lowering, graph, definite assignment
  (`DA == INSTANCE DefAnalysis`) and the check, one action per stage. An accepted
  function is then *executed twice*: from its syntax tree and from its
  instructions, from one observable event (a test, also one inside `&&`, `||` or
  `?:` and those of the bounds of a subscript, a call, an assignment, a store, a
  return) to the next.
* **MiddleEnd** composes liveness of IR3 (`L == INSTANCE Liveness`), live ranges,
  coalescing (`S == INSTANCE SlotAllocator`), renaming, the two address form,
  liveness of IR2 and the edges of `build_inf_graph`. Then IR3 and IR2 run in
  step. A value is the place of the instruction that computed it, and whether
  that place has computed again since; a write to a slot destroys every slot that
  is not its neighbour in the interference graph, which is the worst any
  colouring of that graph may do.
* **RegisterAllocator** is `ASMGenerator::Generate` for a whole program: `Visit`
  and `Ordered` (`MCSOrder`), `Color` (boost's greedy colouring), `AllocRegister`
  (locations and spill marks into the slot symbols, shared by all functions),
  and, after the last function, `Emit` (stack slots of `GenerateTextSection` and
  the text). `addr` is the order of the symbols in memory, which decides in which
  order a `std::set<SymbolPtr>` is visited. `SafeText(f)` says that the text of a
  function keeps interfering slots apart and saves the callee saved registers it
  uses.
* **X86Machine** is the part of x86 the text uses, on symbolic values: an
  operation builds a term, so equal terms are equal values for all inputs.
  Registers have two halves and memory consists of cells of four bytes, since the
  32 bit form saves registers with eight bytes. A function that is called
  destroys all that the calling convention lets it destroy.
* **X86Translator** is `X86Translator.cpp`: `Optimums` (fusing a compare or a
  negation with the branch behind it) on the way in, then for every function in
  turn `BeginFunction`, one `Emit...` action per emitter (an instruction becomes
  its lines of text, with the accumulators, borrowed registers, places for
  immediates and areas for what is saved around a call) and `EndFunction`
  (prologue, epilogue). What is written into symbols, `imm_loc` among it, stays
  for the next function. Then one function is called (`Enter`) with arbitrary
  values in all registers and its text runs (`Run`) beside its two address code,
  whose values are kept in `g`.
* **Scoping** is what the parser, `SMProgramHandler` with its handlers for
  functions, parameters, declarations and names, and the IR pass do to the symbol
  tables. A program is the sequence of names and scopes these passes see, of the
  shape the grammar gives it (`ProgramsAssumption`: functions one behind the other,
  scopes that are closed only when open, parameters first); no function of the
  runtime is called `main` (`PredefinedAssumption`). Each
  pass is a phase that goes through this sequence; scopes are chains of ids. The
  lexical scoping the properties speak of is stated of the program alone, without
  any table.
* **StructLayout** is the search for structs that contain themselves (`Analyse`)
  and `ComputeStructuresInfo`: `Take` and `GiveUp` at the front of the queue,
  `PlaceField` for a turn of the loop over the fields, which `Postpone`, `Throw`,
  `ZeroSize` or `Complete` leave.
* **MCFrontEnd**, **MCMiddleEnd**, **MCRegisterAllocator**, **MCX86Translator**,
  **MCScoping**, **MCStructLayout** give function bodies, graphs, programs and
  structs for TLC.

Operators named as a faulty variant of a definition (each has a comment that says
so) are plausible bugs of that definition. With the definition replaced by the
variant, the property it is listed with in `PROJECT.json` is violated.

## What the runs check

| run | instance | shows |
|---|---|---|
| `slot_allocator` | all live ranges over a few indexes | `SlotSafety`: overlapping ranges, also those that touch, have different slots. `SlotsPartitioned`: no slot is lost or doubled between list and queue. `FewestSlots`: as many slots as ranges meet in one index. `ImplementsIntervalColoring`: refinement of the abstract specification. |
| `liveness` | all graphs on 3 blocks, all `use` and `def` of a variable | `Solved`, `BelowEverySolution`: the end is the least solution. `LiveMeansRead`: which is what paths read before they write. `Termination`. |
| `def_analysis` | all graphs on 4 blocks the code can build, all `def` of a variable | `Sound`: what is in `def_in` is assigned on every path, also in irreducible graphs. `Exact`: on reducible graphs nothing is missing. `Termination`. |
| `front_end` | bodies of nested branches and both loops; bodies whose conditions, assignments and results branch and call; bodies that read, write and allocate arrays of structs | `SameEvents`: the instructions test, call, assign, store and return when the source does. `Returns`: accepted functions do not run off their end. `UninitializedOnlyIfDefined`: the only reads without a value that pass are in a block that also writes the variable. |
| `middle_end` | bodies with loops, `&&`, `\|\|`, `?:`, calls, pointers, elements, fields, dead code | `OperandsKept`: whatever path is taken, IR2 reads the values IR3 reads. |
| `regalloc` | one function with any graph on 4 slots, or two with any graphs on 3, all symbol orders, 2 registers | `ProperColoring`. `FewestColors`: on chordal graphs no more colours than the largest clique. `AloneSafe`: a function that alone has slots is right, with spills. `LastSafe`, `UniformSafe`: when sharing the slot symbols does no harm. |
| `x86_translator` | six programs on all places of four slots, both widths | `ValuesKept`: the place of every slot that is read again holds its value, over calls, borrowed registers and parameters. `SameEffects`: tests, stores, call arguments and the result are those of the two address code. `ReturnsToCaller`: registers, `rsp`, `rbp` and the memory above come back. `CallsAligned`. `FormsEncodable`: no instruction has two operands in memory. `FrameApart`: the areas of a frame do not meet. |
| `scoping` | all arrangements of declarations, uses and blocks; two functions with parameters that call each other | `ResolvesLexically`: accepted are just the well scoped programs, and every name gets its lexical declaration. `StableResolution`: the IR pass finds what the semantic pass found. `OwnVariables`: an IR symbol never comes to stand for another declaration. |
| `struct_layout` | all programs of three structs with one or two fields, and odd ones, in every order | `NoneLost`: between queue, work and result. `FieldsApart`, `SizeKeepsAlignment`. `RejectsJustTheInfinite`: the search finds self containing structs and only those. `LaidOut`: the others all get a size. `Termination`. |
| `front_end_undeclared`, `regalloc_clobber`, `x86_immediates` | as above | findings, see below |

Several properties say exactly where the code departs from what one would
expect: `UninitializedOnlyIfDefined` (`CFSemanticAnalyzer.cpp:75`: a read passes if
its block writes the variable at all, also later), `SameEvents` (`IRHandlers.cpp:334`
lowers the else part of `?:` twice, and `Parser.y:271` puts the place of a compound
assignment into the tree twice; bodies where the one tests or calls, or the other
calls, are excepted by `DoneTwice`. `IRHandlers.cpp:766` marks the symbol of an array
variable as an address when an element is accessed, and the mark stays: an
assignment `a = alloc_array(...)` further down in the text becomes `store a, ...`
(`IRHandlers.cpp:271`) and overwrites the old array instead of giving `a` a new one;
`Redirected` excepts these bodies, and only these), `ValuesKept` (`X86Translator.cpp:814`: an argument that
does not stay in a register may be read after its register was given away; `Sound`
excepts these), `FormsEncodable` (`X86Translator.cpp:255`: a store with an operand
in memory), `LaidOut` (`IRHandlers.cpp:456`: 1000 turns are not enough for a chain
of 45 structs in the worst order; `SemanticHandlers.cpp:129`: an undeclared struct
passes and has no size when it is asked for).

**Bounds.** One variable is enough for the analyses: their equations treat every
variable on its own. Three blocks hold a loop with an entry and an exit, four
also a loop with two entries and nested loops; longer graphs repeat these. The
slot instance has ranges that are disjoint, nested, crossing and touching, with
ties in the start and in both ends. Four slots hold a cycle without a chord (the
smallest graph that is not chordal) and with two registers spills of one and two
slots. The bodies of `front_end` hold every statement in both branches of an `if`,
in both loops and before and after them; conditions read one parameter, since no
branch depends on a value. Arrays need one array parameter, a variable as
subscript, and an assignment to the array before and after an access. Those of `middle_end` were chosen so that slots are
reused inside and after loops: with what is live at the end of a block left out of
the live ranges, only the `for` whose step needs a temporary fails. `MaxBlocks`
and `MaxTmp` bound its symbols; they are the domains of its functions, so that a
body that needs more is an evaluation error and not a smaller check. The programs
of `x86_translator` use every group of instructions, calls with none, some, seven
and eight parameters (so both paddings), arguments on the stack, and one function
after another. Their first four slots get every distribution over three of the
registers and the frame: `rbx` is callee saved, `rcx` is the count of shifts and
carries an argument, `rdi` carries the first argument. `Immediates` are the numbers
in these programs. The order in which caller saved registers are moved out before
a call is left open (`ToSave`): each goes to a place of its own. `struct_layout` allows
`MaxIterations` = 7 turns, one more than three structs need in the worst order; the
code allows 1000. `scoping` has bodies of up to 7 tokens with one name (shadowing
takes a block in a block and a use behind both), of 4 with two names, and two
functions with up to two parameters.

**Fairness.** All components are loops of one thread that stop only at their end,
so weak fairness of the whole next-state relation is what the code gives. It is
stated where termination is checked (Liveness, DefAnalysis, StructLayout). The
other modules check safety only and state none: the functions FrontEnd, MiddleEnd
and X86Translator execute may loop forever, and the loops of the rest go through a
finite sequence once. Deadlock is the end of the work in every module and is not
checked, except that `Termination` says the end is reached.

## Findings

1. `regalloc_clobber`: `alloc_register` writes registers into the symbols
   `ir_slot_k`, which all functions share, and all functions are allocated before
   the first is written (`ASMGenerator.cpp:33-48`, `:60`). A function is emitted with
   the registers of a later one; two of its slots that interfere may then share a
   register, or it uses a callee saved register that it does not save, because
   what it saves was chosen for itself (`X86Translator.cpp:630`). Two functions
   with three slots suffice, with three registers and no spill. `UniformSafe` says
   why most programs are not hit: when all slots of every function interfere, slot
   k has colour k everywhere.
2. `x86_immediates`: `mul` and `div` need their number in memory, and the place is
   cached in the symbol of the number (`X86Translator.cpp:546`). A second function
   that uses the same number writes to the place it had in the frame of the first;
   its own frame may end before, and there are its pushed callee saved registers.
   The function returns with them changed. With 64 bit values one number suffices,
   with 32 bit two. It is apart from finding 1: one slot is enough.
3. `front_end_undeclared`: after `if (c) { break; } else { }` the rest of the
   block is not analysed, but it is compiled: its names become immediates
   (`SemanticHandlers.cpp:587`).

## What is proved

For every value of the constants, from the assumptions named in the modules (that
bounds are natural numbers, that inputs have the form of inputs, that a value for
"none" is no member of the set it completes, and that the variables, blocks, slots
and struct definitions of a program are finitely many):

* **SlotAllocatorProofs**: `TypeCorrect`, `SlotsAreSafe`, `Refinement`
  (`Spec => IC!Spec`), `NoSlotIsLost` and `NoSlotTooMany`. The invariant `IInv` adds to the type what relates list,
  queue and result: slots in the active list and in the free queue are different
  and below `slot_count`; a variable that has a slot and whose range reaches the
  start of the current item is in the active list with that slot and its end;
  finished items start no later than pending ones. So the slot that is handed out
  belongs to ranges that have ended. `SlotSafety` alone is not inductive: without
  the order of the items nothing is known of a slot in the free queue. That no slot
  is lost needs lengths: the list and the queue together have as many entries as
  slots were made. A new slot is made only when the queue is empty, so when every
  slot is held by a range that meets the start of the new one: that index is the
  witness of `NoSlotTooMany`.
* **LivenessProofs**: `TypeCorrect`, `EndsSolved`, `IsLeast`, `RoundsGrow`,
  `LiveIsRead`. The
  invariant says that the sets of a round lie below what the equations make of
  them, that they lie below every solution, and that with the flag reset they are
  what the equations make of them. The transfer function is monotone (a lemma),
  which carries the first two over a round. For `LiveIsRead` the blocks from which
  a path reads a variable before writing it are a solution, so the least one has
  no more; and they are below every solution, by the shortest such path.
* **ControlFlowGraphProofs**: `ReachFromFacts`, what the recursive search of
  `MarkReachableBlocks` computes on any finite graph: the least set that is closed
  under the edges. Dominance and all statements about paths rest on it.
* **DefAnalysisProofs**: `TypeCorrect`, `AlwaysSound`, `AlwaysExact`. Soundness
  needs, beside the sets at the entries, those at the exits: what leaves a block
  that some path enters without the variable is the block's own. The edges that
  the analysis leaves out come from blocks that the target dominates, and a path
  without the variable has an edge into the block that is not one of them. For
  exactness every reachable block is in the worklist or satisfies its equations;
  in a reducible graph the forward edges have no cycle, so a variable that is
  missing somewhere without reason could be followed backwards for ever.
* **RegisterAllocatorProofs**: `TypeCorrect`, `ColoringIsProper`, `AloneIsSafe`,
  `LastIsSafe`, `UniformIsSafe` and `FewestAlways`. The three about safe text are
  the exact counterpart of finding 1: they say when sharing the slot symbols does
  no harm. When no other function has slots the metadata in the symbols is what
  the colouring said, and stack slots, counted along the address order, are all
  different (a lemma on cardinalities). What the last function wrote nobody
  overwrites. When all slots of every function interfere, slot k has colour k in
  each. In general it does not hold with two functions. `FewestAlways` is the
  optimality of maximum cardinality search. The weight of a slot is the number of
  its earlier neighbours, so a slot that was not chosen and has an earlier
  neighbour which the chosen one lacks also lacks one of the chosen one's
  (`OrderPrefers`). A chordless path whose two ends come before all between them
  would therefore lead to another with an earlier end: there is none
  (`NothingHangs`), and the earlier neighbours of a slot form a clique
  (`EarlierNeighboursMeet`). A slot of colour c has one earlier neighbour of every
  smaller colour (`ColorsInFront`), so the slot with the greatest colour completes
  a clique of as many slots as there are colours.
* **StructLayoutProofs**: `TypeCorrect`, `FieldsNeverOverlap`, `NoStructLost`,
  `SizeAlwaysAligned`, `AlwaysRejectsJustTheInfinite`, `AlwaysLaidOut`. For
  the fields the invariant adds that the types of the fields of a finished struct
  have their sizes, so that no later step moves an end, and that what the loop
  over the fields has placed lies apart below `offset`. For the queue it adds that
  no struct is in it twice. For the check, a call of the search leaves fewer
  structs to visit or fewer types to look at, so its equation has one solution; it
  misses its target exactly when some structs are closed under the types of their
  fields and name the target nowhere. Without a struct that contains itself the
  number of structs inside of one is a depth. That the others get a layout is an
  argument on the turns: with `Left` structs without a size and all but the first
  `u` of the queue known to wait for another, `2 * turns + 2 * u +
  Left * (Left - 1)` never exceeds `n * (n + 1)`, where n is the number of structs.
  A turn makes `u` smaller, and `u` is not zero while structs are left, since the one
  of least depth waits for none. The bound is for structs with fields: a field of
  an empty struct lets a struct wait for ever.
* **ScopingProofs**: `InductiveInvariant`, `ResolutionIsStable`, `VariablesAreOwn`,
  `LexicalInvariant`, `AlwaysResolvesLexically`.
  `RecordSymbol` refuses a name that is visible. So a declaration that is recorded
  after a name was resolved never stands between the name and the declaration
  found for it, and the second lookup, with everything recorded, finds the same.
  The invariant says that the tables are well formed (no name twice in a scope, no
  IR name for two declarations), that what was found for a name is what a lookup
  finds now, and how far each pass has come. `ResolvesLexically` compares the
  tables with the program. `LexInv` adds, for the parser, that the scope of one node
  is a prefix of that of a later one exactly when it is still open there, and that
  the scopes of parameters are apart from those of the functions before; and, for
  the semantic pass, that while no error was found the tables hold what it has been
  at and the program is well scoped as far as that, and that an error has a reason
  in the program. The second fact about parameters is needed because all of them
  are recorded before any body: otherwise one that stands behind a use could be
  found for it. That a use has one binding follows from the refusal again: of two
  declarations that reach it the first would reach the second.
* **X86TranslatorProofs**: `FrameNeverMeets`, `AllFormsEncodable`,
  `CallsAlwaysAligned`, `AlwaysReturnsToCaller`, for every program, place of its
  slots and both widths.
  For the frame, the invariant says where each area is: the spilled slots by their
  rank, the caller saved registers behind them, `rsp`, then the immediates of this
  function; those that an earlier function placed (finding 2) are set aside. For
  the forms, every emitter writes lines of a set of operands and operations, and
  what the peephole pass makes are instructions of its input or a compare and its
  branch. For the calls, every chunk of text is `Padded`: between a call and the
  `and` before it are one subtraction and pushes, together a multiple of 16. On
  the machine, `rsp` stays a number because the only addresses among the values of
  a run are those made from `rsp` and `rbp` (`Tame`).
  For the return, `ShapeInv` says of the text what every line may write: a line is
  `Calm` when it leaves `rsp`, the registers the function does not use and all of
  memory but the part of the frame for values alone, and a chunk is `Quiet` when it
  is calm, borrows a register (push, calm lines, pop) or calls (saves, arguments,
  padding, restores). A `rtn` is a chunk that `Leaves`, and the prologue `Opens` a
  frame of which every chunk keeps its distance; frames only grow while a function
  is translated, so that what was calm stays so. `ReturnInv` adds the machine: while
  a function runs, what it pushed is still below its frame, in order, and what it
  does not use is as it was (`Held`); when it has returned, all is (`Back`). The
  theorem needs that no immediate of the function was placed by an earlier one
  (finding 2), for then it would be read and written outside of the frame; it does
  not need the condition on parameters.

The prover cannot instantiate the induction theorems of its library. Where a
recursive function or a fold over a sequence is reasoned about (`ReachFrom`,
`ContainsType`, `Optimums`, the run of a text), the proof takes the least number
for which the statement fails (`LeastNumber`), and that the recursion has a
solution is proved in the same way.

Only model-checked: the terminations (liveness is outside of the prover's reach);
the composed modules FrontEnd and MiddleEnd, whose handlers are recursive operators
over trees, which the prover cannot use; and the values in the runs of text beside
two address code in X86Translator (`ValuesKept`, `SameEffects`). These two are not
true of every program and every place of its slots: two slots in use at once must
not share a register, none may live in `rdx` over a division (it is not in the
pool of registers, `X86Translator.cpp:45`), and what a fused compare or `lnot`
computes must not be read again (it is a temporary). The stages before keep
to that, the programs and places of the run do too, and a theorem would have to
carry it as a hypothesis through every emitter. What a function gives back to its
caller depends on none of it, which is why `ReturnsToCaller` is proved.

## Not modelled, and the plan

Left out of the modules above: types, elements of one byte (whose offset is the
subscript itself), and what instructions compute; `alloc` is lowered as a call.
Functions are lowered and executed one
at a time; a call is an event with an unknown result. Register choice in
MiddleEnd is abstracted to the interference graph; RegisterAllocator shows that
the graph is respected, and X86Translator takes any places that do. What
finding 1 does to the text is not run on X86Machine. Branches change no place, so
X86Translator runs straight code. The exit code of the pipeline (`API.cpp:173`
drops the result of the last stage) is one assignment that reading shows; the
Lexer and the LALR automaton are generated.

Next, in this order:

1. RegisterAllocator composed with X86Translator: frames of spilled slots with
   their real order, and the texts of several functions on one machine;
2. types: what `SemanticAnalyzer` accepts against a type system;
3. proofs: `ValuesKept`, then `SameEffects`.
