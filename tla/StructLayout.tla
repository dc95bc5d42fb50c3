---------------------------- MODULE StructLayout ----------------------------
(***************************************************************************)
(* Structs: the check that none contains itself (SMProgramHandler,         *)
(* SMStructHandler) and the computation of sizes and field offsets         *)
(* (ComputeStructuresInfo).                                                *)
(*                                                                         *)
(* The structs wait in a queue in the order of an unordered_map.  One that *)
(* has a field whose struct has no size yet goes to the back; after        *)
(* MaxIterations turns the computation gives up.  The loop over the fields *)
(* of a struct takes one step per field.                                   *)
(***************************************************************************)
EXTENDS Naturals, FiniteSets, SequencesExt

CONSTANTS
    Structs,            \* the struct definitions of a program
    Basic,              \* int, bool, pointers and arrays
    BasicSize,          \* their size in bytes
    Undeclared,         \* a struct that is named but not defined
    NoStruct,           \* no struct
    MaxIterations,      \* 1000
    Programs,           \* functions from Structs to sequences of field types
    Orders              \* the orders in which structs may be queued

ASSUME TypesAssumption ==
    /\ IsFiniteSet(Structs)
    /\ Structs \cap Basic = {}
    /\ Undeclared \notin Structs \cup Basic
    /\ NoStruct \notin Structs
    /\ BasicSize \in [Basic -> Nat \ {0}]

ASSUME InputAssumption ==
    /\ Programs \subseteq [Structs -> Seq(Structs \cup Basic \cup {Undeclared})]
    /\ \A o \in Orders : /\ o \in Seq(Structs) /\ ToSet(o) = Structs
                          /\ \A j, k \in DOMAIN o : j # k => o[j] # o[k]
    /\ MaxIterations \in Nat

VARIABLES
    fields,             \* input: the types of the fields of every struct
    phase,              \* "analyse", "rejected", "queue", "layout",
                        \* "done", "failed" (AddError), "thrown" (stoi)
    q,                  \* the queue
    turns,              \* of the loop
    failed,             \* an error was added
    size, offsets,      \* results
    completed,          \* the structs that have them
    s, i,               \* the struct and the field at work
    at, offset, align   \* offsets of its fields, next offset, largest field

input  == fields
result == <<size, offsets, completed>>
work   == <<s, i, at, offset, align>>
vars   == <<input, phase, q, turns, failed, result, work>>

Types == Structs \cup Basic \cup {Undeclared}

-----------------------------------------------------------------------------
(***************************************************************************)
(* The semantic check.                                                     *)
(***************************************************************************)
\* Faulty variant of ContainsType: only the first field of a struct counts.
ContainsTypeFirst(target, f) ==
    LET Search[call \in Seq(Types) \X SUBSET Structs] ==
            LET todo    == call[1]
                visited == call[2]
            IN  IF todo = << >> THEN FALSE
                ELSE IF Head(todo) = target THEN TRUE
                ELSE IF Head(todo) \in Structs \ visited
                THEN Search[<<SubSeq(f[Head(todo)], 1, 1) \o Tail(todo),
                              visited \cup {Head(todo)}>>]
                ELSE Search[<<Tail(todo), visited>>]
    IN  {t \in Structs : Search[<< <<t>>, {} >>]}

\* StructContainsType: the structs from which target is found, by a search in
\* depth that goes into no struct twice.  What the calls that are open have
\* still to look at, innermost first, is the list todo.
ContainsType(target, f) ==
    LET Search[call \in Seq(Types) \X SUBSET Structs] ==
            LET todo    == call[1]
                visited == call[2]
            IN  IF todo = << >> THEN FALSE
                ELSE IF Head(todo) = target THEN TRUE
                ELSE IF Head(todo) \in Structs \ visited
                THEN Search[<<f[Head(todo)] \o Tail(todo),
                              visited \cup {Head(todo)}>>]
                ELSE Search[<<Tail(todo), visited>>]
    IN  {t \in Structs : Search[<< <<t>>, {} >>]}

\* SMStructHandler
SelfContaining(f) ==
    {c \in Structs : ToSet(f[c]) \cap ContainsType(c, f) # {}}

Init ==
    /\ fields \in Programs
    /\ phase = "analyse"
    /\ q = << >> /\ turns = 0 /\ failed = FALSE
    /\ size = [c \in Structs |-> 0]
    /\ offsets = [c \in Structs |-> << >>]
    /\ completed = {}
    /\ s = NoStruct /\ i = 1 /\ at = << >> /\ offset = 0 /\ align = 1

Analyse ==
    /\ phase = "analyse"
    /\ phase' = IF SelfContaining(fields) = {} THEN "queue" ELSE "rejected"
    /\ UNCHANGED <<input, q, turns, failed, result, work>>

-----------------------------------------------------------------------------
(***************************************************************************)
(* ComputeStructuresInfo                                                   *)
(***************************************************************************)
Queue ==
    /\ phase = "queue"
    /\ q' \in Orders
    /\ phase' = "layout"
    /\ UNCHANGED <<input, turns, failed, result, work>>

InLoop == phase = "layout" /\ s = NoStruct

\* --max_iterations <= 0
LastTurn == turns + 1 >= MaxIterations

GiveUp ==
    /\ InLoop /\ q # << >> /\ LastTurn
    /\ failed' = TRUE /\ phase' = "failed"
    /\ UNCHANGED <<input, q, turns, result, work>>

\* Faulty variant of NextTurn: turns are not counted.
NextTurnSame == turns

NextTurn == turns + 1

\* Faulty variant of Open: the index of the field is not set back.
OpenInside(c) == s' = c /\ i' = i /\ at' = << >> /\ offset' = 0 /\ align' = 1

\* The loop over the fields of c starts.
Open(c) == s' = c /\ i' = 1 /\ at' = << >> /\ offset' = 0 /\ align' = 1

Take ==
    /\ InLoop /\ q # << >> /\ ~LastTurn
    /\ turns' = NextTurn
    /\ q' = Tail(q)
    /\ IF Head(q) \in completed THEN UNCHANGED work ELSE Open(Head(q))
    /\ UNCHANGED <<input, phase, failed, result>>

AtField == phase = "layout" /\ s # NoStruct /\ i \in DOMAIN fields[s]

FieldType == fields[s][i]

\* Faulty variant of Known: the size of a struct is taken as it is.
KnownEarly(t) == t \in Basic \cup Structs

\* A type that has a size.
Known(t) == t \in Basic \cup completed

SizeOf(t) == IF t \in Basic THEN BasicSize[t] ELSE size[t]

\* Faulty variant of RoundUp: the multiple below.
RoundDown(n, d) == n - (n % d)

RoundUp(n, d) == IF n % d = 0 THEN n ELSE n + (d - (n % d))

\* Faulty variant of Requeue: the struct is forgotten.
RequeueNot == s' = NoStruct /\ q' = q

\* The struct has to wait.
Requeue == s' = NoStruct /\ q' = Append(q, s)

\* A field whose struct has no size yet.
Postpone ==
    /\ AtField /\ FieldType \in Structs /\ ~Known(FieldType)
    /\ Requeue
    /\ UNCHANGED <<input, phase, turns, failed, result, i, at, offset, align>>

\* stoi of the empty size of a struct without definition throws.
Throw ==
    /\ AtField /\ FieldType = Undeclared
    /\ phase' = "thrown"
    /\ UNCHANGED <<input, q, turns, failed, result, work>>

\* A field of size zero is an error, and the struct waits all the same.
ZeroSize ==
    /\ AtField /\ Known(FieldType) /\ SizeOf(FieldType) = 0
    /\ failed' = TRUE
    /\ Requeue
    /\ UNCHANGED <<input, phase, turns, result, i, at, offset, align>>

PlaceField ==
    LET n == SizeOf(FieldType)
        o == RoundUp(offset, n)
    IN  /\ AtField /\ Known(FieldType) /\ n # 0
        /\ at' = Append(at, o)
        /\ offset' = o + n
        /\ align' = IF align < n THEN n ELSE align
        /\ i' = i + 1
        /\ UNCHANGED <<input, phase, q, turns, failed, result, s>>

\* Faulty variant of FinalSize: the end of the last field.
FinalSizeUnpadded == offset

FinalSize == RoundUp(offset, align)

Complete ==
    /\ phase = "layout" /\ s # NoStruct /\ i = Len(fields[s]) + 1
    /\ size' = [size EXCEPT ![s] = FinalSize]
    /\ offsets' = [offsets EXCEPT ![s] = at]
    /\ completed' = completed \cup {s}
    /\ s' = NoStruct
    /\ UNCHANGED <<input, phase, q, turns, failed, i, at, offset, align>>

Finish ==
    /\ InLoop /\ q = << >>
    /\ phase' = IF failed THEN "failed" ELSE "done"
    /\ UNCHANGED <<input, q, turns, failed, result, work>>

Next ==
    \/ Analyse \/ Queue \/ Take \/ GiveUp
    \/ Postpone \/ Throw \/ ZeroSize \/ PlaceField \/ Complete \/ Finish

\* The compiler is sequential: it goes on as long as it can.
Spec == Init /\ [][Next]_vars /\ WF_vars(Next)

-----------------------------------------------------------------------------
(***************************************************************************)
(* Properties.                                                             *)
(***************************************************************************)
Phases == {"analyse", "rejected", "queue", "layout", "done", "failed", "thrown"}

TypeOK ==
    /\ fields \in [Structs -> Seq(Types)]
    /\ phase \in Phases
    /\ q \in Seq(Structs) /\ turns \in Nat /\ failed \in BOOLEAN
    /\ size \in [Structs -> Nat]
    /\ offsets \in [Structs -> Seq(Nat)]
    /\ completed \in SUBSET Structs
    /\ s \in Structs \cup {NoStruct} /\ i \in Nat \ {0}
    /\ at \in Seq(Nat) /\ offset \in Nat /\ align \in Nat \ {0}
    /\ s # NoStruct => i \in 1 .. Len(fields[s]) + 1 /\ Len(at) = i - 1

\* While the loop runs every struct waits in the queue once, is at work, or has
\* its size: none is lost and none computed twice (ComputeStructuresInfo).
NoneLost ==
    phase \in {"layout", "done", "failed", "thrown"}
        => /\ \A j, k \in DOMAIN q : j # k => q[j] # q[k]
           /\ ToSet(q) \cup {s} \cup completed = Structs \cup {s}
           /\ ToSet(q) \cap completed = {}
           /\ s \notin ToSet(q) \cup completed

\* The fields of a type list f at the offsets o lie one behind the other
\* without meeting and end before e.
Apart(f, o, e) ==
    \A k \in DOMAIN o :
        /\ o[k] + SizeOf(f[k]) <= e
        /\ \A l \in DOMAIN o : k < l => o[k] + SizeOf(f[k]) <= o[l]

\* In every struct that has a size the fields have offsets, do not overlap and
\* lie inside, where the size of a nested struct is the one it has in the end
\* (ComputeStructuresInfo, IRFieldAccessHandler).
FieldsApart ==
    \A c \in completed :
        /\ DOMAIN offsets[c] = DOMAIN fields[c]
        /\ Apart(fields[c], offsets[c], size[c])

\* Elements of an array of structs keep the alignment of the largest field:
\* the size is a multiple of the size of every largest field.
SizeKeepsAlignment ==
    \A c \in completed : \A k \in DOMAIN fields[c] :
        (\A l \in DOMAIN fields[c] : SizeOf(fields[c][l]) <= SizeOf(fields[c][k]))
            => size[c] % SizeOf(fields[c][k]) = 0

\* Every struct has a depth, above those of the structs inside of it.
Finite ==
    \E depth \in [Structs -> 0 .. Cardinality(Structs)] :
        \A c \in Structs : \A t \in ToSet(fields[c]) \cap Structs : depth[t] < depth[c]

\* The search in depth rejects a program just when a struct contains itself,
\* over any number of others (StructContainsType).
RejectsJustTheInfinite ==
    /\ phase = "rejected" => ~Finite
    /\ phase \notin {"analyse", "rejected"} => Finite

\* Every field that is not of a basic type is of a struct with fields.
WellFormed ==
    \A c \in Structs : \A k \in DOMAIN fields[c] :
        fields[c][k] \in Structs => fields[fields[c][k]] # << >>

NamesDeclared == \A c \in Structs : Undeclared \notin ToSet(fields[c])

\* Turns that are enough for any order of the queue.
WorstTurns == (Cardinality(Structs) * (Cardinality(Structs) + 1)) \div 2

\* A program that passes the semantic check, has no field of an empty struct
\* and not too many structs gets a size for every struct, in whatever order
\* the map yields them; without the last, an error.
LaidOut ==
    /\ (phase = "failed" /\ WorstTurns < MaxIterations) => ~WellFormed
    /\ phase = "thrown" => ~NamesDeclared
    /\ phase = "done" => completed = Structs

\* The loop ends, whatever the structs are.
Termination == <>(phase \in {"rejected", "done", "failed", "thrown"})

=============================================================================
