----------------------------- MODULE X86Machine -----------------------------
(***************************************************************************)
(* The x86 instructions the translator writes, on symbolic values: every   *)
(* operation builds a term, so equal terms are equal values whatever the   *)
(* inputs are.  A function that is called keeps to the calling convention  *)
(* and destroys all that the convention lets it destroy.                   *)
(*                                                                         *)
(* A register holds a low and a high half, memory is made of cells of four *)
(* bytes.  Address 0 is rsp before the call of the function that runs,     *)
(* where a stack argument lies; rbp of its frame is Base.                  *)
(***************************************************************************)
EXTENDS Integers, Sequences, SequencesExt

VARIABLE width          \* bytes of a value: 4, or 8 with the option r64

None    == <<"none">>
Imm(n)  == <<"imm", n>>
Reg(r)  == <<"reg", r>>
Mem(a)  == <<"mem", a>>         \* a(%rbp)
Ind(o)  == <<"ind", o>>         \* the memory a register points to

IsReg(o) == o[1] = "reg"
IsMem(o) == o[1] = "mem"
IsImm(o) == o[1] = "imm"

Acc   == Reg("rax")
Rem   == Reg("rdx")
Count == Reg("rcx")

\* kFRegs, kCallerSavedReg and kCalleeSavedReg without rbp.
FRegs       == <<"rdi", "rsi", "rdx", "rcx", "r8", "r9">>
CallerSaved == <<"r10", "r11", "r8", "r9", "rcx", "rdi", "rdx", "rsi">>
CalleeSaved == {"rbx", "r12", "r13", "r14", "r15"}
Regs        == ToSet(CallerSaved) \cup CalleeSaved \cup {"rax"}

\* An instruction: operation, source, destination.  "mov" and the arithmetic
\* work on values, "movq", "push" and "pop" on eight bytes.
T(op, s, d) == [op |-> op, s |-> s, d |-> d]

Base == -16
Zero == <<"zero">>
Lost == 1               \* a stack pointer that was not restored

Address(a) == <<"address", a>>

Halves(v) == IF width = 8 THEN <<v, v>> ELSE <<v, Zero>>
Full(v)   == <<v, v>>
Join(p)   == IF p[1] = p[2] THEN p[1] ELSE <<"torn", p[1], p[2]>>
Value(p)  == IF width = 8 THEN Join(p) ELSE p[1]

Cell(k, a) == IF a \in DOMAIN k.mem THEN k.mem[a] ELSE <<"junk", a>>
At(k, a)   == <<Cell(k, a), Cell(k, a + 4)>>

Fetch(k, o) ==
    CASE IsImm(o) -> Full(o)
      [] IsReg(o) -> IF o[2] = "rsp" THEN Full(Address(k.rsp)) ELSE k.regs[o[2]]
      [] IsMem(o) -> At(k, Base + o[2])
      [] OTHER    -> Halves(<<"load", Value(k.regs[o[2][2]]), Len(k.events)>>)

ValueOf(k, o) == Value(Fetch(k, o))

Poke(k, a, p, bytes) ==
    [k EXCEPT !.mem = [c \in DOMAIN @ \cup {a} \cup (IF bytes = 8 THEN {a + 4} ELSE {}) |->
                          IF c = a THEN p[1]
                          ELSE IF c = a + 4 /\ bytes = 8 THEN p[2] ELSE k.mem[c]]]

Event(k, e) == [k EXCEPT !.events = Append(@, e)]

Deliver(k, o, p, bytes) ==
    CASE o = Reg("rsp") ->
             [k EXCEPT !.rsp = IF Join(p)[1] = "address" THEN Join(p)[2] ELSE Lost]
      [] IsReg(o) /\ o # Reg("rsp") ->
             [k EXCEPT !.regs[o[2]] = IF bytes = 8 THEN p ELSE <<p[1], Zero>>]
      [] IsMem(o) -> Poke(k, Base + o[2], p, bytes)
      [] OTHER    -> Event(k, <<"store", Value(k.regs[o[2][2]]), Value(p)>>)

Put64(k, o, v) == Deliver(k, o, Full(v), 8)
PutW(k, o, v)  == Deliver(k, o, Halves(v), width)

\* The branch on whether v is zero; of a negated value it is the opposite.
OnZero(v)    == IF v[1] = "lnot" THEN <<"nonzero", v[2]>> ELSE <<"zero", v>>
OnNonZero(v) == <<"nonzero", v>>

\* What a callee with n parameters finds.
Arguments(k, n) ==
    [i \in 1 .. n |-> IF i <= 6 THEN Value(k.regs[FRegs[i]])
                                ELSE Value(At(k, k.rsp + 8 * (i - 7)))]

\* It keeps the callee saved registers and the frames above, nothing else.
AfterCall(k, n) ==
    LET args == IF n > 6 THEN 8 * (n - 6) ELSE 0
        old  == Event(k, <<"call", Arguments(k, n)>>)
    IN  [old EXCEPT
            !.aligned = @ /\ k.rsp % 16 = 0,
            !.mem  = [a \in {c \in DOMAIN @ : c >= k.rsp + args} |-> @[a]],
            !.regs = [r \in Regs |->
                         IF r \in CalleeSaved THEN @[r]
                         ELSE IF r = "rax" THEN Full(<<"result", Len(k.events)>>)
                         ELSE Full(<<"junk", Len(k.events)>>)]]

Divided(k, s) ==
    LET a == ValueOf(k, Acc)
        ok == ValueOf(k, Rem) = <<"sign", a>>
    IN  PutW(PutW(k, Acc, <<IF ok THEN "div" ELSE "trap", a, ValueOf(k, s)>>),
             Rem, <<"mod", a, ValueOf(k, s)>>)

Exec(k, t) ==
    CASE t.op = "mov"  -> Deliver(k, t.d, Fetch(k, t.s), width)
      [] t.op = "movq" -> Deliver(k, t.d, Fetch(k, t.s), 8)
      [] t.op = "push" -> Poke([k EXCEPT !.rsp = @ - 8], k.rsp - 8, Fetch(k, t.s), 8)
      [] t.op = "pop"  -> Deliver([k EXCEPT !.rsp = @ + 8], t.d, At(k, k.rsp), 8)
      [] t.op = "subsp"   -> [k EXCEPT !.rsp = @ - t.s[2]]
      [] t.op = "alignsp" -> [k EXCEPT !.rsp = @ - (@ % 16)]
      [] t.op = "enter" ->
             [Poke(k, k.rsp - 8, Full(k.rbp), 8) EXCEPT !.rsp = k.rsp - 8, !.rbp = Address(Base)]
      [] t.op = "leave" -> [k EXCEPT !.rsp = Base + 8, !.rbp = Join(At(k, Base))]
      [] t.op = "ret"   -> [k EXCEPT !.rsp = @ + 8, !.returned = Join(At(k, k.rsp))]
      [] t.op \in {"add", "shl"} ->
             PutW(k, t.d, <<t.op, ValueOf(k, t.d), ValueOf(k, t.s)>>)
      [] t.op = "imul" ->
             PutW(PutW(k, Rem, <<"high", ValueOf(k, Acc), ValueOf(k, t.s)>>),
                  Acc, <<"mul", ValueOf(k, Acc), ValueOf(k, t.s)>>)
      [] t.op = "cltd" -> PutW(k, Rem, <<"sign", ValueOf(k, Acc)>>)
      [] t.op = "idiv" -> Divided(k, t.s)
      [] t.op = "neg"  -> PutW(k, t.d, <<"neg", ValueOf(k, t.d)>>)
      [] t.op = "both" -> PutW(k, t.d, <<"land", ValueOf(k, t.s), ValueOf(k, t.d)>>)
      [] t.op = "cmp"  -> [k EXCEPT !.flags = <<ValueOf(k, t.d), ValueOf(k, t.s)>>]
      [] t.op = "set"  ->
             PutW(k, t.d, IF t.s[2] = "lnot" THEN <<"lnot", k.flags[1]>>
                          ELSE <<t.s[2], k.flags[1], k.flags[2]>>)
      [] t.op = "jz"   -> Event(k, OnZero(k.flags[1]))
      [] t.op = "jnz"  -> Event(k, OnNonZero(k.flags[1]))
      [] t.op = "jn"   -> Event(k, OnZero(<<t.s[2], k.flags[1], k.flags[2]>>))
      [] t.op = "call" -> AfterCall(k, t.s[2])

=============================================================================
