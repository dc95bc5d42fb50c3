---------------------------- MODULE ScopingProofs ----------------------------
(***************************************************************************)
(* Proofs about Scoping, for every program and every set of predefined     *)
(* functions.  The argument: because RecordSymbol refuses a name that is   *)
(* visible, a declaration that is recorded after a name was resolved never *)
(* stands between the name and the declaration found for it.  In the       *)
(* second part: the scopes that the parser gives to the nodes lie around   *)
(* each other as the tokens do, so what a lookup finds in the tables is    *)
(* what lexical scoping gives, or an error is found for a reason.          *)
(***************************************************************************)
EXTENDS Scoping, WellFoundedInduction, FiniteSetTheorems, TLAPS

-----------------------------------------------------------------------------
(* Scopes. *)

\* A set of natural numbers that is not empty has a least element.
LEMMA Least ==
    ASSUME NEW S \in SUBSET Nat, S # {}
    PROVE  \E x \in S : \A y \in S : x <= y
<1> DEFINE R == {ss \in Nat \X Nat : ss[1] < ss[2]}
<1>1. IsWellFoundedOn(R, Nat)
  BY NatLessThanWellFounded DEF OpToRel
<1>2. \E x \in S : \A y \in S : ~(<<y, x>> \in R)
  <2> HIDE DEF R
  <2> QED BY <1>1, WFMin
<1>3. PICK x \in S : \A y \in S : ~(<<y, x>> \in R)
  BY <1>2
<1>4. ASSUME NEW y \in S PROVE x <= y
  <2>1. ~(<<y, x>> \in R)
    BY <1>3
  <2>2. ~(<<y, x>>[1] < <<y, x>>[2])
    BY <2>1
  <2> QED BY <2>2
<1>5. QED BY <1>4

\* Two scopes around one scope lie around each other.
LEMMA Chain ==
    ASSUME NEW s \in Seq(Nat), NEW t \in Seq(Nat), NEW u \in Seq(Nat),
           Encloses(s, u), Encloses(t, u), Len(s) <= Len(t)
    PROVE  Encloses(s, t)
BY DEF Encloses

\* Scopes of one length around one scope are the same.
LEMMA SameScope ==
    ASSUME NEW s \in Seq(Nat), NEW t \in Seq(Nat), Encloses(s, t), Len(t) <= Len(s)
    PROVE  s = t
<1>1. Len(s) = Len(t) /\ \A k \in 1 .. Len(s) : s[k] = t[k]
  BY DEF Encloses
<1>2. QED BY <1>1

-----------------------------------------------------------------------------
(* The invariant. *)

IsDefinition(d) ==
    /\ d = Symbol(d.scope, d.name, d.value)
    /\ d.scope \in Seq(Nat)
    /\ \/ \E n : d.name = Func(n) /\ d.value = Func(n) /\ d.scope = RootScope
       \/ \E n : /\ d.name = <<"var", n>>
                 /\ \E id : \E k \in 0 .. inner_var_index - 1 : d.value = <<"ins", id, k>>

TypesOK ==
    /\ tokens \in Seq(Token)
    /\ pos \in Nat
    /\ scopes_stack \in Seq(Nat)
    /\ next_scope_index \in Nat
    /\ inner_var_index \in Nat
    /\ scope \in [DOMAIN tokens -> Seq(Nat)]
    /\ DOMAIN def_of = DOMAIN tokens
    /\ DOMAIN ir_of = DOMAIN tokens

DefsOK ==
    /\ \A d \in defs : IsDefinition(d)
    /\ \A d, e \in defs : d.name = e.name /\ d.scope = e.scope => d = e
    /\ \A d, e \in defs : d.value = e.value => d = e

IsNearest(d, s, name) ==
    /\ d \in Visible(s, name)
    /\ \A e \in Visible(s, name) : Encloses(e.scope, d.scope)

\* What was found for a name is still what is found for it.
ResolvedOK ==
    \A t \in DOMAIN tokens :
        def_of[t] # NoSymbol /\ Kind(t) # "func"
            => IsNearest(def_of[t], scope[t], Name(t))

Early == phase \in {"parse", "predefined"}

OrderOK ==
    /\ Early => defs = {} /\ \A t \in DOMAIN tokens : def_of[t] = NoSymbol
    /\ phase = "predefined" => pos = 1
    /\ phase = "functions"
           => \A t \in DOMAIN tokens : def_of[t] # NoSymbol => Kind(t) \in {"func", "param"}
    /\ phase \notin {"main", "others", "done"} => \A t \in DOMAIN tokens : ir_of[t] = NoIR

\* What a pass has been at is resolved.
Behind(t) ==
    \/ phase = "functions" /\ t < pos /\ Kind(t) = "param"
    \/ phase = "bodies" /\ (Kind(t) = "param" \/ (t < pos /\ Kind(t) \in {"decl", "use", "call"}))
    \/ phase \in {"check", "main", "others", "done"} /\ Kind(t) \in {"param", "decl", "use", "call"}

CompleteOK == succ => \A t \in DOMAIN tokens : Behind(t) => def_of[t] # NoSymbol

IROK == \A i \in DOMAIN def_symbol : def_symbol[i] \in defs /\ def_symbol[i].value = i

IInv == /\ TypesOK /\ DefsOK /\ ResolvedOK /\ OrderOK /\ CompleteOK /\ IROK
        /\ StableResolution

-----------------------------------------------------------------------------
(* Looking up. *)

LEMMA VisibleFacts ==
    ASSUME DefsOK, NEW s \in Seq(Nat), NEW n, NEW d \in Visible(s, n)
    PROVE  /\ d \in defs /\ d.name = n /\ Encloses(d.scope, s)
           /\ d.scope \in Seq(Nat) /\ Len(d.scope) \in Nat /\ Len(d.scope) <= Len(s)
<1>1. d \in defs /\ d.name = n /\ Encloses(d.scope, s)
  BY DEF Visible
<1>2. IsDefinition(d)
  BY <1>1 DEF DefsOK
<1>3. d.scope \in Seq(Nat)
  BY <1>2 DEF IsDefinition
<1>4. QED BY <1>1, <1>3 DEF Encloses

\* If a name is visible, one of its declarations is the nearest.
LEMMA SomeIsNearest ==
    ASSUME TypesOK, DefsOK, NEW s \in Seq(Nat), NEW n, Visible(s, n) # {}
    PROVE  \E d \in Visible(s, n) : \A e \in Visible(s, n) : Len(e.scope) <= Len(d.scope)
<1> DEFINE V == Visible(s, n)
           S == {Len(s) - Len(d.scope) : d \in V}
<1>1. \A d \in V : d.scope \in Seq(Nat) /\ Len(d.scope) \in Nat /\ Len(d.scope) <= Len(s)
  BY VisibleFacts
<1>2. S \in SUBSET Nat
  BY <1>1
<1>3. S # {}
  OBVIOUS
<1>4. PICK x \in S : \A y \in S : x <= y
  <2> HIDE DEF S
  <2> QED BY <1>2, <1>3, Least
<1>5. PICK d \in V : x = Len(s) - Len(d.scope)
  BY <1>4
<1>6. \A e \in V : Len(s) - Len(d.scope) <= Len(s) - Len(e.scope)
  BY <1>4, <1>5
<1>7. \A e \in V : Len(e.scope) <= Len(d.scope)
  BY <1>1, <1>5, <1>6
<1>8. QED BY <1>5, <1>7

\* What LookupSymbol finds is the nearest.
LEMMA LookupSome ==
    ASSUME TypesOK, DefsOK, NEW s \in Seq(Nat), NEW n, Visible(s, n) # {}
    PROVE  IsNearest(LookupSymbol(s, n), s, n)
<1> DEFINE d == LookupSymbol(s, n)
<1>1. d \in Visible(s, n) /\ \A e \in Visible(s, n) : Len(e.scope) <= Len(d.scope)
  BY SomeIsNearest DEF LookupSymbol
<1>2. \A e \in Visible(s, n) : e.scope \in Seq(Nat) /\ Encloses(e.scope, s)
  BY VisibleFacts
<1>3. \A e \in Visible(s, n) : Encloses(e.scope, d.scope)
  BY <1>1, <1>2, Chain
<1>4. QED BY <1>1, <1>3 DEF IsNearest

\* It finds nothing only when nothing is visible.
LEMMA LookupNone ==
    ASSUME TypesOK, DefsOK, NEW s \in Seq(Nat), NEW n, n # <<"none", "none">>,
           LookupSymbol(s, n) = NoSymbol
    PROVE  Visible(s, n) = {}
<1>1. SUFFICES ASSUME Visible(s, n) # {} PROVE FALSE
  OBVIOUS
<1>2. LookupSymbol(s, n).name = n
  BY <1>1, LookupSome DEF IsNearest, Visible
<1>3. NoSymbol.name = <<"none", "none">>
  BY DEF NoSymbol, Symbol
<1>4. QED BY <1>2, <1>3

\* The nearest is unique: it is what LookupSymbol finds.
LEMMA NearestIsFound ==
    ASSUME TypesOK, DefsOK, NEW s \in Seq(Nat), NEW n, NEW d, IsNearest(d, s, n)
    PROVE  LookupSymbol(s, n) = d
<1>1. Visible(s, n) # {}
  BY DEF IsNearest
<1>2. IsNearest(LookupSymbol(s, n), s, n)
  BY <1>1, LookupSome
<1>3. PICK f : f = LookupSymbol(s, n)
  OBVIOUS
<1>4. /\ f \in Visible(s, n) /\ d \in Visible(s, n)
      /\ Encloses(f.scope, d.scope) /\ Encloses(d.scope, f.scope)
  BY <1>2, <1>3 DEF IsNearest
<1>5. /\ f \in defs /\ d \in defs /\ f.name = d.name
      /\ f.scope \in Seq(Nat) /\ d.scope \in Seq(Nat)
  BY <1>4, VisibleFacts
<1>6. f.scope = d.scope
  BY <1>4, <1>5, SameScope DEF Encloses
<1>7. QED BY <1>3, <1>5, <1>6 DEF DefsOK

\* The names of nodes.
LEMMA NameShape ==
    ASSUME NEW t \in DOMAIN tokens
    PROVE  /\ Name(t) # <<"none", "none">>
           /\ Kind(t) \in {"func", "call"} => Name(t) = Func(tokens[t].name)
           /\ Kind(t) \notin {"func", "call"} => Name(t) = <<"var", tokens[t].name>>
BY DEF Name, Func

-----------------------------------------------------------------------------
(* Recording. *)

LEMMA EnclosesItself == ASSUME NEW s \in Seq(Nat) PROVE Encloses(s, s)
BY DEF Encloses

LEMMA Numbered ==
    ASSUME NEW a, NEW b, NEW j, NEW k, j # k
    PROVE  <<"ins", a, j>> # <<"ins", b, k>>
OBVIOUS

\* A name that is not visible is recorded by RecordSymbol: the tables keep
\* their form.
LEMMA NewVariable ==
    ASSUME TypesOK, DefsOK, NEW s \in Seq(Nat), NEW n, NEW new,
           Visible(s, <<"var", n>>) = {}, new = Symbol(s, <<"var", n>>, InnerVar(s)),
           defs' = defs \cup {new}, inner_var_index' = inner_var_index + 1
    PROVE  DefsOK'
<1>0. inner_var_index \in Nat
  BY DEF TypesOK
<1>1. new.scope = s /\ new.name = <<"var", n>> /\ new.value = <<"ins", s[Len(s)], inner_var_index>>
  BY DEF Symbol, InnerVar
<1>2. ASSUME NEW d \in defs PROVE IsDefinition(d)'
  <2>1. IsDefinition(d)
    BY DEF DefsOK
  <2>2. \A k \in 0 .. inner_var_index - 1 : k \in 0 .. inner_var_index' - 1
    BY <1>0
  <2>3. QED BY <2>1, <2>2 DEF IsDefinition
<1>3. IsDefinition(new)'
  <2>1. inner_var_index \in 0 .. inner_var_index' - 1
    BY <1>0
  <2>2. new = Symbol(new.scope, new.name, new.value)
    BY <1>1 DEF Symbol
  <2>3. QED BY <1>1, <2>1, <2>2 DEF IsDefinition
<1>4. ASSUME NEW d \in defs, d.name = new.name, d.scope = new.scope PROVE FALSE
  <2>1. Encloses(d.scope, s)
    BY <1>1, <1>4, EnclosesItself
  <2>2. QED BY <1>1, <1>4, <2>1 DEF Visible
<1>5. ASSUME NEW d \in defs PROVE d.value # new.value
  <2>1. IsDefinition(d)
    BY DEF DefsOK
  <2>2. CASE \E f : d.value = Func(f)
    BY <2>2, <1>1 DEF Func
  <2>3. CASE \E id : \E j \in 0 .. inner_var_index - 1 : d.value = <<"ins", id, j>>
    <3>1. PICK id : \E j \in 0 .. inner_var_index - 1 : d.value = <<"ins", id, j>>
      BY <2>3
    <3>. PICK j \in 0 .. inner_var_index - 1 : d.value = <<"ins", id, j>>
      BY <3>1
    <3>2. j # inner_var_index
      BY <1>0
    <3>3. QED BY <3>2, <1>1, Numbered
  <2>4. \/ \E f : d.value = Func(f)
        \/ \E id : \E j \in 0 .. inner_var_index - 1 : d.value = <<"ins", id, j>>
    BY <2>1 DEF IsDefinition
  <2>5. QED BY <2>2, <2>3, <2>4
<1>6. QED BY <1>2, <1>3, <1>4, <1>5 DEF DefsOK

\* What was the nearest declaration stays it when a name is recorded that was
\* not visible where it stands.
LEMMA StaysNearest ==
    ASSUME TypesOK, DefsOK, NEW s \in Seq(Nat), NEW n, NEW new, Visible(s, n) = {},
           new.scope = s, new.name = n, defs' = defs \cup {new},
           NEW t \in Seq(Nat), NEW m, NEW d, IsNearest(d, t, m)
    PROVE  IsNearest(d, t, m)'
<1>1. d \in Visible(t, m) /\ Visible(t, m)' \subseteq Visible(t, m) \cup {new}
  BY DEF IsNearest, Visible
<1>2. d \in Visible(t, m)'
  BY <1>1 DEF Visible
<1>3. ASSUME new \in Visible(t, m)' PROVE Encloses(new.scope, d.scope)
  <2>1. n = m /\ Encloses(s, t)
    BY <1>3 DEF Visible
  <2>2. d \in defs /\ d.name = m /\ Encloses(d.scope, t) /\ d.scope \in Seq(Nat)
    BY <1>1, VisibleFacts
  <2>3. CASE Len(d.scope) <= Len(s)
    <3>1. Encloses(d.scope, s)
      BY <2>1, <2>2, <2>3, Chain
    <3>2. d \in Visible(s, n)
      BY <2>1, <2>2, <3>1 DEF Visible
    <3>3. QED BY <3>2
  <2>4. CASE Len(s) <= Len(d.scope)
    BY <2>1, <2>2, <2>4, Chain
  <2>5. Len(s) \in Nat /\ Len(d.scope) \in Nat
    BY <2>2
  <2>6. QED BY <2>3, <2>4, <2>5
<1>4. \A e \in Visible(t, m)' : Encloses(e.scope, d.scope)
  BY <1>1, <1>3 DEF IsNearest
<1>5. QED BY <1>2, <1>4 DEF IsNearest

\* The new declaration is the nearest where it stands.
LEMMA NewIsNearest ==
    ASSUME NEW s \in Seq(Nat), NEW n, NEW new, Visible(s, n) = {},
           new.scope = s, new.name = n, defs' = defs \cup {new}
    PROVE  IsNearest(new, s, n)'
<1>1. Visible(s, n)' = {new}
  BY EnclosesItself DEF Visible
<1>2. QED BY <1>1, EnclosesItself DEF IsNearest

LEMMA RecordSymbolKeeps ==
    ASSUME TypesOK, DefsOK, ResolvedOK, pos \in DOMAIN tokens, Kind(pos) \in {"param", "decl"},
           RecordSymbol, UNCHANGED <<tokens, scope>>
    PROVE  /\ DefsOK' /\ ResolvedOK'
           /\ inner_var_index' \in Nat /\ DOMAIN def_of' = DOMAIN tokens
           /\ defs \subseteq defs'
           /\ def_of'[pos] # NoSymbol
           /\ \A t \in DOMAIN tokens : t # pos => def_of'[t] = def_of[t]
           /\ succ' => succ
<1>1. /\ scope[pos] \in Seq(Nat) /\ Name(pos) = <<"var", tokens[pos].name>>
      /\ DOMAIN def_of = DOMAIN tokens /\ inner_var_index \in Nat
  BY NameShape DEF TypesOK
<1>. PICK p \in DOMAIN tokens : p = pos
  OBVIOUS
<1>. PICK s \in Seq(Nat) : s = scope[p]
  BY <1>1
<1>. PICK m : m = tokens[p].name
  OBVIOUS
<1>. PICK n : n = <<"var", m>>
  OBVIOUS
<1>. PICK found : found = LookupSymbol(s, n)
  OBVIOUS
<1>. PICK new : new = Symbol(s, n, InnerVar(s))
  OBVIOUS
<1>2. s = scope[pos] /\ n = Name(pos) /\ n # <<"none", "none">>
  BY <1>1
<1>3. \A t \in DOMAIN tokens : scope'[t] = scope[t] /\ Name(t)' = Name(t) /\ Kind(t)' = Kind(t)
  BY DEF Name, Kind
<1>4. CASE found # NoSymbol
  <2>1. /\ def_of' = [def_of EXCEPT ![p] = found] /\ ~succ'
        /\ defs' = defs /\ inner_var_index' = inner_var_index
    BY <1>2, <1>4 DEF RecordSymbol
  <2>2. IsNearest(found, s, n)
    <3>1. Visible(s, n) # {}
      BY <1>4 DEF LookupSymbol
    <3>2. QED BY <3>1, LookupSome
  <2>3. DefsOK'
    BY <2>1 DEF DefsOK, IsDefinition
  <2>4. \A d, c, x : IsNearest(d, c, x)' <=> IsNearest(d, c, x)
    BY <2>1 DEF IsNearest, Visible
  <2>5. ASSUME NEW t \in DOMAIN tokens, def_of'[t] # NoSymbol, Kind(t) # "func"
        PROVE  IsNearest(def_of[t], scope[t], Name(t))'
    <3>1. IsNearest(def_of'[t], scope[t], Name(t))
      BY <1>1, <1>2, <2>1, <2>2, <2>5 DEF ResolvedOK
    <3>2. QED BY <1>3, <2>4, <3>1
  <2>6. ResolvedOK'
    BY <1>3, <2>5 DEF ResolvedOK
  <2>7. QED BY <1>1, <1>4, <2>1, <2>3, <2>6
<1>5. CASE found = NoSymbol
  <2>1. /\ def_of' = [def_of EXCEPT ![p] = new] /\ succ' = succ
        /\ defs' = defs \cup {new} /\ inner_var_index' = inner_var_index + 1
    BY <1>2, <1>5 DEF RecordSymbol
  <2>2. Visible(s, n) = {}
    BY <1>2, <1>5, LookupNone
  <2>3. DefsOK'
    BY <2>1, <2>2, NewVariable
  <2>4. new.scope = s /\ new.name = n
    BY DEF Symbol
  <2>5. new # NoSymbol
    <3>1. NoSymbol.name = <<"none", "none">>
      BY DEF NoSymbol, Symbol
    <3>2. QED BY <1>2, <2>4, <3>1
  <2>6. IsNearest(new, s, n)'
    BY <2>1, <2>2, <2>4, NewIsNearest
  <2>7. ASSUME NEW t \in DOMAIN tokens, def_of'[t] # NoSymbol, Kind(t) # "func"
        PROVE  IsNearest(def_of[t], scope[t], Name(t))'
    <3>1. CASE t = p
      BY <1>1, <1>2, <1>3, <2>1, <2>6, <3>1
    <3>2. CASE t # p
      <4>1. def_of'[t] = def_of[t] /\ scope[t] \in Seq(Nat)
        BY <1>1, <2>1, <3>2 DEF TypesOK
      <4>2. IsNearest(def_of[t], scope[t], Name(t))
        BY <2>7, <4>1 DEF ResolvedOK
      <4>3. \A c \in Seq(Nat) : \A d, x : IsNearest(d, c, x) => IsNearest(d, c, x)'
        BY <2>1, <2>2, <2>4, StaysNearest
      <4>4. QED BY <1>3, <4>1, <4>2, <4>3
    <3>3. QED BY <3>1, <3>2
  <2>8. ResolvedOK'
    BY <1>3, <2>7 DEF ResolvedOK
  <2>9. QED BY <1>1, <2>1, <2>3, <2>5, <2>8
<1>6. QED BY <1>4, <1>5

\* A function or a struct is recorded by RecordRealSymbol.
LEMMA NewFunction ==
    ASSUME DefsOK, NEW f, NEW new, Visible(RootScope, Func(f)) = {},
           new = Symbol(RootScope, Func(f), Func(f)),
           defs' = defs \cup {new}, inner_var_index' = inner_var_index
    PROVE  DefsOK'
<1>1. new.scope = RootScope /\ new.name = Func(f) /\ new.value = Func(f) /\ RootScope \in Seq(Nat)
  BY DEF Symbol, RootScope
<1>2. ASSUME NEW d \in defs PROVE IsDefinition(d)'
  BY DEF DefsOK, IsDefinition
<1>3. IsDefinition(new)'
  <2>1. new = Symbol(new.scope, new.name, new.value)
    BY <1>1
  <2>2. QED BY <1>1, <2>1 DEF IsDefinition
<1>4. ASSUME NEW d \in defs, d.name = new.name, d.scope = new.scope PROVE FALSE
  <2>1. Encloses(d.scope, RootScope)
    BY <1>1, <1>4, EnclosesItself
  <2>2. QED BY <1>1, <1>4, <2>1 DEF Visible
<1>5. ASSUME NEW d \in defs, d.value = new.value PROVE FALSE
  <2>1. IsDefinition(d)
    BY DEF DefsOK
  <2>2. \/ \E g : d.name = Func(g) /\ d.value = Func(g) /\ d.scope = RootScope
        \/ \E id, k : d.value = <<"ins", id, k>>
    BY <2>1 DEF IsDefinition
  <2>3. ASSUME NEW g, d.name = Func(g), d.value = Func(g), d.scope = RootScope PROVE FALSE
    BY <1>1, <1>4, <1>5, <2>3
  <2>4. ASSUME NEW id, NEW k, d.value = <<"ins", id, k>> PROVE FALSE
    BY <1>1, <1>5, <2>4 DEF Func
  <2>5. QED BY <2>2, <2>3, <2>4
<1>6. QED BY <1>2, <1>3, <1>4, <1>5 DEF DefsOK

LEMMA RecordRealSymbolKeeps ==
    ASSUME TypesOK, DefsOK, pos \in DOMAIN tokens, Kind(pos) = "func",
           RecordRealSymbol, UNCHANGED <<tokens, scope>>
    PROVE  /\ DefsOK' /\ defs \subseteq defs'
           /\ inner_var_index' = inner_var_index /\ DOMAIN def_of' = DOMAIN tokens
           /\ \A t \in DOMAIN tokens : t # pos => def_of'[t] = def_of[t]
           /\ \A d \in defs' \ defs : \E f : d.name = Func(f)
           /\ succ' => succ
<1>1. /\ Name(pos) = Func(tokens[pos].name) /\ Name(pos) # <<"none", "none">>
      /\ DOMAIN def_of = DOMAIN tokens /\ RootScope \in Seq(Nat)
  BY NameShape DEF TypesOK, RootScope
<1>. PICK f : f = tokens[pos].name
  OBVIOUS
<1>. PICK new : new = Symbol(RootScope, Func(f), Func(f))
  OBVIOUS
<1>2. CASE LookupSymbol(RootScope, Func(f)) # NoSymbol
  <2>1. ~succ' /\ defs' = defs /\ inner_var_index' = inner_var_index
    BY <1>1, <1>2 DEF RecordRealSymbol
  <2>2. DefsOK'
    BY <2>1 DEF DefsOK, IsDefinition
  <2>3. \E d : def_of' = [def_of EXCEPT ![pos] = d]
    BY <1>1, <1>2 DEF RecordRealSymbol
  <2>4. QED BY <1>1, <2>1, <2>2, <2>3
<1>3. CASE LookupSymbol(RootScope, Func(f)) = NoSymbol
  <2>1. /\ def_of' = [def_of EXCEPT ![pos] = new] /\ succ' = succ
        /\ defs' = defs \cup {new} /\ inner_var_index' = inner_var_index
    BY <1>1, <1>3 DEF RecordRealSymbol
  <2>2. Visible(RootScope, Func(f)) = {}
    BY <1>1, <1>3, LookupNone
  <2>3. DefsOK'
    BY <2>1, <2>2, NewFunction
  <2>4. new.name = Func(f)
    BY DEF Symbol
  <2>5. QED BY <1>1, <2>1, <2>3, <2>4
<1>4. QED BY <1>2, <1>3

-----------------------------------------------------------------------------
(* The steps. *)

LEMMA Start == Init => IInv
<1>1. SUFFICES ASSUME Init PROVE IInv
  OBVIOUS
<1>2. tokens \in Seq(Token)
  BY <1>1, ProgramsAssumption DEF Init
<1>3. TypesOK
  BY <1>1, <1>2 DEF Init, TypesOK, RootScope
<1>4. DefsOK /\ OrderOK /\ IROK /\ ResolvedOK /\ StableResolution
  BY <1>1 DEF Init, DefsOK, OrderOK, IROK, Early, ResolvedOK, StableResolution
<1>5. CompleteOK
  BY <1>1 DEF Init, CompleteOK, Behind
<1>6. QED BY <1>3, <1>4, <1>5 DEF IInv

\* Nothing is resolved while the parser is at work.
LEMMA ParserStep == IInv /\ (EnterScope \/ LeaveScope \/ MakeNode) => IInv'
<1>1. SUFFICES ASSUME IInv, EnterScope \/ LeaveScope \/ MakeNode PROVE IInv'
  OBVIOUS
<1>2. /\ phase = "parse" /\ pos \in DOMAIN tokens /\ phase' \in {"parse", "predefined"}
      /\ Advance("predefined") /\ UNCHANGED <<tokens, analyzer, ir>>
  BY <1>1 DEF EnterScope, LeaveScope, MakeNode, At, Advance
<1>3. pos \in Nat /\ pos' \in Nat /\ (phase' = "predefined" => pos' = 1)
  BY <1>1, <1>2 DEF IInv, TypesOK, Advance
<1>4. /\ scopes_stack' \in Seq(Nat) /\ next_scope_index' \in Nat
      /\ scope' \in [DOMAIN tokens -> Seq(Nat)]
  <2>0. /\ scopes_stack \in Seq(Nat) /\ next_scope_index \in Nat
        /\ scope \in [DOMAIN tokens -> Seq(Nat)]
    BY <1>1 DEF IInv, TypesOK
  <2>1. CASE EnterScope
    <3>1. /\ scopes_stack' = Append(scopes_stack, next_scope_index)
          /\ next_scope_index' = next_scope_index + 1
      BY <2>1 DEF EnterScope
    <3>2. scopes_stack' \in Seq(Nat) /\ next_scope_index' \in Nat
      BY <2>0, <3>1
    <3>3. scope' = [scope EXCEPT ![pos] = scopes_stack']
      BY <2>1 DEF EnterScope
    <3>4. QED BY <2>0, <3>2, <3>3
  <2>2. CASE LeaveScope
    <3>1. scopes_stack # << >> => SubSeq(scopes_stack, 1, Len(scopes_stack) - 1) \in Seq(Nat)
      BY <2>0
    <3>2. QED BY <2>0, <2>2, <3>1 DEF LeaveScope
  <2>3. CASE MakeNode
    BY <2>0, <2>3 DEF MakeNode
  <2>4. QED BY <1>1, <2>1, <2>2, <2>3
<1>5. TypesOK'
  BY <1>1, <1>2, <1>3, <1>4 DEF IInv, TypesOK, analyzer, ir
<1>6. /\ defs' = defs /\ inner_var_index' = inner_var_index /\ def_of' = def_of
      /\ tokens' = tokens /\ ir_of' = ir_of /\ def_symbol' = def_symbol
      /\ defs = {} /\ \A t \in DOMAIN tokens : def_of[t] = NoSymbol
  BY <1>1, <1>2 DEF analyzer, ir, IInv, OrderOK, Early
<1>7. DefsOK' /\ ResolvedOK' /\ IROK' /\ StableResolution'
  BY <1>1, <1>6 DEF IInv, DefsOK, ResolvedOK, IROK, StableResolution
<1>8. OrderOK'
  BY <1>1, <1>2, <1>3, <1>6 DEF IInv, OrderOK, Early
<1>9. CompleteOK'
  BY <1>2 DEF CompleteOK, Behind
<1>10. QED BY <1>5, <1>7, <1>8, <1>9 DEF IInv

LEMMA PredefinedStep == IInv /\ RecordPredefined => IInv'
<1>1. SUFFICES ASSUME IInv, RecordPredefined PROVE IInv'
  OBVIOUS
<1>2. /\ phase = "predefined" /\ phase' = "functions" /\ pos' = pos /\ pos = 1
      /\ UNCHANGED <<tokens, scopes_stack, next_scope_index, scope, inner_var_index,
                     def_of, succ, ir_of, def_symbol>>
      /\ defs' = {Symbol(RootScope, Func(n), Func(n)) : n \in Predefined}
      /\ \A t \in DOMAIN tokens : def_of[t] = NoSymbol
  BY <1>1 DEF RecordPredefined, IInv, OrderOK, Early, parser, ir
<1>3. TypesOK'
  BY <1>1, <1>2 DEF IInv, TypesOK
<1>4. DefsOK'
  <2>1. ASSUME NEW n \in Predefined
        PROVE  LET d == Symbol(RootScope, Func(n), Func(n))
               IN  d.scope = RootScope /\ d.name = Func(n) /\ d.value = Func(n)
    BY DEF Symbol
  <2>2. RootScope \in Seq(Nat)
    BY DEF RootScope
  <2>3. \A d \in defs' : d = Symbol(d.scope, d.name, d.value) /\ d.scope = RootScope
                        /\ d.value = d.name /\ \E n : d.name = Func(n)
    BY <1>2, <2>1
  <2>4. \A d \in defs' : IsDefinition(d)'
    BY <2>2, <2>3 DEF IsDefinition
  <2>5. QED BY <2>3, <2>4 DEF DefsOK
<1>5. ResolvedOK' /\ OrderOK'
  BY <1>1, <1>2 DEF IInv, ResolvedOK, OrderOK, Early
<1>9. CompleteOK'
  <2>1. \A t \in DOMAIN tokens : ~Behind(t)'
    BY <1>1, <1>2 DEF IInv, TypesOK, Behind
  <2>2. QED BY <1>2, <2>1 DEF CompleteOK
<1>6. StableResolution'
  BY <1>1, <1>2 DEF IInv, StableResolution
<1>7. IROK'
  BY <1>1, <1>2 DEF IInv, IROK, OrderOK, Early
<1>8. QED BY <1>3, <1>4, <1>5, <1>6, <1>7, <1>9 DEF IInv

\* What a step of the semantic pass leaves behind.
LEMMA Moves ==
    ASSUME TypesOK, pos \in DOMAIN tokens, UNCHANGED tokens,
           \/ phase = "functions" /\ Advance("bodies")
           \/ phase = "bodies" /\ Advance("check")
    PROVE  /\ pos' \in Nat
           /\ phase' \in {"functions", "bodies", "check"}
           /\ phase' = "functions" => phase = "functions"
           /\ \A t \in DOMAIN tokens :
                 Behind(t)' => \/ Behind(t)
                               \/ t = pos /\ phase = "functions" /\ Kind(t) = "param"
                               \/ /\ t = pos /\ phase = "bodies"
                                  /\ Kind(t) \in {"decl", "use", "call"}
<1>1. pos \in Nat /\ DOMAIN tokens = 1 .. Len(tokens) /\ Len(tokens) \in Nat
  BY DEF TypesOK
<1>2. \A t \in DOMAIN tokens : Kind(t)' = Kind(t)
  BY DEF Kind
<1>3. CASE phase = "functions" /\ Advance("bodies")
  BY <1>1, <1>2, <1>3 DEF Advance, Behind
<1>4. CASE phase = "bodies" /\ Advance("check")
  BY <1>1, <1>2, <1>4 DEF Advance, Behind
<1>5. QED BY <1>3, <1>4

\* A step of the semantic pass that resolves the token it is at, or nothing.
LEMMA AnalysisStep ==
    ASSUME IInv, pos \in DOMAIN tokens, UNCHANGED <<tokens, parser, ir>>,
           \/ phase = "functions" /\ Advance("bodies")
           \/ phase = "bodies" /\ Advance("check"),
           DefsOK', ResolvedOK', defs \subseteq defs', inner_var_index' \in Nat,
           DOMAIN def_of' = DOMAIN tokens,
           \A t \in DOMAIN tokens : t # pos => def_of'[t] = def_of[t],
           phase = "functions" => Kind(pos) \in {"func", "param"} \/ def_of' = def_of,
           succ' => succ,
           succ' /\ (\/ phase = "functions" /\ Kind(pos) = "param"
                     \/ phase = "bodies" /\ Kind(pos) \in {"decl", "use", "call"})
               => def_of'[pos] # NoSymbol,
           succ' /\ def_of[pos] # NoSymbol => def_of'[pos] # NoSymbol
    PROVE  IInv'
<1>1. TypesOK
  BY DEF IInv
<1>2. TypesOK'
  BY <1>1, Moves DEF TypesOK, parser, ir
<1>3. \A t \in DOMAIN tokens : ir_of'[t] = NoIR
  BY DEF IInv, OrderOK, ir
<1>4. OrderOK'
  <2>1. phase' # "parse" /\ phase' # "predefined"
    BY <1>1, Moves
  <2>2. ASSUME phase' = "functions", NEW t \in DOMAIN tokens, def_of'[t] # NoSymbol
        PROVE  Kind(t)' \in {"func", "param"}
    <3>1. phase = "functions"
      BY <1>1, <2>2, Moves
    <3>2. Kind(t)' = Kind(t)
      BY DEF Kind
    <3>3. def_of[t] # NoSymbol => Kind(t) \in {"func", "param"}
      BY <3>1 DEF IInv, OrderOK
    <3>4. QED BY <2>2, <3>1, <3>2, <3>3
  <2>3. QED BY <1>3, <2>1, <2>2 DEF OrderOK, Early
<1>5. CompleteOK'
  <2>1. ASSUME succ', NEW t \in DOMAIN tokens, Behind(t)' PROVE def_of'[t] # NoSymbol
    <3>1. Behind(t) => def_of[t] # NoSymbol
      BY <2>1 DEF IInv, CompleteOK
    <3>2. QED BY <1>1, <2>1, <3>1, Moves
  <2>2. QED BY <2>1 DEF CompleteOK
<1>6. IROK'
  BY DEF IInv, IROK, ir
<1>7. StableResolution'
  BY <1>3 DEF StableResolution
<1>8. QED BY <1>2, <1>4, <1>5, <1>6, <1>7 DEF IInv

LEMMA FunctionStep == IInv /\ RecordFunction => IInv'
<1>1. SUFFICES ASSUME IInv, RecordFunction PROVE IInv'
  OBVIOUS
<1>2. /\ phase = "functions" /\ pos \in DOMAIN tokens /\ Kind(pos) = "func"
      /\ RecordRealSymbol /\ Advance("bodies") /\ UNCHANGED <<tokens, parser, ir>>
      /\ UNCHANGED <<tokens, scope>>
      /\ TypesOK /\ DefsOK /\ ResolvedOK
  BY <1>1 DEF RecordFunction, At, IInv, parser
<1>3. /\ DefsOK' /\ defs \subseteq defs'
      /\ inner_var_index' = inner_var_index /\ DOMAIN def_of' = DOMAIN tokens
      /\ \A t \in DOMAIN tokens : t # pos => def_of'[t] = def_of[t]
      /\ \A d \in defs' \ defs : \E f : d.name = Func(f)
      /\ succ' => succ
  BY <1>2, RecordRealSymbolKeeps
<1>4. ASSUME NEW t \in DOMAIN tokens, def_of'[t] # NoSymbol, Kind(t) # "func"
      PROVE  IsNearest(def_of[t], scope[t], Name(t))'
  <2>1. t # pos /\ def_of'[t] = def_of[t]
    BY <1>2, <1>3, <1>4
  <2>2. Kind(t) = "param"
    BY <1>1, <1>2, <1>4, <2>1 DEF IInv, OrderOK
  <2>3. Name(t) = <<"var", tokens[t].name>>
    BY <2>2, NameShape
  <2>4. Visible(scope[t], Name(t))' = Visible(scope[t], Name(t))
    <3>1. \A d \in defs' : d.name = Name(t) => d \in defs
      BY <1>3, <2>3 DEF Func
    <3>2. Name(t)' = Name(t) /\ scope'[t] = scope[t]
      BY <1>2 DEF Name, Kind
    <3>3. QED BY <1>3, <3>1, <3>2 DEF Visible
  <2>5. IsNearest(def_of[t], scope[t], Name(t))
    BY <1>2, <1>4, <2>1 DEF ResolvedOK
  <2>6. QED BY <2>1, <2>4, <2>5 DEF IsNearest
<1>5. ResolvedOK'
  <2>1. \A t \in DOMAIN tokens : Kind(t)' = Kind(t)
    BY <1>2 DEF Kind
  <2>2. QED BY <1>2, <1>4, <2>1 DEF ResolvedOK
<1>6. inner_var_index' \in Nat
  BY <1>2, <1>3 DEF TypesOK
<1>7. succ' /\ def_of[pos] # NoSymbol => def_of'[pos] # NoSymbol
  <2>1. PICK f : f = tokens[pos].name
    OBVIOUS
  <2>2. Name(pos) = Func(f)
    BY <1>2, <2>1, NameShape
  <2>3. Symbol(RootScope, Func(f), Func(f)) # NoSymbol
    <3>1. Symbol(RootScope, Func(f), Func(f)).name = Func(f) /\ NoSymbol.name = <<"none", "none">>
      BY DEF Symbol, NoSymbol
    <3>2. Func(f) # <<"none", "none">>
      BY DEF Func
    <3>3. QED BY <3>1, <3>2
  <2>4. QED BY <1>2, <2>2, <2>3 DEF RecordRealSymbol, TypesOK
<1>8. QED BY <1>1, <1>2, <1>3, <1>5, <1>6, <1>7, AnalysisStep

LEMMA VariableStep == IInv /\ (RecordParam \/ Declare) => IInv'
<1>1. SUFFICES ASSUME IInv, RecordParam \/ Declare PROVE IInv'
  OBVIOUS
<1>2. /\ \/ phase = "functions" /\ Kind(pos) = "param" /\ Advance("bodies")
         \/ phase = "bodies" /\ Kind(pos) = "decl" /\ Advance("check")
      /\ pos \in DOMAIN tokens
      /\ RecordSymbol /\ UNCHANGED <<tokens, parser, ir>>
      /\ UNCHANGED <<tokens, scope>>
      /\ TypesOK /\ DefsOK /\ ResolvedOK
  BY <1>1 DEF RecordParam, Declare, At, IInv, parser
<1>3. /\ DefsOK' /\ ResolvedOK'
      /\ inner_var_index' \in Nat /\ DOMAIN def_of' = DOMAIN tokens
      /\ defs \subseteq defs'
      /\ def_of'[pos] # NoSymbol
      /\ \A t \in DOMAIN tokens : t # pos => def_of'[t] = def_of[t]
      /\ succ' => succ
  BY <1>2, RecordSymbolKeeps
<1>4. QED BY <1>1, <1>2, <1>3, AnalysisStep

LEMMA IdentStep == IInv /\ Ident => IInv'
<1>1. SUFFICES ASSUME IInv, Ident PROVE IInv'
  OBVIOUS
<1>2. /\ phase = "bodies" /\ Kind(pos) \in {"use", "call"} /\ Advance("check")
      /\ pos \in DOMAIN tokens /\ UNCHANGED <<tokens, parser, ir>>
      /\ UNCHANGED <<tokens, scope, defs, inner_var_index>>
      /\ TypesOK /\ DefsOK /\ ResolvedOK
  BY <1>1 DEF Ident, At, IInv, parser
<1>3. PICK found : /\ found = LookupSymbol(scope[pos], Name(pos))
                   /\ def_of' = [def_of EXCEPT ![pos] = found]
                   /\ succ' = (succ /\ found # NoSymbol)
  BY <1>1 DEF Ident
<1>4. scope[pos] \in Seq(Nat) /\ DOMAIN def_of = DOMAIN tokens /\ inner_var_index \in Nat
  BY <1>2 DEF TypesOK
<1>5. found # NoSymbol => IsNearest(found, scope[pos], Name(pos))
  <2>1. found # NoSymbol => Visible(scope[pos], Name(pos)) # {}
    BY <1>3 DEF LookupSymbol
  <2>2. QED BY <1>2, <1>3, <1>4, <2>1, LookupSome
<1>6. DefsOK'
  BY <1>2 DEF DefsOK, IsDefinition
<1>7. ResolvedOK'
  <2>1. ASSUME NEW t \in DOMAIN tokens, def_of'[t] # NoSymbol, Kind(t) # "func"
        PROVE  IsNearest(def_of[t], scope[t], Name(t))'
    <3>1. IsNearest(def_of'[t], scope[t], Name(t))
      BY <1>2, <1>3, <1>4, <1>5, <2>1 DEF ResolvedOK
    <3>2. Name(t)' = Name(t) /\ scope'[t] = scope[t]
      BY <1>2 DEF Name, Kind
    <3>3. QED BY <1>2, <3>1, <3>2 DEF IsNearest, Visible
  <2>2. \A t \in DOMAIN tokens : Kind(t)' = Kind(t)
    BY <1>2 DEF Kind
  <2>3. QED BY <1>2, <2>1, <2>2 DEF ResolvedOK
<1>8. QED BY <1>1, <1>2, <1>3, <1>4, <1>6, <1>7, AnalysisStep

LEMMA PassStep == IInv /\ Pass => IInv'
<1>1. SUFFICES ASSUME IInv, Pass PROVE IInv'
  OBVIOUS
<1>2. /\ \/ phase = "functions" /\ Kind(pos) # "param" /\ Advance("bodies")
         \/ phase = "bodies" /\ Kind(pos) \notin {"decl", "use", "call"} /\ Advance("check")
      /\ pos \in DOMAIN tokens /\ UNCHANGED <<tokens, parser, ir>>
      /\ UNCHANGED <<tokens, scope, defs, inner_var_index, def_of, succ>>
      /\ TypesOK /\ DefsOK /\ ResolvedOK
  BY <1>1 DEF Pass, At, IInv, parser, analyzer
<1>3. DefsOK'
  BY <1>2 DEF DefsOK, IsDefinition
<1>4. ResolvedOK'
  <2>1. \A t \in DOMAIN tokens : Kind(t)' = Kind(t) /\ Name(t)' = Name(t)
    BY <1>2 DEF Kind, Name
  <2>2. QED BY <1>2, <2>1 DEF ResolvedOK, IsNearest, Visible
<1>5. inner_var_index' \in Nat /\ DOMAIN def_of' = DOMAIN tokens
  BY <1>2 DEF TypesOK
<1>6. QED BY <1>1, <1>2, <1>3, <1>4, <1>5, AnalysisStep

LEMMA CheckMainStep == IInv /\ CheckMain => IInv'
<1>1. SUFFICES ASSUME IInv, CheckMain PROVE IInv'
  OBVIOUS
<1>2. /\ phase = "check" /\ phase' = "main" /\ (succ' => succ)
      /\ UNCHANGED <<tokens, pos, scopes_stack, next_scope_index, scope, defs,
                     inner_var_index, def_of, ir_of, def_symbol>>
  BY <1>1 DEF CheckMain, parser, ir
<1>3. \A t \in DOMAIN tokens : Kind(t)' = Kind(t) /\ Name(t)' = Name(t)
  BY <1>2 DEF Kind, Name
<1>4. TypesOK' /\ DefsOK' /\ OrderOK'
  BY <1>1, <1>2 DEF IInv, TypesOK, DefsOK, IsDefinition, OrderOK, Early
<1>5. ResolvedOK'
  BY <1>1, <1>2, <1>3 DEF IInv, ResolvedOK, IsNearest, Visible
<1>6. CompleteOK'
  <2>1. \A t \in DOMAIN tokens : Behind(t)' => Behind(t)
    BY <1>2, <1>3 DEF Behind
  <2>2. QED BY <1>1, <1>2, <2>1 DEF IInv, CompleteOK
<1>7. IROK' /\ StableResolution'
  BY <1>1, <1>2 DEF IInv, IROK, StableResolution
<1>8. QED BY <1>4, <1>5, <1>6, <1>7 DEF IInv

\* What the IR pass finds is what the semantic pass found.
LEMMA Found ==
    ASSUME IInv, Turn, InTurn
    PROVE  /\ pos \in DOMAIN tokens /\ def_of[pos] # NoSymbol /\ def_of[pos] \in defs
           /\ LookupSymbol(scope[pos], Name(pos)) = def_of[pos]
<1>1. /\ phase \in {"main", "others"} /\ succ /\ pos \in DOMAIN tokens
      /\ Kind(pos) \in {"param", "decl", "use", "call"}
  BY DEF Turn, InTurn, Nodes
<1>2. Behind(pos)
  BY <1>1 DEF Behind
<1>3. def_of[pos] # NoSymbol
  BY <1>1, <1>2 DEF IInv, CompleteOK
<1>4. IsNearest(def_of[pos], scope[pos], Name(pos))
  BY <1>1, <1>3 DEF IInv, ResolvedOK
<1>5. TypesOK /\ DefsOK /\ scope[pos] \in Seq(Nat)
  BY <1>1 DEF IInv, TypesOK
<1>6. LookupSymbol(scope[pos], Name(pos)) = def_of[pos]
  BY <1>4, <1>5, NearestIsFound
<1>7. QED BY <1>1, <1>3, <1>4, <1>6 DEF IsNearest, Visible

\* What a step of the IR pass leaves alone.
LEMMA TurnStep ==
    ASSUME IInv, Turn, DOMAIN ir_of' = DOMAIN tokens, IROK', StableResolution'
    PROVE  IInv'
<1>1. /\ phase \in {"main", "others"} /\ phase' \in {"main", "others", "done"}
      /\ pos \in Nat /\ pos' \in Nat
      /\ UNCHANGED <<tokens, scopes_stack, next_scope_index, scope, defs,
                     inner_var_index, def_of, succ>>
  BY DEF Turn, Advance, parser, analyzer, IInv, TypesOK
<1>2. \A t \in DOMAIN tokens : Kind(t)' = Kind(t) /\ Name(t)' = Name(t)
  BY <1>1 DEF Kind, Name
<1>3. TypesOK' /\ DefsOK' /\ OrderOK'
  BY <1>1 DEF IInv, TypesOK, DefsOK, IsDefinition, OrderOK, Early
<1>4. ResolvedOK'
  BY <1>1, <1>2 DEF IInv, ResolvedOK, IsNearest, Visible
<1>5. CompleteOK'
  <2>1. \A t \in DOMAIN tokens : Behind(t)' => Behind(t)
    BY <1>1, <1>2 DEF Behind
  <2>2. QED BY <1>1, <2>1 DEF IInv, CompleteOK
<1>6. QED BY <1>3, <1>4, <1>5 DEF IInv

LEMMA MapSymbolStep == IInv /\ MapSymbol => IInv'
<1>1. SUFFICES ASSUME IInv, MapSymbol PROVE IInv'
  OBVIOUS
<1>2. Turn /\ InTurn /\ DOMAIN ir_of = DOMAIN tokens
  BY <1>1 DEF MapSymbol, IInv, TypesOK
<1>. PICK def : def = def_of[pos]
  OBVIOUS
<1>3. /\ pos \in DOMAIN tokens /\ def # NoSymbol /\ def \in defs
      /\ LookupSymbol(scope[pos], Name(pos)) = def
  BY <1>1, <1>2, Found
<1>4. /\ ir_of' = [ir_of EXCEPT ![pos] = def.value]
      /\ def_symbol' = [i \in DOMAIN def_symbol \cup {def.value} |->
                            IF i = def.value THEN def ELSE def_symbol[i]]
  BY <1>1, <1>3 DEF MapSymbol
<1>5. tokens' = tokens /\ defs' = defs /\ def_of' = def_of
  BY <1>2 DEF Turn, analyzer
<1>6. StableResolution'
  BY <1>1, <1>2, <1>3, <1>4, <1>5 DEF IInv, StableResolution
<1>7. IROK'
  BY <1>1, <1>3, <1>4, <1>5 DEF IInv, IROK
<1>8. DOMAIN ir_of' = DOMAIN tokens
  BY <1>2, <1>4
<1>9. QED BY <1>1, <1>2, <1>6, <1>7, <1>8, TurnStep

LEMMA PassOverStep == IInv /\ PassOver => IInv'
<1>1. SUFFICES ASSUME IInv, PassOver PROVE IInv'
  OBVIOUS
<1>2. Turn /\ UNCHANGED <<tokens, defs, def_of, ir_of, def_symbol>>
  BY <1>1 DEF PassOver, Turn, analyzer, ir
<1>3. IROK' /\ StableResolution' /\ DOMAIN ir_of' = DOMAIN tokens
  BY <1>1, <1>2 DEF IInv, TypesOK, IROK, StableResolution
<1>4. QED BY <1>1, <1>2, <1>3, TurnStep

LEMMA StutterStep == IInv /\ UNCHANGED vars => IInv'
<1>1. SUFFICES ASSUME IInv, UNCHANGED vars PROVE IInv'
  OBVIOUS
<1>2. UNCHANGED <<tokens, phase, pos, scopes_stack, next_scope_index, scope, defs,
                  inner_var_index, def_of, succ, ir_of, def_symbol>>
  BY <1>1 DEF vars
<1>3. \A t \in DOMAIN tokens : Kind(t)' = Kind(t) /\ Name(t)' = Name(t) /\ Behind(t)' = Behind(t)
  BY <1>2 DEF Kind, Name, Behind
<1>4. TypesOK' /\ DefsOK' /\ OrderOK' /\ CompleteOK' /\ IROK' /\ StableResolution'
  BY <1>1, <1>2, <1>3 DEF IInv, TypesOK, DefsOK, IsDefinition, OrderOK, Early, CompleteOK,
                          IROK, StableResolution
<1>5. ResolvedOK'
  BY <1>1, <1>2, <1>3 DEF IInv, ResolvedOK, IsNearest, Visible
<1>6. QED BY <1>4, <1>5 DEF IInv

LEMMA Step == IInv /\ [Next]_vars => IInv'
BY ParserStep, PredefinedStep, FunctionStep, VariableStep, IdentStep, PassStep,
   CheckMainStep, MapSymbolStep, PassOverStep, StutterStep DEF Next

-----------------------------------------------------------------------------
(* The theorems. *)

\* The tables are well formed at every step: no name twice in a scope, no IR
\* name for two declarations, and what was found for a name is still what
\* LookupSymbol finds for it.
THEOREM InductiveInvariant == Spec => []IInv
<1>1. QED BY Start, Step, PTL DEF Spec

\* For every program: the IR pass, which looks a name up when the declarations
\* of all functions are recorded, finds the declaration that the semantic pass
\* found when only some were.
THEOREM ResolutionIsStable == Spec => []StableResolution
<1>1. IInv => StableResolution
  BY DEF IInv
<1>2. QED BY <1>1, InductiveInvariant, PTL

\* For every program: an IR symbol stands for one declaration for good.
THEOREM VariablesAreOwn == Spec => OwnVariables
<1>1. ASSUME IInv, [Next]_vars, NEW i \in DOMAIN def_symbol
      PROVE  def_symbol'[i] = def_symbol[i]
  <2>1. CASE def_symbol' = def_symbol
    BY <2>1
  <2>2. CASE MapSymbol
    <3>1. Turn /\ InTurn
      BY <2>2 DEF MapSymbol
    <3>. PICK def : def = def_of[pos]
      OBVIOUS
    <3>2. def # NoSymbol /\ def \in defs /\ LookupSymbol(scope[pos], Name(pos)) = def
      BY <1>1, <3>1, Found
    <3>3. def_symbol' = [j \in DOMAIN def_symbol \cup {def.value} |->
                            IF j = def.value THEN def ELSE def_symbol[j]]
      BY <2>2, <3>2 DEF MapSymbol
    <3>4. def_symbol[i] \in defs /\ def_symbol[i].value = i
      BY <1>1 DEF IInv, IROK
    <3>5. i = def.value => def_symbol[i] = def
      BY <1>1, <3>2, <3>4 DEF IInv, DefsOK
    <3>6. QED BY <3>3, <3>5
  <2>3. QED BY <1>1, <2>1, <2>2 DEF Next, EnterScope, LeaveScope, MakeNode, RecordPredefined,
                 RecordFunction, RecordParam, Declare, Ident, Pass, CheckMain, PassOver,
                 vars, ir
<1>2. IInv /\ [Next]_vars => [\A i \in DOMAIN def_symbol : def_symbol'[i] = def_symbol[i]]_vars
  BY <1>1
<1>3. QED BY <1>2, InductiveInvariant, PTL DEF Spec, OwnVariables


-----------------------------------------------------------------------------
(***************************************************************************)
(* Lexical scoping.  The scopes of the parser say how the tokens nest, and *)
(* the tables of the semantic pass hold the declarations of the tokens it  *)
(* has been at, so that LookupSymbol and nesting name the same ones.       *)
(***************************************************************************)

Opens  == {"func", "open"}
Closes == {"end", "close"}

\* A node that the parser has given its scope.
Placed(t) == t \in DOMAIN tokens /\ Kind(t) \notin Closes /\ (phase = "parse" => t < pos)

\* The scope around d is open up to t.
Stays(d, t) == \A k \in d .. t : Depth(k) >= Depth(d)

IdsBelow(s, n) == Len(s) >= 1 /\ s[1] = 0 /\ \A k \in DOMAIN s : s[k] < n

\* Scopes lie around each other as the tokens do, and those of the parameters
\* are apart from what stands in an earlier function.
ScopesOK ==
    /\ \A t \in DOMAIN tokens :
           Placed(t) => Len(scope[t]) = 1 + Depth(t) /\ IdsBelow(scope[t], next_scope_index)
    /\ \A d, t \in DOMAIN tokens :
           Placed(d) /\ Placed(t) /\ d <= t => (Encloses(scope[d], scope[t]) <=> Stays(d, t))
    /\ \A d, t \in DOMAIN tokens :
           /\ Placed(d) /\ Placed(t) /\ t < d
           /\ Kind(d) \in {"func", "param"} /\ Kind(t) \in {"decl", "use", "call"}
           => ~Encloses(scope[d], scope[t]) /\ ~Encloses(scope[t], scope[d])

StackOK ==
    phase = "parse" =>
        /\ pos >= 1 /\ Len(scopes_stack) = 1 + Depth(pos - 1)
        /\ IdsBelow(scopes_stack, next_scope_index)
        /\ \A d \in DOMAIN tokens :
               Placed(d) => (Encloses(scope[d], scopes_stack) <=> Stays(d, pos - 1))
        /\ pos > 1 /\ Kind(pos - 1) \notin Closes => scopes_stack = scope[pos - 1]

\* What the semantic pass has recorded or looked up.
Seen(t) ==
    \/ phase = "functions" /\ t < pos /\ Kind(t) \in {"func", "param"}
    \/ /\ phase = "bodies"
       /\ \/ Kind(t) \in {"func", "param"}
          \/ t < pos /\ Kind(t) \in {"decl", "use", "call"}
    \/ phase \in {"check", "main", "others", "done"} /\ t \in Nodes

Declares(t) == Kind(t) \in {"func", "param", "decl"}
Home(t)     == IF Kind(t) = "func" THEN RootScope ELSE scope[t]
Given(n)    == Symbol(RootScope, Func(n), Func(n))

\* The tables hold the functions of the runtime and what the pass has seen.
RecordedOK ==
    succ /\ ~Early =>
        /\ \A d \in defs :
               \/ \E n \in Predefined : d = Given(n)
               \/ \E t \in DOMAIN tokens : Seen(t) /\ Declares(t) /\ d = def_of[t]
        /\ \A t \in DOMAIN tokens :
               Seen(t) /\ Declares(t)
                   => def_of[t] \in defs /\ def_of[t].name = Name(t) /\ def_of[t].scope = Home(t)
        /\ \A n \in Predefined : Given(n) \in defs

HasMain == \E t \in Nodes : Kind(t) = "func" /\ tokens[t].name = "main"

\* As long as no error was found, there is none in what the pass has seen.
CheckedOK ==
    succ =>
        /\ \A t, d \in DOMAIN tokens :
               Seen(t) /\ Seen(d) /\ t # d /\ Kind(t) = "func" /\ Kind(d) = "func"
                   => Name(d) # Name(t)
        /\ \A t \in DOMAIN tokens : Seen(t) /\ Kind(t) = "func" => ~Runtime(t)
        /\ \A t \in DOMAIN tokens : Seen(t) /\ Kind(t) \in {"param", "decl"} => Bindings(t) = {}
        /\ \A t \in DOMAIN tokens :
               Seen(t) /\ Kind(t) \in {"use", "call"}
                   => /\ Bindings(t) # {} \/ Runtime(t)
                      /\ \A d \in Bindings(t) : def_of[t] = def_of[d]
        /\ Analysed => HasMain

Wrong(t) ==
    \/ Declares(t) /\ (Bindings(t) # {} \/ Runtime(t))
    \/ Kind(t) \in {"use", "call"} /\ Bindings(t) = {} /\ ~Runtime(t)

\* An error is found for a reason.
RejectedOK == ~succ => (\E t \in DOMAIN tokens : Wrong(t)) \/ ~HasMain

Nesting == IInv /\ IsProgram(tokens) /\ ScopesOK /\ StackOK
LexInv  == Nesting /\ RecordedOK /\ CheckedOK /\ RejectedOK

\* How the level goes from token to token.
LEMMA CountNext ==
    ASSUME NEW p \in Seq(Token), NEW K, NEW k \in DOMAIN p
    PROVE  LET C(n) == Cardinality({j \in 1 .. n : p[j].kind \in K})
           IN  /\ C(k - 1) \in Nat
               /\ p[k].kind \in K => C(k) = C(k - 1) + 1
               /\ p[k].kind \notin K => C(k) = C(k - 1)
<1> DEFINE S(n) == {j \in 1 .. n : p[j].kind \in K}
<1>1. k \in Nat /\ k >= 1
  OBVIOUS
<1>2. IsFiniteSet(S(k - 1))
  <2>1. IsFiniteSet(1 .. (k - 1))
    BY <1>1, FS_Interval
  <2>2. QED BY <2>1, FS_Subset
<1>3. Cardinality(S(k - 1)) \in Nat
  BY <1>2, FS_CardinalityType
<1>4. ASSUME p[k].kind \in K PROVE Cardinality(S(k)) = Cardinality(S(k - 1)) + 1
  <2>1. S(k) = S(k - 1) \cup {k} /\ k \notin S(k - 1)
    BY <1>1, <1>4
  <2> HIDE DEF S
  <2>2. QED BY <1>2, <2>1, FS_AddElement
<1>5. ASSUME p[k].kind \notin K PROVE S(k) = S(k - 1)
  BY <1>1, <1>5
<1>6. QED BY <1>3, <1>4, <1>5

LEMMA LevelNext ==
    ASSUME NEW p \in Seq(Token), NEW k \in DOMAIN p, Level(p, k - 1) \in Int
    PROVE  /\ p[k].kind \in Opens => Level(p, k) = Level(p, k - 1) + 1
           /\ p[k].kind \in Closes => Level(p, k) = Level(p, k - 1) - 1
           /\ p[k].kind \notin Opens \cup Closes => Level(p, k) = Level(p, k - 1)
<1> DEFINE C(K, n) == Cardinality({j \in 1 .. n : p[j].kind \in K})
<1>1. /\ C(Opens, k - 1) \in Nat
      /\ p[k].kind \in Opens => C(Opens, k) = C(Opens, k - 1) + 1
      /\ p[k].kind \notin Opens => C(Opens, k) = C(Opens, k - 1)
  BY CountNext
<1>2. /\ C(Closes, k - 1) \in Nat
      /\ p[k].kind \in Closes => C(Closes, k) = C(Closes, k - 1) + 1
      /\ p[k].kind \notin Closes => C(Closes, k) = C(Closes, k - 1)
  BY CountNext
<1>3. /\ Level(p, k) = C(Opens, k) - C(Closes, k)
      /\ Level(p, k - 1) = C(Opens, k - 1) - C(Closes, k - 1)
  BY DEF Level, Opens, Closes
<1>4. p[k].kind \in Opens => p[k].kind \notin Closes
  BY DEF Opens, Closes
<1> HIDE DEF C
<1>5. QED BY <1>1, <1>2, <1>3, <1>4

\* What IsProgram says of the depths.
LEMMA DepthFacts ==
    ASSUME tokens \in Seq(Token), IsProgram(tokens)
    PROVE  /\ Depth(0) = 0
           /\ \A t \in 0 .. Len(tokens) : Depth(t) \in Nat
           /\ \A t \in DOMAIN tokens :
                 /\ t \in Nat /\ t >= 1 /\ t <= Len(tokens) /\ t - 1 \in 0 .. Len(tokens)
                 /\ Kind(t) \in Opens => Depth(t) = Depth(t - 1) + 1
                 /\ Kind(t) \in Closes => Depth(t) = Depth(t - 1) - 1
                 /\ Kind(t) \notin Opens \cup Closes => Depth(t) = Depth(t - 1)
                 /\ Kind(t) = "func" => Depth(t - 1) = 0
                 /\ Kind(t) \in {"param", "decl", "use", "call"} => Depth(t) >= 1
                 /\ Kind(t) = "param"
                        => t > 1 /\ t - 1 \in DOMAIN tokens /\ Kind(t - 1) \in {"func", "param"}
<1>1. DOMAIN tokens = 1 .. Len(tokens) /\ Len(tokens) \in Nat
  OBVIOUS
<1>2. Level(tokens, 0) = 0
  <2>1. {j \in 1 .. 0 : tokens[j].kind \in Opens} = {}
    OBVIOUS
  <2>2. {j \in 1 .. 0 : tokens[j].kind \in Closes} = {}
    OBVIOUS
  <2>3. Level(tokens, 0) = Cardinality({}) - Cardinality({})
    BY <2>1, <2>2 DEF Level, Opens, Closes
  <2>4. QED BY <2>3, FS_EmptySet
<1>3. \A k \in DOMAIN tokens : Level(tokens, k) \in Int
  <2>. TAKE k \in DOMAIN tokens
  <2>1. \A K : Cardinality({j \in 1 .. k : tokens[j].kind \in K}) \in Nat
    <3>1. IsFiniteSet(1 .. k)
      BY FS_Interval
    <3>2. \A K : IsFiniteSet({j \in 1 .. k : tokens[j].kind \in K})
      BY <3>1, FS_Subset
    <3>3. QED BY <3>2, FS_CardinalityType
  <2>2. /\ Cardinality({j \in 1 .. k : tokens[j].kind \in {"func", "open"}}) \in Nat
        /\ Cardinality({j \in 1 .. k : tokens[j].kind \in {"end", "close"}}) \in Nat
    BY <2>1
  <2>3. QED BY <2>2 DEF Level
<1>4. \A k \in 0 .. Len(tokens) : Level(tokens, k) \in Nat
  BY <1>1, <1>2, <1>3 DEF IsProgram
<1>5. ASSUME NEW t \in DOMAIN tokens
      PROVE  /\ Kind(t) \in Opens => Depth(t) = Depth(t - 1) + 1
             /\ Kind(t) \in Closes => Depth(t) = Depth(t - 1) - 1
             /\ Kind(t) \notin Opens \cup Closes => Depth(t) = Depth(t - 1)
  <2>1. t - 1 \in 0 .. Len(tokens)
    BY <1>1
  <2>2. Level(tokens, t - 1) \in Int
    BY <1>4, <2>1
  <2>3. QED BY <2>2, LevelNext DEF Depth, Kind
<1>6. QED BY <1>1, <1>2, <1>4, <1>5 DEF Depth, IsProgram, Kind

\* What depends on the program and the scopes alone.
LEMMA Unmoved ==
    ASSUME UNCHANGED tokens
    PROVE  /\ \A t : /\ Kind(t)' = Kind(t) /\ Name(t)' = Name(t) /\ Depth(t)' = Depth(t)
                     /\ Bindings(t)' = Bindings(t) /\ Runtime(t)' = Runtime(t)
                     /\ Declares(t)' = Declares(t) /\ Wrong(t)' = Wrong(t)
           /\ \A d, t : Stays(d, t)' = Stays(d, t)
           /\ Nodes' = Nodes /\ HasMain' = HasMain /\ IsProgram(tokens)' = IsProgram(tokens)
<1>1. \A t : Kind(t)' = Kind(t) /\ Name(t)' = Name(t) /\ Depth(t)' = Depth(t)
  BY DEF Kind, Name, Depth
<1>2. \A t : Bindings(t)' = Bindings(t) /\ Runtime(t)' = Runtime(t)
  BY <1>1 DEF Bindings, Reaches, Runtime
<1>3. \A d, t : Stays(d, t)' = Stays(d, t)
  BY <1>1 DEF Stays
<1>4. \A t : Declares(t)' = Declares(t) /\ Wrong(t)' = Wrong(t)
  BY <1>1, <1>2 DEF Declares, Wrong
<1>5. Nodes' = Nodes /\ HasMain' = HasMain
  BY <1>1 DEF Nodes, HasMain
<1>6. IsProgram(tokens)' = IsProgram(tokens)
  OBVIOUS
<1>7. QED BY <1>1, <1>2, <1>3, <1>4, <1>5, <1>6

-----------------------------------------------------------------------------
(* The scopes of the parser. *)

LEMMA Lengths ==
    ASSUME NEW s \in Seq(Nat)
    PROVE  Len(s) \in Nat /\ DOMAIN s = 1 .. Len(s) /\ \A k \in 1 .. Len(s) : s[k] \in Nat
OBVIOUS

LEMMA Around ==
    ASSUME NEW s \in Seq(Nat), NEW t \in Seq(Nat)
    PROVE  Encloses(s, t) <=> Len(s) <= Len(t) /\ \A k \in 1 .. Len(s) : s[k] = t[k]
BY DEF Encloses

LEMMA Below ==
    ASSUME NEW s \in Seq(Nat), NEW n
    PROVE  IdsBelow(s, n) <=> Len(s) >= 1 /\ s[1] = 0 /\ \A k \in 1 .. Len(s) : s[k] < n
BY DEF IdsBelow

\* A scope with a new id at its end is around none that was there before.
LEMMA Opened ==
    ASSUME NEW s \in Seq(Nat), NEW a \in Seq(Nat), NEW n \in Nat, IdsBelow(s, n), IdsBelow(a, n)
    PROVE  /\ Append(s, n) \in Seq(Nat) /\ Len(Append(s, n)) = Len(s) + 1
           /\ IdsBelow(Append(s, n), n + 1)
           /\ Encloses(a, Append(s, n)) <=> Encloses(a, s)
           /\ ~Encloses(Append(s, n), a)
<1>0. Append(s, n) \in Seq(Nat)
  OBVIOUS
<1>1. PICK b \in Seq(Nat) : b = Append(s, n)
  BY <1>0
<1>2. PICK ls \in Nat : ls = Len(s)
  OBVIOUS
<1>3. PICK la \in Nat : la = Len(a)
  OBVIOUS
<1>4. Len(b) = ls + 1 /\ b[ls + 1] = n /\ \A k \in 1 .. ls : b[k] = s[k]
  BY <1>1, <1>2
<1>5. ls >= 1 /\ s[1] = 0 /\ \A k \in 1 .. ls : s[k] < n /\ s[k] \in Nat
  BY <1>2, Below, Lengths
<1>6. \A k \in 1 .. la : a[k] < n /\ a[k] \in Nat
  BY <1>3, Below, Lengths
<1>7. IdsBelow(b, n + 1)
  <2>1. b[1] = 0
    BY <1>4, <1>5
  <2>2. ASSUME NEW k \in 1 .. ls + 1 PROVE b[k] < n + 1
    <3>1. CASE k = ls + 1
      BY <1>4, <3>1
    <3>2. CASE k \in 1 .. ls
      <4>1. b[k] = s[k] /\ s[k] < n /\ s[k] \in Nat
        BY <1>4, <1>5, <3>2
      <4>2. QED BY <4>1
    <3>3. QED BY <2>2, <3>1, <3>2
  <2>3. Len(b) >= 1 /\ \A k \in 1 .. Len(b) : b[k] < n + 1
    BY <1>4, <2>2
  <2>4. QED BY <2>1, <2>3, Below
<1>8. Encloses(a, b) <=> la <= ls + 1 /\ \A k \in 1 .. la : a[k] = b[k]
  BY <1>3, <1>4, Around
<1>9. Encloses(a, s) <=> la <= ls /\ \A k \in 1 .. la : a[k] = s[k]
  BY <1>2, <1>3, Around
<1>10. Encloses(b, a) <=> ls + 1 <= la /\ \A k \in 1 .. ls + 1 : b[k] = a[k]
  BY <1>3, <1>4, Around
<1>11. Encloses(a, s) => Encloses(a, b)
  BY <1>4, <1>8, <1>9
<1>12. Encloses(a, b) => Encloses(a, s)
  <2>1. SUFFICES ASSUME Encloses(a, b) PROVE Encloses(a, s)
    OBVIOUS
  <2>2. la # ls + 1
    BY <1>4, <1>6, <1>8, <2>1
  <2>3. QED BY <1>4, <1>8, <1>9, <2>1, <2>2
<1>13. ~Encloses(b, a)
  BY <1>4, <1>6, <1>10
<1>14. QED BY <1>1, <1>2, <1>4, <1>7, <1>11, <1>12, <1>13

\* What is around a scope, but the scope itself, is around its parent.
LEMMA Closed ==
    ASSUME NEW s \in Seq(Nat), NEW a \in Seq(Nat), NEW n \in Nat, IdsBelow(s, n), Len(s) >= 2
    PROVE  LET r == SubSeq(s, 1, Len(s) - 1)
           IN  /\ Len(r) = Len(s) - 1 /\ IdsBelow(r, n)
               /\ Encloses(a, r) <=> Encloses(a, s) /\ Len(a) <= Len(s) - 1
<1>0. SubSeq(s, 1, Len(s) - 1) \in Seq(Nat)
  OBVIOUS
<1>1. PICK r \in Seq(Nat) : r = SubSeq(s, 1, Len(s) - 1)
  BY <1>0
<1>2. PICK ls \in Nat : ls = Len(s)
  OBVIOUS
<1>3. PICK la \in Nat : la = Len(a)
  OBVIOUS
<1>4. Len(r) = ls - 1 /\ ls >= 2 /\ \A k \in 1 .. ls - 1 : r[k] = s[k]
  BY <1>1, <1>2
<1>5. s[1] = 0 /\ \A k \in 1 .. ls : s[k] < n
  BY <1>2, Below
<1>6. IdsBelow(r, n)
  <2>1. r[1] = s[1] /\ \A k \in 1 .. ls - 1 : r[k] = s[k] /\ s[k] < n
    BY <1>4, <1>5
  <2>2. \A k \in 1 .. Len(r) : r[k] < n
    <3>1. ASSUME NEW k \in 1 .. Len(r) PROVE r[k] < n
      <4>1. r[k] = s[k] /\ s[k] < n
        BY <1>4, <2>1
      <4>2. QED BY <4>1
    <3>2. QED BY <3>1
  <2>3. Len(r) >= 1 /\ r[1] = 0
    BY <1>4, <1>5, <2>1
  <2>4. QED BY <2>2, <2>3, Below
<1>7. Encloses(a, r) <=> la <= ls - 1 /\ \A k \in 1 .. la : a[k] = r[k]
  BY <1>3, <1>4, Around
<1>8. Encloses(a, s) <=> la <= ls /\ \A k \in 1 .. la : a[k] = s[k]
  BY <1>2, <1>3, Around
<1>9. Encloses(a, r) <=> Encloses(a, s) /\ la <= ls - 1
  BY <1>4, <1>7, <1>8
<1>10. QED BY <1>1, <1>2, <1>3, <1>4, <1>6, <1>9


LEMMA StaysNext ==
    ASSUME tokens \in Seq(Token), IsProgram(tokens),
           NEW d \in DOMAIN tokens, NEW t \in DOMAIN tokens
    PROVE  /\ Stays(t, t)
           /\ d < t => (Stays(d, t) <=> Stays(d, t - 1) /\ Depth(t) >= Depth(d))
           /\ d < t /\ Kind(t) \notin Closes => (Stays(d, t) <=> Stays(d, t - 1))
<1>1. /\ d \in Nat /\ t \in Nat /\ Depth(d) \in Nat /\ Depth(t) \in Nat
      /\ t - 1 \in Nat /\ Depth(t - 1) \in Nat
      /\ Kind(t) \notin Closes => Depth(t) >= Depth(t - 1)
  <2>1. d \in 0 .. Len(tokens) /\ t \in 0 .. Len(tokens) /\ t - 1 \in 0 .. Len(tokens)
    BY DepthFacts
  <2>2. Depth(t) \in Nat /\ Depth(t - 1) \in Nat /\ Depth(d) \in Nat
    BY <2>1, DepthFacts
  <2>3. /\ Kind(t) \in Opens => Depth(t) = Depth(t - 1) + 1
        /\ Kind(t) \notin Opens \cup Closes => Depth(t) = Depth(t - 1)
    BY DepthFacts
  <2>4. Kind(t) \notin Closes => Depth(t) >= Depth(t - 1)
    BY <2>2, <2>3
  <2>5. QED BY <2>1, <2>2, <2>4, DepthFacts
<1>2. Stays(t, t)
  BY <1>1 DEF Stays
<1>3. d < t => (Stays(d, t) <=> Stays(d, t - 1) /\ Depth(t) >= Depth(d))
  <2>1. d < t => d .. t = (d .. (t - 1)) \cup {t}
    BY <1>1
  <2>2. QED BY <2>1 DEF Stays
<1>4. d < t /\ Stays(d, t - 1) => Depth(t - 1) >= Depth(d)
  <2>1. d < t => t - 1 \in d .. (t - 1)
    BY <1>1
  <2>2. QED BY <2>1 DEF Stays
<1>5. QED BY <1>1, <1>2, <1>3, <1>4

LEMMA PlacedNext ==
    ASSUME TypesOK, phase = "parse", pos \in DOMAIN tokens, Advance("predefined"),
           UNCHANGED tokens
    PROVE  /\ pos \in Nat /\ pos >= 1
           /\ phase' = "parse" => pos' = pos + 1
           /\ phase' # "parse" => phase' = "predefined"
           /\ \A t \in DOMAIN tokens :
                 Placed(t)' <=> Placed(t) \/ (t = pos /\ Kind(pos) \notin Closes)
<1>1. DOMAIN tokens = 1 .. Len(tokens) /\ Len(tokens) \in Nat
  BY DEF TypesOK
<1>2. \A t : Kind(t)' = Kind(t)
  BY Unmoved
<1>3. QED BY <1>1, <1>2 DEF Advance, Placed

\* A step of the parser keeps the nesting when the scope on top lies in the
\* others as the token at work does.
LEMMA Nests ==
    ASSUME Nesting, phase = "parse", pos \in DOMAIN tokens, Advance("predefined"),
           UNCHANGED tokens,
           \A t \in DOMAIN tokens : t # pos => scope'[t] = scope[t],
           Kind(pos) \notin Closes => scope'[pos] = scopes_stack',
           next_scope_index' \in Nat, next_scope_index' >= next_scope_index,
           scopes_stack' \in Seq(Nat), Len(scopes_stack') = 1 + Depth(pos),
           IdsBelow(scopes_stack', next_scope_index'),
           \A d \in DOMAIN tokens :
               Placed(d) => (Encloses(scope[d], scopes_stack') <=> Stays(d, pos)),
           \A t \in DOMAIN tokens :
               Placed(t) /\ Kind(pos) \in {"func", "param"} /\ Kind(t) \in {"decl", "use", "call"}
                   => ~Encloses(scopes_stack', scope[t]) /\ ~Encloses(scope[t], scopes_stack')
    PROVE  ScopesOK' /\ StackOK'
<1>1. /\ TypesOK /\ ScopesOK /\ StackOK /\ tokens \in Seq(Token) /\ IsProgram(tokens)
      /\ scope \in [DOMAIN tokens -> Seq(Nat)] /\ next_scope_index \in Nat
  BY DEF Nesting, IInv, TypesOK
<1>2. /\ pos \in Nat /\ pos >= 1
      /\ phase' = "parse" => pos' = pos + 1
      /\ phase' # "parse" => phase' = "predefined"
      /\ \A t \in DOMAIN tokens :
            Placed(t)' <=> Placed(t) \/ (t = pos /\ Kind(pos) \notin Closes)
  BY <1>1, PlacedNext
<1>3. /\ \A t : Kind(t)' = Kind(t) /\ Depth(t)' = Depth(t)
      /\ \A d, t : Stays(d, t)' = Stays(d, t)
  BY Unmoved
<1>4. \A t \in DOMAIN tokens : Placed(t) => t < pos /\ t # pos /\ scope'[t] = scope[t] /\ t \in Nat
  <2>1. \A t \in DOMAIN tokens : t \in Nat
    BY <1>1
  <2>2. QED BY <1>2, <2>1 DEF Placed
<1>. PICK q : q = scopes_stack'
  OBVIOUS
<1>. PICK m \in Nat : m = next_scope_index'
  OBVIOUS
<1>5. \A t \in DOMAIN tokens : Placed(t)' => Len(scope'[t]) = 1 + Depth(t) /\ IdsBelow(scope'[t], m)
  <2>1. ASSUME NEW t \in DOMAIN tokens, Placed(t)
        PROVE  Len(scope'[t]) = 1 + Depth(t) /\ IdsBelow(scope'[t], m)
    <3>1. Len(scope[t]) = 1 + Depth(t) /\ IdsBelow(scope[t], next_scope_index)
      BY <1>1, <2>1 DEF ScopesOK
    <3>2. scope[t] \in Seq(Nat)
      BY <1>1
    <3>3. \A k \in 1 .. Len(scope[t]) : scope[t][k] \in Nat /\ scope[t][k] < next_scope_index
      BY <3>1, <3>2, Below, Lengths
    <3>4. \A k \in 1 .. Len(scope[t]) : scope[t][k] < m
      BY <1>1, <3>3
    <3>5. IdsBelow(scope[t], m)
      BY <3>1, <3>2, <3>4, Below
    <3>6. QED BY <1>4, <2>1, <3>1, <3>5
  <2>2. QED BY <1>2, <2>1
<1>6. \A d, t \in DOMAIN tokens :
          Placed(d)' /\ Placed(t)' /\ d <= t => (Encloses(scope'[d], scope'[t]) <=> Stays(d, t))
  <2>1. ASSUME NEW d \in DOMAIN tokens, NEW t \in DOMAIN tokens, Placed(d), Placed(t), d <= t
        PROVE  Encloses(scope'[d], scope'[t]) <=> Stays(d, t)
    <3>1. Encloses(scope[d], scope[t]) <=> Stays(d, t)
      BY <1>1, <2>1 DEF ScopesOK
    <3>2. QED BY <1>4, <2>1, <3>1
  <2>2. ASSUME NEW d \in DOMAIN tokens, Placed(d), Kind(pos) \notin Closes
        PROVE  Encloses(scope'[d], scope'[pos]) <=> Stays(d, pos)
    BY <1>4, <2>2
  <2>3. Kind(pos) \notin Closes => (Encloses(scope'[pos], scope'[pos]) <=> Stays(pos, pos))
    BY <1>1, StaysNext, EnclosesItself
  <2>4. QED BY <1>2, <1>4, <2>1, <2>2, <2>3
<1>7. \A d, t \in DOMAIN tokens :
          /\ Placed(d)' /\ Placed(t)' /\ t < d
          /\ Kind(d) \in {"func", "param"} /\ Kind(t) \in {"decl", "use", "call"}
          => ~Encloses(scope'[d], scope'[t]) /\ ~Encloses(scope'[t], scope'[d])
  <2>1. ASSUME NEW d \in DOMAIN tokens, NEW t \in DOMAIN tokens, Placed(d), Placed(t), t < d,
               Kind(d) \in {"func", "param"}, Kind(t) \in {"decl", "use", "call"}
        PROVE  ~Encloses(scope'[d], scope'[t]) /\ ~Encloses(scope'[t], scope'[d])
    <3>1. ~Encloses(scope[d], scope[t]) /\ ~Encloses(scope[t], scope[d])
      BY <1>1, <2>1 DEF ScopesOK
    <3>2. QED BY <1>4, <2>1, <3>1
  <2>2. ASSUME NEW t \in DOMAIN tokens, Placed(t), Kind(pos) \notin Closes,
               Kind(pos) \in {"func", "param"}, Kind(t) \in {"decl", "use", "call"}
        PROVE  ~Encloses(scope'[pos], scope'[t]) /\ ~Encloses(scope'[t], scope'[pos])
    BY <1>4, <2>2
  <2>3. QED BY <1>2, <1>4, <2>1, <2>2
<1>8. ScopesOK'
  BY <1>3, <1>5, <1>6, <1>7 DEF ScopesOK
<1>9. \A d \in DOMAIN tokens : Placed(d)' => (Encloses(scope'[d], q) <=> Stays(d, pos))
  <2>1. Kind(pos) \notin Closes => (Encloses(scope'[pos], q) <=> Stays(pos, pos))
    BY <1>1, StaysNext, EnclosesItself
  <2>2. \A d \in DOMAIN tokens : Placed(d) => (Encloses(scope'[d], q) <=> Stays(d, pos))
    BY <1>4
  <2>3. QED BY <1>2, <2>1, <2>2
<1>10. StackOK'
  <2>1. SUFFICES ASSUME phase' = "parse" PROVE StackOK'
    BY DEF StackOK
  <2>2. pos' = pos + 1 /\ pos' - 1 = pos
    BY <1>2, <2>1
  <2>3. Kind(pos') = Kind(pos') /\ Kind(pos' - 1) \notin Closes => q = scope'[pos]
    BY <2>2
  <2>4. QED BY <1>2, <1>3, <1>9, <2>2, <2>3 DEF StackOK
<1>11. QED BY <1>8, <1>10

LEMMA ParserState ==
    ASSUME Nesting, phase = "parse", pos \in DOMAIN tokens
    PROVE  /\ tokens \in Seq(Token) /\ IsProgram(tokens)
           /\ pos \in Nat /\ pos >= 1 /\ pos - 1 \in 0 .. Len(tokens)
           /\ Depth(pos) \in Nat /\ Depth(pos - 1) \in Nat
           /\ scopes_stack \in Seq(Nat) /\ next_scope_index \in Nat
           /\ Len(scopes_stack) = 1 + Depth(pos - 1) /\ IdsBelow(scopes_stack, next_scope_index)
           /\ \A d \in DOMAIN tokens :
                 Placed(d) =>
                     /\ d < pos /\ scope[d] \in Seq(Nat)
                     /\ Len(scope[d]) = 1 + Depth(d) /\ IdsBelow(scope[d], next_scope_index)
                     /\ Encloses(scope[d], scopes_stack) <=> Stays(d, pos - 1)
                     /\ Stays(d, pos) <=> Stays(d, pos - 1) /\ Depth(pos) >= Depth(d)
                     /\ Kind(pos) \notin Closes => (Stays(d, pos) <=> Stays(d, pos - 1))
                     /\ Depth(d) \in Nat
<1>1. /\ tokens \in Seq(Token) /\ IsProgram(tokens) /\ ScopesOK /\ StackOK
      /\ scopes_stack \in Seq(Nat) /\ next_scope_index \in Nat
      /\ scope \in [DOMAIN tokens -> Seq(Nat)]
  BY DEF Nesting, IInv, TypesOK
<1>2. /\ pos \in Nat /\ pos >= 1 /\ pos - 1 \in 0 .. Len(tokens)
      /\ \A t \in DOMAIN tokens : t \in 0 .. Len(tokens)
  BY <1>1, DepthFacts
<1>3. /\ Depth(pos - 1) \in Nat /\ \A t \in DOMAIN tokens : Depth(t) \in Nat
  BY <1>1, <1>2, DepthFacts
<1>4. \A d \in DOMAIN tokens : Placed(d) => d < pos
  BY DEF Placed
<1>5. \A d \in DOMAIN tokens :
          d < pos => /\ Stays(d, pos) <=> Stays(d, pos - 1) /\ Depth(pos) >= Depth(d)
                     /\ Kind(pos) \notin Closes => (Stays(d, pos) <=> Stays(d, pos - 1))
  BY <1>1, StaysNext
<1>6. QED BY <1>1, <1>2, <1>3, <1>4, <1>5 DEF ScopesOK, StackOK

LEMMA EnterScopeNests == Nesting /\ EnterScope => ScopesOK' /\ StackOK'
<1>1. SUFFICES ASSUME Nesting, EnterScope PROVE ScopesOK' /\ StackOK'
  OBVIOUS
<1>2. /\ phase = "parse" /\ pos \in DOMAIN tokens /\ Kind(pos) \in {"func", "open"}
      /\ scopes_stack' = Append(scopes_stack, next_scope_index)
      /\ next_scope_index' = next_scope_index + 1
      /\ scope' = [scope EXCEPT ![pos] = scopes_stack']
      /\ Advance("predefined") /\ tokens' = tokens /\ DOMAIN scope = DOMAIN tokens
  BY <1>1 DEF EnterScope, At, Nesting, IInv, TypesOK
<1>. PICK s \in Seq(Nat) : s = scopes_stack
  BY <1>1, <1>2, ParserState
<1>. PICK n \in Nat : n = next_scope_index
  BY <1>1, <1>2, ParserState
<1>3. /\ Len(s) = 1 + Depth(pos - 1) /\ IdsBelow(s, n)
      /\ Depth(pos) \in Nat /\ Depth(pos - 1) \in Nat
      /\ \A d \in DOMAIN tokens :
             Placed(d) => /\ d < pos /\ scope[d] \in Seq(Nat)
                          /\ Len(scope[d]) = 1 + Depth(d) /\ IdsBelow(scope[d], n)
                          /\ Encloses(scope[d], s) <=> Stays(d, pos - 1)
  BY <1>1, <1>2, ParserState
<1>4. /\ Depth(pos) = Depth(pos - 1) + 1
      /\ \A d \in DOMAIN tokens : Placed(d) => (Stays(d, pos) <=> Stays(d, pos - 1))
  <2>1. Kind(pos) \in Opens /\ Kind(pos) \notin Closes
    BY <1>2 DEF Opens, Closes
  <2>2. QED BY <1>1, <1>2, <2>1, ParserState, DepthFacts
<1>5. \A a \in Seq(Nat) :
          IdsBelow(a, n) => /\ Append(s, n) \in Seq(Nat) /\ Len(Append(s, n)) = Len(s) + 1
                            /\ IdsBelow(Append(s, n), n + 1)
                            /\ Encloses(a, Append(s, n)) <=> Encloses(a, s)
                            /\ ~Encloses(Append(s, n), a)
  BY <1>3, Opened
<1>. PICK q : q = Append(s, n)
  OBVIOUS
<1>6. q \in Seq(Nat) /\ Len(q) = 1 + Depth(pos) /\ IdsBelow(q, n + 1)
  BY <1>3, <1>4, <1>5
<1>7. \A d \in DOMAIN tokens : Placed(d) => (Encloses(scope[d], q) <=> Stays(d, pos))
  BY <1>3, <1>4, <1>5
<1>8. ASSUME NEW t \in DOMAIN tokens, Placed(t), Kind(pos) \in {"func", "param"},
             Kind(t) \in {"decl", "use", "call"}
      PROVE  ~Encloses(q, scope[t]) /\ ~Encloses(scope[t], q)
  <2>1. Depth(pos - 1) = 0 /\ Depth(t) >= 1
    BY <1>1, <1>2, <1>8, ParserState, DepthFacts
  <2>2. Depth(t) \in Nat /\ Len(scope[t]) = 1 + Depth(t)
    BY <1>1, <1>2, <1>3, <1>8, ParserState
  <2>3. Len(scope[t]) > Len(s)
    BY <1>3, <2>1, <2>2
  <2>4. ~Encloses(scope[t], s)
    BY <2>2, <2>3, <1>3 DEF Encloses
  <2>5. QED BY <1>3, <1>5, <1>8, <2>4
<1>9. /\ \A t \in DOMAIN tokens : t # pos => scope'[t] = scope[t]
      /\ Kind(pos) \notin Closes => scope'[pos] = scopes_stack'
      /\ scopes_stack' = q /\ next_scope_index' = n + 1
      /\ next_scope_index' \in Nat /\ next_scope_index' >= next_scope_index
  BY <1>2
<1>10. QED BY <1>1, <1>2, <1>6, <1>7, <1>8, <1>9, Nests

LEMMA LeaveScopeNests == Nesting /\ LeaveScope => ScopesOK' /\ StackOK'
<1>1. SUFFICES ASSUME Nesting, LeaveScope PROVE ScopesOK' /\ StackOK'
  OBVIOUS
<1>2. /\ phase = "parse" /\ pos \in DOMAIN tokens /\ Kind(pos) \in Closes
      /\ scopes_stack' = IF scopes_stack # << >>
                         THEN SubSeq(scopes_stack, 1, Len(scopes_stack) - 1)
                         ELSE scopes_stack
      /\ Advance("predefined") /\ tokens' = tokens /\ scope' = scope
      /\ next_scope_index' = next_scope_index
  BY <1>1 DEF LeaveScope, At, Closes
<1>. PICK s \in Seq(Nat) : s = scopes_stack
  BY <1>1, <1>2, ParserState
<1>. PICK n \in Nat : n = next_scope_index
  BY <1>1, <1>2, ParserState
<1>3. /\ Len(s) = 1 + Depth(pos - 1) /\ IdsBelow(s, n)
      /\ Depth(pos) \in Nat /\ Depth(pos - 1) \in Nat
      /\ \A d \in DOMAIN tokens :
             Placed(d) => /\ scope[d] \in Seq(Nat) /\ Len(scope[d]) = 1 + Depth(d)
                          /\ Encloses(scope[d], s) <=> Stays(d, pos - 1)
                          /\ Stays(d, pos) <=> Stays(d, pos - 1) /\ Depth(pos) >= Depth(d)
                          /\ Depth(d) \in Nat
  BY <1>1, <1>2, ParserState
<1>4. Depth(pos) = Depth(pos - 1) - 1
  BY <1>1, <1>2, ParserState, DepthFacts
<1>5. Len(s) >= 2
  BY <1>3, <1>4
<1>6. \A a \in Seq(Nat) :
          LET r == SubSeq(s, 1, Len(s) - 1)
          IN  /\ Len(r) = Len(s) - 1 /\ IdsBelow(r, n)
              /\ Encloses(a, r) <=> Encloses(a, s) /\ Len(a) <= Len(s) - 1
  BY <1>3, <1>5, Closed
<1>. PICK q : q = SubSeq(s, 1, Len(s) - 1)
  OBVIOUS
<1>7. q \in Seq(Nat)
  OBVIOUS
<1>8. Len(q) = 1 + Depth(pos) /\ IdsBelow(q, n)
  BY <1>3, <1>4, <1>6
<1>9. ASSUME NEW d \in DOMAIN tokens, Placed(d) PROVE Encloses(scope[d], q) <=> Stays(d, pos)
  <2>1. Encloses(scope[d], q) <=> Encloses(scope[d], s) /\ Len(scope[d]) <= Len(s) - 1
    BY <1>3, <1>6, <1>9
  <2>2. Len(scope[d]) <= Len(s) - 1 <=> Depth(pos) >= Depth(d)
    BY <1>3, <1>4, <1>9
  <2>3. QED BY <1>3, <1>9, <2>1, <2>2
<1>10. scopes_stack' = q
  <2>1. scopes_stack # << >>
    BY <1>5
  <2>2. QED BY <1>2, <2>1
<1>11. Kind(pos) \notin {"func", "param"}
  BY <1>2 DEF Closes
<1>12. next_scope_index' \in Nat /\ next_scope_index' >= next_scope_index
  BY <1>2
<1>13. QED BY <1>1, <1>2, <1>7, <1>8, <1>9, <1>10, <1>11, <1>12, Nests

LEMMA MakeNodeNests == Nesting /\ MakeNode => ScopesOK' /\ StackOK'
<1>1. SUFFICES ASSUME Nesting, MakeNode PROVE ScopesOK' /\ StackOK'
  OBVIOUS
<1>2. /\ phase = "parse" /\ pos \in DOMAIN tokens /\ Kind(pos) \in {"param", "decl", "use", "call"}
      /\ scope' = [scope EXCEPT ![pos] = scopes_stack]
      /\ Advance("predefined") /\ tokens' = tokens /\ DOMAIN scope = DOMAIN tokens
      /\ scopes_stack' = scopes_stack /\ next_scope_index' = next_scope_index
  BY <1>1 DEF MakeNode, At, Nesting, IInv, TypesOK
<1>3. Kind(pos) \notin Opens /\ Kind(pos) \notin Closes
  BY <1>2 DEF Opens, Closes
<1>4. Depth(pos) = Depth(pos - 1)
  BY <1>1, <1>2, <1>3, ParserState, DepthFacts
<1>5. /\ scopes_stack \in Seq(Nat) /\ Len(scopes_stack) = 1 + Depth(pos)
      /\ IdsBelow(scopes_stack, next_scope_index) /\ next_scope_index \in Nat
      /\ \A d \in DOMAIN tokens :
             Placed(d) => (Encloses(scope[d], scopes_stack) <=> Stays(d, pos))
  BY <1>1, <1>2, <1>3, <1>4, ParserState
<1>6. ASSUME NEW t \in DOMAIN tokens, Placed(t), Kind(pos) \in {"func", "param"},
             Kind(t) \in {"decl", "use", "call"}
      PROVE  ~Encloses(scopes_stack, scope[t]) /\ ~Encloses(scope[t], scopes_stack)
  <2>1. pos > 1 /\ pos - 1 \in DOMAIN tokens /\ Kind(pos - 1) \in {"func", "param"}
    BY <1>1, <1>2, <1>6, ParserState, DepthFacts
  <2>2. pos \in Nat /\ t \in Nat /\ t < pos
    BY <1>1, <1>2, <1>6, ParserState DEF Placed
  <2>3. Kind(pos - 1) \notin Closes
    BY <2>1 DEF Closes
  <2>4. scopes_stack = scope[pos - 1] /\ Placed(pos - 1)
    BY <1>1, <1>2, <2>1, <2>2, <2>3 DEF Nesting, StackOK, Placed
  <2>5. t # pos - 1
    BY <1>6, <2>1
  <2>6. t < pos - 1
    BY <2>2, <2>5
  <2>7. ScopesOK
    BY <1>1 DEF Nesting
  <2>8. QED BY <1>6, <2>1, <2>4, <2>6, <2>7 DEF ScopesOK
<1>7. /\ \A t \in DOMAIN tokens : t # pos => scope'[t] = scope[t]
      /\ scope'[pos] = scopes_stack'
      /\ next_scope_index' \in Nat /\ next_scope_index' >= next_scope_index
  BY <1>2, <1>5
<1>8. QED BY <1>1, <1>2, <1>5, <1>6, <1>7, Nests

LEMMA NestingStart == Init => Nesting
<1>1. SUFFICES ASSUME Init PROVE Nesting
  OBVIOUS
<1>2. /\ phase = "parse" /\ pos = 1 /\ scopes_stack = <<0>> /\ next_scope_index = 1
      /\ tokens \in Seq(Token) /\ IsProgram(tokens)
  BY <1>1, ProgramsAssumption DEF Init, RootScope
<1>3. \A t \in DOMAIN tokens : ~Placed(t)
  BY <1>2 DEF Placed
<1>4. ScopesOK
  BY <1>3 DEF ScopesOK
<1>5. Depth(pos - 1) = 0
  BY <1>2, DepthFacts
<1>6. StackOK
  <2>1. Len(scopes_stack) = 1 + Depth(pos - 1)
    BY <1>2, <1>5
  <2>2. IdsBelow(scopes_stack, next_scope_index)
    BY <1>2 DEF IdsBelow
  <2>3. QED BY <1>2, <1>3, <2>1, <2>2 DEF StackOK
<1>7. QED BY <1>1, <1>2, <1>4, <1>6, Start DEF Nesting

\* Behind the parser the scopes stay.
LEMMA LaterNests ==
    ASSUME Nesting, phase # "parse", phase' # "parse",
           UNCHANGED <<tokens, scope, next_scope_index>>
    PROVE  ScopesOK' /\ StackOK'
<1>1. /\ \A t : Kind(t)' = Kind(t) /\ Depth(t)' = Depth(t)
      /\ \A d, t : Stays(d, t)' = Stays(d, t)
  BY Unmoved
<1>2. \A t : Placed(t)' = Placed(t)
  BY <1>1 DEF Placed
<1>3. ScopesOK'
  BY <1>1, <1>2 DEF Nesting, ScopesOK
<1>4. QED BY <1>3 DEF StackOK

LEMMA LaterStep ==
    ASSUME \/ RecordPredefined \/ RecordFunction \/ RecordParam \/ Declare \/ Ident \/ Pass
           \/ CheckMain \/ MapSymbol \/ PassOver
    PROVE  phase # "parse" /\ phase' # "parse" /\ UNCHANGED <<tokens, scope, next_scope_index>>
<1>1. CASE RecordPredefined \/ CheckMain
  BY <1>1 DEF RecordPredefined, CheckMain, parser
<1>2. CASE RecordFunction \/ RecordParam \/ Declare \/ Ident \/ Pass
  BY <1>2 DEF RecordFunction, RecordParam, Declare, Ident, Pass, At, Advance, parser
<1>3. CASE MapSymbol \/ PassOver
  BY <1>3 DEF MapSymbol, PassOver, Turn, Advance, parser
<1>4. QED BY <1>1, <1>2, <1>3

LEMMA NestingStep == Nesting /\ [Next]_vars => Nesting'
<1>1. SUFFICES ASSUME Nesting, [Next]_vars PROVE Nesting'
  OBVIOUS
<1>2. IInv' 
  BY <1>1, Step DEF Nesting
<1>3. tokens' = tokens
  BY <1>1 DEF Next, EnterScope, LeaveScope, MakeNode, RecordPredefined, RecordFunction,
              RecordParam, Declare, Ident, Pass, CheckMain, MapSymbol, PassOver, Turn, vars
<1>4. IsProgram(tokens)'
  BY <1>1, <1>3, Unmoved DEF Nesting
<1>5. ScopesOK' /\ StackOK'
  <2>1. CASE EnterScope \/ LeaveScope \/ MakeNode
    BY <1>1, <2>1, EnterScopeNests, LeaveScopeNests, MakeNodeNests
  <2>2. CASE \/ RecordPredefined \/ RecordFunction \/ RecordParam \/ Declare \/ Ident \/ Pass
             \/ CheckMain \/ MapSymbol \/ PassOver
    BY <1>1, <2>2, LaterStep, LaterNests
  <2>3. CASE UNCHANGED vars
    <3>1. UNCHANGED <<tokens, phase, pos, scope, next_scope_index, scopes_stack>>
      BY <2>3 DEF vars
    <3>2. /\ \A t : Kind(t)' = Kind(t) /\ Depth(t)' = Depth(t)
          /\ \A d, t : Stays(d, t)' = Stays(d, t)
      BY <3>1, Unmoved
    <3>3. \A t : Placed(t)' = Placed(t)
      BY <3>1, <3>2 DEF Placed
    <3>4. ScopesOK' /\ StackOK'
      BY <1>1, <3>1, <3>2, <3>3 DEF Nesting, ScopesOK, StackOK
    <3>5. QED BY <3>4
  <2>4. QED BY <1>1, <2>1, <2>2, <2>3 DEF Next
<1>6. QED BY <1>2, <1>4, <1>5 DEF Nesting

-----------------------------------------------------------------------------
(* The tables of the semantic pass. *)

LEMMA GivenFields ==
    ASSUME NEW n
    PROVE  Given(n).scope = RootScope /\ Given(n).name = Func(n)
BY DEF Given, Symbol

\* The functions of a name that are visible, wherever the name stands.
LEMMA VisibleFunctions ==
    ASSUME RecordedOK, succ, ~Early, NEW s \in Seq(Nat), Len(s) >= 1, s[1] = 0, NEW f, NEW e
    PROVE  e \in Visible(s, Func(f)) <=>
               \/ \E n \in Predefined : e = Given(n) /\ Func(n) = Func(f)
               \/ \E c \in DOMAIN tokens :
                      Seen(c) /\ Kind(c) = "func" /\ Name(c) = Func(f) /\ e = def_of[c]
<1>1. Encloses(RootScope, s)
  BY DEF Encloses, RootScope
<1>2. ASSUME NEW n \in Predefined, e = Given(n), Func(n) = Func(f) PROVE e \in Visible(s, Func(f))
  <2>1. Given(n) \in defs
    BY DEF RecordedOK
  <2>2. QED BY <1>1, <1>2, <2>1, GivenFields DEF Visible
<1>3. ASSUME NEW c \in DOMAIN tokens, Seen(c), Kind(c) = "func", Name(c) = Func(f), e = def_of[c]
      PROVE  e \in Visible(s, Func(f))
  <2>1. e \in defs /\ e.name = Name(c) /\ e.scope = RootScope
    BY <1>3 DEF RecordedOK, Declares, Home
  <2>2. QED BY <1>1, <1>3, <2>1 DEF Visible
<1>4. ASSUME e \in Visible(s, Func(f))
      PROVE  \/ \E n \in Predefined : e = Given(n) /\ Func(n) = Func(f)
             \/ \E c \in DOMAIN tokens :
                    Seen(c) /\ Kind(c) = "func" /\ Name(c) = Func(f) /\ e = def_of[c]
  <2>1. e \in defs /\ e.name = Func(f)
    BY <1>4 DEF Visible
  <2>2. ASSUME NEW n \in Predefined, e = Given(n) PROVE Func(n) = Func(f)
    BY <2>1, <2>2, GivenFields
  <2>3. ASSUME NEW c \in DOMAIN tokens, Seen(c), Declares(c), e = def_of[c]
        PROVE  Kind(c) = "func" /\ Name(c) = Func(f)
    <3>1. Name(c) = Func(f)
      BY <2>1, <2>3 DEF RecordedOK
    <3>2. Kind(c) \in {"func", "call"}
      BY <3>1, NameShape DEF Func
    <3>3. QED BY <2>3, <3>1, <3>2 DEF Declares
  <2>4. QED BY <2>1, <2>2, <2>3 DEF RecordedOK
<1>5. QED BY <1>2, <1>3, <1>4

\* The variables of a name that are visible.
LEMMA VisibleVariables ==
    ASSUME RecordedOK, succ, ~Early, NEW s \in Seq(Nat), NEW v, NEW e
    PROVE  e \in Visible(s, <<"var", v>>) <=>
               \E c \in DOMAIN tokens :
                   /\ Seen(c) /\ Kind(c) \in {"param", "decl"} /\ Name(c) = <<"var", v>>
                   /\ Encloses(scope[c], s) /\ e = def_of[c]
<1>1. ASSUME NEW c \in DOMAIN tokens, Seen(c), Kind(c) \in {"param", "decl"},
             Name(c) = <<"var", v>>, Encloses(scope[c], s), e = def_of[c]
      PROVE  e \in Visible(s, <<"var", v>>)
  <2>1. e \in defs /\ e.name = Name(c) /\ e.scope = scope[c]
    BY <1>1 DEF RecordedOK, Declares, Home
  <2>2. QED BY <1>1, <2>1 DEF Visible
<1>2. ASSUME e \in Visible(s, <<"var", v>>)
      PROVE  \E c \in DOMAIN tokens :
                 /\ Seen(c) /\ Kind(c) \in {"param", "decl"} /\ Name(c) = <<"var", v>>
                 /\ Encloses(scope[c], s) /\ e = def_of[c]
  <2>1. e \in defs /\ e.name = <<"var", v>> /\ Encloses(e.scope, s)
    BY <1>2 DEF Visible
  <2>2. ASSUME NEW n \in Predefined, e = Given(n) PROVE FALSE
    BY <2>1, <2>2, GivenFields DEF Func
  <2>3. PICK c \in DOMAIN tokens : Seen(c) /\ Declares(c) /\ e = def_of[c]
    BY <2>1, <2>2 DEF RecordedOK
  <2>4. e.name = Name(c) /\ e.scope = Home(c)
    BY <2>3 DEF RecordedOK
  <2>5. Kind(c) # "func"
    BY <2>1, <2>4, NameShape DEF Func
  <2>6. QED BY <2>1, <2>3, <2>4, <2>5 DEF Declares, Home
<1>3. QED BY <1>1, <1>2

\* When the semantic pass is at a variable, the declarations that reach it are
\* among those it has recorded, and none of the others lies around it.
LEMMA BindingsSeen ==
    ASSUME Nesting, pos \in DOMAIN tokens,
           \/ phase = "functions" /\ Kind(pos) = "param"
           \/ phase = "bodies" /\ Kind(pos) \in {"decl", "use"},
           NEW c \in DOMAIN tokens
    PROVE  c \in Bindings(pos) <=>
               /\ Seen(c) /\ Kind(c) \in {"param", "decl"} /\ Name(c) = Name(pos)
               /\ Encloses(scope[c], scope[pos])
<1>1. /\ Kind(pos) \notin {"func", "call"} /\ Kind(pos) \in {"param", "decl", "use"}
      /\ phase # "parse" /\ ScopesOK
      /\ pos \in Nat /\ c \in Nat
  BY DEF Nesting, IInv, TypesOK
<1>2. Placed(pos) /\ (Kind(c) \in {"param", "decl"} => Placed(c))
  BY <1>1 DEF Placed, Closes
<1>3. c \in Bindings(pos) <=> /\ c < pos /\ Kind(c) \in {"param", "decl"} /\ Name(c) = Name(pos)
                              /\ Stays(c, pos)
  BY <1>1 DEF Bindings, Reaches, Stays
<1>4. Kind(c) \in {"param", "decl"} /\ c < pos => (Encloses(scope[c], scope[pos]) <=> Stays(c, pos))
  BY <1>1, <1>2 DEF ScopesOK
<1>5. ASSUME c < pos, Kind(c) \in {"param", "decl"}, Stays(c, pos) PROVE Seen(c)
  <2>1. CASE phase = "bodies"
    BY <1>5, <2>1 DEF Seen
  <2>2. CASE phase = "functions"
    <3>1. Kind(c) # "decl"
      BY <1>1, <1>2, <1>4, <1>5, <2>2 DEF ScopesOK
    <3>2. QED BY <1>5, <2>2, <3>1 DEF Seen
  <2>3. QED BY <2>1, <2>2
<1>6. ASSUME Seen(c), Kind(c) \in {"param", "decl"}, Encloses(scope[c], scope[pos]) PROVE c < pos
  <2>1. CASE phase = "functions"
    BY <1>6, <2>1 DEF Seen
  <2>2. CASE phase = "bodies" /\ Kind(c) = "param"
    <3>1. ~(pos < c)
      BY <1>1, <1>2, <1>6, <2>2 DEF ScopesOK
    <3>2. pos # c
      BY <2>2
    <3>3. QED BY <1>1, <3>1, <3>2
  <2>3. CASE phase = "bodies" /\ Kind(c) = "decl"
    BY <1>6, <2>3 DEF Seen
  <2>4. QED BY <1>6, <2>1, <2>2, <2>3
<1>7. QED BY <1>3, <1>4, <1>5, <1>6

\* What LookupSymbol finds there is what lexical scoping gives.
LEMMA FoundVariable ==
    ASSUME Nesting, RecordedOK, succ, pos \in DOMAIN tokens,
           \/ phase = "functions" /\ Kind(pos) = "param"
           \/ phase = "bodies" /\ Kind(pos) \in {"decl", "use"},
           NEW found, found = LookupSymbol(scope[pos], Name(pos))
    PROVE  /\ found = NoSymbol <=> Bindings(pos) = {}
           /\ found # NoSymbol => \E c \in Bindings(pos) : found = def_of[c]
<1>1. /\ TypesOK /\ DefsOK /\ scope[pos] \in Seq(Nat) /\ ~Early
      /\ Name(pos) = <<"var", tokens[pos].name>> /\ Name(pos) # <<"none", "none">>
  BY NameShape DEF Nesting, IInv, TypesOK, Early
<1>2. Bindings(pos) \subseteq DOMAIN tokens
  BY DEF Bindings
<1>3. \A e : e \in Visible(scope[pos], Name(pos)) <=> \E c \in Bindings(pos) : e = def_of[c]
  BY <1>1, <1>2, VisibleVariables, BindingsSeen
<1>4. found = NoSymbol => Visible(scope[pos], Name(pos)) = {}
  BY <1>1, LookupNone
<1>5. Visible(scope[pos], Name(pos)) = {} => found = NoSymbol
  BY DEF LookupSymbol
<1>6. Visible(scope[pos], Name(pos)) # {} => found \in Visible(scope[pos], Name(pos))
  BY <1>1, LookupSome DEF IsNearest
<1>7. QED BY <1>3, <1>4, <1>5, <1>6

\* What LookupSymbol finds for a function.
LEMMA FoundFunction ==
    ASSUME IInv, RecordedOK, succ, ~Early, NEW s \in Seq(Nat), Len(s) >= 1, s[1] = 0, NEW f,
           NEW found, found = LookupSymbol(s, Func(f))
    PROVE  /\ found = NoSymbol <=>
                  /\ \A n \in Predefined : Func(n) # Func(f)
                  /\ \A c \in DOMAIN tokens : Seen(c) /\ Kind(c) = "func" => Name(c) # Func(f)
           /\ found # NoSymbol =>
                  \/ \E n \in Predefined : found = Given(n) /\ Func(n) = Func(f)
                  \/ \E c \in DOMAIN tokens :
                         Seen(c) /\ Kind(c) = "func" /\ Name(c) = Func(f) /\ found = def_of[c]
<1>1. TypesOK /\ DefsOK
  BY DEF IInv
<1>2. \A e : e \in Visible(s, Func(f)) <=>
               \/ \E n \in Predefined : e = Given(n) /\ Func(n) = Func(f)
               \/ \E c \in DOMAIN tokens :
                      Seen(c) /\ Kind(c) = "func" /\ Name(c) = Func(f) /\ e = def_of[c]
  BY VisibleFunctions
<1>3. Func(f) # <<"none", "none">>
  BY DEF Func
<1>4. found = NoSymbol => Visible(s, Func(f)) = {}
  BY <1>1, <1>3, LookupNone
<1>5. Visible(s, Func(f)) = {} => found = NoSymbol
  BY DEF LookupSymbol
<1>6. Visible(s, Func(f)) # {} => found \in Visible(s, Func(f))
  BY <1>1, LookupSome DEF IsNearest
<1>7. QED BY <1>2, <1>4, <1>5, <1>6

\* The pass records or looks up the token it is at.
Works == \/ phase = "functions" /\ Kind(pos) \in {"func", "param"}
         \/ phase = "bodies" /\ Kind(pos) \in {"decl", "use", "call"}

LEMMA SeenNext ==
    ASSUME TypesOK, pos \in DOMAIN tokens, UNCHANGED tokens,
           \/ phase = "functions" /\ Advance("bodies")
           \/ phase = "bodies" /\ Advance("check")
    PROVE  /\ \A t \in DOMAIN tokens : Seen(t)' <=> Seen(t) \/ (t = pos /\ Works)
           /\ Works => ~Seen(pos)
           /\ ~Early /\ ~Early' /\ ~Analysed /\ ~Analysed'
<1>1. DOMAIN tokens = 1 .. Len(tokens) /\ Len(tokens) \in Nat /\ pos \in Nat
  BY DEF TypesOK
<1>2. Nodes' = Nodes /\ \A t : Kind(t)' = Kind(t)
  BY Unmoved
<1>6. ~Early /\ ~Early' /\ ~Analysed /\ ~Analysed'
  BY DEF Early, Analysed, Advance
<1>7. Works => ~Seen(pos)
  BY <1>1 DEF Works, Seen
<1>3. CASE phase = "functions" /\ Advance("bodies")
  <2>1. ASSUME pos < Len(tokens), NEW t \in DOMAIN tokens
        PROVE  Seen(t)' <=> Seen(t) \/ (t = pos /\ Works)
    BY <1>1, <1>2, <1>3, <2>1 DEF Advance, Seen, Works
  <2>2. ASSUME ~(pos < Len(tokens)), NEW t \in DOMAIN tokens
        PROVE  Seen(t)' <=> Seen(t) \/ (t = pos /\ Works)
    BY <1>1, <1>2, <1>3, <2>2 DEF Advance, Seen, Works
  <2>3. QED BY <2>1, <2>2, <1>6, <1>7
<1>4. CASE phase = "bodies" /\ Advance("check")
  <2>1. ASSUME pos < Len(tokens), NEW t \in DOMAIN tokens
        PROVE  Seen(t)' <=> Seen(t) \/ (t = pos /\ Works)
    BY <1>1, <1>2, <1>4, <2>1 DEF Advance, Seen, Works
  <2>2. ASSUME ~(pos < Len(tokens)), NEW t \in DOMAIN tokens
        PROVE  Seen(t)' <=> Seen(t) \/ (t = pos /\ Works)
    BY <1>1, <1>2, <1>4, <2>2 DEF Advance, Seen, Works, Nodes
  <2>3. QED BY <2>1, <2>2, <1>6, <1>7
<1>5. QED BY <1>3, <1>4

LEMMA BindingsOf ==
    ASSUME TypesOK, NEW t \in DOMAIN tokens, NEW d \in Bindings(t)
    PROVE  /\ d \in DOMAIN tokens /\ d # t
           /\ Kind(t) \in {"func", "call"} => Kind(d) = "func" /\ Name(d) = Name(t)
           /\ Kind(t) \notin {"func", "call"} => d < t /\ Kind(d) \in {"param", "decl"}
<1>1. /\ d \in DOMAIN tokens /\ t \in Nat /\ d \in Nat
  BY DEF Bindings, TypesOK
<1>2. CASE Kind(t) \in {"func", "call"}
  BY <1>1, <1>2 DEF Bindings
<1>3. CASE Kind(t) \notin {"func", "call"}
  BY <1>1, <1>3 DEF Bindings, Reaches
<1>4. QED BY <1>2, <1>3

\* A step of the semantic pass keeps the tables when it records or looks up
\* the token it is at as lexical scoping has it, or finds an error there.
LEMMA TablesStep ==
    ASSUME TypesOK, RecordedOK, CheckedOK, RejectedOK,
           pos \in DOMAIN tokens, UNCHANGED <<tokens, scope>>,
           \/ phase = "functions" /\ Advance("bodies")
           \/ phase = "bodies" /\ Advance("check"),
           DOMAIN def_of' = DOMAIN tokens,
           \A t \in DOMAIN tokens : t # pos => def_of'[t] = def_of[t],
           succ' => succ,
           ~Works => def_of' = def_of,
           succ' /\ ~(Works /\ Declares(pos)) => defs' = defs,
           succ' /\ Works /\ Declares(pos) =>
               /\ defs' = defs \cup {def_of'[pos]}
               /\ def_of'[pos].name = Name(pos) /\ def_of'[pos].scope = Home(pos),
           succ' /\ Works /\ Kind(pos) = "func" =>
               /\ ~Runtime(pos)
               /\ \A d \in DOMAIN tokens : Seen(d) /\ Kind(d) = "func" => Name(d) # Name(pos),
           succ' /\ Works /\ Kind(pos) \in {"param", "decl"} => Bindings(pos) = {},
           succ' /\ Works /\ Kind(pos) \in {"use", "call"} =>
               /\ Bindings(pos) # {} \/ Runtime(pos)
               /\ \A d \in Bindings(pos) : def_of'[pos] = def_of[d],
           succ /\ ~succ' => Wrong(pos)
    PROVE  RecordedOK' /\ CheckedOK' /\ RejectedOK'
<1>1. /\ \A t \in DOMAIN tokens : Seen(t)' <=> Seen(t) \/ (t = pos /\ Works)
      /\ Works => ~Seen(pos)
      /\ ~Early /\ ~Early' /\ ~Analysed /\ ~Analysed'
  BY SeenNext
<1>2. /\ \A t : /\ Kind(t)' = Kind(t) /\ Name(t)' = Name(t)
                /\ Bindings(t)' = Bindings(t) /\ Runtime(t)' = Runtime(t)
                /\ Declares(t)' = Declares(t) /\ Wrong(t)' = Wrong(t)
      /\ HasMain' = HasMain
  BY Unmoved
<1>3. \A t : Home(t)' = Home(t)
  BY <1>2 DEF Home
<1>4. RecordedOK'
  <2>1. SUFFICES ASSUME succ' PROVE RecordedOK'
    BY DEF RecordedOK
  <2>2. /\ \A d \in defs :
               \/ \E n \in Predefined : d = Given(n)
               \/ \E t \in DOMAIN tokens : Seen(t) /\ Declares(t) /\ d = def_of[t]
        /\ \A t \in DOMAIN tokens :
               Seen(t) /\ Declares(t)
                   => def_of[t] \in defs /\ def_of[t].name = Name(t) /\ def_of[t].scope = Home(t)
        /\ \A n \in Predefined : Given(n) \in defs
    BY <1>1, <2>1 DEF RecordedOK
  <2>3. defs \subseteq defs' /\ \A n : Given(n)' = Given(n)
    BY <2>1
  <2>4. \A t \in DOMAIN tokens : Seen(t) => def_of'[t] = def_of[t]
    BY <1>1
  <2>5. ASSUME NEW d \in defs'
        PROVE  \/ \E n \in Predefined : d = Given(n)
               \/ \E t \in DOMAIN tokens : Seen(t)' /\ Declares(t) /\ d = def_of'[t]
    <3>1. CASE d \in defs
      BY <1>1, <2>2, <2>4, <3>1
    <3>2. CASE d \notin defs
      BY <1>1, <2>1, <2>5, <3>2
    <3>3. QED BY <3>1, <3>2
  <2>6. ASSUME NEW t \in DOMAIN tokens, Seen(t)', Declares(t)
        PROVE  def_of'[t] \in defs' /\ def_of'[t].name = Name(t) /\ def_of'[t].scope = Home(t)
    <3>1. CASE Seen(t)
      BY <2>2, <2>3, <2>4, <2>6, <3>1
    <3>2. CASE t = pos /\ Works
      BY <2>1, <2>6, <3>2
    <3>3. QED BY <1>1, <2>6, <3>1, <3>2
  <2>7. \A n \in Predefined : Given(n) \in defs'
    BY <2>2, <2>3
  <2>8. QED BY <1>2, <1>3, <2>3, <2>5, <2>6, <2>7 DEF RecordedOK
<1>5. CheckedOK'
  <2>1. SUFFICES ASSUME succ' PROVE CheckedOK'
    BY DEF CheckedOK
  <2>2. /\ \A t, d \in DOMAIN tokens :
               Seen(t) /\ Seen(d) /\ t # d /\ Kind(t) = "func" /\ Kind(d) = "func"
                   => Name(d) # Name(t)
        /\ \A t \in DOMAIN tokens : Seen(t) /\ Kind(t) = "func" => ~Runtime(t)
        /\ \A t \in DOMAIN tokens : Seen(t) /\ Kind(t) \in {"param", "decl"} => Bindings(t) = {}
        /\ \A t \in DOMAIN tokens :
               Seen(t) /\ Kind(t) \in {"use", "call"}
                   => /\ Bindings(t) # {} \/ Runtime(t)
                      /\ \A d \in Bindings(t) : def_of[t] = def_of[d]
    BY <2>1 DEF CheckedOK
  <2>3. ASSUME NEW t \in DOMAIN tokens, NEW d \in DOMAIN tokens, Seen(t)', Seen(d)', t # d,
               Kind(t) = "func", Kind(d) = "func"
        PROVE  Name(d) # Name(t)
    BY <1>1, <2>1, <2>2, <2>3
  <2>4. ASSUME NEW t \in DOMAIN tokens, Seen(t)', Kind(t) = "func" PROVE ~Runtime(t)
    BY <1>1, <2>1, <2>2, <2>4
  <2>5. ASSUME NEW t \in DOMAIN tokens, Seen(t)', Kind(t) \in {"param", "decl"}
        PROVE  Bindings(t) = {}
    BY <1>1, <2>1, <2>2, <2>5
  <2>6. ASSUME NEW t \in DOMAIN tokens, Seen(t)', Kind(t) \in {"use", "call"}
        PROVE  /\ Bindings(t) # {} \/ Runtime(t)
               /\ \A d \in Bindings(t) : def_of'[t] = def_of'[d]
    <3>1. CASE Seen(t)
      <4>1. \A d \in Bindings(t) : def_of'[d] = def_of[d]
        <5>1. TAKE d \in Bindings(t)
        <5>2. SUFFICES ASSUME d = pos, Works PROVE FALSE
          BY BindingsOf
        <5>3. phase = "bodies" /\ t < pos
          BY <1>1, <2>6, <3>1 DEF Seen, Analysed, Works
        <5>4. Kind(d) \notin {"func", "param"}
          BY <5>2, <5>3 DEF Works
        <5>5. t \in Nat /\ pos \in Nat
          BY DEF TypesOK
        <5>6. QED BY <5>2, <5>3, <5>4, <5>5, BindingsOf
      <4>2. def_of'[t] = def_of[t]
        BY <1>1, <3>1
      <4>3. QED BY <2>2, <2>6, <3>1, <4>1, <4>2
    <3>2. CASE t = pos /\ Works
      <4>1. \A d \in Bindings(pos) : def_of'[d] = def_of[d]
        BY BindingsOf
      <4>2. QED BY <2>1, <2>6, <3>2, <4>1
    <3>3. QED BY <1>1, <2>6, <3>1, <3>2
  <2>7. QED BY <1>1, <1>2, <2>3, <2>4, <2>5, <2>6 DEF CheckedOK
<1>6. RejectedOK'
  BY <1>2 DEF RejectedOK
<1>7. QED BY <1>4, <1>5, <1>6

Tables == RecordedOK /\ CheckedOK /\ RejectedOK

LEMMA RunnerName ==
    ASSUME NEW t, Name(t) = Func(tokens[t].name)
    PROVE  Runtime(t) <=> \E n \in Predefined : Func(n) = Name(t)
BY DEF Runtime

LEMMA VariableName ==
    ASSUME NEW t \in DOMAIN tokens, Kind(t) \notin {"func", "call"}
    PROVE  ~Runtime(t)
<1>1. Name(t) = <<"var", tokens[t].name>>
  BY NameShape
<1>2. QED BY <1>1 DEF Runtime, Func

LEMMA FunctionTables == LexInv /\ RecordFunction => Tables'
<1>1. SUFFICES ASSUME LexInv, RecordFunction PROVE Tables'
  OBVIOUS
<1>2. /\ IInv /\ TypesOK /\ DefsOK /\ RecordedOK /\ CheckedOK /\ RejectedOK
      /\ phase = "functions" /\ pos \in DOMAIN tokens /\ Kind(pos) = "func"
      /\ RecordRealSymbol /\ Advance("bodies") /\ UNCHANGED <<tokens, scope>>
  BY <1>1 DEF LexInv, Nesting, IInv, RecordFunction, At, parser
<1>3. /\ DOMAIN def_of' = DOMAIN tokens
      /\ \A t \in DOMAIN tokens : t # pos => def_of'[t] = def_of[t]
      /\ succ' => succ
  BY <1>2, RecordRealSymbolKeeps
<1>4. Works /\ Declares(pos) /\ ~Seen(pos) /\ ~Early
  <2>1. Works /\ Declares(pos)
    BY <1>2 DEF Works, Declares
  <2>2. QED BY <1>2, <2>1, SeenNext
<1>. PICK f : f = tokens[pos].name
  OBVIOUS
<1>. PICK found : found = LookupSymbol(RootScope, Func(f))
  OBVIOUS
<1>5. Name(pos) = Func(f) /\ (Runtime(pos) <=> \E n \in Predefined : Func(n) = Func(f))
  BY <1>2, NameShape, RunnerName
<1>6. DOMAIN def_of = DOMAIN tokens
  BY <1>2 DEF TypesOK
<1>7. succ =>
        /\ found = NoSymbol <=>
               /\ \A n \in Predefined : Func(n) # Func(f)
               /\ \A c \in DOMAIN tokens : Seen(c) /\ Kind(c) = "func" => Name(c) # Func(f)
        /\ found # NoSymbol =>
               \/ \E n \in Predefined : found = Given(n) /\ Func(n) = Func(f)
               \/ \E c \in DOMAIN tokens :
                      Seen(c) /\ Kind(c) = "func" /\ Name(c) = Func(f) /\ found = def_of[c]
  <2>1. RootScope \in Seq(Nat) /\ Len(RootScope) >= 1 /\ RootScope[1] = 0
    BY DEF RootScope
  <2>2. QED BY <1>2, <1>4, <2>1, FoundFunction
<1>8. CASE found # NoSymbol
  <2>1. ~succ'
    BY <1>2, <1>5, <1>8 DEF RecordRealSymbol
  <2>2. succ => Wrong(pos)
    <3>1. ASSUME NEW c \in DOMAIN tokens, Seen(c), Kind(c) = "func", Name(c) = Func(f)
          PROVE  c \in Bindings(pos)
      BY <1>2, <1>4, <1>5, <3>1 DEF Bindings
    <3>2. QED BY <1>4, <1>5, <1>7, <1>8, <3>1 DEF Wrong
  <2>3. QED BY <1>2, <1>3, <1>4, <2>1, <2>2, TablesStep DEF Tables
<1>9. CASE found = NoSymbol
  <2>1. PICK new : /\ new = Symbol(RootScope, Func(f), Func(f))
                   /\ def_of' = [def_of EXCEPT ![pos] = new] /\ succ' = succ
                   /\ defs' = defs \cup {new}
    BY <1>2, <1>5, <1>9 DEF RecordRealSymbol
  <2>2. /\ def_of'[pos] = new /\ new.name = Name(pos) /\ new.scope = Home(pos)
    BY <1>2, <1>5, <1>6, <2>1 DEF Symbol, Home
  <2>3. succ' => /\ ~Runtime(pos)
                 /\ \A d \in DOMAIN tokens : Seen(d) /\ Kind(d) = "func" => Name(d) # Name(pos)
    BY <1>5, <1>7, <1>9, <2>1
  <2>4. QED BY <1>2, <1>3, <1>4, <2>1, <2>2, <2>3, TablesStep DEF Tables
<1>10. QED BY <1>8, <1>9

LEMMA VariableTables == LexInv /\ (RecordParam \/ Declare) => Tables'
<1>1. SUFFICES ASSUME LexInv, RecordParam \/ Declare PROVE Tables'
  OBVIOUS
<1>2. /\ Nesting /\ TypesOK /\ DefsOK /\ ResolvedOK /\ RecordedOK /\ CheckedOK /\ RejectedOK
      /\ \/ phase = "functions" /\ Kind(pos) = "param" /\ Advance("bodies")
         \/ phase = "bodies" /\ Kind(pos) = "decl" /\ Advance("check")
      /\ pos \in DOMAIN tokens
      /\ RecordSymbol /\ UNCHANGED <<tokens, scope>>
  BY <1>1 DEF LexInv, Nesting, IInv, RecordParam, Declare, At, parser
<1>3. /\ DOMAIN def_of' = DOMAIN tokens
      /\ \A t \in DOMAIN tokens : t # pos => def_of'[t] = def_of[t]
      /\ succ' => succ
  BY <1>2, RecordSymbolKeeps
<1>4. Works /\ Declares(pos) /\ Kind(pos) \in {"param", "decl"}
  BY <1>2 DEF Works, Declares
<1>5. PICK found : found = LookupSymbol(scope[pos], Name(pos))
  OBVIOUS
<1>6. DOMAIN def_of = DOMAIN tokens
  BY <1>2 DEF TypesOK
<1>7. succ => (found = NoSymbol <=> Bindings(pos) = {})
  BY <1>2, <1>5, FoundVariable
<1>8. CASE found # NoSymbol
  <2>1. ~succ'
    BY <1>2, <1>5, <1>8 DEF RecordSymbol
  <2>2. succ => Wrong(pos)
    BY <1>4, <1>7, <1>8 DEF Wrong
  <2>3. QED BY <1>2, <1>3, <1>4, <2>1, <2>2, TablesStep DEF Tables
<1>9. CASE found = NoSymbol
  <2>1. PICK new : /\ new = Symbol(scope[pos], Name(pos), InnerVar(scope[pos]))
                   /\ def_of' = [def_of EXCEPT ![pos] = new] /\ succ' = succ
                   /\ defs' = defs \cup {new}
    BY <1>2, <1>5, <1>9 DEF RecordSymbol
  <2>2. /\ def_of'[pos] = new /\ new.name = Name(pos) /\ new.scope = Home(pos)
    BY <1>2, <1>4, <1>6, <2>1 DEF Symbol, Home
  <2>3. succ' => Bindings(pos) = {}
    BY <1>7, <1>9, <2>1
  <2>4. QED BY <1>2, <1>3, <1>4, <2>1, <2>2, <2>3, TablesStep DEF Tables
<1>10. QED BY <1>8, <1>9

LEMMA PassTables == LexInv /\ Pass => Tables'
<1>1. SUFFICES ASSUME LexInv, Pass PROVE Tables'
  OBVIOUS
<1>2. /\ TypesOK /\ RecordedOK /\ CheckedOK /\ RejectedOK
      /\ \/ phase = "functions" /\ Kind(pos) \notin {"func", "param"} /\ Advance("bodies")
         \/ phase = "bodies" /\ Kind(pos) \notin {"decl", "use", "call"} /\ Advance("check")
      /\ pos \in DOMAIN tokens
      /\ UNCHANGED <<tokens, scope, defs, inner_var_index, def_of, succ>>
  BY <1>1 DEF LexInv, Nesting, IInv, Pass, At, parser, analyzer
<1>3. ~Works
  BY <1>2 DEF Works
<1>4. DOMAIN def_of' = DOMAIN tokens
  BY <1>2 DEF TypesOK
<1>5. QED BY <1>2, <1>3, <1>4, TablesStep DEF Tables

\* Of two declarations of a name that reach one use, the first would reach the
\* second.
LEMMA OneBinding ==
    ASSUME TypesOK, CheckedOK, succ, NEW t \in DOMAIN tokens, Kind(t) \notin {"func", "call"},
           NEW d \in Bindings(t), NEW e \in Bindings(t), Seen(e)
    PROVE  ~(d < e)
<1>1. SUFFICES ASSUME d < e PROVE FALSE
  OBVIOUS
<1>2. Reaches(d, t) /\ Reaches(e, t) /\ d \in DOMAIN tokens /\ e \in DOMAIN tokens
  BY DEF Bindings
<1>3. d \in Nat /\ e \in Nat /\ t \in Nat
  BY <1>2 DEF TypesOK
<1>4. /\ d < e /\ e < t /\ Kind(d) \in {"param", "decl"} /\ Kind(e) \in {"param", "decl"}
      /\ Name(d) = Name(e)
      /\ \A k \in d .. t : Depth(k) >= Depth(d)
  BY <1>1, <1>2 DEF Reaches
<1>5. \A k \in d .. e : k \in d .. t
  BY <1>3, <1>4
<1>6. Reaches(d, e)
  BY <1>4, <1>5 DEF Reaches
<1>7. d \in Bindings(e)
  BY <1>2, <1>4, <1>6 DEF Bindings
<1>8. Bindings(e) = {}
  BY <1>2, <1>4 DEF CheckedOK
<1>9. QED BY <1>7, <1>8

LEMMA UseTables ==
    ASSUME LexInv, Ident, Kind(pos) = "use", succ,
           NEW found, found = LookupSymbol(scope[pos], Name(pos))
    PROVE  /\ found = NoSymbol <=> Bindings(pos) = {}
           /\ ~Runtime(pos)
           /\ \A d \in Bindings(pos) : found # NoSymbol => found = def_of[d]
<1>1. /\ Nesting /\ TypesOK /\ RecordedOK /\ CheckedOK
      /\ phase = "bodies" /\ pos \in DOMAIN tokens
  BY DEF LexInv, Nesting, IInv, Ident, At
<1>2. /\ found = NoSymbol <=> Bindings(pos) = {}
      /\ found # NoSymbol => \E c \in Bindings(pos) : found = def_of[c]
  BY <1>1, FoundVariable
<1>3. \A d \in Bindings(pos) : d \in DOMAIN tokens /\ d \in Nat /\ Seen(d)
  <2>1. \A d \in Bindings(pos) : d \in DOMAIN tokens
    BY DEF Bindings
  <2>2. \A d \in Bindings(pos) : Seen(d)
    BY <1>1, <2>1, BindingsSeen
  <2>3. QED BY <1>1, <2>1, <2>2 DEF TypesOK
<1>4. \A d, c \in Bindings(pos) : d = c
  <2>1. \A d, c \in Bindings(pos) : ~(d < c)
    BY <1>1, <1>3, OneBinding
  <2>2. QED BY <1>3, <2>1
<1>5. QED BY <1>1, <1>2, <1>4, VariableName

LEMMA CallTables ==
    ASSUME LexInv, Ident, Kind(pos) = "call", succ,
           NEW found, found = LookupSymbol(scope[pos], Name(pos))
    PROVE  /\ found = NoSymbol <=> Bindings(pos) = {} /\ ~Runtime(pos)
           /\ \A d \in Bindings(pos) : found # NoSymbol => found = def_of[d]
<1>1. /\ Nesting /\ IInv /\ TypesOK /\ ScopesOK /\ RecordedOK /\ CheckedOK
      /\ phase = "bodies" /\ pos \in DOMAIN tokens /\ ~Early
  BY DEF LexInv, Nesting, IInv, Ident, At, Early
<1>2. scope[pos] \in Seq(Nat) /\ Len(scope[pos]) >= 1 /\ scope[pos][1] = 0
  <2>1. Placed(pos)
    BY <1>1 DEF Placed, Closes
  <2>2. IdsBelow(scope[pos], next_scope_index)
    BY <1>1, <2>1 DEF ScopesOK
  <2>3. QED BY <1>1, <2>2 DEF TypesOK, IdsBelow
<1>. PICK f : f = tokens[pos].name
  OBVIOUS
<1>3. Name(pos) = Func(f) /\ (Runtime(pos) <=> \E n \in Predefined : Func(n) = Func(f))
  BY <1>1, NameShape, RunnerName
<1>4. /\ found = NoSymbol <=>
             /\ \A n \in Predefined : Func(n) # Func(f)
             /\ \A c \in DOMAIN tokens : Seen(c) /\ Kind(c) = "func" => Name(c) # Func(f)
      /\ found # NoSymbol =>
             \/ \E n \in Predefined : found = Given(n) /\ Func(n) = Func(f)
             \/ \E c \in DOMAIN tokens :
                    Seen(c) /\ Kind(c) = "func" /\ Name(c) = Func(f) /\ found = def_of[c]
  BY <1>1, <1>2, <1>3, FoundFunction
<1>5. \A c \in DOMAIN tokens : Kind(c) = "func" => Seen(c)
  BY <1>1 DEF Seen
<1>6. \A c : c \in Bindings(pos) <=> c \in DOMAIN tokens /\ Kind(c) = "func" /\ Name(c) = Func(f)
  BY <1>3 DEF Bindings
<1>7. found = NoSymbol <=> Bindings(pos) = {} /\ ~Runtime(pos)
  BY <1>3, <1>4, <1>5, <1>6
<1>8. ASSUME NEW d \in Bindings(pos), found # NoSymbol PROVE found = def_of[d]
  <2>1. d \in DOMAIN tokens /\ Kind(d) = "func" /\ Name(d) = Func(f) /\ Seen(d)
    BY <1>5, <1>6
  <2>2. ~Runtime(d)
    BY <1>1, <2>1 DEF CheckedOK
  <2>3. \A n \in Predefined : Func(n) # Func(f)
    BY <2>1, <2>2 DEF Runtime
  <2>4. \A c \in DOMAIN tokens : Seen(c) /\ Kind(c) = "func" /\ Name(c) = Func(f) => c = d
    BY <1>1, <2>1 DEF CheckedOK
  <2>5. QED BY <1>4, <1>8, <2>3, <2>4
<1>9. QED BY <1>7, <1>8

LEMMA IdentTables == LexInv /\ Ident => Tables'
<1>1. SUFFICES ASSUME LexInv, Ident PROVE Tables'
  OBVIOUS
<1>2. /\ TypesOK /\ RecordedOK /\ CheckedOK /\ RejectedOK
      /\ phase = "bodies" /\ Kind(pos) \in {"use", "call"} /\ Advance("check")
      /\ pos \in DOMAIN tokens /\ UNCHANGED <<tokens, scope, defs, inner_var_index>>
  BY <1>1 DEF LexInv, Nesting, IInv, Ident, At, parser
<1>3. PICK found : /\ found = LookupSymbol(scope[pos], Name(pos))
                   /\ def_of' = [def_of EXCEPT ![pos] = found]
                   /\ succ' = (succ /\ found # NoSymbol)
  BY <1>1 DEF Ident
<1>4. DOMAIN def_of = DOMAIN tokens
  BY <1>2 DEF TypesOK
<1>5. Works /\ ~Declares(pos)
  BY <1>2 DEF Works, Declares
<1>6. succ => /\ found = NoSymbol <=> Bindings(pos) = {} /\ ~Runtime(pos)
              /\ \A d \in Bindings(pos) : found # NoSymbol => found = def_of[d]
  BY <1>1, <1>2, <1>3, UseTables, CallTables
<1>7. /\ DOMAIN def_of' = DOMAIN tokens
      /\ \A t \in DOMAIN tokens : t # pos => def_of'[t] = def_of[t]
      /\ def_of'[pos] = found
  BY <1>2, <1>3, <1>4
<1>8. succ' => /\ Bindings(pos) # {} \/ Runtime(pos)
               /\ \A d \in Bindings(pos) : def_of'[pos] = def_of[d]
  BY <1>3, <1>6, <1>7
<1>9. succ /\ ~succ' => Wrong(pos)
  BY <1>2, <1>3, <1>6 DEF Wrong
<1>10. succ' => succ
  BY <1>3
<1>11. QED BY <1>2, <1>5, <1>7, <1>8, <1>9, <1>10, TablesStep DEF Tables

\* The parser records nothing.
LEMMA ParserTables == LexInv /\ (EnterScope \/ LeaveScope \/ MakeNode) => Tables'
<1>1. SUFFICES ASSUME LexInv, EnterScope \/ LeaveScope \/ MakeNode PROVE Tables'
  OBVIOUS
<1>2. phase' \in {"parse", "predefined"} /\ tokens' = tokens /\ succ' = succ
  BY <1>1 DEF EnterScope, LeaveScope, MakeNode, At, Advance, analyzer
<1>3. /\ \A t : Wrong(t)' = Wrong(t)
      /\ HasMain' = HasMain
  BY <1>2, Unmoved
<1>4. Early' /\ ~Analysed' /\ \A t : ~Seen(t)'
  BY <1>2 DEF Early, Analysed, Seen
<1>5. RecordedOK'
  BY <1>4 DEF RecordedOK
<1>6. CheckedOK'
  BY <1>4 DEF CheckedOK
<1>7. RejectedOK'
  BY <1>1, <1>2, <1>3 DEF LexInv, RejectedOK
<1>8. QED BY <1>5, <1>6, <1>7 DEF Tables

LEMMA PredefinedTables == LexInv /\ RecordPredefined => Tables'
<1>1. SUFFICES ASSUME LexInv, RecordPredefined PROVE Tables'
  OBVIOUS
<1>2. /\ phase' = "functions" /\ pos' = 1 /\ tokens' = tokens /\ succ' = succ
      /\ defs' = {Symbol(RootScope, Func(n), Func(n)) : n \in Predefined}
      /\ TypesOK
  BY <1>1 DEF LexInv, Nesting, IInv, OrderOK, Early, RecordPredefined, parser
<1>3. /\ \A t : Wrong(t)' = Wrong(t)
      /\ HasMain' = HasMain
  BY <1>2, Unmoved
<1>4. ~Analysed' /\ \A t \in DOMAIN tokens : ~Seen(t)'
  BY <1>2 DEF Analysed, Seen, TypesOK
<1>5. RecordedOK'
  <2>1. \A d \in defs' : \E n \in Predefined : d = Given(n)
    BY <1>2 DEF Given
  <2>2. \A n \in Predefined : Given(n) \in defs'
    BY <1>2 DEF Given
  <2>3. \A n : Given(n)' = Given(n)
    OBVIOUS
  <2>4. QED BY <1>2, <1>4, <2>1, <2>2, <2>3 DEF RecordedOK
<1>6. CheckedOK'
  BY <1>2, <1>4 DEF CheckedOK
<1>7. RejectedOK'
  BY <1>1, <1>2, <1>3 DEF LexInv, RejectedOK
<1>8. QED BY <1>5, <1>6, <1>7 DEF Tables

\* The tables hold a main exactly when the program does.
LEMMA MainIsFound ==
    ASSUME RecordedOK, succ, phase = "check"
    PROVE  MainFound <=> HasMain
<1>1. ~Early /\ \A t \in DOMAIN tokens : Seen(t) <=> t \in Nodes
  BY DEF Early, Seen
<1>2. ASSUME HasMain PROVE MainFound
  <2>1. PICK t \in Nodes : Kind(t) = "func" /\ tokens[t].name = "main"
    BY <1>2 DEF HasMain
  <2>2. t \in DOMAIN tokens /\ Seen(t) /\ Declares(t)
    BY <1>1, <2>1 DEF Nodes, Declares
  <2>3. def_of[t] \in defs /\ def_of[t].name = Name(t) /\ def_of[t].scope = Home(t)
    BY <1>1, <2>2 DEF RecordedOK
  <2>4. Name(t) = Func("main") /\ Home(t) = RootScope
    BY <2>1, <2>2, NameShape DEF Home
  <2>5. QED BY <2>3, <2>4 DEF MainFound
<1>3. ASSUME MainFound PROVE HasMain
  <2>1. PICK d \in defs : d.scope = RootScope /\ d.name = Func("main")
    BY <1>3 DEF MainFound
  <2>2. ASSUME NEW n \in Predefined, d = Given(n) PROVE FALSE
    <3>1. Func(n) = Func("main")
      BY <2>1, <2>2, GivenFields
    <3>2. n = "main"
      BY <3>1 DEF Func
    <3>3. QED BY <3>2, PredefinedAssumption
  <2>3. PICK t \in DOMAIN tokens : Seen(t) /\ Declares(t) /\ d = def_of[t]
    BY <1>1, <2>2 DEF RecordedOK
  <2>4. Name(t) = Func("main")
    BY <1>1, <2>1, <2>3 DEF RecordedOK
  <2>5. Kind(t) = "func" /\ Name(t) = Func(tokens[t].name)
    <3>1. Kind(t) \in {"func", "call"}
      BY <2>4, NameShape DEF Func
    <3>2. QED BY <2>3, <3>1, NameShape DEF Declares
  <2>6. tokens[t].name = "main"
    BY <2>4, <2>5 DEF Func
  <2>7. QED BY <1>1, <2>3, <2>5, <2>6 DEF HasMain
<1>4. QED BY <1>2, <1>3

\* A step that leaves the tables and what was seen alone.
LEMMA TablesStay ==
    ASSUME Tables, UNCHANGED <<tokens, scope, defs, def_of, succ>>,
           \A t \in DOMAIN tokens : Seen(t)' = Seen(t),
           Early' = Early, Analysed' = Analysed
    PROVE  Tables'
<1>1. /\ \A t : /\ Kind(t)' = Kind(t) /\ Name(t)' = Name(t)
                /\ Bindings(t)' = Bindings(t) /\ Runtime(t)' = Runtime(t)
                /\ Declares(t)' = Declares(t) /\ Wrong(t)' = Wrong(t)
      /\ HasMain' = HasMain
  BY Unmoved
<1>2. /\ \A t : Home(t)' = Home(t)
      /\ \A n : Given(n)' = Given(n)
  BY <1>1 DEF Home
<1>3. RecordedOK'
  BY <1>1, <1>2 DEF Tables, RecordedOK
<1>4. \A t \in DOMAIN tokens : \A d \in Bindings(t) : d \in DOMAIN tokens
  BY DEF Bindings
<1>5. CheckedOK'
  BY <1>1, <1>4 DEF Tables, CheckedOK
<1>6. RejectedOK'
  BY <1>1 DEF Tables, RejectedOK
<1>7. QED BY <1>3, <1>5, <1>6 DEF Tables

LEMMA CheckMainTables == LexInv /\ CheckMain => Tables'
<1>1. SUFFICES ASSUME LexInv, CheckMain PROVE Tables'
  OBVIOUS
<1>2. /\ phase = "check" /\ phase' = "main" /\ succ' = (succ /\ MainFound)
      /\ UNCHANGED <<tokens, scope, defs, def_of>>
      /\ RecordedOK /\ CheckedOK /\ RejectedOK
  BY <1>1 DEF LexInv, CheckMain, parser
<1>3. /\ \A t : /\ Kind(t)' = Kind(t) /\ Name(t)' = Name(t)
                /\ Bindings(t)' = Bindings(t) /\ Runtime(t)' = Runtime(t)
                /\ Declares(t)' = Declares(t) /\ Wrong(t)' = Wrong(t)
      /\ HasMain' = HasMain /\ Nodes' = Nodes
  BY <1>2, Unmoved
<1>4. /\ \A t : Home(t)' = Home(t)
      /\ \A n : Given(n)' = Given(n)
  BY <1>2, <1>3 DEF Home
<1>5. ~Early /\ ~Early' /\ \A t : Seen(t)' = Seen(t)
  BY <1>2, <1>3 DEF Early, Seen
<1>6. succ => (MainFound <=> HasMain)
  BY <1>2, MainIsFound
<1>7. RecordedOK'
  BY <1>2, <1>3, <1>4, <1>5 DEF RecordedOK
<1>8. CheckedOK'
  BY <1>2, <1>3, <1>5, <1>6 DEF CheckedOK
<1>9. RejectedOK'
  BY <1>2, <1>3, <1>6 DEF RejectedOK
<1>10. QED BY <1>7, <1>8, <1>9 DEF Tables

LEMMA TurnTables == LexInv /\ (MapSymbol \/ PassOver) => Tables'
<1>1. SUFFICES ASSUME LexInv, MapSymbol \/ PassOver PROVE Tables'
  OBVIOUS
<1>2. /\ phase \in {"main", "others"} /\ phase' \in {"main", "others", "done"}
      /\ UNCHANGED <<tokens, scope, defs, def_of, succ>> /\ Tables
  BY <1>1 DEF LexInv, Tables, MapSymbol, PassOver, Turn, Advance, parser, analyzer
<1>3. /\ \A t : Kind(t)' = Kind(t)
      /\ Nodes' = Nodes
  BY <1>2, Unmoved
<1>4. Early' = Early /\ Analysed' = Analysed /\ \A t : Seen(t)' = Seen(t)
  BY <1>2, <1>3 DEF Early, Analysed, Seen
<1>5. QED BY <1>2, <1>4, TablesStay

LEMMA StutterTables == LexInv /\ UNCHANGED vars => Tables'
<1>1. SUFFICES ASSUME LexInv, UNCHANGED vars PROVE Tables'
  OBVIOUS
<1>2. UNCHANGED <<tokens, phase, pos, scope, defs, def_of, succ>> /\ Tables
  BY <1>1 DEF LexInv, Tables, vars
<1>3. /\ \A t : Kind(t)' = Kind(t)
      /\ Nodes' = Nodes
  BY <1>2, Unmoved
<1>4. Early' = Early /\ Analysed' = Analysed /\ \A t : Seen(t)' = Seen(t)
  BY <1>2, <1>3 DEF Early, Analysed, Seen
<1>5. QED BY <1>2, <1>4, TablesStay

\* The scopes nest as the tokens do and the tables hold what was seen.
THEOREM LexicalInvariant == Spec => []LexInv
<1>1. Init => LexInv
  <2>1. SUFFICES ASSUME Init PROVE LexInv
    OBVIOUS
  <2>2. succ /\ Early /\ ~Analysed /\ \A t : ~Seen(t)
    BY <2>1 DEF Init, Early, Analysed, Seen
  <2>3. RecordedOK /\ CheckedOK /\ RejectedOK
    BY <2>2 DEF RecordedOK, CheckedOK, RejectedOK
  <2>4. QED BY <2>1, <2>3, NestingStart DEF LexInv
<1>2. LexInv /\ [Next]_vars => LexInv'
  <2>1. SUFFICES ASSUME LexInv, [Next]_vars PROVE LexInv'
    OBVIOUS
  <2>2. Nesting'
    BY <2>1, NestingStep DEF LexInv
  <2>3. Tables'
    BY <2>1, ParserTables, PredefinedTables, FunctionTables, VariableTables, IdentTables,
       PassTables, CheckMainTables, TurnTables, StutterTables DEF Next
  <2>4. QED BY <2>2, <2>3 DEF LexInv, Tables
<1>3. QED BY <1>1, <1>2, PTL DEF Spec

\* For every program of the grammar's shape: the semantic pass accepts it
\* exactly when no name is declared where it is visible, every name used is
\* declared and there is a main, and it finds for each use the declaration that
\* reaches it.
THEOREM AlwaysResolvesLexically == Spec => []ResolvesLexically
<1>1. ASSUME LexInv, Analysed PROVE ResolvesLexically
  <2>1. CheckedOK /\ RejectedOK /\ \A t \in Nodes : t \in DOMAIN tokens /\ Seen(t)
    BY <1>1 DEF LexInv, Analysed, Seen, Nodes
  <2>2. \A t \in DOMAIN tokens : t \in Nodes <=> Declares(t) \/ Kind(t) \in {"use", "call"}
    BY DEF Nodes, Declares
  <2>3. ASSUME succ PROVE WellScoped /\ \A t \in Nodes : \A d \in Bindings(t) : def_of[t] = def_of[d]
    <3>1. ASSUME NEW t \in Nodes, Kind(t) = "func" PROVE Bindings(t) = {} /\ ~Runtime(t)
      <4>1. ASSUME NEW d \in Bindings(t) PROVE FALSE
        <5>1. d \in DOMAIN tokens /\ d # t /\ Kind(d) = "func" /\ Name(d) = Name(t)
          BY <3>1 DEF Bindings
        <5>2. Seen(d)
          BY <2>1, <2>2, <5>1 DEF Declares
        <5>3. QED BY <2>1, <2>3, <3>1, <5>1, <5>2 DEF CheckedOK
      <4>2. QED BY <2>1, <2>3, <3>1, <4>1 DEF CheckedOK
    <3>2. ASSUME NEW t \in Nodes, Kind(t) \in {"param", "decl"}
          PROVE  Bindings(t) = {} /\ ~Runtime(t)
      BY <2>1, <2>3, <3>2, VariableName DEF CheckedOK
    <3>3. ASSUME NEW t \in Nodes, Kind(t) \in {"use", "call"}
          PROVE  /\ Bindings(t) # {} \/ Runtime(t)
                 /\ \A d \in Bindings(t) : def_of[t] = def_of[d]
      BY <2>1, <2>3, <3>3 DEF CheckedOK
    <3>4. HasMain
      BY <1>1, <2>1, <2>3 DEF CheckedOK
    <3>5. WellScoped
      BY <3>1, <3>2, <3>3, <3>4 DEF WellScoped, HasMain
    <3>6. \A t \in Nodes : Kind(t) \in {"func", "param", "decl"} \/ Kind(t) \in {"use", "call"}
      BY DEF Nodes
    <3>7. QED BY <3>1, <3>2, <3>3, <3>5, <3>6
  <2>4. ASSUME ~succ PROVE ~WellScoped
    BY <2>1, <2>2, <2>4 DEF RejectedOK, WellScoped, Wrong, HasMain, Declares
  <2>5. QED BY <2>3, <2>4 DEF ResolvesLexically
<1>2. LexInv => ResolvesLexically
  BY <1>1 DEF ResolvesLexically
<1>3. QED BY <1>2, LexicalInvariant, PTL
=============================================================================
