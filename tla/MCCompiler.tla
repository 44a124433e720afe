------------------------------ MODULE MCCompiler ------------------------------
(***************************************************************************)
(* Families of small modules for the compiler.                             *)
(***************************************************************************)
EXTENDS CompilerCorrect

\* Trees.
Tree(is, operands) == [is |-> is, operands |-> operands]
Num(n)      == [is |-> "int", operands |-> <<>>, value |-> n]
True        == [is |-> "bool", operands |-> <<>>, truth |-> TRUE]
Name(x)     == [is |-> "name", operands |-> <<>>, name |-> x]
Def(t, x)   == [is |-> "definition", operands |-> <<>>, type |-> t, name |-> x]
Fn(f, args) == [is |-> "function", operands |-> args, name |-> f, call |-> FALSE]
Member(e, field) == [is |-> "member", operands |-> <<e>>, field |-> field, index |-> 0]
Address(e)  == [is |-> "address", operands |-> <<e>>, pointee |-> [is |-> "unknown"]]
Assigned(l, r) == Tree("assign", <<l, r>>)
Unified(l, r)  == Tree("unify", <<l, r>>)
Deref(e)    == Tree("dereference", <<e>>)

Named(t) == [is |-> "named", name |-> t]
Plus(t)  == [is |-> "annotated", of |-> t]
Ptr(t)   == [is |-> "pointer", of |-> t]

Do(e)   == [is |-> "expression", of |-> e]
Break      == [is |-> "break"]
Continue   == [is |-> "continue"]
If(c, t, e)  == [is |-> "if", condition |-> c, then |-> t, else |-> e]
For(i, c, l, b) == [is |-> "for", init |-> i, condition |-> c, last |-> l, body |-> b]

BlockOf(list)  == [is |-> "block", list |-> list]
GoalsOf(list)  == [is |-> "goals", list |-> list]
Function(of, name, result, terms, body) ==
    [of |-> of, name |-> name, result |-> result, terms |-> terms, body |-> body]
Predicate(terms, list) == Function("declarative", "p", <<>>, terms, BlockOf(list))
Of(list) == [records |-> <<>>, functions |-> list]
Rec == [name |-> "r", fields |-> <<[type |-> Named("int"), name |-> "f"], [type |-> Named("var"), name |-> "g"]>>]
Enclosing == [name |-> "o", fields |-> <<[type |-> Named("r"), name |-> "a"]>>]
OfRecord(list) == [records |-> <<Rec, Enclosing>>, functions |-> list]

(***************************************************************************)
(* Control flow: loops and branches within one another, whose conditions   *)
(* are calls of c and whose other expressions are calls of e.              *)
(***************************************************************************)
E(n) == Do(Fn("e", <<Num(n)>>))
C    == Fn("c", <<>>)
Few  == {<<>>, <<E(1)>>, <<Break>>, <<Continue>>}
Innermost == {If(C, t, e) : t, e \in Few}
         \cup {For(<<>>, <<C>>, <<>>, b) : b \in Few} \cup {For(<<Fn("e", <<Num(5)>>)>>, <<C>>, <<Fn("e", <<Num(6)>>)>>, b) : b \in Few}
Bodies == {<<i, E(2)>> : i \in Innermost}
          \cup {<<For(<<>>, <<C>>, <<>>, <<i, E(2)>>), E(3)>> : i \in Innermost}
          \cup {<<If(C, <<i>>, <<E(2)>>), E(3)>> : i \in Innermost}
          \cup {<<For(<<>>, <<C>>, <<>>, <<For(<<>>, <<C>>, <<>>, <<If(C, <<s>>, <<>>)>>), s>>)>> : s \in {Break, Continue}}
          \cup {<<For(<<>>, <<>>, <<>>, <<Break>>)>>, <<Break, E(1)>>, <<E(1), Continue, E(2)>>}
ControlFlow ==
    {Of(<<Predicate(<<>>, body)>>) : body \in Bodies}
    \cup {Of(<<Predicate(<<>>, <<For(<<>>, <<C>>, <<>>, <<Break>>)>>), Predicate(<<>>, <<s, E(1)>>)>>) : s \in {Break, Continue}}

(***************************************************************************)
(* Values: statements one after another, and then what the variables are.  *)
(***************************************************************************)
x == Name("x")
y == Name("y")
r == Name("r")
s == Name("s")
v == Name("v")
p == Name("p")
q == Name("q")
Variables == <<Def(Named("int"), "x"), Def(Named("int"), "y"), Def(Named("r"), "r"), Def(Named("r"), "s"),
               Def(Named("var"), "v"), Def(Ptr(Named("int")), "p"), Def(Ptr(Named("int")), "q"), Def(Named("o"), "o")>>
Look == Do(Fn("e", <<x, y, r, s, v, p, q, Name("o")>>))
Pool == {Assigned(x, Num(1)), Assigned(y, x), Assigned(Member(r, "f"), Num(2)), Assigned(s, r),
         Assigned(Member(s, "f"), Member(r, "f")), Assigned(p, Address(x)), Assigned(q, p), Assigned(Deref(p), Num(3)),
         Unified(x, y), Unified(v, r), Unified(r, s), Unified(v, x), Unified(x, Num(1)), Unified(Member(r, "f"), y),
         Assigned(Def(Plus(Named("int")), "z"), Fn("e", <<>>)), Assigned(v, Tree("quote", <<Fn("f", <<x>>)>>)),
         Assigned(Deref(p), Deref(q)), Unified(y, Deref(p)), Assigned(x, True)}
OA == Member(Name("o"), "a")
Deep == {Assigned(s, r), Assigned(OA, r), Assigned(Member(s, "f"), Num(2)), Assigned(Member(OA, "f"), Num(1)),
         Unified(Member(s, "g"), Num(3)), Unified(Member(OA, "g"), x), Unified(r, OA), Assigned(p, Address(Member(r, "f"))),
         Assigned(Deref(p), Num(2))}
Body(list) == [i \in DOMAIN list |-> Do(list[i])]
Values ==
    {OfRecord(<<Predicate(Variables, Append(Body(list), Look))>>) :
        list \in {<<a, b>> : a, b \in Pool} \cup {<<a, b, c>> : a, b, c \in Deep}}

(***************************************************************************)
(* Operators: each with operands of every type, and each with every number.*)
(***************************************************************************)
Parameters  == <<Def(Plus(Named("int")), "x"), Def(Plus(Named("bool")), "y"), Def(Named("r"), "r"), Def(Named("var"), "v"),
             Def(Named("int"), "z")>>
Operands == {Num(1), True, x, y, r, v, Name("z"), Fn("e", <<>>), Tree("quote", <<Fn("f", <<x>>)>>),
             Address(Name("z")), Member(r, "f")}
Applied == {Tree(op, <<l, o>>) : op \in {"unify", "assign", "multiply", "greater", "not equal", "or"}, l, o \in Operands}
           \cup {Tree(op, <<o>>) : op \in {"call", "quote", "not", "negate", "dereference"}, o \in Operands}
           \cup {Address(o) : o \in Operands} \cup {Member(o, f) : o \in Operands, f \in {"g", "h"}}
Operators == {OfRecord(<<Predicate(Parameters, <<Do(Fn("e", <<e>>))>>)>>) : e \in Applied}

Numbers ==
    {Of(<<Function("declarative", "n", <<>>, <<Def(Plus(Named("int")), "x"), Def(Plus(Named("int")), "y")>>,
                   BlockOf(<<Do(Fn("e", <<e>>))>>))>>) :
        e \in {Tree(op, <<x, y>>) : op \in Arithmetic \cup Relations \cup Equalities} \cup {Tree("negate", <<x>>)}}

(***************************************************************************)
(* Definitions of every kind                                               *)
(***************************************************************************)
HeadTerms == {Def(Named("int"), "x"), Def(Plus(Named("bool")), "y"), Def(Named("var"), "v"), Def(Named("r"), "r"),
              Def(Plus(Ptr(Named("int"))), "p"), Fn("s", <<Def(Named("int"), "x")>>), Name("x")}
HeadLists == {<<>>} \cup {<<t>> : t \in HeadTerms \ {x}} \cup {<<Def(Named("int"), "x"), x>>, <<Fn("s", <<Def(Named("int"), "x")>>), Def(Named("var"), "v")>>}
Kinds  == {<<"declarative", <<>>>>, <<"imperative", <<>>>>, <<"imperative", <<Def(Plus(Named("int")), "a")>>>>,
           <<"imperative", <<Def(Named("var"), "a")>>>>}
FunctionBodies == {GoalsOf(<<>>), GoalsOf(<<Fn("e", <<>>), Fn("c", <<>>)>>), BlockOf(<<>>), [is |-> "extern DI"], [is |-> "extern C"]}
Definitions == {Function(k[1], "f", k[2], h, b) : k \in Kinds, h \in HeadLists, b \in FunctionBodies}
Plain == Function("declarative", "f", <<>>, <<>>, GoalsOf(<<>>))
Others == {Plain, Function("imperative", "f", <<Def(Plus(Named("int")), "a")>>, <<Def(Named("int"), "x")>>, BlockOf(<<>>)),
           Function("declarative", "f", <<>>, <<>>, [is |-> "extern C"])}
Nested == {Fn("s", <<Fn("s", <<Def(Named("int"), "x")>>)>>), Fn("s", <<Fn("s", <<>>), Def(Named("int"), "x")>>)}
Heads == {Of([i \in 1..2 |-> Function("declarative", "f", <<>>, <<h[i]>>, GoalsOf(<<>>))]) : h \in Nested \X Nested}
         \cup {OfRecord(<<d>>) : d \in Definitions} \cup {OfRecord(<<o, d>>) : o \in Others, d \in Definitions}

(***************************************************************************)
(* Calls and quotes within one another, and modules that are ill-formed    *)
(***************************************************************************)
Fs == {Fn("f", <<>>), Fn("f", <<Tree("quote", <<Fn("e", <<>>)>>), Fn("e", <<>>)>>),
       Fn("f", <<Tree("call", <<Fn("e", <<>>)>>), Fn("e", <<>>)>>)}
Marked == Fs \cup {Tree(m, <<g>>) : m \in {"call", "quote"}, g \in Fs}
Quoting == {Of(<<Function("declarative", "p", <<>>, <<>>, b)>>) :
              b \in {BlockOf(<<Do(Fn("g", <<l, o>>))>>) : l, o \in Marked} \cup {GoalsOf(<<l, o>>) : l, o \in Marked}}
IllFormed ==
    {[records |-> <<Rec, Rec>>, functions |-> <<Plain>>]}
    \cup {OfRecord(<<Predicate(Variables, <<Do(e)>>)>>) :
            e \in {Assigned(Num(1), x), Member(Def(Plus(Plus(Named("int"))), "z"), "f"), Assigned(Assigned(x, y), y), Assigned(Member(Fn("e", <<>>), "f"), y),
                   Address(Fn("e", <<>>)), Unified(Assigned(Fn("e", <<>>), x), y)}}

(***************************************************************************)
(* Records that refer to themselves: by a pointer, in variables of a body  *)
(* that may come to form a circle; and of every kind, in heads and bodies. *)
(***************************************************************************)
Rec1(name, fields) == [name |-> name, fields |-> [i \in DOMAIN fields |-> [type |-> fields[i][1], name |-> fields[i][2]]]]
OfLinked(list) ==
    [records |-> <<Rec1("list", <<<<Named("int"), "f">>, <<Ptr(Named("list")), "n">>>>),
                   Rec1("self", <<<<Named("int"), "f">>, <<Named("self"), "s">>>>),
                   Rec1("one", <<<<Named("other"), "o">>>>), Rec1("other", <<<<Named("one"), "o">>>>)>>,
     functions |-> list]
this == Name("l")
that == Name("m")
link == Name("k")
Linked == <<Do(Def(Named("list"), "l")), Do(Def(Named("list"), "m")), Do(Def(Ptr(Named("list")), "k"))>>
Next_(e) == Member(e, "n")
Links == {Assigned(Next_(this), Address(this)), Assigned(Next_(this), Address(that)), Assigned(link, Address(this))}
LinkPool == Links \cup
    {Assigned(link, Next_(this)), Assigned(that, this), Assigned(Member(this, "f"), Num(1)), Assigned(Member(Deref(Next_(this)), "f"), Num(2)),
     Assigned(Next_(Deref(link)), link), Assigned(Deref(link), this), Unified(this, that), Unified(Next_(that), link)}
EndlessTypes == {Named("list"), Ptr(Named("list")), Plus(Named("list")), Named("self"), Plus(Named("self")), Named("one")}
InHead(t) ==
    {Function("declarative", "f", <<>>, <<Def(t, "x")>>, b) : b \in {GoalsOf(<<>>), [is |-> "extern DI"], [is |-> "extern C"]}}
    \cup {Function("imperative", "f", <<Def(Plus(Named("int")), "a")>>, <<Def(t, "x")>>, [is |-> "extern C"]),
          Function("imperative", "f", <<Def(t, "x")>>, <<>>, BlockOf(<<>>))}
SelfReferring ==
    {OfLinked(<<Predicate(<<>>, Linked \o Body(list) \o <<Do(Fn("e", <<this, that, link>>))>>)>>) :
        list \in {<<a, b, c>> : a \in Links, b, c \in LinkPool}}
    \cup {OfLinked(<<d>>) : d \in UNION {InHead(t) : t \in EndlessTypes}}
    \cup {OfLinked(<<Predicate(<<>>, <<Do(e)>>)>>) :
            e \in UNION {{Def(t, "x"), Assigned(Def(t, "x"), Fn("e", <<>>)), Fn("e", <<Def(t, "x")>>)} : t \in EndlessTypes}}

(***************************************************************************)
(* What the cfg gives to the constants                                     *)
(***************************************************************************)
Programs == ControlFlow \cup Values \cup Operators \cup Numbers \cup Heads \cup Quoting \cup IllFormed \cup SelfReferring

AllDefinitions == UNION {Range(m.functions) : m \in Modules}
ASSUME StatementsAssumption == MadeOf(UNION {StatementsOf(f) : f \in AllDefinitions}, AllDefinitions)

\* The definitions of a module after TypeChecking, if it is not rejected before or by it; all
\* of each signature is visited, unless it has no end.
Accepted(m) == RecordErrors(m) = {} /\ \A i \in DOMAIN m.functions : ~TypeCrashes(m.functions[i], m)
TypedDefinitions(m) == {Typed(m.functions[i], m) : i \in DOMAIN m.functions}
NodesOf(f) == UNION {Range(Walk(Signature(f))[n].left) : n \in 0..Visits}
ASSUME SignaturesAssumption ==
    \A m \in {k \in Modules : Accepted(k)} :
        /\ HasNodes(TypedDefinitions(m), UNION {NodesOf(f) : f \in TypedDefinitions(m)})
        /\ \A f \in TypedDefinitions(m) : NameNeverEnds(f) <=> RefersToItself(HeadOf(f), m)

\* What predicates are called with: every pair of ints, or what a caller may have
\* for a term of the type.
Ints == {<<"int", n>> : n \in Least..-(Least + 1)}
Given(t) == CASE t.is = "definition" /\ t.type.is = "annotated" ->
                   (IF t.type.of.is = "int" THEN {<<"int", 1>>} ELSE {}) \cup {<<"bool", 1>>, Nothing}
              [] OTHER -> {Nothing}
Usual(t) == IF t.is = "definition" /\ t.type.is = "annotated" /\ t.type.of.is \in {"int", "bool"} THEN <<t.type.of.is, 1>> ELSE Nothing
Arguments(f) ==
    CASE f.name = "n" -> {<<a, b>> : a, b \in Ints}
      [] f.name = "p" -> {[i \in DOMAIN f.terms |-> Usual(f.terms[i])]}
      [] OTHER -> {<<a>> : a \in UNION {Given(f.terms[i]) : i \in {1} \cap DOMAIN f.terms}} \cup {[i \in DOMAIN f.terms |-> Nothing]}
Answers(f) == CASE f = "c" -> {<<"bool", 0>>, <<"bool", 1>>, Fails}
                [] OTHER -> {Nothing, Fails}
Solutions == {Nothing, Fails}

=============================================================================
