--------------------------- MODULE CompilerCorrect ---------------------------
(***************************************************************************)
(* What the compiler promises about the modules it accepts and the code it *)
(* makes of them.  Where it does not keep a promise that its author or its *)
(* users may expect, the programs for which it does not are named here.    *)
(***************************************************************************)
EXTENDS Compiler

G == INSTANCE Graphs

Phases == {"BasicCorrectness", "QuoteCallResolution", "RecordDefinitionsCollector", "TypeChecking",
           "Codegen", "emitting", "compiled", "rejected"}

\* The fields of Codegen, those of the compiler and the state of the run have their
\* types.
TypeOK ==
    /\ phase \in Phases /\ crashed \in BOOLEAN
    /\ CodegenTypeOK
    /\ running \in 0..Len(made) /\ pc.block \in 0..Len(blocks)
    /\ outcome \in {"none", "true", "false", "type", "unset", "wild", "loops", "trap"}

IsC(f)          == f.body.is = "extern C"
Expressions(f)  == UNION {Within(e) : e \in Range(HeadOf(f) \o BodyOf(f))}
RECURSIVE StatementsIn(_)
StatementsIn(list) ==
    UNION {{list[i]} \cup CASE list[i].is = "if"  -> StatementsIn(list[i].then) \cup StatementsIn(list[i].else)
                            [] list[i].is = "for" -> StatementsIn(list[i].body)
                            [] OTHER -> {} : i \in DOMAIN list}
StatementsOf(f) == IF f.body.is = "block" THEN StatementsIn(f.body.list) ELSE {}

\* The code does what the source says: for the same answers of the predicates it
\* calls, the same calls are made in the same order with the same arguments, and
\* it succeeds, fails or stops as the source does, with the same values in its
\* arguments and result.  What a source does that reads a pointer without a value
\* is not defined, and where something is stored through a pointer the expression
\* of the pointer is run twice.
HasEffects(e) == \E x \in Within(e) : x.is \in {"function", "definition", "unify", "assign"}
StoresTwice(f) == \E x \in Expressions(f) :
    /\ x.is = "assign"
    /\ BaseOf(x.operands[1]).is = "dereference" /\ HasEffects(BaseOf(x.operands[1]).operands[1])

IsAsMeant(seen, meaning) ==
    \/ meaning.outcome = "undefined"
    \/ /\ seen.trace = meaning.trace /\ seen.outcome = meaning.outcome
       /\ seen.outcome \in {"true", "false"} => seen = meaning

FollowsSource ==
    [][outcome' # outcome /\ ~StoresTwice(made[running]) =>
         IsAsMeant(Seen(store', outcome'), Meaning(made[running], given.arguments, asked))]_vars

\* Types are right: a function in which the type of every operand is known to the
\* compiler never finds a term of another type where the runtime asserts one.
\* Conditions are not checked, and must be bools by themselves.
TypeOf(e, f) == Checked(e, module, NamesOf(f, module)).type
IsTyped(f) ==
    /\ \A x \in Expressions(f) :
          x.is \notin {"function", "call", "quote", "unify"} =>
              \A i \in DOMAIN x.operands : TypeOf(x.operands[i], f) # DynamicType
    /\ \A s \in StatementsOf(f) :
          /\ s.is = "if" => RemoveAnnotations(TypeOf(s.condition, f)) = BoolType
          /\ s.is = "for" => RemoveAnnotations(TypeOf(s.condition[1], f)) = BoolType
RightTypes == outcome = "type" => ~IsTyped(made[running])

\* In bodies, a function term is called if the innermost ` or $ around it says so,
\* or without one, if the body is a block; terms of heads are not looked at, for
\* there isCallMode has no value.
RECURSIVE IsAsWritten(_, _)
IsAsWritten(e, called) ==
    /\ e.is = "function" => e.call = called
    /\ \A i \in DOMAIN e.operands :
          IsAsWritten(e.operands[i], CASE e.is = "call" -> TRUE [] e.is = "quote" -> FALSE [] OTHER -> called)
CallsAsWritten ==
    phase \in {"emitting", "compiled"} =>
        \A i \in DOMAIN module.functions :
            \A e \in Range(BodyOf(module.functions[i])) :
                IsAsWritten(e, module.functions[i].body.is = "block")

\* The records that refer to themselves, or to one that does: by their fields, or if
\* `through' has "pointer" also by what fields point to.
RECURSIVE RecordIn(_, _)
RecordIn(t, through) == CASE t.is \in {"named", "record"} -> {t.name}
                          [] t.is \in through -> RecordIn(t.of, through)
                          [] OTHER -> {}
References(m, through) ==
    LET names == {r.name : r \in Range(m.records)}
    IN  [node |-> names,
         edge |-> {e \in names \X names : \E r \in Range(m.records) : \E field \in Range(r.fields) :
                                               r.name = e[1] /\ e[2] \in RecordIn(field.type, through)}]
Endless(m, through) ==
    LET graph == References(m, through)
        path  == G!ConnectionsIn(graph)
    IN  {n \in graph.node : \E e \in graph.edge : path[n, e[1]] /\ path[e[2], e[1]]}
HasEndless(list, m, through) ==
    \E d \in DefinitionsIn(list) : RecordIn(d.type, through) \cap Endless(m, through) # {}

\* Records that are a part of themselves, and records that refer to themselves at all.
ContainsItself(list, m) == HasEndless(list, m, {"annotated"})
RefersToItself(list, m) == HasEndless(list, m, {"annotated", "pointer"})

\* The compiler ends with code or with errors, but for modules with one of these:
\* a function with a record in its head that refers to itself, be it through a
\* pointer, so that its symbol has no end; a variable of a record that is a part of
\* itself, which is reported but may leave a term that was never made; a `for'
\* without a condition; an extern "C" definition without a result part, or with types
\* that C has not; `void', if it is exported to C; a head with a call; an assignment
\* to an assignment; the address of a term whose type is not known; a member of what
\* is annotated twice.
MayCrash(i) ==
    LET f == module.functions[i] IN
    \/ ~IsC(f) /\ RefersToItself(HeadOf(f), source)
    \/ ContainsItself(HeadOf(f) \o BodyOf(f), source)
    \/ \E s \in StatementsOf(f) : s.is = "for" /\ s.condition = <<>>
    \/ IsC(f) /\ (f.of = "declarative" \/ ImportFails(f, NamesOf(f, module)))
    \/ f.of = "imperative" /\ f.result = <<>>
    \/ ~CallsNothing(HeadOf(f))
    \/ \E x \in Expressions(f) :
          \/ x.is = "assign"  /\ BaseOf(x.operands[1]).is = "assign"
          \/ x.is = "address" /\ TypeOf(x.operands[1], f) = DynamicType
          \/ x.is = "member"  /\ IsAnnotated(RemoveAnnotation(TypeOf(x.operands[1], f)))
CompilesOrReports == crashed => \E i \in DOMAIN module.functions : MayCrash(i)

\* What the passes and the visitors report, each with what it remembers of what
\* it has visited, keeps these modules from being compiled: an assignment to what
\* is no location, a continue outside of loops, a call or quote of what is no
\* function term, two records of a name, an operand of another type, a variable of a
\* record that contains itself.
RECURSIVE ContinuesOutside(_)
ContinuesOutside(list) ==
    \E i \in DOMAIN list :
        \/ list[i].is = "continue"
        \/ list[i].is = "if" /\ (ContinuesOutside(list[i].then) \/ ContinuesOutside(list[i].else))
IsIllFormed(f) ==
    \/ f.body.is = "block" /\ ContinuesOutside(f.body.list)
    \/ \E x \in Expressions(f) :
          \/ x.is = "assign" /\ ~IsLocation(x.operands[1])
          \/ x.is \in {"call", "quote"} /\ x.operands[1].is # "function"
          \/ x.is \in Arithmetic /\ \E o \in Range(x.operands) : o.is = "bool"
          \/ x.is \in Connectives /\ \E o \in Range(x.operands) : o.is = "int"
IllFormedIsRejected ==
    phase = "compiled" =>
        /\ \A f \in Range(source.functions) : ~IsIllFormed(f) /\ ~ContainsItself(HeadOf(f) \o BodyOf(f), source)
        /\ \A i, j \in DOMAIN source.records : i # j => source.records[i].name # source.records[j].name

\* The compiler ends, and so does every run of what it made, if every predicate
\* that is called answers.
EverythingEnds ==
    /\ <>(phase \in {"compiled", "rejected"} \/ crashed)
    /\ running # NoFunction ~> outcome # "none"

=============================================================================
