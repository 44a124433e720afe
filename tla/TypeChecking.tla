----------------------------- MODULE TypeChecking -----------------------------
(***************************************************************************)
(* The passes between the parser and code generation, but for name         *)
(* resolution: BasicCorrectness, QuoteCallResolution,                      *)
(* RecordDefinitionsCollector and TypeChecking.  Each is an operator that  *)
(* gives the errors it reports and the tree it leaves.                     *)
(***************************************************************************)
EXTENDS Types

Union(list) == UNION {list[i] : i \in DOMAIN list}

(***************************************************************************)
(* BasicCorrectness                                                        *)
(***************************************************************************)
\* What it descends into: records only, for the visitors of functions replace
\* those that would.
CheckedExpressions(m) == {}
IsLvalue(e) == e.is \in {"name", "definition", "assign", "dereference", "member"}
BasicErrors(m) == {"Can assign only to lvalue" : e \in {x \in CheckedExpressions(m) :
                                                        x.is = "assign" /\ ~IsLvalue(x.operands[1])}}

(***************************************************************************)
(* QuoteCallResolution: a function term is a call or a term, by the body   *)
(* it is in or by the innermost ` or $ in front of one around it.          *)
(***************************************************************************)
\* What isCallMode is after a node that sets it.  Mutant: it is not put back.
NotPutBack(old, new) == new
PutBack(old, new)    == old

RECURSIVE Visited(_, _)
VisitedAll(list, mode) ==
    FoldLeft(LAMBDA v, e : LET w == Visited(e, v.mode)
                           IN  [trees |-> Append(v.trees, w.tree), mode |-> w.mode,
                                errors |-> v.errors \cup w.errors],
             [trees |-> <<>>, mode |-> mode, errors |-> {}], list)
Visited(e, mode) ==
    LET sets   == e.is \in {"call", "quote"}
        legal  == sets => e.operands[1].is = "function"
        inside == VisitedAll(e.operands, IF sets /\ legal THEN e.is = "call" ELSE mode)
        tree   == [e EXCEPT !.operands = inside.trees]
    IN  [tree   |-> IF e.is = "function" THEN [tree EXCEPT !.call = mode] ELSE tree,
         mode   |-> IF sets THEN PutBack(mode, inside.mode) ELSE inside.mode,
         errors |-> inside.errors \cup (IF legal THEN {} ELSE {"Can call or quote only function symbol"})]

\* isCallMode has no value at first: `mode' is what it happens to be in heads.
WithCalls(f, mode) ==
    LET block == f.body.is = "block"
        by    == [e \in Range(BodyOf(f)) |-> Visited(e, block).tree]
    IN  [f EXCEPT !.result = VisitedAll(@, mode).trees, !.terms = VisitedAll(@, mode).trees,
                  !.body = RewrittenBody(@, by)]
CallErrors(f) == Union([i \in DOMAIN BodyOf(f) |-> Visited(BodyOf(f)[i], TRUE).errors])

(***************************************************************************)
(* RecordDefinitionsCollector                                              *)
(***************************************************************************)
RecordErrors(m) ==
    {"Record redefinition" : p \in {q \in (DOMAIN m.records) \X (DOMAIN m.records) :
                                    q[1] < q[2] /\ m.records[q[1]].name = m.records[q[2]].name}}

(***************************************************************************)
(* TypeChecking: the type of an expression, the errors reported in it,     *)
(* whether an assertion fails, and the expression with what is stored in   *)
(* it.  `names' has the definitions of the names.                          *)
(***************************************************************************)
\* What the operands of an operator must be, at most one of them reported.
\* Mutant: only the left one is looked at.
Accepts(operand, type) == operand = DynamicType \/ Equivalent(operand, Annotated(type))
DemandedFirst(operands) == {1}
Demanded(operands)      == DOMAIN operands
Demand(operands, type) ==
    IF \A i \in Demanded(operands) : Accepts(operands[i], type) THEN {}
    ELSE {"Operand of another type"}

Assignable(left, right) ==
    \/ DynamicType \in {left, right}
    \/ Equivalent(left, right) \/ Equivalent(left, RemoveAnnotation(right))

FieldsNamed(record, name) == {i \in DOMAIN FieldsOf(record) : FieldsOf(record)[i].name = name}
LastOf(S) == CHOOSE i \in S : \A j \in S : j <= i

RECURSIVE Checked(_, _, _)
Checked(e, m, names) ==
    LET inside  == OfEach(LAMBDA o : Checked(o, m, names), e.operands)
        types   == OfEach(LAMBDA c : c.type, inside)
        tree    == [e EXCEPT !.operands = OfEach(LAMBDA c : c.tree, inside)]
        Ends(type, errors, crash, t) ==
            [type |-> type, tree |-> t,
             errors |-> errors \cup Union([i \in DOMAIN inside |-> inside[i].errors]),
             crash |-> crash \/ \E i \in DOMAIN inside : inside[i].crash]
        Is(type, errors) == Ends(type, errors, FALSE, tree)
        left    == types[1]
        right   == types[2]
        record  == RemoveAnnotation(left)
        members == FieldsNamed(record, e.field)
    IN
    CASE e.is = "int"  -> Is(Annotated(IntType), {})
      [] e.is = "bool" -> Is(Annotated(BoolType), {})
      [] e.is = "name" -> Is(names[e.name], {})
      [] e.is = "definition" ->
           Ends(Reified(e.type, RecordsOf(m)), {}, FALSE, [tree EXCEPT !.type = Reified(@, RecordsOf(m))])
      [] e.is = "function" -> Is(IF e.call THEN DynamicType ELSE FunctionType, {})
      [] e.is \in {"call", "quote"} -> Is(left, {})
      [] e.is = "unify" -> Is(DynamicType, {})
      [] e.is = "assign" ->
           IF right = FunctionType THEN Is(left, {"Cannot assign function term"})
           ELSE IF left = FunctionType THEN Is(left, {"Cannot assign to function term"})
           ELSE Is(left, IF Assignable(left, right) THEN {} ELSE {"Cannot assign"})
      [] e.is \in Equalities ->
           Is(Annotated(BoolType), IF FunctionType \in {left, right} THEN {"Cannot compare function term"} ELSE {})
      [] e.is \in Connectives \cup {"not"} -> Is(Annotated(BoolType), Demand(types, BoolType))
      [] e.is \in Relations  -> Is(Annotated(BoolType), Demand(types, IntType))
      [] e.is \in Arithmetic \cup {"negate"} -> Is(Annotated(IntType), Demand(types, IntType))
      [] e.is = "dereference" ->
           IF left = FunctionType THEN Is(DynamicType, {"Cannot dereference function term"})
           ELSE IF left = DynamicType THEN Is(DynamicType, {})
           ELSE IF RemoveAnnotations(left).is = "pointer" THEN Is(RemoveAnnotations(left).of, {})
           ELSE Is(DynamicType, {"Cannot dereference value of non-pointer type"})
      [] e.is = "address" ->
           IF left = FunctionType THEN Is(DynamicType, {"Cannot take address of function term"})
           ELSE Ends(IF left = DynamicType THEN DynamicType ELSE Annotated(Pointer(left)), {}, FALSE,
                     [tree EXCEPT !.pointee = left])
      [] e.is = "member" ->
           IF left \in {FunctionType, DynamicType} \/ record.is \in Builtin \cup {"pointer"}
           THEN Is(DynamicType, {"No members"})
           ELSE IF record.is # "record" THEN Ends(DynamicType, {}, TRUE, tree)
           ELSE IF members = {} THEN Is(DynamicType, {"No such field"})
           ELSE LET field == FieldsOf(record)[LastOf(members)].type
                IN  Ends(IF IsAnnotated(left) THEN Annotated(field) ELSE field, {},
                         IsAnnotated(left) /\ ~CanAnnotate(field),
                         [tree EXCEPT !.index = LastOf(members)])

\* The definitions that a function has.  Its names are taken to be different:
\* NameResolution tells those that are not apart.
DefinitionsIn(list) == {d \in UNION {Within(list[i]) : i \in DOMAIN list} : d.is = "definition"}
NamesOf(f, m) ==
    LET all == DefinitionsIn(HeadOf(f) \o BodyOf(f))
    IN  [n \in {d.name : d \in all} |-> Reified((CHOOSE d \in all : d.name = n).type, RecordsOf(m))]

TypeErrors(f, m) == Union([i \in DOMAIN (HeadOf(f) \o BodyOf(f)) |->
                            Checked((HeadOf(f) \o BodyOf(f))[i], m, NamesOf(f, m)).errors])
TypeCrashes(f, m) == \E e \in Range(HeadOf(f) \o BodyOf(f)) : Checked(e, m, NamesOf(f, m)).crash

\* Conditions of statements are not looked at, whatever their type.
Typed(f, m) ==
    LET by == [e \in Range(HeadOf(f) \o BodyOf(f)) |-> Checked(e, m, NamesOf(f, m)).tree]
    IN  [f EXCEPT !.result = Each(@, by), !.terms = Each(@, by), !.body = RewrittenBody(@, by)]

=============================================================================
