---------------------------- MODULE NameMangling ----------------------------
(***************************************************************************)
(* The names under which functions are exported to other modules, where a  *)
(* symbol stands for all functions of a signature.  A symbol is the        *)
(* sequence of the pieces that NameMangler puts one after another; a       *)
(* length in front of a name keeps it apart from what follows, and a count *)
(* of terms begins with a digit, as no other piece does.                   *)
(***************************************************************************)
EXTENDS Statements

CONSTANT Visits      \* how many nodes are visited for a symbol, at most
ASSUME VisitsAssumption == Visits \in Nat

(***************************************************************************)
(* What a visitor of NameMangler adds, and which nodes it goes on to       *)
(***************************************************************************)
\* A node "terms" stands for the arguments of a definition.
TermsOf(f) == [is |-> "terms", terms |-> f.terms]

\* The type of a field as it was written, where a name stands for a record or builtin.
Field(type, records) == [is |-> "field", type |-> type, records |-> records]
NamedType(t, records) ==
    IF t.is # "named" THEN [t EXCEPT !.of = Field(@, records)]
    ELSE IF t.name \in DOMAIN records THEN [is |-> "record", name |-> t.name, records |-> records]
    ELSE [is |-> t.name]

\* Of a variable and a field only the type is visited.
Bare(n) == CASE n.is = "definition" -> n.type
             [] n.is = "field" -> NamedType(n.type, n.records)
             [] OTHER -> n

\* These types may be written, but there is no visitor for them.
Untraced == {[is |-> "dynamic"], [is |-> "function"]}

\* Mutant: the number of arguments is left out.
Uncounted(e) == <<"S", e.name>>
Counted(e)   == <<"S", e.name, Len(e.operands)>>

Piece(n) ==
    IF n \in Untraced THEN <<>>
    ELSE CASE n.is = "int"   -> <<"I">>
           [] n.is = "bool"  -> <<"B">>
           [] n.is = "var"   -> <<"V">>
           [] n.is = "annotated" -> <<"A">>
           [] n.is = "pointer"   -> <<"P">>
           [] n.is = "record"    -> <<"R", n.name, Len(n.records[n.name])>>
           [] n.is = "function"  -> Counted(n)
           [] n.is = "terms"     -> <<"count", Len(n.terms)>>
           [] OTHER -> <<>>

Inner(n) ==
    IF n \in Untraced THEN <<>>
    ELSE CASE n.is \in {"annotated", "pointer"} -> <<n.of>>
           [] n.is = "record"   -> [i \in 1..Len(n.records[n.name]) |-> Field(n.records[n.name][i].type, n.records)]
           [] n.is = "function" -> n.operands
           [] n.is = "terms"    -> n.terms
           [] OTHER -> <<>>

(***************************************************************************)
(* The nodes visited one after another: what the visitors that are in      *)
(* progress have left to visit, and the name so far, after n nodes.        *)
(***************************************************************************)
VisitNext(walk) ==
    IF walk.left = <<>> THEN walk
    ELSE LET n == Bare(Head(walk.left))
         IN  [left |-> Inner(n) \o Tail(walk.left), name |-> walk.name \o Piece(n)]

Walk(list) ==
    LET walk[n \in 0..Visits] ==
          IF n = 0 THEN [left |-> list, name |-> <<>>] ELSE VisitNext(walk[n - 1])
    IN  walk

\* No result is visited as one of type var.
ResultOf(f) ==
    IF f.of = "declarative" THEN <<>>
    ELSE IF f.result = <<>> THEN <<[is |-> "var"]>> ELSE f.result
Signature(f) == Append(ResultOf(f), TermsOf(f))

\* NameMangler does not end if a record in the signature refers to itself, through
\* a pointer or not: then there is always more to visit.
NameNeverEnds(f) == Walk(Signature(f))[Visits].left # <<>>

Symbol(f) ==
    <<IF f.of = "declarative" THEN "DI_D" ELSE "DI_I", f.name>> \o Walk(Signature(f))[Visits].name

\* The functions that are exported: those that are not imported.
Exported == {f \in DOMAIN made : made[f].body.is \in {"goals", "block"}}

-----------------------------------------------------------------------------

\* The nodes visited, and whether one of them adds nothing to the symbol: a name that
\* refers to another argument, or one of the types that are not visited.
NodesVisited(list) ==
    {Bare(Head(Walk(list)[n].left)) : n \in {k \in 0..Visits - 1 : Walk(list)[k].left # <<>>}}
LeavesNoTrace(list) == \E n \in NodesVisited(list) : Piece(n) = <<>>

\* Two lists of trees are alike if, visited in the same order, each node of one is of the
\* kind of the other, with as many nodes below it; the same record if it is one, and a
\* function term of the same name.
AlikeNodes(n, m) ==
    /\ n.is = m.is /\ Len(Inner(n)) = Len(Inner(m))
    /\ n.is = "record" => n = m
    /\ n.is = "function" => n.name = m.name
AreAlike(l, r) ==
    \A n \in 0..Visits :
        LET left == Walk(l)[n].left  right == Walk(r)[n].left
        IN  /\ Len(left) = Len(right)
            /\ n # Visits /\ left # <<>> => AlikeNodes(Bare(Head(left)), Bare(Head(right)))

\* Functions are exported under one symbol only if a call could mean either: they are of
\* one kind, have the same name, and arguments and a result of the same types.  Not so
\* if a part of a signature leaves no trace in the symbol.
DistinctSymbols ==
    \A f, g \in Exported :
        LET l == Signature(made[f])  r == Signature(made[g])
        IN  f # g /\ Symbol(made[f]) = Symbol(made[g]) /\ ~LeavesNoTrace(l) /\ ~LeavesNoTrace(r)
            => made[f].of = made[g].of /\ made[f].name = made[g].name /\ AreAlike(l, r)

\* Nodes N, with those below them, in which a record is known by its name, as
\* RecordDefinitionsCollector makes sure; and definitions T with such signatures.
AreNodes(N) ==
    /\ \A n \in N : Inner(Bare(n)) \in Seq(N)
    /\ \A n, m \in {Bare(k) : k \in N} : n.is = "record" /\ m.is = "record" /\ n.name = m.name => n = m
HasNodes(T, N) ==
    /\ AreNodes(N)
    /\ \A f \in T :
          /\ f.of \in {"declarative", "imperative"} /\ Signature(f) \in Seq(N)
          /\ Len(Signature(f)) = IF f.of = "declarative" THEN 1 ELSE 2

=============================================================================
