------------------------------ MODULE SyntaxTree ------------------------------
(***************************************************************************)
(* Syntax trees as the parser makes them, and the order in which visitors  *)
(* descend.  Every expression has its operands, in the order in which they *)
(* are visited; what later passes find out about a node has a field from   *)
(* the start: `call' of a function term, `index' of a member, `pointee' of *)
(* an address.                                                             *)
(***************************************************************************)
EXTENDS Integers, Sequences, SequencesExt

Unary  == {"call", "quote", "not", "negate", "dereference", "address", "member"}
Arithmetic == {"add", "subtract", "multiply", "divide", "modulo"}
Relations  == {"less", "greater", "less or equal", "greater or equal"}
Equalities == {"equal", "not equal"}
Connectives == {"or", "and"}
Binary == {"unify", "assign"} \cup Arithmetic \cup Relations \cup Equalities \cup Connectives

(***************************************************************************)
(* What the grammar allows                                                 *)
(***************************************************************************)
RECURSIVE IsType(_), IsExpression(_), IsTerm(_), IsSyntax(_)
IsType(t) ==
    \/ t.is = "named"
    \/ t.is \in {"annotated", "pointer"} /\ IsType(t.of)

IsExpression(e) ==
    /\ \A i \in DOMAIN e.operands : IsExpression(e.operands[i])
    /\ \/ e.is \in {"int", "bool", "name"} /\ e.operands = <<>>
       \/ e.is = "definition" /\ e.operands = <<>> /\ IsType(e.type)
       \/ e.is = "function" /\ ~e.call
       \/ e.is \in Unary /\ Len(e.operands) = 1
       \/ e.is \in Binary /\ Len(e.operands) = 2

\* The terms of heads.
IsTerm(e) ==
    /\ e.is \in {"name", "definition", "function"}
    /\ \A i \in DOMAIN e.operands : IsTerm(e.operands[i])
    /\ IsExpression(e)

AllAre(Is(_), list) == \A i \in DOMAIN list : Is(list[i])
AtMostOne(list)     == Len(list) <= 1

\* Statements.  The condition of a `for' may be missing.
IsSyntax(s) ==
    \/ s.is \in {"break", "continue"}
    \/ s.is = "expression" /\ IsExpression(s.of)
    \/ /\ s.is = "if" /\ IsExpression(s.condition)
       /\ AllAre(IsSyntax, s.then) /\ AllAre(IsSyntax, s.else)
    \/ /\ s.is = "for" /\ AtMostOne(s.condition) /\ AllAre(IsSyntax, s.body)
       /\ AllAre(IsExpression, s.init \o s.condition \o s.last)

\* A definition of either kind may have any body.  `void' is no result.
IsDefinition(f) ==
    /\ f.of = "imperative" \/ (f.of = "declarative" /\ f.result = <<>>)
    /\ AtMostOne(f.result) /\ AllAre(IsTerm, f.result \o f.terms)
    /\ \/ f.body.is = "goals" /\ AllAre(IsExpression, f.body.list)
       \/ f.body.is = "block" /\ AllAre(IsSyntax, f.body.list)
       \/ f.body.is \in {"extern DI", "extern C"}

IsModule(m) ==
    /\ \A i \in DOMAIN m.records : \A j \in DOMAIN m.records[i].fields : IsType(m.records[i].fields[j].type)
    /\ AllAre(IsDefinition, m.functions)

(***************************************************************************)
(* AstVisitorBase                                                          *)
(***************************************************************************)
RECURSIVE Within(_), ExpressionsOf(_), Rewritten(_, _)

\* What Of gives for each element.
OfEach(Of(_), list) == FoldLeft(LAMBDA all, e : Append(all, Of(e)), <<>>, list)

\* The expressions that make up one, itself included.
Within(e) == {e} \cup UNION {Within(e.operands[i]) : i \in DOMAIN e.operands}

\* The expressions of statements: the body of a `for' is visited last.
ExpressionsOf(list) ==
    FlattenSeq([i \in DOMAIN list |->
        CASE list[i].is = "expression" -> <<list[i].of>>
          [] list[i].is = "if"  -> <<list[i].condition>> \o ExpressionsOf(list[i].then) \o ExpressionsOf(list[i].else)
          [] list[i].is = "for" -> list[i].init \o list[i].condition \o list[i].last \o ExpressionsOf(list[i].body)
          [] OTHER -> <<>>])

HeadOf(f) == f.result \o f.terms
BodyOf(f) == CASE f.body.is = "block" -> ExpressionsOf(f.body.list)
               [] f.body.is = "goals" -> f.body.list
               [] OTHER -> <<>>

\* Statements with every expression replaced: what a pass does that stores
\* something in the nodes.
Each(list, by) == [i \in DOMAIN list |-> by[list[i]]]
Rewritten(list, by) ==
    [i \in DOMAIN list |->
        CASE list[i].is = "expression" -> [list[i] EXCEPT !.of = by[@]]
          [] list[i].is = "if"  -> [list[i] EXCEPT !.condition = by[@],
                                       !.then = Rewritten(@, by), !.else = Rewritten(@, by)]
          [] list[i].is = "for" -> [list[i] EXCEPT !.init = Each(@, by), !.condition = Each(@, by),
                                       !.last = Each(@, by), !.body = Rewritten(@, by)]
          [] OTHER -> list[i]]

RewrittenBody(body, by) ==
    CASE body.is = "block" -> [body EXCEPT !.list = Rewritten(@, by)]
      [] body.is = "goals" -> [body EXCEPT !.list = Each(@, by)]
      [] OTHER -> body

=============================================================================
