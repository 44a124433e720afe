----------------------------- MODULE MCResolution -----------------------------
(***************************************************************************)
(* A family of small programs for TLC: main calls p, which resolves goals  *)
(* and makes calls of q and r, q in turn of r, and r is made of facts and  *)
(* of an extern "C" predicate.                                             *)
(***************************************************************************)
EXTENDS ResolutionCorrect

CONSTANTS One, Two

GoalOf(name) == [op |-> "goal", name |-> name]
CallOf(name) == [op |-> "call", name |-> name]
UnifyWith(v) == [op |-> "unify", value |-> v]
CCode == [op |-> "native"]

Define(name, params, bodies) ==
    {[name |-> name, param |-> param, body |-> body] : param \in params, body \in bodies}

Fact(v) == [name |-> "r", param |-> v, body |-> <<>>]
Foreign == [name |-> "r", param |-> "X", body |-> <<CCode, UnifyWith(One)>>]

\* A call or unification in a declarative body is part of the goal after it.
Main == Define("p", {"other"},
               {<<GoalOf("q"), GoalOf("r")>>, <<CallOf("q"), CallOf("r")>>, <<CallOf("q"), UnifyWith(One)>>}
               \cup {<<GoalOf("q"), s, GoalOf("r")>> : s \in {CallOf("q"), CallOf("r"), UnifyWith(One)}})
Middle == Define("q", {"X", One},
                 {<<>>, <<GoalOf("r")>>, <<CallOf("r")>>, <<GoalOf("r"), CallOf("r"), GoalOf("r")>>})
Leaf == {<<Fact(One), Foreign>>, <<Foreign, Fact(One)>>, <<Fact(Two), Fact(One)>>, <<Foreign, Foreign>>}

Family == {<<p, q1, q2>> \o leaf : p \in Main, q1, q2 \in Middle, leaf \in Leaf}

\* The last clauses of the sample program try-failed-workaround.di, when One is
\* an index of an edge and Two is the number of edges:
\*     iterate(X) :- lt(X), path($edge(X));
Sample ==
    {<<[name |-> "iterate", param |-> "X",
        body |-> <<GoalOf("lt"), CallOf("edge"), GoalOf("path")>>],
       [name |-> "lt",   param |-> One, body |-> <<>>],
       [name |-> "edge", param |-> "X", body |-> <<CCode>>],
       [name |-> "path", param |-> "X", body |-> <<>>]>>}

\* The sample says of its C function edge: "edge outgoing from vertex,
\* 0 <= index < edges(vertex)".
IndexInRange ==
    \A i \in 2..Len(stack) :
        stack[i].at = "native" /\ program[stack[i - 1].clause].name = "edge"
        => Follow(store, stack[i - 1].x) = One

=============================================================================
