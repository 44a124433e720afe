----------------------------- MODULE UnifyCorrect -----------------------------
(***************************************************************************)
(* What unification is for: a reference definition of it as the closure of *)
(* an equivalence relation, and the properties of Unify that relate the    *)
(* two.                                                                    *)
(***************************************************************************)
EXTENDS Unify

(***************************************************************************)
(* Reference: the terms a unifier of lhs and rhs must make equal.          *)
(***************************************************************************)
\* class[a] = class[b] means that a and b are equal; a class is named after its
\* oldest term.
Partitions ==
    {class \in [Addr -> Addr] : \A a \in Addr : class[a] <= a /\ class[class[a]] = class[a]}

\* A bound variable is equal to what it is bound to.
RespectsLinks(m, class) == \A a \in Addr : Bound(m, a) => class[a] = class[m[a].word]

\* If two compound terms are equal then so are their subterms.
RespectsSubterms(m, class) ==
    \A a, b \in Addr : class[a] = class[b] =>
        \A i \in DOMAIN m[a].subterms \cap DOMAIN m[b].subterms :
            class[m[a].subterms[i]] = class[m[b].subterms[i]]

\* Those that a unifier could make.
Equating ==
    {class \in Partitions :
        /\ class[given.lhs] = class[given.rhs]
        /\ RespectsLinks(given.mem, class) /\ RespectsSubterms(given.mem, class)}

\* No term is equal to both: they differ in their type, name, number of subterms
\* or value.
Differ(m, a, b) ==
    /\ m[a].type # "Variable" /\ m[b].type # "Variable"
    /\ \/ m[a].type # m[b].type \/ m[a].tag # m[b].tag
       \/ Len(m[a].subterms) # Len(m[b].subterms)
       \/ m[a].type \notin Compound /\ m[a].set /\ m[b].set /\ m[a].word # m[b].word

\* A unifier exists, if need be with infinite terms.
Consistent ==
    \E class \in Equating :
        \A a, b \in Addr : class[a] = class[b] => ~Differ(given.mem, a, b)

(***************************************************************************)
(* _DI_equals.  It is called on acyclic terms only, and no path in one is  *)
(* longer than N.                                                          *)
(***************************************************************************)
SameTerm(m, a, b, subterms) ==
    /\ m[a].type = m[b].type
    /\ \/ m[a].type = "Variable"
       \/ /\ m[a].type \in Compound
          /\ m[a].tag = m[b].tag /\ Len(m[a].subterms) = Len(m[b].subterms)
          /\ \A i \in DOMAIN m[a].subterms : subterms[<<m[a].subterms[i], m[b].subterms[i]>>]
       \/ /\ m[a].type \notin Compound \cup {"Variable"}
          /\ m[a].set = m[b].set
          /\ m[a].set => m[a].word = m[b].word

Equals(m, lhs, rhs) ==
    LET equal[n \in 0..N] ==
            [p \in Addr \X Addr |->
                n = 0 \/ SameTerm(m, Follow(m, p[1]), Follow(m, p[2]), equal[n - 1])]
    IN  equal[N][<<lhs, rhs>>]

-----------------------------------------------------------------------------

\* _DI_unify answers true only if the two terms have a unifier.
Sound == result = "true" => Consistent

AnnotatedBelow(m) ==
    {a \in Reachable(m, given.lhs) \cup Reachable(m, given.rhs) : m[a].annotated}

\* _DI_unify answers false only if there is no unifier, or annotations forbid it.
Complete == result = "false" => ~Consistent \/ AnnotatedBelow(given.mem) # {}

\* It makes nothing equal that need not be: every two terms it has linked are
\* equal in all unifiers.  This holds while it runs, too.
MostGeneral ==
    mem # given.mem => \A class \in Equating, a \in Addr : class[Follow(mem, a)] = class[a]

\* Unified terms compare equal.
UnifiedAreEqual ==
    /\ result = "true"
    /\ AcyclicFrom(mem, given.lhs) /\ AcyclicFrom(mem, given.rhs)
    => Equals(mem, given.lhs, given.rhs)

\* A term without a value becomes a bound variable, with the annotation it had;
\* what it gets bound to is not a bound variable itself.
BindsATerm ==
    \E unset, data \in Addr :
        /\ ~mem[unset].set /\ ~Bound(mem, data)
        /\ mem' = [mem EXCEPT ![unset] = mem'[unset]]
        /\ mem'[unset].type = "Variable" /\ mem'[unset].set /\ mem'[unset].word = data
        /\ mem'[unset].annotated = mem[unset].annotated

\* That is the only change to the heap, so that chains do not grow longer than
\* they must.
OnlyBinds == [][mem' # mem => BindsATerm]_vars

\* If neither term is a variable and one is annotated, it has a value, and so
\* have all its subterms, once they are unified.
AnnotatedRootsHaveValues ==
    result = "true" =>
        \A a \in {given.lhs, given.rhs} :
            LET b == Follow(given.mem, a)
                c == Follow(given.mem, IF a = given.lhs THEN given.rhs ELSE given.lhs)
            IN  /\ ~IsUnsetVar(given.mem, b) /\ ~IsUnsetVar(given.mem, c)
                /\ given.mem[b].annotated
                => \A d \in Reachable(mem, a) : mem[d].set

(***************************************************************************)
(* What the thesis says and the code does not do.                          *)
(***************************************************************************)
\* The chain of bound variables that starts in a term ends.
EveryChainEnds == \A a \in Addr : ChainEnds(mem, a)

\* Unification creates no infinite term.
NoInfiniteTerms == \A a \in Addr : ChainEnds(mem, a) => AcyclicFrom(mem, a)

\* Annotated terms have values when unification has succeeded.
AnnotatedHaveValues ==
    result = "true" => \A a \in AnnotatedBelow(mem) : VerifyAnnotation(mem, a)

\* Unification fails only if the unified terms would differ, or if an annotated
\* one would have no value in the end.
CheckedInTheEnd ==
    result = "false" =>
        \/ ~Consistent
        \/ \E class \in Equating, a \in AnnotatedBelow(given.mem) :
              \E b \in Reachable(given.mem, a) :
                  ~ \E c \in Addr : /\ class[c] = class[b] /\ given.mem[c].set
                                  /\ given.mem[c].type # "Variable"

=============================================================================
