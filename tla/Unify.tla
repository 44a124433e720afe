-------------------------------- MODULE Unify --------------------------------
(***************************************************************************)
(* Unification of term graphs (runtime/runtime.cxx, _DI_unify), and the    *)
(* comparison of terms (_DI_equals).  The recursion of _DI_unify is the    *)
(* stack todo: a pair of terms to unify, or the check of annotations that  *)
(* a call makes on its own pair before it returns true.                    *)
(***************************************************************************)
EXTENDS Integers, Sequences, FiniteSets, Functions

CONSTANTS
    N,              \* number of representations
    Values,         \* integers a term may hold
    Junk,           \* an uninitialised word
    Types,          \* the kinds of terms in the heap
    Tags,           \* names of symbols and records, pointee types of pointers
    MaxAnnotated,   \* annotated representations (bound for model checking)
    MaxTodo         \* depth of the recursion (bound for model checking)

ASSUME ConstantsAssumption ==
    N \in Nat \ {0, 1} /\ Tags # {} /\ MaxAnnotated \in Nat /\ MaxTodo \in Nat

Addr     == 1..N
TypeIds  == {"Int", "Bool", "Ptr", "Record", "FunctionSymbol", "Variable"}
Compound == {"Record", "FunctionSymbol"}

\* A representation.  The word is the value of an Int, Bool or Ptr and what a
\* bound Variable is bound to; tag and subterms are fixed when it is allocated.
Cell == [type : TypeIds, set : BOOLEAN, annotated : BOOLEAN,
         word : Addr \cup Values \cup {Junk}, tag : Tags, subterms : Seq(Addr)]

(***************************************************************************)
(* Terms that a program may have built before it unifies: a subterm is     *)
(* older than the term it is part of, and so is what a variable is bound   *)
(* to.  Function symbols have up to two subterms.                          *)
(***************************************************************************)
Cells(types, set, words, tags, subterms) ==
    [type : Types \cap types, set : {set}, annotated : BOOLEAN,
     word : words, tag : tags, subterms : subterms]

CellsAt(a) ==
    LET older == 1..(a - 1)
        noTag == {CHOOSE t \in Tags : TRUE}
    IN  Cells({"Int", "Bool", "Variable"}, FALSE, {Junk}, noTag, {<<>>})
        \cup Cells({"Ptr"}, FALSE, {Junk}, Tags, {<<>>})
        \cup Cells({"Int", "Bool"}, TRUE, Values, noTag, {<<>>})
        \cup Cells({"Ptr"}, TRUE, older, Tags, {<<>>})
        \cup Cells({"Variable"}, TRUE, older, noTag, {<<>>})
        \cup Cells(Compound, TRUE, {Junk}, Tags,
                   {<<>>} \cup {<<b>> : b \in older} \cup (older \X older))

Annotated(m) == Cardinality({a \in DOMAIN m : m[a].annotated})

HeapsOf(n) ==
    LET upTo[k \in 0..n] ==
            IF k = 0 THEN {<<>>} ELSE {Append(h, cell) : h \in upTo[k - 1], cell \in CellsAt(k)}
    IN  upTo[n]

VARIABLES
    mem,      \* the heap
    todo,     \* what is left to do, the innermost call first
    result,   \* "running", or what _DI_unify returned
    given     \* history: the heap and the two terms _DI_unify was called with

vars == <<mem, todo, result, given>>

(***************************************************************************)
(* Walking the heap                                                        *)
(***************************************************************************)
Bound(m, a) == m[a].type = "Variable" /\ m[a].set

\* followSetVars: there are no more than N representations on a chain.
Follow(m, a) ==
    LET step(b) == IF Bound(m, b) THEN m[b].word ELSE b
        after[n \in 0..N] == IF n = 0 THEN a ELSE step(after[n - 1])
    IN  after[N]

\* If not, followSetVars does not return.
ChainEnds(m, a) == ~Bound(m, Follow(m, a))

Links(m, a) == IF Bound(m, a) THEN {m[a].word} ELSE Range(m[a].subterms)

Reachable(m, a) ==
    LET step(S) == S \cup UNION {Links(m, b) : b \in S}
        within[n \in 0..N] == IF n = 0 THEN {a} ELSE step(within[n - 1])
    IN  within[N]

AcyclicFrom(m, a) == \A b \in Reachable(m, a) : \A c \in Links(m, b) : b \notin Reachable(m, c)

IsUnsetVar(m, a) == m[a].type = "Variable" /\ ~m[a].set

\* verifyAnnotation: an annotated term and all its subterms have values.  The
\* memory of verifyAnnotationImpl only saves work on an acyclic term; on a
\* cyclic one it does not return.
VerifyAnnotation(m, a) == m[a].annotated => \A b \in Reachable(m, a) : m[b].set

(***************************************************************************)
(* recordInSubstitution                                                    *)
(***************************************************************************)
\* Mutants: the annotation is lost with the rest of the old representation;
\* the word of the old representation stays.
SubstituteBare(m, unset, data) ==
    [m EXCEPT ![unset].type = "Variable", ![unset].set = TRUE, ![unset].word = data,
              ![unset].subterms = <<>>, ![unset].annotated = FALSE]
SubstituteType(m, unset, data) ==
    [m EXCEPT ![unset].type = "Variable", ![unset].set = TRUE, ![unset].subterms = <<>>]
Substitute(m, unset, data) ==
    [m EXCEPT ![unset].type = "Variable", ![unset].set = TRUE, ![unset].word = data,
              ![unset].subterms = <<>>]

Init ==
    /\ \E older \in HeapsOf(N - 1), last \in CellsAt(N) : mem = Append(older, last)
    /\ Annotated(mem) <= MaxAnnotated
    /\ result = "running"
    \* These are all pairs, for the heap may hold terms neither reaches, and one
    \* may be a variable bound to the other.
    /\ \E roots \in {<<N, N - 1>>, <<N - 1, N>>} :
          /\ todo = <<[op |-> "unify", lhs |-> roots[1], rhs |-> roots[2]]>>
          /\ given = [mem |-> mem, lhs |-> roots[1], rhs |-> roots[2]]

Active(op) == result = "running" /\ todo # <<>> /\ Head(todo).op = op

Lhs == Follow(mem, Head(todo).lhs)
Rhs == Follow(mem, Head(todo).rhs)

\* A call of _DI_unify has followed its arguments.
Unifying ==
    /\ Active("unify")
    /\ ChainEnds(mem, Head(todo).lhs) /\ ChainEnds(mem, Head(todo).rhs)

BothTerms == Unifying /\ ~IsUnsetVar(mem, Lhs) /\ ~IsUnsetVar(mem, Rhs)

\* The outcome of the checks before the values are looked at: the types, what
\* pointers point to, the names and the numbers of subterms.
SameShape(a, b) ==
    /\ mem[a].type = mem[b].type /\ mem[a].tag = mem[b].tag
    /\ Len(mem[a].subterms) = Len(mem[b].subterms)

Then(m, work) == mem' = m /\ todo' = work \o Tail(todo) /\ UNCHANGED <<result, given>>
Return(answer) == result' = answer /\ UNCHANGED <<mem, todo, given>>

\* Two calls on the subterms in order, then the check of the annotations.
\* Mutants: only the first subterms are unified; each one with the first.
FirstSubterms(a, b) ==
    [i \in 1..(IF mem[a].subterms = <<>> THEN 0 ELSE 1) |->
        [op |-> "unify", lhs |-> mem[a].subterms[1], rhs |-> mem[b].subterms[1]]]
CrossedSubterms(a, b) ==
    [i \in DOMAIN mem[a].subterms |->
        [op |-> "unify", lhs |-> mem[a].subterms[i], rhs |-> mem[b].subterms[1]]]
Subterms(a, b) ==
    [i \in DOMAIN mem[a].subterms |->
        [op |-> "unify", lhs |-> mem[a].subterms[i], rhs |-> mem[b].subterms[i]]]

Verification(a, b) == <<[op |-> "verify", lhs |-> a, rhs |-> b]>>

SameVariable == Unifying /\ IsUnsetVar(mem, Lhs) /\ Lhs = Rhs /\ Then(mem, <<>>)

\* hasInStructure, called on a variable and a term that is none: it answers
\* false if it returns, for its search compares none of the subterms it visits
\* with the variable.
SearchReturns(structure) == \A a \in Reachable(mem, structure) : ChainEnds(mem, a)

\* A variable and another term.
BindLhs == /\ Unifying /\ IsUnsetVar(mem, Lhs) /\ Lhs # Rhs
           /\ SearchReturns(Rhs)
           /\ Then(Substitute(mem, Lhs, Rhs), <<>>)

BindRhs == /\ Unifying /\ ~IsUnsetVar(mem, Lhs) /\ IsUnsetVar(mem, Rhs)
           /\ SearchReturns(Lhs)
           /\ Then(Substitute(mem, Rhs, Lhs), <<>>)

\* A term without a value becomes bound to the other one, whatever that is.
BindTerm ==
    LET swap  == ~mem[Rhs].set
        unset == IF swap THEN Rhs ELSE Lhs
        data  == IF swap THEN Lhs ELSE Rhs
    IN  /\ BothTerms /\ SameShape(Lhs, Rhs) /\ ~mem[unset].set
        /\ Then(Substitute(mem, unset, data), Verification(unset, data))

BothSet == BothTerms /\ SameShape(Lhs, Rhs) /\ mem[Lhs].set /\ mem[Rhs].set

SameValue ==
    /\ BothSet /\ mem[Lhs].type \notin Compound /\ mem[Lhs].word = mem[Rhs].word
    /\ Then(mem, Verification(Lhs, Rhs))

Decompose ==
    /\ BothSet /\ mem[Lhs].type \in Compound
    /\ Len(todo) + Len(mem[Lhs].subterms) <= MaxTodo
    /\ Then(mem, Subterms(Lhs, Rhs) \o Verification(Lhs, Rhs))

Clash ==
    /\ BothTerms
    /\ \/ ~SameShape(Lhs, Rhs)
       \/ BothSet /\ mem[Lhs].type \notin Compound /\ mem[Lhs].word # mem[Rhs].word
    /\ Return("false")

\* The operands of "verifyAnnotation(lhs) && verifyAnnotation(rhs)".
\* Mutant: only the left one.
VerifyLeft(a, b)  == VerifyAnnotation(mem, a)
VerifyBoth(a, b)  == VerifyAnnotation(mem, a) /\ VerifyAnnotation(mem, b)

Verify ==
    LET a == Head(todo).lhs
        b == Head(todo).rhs
    IN  /\ Active("verify")
        /\ mem[a].annotated => AcyclicFrom(mem, a)
        /\ VerifyAnnotation(mem, a) /\ mem[b].annotated => AcyclicFrom(mem, b)
        /\ IF VerifyBoth(a, b) THEN Then(mem, <<>>) ELSE Return("false")

Succeed == result = "running" /\ todo = <<>> /\ Return("true")

Next ==
    \/ SameVariable \/ BindLhs \/ BindRhs \/ BindTerm \/ SameValue
    \/ Decompose \/ Clash \/ Verify \/ Succeed

Spec == Init /\ [][Next]_vars

\* Everything has its type, and a bound variable is bound to a term.
TypeOK ==
    /\ mem \in [Addr -> Cell] /\ \A a \in Addr : Bound(mem, a) => mem[a].word \in Addr
    /\ todo \in Seq([op : {"unify", "verify"}, lhs : Addr, rhs : Addr])
    /\ result \in {"running", "true", "false"}
    /\ given \in [mem : [Addr -> Cell], lhs : Addr, rhs : Addr]

=============================================================================
