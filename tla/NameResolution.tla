--------------------------- MODULE NameResolution ---------------------------
(***************************************************************************)
(* The pass NameResolution: a walk over the syntax tree that keeps the     *)
(* definitions of each open scope, and an index, scopeOf, of the scope in  *)
(* which a name was defined last. A definition remembers the index it      *)
(* replaced, and leaving a scope puts that back.                           *)
(*                                                                         *)
(* The tree is not given in advance: the walk chooses the next node among  *)
(* those the grammar allows at its place. Positions in scopes are counted  *)
(* from 1, so the code's -1 is 0 here (NoScope). The map definitionTerms   *)
(* is left out: no rule of the grammar makes a DefinitionTerm.             *)
(***************************************************************************)
EXTENDS Integers, Sequences

CONSTANTS
    Names,
    Builtins,           \* names of the builtin types
    Undefined,          \* "Undefined type" or "Undefined term" was reported
    Wild,               \* the definition was read outside of any scope
    Crash,              \* the compiler crashed on reading it
    Absent,             \* a name that is no key of a map
    MaxScopes,          \* bound: open scopes
    MaxDefinitions      \* bound: variables of the program

Definitions == [sort : {"type", "term"}, name : Names, serial : 0..MaxDefinitions]

ASSUME NamesAssumption == Builtins \subseteq Names
ASSUME AnswersAssumption == /\ {Undefined, Wild, Crash, Absent} \cap Definitions = {}
                            /\ Crash \notin {Undefined, Wild}
                            /\ Absent \notin Nat \cup [def : Definitions, old : Nat]
ASSUME BoundsAssumption == MaxScopes \in Nat /\ MaxDefinitions \in Nat

VARIABLES
    scopes,     \* open scopes, outermost first; each has a table of types and one of terms
    scopeOf,    \* name -> position of the scope it was defined in last
    visits,     \* the visitor that opened each scope: its kind, and how many blocks it has visited
    answer,     \* what the last lookup returned
    errors,     \* an error has been reported
    serial      \* number of variables defined so far; tells definitions apart

vars == <<scopes, scopeOf, visits, answer, errors, serial>>

NoScope == 0
NoNames == [n \in Names |-> Absent]
EmptyScope == [type |-> NoNames, term |-> NoNames]

Stopped == answer = Crash

----------------------------------------------------------------------------
(* Scopes *)

Defined(scope) == {n \in Names : scope.type[n] # Absent \/ scope.term[n] # Absent}

Where(n) == IF scopeOf[n] = Absent THEN NoScope ELSE scopeOf[n]

\* getDefinition. The index is used without a test: with NoScope, the memory in
\* front of the vector is read as a scope; with a name of the other sort, the end
\* of a table is dereferenced.
Lookup(sort, n) ==
    IF scopeOf[n] = Absent THEN {Undefined}
    ELSE IF scopeOf[n] = NoScope THEN {Undefined, Wild, Crash}
    ELSE LET entry == scopes[scopeOf[n]][sort][n]
         IN  IF entry # Absent THEN {entry.def} ELSE {Crash}

\* recordDefinition of a variable in the innermost scope.
\* Mutant: a definition replaces one in the same scope.
Last == scopes[Len(scopes)]
NoRedefinition(n) == FALSE
Redefinition(n) == Last.term[n] # Absent

\* Mutants: the entry forgets the outer definition; it keeps the end of the map.
Shadowing(n, old) == [def |-> [sort |-> "term", name |-> n, serial |-> serial + 1], old |-> old]
ForgetfulEntry(n) == Shadowing(n, NoScope)
UntestedEntry(n)  == Shadowing(n, scopeOf[n])
NewEntry(n)       == Shadowing(n, Where(n))

Record(n) ==
    /\ scopes' = [scopes EXCEPT ![Len(scopes)] =
                     [type |-> Last.type, term |-> [Last.term EXCEPT ![n] = NewEntry(n)]]]
    /\ scopeOf' = [scopeOf EXCEPT ![n] = Len(scopes)]

\* The destructor of ScopeGuard: the tables are undone one after the other.
\* Mutant: variables keep the index of the scope that is gone.
RestoredTypes ==
    [n \in Names |-> IF Last.type[n] # Absent THEN Last.type[n].old ELSE scopeOf[n]]
Restored ==
    [n \in Names |-> IF Last.term[n] # Absent THEN Last.term[n].old
                     ELSE IF Last.type[n] # Absent THEN Last.type[n].old
                     ELSE scopeOf[n]]

----------------------------------------------------------------------------
(* The shape of the tree *)

Visit(kind) == [kind |-> kind, at |-> 0]
Visitor == visits[Len(visits)]

\* Blocks that a visitor goes through in this order, each in a scope of its own:
\* an IfStatement after its condition, a ForStatement after what precedes them.
Parts == [if |-> <<"then", "else">>, for |-> <<"test">>, test |-> <<"last", "body">>]
Bodies == {"declarative", "imperative"}
Statements == {"imperative", "then", "else", "body"}
Kinds == {"module", "function", "if", "for", "test", "last"} \cup Bodies \cup Statements

\* Expressions stand in front of the blocks, or among the statements.
HasExpressions == Visitor.kind # "module" /\ Visitor.at = 0

MayEnter(kind) ==
    \/ Visitor.kind = "module" /\ kind = "function"
    \/ Visitor.kind = "function" /\ Visitor.at = 0 /\ kind \in Bodies
    \/ Visitor.kind \in Statements /\ kind \in {"if", "for"}
    \/ /\ Visitor.kind \in DOMAIN Parts
       /\ Visitor.at < Len(Parts[Visitor.kind])
       /\ kind = Parts[Visitor.kind][Visitor.at + 1]

\* An extern function has no body to visit.
MayLeave == /\ Visitor.kind # "module"
            /\ Visitor.kind \in DOMAIN Parts => Visitor.at = Len(Parts[Visitor.kind])

\* Statements and functions may follow each other, other blocks are counted.
Entered == IF Visitor.kind \in Statements THEN Visitor
           ELSE [Visitor EXCEPT !.at = IF Visitor.kind = "module" THEN 1 ELSE @ + 1]

----------------------------------------------------------------------------
(* The walk *)

Predefined(n) == [def |-> [sort |-> "type", name |-> n, serial |-> 0], old |-> NoScope]
PredefinedScope(types) ==
    [type |-> [n \in Names |-> IF n \in types THEN Predefined(n) ELSE Absent], term |-> NoNames]

\* The builtin types and the records are the first scope.
Init == \E records \in SUBSET Names :
            /\ LET types == Builtins \cup records
               IN  /\ scopes = <<PredefinedScope(types)>>
                   /\ scopeOf = [n \in Names |-> IF n \in types THEN 1 ELSE Absent]
            /\ errors = (records \cap Builtins # {})
            /\ visits = <<Visit("module")>>
            /\ answer = Undefined
            /\ serial = 0

\* makeNewScope
EnterScope(kind) ==
    /\ ~Stopped
    /\ MayEnter(kind)
    /\ Len(scopes) < MaxScopes
    /\ scopes' = Append(scopes, EmptyScope)
    /\ visits' = Append([visits EXCEPT ![Len(visits)] = Entered], Visit(kind))
    /\ UNCHANGED <<scopeOf, answer, errors, serial>>

\* The guard of a visitor goes out of scope.
LeaveScope ==
    /\ ~Stopped
    /\ MayLeave
    /\ scopeOf' = Restored
    /\ scopes' = SubSeq(scopes, 1, Len(scopes) - 1)
    /\ visits' = SubSeq(visits, 1, Len(visits) - 1)
    /\ UNCHANGED <<answer, errors, serial>>

\* NameReferenceExpression
Refer(n) ==
    /\ ~Stopped
    /\ HasExpressions
    /\ answer' \in Lookup("term", n)
    /\ errors' = (errors \/ answer' = Undefined)
    /\ UNCHANGED <<scopes, scopeOf, visits, serial>>

\* NamedType in a field of a record; those are visited before the functions.
NameField(t) ==
    /\ ~Stopped
    /\ Visitor.kind = "module" /\ Visitor.at = 0
    /\ answer' \in Lookup("type", t)
    /\ errors' = (errors \/ answer' = Undefined)
    /\ UNCHANGED <<scopes, scopeOf, visits, serial>>

\* AtomicTermDefinitionExpression: its NamedType, then recordDefinition.
Define(t, n) ==
    /\ ~Stopped
    /\ HasExpressions
    /\ serial < MaxDefinitions
    /\ answer' \in Lookup("type", t)
    /\ errors' = (errors \/ answer' = Undefined \/ (answer' # Crash /\ Redefinition(n)))
    /\ IF answer' # Crash /\ ~Redefinition(n)
       THEN Record(n) /\ serial' = serial + 1
       ELSE UNCHANGED <<scopes, scopeOf, serial>>
    /\ UNCHANGED visits

Next == \/ \E kind \in Kinds : EnterScope(kind)
        \/ LeaveScope
        \/ \E n \in Names : Refer(n)
        \/ \E t \in Names : NameField(t)
        \/ \E t, n \in Names : Define(t, n)

Spec == Init /\ [][Next]_vars

----------------------------------------------------------------------------
(* Properties *)

Entry(sort) == [def : [sort : {sort}, name : Names, serial : 0..MaxDefinitions], old : Nat]
Table(sort) == [Names -> Entry(sort) \cup {Absent}]
Scope == [type : Table("type"), term : Table("term")]

\* The members have their types, there is one scope for each visitor that opened
\* one (and for the module), and types are defined in the outermost scope only,
\* variables in the other ones.
TypeOK ==
    /\ scopes \in Seq(Scope)
    /\ scopeOf \in [Names -> Nat \cup {Absent}]
    /\ visits \in Seq([kind : Kinds, at : Nat])
    /\ Len(visits) = Len(scopes) /\ Len(scopes) > 0
    /\ \A i \in DOMAIN visits :
          IF visits[i].kind = "module" THEN i = 1 /\ scopes[i].term = NoNames
                                       ELSE i > 1 /\ scopes[i].type = NoNames
    /\ answer \in Definitions \cup {Undefined, Wild, Crash}
    /\ errors \in BOOLEAN
    /\ serial \in 0..MaxDefinitions

\* k is the position of the innermost of the first m scopes that defines n,
\* or NoScope if none of them does.
Innermost(n, m, k) ==
    /\ k \in 0..m
    /\ k # NoScope => n \in Defined(scopes[k])
    /\ \A j \in (k + 1)..m : n \notin Defined(scopes[j])

\* scopeOf names, for every name, the innermost scope that defines it: after any
\* sequence of definitions, redefinitions and scopes that were entered and left.
IndexExact == \A n \in Names : Innermost(n, Len(scopes), Where(n))

\* What a definition puts back when its scope is left is the innermost scope
\* outside of its own that defines the name.
ChainsExact ==
    \A i \in DOMAIN scopes, sort \in {"type", "term"} :
        \A n \in Names : scopes[i][sort][n] # Absent => Innermost(n, i - 1, scopes[i][sort][n].old)

\* The walk implements the environments of LexicalScopes.
Meaning(scope) ==
    [n \in Names |-> IF scope.term[n] # Absent THEN scope.term[n].def
                     ELSE IF scope.type[n] # Absent THEN scope.type[n].def
                     ELSE Absent]

Lexical == INSTANCE LexicalScopes WITH
    Failures <- {Undefined, Wild, Crash},
    env <- [i \in DOMAIN scopes |-> Meaning(scopes[i])],
    stopped <- Stopped

\* A lookup that returns a definition returns the innermost one in scope, and
\* fails only if that is not one of the right sort.
ResolvesLexically == Lexical!Spec

\* A name that is not defined in any open scope is reported as such.
UndefinedIsReported ==
    [][\A n \in Names : Refer(n) /\ (\A i \in DOMAIN scopes : n \notin Defined(scopes[i]))
                        => answer' = Undefined]_vars

=============================================================================
