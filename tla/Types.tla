--------------------------------- MODULE Types ---------------------------------
(***************************************************************************)
(* Types, as TypeChecking tells them apart and later passes find them in   *)
(* the tree.  A record is known by its name, and its type goes with the    *)
(* definitions of all records of the module: it may refer to itself, or be *)
(* a part of itself.                                                       *)
(***************************************************************************)
EXTENDS SyntaxTree

Builtin == {"int", "bool", "var", "dynamic", "function"}
IntType      == [is |-> "int"]
BoolType     == [is |-> "bool"]
DynamicType  == [is |-> "dynamic"]
FunctionType == [is |-> "function"]
Pointer(t) == [is |-> "pointer", of |-> t]

\* What RecordDefinitionsCollector has collected: the fields of each name.
RecordsOf(m) == [n \in {r.name : r \in Range(m.records)} |->
                    (CHOOSE r \in Range(m.records) : r.name = n).fields]

\* R: names replaced by what they name.  The fields of a record are left as they
\* are, and replaced where one is looked at.
RECURSIVE Reified(_, _)
Reified(t, records) ==
    CASE t.is = "named" /\ t.name \in Builtin -> [is |-> t.name]
      [] t.is = "named" /\ t.name \notin Builtin -> [is |-> "record", name |-> t.name, records |-> records]
      [] t.is \in {"annotated", "pointer"} -> [t EXCEPT !.of = Reified(@, records)]
      [] OTHER -> t

FieldsOf(record) ==
    LET fields == record.records[record.name]
    IN  [i \in DOMAIN fields |-> [fields[i] EXCEPT !.type = Reified(@, record.records)]]

\* Whether a term of this type, made in the course of one of a record among
\* `active', would never be complete: a record is a part of itself.
RECURSIVE Recurs(_, _)
Recurs(t, active) ==
    CASE t.is = "annotated" -> Recurs(t.of, active)
      [] t.is = "record" -> \/ t.name \in active
                            \/ \E field \in Range(FieldsOf(t)) : Recurs(field.type, active \cup {t.name})
      [] OTHER -> FALSE

IsAnnotated(t) == t.is = "annotated"
RemoveAnnotation(t) == IF IsAnnotated(t) THEN t.of ELSE t
RECURSIVE RemoveAnnotations(_)
RemoveAnnotations(t) == IF IsAnnotated(t) THEN RemoveAnnotations(t.of) ELSE t

\* A, which asserts that there is a type to annotate.
CanAnnotate(t) == t \notin {DynamicType, FunctionType}
Annotated(t) == IF IsAnnotated(t) THEN t ELSE [is |-> "annotated", of |-> t]

\* Records are the same if their definition is: names are unique by now.
Equivalent(l, r) == l = r

=============================================================================
