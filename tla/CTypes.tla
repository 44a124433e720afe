-------------------------------- MODULE CTypes --------------------------------
(***************************************************************************)
(* The types that functions have for C, and what is reported where C has   *)
(* none.                                                                   *)
(***************************************************************************)
EXTENDS TypeChecking

NoCType == <<"none">>

\* getLlvmType.  It does not end for a record that is a part of itself, but is asked
\* for the type of one only where the compiler crashes in any case.
RECURSIVE CType(_)
CType(t) ==
    IF Recurs(t, {}) THEN NoCType ELSE
    CASE t.is = "int"  -> <<"i32">>
      [] t.is = "bool" -> <<"i1">>
      [] t.is = "annotated" -> CType(t.of)
      [] t.is = "record" ->
           LET fields == [i \in DOMAIN FieldsOf(t) |-> CType(FieldsOf(t)[i].type)]
           IN  IF NoCType \in Range(fields) THEN NoCType ELSE <<"struct", fields>>
      [] OTHER -> NoCType

\* getCExportType, where `names' has the types of the definitions.  It means to
\* leave out results that are annotated, but never finds one.
TypeOfTerm(e, names) ==
    CASE e.is = "definition" -> CType(e.type)
      [] e.is = "name"       -> CType(names[e.name])
      [] e.is = "function"   -> NoCType
ExportType(f, names) ==
    LET result    == IF f.result = <<>> THEN <<"void">> ELSE TypeOfTerm(f.result[1], names)
        arguments == [i \in DOMAIN f.terms |-> TypeOfTerm(f.terms[i], names)]
    IN  IF NoCType \in Range(arguments) \cup {result} THEN NoCType
        ELSE <<"function", result, arguments>>

(***************************************************************************)
(* What emitFunctionCImport reports: arguments must have values of C types *)
(***************************************************************************)
\* AnnotationChecker goes on until it finds a type without a value: whether all have
\* one, whether a pointer was met, and whether it ends, which it does not in a record
\* that is a part of itself.
RECURSIVE LookedAt(_, _)
LookedAt(t, within) ==
    LET Found(value, pointer, ends) == [value |-> value, pointer |-> pointer, ends |-> ends]
        GoesOn(found, field) ==
            LET next == LookedAt(field.type, within \cup {t.name})
            IN  IF ~found.value \/ ~found.ends THEN found
                ELSE Found(next.value, found.pointer \/ next.pointer, next.ends)
    IN
    CASE t.is \in {"int", "bool", "var"} -> Found(FALSE, FALSE, TRUE)
      [] t.is = "pointer" -> Found(TRUE, TRUE, TRUE)
      [] t.is = "record" -> IF t.name \in within THEN Found(TRUE, FALSE, FALSE)
                            ELSE FoldLeft(GoesOn, Found(TRUE, FALSE, TRUE), FieldsOf(t))
      [] OTHER -> Found(TRUE, FALSE, TRUE)

TypeOfArgument(e, names) == IF e.is = "name" THEN names[e.name] ELSE e.type
ArgumentErrors(e, names) ==
    IF e.is = "function" THEN {"Cannot use function symbol arguments"}
    ELSE LET found == LookedAt(TypeOfArgument(e, names), {})
         IN  (IF found.value THEN {} ELSE {"Must be declared as fully defined"})
             \cup (IF found.pointer THEN {"Pointers are not supported"} ELSE {})

ArgumentsErrors(f, names) == Union([i \in DOMAIN f.terms |-> ArgumentErrors(f.terms[i], names)])
ArgumentsNeverEnd(f, names) ==
    \E e \in Range(f.terms) : e.is # "function" /\ ~LookedAt(TypeOfArgument(e, names), {}).ends

\* If the arguments are right but there is no type to import, the result being a
\* function term or of a type that C has not, an error is reported at a result
\* that may be none, and the compiler goes on without a type.
ImportFails(f, names) ==
    /\ ArgumentsErrors(f, names) = {}
    /\ \/ ExportType(f, names) = NoCType
       \/ f.result # <<>> /\ f.result[1].is # "definition"

\* The code of the result of an exported function is emitted from nothing if the
\* definition says `void'.
ExportFails(f, names) ==
    f.of = "imperative" /\ f.result = <<>> /\ ExportType(f, names) # NoCType

=============================================================================
