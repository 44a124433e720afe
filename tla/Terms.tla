-------------------------------- MODULE Terms --------------------------------
(***************************************************************************)
(* What the code of an expression does when it is run: the instructions    *)
(* that TermEmiter emits with the calls of the runtime in them.  Eval      *)
(* takes the state of the program to the one after the expression, `val'   *)
(* being the term it leaves.  The predicates that an expression calls are  *)
(* not run: what each answers is the next of `ask'.                        *)
(***************************************************************************)
EXTENDS Types

CONSTANT Width      \* of an int, in bits

ASSUME WidthAssumption == Width \in Nat \ {0}

Junk == 0           \* what is in a word that nothing was written to

\* A representation: the word of an int, a bool, a pointer or a bound variable,
\* the parts of a record or symbol, their names and the types of pointees.
Cell(is, annotated, set, word, parts, tag) ==
    [is |-> is, annotated |-> annotated, set |-> set, word |-> word, parts |-> parts, tag |-> tag]

NoPlace == [is |-> "nowhere"]
Started(ask) ==
    [mem |-> <<>>, env |-> <<>>, ask |-> ask, trace |-> <<>>, goals |-> <<>>,
     val |-> Junk, word |-> 0, place |-> NoPlace, status |-> "ok"]

Stop(s, why)  == [s EXCEPT !.status = why]
With(s, a)    == [s EXCEPT !.val = a]
New(s, cell)  == With([s EXCEPT !.mem = Append(@, cell)], Len(s.mem) + 1)
NewInt(s, n)  == New(s, Cell("int", TRUE, TRUE, n, <<>>, <<>>))
NewBool(s, b) == New(s, Cell("bool", TRUE, TRUE, IF b THEN 1 ELSE 0, <<>>, <<>>))

(***************************************************************************)
(* The runtime                                                             *)
(***************************************************************************)
Bound(cell) == cell.is = "var" /\ cell.set

\* A term unified with itself, while it had no value, is bound to itself.
RECURSIVE Follow(_, _)
Follow(m, a) == IF Bound(m[a]) /\ m[a].word # a THEN Follow(m, m[a].word) ELSE a

\* followSetVars, then what is done with the term it finds.
Followed(s, a, Do(_)) ==
    IF s.status # "ok" THEN s
    ELSE IF a = Junk THEN Stop(s, "wild")
    ELSE IF Bound(s.mem[Follow(s.mem, a)]) THEN Stop(s, "loops")
    ELSE Do(Follow(s.mem, a))

\* _DI_getIntValue and _DI_getBoolValue
Read(s, type) ==
    Followed(s, s.val, LAMBDA a :
        IF s.mem[a].is # type THEN Stop(s, "type")
        ELSE IF ~s.mem[a].set THEN Stop(s, "unset")
        ELSE [s EXCEPT !.word = s.mem[a].word])

\* _DI_getPtrValue does not look whether the pointer is set.
GetPtrValue(s) ==
    Followed(s, s.val, LAMBDA a :
        IF s.mem[a].is # "pointer" THEN Stop(s, "type") ELSE With(s, s.mem[a].word))

SetPtrValue(s, pointer, value) ==
    IF s.status = "ok" /\ value = Junk THEN Stop(s, "wild")
    ELSE Followed(s, pointer, LAMBDA a :
        IF s.mem[a].is # "pointer" THEN Stop(s, "type")
        ELSE [s EXCEPT !.mem[a].word = value, !.mem[a].set = TRUE])

GetRecordMember(s, i) ==
    Followed(s, s.val, LAMBDA a :
        IF s.mem[a].is # "record" THEN Stop(s, "type") ELSE With(s, s.mem[a].parts[i]))

\* _DI_assignRecordField follows nothing.
AssignRecordField(s, record, value, i) ==
    IF s.status # "ok" THEN s ELSE [s EXCEPT !.mem[record].parts[i] = value]

\* _DI_deepCopyRepresentation: a pointer is copied, what it points to is not.
\* Mutant: the parts of the copy are those of the original.
RECURSIVE DeepCopy(_, _)
PartsShared(copy, original) == original
PartsOf(copy, original)     == copy
DeepCopy(s, a) ==
    Followed(s, a, LAMBDA b :
        LET part(p, i) == LET q == DeepCopy(p.s, s.mem[b].parts[i])
                          IN  [s |-> q, parts |-> Append(p.parts, q.val)]
            all == FoldLeft(part, [s |-> New(s, s.mem[b]), parts |-> <<>>],
                            [i \in DOMAIN s.mem[b].parts |-> i])
        IN  IF all.s.status # "ok" THEN all.s
            ELSE With([all.s EXCEPT !.mem[Len(s.mem) + 1].parts = PartsOf(all.parts, s.mem[b].parts)],
                      Len(s.mem) + 1))

\* The terms that a term consists of, itself included.
RECURSIVE Parts(_, _)
Parts(m, a) == LET b == Follow(m, a)
               IN  {b} \cup UNION {Parts(m, m[b].parts[i]) : i \in DOMAIN m[b].parts}

Bind(s, a, b) == [s EXCEPT !.mem[a] = Cell("var", @.annotated, TRUE, b, <<>>, <<>>)]

Verified(s, a) ==
    IF s.status # "ok" \/ ~s.mem[a].annotated THEN s
    ELSE IF \E b \in Parts(s.mem, a) : Bound(s.mem[b]) THEN Stop(s, "loops")
    ELSE IF \A b \in Parts(s.mem, a) : s.mem[b].set THEN s ELSE Stop(s, "failed")

RECURSIVE Unify(_, _, _)
Unify(s, a, b) ==
    Followed(s, a, LAMBDA l : Followed(s, b, LAMBDA r :
        LET lhs == s.mem[l]
            rhs == s.mem[r]
            pairs == FoldLeft(LAMBDA t, i : Unify(t, lhs.parts[i], rhs.parts[i]), s,
                              [i \in DOMAIN lhs.parts |-> i])
            Both(t) == Verified(Verified(t, l), r)
        IN
        CASE lhs.is = "var" /\ rhs.is = "var" -> IF l = r THEN s ELSE Bind(s, l, r)
          [] lhs.is = "var" /\ rhs.is # "var" -> IF l \in Parts(s.mem, r) THEN Stop(s, "failed") ELSE Bind(s, l, r)
          [] lhs.is # "var" /\ rhs.is = "var" -> IF r \in Parts(s.mem, l) THEN Stop(s, "failed") ELSE Bind(s, r, l)
          [] OTHER ->
               IF lhs.is # rhs.is \/ lhs.tag # rhs.tag \/ Len(lhs.parts) # Len(rhs.parts) THEN Stop(s, "failed")
               ELSE IF ~rhs.set THEN Both(Bind(s, r, l))
               ELSE IF ~lhs.set THEN Both(Bind(s, l, r))
               ELSE IF lhs.word # rhs.word THEN Stop(s, "failed")
               ELSE Both(pairs)))

\* _DI_equals: the answer is the word.
RECURSIVE Equals(_, _, _)
Equals(s, a, b) ==
    Followed(s, a, LAMBDA l : Followed(s, b, LAMBDA r :
        LET lhs == s.mem[l]
            rhs == s.mem[r]
            same == /\ lhs.is = rhs.is /\ lhs.set = rhs.set /\ Len(lhs.parts) = Len(rhs.parts)
                    /\ lhs.is \in {"record", "symbol"} => lhs.tag = rhs.tag
                    /\ lhs.set => lhs.word = rhs.word
            part(t, i) == IF t.word = 0 THEN t ELSE Equals(t, lhs.parts[i], rhs.parts[i])
        IN  IF ~same THEN [s EXCEPT !.word = 0]
            ELSE FoldLeft(part, [s EXCEPT !.word = 1], [i \in DOMAIN lhs.parts |-> i])))

(***************************************************************************)
(* Terms of a type                                                         *)
(***************************************************************************)
RECURSIVE Allocate(_, _, _)
Allocate(s, type, annotated) ==
    LET Unset(tag) == New(s, Cell(type.is, annotated, FALSE, Junk, <<>>, tag))
        field(t, i) ==
            LET u == Allocate(t, FieldsOf(type)[i].type, annotated)
            IN  [u EXCEPT !.mem[Len(s.mem) + 1].parts = Append(@, u.val)]
    IN
    CASE type.is \in {"int", "bool", "var"} -> Unset(<<>>)
      [] type.is = "pointer"   -> Unset(<<type.of>>)
      [] type.is = "annotated" -> Allocate(s, type.of, TRUE)
      [] type.is = "record"    ->
           With(FoldLeft(field, New(s, Cell("record", annotated, TRUE, Junk, <<>>, <<type.name>>)),
                         [i \in DOMAIN FieldsOf(type) |-> i]),
                Len(s.mem) + 1)

(***************************************************************************)
(* Operators                                                               *)
(***************************************************************************)
Least   == -(2 ^ (Width - 1))
Wrap(n) == ((n - Least) % (2 ^ Width)) + Least

Quotient(l, r) == LET Abs(n) == IF n < 0 THEN -n ELSE n
                  IN  IF (l < 0) = (r < 0) THEN Abs(l) \div Abs(r) ELSE -(Abs(l) \div Abs(r))
Traps(op, l, r) == op \in {"divide", "modulo"} /\ (r = 0 \/ (l = Least /\ r = -1))
Arith(op, l, r) ==
    CASE op = "add"      -> Wrap(l + r)
      [] op = "subtract" -> Wrap(l - r)
      [] op = "multiply" -> Wrap(l * r)
      [] op = "divide"   -> Quotient(l, r)
      [] op = "modulo"   -> l - r * Quotient(l, r)
Related(op, l, r) ==
    CASE op = "less"             -> l < r
      [] op = "greater"          -> l > r
      [] op = "less or equal"    -> l <= r
      [] op = "greater or equal" -> l >= r

(***************************************************************************)
(* What is shown of a term to who looks at it from outside                 *)
(***************************************************************************)
\* A pointer is shown with what it points to, unless that leads to the pointer
\* again: then with its place among those that were followed to it.
RECURSIVE ShowWithin(_, _, _)
ShowWithin(m, a, followed) ==
    IF a = Junk THEN <<"wild">> ELSE
    LET b    == Follow(m, a)
        cell == m[b]
    IN
    CASE Bound(cell) -> <<"loops">>
      [] cell.is \in {"record", "symbol"} ->
           <<cell.is, cell.tag, [i \in DOMAIN cell.parts |-> ShowWithin(m, cell.parts[i], followed)]>>
      [] cell.set /\ cell.is \in {"int", "bool"} -> <<cell.is, cell.word>>
      [] cell.set /\ cell.is = "pointer" ->
           IF b \in Range(followed) THEN <<"pointer", "again", CHOOSE i \in DOMAIN followed : followed[i] = b>>
           ELSE <<"pointer", ShowWithin(m, cell.word, Append(followed, b))>>
      [] OTHER -> <<cell.is>>
Show(m, a) == ShowWithin(m, a, <<>>)

\* A predicate that is called may fail, leave its result without a value or
\* give it one.
Ask(s, question, result) ==
    IF s.status # "ok" THEN s
    ELSE IF s.ask = <<>> THEN Stop(s, "asks")
    ELSE LET answer == Head(s.ask)
             asked  == [s EXCEPT !.ask = Tail(@), !.trace = Append(@, question)]
         IN  CASE answer = <<"fails">>   -> Stop(asked, "failed")
               [] answer = <<"nothing">> -> With(asked, result)
               [] OTHER -> LET t == New(asked, Cell(answer[1], TRUE, TRUE, answer[2], <<>>, <<>>))
                           IN  With(Bind(t, result, t.val), result)

(***************************************************************************)
(* Expressions                                                             *)
(***************************************************************************)
RECURSIVE Eval(_, _), Quoted(_, _), Locate(_, _)

\* A function term that is not called.
Quoted(s, e) ==
    LET part(t, i) == LET u == Eval(t, e.operands[i])
                      IN  IF u.status = "ok" THEN [u EXCEPT !.mem[Len(s.mem) + 1].parts = Append(@, u.val)] ELSE u
    IN  With(FoldLeft(part, New(s, Cell("symbol", FALSE, TRUE, Junk, <<>>, <<e.name>>)),
                      [i \in DOMAIN e.operands |-> i]),
             Len(s.mem) + 1)

\* The result is allocated before the arguments are.
Called(s, e) ==
    LET r == New(s, Cell("var", FALSE, FALSE, Junk, <<>>, <<>>))
        q == Quoted(r, e)
    IN  IF q.status # "ok" THEN q ELSE Ask(q, Show(q.mem, q.val), r.val)

(* Assignment: the value is evaluated, then the variable or pointer which   *)
(* the left side is a part of is found, its term replaced by a copy, and    *)
(* the value stored in that, for which the left side is evaluated again.    *)
RECURSIVE BaseOf(_)
BaseOf(e) == IF e.is = "member" THEN BaseOf(e.operands[1]) ELSE e
IsLocation(e) == BaseOf(e).is \in {"name", "definition", "dereference"}

Locate(s, e) ==
    CASE e.is = "name"       -> [s EXCEPT !.place = [is |-> "variable", name |-> e.name]]
      [] e.is = "definition" -> [Eval(s, e) EXCEPT !.place = [is |-> "variable", name |-> e.name]]
      [] e.is = "dereference" -> LET t == Eval(s, e.operands[1]) IN [t EXCEPT !.place = [is |-> "pointer", at |-> t.val]]
      [] e.is = "member"     -> Locate(s, e.operands[1])

\* Mutant: nothing is copied.
Keep(s) == s
Detach(s) ==
    IF s.status # "ok" THEN s
    ELSE IF s.place.is = "variable"
    THEN LET t == DeepCopy(s, s.env[s.place.name]) IN [t EXCEPT !.env[s.place.name] = t.val]
    ELSE LET t == GetPtrValue(With(s, s.place.at))
             u == DeepCopy(t, t.val)
         IN  SetPtrValue(u, s.place.at, u.val)

Store(s, e, value) ==
    IF s.status # "ok" THEN s
    ELSE CASE e.is \in {"name", "definition"} -> [s EXCEPT !.env[e.name] = value]
           [] e.is = "dereference" -> LET t == Eval(s, e.operands[1]) IN SetPtrValue(t, t.val, value)
           [] e.is = "member"      -> LET t == Eval(s, e.operands[1]) IN AssignRecordField(t, t.val, value, e.index)

Assign(s, e) ==
    LET right == Eval(s, e.operands[2])
    IN  IF right.status # "ok" THEN right
        ELSE With(Store(Detach(Locate(right, e.operands[1])), e.operands[1], right.val), right.val)

Eval(s, e) ==
    IF s.status # "ok" THEN s ELSE
    LET Operand(i, t) == Eval(t, e.operands[i])
        first  == Operand(1, s)
        second == Operand(2, first)
        \* Both operands evaluated; or each evaluated and read.
        Values(type) == LET l == Read(first, type)
                            r == Read(Operand(2, l), type)
                        IN  [s |-> r, l |-> l.word, r |-> r.word]
        On(v, Do(_, _, _)) == IF v.s.status = "ok" THEN Do(v.s, v.l, v.r) ELSE v.s
        After(t, Do(_)) == IF t.status = "ok" THEN Do(t) ELSE t
    IN
    CASE e.is = "int"  -> New(s, Cell("int", FALSE, TRUE, Wrap(e.value), <<>>, <<>>))
      [] e.is = "bool" -> New(s, Cell("bool", FALSE, TRUE, IF e.truth THEN 1 ELSE 0, <<>>, <<>>))
      [] e.is = "name" -> With(s, s.env[e.name])
      [] e.is = "definition" ->
           LET t == Allocate(s, e.type, FALSE) IN [t EXCEPT !.env = (e.name :> t.val) @@ @]
      [] e.is = "function" -> IF e.call THEN Called(s, e) ELSE Quoted(s, e)
      [] e.is \in {"call", "quote"} -> first
      [] e.is = "dereference" -> GetPtrValue(first)
      [] e.is = "address" ->
           After(first, LAMBDA t : New(t, Cell("pointer", TRUE, TRUE, t.val, <<>>, <<e.pointee>>)))
      [] e.is = "member" -> GetRecordMember(first, e.index)
      [] e.is = "unify"  -> With(Unify(second, first.val, second.val), second.val)
      [] e.is = "assign" -> Assign(s, e)
      [] e.is \in Equalities ->
           After(Equals(second, first.val, second.val), LAMBDA t : NewBool(t, (t.word = 1) = (e.is = "equal")))
      [] e.is = "or"  -> On(Values("bool"), LAMBDA t, l, r : NewBool(t, l = 1 \/ r = 1))
      [] e.is = "and" -> On(Values("bool"), LAMBDA t, l, r : NewBool(t, l = 1 /\ r = 1))
      [] e.is = "not" -> After(Read(first, "bool"), LAMBDA t : NewBool(t, t.word = 0))
      [] e.is \in Relations  -> On(Values("int"), LAMBDA t, l, r : NewBool(t, Related(e.is, l, r)))
      [] e.is \in Arithmetic ->
           On(Values("int"), LAMBDA t, l, r : IF Traps(e.is, l, r) THEN Stop(t, "trap") ELSE NewInt(t, Arith(e.is, l, r)))
      [] e.is = "negate" -> After(Read(first, "int"), LAMBDA t : NewInt(t, Wrap(-t.word)))

(***************************************************************************)
(* What is reported while an expression is emitted                         *)
(***************************************************************************)
\* The expressions in one that are emitted: what is assigned to only if that
\* is found to be a location.
RECURSIVE Emitted(_), EmittedPlace(_)
EmittedPlace(e) ==
    CASE e.is = "definition"  -> {e}
      [] e.is = "dereference" -> Emitted(e.operands[1])
      [] e.is = "member"      -> EmittedPlace(e.operands[1])
      [] OTHER -> {}
Emitted(e) ==
    {e} \cup IF e.is = "assign" THEN Emitted(e.operands[2]) \cup EmittedPlace(e.operands[1])
             ELSE UNION {Emitted(e.operands[i]) : i \in DOMAIN e.operands}

Assignments(e) == {x \in Emitted(e) : x.is = "assign"}
EmitErrors(e) ==
    {"Cannot assign - not a lvalue" : x \in {y \in Assignments(e) : ~IsLocation(y.operands[1])}}
    \cup {"Recursive definition of record" : x \in {y \in Emitted(e) : y.is = "definition" /\ Recurs(y.type, {})}}

\* An assertion fails if an assignment is assigned to, or if the pointee of an
\* address has no type known to the runtime.
HasPointee(type) == type # [is |-> "dynamic"] /\ type # [is |-> "function"]
EmitCrashes(e) ==
    \/ \E x \in Assignments(e) : BaseOf(x.operands[1]).is = "assign"
    \/ \E x \in Emitted(e) : x.is = "address" /\ ~HasPointee(x.pointee)

\* After the error in a record that is a part of itself, `result' is made a part of the
\* record: what an emitter, of an expression or of the arguments of a call, made last.
\* If it has made nothing, that was never written.
RECURSIVE NothingBefore(_, _), BeginsWithNothing(_)
NothingBefore(t, active) ==
    CASE t.is = "annotated" -> NothingBefore(t.of, active)
      [] t.is = "record" -> \/ t.name \in active
                            \/ \E first \in {FieldsOf(t)[i] : i \in {1} \cap DOMAIN FieldsOf(t)} :
                                  NothingBefore(first.type, active \cup {t.name})
      [] OTHER -> FALSE
BeginsWithNothing(e) ==
    CASE e.is = "definition" -> NothingBefore(e.type, {})
      [] e.is = "assign" -> BeginsWithNothing(e.operands[2])
      [] OTHER -> e.operands # <<>> /\ ~(e.is = "function" /\ e.call) /\ BeginsWithNothing(e.operands[1])
EmitReadsJunk(e) ==
    \/ BeginsWithNothing(e)
    \/ \E x \in Emitted(e) : x.is = "function" /\ x.call /\ x.operands # <<>> /\ BeginsWithNothing(x.operands[1])

\* The code branches to failedBlock if something in it fails.
MayFail(e) == \E x \in Emitted(e) : x.is = "unify" \/ (x.is = "function" /\ x.call)

=============================================================================
