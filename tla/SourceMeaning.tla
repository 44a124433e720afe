----------------------------- MODULE SourceMeaning -----------------------------
(***************************************************************************)
(* What the source of a function means, without blocks, representations or *)
(* a heap: statements are carried out as they are written, a variable has  *)
(* a value that never changes, an assignment gives it another one, and     *)
(* what is unknown in values is found out by unification.  Only a pointer  *)
(* is a place, which has a value that changes.                             *)
(***************************************************************************)
EXTENDS Terms

(* Values: <<"int", n>>, <<"bool", b>>, <<"unknown", k>>, <<"pointer", type,  *)
(* place>>, <<"record", type, parts, annotated>>, <<"symbol", name, parts>>.  *)
(* The k-th unknown has a type, may be annotated, and is known to be equal *)
(* to another value or not.                                                *)
Begun(ask) == [vars |-> <<>>, unknowns |-> <<>>, places |-> <<>>, ask |-> ask,
               trace |-> <<>>, goals |-> <<>>, val |-> <<"none">>, status |-> "ok"]

IsNot(s)     == s.status # "ok"
Ends(s, why) == [s EXCEPT !.status = why]
Gives(s, v)  == [s EXCEPT !.val = v]
Unknown(s, type, annotated) ==
    Gives([s EXCEPT !.unknowns = Append(@, [type |-> type, annotated |-> annotated, known |-> <<>>])],
          <<"unknown", Len(s.unknowns) + 1>>)
Place(s, type, value) ==
    Gives([s EXCEPT !.places = Append(@, value)], <<"pointer", type, Len(s.places) + 1>>)

RECURSIVE Known(_, _), PartsOfValue(_, _), SeemsWithin(_, _, _)
Known(s, v) == IF v[1] = "unknown" /\ s.unknowns[v[2]].known # <<>>
               THEN Known(s, s.unknowns[v[2]].known[1]) ELSE v
IsWhole(v)  == v[1] \in {"record", "symbol"}

\* The values within one.
PartsOfValue(s, v) ==
    LET w == Known(s, v)
    IN  {w} \cup IF IsWhole(w) THEN UNION {PartsOfValue(s, w[3][i]) : i \in DOMAIN w[3]} ELSE {}

\* As Show does for terms, with places for pointers.
SeemsWithin(s, v, followed) ==
    LET w == Known(s, v)
        parts == [i \in DOMAIN w[3] |-> SeemsWithin(s, w[3][i], followed)]
    IN
    CASE w[1] = "unknown" -> <<s.unknowns[w[2]].type.is>>
      [] w[1] = "record"  -> <<"record", <<w[2].name>>, parts>>
      [] w[1] = "symbol"  -> <<"symbol", <<w[2]>>, parts>>
      [] w[1] = "pointer" ->
           IF w[3] \in Range(followed) THEN <<"pointer", "again", CHOOSE i \in DOMAIN followed : followed[i] = w[3]>>
           ELSE <<"pointer", SeemsWithin(s, s.places[w[3]], Append(followed, w[3]))>>
      [] OTHER -> w
Seems(s, v) == SeemsWithin(s, v, <<>>)

\* A value of a type, about which nothing else is known.
RECURSIVE AnyOf(_, _, _)
AnyOf(s, type, annotated) ==
    CASE type.is = "annotated" -> AnyOf(s, type.of, TRUE)
      [] type.is = "record" ->
           LET all == FoldLeft(LAMBDA p, f : LET t == AnyOf(p.s, f.type, annotated)
                                             IN  [s |-> t, parts |-> Append(p.parts, t.val)],
                               [s |-> s, parts |-> <<>>], FieldsOf(type))
           IN  Gives(all.s, <<"record", type, all.parts, annotated>>)
      [] OTHER -> Unknown(s, type, annotated)

(***************************************************************************)
(* Unification.  What is annotated must become fully known.                *)
(***************************************************************************)
HasType(s, v) == IF v[1] = "unknown" THEN s.unknowns[v[2]].type.is ELSE v[1]
IsVariable(s, v)  == v[1] = "unknown" /\ s.unknowns[v[2]].type.is = "var"
TypeOfPointer(s, v) == IF v[1] = "unknown" THEN s.unknowns[v[2]].type.of ELSE v[2]
MustBeKnown(s, v) == IF v[1] = "unknown" THEN s.unknowns[v[2]].annotated ELSE v[1] = "record" /\ v[4]
Honoured(s, v, w) ==
    IF IsNot(s) \/ ~(MustBeKnown(s, v) \/ MustBeKnown(s, w)) THEN s
    ELSE IF \E p \in PartsOfValue(s, v) : p[1] = "unknown" THEN Ends(s, "failed") ELSE s

RECURSIVE MadeEqual(_, _, _)
MadeEqual(s, v, w) ==
    IF IsNot(s) THEN s ELSE
    LET l == Known(s, v)
        r == Known(s, w)
        Becomes(k, x) == [s EXCEPT !.unknowns[k[2]].known = <<x>>]
    IN
    CASE l = r /\ (IsVariable(s, l) \/ l[1] \in {"int", "bool"}) -> s
      [] l # r /\ IsVariable(s, l) -> IF l \in PartsOfValue(s, r) THEN Ends(s, "failed") ELSE Becomes(l, r)
      [] l # r /\ ~IsVariable(s, l) /\ IsVariable(s, r) ->
           IF r \in PartsOfValue(s, l) THEN Ends(s, "failed") ELSE Becomes(r, l)
      [] HasType(s, l) # HasType(s, r) -> Ends(s, "failed")
      [] OTHER ->
           IF HasType(s, l) = "pointer" /\ TypeOfPointer(s, l) # TypeOfPointer(s, r) THEN Ends(s, "failed")
           \* A value unified with itself while it is unknown, or two pointers.
           ELSE IF (l = r /\ l[1] = "unknown") \/ (l[1] = "pointer" /\ r[1] = "pointer") THEN Ends(s, "undefined")
           ELSE IF l[1] = "unknown" \/ r[1] = "unknown"
           THEN Honoured(IF r[1] = "unknown" THEN Becomes(r, l) ELSE Becomes(l, r), l, r)
           ELSE IF ~IsWhole(l) THEN Ends(s, "failed")
           ELSE IF (IF l[1] = "record" THEN l[2].name # r[2].name ELSE l[2] # r[2] \/ Len(l[3]) # Len(r[3]))
           THEN Ends(s, "failed")
           ELSE Honoured(FoldLeft(LAMBDA t, i : MadeEqual(t, l[3][i], r[3][i]), s, [i \in DOMAIN l[3] |-> i]), l, r)

\* Equal as far as they are known.
RECURSIVE AreEqual(_, _, _)
AreEqual(s, v, w) ==
    LET l == Known(s, v)
        r == Known(s, w)
    IN  CASE l[1] = "unknown" /\ r[1] = "unknown" -> HasType(s, l) = HasType(s, r)
          [] IsWhole(l) /\ l[1] = r[1] ->
               /\ IF l[1] = "record" THEN l[2].name = r[2].name ELSE l[2] = r[2]
               /\ Len(l[3]) = Len(r[3])
               /\ \A i \in DOMAIN l[3] : AreEqual(s, l[3][i], r[3][i])
          [] OTHER -> l = r

(***************************************************************************)
(* Expressions                                                             *)
(***************************************************************************)
\* What is changed in a part is a new value, whatever is unknown in the rest of
\* it, and its pointers point to places of their own.
RECURSIVE Renewed(_, _)
Renewed(s, v) ==
    LET w == Known(s, v) IN
    CASE w[1] = "unknown" -> Unknown(s, s.unknowns[w[2]].type, s.unknowns[w[2]].annotated)
      [] w[1] = "pointer" -> Place(s, w[2], s.places[w[3]])
      [] IsWhole(w) ->
           LET all == FoldLeft(LAMBDA p, x : LET t == Renewed(p.s, x)
                                             IN  [s |-> t, parts |-> Append(p.parts, t.val)],
                               [s |-> s, parts |-> <<>>], w[3])
           IN  Gives(all.s, [w EXCEPT ![3] = all.parts])
      [] OTHER -> Gives(s, w)

FieldIn(type, name) == CHOOSE i \in DOMAIN FieldsOf(type) : FieldsOf(type)[i].name = name

\* A value with a part of it replaced; the path is the names of the fields.
RECURSIVE ReplacedIn(_, _, _, _), PathOf(_)
ReplacedIn(s, v, path, x) ==
    IF path = <<>> THEN x
    ELSE LET w == Known(s, v)
             i == FieldIn(w[2], path[1])
         IN  [w EXCEPT ![3][i] = ReplacedIn(s, @, Tail(path), x)]
PathOf(e) == IF e.is = "member" THEN Append(PathOf(e.operands[1]), e.field) ELSE <<>>

Answered(s, question, result) ==
    IF IsNot(s) THEN s
    ELSE IF s.ask = <<>> THEN Ends(s, "asks")
    ELSE LET t == [s EXCEPT !.ask = Tail(@), !.trace = Append(@, question)]
         IN  CASE Head(s.ask) = <<"fails">>   -> Ends(t, "failed")
               [] Head(s.ask) = <<"nothing">> -> Gives(t, result)
               [] OTHER -> Gives(t, Head(s.ask))

RECURSIVE Means(_, _), AllMean(_, _), Changed(_, _, _)
AllMean(s, es) ==
    LET all == FoldLeft(LAMBDA p, e : LET t == Means(p.s, e) IN [s |-> t, parts |-> Append(p.parts, t.val)],
                        [s |-> s, parts |-> <<>>], es)
    IN  [s |-> all.s, parts |-> all.parts]

\* The variable or place that an expression is in changes.
Changed(s, e, x) ==
    LET base == BaseOf(e)
        at == IF base.is = "name" THEN s ELSE Means(s, IF base.is = "definition" THEN base ELSE base.operands[1])
        p  == Known(at, at.val)
        IsIn(t, old) == LET u == Renewed(t, old) IN Gives(u, ReplacedIn(u, u.val, PathOf(e), x))
    IN  IF IsNot(at) THEN at
        ELSE IF base.is \in {"name", "definition"}
        THEN LET t == IsIn(at, at.vars[base.name]) IN Gives([t EXCEPT !.vars[base.name] = t.val], x)
        ELSE IF p[1] # "pointer" THEN Ends(at, IF HasType(at, p) = "pointer" THEN "undefined" ELSE "type")
        ELSE LET t == IsIn(at, at.places[p[3]]) IN Gives([t EXCEPT !.places[p[3]] = t.val], x)

Means(s, e) ==
    IF IsNot(s) THEN s ELSE
    LET parts == AllMean(s, e.operands)
        t     == parts.s
        V(i)  == Known(t, parts.parts[i])
        \* Operands of a type: each is looked at before the next is evaluated.
        Look(u, i, type) ==
            LET v == Means(u, e.operands[i])
                w == Known(v, v.val)
            IN  IF IsNot(v) THEN v
                ELSE IF HasType(v, w) # type THEN Ends(v, "type")
                ELSE IF w[1] = "unknown" THEN Ends(v, "unset") ELSE Gives(v, w)
        Of(type, Do(_, _)) == LET l == Look(s, 1, type)
                                  r == Look(l, 2, type)
                              IN  IF IsNot(r) THEN r ELSE Gives(r, Do(l.val[2], r.val[2]))
        Truth(b) == <<"bool", IF b THEN 1 ELSE 0>>
    IN
    CASE e.is = "int"  -> Gives(s, <<"int", Wrap(e.value)>>)
      [] e.is = "bool" -> Gives(s, Truth(e.truth))
      [] e.is = "name" -> Gives(s, s.vars[e.name])
      [] e.is = "definition" -> LET u == AnyOf(s, e.type, FALSE) IN [u EXCEPT !.vars = (e.name :> u.val) @@ @]
      [] e.is = "assign" -> LET u == Means(s, e.operands[2])
                            IN  IF IsNot(u) THEN u ELSE Changed(u, e.operands[1], u.val)
      [] e.is \in Connectives ->
           Of("bool", LAMBDA l, r : Truth(IF e.is = "or" THEN 1 \in {l, r} ELSE {l, r} = {1}))
      [] e.is \in Relations  -> Of("int", LAMBDA l, r : Truth(Related(e.is, l, r)))
      [] e.is \in Arithmetic ->
           LET u == Of("int", LAMBDA l, r : <<l, r>>)
           IN  IF IsNot(u) THEN u
               ELSE IF Traps(e.is, u.val[1], u.val[2]) THEN Ends(u, "trap")
               ELSE Gives(u, <<"int", Arith(e.is, u.val[1], u.val[2])>>)
      [] e.is = "not"    -> LET u == Look(s, 1, "bool") IN IF IsNot(u) THEN u ELSE Gives(u, Truth(u.val[2] = 0))
      [] e.is = "negate" -> LET u == Look(s, 1, "int") IN IF IsNot(u) THEN u ELSE Gives(u, <<"int", Wrap(-u.val[2])>>)
      [] OTHER ->
           IF IsNot(t) THEN t ELSE
           CASE e.is = "function" ->
                  LET symbol == Gives(t, <<"symbol", e.name, parts.parts>>)
                      result == Unknown(t, [is |-> "var"], FALSE)
                  IN  IF e.call THEN Answered(result, Seems(t, symbol.val), result.val) ELSE symbol
             [] e.is \in {"call", "quote"} -> t
             [] e.is = "dereference" ->
                  IF V(1)[1] = "pointer" THEN Gives(t, t.places[V(1)[3]])
                  ELSE Ends(t, IF HasType(t, V(1)) = "pointer" THEN "undefined" ELSE "type")
             [] e.is = "address" -> Place(t, e.pointee, parts.parts[1])
             [] e.is = "member" ->
                  IF V(1)[1] = "record" THEN Gives(t, V(1)[3][FieldIn(V(1)[2], e.field)]) ELSE Ends(t, "type")
             [] e.is = "unify" -> Gives(MadeEqual(t, V(1), V(2)), V(2))
             [] e.is \in Equalities ->
                  IF "pointer" \in {V(1)[1], V(2)[1]} THEN Ends(t, "undefined")
                  ELSE Gives(t, Truth(AreEqual(t, V(1), V(2)) = (e.is = "equal")))

(***************************************************************************)
(* Statements: how they end is the status                                  *)
(***************************************************************************)
RECURSIVE Carried(_, _), Loops(_, _)
Evaluated(s, es) == AllMean(s, es).s
Decided(s, Yes(_), No(_)) ==
    LET w == Known(s, s.val)
    IN  IF IsNot(s) THEN s
        ELSE IF HasType(s, w) # "bool" THEN Ends(s, "type")
        ELSE IF w[1] = "unknown" THEN Ends(s, "unset")
        ELSE IF w[2] = 1 THEN Yes(s) ELSE No(s)

Loops(s, f) ==
    Decided(Evaluated(s, f.condition),
            LAMBDA t : LET body == Carried(t, f.body)
                       IN  IF body.status = "break" THEN [body EXCEPT !.status = "ok"]
                           ELSE IF body.status \in {"ok", "continue"}
                           THEN LET u == Evaluated([body EXCEPT !.status = "ok"], f.last)
                                IN  IF IsNot(u) THEN u ELSE Loops(u, f)
                           ELSE body,
            LAMBDA t : t)

Carried(s, list) ==
    FoldLeft(LAMBDA t, st :
                 IF IsNot(t) THEN t ELSE
                 CASE st.is = "expression" -> Means(t, st.of)
                   [] st.is = "if"  -> Decided(Means(t, st.condition), LAMBDA u : Carried(u, st.then),
                                               LAMBDA u : Carried(u, st.else))
                   [] st.is = "for" -> LET u == Evaluated(t, st.init) IN IF IsNot(u) THEN u ELSE Loops(u, st)
                   [] st.is \in {"break", "continue"} -> Ends(t, st.is),
             s, list)

(***************************************************************************)
(* Functions                                                               *)
(***************************************************************************)
\* A break outside of loops ends the body.
BodyEnds(s) == IF s.status = "break" THEN [s EXCEPT !.status = "ok"] ELSE s
Added(s, e) == LET t == Means(s, e) IN IF IsNot(t) THEN t ELSE [t EXCEPT !.goals = Append(@, Seems(t, t.val))]

\* A call of a function with these arguments, as seen from outside, if its calls
\* are answered so.
Meaning(f, arguments, answers) ==
    LET from(p, a) == LET t == IF a = <<"nothing">> THEN Unknown(p.s, [is |-> "var"], FALSE) ELSE Gives(p.s, a)
                      IN  [s |-> t, parts |-> Append(p.parts, t.val)]
        outside == FoldLeft(from, [s |-> Begun(answers), parts |-> <<>>], arguments)
        call    == <<"symbol", f.name, outside.parts>>
        asked   == Unknown(outside.s, [is |-> "var"], FALSE)
        result  == AllMean(asked, f.result)
        terms   == AllMean(result.s, f.terms)
        unified == MadeEqual(terms.s, <<"symbol", f.name, terms.parts>>, call)
        entered == IF f.result = <<>> THEN unified ELSE MadeEqual(unified, result.parts[1], asked.val)
        body    == IF f.body.is = "block" THEN BodyEnds(Carried(entered, f.body.list))
                   ELSE FoldLeft(Added, entered, f.body.list)
        solved  == IF IsNot(body) \/ body.goals = <<>> THEN body
                   ELSE Answered(body, <<"goals", body.goals>>, body.val)
        final   == IF solved.status = "ok" THEN solved ELSE asked
        ended   == CASE solved.status = "ok" -> "true"
                     [] solved.status = "failed" -> "false"
                     [] OTHER -> solved.status
    IN  [trace |-> solved.trace, outcome |-> ended,
         symbol |-> Seems(final, call), result |-> Seems(final, asked.val)]

=============================================================================
