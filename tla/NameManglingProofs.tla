-------------------------- MODULE NameManglingProofs --------------------------
(***************************************************************************)
(* Proofs about NameMangling: a symbol tells signatures apart.  Two walks  *)
(* whose names agree in the end are led in lockstep: their names agree as  *)
(* far as they have come, so what they add next begins alike, and it says  *)
(* of what kind the node is and how many nodes follow it; so they have the *)
(* same number of nodes left, and have come equally far.                   *)
(***************************************************************************)
EXTENDS NameMangling, StatementsProofs

----------------------------------------------------------------------------
(* The walk, step by step *)

\* A set that has 0 and with each number the next one has all.
LEMMA AllNumbers ==
    ASSUME NEW P, 0 \in P, \A n \in Nat : n \in P => n + 1 \in P
    PROVE  \A n \in Nat : n \in P
  <1>1. SUFFICES ASSUME Nat \ P # {} PROVE FALSE
    OBVIOUS
  <1>2. PICK n \in Nat \ P : \A m \in Nat \ P : n <= m
    BY <1>1, LeastOf
  <1>3. n # 0 /\ n - 1 \in Nat /\ n - 1 \in P
    BY <1>2
  <1>4. QED
    BY <1>2, <1>3

From(list, walk, n) ==
    IF n = 0 THEN [left |-> list, name |-> <<>>] ELSE VisitNext(walk[n - 1])

\* The recursive function exists.
LEMMA WalkExists ==
    ASSUME NEW list, NEW k \in Nat
    PROVE  \E w : w = [n \in 0..k |-> From(list, w, n)]
  <1> DEFINE P == {m \in Nat : \E w : w = [n \in 0..m |-> From(list, w, n)]}
  <1>1. 0 \in P
    <2> DEFINE w == [n \in 0..0 |-> [left |-> list, name |-> <<>>]]
    <2>1. w = [n \in 0..0 |-> From(list, w, n)]
      BY DEF From
    <2>2. QED
      BY <2>1
  <1>2. ASSUME NEW m \in Nat, m \in P PROVE m + 1 \in P
    <2>1. PICK w : w = [n \in 0..m |-> From(list, w, n)]
      BY <1>2
    <2> DEFINE v == [n \in 0..(m + 1) |-> IF n = m + 1 THEN From(list, w, n) ELSE w[n]]
    <2>2. ASSUME NEW n \in 0..(m + 1) PROVE v[n] = From(list, v, n)
      <3>1. n > 0 => v[n - 1] = w[n - 1]
        OBVIOUS
      <3>2. From(list, v, n) = From(list, w, n)
        BY <3>1 DEF From
      <3>3. n # m + 1 => w[n] = From(list, w, n)
        BY <2>1
      <3>4. QED
        BY <3>2, <3>3
    <2>3. v = [n \in 0..(m + 1) |-> From(list, v, n)]
      BY <2>2
    <2> HIDE DEF v
    <2>4. m + 1 \in Nat /\ \E u : u = [n \in 0..(m + 1) |-> From(list, u, n)]
      BY <2>3
    <2>5. QED
      BY <2>4
  <1>3. k \in P
    BY <1>1, <1>2, AllNumbers
  <1>4. QED
    BY <1>3

\* It starts with the list, and one visit leads from each state to the next.
LEMMA WalkSteps ==
    ASSUME NEW list
    PROVE  /\ Walk(list)[0] = [left |-> list, name |-> <<>>]
           /\ \A n \in 0..Visits - 1 : Walk(list)[n + 1] = VisitNext(Walk(list)[n])
  <1> DEFINE w == CHOOSE w : w = [n \in 0..Visits |-> From(list, w, n)]
  <1>1. Walk(list) = w
    BY DEF Walk, From
  <1>2. w = [n \in 0..Visits |-> From(list, w, n)]
    BY WalkExists, VisitsAssumption
  <1> HIDE DEF w
  <1>3. w[0] = From(list, w, 0)
    BY <1>2, VisitsAssumption
  <1>4. ASSUME NEW n \in 0..Visits - 1 PROVE w[n + 1] = VisitNext(w[n])
    <2>1. n + 1 \in 0..Visits /\ n + 1 # 0 /\ (n + 1) - 1 = n
      BY VisitsAssumption
    <2>2. w[n + 1] = From(list, w, n + 1)
      BY <1>2, <2>1
    <2>3. QED
      BY <2>1, <2>2 DEF From
  <1>5. QED
    BY <1>1, <1>3, <1>4 DEF From

----------------------------------------------------------------------------
(* Pieces *)

\* What a visitor adds is a list of at most three elements.
LEMMA PieceIsList ==
    ASSUME NEW n
    PROVE  IsList(Piece(n))
  <1>1. IsList(<<>>) /\ \A a, b, c : IsList(<<a>>) /\ IsList(<<a, b>>) /\ IsList(<<a, b, c>>)
    BY DEF IsList
  <1>2. PICK a, b, c : Piece(n) \in {<<>>, <<a>>, <<a, b>>, <<a, b, c>>}
    BY DEF Piece, Counted
  <1>3. QED
    BY <1>1, <1>2

\* The kinds of nodes that add something, and what they add.
Kinds == {"int", "bool", "var", "annotated", "pointer", "record", "function", "terms"}
Tag(is) ==
    CASE is = "int" -> "I" [] is = "bool" -> "B" [] is = "var" -> "V"
      [] is = "annotated" -> "A" [] is = "pointer" -> "P" [] is = "record" -> "R"
      [] is = "function" -> "S" [] is = "terms" -> "count"

LEMMA Tags ==
    \A k, l \in Kinds : Tag(k) = Tag(l) => k = l
  BY DEF Kinds, Tag

LEMMA PieceIs ==
    ASSUME NEW n, Piece(n) # <<>>
    PROVE  /\ n \notin Untraced /\ n.is \in Kinds /\ Len(Piece(n)) \in 1..3 /\ Piece(n)[1] = Tag(n.is)
           /\ n.is \in {"int", "bool", "var", "annotated", "pointer"} => Len(Piece(n)) = 1
           /\ n.is = "terms" => Piece(n) = <<"count", Len(n.terms)>>
           /\ n.is = "record" => Piece(n) = <<"R", n.name, Len(n.records[n.name])>>
           /\ n.is = "function" => Piece(n) = <<"S", n.name, Len(n.operands)>>
  <1>1. n \notin Untraced /\ n.is \in Kinds
    <2>1. n \in Untraced => Piece(n) = <<>>
      BY DEF Piece
    <2>2. n \notin Untraced /\ n.is \notin Kinds => Piece(n) = <<>>
      BY ONLY DEF Piece, Kinds
    <2>3. QED
      BY <2>1, <2>2
  <1>2. CASE n.is \in {"int", "bool", "var", "annotated", "pointer"}
    BY <1>1, <1>2 DEF Piece, Tag
  <1>3. CASE n.is = "terms"
    BY <1>1, <1>3 DEF Piece, Tag
  <1>4. CASE n.is = "record"
    BY <1>1, <1>4 DEF Piece, Tag
  <1>5. CASE n.is = "function"
    BY <1>1, <1>5 DEF Piece, Tag, Counted
  <1>6. QED
    BY <1>1, <1>2, <1>3, <1>4, <1>5 DEF Kinds

\* Pieces that begin alike are the same, and so are the kind of the node and the number
\* of nodes below it.
LEMMA Decoded ==
    ASSUME NEW p, NEW q, Piece(p) # <<>>, Piece(q) # <<>>,
           p.is = "record" /\ q.is = "record" /\ p.name = q.name => p = q,
           \A i \in 1..3 : i <= Len(Piece(p)) /\ i <= Len(Piece(q)) => Piece(p)[i] = Piece(q)[i]
    PROVE  AlikeNodes(p, q) /\ Len(Piece(p)) = Len(Piece(q))
  <1>1. Len(Piece(p)) \in 1..3 /\ Len(Piece(q)) \in 1..3
    BY PieceIs
  <1>2. Piece(p)[1] = Piece(q)[1]
    BY <1>1
  <1>3. p.is \in Kinds /\ q.is = p.is /\ p \notin Untraced /\ q \notin Untraced
    BY <1>2, PieceIs, Tags
  <1>4. CASE p.is \in {"int", "bool", "var", "annotated", "pointer"}
    <2>1. Len(Piece(p)) = 1 /\ Len(Piece(q)) = 1
      BY <1>3, <1>4, PieceIs
    <2>2. Len(Inner(p)) = Len(Inner(q))
      BY <1>3, <1>4 DEF Inner
    <2>3. QED
      BY <1>3, <1>4, <2>1, <2>2 DEF AlikeNodes
  <1>5. CASE p.is = "terms"
    <2>1. Piece(p) = <<"count", Len(p.terms)>> /\ Piece(q) = <<"count", Len(q.terms)>>
      BY <1>3, <1>5, PieceIs
    <2>2. Piece(p)[2] = Piece(q)[2]
      BY <2>1
    <2>3. Len(p.terms) = Len(q.terms)
      BY <2>1, <2>2
    <2>4. Inner(p) = p.terms /\ Inner(q) = q.terms
      BY <1>3, <1>5 DEF Inner
    <2>5. QED
      BY <1>3, <1>5, <2>1, <2>3, <2>4 DEF AlikeNodes
  <1>6. CASE p.is = "function"
    <2>1. Piece(p) = <<"S", p.name, Len(p.operands)>> /\ Piece(q) = <<"S", q.name, Len(q.operands)>>
      BY <1>3, <1>6, PieceIs
    <2>2. Piece(p)[2] = Piece(q)[2] /\ Piece(p)[3] = Piece(q)[3]
      BY <2>1
    <2>3. p.name = q.name /\ Len(p.operands) = Len(q.operands)
      BY <2>1, <2>2
    <2>4. Inner(p) = p.operands /\ Inner(q) = q.operands
      BY <1>3, <1>6 DEF Inner
    <2>5. QED
      BY <1>3, <1>6, <2>1, <2>3, <2>4 DEF AlikeNodes
  <1>7. CASE p.is = "record"
    <2>1. Piece(p) = <<"R", p.name, Len(p.records[p.name])>>
          /\ Piece(q) = <<"R", q.name, Len(q.records[q.name])>>
      BY <1>3, <1>7, PieceIs
    <2>2. Piece(p)[2] = Piece(q)[2]
      BY <2>1
    <2>3. p = q
      BY <1>3, <1>7, <2>1, <2>2
    <2>4. QED
      BY <1>3, <1>7, <2>3 DEF AlikeNodes
  <1>8. QED
    BY <1>3, <1>4, <1>5, <1>6, <1>7 DEF Kinds

----------------------------------------------------------------------------
(* Names grow *)

\* A visit replaces a node by those below it, and adds a piece to the name.
LEMMA OneVisit ==
    ASSUME NEW N, AreNodes(N), NEW w, w.left \in Seq(N), IsList(w.name), w.left # <<>>
    PROVE  LET n == Bare(Head(w.left))  v == VisitNext(w)
           IN  /\ Head(w.left) \in N /\ v.left \in Seq(N) /\ IsList(v.name)
               /\ Len(v.left) = Len(Inner(n)) + (Len(w.left) - 1)
               /\ Len(v.name) = Len(w.name) + Len(Piece(n))
               /\ \A i \in 1..Len(w.name) : v.name[i] = w.name[i]
               /\ \A i \in 1..Len(Piece(n)) : v.name[Len(w.name) + i] = Piece(n)[i]
  <1> DEFINE n == Bare(Head(w.left))
             v == VisitNext(w)
  <1>1. Head(w.left) \in N /\ Tail(w.left) \in Seq(N) /\ Len(Tail(w.left)) = Len(w.left) - 1
    BY HeadTailProperties
  <1>2. Inner(n) \in Seq(N)
    BY <1>1 DEF AreNodes
  <1>3. v.left = Inner(n) \o Tail(w.left) /\ v.name = w.name \o Piece(n)
    BY DEF VisitNext
  <1> HIDE DEF n, v
  <1>4. v.left \in Seq(N) /\ Len(v.left) = Len(Inner(n)) + (Len(w.left) - 1)
    BY <1>1, <1>2, <1>3, ConcatProperties
  <1>5. IsList(Piece(n))
    BY PieceIsList
  <1>6. /\ IsList(v.name) /\ Len(v.name) = Len(w.name) + Len(Piece(n))
        /\ \A i \in 1..Len(w.name) : v.name[i] = w.name[i]
        /\ \A i \in 1..Len(Piece(n)) : v.name[Len(w.name) + i] = Piece(n)[i]
    BY <1>3, <1>5, ListsJoin
  <1>7. QED
    BY <1>1, <1>4, <1>6 DEF n, v

\* All that is left to visit are nodes, and the name is a list.
LEMMA WalkTypes ==
    ASSUME NEW N, AreNodes(N), NEW list \in Seq(N)
    PROVE  \A n \in 0..Visits : Walk(list)[n].left \in Seq(N) /\ IsList(Walk(list)[n].name)
  <1> DEFINE P == {n \in Nat : n <= Visits => Walk(list)[n].left \in Seq(N) /\ IsList(Walk(list)[n].name)}
  <1>1. 0 \in P
    <2>1. Walk(list)[0] = [left |-> list, name |-> <<>>] /\ IsList(<<>>)
      BY WalkSteps DEF IsList
    <2>2. Walk(list)[0].left \in Seq(N) /\ IsList(Walk(list)[0].name)
      BY <2>1
    <2>3. QED
      BY <2>2
  <1>2. ASSUME NEW n \in Nat, n \in P PROVE n + 1 \in P
    <2> SUFFICES ASSUME n + 1 <= Visits
                 PROVE  Walk(list)[n + 1].left \in Seq(N) /\ IsList(Walk(list)[n + 1].name)
      OBVIOUS
    <2>1. n \in 0..Visits - 1 /\ n <= Visits
      BY VisitsAssumption
    <2>2. Walk(list)[n].left \in Seq(N) /\ IsList(Walk(list)[n].name)
      BY <1>2, <2>1
    <2>3. Walk(list)[n + 1] = VisitNext(Walk(list)[n])
      BY <2>1, WalkSteps
    <2>4. CASE Walk(list)[n].left = <<>>
      BY <2>2, <2>3, <2>4 DEF VisitNext
    <2>5. CASE Walk(list)[n].left # <<>>
      BY <2>2, <2>3, <2>5, OneVisit
    <2>6. QED
      BY <2>4, <2>5
  <1>3. \A n \in Nat : n \in P
    BY <1>1, <1>2, AllNumbers
  <1>4. QED
    BY <1>3, VisitsAssumption

Begins(a, b) == Len(a) <= Len(b) /\ \A i \in 1..Len(a) : b[i] = a[i]

LEMMA BeginsFurther ==
    ASSUME NEW a, NEW b, NEW c, Begins(a, b), Begins(b, c),
           Len(a) \in Nat, Len(b) \in Nat, Len(c) \in Nat
    PROVE  Begins(a, c)
  <1>1. Len(a) <= Len(c)
    BY DEF Begins
  <1>2. ASSUME NEW i \in 1..Len(a) PROVE c[i] = a[i]
    <2>1. i \in 1..Len(b)
      BY DEF Begins
    <2>2. QED
      BY <2>1 DEF Begins
  <1>3. QED
    BY <1>1, <1>2 DEF Begins

\* The whole name begins with what it is after each visit.
LEMMA NameGrows ==
    ASSUME NEW N, AreNodes(N), NEW list \in Seq(N)
    PROVE  \A n \in 0..Visits : Begins(Walk(list)[n].name, Walk(list)[Visits].name)
  <1> DEFINE w    == Walk(list)
             P    == {k \in Nat : k <= Visits => Begins(w[Visits - k].name, w[Visits].name)}
  <1>1. \A n \in 0..Visits : w[n].left \in Seq(N) /\ IsList(w[n].name) /\ Len(w[n].name) \in Nat
    BY WalkTypes DEF IsList
  <1>2. \A n \in 0..Visits - 1 : w[n + 1] = VisitNext(w[n])
    BY WalkSteps
  <1> HIDE DEF w
  <1>3. 0 \in P
    <2>1. Visits - 0 = Visits /\ Visits \in 0..Visits
      BY VisitsAssumption
    <2>2. Begins(w[Visits - 0].name, w[Visits].name)
      BY <1>1, <2>1 DEF Begins
    <2>3. QED
      BY <2>1, <2>2
  <1>4. ASSUME NEW k \in Nat, k \in P PROVE k + 1 \in P
    <2> SUFFICES ASSUME k + 1 <= Visits PROVE Begins(w[Visits - (k + 1)].name, w[Visits].name)
      OBVIOUS
    <2> DEFINE n == Visits - (k + 1)
    <2>1. n \in 0..Visits - 1 /\ n + 1 = Visits - k /\ k <= Visits /\ n \in 0..Visits /\ n + 1 \in 0..Visits
          /\ Visits \in 0..Visits
      BY VisitsAssumption
    <2>2. Begins(w[n + 1].name, w[Visits].name)
      BY <1>4, <2>1
    <2> HIDE DEF n
    <2>3. Len(w[n].name) \in Nat /\ Len(w[n + 1].name) \in Nat /\ Len(w[Visits].name) \in Nat
      BY <1>1, <2>1
    <2>4. Begins(w[n].name, w[n + 1].name)
      <3>1. w[n + 1] = VisitNext(w[n]) /\ w[n].left \in Seq(N) /\ IsList(w[n].name)
        BY <1>1, <1>2, <2>1
      <3>2. CASE w[n].left = <<>>
        BY <2>3, <3>1, <3>2 DEF VisitNext, Begins
      <3>3. CASE w[n].left # <<>>
        <4> DEFINE more == Bare(Head(w[n].left))
        <4>1. /\ Len(w[n + 1].name) = Len(w[n].name) + Len(Piece(more))
              /\ \A i \in 1..Len(w[n].name) : w[n + 1].name[i] = w[n].name[i]
          <5>1. PICK u : u = w[n]
            OBVIOUS
          <5>2. /\ Len(VisitNext(u).name) = Len(u.name) + Len(Piece(Bare(Head(u.left))))
                /\ \A i \in 1..Len(u.name) : VisitNext(u).name[i] = u.name[i]
            <6>1. AreNodes(N) /\ u.left \in Seq(N) /\ IsList(u.name) /\ u.left # <<>>
              BY <3>1, <3>3, <5>1
            <6>2. QED
              BY ONLY <6>1, OneVisit
          <5>3. QED
            BY <3>1, <5>1, <5>2 DEF more
        <4> HIDE DEF more
        <4>2. Len(Piece(more)) \in Nat
          BY PieceIsList DEF IsList
        <4>3. QED
          BY <2>3, <4>1, <4>2 DEF Begins
      <3>4. QED
        BY <3>2, <3>3
    <2>5. Begins(w[n].name, w[Visits].name)
      BY <2>2, <2>3, <2>4, BeginsFurther
    <2>6. QED
      BY <2>5 DEF n
  <1>5. \A k \in Nat : k \in P
    BY <1>3, <1>4, AllNumbers
  <1>6. ASSUME NEW n \in 0..Visits PROVE Begins(w[n].name, w[Visits].name)
    <2>1. Visits - n \in Nat /\ Visits - n <= Visits /\ Visits - (Visits - n) = n
      BY VisitsAssumption
    <2>2. Visits - n \in P
      BY <1>5, <2>1
    <2>3. QED
      BY <2>1, <2>2
  <1>7. QED
    BY <1>6 DEF w

----------------------------------------------------------------------------
(* Two walks to the same name *)

\* What is seen of a visit: the node, what it adds, and where the whole name has it.
LEMMA VisitSeen ==
    ASSUME NEW N, AreNodes(N), NEW list \in Seq(N), ~LeavesNoTrace(list),
           NEW n \in 0..Visits - 1, Walk(list)[n].left # <<>>
    PROVE  LET w == Walk(list)  p == Bare(Head(w[n].left))
           IN  /\ Head(w[n].left) \in N /\ Piece(p) # <<>>
               /\ Len(Inner(p)) \in Nat /\ Len(Piece(p)) \in Nat
               /\ Len(w[n + 1].left) = Len(Inner(p)) + (Len(w[n].left) - 1)
               /\ Len(w[n + 1].name) = Len(w[n].name) + Len(Piece(p))
               /\ \A i \in 1..Len(Piece(p)) : w[Visits].name[Len(w[n].name) + i] = Piece(p)[i]
  <1> DEFINE w == Walk(list)
             p == Bare(Head(w[n].left))
  <1>1. /\ n \in 0..Visits /\ n + 1 \in 0..Visits /\ Visits \in Nat
        /\ w[n].left \in Seq(N) /\ IsList(w[n].name) /\ w[n + 1] = VisitNext(w[n])
        /\ Len(w[n].name) \in Nat /\ Len(w[n + 1].name) \in Nat
    <2>1. n \in 0..Visits /\ n + 1 \in 0..Visits /\ Visits \in Nat
      BY VisitsAssumption
    <2>2. QED
      BY <2>1, WalkTypes, WalkSteps DEF IsList
  <1>2. p \in NodesVisited(list)
    BY DEF NodesVisited
  <1>3. Piece(p) # <<>>
    BY <1>2 DEF LeavesNoTrace
  <1>4. /\ Head(w[n].left) \in N
        /\ Len(w[n + 1].left) = Len(Inner(p)) + (Len(w[n].left) - 1)
        /\ Len(w[n + 1].name) = Len(w[n].name) + Len(Piece(p))
        /\ \A i \in 1..Len(Piece(p)) : w[n + 1].name[Len(w[n].name) + i] = Piece(p)[i]
    <2>1. PICK u : u = w[n]
      OBVIOUS
    <2>2. AreNodes(N) /\ u.left \in Seq(N) /\ IsList(u.name) /\ u.left # <<>>
      BY <1>1, <2>1
    <2>3. LET q == Bare(Head(u.left)) x == VisitNext(u)
          IN  /\ Head(u.left) \in N
              /\ Len(x.left) = Len(Inner(q)) + (Len(u.left) - 1)
              /\ Len(x.name) = Len(u.name) + Len(Piece(q))
              /\ \A i \in 1..Len(Piece(q)) : x.name[Len(u.name) + i] = Piece(q)[i]
      BY ONLY <2>2, OneVisit
    <2>4. QED
      BY <1>1, <2>1, <2>3
  <1>5. Len(Inner(p)) \in Nat /\ Len(Piece(p)) \in Nat
    <2>1. Inner(p) \in Seq(N)
      BY <1>4 DEF AreNodes
    <2>2. QED
      BY <2>1, PieceIsList, LenProperties DEF IsList
  <1>6. Begins(w[n + 1].name, w[Visits].name)
    BY <1>1, NameGrows
  <1> HIDE DEF w, p
  <1>7. ASSUME NEW i \in 1..Len(Piece(p)) PROVE w[Visits].name[Len(w[n].name) + i] = Piece(p)[i]
    <2>1. Len(w[n].name) + i \in 1..Len(w[n + 1].name)
      BY <1>1, <1>4, <1>5
    <2>2. w[Visits].name[Len(w[n].name) + i] = w[n + 1].name[Len(w[n].name) + i]
      BY <1>6, <2>1 DEF Begins
    <2>3. QED
      BY <1>4, <2>2
  <1>8. QED
    BY <1>3, <1>4, <1>5, <1>7 DEF w, p

\* Walks that have come equally far have come to nodes that are alike, and come equally
\* far with the next visit.
LEMMA NextAlike ==
    ASSUME NEW N, AreNodes(N), NEW l \in Seq(N), NEW r \in Seq(N), ~LeavesNoTrace(l), ~LeavesNoTrace(r),
           Walk(l)[Visits].name = Walk(r)[Visits].name,
           NEW n \in 0..Visits - 1, Walk(l)[n].left # <<>>, Walk(r)[n].left # <<>>,
           Len(Walk(l)[n].left) = Len(Walk(r)[n].left), Len(Walk(l)[n].name) = Len(Walk(r)[n].name)
    PROVE  /\ AlikeNodes(Bare(Head(Walk(l)[n].left)), Bare(Head(Walk(r)[n].left)))
           /\ Len(Walk(l)[n + 1].left) = Len(Walk(r)[n + 1].left)
           /\ Len(Walk(l)[n + 1].name) = Len(Walk(r)[n + 1].name)
  <1> DEFINE w == Walk(l)
             v == Walk(r)
             p == Bare(Head(w[n].left))
             q == Bare(Head(v[n].left))
  <1>1. /\ Head(w[n].left) \in N /\ Piece(p) # <<>>
        /\ Len(Inner(p)) \in Nat /\ Len(Piece(p)) \in Nat
        /\ Len(w[n + 1].left) = Len(Inner(p)) + (Len(w[n].left) - 1)
        /\ Len(w[n + 1].name) = Len(w[n].name) + Len(Piece(p))
        /\ \A i \in 1..Len(Piece(p)) : w[Visits].name[Len(w[n].name) + i] = Piece(p)[i]
    BY VisitSeen
  <1>2. /\ Head(v[n].left) \in N /\ Piece(q) # <<>>
        /\ Len(Inner(q)) \in Nat /\ Len(Piece(q)) \in Nat
        /\ Len(v[n + 1].left) = Len(Inner(q)) + (Len(v[n].left) - 1)
        /\ Len(v[n + 1].name) = Len(v[n].name) + Len(Piece(q))
        /\ \A i \in 1..Len(Piece(q)) : v[Visits].name[Len(v[n].name) + i] = Piece(q)[i]
    BY VisitSeen
  <1>3. p.is = "record" /\ q.is = "record" /\ p.name = q.name => p = q
    BY <1>1, <1>2 DEF AreNodes
  <1>4. w[Visits].name = v[Visits].name /\ Len(w[n].left) = Len(v[n].left) /\ Len(w[n].name) = Len(v[n].name)
    OBVIOUS
  <1> HIDE DEF w, v, p, q
  <1>5. \A i \in 1..3 : i <= Len(Piece(p)) /\ i <= Len(Piece(q)) => Piece(p)[i] = Piece(q)[i]
    <2> TAKE i \in 1..3
    <2> HAVE i <= Len(Piece(p)) /\ i <= Len(Piece(q))
    <2>1. i \in 1..Len(Piece(p)) /\ i \in 1..Len(Piece(q))
      BY <1>1, <1>2
    <2>2. QED
      BY <1>1, <1>2, <1>4, <2>1
  <1>6. AlikeNodes(p, q) /\ Len(Piece(p)) = Len(Piece(q))
    BY <1>1, <1>2, <1>3, <1>5, Decoded
  <1>7. Len(Inner(p)) = Len(Inner(q))
    BY <1>6 DEF AlikeNodes
  <1>8. Len(w[n + 1].left) = Len(v[n + 1].left) /\ Len(w[n + 1].name) = Len(v[n + 1].name)
    BY <1>1, <1>2, <1>4, <1>6, <1>7
  <1>9. QED
    BY <1>6, <1>8 DEF w, v, p, q

LEMMA Lockstep ==
    ASSUME NEW N, AreNodes(N), NEW l \in Seq(N), NEW r \in Seq(N), ~LeavesNoTrace(l), ~LeavesNoTrace(r),
           Walk(l)[Visits].name = Walk(r)[Visits].name, Len(l) = Len(r)
    PROVE  AreAlike(l, r)
  <1> DEFINE w == Walk(l)
             v == Walk(r)
             Level(n) == Len(w[n].left) = Len(v[n].left) /\ Len(w[n].name) = Len(v[n].name)
             P == {n \in Nat : n <= Visits => Level(n)}
  <1>1. \A n \in 0..Visits : w[n].left \in Seq(N) /\ v[n].left \in Seq(N)
    BY WalkTypes
  <1>2. \A n \in 0..Visits - 1 : w[n + 1] = VisitNext(w[n]) /\ v[n + 1] = VisitNext(v[n])
    BY WalkSteps
  <1>3. \A n \in 0..Visits : Len(w[n].left) = Len(v[n].left) => (w[n].left = <<>> <=> v[n].left = <<>>)
    <2> TAKE n \in 0..Visits
    <2>1. \A s \in Seq(N) : s = <<>> <=> Len(s) = 0
      BY EmptySeq
    <2>2. QED
      BY <1>1, <2>1
  <1>4. Level(0)
    <2>1. w[0] = [left |-> l, name |-> <<>>] /\ v[0] = [left |-> r, name |-> <<>>]
      BY WalkSteps
    <2>2. w[0].left = l /\ v[0].left = r /\ w[0].name = v[0].name
      BY <2>1
    <2> HIDE DEF w, v
    <2>3. QED
      BY <2>2
  <1>5. ASSUME NEW n \in 0..Visits - 1, Level(n), w[n].left # <<>>
        PROVE  AlikeNodes(Bare(Head(w[n].left)), Bare(Head(v[n].left))) /\ Level(n + 1)
    <2>1. v[n].left # <<>>
      <3>1. n \in 0..Visits
        BY VisitsAssumption
      <3>2. QED
        BY <1>3, <1>5, <3>1
    <2>2. QED
      BY <1>5, <2>1, NextAlike
  <1> HIDE DEF w, v
  <1>6. ASSUME NEW n \in Nat, n \in P PROVE n + 1 \in P
    <2> SUFFICES ASSUME n + 1 <= Visits PROVE Level(n + 1)
      OBVIOUS
    <2>1. n \in 0..Visits - 1 /\ n \in 0..Visits /\ n <= Visits
      BY VisitsAssumption
    <2>2. Level(n)
      BY <1>6, <2>1
    <2>3. CASE w[n].left = <<>>
      BY <1>2, <1>3, <2>1, <2>2, <2>3 DEF VisitNext
    <2>4. CASE w[n].left # <<>>
      BY <1>5, <2>1, <2>2, <2>4
    <2>5. QED
      BY <2>3, <2>4
  <1>7. \A n \in Nat : n \in P
    <2>1. 0 \in P
      BY <1>4
    <2> HIDE DEF P
    <2>2. QED
      BY <1>6, <2>1, AllNumbers
  <1>8. ASSUME NEW n \in 0..Visits
        PROVE  /\ Len(w[n].left) = Len(v[n].left)
               /\ n # Visits /\ w[n].left # <<>> =>
                     AlikeNodes(Bare(Head(w[n].left)), Bare(Head(v[n].left)))
    <2>1. n \in Nat /\ n <= Visits /\ (n # Visits => n \in 0..Visits - 1)
      BY VisitsAssumption
    <2>2. Level(n)
      BY <1>7, <2>1
    <2>3. QED
      BY <1>5, <2>1, <2>2
  <1>9. QED
    BY <1>8 DEF AreAlike, w, v

----------------------------------------------------------------------------
(* Symbols *)

\* Two symbols that are the same have the same kind, name and list of pieces.
LEMMA SymbolsSplit ==
    ASSUME NEW T, NEW N, HasNodes(T, N), NEW f \in T, NEW g \in T, Symbol(f) = Symbol(g)
    PROVE  /\ f.of = g.of /\ f.name = g.name
           /\ Walk(Signature(f))[Visits].name = Walk(Signature(g))[Visits].name
  <1> DEFINE Kind(x) == IF x.of = "declarative" THEN "DI_D" ELSE "DI_I"
             Name(x) == Walk(Signature(x))[Visits].name
  <1>1. ASSUME NEW x \in T
        PROVE  /\ IsList(Name(x)) /\ Len(Name(x)) \in Nat /\ Name(x) = [i \in 1..Len(Name(x)) |-> Name(x)[i]]
               /\ Len(Symbol(x)) = Len(Name(x)) + 2
               /\ Symbol(x)[1] = Kind(x) /\ Symbol(x)[2] = x.name
               /\ \A i \in 1..Len(Name(x)) : Symbol(x)[2 + i] = Name(x)[i]
    <2>1. IsList(Name(x)) /\ Len(Name(x)) \in Nat /\ Name(x) = [i \in 1..Len(Name(x)) |-> Name(x)[i]]
      <3>1. AreNodes(N) /\ Signature(x) \in Seq(N) /\ Visits \in 0..Visits
        BY VisitsAssumption DEF HasNodes
      <3>2. IsList(Name(x))
        BY <3>1, WalkTypes
      <3>3. QED
        BY <3>2 DEF IsList
    <2> DEFINE first == <<Kind(x), x.name>>
    <2>2. IsList(first) /\ Len(first) = 2 /\ first[1] = Kind(x) /\ first[2] = x.name
      BY DEF IsList
    <2>3. Symbol(x) = first \o Name(x)
      BY DEF Symbol
    <2> HIDE DEF first, Kind, Name
    <2>4. /\ Len(Symbol(x)) = Len(first) + Len(Name(x))
          /\ \A i \in 1..Len(first) : Symbol(x)[i] = first[i]
          /\ \A i \in 1..Len(Name(x)) : Symbol(x)[Len(first) + i] = Name(x)[i]
      <3>1. PICK name : name = Name(x)
        OBVIOUS
      <3>2. IsList(first) /\ IsList(name) /\ Symbol(x) = first \o name
        BY <2>1, <2>2, <2>3, <3>1
      <3>3. /\ Len(first \o name) = Len(first) + Len(name)
            /\ \A i \in 1..Len(first) : (first \o name)[i] = first[i]
            /\ \A i \in 1..Len(name) : (first \o name)[Len(first) + i] = name[i]
        BY ONLY <3>2, ListsJoin
      <3>4. QED
        BY <3>1, <3>2, <3>3
    <2>5. QED
      BY <2>1, <2>2, <2>4
  <1> HIDE DEF Name
  <1>2. f.name = g.name /\ Kind(f) = Kind(g)
    BY <1>1
  <1>3. f.of = g.of
    BY <1>2 DEF HasNodes
  <1>4. Name(f) = Name(g)
    <2>1. Len(Name(f)) = Len(Name(g))
      BY <1>1
    <2>2. \A i \in 1..Len(Name(f)) : Name(f)[i] = Name(g)[i]
      BY <1>1, <2>1
    <2>3. QED
      BY <1>1, <2>1, <2>2
  <1>5. QED
    BY <1>2, <1>3, <1>4 DEF Name

LEMMA SymbolsTellApart ==
    ASSUME NEW T, NEW N, HasNodes(T, N), NEW f \in T, NEW g \in T, Symbol(f) = Symbol(g),
           ~LeavesNoTrace(Signature(f)), ~LeavesNoTrace(Signature(g))
    PROVE  f.of = g.of /\ f.name = g.name /\ AreAlike(Signature(f), Signature(g))
  <1>1. AreNodes(N) /\ Signature(f) \in Seq(N) /\ Signature(g) \in Seq(N)
    BY DEF HasNodes
  <1>2. /\ f.of = g.of /\ f.name = g.name
        /\ Walk(Signature(f))[Visits].name = Walk(Signature(g))[Visits].name
    BY SymbolsSplit
  <1>3. Len(Signature(f)) = Len(Signature(g))
    BY <1>2 DEF HasNodes
  <1>4. QED
    BY <1>1, <1>2, <1>3, Lockstep

\* The functions to visit and those made are definitions of the module.
NameInv == \E T, N : HasNodes(T, N) /\ pending \in Seq(T) /\ made \in Seq(T)

HaveNodes == \A m \in Modules : \E T, N : HasNodes(T, N) /\ m.functions \in Seq(T)

LEMMA NamesKept ==
    ASSUME HaveNodes, NameInv, [CodegenNext]_codegenVars
    PROVE  NameInv'
  <1>1. PICK T, N : HasNodes(T, N) /\ pending \in Seq(T) /\ made \in Seq(T)
    BY DEF NameInv
  <1>2. ASSUME pending' \in Seq(T), made' \in Seq(T) PROVE NameInv'
    BY <1>1, <1>2 DEF NameInv
  <1>3. ASSUME NEW m \in Modules, Accept(m) PROVE NameInv'
    <2>1. PICK S, K : HasNodes(S, K) /\ m.functions \in Seq(S)
      BY DEF HaveNodes
    <2>2. pending' \in Seq(S) /\ made' \in Seq(S)
      BY <1>3, <2>1, EmptySeq DEF Accept
    <2>3. QED
      BY <2>1, <2>2 DEF NameInv
  <1>4. \A f \in Upcoming : f \in T /\ Tail(pending) \in Seq(T)
    <2> TAKE f \in Upcoming
    <2>1. 1 \in 1..Len(pending) /\ f = pending[1]
      BY DEF Upcoming
    <2>2. pending # <<>>
      BY <1>1, <2>1, EmptySeq
    <2>3. QED
      BY <1>1, <2>1, <2>2, ElementOfSeq, HeadTailProperties
  <1>5. CASE EnterFunction
    <2>1. PICK f \in Upcoming : pending' = Tail(pending) /\ made' = Append(made, f)
      BY <1>5 DEF EnterFunction
    <2>2. QED
      BY <1>1, <1>2, <1>4, <2>1, AppendProperties
  <1>6. CASE ImportFunction
    BY <1>1, <1>2, <1>4, <1>6 DEF ImportFunction
  <1>7. CASE ImportWithoutFunction
    BY <1>1, <1>2, <1>4, <1>7 DEF ImportWithoutFunction, Crashes
  <1>8. CASE EndFunction \/ VisitExpression \/ VisitIf \/ LeaveThen \/ LeaveElse \/ VisitFor
               \/ LeaveFor \/ VisitBreak \/ VisitContinue
    <2>1. UNCHANGED <<pending, made>>
      BY <1>8 DEF EndFunction, VisitExpression, VisitIf, LeaveThen, LeaveElse, VisitFor, LeaveFor,
                  VisitBreak, VisitContinue, Crashes
    <2>2. QED
      BY <1>1, <1>2, <2>1
  <1>9. CASE UNCHANGED codegenVars
    BY <1>1, <1>2, <1>9 DEF codegenVars
  <1>10. CASE NameFails
    BY <1>1, <1>2, <1>10 DEF NameFails, Crashes
  <1>11. QED
    BY <1>3, <1>5, <1>6, <1>7, <1>8, <1>9, <1>10 DEF CodegenNext, Emission

\* However signatures are nested, two functions that are exported under one symbol are of one
\* kind and name, with trees of the same types and function terms for their result and
\* arguments: a symbol loses nothing of a signature but the nodes that leave no trace.
THEOREM SymbolsAreDistinct ==
    ASSUME HaveNodes
    PROVE  CodegenSpec => []DistinctSymbols
  <1>1. CodegenInit => NameInv
    <2> SUFFICES ASSUME CodegenInit PROVE NameInv
      OBVIOUS
    <2>1. HasNodes({}, {})
      BY DEF HasNodes, AreNodes
    <2>2. pending \in Seq({}) /\ made \in Seq({})
      BY EmptySeq DEF CodegenInit
    <2>3. QED
      BY <2>1, <2>2 DEF NameInv
  <1>2. NameInv /\ [CodegenNext]_codegenVars => NameInv'
    BY NamesKept
  <1>3. NameInv => DistinctSymbols
    <2> SUFFICES ASSUME NameInv, NEW f \in Exported, NEW g \in Exported,
                        Symbol(made[f]) = Symbol(made[g]),
                        ~LeavesNoTrace(Signature(made[f])), ~LeavesNoTrace(Signature(made[g]))
                 PROVE  /\ made[f].of = made[g].of /\ made[f].name = made[g].name
                        /\ AreAlike(Signature(made[f]), Signature(made[g]))
      BY DEF DistinctSymbols
    <2>1. PICK T, N : HasNodes(T, N) /\ made \in Seq(T)
      BY DEF NameInv
    <2>2. made[f] \in T /\ made[g] \in T
      BY <2>1, ElementOfSeq, LenProperties DEF Exported
    <2>3. QED
      BY <2>1, <2>2, SymbolsTellApart
  <1>4. QED
    BY <1>1, <1>2, <1>3, PTL DEF CodegenSpec

=============================================================================
