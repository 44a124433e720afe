----------------------------- MODULE UnifyProofs -----------------------------
(***************************************************************************)
(* Unification is correct for every heap: the invariant UnifyInv relates   *)
(* what _DI_unify has linked, and has still to do, to the unifiers of the  *)
(* terms it was called with.  General: they all make that equal.  Built:   *)
(* what it has linked, with what is still to do, makes a unifier.  So the  *)
(* answers are right, and the unifier found is the most general one.       *)
(***************************************************************************)
EXTENDS UnifyCorrect, FiniteSetTheorems, SequenceTheorems, WellFoundedInduction, TLAPS

\* Induction, from the least element of a set of numbers.
LEMMA LessThan ==
    ASSUME NEW T, T \subseteq Nat, T # {}
    PROVE  \E n \in T : \A m \in T : n <= m
  <1> DEFINE less == OpToRel(<, Nat)
  <1>1. \A m, n \in Nat : m < n => <<m, n>> \in less
    BY DEF OpToRel
  <1> HIDE DEF less
  <1>2. IsWellFoundedOn(less, Nat)
    BY NatLessThanWellFounded DEF less
  <1>3. PICK n \in T : \A m \in T : <<m, n>> \notin less
    BY <1>2, WFMin
  <1>4. \A m \in T : ~ (m < n)
    BY <1>1, <1>3
  <1>5. \A m \in T : n <= m
    BY <1>4
  <1>6. QED
    BY <1>5

\* A set that holds 0 and the successors of its members holds every natural number.
LEMMA Induction ==
    ASSUME NEW P, 0 \in P, \A n \in Nat : n \in P => n + 1 \in P
    PROVE  Nat \subseteq P
  <1>1. SUFFICES ASSUME Nat \ P # {} PROVE FALSE
    OBVIOUS
  <1>2. PICK n \in Nat \ P : \A m \in Nat \ P : n <= m
    BY <1>1, LessThan
  <1>3. n # 0 /\ n - 1 \in Nat /\ n - 1 \in P
    BY <1>2
  <1>4. QED
    BY <1>2, <1>3

\* f[n] is what n applications of g make of x.
Iterated(S, g, x, k, f) ==
    f \in [0..k -> S] /\ f[0] = x /\ \A n \in 1..k : f[n] = g[f[n - 1]]

\* A function can be applied any number of times.
LEMMA Iterates ==
    ASSUME NEW S, NEW g \in [S -> S], NEW x \in S, NEW k \in Nat
    PROVE  \E f : Iterated(S, g, x, k, f)
  <1> DEFINE P == {m \in Nat : \E f : Iterated(S, g, x, m, f)}
  <1>1. 0 \in P
    <2> DEFINE f == [n \in 0..0 |-> x]
    <2>1. Iterated(S, g, x, 0, f)
      BY DEF Iterated
    <2> HIDE DEF f
    <2>2. QED
      BY <2>1
  <1>2. ASSUME NEW m \in Nat, m \in P PROVE m + 1 \in P
    <2>1. PICK f : Iterated(S, g, x, m, f)
      BY <1>2
    <2> DEFINE h == [n \in 0..(m + 1) |-> IF n = m + 1 THEN g[f[m]] ELSE f[n]]
    <2>2. h \in [0..(m + 1) -> S]
      BY <2>1 DEF Iterated
    <2>3. h[0] = x
      BY <2>1 DEF Iterated
    <2>4. ASSUME NEW n \in 1..(m + 1) PROVE h[n] = g[h[n - 1]]
      <3>1. n - 1 \in 0..m /\ h[n - 1] = f[n - 1]
        OBVIOUS
      <3>2. CASE n = m + 1
        BY <3>1, <3>2
      <3>3. CASE n # m + 1
        BY <2>1, <3>1, <3>3 DEF Iterated
      <3>4. QED
        BY <3>2, <3>3
    <2> HIDE DEF h
    <2>5. Iterated(S, g, x, m + 1, h)
      BY <2>2, <2>3, <2>4 DEF Iterated
    <2>6. QED
      BY <2>5
  <1>3. QED
    BY <1>1, <1>2, Induction

-----------------------------------------------------------------------------
(* followSetVars                                                           *)

\* A heap in which a bound variable is bound to a representation.
IsHeap(m) == m \in [Addr -> Cell] /\ \A a \in Addr : Bound(m, a) => m[a].word \in Addr

\* One step along a chain.
Target(m, b) == IF Bound(m, b) THEN m[b].word ELSE b

\* The steps of the search for the end of a chain.
LEMMA FollowSteps ==
    ASSUME NEW m, IsHeap(m), NEW a \in Addr
    PROVE  \E f \in [0..N -> Addr] :
              f[0] = a /\ (\A n \in 1..N : f[n] = Target(m, f[n - 1])) /\ f[N] = Follow(m, a)
  <1>0. PICK g : g = [b \in Addr |-> Target(m, b)]
    OBVIOUS
  <1> DEFINE Body(f) == [n \in 0..N |-> IF n = 0 THEN a ELSE Target(m, f[n - 1])]
             after == CHOOSE f : f = Body(f)
  <1>1. N \in Nat /\ N \in 0..N
    BY ConstantsAssumption
  <1>2. g \in [Addr -> Addr] /\ a \in Addr
    BY <1>0 DEF IsHeap, Target
  <1>3. PICK f : Iterated(Addr, g, a, N, f)
    BY <1>1, <1>2, Iterates
  <1>4. ASSUME NEW n \in 1..N PROVE f[n] = Target(m, f[n - 1])
    <2>1. n - 1 \in 0..N
      BY <1>1
    <2>2. QED
      BY <1>0, <1>3, <2>1 DEF Iterated
  <1>5. f = Body(f)
    BY <1>1, <1>3, <1>4 DEF Iterated
  <1>6. after = Body(after)
    BY <1>5
  <1>7. Follow(m, a) = after[N]
    BY DEF Follow, Target
  <1> HIDE DEF after
  <1>8. after[0] = a /\ \A n \in 1..N : after[n] = Target(m, after[n - 1])
    BY <1>1, <1>6
  <1> DEFINE P == {n \in Nat : n <= N => after[n] \in Addr}
  <1>9. 0 \in P
    BY <1>8
  <1>10. ASSUME NEW n \in Nat, n \in P PROVE n + 1 \in P
    <2> SUFFICES ASSUME n + 1 <= N PROVE after[n + 1] \in Addr
      OBVIOUS
    <2>1. after[n] \in Addr /\ n + 1 \in 1..N
      BY <1>1, <1>10
    <2>2. after[n + 1] = Target(m, after[n])
      BY <1>8, <2>1
    <2>3. QED
      BY <2>1, <2>2 DEF IsHeap, Target
  <1>11. Nat \subseteq P
    BY <1>9, <1>10, Induction
  <1>12. after \in [0..N -> Addr]
    BY <1>1, <1>6, <1>11
  <1>13. QED
    BY <1>7, <1>8, <1>12

\* What holds of a term, and of what a variable is bound to if it holds of the
\* variable, holds of the end of the chain.
LEMMA FollowStays ==
    ASSUME NEW m, IsHeap(m), NEW S, S \subseteq Addr, NEW a \in S,
           \A b \in S : Bound(m, b) => m[b].word \in S
    PROVE  Follow(m, a) \in S
  <1>1. PICK f \in [0..N -> Addr] :
           f[0] = a /\ (\A n \in 1..N : f[n] = Target(m, f[n - 1])) /\ f[N] = Follow(m, a)
    BY FollowSteps
  <1> DEFINE P == {n \in Nat : n <= N => f[n] \in S}
  <1>2. 0 \in P /\ N \in Nat
    BY <1>1, ConstantsAssumption
  <1>3. ASSUME NEW n \in Nat, n \in P PROVE n + 1 \in P
    <2> SUFFICES ASSUME n + 1 <= N PROVE f[n + 1] \in S
      OBVIOUS
    <2>1. f[n] \in S /\ n + 1 \in 1..N
      BY <1>2, <1>3
    <2>2. f[n + 1] = Target(m, f[n])
      BY <1>1, <2>1
    <2>3. QED
      BY <2>1, <2>2 DEF Target
  <1>4. Nat \subseteq P
    BY <1>2, <1>3, Induction
  <1>5. QED
    BY <1>1, <1>2, <1>4

\* followSetVars returns a representation, and one of the class of its argument.
LEMMA FollowTyped ==
    ASSUME NEW m, IsHeap(m), NEW a \in Addr
    PROVE  Follow(m, a) \in Addr
  BY FollowStays DEF IsHeap

\* A relation that makes variables equal to what they are bound to makes a term
\* equal to the end of its chain.
LEMMA FollowKeeps ==
    ASSUME NEW m, IsHeap(m), NEW a \in Addr, NEW class, RespectsLinks(m, class)
    PROVE  class[Follow(m, a)] = class[a]
  <1> DEFINE S == {b \in Addr : class[b] = class[a]}
  <1>1. \A b \in S : Bound(m, b) => m[b].word \in S
    BY DEF IsHeap, RespectsLinks
  <1>2. a \in S /\ S \subseteq Addr
    OBVIOUS
  <1> HIDE DEF S
  <1>3. Follow(m, a) \in S
    BY <1>1, <1>2, FollowStays
  <1>4. QED
    BY <1>3 DEF S

\* No chain of a heap in which bound variables are bound to older terms is longer
\* than N.
LEMMA OlderEnds ==
    ASSUME NEW m, IsHeap(m), \A b \in Addr : Bound(m, b) => m[b].word < b, NEW a \in Addr
    PROVE  ChainEnds(m, a)
  <1>1. PICK f \in [0..N -> Addr] :
           f[0] = a /\ (\A n \in 1..N : f[n] = Target(m, f[n - 1])) /\ f[N] = Follow(m, a)
    BY FollowSteps
  <1> DEFINE P == {n \in Nat : n <= N => ~Bound(m, f[n]) \/ f[n] <= a - n}
  <1>2. 0 \in P /\ N \in Nat /\ a \in 1..N
    BY <1>1, ConstantsAssumption DEF Addr
  <1>3. ASSUME NEW n \in Nat, n \in P PROVE n + 1 \in P
    <2> SUFFICES ASSUME n + 1 <= N PROVE ~Bound(m, f[n + 1]) \/ f[n + 1] <= a - (n + 1)
      OBVIOUS
    <2>1. n + 1 \in 1..N /\ n \in 0..N /\ (n + 1) - 1 = n
      BY <1>2
    <2>2. f[n + 1] = Target(m, f[n]) /\ f[n] \in Addr
      BY <1>1, <2>1
    <2>3. CASE ~Bound(m, f[n])
      BY <2>2, <2>3 DEF Target
    <2>4. CASE Bound(m, f[n])
      <3>1. f[n] <= a - n
        BY <1>3, <2>1, <2>4
      <3>2. f[n + 1] = m[f[n]].word /\ m[f[n]].word < f[n] /\ m[f[n]].word \in Addr
        BY <2>2, <2>4 DEF Target, IsHeap
      <3>3. f[n + 1] < f[n] /\ f[n + 1] \in Nat /\ f[n] \in Nat
        BY <1>2, <2>2, <3>2 DEF Addr
      <3>4. QED
        BY <1>2, <3>1, <3>3
    <2>5. QED
      BY <2>3, <2>4
  <1>4. Nat \subseteq P
    BY <1>2, <1>3, Induction
  <1>5. ~Bound(m, f[N]) \/ f[N] <= a - N
    BY <1>2, <1>4
  <1>6. f[N] \in 1..N
    BY <1>1, <1>2 DEF Addr
  <1>7. QED
    BY <1>1, <1>2, <1>5, <1>6 DEF ChainEnds

-----------------------------------------------------------------------------
(* The terms below a term                                                  *)

\* One step of the search.
AddLinks(m, S) == S \cup UNION {Links(m, b) : b \in S}

LinksInside(m) == \A b \in Addr : Links(m, b) \subseteq Addr

\* The steps of the search.
LEMMA ReachableSteps ==
    ASSUME NEW m, LinksInside(m), NEW a \in Addr
    PROVE  \E f \in [0..N -> SUBSET Addr] :
              f[0] = {a} /\ (\A n \in 1..N : f[n] = AddLinks(m, f[n - 1])) /\ f[N] = Reachable(m, a)
  <1>0. PICK g : g = [S \in SUBSET Addr |-> AddLinks(m, S)]
    OBVIOUS
  <1> DEFINE Body(f) == [n \in 0..N |-> IF n = 0 THEN {a} ELSE AddLinks(m, f[n - 1])]
             within == CHOOSE f : f = Body(f)
  <1>1. N \in Nat /\ N \in 0..N
    BY ConstantsAssumption
  <1>2. \A S \in SUBSET Addr : AddLinks(m, S) \in SUBSET Addr
    BY DEF LinksInside, AddLinks
  <1>3. g \in [SUBSET Addr -> SUBSET Addr] /\ {a} \in SUBSET Addr
    BY <1>0, <1>2
  <1>4. PICK f : Iterated(SUBSET Addr, g, {a}, N, f)
    BY <1>1, <1>3, Iterates
  <1>5. ASSUME NEW n \in 1..N PROVE f[n] = AddLinks(m, f[n - 1])
    <2>1. n - 1 \in 0..N
      BY <1>1
    <2>2. QED
      BY <1>0, <1>4, <2>1 DEF Iterated
  <1>6. f = Body(f)
    BY <1>1, <1>4, <1>5 DEF Iterated
  <1>7. within = Body(within)
    BY <1>6
  <1>8. Reachable(m, a) = within[N]
    BY DEF Reachable, AddLinks
  <1> HIDE DEF within
  <1>9. within[0] = {a} /\ \A n \in 1..N : within[n] = AddLinks(m, within[n - 1])
    <2>1. 0 \in 0..N /\ \A n \in 1..N : n \in 0..N /\ n # 0
      BY <1>1
    <2>2. \A n \in 0..N : within[n] = IF n = 0 THEN {a} ELSE AddLinks(m, within[n - 1])
      BY <1>7, Zenon
    <2>3. QED
      BY <2>1, <2>2
  <1> DEFINE P == {n \in Nat : n <= N => within[n] \in SUBSET Addr}
  <1>10. 0 \in P
    BY <1>9
  <1>11. ASSUME NEW n \in Nat, n \in P PROVE n + 1 \in P
    <2> SUFFICES ASSUME n + 1 <= N PROVE within[n + 1] \in SUBSET Addr
      OBVIOUS
    <2>1. within[n] \in SUBSET Addr /\ n + 1 \in 1..N
      BY <1>1, <1>11
    <2>2. within[n + 1] = AddLinks(m, within[n])
      BY <1>9, <2>1
    <2>3. QED
      BY <1>2, <2>1, <2>2
  <1>12. Nat \subseteq P
    BY <1>10, <1>11, Induction
  <1>13. within \in [0..N -> SUBSET Addr]
    BY <1>1, <1>7, <1>12
  <1>14. QED
    BY <1>8, <1>9, <1>13

\* A set of terms that holds what its terms refer to holds what is below them.
LEMMA ReachableStays ==
    ASSUME NEW m, LinksInside(m), NEW S, S \subseteq Addr, NEW a \in S,
           \A b \in S : Links(m, b) \subseteq S
    PROVE  Reachable(m, a) \subseteq S
  <1>1. PICK f \in [0..N -> SUBSET Addr] :
           f[0] = {a} /\ (\A n \in 1..N : f[n] = AddLinks(m, f[n - 1])) /\ f[N] = Reachable(m, a)
    BY ReachableSteps
  <1> DEFINE P == {n \in Nat : n <= N => f[n] \subseteq S}
  <1>2. 0 \in P /\ N \in Nat
    BY <1>1, ConstantsAssumption
  <1>3. ASSUME NEW n \in Nat, n \in P PROVE n + 1 \in P
    <2> SUFFICES ASSUME n + 1 <= N PROVE f[n + 1] \subseteq S
      OBVIOUS
    <2>1. f[n] \subseteq S /\ n + 1 \in 1..N
      BY <1>2, <1>3
    <2>2. f[n + 1] = AddLinks(m, f[n])
      BY <1>1, <2>1
    <2>3. QED
      BY <2>1, <2>2 DEF AddLinks
  <1>4. Nat \subseteq P
    BY <1>2, <1>3, Induction
  <1>5. QED
    BY <1>1, <1>2, <1>4

\* N steps are enough: each one that is not the last adds a term.
LEMMA ReachableClosed ==
    ASSUME NEW m, LinksInside(m), NEW a \in Addr
    PROVE  /\ a \in Reachable(m, a) /\ Reachable(m, a) \subseteq Addr
           /\ \A b \in Reachable(m, a) : Links(m, b) \subseteq Reachable(m, a)
  <1>1. PICK f \in [0..N -> SUBSET Addr] :
           f[0] = {a} /\ (\A n \in 1..N : f[n] = AddLinks(m, f[n - 1])) /\ f[N] = Reachable(m, a)
    BY ReachableSteps
  <1>2. N \in Nat /\ Addr = 1..N
    BY ConstantsAssumption DEF Addr
  <1>3. IsFiniteSet(Addr) /\ Cardinality(Addr) = N
    <2>1. IsFiniteSet(1..N) /\ Cardinality(1..N) = IF 1 > N THEN 0 ELSE N - 1 + 1
      BY <1>2, FS_Interval
    <2>2. QED
      BY <1>2, <2>1
  <1> HIDE DEF Addr
  <1> DEFINE Done(n) == AddLinks(m, f[n]) = f[n]
             P == {n \in Nat : n <= N => a \in f[n] /\ (Done(n) \/ Cardinality(f[n]) > n)}
  <1>4. \A n \in 0..N : IsFiniteSet(f[n]) /\ Cardinality(f[n]) \in Nat
    BY <1>1, <1>3, FS_Subset, FS_CardinalityType
  <1>5. 0 \in P
    <2>1. Cardinality({a}) = 1
      BY FS_Singleton
    <2>2. QED
      BY <1>1, <2>1
  <1>6. ASSUME NEW n \in Nat, n \in P PROVE n + 1 \in P
    <2> SUFFICES ASSUME n + 1 <= N
                 PROVE  a \in f[n + 1] /\ (Done(n + 1) \/ Cardinality(f[n + 1]) > n + 1)
      OBVIOUS
    <2>1. n \in 0..N /\ n + 1 \in 0..N /\ n + 1 \in 1..N /\ n <= N
      BY <1>2
    <2>2. f[n + 1] = AddLinks(m, f[n]) /\ a \in f[n] /\ (Done(n) \/ Cardinality(f[n]) > n)
      BY <1>1, <1>6, <2>1
    <2>3. f[n] \subseteq f[n + 1] /\ a \in f[n + 1]
      BY <2>2 DEF AddLinks
    <2>4. CASE Done(n)
      <3>1. f[n + 1] = f[n]
        BY <2>2, <2>4
      <3>2. QED
        BY <2>3, <2>4, <3>1
    <2>5. CASE ~Done(n)
      <3>1. f[n + 1] # f[n]
        BY <2>2, <2>5
      <3>2. Cardinality(f[n]) < Cardinality(f[n + 1])
        BY <1>4, <2>1, <2>3, <3>1, FS_Subset
      <3>3. QED
        BY <1>4, <2>1, <2>2, <2>3, <2>5, <3>2
    <2>6. QED
      BY <2>4, <2>5
  <1>7. Nat \subseteq P
    BY <1>5, <1>6, Induction
  <1>8. a \in f[N] /\ (Done(N) \/ Cardinality(f[N]) > N)
    BY <1>2, <1>7
  <1>9. N \in 0..N /\ f[N] \in SUBSET Addr
    BY <1>1, <1>2
  <1>10. Cardinality(f[N]) <= N
    BY <1>3, <1>9, FS_Subset
  <1>11. Done(N)
    BY <1>2, <1>4, <1>8, <1>9, <1>10
  <1>12. \A b \in f[N] : Links(m, b) \subseteq f[N]
    BY <1>11 DEF AddLinks
  <1>13. QED
    BY <1>1, <1>8, <1>9, <1>12

-----------------------------------------------------------------------------
(* The invariant                                                           *)

\* An entry of todo.
Pair == [op : {"unify", "verify"}, lhs : Addr, rhs : Addr]

\* A heap as a program builds it.
IsGiven(g) ==
    /\ IsHeap(g)
    /\ \A a \in Addr : Bound(g, a) => g[a].word < a
    /\ \A a \in Addr : g[a].type \in Compound => g[a].set
    /\ \A a \in Addr : g[a].type \notin Compound => g[a].subterms = <<>>

\* A representation after recordInSubstitution.
Overwritten(cell, data) ==
    [type |-> "Variable", set |-> TRUE, annotated |-> cell.annotated, word |-> data,
     tag |-> cell.tag, subterms |-> <<>>]

\* Representations are as they were given, or had no value and are bound now.
Kept ==
    \A a \in Addr :
        \/ mem[a] = given.mem[a]
        \/ ~given.mem[a].set /\ mem[a] = Overwritten(given.mem[a], mem[a].word)

\* F makes the terms equal that are still to be unified.
Equates(F, list) == \A p \in Range(list) : p.op = "unify" => F[p.lhs] = F[p.rhs]

\* Whatever a unifier makes equal is bound or still to be unified: nothing else is.
General == \A class \in Equating : RespectsLinks(mem, class) /\ Equates(class, todo)

\* F makes equal what class does.
Coarser(F, class) == \A a, b \in Addr : class[a] = class[b] => F[a] = F[b]

\* No two terms that are equal so far differ.  When those that are still to be
\* unified are equal too, then so are the roots, and the subterms of equal terms.
\* A term that can still be bound is equal to none that cannot follow it.
Builds(class) ==
    /\ RespectsLinks(mem, class)
    /\ \A a, b \in Addr : class[a] = class[b] => ~Differ(given.mem, a, b)
    /\ \A F \in [Addr -> Addr] :
          Coarser(F, class) /\ Equates(F, todo) =>
              /\ F[given.lhs] = F[given.rhs]
              /\ \A a, b \in Addr : class[a] = class[b] =>
                    \A i \in DOMAIN given.mem[a].subterms \cap DOMAIN given.mem[b].subterms :
                        F[given.mem[a].subterms[i]] = F[given.mem[b].subterms[i]]
    /\ \A a, b \in Addr : class[a] = class[b] /\ ~mem[a].set => b = a \/ Bound(mem, b)
    /\ \A a, b \in Addr :
          class[a] = class[b] /\ IsUnsetVar(mem, a) => given.mem[b].type = "Variable"

Built == \E class \in Partitions : Builds(class)

\* _DI_unify looks at the terms below the roots only.
Under == Reachable(given.mem, given.lhs) \cup Reachable(given.mem, given.rhs)

Inside ==
    /\ \A p \in Range(todo) : p.lhs \in Under /\ p.rhs \in Under
    /\ \A a \in Under : Bound(mem, a) => mem[a].word \in Under

\* The inductive invariant.
UnifyInv ==
    /\ TypeOK /\ IsGiven(given.mem) /\ Kept /\ General /\ Built /\ Inside
    /\ result = "true" => todo = <<>>

-----------------------------------------------------------------------------
(* The first state                                                         *)

\* What a representation may be when a program builds it.
LEMMA CellsTyped ==
    ASSUME NEW a \in Addr, NEW c \in CellsAt(a)
    PROVE  /\ c \in Cell
           /\ c.type = "Variable" /\ c.set => c.word \in 1..(a - 1)
           /\ c.type \in Compound => c.set
           /\ c.type \notin Compound => c.subterms = <<>>
  <1> DEFINE older == 1..(a - 1)
             noTag == {CHOOSE t \in Tags : TRUE}
             subterms == {<<>>} \cup {<<b>> : b \in older} \cup (older \X older)
  <1>1. \/ c \in Cells({"Int", "Bool", "Variable"}, FALSE, {Junk}, noTag, {<<>>})
        \/ c \in Cells({"Ptr"}, FALSE, {Junk}, Tags, {<<>>})
        \/ c \in Cells({"Int", "Bool"}, TRUE, Values, noTag, {<<>>})
        \/ c \in Cells({"Ptr"}, TRUE, older, Tags, {<<>>})
        \/ c \in Cells({"Variable"}, TRUE, older, noTag, {<<>>})
        \/ c \in Cells(Compound, TRUE, {Junk}, Tags, subterms)
    BY Zenon DEF CellsAt
  <1>2. noTag \subseteq Tags
    BY ConstantsAssumption
  <1>3. older \subseteq Addr
    BY ConstantsAssumption DEF Addr
  <1>4. subterms \subseteq Seq(Addr)
    <2>1. ASSUME NEW s \in subterms PROVE s \in Seq(Addr)
      <3>1. CASE s \in {<<b>> : b \in older}
        <4>1. PICK b \in older : s = <<b>>
          BY <3>1
        <4>2. b \in Addr
          BY <1>3
        <4>3. QED
          BY <4>1, <4>2
      <3>2. CASE s \in older \X older
        <4>1. PICK b \in older, d \in older : s = <<b, d>>
          BY <3>2
        <4>2. b \in Addr /\ d \in Addr
          BY <1>3
        <4>3. QED
          BY <4>1, <4>2
      <3>3. CASE s = <<>>
        BY <3>3
      <3>4. QED
        BY <3>1, <3>2, <3>3
    <2>2. QED
      BY <2>1
  <1> HIDE DEF older, noTag, subterms
  <1>6. {"Int", "Bool", "Variable", "Ptr"} \subseteq TypeIds \ Compound /\ Compound \subseteq TypeIds
        /\ {<<>>} \subseteq Seq(Addr) /\ "Variable" \notin Compound
    BY DEF TypeIds, Compound
  <1>7. CASE c \in Cells(Compound, TRUE, {Junk}, Tags, subterms)
    BY <1>4, <1>6, <1>7 DEF Cells, Cell
  <1>8. CASE c \in Cells({"Variable"}, TRUE, older, noTag, {<<>>})
    <2>1. c \in Cell /\ c.type = "Variable" /\ c.word \in older /\ c.subterms = <<>>
      BY <1>2, <1>3, <1>6, <1>8 DEF Cells, Cell
    <2>2. QED
      BY <1>6, <2>1 DEF older
  <1>9. CASE c \in Cells({"Ptr"}, TRUE, older, Tags, {<<>>})
    <2>1. c \in Cell /\ c.type = "Ptr" /\ c.subterms = <<>>
      BY <1>3, <1>6, <1>9 DEF Cells, Cell
    <2>2. QED
      BY <2>1 DEF Compound
  <1>10. CASE c \in Cells({"Int", "Bool"}, TRUE, Values, noTag, {<<>>})
    <2>1. c \in Cell /\ c.type \in {"Int", "Bool"} /\ c.subterms = <<>>
      BY <1>2, <1>6, <1>10 DEF Cells, Cell
    <2>2. QED
      BY <2>1 DEF Compound
  <1>11. CASE c \in Cells({"Ptr"}, FALSE, {Junk}, Tags, {<<>>})
    <2>1. c \in Cell /\ c.type = "Ptr" /\ c.subterms = <<>>
      BY <1>6, <1>11 DEF Cells, Cell
    <2>2. QED
      BY <2>1 DEF Compound
  <1>12. CASE c \in Cells({"Int", "Bool", "Variable"}, FALSE, {Junk}, noTag, {<<>>})
    <2>1. c \in Cell /\ c.type \in {"Int", "Bool", "Variable"} /\ c.set = FALSE /\ c.subterms = <<>>
      BY <1>2, <1>6, <1>12 DEF Cells, Cell
    <2>2. QED
      BY <2>1 DEF Compound
  <1>13. QED
    BY <1>1, <1>7, <1>8, <1>9, <1>10, <1>11, <1>12

\* The body of the recursive function of HeapsOf.
Heaps(f, k) ==
    IF k = 0 THEN {<<>>} ELSE {Append(h, cell) : h \in f[k - 1], cell \in CellsAt(k)}

\* The recursive definition of HeapsOf has a solution.
LEMMA HeapsExist ==
    ASSUME NEW n \in Nat
    PROVE  \E f : f = [k \in 0..n |-> Heaps(f, k)]
  <1> DEFINE P == {m \in Nat : \E f : f = [k \in 0..m |-> Heaps(f, k)]}
  <1>1. 0 \in P
    <2> DEFINE f == [k \in 0..0 |-> {<<>>}]
    <2>1. f = [k \in 0..0 |-> Heaps(f, k)]
      BY DEF Heaps
    <2>2. QED
      BY <2>1
  <1>2. ASSUME NEW m \in Nat, m \in P PROVE m + 1 \in P
    <2>1. PICK f : f = [k \in 0..m |-> Heaps(f, k)]
      BY <1>2
    <2> DEFINE g == [k \in 0..(m + 1) |-> IF k = m + 1 THEN Heaps(f, k) ELSE f[k]]
    <2>2. ASSUME NEW k \in 0..(m + 1) PROVE g[k] = Heaps(g, k)
      <3>1. k # 0 => g[k - 1] = f[k - 1]
        OBVIOUS
      <3>2. Heaps(g, k) = Heaps(f, k)
        <4>1. CASE k = 0
          BY <4>1 DEF Heaps
        <4>2. CASE k # 0
          <5>1. PICK T : T = g[k - 1] /\ T = f[k - 1]
            BY <3>1, <4>2
          <5>2. QED
            BY <4>2, <5>1 DEF Heaps
        <4>3. QED
          BY <4>1, <4>2
      <3>3. k # m + 1 => f[k] = Heaps(f, k)
        BY <2>1
      <3>4. QED
        BY <3>2, <3>3
    <2>3. g = [k \in 0..(m + 1) |-> Heaps(g, k)]
      BY <2>2
    <2> HIDE DEF g
    <2>4. m + 1 \in Nat /\ \E h : h = [k \in 0..(m + 1) |-> Heaps(h, k)]
      BY <2>3
    <2>5. QED
      BY <2>4
  <1>3. QED
    BY <1>1, <1>2, Induction

\* A heap of k representations.
IsBuilt(h, k) == h \in Seq(Cell) /\ Len(h) = k /\ \A a \in 1..k : h[a] \in CellsAt(a)

\* A heap grows by one representation.
LEMMA AddCell ==
    ASSUME NEW k \in Nat, k + 1 \in Addr, NEW h, IsBuilt(h, k), NEW cell \in CellsAt(k + 1)
    PROVE  IsBuilt(Append(h, cell), k + 1)
  <1>1. cell \in Cell
    BY CellsTyped
  <1>2. h \in Seq(Cell) /\ Len(h) = k
    BY DEF IsBuilt
  <1>3. /\ Append(h, cell) \in Seq(Cell) /\ Len(Append(h, cell)) = k + 1
        /\ \A a \in 1..k : Append(h, cell)[a] = h[a]
        /\ Append(h, cell)[k + 1] = cell
    <2>1. PICK C : C = Cell
      OBVIOUS
    <2>2. h \in Seq(C) /\ cell \in C /\ Len(h) = k
      BY <1>1, <1>2, <2>1
    <2>3. /\ Append(h, cell) \in Seq(C) /\ Len(Append(h, cell)) = k + 1
          /\ \A a \in 1..k : Append(h, cell)[a] = h[a]
          /\ Append(h, cell)[k + 1] = cell
      BY <2>2
    <2>4. QED
      BY <2>1, <2>3
  <1>4. \A a \in 1..(k + 1) : a \in 1..k \/ a = k + 1
    OBVIOUS
  <1>5. QED
    BY <1>3, <1>4 DEF IsBuilt

\* The heaps of HeapsOf.
LEMMA HeapsTyped ==
    ASSUME NEW n \in Nat, n <= N, NEW h \in HeapsOf(n)
    PROVE  IsBuilt(h, n)
  <1> DEFINE upTo == CHOOSE f : f = [k \in 0..n |-> Heaps(f, k)]
             P == {k \in Nat : k <= n => \A older \in upTo[k] : IsBuilt(older, k)}
  <1>1. upTo = [k \in 0..n |-> Heaps(upTo, k)]
    BY HeapsExist
  <1>2. HeapsOf(n) = upTo[n]
    BY DEF HeapsOf, Heaps
  <1> HIDE DEF upTo
  <1>3. 0 \in P
    <2>1. upTo[0] = {<<>>}
      BY <1>1 DEF Heaps
    <2>2. IsBuilt(<<>>, 0)
      BY DEF IsBuilt
    <2>3. QED
      BY <2>1, <2>2
  <1>4. ASSUME NEW k \in Nat, k \in P PROVE k + 1 \in P
    <2> SUFFICES ASSUME k + 1 <= n, NEW new \in upTo[k + 1] PROVE IsBuilt(new, k + 1)
      OBVIOUS
    <2>1. k + 1 \in 0..n /\ k + 1 # 0 /\ (k + 1) - 1 = k /\ k <= n
      OBVIOUS
    <2>2. upTo[k + 1] = Heaps(upTo, k + 1)
      BY <1>1, <2>1
    <2>3. PICK older \in upTo[k], cell \in CellsAt(k + 1) : new = Append(older, cell)
      BY <2>1, <2>2 DEF Heaps
    <2>4. IsBuilt(older, k)
      BY <1>4, <2>1
    <2>5. k + 1 \in Addr
      BY <2>1, ConstantsAssumption DEF Addr
    <2>6. QED
      BY <2>3, <2>4, <2>5, AddCell
  <1>5. Nat \subseteq P
    BY <1>3, <1>4, Induction
  <1>6. QED
    BY <1>2, <1>5

\* The heap that _DI_unify is called with.
LEMMA InitGiven ==
    ASSUME Init
    PROVE  IsGiven(mem)
  <1>1. PICK older \in HeapsOf(N - 1), last \in CellsAt(N) : mem = Append(older, last)
    BY DEF Init
  <1>2. N - 1 \in Nat /\ N - 1 <= N /\ N - 1 + 1 = N /\ N \in Addr /\ N \in Nat
    BY ConstantsAssumption DEF Addr
  <1>3. IsBuilt(mem, N)
    BY <1>1, <1>2, HeapsTyped, AddCell
  <1>4. \A a \in Addr : mem[a] \in CellsAt(a)
    BY <1>3 DEF IsBuilt, Addr
  <1>5. mem \in [Addr -> Cell]
    <2>1. PICK C : C = Cell
      OBVIOUS
    <2>2. mem \in Seq(C) /\ Len(mem) = N
      BY <1>3, <2>1 DEF IsBuilt
    <2>3. mem \in [1..N -> C]
      BY <2>2
    <2>4. QED
      BY <2>1, <2>3 DEF Addr
  <1>6. ASSUME NEW a \in Addr
        PROVE  /\ mem[a].type = "Variable" /\ mem[a].set => mem[a].word \in 1..(a - 1)
               /\ mem[a].type \in Compound => mem[a].set
               /\ mem[a].type \notin Compound => mem[a].subterms = <<>>
    BY <1>4, CellsTyped
  <1>7. \A a \in Addr : \A b \in 1..(a - 1) : b \in Addr /\ b < a
    BY <1>2 DEF Addr
  <1>8. QED
    BY <1>5, <1>6, <1>7 DEF IsGiven, IsHeap, Bound

-----------------------------------------------------------------------------
(* Lists and heaps                                                         *)

\* What a list holds.
LEMMA RangeOfList ==
    ASSUME NEW S, NEW list \in Seq(S), list # <<>>
    PROVE  /\ Head(list) \in S /\ Tail(list) \in Seq(S)
           /\ Range(list) = {Head(list)} \cup Range(Tail(list))
  <1>1. PICK n, tail : n = Len(list) /\ tail = Tail(list)
    OBVIOUS
  <1>2. /\ Head(list) \in S /\ Head(list) = list[1] /\ tail \in Seq(S)
        /\ n \in Nat \ {0} /\ Len(tail) = n - 1
        /\ \A i \in 1..(n - 1) : tail[i] = list[i + 1]
    BY <1>1
  <1>3. \A i \in 1..n : i = 1 \/ (i - 1 \in 1..(n - 1) /\ (i - 1) + 1 = i)
    BY <1>2
  <1>4. 1 \in 1..n /\ \A i \in 1..(n - 1) : i + 1 \in 1..n
    BY <1>2
  <1>5. Range(list) = {list[i] : i \in 1..n}
    BY <1>1 DEF Range
  <1>6. Range(tail) = {tail[i] : i \in 1..(n - 1)}
    BY <1>2 DEF Range
  <1>7. Range(list) = {list[1]} \cup Range(tail)
    <2>1. ASSUME NEW x \in Range(list) PROVE x \in {list[1]} \cup Range(tail)
      <3>1. PICK i \in 1..n : x = list[i]
        BY <1>5
      <3>2. CASE i # 1
        <4>1. i - 1 \in 1..(n - 1) /\ (i - 1) + 1 = i
          BY <1>3, <3>2
        <4>2. x = tail[i - 1]
          BY <1>2, <3>1, <4>1
        <4>3. QED
          BY <1>6, <4>1, <4>2
      <3>3. QED
        BY <3>1, <3>2
    <2>2. ASSUME NEW x \in Range(tail) PROVE x \in Range(list)
      <3>1. PICK i \in 1..(n - 1) : x = tail[i]
        BY <1>6
      <3>2. x = list[i + 1] /\ i + 1 \in 1..n
        BY <1>2, <1>4, <3>1
      <3>3. QED
        BY <1>5, <3>2
    <2>3. list[1] \in Range(list)
      BY <1>4, <1>5
    <2>4. QED
      BY <2>1, <2>2, <2>3
  <1>8. QED
    BY <1>1, <1>2, <1>7

\* What two lists hold together.
LEMMA RangeOfConcat ==
    ASSUME NEW S, NEW s \in Seq(S), NEW t \in Seq(S)
    PROVE  s \o t \in Seq(S) /\ Range(s \o t) = Range(s) \cup Range(t)
  <1>1. /\ s \o t \in Seq(S) /\ Len(s) \in Nat /\ Len(t) \in Nat
        /\ Len(s \o t) = Len(s) + Len(t)
        /\ \A i \in 1..Len(s) : (s \o t)[i] = s[i]
        /\ \A i \in 1..Len(t) : (s \o t)[Len(s) + i] = t[i]
    OBVIOUS
  <1>2. \A i \in 1..(Len(s) + Len(t)) :
           i \in 1..Len(s) \/ (i - Len(s) \in 1..Len(t) /\ Len(s) + (i - Len(s)) = i)
    BY <1>1
  <1>3. /\ \A i \in 1..Len(s) : i \in 1..(Len(s) + Len(t))
        /\ \A i \in 1..Len(t) : Len(s) + i \in 1..(Len(s) + Len(t))
    BY <1>1
  <1>4. /\ Range(s) = {s[i] : i \in 1..Len(s)} /\ Range(t) = {t[i] : i \in 1..Len(t)}
        /\ Range(s \o t) = {(s \o t)[i] : i \in 1..(Len(s) + Len(t))}
    BY <1>1 DEF Range
  <1> HIDE DEF Range
  <1>5. ASSUME NEW x \in Range(s \o t) PROVE x \in Range(s) \cup Range(t)
    <2>1. PICK i \in 1..(Len(s) + Len(t)) : x = (s \o t)[i]
      BY <1>4
    <2>2. CASE i \in 1..Len(s)
      BY <1>1, <1>4, <2>1, <2>2
    <2>3. CASE i - Len(s) \in 1..Len(t) /\ Len(s) + (i - Len(s)) = i
      <3>1. x = t[i - Len(s)]
        BY <1>1, <2>1, <2>3
      <3>2. QED
        BY <1>4, <2>3, <3>1
    <2>4. QED
      BY <1>2, <2>2, <2>3
  <1>6. ASSUME NEW x \in Range(s) PROVE x \in Range(s \o t)
    BY <1>1, <1>3, <1>4
  <1>7. ASSUME NEW x \in Range(t) PROVE x \in Range(s \o t)
    <2>1. PICK i \in 1..Len(t) : x = t[i]
      BY <1>4
    <2>2. Len(s) + i \in 1..(Len(s) + Len(t)) /\ (s \o t)[Len(s) + i] = x
      BY <1>1, <1>3, <2>1
    <2>3. QED
      BY <1>4, <2>2
  <1>8. QED
    BY <1>1, <1>5, <1>6, <1>7

\* recordInSubstitution overwrites one representation.
LEMMA SubstituteIs ==
    ASSUME NEW m \in [Addr -> Cell], NEW u \in Addr, NEW d \in Addr
    PROVE  /\ Substitute(m, u, d) = [m EXCEPT ![u] = Overwritten(m[u], d)]
           /\ Substitute(m, u, d) \in [Addr -> Cell]
           /\ \A a \in Addr : a # u => Substitute(m, u, d)[a] = m[a]
           /\ Substitute(m, u, d)[u] = Overwritten(m[u], d)
  <1>1. m[u] \in Cell
    OBVIOUS
  <1>2. Overwritten(m[u], d) \in Cell
    <2>1. <<>> \in Seq(Addr)
      OBVIOUS
    <2>2. QED
      BY <1>1, <2>1 DEF Overwritten, Cell, TypeIds
  <1>3. Overwritten(m[u], d) =
           [[[[m[u] EXCEPT !.type = "Variable"] EXCEPT !.set = TRUE] EXCEPT !.word = d]
               EXCEPT !.subterms = <<>>]
    <2>1. PICK c : c = m[u]
      OBVIOUS
    <2>2. c = [type |-> c.type, set |-> c.set, annotated |-> c.annotated, word |-> c.word,
               tag |-> c.tag, subterms |-> c.subterms]
      BY <1>1, <2>1 DEF Cell
    <2>0. PICK yes : yes = TRUE
      OBVIOUS
    <2>3. PICK c1 : c1 = [c EXCEPT !.type = "Variable"]
      OBVIOUS
    <2>4. c1 = [type |-> "Variable", set |-> c.set, annotated |-> c.annotated, word |-> c.word,
                tag |-> c.tag, subterms |-> c.subterms]
      BY <2>2, <2>3
    <2>5. PICK c2 : c2 = [c1 EXCEPT !.set = yes]
      OBVIOUS
    <2>6. c2 = [type |-> "Variable", set |-> yes, annotated |-> c.annotated, word |-> c.word,
                tag |-> c.tag, subterms |-> c.subterms]
      BY <2>4, <2>5
    <2>7. PICK c3 : c3 = [c2 EXCEPT !.word = d]
      OBVIOUS
    <2>8. c3 = [type |-> "Variable", set |-> yes, annotated |-> c.annotated, word |-> d,
                tag |-> c.tag, subterms |-> c.subterms]
      BY <2>6, <2>7
    <2>9. PICK none : none = <<>>
      OBVIOUS
    <2>10. [c3 EXCEPT !.subterms = none] =
          [type |-> "Variable", set |-> yes, annotated |-> c.annotated, word |-> d,
           tag |-> c.tag, subterms |-> none]
      BY <2>8
    <2>11. QED
      BY <2>0, <2>1, <2>3, <2>5, <2>7, <2>9, <2>10 DEF Overwritten
  <1>4. Substitute(m, u, d) =
           [m EXCEPT ![u] = [[[[m[u] EXCEPT !.type = "Variable"] EXCEPT !.set = TRUE]
                                 EXCEPT !.word = d] EXCEPT !.subterms = <<>>]]
    BY DEF Substitute
  <1>5. QED
    BY <1>2, <1>3, <1>4

\* What is left of the heap that was given.
LEMMA KeptFacts ==
    ASSUME UnifyInv
    PROVE  /\ IsHeap(mem) /\ IsHeap(given.mem) /\ given.lhs \in Addr /\ given.rhs \in Addr
           /\ \A a \in Addr :
                 /\ mem[a] \in Cell /\ given.mem[a] \in Cell
                 /\ mem[a].type # "Variable" => mem[a] = given.mem[a]
                 /\ ~mem[a].set => mem[a] = given.mem[a]
                 /\ Bound(given.mem, a) => mem[a] = given.mem[a]
                 /\ mem[a].annotated = given.mem[a].annotated
                 /\ given.mem[a].type # "Variable" /\ Bound(mem, a) => ~given.mem[a].set
                 /\ mem[a].type \in Compound => mem[a].set
                 /\ mem[a].type \notin Compound => mem[a].subterms = <<>>
  <1>1. IsHeap(mem) /\ IsHeap(given.mem) /\ given.lhs \in Addr /\ given.rhs \in Addr
    BY DEF UnifyInv, TypeOK, IsHeap, IsGiven
  <1>2. ASSUME NEW a \in Addr
        PROVE  /\ mem[a] \in Cell /\ given.mem[a] \in Cell
               /\ \/ mem[a] = given.mem[a]
                  \/ /\ ~given.mem[a].set /\ mem[a].type = "Variable" /\ mem[a].set
                     /\ mem[a].subterms = <<>> /\ mem[a].annotated = given.mem[a].annotated
               /\ given.mem[a].type \in Compound => given.mem[a].set
               /\ given.mem[a].type \notin Compound => given.mem[a].subterms = <<>>
    BY <1>1 DEF UnifyInv, IsHeap, IsGiven, Kept, Overwritten
  <1>3. "Variable" \notin Compound
    BY DEF Compound
  <1>4. QED
    BY <1>1, <1>2, <1>3 DEF Bound

\* The terms a heap's terms refer to are in it.
LEMMA LinksAreInside ==
    ASSUME NEW m, IsHeap(m)
    PROVE  LinksInside(m)
  <1>1. ASSUME NEW b \in Addr PROVE Links(m, b) \subseteq Addr
    <2>1. m[b].subterms \in Seq(Addr)
      BY DEF IsHeap, Cell
    <2>2. Range(m[b].subterms) \subseteq Addr
      BY <2>1 DEF Range
    <2>3. QED
      BY <2>2 DEF Links, IsHeap
  <1>2. QED
    BY <1>1 DEF LinksInside

-----------------------------------------------------------------------------
(* The kinds of steps                                                      *)

\* A pair of todo gives way to others.
Replaces(work) ==
    /\ result = "running" /\ todo # <<>> /\ work \in Seq(Pair)
    /\ todo' = work \o Tail(todo) /\ UNCHANGED <<result, given>>

\* The ends of the chains of the two terms at hand.
Follows == Head(todo).op = "unify" /\ ~Bound(mem, Lhs) /\ ~Bound(mem, Rhs)

\* Nothing is left to do for a pair.
Skips(work) ==
    /\ mem' = mem /\ work = <<>>
    /\ Head(todo).op = "verify" \/ (Follows /\ Lhs = Rhs /\ IsUnsetVar(mem, Lhs))

\* Two terms with values are equal if their subterms are.
Joins(work) ==
    /\ mem' = mem /\ Follows
    /\ mem[Lhs].type # "Variable" /\ mem[Rhs].type # "Variable" /\ SameShape(Lhs, Rhs)
    /\ mem[Lhs].set /\ mem[Rhs].set
    /\ mem[Lhs].type \notin Compound => mem[Lhs].word = mem[Rhs].word
    /\ work = Subterms(Lhs, Rhs) \o Verification(Lhs, Rhs)

\* A term that has no value becomes bound.
Binds(u, d, work) ==
    /\ Follows /\ {u, d} = {Lhs, Rhs} /\ ~mem[u].set
    /\ \/ IsUnsetVar(mem, u) /\ u # d /\ work = <<>>
       \/ /\ mem[u].type # "Variable" /\ mem[d].type # "Variable" /\ SameShape(u, d)
          /\ work = Verification(u, d)
    /\ mem' = Substitute(mem, u, d)

\* Two terms that have to be equal are not.
Clashes ==
    /\ Follows /\ todo # <<>>
    /\ mem[Lhs].type # "Variable" /\ mem[Rhs].type # "Variable"
    /\ \/ ~SameShape(Lhs, Rhs)
       \/ /\ mem[Lhs].set /\ mem[Rhs].set
          /\ mem[Lhs].type \notin Compound /\ mem[Lhs].word # mem[Rhs].word

\* An annotated term has no value.
IsRefused ==
    /\ todo # <<>> /\ Head(todo).op = "verify"
    /\ mem[Head(todo).lhs].annotated \/ mem[Head(todo).rhs].annotated

\* The call ends.
Answers ==
    /\ UNCHANGED <<mem, todo, given>>
    /\ \/ result' = "true" /\ todo = <<>>
       \/ result' = "false" /\ (Clashes \/ IsRefused)

\* The pair at hand.
LEMMA HeadTyped ==
    ASSUME UnifyInv, todo # <<>>
    PROVE  /\ todo \in Seq(Pair) /\ Head(todo) \in Pair /\ Tail(todo) \in Seq(Pair)
           /\ Range(todo) = {Head(todo)} \cup Range(Tail(todo))
           /\ Head(todo).lhs \in Addr /\ Head(todo).rhs \in Addr
           /\ Head(todo).op \in {"unify", "verify"}
           /\ Lhs \in Addr /\ Rhs \in Addr
  <1>1. todo \in Seq(Pair)
    BY DEF UnifyInv, TypeOK, Pair
  <1>2. Head(todo) \in Pair /\ Tail(todo) \in Seq(Pair)
        /\ Range(todo) = {Head(todo)} \cup Range(Tail(todo))
    BY <1>1, RangeOfList
  <1>3. Head(todo).lhs \in Addr /\ Head(todo).rhs \in Addr /\ Head(todo).op \in {"unify", "verify"}
    BY <1>2 DEF Pair
  <1>4. Lhs \in Addr /\ Rhs \in Addr
    BY <1>3, KeptFacts, FollowTyped DEF Lhs, Rhs
  <1>5. QED
    BY <1>1, <1>2, <1>3, <1>4

\* The pairs that Decompose leaves to do.
LEMMA SubtermPairs ==
    ASSUME UnifyInv, NEW a \in Addr, NEW b \in Addr, SameShape(a, b)
    PROVE  LET work == Subterms(a, b) \o Verification(a, b) IN
           /\ work \in Seq(Pair)
           /\ Range(work) =
                {[op |-> "unify", lhs |-> mem[a].subterms[i], rhs |-> mem[b].subterms[i]] :
                 i \in DOMAIN mem[a].subterms} \cup {[op |-> "verify", lhs |-> a, rhs |-> b]}
           /\ DOMAIN mem[a].subterms = DOMAIN mem[b].subterms
           /\ \A i \in DOMAIN mem[a].subterms :
                 mem[a].subterms[i] \in Addr /\ mem[b].subterms[i] \in Addr
  <1>1. /\ mem[a].subterms \in Seq(Addr) /\ mem[b].subterms \in Seq(Addr)
        /\ Len(mem[a].subterms) = Len(mem[b].subterms)
    BY KeptFacts DEF SameShape, Cell
  <1>2. PICK s, t : s = mem[a].subterms /\ t = mem[b].subterms
    OBVIOUS
  <1>3. s \in Seq(Addr) /\ t \in Seq(Addr) /\ DOMAIN s = 1..Len(s) /\ DOMAIN t = 1..Len(s) /\ Len(s) \in Nat
    BY <1>1, <1>2
  <1>4. \A i \in 1..Len(s) : s[i] \in Addr /\ t[i] \in Addr
    BY <1>1, <1>2, <1>3
  <1> DEFINE pairs == [i \in 1..Len(s) |-> [op |-> "unify", lhs |-> s[i], rhs |-> t[i]]]
             last  == <<[op |-> "verify", lhs |-> a, rhs |-> b]>>
  <1>5. \A i \in 1..Len(s) : [op |-> "unify", lhs |-> s[i], rhs |-> t[i]] \in Pair
    BY <1>4 DEF Pair
  <1>6. pairs \in [1..Len(s) -> Pair]
    BY <1>5
  <1>7. pairs \in Seq(Pair)
    BY <1>3, <1>6, SeqDef
  <1>8. last \in Seq(Pair) /\ Range(last) = {[op |-> "verify", lhs |-> a, rhs |-> b]}
    <2>1. PICK p : p = [op |-> "verify", lhs |-> a, rhs |-> b]
      OBVIOUS
    <2>2. p \in Pair
      BY <2>1 DEF Pair
    <2>3. <<p>> \in Seq(Pair) /\ DOMAIN <<p>> = {1} /\ <<p>>[1] = p
      BY <2>2
    <2>4. QED
      BY <2>1, <2>3 DEF Range
  <1>9. Range(pairs) =
           {[op |-> "unify", lhs |-> s[i], rhs |-> t[i]] : i \in 1..Len(s)}
    BY DEF Range
  <1>10. Subterms(a, b) = pairs /\ Verification(a, b) = last
    BY <1>2, <1>3 DEF Subterms, Verification
  <1> HIDE DEF pairs, last
  <1>11. pairs \o last \in Seq(Pair) /\ Range(pairs \o last) = Range(pairs) \cup Range(last)
    BY <1>7, <1>8, RangeOfConcat
  <1>12. QED
    BY <1>2, <1>3, <1>4, <1>8, <1>9, <1>10, <1>11

\* The check of annotations that a call makes in the end.
LEMMA VerificationTyped ==
    ASSUME NEW a \in Addr, NEW b \in Addr
    PROVE  /\ Verification(a, b) \in Seq(Pair) /\ <<>> \in Seq(Pair)
           /\ Range(Verification(a, b)) = {[op |-> "verify", lhs |-> a, rhs |-> b]}
           /\ Range(<<>>) = {}
  <1>1. PICK p : p = [op |-> "verify", lhs |-> a, rhs |-> b]
    OBVIOUS
  <1>2. p \in Pair
    BY <1>1 DEF Pair
  <1>3. <<p>> \in Seq(Pair) /\ DOMAIN <<p>> = {1} /\ <<p>>[1] = p /\ <<>> \in Seq(Pair)
    BY <1>2
  <1>4. QED
    BY <1>1, <1>3 DEF Range, Verification

\* Every step is one of these.
LEMMA StepKinds ==
    ASSUME UnifyInv, Next
    PROVE  \/ Answers
           \/ \E work : Replaces(work) /\ (Skips(work) \/ Joins(work))
           \/ \E work : Replaces(work) /\ \E u, d \in Addr : Binds(u, d, work)
  <1>0. /\ "Variable" \notin Compound
        /\ \A a \in Addr : mem[a].type \in Compound => mem[a].set
    BY KeptFacts DEF Compound
  <1>1. ASSUME Unifying
        PROVE  /\ result = "running" /\ todo # <<>> /\ Follows /\ Lhs \in Addr /\ Rhs \in Addr
               /\ \A x \in {Lhs, Rhs} : ~IsUnsetVar(mem, x) <=> mem[x].type # "Variable"
    <2>1. result = "running" /\ todo # <<>> /\ Head(todo).op = "unify"
          /\ ~Bound(mem, Lhs) /\ ~Bound(mem, Rhs)
      BY <1>1 DEF Unifying, Active, ChainEnds, Lhs, Rhs
    <2>2. QED
      BY <2>1, HeadTyped DEF Follows, Bound, IsUnsetVar
  <1>2. ASSUME NEW work, NEW m, Then(m, work), result = "running", todo # <<>>, work \in Seq(Pair)
        PROVE  Replaces(work) /\ mem' = m
    BY <1>2 DEF Then, Replaces
  <1>20. <<>> \in Seq(Pair)
    OBVIOUS
  <1>3. CASE SameVariable
    <2>1. Unifying /\ Lhs = Rhs /\ IsUnsetVar(mem, Lhs) /\ Then(mem, <<>>)
      BY <1>3 DEF SameVariable
    <2>2. Replaces(<<>>) /\ Skips(<<>>)
      BY <1>1, <1>2, <1>20, <2>1 DEF Skips
    <2>3. QED
      BY <2>2
  <1>4. CASE BindLhs
    <2>1. Unifying /\ IsUnsetVar(mem, Lhs) /\ Lhs # Rhs /\ Then(Substitute(mem, Lhs, Rhs), <<>>)
      BY <1>4 DEF BindLhs
    <2>2. Replaces(<<>>) /\ Binds(Lhs, Rhs, <<>>)
      BY <1>1, <1>2, <1>20, <2>1 DEF Binds, IsUnsetVar
    <2>3. QED
      BY <1>1, <2>1, <2>2
  <1>5. CASE BindRhs
    <2>1. Unifying /\ ~IsUnsetVar(mem, Lhs) /\ IsUnsetVar(mem, Rhs)
          /\ Then(Substitute(mem, Rhs, Lhs), <<>>)
      BY <1>5 DEF BindRhs
    <2>2. {Lhs, Rhs} = {Rhs, Lhs} /\ Lhs # Rhs
      BY <2>1
    <2>3. Replaces(<<>>) /\ Binds(Rhs, Lhs, <<>>)
      BY <1>1, <1>2, <1>20, <2>1, <2>2 DEF Binds, IsUnsetVar
    <2>4. QED
      BY <1>1, <2>1, <2>3
  <1>6. CASE BindTerm
    <2>1. PICK u, d \in {Lhs, Rhs} :
             /\ {u, d} = {Lhs, Rhs} /\ ~mem[u].set
             /\ Unifying /\ ~IsUnsetVar(mem, Lhs) /\ ~IsUnsetVar(mem, Rhs) /\ SameShape(Lhs, Rhs)
             /\ Then(Substitute(mem, u, d), Verification(u, d))
      BY <1>6 DEF BindTerm, BothTerms
    <2>2. u \in Addr /\ d \in Addr
      BY <1>1, <2>1
    <2>3. mem[u].type # "Variable" /\ mem[d].type # "Variable" /\ SameShape(u, d)
      BY <1>1, <2>1 DEF SameShape
    <2>4. Replaces(Verification(u, d)) /\ mem' = Substitute(mem, u, d)
      BY <1>1, <1>2, <2>1, <2>2, VerificationTyped
    <2>5. Binds(u, d, Verification(u, d))
      BY <1>1, <2>1, <2>3, <2>4 DEF Binds
    <2>6. QED
      BY <2>2, <2>4, <2>5
  <1>7. CASE SameValue
    <2>1. /\ Unifying /\ ~IsUnsetVar(mem, Lhs) /\ ~IsUnsetVar(mem, Rhs) /\ SameShape(Lhs, Rhs)
          /\ mem[Lhs].set /\ mem[Rhs].set
          /\ mem[Lhs].type \notin Compound /\ mem[Lhs].word = mem[Rhs].word
          /\ Then(mem, Verification(Lhs, Rhs))
      BY <1>7 DEF SameValue, BothSet, BothTerms
    <2>2. Replaces(Verification(Lhs, Rhs)) /\ mem' = mem
      BY <1>1, <1>2, <2>1, VerificationTyped
    <2>3. mem[Lhs].subterms = <<>>
      BY <1>1, <2>1, KeptFacts
    <2>4. Subterms(Lhs, Rhs) \o Verification(Lhs, Rhs) = Verification(Lhs, Rhs)
      <3>1. Subterms(Lhs, Rhs) = <<>>
        BY <2>3 DEF Subterms
      <3>2. QED
        BY <1>1, <2>1, <3>1, VerificationTyped
    <2>5. Joins(Verification(Lhs, Rhs))
      BY <1>1, <2>1, <2>2, <2>4 DEF Joins
    <2>6. QED
      BY <2>2, <2>5
  <1>8. CASE Decompose
    <2> DEFINE work == Subterms(Lhs, Rhs) \o Verification(Lhs, Rhs)
    <2>1. /\ Unifying /\ ~IsUnsetVar(mem, Lhs) /\ ~IsUnsetVar(mem, Rhs) /\ SameShape(Lhs, Rhs)
          /\ mem[Lhs].set /\ mem[Rhs].set /\ mem[Lhs].type \in Compound
          /\ Then(mem, work)
      BY <1>8 DEF Decompose, BothSet, BothTerms
    <2>2. work \in Seq(Pair)
      BY <1>1, <2>1, SubtermPairs
    <2>3. Replaces(work) /\ mem' = mem
      BY <1>1, <1>2, <2>1, <2>2
    <2>4. Joins(work)
      BY <1>1, <2>1, <2>3 DEF Joins
    <2> HIDE DEF work
    <2>5. QED
      BY <2>3, <2>4
  <1>9. CASE Clash
    <2>1. Unifying /\ ~IsUnsetVar(mem, Lhs) /\ ~IsUnsetVar(mem, Rhs) /\ Return("false")
          /\ \/ ~SameShape(Lhs, Rhs)
             \/ /\ mem[Lhs].set /\ mem[Rhs].set
                /\ mem[Lhs].type \notin Compound /\ mem[Lhs].word # mem[Rhs].word
      BY <1>9 DEF Clash, BothSet, BothTerms
    <2>2. Clashes
      BY <1>1, <2>1 DEF Clashes
    <2>3. QED
      BY <2>1, <2>2 DEF Return, Answers
  <1>10. CASE Verify
    <2>1. result = "running" /\ todo # <<>> /\ Head(todo).op = "verify"
      BY <1>10 DEF Verify, Active
    <2>2. CASE Then(mem, <<>>)
      <3>1. Replaces(<<>>) /\ Skips(<<>>)
        <4>1. <<>> \in Seq(Pair)
          OBVIOUS
        <4>2. QED
          BY <1>2, <2>1, <2>2, <4>1 DEF Skips
      <3>2. QED
        BY <3>1
    <2>3. CASE ~VerifyBoth(Head(todo).lhs, Head(todo).rhs) /\ Return("false")
      <3>1. IsRefused
        BY <2>1, <2>3 DEF VerifyBoth, VerifyAnnotation, IsRefused
      <3>2. QED
        BY <2>3, <3>1 DEF Return, Answers
    <2>4. QED
      BY <1>10, <2>2, <2>3 DEF Verify
  <1>11. CASE Succeed
    BY <1>11 DEF Succeed, Return, Answers
  <1>12. QED
    BY <1>3, <1>4, <1>5, <1>6, <1>7, <1>8, <1>9, <1>10, <1>11 DEF Next

-----------------------------------------------------------------------------
(* The invariant holds in the first state                                  *)

\* The terms of a chain are a class, named after the end of the chain.
IsChains(m, class, k) ==
    \A a \in 1..k :
        /\ class[a] \in Addr /\ class[a] <= a /\ ~Bound(m, class[a])
        /\ Bound(m, a) => class[a] = class[m[a].word]
        /\ ~Bound(m, a) => class[a] = a

\* In a heap that a program builds, each chain has an end.
LEMMA ChainsExist ==
    ASSUME NEW m, IsGiven(m)
    PROVE  \E class \in Partitions : IsChains(m, class, N)
  <1> DEFINE P == {k \in Nat : k <= N => \E class : IsChains(m, class, k)}
  <1>1. N \in Nat /\ Addr = 1..N
    BY ConstantsAssumption DEF Addr
  <1>2. 0 \in P
    BY DEF IsChains
  <1>3. ASSUME NEW k \in Nat, k \in P PROVE k + 1 \in P
    <2> SUFFICES ASSUME k + 1 <= N PROVE \E class : IsChains(m, class, k + 1)
      OBVIOUS
    <2>1. PICK class : IsChains(m, class, k)
      BY <1>1, <1>3
    <2> DEFINE n == k + 1
               end == IF Bound(m, n) THEN class[m[n].word] ELSE n
               longer == [a \in 1..n |-> IF a = n THEN end ELSE class[a]]
    <2>2. n \in Addr /\ n \in Nat /\ 1..n = 1..k \cup {n} /\ n \notin 1..k
      BY <1>1
    <2>3. \A a \in 1..n : Bound(m, a) => m[a].word \in Addr /\ m[a].word < a
      BY <1>1 DEF IsGiven, IsHeap
    <2>4. \A a \in 1..n : Bound(m, a) => m[a].word \in 1..k
      BY <1>1, <2>3
    <2>5. end \in Addr /\ end <= n /\ ~Bound(m, end)
      <3>1. CASE Bound(m, n)
        <4>1. m[n].word \in 1..k
          BY <2>4, <3>1
        <4>2. end = class[m[n].word] /\ end \in Addr /\ end <= m[n].word /\ ~Bound(m, end)
          BY <2>1, <3>1, <4>1 DEF IsChains
        <4>3. end \in Nat /\ m[n].word \in Nat /\ m[n].word <= k
          BY <1>1, <4>1, <4>2
        <4>4. QED
          BY <4>2, <4>3
      <3>2. CASE ~Bound(m, n)
        BY <2>2, <3>2
      <3>3. QED
        BY <3>1, <3>2
    <2>6. \A a \in 1..k : longer[a] = class[a]
      BY <2>2
    <2>7. longer[n] = end
      BY <2>2
    <2>8. ASSUME NEW a \in 1..n
          PROVE  /\ longer[a] \in Addr /\ longer[a] <= a /\ ~Bound(m, longer[a])
                 /\ Bound(m, a) => longer[a] = longer[m[a].word]
                 /\ ~Bound(m, a) => longer[a] = a
      <3>1. CASE a = n
        <4>1. Bound(m, n) => longer[m[n].word] = class[m[n].word]
          BY <2>4, <2>6, <3>1
        <4> HIDE DEF longer
        <4>2. QED
          BY <2>5, <2>7, <3>1, <4>1
      <3>2. CASE a \in 1..k
        <4>1. Bound(m, a) => longer[m[a].word] = class[m[a].word]
          BY <2>4, <2>6
        <4> HIDE DEF longer
        <4>2. QED
          BY <2>1, <2>6, <3>2, <4>1 DEF IsChains
      <3>3. QED
        BY <2>2, <3>1, <3>2
    <2> HIDE DEF longer
    <2>9. IsChains(m, longer, n)
      BY <2>8 DEF IsChains
    <2>10. QED
      BY <2>9
  <1>4. Nat \subseteq P
    BY <1>2, <1>3, Induction
  <1>5. PICK chains : IsChains(m, chains, N)
    BY <1>1, <1>4
  <1>6. PICK class : class = [a \in Addr |-> chains[a]]
    OBVIOUS
  <1>7. class \in [Addr -> Addr] /\ \A a \in Addr : class[a] = chains[a]
    BY <1>1, <1>5, <1>6 DEF IsChains
  <1>8. IsChains(m, class, N)
    <2>1. \A a \in Addr : Bound(m, a) => m[a].word \in Addr
      BY DEF IsGiven, IsHeap
    <2>2. QED
      BY <1>1, <1>5, <1>7, <2>1 DEF IsChains
  <1>9. \A a \in Addr : class[a] <= a /\ class[class[a]] = class[a]
    BY <1>1, <1>7, <1>8 DEF IsChains
  <1>10. QED
    BY <1>7, <1>8, <1>9 DEF Partitions

\* The chains of the heap are the first classes.
LEMMA InitBuilt ==
    ASSUME mem = given.mem, IsGiven(given.mem), todo # <<>>, todo \in Seq(Pair),
           todo[1].op = "unify", todo[1].lhs = given.lhs, todo[1].rhs = given.rhs,
           given.lhs \in Addr, given.rhs \in Addr
    PROVE  Built
  <1>1. PICK class \in Partitions : IsChains(mem, class, N)
    BY ChainsExist
  <1>2. \A a \in Addr : /\ Bound(mem, a) => class[a] = class[mem[a].word]
                        /\ ~Bound(mem, a) => class[a] = a
    BY <1>1 DEF IsChains, Addr
  <1>3. \A a \in Addr : /\ mem[a].type \in Compound => mem[a].set
                        /\ mem[a].type \notin Compound => mem[a].subterms = <<>>
    BY DEF IsGiven
  <1>4. RespectsLinks(mem, class)
    BY <1>2 DEF RespectsLinks
  <1>5. ASSUME NEW a \in Addr, NEW b \in Addr, class[a] = class[b], ~Bound(mem, a), ~Bound(mem, b)
        PROVE  a = b
    BY <1>2, <1>5
  <1>6. ASSUME NEW a \in Addr, NEW b \in Addr, class[a] = class[b]
        PROVE  ~Differ(given.mem, a, b)
    <2>1. SUFFICES ASSUME Differ(mem, a, b) PROVE FALSE
      OBVIOUS
    <2>2. a = b
      BY <1>5, <1>6, <2>1 DEF Differ, Bound
    <2>3. QED
      BY <2>1, <2>2 DEF Differ
  <1>7. ASSUME NEW F \in [Addr -> Addr], Coarser(F, class), Equates(F, todo)
        PROVE  /\ F[given.lhs] = F[given.rhs]
               /\ \A a, b \in Addr : class[a] = class[b] =>
                     \A i \in DOMAIN given.mem[a].subterms \cap DOMAIN given.mem[b].subterms :
                         F[given.mem[a].subterms[i]] = F[given.mem[b].subterms[i]]
    <2>1. todo[1] \in Range(todo)
      BY DEF Range
    <2>2. F[given.lhs] = F[given.rhs]
      BY <1>7, <2>1 DEF Equates
    <2>3. ASSUME NEW a \in Addr, NEW b \in Addr, class[a] = class[b],
                 NEW i \in DOMAIN mem[a].subterms \cap DOMAIN mem[b].subterms
          PROVE  a = b
      <3>1. ~Bound(mem, a) /\ ~Bound(mem, b)
        <4>1. mem[a].type \in Compound /\ mem[b].type \in Compound
          BY <1>3, <2>3
        <4>2. QED
          BY <4>1 DEF Compound, Bound
      <3>2. QED
        BY <1>5, <2>3, <3>1
    <2>4. QED
      BY <2>2, <2>3
  <1>8. \A a, b \in Addr : class[a] = class[b] /\ ~mem[a].set => b = a \/ Bound(mem, b)
    BY <1>5 DEF Bound
  <1>9. \A a, b \in Addr :
           class[a] = class[b] /\ IsUnsetVar(mem, a) => given.mem[b].type = "Variable"
    BY <1>5 DEF Bound, IsUnsetVar
  <1>10. Builds(class)
    BY <1>4, <1>6, <1>7, <1>8, <1>9 DEF Builds
  <1>11. QED
    BY <1>10 DEF Built

\* The invariant holds when _DI_unify is called.
THEOREM InitInv == Init => UnifyInv
  <1> SUFFICES ASSUME Init PROVE UnifyInv
    OBVIOUS
  <1>1. IsGiven(mem) /\ IsHeap(mem)
    BY InitGiven DEF IsGiven
  <1>2. PICK roots \in {<<N, N - 1>>, <<N - 1, N>>} :
           /\ todo = <<[op |-> "unify", lhs |-> roots[1], rhs |-> roots[2]]>>
           /\ given = [mem |-> mem, lhs |-> roots[1], rhs |-> roots[2]]
    BY DEF Init
  <1>3. roots[1] \in Addr /\ roots[2] \in Addr
    BY ConstantsAssumption DEF Addr
  <1>4. given.mem = mem /\ given.lhs \in Addr /\ given.rhs \in Addr
        /\ todo = <<[op |-> "unify", lhs |-> given.lhs, rhs |-> given.rhs]>>
        /\ given \in [mem : {mem}, lhs : Addr, rhs : Addr]
    BY <1>2, <1>3
  <1>5. PICK p : p = [op |-> "unify", lhs |-> given.lhs, rhs |-> given.rhs] /\ todo = <<p>>
    BY <1>4
  <1>6. p \in Pair
    BY <1>4, <1>5 DEF Pair
  <1>7. todo \in Seq(Pair) /\ todo # <<>> /\ todo[1] = p /\ Range(todo) = {p}
    BY <1>5, <1>6 DEF Range
  <1>8. result = "running"
    BY DEF Init
  <1>9. TypeOK
    <2>1. PICK H : H = [Addr -> Cell]
      OBVIOUS
    <2>2. mem \in H
      BY <1>1, <2>1 DEF IsHeap
    <2>3. given \in [mem : H, lhs : Addr, rhs : Addr]
      BY <1>4, <2>2
    <2>4. QED
      BY <1>1, <1>7, <1>8, <2>1, <2>3 DEF TypeOK, IsHeap, Pair
  <1>10. Kept
    BY <1>4 DEF Kept
  <1>11. General
    BY <1>4, <1>5, <1>7 DEF General, Equating, Equates
  <1>12. Built
    BY <1>1, <1>4, <1>5, <1>7, InitBuilt
  <1>13. Inside
    <2>1. LinksInside(given.mem)
      BY <1>1, <1>4, LinksAreInside
    <2>2. PICK R : R = Reachable(given.mem, given.lhs) /\ given.lhs \in R
                   /\ \A b \in R : Links(given.mem, b) \subseteq R
      BY <1>4, <2>1, ReachableClosed
    <2>3. PICK S : S = Reachable(given.mem, given.rhs) /\ given.rhs \in S
                   /\ \A b \in S : Links(given.mem, b) \subseteq S
      BY <1>4, <2>1, ReachableClosed
    <2>4. Under = R \cup S
      BY <2>2, <2>3 DEF Under
    <2>5. \A p1 \in Range(todo) : p1.lhs \in Under /\ p1.rhs \in Under
      BY <1>5, <1>7, <2>2, <2>3, <2>4
    <2>6. \A a \in Under : Bound(mem, a) => mem[a].word \in Under
      BY <1>4, <2>2, <2>3, <2>4 DEF Links
    <2>7. QED
      BY <2>5, <2>6 DEF Inside
  <1>14. QED
    BY <1>1, <1>4, <1>8, <1>9, <1>10, <1>11, <1>12, <1>13 DEF UnifyInv

-----------------------------------------------------------------------------
(* The steps of unification                                                *)

\* What is left to do after a step.
LEMMA ReplacedRange ==
    ASSUME UnifyInv, NEW work, Replaces(work)
    PROVE  /\ todo # <<>> /\ todo' \in Seq(Pair) /\ given' = given /\ result' = "running"
           /\ Range(todo') = Range(work) \cup Range(Tail(todo))
           /\ Range(todo) = {Head(todo)} \cup Range(Tail(todo))
  <1>1. work \in Seq(Pair) /\ Tail(todo) \in Seq(Pair) /\ todo' = work \o Tail(todo)
    BY HeadTyped DEF Replaces
  <1>2. todo' \in Seq(Pair) /\ Range(todo') = Range(work) \cup Range(Tail(todo))
    BY <1>1, RangeOfConcat
  <1>3. QED
    BY <1>2, HeadTyped DEF Replaces

\* What a term becomes bound by.
LEMMA BoundBy ==
    ASSUME UnifyInv, NEW work, NEW u \in Addr, NEW d \in Addr, Replaces(work), Binds(u, d, work)
    PROVE  /\ IsHeap(mem') /\ mem' = Substitute(mem, u, d)
           /\ mem'[u] = Overwritten(mem[u], d) /\ mem'[u].word = d
           /\ mem'[u].type = "Variable" /\ mem'[u].set /\ mem'[u].annotated = mem[u].annotated
           /\ \A a \in Addr : a # u => mem'[a] = mem[a]
           /\ \A a \in Addr : Bound(mem', a) <=> a = u \/ Bound(mem, a)
           /\ ~mem[u].set /\ ~Bound(mem, u) /\ ~Bound(mem, d)
           /\ \A p \in Range(work) : p.op = "verify" /\ p.lhs = u /\ p.rhs = d
  <1>1. mem \in [Addr -> Cell] /\ IsHeap(mem)
    BY KeptFacts DEF IsHeap
  <1>2. /\ mem' = Substitute(mem, u, d) /\ work \in {<<>>, Verification(u, d)}
        /\ ~mem[u].set /\ ~Bound(mem, u) /\ ~Bound(mem, d)
    BY DEF Binds, Follows, Bound
  <1>3. /\ mem' \in [Addr -> Cell] /\ mem'[u] = Overwritten(mem[u], d)
        /\ \A a \in Addr : a # u => mem'[a] = mem[a]
    BY <1>1, <1>2, SubstituteIs
  <1>4. mem'[u].type = "Variable" /\ mem'[u].set /\ mem'[u].word = d
        /\ mem'[u].annotated = mem[u].annotated
    BY <1>3 DEF Overwritten
  <1>5. \A a \in Addr : Bound(mem', a) <=> a = u \/ Bound(mem, a)
    BY <1>3, <1>4 DEF Bound
  <1>6. \A a \in Addr : Bound(mem', a) => mem'[a].word \in Addr
    BY <1>1, <1>3, <1>4, <1>5 DEF IsHeap
  <1>7. IsHeap(mem')
    BY <1>3, <1>6 DEF IsHeap
  <1>8. \A p \in Range(work) : p.op = "verify" /\ p.lhs = u /\ p.rhs = d
    <2>1. Range(<<>>) = {} /\ Range(Verification(u, d)) = {[op |-> "verify", lhs |-> u, rhs |-> d]}
      BY VerificationTyped
    <2>2. QED
      BY <1>2, <2>1
  <1>9. QED
    BY <1>2, <1>3, <1>4, <1>5, <1>7, <1>8

\* A step keeps the types.
LEMMA TypeStep ==
    ASSUME UnifyInv, Next
    PROVE  TypeOK' /\ given' = given
  <1>0. PICK H : H = [Addr -> Cell]
    OBVIOUS
  <1>1. /\ mem \in H /\ IsHeap(mem) /\ given \in [mem : H, lhs : Addr, rhs : Addr]
        /\ todo \in Seq(Pair)
    BY <1>0 DEF UnifyInv, TypeOK, IsHeap, Pair
  <1>2. SUFFICES /\ IsHeap(mem') /\ todo' \in Seq(Pair) /\ given' = given
                 /\ result' \in {"running", "true", "false"}
    BY <1>0, <1>1 DEF TypeOK, IsHeap, Pair
  <1>3. CASE Answers
    BY <1>1, <1>3 DEF Answers
  <1>4. ASSUME NEW work, Replaces(work), Skips(work) \/ Joins(work)
        PROVE  IsHeap(mem') /\ todo' \in Seq(Pair) /\ given' = given /\ result' = "running"
    BY <1>1, <1>4, ReplacedRange DEF Skips, Joins
  <1>5. ASSUME NEW work, Replaces(work), NEW u \in Addr, NEW d \in Addr, Binds(u, d, work)
        PROVE  IsHeap(mem') /\ todo' \in Seq(Pair) /\ given' = given /\ result' = "running"
    BY <1>5, ReplacedRange, BoundBy
  <1>6. QED
    BY <1>3, <1>4, <1>5, StepKinds

\* What becomes bound had no value before.
LEMMA KeptStep ==
    ASSUME UnifyInv, Next
    PROVE  Kept'
  <1>1. given' = given
    BY TypeStep
  <1>2. CASE mem' = mem
    BY <1>1, <1>2 DEF UnifyInv, Kept
  <1>3. ASSUME NEW work, Replaces(work), NEW u \in Addr, NEW d \in Addr, Binds(u, d, work)
        PROVE  Kept'
    <2>1. mem[u] = given.mem[u] /\ ~mem[u].set /\ mem'[u] = Overwritten(mem[u], d)
          /\ mem'[u].word = d /\ \A a \in Addr : a # u => mem'[a] = mem[a]
      BY <1>3, BoundBy, KeptFacts
    <2>2. QED
      BY <1>1, <2>1 DEF UnifyInv, Kept
  <1>4. QED
    BY <1>2, <1>3, StepKinds DEF Answers, Skips, Joins

\* Every unifier makes the two terms equal that a step looks at.
LEMMA HeadEqual ==
    ASSUME UnifyInv, todo # <<>>, Head(todo).op = "unify", NEW class \in Equating
    PROVE  class[Lhs] = class[Rhs]
  <1>1. RespectsLinks(mem, class) /\ Equates(class, todo)
    BY DEF UnifyInv, General
  <1>2. class[Head(todo).lhs] = class[Head(todo).rhs]
    BY <1>1, HeadTyped DEF Equates
  <1>3. QED
    BY <1>1, <1>2, HeadTyped, KeptFacts, FollowKeeps DEF Lhs, Rhs

\* A step makes only those terms equal that every unifier makes equal.
LEMMA GeneralStep ==
    ASSUME UnifyInv, Next
    PROVE  General'
  <1>1. Equating' = Equating
    BY TypeStep DEF Equating
  <1>2. SUFFICES ASSUME NEW class \in Equating
                 PROVE  RespectsLinks(mem', class) /\ Equates(class, todo')
    BY <1>1 DEF General
  <1>3. RespectsLinks(mem, class) /\ Equates(class, todo)
    BY DEF UnifyInv, General
  <1>4. CASE Answers
    BY <1>3, <1>4 DEF Answers
  <1>5. ASSUME NEW work, Replaces(work)
        PROVE  Equates(class, Tail(todo)) /\ (Equates(class, work) => Equates(class, todo'))
    BY <1>3, <1>5, ReplacedRange DEF Equates
  <1>6. ASSUME NEW work, Replaces(work), Skips(work)
        PROVE  RespectsLinks(mem', class) /\ Equates(class, todo')
    <2>1. Equates(class, work)
      BY <1>6 DEF Skips, Equates, Range
    <2>2. QED
      BY <1>3, <1>5, <1>6, <2>1 DEF Skips
  <1>7. ASSUME NEW work, Replaces(work), Joins(work)
        PROVE  RespectsLinks(mem', class) /\ Equates(class, todo')
    <2>1. /\ Lhs \in Addr /\ Rhs \in Addr /\ class[Lhs] = class[Rhs]
          /\ mem[Lhs] = given.mem[Lhs] /\ mem[Rhs] = given.mem[Rhs]
      BY <1>7, ReplacedRange, HeadTyped, HeadEqual, KeptFacts DEF Joins, Follows
    <2>2. /\ Range(work) =
               {[op |-> "unify", lhs |-> mem[Lhs].subterms[i], rhs |-> mem[Rhs].subterms[i]] :
                i \in DOMAIN mem[Lhs].subterms} \cup {[op |-> "verify", lhs |-> Lhs, rhs |-> Rhs]}
          /\ DOMAIN mem[Lhs].subterms = DOMAIN mem[Rhs].subterms
      BY <1>7, <2>1, SubtermPairs DEF Joins
    <2>3. \A i \in DOMAIN mem[Lhs].subterms :
             class[mem[Lhs].subterms[i]] = class[mem[Rhs].subterms[i]]
      BY <2>1, <2>2 DEF Equating, RespectsSubterms
    <2>4. Equates(class, work)
      BY <2>2, <2>3 DEF Equates
    <2>5. QED
      BY <1>3, <1>5, <1>7, <2>4 DEF Joins
  <1>8. ASSUME NEW work, Replaces(work), NEW u \in Addr, NEW d \in Addr, Binds(u, d, work)
        PROVE  RespectsLinks(mem', class) /\ Equates(class, todo')
    <2>1. class[u] = class[d]
      BY <1>8, ReplacedRange, HeadEqual DEF Binds, Follows
    <2>2. RespectsLinks(mem', class)
      BY <1>3, <1>8, <2>1, BoundBy DEF RespectsLinks
    <2>3. Equates(class, work)
      BY <1>8, BoundBy DEF Equates
    <2>4. QED
      BY <1>5, <1>8, <2>2, <2>3
  <1>9. QED
    BY <1>4, <1>6, <1>7, <1>8, StepKinds

\* Nothing below the roots refers to a term that is not.
LEMMA UnderClosed ==
    ASSUME UnifyInv
    PROVE  /\ given.lhs \in Under /\ given.rhs \in Under /\ Under \subseteq Addr
           /\ \A a \in Under : Links(given.mem, a) \subseteq Under
  <1>1. LinksInside(given.mem) /\ given.lhs \in Addr /\ given.rhs \in Addr
    BY KeptFacts, LinksAreInside
  <1>2. \A r \in {given.lhs, given.rhs} :
           /\ r \in Reachable(given.mem, r) /\ Reachable(given.mem, r) \subseteq Addr
           /\ \A b \in Reachable(given.mem, r) : Links(given.mem, b) \subseteq Reachable(given.mem, r)
    BY <1>1, ReachableClosed
  <1>3. QED
    BY <1>2 DEF Under

\* A step looks no further than below the roots.
LEMMA InsideStep ==
    ASSUME UnifyInv, Next
    PROVE  Inside'
  <1>1. Under' = Under /\ Under \subseteq Addr
    BY TypeStep, UnderClosed DEF Under
  <1>2. /\ \A p \in Range(todo) : p.lhs \in Under /\ p.rhs \in Under
        /\ \A a \in Under : Bound(mem, a) => mem[a].word \in Under
    BY DEF UnifyInv, Inside
  <1>3. todo # <<>> => Lhs \in Under /\ Rhs \in Under
    <2>1. IsHeap(mem)
      BY KeptFacts
    <2>2. todo # <<>> => Head(todo).lhs \in Under /\ Head(todo).rhs \in Under
      BY <1>2, HeadTyped
    <2>3. ASSUME NEW a \in Under PROVE Follow(mem, a) \in Under
      BY <1>1, <1>2, <2>1, FollowStays
    <2>4. QED
      BY <2>2, <2>3 DEF Lhs, Rhs
  <1>4. CASE Answers
    BY <1>1, <1>2, <1>4 DEF Answers, Inside
  <1>5. ASSUME NEW work, Replaces(work), \A p \in Range(work) : p.lhs \in Under /\ p.rhs \in Under
        PROVE  \A p \in Range(todo') : p.lhs \in Under /\ p.rhs \in Under
    BY <1>2, <1>5, ReplacedRange
  <1>6. ASSUME NEW work, Replaces(work), Skips(work)
        PROVE  Inside'
    <2>1. Range(work) = {}
      BY <1>6 DEF Skips, Range
    <2>2. QED
      BY <1>1, <1>2, <1>5, <1>6, <2>1 DEF Skips, Inside
  <1>7. ASSUME NEW work, Replaces(work), Joins(work)
        PROVE  Inside'
    <2>1. Lhs \in Under /\ Rhs \in Under /\ Lhs \in Addr /\ Rhs \in Addr
      BY <1>1, <1>3, <1>7, ReplacedRange
    <2>2. ASSUME NEW x \in {Lhs, Rhs}, NEW i \in DOMAIN mem[x].subterms
          PROVE  mem[x].subterms[i] \in Under
      <3>1. mem[x] = given.mem[x] /\ ~Bound(given.mem, x)
        BY <1>7, <2>1, KeptFacts DEF Joins, Bound
      <3>2. mem[x].subterms[i] \in Links(given.mem, x)
        BY <3>1 DEF Links, Range
      <3>3. QED
        BY <2>1, <3>2, UnderClosed
    <2>3. /\ Range(work) =
               {[op |-> "unify", lhs |-> mem[Lhs].subterms[i], rhs |-> mem[Rhs].subterms[i]] :
                i \in DOMAIN mem[Lhs].subterms} \cup {[op |-> "verify", lhs |-> Lhs, rhs |-> Rhs]}
          /\ DOMAIN mem[Lhs].subterms = DOMAIN mem[Rhs].subterms
      BY <1>7, <2>1, SubtermPairs DEF Joins
    <2>4. \A p \in Range(work) : p.lhs \in Under /\ p.rhs \in Under
      BY <2>1, <2>2, <2>3
    <2>5. QED
      BY <1>1, <1>2, <1>5, <1>7, <2>4 DEF Joins, Inside
  <1>8. ASSUME NEW work, Replaces(work), NEW u \in Addr, NEW d \in Addr, Binds(u, d, work)
        PROVE  Inside'
    <2>1. u \in Under /\ d \in Under
      BY <1>3, <1>8, ReplacedRange DEF Binds
    <2>2. \A p \in Range(work) : p.lhs \in Under /\ p.rhs \in Under
      BY <1>8, <2>1, BoundBy
    <2>3. \A a \in Under : Bound(mem', a) => mem'[a].word \in Under
      BY <1>1, <1>2, <1>8, <2>1, BoundBy
    <2>4. QED
      BY <1>1, <1>5, <1>8, <2>2, <2>3 DEF Inside
  <1>9. QED
    BY <1>4, <1>6, <1>7, <1>8, StepKinds

-----------------------------------------------------------------------------
(* The classes of terms that are equal so far                              *)

\* The classes of x and y become one.
Merge(class, x, y) ==
    LET name == IF class[x] <= class[y] THEN class[x] ELSE class[y]
    IN  [c \in Addr |-> IF class[c] \in {class[x], class[y]} THEN name ELSE class[c]]

\* M makes equal what class does, and x and y.
IsMerge(M, class, x, y) ==
    /\ M \in Partitions /\ M[x] = M[y] /\ Coarser(M, class)
    /\ \A a, b \in Addr : M[a] = M[b] =>
          \/ class[a] = class[b]
          \/ class[a] = class[x] /\ class[b] = class[y]
          \/ class[a] = class[y] /\ class[b] = class[x]

\* Two classes can be made one.
LEMMA MergeIs ==
    ASSUME NEW class \in Partitions, NEW x \in Addr, NEW y \in Addr
    PROVE  \E M : IsMerge(M, class, x, y)
  <1> DEFINE M == Merge(class, x, y)
  <1>1. /\ class \in [Addr -> Addr]
        /\ \A a \in Addr : class[a] <= a /\ class[class[a]] = class[a]
    BY DEF Partitions
  <1>2. Addr \subseteq Nat
    BY ConstantsAssumption DEF Addr
  <1>3. PICK name \in {class[x], class[y]} : name <= class[x] /\ name <= class[y]
             /\ M = [c \in Addr |-> IF class[c] \in {class[x], class[y]} THEN name ELSE class[c]]
    <2>1. CASE class[x] <= class[y]
      BY <1>1, <1>2, <2>1 DEF Merge
    <2>2. CASE ~(class[x] <= class[y])
      <3>0. class[x] \in Nat /\ class[y] \in Nat
        BY <1>1, <1>2
      <3>1. class[y] <= class[x] /\ class[y] <= class[y]
        BY <2>2, <3>0
      <3>2. M = [c \in Addr |-> IF class[c] \in {class[x], class[y]} THEN class[y] ELSE class[c]]
        BY <2>2 DEF Merge
      <3>3. QED
        BY <3>1, <3>2
    <2>3. QED
      BY <2>1, <2>2
  <1>4. name \in Addr /\ class[name] = name
    BY <1>1, <1>3
  <1>5. ASSUME NEW a \in Addr
        PROVE  M[a] \in Addr /\ M[a] <= a /\ M[M[a]] = M[a]
    <2>1. CASE class[a] \in {class[x], class[y]}
      <3>1. M[a] = name /\ name <= class[a] /\ class[a] <= a
        BY <1>1, <1>3, <2>1
      <3>2. M[name] = name
        BY <1>3, <1>4
      <3>3. name <= a
        <4>1. name \in Nat /\ class[a] \in Nat /\ a \in Nat
          BY <1>1, <1>2, <1>4
        <4>2. QED
          BY <3>1, <4>1
      <3>4. QED
        BY <1>4, <3>1, <3>2, <3>3
    <2>2. CASE class[a] \notin {class[x], class[y]}
      <3>1. M[a] = class[a] /\ class[class[a]] = class[a] /\ class[a] \in Addr /\ class[a] <= a
        BY <1>1, <1>3, <2>2
      <3>2. M[class[a]] = class[a]
        BY <1>3, <2>2, <3>1
      <3>3. QED
        BY <3>1, <3>2
    <2>3. QED
      BY <2>1, <2>2
  <1>6. M \in Partitions
    BY <1>3, <1>5 DEF Partitions
  <1>7. M[x] = M[y] /\ Coarser(M, class)
    BY <1>3 DEF Coarser
  <1>8. ASSUME NEW a \in Addr, NEW b \in Addr, M[a] = M[b]
        PROVE  \/ class[a] = class[b]
               \/ class[a] = class[x] /\ class[b] = class[y]
               \/ class[a] = class[y] /\ class[b] = class[x]
    BY <1>3, <1>8
  <1> HIDE DEF M
  <1>9. IsMerge(M, class, x, y)
    BY <1>6, <1>7, <1>8 DEF IsMerge
  <1>10. QED
    BY <1>9

\* Only terms that are set have subterms.
LEMMA OfCompound ==
    ASSUME UnifyInv, NEW a \in Addr, NEW i \in DOMAIN given.mem[a].subterms
    PROVE  /\ given.mem[a].type \in Compound /\ given.mem[a].type # "Variable"
           /\ mem[a].set /\ ~Bound(mem, a)
  <1>1. given.mem[a].type \in Compound /\ given.mem[a].set
    BY DEF UnifyInv, IsGiven
  <1>2. mem[a] = given.mem[a]
    BY <1>1 DEF UnifyInv, Kept
  <1>3. QED
    BY <1>1, <1>2 DEF Compound, Bound

\* What the classes make of the pair at hand.
LEMMA HeadClasses ==
    ASSUME UnifyInv, todo # <<>>, NEW class, Builds(class)
    PROVE  class[Lhs] = class[Head(todo).lhs] /\ class[Rhs] = class[Head(todo).rhs]
  BY HeadTyped, KeptFacts, FollowKeeps DEF Builds, Lhs, Rhs

\* If F makes the terms equal that a step looks at, then all that was to do before.
LEMMA WorkBefore ==
    ASSUME UnifyInv, NEW work, Replaces(work), NEW class, Builds(class),
           NEW F, Coarser(F, class), Equates(F, todo'),
           Head(todo).op = "unify" => F[Lhs] = F[Rhs]
    PROVE  Equates(F, todo)
  <1>1. /\ Range(todo') = Range(work) \cup Range(Tail(todo))
        /\ Range(todo) = {Head(todo)} \cup Range(Tail(todo)) /\ todo # <<>>
    BY ReplacedRange
  <1>2. F[Lhs] = F[Head(todo).lhs] /\ F[Rhs] = F[Head(todo).rhs]
    BY <1>1, HeadClasses, HeadTyped DEF Coarser
  <1>3. QED
    BY <1>1, <1>2 DEF Equates

\* The classes stay when nothing is done,
LEMMA SkipsBuilt ==
    ASSUME UnifyInv, NEW work, Replaces(work), Skips(work)
    PROVE  Built'
  <1>1. PICK class \in Partitions : Builds(class)
    BY DEF UnifyInv, Built
  <1>2. given' = given /\ mem' = mem
    BY ReplacedRange DEF Skips
  <1>3. ASSUME NEW F \in [Addr -> Addr], Coarser(F, class), Equates(F, todo')
        PROVE  Equates(F, todo)
    <2>1. Head(todo).op = "unify" => Lhs = Rhs
      BY DEF Skips
    <2>2. QED
      BY <1>1, <1>3, <2>1, WorkBefore
  <1>4. Builds(class)'
    BY <1>1, <1>2, <1>3 DEF Builds, RespectsLinks, IsUnsetVar
  <1>5. QED
    BY <1>4 DEF Built

\* and become one for two terms with values that look the same,
LEMMA JoinsBuilt ==
    ASSUME UnifyInv, NEW work, Replaces(work), Joins(work)
    PROVE  Built'
  <1>1. PICK class \in Partitions : Builds(class)
    BY DEF UnifyInv, Built
  <1>2. given' = given /\ mem' = mem /\ todo # <<>> /\ Lhs \in Addr /\ Rhs \in Addr
    BY ReplacedRange, HeadTyped DEF Joins
  <1>3. PICK L, R \in Addr : L = Lhs /\ R = Rhs
    BY <1>2
  <1>4. /\ mem[L] = given.mem[L] /\ mem[R] = given.mem[R]
        /\ mem[L].type # "Variable" /\ mem[R].type # "Variable" /\ SameShape(L, R)
        /\ mem[L].set /\ mem[R].set /\ ~Bound(mem, L) /\ ~Bound(mem, R)
        /\ mem[L].type \notin Compound => mem[L].word = mem[R].word
    BY <1>3, KeptFacts DEF Joins, Follows
  <1>5. PICK M : IsMerge(M, class, L, R)
    BY <1>1, <1>3, MergeIs
  <1>6. /\ M \in Partitions /\ M[L] = M[R] /\ Coarser(M, class)
        /\ \A a, b \in Addr : M[a] = M[b] =>
              \/ class[a] = class[b]
              \/ class[a] = class[L] /\ class[b] = class[R]
              \/ class[a] = class[R] /\ class[b] = class[L]
    BY <1>5 DEF IsMerge
  <1>7. RespectsLinks(mem, M)
    BY <1>1, <1>6, KeptFacts DEF Builds, RespectsLinks, Coarser, IsHeap
  <1>8. ASSUME NEW a \in Addr, NEW b \in Addr, M[a] = M[b]
        PROVE  ~Differ(given.mem, a, b)
    <2>1. ASSUME NEW x \in Addr, NEW y \in Addr, class[x] = class[y]
          PROVE  ~Differ(given.mem, x, y)
      BY <1>1, <2>1 DEF Builds
    <2>2. ASSUME class[a] = class[L], class[b] = class[R]
          PROVE  ~Differ(given.mem, a, b)
      BY <1>4, <2>1, <2>2 DEF Differ, SameShape
    <2>3. ASSUME class[a] = class[R], class[b] = class[L]
          PROVE  ~Differ(given.mem, a, b)
      BY <1>4, <2>1, <2>3 DEF Differ, SameShape
    <2>4. QED
      BY <1>6, <1>8, <2>1, <2>2, <2>3
  <1>9. ASSUME NEW F \in [Addr -> Addr], Coarser(F, M), Equates(F, todo')
        PROVE  /\ F[given.lhs] = F[given.rhs]
               /\ \A a, b \in Addr : M[a] = M[b] =>
                     \A i \in DOMAIN given.mem[a].subterms \cap DOMAIN given.mem[b].subterms :
                         F[given.mem[a].subterms[i]] = F[given.mem[b].subterms[i]]
    <2>1. Coarser(F, class) /\ F[L] = F[R]
      BY <1>6, <1>9 DEF Coarser
    <2>2. Equates(F, todo)
      BY <1>1, <1>3, <1>9, <2>1, WorkBefore
    <2>3. /\ F[given.lhs] = F[given.rhs]
          /\ \A a, b \in Addr : class[a] = class[b] =>
                \A i \in DOMAIN given.mem[a].subterms \cap DOMAIN given.mem[b].subterms :
                    F[given.mem[a].subterms[i]] = F[given.mem[b].subterms[i]]
      BY <1>1, <2>1, <2>2 DEF Builds
    <2>4. \A i \in DOMAIN mem[L].subterms : F[mem[L].subterms[i]] = F[mem[R].subterms[i]]
      <3>1. Range(work) =
               {[op |-> "unify", lhs |-> mem[L].subterms[i], rhs |-> mem[R].subterms[i]] :
                i \in DOMAIN mem[L].subterms} \cup {[op |-> "verify", lhs |-> L, rhs |-> R]}
        BY <1>3, <1>4, SubtermPairs DEF Joins
      <3>2. Equates(F, work)
        BY <1>9, ReplacedRange DEF Equates
      <3>3. ASSUME NEW i \in DOMAIN mem[L].subterms
            PROVE  F[mem[L].subterms[i]] = F[mem[R].subterms[i]]
        <4>1. PICK p : p = [op |-> "unify", lhs |-> mem[L].subterms[i], rhs |-> mem[R].subterms[i]]
          OBVIOUS
        <4>2. p \in Range(work) /\ p.op = "unify"
              /\ p.lhs = mem[L].subterms[i] /\ p.rhs = mem[R].subterms[i]
          BY <3>1, <4>1
        <4>3. QED
          BY <3>2, <4>2 DEF Equates
      <3>4. QED
        BY <3>3
    <2>5. DOMAIN mem[L].subterms = DOMAIN mem[R].subterms
      BY <1>4, SubtermPairs
    <2>6. ASSUME NEW a \in Addr, NEW x \in {L, R}, class[a] = class[x],
                 NEW i \in DOMAIN given.mem[a].subterms
          PROVE  i \in DOMAIN mem[x].subterms /\ F[given.mem[a].subterms[i]] = F[mem[x].subterms[i]]
      <3>1. given.mem[a].type # "Variable"
        BY OfCompound
      <3>2. ~Differ(given.mem, a, x)
        BY <1>1, <2>6 DEF Builds
      <3>3. Len(given.mem[a].subterms) = Len(mem[x].subterms)
        BY <1>4, <3>1, <3>2 DEF Differ
      <3>4. given.mem[a].subterms \in Seq(Addr) /\ mem[x].subterms \in Seq(Addr)
        BY KeptFacts DEF Cell
      <3>5. DOMAIN given.mem[a].subterms = DOMAIN mem[x].subterms
        BY <3>3, <3>4
      <3>6. QED
        BY <1>4, <2>3, <2>6, <3>5
    <2>7. ASSUME NEW a \in Addr, NEW b \in Addr, M[a] = M[b],
                 NEW i \in DOMAIN given.mem[a].subterms \cap DOMAIN given.mem[b].subterms
          PROVE  F[given.mem[a].subterms[i]] = F[given.mem[b].subterms[i]]
      <3>1. CASE class[a] = class[b]
        BY <2>3, <2>7, <3>1
      <3>2. CASE class[a] = class[L] /\ class[b] = class[R]
        BY <2>4, <2>6, <2>7, <3>2
      <3>3. CASE class[a] = class[R] /\ class[b] = class[L]
        BY <2>4, <2>6, <2>7, <3>3
      <3>4. QED
        BY <1>6, <2>7, <3>1, <3>2, <3>3
    <2>8. QED
      BY <2>3, <2>7
  <1>10. ASSUME NEW a \in Addr, NEW b \in Addr, M[a] = M[b], ~mem[a].set
         PROVE  class[a] = class[b]
    BY <1>1, <1>4, <1>6, <1>10 DEF Builds
  <1>11. /\ \A a, b \in Addr : M[a] = M[b] /\ ~mem[a].set => b = a \/ Bound(mem, b)
         /\ \A a, b \in Addr :
               M[a] = M[b] /\ IsUnsetVar(mem, a) => given.mem[b].type = "Variable"
    BY <1>1, <1>10 DEF Builds, IsUnsetVar
  <1>12. Builds(M)'
    BY <1>2, <1>7, <1>8, <1>9, <1>11 DEF Builds, RespectsLinks, IsUnsetVar
  <1>13. QED
    BY <1>6, <1>12 DEF Built

\* or for a term that becomes bound and the one it is bound to.
LEMMA BindsBuilt ==
    ASSUME UnifyInv, NEW work, Replaces(work), NEW u \in Addr, NEW d \in Addr, Binds(u, d, work)
    PROVE  Built'
  <1>1. PICK class \in Partitions : Builds(class)
    BY DEF UnifyInv, Built
  <1>2. /\ RespectsLinks(mem, class)
        /\ \A a, b \in Addr : class[a] = class[b] => ~Differ(given.mem, a, b)
        /\ \A a, b \in Addr : class[a] = class[b] /\ ~mem[a].set => b = a \/ Bound(mem, b)
        /\ \A a, b \in Addr :
              class[a] = class[b] /\ IsUnsetVar(mem, a) => given.mem[b].type = "Variable"
    BY <1>1 DEF Builds
  <1>3. /\ given' = given /\ todo # <<>> /\ {u, d} = {Lhs, Rhs} /\ ~mem[u].set
        /\ \/ IsUnsetVar(mem, u) /\ u # d
           \/ mem[u].type # "Variable" /\ mem[d].type # "Variable" /\ SameShape(u, d)
    BY ReplacedRange DEF Binds
  <1>4. /\ IsHeap(mem') /\ mem'[u].word = d /\ mem'[u].set /\ mem'[u].type = "Variable"
        /\ \A a \in Addr : a # u => mem'[a] = mem[a]
        /\ \A a \in Addr : Bound(mem', a) <=> a = u \/ Bound(mem, a)
        /\ ~Bound(mem, u) /\ ~Bound(mem, d)
    BY BoundBy
  <1>5. PICK M : IsMerge(M, class, u, d)
    BY <1>1, MergeIs
  <1>6. /\ M \in Partitions /\ M[u] = M[d] /\ Coarser(M, class)
        /\ \A a, b \in Addr : M[a] = M[b] =>
              \/ class[a] = class[b]
              \/ class[a] = class[u] /\ class[b] = class[d]
              \/ class[a] = class[d] /\ class[b] = class[u]
    BY <1>5 DEF IsMerge
  <1>7. RespectsLinks(mem', M)
    <2>1. \A a \in Addr : Bound(mem, a) => M[a] = M[mem[a].word]
      BY <1>2, <1>6, KeptFacts DEF RespectsLinks, Coarser, IsHeap
    <2>2. QED
      BY <1>4, <1>6, <2>1 DEF RespectsLinks
  \* What is equal to u is u, or it is bound.
  <1>8. \A a \in Addr : class[a] = class[u] => a = u \/ Bound(mem, a)
    BY <1>2, <1>3
  <1>9. /\ \A a, b \in Addr : class[a] = class[u] /\ class[b] = class[d] =>
              ~Differ(given.mem, a, b) /\ ~Differ(given.mem, b, a)
    <2> SUFFICES ASSUME NEW a \in Addr, NEW b \in Addr, class[a] = class[u], class[b] = class[d],
                        given.mem[a].type # "Variable", given.mem[b].type # "Variable"
                 PROVE  ~Differ(given.mem, a, b) /\ ~Differ(given.mem, b, a)
      BY DEF Differ
    <2>1. mem[u].type # "Variable" /\ mem[d].type # "Variable" /\ SameShape(u, d)
      BY <1>2, <1>3
    <2>2. given.mem[u] = mem[u] /\ given.mem[d] = mem[d]
      BY <2>1, KeptFacts
    <2>3. ~given.mem[a].set
      BY <1>3, <1>8, <2>2, KeptFacts
    <2>4. ~Differ(given.mem, a, u) /\ ~Differ(given.mem, b, d)
      BY <1>2
    <2>5. /\ given.mem[a].type = mem[u].type /\ given.mem[a].tag = mem[u].tag
          /\ Len(given.mem[a].subterms) = Len(mem[u].subterms)
      BY <2>1, <2>2, <2>4 DEF Differ
    <2>6. /\ given.mem[b].type = mem[d].type /\ given.mem[b].tag = mem[d].tag
          /\ Len(given.mem[b].subterms) = Len(mem[d].subterms)
      BY <2>1, <2>2, <2>4 DEF Differ
    <2>7. QED
      BY <2>1, <2>3, <2>5, <2>6 DEF Differ, SameShape
  <1>10. ASSUME NEW a \in Addr, NEW b \in Addr, M[a] = M[b]
         PROVE  ~Differ(given.mem, a, b)
    BY <1>2, <1>6, <1>9, <1>10
  <1>11. ASSUME NEW F \in [Addr -> Addr], Coarser(F, M), Equates(F, todo')
         PROVE  /\ F[given.lhs] = F[given.rhs]
                /\ \A a, b \in Addr : M[a] = M[b] =>
                      \A i \in DOMAIN given.mem[a].subterms \cap DOMAIN given.mem[b].subterms :
                          F[given.mem[a].subterms[i]] = F[given.mem[b].subterms[i]]
    <2>1. Coarser(F, class) /\ F[u] = F[d]
      BY <1>6, <1>11 DEF Coarser
    <2>2. F[Lhs] = F[Rhs]
      BY <1>3, <2>1
    <2>3. Equates(F, todo)
      BY <1>1, <1>11, <2>1, <2>2, WorkBefore
    <2>4. /\ F[given.lhs] = F[given.rhs]
          /\ \A a, b \in Addr : class[a] = class[b] =>
                \A i \in DOMAIN given.mem[a].subterms \cap DOMAIN given.mem[b].subterms :
                    F[given.mem[a].subterms[i]] = F[given.mem[b].subterms[i]]
      BY <1>1, <2>1, <2>3 DEF Builds
    <2>5. ASSUME NEW a \in Addr, NEW i \in DOMAIN given.mem[a].subterms
          PROVE  class[a] # class[u]
      BY <1>3, <1>8, <2>5, OfCompound
    <2>6. QED
      BY <1>6, <2>4, <2>5
  <1>12. ASSUME NEW a \in Addr, NEW b \in Addr, M[a] = M[b], ~mem'[a].set
         PROVE  /\ ~mem[a].set /\ mem'[a] = mem[a]
                /\ class[a] = class[b] \/ (a = d /\ class[b] = class[u])
    <2>1. a # u /\ mem'[a] = mem[a] /\ ~mem[a].set
      BY <1>4, <1>12
    <2>2. class[a] # class[u]
      BY <1>8, <2>1 DEF Bound
    <2>3. class[a] = class[d] => a = d
      BY <1>2, <1>4, <2>1
    <2>4. QED
      BY <1>6, <1>12, <2>1, <2>2, <2>3
  <1>13. ASSUME NEW a \in Addr, NEW b \in Addr, M[a] = M[b], ~mem'[a].set
         PROVE  b = a \/ Bound(mem', b)
    BY <1>2, <1>4, <1>8, <1>12, <1>13
  <1>14. ASSUME NEW a \in Addr, NEW b \in Addr, M[a] = M[b], IsUnsetVar(mem', a)
         PROVE  given.mem[b].type = "Variable"
    <2>1. ~mem'[a].set
      BY <1>14 DEF IsUnsetVar
    <2>2. IsUnsetVar(mem, a)
      BY <1>12, <1>14, <2>1 DEF IsUnsetVar
    <2>3. CASE class[a] = class[b]
      BY <1>2, <2>2, <2>3
    <2>4. CASE a = d /\ class[b] = class[u]
      <3>1. IsUnsetVar(mem, u)
        BY <1>3, <2>2, <2>4 DEF IsUnsetVar
      <3>2. QED
        BY <1>2, <2>4, <3>1
    <2>5. QED
      BY <1>12, <1>14, <2>1, <2>3, <2>4
  <1>15. Builds(M)'
    BY <1>3, <1>7, <1>10, <1>11, <1>13, <1>14 DEF Builds
  <1>16. QED
    BY <1>6, <1>15 DEF Built

\* Every step keeps the invariant.
THEOREM NextInv == UnifyInv /\ [Next]_vars => UnifyInv'
  <1>1. ASSUME UnifyInv, Next PROVE UnifyInv'
    <2>1. TypeOK' /\ IsGiven(given.mem)' /\ Kept' /\ General' /\ Inside'
      BY <1>1, TypeStep, KeptStep, GeneralStep, InsideStep DEF UnifyInv
    <2>2. Built'
      <3>1. CASE Answers
        BY <1>1, <3>1 DEF UnifyInv, Answers, Built, Builds
      <3>2. QED
        BY <1>1, <3>1, StepKinds, SkipsBuilt, JoinsBuilt, BindsBuilt
    <2>3. result' = "true" => todo' = <<>>
      BY <1>1, StepKinds, ReplacedRange DEF Answers
    <2>4. QED
      BY <2>1, <2>2, <2>3 DEF UnifyInv
  <1>2. ASSUME UnifyInv, UNCHANGED vars PROVE UnifyInv'
    <2>1. UNCHANGED <<mem, todo, result, given>>
      BY <1>2 DEF vars
    <2>2. TypeOK' /\ IsGiven(given.mem)' /\ Kept' /\ (result' = "true" => todo' = <<>>)
      BY <1>2, <2>1 DEF UnifyInv, TypeOK, Kept
    <2>3. General'
      BY <1>2, <2>1 DEF UnifyInv, General, Equating
    <2>4. Built'
      BY <1>2, <2>1 DEF UnifyInv, Built, Builds
    <2>5. Inside'
      BY <1>2, <2>1 DEF UnifyInv, Inside, Under
    <2>6. QED
      BY <2>2, <2>3, <2>4, <2>5 DEF UnifyInv
  <1>3. QED
    BY <1>1, <1>2

\* The invariant.
THEOREM Invariant == Spec => []UnifyInv
  BY InitInv, NextInv, PTL DEF Spec

-----------------------------------------------------------------------------
(* What unification achieves                                               *)

\* Representations, what is left to do and the result stay what they are meant
\* to be, and bound variables are bound to representations.
THEOREM TypeCorrect == Spec => []TypeOK
  BY Invariant, PTL DEF UnifyInv

\* A unifier makes a term equal to the end of its chain.
LEMMA InvMostGeneral ==
    ASSUME UnifyInv
    PROVE  MostGeneral
  <1>1. ASSUME NEW class \in Equating, NEW a \in Addr
        PROVE  class[Follow(mem, a)] = class[a]
    BY KeptFacts, FollowKeeps DEF UnifyInv, General
  <1>2. QED
    BY <1>1 DEF MostGeneral

\* Terms that _DI_unify links, whether it succeeds in the end or not, are equal in
\* all unifiers of the terms it was called with.
THEOREM LinksAreNeeded == Spec => []MostGeneral
  BY Invariant, InvMostGeneral, PTL

\* When nothing is left to do, the classes are those of a unifier.
LEMMA InvSound ==
    ASSUME UnifyInv
    PROVE  Sound
  <1> SUFFICES ASSUME result = "true" PROVE Consistent
    BY DEF Sound
  <1>1. PICK class \in Partitions : Builds(class)
    BY DEF UnifyInv, Built
  <1>2. class \in [Addr -> Addr] /\ Coarser(class, class)
    BY <1>1 DEF Partitions, Coarser
  <1>3. Equates(class, todo)
    BY DEF UnifyInv, Equates, Range
  <1>4. class[given.lhs] = class[given.rhs] /\ RespectsSubterms(given.mem, class)
    BY <1>1, <1>2, <1>3 DEF Builds, RespectsSubterms
  <1>5. RespectsLinks(given.mem, class)
    <2>1. ASSUME NEW a \in Addr, Bound(given.mem, a)
          PROVE  class[a] = class[given.mem[a].word]
      <3>1. mem[a] = given.mem[a] /\ Bound(mem, a)
        BY <2>1, KeptFacts DEF Bound
      <3>2. QED
        BY <1>1, <3>1 DEF Builds, RespectsLinks
    <2>2. QED
      BY <2>1 DEF RespectsLinks
  <1>6. class \in Equating
    BY <1>1, <1>4, <1>5 DEF Equating
  <1>7. QED
    BY <1>1, <1>6 DEF Consistent, Builds

\* _DI_unify says that two terms are unified only if a unifier exists.
THEOREM UnifierExists == Spec => []Sound
  BY Invariant, InvSound, PTL

\* If two terms clash, there is no unifier; if one is refused, it is annotated.
LEMMA CompleteStep ==
    ASSUME UnifyInv, Complete, [Next]_vars
    PROVE  Complete'
  <1>1. given' = given
    BY TypeStep DEF vars
  <1>2. Consistent' = Consistent /\ AnnotatedBelow(given.mem)' = AnnotatedBelow(given.mem)
    BY <1>1 DEF Consistent, Equating, AnnotatedBelow
  <1>3. CASE UNCHANGED vars
    BY <1>2, <1>3 DEF vars, Complete
  <1>4. ASSUME Clashes PROVE ~Consistent
    <2>1. Lhs \in Addr /\ Rhs \in Addr /\ mem[Lhs] = given.mem[Lhs] /\ mem[Rhs] = given.mem[Rhs]
      BY <1>4, HeadTyped, KeptFacts DEF Clashes
    <2>2. Differ(given.mem, Lhs, Rhs)
      BY <1>4, <2>1 DEF Clashes, SameShape, Differ
    <2>3. \A class \in Equating : class[Lhs] = class[Rhs]
      BY <1>4, HeadEqual DEF Clashes, Follows
    <2>4. QED
      BY <2>1, <2>2, <2>3 DEF Consistent
  <1>5. ASSUME IsRefused PROVE AnnotatedBelow(given.mem) # {}
    <2>1. PICK a \in {Head(todo).lhs, Head(todo).rhs} : mem[a].annotated
      BY <1>5 DEF IsRefused
    <2>2. a \in Under
      BY <1>5, <2>1, HeadTyped DEF UnifyInv, Inside, IsRefused
    <2>3. given.mem[a].annotated
      BY <2>1, <2>2, UnderClosed, KeptFacts
    <2>4. QED
      BY <2>2, <2>3 DEF AnnotatedBelow, Under
  <1>6. CASE Answers
    BY <1>2, <1>4, <1>5, <1>6 DEF Answers, Complete
  <1>7. ASSUME NEW work, Replaces(work) PROVE Complete'
    BY <1>7, ReplacedRange DEF Complete
  <1>8. QED
    BY <1>3, <1>6, <1>7, StepKinds

\* _DI_unify says that two terms cannot be unified only if there is no unifier, or
\* if one of the terms below them is annotated.
THEOREM FailsForAReason == Spec => []Complete
  <1>1. Init => Complete
    BY DEF Init, Complete
  <1>2. UnifyInv /\ Complete /\ [Next]_vars => Complete'
    BY CompleteStep
  <1>3. QED
    BY <1>1, <1>2, Invariant, PTL DEF Spec

\* A step changes one representation, which had no value: it becomes bound to one
\* that is no bound variable.
THEOREM BindsOnly == Spec => OnlyBinds
  <1>1. ASSUME UnifyInv, Next, mem' # mem
        PROVE  BindsATerm
    <2>0. PICK work : Replaces(work) /\ \E u, d \in Addr : Binds(u, d, work)
      BY <1>1, StepKinds DEF Answers, Skips, Joins
    <2>1. PICK u \in Addr, d \in Addr : Replaces(work) /\ Binds(u, d, work)
      BY <2>0
    <2>2. /\ mem'[u] = Overwritten(mem[u], d) /\ mem' = Substitute(mem, u, d)
          /\ mem'[u].type = "Variable" /\ mem'[u].set /\ mem'[u].word = d
          /\ mem'[u].annotated = mem[u].annotated /\ ~mem[u].set /\ ~Bound(mem, d)
      BY <1>1, <2>1, BoundBy
    <2>3. mem \in [Addr -> Cell]
      BY <1>1, KeptFacts DEF IsHeap
    <2>4. mem' = [mem EXCEPT ![u] = mem'[u]]
      BY <2>2, <2>3, SubstituteIs
    <2>5. QED
      BY <2>2, <2>4 DEF BindsATerm
  <1>2. UnifyInv /\ [Next]_vars => [mem' # mem => BindsATerm]_vars
    BY <1>1
  <1>3. QED
    BY <1>2, Invariant, PTL DEF Spec, OnlyBinds

-----------------------------------------------------------------------------
(* Annotations                                                             *)

\* The check that the first call makes in the end comes last in todo.
EndsWith(list, p) == list # <<>> /\ list[Len(list)] = p

\* What comes last in todo stays until it is the only one.
LEMMA LastStays ==
    ASSUME UnifyInv, NEW work, Replaces(work)
    PROVE  /\ \A p : EndsWith(todo, p) => EndsWith(todo', p) \/ (todo = <<p>> /\ todo' = work)
           /\ \A p : todo = <<p>> => todo' = work
  <1>1. PICK P : P = Pair
    OBVIOUS
  <1>2. todo \in Seq(P) /\ todo # <<>> /\ work \in Seq(P) /\ todo' = work \o Tail(todo)
    BY <1>1, HeadTyped DEF Replaces
  <1>3. PICK n, tail : n = Len(todo) /\ tail = Tail(todo)
    OBVIOUS
  <1>4. /\ n \in Nat \ {0} /\ tail \in Seq(P) /\ Len(tail) = n - 1
        /\ \A i \in 1..(n - 1) : tail[i] = todo[i + 1]
        /\ todo' = work \o tail
    BY <1>2, <1>3
  <1>5. ASSUME NEW p, EndsWith(todo, p), n # 1 PROVE EndsWith(todo', p)
    <2>1. n - 1 \in 1..(n - 1) /\ (n - 1) + 1 = n /\ todo[n] = p
      BY <1>3, <1>4, <1>5 DEF EndsWith
    <2>2. tail[n - 1] = p
      BY <1>4, <2>1
    <2>3. /\ Len(work \o tail) = Len(work) + (n - 1) /\ Len(work) \in Nat
          /\ (work \o tail)[Len(work) + (n - 1)] = tail[n - 1]
      BY <1>2, <1>4, <2>1
    <2>4. Len(todo') = Len(work) + (n - 1) /\ todo'[Len(todo')] = p
      BY <1>4, <2>2, <2>3
    <2>5. todo' # <<>>
      BY <1>4, <2>1, <2>3, <2>4
    <2>6. QED
      BY <2>4, <2>5 DEF EndsWith
  <1>6. n = 1 => todo' = work
    <2>1. n = 1 => tail = <<>>
      BY <1>4
    <2>2. work \o <<>> = work
      BY <1>2
    <2>3. QED
      BY <1>4, <2>1, <2>2
  <1>7. ASSUME NEW p, EndsWith(todo, p), n = 1 PROVE todo = <<p>>
    <2>1. Len(todo) = 1 /\ todo[1] = p
      BY <1>3, <1>7 DEF EndsWith
    <2>2. p \in P
      BY <1>2, <2>1
    <2>3. <<p>> \in Seq(P) /\ Len(<<p>>) = 1 /\ <<p>>[1] = p
      BY <2>2
    <2>4. QED
      BY <1>2, <2>1, <2>3, SeqEqual
  <1>8. \A p : todo = <<p>> => n = 1
    BY <1>3
  <1>9. QED
    BY <1>5, <1>6, <1>7, <1>8

\* The list that Decompose makes ends with the check.
LEMMA LastOfSubterms ==
    ASSUME UnifyInv, NEW a \in Addr, NEW b \in Addr, SameShape(a, b)
    PROVE  EndsWith(Subterms(a, b) \o Verification(a, b), [op |-> "verify", lhs |-> a, rhs |-> b])
  <1>1. PICK p : p = [op |-> "verify", lhs |-> a, rhs |-> b]
    OBVIOUS
  <1>2. PICK P : P = Pair \cup {p}
    OBVIOUS
  <1>3. PICK s : s = mem[a].subterms /\ s \in Seq(Addr)
    BY KeptFacts DEF Cell
  <1>4. PICK t : t = [i \in 1..Len(s) |->
                        [op |-> "unify", lhs |-> s[i], rhs |-> mem[b].subterms[i]]]
    OBVIOUS
  <1>5. Subterms(a, b) = t /\ Verification(a, b) = <<p>>
    BY <1>1, <1>3, <1>4 DEF Subterms, Verification
  <1>6. t \in Seq({t[i] : i \in 1..Len(s)}) /\ Len(t) = Len(s) /\ Len(s) \in Nat
    <2>1. Len(s) \in Nat
      BY <1>3
    <2>2. t \in [1..Len(s) -> {t[i] : i \in 1..Len(s)}]
      BY <1>4
    <2>3. t \in Seq({t[i] : i \in 1..Len(s)})
      BY <2>1, <2>2, SeqDef
    <2>4. Len(t) = Len(s)
      BY <2>1, <2>2, <2>3
    <2>5. QED
      BY <2>1, <2>3, <2>4
  <1>7. PICK T : T = {t[i] : i \in 1..Len(s)} \cup {p}
    OBVIOUS
  <1>8. t \in Seq(T) /\ <<p>> \in Seq(T)
    <2>1. t \in [1..Len(t) -> T]
      BY <1>4, <1>6, <1>7
    <2>2. t \in Seq(T)
      BY <1>6, <2>1, SeqDef
    <2>3. p \in T
      BY <1>7
    <2>4. QED
      BY <2>2, <2>3
  <1>9. Len(t \o <<p>>) = Len(t) + 1 /\ (t \o <<p>>)[Len(t) + 1] = p
    BY <1>8
  <1>10. t \o <<p>> # <<>>
    BY <1>6, <1>9
  <1>11. QED
    BY <1>1, <1>5, <1>9, <1>10 DEF EndsWith

\* The two terms that _DI_unify was called with, after following them.
LeftRoot  == Follow(given.mem, given.lhs)
RightRoot == Follow(given.mem, given.rhs)

\* If they are no variables: at first nothing has happened; then they are still to
\* be verified, after all else; in the end they have been.
RootsInv ==
    given.mem[LeftRoot].type # "Variable" /\ given.mem[RightRoot].type # "Variable" =>
        \/ mem = given.mem /\ todo = <<[op |-> "unify", lhs |-> given.lhs, rhs |-> given.rhs]>>
        \/ EndsWith(todo, [op |-> "verify", lhs |-> LeftRoot, rhs |-> RightRoot])
        \/ EndsWith(todo, [op |-> "verify", lhs |-> RightRoot, rhs |-> LeftRoot])
        \/ todo = <<>> /\ VerifyAnnotation(mem, LeftRoot) /\ VerifyAnnotation(mem, RightRoot)

\* A check that does not fail has found values.
LEMMA Verified ==
    ASSUME Next, NEW a, NEW b, todo = <<[op |-> "verify", lhs |-> a, rhs |-> b]>>,
           result' = "running"
    PROVE  VerifyAnnotation(mem, a) /\ VerifyAnnotation(mem, b) /\ mem' = mem
  <1>1. PICK p : p = [op |-> "verify", lhs |-> a, rhs |-> b]
    OBVIOUS
  <1>2. todo = <<p>> /\ p.op = "verify" /\ p.lhs = a /\ p.rhs = b
    BY <1>1
  <1>3. Head(todo) = p /\ todo # <<>>
    BY <1>2
  <1>4. ~Unifying
    BY <1>2, <1>3 DEF Unifying, Active
  <1>5. Verify
    BY <1>3, <1>4 DEF Next, SameVariable, BindLhs, BindRhs, BindTerm, SameValue, Decompose, Clash,
                      BothSet, BothTerms, Succeed
  <1>6. VerifyBoth(a, b) /\ Then(mem, <<>>)
    BY <1>2, <1>3, <1>5 DEF Verify, Return
  <1>7. QED
    BY <1>6 DEF VerifyBoth, Then

\* The check of the roots is never lost.
LEMMA RootsStep ==
    ASSUME UnifyInv, RootsInv, [Next]_vars
    PROVE  RootsInv'
  <1>1. CASE UNCHANGED vars
    BY <1>1 DEF vars, RootsInv, LeftRoot, RightRoot
  <1>2. CASE Answers
    BY <1>2 DEF Answers, RootsInv, LeftRoot, RightRoot
  <1>3. ASSUME Next, NEW work, Replaces(work) PROVE RootsInv'
    <2>1. given' = given /\ LeftRoot' = LeftRoot /\ RightRoot' = RightRoot /\ result' = "running"
      BY <1>3, ReplacedRange DEF LeftRoot, RightRoot
    <2>2. SUFFICES ASSUME given.mem[LeftRoot].type # "Variable",
                          given.mem[RightRoot].type # "Variable"
                   PROVE  RootsInv'
      BY <2>1 DEF RootsInv
    <2>3. LeftRoot \in Addr /\ RightRoot \in Addr
      BY KeptFacts, FollowTyped DEF LeftRoot, RightRoot
    <2> DEFINE first == [op |-> "unify", lhs |-> given.lhs, rhs |-> given.rhs]
               left  == [op |-> "verify", lhs |-> LeftRoot, rhs |-> RightRoot]
               right == [op |-> "verify", lhs |-> RightRoot, rhs |-> LeftRoot]
    <2>4. CASE mem = given.mem /\ todo = <<first>>
      <3>1. Head(todo) = first /\ first.op = "unify" /\ first.lhs = given.lhs
            /\ first.rhs = given.rhs /\ todo # <<>>
        BY <2>4
      <3>2. Lhs = LeftRoot /\ Rhs = RightRoot /\ Head(todo).op = "unify" /\ Head(todo).op # "verify"
        BY <2>4, <3>1 DEF Lhs, Rhs, LeftRoot, RightRoot
      <3>3. \A x \in {Lhs, Rhs} : ~IsUnsetVar(mem, x)
        BY <2>2, <2>4, <3>2 DEF IsUnsetVar
      <3>4. todo' = work
        BY <1>3, <2>4, LastStays
      <3>5. \E w : Replaces(w) /\ (Skips(w) \/ Joins(w) \/ \E u, d \in Addr : Binds(u, d, w))
        <4>1. ~Answers
          BY <2>1, <3>1 DEF Answers
        <4>2. QED
          BY <1>3, <4>1, StepKinds
      <3>6. PICK w : Replaces(w) /\ (Skips(w) \/ Joins(w) \/ \E u, d \in Addr : Binds(u, d, w))
        BY <3>5
      <3>7. todo' = w
        BY <2>4, <3>6, LastStays
      <3>8. ~Skips(w)
        BY <3>2, <3>3 DEF Skips
      <3>9. CASE Joins(w)
        <4>1. EndsWith(w, left)
          BY <2>3, <3>2, <3>9, LastOfSubterms DEF Joins
        <4>2. QED
          BY <2>1, <3>7, <4>1 DEF RootsInv
      <3>10. ASSUME NEW u \in Addr, NEW d \in Addr, Binds(u, d, w) PROVE RootsInv'
        <4>1. w = Verification(u, d) /\ {u, d} = {LeftRoot, RightRoot}
          BY <3>2, <3>3, <3>10 DEF Binds
        <4>2. PICK p : p = [op |-> "verify", lhs |-> u, rhs |-> d]
          OBVIOUS
        <4>3. w = <<p>> /\ EndsWith(<<p>>, p)
          BY <4>1, <4>2 DEF Verification, EndsWith
        <4>4. EndsWith(todo', p)
          BY <3>7, <4>3
        <4>5. p = left \/ p = right
          BY <4>1, <4>2
        <4>6. EndsWith(todo', left) \/ EndsWith(todo', right)
          BY <4>4, <4>5
        <4>7. QED
          BY <2>1, <4>6 DEF RootsInv
      <3>11. QED
        BY <3>6, <3>8, <3>9, <3>10
    <2>5. ASSUME NEW a \in {LeftRoot, RightRoot}, NEW b \in {LeftRoot, RightRoot},
                 {a, b} = {LeftRoot, RightRoot},
                 EndsWith(todo, [op |-> "verify", lhs |-> a, rhs |-> b])
          PROVE  RootsInv'
      <3> DEFINE p == [op |-> "verify", lhs |-> a, rhs |-> b]
      <3>1. CASE EndsWith(todo', p)
        <4>1. p = left \/ p = right
          BY <2>5
        <4>2. EndsWith(todo', left) \/ EndsWith(todo', right)
          BY <3>1, <4>1
        <4>3. QED
          BY <2>1, <4>2 DEF RootsInv
      <3>2. CASE todo = <<p>> /\ todo' = work
        <4>1. VerifyAnnotation(mem, a) /\ VerifyAnnotation(mem, b) /\ mem' = mem
          BY <1>3, <2>1, <3>2, Verified
        <4>2. VerifyAnnotation(mem', LeftRoot) /\ VerifyAnnotation(mem', RightRoot)
          BY <2>5, <4>1
        <4>3. todo' = <<>>
          <5>1. Head(todo) = p /\ p.op = "verify"
            BY <3>2
          <5>2. ~Follows
            BY <5>1 DEF Follows
          <5>3. ~Answers
            BY <2>1, <3>2 DEF Answers
          <5>4. PICK w : Replaces(w) /\ Skips(w)
            BY <1>3, <5>2, <5>3, StepKinds DEF Joins, Binds
          <5>5. QED
            BY <3>2, <5>4, LastStays DEF Skips
        <4>4. QED
          BY <2>1, <4>2, <4>3 DEF RootsInv
      <3>3. QED
        BY <1>3, <2>5, <3>1, <3>2, LastStays
    <2>6. todo # <<>>
      BY <1>3, ReplacedRange
    <2>7. QED
      BY <2>2, <2>4, <2>5, <2>6 DEF RootsInv
  <1>4. QED
    BY <1>1, <1>2, <1>3, StepKinds

\* The chain of a root ends where it ended at first, and what is on it is set.
LEMMA InvAnnotated ==
    ASSUME UnifyInv, RootsInv, result = "true", NEW a \in {given.lhs, given.rhs},
           given.mem[LeftRoot].type # "Variable", given.mem[RightRoot].type # "Variable",
           given.mem[Follow(given.mem, a)].annotated
    PROVE  \A x \in Reachable(mem, a) : mem[x].set
  <1>1. PICK b : b = Follow(given.mem, a)
    OBVIOUS
  <1>2. a \in Addr /\ b \in Addr /\ b \in {LeftRoot, RightRoot} /\ given.mem[b].annotated
    BY <1>1, KeptFacts, FollowTyped DEF LeftRoot, RightRoot
  <1>3. VerifyAnnotation(mem, b)
    <2>1. todo = <<>>
      BY DEF UnifyInv
    <2>2. \A p : ~EndsWith(todo, p) /\ todo # <<p>>
      BY <2>1 DEF EndsWith
    <2>3. QED
      BY <1>2, <2>2 DEF RootsInv
  <1>4. \A x \in Reachable(mem, b) : mem[x].set
    BY <1>2, <1>3, KeptFacts DEF VerifyAnnotation
  <1>5. LinksInside(mem)
    BY KeptFacts, LinksAreInside
  <1>6. /\ b \in Reachable(mem, b) /\ Reachable(mem, b) \subseteq Addr
        /\ \A x \in Reachable(mem, b) : Links(mem, x) \subseteq Reachable(mem, b)
    BY <1>2, <1>5, ReachableClosed
  <1>7. IsGiven(given.mem) /\ IsHeap(given.mem) /\ \A x \in Addr : Bound(given.mem, x) => given.mem[x].word < x
    BY DEF UnifyInv, IsGiven
  <1>8. PICK class \in Partitions : IsChains(given.mem, class, N)
    BY <1>7, ChainsExist
  <1>9. \A x \in Addr : /\ Bound(given.mem, x) => class[x] = class[given.mem[x].word]
                        /\ ~Bound(given.mem, x) => class[x] = x
    BY <1>8 DEF IsChains, Addr
  <1>10. class[a] = b
    <2>1. class[b] = class[a]
      BY <1>1, <1>2, <1>7, <1>9, FollowKeeps DEF RespectsLinks
    <2>2. ~Bound(given.mem, b)
      BY <1>1, <1>2, <1>7, OlderEnds DEF ChainEnds
    <2>3. QED
      BY <1>2, <1>9, <2>1, <2>2
  <1> DEFINE S == Reachable(mem, b) \cup {x \in Addr : Bound(given.mem, x) /\ class[x] = b}
  <1>11. a \in S /\ S \subseteq Addr
    BY <1>2, <1>6, <1>9, <1>10
  <1>12. ASSUME NEW x \in S PROVE Links(mem, x) \subseteq S
    <2>1. CASE x \in Reachable(mem, b)
      BY <1>6, <2>1
    <2>2. CASE x \in Addr /\ Bound(given.mem, x) /\ class[x] = b
      <3>1. mem[x] = given.mem[x]
        BY <2>2, KeptFacts
      <3>2. Links(mem, x) = {given.mem[x].word}
        BY <2>2, <3>1 DEF Links, Bound
      <3>3. given.mem[x].word \in Addr /\ class[given.mem[x].word] = b
        BY <1>7, <1>9, <2>2 DEF IsHeap
      <3>4. given.mem[x].word \in S
        BY <1>6, <1>9, <3>3
      <3>5. QED
        BY <3>2, <3>4
    <2>3. QED
      BY <2>1, <2>2
  <1>13. \A x \in S : mem[x].set
    BY <1>4, KeptFacts DEF Bound
  <1> HIDE DEF S
  <1>14. Reachable(mem, a) \subseteq S
    BY <1>5, <1>11, <1>12, ReachableStays
  <1>15. QED
    BY <1>13, <1>14

\* If neither root is a variable and one is annotated, all terms below it have
\* values when _DI_unify succeeds.
THEOREM AnnotationsHold == Spec => []AnnotatedRootsHaveValues
  <1>1. Init => RootsInv
    <2> SUFFICES ASSUME Init PROVE RootsInv
      OBVIOUS
    <2>1. PICK roots \in {<<N, N - 1>>, <<N - 1, N>>} :
             /\ todo = <<[op |-> "unify", lhs |-> roots[1], rhs |-> roots[2]]>>
             /\ given = [mem |-> mem, lhs |-> roots[1], rhs |-> roots[2]]
      BY DEF Init
    <2>2. given.mem = mem /\ todo = <<[op |-> "unify", lhs |-> given.lhs, rhs |-> given.rhs]>>
      BY <2>1
    <2>3. QED
      BY <2>2 DEF RootsInv
  <1>2. UnifyInv /\ RootsInv /\ [Next]_vars => RootsInv'
    BY RootsStep
  <1>3. UnifyInv /\ RootsInv => AnnotatedRootsHaveValues
    <2> SUFFICES ASSUME UnifyInv, RootsInv, result = "true", NEW a \in {given.lhs, given.rhs},
                        ~IsUnsetVar(given.mem, Follow(given.mem, a)),
                        ~IsUnsetVar(given.mem, Follow(given.mem,
                              IF a = given.lhs THEN given.rhs ELSE given.lhs)),
                        given.mem[Follow(given.mem, a)].annotated
                 PROVE  \A d \in Reachable(mem, a) : mem[d].set
      BY DEF AnnotatedRootsHaveValues
    <2>1. ~IsUnsetVar(given.mem, LeftRoot) /\ ~IsUnsetVar(given.mem, RightRoot)
      BY DEF LeftRoot, RightRoot
    <2>2. ~Bound(given.mem, LeftRoot) /\ ~Bound(given.mem, RightRoot)
      <3>1. IsHeap(given.mem) /\ \A x \in Addr : Bound(given.mem, x) => given.mem[x].word < x
        BY DEF UnifyInv, IsGiven
      <3>2. QED
        BY <3>1, KeptFacts, OlderEnds DEF ChainEnds, LeftRoot, RightRoot
    <2>3. given.mem[LeftRoot].type # "Variable" /\ given.mem[RightRoot].type # "Variable"
      BY <2>1, <2>2 DEF Bound, IsUnsetVar
    <2>4. QED
      BY <2>3, InvAnnotated
  <1>4. QED
    BY <1>1, <1>2, <1>3, Invariant, PTL DEF Spec

-----------------------------------------------------------------------------
(* Unified terms compare equal                                             *)

\* The chains of an acyclic term end: fewer terms are below each step of them.
LEMMA AcyclicEnds ==
    ASSUME NEW m, IsHeap(m), NEW root \in Addr, AcyclicFrom(m, root),
           NEW a \in Reachable(m, root)
    PROVE  ChainEnds(m, a)
  <1>1. LinksInside(m)
    BY LinksAreInside
  <1>2. N \in Nat /\ IsFiniteSet(Addr) /\ Cardinality(Addr) = N
    <2>1. N \in Nat
      BY ConstantsAssumption
    <2>2. IsFiniteSet(1..N) /\ Cardinality(1..N) = IF 1 > N THEN 0 ELSE N - 1 + 1
      BY <2>1, FS_Interval
    <2>3. QED
      BY <2>1, <2>2 DEF Addr
  <1>3. \A b \in Addr : /\ b \in Reachable(m, b) /\ Reachable(m, b) \subseteq Addr
                        /\ \A c \in Reachable(m, b) : Links(m, c) \subseteq Reachable(m, b)
    BY <1>1, ReachableClosed
  <1>4. \A b \in Addr : IsFiniteSet(Reachable(m, b)) /\ Cardinality(Reachable(m, b)) \in Nat
                        /\ Cardinality(Reachable(m, b)) <= N
    BY <1>2, <1>3, FS_Subset, FS_CardinalityType
  <1>5. ASSUME NEW b \in Reachable(m, root), Bound(m, b)
        PROVE  /\ m[b].word \in Reachable(m, root)
               /\ Cardinality(Reachable(m, m[b].word)) < Cardinality(Reachable(m, b))
    <2>1. b \in Addr /\ m[b].word \in Addr /\ m[b].word \in Links(m, b)
      BY <1>3, <1>5 DEF IsHeap, Links
    <2>2. m[b].word \in Reachable(m, root)
      BY <1>3, <2>1
    <2>3. Reachable(m, m[b].word) \subseteq Reachable(m, b)
      <3>1. m[b].word \in Reachable(m, b)
        BY <1>3, <2>1
      <3>2. QED
        BY <1>1, <1>3, <2>1, <3>1, ReachableStays
    <2>4. b \notin Reachable(m, m[b].word)
      BY <2>1 DEF AcyclicFrom
    <2>5. Reachable(m, m[b].word) # Reachable(m, b)
      BY <1>3, <2>1, <2>4
    <2>6. QED
      BY <1>4, <2>1, <2>2, <2>3, <2>5, FS_Subset
  <1>6. a \in Addr
    BY <1>3
  <1>7. PICK f \in [0..N -> Addr] :
           f[0] = a /\ (\A n \in 1..N : f[n] = Target(m, f[n - 1])) /\ f[N] = Follow(m, a)
    BY <1>6, FollowSteps
  <1> DEFINE P == {n \in Nat : n <= N =>
                     /\ f[n] \in Reachable(m, root)
                     /\ Bound(m, f[n]) => Cardinality(Reachable(m, f[n])) <= N - n}
  <1>8. 0 \in P
    BY <1>2, <1>4, <1>6, <1>7
  <1>9. ASSUME NEW n \in Nat, n \in P PROVE n + 1 \in P
    <2> SUFFICES ASSUME n + 1 <= N
                 PROVE  /\ f[n + 1] \in Reachable(m, root)
                        /\ Bound(m, f[n + 1]) =>
                              Cardinality(Reachable(m, f[n + 1])) <= N - (n + 1)
      OBVIOUS
    <2>1. n + 1 \in 1..N /\ n \in 0..N /\ (n + 1) - 1 = n /\ n <= N
      BY <1>2
    <2>2. f[n + 1] = Target(m, f[n]) /\ f[n] \in Addr /\ f[n] \in Reachable(m, root)
      BY <1>7, <1>9, <2>1
    <2>3. CASE ~Bound(m, f[n])
      BY <2>2, <2>3 DEF Target
    <2>4. CASE Bound(m, f[n])
      <3>1. f[n + 1] = m[f[n]].word /\ f[n + 1] \in Addr
        BY <2>2, <2>4 DEF Target, IsHeap
      <3>2. Cardinality(Reachable(m, f[n])) <= N - n
        BY <1>9, <2>1, <2>4
      <3>3. /\ f[n + 1] \in Reachable(m, root)
            /\ Cardinality(Reachable(m, f[n + 1])) < Cardinality(Reachable(m, f[n]))
        BY <1>5, <2>2, <2>4, <3>1
      <3>4. QED
        <4>1. Cardinality(Reachable(m, f[n + 1])) \in Nat /\ Cardinality(Reachable(m, f[n])) \in Nat
          BY <1>4, <2>2, <3>1
        <4>2. QED
          BY <1>2, <3>2, <3>3, <4>1
    <2>5. QED
      BY <2>3, <2>4
  <1>10. Nat \subseteq P
    BY <1>8, <1>9, Induction
  <1>11. f[N] \in Addr /\ (Bound(m, f[N]) => Cardinality(Reachable(m, f[N])) <= 0)
    BY <1>2, <1>7, <1>10
  <1>12. Cardinality(Reachable(m, f[N])) # 0
    BY <1>3, <1>4, <1>11, FS_EmptySet
  <1>13. QED
    BY <1>4, <1>7, <1>11, <1>12 DEF ChainEnds

\* The comparison of all pairs of terms, down to paths of length n.
EqualAt(m, f, n) ==
    [p \in Addr \X Addr |-> n = 0 \/ SameTerm(m, Follow(m, p[1]), Follow(m, p[2]), f[n - 1])]

\* The recursive definition of Equals has a solution.
LEMMA EqualsExist ==
    ASSUME NEW m
    PROVE  \E f : f = [n \in 0..N |-> EqualAt(m, f, n)]
  <1> DEFINE P == {k \in Nat : \E f : f = [n \in 0..k |-> EqualAt(m, f, n)]}
  <1>1. 0 \in P
    <2> DEFINE f == [n \in 0..0 |-> EqualAt(m, <<>>, 0)]
    <2>1. EqualAt(m, <<>>, 0) = EqualAt(m, f, 0)
      BY DEF EqualAt
    <2>2. f = [n \in 0..0 |-> EqualAt(m, f, n)]
      BY <2>1
    <2> HIDE DEF f
    <2>3. QED
      BY <2>2
  <1>2. ASSUME NEW k \in Nat, k \in P PROVE k + 1 \in P
    <2>1. PICK f : f = [n \in 0..k |-> EqualAt(m, f, n)]
      BY <1>2
    <2> DEFINE g == [n \in 0..(k + 1) |-> IF n = k + 1 THEN EqualAt(m, f, n) ELSE f[n]]
    <2>2. ASSUME NEW n \in 0..(k + 1) PROVE g[n] = EqualAt(m, g, n)
      <3>1. n # 0 => g[n - 1] = f[n - 1]
        OBVIOUS
      <3>2. EqualAt(m, g, n) = EqualAt(m, f, n)
        <4>1. CASE n = 0
          BY <4>1 DEF EqualAt
        <4>2. CASE n # 0
          <5>1. PICK T : T = g[n - 1] /\ T = f[n - 1]
            BY <3>1, <4>2
          <5>2. QED
            BY <4>2, <5>1 DEF EqualAt
        <4>3. QED
          BY <4>1, <4>2
      <3>3. n # k + 1 => f[n] = EqualAt(m, f, n)
        BY <2>1
      <3>4. QED
        BY <3>2, <3>3
    <2>3. g = [n \in 0..(k + 1) |-> EqualAt(m, g, n)]
      BY <2>2
    <2> HIDE DEF g
    <2>4. k + 1 \in Nat /\ \E h : h = [n \in 0..(k + 1) |-> EqualAt(m, h, n)]
      BY <2>3
    <2>5. QED
      BY <2>4
  <1>3. N \in P
    BY <1>1, <1>2, Induction, ConstantsAssumption
  <1>4. QED
    BY <1>3

\* A relation of terms that holds only of terms that look the same, and then of
\* their subterms, holds only of equal terms.
LEMMA EqualsIf ==
    ASSUME NEW m, NEW related, related \subseteq Addr \X Addr,
           \A p \in related : \A equal :
               (\A q \in related : equal[q]) => SameTerm(m, Follow(m, p[1]), Follow(m, p[2]), equal),
           NEW a \in Addr, NEW b \in Addr, <<a, b>> \in related
    PROVE  Equals(m, a, b)
  <1> DEFINE equal == CHOOSE f : f = [n \in 0..N |-> EqualAt(m, f, n)]
             P == {n \in Nat : n <= N => \A q \in related : equal[n][q]}
  <1>1. equal = [n \in 0..N |-> EqualAt(m, equal, n)]
    BY EqualsExist
  <1>2. Equals(m, a, b) <=> equal[N][<<a, b>>]
    BY DEF Equals, EqualAt
  <1> HIDE DEF equal
  <1>3. N \in Nat
    BY ConstantsAssumption
  <1>4. ASSUME NEW n \in 0..N, NEW q \in related,
               n # 0 => SameTerm(m, Follow(m, q[1]), Follow(m, q[2]), equal[n - 1])
        PROVE  equal[n][q]
    <2>1. equal[n] = EqualAt(m, equal, n) /\ q \in Addr \X Addr
      BY <1>1
    <2>2. EqualAt(m, equal, n)[q] <=>
             (n = 0 \/ SameTerm(m, Follow(m, q[1]), Follow(m, q[2]), equal[n - 1]))
      BY <2>1 DEF EqualAt
    <2>3. QED
      BY <1>4, <2>1, <2>2
  <1>5. 0 \in P
    BY <1>3, <1>4
  <1>6. ASSUME NEW n \in Nat, n \in P PROVE n + 1 \in P
    <2> SUFFICES ASSUME n + 1 <= N, NEW q \in related PROVE equal[n + 1][q]
      OBVIOUS
    <2>1. n + 1 \in 0..N /\ (n + 1) - 1 = n /\ \A r \in related : equal[n][r]
      BY <1>3, <1>6
    <2>2. SameTerm(m, Follow(m, q[1]), Follow(m, q[2]), equal[n])
      BY <2>1
    <2>3. QED
      BY <1>4, <2>1, <2>2
  <1>7. Nat \subseteq P
    BY <1>5, <1>6, Induction
  <1>8. QED
    BY <1>2, <1>3, <1>7

\* Terms of a class whose chains end look the same, and so do their subterms.
LEMMA InvEqual ==
    ASSUME UnifyInv
    PROVE  UnifiedAreEqual
  <1> SUFFICES ASSUME result = "true", AcyclicFrom(mem, given.lhs), AcyclicFrom(mem, given.rhs)
               PROVE  Equals(mem, given.lhs, given.rhs)
    BY DEF UnifiedAreEqual
  <1>1. PICK class \in Partitions : Builds(class)
    BY DEF UnifyInv, Built
  <1>2. class \in [Addr -> Addr] /\ Coarser(class, class)
    BY <1>1 DEF Partitions, Coarser
  <1>3. Equates(class, todo)
    BY DEF UnifyInv, Equates, Range
  <1>4. /\ RespectsLinks(mem, class)
        /\ \A a, b \in Addr : class[a] = class[b] => ~Differ(given.mem, a, b)
        /\ \A a, b \in Addr : class[a] = class[b] /\ ~mem[a].set => b = a \/ Bound(mem, b)
        /\ class[given.lhs] = class[given.rhs]
        /\ \A a, b \in Addr : class[a] = class[b] =>
              \A i \in DOMAIN given.mem[a].subterms \cap DOMAIN given.mem[b].subterms :
                  class[given.mem[a].subterms[i]] = class[given.mem[b].subterms[i]]
    BY <1>1, <1>2, <1>3 DEF Builds
  <1>5. IsHeap(mem) /\ LinksInside(mem) /\ given.lhs \in Addr /\ given.rhs \in Addr
    BY KeptFacts, LinksAreInside
  <1> DEFINE Below == Reachable(mem, given.lhs) \cup Reachable(mem, given.rhs)
             related == {p \in Below \X Below : class[p[1]] = class[p[2]]}
  <1>6. /\ given.lhs \in Below /\ given.rhs \in Below /\ Below \subseteq Addr
        /\ \A a \in Below : Links(mem, a) \subseteq Below
    BY <1>5, ReachableClosed
  <1>7. \A a \in Below : ChainEnds(mem, a)
    BY <1>5, AcyclicEnds
  <1> HIDE DEF Below
  <1>8. ASSUME NEW a \in Below
        PROVE  /\ Follow(mem, a) \in Below /\ Follow(mem, a) \in Addr
               /\ ~Bound(mem, Follow(mem, a)) /\ class[Follow(mem, a)] = class[a]
    <2>1. \A b \in Below : Bound(mem, b) => mem[b].word \in Below
      BY <1>6 DEF Links
    <2>2. Follow(mem, a) \in Below
      BY <1>5, <1>6, <2>1, FollowStays
    <2>3. QED
      BY <1>4, <1>5, <1>6, <1>7, <2>2, FollowKeeps DEF ChainEnds
  <1>9. ASSUME NEW x \in Below, NEW y \in Below, class[x] = class[y],
               ~Bound(mem, x), ~Bound(mem, y),
               NEW equal, \A q \in related : equal[q]
        PROVE  SameTerm(mem, x, y, equal)
    <2>1. x \in Addr /\ y \in Addr
      BY <1>6
    <2>2. CASE ~mem[x].set \/ ~mem[y].set
      <3>1. x = y
        BY <1>4, <1>9, <2>1, <2>2
      <3>2. mem[x].type \notin Compound
        BY <2>1, <2>2, <3>1, KeptFacts
      <3>3. QED
        BY <3>1, <3>2 DEF SameTerm
    <2>3. CASE mem[x].set /\ mem[y].set
      <3>1. mem[x].type # "Variable" /\ mem[y].type # "Variable"
        BY <1>9, <2>3 DEF Bound
      <3>2. mem[x] = given.mem[x] /\ mem[y] = given.mem[y]
        BY <2>1, <3>1, KeptFacts
      <3>3. ~Differ(mem, x, y)
        BY <1>4, <1>9, <2>1, <3>2 DEF Differ
      <3>4. /\ mem[x].type = mem[y].type /\ mem[x].tag = mem[y].tag
            /\ Len(mem[x].subterms) = Len(mem[y].subterms)
            /\ mem[x].type \notin Compound => mem[x].word = mem[y].word
        BY <2>3, <3>1, <3>3 DEF Differ
      <3>5. ASSUME NEW i \in DOMAIN mem[x].subterms
            PROVE  equal[<<mem[x].subterms[i], mem[y].subterms[i]>>]
        <4>1. mem[x].subterms \in Seq(Addr) /\ mem[y].subterms \in Seq(Addr)
          BY <2>1, KeptFacts DEF Cell
        <4>2. i \in DOMAIN mem[y].subterms
          BY <3>4, <4>1
        <4>3. mem[x].subterms[i] \in Links(mem, x) /\ mem[y].subterms[i] \in Links(mem, y)
          BY <1>9, <4>2 DEF Links, Range
        <4>4. class[mem[x].subterms[i]] = class[mem[y].subterms[i]]
          BY <1>4, <1>9, <2>1, <3>2, <4>2
        <4>5. <<mem[x].subterms[i], mem[y].subterms[i]>> \in related
          BY <1>6, <4>3, <4>4
        <4>6. QED
          BY <1>9, <4>5
      <3>6. QED
        BY <2>3, <3>1, <3>4, <3>5 DEF SameTerm
    <2>4. QED
      BY <2>2, <2>3
  <1>10. ASSUME NEW p \in related, NEW equal, \A q \in related : equal[q]
         PROVE  SameTerm(mem, Follow(mem, p[1]), Follow(mem, p[2]), equal)
    <2>1. p[1] \in Below /\ p[2] \in Below /\ class[p[1]] = class[p[2]]
      OBVIOUS
    <2>2. QED
      BY <1>8, <1>9, <1>10, <2>1
  <1>11. related \subseteq Addr \X Addr /\ <<given.lhs, given.rhs>> \in related
    BY <1>4, <1>6
  <1> HIDE DEF related
  <1>12. QED
    BY <1>5, <1>10, <1>11, EqualsIf

\* If the unified terms are finite, _DI_equals says that they are equal.
THEOREM EqualInTheEnd == Spec => []UnifiedAreEqual
  BY Invariant, InvEqual, PTL

=============================================================================
