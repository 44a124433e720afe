------------------------ MODULE NameResolutionProofs ------------------------
(***************************************************************************)
(* Proofs about NameResolution, for all programs and any number of scopes  *)
(* and names. The argument: the index names the innermost scope            *)
(* that defines a name, and each definition the next one outside of it, so *)
(* to leave a scope is to make those the innermost ones again. A lookup    *)
(* through the index then is a search through the scopes.                  *)
(***************************************************************************)
EXTENDS NameResolution, SequenceTheorems, TLAPS

IInv == TypeOK /\ IndexExact /\ ChainsExact

USE NamesAssumption, AnswersAssumption, BoundsAssumption

----------------------------------------------------------------------------
(* Types *)

LEMMA EmptyScopeType == EmptyScope \in Scope /\ Defined(EmptyScope) = {}
  BY DEF EmptyScope, Scope, Table, NoNames, Defined

LEMMA Sizes ==
    ASSUME TypeOK
    PROVE  /\ Len(scopes) \in Nat \ {0} /\ DOMAIN scopes = 1..Len(scopes)
           /\ Len(visits) = Len(scopes) /\ DOMAIN visits = 1..Len(scopes)
           /\ \A i \in 1..Len(scopes) : scopes[i] \in Scope
           /\ \A i \in 1..Len(scopes) : visits[i] \in [kind : Kinds, at : Nat]
           /\ Last \in Scope /\ Visitor \in [kind : Kinds, at : Nat]
           /\ \A n \in Names : Where(n) \in Nat
  <1>1. /\ Len(scopes) \in Nat \ {0} /\ DOMAIN scopes = 1..Len(scopes)
        /\ Len(visits) = Len(scopes) /\ DOMAIN visits = 1..Len(scopes)
    BY DEF TypeOK
  <1>2. \A i \in 1..Len(scopes) : scopes[i] \in Scope
    BY <1>1, ElementOfSeq DEF TypeOK
  <1>3. \A i \in 1..Len(scopes) : visits[i] \in [kind : Kinds, at : Nat]
    BY <1>1, ElementOfSeq DEF TypeOK
  <1>4. \A n \in Names : Where(n) \in Nat
    BY DEF TypeOK, Where, NoScope
  <1>5. QED
    BY <1>1, <1>2, <1>3, <1>4 DEF Last, Visitor

\* What a definition leaves in the scopes and the index.
LEMMA RecordFacts ==
    ASSUME TypeOK, NEW n \in Names, Record(n), serial < MaxDefinitions
    PROVE  /\ scopes' \in Seq(Scope) /\ Len(scopes') = Len(scopes)
           /\ \A i \in 1..Len(scopes) : i # Len(scopes) => scopes'[i] = scopes[i]
           /\ scopes'[Len(scopes)] =
                 [type |-> Last.type, term |-> [Last.term EXCEPT ![n] = NewEntry(n)]]
           /\ NewEntry(n) \in Entry("term")
           /\ scopeOf' \in [Names -> Nat \cup {Absent}]
           /\ serial + 1 \in 0..MaxDefinitions
  <1>1. serial + 1 \in 0..MaxDefinitions
    BY DEF TypeOK
  <1>2. NewEntry(n) \in Entry("term")
    BY <1>1, Sizes DEF NewEntry, Shadowing, Entry
  <1>3. [type |-> Last.type, term |-> [Last.term EXCEPT ![n] = NewEntry(n)]] \in Scope
    BY <1>2, Sizes DEF Scope, Table
  <1>4. scopeOf' \in [Names -> Nat \cup {Absent}]
    BY Sizes DEF Record, TypeOK
  <1> DEFINE new == [type |-> Last.type, term |-> [Last.term EXCEPT ![n] = NewEntry(n)]]
  <1>5. scopes' = [scopes EXCEPT ![Len(scopes)] = new]
    BY DEF Record
  <1> HIDE DEF new
  <1>6. Len(scopes) \in 1..Len(scopes) /\ new \in Scope /\ scopes \in Seq(Scope)
    BY <1>3, Sizes DEF new, TypeOK
  <1>7. /\ scopes' \in Seq(Scope) /\ Len(scopes') = Len(scopes)
        /\ \A i \in 1..Len(scopes) : scopes'[i] = IF i = Len(scopes) THEN new ELSE scopes[i]
    BY <1>5, <1>6, ExceptSeq
  <1>8. QED
    BY <1>1, <1>2, <1>4, <1>6, <1>7 DEF new

LEMMA EnterFacts ==
    ASSUME TypeOK, NEW kind \in Kinds, EnterScope(kind)
    PROVE  /\ scopes' \in Seq(Scope) /\ Len(scopes') = Len(scopes) + 1
           /\ \A i \in 1..Len(scopes) : scopes'[i] = scopes[i]
           /\ scopes'[Len(scopes) + 1] = EmptyScope
           /\ visits' \in Seq([kind : Kinds, at : Nat]) /\ Len(visits') = Len(scopes) + 1
           /\ \A i \in 1..Len(scopes) : visits'[i].kind = visits[i].kind
           /\ visits'[Len(scopes) + 1].kind = kind
           /\ kind # "module"
  <1> DEFINE marked == [visits EXCEPT ![Len(visits)] = Entered]
  <1>1. Entered \in [kind : Kinds, at : Nat] /\ Entered.kind = Visitor.kind
    BY Sizes DEF Entered
  <1>2. /\ marked \in Seq([kind : Kinds, at : Nat]) /\ Len(marked) = Len(scopes)
        /\ \A i \in 1..Len(scopes) : marked[i] = IF i = Len(scopes) THEN Entered ELSE visits[i]
    <2>1. Len(visits) \in 1..Len(visits) /\ visits \in Seq([kind : Kinds, at : Nat])
      BY Sizes DEF TypeOK
    <2>2. QED
      BY <1>1, <2>1, Sizes, ExceptSeq
  <1>3. \A i \in 1..Len(scopes) : marked[i].kind = visits[i].kind
    BY <1>1, <1>2, Sizes DEF Visitor
  <1>4. Visit(kind) \in [kind : Kinds, at : Nat] /\ Visit(kind).kind = kind
    BY DEF Visit
  <1>5. visits' = Append(marked, Visit(kind)) /\ scopes' = Append(scopes, EmptyScope)
    BY DEF EnterScope
  <1> HIDE DEF marked
  <1>6. /\ visits' \in Seq([kind : Kinds, at : Nat]) /\ Len(visits') = Len(scopes) + 1
        /\ \A i \in 1..Len(scopes) : visits'[i] = marked[i]
        /\ visits'[Len(scopes) + 1] = Visit(kind)
    BY <1>2, <1>4, <1>5, AppendProperties
  <1>7. /\ scopes' \in Seq(Scope) /\ Len(scopes') = Len(scopes) + 1
        /\ \A i \in 1..Len(scopes) : scopes'[i] = scopes[i]
        /\ scopes'[Len(scopes) + 1] = EmptyScope
    BY <1>5, EmptyScopeType, AppendProperties DEF TypeOK
  <1>8. kind # "module"
    <2>1. MayEnter(kind)
      BY DEF EnterScope
    <2>2. CASE /\ Visitor.kind \in DOMAIN Parts
               /\ Visitor.at < Len(Parts[Visitor.kind])
               /\ kind = Parts[Visitor.kind][Visitor.at + 1]
      <3>1. Visitor.kind \in {"if", "for", "test"} /\ Visitor.at \in Nat
        BY <2>2, Sizes DEF Parts
      <3>2. \/ Visitor.kind = "if" /\ Visitor.at < 2 /\ kind = <<"then", "else">>[Visitor.at + 1]
            \/ Visitor.kind = "for" /\ Visitor.at < 1 /\ kind = <<"test">>[Visitor.at + 1]
            \/ Visitor.kind = "test" /\ Visitor.at < 2 /\ kind = <<"last", "body">>[Visitor.at + 1]
        BY <2>2, <3>1 DEF Parts
      <3>3. QED
        BY <3>1, <3>2
    <2>3. QED
      BY <2>1, <2>2 DEF MayEnter, Bodies
  <1>9. QED
    BY <1>3, <1>4, <1>6, <1>7, <1>8

LEMMA LeaveFacts ==
    ASSUME TypeOK, LeaveScope
    PROVE  /\ Len(scopes) - 1 \in Nat \ {0}
           /\ scopes' \in Seq(Scope) /\ Len(scopes') = Len(scopes) - 1
           /\ \A i \in 1..(Len(scopes) - 1) : scopes'[i] = scopes[i]
           /\ visits' \in Seq([kind : Kinds, at : Nat]) /\ Len(visits') = Len(scopes) - 1
           /\ \A i \in 1..(Len(scopes) - 1) : visits'[i] = visits[i]
           /\ scopeOf' \in [Names -> Nat \cup {Absent}]
  <1> DEFINE l == Len(scopes) - 1
  <1>1. l \in Nat \ {0}
    BY Sizes DEF LeaveScope, MayLeave, Visitor, TypeOK
  <1>2. scopes' = SubSeq(scopes, 1, l) /\ visits' = SubSeq(visits, 1, l)
    BY Sizes DEF LeaveScope
  <1>3. \A i \in 1..l : i \in 1..Len(scopes)
    BY <1>1, Sizes
  <1> HIDE DEF l
  <1>4. /\ scopes' \in Seq(Scope) /\ Len(scopes') = l
        /\ \A i \in 1..l : scopes'[i] = scopes[i]
    <2>1. \A i \in 1..l : scopes[i] \in Scope
      BY <1>3, Sizes
    <2>2. QED
      BY <1>1, <1>2, <2>1, SubSeqProperties DEF TypeOK
  <1>5. /\ visits' \in Seq([kind : Kinds, at : Nat]) /\ Len(visits') = l
        /\ \A i \in 1..l : visits'[i] = visits[i]
    <2>1. \A i \in 1..l : visits[i] \in [kind : Kinds, at : Nat]
      BY <1>3, Sizes
    <2>2. QED
      BY <1>1, <1>2, <2>1, SubSeqProperties DEF TypeOK
  <1>6. scopeOf' \in [Names -> Nat \cup {Absent}]
    BY Sizes DEF LeaveScope, Restored, Scope, Table, Entry, TypeOK
  <1>7. QED
    BY <1>1, <1>4, <1>5, <1>6 DEF l

LEMMA LookupTypes ==
    ASSUME TypeOK, NEW n \in Names, NEW sort \in {"type", "term"},
           NEW a \in Lookup(sort, n), scopeOf[n] # Absent => scopeOf[n] \in 0..Len(scopes)
    PROVE  a \in Definitions \cup {Undefined, Wild, Crash}
  <1>1. CASE scopeOf[n] = Absent \/ scopeOf[n] = NoScope
    BY <1>1 DEF Lookup, NoScope
  <1>2. CASE scopeOf[n] # Absent /\ scopeOf[n] # NoScope
    <2>1. scopeOf[n] \in 1..Len(scopes)
      BY <1>2, Sizes DEF NoScope
    <2>2. scopes[scopeOf[n]] \in Scope
      BY <2>1, Sizes
    <2> DEFINE entry == scopes[scopeOf[n]][sort][n]
    <2>3. entry \in Entry(sort) \cup {Absent}
      BY <2>2 DEF Scope, Table
    <2>4. a \in IF entry # Absent THEN {entry.def} ELSE {Crash}
      BY <1>2 DEF Lookup
    <2>5. entry # Absent => entry.def \in Definitions
      BY <2>3 DEF Entry, Definitions
    <2>6. QED
      BY <2>4, <2>5
  <1>3. QED
    BY <1>1, <1>2

LEMMA AnswerTypes ==
    ASSUME IInv, NEW n \in Names, NEW sort \in {"type", "term"}, NEW a \in Lookup(sort, n)
    PROVE  a \in Definitions \cup {Undefined, Wild, Crash}
  <1>1. Where(n) \in 0..Len(scopes)
    BY DEF IInv, IndexExact, Innermost
  <1>2. QED
    BY <1>1, LookupTypes DEF IInv, Where

LEMMA PredefinedType ==
    ASSUME NEW n \in Names
    PROVE  /\ Predefined(n) \in Entry("type")
           /\ Predefined(n).old = NoScope
           /\ Predefined(n) # Absent
  <1> DEFINE d == [sort |-> "type", name |-> n, serial |-> 0]
  <1>1. d \in Definitions /\ d \in [sort : {"type"}, name : Names, serial : 0..MaxDefinitions]
    BY DEF Definitions
  <1> HIDE DEF d
  <1>2. [def |-> d, old |-> 0] \in [def : Definitions, old : Nat]
    BY <1>1
  <1>3. Predefined(n) = [def |-> d, old |-> 0]
    BY DEF d, Predefined, NoScope
  <1>4. QED
    BY <1>1, <1>2, <1>3 DEF Entry, NoScope

LEMMA FirstScope ==
    ASSUME NEW types \in SUBSET Names, NEW scope, scope = PredefinedScope(types)
    PROVE  /\ scope \in Scope
           /\ Defined(scope) = types
           /\ scope.term = NoNames /\ scope["term"] = NoNames
           /\ \A n \in Names : scope["type"][n] # Absent => scope["type"][n].old = NoScope
  <1> DEFINE table == [n \in Names |-> IF n \in types THEN Predefined(n) ELSE Absent]
  <1>1. /\ table \in Table("type")
        /\ \A n \in Names : table[n] # Absent <=> n \in types
        /\ \A n \in Names : table[n] # Absent => table[n].old = NoScope
    BY PredefinedType DEF Table
  <1>2. NoNames \in Table("term") /\ \A n \in Names : NoNames[n] = Absent
    BY DEF NoNames, Table
  <1>3. scope = [type |-> table, term |-> NoNames]
    BY DEF PredefinedScope
  <1> HIDE DEF table
  <1>4. QED
    BY <1>1, <1>2, <1>3 DEF Scope, Defined

\* The first state.
LEMMA InitFacts ==
    ASSUME Init
    PROVE  \E types \in SUBSET Names :
              /\ scopes = <<PredefinedScope(types)>>
              /\ \A n \in types : scopeOf[n] = 1
              /\ \A n \in Names \ types : scopeOf[n] = Absent
              /\ scopeOf \in [Names -> Nat \cup {Absent}]
  <1>1. PICK records \in SUBSET Names :
           /\ scopes = <<PredefinedScope(Builtins \cup records)>>
           /\ scopeOf = [n \in Names |-> IF n \in Builtins \cup records THEN 1 ELSE Absent]
    BY DEF Init
  <1>2. Builtins \cup records \in SUBSET Names
    OBVIOUS
  <1>3. \A n \in Names : scopeOf[n] = IF n \in Builtins \cup records THEN 1 ELSE Absent
    BY <1>1, Zenon
  <1>4. 1 \in Nat
    OBVIOUS
  <1>5. scopeOf \in [Names -> Nat \cup {Absent}]
    BY <1>1, <1>4, Zenon
  <1>6. QED
    BY <1>1, <1>2, <1>3, <1>5, Zenon

LEMMA InitType == Init => TypeOK
  <1> SUFFICES ASSUME Init PROVE TypeOK
    OBVIOUS
  <1>1. PICK scope \in Scope : scopes = <<scope>> /\ scope.term = NoNames
    BY InitFacts, FirstScope
  <1>2. scopes \in Seq(Scope) /\ Len(scopes) = 1 /\ scopes[1].term = NoNames
    BY <1>1
  <1>3. visits \in Seq([kind : Kinds, at : Nat]) /\ Len(visits) = 1 /\ visits[1].kind = "module"
    BY DEF Init, Visit, Kinds
  <1>4. scopeOf \in [Names -> Nat \cup {Absent}]
    BY InitFacts, Zenon
  <1>5. answer = Undefined /\ serial = 0 /\ errors \in BOOLEAN
    BY DEF Init
  <1>6. DOMAIN visits = {1}
    BY <1>3
  <1>7. QED
    BY <1>2, <1>3, <1>4, <1>5, <1>6 DEF TypeOK

LEMMA TypePreserved == IInv /\ [Next]_vars => TypeOK'
  <1> SUFFICES ASSUME IInv, [Next]_vars PROVE TypeOK'
    OBVIOUS
  <1>0. TypeOK
    BY DEF IInv
  <1>1. ASSUME NEW kind \in Kinds, EnterScope(kind) PROVE TypeOK'
    <2>1. Len(scopes) \in Nat \ {0}
      BY <1>0, Sizes
    <2>2. \A i \in 1..(Len(scopes) + 1) :
             IF visits'[i].kind = "module" THEN i = 1 /\ scopes'[i].term = NoNames
                                           ELSE i > 1 /\ scopes'[i].type = NoNames
      <3> SUFFICES ASSUME NEW i \in 1..(Len(scopes) + 1)
                   PROVE  IF visits'[i].kind = "module" THEN i = 1 /\ scopes'[i].term = NoNames
                                                        ELSE i > 1 /\ scopes'[i].type = NoNames
        OBVIOUS
      <3>1. CASE i = Len(scopes) + 1
        BY <1>0, <1>1, <2>1, <3>1, EnterFacts DEF EmptyScope
      <3>2. CASE i \in 1..Len(scopes)
        <4>1. visits'[i].kind = visits[i].kind /\ scopes'[i] = scopes[i]
          BY <1>0, <1>1, <3>2, EnterFacts
        <4>2. i \in DOMAIN visits
          BY <1>0, <3>2, Sizes
        <4>3. QED
          BY <1>0, <4>1, <4>2 DEF TypeOK
      <3>3. QED
        BY <2>1, <3>1, <3>2
    <2>3. UNCHANGED <<scopeOf, answer, errors, serial>>
      BY <1>1 DEF EnterScope
    <2>4. DOMAIN visits' = 1..(Len(scopes) + 1)
      BY <1>0, <1>1, <2>1, EnterFacts
    <2>5. QED
      BY <1>0, <1>1, <2>1, <2>2, <2>3, <2>4, EnterFacts DEF TypeOK
  <1>2. ASSUME LeaveScope PROVE TypeOK'
    <2>1. Len(scopes) - 1 \in Nat \ {0}
      BY <1>0, <1>2, LeaveFacts
    <2>2. DOMAIN visits' = 1..(Len(scopes) - 1)
      BY <1>0, <1>2, <2>1, LeaveFacts
    <2>3. \A i \in 1..(Len(scopes) - 1) :
             /\ i \in DOMAIN visits /\ visits'[i] = visits[i] /\ scopes'[i] = scopes[i]
      <3>1. \A i \in 1..(Len(scopes) - 1) : visits'[i] = visits[i] /\ scopes'[i] = scopes[i]
        BY <1>0, <1>2, LeaveFacts
      <3>2. \A i \in 1..(Len(scopes) - 1) : i \in DOMAIN visits
        BY <1>0, <2>1, Sizes
      <3>3. QED
        BY <3>1, <3>2
    <2>4. \A i \in DOMAIN visits' :
             IF visits'[i].kind = "module" THEN i = 1 /\ scopes'[i].term = NoNames
                                           ELSE i > 1 /\ scopes'[i].type = NoNames
      BY <1>0, <2>2, <2>3 DEF TypeOK
    <2>5. UNCHANGED <<answer, errors, serial>>
      BY <1>2 DEF LeaveScope
    <2>6. QED
      BY <1>0, <1>2, <2>1, <2>4, <2>5, LeaveFacts DEF TypeOK
  <1>3. ASSUME NEW n \in Names, Refer(n) PROVE TypeOK'
    <2>1. answer' \in Definitions \cup {Undefined, Wild, Crash}
      BY <1>3, AnswerTypes DEF Refer
    <2>2. errors' \in BOOLEAN /\ UNCHANGED <<scopes, scopeOf, visits, serial>>
      BY <1>0, <1>3 DEF Refer, TypeOK
    <2>3. QED
      BY <1>0, <2>1, <2>2 DEF TypeOK
  <1>4. ASSUME NEW t \in Names, NameField(t) PROVE TypeOK'
    <2>1. answer' \in Definitions \cup {Undefined, Wild, Crash}
      BY <1>4, AnswerTypes DEF NameField
    <2>2. errors' \in BOOLEAN /\ UNCHANGED <<scopes, scopeOf, visits, serial>>
      BY <1>0, <1>4 DEF NameField, TypeOK
    <2>3. QED
      BY <1>0, <2>1, <2>2 DEF TypeOK
  <1>5. ASSUME NEW t \in Names, NEW n \in Names, Define(t, n) PROVE TypeOK'
    <2>1. answer' \in Definitions \cup {Undefined, Wild, Crash}
      BY <1>5, AnswerTypes DEF Define
    <2>2. errors' \in BOOLEAN /\ visits' = visits
      BY <1>0, <1>5 DEF Define, TypeOK
    <2>3. CASE UNCHANGED <<scopes, scopeOf, serial>>
      BY <1>0, <2>1, <2>2, <2>3 DEF TypeOK
    <2>4. CASE Record(n) /\ serial' = serial + 1
      <3>1. serial < MaxDefinitions /\ Visitor.kind # "module"
        BY <1>5 DEF Define, HasExpressions
      <3>2. /\ scopes' \in Seq(Scope) /\ Len(scopes') = Len(scopes)
            /\ \A i \in 1..Len(scopes) : i # Len(scopes) => scopes'[i] = scopes[i]
            /\ scopes'[Len(scopes)].type = Last.type
            /\ scopeOf' \in [Names -> Nat \cup {Absent}]
            /\ serial' \in 0..MaxDefinitions
        <4>1. /\ scopes' \in Seq(Scope) /\ Len(scopes') = Len(scopes)
              /\ \A i \in 1..Len(scopes) : i # Len(scopes) => scopes'[i] = scopes[i]
              /\ scopes'[Len(scopes)] =
                    [type |-> Last.type, term |-> [Last.term EXCEPT ![n] = NewEntry(n)]]
              /\ scopeOf' \in [Names -> Nat \cup {Absent}]
              /\ serial + 1 \in 0..MaxDefinitions
          BY <1>0, <2>4, <3>1, RecordFacts, Zenon
        <4>2. scopes'[Len(scopes)].type = Last.type
          BY <4>1
        <4>3. serial' \in 0..MaxDefinitions
          BY <2>4, <4>1
        <4>4. QED
          BY <4>1, <4>2, <4>3, Zenon
      <3>3. /\ Len(scopes) \in DOMAIN visits /\ DOMAIN visits = 1..Len(scopes)
            /\ Len(visits) = Len(scopes)
        BY <1>0, Sizes
      <3>4. \A i \in DOMAIN visits :
               IF visits[i].kind = "module" THEN i = 1 /\ scopes'[i].term = NoNames
                                            ELSE i > 1 /\ scopes'[i].type = NoNames
        BY <1>0, <3>1, <3>2, <3>3 DEF TypeOK, Visitor, Last
      <3>5. QED
        BY <1>0, <2>1, <2>2, <3>2, <3>4 DEF TypeOK
    <2>5. QED
      BY <1>5, <2>3, <2>4 DEF Define
  <1>6. CASE UNCHANGED vars
    BY <1>0, <1>6 DEF vars, TypeOK
  <1>7. QED
    BY <1>1, <1>2, <1>3, <1>4, <1>5, <1>6 DEF Next

----------------------------------------------------------------------------
(* The index *)

\* Innermost, of any list of scopes.
InnermostOf(list, n, m, k) ==
    /\ k \in 0..m
    /\ k # 0 => n \in Defined(list[k])
    /\ \A j \in (k + 1)..m : n \notin Defined(list[j])

LEMMA Innermosts ==
    /\ \A n, m, k : Innermost(n, m, k) <=> InnermostOf(scopes, n, m, k)
    /\ IndexExact' <=> \A n \in Names : InnermostOf(scopes', n, Len(scopes'), Where(n)')
    /\ ChainsExact' <=> \A i \in DOMAIN scopes', sort \in {"type", "term"} : \A n \in Names :
           scopes'[i][sort][n] # Absent => InnermostOf(scopes', n, i - 1, scopes'[i][sort][n].old)
  BY DEF Innermost, InnermostOf, NoScope, IndexExact, ChainsExact

\* What holds of the first m scopes keeps holding if n is defined in the same of them.
LEMMA InnermostKept ==
    ASSUME NEW n, NEW m \in Nat, NEW k, NEW list, NEW other, InnermostOf(list, n, m, k),
           \A i \in 1..m : n \in Defined(list[i]) <=> n \in Defined(other[i])
    PROVE  InnermostOf(other, n, m, k)
  BY DEF InnermostOf

\* One more scope: n is defined in it, or not.
LEMMA InnermostGrows ==
    ASSUME NEW n, NEW m \in Nat \ {0}, NEW k, NEW list
    PROVE  /\ n \in Defined(list[m]) => InnermostOf(list, n, m, m)
           /\ n \notin Defined(list[m]) =>
                  (InnermostOf(list, n, m, k) <=> InnermostOf(list, n, m - 1, k))
  BY DEF InnermostOf

\* The entry of a name in a scope, of whichever sort.
LEMMA OneSort ==
    ASSUME TypeOK, NEW i \in 1..Len(scopes), NEW n \in Names
    PROVE  scopes[i].type[n] = Absent \/ scopes[i].term[n] = Absent
  <1>1. i \in DOMAIN visits
    BY Sizes
  <1>2. scopes[i].term = NoNames \/ scopes[i].type = NoNames
    BY <1>1 DEF TypeOK
  <1>3. QED
    BY <1>2 DEF NoNames

LEMMA InitExact == Init => IndexExact /\ ChainsExact
  <1> SUFFICES ASSUME Init PROVE IndexExact /\ ChainsExact
    OBVIOUS
  <1>1. PICK types \in SUBSET Names :
           /\ scopes = <<PredefinedScope(types)>>
           /\ \A n \in types : scopeOf[n] = 1
           /\ \A n \in Names \ types : scopeOf[n] = Absent
    BY InitFacts, Zenon
  <1>2. Len(scopes) = 1 /\ DOMAIN scopes = {1} /\ scopes[1] = PredefinedScope(types)
    BY <1>1
  <1>3. \A n \in types : Where(n) = 1
    <2>1. 1 # Absent
      OBVIOUS
    <2>2. QED
      BY <1>1, <2>1, Zenon DEF Where
  <1>4. \A n \in Names \ types : Where(n) = 0
    BY <1>1 DEF Where, NoScope
  <1>5. IndexExact
    <2>1. Defined(scopes[1]) = types
      BY <1>2, FirstScope
    <2>2. ASSUME NEW n \in Names PROVE Innermost(n, 1, Where(n))
      BY <1>3, <1>4, <2>1 DEF Innermost, NoScope
    <2>3. QED
      BY <1>2, <2>2 DEF IndexExact
  <1>6. /\ scopes[1]["term"] = NoNames
        /\ \A n \in Names : scopes[1]["type"][n] # Absent => scopes[1]["type"][n].old = 0
    BY <1>2, FirstScope DEF NoScope
  <1>7. ChainsExact
    BY <1>2, <1>6 DEF ChainsExact, Innermost, NoScope, NoNames
  <1>8. QED
    BY <1>5, <1>7

LEMMA EnterExact ==
    ASSUME IInv, NEW kind \in Kinds, EnterScope(kind)
    PROVE  IndexExact' /\ ChainsExact'
  <1> DEFINE l == Len(scopes)
  <1>1. /\ TypeOK /\ l \in Nat \ {0} /\ DOMAIN scopes = 1..l
        /\ \A n \in Names : InnermostOf(scopes, n, l, Where(n))
        /\ \A i \in 1..l, sort \in {"type", "term"} : \A n \in Names :
              scopes[i][sort][n] # Absent => InnermostOf(scopes, n, i - 1, scopes[i][sort][n].old)
    BY Sizes, Innermosts DEF IInv, IndexExact, ChainsExact
  <1>2. /\ Len(scopes') = l + 1 /\ DOMAIN scopes' = 1..(l + 1)
        /\ \A i \in 1..l : scopes'[i] = scopes[i]
        /\ scopes'[l + 1] = EmptyScope
    BY <1>1, EnterFacts
  <1>3. \A n \in Names : Where(n)' = Where(n)
    BY DEF EnterScope, Where
  <1> HIDE DEF l
  <1>4. \A n \in Names : n \notin Defined(scopes'[l + 1])
    BY <1>2, EmptyScopeType
  <1>5. ASSUME NEW n \in Names PROVE InnermostOf(scopes', n, l + 1, Where(n)')
    <2>1. InnermostOf(scopes', n, l, Where(n))
      BY <1>1, <1>2, InnermostKept
    <2>2. l + 1 \in Nat \ {0} /\ (l + 1) - 1 = l
      BY <1>1
    <2>3. QED
      BY <1>3, <1>4, <2>1, <2>2, InnermostGrows
  <1>6. ASSUME NEW i \in 1..(l + 1), NEW sort \in {"type", "term"}, NEW n \in Names,
               scopes'[i][sort][n] # Absent
        PROVE  InnermostOf(scopes', n, i - 1, scopes'[i][sort][n].old)
    <2>1. i # l + 1
      BY <1>2, <1>6 DEF EmptyScope, NoNames
    <2>2. i \in 1..l /\ i - 1 \in Nat /\ scopes'[i] = scopes[i]
      BY <1>1, <1>2, <2>1
    <2>3. InnermostOf(scopes, n, i - 1, scopes'[i][sort][n].old)
      BY <1>1, <1>6, <2>2
    <2>4. \A j \in 1..(i - 1) : scopes'[j] = scopes[j]
      BY <1>1, <1>2, <2>2
    <2>5. QED
      BY <2>2, <2>3, <2>4, InnermostKept
  <1>7. QED
    BY <1>2, <1>5, <1>6, Innermosts

LEMMA LeaveExact ==
    ASSUME IInv, LeaveScope
    PROVE  IndexExact' /\ ChainsExact'
  <1> DEFINE l == Len(scopes) - 1
  <1>1. /\ TypeOK /\ l \in Nat \ {0} /\ l + 1 = Len(scopes)
        /\ \A n \in Names : InnermostOf(scopes, n, l + 1, Where(n))
        /\ \A i \in 1..(l + 1), sort \in {"type", "term"} : \A n \in Names :
              scopes[i][sort][n] # Absent => InnermostOf(scopes, n, i - 1, scopes[i][sort][n].old)
    <2>1. TypeOK /\ l \in Nat \ {0} /\ l + 1 = Len(scopes) /\ DOMAIN scopes = 1..(l + 1)
      BY Sizes, LeaveFacts DEF IInv
    <2>2. QED
      BY <2>1, Innermosts DEF IInv, IndexExact, ChainsExact
  <1>2. /\ Len(scopes') = l /\ DOMAIN scopes' = 1..l
        /\ \A i \in 1..l : scopes'[i] = scopes[i]
    <2>1. /\ scopes' \in Seq(Scope) /\ Len(scopes') = l
          /\ \A i \in 1..l : scopes'[i] = scopes[i]
      BY <1>1, LeaveFacts
    <2>2. DOMAIN scopes' = 1..l
      BY <2>1
    <2>3. QED
      BY <2>1, <2>2
  <1>3. Last = scopes[l + 1] /\ scopeOf' = Restored
    BY <1>1 DEF Last, LeaveScope
  <1> HIDE DEF l
  <1>4. ASSUME NEW n \in Names PROVE InnermostOf(scopes', n, l, Where(n)')
    <2>1. InnermostOf(scopes, n, l, Where(n)')
      <3>1. CASE Last.term[n] # Absent
        <4>1. InnermostOf(scopes, n, l, Last.term[n].old)
          BY <1>1, <1>3, <3>1
        <4>2. Where(n)' = Last.term[n].old
          BY <1>3, <3>1, <4>1 DEF Where, Restored, InnermostOf
        <4>3. QED
          BY <4>1, <4>2
      <3>2. CASE Last.term[n] = Absent /\ Last.type[n] # Absent
        <4>1. InnermostOf(scopes, n, l, Last.type[n].old)
          BY <1>1, <1>3, <3>2
        <4>2. Where(n)' = Last.type[n].old
          BY <1>3, <3>2, <4>1 DEF Where, Restored, InnermostOf
        <4>3. QED
          BY <4>1, <4>2
      <3>3. CASE Last.term[n] = Absent /\ Last.type[n] = Absent
        <4>1. n \notin Defined(scopes[l + 1])
          BY <1>3, <3>3 DEF Defined
        <4>2. Where(n)' = Where(n)
          BY <1>3, <3>3 DEF Where, Restored
        <4>3. l + 1 \in Nat \ {0} /\ (l + 1) - 1 = l
          BY <1>1
        <4>4. QED
          BY <1>1, <4>1, <4>2, <4>3, InnermostGrows
      <3>4. QED
        BY <3>1, <3>2, <3>3
    <2>2. QED
      BY <1>1, <1>2, <2>1, InnermostKept
  <1>5. ASSUME NEW i \in 1..l, NEW sort \in {"type", "term"}, NEW n \in Names,
               scopes'[i][sort][n] # Absent
        PROVE  InnermostOf(scopes', n, i - 1, scopes'[i][sort][n].old)
    <2>1. i \in 1..(l + 1) /\ i - 1 \in Nat /\ scopes'[i] = scopes[i]
      BY <1>1, <1>2
    <2>2. InnermostOf(scopes, n, i - 1, scopes'[i][sort][n].old)
      BY <1>1, <1>5, <2>1
    <2>3. \A j \in 1..(i - 1) : scopes'[j] = scopes[j]
      BY <1>1, <1>2, <2>1
    <2>4. QED
      BY <2>1, <2>2, <2>3, InnermostKept
  <1>6. QED
    BY <1>2, <1>4, <1>5, Innermosts
LEMMA RecordExact ==
    ASSUME IInv, NEW n \in Names, Record(n), serial < MaxDefinitions,
           Visitor.kind # "module", ~Redefinition(n)
    PROVE  IndexExact' /\ ChainsExact'
  <1> DEFINE l == Len(scopes)
  <1>1. /\ TypeOK /\ l \in Nat \ {0} /\ DOMAIN scopes = 1..l /\ Last = scopes[l]
        /\ \A m \in Names : InnermostOf(scopes, m, l, Where(m))
        /\ \A i \in 1..l, sort \in {"type", "term"} : \A m \in Names :
              scopes[i][sort][m] # Absent => InnermostOf(scopes, m, i - 1, scopes[i][sort][m].old)
    BY Sizes, Innermosts DEF IInv, IndexExact, ChainsExact, Last
  <1>2. /\ Len(scopes') = l /\ DOMAIN scopes' = 1..l
        /\ \A i \in 1..l : i # l => scopes'[i] = scopes[i]
        /\ scopes'[l] = [type |-> Last.type, term |-> [Last.term EXCEPT ![n] = NewEntry(n)]]
        /\ NewEntry(n) \in Entry("term")
    <2>1. /\ scopes' \in Seq(Scope) /\ Len(scopes') = l
          /\ \A i \in 1..l : i # l => scopes'[i] = scopes[i]
          /\ scopes'[l] = [type |-> Last.type, term |-> [Last.term EXCEPT ![n] = NewEntry(n)]]
          /\ NewEntry(n) \in Entry("term")
      BY <1>1, RecordFacts, Zenon
    <2> HIDE DEF l
    <2>2. DOMAIN scopes' = 1..l
      <3>1. scopes' \in Seq(Scope) /\ Len(scopes') = l
        BY <2>1, Zenon
      <3>2. QED
        BY <3>1
    <2>3. QED
      BY <2>1, <2>2
  <1>3. /\ \A m \in Names : m # n => Where(m)' = Where(m)
        /\ Where(n)' = l
    <2>1. l # Absent /\ scopeOf \in [Names -> Nat \cup {Absent}]
      BY <1>1 DEF TypeOK
    <2>2. /\ \A m \in Names : m # n => scopeOf'[m] = scopeOf[m]
          /\ scopeOf'[n] = l
      BY <2>1 DEF Record
    <2>3. QED
      BY <2>1, <2>2 DEF Where
  <1> HIDE DEF l
  <1>4. /\ Last \in Scope
        /\ Last.type[n] = Absent /\ Last.term[n] = Absent
        /\ n \notin Defined(scopes[l])
    <2>1. Last \in Scope
      BY <1>1, Sizes
    <2>2. l \in DOMAIN visits /\ Visitor = visits[l]
      BY <1>1, Sizes DEF Visitor, l
    <2>3. Last.type = NoNames
      BY <1>1, <2>2 DEF TypeOK
    <2>4. Last.type[n] = Absent
      BY <2>3 DEF NoNames
    <2>5. Last.term[n] = Absent
      BY DEF Redefinition
    <2>6. QED
      BY <1>1, <2>1, <2>4, <2>5 DEF Defined
  <1>5. /\ scopes'[l].term[n] = NewEntry(n) /\ NewEntry(n) # Absent
        /\ NewEntry(n).old = Where(n)
        /\ scopes'[l].type = Last.type
        /\ \A m \in Names : m # n => scopes'[l].term[m] = Last.term[m]
    <2>1. NewEntry(n) \in [def : Definitions, old : Nat]
      BY <1>2 DEF Entry, Definitions
    <2>2. NewEntry(n) # Absent
      BY <2>1
    <2>3. NewEntry(n).old = Where(n)
      BY DEF NewEntry, Shadowing
    <2>4. QED
      BY <1>2, <1>4, <2>2, <2>3 DEF Scope, Table
  <1>6. /\ n \in Defined(scopes'[l])
        /\ \A m \in Names : m # n => (m \in Defined(scopes'[l]) <=> m \in Defined(scopes[l]))
    BY <1>1, <1>5 DEF Defined
  <1>7. ASSUME NEW m \in Names PROVE InnermostOf(scopes', m, l, Where(m)')
    <2>1. CASE m = n
      BY <1>1, <1>3, <1>6, <2>1, InnermostGrows
    <2>2. CASE m # n
      <3>1. \A i \in 1..l : m \in Defined(scopes[i]) <=> m \in Defined(scopes'[i])
        BY <1>2, <1>6, <2>2
      <3>2. InnermostOf(scopes, m, l, Where(m)')
        BY <1>1, <1>3, <2>2
      <3>3. QED
        BY <1>1, <3>1, <3>2, InnermostKept
    <2>3. QED
      BY <2>1, <2>2
  <1>8. ASSUME NEW i \in 1..l, NEW sort \in {"type", "term"}, NEW m \in Names,
               scopes'[i][sort][m] # Absent
        PROVE  InnermostOf(scopes', m, i - 1, scopes'[i][sort][m].old)
    <2> DEFINE k == scopes'[i][sort][m].old
    <2>1. i - 1 \in Nat /\ \A j \in 1..(i - 1) : scopes'[j] = scopes[j]
      BY <1>1, <1>2
    <2>2. InnermostOf(scopes, m, i - 1, k)
      <3>1. CASE i = l /\ sort = "term" /\ m = n
        <4>1. k = Where(n)
          BY <1>5, <3>1
        <4>2. InnermostOf(scopes, n, l - 1, Where(n))
          BY <1>1, <1>4, InnermostGrows
        <4>3. QED
          BY <3>1, <4>1, <4>2
      <3>2. CASE ~(i = l /\ sort = "term" /\ m = n)
        <4>1. scopes'[i][sort][m] = scopes[i][sort][m]
          BY <1>1, <1>2, <1>5, <3>2
        <4>2. QED
          BY <1>1, <1>8, <4>1
      <3>3. QED
        BY <3>1, <3>2
    <2> HIDE DEF k
    <2>3. InnermostOf(scopes', m, i - 1, k)
      BY <2>1, <2>2, InnermostKept
    <2>4. QED
      BY <2>3 DEF k
  <1>9. QED
    BY <1>2, <1>7, <1>8, Innermosts

LEMMA ExactPreserved == IInv /\ [Next]_vars => IndexExact' /\ ChainsExact'
  <1> SUFFICES ASSUME IInv, [Next]_vars PROVE IndexExact' /\ ChainsExact'
    OBVIOUS
  <1>1. CASE UNCHANGED <<scopes, scopeOf>>
    BY <1>1 DEF IInv, IndexExact, ChainsExact, Innermost, Where
  <1>2. ASSUME NEW kind \in Kinds, EnterScope(kind) PROVE IndexExact' /\ ChainsExact'
    BY <1>2, EnterExact
  <1>3. CASE LeaveScope
    BY <1>3, LeaveExact
  <1>4. ASSUME NEW t \in Names, NEW n \in Names, Define(t, n) PROVE IndexExact' /\ ChainsExact'
    <2>1. CASE answer' # Crash /\ ~Redefinition(n)
      BY <1>4, <2>1, RecordExact DEF Define, HasExpressions
    <2>2. CASE ~(answer' # Crash /\ ~Redefinition(n))
      BY <1>1, <1>4, <2>2 DEF Define
    <2>3. QED
      BY <2>1, <2>2
  <1>5. ASSUME \/ \E n \in Names : Refer(n) \/ NameField(n)
               \/ UNCHANGED vars
        PROVE  UNCHANGED <<scopes, scopeOf>>
    BY <1>5 DEF Refer, NameField, vars
  <1>6. QED
    BY <1>1, <1>2, <1>3, <1>4, <1>5 DEF Next

LEMMA Inductive == Spec => []IInv
  <1>1. Init => IInv
    BY InitType, InitExact DEF IInv
  <1>2. IInv /\ [Next]_vars => IInv'
    BY TypePreserved, ExactPreserved DEF IInv
  <1>3. QED
    BY <1>1, <1>2, PTL DEF Spec

\* The members of the pass have their types, there is a scope for every visitor
\* that opened one, and types are defined in the outermost scope only.
THEOREM MembersTyped == Spec => []TypeOK
  <1>1. IInv => TypeOK
    BY DEF IInv
  <1>2. QED
    BY <1>1, Inductive, PTL

\* scopeOf always names the innermost open scope that defines a name, whatever
\* was defined, shadowed, entered and left before.
THEOREM IndexStaysExact == Spec => []IndexExact
  <1>1. IInv => IndexExact
    BY DEF IInv
  <1>2. QED
    BY <1>1, Inductive, PTL

\* What the destructor of a scope puts back is the innermost definition outside.
THEOREM ChainsStayExact == Spec => []ChainsExact
  <1>1. IInv => ChainsExact
    BY DEF IInv
  <1>2. QED
    BY <1>1, Inductive, PTL

----------------------------------------------------------------------------
(* The pass implements lexical scopes: with the index exact, a lookup that *)
(* reads one table finds what a search through all open scopes finds.      *)

Env == [i \in DOMAIN scopes |-> Meaning(scopes[i])]

\* The meaning of a name in one scope.
LEMMA MeaningFacts ==
    ASSUME NEW scope \in Scope, NEW n \in Names
    PROVE  /\ Meaning(scope)[n] \in Definitions \cup {Absent}
           /\ Meaning(scope)[n] # Absent <=> n \in Defined(scope)
           /\ scope.term[n] # Absent =>
                 Meaning(scope)[n] = scope.term[n].def /\ scope.term[n].def.sort = "term"
           /\ scope.term[n] = Absent /\ scope.type[n] # Absent =>
                 Meaning(scope)[n] = scope.type[n].def /\ scope.type[n].def.sort = "type"
  <1>1. /\ scope.term[n] \in Entry("term") \cup {Absent}
        /\ scope.type[n] \in Entry("type") \cup {Absent}
    BY DEF Scope, Table
  <1>2. \A sort \in {"type", "term"} : \A e \in Entry(sort) : e.def \in Definitions /\ e.def.sort = sort
    BY DEF Entry, Definitions
  <1>3. Absent \notin Definitions
    OBVIOUS
  <1>4. Meaning(scope)[n] = IF scope.term[n] # Absent THEN scope.term[n].def
                            ELSE IF scope.type[n] # Absent THEN scope.type[n].def
                            ELSE Absent
    BY DEF Meaning
  <1>5. n \in Defined(scope) <=> (scope.type[n] # Absent \/ scope.term[n] # Absent)
    BY DEF Defined
  <1>6. QED
    BY <1>1, <1>2, <1>3, <1>4, <1>5

LEMMA EnvFacts ==
    ASSUME TypeOK
    PROVE  /\ DOMAIN Env = 1..Len(scopes) /\ Env \in Seq([Names -> Definitions \cup {Absent}])
           /\ Len(Env) = Len(scopes)
           /\ \A i \in 1..Len(scopes) : Env[i] = Meaning(scopes[i])
           /\ \A i \in 1..Len(scopes), n \in Names :
                 Env[i][n] # Absent <=> n \in Defined(scopes[i])
  <1> DEFINE l == Len(scopes)
  <1>1. l \in Nat /\ DOMAIN scopes = 1..l /\ \A i \in 1..l : scopes[i] \in Scope
    BY Sizes
  <1>2. Env = [i \in 1..l |-> Meaning(scopes[i])]
    BY <1>1 DEF Env
  <1> HIDE DEF l
  <1>3. \A i \in 1..l : Meaning(scopes[i]) \in [Names -> Definitions \cup {Absent}]
    <2> SUFFICES ASSUME NEW i \in 1..l
                 PROVE  Meaning(scopes[i]) \in [Names -> Definitions \cup {Absent}]
      OBVIOUS
    <2>1. \A n \in Names : Meaning(scopes[i])[n] \in Definitions \cup {Absent}
      BY <1>1, MeaningFacts
    <2>2. Meaning(scopes[i]) = [n \in Names |-> Meaning(scopes[i])[n]]
      BY DEF Meaning
    <2>3. QED
      BY <2>1, <2>2
  <1>4. \A i \in 1..l, n \in Names : Env[i][n] # Absent <=> n \in Defined(scopes[i])
    BY <1>1, <1>2, MeaningFacts
  <1>5. Env \in Seq([Names -> Definitions \cup {Absent}]) /\ Len(Env) = l
    BY <1>1, <1>2, <1>3
  <1>6. QED
    BY <1>1, <1>2, <1>4, <1>5 DEF l

\* A search through the scopes finds what the index leads to.
LEMMA SearchFacts ==
    ASSUME IInv, NEW n \in Names
    PROVE  Lexical!MeaningOf(n) = IF Where(n) = 0 THEN {} ELSE {Meaning(scopes[Where(n)])[n]}
  <1> DEFINE l == Len(scopes)
             Top == {k \in 1..l : /\ Env[k][n] # Absent
                                  /\ \A j \in 1..l : j > k => Env[j][n] = Absent}
  <1>1. DOMAIN Env = 1..l /\ l \in Nat /\ \A i \in 1..l : Env[i] = Meaning(scopes[i])
    BY EnvFacts, Sizes DEF IInv
  <1>2. \A i \in 1..l : Env[i][n] # Absent <=> n \in Defined(scopes[i])
    BY EnvFacts DEF IInv
  <1>3. InnermostOf(scopes, n, l, Where(n))
    BY Innermosts DEF IInv, IndexExact
  <1>4. Lexical!MeaningOf(n) = {Env[i][n] : i \in Top}
    BY <1>1 DEF Lexical!MeaningOf, Env
  <1>5. Top = IF Where(n) = 0 THEN {} ELSE {Where(n)}
    <2>1. CASE Where(n) = 0
      BY <1>1, <1>2, <1>3, <2>1 DEF InnermostOf
    <2>2. CASE Where(n) # 0
      <3>1. Where(n) \in 1..l /\ n \in Defined(scopes[Where(n)])
        BY <1>1, <1>3, <2>2 DEF InnermostOf
      <3>2. \A j \in 1..l : j > Where(n) => n \notin Defined(scopes[j])
        BY <1>1, <1>3, <3>1 DEF InnermostOf
      <3>3. Where(n) \in Top
        BY <1>2, <3>1, <3>2
      <3>4. ASSUME NEW k \in Top PROVE k = Where(n)
        <4>1. k \in 1..l /\ n \in Defined(scopes[k])
          BY <1>2
        <4>2. ~(k > Where(n))
          BY <3>2, <4>1
        <4>3. ~(Where(n) > k)
          BY <1>2, <3>1
        <4>4. QED
          BY <1>1, <3>1, <4>1, <4>2, <4>3
      <3>5. QED
        BY <2>2, <3>3, <3>4
    <2>3. QED
      BY <2>1, <2>2
  <1>6. QED
    <2>1. CASE Where(n) = 0
      BY <1>4, <1>5, <2>1
    <2>2. CASE Where(n) # 0
      <3>1. Where(n) \in 1..l
        BY <1>1, <1>3, <2>2 DEF InnermostOf
      <3>2. QED
        BY <1>1, <1>4, <1>5, <2>2, <3>1
    <2>3. QED
      BY <2>1, <2>2

\* A lookup finds what is in scope, or fails because it is not of the right sort.
LEMMA LookupResolves ==
    ASSUME IInv, NEW n \in Names, NEW sort \in {"type", "term"}, answer' \in Lookup(sort, n)
    PROVE  Lexical!Resolve(sort, n)
  <1> DEFINE found == {d \in Lexical!MeaningOf(n) : d.sort = sort}
             entry == scopes[Where(n)][sort][n]
             d == Meaning(scopes[Where(n)])[n]
  <1>1. SUFFICES \/ found # {} /\ answer' \in found /\ answer' # Crash
                 \/ found = {} /\ answer' \in {Undefined, Wild, Crash}
    BY DEF Lexical!Resolve, Stopped
  <1>2. CASE Where(n) = 0
    <2>1. found = {}
      BY <1>2, SearchFacts
    <2>2. answer' \in {Undefined, Wild, Crash}
      BY <1>2 DEF Where, Lookup, NoScope
    <2>3. QED
      BY <2>1, <2>2
  <1>3. CASE Where(n) # 0
    <2>1. /\ Where(n) \in 1..Len(scopes) /\ scopes[Where(n)] \in Scope
          /\ n \in Defined(scopes[Where(n)])
      <3>1. InnermostOf(scopes, n, Len(scopes), Where(n)) /\ Len(scopes) \in Nat
        BY Innermosts, Sizes DEF IInv, IndexExact
      <3>2. Where(n) \in 1..Len(scopes) /\ n \in Defined(scopes[Where(n)])
        BY <1>3, <3>1 DEF InnermostOf
      <3>3. QED
        BY <3>2, Sizes DEF IInv
    <2>2. answer' \in IF entry # Absent THEN {entry.def} ELSE {Crash}
      BY <1>3 DEF Where, Lookup, NoScope
    <2>3. found = {e \in {d} : e.sort = sort}
      BY <1>3, SearchFacts
    <2>4. CASE entry # Absent
      <3>1. d = entry.def /\ d.sort = sort /\ d \in Definitions
        <4>1. CASE sort = "term"
          BY <2>1, <2>4, <4>1, MeaningFacts
        <4>2. CASE sort = "type"
          <5>1. scopes[Where(n)].term[n] = Absent
            BY <2>1, <2>4, <4>2, OneSort DEF IInv
          <5>2. QED
            BY <2>1, <2>4, <4>2, <5>1, MeaningFacts
        <4>3. QED
          BY <4>1, <4>2
      <3>2. d # Crash
        BY <3>1
      <3>3. QED
        BY <2>2, <2>3, <2>4, <3>1, <3>2
    <2>5. CASE entry = Absent
      <3>1. d.sort # sort
        <4>1. CASE sort = "term"
          <5>1. scopes[Where(n)].term[n] = Absent /\ scopes[Where(n)].type[n] # Absent
            BY <2>1, <2>5, <4>1 DEF Defined
          <5>2. QED
            BY <2>1, <4>1, <5>1, MeaningFacts
        <4>2. CASE sort = "type"
          <5>1. scopes[Where(n)].term[n] # Absent
            BY <2>1, <2>5, <4>2 DEF Defined
          <5>2. QED
            BY <2>1, <4>2, <5>1, MeaningFacts
        <4>3. QED
          BY <4>1, <4>2
      <3>2. QED
        BY <2>2, <2>3, <2>5, <3>1
    <2>6. QED
      BY <2>4, <2>5
  <1>4. QED
    BY <1>2, <1>3

----------------------------------------------------------------------------
(* Steps *)

LEMMA InitMaps == Init => Lexical!Init
  <1> SUFFICES ASSUME Init PROVE Lexical!Init
    OBVIOUS
  <1>1. PICK types \in SUBSET Names : scopes = <<PredefinedScope(types)>>
    BY InitFacts, Zenon
  <1>2. DOMAIN scopes = {1} /\ scopes[1] = PredefinedScope(types)
    BY <1>1
  <1> DEFINE f == Meaning(scopes[1])
  <1>3. scopes[1] \in Scope /\ scopes[1].term = NoNames
    BY <1>2, FirstScope
  <1>4. \A n \in Names :
           /\ scopes[1].term[n] = Absent
           /\ scopes[1].type[n] \in {Predefined(n), Absent}
    <2>1. scopes[1].type = [n \in Names |-> IF n \in types THEN Predefined(n) ELSE Absent]
      BY <1>2 DEF PredefinedScope
    <2>2. \A n \in Names : NoNames[n] = Absent
      BY DEF NoNames
    <2>3. QED
      BY <1>3, <2>1, <2>2, Zenon
  <1>5. ASSUME NEW n \in Names
        PROVE  /\ f[n] \in {d \in Definitions : d.sort = "type"} \cup {Absent}
               /\ f[n] # Absent => f[n].name = n
    <2>1. CASE scopes[1].type[n] = Absent
      <3>1. f[n] = Absent
        BY <1>4, <2>1 DEF Meaning
      <3>2. QED
        BY <3>1
    <2>2. CASE scopes[1].type[n] # Absent
      <3>1. /\ f[n] = scopes[1].type[n].def /\ scopes[1].type[n] = Predefined(n)
            /\ f[n] # Absent /\ f[n] \in Definitions \cup {Absent} /\ f[n].sort = "type"
        <4>1. n \in Defined(scopes[1])
          BY <2>2 DEF Defined
        <4>2. QED
          BY <1>3, <1>4, <2>2, <4>1, MeaningFacts
      <3>2. f[n].name = n
        BY <3>1 DEF Predefined
      <3>3. QED
        BY <3>1, <3>2
    <2>3. QED
      BY <2>1, <2>2
  <1>6. f \in [Names -> {d \in Definitions : d.sort = "type"} \cup {Absent}]
    <2>1. f = [n \in Names |-> f[n]]
      BY DEF Meaning
    <2> HIDE DEF f
    <2>2. QED
      BY <1>5, <2>1
  <1>7. [i \in DOMAIN scopes |-> Meaning(scopes[i])] = <<f>>
    BY <1>2
  <1>8. answer = Undefined /\ Stopped = FALSE
    BY DEF Init, Stopped
  <1> HIDE DEF f
  <1>9. QED
    BY <1>5, <1>6, <1>7, <1>8 DEF Lexical!Init
LEMMA EnterMaps == ASSUME IInv, NEW kind \in Kinds, EnterScope(kind) PROVE Lexical!Enter
  <1> DEFINE l == Len(scopes)
             empty == [n \in Names |-> Absent]
  <1>1. /\ TypeOK /\ l \in Nat \ {0} /\ Len(scopes') = l + 1 /\ scopes' \in Seq(Scope)
        /\ \A i \in 1..l : scopes'[i] = scopes[i]
        /\ scopes'[l + 1] = EmptyScope
    BY Sizes, EnterFacts DEF IInv
  <1>2. Meaning(EmptyScope) = empty
    BY DEF Meaning, EmptyScope, NoNames
  <1>3. DOMAIN Env = 1..l /\ Len(Env) = l /\ Env \in Seq([Names -> Definitions \cup {Absent}])
        /\ \A i \in 1..l : Env[i] = Meaning(scopes[i])
    BY <1>1, EnvFacts
  <1> HIDE DEF l, empty
  <1>4. DOMAIN scopes' = 1..(l + 1)
    BY <1>1
  <1>5. [i \in DOMAIN scopes' |-> Meaning(scopes'[i])]
           = [i \in 1..(l + 1) |-> IF i \in 1..l THEN Env[i] ELSE empty]
    <2>1. ASSUME NEW i \in 1..(l + 1)
          PROVE  Meaning(scopes'[i]) = IF i \in 1..l THEN Env[i] ELSE empty
      <3>1. CASE i \in 1..l
        BY <1>1, <1>3, <3>1
      <3>2. CASE i = l + 1
        BY <1>1, <1>2, <3>2
      <3>3. QED
        BY <1>1, <3>1, <3>2
    <2>2. QED
      BY <1>4, <2>1
  <1>6. Append(Env, empty) = [i \in 1..(l + 1) |-> IF i \in 1..l THEN Env[i] ELSE empty]
    <2>1. empty \in [Names -> Definitions \cup {Absent}]
      BY DEF empty
    <2>2. /\ Append(Env, empty) \in Seq([Names -> Definitions \cup {Absent}])
          /\ Len(Append(Env, empty)) = l + 1
          /\ \A i \in 1..l : Append(Env, empty)[i] = Env[i]
          /\ Append(Env, empty)[l + 1] = empty
      BY <1>3, <2>1, AppendProperties
    <2> DEFINE grown == Append(Env, empty)
    <2> HIDE DEF grown
    <2>3. grown = [i \in 1..(l + 1) |-> grown[i]]
      <3>1. grown \in Seq([Names -> Definitions \cup {Absent}]) /\ Len(grown) = l + 1
        BY <2>2 DEF grown
      <3>2. QED
        BY <3>1, IsASeq
    <2>4. \A i \in 1..(l + 1) : grown[i] = IF i \in 1..l THEN Env[i] ELSE empty
      BY <1>1, <2>2 DEF grown
    <2>5. QED
      BY <2>3, <2>4 DEF grown
  <1>7. [i \in DOMAIN scopes' |-> Meaning(scopes'[i])] = Append(Env, empty)
    BY <1>5, <1>6
  <1>8. ~Stopped /\ UNCHANGED <<answer, Stopped>>
    BY DEF EnterScope, Stopped
  <1>9. QED
    BY <1>7, <1>8 DEF Lexical!Enter, Env, empty

LEMMA LeaveMaps == ASSUME IInv, LeaveScope PROVE Lexical!Leave
  <1> DEFINE l == Len(scopes) - 1
  <1>1. /\ TypeOK /\ l \in Nat \ {0} /\ l + 1 = Len(scopes)
        /\ Len(scopes') = l /\ scopes' \in Seq(Scope)
        /\ \A i \in 1..l : scopes'[i] = scopes[i]
    <2>1. TypeOK /\ Len(scopes) \in Nat
      BY Sizes DEF IInv
    <2>2. /\ l \in Nat \ {0} /\ Len(scopes') = l /\ scopes' \in Seq(Scope)
          /\ \A i \in 1..l : scopes'[i] = scopes[i]
      BY <2>1, LeaveFacts, Zenon
    <2>3. l + 1 = Len(scopes)
      BY <2>1
    <2>4. QED
      BY <2>1, <2>2, <2>3, Zenon
  <1>2. Len(Env) = l + 1 /\ Env \in Seq([Names -> Definitions \cup {Absent}])
        /\ \A i \in 1..(l + 1) : Env[i] = Meaning(scopes[i])
    BY <1>1, EnvFacts
  <1> HIDE DEF l
  <1>3. DOMAIN scopes' = 1..l
    BY <1>1
  <1>4. [i \in DOMAIN scopes' |-> Meaning(scopes'[i])] = [i \in 1..l |-> Env[i]]
    <2>1. \A i \in 1..l : Meaning(scopes'[i]) = Env[i]
      BY <1>1, <1>2
    <2>2. QED
      BY <1>3, <2>1
  <1>5. SubSeq(Env, 1, Len(Env) - 1) = [i \in 1..l |-> Env[i]]
    BY <1>1, <1>2
  <1>6. [i \in DOMAIN scopes' |-> Meaning(scopes'[i])] = SubSeq(Env, 1, Len(Env) - 1)
    BY <1>4, <1>5
  <1>7. ~Stopped /\ UNCHANGED <<answer, Stopped>> /\ Len(Env) > 1
    BY <1>1, <1>2 DEF LeaveScope, Stopped
  <1>8. QED
    BY <1>6, <1>7 DEF Lexical!Leave, Env

LEMMA DefineMaps ==
    ASSUME IInv, NEW t \in Names, NEW n \in Names, Define(t, n)
    PROVE  \E d \in Definitions : d.sort = "term" /\ Lexical!Define(t, d)
  <1> DEFINE l == Len(scopes)
             d == [sort |-> "term", name |-> n, serial |-> serial + 1]
             env == [i \in DOMAIN scopes |-> Meaning(scopes[i])]
  <1>1. TypeOK /\ ~Stopped /\ serial < MaxDefinitions /\ Visitor.kind # "module"
    BY DEF Define, HasExpressions, IInv
  <1>2. Lexical!Resolve("type", t)
    BY LookupResolves DEF Define
  <1>3. d \in Definitions /\ d.sort = "term" /\ d.name = n
    BY <1>1 DEF TypeOK, Definitions
  <1>4. /\ l \in Nat \ {0} /\ DOMAIN scopes = 1..l /\ Last = scopes[l]
        /\ \A i \in 1..l : scopes[i] \in Scope
        /\ DOMAIN env = 1..l /\ Len(env) = l
        /\ \A i \in 1..l : env[i] = Meaning(scopes[i])
    BY <1>1, Sizes, EnvFacts DEF Env, Last
  <1>5. CASE ~(answer' # Crash /\ ~Redefinition(n))
    <2>1. UNCHANGED scopes
      BY <1>5 DEF Define
    <2>2. CASE answer' = Crash
      BY <1>1, <1>2, <1>3, <2>1, <2>2 DEF Lexical!Define, Stopped
    <2>3. CASE Redefinition(n)
      <3>1. env[l][n] # Absent
        <4>1. n \in Defined(scopes[l])
          BY <1>4, <2>3 DEF Redefinition, Defined
        <4>2. QED
          BY <1>1, <1>4, <4>1, EnvFacts DEF Env
      <3> DEFINE kept == [env EXCEPT ![l][n] = IF @ = Absent THEN d ELSE @]
      <3>2. kept = env
        <4>1. [env[l] EXCEPT ![n] = env[l][n]] = env[l]
          <5>1. env[l] = Meaning(scopes[l])
            BY <1>4
          <5>2. Meaning(scopes[l]) = [m \in Names |-> Meaning(scopes[l])[m]]
            BY DEF Meaning
          <5>3. [Meaning(scopes[l]) EXCEPT ![n] = Meaning(scopes[l])[n]] = Meaning(scopes[l])
            BY <5>2
          <5>4. QED
            BY <5>1, <5>3, Zenon
        <4>2. [env EXCEPT ![l] = env[l]] = env
          BY <1>4
        <4>3. kept = [env EXCEPT ![l] = [env[l] EXCEPT ![n] = env[l][n]]]
          BY <3>1
        <4>4. QED
          BY <4>1, <4>2, <4>3
      <3>3. Lexical!Add(d)
        BY <1>3, <1>4, <2>1, <3>2 DEF Lexical!Add
      <3>4. Stopped' => env' = env
        BY <2>1
      <3>5. QED
        BY <1>1, <1>2, <1>3, <3>3, <3>4 DEF Lexical!Define
    <2>4. QED
      BY <1>5, <2>2, <2>3
  <1>6. CASE answer' # Crash /\ ~Redefinition(n)
    <2>1. Record(n) /\ ~Stopped'
      BY <1>6 DEF Define, Stopped
    <2>2. /\ DOMAIN scopes' = 1..l
          /\ \A i \in 1..l : i # l => scopes'[i] = scopes[i]
          /\ scopes'[l] = [type |-> Last.type, term |-> [Last.term EXCEPT ![n] = NewEntry(n)]]
          /\ NewEntry(n) \in Entry("term")
      <3>1. /\ scopes' \in Seq(Scope) /\ Len(scopes') = l
            /\ \A i \in 1..l : i # l => scopes'[i] = scopes[i]
            /\ scopes'[l] = [type |-> Last.type, term |-> [Last.term EXCEPT ![n] = NewEntry(n)]]
            /\ NewEntry(n) \in Entry("term")
        BY <1>1, <2>1, RecordFacts, Zenon
      <3> HIDE DEF l
      <3>2. DOMAIN scopes' = 1..l
        <4>1. scopes' \in Seq(Scope) /\ Len(scopes') = l
          BY <3>1, Zenon
        <4>2. QED
          BY <4>1
      <3>3. QED
        BY <3>1, <3>2, Zenon
    <2>3. Last.term[n] = Absent /\ Last.type[n] = Absent
      <3>1. l \in DOMAIN visits /\ Visitor = visits[l]
        BY <1>1, Sizes DEF Visitor
      <3>2. Last.type = NoNames
        BY <1>1, <1>4, <3>1 DEF TypeOK
      <3>3. QED
        BY <1>6, <3>2 DEF Redefinition, NoNames
    <2>4. Meaning(scopes'[l]) = [env[l] EXCEPT ![n] = d]
      <3>1. NewEntry(n).def = d /\ NewEntry(n) # Absent
        <4>1. NewEntry(n) \in [def : Definitions, old : Nat]
          BY <2>2 DEF Entry, Definitions
        <4>2. NewEntry(n).def = d
          BY DEF NewEntry, Shadowing
        <4>3. QED
          BY <4>1, <4>2
      <3>2. /\ scopes'[l].type = Last.type
            /\ scopes'[l].term = [Last.term EXCEPT ![n] = NewEntry(n)]
            /\ DOMAIN Last.term = Names
        <4>1. Last \in Scope
          BY <1>4
        <4>2. DOMAIN Last.term = Names
          BY <4>1 DEF Scope, Table
        <4>3. /\ scopes'[l].type = Last.type
              /\ scopes'[l].term = [Last.term EXCEPT ![n] = NewEntry(n)]
          BY <2>2
        <4>4. QED
          BY <4>2, <4>3
      <3>3. \A m \in Names : Meaning(scopes'[l])[m] = IF m = n THEN d ELSE Meaning(Last)[m]
        BY <3>1, <3>2 DEF Meaning
      <3>4. env[l] = Meaning(Last)
        BY <1>4
      <3>5. /\ Meaning(scopes'[l]) = [m \in Names |-> Meaning(scopes'[l])[m]]
            /\ Meaning(Last) = [m \in Names |-> Meaning(Last)[m]]
        BY DEF Meaning
      <3>6. [Meaning(Last) EXCEPT ![n] = d] = [m \in Names |-> IF m = n THEN d ELSE Meaning(Last)[m]]
        BY <3>5
      <3>7. QED
        BY <3>3, <3>4, <3>5, <3>6
    <2>5. env[l][n] = Absent
      BY <1>4, <2>3 DEF Meaning
    <2>6. Lexical!Add(d)
      <3>1. env' = [i \in 1..l |-> Meaning(scopes'[i])]
        BY <2>2
      <3> DEFINE added == [env EXCEPT ![l] = [env[l] EXCEPT ![n] = d]]
      <3>2. added = [i \in 1..l |-> IF i = l THEN [env[l] EXCEPT ![n] = d] ELSE env[i]]
        BY <1>4
      <3>3. \A i \in 1..l :
               Meaning(scopes'[i]) = IF i = l THEN [env[l] EXCEPT ![n] = d] ELSE env[i]
        BY <1>4, <2>2, <2>4
      <3>4. env' = added
        BY <3>1, <3>2, <3>3
      <3>5. [env EXCEPT ![l][n] = IF @ = Absent THEN d ELSE @] = added
        BY <2>5
      <3>6. QED
        BY <1>3, <1>4, <3>4, <3>5 DEF Lexical!Add
    <2>7. QED
      BY <1>1, <1>2, <1>3, <2>1, <2>6 DEF Lexical!Define
  <1>7. QED
    BY <1>5, <1>6

LEMMA StepMaps == IInv /\ [Next]_vars => [Lexical!Next]_(Lexical!vars)
  <1> SUFFICES ASSUME IInv, [Next]_vars PROVE [Lexical!Next]_(Lexical!vars)
    OBVIOUS
  <1>1. ASSUME NEW kind \in Kinds, EnterScope(kind) PROVE Lexical!Next
    BY <1>1, EnterMaps DEF Lexical!Next
  <1>2. CASE LeaveScope
    BY <1>2, LeaveMaps DEF Lexical!Next
  <1>3. ASSUME NEW n \in Names, Refer(n) PROVE Lexical!Next
    <2>1. Lexical!Find("term", n)
      BY <1>3, LookupResolves DEF Refer, Lexical!Find
    <2>2. QED
      BY <2>1 DEF Lexical!Next
  <1>4. ASSUME NEW t \in Names, NameField(t) PROVE Lexical!Next
    <2>1. Lexical!Find("type", t)
      BY <1>4, LookupResolves DEF NameField, Lexical!Find
    <2>2. QED
      BY <2>1 DEF Lexical!Next
  <1>5. ASSUME NEW t \in Names, NEW n \in Names, Define(t, n) PROVE Lexical!Next
    BY <1>5, DefineMaps DEF Lexical!Next
  <1>6. CASE UNCHANGED vars
    BY <1>6 DEF vars, Lexical!vars, Stopped
  <1>7. QED
    BY <1>1, <1>2, <1>3, <1>4, <1>5, <1>6 DEF Next

\* For any program, whatever scopes it opens and leaves and whatever it shadows,
\* a lookup through scopeOf returns the innermost definition that is in scope.
THEOREM NamesResolveLexically == Spec => ResolvesLexically
  <1>1. IInv /\ [Next]_vars => [Lexical!Next]_(Lexical!vars)
    BY StepMaps
  <1>2. QED
    BY <1>1, InitMaps, Inductive, PTL DEF Spec, ResolvesLexically, Lexical!Spec

=============================================================================
