--------------------------- MODULE SldLogHeapProofs ---------------------------
(***************************************************************************)
(* Proofs about the heap of SldLog.                                        *)
(*                                                                         *)
(* Ownership: a log of n entries stands for the state with exactly the     *)
(* terms that its AllocateMemory entries allocated (Owned); it does so for *)
(* every n, so that a rollback may stop anywhere.                          *)
(*                                                                         *)
(* Pointers and chains: while a rollback is under way memory that is still *)
(* referred to may have been freed, so nothing holds entry by entry.  What *)
(* holds is that the state at every marker was sound when it was taken     *)
(* (SoundAtMarks), and a rollback ends in such a state.                    *)
(***************************************************************************)
EXTENDS SldLogProofs

----------------------------------------------------------------------------
(* The log owns the heap *)

LiveIn(m) == {a \in Addr : m[a] # Free}

AllocatedBy(n) == {log[k].at : k \in {j \in 1..n : log[j].op = "AllocateMemory"}}

Owned ==
    \A n \in 0..Len(log) :
        /\ LiveIn(At(n).mem) = AllocatedBy(n)
        /\ n > 0 /\ log[n].op = "AllocateMemory" => log[n].at \notin AllocatedBy(n - 1)

\* The entries of a step, and the terms it makes, one by one.
AllocatedNext(m, n) == {log'[k].at : k \in {j \in m..n : log'[j].op = "AllocateMemory"}}

OwnsGrowth ==
    \A n \in (Len(log) + 1)..Len(log') :
        /\ LiveIn(AtNext(n).mem) = Live \cup AllocatedNext(Len(log) + 1, n)
        /\ log'[n].op = "AllocateMemory" => log'[n].at \notin LiveIn(AtNext(n - 1).mem)

LEMMA LiveNow ==
    ASSUME TypeOK
    PROVE  /\ LiveIn(Now.mem) = Live /\ LiveIn(Now'.mem) = Live'
           /\ At(Len(log)) = Now /\ Len(log) \in Nat
  BY DEF LiveIn, Now, Live, At, TypeOK

LEMMA OwnedGrows ==
    ASSUME TypeOK, Owned, GrowsLog, OwnsGrowth
    PROVE  Owned'
  <1>1. /\ Len(log) \in Nat /\ Len(log') \in Nat /\ Len(log') > Len(log)
        /\ \A n \in 1..Len(log) : log'[n] = log[n]
        /\ \A n \in 0..Len(log) : AtNext(n) = At(n)
    BY LiveNow, GrowthFacts
  <1>2. \A n \in 0..Len(log) : AllocatedNext(1, n) = AllocatedBy(n)
    BY <1>1 DEF AllocatedNext, AllocatedBy
  <1>3. \A n \in 0..Len(log') : LiveIn(AtNext(n).mem) = AllocatedNext(1, n)
    <2> SUFFICES ASSUME NEW n \in 0..Len(log')
                 PROVE  LiveIn(AtNext(n).mem) = AllocatedNext(1, n)
      OBVIOUS
    <2>1. CASE n \in 0..Len(log)
      BY <2>1, <1>1, <1>2 DEF Owned
    <2>2. CASE n \in (Len(log) + 1)..Len(log')
      <3>1. Live = AllocatedNext(1, Len(log))
        BY <1>1, <1>2, LiveNow DEF Owned
      <3>2. 1..n = (1..Len(log)) \cup ((Len(log) + 1)..n)
        BY <1>1, <2>2
      <3>3. AllocatedNext(1, n) = AllocatedNext(1, Len(log)) \cup AllocatedNext(Len(log) + 1, n)
        BY <3>2 DEF AllocatedNext
      <3>4. QED
        BY <2>2, <3>1, <3>3 DEF OwnsGrowth
    <2>3. QED
      BY <1>1, <2>1, <2>2
  <1>4. ASSUME NEW n \in 0..Len(log'), n > 0, log'[n].op = "AllocateMemory"
        PROVE  log'[n].at \notin AllocatedNext(1, n - 1)
    <2>1. CASE n \in 1..Len(log)
      <3>1. n - 1 \in 0..Len(log) /\ n \in 0..Len(log) /\ log'[n] = log[n]
        BY <1>1, <2>1
      <3>2. QED
        BY <1>2, <1>4, <3>1 DEF Owned
    <2>2. CASE n \in (Len(log) + 1)..Len(log')
      <3>1. n - 1 \in 0..Len(log')
        BY <1>1, <2>2
      <3>2. QED
        BY <1>3, <1>4, <2>2, <3>1 DEF OwnsGrowth
    <2>3. QED
      BY <1>1, <1>4, <2>1, <2>2
  <1>5. QED
    BY <1>3, <1>4 DEF Owned, AllocatedNext, AllocatedBy, At, AtNext

\* Steps that push one or two entries, of which the last may be an allocation.
LEMMA OwnsOne ==
    ASSUME TypeOK, Now' \in Snapshot, NEW e \in Entry, Push(<<e>>, <<Now>>),
           \/ e.op = "AllocateMemory" /\ e.at \notin Live /\ Live' = Live \cup {e.at}
           \/ e.op # "AllocateMemory" /\ Live' = Live
    PROVE  OwnsGrowth
  <1>1. <<e>> \in Seq(Entry) /\ <<Now>> \in Seq(Snapshot) /\ Len(<<e>>) = 1 /\ Len(<<Now>>) = 1
    BY CellTypes
  <1>2. /\ Len(log) \in Nat /\ Len(log') = Len(log) + 1 /\ log'[Len(log) + 1] = e
        /\ AtNext(Len(log)) = Now /\ AtNext(Len(log) + 1) = Now'
    <2>1. /\ Len(log') = Len(log) + 1
          /\ \A n \in 1..Len(log') : log'[n] = IF n <= Len(log) THEN log[n] ELSE <<e>>[n - Len(log)]
          /\ \A k \in 0..1 : AtNext(Len(log) + k) = IF k < 1 THEN <<Now>>[k + 1] ELSE Now'
      BY <1>1, PushFacts
    <2>2. QED
      BY <2>1, LiveNow
  <1>3. AllocatedNext(Len(log) + 1, Len(log) + 1) = IF e.op = "AllocateMemory" THEN {e.at} ELSE {}
    BY <1>2 DEF AllocatedNext
  <1>4. QED
    BY <1>2, <1>3, LiveNow DEF OwnsGrowth

LEMMA OwnsTwo ==
    ASSUME TypeOK, Now' \in Snapshot, NEW e \in Entry, NEW f \in Entry, NEW between \in Snapshot,
           Push(<<e, f>>, <<Now, between>>),
           e.op # "AllocateMemory", LiveIn(between.mem) = Live,
           \/ f.op = "AllocateMemory" /\ f.at \notin Live /\ Live' = Live \cup {f.at}
           \/ f.op # "AllocateMemory" /\ Live' = Live
    PROVE  OwnsGrowth
  <1>1. /\ <<e, f>> \in Seq(Entry) /\ <<Now, between>> \in Seq(Snapshot)
        /\ Len(<<e, f>>) = 2 /\ Len(<<Now, between>>) = 2
    BY CellTypes
  <1>2. /\ Len(log) \in Nat /\ Len(log') = Len(log) + 2
        /\ log'[Len(log) + 1] = e /\ log'[Len(log) + 2] = f
        /\ AtNext(Len(log)) = Now /\ AtNext(Len(log) + 1) = between /\ AtNext(Len(log) + 2) = Now'
    <2>1. /\ Len(log') = Len(log) + 2
          /\ \A n \in 1..Len(log') : log'[n] = IF n <= Len(log) THEN log[n] ELSE <<e, f>>[n - Len(log)]
          /\ \A k \in 0..2 : AtNext(Len(log) + k) = IF k < 2 THEN <<Now, between>>[k + 1] ELSE Now'
      BY <1>1, PushFacts
    <2>2. QED
      BY <2>1, LiveNow
  <1>3. /\ AllocatedNext(Len(log) + 1, Len(log) + 1) = {}
        /\ AllocatedNext(Len(log) + 1, Len(log) + 2) = IF f.op = "AllocateMemory" THEN {f.at} ELSE {}
    BY <1>2 DEF AllocatedNext
  <1>4. QED
    BY <1>2, <1>3, LiveNow DEF OwnsGrowth

----------------------------------------------------------------------------
(* What the steps do to the terms *)

LEMMA FieldsWritten ==
    ASSUME NEW c \in Cell, NEW w \in Words
    PROVE  /\ \A i \in Fields : [c EXCEPT !.slot[i] = w] \in Cell
           /\ [c EXCEPT !.type = "Variable", !.set = TRUE, !.slot[1] = w] \in Cell
           /\ [c EXCEPT !.set = TRUE] \in Cell
  BY DEF Cell, TypeIds

LEMMA LiveKept ==
    ASSUME TypeOK, NEW a \in Live, NEW c \in Cell
    PROVE  LiveIn([mem EXCEPT ![a] = c]) = Live
  BY ConstantsAssumption DEF LiveIn, Live, TypeOK

LEMMA LiveAdded ==
    ASSUME TypeOK, NEW a \in Addr, NEW c \in Cell
    PROVE  LiveIn([mem EXCEPT ![a] = c]) = Live \cup {a}
  BY ConstantsAssumption DEF LiveIn, Live, TypeOK

LEMMA AllocateOwns ==
    ASSUME TypeOK, NEW a \in Addr, NEW term \in Cell, Allocate(a, term)
    PROVE  OwnsGrowth
  <1>1. Now' \in Snapshot
    BY AllocateGrows DEF GrowsLog
  <1>2. LiveIn(mem') = Live \cup {a} /\ a \notin Live
    BY LiveAdded DEF Allocate, Live
  <1>3. /\ AllocateEntry(a) \in Entry /\ AllocateEntry(a).op = "AllocateMemory"
        /\ AllocateEntry(a).at = a
    BY DEF AllocateEntry, Entry
  <1>4. QED
    BY <1>1, <1>2, <1>3, OwnsOne DEF Allocate, LiveIn, Live

LEMMA AssignSubtermOwns ==
    ASSUME TypeOK, NEW a \in Addr, NEW i \in Fields, NEW subterm \in Addr,
           AssignSubterm(a, i, subterm)
    PROVE  OwnsGrowth
  <1>1. Now' \in Snapshot
    BY AssignSubtermGrows DEF GrowsLog
  <1>2. a \in Live /\ mem[a] \in Cell /\ mem[a].slot[i] \in Words
    BY CellTypes DEF AssignSubterm, IsCompound, Cell
  <1>3. mem' = [mem EXCEPT ![a] = [mem[a] EXCEPT !.slot[i] = subterm]]
    BY <1>2 DEF AssignSubterm, TypeOK
  <1>4. LiveIn(mem') = Live
    BY <1>2, <1>3, FieldsWritten, LiveKept DEF Words
  <1>5. WordEntry(a, i) \in Entry /\ WordEntry(a, i).op = "ReplaceWord"
    BY <1>2 DEF WordEntry, Entry
  <1>6. QED
    BY <1>1, <1>4, <1>5, OwnsOne DEF AssignSubterm, LiveIn, Live

LEMMA RecordInSubstitutionOwns ==
    ASSUME TypeOK, NEW unset \in Addr, NEW data \in Addr, RecordInSubstitution(unset, data)
    PROVE  OwnsGrowth
  <1>1. Now' \in Snapshot
    BY RecordInSubstitutionGrows DEF GrowsLog
  <1>2. unset \in Live /\ mem[unset] \in Cell
    BY CellTypes DEF RecordInSubstitution, IsFollowed
  <1>3. mem' = [mem EXCEPT ![unset] =
                  [mem[unset] EXCEPT !.type = "Variable", !.set = TRUE, !.slot[1] = data]]
    BY <1>2 DEF RecordInSubstitution, TypeOK
  <1>4. LiveIn(mem') = Live
    BY <1>2, <1>3, FieldsWritten, LiveKept DEF Words
  <1>5. RegionEntry(unset) \in Entry /\ RegionEntry(unset).op = "ReplaceMemoryRegion"
    BY <1>2 DEF RegionEntry, Entry
  <1>6. QED
    BY <1>1, <1>4, <1>5, OwnsOne DEF RecordInSubstitution, LiveIn, Live

\* The cell of a pointer after each of the two writes.
LEMMA PtrWritten ==
    ASSUME TypeOK, NEW p \in Addr, NEW value \in Addr, SetPtrValue(p, value)
    PROVE  LET written == [mem[p] EXCEPT !.slot[1] = value] IN
           /\ p \in Live /\ mem[p] \in Cell
           /\ [mem EXCEPT ![p].slot[1] = value] = [mem EXCEPT ![p] = written] /\ written \in Cell
           /\ mem' = [mem EXCEPT ![p] = [written EXCEPT !.set = TRUE]]
           /\ [written EXCEPT !.set = TRUE] \in Cell
  <1> DEFINE written == [mem[p] EXCEPT !.slot[1] = value]
  <1>1. p \in Live /\ mem[p] \in Cell /\ 1 \in Fields /\ value \in Words
    BY CellTypes, ConstantsAssumption DEF SetPtrValue, IsFollowed, Fields, Words
  <1>2. written \in Cell /\ [written EXCEPT !.set = TRUE] \in Cell
    BY <1>1, FieldsWritten
  <1>3. [mem EXCEPT ![p].slot[1] = value] = [mem EXCEPT ![p] = written]
    BY <1>1 DEF TypeOK
  <1> HIDE DEF written
  <1>4. mem' = [mem EXCEPT ![p] = [written EXCEPT !.set = TRUE]]
    BY <1>1, <1>3 DEF SetPtrValue, TypeOK
  <1>5. QED
    BY <1>1, <1>2, <1>3, <1>4 DEF written

LEMMA SetPtrValueOwns ==
    ASSUME TypeOK, NEW p \in Addr, NEW value \in Addr, SetPtrValue(p, value)
    PROVE  OwnsGrowth
  <1> DEFINE written == [mem EXCEPT ![p].slot[1] = value]
             between == [mem |-> written, goals |-> goals]
  <1>1. Now' \in Snapshot
    BY SetPtrValueGrows DEF GrowsLog
  <1>2. p \in Live /\ mem[p] \in Cell /\ 1 \in Fields
    BY CellTypes, ConstantsAssumption DEF SetPtrValue, IsFollowed, Fields
  <1>3. LiveIn(written) = Live /\ LiveIn(mem') = Live
    <2> DEFINE cell == [mem[p] EXCEPT !.slot[1] = value]
    <2>1. /\ written = [mem EXCEPT ![p] = cell] /\ cell \in Cell
          /\ mem' = [mem EXCEPT ![p] = [cell EXCEPT !.set = TRUE]] /\ [cell EXCEPT !.set = TRUE] \in Cell
      BY PtrWritten, Zenon
    <2> HIDE DEF cell, written
    <2>2. QED
      BY <1>2, <2>1, LiveKept
  <1>4. between \in Snapshot /\ LiveIn(between.mem) = Live
    <2>1. written \in [Addr -> Cell \cup {Free}]
      BY <1>2, WordWritten DEF Words
    <2>2. QED
      BY <1>3, <2>1 DEF Snapshot, TypeOK
  <1>5. /\ WordEntry(p, 1) \in Entry /\ WordEntry(p, 1).op = "ReplaceWord"
        /\ TypeByteEntry(p) \in Entry /\ TypeByteEntry(p).op = "ReplaceTypeByte"
    BY <1>2 DEF WordEntry, TypeByteEntry, Entry, Cell
  <1>6. \/ Push(<<WordEntry(p, 1)>>, <<Now>>)
        \/ Push(<<WordEntry(p, 1), TypeByteEntry(p)>>, <<Now, between>>)
    BY DEF SetPtrValue
  <1> HIDE DEF between, written
  <1>7. Live' = Live
    BY <1>3 DEF LiveIn, Live
  <1>8. QED
    BY <1>1, <1>4, <1>5, <1>6, <1>7, OwnsOne, OwnsTwo

LEMMA AddGoalOwns ==
    ASSUME TypeOK, NEW functions \in FunctionLists, NEW term \in Addr, AddGoal(functions, term)
    PROVE  OwnsGrowth
  <1> DEFINE e == [op |-> "AddGoal"]
  <1>1. Now' \in Snapshot
    BY AddGoalGrows DEF GrowsLog
  <1>2. e \in Entry /\ e.op = "AddGoal" /\ Push(<<e>>, <<Now>>) /\ Live' = Live
    BY DEF AddGoal, Entry, Live
  <1> HIDE DEF e
  <1>3. QED
    BY <1>1, <1>2, OwnsOne

LEMMA RemoveGoalOwns ==
    ASSUME TypeOK, NEW unusedResult \in Addr, RemoveGoal(unusedResult)
    PROVE  OwnsGrowth
  <1> DEFINE between == [mem |-> mem, goals |-> Tail(goals)]
             e == [op |-> "RemoveGoal", goal |-> Head(goals)]
             f == AllocateEntry(unusedResult)
  <1>1. Now' \in Snapshot
    BY RemoveGoalGrows DEF GrowsLog
  <1>2. /\ mem \in [Addr -> Cell \cup {Free}] /\ goals \in Seq(Goal) /\ goals # <<>>
        /\ Head(goals) \in Goal /\ Tail(goals) \in Seq(Goal)
    BY HeadTailProperties DEF RemoveGoal, TypeOK
  <1>3. between \in Snapshot /\ LiveIn(between.mem) = Live
    BY <1>2 DEF Snapshot, LiveIn, Live
  <1>4. NewTerm("Variable", FALSE, FALSE, Junk) \in Cell
    BY NewTermType DEF TypeIds, Words
  <1>5. LiveIn(mem') = Live \cup {unusedResult} /\ unusedResult \notin Live
    BY <1>4, LiveAdded DEF RemoveGoal, Live
  <1>6. /\ e \in Entry /\ e.op # "AllocateMemory"
        /\ f \in Entry /\ f.op = "AllocateMemory" /\ f.at = unusedResult
    BY <1>2 DEF AllocateEntry, Entry
  <1>7. Push(<<e, f>>, <<Now, between>>)
    BY DEF RemoveGoal
  <1> HIDE DEF e, f, between
  <1>8. Live' = Live \cup {unusedResult}
    BY <1>5 DEF LiveIn, Live
  <1>9. QED
    BY <1>1, <1>3, <1>5, <1>6, <1>7, <1>8, OwnsTwo

\* The copies appear one by one, each with its entry.
LEMMA DeepCopied ==
    ASSUME TypeOK, NEW n \in 1..MaxCopy,
           NEW new \in [1..n -> Addr \ Live], NEW src \in [1..n -> Live],
           NEW kid \in [1..n -> [Fields -> 0..n]],
           DeepCopy(new, src, kid)
    PROVE  /\ n \in Nat /\ Len(new) = n /\ Len(log') = Len(log) + n
           /\ \A k \in 1..n : log'[Len(log) + k] = AllocateEntry(new[k])
           /\ \A k \in 0..n : AtNext(Len(log) + k).mem = Cloned(new, src, kid, k)
  <1> DEFINE Heap(k) == Cloned(new, src, kid, k)
             entries == [j \in 1..Len(new) |-> AllocateEntry(new[j])]
             before  == [j \in 1..Len(new) |-> [mem |-> Heap(j - 1), goals |-> goals]]
  <1>1. n \in Nat /\ n > 0 /\ Len(new) = n
    BY ConstantsAssumption, LenOfFunction
  <1>2. \A k \in 0..n : Heap(k) \in [Addr -> Cell \cup {Free}]
    BY <1>1, ClonedType
  <1>3. Push(entries, before) /\ mem' = Heap(n)
    BY <1>1 DEF DeepCopy
  <1> HIDE DEF Heap
  <1>4. /\ entries \in Seq(Entry) /\ Len(entries) = n
        /\ \A j \in 1..n : entries[j] = AllocateEntry(new[j])
    <2>1. entries \in [1..n -> Entry]
      BY <1>1 DEF AllocateEntry, Entry
    <2>2. QED
      BY <2>1, <1>1, LenOfFunction
  <1>5. /\ before \in Seq(Snapshot) /\ Len(before) = n
        /\ \A j \in 1..n : before[j].mem = Heap(j - 1)
    <2>1. \A j \in 1..n : [mem |-> Heap(j - 1), goals |-> goals] \in Snapshot
      BY <1>1, <1>2 DEF Snapshot, TypeOK
    <2>2. before \in [1..n -> Snapshot]
      BY <2>1, <1>1
    <2>3. QED
      BY <2>2, <1>1, LenOfFunction
  <1> HIDE DEF entries, before
  <1>6. /\ Len(log') = Len(log) + n /\ Len(log) \in Nat
        /\ \A m \in 1..Len(log') : ~(m <= Len(log)) => log'[m] = entries[m - Len(log)]
        /\ \A k \in 0..n : AtNext(Len(log) + k) = IF k < n THEN before[k + 1] ELSE Now'
    BY <1>3, <1>4, <1>5, PushFacts, LiveNow
  <1>7. ASSUME NEW k \in 1..n
        PROVE  log'[Len(log) + k] = AllocateEntry(new[k])
    <2> DEFINE m == Len(log) + k
    <2>1. m \in 1..Len(log') /\ ~(m <= Len(log)) /\ m - Len(log) = k
      BY <1>1, <1>6
    <2> HIDE DEF m
    <2>2. log'[m] = entries[k]
      BY <1>6, <2>1
    <2>3. QED
      BY <1>4, <2>2 DEF m
  <1>8. ASSUME NEW k \in 0..n
        PROVE  AtNext(Len(log) + k).mem = Heap(k)
    <2>1. CASE k < n
      <3>1. k + 1 \in 1..n /\ k + 1 - 1 = k
        BY <1>1, <2>1
      <3>2. AtNext(Len(log) + k) = before[k + 1]
        BY <1>6, <2>1
      <3>3. before[k + 1].mem = Heap(k + 1 - 1)
        BY <1>5, <3>1
      <3>4. QED
        BY <3>1, <3>2, <3>3
    <2>2. CASE k = n
      <3>1. AtNext(Len(log) + k) = Now'
        <4>1. ~(k < n)
          BY <1>1, <2>2
        <4>2. AtNext(Len(log) + k) = IF k < n THEN before[k + 1] ELSE Now'
          BY <1>6
        <4>3. QED
          BY <4>1, <4>2
      <3>2. Now'.mem = Heap(k)
        BY <1>3, <2>2 DEF Now
      <3>3. QED
        BY <3>1, <3>2
    <2>3. QED
      BY <1>1, <2>1, <2>2
  <1>9. QED
    BY <1>1, <1>6, <1>7, <1>8 DEF Heap

FirstOf(new, k) == {new[j] : j \in 1..k}

LEMMA LiveInCloned ==
    ASSUME NEW new, NEW src, NEW kid, NEW k,
           \A j \in 1..k : new[j] \in Addr /\ Clone(new, src, kid, j) \in Cell
    PROVE  LiveIn(Cloned(new, src, kid, k)) = Live \cup FirstOf(new, k)
  <1>1. ASSUME NEW a \in Addr, \E j \in 1..k : new[j] = a
        PROVE  Cloned(new, src, kid, k)[a] # Free
    <2>1. (CHOOSE j \in 1..k : new[j] = a) \in 1..k
      BY <1>1
    <2>2. QED
      BY <1>1, <2>1, ConstantsAssumption DEF Cloned
  <1>2. ASSUME NEW a \in Addr, ~ \E j \in 1..k : new[j] = a
        PROVE  Cloned(new, src, kid, k)[a] = mem[a]
    BY <1>2 DEF Cloned
  <1>3. QED
    BY <1>1, <1>2 DEF LiveIn, Live, FirstOf

LEMMA OwnsMany ==
    ASSUME NEW n \in Nat, NEW new \in [1..n -> Addr],
           Len(log) \in Nat, Len(log') = Len(log) + n,
           \A k \in 0..n : LiveIn(AtNext(Len(log) + k).mem) = Live \cup FirstOf(new, k),
           \A k \in 1..n : log'[Len(log) + k].op = "AllocateMemory" /\ log'[Len(log) + k].at = new[k],
           \A k \in 1..n : new[k] \notin Live,
           \A j, k \in 1..n : new[j] = new[k] => j = k
    PROVE  OwnsGrowth
  <1> DEFINE first == Len(log) + 1
  <1>1. ASSUME NEW k \in 1..n
        PROVE  AllocatedNext(first, Len(log) + k) = FirstOf(new, k)
    <2>1. \A j \in 1..k : Len(log) + j \in first..(Len(log) + k) /\ j \in 1..n
      OBVIOUS
    <2>2. \A m \in first..(Len(log) + k) : m - Len(log) \in 1..k /\ Len(log) + (m - Len(log)) = m
      OBVIOUS
    <2>3. FirstOf(new, k) \subseteq AllocatedNext(first, Len(log) + k)
      BY <2>1 DEF AllocatedNext, FirstOf
    <2>4. AllocatedNext(first, Len(log) + k) \subseteq FirstOf(new, k)
      <3> SUFFICES ASSUME NEW m \in first..(Len(log) + k)
                   PROVE  log'[m].at \in FirstOf(new, k)
        BY DEF AllocatedNext
      <3>1. log'[m].at = new[m - Len(log)]
        BY <2>1, <2>2
      <3>2. QED
        BY <2>2, <3>1 DEF FirstOf
    <2>5. QED
      BY <2>3, <2>4
  <1>2. \A k \in 1..n : new[k] \notin Live \cup FirstOf(new, k - 1)
    BY DEF FirstOf
  <1>3. ASSUME NEW m \in first..Len(log')
        PROVE  /\ LiveIn(AtNext(m).mem) = Live \cup AllocatedNext(first, m)
               /\ log'[m].at \notin LiveIn(AtNext(m - 1).mem)
    <2> DEFINE k == m - Len(log)
    <2>1. /\ k \in 1..n /\ k \in 0..n /\ k - 1 \in 0..n
          /\ m = Len(log) + k /\ m - 1 = Len(log) + (k - 1)
      OBVIOUS
    <2> HIDE DEF k
    <2>2. QED
      BY <1>1, <1>2, <2>1
  <1>4. QED
    BY <1>3 DEF OwnsGrowth

LEMMA DeepCopyOwns ==
    ASSUME TypeOK, NEW n \in 1..MaxCopy,
           NEW new \in [1..n -> Addr \ Live], NEW src \in [1..n -> Live],
           NEW kid \in [1..n -> [Fields -> 0..n]],
           DeepCopy(new, src, kid)
    PROVE  OwnsGrowth
  <1>1. /\ n \in Nat /\ Len(new) = n /\ Len(log') = Len(log) + n
        /\ \A k \in 1..n : log'[Len(log) + k] = AllocateEntry(new[k])
        /\ \A k \in 0..n : AtNext(Len(log) + k).mem = Cloned(new, src, kid, k)
    BY DeepCopied, Zenon
  <1>2. Len(log) \in Nat
    BY LiveNow
  <1>3. new \in [1..n -> Addr] /\ \A k \in 1..n : new[k] \notin Live
    OBVIOUS
  <1>4. \A k \in 0..n : LiveIn(AtNext(Len(log) + k).mem) = Live \cup FirstOf(new, k)
    <2> SUFFICES ASSUME NEW k \in 0..n
                 PROVE  LiveIn(AtNext(Len(log) + k).mem) = Live \cup FirstOf(new, k)
      OBVIOUS
    <2>1. AtNext(Len(log) + k).mem = Cloned(new, src, kid, k)
      BY <1>1
    <2>2. \A j \in 1..n : new[j] \in Addr /\ Clone(new, src, kid, j) \in Cell
      BY <1>1, <1>3, CloneType
    <2>3. 1..k \subseteq 1..n
      BY <1>1
    <2>4. \A j \in 1..k : new[j] \in Addr /\ Clone(new, src, kid, j) \in Cell
      BY <2>2, <2>3
    <2>5. LiveIn(Cloned(new, src, kid, k)) = Live \cup FirstOf(new, k)
      BY <2>4, LiveInCloned, Zenon
    <2>6. QED
      BY <2>1, <2>5
  <1>5. \A j, k \in 1..n : new[j] = new[k] => j = k
    BY <1>1, Zenon DEF DeepCopy
  <1>6. \A k \in 1..n : log'[Len(log) + k].op = "AllocateMemory" /\ log'[Len(log) + k].at = new[k]
    <2> SUFFICES ASSUME NEW k \in 1..n
                 PROVE  log'[Len(log) + k].op = "AllocateMemory" /\ log'[Len(log) + k].at = new[k]
      OBVIOUS
    <2>1. log'[Len(log) + k] = AllocateEntry(new[k])
      BY <1>1
    <2>2. QED
      BY <2>1 DEF AllocateEntry
  <1>7. QED
    BY <1>1, <1>2, <1>3, <1>4, <1>5, <1>6, OwnsMany

LEMMA MutateOwns ==
    ASSUME TypeOK, Mutate
    PROVE  OwnsGrowth
  <1>1. ASSUME NEW a \in Addr, NEW annotated \in Annotations,
               NEW type \in Types \cap {"Int", "Bool", "Ptr"}, NEW set \in BOOLEAN, NEW value \in Words,
               AllocateValue(a, type, annotated, set, value)
        PROVE  OwnsGrowth
    <2>1. NewTerm(type, set, annotated, value) \in Cell
      BY NewTermType, ConstantsAssumption
    <2>2. QED
      BY <1>1, <2>1, AllocateOwns DEF AllocateValue
  <1>2. ASSUME NEW a \in Addr, NEW annotated \in Annotations, NEW type \in Types \cap Compound,
               AllocateCompound(a, type, annotated)
        PROVE  OwnsGrowth
    <2>1. NewTerm(type, TRUE, annotated, Junk) \in Cell
      BY NewTermType, ConstantsAssumption DEF Words
    <2>2. QED
      BY <1>2, <2>1, AllocateOwns DEF AllocateCompound
  <1>3. ASSUME NEW a \in Addr, NEW annotated \in Annotations, AllocateVariable(a, annotated)
        PROVE  OwnsGrowth
    <2>1. NewTerm("Variable", FALSE, annotated, Junk) \in Cell
      BY NewTermType, ConstantsAssumption DEF Words, TypeIds
    <2>2. QED
      BY <1>3, <2>1, AllocateOwns DEF AllocateVariable
  <1>4. QED
    BY <1>1, <1>2, <1>3, AssignSubtermOwns, RecordInSubstitutionOwns, SetPtrValueOwns,
       DeepCopyOwns, AddGoalOwns, RemoveGoalOwns DEF Mutate

LEMMA OwnedPreserved ==
    ASSUME IInv, Owned, [Next]_vars
    PROVE  Owned'
  <1>1. TypeOK
    BY DEF IInv
  <1>2. CASE Mutate
    BY <1>1, <1>2, MutateGrows, MutateOwns, OwnedGrows
  <1>3. CASE Revert
    <2>1. /\ Len(log) \in Nat /\ Len(log') = Len(log) - 1 /\ Len(log') \in Nat
          /\ \A n \in 1..Len(log') : log'[n] = log[n]
          /\ \A n \in 0..Len(log') : AtNext(n) = At(n)
      BY <1>1, <1>3, RevertFacts, LiveNow
    <2>2. \A n \in 0..Len(log') : AllocatedNext(1, n) = AllocatedBy(n)
      BY <2>1 DEF AllocatedNext, AllocatedBy
    <2>3. \A n \in 0..Len(log') : n \in 0..Len(log) /\ (n > 0 => n - 1 \in 0..Len(log') /\ n \in 1..Len(log'))
      BY <2>1
    <2>4. \A n \in 0..Len(log') :
             /\ LiveIn(AtNext(n).mem) = AllocatedNext(1, n)
             /\ n > 0 /\ log'[n].op = "AllocateMemory" => log'[n].at \notin AllocatedNext(1, n - 1)
      BY <2>1, <2>2, <2>3 DEF Owned
    <2>5. QED
      BY <2>4 DEF Owned, AllocatedNext, AllocatedBy, At, AtNext
  <1>4. CASE Unlogged
    BY <1>4 DEF Unlogged, Owned, AllocatedBy, At, Now
  <1>5. QED
    <2>1. Mutate \/ Revert \/ Unlogged
      BY DEF Next, EnterExport, EnterPredicate, Enter, ReturnTrue, StartRollback, Failed,
             EndRollback, Aborted, vars, Unlogged
    <2>2. QED
      BY <1>2, <1>3, <1>4, <2>1

LEMMA OwnedImplies ==
    ASSUME TypeOK, Owned
    PROVE  LogOwnsHeap
  <1>1. Len(log) \in Nat /\ Live = AllocatedBy(Len(log))
    BY LiveNow DEF Owned
  <1>2. \A n \in 1..Len(log) : log[n].op = "AllocateMemory" => log[n].at \in Live
    BY <1>1 DEF AllocatedBy
  <1>3. \A a \in Live : \E n \in 1..Len(log) : log[n].op = "AllocateMemory" /\ log[n].at = a
    BY <1>1 DEF AllocatedBy
  <1>4. ASSUME NEW m \in 1..Len(log), NEW n \in 1..Len(log), m < n,
               log[m].op = "AllocateMemory", log[n].op = "AllocateMemory"
        PROVE  log[m].at # log[n].at
    <2>1. m \in 1..(n - 1) /\ n \in 0..Len(log) /\ n > 0
      BY <1>1, <1>4
    <2>2. log[m].at \in AllocatedBy(n - 1)
      BY <1>4, <2>1 DEF AllocatedBy
    <2>3. QED
      BY <1>4, <2>1, <2>2 DEF Owned
  <1>5. \A m, n \in 1..Len(log) :
           log[m].op = "AllocateMemory" /\ log[n].op = "AllocateMemory" /\ log[m].at = log[n].at
           => m = n
    BY <1>1, <1>4
  <1>6. QED
    BY <1>2, <1>3, <1>5 DEF LogOwnsHeap

\* Every term that exists has exactly one AllocateMemory entry: a rollback frees
\* everything allocated since its marker and nothing twice.
THEOREM HeapOwned == Spec => []LogOwnsHeap
  <1>1. Init => Owned
    BY DEF Init, Owned, LiveIn, AllocatedBy, At, Now
  <1>2. IInv /\ Owned /\ [Next]_vars => Owned'
    BY OwnedPreserved
  <1>3. IInv /\ Owned => LogOwnsHeap
    BY OwnedImplies DEF IInv
  <1>4. QED
    BY <1>1, <1>2, <1>3, Invariance, PTL DEF Spec

----------------------------------------------------------------------------
(* Pointers, chains and bindings *)

LinksIn(m) == \A a \in LiveIn(m) : Links(m[a]) \subseteq LiveIn(m)
GoalsIn(s) == \A g \in 1..Len(s.goals) : s.goals[g][2] \in LiveIn(s.mem)
Sound(s)   == LinksIn(s.mem) /\ GoalsIn(s) /\ ChainsEndIn(s.mem)

SoundAtMarks ==
    /\ mode = "run" => Sound(Now)
    /\ \A f \in 1..Len(frames) : Sound(At(frames[f].mark))

LEMMA SoundImplies ==
    ASSUME TypeOK, Sound(Now)
    PROVE  NoDanglingIn(Now) /\ ChainsEndIn(mem)
  <1>1. Now.mem = mem /\ Now.goals = goals
    BY DEF Now
  <1>2. \A g \in 1..Len(goals) : goals[g][2] \in Addr
    BY DEF TypeOK, Goal
  <1>3. \A c : Links(c) \subseteq Addr
    BY DEF Links
  <1>4. QED
    BY <1>1, <1>2, <1>3 DEF Sound, LinksIn, GoalsIn, NoDanglingIn, LiveIn

\* The step writes one term, which was not bound before; if it is bound now, then
\* to itself or to a term that is not.
Written(a, c) ==
    /\ mem' = [mem EXCEPT ![a] = c]
    /\ a \in Live => ~Bound(mem[a])
    /\ Links(c) \subseteq Live \cup {a}
    /\ Bound(c) => \/ c.slot[1] = a
                   \/ c.slot[1] \in Live /\ ~Bound(mem[c.slot[1]])

\* What the theorems need to know of a step.
MemoryKept ==
    /\ Live \subseteq Live' /\ LinksIn(mem') /\ ChainsEndIn(mem')
    /\ \A a \in Live : Bound(mem[a]) => mem'[a] = mem[a]

LEMMA WrittenKeeps ==
    ASSUME TypeOK, Sound(Now), NEW a \in Addr, NEW c \in Cell, Written(a, c)
    PROVE  MemoryKept
  <1>1. /\ mem \in [Addr -> Cell \cup {Free}] /\ LinksIn(mem) /\ ChainsEndIn(mem)
        /\ LiveIn(mem) = Live
    BY DEF TypeOK, Sound, Now, LiveIn, Live
  <1>2. /\ mem'[a] = c /\ \A b \in Addr : b # a => mem'[b] = mem[b]
        /\ LiveIn(mem') = Live \cup {a}
    BY <1>1, LiveAdded DEF Written
  <1>3. LinksIn(mem')
    <2> SUFFICES ASSUME NEW b \in LiveIn(mem')
                 PROVE  Links(mem'[b]) \subseteq LiveIn(mem')
      BY DEF LinksIn
    <2>1. CASE b = a
      BY <1>2, <2>1 DEF Written
    <2>2. CASE b # a
      BY <1>1, <1>2, <2>2 DEF LinksIn, LiveIn
    <2>3. QED
      BY <2>1, <2>2
  <1>4. \A b \in Live : Bound(mem[b]) => mem'[b] = mem[b]
    BY <1>2 DEF Written, Live
  <1>5. ChainsEndIn(mem')
    <2> SUFFICES ASSUME NEW S \in SUBSET {b \in Addr : mem'[b] # Free /\ mem'[b].type = "Variable" /\ mem'[b].set},
                        S # {}
                 PROVE  \E b \in S : mem'[b].slot[1] \in (Addr \ S) \cup {b}
      BY DEF ChainsEndIn
    <2>1. CASE a \notin S
      <3>1. S \subseteq {b \in Addr : mem[b] # Free /\ mem[b].type = "Variable" /\ mem[b].set}
        BY <1>2, <2>1
      <3>2. PICK b \in S : mem[b].slot[1] \in (Addr \ S) \cup {b}
        BY <1>1, <3>1 DEF ChainsEndIn
      <3>3. mem'[b] = mem[b]
        BY <1>2, <2>1
      <3>4. QED
        BY <3>2, <3>3
    <2>2. CASE a \in S
      <3>1. Bound(c)
        BY <1>2, <2>2 DEF Bound
      <3>2. CASE c.slot[1] = a
        BY <1>2, <2>2, <3>2
      <3>3. CASE c.slot[1] # a
        <4>1. c.slot[1] \in Live /\ ~Bound(mem[c.slot[1]])
          BY <3>1, <3>3 DEF Written
        <4>2. c.slot[1] \in Addr /\ mem'[c.slot[1]] = mem[c.slot[1]]
          BY <1>2, <3>3, <4>1 DEF Live
        <4>3. c.slot[1] \notin S
          BY <4>1, <4>2 DEF Bound
        <4>4. QED
          BY <1>2, <2>2, <4>2, <4>3
      <3>4. QED
        BY <3>2, <3>3
    <2>3. QED
      BY <2>1, <2>2
  <1>6. Live \subseteq Live'
    BY <1>2 DEF LiveIn, Live
  <1>7. QED
    BY <1>3, <1>4, <1>5, <1>6 DEF MemoryKept

LEMMA NewLinks ==
    ASSUME NEW type, NEW set, NEW annotated, NEW value
    PROVE  Links(NewTerm(type, set, annotated, value)) \subseteq {value} \cap Addr
  BY ConstantsAssumption DEF Links, NewTerm

LEMMA LinksWritten ==
    ASSUME NEW c \in Cell, NEW w
    PROVE  /\ \A i \in Fields : Links([c EXCEPT !.slot[i] = w]) \subseteq Links(c) \cup {w}
           /\ Links([c EXCEPT !.type = "Variable", !.set = TRUE, !.slot[1] = w]) \subseteq Links(c) \cup {w}
           /\ Links([c EXCEPT !.set = TRUE]) = Links(c)
  BY DEF Links, Cell

LEMMA OldLinks ==
    ASSUME TypeOK, Sound(Now)
    PROVE  \A a \in Live : Links(mem[a]) \subseteq Live
  BY DEF Sound, LinksIn, LiveIn, Live, Now

LEMMA AllocateKeeps ==
    ASSUME TypeOK, Sound(Now), NEW a \in Addr, NEW term \in Cell, Allocate(a, term),
           Links(term) \subseteq Live, ~Bound(term)
    PROVE  MemoryKept
  <1>1. Written(a, term)
    BY DEF Allocate, Written, Live
  <1>2. QED
    BY <1>1, WrittenKeeps

LEMMA AssignSubtermKeeps ==
    ASSUME TypeOK, Sound(Now), NEW a \in Addr, NEW i \in Fields, NEW subterm \in Addr,
           AssignSubterm(a, i, subterm)
    PROVE  MemoryKept
  <1> DEFINE c == [mem[a] EXCEPT !.slot[i] = subterm]
  <1>1. a \in Live /\ mem[a] \in Cell /\ mem[a].type # "Variable" /\ subterm \in Live
    BY CellTypes DEF AssignSubterm, IsCompound, Compound
  <1>2. c \in Cell /\ c.type = mem[a].type
    BY <1>1, FieldsWritten DEF Words, Cell
  <1>3. mem' = [mem EXCEPT ![a] = c]
    BY <1>1 DEF AssignSubterm, TypeOK
  <1>4. Links(c) \subseteq Live
    <2>1. Links(mem[a]) \subseteq Live
      BY <1>1, OldLinks
    <2>2. Links(c) \subseteq Links(mem[a]) \cup {subterm}
      BY <1>1, LinksWritten, Zenon
    <2>3. QED
      BY <1>1, <2>1, <2>2
  <1> HIDE DEF c
  <1>5. Written(a, c)
    BY <1>1, <1>2, <1>3, <1>4 DEF Written, Bound
  <1>6. QED
    BY <1>2, <1>5, WrittenKeeps

LEMMA RecordInSubstitutionKeeps ==
    ASSUME TypeOK, Sound(Now), NEW unset \in Addr, NEW data \in Addr,
           RecordInSubstitution(unset, data)
    PROVE  MemoryKept
  <1> DEFINE c == [mem[unset] EXCEPT !.type = "Variable", !.set = TRUE, !.slot[1] = data]
  <1>1. /\ unset \in Live /\ mem[unset] \in Cell /\ ~Bound(mem[unset])
        /\ data \in Live /\ ~Bound(mem[data])
    BY CellTypes DEF RecordInSubstitution, IsFollowed
  <1>2. c \in Cell /\ c.slot[1] = data
    <2>1. data \in Words /\ 1 \in Fields
      BY ConstantsAssumption DEF Words, Fields
    <2>2. c \in Cell
      BY <1>1, <2>1, FieldsWritten, Zenon
    <2>3. c.slot[1] = data
      BY <1>1, <2>1 DEF Cell
    <2>4. QED
      BY <2>2, <2>3
  <1>3. mem' = [mem EXCEPT ![unset] = c]
    BY <1>1 DEF RecordInSubstitution, TypeOK
  <1>4. Links(c) \subseteq Live
    <2>1. Links(mem[unset]) \subseteq Live
      BY <1>1, OldLinks
    <2>2. Links(c) \subseteq Links(mem[unset]) \cup {data}
      BY <1>1, LinksWritten, Zenon
    <2>3. QED
      BY <1>1, <2>1, <2>2
  <1> HIDE DEF c
  <1>5. Written(unset, c)
    BY <1>1, <1>2, <1>3, <1>4 DEF Written
  <1>6. QED
    BY <1>2, <1>5, WrittenKeeps

LEMMA SetPtrValueKeeps ==
    ASSUME TypeOK, Sound(Now), NEW p \in Addr, NEW value \in Addr, SetPtrValue(p, value)
    PROVE  MemoryKept
  <1> DEFINE written == [mem[p] EXCEPT !.slot[1] = value]
             c       == [written EXCEPT !.set = TRUE]
  <1>1. p \in Live /\ mem[p] \in Cell /\ mem[p].type = "Ptr" /\ value \in Live /\ 1 \in Fields
    BY CellTypes, ConstantsAssumption DEF SetPtrValue, IsFollowed, Fields
  <1>2. written \in Cell /\ c \in Cell /\ mem' = [mem EXCEPT ![p] = c]
    BY PtrWritten, Zenon
  <1>3. c.type = "Ptr"
    BY <1>1 DEF Cell
  <1>4. Links(c) \subseteq Live
    <2>1. Links(mem[p]) \subseteq Live
      BY <1>1, OldLinks
    <2>2. Links(written) \subseteq Links(mem[p]) \cup {value}
      BY <1>1, LinksWritten, Zenon
    <2> HIDE DEF written
    <2>3. Links(c) = Links(written)
      BY <1>2, LinksWritten, Zenon
    <2>4. QED
      BY <1>1, <2>1, <2>2, <2>3
  <1> HIDE DEF c
  <1>5. Written(p, c)
    BY <1>1, <1>2, <1>3, <1>4 DEF Written, Bound
  <1>6. QED
    BY <1>2, <1>5, WrittenKeeps

LEMMA DeepCopyKeeps ==
    ASSUME TypeOK, Sound(Now), NEW n \in 1..MaxCopy,
           NEW new \in [1..n -> Addr \ Live], NEW src \in [1..n -> Live],
           NEW kid \in [1..n -> [Fields -> 0..n]],
           DeepCopy(new, src, kid)
    PROVE  MemoryKept
  <1> DEFINE Copies == FirstOf(new, n)
  <1>1. n \in Nat /\ Len(new) = n /\ Len(src) = n
    BY ConstantsAssumption, LenOfFunction
  <1>2. new \in [1..n -> Addr] /\ \A j \in 1..n : new[j] \notin Live
    OBVIOUS
  <1>3. \A j \in 1..n : new[j] \in Addr /\ Clone(new, src, kid, j) \in Cell
    BY <1>1, <1>2, CloneType
  <1>4. mem' = Cloned(new, src, kid, n)
    BY <1>1 DEF DeepCopy
  <1>5. LiveIn(mem') = Live \cup Copies
    BY <1>3, <1>4, LiveInCloned, Zenon
  <1>6. \A a \in Addr : a \notin Copies => mem'[a] = mem[a]
    BY <1>4 DEF Cloned, FirstOf
  <1>7. \A a \in Copies : \E j \in 1..n : mem'[a] = Clone(new, src, kid, j)
    <2> SUFFICES ASSUME NEW a \in Copies
                 PROVE  \E j \in 1..n : mem'[a] = Clone(new, src, kid, j)
      OBVIOUS
    <2>1. a \in Addr /\ \E j \in 1..n : new[j] = a
      BY <1>3 DEF FirstOf
    <2>2. (CHOOSE j \in 1..n : new[j] = a) \in 1..n
      BY <2>1
    <2>3. mem'[a] = Clone(new, src, kid, CHOOSE j \in 1..n : new[j] = a)
      BY <1>4, <2>1 DEF Cloned
    <2>4. QED
      BY <2>2, <2>3
  <1>8. ASSUME NEW j \in 1..n
        PROVE  /\ Links(Clone(new, src, kid, j)) \subseteq Live \cup Copies
               /\ ~Bound(Clone(new, src, kid, j))
    <2>1. src[j] \in Live /\ mem[src[j]] \in Cell /\ ~Bound(mem[src[j]])
      BY <1>1, CellTypes DEF DeepCopy, IsFollowed
    <2> DEFINE slot == [i \in Fields |->
                   IF kid[j][i] > 0 THEN new[kid[j][i]]
                   ELSE IF mem[src[j]].type \in Compound THEN Junk ELSE mem[src[j]].slot[i]]
    <2>2. /\ Clone(new, src, kid, j) = [mem[src[j]] EXCEPT !.slot = slot]
          /\ Clone(new, src, kid, j).slot = slot
          /\ Clone(new, src, kid, j).type = mem[src[j]].type
          /\ Clone(new, src, kid, j).set = mem[src[j]].set
      BY <2>1 DEF Clone, Cell
    <2>3. ~Bound(Clone(new, src, kid, j))
      BY <2>1, <2>2 DEF Bound
    <2>4. ASSUME NEW i \in Fields, slot[i] \in Addr
          PROVE  slot[i] \in Live \cup Copies
      <3>1. kid[j][i] \in 0..n
        OBVIOUS
      <3>2. CASE kid[j][i] > 0
        <4>1. kid[j][i] \in 1..n
          BY <1>1, <3>1, <3>2
        <4>2. QED
          BY <3>2, <4>1 DEF FirstOf
      <3>3. CASE ~(kid[j][i] > 0)
        <4>1. slot[i] = mem[src[j]].slot[i]
          BY <2>4, <3>3, ConstantsAssumption
        <4>2. slot[i] \in Links(mem[src[j]])
          BY <2>4, <4>1 DEF Links
        <4>3. QED
          BY <2>1, <4>2, OldLinks
      <3>4. QED
        BY <3>2, <3>3
    <2> HIDE DEF slot
    <2>5. Links(Clone(new, src, kid, j)) \subseteq Live \cup Copies
      BY <2>2, <2>4 DEF Links
    <2>6. QED
      BY <2>3, <2>5
  <1> HIDE DEF Copies
  <1>9. \A a \in Live : a \in Addr /\ a \notin Copies
    BY <1>2 DEF Live, Copies, FirstOf
  <1>10. LinksIn(mem')
    BY <1>5, <1>6, <1>7, <1>8, <1>9, OldLinks DEF LinksIn
  <1>11. ChainsEndIn(mem')
    <2> SUFFICES ASSUME NEW S \in SUBSET {b \in Addr : mem'[b] # Free /\ mem'[b].type = "Variable" /\ mem'[b].set},
                        S # {}
                 PROVE  \E b \in S : mem'[b].slot[1] \in (Addr \ S) \cup {b}
      BY DEF ChainsEndIn
    <2>1. \A b \in S : b \notin Copies /\ mem'[b] = mem[b]
      BY <1>6, <1>7, <1>8 DEF Bound
    <2>2. S \subseteq {b \in Addr : mem[b] # Free /\ mem[b].type = "Variable" /\ mem[b].set}
      BY <2>1
    <2>3. ChainsEndIn(mem)
      BY SoundImplies
    <2>4. QED
      BY <2>1, <2>2, <2>3 DEF ChainsEndIn
  <1>12. Live \subseteq Live'
    BY <1>5 DEF LiveIn, Live
  <1>13. QED
    BY <1>6, <1>9, <1>10, <1>11, <1>12 DEF MemoryKept

LEMMA MutateKeepsMemory ==
    ASSUME TypeOK, Sound(Now), Mutate
    PROVE  MemoryKept
  <1>1. ASSUME NEW a \in Addr, NEW annotated \in Annotations,
               NEW type \in Types \cap {"Int", "Bool", "Ptr"}, NEW set \in BOOLEAN, NEW value \in Words,
               AllocateValue(a, type, annotated, set, value)
        PROVE  MemoryKept
    <2> DEFINE term == NewTerm(type, set, annotated, value)
    <2>1. term \in Cell /\ term.type = type
      BY NewTermType, ConstantsAssumption DEF NewTerm
    <2>2. {value} \cap Addr \subseteq Live
      BY <1>1, ConstantsAssumption DEF AllocateValue
    <2>3. Links(term) \subseteq {value} \cap Addr
      BY NewLinks, Zenon
    <2>4. Allocate(a, term)
      BY <1>1 DEF AllocateValue
    <2> HIDE DEF term
    <2>5. QED
      BY <2>1, <2>2, <2>3, <2>4, AllocateKeeps DEF Bound
  <1>2. ASSUME NEW a \in Addr, NEW annotated \in Annotations, NEW type \in Types \cap Compound,
               AllocateCompound(a, type, annotated)
        PROVE  MemoryKept
    <2> DEFINE term == NewTerm(type, TRUE, annotated, Junk)
    <2>1. term \in Cell /\ term.type = type
      BY NewTermType, ConstantsAssumption DEF NewTerm, Words
    <2>2. Links(term) \subseteq {Junk} \cap Addr
      BY NewLinks, Zenon
    <2>3. Allocate(a, term)
      BY <1>2 DEF AllocateCompound
    <2> HIDE DEF term
    <2>4. QED
      BY <2>1, <2>2, <2>3, AllocateKeeps, ConstantsAssumption DEF Bound, Compound
  <1>3. ASSUME NEW a \in Addr, NEW annotated \in BOOLEAN,
               Allocate(a, NewTerm("Variable", FALSE, annotated, Junk))
        PROVE  MemoryKept
    <2> DEFINE term == NewTerm("Variable", FALSE, annotated, Junk)
    <2>1. term \in Cell /\ ~term.set
      BY NewTermType DEF NewTerm, Words, TypeIds
    <2>2. Links(term) \subseteq {Junk} \cap Addr
      BY NewLinks, Zenon
    <2>3. Allocate(a, term)
      BY <1>3
    <2> HIDE DEF term
    <2>4. QED
      BY <2>1, <2>2, <2>3, AllocateKeeps, ConstantsAssumption DEF Bound
  <1>4. ASSUME NEW a \in Addr, NEW annotated \in Annotations, AllocateVariable(a, annotated)
        PROVE  MemoryKept
    BY <1>3, <1>4, ConstantsAssumption DEF AllocateVariable
  <1>5. ASSUME NEW functions \in FunctionLists, NEW term \in Addr, AddGoal(functions, term)
        PROVE  MemoryKept
    <2>1. mem' = mem /\ Now.mem = mem
      BY <1>5 DEF AddGoal, Now
    <2>2. QED
      BY <2>1 DEF MemoryKept, Sound, Live
  <1>6. ASSUME NEW unusedResult \in Addr, RemoveGoal(unusedResult)
        PROVE  MemoryKept
    <2> DEFINE term == NewTerm("Variable", FALSE, FALSE, Junk)
    <2>1. term \in Cell /\ ~term.set
      BY NewTermType DEF NewTerm, Words, TypeIds
    <2>2. Links(term) \subseteq {Junk} \cap Addr
      BY NewLinks, Zenon
    <2>3. mem' = [mem EXCEPT ![unusedResult] = term] /\ unusedResult \notin Live
      BY <1>6 DEF RemoveGoal, Live
    <2> HIDE DEF term
    <2>4. Written(unusedResult, term)
      BY <2>1, <2>2, <2>3, ConstantsAssumption DEF Written, Bound
    <2>5. QED
      BY <2>1, <2>4, WrittenKeeps
  <1>7. QED
    BY <1>1, <1>2, <1>4, <1>5, <1>6, AssignSubtermKeeps, RecordInSubstitutionKeeps, SetPtrValueKeeps,
       DeepCopyKeeps DEF Mutate

\* The goals that a step leaves are old ones, or refer to a term that exists.
LEMMA MutateKeepsGoals ==
    ASSUME TypeOK, Mutate
    PROVE  \A g \in 1..Len(goals') :
              goals'[g][2] \in Live \/ \E h \in 1..Len(goals) : goals'[g] = goals[h]
  <1>1. goals \in Seq(Goal) /\ Len(goals) \in Nat
    BY DEF TypeOK
  <1>2. ASSUME NEW functions \in FunctionLists, NEW term \in Addr, AddGoal(functions, term),
               NEW g \in 1..Len(goals')
        PROVE  goals'[g][2] \in Live \/ \E h \in 1..Len(goals) : goals'[g] = goals[h]
    <2> DEFINE goal == <<functions, term>>
    <2>1. goal \in Goal /\ goals' = Append(goals, goal) /\ term \in Live /\ goal[2] = term
      BY <1>2 DEF AddGoal, Goal
    <2> HIDE DEF goal
    <2>2. /\ Len(goals') = Len(goals) + 1 /\ goals'[Len(goals) + 1] = goal
          /\ \A h \in 1..Len(goals) : goals'[h] = goals[h]
      BY <1>1, <2>1, AppendProperties
    <2>3. g \in 1..Len(goals) \/ g = Len(goals) + 1
      BY <1>1, <1>2, <2>2
    <2>4. QED
      BY <2>1, <2>2, <2>3
  <1>3. ASSUME NEW unusedResult \in Addr, RemoveGoal(unusedResult), NEW g \in 1..Len(goals')
        PROVE  \E h \in 1..Len(goals) : goals'[g] = goals[h]
    <2>1. Len(goals') = Len(goals) - 1 /\ goals'[g] = goals[g + 1]
      BY <1>1, <1>3, HeadTailProperties DEF RemoveGoal
    <2>2. g + 1 \in 1..Len(goals)
      BY <1>1, <1>3, <2>1
    <2>3. QED
      BY <2>1, <2>2
  <1>4. \/ goals' = goals
        \/ \E functions \in FunctionLists, term \in Addr : AddGoal(functions, term)
        \/ \E unusedResult \in Addr : RemoveGoal(unusedResult)
    BY DEF Mutate, AllocateValue, AllocateCompound, AllocateVariable, Allocate, AssignSubterm,
           RecordInSubstitution, SetPtrValue, DeepCopy
  <1>5. QED
    BY <1>2, <1>3, <1>4

LEMMA MutateKeepsSound ==
    ASSUME TypeOK, Sound(Now), Mutate
    PROVE  Sound(Now')
  <1>1. /\ Now'.mem = mem' /\ Now'.goals = goals' /\ Now.goals = goals
        /\ LiveIn(mem') = Live' /\ LiveIn(Now.mem) = Live
    BY LiveNow DEF Now
  <1>2. MemoryKept
    BY MutateKeepsMemory
  <1>3. \A g \in 1..Len(goals) : goals[g][2] \in Live
    BY <1>1 DEF Sound, GoalsIn
  <1>4. \A g \in 1..Len(goals') : goals'[g][2] \in Live'
    BY <1>2, <1>3, MutateKeepsGoals DEF MemoryKept
  <1>5. QED
    BY <1>1, <1>2, <1>4 DEF Sound, GoalsIn, MemoryKept

----------------------------------------------------------------------------
(* Every step *)

LEMMA MarkFacts ==
    ASSUME IInv
    PROVE  /\ Len(log) \in Nat /\ frames \in Seq(Frame) /\ Len(frames) \in Nat
           /\ \A f \in 1..Len(frames) : frames[f].mark \in 0..Len(log) /\ frames[f].mark <= Top.mark
  <1>1. Len(log) \in Nat /\ frames \in Seq(Frame) /\ Len(frames) \in Nat
    BY DEF IInv, TypeOK
  <1>2. \A f \in 1..Len(frames) : frames[f] \in Frame /\ frames[f].mark \in Nat
    <2>1. \A f \in 1..Len(frames) : frames[f] \in Frame
      BY <1>1
    <2>2. QED
      BY <2>1 DEF Frame
  <1>3. \A f \in 1..Len(frames) : frames[f].mark <= Len(log) /\ frames[f].mark <= Top.mark
    BY <1>1 DEF IInv, MarkersNest, Top
  <1>4. QED
    BY <1>1, <1>2, <1>3

LEMMA AtNextMarks ==
    ASSUME mode' = "run" => Sound(Now'),
           \A f \in 1..Len(frames') : Sound(AtNext(frames'[f].mark))
    PROVE  SoundAtMarks'
  <1>1. mode' = "run" => Sound(Now)'
    BY DEF Now, Sound, LinksIn, GoalsIn, LiveIn, ChainsEndIn
  <1>2. QED
    BY <1>1 DEF SoundAtMarks, At, AtNext, Sound, LinksIn, GoalsIn, LiveIn, ChainsEndIn

\* The frames keep their markers, and the log what it holds up to each of them.
LEMMA SameFrames ==
    ASSUME SoundAtMarks, frames' = frames,
           \A f \in 1..Len(frames) : AtNext(frames[f].mark) = At(frames[f].mark),
           mode' = "run" => Sound(Now')
    PROVE  SoundAtMarks'
  <1>1. \A f \in 1..Len(frames') : Sound(AtNext(frames'[f].mark))
    BY DEF SoundAtMarks
  <1>2. QED
    BY <1>1, AtNextMarks

LEMMA UnloggedFacts ==
    ASSUME Unlogged
    PROVE  Now' = Now /\ \A n : AtNext(n) = At(n)
  BY DEF Unlogged, Now, At, AtNext

LEMMA SoundAtMarksPreserved ==
    ASSUME IInv, SoundAtMarks, [Next]_vars
    PROVE  SoundAtMarks'
  <1>1. TypeOK /\ Len(log) \in Nat
    BY DEF IInv, TypeOK
  <1>2. CASE Mutate
    <2>1. GrowsLog
      BY <1>1, <1>2, MutateGrows
    <2>2. frames' = frames /\ Sound(Now)
      BY <2>1 DEF GrowsLog, Running, SoundAtMarks
    <2>3. \A f \in 1..Len(frames) : AtNext(frames[f].mark) = At(frames[f].mark)
      BY <1>1, <2>1, GrowthFacts, MarkFacts
    <2>4. Sound(Now')
      BY <1>1, <1>2, <2>2, MutateKeepsSound
    <2>5. QED
      BY <2>2, <2>3, <2>4, SameFrames
  <1>3. CASE EnterExport \/ EnterPredicate
    <2>1. PICK kind : Enter(kind)
      BY <1>3 DEF EnterExport, EnterPredicate
    <2> DEFINE frame == [kind |-> kind, mark |-> Len(log)]
    <2>2. Unlogged /\ mode = "run" /\ frames' = Append(frames, frame) /\ frame.mark = Len(log)
      BY <2>1 DEF Enter, Unlogged
    <2> HIDE DEF frame
    <2>3. /\ Len(frames') = Len(frames) + 1 /\ frames'[Len(frames) + 1] = frame
          /\ \A f \in 1..Len(frames) : frames'[f] = frames[f]
      <3>1. frames \in Seq(Frame \cup {frame}) /\ frame \in Frame \cup {frame}
        BY MarkFacts, SeqMonotonic
      <3>2. QED
        BY <2>2, <3>1, AppendProperties
    <2>4. Sound(Now) /\ AtNext(Len(log)) = Now
      BY <1>1, <2>2, UnloggedFacts, LiveNow DEF SoundAtMarks
    <2>5. ASSUME NEW f \in 1..Len(frames')
          PROVE  Sound(AtNext(frames'[f].mark))
      <3>1. f \in 1..Len(frames) \/ f = Len(frames) + 1
        BY <2>3, <2>5, MarkFacts
      <3>2. QED
        BY <2>2, <2>3, <2>4, <3>1, UnloggedFacts DEF SoundAtMarks
    <2>6. Now' = Now
      BY <2>2, UnloggedFacts
    <2>7. QED
      BY <2>4, <2>5, <2>6, AtNextMarks
  <1>4. ASSUME Unlogged, frames # <<>>, frames' = Pop, Sound(Now)
        PROVE  SoundAtMarks'
    <2>1. Len(frames') = Len(frames) - 1 /\ \A f \in 1..Len(frames') : frames'[f] = frames[f]
      BY <1>4, PopFacts, MarkFacts
    <2>2. \A f \in 1..Len(frames') : Sound(AtNext(frames'[f].mark))
      BY <1>4, <2>1, MarkFacts, UnloggedFacts DEF SoundAtMarks
    <2>3. Now' = Now
      BY <1>4, UnloggedFacts
    <2>4. QED
      BY <1>4, <2>2, <2>3, AtNextMarks
  <1>5. CASE ReturnTrue
    BY <1>4, <1>5 DEF ReturnTrue, Running, Unlogged, SoundAtMarks
  <1>6. CASE StartRollback \/ Failed
    <2>1. Unlogged /\ frames' = frames /\ mode' # "run"
      BY <1>6 DEF StartRollback, Failed, Unlogged
    <2>2. QED
      BY <2>1, UnloggedFacts, SameFrames
  <1>7. CASE Revert
    <2>1. frames' = frames /\ mode' # "run"
      BY <1>7 DEF Revert
    <2>2. \A f \in 1..Len(frames) : frames[f].mark \in 0..Len(log')
      <3>1. Len(log') = Len(log) - 1 /\ Top.mark <= Len(log') /\ \A n \in 0..Len(log') : AtNext(n) = At(n)
        BY <1>7, RevertFacts
      <3>2. frames # <<>> => Top.mark \in Nat
        BY MarkFacts, PopFacts DEF Frame
      <3>3. QED
        BY <1>1, <3>1, <3>2, MarkFacts
    <2>3. \A f \in 1..Len(frames) : AtNext(frames[f].mark) = At(frames[f].mark)
      BY <1>7, <2>2, RevertFacts
    <2>4. QED
      BY <2>1, <2>3, SameFrames
  <1>8. CASE EndRollback
    <2>1. Unlogged /\ frames # <<>> /\ (frames' = Pop \/ frames' = frames)
      BY <1>8 DEF EndRollback, Unlogged, IInv, MarkersNest
    <2>2. Top.mark = Len(log) /\ Len(frames) \in 1..Len(frames)
      <3>1. Len(frames) \in 1..Len(frames) /\ Top.mark \in 0..Len(log)
        BY <2>1, MarkFacts DEF Top
      <3>2. QED
        BY <1>1, <1>8, <3>1 DEF EndRollback, AboveMarker
    <2>3. Sound(Now)
      BY <1>1, <2>2, LiveNow DEF SoundAtMarks, Top
    <2>4. CASE frames' = Pop
      BY <1>4, <2>1, <2>3, <2>4
    <2>5. CASE frames' = frames
      BY <2>1, <2>3, <2>5, UnloggedFacts, SameFrames
    <2>6. QED
      BY <2>1, <2>4, <2>5
  <1>9. CASE Aborted \/ UNCHANGED vars
    <2>1. Unlogged /\ frames' = frames /\ mode' = mode
      BY <1>9 DEF Aborted, vars, Unlogged
    <2>2. mode' = "run" => Sound(Now')
      BY <2>1, UnloggedFacts DEF SoundAtMarks
    <2>3. QED
      BY <2>1, <2>2, UnloggedFacts, SameFrames
  <1>10. QED
    BY <1>2, <1>3, <1>5, <1>6, <1>7, <1>8, <1>9 DEF Next

LEMMA InitSound == Init => SoundAtMarks
  <1> SUFFICES ASSUME Init PROVE SoundAtMarks
    OBVIOUS
  <1>1. LiveIn(mem) = {} /\ Len(goals) = 0 /\ Len(frames) = 0
    BY DEF Init, LiveIn
  <1>2. LinksIn(mem) /\ GoalsIn(Now)
    BY <1>1 DEF LinksIn, GoalsIn, Now
  <1>3. ChainsEndIn(mem)
    BY <1>1 DEF ChainsEndIn, LiveIn
  <1>4. QED
    BY <1>1, <1>2, <1>3 DEF SoundAtMarks, Sound, Now

\* The inductive invariant: outside a rollback, and at every marker that a rollback
\* may go back to, the terms are sound.
THEOREM MarksSound == Spec => [](IInv /\ SoundAtMarks)
  <1>1. IInv /\ SoundAtMarks /\ [Next]_vars => SoundAtMarks'
    BY SoundAtMarksPreserved
  <1>2. QED
    BY <1>1, InitSound, Invariance, PTL DEF Spec

\* Whatever failed and was rolled back, the program never refers to freed memory.
THEOREM NothingDangles == Spec => []NoDangling
  <1>1. IInv /\ SoundAtMarks => NoDangling
    BY SoundImplies DEF IInv, SoundAtMarks, NoDangling
  <1>2. QED
    BY <1>1, MarksSound, PTL

\* followSetVars terminates, but for terms that were bound to themselves.
THEOREM EveryChainEnds == Spec => []ChainsEnd
  <1>1. IInv /\ SoundAtMarks => ChainsEnd
    BY SoundImplies DEF IInv, SoundAtMarks, ChainsEnd
  <1>2. QED
    BY <1>1, MarksSound, PTL

\* Nothing but a rollback undoes a binding.
THEOREM BindingsStay == Spec => BindingsLast
  <1>1. ASSUME IInv, SoundAtMarks, [Next]_vars, mode = "run"
        PROVE  \A a \in Live : Bound(mem[a]) => mem'[a] = mem[a]
    <2>1. CASE Mutate
      <3>1. TypeOK /\ Sound(Now)
        BY <1>1 DEF IInv, SoundAtMarks
      <3>2. QED
        BY <2>1, <3>1, MutateKeepsMemory DEF MemoryKept
    <2>2. CASE ~Mutate
      <3>1. mem' = mem
        BY <1>1, <2>2 DEF Next, EnterExport, EnterPredicate, Enter, ReturnTrue, StartRollback, Revert,
                          EndRollback, Failed, Aborted, vars
      <3>2. QED
        BY <3>1
    <2>3. QED
      BY <2>1, <2>2
  <1>2. IInv /\ SoundAtMarks /\ [Next]_vars
        => [mode = "run" => \A a \in Live : Bound(mem[a]) => mem'[a] = mem[a]]_vars
    BY <1>1
  <1>3. QED
    BY <1>2, MarksSound, PTL DEF Spec, BindingsLast

=============================================================================
