---------------------------- MODULE SldLogProofs ----------------------------
(***************************************************************************)
(* Proofs about SldLog, for every heap, every program and every depth of   *)
(* nesting.  The argument: every change of the state pushes entries, each  *)
(* of which undoes its part of the change (GrowsLog, lemma MutateGrows).   *)
(* So the log is a chain from the current state back to the state at any   *)
(* marker (LogIsExact), and a rollback, which follows the chain, ends in   *)
(* that state (Backtracks).                                                *)
(***************************************************************************)
EXTENDS SldLog, SequenceTheorems, TLAPS

\* Pushing `entries' undoes the change of this step: entry by entry, from the
\* state after the step back to the state before it.
Undoes(entries, before) ==
    LET after(n) == IF n < Len(entries) THEN before[n + 1] ELSE Now' IN
    /\ after(0) = Now
    /\ \A n \in 1..Len(entries) :
          /\ RevertMem(entries[n], after(n).mem) = after(n - 1).mem
          /\ RevertGoals(entries[n], after(n).goals) = after(n - 1).goals

\* What all actions of Mutate have in common.
GrowsLog ==
    /\ Running
    /\ Now' \in Snapshot
    /\ UNCHANGED <<frames, mode>>
    /\ \E entries \in Seq(Entry), before \in Seq(Snapshot) :
          /\ Len(entries) = Len(before) /\ Len(entries) > 0
          /\ Push(entries, before)
          /\ Undoes(entries, before)

LEMMA CellTypes ==
    ASSUME TypeOK
    PROVE  /\ \A a \in Live : mem[a] \in Cell
           /\ Now \in Snapshot
           /\ Live \subseteq Addr
  BY ConstantsAssumption DEF TypeOK, Live, Now, Snapshot

LEMMA OneEntry ==
    ASSUME TypeOK, Running, Now' \in Snapshot, UNCHANGED <<frames, mode>>,
           NEW e \in Entry, Push(<<e>>, <<Now>>),
           RevertMem(e, mem') = mem, RevertGoals(e, goals') = goals
    PROVE  GrowsLog
  <1> DEFINE entries == <<e>>
             before  == <<Now>>
  <1>1. Now \in Snapshot
    BY CellTypes
  <1>2. entries \in Seq(Entry) /\ before \in Seq(Snapshot)
    BY <1>1
  <1>3. Len(entries) = 1 /\ Len(before) = 1 /\ entries[1] = e /\ before[1] = Now
    OBVIOUS
  <1>4. Now.mem = mem /\ Now.goals = goals /\ Now'.mem = mem' /\ Now'.goals = goals'
    BY DEF Now
  <1>5. Undoes(entries, before)
    BY <1>3, <1>4 DEF Undoes
  <1> HIDE DEF entries, before
  <1>6. Push(entries, before)
    BY DEF entries, before
  <1>7. Len(entries) = Len(before) /\ Len(entries) > 0
    BY <1>3
  <1>8. QED
    BY <1>2, <1>5, <1>6, <1>7, Zenon DEF GrowsLog

LEMMA TwoEntries ==
    ASSUME TypeOK, Running, Now' \in Snapshot, UNCHANGED <<frames, mode>>,
           NEW e \in Entry, NEW f \in Entry, NEW between \in Snapshot,
           Push(<<e, f>>, <<Now, between>>),
           RevertMem(e, between.mem) = mem, RevertGoals(e, between.goals) = goals,
           RevertMem(f, mem') = between.mem, RevertGoals(f, goals') = between.goals
    PROVE  GrowsLog
  <1> DEFINE entries == <<e, f>>
             before  == <<Now, between>>
  <1>1. Now \in Snapshot
    BY CellTypes
  <1>2. entries \in Seq(Entry) /\ before \in Seq(Snapshot)
    BY <1>1
  <1>3. /\ Len(entries) = 2 /\ Len(before) = 2
        /\ entries[1] = e /\ entries[2] = f /\ before[1] = Now /\ before[2] = between
    OBVIOUS
  <1>4. Now.mem = mem /\ Now.goals = goals /\ Now'.mem = mem' /\ Now'.goals = goals'
    BY DEF Now
  <1>5. Undoes(entries, before)
    <2> DEFINE after(n) == IF n < Len(entries) THEN before[n + 1] ELSE Now'
    <2>1. after(0) = Now /\ after(1) = between /\ after(2) = Now'
      BY <1>3
    <2> HIDE DEF after
    <2>2. ASSUME NEW n \in 1..Len(entries)
          PROVE  /\ RevertMem(entries[n], after(n).mem) = after(n - 1).mem
                 /\ RevertGoals(entries[n], after(n).goals) = after(n - 1).goals
      <3>1. CASE n = 1
        BY <3>1, <2>1, <1>3, <1>4
      <3>2. CASE n = 2
        BY <3>2, <2>1, <1>3, <1>4
      <3>3. QED
        BY <3>1, <3>2, <1>3
    <2>3. QED
      BY <2>1, <2>2 DEF Undoes, after
  <1> HIDE DEF entries, before
  <1>6. Push(entries, before)
    BY DEF entries, before
  <1>7. Len(entries) = Len(before) /\ Len(entries) > 0
    BY <1>3
  <1>8. QED
    BY <1>2, <1>5, <1>6, <1>7, Zenon DEF GrowsLog

LEMMA NewTermType ==
    ASSUME NEW type \in TypeIds, NEW set \in BOOLEAN, NEW annotated \in BOOLEAN, NEW value \in Words
    PROVE  NewTerm(type, set, annotated, value) \in Cell
  BY DEF NewTerm, Cell, Words

LEMMA AllocateGrows ==
    ASSUME TypeOK, NEW a \in Addr, NEW term \in Cell, Allocate(a, term)
    PROVE  GrowsLog
  <1> DEFINE e == AllocateEntry(a)
  <1>1. e \in Entry /\ e.op = "AllocateMemory" /\ e.at = a
    BY DEF AllocateEntry, Entry
  <1>2. mem' \in [Addr -> Cell \cup {Free}] /\ goals' = goals /\ goals \in Seq(Goal)
    BY DEF Allocate, TypeOK
  <1>3. Now' \in Snapshot
    BY <1>2 DEF Now, Snapshot
  <1>4. RevertMem(e, mem') = Freed(mem', a)
    BY <1>1 DEF RevertMem
  <1>5. Freed(mem', a) = mem
    BY DEF Allocate, TypeOK, Freed
  <1>6. RevertGoals(e, goals') = goals
    BY <1>1, <1>2 DEF RevertGoals
  <1>7. Running /\ UNCHANGED <<frames, mode>> /\ Push(<<e>>, <<Now>>)
    BY DEF Allocate
  <1> HIDE DEF e
  <1>8. QED
    BY <1>1, <1>3, <1>4, <1>5, <1>6, <1>7, OneEntry

LEMMA WordWritten ==
    ASSUME TypeOK, NEW a \in Live, NEW i \in Fields, NEW w \in Words
    PROVE  [mem EXCEPT ![a].slot[i] = w] \in [Addr -> Cell \cup {Free}]
  BY CellTypes DEF TypeOK, Cell

LEMMA AssignSubtermGrows ==
    ASSUME TypeOK, NEW a \in Addr, NEW i \in Fields, NEW subterm \in Addr,
           AssignSubterm(a, i, subterm)
    PROVE  GrowsLog
  <1> DEFINE e == WordEntry(a, i)
  <1>0. a \in Live /\ mem[a] \in Cell /\ mem[a].slot \in [Fields -> Words]
    BY CellTypes DEF AssignSubterm, IsCompound, Cell
  <1>1. /\ e \in Entry /\ e.op = "ReplaceWord"
        /\ e.at = a /\ e.index = i /\ e.old = mem[a].slot[i]
    BY <1>0 DEF WordEntry, Entry
  <1>2. mem' \in [Addr -> Cell \cup {Free}] /\ goals' = goals /\ goals \in Seq(Goal)
    BY <1>0, WordWritten DEF AssignSubterm, TypeOK, Words
  <1>3. Now' \in Snapshot
    BY <1>2 DEF Now, Snapshot
  <1>4. RevertMem(e, mem') = [mem' EXCEPT ![a].slot[i] = mem[a].slot[i]]
    BY <1>1 DEF RevertMem
  <1>5. [mem' EXCEPT ![a].slot[i] = mem[a].slot[i]] = mem
    <2>1. mem' = [mem EXCEPT ![a].slot[i] = subterm]
      BY DEF AssignSubterm
    <2>2. mem \in [Addr -> Cell \cup {Free}]
      BY DEF TypeOK
    <2>3. QED
      BY <2>1, <2>2, <1>0 DEF Cell
  <1>6. RevertGoals(e, goals') = goals
    BY <1>1, <1>2 DEF RevertGoals
  <1>7. Running /\ UNCHANGED <<frames, mode>> /\ Push(<<e>>, <<Now>>)
    BY DEF AssignSubterm
  <1> HIDE DEF e
  <1>8. QED
    BY <1>1, <1>3, <1>4, <1>5, <1>6, <1>7, OneEntry

LEMMA RecordInSubstitutionGrows ==
    ASSUME TypeOK, NEW unset \in Addr, NEW data \in Addr, RecordInSubstitution(unset, data)
    PROVE  GrowsLog
  <1> DEFINE e == RegionEntry(unset)
  <1>0. unset \in Live /\ mem[unset] \in Cell
    BY CellTypes DEF RecordInSubstitution, IsFollowed
  <1>1. e \in Entry /\ e.op = "ReplaceMemoryRegion" /\ e.at = unset /\ e.old = mem[unset]
    BY <1>0 DEF RegionEntry, Entry
  <1>a. mem' = [mem EXCEPT ![unset].type = "Variable", ![unset].set = TRUE,
                           ![unset].slot[1] = data]
    BY DEF RecordInSubstitution
  <1>b. mem \in [Addr -> Cell \cup {Free}] /\ goals' = goals /\ goals \in Seq(Goal)
    BY DEF RecordInSubstitution, TypeOK
  <1>2. mem' \in [Addr -> Cell \cup {Free}]
    <2>1. [mem[unset] EXCEPT !.type = "Variable", !.set = TRUE, !.slot[1] = data] \in Cell
      BY <1>0 DEF Cell, TypeIds, Words
    <2>2. mem' = [mem EXCEPT ![unset] =
                    [mem[unset] EXCEPT !.type = "Variable", !.set = TRUE, !.slot[1] = data]]
      BY <1>a, <1>b, <1>0
    <2>3. QED
      BY <2>1, <2>2, <1>b
  <1>3. Now' \in Snapshot
    BY <1>2, <1>b DEF Now, Snapshot
  <1>4. RevertMem(e, mem') = [mem' EXCEPT ![unset] = mem[unset]]
    BY <1>1 DEF RevertMem
  <1>5. [mem' EXCEPT ![unset] = mem[unset]] = mem
    BY <1>a, <1>b, <1>0
  <1>6. RevertGoals(e, goals') = goals
    BY <1>1, <1>b DEF RevertGoals
  <1>7. Running /\ UNCHANGED <<frames, mode>> /\ Push(<<e>>, <<Now>>)
    BY DEF RecordInSubstitution
  <1> HIDE DEF e
  <1>8. QED
    BY <1>1, <1>3, <1>4, <1>5, <1>6, <1>7, OneEntry

LEMMA AddGoalGrows ==
    ASSUME TypeOK, NEW functions \in FunctionLists, NEW term \in Addr, AddGoal(functions, term)
    PROVE  GrowsLog
  <1> DEFINE e == [op |-> "AddGoal"]
  <1>1. e \in Entry /\ e.op = "AddGoal"
    BY DEF Entry
  <1>2. <<functions, term>> \in Goal /\ goals \in Seq(Goal) /\ goals' = Append(goals, <<functions, term>>)
    BY DEF AddGoal, TypeOK, Goal
  <1>3. mem \in [Addr -> Cell \cup {Free}] /\ mem' = mem
    BY DEF AddGoal, TypeOK
  <1>4. Now' \in Snapshot
    BY <1>2, <1>3 DEF Now, Snapshot
  <1>5. RevertMem(e, mem') = mem
    BY <1>1, <1>3 DEF RevertMem
  <1>6. RevertGoals(e, goals') = SubSeq(goals', 1, Len(goals') - 1)
    BY <1>1 DEF RevertGoals
  <1>7. SubSeq(goals', 1, Len(goals') - 1) = goals
    BY <1>2, AppendProperties, SubSeqProperties, SeqEqual
  <1>8. Running /\ UNCHANGED <<frames, mode>> /\ Push(<<e>>, <<Now>>)
    BY DEF AddGoal
  <1> HIDE DEF e
  <1>9. QED
    BY <1>1, <1>4, <1>5, <1>6, <1>7, <1>8, OneEntry

LEMMA SetPtrValueGrows ==
    ASSUME TypeOK, NEW p \in Addr, NEW value \in Addr, SetPtrValue(p, value)
    PROVE  GrowsLog
  <1> DEFINE written == [mem EXCEPT ![p].slot[1] = value]
             between == [mem |-> written, goals |-> goals]
             e == WordEntry(p, 1)
             f == TypeByteEntry(p)
  <1>0. p \in Live /\ mem[p] \in Cell /\ 1 \in Fields /\ Running /\ UNCHANGED <<goals, frames, mode>>
    BY CellTypes, ConstantsAssumption DEF SetPtrValue, IsFollowed, Fields
  <1>1. mem \in [Addr -> Cell \cup {Free}] /\ goals' = goals /\ goals \in Seq(Goal)
    BY <1>0 DEF TypeOK
  <1>2. written \in [Addr -> Cell \cup {Free}]
    BY <1>0, WordWritten DEF Words
  <1>3. mem' = [written EXCEPT ![p].set = TRUE]
    BY DEF SetPtrValue
  <1>4. written[p] \in Cell /\ written[p].set = mem[p].set
    BY <1>0, <1>1 DEF Cell, Words
  <1>5. mem' \in [Addr -> Cell \cup {Free}]
    BY <1>2, <1>3, <1>4 DEF Cell
  <1>6. Now' \in Snapshot /\ between \in Snapshot
    BY <1>1, <1>2, <1>5 DEF Now, Snapshot
  <1>7. /\ e \in Entry /\ e.op = "ReplaceWord"
        /\ e.at = p /\ e.index = 1 /\ e.old = mem[p].slot[1]
    BY <1>0 DEF WordEntry, Entry, Cell
  <1>8. f \in Entry /\ f.op = "ReplaceTypeByte" /\ f.at = p /\ f.old = mem[p].set
    BY <1>0 DEF TypeByteEntry, Entry, Cell
  <1>9. /\ \A m : RevertMem(e, m) = [m EXCEPT ![p].slot[1] = mem[p].slot[1]]
        /\ \A m : RevertMem(f, m) = [m EXCEPT ![p].set = mem[p].set]
        /\ RevertGoals(e, goals') = goals /\ RevertGoals(f, goals') = goals
    BY <1>1, <1>7, <1>8 DEF RevertMem, RevertGoals
  <1>10. [written EXCEPT ![p].slot[1] = mem[p].slot[1]] = mem
    BY <1>0, <1>1 DEF Cell
  <1>11. [mem' EXCEPT ![p].set = mem[p].set] = written
    BY <1>2, <1>3, <1>4 DEF Cell
  <1>12. CASE mem[p].set
    <2>1. mem' = written
      BY <1>2, <1>3, <1>4, <1>12 DEF Cell
    <2>2. Push(<<e>>, <<Now>>)
      BY <1>12 DEF SetPtrValue
    <2>3. RevertMem(e, mem') = mem
      BY <2>1, <1>9, <1>10
    <2> HIDE DEF e, written
    <2>4. QED
      BY <1>0, <1>6, <1>7, <1>9, <2>2, <2>3, OneEntry
  <1>13. CASE ~mem[p].set
    <2>1. Push(<<e, f>>, <<Now, between>>)
      BY <1>13 DEF SetPtrValue
    <2>2. between.mem = written /\ between.goals = goals
      OBVIOUS
    <2>3. RevertMem(e, between.mem) = mem /\ RevertGoals(e, between.goals) = goals
      BY <1>1, <1>9, <1>10, <2>2
    <2>4. RevertMem(f, mem') = between.mem /\ RevertGoals(f, goals') = between.goals
      BY <1>1, <1>9, <1>11, <2>2
    <2> HIDE DEF e, f, between
    <2>5. QED
      BY <1>0, <1>6, <1>7, <1>8, <2>1, <2>3, <2>4, TwoEntries
  <1>14. QED
    BY <1>12, <1>13

LEMMA RemoveGoalGrows ==
    ASSUME TypeOK, NEW unusedResult \in Addr, RemoveGoal(unusedResult)
    PROVE  GrowsLog
  <1> DEFINE between == [mem |-> mem, goals |-> Tail(goals)]
             e == [op |-> "RemoveGoal", goal |-> Head(goals)]
             f == AllocateEntry(unusedResult)
  <1>1. /\ mem \in [Addr -> Cell \cup {Free}] /\ goals \in Seq(Goal) /\ goals # <<>>
        /\ goals' = Tail(goals) /\ mem[unusedResult] = Free
    BY DEF RemoveGoal, TypeOK
  <1>2. Head(goals) \in Goal /\ Tail(goals) \in Seq(Goal) /\ <<Head(goals)>> \o Tail(goals) = goals
    BY <1>1, HeadTailProperties
  <1>3. NewTerm("Variable", FALSE, FALSE, Junk) \in Cell
    BY NewTermType DEF TypeIds, Words
  <1>4. Now' \in Snapshot /\ between \in Snapshot
    BY <1>1, <1>2, <1>3 DEF Now, Snapshot, RemoveGoal
  <1>5. e \in Entry /\ e.op = "RemoveGoal" /\ e.goal = Head(goals)
    BY <1>2 DEF Entry
  <1>6. f \in Entry /\ f.op = "AllocateMemory" /\ f.at = unusedResult
    BY DEF AllocateEntry, Entry
  <1>7. between.mem = mem /\ between.goals = Tail(goals)
    OBVIOUS
  <1>8. RevertMem(e, between.mem) = mem /\ RevertGoals(e, between.goals) = goals
    BY <1>2, <1>5, <1>7 DEF RevertMem, RevertGoals
  <1>9. RevertMem(f, mem') = between.mem /\ RevertGoals(f, goals') = between.goals
    <2>1. RevertMem(f, mem') = Freed(mem', unusedResult)
      BY <1>6 DEF RevertMem
    <2>2. Freed(mem', unusedResult) = mem
      BY <1>1 DEF RemoveGoal, Freed
    <2>3. RevertGoals(f, goals') = goals'
      BY <1>6 DEF RevertGoals
    <2>4. QED
      BY <2>1, <2>2, <2>3, <1>1, <1>7
  <1>10. Running /\ UNCHANGED <<frames, mode>> /\ Push(<<e, f>>, <<Now, between>>)
    BY DEF RemoveGoal
  <1> HIDE DEF e, f, between
  <1>11. QED
    BY <1>4, <1>5, <1>6, <1>8, <1>9, <1>10, TwoEntries

LEMMA LenOfFunction ==
    ASSUME NEW S, NEW n \in Nat, NEW f \in [1..n -> S]
    PROVE  f \in Seq(S) /\ Len(f) = n
  <1>1. f \in Seq(S)
    BY SeqDef
  <1>2. DOMAIN f = 1..Len(f) /\ DOMAIN f = 1..n /\ Len(f) \in Nat
    BY <1>1, LenProperties
  <1>3. QED
    BY <1>1, <1>2

LEMMA CloneType ==
    ASSUME TypeOK, NEW n \in Nat,
           NEW new \in [1..n -> Addr], NEW src \in [1..n -> Live],
           NEW kid \in [1..n -> [Fields -> 0..n]], NEW j \in 1..n
    PROVE  Clone(new, src, kid, j) \in Cell
  <1>1. mem[src[j]] \in Cell
    BY CellTypes
  <1>2. \A i \in Fields : kid[j][i] \in 0..n /\ (kid[j][i] > 0 => new[kid[j][i]] \in Words)
    BY DEF Words
  <1>3. [i \in Fields |-> IF kid[j][i] > 0 THEN new[kid[j][i]]
                          ELSE IF mem[src[j]].type \in Compound THEN Junk
                               ELSE mem[src[j]].slot[i]] \in [Fields -> Words]
    BY <1>1, <1>2 DEF Cell, Words
  <1>4. QED
    BY <1>1, <1>3 DEF Clone, Cell

LEMMA ClonedType ==
    ASSUME TypeOK, NEW n \in Nat,
           NEW new \in [1..n -> Addr], NEW src \in [1..n -> Live],
           NEW kid \in [1..n -> [Fields -> 0..n]], NEW k \in 0..n
    PROVE  Cloned(new, src, kid, k) \in [Addr -> Cell \cup {Free}]
  <1> SUFFICES ASSUME NEW a \in Addr
               PROVE  Cloned(new, src, kid, k)[a] \in Cell \cup {Free}
    BY DEF Cloned
  <1>1. CASE \E j \in 1..k : new[j] = a
    <2>1. (CHOOSE j \in 1..k : new[j] = a) \in 1..k
      BY <1>1, Zenon
    <2>2. 1..k \subseteq 1..n
      OBVIOUS
    <2>3. \A j \in 1..n : Clone(new, src, kid, j) \in Cell
      BY CloneType
    <2>4. QED
      BY <1>1, <2>1, <2>2, <2>3 DEF Cloned
  <1>2. CASE ~ \E j \in 1..k : new[j] = a
    BY <1>2 DEF Cloned, TypeOK
  <1>3. QED
    BY <1>1, <1>2

\* The copies come into being one by one: freeing the k-th leads back to the
\* heap with the first k - 1 of them.
LEMMA DeepCopyGrows ==
    ASSUME TypeOK, NEW n \in 1..MaxCopy,
           NEW new \in [1..n -> Addr \ Live], NEW src \in [1..n -> Live],
           NEW kid \in [1..n -> [Fields -> 0..n]],
           DeepCopy(new, src, kid)
    PROVE  GrowsLog
  <1> DEFINE Heap(k) == Cloned(new, src, kid, k)
             entries == [j \in 1..Len(new) |-> AllocateEntry(new[j])]
             before  == [j \in 1..Len(new) |-> [mem |-> Heap(j - 1), goals |-> goals]]
  <1>1. n \in Nat /\ n > 0 /\ Len(new) = n
    <2>1. n \in Nat /\ n > 0
      BY ConstantsAssumption
    <2>2. QED
      BY <2>1, LenOfFunction
  <1>2. mem \in [Addr -> Cell \cup {Free}] /\ goals \in Seq(Goal) /\ goals' = goals
    BY DEF TypeOK, DeepCopy
  <1>3. \A j \in 1..n : new[j] \in Addr /\ mem[new[j]] = Free
    BY DEF Live
  <1>4. \A j, k \in 1..n : new[j] = new[k] => j = k
    BY <1>1 DEF DeepCopy
  <1>5. \A j \in 1..n : Clone(new, src, kid, j) \in Cell
    BY <1>1, <1>3, CloneType
  <1>6. \A k \in 0..n : Heap(k) \in [Addr -> Cell \cup {Free}]
    BY <1>1, <1>3, ClonedType
  <1>7. Heap(0) = mem
    BY <1>2 DEF Cloned
  <1>8. ASSUME NEW k \in 1..n
        PROVE  Freed(Heap(k), new[k]) = Heap(k - 1)
    <2>1. k \in 0..n /\ k - 1 \in 0..n /\ k - 1 \in Nat
      BY <1>1
    <2>2. ASSUME NEW a \in Addr, a # new[k]
          PROVE  Heap(k)[a] = Heap(k - 1)[a]
      <3>1. CASE \E j \in 1..(k - 1) : new[j] = a
        <4>1. PICK j \in 1..(k - 1) : new[j] = a
          BY <3>1
        <4>2. (CHOOSE i \in 1..k : new[i] = a) = j
          BY <4>1, <1>1, <1>4
        <4>3. (CHOOSE i \in 1..(k - 1) : new[i] = a) = j
          BY <4>1, <1>1, <1>4
        <4>4. \E i \in 1..k : new[i] = a
          BY <4>1, <1>1
        <4>5. QED
          BY <3>1, <4>2, <4>3, <4>4 DEF Cloned
      <3>2. CASE ~ \E j \in 1..(k - 1) : new[j] = a
        <4>1. ~ \E j \in 1..k : new[j] = a
          BY <3>2, <2>2, <1>1
        <4>2. QED
          BY <3>2, <4>1 DEF Cloned
      <3>3. QED
        BY <3>1, <3>2
    <2>3. Heap(k - 1)[new[k]] = Free
      <3>1. ~ \E j \in 1..(k - 1) : new[j] = new[k]
        BY <1>1, <1>4
      <3>2. QED
        BY <3>1, <1>3 DEF Cloned
    <2>4. Heap(k) \in [Addr -> Cell \cup {Free}] /\ Heap(k - 1) \in [Addr -> Cell \cup {Free}]
      BY <1>6, <2>1
    <2> HIDE DEF Heap
    <2>5. QED
      BY <2>2, <2>3, <2>4, <1>3 DEF Freed
  <1>9. mem' = Heap(n)
    BY <1>1 DEF DeepCopy
  <1>10. Push(entries, before)
    BY DEF DeepCopy
  <1>11. Running /\ UNCHANGED <<frames, mode>>
    BY DEF DeepCopy
  <1> HIDE DEF Heap
  <1>12. /\ entries \in Seq(Entry) /\ Len(entries) = n
         /\ \A j \in 1..n : entries[j] = AllocateEntry(new[j])
    <2>1. \A j \in 1..n : AllocateEntry(new[j]) \in Entry
      BY <1>3 DEF AllocateEntry, Entry
    <2>2. entries \in [1..n -> Entry]
      BY <2>1, <1>1
    <2>3. QED
      BY <2>2, <1>1, LenOfFunction
  <1>13. /\ before \in Seq(Snapshot) /\ Len(before) = n
         /\ \A j \in 1..n : before[j] = [mem |-> Heap(j - 1), goals |-> goals]
    <2>1. \A j \in 1..n : [mem |-> Heap(j - 1), goals |-> goals] \in Snapshot
      BY <1>1, <1>2, <1>6 DEF Snapshot
    <2>2. before \in [1..n -> Snapshot]
      BY <2>1, <1>1
    <2>3. QED
      BY <2>2, <1>1, LenOfFunction
  <1> HIDE DEF entries, before
  <1>14. Now' = [mem |-> Heap(n), goals |-> goals] /\ Now = [mem |-> Heap(0), goals |-> goals]
    BY <1>2, <1>7, <1>9 DEF Now
  <1>15. Now' \in Snapshot
    BY <1>1, <1>2, <1>6, <1>14 DEF Snapshot
  <1>16. Undoes(entries, before)
    <2> DEFINE after(k) == IF k < Len(entries) THEN before[k + 1] ELSE Now'
    <2>1. \A k \in 0..n : after(k) = [mem |-> Heap(k), goals |-> goals]
      BY <1>1, <1>12, <1>13, <1>14
    <2> HIDE DEF after
    <2>2. after(0) = Now
      BY <2>1, <1>1, <1>14
    <2>3. ASSUME NEW k \in 1..n
          PROVE  /\ RevertMem(entries[k], after(k).mem) = after(k - 1).mem
                 /\ RevertGoals(entries[k], after(k).goals) = after(k - 1).goals
      <3>1. entries[k].op = "AllocateMemory" /\ entries[k].at = new[k]
        BY <1>12 DEF AllocateEntry
      <3>2. /\ after(k).mem = Heap(k) /\ after(k).goals = goals
            /\ after(k - 1).mem = Heap(k - 1) /\ after(k - 1).goals = goals
        BY <2>1, <1>1
      <3>3. RevertMem(entries[k], Heap(k)) = Heap(k - 1)
        BY <3>1, <1>8 DEF RevertMem
      <3>4. QED
        BY <3>1, <3>2, <3>3 DEF RevertGoals
    <2>4. QED
      BY <2>2, <2>3, <1>12 DEF Undoes, after
  <1>17. Len(entries) = Len(before) /\ Len(entries) > 0
    BY <1>1, <1>12, <1>13
  <1>18. entries \in Seq(Entry) /\ before \in Seq(Snapshot)
    BY <1>12, <1>13
  <1>19. QED
    BY <1>10, <1>11, <1>15, <1>16, <1>17, <1>18, Zenon DEF GrowsLog

LEMMA MutateGrows ==
    ASSUME TypeOK, Mutate
    PROVE  GrowsLog
  <1>1. ASSUME NEW a \in Addr, NEW annotated \in Annotations,
               NEW type \in Types \cap {"Int", "Bool", "Ptr"}, NEW set \in BOOLEAN, NEW value \in Words,
               AllocateValue(a, type, annotated, set, value)
        PROVE  GrowsLog
    <2>1. NewTerm(type, set, annotated, value) \in Cell
      BY NewTermType, ConstantsAssumption
    <2>2. QED
      BY <1>1, <2>1, AllocateGrows DEF AllocateValue
  <1>2. ASSUME NEW a \in Addr, NEW annotated \in Annotations, NEW type \in Types \cap Compound,
               AllocateCompound(a, type, annotated)
        PROVE  GrowsLog
    <2>1. NewTerm(type, TRUE, annotated, Junk) \in Cell
      BY NewTermType, ConstantsAssumption DEF Words
    <2>2. QED
      BY <1>2, <2>1, AllocateGrows DEF AllocateCompound
  <1>3. ASSUME NEW a \in Addr, NEW annotated \in Annotations, AllocateVariable(a, annotated)
        PROVE  GrowsLog
    <2>1. NewTerm("Variable", FALSE, annotated, Junk) \in Cell
      BY NewTermType, ConstantsAssumption DEF Words, TypeIds
    <2>2. QED
      BY <1>3, <2>1, AllocateGrows DEF AllocateVariable
  <1>4. QED
    BY <1>1, <1>2, <1>3, AssignSubtermGrows, RecordInSubstitutionGrows, SetPtrValueGrows,
       DeepCopyGrows, AddGoalGrows, RemoveGoalGrows DEF Mutate

-----------------------------------------------------------------------------
(***************************************************************************)
(* Types                                                                   *)
(***************************************************************************)
\* At, after the step.
AtNext(n) == IF n < Len(log') THEN hist'[n + 1] ELSE Now'

\* What Push appends: the entries, and the states after each of them.
LEMMA PushFacts ==
    ASSUME TypeOK, NEW entries \in Seq(Entry), NEW before \in Seq(Snapshot),
           Len(entries) = Len(before), Push(entries, before)
    PROVE  /\ log' \in Seq(Entry) /\ Len(log') = Len(log) + Len(entries)
           /\ \A n \in 1..Len(log') :
                 log'[n] = IF n <= Len(log) THEN log[n] ELSE entries[n - Len(log)]
           /\ hist' \in Seq(Snapshot) /\ Len(hist') = Len(log')
           /\ \A n \in 1..Len(log') :
                 hist'[n] = IF n <= Len(log) THEN hist[n] ELSE before[n - Len(log)]
           /\ \A k \in 0..Len(entries) :
                 AtNext(Len(log) + k) = IF k < Len(entries) THEN before[k + 1] ELSE Now'
  <1>1. Len(entries) = Len(before) /\ Push(entries, before)
    OBVIOUS
  <1>2. /\ log \in Seq(Entry) /\ hist \in Seq(Snapshot)
        /\ Len(hist) = Len(log) /\ Len(log) \in Nat /\ Len(entries) \in Nat
    BY DEF TypeOK
  <1>3. /\ log' \in Seq(Entry) /\ Len(log') = Len(log) + Len(entries)
        /\ \A n \in 1..Len(log') :
              log'[n] = IF n <= Len(log) THEN log[n] ELSE entries[n - Len(log)]
    <2>1. log' = log \o entries /\ log \in Seq(Entry) /\ entries \in Seq(Entry)
      BY <1>1, <1>2 DEF Push
    <2>2. /\ log \o entries \in Seq(Entry) /\ Len(log \o entries) = Len(log) + Len(entries)
          /\ \A n \in 1..(Len(log) + Len(entries)) :
                (log \o entries)[n] = IF n <= Len(log) THEN log[n] ELSE entries[n - Len(log)]
      BY <2>1, ConcatProperties, Zenon
    <2>3. QED
      BY <2>1, <2>2, Zenon
  <1>4. /\ hist' \in Seq(Snapshot) /\ Len(hist') = Len(log')
        /\ \A n \in 1..Len(log') :
              hist'[n] = IF n <= Len(log) THEN hist[n] ELSE before[n - Len(log)]
    <2>1. hist' = hist \o before /\ before \in Seq(Snapshot) /\ Len(before) = Len(entries)
      BY <1>1 DEF Push
    <2>2. /\ hist' \in Seq(Snapshot) /\ Len(hist') = Len(hist) + Len(before)
          /\ \A n \in 1..(Len(hist) + Len(before)) :
                hist'[n] = IF n <= Len(hist) THEN hist[n] ELSE before[n - Len(hist)]
      <3>1. hist \in Seq(Snapshot) /\ before \in Seq(Snapshot)
        BY <1>2
      <3>2. /\ hist \o before \in Seq(Snapshot) /\ Len(hist \o before) = Len(hist) + Len(before)
            /\ \A n \in 1..(Len(hist) + Len(before)) :
                  (hist \o before)[n] = IF n <= Len(hist) THEN hist[n] ELSE before[n - Len(hist)]
        BY <3>1, ConcatProperties, Zenon
      <3>3. QED
        BY <2>1, <3>2, Zenon
    <2>3. Len(hist) = Len(log) /\ Len(hist) + Len(before) = Len(log')
      BY <2>1, <1>2, <1>3
    <2>4. ASSUME NEW n \in 1..Len(log')
          PROVE  hist'[n] = IF n <= Len(log) THEN hist[n] ELSE before[n - Len(log)]
      <3>1. n \in 1..(Len(hist) + Len(before))
        BY <2>3
      <3>2. hist'[n] = IF n <= Len(hist) THEN hist[n] ELSE before[n - Len(hist)]
        BY <2>2, <3>1
      <3>3. QED
        BY <2>3, <3>2
    <2>5. QED
      BY <2>2, <2>3, <2>4
  <1> DEFINE after(k) == IF k < Len(entries) THEN before[k + 1] ELSE Now'
  <1>6. \A k \in 0..Len(entries) : AtNext(Len(log) + k) = after(k)
    <2> SUFFICES ASSUME NEW k \in 0..Len(entries)
                 PROVE  AtNext(Len(log) + k) = after(k)
      OBVIOUS
    <2>1. CASE k < Len(entries)
      <3>1. Len(log) + k < Len(log') /\ Len(log) + k + 1 \in 1..Len(log')
        BY <2>1, <1>2, <1>3
      <3>2. hist'[Len(log) + k + 1] = before[k + 1]
        <4>1. /\ ~(Len(log) + k + 1 <= Len(log))
              /\ Len(log) + k + 1 - Len(log) = k + 1
          BY <1>2
        <4>2. \A n \in 1..Len(log') : ~(n <= Len(log)) => hist'[n] = before[n - Len(log)]
          BY <1>4
        <4> DEFINE last == Len(log) + k + 1
        <4>3. last \in 1..Len(log') /\ ~(last <= Len(log)) /\ last - Len(log) = k + 1
          BY <3>1, <4>1
        <4> HIDE DEF last
        <4>4. hist'[last] = before[last - Len(log)]
          BY <4>2, <4>3
        <4>5. QED
          BY <4>3, <4>4 DEF last
      <3>3. QED
        BY <2>1, <3>1, <3>2 DEF AtNext
    <2>2. CASE k = Len(entries)
      BY <2>2, <1>2, <1>3 DEF AtNext
    <2>3. QED
      BY <2>1, <2>2, <1>2
  <1>7. QED
    BY <1>3, <1>4, <1>6

\* The log keeps its old entries and the snapshots their states, and the new
\* entries are linked to each other and to the old ones.
LEMMA GrowthFacts ==
    ASSUME TypeOK, GrowsLog
    PROVE  /\ log' \in Seq(Entry) /\ hist' \in Seq(Snapshot) /\ Len(hist') = Len(log')
           /\ Len(log') > Len(log)
           /\ \A n \in 1..Len(log) : log'[n] = log[n]
           /\ \A n \in 0..Len(log) : AtNext(n) = At(n)
           /\ \A n \in (Len(log) + 1)..Len(log') :
                 /\ RevertMem(log'[n], AtNext(n).mem) = AtNext(n - 1).mem
                 /\ RevertGoals(log'[n], AtNext(n).goals) = AtNext(n - 1).goals
  <1>1. PICK entries \in Seq(Entry), before \in Seq(Snapshot) :
           /\ Len(entries) = Len(before) /\ Len(entries) > 0
           /\ Push(entries, before)
           /\ Undoes(entries, before)
    BY DEF GrowsLog
  <1>2. /\ log \in Seq(Entry) /\ hist \in Seq(Snapshot)
        /\ Len(hist) = Len(log) /\ Len(log) \in Nat /\ Len(entries) \in Nat
    BY DEF TypeOK
  <1>3. /\ log' \in Seq(Entry) /\ Len(log') = Len(log) + Len(entries)
        /\ \A n \in 1..Len(log') :
              log'[n] = IF n <= Len(log) THEN log[n] ELSE entries[n - Len(log)]
    BY <1>1, PushFacts
  <1>4. /\ hist' \in Seq(Snapshot) /\ Len(hist') = Len(log')
        /\ \A n \in 1..Len(log') :
              hist'[n] = IF n <= Len(log) THEN hist[n] ELSE before[n - Len(log)]
    BY <1>1, PushFacts
  <1> DEFINE after(k) == IF k < Len(entries) THEN before[k + 1] ELSE Now'
  <1>5. /\ after(0) = Now
        /\ \A n \in 1..Len(entries) :
              /\ RevertMem(entries[n], after(n).mem) = after(n - 1).mem
              /\ RevertGoals(entries[n], after(n).goals) = after(n - 1).goals
    BY <1>1 DEF Undoes
  <1>6. \A k \in 0..Len(entries) : AtNext(Len(log) + k) = after(k)
    BY <1>1, PushFacts
  <1> HIDE DEF after
  <1>7. \A n \in 0..Len(log) : AtNext(n) = At(n)
    <2> SUFFICES ASSUME NEW n \in 0..Len(log)
                 PROVE  AtNext(n) = At(n)
      OBVIOUS
    <2>1. CASE n < Len(log)
      <3>1. n < Len(log') /\ n + 1 \in 1..Len(log') /\ n + 1 <= Len(log)
        BY <2>1, <1>1, <1>2, <1>3
      <3>2. hist'[n + 1] = hist[n + 1]
        BY <3>1, <1>4
      <3>3. QED
        BY <2>1, <3>1, <3>2 DEF At, AtNext
    <2>2. CASE n = Len(log)
      <3>1. AtNext(Len(log) + 0) = Now
        BY <1>1, <1>2, <1>5, <1>6
      <3>2. At(Len(log)) = Now
        BY <1>2 DEF At
      <3>3. Len(log) + 0 = Len(log)
        BY <1>2
      <3>4. QED
        BY <2>2, <3>1, <3>2, <3>3
    <2>3. QED
      BY <2>1, <2>2, <1>2
  <1>8. ASSUME NEW n \in (Len(log) + 1)..Len(log')
        PROVE  /\ RevertMem(log'[n], AtNext(n).mem) = AtNext(n - 1).mem
               /\ RevertGoals(log'[n], AtNext(n).goals) = AtNext(n - 1).goals
    <2> DEFINE k == n - Len(log)
    <2>1. k \in 1..Len(entries) /\ n = Len(log) + k /\ n - 1 = Len(log) + (k - 1)
          /\ k - 1 \in 0..Len(entries) /\ k \in 0..Len(entries) /\ n \in 1..Len(log')
      BY <1>2, <1>3
    <2>2. log'[n] = entries[k]
      BY <2>1, <1>2, <1>3
    <2>3. AtNext(n) = after(k) /\ AtNext(n - 1) = after(k - 1)
      BY <2>1, <1>6
    <2>4. QED
      BY <2>1, <2>2, <2>3, <1>5
  <1>9. Len(log') > Len(log)
    BY <1>1, <1>2, <1>3
  <1>10. \A n \in 1..Len(log) : log'[n] = log[n]
    BY <1>1, <1>2, <1>3
  <1>11. QED
    BY <1>3, <1>4, <1>7, <1>8, <1>9, <1>10

-----------------------------------------------------------------------------
(***************************************************************************)
(* The inductive invariant, and how the steps change what it speaks about. *)
(***************************************************************************)
IInv == TypeOK /\ LogIsExact /\ MarkersNest

\* A turn of the loop of the rollback goes back by one entry.
LEMMA RevertFacts ==
    ASSUME IInv, Revert
    PROVE  /\ log' \in Seq(Entry) /\ hist' \in Seq(Snapshot) /\ Len(hist') = Len(log')
           /\ Len(log) > 0 /\ Len(log') = Len(log) - 1 /\ Top.mark <= Len(log')
           /\ Now' \in Snapshot
           /\ \A n \in 1..Len(log') : log'[n] = log[n]
           /\ \A n \in 0..Len(log') : AtNext(n) = At(n)
  <1>1. /\ log \in Seq(Entry) /\ hist \in Seq(Snapshot) /\ frames \in Seq(Frame)
        /\ Len(hist) = Len(log) /\ Len(log) \in Nat
    BY DEF IInv, TypeOK
  <1>2. Len(log) > 0 /\ Top.mark < Len(log) /\ Top.mark \in Nat
    <2>1. frames # <<>> /\ Len(frames) \in 1..Len(frames)
      BY <1>1 DEF IInv, MarkersNest, Revert
    <2>2. Top \in Frame
      BY <1>1, <2>1 DEF Top
    <2>3. Top.mark < Len(log)
      BY <1>1, <2>2 DEF Revert, AboveMarker, Frame
    <2>4. QED
      BY <1>1, <2>2, <2>3 DEF Frame
  <1>3. /\ log' \in Seq(Entry) /\ Len(log') = Len(log) - 1
        /\ \A n \in 1..Len(log') : log'[n] = log[n]
    <2>1. log' = SubSeq(log, 1, Len(log) - 1) /\ \A n \in 1..(Len(log) - 1) : log[n] \in Entry
      BY <1>1 DEF Revert
    <2>2. QED
      BY <1>1, <1>2, <2>1, SubSeqProperties
  <1>4. /\ hist' \in Seq(Snapshot) /\ Len(hist') = Len(log) - 1
        /\ \A n \in 1..(Len(log) - 1) : hist'[n] = hist[n]
    <2>1. hist' = SubSeq(hist, 1, Len(log) - 1) /\ \A n \in 1..(Len(log) - 1) : hist[n] \in Snapshot
      BY <1>1 DEF Revert
    <2>2. QED
      BY <1>1, <1>2, <2>1, SubSeqProperties
  <1>5. Now' = hist[Len(log)]
    <2>1. At(Len(log)) = Now /\ At(Len(log) - 1) = hist[Len(log)]
      BY <1>1, <1>2 DEF At
    <2>2. /\ RevertMem(log[Len(log)], mem) = hist[Len(log)].mem
          /\ RevertGoals(log[Len(log)], goals) = hist[Len(log)].goals
      <3>1. Len(log) \in 1..Len(log)
        BY <1>1, <1>2
      <3>2. Now.mem = mem /\ Now.goals = goals
        BY DEF Now
      <3>3. QED
        BY <2>1, <3>1, <3>2 DEF IInv, LogIsExact
    <2>3. Now' = [mem |-> hist[Len(log)].mem, goals |-> hist[Len(log)].goals]
      BY <2>2 DEF Now, Revert
    <2>4. hist[Len(log)] \in Snapshot
      BY <1>1, <1>2
    <2>5. QED
      BY <2>3, <2>4 DEF Snapshot
  <1>6. Now' \in Snapshot
    BY <1>1, <1>2, <1>5
  <1>7. ASSUME NEW n \in 0..Len(log')
        PROVE  AtNext(n) = At(n)
    <2>1. CASE n < Len(log')
      BY <2>1, <1>1, <1>2, <1>3, <1>4 DEF AtNext, At
    <2>2. CASE n = Len(log')
      BY <2>2, <1>1, <1>2, <1>3, <1>5 DEF AtNext, At
    <2>3. QED
      BY <2>1, <2>2, <1>1, <1>3
  <1>8. QED
    BY <1>1, <1>2, <1>3, <1>4, <1>6, <1>7

\* The other actions, and stuttering, leave the program's state and the log alone.
Unlogged == UNCHANGED <<mem, goals, log, hist>>

LEMMA StepKinds ==
    ASSUME IInv, [Next]_vars
    PROVE  GrowsLog \/ Revert \/ Unlogged
  <1>1. TypeOK
    BY DEF IInv
  <1>2. CASE Mutate
    BY <1>1, <1>2, MutateGrows
  <1>3. CASE EnterExport \/ EnterPredicate
    BY <1>3 DEF EnterExport, EnterPredicate, Enter, Unlogged
  <1>4. CASE ReturnTrue \/ StartRollback \/ Failed \/ EndRollback \/ Aborted \/ UNCHANGED vars
    BY <1>4 DEF ReturnTrue, StartRollback, Failed, EndRollback, Aborted, vars, Unlogged
  <1>5. QED
    BY <1>2, <1>3, <1>4 DEF Next

LEMMA InitIInv == Init => IInv
  <1> SUFFICES ASSUME Init PROVE IInv
    OBVIOUS
  <1>1. TypeOK
    BY DEF Init, TypeOK, Live
  <1>2. Len(log) = 0 /\ Len(frames) = 0
    BY DEF Init
  <1>3. LogIsExact
    BY <1>2 DEF LogIsExact
  <1>4. MarkersNest
    BY <1>2 DEF MarkersNest, Init
  <1>5. QED
    BY <1>1, <1>3, <1>4 DEF IInv

\* A call is entered with the current length of the log as its marker, and
\* calls leave in the opposite order.
LEMMA FrameSteps ==
    ASSUME IInv, [Next]_vars
    PROVE  \/ frames' = frames /\ mode' = mode
           \/ frames' = frames /\ frames # <<>> /\ mode' \in {"run", "rollback", "aborted"}
           \/ /\ Unlogged /\ mode = "run" /\ mode' = "run"
              /\ \E kind \in {"predicate", "export"} :
                    /\ frames' = Append(frames, [kind |-> kind, mark |-> Len(log)])
                    /\ frames = <<>> => kind = "export"
           \/ /\ Unlogged /\ frames # <<>> /\ frames' = Pop /\ mode' = "run"
              /\ mode = "rollback" \/ Top.kind = "predicate"
  <1>1. ASSUME GrowsLog PROVE frames' = frames /\ mode' = mode
    BY <1>1 DEF GrowsLog
  <1>2. CASE Mutate
    BY <1>1, <1>2, MutateGrows DEF IInv
  <1>3. CASE EnterExport
    BY <1>3 DEF EnterExport, Enter, Unlogged
  <1>4. CASE EnterPredicate
    BY <1>4 DEF EnterPredicate, Enter, Unlogged
  <1>5. CASE ReturnTrue
    BY <1>5 DEF ReturnTrue, Running, Unlogged
  <1>6. CASE StartRollback \/ Failed
    BY <1>6 DEF StartRollback, Failed, Running
  <1>7. CASE Revert
    BY <1>7 DEF Revert
  <1>8. CASE EndRollback
    BY <1>8 DEF EndRollback, Unlogged, IInv, MarkersNest
  <1>9. CASE Aborted \/ UNCHANGED vars
    BY <1>9 DEF Aborted, vars
  <1>10. QED
    BY <1>2, <1>3, <1>4, <1>5, <1>6, <1>7, <1>8, <1>9 DEF Next

LEMMA PopFacts ==
    ASSUME frames \in Seq(Frame), frames # <<>>
    PROVE  /\ Pop \in Seq(Frame) /\ Len(frames) \in Nat \ {0} /\ Len(Pop) = Len(frames) - 1
           /\ \A f \in 1..Len(Pop) : Pop[f] = frames[f]
           /\ Top \in Frame
  <1>1. Len(frames) \in Nat \ {0} /\ \A f \in 1..(Len(frames) - 1) : frames[f] \in Frame
    OBVIOUS
  <1> DEFINE n == Len(frames)
  <1>2. /\ Pop \in Seq(Frame)
        /\ Len(Pop) = IF 1 <= Len(frames) - 1 THEN Len(frames) - 1 - 1 + 1 ELSE 0
        /\ \A f \in 1..(Len(frames) - 1 - 1 + 1) : Pop[f] = frames[1 + f - 1]
    BY <1>1, SubSeqProperties DEF Pop
  <1>3. Top \in Frame
    BY <1>1 DEF Top
  <1>4. Len(Pop) = Len(frames) - 1
    <2>1. n \in Nat \ {0} /\ Len(Pop) = IF 1 <= n - 1 THEN n - 1 - 1 + 1 ELSE 0
      BY <1>1, <1>2
    <2> HIDE DEF n
    <2>2. Len(Pop) = n - 1
      BY <2>1
    <2>3. QED
      BY <2>2 DEF n
  <1>5. \A f \in 1..Len(Pop) : Pop[f] = frames[f]
    BY <1>1, <1>2, <1>4
  <1>6. QED
    BY <1>1, <1>2, <1>3, <1>4, <1>5

LEMMA TypePreserved ==
    ASSUME IInv, [Next]_vars
    PROVE  TypeOK'
  <1>0. TypeOK
    BY DEF IInv
  <1>1. frames' \in Seq(Frame)
    <2>1. CASE frames' = frames
      BY <1>0, <2>1 DEF TypeOK
    <2>2. ASSUME NEW kind \in {"predicate", "export"},
                 frames' = Append(frames, [kind |-> kind, mark |-> Len(log)])
          PROVE  frames' \in Seq(Frame)
      <3>1. [kind |-> kind, mark |-> Len(log)] \in Frame /\ frames \in Seq(Frame)
        BY <1>0 DEF TypeOK, Frame
      <3>2. QED
        BY <2>2, <3>1, AppendProperties
    <2>3. CASE frames # <<>> /\ frames' = Pop
      BY <1>0, <2>3, PopFacts DEF TypeOK
    <2>4. QED
      BY <2>1, <2>2, <2>3, FrameSteps
  <1>2. mode' \in {"run", "rollback", "aborted"}
    BY <1>0, FrameSteps DEF TypeOK
  <1>3. /\ Now' \in Snapshot /\ log' \in Seq(Entry)
        /\ hist' \in Seq(Snapshot) /\ Len(hist') = Len(log')
    <2>1. CASE GrowsLog
      BY <1>0, <2>1, GrowthFacts DEF GrowsLog
    <2>2. CASE Revert
      BY <2>2, RevertFacts
    <2>3. CASE Unlogged
      BY <1>0, <2>3 DEF Unlogged, TypeOK, Now, Snapshot
    <2>4. QED
      BY <2>1, <2>2, <2>3, StepKinds
  <1>4. mem' \in [Addr -> Cell \cup {Free}] /\ goals' \in Seq(Goal)
    BY <1>3 DEF Now, Snapshot
  <1>5. QED
    BY <1>1, <1>2, <1>3, <1>4 DEF TypeOK

LEMMA LogIsExactPreserved ==
    ASSUME IInv, [Next]_vars
    PROVE  LogIsExact'
  <1> DEFINE Linked(n) == /\ RevertMem(log'[n], AtNext(n).mem) = AtNext(n - 1).mem
                          /\ RevertGoals(log'[n], AtNext(n).goals) = AtNext(n - 1).goals
  <1>0. Len(log) \in Nat
    BY DEF IInv, TypeOK
  <1>1. CASE GrowsLog
    <2>1. \A n \in (Len(log) + 1)..Len(log') : Linked(n)
      BY <1>1, GrowthFacts DEF IInv
    <2>2. ASSUME NEW n \in 1..Len(log)
          PROVE  Linked(n)
      <3>1. n \in 0..Len(log) /\ n - 1 \in 0..Len(log)
        BY <1>0
      <3>2. log'[n] = log[n] /\ AtNext(n) = At(n) /\ AtNext(n - 1) = At(n - 1)
        BY <1>1, <3>1, GrowthFacts DEF IInv
      <3>3. QED
        BY <3>2 DEF IInv, LogIsExact
    <2>3. log' \in Seq(Entry)
      BY <1>1, GrowthFacts DEF IInv
    <2> HIDE DEF Linked
    <2>4. \A n \in 1..Len(log') : Linked(n)
      BY <2>1, <2>2, <2>3, <1>0
    <2>5. QED
      BY <2>4 DEF LogIsExact, Linked, At, AtNext
  <1>2. CASE Revert
    <2>1. ASSUME NEW n \in 1..Len(log')
          PROVE  Linked(n)
      <3>1. n \in 0..Len(log') /\ n - 1 \in 0..Len(log') /\ n \in 1..Len(log)
        BY <1>0, <1>2, RevertFacts
      <3>2. log'[n] = log[n] /\ AtNext(n) = At(n) /\ AtNext(n - 1) = At(n - 1)
        BY <1>2, <3>1, RevertFacts
      <3>3. QED
        BY <3>1, <3>2 DEF IInv, LogIsExact
    <2>2. QED
      BY <2>1 DEF LogIsExact, At, AtNext
  <1>3. CASE Unlogged
    BY <1>3 DEF Unlogged, LogIsExact, At, Now, IInv
  <1>4. QED
    BY <1>1, <1>2, <1>3, StepKinds

LEMMA MarkersNestPreserved ==
    ASSUME IInv, [Next]_vars
    PROVE  MarkersNest'
  <1>0. /\ Len(log) \in Nat /\ frames \in Seq(Frame) /\ Len(frames) \in Nat
        /\ \A f \in 1..Len(frames) : frames[f].mark \in Nat
    <2>1. /\ Len(log) \in Nat /\ frames \in Seq(Frame) /\ Len(frames) \in Nat
          /\ \A f \in 1..Len(frames) : frames[f] \in Frame
      BY DEF IInv, TypeOK
    <2>2. \A f \in Frame : f.mark \in Nat
      BY DEF Frame
    <2>3. QED
      BY <2>1, <2>2
  <1>1. Len(log') \in Nat /\ Len(frames') \in Nat
    BY TypePreserved DEF TypeOK
  <1>2. MarkersNest
    BY DEF IInv
  <1>3. \A f \in 1..Len(frames) : frames[f].mark <= Len(log')
    <2> SUFFICES ASSUME NEW f \in 1..Len(frames)
                 PROVE  frames[f].mark <= Len(log')
      OBVIOUS
    <2>1. CASE GrowsLog
      BY <1>0, <1>1, <1>2, <2>1, GrowthFacts DEF MarkersNest, IInv
    <2>2. CASE Revert
      <3>1. Top.mark <= Len(log')
        BY <2>2, RevertFacts
      <3>2. frames[f].mark <= Top.mark /\ Top.mark \in Nat
        BY <1>0, <1>2 DEF MarkersNest, Top
      <3>3. QED
        BY <1>0, <1>1, <3>1, <3>2
    <2>3. CASE Unlogged
      BY <1>2, <2>3 DEF Unlogged, MarkersNest
    <2>4. QED
      BY <2>1, <2>2, <2>3, StepKinds
  <1>4. CASE frames' = frames /\ (mode' = mode \/ frames # <<>>)
    BY <1>2, <1>3, <1>4 DEF MarkersNest
  <1>5. ASSUME NEW kind \in {"predicate", "export"}, Unlogged, mode' = "run",
               frames' = Append(frames, [kind |-> kind, mark |-> Len(log)]),
               frames = <<>> => kind = "export"
        PROVE  MarkersNest'
    <2> DEFINE frame == [kind |-> kind, mark |-> Len(log)]
    <2>1. frame \in Frame /\ frame.mark = Len(log) /\ frame.kind = kind
      BY <1>0 DEF Frame
    <2> HIDE DEF frame
    <2>2. /\ Len(frames') = Len(frames) + 1
          /\ \A f \in 1..Len(frames) : frames'[f] = frames[f]
          /\ frames'[Len(frames) + 1] = frame
      BY <1>0, <1>5, <2>1, AppendProperties DEF frame
    <2>3. \A f \in 1..Len(frames') : frames'[f].mark <= Len(log)
      BY <1>0, <1>2, <2>1, <2>2 DEF MarkersNest
    <2>4. ASSUME NEW f \in 1..Len(frames'), NEW g \in 1..Len(frames'), f <= g
          PROVE  frames'[f].mark <= frames'[g].mark
      <3>1. CASE g \in 1..Len(frames)
        BY <1>0, <1>2, <2>2, <2>4, <3>1 DEF MarkersNest
      <3>2. CASE g = Len(frames) + 1
        BY <2>1, <2>2, <2>3, <3>2
      <3>3. QED
        BY <1>0, <2>2, <3>1, <3>2
    <2>5. frames'[1].kind = "export"
      <3>1. CASE frames = <<>>
        BY <1>5, <2>1, <2>2, <3>1
      <3>2. CASE frames # <<>>
        BY <1>0, <1>2, <2>2, <3>2 DEF MarkersNest
      <3>3. QED
        BY <3>1, <3>2
    <2>6. QED
      BY <1>5, <2>3, <2>4, <2>5 DEF MarkersNest, Unlogged
  <1>6. CASE Unlogged /\ frames # <<>> /\ frames' = Pop /\ mode' = "run"
    <2>1. Len(frames') = Len(frames) - 1 /\ \A f \in 1..Len(frames') : frames'[f] = frames[f]
      BY <1>0, <1>6, PopFacts
    <2>2. frames' # <<>> => frames'[1].kind = "export"
      <3>1. ASSUME frames' # <<>> PROVE frames'[1] = frames[1]
        <4>1. frames' \in Seq(Frame)
          BY TypePreserved DEF TypeOK
        <4>2. 1 \in 1..Len(frames')
          BY <3>1, <4>1
        <4>3. QED
          BY <2>1, <4>2
      <3>2. QED
        BY <1>2, <1>6, <3>1 DEF MarkersNest
    <2>3. QED
      BY <1>0, <1>2, <1>3, <1>6, <2>1, <2>2 DEF MarkersNest
  <1>7. QED
    BY <1>4, <1>5, <1>6, FrameSteps

LEMMA IInvPreserved == IInv /\ [Next]_vars => IInv'
  BY TypePreserved, LogIsExactPreserved, MarkersNestPreserved DEF IInv

\* The inductive invariant: types, exact entries and nested markers together.
THEOREM Invariance == Spec => []IInv
  <1>1. QED
    BY InitIInv, IInvPreserved, PTL DEF Spec

\* Every variable of the runtime has its type in every reachable state.
THEOREM TypeCorrect == Spec => []TypeOK
  <1>1. IInv => TypeOK
    BY DEF IInv
  <1>2. QED
    BY <1>1, Invariance, PTL

\* Every entry of sldLog brings back the state it was pushed in.
THEOREM LogExact == Spec => []LogIsExact
  <1>1. IInv => LogIsExact
    BY DEF IInv
  <1>2. QED
    BY <1>1, Invariance, PTL

\* The assertions of _DI_rollbackToMarker never fail: no marker is ahead of
\* the log, and the markers of nested calls are nested.
THEOREM MarkersCorrect == Spec => []MarkersNest
  <1>1. IInv => MarkersNest
    BY DEF IInv
  <1>2. QED
    BY <1>1, Invariance, PTL

=============================================================================
