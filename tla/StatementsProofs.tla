--------------------------- MODULE StatementsProofs ---------------------------
(***************************************************************************)
(* Proofs about Statements, for every module and any depth of nesting.     *)
(* Targets of jumps: a loop in progress keeps the targets of the loop      *)
(* around it (WellNested), so to leave it is to make these the targets     *)
(* again, and nothing else that is entered or left is a loop.              *)
(* The code: a visitor in progress owes blocks, which are in no function   *)
(* and empty until it puts them there; one block is open, the one that     *)
(* code is emitted to; all others end in their only terminator.  Every     *)
(* block has an owner, the function it is or will be put into, and what an *)
(* instruction goes to has the owner of the instruction (Laid, Stacked).   *)
(* The list of functions: it has those visited, but for a C function that  *)
(* is in progress (ListInv).  The fields: what they refer to is owed, or   *)
(* was left behind by the last function (TypeInv).                         *)
(***************************************************************************)
EXTENDS Statements, SequenceTheorems, WellFoundedInduction, TLAPS

\* What is read of a visitor in progress.
Fields(of) ==
    CASE of = "for"      -> {"of", "last", "condition", "after", "next", "oldAfter", "oldNext"}
      [] of = "function" -> {"of", "footer"}
      [] of = "then"     -> {"of", "else", "false", "after"}
      [] of = "else"     -> {"of", "after"}
      [] OTHER           -> {"of"}

WellNested(fs) ==
    /\ Len(fs) \in Nat /\ fs = [i \in 1..Len(fs) |-> fs[i]]
    /\ \A i \in 1..Len(fs) : Fields(fs[i].of) \subseteq DOMAIN fs[i]
    /\ \A i \in 1..Len(fs) : fs[i].of = "function" <=> i = 1
    /\ \A i \in 1..Len(fs) : fs[i].of = "for" => TargetsAt(fs, i - 1, fs[i].oldAfter, fs[i].oldNext)

IInv == WellNested(frames) /\ LoopTargets

Alike(f, g) == g.of = f.of /\ \A field \in Fields(f.of) : g[field] = f[field]

----------------------------------------------------------------------------
(* Visitors entered and left *)

LEMMA FieldsInside ==
    /\ Fields("for") = {"of", "last", "condition", "after", "next", "oldAfter", "oldNext"}
    /\ Fields("function") = {"of", "footer"}
    /\ Fields("then") = {"of", "else", "false", "after"}
    /\ Fields("else") = {"of", "after"}
    /\ \A of : "of" \in Fields(of) /\ "rest" \notin Fields(of)
  BY DEF Fields

\* Targets depend on the visitors up to k only.
LEMMA SameTargets ==
    ASSUME NEW fs, NEW gs, NEW k \in Nat \ {0}, fs[1].of = "function",
           \A i \in 1..k : Alike(fs[i], gs[i]),
           NEW a, NEW n, TargetsAt(fs, k, a, n)
    PROVE  TargetsAt(gs, k, a, n)
  <1>1. \A i \in 1..k : gs[i].of = fs[i].of
    BY DEF Alike
  <1>2. \A i \in 1..k : fs[i].of = "for" => gs[i].after = fs[i].after /\ gs[i].next = fs[i].next
    BY FieldsInside DEF Alike
  <1>3. gs[1].footer = fs[1].footer
    BY FieldsInside DEF Alike
  <1>4. \A i \in 1..k : IsInnermost(gs, i, k) => IsInnermost(fs, i, k)
    BY <1>1 DEF IsInnermost
  <1>5. NoLoop(gs, k) => NoLoop(fs, k)
    BY <1>1 DEF NoLoop
  <1>6. QED
    BY <1>2, <1>3, <1>4, <1>5 DEF TargetsAt, IsInnermost

LEMMA ElementsOfSeq ==
    ASSUME NEW fs, Len(fs) \in Nat, fs = [i \in 1..Len(fs) |-> fs[i]]
    PROVE  fs \in Seq({fs[i] : i \in 1..Len(fs)})
  <1> DEFINE S == {fs[i] : i \in 1..Len(fs)}
  <1>1. fs \in [1..Len(fs) -> S]
    OBVIOUS
  <1>2. QED
    BY <1>1, SeqDef

LEMMA Pushed ==
    ASSUME NEW fs, Len(fs) \in Nat, fs = [i \in 1..Len(fs) |-> fs[i]], NEW f
    PROVE  /\ Len(Append(fs, f)) = Len(fs) + 1
           /\ Append(fs, f) = [i \in 1..Len(fs) + 1 |-> Append(fs, f)[i]]
           /\ \A i \in 1..Len(fs) : Append(fs, f)[i] = fs[i]
           /\ Append(fs, f)[Len(fs) + 1] = f
  <1> DEFINE S == {fs[i] : i \in 1..Len(fs)} \cup {f}
  <1>1. fs \in Seq(S) /\ f \in S
    BY ElementsOfSeq, SeqMonotonic
  <1> HIDE DEF S
  <1>2. /\ Append(fs, f) \in Seq(S) /\ Len(Append(fs, f)) = Len(fs) + 1
        /\ \A i \in 1..Len(fs) : Append(fs, f)[i] = fs[i]
        /\ Append(fs, f)[Len(fs) + 1] = f
    BY <1>1, AppendProperties
  <1>3. Append(fs, f) \in [1..Len(fs) + 1 -> S]
    BY <1>2, LenProperties
  <1>4. QED
    BY <1>2, <1>3

LEMMA Popped ==
    ASSUME NEW fs, Len(fs) \in Nat \ {0}, fs = [i \in 1..Len(fs) |-> fs[i]]
    PROVE  LET outer == SubSeq(fs, 1, Len(fs) - 1) IN
           /\ Len(outer) = Len(fs) - 1
           /\ outer = [i \in 1..Len(fs) - 1 |-> outer[i]]
           /\ \A i \in 1..Len(fs) - 1 : outer[i] = fs[i]
  <1> DEFINE S     == {fs[i] : i \in 1..Len(fs)}
             outer == SubSeq(fs, 1, Len(fs) - 1)
  <1>1. fs \in Seq(S)
    BY ElementsOfSeq
  <1>2. outer \in Seq(S) /\ Len(outer) = Len(fs) - 1 /\ \A i \in 1..Len(fs) - 1 : outer[i] = fs[i]
    BY <1>1, SubSeqProperties, ElementOfSeq
  <1>3. QED
    BY <1>2, LenProperties

LEMMA Entered ==
    ASSUME NEW fs, WellNested(fs), Len(fs) # 0,
           NEW f, f.of # "function", Fields(f.of) \subseteq DOMAIN f,
           f.of = "for" => TargetsAt(fs, Len(fs), f.oldAfter, f.oldNext)
    PROVE  WellNested(Append(fs, f))
  <1> DEFINE gs == Append(fs, f)
  <1>1. /\ Len(gs) = Len(fs) + 1 /\ gs = [i \in 1..Len(gs) |-> gs[i]]
        /\ \A i \in 1..Len(fs) : gs[i] = fs[i]
        /\ gs[Len(fs) + 1] = f
        /\ Len(fs) \in Nat \ {0} /\ Len(gs) \in Nat
    BY Pushed DEF WellNested
  <1> HIDE DEF gs
  <1>2. fs[1].of = "function"
    BY <1>1 DEF WellNested
  <1>3. ASSUME NEW k \in 1..Len(fs), NEW a, NEW n, TargetsAt(fs, k, a, n)
        PROVE  TargetsAt(gs, k, a, n)
    <2>1. \A i \in 1..k : Alike(fs[i], gs[i])
      BY <1>1 DEF Alike
    <2>2. QED
      BY <1>1, <1>2, <1>3, <2>1, SameTargets
  <1>4. \A i \in 1..Len(gs) : Fields(gs[i].of) \subseteq DOMAIN gs[i]
    BY <1>1 DEF WellNested
  <1>5. \A i \in 1..Len(gs) : gs[i].of = "function" <=> i = 1
    BY <1>1 DEF WellNested
  <1>6. ASSUME NEW i \in 1..Len(gs), gs[i].of = "for"
        PROVE  TargetsAt(gs, i - 1, gs[i].oldAfter, gs[i].oldNext)
    <2>1. i # 1 /\ i - 1 \in 1..Len(fs)
      BY <1>1, <1>5, <1>6
    <2>2. TargetsAt(fs, i - 1, gs[i].oldAfter, gs[i].oldNext)
      BY <1>1, <1>6, <2>1 DEF WellNested
    <2>3. QED
      BY <1>3, <2>1, <2>2
  <1>7. QED
    BY <1>1, <1>4, <1>5, <1>6 DEF WellNested, gs

LEMMA LeftOuter ==
    ASSUME NEW fs, WellNested(fs), Len(fs) # 0
    PROVE  LET outer == SubSeq(fs, 1, Len(fs) - 1) IN
           /\ WellNested(outer) /\ Len(outer) = Len(fs) - 1
           /\ \A k \in 1..Len(outer) : \A a, n : TargetsAt(fs, k, a, n) => TargetsAt(outer, k, a, n)
  <1> DEFINE gs == SubSeq(fs, 1, Len(fs) - 1)
  <1>1. /\ Len(gs) = Len(fs) - 1 /\ gs = [i \in 1..Len(gs) |-> gs[i]]
        /\ \A i \in 1..Len(gs) : gs[i] = fs[i]
        /\ Len(fs) \in Nat \ {0} /\ Len(gs) \in Nat
    BY Popped DEF WellNested
  <1> HIDE DEF gs
  <1>2. fs[1].of = "function"
    BY <1>1 DEF WellNested
  <1>3. ASSUME NEW k \in 1..Len(gs), NEW a, NEW n, TargetsAt(fs, k, a, n)
        PROVE  TargetsAt(gs, k, a, n)
    <2>1. \A i \in 1..k : Alike(fs[i], gs[i])
      BY <1>1 DEF Alike
    <2>2. QED
      BY <1>1, <1>2, <1>3, <2>1, SameTargets
  <1>4. \A i \in 1..Len(gs) : Fields(gs[i].of) \subseteq DOMAIN gs[i]
    BY <1>1 DEF WellNested
  <1>5. \A i \in 1..Len(gs) : gs[i].of = "function" <=> i = 1
    BY <1>1 DEF WellNested
  <1>6. ASSUME NEW i \in 1..Len(gs), gs[i].of = "for"
        PROVE  TargetsAt(gs, i - 1, gs[i].oldAfter, gs[i].oldNext)
    <2>1. i # 1 /\ i - 1 \in 1..Len(gs)
      BY <1>1, <1>5, <1>6
    <2>2. TargetsAt(fs, i - 1, gs[i].oldAfter, gs[i].oldNext)
      BY <1>1, <1>6 DEF WellNested
    <2>3. QED
      BY <1>3, <2>1, <2>2
  <1>7. WellNested(gs)
    BY <1>1, <1>4, <1>5, <1>6 DEF WellNested
  <1>8. QED
    BY <1>1, <1>3, <1>7 DEF gs

\* The innermost visitor goes on to its next statement, or is replaced by one that
\* is neither a function nor a loop.
LEMMA TopReplaced ==
    ASSUME NEW fs, WellNested(fs), Len(fs) # 0,
           NEW f, Fields(f.of) \subseteq DOMAIN f,
           \/ Alike(fs[Len(fs)], f)
           \/ fs[Len(fs)].of \notin {"function", "for"} /\ f.of \notin {"function", "for"}
    PROVE  LET gs == Append(SubSeq(fs, 1, Len(fs) - 1), f) IN
           /\ WellNested(gs) /\ Len(gs) = Len(fs)
           /\ \A a, n : TargetsAt(fs, Len(fs), a, n) => TargetsAt(gs, Len(gs), a, n)
  <1> DEFINE outer == SubSeq(fs, 1, Len(fs) - 1)
             gs    == Append(outer, f)
  <1>1. /\ WellNested(outer) /\ Len(outer) = Len(fs) - 1
        /\ \A k \in 1..Len(outer) : \A a, n : TargetsAt(fs, k, a, n) => TargetsAt(outer, k, a, n)
    BY LeftOuter
  <1>2. /\ Len(fs) \in Nat \ {0}
        /\ \A i \in 1..Len(fs) - 1 : outer[i] = fs[i]
    BY Popped DEF WellNested
  <1> HIDE DEF outer
  <1>3. /\ Len(gs) = Len(fs) /\ gs = [i \in 1..Len(gs) |-> gs[i]]
        /\ \A i \in 1..Len(fs) - 1 : gs[i] = fs[i]
        /\ gs[Len(fs)] = f
    <2>1. Len(outer) \in Nat /\ outer = [i \in 1..Len(outer) |-> outer[i]]
      BY <1>1 DEF WellNested
    <2>2. QED
      BY <1>1, <1>2, <2>1, Pushed
  <1> HIDE DEF gs
  <1>4. fs[1].of = "function" /\ \A i \in 1..Len(fs) : fs[i].of = "function" <=> i = 1
    BY <1>2 DEF WellNested
  <1>5. \A i \in 1..Len(fs) : gs[i].of # fs[i].of =>
            gs[i].of \notin {"function", "for"} /\ fs[i].of \notin {"function", "for"}
    <2>1. \/ f.of = fs[Len(fs)].of
          \/ f.of \notin {"function", "for"} /\ fs[Len(fs)].of \notin {"function", "for"}
      BY DEF Alike
    <2>2. \A i \in 1..Len(fs) : i = Len(fs) \/ gs[i] = fs[i]
      BY <1>2, <1>3
    <2>3. QED
      BY <2>1, <2>2, <1>3
  <1>6. \A i \in 1..Len(fs) : fs[i].of \in {"function", "for"} => Alike(fs[i], gs[i])
    BY <1>2, <1>3 DEF Alike
  <1>7. ASSUME NEW k \in 1..Len(fs), NEW a, NEW n, TargetsAt(fs, k, a, n)
        PROVE  TargetsAt(gs, k, a, n)
    <2>1. \A i \in 1..k : IsInnermost(gs, i, k) => IsInnermost(fs, i, k)
      BY <1>2, <1>5 DEF IsInnermost
    <2>2. NoLoop(gs, k) => NoLoop(fs, k)
      BY <1>2, <1>5 DEF NoLoop
    <2>3. \A i \in 1..k : fs[i].of = "for" => gs[i].after = fs[i].after /\ gs[i].next = fs[i].next
      BY <1>2, <1>6, FieldsInside DEF Alike
    <2>4. gs[1].footer = fs[1].footer
      BY <1>2, <1>4, <1>6, FieldsInside DEF Alike
    <2>5. QED
      BY <1>7, <2>1, <2>2, <2>3, <2>4 DEF TargetsAt, IsInnermost
  <1>8. \A i \in 1..Len(gs) : Fields(gs[i].of) \subseteq DOMAIN gs[i]
    BY <1>2, <1>3 DEF WellNested
  <1>9. \A i \in 1..Len(gs) : gs[i].of = "function" <=> i = 1
    BY <1>3, <1>4, <1>5
  <1>10. ASSUME NEW i \in 1..Len(gs), gs[i].of = "for"
         PROVE  TargetsAt(gs, i - 1, gs[i].oldAfter, gs[i].oldNext)
    <2>1. i # 1 /\ i - 1 \in 1..Len(fs) /\ fs[i].of = "for"
      BY <1>2, <1>3, <1>5, <1>9, <1>10
    <2>2. gs[i].oldAfter = fs[i].oldAfter /\ gs[i].oldNext = fs[i].oldNext
      BY <1>3, <1>6, <2>1, FieldsInside DEF Alike
    <2>3. TargetsAt(fs, i - 1, fs[i].oldAfter, fs[i].oldNext)
      BY <1>3, <2>1 DEF WellNested
    <2>4. QED
      BY <1>7, <2>1, <2>2, <2>3
  <1>11. WellNested(gs)
    BY <1>2, <1>3, <1>8, <1>9, <1>10 DEF WellNested
  <1>12. QED
    BY <1>2, <1>3, <1>7, <1>11 DEF gs, outer

----------------------------------------------------------------------------
(* Every step *)

LEMMA Unchanged ==
    ASSUME IInv, UNCHANGED <<frames, afterForBlock, nextForBlock>>
    PROVE  IInv'
  BY DEF IInv, LoopTargets

LEMMA Progress ==
    ASSUME NEW fs, WellNested(fs), fs # <<>>
    PROVE  Len(fs) \in Nat \ {0}
  BY EmptySeq, ElementsOfSeq DEF WellNested

LEMMA AfterIsAlike ==
    ASSUME IInv, frames # <<>>
    PROVE  /\ WellNested(After) /\ After # <<>>
           /\ Len(After) = Len(frames)
           /\ \A a, n : TargetsAt(frames, Len(frames), a, n) => TargetsAt(After, Len(After), a, n)
  <1> DEFINE f == [Top EXCEPT !.rest = Tail(@)]
  <1>1. WellNested(frames) /\ Len(frames) \in Nat \ {0}
    BY Progress DEF IInv
  <1>2. Fields(Top.of) \subseteq DOMAIN Top
    BY <1>1 DEF WellNested, Top
  <1>3. \A field \in Fields(Top.of) : f[field] = Top[field]
    BY <1>2, FieldsInside
  <1>4. f.of = Top.of /\ DOMAIN f = DOMAIN Top
    BY <1>3, FieldsInside
  <1> HIDE DEF f
  <1>5. Alike(frames[Len(frames)], f) /\ Fields(f.of) \subseteq DOMAIN f
    BY <1>2, <1>3, <1>4 DEF Alike, Top
  <1>6. After = Append(SubSeq(frames, 1, Len(frames) - 1), f)
    BY DEF After, Outer, f
  <1>7. /\ WellNested(After) /\ Len(After) = Len(frames)
        /\ \A a, n : TargetsAt(frames, Len(frames), a, n) => TargetsAt(After, Len(After), a, n)
    BY <1>1, <1>5, <1>6, TopReplaced
  <1>8. After # <<>>
    BY <1>1, <1>7
  <1>9. QED
    BY <1>7, <1>8

LEMMA BranchEntered ==
    ASSUME NEW fs, WellNested(fs), fs # <<>>,
           NEW f, f.of \notin {"function", "for"}, Fields(f.of) \subseteq DOMAIN f,
           NEW a, NEW n, TargetsAt(fs, Len(fs), a, n)
    PROVE  LET gs == Append(fs, f) IN
           WellNested(gs) /\ gs # <<>> /\ TargetsAt(gs, Len(gs), a, n)
  <1> DEFINE gs == Append(fs, f)
  <1>1. Len(fs) \in Nat \ {0}
    BY Progress
  <1>2. WellNested(gs)
    BY <1>1, Entered
  <1>3. /\ Len(gs) = Len(fs) + 1 /\ gs[Len(fs) + 1] = f
        /\ \A i \in 1..Len(fs) : gs[i] = fs[i]
    BY Pushed DEF WellNested
  <1> HIDE DEF gs
  <1>4. \A i \in 1..Len(gs) : IsInnermost(gs, i, Len(gs)) => i \in 1..Len(fs) /\ IsInnermost(fs, i, Len(fs))
    BY <1>1, <1>3 DEF IsInnermost
  <1>5. NoLoop(gs, Len(gs)) => NoLoop(fs, Len(fs))
    BY <1>1, <1>3 DEF NoLoop
  <1>6. gs[1] = fs[1] /\ gs # <<>>
    BY <1>1, <1>3
  <1>7. TargetsAt(gs, Len(gs), a, n)
    BY <1>3, <1>4, <1>5, <1>6 DEF TargetsAt, IsInnermost
  <1>8. QED
    BY <1>2, <1>6, <1>7 DEF gs

LEMMA LoopEntered ==
    ASSUME NEW fs, WellNested(fs), fs # <<>>,
           NEW f, f.of = "for", Fields("for") \subseteq DOMAIN f,
           TargetsAt(fs, Len(fs), f.oldAfter, f.oldNext)
    PROVE  LET gs == Append(fs, f) IN
           WellNested(gs) /\ gs # <<>> /\ TargetsAt(gs, Len(gs), f.after, f.next)
  <1> DEFINE gs == Append(fs, f)
  <1>1. Len(fs) \in Nat \ {0}
    BY Progress
  <1>2. WellNested(gs)
    BY <1>1, Entered
  <1>3. /\ Len(gs) = Len(fs) + 1 /\ gs[Len(fs) + 1] = f
        /\ \A i \in 1..Len(fs) : gs[i] = fs[i]
    BY Pushed DEF WellNested
  <1> HIDE DEF gs
  <1>4. \A i \in 1..Len(gs) : IsInnermost(gs, i, Len(gs)) => i = Len(gs)
    BY <1>1, <1>3 DEF IsInnermost
  <1>5. ~NoLoop(gs, Len(gs)) /\ gs # <<>>
    BY <1>1, <1>3 DEF NoLoop
  <1>6. TargetsAt(gs, Len(gs), f.after, f.next)
    BY <1>3, <1>4, <1>5 DEF TargetsAt
  <1>7. QED
    BY <1>2, <1>5, <1>6 DEF gs

LEMMA BranchLeft ==
    ASSUME NEW fs, WellNested(fs), fs # <<>>, fs[Len(fs)].of \notin {"function", "for"},
           NEW a, NEW n, TargetsAt(fs, Len(fs), a, n)
    PROVE  LET outer == SubSeq(fs, 1, Len(fs) - 1) IN
           WellNested(outer) /\ outer # <<>> /\ TargetsAt(outer, Len(outer), a, n)
  <1> DEFINE outer == SubSeq(fs, 1, Len(fs) - 1)
  <1>1. Len(fs) \in Nat \ {0} /\ Len(fs) # 1
    BY Progress DEF WellNested
  <1>2. /\ WellNested(outer) /\ Len(outer) = Len(fs) - 1
        /\ \A k \in 1..Len(outer) : \A b, m : TargetsAt(fs, k, b, m) => TargetsAt(outer, k, b, m)
    BY <1>1, LeftOuter
  <1> HIDE DEF outer
  <1>3. \A i \in 1..Len(fs) - 1 : IsInnermost(fs, i, Len(fs) - 1) => IsInnermost(fs, i, Len(fs))
    BY <1>1 DEF IsInnermost
  <1>4. NoLoop(fs, Len(fs) - 1) => NoLoop(fs, Len(fs))
    BY <1>1 DEF NoLoop
  <1>5. TargetsAt(fs, Len(fs) - 1, a, n)
    BY <1>1, <1>3, <1>4 DEF TargetsAt
  <1>6. outer # <<>> /\ TargetsAt(outer, Len(outer), a, n)
    BY <1>1, <1>2, <1>5
  <1>7. QED
    BY <1>2, <1>6 DEF outer

LEMMA LoopLeft ==
    ASSUME NEW fs, WellNested(fs), fs # <<>>, fs[Len(fs)].of = "for"
    PROVE  LET outer == SubSeq(fs, 1, Len(fs) - 1)
               loop  == fs[Len(fs)]
           IN  /\ WellNested(outer) /\ outer # <<>>
               /\ TargetsAt(outer, Len(outer), loop.oldAfter, loop.oldNext)
  <1> DEFINE outer == SubSeq(fs, 1, Len(fs) - 1)
             loop  == fs[Len(fs)]
  <1>1. Len(fs) \in Nat \ {0} /\ Len(fs) # 1
    BY Progress DEF WellNested
  <1>2. /\ WellNested(outer) /\ Len(outer) = Len(fs) - 1
        /\ \A k \in 1..Len(outer) : \A b, m : TargetsAt(fs, k, b, m) => TargetsAt(outer, k, b, m)
    BY <1>1, LeftOuter
  <1>3. TargetsAt(fs, Len(fs) - 1, loop.oldAfter, loop.oldNext)
    BY <1>1 DEF WellNested
  <1> HIDE DEF outer, loop
  <1>4. outer # <<>> /\ TargetsAt(outer, Len(outer), loop.oldAfter, loop.oldNext)
    BY <1>1, <1>2, <1>3
  <1>5. QED
    BY <1>2, <1>4 DEF outer, loop

LEMMA StepKeeps ==
    ASSUME IInv, [CodegenNext]_codegenVars
    PROVE  IInv'
  <1> USE DEF IInv
  <1>1. ASSUME NEW m \in Modules, Accept(m) PROVE IInv'
    BY <1>1, Unchanged DEF Accept
  <1>2. CASE EnterFunction
    <2>1. PICK entered, footer :
             /\ frames' = <<entered>> /\ entered.of = "function" /\ entered.footer = footer
             /\ Fields("function") \subseteq DOMAIN entered
             /\ afterForBlock' = footer /\ nextForBlock' = nextForBlock
      BY <1>2, FieldsInside DEF EnterFunction, FooterOf
    <2>2. frames = <<>>
      BY <1>2 DEF EnterFunction, Upcoming
    <2>3. QED
      BY <2>1, <2>2 DEF WellNested, LoopTargets, TargetsAt, IsInnermost, NoLoop
  <1>3. CASE ImportFunction
    BY <1>3, Unchanged DEF ImportFunction
  <1>4. CASE ImportWithoutFunction
    BY <1>4, Unchanged DEF ImportWithoutFunction, Crashes
  <1>5. CASE EndFunction
    <2>1. frames # <<>> /\ Top.of = "function" /\ frames' = Outer
          /\ UNCHANGED <<afterForBlock, nextForBlock>>
      BY <1>5 DEF EndFunction, Leaves, IsAt
    <2>2. Len(frames) = 1
      BY <2>1, Progress DEF WellNested, Top
    <2>3. frames' = <<>>
      BY <2>1, <2>2, SubSeqEmpty DEF Outer
    <2>4. nextForBlock = NoBlock
      BY <2>1, <2>2 DEF LoopTargets, TargetsAt, NoLoop, Top
    <2>5. WellNested(frames')
      BY <2>3 DEF WellNested
    <2>6. QED
      BY <2>1, <2>3, <2>4, <2>5 DEF LoopTargets
  <1>6. ASSUME frames # <<>>, frames' = After, UNCHANGED <<afterForBlock, nextForBlock>>
        PROVE  IInv'
    BY <1>6, AfterIsAlike DEF LoopTargets
  <1>7. CASE VisitExpression
    BY <1>6, <1>7 DEF VisitExpression, Visit
  <1>8. CASE VisitIf
    <2> DEFINE f == [of |-> "then", rest |-> Node.then, else |-> Node.else,
                     false |-> NewBlock + 1, after |-> NewBlock + 2]
    <2>1. /\ frames # <<>> /\ frames' = Append(After, f)
          /\ UNCHANGED <<afterForBlock, nextForBlock>>
      BY <1>8 DEF VisitIf, Visit
    <2>2. f.of = "then" /\ Fields(f.of) \subseteq DOMAIN f
      BY FieldsInside
    <2> HIDE DEF f
    <2>3. QED
      BY <2>1, <2>2, AfterIsAlike, BranchEntered DEF LoopTargets
  <1>9. CASE LeaveThen
    <2> DEFINE f == [of |-> "else", rest |-> Top.else, after |-> Top.after]
    <2>1. /\ frames # <<>> /\ Top.of = "then" /\ frames' = Append(Outer, f)
          /\ UNCHANGED <<afterForBlock, nextForBlock>>
      BY <1>9 DEF LeaveThen, Leaves, IsAt
    <2>2. f.of = "else" /\ Fields(f.of) \subseteq DOMAIN f
      BY FieldsInside
    <2> HIDE DEF f
    <2>3. /\ WellNested(Outer) /\ Outer # <<>>
          /\ TargetsAt(Outer, Len(Outer), afterForBlock, nextForBlock)
      BY <2>1, BranchLeft DEF LoopTargets, Outer, Top
    <2>4. QED
      BY <2>1, <2>2, <2>3, BranchEntered DEF LoopTargets
  <1>10. CASE LeaveElse
    <2>1. /\ frames # <<>> /\ Top.of = "else" /\ frames' = Outer
          /\ UNCHANGED <<afterForBlock, nextForBlock>>
      BY <1>10 DEF LeaveElse, Leaves, IsAt
    <2>2. /\ WellNested(Outer) /\ Outer # <<>>
          /\ TargetsAt(Outer, Len(Outer), afterForBlock, nextForBlock)
      BY <2>1, BranchLeft DEF LoopTargets, Outer, Top
    <2>3. QED
      BY <2>1, <2>2 DEF LoopTargets
  <1>11. CASE VisitFor
    <2>1. CASE Node.condition = <<>>
      BY <1>11, <2>1, Unchanged DEF VisitFor, Crashes
    <2>2. CASE Node.condition # <<>>
      <3> DEFINE f == [of |-> "for", rest |-> Node.body, last |-> Node.last,
                       condition |-> NewBlock, after |-> NewBlock + 2, next |-> NewBlock + 3,
                       oldAfter |-> afterForBlock, oldNext |-> nextForBlock]
      <3>1. /\ frames # <<>> /\ frames' = Append(After, f)
            /\ afterForBlock' = NewBlock + 2 /\ nextForBlock' = NewBlock + 3
        BY <1>11, <2>2 DEF VisitFor, Visit
      <3>2. /\ f.of = "for" /\ Fields("for") \subseteq DOMAIN f
            /\ f.after = NewBlock + 2 /\ f.next = NewBlock + 3
            /\ f.oldAfter = afterForBlock /\ f.oldNext = nextForBlock
        BY FieldsInside
      <3> HIDE DEF f
      <3>3. QED
        BY <3>1, <3>2, AfterIsAlike, LoopEntered DEF LoopTargets
    <2>3. QED
      BY <2>1, <2>2
  <1>12. CASE LeaveFor
    <2>1. /\ frames # <<>> /\ Top.of = "for" /\ frames' = Outer
          /\ afterForBlock' = Top.oldAfter /\ nextForBlock' = Top.oldNext
      BY <1>12 DEF LeaveFor, Leaves, IsAt, Restored
    <2>2. QED
      BY <2>1, LoopLeft DEF LoopTargets, Outer, Top
  <1>13. CASE VisitBreak
    BY <1>6, <1>13 DEF VisitBreak, Visit
  <1>14. CASE VisitContinue
    BY <1>6, <1>14 DEF VisitContinue, Visit
  <1>15. CASE UNCHANGED codegenVars
    BY <1>15, Unchanged DEF codegenVars
  <1>16. CASE NameFails
    BY <1>16, Unchanged DEF NameFails, Crashes
  <1>17. QED
    BY <1>1, <1>2, <1>3, <1>4, <1>5, <1>7, <1>8, <1>9, <1>10, <1>11, <1>12, <1>13, <1>14, <1>15,
       <1>16
       DEF CodegenNext, Emission

LEMMA InitHolds ==
    ASSUME CodegenInit
    PROVE  IInv
  BY DEF CodegenInit, IInv, WellNested, LoopTargets

\* However loops, branches and functions are nested, a break or continue goes to
\* the innermost loop around it in its function.
THEOREM TargetsKept == CodegenSpec => []LoopTargets
  <1>1. CodegenSpec => []IInv
    BY InitHolds, StepKeeps, PTL DEF CodegenSpec
  <1>2. IInv => LoopTargets
    BY DEF IInv
  <1>3. QED
    BY <1>1, <1>2, PTL

----------------------------------------------------------------------------
(* Lists and code *)

IsList(s) == Len(s) \in Nat /\ s = [i \in 1..Len(s) |-> s[i]]

LEMMA ListsJoin ==
    ASSUME NEW s, NEW t, IsList(s), IsList(t)
    PROVE  /\ IsList(s \o t) /\ Len(s \o t) = Len(s) + Len(t)
           /\ \A i \in 1..Len(s) : (s \o t)[i] = s[i]
           /\ \A i \in 1..Len(t) : (s \o t)[Len(s) + i] = t[i]
           /\ \A k \in 1..Len(s \o t) : k \in 1..Len(s) \/ \E i \in 1..Len(t) : k = Len(s) + i
  <1> DEFINE S == {s[i] : i \in 1..Len(s)} \cup {t[i] : i \in 1..Len(t)}
  <1>1. s \in Seq(S) /\ t \in Seq(S)
    BY ElementsOfSeq, SeqMonotonic DEF IsList
  <1>2. Len(s) \in Nat /\ Len(t) \in Nat
    BY DEF IsList
  <1> HIDE DEF S
  <1>3. /\ s \o t \in Seq(S) /\ Len(s \o t) = Len(s) + Len(t)
        /\ \A i \in 1..Len(s) + Len(t) : (s \o t)[i] = IF i <= Len(s) THEN s[i] ELSE t[i - Len(s)]
    BY <1>1, ConcatProperties
  <1>4. IsList(s \o t)
    BY <1>3, LenProperties DEF IsList
  <1>5. /\ \A i \in 1..Len(s) : (s \o t)[i] = s[i]
        /\ \A i \in 1..Len(t) : (s \o t)[Len(s) + i] = t[i]
    BY <1>2, <1>3
  <1>6. \A k \in 1..Len(s) + Len(t) : k \in 1..Len(s) \/ (k - Len(s) \in 1..Len(t) /\ k = Len(s) + (k - Len(s)))
    BY <1>2
  <1>7. QED
    BY <1>3, <1>4, <1>5, <1>6

LEMMA NotEmpty ==
    ASSUME NEW s, IsList(s), NEW e
    PROVE  Append(s, e) # <<>>
  <1>1. Len(Append(s, e)) = Len(s) + 1 /\ Len(s) \in Nat
    BY Pushed DEF IsList
  <1>2. QED
    BY <1>1

LEMMA ListUpdated ==
    ASSUME NEW s, IsList(s), NEW b \in 1..Len(s), NEW v
    PROVE  LET t == [s EXCEPT ![b] = v] IN
           /\ IsList(t) /\ Len(t) = Len(s) /\ t[b] = v
           /\ \A i \in 1..Len(s) : i # b => t[i] = s[i]
  <1> DEFINE S == {s[i] : i \in 1..Len(s)} \cup {v}
             t == [s EXCEPT ![b] = v]
  <1>1. s \in Seq(S)
    BY ElementsOfSeq, SeqMonotonic DEF IsList
  <1>2. v \in S
    OBVIOUS
  <1> HIDE DEF S
  <1>3. /\ t \in Seq(S) /\ Len(t) = Len(s)
        /\ \A i \in 1..Len(s) : t[i] = IF i = b THEN v ELSE s[i]
    BY <1>1, <1>2, ExceptSeq
  <1>4. IsList(t)
    BY <1>3, LenProperties DEF IsList
  <1>5. QED
    BY <1>3, <1>4

\* Code that goes on, and code that does not.
Straight(code) == IsList(code) /\ \A i \in 1..Len(code) : code[i].op \notin Terminators
Ended(code) ==
    /\ IsList(code) /\ Len(code) # 0
    /\ \A i \in 1..Len(code) : code[i].op \in Terminators <=> i = Len(code)

\* Where an instruction of b goes belongs to the function of b, if b has the owner
\* own[b] and the functions in loose are those whose head may fail.
Aims(own, loose, b, i) ==
    \/ IsWithoutFunction(i)
    \/ i.op = "term" /\ own[b] \in loose
    \/ \A to \in TargetsOf(i) : to \in DOMAIN own /\ own[to] = own[b]
AllAim(own, loose, b, code) == \A i \in 1..Len(code) : Aims(own, loose, b, code[i])

LEMMA StraightJoined ==
    ASSUME NEW c, NEW d, Straight(c)
    PROVE  /\ Straight(d) => Straight(c \o d)
           /\ Ended(d) => Ended(c \o d)
  <1>1. CASE Straight(d)
    <2>1. IsList(c) /\ IsList(d)
      BY <1>1 DEF Straight
    <2>2. Straight(c \o d)
      BY <1>1, <2>1, ListsJoin DEF Straight
    <2>3. ~Ended(d)
      BY <1>1, <2>1 DEF Straight, Ended, IsList
    <2>4. QED
      BY <2>2, <2>3
  <1>2. CASE Ended(d)
    <2>1. IsList(c) /\ IsList(d) /\ Len(c) \in Nat /\ Len(d) \in Nat \ {0}
      BY <1>2 DEF Straight, Ended, IsList
    <2>2. IsList(c \o d) /\ Len(c \o d) = Len(c) + Len(d) /\ Len(c \o d) # 0
      BY <2>1, ListsJoin
    <2>3. ASSUME NEW k \in 1..Len(c \o d)
          PROVE  (c \o d)[k].op \in Terminators <=> k = Len(c \o d)
      <3>1. CASE k \in 1..Len(c)
        BY <2>1, <2>2, <3>1, ListsJoin DEF Straight
      <3>2. ASSUME NEW i \in 1..Len(d), k = Len(c) + i PROVE (c \o d)[k].op \in Terminators <=> k = Len(c \o d)
        <4>1. (c \o d)[k] = d[i]
          BY <2>1, <3>2, ListsJoin
        <4>2. k = Len(c \o d) <=> i = Len(d)
          BY <2>1, <2>2, <3>2
        <4>3. QED
          BY <1>2, <4>1, <4>2 DEF Ended
      <3>3. QED
        BY <2>1, <3>1, <3>2, ListsJoin
    <2>4. QED
      BY <2>2, <2>3, <2>1 DEF Ended, Straight
  <1>3. QED
    BY <1>1, <1>2

LEMMA AimsJoined ==
    ASSUME NEW own, NEW loose, NEW b, NEW c, NEW d, IsList(c), IsList(d),
           AllAim(own, loose, b, c), AllAim(own, loose, b, d)
    PROVE  AllAim(own, loose, b, c \o d)
  BY ListsJoin DEF AllAim

----------------------------------------------------------------------------
(* Blocks laid out *)

\* A block that is owed is in no function yet, and has no code; code can be emitted
\* to the open ones; the others are whole.
IsLaid(block, b, own, function, loose, owed, open) ==
    /\ DOMAIN block = {"in", "code"} /\ IsList(block.code)
    /\ AllAim(own, loose, b, block.code)
    /\ b \in owed => block.in = NoFunction /\ own[b] = function /\ block.code = <<>>
    /\ b \notin owed => block.in = own[b] /\ own[b] \in 1..function
    /\ b \in open => own[b] = function /\ Straight(block.code)
    /\ b \notin owed \cup open => Ended(block.code) \/ IsSpoilt(block.code)

Laid(bs, own, function, loose, owed, open) ==
    /\ IsList(bs) /\ 1..Len(bs) \subseteq DOMAIN own
    /\ owed \cup open \subseteq 1..Len(bs) /\ owed \cap open = {}
    /\ \A b \in 1..Len(bs) : IsLaid(bs[b], b, own, function, loose, owed, open)

\* Blocks that come behind n others.
Joins(n, new, own, function, loose, owed, open, owedNow, openNow) ==
    /\ IsList(new) /\ 1..n + Len(new) \subseteq DOMAIN own
    /\ owedNow \cap openNow = {} /\ owed \subseteq owedNow /\ open \subseteq openNow
    /\ (owedNow \ owed) \cup (openNow \ open) \subseteq n + 1..n + Len(new)
    /\ \A i \in 1..Len(new) : IsLaid(new[i], n + i, own, function, loose, owedNow, openNow)

LEMMA LaidJoined ==
    ASSUME NEW bs, NEW own, NEW function, NEW loose, NEW owed, NEW open,
           Laid(bs, own, function, loose, owed, open),
           NEW new, NEW owedNow, NEW openNow,
           Joins(Len(bs), new, own, function, loose, owed, open, owedNow, openNow)
    PROVE  /\ Laid(bs \o new, own, function, loose, owedNow, openNow)
           /\ Len(bs \o new) = Len(bs) + Len(new)
  <1>1. IsList(bs) /\ IsList(new) /\ Len(bs) \in Nat /\ Len(new) \in Nat
    BY DEF Laid, IsList, Joins
  <1>2. /\ IsList(bs \o new) /\ Len(bs \o new) = Len(bs) + Len(new)
        /\ \A i \in 1..Len(bs) : (bs \o new)[i] = bs[i]
        /\ \A i \in 1..Len(new) : (bs \o new)[Len(bs) + i] = new[i]
        /\ \A k \in 1..Len(bs \o new) : k \in 1..Len(bs) \/ \E i \in 1..Len(new) : k = Len(bs) + i
    BY <1>1, ListsJoin
  <1>3. /\ owedNow \cup openNow \subseteq 1..Len(bs) + Len(new)
        /\ \A b \in 1..Len(bs) : (b \in owedNow <=> b \in owed) /\ (b \in openNow <=> b \in open)
    BY <1>1 DEF Laid, Joins
  <1>4. ASSUME NEW b \in 1..Len(bs)
        PROVE  IsLaid((bs \o new)[b], b, own, function, loose, owedNow, openNow)
    <2>1. IsLaid(bs[b], b, own, function, loose, owed, open)
      BY DEF Laid
    <2>2. QED
      BY <1>2, <1>3, <2>1 DEF IsLaid
  <1>5. \A b \in 1..Len(bs \o new) : IsLaid((bs \o new)[b], b, own, function, loose, owedNow, openNow)
    BY <1>2, <1>4 DEF Joins
  <1>6. 1..Len(bs \o new) \subseteq DOMAIN own /\ owedNow \cap openNow = {}
    BY <1>2 DEF Joins
  <1>7. QED
    BY <1>2, <1>3, <1>5, <1>6 DEF Laid

\* Emit changes the code of one block, Put the function.
LEMMA EmitIs ==
    ASSUME NEW bs, IsList(bs), NEW b \in 1..Len(bs), DOMAIN bs[b] = {"in", "code"}, NEW code
    PROVE  /\ IsList(Emit(bs, b, code)) /\ Len(Emit(bs, b, code)) = Len(bs)
           /\ \A i \in 1..Len(bs) : i # b => Emit(bs, b, code)[i] = bs[i]
           /\ DOMAIN Emit(bs, b, code)[b] = {"in", "code"} /\ Emit(bs, b, code)[b].in = bs[b].in
           /\ Emit(bs, b, code)[b].code = bs[b].code \o code
  <1> DEFINE block == [bs[b] EXCEPT !.code = bs[b].code \o code]
             new   == [bs EXCEPT ![b] = block]
  <1>1. Emit(bs, b, code) = new
    BY DEF Emit
  <1>2. DOMAIN block = {"in", "code"} /\ block.in = bs[b].in /\ block.code = bs[b].code \o code
    OBVIOUS
  <1> HIDE DEF block
  <1>3. /\ IsList(new) /\ Len(new) = Len(bs) /\ new[b] = block
        /\ \A i \in 1..Len(bs) : i # b => new[i] = bs[i]
    BY ListUpdated
  <1> HIDE DEF new
  <1>4. QED
    BY <1>1, <1>2, <1>3

LEMMA PutIs ==
    ASSUME NEW bs, IsList(bs), NEW b \in 1..Len(bs), DOMAIN bs[b] = {"in", "code"}
    PROVE  LET new == Put(bs, b) IN
           /\ IsList(new) /\ Len(new) = Len(bs)
           /\ \A i \in 1..Len(bs) : i # b => new[i] = bs[i]
           /\ DOMAIN new[b] = {"in", "code"} /\ new[b].code = bs[b].code
           /\ new[b].in = currentFunction
  <1> DEFINE block == [bs[b] EXCEPT !.in = currentFunction]
             new   == [bs EXCEPT ![b] = block]
  <1>1. Put(bs, b) = new
    BY DEF Put
  <1>2. DOMAIN block = {"in", "code"} /\ block.in = currentFunction /\ block.code = bs[b].code
    OBVIOUS
  <1> HIDE DEF block
  <1>3. /\ IsList(new) /\ Len(new) = Len(bs) /\ new[b] = block
        /\ \A i \in 1..Len(bs) : i # b => new[i] = bs[i]
    BY ListUpdated
  <1> HIDE DEF new
  <1>4. QED
    BY <1>1, <1>2, <1>3

\* A block changes while the others are left alone.
LEMMA OneBlockLaid ==
    ASSUME NEW bs, NEW own, NEW function, NEW loose, NEW owed, NEW open,
           Laid(bs, own, function, loose, owed, open),
           NEW b \in 1..Len(bs), NEW new, IsList(new), Len(new) = Len(bs),
           \A i \in 1..Len(bs) : i # b => new[i] = bs[i],
           NEW owedNow, NEW openNow, owedNow \cup openNow \subseteq 1..Len(bs), owedNow \cap openNow = {},
           \A i \in 1..Len(bs) : i # b => (i \in owedNow <=> i \in owed) /\ (i \in openNow <=> i \in open),
           IsLaid(new[b], b, own, function, loose, owedNow, openNow)
    PROVE  Laid(new, own, function, loose, owedNow, openNow)
  <1>1. ASSUME NEW i \in 1..Len(bs), i # b
        PROVE  IsLaid(new[i], i, own, function, loose, owedNow, openNow)
    <2>1. IsLaid(bs[i], i, own, function, loose, owed, open)
      BY DEF Laid
    <2>2. QED
      BY <1>1, <2>1 DEF IsLaid
  <1>2. QED
    BY <1>1 DEF Laid

\* Code is emitted to an open block, which stays open or is ended by it.
LEMMA Emitted ==
    ASSUME NEW bs, NEW own, NEW function, NEW loose, NEW owed, NEW open,
           Laid(bs, own, function, loose, owed, open),
           NEW b \in open, NEW code, AllAim(own, loose, b, code)
    PROVE  /\ Len(Emit(bs, b, code)) = Len(bs)
           /\ Straight(code) => Laid(Emit(bs, b, code), own, function, loose, owed, open)
           /\ Ended(code) => Laid(Emit(bs, b, code), own, function, loose, owed, open \ {b})
  <1> DEFINE new == Emit(bs, b, code)
  <1>1. b \in 1..Len(bs) /\ IsLaid(bs[b], b, own, function, loose, owed, open) /\ IsList(bs) /\ b \notin owed
    BY DEF Laid
  <1>2. DOMAIN bs[b] = {"in", "code"}
    BY <1>1 DEF IsLaid
  <1>3. /\ IsList(new) /\ Len(new) = Len(bs)
        /\ \A i \in 1..Len(bs) : i # b => new[i] = bs[i]
        /\ DOMAIN new[b] = {"in", "code"} /\ new[b].in = bs[b].in
        /\ new[b].code = bs[b].code \o code
    BY <1>1, <1>2, EmitIs
  <1> HIDE DEF new
  <1>4. Straight(bs[b].code) /\ IsList(bs[b].code) /\ AllAim(own, loose, b, bs[b].code)
    BY <1>1 DEF IsLaid
  <1>5. ASSUME IsList(code)
        PROVE  IsList(new[b].code) /\ AllAim(own, loose, b, new[b].code)
    BY <1>3, <1>4, <1>5, AimsJoined, ListsJoin
  <1>6. CASE Straight(code)
    <2>1. Straight(new[b].code) /\ IsList(code)
      BY <1>3, <1>4, <1>6, StraightJoined DEF Straight
    <2>2. IsLaid(new[b], b, own, function, loose, owed, open)
      BY <1>1, <1>3, <1>5, <2>1 DEF IsLaid
    <2>3. owed \cup open \subseteq 1..Len(bs) /\ owed \cap open = {}
      BY DEF Laid
    <2>4. Laid(new, own, function, loose, owed, open)
      BY <1>1, <1>3, <2>2, <2>3, OneBlockLaid
    <2>5. ~Ended(code)
      BY <1>6 DEF Straight, Ended, IsList
    <2>6. QED
      BY <1>3, <2>4, <2>5 DEF new
  <1>7. CASE Ended(code)
    <2> DEFINE less == open \ {b}
    <2>1. Ended(new[b].code)
      BY <1>3, <1>4, <1>7, StraightJoined
    <2>2. Ended(new[b].code) /\ IsList(code)
      BY <1>7, <2>1 DEF Ended
    <2>3. IsLaid(new[b], b, own, function, loose, owed, less)
      BY <1>1, <1>3, <1>5, <2>2 DEF IsLaid
    <2>4. owed \cup less \subseteq 1..Len(bs) /\ owed \cap less = {}
      BY DEF Laid
    <2>5. \A i \in 1..Len(bs) : i # b => (i \in less <=> i \in open)
      OBVIOUS
    <2> HIDE DEF less
    <2>6. Laid(new, own, function, loose, owed, less)
      BY <1>1, <1>3, <2>3, <2>4, <2>5, OneBlockLaid
    <2>7. ~Straight(code)
      BY <1>7 DEF Straight, Ended, IsList
    <2>8. QED
      BY <1>3, <2>6, <2>7 DEF new, less
  <1>8. Len(Emit(bs, b, code)) = Len(bs)
    BY <1>3 DEF new
  <1>9. QED
    BY <1>6, <1>7, <1>8

LEMMA EmittedLast ==
    ASSUME NEW bs, NEW own, NEW function, NEW loose, NEW owed, NEW b,
           Laid(bs, own, function, loose, owed, {b}),
           NEW code, AllAim(own, loose, b, code), Ended(code)
    PROVE  Laid(Emit(bs, b, code), own, function, loose, owed, {}) /\ Len(Emit(bs, b, code)) = Len(bs)
  <1>1. b \in {b} /\ {b} \ {b} = {}
    OBVIOUS
  <1>2. /\ Laid(Emit(bs, b, code), own, function, loose, owed, {b} \ {b})
        /\ Len(Emit(bs, b, code)) = Len(bs)
    BY <1>1, Emitted
  <1>3. QED
    BY <1>1, <1>2

\* A block that was owed is put into the function.
LEMMA PutLaid ==
    ASSUME currentFunction \in Nat \ {0},
           NEW bs, NEW own, NEW loose, NEW owed, NEW open,
           Laid(bs, own, currentFunction, loose, owed, open), NEW b \in owed
    PROVE  /\ Laid(Put(bs, b), own, currentFunction, loose, owed \ {b}, open \cup {b})
           /\ Len(Put(bs, b)) = Len(bs)
  <1> DEFINE new  == Put(bs, b)
             less == owed \ {b}
             more == open \cup {b}
  <1>1. b \in 1..Len(bs) /\ IsLaid(bs[b], b, own, currentFunction, loose, owed, open) /\ IsList(bs)
    BY DEF Laid
  <1>2. /\ IsList(new) /\ Len(new) = Len(bs)
        /\ \A i \in 1..Len(bs) : i # b => new[i] = bs[i]
        /\ DOMAIN new[b] = {"in", "code"} /\ new[b].code = bs[b].code
        /\ new[b].in = currentFunction
    BY <1>1, PutIs DEF IsLaid
  <1>3. Straight(bs[b].code) /\ own[b] = currentFunction
    BY <1>1 DEF IsLaid, Straight
  <1>4. less \cup more \subseteq 1..Len(bs) /\ less \cap more = {}
    BY DEF Laid
  <1>5. \A i \in 1..Len(bs) : i # b => (i \in less <=> i \in owed) /\ (i \in more <=> i \in open)
    OBVIOUS
  <1>6. b \notin less /\ b \in more
    OBVIOUS
  <1>7. IsLaid(new[b], b, own, currentFunction, loose, less, more)
    BY <1>1, <1>2, <1>3, <1>6 DEF IsLaid
  <1> HIDE DEF new, less, more
  <1>8. Laid(new, own, currentFunction, loose, less, more)
    BY <1>1, <1>2, <1>4, <1>5, <1>7, OneBlockLaid
  <1>9. QED
    BY <1>2, <1>8 DEF new, less, more

LEMMA LaidWithin ==
    ASSUME NEW bs, NEW own, NEW function, NEW loose, NEW owed, NEW open,
           Laid(bs, own, function, loose, owed, open)
    PROVE  /\ \A b \in owed \cup open : b \in 1..Len(bs) /\ b \in DOMAIN own /\ own[b] = function
           /\ \A b \in open : function \in 1..function
  <1>1. ASSUME NEW b \in owed \cup open
        PROVE  b \in 1..Len(bs) /\ b \in DOMAIN own /\ own[b] = function
    BY DEF Laid, IsLaid
  <1>2. ASSUME NEW b \in open PROVE own[b] \in 1..function
    BY DEF Laid, IsLaid
  <1>3. QED
    BY <1>1, <1>2

\* There may be more blocks and functions later.
LEMMA LaidLater ==
    ASSUME NEW bs, NEW own, NEW function \in Nat, NEW loose, NEW owed, NEW open,
           Laid(bs, own, function, loose, owed, open),
           NEW ownLater, NEW later \in Nat, NEW looseLater, loose \subseteq looseLater,
           \A b \in DOMAIN own : b \in DOMAIN ownLater /\ ownLater[b] = own[b],
           \/ later = function
           \/ function <= later /\ owed = {} /\ open = {}
    PROVE  Laid(bs, ownLater, later, looseLater, owed, open)
  <1>1. ASSUME NEW b \in 1..Len(bs)
        PROVE  IsLaid(bs[b], b, ownLater, later, looseLater, owed, open)
    <2>1. b \in DOMAIN own /\ ownLater[b] = own[b] /\ IsLaid(bs[b], b, own, function, loose, owed, open)
      BY DEF Laid
    <2>2. ASSUME NEW i, Aims(own, loose, b, i) PROVE Aims(ownLater, looseLater, b, i)
      BY <2>1, <2>2 DEF Aims
    <2>3. AllAim(ownLater, looseLater, b, bs[b].code)
      BY <2>1, <2>2 DEF AllAim, IsLaid
    <2>4. QED
      BY <2>1, <2>3 DEF IsLaid
  <1>2. QED
    BY <1>1 DEF Laid

\* New blocks.
LEMMA NewLaid ==
    ASSUME NEW own, NEW function \in Nat \ {0}, NEW loose, NEW owed, NEW open, NEW b,
           b \in DOMAIN own, own[b] = function
    PROVE  /\ b \in owed /\ b \notin open =>
                 IsLaid(Block(NoFunction), b, own, function, loose, owed, open)
           /\ b \in open /\ b \notin owed =>
                 IsLaid(Block(function), b, own, function, loose, owed, open)
           /\ \A code : Ended(code) /\ AllAim(own, loose, b, code) /\ b \notin owed \cup open =>
                 IsLaid([in |-> function, code |-> code], b, own, function, loose, owed, open)
  <1>1. IsList(<<>>) /\ AllAim(own, loose, b, <<>>) /\ Straight(<<>>)
    BY DEF IsList, AllAim, Straight
  <1>2. ASSUME NEW code, Ended(code) PROVE IsList(code)
    BY <1>2 DEF Ended
  <1>3. QED
    BY <1>1, <1>2 DEF IsLaid, Block

----------------------------------------------------------------------------
(* Instructions *)

LEMMA FunctionIsList ==
    ASSUME NEW f, NEW n \in Nat, f = [i \in 1..n |-> f[i]]
    PROVE  IsList(f) /\ Len(f) = n
  <1> DEFINE S == {f[i] : i \in 1..n}
  <1>1. f \in [1..n -> S]
    OBVIOUS
  <1> HIDE DEF S
  <1>2. f \in Seq(S)
    BY <1>1, SeqDef
  <1>3. Len(f) \in Nat /\ DOMAIN f = 1..Len(f)
    BY <1>2, LenProperties
  <1>4. Len(f) = n
    BY <1>1, <1>3
  <1>5. QED
    BY <1>4 DEF IsList

LEMMA TwoInstructions ==
    ASSUME NEW i, NEW j
    PROVE  <<i>> \o <<j>> = <<i, j>>
  <1> DEFINE S == {i, j}
  <1>1. i \in S /\ j \in S
    OBVIOUS
  <1> HIDE DEF S
  <1>2. <<i>> \in Seq(S) /\ <<j>> \in Seq(S) /\ <<i, j>> \in Seq(S)
    BY <1>1
  <1>3. /\ <<i>> \o <<j>> \in Seq(S) /\ Len(<<i>> \o <<j>>) = 2
        /\ (<<i>> \o <<j>>)[1] = i /\ (<<i>> \o <<j>>)[2] = j
    BY <1>2
  <1>4. Len(<<i, j>>) = 2 /\ <<i, j>>[1] = i /\ <<i, j>>[2] = j
    OBVIOUS
  <1>5. \A k \in 1..2 : k = 1 \/ k = 2
    OBVIOUS
  <1>6. \A k \in 1..Len(<<i>> \o <<j>>) : (<<i>> \o <<j>>)[k] = <<i, j>>[k]
    BY <1>3, <1>4, <1>5
  <1>7. Len(<<i>> \o <<j>>) = Len(<<i, j>>)
    BY <1>3, <1>4
  <1>8. QED
    BY <1>2, <1>3, <1>6, <1>7, SeqEqual

LEMMA Instructions ==
    ASSUME NEW own, NEW loose, NEW b, NEW i, Aims(own, loose, b, i)
    PROVE  /\ AllAim(own, loose, b, <<i>>)
           /\ i.op \notin Terminators => Straight(<<i>>)
           /\ i.op \in Terminators => Ended(<<i>>)
  <1>1. IsList(<<i>>) /\ Len(<<i>>) = 1 /\ <<i>>[1] = i
    BY DEF IsList
  <1>2. QED
    BY <1>1 DEF AllAim, Straight, Ended

\* Expressions fail within the function, and go on otherwise.
LEMMA TermAims ==
    ASSUME NEW own, NEW loose, NEW b, NEW e,
           own[b] \in loose \/ (failedBlock \in DOMAIN own /\ own[failedBlock] = own[b])
    PROVE  Aims(own, loose, b, Term(e)) /\ Term(e).op \notin Terminators
  BY DEF Aims, Term, TargetsOf, Terminators

LEMMA TermsAim ==
    ASSUME NEW own, NEW loose, NEW b, NEW es, Len(es) \in Nat,
           own[b] \in loose \/ (failedBlock \in DOMAIN own /\ own[failedBlock] = own[b])
    PROVE  AllAim(own, loose, b, Terms(es)) /\ Straight(Terms(es))
  <1>1. IsList(Terms(es)) /\ Len(Terms(es)) = Len(es)
    BY FunctionIsList DEF Terms
  <1>2. \A i \in 1..Len(es) : Terms(es)[i] = Term(es[i])
    BY DEF Terms
  <1>3. QED
    BY <1>1, <1>2, TermAims DEF AllAim, Straight

LEMMA GoalsAim ==
    ASSUME NEW own, NEW loose, NEW b, NEW es, Len(es) \in Nat,
           failedBlock \in DOMAIN own /\ own[failedBlock] = own[b]
    PROVE  AllAim(own, loose, b, Goals(es)) /\ Straight(Goals(es))
  <1>1. 2 * Len(es) \in Nat
    OBVIOUS
  <1>2. IsList(Goals(es)) /\ Len(Goals(es)) = 2 * Len(es)
    BY <1>1, FunctionIsList DEF Goals
  <1>3. ASSUME NEW i \in 1..2 * Len(es)
        PROVE  Goals(es)[i] = [op |-> "goal"] \/ \E e : Goals(es)[i] = Term(e)
    BY DEF Goals
  <1>4. Aims(own, loose, b, [op |-> "goal"]) /\ [op |-> "goal"].op \notin Terminators
    BY DEF Aims, TargetsOf, Terminators
  <1>5. QED
    BY <1>2, <1>3, <1>4, TermAims DEF AllAim, Straight

\* To jump to a block of the function.
LEMMA BrAims ==
    ASSUME NEW own, NEW loose, NEW b, NEW to \in DOMAIN own, own[to] = own[b]
    PROVE  AllAim(own, loose, b, <<Br(to)>>) /\ Ended(<<Br(to)>>)
  <1>1. Aims(own, loose, b, Br(to)) /\ Br(to).op \in Terminators
    BY DEF Aims, Br, TargetsOf, Terminators
  <1>2. QED
    BY <1>1, Instructions

LEMMA TestAims ==
    ASSUME NEW own, NEW loose, NEW b, NEW yes \in DOMAIN own, NEW no \in DOMAIN own,
           own[yes] = own[b], own[no] = own[b]
    PROVE  AllAim(own, loose, b, <<Test(yes, no)>>) /\ Ended(<<Test(yes, no)>>)
  <1>1. Aims(own, loose, b, Test(yes, no)) /\ Test(yes, no).op \in Terminators
    BY DEF Aims, Test, TargetsOf, Terminators
  <1>2. QED
    BY <1>1, Instructions

\* What follows straight code.
LEMMA CodeJoined ==
    ASSUME NEW own, NEW loose, NEW b, NEW c, NEW d,
           Straight(c), AllAim(own, loose, b, c), AllAim(own, loose, b, d)
    PROVE  /\ Straight(d) => Straight(c \o d) /\ AllAim(own, loose, b, c \o d)
           /\ Ended(d) => Ended(c \o d) /\ AllAim(own, loose, b, c \o d)
  <1>1. IsList(c) /\ (Straight(d) \/ Ended(d) => IsList(d))
    BY DEF Straight, Ended
  <1>2. QED
    BY <1>1, StraightJoined, AimsJoined

----------------------------------------------------------------------------
(* Visitors and the blocks they owe *)

\* The blocks that a visitor will put into the function.
Owes(f, failed) ==
    CASE f.of = "function" -> {f.footer, failed}
      [] f.of = "then"     -> {f.false, f.after}
      [] f.of = "else"     -> {f.after}
      [] f.of = "for"      -> {f.after, f.next}
      [] OTHER             -> {}
Owed(fs, failed) == UNION {Owes(fs[i], failed) : i \in 1..Len(fs)}

IsVisitor(f, failed, own, function, S) ==
    /\ "rest" \in DOMAIN f /\ f.rest \in Seq(S)
    /\ f.of = "function" => f.footer # failed
    /\ f.of = "then" => f.false # f.after /\ f.else \in Seq(S)
    /\ f.of = "for" => /\ f.after # f.next /\ Len(f.last) \in Nat
                       /\ f.condition \in DOMAIN own /\ own[f.condition] = function

Stacked(fs, failed, own, function, S) ==
    /\ \A i \in 1..Len(fs) : IsVisitor(fs[i], failed, own, function, S)
    /\ \A i, j \in 1..Len(fs) : i # j => Owes(fs[i], failed) \cap Owes(fs[j], failed) = {}

LEMMA StackPushed ==
    ASSUME NEW fs, IsList(fs), NEW failed, NEW own, NEW function, NEW S,
           Stacked(fs, failed, own, function, S),
           NEW f, IsVisitor(f, failed, own, function, S), Owes(f, failed) \cap Owed(fs, failed) = {}
    PROVE  /\ Stacked(Append(fs, f), failed, own, function, S)
           /\ Owed(Append(fs, f), failed) = Owed(fs, failed) \cup Owes(f, failed)
  <1> DEFINE gs == Append(fs, f)
  <1>1. /\ Len(gs) = Len(fs) + 1 /\ Len(fs) \in Nat
        /\ \A i \in 1..Len(fs) : gs[i] = fs[i]
        /\ gs[Len(fs) + 1] = f
    BY Pushed DEF IsList
  <1> HIDE DEF gs
  <1>2. \A i \in 1..Len(gs) : i \in 1..Len(fs) \/ i = Len(fs) + 1
    BY <1>1
  <1>3. \A i \in 1..Len(fs) : Owes(fs[i], failed) \subseteq Owed(fs, failed)
    BY DEF Owed
  <1>4. Stacked(gs, failed, own, function, S)
    <2>1. \A i \in 1..Len(gs) : IsVisitor(gs[i], failed, own, function, S)
      BY <1>1, <1>2 DEF Stacked
    <2>2. ASSUME NEW i \in 1..Len(gs), NEW j \in 1..Len(gs), i # j
          PROVE  Owes(gs[i], failed) \cap Owes(gs[j], failed) = {}
      BY <1>1, <1>2, <1>3, <2>2 DEF Stacked
    <2>3. QED
      BY <2>1, <2>2 DEF Stacked
  <1>5. Owed(gs, failed) = Owed(fs, failed) \cup Owes(f, failed)
    <2>1. /\ 1..Len(fs) \subseteq 1..Len(gs) /\ Len(fs) + 1 \in 1..Len(gs)
      BY <1>1
    <2>2. Owed(gs, failed) \subseteq Owed(fs, failed) \cup Owes(f, failed)
      BY <1>1, <1>2, <1>3 DEF Owed
    <2>3. ASSUME NEW x \in Owed(fs, failed) PROVE x \in Owed(gs, failed)
      BY <1>1, <2>1 DEF Owed
    <2>4. Owes(f, failed) \subseteq Owed(gs, failed)
      BY <1>1, <2>1 DEF Owed
    <2>5. QED
      BY <2>2, <2>3, <2>4
  <1>6. QED
    BY <1>4, <1>5 DEF gs

LEMMA StackPopped ==
    ASSUME NEW fs, IsList(fs), Len(fs) # 0, NEW failed, NEW own, NEW function, NEW S,
           Stacked(fs, failed, own, function, S)
    PROVE  LET outer == SubSeq(fs, 1, Len(fs) - 1)
               top   == fs[Len(fs)]
           IN  /\ Stacked(outer, failed, own, function, S) /\ IsList(outer)
               /\ Owed(outer, failed) = Owed(fs, failed) \ Owes(top, failed)
               /\ Owes(top, failed) \subseteq Owed(fs, failed)
               /\ IsVisitor(top, failed, own, function, S)
  <1> DEFINE outer == SubSeq(fs, 1, Len(fs) - 1)
             top   == fs[Len(fs)]
  <1>1. /\ Len(outer) = Len(fs) - 1 /\ outer = [i \in 1..Len(outer) |-> outer[i]]
        /\ \A i \in 1..Len(outer) : outer[i] = fs[i]
        /\ Len(fs) \in Nat \ {0} /\ Len(outer) \in Nat
    BY Popped DEF IsList
  <1> HIDE DEF outer
  <1>2. \A i \in 1..Len(fs) : i = Len(fs) \/ i \in 1..Len(outer)
    BY <1>1
  <1>3. 1..Len(outer) \subseteq 1..Len(fs) /\ Len(fs) \in 1..Len(fs) /\ Len(fs) \notin 1..Len(outer)
    BY <1>1
  <1>4. Stacked(outer, failed, own, function, S) /\ IsList(outer)
    BY <1>1, <1>3 DEF Stacked, IsList
  <1>5. Owes(top, failed) \subseteq Owed(fs, failed) /\ IsVisitor(top, failed, own, function, S)
    BY <1>3 DEF Owed, Stacked
  <1>6. ASSUME NEW x \in Owed(outer, failed) PROVE x \in Owed(fs, failed) /\ x \notin Owes(top, failed)
    <2>1. PICK i \in 1..Len(outer) : x \in Owes(outer[i], failed)
      BY DEF Owed
    <2>2. x \in Owes(fs[i], failed) /\ i \in 1..Len(fs) /\ i # Len(fs)
      BY <1>1, <1>3, <2>1
    <2>3. QED
      BY <1>3, <2>2 DEF Owed, Stacked
  <1>7. ASSUME NEW x \in Owed(fs, failed), x \notin Owes(top, failed) PROVE x \in Owed(outer, failed)
    <2>1. PICK i \in 1..Len(fs) : x \in Owes(fs[i], failed)
      BY DEF Owed
    <2>2. i \in 1..Len(outer) /\ x \in Owes(outer[i], failed)
      BY <1>1, <1>2, <1>7, <2>1
    <2>3. QED
      BY <2>2 DEF Owed
  <1>8. QED
    BY <1>4, <1>5, <1>6, <1>7 DEF outer

\* The visitor goes on to its next statement.
LEMMA StackAfter ==
    ASSUME IInv, frames # <<>>, Top.rest # <<>>, NEW failed, NEW own, NEW function, NEW S,
           Stacked(frames, failed, own, function, S)
    PROVE  /\ Stacked(After, failed, own, function, S) /\ IsList(After)
           /\ Owed(After, failed) = Owed(frames, failed)
           /\ Node \in S
  <1> DEFINE f == [Top EXCEPT !.rest = Tail(@)]
  <1>1. IsList(frames) /\ Len(frames) # 0 /\ Fields(Top.of) \subseteq DOMAIN Top
    BY Progress DEF IInv, WellNested, IsList, Top
  <1>2. /\ Stacked(Outer, failed, own, function, S) /\ IsList(Outer)
        /\ Owed(Outer, failed) = Owed(frames, failed) \ Owes(Top, failed)
        /\ Owes(Top, failed) \subseteq Owed(frames, failed)
        /\ IsVisitor(Top, failed, own, function, S)
    BY <1>1, StackPopped DEF Outer, Top
  <1>3. Top.rest \in Seq(S) /\ Node \in S /\ Tail(Top.rest) \in Seq(S)
    BY <1>2, HeadTailProperties DEF IsVisitor, Node
  <1>4. DOMAIN f = DOMAIN Top /\ f.rest = Tail(Top.rest) /\ \A field \in Fields(Top.of) : f[field] = Top[field]
    BY <1>1, <1>2, FieldsInside DEF IsVisitor
  <1>5. f.of = Top.of
    BY <1>4, FieldsInside
  <1> HIDE DEF f
  <1>6. Owes(f, failed) = Owes(Top, failed)
    BY <1>4, <1>5, FieldsInside DEF Owes
  <1>7. IsVisitor(f, failed, own, function, S)
    BY <1>2, <1>3, <1>4, <1>5, FieldsInside DEF IsVisitor
  <1>8. After = Append(Outer, f)
    BY DEF After, f
  <1>9. /\ Stacked(After, failed, own, function, S)
        /\ Owed(After, failed) = Owed(Outer, failed) \cup Owes(f, failed)
    BY <1>2, <1>6, <1>7, <1>8, StackPushed
  <1>10. IsList(After)
    BY <1>1, AfterIsAlike DEF WellNested, IsList
  <1>11. QED
    BY <1>2, <1>3, <1>6, <1>9, <1>10

----------------------------------------------------------------------------
(* The state between two steps *)

Loose(fs) == {i \in 1..Len(fs) : HeadMayFail(fs[i])}
Open      == IF frames = <<>> THEN {} ELSE {at}

Whole(own, S) ==
    /\ DOMAIN own = 1..Len(blocks)
    /\ Laid(blocks, own, currentFunction, Loose(made), Owed(frames, failedBlock), Open)
    /\ Stacked(frames, failedBlock, own, currentFunction, S)

CodeInv(S, T) ==
    /\ IInv
    /\ pending \in Seq(T) /\ made \in Seq(T)
    /\ \E own : Whole(own, S)

\* A set of numbers has a least one.
LEMMA LeastOf ==
    ASSUME NEW N, N \subseteq Nat, N # {}
    PROVE  \E n \in N : \A m \in N : n <= m
  <1> DEFINE less == OpToRel(<, Nat)
  <1>1. \A m, n \in Nat : m < n => <<m, n>> \in less
    BY DEF OpToRel
  <1> HIDE DEF less
  <1>2. IsWellFoundedOn(less, Nat)
    BY NatLessThanWellFounded DEF less
  <1>3. PICK n \in N : \A m \in N : <<m, n>> \notin less
    BY <1>2, WFMin
  <1>4. \A m \in N : ~ (m < n)
    BY <1>1, <1>3
  <1>5. \A m \in N : n <= m
    BY <1>4
  <1>6. QED
    BY <1>5

LEMMA InnermostExists ==
    ASSUME NEW fs, NEW k \in Nat, ~NoLoop(fs, k)
    PROVE  \E i \in 1..k : IsInnermost(fs, i, k)
  <1> DEFINE N == {k - i : i \in {j \in 1..k : fs[j].of = "for"}}
  <1>1. N \subseteq Nat /\ N # {}
    BY DEF NoLoop
  <1>2. PICK n \in N : \A m \in N : n <= m
    BY <1>1, LeastOf
  <1>3. PICK i \in 1..k : fs[i].of = "for" /\ n = k - i
    BY <1>2
  <1>4. ASSUME NEW j \in i + 1..k, fs[j].of = "for" PROVE FALSE
    <2>1. k - j \in N
      BY <1>3, <1>4
    <2>2. n <= k - j
      BY <1>2, <2>1
    <2>3. QED
      BY <1>3, <2>2
  <1>5. QED
    BY <1>3, <1>4 DEF IsInnermost

\* The blocks that break, continue and failures jump to are owed.
LEMMA TargetsOwed ==
    ASSUME IInv, frames # <<>>
    PROVE  /\ afterForBlock \in Owed(frames, failedBlock)
           /\ failedBlock \in Owed(frames, failedBlock)
           /\ nextForBlock # NoBlock => nextForBlock \in Owed(frames, failedBlock)
  <1>1. /\ Len(frames) \in Nat \ {0} /\ 1 \in 1..Len(frames) /\ frames[1].of = "function"
        /\ TargetsAt(frames, Len(frames), afterForBlock, nextForBlock)
    <2>1. Len(frames) \in Nat \ {0}
      BY Progress DEF IInv
    <2>2. QED
      BY <2>1 DEF IInv, WellNested, LoopTargets
  <1>2. {frames[1].footer, failedBlock} \subseteq Owed(frames, failedBlock)
    BY <1>1 DEF Owed, Owes
  <1>3. CASE NoLoop(frames, Len(frames))
    BY <1>1, <1>2, <1>3 DEF TargetsAt
  <1>4. CASE ~NoLoop(frames, Len(frames))
    <2>1. PICK i \in 1..Len(frames) : IsInnermost(frames, i, Len(frames))
      BY <1>1, <1>4, InnermostExists
    <2>2. afterForBlock = frames[i].after /\ nextForBlock = frames[i].next
      BY <1>1, <2>1 DEF TargetsAt
    <2>3. Owes(frames[i], failedBlock) = {frames[i].after, frames[i].next}
      BY <2>1 DEF Owes, IsInnermost
    <2>4. QED
      BY <1>2, <2>2, <2>3 DEF Owed
  <1>5. QED
    BY <1>3, <1>4

\* What holds while a function is emitted, when n blocks are to be added.
Ahead(own, n, S) ==
    /\ DOMAIN own = 1..Len(blocks) + n
    /\ \A b \in Len(blocks) + 1..Len(blocks) + n : own[b] = currentFunction
    /\ Laid(blocks, own, currentFunction, Loose(made), Owed(frames, failedBlock), {at})
    /\ Stacked(frames, failedBlock, own, currentFunction, S)
    /\ \A b \in Owed(frames, failedBlock) \cup {at} :
          b \in 1..Len(blocks) /\ b \in DOMAIN own /\ own[b] = currentFunction
    /\ at \notin Owed(frames, failedBlock)

LEMMA StackLater ==
    ASSUME NEW fs, NEW failed, NEW own, NEW function, NEW S, Stacked(fs, failed, own, function, S),
           NEW later, \A b \in DOMAIN own : b \in DOMAIN later /\ later[b] = own[b]
    PROVE  Stacked(fs, failed, later, function, S)
  BY DEF Stacked, IsVisitor

LEMMA WholeAhead ==
    ASSUME NEW S, NEW T, CodeInv(S, T), frames # <<>>, NEW n \in Nat
    PROVE  /\ \E own : Ahead(own, n, S)
           /\ currentFunction \in Nat \ {0} /\ IsList(blocks) /\ Len(blocks) \in Nat
  <1>1. PICK own : Whole(own, S)
    BY DEF CodeInv
  <1>2. /\ Laid(blocks, own, currentFunction, Loose(made), Owed(frames, failedBlock), {at})
        /\ Stacked(frames, failedBlock, own, currentFunction, S)
        /\ DOMAIN own = 1..Len(blocks)
    BY <1>1 DEF Whole, Open
  <1>3. currentFunction \in Nat /\ IsList(blocks) /\ Len(blocks) \in Nat
    BY <1>2, LenProperties DEF CodeInv, currentFunction, Laid, IsList
  <1>4. currentFunction \in Nat \ {0}
    BY <1>2, <1>3, LaidWithin
  <1> DEFINE later == [b \in 1..Len(blocks) + n |-> IF b \in 1..Len(blocks) THEN own[b] ELSE currentFunction]
  <1>5. /\ DOMAIN later = 1..Len(blocks) + n
        /\ \A b \in Len(blocks) + 1..Len(blocks) + n : later[b] = currentFunction
        /\ \A b \in DOMAIN own : b \in DOMAIN later /\ later[b] = own[b]
    BY <1>2, <1>3
  <1> HIDE DEF later
  <1>6. Laid(blocks, later, currentFunction, Loose(made), Owed(frames, failedBlock), {at})
    BY <1>2, <1>3, <1>5, LaidLater
  <1>7. Stacked(frames, failedBlock, later, currentFunction, S)
    BY <1>2, <1>5, StackLater
  <1>8. at \notin Owed(frames, failedBlock)
    BY <1>6 DEF Laid
  <1>9. \A b \in Owed(frames, failedBlock) \cup {at} :
            b \in 1..Len(blocks) /\ b \in DOMAIN later /\ later[b] = currentFunction
    BY <1>6, LaidWithin
  <1>10. Ahead(later, n, S)
    BY <1>5, <1>6, <1>7, <1>8, <1>9 DEF Ahead
  <1>11. QED
    BY <1>3, <1>4, <1>10

LEMMA WholeAgain ==
    ASSUME NEW S, NEW own, frames' # <<>>, UNCHANGED <<made, failedBlock>>,
           DOMAIN own = 1..Len(blocks'),
           Laid(blocks', own, currentFunction, Loose(made), Owed(frames', failedBlock), {at'}),
           Stacked(frames', failedBlock, own, currentFunction, S)
    PROVE  \E later : Whole(later, S)'
  BY DEF Whole, Open, currentFunction

LEMMA ExpressionWhole ==
    ASSUME NEW S, NEW T, MadeOf(S, T), CodeInv(S, T), VisitExpression
    PROVE  \E later : Whole(later, S)'
  <1>1. /\ frames # <<>> /\ Top.rest # <<>> /\ frames' = After
        /\ blocks' = Emit(blocks, at, <<Term(Node.of)>>)
        /\ UNCHANGED <<made, at, failedBlock>>
    BY DEF VisitExpression, Visit
  <1>2. PICK own : Ahead(own, 0, S)
    BY <1>1, WholeAhead
  <1>3. IInv /\ failedBlock \in Owed(frames, failedBlock) /\ Len(blocks) \in Nat
    BY <1>1, TargetsOwed, WholeAhead DEF CodeInv
  <1>4. AllAim(own, Loose(made), at, <<Term(Node.of)>>) /\ Straight(<<Term(Node.of)>>)
    BY <1>2, <1>3, TermAims, Instructions DEF Ahead
  <1>5. /\ Laid(blocks', own, currentFunction, Loose(made), Owed(frames, failedBlock), {at})
        /\ Len(blocks') = Len(blocks)
    <2> DEFINE code == <<Term(Node.of)>>
    <2>1. Laid(blocks, own, currentFunction, Loose(made), Owed(frames, failedBlock), {at})
      BY <1>2 DEF Ahead
    <2>2. blocks' = Emit(blocks, at, code) /\ AllAim(own, Loose(made), at, code) /\ Straight(code)
      BY <1>1, <1>4
    <2> HIDE DEF code
    <2>3. QED
      BY <2>1, <2>2, Emitted
  <1>6. /\ Stacked(After, failedBlock, own, currentFunction, S)
        /\ Owed(After, failedBlock) = Owed(frames, failedBlock) /\ After # <<>>
    BY <1>1, <1>2, <1>3, StackAfter, AfterIsAlike DEF Ahead
  <1>7. DOMAIN own = 1..Len(blocks')
    BY <1>2, <1>3, <1>5 DEF Ahead
  <1>8. QED
    BY <1>1, <1>5, <1>6, <1>7, WholeAgain

LEMMA IfWhole ==
    ASSUME NEW S, NEW T, MadeOf(S, T), CodeInv(S, T), VisitIf
    PROVE  \E later : Whole(later, S)'
  <1> DEFINE n    == Len(blocks)
             owed == Owed(frames, failedBlock)
             code == <<Term(Node.condition)>> \o <<Test(n + 1, n + 2)>>
             new  == <<Block(currentFunction), Block(NoFunction), Block(NoFunction)>>
             f    == [of |-> "then", rest |-> Node.then, else |-> Node.else,
                      false |-> n + 2, after |-> n + 3]
  <1>1. PICK own : Ahead(own, 3, S)
    BY WholeAhead DEF VisitIf, Visit
  <1>2. /\ frames # <<>> /\ Top.rest # <<>> /\ Node.is = "if" /\ IInv
        /\ n \in Nat /\ currentFunction \in Nat \ {0}
        /\ failedBlock \in owed
    BY TargetsOwed, WholeAhead DEF VisitIf, Visit, CodeInv, Node
  <1>3. /\ frames' = Append(After, f) /\ at' = n + 1
        /\ UNCHANGED <<made, failedBlock>>
        /\ blocks' = Emit(blocks, at, <<Term(Node.condition), Test(n + 1, n + 2)>>) \o new
    BY <1>2 DEF VisitIf, NewBlock, Branches
  <1>4. <<Term(Node.condition), Test(n + 1, n + 2)>> = code
    BY TwoInstructions
  <1>5. AllAim(own, Loose(made), at, code) /\ Ended(code)
    <2>1. own[n + 1] = own[at] /\ own[n + 2] = own[at] /\ n + 1 \in DOMAIN own /\ n + 2 \in DOMAIN own
      BY <1>1, <1>2 DEF Ahead
    <2>2. failedBlock \in DOMAIN own /\ own[failedBlock] = own[at]
      BY <1>1, <1>2 DEF Ahead
    <2>3. AllAim(own, Loose(made), at, <<Term(Node.condition)>>) /\ Straight(<<Term(Node.condition)>>)
      BY <2>2, TermAims, Instructions
    <2>4. AllAim(own, Loose(made), at, <<Test(n + 1, n + 2)>>) /\ Ended(<<Test(n + 1, n + 2)>>)
      BY <2>1, TestAims
    <2>5. QED
      BY <2>3, <2>4, CodeJoined
  <1> DEFINE emitted == Emit(blocks, at, code)
  <1>6. Laid(emitted, own, currentFunction, Loose(made), owed, {}) /\ Len(emitted) = n
    <2>1. Laid(blocks, own, currentFunction, Loose(made), owed, {at})
      BY <1>1 DEF Ahead
    <2> HIDE DEF code, owed
    <2>2. QED
      BY <1>5, <2>1, EmittedLast
  <1>7. /\ Laid(emitted \o new, own, currentFunction, Loose(made), owed \cup {n + 2, n + 3}, {n + 1})
        /\ Len(emitted \o new) = n + 3
    <2>1. IsList(new) /\ Len(new) = 3
      BY DEF IsList
    <2>2. owed \subseteq 1..n
      BY <1>1 DEF Ahead
    <2>3. \A b \in {n + 1, n + 2, n + 3} : b \in DOMAIN own /\ own[b] = currentFunction /\ b \notin owed
      BY <1>1, <1>2, <2>2 DEF Ahead
    <2> DEFINE more == owed \cup {n + 2, n + 3}
               open == {n + 1}
    <2>4. /\ n + 1 \in open /\ n + 1 \notin more
          /\ n + 2 \notin open /\ n + 2 \in more
          /\ n + 3 \notin open /\ n + 3 \in more
      BY <1>2, <2>3
    <2>5. /\ more \cap open = {} /\ owed \subseteq more
          /\ (more \ owed) \cup (open \ {}) \subseteq n + 1..n + 3
      BY <1>2, <2>4
    <2>6. 1..n + 3 \subseteq DOMAIN own
      BY <1>1 DEF Ahead
    <2> HIDE DEF more, open, emitted, owed
    <2>7. /\ IsLaid(Block(currentFunction), n + 1, own, currentFunction, Loose(made), more, open)
          /\ IsLaid(Block(NoFunction), n + 2, own, currentFunction, Loose(made), more, open)
          /\ IsLaid(Block(NoFunction), n + 3, own, currentFunction, Loose(made), more, open)
      BY <1>2, <2>3, <2>4, NewLaid
    <2>8. \A i \in 1..3 : IsLaid(new[i], n + i, own, currentFunction, Loose(made), more, open)
      <3>1. \A i \in 1..3 : i = 1 \/ i = 2 \/ i = 3
        OBVIOUS
      <3>2. new[1] = Block(currentFunction) /\ new[2] = Block(NoFunction) /\ new[3] = Block(NoFunction)
        OBVIOUS
      <3> HIDE DEF new
      <3>3. QED
        BY <2>7, <3>1, <3>2
    <2> HIDE DEF new
    <2>9. Joins(n, new, own, currentFunction, Loose(made), owed, {}, more, open)
      BY <2>1, <2>5, <2>6, <2>8 DEF Joins
    <2> HIDE DEF n
    <2>10. Joins(Len(emitted), new, own, currentFunction, Loose(made), owed, {}, more, open)
      BY <1>6, <2>9
    <2>11. /\ Laid(emitted \o new, own, currentFunction, Loose(made), more, open)
          /\ Len(emitted \o new) = Len(emitted) + Len(new)
      BY <1>6, <2>10, LaidJoined
    <2>12. Laid(emitted \o new, own, currentFunction, Loose(made), more, open) /\ Len(emitted \o new) = n + 3
      BY <1>6, <2>1, <2>11
    <2>13. QED
      BY <2>12 DEF more, open
  <1>8. /\ Stacked(After, failedBlock, own, currentFunction, S) /\ IsList(After)
        /\ Owed(After, failedBlock) = owed /\ Node \in S
    BY <1>1, <1>2, StackAfter DEF Ahead
  <1>9. Owes(f, failedBlock) = {n + 2, n + 3} /\ IsVisitor(f, failedBlock, own, currentFunction, S)
    <2>1. Node.then \in Seq(S) /\ Node.else \in Seq(S)
      BY <1>2, <1>8 DEF MadeOf
    <2>2. QED
      BY <1>2, <2>1 DEF Owes, IsVisitor
  <1>10. {n + 2, n + 3} \cap owed = {}
    BY <1>1, <1>2 DEF Ahead
  <1>11. frames' # <<>>
    <2> HIDE DEF f
    <2>1. Append(After, f) # <<>>
      BY <1>8, NotEmpty
    <2>2. QED
      BY <1>3, <2>1
  <1> HIDE DEF f, new, code, emitted, owed
  <1>12. /\ Stacked(frames', failedBlock, own, currentFunction, S)
         /\ Owed(frames', failedBlock) = owed \cup {n + 2, n + 3}
    BY <1>3, <1>8, <1>9, <1>10, StackPushed
  <1>13. DOMAIN own = 1..Len(blocks') /\ blocks' = emitted \o new
    BY <1>1, <1>3, <1>4, <1>7 DEF Ahead, emitted
  <1>14. QED
    BY <1>3, <1>7, <1>11, <1>12, <1>13, WholeAgain

\* A block is added.
LEMMA LaidAppended ==
    ASSUME NEW bs, NEW own, NEW function, NEW loose, NEW owed, NEW open,
           Laid(bs, own, function, loose, owed, open), Len(bs) + 1 \in DOMAIN own,
           NEW block, NEW openNow,
           \/ openNow = open
           \/ openNow = open \cup {Len(bs) + 1},
           IsLaid(block, Len(bs) + 1, own, function, loose, owed, openNow)
    PROVE  /\ Laid(Append(bs, block), own, function, loose, owed, openNow)
           /\ Len(Append(bs, block)) = Len(bs) + 1
  <1> DEFINE n   == Len(bs) + 1
             new == Append(bs, block)
  <1>1. /\ IsList(bs) /\ Len(bs) \in Nat /\ 1..Len(bs) \subseteq DOMAIN own
        /\ owed \cup open \subseteq 1..Len(bs) /\ owed \cap open = {}
    BY DEF Laid, IsList
  <1>2. /\ Len(new) = n /\ IsList(new)
        /\ \A i \in 1..Len(bs) : new[i] = bs[i]
        /\ new[n] = block
    BY <1>1, Pushed DEF IsList
  <1> HIDE DEF new
  <1>3. /\ 1..Len(new) \subseteq DOMAIN own /\ n \notin owed /\ n \notin 1..Len(bs)
        /\ \A i \in 1..Len(new) : i = n \/ i \in 1..Len(bs)
        /\ owed \cup openNow \subseteq 1..Len(new) /\ owed \cap openNow = {}
    BY <1>1, <1>2
  <1>4. ASSUME NEW b \in 1..Len(bs)
        PROVE  IsLaid(new[b], b, own, function, loose, owed, openNow)
    <2>1. IsLaid(bs[b], b, own, function, loose, owed, open) /\ (b \in openNow <=> b \in open)
      BY <1>3 DEF Laid
    <2>2. QED
      BY <1>2, <2>1 DEF IsLaid
  <1>5. \A b \in 1..Len(new) : IsLaid(new[b], b, own, function, loose, owed, openNow)
    BY <1>2, <1>3, <1>4
  <1>6. QED
    BY <1>2, <1>3, <1>5 DEF Laid, new

LEMMA WholeUnchanged ==
    ASSUME NEW S, NEW T, CodeInv(S, T), UNCHANGED <<frames, made, blocks, at, failedBlock>>
    PROVE  \E later : Whole(later, S)'
  BY DEF CodeInv, Whole, Open, currentFunction

\* The code after a jump.
LEMMA JumpWhole ==
    ASSUME NEW S, NEW T, CodeInv(S, T), frames # <<>>, Top.rest # <<>>,
           NEW to, to \in Owed(frames, failedBlock),
           JumpsTo(to), frames' = After, UNCHANGED <<made, failedBlock>>
    PROVE  \E later : Whole(later, S)'
  <1> DEFINE n       == Len(blocks)
             owed    == Owed(frames, failedBlock)
             code    == <<Br(to)>>
             emitted == Emit(blocks, at, code)
  <1>1. PICK own : Ahead(own, 1, S)
    BY WholeAhead
  <1>2. IInv /\ n \in Nat /\ currentFunction \in Nat \ {0}
    BY WholeAhead DEF CodeInv
  <1>3. blocks' = Append(emitted, Block(currentFunction)) /\ at' = n + 1
    BY DEF JumpsTo, NewBlock
  <1>4. AllAim(own, Loose(made), at, code) /\ Ended(code)
    BY <1>1, BrAims DEF Ahead
  <1>5. Laid(blocks, own, currentFunction, Loose(made), owed, {at})
    BY <1>1 DEF Ahead
  <1>6. n + 1 \in DOMAIN own /\ own[n + 1] = currentFunction /\ n + 1 \notin owed
    BY <1>1, <1>2 DEF Ahead
  <1>7. /\ Stacked(After, failedBlock, own, currentFunction, S)
        /\ Owed(After, failedBlock) = owed /\ After # <<>>
    BY <1>1, <1>2, StackAfter, AfterIsAlike DEF Ahead
  <1> HIDE DEF owed, code
  <1>8. Laid(emitted, own, currentFunction, Loose(made), owed, {}) /\ Len(emitted) = n
    BY <1>4, <1>5, EmittedLast
  <1>9. IsLaid(Block(currentFunction), n + 1, own, currentFunction, Loose(made), owed, {n + 1})
    BY <1>2, <1>6, NewLaid
  <1> HIDE DEF emitted
  <1>10. /\ Laid(blocks', own, currentFunction, Loose(made), owed, {n + 1})
         /\ Len(blocks') = n + 1
    <2> DEFINE open == {n + 1}
    <2>1. open = {} \cup {Len(emitted) + 1} /\ Len(emitted) + 1 \in DOMAIN own
      BY <1>6, <1>8
    <2>2. IsLaid(Block(currentFunction), Len(emitted) + 1, own, currentFunction, Loose(made), owed, open)
      BY <1>8, <1>9
    <2> HIDE DEF open
    <2>3. /\ Laid(Append(emitted, Block(currentFunction)), own, currentFunction, Loose(made), owed, open)
          /\ Len(Append(emitted, Block(currentFunction))) = Len(emitted) + 1
      BY <1>8, <2>1, <2>2, LaidAppended
    <2>4. QED
      BY <1>3, <1>8, <2>3 DEF open
  <1>11. DOMAIN own = 1..Len(blocks')
    BY <1>1, <1>10 DEF Ahead
  <1>12. QED
    BY <1>3, <1>7, <1>10, <1>11, WholeAgain

LEMMA BreakWhole ==
    ASSUME NEW S, NEW T, CodeInv(S, T), VisitBreak
    PROVE  \E later : Whole(later, S)'
  <1>1. /\ frames # <<>> /\ Top.rest # <<>> /\ frames' = After
        /\ JumpsTo(afterForBlock) /\ UNCHANGED <<made, failedBlock>>
    BY DEF VisitBreak, Visit
  <1>2. afterForBlock \in Owed(frames, failedBlock)
    BY <1>1, TargetsOwed DEF CodeInv
  <1>3. QED
    BY <1>1, <1>2, JumpWhole

LEMMA ContinueWhole ==
    ASSUME NEW S, NEW T, CodeInv(S, T), VisitContinue
    PROVE  \E later : Whole(later, S)'
  <1>1. frames # <<>> /\ Top.rest # <<>> /\ frames' = After /\ UNCHANGED <<made, failedBlock>>
    BY DEF VisitContinue, Visit
  <1>2. CASE nextForBlock = NoBlock
    <2>1. UNCHANGED <<blocks, at>>
      BY <1>2 DEF VisitContinue
    <2>2. PICK own : Ahead(own, 0, S)
      BY <1>1, WholeAhead
    <2>3. /\ Stacked(After, failedBlock, own, currentFunction, S)
          /\ Owed(After, failedBlock) = Owed(frames, failedBlock) /\ After # <<>>
      BY <1>1, <2>2, StackAfter, AfterIsAlike DEF Ahead, CodeInv
    <2>4. Len(blocks) \in Nat
      BY <1>1, WholeAhead
    <2>5. DOMAIN own = 1..Len(blocks')
      BY <2>1, <2>2, <2>4 DEF Ahead
    <2>6. Laid(blocks', own, currentFunction, Loose(made), Owed(frames', failedBlock), {at'})
      BY <1>1, <2>1, <2>2, <2>3 DEF Ahead
    <2>7. QED
      BY <1>1, <2>3, <2>5, <2>6, WholeAgain
  <1>3. CASE nextForBlock # NoBlock
    <2>1. JumpsTo(nextForBlock)
      BY <1>3 DEF VisitContinue
    <2>2. nextForBlock \in Owed(frames, failedBlock)
      BY <1>1, <1>3, TargetsOwed DEF CodeInv
    <2>3. QED
      BY <1>1, <2>1, <2>2, JumpWhole
  <1>4. QED
    BY <1>2, <1>3

\* What is left of the stack when the innermost visitor is done.
LEMMA StackOuter ==
    ASSUME NEW S, NEW T, CodeInv(S, T), frames # <<>>, NEW own, Stacked(frames, failedBlock, own, currentFunction, S)
    PROVE  /\ Stacked(Outer, failedBlock, own, currentFunction, S) /\ IsList(Outer)
           /\ Owed(Outer, failedBlock) = Owed(frames, failedBlock) \ Owes(Top, failedBlock)
           /\ Owes(Top, failedBlock) \subseteq Owed(frames, failedBlock)
           /\ IsVisitor(Top, failedBlock, own, currentFunction, S)
           /\ Top.of # "function" => Outer # <<>>
  <1>1. IsList(frames) /\ Len(frames) \in Nat \ {0} /\ WellNested(frames)
    BY Progress DEF CodeInv, IInv, WellNested, IsList
  <1>2. ASSUME Top.of # "function" PROVE Outer # <<>>
    <2>1. Len(frames) # 1
      BY <1>1, <1>2 DEF Top, WellNested
    <2>2. Len(Outer) = Len(frames) - 1
      BY <1>1, Popped DEF Outer, IsList
    <2>3. QED
      BY <1>1, <2>1, <2>2
  <1>3. QED
    BY <1>1, <1>2, StackPopped DEF Outer, Top

LEMMA ThenWhole ==
    ASSUME NEW S, NEW T, CodeInv(S, T), LeaveThen
    PROVE  \E later : Whole(later, S)'
  <1> DEFINE owed    == Owed(frames, failedBlock)
             code    == <<Br(Top.after)>>
             emitted == Emit(blocks, at, code)
             f       == [of |-> "else", rest |-> Top.else, after |-> Top.after]
  <1>1. /\ frames # <<>> /\ Top.of = "then" /\ frames' = Append(Outer, f)
        /\ blocks' = Put(emitted, Top.false) /\ at' = Top.false
        /\ UNCHANGED <<made, failedBlock>>
    BY DEF LeaveThen, Leaves, IsAt
  <1>2. PICK own : Ahead(own, 0, S)
    BY <1>1, WholeAhead
  <1>3. currentFunction \in Nat \ {0} /\ Len(blocks) \in Nat
    BY <1>1, WholeAhead
  <1>4. /\ Stacked(Outer, failedBlock, own, currentFunction, S) /\ IsList(Outer)
        /\ Owed(Outer, failedBlock) = owed \ Owes(Top, failedBlock)
        /\ Owes(Top, failedBlock) \subseteq owed
        /\ IsVisitor(Top, failedBlock, own, currentFunction, S)
    BY <1>1, <1>2, StackOuter DEF Ahead
  <1>5. Owes(Top, failedBlock) = {Top.false, Top.after} /\ Top.false # Top.after /\ Top.else \in Seq(S)
    BY <1>1, <1>4 DEF Owes, IsVisitor
  <1>6. Laid(blocks, own, currentFunction, Loose(made), owed, {at})
    BY <1>2 DEF Ahead
  <1>7. AllAim(own, Loose(made), at, code) /\ Ended(code)
    BY <1>2, <1>4, <1>5, BrAims DEF Ahead
  <1> HIDE DEF owed, code
  <1>8. Laid(emitted, own, currentFunction, Loose(made), owed, {}) /\ Len(emitted) = Len(blocks)
    BY <1>6, <1>7, EmittedLast
  <1> HIDE DEF emitted
  <1>9. /\ Laid(blocks', own, currentFunction, Loose(made), owed \ {Top.false}, {} \cup {Top.false})
        /\ Len(blocks') = Len(blocks)
    <2>1. Top.false \in owed
      BY <1>4, <1>5
    <2>2. /\ Laid(Put(emitted, Top.false), own, currentFunction, Loose(made),
                  owed \ {Top.false}, {} \cup {Top.false})
          /\ Len(Put(emitted, Top.false)) = Len(emitted)
      BY <1>3, <1>8, <2>1, PutLaid
    <2>3. QED
      BY <1>1, <1>8, <2>2
  <1>10. IsVisitor(f, failedBlock, own, currentFunction, S) /\ Owes(f, failedBlock) = {Top.after}
    BY <1>5 DEF IsVisitor, Owes
  <1> HIDE DEF f
  <1>11. /\ Stacked(frames', failedBlock, own, currentFunction, S)
         /\ Owed(frames', failedBlock) = Owed(Outer, failedBlock) \cup {Top.after}
    BY <1>1, <1>4, <1>5, <1>10, StackPushed
  <1>12. Owed(frames', failedBlock) = owed \ {Top.false}
    BY <1>4, <1>5, <1>11
  <1>13. frames' # <<>>
    BY <1>1, <1>4, NotEmpty
  <1>14. DOMAIN own = 1..Len(blocks') /\ {} \cup {Top.false} = {at'}
    BY <1>1, <1>2, <1>3, <1>9 DEF Ahead
  <1>15. QED
    BY <1>1, <1>9, <1>11, <1>12, <1>13, <1>14, WholeAgain

LEMMA ElseWhole ==
    ASSUME NEW S, NEW T, CodeInv(S, T), LeaveElse
    PROVE  \E later : Whole(later, S)'
  <1> DEFINE owed    == Owed(frames, failedBlock)
             code    == <<Br(Top.after)>>
             emitted == Emit(blocks, at, code)
  <1>1. /\ frames # <<>> /\ Top.of = "else" /\ frames' = Outer
        /\ blocks' = Put(emitted, Top.after) /\ at' = Top.after
        /\ UNCHANGED <<made, failedBlock>>
    BY DEF LeaveElse, Leaves, IsAt
  <1>2. PICK own : Ahead(own, 0, S)
    BY <1>1, WholeAhead
  <1>3. currentFunction \in Nat \ {0} /\ Len(blocks) \in Nat
    BY <1>1, WholeAhead
  <1>4. /\ Stacked(Outer, failedBlock, own, currentFunction, S) /\ Outer # <<>>
        /\ Owed(Outer, failedBlock) = owed \ Owes(Top, failedBlock)
        /\ Owes(Top, failedBlock) \subseteq owed
    BY <1>1, <1>2, StackOuter DEF Ahead
  <1>5. Owes(Top, failedBlock) = {Top.after} /\ Top.after \in owed
    BY <1>1, <1>4 DEF Owes
  <1>6. Laid(blocks, own, currentFunction, Loose(made), owed, {at})
    BY <1>2 DEF Ahead
  <1>7. AllAim(own, Loose(made), at, code) /\ Ended(code)
    BY <1>2, <1>4, <1>5, BrAims DEF Ahead
  <1> HIDE DEF owed, code
  <1>8. Laid(emitted, own, currentFunction, Loose(made), owed, {}) /\ Len(emitted) = Len(blocks)
    BY <1>6, <1>7, EmittedLast
  <1> HIDE DEF emitted
  <1>9. /\ Laid(blocks', own, currentFunction, Loose(made), owed \ {Top.after}, {} \cup {Top.after})
        /\ Len(blocks') = Len(blocks)
    <2>1. /\ Laid(Put(emitted, Top.after), own, currentFunction, Loose(made),
                  owed \ {Top.after}, {} \cup {Top.after})
          /\ Len(Put(emitted, Top.after)) = Len(emitted)
      BY <1>3, <1>5, <1>8, PutLaid
    <2>2. QED
      BY <1>1, <1>8, <2>1
  <1>10. DOMAIN own = 1..Len(blocks') /\ {} \cup {Top.after} = {at'}
    BY <1>1, <1>2, <1>3, <1>9 DEF Ahead
  <1>11. QED
    BY <1>1, <1>4, <1>5, <1>9, <1>10, WholeAgain

LEMMA ForWhole ==
    ASSUME NEW S, NEW T, MadeOf(S, T), CodeInv(S, T), VisitFor, Node.condition # <<>>
    PROVE  \E later : Whole(later, S)'
  <1> DEFINE n       == Len(blocks)
             owed    == Owed(frames, failedBlock)
             code    == Terms(Node.init) \o <<Br(n + 1)>>
             test    == Terms(Node.condition) \o <<Test(n + 2, n + 3)>>
             emitted == Emit(blocks, at, code)
             new     == <<[in |-> currentFunction, code |-> test], Block(currentFunction),
                          Block(NoFunction), Block(NoFunction)>>
             f       == [of |-> "for", rest |-> Node.body, last |-> Node.last,
                         condition |-> n + 1, after |-> n + 3, next |-> n + 4,
                         oldAfter |-> afterForBlock, oldNext |-> nextForBlock]
  <1>1. /\ frames # <<>> /\ Top.rest # <<>> /\ Node.is = "for" /\ IInv
        /\ failedBlock \in owed
    BY TargetsOwed DEF VisitFor, Visit, CodeInv, Node
  <1>2. PICK own : Ahead(own, 4, S)
    BY <1>1, WholeAhead
  <1>3. n \in Nat /\ currentFunction \in Nat \ {0}
    BY <1>1, WholeAhead
  <1>4. /\ frames' = Append(After, f) /\ at' = n + 2
        /\ blocks' = emitted \o new
        /\ UNCHANGED <<made, failedBlock>>
    <2>1. NewBlock = n + 1 /\ NewBlock + 1 = n + 2 /\ NewBlock + 2 = n + 3 /\ NewBlock + 3 = n + 4
      BY <1>3 DEF NewBlock
    <2>2. Block(currentFunction) = [in |-> currentFunction, code |-> <<>>]
      BY DEF Block
    <2> HIDE DEF n
    <2>3. frames' = Append(After, f) /\ at' = n + 2 /\ UNCHANGED <<made, failedBlock>>
      BY <2>1 DEF VisitFor
    <2>4. blocks' = emitted \o new
      BY <2>1, <2>2 DEF VisitFor
    <2>5. QED
      BY <2>3, <2>4
  <1>5. /\ Stacked(After, failedBlock, own, currentFunction, S) /\ IsList(After)
        /\ Owed(After, failedBlock) = owed /\ Node \in S
    BY <1>1, <1>2, StackAfter DEF Ahead
  <1>6. /\ Len(Node.init) \in Nat /\ Len(Node.condition) \in Nat /\ Len(Node.last) \in Nat
        /\ Node.body \in Seq(S)
    BY <1>1, <1>5 DEF MadeOf
  <1>7. /\ owed \subseteq 1..n
        /\ \A b \in {n + 1, n + 2, n + 3, n + 4} :
              b \in DOMAIN own /\ own[b] = currentFunction /\ b \notin owed
        /\ failedBlock \in DOMAIN own /\ own[failedBlock] = currentFunction
        /\ at \in DOMAIN own /\ own[at] = currentFunction
        /\ 1..n + 4 \subseteq DOMAIN own
    <2>1. owed \subseteq 1..n /\ DOMAIN own = 1..n + 4
      BY <1>2 DEF Ahead
    <2>2. \A b \in {n + 1, n + 2, n + 3, n + 4} : b \in n + 1..n + 4 /\ b \in 1..n + 4 /\ b \notin 1..n
      BY <1>3
    <2>3. \A b \in owed \cup {at} : b \in DOMAIN own /\ own[b] = currentFunction
      BY <1>2 DEF Ahead
    <2>4. \A b \in n + 1..n + 4 : own[b] = currentFunction
      BY <1>2 DEF Ahead
    <2> HIDE DEF owed
    <2>5. QED
      BY <1>1, <2>1, <2>2, <2>3, <2>4
  <1>8. AllAim(own, Loose(made), at, code) /\ Ended(code)
    <2>1. AllAim(own, Loose(made), at, Terms(Node.init)) /\ Straight(Terms(Node.init))
      BY <1>6, <1>7, TermsAim
    <2>2. AllAim(own, Loose(made), at, <<Br(n + 1)>>) /\ Ended(<<Br(n + 1)>>)
      BY <1>7, BrAims
    <2>3. QED
      BY <2>1, <2>2, CodeJoined
  <1>9. AllAim(own, Loose(made), n + 1, test) /\ Ended(test)
    <2>1. AllAim(own, Loose(made), n + 1, Terms(Node.condition)) /\ Straight(Terms(Node.condition))
      BY <1>6, <1>7, TermsAim
    <2>2. AllAim(own, Loose(made), n + 1, <<Test(n + 2, n + 3)>>) /\ Ended(<<Test(n + 2, n + 3)>>)
      BY <1>7, TestAims
    <2>3. QED
      BY <2>1, <2>2, CodeJoined
  <1>10. Laid(emitted, own, currentFunction, Loose(made), owed, {}) /\ Len(emitted) = n
    <2>1. Laid(blocks, own, currentFunction, Loose(made), owed, {at})
      BY <1>2 DEF Ahead
    <2> HIDE DEF code, owed
    <2>2. QED
      BY <1>8, <2>1, EmittedLast
  <1> HIDE DEF emitted, code, test
  <1>11. /\ Laid(emitted \o new, own, currentFunction, Loose(made), owed \cup {n + 3, n + 4}, {n + 2})
         /\ Len(emitted \o new) = n + 4
    <2>1. IsList(new) /\ Len(new) = 4
      BY DEF IsList
    <2> DEFINE more == owed \cup {n + 3, n + 4}
               open == {n + 2}
    <2>2. /\ n + 1 \notin open /\ n + 1 \notin more
          /\ n + 2 \in open /\ n + 2 \notin more
          /\ n + 3 \notin open /\ n + 3 \in more
          /\ n + 4 \notin open /\ n + 4 \in more
      BY <1>3, <1>7
    <2>3. /\ more \cap open = {} /\ owed \subseteq more
          /\ (more \ owed) \cup (open \ {}) \subseteq n + 1..n + 4
      BY <1>3, <2>2
    <2> HIDE DEF more, open, owed
    <2>4. /\ IsLaid([in |-> currentFunction, code |-> test], n + 1, own, currentFunction, Loose(made), more, open)
          /\ IsLaid(Block(currentFunction), n + 2, own, currentFunction, Loose(made), more, open)
          /\ IsLaid(Block(NoFunction), n + 3, own, currentFunction, Loose(made), more, open)
          /\ IsLaid(Block(NoFunction), n + 4, own, currentFunction, Loose(made), more, open)
      BY <1>3, <1>7, <1>9, <2>2, NewLaid
    <2>5. \A i \in 1..4 : IsLaid(new[i], n + i, own, currentFunction, Loose(made), more, open)
      <3>1. \A i \in 1..4 : i = 1 \/ i = 2 \/ i = 3 \/ i = 4
        OBVIOUS
      <3>2. /\ new[1] = [in |-> currentFunction, code |-> test] /\ new[2] = Block(currentFunction)
            /\ new[3] = Block(NoFunction) /\ new[4] = Block(NoFunction)
        OBVIOUS
      <3> HIDE DEF new
      <3>3. QED
        BY <2>4, <3>1, <3>2
    <2> HIDE DEF new
    <2>6. Joins(n, new, own, currentFunction, Loose(made), owed, {}, more, open)
      BY <1>7, <2>1, <2>3, <2>5 DEF Joins
    <2> HIDE DEF n
    <2>7. Joins(Len(emitted), new, own, currentFunction, Loose(made), owed, {}, more, open)
      BY <1>10, <2>6
    <2>8. /\ Laid(emitted \o new, own, currentFunction, Loose(made), more, open)
          /\ Len(emitted \o new) = Len(emitted) + Len(new)
      BY <1>10, <2>7, LaidJoined
    <2>9. QED
      BY <1>10, <2>1, <2>8 DEF more, open
  <1>12. Owes(f, failedBlock) = {n + 3, n + 4} /\ IsVisitor(f, failedBlock, own, currentFunction, S)
    BY <1>3, <1>6, <1>7 DEF Owes, IsVisitor
  <1>13. {n + 3, n + 4} \cap owed = {}
    BY <1>7
  <1>14. frames' # <<>>
    BY <1>4, <1>5, NotEmpty
  <1> HIDE DEF f, new, owed
  <1>15. /\ Stacked(frames', failedBlock, own, currentFunction, S)
         /\ Owed(frames', failedBlock) = owed \cup {n + 3, n + 4}
    BY <1>4, <1>5, <1>12, <1>13, StackPushed
  <1>16. DOMAIN own = 1..Len(blocks')
    BY <1>2, <1>4, <1>11 DEF Ahead
  <1>17. QED
    BY <1>4, <1>11, <1>14, <1>15, <1>16, WholeAgain

LEMMA LoopWhole ==
    ASSUME NEW S, NEW T, CodeInv(S, T), LeaveFor
    PROVE  \E later : Whole(later, S)'
  <1> DEFINE owed  == Owed(frames, failedBlock)
             loop  == Loose(made)
             br    == <<Br(Top.next)>>
             last  == Terms(Top.last) \o <<Br(Top.condition)>>
             withNext  == Put(blocks, Top.next)
             withAfter == Put(withNext, Top.after)
             ended     == Emit(withAfter, at, br)
  <1>1. /\ frames # <<>> /\ Top.of = "for" /\ frames' = Outer
        /\ blocks' = Emit(ended, Top.next, last) /\ at' = Top.after
        /\ UNCHANGED <<made, failedBlock>>
    BY DEF LeaveFor, Leaves, IsAt, Repeats
  <1>2. PICK own : Ahead(own, 0, S)
    BY <1>1, WholeAhead
  <1>3. currentFunction \in Nat \ {0} /\ Len(blocks) \in Nat /\ failedBlock \in owed
    BY <1>1, WholeAhead, TargetsOwed DEF CodeInv
  <1>4. /\ Stacked(Outer, failedBlock, own, currentFunction, S) /\ Outer # <<>>
        /\ Owed(Outer, failedBlock) = owed \ Owes(Top, failedBlock)
        /\ Owes(Top, failedBlock) \subseteq owed
        /\ IsVisitor(Top, failedBlock, own, currentFunction, S)
    BY <1>1, <1>2, StackOuter DEF Ahead
  <1>5. /\ Owes(Top, failedBlock) = {Top.after, Top.next} /\ {Top.after, Top.next} \subseteq owed
        /\ Top.after # Top.next /\ Len(Top.last) \in Nat
        /\ Top.condition \in DOMAIN own /\ own[Top.condition] = currentFunction
    BY <1>1, <1>4 DEF Owes, IsVisitor
  <1>6. /\ Laid(blocks, own, currentFunction, Loose(made), owed, {at}) /\ at \notin owed
        /\ \A b \in owed \cup {at} : b \in DOMAIN own /\ own[b] = currentFunction
    BY <1>2 DEF Ahead
  <1>7. AllAim(own, Loose(made), at, br) /\ Ended(br)
    BY <1>5, <1>6, BrAims
  <1>8. AllAim(own, Loose(made), Top.next, last) /\ Ended(last)
    <2>1. own[Top.next] = currentFunction /\ own[failedBlock] = currentFunction /\ failedBlock \in DOMAIN own
      BY <1>3, <1>5, <1>6
    <2>2. AllAim(own, Loose(made), Top.next, Terms(Top.last)) /\ Straight(Terms(Top.last))
      BY <1>5, <2>1, TermsAim
    <2>3. AllAim(own, Loose(made), Top.next, <<Br(Top.condition)>>) /\ Ended(<<Br(Top.condition)>>)
      BY <1>5, <2>1, BrAims
    <2>4. QED
      BY <2>2, <2>3, CodeJoined
  <1> HIDE DEF owed, br, last
  <1>9. /\ Laid(withNext, own, currentFunction, Loose(made), owed \ {Top.next}, {at} \cup {Top.next})
        /\ Len(withNext) = Len(blocks)
    BY <1>3, <1>5, <1>6, PutLaid
  <1> HIDE DEF withNext
  <1>10. /\ Laid(withAfter, own, currentFunction, Loose(made),
                 (owed \ {Top.next}) \ {Top.after}, ({at} \cup {Top.next}) \cup {Top.after})
         /\ Len(withAfter) = Len(blocks)
    <2>1. Top.after \in owed \ {Top.next}
      BY <1>5
    <2>2. /\ Laid(withAfter, own, currentFunction, Loose(made),
                  (owed \ {Top.next}) \ {Top.after}, ({at} \cup {Top.next}) \cup {Top.after})
          /\ Len(withAfter) = Len(withNext)
      <3> DEFINE less == owed \ {Top.next}
                 more == {at} \cup {Top.next}
      <3>1. Laid(withNext, own, currentFunction, Loose(made), less, more) /\ Top.after \in less
        BY <1>9, <2>1
      <3> HIDE DEF less, more
      <3>2. /\ Laid(withAfter, own, currentFunction, Loose(made), less \ {Top.after}, more \cup {Top.after})
            /\ Len(withAfter) = Len(withNext)
        BY <1>3, <3>1, PutLaid
      <3>3. QED
        BY <3>2 DEF less, more
    <2>3. QED
      BY <1>9, <2>2
  <1> HIDE DEF withAfter
  <1> DEFINE left == Owed(Outer, failedBlock)
             open == {at, Top.next, Top.after}
             then == open \ {at}
  <1>11. Laid(withAfter, own, currentFunction, Loose(made), left, open) /\ at \in open /\ Top.next \in then
    <2>1. left = (owed \ {Top.next}) \ {Top.after}
      BY <1>4, <1>5
    <2>2. open = ({at} \cup {Top.next}) \cup {Top.after}
      OBVIOUS
    <2>3. at # Top.next
      BY <1>5, <1>6
    <2>4. QED
      BY <1>10, <2>1, <2>2, <2>3
  <1>12. then \ {Top.next} = {Top.after}
    BY <1>5, <1>6
  <1>13. Laid(ended, own, currentFunction, Loose(made), left, then) /\ Len(ended) = Len(withAfter)
    <2> HIDE DEF left, open
    <2>1. QED
      BY <1>7, <1>11, Emitted
  <1> HIDE DEF ended, left, then
  <1>14. /\ Laid(Emit(ended, Top.next, last), own, currentFunction, Loose(made), left, then \ {Top.next})
         /\ Len(Emit(ended, Top.next, last)) = Len(ended)
    BY <1>8, <1>11, <1>13, Emitted
  <1>15. Laid(blocks', own, currentFunction, Loose(made), Owed(frames', failedBlock), {at'})
    BY <1>1, <1>12, <1>14 DEF left
  <1>16. DOMAIN own = 1..Len(blocks')
    BY <1>1, <1>2, <1>3, <1>10, <1>13, <1>14 DEF Ahead
  <1>17. QED
    BY <1>1, <1>4, <1>15, <1>16, WholeAgain

\* A list of one visitor.
LEMMA StackOfOne ==
    ASSUME NEW f, NEW failed, NEW own, NEW function, NEW S, IsVisitor(f, failed, own, function, S)
    PROVE  Stacked(<<f>>, failed, own, function, S) /\ Owed(<<f>>, failed) = Owes(f, failed)
  <1>1. Len(<<f>>) = 1 /\ <<f>>[1] = f /\ \A i \in 1..1 : i = 1
    OBVIOUS
  <1>2. QED
    BY <1>1 DEF Stacked, Owed

LEMMA NothingOwed ==
    ASSUME NEW failed
    PROVE  Owed(<<>>, failed) = {} /\ \A own, function, S : Stacked(<<>>, failed, own, function, S)
  <1>1. 1..Len(<<>>) = {}
    OBVIOUS
  <1>2. QED
    BY <1>1 DEF Owed, Stacked

\* The head goes to unified or failed; what may fail in it goes where it did before.
LEMMA HeadAims ==
    ASSUME NEW own, NEW loose, NEW b, NEW f, Len(f.result) \in Nat, HeadMayFail(f) => own[b] \in loose,
           NEW unified \in DOMAIN own, NEW failed \in DOMAIN own, own[unified] = own[b], own[failed] = own[b],
           NEW result,
           \/ result = <<>>
           \/ result = Terms(f.result) \o <<[op |-> "keep"]>>
    PROVE  LET head == <<[op |-> "marker"]>> \o result
                       \o <<Term(HeadTerm(f)), [op |-> "head", to |-> unified, failed |-> failed]>>
           IN  AllAim(own, loose, b, head) /\ Ended(head)
  <1> DEFINE marker == <<[op |-> "marker"]>>
             keep   == <<[op |-> "keep"]>>
             term   == <<Term(HeadTerm(f))>>
             go     == <<[op |-> "head", to |-> unified, failed |-> failed]>>
             terms  == Terms(f.result)
  <1>1. AllAim(own, loose, b, marker) /\ Straight(marker)
    <2>1. Aims(own, loose, b, [op |-> "marker"]) /\ [op |-> "marker"].op \notin Terminators
      BY DEF Aims, TargetsOf, Terminators
    <2>2. QED
      BY <2>1, Instructions
  <1>2. AllAim(own, loose, b, keep) /\ Straight(keep)
    <2>1. Aims(own, loose, b, [op |-> "keep"]) /\ [op |-> "keep"].op \notin Terminators
      BY DEF Aims, TargetsOf, Terminators
    <2>2. QED
      BY <2>1, Instructions
  <1>3. AllAim(own, loose, b, go) /\ Ended(go)
    <2> DEFINE i == [op |-> "head", to |-> unified, failed |-> failed]
    <2>1. TargetsOf(i) = {unified, failed} /\ i.op \in Terminators
      BY DEF TargetsOf, Terminators
    <2> HIDE DEF i
    <2>2. Aims(own, loose, b, i)
      BY <2>1 DEF Aims
    <2>3. QED
      BY <2>1, <2>2, Instructions DEF i
  <1>4. ASSUME NEW e, TermMayFail(e) => own[b] \in loose
        PROVE  Aims(own, loose, b, Term(e)) /\ Term(e).op \notin Terminators
    BY <1>4 DEF Aims, Term, TargetsOf, Terminators
  <1>5. AllAim(own, loose, b, term) /\ Straight(term)
    <2>1. Aims(own, loose, b, Term(HeadTerm(f))) /\ Term(HeadTerm(f)).op \notin Terminators
      BY <1>4 DEF HeadMayFail
    <2>2. QED
      BY <2>1, Instructions
  <1>6. AllAim(own, loose, b, terms) /\ Straight(terms)
    <2>1. IsList(terms) /\ Len(terms) = Len(f.result)
      BY FunctionIsList DEF Terms
    <2>2. \A i \in 1..Len(f.result) : terms[i] = Term(f.result[i])
      BY DEF Terms
    <2>3. \A i \in 1..Len(f.result) : TermMayFail(f.result[i]) => own[b] \in loose
      BY DEF HeadMayFail
    <2> HIDE DEF terms
    <2>4. QED
      BY <1>4, <2>1, <2>2, <2>3 DEF AllAim, Straight
  <1> HIDE DEF marker, keep, go, term, terms
  <1>7. AllAim(own, loose, b, term \o go) /\ Ended(term \o go)
    BY <1>3, <1>5, CodeJoined
  <1>8. AllAim(own, loose, b, marker \o result) /\ Straight(marker \o result)
    <2>1. CASE result = <<>>
      <3>1. AllAim(own, loose, b, <<>>) /\ Straight(<<>>)
        BY DEF AllAim, Straight, IsList
      <3>2. QED
        BY <1>1, <2>1, <3>1, CodeJoined
    <2>2. CASE result = terms \o keep
      <3>1. AllAim(own, loose, b, terms \o keep) /\ Straight(terms \o keep)
        BY <1>2, <1>6, CodeJoined
      <3>2. QED
        BY <1>1, <2>2, <3>1, CodeJoined
    <2>3. QED
      BY <2>1, <2>2 DEF terms, keep
  <1>9. AllAim(own, loose, b, (marker \o result) \o (term \o go)) /\ Ended((marker \o result) \o (term \o go))
    BY <1>7, <1>8, CodeJoined
  <1>10. term \o go = <<Term(HeadTerm(f)), [op |-> "head", to |-> unified, failed |-> failed]>>
    BY TwoInstructions DEF term, go
  <1>11. QED
    BY <1>9, <1>10 DEF marker

LEMMA EnterWhole ==
    ASSUME NEW S, NEW T, MadeOf(S, T), CodeInv(S, T), EnterFunction
    PROVE  \E later : Whole(later, S)'
  <1> DEFINE n        == Len(blocks)
             e        == NewBlock
             function == currentFunction + 1
             Here(code) == [in |-> function, code |-> code]
             HeadCode(f) == <<[op |-> "marker"]>>
                           \o (IF f.result = <<>> THEN <<>> ELSE Terms(f.result) \o <<[op |-> "keep"]>>)
                           \o <<Term(HeadTerm(f)), [op |-> "head", to |-> e + 1, failed |-> e + 2]>>
             Frame(f)   == [of |-> "function", footer |-> e + 3, carried |-> nextForBlock,
                            rest |-> IF f.body.is = "block" THEN f.body.list ELSE <<>>]
  <1>1. PICK f \in Upcoming :
           /\ made' = Append(made, f)
           /\ blocks' = blocks \o
                (IF f.result = <<>>
                 THEN <<Here(HeadCode(f)), Here(<<>>), Block(NoFunction), Block(NoFunction)>>
                 ELSE <<Here(HeadCode(f)), Here(<<[op |-> "result", to |-> e + 4, failed |-> e + 2]>>),
                        Block(NoFunction), Block(NoFunction), Here(<<>>)>>)
           /\ at' = IF f.result = <<>> THEN e + 1 ELSE e + 4
           /\ failedBlock' = e + 2
           /\ frames' = <<Frame(f)>>
    <2> HIDE DEF e
    <2>1. QED
      BY DEF EnterFunction, FailsTo, FooterOf, e
  <1>2. frames = <<>> /\ f \in T
    <2>1. pending \in Seq(T)
      BY DEF CodeInv
    <2>2. \A i \in 1..Len(pending) : pending[i] \in T
      BY <2>1, ElementOfSeq
    <2>3. QED
      BY <2>2 DEF Upcoming
  <1>3. Len(f.result) \in Nat /\ (f.body.is = "block" => f.body.list \in Seq(S))
    BY <1>2 DEF MadeOf
  <1>4. PICK own : Whole(own, S)
    BY DEF CodeInv
  <1>5. /\ Laid(blocks, own, currentFunction, Loose(made), {}, {})
        /\ DOMAIN own = 1..n
    BY <1>2, <1>4, NothingOwed DEF Whole, Open
  <1>6. made \in Seq(T) /\ currentFunction \in Nat /\ function \in Nat \ {0} /\ n \in Nat /\ IsList(blocks)
    BY <1>5, LenProperties DEF CodeInv, currentFunction, Laid, IsList
  <1>7. /\ e = n + 1 /\ e + 1 = n + 2 /\ e + 2 = n + 3 /\ e + 3 = n + 4 /\ e + 4 = n + 5
    BY <1>6 DEF NewBlock
  <1>8. /\ currentFunction' = function
        /\ Loose(made) \subseteq Loose(made')
        /\ HeadMayFail(f) => function \in Loose(made')
    <2>1. /\ Len(made') = Len(made) + 1 /\ made'[Len(made) + 1] = f
          /\ \A i \in 1..Len(made) : made'[i] = made[i]
      BY <1>1, <1>2, <1>6, AppendProperties
    <2>2. Len(made) \in Nat
      BY <1>6 DEF currentFunction
    <2>3. QED
      BY <2>1, <2>2 DEF Loose, currentFunction
  <1> DEFINE k     == IF f.result = <<>> THEN 4 ELSE 5
             loose == Loose(made')
             code  == HeadCode(f)
             frame == Frame(f)
  <1>9. PICK later :
           /\ k \in Nat /\ DOMAIN later = 1..n + k
           /\ \A b \in DOMAIN own : b \in DOMAIN later /\ later[b] = own[b]
           /\ \A b \in n + 1..n + k : b \in DOMAIN later /\ later[b] = function
    <2> DEFINE grown == [b \in 1..n + k |-> IF b \in 1..n THEN own[b] ELSE function]
    <2>1. /\ k \in Nat /\ DOMAIN grown = 1..n + k
          /\ \A b \in DOMAIN own : b \in DOMAIN grown /\ grown[b] = own[b]
          /\ \A b \in n + 1..n + k : b \in DOMAIN grown /\ grown[b] = function
      BY <1>5, <1>6
    <2> HIDE DEF grown, k
    <2>2. QED
      BY <2>1
  <1>10. Laid(blocks, later, function, loose, {}, {})
    BY <1>5, <1>6, <1>8, <1>9, LaidLater
  <1>11. /\ \A b \in {n + 1, n + 2, n + 3, n + 4} : b \in DOMAIN later /\ later[b] = function
         /\ k = 5 => n + 5 \in DOMAIN later /\ later[n + 5] = function
    <2>1. {n + 1, n + 2, n + 3, n + 4} \subseteq n + 1..n + k /\ (k = 5 => n + 5 \in n + 1..n + k)
      BY <1>6
    <2>2. QED
      BY <1>9, <2>1
  <1>12. AllAim(later, loose, n + 1, code) /\ Ended(code)
    <2> DEFINE result == IF f.result = <<>> THEN <<>> ELSE Terms(f.result) \o <<[op |-> "keep"]>>
    <2>1. result = <<>> \/ result = Terms(f.result) \o <<[op |-> "keep"]>>
      OBVIOUS
    <2>2. e + 1 \in DOMAIN later /\ e + 2 \in DOMAIN later /\ later[e + 1] = later[n + 1] /\ later[e + 2] = later[n + 1]
      BY <1>7, <1>11
    <2>3. HeadMayFail(f) => later[n + 1] \in loose
      BY <1>8, <1>11
    <2> HIDE DEF result, loose, e
    <2>4. LET head == <<[op |-> "marker"]>> \o result
                      \o <<Term(HeadTerm(f)), [op |-> "head", to |-> e + 1, failed |-> e + 2]>>
          IN  AllAim(later, loose, n + 1, head) /\ Ended(head)
      BY <1>3, <2>1, <2>2, <2>3, HeadAims
    <2>5. QED
      BY <2>4 DEF result
  <1> HIDE DEF code, loose
  <1>13. frames' = <<frame>> /\ Owes(frame, failedBlock') = {n + 4, n + 3}
         /\ IsVisitor(frame, failedBlock', later, function, S)
    <2>1. frame.rest \in Seq(S)
      <3>1. <<>> \in Seq(S)
        OBVIOUS
      <3>2. QED
        BY <1>3, <3>1
    <2>2. frame.of = "function" /\ frame.footer = n + 4 /\ failedBlock' = n + 3 /\ "rest" \in DOMAIN frame
      BY <1>1, <1>7
    <2>3. n + 4 # n + 3
      BY <1>6
    <2>4. frames' = <<frame>>
      BY <1>1
    <2> HIDE DEF frame
    <2>5. QED
      BY <2>1, <2>2, <2>3, <2>4 DEF Owes, IsVisitor
  <1>14. /\ Stacked(frames', failedBlock', later, function, S)
         /\ Owed(frames', failedBlock') = {n + 3, n + 4} /\ frames' # <<>>
    <2> HIDE DEF frame
    <2>1. Stacked(frames', failedBlock', later, function, S) /\ Owed(frames', failedBlock') = {n + 4, n + 3}
      BY <1>13, StackOfOne
    <2>2. <<frame>> # <<>>
      OBVIOUS
    <2>3. QED
      BY <1>13, <2>1, <2>2
  <1> DEFINE owed == {n + 3, n + 4}
             open == {at'}
  <1>15. Laid(blocks', later, function, loose, owed, open) /\ Len(blocks') = n + k
    <2>1. CASE f.result = <<>>
      <3> DEFINE new == <<Here(code), Block(function), Block(NoFunction), Block(NoFunction)>>
      <3>1. blocks' = blocks \o new /\ at' = n + 2
        BY <1>1, <1>7, <2>1 DEF Block, code
      <3>2. IsList(new) /\ Len(new) = 4 /\ k = 4
        BY <2>1 DEF IsList
      <3>3. /\ n + 1 \notin open /\ n + 1 \notin owed
            /\ n + 2 \in open /\ n + 2 \notin owed
            /\ n + 3 \notin open /\ n + 3 \in owed
            /\ n + 4 \notin open /\ n + 4 \in owed
        BY <1>6, <3>1
      <3>4. /\ owed \cap open = {} /\ {} \subseteq owed /\ {} \subseteq open
            /\ (owed \ {}) \cup (open \ {}) \subseteq n + 1..n + 4 /\ 1..n + 4 \subseteq DOMAIN later
        BY <1>6, <1>9, <3>1, <3>2
      <3> HIDE DEF owed, open, function
      <3>5. /\ IsLaid(Here(code), n + 1, later, function, loose, owed, open)
            /\ IsLaid(Block(function), n + 2, later, function, loose, owed, open)
            /\ IsLaid(Block(NoFunction), n + 3, later, function, loose, owed, open)
            /\ IsLaid(Block(NoFunction), n + 4, later, function, loose, owed, open)
        BY <1>6, <1>11, <1>12, <3>3, NewLaid
      <3>6. \A i \in 1..4 : IsLaid(new[i], n + i, later, function, loose, owed, open)
        <4>1. \A i \in 1..4 : i = 1 \/ i = 2 \/ i = 3 \/ i = 4
          OBVIOUS
        <4>2. /\ new[1] = Here(code) /\ new[2] = Block(function)
              /\ new[3] = Block(NoFunction) /\ new[4] = Block(NoFunction)
          OBVIOUS
        <4> HIDE DEF new
        <4>3. QED
          BY <3>5, <4>1, <4>2
      <3> HIDE DEF new
      <3>7. Joins(n, new, later, function, loose, {}, {}, owed, open)
        BY <3>2, <3>4, <3>6 DEF Joins
      <3>8. /\ Laid(blocks \o new, later, function, loose, owed, open)
            /\ Len(blocks \o new) = Len(blocks) + Len(new)
        BY <1>10, <3>7, LaidJoined
      <3>9. QED
        BY <3>1, <3>2, <3>8
    <2>2. CASE f.result # <<>>
      <3> DEFINE go  == <<[op |-> "result", to |-> n + 5, failed |-> n + 3]>>
                 new == <<Here(code), Here(go), Block(NoFunction), Block(NoFunction), Block(function)>>
      <3>1. blocks' = blocks \o new /\ at' = n + 5
        BY <1>1, <1>7, <2>2 DEF Block, code
      <3>2. IsList(new) /\ Len(new) = 5 /\ k = 5
        BY <2>2 DEF IsList
      <3>3. /\ n + 1 \notin open /\ n + 1 \notin owed
            /\ n + 2 \notin open /\ n + 2 \notin owed
            /\ n + 3 \notin open /\ n + 3 \in owed
            /\ n + 4 \notin open /\ n + 4 \in owed
            /\ n + 5 \in open /\ n + 5 \notin owed
        BY <1>6, <3>1
      <3>4. /\ owed \cap open = {} /\ {} \subseteq owed /\ {} \subseteq open
            /\ (owed \ {}) \cup (open \ {}) \subseteq n + 1..n + 5 /\ 1..n + 5 \subseteq DOMAIN later
        BY <1>6, <1>9, <3>1, <3>2
      <3>5. AllAim(later, loose, n + 2, go) /\ Ended(go)
        <4> DEFINE i == [op |-> "result", to |-> n + 5, failed |-> n + 3]
        <4>1. TargetsOf(i) = {n + 5, n + 3} /\ i.op \in Terminators
          BY DEF TargetsOf, Terminators
        <4> HIDE DEF i
        <4>2. Aims(later, loose, n + 2, i)
          BY <1>11, <3>2, <4>1 DEF Aims
        <4>3. QED
          BY <4>1, <4>2, Instructions DEF i
      <3> HIDE DEF owed, open, go, function
      <3>6. /\ IsLaid(Here(code), n + 1, later, function, loose, owed, open)
            /\ IsLaid(Here(go), n + 2, later, function, loose, owed, open)
            /\ IsLaid(Block(NoFunction), n + 3, later, function, loose, owed, open)
            /\ IsLaid(Block(NoFunction), n + 4, later, function, loose, owed, open)
            /\ IsLaid(Block(function), n + 5, later, function, loose, owed, open)
        BY <1>6, <1>11, <1>12, <3>2, <3>3, <3>5, NewLaid
      <3>7. \A i \in 1..5 : IsLaid(new[i], n + i, later, function, loose, owed, open)
        <4>1. \A i \in 1..5 : i = 1 \/ i = 2 \/ i = 3 \/ i = 4 \/ i = 5
          OBVIOUS
        <4>2. /\ new[1] = Here(code) /\ new[2] = Here(go) /\ new[3] = Block(NoFunction)
              /\ new[4] = Block(NoFunction) /\ new[5] = Block(function)
          OBVIOUS
        <4> HIDE DEF new
        <4>3. QED
          BY <3>6, <4>1, <4>2
      <3> HIDE DEF new
      <3>8. Joins(n, new, later, function, loose, {}, {}, owed, open)
        BY <3>2, <3>4, <3>7 DEF Joins
      <3>9. /\ Laid(blocks \o new, later, function, loose, owed, open)
            /\ Len(blocks \o new) = Len(blocks) + Len(new)
        BY <1>10, <3>8, LaidJoined
      <3>10. QED
        BY <3>1, <3>2, <3>9
    <2>3. QED
      BY <2>1, <2>2
  <1>16. DOMAIN later = 1..Len(blocks')
    BY <1>9, <1>15
  <1>17. Whole(later, S)'
    <2>1. /\ Laid(blocks', later, currentFunction', Loose(made'), Owed(frames', failedBlock'), {at'})
          /\ Stacked(frames', failedBlock', later, currentFunction', S)
      BY <1>8, <1>14, <1>15 DEF loose
    <2>2. QED
      BY <1>14, <1>16, <2>1 DEF Whole, Open
  <1>18. QED
    BY <1>17

\* The function ends with its footer and function_failed.
LEMMA EndWhole ==
    ASSUME NEW S, NEW T, MadeOf(S, T), CodeInv(S, T), EndFunction
    PROVE  \E later : Whole(later, S)'
  <1> DEFINE n         == Len(blocks)
             f         == made[currentFunction]
             call      == IsExternC(f) /\ errors \cup ImportErrors(f) = {}
             goals     == IF f.body.is = "goals" THEN f.body.list ELSE <<>>
             calls     == IF call THEN <<[op |-> "C call", of |-> f, failed |-> failedBlock]>> ELSE <<>>
             code      == Goals(goals) \o calls \o <<Br(afterForBlock)>>
             solve     == <<[op |-> "solve", to |-> NewBlock, failed |-> failedBlock]>>
             rollback  == <<[op |-> "rollback"], [op |-> "ret", value |-> FALSE]>>
             succeeded == [in |-> currentFunction, code |-> <<[op |-> "ret", value |-> TRUE]>>]
             added     == Append(blocks, succeeded)
             withAfter == Put(added, afterForBlock)
             withBoth  == Put(withAfter, failedBlock)
             first     == Emit(withBoth, at, code)
             second    == Emit(first, afterForBlock, solve)
  <1>1. /\ frames # <<>> /\ Top.of = "function" /\ frames' = Outer
        /\ blocks' = Emit(second, failedBlock, rollback)
        /\ UNCHANGED <<made, failedBlock>>
    BY DEF EndFunction, Leaves, IsAt
  <1>2. PICK own : Ahead(own, 1, S)
    BY <1>1, WholeAhead
  <1>3. /\ currentFunction \in Nat \ {0} /\ n \in Nat /\ IInv
        /\ NewBlock = n + 1
    BY <1>1, WholeAhead DEF CodeInv, NewBlock
  <1>4. Len(frames) = 1 /\ 1 \in 1..Len(frames)
    <2>1. WellNested(frames) /\ Len(frames) \in Nat \ {0}
      BY <1>1, <1>3, Progress DEF IInv
    <2>2. Top.of = "function"
      BY <1>1
    <2>3. Len(frames) \in 1..Len(frames) /\ frames[Len(frames)].of = "function"
      BY <2>1, <2>2 DEF Top
    <2>4. QED
      BY <2>1, <2>3 DEF WellNested
  <1>5. Owed(frames, failedBlock) = {afterForBlock, failedBlock} /\ afterForBlock # failedBlock
    <2>1. afterForBlock = frames[1].footer
      <3>1. TargetsAt(frames, 1, afterForBlock, nextForBlock) /\ frames[1].of = "function"
        BY <1>1, <1>3, <1>4 DEF IInv, LoopTargets, Top
      <3>2. NoLoop(frames, 1)
        BY <3>1 DEF NoLoop
      <3>3. QED
        BY <3>1, <3>2 DEF TargetsAt
    <2>2. \A i \in 1..Len(frames) : i = 1
      BY <1>4
    <2>3. Owed(frames, failedBlock) = Owes(frames[1], failedBlock)
      BY <1>4, <2>2 DEF Owed
    <2>4. Owes(frames[1], failedBlock) = {frames[1].footer, failedBlock}
      BY <1>1, <1>4 DEF Owes, Top
    <2>5. frames[1].footer # failedBlock
      BY <1>1, <1>2, <1>4 DEF Ahead, Stacked, IsVisitor, Top
    <2>6. QED
      BY <2>1, <2>3, <2>4, <2>5
  <1> DEFINE owed  == {afterForBlock, failedBlock}
             loose == Loose(made)
  <1>6. /\ Laid(blocks, own, currentFunction, loose, owed, {at}) /\ at \notin owed
        /\ \A b \in owed \cup {at, n + 1} : b \in DOMAIN own /\ own[b] = currentFunction
        /\ DOMAIN own = 1..n + 1 /\ n + 1 \notin owed \cup {at}
    <2>1. /\ Laid(blocks, own, currentFunction, loose, owed, {at}) /\ at \notin owed
          /\ \A b \in owed \cup {at} : b \in 1..n /\ b \in DOMAIN own /\ own[b] = currentFunction
          /\ DOMAIN own = 1..n + 1
          /\ \A b \in n + 1..n + 1 : own[b] = currentFunction
      BY <1>2, <1>5 DEF Ahead
    <2>2. n + 1 \notin 1..n /\ n + 1 \in n + 1..n + 1 /\ n + 1 \in 1..n + 1
      BY <1>3
    <2>3. QED
      BY <2>1, <2>2
  <1> HIDE DEF loose
  <1>7. AllAim(own, loose, at, code) /\ Ended(code)
    <2> HIDE DEF f
    <2>1. Len(goals) \in Nat
      <3>1. Len(made) \in Nat \ {0} /\ made \in Seq(T)
        BY <1>3 DEF CodeInv, currentFunction
      <3>2. f \in T
        BY <3>1, ElementOfSeq DEF f, currentFunction
      <3>3. QED
        BY <3>2 DEF MadeOf
    <2>2. failedBlock \in DOMAIN own /\ own[failedBlock] = own[at] /\ afterForBlock \in DOMAIN own
          /\ own[afterForBlock] = own[at]
      BY <1>6
    <2> HIDE DEF goals
    <2>3. AllAim(own, loose, at, Goals(goals)) /\ Straight(Goals(goals))
      BY <2>1, <2>2, GoalsAim
    <2>4. AllAim(own, loose, at, calls) /\ Straight(calls)
      <3> DEFINE i == [op |-> "C call", of |-> f, failed |-> failedBlock]
      <3>1. Aims(own, loose, at, i) /\ i.op \notin Terminators
        BY <2>2 DEF Aims, TargetsOf, Terminators
      <3>2. AllAim(own, loose, at, <<>>) /\ Straight(<<>>)
        BY DEF AllAim, Straight, IsList
      <3> HIDE DEF i, call
      <3>3. AllAim(own, loose, at, <<i>>) /\ Straight(<<i>>)
        BY <3>1, Instructions
      <3>4. QED
        BY <3>2, <3>3 DEF i
    <2> HIDE DEF calls
    <2>5. AllAim(own, loose, at, Goals(goals) \o calls) /\ Straight(Goals(goals) \o calls)
      BY <2>3, <2>4, CodeJoined
    <2>6. AllAim(own, loose, at, <<Br(afterForBlock)>>) /\ Ended(<<Br(afterForBlock)>>)
      BY <2>2, BrAims
    <2>7. QED
      BY <2>5, <2>6, CodeJoined
  <1>8. AllAim(own, loose, afterForBlock, solve) /\ Ended(solve)
    <2> DEFINE i == [op |-> "solve", to |-> n + 1, failed |-> failedBlock]
    <2>1. TargetsOf(i) = {n + 1, failedBlock} /\ i.op \in Terminators
      BY DEF TargetsOf, Terminators
    <2> HIDE DEF i
    <2>2. Aims(own, loose, afterForBlock, i)
      BY <1>6, <2>1 DEF Aims
    <2>3. AllAim(own, loose, afterForBlock, <<i>>) /\ Ended(<<i>>)
      BY <2>1, <2>2, Instructions
    <2>4. solve = <<i>>
      BY <1>3 DEF i
    <2>5. QED
      BY <2>3, <2>4
  <1>9. AllAim(own, loose, failedBlock, rollback) /\ Ended(rollback)
    <2> DEFINE i == [op |-> "rollback"]
               j == [op |-> "ret", value |-> FALSE]
    <2>1. /\ Aims(own, loose, failedBlock, i) /\ i.op \notin Terminators
          /\ Aims(own, loose, failedBlock, j) /\ j.op \in Terminators
      BY DEF Aims, TargetsOf, Terminators
    <2> HIDE DEF i, j
    <2>2. /\ AllAim(own, loose, failedBlock, <<i>>) /\ Straight(<<i>>)
          /\ AllAim(own, loose, failedBlock, <<j>>) /\ Ended(<<j>>)
      BY <2>1, Instructions
    <2>3. AllAim(own, loose, failedBlock, <<i>> \o <<j>>) /\ Ended(<<i>> \o <<j>>)
      BY <2>2, CodeJoined
    <2>4. <<i>> \o <<j>> = <<i, j>>
      BY TwoInstructions
    <2>5. QED
      BY <2>3, <2>4 DEF i, j
  <1>10. IsLaid(succeeded, n + 1, own, currentFunction, loose, owed, {at})
    <2> DEFINE i == [op |-> "ret", value |-> TRUE]
    <2>1. Aims(own, loose, n + 1, i) /\ i.op \in Terminators
      BY DEF Aims, TargetsOf, Terminators
    <2> HIDE DEF i
    <2>2. AllAim(own, loose, n + 1, <<i>>) /\ Ended(<<i>>)
      BY <2>1, Instructions
    <2> DEFINE ret == <<i>>
    <2> HIDE DEF ret, owed
    <2>3. IsLaid([in |-> currentFunction, code |-> ret], n + 1, own, currentFunction, loose, owed, {at})
      BY <1>3, <1>6, <2>2, NewLaid DEF ret
    <2>4. QED
      BY <2>3 DEF ret, i
  <1> HIDE DEF succeeded, code, solve, rollback
  <1>11. Laid(added, own, currentFunction, loose, owed, {at}) /\ Len(added) = n + 1
    <2> DEFINE open == {at}
    <2>1. n + 1 \in DOMAIN own
      BY <1>6
    <2> HIDE DEF open, owed
    <2>2. QED
      BY <1>6, <1>10, <2>1, LaidAppended DEF open
  <1> HIDE DEF added
  <1>12. /\ Laid(withAfter, own, currentFunction, loose, {failedBlock}, {at, afterForBlock})
         /\ Len(withAfter) = n + 1
    <2>1. owed \ {afterForBlock} = {failedBlock} /\ {at} \cup {afterForBlock} = {at, afterForBlock}
          /\ afterForBlock \in owed
      BY <1>5
    <2> HIDE DEF owed
    <2>2. /\ Laid(Put(added, afterForBlock), own, currentFunction, loose,
                  owed \ {afterForBlock}, {at} \cup {afterForBlock})
          /\ Len(Put(added, afterForBlock)) = Len(added)
      BY <1>3, <1>11, <2>1, PutLaid
    <2>3. QED
      BY <1>11, <2>1, <2>2
  <1> HIDE DEF withAfter
  <1>13. /\ Laid(withBoth, own, currentFunction, loose, {}, {at, afterForBlock, failedBlock})
         /\ Len(withBoth) = n + 1
    <2> DEFINE less == {failedBlock}
               more == {at, afterForBlock}
    <2>1. less \ {failedBlock} = {} /\ more \cup {failedBlock} = {at, afterForBlock, failedBlock}
          /\ failedBlock \in less
      OBVIOUS
    <2>2. Laid(withAfter, own, currentFunction, loose, less, more)
      BY <1>12
    <2> HIDE DEF less, more
    <2>3. /\ Laid(Put(withAfter, failedBlock), own, currentFunction, loose,
                  less \ {failedBlock}, more \cup {failedBlock})
          /\ Len(Put(withAfter, failedBlock)) = Len(withAfter)
      BY <1>3, <2>1, <2>2, PutLaid
    <2>4. QED
      BY <1>12, <2>1, <2>3
  <1> HIDE DEF withBoth
  <1>14. Laid(first, own, currentFunction, loose, {}, {afterForBlock, failedBlock}) /\ Len(first) = n + 1
    <2> DEFINE more == {at, afterForBlock, failedBlock}
    <2>1. at \in more /\ more \ {at} = {afterForBlock, failedBlock}
      BY <1>6
    <2>2. Laid(withBoth, own, currentFunction, loose, {}, more)
      BY <1>13
    <2> HIDE DEF more
    <2>3. Laid(first, own, currentFunction, loose, {}, more \ {at}) /\ Len(first) = Len(withBoth)
      BY <1>7, <2>1, <2>2, Emitted
    <2>4. QED
      BY <1>13, <2>1, <2>3
  <1> HIDE DEF first
  <1>15. Laid(second, own, currentFunction, loose, {}, {failedBlock}) /\ Len(second) = n + 1
    <2> DEFINE more == {afterForBlock, failedBlock}
    <2>1. afterForBlock \in more /\ more \ {afterForBlock} = {failedBlock}
      BY <1>5
    <2>2. Laid(first, own, currentFunction, loose, {}, more)
      BY <1>14
    <2> HIDE DEF more
    <2>3. Laid(second, own, currentFunction, loose, {}, more \ {afterForBlock}) /\ Len(second) = Len(first)
      BY <1>8, <2>1, <2>2, Emitted
    <2>4. QED
      BY <1>14, <2>1, <2>3
  <1> HIDE DEF second
  <1>16. Laid(blocks', own, currentFunction, loose, {}, {}) /\ Len(blocks') = n + 1
    <2> DEFINE none == {}
    <2>1. Laid(second, own, currentFunction, loose, none, {failedBlock})
      BY <1>15
    <2> HIDE DEF none
    <2>2. /\ Laid(Emit(second, failedBlock, rollback), own, currentFunction, loose, none, {})
          /\ Len(Emit(second, failedBlock, rollback)) = Len(second)
      BY <1>9, <2>1, EmittedLast
    <2>3. QED
      BY <1>1, <1>15, <2>2 DEF none
  <1>17. frames' = <<>>
    BY <1>1, <1>4, SubSeqEmpty DEF Outer
  <1>18. DOMAIN own = 1..Len(blocks')
    BY <1>6, <1>16
  <1>19. /\ Laid(blocks', own, currentFunction', Loose(made'), Owed(frames', failedBlock'), {})
         /\ Stacked(frames', failedBlock', own, currentFunction', S)
    <2>1. currentFunction' = currentFunction /\ Loose(made') = loose
      BY <1>1 DEF currentFunction, loose
    <2>2. QED
      BY <1>16, <1>17, <2>1, NothingOwed
  <1>20. Whole(own, S)'
    BY <1>17, <1>18, <1>19 DEF Whole, Open
  <1>21. QED
    BY <1>20

\* A call without function spoils the block that it is emitted to.
Spoils(code) == IsList(code) /\ Len(code) = 1 /\ IsWithoutFunction(code[1])

LEMMA Spoilt ==
    ASSUME NEW bs, NEW own, NEW function, NEW loose, Laid(bs, own, function, loose, {}, {}),
           NEW b, NEW code, AllAim(own, loose, b, code), Spoils(code)
    PROVE  /\ Laid(Emit(bs, b, code), own, function, loose, {}, {})
           /\ Len(Emit(bs, b, code)) = Len(bs)
  <1> DEFINE new == Emit(bs, b, code)
  <1>1. IsList(bs)
    BY DEF Laid
  <1>2. CASE b \notin 1..Len(bs)
    <2>1. DOMAIN bs = 1..Len(bs) /\ bs = [x \in DOMAIN bs |-> bs[x]]
      BY <1>1 DEF IsList
    <2>2. new = bs
      BY <1>2, <2>1 DEF Emit
    <2>3. QED
      BY <2>2
  <1>3. CASE b \in 1..Len(bs)
    <2>1. IsLaid(bs[b], b, own, function, loose, {}, {})
      BY <1>3 DEF Laid
    <2>2. DOMAIN bs[b] = {"in", "code"} /\ IsList(bs[b].code)
      BY <2>1 DEF IsLaid
    <2>3. /\ IsList(new) /\ Len(new) = Len(bs)
          /\ \A i \in 1..Len(bs) : i # b => new[i] = bs[i]
          /\ DOMAIN new[b] = {"in", "code"} /\ new[b].in = bs[b].in
          /\ new[b].code = bs[b].code \o code
      <3>1. IsList(bs) /\ b \in 1..Len(bs) /\ DOMAIN bs[b] = {"in", "code"}
        BY <1>1, <1>3, <2>2
      <3>2. QED
        BY ONLY <3>1, EmitIs DEF new
    <2> HIDE DEF new
    <2>4. /\ IsList(new[b].code) /\ AllAim(own, loose, b, new[b].code)
          /\ Len(new[b].code) = Len(bs[b].code) + 1 /\ new[b].code[Len(bs[b].code) + 1] = code[1]
      <3> DEFINE old == bs[b].code
      <3>1. IsList(old) /\ AllAim(own, loose, b, old)
        BY <2>1 DEF IsLaid
      <3> HIDE DEF old
      <3>2. IsList(old \o code) /\ Len(old \o code) = Len(old) + 1 /\ (old \o code)[Len(old) + 1] = code[1]
        <4>1. IsList(code)
          BY DEF Spoils
        <4>2. /\ IsList(old \o code) /\ Len(old \o code) = Len(old) + Len(code)
              /\ \A i \in 1..Len(code) : (old \o code)[Len(old) + i] = code[i]
          BY <3>1, <4>1, ListsJoin
        <4>3. Len(code) = 1 /\ 1 \in 1..Len(code)
          BY DEF Spoils
        <4>4. QED
          BY <4>1, <4>2, <4>3
      <3>3. AllAim(own, loose, b, old \o code)
        BY <3>1, AimsJoined DEF Spoils
      <3>4. QED
        BY <2>3, <3>2, <3>3 DEF old
    <2>5. IsSpoilt(new[b].code)
      <3>1. Len(bs[b].code) \in Nat /\ DOMAIN new[b].code = 1..Len(new[b].code)
        BY <2>2, <2>4 DEF IsList
      <3>2. Len(bs[b].code) + 1 \in DOMAIN new[b].code
        BY <2>4, <3>1
      <3>3. QED
        BY <2>4, <3>2 DEF IsSpoilt, Spoils
    <2>6. IsLaid(new[b], b, own, function, loose, {}, {})
      BY <2>1, <2>3, <2>4, <2>5 DEF IsLaid
    <2>7. {} \cup {} \subseteq 1..Len(bs) /\ {} \cap {} = {}
      OBVIOUS
    <2>8. Laid(new, own, function, loose, {}, {})
      <3>1. ASSUME NEW x \in 1..Len(bs)
            PROVE  IsLaid(new[x], x, own, function, loose, {}, {})
        <4>1. IsLaid(bs[x], x, own, function, loose, {}, {})
          BY DEF Laid
        <4>2. QED
          BY <2>3, <2>6, <4>1
      <3>2. QED
        BY <2>3, <2>7, <3>1 DEF Laid
    <2>9. QED
      BY <2>3, <2>8 DEF new
  <1>4. QED
    BY <1>2, <1>3

LEMMA ImportWhole ==
    ASSUME NEW S, NEW T, CodeInv(S, T), ImportWithoutFunction
    PROVE  \E later : Whole(later, S)'
  <1>1. PICK f \in Upcoming :
           /\ f.of = "declarative"
           /\ UNCHANGED <<frames, made, at, failedBlock>>
           /\ blocks' = blocks \/ blocks' = Emit(blocks, at, <<[op |-> "C call", of |-> f]>>)
    BY DEF ImportWithoutFunction, Crashes, ImportsInto
  <1>2. CASE blocks' = blocks
    BY <1>1, <1>2, WholeUnchanged
  <1>3. CASE blocks' = Emit(blocks, at, <<[op |-> "C call", of |-> f]>>)
    <2>1. PICK own : Whole(own, S)
      BY DEF CodeInv
    <2>2. frames = <<>>
      BY <1>1 DEF Upcoming
    <2>3. Laid(blocks, own, currentFunction, Loose(made), {}, {}) /\ DOMAIN own = 1..Len(blocks)
      BY <2>1, <2>2, NothingOwed DEF Whole, Open
    <2>4. Laid(blocks', own, currentFunction, Loose(made), {}, {}) /\ Len(blocks') = Len(blocks)
      <3> DEFINE i    == [op |-> "C call", of |-> f]
                 code == <<i>>
      <3>1. IsWithoutFunction(i) /\ Aims(own, Loose(made), at, i)
        BY <1>1 DEF IsWithoutFunction, Aims
      <3>2. blocks' = Emit(blocks, at, code)
        BY <1>3
      <3> HIDE DEF i
      <3>3. Spoils(code) /\ AllAim(own, Loose(made), at, code)
        BY <3>1, Instructions DEF IsList, Spoils
      <3> HIDE DEF code
      <3>4. QED
        BY <2>3, <3>1, <3>2, <3>3, Spoilt
    <2>5. /\ Laid(blocks', own, currentFunction', Loose(made'), Owed(frames', failedBlock'), {})
          /\ Stacked(frames', failedBlock', own, currentFunction', S)
      <3>1. currentFunction' = currentFunction /\ Loose(made') = Loose(made) /\ frames' = <<>>
        BY <1>1, <2>2 DEF currentFunction
      <3>2. QED
        BY <2>4, <3>1, NothingOwed
    <2>6. Whole(own, S)'
      BY <1>1, <2>2, <2>3, <2>4, <2>5 DEF Whole, Open
    <2>7. QED
      BY <2>6
  <1>4. QED
    BY <1>1, <1>2, <1>3

----------------------------------------------------------------------------
(* The code as a whole *)

LEMMA CodeKept ==
    ASSUME NEW S, NEW T, MadeOf(S, T), CodeInv(S, T), [CodegenNext]_codegenVars
    PROVE  CodeInv(S, T)'
  <1>1. IInv'
    BY StepKeeps DEF CodeInv
  <1>2. pending \in Seq(T) /\ made \in Seq(T)
    BY DEF CodeInv
  <1>3. ASSUME NEW f \in Upcoming PROVE f \in T /\ Tail(pending) \in Seq(T)
    <2>1. pending # <<>> /\ f \in {pending[i] : i \in 1..Len(pending)}
      BY <1>2 DEF Upcoming
    <2>2. QED
      BY <1>2, <2>1, ElementOfSeq, HeadTailProperties
  <1>4. ASSUME pending' \in Seq(T), made' \in Seq(T), \E own : Whole(own, S)'
        PROVE  CodeInv(S, T)'
    BY <1>1, <1>4 DEF CodeInv
  <1>5. ASSUME NEW m \in Modules, Accept(m) PROVE CodeInv(S, T)'
    <2>1. m.functions \in Seq(T)
      BY DEF MadeOf
    <2>2. pending' \in Seq(T) /\ UNCHANGED <<frames, made, blocks, at, failedBlock>>
      BY <1>5, <2>1 DEF Accept
    <2>3. QED
      BY <1>2, <1>4, <2>2, WholeUnchanged
  <1>6. CASE EnterFunction
    <2>1. PICK f \in Upcoming : pending' = Tail(pending) /\ made' = Append(made, f)
      BY <1>6 DEF EnterFunction
    <2>2. pending' \in Seq(T) /\ made' \in Seq(T)
      BY <1>2, <1>3, <2>1
    <2>3. QED
      BY <1>4, <1>6, <2>2, EnterWhole
  <1>7. CASE ImportFunction
    <2>1. pending' = Tail(pending) /\ Upcoming # {} /\ UNCHANGED <<frames, made, blocks, at, failedBlock>>
      BY <1>7 DEF ImportFunction
    <2>2. QED
      BY <1>2, <1>3, <1>4, <2>1, WholeUnchanged
  <1>8. CASE ImportWithoutFunction
    <2>1. made' = made /\ Upcoming # {} /\ (pending' = pending \/ pending' = Tail(pending))
      BY <1>8 DEF ImportWithoutFunction, Crashes
    <2>2. QED
      BY <1>2, <1>3, <1>4, <1>8, <2>1, ImportWhole
  <1>9. CASE EndFunction
    <2>1. UNCHANGED <<pending, made>>
      BY <1>9 DEF EndFunction
    <2>2. QED
      BY <1>2, <1>4, <1>9, <2>1, EndWhole
  <1>10. CASE VisitExpression
    <2>1. UNCHANGED <<pending, made>>
      BY <1>10 DEF VisitExpression
    <2>2. QED
      BY <1>2, <1>4, <1>10, <2>1, ExpressionWhole
  <1>11. CASE VisitIf
    <2>1. UNCHANGED <<pending, made>>
      BY <1>11 DEF VisitIf
    <2>2. QED
      BY <1>2, <1>4, <1>11, <2>1, IfWhole
  <1>12. CASE LeaveThen
    <2>1. UNCHANGED <<pending, made>>
      BY <1>12 DEF LeaveThen
    <2>2. QED
      BY <1>2, <1>4, <1>12, <2>1, ThenWhole
  <1>13. CASE LeaveElse
    <2>1. UNCHANGED <<pending, made>>
      BY <1>13 DEF LeaveElse
    <2>2. QED
      BY <1>2, <1>4, <1>13, <2>1, ElseWhole
  <1>14. CASE VisitFor
    <2>1. CASE Node.condition = <<>>
      <3>1. UNCHANGED <<pending, frames, made, blocks, at, failedBlock>>
        BY <1>14, <2>1 DEF VisitFor, Crashes
      <3>2. QED
        BY <1>2, <1>4, <3>1, WholeUnchanged
    <2>2. CASE Node.condition # <<>>
      <3>1. UNCHANGED <<pending, made>>
        BY <1>14, <2>2 DEF VisitFor
      <3>2. QED
        BY <1>2, <1>4, <1>14, <2>2, <3>1, ForWhole
    <2>3. QED
      BY <2>1, <2>2
  <1>15. CASE LeaveFor
    <2>1. UNCHANGED <<pending, made>>
      BY <1>15 DEF LeaveFor
    <2>2. QED
      BY <1>2, <1>4, <1>15, <2>1, LoopWhole
  <1>16. CASE VisitBreak
    <2>1. UNCHANGED <<pending, made>>
      BY <1>16 DEF VisitBreak
    <2>2. QED
      BY <1>2, <1>4, <1>16, <2>1, BreakWhole
  <1>17. CASE VisitContinue
    <2>1. UNCHANGED <<pending, made>>
      BY <1>17 DEF VisitContinue
    <2>2. QED
      BY <1>2, <1>4, <1>17, <2>1, ContinueWhole
  <1>18. CASE UNCHANGED codegenVars
    <2>1. UNCHANGED <<pending, frames, made, blocks, at, failedBlock>>
      BY <1>18 DEF codegenVars
    <2>2. QED
      BY <1>2, <1>4, <2>1, WholeUnchanged
  <1>19. CASE NameFails
    <2>1. UNCHANGED <<pending, frames, made, blocks, at, failedBlock>>
      BY <1>19 DEF NameFails, Crashes
    <2>2. QED
      BY <1>2, <1>4, <2>1, WholeUnchanged
  <1>20. QED
    BY <1>5, <1>6, <1>7, <1>8, <1>9, <1>10, <1>11, <1>12, <1>13, <1>14, <1>15, <1>16, <1>17, <1>18,
       <1>19
       DEF CodegenNext, Emission

LEMMA CodeStarts ==
    ASSUME NEW S, NEW T, CodegenInit
    PROVE  CodeInv(S, T)
  <1>1. IInv
    BY InitHolds
  <1>2. pending \in Seq(T) /\ made \in Seq(T) /\ currentFunction = 0
    <2>1. <<>> \in Seq(T)
      OBVIOUS
    <2>2. QED
      BY <2>1 DEF CodegenInit, currentFunction
  <1>3. Whole(<<>>, S)
    <2>1. frames = <<>> /\ blocks = <<>> /\ Len(blocks) = 0 /\ DOMAIN <<>> = 1..0
      BY DEF CodegenInit
    <2>2. Laid(<<>>, <<>>, currentFunction, Loose(made), {}, {})
      BY DEF Laid, IsList
    <2>3. QED
      BY <2>1, <2>2, NothingOwed DEF Whole, Open
  <1>4. QED
    BY <1>1, <1>2, <1>3 DEF CodeInv

\* When nothing is owed and no block is open, what was laid out is code.
LEMMA CodeIsWhole ==
    ASSUME NEW S, NEW T, CodeInv(S, T)
    PROVE  BlocksAreWhole
  <1> SUFFICES ASSUME frames = <<>>, NEW b \in DOMAIN blocks
               PROVE  /\ blocks[b].in # NoFunction
                      /\ IsBlock(b) \/ HeadMayFail(made[blocks[b].in]) \/ IsSpoilt(blocks[b].code)
    BY DEF BlocksAreWhole
  <1>1. PICK own : DOMAIN own = 1..Len(blocks) /\ Laid(blocks, own, currentFunction, Loose(made), {}, {})
    BY NothingOwed DEF CodeInv, Whole, Open
  <1>2. DOMAIN blocks = 1..Len(blocks)
    BY <1>1 DEF Laid, IsList
  <1>3. \A c \in DOMAIN blocks :
           /\ IsList(blocks[c].code) /\ AllAim(own, Loose(made), c, blocks[c].code)
           /\ blocks[c].in = own[c] /\ own[c] \in 1..currentFunction
           /\ Ended(blocks[c].code) \/ IsSpoilt(blocks[c].code)
    BY <1>1, <1>2 DEF Laid, IsLaid
  <1>4. currentFunction \in Nat
    BY LenProperties DEF CodeInv, currentFunction
  <1>5. blocks[b].in # NoFunction
    BY <1>3, <1>4 DEF NoFunction
  <1>6. ASSUME Ended(blocks[b].code), ~HeadMayFail(made[blocks[b].in]), ~IsSpoilt(blocks[b].code)
        PROVE  IsBlock(b)
    <2> DEFINE code == blocks[b].code
    <2>1. DOMAIN code = 1..Len(code) /\ Len(code) \in Nat
      BY <1>3 DEF IsList
    <2>2. code # <<>> /\ \A i \in DOMAIN code : code[i].op \in Terminators <=> i = Len(code)
      BY <1>6, <2>1 DEF Ended
    <2>3. own[b] \notin Loose(made)
      BY <1>3, <1>6 DEF Loose
    <2>4. ASSUME NEW i \in DOMAIN code, NEW to \in TargetsOf(code[i])
          PROVE  to \in DOMAIN blocks /\ blocks[to].in = blocks[b].in
      <3>1. ~IsWithoutFunction(code[i])
        BY <1>6 DEF IsSpoilt
      <3>2. Aims(own, Loose(made), b, code[i])
        BY <1>3, <2>1 DEF AllAim
      <3>3. to \in DOMAIN own /\ own[to] = own[b]
        BY <2>3, <3>1, <3>2 DEF Aims
      <3>4. QED
        BY <1>1, <1>2, <1>3, <3>3
    <2>5. QED
      BY <2>2, <2>4 DEF IsBlock
  <1>7. QED
    BY <1>3, <1>5, <1>6

\* Whatever the statements and however they are nested, what is emitted for a module
\* is code: every block is in a function, ends in its only terminator and branches
\* within the function.
THEOREM EmittedIsCode ==
    ASSUME NEW S, NEW T, MadeOf(S, T)
    PROVE  CodegenSpec => []BlocksAreWhole
  <1>1. CodegenInit => CodeInv(S, T)
    BY CodeStarts
  <1>2. CodeInv(S, T) /\ [CodegenNext]_codegenVars => CodeInv(S, T)'
    BY CodeKept
  <1>3. CodeInv(S, T) => BlocksAreWhole
    BY CodeIsWhole
  <1>4. QED
    BY <1>1, <1>2, <1>3, PTL DEF CodegenSpec

----------------------------------------------------------------------------
(* The list of functions *)

\* What IsListedAs says if the functions ms were made.
Stands(ms, entry, f) ==
    IF f.body.is = "extern DI" THEN entry = [of |-> "import", definition |-> f]
    ELSE entry.of = "function" /\ entry.function \in DOMAIN ms /\ ms[entry.function] = f

\* Of the functions fs, the last Len(left) were not visited yet; the others are in
\* the list, but for the one, if any, that is made and listed when it is left.
Listed(fs, left, ms, list, awaited) ==
    LET visited == Len(fs) - Len(left)
    IN  /\ \A i \in 1..Len(left) : left[i] = fs[visited + i]
        /\ Len(list) + awaited = visited /\ visited \in 0..Len(fs)
        /\ \A i \in 1..Len(list) : Stands(ms, list[i], fs[i])

\* A C function is made when its definition is entered, and listed when it is left.
Awaits == frames # <<>> /\ IsExternC(made[currentFunction])

ListInv ==
    /\ IsList(accepted) /\ IsList(pending) /\ IsList(made) /\ IsList(functions)
    /\ frames # <<>> => made # <<>>
    /\ errors = {} /\ ~crashed /\ (\A i \in DOMAIN accepted : ~WithoutGoal(accepted[i])) =>
          /\ ~Awaits => Listed(accepted, pending, made, functions, 0)
          /\ Awaits => /\ Listed(accepted, pending, made, functions, 1)
                       /\ made[currentFunction] = accepted[Len(functions) + 1]

AreLists == \A m \in Modules : IsList(m.functions)

\* A list without elements is the empty one.
LEMMA ListIsEmpty ==
    ASSUME NEW s, IsList(s)
    PROVE  s = <<>> <=> Len(s) = 0
  <1>1. s \in Seq({s[i] : i \in 1..Len(s)})
    BY ElementsOfSeq DEF IsList
  <1>2. QED
    BY <1>1, EmptySeq

\* What Append does to a list.
LEMMA ListAppended ==
    ASSUME NEW s, IsList(s), NEW e
    PROVE  /\ IsList(Append(s, e)) /\ Len(Append(s, e)) = Len(s) + 1
           /\ \A i \in 1..Len(s) : Append(s, e)[i] = s[i]
           /\ Append(s, e)[Len(s) + 1] = e
  BY Pushed DEF IsList

\* What Tail does to a list.
LEMMA TailOfList ==
    ASSUME NEW s, IsList(s), Len(s) # 0
    PROVE  /\ IsList(Tail(s)) /\ Len(Tail(s)) = Len(s) - 1
           /\ \A i \in 1..Len(s) - 1 : Tail(s)[i] = s[i + 1]
  <1> DEFINE T == {s[i] : i \in 1..Len(s)}
  <1>1. s \in Seq(T) /\ s # <<>>
    BY ElementsOfSeq, ListIsEmpty DEF IsList
  <1> HIDE DEF T
  <1>2. /\ Tail(s) \in Seq(T) /\ Len(Tail(s)) = Len(s) - 1
        /\ \A i \in 1..Len(Tail(s)) : Tail(s)[i] = s[i + 1]
    BY <1>1, HeadTailProperties
  <1>3. IsList(Tail(s))
    BY <1>2, LenProperties DEF IsList
  <1>4. QED
    BY <1>2, <1>3

\* What is listed stays listed when functions are made.
LEMMA StaysListed ==
    ASSUME NEW ms, IsList(ms), NEW entry, NEW f, Stands(ms, entry, f), NEW m
    PROVE  Stands(Append(ms, m), entry, f)
  <1>1. CASE f.body.is = "extern DI"
    BY <1>1 DEF Stands
  <1>2. CASE f.body.is # "extern DI"
    <2>1. entry.of = "function" /\ entry.function \in DOMAIN ms /\ ms[entry.function] = f
      BY <1>2 DEF Stands
    <2>2. DOMAIN ms = 1..Len(ms) /\ DOMAIN Append(ms, m) = 1..Len(ms) + 1 /\ Len(ms) \in Nat
      BY ListAppended DEF IsList
    <2>3. entry.function \in DOMAIN Append(ms, m) /\ Append(ms, m)[entry.function] = f
      BY <2>1, <2>2, ListAppended
    <2>4. QED
      BY <1>2, <2>1, <2>3 DEF Stands
  <1>3. QED
    BY <1>1, <1>2

\* So the list says the same of the functions visited.
LEMMA ListedLater ==
    ASSUME NEW fs, NEW left, NEW ms, NEW list, NEW awaited,
           IsList(ms), Listed(fs, left, ms, list, awaited), NEW m
    PROVE  Listed(fs, left, Append(ms, m), list, awaited)
  BY StaysListed DEF Listed

\* The next function is visited and has to wait, or is listed at once.
LEMMA NextTaken ==
    ASSUME NEW fs, NEW left, NEW ms, NEW list, IsList(fs), IsList(left), IsList(list), Len(left) # 0,
           Listed(fs, left, ms, list, 0)
    PROVE  /\ Listed(fs, Tail(left), ms, list, 1)
           /\ left[1] = fs[Len(list) + 1] /\ Len(list) + 1 \in 1..Len(fs)
  <1>1. /\ IsList(Tail(left)) /\ Len(Tail(left)) = Len(left) - 1
        /\ \A i \in 1..Len(left) - 1 : Tail(left)[i] = left[i + 1]
    BY TailOfList
  <1>2. Len(left) \in Nat \ {0} /\ Len(fs) \in Nat /\ Len(list) \in Nat
    BY DEF IsList
  <1> DEFINE visited == Len(fs) - Len(left)
  <1>3. /\ \A i \in 1..Len(left) : left[i] = fs[visited + i]
        /\ Len(list) + 0 = visited /\ visited \in 0..Len(fs)
        /\ \A i \in 1..Len(list) : Stands(ms, list[i], fs[i])
    BY DEF Listed
  <1>4. left[1] = fs[Len(list) + 1] /\ Len(list) + 1 \in 1..Len(fs)
    BY <1>2, <1>3
  <1>5. Len(fs) - Len(Tail(left)) = visited + 1 /\ Len(list) + 1 = visited + 1 /\ visited + 1 \in 0..Len(fs)
    BY <1>1, <1>2, <1>3
  <1>6. ASSUME NEW i \in 1..Len(Tail(left)) PROVE Tail(left)[i] = fs[visited + 1 + i]
    <2>1. i \in 1..Len(left) - 1 /\ i + 1 \in 1..Len(left) /\ visited + (i + 1) = visited + 1 + i
      BY <1>1, <1>2, <1>3
    <2>2. QED
      BY <1>1, <1>3, <2>1
  <1> HIDE DEF visited
  <1>7. Listed(fs, Tail(left), ms, list, 1)
    BY <1>3, <1>5, <1>6 DEF Listed
  <1>8. QED
    BY <1>4, <1>7

\* The function that had to wait is listed.
LEMMA NextListed ==
    ASSUME NEW fs, NEW left, NEW ms, NEW list, IsList(list), Listed(fs, left, ms, list, 1),
           NEW entry, Stands(ms, entry, fs[Len(list) + 1])
    PROVE  Listed(fs, left, ms, Append(list, entry), 0)
  <1>1. /\ Len(Append(list, entry)) = Len(list) + 1 /\ Len(list) \in Nat
        /\ \A i \in 1..Len(list) : Append(list, entry)[i] = list[i]
        /\ Append(list, entry)[Len(list) + 1] = entry
    BY ListAppended DEF IsList
  <1>2. ASSUME NEW i \in 1..Len(list) + 1 PROVE Stands(ms, Append(list, entry)[i], fs[i])
    BY <1>1 DEF Listed
  <1>3. Len(list) + 1 = Len(Append(list, entry)) + 0
    BY <1>1
  <1>4. QED
    BY <1>1, <1>2, <1>3 DEF Listed

\* If nothing was reported, nothing was before.
LEMMA ListUnchanged ==
    ASSUME ListInv, UNCHANGED <<accepted, pending, made, functions>>,
           frames = <<>> <=> frames' = <<>>, errors \subseteq errors', ~crashed' => ~crashed
    PROVE  ListInv'
  <1>1. errors' = {} => errors = {}
    OBVIOUS
  <1>2. Awaits' <=> Awaits
    BY DEF Awaits, currentFunction
  <1>3. QED
    BY <1>1, <1>2 DEF ListInv, currentFunction

\* A function is the only visitor in progress, and what is within one never is.
LEMMA VisitorsLeft ==
    ASSUME IInv, frames # <<>>
    PROVE  /\ IsList(Outer) /\ IsList(After) /\ After # <<>>
           /\ Top.of = "function" <=> Outer = <<>>
  <1>1. Len(frames) \in Nat \ {0} /\ WellNested(frames)
    BY Progress DEF IInv
  <1>2. Len(Outer) = Len(frames) - 1 /\ IsList(Outer)
    BY <1>1, Popped DEF Outer, IsList, WellNested
  <1>3. Top.of = "function" <=> Len(frames) = 1
    BY <1>1 DEF WellNested, Top
  <1>4. IsList(After) /\ After # <<>>
    BY AfterIsAlike DEF WellNested, IsList
  <1>5. QED
    BY <1>1, <1>2, <1>3, <1>4, ListIsEmpty

\* Nothing has been reported, and there is no definition whose call goes elsewhere.
Clean == errors = {} /\ ~crashed /\ \A i \in DOMAIN accepted : ~WithoutGoal(accepted[i])

\* The function that is visited next, and what follows if all was well so far.
LEMMA FirstTaken ==
    ASSUME ListInv, NEW f \in Upcoming
    PROVE  /\ frames = <<>> /\ ~crashed /\ ~Awaits /\ f = pending[1] /\ Len(pending) # 0
           /\ Clean => /\ Listed(accepted, Tail(pending), made, functions, 1)
                       /\ f = accepted[Len(functions) + 1] /\ ~WithoutGoal(f)
  <1>1. frames = <<>> /\ ~crashed /\ ~Awaits /\ 1 \in 1..Len(pending) /\ f = pending[1]
    BY DEF Upcoming, Awaits
  <1>2. Len(pending) # 0
    BY <1>1 DEF ListInv, IsList
  <1>3. ASSUME Clean
        PROVE  /\ Listed(accepted, Tail(pending), made, functions, 1)
               /\ f = accepted[Len(functions) + 1] /\ ~WithoutGoal(f)
    <2>1. IsList(accepted) /\ IsList(pending) /\ IsList(functions) /\ Listed(accepted, pending, made, functions, 0)
      BY <1>1, <1>3 DEF ListInv, Clean
    <2>2. /\ Listed(accepted, Tail(pending), made, functions, 1)
          /\ f = accepted[Len(functions) + 1] /\ Len(functions) + 1 \in 1..Len(accepted)
      BY <1>1, <1>2, <2>1, NextTaken
    <2>3. QED
      BY <1>3, <2>1, <2>2 DEF Clean, IsList
  <1>4. QED
    BY <1>1, <1>2, <1>3

\* A function is entered, and listed unless it is to be called from C.
LEMMA ListEntered ==
    ASSUME ListInv, EnterFunction
    PROVE  ListInv'
  <1>1. PICK f \in Upcoming :
           /\ CreatesFunction(f) /\ pending' = Tail(pending) /\ made' = Append(made, f)
           /\ functions' = (IF IsListed(f) THEN Append(functions, [of |-> "function", function |-> currentFunction + 1])
                            ELSE functions)
           /\ frames' # <<>> /\ accepted' = accepted
           /\ errors \subseteq errors'
    BY DEF EnterFunction, EmitsTerms
  <1> DEFINE entry == [of |-> "function", function |-> currentFunction + 1]
  <1>2. /\ frames = <<>> /\ ~crashed /\ f = pending[1] /\ Len(pending) # 0
        /\ Clean => /\ Listed(accepted, Tail(pending), made, functions, 1)
                    /\ f = accepted[Len(functions) + 1]
    BY FirstTaken
  <1>3. IsList(made) /\ IsList(pending) /\ IsList(functions) /\ IsList(accepted)
    BY DEF ListInv
  <1>4. /\ IsList(made') /\ Len(made') = Len(made) + 1 /\ made'[Len(made')] = f /\ made' # <<>>
    BY <1>1, <1>3, ListAppended, NotEmpty
  <1>5. IsList(accepted)' /\ IsList(pending)' /\ IsList(functions)'
    BY <1>1, <1>2, <1>3, TailOfList, ListAppended
  <1>6. Clean' => Clean
    BY <1>1, <1>2 DEF Clean
  <1>7. Awaits' <=> IsExternC(f)
    BY <1>1, <1>4 DEF Awaits, currentFunction
  <1>8. CASE IsExternC(f)
    <2>1. functions' = functions
      BY <1>1, <1>8 DEF IsListed
    <2>2. Clean' => /\ Listed(accepted, pending', made', functions, 1)
                    /\ made'[Len(made')] = accepted[Len(functions) + 1]
      BY <1>1, <1>2, <1>3, <1>4, <1>6, ListedLater
    <2>3. QED
      BY <1>1, <1>4, <1>5, <1>7, <1>8, <2>1, <2>2 DEF ListInv, Clean, currentFunction
  <1>9. CASE ~IsExternC(f)
    <2>1. functions' = Append(functions, entry)
      BY <1>1, <1>9 DEF IsListed
    <2>2. Stands(made', entry, f)
      <3>1. f.body.is # "extern DI"
        BY <1>1, <1>9 DEF CreatesFunction
      <3>2. currentFunction + 1 \in DOMAIN made' /\ made'[currentFunction + 1] = f
        BY <1>3, <1>4 DEF currentFunction, IsList
      <3>3. QED
        BY <3>1, <3>2 DEF Stands
    <2> HIDE DEF entry
    <2>3. Clean' => Listed(accepted, pending', made', functions, 1) /\ f = accepted[Len(functions) + 1]
      BY <1>1, <1>2, <1>3, <1>6, ListedLater
    <2>4. Clean' => Listed(accepted, pending', made', functions', 0)
      BY <1>3, <2>1, <2>2, <2>3, NextListed
    <2>5. QED
      BY <1>1, <1>4, <1>5, <1>7, <1>9, <2>4 DEF ListInv, Clean
  <1>10. QED
    BY <1>8, <1>9

\* The functions of another module are listed at once.
LEMMA ListImported ==
    ASSUME ListInv, ImportFunction
    PROVE  ListInv'
  <1>1. PICK f \in Upcoming :
           /\ f.body.is = "extern DI" /\ pending' = Tail(pending)
           /\ functions' = Append(functions, [of |-> "import", definition |-> f])
           /\ UNCHANGED <<accepted, frames, made, errors, crashed>>
    BY DEF ImportFunction
  <1> DEFINE entry == [of |-> "import", definition |-> f]
  <1>2. /\ frames = <<>> /\ Len(pending) # 0
        /\ Clean => /\ Listed(accepted, Tail(pending), made, functions, 1)
                    /\ f = accepted[Len(functions) + 1]
    BY FirstTaken
  <1>3. IsList(made) /\ IsList(pending) /\ IsList(functions) /\ IsList(accepted)
    BY DEF ListInv
  <1>4. IsList(accepted)' /\ IsList(pending)' /\ IsList(functions)' /\ IsList(made)'
    BY <1>1, <1>2, <1>3, TailOfList, ListAppended
  <1>5. Stands(made, entry, f) /\ functions' = Append(functions, entry)
    BY <1>1 DEF Stands
  <1> HIDE DEF entry
  <1>6. Clean => Listed(accepted, pending', made, functions', 0)
    BY <1>1, <1>2, <1>3, <1>5, NextListed
  <1>7. QED
    BY <1>1, <1>2, <1>4, <1>6 DEF ListInv, Clean, Awaits

\* It is not clean to import without a function.
LEMMA ListSpoilt ==
    ASSUME ListInv, ImportWithoutFunction
    PROVE  ListInv'
  <1> DEFINE entry == [of |-> "function", function |-> currentFunction]
  <1>1. PICK f \in Upcoming :
           /\ WithoutGoal(f) /\ accepted' = accepted /\ frames' = frames /\ made' = made
           /\ errors \subseteq errors' /\ (crashed' = TRUE \/ crashed' = crashed)
           /\ (pending' = pending \/ pending' = Tail(pending))
           /\ (functions' = functions \/ functions' = Append(functions, entry))
    <2>1. PICK f \in Upcoming :
             /\ IsExternC(f) /\ f.of = "declarative"
             /\ \/ Crashes
                \/ /\ pending' = Tail(pending) /\ errors' = errors \cup ImportErrors(f)
                   /\ ImportsInto(f) \/ UNCHANGED <<blocks, functions>>
                   /\ UNCHANGED <<accepted, frames, made, crashed>>
      BY DEF ImportWithoutFunction
    <2>2. WithoutGoal(f)
      BY <2>1 DEF WithoutGoal
    <2>3. CASE Crashes
      BY <2>2, <2>3 DEF Crashes
    <2>4. CASE ~Crashes
      <3>1. functions' = functions \/ functions' = Append(functions, entry)
        BY <2>1, <2>4 DEF ImportsInto
      <3>2. QED
        BY <2>1, <2>2, <2>4, <3>1
    <2>5. QED
      BY <2>3, <2>4
  <1>2. Len(pending) # 0 /\ frames = <<>> /\ ~Clean
    BY <1>1, FirstTaken
  <1>3. IsList(made) /\ IsList(pending) /\ IsList(functions) /\ IsList(accepted)
    BY DEF ListInv
  <1> HIDE DEF entry
  <1>4. IsList(accepted)' /\ IsList(pending)' /\ IsList(functions)' /\ IsList(made)'
    <2>1. IsList(pending')
      BY <1>1, <1>2, <1>3, TailOfList
    <2>2. IsList(functions')
      BY <1>1, <1>3, ListAppended
    <2>3. QED
      BY <1>1, <1>3, <2>1, <2>2
  <1>5. ~Clean'
    BY <1>1, <1>2 DEF Clean
  <1>6. QED
    BY <1>1, <1>2, <1>4, <1>5 DEF ListInv, Clean

\* A C function is listed when it is left, if its arguments were right.
LEMMA ListEnded ==
    ASSUME IInv, ListInv, EndFunction
    PROVE  ListInv'
  <1> DEFINE f     == made[currentFunction]
             call  == IsExternC(f) /\ errors \cup ImportErrors(f) = {}
             entry == [of |-> "function", function |-> currentFunction]
  <1>1. /\ frames # <<>> /\ ~crashed /\ Top.of = "function" /\ frames' = Outer
        /\ functions' = (IF call THEN Append(functions, entry) ELSE functions)
        /\ errors \subseteq errors' /\ (IsExternC(f) => ImportErrors(f) \subseteq errors')
        /\ UNCHANGED <<accepted, pending, made>>
    BY DEF EndFunction, Leaves, IsAt
  <1>2. frames' = <<>> /\ ~Awaits'
    BY <1>1, VisitorsLeft DEF Awaits
  <1>3. IsList(made) /\ IsList(pending) /\ IsList(functions) /\ IsList(accepted) /\ made # <<>>
    BY <1>1 DEF ListInv
  <1>4. IsList(accepted)' /\ IsList(pending)' /\ IsList(functions)' /\ IsList(made)'
    BY <1>1, <1>3, ListAppended
  <1>5. Clean' => Clean
    BY <1>1 DEF Clean
  <1>6. CASE ~IsExternC(f)
    <2>1. functions' = functions /\ ~Awaits
      BY <1>1, <1>6 DEF Awaits
    <2>2. QED
      BY <1>1, <1>2, <1>4, <1>5, <2>1 DEF ListInv, Clean
  <1>7. CASE IsExternC(f)
    <2>1. Awaits
      BY <1>1, <1>7 DEF Awaits
    <2>2. Clean' => call
      BY <1>1, <1>5, <1>7 DEF Clean
    <2>3. Clean' => Listed(accepted, pending, made, functions, 1) /\ f = accepted[Len(functions) + 1]
      BY <1>5, <2>1 DEF ListInv, Clean
    <2>4. Stands(made, entry, f)
      <3>1. Len(made) \in Nat \ {0} /\ DOMAIN made = 1..Len(made)
        BY <1>3, ListIsEmpty DEF IsList
      <3>2. currentFunction \in DOMAIN made
        BY <3>1 DEF currentFunction
      <3>3. QED
        BY <1>7, <3>2 DEF Stands, IsExternC
    <2> HIDE DEF call, entry, f
    <2>5. Clean' => Listed(accepted, pending', made', functions', 0)
      BY <1>1, <1>3, <2>2, <2>3, <2>4, NextListed
    <2>6. QED
      BY <1>1, <1>2, <1>4, <2>5 DEF ListInv, Clean
  <1>8. QED
    BY <1>6, <1>7

\* Nothing else enters or leaves a function.
LEMMA WithinFunction ==
    ASSUME IInv, frames # <<>>,
           VisitExpression \/ VisitIf \/ LeaveThen \/ LeaveElse \/ VisitFor \/ LeaveFor
             \/ VisitBreak \/ VisitContinue
    PROVE  /\ UNCHANGED <<accepted, pending, made, functions>> /\ frames' # <<>>
           /\ errors \subseteq errors' /\ ~crashed
  <1>1. IsList(Outer) /\ IsList(After) /\ After # <<>> /\ (Top.of # "function" => Outer # <<>>)
    BY VisitorsLeft
  <1>2. \A f : Append(After, f) # <<>> /\ Append(Outer, f) # <<>>
    BY <1>1, NotEmpty
  <1>3. CASE VisitExpression
    BY <1>1, <1>3 DEF VisitExpression, Visit, EmitsTerms
  <1>4. CASE VisitIf
    BY <1>2, <1>4 DEF VisitIf, Visit, EmitsTerms
  <1>5. CASE LeaveThen
    BY <1>2, <1>5 DEF LeaveThen, Leaves, IsAt, EmitsNoTerms
  <1>6. CASE LeaveElse
    BY <1>1, <1>6 DEF LeaveElse, Leaves, IsAt, EmitsNoTerms
  <1>7. CASE VisitFor
    <2>1. CASE Node.condition = <<>>
      BY <1>7, <2>1 DEF VisitFor, Visit, Crashes
    <2>2. CASE Node.condition # <<>>
      BY <1>2, <1>7, <2>2 DEF VisitFor, Visit, EmitsTerms
    <2>3. QED
      BY <2>1, <2>2
  <1>8. CASE LeaveFor
    BY <1>1, <1>8 DEF LeaveFor, Leaves, IsAt, EmitsTerms
  <1>9. CASE VisitBreak
    BY <1>1, <1>9 DEF VisitBreak, Visit, EmitsNoTerms
  <1>10. CASE VisitContinue
    BY <1>1, <1>10 DEF VisitContinue, Visit
  <1>11. QED
    BY <1>3, <1>4, <1>5, <1>6, <1>7, <1>8, <1>9, <1>10

\* Every step keeps the list.
LEMMA ListKept ==
    ASSUME AreLists, IInv, ListInv, [CodegenNext]_codegenVars
    PROVE  ListInv'
  <1>1. ASSUME NEW m \in Modules, Accept(m) PROVE ListInv'
    <2>1. /\ accepted' = m.functions /\ pending' = m.functions /\ IsList(m.functions)
          /\ frames = <<>> /\ UNCHANGED <<frames, made, functions>>
          /\ functions = <<>> /\ Len(functions) = 0
      BY <1>1 DEF Accept, AreLists, ListInv
    <2>2. ~Awaits' /\ IsList(made)' /\ IsList(functions)'
      BY <2>1 DEF Awaits, ListInv
    <2>3. Listed(accepted', pending', made', functions', 0)
      <3>1. Len(accepted') - Len(pending') = 0 /\ 0 \in 0..Len(accepted')
        BY <2>1 DEF IsList
      <3>2. QED
        BY <2>1, <3>1 DEF Listed, IsList
    <2>4. QED
      BY <2>1, <2>2, <2>3 DEF ListInv
  <1>2. CASE frames # <<>> /\
             (VisitExpression \/ VisitIf \/ LeaveThen \/ LeaveElse \/ VisitFor \/ LeaveFor
               \/ VisitBreak \/ VisitContinue)
    BY <1>2, WithinFunction, ListUnchanged
  <1>3. CASE VisitExpression \/ VisitIf \/ LeaveThen \/ LeaveElse \/ VisitFor \/ LeaveFor
               \/ VisitBreak \/ VisitContinue
    <2>1. frames # <<>>
      BY <1>3 DEF VisitExpression, VisitIf, LeaveThen, LeaveElse, VisitFor, LeaveFor, VisitBreak,
                  VisitContinue, Visit, Leaves, IsAt
    <2>2. QED
      BY <1>2, <1>3, <2>1
  <1>4. CASE UNCHANGED codegenVars
    BY <1>4, ListUnchanged DEF codegenVars
  <1>5. CASE NameFails
    BY <1>5, ListUnchanged DEF NameFails, Crashes
  <1>6. QED
    BY <1>1, <1>3, <1>4, <1>5, ListEntered, ListImported, ListSpoilt, ListEnded DEF CodegenNext, Emission

\* Whatever definitions a module has, if all of it was visited without error, each of
\* them is in the list that calls are resolved with, once and at its place in the
\* source.
THEOREM ListKeepsOrder ==
    ASSUME AreLists
    PROVE  CodegenSpec => []ListedInOrder
  <1>1. CodegenInit => IInv /\ ListInv
    <2>1. CodegenInit => ListInv
      BY DEF CodegenInit, ListInv, IsList, Listed, Awaits
    <2>2. QED
      BY <2>1, InitHolds
  <1>2. IInv /\ ListInv /\ [CodegenNext]_codegenVars => IInv' /\ ListInv'
    BY StepKeeps, ListKept
  <1>3. ListInv => ListedInOrder
    <2> SUFFICES ASSUME ListInv, frames = <<>>, pending = <<>>, Clean
                 PROVE  /\ Len(functions) = Len(accepted)
                        /\ \A i \in DOMAIN functions : IsListedAs(functions[i], accepted[i])
      BY DEF ListedInOrder, Clean
    <2>1. IsList(functions) /\ IsList(accepted) /\ Listed(accepted, pending, made, functions, 0) /\ Len(pending) = 0
      BY DEF ListInv, Awaits, Clean
    <2>2. Len(functions) = Len(accepted) /\ \A i \in 1..Len(functions) : Stands(made, functions[i], accepted[i])
      <3>1. Len(functions) \in Nat /\ Len(accepted) \in Nat
        BY <2>1 DEF IsList
      <3>2. Len(functions) + 0 = Len(accepted) - Len(pending)
        BY <2>1 DEF Listed
      <3>3. QED
        BY <2>1, <3>1, <3>2 DEF Listed
    <2>3. QED
      BY <2>1, <2>2 DEF IsListedAs, Stands, IsList
  <1>4. QED
    BY <1>1, <1>2, <1>3, PTL DEF CodegenSpec

----------------------------------------------------------------------------
(* Fields of Codegen *)

\* Between two functions the fields keep what they had; while one is emitted, what
\* they refer to is owed or open.
Referred == {failedBlock, afterForBlock, nextForBlock, at} \subseteq 0..Len(blocks)
TypeInv  == frames = <<>> => Referred

\* To emit and to put makes no blocks.
LEMMA EmitsWithin ==
    ASSUME NEW bs, IsList(bs), NEW b, NEW code
    PROVE  /\ IsList(Emit(bs, b, code)) /\ Len(Emit(bs, b, code)) = Len(bs)
           /\ IsList(Put(bs, b)) /\ Len(Put(bs, b)) = Len(bs)
  <1> DEFINE emitted == [bs[b] EXCEPT !.code = bs[b].code \o code]
             put     == [bs[b] EXCEPT !.in = currentFunction]
  <1>1. Emit(bs, b, code) = [bs EXCEPT ![b] = emitted]
    BY DEF Emit
  <1>2. Put(bs, b) = [bs EXCEPT ![b] = put]
    BY DEF Put
  <1> HIDE DEF emitted, put
  <1>3. CASE b \in 1..Len(bs)
    <2>1. \A v : IsList([bs EXCEPT ![b] = v]) /\ Len([bs EXCEPT ![b] = v]) = Len(bs)
      BY <1>3, ListUpdated
    <2>2. QED
      BY <1>1, <1>2, <2>1
  <1>4. CASE b \notin 1..Len(bs)
    <2>1. DOMAIN bs = 1..Len(bs) /\ bs = [x \in DOMAIN bs |-> bs[x]]
      BY DEF IsList
    <2>2. \A v : [bs EXCEPT ![b] = v] = bs
      BY <1>4, <2>1
    <2>3. QED
      BY <1>1, <1>2, <2>2
  <1>5. QED
    BY <1>3, <1>4

\* What CodeInv says of sizes.
LEMMA CodeIsList ==
    ASSUME NEW S, NEW T, CodeInv(S, T)
    PROVE  IsList(blocks) /\ currentFunction \in Nat
  BY LenProperties DEF CodeInv, Whole, Laid, currentFunction

\* The fields refer to blocks in both cases.
LEMMA FieldsAreBlocks ==
    ASSUME NEW S, NEW T, CodeInv(S, T), TypeInv
    PROVE  CodegenTypeOK /\ Referred
  <1>1. /\ IsList(blocks) /\ DOMAIN blocks = 1..Len(blocks) /\ Len(blocks) \in Nat
        /\ currentFunction \in Nat
    BY CodeIsList DEF IsList
  <1>2. PICK own : /\ Laid(blocks, own, currentFunction, Loose(made), Owed(frames, failedBlock), Open)
                   /\ DOMAIN own = 1..Len(blocks)
    BY DEF CodeInv, Whole
  <1>3. \A b \in 1..Len(blocks) :
           /\ b \in Owed(frames, failedBlock) => blocks[b].in = NoFunction
           /\ b \notin Owed(frames, failedBlock) => blocks[b].in = own[b] /\ own[b] \in 1..currentFunction
           /\ b \in Open => own[b] = currentFunction
    BY <1>2 DEF Laid, IsLaid
  <1>4. \A b \in 1..Len(blocks) : blocks[b].in \in 0..currentFunction
    BY <1>1, <1>3 DEF NoFunction
  <1>5. /\ Owed(frames, failedBlock) \cup Open \subseteq 1..Len(blocks)
        /\ Owed(frames, failedBlock) \cap Open = {}
    BY <1>2 DEF Laid
  <1>6. CASE frames # <<>>
    <2>1. at \in 1..Len(blocks) /\ blocks[at].in = currentFunction
      BY <1>3, <1>5, <1>6 DEF Open
    <2>2. Referred
      BY <1>1, <1>5, <1>6, <2>1, TargetsOwed DEF CodeInv, Referred, NoBlock
    <2>3. QED
      BY <1>1, <1>4, <2>1, <2>2 DEF CodegenTypeOK, Referred, NoBlock
  <1>7. CASE frames = <<>>
    BY <1>1, <1>4, <1>7 DEF CodegenTypeOK, Referred, TypeInv, NoBlock
  <1>8. QED
    BY <1>6, <1>7

\* A function is left with the fields it had, and with one block more.
LEMMA FieldsKept ==
    ASSUME NEW S, NEW T, CodeInv(S, T), TypeInv, [CodegenNext]_codegenVars
    PROVE  TypeInv'
  <1> SUFFICES ASSUME frames' = <<>> PROVE Referred'
    BY DEF TypeInv
  <1>1. IsList(blocks) /\ Len(blocks) \in Nat /\ Referred
    BY CodeIsList, FieldsAreBlocks DEF IsList
  <1>2. ASSUME UNCHANGED <<at, failedBlock, afterForBlock, nextForBlock>>, Len(blocks') = Len(blocks)
        PROVE  Referred'
    BY <1>1, <1>2 DEF Referred
  <1>3. ASSUME NEW m \in Modules, Accept(m) PROVE Referred'
    BY <1>2, <1>3 DEF Accept
  <1>4. ~EnterFunction
    BY DEF EnterFunction
  <1>5. CASE ImportFunction
    BY <1>2, <1>5 DEF ImportFunction
  <1>6. CASE ImportWithoutFunction
    <2>1. /\ UNCHANGED <<at, failedBlock, afterForBlock, nextForBlock>>
          /\ blocks' = blocks \/ \E code : blocks' = Emit(blocks, at, code)
      BY <1>6 DEF ImportWithoutFunction, Crashes, ImportsInto
    <2>2. QED
      BY <1>1, <1>2, <2>1, EmitsWithin
  <1>7. CASE EndFunction
    <2>1. PICK block, last, solve, rollback :
             /\ at' = failedBlock /\ UNCHANGED <<failedBlock, afterForBlock, nextForBlock>>
             /\ blocks' = Emit(Emit(Emit(Put(Put(Append(blocks, block), afterForBlock), failedBlock),
                                         at, last), afterForBlock, solve), failedBlock, rollback)
      BY <1>7 DEF EndFunction
    <2> DEFINE bs == Append(blocks, block)
               cs == Put(Put(bs, afterForBlock), failedBlock)
    <2>2. Len(blocks') = Len(blocks) + 1
      <3>1. IsList(bs) /\ Len(bs) = Len(blocks) + 1
        BY <1>1, ListAppended
      <3> HIDE DEF bs
      <3>2. IsList(cs) /\ Len(cs) = Len(bs)
        BY <3>1, EmitsWithin
      <3>3. blocks' = Emit(Emit(Emit(cs, at, last), afterForBlock, solve), failedBlock, rollback)
        BY <2>1 DEF bs
      <3> HIDE DEF cs
      <3>4. Len(blocks') = Len(cs)
        BY <3>2, <3>3, EmitsWithin
      <3>5. QED
        BY <3>1, <3>2, <3>4
    <2>3. QED
      BY <1>1, <2>1, <2>2 DEF Referred
  <1>8. CASE frames # <<>> /\
             (VisitExpression \/ VisitIf \/ LeaveThen \/ LeaveElse \/ VisitFor \/ LeaveFor
               \/ VisitBreak \/ VisitContinue)
    BY <1>8, WithinFunction DEF CodeInv
  <1>9. CASE VisitExpression \/ VisitIf \/ LeaveThen \/ LeaveElse \/ VisitFor \/ LeaveFor
               \/ VisitBreak \/ VisitContinue
    <2>1. frames # <<>>
      BY <1>9 DEF VisitExpression, VisitIf, LeaveThen, LeaveElse, VisitFor, LeaveFor, VisitBreak,
                  VisitContinue, Visit, Leaves, IsAt
    <2>2. QED
      BY <1>8, <1>9, <2>1
  <1>10. CASE UNCHANGED codegenVars
    BY <1>2, <1>10 DEF codegenVars
  <1>11. CASE NameFails
    BY <1>2, <1>11 DEF NameFails, Crashes
  <1>12. QED
    BY <1>3, <1>4, <1>5, <1>6, <1>7, <1>9, <1>10, <1>11 DEF CodegenNext, Emission

\* The fields of Codegen refer to blocks, whatever visitors are within one another,
\* and the one that is emitted to is a block of the current function.
THEOREM FieldsHaveTypes ==
    ASSUME NEW S, NEW T, MadeOf(S, T)
    PROVE  CodegenSpec => []CodegenTypeOK
  <1>1. CodegenInit => CodeInv(S, T) /\ TypeInv
    <2>1. CodegenInit => TypeInv
      BY DEF CodegenInit, TypeInv, Referred, NoBlock
    <2>2. QED
      BY <2>1, CodeStarts
  <1>2. CodeInv(S, T) /\ TypeInv /\ [CodegenNext]_codegenVars => CodeInv(S, T)' /\ TypeInv'
    BY CodeKept, FieldsKept
  <1>3. CodeInv(S, T) /\ TypeInv => CodegenTypeOK
    BY FieldsAreBlocks
  <1>4. QED
    BY <1>1, <1>2, <1>3, PTL DEF CodegenSpec

=============================================================================
