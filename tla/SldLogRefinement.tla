-------------------------- MODULE SldLogRefinement --------------------------
(***************************************************************************)
(* The proof that SldLog implements Backtracking: restoring the state of a *)
(* marker entry by entry is as good as having saved it.                    *)
(***************************************************************************)
EXTENDS SldLogProofs

LEMMA Marks ==
    ASSUME IInv
    PROVE  /\ frames \in Seq(Frame) /\ Len(frames) \in Nat /\ Len(log) \in Nat
           /\ \A f \in 1..Len(frames) : frames[f].mark \in 0..Len(log)
           /\ \A f \in 1..Len(frames) : frames[f].mark <= frames[Len(frames)].mark
  <1>1. frames \in Seq(Frame) /\ Len(frames) \in Nat /\ Len(log) \in Nat
    BY DEF IInv, TypeOK
  <1>2. ASSUME NEW f \in 1..Len(frames)
        PROVE  frames[f].mark \in Nat
    <2>1. frames[f] \in Frame
      BY <1>1
    <2>2. QED
      BY <2>1 DEF Frame
  <1>3. QED
    BY <1>1, <1>2 DEF IInv, MarkersNest

\* The state at the marker of a running call does not change while it runs.
LEMMA MarkedStates ==
    ASSUME IInv, [Next]_vars, NEW f \in 1..Len(frames)
    PROVE  AtNext(frames[f].mark) = At(frames[f].mark)
  <1>1. /\ Len(log) \in Nat /\ Len(log') \in Nat /\ Len(frames) \in Nat
        /\ frames[f].mark \in 0..Len(log)
        /\ frames[f].mark <= frames[Len(frames)].mark
        /\ frames[Len(frames)].mark \in Nat
    <2>1. Len(log') \in Nat
      BY TypePreserved DEF TypeOK
    <2>2. QED
      BY <2>1, Marks
  <1>2. CASE GrowsLog
    BY <1>1, <1>2, GrowthFacts DEF IInv
  <1>3. CASE Revert
    <2>1. Top.mark <= Len(log') /\ \A n \in 0..Len(log') : AtNext(n) = At(n)
      BY <1>3, RevertFacts
    <2>2. frames[f].mark \in 0..Len(log')
      BY <1>1, <2>1 DEF Top
    <2>3. QED
      BY <2>1, <2>2
  <1>4. CASE Unlogged
    BY <1>4 DEF Unlogged, At, AtNext, Now
  <1>5. QED
    BY <1>2, <1>3, <1>4, StepKinds

\* The saved states, as a sequence, before and after the step.
LEMMA SavedFacts ==
    ASSUME IInv, [Next]_vars
    PROVE  /\ Len(frames) \in Nat
           /\ Saved \in Seq(Snapshot) /\ Len(Saved) = Len(frames)
           /\ \A f \in 1..Len(frames) : Saved[f] = At(frames[f].mark)
           /\ Saved' = [f \in 1..Len(frames') |-> AtNext(frames'[f].mark)]
           /\ frames = <<>> <=> Saved = <<>>
           /\ Now \in Snapshot
  <1>1. /\ Len(frames) \in Nat /\ Len(log) \in Nat /\ Now \in Snapshot
        /\ hist \in Seq(Snapshot) /\ Len(hist) = Len(log)
        /\ frames \in Seq(Frame)
    BY CellTypes DEF IInv, TypeOK
  <1>2. ASSUME NEW f \in 1..Len(frames)
        PROVE  At(frames[f].mark) \in Snapshot
    <2>1. frames[f].mark \in Nat
      BY Marks
    <2>2. QED
      BY <1>1, <2>1 DEF At
  <1>3. Saved \in Seq(Snapshot) /\ Len(Saved) = Len(frames)
    <2>1. Saved \in [1..Len(frames) -> Snapshot]
      BY <1>2 DEF Saved
    <2>2. QED
      BY <1>1, <2>1, LenOfFunction
  <1>4. \A f \in 1..Len(frames) : Saved[f] = At(frames[f].mark)
    BY DEF Saved
  <1>5. Saved' = [f \in 1..Len(frames') |-> AtNext(frames'[f].mark)]
    BY DEF Saved, At, AtNext
  <1>6. frames = <<>> <=> Saved = <<>>
    BY <1>1, <1>3
  <1>7. QED
    BY <1>1, <1>3, <1>4, <1>5, <1>6

LEMMA StutterOfCalls ==
    ASSUME IInv, [Next]_vars, frames' = frames
    PROVE  Saved' = Saved
  <1>1. Saved' = [f \in 1..Len(frames) |-> AtNext(frames[f].mark)]
    BY SavedFacts
  <1>2. QED
    BY <1>1, MarkedStates DEF Saved

\* Every step of the program is a step of Backtracking, or none.
LEMMA AbstractStep ==
    ASSUME IInv, [Next]_vars
    PROVE  [Abstract!Next]_(Abstract!vars)
  <1>1. CASE Mutate
    <2>1. mode = "run" /\ mode' = "run" /\ frames # <<>> /\ frames' = frames
      BY <1>1, MutateGrows DEF IInv, GrowsLog, Running
    <2>2. Saved' = Saved /\ Saved # <<>>
      BY <2>1, StutterOfCalls, SavedFacts
    <2>3. ~Leaving /\ Leaving' = Leaving
      BY <2>1 DEF Leaving
    <2>4. Abstract!Modify
      BY <2>2, <2>3 DEF Abstract!Modify
    <2>5. QED
      BY <2>4 DEF Abstract!Next
  <1>2. CASE EnterExport \/ EnterPredicate
    <2>1. PICK kind \in {"predicate", "export"} : Enter(kind)
      BY <1>2 DEF EnterExport, EnterPredicate
    <2>2. Abstract!Enter
      <3>1. mode = "run" /\ mode' = "run" /\ Unlogged
        BY <2>1 DEF Enter, Unlogged
      <3>2. ~Leaving /\ Leaving' = Leaving /\ Seen' = Seen /\ Seen = Now
        BY <3>1 DEF Leaving, Seen, Unlogged, Now
      <3>3. Saved' = Append(Saved, Now)
        <4> DEFINE frame == [kind |-> kind, mark |-> Len(log)]
        <4>1. frame \in Frame /\ frame.mark = Len(log) /\ Len(log) \in Nat
          BY Marks DEF Frame
        <4>2. frames' = Append(frames, frame)
          BY <2>1 DEF Enter
        <4> HIDE DEF frame
        <4>3. /\ frames' \in Seq(Frame) /\ Len(frames') = Len(frames) + 1
              /\ \A f \in 1..Len(frames) : frames'[f] = frames[f]
              /\ frames'[Len(frames) + 1] = frame
          BY <4>1, <4>2, Marks, AppendProperties
        <4>4. /\ Append(Saved, Now) \in Seq(Snapshot)
              /\ Len(Append(Saved, Now)) = Len(frames) + 1
              /\ \A f \in 1..Len(frames) : Append(Saved, Now)[f] = At(frames[f].mark)
              /\ Append(Saved, Now)[Len(frames) + 1] = Now
          BY SavedFacts, AppendProperties
        <4>5. /\ \A f \in 1..Len(frames) : Saved'[f] = At(frames[f].mark)
              /\ Saved'[Len(frames) + 1] = Now
              /\ DOMAIN Saved' = 1..(Len(frames) + 1)
          <5>1. Saved' = [f \in 1..(Len(frames) + 1) |-> AtNext(frames'[f].mark)]
            BY <4>3, SavedFacts
          <5>2. AtNext(Len(log)) = Now
            BY <3>1, <4>1 DEF AtNext, Unlogged, Now
          <5>3. QED
            BY <5>1, <5>2, <4>1, <4>3, MarkedStates, Marks
        <4>6. Saved' \in Seq(Snapshot) /\ Len(Saved') = Len(frames) + 1
          <5>1. \A f \in 1..(Len(frames) + 1) : Saved'[f] \in Snapshot
            BY <4>5, SavedFacts, Marks
          <5>2. Saved' = [f \in 1..(Len(frames) + 1) |-> AtNext(frames'[f].mark)]
            BY <4>3, SavedFacts
          <5>3. Saved' \in [1..(Len(frames) + 1) -> Snapshot]
            BY <5>1, <5>2
          <5>4. QED
            BY <5>3, Marks, LenOfFunction
        <4> DEFINE new == Saved'
                   app == Append(Saved, Now)
        <4>7. /\ new \in Seq(Snapshot) /\ app \in Seq(Snapshot) /\ Len(new) = Len(app)
              /\ \A f \in 1..Len(new) : new[f] = app[f]
          BY <4>4, <4>5, <4>6, Marks
        <4> HIDE DEF new, app
        <4>8. new = app
          BY <4>7, SeqEqual
        <4>9. QED
          BY <4>8 DEF new, app
      <3>4. QED
        BY <3>2, <3>3 DEF Abstract!Enter
    <2>3. QED
      BY <2>2 DEF Abstract!Next
  \* The calls that have left, or are about to, keep the states of the others.
  <1>3. ASSUME frames # <<>>, frames' = Pop, Unlogged
        PROVE  Saved' = Abstract!Drop
    <2>1. /\ Len(frames) - 1 \in Nat /\ Len(frames') = Len(frames) - 1
          /\ \A f \in 1..(Len(frames) - 1) : frames'[f] = frames[f]
      BY <1>3, PopFacts, Marks
    <2> DEFINE n    == Len(frames) - 1
               new  == Saved'
               drop == SubSeq(Saved, 1, n)
    <2>2. new = [f \in 1..n |-> AtNext(frames'[f].mark)]
      BY <2>1, SavedFacts
    <2>3. \A f \in 1..n : f \in 1..Len(frames)
      BY Marks
    <2>4. \A f \in 1..n : new[f] = Saved[f] /\ Saved[f] \in Snapshot
      BY <2>1, <2>2, <2>3, MarkedStates, SavedFacts
    <2>5. new \in [1..n -> Snapshot]
      BY <2>2, <2>4
    <2>6. new \in Seq(Snapshot) /\ Len(new) = n
      BY <2>1, <2>5, LenOfFunction
    <2>7. /\ drop \in Seq(Snapshot) /\ Len(drop) = IF 1 <= n THEN n - 1 + 1 ELSE 0
          /\ \A f \in 1..(n - 1 + 1) : drop[f] = Saved[1 + f - 1]
      BY <2>1, <2>4, SubSeqProperties
    <2>8. n \in Nat
      BY <2>1
    <2> HIDE DEF n, new, drop
    <2>9. Len(drop) = n /\ \A f \in 1..n : drop[f] = Saved[f]
      BY <2>7, <2>8
    <2>10. new = drop
      BY <2>4, <2>6, <2>7, <2>9, SeqEqual
    <2>11. Len(Saved) = Len(frames)
      BY SavedFacts
    <2>12. QED
      BY <2>10, <2>11 DEF new, drop, n, Abstract!Drop
  <1>4. CASE ReturnTrue
    <2>1. /\ mode = "run" /\ mode' = "run" /\ Unlogged
          /\ frames # <<>> /\ frames' = Pop /\ Top.kind = "predicate"
      BY <1>4 DEF ReturnTrue, Running, Unlogged
    <2>2. Len(frames) > 1
      <3>1. frames[1].kind = "export" /\ Len(frames) > 0
        BY <2>1, Marks DEF IInv, MarkersNest
      <3>2. Len(frames) # 1
        BY <2>1, <3>1 DEF Top
      <3>3. QED
        BY <3>1, <3>2, Marks
    <2>3. ~Leaving /\ Leaving' = Leaving /\ Seen' = Seen
      BY <2>1 DEF Leaving, Seen, Unlogged, Now
    <2>4. Len(Saved) > 1
      BY <2>2, SavedFacts
    <2>5. Abstract!Keep
      BY <1>3, <2>1, <2>3, <2>4 DEF Abstract!Keep
    <2>6. QED
      BY <2>5 DEF Abstract!Next
  <1>5. CASE StartRollback
    <2>1. /\ mode = "run" /\ mode' = "rollback" /\ Unlogged
          /\ frames # <<>> /\ frames' = frames
      BY <1>5 DEF StartRollback, Running, Unlogged
    <2>2. Saved' = Saved /\ Saved # <<>>
      BY <2>1, StutterOfCalls, SavedFacts
    <2>3. ~Leaving /\ Leaving' = TRUE
      BY <2>1 DEF Leaving
    <2>4. Seen' = Abstract!Last
      <3>1. Seen' = At(Top.mark)
        BY <2>1 DEF Seen, Unlogged, At, Now, Top
      <3>2. Abstract!Last = At(Top.mark)
        BY <2>1, SavedFacts DEF Abstract!Last, Top
      <3>3. QED
        BY <3>1, <3>2
    <2>5. Abstract!Undo
      BY <2>2, <2>3, <2>4 DEF Abstract!Undo
    <2>6. QED
      BY <2>5 DEF Abstract!Next
  <1>6. CASE Revert
    <2>1. mode = "rollback" /\ mode' = "rollback" /\ frames' = frames /\ frames # <<>>
      BY <1>6 DEF Revert, IInv, MarkersNest
    <2>2. Saved' = Saved /\ Leaving' = Leaving
      BY <2>1, StutterOfCalls DEF Leaving
    <2>3. Seen' = Seen
      <3>1. Seen' = AtNext(Top.mark)
        BY <2>1 DEF Seen, At, AtNext, Top
      <3>2. AtNext(Top.mark) = At(Top.mark)
        <4>1. Len(frames) \in 1..Len(frames)
          BY <2>1, Marks
        <4>2. QED
          BY <4>1, MarkedStates DEF Top
      <3>3. QED
        BY <2>1, <3>1, <3>2 DEF Seen
    <2>4. QED
      BY <2>2, <2>3 DEF Abstract!vars
  <1>7. CASE EndRollback
    <2>1. /\ mode = "rollback" /\ mode' = "run" /\ Unlogged /\ frames # <<>>
          /\ frames' \in {Pop, frames} /\ ~AboveMarker
      BY <1>7 DEF EndRollback, Unlogged, IInv, MarkersNest
    <2>2. Saved' \in {Abstract!Drop, Saved}
      BY <1>3, <2>1, StutterOfCalls
    <2>3. Leaving /\ Leaving' = FALSE
      BY <2>1 DEF Leaving
    <2>4. Seen' = Seen
      <3>1. Top.mark \in 0..Len(log) /\ Len(log) \in Nat
        BY <2>1, Marks DEF Top
      <3>2. At(Top.mark) = Now
        BY <2>1, <3>1 DEF AboveMarker, At
      <3>3. QED
        BY <2>1, <3>2 DEF Seen, Unlogged, Now
    <2>5. Abstract!Leave
      BY <2>2, <2>3, <2>4 DEF Abstract!Leave
    <2>6. QED
      BY <2>5 DEF Abstract!Next
  <1>8. CASE Failed \/ Aborted \/ UNCHANGED vars
    <2>1. /\ (mode # "rollback" /\ mode' # "rollback") \/ mode' = mode
          /\ Unlogged /\ frames' = frames
      BY <1>8 DEF Failed, Running, Aborted, vars, Unlogged
    <2>2. Saved' = Saved
      BY <2>1, StutterOfCalls
    <2>3. Leaving' = Leaving /\ Seen' = Seen
      BY <2>1 DEF Leaving, Seen, Unlogged, At, Now, Top
    <2>4. QED
      BY <2>2, <2>3 DEF Abstract!vars
  <1>9. QED
    BY <1>1, <1>2, <1>4, <1>5, <1>6, <1>7, <1>8 DEF Next

LEMMA AbstractInit == Init => Abstract!Init
  <1> SUFFICES ASSUME Init PROVE Abstract!Init
    OBVIOUS
  <1>1. Saved = <<>>
    BY DEF Init, Saved
  <1>2. QED
    BY <1>1 DEF Init, Abstract!Init, Seen, Leaving, Now

\* A call that fails leaves the heap and the goals exactly as it found them, a
\* call that succeeds keeps what it did, and a call from C leaves nothing
\* behind: the log, unwound entry by entry, is as good as saved states.
THEOREM LogImplementsBacktracking == Spec => Backtracks
  <1>1. QED
    BY Invariance, AbstractInit, AbstractStep, PTL DEF Spec, Backtracks, Abstract!Spec

=============================================================================
