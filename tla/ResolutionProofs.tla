--------------------------- MODULE ResolutionProofs ---------------------------
(***************************************************************************)
(* Three invariants of resolution, inductive for every program.  LoopInv:  *)
(* what may be on the stack below what, and when a predicate succeeds no   *)
(* goal is pending; nothing is assumed of the values of terms.  SafeInv:   *)
(* every activation holds a context in which the terms that those below it *)
(* use exist, and one that tries predicates, and C code, share theirs with *)
(* what they call, so that a failure or a finished call gives it back.     *)
(* Foretold: every activation is on its way to the outcome that the        *)
(* procedure of the thesis has for its task.                               *)
(***************************************************************************)
EXTENDS ResolutionCorrect, SequenceTheorems, WellFoundedInduction, TLAPS

\* What each kind of activation may be called from.
MayCall(at) ==
    CASE at = "native"    -> {"export"}
      [] at = "export"    -> {"predicate"}
      [] at = "invoke"    -> {"predicate"}
      [] at = "predicate" -> {"invoke", "continue", "native"}
      [] OTHER            -> {"invoke"}

Kinds == {"native", "export", "invoke", "predicate", "continue"}

\* The stack is a sequence of records, each called from one that may call it.
IsStack(s) == Len(s) \in Nat \ {0} /\ \E S : s \in Seq(S)

WellFormed ==
    /\ IsStack(stack)
    /\ stack[1].at = "native"
    /\ \A i \in 1..Len(stack) :
          /\ "at" \in DOMAIN stack[i] /\ stack[i].at \in Kinds
          /\ stack[i].at = "continue" =>
                "turns" \in DOMAIN stack[i] /\ stack[i].turns \in {0, 1}
    /\ \A i \in 1..(Len(stack) - 1) : stack[i + 1].at \in MayCall(stack[i].at)

\* A call of _DI_continueSldResolution has made no turn yet when it runs, unless
\* a goal has just returned to it.
FirstTurn == Top.at = "continue" /\ answer = "none" => Top.turns = 0

Answers == {"none", "true", "false", "aborted"}

LoopInv == WellFormed /\ FirstTurn /\ SuccessSolvesAll /\ answer \in Answers

-----------------------------------------------------------------------------

\* An activation is well formed by itself.
IsActivation(a) ==
    /\ "at" \in DOMAIN a /\ a.at \in Kinds
    /\ a.at = "continue" => "turns" \in DOMAIN a /\ a.turns \in {0, 1}

\* The sequence below the top.
LEMMA Below ==
    ASSUME NEW S, NEW s \in Seq(S), Len(s) > 0
    PROVE  LET below == SubSeq(s, 1, Len(s) - 1) IN
           /\ below \in Seq(S) /\ Len(below) = Len(s) - 1
           /\ \A i \in 1..(Len(s) - 1) : below[i] = s[i]
  <1> DEFINE n == Len(s)
             below == SubSeq(s, 1, n - 1)
  <1>1. n \in Nat \ {0} /\ \A i \in 1..(n - 1) : s[i] \in S
    OBVIOUS
  <1> HIDE DEF n
  <1>2. /\ below \in Seq(S)
        /\ Len(below) = IF 1 <= n - 1 THEN n - 1 - 1 + 1 ELSE 0
        /\ \A i \in 1..(n - 1 - 1 + 1) : below[i] = s[1 + i - 1]
    BY <1>1, SubSeqProperties
  <1> HIDE DEF below
  <1>3. Len(below) = n - 1 /\ \A i \in 1..(n - 1) : below[i] = s[i]
    BY <1>1, <1>2
  <1>4. QED
    BY <1>2, <1>3 DEF below, n

\* A sequence to which two elements are added.
LEMMA TwoMore ==
    ASSUME NEW T, NEW s \in Seq(T), NEW a \in T, NEW b \in T
    PROVE  LET more == s \o <<a, b>> IN
           /\ more \in Seq(T) /\ Len(more) = Len(s) + 2
           /\ \A i \in 1..Len(s) : more[i] = s[i]
           /\ more[Len(s) + 1] = a /\ more[Len(s) + 2] = b
  <1> DEFINE pair == <<a, b>>
  <1>1. pair \in Seq(T) /\ Len(pair) = 2 /\ pair[1] = a /\ pair[2] = b
    OBVIOUS
  <1> HIDE DEF pair
  <1>2. Len(s) \in Nat
    OBVIOUS
  <1> DEFINE more == s \o pair
  <1>3. /\ more \in Seq(T) /\ Len(more) = Len(s) + Len(pair)
        /\ \A i \in 1..(Len(s) + Len(pair)) :
              more[i] = IF i <= Len(s) THEN s[i] ELSE pair[i - Len(s)]
    BY <1>1, ConcatProperties
  <1> HIDE DEF more
  <1>4. /\ Len(more) = Len(s) + 2
        /\ \A i \in 1..Len(s) : more[i] = s[i]
        /\ more[Len(s) + 1] = pair[1] /\ more[Len(s) + 2] = pair[2]
    BY <1>1, <1>2, <1>3
  <1>5. QED
    BY <1>1, <1>3, <1>4 DEF more, pair

\* The callers are the stack without its top.
LEMMA CallerFacts ==
    ASSUME WellFormed
    PROVE  \E S : /\ stack \in Seq(S) /\ Caller \in Seq(S)
                  /\ Len(Caller) = Len(stack) - 1 /\ Len(stack) \in Nat \ {0}
                  /\ \A i \in 1..(Len(stack) - 1) : Caller[i] = stack[i]
  <1>1. Len(stack) \in Nat \ {0}
    BY DEF WellFormed, IsStack
  <1>2. PICK S : stack \in Seq(S)
    BY DEF WellFormed, IsStack
  <1>3. /\ Caller \in Seq(S) /\ Len(Caller) = Len(stack) - 1
        /\ \A i \in 1..(Len(stack) - 1) : Caller[i] = stack[i]
    BY <1>1, <1>2, Below DEF Caller
  <1>4. QED
    BY <1>1, <1>2, <1>3

\* The top activation is replaced by one of its kind.
LEMMA ReplacedTop ==
    ASSUME WellFormed, NEW top, IsActivation(top), top.at = Top.at,
           stack' = Caller \o <<top>>
    PROVE  WellFormed' /\ Top' = top
  <1>1. PICK S : /\ stack \in Seq(S) /\ Caller \in Seq(S)
                 /\ Len(Caller) = Len(stack) - 1 /\ Len(stack) \in Nat \ {0}
                 /\ \A i \in 1..(Len(stack) - 1) : Caller[i] = stack[i]
    BY CallerFacts
  <1> DEFINE T == S \cup {top}
  <1>2. Caller \in Seq(T) /\ <<top>> \in Seq(T)
    BY <1>1
  <1>3. /\ stack' \in Seq(T) /\ Len(stack') = Len(stack)
        /\ \A i \in 1..(Len(stack) - 1) : stack'[i] = stack[i]
        /\ stack'[Len(stack)] = top
    BY <1>1, <1>2
  <1>4. Top' = top
    BY <1>3 DEF Top
  <1>5. IsStack(stack')
    BY <1>1, <1>3 DEF IsStack
  <1>6. \A i \in 1..Len(stack') : IsActivation(stack'[i])
    BY <1>1, <1>3 DEF WellFormed, IsActivation
  <1>7. \A i \in 1..Len(stack') : stack'[i].at = stack[i].at
    BY <1>1, <1>3 DEF Top
  <1>8. QED
    BY <1>1, <1>3, <1>4, <1>5, <1>6, <1>7 DEF WellFormed, IsActivation

\* The top activation is replaced by one of its kind, and makes a call.
LEMMA Called ==
    ASSUME WellFormed, NEW top, IsActivation(top), top.at = Top.at,
           NEW callee, IsActivation(callee), callee.at \in MayCall(Top.at),
           CallFrom(top, callee)
    PROVE  WellFormed' /\ Top' = callee
  <1>1. PICK S : /\ stack \in Seq(S) /\ Caller \in Seq(S)
                 /\ Len(Caller) = Len(stack) - 1 /\ Len(stack) \in Nat \ {0}
                 /\ \A i \in 1..(Len(stack) - 1) : Caller[i] = stack[i]
    BY CallerFacts
  <1> DEFINE T == S \cup {top, callee}
             n == Len(stack)
  <1>2. Caller \in Seq(T) /\ <<top, callee>> \in Seq(T)
    BY <1>1
  <1>3. stack' = Caller \o <<top, callee>>
    BY DEF CallFrom
  <1>4. /\ stack' \in Seq(T) /\ Len(stack') = n + 1
        /\ \A i \in 1..(n - 1) : stack'[i] = stack[i]
        /\ stack'[n] = top /\ stack'[n + 1] = callee
    <2>1. /\ stack' \in Seq(T) /\ Len(stack') = Len(Caller) + 2
          /\ \A i \in 1..Len(Caller) : stack'[i] = Caller[i]
          /\ stack'[Len(Caller) + 1] = top /\ stack'[Len(Caller) + 2] = callee
      <3>1. top \in T /\ callee \in T /\ Caller \in Seq(T)
        BY <1>2
      <3> HIDE DEF T
      <3>2. QED
        BY <3>1, <1>3, TwoMore
    <2>2. n \in Nat /\ Len(Caller) = n - 1
      BY <1>1
    <2> HIDE DEF n
    <2>3. n - 1 + 2 = n + 1 /\ n - 1 + 1 = n
      BY <2>2
    <2>4. \A i \in 1..(n - 1) : Caller[i] = stack[i]
      BY <1>1 DEF n
    <2>5. QED
      BY <2>1, <2>2, <2>3, <2>4
  <1>5. n \in Nat \ {0} /\ Top = stack[n]
    BY <1>1 DEF Top
  <1>6. /\ \A i \in 1..n : IsActivation(stack[i])
        /\ \A i \in 1..(n - 1) : stack[i + 1].at \in MayCall(stack[i].at)
        /\ stack[1].at = "native"
    BY DEF WellFormed, IsActivation
  <1> HIDE DEF n
  <1>7. IsStack(stack') /\ Top' = callee
    BY <1>4, <1>5 DEF IsStack, Top
  <1>8. \A i \in 1..(n + 1) : IsActivation(stack'[i])
    BY <1>4, <1>5, <1>6
  <1>9. \A i \in 1..n : stack'[i].at = stack[i].at
    BY <1>4, <1>5
  <1>10. \A i \in 1..n : stack'[i + 1].at \in MayCall(stack'[i].at)
    <2>1. TAKE i \in 1..n
    <2>2. CASE i = n
      BY <1>4, <1>5, <1>9, <2>2
    <2>3. CASE i # n
      BY <1>5, <1>6, <1>9, <2>3
    <2>4. QED
      BY <2>2, <2>3
  <1>11. QED
    BY <1>4, <1>5, <1>6, <1>7, <1>8, <1>9, <1>10 DEF WellFormed, IsActivation

\* An activation that returns was called by one that may call it.
LEMMA Returned ==
    ASSUME WellFormed, Top.at # "native" \/ Len(stack) > 1, stack' = Caller
    PROVE  WellFormed' /\ Top.at \in MayCall(Top'.at) /\ IsActivation(Top')
  <1>1. PICK S : /\ stack \in Seq(S) /\ Caller \in Seq(S)
                 /\ Len(Caller) = Len(stack) - 1 /\ Len(stack) \in Nat \ {0}
                 /\ \A i \in 1..(Len(stack) - 1) : Caller[i] = stack[i]
    BY CallerFacts
  <1> DEFINE n == Len(stack)
  <1>2. /\ \A i \in 1..n : IsActivation(stack[i])
        /\ \A i \in 1..(n - 1) : stack[i + 1].at \in MayCall(stack[i].at)
        /\ stack[1].at = "native"
    BY DEF WellFormed, IsActivation
  <1>3. n \in Nat \ {0} /\ n > 1
    <2>1. n \in Nat \ {0} /\ Top = stack[n]
      BY <1>1 DEF Top
    <2>2. n = 1 => Top.at = "native"
      BY <1>2, <2>1
    <2>3. n # 1
      BY <2>2
    <2> HIDE DEF n
    <2>4. QED
      BY <2>1, <2>3
  <1>4. Top = stack[n] /\ Len(stack') = n - 1 /\ stack' \in Seq(S)
        /\ \A i \in 1..(n - 1) : stack'[i] = stack[i]
    BY <1>1 DEF Top
  <1> HIDE DEF n
  <1>5. Top' = stack[n - 1]
    BY <1>3, <1>4 DEF Top
  <1>6. n - 1 \in 1..n /\ n - 1 \in 1..(n - 1) /\ n - 1 + 1 = n /\ 1 \in 1..(n - 1)
    BY <1>3
  <1>7. Top.at \in MayCall(Top'.at) /\ IsActivation(Top')
    BY <1>2, <1>4, <1>5, <1>6
  <1>8. IsStack(stack') /\ stack'[1].at = "native"
    BY <1>2, <1>3, <1>4, <1>6 DEF IsStack
  <1>9. /\ \A i \in 1..(n - 1) : IsActivation(stack'[i])
        /\ \A i \in 1..(n - 1 - 1) : stack'[i + 1].at \in MayCall(stack'[i].at)
    <2>1. \A i \in 1..(n - 1) : i \in 1..n
      BY <1>3
    <2>2. \A i \in 1..(n - 1 - 1) : i \in 1..(n - 1) /\ i + 1 \in 1..(n - 1)
      BY <1>3
    <2>3. QED
      BY <1>2, <1>4, <2>1, <2>2
  <1>10. QED
    BY <1>4, <1>7, <1>8, <1>9 DEF WellFormed, IsActivation

\* The top of a well-formed stack is an activation.
LEMMA TopFacts ==
    ASSUME WellFormed
    PROVE  IsActivation(Top)
  <1>1. Len(stack) \in 1..Len(stack)
    BY DEF WellFormed, IsStack
  <1>2. QED
    BY <1>1 DEF WellFormed, IsActivation, Top

\* A statement of a body is done: nothing is answered yet.
LEMMA ProceedKeeps ==
    ASSUME LoopInv, Running("predicate"), Proceed
    PROVE  LoopInv'
  <1>1. WellFormed /\ Top.at = "predicate" /\ answer' = "none"
    BY DEF LoopInv, Running, Proceed
  <1>2. IsActivation(Step) /\ Step.at = Top.at
    BY <1>1, TopFacts DEF IsActivation, Step
  <1>3. WellFormed' /\ Top' = Step
    BY <1>1, <1>2, ReplacedTop DEF Proceed
  <1>4. QED
    BY <1>1, <1>2, <1>3 DEF LoopInv, FirstTurn, SuccessSolvesAll, Answers

\* A call is made, and it has not made a turn of its own.
LEMMA CallKeeps ==
    ASSUME LoopInv, NEW top, IsActivation(top), top.at = Top.at,
           NEW callee, IsActivation(callee), callee.at \in MayCall(Top.at),
           callee.at = "continue" => callee.turns = 0,
           CallFrom(top, callee)
    PROVE  LoopInv'
  <1>1. WellFormed' /\ Top' = callee
    BY Called DEF LoopInv
  <1>2. answer' = "none"
    BY DEF CallFrom
  <1>3. QED
    BY <1>1, <1>2 DEF LoopInv, FirstTurn, SuccessSolvesAll, Answers

\* A call returns an answer other than "none", and "true" with no goal pending.
LEMMA ReturnKeeps ==
    ASSUME LoopInv, Top.at # "native", NEW value \in {"true", "false"}, Return(value),
           value = "true" => goals' = <<>>
    PROVE  LoopInv'
  <1>1. WellFormed' /\ answer' = value
    BY Returned DEF LoopInv, Return
  <1>2. QED
    BY <1>1 DEF LoopInv, FirstTurn, SuccessSolvesAll, Answers

\* A call that returns no answer returns to an activation other than a
\* _DI_continueSldResolution.
LEMMA ReturnToOther ==
    ASSUME LoopInv, Return("none"), Top.at = "export" \/ (Top.at = "native" /\ Len(stack) > 1)
    PROVE  LoopInv'
  <1>1. /\ WellFormed' /\ answer' = "none"
        /\ Top.at \in MayCall(Top'.at) /\ IsActivation(Top')
    BY Returned DEF LoopInv, Return
  <1>2. Top'.at # "continue"
    BY <1>1 DEF MayCall, IsActivation, Kinds
  <1>3. QED
    BY <1>1, <1>2 DEF LoopInv, FirstTurn, SuccessSolvesAll, Answers

\* A predicate is tried by one that may call it.
LEMMA EnterKeeps ==
    ASSUME LoopInv, Top.at \in {"invoke", "export"}, NEW context, NEW argument,
           Enter(context, argument)
    PROVE  LoopInv'
  <1> DEFINE i == CHOOSE i \in Untried : \A j \in Untried : i <= j
             caller == [Top EXCEPT !.next = Advance(i)]
             unified == HeadUnified(context.store, program[i], argument)
             running == [at |-> "predicate", clause |-> i, x |-> X(context.store, program[i]),
                         pc |-> 1, saved |-> context]
  <1>1. IsActivation(caller) /\ caller.at = Top.at
    BY TopFacts DEF LoopInv, IsActivation
  <1>2. IsActivation(running) /\ running.at = "predicate"
    BY DEF IsActivation, Kinds
  <1>3. IF unified = Failed
        THEN stack' = Caller \o <<caller>> /\ answer' = "false"
        ELSE CallFrom(caller, running)
    BY DEF Enter
  <1> HIDE DEF caller, running, unified
  <1>4. CASE unified = Failed
    <2>1. WellFormed' /\ Top' = caller
      BY <1>1, <1>3, <1>4, ReplacedTop DEF LoopInv
    <2>2. QED
      BY <1>3, <1>4, <2>1 DEF LoopInv, FirstTurn, SuccessSolvesAll, Answers
  <1>5. CASE unified # Failed
    <2>1. "predicate" \in MayCall(Top.at)
      BY DEF MayCall
    <2>2. QED
      BY <1>1, <1>2, <1>3, <1>5, <2>1, CallKeeps
  <1>6. QED
    BY <1>4, <1>5

\* The first step of the argument: C code has been called, and nothing else.
LEMMA InitLoopInv == Init => LoopInv
  <1> SUFFICES ASSUME Init PROVE LoopInv
    OBVIOUS
  <1>1. IsActivation(Native(1)) /\ Native(1).at = "native"
    BY DEF IsActivation, Native, Kinds
  <1>2. stack = <<Native(1)>> /\ answer = "none"
    BY DEF Init
  <1>3. Len(stack) = 1 /\ stack[1] = Native(1) /\ stack \in Seq({Native(1)})
    BY <1>2
  <1>4. WellFormed
    BY <1>1, <1>3 DEF WellFormed, IsStack, IsActivation
  <1>5. QED
    BY <1>1, <1>2, <1>3, <1>4 DEF LoopInv, FirstTurn, SuccessSolvesAll, Answers, Top

\* Every step keeps the invariant.
LEMMA NextLoopInv == LoopInv /\ [Next]_vars => LoopInv'
  <1> SUFFICES ASSUME LoopInv, [Next]_vars PROVE LoopInv'
    OBVIOUS
  <1>0. IsActivation(Top) /\ WellFormed
    BY TopFacts DEF LoopInv
  <1>1. CASE CallExport
    <2>1. PICK name \in Exported, argument \in Values :
             CallFrom([Top EXCEPT !.calls = @ - 1],
                      [at |-> "export", name |-> name, argument |-> argument, next |-> 1,
                       saved |-> Now])
      BY <1>1 DEF CallExport
    <2>2. /\ Top.at = "native"
          /\ IsActivation([Top EXCEPT !.calls = @ - 1])
          /\ [Top EXCEPT !.calls = @ - 1].at = Top.at
      BY <1>0, <1>1 DEF CallExport, Running, IsActivation
    <2>3. IsActivation([at |-> "export", name |-> name, argument |-> argument, next |-> 1,
                        saved |-> Now])
      BY DEF IsActivation, Kinds
    <2>4. "export" \in MayCall(Top.at)
      BY <2>2 DEF MayCall
    <2>5. QED
      BY <2>1, <2>2, <2>3, <2>4, CallKeeps
  <1>2. CASE ReturnFromNative
    BY <1>2, ReturnToOther DEF ReturnFromNative, Running
  <1>3. CASE ExportTries
    BY <1>3, EnterKeeps DEF ExportTries, Running
  <1>4. CASE ExportReturns
    BY <1>4, ReturnToOther DEF ExportReturns, Running
  <1>5. CASE ExportAborts
    <2>1. UNCHANGED <<stack, goals>> /\ answer' = "aborted"
      BY <1>5 DEF ExportAborts
    <2>2. QED
      BY <2>1 DEF LoopInv, WellFormed, FirstTurn, SuccessSolvesAll, Answers, Top
  <1>6. CASE InvokeTries
    BY <1>6, EnterKeeps DEF InvokeTries, Running
  <1>7. CASE InvokeReturns
    <2>1. Top.at = "invoke" /\ goals' = goals
      BY <1>7 DEF InvokeReturns, Running
    <2>2. CASE answer = "true" /\ Return("true")
      BY <2>1, <2>2, ReturnKeeps DEF LoopInv, SuccessSolvesAll
    <2>3. CASE Return("false")
      BY <2>1, <2>3, ReturnKeeps
    <2>4. QED
      BY <1>7, <2>2, <2>3 DEF InvokeReturns
  <1>8. CASE AddGoal
    BY <1>8, ProceedKeeps DEF AddGoal, Statements
  <1>9. CASE Call
    <2> DEFINE callee == Invocation(Body[Top.pc].name, Top.x, Now)
    <2>1. CallFrom(Top, callee) /\ Top.at = "predicate"
      BY <1>9 DEF Call, Statements, Running
    <2>2. IsActivation(callee) /\ callee.at = "invoke"
      BY DEF IsActivation, Kinds, Invocation
    <2>3. "invoke" \in MayCall(Top.at)
      BY <2>1 DEF MayCall
    <2> HIDE DEF callee
    <2>4. QED
      BY <1>0, <2>1, <2>2, <2>3, CallKeeps
  <1>10. CASE Unify
    <2>1. Running("predicate") /\ Top.at = "predicate"
      BY <1>10 DEF Unify, Statements, Running
    <2>2. CASE Fail
      BY <2>1, <2>2, ReturnKeeps DEF Fail
    <2>3. CASE Proceed
      BY <2>1, <2>3, ProceedKeeps
    <2>4. QED
      BY <1>10, <2>2, <2>3 DEF Unify
  <1>11. CASE CallNative
    <2> DEFINE callee == Native(IF Natives < MaxNative THEN 1 ELSE 0)
    <2>1. CallFrom(Step, callee) /\ Top.at = "predicate"
      BY <1>11 DEF CallNative, Statements, Running
    <2>2. IsActivation(callee) /\ callee.at = "native"
      BY DEF IsActivation, Kinds, Native
    <2>3. "native" \in MayCall(Top.at)
      BY <2>1 DEF MayCall
    <2>4. IsActivation(Step) /\ Step.at = Top.at
      BY <1>0, <2>1 DEF IsActivation, Step
    <2> HIDE DEF callee
    <2>5. QED
      BY <2>1, <2>2, <2>3, <2>4, CallKeeps
  <1>12. CASE Footer
    <2> DEFINE callee == [at |-> "continue", turns |-> 0]
    <2>1. CallFrom(Top, callee) /\ Top.at = "predicate"
      BY <1>12 DEF Footer, BodyIsDone, Running
    <2>2. IsActivation(callee) /\ callee.at = "continue" /\ callee.turns = 0
      BY DEF IsActivation, Kinds
    <2>3. "continue" \in MayCall(Top.at)
      BY <2>1 DEF MayCall
    <2> HIDE DEF callee
    <2>4. QED
      BY <1>0, <2>1, <2>2, <2>3, CallKeeps
  <1>13. CASE Succeeded
    <2>1. Running("predicate") /\ Top.at = "predicate" /\ answer = "true" /\ goals' = goals
      BY <1>13 DEF Succeeded, Running
    <2>2. CASE Proceed
      BY <2>1, <2>2, ProceedKeeps
    <2>3. CASE Return("true")
      BY <2>1, <2>3, ReturnKeeps DEF LoopInv, SuccessSolvesAll
    <2>4. QED
      BY <1>13, <2>2, <2>3 DEF Succeeded
  <1>14. CASE HasFailed
    BY <1>14, ReturnKeeps DEF HasFailed, Fail, Running
  <1>15. CASE NextGoal
    \* The answer is not "true", as a goal is pending: this is the first turn.
    <2> DEFINE top == [Top EXCEPT !.turns = @ + 1]
               context == [store |-> store, goals |-> Tail(goals)]
               callee == Invocation(Head(goals).name, Head(goals).argument, context)
    <2>1. /\ Top.at = "continue" /\ answer # "false" /\ answer # "aborted" /\ goals # <<>>
          /\ CallFrom(top, callee)
      BY <1>15 DEF NextGoal, Running
    <2>2. Top.turns = 0
      BY <2>1 DEF LoopInv, SuccessSolvesAll, FirstTurn, Answers
    <2>3. IsActivation(top) /\ top.at = Top.at
      BY <1>0, <2>1, <2>2 DEF IsActivation
    <2>4. IsActivation(callee) /\ callee.at = "invoke"
      BY DEF IsActivation, Kinds, Invocation
    <2>5. "invoke" \in MayCall(Top.at)
      BY <2>1 DEF MayCall
    <2> HIDE DEF top, callee
    <2>6. QED
      BY <2>1, <2>3, <2>4, <2>5, CallKeeps
  <1>16. CASE ContinueReturns
    <2>1. Top.at = "continue" /\ goals' = goals
      BY <1>16 DEF ContinueReturns, Running
    <2>2. CASE goals = <<>> /\ Return("true")
      BY <2>1, <2>2, ReturnKeeps
    <2>3. CASE Return("false")
      BY <2>1, <2>3, ReturnKeeps
    <2>4. QED
      BY <1>16, <2>2, <2>3 DEF ContinueReturns
  <1>17. CASE UNCHANGED vars
    BY <1>17 DEF vars, LoopInv, WellFormed, FirstTurn, SuccessSolvesAll, Top
  <1>18. QED
    BY <1>1, <1>2, <1>3, <1>4, <1>5, <1>6, <1>7, <1>8, <1>9, <1>10, <1>11, <1>12, <1>13,
       <1>14, <1>15, <1>16, <1>17 DEF Next

\* For every program, a call that succeeds leaves no goal pending: the footer of
\* a predicate, _DI_continueSldResolution and _DI_invoke pass success on only
\* when the list is empty.
THEOREM SuccessMeansAllSolved == Spec => []SuccessSolvesAll
  <1>1. LoopInv => SuccessSolvesAll
    BY DEF LoopInv
  <1>2. QED
    BY <1>1, InitLoopInv, NextLoopInv, PTL DEF Spec

\* For every program, the loop of _DI_continueSldResolution makes one turn at
\* most, as its comment supposes.
THEOREM OneTurnIsEnough == Spec => []LoopIsNotNecessary
  <1>1. LoopInv => LoopIsNotNecessary
    BY DEF LoopInv, WellFormed, LoopIsNotNecessary
  <1>2. QED
    BY <1>1, InitLoopInv, NextLoopInv, PTL DEF Spec
-----------------------------------------------------------------------------
(* Induction, from the least element of a set of numbers.                  *)
LEMMA LessThan ==
    ASSUME NEW T, T \subseteq Nat, T # {}
    PROVE  \E n \in T : \A m \in T : n <= m
  <1> DEFINE less == OpToRel(<, Nat)
  <1>1. \A m, n \in Nat : m < n => <<m, n>> \in less
    BY DEF OpToRel
  <1> HIDE DEF less
  <1>2. IsWellFoundedOn(less, Nat)
    BY NatLessThanWellFounded DEF less
  <1>3. PICK n \in T : \A m \in T : <<m, n>> \notin less
    BY <1>2, WFMin
  <1>4. \A m \in T : ~ (m < n)
    BY <1>1, <1>3
  <1>5. \A m \in T : n <= m
    BY <1>4
  <1>6. QED
    BY <1>5

\* A set that holds 0 and the successors of its members holds every natural number.
LEMMA Induction ==
    ASSUME NEW P, 0 \in P, \A n \in Nat : n \in P => n + 1 \in P
    PROVE  Nat \subseteq P
  <1>1. SUFFICES ASSUME Nat \ P # {} PROVE FALSE
    OBVIOUS
  <1>2. PICK n \in Nat \ P : \A m \in Nat \ P : n <= m
    BY <1>1, LessThan
  <1>3. n # 0 /\ n - 1 \in Nat /\ n - 1 \in P
    BY <1>2
  <1>4. QED
    BY <1>2, <1>3

\* A store in which a bound variable is bound to a value or to one of its variables.
IsStore(s) ==
    /\ s \in Seq(Term \cup {Unset})
    /\ \A i \in 1..Len(s) : s[i] \in Nat => s[i] \in 1..Len(s)

\* The terms that exist.
Terms(s) == Values \cup 1..Len(s)

\* A bound variable of a store leads to a term of the store.
LEMMA BoundTo ==
    ASSUME NEW s, IsStore(s), NEW t \in Terms(s), Bound(s, t)
    PROVE  s[t] \in Terms(s)
  <1>1. t \in 1..Len(s) /\ s[t] # Unset
    BY DEF Bound, IsStore
  <1>2. s[t] \in Term \cup {Unset}
    BY <1>1 DEF IsStore
  <1>3. QED
    BY <1>1, <1>2 DEF IsStore, Terms, Term

\* The body of the recursive function of Follow.
Follows(s, f, n) == [t \in Term |-> IF n > 0 /\ Bound(s, t) THEN f[n - 1][s[t]] ELSE t]

\* The recursive function of Follow is defined.
LEMMA FollowsExists ==
    ASSUME NEW s, NEW k \in Nat
    PROVE  \E f : f = [n \in 0..k |-> Follows(s, f, n)]
  <1> DEFINE P == {m \in Nat : \E f : f = [n \in 0..m |-> Follows(s, f, n)]}
  <1>1. 0 \in P
    <2> DEFINE f == [n \in 0..0 |-> [t \in Term |-> t]]
    <2>1. f = [n \in 0..0 |-> Follows(s, f, n)]
      BY DEF Follows
    <2>2. QED
      BY <2>1
  <1>2. ASSUME NEW m \in Nat, m \in P PROVE m + 1 \in P
    <2>1. PICK f : f = [n \in 0..m |-> Follows(s, f, n)]
      BY <1>2
    <2> DEFINE g == [n \in 0..(m + 1) |-> IF n = m + 1 THEN Follows(s, f, n) ELSE f[n]]
    <2>2. ASSUME NEW n \in 0..(m + 1) PROVE g[n] = Follows(s, g, n)
      <3>1. n > 0 => g[n - 1] = f[n - 1]
        OBVIOUS
      <3>2. Follows(s, g, n) = Follows(s, f, n)
        BY <3>1 DEF Follows
      <3>3. n # m + 1 => f[n] = Follows(s, f, n)
        BY <2>1
      <3>4. QED
        BY <3>2, <3>3
    <2>3. g = [n \in 0..(m + 1) |-> Follows(s, g, n)]
      BY <2>2
    <2> HIDE DEF g
    <2>4. m + 1 \in Nat /\ \E h : h = [n \in 0..(m + 1) |-> Follows(s, h, n)]
      BY <2>3
    <2>5. QED
      BY <2>4
  <1>3. QED
    BY <1>1, <1>2, Induction

\* The chain of bindings of a term stays in a set that the bindings do not leave.
LEMMA FollowStays ==
    ASSUME NEW s, Len(s) \in Nat, NEW T \in SUBSET Term,
           \A t \in T : Bound(s, t) => s[t] \in T,
           NEW term \in T
    PROVE  Follow(s, term) \in T
  <1> DEFINE f == CHOOSE f : f = [n \in 0..Len(s) |-> Follows(s, f, n)]
             P == {n \in Nat : n <= Len(s) => \A t \in T : f[n][t] \in T}
  <1>1. f = [n \in 0..Len(s) |-> Follows(s, f, n)]
    BY FollowsExists
  <1>2. Follow(s, term) = f[Len(s)][term]
    BY DEF Follow, Follows
  <1> HIDE DEF f
  <1>3. 0 \in P
    BY <1>1 DEF Follows
  <1>4. ASSUME NEW n \in Nat, n \in P PROVE n + 1 \in P
    <2> SUFFICES ASSUME n + 1 <= Len(s), NEW t \in T PROVE f[n + 1][t] \in T
      OBVIOUS
    <2>1. f[n + 1][t] = IF Bound(s, t) THEN f[n][s[t]] ELSE t
      <3>1. n + 1 \in 0..Len(s) /\ n + 1 > 0 /\ (n + 1) - 1 = n /\ t \in Term
        OBVIOUS
      <3>2. f[n + 1] = Follows(s, f, n + 1)
        BY <1>1, <3>1
      <3>3. Follows(s, f, n + 1)[t] = IF Bound(s, t) THEN f[n][s[t]] ELSE t
        BY <3>1 DEF Follows
      <3>4. QED
        BY <3>2, <3>3
    <2>2. n <= Len(s) /\ \A u \in T : f[n][u] \in T
      BY <1>4
    <2>3. QED
      BY <2>1, <2>2
  <1>5. Len(s) \in P
    BY <1>3, <1>4, Induction
  <1>6. QED
    BY <1>2, <1>5

\* followSetVars stays in the store.
LEMMA FollowTyped ==
    ASSUME NEW s, IsStore(s), NEW term \in Terms(s)
    PROVE  Follow(s, term) \in Terms(s)
  <1>1. Len(s) \in Nat /\ Terms(s) \subseteq Term
    BY DEF IsStore, Terms, Term
  <1>2. \A t \in Terms(s) : Bound(s, t) => s[t] \in Terms(s)
    BY BoundTo
  <1>3. QED
    BY <1>1, <1>2, FollowStays

-----------------------------------------------------------------------------
(* The invariant                                                           *)

\* Stored bindings and pending goals, all of whose terms exist.
IsContext(c) ==
    /\ c \in Context /\ IsStore(c.store)
    /\ \A i \in 1..Len(c.goals) : c.goals[i].argument \in Terms(c.store)

\* The context that an activation takes back, or found.
ContextOf(a) ==
    CASE a.at = "native" -> a.found
      [] a.at = "invoke" -> a.from
      [] OTHER           -> a.saved

\* The term that an activation may still use is one of the store.
Fits(a, s) ==
    /\ a.at = "invoke"    => a.argument \in Terms(s)
    /\ a.at = "predicate" => a.x \in Terms(s)

\* _DI_continueSldResolution takes no marker.
HasContext(a) == a.at # "continue"

\* Every activation has its terms, now and after any rollback above it.
TypedStack ==
    /\ stack \in Seq(Activation)
    /\ \A i \in 1..Len(stack) :
          /\ Fits(stack[i], store)
          /\ HasContext(stack[i]) =>
                /\ IsContext(ContextOf(stack[i]))
                /\ \A j \in 1..(i - 1) : Fits(stack[j], ContextOf(stack[i]).store)

\* Those that find their context as it was.
Restoring == {"native", "export", "invoke"}
\* What they call holds the same context, and when it failed or C code runs again
\* it is back.
Restores ==
    /\ \A i \in 1..(Len(stack) - 1) :
          stack[i].at \in Restoring => ContextOf(stack[i + 1]) = ContextOf(stack[i])
    /\ Top.at = "native" \/ (Top.at \in Restoring /\ answer # "true") => Now = ContextOf(Top)

\* A predicate that runs is one of the program.
Runs(a)     == a.at = "predicate" => a.clause \in 1..Len(program)
RunsClauses == \A i \in 1..Len(stack) : Runs(stack[i])

SafeInv == program \in Seq(Clause) /\ IsContext(Now) /\ TypedStack /\ Restores /\ RunsClauses

-----------------------------------------------------------------------------

\* The stack, its top and what is below it.
LEMMA StackFacts ==
    ASSUME WellFormed, stack \in Seq(Activation)
    PROVE  /\ Len(stack) \in Nat \ {0}
           /\ Top = stack[Len(stack)] /\ Top \in Activation
           /\ Caller \in Seq(Activation) /\ Len(Caller) = Len(stack) - 1
           /\ \A i \in 1..(Len(stack) - 1) : Caller[i] = stack[i]
  <1>1. Len(stack) \in Nat \ {0}
    BY DEF WellFormed, IsStack
  <1>2. /\ Caller \in Seq(Activation) /\ Len(Caller) = Len(stack) - 1
        /\ \A i \in 1..(Len(stack) - 1) : Caller[i] = stack[i]
    BY <1>1, Below DEF Caller
  <1>3. Top \in Activation
    <2>1. Len(stack) \in 1..Len(stack)
      BY <1>1
    <2>2. \A i \in 1..Len(stack) : stack[i] \in Activation
      OBVIOUS
    <2>3. QED
      BY <2>1, <2>2 DEF Top
  <1>4. QED
    BY <1>1, <1>2, <1>3 DEF Top

\* The top activation is replaced.
LEMMA StackReplaced ==
    ASSUME WellFormed, stack \in Seq(Activation), NEW top \in Activation,
           stack' = Caller \o <<top>>
    PROVE  /\ stack' \in Seq(Activation) /\ Len(stack') = Len(stack) /\ Top' = top
           /\ \A i \in 1..(Len(stack) - 1) : stack'[i] = stack[i]
           /\ stack'[Len(stack)] = top
  <1>1. /\ Len(stack) \in Nat \ {0}
        /\ Caller \in Seq(Activation) /\ Len(Caller) = Len(stack) - 1
        /\ \A i \in 1..(Len(stack) - 1) : Caller[i] = stack[i]
    BY StackFacts
  <1> HIDE DEF Caller
  <1>2. /\ stack' \in Seq(Activation) /\ Len(stack') = Len(stack)
        /\ \A i \in 1..(Len(stack) - 1) : stack'[i] = stack[i]
        /\ stack'[Len(stack)] = top
    <2>1. PICK T : T = Activation
      OBVIOUS
    <2>2. Caller \in Seq(T) /\ <<top>> \in Seq(T)
      BY <1>1, <2>1
    <2>3. QED
      BY <1>1, <2>1, <2>2
  <1>3. QED
    BY <1>2 DEF Top

\* The top activation is replaced, and calls another.
LEMMA StackCalled ==
    ASSUME WellFormed, stack \in Seq(Activation), NEW top \in Activation, NEW callee \in Activation,
           CallFrom(top, callee)
    PROVE  /\ stack' \in Seq(Activation) /\ Len(stack') = Len(stack) + 1 /\ Top' = callee
           /\ \A i \in 1..(Len(stack) - 1) : stack'[i] = stack[i]
           /\ stack'[Len(stack)] = top /\ stack'[Len(stack) + 1] = callee
  <1>1. /\ Len(stack) \in Nat \ {0}
        /\ Caller \in Seq(Activation) /\ Len(Caller) = Len(stack) - 1
        /\ \A i \in 1..(Len(stack) - 1) : Caller[i] = stack[i]
    BY StackFacts
  <1>2. stack' = Caller \o <<top, callee>>
    BY DEF CallFrom
  <1>3. /\ stack' \in Seq(Activation) /\ Len(stack') = Len(Caller) + 2
        /\ \A i \in 1..Len(Caller) : stack'[i] = Caller[i]
        /\ stack'[Len(Caller) + 1] = top /\ stack'[Len(Caller) + 2] = callee
    <2>1. PICK T : T = Activation
      OBVIOUS
    <2>2. Caller \in Seq(T) /\ top \in T /\ callee \in T
      BY <1>1, <2>1
    <2>3. LET more == Caller \o <<top, callee>> IN
          /\ more \in Seq(T) /\ Len(more) = Len(Caller) + 2
          /\ \A i \in 1..Len(Caller) : more[i] = Caller[i]
          /\ more[Len(Caller) + 1] = top /\ more[Len(Caller) + 2] = callee
      BY <2>2, TwoMore
    <2>4. QED
      BY <1>2, <2>1, <2>3
  <1>4. Len(Caller) + 1 = Len(stack) /\ Len(Caller) + 2 = Len(stack) + 1
    BY <1>1
  <1>5. QED
    BY <1>1, <1>3, <1>4 DEF Top

\* The top activation is gone; C code at the bottom of the stack does not return.
LEMMA StackReturned ==
    ASSUME WellFormed, stack \in Seq(Activation), stack' = Caller,
           Top.at # "native" \/ Len(stack) > 1
    PROVE  /\ stack' \in Seq(Activation) /\ Len(stack') = Len(stack) - 1
           /\ Len(stack) - 1 \in Nat \ {0}
           /\ \A i \in 1..(Len(stack) - 1) : stack'[i] = stack[i]
           /\ Top' = stack[Len(stack) - 1]
  <1>1. /\ Len(stack) \in Nat \ {0} /\ Top = stack[Len(stack)]
        /\ Caller \in Seq(Activation) /\ Len(Caller) = Len(stack) - 1
        /\ \A i \in 1..(Len(stack) - 1) : Caller[i] = stack[i]
    BY StackFacts
  <1>2. Len(stack) # 1
    BY <1>1 DEF WellFormed
  <1> HIDE DEF Caller
  <1>3. QED
    BY <1>1, <1>2 DEF Top

\* One activation takes the place of the other.
Same(a, b) ==
    /\ a.at = b.at /\ (HasContext(b) => ContextOf(a) = ContextOf(b))
    /\ b.at = "predicate" => a.clause = b.clause
    /\ \A s : Fits(b, s) => Fits(a, s)

\* A call keeps the invariant if what is called can hold what it takes from its
\* caller; a caller that tries predicates hands down the context it restores.
LEMMA CallSafe ==
    ASSUME LoopInv, SafeInv,
           NEW top \in Activation, Same(top, Top),
           NEW callee \in Activation, CallFrom(top, callee),
           program' = program, IsContext(Now'),
           Fits(callee, store'), \A i \in 1..Len(stack) : Fits(stack[i], store'),
           HasContext(callee) =>
               /\ IsContext(ContextOf(callee))
               /\ \A i \in 1..Len(stack) : Fits(stack[i], ContextOf(callee).store),
           Top.at \in Restoring => ContextOf(callee) = ContextOf(Top),
           callee.at \in Restoring => Now' = ContextOf(callee),
           Runs(callee)
    PROVE  SafeInv'
  <1> DEFINE n == Len(stack)
  <1>1. WellFormed /\ stack \in Seq(Activation) /\ n \in Nat \ {0} /\ Top = stack[n]
    BY StackFacts DEF LoopInv, SafeInv, TypedStack
  <1>2. /\ stack' \in Seq(Activation) /\ Len(stack') = n + 1 /\ Top' = callee
        /\ \A i \in 1..(n - 1) : stack'[i] = stack[i]
        /\ stack'[n] = top /\ stack'[n + 1] = callee
    BY <1>1, StackCalled
  <1> HIDE DEF n
  <1>3. \A i \in 1..n : Same(stack'[i], stack[i])
    BY <1>1, <1>2 DEF Same
  <1>4. \A i \in 1..n : Fits(stack'[i], store')
    BY <1>3 DEF Same, n
  <1>5. ASSUME NEW i \in 1..n, HasContext(stack'[i])
        PROVE  /\ IsContext(ContextOf(stack'[i]))
               /\ \A j \in 1..(i - 1) : Fits(stack'[j], ContextOf(stack'[i]).store)
    <2>1. HasContext(stack[i]) /\ ContextOf(stack'[i]) = ContextOf(stack[i])
      BY <1>3, <1>5 DEF Same, HasContext
    <2>2. /\ IsContext(ContextOf(stack[i]))
          /\ \A j \in 1..(i - 1) : Fits(stack[j], ContextOf(stack[i]).store)
      BY <2>1 DEF SafeInv, TypedStack, n
    <2>3. \A j \in 1..(i - 1) : j \in 1..n
      BY <1>1
    <2>4. QED
      BY <1>3, <2>1, <2>2, <2>3 DEF Same
  <1>6. HasContext(callee) =>
           /\ IsContext(ContextOf(callee))
           /\ \A i \in 1..n : Fits(stack'[i], ContextOf(callee).store)
    BY <1>3 DEF Same, n
  <1>7. TypedStack'
    <2>1. ASSUME NEW i \in 1..(n + 1)
          PROVE  /\ Fits(stack'[i], store')
                 /\ HasContext(stack'[i]) =>
                       /\ IsContext(ContextOf(stack'[i]))
                       /\ \A j \in 1..(i - 1) : Fits(stack'[j], ContextOf(stack'[i]).store)
      <3>1. CASE i = n + 1
        BY <1>1, <1>2, <1>6, <3>1
      <3>2. CASE i \in 1..n
        BY <1>4, <1>5, <3>2
      <3>3. QED
        BY <1>1, <3>1, <3>2
    <2>2. QED
      BY <1>2, <2>1 DEF TypedStack
  <1>8. Restores'
    <2>1. ASSUME NEW i \in 1..n, stack'[i].at \in Restoring
          PROVE  ContextOf(stack'[i + 1]) = ContextOf(stack'[i])
      <3>1. stack[i].at \in Restoring /\ ContextOf(stack'[i]) = ContextOf(stack[i])
        BY <1>3, <2>1 DEF Same, HasContext, Restoring
      <3>2. CASE i = n
        BY <1>1, <1>2, <3>1, <3>2
      <3>3. CASE i # n
        <4>1. i \in 1..(n - 1) /\ i + 1 \in 1..n
          BY <1>1, <3>3
        <4>2. ContextOf(stack[i + 1]) = ContextOf(stack[i])
          BY <3>1, <4>1 DEF SafeInv, Restores, n
        <4>3. HasContext(stack[i + 1])
          <5>1. stack[i + 1].at \in MayCall(stack[i].at)
            BY <1>1, <4>1 DEF WellFormed, n
          <5>2. QED
            BY <3>1, <5>1 DEF MayCall, Restoring, HasContext
        <4>4. ContextOf(stack'[i + 1]) = ContextOf(stack[i + 1])
          BY <1>3, <4>1, <4>3 DEF Same
        <4>5. QED
          BY <3>1, <4>2, <4>4
      <3>4. QED
        BY <3>2, <3>3
    <2>2. Top'.at \in Restoring => Now' = ContextOf(Top')
      BY <1>2
    <2>3. \A i \in 1..(Len(stack') - 1) :
             stack'[i].at \in Restoring => ContextOf(stack'[i + 1]) = ContextOf(stack'[i])
      <3>1. Len(stack') - 1 = n
        BY <1>1, <1>2
      <3>2. QED
        BY <2>1, <3>1
    <2>4. Top'.at = "native" => Top'.at \in Restoring
      BY DEF Restoring
    <2>5. QED
      BY <2>2, <2>3, <2>4 DEF Restores, ContextOf
  <1>9. RunsClauses'
    <2>1. \A i \in 1..n : Runs(stack[i])
      BY DEF SafeInv, RunsClauses, n
    <2>2. \A i \in 1..n : Runs(stack'[i])
      BY <1>3, <2>1 DEF Same, Runs
    <2>3. \A i \in 1..(n + 1) : i \in 1..n \/ i = n + 1
      BY <1>1
    <2>4. \A i \in 1..Len(stack') : Runs(stack'[i])
      BY <1>2, <2>2, <2>3
    <2>5. QED
      BY <2>4 DEF RunsClauses, Runs
  <1>10. QED
    BY <1>7, <1>8, <1>9 DEF SafeInv

\* The top activation answers a failed attempt or goes on with its next statement.
LEMMA ReplaceSafe ==
    ASSUME LoopInv, SafeInv,
           NEW top \in Activation, Same(top, Top), stack' = Caller \o <<top>>,
           program' = program, IsContext(Now'),
           \A i \in 1..Len(stack) : Fits(stack[i], store'),
           top.at = "native" \/ (top.at \in Restoring /\ answer' # "true") => Now' = ContextOf(top)
    PROVE  SafeInv'
  <1> DEFINE n == Len(stack)
  <1>1. WellFormed /\ stack \in Seq(Activation) /\ n \in Nat \ {0} /\ Top = stack[n]
    BY StackFacts DEF LoopInv, SafeInv, TypedStack
  <1>2. /\ stack' \in Seq(Activation) /\ Len(stack') = n /\ Top' = top
        /\ \A i \in 1..(n - 1) : stack'[i] = stack[i]
        /\ stack'[n] = top
    BY <1>1, StackReplaced
  <1> HIDE DEF n
  <1>3. \A i \in 1..n : Same(stack'[i], stack[i])
    BY <1>1, <1>2 DEF Same
  <1>4. TypedStack'
    <2>1. ASSUME NEW i \in 1..n
          PROVE  /\ Fits(stack'[i], store')
                 /\ HasContext(stack'[i]) =>
                       /\ IsContext(ContextOf(stack'[i]))
                       /\ \A j \in 1..(i - 1) : Fits(stack'[j], ContextOf(stack'[i]).store)
      <3>1. Fits(stack'[i], store')
        BY <1>3 DEF Same, n
      <3>2. HasContext(stack'[i]) => HasContext(stack[i]) /\ ContextOf(stack'[i]) = ContextOf(stack[i])
        BY <1>3 DEF Same, HasContext
      <3>3. HasContext(stack[i]) =>
               /\ IsContext(ContextOf(stack[i]))
               /\ \A j \in 1..(i - 1) : Fits(stack[j], ContextOf(stack[i]).store)
        BY DEF SafeInv, TypedStack, n
      <3>4. \A j \in 1..(i - 1) : j \in 1..n
        BY <1>1
      <3>5. QED
        BY <1>3, <3>1, <3>2, <3>3, <3>4 DEF Same
    <2>2. QED
      BY <1>2, <2>1 DEF TypedStack
  <1>5. Restores'
    <2>1. ASSUME NEW i \in 1..(n - 1), stack'[i].at \in Restoring
          PROVE  ContextOf(stack'[i + 1]) = ContextOf(stack'[i])
      <3>1. i \in 1..n /\ i + 1 \in 1..n
        BY <1>1
      <3>2. stack[i].at \in Restoring /\ ContextOf(stack'[i]) = ContextOf(stack[i])
        BY <1>3, <2>1, <3>1 DEF Same, HasContext, Restoring
      <3>3. ContextOf(stack[i + 1]) = ContextOf(stack[i])
        BY <3>2 DEF SafeInv, Restores, n
      <3>4. stack[i + 1].at \in MayCall(stack[i].at)
        BY <1>1 DEF WellFormed, n
      <3>5. HasContext(stack[i + 1])
        BY <3>2, <3>4 DEF MayCall, Restoring, HasContext
      <3>6. QED
        BY <1>3, <3>1, <3>2, <3>3, <3>5 DEF Same
    <2>2. QED
      BY <1>2, <2>1 DEF Restores
  <1>6. RunsClauses'
    <2>1. \A i \in 1..n : Runs(stack[i])
      BY DEF SafeInv, RunsClauses, n
    <2>2. QED
      BY <1>2, <1>3, <2>1 DEF Same, RunsClauses, Runs
  <1>7. QED
    BY <1>4, <1>5, <1>6 DEF SafeInv

\* The top activation returns.
LEMMA ReturnSafe ==
    ASSUME LoopInv, SafeInv, stack' = Caller, Top.at # "native" \/ Len(stack) > 1,
           program' = program, IsContext(Now'),
           \A i \in 1..(Len(stack) - 1) : Fits(stack[i], store'),
           Top'.at = "native" \/ (Top'.at \in Restoring /\ answer' # "true") => Now' = ContextOf(Top')
    PROVE  SafeInv'
  <1> DEFINE n == Len(stack)
  <1>1. WellFormed /\ stack \in Seq(Activation) /\ n \in Nat \ {0}
    BY StackFacts DEF LoopInv, SafeInv, TypedStack
  <1>2. /\ stack' \in Seq(Activation) /\ Len(stack') = n - 1
        /\ \A i \in 1..(n - 1) : stack'[i] = stack[i]
    BY <1>1, StackReturned
  <1>3. /\ \A i \in 1..n : HasContext(stack[i]) =>
              /\ IsContext(ContextOf(stack[i]))
              /\ \A j \in 1..(i - 1) : Fits(stack[j], ContextOf(stack[i]).store)
        /\ \A i \in 1..(n - 1) :
              stack[i].at \in Restoring => ContextOf(stack[i + 1]) = ContextOf(stack[i])
    BY DEF SafeInv, TypedStack, Restores
  <1>4. \A i \in 1..(n - 1) : Fits(stack'[i], store')
    BY <1>2
  <1> HIDE DEF n
  <1>5. TypedStack'
    <2>1. ASSUME NEW i \in 1..(n - 1), HasContext(stack'[i])
          PROVE  /\ IsContext(ContextOf(stack'[i]))
                 /\ \A j \in 1..(i - 1) : Fits(stack'[j], ContextOf(stack'[i]).store)
      <3>1. i \in 1..n /\ \A j \in 1..(i - 1) : j \in 1..(n - 1)
        BY <1>1
      <3>2. QED
        BY <1>2, <1>3, <2>1, <3>1
    <2>2. QED
      BY <1>2, <1>4, <2>1 DEF TypedStack
  <1>6. Restores'
    <2>1. \A i \in 1..(n - 1 - 1) : i \in 1..(n - 1) /\ i + 1 \in 1..(n - 1)
      BY <1>1
    <2>2. \A i \in 1..(n - 1 - 1) :
             stack'[i].at \in Restoring => ContextOf(stack'[i + 1]) = ContextOf(stack'[i])
      BY <1>2, <1>3, <2>1
    <2>3. QED
      BY <1>2, <2>2 DEF Restores
  <1>7. RunsClauses'
    <2>1. \A i \in 1..(n - 1) : i \in 1..n
      BY <1>1
    <2>2. \A i \in 1..n : Runs(stack[i])
      BY DEF SafeInv, RunsClauses, n
    <2>3. \A i \in 1..(n - 1) : Runs(stack'[i])
      BY <1>2, <2>1, <2>2
    <2>4. QED
      BY <1>2, <2>3 DEF RunsClauses, Runs
  <1>8. QED
    BY <1>5, <1>6, <1>7 DEF SafeInv

-----------------------------------------------------------------------------
(* Terms of a store                                                        *)

\* The parts of a context.
LEMMA ContextFacts ==
    ASSUME NEW s, NEW g
    PROVE  IsContext([store |-> s, goals |-> g]) <=>
              /\ IsStore(s) /\ g \in Seq(Goal)
              /\ \A i \in 1..Len(g) : g[i].argument \in Terms(s)
  BY DEF IsContext, IsStore, Context

\* A store that has grown.
Grown(s, t) == IsStore(s) /\ IsStore(t) /\ Len(s) <= Len(t)

\* The terms of a store stay terms of it.
LEMMA TermsGrow ==
    ASSUME NEW s, NEW t, Grown(s, t)
    PROVE  Terms(s) \subseteq Terms(t) /\ \A a : Fits(a, s) => Fits(a, t)
  <1>1. Len(s) \in Nat /\ Len(t) \in Nat /\ Len(s) <= Len(t)
    BY DEF Grown, IsStore
  <1>2. Terms(s) \subseteq Terms(t)
    BY <1>1 DEF Terms
  <1>3. QED
    BY <1>2 DEF Fits

\* The goals may still refer to it.
LEMMA ContextGrows ==
    ASSUME NEW s, NEW t, NEW g, IsContext([store |-> s, goals |-> g]), Grown(s, t)
    PROVE  IsContext([store |-> t, goals |-> g])
  BY TermsGrow, ContextFacts DEF Grown

\* A unification binds variables to terms of the store, and adds none.
LEMMA UnifiedTyped ==
    ASSUME NEW s, IsStore(s), NEW lhs \in Terms(s), NEW rhs \in Terms(s),
           Unified(s, lhs, rhs) # Failed
    PROVE  Grown(s, Unified(s, lhs, rhs)) /\ Len(Unified(s, lhs, rhs)) = Len(s)
  <1> DEFINE l == Follow(s, lhs)
             r == Follow(s, rhs)
  <1>1. l \in Terms(s) /\ r \in Terms(s) /\ Len(s) \in Nat
    BY FollowTyped DEF IsStore
  <1>2. ASSUME NEW a \in DOMAIN s, NEW t \in Terms(s)
        PROVE  IsStore([s EXCEPT ![a] = t]) /\ Len([s EXCEPT ![a] = t]) = Len(s)
    <2>1. t \in Term \cup {Unset} /\ (t \in Nat => t \in 1..Len(s))
      BY <1>1, ConstantsAssumption DEF Terms, Term
    <2>2. QED
      BY <2>1 DEF IsStore
  <1>3. Unified(s, lhs, rhs) \in {s, [s EXCEPT ![l] = r], [s EXCEPT ![r] = l]}
        /\ (Unified(s, lhs, rhs) # s => l \in DOMAIN s \/ r \in DOMAIN s)
    BY DEF Unified
  <1>4. Unified(s, lhs, rhs) = s \/ (l \in DOMAIN s /\ Unified(s, lhs, rhs) = [s EXCEPT ![l] = r])
            \/ (r \in DOMAIN s /\ Unified(s, lhs, rhs) = [s EXCEPT ![r] = l])
    BY DEF Unified
  <1> HIDE DEF l, r
  <1>5. QED
    BY <1>1, <1>2, <1>4 DEF Grown

\* The unification of a head adds at most the variable of its clause.
LEMMA HeadTyped ==
    ASSUME NEW s, IsStore(s), NEW clause \in Clause, NEW argument \in Terms(s),
           HeadUnified(s, clause, argument) # Failed
    PROVE  LET unified == HeadUnified(s, clause, argument) IN
           Grown(s, unified) /\ X(s, clause) \in Terms(unified) /\ X(s, clause) \in Term
  <1> DEFINE t == WithX(s, clause)
             x == X(s, clause)
  <1>1. Len(s) \in Nat
    BY DEF IsStore
  <1>2. Grown(s, t) /\ x \in Terms(t) /\ x \in Term
    <2>1. CASE clause.param \in Values
      BY <1>1, <2>1 DEF Grown, WithX, X, Terms, Term
    <2>2. CASE clause.param \notin Values
      <3>1. t = Append(s, Unset) /\ x = Len(s) + 1
        BY <2>2 DEF WithX, X
      <3>2. /\ t \in Seq(Term \cup {Unset}) /\ Len(t) = Len(s) + 1
            /\ \A i \in 1..Len(t) : t[i] = IF i = Len(s) + 1 THEN Unset ELSE s[i]
        BY <3>1 DEF IsStore
      <3> HIDE DEF t
      <3>3. ASSUME NEW i \in 1..Len(t), t[i] \in Nat PROVE t[i] \in 1..Len(t)
        <4>1. i # Len(s) + 1
          BY <3>2, <3>3, ConstantsAssumption
        <4>2. i \in 1..Len(s) /\ t[i] = s[i]
          BY <1>1, <3>2, <4>1
        <4>3. s[i] \in 1..Len(s)
          BY <3>3, <4>2 DEF IsStore
        <4>4. QED
          BY <1>1, <3>2, <4>2, <4>3
      <3>4. QED
        BY <1>1, <3>1, <3>2, <3>3 DEF Grown, IsStore, Terms, Term
    <2>3. QED
      BY <2>1, <2>2
  <1>3. argument \in Terms(t)
    BY <1>2, TermsGrow
  <1> HIDE DEF t, x
  <1>4. CASE clause.param = "other"
    BY <1>2, <1>4 DEF HeadUnified, t, x
  <1>5. CASE clause.param # "other"
    <2>1. HeadUnified(s, clause, argument) = Unified(t, x, argument)
      BY <1>5 DEF HeadUnified, t, x
    <2>2. Grown(t, Unified(t, x, argument)) /\ Len(Unified(t, x, argument)) = Len(t)
      BY <1>2, <1>3, <2>1, UnifiedTyped DEF Grown
    <2>3. x \in Terms(Unified(t, x, argument))
      BY <1>2, <2>2, TermsGrow
    <2>4. Grown(s, Unified(t, x, argument))
      BY <1>2, <2>2 DEF Grown
    <2>5. QED
      BY <1>2, <2>1, <2>3, <2>4 DEF x
  <1>6. QED
    BY <1>4, <1>5

-----------------------------------------------------------------------------
(* The steps                                                               *)

\* What the records of the stack hold.
LEMMA ActivationFields ==
    ASSUME NEW a \in Activation
    PROVE  /\ a.at = "native" => a \in [at : {"native"}, calls : Nat, found : Context]
           /\ a.at = "export" => a \in [at : {"export"}, name : Names, argument : Values,
                                        next : Nat \ {0}, saved : Context]
           /\ a.at = "invoke" => a \in [at : {"invoke"}, name : Names, argument : Term,
                                        next : Nat \ {0}, from : Context]
           /\ a.at = "predicate" => a \in [at : {"predicate"}, clause : Nat, x : Term,
                                           pc : Nat \ {0}, saved : Context]
           /\ a.at = "continue" => a \in [at : {"continue"}, turns : Nat]
           /\ a.at \in Kinds
  BY DEF Activation, Kinds

\* What the invariant says of the top activation.
LEMMA SafeFacts ==
    ASSUME LoopInv, SafeInv
    PROVE  /\ WellFormed /\ stack \in Seq(Activation) /\ Len(stack) \in Nat \ {0}
           /\ Top = stack[Len(stack)] /\ Top \in Activation
           /\ IsStore(store) /\ goals \in Seq(Goal)
           /\ \A i \in 1..Len(goals) : goals[i].argument \in Terms(store)
           /\ \A i \in 1..Len(stack) : Fits(stack[i], store)
           /\ Fits(Top, store)
           /\ HasContext(Top) => /\ IsContext(ContextOf(Top))
                                 /\ \A i \in 1..(Len(stack) - 1) : Fits(stack[i], ContextOf(Top).store)
  <1>1. WellFormed /\ stack \in Seq(Activation) /\ Len(stack) \in Nat \ {0}
        /\ Top = stack[Len(stack)] /\ Top \in Activation
    BY StackFacts DEF LoopInv, SafeInv, TypedStack
  <1>2. Len(stack) \in 1..Len(stack)
    BY <1>1
  <1>3. IsContext([store |-> store, goals |-> goals])
    BY DEF SafeInv, Now
  <1>4. QED
    BY <1>1, <1>2, <1>3, ContextFacts DEF SafeInv, TypedStack

\* The next predicate to try is one of the program.
LEMMA NextUntried ==
    ASSUME SafeInv, HasNext
    PROVE  LET i == CHOOSE i \in Untried : \A j \in Untried : i <= j
           IN  i \in Nat \ {0} /\ i \in 1..Len(program) /\ program[i] \in Clause
  <1>1. Untried \subseteq Nat /\ Untried # {}
    BY DEF HasNext, Untried
  <1>2. \E i \in Untried : \A j \in Untried : i <= j
    BY <1>1, LessThan
  <1> DEFINE i == CHOOSE i \in Untried : \A j \in Untried : i <= j
  <1>3. i \in Untried
    BY <1>2
  <1> HIDE DEF i
  <1>4. i \in 1..Len(program) /\ program \in Seq(Clause)
    BY <1>3 DEF Untried, SafeInv
  <1>5. i \in Nat \ {0} /\ program[i] \in Clause
    BY <1>4
  <1>6. QED
    BY <1>4, <1>5 DEF i

\* A predicate is tried: it fails and the context is back, or it runs and holds it.
LEMMA EnterSafe ==
    ASSUME LoopInv, SafeInv, Top.at \in {"invoke", "export"}, HasNext,
           NEW context, IsContext(context), context = ContextOf(Top),
           \A i \in 1..Len(stack) : Fits(stack[i], context.store),
           NEW argument \in Terms(context.store),
           Enter(context, argument)
    PROVE  SafeInv'
  <1> DEFINE i == CHOOSE i \in Untried : \A j \in Untried : i <= j
             caller == [Top EXCEPT !.next = Advance(i)]
             unified == HeadUnified(context.store, program[i], argument)
             x == X(context.store, program[i])
             running == [at |-> "predicate", clause |-> i, x |-> x, pc |-> 1, saved |-> context]
  <1>1. i \in Nat \ {0} /\ i \in 1..Len(program) /\ program[i] \in Clause
    BY NextUntried
  <1>2. /\ goals' = context.goals /\ program' = program
        /\ IF unified = Failed
           THEN store' = context.store /\ stack' = Caller \o <<caller>> /\ answer' = "false"
           ELSE store' = unified /\ CallFrom(caller, running)
    BY DEF Enter
  <1>3. caller \in Activation /\ Same(caller, Top)
    <2>1. Top \in Activation
      BY SafeFacts
    <2>2. Advance(i) \in Nat \ {0}
      BY <1>1 DEF Advance
    <2> HIDE DEF i
    <2>3. CASE Top.at = "invoke"
      <3>1. Top \in [at : {"invoke"}, name : Names, argument : Term, next : Nat \ {0}, from : Context]
        BY <2>1, <2>3, ActivationFields
      <3>2. caller \in [at : {"invoke"}, name : Names, argument : Term, next : Nat \ {0}, from : Context]
            /\ caller.from = Top.from /\ caller.argument = Top.argument /\ caller.at = Top.at
        BY <2>2, <3>1
      <3>3. QED
        BY <2>3, <3>2 DEF Activation, Same, Fits, ContextOf
    <2>4. CASE Top.at = "export"
      <3>1. Top \in [at : {"export"}, name : Names, argument : Values, next : Nat \ {0}, saved : Context]
        BY <2>1, <2>4, ActivationFields
      <3>2. caller \in [at : {"export"}, name : Names, argument : Values, next : Nat \ {0}, saved : Context]
            /\ caller.saved = Top.saved /\ caller.at = Top.at
        BY <2>2, <3>1
      <3>3. QED
        BY <2>4, <3>2 DEF Activation, Same, Fits, ContextOf
    <2>5. QED
      BY <2>3, <2>4
  <1> HIDE DEF i, caller
  <1>4. /\ context \in Context /\ IsStore(context.store)
        /\ context = [store |-> context.store, goals |-> context.goals]
    BY DEF IsContext, Context
  <1>5. CASE unified = Failed
    <2>1. Now' = context
      BY <1>2, <1>4, <1>5 DEF Now
    <2>2. ContextOf(caller) = context /\ HasContext(Top)
      BY <1>3 DEF Same, HasContext
    <2>3. QED
      BY <1>2, <1>3, <1>5, <2>1, <2>2, ReplaceSafe
  <1>6. CASE unified # Failed
    <2>1. Grown(context.store, unified) /\ x \in Terms(unified) /\ x \in Term
      BY <1>1, <1>4, <1>6, HeadTyped
    <2>2. running \in Activation
      BY <1>1, <1>4, <2>1 DEF Activation
    <2>3. running.at = "predicate" /\ running.x = x /\ ContextOf(running) = context
          /\ Runs(running)
      BY <1>1 DEF ContextOf, Runs
    <2> HIDE DEF running, unified, x
    <2>4. IsContext(Now')
      <3>1. IsContext([store |-> unified, goals |-> context.goals])
        BY <1>4, <2>1, ContextGrows
      <3>2. Now' = [store |-> unified, goals |-> context.goals]
        BY <1>2, <1>6 DEF Now
      <3>3. QED
        BY <3>1, <3>2
    <2>5. store' = unified /\ CallFrom(caller, running)
      BY <1>2, <1>6
    <2>6. \A j \in 1..Len(stack) : Fits(stack[j], store')
      BY <2>1, <2>5, TermsGrow
    <2>7. Fits(running, store')
      BY <2>1, <2>3, <2>5 DEF Fits
    <2>8. running.at \notin Restoring
      BY <2>3 DEF Restoring
    <2>9. QED
      BY <1>2, <1>3, <2>2, <2>3, <2>4, <2>5, <2>6, <2>7, <2>8, CallSafe
  <1>7. QED
    BY <1>5, <1>6

\* A predicate fails: it takes its context back.
LEMMA FailSafe ==
    ASSUME LoopInv, SafeInv, Running("predicate"), Fail
    PROVE  SafeInv'
  <1>1. Top.at = "predicate" /\ stack' = Caller /\ program' = program
        /\ store' = Top.saved.store /\ goals' = Top.saved.goals
    BY DEF Running, Fail, Return, RollbackTo
  <1>2. ContextOf(Top) = Top.saved /\ HasContext(Top)
    BY <1>1 DEF ContextOf, HasContext
  <1>3. IsContext(Top.saved) /\ \A i \in 1..(Len(stack) - 1) : Fits(stack[i], Top.saved.store)
    BY <1>2, SafeFacts
  <1>4. Now' = Top.saved
    BY <1>1, <1>3 DEF Now, IsContext, Context
  <1>5. Top'.at \in Restoring => ContextOf(Top') = Top.saved
    <2>1. /\ WellFormed /\ stack \in Seq(Activation) /\ Top = stack[Len(stack)]
          /\ Len(stack) \in Nat \ {0}
      BY SafeFacts
    <2>2. Len(stack) - 1 \in Nat \ {0} /\ Top' = stack[Len(stack) - 1]
      BY <1>1, <2>1, StackReturned
    <2>3. Len(stack) - 1 \in 1..(Len(stack) - 1) /\ Len(stack) - 1 + 1 = Len(stack)
      BY <2>1, <2>2
    <2>4. QED
      BY <1>2, <2>1, <2>2, <2>3 DEF SafeInv, Restores
  <1>6. Top'.at = "native" => Top'.at \in Restoring
    BY DEF Restoring
  <1>7. QED
    BY <1>1, <1>3, <1>4, <1>5, <1>6, ReturnSafe

\* A statement of a body is done.
LEMMA ProceedSafe ==
    ASSUME LoopInv, SafeInv, Running("predicate"), Proceed, program' = program,
           IsContext(Now'), \A i \in 1..Len(stack) : Fits(stack[i], store')
    PROVE  SafeInv'
  <1>1. Top.at = "predicate" /\ stack' = Caller \o <<Step>>
    BY DEF Running, Proceed
  <1>2. Top \in [at : {"predicate"}, clause : Nat, x : Term, pc : Nat \ {0}, saved : Context]
    BY <1>1, SafeFacts, ActivationFields
  <1>3. Step \in [at : {"predicate"}, clause : Nat, x : Term, pc : Nat \ {0}, saved : Context]
        /\ Step.at = Top.at /\ Step.saved = Top.saved /\ Step.x = Top.x
        /\ Step.clause = Top.clause
    BY <1>2 DEF Step
  <1>4. Step \in Activation /\ Same(Step, Top) /\ Step.at \notin Restoring /\ Step.at # "native"
    BY <1>1, <1>3 DEF Activation, Same, Fits, ContextOf, Restoring
  <1>5. QED
    BY <1>1, <1>4, ReplaceSafe

\* A call from the body of a predicate, or from its footer.
LEMMA PredicateCalls ==
    ASSUME LoopInv, SafeInv, Running("predicate"),
           NEW top \in {Top, Step}, NEW callee \in Activation, CallFrom(top, callee),
           UNCHANGED <<program, store, goals>>,
           Fits(callee, store), Runs(callee),
           HasContext(callee) => ContextOf(callee) = Now
    PROVE  SafeInv'
  <1>1. Top.at = "predicate" /\ Top \in Activation
    BY SafeFacts DEF Running
  <1>2. Top \in [at : {"predicate"}, clause : Nat, x : Term, pc : Nat \ {0}, saved : Context]
    BY <1>1, ActivationFields
  <1>3. Step \in [at : {"predicate"}, clause : Nat, x : Term, pc : Nat \ {0}, saved : Context]
        /\ Step.at = Top.at /\ Step.saved = Top.saved /\ Step.x = Top.x
        /\ Step.clause = Top.clause
    BY <1>2 DEF Step
  <1>4. top \in Activation /\ Same(top, Top)
    BY <1>1, <1>3 DEF Activation, Same, Fits, ContextOf
  <1>5. Top.at \notin Restoring
    BY <1>1 DEF Restoring
  <1>6. Now' = Now /\ IsContext(Now) /\ Now.store = store
    BY DEF Now, SafeInv
  <1>7. \A i \in 1..Len(stack) : Fits(stack[i], store)
    BY SafeFacts
  <1>8. callee.at \in Restoring => HasContext(callee)
    BY DEF Restoring, HasContext
  <1>9. QED
    BY <1>4, <1>5, <1>6, <1>7, <1>8, CallSafe

\* A call returns, and what it did stays.
LEMMA ReturnKeepingSafe ==
    ASSUME LoopInv, SafeInv, NEW value, Return(value), UNCHANGED <<program, store, goals>>,
           Top.at # "native" \/ Len(stack) > 1,
           Top'.at \in Restoring => Top'.at # "native" /\ value = "true"
    PROVE  SafeInv'
  <1>1. Now' = Now /\ IsContext(Now)
    BY DEF Now, SafeInv
  <1>2. \A i \in 1..(Len(stack) - 1) : Fits(stack[i], store)
    BY SafeFacts
  <1>3. "native" \in Restoring
    BY DEF Restoring
  <1>4. QED
    BY <1>1, <1>2, <1>3, ReturnSafe DEF Return

\* The steps of C code and of exported functions.
LEMMA ExportCalled ==
    ASSUME LoopInv, SafeInv, CallExport
    PROVE  SafeInv'
  <1>1. PICK name \in Exported, argument \in Values :
           CallFrom([Top EXCEPT !.calls = @ - 1],
                    [at |-> "export", name |-> name, argument |-> argument, next |-> 1,
                     saved |-> Now])
    BY DEF CallExport
  <1> DEFINE top == [Top EXCEPT !.calls = @ - 1]
             callee == [at |-> "export", name |-> name, argument |-> argument, next |-> 1,
                        saved |-> Now]
  <1>2. Top.at = "native" /\ Top \in Activation /\ Top.calls > 0
        /\ UNCHANGED <<program, store, goals>>
    BY SafeFacts DEF CallExport, Running
  <1>3. top \in Activation /\ Same(top, Top)
    <2>1. Top \in [at : {"native"}, calls : Nat, found : Context]
      BY <1>2, ActivationFields
    <2>2. top \in [at : {"native"}, calls : Nat, found : Context]
          /\ top.at = Top.at /\ top.found = Top.found
      BY <1>2, <2>1
    <2>3. QED
      BY <1>2, <2>2 DEF Activation, Same, Fits, ContextOf
  <1>4. IsContext(Now) /\ Now \in Context /\ Now.store = store /\ Now' = Now
    BY <1>2 DEF SafeInv, IsContext, Now
  <1>5. callee \in Activation /\ callee.at = "export" /\ ContextOf(callee) = Now
        /\ Runs(callee)
    BY <1>4, ConstantsAssumption DEF Activation, ContextOf, Runs
  <1>6. CallFrom(top, callee)
    BY <1>1
  <1> HIDE DEF top, callee
  <1>7. ContextOf(Top) = Now
    BY <1>2 DEF SafeInv, Restores
  <1>8. Fits(callee, store) /\ \A i \in 1..Len(stack) : Fits(stack[i], store)
    BY <1>5, SafeFacts DEF Fits
  <1>9. QED
    BY <1>2, <1>3, <1>4, <1>5, <1>6, <1>7, <1>8, CallSafe

LEMMA ExportReturned ==
    ASSUME LoopInv, SafeInv, ExportReturns
    PROVE  SafeInv'
  <1>1. Top.at = "export" /\ stack' = Caller /\ program' = program /\ answer' = "none"
        /\ store' = Top.saved.store /\ goals' = Top.saved.goals
    BY DEF ExportReturns, Running, RollbackTo, LeavesNone, Return
  <1>2. ContextOf(Top) = Top.saved /\ HasContext(Top)
    BY <1>1 DEF ContextOf, HasContext
  <1>3. IsContext(Top.saved) /\ \A i \in 1..(Len(stack) - 1) : Fits(stack[i], Top.saved.store)
    BY <1>2, SafeFacts
  <1>4. Now' = Top.saved
    BY <1>1, <1>3 DEF Now, IsContext, Context
  <1>5. /\ WellFormed /\ stack \in Seq(Activation) /\ Top = stack[Len(stack)]
        /\ Len(stack) \in Nat \ {0}
    BY SafeFacts
  <1>6. Len(stack) - 1 \in Nat \ {0} /\ Top' = stack[Len(stack) - 1]
    BY <1>1, <1>5, StackReturned
  <1>7. Len(stack) - 1 \in 1..(Len(stack) - 1) /\ Len(stack) - 1 + 1 = Len(stack)
    <2>1. PICK n : n = Len(stack)
      OBVIOUS
    <2>2. n \in Nat \ {0} /\ n - 1 \in Nat \ {0}
      BY <1>5, <1>6, <2>1
    <2>3. n - 1 \in 1..(n - 1) /\ n - 1 + 1 = n
      BY <2>2
    <2>4. QED
      BY <2>1, <2>3
  <1>8. Top'.at \in Restoring => ContextOf(Top') = Top.saved
    BY <1>2, <1>5, <1>6, <1>7 DEF SafeInv, Restores
  <1>9. Top'.at = "native" => Top'.at \in Restoring
    BY DEF Restoring
  <1>10. QED
    BY <1>1, <1>3, <1>4, <1>8, <1>9, ReturnSafe

LEMMA ExportTried ==
    ASSUME LoopInv, SafeInv, ExportTries
    PROVE  SafeInv'
  <1>1. Top.at = "export" /\ HasNext /\ Enter(Top.saved, Top.argument)
    BY DEF ExportTries, Running
  <1>2. ContextOf(Top) = Top.saved /\ HasContext(Top)
    BY <1>1 DEF ContextOf, HasContext
  <1>3. IsContext(Top.saved) /\ \A i \in 1..(Len(stack) - 1) : Fits(stack[i], Top.saved.store)
    BY <1>2, SafeFacts
  <1>4. Top.argument \in Terms(Top.saved.store)
    <2>1. Top.argument \in Values
      BY <1>1, SafeFacts, ActivationFields
    <2>2. QED
      BY <2>1 DEF Terms
  <1>5. \A i \in 1..Len(stack) : Fits(stack[i], Top.saved.store)
    <2>1. Fits(Top, Top.saved.store) /\ Top = stack[Len(stack)] /\ Len(stack) \in Nat \ {0}
      BY <1>1, SafeFacts DEF Fits
    <2>2. QED
      BY <1>3, <2>1
  <1>6. QED
    BY <1>1, <1>2, <1>3, <1>4, <1>5, EnterSafe

\* The step of _DI_invoke that tries a predicate.
LEMMA InvokeTried ==
    ASSUME LoopInv, SafeInv, InvokeTries
    PROVE  SafeInv'
  <1>1. Top.at = "invoke" /\ answer # "true" /\ HasNext /\ Enter(Now, Top.argument)
    BY DEF InvokeTries, Running
  <1>2. ContextOf(Top) = Now
    BY <1>1 DEF SafeInv, Restores, Restoring
  <1>3. IsContext(Now) /\ Now.store = store
    BY DEF SafeInv, Now
  <1>4. Top.argument \in Terms(store) /\ \A i \in 1..Len(stack) : Fits(stack[i], store)
    BY <1>1, SafeFacts DEF Fits
  <1>5. QED
    BY <1>1, <1>2, <1>3, <1>4, EnterSafe

\* What an activation returns to.
LEMMA ReturnsTo ==
    ASSUME LoopInv, Top.at # "native" \/ Len(stack) > 1, stack' = Caller
    PROVE  /\ Top.at = "native" => Top'.at = "predicate"
           /\ Top.at = "invoke" => Top'.at \in {"predicate", "continue"}
           /\ Top.at = "continue" => Top'.at = "predicate"
           /\ Top.at = "predicate" => Top'.at \in {"invoke", "export"}
  <1>1. Top.at \in MayCall(Top'.at) /\ Top'.at \in Kinds
    BY Returned DEF LoopInv, IsActivation
  <1>2. QED
    BY <1>1 DEF MayCall, Kinds

\* The step of _DI_continueSldResolution that takes a goal off the list.
LEMMA GoalCalled ==
    ASSUME LoopInv, SafeInv, NextGoal
    PROVE  SafeInv'
  <1> DEFINE context == [store |-> store, goals |-> Tail(goals)]
             top == [Top EXCEPT !.turns = @ + 1]
             callee == Invocation(Head(goals).name, Head(goals).argument, context)
  <1>1. Top.at = "continue" /\ goals # <<>> /\ goals' = context.goals /\ CallFrom(top, callee)
        /\ UNCHANGED <<program, store>>
    BY DEF NextGoal, Running
  <1>2. goals \in Seq(Goal) /\ IsStore(store) /\ Top \in Activation
        /\ \A i \in 1..Len(goals) : goals[i].argument \in Terms(store)
    BY SafeFacts
  <1>3. Head(goals) \in Goal /\ Head(goals).argument \in Terms(store)
    BY <1>1, <1>2
  <1>4. Tail(goals) \in Seq(Goal) /\ Len(Tail(goals)) = Len(goals) - 1
        /\ \A i \in 1..Len(Tail(goals)) : Tail(goals)[i] = goals[i + 1]
    BY <1>1, <1>2
  <1>5. \A i \in 1..Len(Tail(goals)) : Tail(goals)[i].argument \in Terms(store)
    <2>1. Len(goals) \in Nat
      BY <1>2
    <2>2. QED
      BY <1>2, <1>4, <2>1
  <1>6. IsContext(context) /\ Now' = context
    BY <1>1, <1>2, <1>4, <1>5, ContextFacts DEF Now
  <1>7. top \in Activation /\ Same(top, Top)
    <2>1. Top \in [at : {"continue"}, turns : Nat]
      BY <1>1, <1>2, ActivationFields
    <2>2. top \in [at : {"continue"}, turns : Nat] /\ top.at = Top.at
      BY <2>1
    <2>3. QED
      BY <1>1, <2>2 DEF Activation, Same, Fits, HasContext
  <1>8. callee \in Activation /\ callee.at = "invoke" /\ callee.argument = Head(goals).argument
        /\ ContextOf(callee) = context /\ Runs(callee)
    BY <1>3, <1>6 DEF Activation, Invocation, ContextOf, IsContext, Goal, Runs
  <1>9. context.store = store
    OBVIOUS
  <1> HIDE DEF context, top, callee
  <1>10. Fits(callee, store) /\ \A i \in 1..Len(stack) : Fits(stack[i], store)
    BY <1>3, <1>8, SafeFacts DEF Fits
  <1>11. Top.at \notin Restoring
    BY <1>1 DEF Restoring
  <1>12. QED
    BY <1>1, <1>6, <1>7, <1>8, <1>9, <1>10, <1>11, CallSafe

\* The body that runs is one of the program.
LEMMA StatementsTyped ==
    ASSUME LoopInv, SafeInv, Top.at = "predicate"
    PROVE  Body \in Seq(Statement)
  <1>1. Top.clause \in 1..Len(program) /\ program \in Seq(Clause)
    <2>1. Top = stack[Len(stack)] /\ Len(stack) \in 1..Len(stack)
      BY SafeFacts
    <2>2. QED
      BY <2>1 DEF SafeInv, RunsClauses, Runs
  <1>2. program[Top.clause] \in Clause
    BY <1>1
  <1>3. QED
    BY <1>2 DEF Body, Clause

\* Every step keeps the invariant.
LEMMA NextSafe == LoopInv /\ SafeInv /\ [Next]_vars => SafeInv'
  <1> SUFFICES ASSUME LoopInv, SafeInv, [Next]_vars PROVE SafeInv'
    OBVIOUS
  <1>0. IsContext(Now) /\ \A i \in 1..Len(stack) : Fits(stack[i], store)
    BY SafeFacts DEF SafeInv
  <1>1. CASE CallExport
    BY <1>1, ExportCalled
  <1>2. CASE ReturnFromNative
    <2>1. Top.at = "native" /\ Len(stack) > 1 /\ Return("none") /\ UNCHANGED <<program, store, goals>>
      BY <1>2 DEF ReturnFromNative, Running
    <2>2. Top'.at \notin Restoring
      BY <2>1, ReturnsTo DEF Restoring, Return
    <2>3. QED
      BY <2>1, <2>2, ReturnKeepingSafe
  <1>3. CASE ExportTries
    BY <1>3, ExportTried
  <1>4. CASE ExportReturns
    BY <1>4, ExportReturned
  <1>5. CASE ExportAborts
    <2>1. Top.at = "export" /\ answer # "true" /\ UNCHANGED <<program, store, goals, stack>>
      BY <1>5 DEF ExportAborts, Running
    <2>2. Now = ContextOf(Top)
      BY <2>1 DEF SafeInv, Restores, Restoring
    <2>3. Now' = Now /\ Top' = Top
      BY <2>1 DEF Now, Top
    <2>4. QED
      BY <2>1, <2>2, <2>3 DEF SafeInv, TypedStack, Restores, RunsClauses, Runs
  <1>6. CASE InvokeTries
    BY <1>6, InvokeTried
  <1>7. CASE InvokeReturns
    <2>1. PICK value : Return(value)
      BY <1>7 DEF InvokeReturns
    <2>2. Top.at = "invoke" /\ UNCHANGED <<program, store, goals>> /\ stack' = Caller
      BY <1>7, <2>1 DEF InvokeReturns, Running, Return
    <2>3. Top'.at \notin Restoring
      BY <2>2, ReturnsTo DEF Restoring
    <2>4. QED
      BY <2>1, <2>2, <2>3, ReturnKeepingSafe
  <1>8. CASE AddGoal
    <2>1. Running("predicate") /\ Proceed /\ UNCHANGED <<program, store>> /\ Top.at = "predicate"
          /\ goals' = Append(goals, [name |-> Body[Top.pc].name, argument |-> Top.x])
      BY <1>8 DEF AddGoal, Statements, Running, AtBack
    <2>2. IsContext(Now')
      <3> DEFINE goal == [name |-> Body[Top.pc].name, argument |-> Top.x]
      <3>1. Top.x \in Terms(store) /\ Top.x \in Term
        BY <2>1, SafeFacts, ActivationFields DEF Fits
      <3>2. Body[Top.pc].name \in Names
        <4>1. Body \in Seq(Statement)
          BY <2>1, StatementsTyped
        <4>2. Top.pc \in 1..Len(Body) /\ Body[Top.pc].op = "goal"
          BY <1>8, <2>1, SafeFacts, ActivationFields DEF AddGoal, Statements
        <4>3. Body[Top.pc] \in Statement
          BY <4>1, <4>2
        <4>4. QED
          BY <4>2, <4>3 DEF Statement
      <3>3. goal \in Goal /\ goal.argument = Top.x
        BY <3>1, <3>2 DEF Goal
      <3> HIDE DEF goal
      <3>4. goals \in Seq(Goal) /\ goals' = Append(goals, goal) /\ IsStore(store)
            /\ \A i \in 1..Len(goals) : goals[i].argument \in Terms(store)
        BY <2>1, SafeFacts DEF goal
      <3>5. goals' \in Seq(Goal) /\ Len(goals') = Len(goals) + 1
            /\ \A i \in 1..Len(goals') : goals'[i] = IF i = Len(goals) + 1 THEN goal ELSE goals[i]
        BY <3>3, <3>4
      <3>6. \A i \in 1..Len(goals') : goals'[i].argument \in Terms(store)
        <4>1. Len(goals) \in Nat
          BY <3>4
        <4>2. QED
          BY <3>1, <3>3, <3>4, <3>5, <4>1
      <3>7. Now' = [store |-> store, goals |-> goals']
        BY <2>1 DEF Now
      <3>8. QED
        BY <3>4, <3>5, <3>6, <3>7, ContextFacts
    <2>3. QED
      BY <1>0, <2>1, <2>2, ProceedSafe
  <1>9. CASE Call
    <2> DEFINE callee == Invocation(Body[Top.pc].name, Top.x, Now)
    <2>1. Running("predicate") /\ CallFrom(Top, callee) /\ Top.at = "predicate"
          /\ UNCHANGED <<program, store, goals>>
      BY <1>9 DEF Call, Statements, Running
    <2>2. Top.x \in Terms(store) /\ Top.x \in Term
      BY <2>1, SafeFacts, ActivationFields DEF Fits
    <2>3. Body[Top.pc].name \in Names
      <3>1. Body \in Seq(Statement)
        BY <2>1, StatementsTyped
      <3>2. Top.pc \in 1..Len(Body) /\ Body[Top.pc].op = "call"
        BY <1>9, <2>1, SafeFacts, ActivationFields DEF Call, Statements
      <3>3. Body[Top.pc] \in Statement
        BY <3>1, <3>2
      <3>4. QED
        BY <3>2, <3>3 DEF Statement
    <2>4. callee \in Activation /\ Fits(callee, store) /\ ContextOf(callee) = Now
          /\ Runs(callee)
      BY <1>0, <2>2, <2>3 DEF Activation, Invocation, Fits, ContextOf, IsContext, Runs
    <2> HIDE DEF callee
    <2>5. QED
      BY <2>1, <2>4, PredicateCalls
  <1>10. CASE Unify
    <2> DEFINE unified == Unified(store, Top.x, Body[Top.pc].value)
    <2>1. Running("predicate") /\ Top.at = "predicate"
      BY <1>10 DEF Unify, Statements, Running
    <2>2. CASE Fail
      BY <2>1, <2>2, FailSafe
    <2>3. CASE unified # Failed /\ store' = unified /\ Proceed /\ UNCHANGED <<program, goals>>
      <3>1. Top.x \in Terms(store) /\ IsStore(store)
        BY <2>1, SafeFacts DEF Fits
      <3>2. Body[Top.pc].value \in Terms(store)
        <4>1. Body \in Seq(Statement)
          BY <2>1, StatementsTyped
        <4>2. Top.pc \in 1..Len(Body) /\ Body[Top.pc].op = "unify"
          BY <1>10, <2>1, SafeFacts, ActivationFields DEF Unify, Statements
        <4>3. Body[Top.pc] \in Statement
          BY <4>1, <4>2
        <4>4. Body[Top.pc].value \in Values
          BY <4>2, <4>3 DEF Statement
        <4>5. QED
          BY <4>4 DEF Terms
      <3>3. Grown(store, store')
        BY <2>3, <3>1, <3>2, UnifiedTyped
      <3>4. IsContext(Now')
        <4>1. IsContext([store |-> store', goals |-> goals])
          BY <1>0, <3>3, ContextGrows DEF Now
        <4>2. Now' = [store |-> store', goals |-> goals]
          BY <2>3 DEF Now
        <4>3. QED
          BY <4>1, <4>2
      <3>5. \A i \in 1..Len(stack) : Fits(stack[i], store')
        BY <1>0, <3>3, TermsGrow
      <3>6. QED
        BY <2>1, <2>3, <3>4, <3>5, ProceedSafe
    <2>4. QED
      BY <1>10, <2>2, <2>3 DEF Unify
  <1>11. CASE CallNative
    <2> DEFINE callee == Native(IF Natives < MaxNative THEN 1 ELSE 0)
    <2>1. Running("predicate") /\ CallFrom(Step, callee) /\ UNCHANGED <<program, store, goals>>
      BY <1>11 DEF CallNative, Statements
    <2>2. callee \in Activation /\ Fits(callee, store) /\ ContextOf(callee) = Now
          /\ Runs(callee)
      BY <1>0 DEF Activation, Native, Fits, ContextOf, IsContext, Runs
    <2> HIDE DEF callee
    <2>3. QED
      BY <2>1, <2>2, PredicateCalls
  <1>12. CASE Footer
    <2> DEFINE callee == [at |-> "continue", turns |-> 0]
    <2>1. Running("predicate") /\ CallFrom(Top, callee) /\ UNCHANGED <<program, store, goals>>
      BY <1>12 DEF Footer, BodyIsDone
    <2>2. callee \in Activation /\ Fits(callee, store) /\ ~HasContext(callee)
          /\ Runs(callee)
      BY DEF Activation, Fits, HasContext, Runs
    <2> HIDE DEF callee
    <2>3. QED
      BY <2>1, <2>2, PredicateCalls
  <1>13. CASE Succeeded
    <2>1. Running("predicate") /\ Top.at = "predicate" /\ UNCHANGED <<program, store, goals>>
      BY <1>13 DEF Succeeded, Running
    <2>2. CASE Proceed
      <3>1. Now' = Now /\ store' = store
        BY <2>1 DEF Now
      <3>2. QED
        BY <1>0, <2>1, <2>2, <3>1, ProceedSafe
    <2>3. CASE Return("true")
      <3>1. Top'.at # "native"
        BY <2>1, <2>3, ReturnsTo DEF Return
      <3>2. QED
        BY <2>1, <2>3, <3>1, ReturnKeepingSafe
    <2>4. QED
      BY <1>13, <2>2, <2>3 DEF Succeeded
  <1>14. CASE HasFailed
    BY <1>14, FailSafe DEF HasFailed
  <1>15. CASE NextGoal
    BY <1>15, GoalCalled
  <1>16. CASE ContinueReturns
    <2>1. PICK value : Return(value)
      BY <1>16 DEF ContinueReturns
    <2>2. Top.at = "continue" /\ UNCHANGED <<program, store, goals>> /\ stack' = Caller
      BY <1>16, <2>1 DEF ContinueReturns, Running, Return
    <2>3. Top'.at \notin Restoring
      BY <2>2, ReturnsTo DEF Restoring
    <2>4. QED
      BY <2>1, <2>2, <2>3, ReturnKeepingSafe
  <1>17. CASE UNCHANGED vars
    BY <1>17 DEF vars, SafeInv, TypedStack, Restores, RunsClauses, Runs, Top, Now
  <1>18. QED
    BY <1>1, <1>2, <1>3, <1>4, <1>5, <1>6, <1>7, <1>8, <1>9, <1>10, <1>11, <1>12, <1>13,
       <1>14, <1>15, <1>16, <1>17 DEF Next

\* It holds at first.
LEMMA InitSafe == Init => SafeInv
  <1> SUFFICES ASSUME Init PROVE SafeInv
    OBVIOUS
  <1>1. store = <<>> /\ goals = <<>> /\ stack = <<Native(1)>> /\ program \in Seq(Clause)
    BY ConstantsAssumption DEF Init
  <1>2. IsContext(Now) /\ Now \in Context
    <2>1. <<>> \in Seq(Term \cup {Unset}) /\ <<>> \in Seq(Goal) /\ Len(<<>>) = 0
      OBVIOUS
    <2>2. Now = [store |-> <<>>, goals |-> <<>>] /\ Now \in Context
      BY <1>1, <2>1 DEF Now, Context
    <2>3. Now.store = <<>> /\ Now.goals = <<>>
      BY <2>2
    <2>4. \A i \in 1..0 : FALSE
      OBVIOUS
    <2>5. QED
      BY <2>1, <2>2, <2>3, <2>4 DEF IsStore, IsContext
  <1>3. Native(1) \in Activation /\ Native(1).at = "native" /\ ContextOf(Native(1)) = Now
    BY <1>2 DEF Native, Activation, ContextOf
  <1>4. Len(stack) = 1 /\ stack[1] = Native(1) /\ stack \in Seq(Activation) /\ Top = Native(1)
    BY <1>1, <1>3 DEF Top
  <1>5. QED
    BY <1>1, <1>2, <1>3, <1>4 DEF SafeInv, TypedStack, Restores, RunsClauses, Runs, Fits

\* Nothing but a failed or a finished call changes what a caller of _DI_invoke or
\* C code finds, for any program.
LEMMA AlwaysSafe == Spec => [](LoopInv /\ SafeInv)
  BY InitLoopInv, NextLoopInv, InitSafe, NextSafe, PTL DEF Spec

\* In every reachable state of every program everything has its type, and no term
\* refers to a variable that a rollback has taken away.
THEOREM StateTyped == Spec => []TypeOK
  <1>1. LoopInv /\ SafeInv => TypeOK
    <2> SUFFICES ASSUME LoopInv, SafeInv PROVE TypeOK
      OBVIOUS
    <2>1. IsStore(store) /\ Now \in Context /\ stack \in Seq(Activation) /\ program \in Seq(Clause)
          /\ \A i \in 1..Len(goals) : goals[i].argument \in Terms(store)
      BY SafeFacts DEF SafeInv, TypedStack, IsContext
    <2>2. \A i \in 1..Len(goals) : goals[i].argument \in Nat => goals[i].argument \in 1..Len(store)
      BY <2>1, ConstantsAssumption DEF Terms
    <2>3. QED
      BY <2>1, <2>2 DEF TypeOK, IsStore, LoopInv, Answers
  <1>2. QED
    BY <1>1, AlwaysSafe, PTL

\* For every program, _DI_invoke and an exported function try each predicate in the
\* state in which they were called: a predicate that fails, however many goals and
\* calls it was the cause of, takes back what they did.
THEOREM EveryRetryFromStart == Spec => []RetriesFromStart
  <1>1. SafeInv => RetriesFromStart
    BY DEF SafeInv, Restores, Restoring, RetriesFromStart, Running, ContextOf
  <1>2. QED
    BY <1>1, AlwaysSafe, PTL

\* For every program, C code finds the bindings and the pending goals unchanged
\* after each call it made, whatever the call resolved and called in turn.
THEOREM CallsFromCRestore == Spec => []CallsFromCLeaveNoTrace
  <1>1. SafeInv => CallsFromCLeaveNoTrace
    BY DEF SafeInv, Restores, CallsFromCLeaveNoTrace, Running, ContextOf
  <1>2. QED
    BY <1>1, AlwaysSafe, PTL

-----------------------------------------------------------------------------
(* What tasks come to                                                      *)

Outcome == [is : {"success"}, context : Context] \cup {Failure, Unfinished}

\* The three outcomes differ.
LEMMA Outcomes ==
    /\ Failure # Unfinished /\ Failure \in Outcome /\ Unfinished \in Outcome
    /\ \A c : Success(c).is = "success" /\ Success(c).context = c
              /\ Success(c) # Failure /\ Success(c) # Unfinished
              /\ (c \in Context => Success(c) \in Outcome)
    /\ \A o \in Outcome : IF o.is = "success" THEN o.context \in Context /\ o = Success(o.context)
                                              ELSE o \in {Failure, Unfinished}
  <1>1. Failure.is = "failure" /\ Unfinished.is = "unfinished"
    BY DEF Failure, Unfinished
  <1>2. Failure # Unfinished /\ Failure \in Outcome /\ Unfinished \in Outcome
    BY <1>1 DEF Outcome
  <1>3. \A c : Success(c).is = "success" /\ Success(c).context = c
               /\ (c \in Context => Success(c) \in Outcome)
    BY DEF Success, Outcome
  <1>4. ASSUME NEW o \in [is : {"success"}, context : Context]
        PROVE  o.is = "success" /\ o.context \in Context /\ o = Success(o.context)
    BY DEF Success
  <1>5. \A o \in Outcome : IF o.is = "success" THEN o.context \in Context /\ o = Success(o.context)
                                               ELSE o \in {Failure, Unfinished}
    BY <1>1, <1>4 DEF Outcome
  <1>6. QED
    BY <1>1, <1>2, <1>3, <1>5

\* Bindings to terms, whether these exist or not.
Stored == Seq(Term \cup {Unset})

\* Unification keeps them such.
LEMMA UnifiedStored ==
    ASSUME NEW s \in Stored, NEW lhs \in Term, NEW rhs \in Term
    PROVE  Unified(s, lhs, rhs) = Failed \/ Unified(s, lhs, rhs) \in Stored
  <1> DEFINE l == Follow(s, lhs)
             r == Follow(s, rhs)
  <1>1. Len(s) \in Nat /\ DOMAIN s = 1..Len(s) /\ \A i \in DOMAIN s : s[i] \in Term \cup {Unset}
    BY DEF Stored
  <1>2. \A t \in Term : Bound(s, t) => s[t] \in Term
    BY <1>1 DEF Bound
  <1>3. l \in Term /\ r \in Term
    BY <1>1, <1>2, FollowStays
  <1>4. \A a \in DOMAIN s, t \in Term : [s EXCEPT ![a] = t] \in Stored
    BY <1>1 DEF Stored
  <1>5. QED
    BY <1>3, <1>4 DEF Unified

\* So does that of a head.
LEMMA HeadStored ==
    ASSUME NEW s \in Stored, NEW clause \in Clause, NEW argument \in Term
    PROVE  /\ X(s, clause) \in Term
           /\ HeadUnified(s, clause, argument) = Failed \/ HeadUnified(s, clause, argument) \in Stored
  <1>1. Len(s) \in Nat
    BY DEF Stored
  <1>2. X(s, clause) \in Term
    BY <1>1 DEF X, Term
  <1>3. WithX(s, clause) \in Stored
    BY DEF WithX, Stored
  <1>4. QED
    BY <1>2, <1>3, UnifiedStored DEF HeadUnified

-----------------------------------------------------------------------------
(* The procedure, step by step                                             *)

\* The body of the recursive function of ComesTo.
After(p, f, n) == [t \in Task(p) |-> IF n = 0 THEN Unfinished ELSE Comes(p, f[n - 1], t)]

Iterates(p, f, k) == f = [n \in 0..k |-> After(p, f, n)]

\* The recursive function exists.
LEMMA AfterExists ==
    ASSUME NEW p, NEW k \in Nat
    PROVE  \E f : f = [n \in 0..k |-> After(p, f, n)]
  <1> DEFINE P == {m \in Nat : \E f : f = [n \in 0..m |-> After(p, f, n)]}
  <1>1. 0 \in P
    <2> DEFINE f == [n \in 0..0 |-> [t \in Task(p) |-> Unfinished]]
    <2>1. f = [n \in 0..0 |-> After(p, f, n)]
      BY DEF After
    <2>2. QED
      BY <2>1
  <1>2. ASSUME NEW m \in Nat, m \in P PROVE m + 1 \in P
    <2>1. PICK f : f = [n \in 0..m |-> After(p, f, n)]
      BY <1>2
    <2> DEFINE g == [n \in 0..(m + 1) |-> IF n = m + 1 THEN After(p, f, n) ELSE f[n]]
    <2>2. ASSUME NEW n \in 0..(m + 1) PROVE g[n] = After(p, g, n)
      <3>1. n > 0 => g[n - 1] = f[n - 1]
        OBVIOUS
      <3>2. After(p, g, n) = After(p, f, n)
        BY <3>1 DEF After
      <3>3. n # m + 1 => f[n] = After(p, f, n)
        BY <2>1
      <3>4. QED
        BY <3>2, <3>3
    <2>3. g = [n \in 0..(m + 1) |-> After(p, g, n)]
      BY <2>2
    <2> HIDE DEF g
    <2>4. m + 1 \in Nat /\ \E h : h = [n \in 0..(m + 1) |-> After(p, h, n)]
      BY <2>3
    <2>5. QED
      BY <2>4
  <1>3. QED
    BY <1>1, <1>2, Induction

\* It does not depend on how far it goes.
LEMMA AfterUnique ==
    ASSUME NEW p, NEW j \in Nat, NEW k \in Nat,
           NEW f, Iterates(p, f, j), NEW g, Iterates(p, g, k)
    PROVE  \A n \in Nat : n <= j /\ n <= k => f[n] = g[n]
  <1> DEFINE P == {n \in Nat : n <= j /\ n <= k => f[n] = g[n]}
  <1>1. 0 \in P
    <2>1. f[0] = After(p, f, 0) /\ g[0] = After(p, g, 0)
      BY DEF Iterates
    <2>2. QED
      BY <2>1 DEF After
  <1>2. ASSUME NEW n \in Nat, n \in P PROVE n + 1 \in P
    <2> SUFFICES ASSUME n + 1 <= j, n + 1 <= k PROVE f[n + 1] = g[n + 1]
      OBVIOUS
    <2>1. f[n] = g[n] /\ (n + 1) - 1 = n
      BY <1>2
    <2>2. f[n + 1] = After(p, f, n + 1) /\ g[n + 1] = After(p, g, n + 1)
      BY DEF Iterates
    <2>3. QED
      BY <2>1, <2>2 DEF After
  <1>3. QED
    BY <1>1, <1>2, Induction

\* What every task comes to after n steps.
In(p, n) == [t \in Task(p) |-> ComesTo(p, t, n)]

\* Nothing comes to anything in no step, and what a task comes to in one step more is
\* made of what others come to.
LEMMA InSteps ==
    ASSUME NEW p
    PROVE  /\ \A t \in Task(p) : In(p, 0)[t] = Unfinished
           /\ \A n \in Nat : \A t \in Task(p) : In(p, n + 1)[t] = Comes(p, In(p, n), t)
  <1> DEFINE f(k) == CHOOSE f : f = [n \in 0..k |-> After(p, f, n)]
  <1>1. \A k \in Nat : f(k) = [n \in 0..k |-> After(p, f(k), n)]
    BY AfterExists
  <1>2. \A k \in Nat : \A t \in Task(p) : In(p, k)[t] = f(k)[k][t]
    BY DEF In, ComesTo, After
  <1> HIDE DEF f
  <1>3. \A k \in Nat : f(k)[k] = After(p, f(k), k)
    <2> TAKE k \in Nat
    <2>1. f(k) = [n \in 0..k |-> After(p, f(k), n)]
      BY <1>1
    <2>2. QED
      BY <2>1
  <1>4. \A t \in Task(p) : In(p, 0)[t] = Unfinished
    <2>1. f(0)[0] = After(p, f(0), 0)
      BY <1>3
    <2>2. \A t \in Task(p) : After(p, f(0), 0)[t] = Unfinished
      BY DEF After
    <2>3. \A t \in Task(p) : In(p, 0)[t] = f(0)[0][t]
      BY <1>2
    <2>4. QED
      BY <2>1, <2>2, <2>3
  <1>5. ASSUME NEW n \in Nat, NEW t \in Task(p) PROVE In(p, n + 1)[t] = Comes(p, In(p, n), t)
    <2>1. In(p, n + 1)[t] = Comes(p, f(n + 1)[n], t)
      <3>1. f(n + 1)[n + 1] = After(p, f(n + 1), n + 1) /\ In(p, n + 1)[t] = f(n + 1)[n + 1][t]
        BY <1>2, <1>3
      <3>2. n + 1 # 0 /\ (n + 1) - 1 = n
        OBVIOUS
      <3>3. After(p, f(n + 1), n + 1)[t] = Comes(p, f(n + 1)[n], t)
        BY <3>2 DEF After
      <3>4. QED
        BY <3>1, <3>3
    <2>2. f(n + 1)[n] = f(n)[n]
      <3>1. n + 1 \in Nat /\ f(n + 1) = [i \in 0..(n + 1) |-> After(p, f(n + 1), i)]
            /\ f(n) = [i \in 0..n |-> After(p, f(n), i)]
        BY <1>1
      <3>2. \A i \in Nat : i <= n + 1 /\ i <= n => f(n + 1)[i] = f(n)[i]
        <4>1. Iterates(p, f(n + 1), n + 1) /\ Iterates(p, f(n), n)
          BY <3>1 DEF Iterates
        <4>2. QED
          BY <3>1, <4>1, AfterUnique
      <3>3. QED
        BY <3>2
    <2>3. f(n)[n] = In(p, n)
      <3>1. f(n)[n] = After(p, f(n), n)
        BY <1>3
      <3>2. \A u \in Task(p) : In(p, n)[u] = f(n)[n][u]
        BY <1>2
      <3>3. DOMAIN f(n)[n] = Task(p) /\ f(n)[n] = [u \in Task(p) |-> f(n)[n][u]]
        BY <3>1 DEF After
      <3>4. In(p, n) = [u \in Task(p) |-> In(p, n)[u]]
        BY DEF In
      <3>5. QED
        BY <3>2, <3>3, <3>4
    <2>4. QED
      BY <2>1, <2>2, <2>3
  <1>6. QED
    BY <1>4, <1>5

-----------------------------------------------------------------------------
(* What each task is made of                                               *)

\* The tasks that there are.
LEMMA Tasks ==
    ASSUME NEW p
    PROVE  /\ \A c \in Context, name \in Names, a \in Term, next \in Nat \ {0} :
                 Attempting(c, name, a, next) \in Task(p)
           /\ \A c \in Context, clause \in 1..Len(p), x \in Term, pc \in Nat \ {0} :
                 Executing(c, clause, x, pc) \in Task(p)
           /\ \A c \in Context : Finishing(c) \in Task(p)
           /\ \A t \in Task(p) :
                 \/ \E c \in Context, name \in Names, a \in Term, next \in Nat \ {0} :
                       t = Attempting(c, name, a, next)
                 \/ \E c \in Context, clause \in 1..Len(p), x \in Term, pc \in Nat \ {0} :
                       t = Executing(c, clause, x, pc)
                 \/ \E c \in Context : t = Finishing(c)
  <1>1. ASSUME NEW t \in [do : {"attempt"}, context : Context, name : Names, argument : Term,
                          next : Nat \ {0}]
        PROVE  /\ t.context \in Context /\ t.name \in Names /\ t.argument \in Term
               /\ t.next \in Nat \ {0} /\ t = Attempting(t.context, t.name, t.argument, t.next)
    BY DEF Attempting
  <1>2. ASSUME NEW t \in [do : {"execute"}, context : Context, clause : 1..Len(p), x : Term,
                          pc : Nat \ {0}]
        PROVE  /\ t.context \in Context /\ t.clause \in 1..Len(p) /\ t.x \in Term
               /\ t.pc \in Nat \ {0} /\ t = Executing(t.context, t.clause, t.x, t.pc)
    BY DEF Executing
  <1>3. ASSUME NEW t \in [do : {"finish"}, context : Context]
        PROVE  t.context \in Context /\ t = Finishing(t.context)
    BY DEF Finishing
  <1>4. \A c \in Context, name \in Names, a \in Term, next \in Nat \ {0} :
           Attempting(c, name, a, next) \in Task(p)
    BY DEF Task, Attempting
  <1>5. \A c \in Context, clause \in 1..Len(p), x \in Term, pc \in Nat \ {0} :
           Executing(c, clause, x, pc) \in Task(p)
    BY DEF Task, Executing
  <1>6. \A c \in Context : Finishing(c) \in Task(p)
    BY DEF Task, Finishing
  <1>7. ASSUME NEW t \in Task(p)
        PROVE  \/ \E c \in Context, name \in Names, a \in Term, next \in Nat \ {0} :
                     t = Attempting(c, name, a, next)
               \/ \E c \in Context, clause \in 1..Len(p), x \in Term, pc \in Nat \ {0} :
                     t = Executing(c, clause, x, pc)
               \/ \E c \in Context : t = Finishing(c)
    <2>1. \/ t \in [do : {"attempt"}, context : Context, name : Names, argument : Term,
                    next : Nat \ {0}]
          \/ t \in [do : {"execute"}, context : Context, clause : 1..Len(p), x : Term,
                    pc : Nat \ {0}]
          \/ t \in [do : {"finish"}, context : Context]
      BY DEF Task
    <2>2. QED
      BY <1>1, <1>2, <1>3, <2>1
  <1>8. QED
    BY <1>4, <1>5, <1>6, <1>7

\* A context with other bindings, or with other goals.
LEMMA Contexts ==
    ASSUME NEW c \in Context
    PROVE  /\ c.store \in Stored /\ c.goals \in Seq(Goal)
           /\ \A s \in Stored : [c EXCEPT !.store = s] \in Context
                                /\ [c EXCEPT !.store = s] = [store |-> s, goals |-> c.goals]
           /\ \A g \in Seq(Goal) : [c EXCEPT !.goals = g] \in Context
                                   /\ [c EXCEPT !.goals = g] = [store |-> c.store, goals |-> g]
  BY DEF Context, Stored

\* The clauses that may be tried for a call.
Choices(p, name, next) == {i \in 1..Len(p) : i >= next /\ p[i].name = name}
First(choices)         == CHOOSE i \in choices : \A j \in choices : i <= j

\* To attempt is to try the first clause, and the next if that fails.
AttemptRule(p, L, c, name, a, next) ==
    LET task    == Attempting(c, name, a, next)
        i       == First(Choices(p, name, next))
        unified == HeadUnified(c.store, p[i], a)
        again   == Attempting(c, name, a, i + 1)
        tried   == Executing([store |-> unified, goals |-> c.goals], i, X(c.store, p[i]), 1)
    IN  /\ Choices(p, name, next) = {} => Comes(p, L, task) = Failure
        /\ Choices(p, name, next) # {} =>
              /\ i \in 1..Len(p) /\ again \in Task(p)
              /\ unified = Failed => Comes(p, L, task) = L[again]
              /\ unified # Failed =>
                    /\ tried \in Task(p)
                    /\ Comes(p, L, task) = IF L[tried] = Failure THEN L[again] ELSE L[tried]

\* That is what the code of the procedure says of it.
LEMMA AttemptMade ==
    ASSUME NEW p \in Seq(Clause), NEW L,
           NEW c \in Context, NEW name \in Names, NEW a \in Term, NEW next \in Nat \ {0}
    PROVE  AttemptRule(p, L, c, name, a, next)
  <1> DEFINE task    == Attempting(c, name, a, next)
             S       == Choices(p, name, next)
             i       == First(S)
             unified == HeadUnified(c.store, p[i], a)
             again   == Attempting(c, name, a, i + 1)
             x       == X(c.store, p[i])
             tried   == Executing([store |-> unified, goals |-> c.goals], i, x, 1)
             tried0  == Executing([c EXCEPT !.store = unified], i, x, 1)
             result  == IF unified = Failed THEN Failure ELSE L[tried0]
  <1>1. /\ task.do = "attempt" /\ task.context = c /\ task.name = name /\ task.argument = a
        /\ task.next = next /\ [task EXCEPT !.next = i + 1] = again
    BY DEF Attempting
  <1>2. Comes(p, L, task) = AttemptComesTo(p, L, task)
    BY <1>1 DEF Comes
  <1>3. AttemptComesTo(p, L, task) = IF S = {} THEN Failure
                                     ELSE IF result = Failure THEN L[again] ELSE result
    BY <1>1 DEF AttemptComesTo, Choices, First
  <1>4. ASSUME S # {} PROVE i \in 1..Len(p) /\ i + 1 \in Nat \ {0} /\ p[i] \in Clause
    <2>1. S \subseteq Nat
      BY DEF Choices
    <2>2. \E k \in S : \A j \in S : k <= j
      BY <1>4, <2>1, LessThan
    <2>3. i \in S
      BY <2>2 DEF First
    <2>4. i \in 1..Len(p)
      BY <2>3 DEF Choices
    <2>5. QED
      BY <2>4
  <1>5. ASSUME S # {} PROVE again \in Task(p)
    BY <1>4, <1>5, Tasks
  <1>6. ASSUME S # {}, unified # Failed PROVE tried \in Task(p) /\ tried0 = tried
    <2>1. x \in Term /\ unified \in Stored
      BY <1>4, <1>6, HeadStored, Contexts
    <2>2. [c EXCEPT !.store = unified] \in Context
          /\ [c EXCEPT !.store = unified] = [store |-> unified, goals |-> c.goals]
      BY <2>1, Contexts
    <2>3. i \in 1..Len(p) /\ 1 \in Nat \ {0}
      BY <1>4, <1>6
    <2> HIDE DEF i, x, unified
    <2>4. tried \in Task(p)
      BY <2>1, <2>2, <2>3, Tasks
    <2>5. QED
      BY <2>2, <2>4
  <1> HIDE DEF task, S, i, unified, again, x, tried, tried0
  <1>7. /\ S = {} => Comes(p, L, task) = Failure
        /\ S # {} =>
              /\ i \in 1..Len(p) /\ again \in Task(p)
              /\ unified = Failed => Comes(p, L, task) = L[again]
              /\ unified # Failed =>
                    /\ tried \in Task(p)
                    /\ Comes(p, L, task) = IF L[tried] = Failure THEN L[again] ELSE L[tried]
    BY <1>2, <1>3, <1>4, <1>5, <1>6
  <1>8. QED
    BY <1>7 DEF AttemptRule, task, S, i, unified, again, x, tried

\* To execute is to do what the statement says and execute the rest, or to finish.
ExecutionRule(p, L, c, clause, x, pc) ==
    LET task      == Executing(c, clause, x, pc)
        body      == p[clause].body
        statement == body[pc]
        unified   == Unified(c.store, x, statement.value)
        added     == [store |-> c.store,
                      goals |-> Append(c.goals, [name |-> statement.name, argument |-> x])]
        bound     == [store |-> unified, goals |-> c.goals]
        called    == Attempting(c, statement.name, x, 1)
        Then(d)   == Executing(d, clause, x, pc + 1)
    IN  /\ body \in Seq(Statement)
        /\ \A d \in Context : Then(d) \in Task(p)
        /\ pc > Len(body) => Finishing(c) \in Task(p) /\ Comes(p, L, task) = L[Finishing(c)]
        /\ pc <= Len(body) =>
              /\ statement.op \in {"goal", "unify", "call", "native"}
              /\ statement.op = "goal" => added \in Context /\ Comes(p, L, task) = L[Then(added)]
              /\ statement.op = "unify" =>
                    IF unified = Failed THEN Comes(p, L, task) = Failure
                    ELSE bound \in Context /\ Comes(p, L, task) = L[Then(bound)]
              /\ statement.op = "call" =>
                    /\ called \in Task(p) /\ L[called] \in Outcome
                    /\ Comes(p, L, task) = IF L[called].is = "success" THEN L[Then(L[called].context)]
                                                                       ELSE L[called]
              /\ statement.op = "native" => Comes(p, L, task) = L[Then(c)]

\* It is what the procedure makes of statements, whose terms have their types.
LEMMA ExecutionMade ==
    ASSUME NEW p \in Seq(Clause), NEW L \in [Task(p) -> Outcome],
           NEW c \in Context, NEW clause \in 1..Len(p), NEW x \in Term, NEW pc \in Nat \ {0}
    PROVE  ExecutionRule(p, L, c, clause, x, pc)
  <1> DEFINE task      == Executing(c, clause, x, pc)
             body      == p[clause].body
             statement == body[pc]
             unified   == Unified(c.store, x, statement.value)
             goal      == [name |-> statement.name, argument |-> x]
             added0    == [c EXCEPT !.goals = Append(c.goals, goal)]
             added     == [store |-> c.store, goals |-> Append(c.goals, goal)]
             bound0    == [c EXCEPT !.store = unified]
             bound     == [store |-> unified, goals |-> c.goals]
             called    == Attempting(c, statement.name, x, 1)
             Then(d)   == Executing(d, clause, x, pc + 1)
  <1>1. /\ task.do = "execute" /\ task.context = c /\ task.clause = clause /\ task.x = x
        /\ task.pc = pc
    BY DEF Executing
  <1>2. body \in Seq(Statement) /\ pc + 1 \in Nat \ {0}
    <2>1. p[clause] \in Clause
      OBVIOUS
    <2>2. QED
      BY <2>1 DEF Clause
  <1>3. \A d \in Context : Then(d) \in Task(p)
    BY <1>2, Tasks
  <1>4. Finishing(c) \in Task(p)
    BY Tasks
  <1>5. ASSUME pc <= Len(body)
        PROVE  /\ statement.op \in {"goal", "unify", "call", "native"}
               /\ statement.op \in {"goal", "call"} => statement.name \in Names
               /\ statement.op = "unify" => statement.value \in Values
    <2>1. Len(body) \in Nat /\ pc \in 1..Len(body)
      BY <1>2, <1>5
    <2>2. statement \in Statement
      BY <1>2, <2>1
    <2>3. QED
      BY <2>2 DEF Statement
  <1>6. ASSUME pc <= Len(body), statement.op = "goal" PROVE added \in Context /\ added0 = added
    <2>1. goal \in Goal
      BY <1>5, <1>6 DEF Goal
    <2>2. Append(c.goals, goal) \in Seq(Goal)
      BY <2>1, Contexts
    <2>3. QED
      BY <2>2, Contexts
  <1>7. ASSUME pc <= Len(body), statement.op = "unify", unified # Failed
        PROVE  bound \in Context /\ bound0 = bound
    <2>1. unified \in Stored
      BY <1>5, <1>7, UnifiedStored, Contexts DEF Term
    <2>2. QED
      BY <2>1, Contexts
  <1>8. ASSUME pc <= Len(body), statement.op = "call" PROVE called \in Task(p)
    BY <1>5, <1>8, Tasks
  <1>9. Comes(p, L, task) = ExecutionComesTo(p, L, task)
    BY <1>1 DEF Comes
  <1>10. ExecutionComesTo(p, L, task) =
           IF pc > Len(body) THEN L[Finishing(c)]
           ELSE CASE statement.op = "goal"   -> L[Then(added0)]
                  [] statement.op = "unify"  -> IF unified = Failed THEN Failure ELSE L[Then(bound0)]
                  [] statement.op = "call"   -> IF L[called].is = "success" THEN L[Then(L[called].context)]
                                                ELSE L[called]
                  [] statement.op = "native" -> L[Then(c)]
    BY <1>1 DEF ExecutionComesTo
  <1>11. pc > Len(body) \/ pc <= Len(body)
    BY <1>2
  <1> HIDE DEF task, body, statement, unified, goal, added0, added, bound0, bound, called, Then
  <1>12. /\ body \in Seq(Statement)
         /\ \A d \in Context : Then(d) \in Task(p)
         /\ pc > Len(body) => Finishing(c) \in Task(p) /\ Comes(p, L, task) = L[Finishing(c)]
    BY <1>2, <1>3, <1>4, <1>9, <1>10
  <1>13. ASSUME pc <= Len(body)
         PROVE  /\ statement.op \in {"goal", "unify", "call", "native"}
                /\ statement.op = "goal" => added \in Context /\ Comes(p, L, task) = L[Then(added)]
                /\ statement.op = "unify" =>
                      IF unified = Failed THEN Comes(p, L, task) = Failure
                      ELSE bound \in Context /\ Comes(p, L, task) = L[Then(bound)]
                /\ statement.op = "call" =>
                      /\ called \in Task(p) /\ L[called] \in Outcome
                      /\ Comes(p, L, task) = IF L[called].is = "success" THEN L[Then(L[called].context)]
                                                                         ELSE L[called]
                /\ statement.op = "native" => Comes(p, L, task) = L[Then(c)]
    <2>1. ~ (pc > Len(body))
      <3>1. Len(body) \in Nat
        BY <1>2
      <3>2. QED
        BY <1>13, <3>1
    <2>2. QED
      BY <1>1, <1>5, <1>6, <1>7, <1>8, <1>9, <1>10, <1>13, <2>1
  <1>14. QED
    BY <1>12, <1>13 DEF ExecutionRule, task, body, statement, unified, goal, added, bound, called, Then

\* To finish is to attempt the goals that are pending.
FinishRule(p, L, c) ==
    LET goal  == Head(c.goals)
        first == Attempting([store |-> c.store, goals |-> Tail(c.goals)], goal.name, goal.argument, 1)
    IN  /\ c.goals = <<>> => Comes(p, L, Finishing(c)) = Success(c)
        /\ c.goals # <<>> => first \in Task(p) /\ Comes(p, L, Finishing(c)) = L[first]

\* It is what the procedure makes of a list of goals.
LEMMA FinishMade ==
    ASSUME NEW p, NEW L, NEW c \in Context
    PROVE  FinishRule(p, L, c)
  <1> DEFINE goal   == Head(c.goals)
             rest   == [store |-> c.store, goals |-> Tail(c.goals)]
             rest0  == [c EXCEPT !.goals = Tail(c.goals)]
             first  == Attempting(rest, goal.name, goal.argument, 1)
             first0 == Attempting(rest0, goal.name, goal.argument, 1)
  <1>1. Finishing(c).do = "finish" /\ Finishing(c).context = c
    BY DEF Finishing
  <1>2. Comes(p, L, Finishing(c)) = FinishComesTo(L, Finishing(c))
    BY <1>1 DEF Comes
  <1>3. FinishComesTo(L, Finishing(c)) = IF c.goals = <<>> THEN Success(c) ELSE L[first0]
    BY <1>1 DEF FinishComesTo
  <1>4. ASSUME c.goals # <<>> PROVE first \in Task(p) /\ first0 = first
    <2>1. c.goals \in Seq(Goal)
      BY Contexts
    <2>2. goal \in Goal /\ Tail(c.goals) \in Seq(Goal)
      BY <1>4, <2>1
    <2>3. goal.name \in Names /\ goal.argument \in Term
      BY <2>2 DEF Goal
    <2>4. rest \in Context /\ rest0 = rest
      BY <2>2, Contexts
    <2> HIDE DEF goal, rest, rest0
    <2>5. QED
      BY <2>3, <2>4, Tasks
  <1> HIDE DEF first, first0
  <1>5. /\ c.goals = <<>> => Comes(p, L, Finishing(c)) = Success(c)
        /\ c.goals # <<>> => first \in Task(p) /\ Comes(p, L, Finishing(c)) = L[first]
    BY <1>2, <1>3, <1>4
  <1>6. QED
    BY <1>5 DEF FinishRule, first

-----------------------------------------------------------------------------
(* What tasks come to in the end                                           *)

\* M knows what u comes to if L does.
Knows(L, M, u) == L[u] # Unfinished => M[u] = L[u]

\* What a task comes to depends on what two others come to, at most.
LEMMA DependsOnTwo ==
    ASSUME NEW p \in Seq(Clause), NEW L \in [Task(p) -> Outcome], NEW task \in Task(p)
    PROVE  /\ Comes(p, L, task) \in Outcome
           /\ \E u, v \in Task(p) : \A M \in [Task(p) -> Outcome] :
                 Knows(L, M, u) /\ Knows(L, M, v) => 
                    Comes(p, L, task) = Unfinished \/ Comes(p, M, task) = Comes(p, L, task)
  <1> DEFINE Kept(u, v) == \A M \in [Task(p) -> Outcome] :
                 Knows(L, M, u) /\ Knows(L, M, v) => 
                    Comes(p, L, task) = Unfinished \/ Comes(p, M, task) = Comes(p, L, task)
             Wanted == Comes(p, L, task) \in Outcome /\ \E u, v \in Task(p) : Kept(u, v)
  <1>1. ASSUME NEW u \in Task(p), \A M \in [Task(p) -> Outcome] : Comes(p, M, task) = M[u]
        PROVE  Wanted
    <2>1. Comes(p, L, task) = L[u] /\ L[u] \in Outcome
      BY <1>1
    <2>2. Kept(u, u)
      BY <1>1, <2>1 DEF Knows
    <2>3. QED
      BY <2>1, <2>2
  <1>2. ASSUME NEW o \in Outcome, \A M \in [Task(p) -> Outcome] : Comes(p, M, task) = o
        PROVE  Wanted
    <2>1. Kept(task, task)
      BY <1>2
    <2>2. QED
      BY <1>2, <2>1
  <1>3. ASSUME NEW c \in Context, NEW name \in Names, NEW a \in Term, NEW next \in Nat \ {0},
               task = Attempting(c, name, a, next)
        PROVE  Wanted
    <2> DEFINE i       == First(Choices(p, name, next))
               unified == HeadUnified(c.store, p[i], a)
               again   == Attempting(c, name, a, i + 1)
               tried   == Executing([store |-> unified, goals |-> c.goals], i, X(c.store, p[i]), 1)
    <2>1. ASSUME NEW M
          PROVE  /\ Choices(p, name, next) = {} => Comes(p, M, task) = Failure
                 /\ Choices(p, name, next) # {} =>
                       /\ again \in Task(p)
                       /\ unified = Failed => Comes(p, M, task) = M[again]
                       /\ unified # Failed =>
                             /\ tried \in Task(p)
                             /\ Comes(p, M, task) = IF M[tried] = Failure THEN M[again] ELSE M[tried]
      <3>1. AttemptRule(p, M, c, name, a, next)
        BY AttemptMade
      <3>2. QED
        BY <1>3, <3>1 DEF AttemptRule
    <2> HIDE DEF i, unified, again, tried
    <2>2. CASE Choices(p, name, next) = {}
      BY <1>2, <2>1, <2>2, Outcomes
    <2>3. CASE Choices(p, name, next) # {} /\ unified = Failed
      BY <1>1, <2>1, <2>3
    <2>4. CASE Choices(p, name, next) # {} /\ unified # Failed
      <3>1. again \in Task(p) /\ tried \in Task(p)
        BY <2>1, <2>4
      <3>2. \A M : Comes(p, M, task) = IF M[tried] = Failure THEN M[again] ELSE M[tried]
        BY <2>1, <2>4
      <3>3. Comes(p, L, task) \in Outcome
        BY <3>1, <3>2
      <3>4. Kept(tried, again)
        BY <3>1, <3>2, Outcomes DEF Knows
      <3>5. QED
        BY <3>1, <3>3, <3>4
    <2>5. QED
      BY <2>2, <2>3, <2>4
  <1>4. ASSUME NEW c \in Context, NEW clause \in 1..Len(p), NEW x \in Term, NEW pc \in Nat \ {0},
               task = Executing(c, clause, x, pc)
        PROVE  Wanted
    <2> DEFINE body      == p[clause].body
               statement == body[pc]
               unified   == Unified(c.store, x, statement.value)
               added     == [store |-> c.store,
                             goals |-> Append(c.goals, [name |-> statement.name, argument |-> x])]
               bound     == [store |-> unified, goals |-> c.goals]
               called    == Attempting(c, statement.name, x, 1)
               Then(d)   == Executing(d, clause, x, pc + 1)
    <2>1. ASSUME NEW M \in [Task(p) -> Outcome]
          PROVE  /\ body \in Seq(Statement)
                 /\ \A d \in Context : Then(d) \in Task(p)
                 /\ pc > Len(body) => Finishing(c) \in Task(p) /\ Comes(p, M, task) = M[Finishing(c)]
                 /\ pc <= Len(body) =>
                       /\ statement.op \in {"goal", "unify", "call", "native"}
                       /\ statement.op = "goal" => added \in Context /\ Comes(p, M, task) = M[Then(added)]
                       /\ statement.op = "unify" =>
                             IF unified = Failed THEN Comes(p, M, task) = Failure
                             ELSE bound \in Context /\ Comes(p, M, task) = M[Then(bound)]
                       /\ statement.op = "call" =>
                             /\ called \in Task(p) /\ M[called] \in Outcome
                             /\ Comes(p, M, task) = IF M[called].is = "success" THEN M[Then(M[called].context)]
                                                                                ELSE M[called]
                       /\ statement.op = "native" => Comes(p, M, task) = M[Then(c)]
      <3>1. ExecutionRule(p, M, c, clause, x, pc)
        BY ExecutionMade
      <3>2. QED
        BY <1>4, <3>1 DEF ExecutionRule
    <2>2. pc > Len(body) \/ pc <= Len(body)
      <3>1. body \in Seq(Statement)
        BY <2>1
      <3> HIDE DEF body
      <3>2. QED
        BY <3>1
    <2> HIDE DEF body, statement, unified, added, bound, called, Then
    <2>3. CASE pc > Len(body)
      BY <1>1, <2>1, <2>3
    <2>4. CASE pc <= Len(body) /\ statement.op = "goal"
      BY <1>1, <2>1, <2>4
    <2>5. CASE pc <= Len(body) /\ statement.op = "unify" /\ unified = Failed
      BY <1>2, <2>1, <2>5, Outcomes
    <2>6. CASE pc <= Len(body) /\ statement.op = "unify" /\ unified # Failed
      BY <1>1, <2>1, <2>6
    <2>7. CASE pc <= Len(body) /\ statement.op = "native"
      BY <1>1, <2>1, <2>7
    <2>8. CASE pc <= Len(body) /\ statement.op = "call"
      <3>1. /\ called \in Task(p) /\ L[called] \in Outcome
            /\ \A d \in Context : Then(d) \in Task(p)
        BY <2>1, <2>8
      <3>2. \A M \in [Task(p) -> Outcome] :
               Comes(p, M, task) = IF M[called].is = "success" THEN M[Then(M[called].context)]
                                                               ELSE M[called]
        BY <2>1, <2>8
      <3>3. CASE L[called].is = "success"
        <4> DEFINE v == Then(L[called].context)
        <4>1. L[called].context \in Context /\ L[called] = Success(L[called].context)
          BY <3>1, <3>3, Outcomes
        <4>2. v \in Task(p) /\ L[called] # Unfinished
          BY <3>1, <4>1, Outcomes
        <4>3. Comes(p, L, task) = L[v] /\ L[v] \in Outcome
          BY <3>2, <3>3, <4>2
        <4>4. Kept(called, v)
          BY <3>2, <3>3, <4>2, <4>3 DEF Knows
        <4>5. QED
          BY <3>1, <4>2, <4>3, <4>4
      <3>4. CASE L[called].is # "success"
        <4>1. Comes(p, L, task) = L[called]
          BY <3>2, <3>4
        <4>2. Kept(called, called)
          BY <3>2, <3>4, <4>1 DEF Knows
        <4>3. QED
          BY <3>1, <4>1, <4>2
      <3>5. QED
        BY <3>3, <3>4
    <2>9. QED
      BY <2>1, <2>2, <2>3, <2>4, <2>5, <2>6, <2>7, <2>8
  <1>5. ASSUME NEW c \in Context, task = Finishing(c)
        PROVE  Wanted
    <2>0. \A M : FinishRule(p, M, c)
      BY FinishMade
    <2>1. CASE c.goals = <<>>
      <3>1. Success(c) \in Outcome
        BY Outcomes
      <3>2. \A M : Comes(p, M, task) = Success(c)
        BY <1>5, <2>0, <2>1 DEF FinishRule
      <3>3. QED
        BY <1>2, <3>1, <3>2
    <2>2. CASE c.goals # <<>>
      BY <1>1, <1>5, <2>0, <2>2 DEF FinishRule
    <2>3. QED
      BY <2>1, <2>2
  <1> HIDE DEF Wanted
  <1>6. Wanted
    BY <1>3, <1>4, <1>5, Tasks
  <1>7. QED
    BY <1>6 DEF Wanted

\* What all tasks come to after n steps are outcomes.
LEMMA InTyped ==
    ASSUME NEW p \in Seq(Clause)
    PROVE  \A n \in Nat : In(p, n) \in [Task(p) -> Outcome]
  <1> DEFINE P == {n \in Nat : In(p, n) \in [Task(p) -> Outcome]}
  <1>0. \A n : (\A t \in Task(p) : In(p, n)[t] \in Outcome) => In(p, n) \in [Task(p) -> Outcome]
    BY DEF In
  <1>1. 0 \in P
    BY <1>0, InSteps, Outcomes
  <1>2. ASSUME NEW n \in Nat, n \in P PROVE n + 1 \in P
    <2>1. ASSUME NEW t \in Task(p) PROVE In(p, n + 1)[t] \in Outcome
      <3>1. In(p, n + 1)[t] = Comes(p, In(p, n), t) /\ In(p, n) \in [Task(p) -> Outcome]
        BY <1>2, InSteps
      <3>2. QED
        BY <3>1, DependsOnTwo
    <2>2. QED
      BY <1>0, <2>1
  <1>3. QED
    BY <1>1, <1>2, Induction

\* What a task has come to stays what it comes to.
LEMMA InKeeps ==
    ASSUME NEW p \in Seq(Clause)
    PROVE  \A n \in Nat, m \in Nat : \A t \in Task(p) : n <= m => Knows(In(p, n), In(p, m), t)
  <1> DEFINE P == {n \in Nat : \A t \in Task(p) : Knows(In(p, n), In(p, n + 1), t)}
  <1>1. 0 \in P
    BY InSteps DEF Knows
  <1>2. ASSUME NEW n \in Nat, n \in P PROVE n + 1 \in P
    <2>1. ASSUME NEW t \in Task(p) PROVE Knows(In(p, n + 1), In(p, n + 1 + 1), t)
      <3>1. In(p, n) \in [Task(p) -> Outcome] /\ In(p, n + 1) \in [Task(p) -> Outcome]
        BY InTyped
      <3>2. \A u \in Task(p) : Knows(In(p, n), In(p, n + 1), u)
        BY <1>2
      <3>3. Comes(p, In(p, n), t) = Unfinished \/ Comes(p, In(p, n + 1), t) = Comes(p, In(p, n), t)
        BY <3>1, <3>2, DependsOnTwo
      <3>4. In(p, n + 1)[t] = Comes(p, In(p, n), t) /\ In(p, n + 1 + 1)[t] = Comes(p, In(p, n + 1), t)
        BY InSteps
      <3>5. QED
        BY <3>3, <3>4 DEF Knows
    <2>2. QED
      BY <2>1
  <1>3. Nat \subseteq P
    BY <1>1, <1>2, Induction
  <1>4. ASSUME NEW n \in Nat, NEW t \in Task(p)
        PROVE  \A k \in Nat : Knows(In(p, n), In(p, n + k), t)
    <2> DEFINE Q == {k \in Nat : Knows(In(p, n), In(p, n + k), t)}
    <2>1. 0 \in Q
      BY DEF Knows
    <2>2. ASSUME NEW k \in Nat, k \in Q PROVE k + 1 \in Q
      <3>1. n + k \in Nat /\ n + (k + 1) = (n + k) + 1
        OBVIOUS
      <3>2. Knows(In(p, n + k), In(p, n + k + 1), t)
        BY <1>3, <3>1
      <3>3. QED
        BY <2>2, <3>1, <3>2 DEF Knows
    <2>3. QED
      BY <2>1, <2>2, Induction
  <1>5. QED
    <2> TAKE n \in Nat, m \in Nat
    <2> TAKE t \in Task(p)
    <2> HAVE n <= m
    <2>1. m - n \in Nat /\ n + (m - n) = m
      OBVIOUS
    <2>2. QED
      BY <1>4, <2>1

\* What every task comes to in the end: unfinished are those that never end.
Meaning(p) ==
    [t \in Task(p) |->
        LET ends == {n \in Nat : In(p, n)[t] # Unfinished}
        IN  IF ends = {} THEN Unfinished ELSE In(p, CHOOSE n \in ends : TRUE)[t]]

\* It is what they come to after some number of steps.
LEMMA MeaningInSteps ==
    ASSUME NEW p \in Seq(Clause)
    PROVE  /\ Meaning(p) \in [Task(p) -> Outcome]
           /\ \A n \in Nat : \A t \in Task(p) : Knows(In(p, n), Meaning(p), t)
           /\ \A t \in Task(p) : \E n \in Nat : In(p, n)[t] = Meaning(p)[t]
  <1>1. ASSUME NEW t \in Task(p)
        PROVE  /\ \E n \in Nat : In(p, n)[t] = Meaning(p)[t]
               /\ \A n \in Nat : Knows(In(p, n), Meaning(p), t)
    <2> DEFINE ends == {n \in Nat : In(p, n)[t] # Unfinished}
               k    == CHOOSE n \in ends : TRUE
    <2>1. Meaning(p)[t] = IF ends = {} THEN Unfinished ELSE In(p, k)[t]
      BY DEF Meaning
    <2>2. ends # {} => k \in Nat /\ In(p, k)[t] # Unfinished
      <3>1. ends # {} => k \in ends
        OBVIOUS
      <3>2. QED
        BY <3>1
    <2> HIDE DEF k
    <2>3. CASE ends = {}
      <3>1. Meaning(p)[t] = Unfinished /\ \A n \in Nat : In(p, n)[t] = Unfinished
        BY <2>1, <2>3
      <3>2. 0 \in Nat
        OBVIOUS
      <3>3. QED
        BY <3>1, <3>2 DEF Knows
    <2>4. CASE ends # {}
      <3>1. k \in Nat /\ In(p, k)[t] # Unfinished /\ Meaning(p)[t] = In(p, k)[t]
        BY <2>1, <2>2, <2>4
      <3>2. ASSUME NEW n \in Nat PROVE Knows(In(p, n), Meaning(p), t)
        <4>1. n <= k \/ k <= n
          BY <3>1
        <4>2. Knows(In(p, n), In(p, k), t) \/ Knows(In(p, k), In(p, n), t)
          BY <3>1, <4>1, InKeeps
        <4>3. QED
          BY <3>1, <4>2 DEF Knows
      <3>3. QED
        BY <3>1, <3>2
    <2>5. QED
      BY <2>3, <2>4
  <1>2. \A t \in Task(p) : Meaning(p)[t] \in Outcome
    BY <1>1, InTyped
  <1>3. Meaning(p) \in [Task(p) -> Outcome]
    BY <1>2 DEF Meaning
  <1>4. QED
    BY <1>1, <1>3

\* And it is made as the procedure says.
LEMMA MeaningMade ==
    ASSUME NEW p \in Seq(Clause), NEW t \in Task(p)
    PROVE  Comes(p, Meaning(p), t) = Meaning(p)[t]
  <1> DEFINE M == Meaning(p)
  <1>1. M \in [Task(p) -> Outcome] /\ \A n \in Nat : \A u \in Task(p) : Knows(In(p, n), M, u)
    BY MeaningInSteps
  <1>2. \A n \in Nat : In(p, n) \in [Task(p) -> Outcome]
    BY InTyped
  <1> HIDE DEF M
  <1>3. CASE M[t] # Unfinished
    <2>1. PICK n \in Nat : In(p, n)[t] = M[t]
      BY MeaningInSteps DEF M
    <2>2. In(p, n + 1)[t] = M[t]
      BY <1>3, <2>1, InKeeps DEF Knows
    <2>3. Comes(p, In(p, n), t) = M[t]
      BY <2>2, InSteps
    <2>4. Comes(p, In(p, n), t) = Unfinished \/ Comes(p, M, t) = Comes(p, In(p, n), t)
      BY <1>1, <1>2, DependsOnTwo
    <2>5. QED
      BY <1>3, <2>3, <2>4 DEF M
  <1>4. CASE M[t] = Unfinished
    <2>1. PICK u \in Task(p), v \in Task(p) : \A L \in [Task(p) -> Outcome] :
             Knows(M, L, u) /\ Knows(M, L, v) =>
                Comes(p, M, t) = Unfinished \/ Comes(p, L, t) = Comes(p, M, t)
      BY <1>1, DependsOnTwo
    <2>2. PICK i \in Nat, j \in Nat : In(p, i)[u] = M[u] /\ In(p, j)[v] = M[v]
      BY MeaningInSteps DEF M
    <2>3. PICK n \in Nat : i <= n /\ j <= n
      <3>1. i + j \in Nat /\ i <= i + j /\ j <= i + j
        OBVIOUS
      <3>2. QED
        BY <3>1
    <2>4. Knows(M, In(p, n), u) /\ Knows(M, In(p, n), v)
      BY <2>2, <2>3, InKeeps DEF Knows
    <2>5. Comes(p, M, t) = Unfinished \/ Comes(p, In(p, n), t) = Comes(p, M, t)
      BY <1>2, <2>1, <2>4
    <2>6. Comes(p, In(p, n), t) = In(p, n + 1)[t]
      BY InSteps
    <2>7. In(p, n + 1)[t] = Unfinished
      <3>1. n + 1 \in Nat
        OBVIOUS
      <3>2. QED
        BY <1>1, <1>4, <3>1 DEF Knows
    <2>8. QED
      BY <1>4, <2>5, <2>6, <2>7 DEF M
  <1>5. QED
    BY <1>3, <1>4

-----------------------------------------------------------------------------
(* The invariant                                                           *)

\* What an attempt comes to if the clause that runs fails.
Remaining(p, a) == Meaning(p)[Attempting(a.from, a.name, a.argument, a.next)]

\* What a predicate comes to if what it has called succeeds.
Resumed(p, a, context) ==
    IF a.pc <= Len(p[a.clause].body) THEN Meaning(p)[Executing(context, a.clause, a.x, a.pc + 1)]
    ELSE Success(context)

\* A call comes to what its attempt does.
Whole(p, a, o) == a.at = "invoke" => o = Meaning(p)[Attempting(a.from, a.name, a.argument, 1)]

\* What an activation comes to when b, that it has called, comes to `called'.
Awaits(p, a, b, o, called) ==
    /\ a.at = "invoke" => o = IF called = Failure THEN Remaining(p, a) ELSE called
    /\ a.at = "predicate" =>
          o = IF b.at = "native" THEN Meaning(p)[Executing(b.found, a.clause, a.x, a.pc)]
              ELSE IF called.is = "success" THEN Resumed(p, a, called.context)
              ELSE called
    /\ a.at = "continue" => o = called

\* What it comes to when it runs, in the given context.
Heads(p, a, value, context, o) ==
    /\ a.at = "invoke" => o = IF value = "true" THEN Success(context) ELSE Remaining(p, a)
    /\ a.at = "predicate" =>
          /\ value = "none"  => o = Meaning(p)[Executing(context, a.clause, a.x, a.pc)]
          /\ value = "true"  => o = Resumed(p, a, context)
          /\ value = "false" => o = Failure
    /\ a.at = "continue" =>
          /\ value = "none"  => o = Meaning(p)[Finishing(context)]
          /\ value = "true"  => o = Success(context)
          /\ value = "false" => o = Failure

\* Every activation is on its way to what the procedure says.
Foretold ==
    \E comes \in [1..Len(stack) -> Outcome] :
       /\ \A i \in 1..Len(stack) : Whole(program, stack[i], comes[i])
       /\ \A i \in 1..(Len(stack) - 1) :
             Awaits(program, stack[i], stack[i + 1], comes[i], comes[i + 1])
       /\ Heads(program, Top, answer, Now, comes[Len(stack)])

-----------------------------------------------------------------------------

\* One activation is the other for its caller.
Alike(a, b) ==
    /\ a.at = b.at
    /\ b.at = "native" => a.found = b.found
    /\ b.at = "invoke" => a.from = b.from /\ a.name = b.name /\ a.argument = b.argument

\* It is expected to come to the same.
LEMMA AlikeFacts ==
    ASSUME NEW a, NEW b, Alike(a, b), NEW p
    PROVE  /\ \A o : Whole(p, b, o) => Whole(p, a, o)
           /\ \A c, o, called : Awaits(p, c, b, o, called) => Awaits(p, c, a, o, called)
  BY DEF Alike, Whole, Awaits

\* The top activation goes on.
LEMMA ReplaceForetold ==
    ASSUME LoopInv, SafeInv, Foretold,
           NEW top \in Activation, Alike(top, Top), stack' = Caller \o <<top>>, program' = program,
           \A o \in Outcome :
              Heads(program, Top, answer, Now, o) => Heads(program, top, answer', Now', o)
    PROVE  Foretold'
  <1> DEFINE n == Len(stack)
  <1>1. WellFormed /\ stack \in Seq(Activation) /\ n \in Nat \ {0} /\ Top = stack[n]
    BY SafeFacts
  <1>2. /\ Len(stack') = n /\ Top' = top
        /\ \A i \in 1..(n - 1) : stack'[i] = stack[i]
        /\ stack'[n] = top
    BY <1>1, StackReplaced
  <1>3. PICK comes \in [1..n -> Outcome] :
           /\ \A i \in 1..n : Whole(program, stack[i], comes[i])
           /\ \A i \in 1..(n - 1) : Awaits(program, stack[i], stack[i + 1], comes[i], comes[i + 1])
           /\ Heads(program, Top, answer, Now, comes[n])
    BY DEF Foretold
  <1> HIDE DEF n
  <1>4. ASSUME NEW i \in 1..n PROVE Whole(program', stack'[i], comes[i])
    <2>1. Whole(program, stack[i], comes[i])
      BY <1>3
    <2>2. CASE i = n
      BY <1>1, <1>2, <2>1, <2>2, AlikeFacts
    <2>3. CASE i # n
      BY <1>1, <1>2, <2>1, <2>3
    <2>4. QED
      BY <2>2, <2>3
  <1>5. ASSUME NEW i \in 1..(n - 1)
        PROVE  Awaits(program', stack'[i], stack'[i + 1], comes[i], comes[i + 1])
    <2>1. Awaits(program, stack[i], stack[i + 1], comes[i], comes[i + 1]) /\ stack'[i] = stack[i]
      BY <1>2, <1>3
    <2>2. CASE i + 1 = n
      BY <1>1, <1>2, <2>1, <2>2, AlikeFacts
    <2>3. CASE i + 1 # n
      <3>1. i + 1 \in 1..(n - 1)
        BY <1>1, <2>3
      <3>2. QED
        BY <1>2, <2>1, <3>1
    <2>4. QED
      BY <2>2, <2>3
  <1>6. Heads(program', Top', answer', Now', comes[n])
    <2>1. comes[n] \in Outcome
      BY <1>1, <1>3
    <2>2. QED
      BY <1>2, <1>3, <2>1
  <1>7. QED
    BY <1>2, <1>3, <1>4, <1>5, <1>6 DEF Foretold

\* The top activation calls another.
LEMMA CallForetold ==
    ASSUME LoopInv, SafeInv, Foretold,
           NEW top \in Activation, Alike(top, Top), NEW callee \in Activation,
           CallFrom(top, callee), program' = program,
           \A o \in Outcome : Heads(program, Top, answer, Now, o) =>
              \E d \in Outcome : /\ Whole(program, callee, d)
                                 /\ Awaits(program, top, callee, o, d)
                                 /\ Heads(program, callee, "none", Now', d)
    PROVE  Foretold'
  <1> DEFINE n == Len(stack)
  <1>1. WellFormed /\ stack \in Seq(Activation) /\ n \in Nat \ {0} /\ Top = stack[n]
    BY SafeFacts
  <1>2. /\ Len(stack') = n + 1 /\ Top' = callee /\ answer' = "none"
        /\ \A i \in 1..(n - 1) : stack'[i] = stack[i]
        /\ stack'[n] = top /\ stack'[n + 1] = callee
    BY <1>1, StackCalled DEF CallFrom
  <1>3. PICK comes \in [1..n -> Outcome] :
           /\ \A i \in 1..n : Whole(program, stack[i], comes[i])
           /\ \A i \in 1..(n - 1) : Awaits(program, stack[i], stack[i + 1], comes[i], comes[i + 1])
           /\ Heads(program, Top, answer, Now, comes[n])
    BY DEF Foretold
  <1> HIDE DEF n
  <1>4. comes[n] \in Outcome
    BY <1>1, <1>3
  <1>5. PICK d \in Outcome : /\ Whole(program, callee, d)
                             /\ Awaits(program, top, callee, comes[n], d)
                             /\ Heads(program, callee, "none", Now', d)
    BY <1>3, <1>4
  <1> DEFINE more == [i \in 1..(n + 1) |-> IF i = n + 1 THEN d ELSE comes[i]]
  <1>6. more \in [1..(n + 1) -> Outcome] /\ more[n + 1] = d /\ \A i \in 1..n : more[i] = comes[i]
    BY <1>1, <1>3
  <1> HIDE DEF more
  <1>7. \A i \in 1..(n + 1) : Whole(program', stack'[i], more[i])
    <2>1. \A i \in 1..n : Whole(program', stack'[i], more[i])
      BY <1>1, <1>2, <1>3, <1>6, AlikeFacts
    <2>2. QED
      BY <1>1, <1>2, <1>5, <1>6, <2>1
  <1>8. ASSUME NEW i \in 1..n
        PROVE  Awaits(program', stack'[i], stack'[i + 1], more[i], more[i + 1])
    <2>1. CASE i = n
      BY <1>1, <1>2, <1>5, <1>6, <2>1
    <2>2. CASE i = n - 1
      <3>1. Awaits(program, stack[n - 1], stack[n], comes[n - 1], comes[n])
        <4>1. n - 1 \in 1..(n - 1) /\ n - 1 + 1 = n
          BY <1>1, <2>2
        <4>2. QED
          BY <1>3, <4>1
      <3>2. i \in 1..(n - 1) /\ i + 1 = n /\ n \in 1..n
        BY <1>1, <2>2
      <3>3. QED
        BY <1>1, <1>2, <1>6, <2>2, <3>1, <3>2, AlikeFacts
    <2>3. CASE i \in 1..(n - 1) /\ i # n - 1
      <3>1. i + 1 \in 1..(n - 1) /\ i + 1 \in 1..n
        BY <1>1, <2>3
      <3>2. Awaits(program, stack[i], stack[i + 1], comes[i], comes[i + 1])
        BY <1>3, <2>3
      <3>3. QED
        BY <1>2, <1>6, <2>3, <3>1, <3>2
    <2>4. QED
      BY <1>1, <2>1, <2>2, <2>3
  <1>9. Heads(program', Top', answer', Now', more[n + 1])
    BY <1>2, <1>5, <1>6
  <1>10. Len(stack') - 1 = n
    BY <1>1, <1>2
  <1>11. QED
    BY <1>2, <1>6, <1>7, <1>8, <1>9, <1>10 DEF Foretold

\* The top activation returns.
LEMMA ReturnForetold ==
    ASSUME LoopInv, SafeInv, Foretold,
           stack' = Caller, Top.at # "native" \/ Len(stack) > 1, program' = program,
           \A o, d \in Outcome :
              Heads(program, Top, answer, Now, d) /\ Awaits(program, Top', Top, o, d) =>
                 Heads(program, Top', answer', Now', o)
    PROVE  Foretold'
  <1> DEFINE n == Len(stack)
  <1>1. WellFormed /\ stack \in Seq(Activation) /\ n \in Nat \ {0} /\ Top = stack[n]
    BY SafeFacts
  <1>2. /\ Len(stack') = n - 1 /\ n - 1 \in Nat \ {0} /\ Top' = stack[n - 1]
        /\ \A i \in 1..(n - 1) : stack'[i] = stack[i]
    BY <1>1, StackReturned
  <1>3. PICK comes \in [1..n -> Outcome] :
           /\ \A i \in 1..n : Whole(program, stack[i], comes[i])
           /\ \A i \in 1..(n - 1) : Awaits(program, stack[i], stack[i + 1], comes[i], comes[i + 1])
           /\ Heads(program, Top, answer, Now, comes[n])
    BY DEF Foretold
  <1> HIDE DEF n
  <1> DEFINE less == [i \in 1..(n - 1) |-> comes[i]]
  <1>4. /\ less \in [1..(n - 1) -> Outcome] /\ \A i \in 1..(n - 1) : less[i] = comes[i]
        /\ \A i \in 1..(n - 1) : i \in 1..n /\ comes[i] \in Outcome
        /\ \A i \in 1..(n - 1 - 1) : i \in 1..(n - 1) /\ i + 1 \in 1..(n - 1)
        /\ n - 1 \in 1..(n - 1) /\ n - 1 + 1 = n /\ comes[n] \in Outcome
    BY <1>1, <1>2, <1>3
  <1> HIDE DEF less
  <1>5. \A i \in 1..(n - 1) : Whole(program', stack'[i], less[i])
    BY <1>2, <1>3, <1>4
  <1>6. \A i \in 1..(n - 1 - 1) : Awaits(program', stack'[i], stack'[i + 1], less[i], less[i + 1])
    BY <1>2, <1>3, <1>4
  <1>7. Heads(program', Top', answer', Now', less[n - 1])
    <2>1. Awaits(program, Top', Top, comes[n - 1], comes[n])
      BY <1>1, <1>2, <1>3, <1>4
    <2>2. QED
      BY <1>3, <1>4, <2>1
  <1>8. QED
    BY <1>2, <1>4, <1>5, <1>6, <1>7 DEF Foretold

-----------------------------------------------------------------------------
(* The steps                                                               *)

\* The running activation, what it runs in, and what tasks come to.
LEMMA ForetoldFacts ==
    ASSUME LoopInv, SafeInv
    PROVE  /\ program \in Seq(Clause) /\ Now \in Context /\ Now = [store |-> store, goals |-> goals]
           /\ Now.store = store /\ Now.goals = goals
           /\ Meaning(program) \in [Task(program) -> Outcome]
           /\ Top \in Activation
           /\ Top.at = "predicate" =>
                 /\ Top \in [at : {"predicate"}, clause : Nat, x : Term, pc : Nat \ {0}, saved : Context]
                 /\ Top.clause \in 1..Len(program)
           /\ Top.at = "invoke" =>
                 Top \in [at : {"invoke"}, name : Names, argument : Term, next : Nat \ {0}, from : Context]
           /\ Top.at = "export" =>
                 Top \in [at : {"export"}, name : Names, argument : Values, next : Nat \ {0}, saved : Context]
           /\ Top.at = "continue" => Top \in [at : {"continue"}, turns : Nat]
  <1>1. program \in Seq(Clause) /\ Now \in Context /\ Top \in Activation
    BY SafeFacts DEF SafeInv, IsContext
  <1>2. Now = [store |-> store, goals |-> goals] /\ Now.store = store /\ Now.goals = goals
    BY DEF Now
  <1>3. Meaning(program) \in [Task(program) -> Outcome]
    BY <1>1, MeaningInSteps
  <1>4. Top.at = "predicate" => Top.clause \in 1..Len(program)
    <2>1. Top = stack[Len(stack)] /\ Len(stack) \in 1..Len(stack)
      BY SafeFacts
    <2>2. QED
      BY <2>1 DEF SafeInv, RunsClauses, Runs
  <1>5. QED
    BY <1>1, <1>2, <1>3, <1>4, ActivationFields

\* What the rest of the running predicate comes to.
LEMMA ExecutionMeans ==
    ASSUME LoopInv, SafeInv, Top.at = "predicate"
    PROVE  /\ ExecutionRule(program, Meaning(program), Now, Top.clause, Top.x, Top.pc)
           /\ Comes(program, Meaning(program), Executing(Now, Top.clause, Top.x, Top.pc)) =
                 Meaning(program)[Executing(Now, Top.clause, Top.x, Top.pc)]
  <1>1. /\ program \in Seq(Clause) /\ Now \in Context
        /\ Meaning(program) \in [Task(program) -> Outcome]
        /\ Top.clause \in 1..Len(program) /\ Top.x \in Term /\ Top.pc \in Nat \ {0}
    BY ForetoldFacts
  <1>2. Executing(Now, Top.clause, Top.x, Top.pc) \in Task(program)
    BY <1>1, Tasks
  <1>3. QED
    BY <1>1, <1>2, ExecutionMade, MeaningMade

\* The next statement.
LEMMA StepFacts ==
    ASSUME LoopInv, SafeInv, Top.at = "predicate"
    PROVE  /\ Step \in Activation /\ Alike(Step, Top) /\ Step.at = "predicate"
           /\ Step.clause = Top.clause /\ Step.x = Top.x /\ Step.pc = Top.pc + 1
           /\ Alike(Top, Top)
  <1>1. Top \in [at : {"predicate"}, clause : Nat, x : Term, pc : Nat \ {0}, saved : Context]
    BY ForetoldFacts
  <1>2. Step \in [at : {"predicate"}, clause : Nat, x : Term, pc : Nat \ {0}, saved : Context]
        /\ Step.clause = Top.clause /\ Step.x = Top.x /\ Step.pc = Top.pc + 1
    BY <1>1 DEF Step
  <1>3. QED
    BY <1>1, <1>2 DEF Activation, Alike

\* A statement is done.
LEMMA ProceedForetold ==
    ASSUME LoopInv, SafeInv, Foretold, Running("predicate"), Proceed, program' = program,
           \A o \in Outcome : Heads(program, Top, answer, Now, o) =>
              o = Meaning(program)[Executing(Now', Top.clause, Top.x, Top.pc + 1)]
    PROVE  Foretold'
  <1>1. Top.at = "predicate" /\ stack' = Caller \o <<Step>> /\ answer' = "none"
    BY DEF Running, Proceed
  <1>2. ASSUME NEW o \in Outcome, Heads(program, Top, answer, Now, o)
        PROVE  Heads(program, Step, answer', Now', o)
    BY <1>1, <1>2, StepFacts DEF Heads
  <1>3. QED
    BY <1>1, <1>2, StepFacts, ReplaceForetold

\* A predicate returns.
LEMMA PredicateReturnForetold ==
    ASSUME LoopInv, SafeInv, Foretold, Top.at = "predicate", NEW value \in {"true", "false"},
           Return(value), program' = program, value = "true" => Now' = Now,
           \A d \in Outcome : Heads(program, Top, answer, Now, d) =>
              d = IF value = "true" THEN Success(Now) ELSE Failure
    PROVE  Foretold'
  <1>1. stack' = Caller /\ answer' = value
    BY DEF Return
  <1>2. Top'.at \in {"invoke", "export"}
    BY <1>1, ReturnsTo
  <1>3. ASSUME NEW o \in Outcome, NEW d \in Outcome,
               Heads(program, Top, answer, Now, d), Awaits(program, Top', Top, o, d)
        PROVE  Heads(program, Top', answer', Now', o)
    <2>1. d = IF value = "true" THEN Success(Now) ELSE Failure
      BY <1>3
    <2>2. Top'.at = "invoke" => o = IF value = "true" THEN Success(Now) ELSE Remaining(program, Top')
      BY <1>3, <2>1, Outcomes DEF Awaits
    <2>3. QED
      BY <1>1, <1>2, <2>2 DEF Heads
  <1>4. QED
    BY <1>1, <1>3, ReturnForetold

\* A call of _DI_invoke or of _DI_continueSldResolution returns.
LEMMA CallReturnForetold ==
    ASSUME LoopInv, SafeInv, Foretold, Top.at \in {"invoke", "continue"},
           NEW value \in {"true", "false"}, Return(value), UNCHANGED <<program, store, goals>>,
           \A d \in Outcome : Heads(program, Top, answer, Now, d) =>
              d = IF value = "true" THEN Success(Now) ELSE Failure
    PROVE  Foretold'
  <1>1. stack' = Caller /\ answer' = value /\ Now' = Now
    BY DEF Return, Now
  <1>2. Top'.at \in {"predicate", "continue"}
    BY <1>1, ReturnsTo
  <1>3. ASSUME NEW o \in Outcome, NEW d \in Outcome,
               Heads(program, Top, answer, Now, d), Awaits(program, Top', Top, o, d)
        PROVE  Heads(program, Top', answer', Now', o)
    <2>1. d = IF value = "true" THEN Success(Now) ELSE Failure
      BY <1>3
    <2>2. Top'.at = "continue" => o = d
      BY <1>3 DEF Awaits
    <2>3. Top'.at = "predicate" => o = IF value = "true" THEN Resumed(program, Top', Now) ELSE Failure
      <3>1. Top'.at = "predicate" =>
               o = IF d.is = "success" THEN Resumed(program, Top', d.context) ELSE d
        BY <1>3 DEF Awaits
      <3>2. Failure.is # "success"
        BY DEF Failure
      <3>3. QED
        BY <2>1, <3>1, <3>2, Outcomes
    <2>4. QED
      BY <1>1, <1>2, <2>1, <2>2, <2>3 DEF Heads
  <1>4. QED
    BY <1>1, <1>3, ReturnForetold


\* A call of _DI_invoke from the state in which it runs.
LEMMA InvocationFacts ==
    ASSUME NEW p, NEW name \in Names, NEW a \in Term, NEW c \in Context
    PROVE  LET callee == Invocation(name, a, c) IN
           /\ callee \in Activation
           /\ \A o : o = Meaning(p)[Attempting(c, name, a, 1)] =>
                 Whole(p, callee, o) /\ \A d : Heads(p, callee, "none", d, o)
  <1> DEFINE callee == Invocation(name, a, c)
  <1>1. /\ callee.at = "invoke" /\ callee.from = c /\ callee.name = name /\ callee.argument = a
        /\ callee.next = 1 /\ callee \in Activation
    BY DEF Invocation, Activation
  <1> HIDE DEF callee
  <1>2. ASSUME NEW o, o = Meaning(p)[Attempting(c, name, a, 1)]
        PROVE  Whole(p, callee, o) /\ \A d : Heads(p, callee, "none", d, o)
    BY <1>1, <1>2 DEF Whole, Heads, Remaining
  <1>3. QED
    BY <1>1, <1>2 DEF callee

\* _DI_invoke or an exported function tries a predicate.
LEMMA EnterForetold ==
    ASSUME LoopInv, SafeInv, Foretold, Top.at \in {"invoke", "export"}, HasNext, answer # "true",
           NEW context, context = (IF Top.at = "invoke" THEN Top.from ELSE Top.saved),
           Enter(context, Top.argument)
    PROVE  Foretold'
  <1> DEFINE i       == First(Choices(program, Top.name, Top.next))
             caller  == [Top EXCEPT !.next = i + 1]
             unified == HeadUnified(context.store, program[i], Top.argument)
             x       == X(context.store, program[i])
             running == [at |-> "predicate", clause |-> i, x |-> x, pc |-> 1, saved |-> context]
             bound   == [store |-> unified, goals |-> context.goals]
             again   == Attempting(context, Top.name, Top.argument, i + 1)
             tried   == Executing(bound, i, x, 1)
             M       == Meaning(program)
  <1>1. /\ program \in Seq(Clause) /\ M \in [Task(program) -> Outcome]
        /\ Top.name \in Names /\ Top.argument \in Term /\ Top.next \in Nat \ {0}
        /\ context \in Context
    BY ForetoldFacts DEF Term
  <1>2. Choices(program, Top.name, Top.next) # {} /\ i = CHOOSE k \in Untried : \A j \in Untried : k <= j
    BY DEF HasNext, Untried, Choices, First
  <1>3. /\ program' = program /\ goals' = context.goals
        /\ IF unified = Failed
           THEN store' = context.store /\ stack' = Caller \o <<caller>> /\ answer' = "false"
           ELSE store' = unified /\ CallFrom(caller, running)
    BY <1>2 DEF Enter, Advance
  <1>4. AttemptRule(program, M, context, Top.name, Top.argument, Top.next)
    BY <1>1, AttemptMade
  <1>5. /\ i \in 1..Len(program) /\ again \in Task(program)
        /\ unified = Failed =>
              Comes(program, M, Attempting(context, Top.name, Top.argument, Top.next)) = M[again]
        /\ unified # Failed =>
              /\ tried \in Task(program)
              /\ Comes(program, M, Attempting(context, Top.name, Top.argument, Top.next)) =
                    IF M[tried] = Failure THEN M[again] ELSE M[tried]
    BY <1>2, <1>4 DEF AttemptRule
  <1>6. Comes(program, M, Attempting(context, Top.name, Top.argument, Top.next)) =
           M[Attempting(context, Top.name, Top.argument, Top.next)]
    <2>1. Attempting(context, Top.name, Top.argument, Top.next) \in Task(program)
      BY <1>1, Tasks
    <2>2. QED
      BY <1>1, <2>1, MeaningMade
  <1>7. i + 1 \in Nat \ {0} /\ i \in Nat
    BY <1>5
  <1>8. /\ caller \in Activation /\ Alike(caller, Top) /\ caller.at = Top.at
        /\ Top.at = "invoke" => Remaining(program, caller) = M[again] /\ context = Top.from
    <2> HIDE DEF i, M
    <2>1. CASE Top.at = "invoke"
      <3>1. Top \in [at : {"invoke"}, name : Names, argument : Term, next : Nat \ {0}, from : Context]
        BY <2>1, ForetoldFacts
      <3>2. /\ caller \in [at : {"invoke"}, name : Names, argument : Term, next : Nat \ {0}, from : Context]
            /\ caller.from = Top.from /\ caller.argument = Top.argument /\ caller.name = Top.name
            /\ caller.at = Top.at /\ caller.next = i + 1
        BY <1>7, <3>1
      <3> HIDE DEF caller
      <3>3. Remaining(program, caller) = M[again] /\ context = Top.from
        BY <2>1, <3>2 DEF Remaining, M
      <3>4. QED
        BY <2>1, <3>2, <3>3 DEF Activation, Alike
    <2>2. CASE Top.at = "export"
      <3>1. Top \in [at : {"export"}, name : Names, argument : Values, next : Nat \ {0}, saved : Context]
        BY <2>2, ForetoldFacts
      <3>2. /\ caller \in [at : {"export"}, name : Names, argument : Values, next : Nat \ {0}, saved : Context]
            /\ caller.at = Top.at
        BY <1>7, <3>1
      <3> HIDE DEF caller
      <3>3. QED
        BY <2>2, <3>2 DEF Activation, Alike
    <2>3. QED
      BY <2>1, <2>2
  <1>9. \A o : Top.at = "invoke" /\ Heads(program, Top, answer, Now, o) =>
           o = M[Attempting(context, Top.name, Top.argument, Top.next)]
    BY <1>8 DEF Heads, Remaining
  <1> HIDE DEF i, caller, M
  <1>10. CASE unified = Failed
    <2>1. ASSUME NEW o \in Outcome, Heads(program, Top, answer, Now, o)
          PROVE  Heads(program, caller, answer', Now', o)
      <3>1. Top.at = "invoke" => o = Remaining(program, caller)
        BY <1>5, <1>6, <1>8, <1>9, <1>10, <2>1
      <3>2. QED
        BY <1>3, <1>8, <1>10, <3>1 DEF Heads
    <2>2. QED
      BY <1>3, <1>8, <1>10, <2>1, ReplaceForetold
  <1>11. CASE unified # Failed
    <2> HIDE DEF unified, x
    <2>1. /\ running.at = "predicate" /\ running.clause = i /\ running.x = x /\ running.pc = 1
          /\ Now' = bound /\ CallFrom(caller, running)
      BY <1>3, <1>11 DEF Now
    <2>2. running \in Activation
      <3>1. x \in Term
        <4>1. program[i] \in Clause /\ context.store \in Stored
          BY <1>1, <1>5, Contexts
        <4>2. QED
          BY <1>1, <4>1, HeadStored DEF x
      <3>2. QED
        BY <1>1, <1>7, <3>1 DEF Activation
    <2> HIDE DEF running, bound, tried, again
    <2>3. ASSUME NEW o \in Outcome, Heads(program, Top, answer, Now, o)
          PROVE  \E d \in Outcome : /\ Whole(program, running, d)
                                    /\ Awaits(program, caller, running, o, d)
                                    /\ Heads(program, running, "none", Now', d)
      <3>1. M[tried] \in Outcome
        BY <1>1, <1>5, <1>11
      <3>2. Top.at = "invoke" => o = IF M[tried] = Failure THEN Remaining(program, caller) ELSE M[tried]
        BY <1>5, <1>6, <1>8, <1>9, <1>11, <2>3
      <3>3. Awaits(program, caller, running, o, M[tried])
        BY <1>8, <3>2 DEF Awaits
      <3>4. Heads(program, running, "none", Now', M[tried])
        BY <2>1 DEF Heads, tried, M
      <3>5. Whole(program, running, M[tried])
        BY <2>1 DEF Whole
      <3>6. QED
        BY <3>1, <3>3, <3>4, <3>5
    <2>4. QED
      BY <1>3, <1>8, <2>1, <2>2, <2>3, CallForetold
  <1>12. QED
    BY <1>10, <1>11


\* The next goal is called.
LEMMA GoalForetold ==
    ASSUME LoopInv, SafeInv, Foretold, NextGoal
    PROVE  Foretold'
  <1> DEFINE context == [store |-> store, goals |-> Tail(goals)]
             top     == [Top EXCEPT !.turns = @ + 1]
             callee  == Invocation(Head(goals).name, Head(goals).argument, context)
             M       == Meaning(program)
             first   == Attempting(context, Head(goals).name, Head(goals).argument, 1)
  <1>1. /\ Top.at = "continue" /\ answer # "false" /\ goals # <<>> /\ answer # "aborted"
        /\ goals' = context.goals /\ CallFrom(top, callee) /\ UNCHANGED <<program, store>>
    BY DEF NextGoal, Running
  <1>2. answer = "none"
    BY <1>1 DEF LoopInv, SuccessSolvesAll, Answers
  <1>3. top \in Activation /\ Alike(top, Top) /\ top.at = "continue"
    <2>1. Top \in [at : {"continue"}, turns : Nat]
      BY <1>1, ForetoldFacts
    <2>2. top \in [at : {"continue"}, turns : Nat]
      BY <2>1
    <2>3. QED
      BY <1>1, <2>2 DEF Activation, Alike
  <1>4. /\ program \in Seq(Clause) /\ Now \in Context /\ Now.store = store /\ Now.goals = goals
        /\ M \in [Task(program) -> Outcome]
    BY ForetoldFacts
  <1>5. context \in Context /\ Head(goals).name \in Names /\ Head(goals).argument \in Term
    <2>1. goals \in Seq(Goal) /\ store \in Stored
      BY <1>4, Contexts
    <2>2. Head(goals) \in Goal /\ Tail(goals) \in Seq(Goal)
      BY <1>1, <2>1
    <2>3. QED
      BY <2>1, <2>2 DEF Goal, Context, Stored
  <1>6. M[Finishing(Now)] = M[first] /\ first \in Task(program)
    <2>1. FinishRule(program, M, Now) /\ Finishing(Now) \in Task(program)
      BY <1>4, FinishMade, Tasks
    <2>2. Comes(program, M, Finishing(Now)) = M[Finishing(Now)]
      BY <1>4, <2>1, MeaningMade
    <2>3. first \in Task(program) /\ Comes(program, M, Finishing(Now)) = M[first]
      BY <1>1, <1>4, <2>1 DEF FinishRule
    <2>4. QED
      BY <2>2, <2>3
  <1>7. /\ callee \in Activation
        /\ Whole(program, callee, M[first]) /\ \A d : Heads(program, callee, "none", d, M[first])
    BY <1>5, InvocationFacts
  <1> HIDE DEF top, callee, first, M
  <1>8. ASSUME NEW o \in Outcome, Heads(program, Top, answer, Now, o)
        PROVE  \E d \in Outcome : /\ Whole(program, callee, d)
                                  /\ Awaits(program, top, callee, o, d)
                                  /\ Heads(program, callee, "none", Now', d)
    <2>1. o = M[first]
      BY <1>1, <1>2, <1>6, <1>8 DEF Heads, M
    <2>2. Awaits(program, top, callee, o, o)
      BY <1>3 DEF Awaits
    <2>3. QED
      BY <1>7, <2>1, <2>2
  <1>9. QED
    BY <1>1, <1>3, <1>7, <1>8, CallForetold

\* The body of a predicate calls _DI_invoke.
LEMMA CallMadeForetold ==
    ASSUME LoopInv, SafeInv, Foretold, Call
    PROVE  Foretold'
  <1> DEFINE callee == Invocation(Body[Top.pc].name, Top.x, Now)
             called == Attempting(Now, Body[Top.pc].name, Top.x, 1)
             M      == Meaning(program)
  <1>1. /\ Top.at = "predicate" /\ answer = "none" /\ Top.pc <= Len(Body) /\ Body[Top.pc].op = "call"
        /\ CallFrom(Top, callee) /\ UNCHANGED <<program, store, goals>>
    BY DEF Call, Statements, Running
  <1>2. /\ program \in Seq(Clause) /\ Now \in Context /\ Top \in Activation
        /\ M \in [Task(program) -> Outcome] /\ Top.x \in Term
    BY <1>1, ForetoldFacts
  <1>3. /\ called \in Task(program) /\ M[called] \in Outcome
        /\ M[Executing(Now, Top.clause, Top.x, Top.pc)] =
              IF M[called].is = "success"
              THEN M[Executing(M[called].context, Top.clause, Top.x, Top.pc + 1)]
              ELSE M[called]
    BY <1>1, ExecutionMeans DEF ExecutionRule, Body
  <1>4. Body[Top.pc].name \in Names
    <2>1. Body \in Seq(Statement)
      BY <1>1, StatementsTyped
    <2>2. Top.pc \in 1..Len(Body)
      <3>1. Top.pc \in Nat \ {0} /\ Len(Body) \in Nat
        BY <1>1, <2>1, ForetoldFacts
      <3>2. QED
        BY <1>1, <3>1
    <2>3. Body[Top.pc] \in Statement
      BY <2>1, <2>2
    <2>4. QED
      BY <1>1, <2>3 DEF Statement
  <1>5. /\ callee \in Activation
        /\ Whole(program, callee, M[called]) /\ \A d : Heads(program, callee, "none", d, M[called])
    BY <1>2, <1>4, InvocationFacts
  <1>6. callee.at = "invoke"
    BY DEF Invocation
  <1> HIDE DEF callee, called, M
  <1>7. ASSUME NEW o \in Outcome, Heads(program, Top, answer, Now, o)
        PROVE  Awaits(program, Top, callee, o, M[called])
    <2>1. o = IF M[called].is = "success" THEN Resumed(program, Top, M[called].context) ELSE M[called]
      BY <1>1, <1>3, <1>7 DEF Heads, Resumed, Body, M
    <2>2. QED
      BY <1>1, <1>6, <2>1 DEF Awaits
  <1>8. Alike(Top, Top)
    BY DEF Alike
  <1>9. QED
    BY <1>1, <1>2, <1>3, <1>5, <1>7, <1>8, CallForetold

\* The footer of a predicate calls _DI_continueSldResolution.
LEMMA FooterForetold ==
    ASSUME LoopInv, SafeInv, Foretold, Footer
    PROVE  Foretold'
  <1> DEFINE callee == [at |-> "continue", turns |-> 0]
             M      == Meaning(program)
  <1>1. /\ Top.at = "predicate" /\ answer = "none" /\ Top.pc > Len(Body)
        /\ CallFrom(Top, callee) /\ UNCHANGED <<program, store, goals>>
    BY DEF Footer, BodyIsDone, Running
  <1>2. Now' = Now /\ Top \in Activation /\ M \in [Task(program) -> Outcome]
    BY <1>1, ForetoldFacts DEF Now
  <1>3. /\ Finishing(Now) \in Task(program)
        /\ M[Executing(Now, Top.clause, Top.x, Top.pc)] = M[Finishing(Now)]
    BY <1>1, ExecutionMeans DEF ExecutionRule, Body
  <1>4. callee \in Activation /\ callee.at = "continue"
    BY DEF Activation
  <1>5. ~ (Top.pc <= Len(program[Top.clause].body))
    <2>1. Top.pc \in Nat /\ Len(Body) \in Nat
      BY <1>1, ForetoldFacts, StatementsTyped
    <2>2. QED
      BY <1>1, <2>1 DEF Body
  <1> HIDE DEF callee, M
  <1>6. ASSUME NEW o \in Outcome, Heads(program, Top, answer, Now, o)
        PROVE  /\ Whole(program, callee, o) /\ Awaits(program, Top, callee, o, o)
               /\ Heads(program, callee, "none", Now', o)
    <2>1. o = M[Finishing(Now)]
      BY <1>1, <1>3, <1>6 DEF Heads, M
    <2>2. o.is = "success" => o = Resumed(program, Top, o.context)
      BY <1>5, Outcomes DEF Resumed
    <2>3. QED
      BY <1>1, <1>2, <1>4, <2>1, <2>2 DEF Whole, Awaits, Heads, M
  <1>7. Alike(Top, Top)
    BY DEF Alike
  <1>8. QED
    BY <1>1, <1>2, <1>4, <1>6, <1>7, CallForetold

\* The body of an extern "C" predicate calls C code.
LEMMA NativeForetold ==
    ASSUME LoopInv, SafeInv, Foretold, CallNative
    PROVE  Foretold'
  <1> DEFINE callee == Native(IF Natives < MaxNative THEN 1 ELSE 0)
             M      == Meaning(program)
  <1>1. /\ Top.at = "predicate" /\ answer = "none" /\ Top.pc <= Len(Body) /\ Body[Top.pc].op = "native"
        /\ CallFrom(Step, callee) /\ UNCHANGED <<program, store, goals>>
    BY DEF CallNative, Statements, Running
  <1>2. Now \in Context /\ M \in [Task(program) -> Outcome]
    BY ForetoldFacts
  <1>3. M[Executing(Now, Top.clause, Top.x, Top.pc)] = M[Executing(Now, Top.clause, Top.x, Top.pc + 1)]
    BY <1>1, ExecutionMeans DEF ExecutionRule, Body
  <1>4. callee \in Activation /\ callee.at = "native" /\ callee.found = Now
    BY <1>2 DEF Activation, Native
  <1> HIDE DEF callee, M
  <1>5. ASSUME NEW o \in Outcome, Heads(program, Top, answer, Now, o)
        PROVE  /\ Whole(program, callee, o) /\ Awaits(program, Step, callee, o, o)
               /\ Heads(program, callee, "none", Now', o)
    <2>1. o = M[Executing(Now, Top.clause, Top.x, Top.pc)]
      BY <1>1, <1>5 DEF Heads, M
    <2>2. Awaits(program, Step, callee, o, o)
      BY <1>1, <1>3, <1>4, <2>1, StepFacts DEF Awaits, M
    <2>3. QED
      BY <1>4, <2>2 DEF Whole, Heads
  <1>6. QED
    BY <1>1, <1>4, <1>5, StepFacts, CallForetold


\* When no clause is left a call fails.
LEMMA NoneRemaining ==
    ASSUME LoopInv, SafeInv, Top.at = "invoke", ~HasNext
    PROVE  Remaining(program, Top) = Failure
  <1> DEFINE task == Attempting(Top.from, Top.name, Top.argument, Top.next)
  <1>1. /\ program \in Seq(Clause) /\ Top.from \in Context /\ Top.name \in Names
        /\ Top.argument \in Term /\ Top.next \in Nat \ {0}
    BY ForetoldFacts
  <1>2. Choices(program, Top.name, Top.next) = {}
    BY DEF HasNext, Untried, Choices
  <1>3. AttemptRule(program, Meaning(program), Top.from, Top.name, Top.argument, Top.next)
    BY <1>1, AttemptMade
  <1>4. Comes(program, Meaning(program), task) = Failure
    BY <1>2, <1>3 DEF AttemptRule
  <1>5. task \in Task(program)
    BY <1>1, Tasks
  <1>6. QED
    BY <1>1, <1>4, <1>5, MeaningMade DEF Remaining

\* Every step keeps the invariant.
LEMMA NextForetold == LoopInv /\ SafeInv /\ Foretold /\ [Next]_vars => Foretold'
  <1> SUFFICES ASSUME LoopInv, SafeInv, Foretold, [Next]_vars PROVE Foretold'
    OBVIOUS
  <1> DEFINE M == Meaning(program)
  <1>0. /\ Top \in Activation /\ M \in [Task(program) -> Outcome] /\ Now \in Context
        /\ Now = [store |-> store, goals |-> goals] /\ Now.store = store /\ Now.goals = goals
    BY ForetoldFacts
  <1>1. CASE CallExport
    <2>1. PICK name \in Exported, argument \in Values :
             CallFrom([Top EXCEPT !.calls = @ - 1],
                      [at |-> "export", name |-> name, argument |-> argument, next |-> 1,
                       saved |-> Now])
      BY <1>1 DEF CallExport
    <2> DEFINE top    == [Top EXCEPT !.calls = @ - 1]
               callee == [at |-> "export", name |-> name, argument |-> argument, next |-> 1,
                          saved |-> Now]
    <2>2. Top.at = "native" /\ Top.calls > 0 /\ program' = program
      BY <1>1 DEF CallExport, Running
    <2>3. top \in Activation /\ Alike(top, Top) /\ top.at = "native"
      <3>1. Top \in [at : {"native"}, calls : Nat, found : Context]
        BY <1>0, <2>2, ActivationFields
      <3>2. top \in [at : {"native"}, calls : Nat, found : Context] /\ top.found = Top.found
        BY <2>2, <3>1
      <3>3. QED
        BY <2>2, <3>2 DEF Activation, Alike
    <2>4. callee \in Activation /\ callee.at = "export"
      BY <1>0, ConstantsAssumption DEF Activation
    <2>5. CallFrom(top, callee)
      BY <2>1
    <2> HIDE DEF top, callee
    <2>6. \A o : /\ Whole(program, callee, o) /\ Awaits(program, top, callee, o, o)
                 /\ Heads(program, callee, "none", Now', o)
      BY <2>3, <2>4 DEF Whole, Awaits, Heads
    <2>7. QED
      BY <2>2, <2>3, <2>4, <2>5, <2>6, CallForetold
  <1>2. CASE ReturnFromNative
    <2>1. Top.at = "native" /\ Len(stack) > 1 /\ Return("none") /\ UNCHANGED <<program, store, goals>>
      BY <1>2 DEF ReturnFromNative, Running
    <2>2. Top'.at = "predicate" /\ Now' = Now /\ stack' = Caller /\ answer' = "none"
      BY <2>1, ReturnsTo DEF Return, Now
    <2>3. Top.found = Now
      BY <2>1 DEF SafeInv, Restores, ContextOf
    <2>4. ASSUME NEW o \in Outcome, NEW d \in Outcome, Awaits(program, Top', Top, o, d)
          PROVE  Heads(program, Top', answer', Now', o)
      BY <2>1, <2>2, <2>3, <2>4 DEF Awaits, Heads
    <2>5. QED
      BY <2>1, <2>2, <2>4, ReturnForetold
  <1>3. CASE ExportTries
    BY <1>3, EnterForetold DEF ExportTries, Running
  <1>4. CASE ExportReturns
    <2>1. Top.at = "export" /\ stack' = Caller /\ program' = program /\ answer' = "none"
      BY <1>4 DEF ExportReturns, Running, Return
    <2>2. Top'.at = "native"
      <3>1. Top.at \in MayCall(Top'.at) /\ Top'.at \in Kinds
        BY <2>1, Returned DEF LoopInv, IsActivation
      <3>2. QED
        BY <2>1, <3>1 DEF MayCall, Kinds
    <2>3. \A o : Heads(program, Top', answer', Now', o)
      BY <2>2 DEF Heads
    <2>4. QED
      BY <2>1, <2>3, ReturnForetold
  <1>5. CASE ExportAborts
    <2>1. Top.at = "export" /\ UNCHANGED <<program, store, goals, stack>>
      BY <1>5 DEF ExportAborts, Running
    <2>2. Top' = Top /\ \A value, c, o : Heads(program, Top, value, c, o)
      BY <2>1 DEF Heads, Top
    <2>3. QED
      BY <2>1, <2>2 DEF Foretold
  <1>6. CASE InvokeTries
    <2>1. Top.at = "invoke" /\ answer # "true" /\ HasNext /\ Enter(Now, Top.argument)
      BY <1>6 DEF InvokeTries, Running
    <2>2. Now = Top.from
      BY <2>1 DEF SafeInv, Restores, Restoring, ContextOf
    <2>3. QED
      BY <2>1, <2>2, EnterForetold
  <1>7. CASE InvokeReturns
    <2>1. Top.at = "invoke" /\ UNCHANGED <<program, store, goals>>
      BY <1>7 DEF InvokeReturns, Running
    <2>2. CASE answer = "true" /\ Return("true")
      <3>1. \A d : Heads(program, Top, answer, Now, d) => d = Success(Now)
        BY <2>1, <2>2 DEF Heads
      <3>2. QED
        BY <2>1, <2>2, <3>1, CallReturnForetold
    <2>3. CASE answer # "true" /\ ~HasNext /\ Return("false")
      <3>1. Remaining(program, Top) = Failure
        BY <2>1, <2>3, NoneRemaining
      <3>2. \A d : Heads(program, Top, answer, Now, d) => d = Failure
        BY <2>1, <2>3, <3>1 DEF Heads
      <3>3. QED
        BY <2>1, <2>3, <3>2, CallReturnForetold
    <2>4. QED
      BY <1>7, <2>2, <2>3 DEF InvokeReturns
  <1>8. CASE AddGoal
    <2> DEFINE added == [store |-> Now.store,
                         goals |-> Append(Now.goals, [name |-> Body[Top.pc].name, argument |-> Top.x])]
    <2>1. /\ Running("predicate") /\ Top.at = "predicate" /\ answer = "none" /\ Proceed
          /\ Top.pc <= Len(Body) /\ Body[Top.pc].op = "goal" /\ UNCHANGED <<program, store>>
          /\ goals' = Append(goals, [name |-> Body[Top.pc].name, argument |-> Top.x])
      BY <1>8 DEF AddGoal, Statements, Running, AtBack
    <2>2. M[Executing(Now, Top.clause, Top.x, Top.pc)] = M[Executing(added, Top.clause, Top.x, Top.pc + 1)]
      BY <2>1, ExecutionMeans DEF ExecutionRule, Body
    <2>3. Now' = added
      BY <1>0, <2>1 DEF Now
    <2> HIDE DEF added
    <2>4. \A o : Heads(program, Top, answer, Now, o) =>
             o = M[Executing(Now', Top.clause, Top.x, Top.pc + 1)]
      BY <2>1, <2>2, <2>3 DEF Heads
    <2>5. QED
      BY <2>1, <2>4, ProceedForetold
  <1>9. CASE Call
    BY <1>9, CallMadeForetold
  <1>10. CASE Unify
    <2> DEFINE unified == Unified(store, Top.x, Body[Top.pc].value)
               bound   == [store |-> unified, goals |-> goals]
    <2>1. /\ Running("predicate") /\ Top.at = "predicate" /\ answer = "none"
          /\ Top.pc <= Len(Body) /\ Body[Top.pc].op = "unify"
          /\ IF unified = Failed THEN Fail
             ELSE store' = unified /\ Proceed /\ UNCHANGED <<program, goals>>
      BY <1>10 DEF Unify, Statements, Running
    <2>2. M[Executing(Now, Top.clause, Top.x, Top.pc)] =
             IF unified = Failed THEN Failure
             ELSE M[Executing(bound, Top.clause, Top.x, Top.pc + 1)]
      BY <1>0, <2>1, ExecutionMeans DEF ExecutionRule, Body
    <2>3. \A o : Heads(program, Top, answer, Now, o) =>
             o = IF unified = Failed THEN Failure
                 ELSE M[Executing(bound, Top.clause, Top.x, Top.pc + 1)]
      BY <2>1, <2>2 DEF Heads
    <2>4. CASE unified = Failed
      <3>1. Return("false") /\ program' = program
        BY <2>1, <2>4 DEF Fail
      <3>2. QED
        BY <2>1, <2>3, <2>4, <3>1, PredicateReturnForetold
    <2>5. CASE unified # Failed
      <3>1. Now' = bound /\ Proceed /\ program' = program
        BY <2>1, <2>5 DEF Now
      <3> HIDE DEF unified, bound
      <3>2. QED
        BY <2>1, <2>3, <2>5, <3>1, ProceedForetold
    <2>6. QED
      BY <2>4, <2>5
  <1>11. CASE CallNative
    BY <1>11, NativeForetold
  <1>12. CASE Footer
    BY <1>12, FooterForetold
  <1>13. CASE Succeeded
    <2>1. /\ Running("predicate") /\ Top.at = "predicate" /\ answer = "true"
          /\ UNCHANGED <<program, store, goals>> /\ Now' = Now
      BY <1>13 DEF Succeeded, Running, Now
    <2>2. \A o : Heads(program, Top, answer, Now, o) => o = Resumed(program, Top, Now)
      BY <2>1 DEF Heads
    <2>3. CASE Top.pc <= Len(Body)
      <3>1. Proceed
        BY <1>13, <2>3 DEF Succeeded
      <3>2. Resumed(program, Top, Now) = M[Executing(Now, Top.clause, Top.x, Top.pc + 1)]
        BY <2>3 DEF Resumed, Body
      <3>3. QED
        BY <2>1, <2>2, <3>1, <3>2, ProceedForetold
    <2>4. CASE ~ (Top.pc <= Len(Body))
      <3>1. Return("true")
        BY <1>13, <2>4 DEF Succeeded
      <3>2. Resumed(program, Top, Now) = Success(Now)
        BY <2>4 DEF Resumed, Body
      <3>3. QED
        BY <2>1, <2>2, <3>1, <3>2, PredicateReturnForetold
    <2>5. QED
      BY <2>3, <2>4
  <1>14. CASE HasFailed
    <2>1. Top.at = "predicate" /\ answer = "false" /\ Return("false") /\ program' = program
      BY <1>14 DEF HasFailed, Running, Fail
    <2>2. \A o : Heads(program, Top, answer, Now, o) => o = Failure
      BY <2>1 DEF Heads
    <2>3. QED
      BY <2>1, <2>2, PredicateReturnForetold
  <1>15. CASE NextGoal
    BY <1>15, GoalForetold
  <1>16. CASE ContinueReturns
    <2>1. Top.at = "continue" /\ UNCHANGED <<program, store, goals>> /\ answer # "aborted"
      BY <1>16 DEF ContinueReturns, Running
    <2>2. CASE answer # "false" /\ goals = <<>> /\ Return("true")
      <3>1. M[Finishing(Now)] = Success(Now)
        <4>1. FinishRule(program, M, Now) /\ Finishing(Now) \in Task(program)
          BY <1>0, FinishMade, Tasks
        <4>2. Comes(program, M, Finishing(Now)) = M[Finishing(Now)]
          BY <4>1, ForetoldFacts, MeaningMade
        <4>3. QED
          BY <1>0, <2>2, <4>1, <4>2 DEF FinishRule
      <3>2. answer \in {"none", "true"}
        BY <2>1, <2>2 DEF LoopInv, Answers
      <3>3. \A d : Heads(program, Top, answer, Now, d) => d = Success(Now)
        BY <2>1, <3>1, <3>2 DEF Heads
      <3>4. QED
        BY <2>1, <2>2, <3>3, CallReturnForetold
    <2>3. CASE answer = "false" /\ Return("false")
      <3>1. \A d : Heads(program, Top, answer, Now, d) => d = Failure
        BY <2>1, <2>3 DEF Heads
      <3>2. QED
        BY <2>1, <2>3, <3>1, CallReturnForetold
    <2>4. QED
      BY <1>16, <2>2, <2>3 DEF ContinueReturns
  <1>17. CASE UNCHANGED vars
    BY <1>17 DEF vars, Foretold, Top, Now
  <1>18. QED
    BY <1>1, <1>2, <1>3, <1>4, <1>5, <1>6, <1>7, <1>8, <1>9, <1>10, <1>11, <1>12, <1>13,
       <1>14, <1>15, <1>16, <1>17 DEF Next

\* It holds at first: C code runs.
LEMMA InitForetold == Init => Foretold
  <1> SUFFICES ASSUME Init PROVE Foretold
    OBVIOUS
  <1>1. stack = <<Native(1)>> /\ Native(1).at = "native"
    BY DEF Init, Native
  <1>2. Len(stack) = 1 /\ stack[1] = Native(1) /\ Top = Native(1)
    BY <1>1 DEF Top
  <1> DEFINE comes == [i \in 1..1 |-> Failure]
  <1>3. comes \in [1..Len(stack) -> Outcome]
    BY <1>2, Outcomes
  <1>4. \A o : Whole(program, stack[1], o) /\ Heads(program, Top, answer, Now, o)
    BY <1>1, <1>2 DEF Whole, Heads
  <1> HIDE DEF comes
  <1>5. \A i \in 1..Len(stack) : Whole(program, stack[i], comes[i])
    BY <1>2, <1>4
  <1>6. \A i \in 1..(Len(stack) - 1) : Awaits(program, stack[i], stack[i + 1], comes[i], comes[i + 1])
    BY <1>2
  <1>7. QED
    BY <1>3, <1>4, <1>5, <1>6 DEF Foretold

\* What a call of _DI_invoke comes to is what it has come to when it answers.
LEMMA AnswersForetold ==
    ASSUME LoopInv, SafeInv, Foretold, Running("invoke")
    PROVE  /\ CallMade \in Task(program)
           /\ answer = "true" => Meaning(program)[CallMade] = Success(Now)
           /\ answer # "true" /\ ~HasNext => Meaning(program)[CallMade] = Failure
  <1>1. PICK comes \in [1..Len(stack) -> Outcome] :
           /\ \A i \in 1..Len(stack) : Whole(program, stack[i], comes[i])
           /\ Heads(program, Top, answer, Now, comes[Len(stack)])
    BY DEF Foretold
  <1>2. Top.at = "invoke" /\ Top = stack[Len(stack)] /\ Len(stack) \in 1..Len(stack)
    BY SafeFacts DEF Running
  <1>3. comes[Len(stack)] = Meaning(program)[CallMade]
    BY <1>1, <1>2 DEF Whole, CallMade
  <1>4. CallMade \in Task(program)
    <2>1. Top.from \in Context /\ Top.name \in Names /\ Top.argument \in Term
      BY <1>2, ForetoldFacts
    <2>2. QED
      BY <2>1, Tasks DEF CallMade
  <1>5. answer # "true" /\ ~HasNext => Remaining(program, Top) = Failure
    BY <1>2, NoneRemaining
  <1>6. QED
    BY <1>1, <1>2, <1>3, <1>4, <1>5 DEF Heads

\* The invariant holds in every run of every program.
LEMMA AlwaysForetold == Spec => [](LoopInv /\ SafeInv /\ Foretold)
  BY InitLoopInv, NextLoopInv, InitSafe, NextSafe, InitForetold, NextForetold, PTL DEF Spec

\* When a call of _DI_invoke answers, the procedure of the thesis ends for it, with
\* the same answer and, if that is success, the same bindings and goals.
EndsAsProcedure ==
    Running("invoke") =>
        /\ answer = "true" => \E n \in Nat : ComesTo(program, CallMade, n) = Success(Now)
        /\ answer # "true" /\ ~HasNext => \E n \in Nat : ComesTo(program, CallMade, n) = Failure

\* For every program, _DI_invoke, its iterators and its rollbacks find the first
\* success, or the failure, that the procedure finds for the call, whatever the goals,
\* the calls and the C code between.
THEOREM AnswersAreOfProcedure == Spec => []EndsAsProcedure
  <1>1. LoopInv /\ SafeInv /\ Foretold => EndsAsProcedure
    <2> SUFFICES ASSUME LoopInv, SafeInv, Foretold, Running("invoke")
                 PROVE  /\ answer = "true" =>
                              \E n \in Nat : ComesTo(program, CallMade, n) = Success(Now)
                        /\ answer # "true" /\ ~HasNext =>
                              \E n \in Nat : ComesTo(program, CallMade, n) = Failure
      BY DEF EndsAsProcedure
    <2>1. PICK n \in Nat : In(program, n)[CallMade] = Meaning(program)[CallMade]
      BY AnswersForetold, ForetoldFacts, MeaningInSteps
    <2>2. ComesTo(program, CallMade, n) = Meaning(program)[CallMade]
      BY <2>1, AnswersForetold DEF In
    <2>3. QED
      BY <2>2, AnswersForetold
  <1>2. QED
    BY <1>1, AlwaysForetold, PTL

\* So a call agrees with the procedure however far that is followed.
THEOREM ProcedureIsFollowed == Spec => []FollowsProcedure
  <1>1. LoopInv /\ SafeInv /\ Foretold => FollowsProcedure
    <2> SUFFICES ASSUME LoopInv, SafeInv, Foretold, Running("invoke")
                 PROVE  /\ answer = "true" => Agrees(Success(Now))
                        /\ answer # "true" /\ ~HasNext => Agrees(Failure)
      BY DEF FollowsProcedure
    <2>1. Knows(In(program, Depth), Meaning(program), CallMade)
      BY DepthAssumption, AnswersForetold, ForetoldFacts, MeaningInSteps
    <2>2. ComesTo(program, CallMade, Depth) = In(program, Depth)[CallMade]
      BY AnswersForetold DEF In
    <2>3. QED
      BY <2>1, <2>2, AnswersForetold DEF Agrees, Knows
  <1>2. QED
    BY <1>1, AlwaysForetold, PTL

=============================================================================
