------------------------------ MODULE Resolution ------------------------------
(***************************************************************************)
(* SLD resolution as the runtime library and the generated code carry it   *)
(* out together: C code calls an exported function, which tries the        *)
(* predicates of its name; a predicate unifies its head with the call,     *)
(* runs its body, and in its footer has _DI_continueSldResolution resolve  *)
(* the goals that are pending, its callers' ones included; _DI_invoke      *)
(* tries the predicates for a goal or for an explicit call in the order of *)
(* the program; the body of an extern "C" predicate calls C code, which    *)
(* may call an exported function again.                                    *)
(*                                                                         *)
(* A rollback to a marker is the return to the state of the marker: that   *)
(* is what SldLog implements (theorem LogImplementsBacktracking).  A term  *)
(* is a value or the address of a variable, a call has one argument (or    *)
(* result, which is unified like one).                                     *)
(***************************************************************************)
EXTENDS Integers, Sequences, FiniteSets

CONSTANTS
    Names,      \* names of predicates
    Exported,   \* those that C code calls
    Values,     \* values of terms
    Unset,      \* a variable that is not bound
    Failed,     \* the outcome of a unification that fails
    Programs,   \* the programs, sequences of clauses
    MaxNative   \* depth to which C code and predicates call each other

\* A predicate definition.  Its parameter is a value, its variable X, or
\* another variable, X being one that first occurs in the body.
Statement == [op : {"goal", "call"}, name : Names]
        \cup [op : {"unify"}, value : Values]
        \cup [op : {"native"}]
Clause == [name : Names, param : Values \cup {"X", "other"}, body : Seq(Statement)]

ASSUME ConstantsAssumption ==
    /\ Exported \subseteq Names
    /\ Values \cap Nat = {} /\ Unset \notin Values \cup Nat
    /\ Failed \notin Seq(Values \cup Nat \cup {Unset})
    /\ Programs \subseteq Seq(Clause)
    /\ MaxNative \in Nat

VARIABLES
    program,    \* what was compiled
    store,      \* the variables: a value, the address of another one, or Unset
    goals,      \* sldGoalList
    stack,      \* the activations, the running one last
    answer      \* what the last call returned: "none" if that was looked at

vars == <<program, store, goals, stack, answer>>

Now     == [store |-> store, goals |-> goals]
Top     == stack[Len(stack)]
Caller  == SubSeq(stack, 1, Len(stack) - 1)
Running(at) == stack # <<>> /\ answer # "aborted" /\ Top.at = at

(***************************************************************************)
(* Terms                                                                   *)
(***************************************************************************)
Term == Values \cup Nat

\* followSetVars
Bound(s, term) == term \in DOMAIN s /\ s[term] # Unset
Follow(s, term) ==
    LET follows[n \in 0..Len(s)] ==
            [t \in Term |-> IF n > 0 /\ Bound(s, t) THEN follows[n - 1][s[t]] ELSE t]
    IN  follows[Len(s)][term]

\* _DI_unify on such terms: the bindings after it, or Failed.
Unified(s, lhs, rhs) ==
    LET l == Follow(s, lhs)
        r == Follow(s, rhs)
    IN  IF l = r THEN s
        ELSE IF l \in DOMAIN s THEN [s EXCEPT ![l] = r]
        ELSE IF r \in DOMAIN s THEN [s EXCEPT ![r] = l]
        ELSE Failed

\* The head of a clause allocates its variable, and is unified with the call.
X(s, clause)         == IF clause.param \in Values THEN clause.param ELSE Len(s) + 1
WithX(s, clause)     == IF clause.param \in Values THEN s ELSE Append(s, Unset)
HeadUnified(s, clause, argument) ==
    IF clause.param = "other" THEN WithX(s, clause)
    ELSE Unified(WithX(s, clause), X(s, clause), argument)

\* The predicates that are still to be tried whose head has the name of the call:
\* the head of any other one does not unify.
Untried == {i \in 1..Len(program) : i >= Top.next /\ program[i].name = Top.name}
HasNext == Untried # {}

(***************************************************************************)
(* Calling and returning                                                   *)
(***************************************************************************)
\* The top activation becomes `top', and calls.
CallFrom(top, activation) ==
    /\ stack' = Caller \o <<top, activation>>
    /\ answer' = "none"

Return(value) == stack' = Caller /\ answer' = value

\* The state of a marker comes back.
RollbackTo(context) == store' = context.store /\ goals' = context.goals

\* The position of the iterators of _DI_invoke after a call of i.  Mutant: they stay.
Stay(i)    == i
Advance(i) == i + 1

\* A call of the next predicate definition for _DI_invoke or an exported
\* function, from the given state: it takes a marker and unifies its head.
Enter(context, argument) ==
    LET i       == CHOOSE i \in Untried : \A j \in Untried : i <= j
        caller  == [Top EXCEPT !.next = Advance(i)]
        unified == HeadUnified(context.store, program[i], argument)
        running == [at |-> "predicate", clause |-> i, x |-> X(context.store, program[i]),
                    pc |-> 1, saved |-> context]
    IN  /\ goals' = context.goals
        /\ IF unified = Failed
           THEN /\ store' = context.store
                /\ stack' = Caller \o <<caller>>
                /\ answer' = "false"
           ELSE store' = unified /\ CallFrom(caller, running)
        /\ UNCHANGED program

(***************************************************************************)
(* C code, and the functions exported to it (emitFunctionsCExports)        *)
(***************************************************************************)
Natives == Cardinality({i \in 1..Len(stack) : stack[i].at = "native"})

\* C code that may still make so many calls; `found' is history, the state in
\* which it runs.
Native(calls) == [at |-> "native", calls |-> calls, found |-> Now]

Init ==
    /\ program \in Programs
    /\ store = <<>> /\ goals = <<>>
    /\ stack = <<Native(1)>>
    /\ answer = "none"

CallExport ==
    /\ Running("native") /\ Top.calls > 0
    /\ \E name \in Exported, argument \in Values :
          CallFrom([Top EXCEPT !.calls = @ - 1],
                   [at |-> "export", name |-> name, argument |-> argument, next |-> 1,
                    saved |-> Now])
    /\ UNCHANGED <<program, store, goals>>

ReturnFromNative ==
    /\ Running("native") /\ Len(stack) > 1
    /\ Return("none")
    /\ UNCHANGED <<program, store, goals>>

\* It rolls back between two predicates.
ExportTries ==
    /\ Running("export") /\ answer # "true" /\ HasNext
    /\ Enter(Top.saved, Top.argument)

\* Mutant of what an exported function leaves: it rolls back failures only.
Leaves(context)      == Now
LeavesNone(context)  == context

ExportReturns ==
    /\ Running("export") /\ answer = "true"
    /\ RollbackTo(LeavesNone(Top.saved))
    /\ Return("none")
    /\ UNCHANGED program

\* _DI_failed
ExportAborts ==
    /\ Running("export") /\ answer # "true" /\ ~HasNext
    /\ answer' = "aborted"
    /\ UNCHANGED <<program, store, goals, stack>>

(***************************************************************************)
(* _DI_invoke                                                              *)
(***************************************************************************)
\* `from' is history: the state in which it was called.
Invocation(name, argument, context) ==
    [at |-> "invoke", name |-> name, argument |-> argument, next |-> 1, from |-> context]

InvokeTries ==
    /\ Running("invoke") /\ answer # "true" /\ HasNext
    /\ Enter(Now, Top.argument)

InvokeReturns ==
    /\ Running("invoke")
    /\ \/ answer = "true" /\ Return("true")
       \/ answer # "true" /\ ~HasNext /\ Return("false")
    /\ UNCHANGED <<program, store, goals>>

(***************************************************************************)
(* The body of a predicate and its footer                                  *)
(***************************************************************************)
Body  == program[Top.clause].body
Statements(op) == Running("predicate") /\ answer = "none" /\ Top.pc <= Len(Body) /\ Body[Top.pc].op = op
Step  == [Top EXCEPT !.pc = @ + 1]
Proceed == stack' = Caller \o <<Step>> /\ answer' = "none"

\* function_failed.  Mutants: the goals, or the bindings, are not restored.
FailKeepingGoals ==
    RollbackTo([Top.saved EXCEPT !.goals = goals]) /\ Return("false") /\ UNCHANGED program
FailKeepingBindings ==
    RollbackTo([Top.saved EXCEPT !.store = store]) /\ Return("false") /\ UNCHANGED program
Fail == RollbackTo(Top.saved) /\ Return("false") /\ UNCHANGED program

\* A goal of a declarative body.  Mutant: it goes to the front of the list.
InFront(list, goal) == <<goal>> \o list
AtBack(list, goal)  == Append(list, goal)

AddGoal ==
    /\ Statements("goal")
    /\ goals' = AtBack(goals, [name |-> Body[Top.pc].name, argument |-> Top.x])
    /\ Proceed
    /\ UNCHANGED <<program, store>>

\* An explicit call, or any function term of an imperative body.
Call ==
    /\ Statements("call")
    /\ CallFrom(Top, Invocation(Body[Top.pc].name, Top.x, Now))
    /\ UNCHANGED <<program, store, goals>>

Unify ==
    /\ Statements("unify")
    /\ LET unified == Unified(store, Top.x, Body[Top.pc].value) IN
       IF unified = Failed THEN Fail
       ELSE store' = unified /\ Proceed /\ UNCHANGED <<program, goals>>

\* The body of an extern "C" predicate.
CallNative ==
    /\ Statements("native")
    /\ CallFrom(Step, Native(IF Natives < MaxNative THEN 1 ELSE 0))
    /\ UNCHANGED <<program, store, goals>>

\* function_footer.  Mutant: a fact leaves the pending goals to its caller.
BodyIsDone == Running("predicate") /\ answer = "none" /\ Top.pc > Len(Body)
FactsReturn ==
    /\ BodyIsDone
    /\ IF Body = <<>> THEN Return("true") ELSE CallFrom(Top, [at |-> "continue", turns |-> 0])
    /\ UNCHANGED <<program, store, goals>>
Footer ==
    /\ BodyIsDone
    /\ CallFrom(Top, [at |-> "continue", turns |-> 0])
    /\ UNCHANGED <<program, store, goals>>

\* An explicit call has succeeded, or the pending goals have.
Succeeded ==
    /\ Running("predicate") /\ answer = "true"
    /\ IF Top.pc <= Len(Body) THEN Proceed ELSE Return("true")
    /\ UNCHANGED <<program, store, goals>>

HasFailed == Running("predicate") /\ answer = "false" /\ Fail

(***************************************************************************)
(* _DI_continueSldResolution                                               *)
(***************************************************************************)
\* One turn of the loop.  Nothing is rolled back if the goal fails.
NextGoal ==
    LET context == [store |-> store, goals |-> Tail(goals)] IN
    /\ Running("continue") /\ answer # "false" /\ goals # <<>>
    /\ goals' = context.goals
    /\ CallFrom([Top EXCEPT !.turns = @ + 1],
                Invocation(Head(goals).name, Head(goals).argument, context))
    /\ UNCHANGED <<program, store>>

ContinueReturns ==
    /\ Running("continue")
    /\ \/ answer # "false" /\ goals = <<>> /\ Return("true")
       \/ answer = "false" /\ Return("false")
    /\ UNCHANGED <<program, store, goals>>

Next ==
    \/ CallExport \/ ReturnFromNative \/ ExportTries \/ ExportReturns \/ ExportAborts
    \/ InvokeTries \/ InvokeReturns
    \/ AddGoal \/ Call \/ Unify \/ CallNative \/ Footer \/ Succeeded \/ HasFailed
    \/ NextGoal \/ ContinueReturns

\* There is one thread, and it runs; C code returns, or makes another call.
Spec == Init /\ [][Next]_vars /\ WF_vars(Next)

-----------------------------------------------------------------------------

Goal    == [name : Names, argument : Term]
Context == [store : Seq(Term \cup {Unset}), goals : Seq(Goal)]

Activation ==
         [at : {"native"}, calls : Nat, found : Context]
    \cup [at : {"export"}, name : Names, argument : Values, next : Nat \ {0}, saved : Context]
    \cup [at : {"invoke"}, name : Names, argument : Term, next : Nat \ {0}, from : Context]
    \cup [at : {"predicate"}, clause : Nat, x : Term, pc : Nat \ {0}, saved : Context]
    \cup [at : {"continue"}, turns : Nat]

\* Everything has its type, and terms do not refer to variables that are gone.
TypeOK ==
    /\ program \in Seq(Clause)
    /\ Now \in Context
    /\ stack \in Seq(Activation)
    /\ answer \in {"none", "true", "false", "aborted"}
    /\ \A i \in 1..Len(store) : store[i] \in Nat => store[i] \in 1..Len(store)
    /\ \A i \in 1..Len(goals) : goals[i].argument \in Nat => goals[i].argument \in 1..Len(store)

\* The comment of _DI_continueSldResolution, "loop is not necessary": no call of
\* it makes a second turn, for the first goal it resolves solves all others.
LoopIsNotNecessary ==
    \A i \in 1..Len(stack) : stack[i].at = "continue" => stack[i].turns <= 1

\* When a predicate has succeeded no goal is pending, its callers' included.
SuccessSolvesAll == answer = "true" => goals = <<>>

\* The comment of _DI_continueSldResolution, "no need to rollback on failure,
\* caller will handle that": _DI_invoke and an exported function try each
\* predicate in the state in which they were called.
RetriesFromStart ==
    /\ Running("invoke") /\ answer = "false" => Now = Top.from
    /\ Running("export") /\ answer = "false" => Now = Top.saved

\* C code finds the bindings and the pending goals unchanged after each call it
\* made, though the calls resolved the goals that were pending.
CallsFromCLeaveNoTrace == Running("native") => Now = Top.found

\* If the predicates of a program do not call each other in a cycle, every call
\* that C code makes returns, or the program aborts.
Terminates == Len(stack) > 1 ~> (Len(stack) = 1 \/ answer = "aborted")

=============================================================================
