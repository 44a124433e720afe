-------------------------- MODULE ResolutionCorrect --------------------------
(***************************************************************************)
(* What an attempt to execute a predicate comes to, by the procedure the   *)
(* thesis gives (section 2.4): contexts are values, a failed attempt is    *)
(* abandoned with its context, and there is nothing to roll back.  The     *)
(* procedure need not end, so it is followed a number of steps.            *)
(***************************************************************************)
EXTENDS Resolution

CONSTANT Depth  \* how many steps a run is compared with

ASSUME DepthAssumption == Depth \in Nat

\* The tasks of the procedure: to try the clauses for a call, from a position in the
\* program on; to execute the rest of the body of a clause whose variable is x; to
\* solve the goals that are pending.
Attempting(context, name, argument, next) ==
    [do |-> "attempt", context |-> context, name |-> name, argument |-> argument, next |-> next]
Executing(context, clause, x, pc) ==
    [do |-> "execute", context |-> context, clause |-> clause, x |-> x, pc |-> pc]
Finishing(context) == [do |-> "finish", context |-> context]

Task(p) ==
         [do : {"attempt"}, context : Context, name : Names, argument : Term, next : Nat \ {0}]
    \cup [do : {"execute"}, context : Context, clause : 1..Len(p), x : Term, pc : Nat \ {0}]
    \cup [do : {"finish"}, context : Context]

Success(context) == [is |-> "success", context |-> context]
Failure          == [is |-> "failure"]
Unfinished       == [is |-> "unfinished"]

(***************************************************************************)
(* What a task comes to in the program p, if the tasks that it is made of  *)
(* come to what `later' says.                                              *)
(***************************************************************************)
\* The first of the clauses that succeeds.
AttemptComesTo(p, later, task) ==
    LET clauses == {i \in 1..Len(p) : i >= task.next /\ p[i].name = task.name}
        first   == CHOOSE i \in clauses : \A j \in clauses : i <= j
        store1  == task.context.store
        unified == HeadUnified(store1, p[first], task.argument)
        tried   == IF unified = Failed THEN Failure
                   ELSE later[Executing([task.context EXCEPT !.store = unified], first, X(store1, p[first]), 1)]
    IN  IF clauses = {} THEN Failure
        ELSE IF tried = Failure THEN later[[task EXCEPT !.next = first + 1]]
        ELSE tried

ExecutionComesTo(p, later, task) ==
    LET body      == p[task.clause].body
        statement == body[task.pc]
        unified   == Unified(task.context.store, task.x, statement.value)
        called    == later[Attempting(task.context, statement.name, task.x, 1)]
        goal      == [name |-> statement.name, argument |-> task.x]
        Then(context) == later[Executing(context, task.clause, task.x, task.pc + 1)]
    IN  IF task.pc > Len(body) THEN later[Finishing(task.context)]
        ELSE CASE statement.op = "goal"   -> Then([task.context EXCEPT !.goals = Append(@, goal)])
               [] statement.op = "unify"  -> IF unified = Failed THEN Failure
                                             ELSE Then([task.context EXCEPT !.store = unified])
               [] statement.op = "call"   -> IF called.is = "success" THEN Then(called.context) ELSE called
               [] statement.op = "native" -> Then(task.context)

FinishComesTo(later, task) ==
    LET goal == Head(task.context.goals) IN
    IF task.context.goals = <<>> THEN Success(task.context)
    ELSE later[Attempting([task.context EXCEPT !.goals = Tail(@)], goal.name, goal.argument, 1)]

Comes(p, later, task) ==
    CASE task.do = "attempt" -> AttemptComesTo(p, later, task)
      [] task.do = "execute" -> ExecutionComesTo(p, later, task)
      [] task.do = "finish"  -> FinishComesTo(later, task)

\* After so many steps.
ComesTo(p, task, steps) ==
    LET after[n \in 0..steps] ==
            [t \in Task(p) |-> IF n = 0 THEN Unfinished ELSE Comes(p, after[n - 1], t)]
    IN  after[steps][task]

-----------------------------------------------------------------------------

\* A call succeeds or fails as the procedure says, if that ends, and if it succeeds,
\* with the bindings and goals the procedure says.
CallMade == Attempting(Top.from, Top.name, Top.argument, 1)
Agrees(outcome) == LET says == ComesTo(program, CallMade, Depth) IN says = outcome \/ says = Unfinished
FollowsProcedure ==
    Running("invoke") =>
        /\ answer = "true" => Agrees(Success(Now))
        /\ answer # "true" /\ ~HasNext => Agrees(Failure)
=============================================================================
