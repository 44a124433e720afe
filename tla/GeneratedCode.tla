----------------------------- MODULE GeneratedCode -----------------------------
(***************************************************************************)
(* The functions of a module run: a predicate is called with a term and a  *)
(* place for its result, and its instructions are carried out one by one,  *)
(* the code of an expression as one.  The predicates it calls and the      *)
(* goals it leaves are answered from outside.                              *)
(***************************************************************************)
EXTENDS Statements, Terms

CONSTANTS
    ArgumentsOf(_),  \* sequences of arguments to call a definition with
    AnswersTo(_),    \* what a predicate may answer, by its name
    SolveAnswers,    \* what solving the goals may answer
    MaxAnswers       \* answers but failures in a run (bound for model checking)

VARIABLES
    running,   \* the function that runs, or NoFunction
    given,     \* what it was called with: the symbol, and where the result goes
    pc,        \* the next instruction: its block and its place in it
    store,     \* the state of Terms
    kept,      \* the result term of the head
    marked,    \* the heap and goals at the marker
    asked,     \* history: the answers so far
    outcome    \* "none", or how the run has ended

runVars == <<running, given, pc, store, kept, marked, asked, outcome>>

NotGiven == [symbol |-> Junk, result |-> Junk, arguments |-> <<>>]

RunInit ==
    /\ running = NoFunction /\ given = NotGiven /\ pc = [block |-> NoBlock, next |-> 0]
    /\ store = Started(<<>>) /\ kept = Junk /\ marked = [mem |-> <<>>, goals |-> <<>>]
    /\ asked = <<>> /\ outcome = "none"

\* Terms from outside: variables, or values.
Nothing == <<"nothing">>
Fails   == <<"fails">>
NewVariable(s) == New(s, Cell("var", FALSE, FALSE, Junk, <<>>, <<>>))
FromOutside(s, a) == IF a = Nothing THEN NewVariable(s)
                     ELSE New(s, Cell(a[1], TRUE, TRUE, a[2], <<>>, <<>>))

\* The term of a call, and its result.
Question(name, arguments) ==
    LET allocated == FoldLeft(FromOutside, Started(<<>>), arguments)
        symbol    == New(allocated, Cell("symbol", FALSE, TRUE, Junk,
                                         [i \in DOMAIN arguments |-> i], <<name>>))
    IN  NewVariable(symbol)

\* The blocks of a function that had been put in it when it was created.
Entry(f) == CHOOSE b \in DOMAIN blocks : blocks[b].in = f /\ \A c \in 1..b - 1 : blocks[c].in # f

Runs(f) == made[f].body.is \in {"goals", "block"}

Start ==
    /\ running = NoFunction /\ outcome = "none"
    /\ \E f \in DOMAIN made : \E arguments \in ArgumentsOf(made[f]) :
          LET s == Question(made[f].name, arguments)
          IN  /\ Runs(f)
              /\ running' = f
              /\ pc' = [block |-> Entry(f), next |-> 1]
              /\ store' = s
              /\ given' = [symbol |-> s.val - 1, result |-> s.val, arguments |-> arguments]
    /\ UNCHANGED <<kept, marked, asked, outcome>>

Running     == running # NoFunction /\ outcome = "none"
Instruction == blocks[pc.block].code[pc.next]
Does(op)    == Running /\ Instruction.op = op

Follows  == pc' = [pc EXCEPT !.next = @ + 1]
Jumps(b) == pc' = [block |-> b, next |-> 1]

\* What comes of something that may fail.
Goes(s, to, failed) ==
    /\ store' = [s EXCEPT !.status = "ok"]
    /\ CASE s.status = "ok" -> (IF to = NoBlock THEN Follows ELSE Jumps(to)) /\ UNCHANGED outcome
         [] s.status = "failed" -> Jumps(failed) /\ UNCHANGED outcome
         [] OTHER -> outcome' = s.status /\ UNCHANGED pc

AtMarker ==
    /\ Does("marker")
    /\ marked' = [mem |-> store.mem, goals |-> store.goals]
    /\ Follows
    /\ UNCHANGED <<running, given, store, kept, asked, outcome>>

\* The term, or the answer to the goals, that comes next.
Solved == Ask(store, <<"goals", store.goals>>, store.val)
Awaits(s) == s.status = "asks"

RunTerm ==
    /\ Does("term")
    /\ LET s == Eval(store, Instruction.of)
       IN  ~Awaits(s) /\ Goes(s, NoBlock, Instruction.failed)
    /\ UNCHANGED <<running, given, kept, marked, asked>>

Solve ==
    /\ Does("solve")
    /\ IF store.goals = <<>> THEN Goes(store, Instruction.to, NoBlock)
       ELSE ~Awaits(Solved) /\ Goes(Solved, Instruction.to, Instruction.failed)
    /\ UNCHANGED <<running, given, kept, marked, asked>>

Gets(answers) ==
    \E a \in answers :
        /\ a # Fails => Len(asked) < MaxAnswers
        /\ asked' = Append(asked, a)
        /\ store' = [store EXCEPT !.ask = Append(@, a)]
        /\ UNCHANGED <<running, given, pc, kept, marked, outcome>>

\* The question that was not answered is the last one of an evaluation in which
\* it is.
Unanswered(e) == LET s == Eval([store EXCEPT !.ask = Append(@, Fails)], e) IN Last(s.trace)
Answer ==
    \/ Does("term")  /\ Awaits(Eval(store, Instruction.of)) /\ Gets(AnswersTo(Unanswered(Instruction.of)[2][1]))
    \/ Does("solve") /\ store.goals # <<>> /\ Awaits(Solved) /\ Gets(SolveAnswers)

KeepResult ==
    /\ Does("keep")
    /\ kept' = store.val
    /\ Follows
    /\ UNCHANGED <<running, given, store, marked, asked, outcome>>

UnifyHead ==
    /\ \/ Does("head")   /\ Goes(Unify(store, store.val, given.symbol), Instruction.to, Instruction.failed)
       \/ Does("result") /\ Goes(Unify(store, kept, given.result), Instruction.to, Instruction.failed)
    /\ UNCHANGED <<running, given, kept, marked, asked>>

Jump ==
    /\ Does("br")
    /\ Jumps(Instruction.to)
    /\ UNCHANGED <<running, given, store, kept, marked, asked, outcome>>

\* The last term must be a bool with a value.
Branch ==
    /\ Does("test")
    /\ LET s == Read(store, "bool")
       IN  Goes(s, IF s.word = 1 THEN Instruction.yes ELSE Instruction.no, NoBlock)
    /\ UNCHANGED <<running, given, kept, marked, asked>>

AddGoal ==
    /\ Does("goal")
    /\ store' = [store EXCEPT !.goals = Append(@, Show(store.mem, store.val))]
    /\ Follows
    /\ UNCHANGED <<running, given, kept, marked, asked, outcome>>

Rollback ==
    /\ Does("rollback")
    /\ store' = [store EXCEPT !.mem = marked.mem, !.goals = marked.goals]
    /\ Follows
    /\ UNCHANGED <<running, given, kept, marked, asked, outcome>>

Ret ==
    /\ Does("ret")
    /\ outcome' = IF Instruction.value THEN "true" ELSE "false"
    /\ UNCHANGED <<running, given, pc, store, kept, marked, asked>>

CodeStep == AtMarker \/ RunTerm \/ KeepResult \/ UnifyHead \/ Jump \/ Branch
            \/ AddGoal \/ Solve \/ Rollback \/ Ret

\* What is seen of a run from outside when it ends.
Seen(s, how) ==
    [trace  |-> s.trace, outcome |-> how,
     symbol |-> Show(s.mem, given.symbol), result |-> Show(s.mem, given.result)]

=============================================================================
