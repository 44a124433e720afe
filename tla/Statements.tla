----------------------------- MODULE Statements -----------------------------
(***************************************************************************)
(* Code generation for functions and statements: the visitors of Codegen   *)
(* that lay out basic blocks.  An action is what one visitor does between  *)
(* two nodes it descends into; `frames' are the visitors in progress, each *)
(* with the statements it has not visited yet, and the other variables are *)
(* fields of Codegen.  Expressions are emitted at once (Terms gives the    *)
(* meaning of that code): an instruction "term" stands for the code of one *)
(* expression, with the block to which it goes when something in it fails. *)
(***************************************************************************)
EXTENDS Integers, Sequences

CONSTANTS
    Modules,         \* the functions of a module, in their order
    TermErrors(_),   \* errors reported while an expression is emitted
    TermCrashes(_),  \* whether the compiler crashes meanwhile
    TermReadsJunk(_), \* whether it may, for it reads what was never written
    TermMayFail(_),  \* whether its code branches to failedBlock
    NameCrashes(_),  \* whether the compiler crashes when it makes up its symbol
    ImportErrors(_), \* errors reported for the arguments of an extern "C" function
    ImportCrashes(_, _) \* whether the compiler crashes on one, given the errors reported

NoBlock == 0
NoFunction == 0

VARIABLES
    accepted,        \* the functions of the module that was accepted
    pending,         \* functions of the module that were not visited yet
    frames,          \* the visitors in progress, the innermost last
    made,            \* the definitions of the functions created; the last is currentFunction
    functions,       \* the list of functions of the module
    blocks,          \* the basic blocks, and the function each was put into
    at,              \* the insertion point
    failedBlock, afterForBlock, nextForBlock,
    errors,          \* errors reported
    crashed          \* whether the compiler has crashed

codegenVars == <<accepted, pending, frames, made, functions, blocks, at,
                 failedBlock, afterForBlock, nextForBlock, errors, crashed>>

CodegenInit ==
    /\ accepted = <<>> /\ pending = <<>> /\ frames = <<>> /\ made = <<>> /\ functions = <<>>
    /\ blocks = <<>>
    /\ at = NoBlock /\ failedBlock = NoBlock /\ afterForBlock = NoBlock /\ nextForBlock = NoBlock
    /\ errors = {} /\ crashed = FALSE

currentFunction == Len(made)

(***************************************************************************)
(* Instructions and blocks                                                 *)
(***************************************************************************)
Term(e)        == [op |-> "term", of |-> e, failed |-> failedBlock]
Terms(es)      == [i \in 1..Len(es) |-> Term(es[i])]
Goals(es)      == [i \in 1..2 * Len(es) |-> IF i % 2 = 1 THEN Term(es[(i + 1) \div 2]) ELSE [op |-> "goal"]]
Br(to)         == [op |-> "br", to |-> to]
Test(yes, no)  == [op |-> "test", yes |-> yes, no |-> no]

Block(function)         == [in |-> function, code |-> <<>>]
NewBlock                == Len(blocks) + 1
Emit(bs, b, code)       == [bs EXCEPT ![b].code = @ \o code]
Drop(bs, b)             == bs       \* Mutant of Put: it is not put into the function.
Put(bs, b)              == [bs EXCEPT ![b].in = currentFunction]

\* What emitting these expressions reports.  Before the head of the first function
\* was emitted failedBlock has no value: to branch to it may crash.
ErrorsOf(es)  == UNION {TermErrors(es[i]) : i \in 1..Len(es)}
CrashesOn(es) == \E i \in 1..Len(es) : TermCrashes(es[i])
ReadsJunk(es) == \E i \in 1..Len(es) : TermReadsJunk(es[i])
BranchesToNothing(es) == failedBlock = NoBlock /\ \E i \in 1..Len(es) : TermMayFail(es[i])
EmitsTerms(es) ==
    /\ errors'  = errors \cup ErrorsOf(es)
    /\ crashed' \in {CrashesOn(es), CrashesOn(es) \/ ReadsJunk(es) \/ BranchesToNothing(es)}
EmitsNoTerms == UNCHANGED <<errors, crashed>>
Crashes == crashed' = TRUE /\ UNCHANGED <<accepted, pending, frames, made, functions, blocks, at,
                                          failedBlock, afterForBlock, nextForBlock, errors>>

Terminators == {"br", "test", "head", "result", "solve", "ret"}
TargetsOf(i) ==
    CASE i.op = "br"   -> {i.to}
      [] i.op = "test" -> {i.yes, i.no}
      [] i.op \in {"head", "result", "solve"} -> {i.to, i.failed}
      [] i.op = "term" -> IF TermMayFail(i.of) THEN {i.failed} ELSE {}
      [] i.op = "C call" -> IF i.of.result # <<>> THEN {i.failed} ELSE {}
      [] OTHER -> {}

\* A basic block of LLVM ends with its only terminator, and branches to blocks of
\* the same function.
IsBlock(b) ==
    LET code == blocks[b].code
    IN  /\ \A i \in DOMAIN code : code[i].op \in Terminators <=> i = Len(code)
        /\ code # <<>>
        /\ \A i \in DOMAIN code : \A to \in TargetsOf(code[i]) :
              to \in DOMAIN blocks /\ blocks[to].in = blocks[b].in

(***************************************************************************)
(* Functions                                                               *)
(***************************************************************************)
Accept(module) ==
    /\ pending = <<>> /\ made = <<>> /\ functions = <<>> /\ ~crashed
    /\ accepted' = module.functions
    /\ pending' = accepted'
    /\ UNCHANGED <<frames, made, functions, blocks, at, failedBlock, afterForBlock, nextForBlock,
                   errors, crashed>>

\* The function that is visited next, if there is one and no other is in progress.
Upcoming == {pending[i] : i \in {j \in 1..Len(pending) : j = 1 /\ frames = <<>> /\ ~crashed}}
IsExternC(f) == f.body.is = "extern C"
CreatesFunction(f) ==
    \/ f.body.is \in {"goals", "block"}
    \/ IsExternC(f) /\ f.of = "imperative"

\* A function is listed for other modules, or imported from one, by its mangled name,
\* which is the first thing that is made for it.
HasName(f) == IsExternC(f) \/ ~NameCrashes(f)
NameFails  == \E f \in Upcoming : ~HasName(f) /\ Crashes

\* The definition becomes a function with its head, a function term that is not
\* called, whatever isCall says; its body is emitted next.
HeadTerm(f) == [is |-> "function", name |-> f.name, operands |-> f.terms, call |-> FALSE]

\* Mutant: a break still goes to the footer of the first function.
FooterIsKept(block) == IF afterForBlock = NoBlock THEN block ELSE afterForBlock
FooterOf(block)     == block

\* Mutant: what fails in the body goes where it went in the previous function.
FailsAsBefore(block) == failedBlock
FailsTo(block)       == block

\* What is not in the list of functions until its body was emitted.  Mutant:
\* every function is listed at once.
ListedEach(f) == TRUE
IsListed(f)   == ~IsExternC(f)

EnterFunction ==
    \E f \in Upcoming :
        LET function == currentFunction + 1
            entry    == NewBlock
            unified  == entry + 1
            failed   == entry + 2
            footer   == entry + 3
            body     == IF f.result = <<>> THEN unified ELSE entry + 4
            Here(code) == [in |-> function, code |-> code]
            result   == IF f.result = <<>> THEN <<>> ELSE Terms(f.result) \o <<[op |-> "keep"]>>
            head     == <<[op |-> "marker"]>> \o result
                        \o <<Term(HeadTerm(f)), [op |-> "head", to |-> unified, failed |-> failed]>>
        IN  /\ CreatesFunction(f) /\ HasName(f)
            /\ pending' = Tail(pending)
            /\ made' = Append(made, f)
            /\ functions' = IF IsListed(f) THEN Append(functions, [of |-> "function", function |-> function])
                            ELSE functions
            /\ blocks' = blocks \o
                 (IF f.result = <<>>
                  THEN <<Here(head), Here(<<>>), Block(NoFunction), Block(NoFunction)>>
                  ELSE <<Here(head), Here(<<[op |-> "result", to |-> body, failed |-> failed]>>),
                         Block(NoFunction), Block(NoFunction), Here(<<>>)>>)
            /\ at' = body
            /\ failedBlock' = FailsTo(failed)
            /\ afterForBlock' = FooterOf(footer)
            /\ frames' = <<[of |-> "function", footer |-> footer, carried |-> nextForBlock,
                            rest |-> IF f.body.is = "block" THEN f.body.list ELSE <<>>]>>
            /\ EmitsTerms(Append(f.result, HeadTerm(f)))
            /\ UNCHANGED <<accepted, nextForBlock>>

\* extern: the functions of another module, by their mangled name.
ImportFunction ==
    \E f \in Upcoming :
        /\ f.body.is = "extern DI" /\ HasName(f)
        /\ pending' = Tail(pending)
        /\ functions' = Append(functions, [of |-> "import", definition |-> f])
        /\ UNCHANGED <<accepted, frames, made, blocks, at, failedBlock, afterForBlock, nextForBlock,
                       errors, crashed>>

\* extern "C" for a definition without a result part: no function is created, so
\* the call goes where the last one ended, if there was one, and its arguments
\* were not emitted.
ImportsInto(f) ==
    /\ blocks' = Emit(blocks, at, <<[op |-> "C call", of |-> f]>>)
    /\ functions' = Append(functions, [of |-> "function", function |-> currentFunction])

ImportWithoutFunction ==
    \E f \in Upcoming :
        /\ IsExternC(f) /\ f.of = "declarative"
        /\ LET reported == errors \cup ImportErrors(f) IN
           IF ImportCrashes(f, reported) \/ (reported = {} /\ (f.terms # <<>> \/ made = <<>>)) THEN Crashes
           ELSE /\ pending' = Tail(pending)
                /\ errors' = reported
                /\ IF reported = {} THEN ImportsInto(f) ELSE UNCHANGED <<blocks, functions>>
                /\ UNCHANGED <<accepted, frames, made, at, failedBlock, afterForBlock, nextForBlock, crashed>>

Top    == frames[Len(frames)]
Outer  == SubSeq(frames, 1, Len(frames) - 1)
IsAt(of)  == frames # <<>> /\ ~crashed /\ Top.of = of
Leaves(of) == IsAt(of) /\ Top.rest = <<>>

\* The rest of a function: what its body emits if that is no block, the footer
\* and function_failed.
EndFunction ==
    LET f         == made[currentFunction]
        call      == IsExternC(f) /\ errors \cup ImportErrors(f) = {}
        goals     == IF f.body.is = "goals" THEN f.body.list ELSE <<>>
        succeeded == NewBlock
        last      == Goals(goals) \o (IF call THEN <<[op |-> "C call", of |-> f, failed |-> failedBlock]>> ELSE <<>>)
    IN  /\ Leaves("function")
        /\ blocks' = Emit(Emit(Emit(Put(Put(
                         Append(blocks, [in |-> currentFunction, code |-> <<[op |-> "ret", value |-> TRUE]>>]),
                         afterForBlock), failedBlock),
                         at, last \o <<Br(afterForBlock)>>),
                         afterForBlock, <<[op |-> "solve", to |-> succeeded, failed |-> failedBlock]>>),
                         failedBlock, <<[op |-> "rollback"], [op |-> "ret", value |-> FALSE]>>)
        /\ at' = failedBlock
        /\ functions' = IF call THEN Append(functions, [of |-> "function", function |-> currentFunction])
                        ELSE functions
        /\ frames' = Outer
        /\ errors' = errors \cup ErrorsOf(goals) \cup (IF IsExternC(f) THEN ImportErrors(f) ELSE {})
        /\ \E spoilt \in {FALSE, ReadsJunk(goals)} :
              crashed' = (CrashesOn(goals) \/ spoilt \/ (IsExternC(f) /\ ImportCrashes(f, errors \cup ImportErrors(f))))
        /\ UNCHANGED <<accepted, pending, made, failedBlock, afterForBlock, nextForBlock>>

(***************************************************************************)
(* Statements                                                              *)
(***************************************************************************)
Visit(is) ==
    /\ frames # <<>> /\ ~crashed /\ Top.rest # <<>>
    /\ Head(Top.rest).is = is
Node  == Head(Top.rest)
After == Append(Outer, [Top EXCEPT !.rest = Tail(@)])

VisitExpression ==
    /\ Visit("expression")
    /\ blocks' = Emit(blocks, at, <<Term(Node.of)>>)
    /\ frames' = After
    /\ EmitsTerms(<<Node.of>>)
    /\ UNCHANGED <<accepted, pending, made, functions, at, failedBlock, afterForBlock, nextForBlock>>

\* Mutant: the blocks of the branches are exchanged.
BranchesSwapped(yes, no) == Test(no, yes)
Branches(yes, no)        == Test(yes, no)

VisitIf ==
    LET true  == NewBlock
        false == NewBlock + 1
        after == NewBlock + 2
    IN  /\ Visit("if")
        /\ blocks' = Emit(blocks, at, <<Term(Node.condition), Branches(true, false)>>)
                     \o <<Block(currentFunction), Block(NoFunction), Block(NoFunction)>>
        /\ at' = true
        /\ frames' = Append(After, [of |-> "then", rest |-> Node.then, else |-> Node.else,
                                    false |-> false, after |-> after])
        /\ EmitsTerms(<<Node.condition>>)
        /\ UNCHANGED <<accepted, pending, made, functions, failedBlock, afterForBlock, nextForBlock>>

LeaveThen ==
    /\ Leaves("then")
    /\ blocks' = Put(Emit(blocks, at, <<Br(Top.after)>>), Top.false)
    /\ at' = Top.false
    /\ frames' = Append(Outer, [of |-> "else", rest |-> Top.else, after |-> Top.after])
    /\ EmitsNoTerms
    /\ UNCHANGED <<accepted, pending, made, functions, failedBlock, afterForBlock, nextForBlock>>

LeaveElse ==
    /\ Leaves("else")
    /\ blocks' = Put(Emit(blocks, at, <<Br(Top.after)>>), Top.after)
    /\ at' = Top.after
    /\ frames' = Outer
    /\ EmitsNoTerms
    /\ UNCHANGED <<accepted, pending, made, functions, failedBlock, afterForBlock, nextForBlock>>

\* A `for' without a condition has no expression to emit.
VisitFor ==
    LET condition == NewBlock
        body      == NewBlock + 1
        after     == NewBlock + 2
        next      == NewBlock + 3
        Here(code) == [in |-> currentFunction, code |-> code]
    IN  /\ Visit("for")
        /\ IF Node.condition = <<>> THEN Crashes
           ELSE /\ blocks' = Emit(blocks, at, Terms(Node.init) \o <<Br(condition)>>)
                             \o <<Here(Terms(Node.condition) \o <<Test(body, after)>>), Here(<<>>),
                                  Block(NoFunction), Block(NoFunction)>>
                /\ at' = body
                /\ afterForBlock' = after
                /\ nextForBlock' = next
                /\ frames' = Append(After, [of |-> "for", rest |-> Node.body, last |-> Node.last,
                                            condition |-> condition, after |-> after, next |-> next,
                                            oldAfter |-> afterForBlock, oldNext |-> nextForBlock])
                /\ EmitsTerms(Node.init \o Node.condition)
                /\ UNCHANGED <<accepted, pending, made, functions, failedBlock>>

\* Mutant: what is saved before the loop is not put back.
NotRestored(old, new) == new
Restored(old, new)    == old

\* What follows the last part of a loop.  Mutant: the last part again.
RepeatsLast(for) == for.next
Repeats(for)     == for.condition

LeaveFor ==
    /\ Leaves("for")
    /\ blocks' = Emit(Emit(Put(Put(blocks, Top.next), Top.after),
                     at, <<Br(Top.next)>>),
                     Top.next, Terms(Top.last) \o <<Br(Repeats(Top))>>)
    /\ at' = Top.after
    /\ afterForBlock' = Restored(Top.oldAfter, afterForBlock)
    /\ nextForBlock' = Restored(Top.oldNext, nextForBlock)
    /\ frames' = Outer
    /\ EmitsTerms(Top.last)
    /\ UNCHANGED <<accepted, pending, made, functions, failedBlock>>

\* Code after a jump goes to a block of its own.  Mutant: to the same.
JumpsFrom(block) == blocks' = Emit(blocks, at, <<Br(block)>>) /\ UNCHANGED at
JumpsTo(block) ==
    /\ blocks' = Append(Emit(blocks, at, <<Br(block)>>), Block(currentFunction))
    /\ at' = NewBlock

VisitBreak ==
    /\ Visit("break")
    /\ JumpsTo(afterForBlock)
    /\ frames' = After
    /\ EmitsNoTerms
    /\ UNCHANGED <<accepted, pending, made, functions, failedBlock, afterForBlock, nextForBlock>>

VisitContinue ==
    /\ Visit("continue")
    /\ IF nextForBlock = NoBlock
       THEN errors' = errors \cup {"Outside of for loop"} /\ UNCHANGED <<blocks, at>>
       ELSE JumpsTo(nextForBlock) /\ UNCHANGED errors
    /\ frames' = After
    /\ UNCHANGED <<accepted, pending, made, functions, failedBlock, afterForBlock, nextForBlock, crashed>>

Emission ==
    \/ NameFails \/ EnterFunction \/ ImportFunction \/ ImportWithoutFunction \/ EndFunction
    \/ VisitExpression \/ VisitIf \/ LeaveThen \/ LeaveElse \/ VisitFor \/ LeaveFor
    \/ VisitBreak \/ VisitContinue

CodegenNext == (\E m \in Modules : Accept(m)) \/ Emission

CodegenSpec == CodegenInit /\ [][CodegenNext]_codegenVars

-----------------------------------------------------------------------------

\* What the fields of Codegen refer to are blocks, or nothing yet; no block is put
\* into a function that is not made, and what is emitted goes to a block of the
\* current function, although the fields are written in any order by visitors that
\* are within one another.
CodegenTypeOK ==
    /\ {failedBlock, afterForBlock, nextForBlock, at} \subseteq (DOMAIN blocks \cup {NoBlock})
    /\ frames # <<>> => at # NoBlock /\ blocks[at].in = currentFunction
    /\ \A b \in DOMAIN blocks : blocks[b].in \in 0..currentFunction

\* Definitions T are made of statements S, which contain each other: how deep does not
\* matter below.
MadeOf(S, T) ==
    /\ \A s \in S :
          /\ s.is = "if"  => s.then \in Seq(S) /\ s.else \in Seq(S)
          /\ s.is = "for" => /\ s.body \in Seq(S)
                             /\ {Len(s.init), Len(s.condition), Len(s.last)} \subseteq Nat
    /\ \A f \in T :
          /\ Len(f.result) \in Nat
          /\ f.body.is = "goals" => Len(f.body.list) \in Nat
          /\ f.body.is = "block" => f.body.list \in Seq(S)
    /\ \A module \in Modules : module.functions \in Seq(T)

\* The innermost loop of the first k visitors in progress fs.
IsInnermost(fs, i, k) == i \in 1..k /\ fs[i].of = "for" /\ \A j \in i + 1..k : fs[j].of # "for"
NoLoop(fs, k)         == \A i \in 1..k : fs[i].of # "for"

TargetsAt(fs, k, afterFor, nextFor) ==
    /\ \A i \in 1..k : IsInnermost(fs, i, k) => afterFor = fs[i].after /\ nextFor = fs[i].next
    /\ NoLoop(fs, k) => afterFor = fs[1].footer /\ nextFor = NoBlock

\* Wherever a break or continue may occur, the blocks they jump to are those of
\* the innermost loop around them in the same function; outside of loops, a break
\* goes to the footer of the function and a continue is an error.  The fields they
\* read are kept through nested loops, branches and from function to function.
LoopTargets ==
    /\ frames = <<>> => nextForBlock = NoBlock
    /\ frames # <<>> => TargetsAt(frames, Len(frames), afterForBlock, nextForBlock)

\* What is emitted for a module without errors is code: when all of it was visited,
\* every block was put in a function, ends in its only terminator and branches only
\* within the function, however statements are nested.  Not so for a function whose
\* head may fail, which goes to the failed block of the previous function, and for
\* a block behind whose end an extern "C" definition without a result part is called.
HeadMayFail(f) == TermMayFail(HeadTerm(f)) \/ \E i \in 1..Len(f.result) : TermMayFail(f.result[i])
IsWithoutFunction(i) == i.op = "C call" /\ i.of.of = "declarative"
IsSpoilt(code) == \E i \in DOMAIN code : IsWithoutFunction(code[i])

BlocksAreWhole ==
    pending = <<>> /\ frames = <<>> /\ errors = {} /\ ~crashed =>
        \A b \in DOMAIN blocks :
            /\ blocks[b].in # NoFunction
            /\ IsBlock(b) \/ HeadMayFail(made[blocks[b].in]) \/ IsSpoilt(blocks[b].code)

\* An extern "C" definition without a result part; and the entry of a definition.
WithoutGoal(f) == IsExternC(f) /\ f.of = "declarative"
IsListedAs(entry, f) ==
    IF f.body.is = "extern DI" THEN entry = [of |-> "import", definition |-> f]
    ELSE entry.of = "function" /\ entry.function \in DOMAIN made /\ made[entry.function] = f

\* Every definition is in the list of functions that calls are resolved with once,
\* in the order of the source: clauses are tried in this order.  Not so with an
\* extern "C" definition without a result part, which is listed as the function
\* before it.
ListedInOrder ==
    /\ pending = <<>> /\ frames = <<>> /\ errors = {} /\ ~crashed
    /\ \A i \in DOMAIN accepted : ~WithoutGoal(accepted[i])
    => /\ Len(functions) = Len(accepted)
       /\ \A i \in DOMAIN functions : IsListedAs(functions[i], accepted[i])

=============================================================================
