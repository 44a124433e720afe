# Verification of `kompilator`

`kompilator` compiles a small language that mixes logic and imperative
programming to LLVM code. A *predicate* has a head, which is unified with the
call, and a body: declarative (`:- goals ;`), imperative (`{ statements }`) or
foreign (`extern "C"`). Compiled programs are linked with a runtime library,
`runtime/runtime.cxx`, that represents terms, unifies them, resolves goals and
backtracks. This directory holds TLA+ models of the system, configurations that
check them with TLC, and theorems about them that are proved with TLAPS.

Paths below are relative to the repository: `runtime.cxx` is
`runtime/runtime.cxx`, `Codegen.cxx` is `src/ASTVisitors/Codegen.cxx`. "The
thesis" is the PDF in the repository, which describes the language.

## 1. Inventory

| part | state it keeps | operations | what is hard |
|---|---|---|---|
| runtime: log and heap | the heap of term representations, `sldLog`, `sldGoalList` | allocate, assign a subterm, bind, assign through a pointer, copy; take a marker, roll back | every write must be logged, in the right order, with the right old content; rollback frees memory |
| runtime: unification | the heap | `_DI_unify`, `_DI_equals` | recursion over shared and half-bound graphs, annotations, self-references, failure halfway |
| runtime: resolution | `sldGoalList`, the C stack | `_DI_invoke`, `_DI_continueSldResolution`, `_DI_addGoal` | one goal list shared by all nested calls; success is a nested call, failure a return |
| generated predicates | marker, blocks | head unification, body, footer, `function_failed` | every failing path restores the state of the entry |
| C exports and imports | marker | exported functions try predicates, read a result, roll back; foreign predicates call C | re-entrancy: C code calls back in the middle of a resolution |
| code generation: statements | current function, insertion point, `failedBlock`, `afterForBlock`, `nextForBlock`, the list of functions | one visitor per node | blocks saved and restored around loops, fields left over from the last function or not set yet |
| code generation: expressions | named values | one visitor per node | assignments detach and store, evaluating the left side more than once; order of operands, calls and unifications |
| name resolution | stack of scopes, `scopeOf` | enter/leave scope, define, look up | the index kept for a name when its scope is left |
| type checking, quote/call resolution | a type per expression; a flag | one visitor per node | flags saved and restored around nested nodes; types known only at run time |
| record collection, basic correctness, pipeline | maps, errors | single passes in a fixed order | passes that do not descend; assertions that accepted programs reach |
| mangling, exports and imports | tables of symbols, of names and of types for C | one entry per function | collisions of mangled names; functions that C cannot call |
| lexer, parser, syntax tree, driver | – | – | none of it stateful |

How they interact: the driver parses a file and runs the passes in a fixed
order, each over the whole tree, until one reports errors. The generated code
and the runtime share the heap, the log and the goal list and call each other in
both directions: a predicate's footer calls `_DI_continueSldResolution`, which
calls `_DI_invoke`, which calls predicates. C code calls exported functions and
is called by foreign predicates. There is one thread and no I/O at run time:
what interleaves are nested calls, choices of predicates, and rollbacks; nothing
is persisted, sent or timed. `_DI_failed` aborts the process.

What makes each part correct:

* log: a rollback restores the state of its marker exactly; nothing is freed
  twice or used after it is freed; markers nest;
* unification: it answers whether a unifier exists, binds what a most general
  one makes equal and nothing else, undoes nothing; annotated terms have values;
* resolution: predicates are tried in order, each in the state of the call;
  success means all pending goals are solved; calls from C leave no trace; all
  calls return if the program has no endless recursion;
* name resolution: a name refers to the innermost definition in scope;
* code generation: every block is in its function and ends with its only
  terminator; the code makes the calls the source says, in its order, and leaves
  the values it says; breaks and continues go where they are meant to;
* passes before it: a program that gets past them is compiled; function terms are
  called where the source says so; operands that are accepted have the right type.

`PROJECT.json` lists all parts (`components`), the behaviours that are hard to
test (`hazards`) and which properties cover them.

## 2. The modules

| module | role |
|---|---|
| `Backtracking` | abstract: what the log promises. Calls save the state; failing restores it; succeeding keeps it |
| `SldLog` | heap, goal list, log, markers and rollbacks of `runtime.cxx`, driven by nested calls |
| `SldLogProofs`, `SldLogHeapProofs`, `SldLogRefinement` | theorems about `SldLog`, about its heap, and that it implements `Backtracking` |
| `Unify` | `_DI_unify` on heaps of terms, one action per branch |
| `UnifyCorrect` | reference definition of unification, `_DI_equals`, and the properties |
| `UnifyProofs` | theorems about `_DI_unify`, for heaps of every size |
| `Resolution` | predicates, goals, calls, C code; rollbacks are returns to saved states |
| `ResolutionCorrect` | reference: the thesis's procedure for a call, followed for a number of steps, without a stack and without rollbacks |
| `ResolutionProofs` | theorems about `Resolution`, for every program |
| `LexicalScopes` | abstract: what name resolution promises. A name means its innermost definition in the open scopes |
| `NameResolution` | the pass: the stack of scopes, the index `scopeOf`, lookups and definitions, over every tree the grammar allows |
| `NameResolutionProofs` | theorems about the pass, and that it implements `LexicalScopes` |
| `SyntaxTree` | the trees the grammar makes, as predicates, and the order in which visitors descend |
| `Types` | types as type checking tells them apart; records by name, with the definitions of all, so that they may refer to themselves |
| `TypeChecking` | `BasicCorrectness`, `QuoteCallResolution`, `RecordDefinitionsCollector` and `TypeChecking`: errors, and what is stored in the tree |
| `Statements` | the visitors of `Codegen` for functions and statements: basic blocks and the fields of the visitor |
| `StatementsProofs` | theorems about `Statements`, for every sequence of functions: where jumps go, that what is emitted is code, and that every definition is listed at its place |
| `NameMangling` | the symbols under which functions are exported to other modules |
| `NameManglingProofs` | the theorem that a symbol tells signatures apart |
| `CTypes` | types for C, and what imports and exports report |
| `Terms` | what the code of an expression does: the instructions of `TermEmiter` and the runtime calls in them, as operators |
| `GeneratedCode` | a call of a compiled function, instruction by instruction |
| `SourceMeaning` | reference: what a source function means, by recursion on its syntax, without blocks and without terms |
| `Compiler` | the passes of `Compiler::compile` in order, the visitors of `Codegen`, its destructor, and the code run; composes the nine modules above that are not proofs |
| `CompilerCorrect` | what the compiler promises |
| `MCSldLog`, `MCUnify`, `MCResolution`, `MCNameResolution`, `MCCompiler` | instances for TLC |

The modules are layered. `SldLog` leaves open what a program does between a
marker and a rollback: it may allocate, bind, assign, add and remove goals in any
way the library allows. It is proved to implement `Backtracking`, in which a
rollback is a return to a saved state. `Resolution` relies on that: there, a
marker *is* the saved state, and the log is gone. Conversely `SldLog` takes from
resolution only that a predicate returns true when no goal is pending
(`ReturnTrue`); `Resolution` establishes it (`SuccessSolvesAll`). `GeneratedCode`
runs one function at a time: its `rollback` returns to the state at the marker, as
`SldLogRefinement` shows it may, and the predicates it calls and the goals it
leaves are answered from outside, which is what `Resolution` is about.

### SldLog and the code

* `mem` maps an address to a representation or to `Free`. A representation has a
  type byte (type, "set" bit, "annotated" bit) and words (`slot`); the first word
  is the value of an Int, Bool or Ptr, what a bound Variable is bound to, and the
  first subterm of a compound term, for all of these share an offset.
* `log` is `sldLog`; an entry has the class of its source. `ReplaceMemoryObject`
  has two instances, for a word and for a type byte.
* `frames` are the markers on the C stack: of predicates and of exported
  functions. `mode` is `"rollback"` while `_DI_rollbackToMarker` is in its loop,
  one turn of which is one step, and `"aborted"` after `_DI_failed`.
* `hist` is history: the state in which each entry was pushed. It is read by no
  guard.
* Freed addresses may be allocated again, and a fresh representation may hold
  junk. Pointee types and names are not kept; they are never written again
  after allocation.

Actions: `AllocateValue`, `AllocateCompound`, `AllocateVariable`
(`_DI_allocate*`), `AssignSubterm` (`_DI_assign*`), `RecordInSubstitution`,
`SetPtrValue`, `DeepCopy` (any copy of up to `MaxCopy` representations, with
sharing as the code has it), `AddGoal`, `RemoveGoal` (the turn of
`_DI_continueSldResolution`), `EnterExport`, `EnterPredicate`, `ReturnTrue`,
`StartRollback`, `Revert`, `EndRollback`, `Failed`.

### Unify and the code

`todo` is the recursion of `_DI_unify`: pairs still to be unified, and the checks
of annotations a call makes on its pair before it returns. Actions are the
branches of the function. A call in which `followSetVars`, `hasInStructure` or
`verifyAnnotation` would not return has no step. Names and pointee types are
`Tags`. `hasInStructure` compares nothing with the variable it looks for, so its
model says only whether it returns.

### Resolution and the code

`stack` is the C stack, one record per activation: `native` C code, an `export`ed
function, an `invoke` (`_DI_invoke`), a `predicate`, or a `continue`
(`_DI_continueSldResolution`). `answer` is what the last call returned. A
predicate has a head with one argument (a value, a variable, or a variable that
is not the head's), and a body of statements: a goal, an explicit call or a
unification of its variable, or C code. Two-argument calls (arguments and result)
are unified one after the other by the same operation and differ in nothing
these properties can tell. Terms are values or variables; compound terms
are the business of `Unify`. `found` and `from` are history.

### NameResolution and the code

`scopes` is the vector of the same name; a scope has the tables `type`
(`typeDefinitions`) and `term` (`atomicTermDefinitionExpressions`), total functions
whose value for a name that is no key is `Absent`. An entry is a definition and
`old`, the index it replaced. `scopeOf` is the map of the same name. Positions are
counted from 1, so the code's −1 is 0 (`NoScope`). `definitionTerms` is left out,
for the parser makes no `DefinitionTerm`.

The tree is chosen during the walk: `visits` holds the visitor that opened each
scope and how many of its blocks it has gone through, and `MayEnter`, `MayLeave`
and `HasExpressions` say which node the grammar and the order of the visitor allow
next. `EnterScope` and `LeaveScope` are the constructor and the destructor of
`ScopeGuard`, `Refer` is a `NameReferenceExpression`, `NameField` a `NamedType` in a
record, `Define` an `AtomicTermDefinitionExpression` with its type. `answer` is what
the last lookup returned: a definition, `Undefined` (reported), `Wild` (read from
memory that is no scope) or `Crash`; after a crash the pass is stopped. `serial`
tells the definitions of a name apart.

### The compiler and the code

`source` is the module as it was parsed, `module` its tree with what the passes
store in it, `phase` the pass that comes next. `RunAstVisitor` is the function
of that name; the actions called after the passes apply their operators to the tree.
Names are assumed to be resolved and different. A record is known by its name, and
its type carries the definitions of all records of the module (`Reified`, `FieldsOf`):
a field is looked up when it is needed, so a record may refer to itself through a
pointer, or be a part of itself, which is found while a term of it is emitted
(`Recurs`). `isCallMode` has no value when the first head is
visited, so the action `QuoteCallResolution` chooses one.

In `Statements`, an action is what one visitor does between two nodes it descends
into. `frames` are the visitors in progress with the statements they have left
(the C++ stack), `at` is the insertion point of the builder, `blocks` are the basic
blocks, each with the function it was put into; a block that was created without
a function is in `NoFunction` until it is pushed back. The code of an expression
is one instruction, `"term"`, that carries the expression and the `failedBlock` of
the moment; the others are single LLVM branches or runtime calls. `failedBlock` has
no value before the first head was emitted (`BranchesToNothing`), nor has the `result`
of an emitter that has made no term yet (`ReadsJunk`): to read either may crash or not. `accepted` is
history: the functions of the module, which `ListedInOrder` compares the list with.

`NameMangling` puts the visitors of `NameMangler` one node after another. What they
have left to visit on the C++ stack is a list (`left`), from which a visit takes
the first node, adds its piece to the name and puts the nodes below it back in
front; `Visits` is how many nodes are visited, more than any signature of the
families has that ends. The visitors go through pointers into the fields of records,
so a record that refers to itself keeps them visiting for ever (`NameNeverEnds`), and
the compiler crashes on the C stack (`NameFails`); for every signature of the families the
run `compiler` evaluates that nodes are left after `Visits` exactly if there is such
a record in it (`SignaturesAssumption`). A name
refers to a definition and adds nothing; nor do the types `dynamic` and
`function`, which may be written (`Compiler.cxx:20`) but have no visitor. A count
of arguments is tagged, for it begins with a digit and other pieces do not.

In `Terms`, `Eval` is the code of `TermEmiter` executed: `mem` are representations,
`env` the stack slots of variables, `val` the `result` of the emitter, `status` how
the code goes on (`"failed"` branches to `failedBlock`; the other values are
the assertions of the runtime, a trap of the processor, a read through a pointer
that was never set, and an endless `followSetVars`). An assignment evaluates its
right side, then finds the location on the left (`Locate`), copies what is there
(`Detach`) and evaluates the left side again to store into the copy (`Store`), as
`visit(AssignExpression)` does. `Width` is the width of an int.

`GeneratedCode` calls a function as `_DI_invoke` does, with a symbol and a place for
the result, and executes instructions; every time a predicate is called or goals
are to be solved, `Answer` chooses what comes back: failure, success that leaves the
result alone, or a value.

`SourceMeaning` gives values to names directly: a variable has a value or is one of
several names that are the same unknown, a record is its fields, assignment
replaces a part of a value, and loops are recursion. Nothing in it is copied,
bound or shared. What reads a pointer that was never set, and the unification of
two set pointers, are `"undefined"`.

## 3. What the runs check

All runs are in `PROJECT.json` with their properties. Each property is one that
a plausible bug in the code would break; `mutants` gives such a bug for each.

| run | question | size |
|---|---|---|
| `sldlog` | nested calls to depth 3 over three addresses and a log of five entries: is the log exact, does it own the heap, are there dangling pointers or endless chains, are the marker assertions true, does it implement `Backtracking`? | 1.7 million states |
| `deep_copy` | copies are written without log entries: is the log still exact? four addresses | 4 s |
| `unify` | all pairs of terms in all heaps of four representations with two names, two values and up to one annotated term | 1.1 million states |
| `resolution` | 1536 programs of five clauses, called from C, with C code calling back once | 1.0 million states |
| `names` | functions with nested statements, six open scopes, three variables over three names of which one is a builtin type: are the index and what a scope puts back exact, does the pass implement lexical scopes? | 227 thousand states |
| `compiler` | eight families of modules, each compiled and each of its functions run with every answer: does the code follow the source, are ill-formed modules rejected, are blocks whole, functions listed in order, symbols distinct, and does everything end? | 86 thousand states |

The bounds: an entry of the log is about one representation or one goal, so an
inexact one shows with two representations and the entry after it; three
addresses suffice for a term that refers to a term that is freed and reused, and
three frames for a rollback past two inner markers. `MaxLog`, `MaxFrames`,
`MaxGoals` and `MaxCopy` cap `SldLog`, whose real counterparts are limited by
memory only. In `unify`, four representations hold two compound terms over
shared subterms, the smallest heap in which a binding made by one subterm meets
another; `MaxTodo` is never reached there. Heaps
are built oldest first, so that initial terms are finite, as the compiler's are.
In `resolution` the predicates call each other in one direction only, so every
program should stop; `MaxNative` is the number of nested C activations: one that
calls the program, and one that is called by it and calls back. `Depth` is how many
steps the procedure is followed for each call that is compared with it: at 60 it
ends for every call of the family, at 30 it does not.
In `names`, six scopes reach the blocks of an `if` in a function and the parts of
a `for`, and three variables are a definition, one that shadows it, and one after
that scope is left. The names that are not builtin are interchangeable, so they
form a symmetry set.

In `compiler`, the families are: `if`, `for`, `break` and `continue` within one
another to depth three, and in a function after another with a loop (`ControlFlow`);
sequences of two of nineteen and three of nine assignments and unifications over
ints, records in records, variables and pointers, followed by a call that shows
every variable (`Values`); every operator with operands of every type
(`Operators`), and every operation of ints with all pairs of values (`Numbers`);
definitions of every kind, alone and after another (`Heads`); calls and quotes
within one another (`Quoting`); modules that passes reject or crash on
(`IllFormed`); and modules with records that refer to themselves (`SelfReferring`): all
sequences of three of eleven assignments and unifications over two terms of a linked
list and a pointer, which may close a circle, then shown to a call; and linked lists and records
that are a part of themselves, directly or through another, in heads of every kind and
in bodies. `Width = 3` gives eight ints, which include the least one, zero and
−1, and products that overflow. `MaxAnswers = 5` bounds the answers other than
failure in one run: enough for two turns of a loop in a loop and to leave
both; then every further call fails, which also ends what would go on for ever.

Fairness: `Resolution` assumes weak fairness of `Next`. One thread runs the
program and it takes a step whenever it can; the only choice that is not the
program's own is C code's, which makes boundedly many calls and then returns.
`Terminates` needs nothing more. `Compiler` assumes the same of the compiler and
of the code it made (`GoesOn`): it is written without `ENABLED`, which is the same
since deadlock is checked: in every state where not all is done there is a step,
and `GoesNowhere` adds the one step that may change nothing, a block that
branches to itself. `EverythingEnds` holds although loops may be endless, for each
turn asks for an answer. Properties of `SldLog`, `Unify` and
`NameResolution` are safety properties.

Where a run may stop: after `_DI_failed`, after the last call from C has
returned, and when a unification has returned or has no step (an endless loop of
the code); a walk stops at the bounds or when the compiler crashes. These
configurations do not check for deadlock.

### Where the code departs from its documents

Six runs state what the thesis, a sample or a message of the compiler says and
find it violated:

* `unify_self` – "This graph is acyclic": `int a; int b; a === b; a === b;` binds
  a variable to itself, and the next use of it does not return (`runtime.cxx:503`
  does not test for equal operands, the branch at 458 does).
* `unify_infinite` – "Unification cannot be used to create infinite terms":
  `hasInStructureImpl` never compares, so `X === f(X)` succeeds.
* `unify_unset` – "All terms of annotated type … shall have a value": the
  branches that bind a variable do not check annotations.
* `unify_early` – the same requirement is to be checked after the algorithm has
  succeeded; the code checks each pair before later ones are unified and fails on
  terms that would have had a value.
* `resolution_eager` – "`0 <= index < edges(vertex)`" says a sample of its C
  function `edge`; a call in an argument of a goal is made when the goal is
  added, before the goals in front of it are resolved, so the guard
  `lt(i, $edges(x))` comes too late.
* `names_undefined` – "Undefined term" is what the pass reports for a name that is
  not defined. When the scope that first defined a name is left, the name stays in
  `scopeOf` with the index −1, and the next reference reads `scopes[-1]`:
  `f(int x) :- ; g() :- x;`. `ResolvesLexically` speaks of names that are
  defined, and says of others only that no definition is found.

Other departures were met while the compiler was modelled. No text of the
repository contradicts them, so they are no runs that expect a violation; the
properties of `compiler` name the programs they exclude, and nothing else:

* The first pass never reaches a function body (`BasicCorrectness.cxx:13`), so
  assignments to what is no location are found by the code generator, and an
  assignment to an assignment, which the check would allow, hits an assertion there
  (`CompilesOrReports`).
* A `for` without a condition, the address of a call's result, a member of a
  type annotated twice, an `extern "C"` definition without a result part, and a
  `void` function that C could call crash the compiler (`CompilesOrReports`).
* `record R { R* n; }` is accepted, but a function with an `R` or `R*` in its head crashes the
  compiler: its symbol has no end (`NameMangler.cxx:83`). A variable of a record that
  is a part of itself is reported, with a term that may never have been made
  (`Codegen.cxx:1035`, 1659); as argument of an `extern "C"` definition it is
  looked at for ever (`CompilesOrReports`).
* Whether a function term in a head is a call is decided by an uninitialised flag
  (`QuoteCallResolution.hxx:17`); if it is, its failure branches to the block of
  the previous function or of none (`BlocksAreWhole`).
* `*f() = v` calls `f` twice (`StoresTwice` in `FollowsSource`).
* Names that refer to other arguments, and the types `dynamic` and `function`, add
  nothing to a symbol (`LeavesNoTrace` in `DistinctSymbols`), and a `void` result looks
  like one of type `var`, as which it counts there.
* Conditions are not type-checked, and whatever a call gives has the type `dynamic`
  (`RightTypes` speaks of functions in which all types are known).

The properties of the passing runs account for what the six runs show: `ChainsEnd` allows a term
bound to itself, `UnifiedAreEqual` speaks of acyclic terms, `AnnotatedRootsHaveValues`
of the branches that check, `Complete` excuses failures where annotations are involved.

## 4. What is proved

With `tlapm`, for every value of the constants that satisfies the assumptions
declared next to them:

* `SldLogProofs`: `TypeCorrect`, `LogExact`, `MarkersCorrect`. The inductive
  invariant is `IInv`, the conjunction of `TypeOK`, `MarkersNest` and
  `LogIsExact`: that an entry restores the state before it is kept by growing the
  log only if the new entry is the inverse of the write, which in turn needs the
  types; and a rollback stays exact because it removes entries from the end.
* `SldLogHeapProofs`: `HeapOwned`, `NothingDangles`, `EveryChainEnds`, `BindingsStay`.
  `LogOwnsHeap` is not inductive, for a rollback uncovers older states: `Owned` says
  for every `n` that the state in which the log had `n` entries has exactly the
  terms that these allocated, and that none of them was allocated twice. For
  pointers and chains no such statement holds entry by entry (a rollback frees a
  copy before the copy that refers to it), so `SoundAtMarks` speaks of the markers:
  the state at each was sound when the marker was taken, the log below it does not
  change, and a rollback ends at a marker. `WrittenKeeps` is the step: one term is
  written, which was not bound, with references to terms that exist; it takes the
  guards of `IsCompound`, of `IsFollowed` and of the self-binding to satisfy it.
* `SldLogRefinement`: `LogImplementsBacktracking`. Under the mapping, the program
  counts as being in the state of the marker from the beginning of a rollback;
  each saved state is the recorded state at the marker, which stays what it was
  while the call runs because the log below the marker does not change. Each step
  of `SldLog` maps to a step or a stutter.
* `UnifyProofs`: `TypeCorrect`, `UnifierExists`, `FailsForAReason`,
  `LinksAreNeeded`, `EqualInTheEnd`, `AnnotationsHold`, `BindsOnly`. `UnifyInv` is about a
  unification in progress. `General`: every unifier of the terms, as they were at
  the call, respects the links made so far and equates what is in `todo`.
  `Built`: there is a partition that respects the links, in which no two terms of
  a class differ, and of which every coarser one that equates what is in `todo`
  is a unifier; so when nothing is in `todo` it is one itself, the most general.
  A step that links a variable merges two classes of this partition, and it
  takes `Kept` (nothing but the bound terms has changed since the call) and that
  a term without value is alone in its class until it is bound. That an answer "fails"
  has a reason is read off `General`: no unifier equates the pair that failed. Equality as `_DI_equals` sees
  it follows from the partition, along the heap's order, only where the terms are
  acyclic in the end. Annotations are by an invariant of their own (`RootsInv`): a
  value stays where it is, so the terms a branch has checked have values.
* `ResolutionProofs`: `StateTyped`, `SuccessMeansAllSolved`, `OneTurnIsEnough`,
  `EveryRetryFromStart`, `CallsFromCRestore`, `AnswersAreOfProcedure`,
  `ProcedureIsFollowed`. `LoopInv` says
  which activation may have been called by which, that a `continue` that has
  received no answer has made no turn, and that an answer "true" comes with an
  empty goal list. Success starts in `ContinueReturns` with an empty list and is
  only passed on; a second turn would need a pending goal after success. `SafeInv`
  adds where states come from: what an activation received as the state of its call
  is what its marker restores, a clause that fails has restored it, and a
  failed call leaves the state in which it was made; so each retry of
  `_DI_invoke` starts from the state of the first, and a call from C ends in the one
  it came with. The clauses tried and left are those of the program
  (`RunsClauses`). Nothing is assumed of values, bindings or programs. That the
  answers are those of the thesis's procedure takes a third invariant, `Foretold`. The
  procedure need not end, so it is first shown that what it says after `n` steps it
  says after more (`InKeeps`), and that what tasks come to in the end (`Meaning`) obeys
  the procedure's own equations (`MeaningMade`: one step looks at the outcomes of
  two tasks at most, `DependsOnTwo`). `Foretold` then gives each activation on the
  stack the outcome it is bound for: a call of `_DI_invoke` that of its attempt;
  what is below it, its own as a function of the one above (`Awaits`: a clause that
  fails leaves what the remaining ones come to, a call that succeeds what the
  rest of the body does in the state it leaves); the running one, what its
  equation says in the present state (`Heads`). Each step of the machine is one use of an
  equation, `SafeInv` showing that the state tried is the state of the call
  and that C code changes nothing; so an answer, when there is one, is the outcome
  foretold. A call that never answers is not spoken of.
* `NameResolutionProofs`: `MembersTyped`, `IndexStaysExact`, `ChainsStayExact`. The
  inductive invariant is the conjunction of the three: the index is exact after a
  scope is left because the definitions in it remember exact indices (`ChainsExact`),
  and a new definition remembers an exact index because the index is exact. That
  a variable is never recorded in the scope of the types (part of `TypeOK`) makes
  one remembered index per name and scope enough.
* The same module has `NamesResolveLexically`. An environment is the
  sequence of the scopes' meanings; `SearchFacts` says that the search through it
  ends where the index points, `LookupResolves` that a lookup answers with what
  the search finds, or fails when that is not of the sort asked for. Each action
  maps to the action of the same kind; a redefinition maps to a definition
  that changes nothing.
* `StatementsProofs`: `TargetsKept`, `EmittedIsCode`, `FieldsHaveTypes`, `ListKeepsOrder`.
  While the body of a loop is emitted its target blocks are fields of the visitor, and those of the loops around it are in its
  frames. The invariant `WellNested` says that each loop in progress has saved the
  targets that hold outside of it, down to the footer of the function and `NoBlock`;
  `LoopLeft` and `BranchLeft` need it to put back the right ones. Nothing is assumed
  of the functions or of their statements. For `EmittedIsCode`, `CodeInv` says what
  is true of the blocks between two steps. Every visitor in progress owes blocks
  (`Owes`: a `for` the blocks after it and for its next turn, a function its footer and its
  failed block, and so on), no two the same; blocks that are owed are in no
  function and empty, one block is open, and every other ends in its only
  terminator (`Laid`). Each block has an owner, the function that it is or will be
  put into, and instructions go to blocks of the same owner. A jump closes the
  open block and opens another, a visitor that is left puts what it owes into the function
  and closes one block for each it opens, and at the end of the function nothing is owed
  and no block open. The hypothesis
  `MadeOf` says that statements contain statements and definitions consist of
  them, to any depth; the module of the run `compiler` assumes it of its families,
  so TLC checks that they satisfy it. `FieldsHaveTypes` is read off `CodeInv`
  while a function is emitted, for then what the fields refer to is owed or open;
  between functions they keep what they had (`TypeInv`). It speaks of `CodegenTypeOK`, the
  conjunct of the run's `TypeOK` that is about `Statements`. For `ListKeepsOrder`,
  `ListInv` splits the accepted functions into those visited and those left. The
  visited ones are in the list, each at its place, but for a C function in progress:
  it is made when it is entered and listed when it is left, and until then it is the
  one that is missing at the end of the list. An error or an `extern "C"` definition without
  a result part, which is listed as the function before it, spoils this for good.
  `AreLists` says only that the functions of a module are a list.
* `NameManglingProofs`: `SymbolsAreDistinct`. Two walks that end with the same name are
  compared visit by visit (`Lockstep`): if the names are equally long so far and the same
  number of nodes is left, both names continue at the same place of the whole one, so the
  next pieces begin alike; the first element of a piece says of what kind the node is, and
  so how long the piece is and how many nodes follow (`Decoded`); so the next
  states are level too. It takes pieces that are not empty, hence `LeavesNoTrace`. The
  recursive function `Walk` is shown to exist (`WalkExists`) and to be what its steps
  say (`WalkSteps`), and each name begins the next (`NameGrows`). The hypothesis
  `HaveNodes` says that definitions have signatures made of nodes and that a
  record is known by its name in its module; TLC checks it of the families after
  type checking (`SignaturesAssumption`).

The proofs assume nothing beyond that and the constants' assumptions, which say that
values, addresses and junk, definitions and answers are told apart and that bounds
are numbers. The log's bound makes no difference to them: it only removes steps.

Where an argument goes along a list, a chain or a nesting of any length, the proofs take
the least counterexample: the numbers are well-founded
(`NatLessThanWellFounded` of the library), so a set of them that is not empty has
a minimum (`WFMin`), and an induction over numbers is the lemma that a set
containing 0 and all successors has no least element outside. The recursive functions of
`Resolution`, `ResolutionCorrect`, `UnifyCorrect` and `NameMangling` are proved to exist in the same way,
one more argument at a time.

Only model-checked: of the run `compiler`, `TypeOK` of the whole compiler,
`RightTypes`, `CallsAsWritten`, `CompilesOrReports`, `IllFormedIsRejected`,
`FollowsSource` and `EverythingEnds`; and `Terminates` of `Resolution`. Out of the prover's reach are
liveness under fairness (`Terminates`, `EverythingEnds`), and modules that use recursive
operators: the reference `SourceMeaning`, and `SyntaxTree`, `Types`, `Terms`, `TypeChecking` and
`CTypes`, which recurse over syntax trees, and so all of `Compiler`. `Statements`
and `NameMangling` are proved about by themselves, with any modules: `Compiler` gives
them the trees that the passes have made.

## 5. What is not modelled, and the plan

Not modelled: the tokens, precedences and tables of the parser, pretty printing,
LLVM itself, the types of its values (a `bool` is passed as an `i8` where the
prototype of `_DI_allocateBool` has an `i1`: `Codegen.cxx:778`, 1095) and the files it
writes; the C stack and memory limits, and so the stack slots that a definition in a
loop takes in each turn; the release build without assertions. The log's markers are
unbounded numbers; the code's are 32 bits wide.

Of the compiler: how an exported C function converts its arguments and results,
and what an imported one returns; names declared `dynamic` or `function`, for
which no term is made; errors of name resolution (the module `NameResolution` has
them); heads whose arguments refer to the result in calls, and the code of heads that call. Of pointers without a value only that
reading them is undefined. `SourceMeaning` leaves open what the unification of two
set pointers means (hazard at `runtime.cxx:528`).

Plan, in order:

1. *(done)* log and backtracking; unification; resolution; their theorems.
2. *(done)* name resolution: the scope stack, against an abstract environment; its
   theorems.
3. *(done)* code generation for statements: blocks, against structured control flow;
   the theorem about the targets of jumps.
4. *(done)* assignment: locations, detaching and storing, against values without
   sharing; integer arithmetic at its width.
5. *(done)* quote and call resolution, type checking, mangling, and the pipeline.
6. Exported functions' arguments and results, between `Resolution` and
   `GeneratedCode`.
7. *(done)* Proofs: the heap of `SldLog`; unification, and that it binds only what it
   should (`OnlyBinds`); the restoring properties of `Resolution`, and that it
   follows the procedure; that emitted code is whole and functions are listed in order;
   what symbols tell apart (`DistinctSymbols`).
