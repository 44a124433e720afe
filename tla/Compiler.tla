------------------------------- MODULE Compiler -------------------------------
(***************************************************************************)
(* The compiler from a parsed module to its code, and the code run: the    *)
(* passes of Compiler::compile one after another, each only if the one     *)
(* before reported nothing, with NameResolution taken to have succeeded;   *)
(* the visitors of Codegen step by step; what its destructor exports; and  *)
(* then a call of one of the functions.                                    *)
(***************************************************************************)
EXTENDS NameMangling, CTypes, SourceMeaning, GeneratedCode

ASSUME GrammarAssumption == \A m \in Modules : IsModule(m)

VARIABLES
    source,    \* history: the module as it was parsed
    module,    \* its tree, which the passes store what they find out in
    phase      \* the pass that comes next, "emitting", "compiled" or "rejected"

vars == <<source, module, phase, codegenVars, runVars>>

Init ==
    /\ source \in Modules
    /\ module = source
    /\ phase = "BasicCorrectness"
    /\ CodegenInit
    /\ RunInit

(***************************************************************************)
(* The passes                                                              *)
(***************************************************************************)
InAllFunctions(Of(_)) == Union([i \in DOMAIN module.functions |-> Of(module.functions[i])])

RunAstVisitor(this, reported, tree, next) ==
    /\ phase = this /\ ~crashed
    /\ errors' = reported
    /\ module' = tree
    /\ phase' = IF reported = {} THEN next ELSE "rejected"
    /\ UNCHANGED <<source, accepted, pending, frames, made, functions, blocks, at,
                   failedBlock, afterForBlock, nextForBlock, crashed, runVars>>

BasicCorrectness ==
    RunAstVisitor("BasicCorrectness", BasicErrors(module), module, "QuoteCallResolution")

QuoteCallResolution ==
    \E isCallMode \in BOOLEAN :
        RunAstVisitor("QuoteCallResolution", InAllFunctions(CallErrors),
                      [module EXCEPT !.functions = [i \in DOMAIN @ |-> WithCalls(@[i], isCallMode)]],
                      "RecordDefinitionsCollector")

RecordDefinitionsCollector ==
    RunAstVisitor("RecordDefinitionsCollector", RecordErrors(module), module, "TypeChecking")

TypeChecking ==
    IF \E i \in DOMAIN module.functions : TypeCrashes(module.functions[i], module)
    THEN phase = "TypeChecking" /\ Crashes /\ UNCHANGED <<source, module, phase, runVars>>
    ELSE RunAstVisitor("TypeChecking", InAllFunctions(LAMBDA f : TypeErrors(f, module)),
                       [module EXCEPT !.functions = [i \in DOMAIN @ |-> Typed(@[i], module)]],
                       "Codegen")

(***************************************************************************)
(* Code generation                                                         *)
(***************************************************************************)
Codegen ==
    /\ phase = "Codegen"
    /\ Accept(module)
    /\ phase' = "emitting"
    /\ UNCHANGED <<source, module, runVars>>

Emits(action) == phase = "emitting" /\ action /\ UNCHANGED <<source, module, phase, runVars>>

\* The types of the names of a definition after TypeChecking.
TypesIn(f) == NamesOf(f, [records |-> <<>>])
ImportErrorsOf(f) == ArgumentsErrors(f, TypesIn(f))
ImportFailsFor(f, reported) ==
    ArgumentsNeverEnd(f, TypesIn(f)) \/ (reported = {} /\ ImportFails(f, TypesIn(f)))

\* What is exported to C: functions under their name, if all of that name agree.
ToExportC(name) == {f \in Exported : made[f].name = name /\ ExportType(made[f], TypesIn(made[f])) # NoCType}
IsExportedToC(name) == Cardinality({ExportType(made[f], TypesIn(made[f])) : f \in ToExportC(name)}) = 1

\* The destructor, unless errors were reported.  It crashes if `void' is to be given
\* to C, and may if it is to write what is no code.
IsCode == \A b \in DOMAIN blocks : IsBlock(b)
CannotExport == \E f \in Exported : IsExportedToC(made[f].name) /\ ExportFails(made[f], TypesIn(made[f]))
Finish ==
    /\ phase = "emitting" /\ pending = <<>> /\ frames = <<>> /\ ~crashed
    /\ \/ errors # {} /\ phase' = "rejected" /\ UNCHANGED codegenVars
       \/ errors = {} /\ ~CannotExport /\ phase' = "compiled" /\ UNCHANGED codegenVars
       \/ errors = {} /\ (CannotExport \/ ~IsCode) /\ Crashes /\ UNCHANGED phase
    /\ UNCHANGED <<source, module, runVars>>

(***************************************************************************)
(* The code run, if it is code                                             *)
(***************************************************************************)
Run(action) == phase = "compiled" /\ action /\ UNCHANGED <<source, module, phase, codegenVars>>

\* A function is called whose head is made of terms only.
CallsNothing(list) == \A i \in DOMAIN list : ~MayFail(list[i])
Invoke == Start /\ CallsNothing(HeadOf(made[running'])) /\ IsCode

\* Nothing is left to do, or nobody calls a function of what was compiled.
Ended ==
    \/ phase = "rejected" \/ crashed \/ outcome # "none"
    \/ phase = "compiled" /\ running = NoFunction
Done == Ended /\ UNCHANGED vars

Next ==
    \/ BasicCorrectness \/ QuoteCallResolution \/ RecordDefinitionsCollector \/ TypeChecking
    \/ Codegen \/ Emits(Emission) \/ Finish
    \/ Run(Invoke) \/ Run(CodeStep) \/ Run(Answer)
    \/ Done

\* The compiler goes on until it has finished, and so does the code once it was
\* called.  This is the weak fairness of Next: no step changes anything when all
\* is done or a block does nothing but go to itself, and in every other state there
\* is a step, or that state would be found to be a deadlock.
GoesNowhere == Ended \/ (Does("br") /\ pc = [block |-> Instruction.to, next |-> 1])
GoesOn      == []<>GoesNowhere \/ []<><<vars' # vars>>_vars
Spec == Init /\ [][Next]_vars /\ GoesOn

=============================================================================
