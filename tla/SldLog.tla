------------------------------- MODULE SldLog -------------------------------
(***************************************************************************)
(* The backtracking core of the runtime library (runtime/runtime.cxx): the *)
(* memory that holds term representations, the list of pending goals, and  *)
(* the log (sldLog) by which a failing predicate undoes everything that    *)
(* was done since it was entered.  The generated code drives it: every     *)
(* predicate takes a marker on entry, and either returns true or rolls     *)
(* back to that marker and returns false; every function exported to C     *)
(* takes a marker, tries the predicates of its name in turn, and rolls     *)
(* back after each of them.                                                *)
(***************************************************************************)
EXTENDS Integers, Sequences

CONSTANTS
    Addr,           \* addresses malloc may return
    Values,         \* integers a term may hold
    Junk,           \* an uninitialised word
    Free,           \* the content of memory that is not allocated
    FunctionLists,  \* lists of predicates a goal is resolved against
    Types,          \* the kinds of terms the program uses
    Annotations,    \* annotated, not annotated, or both
    MaxFields,      \* subterms of a compound term
    MaxLog, MaxFrames, MaxGoals, MaxCopy   \* bounds for model checking

TypeIds  == {"Int", "Bool", "Ptr", "Record", "FunctionSymbol", "Variable"}
Compound == {"Record", "FunctionSymbol"}
Fields   == 1..MaxFields
Words    == Addr \cup Values \cup {Junk}

\* A representation: the bits of the type byte, and the words after it.  The
\* first word is the value of an Int, Bool or Ptr and the target of a bound
\* Variable (the same offset in all of them), or the first subterm.
Cell == [type : TypeIds, set : BOOLEAN, annotated : BOOLEAN,
         slot : [Fields -> Words]]

\* A variable recordInSubstitution has overwritten, which followSetVars skips.
Bound(cell) == cell.type = "Variable" /\ cell.set

Goal == FunctionLists \X Addr

\* One entry of sldLog, named for the class of the source.
Entry == [op : {"ReplaceMemoryRegion"}, at : Addr, old : Cell]
    \cup [op : {"ReplaceWord"}, at : Addr, index : Fields, old : Words]
    \cup [op : {"ReplaceTypeByte"}, at : Addr, old : BOOLEAN]
    \cup [op : {"AllocateMemory"}, at : Addr]
    \cup [op : {"AddGoal"}]
    \cup [op : {"RemoveGoal"}, goal : Goal]

ASSUME ConstantsAssumption ==
    /\ MaxFields \in Nat \ {0}
    /\ MaxLog \in Nat /\ MaxFrames \in Nat /\ MaxGoals \in Nat /\ MaxCopy \in Nat
    /\ Types \subseteq TypeIds /\ Annotations \subseteq BOOLEAN
    /\ Addr \cap Values = {}
    /\ Junk \notin Addr \cup Values
    /\ Free \notin Cell

VARIABLES
    mem,      \* the heap
    goals,    \* sldGoalList
    log,      \* sldLog
    frames,   \* the running predicates and exported functions, each with its marker
    mode,     \* "run", "rollback" inside _DI_rollbackToMarker, "aborted" after _DI_failed
    hist      \* history: hist[i] is the state in which log[i] was pushed

vars == <<mem, goals, log, frames, mode, hist>>

Frame == [kind : {"predicate", "export"}, mark : Nat]
Snapshot == [mem : [Addr -> Cell \cup {Free}], goals : Seq(Goal)]

Top  == frames[Len(frames)]
Pop  == SubSeq(frames, 1, Len(frames) - 1)
Live == {a \in Addr : mem[a] # Free}
Now  == [mem |-> mem, goals |-> goals]

Init == /\ mem = [a \in Addr |-> Free]
        /\ goals = <<>>
        /\ log = <<>>
        /\ frames = <<>>
        /\ mode = "run"
        /\ hist = <<>>

(***************************************************************************)
(* Pushing entries on the log.  A write is preceded by the entry that      *)
(* remembers what it overwrites, an allocation is followed by its entry;   *)
(* `before' is the state each entry is meant to bring back.                *)
(***************************************************************************)
Push(entries, before) ==
    /\ Len(log) + Len(entries) <= MaxLog
    /\ log' = log \o entries
    /\ hist' = hist \o before

\* Terms are built, bound and assigned by the code of a running predicate or
\* of an exported function.
Running == mode = "run" /\ frames # <<>>

\* A representation followSetVars returns.  Mutant: it is not called.
AnyTerm(a)    == a \in Live
IsFollowed(a) == a \in Live /\ ~Bound(mem[a])

\* Mutant of IsCompound: a variable bound to a compound term passes for one.
IsSetTerm(a)  == a \in Live /\ mem[a].set
IsCompound(a) == a \in Live /\ mem[a].type \in Compound

\* The entries for a write, made before it.  Mutants: made after it.
WordEntryAfter(a, i)  == [op |-> "ReplaceWord", at |-> a, index |-> i, old |-> mem'[a].slot[i]]
WordEntry(a, i)       == [op |-> "ReplaceWord", at |-> a, index |-> i, old |-> mem[a].slot[i]]
RegionEntryAfter(a)   == [op |-> "ReplaceMemoryRegion", at |-> a, old |-> mem'[a]]
RegionEntry(a)        == [op |-> "ReplaceMemoryRegion", at |-> a, old |-> mem[a]]
TypeByteEntry(a)      == [op |-> "ReplaceTypeByte", at |-> a, old |-> mem[a].set]
AllocateEntry(a)      == [op |-> "AllocateMemory", at |-> a]

\* Mutant of NewTerm: what malloc returned is not filled in.
NewTermUnfilled(type, set, annotated, value) ==
    [type |-> type, set |-> set, annotated |-> annotated, slot |-> [i \in Fields |-> Free]]
NewTerm(type, set, annotated, value) ==
    [type |-> type, set |-> set, annotated |-> annotated,
     slot |-> [i \in Fields |-> IF i = 1 THEN value ELSE Junk]]

Allocate(a, term) ==
    /\ Running
    /\ mem[a] = Free
    /\ mem' = [mem EXCEPT ![a] = term]
    /\ Push(<<AllocateEntry(a)>>, <<Now>>)
    /\ UNCHANGED <<goals, frames, mode>>

\* _DI_allocateInt, Bool, Ptr: the value is given when the term is set.
AllocateValue(a, type, annotated, set, value) ==
    /\ value \in IF ~set THEN {Junk} ELSE IF type = "Ptr" THEN Live ELSE Values
    /\ Allocate(a, NewTerm(type, set, annotated, value))

\* _DI_allocateRecord, FunctionSymbol: always set, the subterms not initialised.
AllocateCompound(a, type, annotated) == Allocate(a, NewTerm(type, TRUE, annotated, Junk))

\* _DI_allocateVariable
AllocateVariable(a, annotated) == Allocate(a, NewTerm("Variable", FALSE, annotated, Junk))

\* _DI_assignRecordField, _DI_assignFunctionSymbolSubterm
AssignSubterm(a, i, subterm) ==
    /\ Running
    /\ IsCompound(a) /\ subterm \in Live
    /\ mem' = [mem EXCEPT ![a].slot[i] = subterm]
    /\ Push(<<WordEntry(a, i)>>, <<Now>>)
    /\ UNCHANGED <<goals, frames, mode>>

\* recordInSubstitution: an unset term becomes a bound variable, whatever it
\* was; its annotation stays.  _DI_unify does not bind a variable to itself, but
\* an Int, Bool or Ptr without a value it does.
RecordInSubstitution(unset, data) ==
    /\ Running
    /\ IsFollowed(unset) /\ IsFollowed(data)
    /\ ~mem[unset].set
    /\ mem[unset].type = "Variable" => unset # data
    /\ mem' = [mem EXCEPT ![unset].type = "Variable", ![unset].set = TRUE,
                          ![unset].slot[1] = data]
    /\ Push(<<RegionEntry(unset)>>, <<Now>>)
    /\ UNCHANGED <<goals, frames, mode>>

\* _DI_setPtrValue: one logged write, and a second one if the pointer was unset.
SetPtrValue(p, value) ==
    LET written == [mem EXCEPT ![p].slot[1] = value] IN
    /\ Running
    /\ IsFollowed(p) /\ mem[p].type = "Ptr" /\ value \in Live
    /\ mem' = [written EXCEPT ![p].set = TRUE]
    /\ IF mem[p].set
       THEN Push(<<WordEntry(p, 1)>>, <<Now>>)
       ELSE Push(<<WordEntry(p, 1), TypeByteEntry(p)>>,
                 <<Now, [mem |-> written, goals |-> goals]>>)
    /\ UNCHANGED <<goals, frames, mode>>

(***************************************************************************)
(* _DI_deepCopyRepresentation: `new' are the representations it allocates, *)
(* in order, src[j] is the (followed) representation new[j] is the copy    *)
(* of, and kid[j][i] is the position of the copy of its i-th subterm.  A   *)
(* subterm is copied as often as it occurs; what a pointer points to is    *)
(* not copied; an unbound variable becomes a fresh one.  The words of the  *)
(* copies are written without an entry in the log.                         *)
(***************************************************************************)
\* The terms on the chain of bound variables that starts in a; followSetVars
\* returns the one that is not bound, if there is one.
Chain(a) == {b \in Live : \A S \in SUBSET Live :
                a \in S /\ (\A c \in S : Bound(mem[c]) => mem[c].slot[1] \in S) => b \in S}

Subterm(a, i) == mem[a].type \in Compound /\ mem[a].slot[i] # Junk

Unfolds(src, kid) ==
    /\ \A j \in 1..Len(src), i \in Fields :
          IF Subterm(src[j], i)
          THEN /\ kid[j][i] > j
               /\ src[kid[j][i]] \in Chain(mem[src[j]].slot[i])
          ELSE kid[j][i] = 0
    /\ \A k \in 2..Len(src) : \E j \in 1..(k - 1), i \in Fields :
          /\ kid[j][i] = k
          /\ \A jj \in 1..Len(src), ii \in Fields : kid[jj][ii] = k => jj = j /\ ii = i

Clone(new, src, kid, j) ==
    [mem[src[j]] EXCEPT !.slot = [i \in Fields |->
        IF kid[j][i] > 0 THEN new[kid[j][i]]
        ELSE IF mem[src[j]].type \in Compound THEN Junk ELSE mem[src[j]].slot[i]]]

\* Mutant of Cloned: the last copy is written into the term it is a copy of.
ClonedInPlace(new, src, kid, n) ==
    [a \in Addr |-> IF n = Len(src) /\ a = src[n] THEN [mem[a] EXCEPT !.slot[1] = new[n]]
                    ELSE IF \E j \in 1..n : new[j] = a
                    THEN Clone(new, src, kid, CHOOSE j \in 1..n : new[j] = a)
                    ELSE mem[a]]
Cloned(new, src, kid, n) ==
    [a \in Addr |-> IF \E j \in 1..n : new[j] = a
                    THEN Clone(new, src, kid, CHOOSE j \in 1..n : new[j] = a)
                    ELSE mem[a]]

DeepCopy(new, src, kid) ==
    /\ Running
    /\ \A j \in 1..Len(new) : mem[new[j]] = Free
    /\ \A j, k \in 1..Len(new) : new[j] = new[k] => j = k
    /\ \A j \in 1..Len(src) : IsFollowed(src[j])
    /\ Unfolds(src, kid)
    /\ mem' = Cloned(new, src, kid, Len(new))
    /\ Push([j \in 1..Len(new) |-> AllocateEntry(new[j])],
            [j \in 1..Len(new) |-> [mem |-> Cloned(new, src, kid, j - 1), goals |-> goals]])
    /\ UNCHANGED <<goals, frames, mode>>

\* _DI_addGoal
AddGoal(functions, term) ==
    /\ Running
    /\ term \in Live
    /\ Len(goals) < MaxGoals
    /\ goals' = Append(goals, <<functions, term>>)
    /\ Push(<<[op |-> "AddGoal"]>>, <<Now>>)
    /\ UNCHANGED <<mem, frames, mode>>

\* One turn of the loop of _DI_continueSldResolution up to the call of
\* _DI_invoke: the first goal leaves the list, and a variable is allocated for
\* the result nobody uses.
RemoveGoal(unusedResult) ==
    /\ Running /\ Top.kind = "predicate"
    /\ goals # <<>>
    /\ mem[unusedResult] = Free
    /\ goals' = Tail(goals)
    /\ mem' = [mem EXCEPT ![unusedResult] = NewTerm("Variable", FALSE, FALSE, Junk)]
    /\ Push(<<[op |-> "RemoveGoal", goal |-> Head(goals)], AllocateEntry(unusedResult)>>,
            <<Now, [mem |-> mem, goals |-> Tail(goals)]>>)
    /\ UNCHANGED <<frames, mode>>

(***************************************************************************)
(* Markers: _DI_getLogMarker on entry of a predicate or of an exported     *)
(* function.                                                               *)
(***************************************************************************)
Enter(kind) ==
    /\ mode = "run"
    /\ Len(frames) < MaxFrames
    /\ frames' = Append(frames, [kind |-> kind, mark |-> Len(log)])
    /\ UNCHANGED <<mem, goals, log, mode, hist>>

\* C calls an exported function, at the start or out of an extern "C" predicate.
EnterExport == (frames # <<>> => Top.kind = "predicate") /\ Enter("export")

\* _DI_invoke, or an exported function, calls a predicate.
EnterPredicate == frames # <<>> /\ Enter("predicate")

\* The footer of a predicate: _DI_continueSldResolution has returned true,
\* which it does on an empty goal list only.
ReturnTrue ==
    /\ Running /\ Top.kind = "predicate"
    /\ goals = <<>>
    /\ frames' = Pop
    /\ UNCHANGED <<mem, goals, log, mode, hist>>

\* A predicate fails, or an exported function is done with a predicate (its
\* value has been read, or it has failed): _DI_rollbackToMarker starts.
StartRollback ==
    /\ Running
    /\ mode' = "rollback"
    /\ UNCHANGED <<mem, goals, log, frames, hist>>

\* All predicates of an exported function have failed: _DI_failed.
Failed ==
    /\ Running /\ Top.kind = "export"
    /\ mode' = "aborted"
    /\ UNCHANGED <<mem, goals, log, frames, hist>>

(***************************************************************************)
(* _DI_rollbackToMarker: one turn of its loop is one step.                 *)
(***************************************************************************)
\* Mutant of Freed: AllocateMemory does not free.
Leaked(m, a) == m
Freed(m, a)  == [m EXCEPT ![a] = Free]

RevertMem(e, m) ==
    CASE e.op = "ReplaceMemoryRegion" -> [m EXCEPT ![e.at] = e.old]
      [] e.op = "ReplaceWord"         -> [m EXCEPT ![e.at].slot[e.index] = e.old]
      [] e.op = "ReplaceTypeByte"     -> [m EXCEPT ![e.at].set = e.old]
      [] e.op = "AllocateMemory"      -> Freed(m, e.at)
      [] OTHER                        -> m

RevertGoals(e, g) ==
    CASE e.op = "AddGoal"    -> SubSeq(g, 1, Len(g) - 1)
      [] e.op = "RemoveGoal" -> <<e.goal>> \o g
      [] OTHER               -> g

\* The condition of the loop.  Mutants: it stops too late, or too early.
PastMarker   == Len(log) >= Top.mark /\ log # <<>>
ShyOfMarker  == Len(log) > Top.mark + 1
AboveMarker  == Len(log) > Top.mark

Revert ==
    /\ mode = "rollback"
    /\ AboveMarker
    /\ mem' = RevertMem(log[Len(log)], mem)
    /\ goals' = RevertGoals(log[Len(log)], goals)
    /\ log' = SubSeq(log, 1, Len(log) - 1)
    /\ hist' = SubSeq(hist, 1, Len(hist) - 1)
    /\ UNCHANGED <<frames, mode>>

\* The predicate returns false; the exported function returns to C, or tries
\* its next predicate.
EndRollback ==
    /\ mode = "rollback"
    /\ ~AboveMarker
    /\ mode' = "run"
    /\ \/ frames' = Pop
       \/ Top.kind = "export" /\ frames' = frames
    /\ UNCHANGED <<mem, goals, log, hist>>

Aborted == mode = "aborted" /\ UNCHANGED vars

Mutate ==
    \/ \E a \in Addr, annotated \in Annotations :
        \/ \E type \in Types \cap {"Int", "Bool", "Ptr"}, set \in BOOLEAN, value \in Words :
              AllocateValue(a, type, annotated, set, value)
        \/ \E type \in Types \cap Compound : AllocateCompound(a, type, annotated)
        \/ AllocateVariable(a, annotated)
    \/ \E a, subterm \in Addr, i \in Fields : AssignSubterm(a, i, subterm)
    \/ \E unset, data \in Addr : RecordInSubstitution(unset, data)
    \/ \E p, value \in Addr : SetPtrValue(p, value)
    \/ \E n \in 1..MaxCopy : \E new \in [1..n -> Addr \ Live], src \in [1..n -> Live],
                                kid \in [1..n -> [Fields -> 0..n]] :
          DeepCopy(new, src, kid)
    \/ \E functions \in FunctionLists, term \in Addr : AddGoal(functions, term)
    \/ \E unusedResult \in Addr : RemoveGoal(unusedResult)

Next ==
    \/ Mutate
    \/ EnterExport \/ EnterPredicate \/ ReturnTrue
    \/ StartRollback \/ Revert \/ EndRollback
    \/ Failed \/ Aborted

Spec == Init /\ [][Next]_vars

-----------------------------------------------------------------------------

\* Everything has its type, and there is one snapshot per entry of the log.
TypeOK ==
    /\ mem \in [Addr -> Cell \cup {Free}]
    /\ goals \in Seq(Goal)
    /\ log \in Seq(Entry)
    /\ frames \in Seq(Frame)
    /\ mode \in {"run", "rollback", "aborted"}
    /\ hist \in Seq(Snapshot) /\ Len(hist) = Len(log)

\* The state at the time the log had n entries.
At(n) == IF n < Len(log) THEN hist[n + 1] ELSE Now

\* Every entry of the log brings back the state it was pushed in, from the one
\* that followed: ReplaceMemoryRegion, ReplaceMemoryObject, AllocateMemory,
\* AddGoal and RemoveGoal each remember enough, and nothing that a rollback
\* would miss is written outside the log.
LogIsExact ==
    \A n \in 1..Len(log) : /\ RevertMem(log[n], At(n).mem) = At(n - 1).mem
                           /\ RevertGoals(log[n], At(n).goals) = At(n - 1).goals

\* The assertions of _DI_rollbackToMarker hold: no marker is ahead of the log,
\* and the markers of nested calls are nested.  The outermost call is one from C.
MarkersNest ==
    /\ \A f \in 1..Len(frames) : frames[f].mark <= Len(log)
    /\ \A f, g \in 1..Len(frames) : f <= g => frames[f].mark <= frames[g].mark
    /\ frames # <<>> => frames[1].kind = "export"
    /\ mode # "run" => frames # <<>>

\* The log owns the heap: the terms that exist are those with an AllocateMemory
\* entry, and each has one.  So a rollback frees everything that was allocated
\* since its marker and nothing twice.
LogOwnsHeap ==
    /\ \A n \in 1..Len(log) : log[n].op = "AllocateMemory" => log[n].at \in Live
    /\ \A a \in Live : \E n \in 1..Len(log) :
          log[n].op = "AllocateMemory" /\ log[n].at = a
    /\ \A m, n \in 1..Len(log) :
          log[m].op = "AllocateMemory" /\ log[n].op = "AllocateMemory" /\ log[m].at = log[n].at
          => m = n

Links(cell) == {cell.slot[i] : i \in Fields} \cap Addr

NoDanglingIn(s) ==
    /\ \A a \in Addr : s.mem[a] # Free => \A b \in Links(s.mem[a]) : s.mem[b] # Free
    /\ \A g \in 1..Len(s.goals) : s.mem[s.goals[g][2]] # Free

\* Outside a rollback no term and no goal refers to memory that was freed.
NoDangling == mode = "run" => NoDanglingIn(Now)

\* A chain of bound variables ends, or stalls in a term without a value that
\* was bound to itself: of every set of bound variables, one is bound to a term
\* outside the set, or to itself.
ChainsEndIn(m) ==
    \A S \in SUBSET {a \in Addr : m[a] # Free /\ m[a].type = "Variable" /\ m[a].set} :
        S # {} => \E a \in S : m[a].slot[1] \in (Addr \ S) \cup {a}

\* No cycle of bound variables is made, so that followSetVars, which has no other
\* bound, terminates but for terms bound to themselves.
ChainsEnd == mode = "run" => ChainsEndIn(mem)

\* Unification is for good: only a rollback undoes a binding.
BindingsLast ==
    [][mode = "run" => \A a \in Live : Bound(mem[a]) => mem'[a] = mem[a]]_vars

\* A failed call has had no effect, and a call from C leaves none: the log
\* implements the saving and restoring of whole states.  During a rollback the
\* program counts as being in the state it is returning to.
Seen == IF mode = "rollback" THEN At(Top.mark) ELSE Now
Saved == [f \in 1..Len(frames) |-> At(frames[f].mark)]
Leaving == mode = "rollback"

Abstract == INSTANCE Backtracking WITH
    Initial <- [mem |-> [a \in Addr |-> Free], goals |-> <<>>],
    state <- Seen, saved <- Saved, leaving <- Leaving

Backtracks == Abstract!Spec

=============================================================================
