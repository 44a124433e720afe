---------------------------- MODULE Backtracking ----------------------------
(***************************************************************************)
(* What the runtime promises the language: a predicate that fails leaves   *)
(* the state (heap and goal list) exactly as it was when it was called,    *)
(* one that succeeds keeps what it did, and a call from C, which starts    *)
(* the nesting, leaves nothing behind.                                     *)
(***************************************************************************)
EXTENDS Integers, Sequences

CONSTANT Initial    \* the state of a program that has not run yet

VARIABLES
    state,      \* the state the program sees
    saved,      \* the state each running call was entered in, innermost last
    leaving     \* the innermost call has been undone and is about to leave

vars == <<state, saved, leaving>>

Last == saved[Len(saved)]
Drop == SubSeq(saved, 1, Len(saved) - 1)

Init == state = Initial /\ saved = <<>> /\ leaving = FALSE

Enter == /\ ~leaving
         /\ saved' = Append(saved, state)
         /\ UNCHANGED <<state, leaving>>

\* A running call changes the state in any way.
Modify == /\ ~leaving /\ saved # <<>>
          /\ UNCHANGED <<saved, leaving>>

\* Only a call made by another one may keep what it did.
Keep == /\ ~leaving /\ Len(saved) > 1
        /\ saved' = Drop
        /\ UNCHANGED <<state, leaving>>

Undo == /\ ~leaving /\ saved # <<>>
        /\ state' = Last
        /\ leaving' = TRUE
        /\ saved' = saved

\* The call returns, or (an exported function) starts over.
Leave == /\ leaving
         /\ leaving' = FALSE
         /\ saved' \in {Drop, saved}
         /\ state' = state

Next == Enter \/ Modify \/ Keep \/ Undo \/ Leave

Spec == Init /\ [][Next]_vars

=============================================================================
