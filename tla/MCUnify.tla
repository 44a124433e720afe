------------------------------- MODULE MCUnify -------------------------------
(***************************************************************************)
(* Small instances of Unify for TLC: all heaps of N terms, and the heads   *)
(* and calls f(t1, t2) over three simple terms.                            *)
(***************************************************************************)
EXTENDS UnifyCorrect

CallHeaps ==
    {<<a, b, c, f, g>> \in CellsAt(1) \X CellsAt(1) \X CellsAt(1) \X CellsAt(4) \X CellsAt(4) :
        /\ \A t \in {a, b, c} : t.type # "FunctionSymbol"
        /\ \A t \in {f, g} : Len(t.subterms) = 2 /\ ~t.annotated}

CallInit ==
    /\ mem \in CallHeaps
    /\ result = "running"
    /\ todo = <<[op |-> "unify", lhs |-> 4, rhs |-> 5]>>
    /\ given = [mem |-> mem, lhs |-> 4, rhs |-> 5]

CallSpec == CallInit /\ [][Next]_vars

=============================================================================
