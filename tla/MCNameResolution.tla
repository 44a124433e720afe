-------------------------- MODULE MCNameResolution --------------------------
(***************************************************************************)
(* An instance of NameResolution for TLC: a builtin type, and two names    *)
(* that records and variables may have.                                    *)
(***************************************************************************)
EXTENDS NameResolution, TLC

CONSTANTS int, point, x

Builtin == {int}

\* The names of the program may be exchanged.
Symmetry == Permutations({point, x})

=============================================================================
