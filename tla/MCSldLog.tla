------------------------------ MODULE MCSldLog ------------------------------
(***************************************************************************)
(* A small instance of SldLog for TLC.                                     *)
(***************************************************************************)
EXTENDS SldLog, TLC


Symmetry == Permutations(Addr)

=============================================================================
