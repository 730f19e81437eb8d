------------------------------- MODULE MC_Pdv -------------------------------
(* Finite instances of module Pdv for TLC. *)
EXTENDS Pdv, TLC

CONSTANTS t1, t2, cmd1, cmd2

\* Neither terminals nor comandas are told apart but by what they hold.
Symmetry == Permutations({t1, t2}) \cup Permutations({cmd1, cmd2})
=============================================================================
