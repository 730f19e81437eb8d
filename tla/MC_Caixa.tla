------------------------------ MODULE MC_Caixa ------------------------------
(* Finite instances of module Caixa for TLC. *)
EXTENDS Caixa

CONSTANTS t1, cmd1
=============================================================================
