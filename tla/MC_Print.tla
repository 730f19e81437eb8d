------------------------------ MODULE MC_Print ------------------------------
(* Finite instances of module PrintSpool for TLC. *)
EXTENDS PrintSpool

CONSTANTS cozinha, bar, imp

\* The bar has no printer.
Rotas == [s \in {cozinha, bar} |-> IF s = cozinha THEN imp ELSE SemImpressora]
=============================================================================
