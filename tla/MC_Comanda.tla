----------------------------- MODULE MC_Comanda -----------------------------
(* Finite instances of module Comanda for TLC. *)
EXTENDS Comanda

CONSTANT cmd1

\* A line total may round to zero; the other price forces a choice of payments.
MCPrices == {0, 2}
\* Under, exactly and over one or two items of price 2.
MCPayAmounts == {1, 2, 4}
=============================================================================
