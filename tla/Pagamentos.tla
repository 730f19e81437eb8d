----------------------------- MODULE Pagamentos -----------------------------
(***************************************************************************)
(* The payment methods, shared by the comandas (ComandaPaymentMethod in      *)
(* domain/comanda/types.ts) and by the caixas (CASH_METHODS), which use the *)
(* same words.                                                             *)
(***************************************************************************)

CONSTANT Methods

ASSUME PagamentosAssumption == "DINHEIRO" \in Methods
=============================================================================
