----------------------------- MODULE Liquidacao -----------------------------
(***************************************************************************)
(* What the checkout promises, without comandas, sessions or transactions:  *)
(* a bill is charged, the charge may be taken back, and a charged bill is    *)
(* settled once, by one receipt of the cash ledger that covers it.          *)
(*                                                                         *)
(* Module Pdv implements this specification.                               *)
(***************************************************************************)
EXTENDS Integers

CONSTANT Bills

VARIABLES
  cobranca,  \* per bill: {} or {total}, what the customer is asked for
  recibos    \* per bill: the receipts of the ledger that name it

liquidacaoVars == <<cobranca, recibos>>

Charge(b) ==
  /\ cobranca[b] = {} /\ recibos[b] = {}
  /\ \E total \in cobranca'[b] : cobranca' = [cobranca EXCEPT ![b] = {total}]
  /\ UNCHANGED recibos

TakeBack(b) ==
  /\ cobranca[b] # {} /\ recibos[b] = {}
  /\ cobranca' = [cobranca EXCEPT ![b] = {}]
  /\ UNCHANGED recibos

\* Change is given only out of cash, and a receipt settles one bill.
Covers(r, total) ==
  /\ r.amount >= total
  /\ r.amount > total => r.method = "DINHEIRO"

Settle(b) ==
  /\ cobranca[b] # {} /\ recibos[b] = {}
  /\ \E r \in recibos'[b] :
       /\ \A total \in cobranca[b] : Covers(r, total)
       /\ \A d \in Bills : \A s \in recibos[d] : s.id # r.id
       /\ recibos' = [recibos EXCEPT ![b] = {r}]
  /\ UNCHANGED cobranca

LiquidacaoInit ==
  /\ cobranca = [b \in Bills |-> {}]
  /\ recibos = [b \in Bills |-> {}]

LiquidacaoNext == \E b \in Bills : Charge(b) \/ TakeBack(b) \/ Settle(b)

LiquidacaoSpec == LiquidacaoInit /\ [][LiquidacaoNext]_liquidacaoVars
=============================================================================
