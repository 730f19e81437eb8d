------------------------------ MODULE Comanda ------------------------------
(***************************************************************************)
(* The comanda: the running bill of a customer or a table.                 *)
(*                                                                         *)
(* `comandas' is the persisted table (comandas, comanda_items,             *)
(* comanda_payments, comanda_precontas and the COMANDA audit events): every *)
(* service call loads one aggregate, applies one domain function to it and  *)
(* saves the whole aggregate in one SQLite transaction, in the              *)
(* single-threaded main process.  A call is therefore one atomic step; a    *)
(* call whose assertion fails changes nothing and is not a step.            *)
(*                                                                         *)
(* Data that no property tells apart is abstracted: an item carries its     *)
(* line total (quantity times unit price, rounded by the code) as `price',  *)
(* and timestamps, actors, labels, notes and reasons are left out.          *)
(***************************************************************************)
EXTENDS Integers, Sequences, Somas, Pagamentos

CONSTANTS
  ComandaIds,     \* fresh uuids the service may hand out
  Numeros,        \* the numbers printed on the comandas
  Setores,        \* production sectors of the products
  Prices,         \* line totals in cents
  PayAmounts,     \* amounts an operator may type at the checkout, in cents
  MaxItems,       \* bound: items of one comanda
  MaxPayments,    \* bound: payments of one checkout
  MaxPreContas,   \* bound: pre-contas of one comanda
  MaxForwards     \* bound: forwarding events of one comanda

ASSUME ComandaAssumption ==
  /\ Numeros \subseteq Nat \ {0}
  /\ Prices \subseteq Nat
  /\ PayAmounts \subseteq Nat \ {0}
  /\ {MaxItems, MaxPayments, MaxPreContas, MaxForwards} \subseteq Nat

VARIABLE comandas

-----------------------------------------------------------------------------
(* Types and derived state *)

ItemStatus == {"LANCADO", "ENVIADO", "CANCELADO"}

FinalStatus == {"ENCERRADA", "CANCELADA"}

ActiveStatus == {"ABERTA", "EM_PRODUCAO", "EM_PAGAMENTO"}

\* Batch 0 is the null productionBatchId of an item that was never sent.
Item == [setor: Setores, price: Prices, status: ItemStatus, batch: Nat]

Payment == [method: Methods, amount: PayAmounts]

\* What createPreContaSnapshot freezes: the active items and their total.
PreConta == [items: SUBSET Nat, total: Int]

TrailAction == {"COMANDA_ABERTA", "ENVIADO_PRODUCAO", "PRE_CONTA_GERADA",
                "COMANDA_ENCAMINHADA_CAIXA", "COMANDA_REABERTA",
                "CHECKOUT_CONCLUIDO", "COMANDA_CANCELADA"}

\* "INEXISTENTE" marks an id with no row yet (not a status of the code).
ComandaRecord ==
  [status: ActiveStatus \cup FinalStatus \cup {"INEXISTENTE"},
   numero: Numeros \cup {0},
   items: Seq(Item),
   payments: Seq(Payment),
   preContas: Seq(PreConta),
   batches: Seq(SUBSET Nat),
   trail: Seq(TrailAction)]

NoComanda ==
  [status |-> "INEXISTENTE", numero |-> 0, items |-> <<>>, payments |-> <<>>,
   preContas |-> <<>>, batches |-> <<>>, trail |-> <<>>]

ActiveItems(items) == {k \in DOMAIN items : items[k].status # "CANCELADO"}

\* Mutation: a cancelled item is sent (again) with the next batch.
PendingItemsMutant(items) == {k \in DOMAIN items : items[k].status # "ENVIADO"}

PendingItems(items) == {k \in DOMAIN items : items[k].status = "LANCADO"}

LineTotals(items) ==
  [k \in DOMAIN items |-> IF items[k].status = "CANCELADO" THEN 0 ELSE items[k].price]

Subtotal(items) == SumTo(LineTotals(items), Len(items))

PaymentAmounts(payments) == [k \in DOMAIN payments |-> payments[k].amount]

Paid(payments) == SumTo(PaymentAmounts(payments), Len(payments))

CashAmounts(payments) ==
  [k \in DOMAIN payments |->
     IF payments[k].method = "DINHEIRO" THEN payments[k].amount ELSE 0]

PaidInCash(payments) == SumTo(CashAmounts(payments), Len(payments))

IsActive(c) == comandas[c].status \in ActiveStatus

\* Mutation: items still change while the bill waits for payment.
IsEditableMutant(c) == IsActive(c)

\* Items are added, cancelled and sent only in these two states.
IsEditable(c) == comandas[c].status \in {"ABERTA", "EM_PRODUCAO"}

Last(s) == s[Len(s)]

TimesIn(action, trail) ==
  SumTo([j \in DOMAIN trail |-> IF trail[j] = action THEN 1 ELSE 0], Len(trail))

\* The status the comanda has after its most recent COMANDA event.
StatusAfter ==
  [a \in TrailAction |->
     CASE a = "COMANDA_ABERTA" -> "ABERTA"
       [] a \in {"ENVIADO_PRODUCAO", "COMANDA_REABERTA"} -> "EM_PRODUCAO"
       [] a \in {"PRE_CONTA_GERADA", "COMANDA_ENCAMINHADA_CAIXA"} -> "EM_PAGAMENTO"
       [] a = "CHECKOUT_CONCLUIDO" -> "ENCERRADA"
       [] OTHER -> "CANCELADA"]

\* cashCheckoutRequestedAt has no column: on every load it is rebuilt from the
\* whole audit trail.  The cashier's main queue lists the comandas where the
\* rebuilt value is not null.
InCashQueue(c) ==
  /\ comandas[c].status = "EM_PAGAMENTO"
  /\ \E j \in DOMAIN comandas[c].trail :
       comandas[c].trail[j] = "COMANDA_ENCAMINHADA_CAIXA"

-----------------------------------------------------------------------------
(* Operations *)

\* Mutation: the number is looked up among the comandas still ABERTA.
OpenComandaMutant(c, n) ==
  /\ comandas[c].status = "INEXISTENTE"
  /\ \A d \in ComandaIds :
       comandas[d].status = "ABERTA" => comandas[d].numero # n
  /\ comandas' = [comandas EXCEPT
       ![c] = [NoComanda EXCEPT !.status = "ABERTA",
                                !.numero = n,
                                !.trail = <<"COMANDA_ABERTA">>]]

\* A number that is already active is not opened again: the service returns
\* the existing comanda and changes nothing.
OpenComanda(c, n) ==
  /\ comandas[c].status = "INEXISTENTE"
  /\ \A d \in ComandaIds : IsActive(d) => comandas[d].numero # n
  /\ comandas' = [comandas EXCEPT
       ![c] = [NoComanda EXCEPT !.status = "ABERTA",
                                !.numero = n,
                                !.trail = <<"COMANDA_ABERTA">>]]

AddComandaItem(c, setor, price) ==
  /\ IsEditable(c)
  /\ Len(comandas[c].items) < MaxItems
  /\ comandas' = [comandas EXCEPT
       ![c].items = Append(@, [setor |-> setor, price |-> price,
                               status |-> "LANCADO", batch |-> 0])]

\* An item already sent keeps its batch when it is cancelled.
CancelComandaItem(c, k) ==
  /\ IsEditable(c)
  /\ k \in ActiveItems(comandas[c].items)
  /\ comandas' = [comandas EXCEPT ![c].items[k].status = "CANCELADO"]

NextBatch(c) == Len(comandas[c].batches) + 1

SendComandaToProduction(c) ==
  LET pending == PendingItems(comandas[c].items)
  IN /\ IsEditable(c)
     /\ pending # {}
     /\ comandas' = [comandas EXCEPT
          ![c].status = "EM_PRODUCAO",
          ![c].items = [k \in DOMAIN @ |->
             IF k \in pending
               THEN [@[k] EXCEPT !.status = "ENVIADO", !.batch = NextBatch(c)]
               ELSE @[k]],
          ![c].batches = Append(@, pending),
          ![c].trail = Append(@, "ENVIADO_PRODUCAO")]

\* startComandaCheckout: the pre-conta freezes the items and asks for payment.
GeneratePreConta(c) ==
  LET items == comandas[c].items
  IN /\ comandas[c].status = "EM_PRODUCAO"
     /\ ActiveItems(items) # {}
     /\ Len(comandas[c].preContas) < MaxPreContas
     /\ comandas' = [comandas EXCEPT
          ![c].status = "EM_PAGAMENTO",
          ![c].preContas = Append(@, [items |-> ActiveItems(items),
                                      total |-> Subtotal(items)]),
          ![c].trail = Append(@, "PRE_CONTA_GERADA")]

\* Forwarding to the cashier leaves nothing but its audit event.
RequestCashCheckout(c) ==
  /\ comandas[c].status = "EM_PAGAMENTO"
  /\ TimesIn("COMANDA_ENCAMINHADA_CAIXA", comandas[c].trail) < MaxForwards
  /\ comandas' = [comandas EXCEPT
       ![c].trail = Append(@, "COMANDA_ENCAMINHADA_CAIXA")]

\* Mutation: the comanda goes back to production and no event says so.
ReopenComandaMutant(c) ==
  /\ comandas[c].status = "EM_PAGAMENTO"
  /\ comandas' = [comandas EXCEPT ![c].status = "EM_PRODUCAO"]

\* Mutation: reopening discards the pre-contas already shown to the customer.
ReopenComandaForgetful(c) ==
  /\ comandas[c].status = "EM_PAGAMENTO"
  /\ comandas' = [comandas EXCEPT
       ![c].status = "EM_PRODUCAO",
       ![c].preContas = <<>>,
       ![c].trail = Append(@, "COMANDA_REABERTA")]

ReopenComanda(c) ==
  /\ comandas[c].status = "EM_PAGAMENTO"
  /\ comandas' = [comandas EXCEPT
       ![c].status = "EM_PRODUCAO",
       ![c].trail = Append(@, "COMANDA_REABERTA")]

\* Mutation: change may be given out of any payment.
CoversTotalMutant(payments, total) == Paid(payments) >= total

\* The payments cover the total, and change is given only out of cash.
CoversTotal(payments, total) ==
  /\ Paid(payments) >= total
  /\ \/ Paid(payments) = total
     \/ PaidInCash(payments) >= Paid(payments) - total

\* Mutation: a comanda that is already closed can be paid again.
CheckoutComandaMutant(c, payments) ==
  LET items == comandas[c].items
  IN /\ comandas[c].status \in {"EM_PAGAMENTO", "ENCERRADA"}
     /\ payments # <<>>
     /\ ActiveItems(items) # {}
     /\ CoversTotal(payments, Subtotal(items))
     /\ comandas' = [comandas EXCEPT
          ![c].status = "ENCERRADA",
          ![c].payments = @ \o payments,
          ![c].trail = Append(@, "CHECKOUT_CONCLUIDO")]

CheckoutComanda(c, payments) ==
  LET items == comandas[c].items
  IN /\ comandas[c].status = "EM_PAGAMENTO"
     /\ payments # <<>>
     /\ ActiveItems(items) # {}
     /\ CoversTotal(payments, Subtotal(items))
     /\ comandas' = [comandas EXCEPT
          ![c].status = "ENCERRADA",
          ![c].payments = @ \o payments,
          ![c].trail = Append(@, "CHECKOUT_CONCLUIDO")]

\* Mutation: the comanda takes the status word of a cancelled item.
CancelComandaMutant(c) ==
  /\ IsActive(c)
  /\ comandas[c].payments = <<>>
  /\ comandas' = [comandas EXCEPT
       ![c].status = "CANCELADO",
       ![c].trail = Append(@, "COMANDA_CANCELADA")]

\* The domain function; no service call reaches it (see module Pdv).
CancelComanda(c) ==
  /\ IsActive(c)
  /\ comandas[c].payments = <<>>
  /\ comandas' = [comandas EXCEPT
       ![c].status = "CANCELADA",
       ![c].trail = Append(@, "COMANDA_CANCELADA")]

-----------------------------------------------------------------------------
PaymentLists == UNION {[1..n -> Payment] : n \in 0..MaxPayments}

ComandaInit == comandas = [c \in ComandaIds |-> NoComanda]

ComandaStep(c) ==
  \/ \E n \in Numeros : OpenComanda(c, n)
  \/ \E setor \in Setores, price \in Prices : AddComandaItem(c, setor, price)
  \/ \E k \in 1..MaxItems : CancelComandaItem(c, k)
  \/ SendComandaToProduction(c)
  \/ GeneratePreConta(c)
  \/ RequestCashCheckout(c)
  \/ ReopenComanda(c)
  \/ \E payments \in PaymentLists : CheckoutComanda(c, payments)
  \/ CancelComanda(c)

ComandaNext == \E c \in ComandaIds : ComandaStep(c)

ComandaSpec == ComandaInit /\ [][ComandaNext]_comandas

-----------------------------------------------------------------------------
(* Properties *)

\* The table holds what the schema of migration 0002 allows.
ComandaTypeOK == comandas \in [ComandaIds -> ComandaRecord]

\* No two active comandas carry the same number.  No UNIQUE index backs this:
\* it rests on openComanda resuming the active comanda of that number.
UniqueActiveNumero ==
  \A c, d \in ComandaIds :
    IsActive(c) /\ IsActive(d) /\ comandas[c].numero = comandas[d].numero => c = d

\* The two records of what went to production agree: an item's
\* productionBatchId names the one batch whose sentItemIds lists it, a launched
\* item is in none, and a comanda is past ABERTA exactly when it has sent some
\* batch (unless it was cancelled).
BatchesMatchItems ==
  \A c \in ComandaIds :
    LET items == comandas[c].items
        batches == comandas[c].batches
    IN /\ \A k \in DOMAIN items :
            /\ items[k].status = "LANCADO" => items[k].batch = 0
            /\ items[k].status = "ENVIADO" => items[k].batch # 0
            /\ items[k].batch \in 0..Len(batches)
       /\ \A b \in DOMAIN batches :
            /\ batches[b] # {}
            /\ batches[b] = {k \in DOMAIN items : items[k].batch = b}
       /\ comandas[c].status = "ABERTA" => batches = <<>>
       /\ comandas[c].status \in {"EM_PRODUCAO", "EM_PAGAMENTO", "ENCERRADA"} =>
            batches # <<>>

\* From the pre-conta until the comanda is closed, the last pre-conta is the
\* bill: it lists exactly the active items and their total, whatever was added,
\* cancelled, reopened and charged again before.
PreContaIsTheBill ==
  \A c \in ComandaIds :
    comandas[c].status \in {"EM_PAGAMENTO", "ENCERRADA"} =>
      /\ comandas[c].preContas # <<>>
      /\ Last(comandas[c].preContas).items = ActiveItems(comandas[c].items)
      /\ Last(comandas[c].preContas).total = Subtotal(comandas[c].items)

\* A comanda holds payments exactly when it is closed, and then they cover the
\* total of its last pre-conta, with change only out of cash.
ClosedMeansPaid ==
  \A c \in ComandaIds :
    /\ comandas[c].payments # <<>> <=> comandas[c].status = "ENCERRADA"
    /\ comandas[c].status = "ENCERRADA" =>
         LET change == Paid(comandas[c].payments) - Last(comandas[c].preContas).total
         IN change \in 0..PaidInCash(comandas[c].payments)

\* The audit trail tells the story of the row: its last event gives the status,
\* and it holds one event per batch, per pre-conta and per closing.
TrailExplainsComanda ==
  \A c \in ComandaIds :
    LET r == comandas[c]
    IN /\ r.trail = <<>> <=> r.status = "INEXISTENTE"
       /\ r.trail # <<>> => r.status = StatusAfter[Last(r.trail)]
       /\ TimesIn("ENVIADO_PRODUCAO", r.trail) = Len(r.batches)
       /\ TimesIn("PRE_CONTA_GERADA", r.trail) = Len(r.preContas)
       /\ TimesIn("CHECKOUT_CONCLUIDO", r.trail) + TimesIn("COMANDA_CANCELADA", r.trail) =
            IF r.status \in FinalStatus THEN 1 ELSE 0

IsPrefixOf(s, t) == Len(s) <= Len(t) /\ \A j \in DOMAIN s : t[j] = s[j]

\* What a later record of an item may differ in: it can be sent once, while
\* launched, and cancelled once; its sector and price never change and a
\* cancelled item stays cancelled in the batch it was sent with.
ItemAdvances(old, new) ==
  /\ new.setor = old.setor /\ new.price = old.price
  /\ old.batch # 0 => new.batch = old.batch
  /\ old.status = "CANCELADO" => new = old
  /\ old.status = "ENVIADO" => new.status \in {"ENVIADO", "CANCELADO"}

\* Batches, pre-contas and trail only grow, items only advance, and a closed or
\* cancelled comanda never changes again.
RowIsKept(old, new) ==
  /\ IsPrefixOf(old.batches, new.batches)
  /\ IsPrefixOf(old.preContas, new.preContas)
  /\ IsPrefixOf(old.trail, new.trail)
  /\ Len(old.items) <= Len(new.items)
  /\ \A k \in DOMAIN old.items : ItemAdvances(old.items[k], new.items[k])
  /\ old.status \in FinalStatus => new = old

\* No call rewrites history, although each one saves the whole aggregate again.
HistoryIsKept ==
  [][\A c \in ComandaIds : RowIsKept(comandas[c], comandas'[c])]_comandas

\* What the documentation says of the cashier's queue (docs/DOMAIN.md:78-79):
\* it lists only comandas forwarded after their pre-conta.
CashQueueIsForwarded ==
  \A c \in ComandaIds :
    InCashQueue(c) =>
      LET trail == comandas[c].trail
      IN \E j \in DOMAIN trail :
           /\ trail[j] = "COMANDA_ENCAMINHADA_CAIXA"
           /\ \A i \in j..Len(trail) : trail[i] # "PRE_CONTA_GERADA"
=============================================================================
