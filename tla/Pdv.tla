-------------------------------- MODULE Pdv --------------------------------
(***************************************************************************)
(* The operational core: PdvOperationalService, which composes comandas and *)
(* caixas and hands work to the print spool and to the fiscal queue.        *)
(*                                                                         *)
(* The main process runs one service call at a time to its end, so a call   *)
(* interleaves with nothing but a crash of the process.  The one call that  *)
(* commits before it ends is confirmComandaPayment: the closed comanda and  *)
(* its cash movement are one transaction, the NFC-e is queued after it.     *)
(* `emCurso' is the comanda of the call between the two; while it is set no *)
(* other call runs.                                                         *)
(*                                                                         *)
(* `tickets' and `nfce' are the rows that print_jobs and fiscal_documents   *)
(* receive from these calls; what the workers do with them afterwards is    *)
(* not part of this module.                                                 *)
(***************************************************************************)
EXTENDS Comanda, Caixa

ASSUME PdvAssumption ==
  /\ Sources = ComandaIds
  /\ PayAmounts \subseteq Amounts
  /\ MaxPayments >= 1

VARIABLES
  tickets,         \* production print jobs enqueued
  nfce,            \* fiscal documents drafted at the checkout, by number
  naoEnfileirado,  \* comandas with a FISCAL_DOCUMENTO_NAO_ENFILEIRADO event
  emitente,        \* whether a fiscal emitter is enabled, with its secrets
  emCurso          \* the comanda whose payment was committed in this call

pdvVars == <<comandas, caixas, tickets, nfce, naoEnfileirado, emitente, emCurso>>

fiscalVars == <<nfce, naoEnfileirado, emitente>>

-----------------------------------------------------------------------------
(* Production tickets *)

Ticket ==
  [comanda: ComandaIds, batch: Nat, setor: Setores, items: SUBSET Nat]

\* Mutation: every item sent so far is read back, whatever its batch.
BatchItemsMutant(items, b) ==
  {k \in DOMAIN items : items[k].status = "ENVIADO"}

\* The items of batch b, as sendComandaToProduction reads them back from the
\* comanda it has just changed.
BatchItems(items, b) ==
  {k \in DOMAIN items : items[k].batch = b /\ items[k].status = "ENVIADO"}

\* groupItemsBySetor: one ticket for each sector with an item in the batch.
TicketsOf(c, items, b) ==
  {[comanda |-> c, batch |-> b, setor |-> s,
    items |-> {k \in BatchItems(items, b) : items[k].setor = s}]
     : s \in {items[k].setor : k \in BatchItems(items, b)}}

\* `${comandaId}:${batchId}:${setor}:PRODUCAO'; batches are numbered in each
\* comanda here, while the code gives each a fresh id.
SameDedupKey(x, y) ==
  x.comanda = y.comanda /\ x.batch = y.batch /\ x.setor = y.setor

\* A ticket whose dedup key exists is reused, not enqueued again.
EnqueueProductionTickets(new) ==
  tickets' = tickets \cup
    {x \in new : \A y \in tickets : ~SameDedupKey(x, y)}

\* Batch and tickets are saved in one transaction.
SendToProduction(c) ==
  /\ emCurso = NoSource
  /\ SendComandaToProduction(c)
  /\ EnqueueProductionTickets(TicketsOf(c, comandas'[c].items, NextBatch(c)))
  /\ UNCHANGED <<caixas, fiscalVars, emCurso>>

-----------------------------------------------------------------------------
(* Checkout *)

\* Mutation: without a transaction around both, the comanda is saved and the
\* cash movement may be refused.
ConfirmComandaPaymentMutant(c, t, k, method, amount) ==
  /\ emCurso = NoSource
  /\ CheckoutComanda(c, <<[method |-> method, amount |-> amount]>>)
  /\ \/ ReceiveCashPayment(t, k, method, amount, c)
     \/ UNCHANGED caixas
  /\ emCurso' = c
  /\ UNCHANGED <<tickets, fiscalVars>>

ConfirmComandaPayment(c, t, k, method, amount) ==
  /\ emCurso = NoSource
  /\ CheckoutComanda(c, <<[method |-> method, amount |-> amount]>>)
  /\ ReceiveCashPayment(t, k, method, amount, c)
  /\ emCurso' = c
  /\ UNCHANGED <<tickets, fiscalVars>>

\* Mutation: the largest number of the series, taken as the next one.
NextNumeroMutant == Max({0} \cup {nfce[j].numero : j \in DOMAIN nfce})

\* getNextDocumentNumber: one more than the largest number in the series.
NextNumero == Max({0} \cup {nfce[j].numero : j \in DOMAIN nfce}) + 1

HasNfce(c) == \E j \in DOMAIN nfce : nfce[j].comanda = c

\* Mutation: the document is drafted with the amount received.
QueueCheckoutNfceMutant(c) ==
  \/ /\ HasNfce(c)
     /\ UNCHANGED <<nfce, naoEnfileirado>>
  \/ /\ ~HasNfce(c) /\ emitente
     /\ nfce' = Append(nfce, [comanda |-> c, numero |-> NextNumero,
                              total |-> Paid(comandas[c].payments)])
     /\ UNCHANGED naoEnfileirado
  \/ /\ ~HasNfce(c)
     /\ naoEnfileirado' = naoEnfileirado \cup {c}
     /\ UNCHANGED nfce

\* A comanda that has a document keeps it; without an emitter, or when queueing
\* fails, the payment stands and only an audit event is left.
QueueCheckoutNfce(c) ==
  \/ /\ HasNfce(c)
     /\ UNCHANGED <<nfce, naoEnfileirado>>
  \/ /\ ~HasNfce(c) /\ emitente
     /\ nfce' = Append(nfce, [comanda |-> c, numero |-> NextNumero,
                              total |-> Subtotal(comandas[c].items)])
     /\ UNCHANGED naoEnfileirado
  \/ /\ ~HasNfce(c)
     /\ naoEnfileirado' = naoEnfileirado \cup {c}
     /\ UNCHANGED nfce

FinishPayment ==
  /\ emCurso # NoSource
  /\ QueueCheckoutNfce(emCurso)
  /\ emCurso' = NoSource
  /\ UNCHANGED <<comandas, caixas, tickets, emitente>>

\* The process dies between the commit and the fiscal queue.  A crash in any
\* other call loses a transaction that was not committed: no step.
Crash ==
  /\ emCurso # NoSource
  /\ emCurso' = NoSource
  /\ UNCHANGED <<comandas, caixas, tickets, fiscalVars>>

ConfigureEmitter ==
  /\ emCurso = NoSource
  /\ ~emitente
  /\ emitente' = TRUE
  /\ UNCHANGED <<comandas, caixas, tickets, nfce, naoEnfileirado, emCurso>>

-----------------------------------------------------------------------------
(* The calls that touch one aggregate *)

ComandaCall(c) ==
  /\ emCurso = NoSource
  /\ \/ \E n \in Numeros : OpenComanda(c, n)
     \/ \E setor \in Setores, price \in Prices : AddComandaItem(c, setor, price)
     \/ \E k \in 1..MaxItems : CancelComandaItem(c, k)
     \/ GeneratePreConta(c)
     \/ RequestCashCheckout(c)
     \/ ReopenComanda(c)
  /\ UNCHANGED <<caixas, tickets, fiscalVars, emCurso>>

\* countByStatus("EM_PAGAMENTO"), over the comandas of every terminal.
PendingPayments == {c \in ComandaIds : comandas[c].status = "EM_PAGAMENTO"}

CaixaCall(t) ==
  /\ emCurso = NoSource
  /\ \/ \E fund \in Funds : OpenCashSession(t, fund)
     \/ \E k \in DOMAIN caixas :
          \/ \E m \in Methods, amount \in Amounts :
               ReceiveCashPayment(t, k, m, amount, NoSource)
          \/ \E amount \in Amounts : RegisterCashSupply(t, k, amount)
          \/ \E amount \in Amounts : RegisterCashWithdrawal(t, k, amount)
          \/ StartCashClosure(t, k, Cardinality(PendingPayments))
          \/ \E counted \in [Methods -> Counts], justified \in BOOLEAN :
               CloseCashSession(t, k, counted, justified)
  /\ UNCHANGED <<comandas, tickets, fiscalVars, emCurso>>

PdvInit ==
  /\ ComandaInit
  /\ CaixaInit
  /\ tickets = {}
  /\ nfce = <<>>
  /\ naoEnfileirado = {}
  /\ emitente = FALSE
  /\ emCurso = NoSource

PdvNext ==
  \/ \E c \in ComandaIds : ComandaCall(c)
  \/ \E c \in ComandaIds : SendToProduction(c)
  \/ \E t \in Terminals : CaixaCall(t)
  \/ \E c \in ComandaIds, t \in Terminals, m \in Methods, amount \in PayAmounts :
       \E k \in DOMAIN caixas : ConfirmComandaPayment(c, t, k, m, amount)
  \/ FinishPayment
  \/ Crash
  \/ ConfigureEmitter

PdvSpec == PdvInit /\ [][PdvNext]_pdvVars

-----------------------------------------------------------------------------
(* Properties *)

PdvTypeOK ==
  /\ ComandaTypeOK
  /\ CaixaTypeOK
  /\ tickets \subseteq Ticket
  /\ nfce \in Seq([comanda: ComandaIds, numero: Nat \ {0}, total: Int])
  /\ naoEnfileirado \subseteq ComandaIds
  /\ emitente \in BOOLEAN
  /\ emCurso \in ComandaIds \cup {NoSource}

\* The kitchen is told of every item once: the tickets of a batch split exactly
\* the items of that batch, each in the ticket of its sector, whatever is
\* cancelled, reopened or sent afterwards.
TicketsCoverBatches ==
  \A c \in ComandaIds :
    LET items == comandas[c].items
        batches == comandas[c].batches
        own == {x \in tickets : x.comanda = c}
    IN /\ \A x \in own :
            /\ x.batch \in DOMAIN batches
            /\ x.items # {}
            /\ x.items = {k \in batches[x.batch] : items[k].setor = x.setor}
       /\ \A b \in DOMAIN batches : \A k \in batches[b] :
            \E x \in own : x.batch = b /\ k \in x.items
       /\ \A x, y \in own : SameDedupKey(x, y) => x = y

\* The movements of the cash ledger that name comanda c, by position.
ReceiptsOf(c) ==
  {p \in UNION {{k} \X DOMAIN caixas[k].movements : k \in DOMAIN caixas} :
     caixas[p[1]].movements[p[2]].source = c}

MovementAt(p) == caixas[p[1]].movements[p[2]]

\* Comanda and cash ledger never disagree, in any order of checkouts, closures
\* and crashes: a comanda without payments is named by no movement, and a paid
\* one by exactly one RECEBIMENTO with the method and amount of its payment.
LedgerMatchesPayments ==
  \A c \in ComandaIds :
    LET payments == comandas[c].payments
    IN /\ payments = <<>> => ReceiptsOf(c) = {}
       /\ payments # <<>> =>
            \E p \in ReceiptsOf(c) :
              /\ ReceiptsOf(c) = {p}
              /\ MovementAt(p).type = "RECEBIMENTO"
              /\ payments = <<[method |-> MovementAt(p).method,
                               amount |-> MovementAt(p).amount]>>

\* Fiscal documents are numbered without gaps, at most one per comanda, only for
\* closed comandas and for the total of the last pre-conta; a comanda never has
\* both a document and the event that says it was not queued.
NfceIsTheBill ==
  /\ \A j \in DOMAIN nfce :
       /\ nfce[j].numero = j
       /\ comandas[nfce[j].comanda].status = "ENCERRADA"
       /\ nfce[j].total = Last(comandas[nfce[j].comanda].preContas).total
       /\ nfce[j].comanda \notin naoEnfileirado
  /\ \A i, j \in DOMAIN nfce : nfce[i].comanda = nfce[j].comanda => i = j

\* What the documentation says of the checkout (docs/ARCHITECTURE.md:120): with
\* an emitter enabled, a confirmed payment ends with its NFC-e queued, or with
\* the event that says why not.  No later call queues it in its stead.
PaidWithEmitterIsQueued ==
  [][emitente /\ emCurso # NoSource /\ emCurso' = NoSource =>
       (\E j \in DOMAIN nfce' : nfce'[j].comanda = emCurso) \/ emCurso \in naoEnfileirado']_pdvVars

\* What the documentation says of the closure (docs/DOMAIN.md:266): a session is
\* closed only while no comanda is EM_PAGAMENTO.
ClosureHasNoPending ==
  [][\A k \in DOMAIN caixas :
       caixas[k].status # "FECHADO" /\ caixas'[k].status = "FECHADO" =>
         PendingPayments = {}]_pdvVars

-----------------------------------------------------------------------------
(* The service implements the abstract checkout *)

\* What each comanda asks for, and the receipts that name it.
Cobranca ==
  [c \in ComandaIds |->
     IF comandas[c].status \in {"EM_PAGAMENTO", "ENCERRADA"}
       THEN {Last(comandas[c].preContas).total}
       ELSE {}]

Recibos ==
  [c \in ComandaIds |->
     {[id |-> p, method |-> MovementAt(p).method, amount |-> MovementAt(p).amount]
        : p \in ReceiptsOf(c)}]

Conta == INSTANCE Liquidacao
  WITH Bills <- ComandaIds, cobranca <- Cobranca, recibos <- Recibos

\* Every step of the service is a charge, a charge taken back, the settlement of
\* one charged bill by one new receipt that covers it, or none of these.
CheckoutSettlesOnce == Conta!LiquidacaoSpec
=============================================================================
