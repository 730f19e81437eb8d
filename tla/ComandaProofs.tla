--------------------------- MODULE ComandaProofs ---------------------------
(***************************************************************************)
(* Theorems about the comandas, for any number of them, of items, prices,   *)
(* payments and rounds of pre-conta.                                       *)
(***************************************************************************)
EXTENDS Comanda, SomasProofs, SequenceTheorems

-----------------------------------------------------------------------------
(* Types *)

(* The fields of an item and of a row, one fact for each. *)
LEMMA ItemFields ==
  ASSUME NEW item \in Item
  PROVE  /\ item.setor \in Setores /\ item.price \in Nat
         /\ item.status \in ItemStatus /\ item.batch \in Nat
BY ComandaAssumption DEF Item

(* The fields of a row. *)
LEMMA RowFields ==
  ASSUME NEW r \in ComandaRecord
  PROVE  /\ r.status \in ActiveStatus \cup FinalStatus \cup {"INEXISTENTE"}
         /\ r.numero \in Numeros \cup {0}
         /\ r.items \in Seq(Item) /\ r.payments \in Seq(Payment)
         /\ r.preContas \in Seq(PreConta) /\ r.batches \in Seq(SUBSET Nat)
         /\ r.trail \in Seq(TrailAction)
BY DEF ComandaRecord

(* The subtotal of any list of items is a natural number of cents. *)
LEMMA SubtotalIsNat ==
  ASSUME NEW items \in Seq(Item)
  PROVE  Subtotal(items) \in Nat
<1>1. ASSUME NEW k \in 1..Len(items) PROVE LineTotals(items)[k] \in Nat
  <2>1. k \in DOMAIN items /\ items[k] \in Item
    OBVIOUS
  <2>2. items[k].price \in Nat
    BY <2>1, ItemFields
  <2> QED BY <2>1, <2>2 DEF LineTotals
<1>2. Len(items) \in Nat
  OBVIOUS
<1> QED BY <1>1, <1>2, SumIsIn DEF Subtotal

(* A step is the rewriting of the row of one comanda. *)
LEMMA RowRewritten ==
  ASSUME ComandaTypeOK, NEW c \in ComandaIds, NEW r \in ComandaRecord,
         comandas' = [comandas EXCEPT ![c] = r]
  PROVE  ComandaTypeOK'
BY DEF ComandaTypeOK

(* An id without a row. *)
LEMMA NoComandaType == NoComanda \in ComandaRecord
BY DEF NoComanda, ComandaRecord

(* Each operation keeps the type of the table. *)
LEMMA OpenType ==
  ASSUME ComandaTypeOK, NEW c \in ComandaIds, NEW n \in Numeros, OpenComanda(c, n)
  PROVE  ComandaTypeOK'
<1> DEFINE new == [NoComanda EXCEPT !.status = "ABERTA", !.numero = n,
                                    !.trail = <<"COMANDA_ABERTA">>]
<1>1. new \in ComandaRecord
  <2>1. <<"COMANDA_ABERTA">> \in Seq(TrailAction)
    BY DEF TrailAction
  <2> QED BY <2>1, NoComandaType DEF ComandaRecord, ActiveStatus
<1>2. comandas' = [comandas EXCEPT ![c] = new]
  BY DEF OpenComanda
<1> QED BY <1>1, <1>2, RowRewritten

(* The appended item is launched, in no batch. *)
LEMMA AddItemType ==
  ASSUME ComandaTypeOK, NEW c \in ComandaIds,
         NEW setor \in Setores, NEW price \in Prices, AddComandaItem(c, setor, price)
  PROVE  ComandaTypeOK'
<1> DEFINE old == comandas[c]
           item == [setor |-> setor, price |-> price, status |-> "LANCADO", batch |-> 0]
           new == [old EXCEPT !.items = Append(@, item)]
<1>1. old \in ComandaRecord
  BY DEF ComandaTypeOK
<1>2. Append(old.items, item) \in Seq(Item)
  <2>1. item \in Item
    BY DEF Item, ItemStatus
  <2> QED BY <1>1, <2>1, RowFields
<1>3. new \in ComandaRecord
  BY <1>1, <1>2 DEF ComandaRecord
<1>4. comandas' = [comandas EXCEPT ![c] = new]
  BY DEF AddComandaItem
<1> QED BY <1>3, <1>4, RowRewritten

(* One item of the list is replaced. *)
LEMMA CancelItemType ==
  ASSUME ComandaTypeOK, NEW c \in ComandaIds, NEW k \in Nat, CancelComandaItem(c, k)
  PROVE  ComandaTypeOK'
<1> DEFINE old == comandas[c]
           item == [old.items[k] EXCEPT !.status = "CANCELADO"]
           items == [old.items EXCEPT ![k] = item]
           new == [old EXCEPT !.items = items]
<1>1. old \in ComandaRecord
  BY DEF ComandaTypeOK
<1>2. k \in 1..Len(old.items)
  BY <1>1, RowFields DEF CancelComandaItem, ActiveItems
<1>3. items \in Seq(Item)
  <2>1. old.items[k] \in Item
    BY <1>1, <1>2, RowFields
  <2>2. item \in Item
    BY <2>1 DEF Item, ItemStatus
  <2> QED BY <1>1, <1>2, <2>2, RowFields, ExceptSeq
<1>4. new \in ComandaRecord
  BY <1>1, <1>3 DEF ComandaRecord
<1>5. comandas' = [comandas EXCEPT ![c] = new]
  BY DEF CancelComandaItem
<1> QED BY <1>4, <1>5, RowRewritten

(* The launched items are replaced, and one batch and one event appended. *)
LEMMA SendType ==
  ASSUME ComandaTypeOK, NEW c \in ComandaIds, SendComandaToProduction(c)
  PROVE  ComandaTypeOK'
<1> DEFINE old == comandas[c]
           pending == PendingItems(old.items)
           sent(k) == [old.items[k] EXCEPT !.status = "ENVIADO", !.batch = NextBatch(c)]
           items == [k \in DOMAIN old.items |-> IF k \in pending THEN sent(k) ELSE old.items[k]]
           batches == Append(old.batches, pending)
           trail == Append(old.trail, "ENVIADO_PRODUCAO")
           new == [old EXCEPT !.status = "EM_PRODUCAO", !.items = items,
                              !.batches = batches, !.trail = trail]
<1>1. old \in ComandaRecord
  BY DEF ComandaTypeOK
<1>2. items \in Seq(Item)
  <2>1. ASSUME NEW k \in 1..Len(old.items) PROVE items[k] \in Item
    <3>1. old.items[k] \in Item /\ k \in DOMAIN old.items
      BY <1>1, RowFields
    <3>2. NextBatch(c) \in Nat
      BY <1>1, RowFields DEF NextBatch
    <3>3. sent(k) \in Item
      BY <3>1, <3>2 DEF Item, ItemStatus
    <3> QED BY <3>1, <3>3
  <2>2. Len(old.items) \in Nat /\ DOMAIN old.items = 1..Len(old.items)
    BY <1>1, RowFields
  <2> HIDE DEF items
  <2>3. items = [k \in 1..Len(old.items) |-> items[k]]
    BY <2>2 DEF items
  <2> QED BY <2>1, <2>2, <2>3, IsASeq
<1>3. batches \in Seq(SUBSET Nat)
  <2>1. pending \in SUBSET Nat
    BY <1>1, RowFields DEF PendingItems
  <2> QED BY <1>1, <2>1, RowFields
<1>4. trail \in Seq(TrailAction)
  BY <1>1, RowFields DEF TrailAction
<1>5. new \in ComandaRecord
  <2> HIDE DEF items, batches, trail
  <2> QED BY <1>1, <1>2, <1>3, <1>4 DEF ComandaRecord, ActiveStatus
<1>6. comandas' = [comandas EXCEPT ![c] = new]
  BY DEF SendComandaToProduction
<1> QED BY <1>5, <1>6, RowRewritten

(* The snapshot is a set of positions and an integer. *)
LEMMA PreContaType ==
  ASSUME ComandaTypeOK, NEW c \in ComandaIds, GeneratePreConta(c)
  PROVE  ComandaTypeOK'
<1> DEFINE old == comandas[c]
           bill == [items |-> ActiveItems(old.items), total |-> Subtotal(old.items)]
           preContas == Append(old.preContas, bill)
           trail == Append(old.trail, "PRE_CONTA_GERADA")
           new == [old EXCEPT !.status = "EM_PAGAMENTO", !.preContas = preContas,
                              !.trail = trail]
<1>1. old \in ComandaRecord
  BY DEF ComandaTypeOK
<1>2. preContas \in Seq(PreConta)
  <2>1. ActiveItems(old.items) \in SUBSET Nat
    BY <1>1, RowFields DEF ActiveItems
  <2>2. Subtotal(old.items) \in Int
    BY <1>1, RowFields, SubtotalIsNat
  <2>3. bill \in PreConta
    BY <2>1, <2>2 DEF PreConta
  <2> HIDE DEF bill
  <2> QED BY <1>1, <2>3, RowFields
<1>3. trail \in Seq(TrailAction)
  BY <1>1, RowFields DEF TrailAction
<1>4. new \in ComandaRecord
  <2> HIDE DEF preContas, trail
  <2> QED BY <1>1, <1>2, <1>3 DEF ComandaRecord, ActiveStatus
<1>5. comandas' = [comandas EXCEPT ![c] = new]
  BY DEF GeneratePreConta
<1> QED BY <1>4, <1>5, RowRewritten

(* The payments of the call are appended to those of the row. *)
LEMMA CheckoutType ==
  ASSUME ComandaTypeOK, NEW c \in ComandaIds, NEW payments \in Seq(Payment),
         CheckoutComanda(c, payments)
  PROVE  ComandaTypeOK'
<1> DEFINE old == comandas[c]
           paid == old.payments \o payments
           trail == Append(old.trail, "CHECKOUT_CONCLUIDO")
           new == [old EXCEPT !.status = "ENCERRADA", !.payments = paid, !.trail = trail]
<1>1. old \in ComandaRecord
  BY DEF ComandaTypeOK
<1>2. paid \in Seq(Payment)
  BY <1>1, RowFields, ConcatProperties
<1>3. trail \in Seq(TrailAction)
  BY <1>1, RowFields DEF TrailAction
<1>4. new \in ComandaRecord
  <2> HIDE DEF paid, trail
  <2> QED BY <1>1, <1>2, <1>3 DEF ComandaRecord, FinalStatus
<1>5. comandas' = [comandas EXCEPT ![c] = new]
  BY DEF CheckoutComanda
<1> QED BY <1>4, <1>5, RowRewritten

(* Forwarding, reopening and cancelling change the status and the trail. *)
LEMMA StatusType ==
  ASSUME ComandaTypeOK, NEW c \in ComandaIds,
         NEW status \in ActiveStatus \cup FinalStatus, NEW event \in TrailAction,
         comandas' = [comandas EXCEPT ![c].status = status,
                                      ![c].trail = Append(@, event)]
  PROVE  ComandaTypeOK'
<1> DEFINE old == comandas[c]
           trail == Append(old.trail, event)
           new == [old EXCEPT !.status = status, !.trail = trail]
<1>1. old \in ComandaRecord
  BY DEF ComandaTypeOK
<1>2. trail \in Seq(TrailAction)
  BY <1>1, RowFields
<1>3. new \in ComandaRecord
  <2> HIDE DEF trail
  <2> QED BY <1>1, <1>2 DEF ComandaRecord
<1>4. comandas' = [comandas EXCEPT ![c] = new]
  OBVIOUS
<1> QED BY <1>3, <1>4, RowRewritten

(* A list of at most MaxPayments payments is a list of payments. *)
LEMMA PaymentListsType == PaymentLists \subseteq Seq(Payment)
<1>1. ASSUME NEW n \in 0..MaxPayments, NEW p \in [1..n -> Payment] PROVE p \in Seq(Payment)
  BY IsASeq
<1> QED BY <1>1 DEF PaymentLists

(* Every step keeps the type of the table. *)
LEMMA TypeStep ==
  ASSUME ComandaTypeOK, [ComandaNext]_comandas
  PROVE  ComandaTypeOK'
<1>1. CASE UNCHANGED comandas
  BY <1>1 DEF ComandaTypeOK
<1>2. ASSUME NEW c \in ComandaIds, ComandaStep(c) PROVE ComandaTypeOK'
  <2>1. CASE \E n \in Numeros : OpenComanda(c, n)
    BY <2>1, OpenType
  <2>2. CASE \E setor \in Setores, price \in Prices : AddComandaItem(c, setor, price)
    BY <2>2, AddItemType
  <2>3. CASE \E k \in 1..MaxItems : CancelComandaItem(c, k)
    BY <2>3, CancelItemType
  <2>4. CASE SendComandaToProduction(c)
    BY <2>4, SendType
  <2>5. CASE GeneratePreConta(c)
    BY <2>5, PreContaType
  <2>6. CASE RequestCashCheckout(c)
    <3> DEFINE old == comandas[c]
    <3>1. old \in ComandaRecord /\ old.status = "EM_PAGAMENTO"
      BY <2>6 DEF ComandaTypeOK, RequestCashCheckout
    <3>2. comandas' = [comandas EXCEPT ![c].status = "EM_PAGAMENTO",
                         ![c].trail = Append(@, "COMANDA_ENCAMINHADA_CAIXA")]
      BY <2>6, <3>1 DEF RequestCashCheckout, ComandaTypeOK, ComandaRecord
    <3> QED BY <3>2, StatusType DEF ActiveStatus, TrailAction
  <2>7. CASE ReopenComanda(c)
    BY <2>7, StatusType DEF ReopenComanda, ActiveStatus, TrailAction
  <2>8. CASE \E payments \in PaymentLists : CheckoutComanda(c, payments)
    BY <2>8, CheckoutType, PaymentListsType
  <2>9. CASE CancelComanda(c)
    BY <2>9, StatusType DEF CancelComanda, FinalStatus, TrailAction
  <2> QED BY <1>2, <2>1, <2>2, <2>3, <2>4, <2>5, <2>6, <2>7, <2>8, <2>9 DEF ComandaStep
<1> QED BY <1>1, <1>2 DEF ComandaNext

(* Type correctness: whatever the calls, their order and their number, the     *)
(* table holds rows that the schema of migration 0002 allows.                  *)
THEOREM ComandaTypeCorrect == ComandaSpec => []ComandaTypeOK
<1>1. ComandaInit => ComandaTypeOK
  BY NoComandaType DEF ComandaInit, ComandaTypeOK
<1>2. ComandaTypeOK /\ [ComandaNext]_comandas => ComandaTypeOK'
  BY TypeStep
<1> QED BY <1>1, <1>2, PTL DEF ComandaSpec

-----------------------------------------------------------------------------
(* The bill *)

(* An operation on one comanda leaves the others as they are. *)
LEMMA OthersUntouched ==
  ASSUME ComandaTypeOK, NEW c \in ComandaIds, ComandaStep(c),
         NEW d \in ComandaIds, d # c
  PROVE  comandas'[d] = comandas[d]
BY DEF ComandaTypeOK, ComandaStep, OpenComanda, AddComandaItem, CancelComandaItem,
       SendComandaToProduction, GeneratePreConta, RequestCashCheckout, ReopenComanda,
       CheckoutComanda, CancelComanda

\* The item k of comanda c once its batch is sent.
SentItem(c, k) ==
  IF k \in PendingItems(comandas[c].items)
    THEN [comandas[c].items[k] EXCEPT !.status = "ENVIADO", !.batch = NextBatch(c)]
    ELSE comandas[c].items[k]

(* What sending to production writes, field by field. *)
LEMMA SendEffect ==
  ASSUME ComandaTypeOK, NEW c \in ComandaIds, SendComandaToProduction(c)
  PROVE  LET old == comandas[c]
             new == comandas'[c]
         IN /\ new.status = "EM_PRODUCAO"
            /\ new.items = [k \in DOMAIN old.items |-> SentItem(c, k)]
            /\ new.batches = Append(old.batches, PendingItems(old.items))
            /\ new.trail = Append(old.trail, "ENVIADO_PRODUCAO")
            /\ new.payments = old.payments /\ new.preContas = old.preContas
            /\ new.numero = old.numero
<1> DEFINE old == comandas[c]
           items == [k \in DOMAIN old.items |-> SentItem(c, k)]
           batches == Append(old.batches, PendingItems(old.items))
           trail == Append(old.trail, "ENVIADO_PRODUCAO")
           new == [old EXCEPT !.status = "EM_PRODUCAO", !.items = items,
                              !.batches = batches, !.trail = trail]
<1>1. old \in ComandaRecord /\ c \in DOMAIN comandas
  BY DEF ComandaTypeOK
<1>2. comandas' = [comandas EXCEPT ![c] = new]
  BY DEF SendComandaToProduction, SentItem
<1>3. comandas'[c] = new
  BY <1>1, <1>2
<1> HIDE DEF items, batches, trail
<1>4. /\ new.status = "EM_PRODUCAO" /\ new.items = items /\ new.batches = batches
      /\ new.trail = trail /\ new.payments = old.payments
      /\ new.preContas = old.preContas /\ new.numero = old.numero
  BY <1>1 DEF ComandaRecord
<1> QED BY <1>3, <1>4 DEF items, batches, trail

(* What is appended is the last element. *)
LEMMA LastOfAppend ==
  ASSUME NEW S, NEW seq \in Seq(S), NEW elt \in S
  PROVE  Append(seq, elt) # <<>> /\ Last(Append(seq, elt)) = elt
BY AppendProperties DEF Last

\* The part of PreContaIsTheBill that is about one comanda.
BillOf(c) ==
  comandas[c].status \in {"EM_PAGAMENTO", "ENCERRADA"} =>
    /\ comandas[c].preContas # <<>>
    /\ Last(comandas[c].preContas).items = ActiveItems(comandas[c].items)
    /\ Last(comandas[c].preContas).total = Subtotal(comandas[c].items)

(* Only a new pre-conta and the closing lead to a state with a bill, and       *)
(* neither touches the items; what does touch them needs a state without one.  *)
LEMMA BillStep ==
  ASSUME ComandaTypeOK, PreContaIsTheBill, [ComandaNext]_comandas
  PROVE  PreContaIsTheBill'
<1>1. CASE UNCHANGED comandas
  BY <1>1 DEF PreContaIsTheBill
<1>2. ASSUME NEW c \in ComandaIds, ComandaStep(c) PROVE PreContaIsTheBill'
  <2> DEFINE old == comandas[c]
             new == comandas'[c]
  <2>0. old \in ComandaRecord /\ BillOf(c) /\ DOMAIN comandas = ComandaIds
    BY DEF ComandaTypeOK, PreContaIsTheBill, BillOf
  <2>9. SUFFICES BillOf(c)'
    BY <1>2, OthersUntouched DEF BillOf, PreContaIsTheBill
  <2>1. CASE new.status \notin {"EM_PAGAMENTO", "ENCERRADA"}
    BY <2>1 DEF BillOf
  <2>2. CASE GeneratePreConta(c)
    <3> DEFINE bill == [items |-> ActiveItems(old.items), total |-> Subtotal(old.items)]
    <3>1. new.items = old.items /\ new.preContas = Append(old.preContas, bill)
      BY <2>0, <2>2 DEF GeneratePreConta
    <3>2. bill \in PreConta
      BY <2>0, RowFields, SubtotalIsNat DEF PreConta, ActiveItems
    <3>3. new.preContas # <<>> /\ Last(new.preContas) = bill
      <4> HIDE DEF bill
      <4> QED BY <2>0, <3>1, <3>2, RowFields, LastOfAppend
    <3> QED BY <3>1, <3>3 DEF BillOf
  <2>3. CASE RequestCashCheckout(c)
    <3>1. /\ old.status = "EM_PAGAMENTO"
          /\ new.items = old.items /\ new.preContas = old.preContas
      BY <2>0, <2>3 DEF RequestCashCheckout
    <3> QED BY <2>0, <3>1 DEF BillOf
  <2>4. ASSUME NEW payments \in PaymentLists, CheckoutComanda(c, payments) PROVE BillOf(c)'
    <3>1. /\ old.status = "EM_PAGAMENTO"
          /\ new.items = old.items /\ new.preContas = old.preContas
      BY <2>0, <2>4 DEF CheckoutComanda
    <3> QED BY <2>0, <3>1 DEF BillOf
  <2>5. ASSUME NEW n \in Numeros, OpenComanda(c, n) PROVE BillOf(c)'
    BY <2>0, <2>1, <2>5 DEF OpenComanda, NoComanda
  <2>6. ASSUME NEW setor \in Setores, NEW price \in Prices, AddComandaItem(c, setor, price)
        PROVE  BillOf(c)'
    <3>1. new.status = old.status
      BY <2>0, <2>6 DEF AddComandaItem
    <3> QED BY <2>1, <2>6, <3>1 DEF AddComandaItem, IsEditable
  <2>7. ASSUME NEW k \in 1..MaxItems, CancelComandaItem(c, k) PROVE BillOf(c)'
    <3>1. new.status = old.status
      BY <2>0, <2>7 DEF CancelComandaItem
    <3> QED BY <2>1, <2>7, <3>1 DEF CancelComandaItem, IsEditable
  <2>8. CASE SendComandaToProduction(c)
    BY <2>1, <2>8, SendEffect
  <2>10. CASE ReopenComanda(c)
    BY <2>0, <2>1, <2>10 DEF ReopenComanda
  <2>11. CASE CancelComanda(c)
    BY <2>0, <2>1, <2>11 DEF CancelComanda
  <2> QED BY <1>2, <2>2, <2>3, <2>4, <2>5, <2>6, <2>7, <2>8, <2>10, <2>11 DEF ComandaStep
<1> QED BY <1>1, <1>2 DEF ComandaNext

(* Every step leads to a bill that matches its items, from the empty table.    *)
LEMMA BillInvariant == ComandaSpec => [](ComandaTypeOK /\ PreContaIsTheBill)
<1>1. ComandaInit => ComandaTypeOK /\ PreContaIsTheBill
  BY NoComandaType DEF ComandaInit, ComandaTypeOK, PreContaIsTheBill, NoComanda
<1>2. ComandaTypeOK /\ PreContaIsTheBill /\ [ComandaNext]_comandas
        => (ComandaTypeOK /\ PreContaIsTheBill)'
  BY TypeStep, BillStep
<1> QED BY <1>1, <1>2, PTL DEF ComandaSpec

(* The customer is charged for what is on the comanda: in every reachable      *)
(* state the last pre-conta of a comanda that is charged or closed lists its   *)
(* active items and their total.                                               *)
THEOREM BillCorrect == ComandaSpec => []PreContaIsTheBill
BY BillInvariant, PTL

(* What was paid, in all and in cash, is a natural number of cents. *)
LEMMA PaidIsNat ==
  ASSUME NEW payments \in Seq(Payment)
  PROVE  Paid(payments) \in Nat /\ PaidInCash(payments) \in Nat
<1>1. ASSUME NEW k \in 1..Len(payments)
      PROVE  PaymentAmounts(payments)[k] \in Nat /\ CashAmounts(payments)[k] \in Nat
  <2>1. k \in DOMAIN payments /\ payments[k] \in Payment
    OBVIOUS
  <2>2. payments[k].amount \in Nat
    BY <2>1, ComandaAssumption DEF Payment
  <2> QED BY <2>1, <2>2 DEF PaymentAmounts, CashAmounts
<1>2. Len(payments) \in Nat
  OBVIOUS
<1>3. Paid(payments) \in Nat
  BY <1>1, <1>2, SumIsIn DEF Paid
<1>4. PaidInCash(payments) \in Nat
  BY <1>1, <1>2, SumIsIn DEF PaidInCash
<1> QED BY <1>3, <1>4

\* The part of ClosedMeansPaid that is about one comanda.
ClosedOf(c) ==
  /\ comandas[c].payments # <<>> <=> comandas[c].status = "ENCERRADA"
  /\ comandas[c].status = "ENCERRADA" =>
       LET change == Paid(comandas[c].payments) - Last(comandas[c].preContas).total
       IN change \in 0..PaidInCash(comandas[c].payments)

(* Payments arrive with the closing and with nothing else, and the closing     *)
(* compares them with the subtotal, which is the total of the last pre-conta.  *)
LEMMA ClosedStep ==
  ASSUME ComandaTypeOK, PreContaIsTheBill, ClosedMeansPaid, [ComandaNext]_comandas
  PROVE  ClosedMeansPaid'
<1>1. CASE UNCHANGED comandas
  BY <1>1 DEF ClosedMeansPaid
<1>2. ASSUME NEW c \in ComandaIds, ComandaStep(c) PROVE ClosedMeansPaid'
  <2> DEFINE old == comandas[c]
             new == comandas'[c]
  <2>1. /\ old \in ComandaRecord /\ DOMAIN comandas = ComandaIds
        /\ BillOf(c) /\ ClosedOf(c)
    BY DEF ComandaTypeOK, PreContaIsTheBill, BillOf, ClosedMeansPaid, ClosedOf
  <2>2. SUFFICES ClosedOf(c)'
    BY <1>2, OthersUntouched DEF ClosedOf, ClosedMeansPaid
  <2>3. ASSUME old.status # "ENCERRADA", new.status # "ENCERRADA", new.payments = old.payments
        PROVE  ClosedOf(c)'
    BY <2>1, <2>3 DEF ClosedOf
  <2>4. ASSUME NEW payments \in PaymentLists, CheckoutComanda(c, payments) PROVE ClosedOf(c)'
    <3>1. payments \in Seq(Payment)
      BY PaymentListsType
    <3>2. /\ old.status = "EM_PAGAMENTO" /\ payments # <<>>
          /\ CoversTotal(payments, Subtotal(old.items))
      BY <2>4 DEF CheckoutComanda
    <3>3. /\ new.status = "ENCERRADA" /\ new.preContas = old.preContas
          /\ new.payments = old.payments \o payments
      BY <2>1, <2>4 DEF CheckoutComanda
    <3>4. old.payments = <<>>
      BY <2>1, <3>2 DEF ClosedOf
    <3>5. new.payments = payments
      BY <3>1, <3>3, <3>4, ConcatEmptySeq
    <3>6. Last(old.preContas).total = Subtotal(old.items)
      BY <2>1, <3>2 DEF BillOf
    <3>7. Subtotal(old.items) \in Nat /\ Paid(payments) \in Nat /\ PaidInCash(payments) \in Nat
      BY <2>1, <3>1, RowFields, SubtotalIsNat, PaidIsNat
    <3>8. Paid(payments) - Subtotal(old.items) \in 0..PaidInCash(payments)
      BY <3>2, <3>7 DEF CoversTotal
    <3> QED BY <3>2, <3>3, <3>5, <3>6, <3>8 DEF ClosedOf
  <2>5. ASSUME NEW n \in Numeros, OpenComanda(c, n) PROVE ClosedOf(c)'
    <3>1. old.status = "INEXISTENTE" /\ new.status = "ABERTA" /\ new.payments = <<>>
      BY <2>1, <2>5 DEF OpenComanda, NoComanda
    <3>2. old.payments = <<>>
      BY <2>1, <3>1 DEF ClosedOf
    <3> QED BY <2>3, <3>1, <3>2
  <2>6. ASSUME NEW setor \in Setores, NEW price \in Prices, AddComandaItem(c, setor, price)
        PROVE  ClosedOf(c)'
    <3>1. new.status = old.status /\ new.payments = old.payments
      BY <2>1, <2>6 DEF AddComandaItem
    <3> QED BY <2>3, <2>6, <3>1 DEF AddComandaItem, IsEditable
  <2>7. ASSUME NEW k \in 1..MaxItems, CancelComandaItem(c, k) PROVE ClosedOf(c)'
    <3>1. new.status = old.status /\ new.payments = old.payments
      BY <2>1, <2>7 DEF CancelComandaItem
    <3> QED BY <2>3, <2>7, <3>1 DEF CancelComandaItem, IsEditable
  <2>8. CASE SendComandaToProduction(c)
    <3>1. old.status # "ENCERRADA"
      BY <2>8 DEF SendComandaToProduction, IsEditable
    <3> QED BY <2>3, <2>8, <3>1, SendEffect
  <2>9. CASE GeneratePreConta(c)
    <3>1. /\ old.status = "EM_PRODUCAO" /\ new.status = "EM_PAGAMENTO"
          /\ new.payments = old.payments
      BY <2>1, <2>9 DEF GeneratePreConta
    <3> QED BY <2>3, <3>1
  <2>10. CASE RequestCashCheckout(c)
    <3>1. old.status = "EM_PAGAMENTO" /\ new.status = old.status /\ new.payments = old.payments
      BY <2>1, <2>10 DEF RequestCashCheckout
    <3> QED BY <2>3, <3>1
  <2>11. CASE ReopenComanda(c)
    <3>1. /\ old.status = "EM_PAGAMENTO" /\ new.status = "EM_PRODUCAO"
          /\ new.payments = old.payments
      BY <2>1, <2>11 DEF ReopenComanda
    <3> QED BY <2>3, <3>1
  <2>12. CASE CancelComanda(c)
    <3>1. old.status \in ActiveStatus /\ new.status = "CANCELADA" /\ new.payments = old.payments
      BY <2>1, <2>12 DEF CancelComanda, IsActive
    <3> QED BY <2>3, <3>1 DEF ActiveStatus
  <2> QED BY <1>2, <2>4, <2>5, <2>6, <2>7, <2>8, <2>9, <2>10, <2>11, <2>12 DEF ComandaStep
<1> QED BY <1>1, <1>2 DEF ComandaNext

(* Every step keeps closing and paying together, from the empty table. *)
LEMMA ClosedInvariant ==
  ComandaSpec => [](ComandaTypeOK /\ PreContaIsTheBill /\ ClosedMeansPaid)
<1>1. ComandaInit => ClosedMeansPaid
  BY DEF ComandaInit, ClosedMeansPaid, NoComanda
<1>2. /\ ComandaTypeOK /\ PreContaIsTheBill /\ ClosedMeansPaid
      /\ [ComandaNext]_comandas
      => ClosedMeansPaid'
  BY ClosedStep
<1> QED BY <1>1, <1>2, BillInvariant, PTL DEF ComandaSpec

(* No comanda is closed unpaid or paid without being closed, the payments of a *)
(* closed one cover the total of its last pre-conta, and the change is never   *)
(* more than the cash among them.                                              *)
THEOREM ClosedIsPaid == ComandaSpec => []ClosedMeansPaid
BY ClosedInvariant, PTL

-----------------------------------------------------------------------------
(* The production batches *)

\* The part of BatchesMatchItems that is about one comanda.
BatchesOf(c) ==
  LET items == comandas[c].items
      batches == comandas[c].batches
  IN /\ \A k \in DOMAIN items :
          /\ items[k].status = "LANCADO" => items[k].batch = 0
          /\ items[k].status = "ENVIADO" => items[k].batch # 0
          /\ items[k].batch \in 0..Len(batches)
     /\ \A b \in DOMAIN batches :
          /\ batches[b] # {}
          /\ batches[b] = {k \in DOMAIN items : items[k].batch = b}
     /\ comandas[c].status = "ABERTA" => batches = <<>>
     /\ comandas[c].status \in {"EM_PRODUCAO", "EM_PAGAMENTO", "ENCERRADA"} =>
          batches # <<>>

(* Sending gives the launched items, which had no batch, the number of the     *)
(* batch that is appended; adding and cancelling never touch a batch.          *)
LEMMA BatchesStep ==
  ASSUME ComandaTypeOK, BatchesMatchItems, [ComandaNext]_comandas
  PROVE  BatchesMatchItems'
<1>1. CASE UNCHANGED comandas
  BY <1>1 DEF BatchesMatchItems
<1>2. ASSUME NEW c \in ComandaIds, ComandaStep(c) PROVE BatchesMatchItems'
  <2> DEFINE old == comandas[c]
             new == comandas'[c]
  <2>1. /\ old \in ComandaRecord /\ DOMAIN comandas = ComandaIds /\ BatchesOf(c)
    BY DEF ComandaTypeOK, BatchesMatchItems, BatchesOf
  <2>2. SUFFICES BatchesOf(c)'
    BY <1>2, OthersUntouched DEF BatchesOf, BatchesMatchItems
  <2>3. ASSUME new.items = old.items, new.batches = old.batches,
               new.status = "ABERTA" => old.status = "ABERTA",
               new.status \in {"EM_PRODUCAO", "EM_PAGAMENTO", "ENCERRADA"} =>
                 old.status \in {"EM_PRODUCAO", "EM_PAGAMENTO", "ENCERRADA"}
        PROVE  BatchesOf(c)'
    BY <2>1, <2>3 DEF BatchesOf
  <2>4. ASSUME NEW n \in Numeros, OpenComanda(c, n) PROVE BatchesOf(c)'
    <3>1. new.status = "ABERTA" /\ new.items = <<>> /\ new.batches = <<>>
      BY <2>1, <2>4 DEF OpenComanda, NoComanda
    <3> QED BY <3>1 DEF BatchesOf
  <2>5. ASSUME NEW setor \in Setores, NEW price \in Prices, AddComandaItem(c, setor, price)
        PROVE  BatchesOf(c)'
    <3> DEFINE item == [setor |-> setor, price |-> price, status |-> "LANCADO", batch |-> 0]
    <3>1. /\ new.status = old.status /\ new.batches = old.batches
          /\ new.items = Append(old.items, item)
      BY <2>1, <2>5 DEF AddComandaItem
    <3>2. /\ DOMAIN new.items = 1..Len(old.items)+1 /\ DOMAIN old.items = 1..Len(old.items)
          /\ \A k \in DOMAIN old.items : new.items[k] = old.items[k]
          /\ Len(old.items) \in Nat /\ new.items[Len(old.items)+1] = item
      <4> HIDE DEF item
      <4> QED BY <2>1, <3>1, RowFields
    <3>3. DOMAIN old.batches = 1..Len(old.batches) /\ Len(old.batches) \in Nat
      BY <2>1, RowFields
    <3>4. \A b \in DOMAIN old.batches :
            {k \in DOMAIN new.items : new.items[k].batch = b}
              = {k \in DOMAIN old.items : old.items[k].batch = b}
      BY <3>2, <3>3
    <3> HIDE DEF old, new
    <3> QED BY <2>1, <3>1, <3>2, <3>3, <3>4 DEF BatchesOf, old, new
  <2>6. ASSUME NEW k \in 1..MaxItems, CancelComandaItem(c, k) PROVE BatchesOf(c)'
    <3>1. /\ new.status = old.status /\ new.batches = old.batches
          /\ new.items = [old.items EXCEPT ![k].status = "CANCELADO"]
      BY <2>1, <2>6 DEF CancelComandaItem
    <3>2. k \in DOMAIN old.items /\ old.items[k] \in Item
      BY <2>1, <2>6, RowFields DEF CancelComandaItem, ActiveItems
    <3>3. /\ DOMAIN new.items = DOMAIN old.items
          /\ \A j \in DOMAIN old.items : j # k => new.items[j] = old.items[j]
          /\ new.items[k] = [old.items[k] EXCEPT !.status = "CANCELADO"]
      BY <3>1, <3>2
    <3>4. new.items[k].batch = old.items[k].batch /\ new.items[k].status = "CANCELADO"
      BY <3>2, <3>3 DEF Item
    <3>5. \A j \in DOMAIN old.items : new.items[j].batch = old.items[j].batch
      BY <3>3, <3>4
    <3> QED BY <2>1, <3>1, <3>3, <3>4, <3>5 DEF BatchesOf
  <2>7. CASE SendComandaToProduction(c)
    <3> DEFINE pending == PendingItems(old.items)
               n == Len(old.batches) + 1
    <3>1. /\ new.status = "EM_PRODUCAO" /\ new.batches = Append(old.batches, pending)
          /\ DOMAIN new.items = DOMAIN old.items
          /\ \A k \in DOMAIN old.items : new.items[k] = SentItem(c, k)
      BY <2>7, SendEffect
    <3>2. /\ DOMAIN old.batches = 1..Len(old.batches) /\ Len(old.batches) \in Nat
          /\ \A k \in DOMAIN old.items : old.items[k] \in Item
      BY <2>1, RowFields
    <3>3. pending # {} /\ pending = {k \in DOMAIN old.items : old.items[k].status = "LANCADO"}
      BY <2>7 DEF SendComandaToProduction, PendingItems
    <3>4. \A k \in pending : new.items[k].status = "ENVIADO" /\ new.items[k].batch = n
      BY <3>1, <3>2, <3>3 DEF SentItem, NextBatch, Item
    <3>5. \A k \in DOMAIN old.items : k \notin pending => new.items[k] = old.items[k]
      BY <3>1 DEF SentItem
    <3>6. \A k \in pending : old.items[k].batch = 0
      BY <2>1, <3>3 DEF BatchesOf
    <3>7. /\ DOMAIN new.batches = 1..n /\ Len(new.batches) = n /\ new.batches # <<>>
          /\ \A b \in 1..Len(old.batches) : new.batches[b] = old.batches[b]
          /\ new.batches[n] = pending
      <4>1. pending \in SUBSET Nat
        BY <2>1, <3>3, RowFields
      <4>2. old.batches \in Seq(SUBSET Nat)
        BY <2>1, RowFields
      <4> HIDE DEF pending
      <4> QED BY <3>1, <4>1, <4>2, AppendProperties
    <3>8. ASSUME NEW k \in DOMAIN new.items
          PROVE  /\ new.items[k].status = "LANCADO" => new.items[k].batch = 0
                 /\ new.items[k].status = "ENVIADO" => new.items[k].batch # 0
                 /\ new.items[k].batch \in 0..n
      <4>1. CASE k \in pending
        BY <3>2, <3>4, <4>1
      <4>2. CASE k \notin pending
        <5> HIDE DEF pending
        <5>1. new.items[k] = old.items[k] /\ old.items[k].batch \in 0..Len(old.batches)
          BY <2>1, <3>1, <3>5, <4>2 DEF BatchesOf
        <5> QED BY <2>1, <3>1, <3>2, <5>1 DEF BatchesOf
      <4> QED BY <4>1, <4>2
    <3>9. ASSUME NEW b \in 1..n
          PROVE  /\ new.batches[b] # {}
                 /\ new.batches[b] = {k \in DOMAIN new.items : new.items[k].batch = b}
      <4>1. CASE b = n
        <5>1. \A k \in DOMAIN old.items : k \notin pending => old.items[k].batch # n
          BY <2>1, <3>2 DEF BatchesOf
        <5>2. pending = {k \in DOMAIN new.items : new.items[k].batch = n}
          BY <3>1, <3>3, <3>4, <3>5, <5>1
        <5> QED BY <3>3, <3>7, <4>1, <5>2
      <4>2. CASE b \in 1..Len(old.batches)
        <5>1. old.batches[b] # {} /\ old.batches[b] = {k \in DOMAIN old.items : old.items[k].batch = b}
          BY <2>1, <3>2, <4>2 DEF BatchesOf
        <5>2. b # 0 /\ b # n
          BY <3>2, <4>2
        <5>3. \A k \in DOMAIN old.items : new.items[k].batch = b <=> old.items[k].batch = b
          <6> HIDE DEF pending, n
          <6> QED BY <3>4, <3>5, <3>6, <5>2
        <5> QED BY <3>1, <3>7, <4>2, <5>1, <5>3
      <4> QED BY <3>2, <4>1, <4>2
    <3> QED BY <3>1, <3>7, <3>8, <3>9 DEF BatchesOf
  <2>8. CASE GeneratePreConta(c)
    <3>1. /\ old.status = "EM_PRODUCAO" /\ new.status = "EM_PAGAMENTO"
          /\ new.items = old.items /\ new.batches = old.batches
      BY <2>1, <2>8 DEF GeneratePreConta
    <3> QED BY <2>3, <3>1
  <2>9. CASE RequestCashCheckout(c)
    <3>1. /\ new.status = old.status
          /\ new.items = old.items /\ new.batches = old.batches
      BY <2>1, <2>9 DEF RequestCashCheckout
    <3> QED BY <2>3, <3>1
  <2>10. CASE ReopenComanda(c)
    <3>1. /\ old.status = "EM_PAGAMENTO" /\ new.status = "EM_PRODUCAO"
          /\ new.items = old.items /\ new.batches = old.batches
      BY <2>1, <2>10 DEF ReopenComanda
    <3> QED BY <2>3, <3>1
  <2>11. ASSUME NEW payments \in PaymentLists, CheckoutComanda(c, payments) PROVE BatchesOf(c)'
    <3>1. /\ old.status = "EM_PAGAMENTO" /\ new.status = "ENCERRADA"
          /\ new.items = old.items /\ new.batches = old.batches
      BY <2>1, <2>11 DEF CheckoutComanda
    <3> QED BY <2>3, <3>1
  <2>12. CASE CancelComanda(c)
    <3>1. /\ new.status = "CANCELADA"
          /\ new.items = old.items /\ new.batches = old.batches
      BY <2>1, <2>12 DEF CancelComanda
    <3> QED BY <2>3, <3>1
  <2> QED BY <1>2, <2>4, <2>5, <2>6, <2>7, <2>8, <2>9, <2>10, <2>11, <2>12 DEF ComandaStep
<1> QED BY <1>1, <1>2 DEF ComandaNext

(* The batches match the items from the empty table on. *)
LEMMA BatchesInvariant == ComandaSpec => [](ComandaTypeOK /\ BatchesMatchItems)
<1>1. ComandaInit => BatchesMatchItems
  BY DEF ComandaInit, BatchesMatchItems, NoComanda
<1>2. ComandaTypeOK /\ BatchesMatchItems /\ [ComandaNext]_comandas => BatchesMatchItems'
  BY BatchesStep
<1> QED BY <1>1, <1>2, ComandaTypeCorrect, PTL DEF ComandaSpec

(* The two records of production agree in every reachable state: the batch of  *)
(* an item is the one batch that lists it.                                     *)
THEOREM BatchesCorrect == ComandaSpec => []BatchesMatchItems
BY BatchesInvariant, PTL

-----------------------------------------------------------------------------
(* The audit trail *)

(* One more event counts once more, for its own kind only. *)
LEMMA TimesInAppend ==
  ASSUME NEW trail \in Seq(TrailAction), NEW e \in TrailAction, NEW a
  PROVE  /\ TimesIn(a, trail) \in Nat
         /\ TimesIn(a, Append(trail, e)) = TimesIn(a, trail) + (IF e = a THEN 1 ELSE 0)
<1> DEFINE f == [j \in DOMAIN trail |-> IF trail[j] = a THEN 1 ELSE 0]
           t == Append(trail, e)
           g == [j \in DOMAIN t |-> IF t[j] = a THEN 1 ELSE 0]
           n == Len(trail)
<1>1. /\ n \in Nat /\ DOMAIN trail = 1..n /\ DOMAIN t = 1..n+1 /\ Len(t) = n+1
      /\ \A i \in 1..n : t[i] = trail[i]
      /\ t[n+1] = e
  OBVIOUS
<1>2. \A i \in 1..n : f[i] = g[i] /\ f[i] \in Nat
  BY <1>1
<1>3. g[n+1] = IF e = a THEN 1 ELSE 0
  BY <1>1
<1>4. TimesIn(a, trail) = SumTo(f, n) /\ TimesIn(a, t) = SumTo(g, n+1)
  BY <1>1 DEF TimesIn
<1> HIDE DEF f, g, n
<1>5. SumTo(g, n+1) = SumTo(f, n) + g[n+1]
  BY <1>1, <1>2, SumAppend
<1>6. SumTo(f, n) \in Nat
  BY <1>1, <1>2, SumIsIn
<1> QED BY <1>3, <1>4, <1>5, <1>6

(* An empty trail holds no event of any kind. *)
LEMMA TimesInEmpty == \A a : TimesIn(a, <<>>) = 0
BY SumStep DEF TimesIn

\* The part of TrailExplainsComanda that is about one comanda.
TrailOf(c) ==
  LET r == comandas[c]
  IN /\ r.trail = <<>> <=> r.status = "INEXISTENTE"
     /\ r.trail # <<>> => r.status = StatusAfter[Last(r.trail)]
     /\ TimesIn("ENVIADO_PRODUCAO", r.trail) = Len(r.batches)
     /\ TimesIn("PRE_CONTA_GERADA", r.trail) = Len(r.preContas)
     /\ TimesIn("CHECKOUT_CONCLUIDO", r.trail) + TimesIn("COMANDA_CANCELADA", r.trail) =
          IF r.status \in FinalStatus THEN 1 ELSE 0

(* The statuses of StatusAfter, one event at a time. *)
LEMMA StatusAfterEach ==
  /\ StatusAfter["COMANDA_ABERTA"] = "ABERTA"
  /\ StatusAfter["ENVIADO_PRODUCAO"] = "EM_PRODUCAO"
  /\ StatusAfter["COMANDA_REABERTA"] = "EM_PRODUCAO"
  /\ StatusAfter["PRE_CONTA_GERADA"] = "EM_PAGAMENTO"
  /\ StatusAfter["COMANDA_ENCAMINHADA_CAIXA"] = "EM_PAGAMENTO"
  /\ StatusAfter["CHECKOUT_CONCLUIDO"] = "ENCERRADA"
  /\ StatusAfter["COMANDA_CANCELADA"] = "CANCELADA"
BY DEF StatusAfter, TrailAction

(* The event that a step appends agrees with the status, the batches and the   *)
(* pre-contas that the same step writes.                                       *)
LEMMA TrailStep ==
  ASSUME ComandaTypeOK, TrailExplainsComanda, [ComandaNext]_comandas
  PROVE  TrailExplainsComanda'
<1>1. CASE UNCHANGED comandas
  BY <1>1 DEF TrailExplainsComanda
<1>2. ASSUME NEW c \in ComandaIds, ComandaStep(c) PROVE TrailExplainsComanda'
  <2> DEFINE old == comandas[c]
             new == comandas'[c]
  <2>1. /\ old \in ComandaRecord /\ DOMAIN comandas = ComandaIds /\ TrailOf(c)
        /\ Len(old.batches) \in Nat /\ Len(old.preContas) \in Nat
    BY RowFields DEF ComandaTypeOK, TrailExplainsComanda, TrailOf
  <2>2. SUFFICES TrailOf(c)'
    BY <1>2, OthersUntouched DEF TrailOf, TrailExplainsComanda
  <2>3. ASSUME new.trail = old.trail, new.status = old.status,
               new.batches = old.batches, new.preContas = old.preContas
        PROVE  TrailOf(c)'
    BY <2>1, <2>3 DEF TrailOf
  <2>4. ASSUME NEW e \in TrailAction, new.trail = Append(old.trail, e),
               new.status = StatusAfter[e], new.status # "INEXISTENTE",
               Len(new.batches) = Len(old.batches) + (IF e = "ENVIADO_PRODUCAO" THEN 1 ELSE 0),
               Len(new.preContas) = Len(old.preContas) + (IF e = "PRE_CONTA_GERADA" THEN 1 ELSE 0),
               old.status \notin FinalStatus,
               new.status \in FinalStatus <=> e \in {"CHECKOUT_CONCLUIDO", "COMANDA_CANCELADA"}
        PROVE  TrailOf(c)'
    <3>1. old.trail \in Seq(TrailAction)
      BY <2>1, RowFields
    <3>2. new.trail # <<>> /\ Last(new.trail) = e
      BY <2>4, <3>1, LastOfAppend
    <3>3. \A a : /\ TimesIn(a, old.trail) \in Nat
                 /\ TimesIn(a, new.trail) = TimesIn(a, old.trail) + (IF e = a THEN 1 ELSE 0)
      BY <2>4, <3>1, TimesInAppend
    <3>4. TimesIn("ENVIADO_PRODUCAO", new.trail) = Len(new.batches)
      BY <2>1, <2>4, <3>3 DEF TrailOf
    <3>5. TimesIn("PRE_CONTA_GERADA", new.trail) = Len(new.preContas)
      BY <2>1, <2>4, <3>3 DEF TrailOf
    <3>6. TimesIn("CHECKOUT_CONCLUIDO", new.trail) + TimesIn("COMANDA_CANCELADA", new.trail) =
            IF new.status \in FinalStatus THEN 1 ELSE 0
      <4>1. TimesIn("CHECKOUT_CONCLUIDO", old.trail) = 0 /\ TimesIn("COMANDA_CANCELADA", old.trail) = 0
        BY <2>1, <2>4, <3>3 DEF TrailOf
      <4> QED BY <2>4, <3>3, <4>1
    <3> QED BY <2>4, <3>2, <3>4, <3>5, <3>6 DEF TrailOf
  <2>5. ASSUME NEW n \in Numeros, OpenComanda(c, n) PROVE TrailOf(c)'
    <3>1. /\ old.status = "INEXISTENTE" /\ new.status = "ABERTA"
          /\ new.trail = <<"COMANDA_ABERTA">> /\ new.batches = <<>> /\ new.preContas = <<>>
      BY <2>1, <2>5 DEF OpenComanda, NoComanda
    <3>2. \A a : TimesIn(a, new.trail) = IF a = "COMANDA_ABERTA" THEN 1 ELSE 0
      <4>1. <<"COMANDA_ABERTA">> = Append(<<>>, "COMANDA_ABERTA")
        OBVIOUS
      <4>2. <<>> \in Seq(TrailAction) /\ "COMANDA_ABERTA" \in TrailAction
        BY DEF TrailAction
      <4>3. ASSUME NEW a
            PROVE  TimesIn(a, Append(<<>>, "COMANDA_ABERTA")) =
                     TimesIn(a, <<>>) + (IF "COMANDA_ABERTA" = a THEN 1 ELSE 0)
        BY <4>2, TimesInAppend, Zenon
      <4> QED BY <3>1, <4>1, <4>3, TimesInEmpty
    <3>3. new.trail # <<>> /\ Last(new.trail) = "COMANDA_ABERTA"
      BY <3>1 DEF Last
    <3> QED BY <3>1, <3>2, <3>3, StatusAfterEach DEF TrailOf, FinalStatus
  <2>6. ASSUME NEW setor \in Setores, NEW price \in Prices, AddComandaItem(c, setor, price)
        PROVE  TrailOf(c)'
    <3>1. /\ new.status = old.status /\ new.trail = old.trail
          /\ new.batches = old.batches /\ new.preContas = old.preContas
      BY <2>1, <2>6 DEF AddComandaItem
    <3> QED BY <2>3, <3>1
  <2>7. ASSUME NEW k \in 1..MaxItems, CancelComandaItem(c, k) PROVE TrailOf(c)'
    <3>1. /\ new.status = old.status /\ new.trail = old.trail
          /\ new.batches = old.batches /\ new.preContas = old.preContas
      BY <2>1, <2>7 DEF CancelComandaItem
    <3> QED BY <2>3, <3>1
  <2>8. CASE SendComandaToProduction(c)
    <3>1. old.status \in {"ABERTA", "EM_PRODUCAO"}
      BY <2>8 DEF SendComandaToProduction, IsEditable
    <3>2. Len(new.batches) = Len(old.batches) + 1
      <4> DEFINE pending == PendingItems(old.items)
      <4>1. old.batches \in Seq(SUBSET Nat) /\ pending \in SUBSET Nat
        BY <2>1, RowFields DEF PendingItems
      <4>2. new.batches = Append(old.batches, pending)
        BY <2>8, SendEffect
      <4> HIDE DEF pending
      <4> QED BY <4>1, <4>2, AppendProperties
    <3>3. /\ new.trail = Append(old.trail, "ENVIADO_PRODUCAO")
          /\ new.status = "EM_PRODUCAO" /\ new.preContas = old.preContas
      BY <2>8, SendEffect
    <3> QED BY <2>1, <2>4, <3>1, <3>2, <3>3, StatusAfterEach DEF FinalStatus, TrailAction
  <2>9. CASE GeneratePreConta(c)
    <3> DEFINE bill == [items |-> ActiveItems(old.items), total |-> Subtotal(old.items)]
    <3>1. /\ old.status = "EM_PRODUCAO" /\ new.status = "EM_PAGAMENTO"
          /\ new.trail = Append(old.trail, "PRE_CONTA_GERADA")
          /\ new.preContas = Append(old.preContas, bill) /\ new.batches = old.batches
      BY <2>1, <2>9 DEF GeneratePreConta
    <3>2. Len(new.preContas) = Len(old.preContas) + 1
      <4>1. bill \in PreConta
        BY <2>1, RowFields, SubtotalIsNat DEF PreConta, ActiveItems
      <4> HIDE DEF bill
      <4> QED BY <2>1, <3>1, <4>1, RowFields, AppendProperties
    <3> QED BY <2>1, <2>4, <3>1, <3>2, StatusAfterEach DEF FinalStatus, TrailAction
  <2>10. CASE RequestCashCheckout(c)
    <3>1. /\ old.status = "EM_PAGAMENTO" /\ new.status = old.status
          /\ new.trail = Append(old.trail, "COMANDA_ENCAMINHADA_CAIXA")
          /\ new.preContas = old.preContas /\ new.batches = old.batches
      BY <2>1, <2>10 DEF RequestCashCheckout
    <3> QED BY <2>1, <2>4, <3>1, StatusAfterEach DEF FinalStatus, TrailAction
  <2>11. CASE ReopenComanda(c)
    <3>1. /\ old.status = "EM_PAGAMENTO" /\ new.status = "EM_PRODUCAO"
          /\ new.trail = Append(old.trail, "COMANDA_REABERTA")
          /\ new.preContas = old.preContas /\ new.batches = old.batches
      BY <2>1, <2>11 DEF ReopenComanda
    <3> QED BY <2>1, <2>4, <3>1, StatusAfterEach DEF FinalStatus, TrailAction
  <2>12. ASSUME NEW payments \in PaymentLists, CheckoutComanda(c, payments) PROVE TrailOf(c)'
    <3>1. /\ old.status = "EM_PAGAMENTO" /\ new.status = "ENCERRADA"
          /\ new.trail = Append(old.trail, "CHECKOUT_CONCLUIDO")
          /\ new.preContas = old.preContas /\ new.batches = old.batches
      BY <2>1, <2>12 DEF CheckoutComanda
    <3> QED BY <2>1, <2>4, <3>1, StatusAfterEach DEF FinalStatus, TrailAction
  <2>13. CASE CancelComanda(c)
    <3>1. /\ old.status \in ActiveStatus /\ new.status = "CANCELADA"
          /\ new.trail = Append(old.trail, "COMANDA_CANCELADA")
          /\ new.preContas = old.preContas /\ new.batches = old.batches
      BY <2>1, <2>13 DEF CancelComanda, IsActive
    <3> QED BY <2>1, <2>4, <3>1, StatusAfterEach DEF ActiveStatus, FinalStatus, TrailAction
  <2> QED BY <1>2, <2>5, <2>6, <2>7, <2>8, <2>9, <2>10, <2>11, <2>12, <2>13 DEF ComandaStep
<1> QED BY <1>1, <1>2 DEF ComandaNext

(* The audit trail is enough to tell the status of a comanda and how many      *)
(* times it was sent, charged and closed, after any sequence of calls.         *)
THEOREM TrailCorrect == ComandaSpec => []TrailExplainsComanda
<1>1. ComandaInit => TrailExplainsComanda
  BY TimesInEmpty DEF ComandaInit, TrailExplainsComanda, NoComanda, FinalStatus
<1>2. ComandaTypeOK /\ TrailExplainsComanda /\ [ComandaNext]_comandas => TrailExplainsComanda'
  BY TrailStep
<1> QED BY <1>1, <1>2, ComandaTypeCorrect, PTL DEF ComandaSpec
-----------------------------------------------------------------------------
(* History *)

(* A list is a prefix of itself and of itself with one more element. *)
LEMMA PrefixOfAppend ==
  ASSUME NEW S, NEW s \in Seq(S)
  PROVE  /\ IsPrefixOf(s, s)
         /\ \A e \in S : IsPrefixOf(s, Append(s, e))
<1>1. IsPrefixOf(s, s)
  BY DEF IsPrefixOf
<1>2. ASSUME NEW e \in S PROVE IsPrefixOf(s, Append(s, e))
  <2>1. Len(s) \in Nat /\ DOMAIN s = 1..Len(s)
    OBVIOUS
  <2>2. Len(Append(s, e)) = Len(s) + 1 /\ \A j \in 1..Len(s) : Append(s, e)[j] = s[j]
    OBVIOUS
  <2> QED BY <2>1, <2>2 DEF IsPrefixOf
<1> QED BY <1>1, <1>2

(* An item advances into itself. *)
LEMMA ItemStays == \A item \in Item : ItemAdvances(item, item)
BY DEF ItemAdvances

(* A comanda that is not final is kept by what appends to its lists and lets   *)
(* its items advance.                                                          *)
LEMMA KeptByAppend ==
  ASSUME NEW old \in ComandaRecord, NEW new, old.status \notin FinalStatus,
         \/ new.batches = old.batches
         \/ \E b \in SUBSET Nat : new.batches = Append(old.batches, b),
         \/ new.preContas = old.preContas
         \/ \E p \in PreConta : new.preContas = Append(old.preContas, p),
         \/ new.trail = old.trail
         \/ \E e \in TrailAction : new.trail = Append(old.trail, e),
         \/ new.items = old.items
         \/ /\ Len(new.items) >= Len(old.items)
            /\ \A k \in DOMAIN old.items : ItemAdvances(old.items[k], new.items[k])
  PROVE  RowIsKept(old, new)
<1>1. IsPrefixOf(old.batches, new.batches)
  BY RowFields, PrefixOfAppend
<1>2. IsPrefixOf(old.preContas, new.preContas)
  BY RowFields, PrefixOfAppend
<1>3. IsPrefixOf(old.trail, new.trail)
  BY RowFields, PrefixOfAppend
<1>4. /\ old.items \in Seq(Item) /\ Len(old.items) \in Nat
      /\ \A k \in DOMAIN old.items : old.items[k] \in Item
  BY RowFields
<1>5. /\ Len(old.items) <= Len(new.items)
      /\ \A k \in DOMAIN old.items : ItemAdvances(old.items[k], new.items[k])
  <2>1. CASE new.items = old.items
    BY <1>4, <2>1, ItemStays
  <2>2. CASE /\ Len(new.items) >= Len(old.items)
             /\ \A k \in DOMAIN old.items : ItemAdvances(old.items[k], new.items[k])
    BY <2>2
  <2> QED BY <2>1, <2>2
<1> QED BY <1>1, <1>2, <1>3, <1>5 DEF RowIsKept

\* An id that was never opened has no row.
UnusedIsEmpty ==
  \A c \in ComandaIds : comandas[c].status = "INEXISTENTE" => comandas[c] = NoComanda

(* No operation leads to INEXISTENTE, so an id without a row never had one. *)
LEMMA UnusedInvariant == ComandaSpec => [](ComandaTypeOK /\ BatchesMatchItems /\ UnusedIsEmpty)
<1>1. ComandaInit => UnusedIsEmpty
  BY DEF ComandaInit, UnusedIsEmpty
<1>2. ASSUME ComandaTypeOK, UnusedIsEmpty, [ComandaNext]_comandas PROVE UnusedIsEmpty'
  <2>1. CASE UNCHANGED comandas
    BY <1>2, <2>1 DEF UnusedIsEmpty
  <2>2. ASSUME NEW c \in ComandaIds, ComandaStep(c) PROVE UnusedIsEmpty'
    <3>1. SUFFICES comandas'[c].status # "INEXISTENTE"
      BY <1>2, <2>2, OthersUntouched DEF UnusedIsEmpty
    <3>2. comandas[c] \in ComandaRecord /\ DOMAIN comandas = ComandaIds
      BY <1>2 DEF ComandaTypeOK
    <3> DEFINE old == comandas[c]
               new == comandas'[c]
    <3>3. ASSUME NEW n \in Numeros, OpenComanda(c, n) PROVE new.status # "INEXISTENTE"
      BY <3>2, <3>3 DEF OpenComanda, NoComanda
    <3>4. ASSUME NEW setor \in Setores, NEW price \in Prices, AddComandaItem(c, setor, price)
          PROVE  new.status # "INEXISTENTE"
      <4>1. new.status = old.status
        BY <3>2, <3>4 DEF AddComandaItem
      <4> QED BY <3>4, <4>1 DEF AddComandaItem, IsEditable
    <3>5. ASSUME NEW k \in 1..MaxItems, CancelComandaItem(c, k) PROVE new.status # "INEXISTENTE"
      <4>1. new.status = old.status
        BY <3>2, <3>5 DEF CancelComandaItem
      <4> QED BY <3>5, <4>1 DEF CancelComandaItem, IsEditable
    <3>6. SendComandaToProduction(c) => new.status # "INEXISTENTE"
      BY <1>2, SendEffect
    <3>7. GeneratePreConta(c) => new.status # "INEXISTENTE"
      BY <3>2 DEF GeneratePreConta
    <3>8. RequestCashCheckout(c) => new.status # "INEXISTENTE"
      BY <3>2 DEF RequestCashCheckout
    <3>9. ReopenComanda(c) => new.status # "INEXISTENTE"
      BY <3>2 DEF ReopenComanda
    <3>10. ASSUME NEW payments \in PaymentLists, CheckoutComanda(c, payments)
           PROVE  new.status # "INEXISTENTE"
      BY <3>2, <3>10 DEF CheckoutComanda
    <3>11. CancelComanda(c) => new.status # "INEXISTENTE"
      BY <3>2 DEF CancelComanda
    <3> QED BY <2>2, <3>3, <3>4, <3>5, <3>6, <3>7, <3>8, <3>9, <3>10, <3>11 DEF ComandaStep
  <2> QED BY <1>2, <2>1, <2>2 DEF ComandaNext
<1> QED BY <1>1, <1>2, BatchesInvariant, PTL DEF ComandaSpec

(* Sending gives a batch only to items that are in none, and every other step  *)
(* of a comanda that is not final appends.                                     *)
LEMMA HistoryStep ==
  ASSUME ComandaTypeOK, BatchesMatchItems, UnusedIsEmpty,
         NEW c \in ComandaIds, ComandaStep(c)
  PROVE  RowIsKept(comandas[c], comandas'[c])
<1> DEFINE old == comandas[c]
           new == comandas'[c]
<1>1. /\ old \in ComandaRecord /\ DOMAIN comandas = ComandaIds /\ BatchesOf(c)
      /\ old.items \in Seq(Item) /\ Len(old.items) \in Nat
      /\ DOMAIN old.items = 1..Len(old.items)
      /\ \A k \in DOMAIN old.items : old.items[k] \in Item
  BY RowFields DEF ComandaTypeOK, BatchesMatchItems, BatchesOf
<1>2. ASSUME NEW n \in Numeros, OpenComanda(c, n) PROVE RowIsKept(old, new)
  <2>1. old = NoComanda
    BY <1>2 DEF OpenComanda, UnusedIsEmpty
  <2>2. /\ old.items = <<>> /\ old.batches = <<>> /\ old.preContas = <<>>
        /\ old.trail = <<>> /\ old.status = "INEXISTENTE"
    BY <2>1 DEF NoComanda
  <2>3. /\ new.items = <<>> /\ new.batches = <<>> /\ new.preContas = <<>>
        /\ new.trail = Append(<<>>, "COMANDA_ABERTA")
    BY <1>1, <1>2 DEF OpenComanda, NoComanda
  <2> QED BY <1>1, <2>2, <2>3, KeptByAppend DEF FinalStatus, TrailAction
<1>3. ASSUME NEW setor \in Setores, NEW price \in Prices, AddComandaItem(c, setor, price)
      PROVE  RowIsKept(old, new)
  <2> DEFINE item == [setor |-> setor, price |-> price, status |-> "LANCADO", batch |-> 0]
  <2>1. /\ new.items = Append(old.items, item) /\ new.batches = old.batches
        /\ new.preContas = old.preContas /\ new.trail = old.trail
        /\ old.status \notin FinalStatus
    BY <1>1, <1>3 DEF AddComandaItem, IsEditable, FinalStatus
  <2>2. /\ Len(new.items) >= Len(old.items)
        /\ \A k \in DOMAIN old.items : new.items[k] = old.items[k]
    <3> HIDE DEF item
    <3> QED BY <1>1, <2>1
  <2>3. \A k \in DOMAIN old.items : ItemAdvances(old.items[k], new.items[k])
    BY <1>1, <2>2, ItemStays
  <2> QED BY <1>1, <2>1, <2>2, <2>3, KeptByAppend
<1>4. ASSUME NEW k \in 1..MaxItems, CancelComandaItem(c, k) PROVE RowIsKept(old, new)
  <2> DEFINE item == [old.items[k] EXCEPT !.status = "CANCELADO"]
  <2>1. /\ new.items = [old.items EXCEPT ![k] = item] /\ new.batches = old.batches
        /\ new.preContas = old.preContas /\ new.trail = old.trail
        /\ old.status \notin FinalStatus
        /\ k \in DOMAIN old.items /\ old.items[k].status # "CANCELADO"
    BY <1>1, <1>4 DEF CancelComandaItem, IsEditable, FinalStatus, ActiveItems
  <2>2. ItemAdvances(old.items[k], item)
    BY <1>1, <2>1 DEF ItemAdvances, Item
  <2>3. /\ Len(new.items) = Len(old.items)
        /\ \A j \in DOMAIN old.items :
              new.items[j] = IF j = k THEN item ELSE old.items[j]
    <3> HIDE DEF item
    <3> QED BY <1>1, <2>1
  <2>4. \A j \in DOMAIN old.items : ItemAdvances(old.items[j], new.items[j])
    BY <1>1, <2>2, <2>3, ItemStays
  <2>5. Len(new.items) >= Len(old.items)
    BY <1>1, <2>3
  <2> HIDE DEF item, old, new
  <2> QED BY <1>1, <2>1, <2>4, <2>5, KeptByAppend
<1>5. CASE SendComandaToProduction(c)
  <2>1. /\ old.status \notin FinalStatus
        /\ new.items = [k \in DOMAIN old.items |-> SentItem(c, k)]
        /\ new.batches = Append(old.batches, PendingItems(old.items))
        /\ new.trail = Append(old.trail, "ENVIADO_PRODUCAO")
        /\ new.preContas = old.preContas
    BY <1>5, SendEffect DEF SendComandaToProduction, IsEditable, FinalStatus
  <2>2. ASSUME NEW k \in DOMAIN old.items PROVE ItemAdvances(old.items[k], SentItem(c, k))
    <3>1. CASE k \in PendingItems(old.items)
      <4>1. old.items[k].status = "LANCADO" /\ old.items[k].batch = 0
        BY <1>1, <3>1 DEF BatchesOf, PendingItems
      <4> QED BY <1>1, <2>2, <3>1, <4>1 DEF ItemAdvances, SentItem, Item
    <3>2. CASE k \notin PendingItems(old.items)
      BY <1>1, <3>2, ItemStays DEF SentItem
    <3> QED BY <3>1, <3>2
  <2>3. Len(new.items) = Len(old.items)
    BY <1>1, <2>1
  <2>4. PendingItems(old.items) \in SUBSET Nat
    BY <1>1 DEF PendingItems
  <2>5. /\ Len(new.items) >= Len(old.items)
        /\ \A k \in DOMAIN old.items : ItemAdvances(old.items[k], new.items[k])
    BY <1>1, <2>1, <2>2, <2>3
  <2>6. /\ old.status \notin FinalStatus /\ new.preContas = old.preContas
        /\ \E b \in SUBSET Nat : new.batches = Append(old.batches, b)
        /\ \E e \in TrailAction : new.trail = Append(old.trail, e)
    BY <2>1, <2>4 DEF TrailAction
  <2> QED BY <1>1, <2>5, <2>6, KeptByAppend
<1>6. CASE GeneratePreConta(c)
  <2> DEFINE bill == [items |-> ActiveItems(old.items), total |-> Subtotal(old.items)]
  <2>1. bill \in PreConta
    BY <1>1, SubtotalIsNat DEF PreConta, ActiveItems
  <2>2. /\ new.items = old.items /\ new.batches = old.batches
        /\ new.preContas = Append(old.preContas, bill)
        /\ new.trail = Append(old.trail, "PRE_CONTA_GERADA")
        /\ old.status \notin FinalStatus
    BY <1>1, <1>6 DEF GeneratePreConta, FinalStatus
  <2> HIDE DEF bill
  <2> QED BY <1>1, <2>1, <2>2, KeptByAppend DEF TrailAction
<1>7. ASSUME NEW e \in TrailAction, old.status \notin FinalStatus,
             new.items = old.items, new.batches = old.batches,
             new.preContas = old.preContas, new.trail = Append(old.trail, e)
      PROVE  RowIsKept(old, new)
  BY <1>1, <1>7, KeptByAppend
<1>8. CASE RequestCashCheckout(c)
  BY <1>1, <1>7, <1>8 DEF RequestCashCheckout, FinalStatus, TrailAction
<1>9. CASE ReopenComanda(c)
  BY <1>1, <1>7, <1>9 DEF ReopenComanda, FinalStatus, TrailAction
<1>10. ASSUME NEW payments \in PaymentLists, CheckoutComanda(c, payments)
       PROVE  RowIsKept(old, new)
  BY <1>1, <1>7, <1>10 DEF CheckoutComanda, FinalStatus, TrailAction
<1>11. CASE CancelComanda(c)
  BY <1>1, <1>7, <1>11 DEF CancelComanda, IsActive, ActiveStatus, FinalStatus, TrailAction
<1> QED BY <1>2, <1>3, <1>4, <1>5, <1>6, <1>8, <1>9, <1>10, <1>11 DEF ComandaStep

(* A row that stays is kept. *)
LEMMA SameRowIsKept ==
  ASSUME ComandaTypeOK, NEW d \in ComandaIds, comandas'[d] = comandas[d]
  PROVE  RowIsKept(comandas[d], comandas'[d])
<1>1. comandas[d] \in ComandaRecord
  BY DEF ComandaTypeOK
<1>2. \A item \in Item : ItemAdvances(item, item)
  BY ItemStays
<1>3. /\ comandas[d].items \in Seq(Item) /\ Len(comandas[d].items) \in Nat
      /\ IsPrefixOf(comandas[d].batches, comandas[d].batches)
      /\ IsPrefixOf(comandas[d].preContas, comandas[d].preContas)
      /\ IsPrefixOf(comandas[d].trail, comandas[d].trail)
  BY <1>1, RowFields, PrefixOfAppend
<1> QED BY <1>1, <1>2, <1>3 DEF RowIsKept

(* A step keeps every row: the one it works on and the others. *)
LEMMA RowsKept ==
  ASSUME ComandaTypeOK, BatchesMatchItems, UnusedIsEmpty, [ComandaNext]_comandas,
         NEW d \in ComandaIds
  PROVE  RowIsKept(comandas[d], comandas'[d])
<1>1. CASE UNCHANGED comandas
  BY <1>1, SameRowIsKept
<1>2. ASSUME NEW c \in ComandaIds, ComandaStep(c)
      PROVE  RowIsKept(comandas[d], comandas'[d])
  <2>1. CASE d = c
    BY <1>2, <2>1, HistoryStep
  <2>2. CASE d # c
    <3>1. comandas'[d] = comandas[d]
      BY <1>2, <2>2, OthersUntouched
    <3> QED BY <3>1, SameRowIsKept
  <2> QED BY <2>1, <2>2
<1> QED BY <1>1, <1>2 DEF ComandaNext

(* No call, in any order, rewrites what a comanda already holds: the save of   *)
(* the whole aggregate is append-only but for the progress of the items.       *)
THEOREM HistoryCorrect == ComandaSpec => HistoryIsKept
<1>1. ComandaTypeOK /\ BatchesMatchItems /\ UnusedIsEmpty /\ [ComandaNext]_comandas
      => [\A c \in ComandaIds : RowIsKept(comandas[c], comandas'[c])]_comandas
  BY RowsKept
<1> QED BY <1>1, UnusedInvariant, PTL DEF ComandaSpec, HistoryIsKept

-----------------------------------------------------------------------------
(* One active comanda for each number *)

(* Only opening makes a comanda active, with a number that no active one has;   *)
(* every other operation keeps the number.                                     *)
LEMMA NumeroEffect ==
  ASSUME ComandaTypeOK, NEW c \in ComandaIds, ComandaStep(c)
  PROVE  \/ \A d \in ComandaIds : IsActive(d) => comandas[d].numero # comandas'[c].numero
         \/ IsActive(c) /\ comandas'[c].numero = comandas[c].numero
<1> DEFINE old == comandas[c]
           new == comandas'[c]
<1>1. old \in ComandaRecord /\ DOMAIN comandas = ComandaIds
  BY DEF ComandaTypeOK
<1>2. ASSUME NEW n \in Numeros, OpenComanda(c, n)
      PROVE  \A d \in ComandaIds : IsActive(d) => comandas[d].numero # new.numero
  <2>1. new.numero = n
    BY <1>1, <1>2 DEF OpenComanda, NoComanda
  <2> QED BY <1>2, <2>1 DEF OpenComanda
<1>3. ASSUME IsActive(c), new.numero = old.numero
      PROVE  IsActive(c) /\ new.numero = old.numero
  BY <1>3
<1>4. ASSUME NEW setor \in Setores, NEW price \in Prices, AddComandaItem(c, setor, price)
      PROVE  IsActive(c) /\ new.numero = old.numero
  <2>1. new.numero = old.numero
    BY <1>1, <1>4 DEF AddComandaItem
  <2> QED BY <1>4, <2>1 DEF AddComandaItem, IsEditable, IsActive, ActiveStatus
<1>5. ASSUME NEW k \in 1..MaxItems, CancelComandaItem(c, k)
      PROVE  IsActive(c) /\ new.numero = old.numero
  <2>1. new.numero = old.numero
    BY <1>1, <1>5 DEF CancelComandaItem
  <2> QED BY <1>5, <2>1 DEF CancelComandaItem, IsEditable, IsActive, ActiveStatus
<1>6. ASSUME SendComandaToProduction(c) PROVE IsActive(c) /\ new.numero = old.numero
  <2>1. new.numero = old.numero
    BY <1>6, SendEffect
  <2>2. IsEditable(c)
    BY <1>6, Zenon DEF SendComandaToProduction
  <2> QED BY <2>1, <2>2 DEF IsEditable, IsActive, ActiveStatus
<1>7. GeneratePreConta(c) => IsActive(c) /\ new.numero = old.numero
  BY <1>1 DEF GeneratePreConta, IsActive, ActiveStatus
<1>8. RequestCashCheckout(c) => IsActive(c) /\ new.numero = old.numero
  BY <1>1 DEF RequestCashCheckout, IsActive, ActiveStatus
<1>9. ReopenComanda(c) => IsActive(c) /\ new.numero = old.numero
  BY <1>1 DEF ReopenComanda, IsActive, ActiveStatus
<1>10. ASSUME NEW payments \in PaymentLists, CheckoutComanda(c, payments)
       PROVE  IsActive(c) /\ new.numero = old.numero
  BY <1>1, <1>10 DEF CheckoutComanda, IsActive, ActiveStatus
<1>11. CancelComanda(c) => IsActive(c) /\ new.numero = old.numero
  BY <1>1 DEF CancelComanda, IsActive
<1> QED BY <1>2, <1>4, <1>5, <1>6, <1>7, <1>8, <1>9, <1>10, <1>11 DEF ComandaStep

(* A comanda that is opened takes a number of no active comanda, and the others *)
(* stay as they are.                                                           *)
LEMMA NumeroStep ==
  ASSUME ComandaTypeOK, UniqueActiveNumero, [ComandaNext]_comandas
  PROVE  UniqueActiveNumero'
<1>1. CASE UNCHANGED comandas
  BY <1>1 DEF UniqueActiveNumero, IsActive
<1>2. ASSUME NEW c \in ComandaIds, ComandaStep(c) PROVE UniqueActiveNumero'
  <2>1. \A d \in ComandaIds : d # c => comandas'[d] = comandas[d]
    BY <1>2, OthersUntouched
  <2>2. ASSUME NEW d \in ComandaIds, d # c, IsActive(d)
        PROVE  comandas[d].numero # comandas'[c].numero
    BY <1>2, <2>2, NumeroEffect DEF UniqueActiveNumero
  <2> QED BY <2>1, <2>2 DEF UniqueActiveNumero, IsActive
<1> QED BY <1>1, <1>2 DEF ComandaNext

(* No two active comandas carry the same number, although no UNIQUE index       *)
(* stands behind it: openComanda resumes the active comanda of a number.        *)
THEOREM NumerosAreUnique == ComandaSpec => []UniqueActiveNumero
<1>1. ComandaInit => UniqueActiveNumero
  BY DEF ComandaInit, UniqueActiveNumero, IsActive, ActiveStatus, NoComanda
<1>2. ComandaTypeOK /\ UniqueActiveNumero /\ [ComandaNext]_comandas => UniqueActiveNumero'
  BY NumeroStep
<1> QED BY <1>1, <1>2, ComandaTypeCorrect, PTL DEF ComandaSpec
=============================================================================
