----------------------------- MODULE PdvProofs -----------------------------
(***************************************************************************)
(* Theorems about the service: it is a comanda specification and a caixa    *)
(* specification at once, so what is proved of each holds of both together, *)
(* and between them the payments and the cash ledger agree.                 *)
(***************************************************************************)
EXTENDS Pdv, ComandaProofs, CaixaProofs

-----------------------------------------------------------------------------
(* Each aggregate sees only its own operations *)

(* A checkout by the service is a checkout with one payment. *)
LEMMA OnePayment ==
  ASSUME NEW m \in Methods, NEW amount \in PayAmounts
  PROVE  <<[method |-> m, amount |-> amount]>> \in PaymentLists
<1> DEFINE payment == [method |-> m, amount |-> amount]
<1>1. payment \in Payment
  BY DEF Payment
<1>2. <<payment>> \in [1..1 -> Payment]
  BY <1>1
<1>3. 1 \in 0..MaxPayments
  BY PdvAssumption, ComandaAssumption
<1>4. <<payment>> \in PaymentLists
  <2> HIDE DEF payment
  <2> QED BY <1>2, <1>3 DEF PaymentLists
<1> QED BY <1>4

(* What the comandas see of a step of the service. *)
LEMMA ComandaPart ==
  ASSUME [PdvNext]_pdvVars
  PROVE  [ComandaNext]_comandas
<1>1. CASE UNCHANGED pdvVars
  BY <1>1 DEF pdvVars
<1>2. ASSUME NEW c \in ComandaIds, ComandaCall(c) PROVE ComandaNext
  <2>1. ComandaStep(c)
    BY <1>2 DEF ComandaCall, ComandaStep
  <2> QED BY <2>1 DEF ComandaNext
<1>3. ASSUME NEW c \in ComandaIds, SendToProduction(c) PROVE ComandaNext
  <2>1. ComandaStep(c)
    BY <1>3 DEF SendToProduction, ComandaStep
  <2> QED BY <2>1 DEF ComandaNext
<1>4. ASSUME NEW c \in ComandaIds, NEW t \in Terminals, NEW m \in Methods,
             NEW amount \in PayAmounts, NEW k \in DOMAIN caixas,
             ConfirmComandaPayment(c, t, k, m, amount)
      PROVE  ComandaNext
  <2>1. \E payments \in PaymentLists : CheckoutComanda(c, payments)
    BY <1>4, OnePayment DEF ConfirmComandaPayment
  <2>2. ComandaStep(c)
    BY <2>1 DEF ComandaStep
  <2> QED BY <2>2 DEF ComandaNext
<1>5. ASSUME NEW t \in Terminals, CaixaCall(t) PROVE UNCHANGED comandas
  BY <1>5 DEF CaixaCall
<1>6. ASSUME FinishPayment \/ Crash \/ ConfigureEmitter PROVE UNCHANGED comandas
  BY <1>6 DEF FinishPayment, Crash, ConfigureEmitter
<1>7. CASE PdvNext
  BY <1>7, <1>2, <1>3, <1>4, <1>5, <1>6 DEF PdvNext
<1> QED BY <1>1, <1>7

(* What the caixas see of a step of the service. *)
LEMMA CaixaPart ==
  ASSUME [PdvNext]_pdvVars
  PROVE  [CaixaNext]_caixas
<1>1. CASE UNCHANGED pdvVars
  BY <1>1 DEF pdvVars
<1>2. ASSUME NEW c \in ComandaIds, ComandaCall(c) \/ SendToProduction(c)
      PROVE  UNCHANGED caixas
  BY <1>2 DEF ComandaCall, SendToProduction
<1>3. ASSUME NEW c \in ComandaIds, NEW t \in Terminals, NEW m \in Methods,
             NEW amount \in PayAmounts, NEW k \in DOMAIN caixas,
             ConfirmComandaPayment(c, t, k, m, amount)
      PROVE  CaixaNext
  <2>1. amount \in Amounts /\ c \in Sources \cup {NoSource}
    BY PdvAssumption
  <2>2. ReceiveCashPayment(t, k, m, amount, c)
    BY <1>3 DEF ConfirmComandaPayment
  <2> QED BY <2>1, <2>2 DEF CaixaNext
<1>4. ASSUME NEW t \in Terminals, CaixaCall(t) PROVE CaixaNext
  <2>1. ASSUME NEW k \in DOMAIN caixas, StartCashClosure(t, k, Cardinality(PendingPayments))
        PROVE  CaixaNext
    <3>1. StartCashClosure(t, k, 0)
      BY <2>1 DEF StartCashClosure
    <3> QED BY <3>1 DEF CaixaNext
  <2> QED BY <1>4, <2>1 DEF CaixaCall, CaixaNext
<1>5. ASSUME FinishPayment \/ Crash \/ ConfigureEmitter PROVE UNCHANGED caixas
  BY <1>5 DEF FinishPayment, Crash, ConfigureEmitter
<1>6. CASE PdvNext
  BY <1>6, <1>2, <1>3, <1>4, <1>5 DEF PdvNext
<1> QED BY <1>1, <1>6

(* The service implements the comanda specification: every theorem of module   *)
(* ComandaProofs is one about the service.                                     *)
THEOREM ServiceIsComanda == PdvSpec => ComandaSpec
<1>1. PdvInit => ComandaInit
  BY DEF PdvInit
<1>2. [PdvNext]_pdvVars => [ComandaNext]_comandas
  BY ComandaPart
<1> QED BY <1>1, <1>2, PTL DEF PdvSpec, ComandaSpec

(* The service implements the caixa specification. *)
THEOREM ServiceIsCaixa == PdvSpec => CaixaSpec
<1>1. PdvInit => CaixaInit
  BY DEF PdvInit
<1>2. [PdvNext]_pdvVars => [CaixaNext]_caixas
  BY CaixaPart
<1> QED BY <1>1, <1>2, PTL DEF PdvSpec, CaixaSpec

-----------------------------------------------------------------------------
(* The receipts of a comanda *)

\* The receipts of c are the same after the step, with the same movements.
SameReceipts(c) ==
  /\ ReceiptsOf(c)' = ReceiptsOf(c)
  /\ \A p \in ReceiptsOf(c) : MovementAt(p)' = MovementAt(p)

(* The positions of the movements that name c. *)
LEMMA ReceiptPositions ==
  ASSUME NEW c, NEW p
  PROVE  p \in ReceiptsOf(c) <=>
           \E k \in DOMAIN caixas : \E j \in DOMAIN caixas[k].movements :
             p = <<k, j>> /\ caixas[k].movements[j].source = c
BY DEF ReceiptsOf

(* Nothing changes for the receipts when no session gains a movement. *)
LEMMA ReceiptsStay ==
  ASSUME \A k \in DOMAIN caixas :
           k \in DOMAIN caixas' /\ caixas'[k].movements = caixas[k].movements,
         \A k \in DOMAIN caixas' :
           k \notin DOMAIN caixas => caixas'[k].movements = <<>>,
         NEW c
  PROVE  SameReceipts(c)
<1>1. \A p : p \in ReceiptsOf(c)' <=>
        \E k \in DOMAIN caixas' : \E j \in DOMAIN caixas'[k].movements :
          p = <<k, j>> /\ caixas'[k].movements[j].source = c
  BY DEF ReceiptsOf
<1>2. ASSUME NEW p \in ReceiptsOf(c)
      PROVE  p \in ReceiptsOf(c)' /\ MovementAt(p)' = MovementAt(p)
  <2>1. PICK k \in DOMAIN caixas : \E j \in DOMAIN caixas[k].movements :
          p = <<k, j>> /\ caixas[k].movements[j].source = c
    BY ReceiptPositions
  <2>2. PICK j \in DOMAIN caixas[k].movements :
          p = <<k, j>> /\ caixas[k].movements[j].source = c
    BY <2>1
  <2>3. k \in DOMAIN caixas' /\ caixas'[k].movements = caixas[k].movements
    OBVIOUS
  <2>4. p \in ReceiptsOf(c)'
    BY <1>1, <2>2, <2>3
  <2>5. p[1] = k /\ p[2] = j
    BY <2>2
  <2> QED BY <2>3, <2>4, <2>5 DEF MovementAt
<1>3. ASSUME NEW p \in ReceiptsOf(c)'
      PROVE  p \in ReceiptsOf(c)
  <2>1. PICK k \in DOMAIN caixas' : \E j \in DOMAIN caixas'[k].movements :
          p = <<k, j>> /\ caixas'[k].movements[j].source = c
    BY <1>1, <1>3
  <2>2. k \in DOMAIN caixas
    BY <2>1
  <2> QED BY <2>1, <2>2, ReceiptPositions
<1> QED BY <1>2, <1>3 DEF SameReceipts

\* Where the next movement of session k goes.
NextPosition(k) == <<k, Len(caixas[k].movements) + 1>>

(* An appended movement is a new receipt of its source and of no one else. *)
LEMMA ReceiptsGrow ==
  ASSUME CaixaTypeOK, NEW k \in DOMAIN caixas, NEW mv \in Movement, AppendMovement(k, mv),
         NEW q, q = NextPosition(k), NEW c
  PROVE  /\ q \notin ReceiptsOf(c)
         /\ MovementAt(q)' = mv
         /\ mv.source # c => SameReceipts(c)
         /\ mv.source = c =>
              /\ ReceiptsOf(c)' = ReceiptsOf(c) \cup {q}
              /\ \A p \in ReceiptsOf(c) : MovementAt(p)' = MovementAt(p)
<1> DEFINE old == caixas[k].movements
           new == caixas'[k].movements
<1>1. /\ old \in Seq(Movement) /\ DOMAIN old = 1..Len(old) /\ Len(old) \in Nat
      /\ new = Append(old, mv)
      /\ DOMAIN caixas' = DOMAIN caixas
      /\ \A j \in DOMAIN caixas : j # k => caixas'[j] = caixas[j]
  BY MovementEffect, SessionRewritten, SessionFields
<1>2. /\ DOMAIN new = DOMAIN old \cup {Len(old) + 1}
      /\ \A j \in DOMAIN old : new[j] = old[j]
      /\ new[Len(old) + 1] = mv
      /\ Len(old) + 1 \notin DOMAIN old
  BY <1>1
<1>3. q = <<k, Len(old) + 1>> /\ q[1] = k /\ q[2] = Len(old) + 1
  BY DEF NextPosition
<1>4. MovementAt(q)' = mv
  BY <1>2, <1>3 DEF MovementAt
<1>5. \A p : p \in ReceiptsOf(c)' <=>
        \E i \in DOMAIN caixas : \E j \in DOMAIN caixas'[i].movements :
          p = <<i, j>> /\ caixas'[i].movements[j].source = c
  BY <1>1 DEF ReceiptsOf
<1>6. q \notin ReceiptsOf(c)
  BY <1>2, <1>3, ReceiptPositions
<1>7. ASSUME NEW p \in ReceiptsOf(c)
      PROVE  p \in ReceiptsOf(c)' /\ MovementAt(p)' = MovementAt(p)
  <2>1. PICK i \in DOMAIN caixas : \E j \in DOMAIN caixas[i].movements :
          p = <<i, j>> /\ caixas[i].movements[j].source = c
    BY ReceiptPositions
  <2>2. PICK j \in DOMAIN caixas[i].movements :
          p = <<i, j>> /\ caixas[i].movements[j].source = c
    BY <2>1
  <2>3. j \in DOMAIN caixas'[i].movements /\ caixas'[i].movements[j] = caixas[i].movements[j]
    BY <1>1, <1>2
  <2>4. p \in ReceiptsOf(c)'
    BY <1>5, <2>2, <2>3
  <2>5. p[1] = i /\ p[2] = j
    BY <2>2
  <2> QED BY <2>3, <2>4, <2>5 DEF MovementAt
<1>8. ASSUME NEW p \in ReceiptsOf(c)', p \notin ReceiptsOf(c)
      PROVE  p = q /\ mv.source = c
  <2>1. PICK i \in DOMAIN caixas : \E j \in DOMAIN caixas'[i].movements :
          p = <<i, j>> /\ caixas'[i].movements[j].source = c
    BY <1>5, <1>8
  <2>2. PICK j \in DOMAIN caixas'[i].movements :
          p = <<i, j>> /\ caixas'[i].movements[j].source = c
    BY <2>1
  <2>3. i = k /\ j = Len(old) + 1
    BY <1>1, <1>2, <1>8, <2>2, ReceiptPositions
  <2> QED BY <1>2, <1>3, <2>2, <2>3
<1>9. mv.source = c => q \in ReceiptsOf(c)'
  BY <1>2, <1>3, <1>5
<1> QED BY <1>4, <1>6, <1>7, <1>8, <1>9 DEF SameReceipts

-----------------------------------------------------------------------------
(* The payments and the ledger *)

\* The part of LedgerMatchesPayments that is about one comanda.
LedgerOf(c) ==
  LET payments == comandas[c].payments
  IN /\ payments = <<>> => ReceiptsOf(c) = {}
     /\ payments # <<>> =>
          \E p \in ReceiptsOf(c) :
            /\ ReceiptsOf(c) = {p}
            /\ MovementAt(p).type = "RECEBIMENTO"
            /\ payments = <<[method |-> MovementAt(p).method,
                             amount |-> MovementAt(p).amount]>>

\* The receipt a confirmed payment leaves in the ledger.
ReceiptFor(c, m, amount) ==
  [type |-> "RECEBIMENTO", method |-> m, amount |-> amount, source |-> c]

(* The receipt of a comanda is a movement of the ledger. *)
LEMMA ReceiptType ==
  ASSUME NEW c \in ComandaIds \cup {NoSource}, NEW m \in Methods, NEW amount \in Amounts
  PROVE  /\ ReceiptFor(c, m, amount) \in Movement
         /\ ReceiptFor(c, m, amount).source = c
BY PdvAssumption DEF ReceiptFor, Movement

(* The calls of a caixa touch the receipts of no comanda. *)
LEMMA CaixaCallReceipts ==
  ASSUME CaixaTypeOK, NEW t \in Terminals, CaixaCall(t), NEW c \in ComandaIds
  PROVE  SameReceipts(c)
<1>1. c # NoSource
  BY PdvAssumption, CaixaAssumption
<1>2. ASSUME NEW k \in DOMAIN caixas, NEW mv \in Movement, AppendMovement(k, mv),
             mv.source = NoSource
      PROVE  SameReceipts(c)
  BY <1>1, <1>2, ReceiptsGrow
<1>3. ASSUME NEW k \in DOMAIN caixas, NEW new \in CaixaRecord,
             caixas' = [caixas EXCEPT ![k] = new], new.movements = caixas[k].movements
      PROVE  SameReceipts(c)
  BY <1>3, SessionRewritten, ReceiptsStay
<1>4. ASSUME NEW fund \in Funds, OpenCashSession(t, fund) PROVE SameReceipts(c)
  <2>1. Opened(t, fund).movements = <<>>
    BY DEF Opened
  <2> QED BY <1>4, <2>1, OpenEffect, ReceiptsStay
<1>5. ASSUME NEW k \in DOMAIN caixas, NEW m \in Methods, NEW amount \in Amounts,
             ReceiveCashPayment(t, k, m, amount, NoSource)
      PROVE  SameReceipts(c)
  <2>1. AppendMovement(k, ReceiptFor(NoSource, m, amount))
    BY <1>5 DEF ReceiveCashPayment, ReceiptFor
  <2> QED BY <2>1, <1>2, ReceiptType
<1>6. ASSUME NEW k \in DOMAIN caixas, NEW amount \in Amounts,
             \/ RegisterCashSupply(t, k, amount)
             \/ RegisterCashWithdrawal(t, k, amount)
      PROVE  SameReceipts(c)
  <2>1. PICK type \in {"SUPRIMENTO", "SANGRIA"} :
          AppendMovement(k, [type |-> type, method |-> "DINHEIRO",
                             amount |-> amount, source |-> NoSource])
    BY <1>6 DEF RegisterCashSupply, RegisterCashWithdrawal
  <2> DEFINE mv == [type |-> type, method |-> "DINHEIRO",
                    amount |-> amount, source |-> NoSource]
  <2>2. mv \in Movement /\ mv.source = NoSource
    BY PagamentosAssumption DEF Movement
  <2> QED BY <2>1, <2>2, <1>2
<1>7. ASSUME NEW k \in DOMAIN caixas, StartCashClosure(t, k, Cardinality(PendingPayments))
      PROVE  SameReceipts(c)
  BY <1>3, <1>7, ClosingEffect
<1>8. ASSUME NEW k \in DOMAIN caixas, NEW counted \in [Methods -> Counts],
             NEW justified \in BOOLEAN, CloseCashSession(t, k, counted, justified)
      PROVE  SameReceipts(c)
  BY <1>3, <1>8, ClosedEffect
<1> QED BY <1>4, <1>5, <1>6, <1>7, <1>8 DEF CaixaCall

(* Without a step of the ledger there is no step of the receipts. *)
LEMMA NoReceipts ==
  ASSUME UNCHANGED caixas, NEW c
  PROVE  SameReceipts(c)
BY DEF SameReceipts, ReceiptsOf, MovementAt

-----------------------------------------------------------------------------
(* What the calls do to payments and charges *)

\* What comanda c asks the customer for: the value of Cobranca at c.
Asked(c) ==
  IF comandas[c].status \in {"EM_PAGAMENTO", "ENCERRADA"}
    THEN {Last(comandas[c].preContas).total}
    ELSE {}

(* The calls that touch one comanda: none is paid, before or after, and what it *)
(* asks for stays, appears or is taken back.                                   *)
LEMMA ComandaCallEffect ==
  ASSUME ComandaTypeOK, ClosedMeansPaid, NEW c \in ComandaIds,
         ComandaCall(c) \/ SendToProduction(c)
  PROVE  /\ caixas' = caixas
         /\ \A d \in ComandaIds : d # c => comandas'[d] = comandas[d]
         /\ comandas[c].payments = <<>> /\ comandas'[c].payments = <<>>
         /\ \/ Asked(c)' = Asked(c)
            \/ Asked(c) = {} /\ \E total : Asked(c)' = {total}
            \/ Asked(c) # {} /\ Asked(c)' = {}
<1> DEFINE old == comandas[c]
           new == comandas'[c]
           Effect == /\ old.payments = <<>> /\ new.payments = <<>>
                     /\ \/ Asked(c)' = Asked(c)
                        \/ Asked(c) = {} /\ \E total : Asked(c)' = {total}
                        \/ Asked(c) # {} /\ Asked(c)' = {}
<1>1. old \in ComandaRecord /\ DOMAIN comandas = ComandaIds
  BY DEF ComandaTypeOK
<1>2. caixas' = caixas
  BY DEF ComandaCall, SendToProduction
<1>3. ComandaStep(c)
  BY DEF ComandaCall, SendToProduction, ComandaStep
<1>4. \A d \in ComandaIds : d # c => comandas'[d] = comandas[d]
  BY <1>3, OthersUntouched
<1>5. old.status # "ENCERRADA" => old.payments = <<>>
  BY DEF ClosedMeansPaid
<1>6. ASSUME old.status \notin {"EM_PAGAMENTO", "ENCERRADA"},
             new.status \notin {"EM_PAGAMENTO", "ENCERRADA"},
             new.payments = old.payments
      PROVE  Effect
  BY <1>5, <1>6 DEF Asked
<1>7. ASSUME NEW n \in Numeros, OpenComanda(c, n) PROVE Effect
  <2>1. old.status = "INEXISTENTE" /\ new.status = "ABERTA" /\ new.payments = <<>>
    BY <1>1, <1>7 DEF OpenComanda, NoComanda
  <2> QED BY <1>5, <1>6, <2>1
<1>8. ASSUME NEW setor \in Setores, NEW price \in Prices, AddComandaItem(c, setor, price)
      PROVE  Effect
  <2>1. new.status = old.status /\ new.payments = old.payments
    BY <1>1, <1>8 DEF AddComandaItem
  <2>2. old.status \in {"ABERTA", "EM_PRODUCAO"}
    BY <1>8 DEF AddComandaItem, IsEditable
  <2> QED BY <1>6, <2>1, <2>2
<1>9. ASSUME NEW k \in 1..MaxItems, CancelComandaItem(c, k) PROVE Effect
  <2>1. new.status = old.status /\ new.payments = old.payments
    BY <1>1, <1>9 DEF CancelComandaItem
  <2>2. old.status \in {"ABERTA", "EM_PRODUCAO"}
    BY <1>9 DEF CancelComandaItem, IsEditable
  <2> QED BY <1>6, <2>1, <2>2
<1>10. ASSUME SendComandaToProduction(c) PROVE Effect
  <2>1. old.status \in {"ABERTA", "EM_PRODUCAO"}
    BY <1>10 DEF SendComandaToProduction, IsEditable
  <2> QED BY <1>6, <1>10, <2>1, SendEffect
<1>11. ASSUME GeneratePreConta(c) PROVE Effect
  <2>1. /\ old.status = "EM_PRODUCAO" /\ new.status = "EM_PAGAMENTO"
        /\ new.payments = old.payments
    BY <1>1, <1>11 DEF GeneratePreConta
  <2> QED BY <1>5, <2>1 DEF Asked
<1>12. ASSUME RequestCashCheckout(c) PROVE Effect
  <2>1. /\ old.status = "EM_PAGAMENTO" /\ new.status = old.status
        /\ new.payments = old.payments /\ new.preContas = old.preContas
    BY <1>1, <1>12 DEF RequestCashCheckout
  <2> QED BY <1>5, <2>1 DEF Asked
<1>13. ASSUME ReopenComanda(c) PROVE Effect
  <2>1. /\ old.status = "EM_PAGAMENTO" /\ new.status = "EM_PRODUCAO"
        /\ new.payments = old.payments
    BY <1>1, <1>13 DEF ReopenComanda
  <2> QED BY <1>5, <2>1 DEF Asked
<1>14. Effect
  <2> HIDE DEF Effect
  <2>1. SendToProduction(c) => SendComandaToProduction(c)
    BY DEF SendToProduction
  <2> QED BY <1>7, <1>8, <1>9, <1>10, <1>11, <1>12, <1>13, <2>1 DEF ComandaCall
<1> QED BY <1>2, <1>4, <1>14

(* A confirmed payment closes an unpaid comanda that asked for payment, and     *)
(* leaves it exactly one receipt, at a position no comanda had.                 *)
LEMMA PaymentEffect ==
  ASSUME ComandaTypeOK, CaixaTypeOK, ClosedMeansPaid, LedgerMatchesPayments,
         NEW c \in ComandaIds, NEW t \in Terminals, NEW m \in Methods,
         NEW amount \in PayAmounts, NEW k \in DOMAIN caixas,
         ConfirmComandaPayment(c, t, k, m, amount),
         NEW q, q = NextPosition(k)
  PROVE  /\ \A d \in ComandaIds : d # c => comandas'[d] = comandas[d] /\ SameReceipts(d)
         /\ \A d \in ComandaIds : q \notin ReceiptsOf(d)
         /\ comandas[c].status = "EM_PAGAMENTO" /\ comandas'[c].status = "ENCERRADA"
         /\ comandas'[c].preContas = comandas[c].preContas
         /\ comandas'[c].payments = <<[method |-> m, amount |-> amount]>>
         /\ ReceiptsOf(c) = {} /\ ReceiptsOf(c)' = {q}
         /\ MovementAt(q)' = ReceiptFor(c, m, amount)
<1> DEFINE payments == <<[method |-> m, amount |-> amount]>>
<1>1. /\ CheckoutComanda(c, payments)
      /\ AppendMovement(k, ReceiptFor(c, m, amount))
  BY DEF ConfirmComandaPayment, ReceiveCashPayment, ReceiptFor
<1>2. amount \in Amounts
  BY PdvAssumption
<1>3. ReceiptFor(c, m, amount) \in Movement /\ ReceiptFor(c, m, amount).source = c
  BY <1>2, ReceiptType
<1>4. comandas[c] \in ComandaRecord /\ DOMAIN comandas = ComandaIds
  BY DEF ComandaTypeOK
<1>5. payments \in PaymentLists
  BY OnePayment
<1>6. payments \in Seq(Payment)
  BY <1>5, PaymentListsType
<1>7. ComandaStep(c)
  BY <1>1, <1>5 DEF ComandaStep
<1> HIDE DEF payments
<1>8. /\ comandas[c].status = "EM_PAGAMENTO" /\ comandas'[c].status = "ENCERRADA"
      /\ comandas'[c].preContas = comandas[c].preContas
      /\ comandas'[c].payments = comandas[c].payments \o payments
  BY <1>1, <1>4 DEF CheckoutComanda
<1>9. comandas[c].payments = <<>>
  BY <1>8 DEF ClosedMeansPaid
<1>10. comandas'[c].payments = payments
  BY <1>6, <1>8, <1>9, ConcatEmptySeq
<1>11. ReceiptsOf(c) = {}
  BY <1>9 DEF LedgerMatchesPayments
<1>12. /\ \A d \in ComandaIds : q \notin ReceiptsOf(d)
       /\ MovementAt(q)' = ReceiptFor(c, m, amount)
       /\ \A d \in ComandaIds : d # c => SameReceipts(d)
       /\ ReceiptsOf(c)' = {q}
  BY <1>1, <1>3, <1>11, ReceiptsGrow
<1>13. \A d \in ComandaIds : d # c => comandas'[d] = comandas[d]
  BY <1>7, OthersUntouched
<1> QED BY <1>8, <1>10, <1>11, <1>12, <1>13 DEF payments

(* A comanda whose payments and receipts stay keeps them in agreement. *)
LEMMA LedgerOfStays ==
  ASSUME NEW c, LedgerOf(c), SameReceipts(c), comandas'[c].payments = comandas[c].payments
  PROVE  LedgerOf(c)'
BY DEF LedgerOf, SameReceipts

(* Every step of the service keeps payments and ledger in agreement. *)
LEMMA LedgerOfStep ==
  ASSUME ComandaTypeOK, CaixaTypeOK, ClosedMeansPaid, LedgerMatchesPayments,
         [PdvNext]_pdvVars
  PROVE  LedgerMatchesPayments'
<1>1. \A c \in ComandaIds : LedgerOf(c)
  BY DEF LedgerMatchesPayments, LedgerOf
<1>2. SUFFICES ASSUME NEW d \in ComandaIds PROVE LedgerOf(d)'
  BY DEF LedgerMatchesPayments, LedgerOf
<1>3. ASSUME UNCHANGED <<comandas, caixas>> PROVE LedgerOf(d)'
  BY <1>1, <1>3, NoReceipts, LedgerOfStays
<1>4. ASSUME NEW c \in ComandaIds, ComandaCall(c) \/ SendToProduction(c) PROVE LedgerOf(d)'
  <2>1. comandas'[d].payments = comandas[d].payments /\ UNCHANGED caixas
    BY <1>4, ComandaCallEffect
  <2> QED BY <1>1, <2>1, NoReceipts, LedgerOfStays
<1>5. ASSUME NEW t \in Terminals, CaixaCall(t) PROVE LedgerOf(d)'
  <2>1. UNCHANGED comandas
    BY <1>5 DEF CaixaCall
  <2> QED BY <1>1, <1>5, <2>1, CaixaCallReceipts, LedgerOfStays
<1>6. ASSUME NEW c \in ComandaIds, NEW t \in Terminals, NEW m \in Methods,
             NEW amount \in PayAmounts, NEW k \in DOMAIN caixas,
             ConfirmComandaPayment(c, t, k, m, amount)
      PROVE  LedgerOf(d)'
  <2>1. PICK q : q = NextPosition(k)
    OBVIOUS
  <2>2. CASE d # c
    BY <1>1, <1>6, <2>1, <2>2, PaymentEffect, LedgerOfStays
  <2>3. CASE d = c
    <3>1. /\ comandas'[c].payments = <<[method |-> m, amount |-> amount]>>
          /\ ReceiptsOf(c)' = {q} /\ MovementAt(q)' = ReceiptFor(c, m, amount)
      BY <1>6, <2>1, PaymentEffect
    <3>2. /\ ReceiptFor(c, m, amount).type = "RECEBIMENTO"
          /\ ReceiptFor(c, m, amount).method = m
          /\ ReceiptFor(c, m, amount).amount = amount
      BY DEF ReceiptFor
    <3>3. comandas'[c].payments # <<>>
      BY <3>1
    <3> QED BY <2>3, <3>1, <3>2, <3>3 DEF LedgerOf
  <2> QED BY <2>2, <2>3
<1>7. ASSUME FinishPayment \/ Crash \/ ConfigureEmitter PROVE LedgerOf(d)'
  BY <1>3, <1>7 DEF FinishPayment, Crash, ConfigureEmitter
<1>8. CASE UNCHANGED pdvVars
  BY <1>3, <1>8 DEF pdvVars
<1>9. CASE PdvNext
  BY <1>9, <1>4, <1>5, <1>6, <1>7 DEF PdvNext
<1> QED BY <1>8, <1>9

(* What the ledger argument assumes of the comandas and of the caixas holds of *)
(* the service, because the service implements both.                           *)
LEMMA PartsCorrect ==
  PdvSpec => [](ComandaTypeOK /\ PreContaIsTheBill /\ ClosedMeansPaid /\ CaixaTypeOK)
BY ServiceIsComanda, ServiceIsCaixa, ClosedInvariant, CaixaTypeCorrect, PTL

(* Comanda and cash ledger never disagree: an unpaid comanda is named by no     *)
(* movement of any session, a paid one by exactly one RECEBIMENTO with its      *)
(* method and amount, whatever the order of checkouts, closures and crashes.    *)
THEOREM LedgerAgrees == PdvSpec => []LedgerMatchesPayments
<1>1. PdvInit => LedgerMatchesPayments
  BY DEF PdvInit, ComandaInit, CaixaInit, LedgerMatchesPayments, ReceiptsOf, NoComanda
<1>2. /\ ComandaTypeOK /\ PreContaIsTheBill /\ ClosedMeansPaid /\ CaixaTypeOK
      /\ LedgerMatchesPayments /\ [PdvNext]_pdvVars
      => LedgerMatchesPayments'
  BY LedgerOfStep
<1> QED BY <1>1, <1>2, PartsCorrect, PTL DEF PdvSpec

-----------------------------------------------------------------------------
(* The abstract checkout *)

\* The receipts of comanda c: the value of Recibos at c.
Receipts(c) ==
  {[id |-> p, method |-> MovementAt(p).method, amount |-> MovementAt(p).amount]
     : p \in ReceiptsOf(c)}

(* The refinement mapping, comanda by comanda. *)
LEMMA MappingAt ==
  /\ Cobranca = [c \in ComandaIds |-> Asked(c)]
  /\ Recibos = [c \in ComandaIds |-> Receipts(c)]
  /\ Cobranca' = [c \in ComandaIds |-> Asked(c)']
  /\ Recibos' = [c \in ComandaIds |-> Receipts(c)']
BY DEF Cobranca, Recibos, Asked, Receipts

(* The same positions with the same movements are the same receipts. *)
LEMMA SameReceiptsMapped ==
  ASSUME NEW c, SameReceipts(c)
  PROVE  Receipts(c)' = Receipts(c)
BY DEF SameReceipts, Receipts

(* A comanda that is not paid has no receipts. *)
LEMMA UnpaidHasNone ==
  ASSUME LedgerMatchesPayments, NEW c \in ComandaIds, comandas[c].payments = <<>>
  PROVE  Receipts(c) = {}
BY DEF LedgerMatchesPayments, Receipts

(* What a single payment adds up to, in all and in cash. *)
LEMMA OnePaid ==
  ASSUME NEW m \in Methods, NEW amount \in PayAmounts
  PROVE  LET payments == <<[method |-> m, amount |-> amount]>>
         IN /\ Paid(payments) = amount
            /\ PaidInCash(payments) = IF m = "DINHEIRO" THEN amount ELSE 0
<1> DEFINE payments == <<[method |-> m, amount |-> amount]>>
           f == PaymentAmounts(payments)
           g == CashAmounts(payments)
<1>1. f[1] = amount
  BY DEF PaymentAmounts
<1>2. g[1] = IF m = "DINHEIRO" THEN amount ELSE 0
  BY DEF CashAmounts
<1>3. Paid(payments) = SumTo(f, 1) /\ PaidInCash(payments) = SumTo(g, 1)
  BY DEF Paid, PaidInCash
<1>4. amount \in Nat
  BY ComandaAssumption
<1> HIDE DEF f, g, payments
<1>5. SumTo(f, 0+1) = SumTo(f, 0) + f[0+1] /\ SumTo(g, 0+1) = SumTo(g, 0) + g[0+1]
  BY SumStep
<1>6. SumTo(f, 0) = 0 /\ SumTo(g, 0) = 0
  BY SumStep
<1>7. SumTo(f, 1) = amount /\ SumTo(g, 1) = IF m = "DINHEIRO" THEN amount ELSE 0
  BY <1>1, <1>2, <1>4, <1>5, <1>6
<1> QED BY <1>3, <1>7 DEF payments

(* A confirmed payment settles the bill of the abstract specification. *)
LEMMA PaymentSettles ==
  ASSUME ComandaTypeOK, PreContaIsTheBill, ClosedMeansPaid, CaixaTypeOK,
         LedgerMatchesPayments,
         NEW c \in ComandaIds, NEW t \in Terminals, NEW m \in Methods,
         NEW amount \in PayAmounts, NEW k \in DOMAIN caixas,
         ConfirmComandaPayment(c, t, k, m, amount)
  PROVE  Conta!Settle(c)
<1> DEFINE total == Last(comandas[c].preContas).total
           r(q) == [id |-> q, method |-> m, amount |-> amount]
<1>1. PICK q : q = NextPosition(k)
  OBVIOUS
<1>2. /\ comandas[c].status = "EM_PAGAMENTO" /\ comandas'[c].status = "ENCERRADA"
      /\ comandas'[c].preContas = comandas[c].preContas
      /\ ReceiptsOf(c) = {} /\ ReceiptsOf(c)' = {q}
      /\ MovementAt(q)' = ReceiptFor(c, m, amount)
  <2>1. /\ comandas[c].status = "EM_PAGAMENTO" /\ comandas'[c].status = "ENCERRADA"
        /\ comandas'[c].preContas = comandas[c].preContas /\ ReceiptsOf(c) = {}
    BY <1>1, PaymentEffect
  <2>2. /\ comandas'[c].payments = <<[method |-> m, amount |-> amount]>>
        /\ ReceiptsOf(c)' = {q} /\ MovementAt(q)' = ReceiptFor(c, m, amount)
    BY <1>1, PaymentEffect
  <2> QED BY <2>1, <2>2
<1>3. ASSUME NEW d \in ComandaIds
       PROVE  /\ q \notin ReceiptsOf(d)
              /\ d # c => comandas'[d] = comandas[d] /\ SameReceipts(d)
  BY <1>1, PaymentEffect
<1>4. Asked(c) = {total} /\ Asked(c)' = Asked(c)
  BY <1>2 DEF Asked
<1>5. \A d \in ComandaIds : d # c => Asked(d)' = Asked(d) /\ Receipts(d)' = Receipts(d)
  BY <1>3, SameReceiptsMapped DEF Asked
<1>6. Receipts(c) = {}
  BY <1>2 DEF Receipts
<1>7. Receipts(c)' = {r(q)}
  BY <1>2 DEF Receipts, ReceiptFor
<1>8. \A d \in ComandaIds : \A s \in Receipts(d) : s.id # r(q).id
  BY <1>3 DEF Receipts
<1>9. Conta!Covers(r(q), total)
  <2> DEFINE payments == <<[method |-> m, amount |-> amount]>>
             bill == Subtotal(comandas[c].items)
  <2>1. CoversTotal(payments, bill)
    BY DEF ConfirmComandaPayment, CheckoutComanda
  <2>2. Paid(payments) = amount /\ PaidInCash(payments) = IF m = "DINHEIRO" THEN amount ELSE 0
    BY OnePaid
  <2>3. total = bill
    BY <1>2 DEF PreContaIsTheBill
  <2>4. bill \in Nat /\ amount \in Nat
    <3>1. comandas[c].items \in Seq(Item)
      BY RowFields DEF ComandaTypeOK
    <3> QED BY <3>1, SubtotalIsNat, ComandaAssumption
  <2>5. r(q).amount = amount /\ r(q).method = m
    OBVIOUS
  <2> HIDE DEF payments, bill, total, r
  <2>6. amount >= bill /\ (amount > bill => m = "DINHEIRO")
    BY <2>1, <2>2, <2>4 DEF CoversTotal
  <2> QED BY <2>3, <2>5, <2>6 DEF Conta!Covers
<1> HIDE DEF total, r
<1>10. Cobranca[c] = {total} /\ Recibos[c] = {} /\ Recibos'[c] = {r(q)}
  BY <1>4, <1>6, <1>7, MappingAt
<1>11. Cobranca' = Cobranca
  BY <1>4, <1>5, MappingAt
<1>12. Recibos' = [Recibos EXCEPT ![c] = {r(q)}]
  BY <1>5, <1>7, MappingAt
<1>13. \A d \in ComandaIds : \A s \in Recibos[d] : s.id # r(q).id
  BY <1>8, MappingAt
<1> QED BY <1>9, <1>10, <1>11, <1>12, <1>13 DEF Conta!Settle

(* The calls that touch one comanda charge its bill, take the charge back, or   *)
(* do neither.                                                                 *)
LEMMA ComandaCallMapped ==
  ASSUME ComandaTypeOK, ClosedMeansPaid, LedgerMatchesPayments, NEW c \in ComandaIds,
         ComandaCall(c) \/ SendToProduction(c)
  PROVE  [Conta!LiquidacaoNext]_(Conta!liquidacaoVars)
<1>1. /\ caixas' = caixas
      /\ \A d \in ComandaIds : d # c => comandas'[d] = comandas[d]
      /\ comandas[c].payments = <<>>
      /\ \/ Asked(c)' = Asked(c)
         \/ Asked(c) = {} /\ \E total : Asked(c)' = {total}
         \/ Asked(c) # {} /\ Asked(c)' = {}
  BY ComandaCallEffect
<1>2. \A d \in ComandaIds : d # c => Asked(d)' = Asked(d)
  BY <1>1 DEF Asked
<1>3. \A d \in ComandaIds : Receipts(d)' = Receipts(d)
  BY <1>1, NoReceipts, SameReceiptsMapped
<1>4. Recibos' = Recibos
  BY <1>3, MappingAt
<1>5. Recibos[c] = {} /\ Cobranca[c] = Asked(c) /\ Cobranca'[c] = Asked(c)'
  BY <1>1, UnpaidHasNone, MappingAt
<1>6. CASE Asked(c)' = Asked(c)
  <2>1. Cobranca' = Cobranca
    BY <1>2, <1>6, MappingAt
  <2> QED BY <1>4, <2>1 DEF Conta!liquidacaoVars
<1>7. CASE Asked(c) = {} /\ \E total : Asked(c)' = {total}
  <2>1. PICK total : Asked(c)' = {total}
    BY <1>7
  <2>2. Cobranca' = [Cobranca EXCEPT ![c] = {total}]
    BY <1>2, <2>1, MappingAt
  <2>3. Conta!Charge(c)
    BY <1>4, <1>5, <1>7, <2>1, <2>2 DEF Conta!Charge
  <2> QED BY <2>3 DEF Conta!LiquidacaoNext
<1>8. CASE Asked(c) # {} /\ Asked(c)' = {}
  <2>1. Cobranca' = [Cobranca EXCEPT ![c] = {}]
    BY <1>2, <1>8, MappingAt
  <2>2. Conta!TakeBack(c)
    BY <1>4, <1>5, <1>8, <2>1 DEF Conta!TakeBack
  <2> QED BY <2>2 DEF Conta!LiquidacaoNext
<1> QED BY <1>1, <1>6, <1>7, <1>8

(* Every step of the service is a step of the abstract checkout or a stutter.   *)
LEMMA CheckoutStep ==
  ASSUME ComandaTypeOK, PreContaIsTheBill, ClosedMeansPaid, CaixaTypeOK,
         LedgerMatchesPayments, [PdvNext]_pdvVars
  PROVE  [Conta!LiquidacaoNext]_(Conta!liquidacaoVars)
<1>1. ASSUME UNCHANGED comandas, \A c \in ComandaIds : SameReceipts(c)
      PROVE  [Conta!LiquidacaoNext]_(Conta!liquidacaoVars)
  <2>1. \A c \in ComandaIds : Asked(c)' = Asked(c) /\ Receipts(c)' = Receipts(c)
    BY <1>1, SameReceiptsMapped DEF Asked
  <2>2. Cobranca' = Cobranca /\ Recibos' = Recibos
    BY <2>1, MappingAt
  <2> QED BY <2>2 DEF Conta!liquidacaoVars
<1>2. ASSUME NEW c \in ComandaIds, ComandaCall(c) \/ SendToProduction(c)
      PROVE  [Conta!LiquidacaoNext]_(Conta!liquidacaoVars)
  BY <1>2, ComandaCallMapped
<1>3. ASSUME NEW t \in Terminals, CaixaCall(t)
      PROVE  [Conta!LiquidacaoNext]_(Conta!liquidacaoVars)
  <2>1. UNCHANGED comandas
    BY <1>3 DEF CaixaCall
  <2> QED BY <1>1, <1>3, <2>1, CaixaCallReceipts
<1>4. ASSUME NEW c \in ComandaIds, NEW t \in Terminals, NEW m \in Methods,
             NEW amount \in PayAmounts, NEW k \in DOMAIN caixas,
             ConfirmComandaPayment(c, t, k, m, amount)
      PROVE  [Conta!LiquidacaoNext]_(Conta!liquidacaoVars)
  BY <1>4, PaymentSettles DEF Conta!LiquidacaoNext
<1>5. ASSUME FinishPayment \/ Crash \/ ConfigureEmitter
      PROVE  [Conta!LiquidacaoNext]_(Conta!liquidacaoVars)
  <2>1. UNCHANGED <<comandas, caixas>>
    BY <1>5 DEF FinishPayment, Crash, ConfigureEmitter
  <2> QED BY <1>1, <2>1, NoReceipts
<1>6. CASE UNCHANGED pdvVars
  <2>1. UNCHANGED <<comandas, caixas>>
    BY <1>6 DEF pdvVars
  <2> QED BY <1>1, <2>1, NoReceipts
<1>7. CASE PdvNext
  BY <1>7, <1>2, <1>3, <1>4, <1>5 DEF PdvNext
<1> QED BY <1>6, <1>7

(* The service implements the abstract checkout: whatever the comandas, the     *)
(* sessions and the crashes in between, a bill is settled once, by one new      *)
(* receipt of the ledger that covers what was asked for.                        *)
THEOREM CheckoutImplementsLiquidacao == PdvSpec => CheckoutSettlesOnce
<1>1. PdvInit => Conta!LiquidacaoInit
  <2> SUFFICES ASSUME PdvInit PROVE Conta!LiquidacaoInit
    OBVIOUS
  <2>1. ASSUME NEW c \in ComandaIds PROVE Asked(c) = {} /\ Receipts(c) = {}
    BY DEF PdvInit, ComandaInit, CaixaInit, NoComanda, Asked, Receipts, ReceiptsOf
  <2> QED BY <2>1, MappingAt DEF Conta!LiquidacaoInit
<1>2. /\ ComandaTypeOK /\ PreContaIsTheBill /\ ClosedMeansPaid /\ CaixaTypeOK
      /\ LedgerMatchesPayments /\ [PdvNext]_pdvVars
      => [Conta!LiquidacaoNext]_(Conta!liquidacaoVars)
  BY CheckoutStep
<1> QED BY <1>1, <1>2, PartsCorrect, LedgerAgrees, PTL
    DEF PdvSpec, CheckoutSettlesOnce, Conta!LiquidacaoSpec

-----------------------------------------------------------------------------
(* The fiscal documents *)

(* The service has one active comanda for each number. *)
THEOREM ServiceNumerosAreUnique == PdvSpec => []UniqueActiveNumero
BY ServiceIsComanda, NumerosAreUnique, PTL

(* What the arguments below assume of the comandas holds of the service. *)
LEMMA ComandasCorrect ==
  PdvSpec => [](ComandaTypeOK /\ PreContaIsTheBill /\ BatchesMatchItems /\ UnusedIsEmpty)
BY ServiceIsComanda, BillInvariant, UnusedInvariant, PTL

(* No step of the service changes a comanda that is closed. *)
LEMMA ClosedStays ==
  ASSUME ComandaTypeOK, BatchesMatchItems, UnusedIsEmpty, [PdvNext]_pdvVars,
         NEW c \in ComandaIds, comandas[c].status = "ENCERRADA"
  PROVE  comandas'[c] = comandas[c]
<1>1. RowIsKept(comandas[c], comandas'[c])
  BY ComandaPart, RowsKept
<1> QED BY <1>1 DEF RowIsKept, FinalStatus

NfceRecord == [comanda: ComandaIds, numero: Nat \ {0}, total: Int]

\* What goes to the fiscal queue is closed, and the comanda of the call under
\* way has not been given up on.
CheckoutPending ==
  /\ nfce \in Seq(NfceRecord)
  /\ naoEnfileirado \subseteq ComandaIds
  /\ emCurso \in ComandaIds \cup {NoSource}
  /\ \A c \in naoEnfileirado : comandas[c].status = "ENCERRADA"
  /\ emCurso # NoSource =>
       comandas[emCurso].status = "ENCERRADA" /\ emCurso \notin naoEnfileirado

(* The largest number of a range from zero. *)
LEMMA MaxOfRange == ASSUME NEW n \in Nat PROVE Max(0..n) = n
<1>1. n \in 0..n /\ \A y \in 0..n : n >= y
  OBVIOUS
<1>2. ASSUME NEW x \in 0..n, \A y \in 0..n : x >= y PROVE x = n
  BY <1>1, <1>2
<1> QED BY <1>1, <1>2 DEF Max

(* While the documents are numbered without gaps, the next number is the next   *)
(* position.                                                                   *)
LEMMA NextNumeroIs ==
  ASSUME nfce \in Seq(NfceRecord), \A j \in DOMAIN nfce : nfce[j].numero = j
  PROVE  NextNumero = Len(nfce) + 1
<1>1. Len(nfce) \in Nat /\ DOMAIN nfce = 1..Len(nfce)
  OBVIOUS
<1>2. {0} \cup {nfce[j].numero : j \in DOMAIN nfce} = 0..Len(nfce)
  BY <1>1
<1> QED BY <1>1, <1>2, MaxOfRange DEF NextNumero

(* The steps that do not queue leave documents and events as they are, and      *)
(* those are about closed comandas, which stay.                                *)
LEMMA UnqueuedStep ==
  ASSUME ComandaTypeOK, BatchesMatchItems, UnusedIsEmpty, [PdvNext]_pdvVars,
         CheckoutPending, NfceIsTheBill, UNCHANGED <<nfce, naoEnfileirado>>,
         \/ emCurso' \in {emCurso, NoSource}
         \/ /\ emCurso' \in ComandaIds /\ emCurso' \notin naoEnfileirado
            /\ comandas'[emCurso'].status = "ENCERRADA"
  PROVE  CheckoutPending' /\ NfceIsTheBill'
<1>1. \A c \in ComandaIds : comandas[c].status = "ENCERRADA" => comandas'[c] = comandas[c]
  BY ClosedStays
<1>2. CheckoutPending'
  BY <1>1 DEF CheckoutPending
<1>3. ASSUME NEW j \in DOMAIN nfce PROVE nfce[j].comanda \in ComandaIds
  <2>1. nfce \in Seq(NfceRecord)
    BY DEF CheckoutPending
  <2>2. nfce[j] \in NfceRecord
    BY <2>1
  <2> QED BY <2>2 DEF NfceRecord
<1>4. NfceIsTheBill'
  BY <1>1, <1>3 DEF NfceIsTheBill
<1> QED BY <1>2, <1>4

(* A document is drafted for the comanda of the call under way, which has none,  *)
(* with the next number and the total of its last pre-conta.                    *)
LEMMA QueuedStep ==
  ASSUME ComandaTypeOK, PreContaIsTheBill, CheckoutPending, NfceIsTheBill, FinishPayment
  PROVE  CheckoutPending' /\ NfceIsTheBill'
<1>1. /\ emCurso \in ComandaIds /\ comandas[emCurso].status = "ENCERRADA"
      /\ emCurso \notin naoEnfileirado
      /\ emCurso' = NoSource /\ comandas' = comandas
      /\ nfce \in Seq(NfceRecord) /\ naoEnfileirado \subseteq ComandaIds
  BY DEF FinishPayment, CheckoutPending
<1>2. NoSource \notin ComandaIds
  BY CaixaAssumption, PdvAssumption
<1> DEFINE total == Subtotal(comandas[emCurso].items)
           doc == [comanda |-> emCurso, numero |-> Len(nfce) + 1, total |-> total]
<1>3. total \in Nat /\ total = Last(comandas[emCurso].preContas).total
  <2>1. comandas[emCurso].items \in Seq(Item)
    BY <1>1, RowFields DEF ComandaTypeOK
  <2> QED BY <1>1, <2>1, SubtotalIsNat DEF PreContaIsTheBill
<1>4. Len(nfce) \in Nat /\ DOMAIN nfce = 1..Len(nfce)
  BY <1>1
<1>5. /\ doc \in NfceRecord
      /\ doc.comanda = emCurso /\ doc.numero = Len(nfce) + 1 /\ doc.total = total
  BY <1>1, <1>3, <1>4 DEF NfceRecord
<1>6. CASE HasNfce(emCurso) /\ UNCHANGED <<nfce, naoEnfileirado>>
  BY <1>1, <1>6 DEF CheckoutPending, NfceIsTheBill
<1>7. ASSUME ~HasNfce(emCurso), naoEnfileirado' = naoEnfileirado \cup {emCurso}, UNCHANGED nfce
      PROVE  CheckoutPending' /\ NfceIsTheBill'
  BY <1>1, <1>7 DEF CheckoutPending, NfceIsTheBill, HasNfce
<1>8. ASSUME ~HasNfce(emCurso), UNCHANGED naoEnfileirado, nfce' = Append(nfce, doc)
      PROVE  CheckoutPending' /\ NfceIsTheBill'
  <2> HIDE DEF doc, total
  <2>1. /\ nfce' \in Seq(NfceRecord) /\ DOMAIN nfce' = 1..Len(nfce) + 1
        /\ nfce'[Len(nfce) + 1] = doc
        /\ \A j \in DOMAIN nfce : nfce'[j] = nfce[j]
    BY <1>1, <1>4, <1>5, <1>8
  <2>2. CheckoutPending'
    BY <1>1, <1>8, <2>1 DEF CheckoutPending
  <2>3. \A j \in DOMAIN nfce : nfce[j].comanda # emCurso
    BY <1>8 DEF HasNfce
  <2>4. NfceIsTheBill'
    <3>1. ASSUME NEW j \in DOMAIN nfce'
          PROVE  /\ nfce'[j].numero = j
                 /\ comandas[nfce'[j].comanda].status = "ENCERRADA"
                 /\ nfce'[j].total = Last(comandas[nfce'[j].comanda].preContas).total
                 /\ nfce'[j].comanda \notin naoEnfileirado
      <4>1. CASE j \in DOMAIN nfce
        BY <2>1, <4>1 DEF NfceIsTheBill
      <4>2. CASE j = Len(nfce) + 1
        BY <1>1, <1>3, <1>5, <2>1, <4>2
      <4> QED BY <1>4, <2>1, <4>1, <4>2
    <3>2. ASSUME NEW i \in DOMAIN nfce', NEW j \in DOMAIN nfce',
                 nfce'[i].comanda = nfce'[j].comanda
          PROVE  i = j
      <4>1. \A x \in DOMAIN nfce' : x \in DOMAIN nfce \/ x = Len(nfce) + 1
        BY <1>4, <2>1
      <4>2. nfce'[Len(nfce) + 1].comanda = emCurso
        BY <1>5, <2>1
      <4>3. CASE i \in DOMAIN nfce /\ j \in DOMAIN nfce
        BY <2>1, <3>2, <4>3 DEF NfceIsTheBill
      <4> QED BY <2>1, <2>3, <3>2, <4>1, <4>2, <4>3
    <3> QED BY <1>1, <1>8, <3>1, <3>2 DEF NfceIsTheBill
  <2> QED BY <2>2, <2>4
<1>9. QueueCheckoutNfce(emCurso)
  BY DEF FinishPayment
<1> QED BY <1>1, <1>4, <1>6, <1>7, <1>8, <1>9, NextNumeroIs DEF QueueCheckoutNfce, NfceIsTheBill

(* One case for each call: only the checkout opens and closes its second half.  *)
LEMMA NfceStep ==
  ASSUME ComandaTypeOK, PreContaIsTheBill, BatchesMatchItems, UnusedIsEmpty,
         CheckoutPending, NfceIsTheBill, [PdvNext]_pdvVars
  PROVE  CheckoutPending' /\ NfceIsTheBill'
<1>1. CASE UNCHANGED pdvVars
  BY <1>1, UnqueuedStep DEF pdvVars
<1>2. ASSUME NEW c \in ComandaIds, ComandaCall(c) \/ SendToProduction(c)
      PROVE  CheckoutPending' /\ NfceIsTheBill'
  <2>1. UNCHANGED <<nfce, naoEnfileirado, emCurso>>
    BY <1>2 DEF ComandaCall, SendToProduction, fiscalVars
  <2> QED BY <2>1, UnqueuedStep
<1>3. ASSUME NEW t \in Terminals, CaixaCall(t) PROVE CheckoutPending' /\ NfceIsTheBill'
  <2>1. UNCHANGED <<nfce, naoEnfileirado, emCurso>>
    BY <1>3 DEF CaixaCall, fiscalVars
  <2> QED BY <2>1, UnqueuedStep
<1>4. ASSUME NEW c \in ComandaIds, NEW t \in Terminals, NEW m \in Methods,
             NEW amount \in PayAmounts, NEW k \in DOMAIN caixas,
             ConfirmComandaPayment(c, t, k, m, amount)
      PROVE  CheckoutPending' /\ NfceIsTheBill'
  <2>1. UNCHANGED <<nfce, naoEnfileirado>> /\ emCurso' = c
    BY <1>4 DEF ConfirmComandaPayment, fiscalVars
  <2>2. comandas[c].status = "EM_PAGAMENTO" /\ comandas'[c].status = "ENCERRADA"
    BY <1>4 DEF ConfirmComandaPayment, CheckoutComanda, ComandaTypeOK, ComandaRecord
  <2>3. c \notin naoEnfileirado
    BY <2>2 DEF CheckoutPending
  <2> QED BY <2>1, <2>2, <2>3, UnqueuedStep
<1>5. ASSUME Crash \/ ConfigureEmitter PROVE CheckoutPending' /\ NfceIsTheBill'
  <2>1. UNCHANGED <<nfce, naoEnfileirado>> /\ emCurso' \in {emCurso, NoSource}
    BY <1>5 DEF Crash, ConfigureEmitter, fiscalVars
  <2> QED BY <2>1, UnqueuedStep
<1>6. CASE FinishPayment
  BY <1>6, QueuedStep
<1>7. CASE PdvNext
  BY <1>7, <1>2, <1>3, <1>4, <1>5, <1>6 DEF PdvNext
<1> QED BY <1>1, <1>7

LEMMA NfceInvariant == PdvSpec => [](CheckoutPending /\ NfceIsTheBill)
<1>1. PdvInit => CheckoutPending /\ NfceIsTheBill
  BY DEF PdvInit, CheckoutPending, NfceIsTheBill
<1>2. /\ ComandaTypeOK /\ PreContaIsTheBill /\ BatchesMatchItems /\ UnusedIsEmpty
      /\ CheckoutPending /\ NfceIsTheBill /\ [PdvNext]_pdvVars
      => (CheckoutPending /\ NfceIsTheBill)'
  BY NfceStep
<1> QED BY <1>1, <1>2, ComandasCorrect, PTL DEF PdvSpec

(* The fiscal series has no gap and no comanda twice, and each document is for   *)
(* the total the customer was shown, whatever crashes between the payment and    *)
(* the fiscal queue.                                                            *)
THEOREM NfceCorrect == PdvSpec => []NfceIsTheBill
BY NfceInvariant, PTL

-----------------------------------------------------------------------------
(* The production tickets *)

\* The part of TicketsCoverBatches that is about one comanda.
TicketsOfOne(c) ==
  LET items == comandas[c].items
      batches == comandas[c].batches
      own == {x \in tickets : x.comanda = c}
  IN /\ \A x \in own :
          /\ x.batch \in DOMAIN batches
          /\ x.items # {}
          /\ x.items = {k \in batches[x.batch] : items[k].setor = x.setor}
     /\ \A b \in DOMAIN batches : \A k \in batches[b] :
          \E x \in own : x.batch = b /\ k \in x.items
     /\ \A x, y \in own : SameDedupKey(x, y) => x = y

(* Every operation but sending leaves the batches of its comanda as they are.   *)
LEMMA BatchesStay ==
  ASSUME ComandaTypeOK, UnusedIsEmpty, NEW c \in ComandaIds,
         \/ ComandaCall(c)
         \/ \E payments \in PaymentLists : CheckoutComanda(c, payments)
  PROVE  comandas'[c].batches = comandas[c].batches
<1> DEFINE old == comandas[c]
           new == comandas'[c]
<1>1. old \in ComandaRecord /\ DOMAIN comandas = ComandaIds
  BY DEF ComandaTypeOK
<1>2. ASSUME NEW n \in Numeros, OpenComanda(c, n) PROVE new.batches = old.batches
  <2>1. old = NoComanda
    BY <1>2 DEF OpenComanda, UnusedIsEmpty
  <2> QED BY <1>1, <1>2, <2>1 DEF OpenComanda, NoComanda
<1>3. ASSUME NEW setor \in Setores, NEW price \in Prices, AddComandaItem(c, setor, price)
      PROVE  new.batches = old.batches
  BY <1>1, <1>3 DEF AddComandaItem
<1>4. ASSUME NEW k \in 1..MaxItems, CancelComandaItem(c, k) PROVE new.batches = old.batches
  BY <1>1, <1>4 DEF CancelComandaItem
<1>5. GeneratePreConta(c) => new.batches = old.batches
  BY <1>1 DEF GeneratePreConta
<1>6. RequestCashCheckout(c) => new.batches = old.batches
  BY <1>1 DEF RequestCashCheckout
<1>7. ReopenComanda(c) => new.batches = old.batches
  BY <1>1 DEF ReopenComanda
<1>8. ASSUME NEW payments \in PaymentLists, CheckoutComanda(c, payments)
      PROVE  new.batches = old.batches
  <2> DEFINE all == old.payments \o payments
             trail == Append(old.trail, "CHECKOUT_CONCLUIDO")
             row == [old EXCEPT !.status = "ENCERRADA", !.payments = all, !.trail = trail]
  <2>1. comandas' = [comandas EXCEPT ![c] = row]
    <3>1. CheckoutComanda(c, payments)
      BY <1>8
    <3> QED BY <3>1, Zenon DEF CheckoutComanda
  <2>2. new = row
    BY <1>1, <2>1
  <2> HIDE DEF all, trail
  <2>3. row.batches = old.batches
    BY <1>1 DEF ComandaRecord
  <2> QED BY <2>2, <2>3
<1> QED BY <1>2, <1>3, <1>4, <1>5, <1>6, <1>7, <1>8 DEF ComandaCall

(* The tickets of a comanda whose batches stay still split them: an item never  *)
(* changes its sector.                                                         *)
LEMMA TicketsStay ==
  ASSUME ComandaTypeOK, BatchesMatchItems, NEW c \in ComandaIds, TicketsOfOne(c),
         RowIsKept(comandas[c], comandas'[c]),
         comandas'[c].batches = comandas[c].batches,
         {x \in tickets' : x.comanda = c} = {x \in tickets : x.comanda = c}
  PROVE  TicketsOfOne(c)'
<1> DEFINE old == comandas[c]
           new == comandas'[c]
<1>1. ASSUME NEW b \in DOMAIN old.batches, NEW k \in old.batches[b]
      PROVE  new.items[k].setor = old.items[k].setor
  <2>1. k \in DOMAIN old.items
    BY DEF BatchesMatchItems
  <2> QED BY <2>1 DEF RowIsKept, ItemAdvances
<1> DEFINE own == {x \in tickets : x.comanda = c}
           Before(b, s) == {k \in old.batches[b] : old.items[k].setor = s}
           After(b, s) == {k \in new.batches[b] : new.items[k].setor = s}
<1>2. ASSUME NEW b \in DOMAIN old.batches, NEW s PROVE After(b, s) = Before(b, s)
  BY <1>1
<1>3. \A x \in own : /\ x.batch \in DOMAIN old.batches
                     /\ x.items # {}
                     /\ x.items = Before(x.batch, x.setor)
  BY DEF TicketsOfOne
<1>4. ASSUME NEW x \in own PROVE x.items = After(x.batch, x.setor)
  <2> HIDE DEF own, Before, After
  <2>1. x.batch \in DOMAIN old.batches /\ x.items = Before(x.batch, x.setor)
    BY <1>3
  <2> QED BY <1>2, <2>1
<1>5. /\ \A b \in DOMAIN old.batches : \A k \in old.batches[b] :
           \E x \in own : x.batch = b /\ k \in x.items
      /\ \A x, y \in own : SameDedupKey(x, y) => x = y
  BY DEF TicketsOfOne
<1>6. own' = own /\ new.batches = old.batches
  OBVIOUS
<1> QED BY <1>3, <1>4, <1>5, <1>6 DEF TicketsOfOne, SameDedupKey

(* The items of the new batch, as they are read back, are those that were       *)
(* launched: each has the number of the batch, and no other item has.           *)
LEMMA BatchReadBack ==
  ASSUME ComandaTypeOK, BatchesMatchItems, NEW c \in ComandaIds, SendComandaToProduction(c)
  PROVE  BatchItems(comandas'[c].items, NextBatch(c)) = PendingItems(comandas[c].items)
<1> DEFINE old == comandas[c].items
           new == comandas'[c].items
<1>1. new = [k \in DOMAIN old |-> SentItem(c, k)]
  BY SendEffect
<1>2. old \in Seq(Item) /\ comandas[c].batches \in Seq(SUBSET Nat)
  BY RowFields DEF ComandaTypeOK
<1>3. ASSUME NEW k \in PendingItems(old)
      PROVE  k \in DOMAIN old /\ new[k].batch = NextBatch(c) /\ new[k].status = "ENVIADO"
  <2>1. k \in DOMAIN old
    BY DEF PendingItems
  <2>2. old[k] \in Item /\ new[k] = SentItem(c, k)
    BY <1>1, <1>2, <2>1
  <2>3. SentItem(c, k) = [old[k] EXCEPT !.status = "ENVIADO", !.batch = NextBatch(c)]
    BY DEF SentItem
  <2> QED BY <2>1, <2>2, <2>3 DEF Item
<1>4. ASSUME NEW k \in DOMAIN old, k \notin PendingItems(old)
      PROVE  new[k].batch # NextBatch(c)
  <2>1. new[k] = old[k]
    <3>1. new[k] = SentItem(c, k)
      BY <1>1
    <3> QED BY <1>4, <3>1 DEF SentItem
  <2>2. old[k].batch \in 0..Len(comandas[c].batches)
    BY DEF BatchesMatchItems
  <2>3. Len(comandas[c].batches) \in Nat
    BY <1>2
  <2> QED BY <2>1, <2>2, <2>3 DEF NextBatch
<1>5. DOMAIN new = DOMAIN old
  BY <1>1
<1> HIDE DEF old, new
<1>6. ASSUME NEW k PROVE k \in BatchItems(new, NextBatch(c)) <=> k \in PendingItems(old)
  BY <1>3, <1>4, <1>5 DEF BatchItems
<1> QED BY <1>6 DEF old, new

(* Sending splits the new batch by sector.  No ticket of the comanda has the     *)
(* number of that batch, so none is taken for a repetition.                     *)
LEMMA TicketsAppear ==
  ASSUME ComandaTypeOK, BatchesMatchItems, UnusedIsEmpty, NEW c \in ComandaIds,
         TicketsOfOne(c), SendToProduction(c)
  PROVE  TicketsOfOne(c)' /\ tickets' = tickets \cup TicketsOf(c, comandas'[c].items, NextBatch(c))
<1> DEFINE old == comandas[c]
           new == comandas'[c]
           own == {x \in tickets : x.comanda = c}
           b == NextBatch(c)
           pending == PendingItems(old.items)
           fresh == TicketsOf(c, new.items, b)
<1>1. SendComandaToProduction(c) /\ EnqueueProductionTickets(fresh)
  BY DEF SendToProduction
<1>2. /\ old.batches \in Seq(SUBSET Nat) /\ Len(old.batches) \in Nat
      /\ DOMAIN old.batches = 1..Len(old.batches)
      /\ pending \in SUBSET Nat
  <2>1. old \in ComandaRecord
    BY DEF ComandaTypeOK
  <2>2. old.batches \in Seq(SUBSET Nat) /\ old.items \in Seq(Item)
    BY <2>1, RowFields
  <2> QED BY <2>2 DEF PendingItems
<1>3. new.batches = Append(old.batches, pending)
  BY <1>1, SendEffect
<1>4. /\ DOMAIN new.batches = 1..b /\ b = Len(old.batches) + 1
      /\ new.batches[b] = pending
      /\ \A i \in DOMAIN old.batches : new.batches[i] = old.batches[i]
  <2> HIDE DEF pending
  <2> QED BY <1>2, <1>3 DEF NextBatch
<1>5. BatchItems(new.items, b) = pending
  BY <1>1, BatchReadBack
<1>6. fresh = {[comanda |-> c, batch |-> b, setor |-> s,
                items |-> {k \in pending : new.items[k].setor = s}]
                 : s \in {new.items[k].setor : k \in pending}}
  BY <1>5 DEF TicketsOf
<1>7. ASSUME NEW x \in fresh
      PROVE  /\ x.comanda = c /\ x.batch = b /\ x.items # {}
             /\ x.items = {k \in pending : new.items[k].setor = x.setor}
             /\ x = [comanda |-> x.comanda, batch |-> x.batch, setor |-> x.setor,
                     items |-> x.items]
  <2>1. PICK j \in pending :
          x = [comanda |-> c, batch |-> b, setor |-> new.items[j].setor,
               items |-> {k \in pending : new.items[k].setor = new.items[j].setor}]
    BY <1>6
  <2>2. j \in {k \in pending : new.items[k].setor = new.items[j].setor}
    OBVIOUS
  <2> QED BY <2>1, <2>2
<1>8. \A x \in own : x.batch \in DOMAIN old.batches
  BY DEF TicketsOfOne
<1>9. tickets' = tickets \cup fresh
  <2>1. \A x \in fresh, y \in tickets : ~SameDedupKey(x, y)
    <3> HIDE DEF fresh, b
    <3> QED BY <1>2, <1>4, <1>7, <1>8 DEF SameDedupKey
  <2> HIDE DEF fresh
  <2> QED BY <1>1, <2>1 DEF EnqueueProductionTickets
<1>10. \A x \in {y \in tickets' : y.comanda = c} : x \in own \/ x \in fresh
  BY <1>9
<1>11. RowIsKept(old, new)
  BY <1>1, HistoryStep DEF ComandaStep
<1>12. ASSUME NEW i \in DOMAIN old.batches, NEW k \in old.batches[i]
       PROVE  new.items[k].setor = old.items[k].setor
  <2>1. k \in DOMAIN old.items
    BY DEF BatchesMatchItems
  <2> QED BY <1>11, <2>1 DEF RowIsKept, ItemAdvances
<1>13. ASSUME NEW x \in own
       PROVE  /\ x.batch \in DOMAIN new.batches /\ x.items # {}
              /\ x.items = {k \in new.batches[x.batch] : new.items[k].setor = x.setor}
  <2>1. /\ x.batch \in DOMAIN old.batches /\ x.items # {}
        /\ x.items = {k \in old.batches[x.batch] : old.items[k].setor = x.setor}
    BY DEF TicketsOfOne
  <2>2. {k \in old.batches[x.batch] : new.items[k].setor = x.setor}
          = {k \in old.batches[x.batch] : old.items[k].setor = x.setor}
    BY <1>12, <2>1
  <2>3. new.batches[x.batch] = old.batches[x.batch]
    BY <1>4, <2>1
  <2>4. x.batch \in DOMAIN new.batches
    BY <1>2, <1>4, <2>1
  <2> QED BY <2>1, <2>2, <2>3, <2>4
<1>14. ASSUME NEW x \in {y \in tickets' : y.comanda = c}
       PROVE  /\ x.batch \in DOMAIN new.batches /\ x.items # {}
              /\ x.items = {k \in new.batches[x.batch] : new.items[k].setor = x.setor}
  <2>1. CASE x \in own
    BY <1>13, <2>1
  <2>2. CASE x \in fresh
    <3>1. x.batch = b /\ b \in DOMAIN new.batches
      BY <1>2, <1>4, <1>7, <2>2
    <3> QED BY <1>4, <1>7, <2>2, <3>1
  <2> QED BY <1>10, <2>1, <2>2
<1>15. ASSUME NEW i \in DOMAIN new.batches, NEW k \in new.batches[i]
       PROVE  \E x \in {y \in tickets' : y.comanda = c} : x.batch = i /\ k \in x.items
  <2>1. CASE i \in DOMAIN old.batches
    <3>1. k \in old.batches[i]
      BY <1>4, <2>1
    <3>2. PICK x \in own : x.batch = i /\ k \in x.items
      BY <2>1, <3>1 DEF TicketsOfOne
    <3> QED BY <1>9, <3>2
  <2>2. CASE i = b
    <3> DEFINE x == [comanda |-> c, batch |-> b, setor |-> new.items[k].setor,
                     items |-> {j \in pending : new.items[j].setor = new.items[k].setor}]
    <3>1. k \in pending
      BY <1>4, <2>2
    <3>2. x \in fresh
      BY <1>6, <3>1
    <3>3. x.comanda = c /\ x.batch = i /\ k \in x.items
      BY <2>2, <3>1
    <3> HIDE DEF x, fresh
    <3> QED BY <1>9, <3>2, <3>3
  <2> QED BY <1>2, <1>4, <2>1, <2>2
<1>16. ASSUME NEW x \in {z \in tickets' : z.comanda = c},
              NEW y \in {z \in tickets' : z.comanda = c}, SameDedupKey(x, y)
       PROVE  x = y
  <2>1. CASE x \in own /\ y \in own
    BY <1>16, <2>1 DEF TicketsOfOne
  <2>2. CASE x \in fresh /\ y \in fresh
    <3>1. x.setor = y.setor
      BY <1>16 DEF SameDedupKey
    <3> DEFINE Split(s) == {k \in pending : new.items[k].setor = s}
    <3>2. /\ x.comanda = y.comanda /\ x.batch = y.batch
          /\ x.items = Split(x.setor) /\ y.items = Split(y.setor)
      BY <1>7, <2>2
    <3> HIDE DEF Split
    <3>3. /\ x = [comanda |-> x.comanda, batch |-> x.batch, setor |-> x.setor,
                  items |-> x.items]
          /\ y = [comanda |-> y.comanda, batch |-> y.batch, setor |-> y.setor,
                  items |-> y.items]
      BY <1>7, <2>2
    <3> QED BY <3>1, <3>2, <3>3, Zenon
  <2>3. ~(x \in own /\ y \in fresh) /\ ~(x \in fresh /\ y \in own)
    <3> HIDE DEF own, fresh, b
    <3> QED BY <1>2, <1>4, <1>7, <1>8, <1>16 DEF SameDedupKey
  <2> QED BY <1>10, <2>1, <2>2, <2>3
<1> HIDE DEF own, fresh
<1> QED BY <1>9, <1>14, <1>15, <1>16 DEF TicketsOfOne, SameDedupKey, fresh

(* The tickets of the comandas that a step is not about stay. *)
LEMMA TicketsStep ==
  ASSUME ComandaTypeOK, BatchesMatchItems, UnusedIsEmpty, TicketsCoverBatches,
         [PdvNext]_pdvVars
  PROVE  TicketsCoverBatches'
<1> DEFINE Own(c) == {x \in tickets : x.comanda = c}
<1>1. \A c \in ComandaIds : TicketsOfOne(c)
  BY DEF TicketsCoverBatches, TicketsOfOne
<1>2. SUFFICES \A c \in ComandaIds : TicketsOfOne(c)'
  BY DEF TicketsCoverBatches, TicketsOfOne
<1>3. \A c \in ComandaIds : RowIsKept(comandas[c], comandas'[c])
  BY ComandaPart, RowsKept
<1>4. ASSUME NEW c \in ComandaIds, comandas'[c].batches = comandas[c].batches,
             Own(c)' = Own(c)
      PROVE  TicketsOfOne(c)'
  BY <1>1, <1>3, <1>4, TicketsStay
<1>5. ASSUME NEW c \in ComandaIds, ComandaCall(c), NEW d \in ComandaIds
      PROVE  TicketsOfOne(d)'
  <2>1. tickets' = tickets /\ ComandaStep(c)
    BY <1>5 DEF ComandaCall, ComandaStep
  <2>2. comandas'[d].batches = comandas[d].batches
    BY <1>5, <2>1, BatchesStay, OthersUntouched
  <2> QED BY <1>4, <2>1, <2>2
<1>6. ASSUME NEW c \in ComandaIds, SendToProduction(c), NEW d \in ComandaIds
      PROVE  TicketsOfOne(d)'
  <2>1. CASE d = c
    BY <1>1, <1>6, <2>1, TicketsAppear
  <2>2. CASE d # c
    <3>1. ComandaStep(c)
      BY <1>6 DEF SendToProduction, ComandaStep
    <3>2. comandas'[d].batches = comandas[d].batches
      BY <2>2, <3>1, OthersUntouched
    <3>3. tickets' = tickets \cup TicketsOf(c, comandas'[c].items, NextBatch(c))
      BY <1>1, <1>6, TicketsAppear
    <3>4. \A x \in TicketsOf(c, comandas'[c].items, NextBatch(c)) : x.comanda = c
      BY DEF TicketsOf
    <3>5. Own(d)' = Own(d)
      BY <2>2, <3>3, <3>4
    <3> QED BY <1>4, <3>2, <3>5
  <2> QED BY <2>1, <2>2
<1>7. ASSUME NEW c \in ComandaIds, NEW t \in Terminals, NEW m \in Methods,
             NEW amount \in PayAmounts, NEW k \in DOMAIN caixas,
             ConfirmComandaPayment(c, t, k, m, amount), NEW d \in ComandaIds
      PROVE  TicketsOfOne(d)'
  <2>1. \E payments \in PaymentLists : CheckoutComanda(c, payments)
    BY <1>7, OnePayment DEF ConfirmComandaPayment
  <2>2. tickets' = tickets /\ ComandaStep(c)
    BY <1>7, <2>1 DEF ConfirmComandaPayment, ComandaStep
  <2>3. comandas'[d].batches = comandas[d].batches
    BY <2>1, <2>2, BatchesStay, OthersUntouched
  <2> QED BY <1>4, <2>2, <2>3
<1>8. ASSUME UNCHANGED <<comandas, tickets>>, NEW d \in ComandaIds
      PROVE  TicketsOfOne(d)'
  BY <1>4, <1>8
<1>9. \/ UNCHANGED pdvVars
      \/ \E t \in Terminals : CaixaCall(t)
      \/ FinishPayment \/ Crash \/ ConfigureEmitter
      => UNCHANGED <<comandas, tickets>>
  BY DEF pdvVars, CaixaCall, FinishPayment, Crash, ConfigureEmitter
<1> QED BY <1>5, <1>6, <1>7, <1>8, <1>9 DEF PdvNext

(* The kitchen is told of every item once: in every reachable state the tickets  *)
(* of a batch split exactly the items that were sent with it, each in the one    *)
(* ticket of its sector, whatever is cancelled, reopened or sent afterwards.     *)
THEOREM TicketsCorrect == PdvSpec => []TicketsCoverBatches
<1>1. PdvInit => TicketsCoverBatches
  BY DEF PdvInit, ComandaInit, NoComanda, TicketsCoverBatches
<1>2. /\ ComandaTypeOK /\ BatchesMatchItems /\ UnusedIsEmpty /\ TicketsCoverBatches
      /\ [PdvNext]_pdvVars
      => TicketsCoverBatches'
  BY TicketsStep
<1> QED BY <1>1, <1>2, ComandasCorrect, PTL DEF PdvSpec

-----------------------------------------------------------------------------
(* Type correctness of the service *)

(* A new ticket is about an item that was launched, of a sector that exists. *)
LEMMA TicketsType ==
  ASSUME ComandaTypeOK, BatchesMatchItems, NEW c \in ComandaIds, SendToProduction(c)
  PROVE  TicketsOf(c, comandas'[c].items, NextBatch(c)) \subseteq Ticket
<1> DEFINE old == comandas[c]
           new == comandas'[c]
           pending == PendingItems(old.items)
<1>1. SendComandaToProduction(c)
  BY DEF SendToProduction
<1>2. old \in ComandaRecord
  BY DEF ComandaTypeOK
<1>3. /\ old.items \in Seq(Item) /\ Len(old.batches) \in Nat
      /\ pending \subseteq DOMAIN old.items
  BY <1>2, RowFields DEF PendingItems
<1>4. new.items = [k \in DOMAIN old.items |-> SentItem(c, k)]
  BY <1>1, SendEffect
<1>5. ASSUME NEW k \in pending PROVE new.items[k].setor \in Setores
  <2>1. old.items[k] \in Item /\ new.items[k] = SentItem(c, k)
    BY <1>3, <1>4
  <2>2. SentItem(c, k).setor = old.items[k].setor
    BY <2>1 DEF SentItem, Item
  <2> QED BY <2>1, <2>2, ItemFields
<1>6. BatchItems(new.items, NextBatch(c)) = pending
  BY <1>1, BatchReadBack
<1>7. pending \subseteq Nat /\ NextBatch(c) \in Nat
  BY <1>3 DEF NextBatch
<1> HIDE DEF pending
<1>8. ASSUME NEW x \in TicketsOf(c, new.items, NextBatch(c)) PROVE x \in Ticket
  <2>1. PICK s \in {new.items[k].setor : k \in pending} :
          x = [comanda |-> c, batch |-> NextBatch(c), setor |-> s,
               items |-> {k \in pending : new.items[k].setor = s}]
    BY <1>6 DEF TicketsOf
  <2>2. s \in Setores
    BY <1>5
  <2> DEFINE items == {k \in pending : new.items[k].setor = s}
  <2>3. items \in SUBSET Nat
    BY <1>7
  <2> HIDE DEF items
  <2> QED BY <1>7, <2>1, <2>2, <2>3 DEF Ticket, items
<1> QED BY <1>8

(* Every table holds what its schema allows. *)
THEOREM PdvTypeCorrect == PdvSpec => []PdvTypeOK
<1> DEFINE Rest == tickets \subseteq Ticket /\ emitente \in BOOLEAN
<1>1. PdvInit => Rest
  BY DEF PdvInit
<1>2. ComandaTypeOK /\ BatchesMatchItems /\ Rest /\ [PdvNext]_pdvVars => Rest'
  <2> SUFFICES ASSUME ComandaTypeOK, BatchesMatchItems, Rest, [PdvNext]_pdvVars
               PROVE  Rest'
    OBVIOUS
  <2>1. ASSUME NEW c \in ComandaIds, SendToProduction(c) PROVE Rest'
    <3>1. tickets' \subseteq tickets \cup TicketsOf(c, comandas'[c].items, NextBatch(c))
      BY <2>1 DEF SendToProduction, EnqueueProductionTickets
    <3>2. emitente' = emitente
      BY <2>1 DEF SendToProduction, fiscalVars
    <3> QED BY <2>1, <3>1, <3>2, TicketsType
  <2>2. ASSUME NEW c \in ComandaIds, ComandaCall(c) PROVE Rest'
    BY <2>2 DEF ComandaCall, fiscalVars
  <2>3. ASSUME NEW t \in Terminals, CaixaCall(t) PROVE Rest'
    BY <2>3 DEF CaixaCall, fiscalVars
  <2>4. ASSUME NEW c \in ComandaIds, NEW t \in Terminals, NEW m \in Methods,
               NEW amount \in PayAmounts, NEW k \in DOMAIN caixas,
               ConfirmComandaPayment(c, t, k, m, amount)
        PROVE  Rest'
    BY <2>4 DEF ConfirmComandaPayment, fiscalVars
  <2>5. ASSUME FinishPayment \/ Crash \/ ConfigureEmitter PROVE Rest'
    BY <2>5 DEF FinishPayment, Crash, ConfigureEmitter, fiscalVars
  <2>6. CASE UNCHANGED pdvVars
    BY <2>6 DEF pdvVars
  <2>7. CASE PdvNext
    <3> HIDE DEF Rest
    <3> QED BY <2>7, <2>1, <2>2, <2>3, <2>4, <2>5 DEF PdvNext
  <2> QED BY <2>6, <2>7
<1>3. ComandaTypeOK /\ CaixaTypeOK /\ CheckoutPending /\ Rest => PdvTypeOK
  BY DEF PdvTypeOK, CheckoutPending, NfceRecord
<1> QED BY <1>1, <1>2, <1>3, ComandasCorrect, PartsCorrect, NfceInvariant, PTL DEF PdvSpec
=============================================================================
