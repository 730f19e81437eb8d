---------------------------- MODULE CaixaProofs ----------------------------
(***************************************************************************)
(* Theorems about the cash sessions, for any number of terminals, sessions, *)
(* methods and movements.                                                  *)
(***************************************************************************)
EXTENDS Caixa, SomasProofs, SequenceTheorems, FiniteSetTheorems

-----------------------------------------------------------------------------
(* Types *)

(* The fields of a session. *)
LEMMA SessionFields ==
  ASSUME NEW s \in CaixaRecord
  PROVE  /\ s.terminal \in Terminals /\ s.fund \in Nat
         /\ s.status \in {"ABERTO", "FECHAMENTO", "FECHADO"}
         /\ s.movements \in Seq(Movement)
BY CaixaAssumption DEF CaixaRecord

(* The fields of a movement. *)
LEMMA MovementFields ==
  ASSUME NEW mv \in Movement
  PROVE  /\ mv.type \in {"RECEBIMENTO", "SUPRIMENTO", "SANGRIA"}
         /\ mv.method \in Methods /\ mv.amount \in Nat /\ mv.amount > 0
         /\ SignedAmount(mv) \in Int
<1>1. /\ mv.type \in {"RECEBIMENTO", "SUPRIMENTO", "SANGRIA"}
      /\ mv.method \in Methods /\ mv.amount \in Amounts
  BY DEF Movement
<1>2. \A a \in Amounts : a \in Nat /\ a > 0
  <2>1. Amounts \subseteq Nat \ {0}
    BY CaixaAssumption
  <2> QED BY <2>1
<1> QED BY <1>1, <1>2 DEF SignedAmount

(* A step rewrites one session; the others keep their place. *)
LEMMA SessionRewritten ==
  ASSUME CaixaTypeOK, NEW k \in DOMAIN caixas, NEW new \in CaixaRecord,
         caixas' = [caixas EXCEPT ![k] = new]
  PROVE  /\ CaixaTypeOK'
         /\ DOMAIN caixas' = DOMAIN caixas /\ Len(caixas') = Len(caixas)
         /\ caixas'[k] = new
         /\ \A j \in DOMAIN caixas : j # k => caixas'[j] = caixas[j]
<1>1. caixas \in Seq(CaixaRecord) /\ k \in 1..Len(caixas)
  BY DEF CaixaTypeOK
<1> QED BY <1>1, ExceptSeq DEF CaixaTypeOK

\* What a movement changes.
Moved(k, mv) == [caixas[k] EXCEPT !.movements = Append(@, mv)]

(* A movement is the rewriting of one open session. *)
LEMMA MovementEffect ==
  ASSUME CaixaTypeOK, NEW k \in DOMAIN caixas, NEW mv \in Movement, AppendMovement(k, mv)
  PROVE  /\ caixas[k] \in CaixaRecord /\ caixas[k].status = "ABERTO"
         /\ Moved(k, mv) \in CaixaRecord
         /\ caixas' = [caixas EXCEPT ![k] = Moved(k, mv)]
         /\ Moved(k, mv).movements = Append(caixas[k].movements, mv)
         /\ Moved(k, mv).fund = caixas[k].fund /\ Moved(k, mv).status = "ABERTO"
         /\ Moved(k, mv).terminal = caixas[k].terminal
<1> DEFINE old == caixas[k]
           movements == Append(old.movements, mv)
           new == [old EXCEPT !.movements = movements]
<1>1. old \in CaixaRecord /\ old.status = "ABERTO"
  BY DEF CaixaTypeOK, AppendMovement
<1>2. movements \in Seq(Movement)
  BY <1>1, SessionFields
<1>3. /\ caixas' = [caixas EXCEPT ![k] = new] /\ new = Moved(k, mv)
      /\ movements = Append(caixas[k].movements, mv)
  BY DEF AppendMovement, Moved
<1> HIDE DEF movements
<1>4. /\ new \in CaixaRecord /\ new.movements = movements /\ new.fund = old.fund
      /\ new.status = "ABERTO" /\ new.terminal = old.terminal
  BY <1>1, <1>2 DEF CaixaRecord
<1> QED BY <1>1, <1>3, <1>4

\* What starting and finishing the closure change.
Closing(k) == [caixas[k] EXCEPT !.status = "FECHAMENTO"]

Closed(k, counted, justified) ==
  [caixas[k] EXCEPT !.status = "FECHADO",
                    !.closure = [counted |-> counted, justified |-> justified]]

(* The start of the closure is the rewriting of one open session. *)
LEMMA ClosingEffect ==
  ASSUME CaixaTypeOK, NEW t, NEW k, NEW pending, StartCashClosure(t, k, pending)
  PROVE  /\ k \in DOMAIN caixas /\ caixas[k] \in CaixaRecord
         /\ caixas[k].status = "ABERTO"
         /\ Closing(k) \in CaixaRecord /\ caixas' = [caixas EXCEPT ![k] = Closing(k)]
         /\ Closing(k).movements = caixas[k].movements /\ Closing(k).fund = caixas[k].fund
         /\ Closing(k).status = "FECHAMENTO" /\ Closing(k).terminal = caixas[k].terminal
<1>1. /\ k \in DOMAIN caixas /\ caixas[k] \in CaixaRecord /\ caixas[k].status = "ABERTO"
  BY DEF CaixaTypeOK, StartCashClosure, IsActiveCaixa
<1>2. caixas' = [caixas EXCEPT ![k] = Closing(k)]
  BY DEF StartCashClosure, Closing
<1>3. /\ Closing(k) \in CaixaRecord
      /\ Closing(k).movements = caixas[k].movements /\ Closing(k).fund = caixas[k].fund
      /\ Closing(k).status = "FECHAMENTO" /\ Closing(k).terminal = caixas[k].terminal
  BY <1>1 DEF CaixaRecord, Closing
<1> QED BY <1>1, <1>2, <1>3

(* The end of the closure is the rewriting of one session in FECHAMENTO. *)
LEMMA ClosedEffect ==
  ASSUME CaixaTypeOK, NEW t, NEW k, NEW counted \in [Methods -> Counts],
         NEW justified \in BOOLEAN, CloseCashSession(t, k, counted, justified)
  PROVE  LET new == Closed(k, counted, justified)
         IN /\ k \in DOMAIN caixas /\ caixas[k] \in CaixaRecord
            /\ caixas[k].status = "FECHAMENTO"
            /\ new \in CaixaRecord /\ caixas' = [caixas EXCEPT ![k] = new]
            /\ new.movements = caixas[k].movements /\ new.fund = caixas[k].fund
            /\ new.status = "FECHADO" /\ new.terminal = caixas[k].terminal
<1> DEFINE closure == [counted |-> counted, justified |-> justified]
           new == [caixas[k] EXCEPT !.status = "FECHADO", !.closure = closure]
<1>1. /\ k \in DOMAIN caixas /\ caixas[k] \in CaixaRecord /\ caixas[k].status = "FECHAMENTO"
  BY DEF CaixaTypeOK, CloseCashSession, IsActiveCaixa
<1>2. caixas' = [caixas EXCEPT ![k] = new] /\ new = Closed(k, counted, justified)
  BY DEF CloseCashSession, Closed
<1>3. closure \in [counted: [Methods -> Nat], justified: BOOLEAN]
  <2>1. Counts \subseteq Nat
    BY CaixaAssumption
  <2>2. counted \in [Methods -> Nat]
    BY <2>1
  <2> QED BY <2>2
<1> HIDE DEF closure
<1>4. /\ new \in CaixaRecord
      /\ new.movements = caixas[k].movements /\ new.fund = caixas[k].fund
      /\ new.status = "FECHADO" /\ new.terminal = caixas[k].terminal
  BY <1>1, <1>3 DEF CaixaRecord
<1> QED BY <1>1, <1>2, <1>4

\* The session that OpenCashSession appends.
Opened(t, fund) ==
  [terminal |-> t, status |-> "ABERTO", fund |-> fund,
   movements |-> <<>>, closure |-> NoClosure]

(* Opening appends a session and leaves the others where they are. *)
LEMMA OpenEffect ==
  ASSUME CaixaTypeOK, NEW t \in Terminals, NEW fund \in Funds, OpenCashSession(t, fund)
  PROVE  /\ CaixaTypeOK'
         /\ Opened(t, fund) \in CaixaRecord
         /\ Len(caixas) \in Nat /\ DOMAIN caixas = 1..Len(caixas)
         /\ DOMAIN caixas' = 1..Len(caixas)+1
         /\ caixas'[Len(caixas)+1] = Opened(t, fund)
         /\ \A j \in DOMAIN caixas : caixas'[j] = caixas[j]
<1>1. Opened(t, fund) \in CaixaRecord
  BY DEF Opened, CaixaRecord, NoClosure
<1>2. caixas' = Append(caixas, Opened(t, fund)) /\ caixas \in Seq(CaixaRecord)
  BY DEF OpenCashSession, Opened, CaixaTypeOK
<1> QED BY <1>1, <1>2, AppendProperties DEF CaixaTypeOK

\* A movement that some operation of the domain may append.
MovementStep(k) ==
  \E mv \in Movement :
    /\ AppendMovement(k, mv)
    /\ mv.type = "SANGRIA" => mv.method = "DINHEIRO" /\ mv.amount <= Expected(caixas[k], "DINHEIRO")

(* A step opens a session, appends a movement to one, or moves its closure on. *)
LEMMA StepCases ==
  ASSUME CaixaTypeOK, CaixaNext
  PROVE  \/ \E t \in Terminals, fund \in Funds : OpenCashSession(t, fund)
         \/ \E k \in DOMAIN caixas : MovementStep(k)
         \/ \E t \in Terminals, k \in DOMAIN caixas, pending \in {0, 1} :
               StartCashClosure(t, k, pending)
         \/ \E t \in Terminals, k \in DOMAIN caixas,
               counted \in [Methods -> Counts], justified \in BOOLEAN :
               CloseCashSession(t, k, counted, justified)
<1>1. ASSUME NEW t \in Terminals, NEW k \in DOMAIN caixas, NEW m \in Methods,
             NEW amount \in Amounts, NEW source \in Sources \cup {NoSource},
             ReceiveCashPayment(t, k, m, amount, source)
      PROVE  MovementStep(k)
  <2> DEFINE mv == [type |-> "RECEBIMENTO", method |-> m, amount |-> amount, source |-> source]
  <2>1. mv \in Movement /\ mv.type # "SANGRIA"
    BY DEF Movement
  <2>2. AppendMovement(k, mv)
    BY <1>1 DEF ReceiveCashPayment
  <2> HIDE DEF mv
  <2> QED BY <2>1, <2>2 DEF MovementStep
<1>2. ASSUME NEW t \in Terminals, NEW k \in DOMAIN caixas, NEW amount \in Amounts,
             RegisterCashSupply(t, k, amount)
      PROVE  MovementStep(k)
  <2> DEFINE mv == [type |-> "SUPRIMENTO", method |-> "DINHEIRO", amount |-> amount,
                    source |-> NoSource]
  <2>1. mv \in Movement /\ mv.type # "SANGRIA"
    BY PagamentosAssumption DEF Movement
  <2>2. AppendMovement(k, mv)
    BY <1>2 DEF RegisterCashSupply
  <2> HIDE DEF mv
  <2> QED BY <2>1, <2>2 DEF MovementStep
<1>3. ASSUME NEW t \in Terminals, NEW k \in DOMAIN caixas, NEW amount \in Amounts,
             RegisterCashWithdrawal(t, k, amount)
      PROVE  MovementStep(k)
  <2> DEFINE mv == [type |-> "SANGRIA", method |-> "DINHEIRO", amount |-> amount,
                    source |-> NoSource]
  <2>1. mv \in Movement /\ mv.method = "DINHEIRO" /\ mv.amount = amount
    BY PagamentosAssumption DEF Movement
  <2>2. AppendMovement(k, mv) /\ amount <= Expected(caixas[k], "DINHEIRO")
    BY <1>3 DEF RegisterCashWithdrawal
  <2> HIDE DEF mv
  <2> QED BY <2>1, <2>2 DEF MovementStep
<1> QED BY <1>1, <1>2, <1>3 DEF CaixaNext

(* Every step keeps the type of the table. *)
LEMMA CaixaTypeStep ==
  ASSUME CaixaTypeOK, [CaixaNext]_caixas
  PROVE  CaixaTypeOK'
<1>1. CASE UNCHANGED caixas
  BY <1>1 DEF CaixaTypeOK
<1>2. CASE CaixaNext
  <2>1. ASSUME NEW k \in DOMAIN caixas, MovementStep(k) PROVE CaixaTypeOK'
    BY <2>1, MovementEffect, SessionRewritten DEF MovementStep
  <2>2. ASSUME NEW t \in Terminals, NEW k \in DOMAIN caixas, NEW pending \in {0, 1},
               StartCashClosure(t, k, pending)
        PROVE  CaixaTypeOK'
    BY <2>2, ClosingEffect, SessionRewritten
  <2>3. ASSUME NEW t \in Terminals, NEW k \in DOMAIN caixas,
               NEW counted \in [Methods -> Counts], NEW justified \in BOOLEAN,
               CloseCashSession(t, k, counted, justified)
        PROVE  CaixaTypeOK'
    BY <2>3, ClosedEffect, SessionRewritten
  <2> QED BY <1>2, <2>1, <2>2, <2>3, StepCases, OpenEffect
<1> QED BY <1>1, <1>2

(* Type correctness: whatever the calls, the table holds sessions that the     *)
(* schema of migration 0004 allows, and every movement has a positive amount.  *)
THEOREM CaixaTypeCorrect == CaixaSpec => []CaixaTypeOK
<1>1. CaixaInit => CaixaTypeOK
  BY DEF CaixaInit, CaixaTypeOK
<1>2. CaixaTypeOK /\ [CaixaNext]_caixas => CaixaTypeOK'
  BY CaixaTypeStep
<1> QED BY <1>1, <1>2, PTL DEF CaixaSpec

-----------------------------------------------------------------------------
(* One session at a time *)

(* The session the service looks for, the latest of the terminal that is not   *)
(* closed, is any that is not closed: so when it finds none there is none.     *)
LEMMA NoneActive ==
  ASSUME CaixaTypeOK, OneActiveCaixa, NEW t, ~HasActiveCaixa(t), NEW k \in DOMAIN caixas,
         caixas[k].terminal = t
  PROVE  caixas[k].status = "FECHADO"
<1> SUFFICES ASSUME caixas[k].status # "FECHADO" PROVE IsActiveCaixa(t, k)
  BY DEF HasActiveCaixa
<1>1. DOMAIN caixas = 1..Len(caixas) /\ Len(caixas) \in Nat
  BY DEF CaixaTypeOK
<1>2. ASSUME NEW j \in k+1..Len(caixas), caixas[j].terminal = t
      PROVE  caixas[j].status = "FECHADO"
  <2>1. j \in DOMAIN caixas /\ j # k
    BY <1>1
  <2> QED BY <1>2, <2>1 DEF OneActiveCaixa
<1> QED BY <1>2 DEF IsActiveCaixa

(* Rewriting one session keeps one at most as long as a closed one stays so.   *)
LEMMA OneActiveRewritten ==
  ASSUME CaixaTypeOK, OneActiveCaixa, NEW k \in DOMAIN caixas, NEW new \in CaixaRecord,
         caixas' = [caixas EXCEPT ![k] = new],
         new.terminal = caixas[k].terminal, caixas[k].status # "FECHADO"
  PROVE  OneActiveCaixa'
BY SessionRewritten DEF OneActiveCaixa

(* Opening needs a terminal without an active session, and nothing reopens one. *)
LEMMA OneActiveStep ==
  ASSUME CaixaTypeOK, OneActiveCaixa, [CaixaNext]_caixas
  PROVE  OneActiveCaixa'
<1>1. CASE UNCHANGED caixas
  BY <1>1 DEF OneActiveCaixa
<1>2. CASE CaixaNext
  <2>1. ASSUME NEW k \in DOMAIN caixas, MovementStep(k) PROVE OneActiveCaixa'
    <3>1. PICK mv \in Movement : AppendMovement(k, mv)
      BY <2>1 DEF MovementStep
    <3>2. caixas[k].status # "FECHADO"
      BY <3>1, MovementEffect
    <3> QED BY <3>1, <3>2, MovementEffect, OneActiveRewritten
  <2>2. ASSUME NEW t \in Terminals, NEW k \in DOMAIN caixas, NEW pending \in {0, 1},
               StartCashClosure(t, k, pending)
        PROVE  OneActiveCaixa'
    <3>1. caixas[k].status # "FECHADO"
      BY <2>2, ClosingEffect
    <3> QED BY <2>2, <3>1, ClosingEffect, OneActiveRewritten
  <2>3. ASSUME NEW t \in Terminals, NEW k \in DOMAIN caixas,
               NEW counted \in [Methods -> Counts], NEW justified \in BOOLEAN,
               CloseCashSession(t, k, counted, justified)
        PROVE  OneActiveCaixa'
    <3>1. caixas[k].status # "FECHADO"
      BY <2>3, ClosedEffect
    <3> QED BY <2>3, <3>1, ClosedEffect, OneActiveRewritten
  <2>4. ASSUME NEW t \in Terminals, NEW fund \in Funds, OpenCashSession(t, fund)
        PROVE  OneActiveCaixa'
    <3>1. \A k \in DOMAIN caixas : caixas[k].terminal = t => caixas[k].status = "FECHADO"
      BY <2>4, NoneActive DEF OpenCashSession
    <3>2. Opened(t, fund).terminal = t
      BY DEF Opened
    <3> QED BY <2>4, <3>1, <3>2, OpenEffect DEF OneActiveCaixa
  <2> QED BY <1>2, <2>1, <2>2, <2>3, <2>4, StepCases
<1> QED BY <1>1, <1>2

(* No terminal ever has two sessions that are not closed, whatever the order   *)
(* of openings and closures, although no index of the schema forbids it.       *)
THEOREM OneActiveCorrect == CaixaSpec => []OneActiveCaixa
<1>1. CaixaInit => OneActiveCaixa
  BY DEF CaixaInit, OneActiveCaixa
<1>2. CaixaTypeOK /\ OneActiveCaixa /\ [CaixaNext]_caixas => OneActiveCaixa'
  BY OneActiveStep
<1> QED BY <1>1, <1>2, CaixaTypeCorrect, PTL DEF CaixaSpec

-----------------------------------------------------------------------------
(* The drawer *)

(* One more movement changes the balance of its method by its signed amount.   *)
LEMMA ExpectedAppend ==
  ASSUME NEW old \in CaixaRecord, NEW new \in CaixaRecord, NEW mv \in Movement,
         new.movements = Append(old.movements, mv), new.fund = old.fund,
         NEW m \in Methods
  PROVE  /\ Expected(old, m) \in Int
         /\ Expected(new, m) =
              Expected(old, m) + (IF mv.method = m THEN SignedAmount(mv) ELSE 0)
<1> DEFINE rows == old.movements
           more == Append(rows, mv)
           f == AmountsOf(rows, m)
           g == AmountsOf(more, m)
           n == Len(rows)
<1>1. /\ n \in Nat /\ DOMAIN rows = 1..n /\ DOMAIN more = 1..n+1 /\ Len(more) = n+1
      /\ \A i \in 1..n : more[i] = rows[i] /\ rows[i] \in Movement
      /\ more[n+1] = mv
  BY SessionFields
<1>2. \A i \in 1..n : f[i] = g[i]
  BY <1>1 DEF AmountsOf
<1>3. \A i \in 1..n : f[i] \in Int
  BY <1>1, MovementFields DEF AmountsOf
<1>4. g[n+1] = IF mv.method = m THEN SignedAmount(mv) ELSE 0
  BY <1>1 DEF AmountsOf
<1>5. Expected(old, m) = (IF m = "DINHEIRO" THEN old.fund ELSE 0) + SumTo(f, n)
  BY DEF Expected
<1>6. Expected(new, m) = (IF m = "DINHEIRO" THEN old.fund ELSE 0) + SumTo(g, n+1)
  BY <1>1 DEF Expected
<1>7. old.fund \in Nat /\ SignedAmount(mv) \in Int
  BY SessionFields, MovementFields
<1> HIDE DEF f, g, n
<1>8. SumTo(g, n+1) = SumTo(f, n) + g[n+1]
  BY <1>1, <1>2, SumAppend
<1>9. SumTo(f, n) \in Int
  BY <1>1, <1>3, SumIsIn
<1> QED BY <1>4, <1>5, <1>6, <1>7, <1>8, <1>9

(* A new session holds its fund and nothing else. *)
LEMMA ExpectedOpened ==
  ASSUME NEW t, NEW fund \in Nat, NEW m
  PROVE  Expected(Opened(t, fund), m) >= 0
<1>1. Opened(t, fund).fund = fund /\ Opened(t, fund).movements = <<>>
  BY DEF Opened
<1>2. SumTo(AmountsOf(<<>>, m), 0) = 0
  BY SumStep
<1>3. Expected(Opened(t, fund), m) = (IF m = "DINHEIRO" THEN fund ELSE 0) + 0
  BY <1>1, <1>2 DEF Expected
<1> QED BY <1>3

(* The balance depends on the fund and on the movements only. *)
LEMMA ExpectedSame ==
  ASSUME NEW old, NEW new, new.movements = old.movements, new.fund = old.fund, NEW m
  PROVE  Expected(new, m) = Expected(old, m)
BY DEF Expected

\* The part of CashNeverNegative that is about one session.
NotNegative(session) == \A m \in Methods : Expected(session, m) >= 0

(* Only a SANGRIA lowers a balance, that of DINHEIRO, and by at most what it is. *)
LEMMA MovementNotNegative ==
  ASSUME CaixaTypeOK, NEW k \in DOMAIN caixas, NotNegative(caixas[k]), NEW mv \in Movement,
         AppendMovement(k, mv),
         mv.type = "SANGRIA" => mv.method = "DINHEIRO" /\ mv.amount <= Expected(caixas[k], "DINHEIRO")
  PROVE  NotNegative(Moved(k, mv))
<1> SUFFICES ASSUME NEW m \in Methods PROVE Expected(Moved(k, mv), m) >= 0
  BY DEF NotNegative
<1>1. /\ Expected(caixas[k], m) \in Int
      /\ Expected(Moved(k, mv), m) =
           Expected(caixas[k], m) + (IF mv.method = m THEN SignedAmount(mv) ELSE 0)
  BY MovementEffect, ExpectedAppend
<1>2. Expected(caixas[k], m) >= 0
  BY DEF NotNegative
<1>3. mv.amount \in Nat
  BY MovementFields
<1>4. CASE mv.type = "SANGRIA"
  BY <1>1, <1>2, <1>3, <1>4 DEF SignedAmount
<1>5. CASE mv.type # "SANGRIA"
  BY <1>1, <1>2, <1>3, <1>5 DEF SignedAmount
<1> QED BY <1>4, <1>5

(* A step rewrites one session into one that is not negative, or opens one.    *)
LEMMA DrawerStep ==
  ASSUME CaixaTypeOK, CashNeverNegative, [CaixaNext]_caixas
  PROVE  CashNeverNegative'
<1>1. CASE UNCHANGED caixas
  BY <1>1 DEF CashNeverNegative, Expected
<1>2. ASSUME NEW k \in DOMAIN caixas, NEW new \in CaixaRecord,
             caixas' = [caixas EXCEPT ![k] = new], NotNegative(new)
      PROVE  CashNeverNegative'
  BY <1>2, SessionRewritten DEF CashNeverNegative, NotNegative
<1>3. \A k \in DOMAIN caixas : NotNegative(caixas[k])
  BY DEF CashNeverNegative, NotNegative
<1>4. CASE CaixaNext
  <2>1. ASSUME NEW k \in DOMAIN caixas, MovementStep(k) PROVE CashNeverNegative'
    <3>1. PICK mv \in Movement :
            /\ AppendMovement(k, mv)
            /\ mv.type = "SANGRIA" => mv.method = "DINHEIRO" /\ mv.amount <= Expected(caixas[k], "DINHEIRO")
      BY <2>1 DEF MovementStep
    <3>2. NotNegative(Moved(k, mv))
      BY <1>3, <3>1, MovementNotNegative
    <3> QED BY <1>2, <3>1, <3>2, MovementEffect
  <2>2. ASSUME NEW t \in Terminals, NEW k \in DOMAIN caixas, NEW pending \in {0, 1},
               StartCashClosure(t, k, pending)
        PROVE  CashNeverNegative'
    <3>1. NotNegative(Closing(k))
      BY <1>3, <2>2, ClosingEffect, ExpectedSame DEF NotNegative
    <3> QED BY <1>2, <2>2, <3>1, ClosingEffect
  <2>3. ASSUME NEW t \in Terminals, NEW k \in DOMAIN caixas,
               NEW counted \in [Methods -> Counts], NEW justified \in BOOLEAN,
               CloseCashSession(t, k, counted, justified)
        PROVE  CashNeverNegative'
    <3>1. NotNegative(Closed(k, counted, justified))
      BY <1>3, <2>3, ClosedEffect, ExpectedSame DEF NotNegative
    <3> QED BY <1>2, <2>3, <3>1, ClosedEffect
  <2>4. ASSUME NEW t \in Terminals, NEW fund \in Funds, OpenCashSession(t, fund)
        PROVE  CashNeverNegative'
    <3>1. fund \in Nat
      BY CaixaAssumption
    <3>2. NotNegative(Opened(t, fund))
      BY <3>1, ExpectedOpened DEF NotNegative
    <3> QED BY <1>3, <2>4, <3>2, OpenEffect DEF CashNeverNegative, NotNegative
  <2> QED BY <2>1, <2>2, <2>3, <2>4, <1>4, StepCases
<1> QED BY <1>1, <1>4

(* No sequence of receipts, supplies and withdrawals, of any length, takes out *)
(* of the drawer more than was put in.                                         *)
THEOREM DrawerCorrect == CaixaSpec => []CashNeverNegative
<1>1. CaixaInit => CashNeverNegative
  BY DEF CaixaInit, CashNeverNegative
<1>2. CaixaTypeOK /\ CashNeverNegative /\ [CaixaNext]_caixas => CashNeverNegative'
  BY DrawerStep
<1> QED BY <1>1, <1>2, CaixaTypeCorrect, PTL DEF CaixaSpec

-----------------------------------------------------------------------------
(* The ledger *)

(* A session is kept by standing still. *)
LEMMA SessionStays ==
  ASSUME NEW s \in CaixaRecord
  PROVE  SessionIsKept(s, s)
BY SessionFields DEF SessionIsKept

(* Each rewriting of a session moves it on and loses nothing. *)
LEMMA LedgerStep ==
  ASSUME CaixaTypeOK, CaixaNext, NEW j \in DOMAIN caixas
  PROVE  j \in DOMAIN caixas' /\ SessionIsKept(caixas[j], caixas'[j])
<1>1. caixas[j] \in CaixaRecord
  BY DEF CaixaTypeOK
<1>2. ASSUME NEW k \in DOMAIN caixas, NEW new \in CaixaRecord,
             caixas' = [caixas EXCEPT ![k] = new], SessionIsKept(caixas[k], new)
      PROVE  j \in DOMAIN caixas' /\ SessionIsKept(caixas[j], caixas'[j])
  BY <1>1, <1>2, SessionRewritten, SessionStays
<1>3. ASSUME NEW k \in DOMAIN caixas, MovementStep(k)
      PROVE  j \in DOMAIN caixas' /\ SessionIsKept(caixas[j], caixas'[j])
  <2>1. PICK mv \in Movement : AppendMovement(k, mv)
    BY <1>3 DEF MovementStep
  <2>2. /\ caixas[k].movements \in Seq(Movement) /\ caixas[k].status = "ABERTO"
        /\ Moved(k, mv).movements = Append(caixas[k].movements, mv)
        /\ Moved(k, mv).fund = caixas[k].fund /\ Moved(k, mv).terminal = caixas[k].terminal
    BY <2>1, MovementEffect, SessionFields
  <2>3. SessionIsKept(caixas[k], Moved(k, mv))
    BY <2>2 DEF SessionIsKept
  <2> QED BY <1>2, <2>1, <2>3, MovementEffect
<1>4. ASSUME NEW t \in Terminals, NEW k \in DOMAIN caixas, NEW pending \in {0, 1},
             StartCashClosure(t, k, pending)
      PROVE  j \in DOMAIN caixas' /\ SessionIsKept(caixas[j], caixas'[j])
  <2>1. SessionIsKept(caixas[k], Closing(k))
    BY <1>4, ClosingEffect, SessionFields DEF SessionIsKept
  <2> QED BY <1>2, <1>4, <2>1, ClosingEffect
<1>5. ASSUME NEW t \in Terminals, NEW k \in DOMAIN caixas,
             NEW counted \in [Methods -> Counts], NEW justified \in BOOLEAN,
             CloseCashSession(t, k, counted, justified)
      PROVE  j \in DOMAIN caixas' /\ SessionIsKept(caixas[j], caixas'[j])
  <2>1. SessionIsKept(caixas[k], Closed(k, counted, justified))
    BY <1>5, ClosedEffect, SessionFields DEF SessionIsKept
  <2> QED BY <1>2, <1>5, <2>1, ClosedEffect
<1>6. ASSUME NEW t \in Terminals, NEW fund \in Funds, OpenCashSession(t, fund)
      PROVE  j \in DOMAIN caixas' /\ SessionIsKept(caixas[j], caixas'[j])
  BY <1>1, <1>6, OpenEffect, SessionStays
<1> QED BY <1>3, <1>4, <1>5, <1>6, StepCases

(* The ledger is append-only: no call changes a closed session, a movement, a  *)
(* fund, or adds a movement once the closure has started.                      *)
THEOREM LedgerCorrect == CaixaSpec => LedgerIsKept
<1>1. CaixaTypeOK /\ [CaixaNext]_caixas
      => [\A k \in DOMAIN caixas :
            k \in DOMAIN caixas' /\ SessionIsKept(caixas[k], caixas'[k])]_caixas
  BY LedgerStep
<1> QED BY <1>1, CaixaTypeCorrect, PTL DEF CaixaSpec, LedgerIsKept

-----------------------------------------------------------------------------
(* The closure *)

\* The method that a sum over s takes first.
FirstOf(s) == CHOOSE m \in s : TRUE

\* g holds the sum of f over every set of at most n methods.
IsTotal(g, f, n) ==
  g = [s \in {t \in SUBSET Methods : Cardinality(t) <= n} |->
         IF s = {} THEN 0 ELSE f[FirstOf(s)] + g[s \ {FirstOf(s)}]]

(* The size of a set of methods. *)
LEMMA SizeOf ==
  ASSUME NEW s \in SUBSET Methods
  PROVE  Cardinality(s) \in Nat /\ (Cardinality(s) = 0 <=> s = {})
<1>1. IsFiniteSet(s)
  BY CaixaAssumption, FS_Subset
<1> QED BY <1>1, FS_CardinalityType, FS_EmptySet

(* Taking a method away leaves a smaller set of methods. *)
LEMMA WithoutFirst ==
  ASSUME NEW s \in SUBSET Methods, s # {}
  PROVE  /\ FirstOf(s) \in s /\ s \ {FirstOf(s)} \in SUBSET Methods
         /\ Cardinality(s) \in Nat \ {0}
         /\ Cardinality(s \ {FirstOf(s)}) = Cardinality(s) - 1
<1>1. FirstOf(s) \in s
  BY DEF FirstOf
<1>2. IsFiniteSet(s)
  BY CaixaAssumption, FS_Subset
<1>3. Cardinality(s) \in Nat /\ Cardinality(s) # 0
  BY SizeOf
<1> QED BY <1>1, <1>2, <1>3, FS_RemoveElement

(* Sums exist over sets of every size, so the CHOOSE under TotalOver is not    *)
(* empty.                                                                      *)
LEMMA TotalExists == \A f : \A n \in Nat : \E g : IsTotal(g, f, n)
<1> TAKE f
<1> DEFINE E == {n \in Nat : \E g : IsTotal(g, f, n)}
           Upto(n) == {t \in SUBSET Methods : Cardinality(t) <= n}
<1>1. 0 \in E
  <2> DEFINE g == [s \in Upto(0) |-> 0]
  <2>1. ASSUME NEW s \in Upto(0) PROVE s = {}
    <3>1. Cardinality(s) \in Nat /\ Cardinality(s) <= 0
      BY SizeOf
    <3> QED BY <3>1, SizeOf
  <2>2. g = [s \in Upto(0) |-> IF s = {} THEN 0 ELSE f[FirstOf(s)] + g[s \ {FirstOf(s)}]]
    BY <2>1
  <2>3. IsTotal(g, f, 0)
    <3> HIDE DEF g
    <3> QED BY <2>2 DEF IsTotal
  <2> QED BY <2>3
<1>2. ASSUME NEW n \in E PROVE n+1 \in E
  <2>1. PICK g : IsTotal(g, f, n)
    OBVIOUS
  <2>2. n \in Nat
    OBVIOUS
  <2> DEFINE r == [s \in Upto(n+1) |->
                     IF s = {} THEN 0 ELSE f[FirstOf(s)] + g[s \ {FirstOf(s)}]]
  <2>3. ASSUME NEW s \in Upto(n) PROVE r[s] = g[s]
    <3>1. s \in Upto(n+1)
      <4>1. Cardinality(s) \in Nat
        BY SizeOf
      <4> QED BY <2>2, <4>1
    <3>2. g[s] = IF s = {} THEN 0 ELSE f[FirstOf(s)] + g[s \ {FirstOf(s)}]
      BY <2>1 DEF IsTotal
    <3> QED BY <3>1, <3>2
  <2>4. ASSUME NEW s \in Upto(n+1), s # {} PROVE s \ {FirstOf(s)} \in Upto(n)
    BY <2>2, <2>4, WithoutFirst
  <2>5. ASSUME NEW s \in Upto(n+1)
        PROVE  r[s] = IF s = {} THEN 0 ELSE f[FirstOf(s)] + r[s \ {FirstOf(s)}]
    <3>1. r[s] = IF s = {} THEN 0 ELSE f[FirstOf(s)] + g[s \ {FirstOf(s)}]
      OBVIOUS
    <3>2. s # {} => r[s \ {FirstOf(s)}] = g[s \ {FirstOf(s)}]
      BY <2>3, <2>4
    <3> HIDE DEF r
    <3> QED BY <3>1, <3>2
  <2>6. IsTotal(r, f, n+1)
    <3>1. r = [s \in Upto(n+1) |-> r[s]]
      OBVIOUS
    <3> HIDE DEF r
    <3> QED BY <2>5, <3>1 DEF IsTotal
  <2> QED BY <2>2, <2>6
<1>3. E = Nat
  <2> HIDE DEF E
  <2>1. E \in SUBSET Nat
    BY DEF E
  <2> QED BY <2>1, <1>1, <1>2, NatSetInduction
<1> QED BY <1>3

(* The total of f is the sum over the set of all methods. *)
LEMMA TotalDef ==
  ASSUME NEW f
  PROVE  \E g : /\ TotalOver(f) = g[Methods]
                /\ g = [s \in SUBSET Methods |->
                          IF s = {} THEN 0 ELSE f[FirstOf(s)] + g[s \ {FirstOf(s)}]]
<1> DEFINE Sums(g) == g = [s \in SUBSET Methods |->
                             IF s = {} THEN 0 ELSE f[FirstOf(s)] + g[s \ {FirstOf(s)}]]
<1>1. \E g : Sums(g)
  <2>1. PICK g : IsTotal(g, f, Cardinality(Methods))
    BY TotalExists, CaixaAssumption, FS_CardinalityType
  <2>2. {t \in SUBSET Methods : Cardinality(t) <= Cardinality(Methods)} = SUBSET Methods
    BY CaixaAssumption, FS_Subset
  <2>3. Sums(g)
    BY <2>1, <2>2 DEF IsTotal
  <2> QED BY <2>3
<1>2. TotalOver(f) = (CHOOSE g : Sums(g))[Methods]
  BY DEF TotalOver, MapThenSumSet, MapThenFoldSet, FirstOf
<1> HIDE DEF Sums
<1>3. Sums(CHOOSE g : Sums(g))
  BY <1>1
<1> QED BY <1>2, <1>3 DEF Sums

(* A total of differences is the difference of the totals. *)
LEMMA TotalOfDifference ==
  ASSUME NEW a \in [Methods -> Int], NEW b \in [Methods -> Int], NEW d,
         \A m \in Methods : d[m] = a[m] - b[m]
  PROVE  /\ TotalOver(a) \in Int /\ TotalOver(b) \in Int
         /\ TotalOver(d) = TotalOver(a) - TotalOver(b)
<1> DEFINE Sums(g, f) ==
             g = [s \in SUBSET Methods |->
                    IF s = {} THEN 0 ELSE f[FirstOf(s)] + g[s \ {FirstOf(s)}]]
<1>1. PICK ga : TotalOver(a) = ga[Methods] /\ Sums(ga, a)
  BY TotalDef
<1>2. PICK gb : TotalOver(b) = gb[Methods] /\ Sums(gb, b)
  BY TotalDef
<1>3. PICK gd : TotalOver(d) = gd[Methods] /\ Sums(gd, d)
  BY TotalDef
<1> DEFINE Holds(s) == ga[s] \in Int /\ gb[s] \in Int /\ gd[s] = ga[s] - gb[s]
           E == {n \in Nat : \A s \in SUBSET Methods : Cardinality(s) = n => Holds(s)}
<1>4. Holds({})
  BY <1>1, <1>2, <1>3
<1>5. 0 \in E
  <2> HIDE DEF Holds
  <2> QED BY <1>4, WithoutFirst
<1>6. ASSUME NEW n \in E PROVE n+1 \in E
  <2> SUFFICES ASSUME NEW s \in SUBSET Methods, Cardinality(s) = n+1 PROVE Holds(s)
    OBVIOUS
  <2> DEFINE m == FirstOf(s)
             t == s \ {m}
  <2>1. s # {}
    BY SizeOf
  <2>2. m \in Methods /\ t \in SUBSET Methods /\ Cardinality(t) = n
    BY <2>1, WithoutFirst
  <2>3. Holds(t)
    <3> HIDE DEF Holds, t
    <3> QED BY <2>2
  <2>4. ga[s] = a[m] + ga[t] /\ gb[s] = b[m] + gb[t] /\ gd[s] = d[m] + gd[t]
    BY <1>1, <1>2, <1>3, <2>1
  <2>5. a[m] \in Int /\ b[m] \in Int /\ d[m] = a[m] - b[m]
    BY <2>2
  <2> HIDE DEF m, t
  <2> QED BY <2>3, <2>4, <2>5
<1>7. E = Nat
  <2> HIDE DEF E
  <2>1. E \in SUBSET Nat
    BY DEF E
  <2> QED BY <2>1, <1>5, <1>6, NatSetInduction
<1>8. Holds(Methods)
  BY <1>7, CaixaAssumption, FS_CardinalityType
<1> QED BY <1>1, <1>2, <1>3, <1>8

(* A balance is an integer of cents. *)
LEMMA ExpectedIsInt ==
  ASSUME NEW session \in CaixaRecord, NEW m \in Methods
  PROVE  Expected(session, m) \in Int
<1> DEFINE f == AmountsOf(session.movements, m)
<1>1. /\ session.movements \in Seq(Movement) /\ Len(session.movements) \in Nat
      /\ DOMAIN session.movements = 1..Len(session.movements)
  BY SessionFields
<1>2. ASSUME NEW i \in 1..Len(session.movements) PROVE f[i] \in Int
  BY <1>1, MovementFields DEF AmountsOf
<1>3. SumTo(f, Len(session.movements)) \in Int
  <2> HIDE DEF f
  <2> QED BY <1>1, <1>2, SumIsIn
<1>4. (IF m = "DINHEIRO" THEN session.fund ELSE 0) \in Int
  BY SessionFields
<1> QED BY <1>3, <1>4 DEF Expected

\* The part of TotalDivergenceIsJustified that is about one session.
CountedToTheCent(session) ==
  session.status = "FECHADO" /\ ~session.closure.justified =>
    TotalOver(session.closure.counted)
      = TotalOver([m \in Methods |-> Expected(session, m)])

(* What closes without a justification has divergences that sum to zero, so     *)
(* what was counted and what was expected have the same total.                 *)
LEMMA ClosedIsCounted ==
  ASSUME CaixaTypeOK, NEW t, NEW k, NEW counted \in [Methods -> Counts],
         NEW justified \in BOOLEAN, CloseCashSession(t, k, counted, justified)
  PROVE  CountedToTheCent(Closed(k, counted, justified))
<1> DEFINE new == Closed(k, counted, justified)
           closure == [counted |-> counted, justified |-> justified]
           expected == [m \in Methods |-> Expected(caixas[k], m)]
<1>1. /\ caixas[k] \in CaixaRecord
      /\ new.movements = caixas[k].movements /\ new.fund = caixas[k].fund
  BY ClosedEffect
<1>2. new.closure = closure
  <2> HIDE DEF closure
  <2> QED BY <1>1 DEF Closed, CaixaRecord, closure
<1>3. [m \in Methods |-> Expected(new, m)] = expected
  BY <1>1, ExpectedSame
<1>4. counted \in [Methods -> Int] /\ expected \in [Methods -> Int]
  <2>1. Counts \subseteq Nat
    BY CaixaAssumption
  <2>2. \A m \in Methods : Expected(caixas[k], m) \in Int
    BY <1>1, ExpectedIsInt
  <2>3. counted \in [Methods -> Int]
    <3>1. \A x \in Counts : x \in Int
      BY <2>1
    <3> QED BY <3>1
  <2>4. expected \in [Methods -> Int]
    BY <2>2
  <2> QED BY <2>3, <2>4
<1>5. \A m \in Methods : Divergence(caixas[k], counted)[m] = counted[m] - expected[m]
  BY DEF Divergence
<1> HIDE DEF expected
<1>6. /\ TotalOver(counted) \in Int /\ TotalOver(expected) \in Int
      /\ TotalOver(Divergence(caixas[k], counted)) = TotalOver(counted) - TotalOver(expected)
  BY <1>4, <1>5, TotalOfDifference
<1>7. TotalOver(Divergence(caixas[k], counted)) # 0 => justified
  BY DEF CloseCashSession
<1>8. ~justified => TotalOver(counted) = TotalOver(expected)
  BY <1>6, <1>7
<1>9. new.closure.counted = counted /\ new.closure.justified = justified
  BY <1>2
<1>10. CountedToTheCent(new)
  <2> HIDE DEF new
  <2> QED BY <1>3, <1>8, <1>9 DEF CountedToTheCent
<1> QED BY <1>10

(* No other step closes a session, and a closed one stays as it is. *)
LEMMA JustifiedStep ==
  ASSUME CaixaTypeOK, TotalDivergenceIsJustified, [CaixaNext]_caixas
  PROVE  TotalDivergenceIsJustified'
<1>1. \A j \in DOMAIN caixas : CountedToTheCent(caixas[j])
  BY DEF TotalDivergenceIsJustified, CountedToTheCent
<1>2. SUFFICES \A j \in DOMAIN caixas' : CountedToTheCent(caixas'[j])
  BY DEF TotalDivergenceIsJustified, CountedToTheCent
<1>3. \A session : session.status # "FECHADO" => CountedToTheCent(session)
  BY DEF CountedToTheCent
<1>4. ASSUME NEW k \in DOMAIN caixas, NEW new \in CaixaRecord,
             caixas' = [caixas EXCEPT ![k] = new], CountedToTheCent(new)
      PROVE  \A j \in DOMAIN caixas' : CountedToTheCent(caixas'[j])
  BY <1>1, <1>4, SessionRewritten
<1>5. ASSUME NEW k \in DOMAIN caixas, MovementStep(k)
      PROVE  \A j \in DOMAIN caixas' : CountedToTheCent(caixas'[j])
  <2>1. PICK mv \in Movement : AppendMovement(k, mv)
    BY <1>5 DEF MovementStep
  <2>2. Moved(k, mv).status # "FECHADO"
    BY <2>1, MovementEffect
  <2> QED BY <1>3, <1>4, <2>1, <2>2, MovementEffect
<1>6. ASSUME NEW t \in Terminals, NEW k \in DOMAIN caixas, NEW pending \in {0, 1},
             StartCashClosure(t, k, pending)
      PROVE  \A j \in DOMAIN caixas' : CountedToTheCent(caixas'[j])
  <2>1. Closing(k).status # "FECHADO"
    BY <1>6, ClosingEffect
  <2> QED BY <1>3, <1>4, <1>6, <2>1, ClosingEffect
<1>7. ASSUME NEW t \in Terminals, NEW k \in DOMAIN caixas,
             NEW counted \in [Methods -> Counts], NEW justified \in BOOLEAN,
             CloseCashSession(t, k, counted, justified)
      PROVE  \A j \in DOMAIN caixas' : CountedToTheCent(caixas'[j])
  <2> DEFINE new == Closed(k, counted, justified)
  <2>1. new \in CaixaRecord /\ caixas' = [caixas EXCEPT ![k] = new]
    BY <1>7, ClosedEffect
  <2>2. CountedToTheCent(new)
    BY <1>7, ClosedIsCounted
  <2> HIDE DEF new
  <2> QED BY <1>4, <2>1, <2>2
<1>8. ASSUME NEW t \in Terminals, NEW fund \in Funds, OpenCashSession(t, fund)
      PROVE  \A j \in DOMAIN caixas' : CountedToTheCent(caixas'[j])
  <2>1. /\ DOMAIN caixas = 1..Len(caixas) /\ DOMAIN caixas' = 1..Len(caixas)+1
        /\ Len(caixas) \in Nat
        /\ caixas'[Len(caixas)+1] = Opened(t, fund)
        /\ \A j \in DOMAIN caixas : caixas'[j] = caixas[j]
    BY <1>8, OpenEffect
  <2>2. CountedToTheCent(Opened(t, fund))
    BY <1>3 DEF Opened
  <2>3. \A j \in DOMAIN caixas' : j \in DOMAIN caixas \/ j = Len(caixas)+1
    BY <2>1
  <2> QED BY <1>1, <2>1, <2>2, <2>3
<1>9. CASE UNCHANGED caixas
  BY <1>1, <1>9
<1> QED BY <1>5, <1>6, <1>7, <1>8, <1>9, StepCases

(* A session closed without a justification was counted to the cent in total,   *)
(* for any set of methods: the sum of the divergences that the code tests is    *)
(* the difference of the totals.                                               *)
THEOREM TotalIsJustified == CaixaSpec => []TotalDivergenceIsJustified
<1>1. CaixaInit => TotalDivergenceIsJustified
  BY DEF CaixaInit, TotalDivergenceIsJustified
<1>2. CaixaTypeOK /\ TotalDivergenceIsJustified /\ [CaixaNext]_caixas
      => TotalDivergenceIsJustified'
  BY JustifiedStep
<1> QED BY <1>1, <1>2, CaixaTypeCorrect, PTL DEF CaixaSpec
=============================================================================
