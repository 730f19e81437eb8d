------------------------------- MODULE Caixa -------------------------------
(***************************************************************************)
(* The cash sessions (caixa) of the terminals: opening with a fund,         *)
(* receipts, supplies and withdrawals, and the two steps of the closure.    *)
(*                                                                         *)
(* `caixas' is the persisted table (cash_sessions and cash_movements) in    *)
(* the order of opening: session k is the k-th one ever opened.  As for     *)
(* comandas, a service call loads, changes and saves one aggregate in one   *)
(* transaction, so it is one atomic step.                                   *)
(*                                                                         *)
(* Reasons and notes are abstracted to whether one was given.               *)
(***************************************************************************)
EXTENDS Integers, Sequences, FiniteSets, FiniteSetsExt, Somas, Pagamentos

CONSTANTS
  Terminals,      \* terminals with a cash session
  Funds,          \* opening funds
  Amounts,        \* amounts of the movements
  Counts,         \* amounts the operator may count at the closure
  Sources,        \* comandas a receipt may refer to
  NoSource,       \* a receipt registered by hand
  MaxCaixas,      \* bound: sessions ever opened
  MaxMovements    \* bound: movements of one session

ASSUME CaixaAssumption ==
  /\ IsFiniteSet(Methods)
  /\ Funds \subseteq Nat
  /\ Amounts \subseteq Nat \ {0}
  /\ Counts \subseteq Nat
  /\ NoSource \notin Sources
  /\ {MaxCaixas, MaxMovements} \subseteq Nat

VARIABLE caixas

-----------------------------------------------------------------------------
(* Types and derived state *)

Movement ==
  [type: {"RECEBIMENTO", "SUPRIMENTO", "SANGRIA"}, method: Methods,
   amount: Amounts, source: Sources \cup {NoSource}]

\* The counted amounts and the justification, once the session is closed.
NoClosure == [counted |-> [m \in Methods |-> 0], justified |-> FALSE]

CaixaRecord ==
  [terminal: Terminals,
   status: {"ABERTO", "FECHAMENTO", "FECHADO"},
   fund: Funds,
   movements: Seq(Movement),
   closure: [counted: [Methods -> Nat], justified: BOOLEAN]]

SignedAmount(mv) == IF mv.type = "SANGRIA" THEN -mv.amount ELSE mv.amount

AmountsOf(movements, m) ==
  [j \in DOMAIN movements |->
     IF movements[j].method = m THEN SignedAmount(movements[j]) ELSE 0]

\* calculateCashSessionTotals: what the drawer should hold of method m.
Expected(session, m) ==
  (IF m = "DINHEIRO" THEN session.fund ELSE 0)
    + SumTo(AmountsOf(session.movements, m), Len(session.movements))

Divergence(session, counted) ==
  [m \in Methods |-> counted[m] - Expected(session, m)]

TotalOver(f) == MapThenSumSet(LAMBDA m : f[m], Methods)

\* findActiveByTerminalId: the latest session of t that is not FECHADO.
IsActiveCaixa(t, k) ==
  /\ k \in DOMAIN caixas
  /\ caixas[k].terminal = t
  /\ caixas[k].status # "FECHADO"
  /\ \A j \in k+1..Len(caixas) :
       caixas[j].terminal = t => caixas[j].status = "FECHADO"

\* Mutation: a session being closed no longer counts as the terminal's session.
HasActiveCaixaMutant(t) ==
  \E k \in DOMAIN caixas : IsActiveCaixa(t, k) /\ caixas[k].status = "ABERTO"

HasActiveCaixa(t) == \E k \in DOMAIN caixas : IsActiveCaixa(t, k)

-----------------------------------------------------------------------------
(* Operations *)

\* While the terminal has a session that is not closed, even one already in
\* FECHAMENTO, opening returns that session and changes nothing.
OpenCashSession(t, fund) ==
  /\ ~HasActiveCaixa(t)
  /\ Len(caixas) < MaxCaixas
  /\ caixas' = Append(caixas,
       [terminal |-> t, status |-> "ABERTO", fund |-> fund,
        movements |-> <<>>, closure |-> NoClosure])

\* Mutation: movements are refused only once the session is closed.
AppendMovementMutant(k, mv) ==
  /\ caixas[k].status # "FECHADO"
  /\ Len(caixas[k].movements) < MaxMovements
  /\ caixas' = [caixas EXCEPT ![k].movements = Append(@, mv)]

\* appendMovement, behind assertCashIsOpen.
AppendMovement(k, mv) ==
  /\ caixas[k].status = "ABERTO"
  /\ Len(caixas[k].movements) < MaxMovements
  /\ caixas' = [caixas EXCEPT ![k].movements = Append(@, mv)]

ReceiveCashPayment(t, k, m, amount, source) ==
  /\ IsActiveCaixa(t, k)
  /\ AppendMovement(k, [type |-> "RECEBIMENTO", method |-> m,
                        amount |-> amount, source |-> source])

RegisterCashSupply(t, k, amount) ==
  /\ IsActiveCaixa(t, k)
  /\ AppendMovement(k, [type |-> "SUPRIMENTO", method |-> "DINHEIRO",
                        amount |-> amount, source |-> NoSource])

\* Mutation: the withdrawal is checked against the total of all methods.
RegisterCashWithdrawalMutant(t, k, amount) ==
  /\ IsActiveCaixa(t, k)
  /\ amount <= TotalOver([m \in Methods |-> Expected(caixas[k], m)])
  /\ AppendMovement(k, [type |-> "SANGRIA", method |-> "DINHEIRO",
                        amount |-> amount, source |-> NoSource])

\* Mutation: the withdrawal is stored with its sign.
RegisterCashWithdrawalSigned(t, k, amount) ==
  /\ IsActiveCaixa(t, k)
  /\ amount <= Expected(caixas[k], "DINHEIRO")
  /\ AppendMovement(k, [type |-> "SANGRIA", method |-> "DINHEIRO",
                        amount |-> -amount, source |-> NoSource])

RegisterCashWithdrawal(t, k, amount) ==
  /\ IsActiveCaixa(t, k)
  /\ amount <= Expected(caixas[k], "DINHEIRO")
  /\ AppendMovement(k, [type |-> "SANGRIA", method |-> "DINHEIRO",
                        amount |-> amount, source |-> NoSource])

\* `pending' is the number of comandas EM_PAGAMENTO on the whole database.
StartCashClosure(t, k, pending) ==
  /\ IsActiveCaixa(t, k)
  /\ caixas[k].status = "ABERTO"
  /\ pending = 0
  /\ caixas' = [caixas EXCEPT ![k].status = "FECHAMENTO"]

\* Mutation: only a missing drawer (counted below expected) is justified.
CloseCashSessionMutant(t, k, counted, justified) ==
  /\ IsActiveCaixa(t, k)
  /\ caixas[k].status = "FECHAMENTO"
  /\ TotalOver(Divergence(caixas[k], counted)) < 0 => justified
  /\ caixas' = [caixas EXCEPT
       ![k].status = "FECHADO",
       ![k].closure = [counted |-> counted, justified |-> justified]]

\* A method that was not counted counts as zero.  The justification is asked
\* for when the divergences do not sum up to zero.
CloseCashSession(t, k, counted, justified) ==
  /\ IsActiveCaixa(t, k)
  /\ caixas[k].status = "FECHAMENTO"
  /\ TotalOver(Divergence(caixas[k], counted)) # 0 => justified
  /\ caixas' = [caixas EXCEPT
       ![k].status = "FECHADO",
       ![k].closure = [counted |-> counted, justified |-> justified]]

-----------------------------------------------------------------------------
CaixaInit == caixas = <<>>

CaixaNext ==
  \E t \in Terminals :
    \/ \E fund \in Funds : OpenCashSession(t, fund)
    \/ \E k \in DOMAIN caixas :
         \/ \E m \in Methods, amount \in Amounts, source \in Sources \cup {NoSource} :
              ReceiveCashPayment(t, k, m, amount, source)
         \/ \E amount \in Amounts : RegisterCashSupply(t, k, amount)
         \/ \E amount \in Amounts : RegisterCashWithdrawal(t, k, amount)
         \/ \E pending \in {0, 1} : StartCashClosure(t, k, pending)
         \/ \E counted \in [Methods -> Counts], justified \in BOOLEAN :
              CloseCashSession(t, k, counted, justified)

CaixaSpec == CaixaInit /\ [][CaixaNext]_caixas

-----------------------------------------------------------------------------
(* Properties *)

\* The table holds what the schema of migration 0004 allows.
CaixaTypeOK == caixas \in Seq(CaixaRecord)

\* A terminal never has two sessions that are not closed, although the schema
\* has no UNIQUE index on the terminal of a session that is not FECHADO.
OneActiveCaixa ==
  \A j, k \in DOMAIN caixas :
    caixas[j].terminal = caixas[k].terminal
      /\ caixas[j].status # "FECHADO" /\ caixas[k].status # "FECHADO" => j = k

\* No sequence of receipts, supplies and withdrawals takes out of the drawer
\* more cash than was put in.
CashNeverNegative ==
  \A k \in DOMAIN caixas :
    \A m \in Methods : Expected(caixas[k], m) >= 0

\* A session closed without a justification was counted to the cent in total.
TotalDivergenceIsJustified ==
  \A k \in DOMAIN caixas :
    caixas[k].status = "FECHADO" /\ ~caixas[k].closure.justified =>
      TotalOver(caixas[k].closure.counted)
        = TotalOver([m \in Methods |-> Expected(caixas[k], m)])

\* A session only moves from ABERTO to FECHAMENTO to FECHADO, receives movements
\* only while ABERTO, loses none, and never changes once FECHADO.
SessionIsKept(old, new) ==
  /\ new.terminal = old.terminal /\ new.fund = old.fund
  /\ Len(old.movements) <= Len(new.movements)
  /\ \A j \in DOMAIN old.movements : new.movements[j] = old.movements[j]
  /\ old.status # "ABERTO" => new.movements = old.movements
  /\ old.status = "FECHAMENTO" => new.status # "ABERTO"
  /\ old.status = "FECHADO" => new = old

\* The ledger is append-only, although each call saves the whole session again.
LedgerIsKept ==
  [][\A k \in DOMAIN caixas :
       k \in DOMAIN caixas' /\ SessionIsKept(caixas[k], caixas'[k])]_caixas
=============================================================================
