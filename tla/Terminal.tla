------------------------------ MODULE Terminal ------------------------------
(***************************************************************************)
(* The desktop terminal: the shell (PdvShellController and its reducer) in  *)
(* the renderer, the IPC calls it makes, and the main process that answers   *)
(* them while waiters' phones call the same services over HTTP.             *)
(*                                                                         *)
(* Every handler the shell calls is synchronous, so the main process        *)
(* handles the calls, and the shell receives the answers, in the order the   *)
(* calls were made: `canal' holds the calls in flight.  A press captures     *)
(* what it sends when it is made and goes on when its answer arrives; in     *)
(* between the operator may press anything else.  An answer carries what     *)
(* the services read at the end of the call, not what they read later.      *)
(*                                                                         *)
(* The typed drafts other than the team form's, the view that is shown       *)
(* (a view is one click away for the roles that have it), focus, feedback    *)
(* and amounts are left out.                                                *)
(***************************************************************************)
EXTENDS Operadores, Sequences

CONSTANTS
  NumComandas,    \* bound: comandas; their ids are in the order of opening
  Numeros,        \* numbers of the comandas
  MaxItens,       \* bound: items of one comanda
  MaxMovimentos,  \* bound: movements of the cash session
  MaxProdutos,    \* bound: products
  MaxCanal,       \* bound: calls in flight when a button is pressed
  MaxAtos,        \* bound: presses, requests of the phones and restarts
  Inicios         \* rows an earlier day may have left

ASSUME TerminalAssumption ==
  {NumComandas, MaxItens, MaxMovimentos, MaxProdutos, MaxCanal, MaxAtos} \subseteq Nat

VARIABLES
  base,       \* the rows that the screen shows
  canal,      \* calls in flight, oldest first
  tela,       \* the shell's state
  calado,     \* history: parts changed since an answer last carried them
  atos        \* presses, requests of the phones and restarts so far

Comandas == 1..NumComandas

terminalVars == <<operadoresVars, base, canal, tela, calado, atos>>

-----------------------------------------------------------------------------
(* The rows *)

Ativas == {"ABERTA", "EM_PRODUCAO", "EM_PAGAMENTO"}

\* Items launched and sent; an item that is cancelled goes.
Comanda ==
  [status: Ativas, numero: Numeros, lancados: 0..MaxItens, enviados: 0..MaxItens,
   encaminhada: BOOLEAN]

NaoAberta == [status |-> "INEXISTENTE"]

Encerrada == [status |-> "ENCERRADA"]

CaixaStatus == {"ABERTO", "FECHAMENTO", "NENHUM"}

\* The sum of a session that is closed is not shown again.
SemCaixa == [status |-> "NENHUM", movimentos |-> 0]

Base ==
  [comandas: [Comandas -> Comanda \cup {NaoAberta, Encerrada}],
   caixa: [status: CaixaStatus, movimentos: 0..MaxMovimentos],
   completa: BOOLEAN, produtos: 0..MaxProdutos]

IsActive(c) == base.comandas[c].status \in Ativas

Partes == {"comandas", "caixa", "sessao", "equipe", "instalacao", "catalogo"}

\* What each part of an answer shows of the rows.
Foto ==
  [comandas |-> [c \in Comandas |-> IF IsActive(c) THEN base.comandas[c] ELSE NaoAberta],
   caixa |-> base.caixa,
   sessao |-> terminal,
   equipe |-> [o \in OpIds |-> IF operadores[o].ativo THEN operadores[o].papel ELSE "INATIVO"],
   instalacao |-> base.completa,
   catalogo |-> base.produtos]

\* The parts of the answer to each call.  A workspace whose session is closed
\* shows that session; it is shown as none here.
PartesDe(fn) ==
  CASE fn = "start" -> Partes
    [] fn \in {"login", "logout"} -> {"sessao"}
    [] fn = "confirmComandaPayment" -> {"comandas", "caixa"}
    [] fn \in {"openCashSession", "registerCash", "startCashClosure", "closeCashSession",
               "exportCashAudit"} -> {"caixa"}
    [] fn \in {"listOperators", "listOperatorsLeft"} -> {"equipe"}
    [] fn = "listPrintPrinters" -> {"instalacao"}
    [] fn \in {"saveOperator", "deactivateOperator", "completeFirstRun",
               "upsertCatalogProduct", "sendFirst"} -> {}
    [] OTHER -> {"comandas"}

-----------------------------------------------------------------------------
(* The shell's state *)

\* The form of a new operator is nobody's.
Novo == "novo"

\* `pinDe' is the one the PIN was typed for.
Form ==
  [para: OpIds \cup {Novo}, papel: Role, pin: Pins \cup {SemPin},
   pinDe: OpIds \cup {Novo}]

\* What an earlier day leaves: rows of their types; no operator has the id of the
\* empty form.
ASSUME InicioAssumption ==
  /\ Novo \notin OpIds
  /\ Inicios \subseteq [operadores: [OpIds -> Operador \cup {SemRegistro}],
                        terminal: OpIds \cup {SemOp}, base: Base]

FormNovo == [para |-> Novo, papel |-> "GARCOM", pin |-> SemPin, pinDe |-> Novo]

FormDe(o, papel) == [para |-> o, papel |-> papel, pin |-> SemPin, pinDe |-> o]

\* Until start() is answered the shell knows of no session and asks for no
\* installation.
CreateInitialShellState ==
  [comandas |-> [c \in Comandas |-> NaoAberta], caixa |-> SemCaixa, sessao |-> SemOp,
   equipe |-> [o \in OpIds |-> "INATIVO"], instalacao |-> TRUE, catalogo |-> 0,
   pronta |-> FALSE, papel |-> "GARCOM", validando |-> FALSE, selecionada |-> 0,
   instalando |-> FALSE, form |-> FormNovo, salvando |-> FALSE]

\* A call, and its answer once the main process has handled it.
Pedido ==
  [fn |-> "start", comanda |-> 0, numero |-> 0, item |-> "lancados", form |-> FormNovo,
   papel |-> "GARCOM", res |-> "pendente", foto |-> <<>>]

\* MAIN_NAVIGATION: the views each role may open.
CanAccessView(papel, vista) ==
  CASE vista \in {"mesas", "producao"} -> papel \in {"GARCOM", "GERENTE"}
    [] vista \in {"checkout", "caixa"} -> papel \in {"CAIXA", "GERENTE"}
    [] vista = "equipe" -> papel = "GERENTE"
    [] OTHER -> TRUE

WorkspaceVisible == tela.instalacao /\ tela.sessao # SemOp

Ve(vista) == WorkspaceVisible /\ CanAccessView(tela.papel, vista)

\* The comanda whose buttons the views offer: it is null when the selected one
\* has left the list.
SelectedComanda ==
  IF tela.selecionada = 0 THEN NaoAberta ELSE tela.comandas[tela.selecionada]

EmFoco(estados) == SelectedComanda.status \in estados

-----------------------------------------------------------------------------
(* What the views offer *)

\* Until the first run is completed there is its form, and then the PIN pad.
FirstRunWizard == ~tela.instalacao

Auth == tela.instalacao /\ tela.sessao = SemOp

CatalogoView == Ve("catalogo")

ComandasView == Ve("comandas")

ProductQuickList == IF Ve("comandas") THEN tela.catalogo ELSE 0

\* The items of the comanda in focus, each of which may be chosen and cancelled.
PedidoItens(item) ==
  IF Ve("comandas") /\ EmFoco(Ativas) THEN SelectedComanda[item] ELSE 0

AtivasNaTela == {c \in Comandas : tela.comandas[c] # NaoAberta}

MesasView == IF Ve("mesas") THEN AtivasNaTela ELSE {}

\* The list of the pre-conta and of the checkout.
ComandaFocusPanel == IF Ve("preconta") THEN AtivasNaTela ELSE {}

\* Forwarding and reopening are offered for a comanda in payment.
PreContaView == Ve("preconta") /\ EmFoco({"EM_PAGAMENTO"})

CheckoutView == Ve("checkout") /\ EmFoco(Ativas)

\* The forms of the cash view follow the session it shows.
CaixaView(status) == Ve("caixa") /\ tela.caixa.status = status

CaixaClosure == Ve("caixa") /\ tela.caixa.status # "NENHUM"

EquipeView == Ve("equipe")

-----------------------------------------------------------------------------
(* Presses: local ones, and those that make a call *)

Age == atos < MaxAtos /\ atos' = atos + 1

Toca ==
  /\ Age
  /\ UNCHANGED <<operadoresVars, base, calado>>

Pede(pedido, depois) ==
  /\ Toca
  /\ Len(canal) < MaxCanal
  /\ canal' = Append(canal, pedido)
  /\ tela' = depois

PedeComanda(fn) ==
  Pede([Pedido EXCEPT !.fn = fn, !.comanda = tela.selecionada], tela)

PedeCaixa(fn) == Pede([Pedido EXCEPT !.fn = fn], tela)

SubmitPin(p) ==
  /\ Auth
  /\ ~tela.validando
  /\ Pede([Pedido EXCEPT !.fn = "login", !.form.pin = p], [tela EXCEPT !.validando = TRUE])

Logout == WorkspaceVisible /\ Pede([Pedido EXCEPT !.fn = "logout"], tela)

CompleteFirstRun ==
  /\ FirstRunWizard
  /\ ~tela.instalando
  /\ Pede([Pedido EXCEPT !.fn = "completeFirstRun"], [tela EXCEPT !.instalando = TRUE])

SaveCatalogProduct ==
  CatalogoView /\ Pede([Pedido EXCEPT !.fn = "upsertCatalogProduct"], tela)

OpenComandaFromDraft(n) ==
  ComandasView /\ Pede([Pedido EXCEPT !.fn = "openComanda", !.numero = n], tela)

SelectMesaComanda(c) ==
  /\ c \in MesasView \cup ComandaFocusPanel
  /\ Pede([Pedido EXCEPT !.fn = "getComandaWorkspace", !.comanda = c], tela)

AddProductToCurrentComanda ==
  ProductQuickList > 0 /\ EmFoco(Ativas) /\ PedeComanda("addComandaItem")

CancelSelectedItem(item) ==
  /\ PedidoItens(item) > 0
  /\ Pede([Pedido EXCEPT !.fn = "cancelComandaItem", !.comanda = tela.selecionada,
                         !.item = item], tela)

SendCurrentComandaToProduction ==
  ComandasView /\ EmFoco(Ativas) /\ PedeComanda("sendComandaToProduction")

\* An open comanda is sent first, and only then is its bill asked for.
GeneratePreConta ==
  /\ Ve("preconta")
  /\ \/ EmFoco(Ativas \ {"ABERTA"}) /\ PedeComanda("startComandaCheckout")
     \/ EmFoco({"ABERTA"}) /\ SelectedComanda.lancados > 0 /\ PedeComanda("sendFirst")

ReopenCurrentComanda ==
  PreContaView /\ PedeComanda("reopenComanda")

RequestCashCheckout ==
  PreContaView /\ PedeComanda("requestComandaCashCheckout")

CheckoutCurrentComanda ==
  /\ CheckoutView
  /\ tela.caixa.status = "ABERTO"
  /\ PedeComanda("confirmComandaPayment")

OpenCashSessionFromDraft ==
  CaixaView("NENHUM") /\ PedeCaixa("openCashSession")

\* Receipts, withdrawals and supplies add a movement each.
RegisterCashReceipt == CaixaView("ABERTO") /\ PedeCaixa("registerCash")

RegisterCashWithdrawal == CaixaView("ABERTO") /\ PedeCaixa("registerCash")

RegisterCashSupply == CaixaView("ABERTO") /\ PedeCaixa("registerCash")

StartCashClosureFlow == CaixaView("ABERTO") /\ PedeCaixa("startCashClosure")

CloseCashSessionFromDraft ==
  CaixaClosure /\ PedeCaixa("closeCashSession")

ExportCashAuditBundle == Ve("caixa") /\ PedeCaixa("exportCashAudit")

TrocaForm(form) ==
  EquipeView /\ Toca /\ tela' = [tela EXCEPT !.form = form] /\ UNCHANGED canal

SelectTeamOperator(o) ==
  tela.equipe[o] # "INATIVO" /\ TrocaForm(FormDe(o, tela.equipe[o]))

OpenTeamNewOperatorForm == TrocaForm(FormNovo)

UpdateTeamPinDraft(p) ==
  TrocaForm([tela.form EXCEPT !.pin = p, !.pinDe = tela.form.para])

UpdateTeamRoleDraft(papel) == TrocaForm([tela.form EXCEPT !.papel = papel])

\* Bound: a new operator needs an id that was never used.
SaveTeamOperator ==
  /\ EquipeView
  /\ ~tela.salvando
  /\ tela.form.para = Novo => \E o \in OpIds : ~Existe(o)
  /\ Pede([Pedido EXCEPT !.fn = "saveOperator", !.form = tela.form],
          [tela EXCEPT !.salvando = TRUE])

DeactivateTeamOperator(o) ==
  /\ EquipeView
  /\ tela.form.para = o
  /\ tela.equipe[o] # "INATIVO"
  /\ Pede([Pedido EXCEPT !.fn = "deactivateOperator",
                         !.form = FormDe(o, tela.equipe[o])], tela)

\* What a press or a key of some view does.  No view offers
\* saveBrandLogoConfiguration, and nothing calls loadTeamOperators.
Toque ==
  \/ \E p \in Pins : SubmitPin(p) \/ UpdateTeamPinDraft(p)
  \/ Logout
  \/ CompleteFirstRun
  \/ SaveCatalogProduct
  \/ \E n \in Numeros : OpenComandaFromDraft(n)
  \/ \E c \in Comandas : SelectMesaComanda(c)
  \/ AddProductToCurrentComanda
  \/ \E item \in {"lancados", "enviados"} : CancelSelectedItem(item)
  \/ SendCurrentComandaToProduction
  \/ GeneratePreConta
  \/ ReopenCurrentComanda
  \/ RequestCashCheckout
  \/ CheckoutCurrentComanda
  \/ OpenCashSessionFromDraft
  \/ RegisterCashReceipt
  \/ RegisterCashWithdrawal
  \/ RegisterCashSupply
  \/ StartCashClosureFlow
  \/ CloseCashSessionFromDraft
  \/ ExportCashAuditBundle
  \/ \E o \in OpIds : SelectTeamOperator(o) \/ DeactivateTeamOperator(o)
  \/ OpenTeamNewOperatorForm
  \/ \E papel \in Role : UpdateTeamRoleDraft(papel)
  \/ SaveTeamOperator

-----------------------------------------------------------------------------
(* The main process: one call at a time, each from beginning to end *)

TrocaComanda(c, nova) ==
  /\ base' = [base EXCEPT !.comandas[c] = nova]
  /\ UNCHANGED operadoresVars

MudaCaixa(status, mais) ==
  /\ base' = [base EXCEPT !.caixa = [status |-> status, movimentos |-> @.movimentos + mais]]
  /\ UNCHANGED operadoresVars

SoLe == UNCHANGED <<operadoresVars, base>>

\* The active comanda of that number, or a new one.
OpenComanda(n, c) ==
  LET ativas == {d \in Comandas : IsActive(d) /\ base.comandas[d].numero = n}
      livres == {d \in Comandas : base.comandas[d] = NaoAberta}
  IN \/ c \in ativas /\ SoLe
     \/ /\ ativas = {}
        /\ c \in livres
        /\ \A d \in livres : c <= d
        /\ TrocaComanda(c, [status |-> "ABERTA", numero |-> n, lancados |-> 0,
                            enviados |-> 0, encaminhada |-> FALSE])

AddComandaItem(c) ==
  LET m == base.comandas[c]
  IN /\ m.status \in {"ABERTA", "EM_PRODUCAO"}
     /\ m.lancados < MaxItens
     /\ TrocaComanda(c, [m EXCEPT !.lancados = @ + 1])

CancelComandaItem(c, item) ==
  LET m == base.comandas[c]
  IN /\ m.status \in {"ABERTA", "EM_PRODUCAO"}
     /\ m[item] > 0
     /\ TrocaComanda(c, [m EXCEPT ![item] = @ - 1])

SendComandaToProduction(c) ==
  LET m == base.comandas[c]
  IN /\ m.status \in {"ABERTA", "EM_PRODUCAO"}
     /\ m.lancados > 0
     /\ m.lancados + m.enviados <= MaxItens
     /\ TrocaComanda(c, [m EXCEPT !.status = "EM_PRODUCAO", !.lancados = 0,
                                  !.enviados = @ + m.lancados])

StartComandaCheckout(c) ==
  LET m == base.comandas[c]
  IN /\ m.status = "EM_PRODUCAO"
     /\ m.lancados + m.enviados > 0
     /\ TrocaComanda(c, [m EXCEPT !.status = "EM_PAGAMENTO"])

RequestComandaCashCheckout(c) ==
  /\ base.comandas[c].status = "EM_PAGAMENTO"
  /\ TrocaComanda(c, [base.comandas[c] EXCEPT !.encaminhada = TRUE])

ReopenComanda(c) ==
  /\ base.comandas[c].status = "EM_PAGAMENTO"
  /\ TrocaComanda(c, [base.comandas[c] EXCEPT !.status = "EM_PRODUCAO"])

ConfirmComandaPayment(c) ==
  /\ base.comandas[c].status = "EM_PAGAMENTO"
  /\ base.caixa.status = "ABERTO"
  /\ base.caixa.movimentos < MaxMovimentos
  /\ base' = [base EXCEPT !.comandas[c] = Encerrada, !.caixa.movimentos = @ + 1]
  /\ UNCHANGED operadoresVars

ComandaCall(c, d) ==
  \/ c.fn = "openComanda" /\ OpenComanda(c.numero, d)
  \/ /\ d = c.comanda
     /\ \/ c.fn = "getComandaWorkspace" /\ SoLe
        \/ c.fn = "addComandaItem" /\ AddComandaItem(d)
        \/ c.fn = "cancelComandaItem" /\ CancelComandaItem(d, c.item)
        \/ c.fn \in {"sendComandaToProduction", "sendFirst"} /\ SendComandaToProduction(d)
        \/ c.fn = "startComandaCheckout" /\ StartComandaCheckout(d)
        \/ c.fn = "requestComandaCashCheckout" /\ RequestComandaCashCheckout(d)
        \/ c.fn = "reopenComanda" /\ ReopenComanda(d)
        \/ c.fn = "confirmComandaPayment" /\ ConfirmComandaPayment(d)

OpenCashSession ==
  IF base.caixa.status = "NENHUM" THEN MudaCaixa("ABERTO", 0) ELSE SoLe

RegisterCash ==
  /\ base.caixa.status = "ABERTO"
  /\ base.caixa.movimentos < MaxMovimentos
  /\ MudaCaixa("ABERTO", 1)

StartCashClosure ==
  /\ base.caixa.status = "ABERTO"
  /\ \A c \in Comandas : base.comandas[c].status # "EM_PAGAMENTO"
  /\ MudaCaixa("FECHAMENTO", 0)

CloseCashSession ==
  /\ base.caixa.status = "FECHAMENTO"
  /\ base' = [base EXCEPT !.caixa = SemCaixa]
  /\ UNCHANGED operadoresVars

CaixaCall(c) ==
  \/ c.fn = "openCashSession" /\ OpenCashSession
  \/ c.fn = "registerCash" /\ RegisterCash
  \/ c.fn = "startCashClosure" /\ StartCashClosure
  \/ c.fn = "closeCashSession" /\ CloseCashSession
  \/ c.fn = "exportCashAudit" /\ SoLe

\* completeFirstRun may be run again, and changes nothing that is shown here.
TerminalCall(c) ==
  \/ c.fn = "login" /\ Login(c.form.pin) /\ UNCHANGED base
  \/ c.fn = "logout" /\ LogoutTerminal /\ UNCHANGED base
  \/ /\ c.fn \in {"saveOperator", "deactivateOperator"}
     /\ SaveOperator(IF c.form.para = Novo THEN Novato ELSE c.form.para, c.form.pin,
                     c.form.papel, c.fn = "saveOperator")
     /\ UNCHANGED base
  \/ /\ c.fn = "completeFirstRun"
     /\ base' = [base EXCEPT !.completa = TRUE]
     /\ UNCHANGED operadoresVars
  \/ /\ c.fn = "upsertCatalogProduct"
     /\ base.produtos < MaxProdutos
     /\ base' = [base EXCEPT !.produtos = @ + 1]
     /\ UNCHANGED operadoresVars
  \/ c.fn \in {"listOperators", "listOperatorsLeft", "listPrintPrinters"} /\ SoLe

\* The eight reads of start().  Only a phone can write between them, and only what
\* one of them reads, so they are one read; the current comanda is an active one.
StartCall(c, d) ==
  /\ c.fn = "start"
  /\ SoLe
  /\ IF \E e \in Comandas : IsActive(e) THEN d \in Comandas /\ IsActive(d) ELSE d = 0

Trata(c, d) ==
  \/ d \in Comandas /\ ComandaCall(c, d)
  \/ d = 0 /\ (CaixaCall(c) \/ TerminalCall(c))
  \/ StartCall(c, d)

Mudou == {p \in Partes : Foto'[p] # Foto[p]}

\* A handler may be refused by the service, fail before it writes, or fail after
\* the write is committed: an audit event whose id is taken, a read that fails.
\* The answers of the first calls of GeneratePreConta, SaveTeamOperator,
\* DeactivateTeamOperator and CompleteFirstRun carry no part that the shell keeps.
Atende ==
  \E i \in DOMAIN canal :
    LET c == canal[i]
    IN /\ c.res = "pendente"
       /\ \A j \in 1..i - 1 : canal[j].res # "pendente"
       /\ \/ \E d \in Comandas \cup {0} :
               /\ Trata(c, d)
               /\ \/ /\ canal' = [canal EXCEPT ![i] =
                          [c EXCEPT !.res = "ok", !.comanda = d,
                                    !.papel = IF terminal' = SemOp THEN "GARCOM"
                                              ELSE operadores'[terminal'].papel,
                                    !.foto = [p \in PartesDe(c.fn) |-> Foto'[p]]]]
                     /\ calado' = (calado \cup (Mudou \ {"catalogo"})) \ PartesDe(c.fn)
                  \/ /\ Mudou # {}
                     /\ canal' = [canal EXCEPT ![i].res = "erro"]
                     /\ calado' = calado \cup Mudou
          \/ /\ canal' = [canal EXCEPT ![i].res = "erro"]
             /\ UNCHANGED <<operadoresVars, base, calado>>
          \/ /\ c.fn = "login"
             /\ FindActiveByPin(c.form.pin) = {}
             /\ canal' = [canal EXCEPT ![i].res = "recusa"]
             /\ UNCHANGED <<operadoresVars, base, calado>>
       /\ UNCHANGED <<tela, atos>>

\* A request of a phone, in the name of the operator of its session.
WaiterRequest(t) ==
  /\ Accepts(t)
  /\ Age
  /\ \E fn \in {"openComanda", "addComandaItem", "sendComandaToProduction"},
        n \in Numeros, c \in Comandas :
       Trata([Pedido EXCEPT !.fn = fn, !.numero = n, !.comanda = c], c)
  /\ calado' = calado \cup Mudou
  /\ UNCHANGED <<canal, tela>>

Telefone ==
  \E t \in Celulares :
    \/ WaiterRequest(t)
    \/ WaiterExpired(t) /\ UNCHANGED <<base, canal, tela, calado, atos>>
    \/ \E p \in Pins : WaiterAuth(t, p) /\ Age /\ UNCHANGED <<base, canal, tela, calado>>

Relogio == Hora /\ UNCHANGED <<base, canal, tela, calado, atos>>

\* The application is closed, or crashes, and is opened again.
Restart ==
  /\ Age
  /\ ForgetPhones
  /\ canal' = <<Pedido>>
  /\ tela' = CreateInitialShellState
  /\ UNCHANGED <<base, calado>>

-----------------------------------------------------------------------------
(* The shell: the answer to the oldest call *)

\* The answer's own comanda becomes the selected one when the selected one is no
\* longer active; a comanda opened or selected by its number always does.
ApplyComandaWorkspaceSnapshot(t, c) ==
  [t EXCEPT !.comandas = c.foto.comandas,
            !.selecionada =
              IF /\ c.fn \notin {"openComanda", "getComandaWorkspace"}
                 /\ @ # 0
                 /\ c.foto.comandas[@] # NaoAberta
              THEN @ ELSE c.comanda]

ApplyCashWorkspaceSnapshot(t, c) == [t EXCEPT !.caixa = c.foto.caixa]

\* Mutation: a payment refreshes the cash session and not the comandas.
ApplyOperationalSnapshotMutant(t, c) == ApplyCashWorkspaceSnapshot(t, c)

ApplyOperationalSnapshot(t, c) ==
  ApplyCashWorkspaceSnapshot(ApplyComandaWorkspaceSnapshot(t, c), c)

AuthSucceeded(t, c) ==
  [t EXCEPT !.sessao = c.foto.sessao, !.papel = c.papel, !.validando = FALSE]

\* start(): a failure of any of the reads leaves the shell as it was.
Loaded(t, c) ==
  LET lida == [ApplyOperationalSnapshot(t, c) EXCEPT
                 !.equipe = c.foto.equipe, !.instalacao = c.foto.instalacao,
                 !.catalogo = c.foto.catalogo, !.pronta = TRUE]
  IN IF c.foto.sessao = SemOp THEN lida ELSE AuthSucceeded(lida, c)

\* The form goes back to the operator that was saved, or to a new one, whatever
\* was chosen or typed since.
TeamSaved(t, c) ==
  [t EXCEPT !.equipe = c.foto.equipe,
            !.form = IF c.form.para = Novo THEN FormNovo
                     ELSE FormDe(c.form.para, c.form.papel),
            !.salvando = FALSE]

\* Mutation: the PIN typed meanwhile stays in the form that comes back.
TeamLeftMutant(t, c) ==
  [t EXCEPT !.equipe = c.foto.equipe,
            !.form = [FormNovo EXCEPT !.pin = t.form.pin, !.pinDe = t.form.pinDe]]

TeamLeft(t, c) == [t EXCEPT !.equipe = c.foto.equipe, !.form = FormNovo]

Aplica(t, c) ==
  CASE c.fn = "start" -> Loaded(t, c)
    [] c.fn = "login" -> AuthSucceeded(t, c)
    [] c.fn = "logout" -> [t EXCEPT !.sessao = SemOp, !.papel = "GARCOM", !.validando = FALSE]
    [] c.fn = "listOperators" -> TeamSaved(t, c)
    [] c.fn = "listOperatorsLeft" -> TeamLeft(t, c)
    [] c.fn = "listPrintPrinters" ->
         [t EXCEPT !.instalacao = c.foto.instalacao, !.instalando = FALSE]
    [] c.fn = "upsertCatalogProduct" -> [t EXCEPT !.catalogo = @ + 1]
    [] c.fn = "confirmComandaPayment" -> ApplyOperationalSnapshot(t, c)
    [] PartesDe(c.fn) = {"caixa"} -> ApplyCashWorkspaceSnapshot(t, c)
    [] PartesDe(c.fn) = {"comandas"} -> ApplyComandaWorkspaceSnapshot(t, c)
    [] OTHER -> t

\* The call that the same press makes next.
Continua(c) ==
  CASE c.fn = "saveOperator" -> <<[c EXCEPT !.fn = "listOperators", !.res = "pendente"]>>
    [] c.fn = "deactivateOperator" ->
         <<[c EXCEPT !.fn = "listOperatorsLeft", !.res = "pendente"]>>
    [] c.fn = "completeFirstRun" -> <<[Pedido EXCEPT !.fn = "listPrintPrinters"]>>
    [] c.fn = "sendFirst" ->
         <<[c EXCEPT !.fn = "startComandaCheckout", !.res = "pendente"]>>
    [] OTHER -> <<>>

\* Mutation: a save that fails leaves the form submitting.
HandleDomainErrorMutant(t, c) ==
  CASE c.fn \in {"completeFirstRun", "listPrintPrinters"} -> [t EXCEPT !.instalando = FALSE]
    [] OTHER -> t

\* A failure is shown and the press ends; submitPin does not catch one.
HandleDomainError(t, c) ==
  CASE c.fn \in {"saveOperator", "listOperators"} -> [t EXCEPT !.salvando = FALSE]
    [] c.fn \in {"completeFirstRun", "listPrintPrinters"} -> [t EXCEPT !.instalando = FALSE]
    [] OTHER -> t

Recebe ==
  /\ canal # <<>>
  /\ LET c == Head(canal)
     IN \/ /\ c.res = "ok"
           /\ tela' = Aplica(tela, c)
           /\ canal' = Tail(canal) \o Continua(c)
        \/ /\ c.res = "erro"
           /\ tela' = HandleDomainError(tela, c)
           /\ canal' = Tail(canal)
        \/ /\ c.res = "recusa"
           /\ tela' = [tela EXCEPT !.validando = FALSE]
           /\ canal' = Tail(canal)
  /\ UNCHANGED <<operadoresVars, base, calado, atos>>

-----------------------------------------------------------------------------
TerminalInit ==
  /\ \E i \in Inicios :
       base = i.base /\ operadores = i.operadores /\ terminal = i.terminal
  /\ celulares = [t \in Celulares |-> SemSessao]
  /\ inativo = [o \in OpIds |-> 0]
  /\ canal = <<Pedido>>
  /\ tela = CreateInitialShellState
  /\ calado = {}
  /\ atos = 0

TerminalNext == Toque \/ Atende \/ Recebe \/ Telefone \/ Relogio \/ Restart

\* The main process handles what it is sent, and the shell what is answered.
TerminalSpec ==
  /\ TerminalInit
  /\ [][TerminalNext]_terminalVars
  /\ WF_terminalVars(Atende)
  /\ WF_terminalVars(Recebe)

-----------------------------------------------------------------------------
(* Properties *)

\* The rows, the screen and the calls in flight are of their types (the columns
\* of migrations 0002 and 0007, ShellState, the contracts of the IPC calls).
TerminalTypeOK ==
  /\ OperadoresTypeOK
  /\ base \in Base
  /\ tela.selecionada \in Comandas \cup {0}
  /\ tela.sessao \in OpIds \cup {SemOp}
  /\ tela.form \in Form
  /\ calado \subseteq Partes
  /\ \A i \in DOMAIN canal :
       canal[i].res \in {"pendente", "ok", "erro", "recusa"} /\ canal[i].form \in Form

\* When no call is in flight, every part of the screen shows the rows as they are,
\* whatever was pressed while earlier answers were on their way, except the parts
\* changed since by a phone, by a call that failed after its write, or by the first
\* of two calls of one press when the second failed.  The last exception is the
\* code's: generatePreConta drops the comanda that sendComandaToProduction
\* returned, so a pre-conta that is refused leaves on the screen, as still to be
\* sent, the items that were sent (and so with a team member saved, or a first run
\* completed, before a list that cannot be read).
ScreenAgrees ==
  canal = <<>> /\ tela.pronta => \A p \in Partes \ calado : tela[p] = Foto[p]

\* The PIN in the form, and that of every save in flight, was typed for the operator
\* the form is of, although answers replace the form under the hands of whoever types.
PinGoesToItsOwner ==
  /\ tela.form.pin # SemPin => tela.form.pinDe = tela.form.para
  /\ \A i \in DOMAIN canal :
       canal[i].fn = "saveOperator" /\ canal[i].form.pin # SemPin =>
         canal[i].form.pinDe = canal[i].form.para

\* Neither the team's form nor the first run stays submitting: their buttons are
\* offered again, whether the call was answered, refused or failed.
SavingEnds ==
  /\ tela.salvando ~> ~tela.salvando
  /\ tela.instalando ~> ~tela.instalando
=============================================================================
