--------------------------- MODULE TerminalProofs ---------------------------
(***************************************************************************)
(* Theorems about the desktop terminal and the phones, for any operators,    *)
(* PINs and phones, any life of a session, any number of comandas, items,    *)
(* movements and products, any calls in flight and any number of presses.    *)
(***************************************************************************)
EXTENDS Terminal, FiniteSetTheorems, SequenceTheorems, TLAPS

-----------------------------------------------------------------------------
(* The types of the screen and of the calls *)

ComandasNaTela == [Comandas -> Comanda \cup {NaoAberta, Encerrada}]

CaixaNaTela == [status: CaixaStatus, movimentos: 0..MaxMovimentos]

Equipe == [OpIds -> Role \cup {"INATIVO"}]

Tela ==
  [comandas: ComandasNaTela, caixa: CaixaNaTela, sessao: OpIds \cup {SemOp},
   equipe: Equipe, instalacao: BOOLEAN, catalogo: Nat, pronta: BOOLEAN, papel: Role,
   validando: BOOLEAN, selecionada: Comandas \cup {0}, instalando: BOOLEAN, form: Form,
   salvando: BOOLEAN]

Valores ==
  ComandasNaTela \cup CaixaNaTela \cup OpIds \cup {SemOp} \cup Equipe \cup BOOLEAN \cup Nat

Fotos == {<<>>} \cup UNION {[partes -> Valores] : partes \in SUBSET Partes}

Funcoes ==
  {"start", "login", "logout", "completeFirstRun", "listPrintPrinters",
   "upsertCatalogProduct", "openComanda", "getComandaWorkspace", "addComandaItem",
   "cancelComandaItem", "sendComandaToProduction", "sendFirst", "startComandaCheckout",
   "reopenComanda", "requestComandaCashCheckout", "confirmComandaPayment",
   "openCashSession", "registerCash", "startCashClosure", "closeCashSession",
   "exportCashAudit", "listOperators", "listOperatorsLeft", "saveOperator",
   "deactivateOperator"}

Ligacao ==
  [fn: Funcoes, comanda: Comandas \cup {0}, numero: Numeros \cup {0},
   item: {"lancados", "enviados"}, form: Form, papel: Role,
   res: {"pendente", "ok", "erro", "recusa"}, foto: Fotos]

-----------------------------------------------------------------------------
(* The invariant *)

Conhecidos == {o \in OpIds : Existe(o)}

\* The PIN of a form was typed for the operator the form is of.
PinCerto(form) == form.pin # SemPin => form.pinDe = form.para

\* What an answer shows of the team is no more than the operators there are.
FotoOK(c, conhecidos) ==
  /\ "comandas" \in PartesDe(c.fn) => c.foto.comandas \in ComandasNaTela
  /\ "caixa" \in PartesDe(c.fn) => c.foto.caixa \in CaixaNaTela
  /\ "sessao" \in PartesDe(c.fn) => c.foto.sessao \in OpIds \cup {SemOp}
  /\ "equipe" \in PartesDe(c.fn) =>
       /\ c.foto.equipe \in Equipe
       /\ \A o \in OpIds : c.foto.equipe[o] # "INATIVO" => o \in conhecidos
  /\ "instalacao" \in PartesDe(c.fn) => c.foto.instalacao \in BOOLEAN
  /\ "catalogo" \in PartesDe(c.fn) => c.foto.catalogo \in Nat

\* The calls that may be in flight.
Boas(conhecidos) ==
  {c \in Ligacao :
    /\ c.res = "ok" => FotoOK(c, conhecidos)
    /\ c.fn = "openComanda" => c.numero \in Numeros
    /\ c.fn = "saveOperator" => PinCerto(c.form)
    /\ c.fn = "deactivateOperator" => c.form.para \in conhecidos}

TelaOK(t, conhecidos) ==
  /\ t \in Tela
  /\ PinCerto(t.form)
  /\ \A o \in OpIds : t.equipe[o] # "INATIVO" => o \in conhecidos

\* A session of a phone is as old, at least, as the absence of its operator.
Idades ==
  /\ \A o \in OpIds : operadores[o].ativo => inativo[o] = 0
  /\ \A t \in Celulares :
       celulares[t] # SemSessao => inativo[celulares[t].op] <= celulares[t].idade

BancoOK == OperadoresTypeOK /\ base \in Base /\ Idades

TerminalInv ==
  /\ BancoOK
  /\ canal \in Seq(Boas(Conhecidos))
  /\ TelaOK(tela, Conhecidos)
  /\ calado \subseteq Partes

-----------------------------------------------------------------------------
(* Forms, screens and calls *)

LEMMA Forms ==
  /\ FormNovo \in Form /\ FormNovo.pin = SemPin /\ PinCerto(FormNovo)
  /\ \A o \in OpIds \cup {Novo}, papel \in Role :
       /\ FormDe(o, papel) \in Form /\ PinCerto(FormDe(o, papel))
       /\ FormDe(o, papel).para = o
BY DEF FormNovo, FormDe, Form, Role, PinCerto

LEMMA Larger ==
  ASSUME NEW a, NEW b, a \subseteq b
  PROVE  /\ Boas(a) \subseteq Boas(b)
         /\ \A t : TelaOK(t, a) => TelaOK(t, b)
<1>1. ASSUME NEW c \in Boas(a)
      PROVE  c \in Boas(b)
  <2>1. /\ c \in Ligacao /\ c.res = "ok" => FotoOK(c, a)
        /\ c.fn = "openComanda" => c.numero \in Numeros
        /\ c.fn = "saveOperator" => PinCerto(c.form)
        /\ c.fn = "deactivateOperator" => c.form.para \in b
    BY DEF Boas
  <2>2. FotoOK(c, a) => FotoOK(c, b)
    BY DEF FotoOK
  <2> QED BY <2>1, <2>2 DEF Boas
<1> QED BY <1>1 DEF TelaOK

LEMMA FirstCall ==
  /\ Pedido \in Ligacao /\ Pedido.fn = "start" /\ Pedido.res = "pendente"
  /\ Pedido.form = FormNovo
<1>1. <<>> \in Fotos
  BY DEF Fotos
<1>2. "start" \in Funcoes /\ "GARCOM" \in Role
  BY DEF Funcoes, Role
<1> DEFINE vazia == <<>>
<1> HIDE DEF vazia
<1>3. vazia \in Fotos
  BY <1>1 DEF vazia
<1>4. Pedido = [fn |-> "start", comanda |-> 0, numero |-> 0, item |-> "lancados",
                form |-> FormNovo, papel |-> "GARCOM", res |-> "pendente",
                foto |-> vazia]
  BY DEF Pedido, vazia
<1> QED BY <1>2, <1>3, <1>4, Forms DEF Ligacao

(* The calls that the presses make. *)
LEMMA PlainCall ==
  ASSUME NEW k, NEW fn \in Funcoes \ {"openComanda", "saveOperator", "deactivateOperator"},
         NEW c \in Comandas \cup {0}, NEW item \in {"lancados", "enviados"}
  PROVE  /\ [Pedido EXCEPT !.fn = fn] \in Boas(k)
         /\ [Pedido EXCEPT !.fn = fn, !.comanda = c] \in Boas(k)
         /\ [Pedido EXCEPT !.fn = fn, !.comanda = c, !.item = item] \in Boas(k)
<1>1. /\ Pedido \in Ligacao /\ Pedido.res = "pendente"
  BY FirstCall
<1>2. ASSUME NEW p \in Ligacao, p.fn = fn, p.res = "pendente"
      PROVE  p \in Boas(k)
  BY <1>2 DEF Boas
<1>3. /\ [Pedido EXCEPT !.fn = fn] \in Ligacao
      /\ [Pedido EXCEPT !.fn = fn].fn = fn /\ [Pedido EXCEPT !.fn = fn].res = "pendente"
  BY <1>1 DEF Ligacao
<1>4. /\ [Pedido EXCEPT !.fn = fn, !.comanda = c] \in Ligacao
      /\ [Pedido EXCEPT !.fn = fn, !.comanda = c].fn = fn
      /\ [Pedido EXCEPT !.fn = fn, !.comanda = c].res = "pendente"
  BY <1>1 DEF Ligacao
<1>5. /\ [Pedido EXCEPT !.fn = fn, !.comanda = c, !.item = item] \in Ligacao
      /\ [Pedido EXCEPT !.fn = fn, !.comanda = c, !.item = item].fn = fn
      /\ [Pedido EXCEPT !.fn = fn, !.comanda = c, !.item = item].res = "pendente"
  BY <1>1 DEF Ligacao
<1> QED BY <1>2, <1>3, <1>4, <1>5

LEMMA FormCall ==
  ASSUME NEW k, NEW fn \in Funcoes \ {"openComanda"}, NEW form \in Form,
         fn = "saveOperator" => PinCerto(form),
         fn = "deactivateOperator" => form.para \in k
  PROVE  [Pedido EXCEPT !.fn = fn, !.form = form] \in Boas(k)
<1> DEFINE p == [Pedido EXCEPT !.fn = fn, !.form = form]
<1>1. p \in Ligacao /\ p.fn = fn /\ p.form = form /\ p.res = "pendente"
  BY FirstCall DEF Ligacao
<1> HIDE DEF p
<1>2. p \in Boas(k)
  BY <1>1 DEF Boas
<1> QED BY <1>2 DEF p

LEMMA NumberCall ==
  ASSUME NEW k, NEW n \in Numeros
  PROVE  [Pedido EXCEPT !.fn = "openComanda", !.numero = n] \in Boas(k)
<1> DEFINE p == [Pedido EXCEPT !.fn = "openComanda", !.numero = n]
<1>1. p \in Ligacao /\ p.fn = "openComanda" /\ p.numero = n /\ p.res = "pendente"
  BY FirstCall DEF Ligacao, Funcoes
<1> HIDE DEF p
<1>2. p \in Boas(k)
  BY <1>1 DEF Boas
<1> QED BY <1>2 DEF p

(* A press that makes a call, and leaves the form and the team alone. *)
LEMMA PressKeeps ==
  ASSUME TerminalInv, NEW pedido \in Boas(Conhecidos), NEW depois, Pede(pedido, depois),
         TelaOK(depois, Conhecidos)
  PROVE  TerminalInv'
<1>1. /\ operadores' = operadores /\ terminal' = terminal /\ celulares' = celulares
      /\ inativo' = inativo /\ base' = base /\ calado' = calado
      /\ canal' = Append(canal, pedido) /\ tela' = depois
  BY DEF Pede, Toca, operadoresVars
<1>2. Conhecidos' = Conhecidos
  BY <1>1 DEF Conhecidos, Existe
<1>3. canal' \in Seq(Boas(Conhecidos))
  BY <1>1, AppendProperties DEF TerminalInv
<1>4. BancoOK'
  BY <1>1 DEF TerminalInv, BancoOK, OperadoresTypeOK, Idades
<1> QED BY <1>1, <1>2, <1>3, <1>4 DEF TerminalInv

LEMMA PlainPress ==
  ASSUME TerminalInv, NEW c \in Comandas \cup {0}, NEW item \in {"lancados", "enviados"},
         NEW fn \in Funcoes \ {"openComanda", "saveOperator", "deactivateOperator"},
         \/ Pede([Pedido EXCEPT !.fn = fn], tela)
         \/ Pede([Pedido EXCEPT !.fn = fn, !.comanda = c], tela)
         \/ Pede([Pedido EXCEPT !.fn = fn, !.comanda = c, !.item = item], tela)
  PROVE  TerminalInv'
<1>1. TelaOK(tela, Conhecidos)
  BY DEF TerminalInv
<1>2. CASE Pede([Pedido EXCEPT !.fn = fn], tela)
  BY <1>1, <1>2, PlainCall, PressKeeps
<1>3. CASE Pede([Pedido EXCEPT !.fn = fn, !.comanda = c], tela)
  BY <1>1, <1>3, PlainCall, PressKeeps
<1>4. CASE Pede([Pedido EXCEPT !.fn = fn, !.comanda = c, !.item = item], tela)
  BY <1>1, <1>4, PlainCall, PressKeeps
<1> QED BY <1>2, <1>3, <1>4

(* A press that changes only the team's form. *)
LEMMA FormKeeps ==
  ASSUME TerminalInv, NEW form \in Form, PinCerto(form), TrocaForm(form)
  PROVE  TerminalInv'
<1>1. /\ operadores' = operadores /\ terminal' = terminal /\ celulares' = celulares
      /\ inativo' = inativo /\ base' = base /\ calado' = calado /\ canal' = canal
      /\ tela' = [tela EXCEPT !.form = form]
  BY DEF TrocaForm, Toca, operadoresVars
<1>2. Conhecidos' = Conhecidos
  BY <1>1 DEF Conhecidos, Existe
<1>3. tela \in Tela /\ \A o \in OpIds : tela.equipe[o] # "INATIVO" => o \in Conhecidos
  BY DEF TerminalInv, TelaOK
<1>4. tela' \in Tela /\ tela'.form = form /\ tela'.equipe = tela.equipe
  BY <1>1, <1>3 DEF Tela
<1>5. TelaOK(tela', Conhecidos)
  BY <1>3, <1>4 DEF TelaOK
<1>6. BancoOK'
  BY <1>1 DEF TerminalInv, BancoOK, OperadoresTypeOK, Idades
<1> QED BY <1>1, <1>2, <1>5, <1>6 DEF TerminalInv

LEMMA TouchKeeps ==
  ASSUME TerminalInv, Toque
  PROVE  TerminalInv'
<1>1. /\ tela \in Tela /\ PinCerto(tela.form) /\ TelaOK(tela, Conhecidos)
      /\ \A o \in OpIds : tela.equipe[o] # "INATIVO" => o \in Conhecidos
      /\ tela.form \in Form /\ tela.selecionada \in Comandas \cup {0}
      /\ tela.equipe \in Equipe
  BY DEF TerminalInv, TelaOK, Tela
<1>2. /\ "lancados" \in {"lancados", "enviados"} /\ 0 \in Comandas \cup {0}
  OBVIOUS
<1>3. ASSUME NEW p \in Pins, SubmitPin(p)
      PROVE  TerminalInv'
  <2> DEFINE f == [FormNovo EXCEPT !.pin = p]
             depois == [tela EXCEPT !.validando = TRUE]
  <2>1. f \in Form
    BY Forms DEF Form
  <2>2. [Pedido EXCEPT !.fn = "login", !.form.pin = p]
          = [Pedido EXCEPT !.fn = "login", !.form = f]
    BY FirstCall DEF Ligacao
  <2>3. [Pedido EXCEPT !.fn = "login", !.form = f] \in Boas(Conhecidos)
    BY <2>1, FormCall DEF Funcoes
  <2>4. depois \in Tela /\ depois.form = tela.form /\ depois.equipe = tela.equipe
    BY <1>1 DEF Tela
  <2>5. TelaOK(depois, Conhecidos)
    BY <1>1, <2>4 DEF TelaOK
  <2>6. Pede([Pedido EXCEPT !.fn = "login", !.form = f], depois)
    BY <1>3, <2>2 DEF SubmitPin
  <2> QED BY <2>3, <2>5, <2>6, PressKeeps
<1>4. ASSUME NEW p \in Pins, UpdateTeamPinDraft(p)
      PROVE  TerminalInv'
  <2> DEFINE f == [tela.form EXCEPT !.pin = p, !.pinDe = tela.form.para]
  <2>1. f \in Form /\ f.pinDe = f.para
    BY <1>1 DEF Form
  <2>2. TrocaForm(f)
    BY <1>4 DEF UpdateTeamPinDraft
  <2> HIDE DEF f
  <2> QED BY <2>1, <2>2, FormKeeps DEF PinCerto
<1>5. CASE Logout
  <2>1. Pede([Pedido EXCEPT !.fn = "logout"], tela)
    BY <1>5 DEF Logout
  <2> QED BY <1>2, <2>1, PlainPress DEF Funcoes
<1>6. CASE CompleteFirstRun
  <2> DEFINE depois == [tela EXCEPT !.instalando = TRUE]
  <2>1. depois \in Tela /\ depois.form = tela.form /\ depois.equipe = tela.equipe
    BY <1>1 DEF Tela
  <2>2. TelaOK(depois, Conhecidos)
    BY <1>1, <2>1 DEF TelaOK
  <2>3. Pede([Pedido EXCEPT !.fn = "completeFirstRun"], depois)
    BY <1>6 DEF CompleteFirstRun
  <2>4. [Pedido EXCEPT !.fn = "completeFirstRun"] \in Boas(Conhecidos)
    BY <1>2, PlainCall DEF Funcoes
  <2> QED BY <2>2, <2>3, <2>4, PressKeeps
<1>7. CASE SaveCatalogProduct
  <2>1. Pede([Pedido EXCEPT !.fn = "upsertCatalogProduct"], tela)
    BY <1>7 DEF SaveCatalogProduct
  <2> QED BY <1>2, <2>1, PlainPress DEF Funcoes
<1>8. ASSUME NEW n \in Numeros, OpenComandaFromDraft(n)
      PROVE  TerminalInv'
  <2>1. Pede([Pedido EXCEPT !.fn = "openComanda", !.numero = n], tela)
    BY <1>8 DEF OpenComandaFromDraft
  <2> QED BY <1>1, <2>1, NumberCall, PressKeeps
<1>9. ASSUME NEW c \in Comandas, SelectMesaComanda(c)
      PROVE  TerminalInv'
  <2>1. Pede([Pedido EXCEPT !.fn = "getComandaWorkspace", !.comanda = c], tela)
    BY <1>9 DEF SelectMesaComanda
  <2> QED BY <1>2, <2>1, PlainPress DEF Funcoes
<1>10. CASE AddProductToCurrentComanda
  <2>1. Pede([Pedido EXCEPT !.fn = "addComandaItem", !.comanda = tela.selecionada], tela)
    BY <1>10 DEF AddProductToCurrentComanda, PedeComanda
  <2> QED BY <1>1, <1>2, <2>1, PlainPress DEF Funcoes
<1>11. ASSUME NEW item \in {"lancados", "enviados"}, CancelSelectedItem(item)
       PROVE  TerminalInv'
  <2>1. Pede([Pedido EXCEPT !.fn = "cancelComandaItem", !.comanda = tela.selecionada,
                            !.item = item], tela)
    BY <1>11 DEF CancelSelectedItem
  <2> QED BY <1>1, <2>1, PlainPress DEF Funcoes
<1>12. CASE SendCurrentComandaToProduction
  <2>1. Pede([Pedido EXCEPT !.fn = "sendComandaToProduction",
                            !.comanda = tela.selecionada], tela)
    BY <1>12 DEF SendCurrentComandaToProduction, PedeComanda
  <2> QED BY <1>1, <1>2, <2>1, PlainPress DEF Funcoes
<1>13. CASE GeneratePreConta
  <2>1. CASE PedeComanda("startComandaCheckout")
    <3>1. Pede([Pedido EXCEPT !.fn = "startComandaCheckout",
                              !.comanda = tela.selecionada], tela)
      BY <2>1 DEF PedeComanda
    <3> QED BY <1>1, <1>2, <3>1, PlainPress DEF Funcoes
  <2>2. CASE PedeComanda("sendFirst")
    <3>1. Pede([Pedido EXCEPT !.fn = "sendFirst", !.comanda = tela.selecionada], tela)
      BY <2>2 DEF PedeComanda
    <3> QED BY <1>1, <1>2, <3>1, PlainPress DEF Funcoes
  <2> QED BY <1>13, <2>1, <2>2 DEF GeneratePreConta
<1>14. CASE ReopenCurrentComanda
  <2>1. Pede([Pedido EXCEPT !.fn = "reopenComanda", !.comanda = tela.selecionada], tela)
    BY <1>14 DEF ReopenCurrentComanda, PedeComanda
  <2> QED BY <1>1, <1>2, <2>1, PlainPress DEF Funcoes
<1>15. CASE RequestCashCheckout
  <2>1. Pede([Pedido EXCEPT !.fn = "requestComandaCashCheckout",
                            !.comanda = tela.selecionada], tela)
    BY <1>15 DEF RequestCashCheckout, PedeComanda
  <2> QED BY <1>1, <1>2, <2>1, PlainPress DEF Funcoes
<1>16. CASE CheckoutCurrentComanda
  <2>1. Pede([Pedido EXCEPT !.fn = "confirmComandaPayment",
                            !.comanda = tela.selecionada], tela)
    BY <1>16 DEF CheckoutCurrentComanda, PedeComanda
  <2> QED BY <1>1, <1>2, <2>1, PlainPress DEF Funcoes
<1>17. ASSUME NEW fn \in {"openCashSession", "registerCash", "startCashClosure",
                          "closeCashSession", "exportCashAudit"},
              PedeCaixa(fn)
       PROVE  TerminalInv'
  <2>1. Pede([Pedido EXCEPT !.fn = fn], tela)
    BY <1>17 DEF PedeCaixa
  <2>2. fn \in Funcoes \ {"openComanda", "saveOperator", "deactivateOperator"}
    BY DEF Funcoes
  <2> QED BY <1>2, <2>1, <2>2, PlainPress
<1>18. ASSUME NEW o \in OpIds, SelectTeamOperator(o)
       PROVE  TerminalInv'
  <2>1. TrocaForm(FormDe(o, tela.equipe[o])) /\ tela.equipe[o] \in Role
    BY <1>1, <1>18 DEF SelectTeamOperator, Equipe
  <2>2. FormDe(o, tela.equipe[o]) \in Form /\ PinCerto(FormDe(o, tela.equipe[o]))
    BY <2>1, Forms
  <2> QED BY <2>1, <2>2, FormKeeps
<1>19. ASSUME NEW o \in OpIds, DeactivateTeamOperator(o)
       PROVE  TerminalInv'
  <2> DEFINE f == FormDe(o, tela.equipe[o])
  <2>1. /\ Pede([Pedido EXCEPT !.fn = "deactivateOperator", !.form = f], tela)
        /\ tela.equipe[o] \in Role /\ o \in Conhecidos
    BY <1>1, <1>19 DEF DeactivateTeamOperator, Equipe
  <2>2. f \in Form /\ f.para = o
    BY <2>1, Forms
  <2> HIDE DEF f
  <2>3. "deactivateOperator" \in Funcoes \ {"openComanda"}
    BY DEF Funcoes
  <2>4. [Pedido EXCEPT !.fn = "deactivateOperator", !.form = f] \in Boas(Conhecidos)
    BY <2>1, <2>2, <2>3, FormCall
  <2> QED BY <1>1, <2>1, <2>4, PressKeeps
<1>20. CASE OpenTeamNewOperatorForm
  BY <1>20, Forms, FormKeeps DEF OpenTeamNewOperatorForm
<1>21. ASSUME NEW papel \in Role, UpdateTeamRoleDraft(papel)
       PROVE  TerminalInv'
  <2> DEFINE f == [tela.form EXCEPT !.papel = papel]
  <2>1. /\ f \in Form /\ f.pin = tela.form.pin /\ f.pinDe = tela.form.pinDe
        /\ f.para = tela.form.para
    BY <1>1 DEF Form
  <2>2. TrocaForm(f)
    BY <1>21 DEF UpdateTeamRoleDraft
  <2> HIDE DEF f
  <2> QED BY <1>1, <2>1, <2>2, FormKeeps DEF PinCerto
<1>22. CASE SaveTeamOperator
  <2> DEFINE depois == [tela EXCEPT !.salvando = TRUE]
  <2>1. depois \in Tela /\ depois.form = tela.form /\ depois.equipe = tela.equipe
    BY <1>1 DEF Tela
  <2>2. TelaOK(depois, Conhecidos)
    BY <1>1, <2>1 DEF TelaOK
  <2>3. Pede([Pedido EXCEPT !.fn = "saveOperator", !.form = tela.form], depois)
    BY <1>22 DEF SaveTeamOperator
  <2>4. "saveOperator" \in Funcoes \ {"openComanda"}
    BY DEF Funcoes
  <2>5. [Pedido EXCEPT !.fn = "saveOperator", !.form = tela.form] \in Boas(Conhecidos)
    BY <1>1, <2>4, FormCall
  <2> QED BY <2>2, <2>3, <2>5, PressKeeps
<1>23. ASSUME OpenCashSessionFromDraft \/ RegisterCashReceipt \/ RegisterCashWithdrawal
                \/ RegisterCashSupply \/ StartCashClosureFlow
                \/ CloseCashSessionFromDraft \/ ExportCashAuditBundle
       PROVE  TerminalInv'
  <2>1. \E fn \in {"openCashSession", "registerCash", "startCashClosure",
                   "closeCashSession", "exportCashAudit"} : PedeCaixa(fn)
    BY <1>23 DEF OpenCashSessionFromDraft, RegisterCashReceipt, RegisterCashWithdrawal,
       RegisterCashSupply, StartCashClosureFlow, CloseCashSessionFromDraft,
       ExportCashAuditBundle
  <2> QED BY <1>17, <2>1
<1> QED BY <1>3, <1>4, <1>5, <1>6, <1>7, <1>8, <1>9, <1>10, <1>11, <1>12, <1>13, <1>14,
       <1>15, <1>16, <1>18, <1>19, <1>20, <1>21, <1>22, <1>23 DEF Toque

-----------------------------------------------------------------------------
(* The rows of the screen: what the main process writes *)

LEMMA Numbers ==
  /\ NumComandas \in Nat /\ MaxItens \in Nat /\ MaxMovimentos \in Nat
  /\ MaxProdutos \in Nat
BY TerminalAssumption

LEMMA ComandaFields ==
  ASSUME base \in Base, NEW c \in Comandas, base.comandas[c].status \in Ativas
  PROVE  /\ base.comandas[c] \in Comanda
         /\ base.comandas[c].lancados \in 0..MaxItens
         /\ base.comandas[c].enviados \in 0..MaxItens
<1>1. base.comandas[c] \in Comanda \cup {NaoAberta, Encerrada}
  BY DEF Base
<1>2. NaoAberta.status = "INEXISTENTE" /\ Encerrada.status = "ENCERRADA"
  BY DEF NaoAberta, Encerrada
<1>3. base.comandas[c] \in Comanda
  BY <1>1, <1>2 DEF Ativas
<1> QED BY <1>3 DEF Comanda

LEMMA ComandaWritten ==
  ASSUME base \in Base, NEW c \in Comandas,
         NEW nova \in Comanda \cup {NaoAberta, Encerrada}, TrocaComanda(c, nova)
  PROVE  base' \in Base /\ UNCHANGED operadoresVars
<1>1. base' = [base EXCEPT !.comandas[c] = nova] /\ UNCHANGED operadoresVars
  BY DEF TrocaComanda
<1> DEFINE t == [base.comandas EXCEPT ![c] = nova]
<1>2. t \in [Comandas -> Comanda \cup {NaoAberta, Encerrada}]
  BY DEF Base
<1>3. base' = [base EXCEPT !.comandas = t]
  BY <1>1
<1> HIDE DEF t
<1> QED BY <1>1, <1>2, <1>3 DEF Base

LEMMA CashWritten ==
  ASSUME base \in Base, NEW status \in CaixaStatus, NEW mais \in {0, 1},
         base.caixa.movimentos + mais <= MaxMovimentos, MudaCaixa(status, mais)
  PROVE  base' \in Base /\ UNCHANGED operadoresVars
<1> DEFINE n == base.caixa.movimentos + mais
           x == [status |-> status, movimentos |-> n]
<1>1. base' = [base EXCEPT !.caixa = x] /\ UNCHANGED operadoresVars
  BY DEF MudaCaixa
<1>2. base.caixa.movimentos \in 0..MaxMovimentos
  BY DEF Base
<1>3. n \in 0..MaxMovimentos
  BY <1>2, Numbers
<1> HIDE DEF n
<1>4. x \in [status: CaixaStatus, movimentos: 0..MaxMovimentos]
  BY <1>3
<1> HIDE DEF x
<1> QED BY <1>1, <1>4 DEF Base

LEMMA NothingWritten ==
  ASSUME base \in Base, SoLe
  PROVE  base' \in Base /\ UNCHANGED operadoresVars
BY DEF SoLe

LEMMA OpenKeeps ==
  ASSUME base \in Base, NEW n \in Numeros, NEW c \in Comandas, OpenComanda(n, c)
  PROVE  base' \in Base /\ UNCHANGED operadoresVars
<1> DEFINE nova == [status |-> "ABERTA", numero |-> n, lancados |-> 0, enviados |-> 0,
                    encaminhada |-> FALSE]
<1>1. SoLe \/ TrocaComanda(c, nova)
  BY DEF OpenComanda
<1>2. nova \in Comanda
  BY Numbers DEF Comanda, Ativas
<1> HIDE DEF nova
<1> QED BY <1>1, <1>2, ComandaWritten, NothingWritten

(* The calls about one comanda. *)
LEMMA ComandaKeeps ==
  ASSUME base \in Base, NEW c \in Ligacao, NEW d \in Comandas, ComandaCall(c, d),
         c.fn = "openComanda" => c.numero \in Numeros
  PROVE  base' \in Base /\ UNCHANGED operadoresVars
<1> DEFINE m == base.comandas[d]
<1>1. m.status \in Ativas =>
        m \in Comanda /\ m.lancados \in 0..MaxItens /\ m.enviados \in 0..MaxItens
  BY ComandaFields
<1>2. c.item \in {"lancados", "enviados"}
  BY DEF Ligacao
<1> HIDE DEF m
<1>3. CASE c.fn = "openComanda" /\ OpenComanda(c.numero, d)
  BY <1>3, OpenKeeps
<1>4. CASE SoLe
  BY <1>4, NothingWritten
<1>5. CASE AddComandaItem(d)
  <2> DEFINE n == m.lancados + 1
             nova == [m EXCEPT !.lancados = n]
  <2>1. m.status \in {"ABERTA", "EM_PRODUCAO"} /\ m.lancados < MaxItens
        /\ TrocaComanda(d, nova)
    BY <1>5 DEF AddComandaItem, m
  <2>2. n \in 0..MaxItens /\ m \in Comanda
    BY <1>1, <2>1, Numbers DEF Ativas
  <2> HIDE DEF n
  <2>3. nova \in Comanda
    BY <2>2 DEF Comanda
  <2> QED BY <2>1, <2>3, ComandaWritten
<1>6. CASE CancelComandaItem(d, c.item)
  <2> DEFINE n == m[c.item] - 1
             nova == [m EXCEPT ![c.item] = n]
  <2>1. m.status \in {"ABERTA", "EM_PRODUCAO"} /\ m[c.item] > 0
        /\ TrocaComanda(d, nova)
    BY <1>6 DEF CancelComandaItem, m
  <2>2. m \in Comanda /\ m.lancados \in 0..MaxItens /\ m.enviados \in 0..MaxItens
    BY <1>1, <2>1 DEF Ativas
  <2>3. CASE c.item = "lancados"
    <3>1. n \in 0..MaxItens
      BY <2>1, <2>2, <2>3, Numbers
    <3> HIDE DEF n
    <3>2. nova \in Comanda
      BY <2>2, <2>3, <3>1 DEF Comanda
    <3> QED BY <2>1, <3>2, ComandaWritten
  <2>4. CASE c.item = "enviados"
    <3>1. n \in 0..MaxItens
      BY <2>1, <2>2, <2>4, Numbers
    <3> HIDE DEF n
    <3>2. nova \in Comanda
      BY <2>2, <2>4, <3>1 DEF Comanda
    <3> QED BY <2>1, <3>2, ComandaWritten
  <2> QED BY <1>2, <2>3, <2>4
<1>7. CASE SendComandaToProduction(d)
  <2> DEFINE n == m.enviados + m.lancados
             nova == [m EXCEPT !.status = "EM_PRODUCAO", !.lancados = 0, !.enviados = n]
  <2>1. /\ m.status \in {"ABERTA", "EM_PRODUCAO"}
        /\ m.lancados + m.enviados <= MaxItens
        /\ TrocaComanda(d, nova)
    BY <1>7 DEF SendComandaToProduction, m
  <2>2. n \in 0..MaxItens /\ m \in Comanda /\ 0 \in 0..MaxItens
    BY <1>1, <2>1, Numbers DEF Ativas
  <2> HIDE DEF n
  <2>3. nova \in Comanda
    BY <2>2 DEF Comanda, Ativas
  <2> QED BY <2>1, <2>3, ComandaWritten
<1>8. CASE StartComandaCheckout(d)
  <2> DEFINE nova == [m EXCEPT !.status = "EM_PAGAMENTO"]
  <2>1. m.status = "EM_PRODUCAO" /\ TrocaComanda(d, nova)
    BY <1>8 DEF StartComandaCheckout, m
  <2>2. m \in Comanda
    BY <1>1, <2>1 DEF Ativas
  <2>3. nova \in Comanda
    BY <2>2 DEF Comanda, Ativas
  <2> QED BY <2>1, <2>3, ComandaWritten
<1>9. CASE RequestComandaCashCheckout(d)
  <2> DEFINE nova == [m EXCEPT !.encaminhada = TRUE]
  <2>1. m.status = "EM_PAGAMENTO" /\ TrocaComanda(d, nova)
    BY <1>9 DEF RequestComandaCashCheckout, m
  <2>2. m \in Comanda
    BY <1>1, <2>1 DEF Ativas
  <2>3. nova \in Comanda
    BY <2>2 DEF Comanda
  <2> QED BY <2>1, <2>3, ComandaWritten
<1>10. CASE ReopenComanda(d)
  <2> DEFINE nova == [m EXCEPT !.status = "EM_PRODUCAO"]
  <2>1. m.status = "EM_PAGAMENTO" /\ TrocaComanda(d, nova)
    BY <1>10 DEF ReopenComanda, m
  <2>2. m \in Comanda
    BY <1>1, <2>1 DEF Ativas
  <2>3. nova \in Comanda
    BY <2>2 DEF Comanda, Ativas
  <2> QED BY <2>1, <2>3, ComandaWritten
<1>11. CASE ConfirmComandaPayment(d)
  <2> DEFINE t == [base.comandas EXCEPT ![d] = Encerrada]
             n == base.caixa.movimentos + 1
             x == [base.caixa EXCEPT !.movimentos = n]
  <2>1. /\ base' = [base EXCEPT !.comandas = t, !.caixa = x]
        /\ base.caixa.movimentos < MaxMovimentos /\ UNCHANGED operadoresVars
    BY <1>11 DEF ConfirmComandaPayment
  <2>2. /\ t \in [Comandas -> Comanda \cup {NaoAberta, Encerrada}]
        /\ base.caixa \in [status: CaixaStatus, movimentos: 0..MaxMovimentos]
    BY DEF Base
  <2>3. n \in 0..MaxMovimentos
    BY <2>1, <2>2, Numbers
  <2> HIDE DEF n
  <2>4. x \in [status: CaixaStatus, movimentos: 0..MaxMovimentos]
    BY <2>2, <2>3
  <2> HIDE DEF t, x
  <2> QED BY <2>1, <2>2, <2>4 DEF Base
<1> QED BY <1>3, <1>4, <1>5, <1>6, <1>7, <1>8, <1>9, <1>10, <1>11 DEF ComandaCall

(* The calls about the cash session. *)
LEMMA CashKeeps ==
  ASSUME base \in Base, NEW c, CaixaCall(c)
  PROVE  base' \in Base /\ UNCHANGED operadoresVars
<1>1. base.caixa.movimentos \in 0..MaxMovimentos
  BY DEF Base
<1>2. CASE OpenCashSession
  BY <1>1, <1>2, Numbers, CashWritten, NothingWritten DEF OpenCashSession, CaixaStatus
<1>3. CASE RegisterCash
  <2>1. base.caixa.movimentos + 1 <= MaxMovimentos /\ MudaCaixa("ABERTO", 1)
    BY <1>1, <1>3, Numbers DEF RegisterCash
  <2> QED BY <2>1, CashWritten DEF CaixaStatus
<1>4. CASE StartCashClosure
  <2>1. base.caixa.movimentos + 0 <= MaxMovimentos /\ MudaCaixa("FECHAMENTO", 0)
    BY <1>1, <1>4, Numbers DEF StartCashClosure
  <2> QED BY <2>1, CashWritten DEF CaixaStatus
<1>5. CASE CloseCashSession
  <2>1. base' = [base EXCEPT !.caixa = SemCaixa] /\ UNCHANGED operadoresVars
    BY <1>5 DEF CloseCashSession
  <2>2. SemCaixa \in [status: CaixaStatus, movimentos: 0..MaxMovimentos]
    BY Numbers DEF SemCaixa, CaixaStatus
  <2> QED BY <2>1, <2>2 DEF Base
<1>6. CASE SoLe
  BY <1>6, NothingWritten
<1> QED BY <1>2, <1>3, <1>4, <1>5, <1>6 DEF CaixaCall


-----------------------------------------------------------------------------
(* The operators and the phones *)

LEMMA LessOrEqual == \A a, b \in Nat : a <= b => Mais(a) <= Mais(b)
BY OperadoresAssumption DEF Mais

LEMMA Older == \A h \in Horas : Mais(h) \in Horas /\ h \in Nat /\ 0 \in Horas
BY OperadoresAssumption DEF Mais, Horas

LEMMA KnownRows ==
  ASSUME OperadoresTypeOK, NEW o \in Conhecidos
  PROVE  operadores[o] \in Operador /\ operadores[o].pin \in Pins
<1>1. operadores[o] \in Operador
  BY DEF OperadoresTypeOK, Conhecidos, Existe
<1> QED BY <1>1 DEF Operador

LEMMA SaveKeeps ==
  ASSUME OperadoresTypeOK, Idades, NEW o, NEW p \in Pins \cup {SemPin}, NEW papel \in Role,
         NEW ativo \in BOOLEAN, ~ativo => o \in Conhecidos, SaveOperator(o, p, papel, ativo)
  PROVE  OperadoresTypeOK' /\ Idades' /\ Conhecidos \subseteq Conhecidos'
<1> DEFINE pin == IF p = SemPin THEN operadores[o].pin ELSE p
           linha == [ativo |-> ativo, papel |-> papel, pin |-> pin]
           h == IF ativo THEN 0 ELSE inativo[o]
<1>1. /\ ativo => p # SemPin
      /\ operadores' = [operadores EXCEPT ![o] = linha]
      /\ inativo' = [inativo EXCEPT ![o] = h]
      /\ terminal' = terminal /\ celulares' = celulares
  BY DEF SaveOperator
<1>2. /\ operadores \in [OpIds -> Operador \cup {SemRegistro}]
      /\ inativo \in [OpIds -> Horas]
  BY DEF OperadoresTypeOK
<1>3. CASE o \notin OpIds
  <2>1. operadores' = operadores /\ inativo' = inativo
    BY <1>1, <1>2, <1>3
  <2> QED BY <1>1, <2>1 DEF OperadoresTypeOK, Idades, Conhecidos, Existe
<1>4. CASE o \in OpIds
  <2>1. pin \in Pins
    BY <1>1, KnownRows
  <2>2. linha \in Operador /\ linha.ativo = ativo /\ linha # SemRegistro
    BY <2>1, OperadoresAssumption DEF Operador, SemRegistro
  <2>3. h \in Horas /\ h \in Nat /\ (ativo => h = 0) /\ (~ativo => h = inativo[o])
    BY <1>2, <1>4, Older
  <2> HIDE DEF linha, h
  <2>4. operadores' \in [OpIds -> Operador \cup {SemRegistro}]
    BY <1>1, <1>2, <2>2
  <2>5. inativo' \in [OpIds -> Horas]
    BY <1>1, <1>2, <2>3
  <2>6. OperadoresTypeOK'
    BY <1>1, <2>4, <2>5 DEF OperadoresTypeOK
  <2>7. \A q \in OpIds : operadores'[q].ativo => inativo'[q] = 0
    BY <1>1, <1>2, <1>4, <2>2, <2>3 DEF Idades
  <2>8. ASSUME NEW t \in Celulares, celulares[t] # SemSessao
        PROVE  inativo'[celulares[t].op] <= celulares[t].idade
    <3>1. celulares[t].op \in OpIds /\ celulares[t].idade \in Nat
      BY <2>8, Older DEF OperadoresTypeOK, WaiterSession
    <3>2. inativo[celulares[t].op] <= celulares[t].idade
      BY <2>8 DEF Idades
    <3>3. inativo'[celulares[t].op] \in {0, inativo[celulares[t].op]}
      BY <1>1, <1>2, <1>4, <2>3, <3>1
    <3> QED BY <3>1, <3>2, <3>3
  <2>9. Conhecidos \subseteq Conhecidos'
    BY <1>1, <1>2, <1>4, <2>2 DEF Conhecidos, Existe
  <2> QED BY <1>1, <2>6, <2>7, <2>8, <2>9 DEF Idades
<1> QED BY <1>3, <1>4

LEMMA HourKeeps ==
  ASSUME OperadoresTypeOK, Idades, Hora
  PROVE  OperadoresTypeOK' /\ Idades' /\ Conhecidos' = Conhecidos
<1>1. /\ operadores' = operadores /\ terminal' = terminal
      /\ celulares' = [t \in Celulares |->
           IF celulares[t] = SemSessao THEN SemSessao
             ELSE [celulares[t] EXCEPT !.idade = Mais(celulares[t].idade)]]
      /\ inativo' = [q \in OpIds |->
           IF operadores[q].ativo \/ ~Existe(q) THEN 0 ELSE Mais(inativo[q])]
  BY DEF Hora
<1>2. ASSUME NEW t \in Celulares, celulares[t] # SemSessao
      PROVE  /\ celulares[t] \in WaiterSession
             /\ celulares'[t] \in WaiterSession
             /\ celulares'[t].op = celulares[t].op
             /\ celulares'[t].idade = Mais(celulares[t].idade)
  <2>1. celulares[t] \in WaiterSession
    BY <1>2 DEF OperadoresTypeOK
  <2> DEFINE h == Mais(celulares[t].idade)
  <2>2. h \in Horas
    BY <2>1, Older DEF WaiterSession
  <2>3. celulares'[t] = [celulares[t] EXCEPT !.idade = h]
    BY <1>1, <1>2
  <2> HIDE DEF h
  <2>4. celulares'[t].idade = h
    BY <2>1, <2>3 DEF WaiterSession
  <2>5. celulares'[t] \in WaiterSession /\ celulares'[t].op = celulares[t].op
    BY <2>1, <2>2, <2>3 DEF WaiterSession
  <2> QED BY <2>1, <2>4, <2>5 DEF h
<1>3. celulares' \in [Celulares -> WaiterSession \cup {SemSessao}]
  <2>1. ASSUME NEW t \in Celulares
        PROVE  celulares'[t] \in WaiterSession \cup {SemSessao}
    <3>1. CASE celulares[t] = SemSessao
      BY <1>1, <3>1
    <3>2. CASE celulares[t] # SemSessao
      BY <1>2, <3>2
    <3> QED BY <3>1, <3>2
  <2>2. DOMAIN celulares' = Celulares /\ celulares' = [t \in Celulares |-> celulares'[t]]
    BY <1>1
  <2> QED BY <2>1, <2>2
<1>4. \A q \in OpIds : /\ inativo[q] \in Horas /\ inativo[q] \in Nat
                       /\ inativo'[q] \in {0, Mais(inativo[q])}
                       /\ operadores[q].ativo => inativo'[q] = 0
  BY <1>1, Older DEF OperadoresTypeOK
<1>5. inativo' \in [OpIds -> Horas]
  <2>1. \A q \in OpIds : inativo'[q] \in Horas
    BY <1>4, Older
  <2>2. inativo' = [q \in OpIds |-> inativo'[q]]
    BY <1>1
  <2> QED BY <2>1, <2>2
<1>6. ASSUME NEW t \in Celulares, celulares'[t] # SemSessao
      PROVE  inativo'[celulares'[t].op] <= celulares'[t].idade
  <2>1. celulares[t] # SemSessao
    BY <1>1, <1>6
  <2>2. /\ celulares[t].op \in OpIds /\ celulares[t].idade \in Nat
        /\ inativo[celulares[t].op] <= celulares[t].idade
        /\ Mais(celulares[t].idade) \in Nat
    BY <1>2, <2>1, Older DEF WaiterSession, Idades
  <2>3. Mais(inativo[celulares[t].op]) <= Mais(celulares[t].idade)
    BY <1>4, <2>2, LessOrEqual
  <2>4. inativo'[celulares[t].op] \in {0, Mais(inativo[celulares[t].op])}
    BY <1>4, <2>2
  <2>5. inativo'[celulares[t].op] <= Mais(celulares[t].idade)
    BY <2>2, <2>3, <2>4
  <2> QED BY <1>2, <2>1, <2>5
<1>7. \A q \in OpIds : operadores'[q].ativo => inativo'[q] = 0
  BY <1>1, <1>4
<1>8. OperadoresTypeOK' /\ Idades'
  BY <1>1, <1>3, <1>5, <1>6, <1>7 DEF OperadoresTypeOK, Idades
<1> QED BY <1>1, <1>8 DEF Conhecidos, Existe


LEMMA AuthKeeps ==
  ASSUME OperadoresTypeOK, Idades, NEW t \in Celulares, NEW p, WaiterAuth(t, p)
  PROVE  OperadoresTypeOK' /\ Idades' /\ Conhecidos' = Conhecidos
<1>1. PICK o \in FindActiveByPin(p) :
        /\ celulares' = [celulares EXCEPT
             ![t] = [op |-> o, papel |-> operadores[o].papel, idade |-> 0]]
        /\ operadores' = operadores /\ terminal' = terminal /\ inativo' = inativo
  BY DEF WaiterAuth
<1> DEFINE s == [op |-> o, papel |-> operadores[o].papel, idade |-> 0]
<1>2. o \in OpIds /\ operadores[o].ativo /\ inativo[o] = 0
  BY DEF FindActiveByPin, ListActive, Idades
<1>3. operadores[o].papel \in Role
  BY <1>2 DEF OperadoresTypeOK, Operador, SemRegistro, Role
<1>4. s \in WaiterSession /\ s.op = o /\ s.idade = 0
  <2>1. 0 \in Horas
    BY OperadoresAssumption DEF Horas
  <2> QED BY <1>2, <1>3, <2>1 DEF WaiterSession
<1> HIDE DEF s
<1>5. celulares' = [celulares EXCEPT ![t] = s]
  BY <1>1 DEF s
<1>6. celulares' \in [Celulares -> WaiterSession \cup {SemSessao}]
  BY <1>4, <1>5 DEF OperadoresTypeOK
<1>7. ASSUME NEW u \in Celulares, celulares'[u] # SemSessao
      PROVE  inativo'[celulares'[u].op] <= celulares'[u].idade
  <2>1. CASE u = t
    <3>1. celulares'[u] = s
      BY <1>5, <2>1 DEF OperadoresTypeOK
    <3> QED BY <1>1, <1>2, <1>4, <3>1
  <2>2. CASE u # t
    <3>1. celulares'[u] = celulares[u]
      BY <1>5, <2>2 DEF OperadoresTypeOK
    <3> QED BY <1>1, <1>7, <3>1 DEF Idades
  <2> QED BY <2>1, <2>2
<1>8. OperadoresTypeOK' /\ Idades'
  BY <1>1, <1>6, <1>7 DEF OperadoresTypeOK, Idades
<1> QED BY <1>1, <1>8 DEF Conhecidos, Existe

(* The sessions of the phones that end: one of them, or all. *)
LEMMA EndingKeeps ==
  ASSUME OperadoresTypeOK, Idades,
         celulares' \in [Celulares -> WaiterSession \cup {SemSessao}],
         \A t \in Celulares : celulares'[t] \in {celulares[t], SemSessao},
         operadores' = operadores, terminal' = terminal, inativo' = inativo
  PROVE  OperadoresTypeOK' /\ Idades' /\ Conhecidos' = Conhecidos
<1>1. OperadoresTypeOK'
  BY DEF OperadoresTypeOK
<1>2. Idades'
  BY DEF Idades
<1> QED BY <1>1, <1>2 DEF Conhecidos, Existe

LEMMA TerminalKeeps ==
  ASSUME BancoOK, NEW c \in Boas(Conhecidos), TerminalCall(c)
  PROVE  BancoOK' /\ Conhecidos \subseteq Conhecidos'
<1>1. OperadoresTypeOK /\ Idades /\ base \in Base /\ c \in Ligacao
  BY DEF BancoOK, Boas
<1>2. ASSUME base' \in Base, UNCHANGED operadoresVars
      PROVE  BancoOK' /\ Conhecidos \subseteq Conhecidos'
  <2>1. /\ operadores' = operadores /\ terminal' = terminal /\ celulares' = celulares
        /\ inativo' = inativo
    BY <1>2 DEF operadoresVars
  <2> QED BY <1>1, <1>2, <2>1 DEF BancoOK, OperadoresTypeOK, Idades, Conhecidos, Existe
<1>3. ASSUME terminal' \in OpIds \cup {SemOp}, base' = base, operadores' = operadores,
             celulares' = celulares, inativo' = inativo
      PROVE  BancoOK' /\ Conhecidos \subseteq Conhecidos'
  BY <1>1, <1>3 DEF BancoOK, OperadoresTypeOK, Idades, Conhecidos, Existe
<1>4. CASE Login(c.form.pin) /\ UNCHANGED base
  <2>1. PICK o \in FindActiveByPin(c.form.pin) :
          terminal' = o /\ UNCHANGED <<operadores, celulares, inativo>>
    BY <1>4 DEF Login
  <2>2. terminal' \in OpIds
    BY <2>1 DEF FindActiveByPin, ListActive
  <2> QED BY <1>3, <1>4, <2>1, <2>2
<1>5. CASE LogoutTerminal /\ UNCHANGED base
  BY <1>3, <1>5 DEF LogoutTerminal
<1>6. CASE /\ c.fn \in {"saveOperator", "deactivateOperator"}
           /\ SaveOperator(IF c.form.para = Novo THEN Novato ELSE c.form.para, c.form.pin,
                           c.form.papel, c.fn = "saveOperator")
           /\ UNCHANGED base
  <2> DEFINE o == IF c.form.para = Novo THEN Novato ELSE c.form.para
             ativo == c.fn = "saveOperator"
  <2>1. c.form \in Form
    BY <1>1 DEF Ligacao
  <2>2. c.form.pin \in Pins \cup {SemPin} /\ c.form.papel \in Role
    BY <2>1 DEF Form
  <2>3. ~ativo => o \in Conhecidos
    <3>1. SUFFICES ASSUME c.fn = "deactivateOperator" PROVE o \in Conhecidos
      BY <1>6
    <3>2. c.form.para \in Conhecidos
      BY <3>1 DEF Boas
    <3> QED BY <3>2, InicioAssumption DEF Conhecidos
  <2>4. ativo \in BOOLEAN /\ SaveOperator(o, c.form.pin, c.form.papel, ativo)
    BY <1>6
  <2> HIDE DEF o, ativo
  <2>5. OperadoresTypeOK' /\ Idades' /\ Conhecidos \subseteq Conhecidos'
    BY <1>1, <2>2, <2>3, <2>4, SaveKeeps
  <2> QED BY <1>1, <1>6, <2>5 DEF BancoOK
<1>7. CASE base' = [base EXCEPT !.completa = TRUE] /\ UNCHANGED operadoresVars
  <2>1. base' \in Base
    BY <1>1, <1>7 DEF Base
  <2> QED BY <1>2, <1>7, <2>1
<1>8. CASE /\ base.produtos < MaxProdutos
           /\ base' = [base EXCEPT !.produtos = @ + 1]
           /\ UNCHANGED operadoresVars
  <2> DEFINE n == base.produtos + 1
  <2>1. n \in 0..MaxProdutos
    BY <1>1, <1>8, Numbers DEF Base
  <2>2. base' = [base EXCEPT !.produtos = n]
    BY <1>8
  <2> HIDE DEF n
  <2>3. base' \in Base
    BY <1>1, <2>1, <2>2 DEF Base
  <2> QED BY <1>2, <1>8, <2>3
<1>9. CASE SoLe
  BY <1>1, <1>2, <1>9, NothingWritten
<1> QED BY <1>4, <1>5, <1>6, <1>7, <1>8, <1>9 DEF TerminalCall

(* Every call, whoever makes it. *)
LEMMA CallKeeps ==
  ASSUME BancoOK, NEW c \in Boas(Conhecidos), NEW d, Trata(c, d)
  PROVE  BancoOK' /\ Conhecidos \subseteq Conhecidos'
<1>1. base \in Base /\ c \in Ligacao /\ (c.fn = "openComanda" => c.numero \in Numeros)
  BY DEF BancoOK, Boas
<1>2. ASSUME base' \in Base, UNCHANGED operadoresVars
      PROVE  BancoOK' /\ Conhecidos \subseteq Conhecidos'
  <2>1. /\ operadores' = operadores /\ terminal' = terminal /\ celulares' = celulares
        /\ inativo' = inativo
    BY <1>2 DEF operadoresVars
  <2> QED BY <1>1, <1>2, <2>1 DEF BancoOK, OperadoresTypeOK, Idades, Conhecidos, Existe
<1>3. CASE d \in Comandas /\ ComandaCall(c, d)
  BY <1>1, <1>2, <1>3, ComandaKeeps
<1>4. CASE CaixaCall(c)
  BY <1>1, <1>2, <1>4, CashKeeps
<1>5. CASE TerminalCall(c)
  BY <1>5, TerminalKeeps
<1>6. CASE StartCall(c, d)
  <2>1. SoLe
    BY <1>6 DEF StartCall
  <2> QED BY <1>1, <1>2, <2>1, NothingWritten
<1> QED BY <1>3, <1>4, <1>5, <1>6 DEF Trata


-----------------------------------------------------------------------------
(* The answers *)

LEMMA PartsOf == \A fn \in Funcoes : PartesDe(fn) \subseteq Partes
BY DEF PartesDe, Partes, Funcoes

(* What the services read at the end of a call. *)
LEMMA Shown ==
  ASSUME BancoOK'
  PROVE  /\ Foto'["comandas"] \in ComandasNaTela
         /\ Foto'["caixa"] \in CaixaNaTela
         /\ Foto'["sessao"] \in OpIds \cup {SemOp}
         /\ Foto'["equipe"] \in Equipe
         /\ \A o \in OpIds : Foto'["equipe"][o] # "INATIVO" => o \in Conhecidos'
         /\ Foto'["instalacao"] \in BOOLEAN
         /\ Foto'["catalogo"] \in Nat
<1>1. base' \in Base /\ terminal' \in OpIds \cup {SemOp}
      /\ operadores' \in [OpIds -> Operador \cup {SemRegistro}]
  BY DEF BancoOK, OperadoresTypeOK
<1> DEFINE x == [c \in Comandas |-> IF base'.comandas[c].status \in Ativas
                                    THEN base'.comandas[c] ELSE NaoAberta]
           e == [o \in OpIds |-> IF operadores'[o].ativo THEN operadores'[o].papel
                                                         ELSE "INATIVO"]
<1>2. Foto' = [comandas |-> x, caixa |-> base'.caixa, sessao |-> terminal', equipe |-> e,
               instalacao |-> base'.completa, catalogo |-> base'.produtos]
  BY DEF Foto, IsActive
<1>3. x \in ComandasNaTela
  BY <1>1 DEF Base, ComandasNaTela
<1>4. \A o \in OpIds : operadores'[o] \in Operador \/ operadores'[o] = SemRegistro
  BY <1>1
<1>5. ~SemRegistro.ativo /\ \A r \in Operador : r.papel \in Role
  BY DEF SemRegistro, Operador
<1>6. \A o \in OpIds : e[o] \in Role \cup {"INATIVO"}
  BY <1>4, <1>5
<1>7. \A o \in OpIds : e[o] # "INATIVO" => o \in Conhecidos'
  BY <1>4, <1>5 DEF Conhecidos, Existe
<1>8. e \in Equipe
  BY <1>6 DEF Equipe
<1>9. /\ base'.caixa \in CaixaNaTela /\ base'.completa \in BOOLEAN
      /\ base'.produtos \in 0..MaxProdutos
  BY <1>1 DEF Base, CaixaNaTela
<1>10. base'.produtos \in Nat
  BY <1>9, Numbers
<1> HIDE DEF x, e
<1> QED BY <1>1, <1>2, <1>3, <1>7, <1>8, <1>9, <1>10

LEMMA AnswerIsGood ==
  ASSUME BancoOK', NEW c \in Boas(Conhecidos), Conhecidos \subseteq Conhecidos',
         NEW d \in Comandas \cup {0}, NEW papel \in Role,
         NEW foto, foto = [p \in PartesDe(c.fn) |-> Foto'[p]]
  PROVE  [c EXCEPT !.res = "ok", !.comanda = d, !.papel = papel, !.foto = foto]
           \in Boas(Conhecidos')
<1> DEFINE r == [c EXCEPT !.res = "ok", !.comanda = d, !.papel = papel, !.foto = foto]
<1>1. /\ c \in Ligacao /\ c.fn \in Funcoes
      /\ c.fn = "openComanda" => c.numero \in Numeros
      /\ c.fn = "saveOperator" => PinCerto(c.form)
      /\ c.fn = "deactivateOperator" => c.form.para \in Conhecidos'
  BY DEF Boas, Ligacao
<1>2. PartesDe(c.fn) \subseteq Partes
  BY <1>1, PartsOf
<1>3. \A p \in Partes : Foto'[p] \in Valores
  BY Shown DEF Partes, Valores
<1>4. foto \in [PartesDe(c.fn) -> Valores]
  BY <1>2, <1>3
<1>5. foto \in Fotos
  BY <1>2, <1>4 DEF Fotos
<1>6. /\ r \in Ligacao /\ r.fn = c.fn /\ r.numero = c.numero /\ r.form = c.form
      /\ r.foto = foto /\ r.res = "ok"
  BY <1>1, <1>5 DEF Ligacao
<1> HIDE DEF r
<1>7. FotoOK(r, Conhecidos')
  <2>1. \A p \in PartesDe(r.fn) : r.foto[p] = Foto'[p]
    BY <1>6
  <2> QED BY <2>1, Shown DEF FotoOK
<1>8. r \in Boas(Conhecidos')
  BY <1>1, <1>6, <1>7 DEF Boas
<1> QED BY <1>8 DEF r

LEMMA RefusalIsGood ==
  ASSUME NEW k, NEW c \in Boas(k), NEW res \in {"erro", "recusa"}
  PROVE  [c EXCEPT !.res = res] \in Boas(k)
<1> DEFINE r == [c EXCEPT !.res = res]
<1>1. r \in Ligacao /\ r.fn = c.fn /\ r.numero = c.numero /\ r.form = c.form /\ r.res = res
  BY DEF Boas, Ligacao
<1> HIDE DEF r
<1>2. r \in Boas(k)
  BY <1>1 DEF Boas
<1> QED BY <1>2 DEF r

LEMMA Serve ==
  ASSUME TerminalInv, Atende
  PROVE  TerminalInv'
<1>0. tela' = tela
  BY Zenon DEF Atende
<1>1. PICK i \in DOMAIN canal :
        \/ \E d \in Comandas \cup {0} :
             /\ Trata(canal[i], d)
             /\ \/ /\ canal' = [canal EXCEPT ![i] =
                        [canal[i] EXCEPT !.res = "ok", !.comanda = d,
                                  !.papel = IF terminal' = SemOp THEN "GARCOM"
                                            ELSE operadores'[terminal'].papel,
                                  !.foto = [p \in PartesDe(canal[i].fn) |-> Foto'[p]]]]
                   /\ calado' = (calado \cup (Mudou \ {"catalogo"}))
                                  \ PartesDe(canal[i].fn)
                \/ /\ canal' = [canal EXCEPT ![i].res = "erro"]
                   /\ calado' = calado \cup Mudou
        \/ /\ canal' = [canal EXCEPT ![i].res = "erro"]
           /\ UNCHANGED <<operadoresVars, base, calado>>
        \/ /\ canal' = [canal EXCEPT ![i].res = "recusa"]
           /\ UNCHANGED <<operadoresVars, base, calado>>
  BY Zenon DEF Atende
<1> DEFINE c == canal[i]
<1>2. /\ BancoOK /\ canal \in Seq(Boas(Conhecidos)) /\ TelaOK(tela, Conhecidos)
      /\ calado \subseteq Partes /\ c \in Boas(Conhecidos) /\ tela' = tela
  <2>1. canal \in Seq(Boas(Conhecidos)) /\ i \in DOMAIN canal
    BY DEF TerminalInv
  <2>2. c \in Boas(Conhecidos)
    BY <2>1
  <2> QED BY <1>0, <2>2 DEF TerminalInv
<1>3. Mudou \subseteq Partes
  BY DEF Mudou
<1>4. ASSUME BancoOK', Conhecidos \subseteq Conhecidos', NEW r \in Boas(Conhecidos'),
             canal' = [canal EXCEPT ![i] = r], calado' \subseteq Partes
      PROVE  TerminalInv'
  <2>1. canal \in Seq(Boas(Conhecidos'))
    BY <1>2, <1>4, Larger, SeqMonotonic
  <2>2. canal' \in Seq(Boas(Conhecidos'))
    BY <1>4, <2>1, ExceptSeq
  <2>3. TelaOK(tela', Conhecidos')
    BY <1>2, <1>4, Larger
  <2> QED BY <1>4, <2>2, <2>3 DEF TerminalInv
<1>5. ASSUME NEW d \in Comandas \cup {0}, Trata(c, d),
             canal' = [canal EXCEPT ![i] =
                [c EXCEPT !.res = "ok", !.comanda = d,
                          !.papel = IF terminal' = SemOp THEN "GARCOM"
                                    ELSE operadores'[terminal'].papel,
                          !.foto = [p \in PartesDe(c.fn) |-> Foto'[p]]]],
             calado' = (calado \cup (Mudou \ {"catalogo"})) \ PartesDe(c.fn)
      PROVE  TerminalInv'
  <2> DEFINE papel == IF terminal' = SemOp THEN "GARCOM" ELSE operadores'[terminal'].papel
             foto == [p \in PartesDe(c.fn) |-> Foto'[p]]
             r == [c EXCEPT !.res = "ok", !.comanda = d, !.papel = papel, !.foto = foto]
  <2>1. BancoOK' /\ Conhecidos \subseteq Conhecidos'
    <3> HIDE DEF c
    <3> QED BY <1>2, <1>5, CallKeeps
  <2>2. papel \in Role
    BY <2>1 DEF BancoOK, OperadoresTypeOK, Operador, SemRegistro, Role
  <2>3. r \in Boas(Conhecidos')
    <3>1. foto = [p \in PartesDe(c.fn) |-> Foto'[p]]
      OBVIOUS
    <3> HIDE DEF c, papel, foto
    <3>2. d \in Comandas \cup {0}
      BY <1>5
    <3> QED BY <1>2, <2>1, <2>2, <3>1, <3>2, AnswerIsGood, Zenon
  <2>4. canal' = [canal EXCEPT ![i] = r] /\ calado' \subseteq Partes
    BY <1>2, <1>3, <1>5
  <2> HIDE DEF r
  <2> QED BY <1>4, <2>1, <2>3, <2>4
<1>6. ASSUME NEW res \in {"erro", "recusa"}, canal' = [canal EXCEPT ![i].res = res],
             BancoOK', Conhecidos \subseteq Conhecidos', calado' \subseteq Partes
      PROVE  TerminalInv'
  <2> DEFINE r == [c EXCEPT !.res = res]
  <2>1. r \in Boas(Conhecidos')
    <3>1. c \in Boas(Conhecidos')
      BY <1>2, <1>6, Larger
    <3> QED BY <3>1, RefusalIsGood
  <2>2. canal' = [canal EXCEPT ![i] = r]
    BY <1>6
  <2> HIDE DEF r
  <2> QED BY <1>4, <1>6, <2>1, <2>2
<1>7. ASSUME NEW d \in Comandas \cup {0}, Trata(c, d),
             canal' = [canal EXCEPT ![i].res = "erro"], calado' = calado \cup Mudou
      PROVE  TerminalInv'
  <2>1. BancoOK' /\ Conhecidos \subseteq Conhecidos'
    <3> HIDE DEF c
    <3> QED BY <1>2, <1>7, CallKeeps
  <2> QED BY <1>2, <1>3, <1>6, <1>7, <2>1
<1>8. ASSUME NEW res \in {"erro", "recusa"}, canal' = [canal EXCEPT ![i].res = res],
             UNCHANGED <<operadoresVars, base, calado>>
      PROVE  TerminalInv'
  <2>1. /\ operadores' = operadores /\ terminal' = terminal /\ celulares' = celulares
        /\ inativo' = inativo /\ base' = base /\ calado' = calado
    BY <1>8 DEF operadoresVars
  <2>2. BancoOK' /\ Conhecidos' = Conhecidos
    BY <1>2, <2>1 DEF BancoOK, OperadoresTypeOK, Idades, Conhecidos, Existe
  <2> QED BY <1>2, <1>6, <1>8, <2>1, <2>2
<1> HIDE DEF c
<1> QED BY <1>1, <1>5, <1>7, <1>8, Zenon DEF c


-----------------------------------------------------------------------------
(* What the shell does with an answer *)

LEMMA ComandasShown ==
  ASSUME NEW k, NEW t, TelaOK(t, k), NEW c \in Ligacao, c.foto.comandas \in ComandasNaTela
  PROVE  TelaOK(ApplyComandaWorkspaceSnapshot(t, c), k)
<1> DEFINE s == IF /\ c.fn \notin {"openComanda", "getComandaWorkspace"}
                   /\ t.selecionada # 0
                   /\ c.foto.comandas[t.selecionada] # NaoAberta
                THEN t.selecionada ELSE c.comanda
           x == c.foto.comandas
           r == [t EXCEPT !.comandas = x, !.selecionada = s]
<1>1. t \in Tela
  BY DEF TelaOK
<1>2. s \in Comandas \cup {0} /\ x \in ComandasNaTela
  BY <1>1 DEF Tela, Ligacao
<1>3. ApplyComandaWorkspaceSnapshot(t, c) = r
  BY DEF ApplyComandaWorkspaceSnapshot
<1> HIDE DEF s, x
<1>4. r \in Tela /\ r.form = t.form /\ r.equipe = t.equipe
  BY <1>1, <1>2 DEF Tela
<1> HIDE DEF r
<1> QED BY <1>3, <1>4 DEF TelaOK

LEMMA CashShown ==
  ASSUME NEW k, NEW t, TelaOK(t, k), NEW c, c.foto.caixa \in CaixaNaTela
  PROVE  TelaOK(ApplyCashWorkspaceSnapshot(t, c), k)
<1> DEFINE x == c.foto.caixa
           r == [t EXCEPT !.caixa = x]
<1>1. t \in Tela /\ x \in CaixaNaTela
  BY DEF TelaOK
<1>2. ApplyCashWorkspaceSnapshot(t, c) = r
  BY DEF ApplyCashWorkspaceSnapshot
<1> HIDE DEF x
<1>3. r \in Tela /\ r.form = t.form /\ r.equipe = t.equipe
  BY <1>1 DEF Tela
<1> HIDE DEF r
<1> QED BY <1>2, <1>3 DEF TelaOK

LEMMA SessionShown ==
  ASSUME NEW k, NEW t, TelaOK(t, k), NEW c \in Ligacao, c.foto.sessao \in OpIds \cup {SemOp}
  PROVE  TelaOK(AuthSucceeded(t, c), k)
<1> DEFINE x == c.foto.sessao
           p == c.papel
           r == [t EXCEPT !.sessao = x, !.papel = p, !.validando = FALSE]
<1>1. t \in Tela /\ x \in OpIds \cup {SemOp} /\ p \in Role
  BY DEF TelaOK, Ligacao
<1>2. AuthSucceeded(t, c) = r
  BY DEF AuthSucceeded
<1> HIDE DEF x, p
<1>3. r \in Tela /\ r.form = t.form /\ r.equipe = t.equipe
  BY <1>1 DEF Tela
<1> HIDE DEF r
<1> QED BY <1>2, <1>3 DEF TelaOK

(* The flags of the forms, and nothing else. *)
LEMMA FlagsShown ==
  ASSUME NEW k, NEW t, TelaOK(t, k)
  PROVE  /\ TelaOK([t EXCEPT !.validando = FALSE], k)
         /\ TelaOK([t EXCEPT !.salvando = FALSE], k)
         /\ TelaOK([t EXCEPT !.instalando = FALSE], k)
<1>1. t \in Tela
  BY DEF TelaOK
<1>2. ASSUME NEW r \in Tela, r.form = t.form, r.equipe = t.equipe
      PROVE  TelaOK(r, k)
  BY <1>2 DEF TelaOK
<1>3. /\ [t EXCEPT !.validando = FALSE] \in Tela
      /\ [t EXCEPT !.validando = FALSE].form = t.form
      /\ [t EXCEPT !.validando = FALSE].equipe = t.equipe
  BY <1>1 DEF Tela
<1>4. /\ [t EXCEPT !.salvando = FALSE] \in Tela
      /\ [t EXCEPT !.salvando = FALSE].form = t.form
      /\ [t EXCEPT !.salvando = FALSE].equipe = t.equipe
  BY <1>1 DEF Tela
<1>5. /\ [t EXCEPT !.instalando = FALSE] \in Tela
      /\ [t EXCEPT !.instalando = FALSE].form = t.form
      /\ [t EXCEPT !.instalando = FALSE].equipe = t.equipe
  BY <1>1 DEF Tela
<1>6. TelaOK([t EXCEPT !.validando = FALSE], k)
  BY <1>2, <1>3
<1>7. TelaOK([t EXCEPT !.salvando = FALSE], k)
  BY <1>2, <1>4
<1>8. TelaOK([t EXCEPT !.instalando = FALSE], k)
  BY <1>2, <1>5
<1> QED BY <1>6, <1>7, <1>8

LEMMA StartShown ==
  ASSUME NEW k, NEW t, TelaOK(t, k), NEW c \in Ligacao, FotoOK(c, k), c.fn = "start"
  PROVE  TelaOK(Loaded(t, c), k)
<1> DEFINE u == ApplyOperationalSnapshot(t, c)
           e == c.foto.equipe
           i == c.foto.instalacao
           n == c.foto.catalogo
           r == [u EXCEPT !.equipe = e, !.instalacao = i, !.catalogo = n, !.pronta = TRUE]
<1>1. /\ c.foto.comandas \in ComandasNaTela /\ c.foto.caixa \in CaixaNaTela
      /\ c.foto.sessao \in OpIds \cup {SemOp}
      /\ e \in Equipe /\ (\A o \in OpIds : e[o] # "INATIVO" => o \in k)
      /\ i \in BOOLEAN /\ n \in Nat
  BY DEF FotoOK, PartesDe, Partes
<1>2. TelaOK(u, k)
  BY <1>1, ComandasShown, CashShown DEF ApplyOperationalSnapshot
<1>3. Loaded(t, c) = IF c.foto.sessao = SemOp THEN r ELSE AuthSucceeded(r, c)
  BY DEF Loaded
<1> HIDE DEF u, e, i, n
<1>4. r \in Tela /\ r.form = u.form /\ r.equipe = e
  BY <1>1, <1>2 DEF Tela, TelaOK
<1> HIDE DEF r
<1>5. TelaOK(r, k)
  BY <1>1, <1>2, <1>4 DEF TelaOK
<1>6. TelaOK(AuthSucceeded(r, c), k)
  BY <1>1, <1>5, SessionShown
<1> QED BY <1>3, <1>5, <1>6

LEMMA OtherParts ==
  \A fn \in {"start", "login", "logout", "listOperators", "listOperatorsLeft",
             "listPrintPrinters", "upsertCatalogProduct", "confirmComandaPayment"} :
    PartesDe(fn) # {"caixa"} /\ PartesDe(fn) # {"comandas"}
BY DEF PartesDe, Partes

LEMMA Applied ==
  ASSUME NEW k, NEW t, TelaOK(t, k), NEW c \in Boas(k), c.res = "ok"
  PROVE  TelaOK(Aplica(t, c), k)
<1>1. c \in Ligacao /\ c.fn \in Funcoes /\ FotoOK(c, k) /\ c.form \in Form
  BY DEF Boas, Ligacao
<1>2. CASE c.fn = "start"
  BY <1>1, <1>2, StartShown, OtherParts DEF Aplica
<1>3. CASE c.fn = "login"
  <2>1. c.foto.sessao \in OpIds \cup {SemOp}
    BY <1>1, <1>3 DEF FotoOK, PartesDe
  <2>2. Aplica(t, c) = AuthSucceeded(t, c)
    BY <1>3, OtherParts DEF Aplica
  <2> QED BY <1>1, <2>1, <2>2, SessionShown
<1>4. CASE c.fn = "logout"
  <2> DEFINE r == [t EXCEPT !.sessao = SemOp, !.papel = "GARCOM", !.validando = FALSE]
  <2>1. Aplica(t, c) = r
    BY <1>4, OtherParts DEF Aplica
  <2>2. r \in Tela /\ r.form = t.form /\ r.equipe = t.equipe
    BY DEF Tela, TelaOK, Role
  <2> HIDE DEF r
  <2> QED BY <2>1, <2>2 DEF TelaOK
<1>5. CASE c.fn \in {"listOperators", "listOperatorsLeft"}
  <2> DEFINE e == c.foto.equipe
             volta == IF c.form.para = Novo THEN FormNovo
                      ELSE FormDe(c.form.para, c.form.papel)
  <2>1. e \in Equipe /\ \A o \in OpIds : e[o] # "INATIVO" => o \in k
    BY <1>1, <1>5 DEF FotoOK, PartesDe
  <2>2. volta \in Form /\ PinCerto(volta) /\ FormNovo \in Form /\ PinCerto(FormNovo)
    BY <1>1, Forms DEF Form
  <2>3. CASE c.fn = "listOperators"
    <3> DEFINE r == [t EXCEPT !.equipe = e, !.form = volta, !.salvando = FALSE]
    <3>1. Aplica(t, c) = r
      BY <2>3, OtherParts DEF Aplica, TeamSaved
    <3> HIDE DEF e, volta
    <3>2. r \in Tela /\ r.form = volta /\ r.equipe = e
      BY <2>1, <2>2 DEF Tela, TelaOK
    <3> HIDE DEF r
    <3> QED BY <2>1, <2>2, <3>1, <3>2 DEF TelaOK
  <2>4. CASE c.fn = "listOperatorsLeft"
    <3> DEFINE r == [t EXCEPT !.equipe = e, !.form = FormNovo]
    <3>1. Aplica(t, c) = r
      BY <2>4, OtherParts DEF Aplica, TeamLeft
    <3> HIDE DEF e, volta
    <3>2. r \in Tela /\ r.form = FormNovo /\ r.equipe = e
      BY <2>1, <2>2 DEF Tela, TelaOK
    <3> HIDE DEF r
    <3> QED BY <2>1, <2>2, <3>1, <3>2 DEF TelaOK
  <2> QED BY <1>5, <2>3, <2>4
<1>6. CASE c.fn = "listPrintPrinters"
  <2> DEFINE i == c.foto.instalacao
             r == [t EXCEPT !.instalacao = i, !.instalando = FALSE]
  <2>1. i \in BOOLEAN
    BY <1>1, <1>6 DEF FotoOK, PartesDe
  <2>2. Aplica(t, c) = r
    BY <1>6, OtherParts DEF Aplica
  <2> HIDE DEF i
  <2>3. r \in Tela /\ r.form = t.form /\ r.equipe = t.equipe
    BY <2>1 DEF Tela, TelaOK
  <2> HIDE DEF r
  <2> QED BY <2>2, <2>3 DEF TelaOK
<1>7. CASE c.fn = "upsertCatalogProduct"
  <2> DEFINE n == t.catalogo + 1
             r == [t EXCEPT !.catalogo = n]
  <2>1. n \in Nat
    BY DEF Tela, TelaOK
  <2>2. Aplica(t, c) = r
    BY <1>7, OtherParts DEF Aplica
  <2> HIDE DEF n
  <2>3. r \in Tela /\ r.form = t.form /\ r.equipe = t.equipe
    BY <2>1 DEF Tela, TelaOK
  <2> HIDE DEF r
  <2> QED BY <2>2, <2>3 DEF TelaOK
<1>8. CASE c.fn = "confirmComandaPayment"
  <2>1. c.foto.comandas \in ComandasNaTela /\ c.foto.caixa \in CaixaNaTela
    BY <1>1, <1>8 DEF FotoOK, PartesDe
  <2>2. Aplica(t, c) = ApplyOperationalSnapshot(t, c)
    BY <1>8, OtherParts DEF Aplica
  <2> QED BY <1>1, <2>1, <2>2, ComandasShown, CashShown DEF ApplyOperationalSnapshot
<1>9. CASE c.fn \in Funcoes \ {"start", "login", "logout", "listOperators",
                               "listOperatorsLeft", "listPrintPrinters",
                               "upsertCatalogProduct", "confirmComandaPayment"}
  <2>1. Aplica(t, c) = IF PartesDe(c.fn) = {"caixa"} THEN ApplyCashWorkspaceSnapshot(t, c)
                       ELSE IF PartesDe(c.fn) = {"comandas"}
                       THEN ApplyComandaWorkspaceSnapshot(t, c) ELSE t
    BY <1>9 DEF Aplica
  <2>2. "caixa" \in PartesDe(c.fn) => c.foto.caixa \in CaixaNaTela
    BY <1>1 DEF FotoOK
  <2>3. "comandas" \in PartesDe(c.fn) => c.foto.comandas \in ComandasNaTela
    BY <1>1 DEF FotoOK
  <2> QED BY <1>1, <2>1, <2>2, <2>3, ComandasShown, CashShown
<1> QED BY <1>1, <1>2, <1>3, <1>4, <1>5, <1>6, <1>7, <1>8, <1>9


LEMMA FailureShown ==
  ASSUME NEW k, NEW t, TelaOK(t, k), NEW c
  PROVE  TelaOK(HandleDomainError(t, c), k)
<1>1. CASE c.fn \in {"saveOperator", "listOperators"}
  <2>1. HandleDomainError(t, c) = [t EXCEPT !.salvando = FALSE]
    BY <1>1 DEF HandleDomainError
  <2> QED BY <2>1, FlagsShown
<1>2. CASE c.fn \in {"completeFirstRun", "listPrintPrinters"}
  <2>1. HandleDomainError(t, c) = [t EXCEPT !.instalando = FALSE]
    BY <1>2 DEF HandleDomainError
  <2> QED BY <2>1, FlagsShown
<1>3. CASE c.fn \notin {"saveOperator", "listOperators", "completeFirstRun",
                        "listPrintPrinters"}
  <2>1. HandleDomainError(t, c) = t
    BY <1>3 DEF HandleDomainError
  <2> QED BY <2>1
<1> QED BY <1>1, <1>2, <1>3

(* The call that the same press makes next is a good one. *)
LEMMA NextCall ==
  ASSUME NEW k, NEW c \in Boas(k)
  PROVE  Continua(c) \in Seq(Boas(k))
<1>1. c \in Ligacao
  BY DEF Boas
<1>2. ASSUME NEW fn \in {"listOperators", "listOperatorsLeft", "startComandaCheckout"}
      PROVE  [c EXCEPT !.fn = fn, !.res = "pendente"] \in Boas(k)
  <2> DEFINE r == [c EXCEPT !.fn = fn, !.res = "pendente"]
  <2>0. fn \in Funcoes
    BY DEF Funcoes
  <2>1. r \in Ligacao /\ r.fn = fn /\ r.res = "pendente"
    BY <1>1, <2>0 DEF Ligacao
  <2> HIDE DEF r
  <2>2. r \in Boas(k)
    BY <2>1 DEF Boas
  <2> QED BY <2>2 DEF r
<1>3. [Pedido EXCEPT !.fn = "listPrintPrinters"] \in Boas(k)
  <2>1. 0 \in Comandas \cup {0} /\ "lancados" \in {"lancados", "enviados"}
    OBVIOUS
  <2>2. "listPrintPrinters" \in
          Funcoes \ {"openComanda", "saveOperator", "deactivateOperator"}
    BY DEF Funcoes
  <2> QED BY <2>1, <2>2, PlainCall, Zenon
<1>4. ASSUME NEW x \in Boas(k)
      PROVE  <<x>> \in Seq(Boas(k))
  BY <1>4
<1>5. <<>> \in Seq(Boas(k))
  OBVIOUS
<1>6. CASE c.fn = "saveOperator"
  <2>1. Continua(c) = <<[c EXCEPT !.fn = "listOperators", !.res = "pendente"]>>
    BY <1>6 DEF Continua
  <2> QED BY <1>2, <1>4, <2>1
<1>7. CASE c.fn = "deactivateOperator"
  <2>1. Continua(c) = <<[c EXCEPT !.fn = "listOperatorsLeft", !.res = "pendente"]>>
    BY <1>7 DEF Continua
  <2> QED BY <1>2, <1>4, <2>1
<1>8. CASE c.fn = "completeFirstRun"
  <2>1. Continua(c) = <<[Pedido EXCEPT !.fn = "listPrintPrinters"]>>
    BY <1>8 DEF Continua
  <2> QED BY <1>3, <1>4, <2>1
<1>9. CASE c.fn = "sendFirst"
  <2>1. Continua(c) = <<[c EXCEPT !.fn = "startComandaCheckout", !.res = "pendente"]>>
    BY <1>9 DEF Continua
  <2> QED BY <1>2, <1>4, <2>1
<1>10. CASE c.fn \notin {"saveOperator", "deactivateOperator", "completeFirstRun",
                         "sendFirst"}
  <2>1. Continua(c) = <<>>
    BY <1>10 DEF Continua
  <2> QED BY <1>5, <2>1
<1> QED BY <1>6, <1>7, <1>8, <1>9, <1>10

LEMMA Receive ==
  ASSUME TerminalInv, Recebe
  PROVE  TerminalInv'
<1> DEFINE c == Head(canal)
<1>1. /\ canal # <<>>
      /\ \/ /\ c.res = "ok" /\ tela' = Aplica(tela, c)
            /\ canal' = Tail(canal) \o Continua(c)
         \/ /\ c.res = "erro" /\ tela' = HandleDomainError(tela, c)
            /\ canal' = Tail(canal)
         \/ /\ c.res = "recusa" /\ tela' = [tela EXCEPT !.validando = FALSE]
            /\ canal' = Tail(canal)
  BY DEF Recebe
<1>2. /\ operadores' = operadores /\ terminal' = terminal /\ celulares' = celulares
      /\ inativo' = inativo /\ base' = base /\ calado' = calado
  BY DEF Recebe, operadoresVars
<1>3. /\ canal \in Seq(Boas(Conhecidos)) /\ TelaOK(tela, Conhecidos) /\ BancoOK
      /\ calado \subseteq Partes
  BY DEF TerminalInv
<1>4. c \in Boas(Conhecidos) /\ Tail(canal) \in Seq(Boas(Conhecidos))
  BY <1>1, <1>3, HeadTailProperties
<1> HIDE DEF c
<1>5. BancoOK' /\ Conhecidos' = Conhecidos
  BY <1>2, <1>3 DEF BancoOK, OperadoresTypeOK, Idades, Conhecidos, Existe
<1>6. canal' \in Seq(Boas(Conhecidos))
  <2>1. Continua(c) \in Seq(Boas(Conhecidos))
    BY <1>4, NextCall
  <2>2. Tail(canal) \o Continua(c) \in Seq(Boas(Conhecidos))
    BY <1>4, <2>1, ConcatProperties
  <2> QED BY <1>1, <1>4, <2>2
<1>7. TelaOK(tela', Conhecidos)
  <2>1. CASE c.res = "ok" /\ tela' = Aplica(tela, c)
    BY <1>3, <1>4, <2>1, Applied
  <2>2. CASE tela' = HandleDomainError(tela, c)
    BY <1>3, <2>2, FailureShown
  <2>3. CASE tela' = [tela EXCEPT !.validando = FALSE]
    BY <1>3, <2>3, FlagsShown
  <2> QED BY <1>1, <2>1, <2>2, <2>3
<1> QED BY <1>2, <1>3, <1>5, <1>6, <1>7 DEF TerminalInv


-----------------------------------------------------------------------------
(* The phones, the clock and the restart *)

LEMMA PhonesKeep ==
  ASSUME TerminalInv, Telefone
  PROVE  TerminalInv'
<1>1. /\ BancoOK /\ OperadoresTypeOK /\ Idades /\ base \in Base
      /\ canal \in Seq(Boas(Conhecidos)) /\ TelaOK(tela, Conhecidos)
      /\ calado \subseteq Partes
  BY DEF TerminalInv, BancoOK
<1>2. ASSUME BancoOK', Conhecidos \subseteq Conhecidos', canal' = canal, tela' = tela,
             calado' \subseteq Partes
      PROVE  TerminalInv'
  <2>1. canal \in Seq(Boas(Conhecidos'))
    BY <1>1, <1>2, Larger, SeqMonotonic
  <2>2. TelaOK(tela, Conhecidos')
    BY <1>1, <1>2, Larger
  <2> QED BY <1>2, <2>1, <2>2 DEF TerminalInv
<1>3. ASSUME NEW t \in Celulares, WaiterRequest(t)
      PROVE  TerminalInv'
  <2>1. /\ canal' = canal /\ tela' = tela /\ calado' = calado \cup Mudou
    BY <1>3, Zenon DEF WaiterRequest
  <2>2. PICK fn \in {"openComanda", "addComandaItem", "sendComandaToProduction"},
             n \in Numeros, c \in Comandas :
          Trata([Pedido EXCEPT !.fn = fn, !.numero = n, !.comanda = c], c)
    BY <1>3, Zenon DEF WaiterRequest
  <2> DEFINE r == [Pedido EXCEPT !.fn = fn, !.numero = n, !.comanda = c]
  <2>3. fn \in Funcoes
    BY DEF Funcoes
  <2>4. r \in Ligacao /\ r.fn = fn /\ r.numero = n /\ r.res = "pendente"
    BY <2>3, FirstCall DEF Ligacao
  <2>5. Trata(r, c)
    BY <2>2
  <2> HIDE DEF r
  <2>6. r \in Boas(Conhecidos)
    BY <2>4 DEF Boas
  <2>7. BancoOK' /\ Conhecidos \subseteq Conhecidos'
    BY <1>1, <2>5, <2>6, CallKeeps
  <2>8. Mudou \subseteq Partes
    BY DEF Mudou
  <2> QED BY <1>1, <1>2, <2>1, <2>7, <2>8
<1>4. ASSUME NEW t \in Celulares, WaiterExpired(t), UNCHANGED <<base, canal, tela, calado>>
      PROVE  TerminalInv'
  <2>1. /\ celulares' = [celulares EXCEPT ![t] = SemSessao]
        /\ operadores' = operadores /\ terminal' = terminal /\ inativo' = inativo
    BY <1>4 DEF WaiterExpired
  <2>2. /\ celulares' \in [Celulares -> WaiterSession \cup {SemSessao}]
        /\ \A u \in Celulares : celulares'[u] \in {celulares[u], SemSessao}
    BY <1>1, <2>1 DEF OperadoresTypeOK
  <2>3. OperadoresTypeOK' /\ Idades' /\ Conhecidos' = Conhecidos
    BY <1>1, <2>1, <2>2, EndingKeeps
  <2>4. BancoOK'
    BY <1>1, <1>4, <2>3 DEF BancoOK
  <2> QED BY <1>1, <1>2, <1>4, <2>3, <2>4
<1>5. ASSUME NEW t \in Celulares, NEW p \in Pins, WaiterAuth(t, p),
             UNCHANGED <<base, canal, tela, calado>>
      PROVE  TerminalInv'
  <2>1. OperadoresTypeOK' /\ Idades' /\ Conhecidos' = Conhecidos
    BY <1>1, <1>5, AuthKeeps
  <2>2. BancoOK'
    BY <1>1, <1>5, <2>1 DEF BancoOK
  <2> QED BY <1>1, <1>2, <1>5, <2>1, <2>2
<1> QED BY <1>3, <1>4, <1>5, Zenon DEF Telefone

LEMMA ClockKeeps ==
  ASSUME TerminalInv, Relogio
  PROVE  TerminalInv'
<1>1. /\ Hora /\ base' = base /\ canal' = canal /\ tela' = tela /\ calado' = calado
  BY DEF Relogio
<1>2. OperadoresTypeOK /\ Idades /\ base \in Base
  BY DEF TerminalInv, BancoOK
<1>3. OperadoresTypeOK' /\ Idades' /\ Conhecidos' = Conhecidos
  BY <1>1, <1>2, HourKeeps
<1>4. BancoOK'
  BY <1>1, <1>2, <1>3 DEF BancoOK
<1> QED BY <1>1, <1>3, <1>4 DEF TerminalInv

LEMMA FirstScreen ==
  ASSUME NEW k
  PROVE  TelaOK(CreateInitialShellState, k) /\ <<Pedido>> \in Seq(Boas(k))
<1> DEFINE x == [c \in Comandas |-> NaoAberta]
           e == [o \in OpIds |-> "INATIVO"]
           t == CreateInitialShellState
<1>1. x \in ComandasNaTela /\ e \in Equipe /\ SemCaixa \in CaixaNaTela
  BY Numbers DEF ComandasNaTela, Equipe, SemCaixa, CaixaNaTela, CaixaStatus
<1>2. "GARCOM" \in Role /\ 0 \in Nat /\ FormNovo \in Form /\ PinCerto(FormNovo)
  BY Forms DEF Role
<1>3. t = [comandas |-> x, caixa |-> SemCaixa, sessao |-> SemOp, equipe |-> e,
           instalacao |-> TRUE, catalogo |-> 0, pronta |-> FALSE, papel |-> "GARCOM",
           validando |-> FALSE, selecionada |-> 0, instalando |-> FALSE,
           form |-> FormNovo, salvando |-> FALSE]
  BY DEF CreateInitialShellState
<1>4. \A o \in OpIds : e[o] = "INATIVO"
  OBVIOUS
<1> HIDE DEF x, e, t
<1>5. t \in Tela /\ t.form = FormNovo /\ t.equipe = e
  BY <1>1, <1>2, <1>3 DEF Tela
<1>6. TelaOK(t, k)
  BY <1>2, <1>4, <1>5 DEF TelaOK
<1>7. Pedido \in Boas(k)
  BY FirstCall DEF Boas
<1>8. <<Pedido>> \in Seq(Boas(k))
  BY <1>7
<1> QED BY <1>6, <1>8 DEF t

LEMMA RestartKeeps ==
  ASSUME TerminalInv, Restart
  PROVE  TerminalInv'
<1>1. /\ canal' = <<Pedido>> /\ tela' = CreateInitialShellState
      /\ base' = base /\ calado' = calado
      /\ celulares' = [t \in Celulares |-> SemSessao]
      /\ operadores' = operadores /\ terminal' = terminal /\ inativo' = inativo
  BY DEF Restart, ForgetPhones
<1>2. OperadoresTypeOK /\ Idades /\ base \in Base /\ calado \subseteq Partes
  BY DEF TerminalInv, BancoOK
<1>3. /\ celulares' \in [Celulares -> WaiterSession \cup {SemSessao}]
      /\ \A u \in Celulares : celulares'[u] \in {celulares[u], SemSessao}
  BY <1>1
<1>4. OperadoresTypeOK' /\ Idades' /\ Conhecidos' = Conhecidos
  BY <1>1, <1>2, <1>3, EndingKeeps
<1>5. BancoOK'
  BY <1>1, <1>2, <1>4 DEF BancoOK
<1>6. TelaOK(tela', Conhecidos') /\ canal' \in Seq(Boas(Conhecidos'))
  BY <1>1, FirstScreen
<1> QED BY <1>1, <1>2, <1>5, <1>6 DEF TerminalInv

-----------------------------------------------------------------------------
(* The invariant holds *)

LEMMA TerminalStarts == TerminalInit => TerminalInv
<1> SUFFICES ASSUME TerminalInit PROVE TerminalInv
  OBVIOUS
<1>1. PICK i \in Inicios :
        base = i.base /\ operadores = i.operadores /\ terminal = i.terminal
  BY DEF TerminalInit
<1>2. /\ celulares = [t \in Celulares |-> SemSessao] /\ inativo = [o \in OpIds |-> 0]
      /\ canal = <<Pedido>> /\ tela = CreateInitialShellState /\ calado = {}
  BY DEF TerminalInit
<1>3. i \in [operadores: [OpIds -> Operador \cup {SemRegistro}],
             terminal: OpIds \cup {SemOp}, base: Base]
  BY InicioAssumption
<1>4. /\ base \in Base /\ operadores \in [OpIds -> Operador \cup {SemRegistro}]
      /\ terminal \in OpIds \cup {SemOp}
  BY <1>1, <1>3
<1>5. 0 \in Horas
  BY OperadoresAssumption DEF Horas
<1>6. OperadoresTypeOK /\ Idades
  BY <1>2, <1>4, <1>5 DEF OperadoresTypeOK, Idades
<1>7. BancoOK
  BY <1>4, <1>6 DEF BancoOK
<1>8. TelaOK(tela, Conhecidos) /\ canal \in Seq(Boas(Conhecidos))
  BY <1>2, FirstScreen
<1> QED BY <1>2, <1>7, <1>8 DEF TerminalInv

LEMMA TerminalInductive == TerminalInv /\ [TerminalNext]_terminalVars => TerminalInv'
<1> SUFFICES ASSUME TerminalInv, [TerminalNext]_terminalVars PROVE TerminalInv'
  OBVIOUS
<1>1. CASE Toque
  BY <1>1, TouchKeeps
<1>2. CASE Atende
  BY <1>2, Serve
<1>3. CASE Recebe
  BY <1>3, Receive
<1>4. CASE Telefone
  BY <1>4, PhonesKeep
<1>5. CASE Relogio
  BY <1>5, ClockKeeps
<1>6. CASE Restart
  BY <1>6, RestartKeeps
<1>7. CASE UNCHANGED terminalVars
  <2>1. /\ operadores' = operadores /\ terminal' = terminal /\ celulares' = celulares
        /\ inativo' = inativo /\ base' = base /\ canal' = canal /\ tela' = tela
        /\ calado' = calado
    BY <1>7 DEF terminalVars, operadoresVars
  <2>2. Conhecidos' = Conhecidos /\ BancoOK'
    BY <2>1 DEF TerminalInv, BancoOK, OperadoresTypeOK, Idades, Conhecidos, Existe
  <2> QED BY <2>1, <2>2 DEF TerminalInv
<1> QED BY <1>1, <1>2, <1>3, <1>4, <1>5, <1>6, <1>7 DEF TerminalNext

-----------------------------------------------------------------------------
(* The theorems *)

LEMMA TerminalImplies == TerminalInv => TerminalTypeOK /\ PinGoesToItsOwner /\ TurnEnds
<1> SUFFICES ASSUME TerminalInv PROVE TerminalTypeOK /\ PinGoesToItsOwner /\ TurnEnds
  OBVIOUS
<1>1. /\ OperadoresTypeOK /\ Idades /\ base \in Base
      /\ canal \in Seq(Boas(Conhecidos)) /\ TelaOK(tela, Conhecidos)
      /\ calado \subseteq Partes
  BY DEF TerminalInv, BancoOK
<1>2. ASSUME NEW i \in DOMAIN canal
      PROVE  /\ canal[i].res \in {"pendente", "ok", "erro", "recusa"}
             /\ canal[i].form \in Form
             /\ canal[i].fn = "saveOperator" => PinCerto(canal[i].form)
  <2>1. canal[i] \in Boas(Conhecidos)
    BY <1>1
  <2> QED BY <2>1 DEF Boas, Ligacao
<1>3. /\ tela.selecionada \in Comandas \cup {0} /\ tela.sessao \in OpIds \cup {SemOp}
      /\ tela.form \in Form /\ PinCerto(tela.form)
  BY <1>1 DEF TelaOK, Tela
<1>4. TerminalTypeOK
  BY <1>1, <1>2, <1>3 DEF TerminalTypeOK
<1>5. PinGoesToItsOwner
  BY <1>2, <1>3 DEF PinGoesToItsOwner, PinCerto
<1>6. TurnEnds
  <2>1. SUFFICES ASSUME NEW t \in Celulares, Accepts(t)
                 PROVE  inativo[celulares[t].op] <= Ttl
    BY DEF TurnEnds
  <2>2. /\ celulares[t] # SemSessao /\ celulares[t].idade <= Ttl
        /\ celulares[t] \in WaiterSession
    BY <1>1, <2>1 DEF Accepts, OperadoresTypeOK
  <2>3. /\ celulares[t].op \in OpIds /\ celulares[t].idade \in Nat
        /\ inativo[celulares[t].op] \in Nat
    BY <1>1, <2>2, Older DEF WaiterSession, OperadoresTypeOK
  <2>4. inativo[celulares[t].op] <= celulares[t].idade
    BY <1>1, <2>2 DEF Idades
  <2> QED BY <2>2, <2>3, <2>4, OperadoresAssumption
<1> QED BY <1>4, <1>5, <1>6

\* The rows, the screen and the calls in flight keep their types, whatever is pressed
\* while answers are on their way and whatever the phones do meanwhile.
THEOREM TerminalTypeCorrect == TerminalSpec => []TerminalTypeOK
BY TerminalStarts, TerminalInductive, TerminalImplies, PTL DEF TerminalSpec

\* A PIN typed in the team's form is only ever saved for the operator it was typed for
\* (saveTeamOperator and what its answers do to the form), for any operators.
THEOREM PinReachesItsOwner == TerminalSpec => []PinGoesToItsOwner
BY TerminalStarts, TerminalInductive, TerminalImplies, PTL DEF TerminalSpec

\* The session of a phone is at least as old as the absence of its operator
\* (WaiterSessionStore, saveOperator), so none is accepted once the operator has been
\* inactive for longer than a session lives, for any life of a session.
THEOREM TurnsEnd == TerminalSpec => []TurnEnds
BY TerminalStarts, TerminalInductive, TerminalImplies, PTL DEF TerminalSpec

-----------------------------------------------------------------------------
(* What the screen shows: the invariant *)

\* An answer on its way that shows a part.
Mostra(c, p) == c.res = "ok" /\ p \in PartesDe(c.fn)

\* Products saved that the screen has not counted yet.
Gravados == {i \in DOMAIN canal : canal[i].fn = "upsertCatalogProduct" /\ canal[i].res = "ok"}

\* The last answer on its way that shows a part shows it as it is; when there is
\* none, the screen does.  The screen counts the products it saves.
EmDia(p) ==
  /\ \A i \in DOMAIN canal :
       Mostra(canal[i], p) /\ (\A j \in DOMAIN canal : i < j => ~Mostra(canal[j], p)) =>
         canal[i].foto[p] = Foto[p]
  /\ tela.pronta /\ (\A i \in DOMAIN canal : ~Mostra(canal[i], p)) =>
       IF p = "catalogo" THEN tela.catalogo + Cardinality(Gravados) = base.produtos
       ELSE tela[p] = Foto[p]

\* Calls are answered in order; start() is the oldest, and until it is answered only a
\* PIN may be typed; who logs out leaves no session.
Ordem ==
  /\ \A i, j \in DOMAIN canal :
       i < j /\ canal[i].res = "pendente" => canal[j].res = "pendente"
  /\ \A i \in DOMAIN canal :
       canal[i].fn = "start" =>
         /\ i = 1
         /\ ~tela.pronta /\ tela.sessao = SemOp /\ tela.instalacao
         /\ \A j \in DOMAIN canal : j # 1 => canal[j].fn = "login"
  /\ \A i \in DOMAIN canal :
       canal[i].fn = "logout" /\ canal[i].res = "ok" => canal[i].foto.sessao = SemOp

ScreenInv == Ordem /\ \A p \in Partes \ calado : EmDia(p)

-----------------------------------------------------------------------------
(* The rows that the screen shows, and the calls that change them *)

LEMMA SameRows ==
  ASSUME UNCHANGED <<operadores, terminal, base>>
  PROVE  Foto' = Foto
BY DEF Foto, IsActive

LEMMA FotoAt ==
  /\ Foto["sessao"] = terminal /\ Foto["catalogo"] = base.produtos
  /\ Foto'["sessao"] = terminal' /\ Foto'["catalogo"] = base'.produtos
BY DEF Foto

(* Only start() shows the catalogue. *)
LEMMA OnlyStart == \A fn : "catalogo" \in PartesDe(fn) => fn = "start"
BY DEF PartesDe

(* Only a product that is saved adds to the catalogue, and who logs out leaves no
   session. *)
LEMMA ProductsOf ==
  ASSUME base \in Base, NEW c, NEW d, Trata(c, d)
  PROVE  /\ base'.produtos = IF c.fn = "upsertCatalogProduct" THEN base.produtos + 1
                             ELSE base.produtos
         /\ c.fn = "logout" => terminal' = SemOp
<1>1. ASSUME NEW m, NEW nova, TrocaComanda(m, nova)
      PROVE  base'.produtos = base.produtos
  <2> DEFINE t == [base.comandas EXCEPT ![m] = nova]
  <2>1. base' = [base EXCEPT !.comandas = t]
    BY <1>1 DEF TrocaComanda
  <2> HIDE DEF t
  <2> QED BY <2>1 DEF Base
<1>2. ASSUME NEW s, NEW n, MudaCaixa(s, n)
      PROVE  base'.produtos = base.produtos
  <2> DEFINE x == [status |-> s, movimentos |-> base.caixa.movimentos + n]
  <2>1. base' = [base EXCEPT !.caixa = x]
    BY <1>2 DEF MudaCaixa
  <2> HIDE DEF x
  <2> QED BY <2>1 DEF Base
<1>3. SoLe => base'.produtos = base.produtos
  BY DEF SoLe
<1>4. CASE ComandaCall(c, d)
  <2>1. c.fn \notin {"upsertCatalogProduct", "logout"}
    BY <1>4, Zenon DEF ComandaCall
  <2>2. CASE \E m, nova : TrocaComanda(m, nova)
    BY <1>1, <2>1, <2>2
  <2>3. CASE ConfirmComandaPayment(d)
    <3> DEFINE t == [base.comandas EXCEPT ![d] = Encerrada]
               x == [base.caixa EXCEPT !.movimentos = @ + 1]
    <3>1. base' = [base EXCEPT !.comandas = t, !.caixa = x]
      BY <2>3 DEF ConfirmComandaPayment
    <3> HIDE DEF t, x
    <3> QED BY <2>1, <3>1 DEF Base
  <2>4. CASE SoLe
    BY <1>3, <2>1, <2>4
  <2>5. (\E m, nova : TrocaComanda(m, nova)) \/ ConfirmComandaPayment(d) \/ SoLe
    <3>1. \A n : OpenComanda(n, d) => SoLe \/ \E m, nova : TrocaComanda(m, nova)
      BY Zenon DEF OpenComanda
    <3>2. AddComandaItem(d) => \E m, nova : TrocaComanda(m, nova)
      BY Zenon DEF AddComandaItem
    <3>3. \A item : CancelComandaItem(d, item) => \E m, nova : TrocaComanda(m, nova)
      BY Zenon DEF CancelComandaItem
    <3>4. SendComandaToProduction(d) => \E m, nova : TrocaComanda(m, nova)
      BY Zenon DEF SendComandaToProduction
    <3>5. StartComandaCheckout(d) => \E m, nova : TrocaComanda(m, nova)
      BY Zenon DEF StartComandaCheckout
    <3>6. RequestComandaCashCheckout(d) => \E m, nova : TrocaComanda(m, nova)
      BY Zenon DEF RequestComandaCashCheckout
    <3>7. ReopenComanda(d) => \E m, nova : TrocaComanda(m, nova)
      BY Zenon DEF ReopenComanda
    <3> QED BY <1>4, <3>1, <3>2, <3>3, <3>4, <3>5, <3>6, <3>7, Zenon DEF ComandaCall
  <2> QED BY <2>2, <2>3, <2>4, <2>5
<1>5. CASE CaixaCall(c)
  <2>1. c.fn \notin {"upsertCatalogProduct", "logout"}
    BY <1>5, Zenon DEF CaixaCall
  <2>2. (\E s, n : MudaCaixa(s, n)) \/ CloseCashSession \/ SoLe
    <3>1. OpenCashSession => SoLe \/ \E s, n : MudaCaixa(s, n)
      BY Zenon DEF OpenCashSession
    <3>2. RegisterCash => \E s, n : MudaCaixa(s, n)
      BY Zenon DEF RegisterCash
    <3>3. StartCashClosure => \E s, n : MudaCaixa(s, n)
      BY Zenon DEF StartCashClosure
    <3> QED BY <1>5, <3>1, <3>2, <3>3, Zenon DEF CaixaCall
  <2>3. CloseCashSession => base'.produtos = base.produtos
    BY DEF CloseCashSession, Base
  <2> QED BY <1>2, <1>3, <2>1, <2>2, <2>3
<1>6. CASE TerminalCall(c)
  <2>1. CASE c.fn = "upsertCatalogProduct"
    <3>1. base' = [base EXCEPT !.produtos = @ + 1]
      BY <1>6, <2>1 DEF TerminalCall
    <3> QED BY <2>1, <3>1 DEF Base
  <2>2. CASE c.fn = "completeFirstRun"
    <3>1. base' = [base EXCEPT !.completa = TRUE]
      BY <1>6, <2>2 DEF TerminalCall
    <3> QED BY <2>2, <3>1 DEF Base
  <2>3. CASE c.fn \notin {"upsertCatalogProduct", "completeFirstRun"}
    <3>1. base' = base
      BY <1>6, <2>3 DEF TerminalCall, SoLe
    <3>2. c.fn = "logout" => terminal' = SemOp
      BY <1>6 DEF TerminalCall, LogoutTerminal
    <3> QED BY <2>3, <3>1, <3>2
  <2> QED BY <2>1, <2>2, <2>3
<1>7. CASE StartCall(c, d)
  BY <1>3, <1>7 DEF StartCall
<1> QED BY <1>4, <1>5, <1>6, <1>7 DEF Trata

-----------------------------------------------------------------------------
(* Presses *)

\* The parts of the screen stay as they are.
MesmaTela(t, u) == u.pronta = t.pronta /\ \A p \in Partes : u[p] = t[p]

(* A press changes no part of the screen, and while start() is on its way it can only
   be that of a PIN. *)
LEMMA PressIs ==
  ASSUME TerminalInv, Toque
  PROVE  /\ Toca /\ MesmaTela(tela, tela')
         /\ \/ canal' = canal
            \/ \E pedido : /\ canal' = Append(canal, pedido)
                           /\ pedido.res = "pendente" /\ pedido.fn # "start"
                           /\ pedido.fn # "login" =>
                                tela.sessao # SemOp \/ ~tela.instalacao
<1>1. tela \in Tela
  BY DEF TerminalInv, TelaOK
<1> DEFINE Vista == tela.sessao # SemOp \/ ~tela.instalacao
           Feita(pedido) == /\ canal' = Append(canal, pedido)
                            /\ pedido.res = "pendente" /\ pedido.fn # "start"
                            /\ pedido.fn # "login" => Vista
           Feito == Toca /\ MesmaTela(tela, tela') /\ (canal' = canal \/ \E pedido : Feita(pedido))
<1> SUFFICES Feito
  OBVIOUS
<1>2. ASSUME NEW pedido, pedido.fn # "start", pedido.res = "pendente", NEW depois,
             Pede(pedido, depois), MesmaTela(tela, depois), pedido.fn # "login" => Vista
      PROVE  Feito
  <2>1. Toca /\ canal' = Append(canal, pedido) /\ tela' = depois
    BY <1>2 DEF Pede
  <2> HIDE DEF Vista
  <2> QED BY <1>2, <2>1
<1>3. ASSUME NEW form, TrocaForm(form)
      PROVE  Feito
  <2>1. Toca /\ canal' = canal /\ tela' = [tela EXCEPT !.form = form]
    BY <1>3 DEF TrocaForm
  <2>2. MesmaTela(tela, tela')
    BY <1>1, <2>1 DEF MesmaTela, Partes, Tela
  <2> QED BY <2>1, <2>2
<1>4. MesmaTela(tela, tela)
  BY DEF MesmaTela
<1>5. /\ MesmaTela(tela, [tela EXCEPT !.validando = TRUE])
      /\ MesmaTela(tela, [tela EXCEPT !.instalando = TRUE])
      /\ MesmaTela(tela, [tela EXCEPT !.salvando = TRUE])
  BY <1>1 DEF MesmaTela, Partes, Tela
<1>6. /\ Pedido.res = "pendente" /\ Pedido \in Ligacao
  BY FirstCall
<1>7. \A vista : Ve(vista) => Vista
  BY DEF Ve, WorkspaceVisible
<1> HIDE DEF Vista, Feito
<1>8. ASSUME NEW pedido, pedido.fn # "start", pedido.res = "pendente", Pede(pedido, tela),
             Vista
      PROVE  Feito
  BY <1>2, <1>4, <1>8
<1>9. ASSUME NEW fn, fn # "start", PedeComanda(fn), Vista
      PROVE  Feito
  <2> DEFINE r == [Pedido EXCEPT !.fn = fn, !.comanda = tela.selecionada]
  <2>1. Pede(r, tela)
    BY <1>9 DEF PedeComanda
  <2>2. r.fn = fn /\ r.res = "pendente"
    BY <1>6 DEF Ligacao
  <2> HIDE DEF r
  <2> QED BY <1>8, <1>9, <2>1, <2>2
<1>10. ASSUME NEW fn, fn # "start", PedeCaixa(fn), Vista
       PROVE  Feito
  <2> DEFINE r == [Pedido EXCEPT !.fn = fn]
  <2>1. Pede(r, tela)
    BY <1>10 DEF PedeCaixa
  <2>2. r.fn = fn /\ r.res = "pendente"
    BY <1>6 DEF Ligacao
  <2> HIDE DEF r
  <2> QED BY <1>8, <1>10, <2>1, <2>2
<1>11. ASSUME NEW p \in Pins, SubmitPin(p)
       PROVE  Feito
  <2> DEFINE r == [Pedido EXCEPT !.fn = "login", !.form.pin = p]
             t == [tela EXCEPT !.validando = TRUE]
  <2>1. Pede(r, t)
    BY <1>11 DEF SubmitPin
  <2>2. r.fn = "login" /\ r.res = "pendente" /\ MesmaTela(tela, t)
    BY <1>5, <1>6 DEF Ligacao
  <2> HIDE DEF r, t
  <2> QED BY <1>2, <2>1, <2>2
<1>12. CASE Logout
  <2>1. PedeCaixa("logout") /\ Vista
    BY <1>12 DEF Logout, PedeCaixa, WorkspaceVisible, Vista
  <2> QED BY <1>10, <2>1
<1>13. CASE CompleteFirstRun
  <2> DEFINE r == [Pedido EXCEPT !.fn = "completeFirstRun"]
             t == [tela EXCEPT !.instalando = TRUE]
  <2>1. Pede(r, t) /\ Vista
    BY <1>13 DEF CompleteFirstRun, FirstRunWizard, Vista
  <2>2. r.fn = "completeFirstRun" /\ r.res = "pendente" /\ MesmaTela(tela, t)
    BY <1>5, <1>6 DEF Ligacao
  <2> HIDE DEF r, t
  <2> QED BY <1>2, <2>1, <2>2
<1>14. CASE SaveCatalogProduct
  <2>1. PedeCaixa("upsertCatalogProduct") /\ Vista
    BY <1>7, <1>14 DEF SaveCatalogProduct, CatalogoView, PedeCaixa
  <2> QED BY <1>10, <2>1
<1>15. ASSUME NEW n \in Numeros, OpenComandaFromDraft(n)
       PROVE  Feito
  <2> DEFINE r == [Pedido EXCEPT !.fn = "openComanda", !.numero = n]
  <2>1. Pede(r, tela) /\ Vista
    BY <1>7, <1>15 DEF OpenComandaFromDraft, ComandasView
  <2>2. r.fn = "openComanda" /\ r.res = "pendente"
    BY <1>6 DEF Ligacao
  <2> HIDE DEF r
  <2> QED BY <1>8, <2>1, <2>2
<1>16. ASSUME NEW c \in Comandas, SelectMesaComanda(c)
       PROVE  Feito
  <2> DEFINE r == [Pedido EXCEPT !.fn = "getComandaWorkspace", !.comanda = c]
  <2>1. Pede(r, tela) /\ c \in MesasView \cup ComandaFocusPanel
    BY <1>16 DEF SelectMesaComanda
  <2>2. Ve("mesas") \/ Ve("preconta")
    BY <2>1 DEF MesasView, ComandaFocusPanel
  <2>3. r.fn = "getComandaWorkspace" /\ r.res = "pendente"
    BY <1>6 DEF Ligacao
  <2> HIDE DEF r
  <2> QED BY <1>7, <1>8, <2>1, <2>2, <2>3
<1>17. CASE AddProductToCurrentComanda
  <2>1. PedeComanda("addComandaItem") /\ Ve("comandas")
    BY <1>17 DEF AddProductToCurrentComanda, ProductQuickList
  <2> QED BY <1>7, <1>9, <2>1
<1>18. ASSUME NEW item \in {"lancados", "enviados"}, CancelSelectedItem(item)
       PROVE  Feito
  <2> DEFINE r == [Pedido EXCEPT !.fn = "cancelComandaItem",
                                 !.comanda = tela.selecionada, !.item = item]
  <2>1. Pede(r, tela) /\ PedidoItens(item) > 0
    BY <1>18 DEF CancelSelectedItem
  <2>2. Ve("comandas")
    BY <2>1 DEF PedidoItens
  <2>3. r.fn = "cancelComandaItem" /\ r.res = "pendente"
    BY <1>6 DEF Ligacao
  <2> HIDE DEF r
  <2> QED BY <1>7, <1>8, <2>1, <2>2, <2>3
<1>19. ASSUME SendCurrentComandaToProduction \/ GeneratePreConta \/ ReopenCurrentComanda
                \/ RequestCashCheckout \/ CheckoutCurrentComanda
       PROVE  Feito
  <2>1. /\ \E vista : Ve(vista)
        /\ \E fn : fn # "start" /\ PedeComanda(fn)
    BY <1>19 DEF SendCurrentComandaToProduction, GeneratePreConta, ReopenCurrentComanda,
       RequestCashCheckout, CheckoutCurrentComanda, ComandasView, PreContaView, CheckoutView
  <2> QED BY <1>7, <1>9, <2>1
<1>20. ASSUME OpenCashSessionFromDraft \/ RegisterCashReceipt \/ RegisterCashWithdrawal
                \/ RegisterCashSupply \/ StartCashClosureFlow
                \/ CloseCashSessionFromDraft \/ ExportCashAuditBundle
       PROVE  Feito
  <2>1. /\ \E vista : Ve(vista)
        /\ \E fn : fn # "start" /\ PedeCaixa(fn)
    BY <1>20 DEF OpenCashSessionFromDraft, RegisterCashReceipt, RegisterCashWithdrawal,
       RegisterCashSupply, StartCashClosureFlow, CloseCashSessionFromDraft,
       ExportCashAuditBundle, CaixaView, CaixaClosure
  <2> QED BY <1>7, <1>10, <2>1
<1>21. ASSUME NEW o \in OpIds, DeactivateTeamOperator(o)
       PROVE  Feito
  <2> DEFINE f == FormDe(o, tela.equipe[o])
             r == [Pedido EXCEPT !.fn = "deactivateOperator", !.form = f]
  <2>1. Pede(r, tela) /\ Ve("equipe")
    BY <1>21 DEF DeactivateTeamOperator, EquipeView
  <2> HIDE DEF f
  <2>2. r.fn = "deactivateOperator" /\ r.res = "pendente"
    BY <1>6 DEF Ligacao
  <2> HIDE DEF r
  <2> QED BY <1>7, <1>8, <2>1, <2>2
<1>22. ASSUME \/ \E o \in OpIds : SelectTeamOperator(o)
              \/ OpenTeamNewOperatorForm
              \/ \E p \in Pins : UpdateTeamPinDraft(p)
              \/ \E papel \in Role : UpdateTeamRoleDraft(papel)
       PROVE  Feito
  <2>1. \A o : SelectTeamOperator(o) => \E form : TrocaForm(form)
    BY Zenon DEF SelectTeamOperator
  <2>2. OpenTeamNewOperatorForm => \E form : TrocaForm(form)
    BY Zenon DEF OpenTeamNewOperatorForm
  <2>3. \A p : UpdateTeamPinDraft(p) => \E form : TrocaForm(form)
    BY Zenon DEF UpdateTeamPinDraft
  <2>4. \A papel : UpdateTeamRoleDraft(papel) => \E form : TrocaForm(form)
    BY Zenon DEF UpdateTeamRoleDraft
  <2>5. \E form : TrocaForm(form)
    BY <1>22, <2>1, <2>2, <2>3, <2>4
  <2> QED BY <1>3, <2>5
<1>23. CASE SaveTeamOperator
  <2> DEFINE r == [Pedido EXCEPT !.fn = "saveOperator", !.form = tela.form]
             t == [tela EXCEPT !.salvando = TRUE]
  <2>1. Pede(r, t) /\ Ve("equipe")
    BY <1>23 DEF SaveTeamOperator, EquipeView
  <2>2. r.fn = "saveOperator" /\ r.res = "pendente" /\ MesmaTela(tela, t)
    BY <1>5, <1>6 DEF Ligacao
  <2> HIDE DEF r, t
  <2> QED BY <1>2, <1>7, <2>1, <2>2
<1> QED
  BY <1>11, <1>12, <1>13, <1>14, <1>15, <1>16, <1>17, <1>18, <1>19, <1>20, <1>21, <1>22,
     <1>23 DEF Toque

(* The calls in flight and the length of their queue. *)
LEMMA InFlight ==
  ASSUME TerminalInv
  PROVE  /\ Len(canal) \in Nat /\ DOMAIN canal = 1..Len(canal)
         /\ \A i \in DOMAIN canal :
              canal[i] \in Boas(Conhecidos) /\ canal[i] \in Ligacao /\ i \in Nat
         /\ Gravados \in SUBSET (1..Len(canal)) /\ IsFiniteSet(Gravados)
<1>1. canal \in Seq(Boas(Conhecidos))
  BY DEF TerminalInv
<1>2. Len(canal) \in Nat /\ DOMAIN canal = 1..Len(canal)
  BY <1>1
<1>3. \A i \in DOMAIN canal : canal[i] \in Boas(Conhecidos) /\ canal[i] \in Ligacao
  BY <1>1 DEF Boas
<1>4. Gravados \in SUBSET (1..Len(canal))
  BY <1>2 DEF Gravados
<1>5. IsFiniteSet(1..Len(canal))
  BY <1>2, FS_Interval
<1>6. IsFiniteSet(Gravados)
  BY <1>4, <1>5, FS_Subset
<1> QED BY <1>2, <1>3, <1>4, <1>6

(* Nothing that the screen shows changes, and calls may join the queue. *)
LEMMA QueueGrows ==
  ASSUME TerminalInv, ScreenInv, Foto' = Foto, base' = base, calado \subseteq calado',
         calado' \subseteq Partes, MesmaTela(tela, tela'),
         canal' = canal \/
           \E pedido : /\ canal' = Append(canal, pedido)
                       /\ pedido.res = "pendente" /\ pedido.fn # "start"
                       /\ pedido.fn # "login" => tela.sessao # SemOp \/ ~tela.instalacao
  PROVE  ScreenInv'
<1>1. /\ tela'.pronta = tela.pronta /\ \A p \in Partes : tela'[p] = tela[p]
      /\ tela'.sessao = tela.sessao /\ tela'.instalacao = tela.instalacao
      /\ tela'.catalogo = tela.catalogo
  BY DEF MesmaTela, Partes
<1>2. Ordem /\ \A p \in Partes \ calado' : EmDia(p)
  BY DEF ScreenInv
<1>3. CASE canal' = canal
  <2>1. Ordem'
    BY <1>1, <1>2, <1>3 DEF Ordem
  <2>2. Gravados' = Gravados
    BY <1>3 DEF Gravados
  <2>3. ASSUME NEW p \in Partes \ calado'
        PROVE  EmDia(p)'
    BY <1>1, <1>2, <1>3, <2>2 DEF EmDia
  <2> QED BY <2>1, <2>3 DEF ScreenInv
<1>4. ASSUME NEW pedido, canal' = Append(canal, pedido), pedido.res = "pendente",
             pedido.fn # "start",
             pedido.fn # "login" => tela.sessao # SemOp \/ ~tela.instalacao
      PROVE  ScreenInv'
  <2> DEFINE n == Len(canal)
  <2>1. /\ n \in Nat /\ DOMAIN canal = 1..n
        /\ DOMAIN canal' = 1..(n + 1)
        /\ canal'[n + 1] = pedido
        /\ \A i \in 1..n : canal'[i] = canal[i]
    <3>1. canal \in Seq(Boas(Conhecidos) \cup {pedido})
      BY SeqMonotonic DEF TerminalInv
    <3> QED BY <1>4, <3>1, AppendProperties, LenProperties
  <2> HIDE DEF n
  <2>2. \A i \in 1..(n + 1) : i \in 1..n \/ i = n + 1
    BY <2>1
  <2>3. Ordem'
    <3>1. ASSUME NEW i \in DOMAIN canal', NEW j \in DOMAIN canal', i < j,
                 canal'[i].res = "pendente"
          PROVE  canal'[j].res = "pendente"
      BY <1>2, <1>4, <2>1, <2>2, <3>1 DEF Ordem
    <3>2. ASSUME NEW i \in DOMAIN canal', canal'[i].fn = "start"
          PROVE  /\ i = 1
                 /\ ~tela'.pronta /\ tela'.sessao = SemOp /\ tela'.instalacao
                 /\ \A j \in DOMAIN canal' : j # 1 => canal'[j].fn = "login"
      <4>1. i \in 1..n /\ canal[i].fn = "start"
        BY <1>4, <2>1, <2>2, <3>2
      <4>2. /\ i = 1 /\ ~tela.pronta /\ tela.sessao = SemOp /\ tela.instalacao
            /\ \A j \in DOMAIN canal : j # 1 => canal[j].fn = "login"
        BY <1>2, <2>1, <4>1 DEF Ordem
      <4>3. pedido.fn = "login"
        BY <1>4, <4>2
      <4> QED BY <1>1, <2>1, <2>2, <4>2, <4>3
    <3>3. ASSUME NEW i \in DOMAIN canal', canal'[i].fn = "logout", canal'[i].res = "ok"
          PROVE  canal'[i].foto.sessao = SemOp
      BY <1>2, <1>4, <2>1, <2>2, <3>3 DEF Ordem
    <3> QED BY <3>1, <3>2, <3>3 DEF Ordem
  <2>4. Gravados' = Gravados
    BY <1>4, <2>1, <2>2 DEF Gravados
  <2>5. ASSUME NEW p \in Partes \ calado'
        PROVE  EmDia(p)'
    <3>1. \A i \in 1..n : Mostra(canal'[i], p) <=> Mostra(canal[i], p)
      BY <2>1
    <3>2. ~Mostra(canal'[n + 1], p)
      BY <1>4, <2>1 DEF Mostra
    <3>3. EmDia(p)
      BY <1>2
    <3>4. ASSUME NEW i \in DOMAIN canal', Mostra(canal'[i], p),
                 \A j \in DOMAIN canal' : i < j => ~Mostra(canal'[j], p)
          PROVE  canal'[i].foto[p] = Foto'[p]
      <4>1. i \in 1..n /\ Mostra(canal[i], p)
        BY <2>1, <2>2, <3>2, <3>4
      <4>2. \A j \in DOMAIN canal : i < j => ~Mostra(canal[j], p)
        BY <2>1, <3>1, <3>4
      <4> QED BY <2>1, <3>3, <4>1, <4>2 DEF EmDia
    <3>5. ASSUME tela'.pronta, \A i \in DOMAIN canal' : ~Mostra(canal'[i], p)
          PROVE  IF p = "catalogo"
                 THEN tela'.catalogo + Cardinality(Gravados') = base'.produtos
                 ELSE tela'[p] = Foto'[p]
      <4>1. \A i \in DOMAIN canal : ~Mostra(canal[i], p)
        BY <2>1, <3>1, <3>5
      <4> QED BY <1>1, <2>4, <3>3, <3>5, <4>1 DEF EmDia
    <3> QED BY <3>4, <3>5 DEF EmDia
  <2> QED BY <2>3, <2>5 DEF ScreenInv
<1> QED BY <1>3, <1>4

LEMMA TouchShows ==
  ASSUME TerminalInv, ScreenInv, Toque
  PROVE  ScreenInv'
<1>1. /\ Toca /\ MesmaTela(tela, tela')
      /\ \/ canal' = canal
         \/ \E pedido : /\ canal' = Append(canal, pedido)
                        /\ pedido.res = "pendente" /\ pedido.fn # "start"
                        /\ pedido.fn # "login" => tela.sessao # SemOp \/ ~tela.instalacao
  BY PressIs
<1>2. UNCHANGED <<operadores, terminal, base>> /\ calado' = calado
  BY <1>1 DEF Toca, operadoresVars
<1>3. Foto' = Foto /\ calado' \subseteq Partes
  BY <1>2, SameRows DEF TerminalInv
<1> QED BY <1>1, <1>2, <1>3, QueueGrows

-----------------------------------------------------------------------------
(* The main process answers *)

(* An answer takes the place of the oldest call that waits for one. *)
LEMMA AnsweredInOrder ==
  ASSUME TerminalInv, Ordem, NEW i \in DOMAIN canal, canal[i].res = "pendente",
         \A j \in 1..i - 1 : canal[j].res # "pendente",
         NEW r, r.fn = canal[i].fn, r.res # "pendente",
         r.fn = "logout" /\ r.res = "ok" => r.foto.sessao = SemOp,
         canal' = [canal EXCEPT ![i] = r], tela' = tela
  PROVE  /\ Ordem' /\ DOMAIN canal' = DOMAIN canal /\ canal'[i] = r
         /\ \A j \in DOMAIN canal : j # i => canal'[j] = canal[j]
         /\ \A j \in DOMAIN canal : i < j => canal'[j].res = "pendente"
<1>1. /\ Len(canal) \in Nat /\ DOMAIN canal = 1..Len(canal)
  BY InFlight
<1>2. /\ DOMAIN canal' = DOMAIN canal /\ canal'[i] = r
      /\ \A j \in DOMAIN canal : j # i => canal'[j] = canal[j]
  BY <1>1
<1>3. \A j \in DOMAIN canal : canal'[j].fn = canal[j].fn
  BY <1>2
<1>4. \A j \in DOMAIN canal : i < j => canal'[j].res = "pendente"
  BY <1>1, <1>2 DEF Ordem
<1>5. ASSUME NEW j \in DOMAIN canal, NEW k \in DOMAIN canal, j < k,
             canal'[j].res = "pendente"
      PROVE  canal'[k].res = "pendente"
  <2>1. j # i /\ canal[j].res = "pendente"
    BY <1>2, <1>5
  <2>2. ~(j < i)
    BY <1>1, <2>1
  <2> QED BY <1>1, <1>4, <1>5, <2>1, <2>2
<1>6. ASSUME NEW j \in DOMAIN canal, canal'[j].fn = "logout", canal'[j].res = "ok"
      PROVE  canal'[j].foto.sessao = SemOp
  BY <1>2, <1>6 DEF Ordem
<1>7. Ordem'
  BY <1>2, <1>3, <1>5, <1>6 DEF Ordem
<1> QED BY <1>2, <1>4, <1>7

(* A refusal or a failure: what was written, if anything, nobody was told of. *)
LEMMA FailureTold ==
  ASSUME TerminalInv, ScreenInv, NEW i \in DOMAIN canal, canal[i].res = "pendente",
         \A j \in 1..i - 1 : canal[j].res # "pendente",
         NEW res \in {"erro", "recusa"}, canal' = [canal EXCEPT ![i].res = res],
         tela' = tela, calado \subseteq calado',
         \A p \in Partes \ calado' : Foto'[p] = Foto[p]
  PROVE  ScreenInv'
<1> DEFINE r == [canal[i] EXCEPT !.res = res]
<1>1. canal' = [canal EXCEPT ![i] = r]
  OBVIOUS
<1>2. r.fn = canal[i].fn /\ r.res = res
  BY InFlight DEF Ligacao
<1> HIDE DEF r
<1>3. /\ Ordem' /\ DOMAIN canal' = DOMAIN canal /\ canal'[i] = r
      /\ \A j \in DOMAIN canal : j # i => canal'[j] = canal[j]
  BY <1>1, <1>2, AnsweredInOrder DEF ScreenInv
<1>4. Gravados' = Gravados
  BY <1>2, <1>3 DEF Gravados
<1>5. ASSUME NEW p \in Partes \ calado'
      PROVE  EmDia(p)'
  <2>1. EmDia(p) /\ Foto'[p] = Foto[p]
    BY <1>5 DEF ScreenInv
  <2>2. \A j \in DOMAIN canal : Mostra(canal'[j], p) <=> Mostra(canal[j], p)
    BY <1>2, <1>3 DEF Mostra
  <2>3. \A j \in DOMAIN canal : Mostra(canal[j], p) => canal'[j] = canal[j]
    BY <1>3 DEF Mostra
  <2>4. p = "catalogo" => base'.produtos = base.produtos
    BY <2>1, FotoAt
  <2> HIDE DEF Mostra
  <2> QED BY <1>3, <1>4, <2>1, <2>2, <2>3, <2>4 DEF EmDia
<1> QED BY <1>3, <1>5 DEF ScreenInv

(* An answer shows its parts as the call left them; the others that changed are
   silent, but for the catalogue, which the screen counts. *)
LEMMA AnswerTold ==
  ASSUME TerminalInv, ScreenInv, NEW i \in DOMAIN canal, canal[i].res = "pendente",
         \A j \in 1..i - 1 : canal[j].res # "pendente",
         NEW d, Trata(canal[i], d),
         NEW r, r.fn = canal[i].fn, r.res = "ok",
         r.foto = [p \in PartesDe(canal[i].fn) |-> Foto'[p]],
         canal' = [canal EXCEPT ![i] = r], tela' = tela,
         calado' = (calado \cup (Mudou \ {"catalogo"})) \ PartesDe(canal[i].fn)
  PROVE  ScreenInv'
<1> DEFINE c == canal[i]
<1>1. /\ Len(canal) \in Nat /\ DOMAIN canal = 1..Len(canal)
      /\ IsFiniteSet(Gravados) /\ Gravados \subseteq DOMAIN canal
  BY InFlight
<1>2. /\ base \in Base /\ c.fn \in Funcoes /\ tela \in Tela
  <2>1. c \in Ligacao
    BY InFlight
  <2> QED BY <2>1 DEF TerminalInv, BancoOK, TelaOK, Ligacao
<1>3. /\ base'.produtos = IF c.fn = "upsertCatalogProduct" THEN base.produtos + 1
                          ELSE base.produtos
      /\ c.fn = "logout" => terminal' = SemOp
  BY <1>2, ProductsOf
<1>4. \A p \in PartesDe(c.fn) : r.foto[p] = Foto'[p]
  OBVIOUS
<1> HIDE DEF c
<1>5. r.fn = "logout" => r.foto.sessao = SemOp
  <2>1. "sessao" \in PartesDe("logout")
    BY DEF PartesDe
  <2> QED BY <1>3, <1>4, <2>1, FotoAt DEF c
<1>6. /\ Ordem' /\ DOMAIN canal' = DOMAIN canal /\ canal'[i] = r
      /\ \A j \in DOMAIN canal : j # i => canal'[j] = canal[j]
      /\ \A j \in DOMAIN canal : i < j => canal'[j].res = "pendente"
  <2>1. r.fn = "logout" /\ r.res = "ok" => r.foto.sessao = SemOp
    BY <1>5
  <2> QED BY <2>1, AnsweredInOrder DEF ScreenInv
<1>7. ASSUME NEW p \in Partes \ calado'
      PROVE  EmDia(p)'
  <2>1. ~Mostra(c, p)
    BY DEF c, Mostra
  <2>2. \A j \in DOMAIN canal : j # i => (Mostra(canal'[j], p) <=> Mostra(canal[j], p))
    BY <1>6
  <2>3. Mostra(canal'[i], p) <=> p \in PartesDe(c.fn)
    BY <1>6 DEF Mostra, c
  <2>4. \A j \in DOMAIN canal : i < j => ~Mostra(canal'[j], p)
    BY <1>6 DEF Mostra
  <2>5. CASE p \in PartesDe(c.fn)
    <3>1. ASSUME NEW j \in DOMAIN canal', Mostra(canal'[j], p),
                 \A k \in DOMAIN canal' : j < k => ~Mostra(canal'[k], p)
          PROVE  canal'[j].foto[p] = Foto'[p]
      <4>1. ~(j < i)
        BY <1>6, <2>3, <2>5, <3>1
      <4>2. ~(i < j)
        BY <1>6, <2>4, <3>1
      <4>3. j = i
        BY <1>1, <1>6, <4>1, <4>2
      <4> QED BY <1>4, <1>6, <2>5, <4>3
    <3>2. ~ \A j \in DOMAIN canal' : ~Mostra(canal'[j], p)
      BY <1>6, <2>3, <2>5
    <3> QED BY <3>1, <3>2 DEF EmDia
  <2>6. CASE p \notin PartesDe(c.fn)
    <3>1. p \notin calado /\ EmDia(p)
      <4>1. p \notin calado
        BY <1>7, <2>6 DEF c
      <4> QED BY <1>7, <4>1 DEF ScreenInv
    <3>2. \A j \in DOMAIN canal : Mostra(canal'[j], p) <=> Mostra(canal[j], p)
      BY <2>1, <2>2, <2>3, <2>6 DEF c
    <3>3. \A j \in DOMAIN canal : Mostra(canal[j], p) => canal'[j] = canal[j]
      BY <1>6, <2>1 DEF c
    <3>4. CASE p # "catalogo"
      <4>1. Foto'[p] = Foto[p]
        BY <1>7, <2>6, <3>4 DEF Mudou, c
      <4> HIDE DEF Mostra
      <4> QED BY <1>6, <3>1, <3>2, <3>3, <3>4, <4>1 DEF EmDia
    <3>5. CASE p = "catalogo"
      <4>1. ASSUME NEW j \in DOMAIN canal', Mostra(canal'[j], p),
                   \A k \in DOMAIN canal' : j < k => ~Mostra(canal'[k], p)
            PROVE  canal'[j].foto[p] = Foto'[p]
        <5>1. /\ j \in DOMAIN canal /\ Mostra(canal[j], p) /\ canal'[j] = canal[j]
              /\ \A k \in DOMAIN canal : j < k => ~Mostra(canal[k], p)
          BY <1>6, <3>2, <3>3, <4>1
        <5>2. canal[j].foto[p] = Foto[p]
          BY <3>1, <5>1 DEF EmDia
        <5>3. canal[j].fn = "start"
          BY <3>5, <5>1, OnlyStart DEF Mostra
        <5>4. c.fn # "upsertCatalogProduct"
          <6>1. i # j => c.fn = "login"
            BY <5>1, <5>3 DEF ScreenInv, Ordem, c
          <6> QED BY <5>3, <6>1 DEF c
        <5> QED BY <1>3, <3>5, <5>1, <5>2, <5>4, FotoAt
      <4>2. ASSUME tela'.pronta, \A j \in DOMAIN canal' : ~Mostra(canal'[j], p)
            PROVE  tela'.catalogo + Cardinality(Gravados') = base'.produtos
        <5>1. tela.catalogo + Cardinality(Gravados) = base.produtos
          BY <1>6, <3>1, <3>2, <3>5, <4>2 DEF EmDia
        <5>2. CASE c.fn # "upsertCatalogProduct"
          <6>1. Gravados' = Gravados
            BY <1>6, <5>2 DEF Gravados, c
          <6> QED BY <1>3, <5>1, <5>2, <6>1
        <5>3. CASE c.fn = "upsertCatalogProduct"
          <6>1. Gravados' = Gravados \cup {i} /\ i \notin Gravados
            BY <1>6, <5>3 DEF Gravados, c
          <6>2. Cardinality(Gravados \cup {i}) = Cardinality(Gravados) + 1
            BY <1>1, <6>1, FS_AddElement
          <6>3. Cardinality(Gravados) \in Nat /\ tela.catalogo \in Nat
            BY <1>1, <1>2, FS_CardinalityType DEF Tela
          <6> QED BY <1>3, <5>1, <5>3, <6>1, <6>2, <6>3
        <5> QED BY <5>2, <5>3
      <4> QED BY <3>5, <4>1, <4>2 DEF EmDia
    <3> QED BY <3>4, <3>5
  <2> QED BY <2>5, <2>6
<1> QED BY <1>6, <1>7 DEF ScreenInv

LEMMA ServeShows ==
  ASSUME TerminalInv, ScreenInv, Atende
  PROVE  ScreenInv'
<1>0. tela' = tela
  BY Zenon DEF Atende
<1>1. PICK i \in DOMAIN canal :
        /\ canal[i].res = "pendente"
        /\ \A j \in 1..i - 1 : canal[j].res # "pendente"
        /\ \/ \E d \in Comandas \cup {0} :
                /\ Trata(canal[i], d)
                /\ \/ /\ canal' = [canal EXCEPT ![i] =
                           [canal[i] EXCEPT !.res = "ok", !.comanda = d,
                                     !.papel = IF terminal' = SemOp THEN "GARCOM"
                                               ELSE operadores'[terminal'].papel,
                                     !.foto = [p \in PartesDe(canal[i].fn) |-> Foto'[p]]]]
                      /\ calado' = (calado \cup (Mudou \ {"catalogo"}))
                                     \ PartesDe(canal[i].fn)
                   \/ /\ canal' = [canal EXCEPT ![i].res = "erro"]
                      /\ calado' = calado \cup Mudou
           \/ /\ canal' = [canal EXCEPT ![i].res = "erro"]
              /\ UNCHANGED <<operadoresVars, base, calado>>
           \/ /\ canal' = [canal EXCEPT ![i].res = "recusa"]
              /\ UNCHANGED <<operadoresVars, base, calado>>
  BY Zenon DEF Atende
<1>2. canal[i] \in Ligacao
  BY InFlight
<1>3. ASSUME NEW d \in Comandas \cup {0}, Trata(canal[i], d),
             canal' = [canal EXCEPT ![i] =
                [canal[i] EXCEPT !.res = "ok", !.comanda = d,
                          !.papel = IF terminal' = SemOp THEN "GARCOM"
                                    ELSE operadores'[terminal'].papel,
                          !.foto = [p \in PartesDe(canal[i].fn) |-> Foto'[p]]]],
             calado' = (calado \cup (Mudou \ {"catalogo"})) \ PartesDe(canal[i].fn)
      PROVE  ScreenInv'
  <2> DEFINE papel == IF terminal' = SemOp THEN "GARCOM" ELSE operadores'[terminal'].papel
             foto == [p \in PartesDe(canal[i].fn) |-> Foto'[p]]
             r == [canal[i] EXCEPT !.res = "ok", !.comanda = d, !.papel = papel,
                                   !.foto = foto]
  <2>1. canal' = [canal EXCEPT ![i] = r] /\ foto = [p \in PartesDe(canal[i].fn) |-> Foto'[p]]
    BY <1>3
  <2> HIDE DEF papel, foto
  <2>2. r.fn = canal[i].fn /\ r.res = "ok" /\ r.foto = foto
    BY <1>2 DEF Ligacao
  <2> HIDE DEF r
  <2>3. r.foto = [p \in PartesDe(canal[i].fn) |-> Foto'[p]]
    BY <2>1, <2>2
  <2> QED BY <1>0, <1>1, <1>3, <2>1, <2>2, <2>3, AnswerTold
<1>4. ASSUME NEW d \in Comandas \cup {0}, Trata(canal[i], d),
             canal' = [canal EXCEPT ![i].res = "erro"], calado' = calado \cup Mudou
      PROVE  ScreenInv'
  <2>1. \A p \in Partes \ calado' : Foto'[p] = Foto[p]
    BY <1>4 DEF Mudou
  <2>2. calado \subseteq calado'
    BY <1>4
  <2> QED BY <1>0, <1>1, <1>4, <2>1, <2>2, FailureTold
<1>5. ASSUME NEW res \in {"erro", "recusa"}, canal' = [canal EXCEPT ![i].res = res],
             UNCHANGED <<operadoresVars, base, calado>>
      PROVE  ScreenInv'
  <2>1. Foto' = Foto /\ calado' = calado
    BY <1>5, SameRows DEF operadoresVars
  <2> QED BY <1>0, <1>1, <1>5, <2>1, FailureTold
<1> QED BY <1>1, <1>3, <1>4, <1>5, Zenon

-----------------------------------------------------------------------------
(* The shell receives *)

\* What the screen shows once the answer to a call is applied.
Depois(t, c, p) ==
  IF p \in PartesDe(c.fn) THEN c.foto[p]
  ELSE IF p = "catalogo" /\ c.fn = "upsertCatalogProduct" THEN t.catalogo + 1
  ELSE t[p]

LEMMA SnapshotShows ==
  ASSUME NEW t \in Tela, NEW c
  PROVE  /\ LET u == ApplyComandaWorkspaceSnapshot(t, c)
            IN u.comandas = c.foto.comandas /\ u.pronta = t.pronta
               /\ \A p \in Partes \ {"comandas"} : u[p] = t[p]
         /\ LET u == ApplyCashWorkspaceSnapshot(t, c)
            IN u.caixa = c.foto.caixa /\ u.pronta = t.pronta
               /\ \A p \in Partes \ {"caixa"} : u[p] = t[p]
         /\ LET u == ApplyOperationalSnapshot(t, c)
            IN u.comandas = c.foto.comandas /\ u.caixa = c.foto.caixa
               /\ u.pronta = t.pronta
               /\ \A p \in Partes \ {"comandas", "caixa"} : u[p] = t[p]
<1> DEFINE x == c.foto.comandas
           y == c.foto.caixa
           s == IF /\ c.fn \notin {"openComanda", "getComandaWorkspace"}
                   /\ t.selecionada # 0
                   /\ c.foto.comandas[t.selecionada] # NaoAberta
                THEN t.selecionada ELSE c.comanda
           a == [t EXCEPT !.comandas = x, !.selecionada = s]
           b == [t EXCEPT !.caixa = y]
           o == [a EXCEPT !.caixa = y]
<1>1. /\ ApplyComandaWorkspaceSnapshot(t, c) = a /\ ApplyCashWorkspaceSnapshot(t, c) = b
      /\ ApplyOperationalSnapshot(t, c) = o
  BY DEF ApplyComandaWorkspaceSnapshot, ApplyCashWorkspaceSnapshot, ApplyOperationalSnapshot
<1> HIDE DEF x, y, s
<1>2. a.comandas = x /\ a.pronta = t.pronta /\ \A p \in Partes \ {"comandas"} : a[p] = t[p]
  BY DEF Tela, Partes
<1>3. b.caixa = y /\ b.pronta = t.pronta /\ \A p \in Partes \ {"caixa"} : b[p] = t[p]
  BY DEF Tela, Partes
<1>4. /\ o.comandas = x /\ o.caixa = y /\ o.pronta = t.pronta
      /\ \A p \in Partes \ {"comandas", "caixa"} : o[p] = t[p]
  BY DEF Tela, Partes
<1> HIDE DEF a, b, o
<1> QED BY <1>1, <1>2, <1>3, <1>4 DEF x, y

LEMMA LoadedShows ==
  ASSUME NEW t \in Tela, NEW c, c.foto.sessao = SemOp => t.sessao = SemOp
  PROVE  /\ Loaded(t, c).pronta
         /\ \A p \in Partes : Loaded(t, c)[p] = c.foto[p]
<1> DEFINE s == IF /\ c.fn \notin {"openComanda", "getComandaWorkspace"}
                   /\ t.selecionada # 0
                   /\ c.foto.comandas[t.selecionada] # NaoAberta
                THEN t.selecionada ELSE c.comanda
           f == c.foto
           k == c.papel
           u == [t EXCEPT !.comandas = f.comandas, !.selecionada = s, !.caixa = f.caixa,
                          !.equipe = f.equipe, !.instalacao = f.instalacao,
                          !.catalogo = f.catalogo, !.pronta = TRUE]
           v == [u EXCEPT !.sessao = f.sessao, !.papel = k, !.validando = FALSE]
<1>1. Loaded(t, c) = IF f.sessao = SemOp THEN u ELSE v
  BY DEF Loaded, AuthSucceeded, ApplyComandaWorkspaceSnapshot, ApplyCashWorkspaceSnapshot,
     ApplyOperationalSnapshot
<1>2. f.sessao = SemOp => t.sessao = SemOp
  OBVIOUS
<1> HIDE DEF s, f, k
<1>3. u.pronta /\ \A p \in Partes \ {"sessao"} : u[p] = f[p]
  BY DEF Tela, Partes
<1>4. u.sessao = t.sessao
  BY DEF Tela
<1>5. v.pronta /\ \A p \in Partes : v[p] = f[p]
  BY DEF Tela, Partes
<1> HIDE DEF u, v
<1>6. f.sessao = SemOp => \A p \in Partes : u[p] = f[p]
  BY <1>2, <1>3, <1>4 DEF Partes
<1> QED BY <1>1, <1>3, <1>5, <1>6 DEF f

LEMMA AppliedShows ==
  ASSUME NEW t \in Tela, NEW c, c.fn \in Funcoes,
         c.fn = "start" /\ c.foto.sessao = SemOp => t.sessao = SemOp,
         c.fn = "logout" => c.foto.sessao = SemOp
  PROVE  /\ Aplica(t, c).pronta = (t.pronta \/ c.fn = "start")
         /\ \A p \in Partes : Aplica(t, c)[p] = Depois(t, c, p)
<1>0. t.pronta \in BOOLEAN
  BY DEF Tela
<1>1. CASE c.fn = "start"
  <2>1. PartesDe(c.fn) = Partes
    BY <1>1 DEF PartesDe
  <2>2. Aplica(t, c) = Loaded(t, c)
    BY <1>1, OtherParts DEF Aplica
  <2>3. c.foto.sessao = SemOp => t.sessao = SemOp
    BY <1>1
  <2>4. Loaded(t, c).pronta /\ \A p \in Partes : Loaded(t, c)[p] = c.foto[p]
    BY <2>3, LoadedShows, Zenon
  <2> QED BY <1>1, <2>1, <2>2, <2>4 DEF Depois
<1>2. CASE c.fn \in {"login", "logout"}
  <2> DEFINE f == c.foto.sessao
             k == IF c.fn = "login" THEN c.papel ELSE "GARCOM"
             u == [t EXCEPT !.sessao = f, !.papel = k, !.validando = FALSE]
  <2>1. Aplica(t, c) = u
    BY <1>2, OtherParts DEF Aplica, AuthSucceeded
  <2>2. PartesDe(c.fn) = {"sessao"}
    BY <1>2 DEF PartesDe
  <2> HIDE DEF f, k
  <2>3. u.pronta = t.pronta /\ u.sessao = f /\ \A p \in Partes \ {"sessao"} : u[p] = t[p]
    BY DEF Tela, Partes
  <2> HIDE DEF u
  <2> QED BY <1>0, <1>2, <2>1, <2>2, <2>3 DEF Depois, f
<1>3. CASE c.fn \in {"listOperators", "listOperatorsLeft"}
  <2> DEFINE f == c.foto.equipe
             volta == IF c.fn = "listOperatorsLeft" \/ c.form.para = Novo THEN FormNovo
                      ELSE FormDe(c.form.para, c.form.papel)
             s == IF c.fn = "listOperators" THEN FALSE ELSE t.salvando
             u == [t EXCEPT !.equipe = f, !.form = volta, !.salvando = s]
  <2>1. Aplica(t, c) = u
    <3>1. CASE c.fn = "listOperators"
      BY <3>1, OtherParts DEF Aplica, TeamSaved
    <3>2. CASE c.fn = "listOperatorsLeft"
      BY <3>2, OtherParts DEF Aplica, TeamLeft, Tela
    <3> QED BY <1>3, <3>1, <3>2
  <2>2. PartesDe(c.fn) = {"equipe"}
    BY <1>3 DEF PartesDe
  <2> HIDE DEF f, volta, s
  <2>3. u.pronta = t.pronta /\ u.equipe = f /\ \A p \in Partes \ {"equipe"} : u[p] = t[p]
    BY DEF Tela, Partes
  <2> HIDE DEF u
  <2> QED BY <1>0, <1>3, <2>1, <2>2, <2>3 DEF Depois, f
<1>4. CASE c.fn = "listPrintPrinters"
  <2> DEFINE f == c.foto.instalacao
             u == [t EXCEPT !.instalacao = f, !.instalando = FALSE]
  <2>1. Aplica(t, c) = u
    BY <1>4, OtherParts DEF Aplica
  <2>2. PartesDe(c.fn) = {"instalacao"}
    BY <1>4 DEF PartesDe
  <2> HIDE DEF f
  <2>3. /\ u.pronta = t.pronta /\ u.instalacao = f
        /\ \A p \in Partes \ {"instalacao"} : u[p] = t[p]
    BY DEF Tela, Partes
  <2> HIDE DEF u
  <2> QED BY <1>0, <1>4, <2>1, <2>2, <2>3 DEF Depois, f
<1>5. CASE c.fn = "upsertCatalogProduct"
  <2> DEFINE n == t.catalogo + 1
             u == [t EXCEPT !.catalogo = n]
  <2>1. Aplica(t, c) = u
    BY <1>5, OtherParts DEF Aplica
  <2>2. PartesDe(c.fn) = {}
    BY <1>5 DEF PartesDe
  <2> HIDE DEF n
  <2>3. u.pronta = t.pronta /\ u.catalogo = n /\ \A p \in Partes \ {"catalogo"} : u[p] = t[p]
    BY DEF Tela, Partes
  <2> HIDE DEF u
  <2> QED BY <1>0, <1>5, <2>1, <2>2, <2>3 DEF Depois, n
<1>6. CASE c.fn = "confirmComandaPayment"
  <2> DEFINE u == ApplyOperationalSnapshot(t, c)
  <2>1. Aplica(t, c) = u
    BY <1>6, OtherParts DEF Aplica
  <2>2. PartesDe(c.fn) = {"comandas", "caixa"}
    BY <1>6 DEF PartesDe
  <2>3. /\ u.comandas = c.foto.comandas /\ u.caixa = c.foto.caixa /\ u.pronta = t.pronta
        /\ \A p \in Partes \ {"comandas", "caixa"} : u[p] = t[p]
    BY SnapshotShows
  <2> HIDE DEF u
  <2> QED BY <1>0, <1>6, <2>1, <2>2, <2>3 DEF Depois
<1>7. CASE c.fn \in {"openCashSession", "registerCash", "startCashClosure",
                     "closeCashSession", "exportCashAudit"}
  <2> DEFINE u == ApplyCashWorkspaceSnapshot(t, c)
  <2>1. PartesDe(c.fn) = {"caixa"}
    BY <1>7 DEF PartesDe
  <2>2. Aplica(t, c) = u
    BY <1>7, <2>1 DEF Aplica
  <2>3. /\ u.caixa = c.foto.caixa /\ u.pronta = t.pronta
        /\ \A p \in Partes \ {"caixa"} : u[p] = t[p]
    BY SnapshotShows
  <2> HIDE DEF u
  <2> QED BY <1>0, <1>7, <2>1, <2>2, <2>3 DEF Depois
<1>8. CASE c.fn \in {"saveOperator", "deactivateOperator", "completeFirstRun", "sendFirst"}
  <2>1. PartesDe(c.fn) = {}
    BY <1>8 DEF PartesDe
  <2>2. Aplica(t, c) = t
    BY <1>8, <2>1 DEF Aplica
  <2> QED BY <1>0, <1>8, <2>1, <2>2 DEF Depois
<1>9. CASE c.fn \in {"openComanda", "getComandaWorkspace", "addComandaItem",
                     "cancelComandaItem", "sendComandaToProduction", "startComandaCheckout",
                     "reopenComanda", "requestComandaCashCheckout"}
  <2> DEFINE u == ApplyComandaWorkspaceSnapshot(t, c)
  <2>1. PartesDe(c.fn) = {"comandas"}
    BY <1>9 DEF PartesDe
  <2>2. Aplica(t, c) = u
    BY <1>9, <2>1 DEF Aplica
  <2>3. /\ u.comandas = c.foto.comandas /\ u.pronta = t.pronta
        /\ \A p \in Partes \ {"comandas"} : u[p] = t[p]
    BY SnapshotShows
  <2> HIDE DEF u
  <2> QED BY <1>0, <1>9, <2>1, <2>2, <2>3 DEF Depois
<1> QED BY <1>1, <1>2, <1>3, <1>4, <1>5, <1>6, <1>7, <1>8, <1>9 DEF Funcoes

LEMMA FailureChangesNoPart ==
  ASSUME NEW t \in Tela, NEW c
  PROVE  MesmaTela(t, HandleDomainError(t, c)) /\ MesmaTela(t, [t EXCEPT !.validando = FALSE])
<1>1. /\ MesmaTela(t, [t EXCEPT !.validando = FALSE])
      /\ MesmaTela(t, [t EXCEPT !.salvando = FALSE])
      /\ MesmaTela(t, [t EXCEPT !.instalando = FALSE])
  BY DEF MesmaTela, Partes, Tela
<1>2. MesmaTela(t, t)
  BY DEF MesmaTela
<1>3. HandleDomainError(t, c) \in
        {[t EXCEPT !.salvando = FALSE], [t EXCEPT !.instalando = FALSE], t}
  BY DEF HandleDomainError
<1> QED BY <1>1, <1>2, <1>3

LEMMA NextCallWaits ==
  ASSUME NEW c \in Ligacao
  PROVE  /\ Continua(c) \in Seq(Ligacao)
         /\ \A i \in 1..Len(Continua(c)) :
              Continua(c)[i].res = "pendente" /\ Continua(c)[i].fn # "start"
<1> DEFINE Espera(r) == r \in Ligacao /\ r.res = "pendente" /\ r.fn # "start"
<1>1. ASSUME NEW r, Espera(r)
      PROVE  /\ <<r>> \in Seq(Ligacao)
             /\ \A i \in 1..Len(<<r>>) :
                  <<r>>[i].res = "pendente" /\ <<r>>[i].fn # "start"
  BY <1>1
<1>2. ASSUME NEW fn \in {"listOperators", "listOperatorsLeft", "startComandaCheckout"}
      PROVE  Espera([c EXCEPT !.fn = fn, !.res = "pendente"])
  <2>1. fn \in Funcoes
    BY DEF Funcoes
  <2> QED BY <2>1 DEF Ligacao
<1>3. Espera([Pedido EXCEPT !.fn = "listPrintPrinters"])
  BY FirstCall DEF Ligacao, Funcoes
<1> HIDE DEF Espera
<1>4. ASSUME Continua(c) = <<>>
      PROVE  /\ Continua(c) \in Seq(Ligacao)
             /\ \A i \in 1..Len(Continua(c)) :
                  Continua(c)[i].res = "pendente" /\ Continua(c)[i].fn # "start"
  <2>1. <<>> \in Seq(Ligacao) /\ Len(<<>>) = 0
    OBVIOUS
  <2> QED BY <1>4, <2>1
<1>5. Continua(c) = <<>> \/ \E r : Espera(r) /\ Continua(c) = <<r>>
  <2>1. CASE c.fn = "saveOperator"
    <3>1. Continua(c) = <<[c EXCEPT !.fn = "listOperators", !.res = "pendente"]>>
      BY <2>1 DEF Continua
    <3> QED BY <1>2, <3>1
  <2>2. CASE c.fn = "deactivateOperator"
    <3>1. Continua(c) = <<[c EXCEPT !.fn = "listOperatorsLeft", !.res = "pendente"]>>
      BY <2>2 DEF Continua
    <3> QED BY <1>2, <3>1
  <2>3. CASE c.fn = "completeFirstRun"
    <3>1. Continua(c) = <<[Pedido EXCEPT !.fn = "listPrintPrinters"]>>
      BY <2>3 DEF Continua
    <3> QED BY <1>3, <3>1
  <2>4. CASE c.fn = "sendFirst"
    <3>1. Continua(c) = <<[c EXCEPT !.fn = "startComandaCheckout", !.res = "pendente"]>>
      BY <2>4 DEF Continua
    <3> QED BY <1>2, <3>1
  <2>5. CASE c.fn \notin {"saveOperator", "deactivateOperator", "completeFirstRun",
                          "sendFirst"}
    BY <2>5 DEF Continua
  <2> QED BY <2>1, <2>2, <2>3, <2>4, <2>5
<1> QED BY <1>1, <1>4, <1>5

(* The oldest call leaves the queue and the one that follows it, if any, waits at the
   end. *)
LEMMA QueueMoves ==
  ASSUME TerminalInv, Ordem, canal # <<>>,
         canal' = Tail(canal) \/ canal' = Tail(canal) \o Continua(canal[1])
  PROVE  LET n == Len(canal) - 1
         IN /\ n \in Nat /\ 1 \in DOMAIN canal /\ DOMAIN canal = 1..(n + 1)
            /\ \E m \in Nat : n <= m /\ DOMAIN canal' = 1..m
            /\ \A i \in 1..n : canal'[i] = canal[i + 1] /\ canal[i + 1].fn # "start"
            /\ \A i \in DOMAIN canal' : i \notin 1..n =>
                 canal'[i].res = "pendente" /\ canal'[i].fn # "start"
<1> DEFINE n == Len(canal) - 1
           t == Tail(canal)
           k == Continua(canal[1])
           Moveu == /\ \E m \in Nat : n <= m /\ DOMAIN canal' = 1..m
                    /\ \A i \in 1..n : canal'[i] = canal[i + 1] /\ canal[i + 1].fn # "start"
                    /\ \A i \in DOMAIN canal' : i \notin 1..n =>
                         canal'[i].res = "pendente" /\ canal'[i].fn # "start"
<1>1. canal \in Seq(Ligacao)
  <2>1. Boas(Conhecidos) \subseteq Ligacao
    BY DEF Boas
  <2> QED BY <2>1, SeqMonotonic DEF TerminalInv
<1>2. /\ n \in Nat /\ 1 \in DOMAIN canal /\ DOMAIN canal = 1..(n + 1)
  BY <1>1, EmptySeq, LenProperties
<1>3. /\ t \in Seq(Ligacao) /\ Len(t) = n
      /\ \A i \in 1..n : t[i] = canal[i + 1]
  BY <1>1, HeadTailProperties
<1> HIDE DEF n, t
<1>4. ASSUME NEW i \in 1..n
      PROVE  canal[i + 1].fn # "start"
  <2>1. i + 1 \in DOMAIN canal /\ i + 1 # 1
    BY <1>2
  <2> QED BY <2>1 DEF Ordem
<1>5. canal[1] \in Ligacao
  BY <1>1, <1>2, LenProperties
<1>6. /\ k \in Seq(Ligacao)
      /\ \A i \in 1..Len(k) : k[i].res = "pendente" /\ k[i].fn # "start"
  BY <1>5, NextCallWaits
<1> HIDE DEF k
<1>7. ASSUME canal' = t
      PROVE  Moveu
  <2>1. DOMAIN canal' = 1..n
    BY <1>3, <1>7, LenProperties
  <2>2. \A i \in 1..n : canal'[i] = canal[i + 1] /\ canal[i + 1].fn # "start"
    BY <1>3, <1>4, <1>7
  <2>3. n <= n
    BY <1>2
  <2> QED BY <1>2, <2>1, <2>2, <2>3
<1>8. ASSUME canal' = t \o k
      PROVE  Moveu
  <2> DEFINE s == t \o k
             m == n + Len(k)
  <2>1. /\ s \in Seq(Ligacao) /\ Len(s) = m
        /\ \A i \in 1..m : s[i] = IF i <= n THEN t[i] ELSE k[i - n]
    <3>1. t \in Seq(Ligacao) /\ k \in Seq(Ligacao)
      BY <1>3, <1>6
    <3>2. /\ s \in Seq(Ligacao) /\ Len(s) = Len(t) + Len(k)
          /\ \A i \in 1..Len(t) + Len(k) :
               s[i] = IF i <= Len(t) THEN t[i] ELSE k[i - Len(t)]
      BY <3>1, ConcatProperties, Zenon
    <3> HIDE DEF s
    <3> QED BY <1>3, <3>2
  <2>2. canal' = s
    BY <1>8
  <2>3. Len(k) \in Nat
    BY <1>6, LenProperties
  <2> HIDE DEF s
  <2>4. m \in Nat /\ n <= m /\ DOMAIN canal' = 1..m
    BY <1>2, <2>1, <2>2, <2>3, LenProperties
  <2>5. ASSUME NEW i \in 1..n
        PROVE  canal'[i] = canal[i + 1] /\ canal[i + 1].fn # "start"
    <3>1. i \in 1..m /\ i <= n
      BY <1>2, <2>3
    <3>2. canal'[i] = t[i]
      BY <2>1, <2>2, <3>1
    <3> QED BY <1>3, <1>4, <3>2
  <2>6. ASSUME NEW i \in 1..m, i \notin 1..n
        PROVE  canal'[i].res = "pendente" /\ canal'[i].fn # "start"
    <3>1. i - n \in 1..Len(k) /\ ~(i <= n)
      BY <1>2, <2>3, <2>6
    <3>2. canal'[i] = k[i - n]
      BY <2>1, <2>2, <3>1
    <3> QED BY <1>6, <3>1, <3>2
  <2> HIDE DEF m
  <2> QED BY <1>2, <2>4, <2>5, <2>6
<1> QED BY <1>2, <1>7, <1>8 DEF t, k, n, Moveu

(* The products that the screen has not counted yet move up with the queue. *)
LEMMA Counted ==
  ASSUME TerminalInv, NEW n \in Nat, DOMAIN canal = 1..(n + 1),
         \A i \in 1..n : canal'[i] = canal[i + 1] /\ i \in DOMAIN canal',
         \A i \in DOMAIN canal' : i \notin 1..n => canal'[i].res = "pendente"
  PROVE  Cardinality(Gravados') = Cardinality(Gravados \ {1})
<1> DEFINE S == Gravados \ {1}
           T == Gravados'
           f == [i \in S |-> i - 1]
<1>1. \A i \in S : i \in 2..(n + 1) /\ i - 1 \in 1..n /\ (i - 1) + 1 = i
  BY DEF Gravados
<1>2. \A i \in T : i \in 1..n /\ i + 1 \in DOMAIN canal /\ i + 1 # 1
  BY DEF Gravados
<1>3. \A i \in S : f[i] \in T
  <2> TAKE i \in S
  <2>1. i - 1 \in 1..n /\ canal'[i - 1] = canal[i] /\ f[i] = i - 1 /\ i - 1 \in DOMAIN canal'
    BY <1>1
  <2> QED BY <2>1 DEF Gravados
<1>4. \A i \in T : i + 1 \in S /\ f[i + 1] = i
  <2> TAKE i \in T
  <2>1. i \in 1..n /\ i + 1 \in DOMAIN canal /\ i + 1 # 1 /\ canal'[i] = canal[i + 1]
    BY <1>2
  <2>2. i + 1 \in S
    BY <2>1 DEF Gravados
  <2>3. f[i + 1] = (i + 1) - 1
    BY <2>2
  <2> QED BY <2>1, <2>2, <2>3
<1>5. \A i, j \in S : f[i] = f[j] => i = j
  <2>1. \A i \in S : f[i] = i - 1
    OBVIOUS
  <2> HIDE DEF S, f
  <2>2. \A i \in S : i \in Int
    BY <1>1
  <2> QED BY <2>1, <2>2
<1>6. f \in Bijection(S, T)
  BY <1>3, <1>4, <1>5, Zenon DEF Bijection, Injection, Surjection, IsInjective
<1>7. IsFiniteSet(S)
  BY InFlight, FS_Subset
<1>8. ExistsBijection(S, T)
  BY <1>6 DEF ExistsBijection
<1> HIDE DEF S, T
<1>9. Cardinality(T) = Cardinality(S)
  BY <1>7, <1>8, FS_Bijection
<1> QED BY <1>9 DEF S, T

LEMMA ReceiveShows ==
  ASSUME TerminalInv, ScreenInv, Recebe
  PROVE  ScreenInv'
<1> DEFINE c == canal[1]
           n == Len(canal) - 1
<1>1. /\ canal # <<>> /\ UNCHANGED <<operadoresVars, base, calado>>
      /\ \/ /\ c.res = "ok" /\ tela' = Aplica(tela, c)
            /\ canal' = Tail(canal) \o Continua(c)
         \/ /\ c.res = "erro" /\ tela' = HandleDomainError(tela, c)
            /\ canal' = Tail(canal)
         \/ /\ c.res = "recusa" /\ tela' = [tela EXCEPT !.validando = FALSE]
            /\ canal' = Tail(canal)
  <2>1. canal # <<>> => Head(canal) = c
    OBVIOUS
  <2> HIDE DEF c
  <2> QED BY <2>1 DEF Recebe
<1>2. /\ Foto' = Foto /\ base' = base /\ calado' = calado
  BY <1>1, SameRows DEF operadoresVars
<1>3. /\ n \in Nat /\ 1 \in DOMAIN canal /\ DOMAIN canal = 1..(n + 1)
      /\ \E m \in Nat : n <= m /\ DOMAIN canal' = 1..m
      /\ \A i \in 1..n : canal'[i] = canal[i + 1] /\ canal[i + 1].fn # "start"
      /\ \A i \in DOMAIN canal' : i \notin 1..n =>
           canal'[i].res = "pendente" /\ canal'[i].fn # "start"
  <2>1. canal' = Tail(canal) \/ canal' = Tail(canal) \o Continua(c)
    BY <1>1
  <2> QED BY <1>1, <2>1, QueueMoves DEF ScreenInv
<1>4. /\ tela \in Tela /\ tela.catalogo \in Nat /\ Ordem
      /\ \A p \in Partes \ calado : EmDia(p)
  BY DEF TerminalInv, TelaOK, Tela, ScreenInv
<1>5. c.fn \in Funcoes
  BY <1>3, InFlight DEF Ligacao
<1>6. c.res = "ok" =>
        /\ tela' = Aplica(tela, c)
        /\ tela'.pronta = (tela.pronta \/ c.fn = "start")
        /\ \A p \in Partes : tela'[p] = Depois(tela, c, p)
  <2> SUFFICES ASSUME c.res = "ok"
               PROVE  /\ tela' = Aplica(tela, c)
                      /\ tela'.pronta = (tela.pronta \/ c.fn = "start")
                      /\ \A p \in Partes : tela'[p] = Depois(tela, c, p)
    OBVIOUS
  <2>1. tela' = Aplica(tela, c)
    BY <1>1
  <2>2. /\ c.fn = "start" => tela.sessao = SemOp
        /\ c.fn = "logout" => c.foto.sessao = SemOp
    BY <1>3, <1>4 DEF Ordem
  <2> HIDE DEF c
  <2>3. /\ Aplica(tela, c).pronta = (tela.pronta \/ c.fn = "start")
        /\ \A p \in Partes : Aplica(tela, c)[p] = Depois(tela, c, p)
    BY <1>4, <1>5, <2>2, AppliedShows
  <2> QED BY <2>1, <2>3
<1>7. c.res # "ok" => MesmaTela(tela, tela')
  BY <1>1, <1>4, FailureChangesNoPart
<1> HIDE DEF c, n
<1>8. \A i \in 1..n : i + 1 \in DOMAIN canal /\ i \in DOMAIN canal'
  BY <1>3
<1>9. Ordem'
  <2>1. ASSUME NEW i \in DOMAIN canal', NEW j \in DOMAIN canal', i < j,
               canal'[i].res = "pendente"
        PROVE  canal'[j].res = "pendente"
    <3>1. CASE j \in 1..n
      <4>1. i \in 1..n
        BY <1>3, <2>1, <3>1
      <4>2. i + 1 < j + 1
        BY <2>1, <3>1, <4>1
      <4>3. /\ i + 1 \in DOMAIN canal /\ j + 1 \in DOMAIN canal
            /\ canal[i + 1].res = "pendente" /\ canal'[j] = canal[j + 1]
        BY <1>3, <1>8, <2>1, <3>1, <4>1
      <4>4. canal[j + 1].res = "pendente"
        BY <1>4, <4>2, <4>3 DEF Ordem
      <4> QED BY <4>3, <4>4
    <3>2. CASE j \notin 1..n
      BY <1>3, <2>1, <3>2
    <3> QED BY <3>1, <3>2
  <2>2. ASSUME NEW i \in DOMAIN canal'
        PROVE  canal'[i].fn # "start"
    BY <1>3, <2>2
  <2>3. ASSUME NEW i \in DOMAIN canal', canal'[i].fn = "logout", canal'[i].res = "ok"
        PROVE  canal'[i].foto.sessao = SemOp
    <3>1. i \in 1..n
      BY <1>3, <2>3
    <3> QED BY <1>3, <1>4, <1>8, <2>3, <3>1 DEF Ordem
  <2> QED BY <2>1, <2>2, <2>3 DEF Ordem
<1>10. ASSUME NEW p \in Partes \ calado'
       PROVE  EmDia(p)'
  <2>1. EmDia(p)
    BY <1>2, <1>4, <1>10
  <2>2. \A i \in 1..n : Mostra(canal'[i], p) <=> Mostra(canal[i + 1], p)
    BY <1>3
  <2>3. \A i \in DOMAIN canal' : Mostra(canal'[i], p) => i \in 1..n
    BY <1>3 DEF Mostra
  <2>4. ASSUME NEW i \in DOMAIN canal', Mostra(canal'[i], p),
               \A j \in DOMAIN canal' : i < j => ~Mostra(canal'[j], p)
        PROVE  canal'[i].foto[p] = Foto'[p]
    <3>1. i \in 1..n /\ Mostra(canal[i + 1], p)
      BY <2>2, <2>3, <2>4
    <3>2. ASSUME NEW j \in DOMAIN canal, i + 1 < j
          PROVE  ~Mostra(canal[j], p)
      <4>1. j - 1 \in 1..n /\ i < j - 1 /\ (j - 1) + 1 = j
        BY <1>3, <3>1, <3>2
      <4>2. j - 1 \in DOMAIN canal'
        BY <1>8, <4>1
      <4> QED BY <2>2, <2>4, <4>1, <4>2
    <3>3. canal[i + 1].foto[p] = Foto[p]
      BY <1>8, <2>1, <3>1, <3>2 DEF EmDia
    <3> QED BY <1>2, <1>3, <3>1, <3>3
  <2>5. ASSUME tela'.pronta, \A i \in DOMAIN canal' : ~Mostra(canal'[i], p)
        PROVE  IF p = "catalogo"
               THEN tela'.catalogo + Cardinality(Gravados') = base'.produtos
               ELSE tela'[p] = Foto'[p]
    <3>1. ASSUME NEW j \in DOMAIN canal, j # 1
          PROVE  ~Mostra(canal[j], p)
      <4>1. j - 1 \in 1..n /\ (j - 1) + 1 = j
        BY <1>3, <3>1
      <4>2. j - 1 \in DOMAIN canal'
        BY <1>8, <4>1
      <4> QED BY <2>2, <2>5, <4>1, <4>2
    <3>2. CASE Mostra(c, p)
      <4>1. c.foto[p] = Foto[p]
        <5>1. \A j \in DOMAIN canal : 1 < j => ~Mostra(canal[j], p)
          BY <3>1
        <5> QED BY <1>3, <2>1, <3>2, <5>1 DEF EmDia, c
      <4>2. tela'[p] = c.foto[p]
        BY <1>6, <1>10, <3>2 DEF Mostra, Depois
      <4>3. CASE p # "catalogo"
        BY <1>2, <4>1, <4>2, <4>3
      <4>4. CASE p = "catalogo"
        <5>1. c.fn = "start"
          BY <3>2, <4>4, OnlyStart DEF Mostra
        <5>2. Gravados' = {}
          <6>1. ASSUME NEW i \in DOMAIN canal'
                PROVE  i \notin Gravados'
            <7>1. CASE i \in 1..n
              <8>1. canal[i + 1].fn = "login"
                BY <1>3, <1>4, <1>8, <5>1, <7>1 DEF Ordem, c
              <8> QED BY <1>3, <7>1, <8>1 DEF Gravados
            <7>2. CASE i \notin 1..n
              BY <1>3, <7>2 DEF Gravados
            <7> QED BY <7>1, <7>2
          <6> QED BY <6>1 DEF Gravados
        <5>3. Cardinality(Gravados') = 0
          BY <5>2, FS_EmptySet
        <5>4. Foto[p] = base.produtos /\ tela'[p] = tela'.catalogo /\ base.produtos \in Nat
          <6>1. base.produtos \in 0..MaxProdutos
            BY DEF TerminalInv, BancoOK, Base
          <6> QED BY <4>4, <6>1, FotoAt, Numbers
        <5> QED BY <1>2, <4>1, <4>2, <4>4, <5>3, <5>4
      <4> QED BY <4>3, <4>4
    <3>3. CASE ~Mostra(c, p)
      <4>1. \A j \in DOMAIN canal : ~Mostra(canal[j], p)
        BY <3>1, <3>3 DEF c
      <4>2. tela.pronta
        <5>1. CASE c.res = "ok"
          <6>1. c.fn # "start"
            BY <1>10, <3>3, <5>1 DEF Mostra, PartesDe
          <6> QED BY <1>6, <2>5, <5>1, <6>1
        <5>2. CASE c.res # "ok"
          BY <1>7, <2>5, <5>2 DEF MesmaTela
        <5> QED BY <5>1, <5>2
      <4>3. CASE p # "catalogo"
        <5>1. tela[p] = Foto[p]
          BY <2>1, <4>1, <4>2, <4>3 DEF EmDia
        <5>2. tela'[p] = tela[p]
          <6>1. CASE c.res = "ok"
            BY <1>6, <1>10, <3>3, <4>3, <6>1 DEF Mostra, Depois
          <6>2. CASE c.res # "ok"
            BY <1>7, <1>10, <6>2 DEF MesmaTela
          <6> QED BY <6>1, <6>2
        <5> QED BY <1>2, <4>3, <5>1, <5>2
      <4>4. CASE p = "catalogo"
        <5>1. tela.catalogo + Cardinality(Gravados) = base.produtos
          BY <2>1, <4>1, <4>2, <4>4 DEF EmDia
        <5>2. Cardinality(Gravados \ {1}) = Cardinality(Gravados')
          <6>1. /\ n \in Nat /\ DOMAIN canal = 1..(n + 1)
                /\ \A i \in 1..n : i \in DOMAIN canal' /\ canal'[i] = canal[i + 1]
                /\ \A i \in DOMAIN canal' : i \notin 1..n => canal'[i].res = "pendente"
            BY <1>3, <1>8
          <6> QED BY <6>1, Counted
        <5>3. IsFiniteSet(Gravados) /\ Cardinality(Gravados) \in Nat
          BY InFlight, FS_CardinalityType
        <5>4. CASE 1 \in Gravados
          <6>1. c.fn = "upsertCatalogProduct" /\ c.res = "ok"
            BY <5>4 DEF Gravados, c
          <6>2. Cardinality(Gravados \ {1}) = Cardinality(Gravados) - 1
            BY <5>3, <5>4, FS_RemoveElement
          <6>3. tela'["catalogo"] = tela.catalogo + 1
            <7>1. "catalogo" \in Partes /\ "catalogo" \notin PartesDe("upsertCatalogProduct")
              BY DEF Partes, PartesDe
            <7> QED BY <1>6, <6>1, <7>1 DEF Depois
          <6> QED BY <1>2, <1>4, <4>4, <5>1, <5>2, <5>3, <6>2, <6>3
        <5>5. CASE 1 \notin Gravados
          <6>1. Gravados \ {1} = Gravados
            BY <5>5
          <6>2. tela'["catalogo"] = tela["catalogo"]
            <7>1. CASE c.res = "ok"
              <8>1. c.fn # "upsertCatalogProduct"
                BY <1>3, <5>5, <7>1 DEF Gravados, c
              <8> QED BY <1>6, <1>10, <3>3, <4>4, <7>1, <8>1 DEF Mostra, Depois
            <7>2. CASE c.res # "ok"
              BY <1>7, <1>10, <4>4, <7>2 DEF MesmaTela
            <7> QED BY <7>1, <7>2
          <6> QED BY <1>2, <4>4, <5>1, <5>2, <6>1, <6>2
        <5> QED BY <5>4, <5>5
      <4> QED BY <4>3, <4>4
    <3> QED BY <3>2, <3>3
  <2> QED BY <2>4, <2>5 DEF EmDia
<1> QED BY <1>2, <1>9, <1>10 DEF ScreenInv

-----------------------------------------------------------------------------
(* The phones, the clock, the restart and the start *)

LEMMA PhonesShow ==
  ASSUME TerminalInv, TerminalInv', ScreenInv, Telefone
  PROVE  ScreenInv'
<1>1. calado' \subseteq Partes
  BY DEF TerminalInv
<1>2. ASSUME canal' = canal, tela' = tela, calado \subseteq calado',
             \A p \in Partes \ calado' : Foto'[p] = Foto[p]
      PROVE  ScreenInv'
  <2>1. Gravados' = Gravados /\ Ordem'
    BY <1>2 DEF Gravados, Ordem, ScreenInv
  <2>2. ASSUME NEW p \in Partes \ calado'
        PROVE  EmDia(p)'
    <3>1. EmDia(p) /\ Foto'[p] = Foto[p]
      BY <1>2, <2>2 DEF ScreenInv
    <3>2. p = "catalogo" => base'.produtos = base.produtos
      BY <3>1, FotoAt
    <3> QED BY <1>2, <2>1, <3>1, <3>2 DEF EmDia
  <2> QED BY <2>1, <2>2 DEF ScreenInv
<1>3. ASSUME NEW t \in Celulares, WaiterRequest(t)
      PROVE  ScreenInv'
  <2>1. /\ canal' = canal /\ tela' = tela /\ calado' = calado \cup Mudou
    BY <1>3, Zenon DEF WaiterRequest
  <2>2. \A p \in Partes \ calado' : Foto'[p] = Foto[p]
    BY <2>1 DEF Mudou
  <2> QED BY <1>2, <2>1, <2>2
<1>4. ASSUME UNCHANGED <<operadores, terminal, base, canal, tela, calado>>
      PROVE  ScreenInv'
  BY <1>2, <1>4, SameRows
<1>5. ASSUME NEW t \in Celulares, WaiterExpired(t), UNCHANGED <<base, canal, tela, calado>>
      PROVE  ScreenInv'
  BY <1>4, <1>5 DEF WaiterExpired
<1>6. ASSUME NEW t \in Celulares, NEW p \in Pins, WaiterAuth(t, p),
             UNCHANGED <<base, canal, tela, calado>>
      PROVE  ScreenInv'
  BY <1>4, <1>6 DEF WaiterAuth
<1> QED BY <1>3, <1>5, <1>6, Zenon DEF Telefone

LEMMA FirstScreenShows ==
  canal = <<Pedido>> /\ tela = CreateInitialShellState => ScreenInv
<1> SUFFICES ASSUME canal = <<Pedido>>, tela = CreateInitialShellState
             PROVE  ScreenInv
  OBVIOUS
<1>1. DOMAIN canal = {1} /\ canal[1] = Pedido
  OBVIOUS
<1>2. Pedido.fn = "start" /\ Pedido.res = "pendente"
  BY FirstCall
<1>3. ~tela.pronta /\ tela.sessao = SemOp /\ tela.instalacao
  BY DEF CreateInitialShellState
<1>4. Ordem
  BY <1>1, <1>2, <1>3 DEF Ordem
<1>5. \A p \in Partes : EmDia(p)
  BY <1>1, <1>2, <1>3 DEF EmDia, Mostra
<1> QED BY <1>4, <1>5 DEF ScreenInv

LEMMA ScreenInductive ==
  TerminalInv /\ TerminalInv' /\ ScreenInv /\ [TerminalNext]_terminalVars => ScreenInv'
<1> SUFFICES ASSUME TerminalInv, TerminalInv', ScreenInv, [TerminalNext]_terminalVars
             PROVE  ScreenInv'
  OBVIOUS
<1>1. CASE Toque
  BY <1>1, TouchShows
<1>2. CASE Atende
  BY <1>2, ServeShows
<1>3. CASE Recebe
  BY <1>3, ReceiveShows
<1>4. CASE Telefone
  BY <1>4, PhonesShow
<1>5. ASSUME Foto' = Foto, base' = base, UNCHANGED <<canal, tela, calado>>
      PROVE  ScreenInv'
  <2>1. MesmaTela(tela, tela') /\ calado' \subseteq Partes
    BY <1>5 DEF MesmaTela, TerminalInv
  <2> QED BY <1>5, <2>1, QueueGrows
<1>6. CASE Relogio
  BY <1>5, <1>6, SameRows DEF Relogio, Hora
<1>7. CASE Restart
  <2>1. canal' = <<Pedido>> /\ tela' = CreateInitialShellState
    BY <1>7 DEF Restart
  <2>2. (canal = <<Pedido>> /\ tela = CreateInitialShellState)'
    BY <2>1
  <2> QED BY <2>2, FirstScreenShows, PTL
<1>8. CASE UNCHANGED terminalVars
  BY <1>5, <1>8, SameRows DEF terminalVars, operadoresVars
<1> QED BY <1>1, <1>2, <1>3, <1>4, <1>6, <1>7, <1>8 DEF TerminalNext

\* With no call in flight the screen shows every part as it is, except those that a
\* phone, a call that failed after its write, or the first of two calls of one press
\* whose second failed, has changed since: whatever was pressed meanwhile, and however
\* many calls were in flight (PdvShellController, its reducer and the IPC handlers).
THEOREM ScreenIsTrue == TerminalSpec => []ScreenAgrees
<1>1. TerminalInit => ScreenInv
  BY FirstScreenShows DEF TerminalInit
<1>2. ScreenInv /\ TerminalInv => ScreenAgrees
  <2> SUFFICES ASSUME ScreenInv, TerminalInv, canal = <<>>, tela.pronta,
                      NEW p \in Partes \ calado
               PROVE  tela[p] = Foto[p]
    BY DEF ScreenAgrees
  <2>1. DOMAIN canal = {} /\ EmDia(p)
    BY DEF ScreenInv
  <2>2. CASE p # "catalogo"
    BY <2>1, <2>2 DEF EmDia
  <2>3. CASE p = "catalogo"
    <3>1. Gravados = {}
      BY <2>1 DEF Gravados
    <3>2. tela.catalogo + 0 = base.produtos /\ tela.catalogo \in Nat
      BY <2>1, <2>3, <3>1, FS_EmptySet DEF EmDia, TerminalInv, TelaOK, Tela
    <3> QED BY <2>3, <3>2, FotoAt
  <2> QED BY <2>2, <2>3
<1> QED BY <1>1, <1>2, TerminalStarts, TerminalInductive, ScreenInductive, PTL
       DEF TerminalSpec
=============================================================================
