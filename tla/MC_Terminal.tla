---------------------------- MODULE MC_Terminal ----------------------------
(* The instance of Terminal that TLC checks. *)
EXTENDS Terminal, TLC

CONSTANTS g, w, n, p1, p2, p3

\* A manager and a waiter, and an id for one more.
MC_Equipe ==
  (g :> [ativo |-> TRUE, papel |-> "GERENTE", pin |-> p1]) @@
  (w :> [ativo |-> TRUE, papel |-> "GARCOM", pin |-> p2]) @@
  (n :> SemRegistro)

MC_Comanda(status, numero, lancados, enviados) ==
  [status |-> status, numero |-> numero, lancados |-> lancados, enviados |-> enviados,
   encaminhada |-> FALSE]

MC_Base(comandas, caixa, completa) ==
  [comandas |-> comandas, caixa |-> caixa, completa |-> completa, produtos |-> 1]

\* The first start, a turn under way, and one whose cash is being counted.
MC_Inicios ==
  {[operadores |-> MC_Equipe, terminal |-> SemOp,
    base |-> MC_Base(<<NaoAberta, NaoAberta>>, SemCaixa, FALSE)],
   [operadores |-> MC_Equipe, terminal |-> g,
    base |-> MC_Base(<<MC_Comanda("EM_PAGAMENTO", 1, 0, 1), MC_Comanda("ABERTA", 2, 1, 0)>>,
                     [status |-> "ABERTO", movimentos |-> 0], TRUE)],
   [operadores |-> MC_Equipe, terminal |-> g,
    base |-> MC_Base(<<MC_Comanda("EM_PRODUCAO", 1, 0, 1), NaoAberta>>,
                     [status |-> "FECHAMENTO", movimentos |-> 1], TRUE)]}
============================================================================
