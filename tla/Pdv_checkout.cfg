\* Two comandas that compete for numbers, two drawers and the fiscal series.
SPECIFICATION PdvSpec
CONSTANTS
  t1 = t1
  t2 = t2
  cmd1 = cmd1
  cmd2 = cmd2
  ComandaIds = {cmd1, cmd2}
  Numeros = {101, 102}
  Setores = {"COZINHA"}
  Prices = {2}
  Methods = {"DINHEIRO"}
  PayAmounts = {3}
  MaxItems = 1
  MaxPayments = 1
  MaxPreContas = 2
  MaxForwards = 0
  Terminals = {t1, t2}
  Funds = {0}
  Amounts = {3}
  Counts = {0}
  Sources = {cmd1, cmd2}
  NoSource = "NENHUMA"
  MaxCaixas = 2
  MaxMovements = 2
INVARIANTS
  PdvTypeOK
  UniqueActiveNumero
  LedgerMatchesPayments
  NfceIsTheBill
PROPERTIES
  CheckoutSettlesOnce
SYMMETRY Symmetry
CHECK_DEADLOCK FALSE
