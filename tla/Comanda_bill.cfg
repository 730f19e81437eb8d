\* One comanda, three items, two rounds of pre-conta and split payments.
SPECIFICATION ComandaSpec
CONSTANTS
  cmd1 = cmd1
  ComandaIds = {cmd1}
  Numeros = {101}
  Setores = {"COZINHA"}
  Prices <- MCPrices
  Methods = {"DINHEIRO", "PIX"}
  PayAmounts <- MCPayAmounts
  MaxItems = 3
  MaxPayments = 2
  MaxPreContas = 2
  MaxForwards = 1
INVARIANTS
  ComandaTypeOK
  BatchesMatchItems
  PreContaIsTheBill
  ClosedMeansPaid
  TrailExplainsComanda
PROPERTIES
  HistoryIsKept
CHECK_DEADLOCK FALSE
