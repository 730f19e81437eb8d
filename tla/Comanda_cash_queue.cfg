\* One comanda that is forwarded, reopened and charged again.
SPECIFICATION ComandaSpec
CONSTANTS
  cmd1 = cmd1
  ComandaIds = {cmd1}
  Numeros = {101}
  Setores = {"COZINHA"}
  Prices = {2}
  Methods = {"DINHEIRO"}
  PayAmounts = {2}
  MaxItems = 1
  MaxPayments = 1
  MaxPreContas = 2
  MaxForwards = 1
INVARIANTS
  CashQueueIsForwarded
CHECK_DEADLOCK FALSE
