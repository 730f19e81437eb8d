\* One comanda, an enabled emitter and a crash between the commit and the queue.
SPECIFICATION PdvSpec
CONSTANTS
  t1 = t1
  t2 = t2
  cmd1 = cmd1
  cmd2 = cmd2
  ComandaIds = {cmd1}
  Numeros = {101}
  Setores = {"COZINHA"}
  Prices = {2}
  Methods = {"DINHEIRO"}
  PayAmounts = {2}
  MaxItems = 1
  MaxPayments = 1
  MaxPreContas = 1
  MaxForwards = 0
  Terminals = {t1}
  Funds = {0}
  Amounts = {2}
  Counts = {0}
  Sources = {cmd1}
  NoSource = "NENHUMA"
  MaxCaixas = 1
  MaxMovements = 1
PROPERTIES
  PaidWithEmitterIsQueued
CHECK_DEADLOCK FALSE
