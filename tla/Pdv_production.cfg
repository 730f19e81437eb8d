\* One comanda sent in several batches, charged, reopened and charged again.
SPECIFICATION PdvSpec
CONSTANTS
  t1 = t1
  t2 = t2
  cmd1 = cmd1
  cmd2 = cmd2
  ComandaIds = {cmd1}
  Numeros = {101}
  Setores = {"BAR", "COZINHA"}
  Prices = {2}
  Methods = {"DINHEIRO", "PIX"}
  PayAmounts = {3, 4}
  MaxItems = 2
  MaxPayments = 1
  MaxPreContas = 2
  MaxForwards = 1
  Terminals = {t1, t2}
  Funds = {0}
  Amounts = {3, 4}
  Counts = {0}
  Sources = {cmd1}
  NoSource = "NENHUMA"
  MaxCaixas = 1
  MaxMovements = 1
INVARIANTS
  TicketsCoverBatches
CHECK_DEADLOCK FALSE
