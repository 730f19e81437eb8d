\* One terminal that closes its session and opens a second one.
SPECIFICATION CaixaSpec
CONSTANTS
  t1 = t1
  cmd1 = cmd1
  Terminals = {t1}
  Methods = {"DINHEIRO", "PIX"}
  Funds = {1}
  Amounts = {1, 2}
  Counts = {0, 2}
  Sources = {}
  NoSource = "NENHUMA"
  MaxCaixas = 2
  MaxMovements = 2
INVARIANTS
  CaixaTypeOK
  OneActiveCaixa
  CashNeverNegative
  TotalDivergenceIsJustified
PROPERTIES
  LedgerIsKept
CHECK_DEADLOCK FALSE
