SPECIFICATION PrintSpec
CONSTANTS
  cozinha = cozinha
  bar = bar
  imp = imp
  NumJobs = 3
  Setores = {cozinha, bar}
  Impressoras = {imp}
  Rota <- Rotas
  SemImpressora = SemImpressora
  Lease = 3
  Minuto = 4
  MaxAttempts = 2
  Limit = 1
  MaxPedidos = 1
  Antigos = 1
  Ilegiveis = {1, 2}
INVARIANTS
  PrintTypeOK
  PaperMatchesStatus
  RetriesStop
  SecondCopiesCounted
PROPERTIES
  EveryJobEnds
  EachTicketOnce
