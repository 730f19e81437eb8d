SPECIFICATION SuporteSpec
CONSTANTS
  nfce = nfce
  setup = setup
  venda = venda
  SemOp = SemOp
  c1 = c1
  SemCopia = SemCopia
  Ops = {nfce, setup, venda}
  Proprias = {nfce}
  Partes = 2
  Niveis = 2
  ComArquivo = {nfce}
  Instalacao = setup
  Versoes = 2
  Copias = {c1}
INVARIANTS
  SuporteTypeOK
  AllOrNothing
  NothingLeftOpen
  ConfirmedIsKept
  

  
CHECK_DEADLOCK FALSE
