SPECIFICATION TerminalSpec
CONSTANTS
  g = g
  w = w
  n = n
  p1 = p1
  p2 = p2
  p3 = p3
  OpIds = {g, w, n}
  Pins = {p1, p2, p3}
  Celulares = {t1}
  Ttl = 1
  SemOp = SemOp
  SemPin = SemPin
  NumComandas = 2
  Numeros = {1, 2}
  MaxItens = 1
  MaxMovimentos = 2
  MaxProdutos = 2
  MaxCanal = 2
  MaxAtos = 3
  Inicios <- MC_Inicios
INVARIANTS
  TerminalTypeOK
  ScreenAgrees
  PinGoesToItsOwner
  TurnEnds
PROPERTY
  SavingEnds
CHECK_DEADLOCK FALSE
