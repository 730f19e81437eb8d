SPECIFICATION FiscalSpec
CONSTANTS
  q1 = q1
  NumDocs = 1
  NumCiclos = 2
  Consultas = {q1}
  Consultados = {1}
  Repetidos = {1}
  Lease = 1
  Retry = 2
  MaxIdade = 1
  Limit = 2
  Pulsos = 2
  Respostas <- Provider
  Esperas = {"NUNCA", "JA", "DEPOIS"}
INVARIANTS
  FiscalTypeOK
  RowsAgree
PROPERTIES
  IssuedIsKept
  AuthorizedIsFinal
  OneCallIssuesANote
