------------------------------- MODULE Banco --------------------------------
(***************************************************************************)
(* Transactions on the one connection of a process to its SQLite file:      *)
(* executeTransaction, which counts how deep it is nested and opens a        *)
(* transaction or a savepoint by that count, and the transaction that the   *)
(* fiscal repository keeps for itself.                                      *)
(*                                                                         *)
(* An operation is one outermost transaction that writes `Partes' parts,     *)
(* alone or inside nested transactions, as the saves of two aggregates inside *)
(* one service call.  The parts tell a complete operation from half of one.   *)
(* A statement may fail, with or without SQLite rolling the whole             *)
(* transaction back, and another process may hold the write lock.            *)
(***************************************************************************)
EXTENDS Integers, SequencesExt

CONSTANTS
  Ops,        \* operations
  Proprias,   \* those that FiscalRepository runs in a transaction of its own
  Partes,     \* writes of an operation
  Niveis,     \* how deep transactions are nested
  SemOp

ASSUME BancoAssumption ==
  /\ Proprias \subseteq Ops
  /\ Partes \in Nat \ {0}
  /\ Niveis \in Nat \ {0}
  /\ SemOp \notin Ops

VARIABLES
  disco,        \* the rows that are committed
  visivel,      \* the rows that the connection sees
  depth,        \* TRANSACTION_DEPTH of the connection
  quadros,      \* the calls of executeTransaction on the stack: the depth each read
  pilha,        \* the transaction and the savepoints that are open in SQLite:
                \* what each goes back to
  chamada,      \* the operation that runs, its writes so far, whether it throws
  confirmadas   \* history: operations whose transaction returned

bancoVars == <<disco, visivel, depth, quadros, pilha, chamada, confirmadas>>

Linhas == Ops \X (1..Partes)

\* The rows of operation o up to its n-th part.
LinhasDe(o, n) == {o} \X (1..n)

Ociosa == [op |-> SemOp, feitas |-> 0, lanca |-> FALSE]

EmChamada == chamada.op # SemOp

-----------------------------------------------------------------------------
(* executeTransaction *)

Empilha(nivel) ==
  /\ quadros' = Append(quadros, nivel)
  /\ pilha' = Append(pilha, visivel)

\* A service call begins its outermost transaction: BEGIN IMMEDIATE when the
\* depth is 0, a savepoint when it is not.
BeginTransaction(o) ==
  /\ ~EmChamada
  /\ chamada' = [Ociosa EXCEPT !.op = o]
  /\ IF o \in Proprias
       THEN Empilha(0) /\ UNCHANGED depth
       ELSE Empilha(depth) /\ depth' = depth + 1
  /\ UNCHANGED <<disco, visivel, confirmadas>>

\* Another process holds the write lock and BEGIN IMMEDIATE throws.  The depth
\* was raised before it, outside the try that lowers it again.
BeginFails(o) ==
  /\ ~EmChamada
  /\ o \in Proprias \/ depth = 0
  /\ depth' = IF o \in Proprias THEN depth ELSE depth + 1
  /\ UNCHANGED <<disco, visivel, quadros, pilha, chamada, confirmadas>>

\* A repository opens its own transaction inside that of its caller.
NestTransaction ==
  /\ EmChamada /\ ~chamada.lanca
  /\ chamada.op \notin Proprias
  /\ Len(quadros) < Niveis
  /\ Empilha(depth)
  /\ depth' = depth + 1
  /\ UNCHANGED <<disco, visivel, chamada, confirmadas>>

WriteRow ==
  /\ EmChamada /\ ~chamada.lanca
  /\ chamada.feitas < Partes
  /\ visivel' = visivel \cup {<<chamada.op, chamada.feitas + 1>>}
  /\ chamada' = [chamada EXCEPT !.feitas = @ + 1]
  /\ UNCHANGED <<disco, depth, quadros, pilha, confirmadas>>

\* Mutation: a call that ends does not lower the depth again.
RestoreDepthMutant ==
  /\ depth' = depth
  /\ quadros' = Front(quadros)

\* `finally': the depth that this call of executeTransaction had read.  The
\* transactions of FiscalRepository do not count.
RestoreDepth ==
  /\ depth' = IF chamada.op \in Proprias THEN depth ELSE Last(quadros)
  /\ quadros' = Front(quadros)

\* SQLite commits when the outermost transaction or savepoint is released.
Release(linhas) ==
  /\ pilha' = Front(pilha)
  /\ disco' = IF Len(pilha) = 1 THEN linhas ELSE disco

\* Mutation: the outermost call is the one that read depth 0, and only that one
\* releases what it opened.
ReturnFromCallbackMutant ==
  /\ EmChamada /\ ~chamada.lanca
  /\ Len(quadros) = 1 => chamada.feitas = Partes
  /\ IF Last(quadros) = 0
       THEN disco' = visivel /\ pilha' = <<>>
       ELSE UNCHANGED <<disco, pilha>>
  /\ RestoreDepth
  /\ chamada' = IF Len(quadros) = 1 THEN Ociosa ELSE chamada
  /\ confirmadas' =
       IF Len(quadros) = 1 THEN confirmadas \cup {chamada.op} ELSE confirmadas
  /\ UNCHANGED visivel

\* The callback returns: COMMIT, or RELEASE of its savepoint.
ReturnFromCallback ==
  /\ EmChamada /\ ~chamada.lanca
  /\ Len(quadros) = 1 => chamada.feitas = Partes
  /\ IF Last(quadros) = 0
       THEN disco' = visivel /\ pilha' = <<>>
       ELSE Release(visivel)
  /\ RestoreDepth
  /\ chamada' = IF Len(quadros) = 1 THEN Ociosa ELSE chamada
  /\ confirmadas' =
       IF Len(quadros) = 1 THEN confirmadas \cup {chamada.op} ELSE confirmadas
  /\ UNCHANGED visivel

\* A statement or the callback throws; on some errors (a full disk) SQLite has
\* rolled everything back by itself.
ThrowInCallback ==
  /\ EmChamada /\ ~chamada.lanca
  /\ chamada' = [chamada EXCEPT !.lanca = TRUE]
  /\ \/ UNCHANGED <<visivel, pilha>>
     \/ visivel' = disco /\ pilha' = <<>>
  /\ UNCHANGED <<disco, depth, quadros, confirmadas>>

\* Mutation: a nested call only releases its savepoint and leaves the rest to
\* its caller.
UnwindMutant ==
  /\ EmChamada /\ chamada.lanca
  /\ IF pilha = <<>>
       THEN UNCHANGED <<disco, visivel, pilha>>
       ELSE IF Last(quadros) = 0
         THEN visivel' = disco /\ pilha' = <<>> /\ UNCHANGED disco
         ELSE Release(visivel) /\ UNCHANGED visivel
  /\ RestoreDepth
  /\ chamada' = IF Len(quadros) = 1 THEN Ociosa ELSE chamada
  /\ UNCHANGED confirmadas

\* Mutation: the catch of the outermost call finds every write done and commits.
UnwindCommitsMutant ==
  /\ EmChamada /\ chamada.lanca
  /\ IF pilha = <<>>
       THEN UNCHANGED <<disco, visivel, pilha>>
       ELSE IF Last(quadros) = 0
         THEN /\ disco' = IF chamada.feitas = Partes THEN visivel ELSE disco
              /\ visivel' = disco' /\ pilha' = <<>>
         ELSE visivel' = Last(pilha) /\ Release(Last(pilha))
  /\ RestoreDepth
  /\ chamada' = IF Len(quadros) = 1 THEN Ociosa ELSE chamada
  /\ UNCHANGED confirmadas

\* The catch of the innermost call: ROLLBACK, or ROLLBACK TO its savepoint and
\* RELEASE; both throw when SQLite has already rolled back.  The exception goes
\* on to the caller.
Unwind ==
  /\ EmChamada /\ chamada.lanca
  /\ IF pilha = <<>>
       THEN UNCHANGED <<disco, visivel, pilha>>
       ELSE IF Last(quadros) = 0
         THEN visivel' = disco /\ pilha' = <<>> /\ UNCHANGED disco
         ELSE visivel' = Last(pilha) /\ Release(Last(pilha))
  /\ RestoreDepth
  /\ chamada' = IF Len(quadros) = 1 THEN Ociosa ELSE chamada
  /\ UNCHANGED confirmadas

InTransaction ==
  \/ NestTransaction \/ WriteRow \/ ReturnFromCallback \/ ThrowInCallback \/ Unwind

\* The process ends, or the connection is closed: what was not committed is gone,
\* and so is the depth, which was kept for that connection.
LoseConnection ==
  /\ visivel' = disco
  /\ depth' = 0
  /\ quadros' = <<>>
  /\ pilha' = <<>>
  /\ chamada' = Ociosa
  /\ UNCHANGED <<disco, confirmadas>>

BancoInit ==
  /\ disco = {}
  /\ visivel = {}
  /\ depth = 0
  /\ quadros = <<>>
  /\ pilha = <<>>
  /\ chamada = Ociosa
  /\ confirmadas = {}

BancoNext ==
  \/ \E o \in Ops : BeginTransaction(o) \/ BeginFails(o)
  \/ InTransaction
  \/ LoseConnection

BancoSpec == BancoInit /\ [][BancoNext]_bancoVars

-----------------------------------------------------------------------------
(* Properties *)

Inteira(linhas, o) ==
  \/ LinhasDe(o, Partes) \subseteq linhas
  \/ LinhasDe(o, Partes) \cap linhas = {}

\* All the rows of an operation are committed or none is, in any order of
\* failures: also after a BEGIN that failed has left the depth at 1 and every
\* later outermost transaction is a savepoint.
AllOrNothing == \A o \in Ops : Inteira(disco, o)

\* Between two calls nothing is open in SQLite and the connection sees what is
\* committed, even when the depth is stuck.
NothingLeftOpen ==
  ~EmChamada =>
    /\ pilha = <<>>
    /\ quadros = <<>>
    /\ visivel = disco
    /\ depth <= 1
=============================================================================
